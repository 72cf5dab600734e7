SPECIFICATION FairSpec
CONSTANTS
  Worker <- Workers1
  Opts <- Opts2
  MaxSignals = 2
  MaxLines = 2
INVARIANT TypeOK
INVARIANT LogLinesWhole
INVARIANT ServesOnlyReady
INVARIANT CommandLineWins
PROPERTY LogOnlyGrows
PROPERTY LogReturns
PROPERTY ShutdownEnds
