SPECIFICATION FairSpec
CONSTANTS
  Worker <- Workers1
  Opts <- Opts1
  MaxSignals = 1
  MaxLines = 1
PROPERTY SignalStopsServer
