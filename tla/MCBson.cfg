SPECIFICATION Spec
CONSTANTS
  Mantissa = 8
  Docs <- MCDocs
  Formats <- MCFormats
  IntMax = 3
  PrintLimit = 2
  InitSize = 12
  GrowStep = 4
  BufferMaxSize = 64
  Probes <- MCProbes
  Names <- MCNames
  Keys <- MCKeys
INVARIANT BuildersShow
INVARIANT RoundTrip
INVARIANT UnwindIsSafe
INVARIANT OrderIsTotal
INVARIANT SortKeysAgree
