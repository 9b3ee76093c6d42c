\* Every command word, up to three or four arguments after it (six for
\* patch); a typed build of 4 characters, and one of 50 that overruns.
CONSTANTS
  Argvs <- MCArgvs
  Info <- MCInfo
  ScanLens = {4, 50}
SPECIFICATION FairSpec
INVARIANTS TypeOK ArgvReadsInBounds
PROPERTY ParseArgumentsTerminates
