\* The same argument vectors as MC_CommandLine.cfg.
CONSTANTS
  Argvs <- MCArgvs
  Info <- MCInfo
  ScanLens = {4, 50}
SPECIFICATION Spec
INVARIANT ParsedArgumentsUsable
