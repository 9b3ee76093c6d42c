\* The bounds of MC_KeyStore.cfg, with every statement able to fail and
\* the process able to die at any point.
CONSTANTS
  Devices <- MCDevices
  Quoted <- MCQuoted
  Versions = {"3.0"}
  Sections = {"kernelcache", "ibot"}
  Values = {1, 2}
  MaxRecords = 1
  MaxCommands = 3
  FaultPoints = {"open", "devExists", "secExists", "create", "updKey", "updIV", "insert", "select"}
  CrashPoints = {"connect", "record", "secExists", "create", "updKey", "updIV", "insert", "select"}
SPECIFICATION Spec
PROPERTY KeyMapRefinement
