\* Three commands over two devices, one version and two sections, one
\* record per update; every statement whose failure the code
\* turns into a clean -1 may fail, and the process may die anywhere but
\* between the Key and the IV update.
CONSTANTS
  Devices <- MCDevices
  Quoted <- MCQuoted
  Versions = {"3.0"}
  Sections = {"kernelcache", "ibot"}
  Values = {1, 2}
  MaxRecords = 1
  MaxCommands = 3
  FaultPoints = {"open", "devExists", "create", "updKey", "insert", "select"}
  CrashPoints = {"connect", "record", "secExists", "create", "updKey", "insert", "select"}
SPECIFICATION Spec
INVARIANT TypeOK
PROPERTY KeyMapRefinement
