\* Files of 5 or 6 bytes with a 1-byte base header.  Section lengths are
\* 0 (the offset stays put), 2 (a normal step) and 7 (with 3-bit offsets,
\* 1 + 7 wraps to 0).  Payloads of 0 or 1 bytes with DATA's fixed payload
\* offset scaled to 2.  A well-formed file of these lengths has at most 3
\* sections after the base, so only a looping scan reaches MaxSections.
CONSTANTS
  FileLens = {5, 6}
  Lengths = {0, 2, 7}
  DataLens = {0, 1}
  BaseHdrLens = {1}
  DataHdr = 2
  W = 3
  MaxParses = 1
  MaxSections = 5
SPECIFICATION Spec
PROPERTY ScanTerminates
CHECK_DEADLOCK FALSE
