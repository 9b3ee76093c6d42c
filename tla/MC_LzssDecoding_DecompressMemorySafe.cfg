\* Bodies of up to 4 bytes over a control byte of all pairs (0), of all
\* literals (255), a mixed one (1) and a data byte (65); header length
\* fields up to 5.  A pair with length code 0 copies THRESHOLD+1 bytes.
CONSTANTS
  N = 8
  F = 4
  THRESHOLD = 2
  Space = 32
  HeaderSize = 2
  BodyByte = {0, 1, 65, 255}
  MaxBody = 4
  MaxField = 5
SPECIFICATION Spec
INVARIANT DecompressMemorySafe
