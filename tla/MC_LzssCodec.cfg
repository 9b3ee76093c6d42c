\* A ring of 8 with a lookahead of 4: inputs of up to 9 bytes wrap it and
\* fill more than one code group of eight units.
CONSTANTS
  N = 8
  F = 4
  THRESHOLD = 2
  Space = 32
  HeaderSize = 2
  Alphabet = {32, 65, 66}
  MaxLen = 8
SPECIFICATION Spec
INVARIANTS TypeOK SearchTreeWellFormed RoundTrip BodyWithinAllocation
