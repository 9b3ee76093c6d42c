\* The decrypt command on payloads whose length is a multiple of 16, so
\* that no padding copy is made; 16 bytes is less than an LZSS header.
CONSTANTS
  Commands = {"decrypt"}
  MaxFiles = 2
  Lengths = {16, 48}
  LzssHeaderSize = 32
  MaxFd = 4
SPECIFICATION Spec
INVARIANT HeapDiscipline
