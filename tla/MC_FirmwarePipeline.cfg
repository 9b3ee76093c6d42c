\* Every command; up to two extracted files, so the per-file loops run a
\* second iteration; payloads of 16 (aligned, smaller than an LZSS
\* header), 20 (padded) and 48 bytes (aligned, larger than the header of
\* 32 bytes, the scaled 0x180).
CONSTANTS
  Commands = {"decrypt", "update", "patch", "parse", "decompress"}
  MaxFiles = 2
  Lengths = {16, 20, 48}
  LzssHeaderSize = 32
  MaxFd = 4
SPECIFICATION Spec
INVARIANT NoMappingLeftOnReturn
