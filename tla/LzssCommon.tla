----------------------------- MODULE LzssCommon -----------------------------
(***************************************************************************)
(* Constants and helpers shared by the LZSS compressor and decompressor of *)
(* src/src/compression/IMG3_LzssInterface.{h,cpp}.                         *)
(*                                                                         *)
(* The code fixes N = 4096, F = 18, THRESHOLD = 2 and a 0x180-byte header. *)
(* The model keeps them as CONSTANTS so that TLC can run the ring buffer   *)
(* through several wrap-arounds with inputs of a few bytes: N must be a    *)
(* power of two (the code masks with N-1) and the match length code        *)
(* F - THRESHOLD - 1 must fit the 4-bit length field.                      *)
(***************************************************************************)
EXTENDS Naturals, Sequences, SequencesExt, Bitwise

CONSTANTS
  N,          \* ring buffer size, IMG3_LZSSINTERFACE_N
  F,          \* lookahead size, IMG3_LZSSINTERFACE_F
  THRESHOLD,  \* longest match still sent as literals, IMG3_LZSSINTERFACE_THRESHOLD
  Space,      \* the byte the ring buffer is pre-filled with (' ')
  HeaderSize  \* sizeof(IMG3_LzssInterface_CompressionHeader), scaled down

ASSUME N \in {2^k : k \in 2..12}
ASSUME F \in 2..N-1 /\ 2 * F <= N /\ THRESHOLD \in 1..F-1 /\ F - THRESHOLD - 1 < 16
ASSUME Space \in 0..255 /\ HeaderSize \in Nat

\* IMG3_LZSSINTERFACE_NIL: the "no node" index of the search tree.
NIL == N

Byte == 0..255

\* The two magic words of the header; any other word is Other.
COMP_SIGNATURE == "comp"
LZSS_SIGNATURE == "lzss"
Magic == {COMP_SIGNATURE, LZSS_SIGNATURE, "other"}

\* lzadler32: two running sums modulo 65521 over the buffer, s1 starting
\* at 1 and s2 at 0, combined as (s2 << 16) | s1.
lzadler32(buf) ==
  LET step(acc, b) == LET s1 == (acc[1] + b) % 65521
                      IN  <<s1, (acc[2] + s1) % 65521>>
      sums == FoldLeft(step, <<1, 0>>, buf)
  IN  sums[2] * 65536 + sums[1]

\* IsFileCompressed: a buffer is taken as LZSS data unless BOTH magic words
\* differ from the expected ones (the code joins the two tests with &&).
IsFileCompressed(hdr) ==
  ~ (hdr.signature # COMP_SIGNATURE /\ hdr.compression_type # LZSS_SIGNATURE)

\* The 16-byte rounding LzssCompress applies to the output size.
RoundUp16(n) == IF n % 16 # 0 THEN n + (16 - (n % 16)) ELSE n
=============================================================================
