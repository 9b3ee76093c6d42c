--------------------------- MODULE LzssDecompress ---------------------------
(***************************************************************************)
(* LzssDecompress and its private Decompress loop (IMG3_LzssInterface.cpp *)
(* lines 35-77 and 186-226), applied to the buffer dbuf.                   *)
(*   DecompressRefuse  the size and IsFileCompressed checks, lines 44-56    *)
(*   DecompressStart   allocate the output, pre-fill the ring, lines 58-66, 195-200 *)
(*   DecodeLiteral / DecodeMatch / DecodeStop  one pass of the for(;;) loop *)
(*   DecompressFinish  the Adler-32 comparison, lines 68-76                *)
(* The ring positions N-F..N-1 are never initialised by the code (a local  *)
(* array); they start as Junk, a value no input byte has, so a read of     *)
(* them shows up in the output.                                            *)
(***************************************************************************)
EXTENDS Integers, LzssCommon

VARIABLES
  dbuf,       \* the buffer handed to LzssDecompress: header fields, body, size
  dpc,        \* "idle", "loop", "check", "done", "failed"
  dsrc,       \* bytes of the body consumed
  flags,      \* the shifting control word
  text_buf,   \* the decoder's ring buffer
  dr,         \* its write position
  outsize,    \* length_uncompressed: the size of the allocated output
  out,        \* the bytes written to the output buffer so far
  checksum_ok \* whether the Adler-32 of the output matched the header

decVars == <<dpc, dsrc, flags, text_buf, dr, outsize, out, checksum_ok>>

Junk   == 256   \* a ring byte the code never initialised
Beyond == 257   \* a byte read past the end of the buffer

DecoderInit ==
  /\ dpc = "idle" /\ dsrc = 0 /\ flags = 0
  /\ text_buf = [k \in 0 .. N - 1 |-> Junk] /\ dr = N - F
  /\ outsize = 0 /\ out = <<>> /\ checksum_ok = FALSE

\* srcend: the loop reads length_compressed bytes past the header.
SrcLen == dbuf.length_compressed

\* The body byte at offset k (0-based).  Bytes past the real body belong to
\* whatever follows the buffer: Beyond.
SrcByte(k) == IF k < Len(dbuf.body) THEN dbuf.body[k + 1] ELSE Beyond

\* The head of the loop: shift flags and, when the eight flag bits are
\* used up, load the next control byte ORed with 0xFF00.
Reload   == ((flags \div 2) \div 256) % 2 = 0
CtlFlags == IF Reload THEN SrcByte(dsrc) + 65280 ELSE flags \div 2
CtlSrc   == IF Reload THEN dsrc + 1 ELSE dsrc
CtlOk    == ~Reload \/ dsrc < SrcLen

DecompressRefuse ==
  /\ dpc = "idle"
  /\ dbuf.size < HeaderSize \/ ~IsFileCompressed(dbuf)
  /\ dpc' = "failed"
  /\ UNCHANGED <<dsrc, flags, text_buf, dr, outsize, out, checksum_ok>>

DecompressStart ==
  /\ dpc = "idle"
  /\ dbuf.size >= HeaderSize /\ IsFileCompressed(dbuf)
  /\ outsize' = dbuf.length_uncompressed
  /\ text_buf' = [k \in 0 .. N - 1 |-> IF k < N - F THEN Space ELSE Junk]
  /\ dr' = N - F
  /\ flags' = 0
  /\ dsrc' = 0
  /\ dpc' = "loop"
  /\ UNCHANGED <<out, checksum_ok>>

\* Flag bit 1: copy one byte to the output and the ring.
DecodeLiteral ==
  /\ dpc = "loop"
  /\ CtlOk /\ CtlFlags % 2 = 1 /\ CtlSrc < SrcLen
  /\ LET c == SrcByte(CtlSrc)
     IN  /\ out' = Append(out, c)
         /\ text_buf' = [text_buf EXCEPT ![dr] = c]
  /\ dr' = (dr + 1) % N
  /\ dsrc' = CtlSrc + 1
  /\ flags' = CtlFlags
  /\ UNCHANGED <<dpc, outsize, checksum_ok>>

\* The copy loop for k = 0..j: each byte is read from the ring after the
\* previous one was written, so a match may overlap its own output.
RECURSIVE CopyMatch(_, _, _, _, _)
CopyMatch(tb, w, o, pos, n) ==
  IF n = 0 THEN [tb |-> tb, w |-> w, o |-> o]
  ELSE LET c == tb[pos % N]
       IN  CopyMatch([tb EXCEPT ![w] = c], (w + 1) % N, Append(o, c), pos + 1, n - 1)

\* Mutation-analysis variant of DecodeMatch: the copy loop runs k < j
\* instead of k <= j, one byte short.
DecodeMatch_ShortCopy ==
  /\ dpc = "loop"
  /\ CtlOk /\ CtlFlags % 2 = 0 /\ CtlSrc + 1 < SrcLen
  /\ LET b0  == SrcByte(CtlSrc)
         b1  == SrcByte(CtlSrc + 1)
         cp  == CopyMatch(text_buf, dr, out, b0 | ((b1 & 240) * 16), (b1 & 15) + THRESHOLD)
     IN  /\ text_buf' = cp.tb
         /\ dr' = cp.w
         /\ out' = cp.o
  /\ dsrc' = CtlSrc + 2
  /\ flags' = CtlFlags
  /\ UNCHANGED <<dpc, outsize, checksum_ok>>

\* Flag bit 0: two bytes give a 12-bit position and a 4-bit length code;
\* length code + THRESHOLD + 1 bytes are copied from the ring.
DecodeMatch ==
  /\ dpc = "loop"
  /\ CtlOk /\ CtlFlags % 2 = 0 /\ CtlSrc + 1 < SrcLen
  /\ LET b0  == SrcByte(CtlSrc)
         b1  == SrcByte(CtlSrc + 1)
         pos == b0 | ((b1 & 240) * 16)
         cp  == CopyMatch(text_buf, dr, out, pos, (b1 & 15) + THRESHOLD + 1)
     IN  /\ text_buf' = cp.tb
         /\ dr' = cp.w
         /\ out' = cp.o
  /\ dsrc' = CtlSrc + 2
  /\ flags' = CtlFlags
  /\ UNCHANGED <<dpc, outsize, checksum_ok>>

\* Any of the four "else break" exits: the input ran out mid-decision.
DecodeStop ==
  /\ dpc = "loop"
  /\ \/ ~CtlOk
     \/ CtlFlags % 2 = 1 /\ CtlSrc >= SrcLen
     \/ CtlFlags % 2 = 0 /\ CtlSrc + 1 >= SrcLen
  /\ dpc' = "check"
  /\ UNCHANGED <<dsrc, flags, text_buf, dr, outsize, out, checksum_ok>>

\* Lines 68-76: a mismatch is only noted; the call succeeds either way.
\* Output bytes never written are uninitialised, so the comparison over
\* a short output may go either way.
DecompressFinish ==
  /\ dpc = "check"
  /\ IF Len(out) = outsize
     THEN checksum_ok' = (lzadler32(out) = dbuf.checksum)
     ELSE checksum_ok' \in BOOLEAN
  /\ dpc' = "done"
  /\ UNCHANGED <<dsrc, flags, text_buf, dr, outsize, out>>

DecompressNext ==
  \/ DecompressRefuse \/ DecompressStart
  \/ DecodeLiteral \/ DecodeMatch \/ DecodeStop \/ DecompressFinish
=============================================================================
