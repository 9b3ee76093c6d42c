---------------------------- MODULE LzssDecoding ----------------------------
(***************************************************************************)
(* LzssDecompress applied to any buffer a caller may hand it: a decrypted  *)
(* DATA payload is checked with IsFileCompressed and then decompressed     *)
(* (IMG3_Functions.cpp DecryptIMG3Data, DecompressLZSSFile), so the header *)
(* fields and the body come from the file.  The buffer is fixed for a run; *)
(* its bytes past the end of the body are Junk.                            *)
(***************************************************************************)
EXTENDS LzssDecompress

CONSTANTS
  BodyByte,   \* the byte values a body may contain
  MaxBody,    \* the longest body considered
  MaxField    \* the largest length_uncompressed / length_compressed value

\* Buffers of HeaderSize header bytes and a body: any magic words, any
\* length fields, any checksum word (only its comparison matters: 0 or
\* the true Adler-32 of the decoded output would be tried alike).
Buffers ==
  { [signature           |-> sg,
     compression_type    |-> ct,
     checksum            |-> 0,
     length_uncompressed |-> lu,
     length_compressed   |-> lc,
     body                |-> b,
     size                |-> HeaderSize + Len(b)] :
      sg \in Magic, ct \in Magic, lu \in 0 .. MaxField, lc \in 0 .. MaxField,
      b \in BoundedSeq(BodyByte, MaxBody) }

vars == <<dbuf, decVars>>

Init == dbuf \in Buffers /\ DecoderInit

Finished == dpc \in {"done", "failed"}

Stop == Finished /\ UNCHANGED vars

Next == (DecompressNext /\ UNCHANGED dbuf) \/ Stop

Spec == Init /\ [][Next]_vars


(***************************************************************************)
(* Decompress touches only memory it owns and has written: it reads no    *)
(* byte past the body of the buffer LzssDecompress was given, copies no   *)
(* byte from a ring position it never initialised (text_buf is a local    *)
(* array whose last F slots are not pre-filled), and writes no more bytes *)
(* than the length_uncompressed it allocated.  length_compressed comes    *)
(* from the header and is never compared with insize, a match may point   *)
(* anywhere in the ring, and the loop has no bound on dst.                *)
(***************************************************************************)
DecompressMemorySafe ==
  /\ dsrc <= Len(dbuf.body)
  /\ \A k \in 1 .. Len(out) : out[k] # Junk
  /\ Len(out) <= outsize
=============================================================================
