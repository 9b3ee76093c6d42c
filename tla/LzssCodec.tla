----------------------------- MODULE LzssCodec ------------------------------
(***************************************************************************)
(* The LZSS round trip: LzssCompress on an input, then LzssDecompress on   *)
(* the buffer it returned.  IMG3_Functions.cpp does exactly this when it   *)
(* re-compresses a patched kernel (EncryptIMG3Data) and when it later      *)
(* decompresses it again (DecryptIMG3Data).  The decoder runs only once    *)
(* the compressor has finished; both are sequential code.                  *)
(***************************************************************************)
EXTENDS LzssCompress

VARIABLES dpc, dsrc, flags, text_buf, dr, outsize, out, checksum_ok

Dec == INSTANCE LzssDecompress WITH dbuf <- comp

decVars == <<dpc, dsrc, flags, text_buf, dr, outsize, out, checksum_ok>>
vars    == <<compVars, decVars>>

Finished == cpc = "failed" \/ dpc \in {"done", "failed"}

Init == CompressInit /\ Dec!DecoderInit

\* The caller stops after a failed compression or a finished decompression.
Stop == Finished /\ UNCHANGED vars

Next ==
  \/ CompressNext /\ UNCHANGED decVars
  \/ cpc = "done" /\ Dec!DecompressNext /\ UNCHANGED compVars
  \/ Stop

Spec == Init /\ [][Next]_vars

-----------------------------------------------------------------------------
TypeOK ==
  /\ cpc \in {"idle", "prime", "encode", "slide", "flush", "done", "failed"}
  /\ dpc \in {"idle", "loop", "check", "done", "failed"}
  /\ s \in 0 .. N - 1 /\ r \in 0 .. N - 1 /\ dr \in 0 .. N - 1
  /\ mask \in {1, 2, 4, 8, 16, 32, 64, 128}
  /\ code_buf \in Seq(Byte) /\ dst \in Seq(Byte)
  /\ out \in Seq(Byte \cup {Dec!Junk, Dec!Beyond})
  /\ sp.match_length \in 0 .. F

\* The F bytes of the string at ring position p.
Key(p) == [k \in 0 .. F - 1 |-> sp.text_buf[p + k]]

\* Lexicographic order of two keys, as InsertNode's cmp orders them.
RECURSIVE LexLess(_, _, _)
LexLess(a, b, k) ==
  /\ k < F
  /\ \/ a[k] < b[k]
     \/ a[k] = b[k] /\ LexLess(a, b, k + 1)

InTree(p) == sp.parent[p] # NIL

\* The pairs <<q, side>> of the ancestors of p inside its tree, side saying
\* whether p hangs in q's left or right subtree, up to the root slot.
RECURSIVE Ancestry(_, _)
Ancestry(x, fuel) ==
  LET y == sp.parent[x]
  IN  IF fuel = 0 \/ y = NIL \/ y > N THEN {}
      ELSE {<<y, IF sp.lchild[y] = x THEN "l" ELSE "r">>} \cup Ancestry(y, fuel - 1)

\* The root slot p's chain of parents ends in, or NIL if it does not end.
RECURSIVE TopOf(_, _)
TopOf(x, fuel) ==
  IF fuel = 0 \/ sp.parent[x] = NIL THEN NIL
  ELSE IF sp.parent[x] > N THEN sp.parent[x] ELSE TopOf(sp.parent[x], fuel - 1)

(***************************************************************************)
(* The search tree InsertNode and DeleteNode maintain is well formed after *)
(* every step of the compressor: parent and child links agree, every node  *)
(* reaches the root slot of its first byte, and every node's key is        *)
(* strictly between those of the ancestors whose left/right subtree it is  *)
(* in.  A broken splice in DeleteNode or ReplaceNode, or a node left in    *)
(* the tree after its text was overwritten, violates it.                   *)
(***************************************************************************)
SearchTreeWellFormed ==
  cpc \in {"prime", "encode", "slide", "flush"} =>
  \A p \in 0 .. N - 1 : InTree(p) =>
     LET y == sp.parent[p]
     IN  /\ IF y > N THEN sp.rchild[y] = p
                     ELSE sp.lchild[y] = p \/ sp.rchild[y] = p
         /\ \A ch \in {sp.lchild[p], sp.rchild[p]} \ {NIL} : sp.parent[ch] = p
         /\ TopOf(p, N) = Root(sp.text_buf[p])
         /\ \A a \in Ancestry(p, N) :
               IF a[2] = "l" THEN LexLess(Key(p), Key(a[1]), 0)
                             ELSE LexLess(Key(a[1]), Key(p), 0)

(***************************************************************************)
(* Round trip: when LzssDecompress returns on the buffer LzssCompress      *)
(* produced, the output is the original input, the size it allocated from *)
(* length_uncompressed equals it, and the Adler-32 check passes.  This     *)
(* needs the encoder's match positions, its packing of position and       *)
(* length, the decoder's unpacking and overlapping copy, and both ring     *)
(* buffers' space pre-fill to agree.                                       *)
(***************************************************************************)
RoundTrip ==
  dpc = "done" => out = input /\ outsize = Len(input) /\ checksum_ok

(***************************************************************************)
(* Compress checks every write against dstlen = 2*insize + header size,    *)
(* although dst starts header-size bytes into the allocation.  The writes  *)
(* must nevertheless stay inside the 2*insize bytes after the header.     *)
(***************************************************************************)
BodyWithinAllocation == Len(dst) <= 2 * Len(input)
=============================================================================
