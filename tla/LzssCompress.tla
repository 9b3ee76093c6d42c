---------------------------- MODULE LzssCompress ----------------------------
(***************************************************************************)
(* LzssCompress and its private Compress loop (IMG3_LzssInterface.cpp     *)
(* lines 87-133 and 236-352).  One action per step of the loop:            *)
(*   CompressTooSmall / CompressStart  entry checks, priming, first inserts *)
(*   EncodeUnit     emit one literal or (position, length) unit, lines 283-308 *)
(*   SlideRead      one iteration of the reading slide, lines 310-328      *)
(*   SlideTail      one iteration of the end-of-text slide, lines 329-338  *)
(*   UnitDone       the do-while test len > 0, line 339                    *)
(*   CompressFlush  last code group and the header, lines 340-351, 121-131 *)
(* Data bytes are drawn from a small alphabet; the encoded stream is       *)
(* bytes 0..255 packed exactly as the code packs them.                     *)
(***************************************************************************)
EXTENDS LzssTree

CONSTANT MaxLen   \* the longest input considered

ASSUME MaxLen \in Nat

VARIABLES
  input,      \* the buffer handed to LzssCompress
  cpc,        \* where the compressor is: "idle", "prime", "encode", "slide", "flush", "done", "failed"
  sp,         \* struct encode_state
  src,        \* number of input bytes consumed (src - inbuff)
  s, r,       \* ring positions: s the oldest byte, r the current one
  len,        \* bytes of lookahead still to encode
  code_buf,   \* code_buf[0..code_buf_ptr-1] as a sequence
  mask,       \* the flag bit of the next unit
  i,          \* slide loop counter
  last_match_length,
  dst,        \* the encoded stream written after the header so far
  comp        \* the finished output buffer: header fields, body and size

compVars == <<input, cpc, sp, src, s, r, len, code_buf, mask, i,
              last_match_length, dst, comp>>

NoComp == [size |-> 0]

\* The output buffer is insize*2 + sizeof(header) bytes and Compress is
\* given that whole size as dstlen although dst starts after the header.
DstLen == 2 * Len(input) + HeaderSize

\* Appending a code group one byte at a time with the dst < dstend check.
FitsDst(bytes) == Len(dst) + Len(bytes) <= DstLen

CompressInit ==
  /\ input \in BoundedSeq(Alphabet, MaxLen)
  /\ cpc = "idle"
  /\ sp = InitState
  /\ src = 0 /\ s = 0 /\ r = N - F /\ len = 0
  /\ code_buf = <<0>> /\ mask = 1 /\ i = 0 /\ last_match_length = 0
  /\ dst = <<>> /\ comp = NoComp

\* LzssCompress lines 98-102: input smaller than a header is refused.
CompressTooSmall ==
  /\ cpc = "idle"
  /\ Len(input) < HeaderSize
  /\ cpc' = "failed"
  /\ UNCHANGED <<input, sp, src, s, r, len, code_buf, mask, i, last_match_length, dst, comp>>

\* Lines 261-268: read up to F bytes into text_buf[r..] and
\* fail on empty text.
CompressStart ==
  /\ cpc = "idle"
  /\ Len(input) >= HeaderSize
  /\ LET n == IF Len(input) < F THEN Len(input) ELSE F
     IN  IF n = 0
         THEN /\ cpc' = "failed"
              /\ UNCHANGED <<sp, src, len, i>>
         ELSE /\ sp' = [sp EXCEPT !.text_buf = [k \in TextIdx |->
                          IF k >= r /\ k < r + n THEN input[k - r + 1] ELSE @[k]]]
              /\ src' = n
              /\ len' = n
              /\ i' = 1
              /\ cpc' = "prime"
  /\ UNCHANGED <<input, s, r, code_buf, mask, last_match_length, dst, comp>>

\* Lines 269-275: one pass of the loop inserting the F strings before r.
PrimeInsert ==
  /\ cpc = "prime" /\ i <= F
  /\ sp' = InsertNode(sp, r - i)
  /\ i' = i + 1
  /\ UNCHANGED <<input, cpc, src, s, r, len, code_buf, mask, last_match_length, dst, comp>>

\* Lines 276-281: insert the string just read, which sets match_length and
\* match_position, and start encoding.
PrimeDone ==
  /\ cpc = "prime" /\ i > F
  /\ sp' = InsertNode(sp, r)
  /\ cpc' = "encode"
  /\ UNCHANGED <<input, src, s, r, len, code_buf, mask, i, last_match_length, dst, comp>>

\* Mutation-analysis variant of EncodeUnit: a shipped code group is not
\* cleared (code_buf_ptr and code_buf[0] keep their values).
EncodeUnit_NoGroupReset ==
  /\ cpc = "encode"
  /\ LET ml   == IF sp.match_length > len THEN len ELSE sp.match_length
         lit  == ml <= THRESHOLD
         unit == IF lit THEN 1 ELSE ml
         pos  == sp.match_position
         cb   == IF lit
                 THEN [code_buf EXCEPT ![1] = @ | mask] \o <<sp.text_buf[r]>>
                 ELSE code_buf \o << pos % 256,
                                     ((pos \div 16) & 240) | (ml - (THRESHOLD + 1)) >>
         mask2 == (mask * 2) % 256
     IN  IF mask2 = 0 /\ ~FitsDst(cb)
         THEN /\ cpc' = "failed"
              /\ UNCHANGED <<sp, code_buf, mask, dst, i, last_match_length>>
         ELSE /\ dst' = IF mask2 = 0 THEN dst \o cb ELSE dst
              /\ code_buf' = cb
              /\ mask' = IF mask2 = 0 THEN 1 ELSE mask2
              /\ sp' = [sp EXCEPT !.match_length = unit]
              /\ last_match_length' = unit
              /\ i' = 0
              /\ cpc' = "slide"
  /\ UNCHANGED <<input, src, s, r, len, comp>>

\* Lines 283-309: clamp the match to the text left, emit a literal or a
\* (position, length) pair, ship the group of eight units when the mask
\* wraps (failing if the output buffer is full).
EncodeUnit ==
  /\ cpc = "encode"
  /\ LET ml   == IF sp.match_length > len THEN len ELSE sp.match_length
         lit  == ml <= THRESHOLD
         unit == IF lit THEN 1 ELSE ml
         pos  == sp.match_position
         cb   == IF lit
                 THEN [code_buf EXCEPT ![1] = @ | mask] \o <<sp.text_buf[r]>>
                 ELSE code_buf \o << pos % 256,
                                     ((pos \div 16) & 240) | (ml - (THRESHOLD + 1)) >>
         mask2 == (mask * 2) % 256
     IN  IF mask2 = 0 /\ ~FitsDst(cb)
         THEN /\ cpc' = "failed"
              /\ UNCHANGED <<sp, code_buf, mask, dst, i, last_match_length>>
         ELSE /\ IF mask2 = 0
                 THEN /\ dst' = dst \o cb
                      /\ code_buf' = <<0>>
                      /\ mask' = 1
                 ELSE /\ code_buf' = cb
                      /\ mask' = mask2
                      /\ UNCHANGED dst
              /\ sp' = [sp EXCEPT !.match_length = unit]
              /\ last_match_length' = unit
              /\ i' = 0
              /\ cpc' = "slide"
  /\ UNCHANGED <<input, src, s, r, len, comp>>

\* Lines 310-328: drop the oldest string, read one byte into its slot (and
\* its mirror past N), advance both positions, insert the new string.
SlideRead ==
  /\ cpc = "slide"
  /\ i < last_match_length /\ src < Len(input)
  /\ \E sp1 \in {DeleteNode(sp, s)} :
       LET c   == input[src + 1]
           sp2 == [sp1 EXCEPT !.text_buf[s] = c]
       IN  \E sp3 \in {IF s < F - 1 THEN [sp2 EXCEPT !.text_buf[s + N] = c] ELSE sp2} :
              sp' = InsertNode(sp3, (r + 1) % N)
  /\ s' = (s + 1) % N
  /\ r' = (r + 1) % N
  /\ src' = src + 1
  /\ i' = i + 1
  /\ UNCHANGED <<input, cpc, len, code_buf, mask, last_match_length, dst, comp>>

\* Lines 329-338: past the end of the text, slide without reading and
\* insert only while lookahead remains.
SlideTail ==
  /\ cpc = "slide"
  /\ i < last_match_length /\ src = Len(input)
  /\ \E sp1 \in {DeleteNode(sp, s)} :
       sp' = IF len - 1 # 0 THEN InsertNode(sp1, (r + 1) % N) ELSE sp1
  /\ s' = (s + 1) % N
  /\ r' = (r + 1) % N
  /\ len' = len - 1
  /\ i' = i + 1
  /\ UNCHANGED <<input, cpc, src, code_buf, mask, last_match_length, dst, comp>>

\* Line 339: loop while lookahead remains.
UnitDone ==
  /\ cpc = "slide"
  /\ i >= last_match_length
  /\ cpc' = IF len > 0 THEN "encode" ELSE "flush"
  /\ UNCHANGED <<input, sp, src, s, r, len, code_buf, mask, i, last_match_length, dst, comp>>

\* LzssCompress lines 121-131: the output size rounded up to 16 and the
\* header fields written in front of the encoded body.
LzssHeader(in, body) ==
  [signature           |-> COMP_SIGNATURE,
   compression_type    |-> LZSS_SIGNATURE,
   checksum            |-> lzadler32(in),
   length_uncompressed |-> Len(in),
   length_compressed   |-> Len(body),
   body                |-> body,
   size                |-> RoundUp16(HeaderSize + Len(body))]

\* Lines 340-351 and LzssCompress 121-131: send the partial group, round
\* the size up to 16 and fill in the header.
CompressFlush ==
  /\ cpc = "flush"
  /\ LET out == IF Len(code_buf) > 1 THEN dst \o code_buf ELSE dst
     IN  IF Len(code_buf) > 1 /\ ~FitsDst(code_buf)
         THEN /\ cpc' = "failed"
              /\ UNCHANGED <<dst, comp>>
         ELSE /\ dst' = out
              /\ comp' = LzssHeader(input, out)
              /\ cpc' = "done"
  /\ UNCHANGED <<input, sp, src, s, r, len, code_buf, mask, i, last_match_length>>

CompressNext ==
  \/ CompressTooSmall \/ CompressStart \/ PrimeInsert \/ PrimeDone \/ EncodeUnit
  \/ SlideRead \/ SlideTail \/ UnitDone \/ CompressFlush
=============================================================================
