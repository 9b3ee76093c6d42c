------------------------------ MODULE LzssTree ------------------------------
(***************************************************************************)
(* The compressor's working set, struct encode_state, and the three        *)
(* routines that maintain its binary search tree: InitState, InsertNode    *)
(* and DeleteNode (IMG3_LzssInterface.cpp lines 359-465).                  *)
(*                                                                         *)
(* The tree is kept exactly as the code keeps it: parallel arrays lchild,  *)
(* rchild and parent indexed by ring-buffer position, NIL = N as the empty *)
(* link, and 256 root slots rchild[N+1+c], one per first byte c.  Each     *)
(* routine is a pure operator from encode_state to encode_state; its       *)
(* sequential assignments are a chain of LET steps, in the code's order,   *)
(* because later assignments read links that earlier ones may have moved.  *)
(***************************************************************************)
EXTENDS Integers, LzssCommon

CONSTANT Alphabet   \* the byte values an input may contain

ASSUME Alphabet \subseteq Byte

\* The bytes text_buf can hold: input bytes, the space pre-fill and the
\* zeros bzero leaves past the text.  The root slots of all other bytes
\* stay NIL for the whole run and are left out of rchild.
TextByte == Alphabet \cup {Space, 0}

\* Index sets of the arrays of struct encode_state (IMG3_LzssInterface.h).
TextIdx   == 0 .. N + F - 2
NodeIdx   == 0 .. N
RchildIdx == (0 .. N) \cup {N + 1 + c : c \in TextByte}

\* A root slot of the tree of strings starting with byte c.
Root(c) == N + 1 + c

\* InitState: bzero the structure, fill text_buf[0..N-F-1] with spaces,
\* make every root empty and every ring position "not in the tree".
InitState ==
  [ text_buf       |-> [k \in TextIdx |-> IF k < N - F THEN Space ELSE 0],
    lchild         |-> [k \in NodeIdx |-> 0],
    rchild         |-> [k \in RchildIdx |-> IF k > N THEN NIL ELSE 0],
    parent         |-> [k \in NodeIdx |-> IF k < N THEN NIL ELSE 0],
    match_position |-> 0,
    match_length   |-> 0 ]

\* Mutation-analysis variant of FirstMismatch: the comparison loop runs
\* i <= F, so a full match reports F + 1.
FirstMismatch_PastF(tb, r, p) ==
  LET diffs == {k \in 1 .. F - 1 : tb[r + k] # tb[p + k]}
  IN  IF diffs = {} THEN F + 1 ELSE CHOOSE k \in diffs : \A j \in diffs : k <= j

\* The inner comparison loop of InsertNode: the first offset i in 1..F-1
\* where the strings at r and p differ, or F if the F bytes agree.
FirstMismatch(tb, r, p) ==
  LET diffs == {k \in 1 .. F - 1 : tb[r + k] # tb[p + k]}
  IN  IF diffs = {} THEN F ELSE CHOOSE k \in diffs : \A j \in diffs : k <= j

\* The value cmp is left with by that loop.
CmpAt(tb, r, p, i) == IF i < F THEN tb[r + i] - tb[p + i] ELSE 0

\* Lines 417-426: node r takes node p's place in the tree and p leaves it.
ReplaceNode(sp, r, p) ==
  LET e1 == [sp EXCEPT !.parent[r] = sp.parent[p],
                       !.lchild[r] = sp.lchild[p],
                       !.rchild[r] = sp.rchild[p]]
      e2 == [e1 EXCEPT !.parent[e1.lchild[p]] = r]
      e3 == [e2 EXCEPT !.parent[e2.rchild[p]] = r]
      pp == e3.parent[p]
      e4 == IF e3.rchild[pp] = p THEN [e3 EXCEPT !.rchild[pp] = r]
                                 ELSE [e3 EXCEPT !.lchild[pp] = r]
  IN  [e4 EXCEPT !.parent[p] = NIL]

\* The for(;;) loop of InsertNode, standing at node p with the last
\* comparison result cmp and the longest match so far (mpos, mlen):
\* descend, or hang r below p; a full F-byte match replaces p by r.
RECURSIVE InsertWalk(_, _, _, _, _, _)
InsertWalk(sp, r, p, cmp, mpos, mlen) ==
  LET next == IF cmp >= 0 THEN sp.rchild[p] ELSE sp.lchild[p]
  IN  IF next = NIL
      THEN IF cmp >= 0
           THEN [sp EXCEPT !.rchild[p] = r, !.parent[r] = p,
                           !.match_position = mpos, !.match_length = mlen]
           ELSE [sp EXCEPT !.lchild[p] = r, !.parent[r] = p,
                           !.match_position = mpos, !.match_length = mlen]
      ELSE LET i      == FirstMismatch(sp.text_buf, r, next)
               longer == i > mlen
           IN  IF longer /\ i >= F
               THEN ReplaceNode([sp EXCEPT !.match_position = next, !.match_length = i], r, next)
               ELSE InsertWalk(sp, r, next, CmpAt(sp.text_buf, r, next, i),
                               IF longer THEN next ELSE mpos,
                               IF longer THEN i ELSE mlen)

\* InsertNode(sp, r): insert the string text_buf[r..r+F-1] and leave the
\* longest match against the strings already in the tree in match_*.
InsertNode(sp, r) ==
  InsertWalk([sp EXCEPT !.rchild[r] = NIL, !.lchild[r] = NIL],
             r, Root(sp.text_buf[r]), 1, sp.match_position, 0)

\* The do-while of DeleteNode: the rightmost node below q.
RECURSIVE Rightmost(_, _)
Rightmost(sp, q) == IF sp.rchild[q] = NIL THEN q ELSE Rightmost(sp, sp.rchild[q])

\* Mutation-analysis variant of DeleteNode: the replacement q is hung
\* under p's parent without its own parent link being updated (line 459
\* left out).
DeleteNode_NoParentLink(sp, p) ==
  IF sp.parent[p] = NIL THEN sp
  ELSE
    LET lp == sp.lchild[p]
        rp == sp.rchild[p]
        q  == CASE rp = NIL -> lp
                [] lp = NIL -> rp
                [] OTHER    -> IF sp.rchild[lp] # NIL THEN Rightmost(sp, sp.rchild[lp]) ELSE lp
        e1 == IF rp # NIL /\ lp # NIL /\ q # lp
              THEN LET a == [sp EXCEPT !.rchild[sp.parent[q]] = sp.lchild[q]]
                       b == [a EXCEPT !.parent[a.lchild[q]] = a.parent[q]]
                       c == [b EXCEPT !.lchild[q] = b.lchild[p]]
                   IN  [c EXCEPT !.parent[c.lchild[p]] = q]
              ELSE sp
        e2 == IF rp # NIL /\ lp # NIL
              THEN LET a == [e1 EXCEPT !.rchild[q] = e1.rchild[p]]
                   IN  [a EXCEPT !.parent[a.rchild[p]] = q]
              ELSE e1
        pp == e2.parent[p]
        e4 == IF e2.rchild[pp] = p THEN [e2 EXCEPT !.rchild[pp] = q]
                                   ELSE [e2 EXCEPT !.lchild[pp] = q]
    IN  [e4 EXCEPT !.parent[p] = NIL]

\* DeleteNode(sp, p): unlink p, splicing in its in-order predecessor q when
\* p has two children.
DeleteNode(sp, p) ==
  IF sp.parent[p] = NIL THEN sp
  ELSE
    LET lp == sp.lchild[p]
        rp == sp.rchild[p]
        two == rp # NIL /\ lp # NIL
        q  == CASE rp = NIL -> lp
                [] lp = NIL -> rp
                [] OTHER    -> IF sp.rchild[lp] # NIL THEN Rightmost(sp, sp.rchild[lp]) ELSE lp
        \* lines 451-454: q is detached from deeper down and adopts p's left subtree
        e1 == IF two /\ q # lp
              THEN LET a == [sp EXCEPT !.rchild[sp.parent[q]] = sp.lchild[q]]
                       b == [a EXCEPT !.parent[a.lchild[q]] = a.parent[q]]
                       c == [b EXCEPT !.lchild[q] = b.lchild[p]]
                   IN  [c EXCEPT !.parent[c.lchild[p]] = q]
              ELSE sp
        \* lines 456-457: q adopts p's right subtree
        e2 == IF two THEN LET a == [e1 EXCEPT !.rchild[q] = e1.rchild[p]]
                          IN  [a EXCEPT !.parent[a.rchild[p]] = q]
              ELSE e1
        \* lines 459-464: q takes p's place below p's parent
        e3 == [e2 EXCEPT !.parent[q] = e2.parent[p]]
        pp == e3.parent[p]
        e4 == IF e3.rchild[pp] = p THEN [e3 EXCEPT !.rchild[pp] = q]
                                   ELSE [e3 EXCEPT !.lchild[pp] = q]
    IN  [e4 EXCEPT !.parent[p] = NIL]
=============================================================================
