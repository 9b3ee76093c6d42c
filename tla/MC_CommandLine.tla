--------------------------- MODULE MC_CommandLine ---------------------------
(***************************************************************************)
(* Argument vectors for ParseArguments: every command word and one it does *)
(* not know, followed by up to four arguments (six for patch, which needs  *)
(* argc >= 7) drawn from the options and a few file names:                 *)
(*   fw   iPhone1,1_3.1.3_7E18_Restore.ipsw  a known device                *)
(*   ipod iPod1,1_3.1_7E18_Restore.ipsw      an unknown device, a ','      *)
(*   page 7E18 =iPhone_(a).htm               a saved key page for update   *)
(*   edge a=(b                               a '(' right after the '='     *)
(*   x    x                                  a short option value          *)
(***************************************************************************)
EXTENDS CommandLine

NoMark == [len |-> 0, known |-> 0, comma |-> None, us1 |-> None, us2 |-> None,
           eq |-> None, parenEq |-> None, paren |-> None]

Flags == {"-d", "-v", "-b", "-s", "-h"}

MCInfo ==
  [t \in Flags \cup {"fw", "ipod", "page", "edge", "x"} |->
     CASE t = "fw"   -> [NoMark EXCEPT !.len = 33, !.known = 6, !.comma = 7,
                                       !.us1 = 9, !.us2 = 15]
       [] t = "ipod" -> [NoMark EXCEPT !.len = 29, !.comma = 5, !.us1 = 7, !.us2 = 11]
       [] t = "page" -> [NoMark EXCEPT !.len = 20, !.us1 = 12, !.eq = 5,
                                       !.parenEq = 13, !.paren = 13]
       [] t = "edge" -> [NoMark EXCEPT !.len = 4, !.eq = 1, !.parenEq = 2, !.paren = 2]
       [] t = "x"    -> [NoMark EXCEPT !.len = 1]
       [] OTHER      -> [NoMark EXCEPT !.len = 2]]

Words == Operations \cup {"bogus"}

\* Argument lists of at most n tokens of S.
UpTo(S, n) == UNION {[1 .. k -> S] : k \in 0 .. n}

\* Up to four arguments after decrypt and update, whose options combine,
\* three after the other words, and up to six after patch.
MCArgvs ==
  {<<"img3">>}
  \cup {<<"img3", c>> \o r : c \in {"decrypt", "update"}, r \in UpTo(DOMAIN MCInfo, 4)}
  \cup {<<"img3", c>> \o r : c \in Words \ {"decrypt", "update", "patch"},
                             r \in UpTo(DOMAIN MCInfo, 3)}
  \cup {<<"img3", "patch">> \o r : r \in UpTo({"-d", "-v", "x", "fw"}, 6)}
=============================================================================
