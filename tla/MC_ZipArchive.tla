---------------------------- MODULE MC_ZipArchive ----------------------------
(* Model values for the names the central directory records carry. *)
EXTENDS ZipArchive

CONSTANTS n1, n2

MCNames == {n1, n2}
MCMatching == {n1}
==============================================================================
