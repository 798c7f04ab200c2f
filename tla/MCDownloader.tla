---------------------------- MODULE MCDownloader ----------------------------
(***************************************************************************)
(* Two runs in one directory.  The first file has two chunks and a known   *)
(* size, the second is as short as can be and its size is not known.       *)
(***************************************************************************)
EXTENDS Downloader

CONSTANTS a, b

TwoRuns == {a, b}
Lengths == [f \in 1..2 |-> IF f = 1 THEN 2 ELSE 1]
FirstFile == {1}
=============================================================================
