----------------------------- MODULE MCHeadUnit -----------------------------
(***************************************************************************)
(* Two catalogs for TLC; a frame carries two bytes.                        *)
(***************************************************************************)
EXTENDS HeadUnit

MCTwoLengths == <<3, 2>>
=============================================================================
