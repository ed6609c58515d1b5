----------------------------- MODULE MCLibrary -----------------------------
(* Instances of Library for TLC: one playlist besides "all", one or two tracks. *)
EXTENDS Library

CONSTANTS t1, t2

OneTrack == {t1}
TwoTracks == {t1, t2}
=============================================================================
