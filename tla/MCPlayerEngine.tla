--------------------------- MODULE MCPlayerEngine ---------------------------
(* Small instances of PlayerEngine for TLC. *)
EXTENDS PlayerEngine

CONSTANTS t1, t2, t3

TwoTracks == {t1, t2}
ThreeTracks == {t1, t2, t3}

\* A queue, its reverse, and a shorter one.
ThreeQueues == {<<>>, <<t1, t2, t3>>, <<t3, t2, t1>>, <<t2>>}
TwoQueues == {<<t1, t2>>, <<t2>>}
FadeQueues == {<<t1, t2, t3>>, <<t2>>}
=============================================================================
