---------------------------- MODULE MCPlaylists ----------------------------
(* An instance of Playlists for TLC: two tracks, one playlist of the user. *)
EXTENDS Playlists

CONSTANTS t1, t2

TwoTracks == {t1, t2}
FirstToLast == <<t1, t2>>
=============================================================================
