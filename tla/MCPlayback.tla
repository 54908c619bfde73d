----------------------------- MODULE MCPlayback -----------------------------
(* Playback for TLC: two patterns, a scene over one of them, a playlist of   *)
(* the other pattern and the scene, which is held, what a delete of the      *)
(* scene leaves of it, and an empty one.                                     *)
EXTENDS Playback

CONSTANTS p1, p2, s1, c1

TwoPatterns == {p1, p2}
OneScene == {s1}
OneBase == [s \in {s1} |-> p1]
Item(id, ctl, timed) == [id |-> id, ctl |-> ctl, timed |-> timed]
Playlists == {<<>>, <<Item(p2, 1, TRUE), Item(s1, 0, FALSE)>>, <<Item(p2, 1, TRUE)>>}
SomeRecords ==
  {Nothing, [id |-> p1, ctl |-> 1], [id |-> p2, ctl |-> 0], [id |-> s1, ctl |-> 0]}
OneClient == {c1}
NoMishaps == {}
=============================================================================
