-------------------------- MODULE MCCalendarPoller --------------------------
(* A stand-up that recurs at 2 and 4 and a review; the same calendar after *)
(* the review was dropped, the stand-up reworded and one of it moved.      *)
EXTENDS CalendarPoller, TLC

CONSTANTS standup, review, u1, u2

Master(uid, occ, ex, ver) == [uid |-> uid, occ |-> occ, ex |-> ex, rid |-> 0, ver |-> ver]

MCFeeds == {
  {Master(standup, {2, 4}, {}, 1), Master(review, {3}, {}, 1)},
  {Master(standup, {1, 2, 4}, {1}, 2),
   [uid |-> standup, occ |-> {3}, ex |-> {}, rid |-> 2, ver |-> 1]}}

\* A stand-up moved from 2 to 4.
MCMovedFeeds == {
  {Master(standup, {2}, {}, 1),
   [uid |-> standup, occ |-> {4}, ex |-> {}, rid |-> 2, ver |-> 1]}}

UrlSymmetry == Permutations({u1, u2})
=============================================================================
