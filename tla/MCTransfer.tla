----------------------------- MODULE MCTransfer -----------------------------
(* A follower, two nodes that may lead, and three entries, for TLC.        *)
EXTENDS Transfer

CONSTANTS l1, l2

Hearts == [leader : {l1, l2}, thread : {"heart"}]
OneHeart == [leader : {l1}, thread : {"heart"}]
BothThreads == [leader : {l1}, thread : {"heart", "client"}]

ThreeEntries == <<1, 1, 2>>
\* A newer snapshot may be shorter.
Uneven == <<3, 1, 2>>
=============================================================================
