------------------------------- MODULE KVMap -------------------------------
(***************************************************************************)
(* What a durable key-value store promises: one map, changed by one write  *)
(* or one removal at a time, that a restart leaves alone.  A store may     *)
(* withdraw the promise; from then on its map may become anything.         *)
(***************************************************************************)
CONSTANTS Key, Value, None

VARIABLES map, promised

Init == map = [k \in Key |-> None] /\ promised = TRUE

Put(k, v) == map' = [map EXCEPT ![k] = v] /\ UNCHANGED promised
Remove(k) == map' = [map EXCEPT ![k] = None] /\ UNCHANGED promised
Withdraw == promised' = FALSE

Next == Withdraw \/ \E k \in Key : Remove(k) \/ \E v \in Value : Put(k, v)

Spec == Init /\ [][Next]_<<map, promised>>
=============================================================================
