----------------------------- MODULE MCElection -----------------------------
(* The cluster of raftAlgorithm(): three nodes, for TLC.                   *)
EXTENDS Election, TLC

CONSTANTS n1, n2, n3

Servers == {n1, n2, n3}

Entry(t, i) == [term |-> t, index |-> i]

\* All logs empty: a fresh cluster.
EmptyLogs == [s \in Servers |-> <<>>]
NoSnaps == [s \in Servers |-> NoSnapshot]

\* n1 holds an entry of term 2, n2 two entries of term 1, n3 one of them.
UnevenLogs == n1 :> <<Entry(2, 0)>> @@ n2 :> <<Entry(1, 0), Entry(1, 1)>>
              @@ n3 :> <<Entry(1, 0)>>

\* n1 and n2 took a snapshot of their whole log, n3 has fallen behind.
TwoSnaps == [s \in Servers |-> IF s = n3 THEN NoSnapshot
                ELSE [lastIncludedIndex |-> 1, lastIncludedTerm |-> 1]]
=============================================================================
