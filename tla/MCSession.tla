----------------------------- MODULE MCSession -----------------------------
(* Few clients and commands, for TLC.                                      *)
EXTENDS Session, TLC

CONSTANTS c1, c2

OneClient == {c1}
TwoClients == {c1, c2}
Symmetry == Permutations(Client)

\* A DELETE may return either of what a PUT and a failed GET return.
DeleteOnly == {"DELETE"}
PutOnly == {"PUT"}
GetOnly == {"GET"}

Budget(r, e, f, d, s) ==
    [requests |-> r, elections |-> e, faults |-> f, strays |-> d, restarts |-> s]
\* Two requests and a restart; one with a lost call or entry, and a restart or
\* a change of the leader after which the old one may send on.
TwoAndRestart == {Budget(2, 0, 0, 0, 1)}
LostCall == {Budget(1, 1, 1, 0, 0)}
OldLeader == {Budget(1, 1, 0, 1, 0)}
LostCallRestart == {Budget(1, 0, 1, 0, 1)}
Disturbed == TwoAndRestart \cup LostCall \cup OldLeader \cup LostCallRestart
TwoRequests == {Budget(2, 0, 0, 0, 0)}
\* Two requests and a deposed leader that sends on.
Deposed == {Budget(2, 1, 0, 1, 0)}

\* A new cluster, and one that has served a request before.
EmptyLog == <<>>
UsedLog == <<[term |-> 1, req |-> NoRequest]>>
=============================================================================
