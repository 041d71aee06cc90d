---------------------------- MODULE MCReplication ----------------------------
(* One leader and two peers, as in raftAlgorithm(), for TLC.               *)
EXTENDS Replication, SequencesExt, TLC

CONSTANTS n1, n2, n3, r1, r2, r3, old1, old2, old3

TwoPeers == <<n2, n3>>
OnePeer == <<n2>>
OneRequest == {r1}
TwoRequests == {r1, r2}
ThreeRequests == {r1, r2, r3}
NoOld == {}
Olds == {old1, old2, old3}

AllPut == [c \in {r1, r2, r3, old1, old2, old3} |-> "PUT"]
\* The request deletes what older commands have put.
Deleting == [AllPut EXCEPT ![r1] = "DELETE"]

\* All requests are PUTs and interchangeable.
Symmetry == Permutations(Request)

E(t, i, c) == [term |-> t, index |-> i, command |-> c]

\* A fresh cluster.
EmptyLogs == [s \in Server |-> <<>>]

\* Every node has the entry at index 0.
EvenLogs == [s \in Server |-> <<E(1, 0, old1)>>]

\* A peer whose log ends in an entry of an older term, in whose place the
\* leader has one of a newer term.
ConflictLogs == [s \in Server |->
    <<E(1, 0, old1), IF s = n2 THEN E(1, 1, old2) ELSE E(2, 1, old3)>>]

\* A peer without any entry, and one with a conflicting tail.
BehindLogs == [ConflictLogs EXCEPT ![Peers[Len(Peers)]] = <<>>]

\* The append loop of the AppendEntries handler, one entry after the other.
PushIfMissing(s, lg, e) ==
    IF e.index - baseIndex(latestSnapshot[s]) >= Len(lg) THEN Append(lg, e) ELSE lg

\* For every batch on its way, the closed form of the append loop is what the
\* loop would make of the peer's log.
PushIsLoop == \A c \in calls : LET s == Peers[c.to] IN
    c.rpc = "AppendEntries" /\ c.entries # <<>> =>
        PushMissing(log[s], latestSnapshot[s], c.entries) =
            FoldLeft(LAMBDA lg, e : PushIfMissing(s, lg, e), log[s], c.entries)
=============================================================================
