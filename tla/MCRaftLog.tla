----------------------------- MODULE MCRaftLog -----------------------------
(* The log operators on every small log, snapshot and batch, for TLC.      *)
EXTENDS RaftLog, SequencesExt

CONSTANTS
    MaxLen,      \* bound: entries in a vector and in a batch
    MaxTermOf    \* bound: terms

VARIABLES log, snap, batch, prev

vars == <<log, snap, batch, prev>>

\* Vectors of n entries whose first entry has the global index `from`.
VectorsFrom(from) ==
    UNION {{[i \in 1 .. n |-> [term |-> ts[i], index |-> from + i - 1]] :
                ts \in [1 .. n -> 1 .. MaxTermOf]} : n \in 0 .. MaxLen}

Snapshots == {NoSnapshot} \cup
    [lastIncludedIndex : 0 .. 1, lastIncludedTerm : 1 .. MaxTermOf]

Init == log = <<>> /\ snap = NoSnapshot /\ batch = <<>> /\ prev = -1

\* A receiver's log and snapshot, and a batch as the senders build it: it
\* starts after prev, or later when the sender's vector does.
Next ==
    /\ snap' \in Snapshots
    /\ log' \in VectorsFrom(baseIndex(snap'))
    /\ prev' \in -1 .. MaxLen + 1
    /\ \E from \in prev' + 1 .. prev' + 2 : batch' \in VectorsFrom(from)

Spec == Init /\ [][Next]_vars

\* The append loop of the handler, one entry after the other.
PushIfMissing(lg, e) ==
    IF e.index - baseIndex(snap) >= Len(lg) THEN Append(lg, e) ELSE lg

\* The closed form of the append loop is what the loop computes.
PushIsLoop == batch # <<>> =>
    PushMissing(log, snap, batch) = FoldLeft(PushIfMissing, log, batch)

\* An accepted batch that follows prev directly leaves every entry at the
\* place its index says.
AppendKeepsPlaces ==
    /\ PrevLogMatches(log, snap, prev, getLogTerm(log, snap, prev))
    /\ prev >= snap.lastIncludedIndex
    /\ batch # <<>> /\ batch[1].index = prev + 1
    => LET after == AppendBatch(log, snap, prev, batch)
       IN  \A i \in 1 .. Len(after) : after[i].index = baseIndex(snap) + i - 1

\* Truncating the vector at a new snapshot changes neither the size of the log
\* nor the term of any entry that remains, seen by global index.
TruncateKeepsView ==
    \A last \in baseIndex(snap) .. getLogSize(log, snap) - 1 :
        LET newSnap == [lastIncludedIndex |-> last,
                        lastIncludedTerm |-> getLogTerm(log, snap, last)]
            rest == truncateLogSafe(log, snap, last)
        IN  /\ getLogSize(rest, newSnap) = getLogSize(log, snap)
            /\ \A i \in last .. getLogSize(log, snap) :
                  getLogTerm(rest, newSnap, i) = getLogTerm(log, snap, i)
=============================================================================
