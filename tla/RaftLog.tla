------------------------------ MODULE RaftLog ------------------------------
(***************************************************************************)
(* The index arithmetic of a node's log (raft_node.cpp).  A node keeps a   *)
(* vector `log` whose first element is the entry after its latest          *)
(* snapshot, so a global index is the vector position shifted by the       *)
(* snapshot's lastIncludedIndex.  Vector positions of the code start at 0, *)
(* sequences at 1.  A null latestSnapshot is NoSnapshot: the code's        *)
(* `latestSnapshot ? lastIncludedIndex : -1`.                              *)
(***************************************************************************)
EXTENDS Integers, Sequences

\* latestSnapshot == nullptr.
NoSnapshot == [lastIncludedIndex |-> -1, lastIncludedTerm |-> 0]

\* The global index of the first entry of the vector.
baseIndex(snap) == snap.lastIncludedIndex + 1

\* One more than the global index of the last entry.
getLogSize(log, snap) == baseIndex(snap) + Len(log)

\* The term of the entry at a global index: the snapshot's own term at its
\* boundary, 0 below it and 0 beyond the end.
getLogTerm(log, snap, index) ==
    IF index = snap.lastIncludedIndex
    THEN snap.lastIncludedTerm
    ELSE IF index - baseIndex(snap) \in 0 .. Len(log) - 1
         THEN log[index - baseIndex(snap) + 1].term
         ELSE 0

\* The entries with global indices startIndex .. endIndex - 1 that the vector
\* still holds; a start below the vector is clamped to its first entry.
getLogEntries(log, snap, startIndex, endIndex) ==
    LET logStart == IF startIndex > baseIndex(snap)
                    THEN startIndex - baseIndex(snap) ELSE 0
        logEnd   == IF endIndex - baseIndex(snap) < Len(log)
                    THEN endIndex - baseIndex(snap) ELSE Len(log)
    IN  SubSeq(log, logStart + 1, logEnd)

\* Mutant: the last entry the snapshot covers is kept.
truncateLogOffByOne(log, snap, lastIncludedIndex) ==
    LET truncateAt == lastIncludedIndex - snap.lastIncludedIndex
    IN  IF truncateAt \in 1 .. Len(log)
        THEN SubSeq(log, truncateAt, Len(log)) ELSE log

\* The vector after dropping the entries a new snapshot covers; unchanged when
\* the snapshot is not newer or covers more than the vector holds.
truncateLogSafe(log, snap, lastIncludedIndex) ==
    LET truncateAt == lastIncludedIndex - snap.lastIncludedIndex
    IN  IF truncateAt \in 1 .. Len(log)
        THEN SubSeq(log, truncateAt + 1, Len(log))
        ELSE log

-----------------------------------------------------------------------------
(* The AppendEntries consistency check and append loop (rpc_server.cpp).   *)

\* Does the receiver's log agree with prevLogIndex / prevLogTerm?
PrevLogMatches(log, snap, prevLogIndex, prevLogTerm) ==
    \/ prevLogIndex < 0
    \/ /\ prevLogIndex = snap.lastIncludedIndex
       /\ prevLogTerm = snap.lastIncludedTerm
    \/ /\ prevLogIndex > snap.lastIncludedIndex
       /\ prevLogIndex < getLogSize(log, snap)
       /\ log[prevLogIndex - baseIndex(snap) + 1].term = prevLogTerm

\* Mutant: entries that are there already are pushed again.
PushMissingAll(log, snap, entries) == log \o entries

\* The append loop for a batch of consecutive indices: an entry is pushed when
\* its index lies at or beyond the end of the vector.
PushMissing(log, snap, entries) ==
    LET held == getLogSize(log, snap) - entries[1].index
        skip == IF held > 0 THEN held ELSE 0
    IN  log \o SubSeq(entries, skip + 1, Len(entries))

\* Mutant: a conflicting tail is not erased.
AppendBatchNoErase(log, snap, prevLogIndex, entries) ==
    IF entries = <<>> THEN log ELSE PushMissing(log, snap, entries)

\* Mutant: a batch that is there already is appended again.
AppendBatchAgain(log, snap, prevLogIndex, entries) == log \o entries

\* The log after an accepted batch.  Only the first entry is compared with the
\* entry already at its place: when their terms differ everything from there
\* on is erased, and when they agree the whole batch is skipped.
AppendBatch(log, snap, prevLogIndex, entries) ==
    LET logInsertIndex == prevLogIndex + 1 - baseIndex(snap)
        occupied == logInsertIndex \in 0 .. Len(log) - 1
    IN  IF entries = <<>> THEN log
        ELSE IF ~occupied THEN PushMissing(log, snap, entries)
        ELSE IF log[logInsertIndex + 1].term # entries[1].term
             THEN PushMissing(SubSeq(log, 1, logInsertIndex), snap, entries)
             ELSE log
=============================================================================
