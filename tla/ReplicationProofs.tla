-------------------------- MODULE ReplicationProofs --------------------------
(***************************************************************************)
(* Theorems about Replication, for every number of peers and requests, all *)
(* initial logs, batch sizes, snapshot thresholds and bounds.              *)
(***************************************************************************)
EXTENDS Replication, SequenceTheorems, FiniteSetTheorems, TLAPS

-----------------------------------------------------------------------------
(* How far the leader's log and its messages reach.                        *)

\* One more than the index of the leader's last entry.
LeaderSize == getLogSize(log[Leader], latestSnapshot[Leader])

\* How far the leader has committed: its commitIndex runs ahead of what it has
\* applied while a request applies, and falls back when a request with an
\* earlier entry commits after one with a later entry.
LeaderCommitted ==
    IF commitIndex[Leader] > lastApplied[Leader]
    THEN commitIndex[Leader] ELSE lastApplied[Leader]

\* A message describes no more than a leader with that many entries has, and
\* commits no more than it has committed.
Reaches(c, size, committed) ==
    IF c.rpc = "AppendEntries"
    THEN /\ c.prevLogIndex + 1 + Len(c.entries) <= size
         /\ c.leaderCommit <= committed
    ELSE /\ c.snapshot.lastIncludedIndex < size
         /\ c.snapshot.lastIncludedIndex <= committed

\* So does a message in progress; the request it is sent for has its entry.
Within(c) ==
    /\ Reaches(c, LeaderSize, LeaderCommitted)
    /\ c.by # Heart => client[c.by].index < LeaderSize

\* The leader has applied what its snapshot covers and commits nothing beyond
\* its log; the requests in progress have their entry in it.
LeaderBounds ==
    /\ latestSnapshot[Leader].lastIncludedIndex <= lastApplied[Leader]
    /\ 0 <= commitIndex[Leader]
    /\ LeaderCommitted < LeaderSize \/ LeaderCommitted = 0
    /\ \A r \in Request : client[r].pc \in {"send", "wait", "commit", "apply"} =>
          client[r].index < LeaderSize

\* A peer is not ahead of that.
PeersWithin == \A s \in Server : lastApplied[s] <= LeaderCommitted

\* What is committed and not applied yet is being applied by a request.
BeingApplied ==
    \/ commitIndex[Leader] <= lastApplied[Leader]
    \/ \E r \in Request : /\ client[r].pc = "apply"
                          /\ client[r].index = commitIndex[Leader]

\* PeersBehindLeader and the bound on nextIndex need each other's messages.
RepInv ==
    /\ TypeOK
    /\ LeaderBounds
    /\ BeingApplied
    /\ \A c \in calls : Within(c)
    /\ PeersWithin

-----------------------------------------------------------------------------
(* The operators on logs.                                                  *)

AnySnapshot == Snapshot \cup {NoSnapshot}

LEMMA SnapshotFields ==
    ASSUME NEW snap \in AnySnapshot
    PROVE  /\ snap.lastIncludedIndex \in Nat \cup {-1}
           /\ snap.lastIncludedTerm \in Nat
           /\ baseIndex(snap) \in Nat
           /\ baseIndex(snap) = snap.lastIncludedIndex + 1
           /\ snap.lastIncludedIndex \in Nat => snap \in Snapshot
  BY DEF AnySnapshot, Snapshot, NoSnapshot, baseIndex

LEMMA SizeType ==
    ASSUME NEW snap \in AnySnapshot, NEW lg \in Seq(Entry)
    PROVE  /\ Len(lg) \in Nat
           /\ getLogSize(lg, snap) = baseIndex(snap) + Len(lg)
           /\ getLogSize(lg, snap) \in Nat
           /\ snap.lastIncludedIndex < getLogSize(lg, snap)
  <1>1. Len(lg) \in Nat
    BY LenProperties
  <1> QED
    BY <1>1, SnapshotFields DEF getLogSize

LEMMA EntryFields ==
    ASSUME NEW lg \in Seq(Entry), NEW i \in 1 .. Len(lg)
    PROVE  /\ lg[i] \in Entry
           /\ lg[i].term \in Nat /\ lg[i].index \in Nat /\ lg[i].command \in Command
  <1>1. lg[i] \in Entry
    BY ElementOfSeq
  <1> QED
    BY <1>1 DEF Entry

LEMMA LogTermType ==
    ASSUME NEW snap \in AnySnapshot, NEW lg \in Seq(Entry), NEW i \in Int
    PROVE  getLogTerm(lg, snap, i) \in Nat
  <1> DEFINE b == baseIndex(snap)
             k == i - b
  <1>1. Len(lg) \in Nat /\ b \in Nat /\ snap.lastIncludedTerm \in Nat
    BY SizeType, SnapshotFields
  <1>2. CASE k \in 0 .. Len(lg) - 1
    <2>1. k + 1 \in 1 .. Len(lg)
      BY <1>1, <1>2
    <2> HIDE DEF k
    <2>2. lg[k + 1].term \in Nat
      BY <2>1, EntryFields
    <2> QED
      BY <1>1, <2>2 DEF getLogTerm, k
  <1>3. CASE k \notin 0 .. Len(lg) - 1
    BY <1>1, <1>3 DEF getLogTerm
  <1> QED
    BY <1>2, <1>3

\* A part of a log is a log.
LEMMA PartOfLog ==
    ASSUME NEW lg \in Seq(Entry), NEW m \in Nat \ {0}, NEW n \in Int, n <= Len(lg)
    PROVE  /\ SubSeq(lg, m, n) \in Seq(Entry)
           /\ Len(SubSeq(lg, m, n)) = IF m <= n THEN n - m + 1 ELSE 0
           /\ \A i \in 1 .. Len(SubSeq(lg, m, n)) : SubSeq(lg, m, n)[i] = lg[m + i - 1]
  <1>0. Len(lg) \in Nat
    BY LenProperties
  <1>1. \A i \in m .. n : lg[i] \in Entry
    BY <1>0, ElementOfSeq
  <1>2. /\ SubSeq(lg, m, n) \in Seq(Entry)
        /\ Len(SubSeq(lg, m, n)) = IF m <= n THEN n - m + 1 ELSE 0
        /\ \A i \in 1 .. n - m + 1 : SubSeq(lg, m, n)[i] = lg[m + i - 1]
    BY <1>1, SubSeqProperties
  <1> QED
    BY <1>2

\* getLogEntries returns entries of the log that do not reach beyond its end.
LEMMA EntriesType ==
    ASSUME NEW snap \in AnySnapshot, NEW lg \in Seq(Entry),
           NEW start \in Nat, NEW end \in Int
    PROVE  LET part == getLogEntries(lg, snap, start, end)
           IN  /\ part \in Seq(Entry) /\ Len(part) \in Nat
               /\ start <= getLogSize(lg, snap) =>
                     start + Len(part) <= getLogSize(lg, snap)
               /\ snap.lastIncludedIndex = -1 =>
                     \A k \in 1 .. Len(part) : part[k] = lg[start + k]
  <1> DEFINE b == baseIndex(snap)
             n == Len(lg)
             from == IF start > b THEN start - b ELSE 0
             to == IF end - b < n THEN end - b ELSE n
             part == SubSeq(lg, from + 1, to)
  <1>1. getLogEntries(lg, snap, start, end) = part
    BY DEF getLogEntries
  <1>2. n \in Nat /\ b \in Nat /\ getLogSize(lg, snap) = b + n
    BY SizeType, SnapshotFields
  <1>3. snap.lastIncludedIndex = -1 => b = 0
    BY DEF baseIndex
  <1>4. /\ from + 1 \in Nat \ {0} /\ to \in Int /\ to <= n
        /\ from \in Nat /\ start <= b + from /\ (b <= start => start = b + from)
    BY <1>2
  <1> HIDE DEF from, to, b
  <1>5. /\ part \in Seq(Entry)
        /\ Len(part) = IF from + 1 <= to THEN to - (from + 1) + 1 ELSE 0
        /\ \A i \in 1 .. Len(part) : part[i] = lg[from + 1 + i - 1]
    BY <1>4, PartOfLog
  <1>6. Len(part) \in Nat
    BY <1>4, <1>5
  <1>7. start <= b + n => start + Len(part) <= b + n
    BY <1>2, <1>4, <1>5
  <1>8. b = 0 => \A k \in 1 .. Len(part) : part[k] = lg[start + k]
    <2> HIDE DEF part
    <2> SUFFICES ASSUME b = 0, NEW k \in 1 .. Len(part) PROVE part[k] = lg[start + k]
      OBVIOUS
    <2>1. from = start
      BY <1>2, <1>4
    <2>2. from + 1 + k - 1 = start + k
      BY <1>4, <1>6, <2>1
    <2> QED
      BY <1>5, <2>2
  <1> QED
    BY <1>1, <1>2, <1>3, <1>5, <1>6, <1>7, <1>8

LEMMA PushMissingType ==
    ASSUME NEW snap \in AnySnapshot, NEW lg \in Seq(Entry),
           NEW entries \in Seq(Entry), entries # <<>>
    PROVE  PushMissing(lg, snap, entries) \in Seq(Entry)
  <1> DEFINE held == getLogSize(lg, snap) - entries[1].index
             skip == IF held > 0 THEN held ELSE 0
  <1>1. Len(entries) \in Nat /\ Len(entries) >= 1
    BY EmptySeq
  <1>2. entries[1].index \in Nat
    BY <1>1, EntryFields
  <1>3. skip + 1 \in Nat \ {0}
    BY <1>2, SizeType
  <1>4. SubSeq(entries, skip + 1, Len(entries)) \in Seq(Entry)
    <2> HIDE DEF skip
    <2> QED
      BY <1>1, <1>3, PartOfLog
  <1>5. lg \o SubSeq(entries, skip + 1, Len(entries)) \in Seq(Entry)
    <2> HIDE DEF skip
    <2> QED
      BY <1>4, ConcatProperties
  <1> QED
    BY <1>5 DEF PushMissing

LEMMA AppendBatchType ==
    ASSUME NEW snap \in AnySnapshot, NEW lg \in Seq(Entry),
           NEW entries \in Seq(Entry), NEW prev \in Int
    PROVE  AppendBatch(lg, snap, prev, entries) \in Seq(Entry)
  <1> DEFINE at == prev + 1 - baseIndex(snap)
  <1>1. Len(lg) \in Nat /\ at \in Int
    BY SizeType, SnapshotFields
  <1>2. entries # <<>> => PushMissing(lg, snap, entries) \in Seq(Entry)
    BY PushMissingType
  <1>3. ASSUME at \in 0 .. Len(lg) - 1, entries # <<>>
        PROVE  PushMissing(SubSeq(lg, 1, at), snap, entries) \in Seq(Entry)
    <2>1. SubSeq(lg, 1, at) \in Seq(Entry)
      <3> HIDE DEF at
      <3> QED
        BY <1>1, <1>3, PartOfLog
    <2> QED
      BY <1>3, <2>1, PushMissingType
  <1> QED
    BY <1>2, <1>3 DEF AppendBatch

\* Compaction drops the entries the snapshot covers; the global index of the
\* last entry stays what it is as long as the snapshot moves up within the log.
LEMMA TruncateType ==
    ASSUME NEW snap \in AnySnapshot, NEW lg \in Seq(Entry), NEW at \in Nat
    PROVE  LET short == truncateLogSafe(lg, snap, at)
           IN  /\ short \in Seq(Entry)
               /\ snap.lastIncludedIndex <= at /\ at < getLogSize(lg, snap) =>
                     at + 1 + Len(short) = getLogSize(lg, snap)
  <1> DEFINE cut == at - snap.lastIncludedIndex
             n == Len(lg)
  <1>1. /\ n \in Nat /\ snap.lastIncludedIndex \in Int /\ cut \in Int
        /\ getLogSize(lg, snap) = snap.lastIncludedIndex + 1 + n
    BY SizeType, SnapshotFields
  <1>2. CASE cut \in 1 .. n
    <2>1. cut + 1 \in Nat \ {0} /\ n - (cut + 1) + 1 = n - cut
      BY SMTT(30), <1>1, <1>2
    <2> HIDE DEF cut
    <2>2. /\ SubSeq(lg, cut + 1, n) \in Seq(Entry)
          /\ Len(SubSeq(lg, cut + 1, n)) = n - cut
      <3>1. Len(SubSeq(lg, cut + 1, n)) = IF cut + 1 <= n THEN n - (cut + 1) + 1 ELSE 0
        BY <1>1, <2>1, PartOfLog
      <3>2. SubSeq(lg, cut + 1, n) \in Seq(Entry)
        BY <1>1, <2>1, PartOfLog
      <3>3. IF cut + 1 <= n THEN n - (cut + 1) + 1 = n - cut ELSE n - cut = 0
        BY <1>1, <1>2
      <3> QED
        BY <3>1, <3>2, <3>3
    <2>3. truncateLogSafe(lg, snap, at) = SubSeq(lg, cut + 1, n)
      BY <1>2 DEF truncateLogSafe, cut
    <2>4. at + 1 + (n - cut) = getLogSize(lg, snap)
      <3>1. ASSUME NEW a \in Int, NEW l \in Int, NEW m \in Int
            PROVE  a + 1 + (m - (a - l)) = l + 1 + m
        OBVIOUS
      <3>2. at \in Int /\ snap.lastIncludedIndex \in Int /\ n \in Int
        BY <1>1
      <3> HIDE DEF n
      <3>3. at + 1 + (n - (at - snap.lastIncludedIndex)) = snap.lastIncludedIndex + 1 + n
        BY <3>1, <3>2
      <3> QED
        BY <1>1, <3>3 DEF cut
    <2> QED
      BY <2>2, <2>3, <2>4
  <1>3. CASE cut \notin 1 .. n
    <2>1. truncateLogSafe(lg, snap, at) = lg
      BY <1>3 DEF truncateLogSafe
    <2> QED
      BY <1>1, <1>3, <2>1
  <1> QED
    BY <1>2, <1>3

\* What the state machine holds and answers.
LEMMA StoreType ==
    ASSUME NEW kv \in Command \cup {None}, NEW entries \in Seq(Entry)
    PROVE  StoreAfter(kv, entries) \in Command \cup {None}
  <1>1. CASE LastWrite(entries) = {}
    BY <1>1 DEF StoreAfter
  <1>2. CASE LastWrite(entries) # {}
    <2> DEFINE i == CHOOSE j \in LastWrite(entries) : TRUE
    <2>1. i \in LastWrite(entries)
      BY <1>2
    <2>2. i \in 1 .. Len(entries)
      BY <2>1 DEF LastWrite
    <2> HIDE DEF i
    <2>3. entries[i].command \in Command
      BY <2>2, EntryFields
    <2> QED
      BY <1>2, <2>3 DEF StoreAfter, i
  <1> QED
    BY <1>1, <1>2

LEMMA ResultType ==
    ASSUME NEW kv \in Command \cup {None}, NEW entries \in Seq(Entry)
    PROVE  ResultOf(kv, entries) \in Result
  <1>1. CASE entries = <<>>
    BY <1>1 DEF ResultOf, Result
  <1>2. CASE entries # <<>>
    <2> DEFINE n == Len(entries)
               front == SubSeq(entries, 1, n - 1)
               before == StoreAfter(kv, front)
    <2>1. n \in Nat /\ n >= 1
      BY <1>2, EmptySeq
    <2>2. front \in Seq(Entry)
      BY <2>1, PartOfLog
    <2>3. before \in Command \cup {None}
      <3> HIDE DEF front
      <3> QED
        BY <2>2, StoreType
    <2> HIDE DEF before
    <2> QED
      BY <1>2, <2>3 DEF ResultOf, Result, before
  <1> QED
    BY <1>1, <1>2

-----------------------------------------------------------------------------
(* The parts of the type invariant.                                        *)

TermTypes ==
    /\ currentTerm \in [Server -> Nat]
    /\ state \in [Server -> {"FOLLOWER", "CANDIDATE", "LEADER"}]
    /\ runningHeartbeats \in BOOLEAN
    /\ stuck \in [Server -> BOOLEAN]

LogTypes ==
    /\ log \in [Server -> Seq(Entry)]
    /\ latestSnapshot \in [Server -> AnySnapshot]
    /\ commitIndex \in [Server -> Nat \cup {-1}]
    /\ lastApplied \in [Server -> Nat]
    /\ store \in Command \cup {None}

Handler == [pc : {"new", "append", "send", "wait", "commit", "apply", "done"},
            index : Nat, peer : Nat \ {0}, successCount : Nat, result : Result]
HeartThread == [pc : {"loop", "send", "wait", "ended"}, peer : Nat \ {0}]

ThreadTypes == client \in [Request -> Handler] /\ heart \in HeartThread

NextTypes == nextIndex \in [Peer -> 0 .. LeaderSize]

CallTypes == calls \subseteq AppendEntriesMessage \cup InstallSnapshotMessage

CountTypes == lost \in 0 .. MaxLost /\ snapshots \in 0 .. MaxSnapshots

LEMMA TypeParts ==
    TypeOK <=> /\ TermTypes /\ LogTypes /\ ThreadTypes
               /\ NextTypes /\ CallTypes /\ CountTypes
  BY DEF TypeOK, TermTypes, LogTypes, ThreadTypes, NextTypes, CallTypes,
         CountTypes, Handler, HeartThread, AnySnapshot, LeaderSize

LEMMA PeersAreFollowers ==
    ASSUME NEW i \in Peer
    PROVE  Peers[i] \in Server /\ Peers[i] # Leader
  BY PeersAssumption DEF Server, Follower

LEMMA LeaderTypes ==
    ASSUME LogTypes
    PROVE  /\ Leader \in Server
           /\ log[Leader] \in Seq(Entry) /\ latestSnapshot[Leader] \in AnySnapshot
           /\ lastApplied[Leader] \in Nat /\ commitIndex[Leader] \in Int
           /\ LeaderSize \in Nat
           /\ 0 <= commitIndex[Leader] => commitIndex[Leader] \in Nat
           /\ LeaderCommitted \in Nat /\ lastApplied[Leader] <= LeaderCommitted
           /\ commitIndex[Leader] <= LeaderCommitted
           /\ latestSnapshot[Leader].lastIncludedIndex \in Nat \cup {-1}
           /\ latestSnapshot[Leader].lastIncludedIndex < LeaderSize
  <1>1. /\ Leader \in Server /\ log[Leader] \in Seq(Entry)
        /\ latestSnapshot[Leader] \in AnySnapshot
        /\ lastApplied[Leader] \in Nat /\ commitIndex[Leader] \in Int
    BY DEF LogTypes, Server
  <1>2. /\ 0 <= commitIndex[Leader] => commitIndex[Leader] \in Nat
        /\ LeaderCommitted \in Nat /\ lastApplied[Leader] <= LeaderCommitted
        /\ commitIndex[Leader] <= LeaderCommitted
    BY <1>1 DEF LeaderCommitted
  <1> QED
    BY <1>1, <1>2, SizeType, SnapshotFields DEF LeaderSize

LEMMA CallFields ==
    ASSUME CallTypes, NEW c \in calls
    PROVE  /\ c.to \in Peer /\ Peers[c.to] \in Server /\ Peers[c.to] # Leader
           /\ c.by \in Request \cup {Heart} /\ c.live \in BOOLEAN
           /\ c.term \in Nat /\ c.replyTerm \in Nat
           /\ c.rpc \in {"AppendEntries", "InstallSnapshot"}
           /\ c.rpc = "AppendEntries" =>
                 /\ c \in AppendEntriesMessage
                 /\ c.prevLogIndex \in Nat \cup {-1}
                 /\ c.entries \in Seq(Entry) /\ Len(c.entries) \in Nat
                 /\ c.leaderCommit \in Nat
           /\ c.rpc = "InstallSnapshot" =>
                 /\ c \in InstallSnapshotMessage
                 /\ c.snapshot \in Snapshot
                 /\ c.snapshot.lastIncludedIndex \in Nat
                 /\ c.snapshot.kvState \in Command \cup {None}
  <1>1. c \in AppendEntriesMessage \/ c \in InstallSnapshotMessage
    BY DEF CallTypes
  <1>2. CASE c \in AppendEntriesMessage
    <2>1. /\ c.to \in Peer /\ c.rpc = "AppendEntries"
          /\ c.by \in Request \cup {Heart} /\ c.live \in BOOLEAN
          /\ c.term \in Nat /\ c.replyTerm \in Nat
          /\ c.prevLogIndex \in Nat \cup {-1} /\ c.entries \in Seq(Entry)
          /\ c.leaderCommit \in Nat
      BY <1>2 DEF AppendEntriesMessage
    <2>2. Len(c.entries) \in Nat
      BY <2>1, LenProperties
    <2> QED
      BY <1>2, <2>1, <2>2, PeersAreFollowers
  <1>3. CASE c \in InstallSnapshotMessage
    <2>1. /\ c.to \in Peer /\ c.rpc = "InstallSnapshot"
          /\ c.by \in Request \cup {Heart} /\ c.live \in BOOLEAN
          /\ c.term \in Nat /\ c.replyTerm \in Nat /\ c.snapshot \in Snapshot
      BY <1>3 DEF InstallSnapshotMessage
    <2>2. /\ c.snapshot.lastIncludedIndex \in Nat
          /\ c.snapshot.kvState \in Command \cup {None}
      BY <2>1 DEF Snapshot
    <2> QED
      BY <1>3, <2>1, <2>2, PeersAreFollowers
  <1> QED
    BY <1>1, <1>2, <1>3

-----------------------------------------------------------------------------
(* Terms, roles and counters.                                              *)

LEMMA TermsStep ==
    ASSUME TypeOK, [Next]_vars
    PROVE  TermTypes'
  <1>0. TermTypes /\ CallTypes /\ Leader \in Server
    BY TypeParts DEF Server
  <1>1. CASE UNCHANGED termVars
    BY <1>0, <1>1 DEF TermTypes, termVars
  <1>2. ASSUME NEW r \in Request, ReceiveAppendReply(r) PROVE TermTypes'
    <2>1. PICK c \in calls : \/ ClientStepDown(r, c)
                             \/ ReplicateSucceeds(r, c)
                             \/ ReplicateFails(r, c)
      BY <1>2 DEF ReceiveAppendReply, Replied
    <2>2. /\ UNCHANGED <<runningHeartbeats, stuck>>
          /\ \/ UNCHANGED <<currentTerm, state>>
             \/ /\ currentTerm' = [currentTerm EXCEPT ![Leader] = c.replyTerm]
                /\ state' = [state EXCEPT ![Leader] = "FOLLOWER"]
      BY <1>2, <2>1 DEF ReceiveAppendReply, ClientStepDown, ReplicateSucceeds,
                        ReplicateFails
    <2>3. c.replyTerm \in Nat
      BY <1>0, CallFields
    <2> QED
      BY <1>0, <2>2, <2>3 DEF TermTypes
  <1>3. CASE ReceiveHeartbeatReply
    <2>1. PICK c \in calls : HeartIgnores(c) \/ HeartStepDown(c) \/ HeartUpdates(c)
      BY <1>3 DEF ReceiveHeartbeatReply, Replied
    <2>2. UNCHANGED stuck /\ runningHeartbeats' \in BOOLEAN
      BY <1>0, <1>3, <2>1 DEF ReceiveHeartbeatReply, HeartIgnores, HeartStepDown,
                        HeartUpdates, TermTypes
    <2>3. \/ UNCHANGED <<currentTerm, state>>
          \/ /\ currentTerm' = [currentTerm EXCEPT ![Leader] = c.replyTerm]
             /\ state' = [state EXCEPT ![Leader] = "FOLLOWER"]
      BY <2>1 DEF HeartIgnores, HeartStepDown, HeartUpdates
    <2>4. c.replyTerm \in Nat
      BY <1>0, CallFields
    <2> QED
      BY <1>0, <2>2, <2>3, <2>4 DEF TermTypes
  <1>4. ASSUME NEW c \in calls, HandleAppendEntries(c) PROVE TermTypes'
    <2>1. UNCHANGED <<currentTerm, state, runningHeartbeats>>
      BY <1>4 DEF HandleAppendEntries
    <2>2. \/ UNCHANGED stuck
          \/ stuck' = [stuck EXCEPT ![Peers[c.to]] = TRUE]
      BY <1>4 DEF HandleAppendEntries, RefuseOldTerm, SelfDeadlock,
                  AcceptEntries, RejectEntries
    <2> QED
      BY <1>0, <2>1, <2>2 DEF TermTypes
  <1>5. ASSUME NEW c \in calls, HandleInstallSnapshot(c) PROVE TermTypes'
    <2>1. /\ UNCHANGED <<runningHeartbeats, stuck>>
          /\ \/ UNCHANGED <<currentTerm, state>>
             \/ /\ currentTerm' = [currentTerm EXCEPT ![Peers[c.to]] = c.term]
                /\ state' = [state EXCEPT ![Peers[c.to]] =
                      IF c.term > currentTerm[Peers[c.to]] THEN "FOLLOWER" ELSE @]
      BY <1>5 DEF HandleInstallSnapshot
    <2>2. c.term \in Nat /\ Peers[c.to] \in Server
      BY <1>0, CallFields
    <2> QED
      BY <1>0, <2>1, <2>2 DEF TermTypes
  <1>6. ASSUME NEW p \in Server, PeerStartsElection(p) PROVE TermTypes'
    BY <1>0, <1>6 DEF PeerStartsElection, TermTypes
  <1>7. ASSUME NEW p \in Server, HearCandidate(p) PROVE TermTypes'
    <2>1. PICK q \in Follower : currentTerm' = [currentTerm EXCEPT ![p] = currentTerm[q]]
      BY <1>7 DEF HearCandidate
    <2>2. currentTerm[q] \in Nat
      BY <1>0 DEF TermTypes, Server
    <2>3. state' = [state EXCEPT ![p] = "FOLLOWER"] /\ UNCHANGED stuck
      BY <1>7 DEF HearCandidate
    <2>4. runningHeartbeats' \in BOOLEAN
      BY <1>7 DEF HearCandidate
    <2> QED
      BY <1>0, <2>1, <2>2, <2>3, <2>4 DEF TermTypes
  <1>9. ASSUME NEW p \in Server, HearNewLeader(p) PROVE TermTypes'
    BY <1>0, <1>9 DEF HearNewLeader, TermTypes
  <1>8. \/ UNCHANGED termVars
        \/ \E r \in Request : ReceiveAppendReply(r)
        \/ ReceiveHeartbeatReply
        \/ \E c \in calls : HandleAppendEntries(c) \/ HandleInstallSnapshot(c)
        \/ \E p \in Server : \/ PeerStartsElection(p)
                              \/ HearCandidate(p) \/ HearNewLeader(p)
    BY DEF Next, ClientStep, CheckLeader, AppendEntry, Replicate,
           ReceiveSnapshotReply, Decide, Commit, ApplyCommitted, HeartStep, HeartbeatRound,
           SendHeartbeat, EndHeartbeatRound, HeartSnapshotReply, HandlerStep,
           CallTimesOut, triggerSnapshot, vars
  <1> QED
    BY <1>1, <1>2, <1>3, <1>4, <1>5, <1>6, <1>7, <1>8, <1>9

LEMMA CountsStep ==
    ASSUME TypeOK, [Next]_vars
    PROVE  CountTypes'
  <1>0. CountTypes
    BY TypeParts
  <1>1. \/ UNCHANGED <<lost, snapshots>>
        \/ \E c \in calls : CallTimesOut(c)
        \/ \E p \in Server : triggerSnapshot(p)
    BY DEF Next, ClientStep, CheckLeader, AppendEntry, Replicate,
           ReceiveAppendReply, ReceiveSnapshotReply, Decide, Commit, ApplyCommitted, HeartStep,
           HeartbeatRound, SendHeartbeat, EndHeartbeatRound,
           ReceiveHeartbeatReply, HeartSnapshotReply, HandlerStep,
           HandleAppendEntries, HandleInstallSnapshot, PeerStartsElection,
           HearCandidate, HearNewLeader, vars
  <1>2. ASSUME NEW c \in calls, CallTimesOut(c) PROVE CountTypes'
    <2>1. /\ UNCHANGED snapshots
          /\ \/ lost' = lost
             \/ lost < MaxLost /\ lost' = lost + 1
      BY <1>2 DEF CallTimesOut
    <2> QED
      BY <1>0, <2>1, BoundAssumption DEF CountTypes
  <1>3. ASSUME NEW p \in Server, triggerSnapshot(p) PROVE CountTypes'
    BY <1>0, <1>3, BoundAssumption DEF triggerSnapshot, CountTypes
  <1> QED
    BY <1>0, <1>1, <1>2, <1>3 DEF CountTypes

-----------------------------------------------------------------------------
(* Threads.                                                                *)

LEMMA HandlerFields ==
    ASSUME NEW t \in Handler, NEW n \in Nat, NEW res \in Result,
           NEW pc \in {"new", "append", "send", "wait", "commit", "apply", "done"}
    PROVE  /\ [t EXCEPT !.pc = pc] \in Handler
           /\ [t EXCEPT !.pc = pc, !.result = res] \in Handler
           /\ [t EXCEPT !.pc = pc, !.index = n] \in Handler
           /\ n # 0 => [t EXCEPT !.pc = pc, !.peer = n] \in Handler
           /\ [t EXCEPT !.successCount = n] \in Handler
  BY DEF Handler

LEMMA HandlerValues ==
    ASSUME NEW t \in Handler
    PROVE  /\ t.peer \in Nat \ {0} /\ t.successCount \in Nat /\ t.index \in Nat
  BY DEF Handler

\* The handler of a request: what its thread may do in one step.
LEMMA ClientThreads ==
    ASSUME TypeOK, [Next]_vars
    PROVE  client' \in [Request -> Handler]
  <1>0. /\ client \in [Request -> Handler] /\ LogTypes /\ CallTypes
        /\ {"", "not leader", "leader step down", "not committed"} \subseteq Result
    BY TypeParts DEF ThreadTypes, Result
  <1>1. ASSUME NEW r \in Request, NEW t \in Handler, client' = [client EXCEPT ![r] = t]
        PROVE  client' \in [Request -> Handler]
    BY <1>0, <1>1
  <1>2. ASSUME NEW r \in Request, CheckLeader(r) PROVE client' \in [Request -> Handler]
    <2>1. /\ [client[r] EXCEPT !.pc = "append"] \in Handler
          /\ [client[r] EXCEPT !.pc = "done", !.result = "not leader"] \in Handler
      BY <1>0, HandlerFields
    <2> QED
      BY <1>0, <1>2, <2>1 DEF CheckLeader
  <1>3. ASSUME NEW r \in Request, AppendEntry(r) PROVE client' \in [Request -> Handler]
    <2>1. LeaderSize \in Nat
      BY <1>0, LeaderTypes
    <2>2. [client[r] EXCEPT !.pc = "send", !.index = LeaderSize] \in Handler
      BY <1>0, <2>1, HandlerFields
    <2>3. client' = [client EXCEPT ![r] = [client[r] EXCEPT !.pc = "send", !.index = LeaderSize]]
      BY <1>0, <1>3 DEF AppendEntry, LeaderSize
    <2> QED
      BY <1>1, <2>2, <2>3
  <1>4. ASSUME NEW r \in Request, Replicate(r) PROVE client' \in [Request -> Handler]
    <2>1. [client[r] EXCEPT !.pc = "wait"] \in Handler
      BY <1>0, HandlerFields
    <2> QED
      BY <1>0, <1>4, <2>1 DEF Replicate
  <1>n. ASSUME NEW r \in Request
        PROVE  /\ NextPeer(client[r]) \in Handler
               /\ [NextPeer(client[r]) EXCEPT !.successCount = @ + 1] \in Handler
    <2>0. client[r] \in Handler
      BY <1>0
    <2>a. client[r].peer \in Nat \ {0}
      BY <2>0, HandlerValues
    <2>1. client[r] \in Handler /\ client[r].peer + 1 \in Nat \ {0}
      BY <2>0, <2>a
    <2>2. NextPeer(client[r]) \in Handler
      BY <1>0, <2>1, HandlerFields DEF NextPeer
    <2>3. NextPeer(client[r]).successCount + 1 \in Nat
      BY <2>2, HandlerValues
    <2> QED
      BY <1>0, <2>2, <2>3, HandlerFields
  <1>5. ASSUME NEW r \in Request, ReceiveAppendReply(r) PROVE client' \in [Request -> Handler]
    <2>1. PICK c \in calls : \/ ClientStepDown(r, c)
                             \/ ReplicateSucceeds(r, c)
                             \/ ReplicateFails(r, c)
      BY <1>5 DEF ReceiveAppendReply, Replied
    <2>2. [client[r] EXCEPT !.pc = "done", !.result = "leader step down"] \in Handler
      BY <1>0, HandlerFields
    <2>3. CASE ClientStepDown(r, c)
      <3>1. client' = [client EXCEPT ![r] =
                [client[r] EXCEPT !.pc = "done", !.result = "leader step down"]]
        BY <1>0, <2>3 DEF ClientStepDown
      <3> QED
        BY <1>1, <2>2, <3>1
    <2>4. CASE ReplicateSucceeds(r, c)
      <3>1. client' = [client EXCEPT ![r] =
                [NextPeer(client[r]) EXCEPT !.successCount = @ + 1]]
        BY <2>4 DEF ReplicateSucceeds
      <3> QED
        BY <1>1, <1>n, <3>1
    <2>5. CASE ReplicateFails(r, c)
      <3>1. UNCHANGED client \/ client' = [client EXCEPT ![r] = NextPeer(@)]
        BY <2>5 DEF ReplicateFails
      <3> QED
        BY <1>0, <1>n, <3>1
    <2> QED
      BY <2>1, <2>3, <2>4, <2>5
  <1>6. ASSUME NEW r \in Request, ReceiveSnapshotReply(r) PROVE client' \in [Request -> Handler]
    BY <1>0, <1>n, <1>6 DEF ReceiveSnapshotReply
  <1>7. ASSUME NEW r \in Request, Decide(r) PROVE client' \in [Request -> Handler]
    <2>1. /\ [client[r] EXCEPT !.pc = "commit"] \in Handler
          /\ [client[r] EXCEPT !.pc = "done", !.result = "not committed"] \in Handler
      BY <1>0, HandlerFields
    <2>2. \/ client' = [client EXCEPT ![r] = [@ EXCEPT !.pc = "commit"]]
          \/ client' = [client EXCEPT ![r] =
                 [@ EXCEPT !.pc = "done", !.result = "not committed"]]
      BY <1>7 DEF Decide
    <2> QED
      BY <1>0, <2>1, <2>2
  <1>11. ASSUME NEW r \in Request, Commit(r) PROVE client' \in [Request -> Handler]
    <2>1. [client[r] EXCEPT !.pc = "apply"] \in Handler
      BY <1>0, HandlerFields
    <2> QED
      BY <1>0, <1>11, <2>1 DEF Commit
  <1>8. ASSUME NEW r \in Request, ApplyCommitted(r)
        PROVE  client' \in [Request -> Handler]
    <2> DEFINE part == Applicable(Leader, log[Leader], commitIndex[Leader])
               res == ResultOf(store, part)
    <2>1. /\ commitIndex[Leader] + 1 \in Int /\ lastApplied[Leader] + 1 \in Nat
          /\ log[Leader] \in Seq(Entry) /\ latestSnapshot[Leader] \in AnySnapshot
          /\ store \in Command \cup {None}
      <3>1. commitIndex[Leader] \in Int /\ store \in Command \cup {None}
        BY <1>0, LeaderTypes DEF LogTypes
      <3>2. /\ lastApplied[Leader] \in Nat /\ log[Leader] \in Seq(Entry)
            /\ latestSnapshot[Leader] \in AnySnapshot
        BY <1>0, LeaderTypes
      <3> QED
        BY <3>1, <3>2
    <2>2. part \in Seq(Entry)
      BY <2>1, EntriesType DEF Applicable
    <2> HIDE DEF part
    <2>3. res \in Result
      BY <2>1, <2>2, ResultType
    <2>4. client' = [client EXCEPT ![r] = [client[r] EXCEPT !.pc = "done", !.result = res]]
      BY <1>0, <1>8 DEF ApplyCommitted, part
    <2> HIDE DEF res
    <2>5. [client[r] EXCEPT !.pc = "done", !.result = res] \in Handler
      BY <1>0, <2>3, HandlerFields
    <2> QED
      BY <1>1, <2>4, <2>5
  <1>9. ASSUME NEW c \in calls, CallTimesOut(c) PROVE client' \in [Request -> Handler]
    <2>1. CASE c.by = Heart
      BY <1>0, <1>9, <2>1 DEF CallTimesOut
    <2>2. CASE c.by # Heart
      <3>1. c.by \in Request
        BY <1>0, <2>2, CallFields
      <3>2. client' = [client EXCEPT ![c.by] = NextPeer(client[c.by])]
        BY <1>9, <2>2 DEF CallTimesOut
      <3> QED
        BY <1>1, <1>n, <3>1, <3>2
    <2> QED
      BY <2>1, <2>2
  <1>10. \/ UNCHANGED client
         \/ \E r \in Request : ClientStep(r)
         \/ \E c \in calls : CallTimesOut(c)
    BY DEF Next, HeartStep, HeartbeatRound, SendHeartbeat, EndHeartbeatRound,
           ReceiveHeartbeatReply, HeartSnapshotReply, HandlerStep,
           HandleAppendEntries, HandleInstallSnapshot, triggerSnapshot,
           PeerStartsElection, HearCandidate, HearNewLeader, vars
  <1> QED
    BY <1>0, <1>2, <1>3, <1>4, <1>5, <1>6, <1>7, <1>8, <1>9, <1>10, <1>11 DEF ClientStep

LEMMA HeartThreads ==
    ASSUME TypeOK, [Next]_vars
    PROVE  heart' \in HeartThread
  <1>0. heart \in HeartThread
    BY TypeParts DEF ThreadTypes
  <1>1. /\ [pc |-> "loop", peer |-> 1] \in HeartThread
        /\ [pc |-> "send", peer |-> 1] \in HeartThread
        /\ [pc |-> "ended", peer |-> 1] \in HeartThread
        /\ [heart EXCEPT !.pc = "wait"] \in HeartThread
        /\ NextHeart \in HeartThread
    <2>1. heart.peer \in Nat \ {0}
      BY <1>0 DEF HeartThread
    <2>2. NextHeart = [heart EXCEPT !.pc = "send", !.peer = heart.peer + 1]
      BY DEF NextHeart
    <2>3. ASSUME NEW n \in Nat \ {0}
          PROVE  [heart EXCEPT !.pc = "send", !.peer = n] \in HeartThread
      BY <1>0 DEF HeartThread
    <2>4. heart.peer + 1 \in Nat \ {0}
      BY <2>1
    <2>5. NextHeart \in HeartThread
      BY <2>2, <2>3, <2>4
    <2> QED
      BY <1>0, <2>5 DEF HeartThread
  <1>2. CASE HeartStep
    BY <1>1, <1>2 DEF HeartStep, HeartbeatRound, SendHeartbeat,
       EndHeartbeatRound, ReceiveHeartbeatReply, HeartSnapshotReply,
       HeartIgnores, HeartStepDown, HeartUpdates
  <1>3. ASSUME NEW c \in calls, CallTimesOut(c) PROVE heart' \in HeartThread
    BY <1>0, <1>1, <1>3 DEF CallTimesOut
  <1>4. UNCHANGED heart \/ HeartStep \/ \E c \in calls : CallTimesOut(c)
    BY DEF Next, ClientStep, CheckLeader, AppendEntry, Replicate,
           ReceiveAppendReply, ReceiveSnapshotReply, Decide, Commit, ApplyCommitted,
           HandlerStep, HandleAppendEntries, HandleInstallSnapshot,
           triggerSnapshot, PeerStartsElection, HearCandidate, HearNewLeader, vars
  <1> QED
    BY <1>0, <1>2, <1>3, <1>4

-----------------------------------------------------------------------------
(* Logs, commit and apply.                                                 *)

\* What a compaction at s leaves.
LEMMA CompactEffect ==
    ASSUME LogTypes, NEW s \in Server, NEW applied \in Nat,
           NEW kv \in Command \cup {None}, NEW lg \in Seq(Entry),
           Compact(s, applied, kv, lg)
    PROVE  /\ log' \in [Server -> Seq(Entry)]
           /\ latestSnapshot' \in [Server -> AnySnapshot]
           /\ latestSnapshot'[s].lastIncludedIndex = applied
           /\ \A q \in Server \ {s} : /\ log'[q] = log[q]
                                      /\ latestSnapshot'[q] = latestSnapshot[q]
           /\ /\ latestSnapshot[s].lastIncludedIndex <= applied
              /\ applied < getLogSize(lg, latestSnapshot[s])
              => getLogSize(log'[s], latestSnapshot'[s])
                   = getLogSize(lg, latestSnapshot[s])
  <1> DEFINE old == latestSnapshot[s]
             term == getLogTerm(lg, old, applied)
             new == [lastIncludedIndex |-> applied, lastIncludedTerm |-> term,
                     kvState |-> kv]
             short == truncateLogSafe(lg, old, applied)
  <1>1. /\ latestSnapshot' = [latestSnapshot EXCEPT ![s] = new]
        /\ log' = [log EXCEPT ![s] = short]
    BY DEF Compact
  <1>2. old \in AnySnapshot
    BY DEF LogTypes
  <1> HIDE DEF old
  <1>3. term \in Nat
    BY <1>2, LogTermType
  <1> HIDE DEF term
  <1>4. new \in AnySnapshot /\ new.lastIncludedIndex = applied
    BY <1>3 DEF AnySnapshot, Snapshot
  <1> HIDE DEF new
  <1>5. /\ short \in Seq(Entry)
        /\ old.lastIncludedIndex <= applied /\ applied < getLogSize(lg, old) =>
              applied + 1 + Len(short) = getLogSize(lg, old)
    BY <1>2, TruncateType
  <1> HIDE DEF short
  <1>6. getLogSize(short, new) = applied + 1 + Len(short)
    BY <1>4 DEF getLogSize, baseIndex
  <1>7. /\ log'[s] = short /\ latestSnapshot'[s] = new
        /\ \A q \in Server \ {s} : /\ log'[q] = log[q]
                                   /\ latestSnapshot'[q] = latestSnapshot[q]
    BY <1>1 DEF LogTypes
  <1>8. /\ log' \in [Server -> Seq(Entry)]
        /\ latestSnapshot' \in [Server -> AnySnapshot]
    BY <1>1, <1>4, <1>5 DEF LogTypes
  <1> QED
    BY <1>4, <1>5, <1>6, <1>7, <1>8 DEF old

\* What committing and applying at s leaves.
LEMMA CommitEffect ==
    ASSUME LogTypes, NEW s \in Server, NEW lg \in Seq(Entry),
           NEW commit \in Nat \cup {-1}, Apply(s, lg, commit),
           commitIndex' = [commitIndex EXCEPT ![s] = commit]
    PROVE  /\ LogTypes'
           /\ commitIndex'[s] = commit
           /\ lastApplied'[s] = IF commit > lastApplied[s] THEN commit ELSE lastApplied[s]
           /\ \A q \in Server \ {s} : /\ log'[q] = log[q]
                                      /\ latestSnapshot'[q] = latestSnapshot[q]
                                      /\ commitIndex'[q] = commitIndex[q]
                                      /\ lastApplied'[q] = lastApplied[q]
           /\ latestSnapshot'[s].lastIncludedIndex
                \in {latestSnapshot[s].lastIncludedIndex, lastApplied'[s]}
           /\ /\ latestSnapshot[s].lastIncludedIndex <= lastApplied'[s]
              /\ lastApplied'[s] < getLogSize(lg, latestSnapshot[s])
              => getLogSize(log'[s], latestSnapshot'[s])
                   = getLogSize(lg, latestSnapshot[s])
  <1> DEFINE applied == IF commit > lastApplied[s] THEN commit ELSE lastApplied[s]
             part == Applicable(s, lg, commit)
             kv == StoreAfter(store, part)
  <1>0. /\ lastApplied[s] \in Nat /\ latestSnapshot[s] \in AnySnapshot
        /\ store \in Command \cup {None}
    BY DEF LogTypes
  <1>1. applied \in Nat
    BY <1>0
  <1>2. kv \in Command \cup {None}
    <2>1. lastApplied[s] + 1 \in Nat /\ commit + 1 \in Int
      BY <1>0
    <2>2. part \in Seq(Entry)
      BY <1>0, <2>1, EntriesType DEF Applicable
    <2> HIDE DEF part
    <2> QED
      BY <1>0, <2>2, StoreType
  <1>3. /\ commitIndex' = [commitIndex EXCEPT ![s] = commit]
        /\ lastApplied' = [lastApplied EXCEPT ![s] = applied]
        /\ store' = kv
        /\ \/ Compact(s, applied, kv, lg)
           \/ log' = [log EXCEPT ![s] = lg] /\ UNCHANGED <<latestSnapshot, nextIndex>>
    BY DEF Apply
  <1> HIDE DEF applied, kv
  <1>4. /\ commitIndex'[s] = commit /\ lastApplied'[s] = applied
        /\ \A q \in Server \ {s} : /\ commitIndex'[q] = commitIndex[q]
                                   /\ lastApplied'[q] = lastApplied[q]
        /\ commitIndex' \in [Server -> Nat \cup {-1}]
        /\ lastApplied' \in [Server -> Nat]
    BY <1>1, <1>3 DEF LogTypes
  <1>5. CASE Compact(s, applied, kv, lg)
    <2>1. /\ log' \in [Server -> Seq(Entry)]
          /\ latestSnapshot' \in [Server -> AnySnapshot]
          /\ latestSnapshot'[s].lastIncludedIndex = applied
          /\ \A q \in Server \ {s} : /\ log'[q] = log[q]
                                     /\ latestSnapshot'[q] = latestSnapshot[q]
          /\ /\ latestSnapshot[s].lastIncludedIndex <= applied
             /\ applied < getLogSize(lg, latestSnapshot[s])
             => getLogSize(log'[s], latestSnapshot'[s])
                  = getLogSize(lg, latestSnapshot[s])
      BY <1>1, <1>2, <1>5, CompactEffect
    <2>2. LogTypes'
      BY <1>2, <1>3, <1>4, <2>1 DEF LogTypes
    <2> QED
      BY <1>4, <2>1, <2>2 DEF applied
  <1>6. CASE log' = [log EXCEPT ![s] = lg] /\ UNCHANGED <<latestSnapshot, nextIndex>>
    <2>1. /\ log' \in [Server -> Seq(Entry)] /\ log'[s] = lg
          /\ latestSnapshot' = latestSnapshot
          /\ latestSnapshot' \in [Server -> AnySnapshot]
          /\ \A q \in Server \ {s} : log'[q] = log[q]
      BY <1>6 DEF LogTypes
    <2>2. LogTypes'
      BY <1>2, <1>3, <1>4, <2>1 DEF LogTypes
    <2> QED
      BY <1>4, <2>1, <2>2 DEF applied
  <1> QED
    BY <1>3, <1>5, <1>6

\* The leader's own part of LeaderBounds.
LeaderKeeps ==
    /\ latestSnapshot[Leader].lastIncludedIndex <= lastApplied[Leader]
    /\ 0 <= commitIndex[Leader]
    /\ LeaderCommitted < LeaderSize \/ LeaderCommitted = 0

\* What a step promises about the logs: the leader's only grows at its end.
LogsGrow ==
    /\ LogTypes'
    /\ LeaderSize <= LeaderSize'
    /\ LeaderCommitted <= LeaderCommitted'
    /\ LeaderKeeps'
    /\ PeersWithin'

\* A peer's log does not matter to the leader, as long as the peer does not
\* apply more.
LEMMA PeerLogStep ==
    ASSUME RepInv, LogTypes', NEW s \in Server, s # Leader,
           \A q \in Server \ {s} : /\ log'[q] = log[q]
                                   /\ latestSnapshot'[q] = latestSnapshot[q]
                                   /\ commitIndex'[q] = commitIndex[q]
                                   /\ lastApplied'[q] = lastApplied[q],
           lastApplied'[s] <= LeaderCommitted
    PROVE  LogsGrow
  <1>0. LogTypes /\ LeaderKeeps /\ PeersWithin
    BY TypeParts DEF RepInv, LeaderBounds, LeaderKeeps
  <1>1. /\ Leader \in Server /\ log'[Leader] = log[Leader]
        /\ latestSnapshot'[Leader] = latestSnapshot[Leader]
        /\ commitIndex'[Leader] = commitIndex[Leader]
        /\ lastApplied'[Leader] = lastApplied[Leader]
    BY DEF Server
  <1>2. /\ LeaderSize' = LeaderSize /\ LeaderSize \in Nat
        /\ LeaderCommitted' = LeaderCommitted /\ LeaderCommitted \in Nat
    BY <1>0, <1>1, LeaderTypes DEF LeaderSize, LeaderCommitted
  <1>3. LeaderKeeps'
    BY <1>0, <1>1, <1>2 DEF LeaderKeeps
  <1>4. PeersWithin'
    BY <1>0, <1>1, <1>2 DEF PeersWithin
  <1> QED
    BY <1>1, <1>2, <1>3, <1>4 DEF LogsGrow

LEMMA AppendEntryLogs ==
    ASSUME RepInv, NEW r \in Request, AppendEntry(r)
    PROVE  LogsGrow /\ LeaderSize' = LeaderSize + 1
           /\ log'[Leader] = Append(log[Leader], [term |-> currentTerm[Leader],
                                      index |-> LeaderSize, command |-> r])
           /\ \A q \in Server \ {Leader} : log'[q] = log[q]
  <1> DEFINE e == [term |-> currentTerm[Leader], index |-> LeaderSize, command |-> r]
  <1>0. LogTypes /\ LeaderKeeps /\ PeersWithin /\ TermTypes
    BY TypeParts DEF RepInv, LeaderBounds, LeaderKeeps
  <1>1. /\ Leader \in Server /\ log[Leader] \in Seq(Entry) /\ LeaderSize \in Nat
        /\ latestSnapshot[Leader] \in AnySnapshot
    BY <1>0, LeaderTypes
  <1>2. e \in Entry
    BY <1>0, <1>1 DEF Entry, Command, TermTypes
  <1>3. log' = [log EXCEPT ![Leader] = Append(log[Leader], e)]
    BY DEF AppendEntry, LeaderSize
  <1> HIDE DEF e
  <1>4. /\ Append(log[Leader], e) \in Seq(Entry)
        /\ Len(Append(log[Leader], e)) = Len(log[Leader]) + 1
    BY <1>1, <1>2, AppendProperties
  <1>5. /\ log' \in [Server -> Seq(Entry)] /\ log'[Leader] = Append(log[Leader], e)
        /\ \A q \in Server \ {Leader} : log'[q] = log[q]
    BY <1>0, <1>1, <1>3, <1>4 DEF LogTypes
  <1>6. UNCHANGED <<latestSnapshot, commitIndex, lastApplied, store>>
    BY DEF AppendEntry
  <1>7. LogTypes'
    BY <1>0, <1>5, <1>6 DEF LogTypes
  <1>8. LeaderSize' = LeaderSize + 1
    <2>1. Len(log[Leader]) \in Nat /\ baseIndex(latestSnapshot[Leader]) \in Nat
      BY <1>1, SizeType, SnapshotFields
    <2> QED
      BY <1>4, <1>5, <1>6, <2>1 DEF LeaderSize, getLogSize
  <1>a. LeaderCommitted' = LeaderCommitted /\ LeaderCommitted \in Nat
    BY <1>0, <1>6, LeaderTypes DEF LeaderCommitted
  <1>9. LeaderKeeps' /\ PeersWithin'
    BY <1>0, <1>1, <1>6, <1>8, <1>a DEF LeaderKeeps, PeersWithin
  <1> QED
    BY <1>0, <1>1, <1>5, <1>6, <1>7, <1>8, <1>9, <1>a, LeaderTypes DEF LogsGrow, e

\* With the leader's lock free nothing is being applied.
LEMMA NothingBeingApplied ==
    ASSUME RepInv, LockFree(Leader)
    PROVE  commitIndex[Leader] <= lastApplied[Leader] /\ LeaderCommitted = lastApplied[Leader]
  <1>1. LogTypes
    BY TypeParts DEF RepInv
  <1>2. commitIndex[Leader] <= lastApplied[Leader]
    BY DEF RepInv, BeingApplied, LockFree
  <1> QED
    BY <1>1, <1>2, LeaderTypes DEF LeaderCommitted

LEMMA CommitLogs ==
    ASSUME RepInv, NEW r \in Request, Commit(r)
    PROVE  LogsGrow
  <1> DEFINE i == client[r].index
  <1>0. /\ LogTypes /\ LeaderKeeps /\ PeersWithin
        /\ client \in [Request -> Handler]
    BY TypeParts DEF RepInv, LeaderBounds, LeaderKeeps, ThreadTypes
  <1>1. /\ Leader \in Server /\ LeaderSize \in Nat /\ lastApplied[Leader] \in Nat
        /\ LeaderCommitted = lastApplied[Leader]
    BY <1>0, LeaderTypes, NothingBeingApplied DEF Commit
  <1>2. i \in Nat /\ i < LeaderSize
    BY <1>0, HandlerValues DEF Commit, RepInv, LeaderBounds
  <1>3. /\ commitIndex' = [commitIndex EXCEPT ![Leader] = i]
        /\ UNCHANGED <<log, latestSnapshot, lastApplied, store>>
    BY DEF Commit
  <1> HIDE DEF i
  <1>4. LogTypes' /\ commitIndex'[Leader] = i
    BY <1>0, <1>1, <1>2, <1>3 DEF LogTypes
  <1>5. /\ LeaderCommitted' = IF i > lastApplied[Leader] THEN i ELSE lastApplied[Leader]
        /\ LeaderSize' = LeaderSize
    BY <1>3, <1>4 DEF LeaderCommitted, LeaderSize
  <1>6. /\ LeaderCommitted' \in Nat /\ LeaderCommitted <= LeaderCommitted'
        /\ LeaderCommitted' < LeaderSize \/ LeaderCommitted' = 0
    BY <1>0, <1>1, <1>2, <1>5 DEF LeaderKeeps
  <1>7. LeaderKeeps'
    BY <1>0, <1>2, <1>3, <1>4, <1>5, <1>6 DEF LeaderKeeps
  <1>8. PeersWithin'
    <2>1. \A q \in Server : lastApplied[q] \in Nat
      BY <1>0 DEF LogTypes
    <2> QED
      BY <1>0, <1>1, <1>3, <1>6, <2>1 DEF PeersWithin
  <1> QED
    BY <1>1, <1>4, <1>5, <1>6, <1>7, <1>8 DEF LogsGrow

LEMMA ApplyLogs ==
    ASSUME RepInv, NEW r \in Request, ApplyCommitted(r)
    PROVE  /\ LogsGrow /\ LeaderSize' = LeaderSize /\ lastApplied'[Leader] < LeaderSize
           /\ commitIndex'[Leader] <= lastApplied'[Leader]
  <1> DEFINE i == commitIndex[Leader]
  <1>0. /\ LogTypes /\ LeaderKeeps /\ PeersWithin
        /\ client \in [Request -> Handler]
    BY TypeParts DEF RepInv, LeaderBounds, LeaderKeeps, ThreadTypes
  <1>1. /\ Leader \in Server /\ log[Leader] \in Seq(Entry) /\ LeaderSize \in Nat
        /\ lastApplied[Leader] \in Nat /\ i \in Nat /\ LeaderCommitted \in Nat
        /\ latestSnapshot[Leader].lastIncludedIndex \in Int
    BY <1>0, LeaderTypes DEF LeaderKeeps
  <1>2. LeaderSize >= 1
    <2>1. client[r].index \in Nat /\ client[r].index < LeaderSize
      BY <1>0, HandlerValues DEF ApplyCommitted, RepInv, LeaderBounds
    <2> QED
      BY <1>1, <2>1
  <1>3. /\ Apply(Leader, log[Leader], i)
        /\ commitIndex' = [commitIndex EXCEPT ![Leader] = i]
    BY <1>0 DEF ApplyCommitted, LogTypes
  <1> HIDE DEF i
  <1>4. /\ LogTypes'
        /\ commitIndex'[Leader] = i
        /\ lastApplied'[Leader] = IF i > lastApplied[Leader] THEN i ELSE lastApplied[Leader]
        /\ \A q \in Server \ {Leader} : lastApplied'[q] = lastApplied[q]
        /\ latestSnapshot'[Leader].lastIncludedIndex
             \in {latestSnapshot[Leader].lastIncludedIndex, lastApplied'[Leader]}
        /\ /\ latestSnapshot[Leader].lastIncludedIndex <= lastApplied'[Leader]
           /\ lastApplied'[Leader] < LeaderSize
           => LeaderSize' = LeaderSize
    BY <1>0, <1>1, <1>3, CommitEffect DEF LeaderSize
  <1>5. /\ lastApplied'[Leader] = LeaderCommitted
        /\ i <= lastApplied'[Leader] /\ lastApplied[Leader] <= lastApplied'[Leader]
        /\ LeaderCommitted' = LeaderCommitted
    BY <1>1, <1>4 DEF LeaderCommitted, i
  <1>6. lastApplied'[Leader] < LeaderSize
    BY <1>0, <1>1, <1>2, <1>5 DEF LeaderKeeps
  <1>7. LeaderSize' = LeaderSize
    BY <1>0, <1>1, <1>4, <1>5, <1>6 DEF LeaderKeeps
  <1>8. LeaderKeeps'
    BY <1>0, <1>1, <1>4, <1>5, <1>6, <1>7 DEF LeaderKeeps
  <1>9. PeersWithin'
    BY <1>0, <1>1, <1>4, <1>5 DEF PeersWithin
  <1> QED
    BY <1>1, <1>4, <1>5, <1>6, <1>7, <1>8, <1>9 DEF LogsGrow

\* A peer takes over no more than the message says the leader has committed.
LEMMA FollowerCommitBound ==
    ASSUME NEW lg \in Seq(Entry), NEW snap \in AnySnapshot, NEW n \in Nat
    PROVE  FollowerCommit(lg, snap, n) \in Nat \cup {-1}
           /\ FollowerCommit(lg, snap, n) <= n
  BY SizeType DEF FollowerCommit

LEMMA AcceptEntriesLogs ==
    ASSUME RepInv, NEW c \in calls, c.rpc = "AppendEntries",
           AcceptEntries(c, Peers[c.to])
    PROVE  LogsGrow
  <1> DEFINE s == Peers[c.to]
             lg == AppendBatch(log[s], latestSnapshot[s], c.prevLogIndex, c.entries)
             commit == FollowerCommit(lg, latestSnapshot[s], c.leaderCommit)
  <1>0. LogTypes /\ LeaderKeeps /\ PeersWithin /\ CallTypes
    BY TypeParts DEF RepInv, LeaderBounds, LeaderKeeps
  <1>1. /\ s \in Server /\ s # Leader
        /\ c.prevLogIndex \in Int /\ c.entries \in Seq(Entry) /\ c.leaderCommit \in Nat
    BY <1>0, CallFields
  <1>2. c.leaderCommit <= LeaderCommitted
    BY DEF RepInv, Within, Reaches
  <1>a. /\ \/ /\ Apply(s, lg, commit)
              /\ commitIndex' = [commitIndex EXCEPT ![s] = commit]
           \/ /\ log' = [log EXCEPT ![s] = lg]
              /\ UNCHANGED <<latestSnapshot, commitIndex, lastApplied, store>>
    BY DEF AcceptEntries
  <1> HIDE DEF s
  <1>3. log[s] \in Seq(Entry) /\ latestSnapshot[s] \in AnySnapshot
        /\ lastApplied[s] \in Nat /\ LeaderCommitted \in Nat
        /\ lastApplied[s] <= LeaderCommitted
    BY <1>0, <1>1, LeaderTypes DEF LogTypes, PeersWithin
  <1>4. lg \in Seq(Entry)
    BY <1>1, <1>3, AppendBatchType
  <1> HIDE DEF lg
  <1>5. commit \in Nat \cup {-1} /\ commit <= c.leaderCommit
    BY <1>1, <1>3, <1>4, FollowerCommitBound
  <1> HIDE DEF commit
  <1>6. CASE /\ Apply(s, lg, commit)
             /\ commitIndex' = [commitIndex EXCEPT ![s] = commit]
    <2>1. /\ LogTypes'
          /\ lastApplied'[s] = IF commit > lastApplied[s] THEN commit ELSE lastApplied[s]
          /\ \A q \in Server \ {s} : /\ log'[q] = log[q]
                                     /\ latestSnapshot'[q] = latestSnapshot[q]
                                     /\ commitIndex'[q] = commitIndex[q]
                                     /\ lastApplied'[q] = lastApplied[q]
      BY <1>0, <1>1, <1>4, <1>5, <1>6, CommitEffect
    <2>2. lastApplied'[s] <= LeaderCommitted
      BY <1>1, <1>2, <1>3, <1>5, <2>1
    <2> QED
      BY <1>1, <2>1, <2>2, PeerLogStep
  <1>7. CASE /\ log' = [log EXCEPT ![s] = lg]
             /\ UNCHANGED <<latestSnapshot, commitIndex, lastApplied, store>>
    <2>1. LogTypes' /\ \A q \in Server \ {s} : log'[q] = log[q]
      BY <1>0, <1>4, <1>7 DEF LogTypes
    <2> QED
      BY <1>1, <1>3, <1>7, <2>1, PeerLogStep
  <1> QED
    BY <1>6, <1>7, <1>a

LEMMA InstallSnapshotLogs ==
    ASSUME RepInv, NEW c \in calls, HandleInstallSnapshot(c)
    PROVE  UNCHANGED logVars \/ LogsGrow
  <1> DEFINE s == Peers[c.to]
  <1>0. LogTypes /\ LeaderKeeps /\ PeersWithin /\ CallTypes
    BY TypeParts DEF RepInv, LeaderBounds, LeaderKeeps
  <1>1. c.rpc = "InstallSnapshot"
    BY DEF HandleInstallSnapshot
  <1>2. /\ s \in Server /\ s # Leader
        /\ c.snapshot \in AnySnapshot
        /\ c.snapshot.lastIncludedIndex \in Nat
        /\ c.snapshot.kvState \in Command \cup {None}
    BY <1>0, <1>1, CallFields DEF AnySnapshot
  <1>3. c.snapshot.lastIncludedIndex <= LeaderCommitted
    BY <1>1 DEF RepInv, Within, Reaches
  <1>4. \/ UNCHANGED logVars
        \/ /\ store' = c.snapshot.kvState
           /\ lastApplied' = [lastApplied EXCEPT ![s] = c.snapshot.lastIncludedIndex]
           /\ commitIndex' = [commitIndex EXCEPT ![s] = c.snapshot.lastIncludedIndex]
           /\ log' = [log EXCEPT ![s] = <<>>]
           /\ latestSnapshot' = [latestSnapshot EXCEPT ![s] = c.snapshot]
    BY DEF HandleInstallSnapshot
  <1> HIDE DEF s
  <1>5. ASSUME /\ store' = c.snapshot.kvState
               /\ lastApplied' = [lastApplied EXCEPT ![s] = c.snapshot.lastIncludedIndex]
               /\ commitIndex' = [commitIndex EXCEPT ![s] = c.snapshot.lastIncludedIndex]
               /\ log' = [log EXCEPT ![s] = <<>>]
               /\ latestSnapshot' = [latestSnapshot EXCEPT ![s] = c.snapshot]
        PROVE  LogsGrow
    <2>1. <<>> \in Seq(Entry)
      BY EmptySeq
    <2>2. LogTypes'
      BY <1>0, <1>2, <1>5, <2>1 DEF LogTypes
    <2>3. /\ lastApplied'[s] = c.snapshot.lastIncludedIndex
          /\ \A q \in Server \ {s} : /\ log'[q] = log[q]
                                     /\ latestSnapshot'[q] = latestSnapshot[q]
                                     /\ commitIndex'[q] = commitIndex[q]
                                     /\ lastApplied'[q] = lastApplied[q]
      BY <1>0, <1>2, <1>5 DEF LogTypes
    <2> QED
      BY <1>2, <1>3, <2>2, <2>3, PeerLogStep
  <1> QED
    BY <1>4, <1>5

LEMMA TriggerLogs ==
    ASSUME RepInv, NEW s \in Server, triggerSnapshot(s)
    PROVE  LogsGrow /\ (s = Leader => lastApplied[Leader] < LeaderSize)
           /\ LeaderSize' = LeaderSize
  <1>0. LogTypes /\ LeaderKeeps /\ PeersWithin
    BY TypeParts DEF RepInv, LeaderBounds, LeaderKeeps
  <1>1. /\ lastApplied[s] \in Nat /\ store \in Command \cup {None}
        /\ log[s] \in Seq(Entry) /\ latestSnapshot[s] \in AnySnapshot
        /\ lastApplied \in [Server -> Nat]
        /\ lastApplied[s] <= LeaderCommitted
    BY <1>0 DEF LogTypes, PeersWithin
  <1>2. /\ Compact(s, lastApplied[s], store, log[s]) /\ log[s] # <<>>
        /\ UNCHANGED <<commitIndex, lastApplied, store>>
    BY DEF triggerSnapshot
  <1>3. /\ log' \in [Server -> Seq(Entry)]
        /\ latestSnapshot' \in [Server -> AnySnapshot]
        /\ latestSnapshot'[s].lastIncludedIndex = lastApplied[s]
        /\ \A q \in Server \ {s} : /\ log'[q] = log[q]
                                   /\ latestSnapshot'[q] = latestSnapshot[q]
        /\ /\ latestSnapshot[s].lastIncludedIndex <= lastApplied[s]
           /\ lastApplied[s] < getLogSize(log[s], latestSnapshot[s])
           => getLogSize(log'[s], latestSnapshot'[s])
                = getLogSize(log[s], latestSnapshot[s])
    BY <1>0, <1>1, <1>2, CompactEffect
  <1>4. LogTypes'
    BY <1>0, <1>2, <1>3 DEF LogTypes
  <1>5. CASE s # Leader
    <2>1. Leader \in Server
      BY DEF Server
    <2>2. LeaderSize' = LeaderSize
      BY <1>3, <1>5, <2>1 DEF LeaderSize
    <2> QED
      BY <1>1, <1>2, <1>3, <1>4, <1>5, <2>2, PeerLogStep
  <1>6. CASE s = Leader
    <2>1. Len(log[Leader]) \in Nat \ {0}
      BY <1>1, <1>2, <1>6, EmptySeq
    <2>2. LeaderSize >= 1 /\ LeaderSize \in Nat
      BY <1>1, <1>6, <2>1, SizeType, SnapshotFields DEF LeaderSize
    <2>a. /\ LeaderCommitted = lastApplied[Leader]
          /\ commitIndex[Leader] <= lastApplied[Leader]
      BY <1>6, NothingBeingApplied DEF triggerSnapshot
    <2>b. LeaderCommitted' = LeaderCommitted
      BY <1>2 DEF LeaderCommitted
    <2>3. lastApplied[Leader] < LeaderSize
      BY <1>0, <2>2, <2>a DEF LeaderKeeps
    <2>4. LeaderSize' = LeaderSize
      BY <1>0, <1>3, <1>6, <2>3 DEF LeaderSize, LeaderKeeps
    <2>5. LeaderKeeps'
      BY <1>0, <1>1, <1>2, <1>3, <1>6, <2>3, <2>4, <2>b DEF LeaderKeeps
    <2>6. PeersWithin'
      BY <1>0, <1>2, <2>b DEF PeersWithin
    <2> QED
      BY <1>1, <1>2, <1>4, <1>6, <2>2, <2>3, <2>4, <2>5, <2>6, <2>a, <2>b DEF LogsGrow
  <1> QED
    BY <1>5, <1>6

LEMMA LogsStep ==
    ASSUME RepInv, [Next]_vars
    PROVE  LogsGrow
  <1>0. LogTypes /\ LeaderKeeps /\ PeersWithin
    BY TypeParts DEF RepInv, LeaderBounds, LeaderKeeps
  <1>1. CASE UNCHANGED logVars
    <2>1. LogTypes' /\ LeaderKeeps' /\ PeersWithin' /\ LeaderSize' = LeaderSize
          /\ LeaderCommitted' = LeaderCommitted
      BY <1>0, <1>1 DEF logVars, LogTypes, LeaderKeeps, LeaderSize, PeersWithin,
         LeaderCommitted
    <2> QED
      BY <1>0, <1>1, <2>1, LeaderTypes DEF LogsGrow, logVars
  <1>2. ASSUME NEW c \in calls, HandleAppendEntries(c) PROVE UNCHANGED logVars \/ LogsGrow
    <2>1. c.rpc = "AppendEntries"
      BY <1>2 DEF HandleAppendEntries
    <2>2. UNCHANGED logVars \/ AcceptEntries(c, Peers[c.to])
      BY <1>2 DEF HandleAppendEntries, RefuseOldTerm, SelfDeadlock, RejectEntries
    <2> QED
      BY <2>1, <2>2, AcceptEntriesLogs
  <1>3. \/ UNCHANGED logVars
        \/ \E r \in Request : AppendEntry(r) \/ Commit(r) \/ ApplyCommitted(r)
        \/ \E c \in calls : HandleAppendEntries(c) \/ HandleInstallSnapshot(c)
        \/ \E s \in Server : triggerSnapshot(s)
    BY DEF Next, ClientStep, CheckLeader, Replicate, ReceiveAppendReply,
           ReceiveSnapshotReply, Decide, HeartStep, HeartbeatRound,
           SendHeartbeat, EndHeartbeatRound, ReceiveHeartbeatReply,
           HeartSnapshotReply, HandlerStep, CallTimesOut, PeerStartsElection,
           HearCandidate, HearNewLeader, vars
  <1> QED
    BY <1>1, <1>2, <1>3, AppendEntryLogs, CommitLogs, ApplyLogs,
       InstallSnapshotLogs, TriggerLogs

-----------------------------------------------------------------------------
(* The indices of requests and peers.                                      *)

\* A request keeps its index once it has one, and goes on with sending only
\* from there or when a call of its own is over.
LEMMA RequestStep ==
    ASSUME RepInv, [Next]_vars, NEW r \in Request
    PROVE  \/ client'[r].index = LeaderSize /\ AppendEntry(r)
           \/ /\ client'[r].index = client[r].index
              /\ client'[r].pc \in {"send", "wait", "commit", "apply"} =>
                    \/ client[r].pc \in {"send", "wait", "commit", "apply"}
                    \/ \E c \in calls : c.by = r /\ c.by # Heart
  <1> DEFINE Kept == /\ client'[r].index = client[r].index
                     /\ client'[r].pc \in {"send", "wait", "commit", "apply"} =>
                           \/ client[r].pc \in {"send", "wait", "commit", "apply"}
                           \/ \E c \in calls : c.by = r /\ c.by # Heart
  <1>0. client \in [Request -> Handler] /\ CallTypes
    BY TypeParts DEF RepInv, ThreadTypes
  <1>1. ASSUME NEW q \in Request, NEW t, client' = [client EXCEPT ![q] = t], q # r
        PROVE  client'[r] = client[r]
    BY <1>0, <1>1
  <1>2. ASSUME NEW q \in Request, NEW t
        PROVE  /\ NextPeer(client[q]).index = client[q].index
               /\ [NextPeer(client[q]) EXCEPT !.successCount = @ + 1].index = client[q].index
    <2>1. client[q] \in Handler
      BY <1>0
    <2> QED
      BY <2>1 DEF NextPeer, Handler
  <1>3. ASSUME CheckLeader(r) PROVE Kept
    BY <1>0, <1>3 DEF CheckLeader, Handler
  <1>4. ASSUME AppendEntry(r) PROVE client'[r].index = LeaderSize
    BY <1>0, <1>4 DEF AppendEntry, LeaderSize, Handler
  <1>5. ASSUME Replicate(r) PROVE Kept
    BY <1>0, <1>5 DEF Replicate, Handler
  <1>6. ASSUME ReceiveAppendReply(r) PROVE Kept
    <2>1. /\ client[r].pc = "wait"
          /\ \E c \in calls : ClientStepDown(r, c) \/ ReplicateSucceeds(r, c) \/ ReplicateFails(r, c)
      BY <1>6 DEF ReceiveAppendReply, Replied
    <2>2. \/ client' = [client EXCEPT ![r].pc = "done", ![r].result = "leader step down"]
          \/ client' = [client EXCEPT ![r] = [NextPeer(client[r]) EXCEPT !.successCount = @ + 1]]
          \/ client' = [client EXCEPT ![r] = NextPeer(client[r])]
          \/ client' = client
      BY <2>1 DEF ClientStepDown, ReplicateSucceeds, ReplicateFails
    <2>3. client'[r].index = client[r].index
      BY <1>0, <1>2, <2>2 DEF Handler
    <2> QED
      BY <2>1, <2>3
  <1>7. ASSUME ReceiveSnapshotReply(r) PROVE Kept
    BY <1>0, <1>2, <1>7 DEF ReceiveSnapshotReply
  <1>8. ASSUME Decide(r) PROVE Kept
    BY <1>0, <1>8 DEF Decide, Handler
  <1>9. ASSUME Commit(r) PROVE Kept
    BY <1>0, <1>9 DEF Commit, Handler
  <1>a. ASSUME ApplyCommitted(r) PROVE Kept
    BY <1>0, <1>a DEF ApplyCommitted, Handler
  <1>10. ASSUME NEW c \in calls, CallTimesOut(c) PROVE Kept
    <2>1. CASE c.by = Heart
      BY <1>10, <2>1 DEF CallTimesOut
    <2>2. CASE c.by # Heart
      <3>1. c.by \in Request
        BY <1>0, <2>2, CallFields
      <3>2. client' = [client EXCEPT ![c.by] = NextPeer(client[c.by])]
        BY <1>10, <2>2 DEF CallTimesOut
      <3> QED
        BY <1>0, <1>2, <2>2, <3>1, <3>2
    <2> QED
      BY <2>1, <2>2
  <1>11. ASSUME NEW q \in Request, ClientStep(q), q # r PROVE client'[r] = client[r]
    BY <1>0, <1>11 DEF ClientStep, CheckLeader, AppendEntry, Replicate,
       ReceiveAppendReply, ClientStepDown, ReplicateSucceeds, ReplicateFails,
       ReceiveSnapshotReply, Decide, Commit, ApplyCommitted
  <1>12. \/ UNCHANGED client
         \/ \E q \in Request : ClientStep(q)
         \/ \E c \in calls : CallTimesOut(c)
    BY DEF Next, HeartStep, HeartbeatRound, SendHeartbeat, EndHeartbeatRound,
           ReceiveHeartbeatReply, HeartSnapshotReply, HandlerStep,
           HandleAppendEntries, HandleInstallSnapshot, triggerSnapshot,
           PeerStartsElection, HearCandidate, HearNewLeader, vars
  <1>13. ASSUME ClientStep(r)
         PROVE  Kept \/ (client'[r].index = LeaderSize /\ AppendEntry(r))
    BY <1>3, <1>4, <1>5, <1>6, <1>7, <1>8, <1>9, <1>a, <1>13 DEF ClientStep
  <1>14. ASSUME client'[r] = client[r] PROVE Kept
    BY <1>14
  <1> HIDE DEF Kept
  <1>15. Kept \/ (client'[r].index = LeaderSize /\ AppendEntry(r))
    BY <1>10, <1>11, <1>12, <1>13, <1>14
  <1> QED
    BY <1>15 DEF Kept

\* The entry of a request in progress is in the leader's log.
LEMMA RequestIndices ==
    ASSUME RepInv, [Next]_vars, NEW r \in Request
    PROVE  /\ client'[r].pc \in {"send", "wait", "commit", "apply"} =>
                 client'[r].index < LeaderSize'
           /\ client[r].index < LeaderSize => client'[r].index < LeaderSize'
  <1>0. client \in [Request -> Handler] /\ LogTypes
    BY TypeParts DEF RepInv, ThreadTypes
  <1>1. /\ client[r].index \in Nat /\ LeaderSize \in Nat
        /\ LeaderSize' \in Nat /\ LeaderSize <= LeaderSize'
    <2>1. LogsGrow
      BY LogsStep
    <2>2. LogTypes' => LeaderSize' \in Nat
      BY SizeType DEF LogTypes, LeaderSize, Server
    <2> QED
      BY <1>0, <2>1, <2>2, HandlerValues, LeaderTypes DEF LogsGrow
  <1>2. CASE client'[r].index = LeaderSize /\ AppendEntry(r)
    <2>1. LeaderSize' = LeaderSize + 1
      BY <1>2, AppendEntryLogs
    <2> QED
      BY <1>1, <1>2, <2>1
  <1>3. CASE /\ client'[r].index = client[r].index
             /\ client'[r].pc \in {"send", "wait", "commit", "apply"} =>
                   \/ client[r].pc \in {"send", "wait", "commit", "apply"}
                   \/ \E c \in calls : c.by = r /\ c.by # Heart
    BY <1>1, <1>3 DEF RepInv, LeaderBounds, Within
  <1> QED
    BY <1>2, <1>3, RequestStep

\* nextIndex is moved within the leader's log only.
LEMMA NextIndices ==
    ASSUME RepInv, [Next]_vars
    PROVE  nextIndex' \in [Peer -> 0 .. LeaderSize]
  <1>0. /\ nextIndex \in [Peer -> 0 .. LeaderSize] /\ LogTypes /\ CallTypes
        /\ LeaderSize \in Nat /\ client \in [Request -> Handler] /\ LeaderKeeps
    BY TypeParts, LeaderTypes
       DEF RepInv, NextTypes, ThreadTypes, LeaderBounds, LeaderKeeps
  <1>1. ASSUME NEW i \in Peer, NEW n \in 0 .. LeaderSize,
               nextIndex' = [nextIndex EXCEPT ![i] = n]
        PROVE  nextIndex' \in [Peer -> 0 .. LeaderSize]
    BY <1>0, <1>1
  <1>2. ASSUME NEW i \in Peer PROVE Decrement(i) \in 0 .. LeaderSize
    <2>1. nextIndex[i] \in 0 .. LeaderSize
      BY <1>0
    <2> QED
      BY <1>0, <2>1 DEF Decrement
  <1>3. ASSUME NEW r \in Request, ReceiveAppendReply(r)
        PROVE  nextIndex' \in [Peer -> 0 .. LeaderSize]
    <2>1. PICK c \in calls : \/ ClientStepDown(r, c)
                             \/ ReplicateSucceeds(r, c)
                             \/ ReplicateFails(r, c)
      BY <1>3 DEF ReceiveAppendReply, Replied
    <2>2. c.to \in Peer
      BY <1>0, CallFields
    <2>3. client[r].index \in Nat /\ client[r].index < LeaderSize
      BY <1>0, <1>3, HandlerValues DEF ReceiveAppendReply, RepInv, LeaderBounds
    <2>4. client[r].index + 1 \in 0 .. LeaderSize
      BY <1>0, <2>3
    <2>5. \/ nextIndex' = nextIndex
          \/ nextIndex' = [nextIndex EXCEPT ![c.to] = client[r].index + 1]
          \/ nextIndex' = [nextIndex EXCEPT ![c.to] = Decrement(c.to)]
      BY <2>1 DEF ClientStepDown, ReplicateSucceeds, ReplicateFails
    <2> QED
      BY <1>0, <1>1, <1>2, <2>2, <2>4, <2>5
  <1>4. ASSUME NEW c \in calls, c.rpc = "InstallSnapshot", nextIndex' = SnapshotSent(c)
        PROVE  nextIndex' \in [Peer -> 0 .. LeaderSize]
    <2>1. c.to \in Peer /\ c.snapshot.lastIncludedIndex \in Nat
      BY <1>0, <1>4, CallFields
    <2>2. c.snapshot.lastIncludedIndex < LeaderSize
      BY <1>4 DEF RepInv, Within, Reaches
    <2>3. c.snapshot.lastIncludedIndex + 1 \in 0 .. LeaderSize
      BY <1>0, <2>1, <2>2
    <2> QED
      BY <1>0, <1>1, <1>4, <2>1, <2>3 DEF SnapshotSent
  <1>5. ASSUME NEW c \in calls, c.rpc = "AppendEntries", HeartUpdates(c)
        PROVE  nextIndex' \in [Peer -> 0 .. LeaderSize]
    <2>1. /\ c.to \in Peer /\ c.prevLogIndex \in Nat \cup {-1}
          /\ c.entries \in Seq(Entry) /\ Len(c.entries) \in Nat
      BY <1>0, <1>5, CallFields
    <2>2. c.prevLogIndex + 1 + Len(c.entries) <= LeaderSize
      BY <1>5 DEF RepInv, Within, Reaches
    <2>3. c.prevLogIndex + 1 + Len(c.entries) \in 0 .. LeaderSize
      BY <1>0, <2>1, <2>2
    <2>4. nextIndex[c.to] \in 0 .. LeaderSize
      BY <1>0, <2>1
    <2>5. \/ nextIndex' = [nextIndex EXCEPT ![c.to] = Decrement(c.to)]
          \/ nextIndex' = [nextIndex EXCEPT ![c.to] = nextIndex[c.to]]
          \/ nextIndex' = [nextIndex EXCEPT ![c.to] = c.prevLogIndex + 1 + Len(c.entries)]
      BY <1>5 DEF HeartUpdates
    <2> QED
      BY <1>1, <1>2, <2>1, <2>3, <2>4, <2>5
  <1>6. ASSUME NEW applied \in Nat, applied < LeaderSize, NEW kv, NEW lg,
               Compact(Leader, applied, kv, lg)
        PROVE  nextIndex' \in [Peer -> 0 .. LeaderSize]
    <2>1. applied + 1 \in 0 .. LeaderSize
      BY <1>0, <1>6
    <2>2. nextIndex' = [i \in Peer |-> IF nextIndex[i] <= applied
                                       THEN applied + 1 ELSE nextIndex[i]]
      BY <1>6 DEF Compact
    <2> QED
      BY <1>0, <2>1, <2>2
  <1>7. ASSUME NEW r \in Request, ApplyCommitted(r) PROVE nextIndex' \in [Peer -> 0 .. LeaderSize]
    <2> DEFINE i == commitIndex[Leader]
               applied == IF i > lastApplied[Leader] THEN i ELSE lastApplied[Leader]
               kv == StoreAfter(store, Applicable(Leader, log[Leader], i))
    <2>1. i \in Nat /\ lastApplied[Leader] \in Nat
      BY <1>0, LeaderTypes DEF LeaderKeeps
    <2>2. \/ Compact(Leader, applied, kv, log[Leader])
          \/ nextIndex' = nextIndex
      BY <1>7 DEF ApplyCommitted, Apply
    <2>3. applied \in Nat /\ applied < LeaderSize
      <3>1. lastApplied'[Leader] = applied
        BY <1>0, <1>7, LeaderTypes DEF ApplyCommitted, Apply, LogTypes
      <3> QED
        BY <1>7, <2>1, <3>1, ApplyLogs
    <2> HIDE DEF applied, kv
    <2> QED
      BY <1>0, <1>6, <2>2, <2>3
  <1>8. ASSUME NEW s \in Server, triggerSnapshot(s)
        PROVE  nextIndex' \in [Peer -> 0 .. LeaderSize]
    <2>1. Compact(s, lastApplied[s], store, log[s])
      BY <1>8 DEF triggerSnapshot
    <2>2. CASE s # Leader
      BY <1>0, <2>1, <2>2 DEF Compact
    <2>3. CASE s = Leader
      <3>1. lastApplied[Leader] \in Nat /\ lastApplied[Leader] < LeaderSize
        BY <1>0, <1>8, <2>3, LeaderTypes, TriggerLogs
      <3> QED
        BY <1>6, <2>1, <2>3, <3>1
    <2> QED
      BY <2>2, <2>3
  <1>9. ASSUME NEW c \in calls, HandleAppendEntries(c) PROVE UNCHANGED nextIndex
    <2>1. Peers[c.to] # Leader
      BY <1>0, CallFields
    <2> QED
      BY <1>9, <2>1 DEF HandleAppendEntries, RefuseOldTerm, SelfDeadlock,
         AcceptEntries, RejectEntries, Apply, Compact
  <1>10. \/ UNCHANGED nextIndex
         \/ \E r \in Request : ReceiveAppendReply(r) \/ ApplyCommitted(r)
         \/ \E c \in calls : c.rpc = "InstallSnapshot" /\ nextIndex' = SnapshotSent(c)
         \/ \E c \in calls : c.rpc = "AppendEntries" /\ HeartUpdates(c)
         \/ \E c \in calls : HandleAppendEntries(c)
         \/ \E s \in Server : triggerSnapshot(s)
    BY DEF Next, ClientStep, CheckLeader, AppendEntry, Replicate,
           ReceiveSnapshotReply, Decide, Commit, HeartStep, HeartbeatRound,
           SendHeartbeat, EndHeartbeatRound, ReceiveHeartbeatReply,
           HeartIgnores, HeartStepDown, HeartSnapshotReply, Replied,
           HandlerStep, HandleInstallSnapshot, CallTimesOut,
           PeerStartsElection, HearCandidate, HearNewLeader, vars
  <1> QED
    BY <1>0, <1>3, <1>4, <1>5, <1>7, <1>8, <1>9, <1>10

-----------------------------------------------------------------------------
(* Messages.                                                               *)

Message == AppendEntriesMessage \cup InstallSnapshotMessage

\* A well-formed message that the leader's state covers.
Covered(c) == c \in Message /\ Within(c)

LEMMA AppendEntriesCovered ==
    ASSUME RepInv, NEW by \in Request \cup {Heart}, NEW i \in Peer, NEW end \in Int,
           by # Heart => client[by].index < LeaderSize
    PROVE  Covered(AppendEntriesCall(by, i, end))
  <1> DEFINE prev == nextIndex[i] - 1
             prevTerm == getLogTerm(log[Leader], latestSnapshot[Leader], prev)
             part == getLogEntries(log[Leader], latestSnapshot[Leader], nextIndex[i], end)
             c == AppendEntriesCall(by, i, end)
  <1>0. /\ LogTypes /\ TermTypes /\ nextIndex \in [Peer -> 0 .. LeaderSize]
        /\ commitIndex[Leader] \in Nat /\ commitIndex[Leader] <= LeaderCommitted
    <2>1. LogTypes /\ TermTypes /\ nextIndex \in [Peer -> 0 .. LeaderSize]
      BY TypeParts DEF RepInv, NextTypes
    <2> QED
      BY <2>1, LeaderTypes DEF RepInv, LeaderBounds
  <1>1. /\ Leader \in Server /\ log[Leader] \in Seq(Entry) /\ LeaderSize \in Nat
        /\ latestSnapshot[Leader] \in AnySnapshot
    BY <1>0, LeaderTypes
  <1>2. nextIndex[i] \in Nat /\ nextIndex[i] <= LeaderSize
    BY <1>0, <1>1
  <1>3. prev \in Nat \cup {-1} /\ prev \in Int /\ prev + 1 = nextIndex[i]
    BY <1>2
  <1>4. /\ part \in Seq(Entry) /\ Len(part) \in Nat
        /\ nextIndex[i] + Len(part) <= LeaderSize
    BY <1>1, <1>2, EntriesType DEF LeaderSize
  <1> HIDE DEF prev
  <1>5. prevTerm \in Nat
    BY <1>1, <1>3, LogTermType
  <1>6. currentTerm[Leader] \in Nat
    BY <1>0, <1>1 DEF TermTypes
  <1>7. c = [rpc |-> "AppendEntries", by |-> by, to |-> i, live |-> TRUE,
             pc |-> "sent", term |-> currentTerm[Leader],
             prevLogIndex |-> prev, prevLogTerm |-> prevTerm,
             entries |-> part, leaderCommit |-> commitIndex[Leader],
             replyTerm |-> 0, success |-> FALSE]
    BY DEF AppendEntriesCall, prev
  <1> HIDE DEF prevTerm, part, c
  <1>8. c \in AppendEntriesMessage
    BY <1>0, <1>3, <1>4, <1>5, <1>6, <1>7 DEF AppendEntriesMessage
  <1>9. Reaches(c, LeaderSize, LeaderCommitted)
    BY <1>0, <1>3, <1>4, <1>7 DEF Reaches
  <1>10. c.by = by
    BY <1>7
  <1> QED
    BY <1>8, <1>9, <1>10 DEF Covered, Message, Within, c

LEMMA InstallSnapshotCovered ==
    ASSUME RepInv, NEW by \in Request \cup {Heart}, NEW i \in Peer,
           by # Heart => client[by].index < LeaderSize,
           latestSnapshot[Leader].lastIncludedIndex >= 0
    PROVE  Covered(InstallSnapshotCall(by, i))
  <1> DEFINE c == InstallSnapshotCall(by, i)
  <1>0. LogTypes /\ TermTypes
    BY TypeParts DEF RepInv
  <1>1. /\ Leader \in Server /\ LeaderSize \in Nat
        /\ latestSnapshot[Leader] \in AnySnapshot
        /\ latestSnapshot[Leader].lastIncludedIndex \in Nat \cup {-1}
        /\ latestSnapshot[Leader].lastIncludedIndex < LeaderSize
        /\ latestSnapshot[Leader].lastIncludedIndex <= LeaderCommitted
    BY <1>0, LeaderTypes DEF RepInv, LeaderBounds
  <1>2. latestSnapshot[Leader] \in Snapshot
    BY <1>1, SnapshotFields
  <1>3. currentTerm[Leader] \in Nat
    BY <1>0, <1>1 DEF TermTypes
  <1>4. c = [rpc |-> "InstallSnapshot", by |-> by, to |-> i, live |-> TRUE,
             pc |-> "sent", term |-> currentTerm[Leader],
             snapshot |-> latestSnapshot[Leader], replyTerm |-> 0, success |-> FALSE]
    BY DEF InstallSnapshotCall
  <1> HIDE DEF c
  <1>5. c \in InstallSnapshotMessage
    BY <1>2, <1>3, <1>4 DEF InstallSnapshotMessage
  <1>6. Reaches(c, LeaderSize, LeaderCommitted) /\ c.by = by
    BY <1>1, <1>4 DEF Reaches
  <1> QED
    BY <1>5, <1>6 DEF Covered, Message, Within, c

\* What a message says does not change while it is handled.
LEMMA CoveredStays ==
    ASSUME RepInv, NEW c \in calls, NEW ok \in BOOLEAN, NEW t \in Nat
    PROVE  /\ Covered(c)
           /\ Covered([c EXCEPT !.pc = "replied", !.success = ok, !.replyTerm = t])
           /\ Covered([c EXCEPT !.live = FALSE])
  <1>0. CallTypes /\ Within(c)
    BY TypeParts DEF RepInv
  <1>1. c \in AppendEntriesMessage \/ c \in InstallSnapshotMessage
    BY <1>0 DEF CallTypes
  <1>2. CASE c \in AppendEntriesMessage
    BY <1>0, <1>2 DEF AppendEntriesMessage, Covered, Message, Within, Reaches
  <1>3. CASE c \in InstallSnapshotMessage
    BY <1>0, <1>3 DEF InstallSnapshotMessage, Covered, Message, Within, Reaches
  <1> QED
    BY <1>1, <1>2, <1>3

\* Every message of the next state is covered by the leader's state before.
LEMMA CallsCovered ==
    ASSUME RepInv, [Next]_vars
    PROVE  \A c \in calls' : Covered(c)
  <1>0. /\ CallTypes /\ TermTypes /\ LogTypes /\ client \in [Request -> Handler]
        /\ nextIndex \in [Peer -> 0 .. LeaderSize] /\ LeaderSize \in Nat
        /\ latestSnapshot[Leader].lastIncludedIndex \in Int
    BY TypeParts, LeaderTypes DEF RepInv, ThreadTypes, NextTypes
  <1>1. \A c \in calls : Covered(c)
    BY CoveredStays
  <1>2. ASSUME NEW c \in calls, NEW ok \in BOOLEAN, Answer(c, ok)
        PROVE  \A d \in calls' : Covered(d)
    <2>1. currentTerm[Peers[c.to]] \in Nat
      BY <1>0, CallFields DEF TermTypes
    <2>2. Covered([c EXCEPT !.pc = "replied", !.success = ok,
                            !.replyTerm = currentTerm[Peers[c.to]]])
      BY <2>1, CoveredStays
    <2> QED
      BY <1>1, <1>2, <2>2 DEF Answer
  <1>3. ASSUME NEW r \in Request, Replicate(r) PROVE \A c \in calls' : Covered(c)
    <2> DEFINE i == client[r].peer
               end == client[r].index + 1
    <2>1. i \in Nat \ {0} /\ client[r].index \in Nat
      BY <1>0, HandlerValues
    <2>2. client[r].index < LeaderSize
      BY <1>3 DEF Replicate, RepInv, LeaderBounds
    <2>3. i \in Peer
      <3>1. i <= Len(Peers)
        BY <1>3 DEF Replicate
      <3> QED
        BY <2>1, <3>1, PeersAssumption DEF Peer
    <2>4. end \in Int
      BY <2>1
    <2>5. calls' = calls \cup {AppendEntriesCall(r, i, end)}
      BY <1>3 DEF Replicate, Send
    <2> HIDE DEF i, end
    <2>6. Covered(AppendEntriesCall(r, i, end))
      BY <2>2, <2>3, <2>4, AppendEntriesCovered
    <2> QED
      BY <1>1, <2>5, <2>6
  <1>4. ASSUME NEW r \in Request, ReceiveAppendReply(r) PROVE \A c \in calls' : Covered(c)
    <2>1. PICK c \in calls : \/ ClientStepDown(r, c)
                             \/ ReplicateSucceeds(r, c)
                             \/ ReplicateFails(r, c)
      BY <1>4 DEF ReceiveAppendReply, Replied
    <2>2. \/ calls' = calls \ {c}
          \/ /\ NeedsSnapshot(Decrement(c.to))
             /\ calls' = (calls \ {c}) \cup {InstallSnapshotCall(r, c.to)}
      BY <2>1 DEF ClientStepDown, ReplicateSucceeds, ReplicateFails
    <2>3. client[r].index < LeaderSize
      BY <1>4 DEF ReceiveAppendReply, RepInv, LeaderBounds
    <2>4. c.to \in Peer
      BY <1>0, CallFields
    <2>5. Decrement(c.to) \in Nat
      <3>1. nextIndex[c.to] \in 0 .. LeaderSize
        BY <1>0, <2>4
      <3> QED
        BY <1>0, <3>1 DEF Decrement
    <2>6. NeedsSnapshot(Decrement(c.to)) => latestSnapshot[Leader].lastIncludedIndex >= 0
      BY <1>0, <2>5 DEF NeedsSnapshot
    <2>7. NeedsSnapshot(Decrement(c.to)) => Covered(InstallSnapshotCall(r, c.to))
      BY <2>3, <2>4, <2>6, InstallSnapshotCovered
    <2> QED
      BY <1>1, <2>2, <2>7
  <1>5. CASE SendHeartbeat
    <2> DEFINE i == heart.peer
               size == getLogSize(log[Leader], latestSnapshot[Leader])
               batchEnd == nextIndex[i] + MaxEntriesPerBatch
               end == IF batchEnd < size THEN batchEnd ELSE size
    <2>1. i \in Nat \ {0} /\ i <= Len(Peers)
      BY <1>5, TypeParts DEF SendHeartbeat, RepInv, ThreadTypes, HeartThread
    <2>2. i \in Peer
      BY <2>1, PeersAssumption DEF Peer
    <2>3. calls' = calls \cup {IF NeedsSnapshot(nextIndex[i])
                               THEN InstallSnapshotCall(Heart, i)
                               ELSE AppendEntriesCall(Heart, i, end)}
      BY <1>5 DEF SendHeartbeat, Send
    <2> HIDE DEF i
    <2>4. nextIndex[i] \in Nat
      BY <1>0, <2>2
    <2>5. end \in Int
      BY <1>0, <2>4, BoundAssumption DEF LeaderSize
    <2> HIDE DEF end
    <2>6. NeedsSnapshot(nextIndex[i]) => latestSnapshot[Leader].lastIncludedIndex >= 0
      BY <1>0, <2>4 DEF NeedsSnapshot
    <2>7. NeedsSnapshot(nextIndex[i]) => Covered(InstallSnapshotCall(Heart, i))
      BY <2>2, <2>6, InstallSnapshotCovered
    <2>8. Covered(AppendEntriesCall(Heart, i, end))
      BY <2>2, <2>5, AppendEntriesCovered
    <2> QED
      BY <1>1, <2>3, <2>7, <2>8
  <1>6. ASSUME NEW c \in calls, HandlerStep(c) PROVE \A d \in calls' : Covered(d)
    <2>1. calls' = calls \/ \E ok \in BOOLEAN : Answer(c, ok)
      BY <1>6 DEF HandlerStep, HandleAppendEntries, HandleInstallSnapshot,
         RefuseOldTerm, SelfDeadlock, AcceptEntries, RejectEntries
    <2> QED
      BY <1>1, <1>2, <2>1
  <1>7. ASSUME NEW c \in calls, CallTimesOut(c) PROVE \A d \in calls' : Covered(d)
    <2>1. \/ calls' = calls \ {c}
          \/ calls' = (calls \ {c}) \cup {[c EXCEPT !.live = FALSE]}
      BY <1>7 DEF CallTimesOut
    <2>2. Covered([c EXCEPT !.live = FALSE])
      BY CoveredStays
    <2> QED
      BY <1>1, <2>1, <2>2
  <1>8. \/ calls' \subseteq calls
        \/ \E r \in Request : Replicate(r) \/ ReceiveAppendReply(r)
        \/ SendHeartbeat
        \/ \E c \in calls : HandlerStep(c) \/ CallTimesOut(c)
    BY DEF Next, ClientStep, CheckLeader, AppendEntry, ReceiveSnapshotReply,
           Decide, Commit, ApplyCommitted, HeartStep, HeartbeatRound, EndHeartbeatRound,
           ReceiveHeartbeatReply, HeartSnapshotReply, triggerSnapshot,
           PeerStartsElection, HearCandidate, HearNewLeader, vars
  <1> QED
    BY <1>1, <1>3, <1>4, <1>5, <1>6, <1>7, <1>8

LEMMA ReachesGrows ==
    ASSUME NEW c \in Message, NEW m \in Int, NEW n \in Int, m <= n,
           NEW a \in Int, NEW b \in Int, a <= b, Reaches(c, m, a)
    PROVE  Reaches(c, n, b)
  <1>1. CASE c \in AppendEntriesMessage
    <2>1. /\ c.rpc = "AppendEntries" /\ c.prevLogIndex \in Int
          /\ c.leaderCommit \in Int /\ c.entries \in Seq(Entry)
      BY <1>1 DEF AppendEntriesMessage
    <2>2. Len(c.entries) \in Nat
      BY <2>1, LenProperties
    <2> QED
      BY <2>1, <2>2 DEF Reaches
  <1>2. CASE c \in InstallSnapshotMessage
    <2>1. /\ c.rpc = "InstallSnapshot" /\ c.snapshot.lastIncludedIndex \in Int
      BY <1>2 DEF InstallSnapshotMessage, Snapshot
    <2> QED
      BY <2>1 DEF Reaches
  <1> QED
    BY <1>1, <1>2 DEF Message

-----------------------------------------------------------------------------
(* The invariant.                                                          *)

\* A request that applies goes on with that only, and no other step moves what
\* is committed ahead of what is applied.
LEMMA ApplyStep ==
    ASSUME RepInv, [Next]_vars
    PROVE  BeingApplied'
  <1>0. /\ client \in [Request -> Handler] /\ LogTypes /\ CallTypes /\ BeingApplied
        /\ \A r \in Request : ~(client[r].pc \in {"send", "wait"} /\ client[r].pc = "apply")
    BY TypeParts DEF RepInv, ThreadTypes
  <1>1. ASSUME NEW r \in Request, Commit(r) PROVE BeingApplied'
    <2>1. client[r] \in Handler /\ Leader \in Server
      BY <1>0 DEF Server
    <2>2. /\ client'[r].pc = "apply" /\ client'[r].index = client[r].index
          /\ commitIndex'[Leader] = client[r].index
      BY <1>0, <1>1, <2>1 DEF Commit, LogTypes, Handler
    <2> QED
      BY <2>2 DEF BeingApplied
  <1>2. ASSUME NEW r \in Request, ApplyCommitted(r) PROVE BeingApplied'
    BY <1>2, ApplyLogs DEF BeingApplied
  <1>3. ASSUME UNCHANGED <<commitIndex, lastApplied, client>> PROVE BeingApplied'
    BY <1>0, <1>3 DEF BeingApplied
  <1> DEFINE KeepsApplying ==
        \A q \in Request : client[q].pc = "apply" => client'[q] = client[q]
  <1>4. ASSUME KeepsApplying, UNCHANGED <<commitIndex, lastApplied>>
        PROVE  BeingApplied'
    BY <1>0, <1>4 DEF BeingApplied
  <1>5. ASSUME NEW r \in Request, client[r].pc # "apply", NEW t,
               client' = [client EXCEPT ![r] = t]
        PROVE  KeepsApplying
    BY <1>0, <1>5
  <1>6. ASSUME NEW r \in Request, ClientStep(r), ~Commit(r), ~ApplyCommitted(r)
        PROVE  /\ KeepsApplying
               /\ UNCHANGED <<commitIndex, lastApplied>>
    <2>1. UNCHANGED <<commitIndex, lastApplied>>
      BY <1>6 DEF ClientStep, CheckLeader, AppendEntry, Replicate, logVars,
         ReceiveAppendReply, ReceiveSnapshotReply, Decide
    <2>2. client[r].pc # "apply"
      BY <1>6 DEF ClientStep, CheckLeader, AppendEntry, Replicate,
         ReceiveAppendReply, ReceiveSnapshotReply, Decide
    <2>3. \A q \in Request \ {r} : client'[q] = client[q]
      BY <1>0, <1>6 DEF ClientStep, CheckLeader, AppendEntry, Replicate,
         ReceiveAppendReply, ClientStepDown, ReplicateSucceeds, ReplicateFails,
         ReceiveSnapshotReply, Decide
    <2> QED
      BY <2>1, <2>2, <2>3
  <1>7. ASSUME NEW c \in calls, CallTimesOut(c)
        PROVE  BeingApplied'
    <2>1. UNCHANGED <<commitIndex, lastApplied>>
      BY <1>7 DEF CallTimesOut, logVars
    <2>2. CASE c.by = Heart
      BY <1>3, <1>7, <2>1, <2>2 DEF CallTimesOut
    <2>3. CASE c.by # Heart
      <3>1. c.by \in Request
        BY <1>0, <2>3, CallFields
      <3>2. /\ client' = [client EXCEPT ![c.by] = NextPeer(client[c.by])]
            /\ client[c.by].pc # "apply"
        BY <1>7, <2>3 DEF CallTimesOut
      <3>3. KeepsApplying
        BY <1>5, <3>1, <3>2
      <3> QED
        BY <1>4, <2>1, <3>3
    <2> QED
      BY <2>2, <2>3
  <1>8. ASSUME NEW c \in calls, HandlerStep(c) PROVE BeingApplied'
    <2>1. Peers[c.to] # Leader /\ UNCHANGED client /\ Leader \in Server
      BY <1>0, <1>8, CallFields
         DEF HandlerStep, HandleAppendEntries, HandleInstallSnapshot, Server
    <2>2. /\ commitIndex'[Leader] = commitIndex[Leader]
          /\ lastApplied'[Leader] = lastApplied[Leader]
      BY <1>0, <1>8, <2>1 DEF HandlerStep, HandleAppendEntries, LogTypes,
         HandleInstallSnapshot, RefuseOldTerm, SelfDeadlock, AcceptEntries,
         RejectEntries, Apply, logVars
    <2> QED
      BY <1>0, <2>1, <2>2 DEF BeingApplied
  <1>9. \/ UNCHANGED <<commitIndex, lastApplied, client>>
        \/ \E r \in Request : ClientStep(r)
        \/ \E c \in calls : HandlerStep(c) \/ CallTimesOut(c)
    BY DEF Next, HeartStep, HeartbeatRound, SendHeartbeat, EndHeartbeatRound,
           ReceiveHeartbeatReply, HeartSnapshotReply, triggerSnapshot, logVars,
           PeerStartsElection, HearCandidate, HearNewLeader, vars
  <1> HIDE DEF KeepsApplying
  <1> QED
    BY <1>1, <1>2, <1>3, <1>4, <1>6, <1>7, <1>8, <1>9

LEMMA InitRepInv ==
    ASSUME Init
    PROVE  RepInv
  <1> DEFINE size == getLogSize(InitLog[Leader], NoSnapshot)
  <1>1. NoSnapshot \in AnySnapshot /\ Leader \in Server
    BY DEF AnySnapshot, Server
  <1>2. InitLog[Leader] \in Seq(Entry)
    BY <1>1, LogAssumption
  <1>3. size \in Nat
    BY <1>1, <1>2, SizeType
  <1>4. LeaderSize = size
    BY <1>1 DEF Init, LeaderSize
  <1> HIDE DEF size
  <1>5. TermTypes
    <2>1. currentTerm \in [Server -> Nat] /\ runningHeartbeats = TRUE
      BY BoundAssumption DEF Init
    <2>2. state \in [Server -> {"FOLLOWER", "CANDIDATE", "LEADER"}]
      BY DEF Init
    <2>3. stuck \in [Server -> BOOLEAN]
      BY DEF Init
    <2> QED
      BY <2>1, <2>2, <2>3 DEF TermTypes
  <1>6. LogTypes
    BY <1>1, LogAssumption DEF Init, LogTypes
  <1>7. ThreadTypes
    <2>1. 1 \in Nat \ {0} /\ 0 \in Nat /\ 1 \in Nat
      OBVIOUS
    <2> QED
      BY <2>1, Zenon DEF Init, ThreadTypes, Handler, HeartThread, Result
  <1>8. /\ nextIndex = [i \in Peer |-> size]
        /\ calls = {} /\ lost = 0 /\ snapshots = 0
        /\ commitIndex = [s \in Server |-> 0] /\ lastApplied = [s \in Server |-> 0]
        /\ latestSnapshot = [s \in Server |-> NoSnapshot]
        /\ \A r \in Request : client[r].pc = "new"
    BY Zenon DEF Init, size
  <1>9. NextTypes
    BY <1>3, <1>4, <1>8 DEF NextTypes
  <1>10. CallTypes /\ CountTypes /\ \A c \in calls : Within(c)
    BY <1>8, BoundAssumption DEF CallTypes, CountTypes
  <1>a. LeaderCommitted = 0
    BY <1>1, <1>8 DEF LeaderCommitted
  <1>11. LeaderBounds /\ BeingApplied
    BY <1>1, <1>8, <1>a DEF LeaderBounds, BeingApplied, NoSnapshot
  <1>12. PeersWithin
    BY <1>1, <1>8, <1>a DEF PeersWithin
  <1> QED
    BY <1>5, <1>6, <1>7, <1>9, <1>10, <1>11, <1>12, TypeParts DEF RepInv

LEMMA NextRepInv ==
    ASSUME RepInv, [Next]_vars
    PROVE  RepInv'
  <1>0. TypeOK /\ LogTypes
    BY TypeParts DEF RepInv
  <1>1. LogsGrow
    BY LogsStep
  <1>2. /\ LeaderSize \in Int /\ LeaderCommitted \in Int
        /\ LeaderSize' \in Int /\ LeaderCommitted' \in Int
        /\ LeaderSize <= LeaderSize' /\ LeaderCommitted <= LeaderCommitted'
    <2>1. LogTypes' => LeaderSize' \in Nat /\ LeaderCommitted' \in Int
      BY SizeType DEF LogTypes, LeaderSize, LeaderCommitted, Server
    <2> QED
      BY <1>0, <1>1, <2>1, LeaderTypes DEF LogsGrow
  <1>3. TermTypes' /\ CountTypes' /\ ThreadTypes'
    BY <1>0, TermsStep, CountsStep, ClientThreads, HeartThreads DEF ThreadTypes
  <1>4. NextTypes'
    <2>1. nextIndex' \in [Peer -> 0 .. LeaderSize]
      BY NextIndices
    <2>2. 0 .. LeaderSize \subseteq 0 .. LeaderSize'
      BY <1>2
    <2> QED
      BY <2>1, <2>2 DEF NextTypes
  <1>5. LeaderBounds'
    BY <1>1, RequestIndices DEF LogsGrow, LeaderKeeps, LeaderBounds
  <1>6. ASSUME NEW c \in calls' PROVE c \in Message /\ Within(c)'
    <2>1. Covered(c)
      BY CallsCovered
    <2>2. c \in Message /\ Reaches(c, LeaderSize, LeaderCommitted)
      BY <2>1 DEF Covered, Within
    <2>3. Reaches(c, LeaderSize', LeaderCommitted')
      BY <1>2, <2>2, ReachesGrows
    <2>4. c.by # Heart => c.by \in Request
      BY <2>2 DEF Message, AppendEntriesMessage, InstallSnapshotMessage
    <2>5. c.by # Heart => client[c.by].index < LeaderSize
      BY <2>1 DEF Covered, Within
    <2>6. c.by # Heart => client'[c.by].index < LeaderSize'
      BY <2>4, <2>5, RequestIndices
    <2> QED
      BY <2>2, <2>3, <2>6 DEF Within
  <1>7. CallTypes'
    BY <1>6 DEF CallTypes, Message
  <1>8. TypeOK'
    <2>1. LogTypes'
      BY <1>1 DEF LogsGrow
    <2>2. /\ TermTypes' /\ LogTypes' /\ ThreadTypes'
          /\ NextTypes' /\ CallTypes' /\ CountTypes'
      BY <1>3, <1>4, <1>7, <2>1
    <2>3. TypeOK' <=> /\ TermTypes' /\ LogTypes' /\ ThreadTypes'
                      /\ NextTypes' /\ CallTypes' /\ CountTypes'
      BY DEF TypeOK, TermTypes, LogTypes, ThreadTypes, NextTypes, CallTypes,
             CountTypes, Handler, HeartThread, AnySnapshot, LeaderSize
    <2> QED
      BY <2>2, <2>3
  <1>9. PeersWithin' /\ BeingApplied'
    BY <1>1, ApplyStep DEF LogsGrow
  <1> QED
    BY <1>5, <1>6, <1>8, <1>9 DEF RepInv

\* The inductive invariant behind the theorems below.
THEOREM RepInvariant == Spec => []RepInv
  <1>1. Init => RepInv
    BY InitRepInv
  <1>2. RepInv /\ [Next]_vars => RepInv'
    BY NextRepInv
  <1> QED
    BY <1>1, <1>2, PTL DEF Spec

\* The fields of all nodes, threads and messages are always well formed; in
\* particular nextIndex, which handleClientCommand, send_heartbeats and the
\* snapshot code write in any order and without a common lock, never points
\* beyond the end of the leader's log.
THEOREM TypeCorrect == Spec => []TypeOK
  BY RepInvariant, PTL DEF RepInv

LEMMA WithinIsBehind == RepInv => PeersBehindLeader
  <1> SUFFICES ASSUME RepInv, NEW s \in Server
               PROVE  \/ lastApplied[s] <= lastApplied[Leader]
                      \/ \E r \in Request : /\ client[r].pc = "apply"
                                            /\ lastApplied[s] <= client[r].index
    BY DEF PeersBehindLeader
  <1>1. lastApplied[s] <= LeaderCommitted
    BY DEF RepInv, PeersWithin
  <1>2. LogTypes
    BY TypeParts DEF RepInv
  <1>3. CASE commitIndex[Leader] <= lastApplied[Leader]
    BY <1>1, <1>2, <1>3, LeaderTypes DEF LeaderCommitted
  <1>4. CASE ~(commitIndex[Leader] <= lastApplied[Leader])
    <2>1. PICK r \in Request : client[r].pc = "apply" /\ client[r].index = commitIndex[Leader]
      BY <1>4 DEF RepInv, BeingApplied
    <2>2. LeaderCommitted = commitIndex[Leader]
      BY <1>2, <1>4, LeaderTypes DEF LeaderCommitted
    <2> QED
      BY <1>1, <2>1, <2>2
  <1> QED
    BY <1>3, <1>4

\* Whatever is lost, late or handled twice, and whatever snapshots are taken
\* and installed, no peer applies an index that the leader has not applied and
\* that no request is applying there, although the leader's commitIndex goes out
\* before the leader applies and may fall afterwards.
THEOREM PeersStayBehind == Spec => []PeersBehindLeader
  BY RepInvariant, WithinIsBehind, PTL
=============================================================================
