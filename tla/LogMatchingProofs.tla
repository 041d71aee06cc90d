-------------------------- MODULE LogMatchingProofs --------------------------
(***************************************************************************)
(* The logs of Replication, for every number of peers and requests, when   *)
(* the tenure starts from logs that match and no snapshot interferes.      *)
(***************************************************************************)
EXTENDS ReplicationProofs

-----------------------------------------------------------------------------
(* The case the theorems are about.                                        *)

\* Where both logs have the same term they agree up to there.
Agree(l, m) ==
    \A i \in 1 .. Len(l) : i <= Len(m) /\ l[i].term = m[i].term =>
        \A j \in 1 .. i : l[j] = m[j]

InPlace(l) == \A i \in 1 .. Len(l) : l[i].index = i - 1

\* What earlier tenures leave behind: logs that match, whose entries have the
\* index of their place; beyond the end of the leader's log a peer has entries
\* of older terms only.  No administrator asks for a snapshot, and all the
\* requests together do not fill a log to the threshold of an automatic one.
MatchingStart ==
    /\ \A s, t \in Server : Agree(InitLog[s], InitLog[t])
    /\ \A s \in Server : InPlace(InitLog[s])
    /\ \A s \in Server : \A i \in 1 .. Len(InitLog[s]) :
          i > Len(InitLog[Leader]) => InitLog[s][i].term < InitTerm
    /\ MaxSnapshots = 0
    /\ IsFiniteSet(Request)
    /\ \A s \in Server : Len(InitLog[s]) + Cardinality(Request) < SnapshotThreshold

\* Requests that may still append an entry.
Waiting == {r \in Request : client[r].pc \in {"new", "append"}}

\* There is no snapshot, and what is still to come does not cause one.
NoSnapshots ==
    /\ \A s \in Server : latestSnapshot[s] = NoSnapshot
    /\ \A c \in calls : c.rpc = "AppendEntries"
    /\ IsFiniteSet(Waiting)
    /\ Len(log[Leader]) + Cardinality(Waiting) < SnapshotThreshold

\* The leader adds entries of its own or a newer term to what it started with.
LeaderExtends ==
    /\ IsPrefixOf(InitLog[Leader], log[Leader])
    /\ InPlace(log[Leader])
    /\ InitTerm <= currentTerm[Leader]
    /\ \A i \in 1 .. Len(log[Leader]) :
          i > Len(InitLog[Leader]) => InitTerm <= log[Leader][i].term

\* A message on its way is a part of the leader's log and the term before it.
PartOfLeader(c) ==
    /\ \A k \in 1 .. Len(c.entries) : c.entries[k] = log[Leader][c.prevLogIndex + 1 + k]
    /\ c.prevLogIndex >= 0 => c.prevLogTerm = log[Leader][c.prevLogIndex + 1].term

\* A peer has its old log until the first batch that changes it makes it a
\* prefix of the leader's.
OldOrPrefix == \A s \in Server : \/ log[s] = InitLog[s]
                                 \/ IsPrefixOf(log[s], log[Leader])

\* LogMatching alone does not say what a late batch will do to a log.
MatchInv ==
    /\ RepInv
    /\ NoSnapshots
    /\ LeaderExtends
    /\ \A c \in calls : PartOfLeader(c)
    /\ OldOrPrefix

-----------------------------------------------------------------------------
(* Batches.                                                                *)

LEMMA ShiftedIndex ==
    ASSUME NEW m \in Nat, NEW n \in Nat, NEW i \in 1 .. m + n, ~(i <= m)
    PROVE  i - m \in 1 .. n /\ m + (i - m) = i
  OBVIOUS

\* The part of a log that follows a prefix of it makes a longer prefix.
LEMMA PushPrefix ==
    ASSUME NEW lg \in Seq(Entry), NEW whole \in Seq(Entry), IsPrefixOf(lg, whole),
           NEW entries \in Seq(Entry), entries # <<>>,
           Len(lg) + Len(entries) <= Len(whole),
           \A k \in 1 .. Len(entries) : entries[k] = whole[Len(lg) + k],
           InPlace(whole)
    PROVE  IsPrefixOf(PushMissing(lg, NoSnapshot, entries), whole)
  <1> DEFINE all == SubSeq(entries, 1, Len(entries))
  <1>0. /\ Len(lg) \in Nat /\ Len(whole) \in Nat /\ Len(entries) \in Nat
        /\ Len(lg) <= Len(whole) /\ \A i \in 1 .. Len(lg) : lg[i] = whole[i]
    BY LenProperties DEF IsPrefixOf
  <1>1. getLogSize(lg, NoSnapshot) = Len(lg)
    BY <1>0 DEF NoSnapshot, baseIndex, getLogSize
  <1>2. Len(entries) >= 1 /\ 1 \in 1 .. Len(entries) /\ Len(entries) \in Int
    BY <1>0, EmptySeq
  <1>3. entries[1].index = Len(lg)
    <2>1. entries[1] = whole[Len(lg) + 1] /\ Len(lg) + 1 \in 1 .. Len(whole)
      BY <1>0, <1>2
    <2>2. whole[Len(lg) + 1].index = Len(lg) + 1 - 1
      BY <2>1 DEF InPlace
    <2> QED
      BY <1>0, <2>1, <2>2
  <1>4. PushMissing(lg, NoSnapshot, entries) = lg \o all
    BY <1>0, <1>1, <1>3 DEF PushMissing
  <1>5. /\ all \in Seq(Entry) /\ Len(all) = Len(entries)
        /\ \A i \in 1 .. Len(all) : all[i] = entries[i]
    <2>1. /\ all \in Seq(Entry)
          /\ Len(all) = IF 1 <= Len(entries) THEN Len(entries) - 1 + 1 ELSE 0
          /\ \A i \in 1 .. Len(all) : all[i] = entries[1 + i - 1]
      BY <1>2, PartOfLog
    <2>2. Len(all) = Len(entries)
      BY <1>2, <2>1
    <2>3. \A i \in 1 .. Len(all) : 1 + i - 1 = i
      BY <1>0, <2>2
    <2> QED
      BY <2>1, <2>2, <2>3
  <1> HIDE DEF all
  <1> DEFINE joined == lg \o all
  <1>6. /\ Len(joined) = Len(lg) + Len(all)
        /\ \A i \in 1 .. Len(lg) + Len(all) :
              joined[i] = IF i <= Len(lg) THEN lg[i] ELSE all[i - Len(lg)]
    <2>1. all \in Seq(Entry)
      BY <1>5
    <2> QED
      BY <2>1, ConcatProperties
  <1> HIDE DEF joined
  <1>7. ASSUME NEW i \in 1 .. Len(lg) + Len(entries) PROVE joined[i] = whole[i]
    <2>0. joined[i] = IF i <= Len(lg) THEN lg[i] ELSE all[i - Len(lg)]
      BY <1>5, <1>6
    <2>1. CASE i <= Len(lg)
      <3>1. i \in 1 .. Len(lg)
        BY <1>0, <2>1
      <3> QED
        BY <1>0, <2>0, <2>1, <3>1
    <2>2. CASE ~(i <= Len(lg))
      <3>1. i - Len(lg) \in 1 .. Len(entries) /\ Len(lg) + (i - Len(lg)) = i
        <4>1. Len(lg) \in Nat /\ Len(entries) \in Nat
          BY <1>0
        <4> QED
          BY <2>2, <4>1, ShiftedIndex
      <3>2. /\ all[i - Len(lg)] = entries[i - Len(lg)]
            /\ entries[i - Len(lg)] = whole[Len(lg) + (i - Len(lg))]
        BY <1>5, <3>1
      <3> QED
        BY <2>0, <2>2, <3>1, <3>2
    <2> QED
      BY <2>1, <2>2
  <1> QED
    BY <1>4, <1>5, <1>6, <1>7 DEF IsPrefixOf, joined

\* The beginning of a log that agrees with another is a prefix of both.
LEMMA CommonPrefix ==
    ASSUME NEW lg \in Seq(Entry), NEW whole \in Seq(Entry), Agree(lg, whole),
           NEW n \in Nat, n <= Len(lg), n <= Len(whole),
           n > 0 => lg[n].term = whole[n].term
    PROVE  /\ SubSeq(lg, 1, n) \in Seq(Entry) /\ Len(SubSeq(lg, 1, n)) = n
           /\ IsPrefixOf(SubSeq(lg, 1, n), whole)
           /\ n = Len(lg) => IsPrefixOf(lg, whole)
  <1> DEFINE front == SubSeq(lg, 1, n)
  <1>0. Len(lg) \in Nat /\ Len(whole) \in Nat
    BY LenProperties
  <1>1. /\ front \in Seq(Entry)
        /\ Len(front) = IF 1 <= n THEN n - 1 + 1 ELSE 0
        /\ \A i \in 1 .. Len(front) : front[i] = lg[1 + i - 1]
    BY PartOfLog
  <1>2. Len(front) = n
    BY <1>1
  <1>3. \A i \in 1 .. n : lg[i] = whole[i]
    <2>1. CASE n = 0
      BY <2>1
    <2>2. CASE n > 0
      <3>1. n \in 1 .. Len(lg)
        BY <1>0, <2>2
      <3> QED
        BY <2>2, <3>1 DEF Agree
    <2> QED
      BY <2>1, <2>2
  <1>4. \A i \in 1 .. n : 1 + i - 1 = i
    OBVIOUS
  <1> HIDE DEF front
  <1>5. IsPrefixOf(front, whole)
    BY <1>1, <1>2, <1>3, <1>4 DEF IsPrefixOf
  <1>6. n = Len(lg) => IsPrefixOf(lg, whole)
    BY <1>3 DEF IsPrefixOf
  <1> QED
    BY <1>1, <1>2, <1>5, <1>6 DEF front

\* An accepted batch of the leader's log leaves a log that agrees with it as it
\* is, or makes it a prefix of the leader's: the code compares only the first
\* entry of the batch, and that is enough.
LEMMA AppendBatchMatches ==
    ASSUME NEW lg \in Seq(Entry), NEW whole \in Seq(Entry), Agree(lg, whole),
           InPlace(whole),
           NEW entries \in Seq(Entry), NEW prev \in Nat \cup {-1}, NEW prevTerm,
           prev + 1 + Len(entries) <= Len(whole),
           \A k \in 1 .. Len(entries) : entries[k] = whole[prev + 1 + k],
           prev >= 0 => prevTerm = whole[prev + 1].term,
           PrevLogMatches(lg, NoSnapshot, prev, prevTerm)
    PROVE  \/ AppendBatch(lg, NoSnapshot, prev, entries) = lg
           \/ IsPrefixOf(AppendBatch(lg, NoSnapshot, prev, entries), whole)
  <1>0. /\ Len(lg) \in Nat /\ Len(whole) \in Nat /\ Len(entries) \in Nat
    BY LenProperties
  <1>1. /\ NoSnapshot.lastIncludedIndex = -1 /\ baseIndex(NoSnapshot) = 0
        /\ getLogSize(lg, NoSnapshot) = Len(lg)
    BY <1>0 DEF NoSnapshot, baseIndex, getLogSize
  <1> DEFINE n == prev + 1
  <1>2. /\ n \in Nat /\ n <= Len(lg) /\ n <= Len(whole) /\ n - baseIndex(NoSnapshot) = n
    BY <1>0, <1>1 DEF PrevLogMatches
  <1>3. n > 0 => lg[n].term = whole[n].term
    <2> SUFFICES ASSUME n > 0 PROVE lg[n].term = whole[n].term
      OBVIOUS
    <2>1. prev >= 0 /\ ~(prev < 0) /\ prev # -1
      BY <1>2
    <2>2. prev - 0 + 1 = n
      BY <1>2
    <2>3. lg[n].term = prevTerm
      BY <1>1, <2>1, <2>2 DEF PrevLogMatches
    <2> QED
      BY <2>1, <2>3
  <1> HIDE DEF n
  <1>4. /\ SubSeq(lg, 1, n) \in Seq(Entry) /\ Len(SubSeq(lg, 1, n)) = n
        /\ IsPrefixOf(SubSeq(lg, 1, n), whole)
        /\ n = Len(lg) => IsPrefixOf(lg, whole)
    BY <1>2, <1>3, CommonPrefix
  <1>5. /\ n + Len(entries) <= Len(whole)
        /\ \A k \in 1 .. Len(entries) : entries[k] = whole[n + k]
    BY DEF n
  <1>6. ASSUME entries # <<>>, NEW front \in Seq(Entry), Len(front) = n,
               IsPrefixOf(front, whole)
        PROVE  IsPrefixOf(PushMissing(front, NoSnapshot, entries), whole)
    BY <1>5, <1>6, PushPrefix
  <1>7. AppendBatch(lg, NoSnapshot, prev, entries) =
           IF entries = <<>> THEN lg
           ELSE IF n \notin 0 .. Len(lg) - 1 THEN PushMissing(lg, NoSnapshot, entries)
           ELSE IF lg[n + 1].term # entries[1].term
                THEN PushMissing(SubSeq(lg, 1, n), NoSnapshot, entries)
                ELSE lg
    <2>1. prev + 1 - baseIndex(NoSnapshot) = n
      BY <1>1 DEF n
    <2> QED
      BY <2>1, Zenon DEF AppendBatch
  <1>8. CASE entries = <<>>
    BY <1>7, <1>8
  <1>9. CASE entries # <<>> /\ n = Len(lg)
    <2>1. n \notin 0 .. Len(lg) - 1
      BY <1>0, <1>9
    <2> QED
      BY <1>4, <1>6, <1>7, <1>9, <2>1
  <1>10. CASE entries # <<>> /\ n # Len(lg)
    <2>1. n \in 0 .. Len(lg) - 1
      BY <1>0, <1>2, <1>10
    <2> QED
      BY <1>4, <1>6, <1>7, <1>10, <2>1
  <1> QED
    BY <1>8, <1>9, <1>10

-----------------------------------------------------------------------------
(* What a step does to the logs.                                           *)

LEMMA NoSnapshotFacts ==
    ASSUME MatchInv
    PROVE  /\ LogTypes /\ CallTypes /\ Leader \in Server
           /\ log[Leader] \in Seq(Entry) /\ Len(log[Leader]) \in Nat
           /\ LeaderSize = Len(log[Leader])
           /\ latestSnapshot[Leader].lastIncludedIndex = -1
           /\ Len(log[Leader]) < SnapshotThreshold
  <1>1. /\ LogTypes /\ CallTypes /\ Leader \in Server
    BY TypeParts DEF MatchInv, RepInv, Server
  <1>2. log[Leader] \in Seq(Entry) /\ latestSnapshot[Leader] = NoSnapshot
    BY <1>1 DEF LogTypes, MatchInv, NoSnapshots
  <1>3. Len(log[Leader]) \in Nat
    BY <1>2, LenProperties
  <1>4. Cardinality(Waiting) \in Nat
    BY FS_CardinalityType DEF MatchInv, NoSnapshots
  <1>5. Len(log[Leader]) < SnapshotThreshold
    BY <1>3, <1>4, BoundAssumption DEF MatchInv, NoSnapshots
  <1> QED
    BY <1>1, <1>2, <1>3, <1>5 DEF LeaderSize, getLogSize, baseIndex, NoSnapshot

\* The logs of all nodes agree with the leader's.
LEMMA AgreeWithLeader ==
    ASSUME MatchingStart, MatchInv, NEW s \in Server
    PROVE  Agree(log[s], log[Leader])
  <1> DEFINE n == Len(InitLog[Leader])
  <1>0. /\ log[s] \in Seq(Entry) /\ InitLog[s] \in Seq(Entry) /\ Leader \in Server
        /\ log[Leader] \in Seq(Entry) /\ InitLog[Leader] \in Seq(Entry)
    BY NoSnapshotFacts, LogAssumption DEF LogTypes
  <1>1. Len(log[s]) \in Nat /\ Len(log[Leader]) \in Nat /\ n \in Nat
    BY <1>0, LenProperties
  <1>2. CASE IsPrefixOf(log[s], log[Leader])
    <2>1. ASSUME NEW i \in 1 .. Len(log[s]), NEW j \in 1 .. i
          PROVE  log[s][j] = log[Leader][j]
      <3>1. j \in 1 .. Len(log[s])
        BY <1>1
      <3> QED
        BY <1>2, <3>1 DEF IsPrefixOf
    <2> QED
      BY <2>1 DEF Agree
  <1>3. CASE log[s] = InitLog[s]
    <2> SUFFICES ASSUME NEW i \in 1 .. Len(log[s]), i <= Len(log[Leader]),
                        log[s][i].term = log[Leader][i].term,
                        NEW j \in 1 .. i
                 PROVE  log[s][j] = log[Leader][j]
      BY DEF Agree
    <2>1. /\ \A k \in 1 .. n : log[Leader][k] = InitLog[Leader][k]
          /\ \A k \in 1 .. Len(log[Leader]) : k > n => InitTerm <= log[Leader][k].term
      BY DEF MatchInv, LeaderExtends, IsPrefixOf
    <2>2. i <= n
      <3> SUFFICES ASSUME ~(i <= n) PROVE FALSE
        OBVIOUS
      <3>1. i > n /\ i \in 1 .. Len(log[Leader])
        BY <1>1
      <3>2. InitLog[s][i].term < InitTerm /\ InitTerm <= log[Leader][i].term
        BY <1>3, <2>1, <3>1 DEF MatchingStart
      <3>3. InitLog[s][i].term \in Nat
        BY <1>0, <1>3, EntryFields
      <3> QED
        BY <1>3, <3>2, <3>3, BoundAssumption
    <2>3. i \in 1 .. n /\ j \in 1 .. n
      BY <1>1, <2>2
    <2>4. InitLog[s][i].term = InitLog[Leader][i].term
      BY <1>3, <2>1, <2>3
    <2>5. Agree(InitLog[s], InitLog[Leader])
      BY <1>0 DEF MatchingStart
    <2>6. InitLog[s][j] = InitLog[Leader][j]
      BY <1>3, <2>2, <2>4, <2>5 DEF Agree
    <2> QED
      BY <1>3, <2>1, <2>3, <2>6
  <1> QED
    BY <1>2, <1>3 DEF MatchInv, OldOrPrefix

\* Logs change in two ways: the leader appends, or a peer takes over a prefix of
\* the leader's log.
LEMMA LogChange ==
    ASSUME MatchingStart, MatchInv, [Next]_vars
    PROVE  /\ latestSnapshot' = latestSnapshot
           /\ \/ log' = log
              \/ \E r \in Request : AppendEntry(r)
              \/ \E s \in Server \ {Leader}, lg \in Seq(Entry) :
                    IsPrefixOf(lg, log[Leader]) /\ log' = [log EXCEPT ![s] = lg]
  <1> DEFINE Goal ==
        /\ latestSnapshot' = latestSnapshot
        /\ \/ log' = log
           \/ \E r \in Request : AppendEntry(r)
           \/ \E s \in Server \ {Leader}, lg \in Seq(Entry) :
                 IsPrefixOf(lg, log[Leader]) /\ log' = [log EXCEPT ![s] = lg]
  <1>0. /\ LogTypes /\ CallTypes /\ Leader \in Server
        /\ log[Leader] \in Seq(Entry) /\ Len(log[Leader]) \in Nat
        /\ LeaderSize = Len(log[Leader])
        /\ Len(log[Leader]) < SnapshotThreshold /\ SnapshotThreshold \in Nat
    BY NoSnapshotFacts, BoundAssumption
  <1>1. ASSUME UNCHANGED logVars PROVE Goal
    BY <1>1 DEF logVars
  <1>2. ASSUME NEW r \in Request, AppendEntry(r) PROVE Goal
    BY <1>2 DEF AppendEntry
  <1>3. ASSUME NEW r \in Request, ApplyCommitted(r) PROVE Goal
    <2>1. /\ log' = [log EXCEPT ![Leader] = log[Leader]]
          /\ latestSnapshot' = latestSnapshot
      BY <1>0, <1>3 DEF ApplyCommitted, Apply
    <2>2. log' = log
      BY <1>0, <2>1 DEF LogTypes
    <2> QED
      BY <2>1, <2>2
  <1>4. ASSUME NEW c \in calls, c.rpc = "AppendEntries", AcceptEntries(c, Peers[c.to])
        PROVE  Goal
    <2> DEFINE s == Peers[c.to]
               lg == AppendBatch(log[s], NoSnapshot, c.prevLogIndex, c.entries)
    <2>1. /\ s \in Server \ {Leader} /\ c.prevLogIndex \in Nat \cup {-1}
          /\ c.entries \in Seq(Entry) /\ c.prevLogIndex \in Int
      BY <1>0, <1>4, CallFields
    <2>2. latestSnapshot[s] = NoSnapshot
      BY <2>1 DEF MatchInv, NoSnapshots
    <2>3. log[s] \in Seq(Entry) /\ Agree(log[s], log[Leader])
      BY <1>0, <2>1, AgreeWithLeader DEF LogTypes
    <2>4. PrevLogMatches(log[s], NoSnapshot, c.prevLogIndex, c.prevLogTerm)
      BY <1>4, <2>2 DEF AcceptEntries
    <2>5. c.prevLogIndex + 1 + Len(c.entries) <= Len(log[Leader])
      BY <1>0, <1>4 DEF MatchInv, RepInv, Within, Reaches
    <2>6. /\ \A k \in 1 .. Len(c.entries) : c.entries[k] = log[Leader][c.prevLogIndex + 1 + k]
          /\ c.prevLogIndex >= 0 => c.prevLogTerm = log[Leader][c.prevLogIndex + 1].term
          /\ InPlace(log[Leader])
      BY DEF MatchInv, PartOfLeader, LeaderExtends
    <2>a. \/ /\ log' = [log EXCEPT ![s] = lg]
             /\ latestSnapshot' = latestSnapshot
          \/ Len(lg) >= SnapshotThreshold
      BY <1>4, <2>2 DEF AcceptEntries, Apply
    <2> HIDE DEF s
    <2>7. lg = log[s] \/ IsPrefixOf(lg, log[Leader])
      BY <1>0, <2>1, <2>3, <2>4, <2>5, <2>6, AppendBatchMatches
    <2>8. lg \in Seq(Entry)
      <3>1. NoSnapshot \in AnySnapshot
        BY DEF AnySnapshot
      <3> QED
        BY <2>1, <2>3, <3>1, AppendBatchType
    <2> HIDE DEF lg
    <2>9. Len(lg) < SnapshotThreshold /\ Len(lg) \in Nat
      <3>1. Len(lg) \in Nat /\ Cardinality(Request) \in Nat
        BY <2>8, LenProperties, FS_CardinalityType DEF MatchingStart
      <3>2. lg = InitLog[s] \/ IsPrefixOf(lg, log[Leader])
        BY <2>1, <2>7 DEF MatchInv, OldOrPrefix
      <3>3. CASE lg = InitLog[s]
        BY <1>0, <2>1, <3>1, <3>3 DEF MatchingStart
      <3>4. CASE IsPrefixOf(lg, log[Leader])
        BY <1>0, <3>1, <3>4 DEF IsPrefixOf
      <3> QED
        BY <3>1, <3>2, <3>3, <3>4
    <2>10. log' = [log EXCEPT ![s] = lg] /\ latestSnapshot' = latestSnapshot
      BY <1>0, <2>9, <2>a
    <2>11. lg = log[s] => log' = log
      BY <1>0, <2>10 DEF LogTypes
    <2> QED
      BY <2>1, <2>7, <2>8, <2>10, <2>11
  <1>a. ASSUME NEW r \in Request, Commit(r) PROVE Goal
    BY <1>a DEF Commit
  <1>5. ASSUME NEW c \in calls, HandlerStep(c) PROVE Goal
    <2>1. c.rpc = "AppendEntries"
      BY DEF MatchInv, NoSnapshots
    <2>2. UNCHANGED logVars \/ AcceptEntries(c, Peers[c.to])
      BY <1>5, <2>1 DEF HandlerStep, HandleAppendEntries, HandleInstallSnapshot,
         RefuseOldTerm, SelfDeadlock, RejectEntries
    <2> QED
      BY <1>1, <1>4, <2>1, <2>2
  <1>6. ASSUME NEW s \in Server, triggerSnapshot(s) PROVE FALSE
    <2>1. snapshots \in 0 .. MaxSnapshots /\ MaxSnapshots = 0
      BY TypeParts DEF MatchInv, RepInv, CountTypes, MatchingStart
    <2> QED
      BY <1>6, <2>1 DEF triggerSnapshot
  <1>7. \/ UNCHANGED logVars
        \/ \E r \in Request : AppendEntry(r) \/ Commit(r) \/ ApplyCommitted(r)
        \/ \E c \in calls : HandlerStep(c)
        \/ \E s \in Server : triggerSnapshot(s)
    BY DEF Next, ClientStep, CheckLeader, Replicate, ReceiveAppendReply,
           ReceiveSnapshotReply, Decide, HeartStep, HeartbeatRound,
           SendHeartbeat, EndHeartbeatRound, ReceiveHeartbeatReply,
           HeartSnapshotReply, CallTimesOut, PeerStartsElection,
           HearCandidate, HearNewLeader, vars
  <1> HIDE DEF Goal
  <1>8. Goal
    BY <1>1, <1>2, <1>3, <1>5, <1>6, <1>7, <1>a
  <1> QED
    BY <1>8 DEF Goal

LEMMA LeaderTerm ==
    ASSUME RepInv, [Next]_vars
    PROVE  currentTerm[Leader] <= currentTerm'[Leader]
  <1>0. TermTypes /\ CallTypes /\ Leader \in Server
    BY TypeParts DEF RepInv, Server
  <1>1. ASSUME NEW t \in Nat, t > currentTerm[Leader],
               currentTerm' = [currentTerm EXCEPT ![Leader] = t]
        PROVE  currentTerm[Leader] <= currentTerm'[Leader]
    BY <1>0, <1>1 DEF TermTypes
  <1>2. ASSUME NEW s \in Server \ {Leader}, NEW t,
               currentTerm' = [currentTerm EXCEPT ![s] = t]
        PROVE  currentTerm[Leader] <= currentTerm'[Leader]
    BY <1>0, <1>2 DEF TermTypes
  <1>3. CASE UNCHANGED currentTerm
    BY <1>0, <1>3 DEF TermTypes
  <1>4. ASSUME NEW c \in calls, NEW r, ClientStepDown(r, c) \/ HeartStepDown(c)
        PROVE  currentTerm[Leader] <= currentTerm'[Leader]
    BY <1>0, <1>1, <1>4, CallFields DEF ClientStepDown, HeartStepDown
  <1>5. ASSUME NEW c \in calls, HandleInstallSnapshot(c)
        PROVE  currentTerm[Leader] <= currentTerm'[Leader]
    <2>1. \/ UNCHANGED currentTerm
          \/ currentTerm' = [currentTerm EXCEPT ![Peers[c.to]] = c.term]
      BY <1>5 DEF HandleInstallSnapshot
    <2>2. Peers[c.to] \in Server \ {Leader}
      BY <1>0, CallFields
    <2> QED
      BY <1>2, <1>3, <2>1, <2>2
  <1>6. ASSUME NEW s \in Server, PeerStartsElection(s)
        PROVE  currentTerm[Leader] <= currentTerm'[Leader]
    <2>1. s \in Server \ {Leader}
      BY <1>6, PeersAssumption DEF PeerStartsElection
    <2> QED
      BY <1>2, <1>6, <2>1 DEF PeerStartsElection
  <1>7. ASSUME NEW s \in Server, HearCandidate(s)
        PROVE  currentTerm[Leader] <= currentTerm'[Leader]
    <2>1. PICK q \in Follower : /\ currentTerm[q] > currentTerm[s]
                                /\ currentTerm' = [currentTerm EXCEPT ![s] = currentTerm[q]]
      BY <1>7 DEF HearCandidate
    <2>2. currentTerm[q] \in Nat
      BY <1>0 DEF TermTypes, Server
    <2> QED
      BY <1>1, <1>2, <2>1, <2>2
  <1>8. \/ UNCHANGED currentTerm
        \/ \E c \in calls, r \in Request : ClientStepDown(r, c) \/ HeartStepDown(c)
        \/ \E c \in calls : HeartStepDown(c) \/ HandleInstallSnapshot(c)
        \/ \E s \in Server : PeerStartsElection(s) \/ HearCandidate(s)
    BY DEF Next, ClientStep, CheckLeader, AppendEntry, Replicate,
           ReceiveAppendReply, ReplicateSucceeds, ReplicateFails, Replied,
           ReceiveSnapshotReply, Decide, Commit, ApplyCommitted, HearNewLeader, HeartStep, HeartbeatRound,
           SendHeartbeat, EndHeartbeatRound, ReceiveHeartbeatReply, HeartIgnores,
           HeartUpdates, HeartSnapshotReply, HandlerStep, HandleAppendEntries,
           CallTimesOut, triggerSnapshot, termVars, vars
  <1> QED
    BY <1>3, <1>4, <1>5, <1>6, <1>7, <1>8

\* A longer log has the prefixes of the shorter one.
LEMMA LongerPrefix ==
    ASSUME NEW lg \in Seq(Entry), NEW old \in Seq(Entry), NEW new \in Seq(Entry),
           IsPrefixOf(lg, old), IsPrefixOf(old, new)
    PROVE  IsPrefixOf(lg, new)
  <1>1. Len(lg) \in Nat /\ Len(old) \in Nat /\ Len(new) \in Nat
    BY LenProperties
  <1>2. Len(lg) <= Len(old) /\ Len(old) <= Len(new)
    BY DEF IsPrefixOf
  <1>3. \A i \in 1 .. Len(lg) : i \in 1 .. Len(old)
    BY <1>1, <1>2
  <1>4. Len(lg) <= Len(new)
    BY <1>1, <1>2
  <1> QED
    BY <1>3, <1>4 DEF IsPrefixOf

\* The leader's log keeps its entries and gets new ones in their place; a peer
\* keeps what it has or has a prefix of that.
LEMMA LeaderLog ==
    ASSUME MatchingStart, MatchInv, [Next]_vars
    PROVE  /\ Len(log'[Leader]) \in Nat /\ IsPrefixOf(log[Leader], log'[Leader])
           /\ LeaderExtends'
           /\ OldOrPrefix'
  <1>0. /\ LogTypes /\ Leader \in Server
        /\ log[Leader] \in Seq(Entry) /\ Len(log[Leader]) \in Nat
        /\ LeaderSize = Len(log[Leader]) /\ LeaderExtends /\ OldOrPrefix
        /\ InitLog[Leader] \in Seq(Entry) /\ Len(InitLog[Leader]) \in Nat
    BY NoSnapshotFacts, LogAssumption, LenProperties DEF MatchInv
  <1>1. /\ InitTerm <= currentTerm[Leader] /\ currentTerm[Leader] \in Nat
        /\ InitTerm <= currentTerm'[Leader]
    <2>1. /\ currentTerm[Leader] <= currentTerm'[Leader]
          /\ currentTerm[Leader] \in Nat
      BY <1>0, LeaderTerm, TypeParts DEF MatchInv, RepInv, TermTypes
    <2>2. RepInv'
      BY NextRepInv DEF MatchInv
    <2>3. currentTerm'[Leader] \in Nat
      BY <1>0, <2>2 DEF RepInv, TypeOK
    <2> QED
      BY <1>0, <2>1, <2>3, BoundAssumption DEF LeaderExtends
  <1> DEFINE Goal == /\ Len(log'[Leader]) \in Nat /\ IsPrefixOf(log[Leader], log'[Leader])
                     /\ LeaderExtends'
                     /\ OldOrPrefix'
  <1>2. ASSUME log'[Leader] = log[Leader]
        PROVE  /\ Len(log'[Leader]) \in Nat /\ IsPrefixOf(log[Leader], log'[Leader])
               /\ LeaderExtends'
    <2>1. IsPrefixOf(log[Leader], log[Leader])
      BY <1>0 DEF IsPrefixOf
    <2> QED
      BY <1>0, <1>1, <1>2, <2>1 DEF LeaderExtends
  <1>3. ASSUME log' = log PROVE Goal
    BY <1>0, <1>2, <1>3 DEF OldOrPrefix
  <1>4. ASSUME NEW r \in Request, AppendEntry(r) PROVE Goal
    <2> DEFINE n == Len(log[Leader])
               e == [term |-> currentTerm[Leader], index |-> n, command |-> r]
    <2>1. /\ log'[Leader] = Append(log[Leader], e)
          /\ \A q \in Server \ {Leader} : log'[q] = log[q]
      BY <1>0, <1>4, AppendEntryLogs DEF MatchInv
    <2>2. e \in Entry /\ e.index = n /\ e.term = currentTerm[Leader]
      BY <1>0, <1>1 DEF Entry, Command
    <2> HIDE DEF e
    <2>3. /\ log'[Leader] \in Seq(Entry)
          /\ Len(log'[Leader]) = n + 1
          /\ \A i \in 1 .. n : log'[Leader][i] = log[Leader][i]
          /\ log'[Leader][n + 1] = e
      BY <1>0, <2>1, <2>2, AppendProperties
    <2>4. n <= n + 1 /\ n + 1 \in Nat /\ n + 1 - 1 = n
      BY <1>0
    <2>5. IsPrefixOf(log[Leader], log'[Leader])
      BY <2>3, <2>4 DEF IsPrefixOf
    <2>6. LeaderExtends'
      <3>1. IsPrefixOf(InitLog[Leader], log'[Leader])
        BY <1>0, <2>3, <2>5, LongerPrefix DEF LeaderExtends
      <3>2. ASSUME NEW i \in 1 .. n + 1
            PROVE  /\ log'[Leader][i].index = i - 1
                   /\ i > Len(InitLog[Leader]) => InitTerm <= log'[Leader][i].term
        <4>1. CASE i = n + 1
          BY <1>1, <2>2, <2>3, <2>4, <4>1
        <4>2. CASE i # n + 1
          <5>1. i \in 1 .. n
            BY <1>0, <4>2
          <5> QED
            BY <1>0, <2>3, <5>1 DEF LeaderExtends, InPlace
        <4> QED
          BY <4>1, <4>2
      <3> QED
        BY <1>1, <2>3, <3>1, <3>2 DEF LeaderExtends, InPlace
    <2>7. ASSUME NEW s \in Server
          PROVE  log'[s] = InitLog[s] \/ IsPrefixOf(log'[s], log'[Leader])
      <3>1. CASE s = Leader
        <4>1. IsPrefixOf(log'[Leader], log'[Leader])
          BY <2>3, <2>4 DEF IsPrefixOf
        <4> QED
          BY <3>1, <4>1
      <3>2. CASE s # Leader
        <4>1. /\ log'[s] = log[s] /\ log[s] \in Seq(Entry)
              /\ log[s] = InitLog[s] \/ IsPrefixOf(log[s], log[Leader])
          BY <1>0, <2>1, <3>2 DEF OldOrPrefix, LogTypes
        <4> QED
          BY <1>0, <2>3, <2>5, <4>1, LongerPrefix
      <3> QED
        BY <3>1, <3>2
    <2> QED
      BY <2>3, <2>4, <2>5, <2>6, <2>7 DEF OldOrPrefix
  <1>5. ASSUME NEW s \in Server \ {Leader}, NEW lg \in Seq(Entry),
               IsPrefixOf(lg, log[Leader]), log' = [log EXCEPT ![s] = lg]
        PROVE  Goal
    <2>1. /\ log'[Leader] = log[Leader] /\ log'[s] = lg
          /\ \A q \in Server \ {s} : log'[q] = log[q]
      BY <1>0, <1>5 DEF LogTypes
    <2>2. OldOrPrefix'
      BY <1>0, <1>5, <2>1 DEF OldOrPrefix
    <2> QED
      BY <1>2, <2>1, <2>2
  <1> HIDE DEF Goal
  <1>6. Goal
    BY <1>3, <1>4, <1>5, LogChange
  <1> QED
    BY <1>6 DEF Goal

-----------------------------------------------------------------------------
(* Requests and messages.                                                  *)

\* A request appends at most one entry.
LEMMA WaitingStep ==
    ASSUME RepInv, [Next]_vars
    PROVE  /\ Waiting' \subseteq Waiting
           /\ \A r \in Request : AppendEntry(r) => r \in Waiting \ Waiting'
  <1>0. client \in [Request -> Handler] /\ CallTypes
    BY TypeParts DEF RepInv, ThreadTypes
  <1> DEFINE Late(r) == client'[r].pc \in {"new", "append"} =>
                           client[r].pc \in {"new", "append"}
  <1>1. ASSUME NEW r \in Request
        PROVE  /\ NextPeer(client[r]).pc = "send"
               /\ [NextPeer(client[r]) EXCEPT !.successCount = @ + 1].pc = "send"
    <2>1. client[r] \in Handler
      BY <1>0
    <2> QED
      BY <2>1 DEF NextPeer, Handler
  <1>2. ASSUME NEW r \in Request, AppendEntry(r)
        PROVE  client[r].pc = "append" /\ client'[r].pc = "send"
    BY <1>0, <1>2 DEF AppendEntry, Handler
  <1>3. ASSUME NEW r \in Request, ClientStep(r) PROVE Late(r)
    <2>1. CASE CheckLeader(r)
      BY <2>1 DEF CheckLeader
    <2>2. CASE Replicate(r)
      BY <1>0, <2>2 DEF Replicate, Handler
    <2>3. CASE ReceiveAppendReply(r)
      <3>1. \E c \in calls : ClientStepDown(r, c) \/ ReplicateSucceeds(r, c) \/ ReplicateFails(r, c)
        BY <2>3 DEF ReceiveAppendReply, Replied
      <3>2. \/ client' = [client EXCEPT ![r].pc = "done", ![r].result = "leader step down"]
            \/ client' = [client EXCEPT ![r] = [NextPeer(client[r]) EXCEPT !.successCount = @ + 1]]
            \/ client' = [client EXCEPT ![r] = NextPeer(client[r])]
            \/ client' = client
        BY <3>1 DEF ClientStepDown, ReplicateSucceeds, ReplicateFails
      <3> QED
        BY ZenonT(40), <1>0, <1>1, <3>2 DEF Handler
    <2>4. CASE ReceiveSnapshotReply(r)
      BY <1>0, <1>1, <2>4 DEF ReceiveSnapshotReply
    <2>5. CASE Decide(r)
      BY <1>0, <2>5 DEF Decide, Handler
    <2>6. CASE Commit(r)
      BY <1>0, <2>6 DEF Commit, Handler
    <2>7. CASE ApplyCommitted(r)
      BY <1>0, <2>7 DEF ApplyCommitted, Handler
    <2> QED
      BY <1>2, <1>3, <2>1, <2>2, <2>3, <2>4, <2>5, <2>6, <2>7 DEF ClientStep
  <1>4. ASSUME NEW q \in Request, ClientStep(q), NEW r \in Request, r # q PROVE Late(r)
    <2>1. client'[r] = client[r]
      BY <1>0, <1>4 DEF ClientStep, CheckLeader, AppendEntry, Replicate,
         ReceiveAppendReply, ClientStepDown, ReplicateSucceeds, ReplicateFails,
         ReceiveSnapshotReply, Decide, Commit, ApplyCommitted
    <2> QED
      BY <2>1
  <1>5. ASSUME NEW c \in calls, CallTimesOut(c), NEW r \in Request PROVE Late(r)
    <2>1. \/ UNCHANGED client
          \/ client' = [client EXCEPT ![c.by] = NextPeer(client[c.by])]
      BY <1>5 DEF CallTimesOut
    <2> QED
      BY <1>0, <1>1, <2>1
  <1>6. \/ UNCHANGED client
        \/ \E q \in Request : ClientStep(q)
        \/ \E c \in calls : CallTimesOut(c)
    BY DEF Next, HeartStep, HeartbeatRound, SendHeartbeat, EndHeartbeatRound,
           ReceiveHeartbeatReply, HeartSnapshotReply, HandlerStep,
           HandleAppendEntries, HandleInstallSnapshot, triggerSnapshot,
           PeerStartsElection, HearCandidate, HearNewLeader, vars
  <1>7. \A r \in Request : Late(r)
    BY <1>3, <1>4, <1>5, <1>6
  <1> QED
    BY <1>2, <1>7 DEF Waiting

\* A new message is AppendEntries with a part of the leader's log.
LEMMA NewBatch ==
    ASSUME MatchInv, NEW by \in Request \cup {Heart}, NEW i \in Peer, NEW end \in Int
    PROVE  LET c == AppendEntriesCall(by, i, end)
           IN  c.rpc = "AppendEntries" /\ PartOfLeader(c)
  <1> DEFINE c == AppendEntriesCall(by, i, end)
             snap == latestSnapshot[Leader]
             part == getLogEntries(log[Leader], snap, nextIndex[i], end)
             prev == nextIndex[i] - 1
  <1>1. /\ log[Leader] \in Seq(Entry) /\ snap \in AnySnapshot
        /\ snap.lastIncludedIndex = -1 /\ baseIndex(snap) = 0
        /\ LeaderSize \in Nat /\ LeaderSize = Len(log[Leader])
    BY NoSnapshotFacts, LeaderTypes DEF baseIndex
  <1>2. nextIndex[i] \in Nat /\ nextIndex[i] <= LeaderSize
    <2>1. nextIndex \in [Peer -> 0 .. LeaderSize]
      BY TypeParts DEF MatchInv, RepInv, NextTypes
    <2> QED
      BY <1>1, <2>1
  <1>3. /\ c.rpc = "AppendEntries" /\ c.entries = part /\ c.prevLogIndex = prev
        /\ c.prevLogTerm = getLogTerm(log[Leader], snap, prev)
    BY DEF AppendEntriesCall
  <1> HIDE DEF snap, c
  <1>4. \A k \in 1 .. Len(part) : part[k] = log[Leader][nextIndex[i] + k]
    BY <1>1, <1>2, EntriesType
  <1>5. prev + 1 = nextIndex[i] /\ prev \in Int
    BY <1>2
  <1>6. prev >= 0 => getLogTerm(log[Leader], snap, prev) = log[Leader][prev + 1].term
    <2> SUFFICES ASSUME prev >= 0
                 PROVE  getLogTerm(log[Leader], snap, prev) = log[Leader][prev + 1].term
      OBVIOUS
    <2>1. prev # -1 /\ prev - 0 = prev /\ prev \in 0 .. Len(log[Leader]) - 1
      BY <1>1, <1>2, <1>5
    <2> HIDE DEF prev
    <2> QED
      BY <1>1, <2>1 DEF getLogTerm
  <1> HIDE DEF prev
  <1>7. PartOfLeader(c)
    BY <1>3, <1>4, <1>5, <1>6 DEF PartOfLeader
  <1> QED
    BY <1>3, <1>7 DEF c

LEMMA BatchStays ==
    ASSUME MatchInv, NEW c \in calls, NEW ok \in BOOLEAN, NEW t \in Nat
    PROVE  /\ c.rpc = "AppendEntries" /\ PartOfLeader(c)
           /\ LET d == [c EXCEPT !.pc = "replied", !.success = ok, !.replyTerm = t]
              IN  d.rpc = "AppendEntries" /\ PartOfLeader(d)
           /\ LET d == [c EXCEPT !.live = FALSE]
              IN  d.rpc = "AppendEntries" /\ PartOfLeader(d)
  <1>1. c.rpc = "AppendEntries" /\ PartOfLeader(c)
    BY DEF MatchInv, NoSnapshots
  <1>2. c \in AppendEntriesMessage
    BY <1>1, TypeParts, CallFields DEF MatchInv, RepInv
  <1> QED
    BY <1>1, <1>2 DEF AppendEntriesMessage, PartOfLeader

LEMMA BatchesStep ==
    ASSUME MatchInv, [Next]_vars
    PROVE  \A c \in calls' : c.rpc = "AppendEntries" /\ PartOfLeader(c)
  <1> DEFINE Good(c) == c.rpc = "AppendEntries" /\ PartOfLeader(c)
  <1>0. /\ RepInv /\ CallTypes /\ TermTypes /\ client \in [Request -> Handler]
        /\ nextIndex \in [Peer -> 0 .. LeaderSize] /\ LeaderSize \in Nat
        /\ latestSnapshot[Leader].lastIncludedIndex = -1
    BY TypeParts, LeaderTypes, NoSnapshotFacts DEF MatchInv, RepInv, ThreadTypes, NextTypes
  <1>1. \A c \in calls : Good(c)
    BY DEF MatchInv, NoSnapshots
  <1>2. ASSUME NEW c \in calls, NEW ok \in BOOLEAN, Answer(c, ok)
        PROVE  \A d \in calls' : Good(d)
    <2>1. currentTerm[Peers[c.to]] \in Nat
      BY <1>0, CallFields DEF TermTypes
    <2>2. Good([c EXCEPT !.pc = "replied", !.success = ok,
                         !.replyTerm = currentTerm[Peers[c.to]]])
      BY <2>1, BatchStays
    <2> HIDE DEF Good
    <2> QED
      BY <1>1, <1>2, <2>2 DEF Answer
  <1>3. ASSUME NEW r \in Request, Replicate(r) PROVE \A c \in calls' : Good(c)
    <2> DEFINE i == client[r].peer
               end == client[r].index + 1
    <2>1. i \in Nat \ {0} /\ client[r].index \in Nat /\ i <= Len(Peers)
      BY <1>0, <1>3, HandlerValues DEF Replicate
    <2>2. i \in Peer /\ end \in Int
      BY <2>1, PeersAssumption DEF Peer
    <2>3. calls' = calls \cup {AppendEntriesCall(r, i, end)}
      BY <1>3 DEF Replicate, Send
    <2> HIDE DEF i, end
    <2>4. Good(AppendEntriesCall(r, i, end))
      BY <2>2, NewBatch
    <2> HIDE DEF Good
    <2> QED
      BY <1>1, <2>3, <2>4
  <1>4. ASSUME NEW r \in Request, ReceiveAppendReply(r) PROVE calls' \subseteq calls
    <2>1. PICK c \in calls : \/ ClientStepDown(r, c)
                             \/ ReplicateSucceeds(r, c)
                             \/ ReplicateFails(r, c)
      BY <1>4 DEF ReceiveAppendReply, Replied
    <2>2. c.to \in Peer
      BY <1>0, CallFields
    <2>3. ~NeedsSnapshot(Decrement(c.to))
      <3>1. nextIndex[c.to] \in 0 .. LeaderSize
        BY <1>0, <2>2
      <3>2. Decrement(c.to) \in Nat
        BY <1>0, <3>1 DEF Decrement
      <3> QED
        BY <1>0, <3>2 DEF NeedsSnapshot
    <2> QED
      BY <2>1, <2>3 DEF ClientStepDown, ReplicateSucceeds, ReplicateFails
  <1>5. ASSUME SendHeartbeat PROVE \A c \in calls' : Good(c)
    <2> DEFINE i == heart.peer
               size == getLogSize(log[Leader], latestSnapshot[Leader])
               batchEnd == nextIndex[i] + MaxEntriesPerBatch
               end == IF batchEnd < size THEN batchEnd ELSE size
    <2>1. i \in Nat \ {0} /\ i <= Len(Peers)
      BY <1>0, <1>5, TypeParts DEF SendHeartbeat, RepInv, ThreadTypes, HeartThread
    <2>2. i \in Peer
      BY <2>1, PeersAssumption DEF Peer
    <2>3. calls' = calls \cup {IF NeedsSnapshot(nextIndex[i])
                               THEN InstallSnapshotCall(Heart, i)
                               ELSE AppendEntriesCall(Heart, i, end)}
      BY <1>5 DEF SendHeartbeat, Send
    <2> HIDE DEF i
    <2>4. nextIndex[i] \in Nat
      BY <1>0, <2>2
    <2>5. end \in Int
      BY <1>0, <2>4, BoundAssumption DEF LeaderSize
    <2> HIDE DEF end
    <2>6. ~NeedsSnapshot(nextIndex[i])
      BY <1>0, <2>4 DEF NeedsSnapshot
    <2>7. Good(AppendEntriesCall(Heart, i, end))
      BY <2>2, <2>5, NewBatch
    <2> HIDE DEF Good
    <2> QED
      BY <1>1, <2>3, <2>6, <2>7
  <1>6. ASSUME NEW c \in calls, HandlerStep(c) PROVE \A d \in calls' : Good(d)
    <2>1. calls' = calls \/ \E ok \in BOOLEAN : Answer(c, ok)
      BY <1>6 DEF HandlerStep, HandleAppendEntries, HandleInstallSnapshot,
         RefuseOldTerm, SelfDeadlock, AcceptEntries, RejectEntries
    <2> QED
      BY <1>1, <1>2, <2>1
  <1>7. ASSUME NEW c \in calls, CallTimesOut(c) PROVE \A d \in calls' : Good(d)
    <2>1. \/ calls' = calls \ {c}
          \/ calls' = (calls \ {c}) \cup {[c EXCEPT !.live = FALSE]}
      BY <1>7 DEF CallTimesOut
    <2>2. Good([c EXCEPT !.live = FALSE])
      BY BatchStays
    <2> HIDE DEF Good
    <2> QED
      BY <1>1, <2>1, <2>2
  <1>8. \/ calls' \subseteq calls
        \/ \E r \in Request : Replicate(r) \/ ReceiveAppendReply(r)
        \/ SendHeartbeat
        \/ \E c \in calls : HandlerStep(c) \/ CallTimesOut(c)
    BY DEF Next, ClientStep, CheckLeader, AppendEntry, ReceiveSnapshotReply,
           Decide, Commit, ApplyCommitted, HeartStep, HeartbeatRound, EndHeartbeatRound,
           ReceiveHeartbeatReply, HeartSnapshotReply, triggerSnapshot,
           PeerStartsElection, HearCandidate, HearNewLeader, vars
  <1> HIDE DEF Good
  <1>9. \A c \in calls' : Good(c)
    BY <1>1, <1>3, <1>4, <1>5, <1>6, <1>7, <1>8
  <1> QED
    BY <1>9 DEF Good

-----------------------------------------------------------------------------
(* The invariant.                                                          *)

LEMMA InitMatchInv ==
    ASSUME MatchingStart, Init
    PROVE  MatchInv
  <1>1. RepInv
    BY InitRepInv
  <1>2. /\ log = InitLog /\ calls = {} /\ latestSnapshot = [s \in Server |-> NoSnapshot]
        /\ \A r \in Request : client[r].pc = "new"
    BY Zenon DEF Init
  <1>3. Waiting = Request
    BY <1>2 DEF Waiting
  <1>4. NoSnapshots
    BY <1>2, <1>3 DEF MatchingStart, NoSnapshots, Server
  <1>5. LeaderExtends
    <2>1. Leader \in Server /\ InitLog[Leader] \in Seq(Entry)
      BY LogAssumption DEF Server
    <2>2. Len(InitLog[Leader]) \in Nat
      BY <2>1, LenProperties
    <2>3. currentTerm[Leader] = InitTerm
      BY <2>1, Zenon DEF Init
    <2>4. IsPrefixOf(InitLog[Leader], InitLog[Leader])
      BY <2>2 DEF IsPrefixOf
    <2> QED
      BY <1>2, <2>1, <2>2, <2>3, <2>4, BoundAssumption DEF LeaderExtends, MatchingStart
  <1>6. OldOrPrefix
    BY <1>2 DEF OldOrPrefix
  <1> QED
    BY <1>1, <1>2, <1>4, <1>5, <1>6 DEF MatchInv

LEMMA NextMatchInv ==
    ASSUME MatchingStart, MatchInv, [Next]_vars
    PROVE  MatchInv'
  <1>1. RepInv /\ RepInv'
    BY NextRepInv DEF MatchInv
  <1>2. /\ Len(log'[Leader]) \in Nat /\ IsPrefixOf(log[Leader], log'[Leader])
        /\ Len(log[Leader]) <= Len(log'[Leader])
        /\ \A i \in 1 .. Len(log[Leader]) : log'[Leader][i] = log[Leader][i]
        /\ LeaderExtends' /\ OldOrPrefix'
    BY LeaderLog DEF IsPrefixOf
  <1>3. /\ Len(log[Leader]) \in Nat /\ LeaderSize = Len(log[Leader])
        /\ SnapshotThreshold \in Nat
    BY NoSnapshotFacts, BoundAssumption
  <1>4. \A c \in calls' : c.rpc = "AppendEntries" /\ PartOfLeader(c)
    BY BatchesStep
  <1>5. ASSUME NEW c \in calls' PROVE PartOfLeader(c)'
    <2>1. Covered(c)
      BY <1>1, CallsCovered
    <2>2. c \in AppendEntriesMessage
      BY <1>4, <2>1 DEF Covered, Message, InstallSnapshotMessage
    <2>3. /\ c.prevLogIndex \in Nat \cup {-1} /\ c.entries \in Seq(Entry)
      BY <2>2 DEF AppendEntriesMessage
    <2>4. Len(c.entries) \in Nat
      BY <2>3, LenProperties
    <2>5. c.prevLogIndex + 1 + Len(c.entries) <= Len(log[Leader])
      BY <1>3, <1>4, <2>1 DEF Covered, Within, Reaches
    <2>6. ASSUME NEW k \in 1 .. Len(c.entries)
          PROVE  c.entries[k] = log'[Leader][c.prevLogIndex + 1 + k]
      <3>1. c.prevLogIndex + 1 + k \in 1 .. Len(log[Leader])
        BY <1>3, <2>3, <2>4, <2>5
      <3>2. c.entries[k] = log[Leader][c.prevLogIndex + 1 + k]
        BY <1>4 DEF PartOfLeader
      <3> QED
        BY <1>2, <3>1, <3>2
    <2>7. c.prevLogIndex >= 0 => c.prevLogTerm = log'[Leader][c.prevLogIndex + 1].term
      <3>1. c.prevLogIndex >= 0 => c.prevLogIndex + 1 \in 1 .. Len(log[Leader])
        BY <1>3, <2>3, <2>4, <2>5
      <3> QED
        BY <1>2, <1>4, <3>1 DEF PartOfLeader
    <2> QED
      BY <2>6, <2>7 DEF PartOfLeader
  <1>6. latestSnapshot' = latestSnapshot
    BY LogChange
  <1>7. /\ IsFiniteSet(Waiting) /\ Cardinality(Waiting) \in Nat
        /\ Waiting' \subseteq Waiting
        /\ IsFiniteSet(Waiting') /\ Cardinality(Waiting') \in Nat
        /\ Cardinality(Waiting') <= Cardinality(Waiting)
    <2>1. IsFiniteSet(Waiting) /\ Waiting' \subseteq Waiting
      BY <1>1, WaitingStep DEF MatchInv, NoSnapshots
    <2> QED
      BY <2>1, FS_Subset, FS_CardinalityType
  <1>8. Len(log'[Leader]) + Cardinality(Waiting') < SnapshotThreshold
    <2>0. Len(log[Leader]) + Cardinality(Waiting) < SnapshotThreshold
      BY DEF MatchInv, NoSnapshots
    <2>1. CASE \E r \in Request : AppendEntry(r)
      <3>1. PICK r \in Request : AppendEntry(r)
        BY <2>1
      <3>2. r \in Waiting /\ Waiting' \subseteq Waiting \ {r}
        BY <1>1, <3>1, WaitingStep
      <3>3. /\ IsFiniteSet(Waiting \ {r})
            /\ Cardinality(Waiting \ {r}) = Cardinality(Waiting) - 1
        BY <1>7, <3>2, FS_RemoveElement
      <3>4. Cardinality(Waiting') <= Cardinality(Waiting) - 1
        BY <3>2, <3>3, FS_Subset
      <3>5. Len(log'[Leader]) = Len(log[Leader]) + 1
        <4>1. LeaderSize' = LeaderSize + 1
          BY <1>1, <3>1, AppendEntryLogs
        <4>2. LeaderSize' = Len(log'[Leader])
          <5>1. latestSnapshot[Leader] = NoSnapshot
            BY DEF MatchInv, NoSnapshots, Server
          <5> QED
            BY <1>2, <1>6, <5>1 DEF LeaderSize, getLogSize, baseIndex, NoSnapshot
        <4> QED
          BY <1>3, <4>1, <4>2
      <3> QED
        BY <1>3, <1>7, <2>0, <3>4, <3>5
    <2>2. CASE ~\E r \in Request : AppendEntry(r)
      <3>1. log'[Leader] = log[Leader]
        BY <2>2, LogChange, NoSnapshotFacts DEF LogTypes
      <3> QED
        BY <1>3, <1>7, <2>0, <3>1
    <2> QED
      BY <2>1, <2>2
  <1>9. NoSnapshots'
    BY <1>4, <1>6, <1>7, <1>8 DEF MatchInv, NoSnapshots
  <1> QED
    BY <1>1, <1>2, <1>5, <1>9 DEF MatchInv

\* The inductive invariant behind the theorems below.
THEOREM MatchInvariant ==
    ASSUME MatchingStart
    PROVE  Spec => []MatchInv
  <1>1. Init => MatchInv
    BY InitMatchInv
  <1>2. MatchInv /\ [Next]_vars => MatchInv'
    BY NextMatchInv
  <1> QED
    BY <1>1, <1>2, PTL DEF Spec

LEMMA MatchInPlace ==
    ASSUME MatchingStart, MatchInv
    PROVE  EntriesInPlace
  <1> SUFFICES ASSUME NEW s \in Server, NEW i \in 1 .. Len(log[s])
               PROVE  log[s][i].index = baseIndex(latestSnapshot[s]) + i - 1
    BY DEF EntriesInPlace, EntriesInPlaceAt
  <1>1. baseIndex(latestSnapshot[s]) = 0
    BY DEF MatchInv, NoSnapshots, baseIndex, NoSnapshot
  <1>2. Len(log[s]) \in Nat /\ Len(log[Leader]) \in Nat
    <2>1. log[s] \in Seq(Entry)
      BY NoSnapshotFacts DEF LogTypes
    <2> QED
      BY <2>1, NoSnapshotFacts, LenProperties
  <1>5. log[s][i].index = i - 1
    <2>1. InPlace(InitLog[s])
      BY DEF MatchingStart
    <2>2. log[s] = InitLog[s] => log[s][i].index = i - 1
      BY <2>1 DEF InPlace
    <2>3. IsPrefixOf(log[s], log[Leader]) => log[s][i].index = i - 1
      <3> SUFFICES ASSUME IsPrefixOf(log[s], log[Leader]) PROVE log[s][i].index = i - 1
        OBVIOUS
      <3>1. Len(log[s]) <= Len(log[Leader]) /\ log[s][i] = log[Leader][i]
        BY DEF IsPrefixOf
      <3>2. i \in 1 .. Len(log[Leader])
        BY <1>2, <3>1
      <3> QED
        BY <3>1, <3>2 DEF MatchInv, LeaderExtends, InPlace
    <2> QED
      BY <2>2, <2>3 DEF MatchInv, OldOrPrefix
  <1>6. 0 + i - 1 = i - 1
    BY <1>2
  <1> QED
    BY <1>1, <1>5, <1>6

\* Two logs that each agree with the leader's agree with each other.
LEMMA LogsAgree ==
    ASSUME MatchingStart, MatchInv, NEW s \in Server, NEW t \in Server
    PROVE  Agree(log[s], log[t])
  <1> SUFFICES ASSUME NEW i \in 1 .. Len(log[s]), i <= Len(log[t]),
                      log[s][i].term = log[t][i].term, NEW j \in 1 .. i
               PROVE  log[s][j] = log[t][j]
    BY DEF Agree
  <1>0. /\ log[s] \in Seq(Entry) /\ log[t] \in Seq(Entry)
        /\ log[Leader] \in Seq(Entry)
    BY NoSnapshotFacts DEF LogTypes
  <1>1. Len(log[s]) \in Nat /\ Len(log[t]) \in Nat /\ Len(log[Leader]) \in Nat
    BY <1>0, LenProperties
  <1>2. i \in 1 .. Len(log[t]) /\ j \in 1 .. Len(log[s]) /\ j \in 1 .. Len(log[t])
    BY <1>1
  <1>3. Agree(log[s], log[Leader]) /\ Agree(log[t], log[Leader])
    BY AgreeWithLeader
  <1>4. CASE IsPrefixOf(log[s], log[Leader])
    <2>1. /\ Len(log[s]) <= Len(log[Leader]) /\ log[s][i] = log[Leader][i]
          /\ log[s][j] = log[Leader][j]
      BY <1>2, <1>4 DEF IsPrefixOf
    <2>2. i <= Len(log[Leader])
      BY <1>1, <2>1
    <2>3. log[t][j] = log[Leader][j]
      BY <1>2, <1>3, <2>1, <2>2 DEF Agree
    <2> QED
      BY <2>1, <2>3
  <1>5. CASE IsPrefixOf(log[t], log[Leader])
    <2>1. /\ Len(log[t]) <= Len(log[Leader]) /\ log[t][i] = log[Leader][i]
          /\ log[t][j] = log[Leader][j]
      BY <1>2, <1>5 DEF IsPrefixOf
    <2>2. i <= Len(log[Leader])
      BY <1>1, <2>1
    <2>3. log[s][j] = log[Leader][j]
      BY <1>3, <2>1, <2>2 DEF Agree
    <2> QED
      BY <2>1, <2>3
  <1>6. CASE log[s] = InitLog[s] /\ log[t] = InitLog[t]
    <2>1. Agree(log[s], log[t])
      BY <1>6 DEF MatchingStart
    <2> QED
      BY <2>1 DEF Agree
  <1> QED
    BY <1>4, <1>5, <1>6 DEF MatchInv, OldOrPrefix

LEMMA MatchMeansLogMatching ==
    ASSUME MatchingStart, MatchInv
    PROVE  LogMatching
  <1>1. ASSUME NEW s \in Server, NEW i \in Nat, Holds(s, i)
        PROVE  i + 1 \in 1 .. Len(log[s]) /\ EntryAt(s, i) = log[s][i + 1]
    <2>1. baseIndex(latestSnapshot[s]) = 0
      BY DEF MatchInv, NoSnapshots, baseIndex, NoSnapshot
    <2>2. Len(log[s]) \in Nat
      BY NoSnapshotFacts, LenProperties DEF LogTypes
    <2>3. i \in 0 .. 0 + Len(log[s]) - 1
      BY <1>1, <2>1 DEF Holds, getLogSize
    <2>4. i + 1 \in 1 .. Len(log[s]) /\ i - 0 + 1 = i + 1
      BY <2>2, <2>3
    <2> QED
      BY <2>1, <2>4 DEF EntryAt
  <1>2. ASSUME NEW s \in Server, NEW t \in Server,
               NEW i \in 0 .. getLogSize(log[s], latestSnapshot[s]),
               Holds(s, i), Holds(t, i), EntryAt(s, i).term = EntryAt(t, i).term,
               NEW j \in 0 .. i, Holds(s, j), Holds(t, j)
        PROVE  EntryAt(s, j) = EntryAt(t, j)
    <2>0. i \in Nat /\ j \in Nat /\ j <= i
      OBVIOUS
    <2>1. /\ i + 1 \in 1 .. Len(log[s]) /\ EntryAt(s, i) = log[s][i + 1]
          /\ i + 1 \in 1 .. Len(log[t]) /\ EntryAt(t, i) = log[t][i + 1]
          /\ EntryAt(s, j) = log[s][j + 1] /\ EntryAt(t, j) = log[t][j + 1]
      BY <1>1, <1>2, <2>0
    <2>2. j + 1 \in 1 .. i + 1 /\ i + 1 <= Len(log[t])
      BY <2>0, <2>1
    <2>3. Agree(log[s], log[t])
      BY LogsAgree
    <2>4. log[s][j + 1] = log[t][j + 1]
      BY <1>2, <2>1, <2>2, <2>3 DEF Agree
    <2> QED
      BY <2>1, <2>4
  <1> QED
    BY <1>2 DEF LogMatching

\* When the tenure starts from logs that match and no snapshot interferes, two
\* logs that have the same term at an index always agree up to that index:
\* whatever batch of handleClientCommand or send_heartbeats is lost, late or
\* handled after its caller has given up, and also when the leader is deposed
\* and its handlers still append, the AppendEntries handler, which compares
\* only the first entry of a batch, keeps the log matching property.
THEOREM LogsMatch ==
    ASSUME MatchingStart
    PROVE  Spec => []LogMatching
  <1>1. MatchInv => LogMatching
    BY MatchMeansLogMatching
  <1> QED
    BY <1>1, MatchInvariant, PTL

\* From such a start every entry of every node sits at the place its index
\* says, so that the index arithmetic of getLogTerm, getLogEntries and of the
\* AppendEntries handler finds the entry it means.
THEOREM EntriesStayInPlace ==
    ASSUME MatchingStart
    PROVE  Spec => []EntriesInPlace
  <1>1. MatchInv => EntriesInPlace
    BY MatchInPlace
  <1> QED
    BY <1>1, MatchInvariant, PTL

\* When, moreover, no peer starts with anything the leader lacks, the log of
\* every peer is at all times a prefix of the leader's: the AppendEntries
\* handler neither erases, repeats nor leaves out an entry.
THEOREM PeersHoldPrefix ==
    ASSUME MatchingStart, \A s \in Server : IsPrefixOf(InitLog[s], InitLog[Leader])
    PROVE  Spec => []PrefixOfLeader
  <1>1. MatchInv => PrefixOfLeader
    <2> SUFFICES ASSUME MatchInv, NEW s \in Server PROVE IsPrefixOf(log[s], log[Leader])
      BY DEF PrefixOfLeader
    <2>1. /\ InitLog[s] \in Seq(Entry) /\ InitLog[Leader] \in Seq(Entry)
          /\ log[Leader] \in Seq(Entry)
      BY NoSnapshotFacts, LogAssumption
    <2>2. IsPrefixOf(InitLog[Leader], log[Leader])
      BY DEF MatchInv, LeaderExtends
    <2>3. IsPrefixOf(InitLog[s], log[Leader])
      BY <2>1, <2>2, LongerPrefix
    <2> QED
      BY <2>3 DEF MatchInv, OldOrPrefix
  <1> QED
    BY <1>1, MatchInvariant, PTL
=============================================================================
