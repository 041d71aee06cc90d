---------------------------- MODULE Replication ----------------------------
(***************************************************************************)
(* Log replication during the tenure of one elected leader, at the         *)
(* granularity of the code's threads and locks:                            *)
(*   - one handler thread per client request at the leader                 *)
(*     (handleClientCommand), sending AppendEntries to the peers in turn,  *)
(*   - the leader's heartbeat thread (send_heartbeats), which sends        *)
(*     AppendEntries of its own,                                           *)
(*   - the peers' AppendEntries and InstallSnapshot handlers.              *)
(* A message is built from the leader's fields as they are when its        *)
(* sendRPC is called, without the lock; what a reply changes is changed    *)
(* without the lock too.  Appending, committing and applying, and a peer's *)
(* AppendEntries handler hold the mutex of their node; the leader sets its *)
(* commitIndex in one step and applies in a later one, and others read the *)
(* new commitIndex in between.                                             *)
(*                                                                         *)
(* The tenure ends when the leader meets a newer term: a peer starts an    *)
(* election, and the leader hears of it from a vote request, from a reply, *)
(* or from a call of the peer that was elected without it, which takes its *)
(* mutex for good.  Its threads go on with whatever they were doing.  What *)
(* the new leader appends is not modelled.                                 *)
(*                                                                         *)
(* All nodes live in one process and apply to one key-value store, here    *)
(* with one key: `store` is that key's value.  A request's command is the  *)
(* request itself, a PUT stores it.                                        *)
(***************************************************************************)
EXTENDS RaftLog, FiniteSets

CONSTANTS
    Leader,          \* the node whose tenure this is
    Peers,           \* peerRpcPorts: the other nodes, in the order they are asked
    Request,         \* client requests
    OldCommand,      \* commands that are in logs when the tenure starts
    Op,              \* Op[r] is "PUT", "GET" or "DELETE"
    None,            \* no value under the key
    InitLog,         \* InitLog[s]: the log s has when the tenure starts
    InitTerm,        \* the term the leader was elected in
    MaxEntriesPerBatch,
    SnapshotThreshold,
    MaxTerm,         \* bound: terms that elections of peers may reach
    MaxLost,         \* bound: RPCs that time out at a live node
    MaxSnapshots     \* bound: snapshots an administrator asks for

Peer == 1 .. Len(Peers)
Follower == {Peers[i] : i \in Peer}
Server == {Leader} \cup Follower
Command == Request \cup OldCommand
Entry == [term : Nat, index : Nat, command : Command]

ASSUME PeersAssumption ==
    /\ Len(Peers) \in Nat
    /\ Leader \notin Follower
    /\ \A i, j \in Peer : Peers[i] = Peers[j] => i = j
ASSUME RequestAssumption ==
    /\ \A c \in Command : Op[c] \in {"PUT", "GET", "DELETE"}
    /\ None \notin Command
ASSUME LogAssumption == InitLog \in [Server -> Seq(Entry)]
ASSUME BoundAssumption ==
    /\ InitTerm \in Nat /\ MaxTerm \in Nat
    /\ MaxLost \in Nat /\ MaxSnapshots \in Nat
    /\ MaxEntriesPerBatch \in Nat \ {0} /\ SnapshotThreshold \in Nat \ {0}

VARIABLES
    currentTerm, state,
    log, latestSnapshot, commitIndex, lastApplied,
    nextIndex,           \* nextIndex[i]: of the leader, for Peers[i]
    runningHeartbeats,   \* of the leader
    stuck,               \* stuck[s]: s's mutex is lost to a self-deadlock
    store,               \* the shared KVStore
    client,              \* client[r]: the handler thread of request r
    heart,               \* the heartbeat thread
    calls,               \* RPCs in progress
    lost, snapshots      \* how much of each bound is used

logVars  == <<log, latestSnapshot, commitIndex, lastApplied, store>>
termVars == <<currentTerm, state, runningHeartbeats, stuck>>
vars == <<termVars, logVars, nextIndex, client, heart, calls, lost, snapshots>>

-----------------------------------------------------------------------------
(* The state machine: applyToStateMachine on the shared store.             *)

IsWrite(e) == Op[e.command] # "GET"

\* The place of the last write among the entries, if there is one.
LastWrite(entries) ==
    {i \in 1 .. Len(entries) :
        IsWrite(entries[i]) /\ \A j \in i + 1 .. Len(entries) : ~IsWrite(entries[j])}

\* The value of the key after the entries have been applied in order.
StoreAfter(kv, entries) ==
    LET last == entries[CHOOSE i \in LastWrite(entries) : TRUE].command
    IN  IF LastWrite(entries) = {} THEN kv
        ELSE IF Op[last] = "PUT" THEN last ELSE None

\* applyResult: what the last of the applied entries answers, "" if none is.
ResultOf(kv, entries) ==
    LET last == entries[Len(entries)].command
        before == StoreAfter(kv, SubSeq(entries, 1, Len(entries) - 1))
    IN  IF entries = <<>> THEN ""
        ELSE IF Op[last] = "PUT" THEN "OK"
        ELSE IF before = None THEN "key not found"
        ELSE IF Op[last] = "GET" THEN before ELSE "OK"

\* The entries an apply loop hands to the state machine when the commit index
\* of s becomes `commit`: an index the vector does not hold is passed over.
Applicable(s, lg, commit) ==
    getLogEntries(lg, latestSnapshot[s], lastApplied[s] + 1, commit + 1)

\* A snapshot of what s has applied, kv; lg is the log of s at that point.  The
\* leader's nextIndex is moved up to the end of the snapshot.
Compact(s, applied, kv, lg) ==
    LET snap == [lastIncludedIndex |-> applied,
                 lastIncludedTerm |-> getLogTerm(lg, latestSnapshot[s], applied),
                 kvState |-> kv]
    IN  /\ latestSnapshot' = [latestSnapshot EXCEPT ![s] = snap]
        /\ log' = [log EXCEPT ![s] =
                      truncateLogSafe(lg, latestSnapshot[s], applied)]
        /\ nextIndex' = IF s = Leader
                        THEN [i \in Peer |-> IF nextIndex[i] <= applied
                                             THEN applied + 1 ELSE nextIndex[i]]
                        ELSE nextIndex

\* The apply loop, and a snapshot when the vector has reached the threshold.
Apply(s, lg, commit) ==
    LET applied == IF commit > lastApplied[s] THEN commit ELSE lastApplied[s]
        kv == StoreAfter(store, Applicable(s, lg, commit))
    IN  /\ lastApplied' = [lastApplied EXCEPT ![s] = applied]
        /\ store' = kv
        /\ IF Len(lg) >= SnapshotThreshold
           THEN Compact(s, applied, kv, lg)
           ELSE /\ log' = [log EXCEPT ![s] = lg]
                /\ UNCHANGED <<latestSnapshot, nextIndex>>

\* s's mutex can be taken: it is not lost, and no request is applying.
LockFree(s) ==
    ~stuck[s] /\ (s = Leader => \A r \in Request : client[r].pc # "apply")

-----------------------------------------------------------------------------
(* RPCs.  `by` is the thread that waits for the reply: a request, or the   *)
(* heartbeat thread.  `live` is FALSE once sendRPC has given up.           *)

Heart == "heartbeat"

AppendEntriesCall(by, i, endIndex) ==
    LET snap == latestSnapshot[Leader]
        prev == nextIndex[i] - 1
    IN  [rpc |-> "AppendEntries", by |-> by, to |-> i, live |-> TRUE,
         pc |-> "sent", term |-> currentTerm[Leader],
         prevLogIndex |-> prev,
         prevLogTerm |-> getLogTerm(log[Leader], snap, prev),
         entries |-> getLogEntries(log[Leader], snap, nextIndex[i], endIndex),
         leaderCommit |-> commitIndex[Leader],
         replyTerm |-> 0, success |-> FALSE]

\* A snapshot transfer: its chunks as one message.
InstallSnapshotCall(by, i) ==
    [rpc |-> "InstallSnapshot", by |-> by, to |-> i, live |-> TRUE,
     pc |-> "sent", term |-> currentTerm[Leader],
     snapshot |-> latestSnapshot[Leader], replyTerm |-> 0, success |-> FALSE]

\* The peer needs entries that the leader only has in its snapshot.
NeedsSnapshot(next) == next <= latestSnapshot[Leader].lastIncludedIndex

Send(c) == calls' = calls \cup {c}

\* The handler of c is done: the caller gets the answer if it still waits.
Answer(c, success) ==
    calls' = (calls \ {c}) \cup
             (IF c.live THEN {[c EXCEPT !.pc = "replied", !.success = success,
                                        !.replyTerm = currentTerm[Peers[c.to]]]}
              ELSE {})

Replied(by) == {c \in calls : c.by = by /\ c.live /\ c.pc = "replied"}

\* A peer that lacks the entry before nextIndex is offered an earlier one.
Decrement(i) == IF nextIndex[i] > 0 THEN nextIndex[i] - 1 ELSE 0

-----------------------------------------------------------------------------
Init ==
    /\ currentTerm = [s \in Server |-> InitTerm]
    /\ state = [s \in Server |-> IF s = Leader THEN "LEADER" ELSE "FOLLOWER"]
    /\ log = InitLog
    /\ latestSnapshot = [s \in Server |-> NoSnapshot]
    /\ commitIndex = [s \in Server |-> 0]
    /\ lastApplied = [s \in Server |-> 0]
    /\ nextIndex = [i \in Peer |-> getLogSize(InitLog[Leader], NoSnapshot)]
    /\ runningHeartbeats = TRUE
    /\ stuck = [s \in Server |-> FALSE]
    /\ store = None
    /\ client = [r \in Request |-> [pc |-> "new", index |-> 0, peer |-> 1,
                                    successCount |-> 1, result |-> ""]]
    /\ heart = [pc |-> "loop", peer |-> 1]
    /\ calls = {}
    /\ lost = 0 /\ snapshots = 0

-----------------------------------------------------------------------------
(* handleClientCommand.                                                    *)

\* The role is tested without the lock.
CheckLeader(r) ==
    /\ client[r].pc = "new"
    /\ client' = [client EXCEPT ![r] =
          IF state[Leader] = "LEADER" THEN [@ EXCEPT !.pc = "append"]
          ELSE [@ EXCEPT !.pc = "done", !.result = "not leader"]]
    /\ UNCHANGED <<termVars, logVars, nextIndex, heart, calls, lost, snapshots>>

\* The entry gets the term and the index of the moment.
AppendEntry(r) ==
    /\ client[r].pc = "append" /\ LockFree(Leader)
    /\ LET newIndex == getLogSize(log[Leader], latestSnapshot[Leader])
       IN  /\ log' = [log EXCEPT ![Leader] = Append(@,
                        [term |-> currentTerm[Leader], index |-> newIndex,
                         command |-> r])]
           /\ client' = [client EXCEPT ![r].pc = "send", ![r].index = newIndex]
    /\ UNCHANGED <<termVars, latestSnapshot, commitIndex, lastApplied, store,
                   nextIndex, heart, calls, lost, snapshots>>

\* AppendEntries with everything from nextIndex to the new entry.
Replicate(r) ==
    /\ client[r].pc = "send" /\ client[r].peer <= Len(Peers)
    /\ Send(AppendEntriesCall(r, client[r].peer, client[r].index + 1))
    /\ client' = [client EXCEPT ![r].pc = "wait"]
    /\ UNCHANGED <<termVars, logVars, nextIndex, heart, lost, snapshots>>

\* The next peer's turn.
NextPeer(t) == [t EXCEPT !.pc = "send", !.peer = @ + 1]

\* Mutant: the step-down does not return from the handler.
ClientStepDownNoReturn(r, c) ==
    /\ c.replyTerm > currentTerm[Leader] /\ LockFree(Leader)
    /\ currentTerm' = [currentTerm EXCEPT ![Leader] = c.replyTerm]
    /\ state' = [state EXCEPT ![Leader] = "FOLLOWER"]
    /\ calls' = calls \ {c}
    /\ UNCHANGED <<runningHeartbeats, nextIndex, client>>

\* A reply with a newer term ends the leadership and the request; the
\* heartbeat thread is not told.
ClientStepDown(r, c) ==
    /\ c.replyTerm > currentTerm[Leader] /\ LockFree(Leader)
    /\ currentTerm' = [currentTerm EXCEPT ![Leader] = c.replyTerm]
    /\ state' = [state EXCEPT ![Leader] = "FOLLOWER"]
    /\ client' = [client EXCEPT ![r].pc = "done",
                                ![r].result = "leader step down"]
    /\ calls' = calls \ {c}
    /\ UNCHANGED <<runningHeartbeats, nextIndex>>

\* Mutant: nextIndex leaves one entry out.
ReplicateSucceedsTooFar(r, c) ==
    /\ c.replyTerm <= currentTerm[Leader] /\ c.success
    /\ nextIndex' = [nextIndex EXCEPT ![c.to] = client[r].index + 2]
    /\ client' = [client EXCEPT ![r] =
                    [NextPeer(client[r]) EXCEPT !.successCount = @ + 1]]
    /\ calls' = calls \ {c}
    /\ UNCHANGED <<currentTerm, state, runningHeartbeats>>

\* The peer counts as having everything up to the request's entry, whatever
\* the batch was.
ReplicateSucceeds(r, c) ==
    /\ c.replyTerm <= currentTerm[Leader] /\ c.success
    /\ nextIndex' = [nextIndex EXCEPT ![c.to] = client[r].index + 1]
    /\ client' = [client EXCEPT ![r] =
                    [NextPeer(client[r]) EXCEPT !.successCount = @ + 1]]
    /\ calls' = calls \ {c}
    /\ UNCHANGED <<currentTerm, state, runningHeartbeats>>

ReplicateFails(r, c) ==
    /\ c.replyTerm <= currentTerm[Leader] /\ ~c.success
    /\ nextIndex' = [nextIndex EXCEPT ![c.to] = Decrement(c.to)]
    /\ IF NeedsSnapshot(Decrement(c.to))
       THEN /\ calls' = (calls \ {c}) \cup {InstallSnapshotCall(r, c.to)}
            /\ UNCHANGED client
       ELSE /\ calls' = calls \ {c}
            /\ client' = [client EXCEPT ![r] = NextPeer(@)]
    /\ UNCHANGED <<currentTerm, state, runningHeartbeats>>

ReceiveAppendReply(r) ==
    /\ client[r].pc = "wait"
    /\ \E c \in Replied(r) :
        /\ c.rpc = "AppendEntries"
        /\ \/ ClientStepDown(r, c)
           \/ ReplicateSucceeds(r, c)
           \/ ReplicateFails(r, c)
    /\ UNCHANGED <<stuck, logVars, heart, lost, snapshots>>

\* nextIndex after the answer to a snapshot transfer.
SnapshotSent(c) ==
    IF c.success
    THEN [nextIndex EXCEPT ![c.to] = c.snapshot.lastIncludedIndex + 1]
    ELSE nextIndex

ReceiveSnapshotReply(r) ==
    /\ client[r].pc = "wait"
    /\ \E c \in Replied(r) :
        /\ c.rpc = "InstallSnapshot"
        /\ nextIndex' = SnapshotSent(c)
        /\ calls' = calls \ {c}
    /\ client' = [client EXCEPT ![r] = NextPeer(@)]
    /\ UNCHANGED <<termVars, logVars, heart, lost, snapshots>>

\* All peers asked.  The test is made without the lock.
Decide(r) ==
    /\ client[r].pc = "send" /\ client[r].peer > Len(Peers)
    /\ client' = [client EXCEPT ![r] =
          IF /\ getLogTerm(log[Leader], latestSnapshot[Leader], @.index)
                  = currentTerm[Leader]
             /\ @.successCount > Cardinality(Server) \div 2
          THEN [@ EXCEPT !.pc = "commit"]
          ELSE [@ EXCEPT !.pc = "done", !.result = "not committed"]]
    /\ UNCHANGED <<termVars, logVars, nextIndex, heart, calls, lost, snapshots>>

\* commitIndex may become smaller: a request with a later entry came first.
Commit(r) ==
    /\ client[r].pc = "commit" /\ LockFree(Leader)
    /\ commitIndex' = [commitIndex EXCEPT ![Leader] = client[r].index]
    /\ client' = [client EXCEPT ![r].pc = "apply"]
    /\ UNCHANGED <<termVars, log, latestSnapshot, lastApplied, store, nextIndex,
                   heart, calls, lost, snapshots>>

\* The same critical section: the new commitIndex is read meanwhile.
ApplyCommitted(r) ==
    /\ client[r].pc = "apply"
    /\ Apply(Leader, log[Leader], commitIndex[Leader])
    /\ client' = [client EXCEPT ![r].pc = "done",
          ![r].result = ResultOf(store, Applicable(Leader, log[Leader],
                                                   commitIndex[Leader]))]
    /\ UNCHANGED <<termVars, commitIndex, heart, calls, lost, snapshots>>

-----------------------------------------------------------------------------
(* send_heartbeats.                                                        *)

\* Head of the while loop.
HeartbeatRound ==
    /\ heart.pc = "loop"
    /\ heart' = IF runningHeartbeats /\ state[Leader] = "LEADER"
                THEN [pc |-> "send", peer |-> 1]
                ELSE [pc |-> "ended", peer |-> 1]
    /\ UNCHANGED <<termVars, logVars, nextIndex, client, calls, lost, snapshots>>

\* A heartbeat, with a batch of the entries the peer lacks, or the snapshot.
SendHeartbeat ==
    /\ heart.pc = "send" /\ heart.peer <= Len(Peers) /\ runningHeartbeats
    /\ LET i == heart.peer
           size == getLogSize(log[Leader], latestSnapshot[Leader])
           batchEnd == nextIndex[i] + MaxEntriesPerBatch
       IN  Send(IF NeedsSnapshot(nextIndex[i])
                THEN InstallSnapshotCall(Heart, i)
                ELSE AppendEntriesCall(Heart, i,
                        IF batchEnd < size THEN batchEnd ELSE size))
    /\ heart' = [heart EXCEPT !.pc = "wait"]
    /\ UNCHANGED <<termVars, logVars, nextIndex, client, lost, snapshots>>

EndHeartbeatRound ==
    /\ heart.pc = "send"
    /\ heart.peer > Len(Peers) \/ ~runningHeartbeats
    /\ heart' = [pc |-> "loop", peer |-> 1]
    /\ UNCHANGED <<termVars, logVars, nextIndex, client, calls, lost, snapshots>>

\* After a call: on to the next peer.
NextHeart == [heart EXCEPT !.pc = "send", !.peer = @ + 1]

\* A reply to a thread that was told to stop is not looked at.
HeartIgnores(c) ==
    /\ ~runningHeartbeats
    /\ heart' = [pc |-> "loop", peer |-> 1]
    /\ UNCHANGED <<currentTerm, state, runningHeartbeats, nextIndex>>

HeartStepDown(c) ==
    /\ runningHeartbeats /\ c.replyTerm > currentTerm[Leader]
    /\ LockFree(Leader)
    /\ currentTerm' = [currentTerm EXCEPT ![Leader] = c.replyTerm]
    /\ state' = [state EXCEPT ![Leader] = "FOLLOWER"]
    /\ runningHeartbeats' = FALSE
    /\ heart' = [pc |-> "ended", peer |-> 1]
    /\ UNCHANGED nextIndex

\* nextIndex is written from what it was when the message was built.
HeartUpdates(c) ==
    /\ runningHeartbeats /\ c.replyTerm <= currentTerm[Leader]
    /\ nextIndex' = [nextIndex EXCEPT ![c.to] =
          IF ~c.success THEN Decrement(c.to)
          ELSE IF c.entries = <<>> THEN @
          ELSE c.prevLogIndex + 1 + Len(c.entries)]
    /\ heart' = NextHeart
    /\ UNCHANGED <<currentTerm, state, runningHeartbeats>>

ReceiveHeartbeatReply ==
    /\ heart.pc = "wait"
    /\ \E c \in Replied(Heart) :
        /\ c.rpc = "AppendEntries"
        /\ calls' = calls \ {c}
        /\ HeartIgnores(c) \/ HeartStepDown(c) \/ HeartUpdates(c)
    /\ UNCHANGED <<stuck, logVars, client, lost, snapshots>>

HeartSnapshotReply ==
    /\ heart.pc = "wait"
    /\ \E c \in Replied(Heart) :
        /\ c.rpc = "InstallSnapshot"
        /\ nextIndex' = SnapshotSent(c)
        /\ calls' = calls \ {c}
    /\ heart' = NextHeart
    /\ UNCHANGED <<termVars, logVars, client, lost, snapshots>>

-----------------------------------------------------------------------------
(* The peers' handlers.                                                    *)

\* AppendEntries at Peers[c.to], under its lock.
RefuseOldTerm(c, s) ==
    /\ c.term < currentTerm[s]
    /\ Answer(c, FALSE)
    /\ UNCHANGED <<stuck, logVars, nextIndex>>

\* becomeFollower locks the mutex this handler already holds.
SelfDeadlock(c, s) ==
    /\ \/ c.term > currentTerm[s]
       \/ c.term = currentTerm[s] /\ state[s] = "CANDIDATE"
    /\ stuck' = [stuck EXCEPT ![s] = TRUE]
    /\ UNCHANGED <<calls, logVars, nextIndex>>

\* Mutant: a peer commits all it has.
FollowerCommitAll(lg, snap, leaderCommit) == getLogSize(lg, snap) - 1

\* The commit index a peer takes over, bounded by the end of its own log.
FollowerCommit(lg, snap, leaderCommit) ==
    LET lastIndex == getLogSize(lg, snap) - 1
    IN  IF leaderCommit < lastIndex THEN leaderCommit ELSE lastIndex

AcceptEntries(c, s) ==
    LET lg == AppendBatch(log[s], latestSnapshot[s], c.prevLogIndex, c.entries)
    IN  /\ c.term = currentTerm[s] /\ state[s] # "CANDIDATE"
        /\ PrevLogMatches(log[s], latestSnapshot[s],
                          c.prevLogIndex, c.prevLogTerm)
        /\ Answer(c, TRUE)
        /\ IF c.leaderCommit > commitIndex[s]
           THEN LET commit == FollowerCommit(lg, latestSnapshot[s],
                                             c.leaderCommit)
                IN  /\ commitIndex' = [commitIndex EXCEPT ![s] = commit]
                    /\ Apply(s, lg, commit)
           ELSE /\ log' = [log EXCEPT ![s] = lg]
                /\ UNCHANGED <<latestSnapshot, commitIndex, lastApplied, store,
                               nextIndex>>
        /\ UNCHANGED stuck

RejectEntries(c, s) ==
    /\ c.term = currentTerm[s] /\ state[s] # "CANDIDATE"
    /\ ~PrevLogMatches(log[s], latestSnapshot[s], c.prevLogIndex, c.prevLogTerm)
    /\ Answer(c, FALSE)
    /\ UNCHANGED <<stuck, logVars, nextIndex>>

HandleAppendEntries(c) ==
    LET s == Peers[c.to]
    IN  /\ c.rpc = "AppendEntries" /\ c.pc = "sent" /\ ~stuck[s]
        /\ \/ RefuseOldTerm(c, s)
           \/ SelfDeadlock(c, s)
           \/ AcceptEntries(c, s)
           \/ RejectEntries(c, s)
        /\ UNCHANGED <<currentTerm, state, runningHeartbeats, client, heart,
                       lost, snapshots>>

\* Mutant: the entries the snapshot covers stay in the vector.
HandleInstallSnapshotKeepsLog(c) ==
    LET s == Peers[c.to]
    IN  /\ c.rpc = "InstallSnapshot" /\ c.pc = "sent" /\ ~stuck[s]
        /\ Answer(c, TRUE)
        /\ store' = c.snapshot.kvState
        /\ lastApplied' = [lastApplied EXCEPT ![s] = c.snapshot.lastIncludedIndex]
        /\ commitIndex' = [commitIndex EXCEPT ![s] = c.snapshot.lastIncludedIndex]
        /\ latestSnapshot' = [latestSnapshot EXCEPT ![s] = c.snapshot]
        /\ UNCHANGED <<termVars, log, nextIndex, client, heart, lost, snapshots>>

\* InstallSnapshot: an older term is refused before any lock is taken; a newer
\* one is taken over, and the snapshot replaces the log, the indices and the
\* shared store whatever they were.
HandleInstallSnapshot(c) ==
    LET s == Peers[c.to]
    IN  /\ c.rpc = "InstallSnapshot" /\ c.pc = "sent"
        /\ IF c.term < currentTerm[s]
           THEN /\ Answer(c, FALSE)
                /\ UNCHANGED <<currentTerm, state, logVars>>
           ELSE /\ ~stuck[s]
                /\ Answer(c, TRUE)
                /\ currentTerm' = [currentTerm EXCEPT ![s] = c.term]
                /\ state' = [state EXCEPT ![s] =
                      IF c.term > currentTerm[s] THEN "FOLLOWER" ELSE @]
                /\ store' = c.snapshot.kvState
                /\ lastApplied' = [lastApplied EXCEPT
                                      ![s] = c.snapshot.lastIncludedIndex]
                /\ commitIndex' = [commitIndex EXCEPT
                                      ![s] = c.snapshot.lastIncludedIndex]
                /\ log' = [log EXCEPT ![s] = <<>>]
                /\ latestSnapshot' = [latestSnapshot EXCEPT ![s] = c.snapshot]
        /\ UNCHANGED <<runningHeartbeats, stuck, nextIndex, client, heart,
                       lost, snapshots>>

\* triggerSnapshot: an administrator's SNAPSHOT command at any node.
triggerSnapshot(s) ==
    /\ snapshots < MaxSnapshots
    /\ LockFree(s) /\ log[s] # <<>>
    /\ Compact(s, lastApplied[s], store, log[s])
    /\ snapshots' = snapshots + 1
    /\ UNCHANGED <<termVars, commitIndex, lastApplied, store, client, heart,
                   calls, lost>>

-----------------------------------------------------------------------------
(* What ends the tenure, and failures.                                     *)

\* A peer's election timer fires.
PeerStartsElection(s) ==
    /\ s \in Follower /\ ~stuck[s] /\ currentTerm[s] < MaxTerm
    /\ currentTerm' = [currentTerm EXCEPT ![s] = @ + 1]
    /\ state' = [state EXCEPT ![s] = "CANDIDATE"]
    /\ UNCHANGED <<runningHeartbeats, stuck, logVars, nextIndex, client, heart,
                   calls, lost, snapshots>>

\* A candidate's RequestVote reaches s: becomeFollower.
HearCandidate(s) ==
    /\ LockFree(s)
    /\ \E q \in Follower \ {s} :
        /\ state[q] = "CANDIDATE" /\ currentTerm[q] > currentTerm[s]
        /\ currentTerm' = [currentTerm EXCEPT ![s] = currentTerm[q]]
    /\ state' = [state EXCEPT ![s] = "FOLLOWER"]
    /\ runningHeartbeats' = (runningHeartbeats /\ s # Leader)
    /\ UNCHANGED <<stuck, logVars, nextIndex, client, heart, calls, lost,
                   snapshots>>

\* A candidate that a majority besides s has followed into its term.
Elected(q, s) ==
    /\ state[q] = "CANDIDATE"
    /\ Cardinality({t \in Server \ {s} :
                       /\ currentTerm[t] = currentTerm[q]
                       /\ t = q \/ state[t] = "FOLLOWER"})
           > Cardinality(Server) \div 2

\* Its first AppendEntries reaches s before s has heard of the term: as in
\* SelfDeadlock, also when s is the deposed leader.
HearNewLeader(s) ==
    /\ LockFree(s)
    /\ \E q \in Follower \ {s} :
        /\ Elected(q, s)
        /\ \/ currentTerm[q] > currentTerm[s]
           \/ currentTerm[q] = currentTerm[s] /\ state[s] = "CANDIDATE"
    /\ stuck' = [stuck EXCEPT ![s] = TRUE]
    /\ UNCHANGED <<currentTerm, state, runningHeartbeats, logVars, nextIndex,
                   client, heart, calls, lost, snapshots>>

\* sendRPC returns empty: the caller goes on to the next peer while the
\* request is dropped, or is handled later with nobody waiting.
CallTimesOut(c) ==
    /\ c.live
    /\ stuck[Peers[c.to]] \/ lost < MaxLost
    /\ lost' = IF stuck[Peers[c.to]] THEN lost ELSE lost + 1
    /\ \/ calls' = calls \ {c}
       \/ /\ c.pc = "sent" /\ ~stuck[Peers[c.to]]
          /\ calls' = (calls \ {c}) \cup {[c EXCEPT !.live = FALSE]}
    /\ IF c.by = Heart
       THEN /\ heart' = IF runningHeartbeats \/ c.rpc = "InstallSnapshot"
                        THEN NextHeart ELSE [pc |-> "loop", peer |-> 1]
            /\ UNCHANGED client
       ELSE /\ client[c.by].pc = "wait"
            /\ client' = [client EXCEPT ![c.by] = NextPeer(@)]
            /\ UNCHANGED heart
    /\ UNCHANGED <<termVars, logVars, nextIndex, snapshots>>

-----------------------------------------------------------------------------
ClientStep(r) ==
    \/ CheckLeader(r)
    \/ AppendEntry(r)
    \/ Replicate(r)
    \/ ReceiveAppendReply(r)
    \/ ReceiveSnapshotReply(r)
    \/ Decide(r)
    \/ Commit(r)
    \/ ApplyCommitted(r)

HeartStep ==
    \/ HeartbeatRound
    \/ SendHeartbeat
    \/ EndHeartbeatRound
    \/ ReceiveHeartbeatReply
    \/ HeartSnapshotReply

HandlerStep(c) == HandleAppendEntries(c) \/ HandleInstallSnapshot(c)

Next ==
    \/ \E r \in Request : ClientStep(r)
    \/ HeartStep
    \/ \E c \in calls : HandlerStep(c) \/ CallTimesOut(c)
    \/ \E s \in Server : \/ triggerSnapshot(s)
                         \/ PeerStartsElection(s)
                         \/ HearCandidate(s)
                         \/ HearNewLeader(s)

Spec == Init /\ [][Next]_vars

\* Every thread runs on, every call is handled or times out.
FairSpec ==
    /\ Spec
    /\ \A r \in Request : WF_vars(ClientStep(r))
    /\ WF_vars(HeartStep)
    /\ \A by \in Request \cup {Heart}, i \in Peer :
        /\ WF_vars(\E c \in calls : /\ c.by = by /\ c.to = i /\ c.live
                                    /\ HandlerStep(c))
        /\ WF_vars(\E c \in calls : /\ c.by = by /\ c.to = i
                                    /\ stuck[Peers[i]] /\ CallTimesOut(c))
-----------------------------------------------------------------------------
(* Properties.                                                             *)

Snapshot == [lastIncludedIndex : Nat, lastIncludedTerm : Nat,
             kvState : Command \cup {None}]
Result == {"", "OK", "key not found", "not leader", "leader step down",
           "not committed"} \cup Command

AppendEntriesMessage ==
    [rpc : {"AppendEntries"}, by : Request \cup {Heart}, to : Peer,
     live : BOOLEAN, pc : {"sent", "replied"}, term : Nat,
     prevLogIndex : Nat \cup {-1}, prevLogTerm : Nat, entries : Seq(Entry),
     leaderCommit : Nat, replyTerm : Nat, success : BOOLEAN]
InstallSnapshotMessage ==
    [rpc : {"InstallSnapshot"}, by : Request \cup {Heart}, to : Peer,
     live : BOOLEAN, pc : {"sent", "replied"}, term : Nat,
     snapshot : Snapshot, replyTerm : Nat, success : BOOLEAN]

\* The state of nodes, threads and messages is well formed; nextIndex, which
\* several threads write, never points beyond the end of the leader's log.  The
\* commit index of a peer becomes -1 when it accepts an empty batch before it
\* has any entry.
TypeOK ==
    /\ currentTerm \in [Server -> Nat]
    /\ state \in [Server -> {"FOLLOWER", "CANDIDATE", "LEADER"}]
    /\ log \in [Server -> Seq(Entry)]
    /\ latestSnapshot \in [Server -> Snapshot \cup {NoSnapshot}]
    /\ commitIndex \in [Server -> Nat \cup {-1}]
    /\ lastApplied \in [Server -> Nat]
    /\ nextIndex \in [Peer -> 0 .. getLogSize(log[Leader],
                                           latestSnapshot[Leader])]
    /\ runningHeartbeats \in BOOLEAN
    /\ stuck \in [Server -> BOOLEAN]
    /\ store \in Command \cup {None}
    /\ client \in [Request -> [pc : {"new", "append", "send", "wait",
                                     "commit", "apply", "done"},
                               index : Nat, peer : Nat \ {0},
                               successCount : Nat, result : Result]]
    /\ heart \in [pc : {"loop", "send", "wait", "ended"}, peer : Nat \ {0}]
    /\ calls \subseteq AppendEntriesMessage \cup InstallSnapshotMessage
    /\ lost \in 0 .. MaxLost
    /\ snapshots \in 0 .. MaxSnapshots

IsPrefixOf(l, m) == Len(l) <= Len(m) /\ \A i \in 1 .. Len(l) : l[i] = m[i]

\* Starting from equal logs and without snapshots, the log of every peer is a
\* prefix of the leader's, whatever is lost, late or handled twice.
PrefixOfLeader == \A s \in Server : IsPrefixOf(log[s], log[Leader])

\* A peer applies nothing that the leader has not applied before, except what a
\* request is just applying at the leader, which holds its lock.
PeersBehindLeader ==
    \A s \in Server :
        \/ lastApplied[s] <= lastApplied[Leader]
        \/ \E r \in Request : /\ client[r].pc = "apply"
                              /\ lastApplied[s] <= client[r].index

\* The entry s holds at a global index.
EntryAt(s, i) == log[s][i - baseIndex(latestSnapshot[s]) + 1]
Holds(s, i) == i \in baseIndex(latestSnapshot[s]) ..
                     getLogSize(log[s], latestSnapshot[s]) - 1

\* Every entry sits at the place its index says.
EntriesInPlaceAt(s) ==
    \A i \in 1 .. Len(log[s]) :
        log[s][i].index = baseIndex(latestSnapshot[s]) + i - 1
EntriesInPlace == \A s \in Server : EntriesInPlaceAt(s)

\* A batch that does not start where it says: a client thread found nextIndex
\* below the leader's vector and getLogEntries began with the first entry left.
Clamped(c) ==
    /\ c.rpc = "AppendEntries" /\ c.entries # <<>>
    /\ c.entries[1].index # c.prevLogIndex + 1

\* Appends, compaction and snapshots leave a node's entries at the place their
\* index says, but for a clamped batch.
InPlaceUnlessClamped ==
    [][\A s \in Server :
          EntriesInPlaceAt(s) =>
             \/ EntriesInPlaceAt(s)'
             \/ \E c \in calls \ calls' : Peers[c.to] = s /\ Clamped(c)]_vars

\* Two logs that agree on the term at an index agree up to that index.
LogMatching ==
    \A s, t \in Server : \A i \in 0 .. getLogSize(log[s], latestSnapshot[s]) :
        /\ Holds(s, i) /\ Holds(t, i)
        /\ EntryAt(s, i).term = EntryAt(t, i).term
        => \A j \in 0 .. i :
              Holds(s, j) /\ Holds(t, j) => EntryAt(s, j) = EntryAt(t, j)

\* What a node has applied is what the leader has at that index.
AppliedAgree ==
    \A s \in Server : \A i \in 1 .. lastApplied[s] :
        Holds(s, i) /\ Holds(Leader, i) => EntryAt(s, i) = EntryAt(Leader, i)

\* A request that was answered with success is on a majority of the nodes.
OnMajority(i) ==
    2 * Cardinality({s \in Server : \/ Holds(s, i)
                                    \/ i < baseIndex(latestSnapshot[s])})
        > Cardinality(Server)
CommittedOnMajority ==
    \A r \in Request : client[r].result = "OK" => OnMajority(client[r].index)

\* A write that was committed and answered is answered with its outcome.
WritesAnswered ==
    \A r \in Request :
        Op[r] = "PUT" /\ client[r].pc = "done" => client[r].result # ""

\* Readers see what the leader has applied: the store is the outcome of the
\* leader's log up to lastApplied.
StoreFollowsLeader ==
    (latestSnapshot[Leader] = NoSnapshot)
        => store = StoreAfter(None, SubSeq(log[Leader], 2,
                                           lastApplied[Leader] + 1))

\* Only a leader commits.
OnlyLeaderCommits ==
    [][commitIndex'[Leader] # commitIndex[Leader]
           => state[Leader] = "LEADER"]_vars

\* As long as the leader stays in office every peer gets the leader's whole log
\* and applies what the leader committed.
CaughtUp(s) ==
    /\ getLogSize(log[s], latestSnapshot[s])
         = getLogSize(log[Leader], latestSnapshot[Leader])
    /\ \A i \in 0 .. getLogSize(log[s], latestSnapshot[s]) :
          Holds(s, i) /\ Holds(Leader, i) => EntryAt(s, i) = EntryAt(Leader, i)
    /\ lastApplied[s] >= commitIndex[Leader]
PeersCatchUp ==
    \A s \in Follower : <>[](state[Leader] = "LEADER" => CaughtUp(s))

\* The request waits for the leader's mutex, which is lost.
Blocked(r) ==
    /\ stuck[Leader]
    /\ \/ client[r].pc \in {"append", "commit"}
       \/ \E c \in Replied(r) : /\ c.rpc = "AppendEntries"
                                /\ c.replyTerm > currentTerm[Leader]

\* Every request is answered, unless it needs the mutex of a leader that was
\* deposed by a call.
RequestsEnd == \A r \in Request : <>(client[r].pc = "done" \/ Blocked(r))
=============================================================================
