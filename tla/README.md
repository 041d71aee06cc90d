# A TLA+ model of the Raft key-value store

The program (`src/src/`) is a key-value store replicated with a hand-written
Raft. One process hosts three nodes (`raftAlgorithm`); each has its own RPC port,
metadata file and snapshot file, and **all of them share one `KVStore` with one
write-ahead log**. Clients reach the nodes through an interactive server that
sends `ClientRequest` RPCs.

These modules model the code's threads, locks and files rather than textbook
Raft. Where the code departs from Raft the model departs with it.

## 1. Inventory

| Component | State | Operations | Correct when |
|---|---|---|---|
| Raft log (`raft_node.cpp`, `rpc_server.cpp`) | `log` vector, `latestSnapshot` | `getLogTerm`, `getLogSize`, `getLogEntries`, `truncateLogSafe`; consistency check and append loop | an entry stays at its global index over compaction and appends |
| Leader election | `currentTerm`, `votedFor`, `state`, `leaderId`, timer thread, heartbeat thread | `election_timer`, `start_election`, RequestVote handler, `becomeFollower` | one leader per term; a leader's log is up to date; a term that is spoken of is on disk and files do not go back; a leader is found |
| Log replication | `nextIndex`, `commitIndex`, `lastApplied`, client handler threads | `handleClientCommand`, `send_heartbeats`, AppendEntries handler, `applyToStateMachine` | committed entries are on a majority; peers follow the leader; requests end |
| Snapshots | `latestSnapshot`, snapshot files, `snapshotBuffer` | compaction at the threshold, `triggerSnapshot`, the chunked transfer, InstallSnapshot handler | what is installed is one whole snapshot; compaction and transfer change no entry's index and lose nothing that is on disk |
| Store, WAL, recovery | `mp`, `walfile.wal`, `lastIndex` | `put`, `remove`, `get`, `appendEntry`, `truncateUpTo`, constructor, `RaftNode::start` | a crash loses no completed write |
| Node metadata | one JSON file per node | `persistMetadata`, `loadMetadata` | a restart remembers term, vote, log and answered requests |
| Client sessions | `clientRequestCounter`, `clientLastRequest`, `clientResultCache`, the locals of `sendClientRequest` | numbering, retries and redirects, the ClientRequest handler, dedupe in `handleClientCommand` | OK means executed, and kept; a retry is executed once; every request returns |
| Shutdown | stop flags, condition variable, thread handles | `election_timer`'s waits, `shutdownNode`, the end of `raftAlgorithm` | all threads end and are joined |
| Interactive server | accept loop, client threads, `shutdownServer` | `start_server`, EXIT, EXIT-RAFT, EXIT-SERVER | the accept loop ends when told to |
| RPC transport | sockets | `sendRPC`, `startRaftRPCServer`, JSON, base64 | a call is answered or times out |
| Command parsing, status, metrics, logger | history, counters | parsing, printing | (no protocol state) |

**How they interact.** The timer thread of a node calls RequestVote on its peers
one after the other; each call is handled by a detached thread of the peer. A
winner starts a heartbeat thread. A `ClientRequest` is handled by a thread of its
own which appends, calls AppendEntries (or InstallSnapshot) on the peers in turn,
counts, commits and applies; the shell behind it numbers the command lines of a
client and goes from node to node until one of them says OK. Threads of a node share its fields, partly under
`node->mtx` and partly without it. Every node applies to the same store.

**What is hard.** The RequestVote handler takes the lock only inside
`becomeFollower`, so test and vote are separate steps. The AppendEntries handler
holds the lock for all its work, and locks it again when it has to step down:
that thread, and the node's mutex, are lost. `nextIndex` is read before a call
and written after it by several threads. `sendRPC` gives up after a second while
the handler may still run, and the client tries again. A snapshot arrives in
chunks, each an RPC of its own, in a buffer every sender shares. The process may
die between any two writes to files. The timer of a leader sleeps on a condition
variable that only some of the threads that depose it notify, and the shutdown
joins threads that may be joining others.
`PROJECT.json` lists these hazards at their lines with the properties aimed at
them.

## 2. Modules

```
RaftLog  <-- Election     <-- MCElection, ElectionProofs <-- ElectionSafetyProofs
   ^-------- Replication  <-- MCReplication, ReplicationProofs <-- LogMatchingProofs
   ^-------- Transfer     <-- MCTransfer, TransferProofs
   ^-------- MCRaftLog
Session    <-- MCSession, SessionProofs
Lifecycle  <-- MCLifecycle, LifecycleProofs
KVMap  (abstract)  <== refined by ==  KVStore <-- MCKVStore, KVStoreProofs
```

`RaftLog` holds pure operators. A null `latestSnapshot` is a snapshot with
`lastIncludedIndex = -1`, as the code computes with it. The append loop is given
in closed form (`PushMissing`), which a run compares with the loop.

`Election` has one action per step between two points where a thread can be
interrupted. `timer[s]` and `heart[s]` are the program counters and locals of the
timer and heartbeat threads; a record in `calls` is an RPC together with its
handler thread. Who changes term or vote writes the metadata file in a step of
its own (`SaveCandidacy`, `SaveTerm`, `SaveVote`, `SaveLeaderStepDown` without the
lock, `SaveCandidateStepDown` with it), so the process may die in between.
`CheckTerm`, `becomeFollower`, `SaveTerm`, `DecideVote`, `GrantVote`, `SaveVote`
and `ReplyVote` are the unlocked pieces of the RequestVote handler;
`HandleHeartbeat` is the AppendEntries handler, one step because it holds the
lock, with `stuck[s]` set where it deadlocks. `CallTimesOut` is `sendRPC`
returning empty, with the request dropped or still being handled;
`CrashAndRestart` reloads every node from its metadata file.

`Replication` is the tenure of one leader. `client[r]` is the thread of a request
(`CheckLeader`, `AppendEntry`, `Replicate`, the replies, `Decide`, `Commit`,
`ApplyCommitted`); `heart` is the heartbeat thread; `HandleAppendEntries` and
`HandleInstallSnapshot` are the peers' handlers. `Commit` sets `commitIndex`,
which the builders of messages read without the lock, and `ApplyCommitted` is the
rest of that critical section: the apply loop, the threshold snapshot and the
adjustment of `nextIndex`. `LockFree` keeps other threads that need the leader's
mutex out meanwhile, and for ever when it is lost. `PeerStartsElection`,
`HearCandidate` and `HearNewLeader` are what ends a tenure, the last by a
self-deadlock, of the deposed leader too; its threads go on as far as they need no
lock.

`Transfer` is how one follower is brought up to date, with its files. A member of
`Sender` is the heartbeat or a client thread of a node that may lead;
`transfer[s]` is the snapshot it sends, the part it is at and the term its leader
began it in (a node that is elected again is LEADER before it joins the thread that
still sends the snapshot of its last term, and that loop tests no flag), and a member of
`handlers` is an RPC to the follower with its handler thread. `ReceiveChunk`,
`SaveSnapshot`, `Install` and `Persist` are the steps of the InstallSnapshot
handler, of which only `Install` holds the lock; `ReceiveEntries`,
`PersistAndApply`, `SaveSnapshot`, `Truncate` and `Persist` are those of the
AppendEntries handler, which holds it throughout and is split only where the
process can die between two writes. `metadata` and `snapFile` are the two files,
`Torn` what is left of one that was being written. `Restart` is `loadMetadata`
and `RaftNode::start`. `torn`, `astray`, `stale` and `compacted` record what the
properties make an exception for; no step depends on them.

`Session` is a client's request from the command line to its answer.
`session[c]` are the locals of `sendClientRequest`, a member of `handlers` is a
ClientRequest handler, awaited or left behind by a timeout; its steps are those
of `handleClientCommand` (`CheckCommand` with the result cache, `AppendEntry`,
`Replicate`, `StepDown`, `Commit`, `PersistAndReply`). Below them the cluster is
in outline: an election is one step by a majority whose logs are no newer, and a
leader's replication reaches a majority in one step or fails. The role is tested
once (`CheckCommand`), so the handler of a node that has been deposed since sends
on under the term it was told: `ReplicateDeposed` is one round of its calls, to any
peers of that term and from any `nextIndex`, which append, skip or refuse as the
AppendEntries handler does. `executed` has what handlers apply, at which node and in
which life of the process. The composition is of sessions, roles, logs, files and
restarts; the modules above look into the steps it takes as one.

`Lifecycle` is the threads of the process from start to exit: per node the timer
(`timer[n]`, with `notified[n]` for its condition variable), heartbeat and RPC
server threads, the Raft thread (`raft`) that takes them down one phase and one
node at a time, and the accept loop with its client threads.

`KVStore` is the map, the WAL file, a snapshot file and a restart. `put` and
`remove` write the record first (`appendEntry`) and the map second
(`UpdateMap`); a crash can fall between. Texts are sequences of characters,
because the record format `key=value` is split at the first `=`. Replay
(`Replay`) and truncation (`Newer`) are given in closed form, which a run
compares with the loops of the code.
`KVMap` is the abstract durable map it is meant to implement; it may withdraw its
promise, which `KVStore` does with the first snapshot.

### Abstractions

- Election: logs are constants, time is left out (a timer may fire whenever its
  node is not leader), and the order in which peers are asked is arbitrary,
  which includes the code's.
- Replication: one key; the first leader's tenure only; no restart. Of the next
  leader only the vote requests and the first AppendEntries are modelled, not the
  entries it sends. A peer's commit and its apply loop are one step: both are under
  its lock and what they set is read by nobody else. Building a message is one step, so an `AppendEntries` is a consistent picture of the
  leader's fields; torn reads of vectors without a lock are not modelled.
- `persistMetadata` is a step of its own in Election, which writes the values of
  that moment; it is atomic with the step that calls it in Session; in Transfer a
  crash may tear the file. Two threads that write it at the same time are not
  modelled.
- A snapshot transfer is one message in Replication and a chunk is one in
  Transfer, where a chunk is known by its owner, its snapshot and its number;
  the branch that halves the chunk size is left out, since 512 bytes in base64
  never exceed its limit. The 8 KiB receive buffer is not modelled. One snapshot
  file stands for the nodes' files in `KVStore`.
- Transfer: the nodes other than the follower have the same entries throughout
  and elect one another in one step.
- Session: the store is left out (a GET or DELETE may find its key or not), and
  a node hears of a new term by a vote request before the leader's heartbeat
  reaches it; the other order is the self-deadlock of Election. What a follower
  applies when a leader tells it the commit index moves its `lastApplied` and is not
  counted in `executed`, which is what client handlers apply; that all nodes apply
  to one store is in Replication. A majority that a leader counts has the
  entry; batches that are skipped and counted (`false_majority`) are Replication's,
  except those of a deposed leader, whose peers skip here too. A deposed node that
  is a candidate and not yet elected does not lead, and its calls are not in the
  outline.
- Lifecycle: who wins an election is left open, and an RPC handler may step a
  node down or get stuck at any time before the node is told to stop.
- Left out: `matchIndex` (written and never read), `receivingSnapshot` (never
  set), the tests of `shutdownRequested` inside `handleClientCommand`, metrics
  and logging.
- `Overlap = FALSE` restricts a run to behaviours in which one RPC exchange
  takes place at a time. The code does not enforce it; it separates what the
  protocol guarantees from what the missing locks break.

## 3. Runs

All bounds are constants named in the modules: `MaxElections`, `MaxDisturbed`,
`MaxLost`, `MaxCrashes`, `MaxDisturbances`, `MaxTerm`, `MaxSnapshots`,
`MaxIndex`, `MaxLines`, `Budgets`. Deadlock checking is off
because every bounded instance ends when its bounds are used up.

| Run | Instance | Shows |
|---|---|---|
| `election_serial` | 3 nodes, fair, no overlap; 3 elections, or 2 with 1 lost call and 1 restart | `ElectionSafety`, `ToldTermsSaved`, `TermsNeverDecrease`, `ElectionsEnd`, `SettlesUndisturbed` |
| `election_race` | 3 nodes with different logs, 2 overlapping elections | `TypeOK` (no term nobody started), `LeaderUpToDate` |
| `replication_race` | 2 peers, equal logs of one entry, 2 requests, 1 lost or late call | `TypeOK` (`nextIndex` stays within the log), `PrefixOfLeader`, `PeersBehindLeader` |
| `replication_deposed` | 2 peers that lack one entry and all of them, a DELETE, 1 election, 1 administrator's snapshot, fair | `RequestsEnd`, `InPlaceUnlessClamped` |
| `replication_repair` | 2 peers, one with a conflicting last entry, 2 lost or late calls, snapshot at 3 entries, fair | `LogMatching`, `PushIsLoop` (closed form = loop), `PeersCatchUp` |
| `snapshot_transfer` | 2 nodes that may lead and a follower, 3 entries, snapshots of 3, 1 and 2 chunks, compaction at 2 entries; any 2 of two elections, a lost call, a leader's snapshot and a crash; fair | `TypeOK`, `WholeUnlessAstray`, `InPlaceUnlessTorn`, `KeptOnDisk`, `CatchesUp` |
| `client_session` | 3 nodes, 1 client that deletes, budgets of requests, elections, faults, rounds of a deposed leader's calls (strays) and restarts, fair | `TypeOK`, `WritesExecuted`, `AcknowledgedKept`, `RepeatsExplained`, `RequestsReturn` |
| `shutdown` | 1 node that may win, lose and be deposed without end, 2 clients, fair | `TypeOK`, `NothingLeftRunning`, `WakeupComing`, `RaftStops`, `ServerStops` |
| `wal_recovery` | 2 keys, 2 values (one with `=`), 3 records, 2 restarts, 2 snapshots | `TypeOK`, `NothingLostBefore`, `ReplayIsLoop`, `WalOrdered`, `IsDurableMap` |
| `two_leaders` | 3 nodes, 2 overlapping elections | `ElectionSafety` **violated** |
| `false_majority` | 2 peers, 2 requests, 2 lost calls | `CommittedOnMajority` **violated** |
| `snapshot_over_wal` | 1 snapshot | `NothingToLose` **violated** |

*Why the bounds are enough for what they are for.* Two candidates are the least
that can compete for a vote, and three elections let a node be elected, deposed
and elected again (the case in which `start_election` joins an old heartbeat
thread). Two requests and the heartbeat thread are three writers of one
`nextIndex`. A conflict one entry long takes one decrement and an erase; a lost
reply and a snapshot then force a transfer. A batch is clamped when a client thread
finds `nextIndex` below the leader's vector, which takes a peer without entries,
the heartbeat thread's decrements and an administrator's snapshot; with these
`EntriesInPlace` is violated, so `InPlaceUnlessClamped` is checked where its
exception happens. `RequestsEnd` excepts requests of a leader whose own mutex is
lost, for which two peers are needed (one that wins and one that votes). Two restarts show that a recovered
file is appended to and recovered again. Three chunks leave room for another
transfer, or an election of the sender, before, between and after them, and a snapshot with fewer chunks than
the one before it would show a buffer that is not cleared. A client needs one
retry to meet its own first attempt, a second node to be redirected to, and a
restart to reuse a number. `WritesExecuted` and `AcknowledgedKept` name the
elections, faults, strays and restarts they hold for; the budgets of the run are
such cases and one with a stray, and section 4 says what happens beyond them. `Lifecycle` has no bound at all: flags, phases and
threads are finitely many. `MaxEntriesPerBatch` keeps the code's
20, so no batch is cut in these instances; `SnapshotThreshold` is the code's
3000 (never reached) or 3.

*Fairness.* `FairSpec` of `Election`: the timer, heartbeat and handler threads
run on (the operating system schedules them); while there is no leader some
timer fires (every follower and candidate waits with a finite timeout, and a
node that is sent no heartbeats is not reset); a caller waiting for a stuck node
times out (`SO_RCVTIMEO`). No fairness is assumed for losses, crashes or for a
timer firing while there is a leader. `FairSpec` of `Replication` has the same
for request threads, the heartbeat thread, handlers and callers of a stuck peer.
In `Transfer` heartbeat rounds go on (every 200 ms) and a process that died is
started again; handlers get the mutex when it is free time and again, which is
strong fairness, and so is that a vote request arrives where heartbeats of other
handlers come in between. In `Session` awaited handlers run on, a leader gets
elected while there is none, and votes and heartbeats, which are repeated,
arrive; nothing is assumed of clients. In `Lifecycle` every thread that can take
a step does, as long as the process is alive; a sleeping timer can only when it
was notified.

`MCRaftLog.cfg` checks the operators alone on every input: vectors and batches of
up to 2 entries, 2 terms, snapshots at none/0/1 (`PushIsLoop`,
`AppendKeepsPlaces`, `TruncateKeepsView`). Larger instances, which take longer,
are made by changing a constant: `MaxDisturbances = 3` in
`MCTransfer_install.cfg` (1.1 million states), `Client <- TwoClients` in
`MCSession_requests.cfg` under `Spec` with `SYMMETRY Symmetry`
(290,000 states, the invariants only), `InitLog <- EmptyLog` and
`InitLeader <- NoNode` in the same file under `Spec` (400,000 states:
`RepeatsExplained` where the first entry of all is a client's), and
`Nodes <- TwoNodes` in `MCLifecycle_stop.cfg` for its invariants (8 million states
with one client).

## 4. Where code and documentation part

The three runs with a violation state a sentence of the repository's `readme.md`:

- `two_leaders`: two RequestVote handlers of a node both see `votedFor == -1`
  and both grant; two nodes are leader in one term.
- `false_majority`: a batch whose first entry is already there is skipped whole
  and answered with success, so an entry only the leader has counts as
  replicated and its client gets OK.
- `snapshot_over_wal`: `RaftNode::start` replaces the map recovered from the WAL
  by the snapshot, so writes after it are gone.

More of this kind was met while modelling. Each has a configuration that TLC
refutes, kept for whoever changes that code (`tlc -config <file> <module>`):

| Configuration | Property | What happens |
|---|---|---|
| `MCElection_lost_vote.cfg` | `LeaderSettles` | a node that missed a RequestVote deadlocks on its first heartbeat |
| `MCElection_serial.cfg` with `Overlap = TRUE` | `TermsNeverDecrease` | a RequestVote handler that compared before it locked stores a smaller term over a newer one (`raft_node.cpp:338`) |
| `MCElection_snapshot.cfg` | `LeaderUpToDate` | voters that compacted their log compare with an empty vector and elect a stale node |
| `MCReplication_first.cfg` | `WritesAnswered` | `lastApplied` starts at 0, so entry 0 is never applied and its client gets an empty result |
| `MCReplication_stale.cfg` | `StoreFollowsLeader` | a follower's later apply puts an old value back into the shared store |
| `MCReplication_nonleader.cfg` | `OnlyLeaderCommits` | a deposed leader commits and applies |
| `MCReplication_conflict.cfg` | `AppliedAgree` | two decrements for one mismatch make the peer skip the batch and apply its conflicting entry |
| `MCKVStore_eq_key.cfg` | `NothingToLose` | a key containing `=` is recovered as another key |
| `MCTransfer_astray.cfg` | `SnapshotWhole` | a deposed leader sends the rest of its snapshot under its successor's term; the follower installs a mixture; so it does when the leader is elected again and its old thread goes on under its own new term (`MaxElections = 3`); so it does, with a hole, when the heartbeat and a client thread of one leader send at the same time (`Sender <- BothThreads`) |
| `MCTransfer_late.cfg`, `MCTransfer_late_done.cfg` | `SnapshotWhole`, `KeptOnDisk` | a chunk handled after its caller gave up spoils the next transfer, or clears a log that has grown since |
| `MCTransfer_older.cfg` | `SnapshotsAdvance` | after a lost reply an older snapshot of the leader replaces the follower's own |
| `MCTransfer_torn.cfg` | `EntriesInPlace` | a crash between snapshot file and metadata file shifts every index |
| `MCTransfer_broken.cfg` | `RestartPossible` | a torn file makes every start fail |
| `MCSession_twice.cfg` | `AtMostOnce` | a retry that meets its first attempt still replicating, or a new leader, is executed again |
| `MCSession_stale.cfg` | `OwnWritesExecuted` | after a restart a new request is answered from the reloaded cache and never executed |
| `MCSession_unlogged.cfg` | `AcknowledgedInLog` | an OK from the cache, given before the entry is on disk |
| `MCSession_deposed.cfg` | `AnsweredExecuted` | one election and two clients: a deposed leader's handler finds, at its index, the entry of another request that the new leader put there, of the term that is now current, and answers OK for a write that was never executed; with `AcknowledgedInLog` instead, it appends under its successor's term, a peer takes or skips the batch, and the acknowledged entry is not in the newest leader's log. Over two elections (`Budget(2, 2, 0, 0, 0)`) the first happens without such calls too |
| `MCSession_error.cfg` | `ErrorsNotExecuted` | a client whose entry another thread applied gets an empty result, an error |
| `MCSession_get.cfg` | `ReadsExecuted` | the text of an error reaches the client as the value of a GET |
| `MCLifecycle_lost_wakeup.cfg` | `NoLostWakeup` | a leader deposed by a client thread leaves its timer asleep |
| `MCLifecycle_stuck.cfg` | `RaftStopsAnyway` | a mutex locked twice hangs the shutdown |
| `MCLifecycle_no_leader.cfg` | `NeverAborts` | without a leader in ten seconds the process ends with joinable threads |

## 5. Proofs

TLAPS checks these for every value of the constants, from the modules' named
assumptions only (`ServerAssumption`, `LogAssumption`, `BoundAssumption`,
`TextAssumption`, ...).

- `ElectionProofs!TypeCorrect`: `Spec => []TypeOK`. It is more than typing, as
  every term in a node, file, thread or message must be one that an election
  started. One lemma per action.
- `ElectionProofs!LeaderIsUpToDate`: without snapshots, `Spec =>
  []LeaderUpToDate`. The invariant alone is not inductive: a leader is made
  from votes counted earlier, and votes come from replies that were decided
  earlier still. `VotesEarned` adds that a call carries its candidate's true
  last index and term, that a handler which grants (or has granted) found the
  voter's log behind the candidate's, that the votes a timer thread has
  collected are of such voters, and that a thread about to become leader has a
  majority. Nothing in it mentions terms, which is why it survives the
  unlocked vote and a term that regresses.
- `KVStoreProofs!NothingIsLost` and `ImplementsDurableMap`: with keys free of
  `=`, in every behaviour up to its first snapshot the map is what a restart
  would rebuild, and the store refines `KVMap`. `UntilSnapshot` is the inductive
  invariant and `FileAhead` its core: in the middle
  of an operation the replay of the file is the map *with that operation done*.
  The argument rests on `RecordReadBack` (what is written is read back) and
  `ReplayAppend` (one more record changes the replay at one key).

- `KVStoreProofs!RecordsStayOrdered`: `WalOrdered` for all texts, over truncations
  at any index and restarts. `WalInv` adds only types; the step that needs an
  argument is that what is after an index, in a file in order, is a suffix of it.
  `KVStoreProofs!TypeCorrect` (keys free of `=`) goes over snapshots too. Its
  invariant `StoreInv` says that every record was written by a put or a remove,
  without which the type of a replayed map does not follow.
- `ElectionSafetyProofs!AtMostOneLeader`, `TermsOnlyGrow` and `ToldTermsOnDisk`:
  if exchanges do not overlap (`~Overlap`; the run `two_leaders` shows that it is
  needed) no term has two leaders, no file goes back to an older term, and a node
  does so only when the process dies between raising its term and saving it, a
  term nobody has been told. All this over any losses and restarts. A node that
  dies in such a window forgets its vote, so the invariant `SerialInv` follows
  the files, not the memory: the shape of one exchange at a time (`OneAtATime`,
  `HeartbeatsSerial`); a file is behind its node just while a thread has a newer
  term or a first vote to save (`FilesFollow`), and what a handler or candidate
  has read without the lock, or counted, still holds (`VotesFresh`); and for
  every leader ever elected the files of a majority rule out a vote for another
  in its term (`MajoritiesHold`). Two majorities have a node in common.
- `ReplicationProofs!TypeCorrect` and `PeersStayBehind`: for every cluster, all
  initial logs, thresholds and bounds, snapshots, deposed leaders and lost
  mutexes included. A peer may apply an index before the leader does, because
  messages are built from a `commitIndex` whose apply loop has not run; the second
  theorem says that a request is then applying that index. `nextIndex` is written
  from replies and `lastApplied` from messages, so neither statement is inductive:
  `RepInv` adds that a message describes no more than the leader has and commits no
  more than it has committed or applied (`LeaderCommitted`), that what is committed
  and not applied is being applied by a request (`BeingApplied`), that the leader has
  applied what its snapshot covers, and that a request in progress has its entry.
- `LogMatchingProofs!LogsMatch`, `EntriesStayInPlace` and `PeersHoldPrefix`, from
  `MatchingStart`: initial logs that match and are in place, beyond the leader's
  end only entries of older terms (what Raft leaves a new leader, and the logs of
  the runs), no administrator's snapshot and fewer requests than fill the
  threshold. `MatchInv` says what a late batch will do to a log: every message
  is a part of the leader's log, the leader's log only grows, and a peer's log
  is either untouched or a prefix of the leader's. `LogMatching` alone does not
  exclude that a batch skipped because of its first entry hides a difference
  behind it. With snapshots they are only checked: `LogMatching` by
  `replication_repair`, and places by `replication_deposed`, where a batch clamped
  to the leader's compacted vector is stored elsewhere than its indices say and
  `InPlaceUnlessClamped` says that nothing else moves an entry.
- `SessionProofs!TypeCorrect`, and `AnsweredWritesExecuted`: as long as at most one
  leader is replaced and no deposed leader's calls reach peers (`OneElection`), over
  any number of nodes, clients, restarts, timeouts, redirects and retries, an OK
  stands for an execution. The result comes from a handler, a cache or a file, so
  `SessionInv` follows it back (`Explained`) to the commit. There the entry must be
  the handler's own (`PendingAtNewest`, which needs that it is on a majority), or the
  handler is one of a replaced leader and finds an entry older than the new term
  (`PendingAtOld`). `Roles` says that the replaced leader is unique. That a stray
  needs a deposed leader (`StraysDeposed`) keeps the half with restarts apart.
  `MCSession_deposed.cfg` shows that both conditions are needed.
- `SessionProofs!AcknowledgedWritesKept`. A committed prefix is followed as one
  thing (`Lasts`): the newest leader has it, and before a leader is replaced so has
  a majority and every log or file that is up to date with it, which is what a
  voter compares. The shared property of all steps but elections and restarts is
  `Moved`: leaders' logs only grow, other logs become parts of the newest leader's,
  files take what their nodes have. Over an election the prefix comes from the voter
  that holds it; over a restart only if the files of the majority have it, the
  leader's own too, which it writes last (`HandlersLast` is about all files but that
  one). So the half with restarts also needs that no answer comes from the cache
  before: undisturbed, a client has one handler (`Alone`), its request is in no log
  or failed at the newest leader (`Checked`), and numbers not given out are nowhere
  (`Numbered`). An OK from the cache is then one of an earlier process, for a request
  that no log has.
- `SessionProofs!RepeatedExecutionsExplained`, for any number of elections, rounds of
  a deposed leader's calls, lost calls and restarts and for every initial log. Its
  four parts:
  *How many entries of a request* are applied, counts what is in `executed`, but what
  decides it is how often the request was and can still be appended. So the
  invariant bounds a sum of three (`Bounded`): the request's entries, applied or in
  any log or file (`Copies`); the handlers that may still append it, or make its
  client's cache forget it, although nobody waits for them (`Appends`); and the
  leaders at which a session that asks for it finds neither a cached answer nor an
  entry of its own (`Open`, which has a place for the request before it is given
  out, and for the leader to come). A timeout leaves one more handler behind, a failed
  replication one more entry, an election against a leader one more place to ask at,
  and so does a round of a deposed leader's calls, which may take a waiting handler's
  entry out of its node's log; each is counted in `used`. Every other step only
  moves one of the three to another: an append turns a handler, or a leader that was
  open, into an entry. For that a client waits for one handler at most
  (`OneAwaited`), and requests that were not given out have no entry (`NotYet`).
  *How many apply the same entry*: nodes that applied it in some life of the process
  were leaders or deposed since, and a new one takes an election or a restart
  (`TenuresBounded`). *One entry an index* at a node until a restart: it is applied
  only above `lastApplied`, which only grows (`OnceALife`). *Undisturbed*, answers are
  followed back to the commit (`CalmInv`): a leader has executed all it counts as
  applied, from index 1 on, and the cache knows no request that was not. The entry at
  index 0 is the exception it names (`FirstOfAll`); `MCReplication_first.cfg` shows
  what its client sees.
- `LifecycleProofs!TypeCorrect`, `NothingKeepsRunning` and `WakeupIsComing`, for
  any number of nodes and clients. `InOrder` says what the Raft thread has done in
  each phase to the nodes it has been at: heartbeat threads are joined after the
  timers, which alone start them, have ended. `Wakeup` adds that a leader's heartbeat
  flag is set unless it is being joined or stopped (`LeaderBeats`), since the flag
  is what tells the step-downs that notify from the one that does not.

- `TransferProofs!TypeCorrect`, with no hypothesis: a follower's vector never gets
  longer than the leaders' log, which needs that a batch carries entries of that
  log from where its `prevLogIndex` says, and that a chunk on its way is one of the
  snapshot its sender is at (`CallsWell`).
- `TransferProofs!SnapshotsStayWhole` and `EntriesStayInPlace`, when the handlers of
  a follower do not run side by side (`~Overlap`; `MCTransfer_late.cfg` shows that it
  is needed) and a leader sends from one heartbeat thread (`OneHeartbeatEach`). In
  `WholeInv`, a chunk on its way that is not the first finds exactly what came before
  it in the buffer, or it is of an older term and refused (`Follows`); the handler's
  term check is what keeps two transfers apart, so a transfer may not go on under
  another term than its leader began it in, be it a successor's or its own next one
  (`astray`), and no two leaders begin one in the same term (`LeadersApart`,
  `TransfersApart`). In `PlaceInv`, a batch on its way
  starts where its `prevLogIndex` says or past its leader's snapshot (`Straight`; a
  client's thread sends batches that are not, `MCReplication_first.cfg`), and the
  snapshot file is that of the follower except while a handler replaces it, so that
  a restart finds a metadata file that fits it (`FilesFollow`). What is appended has
  to follow what is applied (`Applied`), since the handler compacts by `lastApplied`.
- `TransferProofs!EntriesStayOnDisk`, under the same hypotheses. A snapshot clears
  the follower's log, so whatever is on its disk must end before the snapshot does
  (`SnapshotsAhead`), and a leader may only choose to send one if that holds: what
  protects the follower is that `nextIndex` does not fall below its entries
  (`LeadersAhead`). Answers move `nextIndex`, so the invariant `KeptInv` follows a
  batch from its sending to its answer: it starts no earlier than the follower's
  snapshot ends and carries everything from there on, hence only a follower that has
  nothing there rejects it (`BatchesAhead`). That the calls of one term are one
  leader's, whatever it has been elected to since (`CallTerms`), keeps those of two
  leaders apart. The attempt to prove
  `KeptOnDisk` as it stood showed a case that it left out and the run's single
  election never reached: `start_election` makes a node a leader again, with a fresh
  `nextIndex`, before it joins the heartbeat thread of its last term, and the failed
  answer to that thread's AppendEntries is subtracted from the new `nextIndex`
  (`stale`). The property now names the exception, and the run has two elections.

*Only model-checked:* everything about liveness and fairness (`ElectionsEnd`,
`SettlesUndisturbed`, `RequestsEnd`, `PeersCatchUp`, `CatchesUp`,
`RequestsReturn`, `RaftStops`, `ServerStops`); that `PushMissing`, `Replay` and
`Newer` equal the loops of the code (induction over sequences); log matching with
snapshots.

## 6. Plan

Done: `RaftLog`, `Election`, `Replication`, `KVStore`, `Session`, `Lifecycle`
and `Transfer`, in that order, with the proofs above.

Left: the theorems of `LogMatchingProofs` with snapshots. `EntriesInPlace` fails
there as it stands (a batch clamped to a compacted vector), so they need a condition
on who compacts when, as `Straight` is in `Transfer`.

## 7. Not modelled

- Message sizes and the receive buffer: a model of lengths would have to invent
  the sizes of keys and values.
- A WAL record torn by a crash, and two threads rewriting one metadata file at
  the same time: both leave bytes whose parse is not determined by the code here
  but by the JSON library and the file system.
- Command parsing, aliases, history, help and the read-only commands of the
  shell, status and metrics RPCs, the logger: text and counters that nothing in
  the protocol reads.
- Sockets, JSON and base64: I/O and encoding.
