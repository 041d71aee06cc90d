------------------------------ MODULE Election ------------------------------
(***************************************************************************)
(* Leader election between the nodes of a cluster, at the granularity of   *)
(* the code's threads and locks.  Per node there are                       *)
(*   - the election timer thread (election_timer, start_election),         *)
(*   - the heartbeat thread of a leader (send_heartbeats),                 *)
(*   - one detached thread per received RPC (handle_node_client).          *)
(* A RequestVote handler takes node->mtx only inside becomeFollower, so    *)
(* its reads and writes interleave with every other thread.  Who changes   *)
(* term or vote writes the metadata file in a later step, mostly unlocked. *)
(* An AppendEntries handler holds node->mtx from start to end; when it has *)
(* to step down it calls becomeFollower, which locks the same mutex again: *)
(* that thread never returns and the mutex is never released.              *)
(*                                                                         *)
(* Logs do not change here: Log and Snap are the logs the nodes hold when  *)
(* the elections take place.  Time is abstracted: a timer may fire         *)
(* whenever its node is not the leader.                                    *)
(***************************************************************************)
EXTENDS RaftLog, FiniteSets

CONSTANTS
    Server,        \* the nodes
    NoNode,        \* the code's -1 in votedFor and leaderId
    Log,           \* Log[s]: the vector of entries s holds
    Snap,          \* Snap[s]: latestSnapshot of s
    StartTerm,     \* the term in the nodes' metadata files at the start
    Overlap,       \* may an RPC exchange start while another one is running?
    MaxElections,  \* bound: elections started
    MaxLost,       \* bound: RPCs that time out at a live node
    MaxCrashes,    \* bound: restarts of the process that hosts the nodes
    MaxDisturbed   \* bound: elections in a run with timeouts or restarts

ASSUME ServerAssumption == IsFiniteSet(Server) /\ NoNode \notin Server
ASSUME LogAssumption ==
    \A s \in Server :
        /\ Log[s] \in Seq([term : 0 .. StartTerm, index : Nat])
        /\ Snap[s].lastIncludedIndex \in Nat \cup {-1}
        /\ Snap[s].lastIncludedTerm \in 0 .. StartTerm
ASSUME OverlapAssumption == Overlap \in BOOLEAN
ASSUME BoundAssumption ==
    /\ StartTerm \in Nat
    /\ MaxElections \in Nat /\ MaxLost \in Nat /\ MaxCrashes \in Nat
    /\ MaxDisturbed \in 0 .. MaxElections

VARIABLES
    currentTerm, votedFor, state, leaderId,
    runningHeartbeats,
    stuck,         \* stuck[s]: a thread of s self-deadlocked holding s's mtx
    disk,          \* disk[s]: what persistMetadata last wrote
    timer,         \* timer[s]: program counter and locals of the timer thread
    heart,         \* heart[s]: the same for the heartbeat thread
    calls,         \* the RPCs in progress, one record per handler thread
    elections, lost, crashes,   \* how much of each bound is used
    elected        \* history: every <<term, node>> that became leader

nodeVars  == <<currentTerm, votedFor, state, leaderId, runningHeartbeats>>
boundVars == <<elections, lost, crashes>>
vars == <<nodeVars, stuck, disk, timer, heart, calls, boundVars, elected>>

Peers(s) == Server \ {s}

-----------------------------------------------------------------------------
(* Thread states.                                                          *)

\* Timer thread: asleep in election_timer; about to save its candidacy; in the
\* loop over the peers; in sendRPC; about to lock for stepping down; saving that
\* under the lock; about to lock for leadership; about to lock in reset_timeout;
\* waiting to join the previous heartbeat thread.
IdleTimer == [pc |-> "idle", todo |-> {}, peer |-> NoNode,
              granted |-> {}, term |-> 0]

\* Heartbeat thread: never started; at the head of the while loop; in the loop
\* over the peers; in sendRPC; about to lock for stepping down; about to save
\* that; ended and not yet joined.
NoHeart == [pc |-> "none", todo |-> {}, peer |-> NoNode, term |-> 0]
HeartAt(pc) == [NoHeart EXCEPT !.pc = pc]

\* An RPC in progress.  `live` says that the caller still waits for the reply;
\* sendRPC gives up after one second while the handler may still run.
RequestVoteCall(s, p) ==
    LET last == getLogSize(Log[s], Snap[s]) - 1
    IN  [rpc |-> "RequestVote", from |-> s, to |-> p, live |-> TRUE,
         term |-> currentTerm[s], lastLogIndex |-> last,
         lastLogTerm |-> getLogTerm(Log[s], Snap[s], last),
         election |-> elections,
         pc |-> "received", vote |-> FALSE, replyTerm |-> 0]

AppendEntriesCall(s, p) ==
    [rpc |-> "AppendEntries", from |-> s, to |-> p, live |-> TRUE,
     term |-> currentTerm[s], pc |-> "received", replyTerm |-> 0]

\* The call a thread of s to p waits for.
Awaited(rpc, s, p) ==
    {c \in calls : c.rpc = rpc /\ c.from = s /\ c.to = p /\ c.live}

\* A handler moves on; once nobody waits for its reply it just ends.
Advance(c, d) ==
    calls' = (calls \ {c}) \cup
             (IF d.pc = "replied" /\ ~c.live THEN {} ELSE {d})

\* Nothing is being exchanged: no handler is running (one that is stuck
\* behind its node's mutex no longer counts) and no thread waits for a reply.
Quiet ==
    /\ \A c \in calls : stuck[c.to]
    /\ \A s \in Server : timer[s].pc = "idle" \/ stuck[s]
    /\ \A s \in Server : heart[s].pc \in {"none", "loop", "peers", "ended"} \/ stuck[s]

MayBegin == Overlap \/ Quiet

\* s's mutex can be taken.
MutexFree(s) == ~stuck[s] /\ timer[s].pc # "savedown"

\* persistMetadata(node): term and vote of the moment go to the metadata file.
persistMetadata(s) ==
    disk' = [disk EXCEPT ![s] = [currentTerm |-> currentTerm[s],
                                 votedFor |-> votedFor[s]]]

\* Mutant: the step-down also counts the term up.
StepDownOffByOne(s, term) ==
    /\ currentTerm' = [currentTerm EXCEPT ![s] = term + 1]
    /\ state' = [state EXCEPT ![s] = "FOLLOWER"]
    /\ votedFor' = [votedFor EXCEPT ![s] = NoNode]

\* The assignments every step-down makes under the lock.
StepDown(s, term) ==
    /\ currentTerm' = [currentTerm EXCEPT ![s] = term]
    /\ state' = [state EXCEPT ![s] = "FOLLOWER"]
    /\ votedFor' = [votedFor EXCEPT ![s] = NoNode]

-----------------------------------------------------------------------------
Init ==
    /\ currentTerm = [s \in Server |-> StartTerm]
    /\ votedFor = [s \in Server |-> NoNode]
    /\ state = [s \in Server |-> "FOLLOWER"]
    /\ leaderId = [s \in Server |-> NoNode]
    /\ runningHeartbeats = [s \in Server |-> FALSE]
    /\ stuck = [s \in Server |-> FALSE]
    /\ disk = [s \in Server |-> [currentTerm |-> StartTerm, votedFor |-> NoNode]]
    /\ timer = [s \in Server |-> IdleTimer]
    /\ heart = [s \in Server |-> NoHeart]
    /\ calls = {}
    /\ elections = 0 /\ lost = 0 /\ crashes = 0
    /\ elected = {}

-----------------------------------------------------------------------------
(* The timer thread.                                                       *)

\* The timeout expires on a node that is not the leader: first locked block
\* of start_election.
StartElection(s) ==
    /\ timer[s].pc = "idle" /\ state[s] # "LEADER" /\ ~stuck[s]
    /\ MayBegin
    /\ elections < MaxElections
    /\ lost + crashes = 0 \/ elections < MaxDisturbed
    /\ elections' = elections + 1
    /\ state' = [state EXCEPT ![s] = "CANDIDATE"]
    /\ currentTerm' = [currentTerm EXCEPT ![s] = @ + 1]
    /\ votedFor' = [votedFor EXCEPT ![s] = s]
    /\ timer' = [timer EXCEPT ![s] = [IdleTimer EXCEPT !.pc = "save"]]
    /\ UNCHANGED <<leaderId, runningHeartbeats, stuck, disk, heart, calls,
                   lost, crashes, elected>>

\* Mutant: the candidacy is not persisted.
SaveCandidacySkipped(s) ==
    /\ timer[s].pc = "save"
    /\ timer' = [timer EXCEPT ![s].pc = "peers", ![s].todo = Peers(s)]
    /\ UNCHANGED <<nodeVars, stuck, disk, heart, calls, boundVars, elected>>

\* The lock is released before term and vote are written.
SaveCandidacy(s) ==
    /\ timer[s].pc = "save"
    /\ persistMetadata(s)
    /\ timer' = [timer EXCEPT ![s].pc = "peers", ![s].todo = Peers(s)]
    /\ UNCHANGED <<nodeVars, stuck, heart, calls, boundVars, elected>>

\* RequestVote to the next peer, built from the candidate's term as it is now.
AskVote(s, p) ==
    /\ timer[s].pc = "peers" /\ p \in timer[s].todo
    /\ calls' = calls \cup {RequestVoteCall(s, p)}
    /\ timer' = [timer EXCEPT ![s].pc = "waiting", ![s].peer = p,
                              ![s].todo = @ \ {p}]
    /\ UNCHANGED <<nodeVars, stuck, disk, heart, boundVars, elected>>

\* The vote a reply brings, if any.
VoteOf(c) == IF c.vote THEN {c.to} ELSE {}

\* A vote reply.  The term comparison is made without the lock.
ReceiveVote(s) ==
    /\ timer[s].pc = "waiting"
    /\ \E c \in Awaited("RequestVote", s, timer[s].peer) :
        /\ c.pc = "replied"
        /\ calls' = calls \ {c}
        /\ \/ /\ c.replyTerm > currentTerm[s]
              /\ timer' = [timer EXCEPT ![s].pc = "stepdown",
                                        ![s].term = c.replyTerm]
           \/ /\ c.replyTerm <= currentTerm[s]
              /\ timer' = [timer EXCEPT ![s].pc = "peers",
                                        ![s].granted = @ \cup VoteOf(c)]
    /\ UNCHANGED <<nodeVars, stuck, disk, heart, boundVars, elected>>

\* A peer answered with a newer term: the candidate becomes a follower.
CandidateStepDown(s) ==
    /\ timer[s].pc = "stepdown" /\ ~stuck[s]
    /\ StepDown(s, timer[s].term)
    /\ timer' = [timer EXCEPT ![s].pc = "savedown"]
    /\ UNCHANGED <<leaderId, runningHeartbeats, stuck, disk, heart, calls,
                   boundVars, elected>>

\* It saves that before it releases the lock.
SaveCandidateStepDown(s) ==
    /\ timer[s].pc = "savedown"
    /\ persistMetadata(s)
    /\ timer' = [timer EXCEPT ![s] = IdleTimer]
    /\ UNCHANGED <<nodeVars, stuck, heart, calls, boundVars, elected>>

\* All peers asked: count the votes, the candidate's own included.
CountVotes(s) ==
    /\ timer[s].pc = "peers" /\ timer[s].todo = {}
    /\ timer' = [timer EXCEPT ![s] =
          IF 1 + Cardinality(timer[s].granted) > Cardinality(Server) \div 2
          THEN [@ EXCEPT !.pc = "elected"] ELSE IdleTimer]
    /\ UNCHANGED <<nodeVars, stuck, disk, heart, calls, boundVars, elected>>

\* The locked block that makes the candidate leader.  It checks neither that
\* the node is still a candidate nor that the term is the one voted in.
BecomeLeader(s) ==
    /\ timer[s].pc = "elected" /\ ~stuck[s]
    /\ state' = [state EXCEPT ![s] = "LEADER"]
    /\ leaderId' = [leaderId EXCEPT ![s] = s]
    /\ runningHeartbeats' = [runningHeartbeats EXCEPT ![s] = TRUE]
    /\ timer' = [timer EXCEPT ![s].pc = "reset"]
    /\ elected' = elected \cup {<<currentTerm[s], s>>}
    /\ UNCHANGED <<currentTerm, votedFor, stuck, disk, heart, calls, boundVars>>

\* Mutant: the old heartbeat thread is joined without being told to stop.
ResetTimeoutNoStop(s) ==
    /\ timer[s].pc = "reset" /\ ~stuck[s]
    /\ timer' = [timer EXCEPT ![s].pc = "join"]
    /\ UNCHANGED <<nodeVars, stuck, disk, heart, calls, boundVars, elected>>

\* reset_timeout takes the lock; then a heartbeat thread left over from an
\* earlier leadership is told to stop, to be joined.
ResetTimeout(s) ==
    /\ timer[s].pc = "reset" /\ ~stuck[s]
    /\ runningHeartbeats' = [runningHeartbeats EXCEPT
                                ![s] = @ /\ heart[s].pc = "none"]
    /\ timer' = [timer EXCEPT ![s].pc = "join"]
    /\ UNCHANGED <<currentTerm, votedFor, state, leaderId, stuck, disk, heart,
                   calls, boundVars, elected>>

\* Mutant: runningHeartbeats is not set again after the join.
StartHeartbeatsStopped(s) ==
    /\ timer[s].pc = "join" /\ heart[s].pc \in {"none", "ended"}
    /\ heart' = [heart EXCEPT ![s].pc = "loop"]
    /\ persistMetadata(s)
    /\ timer' = [timer EXCEPT ![s] = IdleTimer]
    /\ UNCHANGED <<nodeVars, stuck, calls, boundVars, elected>>

\* The old thread is joined, runningHeartbeats set again, the new one started.
StartHeartbeats(s) ==
    /\ timer[s].pc = "join" /\ heart[s].pc \in {"none", "ended"}
    /\ runningHeartbeats' = [runningHeartbeats EXCEPT
                                ![s] = @ \/ heart[s].pc = "ended"]
    /\ heart' = [heart EXCEPT ![s].pc = "loop"]
    /\ persistMetadata(s)
    /\ timer' = [timer EXCEPT ![s] = IdleTimer]
    /\ UNCHANGED <<currentTerm, votedFor, state, leaderId, stuck, calls,
                   boundVars, elected>>

-----------------------------------------------------------------------------
(* The heartbeat thread.                                                   *)

\* Head of the while loop: another round over the peers, or the end.
HeartbeatRound(s) ==
    /\ heart[s].pc = "loop"
    /\ heart' = [heart EXCEPT ![s] =
          IF runningHeartbeats[s] /\ state[s] = "LEADER"
          THEN [HeartAt("peers") EXCEPT !.todo = Peers(s)]
          ELSE HeartAt("ended")]
    /\ UNCHANGED <<nodeVars, stuck, disk, timer, calls, boundVars, elected>>

\* One heartbeat; the loop over the peers is left when the thread was stopped
\* or no peer remains.
SendHeartbeat(s, p) ==
    /\ heart[s].pc = "peers" /\ p \in heart[s].todo
    /\ runningHeartbeats[s] /\ MayBegin
    /\ calls' = calls \cup {AppendEntriesCall(s, p)}
    /\ heart' = [heart EXCEPT ![s].pc = "waiting", ![s].peer = p,
                              ![s].todo = @ \ {p}]
    /\ UNCHANGED <<nodeVars, stuck, disk, timer, boundVars, elected>>

EndHeartbeatRound(s) ==
    /\ heart[s].pc = "peers"
    /\ heart[s].todo = {} \/ ~runningHeartbeats[s]
    /\ heart' = [heart EXCEPT ![s] = HeartAt("loop")]
    /\ UNCHANGED <<nodeVars, stuck, disk, timer, calls, boundVars, elected>>

\* A heartbeat reply.  A stopped thread ignores it and leaves the loop.
ReceiveHeartbeatReply(s) ==
    /\ heart[s].pc = "waiting"
    /\ \E c \in Awaited("AppendEntries", s, heart[s].peer) :
        /\ c.pc = "replied"
        /\ calls' = calls \ {c}
        /\ heart' = [heart EXCEPT ![s] =
              IF ~runningHeartbeats[s] THEN HeartAt("loop")
              ELSE IF c.replyTerm > currentTerm[s]
              THEN [@ EXCEPT !.pc = "stepdown", !.term = c.replyTerm]
              ELSE [@ EXCEPT !.pc = "peers"]]
    /\ UNCHANGED <<nodeVars, stuck, disk, timer, boundVars, elected>>

\* A peer answered with a newer term: the leader becomes a follower.
LeaderStepDown(s) ==
    /\ heart[s].pc = "stepdown" /\ MutexFree(s)
    /\ StepDown(s, heart[s].term)
    /\ runningHeartbeats' = [runningHeartbeats EXCEPT ![s] = FALSE]
    /\ heart' = [heart EXCEPT ![s].pc = "save"]
    /\ UNCHANGED <<leaderId, stuck, disk, timer, calls, boundVars, elected>>

\* It saves that without the lock, and its heartbeat thread ends.
SaveLeaderStepDown(s) ==
    /\ heart[s].pc = "save"
    /\ persistMetadata(s)
    /\ heart' = [heart EXCEPT ![s] = HeartAt("ended")]
    /\ UNCHANGED <<nodeVars, stuck, timer, calls, boundVars, elected>>

-----------------------------------------------------------------------------
(* The handler threads.                                                    *)

\* RequestVote, first test: refuse an older term, step down for a newer one.
CheckTerm(c) ==
    /\ c.rpc = "RequestVote" /\ c.pc = "received"
    /\ Advance(c, [c EXCEPT !.pc =
          IF c.term < currentTerm[c.to] THEN "reply"
          ELSE IF c.term > currentTerm[c.to] THEN "newterm" ELSE "decide"])
    /\ UNCHANGED <<nodeVars, stuck, disk, timer, heart, boundVars, elected>>

\* becomeFollower(term): the term tested before the lock is stored after it.
becomeFollower(c) ==
    /\ c.rpc = "RequestVote" /\ c.pc = "newterm" /\ MutexFree(c.to)
    /\ StepDown(c.to, c.term)
    /\ runningHeartbeats' = [runningHeartbeats EXCEPT ![c.to] = FALSE]
    /\ Advance(c, [c EXCEPT !.pc = "save"])
    /\ UNCHANGED <<leaderId, stuck, disk, timer, heart, boundVars, elected>>

\* Mutant: the new term is not persisted.
SaveTermSkipped(c) ==
    /\ c.rpc = "RequestVote" /\ c.pc = "save"
    /\ Advance(c, [c EXCEPT !.pc = "decide"])
    /\ UNCHANGED <<nodeVars, stuck, disk, timer, heart, boundVars, elected>>

\* It saves that after it has released the lock.
SaveTerm(c) ==
    /\ c.rpc = "RequestVote" /\ c.pc = "save"
    /\ persistMetadata(c.to)
    /\ Advance(c, [c EXCEPT !.pc = "decide"])
    /\ UNCHANGED <<nodeVars, stuck, timer, heart, boundVars, elected>>

\* Mutant: the index is compared whatever the terms are.
candidateUpToDateByIndex(c) ==
    LET log == Log[c.to]
        myLastTerm == IF log = <<>> THEN 0 ELSE log[Len(log)].term
    IN  c.lastLogTerm > myLastTerm \/ c.lastLogIndex >= Len(log) - 1

\* The voter compares the candidate's global last index with the last
\* position of its own vector.
candidateUpToDate(c) ==
    LET log == Log[c.to]
        myLastIndex == Len(log) - 1
        myLastTerm == IF log = <<>> THEN 0 ELSE log[Len(log)].term
    IN  \/ c.lastLogTerm > myLastTerm
        \/ c.lastLogTerm = myLastTerm /\ c.lastLogIndex >= myLastIndex

\* notVotedYet && candidateUpToDate, read without the lock.
DecideVote(c) ==
    /\ c.rpc = "RequestVote" /\ c.pc = "decide"
    /\ Advance(c, [c EXCEPT !.pc =
          IF votedFor[c.to] \in {NoNode, c.from} /\ candidateUpToDate(c)
          THEN "grant" ELSE "reply"])
    /\ UNCHANGED <<nodeVars, stuck, disk, timer, heart, boundVars, elected>>

\* The vote is stored, still without the lock.
GrantVote(c) ==
    /\ c.rpc = "RequestVote" /\ c.pc = "grant"
    /\ votedFor' = [votedFor EXCEPT ![c.to] = c.from]
    /\ Advance(c, [c EXCEPT !.pc = "savevote"])
    /\ UNCHANGED <<currentTerm, state, leaderId, runningHeartbeats, stuck,
                   disk, timer, heart, boundVars, elected>>

\* Mutant: the vote is not persisted before the reply.
SaveVoteSkipped(c) ==
    /\ c.rpc = "RequestVote" /\ c.pc = "savevote"
    /\ Advance(c, [c EXCEPT !.pc = "reply", !.vote = TRUE])
    /\ UNCHANGED <<nodeVars, stuck, disk, timer, heart, boundVars, elected>>

\* The vote is persisted before the reply.
SaveVote(c) ==
    /\ c.rpc = "RequestVote" /\ c.pc = "savevote"
    /\ persistMetadata(c.to)
    /\ Advance(c, [c EXCEPT !.pc = "reply", !.vote = TRUE])
    /\ UNCHANGED <<nodeVars, stuck, timer, heart, boundVars, elected>>

\* The reply carries the node's term as it is now.
ReplyVote(c) ==
    /\ c.rpc = "RequestVote" /\ c.pc = "reply"
    /\ Advance(c, [c EXCEPT !.pc = "replied", !.replyTerm = currentTerm[c.to]])
    /\ UNCHANGED <<nodeVars, stuck, disk, timer, heart, boundVars, elected>>

\* AppendEntries, under the lock: an older term is refused; a heartbeat that
\* would make the node step down deadlocks in becomeFollower before anything
\* is stored; any other heartbeat names the leader.
HandleHeartbeat(c) ==
    /\ c.rpc = "AppendEntries" /\ c.pc = "received" /\ MutexFree(c.to)
    /\ LET s == c.to
           reply == [c EXCEPT !.pc = "replied", !.replyTerm = currentTerm[s]]
       IN  \/ /\ c.term < currentTerm[s]
              /\ Advance(c, reply)
              /\ UNCHANGED <<leaderId, stuck, disk>>
           \/ /\ \/ c.term > currentTerm[s]
                 \/ c.term = currentTerm[s] /\ state[s] = "CANDIDATE"
              /\ stuck' = [stuck EXCEPT ![s] = TRUE]
              /\ UNCHANGED <<leaderId, calls, disk>>
           \/ /\ c.term = currentTerm[s] /\ state[s] # "CANDIDATE"
              /\ leaderId' = [leaderId EXCEPT ![s] = c.from]
              /\ persistMetadata(s)
              /\ Advance(c, reply)
              /\ UNCHANGED stuck
    /\ UNCHANGED <<currentTerm, votedFor, state, runningHeartbeats, timer,
                   heart, boundVars, elected>>

-----------------------------------------------------------------------------
(* Failures.                                                               *)

\* A call that never arrives, whose reply is lost, or whose handler waits for a
\* lost mutex.
Undelivered(c) ==
    \/ c.pc \in {"received", "replied"}
    \/ c.pc = "newterm" /\ stuck[c.to]

\* sendRPC returns empty: the call is lost, or it is (or will be) handled with
\* nobody waiting.  A stuck node makes every caller time out.
CallTimesOut(c) ==
    /\ c.live
    /\ stuck[c.to] \/ (lost < MaxLost /\ elections <= MaxDisturbed)
    /\ lost' = IF stuck[c.to] THEN lost ELSE lost + 1
    /\ \/ Undelivered(c) /\ calls' = calls \ {c}
       \/ /\ c.pc # "replied" /\ Overlap
          /\ calls' = (calls \ {c}) \cup {[c EXCEPT !.live = FALSE]}
    /\ IF c.rpc = "RequestVote"
       THEN /\ timer' = [timer EXCEPT ![c.from].pc = "peers"]
            /\ UNCHANGED heart
       ELSE /\ heart' = [heart EXCEPT ![c.from] =
                  IF runningHeartbeats[c.from] THEN [@ EXCEPT !.pc = "peers"]
                  ELSE HeartAt("loop")]
            /\ UNCHANGED timer
    /\ UNCHANGED <<nodeVars, stuck, disk, elections, crashes, elected>>

\* The process that hosts all nodes dies and is started again: every node
\* loads its metadata file and is a follower.
CrashAndRestart ==
    /\ crashes < MaxCrashes /\ elections <= MaxDisturbed
    /\ crashes' = crashes + 1
    /\ currentTerm' = [s \in Server |-> disk[s].currentTerm]
    /\ votedFor' = [s \in Server |-> disk[s].votedFor]
    /\ state' = [s \in Server |-> "FOLLOWER"]
    /\ leaderId' = [s \in Server |-> NoNode]
    /\ runningHeartbeats' = [s \in Server |-> FALSE]
    /\ stuck' = [s \in Server |-> FALSE]
    /\ timer' = [s \in Server |-> IdleTimer]
    /\ heart' = [s \in Server |-> NoHeart]
    /\ calls' = {}
    /\ UNCHANGED <<disk, elections, lost, elected>>

-----------------------------------------------------------------------------
TimerStep(s) ==
    \/ SaveCandidacy(s)
    \/ \E p \in Server : AskVote(s, p)
    \/ ReceiveVote(s)
    \/ CandidateStepDown(s)
    \/ SaveCandidateStepDown(s)
    \/ CountVotes(s)
    \/ BecomeLeader(s)
    \/ ResetTimeout(s)
    \/ StartHeartbeats(s)

HeartStep(s) ==
    \/ HeartbeatRound(s)
    \/ \E p \in Server : SendHeartbeat(s, p)
    \/ EndHeartbeatRound(s)
    \/ ReceiveHeartbeatReply(s)
    \/ LeaderStepDown(s)
    \/ SaveLeaderStepDown(s)

HandlerStep(c) ==
    \/ CheckTerm(c)
    \/ becomeFollower(c)
    \/ SaveTerm(c)
    \/ DecideVote(c)
    \/ GrantVote(c)
    \/ SaveVote(c)
    \/ ReplyVote(c)
    \/ HandleHeartbeat(c)

Next ==
    \/ \E s \in Server : StartElection(s) \/ TimerStep(s) \/ HeartStep(s)
    \/ \E c \in calls : HandlerStep(c) \/ CallTimesOut(c)
    \/ CrashAndRestart

Spec == Init /\ [][Next]_vars

\* Nobody sends heartbeats that would hold back an election timer.
Leaderless == \A s \in Server : state[s] # "LEADER"

\* Every thread that can run keeps running, some timer fires while there is no
\* leader, and a caller whose call a stuck node leaves unanswered eventually
\* times out.
FairSpec ==
    /\ Spec
    /\ WF_vars(Leaderless /\ \E s \in Server : StartElection(s))
    /\ \A s \in Server : WF_vars(TimerStep(s)) /\ WF_vars(HeartStep(s))
    /\ \A rpc \in {"RequestVote", "AppendEntries"}, s, p \in Server :
        /\ WF_vars(\E c \in Awaited(rpc, s, p) : HandlerStep(c))
        /\ WF_vars(\E c \in Awaited(rpc, s, p) : stuck[p] /\ CallTimesOut(c))
-----------------------------------------------------------------------------
(* Properties.                                                             *)

\* The terms somebody has started: no file, message or thread holds another.
Term == 0 .. StartTerm + elections

Metadata == [currentTerm : Term, votedFor : Server \cup {NoNode}]

TimerThread ==
    [pc : {"idle", "save", "peers", "waiting", "stepdown", "savedown",
           "elected", "reset", "join"},
     todo : SUBSET Server, peer : Server \cup {NoNode},
     granted : SUBSET Server, term : Term]

HeartThread ==
    [pc : {"none", "loop", "peers", "waiting", "stepdown", "save", "ended"},
     todo : SUBSET Server, peer : Server \cup {NoNode}, term : Term]

VoteCall ==
    [rpc : {"RequestVote"}, from : Server, to : Server, live : BOOLEAN,
     term : Term, lastLogIndex : Nat \cup {-1}, lastLogTerm : Term,
     election : Nat,
     pc : {"received", "newterm", "save", "decide", "grant", "savevote",
           "reply", "replied"},
     vote : BOOLEAN, replyTerm : Term]

HeartbeatCall ==
    [rpc : {"AppendEntries"}, from : Server, to : Server, live : BOOLEAN,
     term : Term, pc : {"received", "replied"}, replyTerm : Term]

\* The state of nodes, files, threads and calls is well formed.
TypeOK ==
    /\ currentTerm \in [Server -> Term]
    /\ votedFor \in [Server -> Server \cup {NoNode}]
    /\ state \in [Server -> {"FOLLOWER", "CANDIDATE", "LEADER"}]
    /\ leaderId \in [Server -> Server \cup {NoNode}]
    /\ runningHeartbeats \in [Server -> BOOLEAN]
    /\ stuck \in [Server -> BOOLEAN]
    /\ disk \in [Server -> Metadata]
    /\ timer \in [Server -> TimerThread]
    /\ heart \in [Server -> HeartThread]
    /\ calls \subseteq VoteCall \cup HeartbeatCall
    /\ elections \in 0 .. MaxElections
    /\ lost \in 0 .. MaxLost
    /\ crashes \in 0 .. MaxCrashes
    /\ elected \subseteq Term \X Server

\* At most one node becomes leader in a term (the votes of start_election and
\* the vote rule of the RequestVote handler, over any loss and restart).
ElectionSafety == \A e, f \in elected : e[1] = f[1] => e = f

\* The log of s is at least as up to date as that of p, by the global index and
\* term of their last entries.
UpToDate(s, p) ==
    LET last(n) == getLogSize(Log[n], Snap[n]) - 1
        lastTerm(n) == getLogTerm(Log[n], Snap[n], last(n))
    IN  \/ lastTerm(s) > lastTerm(p)
        \/ lastTerm(s) = lastTerm(p) /\ last(s) >= last(p)

\* A leader's log is at least as up to date as the logs of a majority: what
\* candidateUpToDate in the RequestVote handler is for.  It is stated for every
\* interleaving of the unlocked handlers, and for node terms that regress.
LeaderUpToDate ==
    \A s \in Server : state[s] = "LEADER" =>
        2 * Cardinality({p \in Server : UpToDate(s, p)}) > Cardinality(Server)

\* A thread of s has changed its term and has yet to save it.
Unsaved(s) ==
    \/ timer[s].pc \in {"save", "savedown"}
    \/ heart[s].pc = "save"
    \/ \E c \in calls : c.to = s /\ c.pc = "save"

\* The term in a node's file never decreases, and that of the node only when the
\* process dies between raising it and persistMetadata.
TermsNeverDecrease ==
    [][\A s \in Server :
          /\ disk[s].currentTerm <= disk'[s].currentTerm
          /\ currentTerm'[s] < currentTerm[s] => Unsaved(s)]_vars

\* A term that dies with the process was told to nobody: the terms of requests,
\* replies and leaderships are in the file of the node they come from.
ToldTermsSaved ==
    /\ \A c \in calls : /\ c.term <= disk[c.from].currentTerm
                        /\ c.replyTerm <= disk[c.to].currentTerm
    /\ \A e \in elected : e[1] <= disk[e[2]].currentTerm

\* start_election always returns to its timer loop, the join of the previous
\* heartbeat thread included, unless the node's mutex is lost for good.
ElectionsEnd ==
    \A s \in Server : timer[s].pc # "idle" ~> timer[s].pc = "idle" \/ stuck[s]

\* The nodes settle on one leader that all of them know.
Settled == \E l \in Server : state[l] = "LEADER" /\ \A s \in Server : leaderId[s] = l
LeaderSettles == <>[]Settled

\* They do when no call is lost and the process does not die.
SettlesUndisturbed == <>[](lost = 0 /\ crashes = 0 => Settled)
=============================================================================
