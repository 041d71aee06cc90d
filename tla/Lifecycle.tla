----------------------------- MODULE Lifecycle -----------------------------
(***************************************************************************)
(* The threads of the process from start to exit: main joins the command   *)
(* line server and the Raft thread (raftAlgorithm), which starts the       *)
(* nodes' RPC servers and election timers, waits for a leader, polls the   *)
(* shutdown flag and takes everything down.  Per node there are the timer  *)
(* thread, which also runs elections and starts the heartbeat thread, the  *)
(* heartbeat thread, and the RPC server thread.                            *)
(*                                                                         *)
(* The timer of a leader sleeps on a condition variable: it runs on when   *)
(* it has been notified AND the predicate holds.  A section under a node's *)
(* mutex is one step; a mutex that a handler has locked twice is `stuck`   *)
(* for good.  Who wins an election is left open.                           *)
(***************************************************************************)
EXTENDS Integers, Sequences, FiniteSets

CONSTANTS
    Nodes,           \* the vector of nodes, in the order it is gone through
    Client           \* clients of the command line server

Node == {Nodes[i] : i \in 1 .. Len(Nodes)}

ASSUME NodesAssumption ==
    /\ Len(Nodes) \in Nat \ {0}
    /\ \A i, j \in 1 .. Len(Nodes) : Nodes[i] = Nodes[j] => i = j

VARIABLES
    state,               \* state[n]
    runningHeartbeats,   \* runningHeartbeats[n]
    stopping,            \* shutdownRequested, stopTimer and stopRPC of n
    stuck,               \* n's mutex is lost
    timer,               \* where n's timer thread is
    notified,            \* n's condition variable was notified since the wait
    heart, rpc,          \* n's heartbeat and RPC server threads
    raft,                \* the Raft thread, and the node it is at
    raftShutdownRequested,
    server,              \* the accept loop of start_server
    shutdownServer,
    connection,          \* connection[c]: a client's connection and its thread
    dummy                \* a dummy connection is waiting to be accepted

nodeVars == <<state, runningHeartbeats, stopping, stuck, timer, notified,
              heart, rpc>>
raftVars == <<raft, raftShutdownRequested>>
serverVars == <<server, shutdownServer, connection, dummy>>
vars == <<nodeVars, raftVars, serverVars>>

-----------------------------------------------------------------------------
RaftAt(pc, i) == [pc |-> pc, i |-> i]

Init ==
    /\ state = [n \in Node |-> "FOLLOWER"]
    /\ runningHeartbeats = [n \in Node |-> FALSE]
    /\ stopping = [n \in Node |-> FALSE]
    /\ stuck = [n \in Node |-> FALSE]
    /\ timer = [n \in Node |-> "loop"]
    /\ notified = [n \in Node |-> FALSE]
    /\ heart = [n \in Node |-> "none"]
    /\ rpc = [n \in Node |-> "accept"]
    /\ raft = RaftAt("leader?", 1) /\ raftShutdownRequested = FALSE
    /\ server = "loop" /\ shutdownServer = FALSE
    /\ connection = [c \in Client |-> "none"] /\ dummy = FALSE

\* cv.notify_all: only a thread that waits is notified.
NotifyAll(n) == notified' = [notified EXCEPT ![n] = (timer[n] = "asleep")]

-----------------------------------------------------------------------------
(* election_timer and the end of start_election.                           *)

TimerGoes(n, pc) == timer' = [timer EXCEPT ![n] = pc]

\* The predicate of the leader's wait.
MayWake(n) == state[n] # "LEADER" \/ stopping[n]

\* The head of the loop, up to the wait: the timer of a leader falls asleep,
\* that of another node waits with a time limit or starts an election.
TimerLoop(n) ==
    /\ timer[n] = "loop"
    /\ \/ stopping[n] /\ TimerGoes(n, "ended") /\ UNCHANGED notified
       \/ /\ ~stopping[n] /\ ~stuck[n] /\ state[n] = "LEADER"
          /\ TimerGoes(n, "asleep") /\ UNCHANGED notified
       \/ /\ ~stopping[n] /\ ~stuck[n] /\ state[n] # "LEADER"
          /\ TimerGoes(n, "dozing") \/ TimerGoes(n, "election")
          /\ UNCHANGED notified
    /\ UNCHANGED <<state, runningHeartbeats, stopping, stuck, heart, rpc,
                   raftVars, serverVars>>

\* Woken under the mutex, the sleeper looks at the predicate again.
TimerWakes(n) ==
    /\ timer[n] = "asleep" /\ notified[n] /\ ~stuck[n]
    /\ notified' = [notified EXCEPT ![n] = FALSE]
    /\ timer' = [timer EXCEPT ![n] = IF MayWake(n) THEN "loop" ELSE "asleep"]
    /\ UNCHANGED <<state, runningHeartbeats, stopping, stuck, heart, rpc,
                   raftVars, serverVars>>

\* The limited wait ends.
TimerDozes(n) ==
    /\ timer[n] = "dozing" /\ ~stuck[n]
    /\ TimerGoes(n, "loop")
    /\ UNCHANGED <<state, runningHeartbeats, stopping, stuck, notified,
                   heart, rpc, raftVars, serverVars>>

\* start_election: skipped, or the node is a candidate and asks for votes.
StartElection(n) ==
    /\ timer[n] = "election" /\ ~stuck[n]
    /\ IF stopping[n] THEN TimerGoes(n, "loop") /\ UNCHANGED state
       ELSE TimerGoes(n, "votes") /\ state' = [state EXCEPT ![n] = "CANDIDATE"]
    /\ UNCHANGED <<runningHeartbeats, stopping, stuck, notified, heart,
                   rpc, raftVars, serverVars>>

\* Too few votes, the shutdown, or a newer term, which is taken under the mutex.
LoseElection(n) ==
    /\ timer[n] = "votes"
    /\ TimerGoes(n, "loop")
    /\ \/ UNCHANGED state
       \/ /\ ~stuck[n] /\ ~stopping[n]
          /\ state' = [state EXCEPT ![n] = "FOLLOWER"]
    /\ UNCHANGED <<runningHeartbeats, stopping, stuck, notified, heart,
                   rpc, raftVars, serverVars>>

WinElection(n) ==
    /\ timer[n] = "votes" /\ ~stuck[n] /\ ~stopping[n]
    /\ state' = [state EXCEPT ![n] = "LEADER"]
    /\ runningHeartbeats' = [runningHeartbeats EXCEPT ![n] = TRUE]
    /\ TimerGoes(n, "won")
    /\ UNCHANGED <<stopping, stuck, notified, heart, rpc, raftVars,
                   serverVars>>

\* reset_timeout, and the old heartbeat thread is told to end.
StopOldHeart(n) ==
    /\ timer[n] = "won" /\ ~stuck[n]
    /\ IF heart[n] = "none"
       THEN TimerGoes(n, "start") /\ UNCHANGED runningHeartbeats
       ELSE /\ TimerGoes(n, "join")
            /\ runningHeartbeats' = [runningHeartbeats EXCEPT ![n] = FALSE]
    /\ UNCHANGED <<state, stopping, stuck, notified, heart, rpc,
                   raftVars, serverVars>>

JoinOldHeart(n) ==
    /\ timer[n] = "join" /\ heart[n] = "ended"
    /\ heart' = [heart EXCEPT ![n] = "none"]
    /\ runningHeartbeats' = [runningHeartbeats EXCEPT ![n] = TRUE]
    /\ TimerGoes(n, "start")
    /\ UNCHANGED <<state, stopping, stuck, notified, rpc, raftVars,
                   serverVars>>

\* The flag is read, and then the thread is started.
MayStartHeart(n) ==
    /\ timer[n] = "start"
    /\ TimerGoes(n, IF stopping[n] THEN "loop" ELSE "spawn")
    /\ UNCHANGED <<state, runningHeartbeats, stopping, stuck, notified,
                   heart, rpc, raftVars, serverVars>>

StartHeart(n) ==
    /\ timer[n] = "spawn"
    /\ heart' = [heart EXCEPT ![n] = "running"]
    /\ TimerGoes(n, "loop")
    /\ UNCHANGED <<state, runningHeartbeats, stopping, stuck, notified,
                   rpc, raftVars, serverVars>>

TimerStep(n) ==
    \/ TimerLoop(n) \/ TimerWakes(n) \/ TimerDozes(n)
    \/ StartElection(n) \/ LoseElection(n) \/ WinElection(n)
    \/ StopOldHeart(n) \/ JoinOldHeart(n) \/ MayStartHeart(n) \/ StartHeart(n)

-----------------------------------------------------------------------------
(* Heartbeat thread, RPC server thread, and the RPC handlers, which are    *)
(* threads of their own that nobody joins.                                 *)

\* Mutant: the loop looks at the role alone.
HeartEndsDeposed(n) ==
    /\ heart[n] = "running" /\ state[n] # "LEADER"
    /\ heart' = [heart EXCEPT ![n] = "ended"]
    /\ UNCHANGED <<state, runningHeartbeats, stopping, stuck, timer, notified,
                   rpc, raftVars, serverVars>>

\* send_heartbeats leaves its loop.
HeartEnds(n) ==
    /\ heart[n] = "running"
    /\ ~runningHeartbeats[n] \/ state[n] # "LEADER" \/ stopping[n]
    /\ heart' = [heart EXCEPT ![n] = "ended"]
    /\ UNCHANGED <<state, runningHeartbeats, stopping, stuck, timer, notified,
                   rpc, raftVars, serverVars>>

\* A reply with a newer term.
HeartStepsDown(n) ==
    /\ heart[n] = "running" /\ ~stuck[n]
    /\ runningHeartbeats[n] /\ ~stopping[n]
    /\ state' = [state EXCEPT ![n] = "FOLLOWER"]
    /\ runningHeartbeats' = [runningHeartbeats EXCEPT ![n] = FALSE]
    /\ NotifyAll(n)
    /\ heart' = [heart EXCEPT ![n] = "ended"]
    /\ UNCHANGED <<stopping, stuck, timer, rpc, raftVars, serverVars>>

\* becomeFollower in an RPC handler.
BecomeFollower(n) ==
    /\ ~stuck[n] /\ ~stopping[n]
    /\ state' = [state EXCEPT ![n] = "FOLLOWER"]
    /\ runningHeartbeats' = [runningHeartbeats EXCEPT ![n] = FALSE]
    /\ NotifyAll(n)
    /\ UNCHANGED <<stopping, stuck, timer, heart, rpc, raftVars,
                   serverVars>>

\* handleClientCommand gets a reply with a newer term: nobody is notified.
ClientStepDown(n) ==
    /\ ~stuck[n] /\ state[n] = "LEADER"
    /\ state' = [state EXCEPT ![n] = "FOLLOWER"]
    /\ UNCHANGED <<runningHeartbeats, stopping, stuck, timer, notified, heart,
                   rpc, raftVars, serverVars>>

\* A heartbeat arrives: reset_timeout.
HearLeader(n) ==
    /\ ~stuck[n] /\ ~stopping[n]
    /\ NotifyAll(n)
    /\ UNCHANGED <<state, runningHeartbeats, stopping, stuck, timer,
                   heart, rpc, raftVars, serverVars>>

\* An AppendEntries handler locks its mutex a second time.
GetStuck(n) ==
    /\ ~stuck[n]
    /\ stuck' = [stuck EXCEPT ![n] = TRUE]
    /\ UNCHANGED <<state, runningHeartbeats, stopping, timer, notified,
                   heart, rpc, raftVars, serverVars>>

\* startRaftRPCServer, which does not block in accept.
RpcEnds(n) ==
    /\ rpc[n] = "accept" /\ stopping[n]
    /\ rpc' = [rpc EXCEPT ![n] = "ended"]
    /\ UNCHANGED <<state, runningHeartbeats, stopping, stuck, timer, notified,
                   heart, raftVars, serverVars>>

-----------------------------------------------------------------------------
(* raftAlgorithm.                                                          *)

\* Mutant: one node too many.
RaftNextPastEnd(phase) ==
    raft' = IF raft.i <= Len(Nodes) THEN RaftAt(raft.pc, raft.i + 1)
            ELSE RaftAt(phase, 1)

\* From node to node, then on to the next phase.
RaftNext(phase) ==
    raft' = IF raft.i < Len(Nodes) THEN RaftAt(raft.pc, raft.i + 1)
            ELSE RaftAt(phase, 1)
At == Nodes[raft.i]

\* A leader is seen; or 10 seconds have passed, and the thread returns with
\* its timers not joined, which ends the process.
FindLeader ==
    /\ raft.pc = "leader?"
    /\ \/ \E n \in Node : state[n] = "LEADER" /\ raft' = RaftAt("poll", 1)
       \/ raft' = RaftAt("aborted", 1)
    /\ UNCHANGED <<nodeVars, raftShutdownRequested, serverVars>>

PollShutdown ==
    /\ raft.pc = "poll" /\ raftShutdownRequested
    /\ raft' = RaftAt("flag", 1)
    /\ UNCHANGED <<nodeVars, raftShutdownRequested, serverVars>>

\* Mutant: the timers are not woken.
SetFlagsOnly ==
    /\ raft.pc = "flag" /\ ~stuck[At]
    /\ stopping' = [stopping EXCEPT ![At] = TRUE]
    /\ runningHeartbeats' = [runningHeartbeats EXCEPT ![At] = FALSE]
    /\ RaftNext("join timer")
    /\ UNCHANGED <<state, stuck, timer, notified, heart, rpc,
                   raftShutdownRequested, serverVars>>

\* The flags of each node, under its mutex.
SetFlags ==
    /\ raft.pc = "flag" /\ ~stuck[At]
    /\ stopping' = [stopping EXCEPT ![At] = TRUE]
    /\ runningHeartbeats' = [runningHeartbeats EXCEPT ![At] = FALSE]
    /\ RaftNext("notify")
    /\ UNCHANGED <<state, stuck, timer, notified, heart, rpc,
                   raftShutdownRequested, serverVars>>

\* Mutant: the timers are not joined.
NotifyNoJoin ==
    /\ raft.pc = "notify" /\ ~stuck[At]
    /\ NotifyAll(At)
    /\ RaftNext("shutdown")
    /\ UNCHANGED <<state, runningHeartbeats, stopping, stuck, timer,
                   heart, rpc, raftShutdownRequested, serverVars>>

\* The condition variable of each node.
Notify ==
    /\ raft.pc = "notify" /\ ~stuck[At]
    /\ NotifyAll(At)
    /\ RaftNext("join timer")
    /\ UNCHANGED <<state, runningHeartbeats, stopping, stuck, timer,
                   heart, rpc, raftShutdownRequested, serverVars>>

JoinTimer ==
    /\ raft.pc = "join timer" /\ timer[At] = "ended"
    /\ RaftNext("shutdown")
    /\ UNCHANGED <<nodeVars, raftShutdownRequested, serverVars>>

\* shutdownNode: the flags once more, then the heartbeat thread if there is one
\* and the RPC server thread are joined.
ShutdownNode ==
    /\ raft.pc = "shutdown" /\ ~stuck[At]
    /\ runningHeartbeats' = [runningHeartbeats EXCEPT ![At] = FALSE]
    /\ NotifyAll(At)
    /\ raft' = RaftAt("join threads", raft.i)
    /\ UNCHANGED <<state, stopping, stuck, timer, heart, rpc,
                   raftShutdownRequested, serverVars>>

JoinThreads ==
    /\ raft.pc = "join threads"
    /\ heart[At] # "running" /\ rpc[At] = "ended"
    /\ heart' = [heart EXCEPT ![At] = "none"]
    /\ raft' = IF raft.i < Len(Nodes) THEN RaftAt("shutdown", raft.i + 1)
               ELSE RaftAt("ended", 1)
    /\ UNCHANGED <<state, runningHeartbeats, stopping, stuck, timer, notified,
                   rpc, raftShutdownRequested, serverVars>>

RaftStep == \/ FindLeader \/ PollShutdown \/ SetFlags \/ Notify \/ JoinTimer
            \/ ShutdownNode \/ JoinThreads

-----------------------------------------------------------------------------
(* start_server and handle_client.                                         *)

Connect(c) ==
    /\ connection[c] = "none" /\ server # "ended"
    /\ connection' = [connection EXCEPT ![c] = "waiting"]
    /\ UNCHANGED <<nodeVars, raftVars, server, shutdownServer, dummy>>

\* The head of the accept loop; the socket is closed at the end.
ServerLoop ==
    /\ server = "loop"
    /\ server' = IF shutdownServer THEN "ended" ELSE "accept"
    /\ connection' = [c \in Client |->
          IF shutdownServer /\ connection[c] = "waiting" THEN "none"
          ELSE connection[c]]
    /\ UNCHANGED <<nodeVars, raftVars, shutdownServer, dummy>>

\* accept blocks until somebody connects.
Accept ==
    /\ server = "accept"
    /\ \/ dummy /\ dummy' = FALSE /\ UNCHANGED connection
       \/ \E c \in Client :
            /\ connection[c] = "waiting"
            /\ connection' = [connection EXCEPT ![c] = "served"]
            /\ UNCHANGED dummy
    /\ server' = "loop"
    /\ UNCHANGED <<nodeVars, raftVars, shutdownServer>>

ExitRaft(c) ==
    /\ connection[c] = "served"
    /\ raftShutdownRequested' = TRUE
    /\ UNCHANGED <<nodeVars, raft, serverVars>>

ExitServer(c) ==
    /\ connection[c] = "served"
    /\ shutdownServer' = TRUE
    /\ connection' = [connection EXCEPT ![c] = "leaving"]
    /\ UNCHANGED <<nodeVars, raftVars, server, dummy>>

\* EXIT, or the client goes away.
Exit(c) ==
    /\ connection[c] = "served"
    /\ connection' = [connection EXCEPT ![c] = "leaving"]
    /\ UNCHANGED <<nodeVars, raftVars, server, shutdownServer, dummy>>

\* Mutant: no dummy connection wakes the accept loop.
LeaveSilently(c) ==
    /\ connection[c] = "leaving"
    /\ connection' = [connection EXCEPT ![c] = "none"]
    /\ UNCHANGED <<nodeVars, raftVars, server, shutdownServer, dummy>>

\* The client's thread ends, with a dummy connection when the server is to stop.
Leave(c) ==
    /\ connection[c] = "leaving"
    /\ connection' = [connection EXCEPT ![c] = "none"]
    /\ dummy' = (dummy \/ (shutdownServer /\ server # "ended"))
    /\ UNCHANGED <<nodeVars, raftVars, server, shutdownServer>>

-----------------------------------------------------------------------------
NodeStep(n) ==
    \/ TimerStep(n) \/ HeartEnds(n) \/ HeartStepsDown(n) \/ BecomeFollower(n)
    \/ ClientStepDown(n) \/ HearLeader(n) \/ GetStuck(n) \/ RpcEnds(n)

ClientStep(c) ==
    Connect(c) \/ ExitRaft(c) \/ ExitServer(c) \/ Exit(c) \/ Leave(c)

\* A process that has aborted takes no more steps.
Alive == raft.pc # "aborted"

Next ==
    /\ Alive
    /\ \/ \E n \in Node : NodeStep(n)
       \/ RaftStep
       \/ ServerLoop \/ Accept
       \/ \E c \in Client : ClientStep(c)

Spec == Init /\ [][Next]_vars

\* Every thread that can go on does; clients come and go as they like.
FairSpec ==
    /\ Spec
    /\ \A n \in Node : /\ WF_vars(Alive /\ TimerStep(n))
                       /\ WF_vars(Alive /\ HeartEnds(n))
                       /\ WF_vars(Alive /\ RpcEnds(n))
    /\ WF_vars(RaftStep)
    /\ WF_vars(Alive /\ (ServerLoop \/ Accept))
    /\ \A c \in Client : WF_vars(Alive /\ Leave(c))

-----------------------------------------------------------------------------
(* Properties.                                                             *)

RaftThread ==
    [pc : {"leader?", "poll", "flag", "notify", "join timer", "shutdown",
           "join threads", "ended", "aborted"},
     i : 1 .. Len(Nodes)]

\* Every thread is where its code can be.
TypeOK ==
    /\ state \in [Node -> {"FOLLOWER", "CANDIDATE", "LEADER"}]
    /\ runningHeartbeats \in [Node -> BOOLEAN]
    /\ stopping \in [Node -> BOOLEAN]
    /\ stuck \in [Node -> BOOLEAN]
    /\ notified \in [Node -> BOOLEAN]
    /\ timer \in [Node -> {"loop", "asleep", "dozing", "election", "votes",
                           "won", "join", "start", "spawn", "ended"}]
    /\ heart \in [Node -> {"none", "running", "ended"}]
    /\ rpc \in [Node -> {"accept", "ended"}]
    /\ raft \in RaftThread
    /\ server \in {"loop", "accept", "ended"}
    /\ connection \in [Client -> {"none", "waiting", "served", "leaving"}]
    /\ raftShutdownRequested \in BOOLEAN
    /\ shutdownServer \in BOOLEAN
    /\ dummy \in BOOLEAN

\* When the Raft thread is through no thread of a node is left: no timer starts
\* a heartbeat thread behind its back.
NothingLeftRunning ==
    raft.pc = "ended" =>
        \A n \in Node : timer[n] = "ended" /\ heart[n] = "none" /\ rpc[n] = "ended"

\* The Raft thread has not come to notifying n yet.
NotifyComing(n) ==
    \/ raft.pc = "flag"
    \/ raft.pc = "notify" /\ \E i \in raft.i .. Len(Nodes) : Nodes[i] = n

\* A sleeping timer whose wait is over has been notified or will be by the
\* shutdown, unless a client's thread deposed the leader: it is the only one
\* that leaves runningHeartbeats set.
WakeupComing ==
    \A n \in Node : timer[n] = "asleep" /\ MayWake(n) =>
        notified[n] \/ NotifyComing(n) \/ runningHeartbeats[n]

\* The same without the exception.
NoLostWakeup ==
    \A n \in Node : timer[n] = "asleep" /\ MayWake(n) =>
        notified[n] \/ NotifyComing(n)

\* EXIT-RAFT takes the cluster down, whatever elections and step-downs are
\* under way, unless a mutex is stuck.
RaftStops ==
    (raftShutdownRequested /\ raft.pc = "poll")
        ~> (raft.pc = "ended" \/ \E n \in Node : stuck[n])

\* The same without the exception.
RaftStopsAnyway == (raftShutdownRequested /\ raft.pc = "poll") ~> (raft.pc = "ended")

\* EXIT-SERVER ends the accept loop even when no client connects any more.
ServerStops == shutdownServer ~> (server = "ended" \/ ~Alive)

\* The Raft thread never returns with threads that nobody joins.
NeverAborts == Alive
=============================================================================
