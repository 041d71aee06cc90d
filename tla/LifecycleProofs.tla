-------------------------- MODULE LifecycleProofs --------------------------
(***************************************************************************)
(* Theorems about Lifecycle, for every number of nodes and clients.        *)
(***************************************************************************)
EXTENDS Lifecycle, TLAPS

-----------------------------------------------------------------------------
(* Type correctness.                                                       *)

\* The node the Raft thread is at is one of the nodes.
LEMMA AtIsNode ==
    ASSUME TypeOK
    PROVE  At \in Node /\ raft.i \in 1 .. Len(Nodes) /\ Len(Nodes) \in Nat
  BY NodesAssumption DEF TypeOK, RaftThread, At, Node

\* Every node is somewhere in the vector.
LEMMA NodeHasPlace ==
    ASSUME NEW n \in Node
    PROVE  \E i \in 1 .. Len(Nodes) : Nodes[i] = n
  BY DEF Node

\* The vector is not empty.
LEMMA SizePositive ==
    /\ Len(Nodes) \in Nat /\ 1 \in 1 .. Len(Nodes)
    /\ \A i \in 1 .. Len(Nodes) : i < Len(Nodes) => i + 1 \in 1 .. Len(Nodes)
  <1> DEFINE size == Len(Nodes)
  <1>1. size \in Nat \ {0}
    BY NodesAssumption
  <1> HIDE DEF size
  <1>2. /\ size \in Nat /\ 1 \in 1 .. size
        /\ \A j \in 1 .. size : j < size => j + 1 \in 1 .. size
    BY <1>1
  <1> QED
    BY <1>2 DEF size

Phase == {"leader?", "poll", "flag", "notify", "join timer", "shutdown",
          "join threads", "ended", "aborted"}

\* A phase starts at the first node and goes on to the next.
LEMMA PlaceType ==
    ASSUME NEW pc \in Phase, NEW i \in 1 .. Len(Nodes)
    PROVE  /\ RaftAt(pc, i) \in RaftThread
           /\ RaftAt(pc, 1) \in RaftThread
           /\ i < Len(Nodes) => RaftAt(pc, i + 1) \in RaftThread
  BY SizePositive DEF RaftAt, RaftThread, Phase

\* Going on to the next node or phase keeps the Raft thread's place well formed.
LEMMA RaftNextType ==
    ASSUME TypeOK, NEW phase, RaftNext(phase),
           phase \in {"notify", "join timer", "shutdown"}
    PROVE  raft' \in RaftThread
  <1>1. raft.pc \in Phase /\ raft.i \in 1 .. Len(Nodes) /\ phase \in Phase
    BY DEF TypeOK, RaftThread, Phase
  <1> QED
    BY <1>1, PlaceType DEF RaftNext

LEMMA InitType == Init => TypeOK
  <1> SUFFICES ASSUME Init PROVE TypeOK
    OBVIOUS
  <1>1. RaftAt("leader?", 1) \in RaftThread
    <2>1. "leader?" \in Phase /\ 1 \in 1 .. Len(Nodes)
      BY SizePositive DEF Phase
    <2> QED
      BY <2>1, PlaceType
  <1>2. /\ runningHeartbeats \in [Node -> BOOLEAN]
        /\ stopping \in [Node -> BOOLEAN]
        /\ stuck \in [Node -> BOOLEAN]
        /\ notified \in [Node -> BOOLEAN]
    BY DEF Init
  <1>3. /\ raftShutdownRequested \in BOOLEAN /\ shutdownServer \in BOOLEAN
        /\ dummy \in BOOLEAN
    BY DEF Init
  <1>4. /\ state \in [Node -> {"FOLLOWER", "CANDIDATE", "LEADER"}]
        /\ timer \in [Node -> {"loop", "asleep", "dozing", "election", "votes",
                               "won", "join", "start", "spawn", "ended"}]
        /\ heart \in [Node -> {"none", "running", "ended"}]
        /\ rpc \in [Node -> {"accept", "ended"}]
        /\ server \in {"loop", "accept", "ended"}
        /\ connection \in [Client -> {"none", "waiting", "served", "leaving"}]
    BY DEF Init
  <1>5. raft \in RaftThread
    BY <1>1 DEF Init
  <1> QED
    BY <1>2, <1>3, <1>4, <1>5 DEF TypeOK

LEMMA NodeStepType ==
    ASSUME TypeOK, NEW n \in Node, NodeStep(n)
    PROVE  TypeOK'
  <1> USE DEF TypeOK, TimerGoes, NotifyAll, MayWake, raftVars, serverVars
  <1>1. CASE TimerLoop(n)
    BY <1>1 DEF TimerLoop
  <1>2. CASE TimerWakes(n)
    BY <1>2 DEF TimerWakes
  <1>3. CASE TimerDozes(n)
    BY <1>3 DEF TimerDozes
  <1>4. CASE StartElection(n)
    BY <1>4 DEF StartElection
  <1>5. CASE LoseElection(n)
    BY <1>5 DEF LoseElection
  <1>6. CASE WinElection(n)
    BY <1>6 DEF WinElection
  <1>7. CASE StopOldHeart(n)
    BY <1>7 DEF StopOldHeart
  <1>8. CASE JoinOldHeart(n)
    BY <1>8 DEF JoinOldHeart
  <1>9. CASE MayStartHeart(n)
    BY <1>9 DEF MayStartHeart
  <1>10. CASE StartHeart(n)
    BY <1>10 DEF StartHeart
  <1>11. CASE HeartEnds(n)
    BY <1>11 DEF HeartEnds
  <1>12. CASE HeartStepsDown(n)
    BY <1>12 DEF HeartStepsDown
  <1>13. CASE BecomeFollower(n)
    BY <1>13 DEF BecomeFollower
  <1>14. CASE ClientStepDown(n)
    BY <1>14 DEF ClientStepDown
  <1>15. CASE HearLeader(n)
    BY <1>15 DEF HearLeader
  <1>16. CASE GetStuck(n)
    BY <1>16 DEF GetStuck
  <1>17. CASE RpcEnds(n)
    BY <1>17 DEF RpcEnds
  <1> QED
    BY <1>1, <1>2, <1>3, <1>4, <1>5, <1>6, <1>7, <1>8, <1>9, <1>10, <1>11,
       <1>12, <1>13, <1>14, <1>15, <1>16, <1>17 DEF NodeStep, TimerStep

LEMMA RaftStepType ==
    ASSUME TypeOK, RaftStep
    PROVE  TypeOK'
  <1> USE AtIsNode DEF nodeVars, serverVars
  <1>0. \A pc \in Phase : RaftAt(pc, 1) \in RaftThread
    BY PlaceType
  <1>1. CASE FindLeader
    BY <1>0, <1>1 DEF FindLeader, TypeOK, Phase
  <1>2. CASE PollShutdown
    BY <1>0, <1>2 DEF PollShutdown, TypeOK, Phase
  <1>3. CASE SetFlags
    BY <1>3, RaftNextType DEF SetFlags, TypeOK
  <1>4. CASE Notify
    BY <1>4, RaftNextType DEF Notify, NotifyAll, TypeOK
  <1>5. CASE JoinTimer
    BY <1>5, RaftNextType DEF JoinTimer, TypeOK
  <1>6. CASE ShutdownNode
    BY <1>6 DEF ShutdownNode, NotifyAll, RaftAt, RaftThread, TypeOK
  <1>7. CASE JoinThreads
    <2>1. raft' \in RaftThread
      BY <1>7, PlaceType DEF JoinThreads, Phase
    <2> QED
      BY <1>7, <2>1 DEF JoinThreads, TypeOK
  <1> QED
    BY <1>1, <1>2, <1>3, <1>4, <1>5, <1>6, <1>7 DEF RaftStep

LEMMA ServerStepType ==
    ASSUME TypeOK, ServerLoop \/ Accept \/ \E c \in Client : ClientStep(c)
    PROVE  TypeOK'
  <1> USE DEF nodeVars, raftVars, serverVars
  <1>1. CASE ServerLoop
    BY <1>1 DEF ServerLoop, TypeOK
  <1>2. CASE Accept
    BY <1>2 DEF Accept, TypeOK
  <1>3. ASSUME NEW c \in Client, ClientStep(c) PROVE TypeOK'
    <2>1. CASE Connect(c)
      BY <2>1 DEF Connect, TypeOK
    <2>2. CASE ExitRaft(c)
      BY <2>2 DEF ExitRaft, TypeOK
    <2>3. CASE ExitServer(c)
      BY <2>3 DEF ExitServer, TypeOK
    <2>4. CASE Exit(c)
      BY <2>4 DEF Exit, TypeOK
    <2>5. CASE Leave(c)
      BY <2>5 DEF Leave, TypeOK
    <2> QED
      BY <1>3, <2>1, <2>2, <2>3, <2>4, <2>5 DEF ClientStep
  <1> QED
    BY <1>1, <1>2, <1>3

LEMMA NextType == TypeOK /\ [Next]_vars => TypeOK'
  <1> SUFFICES ASSUME TypeOK, [Next]_vars PROVE TypeOK'
    OBVIOUS
  <1>1. CASE UNCHANGED vars
    BY <1>1 DEF vars, nodeVars, raftVars, serverVars, TypeOK
  <1> QED
    BY <1>1, NodeStepType, RaftStepType, ServerStepType DEF Next

\* The threads of the process are where their code can be, in every behaviour of
\* Lifecycle.
THEOREM TypeCorrect == Spec => []TypeOK
  BY InitType, NextType, PTL DEF Spec

-----------------------------------------------------------------------------
(* The order of the shutdown.                                              *)

\* What the Raft thread has done to the nodes before the one it is at, and in
\* earlier phases to all of them.
InOrder ==
    /\ raft.pc = "flag" =>
          \A i \in 1 .. Len(Nodes) : i < raft.i => stopping[Nodes[i]]
    /\ raft.pc \in {"notify", "join timer", "shutdown", "join threads", "ended"} =>
          \A n \in Node : stopping[n]
    /\ raft.pc = "join timer" =>
          \A i \in 1 .. Len(Nodes) : i < raft.i => timer[Nodes[i]] = "ended"
    /\ raft.pc \in {"shutdown", "join threads", "ended"} =>
          \A n \in Node : timer[n] = "ended"
    /\ raft.pc \in {"shutdown", "join threads"} =>
          \A i \in 1 .. Len(Nodes) : i < raft.i =>
              heart[Nodes[i]] = "none" /\ rpc[Nodes[i]] = "ended"
    /\ raft.pc = "ended" =>
          \A n \in Node : heart[n] = "none" /\ rpc[n] = "ended"

\* The flag of a leader's heartbeats is set, except while its timer joins an
\* earlier heartbeat thread and after the shutdown.
LeaderBeats ==
    \A n \in Node : state[n] = "LEADER" =>
        runningHeartbeats[n] \/ timer[n] = "join" \/ stopping[n]

\* A step of a node's threads leaves the Raft thread where it is, clears no
\* stop flag, revives no timer or RPC server that has ended, and starts no
\* heartbeat thread once the timer has ended.
LEMMA NodeStepKeeps ==
    ASSUME TypeOK, NEW n \in Node, NodeStep(n), NEW m \in Node
    PROVE  /\ UNCHANGED raft
           /\ stopping[m] => stopping'[m]
           /\ timer[m] = "ended" => timer'[m] = "ended"
           /\ timer[m] = "ended" /\ heart[m] = "none" => heart'[m] = "none"
           /\ rpc[m] = "ended" => rpc'[m] = "ended"
  <1> USE DEF TypeOK, TimerGoes, raftVars
  <1>1. CASE TimerStep(n)
    BY <1>1 DEF TimerStep, TimerLoop, TimerWakes, TimerDozes, StartElection,
       LoseElection, WinElection, StopOldHeart, JoinOldHeart, MayStartHeart,
       StartHeart
  <1>2. CASE HeartEnds(n) \/ HeartStepsDown(n)
    BY <1>2 DEF HeartEnds, HeartStepsDown
  <1>3. CASE BecomeFollower(n) \/ ClientStepDown(n) \/ HearLeader(n) \/ GetStuck(n)
    BY <1>3 DEF BecomeFollower, ClientStepDown, HearLeader, GetStuck
  <1>4. CASE RpcEnds(n)
    BY <1>4 DEF RpcEnds
  <1> QED
    BY <1>1, <1>2, <1>3, <1>4 DEF NodeStep

\* A node before the next one is before this one or this one.
LEMMA BeforeNext ==
    ASSUME TypeOK, NEW i \in 1 .. Len(Nodes)
    PROVE  /\ i < raft.i + 1 => i < raft.i \/ Nodes[i] = At
           /\ ~(raft.i < Len(Nodes)) => i < raft.i \/ Nodes[i] = At
  <1>1. raft.i \in 1 .. Len(Nodes) /\ Len(Nodes) \in Nat
    BY AtIsNode
  <1>2. i < raft.i + 1 \/ ~(raft.i < Len(Nodes)) => i < raft.i \/ i = raft.i
    BY <1>1
  <1> QED
    BY <1>2 DEF At

\* At the end of the vector every node is this one or one before.
LEMMA LastNode ==
    ASSUME TypeOK, ~(raft.i < Len(Nodes)), NEW m \in Node
    PROVE  m = At \/ \E i \in 1 .. Len(Nodes) : i < raft.i /\ Nodes[i] = m
  BY BeforeNext, NodeHasPlace

LEMMA RaftStepOrder ==
    ASSUME TypeOK, InOrder, RaftStep
    PROVE  InOrder'
  <1>a. At \in Node /\ raft.i \in Int
    BY AtIsNode
  <1>b. Len(Nodes) \in Nat /\ \A i \in 1 .. Len(Nodes) : ~(i < 1)
    BY SizePositive
  <1>0. ASSUME NEW i \in 1 .. Len(Nodes) PROVE Nodes[i] \in Node
    BY DEF Node
  <1>1. CASE FindLeader
    <2>1. raft'.pc \in {"poll", "aborted"}
      BY <1>1 DEF FindLeader, RaftAt
    <2> QED
      BY <1>a, <1>b, <2>1 DEF InOrder
  <1>2. CASE PollShutdown
    <2>1. raft'.pc = "flag" /\ raft'.i = 1
      BY <1>2 DEF PollShutdown, RaftAt
    <2> QED
      BY <1>a, <1>b, <2>1 DEF InOrder
  <1>3. CASE SetFlags
    <2>1. \A m \in Node : stopping[m] => stopping'[m]
      BY <1>a, <1>3 DEF SetFlags, TypeOK
    <2>2. stopping'[At]
      BY <1>a, <1>3 DEF SetFlags, TypeOK
    <2>3. CASE raft.i < Len(Nodes)
      <3>1. raft'.pc = "flag" /\ raft'.i = raft.i + 1
        BY <1>3, <2>3 DEF SetFlags, RaftNext, RaftAt
      <3> QED
        BY <1>a, <1>b, <1>0, <1>3, <2>1, <2>2, <3>1, BeforeNext DEF SetFlags, InOrder
    <2>4. CASE ~(raft.i < Len(Nodes))
      <3>1. raft'.pc = "notify" /\ raft'.i = 1
        BY <1>3, <2>4 DEF SetFlags, RaftNext, RaftAt
      <3>2. \A m \in Node : stopping'[m]
        BY <1>3, <2>1, <2>2, <2>4, LastNode DEF SetFlags, InOrder
      <3> QED
        BY <1>a, <1>b, <3>1, <3>2 DEF InOrder
    <2> QED
      BY <2>3, <2>4
  <1>4. CASE Notify
    <2>1. raft'.pc = "notify" \/ (raft'.pc = "join timer" /\ raft'.i = 1)
      BY <1>4 DEF Notify, RaftNext, RaftAt
    <2> QED
      BY <1>a, <1>b, <1>4, <2>1 DEF Notify, InOrder
  <1>5. CASE JoinTimer
    <2>1. CASE raft.i < Len(Nodes)
      <3>1. raft'.pc = "join timer" /\ raft'.i = raft.i + 1
        BY <1>5, <2>1 DEF JoinTimer, RaftNext, RaftAt
      <3> QED
        BY <1>a, <1>b, <1>0, <1>5, <3>1, BeforeNext DEF JoinTimer, nodeVars, InOrder
    <2>2. CASE ~(raft.i < Len(Nodes))
      <3>1. raft'.pc = "shutdown" /\ raft'.i = 1
        BY <1>5, <2>2 DEF JoinTimer, RaftNext, RaftAt
      <3>2. \A m \in Node : timer'[m] = "ended"
        <4>1. /\ timer[At] = "ended" /\ UNCHANGED timer
              /\ \A i \in 1 .. Len(Nodes) : i < raft.i => timer[Nodes[i]] = "ended"
          BY <1>5 DEF JoinTimer, nodeVars, InOrder
        <4> QED
          BY <2>2, <4>1, LastNode
      <3> QED
        BY <1>a, <1>b, <1>5, <3>1, <3>2 DEF JoinTimer, nodeVars, InOrder
    <2> QED
      BY <2>1, <2>2
  <1>6. CASE ShutdownNode
    BY <1>a, <1>b, <1>6 DEF ShutdownNode, RaftAt, InOrder
  <1>7. CASE JoinThreads
    <2>1. /\ \A m \in Node : heart[m] = "none" => heart'[m] = "none"
          /\ heart'[At] = "none" /\ rpc'[At] = "ended"
          /\ UNCHANGED <<rpc, timer, stopping>>
      BY <1>a, <1>7 DEF JoinThreads, TypeOK
    <2>4. /\ \A m \in Node : stopping[m] /\ timer[m] = "ended"
          /\ \A i \in 1 .. Len(Nodes) : i < raft.i =>
                heart[Nodes[i]] = "none" /\ rpc[Nodes[i]] = "ended"
      BY <1>7 DEF JoinThreads, InOrder
    <2>2. CASE raft.i < Len(Nodes)
      <3>1. raft'.pc = "shutdown" /\ raft'.i = raft.i + 1
        BY <1>7, <2>2 DEF JoinThreads, RaftAt
      <3>2. \A i \in 1 .. Len(Nodes) : i < raft'.i =>
                heart'[Nodes[i]] = "none" /\ rpc'[Nodes[i]] = "ended"
        BY <1>0, <2>1, <2>4, <3>1, BeforeNext
      <3> QED
        BY <2>1, <2>4, <3>1, <3>2 DEF InOrder
    <2>3. CASE ~(raft.i < Len(Nodes))
      <3>1. raft'.pc = "ended"
        BY <1>7, <2>3 DEF JoinThreads, RaftAt
      <3>2. \A m \in Node : heart'[m] = "none" /\ rpc'[m] = "ended"
        BY <1>0, <2>1, <2>3, <2>4, LastNode
      <3> QED
        BY <2>1, <2>4, <3>1, <3>2 DEF InOrder
    <2> QED
      BY <2>2, <2>3
  <1> QED
    BY <1>1, <1>2, <1>3, <1>4, <1>5, <1>6, <1>7 DEF RaftStep

LEMMA NextOrder == TypeOK /\ InOrder /\ [Next]_vars => InOrder'
  <1> SUFFICES ASSUME TypeOK, InOrder, [Next]_vars PROVE InOrder'
    OBVIOUS
  <1>1. ASSUME NEW n \in Node, NodeStep(n) PROVE InOrder'
    <2>1. \A i \in 1 .. Len(Nodes) : Nodes[i] \in Node
      BY DEF Node
    <2>2. /\ UNCHANGED raft
          /\ \A m \in Node :
                /\ stopping[m] => stopping'[m]
                /\ timer[m] = "ended" => timer'[m] = "ended"
                /\ timer[m] = "ended" /\ heart[m] = "none" => heart'[m] = "none"
                /\ rpc[m] = "ended" => rpc'[m] = "ended"
      BY <1>1, NodeStepKeeps
    <2> QED
      BY <2>1, <2>2 DEF InOrder
  <1>2. ASSUME UNCHANGED <<nodeVars, raft>> PROVE InOrder'
    BY <1>2 DEF nodeVars, InOrder
  <1>3. ServerLoop \/ Accept \/ (\E c \in Client : ClientStep(c)) \/ UNCHANGED vars
        => UNCHANGED <<nodeVars, raft>>
    BY DEF ServerLoop, Accept, ClientStep, Connect, ExitRaft, ExitServer, Exit,
       Leave, vars, raftVars
  <1> QED
    BY <1>1, <1>2, <1>3, RaftStepOrder DEF Next

\* When raftAlgorithm comes to its end no timer, heartbeat or RPC thread of any
\* node is left, whatever elections were won while it was taking them down.
THEOREM NothingKeepsRunning == Spec => []NothingLeftRunning
  <1>1. Init => InOrder
    BY DEF Init, InOrder, RaftAt
  <1>2. InOrder => NothingLeftRunning
    BY DEF InOrder, NothingLeftRunning
  <1> QED
    BY <1>1, <1>2, NextOrder, TypeCorrect, PTL DEF Spec

-----------------------------------------------------------------------------
(* The sleeping timers.                                                    *)

LEMMA NodeStepBeats ==
    ASSUME TypeOK, LeaderBeats, NEW n \in Node, NodeStep(n)
    PROVE  LeaderBeats'
  <1> USE DEF TypeOK, TimerGoes, LeaderBeats
  <1>1. CASE TimerLoop(n) \/ TimerWakes(n) \/ TimerDozes(n)
    BY <1>1 DEF TimerLoop, TimerWakes, TimerDozes
  <1>2. CASE StartElection(n) \/ LoseElection(n) \/ WinElection(n)
    BY <1>2 DEF StartElection, LoseElection, WinElection
  <1>3. CASE StopOldHeart(n) \/ JoinOldHeart(n) \/ MayStartHeart(n) \/ StartHeart(n)
    BY <1>3 DEF StopOldHeart, JoinOldHeart, MayStartHeart, StartHeart
  <1>4. CASE HeartEnds(n) \/ HeartStepsDown(n) \/ BecomeFollower(n)
    BY <1>4 DEF HeartEnds, HeartStepsDown, BecomeFollower
  <1>5. CASE ClientStepDown(n) \/ HearLeader(n) \/ GetStuck(n) \/ RpcEnds(n)
    BY <1>5 DEF ClientStepDown, HearLeader, GetStuck, RpcEnds
  <1> QED
    BY <1>1, <1>2, <1>3, <1>4, <1>5 DEF NodeStep, TimerStep

LEMMA RaftStepBeats ==
    ASSUME TypeOK, InOrder, LeaderBeats, RaftStep
    PROVE  LeaderBeats'
  <1>0. At \in Node
    BY AtIsNode
  <1>1. CASE FindLeader \/ PollShutdown \/ JoinTimer
    BY <1>1 DEF FindLeader, PollShutdown, JoinTimer, nodeVars, LeaderBeats
  <1>2. CASE SetFlags
    BY <1>0, <1>2 DEF SetFlags, TypeOK, LeaderBeats
  <1>3. CASE ShutdownNode
    <2>1. stopping[At]
      BY <1>0, <1>3 DEF ShutdownNode, InOrder
    <2> QED
      BY <1>0, <1>3, <2>1 DEF ShutdownNode, TypeOK, LeaderBeats
  <1>4. CASE Notify \/ JoinThreads
    BY <1>4 DEF Notify, JoinThreads, LeaderBeats
  <1> QED
    BY <1>1, <1>2, <1>3, <1>4 DEF RaftStep

\* The steps of a node's threads leave the notifications that are to come.
LEMMA NodeStepWakeup ==
    ASSUME TypeOK, LeaderBeats, WakeupComing, NEW n \in Node, NodeStep(n)
    PROVE  WakeupComing'
  <1>0. \A m \in Node : NotifyComing(m)' <=> NotifyComing(m)
    BY NodeStepKeeps DEF NotifyComing
  <1> USE DEF TypeOK, TimerGoes, MayWake, WakeupComing
  <1>1. CASE TimerLoop(n)
    BY <1>0, <1>1 DEF TimerLoop
  <1>2. CASE TimerWakes(n) \/ TimerDozes(n)
    BY <1>0, <1>2 DEF TimerWakes, TimerDozes
  <1>3. CASE StartElection(n) \/ LoseElection(n) \/ WinElection(n)
    BY <1>0, <1>3 DEF StartElection, LoseElection, WinElection
  <1>4. CASE StopOldHeart(n) \/ JoinOldHeart(n) \/ MayStartHeart(n) \/ StartHeart(n)
    BY <1>0, <1>4 DEF StopOldHeart, JoinOldHeart, MayStartHeart, StartHeart
  <1>5. CASE HeartEnds(n) \/ GetStuck(n) \/ RpcEnds(n)
    BY <1>0, <1>5 DEF HeartEnds, GetStuck, RpcEnds
  <1>6. CASE HeartStepsDown(n) \/ BecomeFollower(n) \/ HearLeader(n)
    <2>1. CASE HeartStepsDown(n)
      BY <1>0, <2>1 DEF HeartStepsDown, NotifyAll
    <2>2. CASE BecomeFollower(n)
      BY <1>0, <2>2 DEF BecomeFollower, NotifyAll
    <2>3. CASE HearLeader(n)
      BY <1>0, <2>3 DEF HearLeader, NotifyAll
    <2> QED
      BY <1>6, <2>1, <2>2, <2>3
  <1>7. CASE ClientStepDown(n)
    BY <1>0, <1>7 DEF ClientStepDown, LeaderBeats
  <1> QED
    BY <1>1, <1>2, <1>3, <1>4, <1>5, <1>6, <1>7 DEF NodeStep, TimerStep

LEMMA RaftStepWakeup ==
    ASSUME TypeOK, InOrder, WakeupComing, RaftStep
    PROVE  WakeupComing'
  <1>0. At \in Node /\ raft.i \in 1 .. Len(Nodes) /\ Len(Nodes) \in Nat
    BY AtIsNode
  <1>1. CASE FindLeader
    <2>1. \A m \in Node : ~NotifyComing(m)
      BY <1>1 DEF FindLeader, NotifyComing
    <2> QED
      BY <1>1, <2>1 DEF FindLeader, nodeVars, WakeupComing, MayWake
  <1>2. CASE PollShutdown
    <2>1. \A m \in Node : NotifyComing(m)'
      BY <1>2 DEF PollShutdown, NotifyComing, RaftAt
    <2> QED
      BY <2>1 DEF WakeupComing
  <1>3. CASE SetFlags
    <2>1. raft'.pc = "flag" \/ (raft'.pc = "notify" /\ raft'.i = 1)
      BY <1>3 DEF SetFlags, RaftNext, RaftAt
    <2>2. \A m \in Node : NotifyComing(m)'
      BY <2>1, NodeHasPlace DEF NotifyComing
    <2> QED
      BY <2>2 DEF WakeupComing
  <1>4. CASE Notify
    <2>1. ASSUME NEW m \in Node, m # At, NotifyComing(m)
          PROVE  NotifyComing(m)'
      <3>1. PICK i \in raft.i .. Len(Nodes) : Nodes[i] = m
        BY <1>4, <2>1 DEF NotifyComing, Notify
      <3>2. i # raft.i
        BY <2>1, <3>1 DEF At
      <3>3. i \in raft.i + 1 .. Len(Nodes) /\ raft.i < Len(Nodes)
        BY <1>0, <3>2
      <3>4. raft'.pc = "notify" /\ raft'.i = raft.i + 1
        BY <1>4, <3>3 DEF Notify, RaftNext, RaftAt
      <3> QED
        BY <3>1, <3>3, <3>4 DEF NotifyComing
    <2>2. /\ timer[At] = "asleep" => notified'[At]
          /\ \A m \in Node : m # At => notified'[m] = notified[m]
          /\ UNCHANGED <<timer, state, stopping, runningHeartbeats>>
      BY <1>0, <1>4 DEF Notify, NotifyAll, TypeOK
    <2> QED
      BY <2>1, <2>2 DEF WakeupComing, MayWake
  <1>5. CASE JoinTimer
    <2>1. \A m \in Node : ~NotifyComing(m)
      BY <1>5 DEF JoinTimer, NotifyComing
    <2> QED
      BY <1>5, <2>1 DEF JoinTimer, nodeVars, WakeupComing, MayWake
  <1>6. CASE ShutdownNode \/ JoinThreads
    <2>1. \A m \in Node : timer'[m] = "ended"
      BY <1>6 DEF ShutdownNode, JoinThreads, InOrder
    <2> QED
      BY <2>1 DEF WakeupComing
  <1> QED
    BY <1>1, <1>2, <1>3, <1>4, <1>5, <1>6 DEF RaftStep

\* WakeupComing is inductive together with the order of the shutdown and with
\* what is known of a leader's heartbeat flag: a client's thread that deposes
\* the leader leaves that flag set.
Wakeup == TypeOK /\ InOrder /\ LeaderBeats /\ WakeupComing

\* In every behaviour of Lifecycle a timer that sleeps although its wait is over
\* has been notified or is going to be by the shutdown, unless
\* handleClientCommand deposed the leader.
THEOREM WakeupIsComing == Spec => []WakeupComing
  <1>1. Init => Wakeup
    <2>1. Init => InOrder
      BY DEF Init, InOrder, RaftAt
    <2>2. Init => LeaderBeats /\ WakeupComing
      BY DEF Init, LeaderBeats, WakeupComing
    <2> QED
      BY <2>1, <2>2, InitType DEF Wakeup
  <1>2. Wakeup /\ [Next]_vars => Wakeup'
    <2> SUFFICES ASSUME Wakeup, [Next]_vars PROVE LeaderBeats' /\ WakeupComing'
      BY NextType, NextOrder DEF Wakeup
    <2>1. CASE \E n \in Node : NodeStep(n)
      BY <2>1, NodeStepBeats, NodeStepWakeup DEF Wakeup
    <2>2. CASE RaftStep
      BY <2>2, RaftStepBeats, RaftStepWakeup DEF Wakeup
    <2>3. CASE \/ ServerLoop \/ Accept \/ \E c \in Client : ClientStep(c)
               \/ UNCHANGED vars
      <3>1. UNCHANGED <<nodeVars, raft>>
        BY <2>3 DEF ServerLoop, Accept, ClientStep, Connect, ExitRaft, ExitServer,
           Exit, Leave, vars, raftVars
      <3> QED
        BY <3>1 DEF Wakeup, nodeVars, LeaderBeats, WakeupComing, MayWake,
           NotifyComing
    <2> QED
      BY <2>1, <2>2, <2>3 DEF Next
  <1> QED
    BY <1>1, <1>2, PTL DEF Spec, Wakeup
=============================================================================
