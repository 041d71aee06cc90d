------------------------ MODULE ElectionSafetyProofs ------------------------
(***************************************************************************)
(* At most one leader per term, for every cluster, every assignment of     *)
(* logs, every loss and restart, as long as RPC exchanges do not overlap.  *)
(* The run two_leaders shows that the condition is needed.                 *)
(*                                                                         *)
(* A node that dies between changing its term or vote and saving it goes   *)
(* back, so what is counted and promised is followed in the files: they    *)
(* never go back, and a thread speaks of a term only once it is saved.     *)
(***************************************************************************)
EXTENDS ElectionProofs

-----------------------------------------------------------------------------
(* What exchanging one at a time means for the threads.                    *)

Active(s) == timer[s].pc # "idle"

AtRest == {"none", "loop", "peers", "ended"}

\* Only one node runs an election, its mutex is free, and no other thread is
\* inside an exchange of heartbeats.
SoleCandidate ==
    \A s \in Server : Active(s) =>
        /\ ~stuck[s]
        /\ \A t \in Server : Active(t) => s = t
        /\ \A t \in Server : stuck[t] \/ heart[t].pc \in AtRest
        /\ \A c \in calls : c.rpc = "AppendEntries" => stuck[c.to]

\* A vote request belongs to the timer thread that waits for it.
Waited(c) ==
    /\ c.live /\ c.from # c.to
    /\ timer[c.from].pc = "waiting" /\ timer[c.from].peer = c.to

VoteCallsWaited ==
    /\ \A s \in Server : timer[s].todo \subseteq Peers(s)
    /\ \A c \in calls : c.rpc = "RequestVote" => Waited(c)
    /\ \A c, d \in calls : c.rpc = "RequestVote" /\ d.rpc = "RequestVote" => c = d

OneAtATime == SoleCandidate /\ VoteCallsWaited

\* A heartbeat belongs to the heartbeat thread that waits for it.
HeartbeatsWaited ==
    /\ \A c \in calls : c.rpc = "AppendEntries" => heart[c.from].pc = "waiting"
    /\ \A c, d \in calls :
          c.rpc = "AppendEntries" /\ d.rpc = "AppendEntries" /\ c.from = d.from => c = d

\* While the heartbeat thread of a node is inside an exchange, nobody else's
\* call is being handled.
SoleSender ==
    \A t \in Server : heart[t].pc \notin AtRest /\ ~stuck[t] =>
        \A c \in calls : stuck[c.to] \/ c.from = t

\* Some handler thread of s is at pc.
HandlerAt(s, pc) == \E c \in calls : c.to = s /\ c.pc = pc

\* A node whose mutex is lost has saved its term.
StuckSaved ==
    \A s \in Server : stuck[s] => heart[s].pc # "save" /\ ~HandlerAt(s, "save")

HeartbeatsSerial == HeartbeatsWaited /\ SoleSender /\ StuckSaved

-----------------------------------------------------------------------------
(* Terms and votes.                                                        *)

\* The metadata files hold what the nodes have in memory, except while a thread
\* has a newer term or a first vote still to save.
FilesFollow ==
    \A s \in Server :
        /\ Unsaved(s) => disk[s].currentTerm < currentTerm[s]
        /\ ~Unsaved(s) => disk[s].currentTerm = currentTerm[s]
        /\ ~Unsaved(s) /\ ~HandlerAt(s, "savevote") => disk[s].votedFor = votedFor[s]

\* A thread that is about to step down does so for a newer term.
StepDownsRise ==
    \A s \in Server :
        /\ timer[s].pc = "stepdown" => timer[s].term > currentTerm[s]
        /\ heart[s].pc = "stepdown" /\ ~stuck[s] => heart[s].term > currentTerm[s]

\* The peers that have voted for s in its present term, and saved it.
VotedNow(s) == {p \in Peers(s) : /\ disk[p].currentTerm = currentTerm[s]
                                 /\ disk[p].votedFor = s}

\* The votes a candidate has counted are still given.
VotesCounted ==
    \A s \in Server :
        /\ timer[s].pc = "save" => votedFor[s] = s /\ timer[s].granted = {}
        /\ timer[s].pc \in {"peers", "waiting", "elected"} =>
              /\ disk[s].currentTerm = currentTerm[s]
              /\ disk[s].votedFor = s
              /\ timer[s].granted \subseteq VotedNow(s)
        /\ timer[s].pc = "elected" =>
              1 + Cardinality(timer[s].granted) > Cardinality(Server) \div 2

\* What a handler has read of its node's term and vote still holds.
FreshVote(c) ==
    c.rpc = "RequestVote" =>
        /\ c.term = currentTerm[c.from]
        /\ c.pc = "newterm" => c.term > currentTerm[c.to]
        /\ c.pc \in {"save", "decide", "grant", "savevote"} => c.term = currentTerm[c.to]
        /\ c.pc = "grant" => votedFor[c.to] \in {NoNode, c.from}
        /\ c.pc = "savevote" => /\ votedFor[c.to] = c.from
                                /\ disk[c.to].votedFor \in {NoNode, c.from}
        /\ c.vote => disk[c.to].currentTerm = c.term /\ disk[c.to].votedFor = c.from

VotesFresh ==
    /\ FilesFollow /\ StepDownsRise /\ VotesCounted
    /\ \A c \in calls : FreshVote(c)

\* The nodes whose files rule out a vote for anybody but e[2] in term e[1].
Voters(e) == {p \in Server : \/ disk[p].currentTerm > e[1]
                             \/ disk[p].currentTerm = e[1] /\ disk[p].votedFor = e[2]}

\* Everybody elected had a majority.
MajoritiesHold == \A e \in elected : 2 * Cardinality(Voters(e)) > Cardinality(Server)

SerialInv ==
    /\ TypeOK
    /\ OneAtATime
    /\ HeartbeatsSerial
    /\ VotesFresh
    /\ MajoritiesHold
    /\ ElectionSafety
    /\ ToldTermsSaved

-----------------------------------------------------------------------------
(* Types, as the proofs below use them.                                    *)

LEMMA SerialTypes ==
    ASSUME TypeOK
    PROVE  /\ currentTerm \in [Server -> Int]
           /\ votedFor \in [Server -> Server \cup {NoNode}]
           /\ stuck \in [Server -> BOOLEAN]
           /\ disk \in [Server -> Metadata]
           /\ timer \in [Server -> TimerThread]
           /\ heart \in [Server -> HeartThread]
           /\ \A s \in Server : timer[s].term \in Int /\ heart[s].term \in Int
  <1>1. elections \in Nat
    BY BoundAssumption DEF TypeOK
  <1>2. Term \subseteq Int
    BY <1>1, TermsAreNaturals
  <1>3. \A s \in Server : timer[s].term \in Term /\ heart[s].term \in Term
    BY DEF TypeOK, TimerThread, HeartThread
  <1> QED
    BY <1>2, <1>3 DEF TypeOK

LEMMA CallTypes ==
    ASSUME TypeOK, NEW c \in calls
    PROVE  /\ c.from \in Server /\ c.to \in Server
           /\ c.term \in Int /\ c.replyTerm \in Int
           /\ c.rpc \in {"RequestVote", "AppendEntries"}
           /\ c.rpc = "RequestVote" => c \in VoteCall
           /\ c.rpc = "AppendEntries" => c \in HeartbeatCall
  <1>1. elections \in Nat
    BY BoundAssumption DEF TypeOK
  <1>2. Term \subseteq Int
    BY <1>1, TermsAreNaturals
  <1> QED
    BY <1>2 DEF TypeOK, VoteCall, HeartbeatCall

\* With one exchange at a time a new one begins only when nothing else goes on.
LEMMA BeginsQuiet ==
    ASSUME ~Overlap, TypeOK, OneAtATime, MayBegin
    PROVE  /\ \A s \in Server : ~Active(s)
           /\ \A s \in Server : stuck[s] \/ heart[s].pc \in AtRest
           /\ \A c \in calls : stuck[c.to]
           /\ \A c \in calls : c.rpc # "RequestVote"
  <1>1. Quiet
    BY DEF MayBegin
  <1>2. \A s \in Server : ~Active(s)
    BY <1>1 DEF Quiet, OneAtATime, SoleCandidate, Active
  <1>3. \A c \in calls : c.rpc # "RequestVote"
    BY <1>2, CallTypes DEF OneAtATime, VoteCallsWaited, Waited, Active
  <1> QED
    BY <1>1, <1>2, <1>3 DEF Quiet, AtRest

\* A vote request runs for the only candidate.
LEMMA VoteCaller ==
    ASSUME TypeOK, OneAtATime, NEW c \in calls, c.rpc = "RequestVote"
    PROVE  /\ c \in VoteCall /\ c.from \in Server /\ c.to \in Server
           /\ c.from # c.to /\ c.live
           /\ timer[c.from].pc = "waiting" /\ timer[c.from].peer = c.to
           /\ ~stuck[c.from]
           /\ \A s \in Server : Active(s) => s = c.from
           /\ \A s \in Server : s # c.from => timer[s].pc = "idle"
           /\ \A t \in Server : stuck[t] \/ heart[t].pc \in AtRest
           /\ \A d \in calls : d.rpc = "RequestVote" => d = c
  <1>1. c \in VoteCall /\ c.from \in Server /\ c.to \in Server
    BY CallTypes
  <1>2. Waited(c) /\ Active(c.from)
    BY DEF OneAtATime, VoteCallsWaited, Waited, Active
  <1>3. \A d \in calls : d.rpc = "RequestVote" => d = c
    BY DEF OneAtATime, VoteCallsWaited
  <1>4. /\ ~stuck[c.from]
        /\ \A s \in Server : Active(s) => s = c.from
        /\ \A t \in Server : stuck[t] \/ heart[t].pc \in AtRest
    BY <1>1, <1>2 DEF OneAtATime, SoleCandidate
  <1> QED
    BY <1>1, <1>2, <1>3, <1>4 DEF Waited, Active

\* While the candidate does not wait for a reply there is no vote request.
LEMMA NoVoteCall ==
    ASSUME TypeOK, OneAtATime, NEW s \in Server, Active(s), timer[s].pc # "waiting"
    PROVE  \A c \in calls : c.rpc # "RequestVote"
  BY VoteCaller

-----------------------------------------------------------------------------
(* Exchanges stay one at a time.                                           *)

LEMMA StartElectionSerial ==
    ASSUME ~Overlap, TypeOK, OneAtATime, NEW s \in Server, StartElection(s)
    PROVE  OneAtATime'
  <1>1. /\ \A q \in Server : ~Active(q)
        /\ \A q \in Server : stuck[q] \/ heart[q].pc \in AtRest
        /\ \A c \in calls : stuck[c.to]
        /\ \A c \in calls : c.rpc # "RequestVote"
    BY BeginsQuiet DEF StartElection
  <1>2. /\ timer'[s].todo = {}
        /\ \A q \in Server \ {s} : timer'[q] = timer[q]
    BY SerialTypes DEF StartElection, IdleTimer
  <1>3. /\ UNCHANGED <<stuck, heart, calls>> /\ ~stuck[s]
    BY DEF StartElection
  <1>4. \A q \in Server : Active(q)' => q = s
    BY <1>1, <1>2 DEF Active
  <1>5. SoleCandidate'
    BY <1>1, <1>3, <1>4 DEF SoleCandidate
  <1>6. VoteCallsWaited'
    BY <1>1, <1>2, <1>3 DEF VoteCallsWaited, OneAtATime
  <1> QED
    BY <1>5, <1>6 DEF OneAtATime

LEMMA TimerStepSerial ==
    ASSUME TypeOK, OneAtATime, NEW s \in Server, TimerStep(s)
    PROVE  OneAtATime'
  <1>0. /\ timer \in [Server -> TimerThread]
        /\ timer[s] \in TimerThread
        /\ heart \in [Server -> HeartThread]
    BY SerialTypes
  <1>1. Active(s) /\ UNCHANGED stuck
    BY DEF TimerStep, SaveCandidacy, AskVote, ReceiveVote, CandidateStepDown,
           SaveCandidateStepDown, CountVotes, BecomeLeader, ResetTimeout,
           StartHeartbeats, Active
  <1>2. /\ ~stuck[s]
        /\ \A t \in Server : Active(t) => t = s
        /\ \A t \in Server : stuck[t] \/ heart[t].pc \in AtRest
        /\ \A c \in calls : c.rpc = "AppendEntries" => stuck[c.to]
        /\ \A q \in Server : timer[q].todo \subseteq Peers(q)
    BY <1>1 DEF OneAtATime, SoleCandidate, VoteCallsWaited
  <1>3. ASSUME /\ \A q \in Server \ {s} : timer'[q] = timer[q]
               /\ \A t \in Server : stuck[t] \/ heart'[t].pc \in AtRest
               /\ \A c \in calls' : c.rpc = "AppendEntries" => c \in calls
        PROVE  SoleCandidate'
    BY <1>1, <1>2, <1>3 DEF SoleCandidate, Active
  <1>4. ASSUME NEW p \in Server, AskVote(s, p) PROVE OneAtATime'
    <2> DEFINE r == RequestVoteCall(s, p)
    <2>1. s # p
      BY <1>2, <1>4 DEF AskVote, Peers
    <2>2. \A c \in calls : c.rpc # "RequestVote"
      BY <1>1, <1>4, NoVoteCall DEF AskVote
    <2>3. /\ timer'[s].todo \subseteq timer[s].todo
          /\ timer'[s].pc = "waiting" /\ timer'[s].peer = p
          /\ \A q \in Server \ {s} : timer'[q] = timer[q]
      BY <1>0, <1>4 DEF AskVote, TimerThread
    <2>4. r.rpc = "RequestVote" /\ r.from = s /\ r.to = p /\ r.live
      BY DEF RequestVoteCall
    <2>5. calls' = calls \cup {r} /\ UNCHANGED heart
      BY <1>4 DEF AskVote
    <2> HIDE DEF r
    <2>6. SoleCandidate'
      BY <1>2, <1>3, <2>3, <2>4, <2>5
    <2>7. VoteCallsWaited'
      BY <1>2, <2>1, <2>2, <2>3, <2>4, <2>5 DEF VoteCallsWaited, Waited
    <2> QED
      BY <2>6, <2>7 DEF OneAtATime
  <1>5. CASE ReceiveVote(s)
    <2>1. PICK c \in Awaited("RequestVote", s, timer[s].peer) :
             /\ calls' = calls \ {c}
             /\ \/ timer' = [timer EXCEPT ![s].pc = "stepdown",
                                          ![s].term = c.replyTerm]
                \/ timer' = [timer EXCEPT ![s].pc = "peers",
                                          ![s].granted = @ \cup VoteOf(c)]
      BY <1>5 DEF ReceiveVote
    <2>2. \A d \in calls' : d \in calls /\ d.rpc # "RequestVote"
      BY <2>1 DEF Awaited, OneAtATime, VoteCallsWaited
    <2>3. /\ timer'[s].todo = timer[s].todo
          /\ \A q \in Server \ {s} : timer'[q] = timer[q]
      BY <2>1, <1>0 DEF TimerThread
    <2>4. UNCHANGED heart
      BY <1>5 DEF ReceiveVote
    <2> QED
      BY <1>2, <1>3, <2>2, <2>3, <2>4 DEF OneAtATime, VoteCallsWaited
  <1>6. CASE \/ SaveCandidacy(s) \/ CandidateStepDown(s)
             \/ SaveCandidateStepDown(s) \/ CountVotes(s) \/ BecomeLeader(s)
             \/ ResetTimeout(s) \/ StartHeartbeats(s)
    <2>1. /\ calls' = calls /\ timer[s].pc # "waiting"
      BY <1>6 DEF SaveCandidacy, CandidateStepDown, SaveCandidateStepDown,
                  CountVotes, BecomeLeader, ResetTimeout, StartHeartbeats
    <2>2. \A c \in calls : c.rpc # "RequestVote"
      BY <1>1, <2>1, NoVoteCall
    <2>3. /\ timer'[s].todo \subseteq Peers(s)
          /\ \A q \in Server \ {s} : timer'[q] = timer[q]
      BY <1>0, <1>2, <1>6
      DEF SaveCandidacy, CandidateStepDown, SaveCandidateStepDown, CountVotes,
          BecomeLeader, ResetTimeout, StartHeartbeats, TimerThread, IdleTimer
    <2>4. \A t \in Server : stuck[t] \/ heart'[t].pc \in AtRest
      <3>1. UNCHANGED heart \/ heart' = [heart EXCEPT ![s].pc = "loop"]
        BY <1>6 DEF SaveCandidacy, CandidateStepDown, SaveCandidateStepDown,
                    CountVotes, BecomeLeader, ResetTimeout, StartHeartbeats
      <3> QED
        BY <1>0, <1>2, <3>1 DEF AtRest, HeartThread
    <2> QED
      BY <1>2, <1>3, <2>1, <2>2, <2>3, <2>4 DEF OneAtATime, VoteCallsWaited
  <1> QED
    BY <1>4, <1>5, <1>6 DEF TimerStep

\* A step that leaves the timers alone and starts no vote request.
LEMMA QuietStepSerial ==
    ASSUME TypeOK, OneAtATime, UNCHANGED timer,
           \A c \in calls' : c.rpc = "RequestVote" => c \in calls,
           SoleCandidate'
    PROVE  OneAtATime'
  BY DEF OneAtATime, VoteCallsWaited, Waited

LEMMA HeartStepSerial ==
    ASSUME ~Overlap, TypeOK, OneAtATime, NEW s \in Server, HeartStep(s)
    PROVE  OneAtATime'
  <1>0. heart \in [Server -> HeartThread] /\ heart[s] \in HeartThread
    BY SerialTypes
  <1>1. UNCHANGED <<timer, stuck>>
    BY DEF HeartStep, HeartbeatRound, SendHeartbeat, EndHeartbeatRound,
           ReceiveHeartbeatReply, LeaderStepDown, SaveLeaderStepDown
  <1>2. ASSUME NEW p \in Server, SendHeartbeat(s, p) PROVE OneAtATime'
    <2>1. \A q \in Server : ~Active(q)
      BY <1>2, BeginsQuiet DEF SendHeartbeat
    <2>2. SoleCandidate'
      BY <1>1, <2>1 DEF SoleCandidate, Active
    <2>3. \A c \in calls' : c.rpc = "RequestVote" => c \in calls
      BY <1>2 DEF SendHeartbeat, AppendEntriesCall
    <2> QED
      BY <1>1, <2>2, <2>3, QuietStepSerial
  <1>3. CASE \/ HeartbeatRound(s) \/ EndHeartbeatRound(s)
             \/ ReceiveHeartbeatReply(s) \/ LeaderStepDown(s)
             \/ SaveLeaderStepDown(s)
    <2>1. calls' \subseteq calls
      BY <1>3 DEF HeartbeatRound, EndHeartbeatRound, ReceiveHeartbeatReply,
                  LeaderStepDown, SaveLeaderStepDown
    <2>2. \A q \in Server \ {s} : heart'[q] = heart[q]
      BY <1>0, <1>3 DEF HeartbeatRound, EndHeartbeatRound,
                        ReceiveHeartbeatReply, LeaderStepDown,
                        SaveLeaderStepDown, HeartAt, NoHeart
    <2>3. heart[s].pc \in AtRest => heart'[s].pc \in AtRest
      BY <1>0, <1>3 DEF HeartbeatRound, EndHeartbeatRound,
                        ReceiveHeartbeatReply, LeaderStepDown,
                        SaveLeaderStepDown, AtRest, HeartAt, NoHeart
    <2>4. SoleCandidate'
      BY <1>1, <2>1, <2>2, <2>3 DEF OneAtATime, SoleCandidate, Active
    <2> QED
      BY <1>1, <2>1, <2>4, QuietStepSerial
  <1> QED
    BY <1>2, <1>3 DEF HeartStep

\* The handler of a vote request leaves the request itself alone.
SameRequest(c, d) ==
    /\ d.rpc = c.rpc /\ d.from = c.from /\ d.to = c.to
    /\ d.live = c.live /\ d.term = c.term

LEMMA VoteCallEdits ==
    ASSUME NEW c \in VoteCall, NEW pc, NEW n
    PROVE  /\ SameRequest(c, [c EXCEPT !.pc = pc])
           /\ SameRequest(c, [c EXCEPT !.pc = pc, !.vote = TRUE])
           /\ SameRequest(c, [c EXCEPT !.pc = pc, !.replyTerm = n])
           /\ [c EXCEPT !.pc = pc].pc = pc
           /\ [c EXCEPT !.pc = pc].vote = c.vote
           /\ [c EXCEPT !.pc = pc, !.vote = TRUE].pc = pc
           /\ [c EXCEPT !.pc = pc, !.replyTerm = n].pc = pc
           /\ [c EXCEPT !.pc = pc, !.replyTerm = n].vote = c.vote
  BY DEF VoteCall, SameRequest

LEMMA HandlerStepSerial ==
    ASSUME TypeOK, OneAtATime, NEW c \in calls, HandlerStep(c)
    PROVE  OneAtATime'
  <1>0. UNCHANGED <<timer, heart>>
    BY DEF HandlerStep, CheckTerm, becomeFollower, SaveTerm, DecideVote,
           GrantVote, SaveVote, ReplyVote, HandleHeartbeat
  <1>1. CASE HandleHeartbeat(c)
    <2>1. c.rpc = "AppendEntries" /\ ~stuck[c.to] /\ c \in HeartbeatCall
      BY <1>1, CallTypes DEF HandleHeartbeat, MutexFree
    <2>2. \A s \in Server : ~Active(s)
      BY <2>1 DEF OneAtATime, SoleCandidate
    <2>3. SoleCandidate'
      BY <1>0, <2>2 DEF SoleCandidate, Active
    <2>4. \A d \in calls' : d.rpc = "RequestVote" => d \in calls
      <3> DEFINE reply == [c EXCEPT !.pc = "replied",
                                    !.replyTerm = currentTerm[c.to]]
      <3>1. reply.rpc = "AppendEntries"
        BY <2>1 DEF HeartbeatCall
      <3>2. Advance(c, reply) \/ UNCHANGED calls
        BY <1>1 DEF HandleHeartbeat
      <3> HIDE DEF reply
      <3> QED
        BY <3>1, <3>2 DEF Advance
    <2> QED
      BY <1>0, <2>3, <2>4, QuietStepSerial
  <1>2. CASE \/ CheckTerm(c) \/ becomeFollower(c) \/ SaveTerm(c)
             \/ DecideVote(c) \/ GrantVote(c) \/ SaveVote(c) \/ ReplyVote(c)
    <2>1. c.rpc = "RequestVote" /\ UNCHANGED stuck
      BY <1>2 DEF CheckTerm, becomeFollower, SaveTerm, DecideVote, GrantVote,
                  SaveVote, ReplyVote
    <2>2. c \in VoteCall /\ Waited(c)
      BY <2>1, CallTypes DEF OneAtATime, VoteCallsWaited
    <2>3. PICK d : Advance(c, d) /\ SameRequest(c, d)
      BY ZenonT(40), <1>2, <2>2, VoteCallEdits
      DEF CheckTerm, becomeFollower, SaveTerm, DecideVote, GrantVote, SaveVote,
          ReplyVote
    <2>4. \A e \in calls' : e = d \/ (e \in calls /\ e # c)
      BY <2>3 DEF Advance
    <2>5. SoleCandidate'
      BY <1>0, <2>1, <2>3, <2>4
      DEF OneAtATime, SoleCandidate, Active, SameRequest
    <2>6. VoteCallsWaited'
      BY <1>0, <2>1, <2>2, <2>3, <2>4
      DEF OneAtATime, VoteCallsWaited, Waited, SameRequest
    <2> QED
      BY <2>5, <2>6 DEF OneAtATime
  <1> QED
    BY <1>1, <1>2 DEF HandlerStep

LEMMA CallTimesOutSerial ==
    ASSUME ~Overlap, TypeOK, OneAtATime, NEW c \in calls, CallTimesOut(c)
    PROVE  OneAtATime'
  <1>0. /\ timer \in [Server -> TimerThread]
        /\ heart \in [Server -> HeartThread]
        /\ c.from \in Server
    BY SerialTypes, CallTypes
  <1>1. calls' = calls \ {c} /\ UNCHANGED stuck
    BY DEF CallTimesOut
  <1>2. CASE c.rpc = "RequestVote"
    <2>1. timer' = [timer EXCEPT ![c.from].pc = "peers"] /\ UNCHANGED heart
      BY <1>2 DEF CallTimesOut
    <2>2. timer[c.from].pc = "waiting"
      BY <1>2, VoteCaller
    <2>3. \A s \in Server : /\ Active(s)' <=> Active(s)
                            /\ timer'[s].todo = timer[s].todo
      BY <1>0, <2>1, <2>2 DEF Active, TimerThread
    <2>4. \A d \in calls' : d \in calls /\ d.rpc # "RequestVote"
      BY <1>1, <1>2, VoteCaller
    <2>5. SoleCandidate'
      BY <1>1, <2>1, <2>3, <2>4 DEF OneAtATime, SoleCandidate
    <2> QED
      BY <2>3, <2>4, <2>5 DEF OneAtATime, VoteCallsWaited
  <1>3. CASE c.rpc = "AppendEntries"
    <2>1. /\ UNCHANGED timer
          /\ \A q \in Server \ {c.from} : heart'[q] = heart[q]
          /\ heart'[c.from].pc \in AtRest
      BY <1>0, <1>3 DEF CallTimesOut, HeartThread, HeartAt, NoHeart, AtRest
    <2>2. SoleCandidate'
      BY <1>1, <2>1 DEF OneAtATime, SoleCandidate, Active
    <2> QED
      BY <1>1, <2>1, <2>2, QuietStepSerial
  <1> QED
    BY <1>2, <1>3, CallTypes

LEMMA NextSerial ==
    ASSUME ~Overlap, TypeOK, OneAtATime, [Next]_vars
    PROVE  OneAtATime'
  <1>1. CASE CrashAndRestart
    BY <1>1 DEF CrashAndRestart, OneAtATime, SoleCandidate, VoteCallsWaited,
                Active, IdleTimer
  <1>2. CASE UNCHANGED vars
    BY <1>2 DEF vars, nodeVars, OneAtATime, SoleCandidate, VoteCallsWaited,
                Active, Waited
  <1> QED
    BY <1>1, <1>2, StartElectionSerial, TimerStepSerial, HeartStepSerial,
       HandlerStepSerial, CallTimesOutSerial DEF Next

-----------------------------------------------------------------------------
(* Heartbeats stay one at a time.                                          *)

\* Calls that end or stay leave the exchanges of heartbeats as they are.
LEMMA FewerCalls ==
    ASSUME HeartbeatsSerial, UNCHANGED <<heart, stuck>>, calls' \subseteq calls
    PROVE  HeartbeatsSerial'
  BY DEF HeartbeatsSerial, HeartbeatsWaited, SoleSender, StuckSaved, HandlerAt

\* A heartbeat thread that moves without sending anything.
LEMMA HeartMoves ==
    ASSUME HeartbeatsSerial, NEW s \in Server, UNCHANGED stuck, calls' \subseteq calls,
           \A q \in Server \ {s} : heart'[q] = heart[q],
           heart'[s].pc \in AtRest \/ heart[s].pc \notin AtRest,
           heart'[s].pc = "save" => ~stuck[s],
           \A c \in calls' : c.from \in Server,
           \A c \in calls' : c.rpc = "AppendEntries" => c.from # s
    PROVE  HeartbeatsSerial'
  <1>1. HeartbeatsWaited'
    BY DEF HeartbeatsSerial, HeartbeatsWaited
  <1>2. SoleSender'
    BY DEF HeartbeatsSerial, SoleSender
  <1>3. StuckSaved'
    BY DEF HeartbeatsSerial, StuckSaved, HandlerAt
  <1> QED
    BY <1>1, <1>2, <1>3 DEF HeartbeatsSerial

\* A handler of a vote request, or its arrival: nobody is sending heartbeats.
LEMMA VoteCallMoves ==
    ASSUME HeartbeatsSerial, UNCHANGED <<heart, stuck>>,
           \A t \in Server : stuck[t] \/ heart[t].pc \in AtRest,
           NEW d, d.rpc = "RequestVote", d.pc = "save" => ~stuck[d.to],
           \A e \in calls' : e \in calls \/ e = d
    PROVE  HeartbeatsSerial'
  <1>1. HeartbeatsWaited'
    BY DEF HeartbeatsSerial, HeartbeatsWaited
  <1>2. SoleSender'
    BY DEF SoleSender
  <1>3. StuckSaved'
    BY DEF HeartbeatsSerial, StuckSaved, HandlerAt
  <1> QED
    BY <1>1, <1>2, <1>3 DEF HeartbeatsSerial

LEMMA TimerStepHeartbeats ==
    ASSUME TypeOK, OneAtATime, HeartbeatsSerial, NEW s \in Server, TimerStep(s)
    PROVE  HeartbeatsSerial'
  <1>0. heart \in [Server -> HeartThread] /\ \A c \in calls : c.from \in Server
    BY SerialTypes, CallTypes
  <1>1. ASSUME NEW p \in Server, AskVote(s, p) PROVE HeartbeatsSerial'
    <2>1. \A t \in Server : stuck[t] \/ heart[t].pc \in AtRest
      BY <1>1 DEF AskVote, OneAtATime, SoleCandidate, Active
    <2>2. PICK d : d = RequestVoteCall(s, p)
      OBVIOUS
    <2>3. d.rpc = "RequestVote" /\ d.pc = "received"
      BY <2>2 DEF RequestVoteCall
    <2>4. UNCHANGED <<heart, stuck>> /\ calls' = calls \cup {d}
      BY <1>1, <2>2 DEF AskVote
    <2> QED
      BY <2>1, <2>3, <2>4, VoteCallMoves
  <1>2. CASE \/ SaveCandidacy(s) \/ ReceiveVote(s) \/ CandidateStepDown(s)
             \/ SaveCandidateStepDown(s) \/ CountVotes(s) \/ BecomeLeader(s)
             \/ ResetTimeout(s)
    <2>1. UNCHANGED <<heart, stuck>> /\ calls' \subseteq calls
      BY <1>2 DEF SaveCandidacy, ReceiveVote, CandidateStepDown,
                  SaveCandidateStepDown, CountVotes, BecomeLeader, ResetTimeout
    <2> QED
      BY <2>1, FewerCalls
  <1>3. CASE StartHeartbeats(s)
    <2>1. /\ UNCHANGED <<stuck, calls>> /\ heart[s].pc \in {"none", "ended"}
          /\ heart' = [heart EXCEPT ![s].pc = "loop"]
      BY <1>3 DEF StartHeartbeats
    <2>2. \A c \in calls : c.rpc = "AppendEntries" => c.from # s
      BY <2>1 DEF HeartbeatsSerial, HeartbeatsWaited
    <2>3. /\ \A q \in Server \ {s} : heart'[q] = heart[q]
          /\ heart'[s].pc = "loop"
      BY <1>0, <2>1 DEF HeartThread
    <2> QED
      BY <1>0, <2>1, <2>2, <2>3, HeartMoves DEF AtRest
  <1> QED
    BY <1>1, <1>2, <1>3 DEF TimerStep

LEMMA HeartStepHeartbeats ==
    ASSUME ~Overlap, TypeOK, OneAtATime, HeartbeatsSerial, NEW s \in Server, HeartStep(s)
    PROVE  HeartbeatsSerial'
  <1>0. /\ heart \in [Server -> HeartThread] /\ heart[s] \in HeartThread
        /\ \A c \in calls : c.from \in Server
    BY SerialTypes, CallTypes
  <1>1. ASSUME NEW p \in Server, SendHeartbeat(s, p) PROVE HeartbeatsSerial'
    <2>1. /\ \A t \in Server : stuck[t] \/ heart[t].pc \in AtRest
          /\ \A c \in calls : stuck[c.to]
      BY <1>1, BeginsQuiet DEF SendHeartbeat
    <2>2. PICK d : d = AppendEntriesCall(s, p)
      OBVIOUS
    <2>3. d.rpc = "AppendEntries" /\ d.from = s /\ d.pc = "received"
      BY <2>2 DEF AppendEntriesCall
    <2>4. /\ UNCHANGED stuck /\ calls' = calls \cup {d} /\ heart[s].pc = "peers"
          /\ heart'[s].pc = "waiting" /\ \A q \in Server \ {s} : heart'[q] = heart[q]
      BY <1>0, <1>1, <2>2 DEF SendHeartbeat, HeartThread
    <2>5. \A c \in calls : c.rpc = "AppendEntries" => c.from # s
      BY <2>4 DEF HeartbeatsSerial, HeartbeatsWaited
    <2>6. HeartbeatsWaited'
      BY <1>0, <2>3, <2>4, <2>5 DEF HeartbeatsSerial, HeartbeatsWaited
    <2>7. SoleSender'
      BY <2>1, <2>3, <2>4 DEF SoleSender
    <2>8. StuckSaved'
      BY <2>3, <2>4 DEF HeartbeatsSerial, StuckSaved, HandlerAt
    <2> QED
      BY <2>6, <2>7, <2>8 DEF HeartbeatsSerial
  <1>2. CASE ReceiveHeartbeatReply(s)
    <2>1. PICK c \in Awaited("AppendEntries", s, heart[s].peer) : calls' = calls \ {c}
      BY <1>2 DEF ReceiveHeartbeatReply
    <2>2. c \in calls /\ c.rpc = "AppendEntries" /\ c.from = s
      BY <2>1 DEF Awaited
    <2>3. \A d \in calls' : d.rpc = "AppendEntries" => d.from # s
      BY <2>1, <2>2 DEF HeartbeatsSerial, HeartbeatsWaited
    <2>4. /\ heart[s].pc = "waiting" /\ UNCHANGED stuck
          /\ \A q \in Server \ {s} : heart'[q] = heart[q]
          /\ heart'[s].pc # "save"
      BY <1>0, <1>2 DEF ReceiveHeartbeatReply, HeartThread, HeartAt, NoHeart
    <2> QED
      BY <1>0, <2>1, <2>3, <2>4, HeartMoves DEF AtRest
  <1>3. CASE \/ HeartbeatRound(s) \/ EndHeartbeatRound(s) \/ LeaderStepDown(s)
             \/ SaveLeaderStepDown(s)
    <2>1. /\ UNCHANGED <<calls, stuck>> /\ heart[s].pc # "waiting"
          /\ \A q \in Server \ {s} : heart'[q] = heart[q]
      BY <1>0, <1>3 DEF HeartbeatRound, EndHeartbeatRound, LeaderStepDown,
                        SaveLeaderStepDown, HeartAt, NoHeart
    <2>2. heart'[s].pc \in AtRest \/ heart[s].pc \notin AtRest
      BY <1>0, <1>3 DEF HeartbeatRound, EndHeartbeatRound, LeaderStepDown,
                        SaveLeaderStepDown, HeartAt, NoHeart, AtRest
    <2>3. heart'[s].pc = "save" => ~stuck[s]
      <3>1. CASE LeaderStepDown(s)
        BY <3>1 DEF LeaderStepDown, MutexFree
      <3>2. CASE HeartbeatRound(s) \/ EndHeartbeatRound(s) \/ SaveLeaderStepDown(s)
        <4>1. heart'[s].pc \in AtRest
          BY <1>0, <3>2 DEF HeartbeatRound, EndHeartbeatRound,
                            SaveLeaderStepDown, HeartAt, NoHeart, AtRest
        <4> QED
          BY <4>1 DEF AtRest
      <3> QED
        BY <1>3, <3>1, <3>2
    <2>4. \A c \in calls : c.rpc = "AppendEntries" => c.from # s
      BY <2>1 DEF HeartbeatsSerial, HeartbeatsWaited
    <2> QED
      BY <1>0, <2>1, <2>2, <2>3, <2>4, HeartMoves
  <1> QED
    BY <1>1, <1>2, <1>3 DEF HeartStep

\* A heartbeat can be handled only at a node that has saved its term and vote.
LEMMA HeartbeatMeets ==
    ASSUME TypeOK, OneAtATime, HeartbeatsSerial, NEW c \in calls, HandleHeartbeat(c)
    PROVE  /\ c \in HeartbeatCall /\ c.rpc = "AppendEntries" /\ ~stuck[c.to]
           /\ \A s \in Server : ~Active(s)
           /\ \A d \in calls : d.rpc # "RequestVote"
           /\ heart[c.to].pc # "save"
  <1>1. c \in HeartbeatCall /\ c.rpc = "AppendEntries" /\ ~stuck[c.to] /\ c.to \in Server
    BY CallTypes DEF HandleHeartbeat, MutexFree
  <1>2. \A s \in Server : ~Active(s)
    BY <1>1 DEF OneAtATime, SoleCandidate
  <1>3. \A d \in calls : d.rpc # "RequestVote"
    BY <1>2, VoteCaller DEF Active
  <1>4. heart[c.to].pc # "save"
    BY <1>1 DEF HeartbeatsSerial, SoleSender, HeartbeatsWaited, AtRest
  <1> QED
    BY <1>1, <1>2, <1>3, <1>4

LEMMA HandlerStepHeartbeats ==
    ASSUME TypeOK, OneAtATime, HeartbeatsSerial, NEW c \in calls, HandlerStep(c)
    PROVE  HeartbeatsSerial'
  <1>0. /\ UNCHANGED heart /\ stuck \in [Server -> BOOLEAN]
        /\ c.from \in Server /\ c.to \in Server
    BY SerialTypes, CallTypes
    DEF HandlerStep, CheckTerm, becomeFollower, SaveTerm, DecideVote, GrantVote,
        SaveVote, ReplyVote, HandleHeartbeat
  <1>1. CASE HandleHeartbeat(c)
    <2>1. /\ c \in HeartbeatCall /\ c.rpc = "AppendEntries" /\ ~stuck[c.to]
          /\ \A d \in calls : d.rpc # "RequestVote"
          /\ heart[c.to].pc # "save"
      BY <1>1, HeartbeatMeets
    <2>2. \A s \in Server : ~HandlerAt(s, "save")
      BY <2>1, CallTypes DEF HandlerAt, HeartbeatCall
    <2>3. PICK d : /\ d.rpc = "AppendEntries" /\ d.from = c.from /\ d.to = c.to
                   /\ d.pc = "replied"
                   /\ Advance(c, d) \/ UNCHANGED calls
      <3> DEFINE reply == [c EXCEPT !.pc = "replied",
                                    !.replyTerm = currentTerm[c.to]]
      <3>1. /\ reply.rpc = "AppendEntries" /\ reply.pc = "replied"
            /\ reply.from = c.from /\ reply.to = c.to
        BY <2>1 DEF HeartbeatCall
      <3>2. Advance(c, reply) \/ UNCHANGED calls
        BY <1>1 DEF HandleHeartbeat
      <3> HIDE DEF reply
      <3> QED
        BY <3>1, <3>2
    <2>4. \A e \in calls' : e \in calls \/ (e = d /\ c \notin calls')
      BY <2>3 DEF Advance
    <2>5. \A q \in Server : /\ stuck[q] => stuck'[q]
                            /\ stuck'[q] => stuck[q] \/ q = c.to
      BY <1>0, <1>1 DEF HandleHeartbeat
    <2>6. HeartbeatsWaited'
      BY <1>0, <2>1, <2>3, <2>4 DEF HeartbeatsSerial, HeartbeatsWaited
    <2>7. SoleSender'
      BY <1>0, <2>3, <2>4, <2>5, CallTypes DEF HeartbeatsSerial, SoleSender
    <2>8. StuckSaved'
      BY <1>0, <2>1, <2>2, <2>3, <2>4, <2>5
      DEF HeartbeatsSerial, StuckSaved, HandlerAt
    <2> QED
      BY <2>6, <2>7, <2>8 DEF HeartbeatsSerial
  <1>2. CASE \/ CheckTerm(c) \/ becomeFollower(c) \/ SaveTerm(c)
             \/ DecideVote(c) \/ GrantVote(c) \/ SaveVote(c) \/ ReplyVote(c)
    <2>1. c.rpc = "RequestVote" /\ UNCHANGED stuck
      BY <1>2 DEF CheckTerm, becomeFollower, SaveTerm, DecideVote, GrantVote,
                  SaveVote, ReplyVote
    <2>2. c \in VoteCall /\ \A t \in Server : stuck[t] \/ heart[t].pc \in AtRest
      BY <2>1, VoteCaller
    <2>3. PICK d : /\ Advance(c, d) /\ SameRequest(c, d)
                   /\ d.pc = "save" => ~stuck[c.to]
      <3>1. ASSUME NEW pc, Advance(c, [c EXCEPT !.pc = pc]), pc = "save" => ~stuck[c.to]
            PROVE  \E d : /\ Advance(c, d) /\ SameRequest(c, d)
                          /\ d.pc = "save" => ~stuck[c.to]
        <4> DEFINE d == [c EXCEPT !.pc = pc]
        <4>1. SameRequest(c, d) /\ d.pc = pc
          BY <2>2, VoteCallEdits
        <4>2. Advance(c, d)
          BY <3>1
        <4> HIDE DEF d
        <4> QED
          BY <3>1, <4>1, <4>2
      <3>2. CASE becomeFollower(c)
        BY <3>1, <3>2 DEF becomeFollower, MutexFree
      <3>3. CASE CheckTerm(c) \/ SaveTerm(c) \/ DecideVote(c) \/ GrantVote(c)
        <4>1. PICK pc : Advance(c, [c EXCEPT !.pc = pc]) /\ pc # "save"
          BY <3>3 DEF CheckTerm, SaveTerm, DecideVote, GrantVote
        <4> QED
          BY <3>1, <4>1
      <3>4. CASE SaveVote(c)
        <4> DEFINE d == [c EXCEPT !.pc = "reply", !.vote = TRUE]
        <4>1. SameRequest(c, d) /\ d.pc = "reply"
          BY <2>2, VoteCallEdits
        <4>2. Advance(c, d)
          BY <3>4 DEF SaveVote
        <4> HIDE DEF d
        <4> QED
          BY <4>1, <4>2
      <3>5. CASE ReplyVote(c)
        <4> DEFINE d == [c EXCEPT !.pc = "replied",
                                  !.replyTerm = currentTerm[c.to]]
        <4>1. SameRequest(c, d) /\ d.pc = "replied"
          BY <2>2 DEF VoteCall, SameRequest
        <4>2. Advance(c, d)
          BY <3>5 DEF ReplyVote
        <4> HIDE DEF d
        <4> QED
          BY <4>1, <4>2
      <3> QED
        BY <1>2, <3>2, <3>3, <3>4, <3>5
    <2>4. \A e \in calls' : e \in calls \/ e = d
      BY <2>3 DEF Advance
    <2> QED
      BY <1>0, <2>1, <2>2, <2>3, <2>4, VoteCallMoves DEF SameRequest
  <1> QED
    BY <1>1, <1>2 DEF HandlerStep

LEMMA CallTimesOutHeartbeats ==
    ASSUME ~Overlap, TypeOK, HeartbeatsSerial, NEW c \in calls, CallTimesOut(c)
    PROVE  HeartbeatsSerial'
  <1>0. /\ heart \in [Server -> HeartThread] /\ c.from \in Server
        /\ \A d \in calls : d.from \in Server
    BY SerialTypes, CallTypes
  <1>1. calls' = calls \ {c} /\ UNCHANGED stuck
    BY DEF CallTimesOut
  <1>2. CASE c.rpc = "RequestVote"
    <2>1. UNCHANGED heart
      BY <1>2 DEF CallTimesOut
    <2> QED
      BY <1>1, <2>1, FewerCalls
  <1>3. CASE c.rpc = "AppendEntries"
    <2>1. \A d \in calls' : d.rpc = "AppendEntries" => d.from # c.from
      BY <1>1, <1>3 DEF HeartbeatsSerial, HeartbeatsWaited
    <2>2. /\ \A q \in Server \ {c.from} : heart'[q] = heart[q]
          /\ heart'[c.from].pc \in {"peers", "loop"}
      BY <1>0, <1>3 DEF CallTimesOut, HeartThread, HeartAt, NoHeart
    <2> QED
      BY <1>0, <1>1, <2>1, <2>2, HeartMoves DEF AtRest
  <1> QED
    BY <1>2, <1>3, CallTypes

LEMMA NextHeartbeats ==
    ASSUME ~Overlap, TypeOK, OneAtATime, HeartbeatsSerial, [Next]_vars
    PROVE  HeartbeatsSerial'
  <1>1. CASE CrashAndRestart
    BY <1>1 DEF CrashAndRestart, HeartbeatsSerial, HeartbeatsWaited, SoleSender,
                StuckSaved, AtRest, NoHeart
  <1>2. CASE UNCHANGED vars
    BY <1>2, FewerCalls DEF vars
  <1>3. ASSUME NEW s \in Server, StartElection(s) PROVE HeartbeatsSerial'
    BY <1>3, FewerCalls DEF StartElection
  <1> QED
    BY <1>1, <1>2, <1>3, TimerStepHeartbeats, HeartStepHeartbeats,
       HandlerStepHeartbeats, CallTimesOutHeartbeats DEF Next

-----------------------------------------------------------------------------
(* Saving.                                                                 *)

\* A file moves to a newer term, or stays in its term and keeps its vote; a node
\* goes back only when it had a term to save.
Kept(q) ==
    /\ \/ disk'[q].currentTerm > disk[q].currentTerm
       \/ /\ disk'[q].currentTerm = disk[q].currentTerm
          /\ disk[q].votedFor = NoNode \/ disk'[q].votedFor = disk[q].votedFor
    /\ currentTerm'[q] >= currentTerm[q] \/ Unsaved(q)

\* Terms in memory and in the files are numbers.
LEMMA NodeTypes ==
    ASSUME TypeOK, NEW s \in Server
    PROVE  /\ currentTerm[s] \in Int /\ disk[s].currentTerm \in Int
           /\ votedFor[s] \in Server \cup {NoNode}
           /\ disk[s].votedFor \in Server \cup {NoNode}
  <1>1. elections \in Nat
    BY BoundAssumption DEF TypeOK
  <1>2. Term \subseteq Int
    BY <1>1, TermsAreNaturals
  <1> QED
    BY <1>2 DEF TypeOK, Metadata

\* The handlers that are about to save belong to vote requests.
LEMMA SavingHandlers ==
    ASSUME TypeOK, NEW c \in calls, c.pc \in {"save", "savevote"}
    PROVE  c.rpc = "RequestVote"
  BY CallTypes DEF HeartbeatCall

\* As long as nodes and files keep term and vote, only the threads matter.
LEMMA SameNodes ==
    ASSUME TypeOK, UNCHANGED <<currentTerm, votedFor, disk>>
    PROVE  /\ \A q \in Server : Kept(q)
           /\ \A q \in Server : VotedNow(q)' = VotedNow(q)
           /\ \A c : FreshVote(c) => FreshVote(c)'
  BY NodeTypes DEF Kept, VotedNow, FreshVote

LEMMA SameSaves ==
    ASSUME FilesFollow, UNCHANGED <<currentTerm, votedFor, disk>>,
           \A q \in Server :
              /\ Unsaved(q)' <=> Unsaved(q)
              /\ HandlerAt(q, "savevote")' <=> HandlerAt(q, "savevote")
    PROVE  FilesFollow'
  BY DEF FilesFollow

\* A node that has nothing to save steps down: its term is the one to be saved.
LEMMA StepDownEffect ==
    ASSUME TypeOK, FilesFollow, NEW s \in Server, NEW t \in Int,
           t > currentTerm[s], StepDown(s, t), UNCHANGED disk,
           ~Unsaved(s), Unsaved(s)',
           \A q \in Server \ {s} :
              /\ Unsaved(q)' <=> Unsaved(q)
              /\ HandlerAt(q, "savevote")' <=> HandlerAt(q, "savevote")
    PROVE  /\ FilesFollow'
           /\ currentTerm'[s] = t /\ votedFor'[s] = NoNode
           /\ \A q \in Server \ {s} : /\ currentTerm'[q] = currentTerm[q]
                                      /\ votedFor'[q] = votedFor[q]
           /\ \A q \in Server : Kept(q)
  <1>1. /\ currentTerm'[s] = t /\ votedFor'[s] = NoNode
        /\ \A q \in Server \ {s} : /\ currentTerm'[q] = currentTerm[q]
                                   /\ votedFor'[q] = votedFor[q]
    BY SerialTypes DEF StepDown
  <1>2. FilesFollow'
    BY <1>1, NodeTypes DEF FilesFollow
  <1>3. \A q \in Server : Kept(q)
    BY <1>1, NodeTypes DEF Kept
  <1> QED
    BY <1>1, <1>2, <1>3

\* A node saves a newer term, a first vote, or what its file holds already.
LEMMA SaveEffect ==
    ASSUME TypeOK, FilesFollow, NEW s \in Server, persistMetadata(s),
           UNCHANGED <<currentTerm, votedFor>>,
           Unsaved(s) \/ disk[s].votedFor \in {NoNode, votedFor[s]},
           ~Unsaved(s)',
           \A q \in Server \ {s} :
              /\ Unsaved(q)' <=> Unsaved(q)
              /\ HandlerAt(q, "savevote")' <=> HandlerAt(q, "savevote")
    PROVE  /\ FilesFollow'
           /\ disk'[s].currentTerm = currentTerm[s]
           /\ disk'[s].votedFor = votedFor[s]
           /\ \A q \in Server \ {s} : disk'[q] = disk[q]
           /\ \A q \in Server : Kept(q)
  <1>1. /\ disk'[s].currentTerm = currentTerm[s] /\ disk'[s].votedFor = votedFor[s]
        /\ \A q \in Server \ {s} : disk'[q] = disk[q]
    BY SerialTypes DEF persistMetadata
  <1>2. FilesFollow'
    BY <1>1 DEF FilesFollow
  <1>3. \A q \in Server : Kept(q)
    BY <1>1, NodeTypes DEF Kept, FilesFollow
  <1> QED
    BY <1>1, <1>2, <1>3

\* A node that has nothing to save writes what its file holds.
LEMMA SaveAgain ==
    ASSUME TypeOK, FilesFollow, NEW s \in Server, persistMetadata(s),
           ~Unsaved(s), ~HandlerAt(s, "savevote")
    PROVE  UNCHANGED disk
  <1>1. /\ disk \in [Server -> Metadata] /\ disk[s] \in Metadata
        /\ disk[s].currentTerm = currentTerm[s] /\ disk[s].votedFor = votedFor[s]
    BY SerialTypes DEF FilesFollow
  <1>2. disk[s] = [currentTerm |-> currentTerm[s], votedFor |-> votedFor[s]]
    BY <1>1 DEF Metadata
  <1> QED
    BY <1>1, <1>2 DEF persistMetadata

\* While a handler of the one vote request runs, the other calls save nothing.
LEMMA HandlerPcs ==
    ASSUME TypeOK, OneAtATime, NEW c \in calls, c.rpc = "RequestVote",
           NEW d, Advance(c, d), SameRequest(c, d), NEW q \in Server
    PROVE  /\ HandlerAt(q, "save") <=> q = c.to /\ c.pc = "save"
           /\ HandlerAt(q, "save")' <=> q = c.to /\ d.pc = "save"
           /\ HandlerAt(q, "savevote") <=> q = c.to /\ c.pc = "savevote"
           /\ HandlerAt(q, "savevote")' <=> q = c.to /\ d.pc = "savevote"
  <1>1. c.live /\ \A e \in calls : e.rpc = "RequestVote" => e = c
    BY VoteCaller
  <1>2. calls' = (calls \ {c}) \cup {d} /\ d.to = c.to
    BY <1>1 DEF Advance, SameRequest
  <1>3. \A e \in calls : e # c => e.pc \notin {"save", "savevote"}
    BY <1>1, SavingHandlers
  <1> QED
    BY <1>2, <1>3 DEF HandlerAt

-----------------------------------------------------------------------------
(* Votes are kept.                                                         *)

\* Before anything begins nothing is left to save.
LEMMA BeginsSaved ==
    ASSUME ~Overlap, TypeOK, OneAtATime, HeartbeatsSerial, MayBegin
    PROVE  /\ \A q \in Server : ~Unsaved(q)
           /\ \A q \in Server : ~HandlerAt(q, "save") /\ ~HandlerAt(q, "savevote")
  <1>1. /\ \A q \in Server : ~Active(q)
        /\ \A q \in Server : stuck[q] \/ heart[q].pc \in AtRest
        /\ \A c \in calls : c.rpc # "RequestVote"
    BY BeginsQuiet
  <1>2. \A c \in calls : c.pc \notin {"save", "savevote"}
    BY <1>1, SavingHandlers
  <1>3. \A q \in Server : heart[q].pc # "save"
    BY <1>1 DEF HeartbeatsSerial, StuckSaved, AtRest
  <1> QED
    BY <1>1, <1>2, <1>3 DEF Unsaved, HandlerAt, Active

\* What a node in the middle of its election has to save.
LEMMA CandidateSaves ==
    ASSUME TypeOK, OneAtATime, NEW s \in Server, Active(s), timer[s].pc # "waiting"
    PROVE  /\ \A c \in calls : c.rpc # "RequestVote"
           /\ \A q \in Server : ~HandlerAt(q, "save") /\ ~HandlerAt(q, "savevote")
           /\ Unsaved(s) <=> timer[s].pc \in {"save", "savedown"}
  <1>1. \A c \in calls : c.rpc # "RequestVote"
    BY NoVoteCall
  <1>2. \A q \in Server : ~HandlerAt(q, "save") /\ ~HandlerAt(q, "savevote")
    BY <1>1, SavingHandlers DEF HandlerAt
  <1>3. heart[s].pc # "save"
    BY DEF OneAtATime, SoleCandidate, AtRest
  <1> QED
    BY <1>1, <1>2, <1>3 DEF Unsaved, HandlerAt

LEMMA StartElectionVotes ==
    ASSUME ~Overlap, TypeOK, OneAtATime, HeartbeatsSerial, VotesFresh,
           NEW s \in Server, StartElection(s)
    PROVE  VotesFresh' /\ \A q \in Server : Kept(q)
  <1>0. /\ currentTerm \in [Server -> Int] /\ votedFor \in [Server -> Server \cup {NoNode}]
        /\ timer \in [Server -> TimerThread]
    BY SerialTypes
  <1>1. /\ \A q \in Server : timer[q].pc = "idle"
        /\ \A q \in Server : stuck[q] \/ heart[q].pc \in AtRest
        /\ \A c \in calls : c.rpc # "RequestVote"
    BY BeginsQuiet DEF StartElection, Active
  <1>2. /\ timer'[s].pc = "save" /\ timer'[s].granted = {}
        /\ \A q \in Server \ {s} : timer'[q] = timer[q]
    BY <1>0, <1>1 DEF StartElection, IdleTimer
  <1>3. /\ currentTerm'[s] = currentTerm[s] + 1 /\ votedFor'[s] = s
        /\ \A q \in Server \ {s} : /\ currentTerm'[q] = currentTerm[q]
                                   /\ votedFor'[q] = votedFor[q]
        /\ UNCHANGED <<disk, heart, stuck, calls>>
    BY <1>0 DEF StartElection
  <1>4. \A q \in Server : Kept(q)
    BY <1>3, NodeTypes DEF Kept
  <1>5. FilesFollow'
    <2>1. \A q \in Server : ~Unsaved(q) /\ ~HandlerAt(q, "savevote")
      BY BeginsSaved DEF StartElection
    <2>2. /\ Unsaved(s)'
          /\ \A q \in Server \ {s} : /\ Unsaved(q)' <=> Unsaved(q)
                                     /\ HandlerAt(q, "savevote")' <=> HandlerAt(q, "savevote")
      BY <1>2, <1>3 DEF Unsaved, HandlerAt
    <2> QED
      BY <1>3, <2>1, <2>2, NodeTypes DEF VotesFresh, FilesFollow
  <1>6. StepDownsRise' /\ VotesCounted'
    BY <1>1, <1>2, <1>3 DEF StepDownsRise, VotesCounted, AtRest
  <1>7. \A c \in calls' : FreshVote(c)'
    BY <1>1, <1>3 DEF FreshVote
  <1> QED
    BY <1>4, <1>5, <1>6, <1>7 DEF VotesFresh

LEMMA TimerStepFresh ==
    ASSUME TypeOK, OneAtATime, VotesFresh, NEW s \in Server, TimerStep(s)
    PROVE  VotesFresh' /\ \A q \in Server : Kept(q)
  <1>0. /\ timer \in [Server -> TimerThread] /\ timer[s] \in TimerThread
        /\ heart \in [Server -> HeartThread]
        /\ currentTerm[s] \in Int /\ timer[s].term \in Int
    BY SerialTypes
  <1>1. Active(s) /\ UNCHANGED stuck
    BY DEF TimerStep, SaveCandidacy, AskVote, ReceiveVote, CandidateStepDown,
           SaveCandidateStepDown, CountVotes, BecomeLeader, ResetTimeout,
           StartHeartbeats, Active
  <1>2. /\ \A q \in Server \ {s} : timer[q].pc = "idle"
        /\ \A q \in Server : stuck[q] \/ heart[q].pc \in AtRest
        /\ FilesFollow
    BY <1>1 DEF OneAtATime, SoleCandidate, Active, VotesFresh
  <1>3. ASSUME NEW p \in Server, AskVote(s, p)
        PROVE  VotesFresh' /\ \A q \in Server : Kept(q)
    <2>1. UNCHANGED <<currentTerm, votedFor, disk, heart>>
      BY <1>3 DEF AskVote, nodeVars
    <2>2. /\ timer[s].pc = "peers" /\ timer'[s].pc = "waiting"
          /\ timer'[s].granted = timer[s].granted
          /\ \A q \in Server \ {s} : timer'[q] = timer[q]
      BY <1>0, <1>3 DEF AskVote, TimerThread
    <2>3. PICK r : r = RequestVoteCall(s, p)
      OBVIOUS
    <2>4. FreshVote(r)' /\ r.pc = "received"
      BY <2>1, <2>3 DEF FreshVote, RequestVoteCall
    <2>5. calls' = calls \cup {r}
      BY <1>3, <2>3 DEF AskVote
    <2>6. \A c \in calls' : FreshVote(c)'
      BY <2>1, <2>4, <2>5, SameNodes DEF VotesFresh
    <2>7. FilesFollow'
      <3>1. \A q \in Server : /\ Unsaved(q)' <=> Unsaved(q)
                              /\ HandlerAt(q, "savevote")' <=> HandlerAt(q, "savevote")
        BY <2>1, <2>2, <2>4, <2>5 DEF Unsaved, HandlerAt
      <3> QED
        BY <1>2, <2>1, <3>1, SameSaves
    <2>8. StepDownsRise'
      BY <1>1, <2>1, <2>2 DEF VotesFresh, StepDownsRise
    <2>9. VotesCounted'
      BY <2>1, <2>2, SameNodes DEF VotesFresh, VotesCounted
    <2> QED
      BY <2>1, <2>6, <2>7, <2>8, <2>9, SameNodes DEF VotesFresh
  <1>4. CASE ReceiveVote(s)
    <2>0. UNCHANGED <<currentTerm, votedFor, disk, heart>> /\ timer[s].pc = "waiting"
      BY <1>4 DEF ReceiveVote, nodeVars
    <2>1. PICK c \in Awaited("RequestVote", s, timer[s].peer) :
             /\ calls' = calls \ {c} /\ c.pc = "replied"
             /\ \/ /\ timer' = [timer EXCEPT ![s].pc = "stepdown",
                                             ![s].term = c.replyTerm]
                   /\ c.replyTerm > currentTerm[s]
                \/ timer' = [timer EXCEPT ![s].pc = "peers",
                                          ![s].granted = @ \cup VoteOf(c)]
      BY <1>4 DEF ReceiveVote
    <2>2. VoteOf(c) \subseteq VotedNow(s)
      <3>1. c \in calls /\ c.rpc = "RequestVote" /\ c.from = s
        BY <2>1 DEF Awaited
      <3>2. c.to \in Server /\ c.to # s
        BY <3>1, VoteCaller
      <3>3. c.vote => disk[c.to].currentTerm = currentTerm[s] /\ disk[c.to].votedFor = s
        BY <3>1 DEF VotesFresh, FreshVote
      <3> QED
        BY <3>2, <3>3 DEF VoteOf, VotedNow, Peers
    <2>3. \A q \in Server \ {s} : timer'[q] = timer[q]
      BY <1>0, <2>1
    <2>4. \/ timer'[s].pc = "stepdown" /\ timer'[s].term > currentTerm[s]
          \/ /\ timer'[s].pc = "peers"
             /\ timer'[s].granted = timer[s].granted \cup VoteOf(c)
      BY <1>0, <2>1 DEF TimerThread
    <2>5. FilesFollow'
      <3>1. \A q \in Server : timer'[q].pc \in {"save", "savedown"}
                                 <=> timer[q].pc \in {"save", "savedown"}
        BY <2>0, <2>3, <2>4
      <3>2. \A q \in Server : /\ HandlerAt(q, "save")' <=> HandlerAt(q, "save")
                              /\ HandlerAt(q, "savevote")' <=> HandlerAt(q, "savevote")
        BY <2>1 DEF HandlerAt
      <3>3. \A q \in Server : Unsaved(q)' <=> Unsaved(q)
        BY <2>0, <3>1, <3>2 DEF Unsaved, HandlerAt
      <3> QED
        BY <1>2, <2>0, <3>2, <3>3, SameSaves
    <2>6. StepDownsRise'
      BY <1>1, <2>0, <2>3, <2>4 DEF VotesFresh, StepDownsRise
    <2>7. VotesCounted'
      BY <2>0, <2>2, <2>3, <2>4, SameNodes DEF VotesFresh, VotesCounted
    <2>8. \A d \in calls' : FreshVote(d)'
      BY <2>0, <2>1, SameNodes DEF VotesFresh
    <2> QED
      BY <2>0, <2>5, <2>6, <2>7, <2>8, SameNodes DEF VotesFresh
  <1>5. CASE SaveCandidacy(s) \/ SaveCandidateStepDown(s)
    <2>1. /\ timer[s].pc \in {"save", "savedown"} /\ persistMetadata(s)
          /\ UNCHANGED <<currentTerm, votedFor, heart, calls>>
      BY <1>5 DEF SaveCandidacy, SaveCandidateStepDown, nodeVars
    <2>2. /\ \A q \in Server \ {s} : timer'[q] = timer[q]
          /\ \/ timer'[s].pc = "idle"
             \/ /\ timer'[s].pc = "peers" /\ timer[s].pc = "save"
                /\ timer'[s].granted = timer[s].granted
      BY <1>0, <1>5
      DEF SaveCandidacy, SaveCandidateStepDown, TimerThread, IdleTimer
    <2>3. /\ \A c \in calls : c.rpc # "RequestVote"
          /\ \A q \in Server : ~HandlerAt(q, "save") /\ ~HandlerAt(q, "savevote")
          /\ Unsaved(s) /\ heart[s].pc # "save"
      BY <1>1, <1>2, <2>1, CandidateSaves DEF OneAtATime, SoleCandidate, AtRest
    <2>4. /\ ~Unsaved(s)'
          /\ \A q \in Server \ {s} : /\ Unsaved(q)' <=> Unsaved(q)
                                     /\ HandlerAt(q, "savevote")' <=> HandlerAt(q, "savevote")
      BY <2>1, <2>2, <2>3 DEF Unsaved, HandlerAt
    <2>5. /\ FilesFollow' /\ \A q \in Server : Kept(q)
          /\ disk'[s].currentTerm = currentTerm[s] /\ disk'[s].votedFor = votedFor[s]
      BY <1>2, <2>1, <2>3, <2>4, SaveEffect
    <2>6. StepDownsRise'
      BY <1>1, <2>1, <2>2 DEF VotesFresh, StepDownsRise
    <2>7. VotesCounted'
      BY <1>2, <2>1, <2>2, <2>5 DEF VotesFresh, VotesCounted
    <2>8. \A c \in calls' : FreshVote(c)'
      BY <2>1, <2>3 DEF FreshVote
    <2> QED
      BY <2>5, <2>6, <2>7, <2>8 DEF VotesFresh
  <1>6. CASE CandidateStepDown(s)
    <2>1. /\ timer[s].pc = "stepdown" /\ timer[s].term > currentTerm[s]
          /\ StepDown(s, timer[s].term)
          /\ UNCHANGED <<disk, heart, calls>>
      BY <1>6 DEF CandidateStepDown, VotesFresh, StepDownsRise
    <2>2. /\ timer'[s].pc = "savedown"
          /\ \A q \in Server \ {s} : timer'[q] = timer[q]
      BY <1>0, <1>6 DEF CandidateStepDown, TimerThread
    <2>3. /\ \A c \in calls : c.rpc # "RequestVote"
          /\ ~Unsaved(s)
      BY <1>1, <2>1, CandidateSaves
    <2>4. /\ Unsaved(s)'
          /\ \A q \in Server \ {s} : /\ Unsaved(q)' <=> Unsaved(q)
                                     /\ HandlerAt(q, "savevote")' <=> HandlerAt(q, "savevote")
      BY <2>1, <2>2 DEF Unsaved, HandlerAt
    <2>5. FilesFollow' /\ \A q \in Server : Kept(q)
      BY <1>0, <1>2, <2>1, <2>3, <2>4, StepDownEffect
    <2>6. StepDownsRise' /\ VotesCounted'
      BY <1>1, <1>2, <2>1, <2>2 DEF StepDownsRise, VotesCounted, AtRest
    <2>7. \A c \in calls' : FreshVote(c)'
      BY <2>1, <2>3 DEF FreshVote
    <2> QED
      BY <2>5, <2>6, <2>7 DEF VotesFresh
  <1>7. CASE CountVotes(s) \/ BecomeLeader(s) \/ ResetTimeout(s)
    <2>1. UNCHANGED <<currentTerm, votedFor, disk, heart, calls>>
      BY <1>7 DEF CountVotes, BecomeLeader, ResetTimeout, nodeVars
    <2>2. /\ timer[s].pc \in {"peers", "elected", "reset"}
          /\ \A q \in Server \ {s} : timer'[q] = timer[q]
          /\ \/ timer'[s].pc \in {"idle", "reset", "join"}
             \/ /\ timer'[s].pc = "elected" /\ timer[s].pc = "peers"
                /\ timer'[s].granted = timer[s].granted
                /\ 1 + Cardinality(timer[s].granted) > Cardinality(Server) \div 2
      BY <1>0, <1>7 DEF CountVotes, BecomeLeader, ResetTimeout, TimerThread, IdleTimer
    <2>3. FilesFollow'
      <3>1. \A q \in Server : /\ Unsaved(q)' <=> Unsaved(q)
                              /\ HandlerAt(q, "savevote")' <=> HandlerAt(q, "savevote")
        BY <2>1, <2>2 DEF Unsaved, HandlerAt
      <3> QED
        BY <1>2, <2>1, <3>1, SameSaves
    <2>4. StepDownsRise'
      BY <1>1, <2>1, <2>2 DEF VotesFresh, StepDownsRise
    <2>5. VotesCounted'
      BY <2>1, <2>2, SameNodes DEF VotesFresh, VotesCounted
    <2>6. \A c \in calls' : FreshVote(c)'
      BY <2>1, SameNodes DEF VotesFresh
    <2> QED
      BY <2>1, <2>3, <2>4, <2>5, <2>6, SameNodes DEF VotesFresh
  <1>8. CASE StartHeartbeats(s)
    <2>1. UNCHANGED <<currentTerm, votedFor, calls>> /\ timer[s].pc = "join"
      BY <1>8 DEF StartHeartbeats
    <2>2. timer'[s].pc = "idle" /\ \A q \in Server \ {s} : timer'[q] = timer[q]
      BY <1>0, <1>8 DEF StartHeartbeats, IdleTimer
    <2>3. /\ heart[s].pc \in {"none", "ended"} /\ heart'[s].pc = "loop"
          /\ \A q \in Server \ {s} : heart'[q] = heart[q]
      BY <1>0, <1>8 DEF StartHeartbeats, HeartThread
    <2>4. UNCHANGED disk
      <3>1. ~Unsaved(s) /\ ~HandlerAt(s, "savevote")
        BY <1>1, <2>1, CandidateSaves
      <3> QED
        BY <1>2, <1>8, <3>1, SaveAgain DEF StartHeartbeats
    <2>5. FilesFollow'
      <3>1. \A q \in Server : /\ Unsaved(q)' <=> Unsaved(q)
                              /\ HandlerAt(q, "savevote")' <=> HandlerAt(q, "savevote")
        BY <2>1, <2>2, <2>3 DEF Unsaved, HandlerAt
      <3> QED
        BY <1>2, <2>1, <2>4, <3>1, SameSaves
    <2>6. StepDownsRise' /\ VotesCounted'
      BY <1>1, <1>2, <2>2, <2>3 DEF StepDownsRise, VotesCounted, AtRest
    <2>7. \A c \in calls' : FreshVote(c)'
      BY <2>1, <2>4, SameNodes DEF VotesFresh
    <2> QED
      BY <2>1, <2>4, <2>5, <2>6, <2>7, SameNodes DEF VotesFresh
  <1> QED
    BY <1>3, <1>4, <1>5, <1>6, <1>7, <1>8 DEF TimerStep

LEMMA HeartStepFresh ==
    ASSUME TypeOK, OneAtATime, HeartbeatsSerial, VotesFresh, NEW s \in Server, HeartStep(s)
    PROVE  VotesFresh' /\ \A q \in Server : Kept(q)
  <1>0. /\ heart \in [Server -> HeartThread] /\ heart[s] \in HeartThread
        /\ currentTerm[s] \in Int /\ heart[s].term \in Int
    BY SerialTypes
  <1>1. UNCHANGED <<timer, stuck>> /\ FilesFollow
    BY DEF HeartStep, HeartbeatRound, SendHeartbeat, EndHeartbeatRound,
           ReceiveHeartbeatReply, LeaderStepDown, SaveLeaderStepDown, VotesFresh
  <1>2. CASE LeaderStepDown(s) \/ SaveLeaderStepDown(s)
    <2>1. /\ heart[s].pc \in {"stepdown", "save"} /\ ~stuck[s]
          /\ \A q \in Server \ {s} : heart'[q] = heart[q]
          /\ UNCHANGED calls
      BY <1>0, <1>2
      DEF LeaderStepDown, SaveLeaderStepDown, HeartbeatsSerial, StuckSaved, MutexFree
    <2>2. \A q \in Server : timer[q].pc = "idle"
      BY <2>1 DEF OneAtATime, SoleCandidate, Active, AtRest
    <2>3. \A c \in calls : c.rpc # "RequestVote"
      BY <2>2, VoteCaller
    <2>4. /\ \A q \in Server : ~HandlerAt(q, "save") /\ ~HandlerAt(q, "savevote")
          /\ Unsaved(s) <=> heart[s].pc = "save"
      BY <2>2, <2>3, SavingHandlers DEF HandlerAt, Unsaved
    <2>5. /\ \A q \in Server \ {s} :
                /\ Unsaved(q)' <=> Unsaved(q)
                /\ HandlerAt(q, "savevote")' <=> HandlerAt(q, "savevote")
          /\ Unsaved(s)' <=> heart'[s].pc = "save"
      BY <1>1, <2>1, <2>2, <2>4 DEF HandlerAt, Unsaved
    <2>6. VotesCounted'
      BY <1>1, <2>2 DEF VotesCounted
    <2>7. \A c \in calls' : FreshVote(c)'
      BY <2>1, <2>3 DEF FreshVote
    <2>8. CASE LeaderStepDown(s)
      <3>1. /\ heart[s].pc = "stepdown" /\ StepDown(s, heart[s].term)
            /\ UNCHANGED disk /\ heart'[s].pc = "save"
        BY <1>0, <2>8 DEF LeaderStepDown, HeartThread
      <3>2. heart[s].term > currentTerm[s]
        BY <2>1, <3>1 DEF VotesFresh, StepDownsRise
      <3>3. /\ FilesFollow' /\ \A q \in Server : Kept(q)
            /\ \A q \in Server \ {s} : currentTerm'[q] = currentTerm[q]
        BY <1>0, <1>1, <2>4, <2>5, <3>1, <3>2, StepDownEffect
      <3>4. StepDownsRise'
        BY <1>1, <2>1, <2>2, <3>1, <3>3 DEF VotesFresh, StepDownsRise
      <3> QED
        BY <2>6, <2>7, <3>3, <3>4 DEF VotesFresh
    <2>9. CASE SaveLeaderStepDown(s)
      <3>1. /\ heart[s].pc = "save" /\ persistMetadata(s)
            /\ UNCHANGED <<currentTerm, votedFor>> /\ heart'[s].pc = "ended"
        BY <1>0, <2>9 DEF SaveLeaderStepDown, HeartAt, NoHeart, nodeVars
      <3>2. FilesFollow' /\ \A q \in Server : Kept(q)
        BY <1>1, <2>4, <2>5, <3>1, SaveEffect
      <3>3. StepDownsRise'
        BY <1>1, <2>1, <2>2, <3>1 DEF VotesFresh, StepDownsRise
      <3> QED
        BY <2>6, <2>7, <3>2, <3>3 DEF VotesFresh
    <2> QED
      BY <1>2, <2>8, <2>9
  <1>3. CASE \/ HeartbeatRound(s) \/ EndHeartbeatRound(s)
             \/ ReceiveHeartbeatReply(s) \/ \E p \in Server : SendHeartbeat(s, p)
    <2>1. UNCHANGED <<currentTerm, votedFor, disk>>
      BY <1>3 DEF HeartbeatRound, EndHeartbeatRound, ReceiveHeartbeatReply,
                  SendHeartbeat, nodeVars
    <2>2. /\ \A c \in calls' : \/ c \in calls
                               \/ c.rpc = "AppendEntries" /\ c.pc = "received"
          /\ \A c \in calls : c \in calls' \/ c.pc = "replied"
      <3>1. ASSUME NEW p \in Server, SendHeartbeat(s, p)
            PROVE  /\ \A c \in calls' : \/ c \in calls
                                        \/ c.rpc = "AppendEntries" /\ c.pc = "received"
                   /\ calls \subseteq calls'
        BY <3>1 DEF SendHeartbeat, AppendEntriesCall
      <3>2. CASE HeartbeatRound(s) \/ EndHeartbeatRound(s)
        BY <3>2 DEF HeartbeatRound, EndHeartbeatRound
      <3>3. CASE ReceiveHeartbeatReply(s)
        BY <3>3 DEF ReceiveHeartbeatReply
      <3> QED
        BY <1>3, <3>1, <3>2, <3>3
    <2>3. /\ \A q \in Server \ {s} : heart'[q] = heart[q]
          /\ heart'[s].pc = "stepdown" => heart'[s].term > currentTerm[s]
          /\ heart[s].pc # "save" /\ heart'[s].pc # "save"
      <3>1. CASE HeartbeatRound(s) \/ EndHeartbeatRound(s)
        <4>1. /\ \A q \in Server \ {s} : heart'[q] = heart[q]
              /\ heart[s].pc \in {"loop", "peers"}
              /\ heart'[s].pc \in {"peers", "ended", "loop"}
          BY <1>0, <3>1 DEF HeartbeatRound, EndHeartbeatRound, HeartAt, NoHeart
        <4> QED
          BY <4>1
      <3>2. ASSUME NEW p \in Server, SendHeartbeat(s, p)
            PROVE  /\ \A q \in Server \ {s} : heart'[q] = heart[q]
                   /\ heart[s].pc = "peers" /\ heart'[s].pc = "waiting"
        BY <1>0, <3>2 DEF SendHeartbeat, HeartThread
      <3>3. CASE ReceiveHeartbeatReply(s)
        BY <1>0, <3>3 DEF ReceiveHeartbeatReply, HeartThread, HeartAt, NoHeart
      <3> QED
        BY <1>3, <3>1, <3>2, <3>3
    <2>4. FilesFollow'
      <3>1. \A q \in Server : /\ HandlerAt(q, "save")' <=> HandlerAt(q, "save")
                              /\ HandlerAt(q, "savevote")' <=> HandlerAt(q, "savevote")
        BY <2>2 DEF HandlerAt
      <3>2. \A q \in Server : Unsaved(q)' <=> Unsaved(q)
        BY <1>1, <2>3, <3>1 DEF Unsaved, HandlerAt
      <3> QED
        BY <1>1, <2>1, <3>1, <3>2, SameSaves
    <2>5. StepDownsRise'
      BY <1>1, <2>1, <2>3 DEF VotesFresh, StepDownsRise
    <2>6. VotesCounted'
      BY <1>1, <2>1, SameNodes DEF VotesFresh, VotesCounted
    <2>7. \A c \in calls' : FreshVote(c)'
      BY <2>1, <2>2, SameNodes DEF VotesFresh, FreshVote
    <2> QED
      BY <2>1, <2>4, <2>5, <2>6, <2>7, SameNodes DEF VotesFresh
  <1> QED
    BY <1>2, <1>3 DEF HeartStep

\* A handler of the one vote request that changes neither node nor file.
LEMMA HandlerReads ==
    ASSUME TypeOK, OneAtATime, VotesFresh, NEW c \in calls,
           CheckTerm(c) \/ DecideVote(c) \/ ReplyVote(c)
    PROVE  VotesFresh' /\ \A q \in Server : Kept(q)
  <1>0. /\ c.to \in Server /\ c.from \in Server /\ c.term \in Int
        /\ currentTerm[c.to] \in Int /\ FilesFollow
    BY CallTypes, NodeTypes DEF VotesFresh
  <1>1. c.rpc = "RequestVote" /\ c \in VoteCall /\ FreshVote(c)
    BY CallTypes DEF CheckTerm, DecideVote, ReplyVote, VotesFresh
  <1>2. UNCHANGED <<currentTerm, votedFor, disk, stuck, timer, heart>>
    BY DEF CheckTerm, DecideVote, ReplyVote, nodeVars
  <1>3. PICK d : /\ Advance(c, d) /\ SameRequest(c, d) /\ d.vote = c.vote
                 /\ c.pc \notin {"save", "savevote"} /\ d.pc \notin {"save", "savevote"}
                 /\ d.pc = "newterm" => c.term > currentTerm[c.to]
                 /\ d.pc \in {"decide", "grant"} => c.term = currentTerm[c.to]
                 /\ d.pc = "grant" => votedFor[c.to] \in {NoNode, c.from}
    <2>1. CASE CheckTerm(c)
      <3> DEFINE pc == IF c.term < currentTerm[c.to] THEN "reply"
                       ELSE IF c.term > currentTerm[c.to] THEN "newterm"
                       ELSE "decide"
                 d == [c EXCEPT !.pc = pc]
      <3>1. Advance(c, d) /\ c.pc = "received"
        BY <2>1 DEF CheckTerm
      <3>2. /\ pc = "newterm" => c.term > currentTerm[c.to]
            /\ pc = "decide" => c.term = currentTerm[c.to]
            /\ pc \in {"reply", "newterm", "decide"}
        BY <1>0
      <3> HIDE DEF pc
      <3>3. SameRequest(c, d) /\ d.pc = pc /\ d.vote = c.vote
        BY <1>1, VoteCallEdits
      <3> HIDE DEF d
      <3> QED
        BY <3>1, <3>2, <3>3
    <2>2. CASE DecideVote(c)
      <3>1. PICK pc \in {"grant", "reply"} :
               /\ Advance(c, [c EXCEPT !.pc = pc])
               /\ pc = "grant" => votedFor[c.to] \in {NoNode, c.from}
        BY <2>2 DEF DecideVote
      <3>2. c.term = currentTerm[c.to] /\ c.pc = "decide"
        BY <1>1, <2>2 DEF DecideVote, FreshVote
      <3> DEFINE d == [c EXCEPT !.pc = pc]
      <3>3. SameRequest(c, d) /\ d.pc = pc /\ d.vote = c.vote /\ Advance(c, d)
        BY <1>1, <3>1, VoteCallEdits
      <3> HIDE DEF d
      <3> QED
        BY <3>1, <3>2, <3>3
    <2>3. CASE ReplyVote(c)
      <3> DEFINE d == [c EXCEPT !.pc = "replied",
                                !.replyTerm = currentTerm[c.to]]
      <3>1. Advance(c, d) /\ c.pc = "reply"
        BY <2>3 DEF ReplyVote
      <3>2. SameRequest(c, d) /\ d.pc = "replied" /\ d.vote = c.vote
        BY <1>1 DEF VoteCall, SameRequest
      <3> HIDE DEF d
      <3> QED
        BY <3>1, <3>2
    <2> QED
      BY <2>1, <2>2, <2>3
  <1>4. FreshVote(d)'
    BY <1>1, <1>2, <1>3 DEF FreshVote, SameRequest
  <1>5. \A e \in calls' : FreshVote(e)'
    BY <1>2, <1>3, <1>4, SameNodes DEF Advance, VotesFresh
  <1>6. FilesFollow'
    <2>1. \A q \in Server : /\ HandlerAt(q, "save")' <=> HandlerAt(q, "save")
                            /\ HandlerAt(q, "savevote")' <=> HandlerAt(q, "savevote")
      BY <1>1, <1>3, HandlerPcs
    <2>2. \A q \in Server : Unsaved(q)' <=> Unsaved(q)
      BY <1>2, <2>1 DEF Unsaved, HandlerAt
    <2> QED
      BY <1>0, <1>2, <2>1, <2>2, SameSaves
  <1>7. StepDownsRise'
    BY <1>2 DEF VotesFresh, StepDownsRise
  <1>8. VotesCounted'
    BY <1>2, SameNodes DEF VotesFresh, VotesCounted
  <1> QED
    BY <1>2, <1>5, <1>6, <1>7, <1>8, SameNodes DEF VotesFresh

\* A handler of the one vote request that changes its node or its file.
LEMMA HandlerWrites ==
    ASSUME TypeOK, OneAtATime, HeartbeatsSerial, VotesFresh, NEW c \in calls,
           becomeFollower(c) \/ SaveTerm(c) \/ GrantVote(c) \/ SaveVote(c)
    PROVE  VotesFresh' /\ \A q \in Server : Kept(q)
  <1>0. /\ currentTerm \in [Server -> Int] /\ votedFor \in [Server -> Server \cup {NoNode}]
        /\ c.to \in Server /\ c.from \in Server /\ c.term \in Int
        /\ \A q \in Server : disk[q].currentTerm \in Int
        /\ FilesFollow
    BY SerialTypes, CallTypes, NodeTypes DEF VotesFresh
  <1>1. /\ c.rpc = "RequestVote" /\ FreshVote(c) /\ UNCHANGED <<timer, heart, stuck>>
        /\ c.pc \in {"newterm", "save", "grant", "savevote"}
    BY DEF becomeFollower, SaveTerm, GrantVote, SaveVote, VotesFresh
  <1>2. /\ c \in VoteCall /\ c.from # c.to
        /\ timer[c.from].pc = "waiting"
        /\ \A q \in Server : q # c.from => timer[q].pc = "idle"
        /\ \A q \in Server : stuck[q] \/ heart[q].pc \in AtRest
        /\ \A d \in calls : d.rpc = "RequestVote" => d = c
    BY <1>1, VoteCaller
  <1>3. \A q \in Server : heart[q].pc # "save"
    BY <1>2 DEF HeartbeatsSerial, StuckSaved, AtRest
  <1>4. StepDownsRise'
    BY <1>1, <1>2 DEF StepDownsRise, AtRest
  <1>5. /\ disk[c.from].currentTerm = currentTerm[c.from]
        /\ disk[c.from].votedFor = c.from
        /\ timer[c.from].granted \subseteq VotedNow(c.from)
        /\ c.term = currentTerm[c.from]
    BY <1>0, <1>1, <1>2 DEF VotesFresh, VotesCounted, FreshVote
  <1>6. ASSUME currentTerm'[c.from] = currentTerm[c.from], disk'[c.from] = disk[c.from],
               \A p \in Server \ {c.to} : disk'[p] = disk[p],
               \/ disk'[c.to] = disk[c.to]
               \/ disk[c.to].currentTerm # c.term
               \/ disk'[c.to].currentTerm = c.term /\ disk'[c.to].votedFor = c.from
        PROVE  VotesCounted'
    <2>1. VotedNow(c.from) \subseteq VotedNow(c.from)'
      BY <1>0, <1>5, <1>6 DEF VotedNow, Peers
    <2> QED
      BY <1>0, <1>1, <1>2, <1>5, <1>6, <2>1 DEF VotesCounted
  <1>7. \A q \in Server : Unsaved(q) <=> q = c.to /\ c.pc = "save"
    <2>1. \A q \in Server : HandlerAt(q, "save") <=> q = c.to /\ c.pc = "save"
      BY <1>1, <1>2, SavingHandlers DEF HandlerAt
    <2> QED
      BY <1>2, <1>3, <2>1 DEF Unsaved, HandlerAt
  <1>8. ASSUME NEW d, Advance(c, d), SameRequest(c, d)
        PROVE  /\ \A q \in Server : Unsaved(q)' <=> q = c.to /\ d.pc = "save"
               /\ \A q \in Server \ {c.to} :
                     HandlerAt(q, "savevote")' <=> HandlerAt(q, "savevote")
    <2>1. \A q \in Server : HandlerAt(q, "save")' <=> q = c.to /\ d.pc = "save"
      BY <1>1, <1>8, HandlerPcs
    <2>2. \A q \in Server : Unsaved(q)' <=> q = c.to /\ d.pc = "save"
      BY <1>1, <1>2, <1>3, <2>1 DEF Unsaved, HandlerAt
    <2>3. \A q \in Server \ {c.to} :
             HandlerAt(q, "savevote")' <=> HandlerAt(q, "savevote")
      BY <1>1, <1>8, HandlerPcs
    <2> QED
      BY <2>2, <2>3
  <1>9. ASSUME NEW d, Advance(c, d), SameRequest(c, d), FreshVote(d)'
        PROVE  \A e \in calls' : FreshVote(e)'
    BY <1>2, <1>9 DEF Advance, FreshVote
  <1>10. CASE becomeFollower(c)
    <2>1. /\ c.term > currentTerm[c.to] /\ c.pc = "newterm"
          /\ StepDown(c.to, c.term) /\ UNCHANGED disk
      BY <1>1, <1>10 DEF becomeFollower, FreshVote
    <2>2. PICK d : Advance(c, d) /\ SameRequest(c, d) /\ d.pc = "save" /\ d.vote = c.vote
      <3> DEFINE d == [c EXCEPT !.pc = "save"]
      <3>1. Advance(c, d)
        BY <1>10 DEF becomeFollower
      <3>2. SameRequest(c, d) /\ d.pc = "save" /\ d.vote = c.vote
        BY <1>2 DEF VoteCall, SameRequest
      <3> HIDE DEF d
      <3> QED
        BY <3>1, <3>2
    <2>3. /\ ~Unsaved(c.to) /\ Unsaved(c.to)'
          /\ \A q \in Server \ {c.to} :
                /\ Unsaved(q)' <=> Unsaved(q)
                /\ HandlerAt(q, "savevote")' <=> HandlerAt(q, "savevote")
      BY <1>0, <1>7, <1>8, <2>1, <2>2
    <2>4. /\ FilesFollow' /\ \A q \in Server : Kept(q)
          /\ currentTerm'[c.to] = c.term
          /\ \A q \in Server \ {c.to} : currentTerm'[q] = currentTerm[q]
      BY <1>0, <2>1, <2>3, StepDownEffect
    <2>5. VotesCounted'
      BY <1>0, <1>2, <1>6, <2>1, <2>4
    <2>6. FreshVote(d)'
      BY <1>0, <1>1, <1>2, <2>1, <2>2, <2>4 DEF FreshVote, SameRequest
    <2> QED
      BY <1>4, <1>9, <2>2, <2>4, <2>5, <2>6 DEF VotesFresh
  <1>11. CASE SaveTerm(c)
    <2>1. /\ c.pc = "save" /\ persistMetadata(c.to) /\ c.term = currentTerm[c.to]
          /\ UNCHANGED <<currentTerm, votedFor>>
      BY <1>1, <1>11 DEF SaveTerm, FreshVote, nodeVars
    <2>2. PICK d : Advance(c, d) /\ SameRequest(c, d) /\ d.pc = "decide" /\ d.vote = c.vote
      <3> DEFINE d == [c EXCEPT !.pc = "decide"]
      <3>1. Advance(c, d)
        BY <1>11 DEF SaveTerm
      <3>2. SameRequest(c, d) /\ d.pc = "decide" /\ d.vote = c.vote
        BY <1>2 DEF VoteCall, SameRequest
      <3> HIDE DEF d
      <3> QED
        BY <3>1, <3>2
    <2>3. /\ Unsaved(c.to) /\ ~Unsaved(c.to)'
          /\ \A q \in Server \ {c.to} :
                /\ Unsaved(q)' <=> Unsaved(q)
                /\ HandlerAt(q, "savevote")' <=> HandlerAt(q, "savevote")
      BY <1>0, <1>7, <1>8, <2>1, <2>2
    <2>4. disk[c.to].currentTerm < c.term
      BY <1>0, <2>1, <2>3 DEF FilesFollow
    <2>5. /\ FilesFollow' /\ \A q \in Server : Kept(q)
          /\ disk'[c.to].currentTerm = currentTerm[c.to]
          /\ \A q \in Server \ {c.to} : disk'[q] = disk[q]
      BY <1>0, <2>1, <2>3, SaveEffect
    <2>6. disk[c.to].currentTerm # c.term
      BY <1>0, <2>4
    <2>7. VotesCounted'
      BY <1>0, <1>2, <1>6, <2>1, <2>5, <2>6
    <2>8. ~c.vote
      BY <1>1, <2>6 DEF FreshVote
    <2>9. FreshVote(d)'
      BY <1>0, <1>1, <1>2, <2>1, <2>2, <2>5, <2>8 DEF FreshVote, SameRequest
    <2> QED
      BY <1>4, <1>9, <2>2, <2>5, <2>7, <2>9 DEF VotesFresh
  <1>12. CASE GrantVote(c)
    <2>1. /\ c.pc = "grant" /\ c.term = currentTerm[c.to]
          /\ votedFor[c.to] \in {NoNode, c.from}
      BY <1>1, <1>12 DEF GrantVote, FreshVote
    <2>2. /\ UNCHANGED <<currentTerm, disk>> /\ votedFor'[c.to] = c.from
          /\ \A q \in Server \ {c.to} : votedFor'[q] = votedFor[q]
      BY <1>0, <1>12 DEF GrantVote
    <2>3. PICK d : Advance(c, d) /\ SameRequest(c, d) /\ d.pc = "savevote" /\ d.vote = c.vote
      <3> DEFINE d == [c EXCEPT !.pc = "savevote"]
      <3>1. Advance(c, d)
        BY <1>12 DEF GrantVote
      <3>2. SameRequest(c, d) /\ d.pc = "savevote" /\ d.vote = c.vote
        BY <1>2 DEF VoteCall, SameRequest
      <3> HIDE DEF d
      <3> QED
        BY <3>1, <3>2
    <2>4. /\ ~Unsaved(c.to) /\ ~HandlerAt(c.to, "savevote")
          /\ HandlerAt(c.to, "savevote")'
          /\ \A q \in Server : Unsaved(q)' <=> Unsaved(q)
          /\ \A q \in Server \ {c.to} :
                HandlerAt(q, "savevote")' <=> HandlerAt(q, "savevote")
      <3>1. /\ ~HandlerAt(c.to, "savevote") /\ HandlerAt(c.to, "savevote")'
        BY <1>0, <1>1, <2>1, <2>3, HandlerPcs
      <3> QED
        BY <1>0, <1>7, <1>8, <2>1, <2>3, <3>1
    <2>5. disk[c.to].votedFor \in {NoNode, c.from}
      BY <1>0, <2>1, <2>4 DEF FilesFollow
    <2>6. FilesFollow'
      BY <1>0, <2>2, <2>4 DEF FilesFollow
    <2>7. \A q \in Server : Kept(q)
      BY <1>0, <2>2 DEF Kept
    <2>8. VotesCounted'
      BY <1>0, <1>6, <2>2
    <2>9. FreshVote(d)'
      BY <1>0, <1>1, <1>2, <2>1, <2>2, <2>3, <2>5 DEF FreshVote, SameRequest
    <2> QED
      BY <1>4, <1>9, <2>3, <2>6, <2>7, <2>8, <2>9 DEF VotesFresh
  <1>13. CASE SaveVote(c)
    <2>1. /\ c.pc = "savevote" /\ persistMetadata(c.to) /\ c.term = currentTerm[c.to]
          /\ votedFor[c.to] = c.from /\ disk[c.to].votedFor \in {NoNode, c.from}
          /\ UNCHANGED <<currentTerm, votedFor>>
      BY <1>1, <1>13 DEF SaveVote, FreshVote, nodeVars
    <2>2. PICK d : Advance(c, d) /\ SameRequest(c, d) /\ d.pc = "reply"
      <3> DEFINE d == [c EXCEPT !.pc = "reply", !.vote = TRUE]
      <3>1. Advance(c, d)
        BY <1>13 DEF SaveVote
      <3>2. SameRequest(c, d) /\ d.pc = "reply"
        BY <1>2 DEF VoteCall, SameRequest
      <3> HIDE DEF d
      <3> QED
        BY <3>1, <3>2
    <2>3. /\ ~Unsaved(c.to)'
          /\ \A q \in Server \ {c.to} :
                /\ Unsaved(q)' <=> Unsaved(q)
                /\ HandlerAt(q, "savevote")' <=> HandlerAt(q, "savevote")
      BY <1>0, <1>7, <1>8, <2>1, <2>2
    <2>4. /\ FilesFollow' /\ \A q \in Server : Kept(q)
          /\ disk'[c.to].currentTerm = currentTerm[c.to]
          /\ disk'[c.to].votedFor = votedFor[c.to]
          /\ \A q \in Server \ {c.to} : disk'[q] = disk[q]
      BY <1>0, <2>1, <2>3, SaveEffect
    <2>5. VotesCounted'
      BY <1>0, <1>2, <1>6, <2>1, <2>4
    <2>6. FreshVote(d)'
      BY <1>0, <1>1, <1>2, <2>1, <2>2, <2>4 DEF FreshVote, SameRequest
    <2> QED
      BY <1>4, <1>9, <2>2, <2>4, <2>5, <2>6 DEF VotesFresh
  <1> QED
    BY <1>10, <1>11, <1>12, <1>13

LEMMA HandlerStepFresh ==
    ASSUME TypeOK, OneAtATime, HeartbeatsSerial, VotesFresh, NEW c \in calls, HandlerStep(c)
    PROVE  VotesFresh' /\ \A q \in Server : Kept(q)
  <1>1. CASE HandleHeartbeat(c)
    <2>1. /\ c \in HeartbeatCall /\ c.rpc = "AppendEntries" /\ c.to \in Server
          /\ \A q \in Server : ~Active(q)
          /\ \A d \in calls : d.rpc # "RequestVote"
          /\ heart[c.to].pc # "save"
          /\ stuck \in [Server -> BOOLEAN]
      BY <1>1, HeartbeatMeets, CallTypes, SerialTypes
    <2>2. UNCHANGED <<currentTerm, votedFor, timer, heart>>
      BY <1>1 DEF HandleHeartbeat
    <2>3. \A q \in Server : ~HandlerAt(q, "save") /\ ~HandlerAt(q, "savevote")
      BY <2>1, SavingHandlers DEF HandlerAt
    <2>4. UNCHANGED disk
      <3>1. ~Unsaved(c.to)
        BY <2>1, <2>3 DEF Unsaved, HandlerAt, Active
      <3>2. UNCHANGED disk \/ persistMetadata(c.to)
        BY <1>1 DEF HandleHeartbeat
      <3> QED
        BY <2>1, <2>3, <3>1, <3>2, SaveAgain DEF VotesFresh
    <2>5. \A d \in calls' : \/ d \in calls
                            \/ d.rpc = "AppendEntries" /\ d.pc = "replied"
      <3> DEFINE reply == [c EXCEPT !.pc = "replied",
                                    !.replyTerm = currentTerm[c.to]]
      <3>1. reply.rpc = "AppendEntries" /\ reply.pc = "replied"
        BY <2>1 DEF HeartbeatCall
      <3>2. Advance(c, reply) \/ UNCHANGED calls
        BY <1>1 DEF HandleHeartbeat
      <3> HIDE DEF reply
      <3> QED
        BY <3>1, <3>2 DEF Advance
    <2>6. FilesFollow'
      <3>1. \A q \in Server : ~HandlerAt(q, "save")' /\ ~HandlerAt(q, "savevote")'
        BY <2>3, <2>5 DEF HandlerAt
      <3>2. \A q \in Server : Unsaved(q)' <=> Unsaved(q)
        BY <2>2, <2>3, <3>1 DEF Unsaved, HandlerAt
      <3> QED
        BY <2>2, <2>3, <2>4, <3>1, <3>2, SameSaves DEF VotesFresh
    <2>7. \A q \in Server : stuck[q] => stuck'[q]
      BY <1>1, <2>1 DEF HandleHeartbeat
    <2>8. StepDownsRise'
      BY <2>2, <2>7 DEF VotesFresh, StepDownsRise
    <2>9. VotesCounted'
      BY <2>2, <2>4, SameNodes DEF VotesFresh, VotesCounted
    <2>10. \A d \in calls' : FreshVote(d)'
      BY <2>2, <2>4, <2>5, SameNodes DEF VotesFresh, FreshVote
    <2> QED
      BY <2>2, <2>4, <2>6, <2>8, <2>9, <2>10, SameNodes DEF VotesFresh
  <1> QED
    BY <1>1, HandlerReads, HandlerWrites DEF HandlerStep

LEMMA CallTimesOutFresh ==
    ASSUME ~Overlap, TypeOK, OneAtATime, HeartbeatsSerial, VotesFresh,
           NEW c \in calls, CallTimesOut(c)
    PROVE  VotesFresh' /\ \A q \in Server : Kept(q)
  <1>0. /\ timer \in [Server -> TimerThread] /\ heart \in [Server -> HeartThread]
        /\ c.from \in Server
    BY SerialTypes, CallTypes
  <1>1. /\ calls' = calls \ {c} /\ c.pc \notin {"save", "savevote"}
        /\ UNCHANGED <<currentTerm, votedFor, stuck, disk>>
    BY DEF CallTimesOut, Undelivered, nodeVars
  <1>2. \A q \in Server : /\ timer'[q].granted = timer[q].granted
                          /\ \/ timer'[q].pc = timer[q].pc
                             \/ timer[q].pc = "waiting" /\ timer'[q].pc = "peers"
                          /\ timer'[q].term = timer[q].term
    <2>1. CASE c.rpc = "RequestVote"
      <3>1. timer[c.from].pc = "waiting"
        BY <2>1, VoteCaller
      <3>2. timer' = [timer EXCEPT ![c.from].pc = "peers"]
        BY <2>1 DEF CallTimesOut
      <3>3. \A q \in Server \ {c.from} : timer'[q] = timer[q]
        BY <1>0, <3>2
      <3>4. /\ timer'[c.from].pc = "peers"
            /\ timer'[c.from].granted = timer[c.from].granted
            /\ timer'[c.from].term = timer[c.from].term
        BY <1>0, <3>2 DEF TimerThread
      <3> QED
        BY <1>0, <3>1, <3>3, <3>4
    <2>2. CASE c.rpc # "RequestVote"
      <3>1. UNCHANGED timer
        BY <2>2 DEF CallTimesOut
      <3> QED
        BY <3>1
    <2> QED
      BY <2>1, <2>2
  <1>3. \A q \in Server : \/ heart'[q] = heart[q]
                          \/ /\ heart[q].pc = "waiting"
                             /\ heart'[q].pc \in {"peers", "loop"}
    <2>1. CASE c.rpc = "AppendEntries"
      <3>1. heart[c.from].pc = "waiting"
        BY <2>1 DEF HeartbeatsSerial, HeartbeatsWaited
      <3> QED
        BY <1>0, <2>1, <3>1 DEF CallTimesOut, HeartThread, HeartAt, NoHeart
    <2>2. CASE c.rpc = "RequestVote"
      BY <2>2 DEF CallTimesOut
    <2> QED
      BY <2>1, <2>2, CallTypes
  <1>4. FilesFollow'
    <2>1. \A q \in Server : /\ HandlerAt(q, "save")' <=> HandlerAt(q, "save")
                            /\ HandlerAt(q, "savevote")' <=> HandlerAt(q, "savevote")
      BY <1>1 DEF HandlerAt
    <2>2. \A q \in Server : Unsaved(q)' <=> Unsaved(q)
      BY <1>2, <1>3, <2>1 DEF Unsaved, HandlerAt
    <2> QED
      BY <1>1, <2>1, <2>2, SameSaves DEF VotesFresh
  <1>5. StepDownsRise'
    BY <1>1, <1>2, <1>3 DEF VotesFresh, StepDownsRise
  <1>6. VotesCounted'
    BY <1>1, <1>2, SameNodes DEF VotesFresh, VotesCounted
  <1>7. \A d \in calls' : FreshVote(d)'
    BY <1>1, SameNodes DEF VotesFresh
  <1> QED
    BY <1>1, <1>4, <1>5, <1>6, <1>7, SameNodes DEF VotesFresh

\* After a restart every node has the term and the vote of its file.
LEMMA CrashAndRestartFresh ==
    ASSUME TypeOK, VotesFresh, CrashAndRestart
    PROVE  VotesFresh' /\ \A q \in Server : Kept(q)
  <1>1. /\ \A q \in Server : /\ currentTerm'[q] = disk[q].currentTerm
                             /\ votedFor'[q] = disk[q].votedFor
        /\ UNCHANGED disk /\ calls' = {}
        /\ \A q \in Server : timer'[q].pc = "idle" /\ heart'[q].pc = "none"
    BY DEF CrashAndRestart, IdleTimer, NoHeart
  <1>2. \A q \in Server : ~Unsaved(q)'
    BY <1>1 DEF Unsaved
  <1>3. FilesFollow'
    BY <1>1, <1>2 DEF FilesFollow
  <1>4. \A q \in Server : Kept(q)
    BY <1>1, NodeTypes DEF Kept, VotesFresh, FilesFollow
  <1>5. StepDownsRise' /\ VotesCounted' /\ \A c \in calls' : FreshVote(c)'
    BY <1>1 DEF StepDownsRise, VotesCounted
  <1> QED
    BY <1>3, <1>4, <1>5 DEF VotesFresh

\* Every step keeps what has been read, counted and saved true, and no step takes
\* a file back in its term or lets it change its vote.
LEMMA NextFresh ==
    ASSUME ~Overlap, TypeOK, OneAtATime, HeartbeatsSerial, VotesFresh, [Next]_vars
    PROVE  VotesFresh' /\ \A q \in Server : Kept(q)
  <1>1. CASE UNCHANGED vars
    <2>1. UNCHANGED <<currentTerm, votedFor, disk, stuck, timer, heart, calls>>
      BY <1>1 DEF vars, nodeVars
    <2>2. FilesFollow'
      BY <2>1 DEF VotesFresh, FilesFollow, Unsaved, HandlerAt
    <2>3. VotesCounted' /\ StepDownsRise'
      BY <2>1, SameNodes DEF VotesFresh, StepDownsRise, VotesCounted
    <2> QED
      BY <2>1, <2>2, <2>3, SameNodes DEF VotesFresh
  <1> QED
    BY <1>1, StartElectionVotes, TimerStepFresh, HeartStepFresh,
       HandlerStepFresh, CallTimesOutFresh, CrashAndRestartFresh DEF Next

-----------------------------------------------------------------------------
(* One leader per term.                                                    *)

\* Two majorities have a node in common.
LEMMA MajoritiesMeet ==
    ASSUME NEW A, NEW B, A \subseteq Server, B \subseteq Server,
           2 * Cardinality(A) > Cardinality(Server),
           2 * Cardinality(B) > Cardinality(Server)
    PROVE  A \cap B # {}
  <1>1. IsFiniteSet(Server) /\ IsFiniteSet(A) /\ IsFiniteSet(B)
    BY ServerAssumption, FS_Subset
  <1>2. Cardinality(A \cup B) = Cardinality(A) + Cardinality(B) - Cardinality(A \cap B)
    BY <1>1, FS_Union
  <1>3. Cardinality(A \cup B) <= Cardinality(Server)
    BY <1>1, FS_Subset
  <1>4. A \cap B = {} => Cardinality(A \cap B) = 0
    BY FS_EmptySet
  <1>5. /\ Cardinality(A) \in Nat /\ Cardinality(B) \in Nat
        /\ Cardinality(Server) \in Nat
    BY <1>1, FS_CardinalityType
  <1> QED
    BY <1>2, <1>3, <1>4, <1>5

\* The voters of a leader remain its voters.
LEMMA VotersRemain ==
    ASSUME TypeOK, TypeOK', \A q \in Server : Kept(q), NEW e \in elected
    PROVE  Cardinality(Voters(e)) <= Cardinality(Voters(e)')
  <1>0. /\ \A q \in Server : /\ disk[q].currentTerm \in Int
                             /\ disk'[q].currentTerm \in Int
        /\ e[1] \in Int /\ e[2] # NoNode
    <2>1. elections \in Nat /\ elections' \in Nat
      BY BoundAssumption DEF TypeOK
    <2>2. Term \subseteq Int /\ Term' \subseteq Int
      BY <2>1, BoundAssumption DEF Term
    <2> QED
      BY <2>2, ServerAssumption DEF TypeOK, Metadata
  <1>1. Voters(e) \subseteq Voters(e)'
    BY <1>0 DEF Voters, Kept
  <1>2. IsFiniteSet(Voters(e)')
    BY ServerAssumption, FS_Subset DEF Voters
  <1> QED
    BY <1>1, <1>2, FS_Subset

\* The votes counted make a majority that votes for the new leader, so nobody
\* else can have been elected in that term.
LEMMA BecomeLeaderSafe ==
    ASSUME SerialInv, NEW s \in Server, BecomeLeader(s)
    PROVE  LET new == <<currentTerm[s], s>>
           IN  /\ 2 * Cardinality(Voters(new)) > Cardinality(Server)
               /\ \A f \in elected : f[1] = currentTerm[s] => f = new
  <1> DEFINE new == <<currentTerm[s], s>>
             G == timer[s].granted
             Q == G \cup {s}
  <1>1. /\ disk[s].currentTerm = currentTerm[s] /\ disk[s].votedFor = s
        /\ G \subseteq VotedNow(s)
        /\ 1 + Cardinality(G) > Cardinality(Server) \div 2
    BY DEF BecomeLeader, SerialInv, VotesFresh, VotesCounted
  <1>2. \A p \in Q : /\ p \in Server
                     /\ disk[p].currentTerm = currentTerm[s] /\ disk[p].votedFor = s
    BY <1>1 DEF VotedNow, Peers
  <1>3. s \notin G /\ IsFiniteSet(G) /\ IsFiniteSet(Server)
    BY <1>1, ServerAssumption, FS_Subset DEF VotedNow, Peers
  <1>4. Cardinality(Q) = Cardinality(G) + 1
    BY <1>3, FS_AddElement
  <1>5. Cardinality(G) \in Nat /\ Cardinality(Server) \in Nat
    BY <1>3, FS_CardinalityType
  <1>6. 2 * Cardinality(Q) > Cardinality(Server)
    BY <1>1, <1>4, <1>5
  <1>7. 2 * Cardinality(Voters(new)) > Cardinality(Server)
    <2>1. Q \subseteq Voters(new) /\ Voters(new) \subseteq Server
      BY <1>2 DEF Voters
    <2>2. IsFiniteSet(Voters(new))
      BY <1>3, <2>1, FS_Subset
    <2>3. Cardinality(Q) <= Cardinality(Voters(new)) /\ Cardinality(Voters(new)) \in Nat
      BY <2>1, <2>2, FS_Subset, FS_CardinalityType
    <2> QED
      BY <1>4, <1>5, <1>6, <2>3
  <1>8. ASSUME NEW f \in elected, f[1] = currentTerm[s] PROVE f = new
    <2>0. f \in Term \X Server /\ currentTerm[s] \in Int
      BY SerialTypes DEF SerialInv, TypeOK
    <2>1. 2 * Cardinality(Voters(f)) > Cardinality(Server)
      BY DEF SerialInv, MajoritiesHold
    <2>2. Q \subseteq Server /\ Voters(f) \subseteq Server
      BY <1>2 DEF Voters
    <2> HIDE DEF Q
    <2>3. Q \cap Voters(f) # {}
      BY <1>6, <2>1, <2>2, MajoritiesMeet
    <2>4. PICK p \in Q : p \in Voters(f)
      BY <2>3
    <2>5. f[2] = s
      BY <1>2, <1>8, <2>0, <2>4 DEF Voters
    <2> QED
      BY <1>8, <2>0, <2>5
  <1> QED
    BY <1>7, <1>8

\* Only BecomeLeader adds to elected.
LEMMA ElectedSteps ==
    ASSUME [Next]_vars
    PROVE  \/ elected' = elected
           \/ \E s \in Server : BecomeLeader(s)
  BY ZenonT(40) DEF Next, StartElection, TimerStep, SaveCandidacy, AskVote,
         ReceiveVote, CandidateStepDown, SaveCandidateStepDown, CountVotes,
         ResetTimeout, StartHeartbeats, HeartStep, HeartbeatRound, SendHeartbeat,
         EndHeartbeatRound, ReceiveHeartbeatReply, LeaderStepDown,
         SaveLeaderStepDown, HandlerStep, CheckTerm, becomeFollower, SaveTerm,
         DecideVote, GrantVote, SaveVote, ReplyVote, HandleHeartbeat,
         CallTimesOut, CrashAndRestart, vars

-----------------------------------------------------------------------------
(* A term is told only when it is saved.                                   *)

\* The terms a call carries are in the files of the nodes they come from.
ToldSaved(c) == /\ c.term <= disk[c.from].currentTerm
                /\ c.replyTerm <= disk[c.to].currentTerm

\* They stay there, since no file goes back to an older term.
LEMMA ToldStays ==
    ASSUME TypeOK, TypeOK', \A q \in Server : Kept(q)
    PROVE  /\ \A q \in Server : disk[q].currentTerm <= disk'[q].currentTerm
           /\ \A c \in calls : ToldSaved(c) => ToldSaved(c)'
  <1>1. elections \in Nat /\ elections' \in Nat
    BY BoundAssumption DEF TypeOK
  <1>2. Term \subseteq Int /\ Term' \subseteq Int
    BY <1>1, BoundAssumption DEF Term
  <1>3. \A q \in Server : disk[q].currentTerm \in Int /\ disk'[q].currentTerm \in Int
    BY <1>2 DEF TypeOK, Metadata
  <1>4. \A q \in Server : disk[q].currentTerm <= disk'[q].currentTerm
    BY <1>3 DEF Kept
  <1>5. ASSUME NEW c \in calls, ToldSaved(c) PROVE ToldSaved(c)'
    <2>1. /\ c.from \in Server /\ c.to \in Server
          /\ c.term \in Int /\ c.replyTerm \in Int
      BY CallTypes
    <2> QED
      BY <1>3, <1>4, <1>5, <2>1 DEF ToldSaved
  <1> QED
    BY <1>4, <1>5

\* What a node sends or answers while it has nothing to save.
LEMMA SavedTerm ==
    ASSUME TypeOK, FilesFollow, NEW s \in Server, ~Unsaved(s)
    PROVE  currentTerm[s] <= disk[s].currentTerm /\ 0 <= disk[s].currentTerm
  <1>1. disk[s].currentTerm \in Term /\ currentTerm[s] \in Term
    BY DEF TypeOK, Metadata
  <1>2. elections \in Nat
    BY BoundAssumption DEF TypeOK
  <1> QED
    BY <1>1, <1>2, BoundAssumption DEF Term, FilesFollow

\* A handler hands its answer over: only the reply's term is new.
LEMMA ToldByReply ==
    ASSUME TypeOK, NEW c \in calls, NEW d, Advance(c, d),
           d.from = c.from, d.to = c.to, d.term = c.term, ToldSaved(c)',
           d.replyTerm = c.replyTerm \/ d.replyTerm <= disk'[c.to].currentTerm,
           \A e \in calls : ToldSaved(e)'
    PROVE  \A e \in calls' : ToldSaved(e)'
  <1>1. ToldSaved(d)'
    BY DEF ToldSaved
  <1> QED
    BY <1>1 DEF Advance

LEMMA HandlerTold ==
    ASSUME TypeOK, OneAtATime, HeartbeatsSerial, VotesFresh, NEW c \in calls,
           HandlerStep(c), \A e \in calls : ToldSaved(e)'
    PROVE  \A e \in calls' : ToldSaved(e)'
  <1>0. c.to \in Server /\ c.from \in Server /\ FilesFollow
    BY CallTypes DEF VotesFresh
  <1>1. CASE HandleHeartbeat(c)
    <2>1. /\ c \in HeartbeatCall
          /\ \A q \in Server : ~Active(q)
          /\ \A d \in calls : d.rpc # "RequestVote"
          /\ heart[c.to].pc # "save"
      BY <1>1, HeartbeatMeets
    <2>2. ~Unsaved(c.to) /\ ~HandlerAt(c.to, "savevote")
      BY <1>0, <2>1, SavingHandlers DEF Unsaved, HandlerAt, Active
    <2>3. UNCHANGED disk
      BY <1>0, <1>1, <2>2, SaveAgain DEF HandleHeartbeat
    <2>4. currentTerm[c.to] <= disk'[c.to].currentTerm
      BY <1>0, <2>2, <2>3, SavedTerm
    <2> DEFINE reply == [c EXCEPT !.pc = "replied",
                                  !.replyTerm = currentTerm[c.to]]
    <2>5. /\ reply.from = c.from /\ reply.to = c.to /\ reply.term = c.term
          /\ reply.replyTerm = currentTerm[c.to]
      BY <2>1 DEF HeartbeatCall
    <2>6. Advance(c, reply) \/ UNCHANGED calls
      BY <1>1 DEF HandleHeartbeat
    <2> HIDE DEF reply
    <2> QED
      BY <2>4, <2>5, <2>6, ToldByReply
  <1>2. CASE ReplyVote(c)
    <2>1. /\ c.rpc = "RequestVote" /\ c.pc = "reply"
          /\ UNCHANGED disk
      BY <1>2 DEF ReplyVote
    <2>2. /\ c \in VoteCall /\ c.from # c.to
          /\ \A q \in Server : q # c.from => timer[q].pc = "idle"
          /\ \A q \in Server : stuck[q] \/ heart[q].pc \in AtRest
          /\ \A d \in calls : d.rpc = "RequestVote" => d = c
      BY <2>1, VoteCaller
    <2>3. ~Unsaved(c.to)
      <3>1. heart[c.to].pc # "save"
        BY <1>0, <2>2 DEF HeartbeatsSerial, StuckSaved, AtRest
      <3>2. ~HandlerAt(c.to, "save")
        BY <2>1, <2>2, SavingHandlers DEF HandlerAt
      <3> QED
        BY <1>0, <2>2, <3>1, <3>2 DEF Unsaved, HandlerAt
    <2>4. currentTerm[c.to] <= disk'[c.to].currentTerm
      BY <1>0, <2>1, <2>3, SavedTerm
    <2> DEFINE reply == [c EXCEPT !.pc = "replied",
                                  !.replyTerm = currentTerm[c.to]]
    <2>5. /\ reply.from = c.from /\ reply.to = c.to /\ reply.term = c.term
          /\ reply.replyTerm = currentTerm[c.to]
      BY <2>2 DEF VoteCall
    <2>6. Advance(c, reply)
      BY <1>2 DEF ReplyVote
    <2> HIDE DEF reply
    <2> QED
      BY <2>4, <2>5, <2>6, ToldByReply
  <1>3. CASE \/ CheckTerm(c) \/ becomeFollower(c) \/ SaveTerm(c)
             \/ DecideVote(c) \/ GrantVote(c)
    <2>1. c \in VoteCall
      BY <1>3, CallTypes
      DEF CheckTerm, becomeFollower, SaveTerm, DecideVote, GrantVote
    <2>2. PICK pc : Advance(c, [c EXCEPT !.pc = pc])
      BY <1>3 DEF CheckTerm, becomeFollower, SaveTerm, DecideVote, GrantVote
    <2> DEFINE d == [c EXCEPT !.pc = pc]
    <2>3. /\ d.from = c.from /\ d.to = c.to /\ d.term = c.term
          /\ d.replyTerm = c.replyTerm /\ Advance(c, d)
      BY <2>1, <2>2 DEF VoteCall
    <2> HIDE DEF d
    <2> QED
      BY <2>3, ToldByReply
  <1>4. CASE SaveVote(c)
    <2>1. c \in VoteCall
      BY <1>4, CallTypes DEF SaveVote
    <2> DEFINE d == [c EXCEPT !.pc = "reply", !.vote = TRUE]
    <2>2. /\ d.from = c.from /\ d.to = c.to /\ d.term = c.term
          /\ d.replyTerm = c.replyTerm
      BY <2>1 DEF VoteCall
    <2>3. Advance(c, d)
      BY <1>4 DEF SaveVote
    <2> HIDE DEF d
    <2> QED
      BY <2>2, <2>3, ToldByReply
  <1> QED
    BY <1>1, <1>2, <1>3, <1>4 DEF HandlerStep

LEMMA NextTold ==
    ASSUME ~Overlap, TypeOK, TypeOK', OneAtATime, HeartbeatsSerial, VotesFresh,
           ToldTermsSaved, \A q \in Server : Kept(q), [Next]_vars
    PROVE  ToldTermsSaved'
  <1>1. /\ \A q \in Server : disk[q].currentTerm <= disk'[q].currentTerm
        /\ \A c \in calls : ToldSaved(c)'
    BY ToldStays DEF ToldTermsSaved, ToldSaved
  <1>2. ASSUME NEW s \in Server, NEW p \in Server, NEW d, ~Unsaved(s),
               d.from = s, d.to = p, d.term = currentTerm[s], d.replyTerm = 0,
               calls' = calls \cup {d}, UNCHANGED disk
        PROVE  \A c \in calls' : ToldSaved(c)'
    <2>1. currentTerm[s] <= disk[s].currentTerm
      BY <1>2, SavedTerm DEF VotesFresh
    <2>2. 0 <= disk[p].currentTerm
      <3>1. disk[p].currentTerm \in Term
        BY DEF TypeOK, Metadata
      <3> QED
        BY <3>1, BoundAssumption DEF TypeOK, Term
    <2> QED
      BY <1>1, <1>2, <2>1, <2>2 DEF ToldSaved
  <1>3. ASSUME NEW s \in Server, NEW p \in Server, AskVote(s, p)
        PROVE  \A c \in calls' : ToldSaved(c)'
    <2>1. PICK d : d = RequestVoteCall(s, p)
      OBVIOUS
    <2>2. d.from = s /\ d.to = p /\ d.term = currentTerm[s] /\ d.replyTerm = 0
      BY <2>1 DEF RequestVoteCall
    <2>3. calls' = calls \cup {d} /\ UNCHANGED disk /\ timer[s].pc = "peers"
      BY <1>3, <2>1 DEF AskVote
    <2>4. ~Unsaved(s)
      BY <2>3, CandidateSaves DEF Active
    <2> QED
      BY <1>2, <2>2, <2>3, <2>4
  <1>4. ASSUME NEW s \in Server, NEW p \in Server, SendHeartbeat(s, p)
        PROVE  \A c \in calls' : ToldSaved(c)'
    <2>1. PICK d : d = AppendEntriesCall(s, p)
      OBVIOUS
    <2>2. d.from = s /\ d.to = p /\ d.term = currentTerm[s] /\ d.replyTerm = 0
      BY <2>1 DEF AppendEntriesCall
    <2>3. calls' = calls \cup {d} /\ UNCHANGED disk
      BY <1>4, <2>1 DEF SendHeartbeat
    <2>4. ~Unsaved(s)
      BY <1>4, BeginsSaved DEF SendHeartbeat
    <2> QED
      BY <1>2, <2>2, <2>3, <2>4
  <1>5. ASSUME calls' \subseteq calls PROVE \A c \in calls' : ToldSaved(c)'
    BY <1>1, <1>5
  <1>6. \A c \in calls' : ToldSaved(c)'
    <2>1. ASSUME NEW s \in Server, StartElection(s) PROVE calls' \subseteq calls
      BY <2>1 DEF StartElection
    <2>2. ASSUME NEW s \in Server, TimerStep(s)
          PROVE  calls' \subseteq calls \/ \E p \in Server : AskVote(s, p)
      BY <2>2 DEF TimerStep, SaveCandidacy, ReceiveVote, CandidateStepDown,
                  SaveCandidateStepDown, CountVotes, BecomeLeader, ResetTimeout,
                  StartHeartbeats
    <2>3. ASSUME NEW s \in Server, HeartStep(s)
          PROVE  calls' \subseteq calls \/ \E p \in Server : SendHeartbeat(s, p)
      BY <2>3 DEF HeartStep, HeartbeatRound, EndHeartbeatRound,
                  ReceiveHeartbeatReply, LeaderStepDown, SaveLeaderStepDown
    <2>4. ASSUME NEW c \in calls, HandlerStep(c) PROVE \A e \in calls' : ToldSaved(e)'
      BY <1>1, <2>4, HandlerTold
    <2>5. ASSUME NEW c \in calls, CallTimesOut(c) PROVE calls' \subseteq calls
      BY <2>5 DEF CallTimesOut
    <2>6. CASE CrashAndRestart
      BY <2>6 DEF CrashAndRestart
    <2>7. CASE UNCHANGED vars
      BY <1>5, <2>7 DEF vars
    <2> QED
      BY <1>3, <1>4, <1>5, <2>1, <2>2, <2>3, <2>4, <2>5, <2>6, <2>7 DEF Next
  <1>7. \A e \in elected' : e[1] <= disk'[e[2]].currentTerm
    <2>1. CASE elected' = elected
      <3>1. \A e \in elected : e[1] \in Int /\ e[2] \in Server
        <4>1. elections \in Nat
          BY BoundAssumption DEF TypeOK
        <4>2. Term \subseteq Int
          BY <4>1, BoundAssumption DEF Term
        <4> QED
          BY <4>2 DEF TypeOK
      <3>2. \A q \in Server : disk[q].currentTerm \in Int /\ disk'[q].currentTerm \in Int
        <4>1. elections \in Nat /\ elections' \in Nat
          BY BoundAssumption DEF TypeOK
        <4>2. Term \subseteq Int /\ Term' \subseteq Int
          BY <4>1, BoundAssumption DEF Term
        <4> QED
          BY <4>2 DEF TypeOK, Metadata
      <3> QED
        BY <1>1, <2>1, <3>1, <3>2 DEF ToldTermsSaved
    <2>2. ASSUME NEW s \in Server, BecomeLeader(s)
          PROVE  \A e \in elected' : e[1] <= disk'[e[2]].currentTerm
      <3>1. PICK new : new = <<currentTerm[s], s>>
        OBVIOUS
      <3>2. elected' = elected \cup {new} /\ UNCHANGED disk /\ timer[s].pc = "elected"
        BY <2>2, <3>1 DEF BecomeLeader
      <3>3. disk[s].currentTerm = currentTerm[s] /\ currentTerm[s] \in Int
        BY <3>2, NodeTypes DEF VotesFresh, VotesCounted
      <3>4. new[1] <= disk[new[2]].currentTerm
        BY <3>1, <3>3
      <3> QED
        BY <3>2, <3>4 DEF ToldTermsSaved
    <2> QED
      BY <2>1, <2>2, ElectedSteps
  <1> QED
    BY <1>6, <1>7 DEF ToldTermsSaved, ToldSaved

-----------------------------------------------------------------------------
(* The theorems.                                                           *)

LEMMA InitSerial == Init => SerialInv
  <1> SUFFICES ASSUME Init PROVE SerialInv
    OBVIOUS
  <1>1. /\ \A q \in Server : /\ timer[q].pc = "idle" /\ heart[q].pc = "none"
                             /\ timer[q].todo = {}
                             /\ disk[q].currentTerm = currentTerm[q]
                             /\ disk[q].votedFor = votedFor[q]
        /\ calls = {} /\ elected = {}
    BY DEF Init, IdleTimer, NoHeart
  <1>2. OneAtATime
    BY <1>1 DEF OneAtATime, SoleCandidate, VoteCallsWaited, Active
  <1>3. HeartbeatsSerial
    BY <1>1 DEF HeartbeatsSerial, HeartbeatsWaited, SoleSender, StuckSaved,
                HandlerAt, AtRest
  <1>4. VotesFresh
    BY <1>1 DEF VotesFresh, FilesFollow, StepDownsRise, VotesCounted, Unsaved
  <1> QED
    BY <1>1, <1>2, <1>3, <1>4, InitType
    DEF SerialInv, MajoritiesHold, ElectionSafety, ToldTermsSaved

LEMMA NextSafe ==
    ASSUME ~Overlap, SerialInv, [Next]_vars
    PROVE  /\ SerialInv'
           /\ \A q \in Server : /\ disk[q].currentTerm <= disk'[q].currentTerm
                                /\ currentTerm'[q] < currentTerm[q] => Unsaved(q)
  <1>0. TypeOK /\ OneAtATime /\ HeartbeatsSerial /\ VotesFresh /\ ToldTermsSaved
    BY DEF SerialInv
  <1>1. TypeOK'
    BY <1>0, NextType
  <1>2. OneAtATime' /\ HeartbeatsSerial'
    BY <1>0, NextSerial, NextHeartbeats
  <1>3. VotesFresh' /\ \A q \in Server : Kept(q)
    BY <1>0, NextFresh
  <1>4. /\ ToldTermsSaved'
        /\ \A q \in Server : /\ disk[q].currentTerm <= disk'[q].currentTerm
                             /\ currentTerm'[q] < currentTerm[q] => Unsaved(q)
    <2>1. ToldTermsSaved'
      BY <1>0, <1>1, <1>3, NextTold
    <2>2. \A q \in Server : disk[q].currentTerm <= disk'[q].currentTerm
      BY <1>0, <1>1, <1>3, ToldStays
    <2>3. \A q \in Server : currentTerm[q] \in Int /\ currentTerm'[q] \in Int
      <3>1. elections \in Nat /\ elections' \in Nat
        BY <1>0, <1>1, BoundAssumption DEF TypeOK
      <3>2. Term \subseteq Int /\ Term' \subseteq Int
        BY <3>1, BoundAssumption DEF Term
      <3> QED
        BY <1>0, <1>1, <3>2 DEF TypeOK
    <2>4. \A q \in Server : currentTerm'[q] < currentTerm[q] => Unsaved(q)
      BY <1>3, <2>3 DEF Kept
    <2> QED
      BY <2>1, <2>2, <2>4
  <1>5. ASSUME NEW e \in elected
        PROVE  2 * Cardinality(Voters(e)') > Cardinality(Server)
    <2>1. Cardinality(Voters(e)) <= Cardinality(Voters(e)')
      BY <1>0, <1>1, <1>3, VotersRemain
    <2>2. 2 * Cardinality(Voters(e)) > Cardinality(Server)
      BY DEF SerialInv, MajoritiesHold
    <2>3. /\ IsFiniteSet(Server) /\ Voters(e) \subseteq Server
          /\ Voters(e)' \subseteq Server
      BY ServerAssumption DEF Voters
    <2>4. /\ Cardinality(Voters(e)) \in Nat /\ Cardinality(Voters(e)') \in Nat
          /\ Cardinality(Server) \in Nat
      BY <2>3, FS_Subset, FS_CardinalityType
    <2> QED
      BY <2>1, <2>2, <2>4
  <1>6. CASE elected' = elected
    BY <1>1, <1>2, <1>3, <1>4, <1>5, <1>6 DEF SerialInv, MajoritiesHold, ElectionSafety
  <1>7. ASSUME NEW s \in Server, BecomeLeader(s)
        PROVE  MajoritiesHold' /\ ElectionSafety'
    <2>1. PICK new : new = <<currentTerm[s], s>>
      OBVIOUS
    <2>2. /\ 2 * Cardinality(Voters(new)) > Cardinality(Server)
          /\ \A f \in elected : f[1] = currentTerm[s] => f = new
      BY <1>7, <2>1, BecomeLeaderSafe
    <2>3. elected' = elected \cup {new} /\ UNCHANGED disk
      BY <1>7, <2>1 DEF BecomeLeader
    <2>4. Voters(new)' = Voters(new)
      BY <2>3 DEF Voters
    <2>5. MajoritiesHold'
      BY <1>5, <2>2, <2>3, <2>4 DEF MajoritiesHold
    <2>6. new[1] = currentTerm[s]
      BY <2>1
    <2>7. ElectionSafety'
      BY <2>2, <2>3, <2>6 DEF ElectionSafety, SerialInv
    <2> QED
      BY <2>5, <2>7
  <1>8. \/ elected' = elected
        \/ \E s \in Server : BecomeLeader(s)
    BY ElectedSteps
  <1> QED
    BY <1>1, <1>2, <1>3, <1>4, <1>6, <1>7, <1>8 DEF SerialInv

\* As long as RPC exchanges do not overlap, at most one node becomes leader in
\* a term: for clusters of every size, all logs and snapshots, any number of
\* elections, lost calls and restarts, and although the RequestVote handler
\* reads and writes term and vote without the lock.
THEOREM AtMostOneLeader ==
    ASSUME ~Overlap
    PROVE  Spec => []ElectionSafety
  <1>1. Init => SerialInv
    BY InitSerial
  <1>2. SerialInv /\ [Next]_vars => SerialInv'
    BY NextSafe
  <1>3. SerialInv => ElectionSafety
    BY DEF SerialInv
  <1> QED
    BY <1>1, <1>2, <1>3, PTL DEF Spec

\* Under the same condition the term in a node's file never falls (each step-down
\* is to the newer term that caused it, and persistMetadata writes what the node
\* has), and the term of a node falls only when the process dies between raising
\* it and persistMetadata.
THEOREM TermsOnlyGrow ==
    ASSUME ~Overlap
    PROVE  Spec => TermsNeverDecrease
  <1>1. Init => SerialInv
    BY InitSerial
  <1>2. SerialInv /\ [Next]_vars => SerialInv'
    BY NextSafe
  <1>3. SerialInv /\ [Next]_vars =>
          [\A s \in Server :
              /\ disk[s].currentTerm <= disk'[s].currentTerm
              /\ currentTerm'[s] < currentTerm[s] => Unsaved(s)]_vars
    BY NextSafe
  <1> QED
    BY <1>1, <1>2, <1>3, PTL DEF Spec, TermsNeverDecrease

\* Under the same condition nobody has heard of such a term: what requests, replies
\* and leaderships speak of is in the file of the node they come from, although
\* most of persistMetadata's calls run after the lock is released.
THEOREM ToldTermsOnDisk ==
    ASSUME ~Overlap
    PROVE  Spec => []ToldTermsSaved
  <1>1. Init => SerialInv
    BY InitSerial
  <1>2. SerialInv /\ [Next]_vars => SerialInv'
    BY NextSafe
  <1>3. SerialInv => ToldTermsSaved
    BY DEF SerialInv
  <1> QED
    BY <1>1, <1>2, <1>3, PTL DEF Spec
=============================================================================
