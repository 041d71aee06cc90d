--------------------------- MODULE ElectionProofs ---------------------------
(***************************************************************************)
(* Theorems about Election, for every cluster, every assignment of logs    *)
(* and every bound.                                                        *)
(***************************************************************************)
EXTENDS Election, FiniteSetTheorems, TLAPS

\* Terms are natural numbers.
LEMMA TermsAreNaturals ==
    ASSUME elections \in Nat
    PROVE  /\ StartTerm \in Term
           /\ 0 \in Term
           /\ \A t \in Term : t \in Int
           /\ \A t \in 0 .. StartTerm : t \in Term
  BY BoundAssumption DEF Term

\* A log is a sequence of entries with terms of the past.
LEMMA LogEntries ==
    ASSUME NEW s \in Server
    PROVE  /\ Log[s] \in Seq([term : 0 .. StartTerm, index : Nat])
           /\ Len(Log[s]) \in Nat
           /\ \A i \in 1 .. Len(Log[s]) : Log[s][i].term \in 0 .. StartTerm
           /\ Snap[s].lastIncludedIndex \in Nat \cup {-1}
           /\ Snap[s].lastIncludedTerm \in 0 .. StartTerm
  <1> DEFINE Past == [term : 0 .. StartTerm, index : Nat]
  <1>2. ASSUME NEW e \in Past PROVE e.term \in 0 .. StartTerm
    BY <1>2
  <1>3. Log[s] \in Seq(Past)
    BY LogAssumption
  <1>4. ASSUME NEW q \in Seq(Past) PROVE Len(q) \in Nat
    BY <1>4
  <1> HIDE DEF Past
  <1>1. ASSUME NEW q \in Seq(Past), NEW i \in 1 .. Len(q)
        PROVE  q[i] \in Past
    BY <1>1
  <1>5. \A i \in 1 .. Len(Log[s]) : Log[s][i].term \in 0 .. StartTerm
    BY <1>1, <1>2, <1>3
  <1>6. Log[s] \in Seq([term : 0 .. StartTerm, index : Nat])
    BY LogAssumption
  <1> QED
    BY <1>3, <1>4, <1>5, <1>6, LogAssumption

\* What a candidate says about its log is well formed.
LEMMA LastEntryType ==
    ASSUME NEW s \in Server
    PROVE  LET last == getLogSize(Log[s], Snap[s]) - 1
           IN  /\ last \in Nat \cup {-1}
               /\ getLogTerm(Log[s], Snap[s], last) \in 0 .. StartTerm
  <1> DEFINE last == getLogSize(Log[s], Snap[s]) - 1
  <1> SUFFICES /\ last \in Nat \cup {-1}
               /\ getLogTerm(Log[s], Snap[s], last) \in 0 .. StartTerm
    OBVIOUS
  <1>1. /\ Len(Log[s]) \in Nat
        /\ \A i \in 1 .. Len(Log[s]) : Log[s][i].term \in 0 .. StartTerm
        /\ Snap[s].lastIncludedIndex \in Nat \cup {-1}
        /\ Snap[s].lastIncludedTerm \in 0 .. StartTerm
    BY LogEntries
  <1>2. last \in Nat \cup {-1}
    BY <1>1 DEF getLogSize, baseIndex
  <1>3. CASE last = Snap[s].lastIncludedIndex
    BY <1>1, <1>2, <1>3, BoundAssumption DEF getLogTerm
  <1>4. CASE last # Snap[s].lastIncludedIndex
    <2> DEFINE base == baseIndex(Snap[s])
               n == Len(Log[s])
    <2>1. base \in Int /\ n \in Nat /\ last = base + n - 1
      BY <1>1 DEF getLogSize, baseIndex
    <2>2. n > 0
      BY <1>1, <1>4 DEF getLogSize, baseIndex
    <2> HIDE DEF base, n, last
    <2>3. last - base \in 0 .. n - 1 /\ last - base + 1 = n
      BY <2>1, <2>2
    <2>4. getLogTerm(Log[s], Snap[s], last) = Log[s][n].term
      BY <1>4, <2>3 DEF getLogTerm, base, n
    <2> QED
      BY <1>1, <2>1, <2>2, <2>4, <1>2 DEF n
  <1> QED
    BY <1>2, <1>3, <1>4

-----------------------------------------------------------------------------
(* Type correctness.                                                       *)

\* A handler that moves on leaves a well-formed set of calls.
LEMMA AdvanceType ==
    ASSUME NEW S, calls \subseteq S, NEW c \in calls, NEW d \in S,
           Advance(c, d)
    PROVE  calls' \subseteq S
  BY DEF Advance

\* As long as no election starts the type sets stay what they are.
LEMMA SameTypes ==
    ASSUME UNCHANGED elections
    PROVE  /\ Term' = Term
           /\ Metadata' = Metadata
           /\ TimerThread' = TimerThread
           /\ HeartThread' = HeartThread
           /\ VoteCall' = VoteCall
           /\ HeartbeatCall' = HeartbeatCall
  BY DEF Term, Metadata, TimerThread, HeartThread, VoteCall, HeartbeatCall

\* The step-down assignments keep the types.
LEMMA StepDownType ==
    ASSUME TypeOK, UNCHANGED elections, NEW s \in Server, NEW t \in Term,
           StepDown(s, t)
    PROVE  /\ currentTerm' \in [Server -> Term']
           /\ votedFor' \in [Server -> Server \cup {NoNode}]
           /\ state' \in [Server -> {"FOLLOWER", "CANDIDATE", "LEADER"}]
  BY SameTypes DEF TypeOK, StepDown

\* And so does writing the metadata file.
LEMMA persistType ==
    ASSUME TypeOK, NEW s \in Server, persistMetadata(s)
    PROVE  disk' \in [Server -> Metadata]
  BY DEF TypeOK, Metadata, persistMetadata

\* Changing the fields of a thread keeps it well formed.
LEMMA TimerFields ==
    ASSUME NEW t \in TimerThread, NEW S \in SUBSET Server, NEW n \in Term,
           NEW pc \in {"idle", "peers", "waiting", "stepdown", "savedown",
                       "elected", "reset", "join"}
    PROVE  /\ [t EXCEPT !.pc = pc] \in TimerThread
           /\ [t EXCEPT !.pc = pc, !.todo = S] \in TimerThread
           /\ [t EXCEPT !.pc = pc, !.term = n] \in TimerThread
           /\ [t EXCEPT !.pc = pc, !.granted = S] \in TimerThread
  BY DEF TimerThread

LEMMA HeartFields ==
    ASSUME NEW h \in HeartThread, NEW n \in Term,
           NEW pc \in {"none", "loop", "peers", "waiting", "stepdown", "save",
                       "ended"}
    PROVE  /\ [h EXCEPT !.pc = pc] \in HeartThread
           /\ [h EXCEPT !.pc = pc, !.term = n] \in HeartThread
  BY DEF HeartThread

LEMMA InitType == Init => TypeOK
  <1> SUFFICES ASSUME Init PROVE TypeOK
    OBVIOUS
  <1>1. StartTerm \in Term /\ 0 \in Term
    BY TermsAreNaturals DEF Init
  <1>2. [currentTerm |-> StartTerm, votedFor |-> NoNode] \in Metadata
    BY <1>1 DEF Metadata
  <1>3. IdleTimer \in TimerThread
    BY <1>1 DEF IdleTimer, TimerThread
  <1>4. NoHeart \in HeartThread
    BY <1>1 DEF NoHeart, HeartThread
  <1> QED
    BY <1>1, <1>2, <1>3, <1>4, BoundAssumption DEF Init, TypeOK

LEMMA StartElectionType ==
    ASSUME TypeOK, NEW s \in Server, StartElection(s)
    PROVE  TypeOK'
  <1>1. elections \in Nat /\ elections' = elections + 1
    BY BoundAssumption DEF TypeOK, StartElection
  <1>2. Term \subseteq Term' /\ currentTerm[s] + 1 \in Term' /\ 0 \in Term'
    BY <1>1, BoundAssumption DEF TypeOK, Term
  <1>3. /\ Metadata \subseteq Metadata'
        /\ TimerThread \subseteq TimerThread'
        /\ HeartThread \subseteq HeartThread'
        /\ VoteCall \subseteq VoteCall'
        /\ HeartbeatCall \subseteq HeartbeatCall'
    BY <1>2 DEF Metadata, TimerThread, HeartThread, VoteCall, HeartbeatCall
  <1>4. currentTerm' \in [Server -> Term']
    BY <1>2 DEF TypeOK, StartElection
  <1>5. disk' \in [Server -> Metadata']
    BY <1>3 DEF TypeOK, StartElection
  <1>6. timer' \in [Server -> TimerThread']
    <2>1. [IdleTimer EXCEPT !.pc = "save"] \in TimerThread'
      BY <1>2 DEF IdleTimer, TimerThread
    <2> QED
      BY <2>1, <1>3 DEF TypeOK, StartElection
  <1>7. heart' \in [Server -> HeartThread']
    BY <1>3 DEF TypeOK, StartElection
  <1>8. /\ calls' \subseteq VoteCall' \cup HeartbeatCall'
        /\ elected' \subseteq Term' \X Server
    BY <1>2, <1>3 DEF TypeOK, StartElection
  <1>9. /\ votedFor' \in [Server -> Server \cup {NoNode}]
        /\ state' \in [Server -> {"FOLLOWER", "CANDIDATE", "LEADER"}]
        /\ leaderId' \in [Server -> Server \cup {NoNode}]
        /\ runningHeartbeats' \in [Server -> BOOLEAN]
        /\ stuck' \in [Server -> BOOLEAN]
        /\ elections' \in 0 .. MaxElections
        /\ lost' \in 0 .. MaxLost
        /\ crashes' \in 0 .. MaxCrashes
    BY <1>1, BoundAssumption DEF TypeOK, StartElection
  <1> QED
    BY <1>4, <1>5, <1>6, <1>7, <1>8, <1>9 DEF TypeOK

LEMMA TimerStepType ==
    ASSUME TypeOK, NEW s \in Server, TimerStep(s)
    PROVE  TypeOK'
  <1>a. elections \in Nat
    BY BoundAssumption DEF TypeOK
  <1>b. UNCHANGED elections
    BY DEF TimerStep, AskVote, ReceiveVote, CandidateStepDown, CountVotes,
           BecomeLeader, ResetTimeout, StartHeartbeats, SaveCandidacy,
           SaveCandidateStepDown, boundVars
  <1>e. elections \in Nat /\ UNCHANGED elections
    BY <1>a, <1>b
  <1>0. /\ Term' = Term
        /\ Metadata' = Metadata
        /\ TimerThread' = TimerThread
        /\ HeartThread' = HeartThread
        /\ VoteCall' = VoteCall
        /\ HeartbeatCall' = HeartbeatCall
        /\ IdleTimer \in TimerThread
        /\ 0 \in Term
    BY <1>e, SameTypes, TermsAreNaturals DEF IdleTimer, TimerThread
  <1>1. ASSUME NEW p \in Server, AskVote(s, p) PROVE TypeOK'
    <2>1. RequestVoteCall(s, p) \in VoteCall
      BY <1>e, LastEntryType, TermsAreNaturals
      DEF RequestVoteCall, VoteCall, TypeOK
    <2>2. timer' \in [Server -> TimerThread]
      BY <1>1 DEF AskVote, TypeOK, TimerThread
    <2> QED
      BY <2>1, <2>2, <1>0, <1>1 DEF AskVote, TypeOK, nodeVars, boundVars
  <1>2. CASE ReceiveVote(s)
    <2>1. PICK c \in Awaited("RequestVote", s, timer[s].peer) :
             /\ calls' = calls \ {c}
             /\ \/ timer' = [timer EXCEPT ![s].pc = "stepdown",
                                          ![s].term = c.replyTerm]
                \/ timer' = [timer EXCEPT ![s].pc = "peers",
                                          ![s].granted = @ \cup VoteOf(c)]
      BY <1>2 DEF ReceiveVote
    <2>2. c \in VoteCall
      BY <2>1 DEF Awaited, TypeOK, HeartbeatCall
    <2>3. c.replyTerm \in Term /\ c.to \in Server
      BY <2>2 DEF VoteCall
    <2>4. timer' \in [Server -> TimerThread]
      <3> DEFINE all == timer[s].granted \cup VoteOf(c)
      <3>1. timer[s] \in TimerThread /\ all \in SUBSET Server
        BY <2>3 DEF TypeOK, TimerThread, VoteOf
      <3>2. [timer[s] EXCEPT !.pc = "stepdown", !.term = c.replyTerm]
              \in TimerThread
        BY <2>3, <3>1, TimerFields
      <3>3. [timer[s] EXCEPT !.pc = "peers", !.granted = all] \in TimerThread
        <4> HIDE DEF all
        <4> QED
          BY <1>0, <3>1, TimerFields
      <3> QED
        BY <2>1, <3>2, <3>3 DEF TypeOK
    <2> QED
      BY <2>1, <2>4, <1>0, <1>2 DEF ReceiveVote, TypeOK, nodeVars, boundVars
  <1>3. CASE CandidateStepDown(s)
    <2>1. timer[s].term \in Term
      BY DEF TypeOK, TimerThread
    <2>2. /\ currentTerm' \in [Server -> Term']
          /\ votedFor' \in [Server -> Server \cup {NoNode}]
          /\ state' \in [Server -> {"FOLLOWER", "CANDIDATE", "LEADER"}]
      BY <1>3, <1>e, <2>1, StepDownType DEF CandidateStepDown
    <2>3. timer' \in [Server -> TimerThread]
      <3>1. [timer[s] EXCEPT !.pc = "savedown"] \in TimerThread
        BY <1>0, TimerFields DEF TypeOK
      <3> QED
        BY <1>3, <3>1 DEF CandidateStepDown, TypeOK
    <2> QED
      BY <2>2, <2>3, <1>0, <1>3 DEF CandidateStepDown, TypeOK, boundVars
  <1>4. CASE CountVotes(s)
    <2>1. timer' \in [Server -> TimerThread]
      BY SMTT(30), <1>4, <1>0 DEF CountVotes, TypeOK, TimerThread
    <2> QED
      BY <2>1, <1>0, <1>4 DEF CountVotes, TypeOK, nodeVars, boundVars
  <1>5. CASE BecomeLeader(s)
    <2>1. timer' \in [Server -> TimerThread]
      <3>1. [timer[s] EXCEPT !.pc = "reset"] \in TimerThread
        BY <1>0, TimerFields DEF TypeOK
      <3> QED
        BY <1>5, <3>1 DEF BecomeLeader, TypeOK
    <2> QED
      BY <2>1, <1>0, <1>5 DEF BecomeLeader, TypeOK, boundVars
  <1>6. CASE ResetTimeout(s)
    <2>1. timer' \in [Server -> TimerThread]
      <3>1. [timer[s] EXCEPT !.pc = "join"] \in TimerThread
        BY <1>0, TimerFields DEF TypeOK
      <3> QED
        BY <1>6, <3>1 DEF ResetTimeout, TypeOK
    <2>2. runningHeartbeats' \in [Server -> BOOLEAN]
      BY <1>6 DEF ResetTimeout, TypeOK
    <2> QED
      BY <2>1, <2>2, <1>0, <1>6 DEF ResetTimeout, TypeOK, boundVars
  <1>7. CASE StartHeartbeats(s)
    <2>1. heart' \in [Server -> HeartThread]
      <3>1. [heart[s] EXCEPT !.pc = "loop"] \in HeartThread
        BY <1>0, HeartFields DEF TypeOK
      <3> QED
        BY <1>7, <3>1 DEF StartHeartbeats, TypeOK
    <2>2. runningHeartbeats' \in [Server -> BOOLEAN]
      BY <1>7 DEF StartHeartbeats, TypeOK
    <2>3. disk' \in [Server -> Metadata]
      BY <1>7, persistType DEF StartHeartbeats
    <2> QED
      BY <2>1, <2>2, <2>3, <1>0, <1>7 DEF StartHeartbeats, TypeOK, boundVars
  <1>8. CASE SaveCandidacy(s)
    <2>1. timer' \in [Server -> TimerThread]
      <3>1. [timer[s] EXCEPT !.pc = "peers", !.todo = Peers(s)] \in TimerThread
        BY <1>0, TimerFields DEF TypeOK, Peers
      <3> QED
        BY <1>8, <3>1 DEF SaveCandidacy, TypeOK
    <2>2. disk' \in [Server -> Metadata]
      BY <1>8, persistType DEF SaveCandidacy
    <2> QED
      BY <2>1, <2>2, <1>0, <1>8
      DEF SaveCandidacy, TypeOK, nodeVars, boundVars
  <1>9. CASE SaveCandidateStepDown(s)
    <2>1. disk' \in [Server -> Metadata]
      BY <1>9, persistType DEF SaveCandidateStepDown
    <2> QED
      BY <2>1, <1>0, <1>9
      DEF SaveCandidateStepDown, TypeOK, nodeVars, boundVars
  <1> QED
    BY <1>1, <1>2, <1>3, <1>4, <1>5, <1>6, <1>7, <1>8, <1>9 DEF TimerStep

LEMMA HeartStepType ==
    ASSUME TypeOK, NEW s \in Server, HeartStep(s)
    PROVE  TypeOK'
  <1>a. elections \in Nat
    BY BoundAssumption DEF TypeOK
  <1>b. UNCHANGED elections
    BY DEF HeartStep, HeartbeatRound, SendHeartbeat, EndHeartbeatRound,
           ReceiveHeartbeatReply, LeaderStepDown, SaveLeaderStepDown, boundVars
  <1>e. elections \in Nat /\ UNCHANGED elections
    BY <1>a, <1>b
  <1>0. /\ Term' = Term
        /\ Metadata' = Metadata
        /\ TimerThread' = TimerThread
        /\ HeartThread' = HeartThread
        /\ VoteCall' = VoteCall
        /\ HeartbeatCall' = HeartbeatCall
        /\ \A pc \in {"loop", "peers", "ended"} : HeartAt(pc) \in HeartThread
    BY <1>e, SameTypes, TermsAreNaturals DEF HeartAt, NoHeart, HeartThread
  <1>1. CASE HeartbeatRound(s)
    <2>1. [HeartAt("peers") EXCEPT !.todo = Peers(s)] \in HeartThread
      BY <1>0 DEF HeartThread, Peers
    <2> QED
      BY <2>1, <1>0, <1>1 DEF HeartbeatRound, TypeOK, nodeVars, boundVars
  <1>2. ASSUME NEW p \in Server, SendHeartbeat(s, p) PROVE TypeOK'
    <2>1. AppendEntriesCall(s, p) \in HeartbeatCall
      BY <1>e, TermsAreNaturals DEF AppendEntriesCall, HeartbeatCall, TypeOK
    <2>2. heart' \in [Server -> HeartThread]
      BY <1>2 DEF SendHeartbeat, TypeOK, HeartThread
    <2> QED
      BY <2>1, <2>2, <1>0, <1>2 DEF SendHeartbeat, TypeOK, nodeVars, boundVars
  <1>3. CASE EndHeartbeatRound(s)
    BY <1>0, <1>3 DEF EndHeartbeatRound, TypeOK, nodeVars, boundVars
  <1>4. CASE ReceiveHeartbeatReply(s)
    <2>1. PICK c \in Awaited("AppendEntries", s, heart[s].peer) :
             /\ calls' = calls \ {c}
             /\ heart' = [heart EXCEPT ![s] =
                  IF ~runningHeartbeats[s] THEN HeartAt("loop")
                  ELSE IF c.replyTerm > currentTerm[s]
                  THEN [@ EXCEPT !.pc = "stepdown", !.term = c.replyTerm]
                  ELSE [@ EXCEPT !.pc = "peers"]]
      BY <1>4 DEF ReceiveHeartbeatReply
    <2>2. c.replyTerm \in Term
      BY <2>1 DEF Awaited, TypeOK, VoteCall, HeartbeatCall
    <2>3. heart' \in [Server -> HeartThread]
      <3>1. /\ [heart[s] EXCEPT !.pc = "stepdown", !.term = c.replyTerm]
                   \in HeartThread
            /\ [heart[s] EXCEPT !.pc = "peers"] \in HeartThread
        BY <2>2, HeartFields DEF TypeOK
      <3> QED
        BY <2>1, <3>1, <1>0 DEF TypeOK
    <2> QED
      BY <2>1, <2>3, <1>0, <1>4
      DEF ReceiveHeartbeatReply, TypeOK, nodeVars, boundVars
  <1>5. CASE LeaderStepDown(s)
    <2>1. heart[s].term \in Term
      BY DEF TypeOK, HeartThread
    <2>2. /\ currentTerm' \in [Server -> Term']
          /\ votedFor' \in [Server -> Server \cup {NoNode}]
          /\ state' \in [Server -> {"FOLLOWER", "CANDIDATE", "LEADER"}]
      BY <1>5, <1>e, <2>1, StepDownType DEF LeaderStepDown
    <2>3. heart' \in [Server -> HeartThread]
      <3>1. [heart[s] EXCEPT !.pc = "save"] \in HeartThread
        BY <1>e, TermsAreNaturals, HeartFields DEF TypeOK
      <3> QED
        BY <1>5, <3>1 DEF LeaderStepDown, TypeOK
    <2> QED
      BY <2>2, <2>3, <1>0, <1>5 DEF LeaderStepDown, TypeOK, boundVars
  <1>6. CASE SaveLeaderStepDown(s)
    <2>1. disk' \in [Server -> Metadata]
      BY <1>6, persistType DEF SaveLeaderStepDown
    <2> QED
      BY <2>1, <1>0, <1>6 DEF SaveLeaderStepDown, TypeOK, nodeVars, boundVars
  <1> QED
    BY <1>1, <1>2, <1>3, <1>4, <1>5, <1>6 DEF HeartStep

\* Changing the fields of a vote request keeps it well formed.
LEMMA VoteFields ==
    ASSUME NEW c \in VoteCall, NEW n \in Term,
           NEW pc \in {"received", "newterm", "save", "decide", "grant",
                       "savevote", "reply", "replied"}
    PROVE  /\ [c EXCEPT !.pc = pc] \in VoteCall
           /\ [c EXCEPT !.pc = pc, !.vote = TRUE] \in VoteCall
           /\ [c EXCEPT !.pc = pc, !.replyTerm = n] \in VoteCall
           /\ [c EXCEPT !.live = FALSE] \in VoteCall
  BY DEF VoteCall

LEMMA HandlerStepType ==
    ASSUME TypeOK, NEW c \in calls, HandlerStep(c)
    PROVE  TypeOK'
  <1>a. elections \in Nat
    BY BoundAssumption DEF TypeOK
  <1>b. UNCHANGED elections
    BY DEF HandlerStep, CheckTerm, becomeFollower, DecideVote, GrantVote,
           ReplyVote, HandleHeartbeat, SaveTerm, SaveVote, boundVars
  <1>0. /\ Term' = Term
        /\ Metadata' = Metadata
        /\ TimerThread' = TimerThread
        /\ HeartThread' = HeartThread
        /\ VoteCall' = VoteCall
        /\ HeartbeatCall' = HeartbeatCall
    BY <1>b, SameTypes
  <1>c. /\ calls \subseteq VoteCall \cup HeartbeatCall
        /\ c.from \in Server /\ c.to \in Server /\ c.term \in Term
        /\ c.rpc = "RequestVote" => c \in VoteCall
        /\ c.rpc = "AppendEntries" => c \in HeartbeatCall
        /\ currentTerm[c.to] \in Term
        /\ votedFor[c.to] \in Server \cup {NoNode}
    BY DEF TypeOK, VoteCall, HeartbeatCall
  <1>1. CASE CheckTerm(c)
    <2>1. PICK pc \in {"reply", "newterm", "decide"} :
             Advance(c, [c EXCEPT !.pc = pc])
      BY <1>1 DEF CheckTerm
    <2>2. calls' \subseteq VoteCall \cup HeartbeatCall
      BY <2>1, <1>1, <1>c, VoteFields, AdvanceType DEF CheckTerm
    <2> QED
      BY <2>2, <1>0, <1>1 DEF CheckTerm, TypeOK, nodeVars, boundVars
  <1>2. CASE becomeFollower(c)
    <2>1. /\ currentTerm' \in [Server -> Term']
          /\ votedFor' \in [Server -> Server \cup {NoNode}]
          /\ state' \in [Server -> {"FOLLOWER", "CANDIDATE", "LEADER"}]
      BY <1>2, <1>b, <1>c, StepDownType DEF becomeFollower
    <2>2. calls' \subseteq VoteCall \cup HeartbeatCall
      BY <1>2, <1>c, VoteFields, AdvanceType DEF becomeFollower
    <2> QED
      BY <2>1, <2>2, <1>0, <1>2 DEF becomeFollower, TypeOK, boundVars
  <1>3. CASE DecideVote(c)
    <2>1. PICK pc \in {"grant", "reply"} : Advance(c, [c EXCEPT !.pc = pc])
      BY <1>3 DEF DecideVote
    <2>2. calls' \subseteq VoteCall \cup HeartbeatCall
      BY <2>1, <1>3, <1>c, VoteFields, AdvanceType DEF DecideVote
    <2> QED
      BY <2>2, <1>0, <1>3 DEF DecideVote, TypeOK, nodeVars, boundVars
  <1>4. CASE GrantVote(c)
    <2>1. calls' \subseteq VoteCall \cup HeartbeatCall
      BY <1>4, <1>c, VoteFields, AdvanceType DEF GrantVote
    <2> QED
      BY <2>1, <1>0, <1>4, <1>c DEF GrantVote, TypeOK, boundVars
  <1>5. CASE ReplyVote(c)
    <2>1. calls' \subseteq VoteCall \cup HeartbeatCall
      BY <1>5, <1>c, VoteFields, AdvanceType DEF ReplyVote
    <2> QED
      BY <2>1, <1>0, <1>5 DEF ReplyVote, TypeOK, nodeVars, boundVars
  <1>6. CASE HandleHeartbeat(c)
    <2> DEFINE s == c.to
               reply == [c EXCEPT !.pc = "replied",
                                  !.replyTerm = currentTerm[s]]
    <2>1. reply \in HeartbeatCall
      BY <1>6, <1>c DEF HandleHeartbeat, HeartbeatCall
    <2>2. \/ UNCHANGED <<leaderId, stuck, disk>> /\ Advance(c, reply)
          \/ /\ stuck' = [stuck EXCEPT ![s] = TRUE]
             /\ UNCHANGED <<leaderId, calls, disk>>
          \/ /\ leaderId' = [leaderId EXCEPT ![s] = c.from]
             /\ persistMetadata(s)
             /\ Advance(c, reply)
             /\ UNCHANGED stuck
      BY <1>6 DEF HandleHeartbeat
    <2>3. calls' \subseteq VoteCall \cup HeartbeatCall
      BY <1>c, <2>1, <2>2, AdvanceType
    <2>4. disk' \in [Server -> Metadata]
      BY <2>2, <1>c, persistType DEF TypeOK
    <2>5. /\ leaderId' \in [Server -> Server \cup {NoNode}]
          /\ stuck' \in [Server -> BOOLEAN]
      BY <2>2, <1>c DEF TypeOK
    <2> QED
      BY <2>3, <2>4, <2>5, <1>0, <1>6 DEF HandleHeartbeat, TypeOK, boundVars
  <1>7. CASE SaveTerm(c)
    <2>1. calls' \subseteq VoteCall \cup HeartbeatCall
      BY <1>7, <1>c, VoteFields, AdvanceType DEF SaveTerm
    <2>2. disk' \in [Server -> Metadata]
      BY <1>7, <1>c, persistType DEF SaveTerm
    <2> QED
      BY <2>1, <2>2, <1>0, <1>7 DEF SaveTerm, TypeOK, nodeVars, boundVars
  <1>8. CASE SaveVote(c)
    <2>1. calls' \subseteq VoteCall \cup HeartbeatCall
      BY <1>8, <1>c, VoteFields, AdvanceType DEF SaveVote
    <2>2. disk' \in [Server -> Metadata]
      BY <1>8, <1>c, persistType DEF SaveVote
    <2> QED
      BY <2>1, <2>2, <1>0, <1>8 DEF SaveVote, TypeOK, nodeVars, boundVars
  <1> QED
    BY <1>1, <1>2, <1>3, <1>4, <1>5, <1>6, <1>7, <1>8 DEF HandlerStep

LEMMA CallTimesOutType ==
    ASSUME TypeOK, NEW c \in calls, CallTimesOut(c)
    PROVE  TypeOK'
  <1>a. elections \in Nat
    BY BoundAssumption DEF TypeOK
  <1>b. UNCHANGED elections
    BY DEF CallTimesOut
  <1>0. /\ Term' = Term
        /\ Metadata' = Metadata
        /\ TimerThread' = TimerThread
        /\ HeartThread' = HeartThread
        /\ VoteCall' = VoteCall
        /\ HeartbeatCall' = HeartbeatCall
        /\ 0 \in Term
        /\ HeartAt("loop") \in HeartThread
    BY <1>a, <1>b, SameTypes, TermsAreNaturals
    DEF HeartAt, NoHeart, HeartThread
  <1>1. [c EXCEPT !.live = FALSE] \in VoteCall \cup HeartbeatCall
    <2>1. CASE c \in VoteCall
      BY <1>0, <2>1, VoteFields
    <2>2. CASE c \in HeartbeatCall
      BY <2>2 DEF HeartbeatCall
    <2> QED
      BY <2>1, <2>2 DEF TypeOK
  <1>2. c.from \in Server
    BY DEF TypeOK, VoteCall, HeartbeatCall
  <1>3. calls' \subseteq VoteCall \cup HeartbeatCall
    BY <1>1 DEF CallTimesOut, TypeOK
  <1>4. timer' \in [Server -> TimerThread]
    <2>1. [timer[c.from] EXCEPT !.pc = "peers"] \in TimerThread
      BY <1>0, <1>2, TimerFields DEF TypeOK
    <2> QED
      BY <1>2, <2>1 DEF CallTimesOut, TypeOK
  <1>5. heart' \in [Server -> HeartThread]
    <2>1. [heart[c.from] EXCEPT !.pc = "peers"] \in HeartThread
      BY <1>0, <1>2, HeartFields DEF TypeOK
    <2> QED
      BY <1>0, <1>2, <2>1 DEF CallTimesOut, TypeOK
  <1>6. lost' \in 0 .. MaxLost
    BY BoundAssumption DEF CallTimesOut, TypeOK
  <1> QED
    BY <1>0, <1>3, <1>4, <1>5, <1>6 DEF CallTimesOut, TypeOK, nodeVars

LEMMA CrashAndRestartType ==
    ASSUME TypeOK, CrashAndRestart
    PROVE  TypeOK'
  <1>a. elections \in Nat
    BY BoundAssumption DEF TypeOK
  <1>b. UNCHANGED elections
    BY DEF CrashAndRestart
  <1>0. /\ Term' = Term
        /\ Metadata' = Metadata
        /\ TimerThread' = TimerThread
        /\ HeartThread' = HeartThread
        /\ VoteCall' = VoteCall
        /\ HeartbeatCall' = HeartbeatCall
        /\ IdleTimer \in TimerThread
        /\ NoHeart \in HeartThread
    BY <1>a, <1>b, SameTypes, TermsAreNaturals
    DEF IdleTimer, TimerThread, NoHeart, HeartThread
  <1>1. \A s \in Server : /\ disk[s].currentTerm \in Term
                          /\ disk[s].votedFor \in Server \cup {NoNode}
    BY DEF TypeOK, Metadata
  <1>2. crashes' \in 0 .. MaxCrashes
    BY BoundAssumption DEF CrashAndRestart, TypeOK
  <1> QED
    BY <1>0, <1>1, <1>2 DEF CrashAndRestart, TypeOK

\* Every step keeps the state well formed.
LEMMA NextType == TypeOK /\ [Next]_vars => TypeOK'
  <1> SUFFICES ASSUME TypeOK, [Next]_vars PROVE TypeOK'
    OBVIOUS
  <1>1. ASSUME NEW s \in Server, StartElection(s) PROVE TypeOK'
    BY <1>1, StartElectionType
  <1>2. ASSUME NEW s \in Server, TimerStep(s) PROVE TypeOK'
    BY <1>2, TimerStepType
  <1>3. ASSUME NEW s \in Server, HeartStep(s) PROVE TypeOK'
    BY <1>3, HeartStepType
  <1>4. ASSUME NEW c \in calls, HandlerStep(c) PROVE TypeOK'
    BY <1>4, HandlerStepType
  <1>5. ASSUME NEW c \in calls, CallTimesOut(c) PROVE TypeOK'
    BY <1>5, CallTimesOutType
  <1>6. CASE CrashAndRestart
    BY <1>6, CrashAndRestartType
  <1>7. CASE UNCHANGED vars
    BY <1>7, SameTypes DEF vars, nodeVars, boundVars, TypeOK
  <1> QED
    BY <1>1, <1>2, <1>3, <1>4, <1>5, <1>6, <1>7 DEF Next

\* The nodes, files, threads and messages of the election protocol stay well
\* formed whatever the interleaving of the unlocked handlers.  In particular
\* no node, metadata file, thread or message ever holds a term that no
\* candidate has started, although handlers store terms they tested earlier.
THEOREM TypeCorrect == Spec => []TypeOK
  BY InitType, NextType, PTL DEF Spec

-----------------------------------------------------------------------------
(* A leader's log.                                                         *)

\* No node has taken a snapshot yet.
NoSnapshots == \A s \in Server : Snap[s] = NoSnapshot

LastIndex(s) == getLogSize(Log[s], Snap[s]) - 1
LastTerm(s) == getLogTerm(Log[s], Snap[s], LastIndex(s))

\* The nodes that may vote for s, and whether they are a majority with s.
Behind(s) == {p \in Server : UpToDate(s, p)}
Majority(s) == 2 * Cardinality(Behind(s)) > Cardinality(Server)

\* A vote request describes the log of its sender, and carries a vote, or is
\* about to, only at a node whose log is behind it.
HonestVote(c) ==
    c.rpc = "RequestVote" =>
        /\ c.from # c.to
        /\ c.lastLogIndex = LastIndex(c.from)
        /\ c.lastLogTerm = LastTerm(c.from)
        /\ c.pc \in {"grant", "savevote"} \/ c.vote => c.to \in Behind(c.from)

\* LeaderUpToDate is not inductive by itself: a leader has it from the votes
\* that its timer thread counted, and these from replies in transit.
VotesEarned ==
    /\ TypeOK
    /\ \A c \in calls : HonestVote(c)
    /\ \A s \in Server :
        /\ timer[s].todo \subseteq Peers(s)
        /\ timer[s].granted \subseteq Behind(s) \ {s}
        /\ timer[s].pc = "elected" => Majority(s)
        /\ state[s] = "LEADER" => Majority(s)

\* The handler's comparison is the right one as long as the voter has no
\* snapshot: its vector then starts at index 0.
LEMMA CandidateComparison ==
    ASSUME NoSnapshots, NEW c, c.from \in Server, c.to \in Server,
           c.lastLogIndex = LastIndex(c.from), c.lastLogTerm = LastTerm(c.from),
           candidateUpToDate(c)
    PROVE  c.to \in Behind(c.from)
  <1> DEFINE p == c.to
             lg == Log[p]
             myLastTerm == IF lg = <<>> THEN 0 ELSE lg[Len(lg)].term
  <1>1. lg \in Seq([term : 0 .. StartTerm, index : Nat]) /\ Len(lg) \in Nat
    BY LogEntries
  <1>2. LastIndex(p) = Len(lg) - 1
    BY <1>1 DEF NoSnapshots, NoSnapshot, LastIndex, getLogSize, baseIndex
  <1>3. LastTerm(p) = myLastTerm
    <2>1. Snap[p].lastIncludedIndex = -1 /\ Snap[p].lastIncludedTerm = 0
      BY DEF NoSnapshots, NoSnapshot
    <2>2. baseIndex(Snap[p]) = 0
      BY <2>1 DEF baseIndex
    <2>3. CASE lg = <<>>
      BY <1>2, <2>1, <2>3 DEF LastTerm, getLogTerm
    <2>4. CASE lg # <<>>
      <3>1. Len(lg) > 0
        <4> HIDE DEF lg
        <4> QED
          BY <1>1, <2>4
      <3>2. Len(lg) - 1 # -1 /\ Len(lg) - 1 \in 0 .. Len(lg) - 1
            /\ Len(lg) - 1 + 1 = Len(lg) /\ Len(lg) - 1 - 0 = Len(lg) - 1
        BY <1>1, <3>1
      <3> QED
        BY <1>2, <2>1, <2>2, <2>4, <3>2 DEF LastTerm, getLogTerm
    <2> QED
      BY <2>3, <2>4
  <1>4. \/ c.lastLogTerm > myLastTerm
        \/ c.lastLogTerm = myLastTerm /\ c.lastLogIndex >= Len(lg) - 1
    BY DEF candidateUpToDate
  <1> QED
    BY <1>2, <1>3, <1>4 DEF Behind, UpToDate, LastIndex, LastTerm

\* Enough votes from nodes behind s make a majority behind s.
LEMMA VotesMakeMajority ==
    ASSUME NEW s \in Server, NEW G, G \subseteq Behind(s) \ {s},
           1 + Cardinality(G) > Cardinality(Server) \div 2
    PROVE  Majority(s)
  <1>1. IsFiniteSet(Server) /\ Behind(s) \subseteq Server
    BY ServerAssumption DEF Behind
  <1>2. s \in Behind(s)
    <2>1. LastIndex(s) \in Int /\ LastTerm(s) \in Int
      BY LastEntryType, BoundAssumption DEF LastIndex, LastTerm
    <2> QED
      BY <2>1 DEF Behind, UpToDate, LastIndex, LastTerm
  <1>3. IsFiniteSet(Behind(s)) /\ IsFiniteSet(G)
    BY <1>1, FS_Subset
  <1>4. Cardinality(G \cup {s}) = Cardinality(G) + 1
    BY <1>3, FS_AddElement
  <1>5. Cardinality(G \cup {s}) <= Cardinality(Behind(s))
    BY <1>2, <1>3, FS_Subset
  <1>6. /\ Cardinality(G) \in Nat /\ Cardinality(Behind(s)) \in Nat
        /\ Cardinality(Server) \in Nat
    BY <1>1, <1>3, FS_CardinalityType
  <1> QED
    BY <1>4, <1>5, <1>6 DEF Majority

\* A handler that moves on keeps every vote request honest if its own stays so.
LEMMA AdvanceHonest ==
    ASSUME \A c \in calls : HonestVote(c), NEW c \in calls, NEW d,
           HonestVote(d), Advance(c, d)
    PROVE  \A e \in calls' : HonestVote(e)
  BY DEF Advance

LEMMA InitVotes == Init => VotesEarned
  <1> SUFFICES ASSUME Init PROVE VotesEarned
    OBVIOUS
  <1>1. \A s \in Server : /\ timer[s].todo = {}
                          /\ timer[s].granted = {}
                          /\ timer[s].pc = "idle"
                          /\ state[s] = "FOLLOWER"
    BY DEF Init, IdleTimer
  <1>2. calls = {}
    BY DEF Init
  <1> QED
    BY <1>1, <1>2, InitType DEF VotesEarned

LEMMA TimerStepVotes ==
    ASSUME VotesEarned, NEW s \in Server, StartElection(s) \/ TimerStep(s)
    PROVE  /\ \A c \in calls' : HonestVote(c)
           /\ \A q \in Server :
                /\ timer'[q].todo \subseteq Peers(q)
                /\ timer'[q].granted \subseteq Behind(q) \ {q}
                /\ timer'[q].pc = "elected" => Majority(q)
                /\ state'[q] = "LEADER" => Majority(q)
  <1>0. /\ timer \in [Server -> TimerThread]
        /\ timer[s] \in TimerThread
        /\ state \in [Server -> {"FOLLOWER", "CANDIDATE", "LEADER"}]
    BY DEF VotesEarned, TypeOK
  <1>1. CASE StartElection(s)
    <2>1. timer'[s] = [IdleTimer EXCEPT !.pc = "save"]
      BY <1>0, <1>1 DEF StartElection
    <2>2. /\ timer'[s].todo = {} /\ timer'[s].granted = {}
          /\ timer'[s].pc = "save" /\ state'[s] = "CANDIDATE"
      BY <2>1, <1>0, <1>1 DEF StartElection, IdleTimer
    <2>3. \A q \in Server \ {s} : timer'[q] = timer[q] /\ state'[q] = state[q]
      BY <1>0, <1>1 DEF StartElection
    <2> QED
      BY <2>2, <2>3, <1>1 DEF VotesEarned, StartElection
  <1>2. ASSUME NEW p \in Server, AskVote(s, p)
        PROVE  /\ \A c \in calls' : HonestVote(c)
               /\ UNCHANGED state
               /\ \A q \in Server \ {s} : timer'[q] = timer[q]
               /\ timer'[s].todo \subseteq timer[s].todo
               /\ timer'[s].granted = timer[s].granted
               /\ timer'[s].pc = "waiting"
    <2>1. s # p
      BY <1>2 DEF VotesEarned, AskVote, Peers
    <2>2. HonestVote(RequestVoteCall(s, p))
      BY <2>1 DEF HonestVote, RequestVoteCall, LastIndex, LastTerm
    <2>3. \A c \in calls' : HonestVote(c)
      BY <1>2, <2>2 DEF AskVote, VotesEarned
    <2> QED
      BY <2>3, <1>0, <1>2 DEF AskVote, TimerThread, nodeVars
  <1>3. CASE ReceiveVote(s)
    <2>1. PICK c \in Awaited("RequestVote", s, timer[s].peer) :
             /\ calls' = calls \ {c}
             /\ \/ timer' = [timer EXCEPT ![s].pc = "stepdown",
                                          ![s].term = c.replyTerm]
                \/ timer' = [timer EXCEPT ![s].pc = "peers",
                                          ![s].granted = @ \cup VoteOf(c)]
      BY <1>3 DEF ReceiveVote
    <2>2. VoteOf(c) \subseteq Behind(s) \ {s}
      BY <2>1 DEF Awaited, VotesEarned, HonestVote, VoteOf
    <2>3. /\ timer'[s].todo = timer[s].todo
          /\ timer'[s].granted \subseteq timer[s].granted \cup VoteOf(c)
          /\ timer'[s].pc # "elected"
      BY <2>1, <1>0 DEF TimerThread
    <2>4. \A q \in Server \ {s} : timer'[q] = timer[q]
      BY <2>1, <1>0
    <2>5. UNCHANGED state /\ \A e \in calls' : HonestVote(e)
      BY <2>1, <1>3 DEF ReceiveVote, VotesEarned, nodeVars
    <2> QED
      BY <2>2, <2>3, <2>4, <2>5 DEF VotesEarned
  <1>4. CASE CandidateStepDown(s)
    <2>1. /\ timer'[s].todo = timer[s].todo
          /\ timer'[s].granted = timer[s].granted
          /\ timer'[s].pc = "savedown" /\ state'[s] = "FOLLOWER"
      BY <1>0, <1>4 DEF CandidateStepDown, StepDown, TimerThread
    <2>2. \A q \in Server \ {s} : timer'[q] = timer[q] /\ state'[q] = state[q]
      BY <1>0, <1>4 DEF CandidateStepDown, StepDown
    <2> QED
      BY <2>1, <2>2, <1>4 DEF VotesEarned, CandidateStepDown
  <1>5. CASE CountVotes(s)
    <2>1. CASE 1 + Cardinality(timer[s].granted) > Cardinality(Server) \div 2
      <3>1. Majority(s)
        BY <2>1, VotesMakeMajority DEF VotesEarned
      <3>2. /\ timer'[s].todo = timer[s].todo
            /\ timer'[s].granted = timer[s].granted
            /\ \A q \in Server \ {s} : timer'[q] = timer[q]
        BY <2>1, <1>0, <1>5 DEF CountVotes, TimerThread
      <3> QED
        BY <3>1, <3>2, <1>5 DEF VotesEarned, CountVotes, nodeVars
    <2>2. CASE ~(1 + Cardinality(timer[s].granted) > Cardinality(Server) \div 2)
      <3>1. timer' = [timer EXCEPT ![s] = IdleTimer]
        BY <2>2, <1>5 DEF CountVotes
      <3>2. /\ timer'[s].todo = {} /\ timer'[s].granted = {}
            /\ timer'[s].pc = "idle"
            /\ \A q \in Server \ {s} : timer'[q] = timer[q]
        BY <3>1, <1>0 DEF IdleTimer
      <3> QED
        BY <3>2, <1>5 DEF VotesEarned, CountVotes, nodeVars
    <2> QED
      BY <2>1, <2>2
  <1>6. CASE BecomeLeader(s)
    <2>1. Majority(s)
      BY <1>6 DEF BecomeLeader, VotesEarned
    <2>2. /\ timer'[s].todo = timer[s].todo
          /\ timer'[s].granted = timer[s].granted
          /\ \A q \in Server \ {s} : timer'[q] = timer[q] /\ state'[q] = state[q]
      BY <1>0, <1>6 DEF BecomeLeader, TimerThread
    <2> QED
      BY <2>1, <2>2, <1>6 DEF VotesEarned, BecomeLeader
  <1>7. CASE ResetTimeout(s)
    <2>1. /\ timer'[s].todo = timer[s].todo
          /\ timer'[s].granted = timer[s].granted
          /\ timer'[s].pc = "join"
          /\ \A q \in Server \ {s} : timer'[q] = timer[q]
      BY <1>0, <1>7 DEF ResetTimeout, TimerThread
    <2> QED
      BY <2>1, <1>7 DEF VotesEarned, ResetTimeout
  <1>8. CASE StartHeartbeats(s)
    <2>1. /\ timer'[s].todo = {} /\ timer'[s].granted = {}
          /\ timer'[s].pc = "idle"
          /\ \A q \in Server \ {s} : timer'[q] = timer[q]
      BY <1>0, <1>8 DEF StartHeartbeats, IdleTimer
    <2> QED
      BY <2>1, <1>8 DEF VotesEarned, StartHeartbeats
  <1>9. ASSUME NEW p \in Server, AskVote(s, p)
        PROVE  /\ \A c \in calls' : HonestVote(c)
               /\ \A q \in Server :
                    /\ timer'[q].todo \subseteq Peers(q)
                    /\ timer'[q].granted \subseteq Behind(q) \ {q}
                    /\ timer'[q].pc = "elected" => Majority(q)
                    /\ state'[q] = "LEADER" => Majority(q)
    BY <1>2, <1>9 DEF VotesEarned
  <1>10. CASE SaveCandidacy(s)
    <2>1. /\ timer'[s].todo = Peers(s)
          /\ timer'[s].granted = timer[s].granted
          /\ timer'[s].pc = "peers"
          /\ \A q \in Server \ {s} : timer'[q] = timer[q]
      BY <1>0, <1>10 DEF SaveCandidacy, TimerThread
    <2> QED
      BY <2>1, <1>10 DEF VotesEarned, SaveCandidacy, nodeVars
  <1>11. CASE SaveCandidateStepDown(s)
    <2>1. /\ timer'[s].todo = {} /\ timer'[s].granted = {}
          /\ timer'[s].pc = "idle"
          /\ \A q \in Server \ {s} : timer'[q] = timer[q]
      BY <1>0, <1>11 DEF SaveCandidateStepDown, IdleTimer
    <2> QED
      BY <2>1, <1>11 DEF VotesEarned, SaveCandidateStepDown, nodeVars
  <1> QED
    BY <1>1, <1>3, <1>4, <1>5, <1>6, <1>7, <1>8, <1>9, <1>10, <1>11
    DEF TimerStep

LEMMA HeartStepVotes ==
    ASSUME VotesEarned, NEW s \in Server, HeartStep(s)
    PROVE  /\ \A c \in calls' : HonestVote(c)
           /\ UNCHANGED timer
           /\ \A q \in Server : state'[q] = "LEADER" => state[q] = "LEADER"
  <1>1. UNCHANGED timer
    BY DEF HeartStep, HeartbeatRound, SendHeartbeat, EndHeartbeatRound,
           ReceiveHeartbeatReply, LeaderStepDown, SaveLeaderStepDown
  <1>2. \A q \in Server : state'[q] = "LEADER" => state[q] = "LEADER"
    BY DEF HeartStep, HeartbeatRound, SendHeartbeat, EndHeartbeatRound,
           ReceiveHeartbeatReply, LeaderStepDown, SaveLeaderStepDown, StepDown,
           nodeVars, VotesEarned, TypeOK
  <1>3. ASSUME NEW p \in Server, SendHeartbeat(s, p)
        PROVE  \A c \in calls' : HonestVote(c)
    <2>1. HonestVote(AppendEntriesCall(s, p))
      BY DEF HonestVote, AppendEntriesCall
    <2> QED
      BY <1>3, <2>1 DEF SendHeartbeat, VotesEarned
  <1>4. CASE ReceiveHeartbeatReply(s)
    <2>1. calls' \subseteq calls
      BY <1>4 DEF ReceiveHeartbeatReply
    <2> QED
      BY <1>1, <1>2, <2>1 DEF VotesEarned
  <1>5. CASE \/ HeartbeatRound(s) \/ EndHeartbeatRound(s)
             \/ LeaderStepDown(s) \/ SaveLeaderStepDown(s)
    <2>1. calls' = calls
      BY <1>5 DEF HeartbeatRound, EndHeartbeatRound, LeaderStepDown,
                  SaveLeaderStepDown
    <2> QED
      BY <1>1, <1>2, <2>1 DEF VotesEarned
  <1> QED
    BY <1>1, <1>2, <1>3, <1>4, <1>5 DEF HeartStep

LEMMA HandlerStepVotes ==
    ASSUME NoSnapshots, VotesEarned, NEW c \in calls, HandlerStep(c)
    PROVE  /\ \A e \in calls' : HonestVote(e)
           /\ UNCHANGED timer
           /\ \A q \in Server : state'[q] = "LEADER" => state[q] = "LEADER"
  <1>0. /\ c \in VoteCall \cup HeartbeatCall
        /\ c.rpc = "RequestVote" => c \in VoteCall
        /\ HonestVote(c)
        /\ \A e \in calls : HonestVote(e)
    BY DEF VotesEarned, TypeOK, HeartbeatCall
  <1>1. UNCHANGED timer
    BY DEF HandlerStep, CheckTerm, becomeFollower, DecideVote, GrantVote,
           ReplyVote, HandleHeartbeat, SaveTerm, SaveVote
  <1>2. \A q \in Server : state'[q] = "LEADER" => state[q] = "LEADER"
    BY DEF HandlerStep, CheckTerm, becomeFollower, DecideVote, GrantVote,
           ReplyVote, HandleHeartbeat, SaveTerm, SaveVote, StepDown, nodeVars,
           VotesEarned, TypeOK
  <1>3. ASSUME NEW pc \in {"received", "newterm", "save", "decide", "reply",
                           "replied"},
               NEW n, c \in VoteCall
        PROVE  /\ HonestVote([c EXCEPT !.pc = pc])
               /\ HonestVote([c EXCEPT !.pc = pc, !.replyTerm = n])
    BY <1>0, <1>3 DEF HonestVote, VoteCall
  <1>4. CASE CheckTerm(c)
    <2>1. PICK pc \in {"reply", "newterm", "decide"} :
             Advance(c, [c EXCEPT !.pc = pc])
      BY <1>4 DEF CheckTerm
    <2> QED
      BY <2>1, <1>0, <1>1, <1>2, <1>3, <1>4, AdvanceHonest DEF CheckTerm
  <1>5. CASE becomeFollower(c)
    BY <1>0, <1>1, <1>2, <1>3, <1>5, AdvanceHonest DEF becomeFollower
  <1>6. CASE DecideVote(c)
    <2>0. c \in VoteCall /\ c.rpc = "RequestVote"
      BY <1>0, <1>6 DEF DecideVote
    <2>1. CASE candidateUpToDate(c)
      <3>1. c.to \in Behind(c.from)
        BY <2>0, <2>1, <1>0, CandidateComparison DEF VoteCall, HonestVote
      <3>2. \A pc \in {"grant", "reply"} : HonestVote([c EXCEPT !.pc = pc])
        BY <3>1, <2>0, <1>0 DEF HonestVote, VoteCall
      <3>3. PICK pc \in {"grant", "reply"} : Advance(c, [c EXCEPT !.pc = pc])
        BY <1>6 DEF DecideVote
      <3> QED
        BY <3>2, <3>3, <1>0, <1>1, <1>2, AdvanceHonest
    <2>2. CASE ~candidateUpToDate(c)
      <3>1. Advance(c, [c EXCEPT !.pc = "reply"])
        BY <2>2, <1>6 DEF DecideVote
      <3> QED
        BY <3>1, <2>0, <1>0, <1>1, <1>2, <1>3, AdvanceHonest
    <2> QED
      BY <2>1, <2>2
  <1>7. CASE GrantVote(c)
    <2>1. HonestVote([c EXCEPT !.pc = "savevote"])
      BY <1>0, <1>7 DEF HonestVote, VoteCall, GrantVote
    <2> QED
      BY <2>1, <1>0, <1>1, <1>2, <1>7, AdvanceHonest DEF GrantVote
  <1>8. CASE ReplyVote(c)
    BY <1>0, <1>1, <1>2, <1>3, <1>8, AdvanceHonest DEF ReplyVote
  <1>9. CASE HandleHeartbeat(c)
    <2> DEFINE reply == [c EXCEPT !.pc = "replied",
                                  !.replyTerm = currentTerm[c.to]]
    <2>1. HonestVote(reply)
      BY <1>0, <1>9 DEF HandleHeartbeat, HonestVote, HeartbeatCall, VoteCall
    <2>2. Advance(c, reply) \/ UNCHANGED calls
      BY <1>9 DEF HandleHeartbeat
    <2> QED
      BY <2>1, <2>2, <1>0, <1>1, <1>2, AdvanceHonest
  <1>10. CASE SaveTerm(c)
    BY <1>0, <1>1, <1>2, <1>3, <1>10, AdvanceHonest DEF SaveTerm
  <1>11. CASE SaveVote(c)
    <2>1. HonestVote([c EXCEPT !.pc = "reply", !.vote = TRUE])
      BY <1>0, <1>11 DEF HonestVote, VoteCall, SaveVote
    <2> QED
      BY <2>1, <1>0, <1>1, <1>2, <1>11, AdvanceHonest DEF SaveVote
  <1> QED
    BY <1>4, <1>5, <1>6, <1>7, <1>8, <1>9, <1>10, <1>11 DEF HandlerStep

LEMMA CallTimesOutVotes ==
    ASSUME VotesEarned, NEW c \in calls, CallTimesOut(c)
    PROVE  /\ \A e \in calls' : HonestVote(e)
           /\ \A q \in Server :
                /\ timer'[q].todo = timer[q].todo
                /\ timer'[q].granted = timer[q].granted
                /\ timer'[q].pc = "elected" => timer[q].pc = "elected"
                /\ state'[q] = state[q]
  <1>1. c \in VoteCall \cup HeartbeatCall /\ HonestVote(c)
    BY DEF VotesEarned, TypeOK
  <1>2. HonestVote([c EXCEPT !.live = FALSE])
    BY <1>1 DEF HonestVote, VoteCall, HeartbeatCall
  <1>3. \A e \in calls' : HonestVote(e)
    BY <1>2 DEF CallTimesOut, VotesEarned
  <1>4. \/ UNCHANGED timer
        \/ timer' = [timer EXCEPT ![c.from].pc = "peers"]
    BY DEF CallTimesOut
  <1>5. /\ timer \in [Server -> TimerThread] /\ UNCHANGED state
        /\ c.from \in Server
    BY <1>1 DEF VotesEarned, TypeOK, CallTimesOut, nodeVars, VoteCall, HeartbeatCall
  <1>6. \A q \in Server : /\ timer'[q].todo = timer[q].todo
                          /\ timer'[q].granted = timer[q].granted
                          /\ timer'[q].pc = "elected" => timer[q].pc = "elected"
    BY <1>4, <1>5 DEF TimerThread
  <1> QED
    BY <1>3, <1>5, <1>6

\* Every step keeps the votes earned.
LEMMA NextVotes ==
    ASSUME NoSnapshots
    PROVE  VotesEarned /\ [Next]_vars => VotesEarned'
  <1> SUFFICES ASSUME VotesEarned, [Next]_vars PROVE VotesEarned'
    OBVIOUS
  <1>0. TypeOK'
    BY NextType DEF VotesEarned
  <1>1. ASSUME NEW s \in Server, StartElection(s) \/ TimerStep(s)
        PROVE  VotesEarned'
    BY <1>0, <1>1, TimerStepVotes DEF VotesEarned
  <1>2. ASSUME NEW s \in Server, HeartStep(s) PROVE VotesEarned'
    BY <1>0, <1>2, HeartStepVotes DEF VotesEarned
  <1>3. ASSUME NEW c \in calls, HandlerStep(c) PROVE VotesEarned'
    BY <1>0, <1>3, HandlerStepVotes DEF VotesEarned
  <1>4. ASSUME NEW c \in calls, CallTimesOut(c) PROVE VotesEarned'
    BY <1>0, <1>4, CallTimesOutVotes DEF VotesEarned
  <1>5. CASE CrashAndRestart
    <2>1. /\ calls' = {}
          /\ \A s \in Server : /\ timer'[s].todo = {}
                               /\ timer'[s].granted = {}
                               /\ timer'[s].pc = "idle"
                               /\ state'[s] = "FOLLOWER"
      BY <1>5 DEF CrashAndRestart, IdleTimer
    <2> QED
      BY <1>0, <2>1 DEF VotesEarned
  <1>6. CASE UNCHANGED vars
    BY <1>0, <1>6 DEF VotesEarned, vars, nodeVars
  <1> QED
    BY <1>1, <1>2, <1>3, <1>4, <1>5, <1>6 DEF Next

\* Without snapshots the vote rule of the RequestVote handler does what it is
\* for, in every cluster, for all logs and all interleavings, losses and
\* restarts: a leader's log is at least as up to date as a majority of the
\* logs.  The unlocked term and votedFor tests, which break the one-leader
\* property, do not break this one.
THEOREM LeaderIsUpToDate ==
    ASSUME NoSnapshots
    PROVE  Spec => []LeaderUpToDate
  <1>1. Init => VotesEarned
    BY InitVotes
  <1>2. VotesEarned /\ [Next]_vars => VotesEarned'
    BY NextVotes
  <1>3. VotesEarned => LeaderUpToDate
    BY DEF VotesEarned, LeaderUpToDate, Majority, Behind
  <1> QED
    BY <1>1, <1>2, <1>3, PTL DEF Spec
=============================================================================
