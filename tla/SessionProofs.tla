--------------------------- MODULE SessionProofs ---------------------------
(***************************************************************************)
(* Theorems about Session, for any number of nodes, clients, requests,     *)
(* lost calls and restarts: its state stays well formed; as long as at     *)
(* most one leader is replaced and no deposed one's calls reach peers, a   *)
(* write that is answered OK was executed; and then, or over restarts when *)
(* nothing is lost and no leader replaced, an executed one stays in the    *)
(* log of the newest leader.  Without any such bound, what is executed     *)
(* again is explained by what was lost, elected, sent on or restarted.     *)
(***************************************************************************)
EXTENDS Session, FiniteSetTheorems, SequenceTheorems, TLAPS

-----------------------------------------------------------------------------
(* The inductive invariant.                                                *)

\* No entry is of a later term than the node that holds it, in memory and on
\* disk.
EntryTerms ==
    \A n \in Node :
        /\ \A i \in 1 .. Len(log[n]) : log[n][i].term <= currentTerm[n]
        /\ \A i \in 1 .. Len(saved[n].log) : saved[n].log[i].term <= saved[n].term

\* The last entry of a log is its newest.
EndsNewest(lg) == \A i \in 1 .. Len(lg) : lg[i].term <= LastTerm(lg)
LogsEndNewest == \A n \in Node : EndsNewest(log[n]) /\ EndsNewest(saved[n].log)

\* Requests on their way have numbers that were given out, each once.
Live == {h.req : h \in handlers} \cup
        {session[c].req : c \in {d \in Client : session[d] # Idle}}
LiveNumbered ==
    /\ \A c \in Client : session[c] # Idle => session[c].req.client = c
    /\ \A r \in Live : r.id <= counter[r.client]
    /\ \A r1, r2 \in Live : r1.client = r2.client /\ r1.id = r2.id => r1 = r2

Working(h) == h.pc # "received"

\* Leaders of one term are the same node, and a leader is the newest one or was
\* replaced by it in the one election that may be: a majority is in the new
\* term, and no third node ever led or serves a request.
Replaced(n, m) ==
    /\ currentTerm[m] = currentTerm[n] + 1
    /\ \E Q \in Quorum : \A k \in Q : currentTerm[k] = currentTerm[m]
Old(n) == /\ ~Newest(n)
          /\ state[n] = "LEADER" \/ \E h \in handlers : Working(h) /\ h.node = n
Roles ==
    /\ \A n, m \in Node : /\ state[n] = "LEADER" /\ state[m] = "LEADER"
                          /\ currentTerm[n] = currentTerm[m]
                          => n = m
    /\ \A n \in Node : state[n] = "LEADER" =>
          Newest(n) \/ \E m \in Node : Newest(m) /\ Replaced(n, m)
    /\ \A h \in handlers : Working(h) => \E m \in Node : Newest(m)
    /\ \A n \in Node : Old(n) => used.elections = 1
    /\ \A n, m \in Node : Old(n) /\ Old(m) => n = m

\* The entry at the handler's index is its own.
Own(h) ==
    /\ h.index < Len(log[h.node])
    /\ log[h.node][h.index + 1] = [term |-> currentTerm[h.node], req |-> h.req]
    /\ LastTerm(log[h.node]) = currentTerm[h.node]

\* Node k has the newest leader n's log up to index i, and nothing older at its
\* end.
HasPrefix(k, n, i) ==
    /\ currentTerm[k] = currentTerm[n]
    /\ i < Len(log[k]) /\ LastTerm(log[k]) = currentTerm[n]
    /\ \A j \in 1 .. i + 1 : log[k][j] = log[n][j]

\* What the handler of a leader that was replaced by m may find at its index:
\* its own entry, or one that is older than m's term.
Outlived(h, m) ==
    /\ h.index < Len(log[m]) /\ h.index < Len(log[h.node])
    /\ \A k \in Node : \A i \in 1 .. Len(log[k]) :
          log[k][i].term = currentTerm[m] => i > h.index + 1
    /\ state[h.node] = "LEADER" => log[h.node][h.index + 1].req = h.req
    /\ state[h.node] # "LEADER" => currentTerm[h.node] = currentTerm[m]

PendingAtNewest ==
    \A h \in handlers : Newest(h.node) =>
        /\ h.pc \in {"replicate", "commit"} => Own(h)
        /\ h.pc = "commit" =>
              \E Q \in Quorum : \A k \in Q : HasPrefix(k, h.node, h.index)
PendingAtOld ==
    \A h \in handlers : h.pc = "commit" /\ ~Newest(h.node) =>
        \A m \in Node : Newest(m) => Outlived(h, m)

\* Whatever says OK stands for an executed entry: a handler's result, a cached
\* one and one in a file.
Stands(c, id) == \E x \in executed : x.entry.req.client = c /\ x.entry.req.id = id
Explained ==
    /\ \A h \in handlers : h.pc = "persist" /\ h.result = "OK" => Done(h.req)
    /\ \A n \in Node, c \in Client :
          /\ saved[n].cache[c].result = "OK" => Stands(c, saved[n].cache[c].id)
          /\ cache[n][c].result = "OK" =>
                \E x \in executed :
                    /\ x.entry.req.client = c
                    /\ x.entry.req.id = cache[n][c].id
                    /\ used.restarts = 0 =>
                          /\ x.entry.req.id <= counter[c]
                          /\ \A r \in Live : r.client = c /\ r.id = cache[n][c].id
                                => r = x.entry.req

\* One election, after which no deposed leader's calls arrive; a leader is not
\* deposed without one.
OneElection == used.elections <= 1 /\ used.strays = 0
StraysDeposed == used.elections = 0 => used.strays = 0

\* No deposed leader's handler sends on in the step.
Tested == \A h \in handlers : ~SendsOn(h)

SessionInv ==
    /\ TypeOK /\ EntryTerms /\ LiveNumbered /\ StraysDeposed
    /\ OneElection => /\ LogsEndNewest
                      /\ Roles /\ PendingAtNewest /\ PendingAtOld
                      /\ Explained /\ AnsweredExecuted

-----------------------------------------------------------------------------
(* Majorities.                                                             *)

LEMMA QuorumsMeet ==
    ASSUME NEW P \in Quorum, NEW Q \in Quorum
    PROVE  \E k \in Node : k \in P /\ k \in Q
  <1>1. IsFiniteSet(Node) /\ Cardinality(Node) = N
    <2>1. N \in Nat \ {0} /\ N - 1 \in Int
      BY NAssumption
    <2> QED
      BY <2>1, FS_Interval DEF Node
  <1>2. /\ P \subseteq Node /\ Q \subseteq Node
        /\ Cardinality(P) = N \div 2 + 1 /\ Cardinality(Q) = N \div 2 + 1
    BY DEF Quorum
  <1>3. Cardinality(P) + Cardinality(Q) > Cardinality(Node)
    BY <1>1, <1>2, NAssumption
  <1>4. P \cap Q # {}
    BY <1>1, <1>2, <1>3, FS_MajoritiesIntersect
  <1> QED
    BY <1>2, <1>4

-----------------------------------------------------------------------------
(* Sessions and their calls.                                               *)

Waiting == [pc : {"wait"}, req : Request, node : Node, attempts : 0 .. N - 1]
Attempt == [pc : {"wait"}, req : Request, node : Node, attempts : Nat]
Answered == [req : Request, status : {"OK", "error"}]

\* What a step does to the calls when no new request comes in: handlers go,
\* a session's request is sent again, or the session ends.
CallsMove ==
    /\ handlers' \subseteq Handler
    /\ session' \in [Client -> {Idle} \cup Waiting]
    /\ answers' \subseteq Answered
    /\ \A g \in handlers' : \/ g \in handlers
                            \/ g.pc = "received" /\ g.req \in Live
    /\ \A c \in Client : session'[c] # Idle =>
          session[c] # Idle /\ session'[c].req = session[c].req

\* An answer is an old one, an error, or the status of h.
Answers(h, status) ==
    \A a \in answers' : \/ a \in answers
                        \/ a.status = "error"
                        \/ a = [req |-> h.req, status |-> status]

LEMMA CallIsHandler ==
    ASSUME NEW s \in Waiting
    PROVE  CallFrom(s) \in Handler /\ CallFrom(s).pc = "received"
           /\ CallFrom(s).req = s.req
  BY DEF CallFrom, Handler, Waiting, Result

LEMMA TryMoves ==
    ASSUME TypeOK, NEW c \in Client, session[c] # Idle,
           NEW s \in Attempt,
           s.req = session[c].req, NEW rest \in SUBSET handlers, Try(c, s, rest)
    PROVE  /\ CallsMove
           /\ \A a \in answers' : a \in answers \/ a.status = "error"
  <1>1. /\ session \in [Client -> {Idle} \cup Waiting] /\ handlers \subseteq Handler
        /\ answers \subseteq Answered /\ session[c] \in Waiting
        /\ session[c].req \in Request
    BY DEF TypeOK, Waiting, Answered
  <1>2. session[c].req \in Live
    BY DEF Live
  <1>3. CASE s.attempts < N
    <2>1. s \in Waiting
      BY <1>3, NAssumption DEF Waiting, Attempt
    <2>2. /\ session' = [session EXCEPT ![c] = s]
          /\ handlers' = rest \cup {CallFrom(s)} /\ answers' = answers
      BY <1>3 DEF Try
    <2>3. CallFrom(s) \in Handler /\ CallFrom(s).pc = "received"
          /\ CallFrom(s).req \in Live
      BY <2>1, <1>2, CallIsHandler
    <2>4. session' \in [Client -> {Idle} \cup Waiting]
      BY <1>1, <2>1, <2>2
    <2>5. \A d \in Client : session'[d] # Idle =>
             session[d] # Idle /\ session'[d].req = session[d].req
      BY <1>1, <2>2
    <2> QED
      BY <1>1, <2>2, <2>3, <2>4, <2>5 DEF CallsMove
  <1>4. CASE ~(s.attempts < N)
    <2>1. /\ session' = [session EXCEPT ![c] = Idle]
          /\ handlers' = rest
          /\ answers' = answers \cup {[req |-> session[c].req, status |-> "error"]}
      BY <1>4 DEF Try, Return
    <2>2. session' \in [Client -> {Idle} \cup Waiting]
      BY <1>1, <2>1
    <2>3. \A d \in Client : session'[d] # Idle =>
             session[d] # Idle /\ session'[d].req = session[d].req
      BY <1>1, <2>1
    <2>4. answers' \subseteq Answered
      BY <1>1, <2>1 DEF Answered
    <2> QED
      BY <1>1, <2>1, <2>2, <2>3, <2>4 DEF CallsMove
  <1> QED
    BY <1>3, <1>4

\* A handler leaves and nobody waits for it.
LEMMA LeaveMoves ==
    ASSUME TypeOK, NEW h \in handlers, handlers' = handlers \ {h},
           UNCHANGED <<session, answers>>
    PROVE  CallsMove /\ answers' = answers
  BY DEF TypeOK, CallsMove, Waiting, Answered

LEMMA AwaitedSession ==
    ASSUME TypeOK, NEW h \in handlers, Awaited(h)
    PROVE  /\ h.req.client \in Client
           /\ session[h.req.client] # Idle
           /\ session[h.req.client] \in Waiting
           /\ session[h.req.client].req = h.req
  <1>1. h.req.client \in Client
    BY DEF TypeOK, Handler, Request
  <1>2. session[h.req.client].pc = "wait" /\ session[h.req.client].req = h.req
    BY DEF Awaited
  <1>3. session[h.req.client] # Idle
    BY <1>2 DEF Idle
  <1> QED
    BY <1>1, <1>2, <1>3 DEF TypeOK, Waiting

\* A session's record with another node or one more attempt.
LEMMA NextAttempt ==
    ASSUME NEW w \in Waiting, NEW n \in Node
    PROVE  /\ [w EXCEPT !.node = n] \in Attempt
           /\ [w EXCEPT !.node = n].req = w.req
           /\ Again(w, n) \in Attempt
           /\ Again(w, n).req = w.req
  <1>1. w \in Attempt
    BY NAssumption DEF Waiting, Attempt
  <1>2. [w EXCEPT !.node = n] \in Attempt /\ [w EXCEPT !.node = n].req = w.req
    BY <1>1 DEF Attempt
  <1>3. w.attempts + 1 \in Nat
    BY <1>1 DEF Attempt
  <1>4. Again(w, n) \in Attempt
    BY <1>1, <1>3 DEF Again, Attempt
  <1>5. Again(w, n).req = w.req
    BY <1>1 DEF Again, Attempt
  <1> QED
    BY <1>2, <1>4, <1>5

LEMMA ReplyMoves ==
    ASSUME TypeOK, NEW h \in handlers, NEW status \in {"OK", "error"},
           Reply(h, status)
    PROVE  CallsMove /\ Answers(h, status)
  <1> DEFINE c == h.req.client
             rest == handlers \ {h}
  <1>1. CASE ~Awaited(h)
    BY <1>1, LeaveMoves DEF Reply, Answers
  <1>2. CASE Awaited(h) /\ status = "OK"
    <2>1. c \in Client /\ session[c].req = h.req
      BY <1>2, AwaitedSession
    <2>2. /\ session' = [session EXCEPT ![c] = Idle]
          /\ answers' = answers \cup {[req |-> h.req, status |-> status]}
          /\ handlers' = rest
      BY <1>2, <2>1 DEF Reply, Return
    <2>3. h.req \in Request
      BY DEF TypeOK, Handler
    <2>4. session' \in [Client -> {Idle} \cup Waiting] /\ answers' \subseteq Answered
      BY <2>1, <2>2, <2>3 DEF TypeOK, Waiting, Answered
    <2>5. \A d \in Client : session'[d] # Idle =>
             session[d] # Idle /\ session'[d].req = session[d].req
      BY <2>1, <2>2 DEF TypeOK
    <2> QED
      BY <2>2, <2>4, <2>5 DEF CallsMove, Answers, TypeOK
  <1>3. CASE Awaited(h) /\ status # "OK"
    <2>1. PICK n \in Node : Try(c, Again(session[c], n), rest)
      BY <1>3 DEF Reply
    <2>2. /\ c \in Client /\ session[c] # Idle /\ session[c] \in Waiting
      BY <1>3, AwaitedSession
    <2> DEFINE s == Again(session[c], n)
    <2>3. s \in Attempt
          /\ s.req = session[c].req
      BY <2>2, NextAttempt
    <2>4. Try(c, s, rest) /\ rest \in SUBSET handlers
      BY <2>1
    <2> HIDE DEF s, c, rest
    <2>5. CallsMove /\ \A a \in answers' : a \in answers \/ a.status = "error"
      BY <2>2, <2>3, <2>4, TryMoves
    <2> QED
      BY <2>5 DEF Answers
  <1> QED
    BY <1>1, <1>2, <1>3

LEMMA RedirectMoves ==
    ASSUME TypeOK, NEW h \in handlers, Redirect(h)
    PROVE  CallsMove /\ Answers(h, "error")
  <1> DEFINE c == h.req.client
             rest == handlers \ {h}
  <1>1. CASE ~Awaited(h)
    BY <1>1, LeaveMoves DEF Redirect, Answers
  <1>2. CASE Awaited(h)
    <2>1. PICK n \in Node : Try(c, [session[c] EXCEPT !.node = n], rest)
      <3>1. (IF leaderId[h.node] = NoNode THEN Node ELSE {leaderId[h.node]})
                \subseteq Node
        BY DEF TypeOK, Handler
      <3> QED
        BY <1>2, <3>1 DEF Redirect
    <2>2. /\ c \in Client /\ session[c] # Idle /\ session[c] \in Waiting
      BY <1>2, AwaitedSession
    <2> DEFINE s == [session[c] EXCEPT !.node = n]
    <2>3. s \in Attempt
          /\ s.req = session[c].req
      BY <2>2, NextAttempt
    <2>4. Try(c, s, rest) /\ rest \in SUBSET handlers
      BY <2>1
    <2> HIDE DEF s, c, rest
    <2>5. CallsMove /\ \A a \in answers' : a \in answers \/ a.status = "error"
      BY <2>2, <2>3, <2>4, TryMoves
    <2> QED
      BY <2>5 DEF Answers
  <1> QED
    BY <1>1, <1>2

LEMMA TimeoutMoves ==
    ASSUME TypeOK, NEW c \in Client, Timeout(c)
    PROVE  CallsMove /\ \A a \in answers' : a \in answers \/ a.status = "error"
  <1> DEFINE n == (session[c].node + 1) % N
             s == Again(session[c], n)
  <1>1. PICK h \in handlers, rest \in SUBSET handlers :
            h.req.client = c /\ Awaited(h) /\ Try(c, s, rest)
    BY DEF Timeout
  <1>2. session[c] # Idle /\ session[c] \in Waiting
    BY <1>1, AwaitedSession
  <1>3. n \in Node
    BY <1>2, NAssumption DEF Waiting, Node
  <1> HIDE DEF n
  <1>4. s \in Attempt
        /\ s.req = session[c].req
    BY <1>2, <1>3, NextAttempt
  <1> HIDE DEF s
  <1> QED
    BY <1>1, <1>2, <1>4, TryMoves

\* A handler goes on.
Advance(h, g) ==
    /\ g \in Handler /\ g.req = h.req /\ g.node = h.node
    /\ handlers' = (handlers \ {h}) \cup {g}
    /\ UNCHANGED <<session, answers>>

\* The calls of the next state are well formed, and none is a new request.
CallsKept ==
    /\ handlers' \subseteq Handler
    /\ session' \in [Client -> {Idle} \cup Waiting]
    /\ answers' \subseteq Answered
    /\ Live' \subseteq Live
    /\ \A c \in Client : session'[c] # Idle =>
          session[c] # Idle /\ session'[c].req = session[c].req

LEMMA MoveKeeps ==
    ASSUME CallsMove
    PROVE  CallsKept
  <1>1. Live' \subseteq Live
    BY DEF CallsMove, Live
  <1> QED
    BY <1>1 DEF CallsMove, CallsKept

LEMMA AdvanceKeeps ==
    ASSUME TypeOK, NEW h \in handlers, NEW g, Advance(h, g)
    PROVE  CallsKept
  <1>1. /\ handlers' = (handlers \ {h}) \cup {g} /\ g.req = h.req /\ g \in Handler
        /\ session' = session /\ answers' = answers
    BY DEF Advance
  <1>2. Live' \subseteq Live
    BY <1>1 DEF Live
  <1> QED
    BY <1>1, <1>2 DEF TypeOK, CallsKept, Waiting, Answered

LEMMA GoAdvances ==
    ASSUME TypeOK, NEW h \in handlers, NEW p \in {"command", "append", "commit"},
           Go(h, p)
    PROVE  Advance(h, [h EXCEPT !.pc = p])
  <1>1. h \in Handler
    BY DEF TypeOK
  <1> QED
    BY <1>1 DEF Go, Advance, Handler

LEMMA StatusType == \A op, result : Status(op, result) \in {"OK", "error"}
  BY DEF Status

\* What the steps of a handler do to the calls.
LEMMA ReceiveCalls ==
    ASSUME TypeOK, NEW h \in handlers, Receive(h)
    PROVE  \/ CallsMove /\ Answers(h, "error")
           \/ /\ state[h.node] = "LEADER"
              /\ Advance(h, [h EXCEPT !.pc = "command"])
  BY RedirectMoves, GoAdvances DEF Receive

LEMMA CheckCalls ==
    ASSUME TypeOK, NEW h \in handlers, CheckCommand(h)
    PROVE  \/ CallsMove /\ Answers(h, Status(h.req.op, "not leader"))
           \/ LET last == cache[h.node][h.req.client]
              IN  /\ last.id = h.req.id
                  /\ CallsMove /\ Answers(h, Status(h.req.op, last.result))
           \/ Advance(h, [h EXCEPT !.pc = "append"])
  <1> DEFINE last == cache[h.node][h.req.client]
  <1>1. CASE state[h.node] # "LEADER"
    BY <1>1, StatusType, ReplyMoves DEF CheckCommand
  <1>2. CASE state[h.node] = "LEADER" /\ last.id = h.req.id
    BY <1>2, StatusType, ReplyMoves DEF CheckCommand
  <1>3. CASE state[h.node] = "LEADER" /\ last.id # h.req.id
    BY <1>3, GoAdvances DEF CheckCommand
  <1> QED
    BY <1>1, <1>2, <1>3

LEMMA AppendCalls ==
    ASSUME TypeOK, NEW h \in handlers, AppendEntry(h)
    PROVE  Advance(h, [h EXCEPT !.pc = "replicate", !.index = Len(log[h.node])])
  <1>1. h \in Handler /\ Len(log[h.node]) \in Nat
    BY DEF TypeOK, Handler
  <1> QED
    BY <1>1 DEF AppendEntry, Advance, Handler, sessionVars

LEMMA EntryOp ==
    ASSUME NEW e \in Entry
    PROVE  e.req.op \in {"PUT", "GET", "DELETE"}
  <1>1. e.req \in Request \/ e.req = NoRequest
    BY DEF Entry
  <1>2. CASE e.req \in Request
    BY <1>2, OpAssumption DEF Request
  <1>3. CASE e.req = NoRequest
    BY <1>3 DEF NoRequest
  <1> QED
    BY <1>1, <1>2, <1>3

LEMMA CommitCalls ==
    ASSUME TypeOK, NEW h \in handlers, Commit(h)
    PROVE  LET op == log[h.node][h.index + 1].req.op
           IN  \E result \in Result :
                  /\ \/ result \in Outcome[op] /\ h.index > lastApplied[h.node]
                     \/ result = NoResult
                  /\ Advance(h, [h EXCEPT !.pc = "persist", !.result = result])
                  /\ cache' = [cache EXCEPT ![h.node][h.req.client] =
                                  [id |-> h.req.id, result |-> result]]
  <1> DEFINE op == log[h.node][h.index + 1].req.op
  <1>1. h \in Handler
    BY DEF TypeOK
  <1>2. PICK result \in (IF h.index > lastApplied[h.node] THEN Outcome[op]
                        ELSE {NoResult}) :
            /\ cache' = [cache EXCEPT ![h.node][h.req.client] =
                            [id |-> h.req.id, result |-> result]]
            /\ handlers' = (handlers \ {h}) \cup
                           {[h EXCEPT !.pc = "persist", !.result = result]}
    BY DEF Commit
  <1>3. op \in {"PUT", "GET", "DELETE"}
    <2>1. log[h.node] \in Seq(Entry) /\ h.index \in Nat
          /\ h.index < Len(log[h.node])
      BY <1>1 DEF TypeOK, Commit, OfCurrentTerm, Handler
    <2>2. log[h.node][h.index + 1] \in Entry
      <3>1. h.index + 1 \in 1 .. Len(log[h.node])
        BY <2>1
      <3> HIDE DEF Entry
      <3> QED
        BY <2>1, <3>1
    <2> QED
      BY <2>2, EntryOp
  <1>4. Outcome[op] \subseteq Result
    <2> HIDE DEF op
    <2>1. CASE op = "PUT"
      BY <2>1 DEF Outcome, Result
    <2>2. CASE op = "GET"
      BY <2>2 DEF Outcome, Result
    <2>3. CASE op = "DELETE"
      BY <2>3 DEF Outcome, Result
    <2> QED
      BY <1>3, <2>1, <2>2, <2>3
  <1>5. result \in Result
    BY <1>2, <1>4 DEF Result
  <1>6. [h EXCEPT !.pc = "persist", !.result = result] \in Handler
    BY <1>1, <1>5 DEF Handler
  <1>7. Advance(h, [h EXCEPT !.pc = "persist", !.result = result])
    BY <1>1, <1>2, <1>6 DEF Advance, Commit, sessionVars, Handler
  <1>8. \/ result \in Outcome[op] /\ h.index > lastApplied[h.node]
        \/ result = NoResult
    BY <1>2
  <1> QED
    BY <1>2, <1>5, <1>7, <1>8

LEMMA HandlerCalls ==
    ASSUME TypeOK, NEW h \in handlers, HandlerStep(h)
    PROVE  CallsKept /\ counter' = counter
  <1>1. CASE Receive(h)
    BY <1>1, ReceiveCalls, MoveKeeps, AdvanceKeeps DEF Receive
  <1>2. CASE CheckCommand(h)
    BY <1>2, CheckCalls, MoveKeeps, AdvanceKeeps DEF CheckCommand
  <1>3. CASE AppendEntry(h)
    BY <1>3, AppendCalls, AdvanceKeeps DEF AppendEntry, sessionVars
  <1>4. ASSUME NEW Q \in Quorum, Replicate(h, Q)
        PROVE  CallsKept /\ counter' = counter
    <2>1. Go(h, "commit") /\ counter' = counter
      BY <1>4 DEF Replicate
    <2> QED
      BY <2>1, GoAdvances, AdvanceKeeps
  <1>5. CASE NotReplicated(h)
    BY <1>5, StatusType, ReplyMoves, MoveKeeps DEF NotReplicated
  <1>6. CASE StepDown(h)
    BY <1>6, StatusType, ReplyMoves, MoveKeeps DEF StepDown
  <1>7. CASE Commit(h)
    BY <1>7, CommitCalls, AdvanceKeeps DEF Commit, sessionVars
  <1>8. CASE NotCommitted(h)
    BY <1>8, StatusType, ReplyMoves, MoveKeeps DEF NotCommitted
  <1>9. CASE PersistAndReply(h)
    BY <1>9, StatusType, ReplyMoves, MoveKeeps DEF PersistAndReply
  <1>10. CASE SendsOn(h)
    <2>1. /\ counter' = counter
          /\ Go(h, "commit") \/ Reply(h, Status(h.req.op, "not committed"))
      BY <1>10 DEF SendsOn, ReplicateDeposed
    <2> QED
      BY <2>1, StatusType, ReplyMoves, MoveKeeps, GoAdvances, AdvanceKeeps
  <1> QED
    BY <1>1, <1>2, <1>3, <1>4, <1>5, <1>6, <1>7, <1>8, <1>9, <1>10 DEF HandlerStep

LEMMA KeptNumbers ==
    ASSUME LiveNumbered, CallsKept, counter' = counter
    PROVE  LiveNumbered'
  BY DEF LiveNumbered, CallsKept

\* A new request takes a number that no other request on its way has.
LEMMA NewRequest ==
    ASSUME TypeOK, LiveNumbered, NEW c \in Client, NEW op \in Op, NEW n \in Node,
           ClientCommand(c, op, n)
    PROVE  /\ counter' \in [Client -> 0 .. MaxLines]
           /\ \A d \in Client : counter[d] <= counter'[d]
           /\ handlers' \subseteq Handler
           /\ session' \in [Client -> {Idle} \cup Waiting]
           /\ answers' = answers
           /\ \A g \in handlers' : g \in handlers \/ g.pc = "received"
           /\ \A q \in Live' : q \in Live \/ (q.client = c /\ q.id = counter[c] + 1)
           /\ LiveNumbered'
  <1> DEFINE r == [client |-> c, id |-> counter[c] + 1, life |-> used.restarts,
                  op |-> op]
             s == [pc |-> "wait", req |-> r, node |-> n, attempts |-> 0]
  <1>1. /\ counter \in [Client -> 0 .. MaxLines] /\ counter[c] < MaxLines
        /\ counter' = [counter EXCEPT ![c] = @ + 1] /\ MaxLines \in Nat
        /\ session[c] = Idle /\ Try(c, s, handlers)
    BY BoundAssumption DEF TypeOK, ClientCommand
  <1>2. r \in Request /\ r.client = c /\ r.id = counter[c] + 1
    BY <1>1 DEF TypeOK, Request
  <1> HIDE DEF r
  <1>3. s \in Waiting /\ s.req = r /\ s.attempts < N
    BY <1>2, NAssumption DEF Waiting
  <1> HIDE DEF s
  <1>4. /\ session' = [session EXCEPT ![c] = s]
        /\ handlers' = handlers \cup {CallFrom(s)}
        /\ answers' = answers
    BY <1>1, <1>3 DEF Try
  <1>5. /\ CallFrom(s) \in Handler /\ CallFrom(s).pc = "received"
        /\ CallFrom(s).req = r
    BY <1>3, CallIsHandler
  <1>6. /\ handlers' \subseteq Handler
        /\ session' \in [Client -> {Idle} \cup Waiting]
    BY <1>3, <1>4, <1>5 DEF TypeOK, Waiting
  <1>7. counter' \in [Client -> 0 .. MaxLines] /\ counter'[c] = counter[c] + 1
        /\ \A d \in Client : counter[d] <= counter'[d]
    BY <1>1
  <1>8. \A q \in Live' : q \in Live \/ q = r
    <2>1. \A g \in handlers' : g \in handlers \/ g.req = r
      BY <1>4, <1>5
    <2>2. \A d \in Client : session'[d] # Idle =>
             \/ session[d] # Idle /\ session'[d].req = session[d].req
             \/ session'[d].req = r
      BY <1>3, <1>4 DEF TypeOK
    <2> QED
      BY <2>1, <2>2 DEF Live
  <1>9. LiveNumbered'
    <2>1. \A d \in Client : session'[d] # Idle => session'[d].req.client = d
      BY <1>2, <1>3, <1>4 DEF TypeOK, LiveNumbered
    <2>2. \A q \in Live : q \in Request
      BY DEF Live, TypeOK, Handler
    <2>3. \A q \in Live' : q.id <= counter'[q.client]
      <3> SUFFICES ASSUME NEW q \in Live' PROVE q.id <= counter'[q.client]
        OBVIOUS
      <3>1. CASE q = r
        BY <3>1, <1>1, <1>2, <1>7
      <3>2. CASE q \in Live
        <4>1. q.client \in Client /\ q.id \in Nat /\ q.id <= counter[q.client]
          BY <3>2, <2>2 DEF LiveNumbered, Request
        <4> QED
          BY <4>1, <1>1, <1>7
      <3> QED
        BY <1>8, <3>1, <3>2
    <2>4. \A q \in Live : q.client = c => q.id # counter[c] + 1
      <3> SUFFICES ASSUME NEW q \in Live, q.client = c PROVE q.id # counter[c] + 1
        OBVIOUS
      <3>1. q.id <= counter[c] /\ q.id \in Nat /\ counter[c] \in Nat
        BY <2>2, <1>1 DEF LiveNumbered, Request
      <3> QED
        BY <3>1
    <2>5. \A q1, q2 \in Live' : q1.client = q2.client /\ q1.id = q2.id => q1 = q2
      BY <1>2, <1>8, <2>4 DEF LiveNumbered
    <2> QED
      BY <2>1, <2>3, <2>5 DEF LiveNumbered
  <1>10. \A g \in handlers' : g \in handlers \/ g.pc = "received"
    BY <1>4, <1>5
  <1>11. \A q \in Live' : q \in Live \/ (q.client = c /\ q.id = counter[c] + 1)
    BY <1>2, <1>8
  <1> QED
    BY <1>4, <1>6, <1>7, <1>9, <1>10, <1>11

\* Sessions, handlers, answers and numbers in every step.
LEMMA NextCalls ==
    ASSUME TypeOK, LiveNumbered, [Next]_vars
    PROVE  /\ counter' \in [Client -> 0 .. MaxLines]
           /\ session' \in [Client -> {Idle} \cup Waiting]
           /\ handlers' \subseteq Handler
           /\ answers' \subseteq Answered
           /\ LiveNumbered'
  <1> DEFINE Good == /\ counter' \in [Client -> 0 .. MaxLines]
                     /\ session' \in [Client -> {Idle} \cup Waiting]
                     /\ handlers' \subseteq Handler
                     /\ answers' \subseteq Answered
                     /\ LiveNumbered'
  <1>1. /\ counter \in [Client -> 0 .. MaxLines]
        /\ session \in [Client -> {Idle} \cup Waiting]
        /\ handlers \subseteq Handler
        /\ answers \subseteq Answered
    BY DEF TypeOK, Waiting, Answered
  <1>2. ASSUME NEW c \in Client, NEW op \in Op, NEW n \in Node,
               ClientCommand(c, op, n)
        PROVE  Good
    BY <1>1, <1>2, NewRequest
  <1>3. ASSUME NEW c \in Client, OtherCommand(c)
        PROVE  Good
    <2>1. /\ counter' = [counter EXCEPT ![c] = @ + 1] /\ counter[c] < MaxLines
          /\ UNCHANGED <<session, answers, handlers>>
      BY <1>3 DEF OtherCommand
    <2>2. /\ counter' \in [Client -> 0 .. MaxLines]
          /\ \A d \in Client : counter[d] <= counter'[d]
      BY <1>1, <2>1, BoundAssumption
    <2>3. Live' = Live
      BY <2>1 DEF Live
    <2>4. LiveNumbered'
      <3>1. \A q \in Live : q \in Request
        BY DEF Live, TypeOK, Handler
      <3>2. \A q \in Live : q.id <= counter'[q.client]
        <4> SUFFICES ASSUME NEW q \in Live PROVE q.id <= counter'[q.client]
          OBVIOUS
        <4>1. q.client \in Client /\ q.id \in Nat /\ q.id <= counter[q.client]
          BY <3>1 DEF LiveNumbered, Request
        <4> QED
          BY <1>1, <2>2, <4>1
      <3> QED
        BY <2>1, <2>3, <3>2 DEF LiveNumbered
    <2> QED
      BY <1>1, <2>1, <2>2, <2>4
  <1>4. ASSUME CallsKept, counter' = counter
        PROVE  Good
    BY <1>1, <1>4, KeptNumbers DEF CallsKept
  <1>5. ASSUME NEW c \in Client, Timeout(c)
        PROVE  Good
    BY <1>4, <1>5, TimeoutMoves, MoveKeeps DEF Timeout
  <1>6. ASSUME NEW h \in handlers, HandlerStep(h)
        PROVE  Good
    BY <1>4, <1>6, HandlerCalls
  <1>7. ASSUME UNCHANGED <<counter, session, handlers, answers>>
        PROVE  Good
    BY <1>1, <1>7 DEF LiveNumbered, Live
  <1>8. ASSUME NEW n \in Node, (\E Q \in Quorum : Elect(n, Q)) \/ HearVote(n) \/ HearLeader(n)
        PROVE  Good
    BY <1>7, <1>8 DEF Elect, HearVote, HearLeader, sessionVars
  <1>9. ASSUME Restart
        PROVE  Good
    <2>1. /\ counter' = [c \in Client |-> 0] /\ session' = [c \in Client |-> Idle]
          /\ handlers' = {} /\ answers' = answers
      BY <1>9 DEF Restart
    <2>2. Live' = {}
      BY <2>1 DEF Live
    <2>3. LiveNumbered'
      BY <2>1, <2>2 DEF LiveNumbered
    <2> QED
      BY <1>1, <2>1, <2>3, BoundAssumption
  <1>10. ASSUME UNCHANGED vars
         PROVE  Good
    BY <1>7, <1>10 DEF vars, sessionVars
  <1> HIDE DEF Good
  <1>11. Good
    BY <1>2, <1>3, <1>5, <1>6, <1>8, <1>9, <1>10 DEF Next
  <1> QED
    BY <1>11 DEF Good

-----------------------------------------------------------------------------
(* The nodes.                                                              *)

SavedFile == [term : Nat, log : Seq(Entry), cache : [Client -> Answer]]

\* One more of a kind.
LEMMA SpendType ==
    ASSUME TypeOK, NEW kind \in {"requests", "elections", "faults", "strays", "restarts"},
           Spend(kind)
    PROVE  /\ used' \in [requests : Nat, elections : Nat, faults : Nat, strays : Nat, restarts : Nat]
           /\ used'.elections = used.elections + (IF kind = "elections" THEN 1 ELSE 0)
           /\ used'.strays = used.strays + (IF kind = "strays" THEN 1 ELSE 0)
           /\ used'.restarts = used.restarts + (IF kind = "restarts" THEN 1 ELSE 0)
  <1>1. /\ used \in [requests : Nat, elections : Nat, faults : Nat, strays : Nat, restarts : Nat]
        /\ used' = [used EXCEPT ![kind] = @ + 1]
    BY DEF TypeOK, Spend
  <1>2. CASE kind = "requests"
    BY <1>1, <1>2
  <1>3. CASE kind = "elections"
    BY <1>1, <1>3
  <1>4. CASE kind = "faults"
    BY <1>1, <1>4
  <1>5. CASE kind = "restarts"
    BY <1>1, <1>5
  <1>6. CASE kind = "strays"
    BY <1>1, <1>6
  <1> QED
    BY <1>2, <1>3, <1>4, <1>5, <1>6

LEMMA StraySpends ==
    ASSUME NEW h, SendsOn(h)
    PROVE  Spend("strays") /\ executed' = executed /\ counter' = counter
  BY DEF SendsOn, ReplicateDeposed

\* Elections, strays and restarts are only counted up.
LEMMA UsedGrows ==
    ASSUME TypeOK, [Next]_vars
    PROVE  /\ used' \in [requests : Nat, elections : Nat, faults : Nat, strays : Nat, restarts : Nat]
           /\ used.elections <= used'.elections /\ used.strays <= used'.strays
           /\ used.restarts <= used'.restarts
  <1>1. CASE used' = used
    BY <1>1 DEF TypeOK
  <1>2. ASSUME NEW kind \in {"requests", "elections", "faults", "strays", "restarts"},
               Spend(kind)
        PROVE  /\ used' \in [requests : Nat, elections : Nat, faults : Nat, strays : Nat, restarts : Nat]
               /\ used.elections <= used'.elections /\ used.strays <= used'.strays
               /\ used.restarts <= used'.restarts
    <2>1. used.elections \in Nat /\ used.restarts \in Nat /\ used.strays \in Nat
      BY DEF TypeOK
    <2> QED
      BY <1>2, <2>1, SpendType
  <1>3. \/ used' = used
        \/ \E kind \in {"requests", "elections", "faults", "strays", "restarts"} : Spend(kind)
    BY StraySpends DEF Next, vars, ClientCommand, OtherCommand, Timeout, HandlerStep,
           Receive, CheckCommand, AppendEntry, Replicate, NotReplicated, StepDown,
           Commit, NotCommitted, PersistAndReply, Elect, HearVote, HearLeader, Restart
  <1> QED
    BY <1>1, <1>2, <1>3

\* A step after which there was no such call has none.
LEMMA UndisturbedTested ==
    ASSUME TypeOK, used'.strays = 0
    PROVE  Tested
  <1> SUFFICES ASSUME NEW h \in handlers, SendsOn(h) PROVE FALSE
    BY DEF Tested
  <1>1. used.strays \in Nat
    BY DEF TypeOK
  <1>2. Spend("strays")
    BY StraySpends
  <1>3. used'.strays = used.strays + 1
    BY <1>2, SpendType
  <1> QED
    BY <1>1, <1>3

\* A file holds what the node has.
LEMMA SaveType ==
    ASSUME TypeOK, NEW S, Save(S), currentTerm' \in [Node -> Nat],
           log' \in [Node -> Seq(Entry)], cache' \in [Node -> [Client -> Answer]]
    PROVE  saved' \in [Node -> SavedFile]
  <1>1. saved \in [Node -> SavedFile]
    BY DEF TypeOK, SavedFile
  <1>2. \A n \in Node : [term |-> currentTerm'[n], log |-> log'[n],
                          cache |-> cache'[n]] \in SavedFile
    BY DEF SavedFile
  <1> HIDE DEF SavedFile
  <1> QED
    BY <1>1, <1>2 DEF Save

LEMMA PrefixType ==
    ASSUME NEW lg \in Seq(Entry), NEW i \in Nat
    PROVE  /\ SubSeq(lg, 1, Smaller(i + 1, Len(lg))) \in Seq(Entry)
           /\ Len(SubSeq(lg, 1, Smaller(i + 1, Len(lg)))) = Smaller(i + 1, Len(lg))
           /\ \A j \in 1 .. Smaller(i + 1, Len(lg)) :
                 SubSeq(lg, 1, Smaller(i + 1, Len(lg)))[j] = lg[j]
  <1> DEFINE m == Smaller(i + 1, Len(lg))
  <1>1. m \in Nat /\ m <= Len(lg)
    <2> HIDE DEF Entry
    <2> QED
      BY DEF Smaller
  <1> HIDE DEF m, Entry
  <1>2. \A j \in 1 .. m : lg[j] \in Entry
    BY <1>1
  <1>3. SubSeq(lg, 1, m) \in Seq(Entry) /\ Len(SubSeq(lg, 1, m)) = m
        /\ \A j \in 1 .. m : SubSeq(lg, 1, m)[j] = lg[j]
    BY <1>1, <1>2
  <1> QED
    BY <1>3 DEF m

\* What a deposed leader's calls may leave of a log: entries of the peer's own
\* log or of the leader's, each at its place, and of no other terms.
Placed(new, lg, own) ==
    /\ new \in Seq(Entry)
    /\ \A i \in 1 .. Len(new) : \/ i <= Len(lg) /\ new[i] = lg[i]
                                \/ i <= Len(own) /\ new[i] = own[i]

LEMMA TakenType ==
    ASSUME NEW lg \in Seq(Entry), NEW own \in Seq(Entry), NEW next \in Nat,
           NEW len \in Nat, next <= Len(lg), next <= Len(own), len <= Len(own)
    PROVE  Placed(Taken(lg, next, SubSeq(own, next + 1, len)), lg, own)
  <1> HIDE DEF Entry
  <1> DEFINE entries == SubSeq(own, next + 1, len)
             new == Taken(lg, next, entries)
  <1>1. ASSUME new = lg PROVE Placed(new, lg, own)
    <2> HIDE DEF new
    <2> QED
      BY <1>1 DEF Placed
  <1>2. ASSUME new # lg PROVE Placed(new, lg, own)
    <2>1. new = SubSeq(lg, 1, next) \o entries /\ entries # <<>>
      BY Zenon, <1>2 DEF Taken
    <2>2. \A j \in next + 1 .. len : own[j] \in Entry
      OBVIOUS
    <2>3. /\ entries \in Seq(Entry)
          /\ Len(entries) = IF next + 1 <= len THEN len - next ELSE 0
          /\ \A j \in 1 .. Len(entries) : entries[j] = own[next + j]
      <3>1. CASE next + 1 <= len
        <4>1. entries \in Seq(Entry)
          BY <2>2, <3>1
        <4>2. Len(entries) = len - next
          BY <2>2, <3>1
        <4>3. \A j \in 1 .. Len(entries) : entries[j] = own[next + j]
          BY <2>2, <3>1, <4>2
        <4> QED
          BY <3>1, <4>1, <4>2, <4>3
      <3>2. CASE ~(next + 1 <= len)
        <4>1. entries = <<>>
          BY <3>2
        <4> QED
          BY <3>2, <4>1, <2>1
      <3> QED
        BY <3>1, <3>2
    <2>4. /\ SubSeq(lg, 1, next) \in Seq(Entry) /\ Len(SubSeq(lg, 1, next)) = next
          /\ \A j \in 1 .. next : SubSeq(lg, 1, next)[j] = lg[j]
      OBVIOUS
    <2> HIDE DEF entries, new
    <2>5. next + 1 <= len /\ Len(entries) = len - next
      BY <2>1, <2>3
    <2>6. new \in Seq(Entry) /\ Len(new) = len
      BY <2>1, <2>3, <2>4, <2>5
    <2>7. ASSUME NEW i \in 1 .. Len(new)
          PROVE  \/ i <= Len(lg) /\ new[i] = lg[i]
                 \/ i <= Len(own) /\ new[i] = own[i]
      <3>1. CASE i <= next
        <4>1. new[i] = SubSeq(lg, 1, next)[i]
          BY <2>1, <2>3, <2>4, <2>6, <3>1
        <4> QED
          BY <2>4, <3>1, <4>1
      <3>2. CASE i > next
        <4>1. new[i] = entries[i - next]
          BY <2>1, <2>3, <2>4, <2>6, <3>2
        <4>2. i - next \in 1 .. Len(entries)
          BY <2>5, <2>6, <3>2
        <4>3. entries[i - next] = own[next + (i - next)]
          BY <2>3, <4>2
        <4> QED
          BY <2>6, <4>1, <4>3
      <3> QED
        BY <3>1, <3>2
    <2> QED
      BY <2>6, <2>7 DEF Placed
  <1> QED
    BY Zenon, <1>1, <1>2

\* What such calls change.
LEMMA SendsOnLogs ==
    ASSUME TypeOK, NEW h \in handlers, SendsOn(h)
    PROVE  /\ h.node \in Node /\ state[h.node] # "LEADER" /\ h.pc = "replicate"
           /\ UNCHANGED <<counter, state, currentTerm, cache, executed>>
           /\ log' \in [Node -> Seq(Entry)] /\ lastApplied' \in [Node -> Nat]
           /\ leaderId' \in [Node -> Node \cup {NoNode}]
           /\ \A n \in Node : lastApplied[n] <= lastApplied'[n]
           /\ \E S \in SUBSET Node : Save(S)
           /\ Go(h, "commit") \/ Reply(h, Status(h.req.op, "not committed"))
           /\ Spend("strays")
           /\ \A m \in Node : \/ log'[m] = log[m]
                              \/ /\ currentTerm[m] = currentTerm[h.node]
                                 /\ \A i \in 1 .. Len(log'[m]) :
                                       \/ i <= Len(log[m]) /\ log'[m][i] = log[m][i]
                                       \/ /\ i <= Len(log[h.node])
                                          /\ log'[m][i] = log[h.node][i]
  <1>1. PICK S \in SUBSET (Node \ {h.node}) :
           \E next \in [S -> 0 .. Len(log[h.node])] : ReplicateDeposed(h, S, next)
    BY DEF SendsOn
  <1>2. PICK next \in [S -> 0 .. Len(log[h.node])] : ReplicateDeposed(h, S, next)
    BY <1>1
  <1> DEFINE n == h.node
             len == Smaller(h.index + 1, Len(log[n]))
             Takes == {m \in S : Precedes(n, m, next[m])}
  <1>3. /\ n \in Node /\ h.index \in Nat
        /\ \A m \in Node : log[m] \in Seq(Entry) /\ Len(log[m]) \in Nat
        /\ \A m \in Node : lastApplied[m] \in Nat
        /\ \A m \in Node : leaderId[m] \in Node \cup {NoNode}
    <2>1. h \in Handler
      BY DEF TypeOK
    <2>2. \A m \in Node : log[m] \in Seq(Entry)
      BY DEF TypeOK
    <2>3. \A m \in Node : Len(log[m]) \in Nat
      <3> HIDE DEF Entry
      <3> QED
        BY <2>2
    <2> QED
      BY <2>1, <2>2, <2>3 DEF TypeOK, Handler
  <1>4. len \in Nat /\ len <= Len(log[n])
    BY <1>3 DEF Smaller
  <1>5. /\ h.pc = "replicate" /\ state[n] # "LEADER"
        /\ \A m \in S : currentTerm[m] = currentTerm[n]
        /\ log' = [m \in Node |-> IF m \in Takes
              THEN Taken(log[m], next[m], SubSeq(log[n], next[m] + 1, len))
              ELSE log[m]]
        /\ leaderId' = [m \in Node |-> IF m \in S THEN n ELSE leaderId[m]]
        /\ lastApplied' = [m \in Node |-> IF m \in Takes
               THEN Larger(lastApplied[m],
                           Smaller(lastApplied[n], Len(log'[m]) - 1))
               ELSE lastApplied[m]]
        /\ Go(h, "commit") \/ Reply(h, Status(h.req.op, "not committed"))
        /\ Spend("strays")
        /\ UNCHANGED <<counter, state, currentTerm, cache, executed>>
        /\ Save(S)
    BY <1>2 DEF ReplicateDeposed
  <1>6. ASSUME NEW m \in Takes
        PROVE  /\ log'[m] \in Seq(Entry)
               /\ \A i \in 1 .. Len(log'[m]) :
                     \/ i <= Len(log[m]) /\ log'[m][i] = log[m][i]
                     \/ i <= Len(log[n]) /\ log'[m][i] = log[n][i]
    <2>1. /\ m \in Node /\ next[m] \in Nat /\ next[m] <= Len(log[n])
          /\ Precedes(n, m, next[m])
      BY <1>3
    <2>2. next[m] <= Len(log[m])
      BY <1>3, <2>1 DEF Precedes
    <2>3. log'[m] = Taken(log[m], next[m], SubSeq(log[n], next[m] + 1, len))
      BY <1>5, <2>1
    <2>4. PICK lg \in Seq(Entry), own \in Seq(Entry), nx \in Nat, ln \in Nat :
             /\ lg = log[m] /\ own = log[n] /\ nx = next[m] /\ ln = len
             /\ nx <= Len(lg) /\ nx <= Len(own) /\ ln <= Len(own)
      BY <1>3, <1>4, <2>1, <2>2
    <2>5. Placed(Taken(lg, nx, SubSeq(own, nx + 1, ln)), lg, own)
      BY <2>4, TakenType
    <2>6. log'[m] = Taken(lg, nx, SubSeq(own, nx + 1, ln))
      BY Zenon, <2>3, <2>4
    <2> QED
      BY Zenon, <2>4, <2>5, <2>6 DEF Placed
  <1> HIDE DEF Takes, len
  <1>7. \A m \in Node \ Takes : log'[m] = log[m]
    BY <1>5
  <1>8. Takes \subseteq S
    BY DEF Takes
  <1>9. log' \in [Node -> Seq(Entry)]
    BY <1>3, <1>5, <1>6, <1>7
  <1>10. \A m \in Node : Len(log'[m]) \in Nat
    <2> HIDE DEF Entry
    <2> QED
      BY <1>9
  <1>11. lastApplied' \in [Node -> Nat] /\ \A m \in Node : lastApplied[m] <= lastApplied'[m]
    <2>1. \A i, j \in Nat : \A l \in Nat :
             Larger(i, Smaller(j, l - 1)) \in Nat /\ i <= Larger(i, Smaller(j, l - 1))
      BY DEF Larger, Smaller
    <2>2. \A m \in Node : lastApplied'[m] \in
             {lastApplied[m], Larger(lastApplied[m],
                                     Smaller(lastApplied[n], Len(log'[m]) - 1))}
      BY Zenon, <1>5
    <2>3. \A m \in Node : lastApplied'[m] \in Nat /\ lastApplied[m] <= lastApplied'[m]
      <3> SUFFICES ASSUME NEW m \in Node
                   PROVE  lastApplied'[m] \in Nat /\ lastApplied[m] <= lastApplied'[m]
        OBVIOUS
      <3>1. lastApplied[m] \in Nat /\ lastApplied[n] \in Nat /\ Len(log'[m]) \in Nat
        BY <1>3, <1>10
      <3>2. /\ Larger(lastApplied[m], Smaller(lastApplied[n], Len(log'[m]) - 1)) \in Nat
            /\ lastApplied[m]
                  <= Larger(lastApplied[m], Smaller(lastApplied[n], Len(log'[m]) - 1))
        BY Zenon, <2>1, <3>1
      <3> QED
        BY <2>2, <3>1, <3>2
    <2>4. lastApplied' = [m \in Node |-> lastApplied'[m]]
      BY <1>5
    <2> QED
      BY <2>3, <2>4
  <1>12. leaderId' \in [Node -> Node \cup {NoNode}]
    BY <1>3, <1>5
  <1>13. \A m \in Node : \/ log'[m] = log[m]
                         \/ /\ currentTerm[m] = currentTerm[n]
                            /\ \A i \in 1 .. Len(log'[m]) :
                                  \/ i <= Len(log[m]) /\ log'[m][i] = log[m][i]
                                  \/ i <= Len(log[n]) /\ log'[m][i] = log[n][i]
    BY <1>5, <1>6, <1>7, <1>8
  <1> QED
    BY <1>3, <1>5, <1>9, <1>11, <1>12, <1>13

NodesTyped ==
    /\ state \in [Node -> {"FOLLOWER", "LEADER"}]
    /\ currentTerm \in [Node -> Nat]
    /\ leaderId \in [Node -> Node \cup {NoNode}]
    /\ log \in [Node -> Seq(Entry)]
    /\ lastApplied \in [Node -> Nat]
    /\ cache \in [Node -> [Client -> Answer]]
    /\ saved \in [Node -> SavedFile]
    /\ executed \subseteq [index : Nat, entry : Entry, node : Node, life : Nat]

LEMMA NextNodes ==
    ASSUME TypeOK, [Next]_vars
    PROVE  NodesTyped'
  <1>0. NodesTyped
    BY DEF TypeOK, NodesTyped, SavedFile
  <1>1. ASSUME UNCHANGED <<roleVars, log, lastApplied, cache, saved, executed>>
        PROVE  NodesTyped'
    BY <1>0, <1>1 DEF NodesTyped, roleVars
  <1>2. ASSUME NEW c \in Client,
               \/ \E op \in Op, n \in Node : ClientCommand(c, op, n)
               \/ OtherCommand(c) \/ Timeout(c)
        PROVE  NodesTyped'
    BY <1>1, <1>2 DEF ClientCommand, OtherCommand, Timeout
  <1>3. ASSUME NEW h \in handlers,
               Receive(h) \/ CheckCommand(h) \/ NotReplicated(h) \/ NotCommitted(h)
        PROVE  NodesTyped'
    BY <1>1, <1>3 DEF Receive, CheckCommand, NotReplicated, NotCommitted
  <1>4. ASSUME NEW h \in handlers, AppendEntry(h)
        PROVE  NodesTyped'
    <2>1. h.node \in Node /\ h.req \in Request
      BY DEF TypeOK, Handler
    <2>2. [term |-> currentTerm[h.node], req |-> h.req] \in Entry
      BY <1>0, <2>1 DEF NodesTyped, Entry
    <2>3. log' \in [Node -> Seq(Entry)]
      <3> HIDE DEF Entry
      <3> QED
        BY <1>0, <1>4, <2>1, <2>2 DEF NodesTyped, AppendEntry
    <2> QED
      BY <1>0, <1>4, <2>3 DEF NodesTyped, AppendEntry, roleVars
  <1>5. ASSUME NEW h \in handlers, NEW Q \in Quorum, Replicate(h, Q)
        PROVE  NodesTyped'
    <2> DEFINE prefix == SubSeq(log[h.node], 1, Smaller(h.index + 1, Len(log[h.node])))
    <2>1. h.node \in Node /\ h.index \in Nat
      BY DEF TypeOK, Handler
    <2>2. prefix \in Seq(Entry)
      BY <1>0, <2>1, PrefixType DEF NodesTyped
    <2>3. log' = [m \in Node |-> IF m \notin Q \/ Extends(log[m], prefix)
                                 THEN log[m] ELSE prefix]
      BY <1>5 DEF Replicate
    <2> HIDE DEF prefix
    <2>4. log' \in [Node -> Seq(Entry)]
      BY <1>0, <2>2, <2>3 DEF NodesTyped
    <2>5. leaderId' \in [Node -> Node \cup {NoNode}]
      BY <1>0, <1>5, <2>1 DEF NodesTyped, Replicate
    <2>6. /\ UNCHANGED <<state, currentTerm, lastApplied, cache, executed>>
          /\ Save(Q \ {h.node})
      BY <1>5 DEF Replicate
    <2>7. saved' \in [Node -> SavedFile]
      BY <1>0, <2>4, <2>6, SaveType DEF NodesTyped
    <2> QED
      BY <1>0, <2>4, <2>5, <2>6, <2>7 DEF NodesTyped
  <1>6. ASSUME NEW h \in handlers, StepDown(h)
        PROVE  NodesTyped'
    <2>1. h.node \in Node
      BY DEF TypeOK, Handler
    <2>2. /\ currentTerm' \in [Node -> Nat] /\ state' \in [Node -> {"FOLLOWER", "LEADER"}]
          /\ UNCHANGED <<leaderId, log, lastApplied, cache, executed>>
          /\ Save({h.node})
      BY <1>0, <1>6, <2>1 DEF NodesTyped, StepDown
    <2> QED
      BY <1>0, <2>2, SaveType DEF NodesTyped
  <1>7. ASSUME NEW h \in handlers, Commit(h)
        PROVE  NodesTyped'
    <2>1. /\ h.node \in Node /\ h.index \in Nat /\ h.req.client \in Client
          /\ h.req.id \in 0 .. MaxLines
      <3>1. h \in Handler
        BY DEF TypeOK
      <3>2. h.node \in Node /\ h.index \in Nat /\ h.req \in Request
        BY <3>1 DEF Handler
      <3> QED
        BY <3>2, BoundAssumption DEF Request
    <2>2. cache' \in [Node -> [Client -> Answer]]
      <3>1. PICK result \in Result :
               cache' = [cache EXCEPT ![h.node][h.req.client] =
                            [id |-> h.req.id, result |-> result]]
        BY <1>7, CommitCalls
      <3>2. [id |-> h.req.id, result |-> result] \in Answer
        BY <2>1 DEF Answer
      <3> HIDE DEF Answer
      <3> QED
        BY <1>0, <2>1, <3>1, <3>2 DEF NodesTyped
    <2>3. lastApplied' \in [Node -> Nat]
      BY <1>0, <1>7, <2>1 DEF NodesTyped, Commit, Larger
    <2>4. executed' \subseteq [index : Nat, entry : Entry, node : Node, life : Nat]
      <3>1. h.index < Len(log[h.node]) /\ log[h.node] \in Seq(Entry)
            /\ lastApplied[h.node] \in Nat
        BY <1>0, <1>7, <2>1 DEF Commit, OfCurrentTerm, NodesTyped
      <3>2. \A i \in lastApplied[h.node] + 1 .. h.index :
               i \in Nat /\ log[h.node][i + 1] \in Entry
        <4> SUFFICES ASSUME NEW i \in lastApplied[h.node] + 1 .. h.index
                     PROVE  i \in Nat /\ log[h.node][i + 1] \in Entry
          OBVIOUS
        <4>1. i \in Nat /\ i + 1 \in 1 .. Len(log[h.node])
          BY <2>1, <3>1
        <4> HIDE DEF Entry
        <4> QED
          BY <3>1, <4>1
      <3>3. executed' = executed \cup
               {[index |-> i, entry |-> log[h.node][i + 1], node |-> h.node,
                 life |-> used.restarts] : i \in lastApplied[h.node] + 1 .. h.index}
        BY <1>7 DEF Commit
      <3>4. used.restarts \in Nat
        BY DEF TypeOK
      <3> HIDE DEF Entry
      <3> QED
        BY <1>0, <2>1, <3>2, <3>3, <3>4 DEF NodesTyped
    <2> QED
      BY <1>0, <1>7, <2>2, <2>3, <2>4 DEF NodesTyped, Commit, roleVars
  <1>8. ASSUME NEW h \in handlers, PersistAndReply(h)
        PROVE  NodesTyped'
    <2>1. UNCHANGED <<roleVars, log, lastApplied, cache, executed>> /\ Save({h.node})
      BY <1>8 DEF PersistAndReply
    <2>2. saved' \in [Node -> SavedFile]
      BY <1>0, <2>1, SaveType DEF NodesTyped, roleVars
    <2> QED
      BY <1>0, <2>1, <2>2 DEF NodesTyped, roleVars
  <1>9. ASSUME NEW n \in Node, NEW Q \in Quorum, Elect(n, Q)
        PROVE  NodesTyped'
    <2>1. PICK m \in Node :
             currentTerm' = [k \in Node |-> IF k \in Q THEN currentTerm[m] + 1
                                            ELSE currentTerm[k]]
      BY <1>9 DEF Elect
    <2>2. /\ state' = [k \in Node |-> IF k = n THEN "LEADER"
                                       ELSE IF k \in Q THEN "FOLLOWER" ELSE state[k]]
          /\ leaderId' = [leaderId EXCEPT ![n] = n]
          /\ UNCHANGED <<log, lastApplied, cache, executed>> /\ Save(Q)
      BY <1>9 DEF Elect
    <2>3. /\ currentTerm' \in [Node -> Nat] /\ state' \in [Node -> {"FOLLOWER", "LEADER"}]
          /\ leaderId' \in [Node -> Node \cup {NoNode}]
      BY <1>0, <2>1, <2>2 DEF NodesTyped
    <2>4. saved' \in [Node -> SavedFile]
      BY <1>0, <2>2, <2>3, SaveType DEF NodesTyped
    <2> QED
      BY <1>0, <2>2, <2>3, <2>4 DEF NodesTyped
  <1>10. ASSUME NEW m \in Node, HearVote(m)
         PROVE  NodesTyped'
    <2>1. /\ currentTerm' \in [Node -> Nat] /\ state' \in [Node -> {"FOLLOWER", "LEADER"}]
          /\ UNCHANGED <<leaderId, log, lastApplied, cache, executed>>
          /\ Save({m})
      BY <1>0, <1>10 DEF NodesTyped, HearVote
    <2> QED
      BY <1>0, <2>1, SaveType DEF NodesTyped
  <1>11. ASSUME NEW m \in Node, HearLeader(m)
         PROVE  NodesTyped'
    <2>1. PICK n \in Node : /\ leaderId' = [leaderId EXCEPT ![m] = n]
                            /\ log' = [log EXCEPT ![m] = log[n]]
                            /\ lastApplied' = [lastApplied EXCEPT ![m] =
                                                  Larger(@, lastApplied[n])]
      BY <1>11 DEF HearLeader
    <2>2. UNCHANGED <<state, currentTerm, cache, executed>> /\ Save({m})
      BY <1>11 DEF HearLeader
    <2>3. /\ leaderId' \in [Node -> Node \cup {NoNode}]
          /\ lastApplied' \in [Node -> Nat]
      BY <1>0, <2>1 DEF NodesTyped, Larger
    <2>4. log' \in [Node -> Seq(Entry)]
      BY <1>0, <2>1 DEF NodesTyped
    <2> QED
      BY <1>0, <2>2, <2>3, <2>4, SaveType DEF NodesTyped
  <1>12. ASSUME Restart
         PROVE  NodesTyped'
    <2>1. \A n \in Node : /\ saved[n].term \in Nat /\ saved[n].log \in Seq(Entry)
                          /\ saved[n].cache \in [Client -> Answer]
      BY <1>0 DEF NodesTyped, SavedFile
    <2> QED
      BY <1>0, <1>12, <2>1 DEF NodesTyped, Restart
  <1>13. ASSUME UNCHANGED vars
         PROVE  NodesTyped'
    BY <1>1, <1>13 DEF vars
  <1>14. ASSUME NEW h \in handlers, SendsOn(h)
         PROVE  NodesTyped'
    <2>1. /\ UNCHANGED <<state, currentTerm, cache, executed>>
          /\ log' \in [Node -> Seq(Entry)] /\ lastApplied' \in [Node -> Nat]
          /\ leaderId' \in [Node -> Node \cup {NoNode}]
      BY <1>14, SendsOnLogs
    <2>2. PICK S \in SUBSET Node : Save(S)
      BY <1>14, SendsOnLogs
    <2>3. saved' \in [Node -> SavedFile]
      BY <1>0, <2>1, <2>2, SaveType DEF NodesTyped
    <2> QED
      BY <1>0, <2>1, <2>3 DEF NodesTyped
  <1> QED
    BY <1>2, <1>3, <1>4, <1>5, <1>6, <1>7, <1>8, <1>9, <1>10, <1>11, <1>12, <1>13, <1>14
       DEF Next, HandlerStep

LEMMA NextTypes ==
    ASSUME TypeOK, LiveNumbered, [Next]_vars
    PROVE  TypeOK' /\ LiveNumbered'
  BY NextCalls, NextNodes, UsedGrows
     DEF TypeOK, NodesTyped, SavedFile, Waiting, Answered

-----------------------------------------------------------------------------
(* Logs and their terms.                                                   *)

LEMMA EntryAt ==
    ASSUME NEW lg \in Seq(Entry), NEW i \in 1 .. Len(lg)
    PROVE  lg[i] \in Entry /\ lg[i].term \in Nat
  <1>1. lg[i] \in Entry
    <2> HIDE DEF Entry
    <2> QED
      OBVIOUS
  <1> QED
    BY <1>1 DEF Entry

LEMMA LastTermAt ==
    ASSUME NEW lg \in Seq(Entry)
    PROVE  /\ LastTerm(lg) \in Nat /\ Len(lg) \in Nat
           /\ Len(lg) > 0 => LastTerm(lg) = lg[Len(lg)].term
           /\ Len(lg) = 0 => LastTerm(lg) = 0
  <1>1. Len(lg) \in Nat /\ (lg = <<>> <=> Len(lg) = 0)
    <2> HIDE DEF Entry
    <2> QED
      OBVIOUS
  <1>2. Len(lg) > 0 => Len(lg) \in 1 .. Len(lg)
    BY <1>1
  <1>3. Len(lg) > 0 => lg[Len(lg)].term \in Nat
    BY <1>2, EntryAt
  <1> QED
    BY <1>1, <1>3 DEF LastTerm

LEMMA AppendAt ==
    ASSUME NEW lg \in Seq(Entry), NEW e \in Entry
    PROVE  /\ Append(lg, e) \in Seq(Entry)
           /\ Len(lg) \in Nat /\ Len(Append(lg, e)) = Len(lg) + 1
           /\ \A i \in 1 .. Len(lg) : Append(lg, e)[i] = lg[i]
           /\ Append(lg, e)[Len(lg) + 1] = e
           /\ LastTerm(Append(lg, e)) = e.term
  <1>1. /\ Append(lg, e) \in Seq(Entry)
        /\ Len(lg) \in Nat /\ Len(Append(lg, e)) = Len(lg) + 1
        /\ \A i \in 1 .. Len(lg) : Append(lg, e)[i] = lg[i]
        /\ Append(lg, e)[Len(lg) + 1] = e
    <2> HIDE DEF Entry
    <2> QED
      OBVIOUS
  <1>2. LastTerm(Append(lg, e)) = e.term
    <2> DEFINE a == Append(lg, e)
    <2>1. a \in Seq(Entry) /\ Len(a) > 0 /\ a[Len(a)] = e
      BY <1>1
    <2> HIDE DEF a
    <2>2. LastTerm(a) = e.term
      BY <2>1, LastTermAt
    <2> QED
      BY <2>2 DEF a
  <1> QED
    BY <1>1, <1>2

\* What a step that writes files leaves in them.
LEMMA SavedTerms ==
    ASSUME TypeOK, TypeOK', EntryTerms, NEW S, Save(S),
           \A n \in Node : \A i \in 1 .. Len(log'[n]) :
              log'[n][i].term <= currentTerm'[n]
    PROVE  EntryTerms'
  <1> SUFFICES ASSUME NEW n \in Node, NEW i \in 1 .. Len(saved'[n].log)
               PROVE  saved'[n].log[i].term <= saved'[n].term
    BY DEF EntryTerms
  <1>1. CASE n \in S
    <2>1. saved'[n].log = log'[n] /\ saved'[n].term = currentTerm'[n]
      BY <1>1 DEF Save
    <2> QED
      BY <2>1
  <1>2. CASE n \notin S
    <2>1. saved'[n] = saved[n]
      BY <1>2 DEF Save
    <2> QED
      BY <2>1 DEF EntryTerms
  <1> QED
    BY <1>1, <1>2

\* Raising terms does no harm.
LEMMA TermsRaised ==
    ASSUME TypeOK, TypeOK', EntryTerms, log' = log,
           \A n \in Node : currentTerm[n] <= currentTerm'[n]
    PROVE  \A n \in Node : \A i \in 1 .. Len(log'[n]) :
              log'[n][i].term <= currentTerm'[n]
  <1> SUFFICES ASSUME NEW n \in Node, NEW i \in 1 .. Len(log[n])
               PROVE  log[n][i].term <= currentTerm'[n]
    OBVIOUS
  <1>1. log[n] \in Seq(Entry) /\ currentTerm[n] \in Nat /\ currentTerm'[n] \in Nat
    BY DEF TypeOK
  <1>2. log[n][i].term \in Nat
    BY <1>1, EntryAt
  <1>3. log[n][i].term <= currentTerm[n] /\ currentTerm[n] <= currentTerm'[n]
    BY DEF EntryTerms
  <1> QED
    BY <1>1, <1>2, <1>3

LEMMA NextTerms ==
    ASSUME TypeOK, TypeOK', EntryTerms, [Next]_vars
    PROVE  EntryTerms'
  <1> DEFINE LogTerms == \A n \in Node : \A i \in 1 .. Len(log'[n]) :
                            log'[n][i].term <= currentTerm'[n]
  <1>0. /\ \A n \in Node : log[n] \in Seq(Entry) /\ currentTerm[n] \in Nat
        /\ currentTerm \in [Node -> Nat]
    BY DEF TypeOK
  <1>1. ASSUME UNCHANGED <<currentTerm, log, saved>>
        PROVE  EntryTerms'
    BY <1>1 DEF EntryTerms
  <1>2. ASSUME NEW h \in handlers, AppendEntry(h)
        PROVE  EntryTerms'
    <2> DEFINE e == [term |-> currentTerm[h.node], req |-> h.req]
    <2>1. h.node \in Node /\ e \in Entry /\ e.term = currentTerm[h.node]
      BY DEF TypeOK, Handler, Entry
    <2>2. log' = [log EXCEPT ![h.node] = Append(@, e)]
          /\ UNCHANGED <<currentTerm, saved>>
      BY <1>2 DEF AppendEntry, roleVars
    <2> HIDE DEF e
    <2>3. LogTerms
      <3> SUFFICES ASSUME NEW n \in Node, NEW i \in 1 .. Len(log'[n])
                   PROVE  log'[n][i].term <= currentTerm[n]
        BY <2>2
      <3>1. CASE n # h.node
        BY <2>2, <3>1 DEF TypeOK, EntryTerms
      <3>2. CASE n = h.node
        <4>1. log'[n] = Append(log[n], e)
          BY <2>1, <2>2, <3>2 DEF TypeOK
        <4>2. /\ Len(log[n]) \in Nat /\ Len(log'[n]) = Len(log[n]) + 1
              /\ \A j \in 1 .. Len(log[n]) : log'[n][j] = log[n][j]
              /\ log'[n][Len(log[n]) + 1] = e
          BY <1>0, <2>1, <4>1, AppendAt
        <4>3. CASE i = Len(log[n]) + 1
          BY <1>0, <2>1, <3>2, <4>2, <4>3
        <4>4. CASE i # Len(log[n]) + 1
          <5>1. i \in 1 .. Len(log[n])
            BY <4>2, <4>4
          <5> QED
            BY <4>2, <5>1 DEF EntryTerms
        <4> QED
          BY <4>3, <4>4
      <3> QED
        BY <3>1, <3>2
    <2> QED
      BY <2>2, <2>3 DEF EntryTerms
  <1>3. ASSUME NEW h \in handlers, NEW Q \in Quorum, Replicate(h, Q)
        PROVE  EntryTerms'
    <2> DEFINE prefix == SubSeq(log[h.node], 1, Smaller(h.index + 1, Len(log[h.node])))
    <2>1. h.node \in Node /\ h.index \in Nat /\ Len(log[h.node]) \in Nat
      <3>1. h.node \in Node /\ h.index \in Nat
        BY DEF TypeOK, Handler
      <3> QED
        BY <1>0, <3>1, LastTermAt
    <2>2. /\ Len(prefix) = Smaller(h.index + 1, Len(log[h.node]))
          /\ \A j \in 1 .. Len(prefix) : prefix[j] = log[h.node][j]
      BY <1>0, <2>1, PrefixType
    <2>3. Len(prefix) <= Len(log[h.node]) /\ Len(prefix) \in Nat
      BY <2>1, <2>2 DEF Smaller
    <2>4. /\ log' = [m \in Node |-> IF m \notin Q \/ Extends(log[m], prefix)
                                    THEN log[m] ELSE prefix]
          /\ currentTerm' = currentTerm
          /\ \A m \in Q : currentTerm[m] = currentTerm[h.node]
          /\ Save(Q \ {h.node})
      BY <1>3 DEF Replicate
    <2> HIDE DEF prefix
    <2>5. LogTerms
      <3> SUFFICES ASSUME NEW n \in Node, NEW i \in 1 .. Len(log'[n])
                   PROVE  log'[n][i].term <= currentTerm[n]
        BY <2>4
      <3>1. CASE log'[n] = log[n]
        BY <3>1 DEF EntryTerms
      <3>2. CASE n \in Q /\ log'[n] = prefix
        <4>1. log'[n][i] = log[h.node][i] /\ i \in 1 .. Len(log[h.node])
          BY <2>1, <2>2, <2>3, <3>2
        <4> QED
          BY <2>1, <2>4, <3>2, <4>1 DEF EntryTerms
      <3> QED
        BY <2>4, <3>1, <3>2
    <2> QED
      BY <2>4, <2>5, SavedTerms
  <1>4. ASSUME log' = log, \A n \in Node : currentTerm[n] <= currentTerm'[n],
               NEW S, Save(S)
        PROVE  EntryTerms'
    BY <1>4, TermsRaised, SavedTerms
  <1>5. ASSUME NEW h \in handlers, StepDown(h)
        PROVE  EntryTerms'
    <2>1. h.node \in Node
      BY DEF TypeOK, Handler
    <2>2. log' = log /\ Save({h.node})
      BY <1>5 DEF StepDown
    <2>3. \A n \in Node : currentTerm[n] <= currentTerm'[n]
      <3>1. PICK m \in Node :
               /\ currentTerm[m] > currentTerm[h.node]
               /\ currentTerm' = [currentTerm EXCEPT ![h.node] = currentTerm[m]]
        BY <1>5 DEF StepDown
      <3> QED
        BY <1>0, <2>1, <3>1
    <2> QED
      BY <1>4, <2>2, <2>3
  <1>6. ASSUME NEW m \in Node, HearVote(m)
        PROVE  EntryTerms'
    <2>1. log' = log /\ Save({m})
      BY <1>6 DEF HearVote
    <2>2. \A n \in Node : currentTerm[n] <= currentTerm'[n]
      <3>1. PICK n \in Node :
               /\ currentTerm[n] > currentTerm[m]
               /\ currentTerm' = [currentTerm EXCEPT ![m] = currentTerm[n]]
        BY <1>6 DEF HearVote
      <3> QED
        BY <1>0, <3>1
    <2> QED
      BY <1>4, <2>1, <2>2
  <1>7. ASSUME NEW n \in Node, NEW Q \in Quorum, Elect(n, Q)
        PROVE  EntryTerms'
    <2>1. log' = log /\ Save(Q)
      BY <1>7 DEF Elect
    <2>2. \A k \in Node : currentTerm[k] <= currentTerm'[k]
      <3>1. PICK m \in Node :
               /\ \A k \in Node : currentTerm[m] >= currentTerm[k]
               /\ currentTerm' = [k \in Node |-> IF k \in Q THEN currentTerm[m] + 1
                                              ELSE currentTerm[k]]
        BY <1>7 DEF Elect
      <3> QED
        BY <1>0, <3>1
    <2> QED
      BY <1>4, <2>1, <2>2
  <1>8. ASSUME NEW h \in handlers, PersistAndReply(h)
        PROVE  EntryTerms'
    <2>1. UNCHANGED <<log, currentTerm>> /\ Save({h.node})
      BY <1>8 DEF PersistAndReply, roleVars
    <2>2. \A n \in Node : currentTerm[n] <= currentTerm'[n]
      BY <1>0, <2>1
    <2> QED
      BY <1>4, <2>1, <2>2
  <1>9. ASSUME NEW m \in Node, HearLeader(m)
        PROVE  EntryTerms'
    <2>1. PICK n \in Node : /\ currentTerm[n] = currentTerm[m]
                            /\ log' = [log EXCEPT ![m] = log[n]]
      BY <1>9 DEF HearLeader
    <2>2. currentTerm' = currentTerm /\ Save({m})
      BY <1>9 DEF HearLeader
    <2>3. LogTerms
      BY <1>0, <2>1, <2>2 DEF EntryTerms, TypeOK
    <2> QED
      BY <2>2, <2>3, SavedTerms
  <1>10. ASSUME Restart
         PROVE  EntryTerms'
    BY <1>10 DEF Restart, EntryTerms
  <1>12. ASSUME NEW h \in handlers, SendsOn(h)
         PROVE  EntryTerms'
    <2>1. PICK S \in SUBSET Node : Save(S)
      BY <1>12, SendsOnLogs
    <2>2. /\ h.node \in Node /\ currentTerm' = currentTerm
          /\ \A m \in Node : log'[m] \in Seq(Entry)
          /\ \A m \in Node :
                \/ log'[m] = log[m]
                \/ /\ currentTerm[m] = currentTerm[h.node]
                   /\ \A i \in 1 .. Len(log'[m]) :
                         \/ i <= Len(log[m]) /\ log'[m][i] = log[m][i]
                         \/ i <= Len(log[h.node]) /\ log'[m][i] = log[h.node][i]
      BY <1>12, SendsOnLogs
    <2>3. LogTerms
      <3> SUFFICES ASSUME NEW m \in Node, NEW i \in 1 .. Len(log'[m])
                   PROVE  log'[m][i].term <= currentTerm[m]
        BY <2>2
      <3>1. i \in Nat /\ i >= 1 /\ Len(log[m]) \in Nat /\ Len(log[h.node]) \in Nat
        BY <1>0, <2>2, LastTermAt
      <3>2. CASE log'[m] = log[m]
        BY <3>2 DEF EntryTerms
      <3>3. CASE i <= Len(log[m]) /\ log'[m][i] = log[m][i]
        BY <3>1, <3>3 DEF EntryTerms
      <3>4. CASE /\ currentTerm[m] = currentTerm[h.node]
                 /\ i <= Len(log[h.node]) /\ log'[m][i] = log[h.node][i]
        BY <2>2, <3>1, <3>4 DEF EntryTerms
      <3> QED
        BY <2>2, <3>2, <3>3, <3>4
    <2> QED
      BY <2>1, <2>3, SavedTerms
  <1>11. \/ UNCHANGED <<currentTerm, log, saved>>
         \/ Restart
         \/ \E h \in handlers : \/ AppendEntry(h) \/ StepDown(h) \/ PersistAndReply(h)
                                \/ \E Q \in Quorum : Replicate(h, Q)
                                \/ SendsOn(h)
         \/ \E n \in Node : \/ HearVote(n) \/ HearLeader(n)
                            \/ \E Q \in Quorum : Elect(n, Q)
    BY DEF Next, vars, roleVars, HandlerStep, ClientCommand, OtherCommand, Timeout,
           Receive, CheckCommand, NotReplicated, Commit, NotCommitted
  <1> QED
    BY <1>1, <1>2, <1>3, <1>5, <1>6, <1>7, <1>8, <1>9, <1>10, <1>11, <1>12

-----------------------------------------------------------------------------
(* Leaders and the entries of their handlers.                              *)

Core == Roles /\ PendingAtNewest /\ PendingAtOld

LEMMA HandlerAt ==
    ASSUME TypeOK, NEW h \in handlers
    PROVE  /\ h \in Handler /\ h.node \in Node /\ h.index \in Nat
           /\ h.req \in Request
  BY DEF TypeOK, Handler

\* The newest leader is one node.
LEMMA OneNewest ==
    ASSUME TypeOK, Roles, NEW n \in Node, NEW m \in Node, Newest(n), Newest(m)
    PROVE  n = m
  <1>1. currentTerm[n] \in Nat /\ currentTerm[m] \in Nat
    BY DEF TypeOK
  <1>2. currentTerm[n] = currentTerm[m]
    BY <1>1 DEF Newest
  <1> QED
    BY <1>2 DEF Newest, Roles

\* The handlers of the next state that may be new: of neither kind that the
\* invariant speaks of, and only where some handler works or a node leads.
NoNewPending ==
    \A g \in handlers' :
        \/ g \in handlers
        \/ /\ g.pc \notin {"replicate", "commit"} /\ g.node \in Node
           /\ Working(g) => \/ state[g.node] = "LEADER"
                            \/ \E h \in handlers : Working(h) /\ h.node = g.node

LEMMA RolesStay ==
    ASSUME TypeOK, Roles, UNCHANGED <<state, currentTerm>>,
           used'.elections = used.elections,
           \A g \in handlers' : Working(g) =>
              \/ state[g.node] = "LEADER" /\ g.node \in Node
              \/ \E h \in handlers : Working(h) /\ h.node = g.node
    PROVE  Roles' /\ \A n \in Node : Newest(n)' <=> Newest(n)
  <1>1. \A n \in Node : Newest(n)' <=> Newest(n)
    BY DEF Newest
  <1>2. \A n, m \in Node : Replaced(n, m)' <=> Replaced(n, m)
    BY DEF Replaced
  <1>3. \A n \in Node : Old(n)' => Old(n)
    BY <1>1 DEF Old, Working
  <1>4. \A n, m \in Node : state'[n] = "LEADER" /\ state'[m] = "LEADER"
           /\ currentTerm'[n] = currentTerm'[m] => n = m
    BY DEF Roles
  <1>5. \A n \in Node : state'[n] = "LEADER" =>
           Newest(n)' \/ \E m \in Node : Newest(m)' /\ Replaced(n, m)'
    BY <1>1, <1>2 DEF Roles
  <1>6. \A h \in handlers' : Working(h) => \E m \in Node : Newest(m)'
    <2> SUFFICES ASSUME NEW g \in handlers', Working(g)
                 PROVE  \E m \in Node : Newest(m)
      BY <1>1
    <2> QED
      BY DEF Roles
  <1>7. (\A n \in Node : Old(n) => used.elections = 1)'
    BY <1>3 DEF Roles
  <1>8. \A n, m \in Node : Old(n)' /\ Old(m)' => n = m
    BY <1>3 DEF Roles
  <1> QED
    BY <1>1, <1>4, <1>5, <1>6, <1>7, <1>8 DEF Roles, Working

\* A step that touches neither roles nor logs.
LEMMA QuietCore ==
    ASSUME TypeOK, Core, UNCHANGED <<state, currentTerm, log>>,
           used'.elections = used.elections, NoNewPending
    PROVE  Core'
  <1>1. Roles' /\ \A n \in Node : Newest(n)' <=> Newest(n)
    <2>1. \A g \in handlers' : Working(g) =>
             \/ state[g.node] = "LEADER" /\ g.node \in Node
             \/ \E h \in handlers : Working(h) /\ h.node = g.node
      BY DEF NoNewPending
    <2> QED
      BY <2>1, RolesStay DEF Core
  <1>2. \A h \in handlers : h.node \in Node
    BY HandlerAt
  <1>3. PendingAtNewest'
    <2> SUFFICES ASSUME NEW g \in handlers', Newest(g.node)'
                 PROVE  /\ g.pc \in {"replicate", "commit"} => Own(g)'
                        /\ g.pc = "commit" =>
                             \E Q \in Quorum : \A k \in Q : HasPrefix(k, g.node, g.index)'
      BY DEF PendingAtNewest
    <2>1. CASE g \in handlers
      <3>1. Newest(g.node)
        BY <1>1, <1>2, <2>1
      <3>2. /\ g.pc \in {"replicate", "commit"} => Own(g)
            /\ g.pc = "commit" =>
                 \E Q \in Quorum : \A k \in Q : HasPrefix(k, g.node, g.index)
        BY <2>1, <3>1 DEF Core, PendingAtNewest
      <3> QED
        BY <3>2 DEF Own, HasPrefix
    <2>2. CASE g \notin handlers
      BY <2>2 DEF NoNewPending
    <2> QED
      BY <2>1, <2>2
  <1>4. PendingAtOld'
    <2> SUFFICES ASSUME NEW g \in handlers', g.pc = "commit", ~Newest(g.node)',
                        NEW m \in Node, Newest(m)'
                 PROVE  Outlived(g, m)'
      BY DEF PendingAtOld
    <2>1. g \in handlers
      BY DEF NoNewPending
    <2>2. ~Newest(g.node) /\ Newest(m)
      BY <1>1, <1>2, <2>1
    <2>3. Outlived(g, m)
      BY <2>1, <2>2 DEF Core, PendingAtOld
    <2> QED
      BY <2>3 DEF Outlived
  <1> QED
    BY <1>1, <1>3, <1>4 DEF Core

\* A request's entry is appended.
LEMMA AppendCore ==
    ASSUME TypeOK, Core, NEW h \in handlers, AppendEntry(h)
    PROVE  Core'
  <1> DEFINE n == h.node
             e == [term |-> currentTerm[n], req |-> h.req]
             g == [h EXCEPT !.pc = "replicate", !.index = Len(log[n])]
  <1>1. /\ h \in Handler /\ n \in Node /\ e \in Entry
        /\ e.term = currentTerm[n] /\ e.req = h.req
    BY HandlerAt DEF TypeOK, Entry
  <1>2. /\ log' = [log EXCEPT ![n] = Append(log[n], e)]
        /\ UNCHANGED <<state, currentTerm, used>>
        /\ handlers' = (handlers \ {h}) \cup {g} /\ h.pc = "append"
    BY DEF AppendEntry, roleVars
  <1>3. /\ g.node = n /\ g.pc = "replicate" /\ g.index = Len(log[n])
        /\ g.req = h.req
    BY <1>1 DEF Handler
  <1>4. /\ Len(log[n]) \in Nat /\ Len(log'[n]) = Len(log[n]) + 1
        /\ \A i \in 1 .. Len(log[n]) : log'[n][i] = log[n][i]
        /\ log'[n][Len(log[n]) + 1] = e
        /\ LastTerm(log'[n]) = currentTerm[n]
    <2>1. log'[n] = Append(log[n], e) /\ log[n] \in Seq(Entry)
      BY <1>1, <1>2 DEF TypeOK
    <2> QED
      BY <1>1, <2>1, AppendAt
  <1>5. \A k \in Node : k # n => log'[k] = log[k]
    BY <1>2 DEF TypeOK
  <1>6. \A k \in Node : /\ Len(log[k]) \in Nat /\ Len(log[k]) <= Len(log'[k])
                        /\ \A i \in 1 .. Len(log[k]) : log'[k][i] = log[k][i]
    <2> SUFFICES ASSUME NEW k \in Node
                 PROVE  /\ Len(log[k]) \in Nat /\ Len(log[k]) <= Len(log'[k])
                        /\ \A i \in 1 .. Len(log[k]) : log'[k][i] = log[k][i]
      OBVIOUS
    <2>1. Len(log[k]) \in Nat
      BY LastTermAt DEF TypeOK
    <2> QED
      BY <2>1, <1>4, <1>5
  <1>7. \A f \in handlers : f.node \in Node /\ f.index \in Nat
    BY HandlerAt
  <1>8. \A k \in Node : currentTerm[k] \in Nat
    BY DEF TypeOK
  <1> HIDE DEF e, g, n
  <1>9. Roles' /\ \A k \in Node : Newest(k)' <=> Newest(k)
    <2>1. \A f \in handlers' : Working(f) =>
             \/ state[f.node] = "LEADER" /\ f.node \in Node
             \/ \E d \in handlers : Working(d) /\ d.node = f.node
      BY <1>2, <1>3 DEF Working, n
    <2> QED
      BY <1>2, <2>1, RolesStay DEF Core
  <1>10. PendingAtNewest'
    <2> SUFFICES ASSUME NEW f \in handlers', Newest(f.node)'
                 PROVE  /\ f.pc \in {"replicate", "commit"} => Own(f)'
                        /\ f.pc = "commit" =>
                             \E Q \in Quorum : \A k \in Q : HasPrefix(k, f.node, f.index)'
      BY DEF PendingAtNewest
    <2>1. CASE f = g
      <3>1. Own(f)'
        BY <1>1, <1>2, <1>3, <1>4, <2>1 DEF Own, e
      <3> QED
        BY <1>3, <2>1, <3>1
    <2>2. CASE f \in handlers
      <3>1. Newest(f.node)
        BY <1>7, <1>9, <2>2
      <3>2. ASSUME Own(f)
            PROVE  Own(f)'
        <4>1. f.index + 1 \in 1 .. Len(log[f.node])
          BY <1>6, <1>7, <2>2, <3>2 DEF Own
        <4>2. f.index < Len(log'[f.node])
          BY <1>6, <1>7, <2>2, <3>2 DEF Own
        <4>3. log'[f.node][f.index + 1] = log[f.node][f.index + 1]
          BY <1>6, <1>7, <2>2, <4>1
        <4>4. LastTerm(log'[f.node]) = currentTerm[f.node]
          BY <1>4, <1>5, <1>7, <2>2, <3>2 DEF Own
        <4> QED
          BY <1>2, <3>2, <4>2, <4>3, <4>4 DEF Own
      <3>3. ASSUME f.pc = "commit"
            PROVE  \E Q \in Quorum : \A k \in Q : HasPrefix(k, f.node, f.index)'
        <4>1. Own(f)
          BY <2>2, <3>1, <3>3 DEF Core, PendingAtNewest
        <4>2. PICK Q \in Quorum : \A k \in Q : HasPrefix(k, f.node, f.index)
          BY <2>2, <3>1, <3>3 DEF Core, PendingAtNewest
        <4>3. ASSUME NEW k \in Q
              PROVE  HasPrefix(k, f.node, f.index)'
          <5>1. k \in Node /\ f.node \in Node /\ f.index \in Nat
            BY <1>7, <2>2 DEF Quorum
          <5>2. HasPrefix(k, f.node, f.index)
            BY <4>2
          <5>3. f.index < Len(log'[k])
            BY <1>6, <5>1, <5>2, <1>4, <1>5 DEF HasPrefix
          <5>4. LastTerm(log'[k]) = currentTerm[f.node]
            BY <1>4, <1>5, <5>1, <5>2 DEF HasPrefix
          <5>5. \A j \in 1 .. f.index + 1 : j \in 1 .. Len(log[k]) /\ j \in 1 .. Len(log[f.node])
            BY <1>6, <5>1, <5>2, <4>1 DEF HasPrefix, Own
          <5>6. \A j \in 1 .. f.index + 1 : log'[k][j] = log'[f.node][j]
            BY <1>6, <5>1, <5>2, <5>5 DEF HasPrefix
          <5> QED
            BY <1>2, <5>2, <5>3, <5>4, <5>6 DEF HasPrefix
        <4> QED
          BY <4>3
      <3> QED
        BY <2>2, <3>1, <3>2, <3>3 DEF Core, PendingAtNewest
    <2> QED
      BY <1>2, <2>1, <2>2
  <1>11. PendingAtOld'
    <2> SUFFICES ASSUME NEW f \in handlers', f.pc = "commit", ~Newest(f.node)',
                        NEW m \in Node, Newest(m)'
                 PROVE  Outlived(f, m)'
      BY DEF PendingAtOld
    <2>1. f \in handlers /\ f.node \in Node /\ f.index \in Nat
      BY <1>2, <1>3, <1>7
    <2>2. ~Newest(f.node) /\ Newest(m)
      BY <1>9, <2>1
    <2>3. Outlived(f, m)
      BY <2>1, <2>2 DEF Core, PendingAtOld
    <2>4. f.index < Len(log'[m]) /\ f.index < Len(log'[f.node])
      BY <1>4, <1>5, <1>6, <2>1, <2>3 DEF Outlived
    <2>5. log'[f.node][f.index + 1] = log[f.node][f.index + 1]
      <3>1. f.index + 1 \in 1 .. Len(log[f.node])
        BY <1>6, <2>1, <2>3 DEF Outlived
      <3> QED
        BY <1>6, <2>1, <3>1
    <2>6. ASSUME currentTerm[n] = currentTerm[m]
          PROVE  f.index < Len(log[n])
      <3>1. CASE Newest(n)
        <4>1. n = m
          BY <1>1, <2>2, <3>1, OneNewest DEF Core
        <4> QED
          BY <2>3, <4>1 DEF Outlived
      <3>2. CASE ~Newest(n)
        <4>1. Old(n) /\ Old(f.node)
          BY <1>2, <2>1, <2>2, <3>2 DEF Old, Working, n
        <4>2. n = f.node
          BY <1>1, <2>1, <4>1 DEF Core, Roles
        <4> QED
          BY <2>3, <4>2 DEF Outlived
      <3> QED
        BY <3>1, <3>2
    <2>7. \A k \in Node : \A i \in 1 .. Len(log'[k]) :
             log'[k][i].term = currentTerm[m] => i > f.index + 1
      <3> SUFFICES ASSUME NEW k \in Node, NEW i \in 1 .. Len(log'[k]),
                          log'[k][i].term = currentTerm[m]
                   PROVE  i > f.index + 1
        OBVIOUS
      <3>1. CASE i \in 1 .. Len(log[k])
        BY <1>6, <2>3, <3>1 DEF Outlived
      <3>2. CASE i \notin 1 .. Len(log[k])
        <4>1. k = n /\ i = Len(log[n]) + 1
          BY <1>4, <1>5, <1>6, <3>2
        <4>2. currentTerm[n] = currentTerm[m]
          BY <1>1, <1>4, <4>1
        <4> QED
          BY <1>4, <2>1, <2>6, <4>1, <4>2
      <3> QED
        BY <3>1, <3>2
    <2> QED
      BY <1>2, <2>3, <2>4, <2>5, <2>7 DEF Outlived
  <1> QED
    BY <1>9, <1>10, <1>11 DEF Core

\* What replication does to the logs when the entry is in the leader's.
LEMMA ReplicateLogs ==
    ASSUME TypeOK, NEW h \in handlers, NEW Q \in Quorum, Replicate(h, Q),
           h.index < Len(log[h.node])
    PROVE  /\ log'[h.node] = log[h.node]
           /\ \A k \in Node :
                 \/ log'[k] = log[k]
                 \/ /\ k \in Q /\ Len(log'[k]) = h.index + 1
                    /\ \A j \in 1 .. h.index + 1 : log'[k][j] = log[h.node][j]
           /\ \A k \in Q : /\ h.index < Len(log'[k])
                           /\ \A j \in 1 .. h.index + 1 : log'[k][j] = log[h.node][j]
           /\ \A k \in Node : /\ h.index < Len(log[k])
                              /\ \A j \in 1 .. h.index + 1 : log[k][j] = log[h.node][j]
                              => log'[k] = log[k]
  <1> DEFINE n == h.node
             p == SubSeq(log[n], 1, Smaller(h.index + 1, Len(log[n])))
  <1>1. n \in Node /\ h.index \in Nat /\ log[n] \in Seq(Entry)
    BY HandlerAt DEF TypeOK
  <1>2. Len(log[n]) \in Nat /\ Smaller(h.index + 1, Len(log[n])) = h.index + 1
    BY <1>1, LastTermAt DEF Smaller
  <1>3. /\ p \in Seq(Entry) /\ Len(p) = h.index + 1
        /\ \A j \in 1 .. h.index + 1 : p[j] = log[n][j]
    BY <1>1, <1>2, PrefixType
  <1>4. /\ log' = [m \in Node |-> IF m \notin Q \/ Extends(log[m], p)
                                  THEN log[m] ELSE p]
        /\ Q \subseteq Node
    BY DEF Replicate, Quorum
  <1> HIDE DEF p
  <1>5. ASSUME NEW k \in Node
        PROVE  Extends(log[k], p) <=>
                  /\ h.index < Len(log[k])
                  /\ \A j \in 1 .. h.index + 1 : log[k][j] = log[n][j]
    <2>1. log[k] \in Seq(Entry) /\ Len(log[k]) \in Nat
      BY LastTermAt DEF TypeOK
    <2>2. CASE ~(h.index < Len(log[k]))
      BY <1>1, <1>3, <2>1, <2>2 DEF Extends
    <2>3. CASE h.index < Len(log[k])
      <3> DEFINE q == SubSeq(log[k], 1, h.index + 1)
      <3>1. h.index + 1 <= Len(log[k]) /\ h.index + 1 \in Nat
        BY <1>1, <2>1, <2>3
      <3>2. /\ q \in Seq(Entry) /\ Len(q) = h.index + 1
            /\ \A j \in 1 .. h.index + 1 : q[j] = log[k][j]
        <4>1. /\ Smaller(h.index + 1, Len(log[k])) = h.index + 1
          BY <1>1, <2>1, <3>1 DEF Smaller
        <4> QED
          BY <1>1, <2>1, <4>1, PrefixType
      <3>3. Extends(log[k], p) <=> q = p
        BY <1>3, <2>1, <3>1 DEF Extends
      <3> HIDE DEF q
      <3>4. q = p <=> \A j \in 1 .. h.index + 1 : q[j] = p[j]
        <4> HIDE DEF Entry
        <4> QED
          BY <1>3, <3>1, <3>2, SeqEqual
      <3> QED
        BY <1>3, <2>3, <3>2, <3>3, <3>4
    <2> QED
      BY <2>2, <2>3
  <1>6. Extends(log[n], p)
    BY <1>1, <1>5
  <1>7. log'[n] = log[n]
    BY <1>1, <1>4, <1>6
  <1>8. ASSUME NEW k \in Node
        PROVE  \/ log'[k] = log[k]
               \/ /\ k \in Q /\ Len(log'[k]) = h.index + 1
                  /\ \A j \in 1 .. h.index + 1 : log'[k][j] = log[n][j]
    BY <1>3, <1>4
  <1>9. ASSUME NEW k \in Q
        PROVE  /\ h.index < Len(log'[k])
               /\ \A j \in 1 .. h.index + 1 : log'[k][j] = log[n][j]
    <2>1. CASE Extends(log[k], p)
      BY <1>4, <1>5, <2>1
    <2>2. CASE ~Extends(log[k], p)
      BY <1>1, <1>3, <1>4, <2>2
    <2> QED
      BY <2>1, <2>2
  <1>10. ASSUME NEW k \in Node, h.index < Len(log[k]),
                \A j \in 1 .. h.index + 1 : log[k][j] = log[n][j]
         PROVE  log'[k] = log[k]
    BY <1>4, <1>5, <1>10
  <1> QED
    BY <1>7, <1>8, <1>9, <1>10

\* Only the newest leader gets a majority in its term.
LEMMA OnlyNewestReplicates ==
    ASSUME TypeOK, Roles, NEW h \in handlers, NEW Q \in Quorum, Replicate(h, Q)
    PROVE  Newest(h.node)
  <1>1. /\ h.node \in Node /\ state[h.node] = "LEADER"
        /\ \A k \in Q : currentTerm[k] = currentTerm[h.node]
        /\ \A k \in Node : currentTerm[k] \in Nat
    BY HandlerAt DEF Replicate, TypeOK
  <1> SUFFICES ASSUME ~Newest(h.node) PROVE FALSE
    OBVIOUS
  <1>2. PICK m \in Node : Replaced(h.node, m)
    BY <1>1 DEF Roles
  <1>3. PICK P \in Quorum : \A k \in P : currentTerm[k] = currentTerm[m]
    BY <1>2 DEF Replaced
  <1>4. PICK k \in Node : k \in P /\ k \in Q
    BY QuorumsMeet
  <1>5. currentTerm[m] = currentTerm[h.node] /\ currentTerm[m] = currentTerm[h.node] + 1
    BY <1>1, <1>2, <1>3, <1>4 DEF Replaced
  <1> QED
    BY <1>1, <1>5

LEMMA ReplicateCore ==
    ASSUME TypeOK, TypeOK', EntryTerms, LogsEndNewest, Core,
           NEW h \in handlers, NEW Q \in Quorum, Replicate(h, Q)
    PROVE  Core'
  <1> DEFINE n == h.node
             g == [h EXCEPT !.pc = "commit"]
  <1>1. /\ h \in Handler /\ n \in Node /\ h.index \in Nat
        /\ h.pc = "replicate" /\ Newest(n) /\ state[n] = "LEADER"
        /\ \A k \in Q : currentTerm[k] = currentTerm[n]
        /\ Q \subseteq Node
    BY HandlerAt, OnlyNewestReplicates DEF Core, Replicate, Quorum
  <1>2. Own(h)
    BY <1>1 DEF Core, PendingAtNewest
  <1>3. /\ h.index < Len(log[n]) /\ log[n][h.index + 1].term = currentTerm[n]
        /\ log[n][h.index + 1].req = h.req /\ LastTerm(log[n]) = currentTerm[n]
    BY <1>2 DEF Own
  <1>4. /\ log'[n] = log[n]
        /\ \A k \in Node :
              \/ log'[k] = log[k]
              \/ /\ k \in Q /\ Len(log'[k]) = h.index + 1
                 /\ \A j \in 1 .. h.index + 1 : log'[k][j] = log[n][j]
        /\ \A k \in Q : /\ h.index < Len(log'[k])
                        /\ \A j \in 1 .. h.index + 1 : log'[k][j] = log[n][j]
        /\ \A k \in Node : /\ h.index < Len(log[k])
                           /\ \A j \in 1 .. h.index + 1 : log[k][j] = log[n][j]
                           => log'[k] = log[k]
    BY <1>3, ReplicateLogs
  <1>5. /\ UNCHANGED <<state, currentTerm, used>>
        /\ handlers' = (handlers \ {h}) \cup {g}
    BY DEF Replicate, Go
  <1>6. g.node = n /\ g.pc = "commit" /\ g.index = h.index /\ g.req = h.req
    BY <1>1 DEF Handler
  <1>7. \A f \in handlers : f.node \in Node /\ f.index \in Nat
    BY HandlerAt
  <1>8. \A k \in Node : /\ log[k] \in Seq(Entry) /\ log'[k] \in Seq(Entry)
                        /\ Len(log[k]) \in Nat /\ Len(log'[k]) \in Nat
                        /\ currentTerm[k] \in Nat
                        /\ LastTerm(log[k]) \in Nat
    BY LastTermAt DEF TypeOK
  <1> HIDE DEF g, n
  <1>9. Roles' /\ \A k \in Node : Newest(k)' <=> Newest(k)
    <2>1. \A f \in handlers' : Working(f) =>
             \/ state[f.node] = "LEADER" /\ f.node \in Node
             \/ \E d \in handlers : Working(d) /\ d.node = f.node
      BY <1>1, <1>5, <1>6
    <2> QED
      BY <1>5, <2>1, RolesStay DEF Core
  <1>10. ASSUME NEW k \in Node, Len(log'[k]) = h.index + 1,
                \A j \in 1 .. h.index + 1 : log'[k][j] = log[n][j]
         PROVE  LastTerm(log'[k]) = currentTerm[n]
    <2>1. h.index + 1 \in 1 .. h.index + 1 /\ Len(log'[k]) > 0
      BY <1>1, <1>10
    <2>2. log'[k][h.index + 1].term = currentTerm[n]
      BY <1>3, <1>10, <2>1
    <2>3. LastTerm(log'[k]) = log'[k][Len(log'[k])].term
      BY <1>8, <2>1, LastTermAt
    <2> QED
      BY <1>10, <2>2, <2>3
  <1>11. \A k \in Q : HasPrefix(k, n, h.index)'
    <2> SUFFICES ASSUME NEW k \in Q PROVE HasPrefix(k, n, h.index)'
      OBVIOUS
    <2>1. k \in Node /\ currentTerm[k] = currentTerm[n] /\ h.index < Len(log'[k])
          /\ \A j \in 1 .. h.index + 1 : log'[k][j] = log[n][j]
      BY <1>1, <1>4
    <2>2. LastTerm(log'[k]) = currentTerm[n]
      <3>1. CASE Len(log'[k]) = h.index + 1
        BY <1>10, <2>1, <3>1
      <3>2. CASE log'[k] = log[k]
        <4>1. h.index + 1 \in 1 .. Len(log[k]) /\ h.index + 1 \in 1 .. h.index + 1
              /\ Len(log[k]) \in 1 .. Len(log[k]) /\ Len(log[k]) > 0
          BY <1>1, <1>8, <2>1, <3>2
        <4>2. log[k][h.index + 1].term = currentTerm[n]
          BY <1>3, <2>1, <3>2, <4>1
        <4>3. currentTerm[n] <= LastTerm(log[k])
          BY <2>1, <4>1, <4>2 DEF LogsEndNewest, EndsNewest
        <4>4. LastTerm(log[k]) = log[k][Len(log[k])].term
          BY <1>8, <2>1, <4>1, LastTermAt
        <4>5. LastTerm(log[k]) <= currentTerm[n]
          BY <2>1, <4>1, <4>4 DEF EntryTerms
        <4> QED
          BY <1>1, <1>8, <2>1, <3>2, <4>3, <4>5
      <3> QED
        BY <1>4, <2>1, <3>1, <3>2
    <2> QED
      BY <1>4, <1>5, <2>1, <2>2 DEF HasPrefix
  <1>12. PendingAtNewest'
    <2> SUFFICES ASSUME NEW f \in handlers', Newest(f.node)'
                 PROVE  /\ f.pc \in {"replicate", "commit"} => Own(f)'
                        /\ f.pc = "commit" =>
                             \E P \in Quorum : \A k \in P : HasPrefix(k, f.node, f.index)'
      BY DEF PendingAtNewest
    <2>1. f.node = n
      <3>1. f.node \in Node /\ Newest(f.node)
        BY <1>1, <1>5, <1>6, <1>7, <1>9
      <3> QED
        BY <1>1, <3>1, OneNewest DEF Core
    <2>2. CASE f = g
      <3>1. Own(f)'
        BY <1>2, <1>4, <1>5, <1>6, <2>1, <2>2 DEF Own, n
      <3> QED
        BY <1>6, <1>11, <2>2, <3>1
    <2>3. CASE f \in handlers
      <3>1. Own(f) => Own(f)'
        BY <1>4, <1>5, <2>1 DEF Own
      <3>2. ASSUME f.pc = "commit"
            PROVE  \E P \in Quorum : \A k \in P : HasPrefix(k, n, f.index)'
        <4>1. PICK P \in Quorum : \A k \in P : HasPrefix(k, n, f.index)
          BY <1>1, <2>1, <2>3, <3>2 DEF Core, PendingAtNewest
        <4>2. ASSUME NEW k \in P
              PROVE  HasPrefix(k, n, f.index)'
          <5>1. k \in Node /\ HasPrefix(k, n, f.index) /\ f.index \in Nat
            BY <1>7, <2>3, <4>1 DEF Quorum
          <5>2. CASE log'[k] = log[k]
            BY <1>4, <1>5, <5>1, <5>2 DEF HasPrefix
          <5>3. CASE log'[k] # log[k]
            <6>1. Len(log'[k]) = h.index + 1
                  /\ \A j \in 1 .. h.index + 1 : log'[k][j] = log[n][j]
              BY <1>4, <5>1, <5>3
            <6>2. ~(h.index <= f.index)
              <7> SUFFICES ASSUME h.index <= f.index PROVE FALSE
                OBVIOUS
              <7>1. h.index < Len(log[k])
                BY <1>1, <1>8, <5>1 DEF HasPrefix
              <7>2. \A j \in 1 .. h.index + 1 : j \in 1 .. f.index + 1
                BY <1>1, <5>1
              <7>3. \A j \in 1 .. h.index + 1 : log[k][j] = log[n][j]
                BY <5>1, <7>2 DEF HasPrefix
              <7> QED
                BY <1>4, <5>1, <5>3, <7>1, <7>3
            <6>3. \A j \in 1 .. f.index + 1 : j \in 1 .. h.index + 1
              BY <1>1, <5>1, <6>2
            <6>4. LastTerm(log'[k]) = currentTerm[n]
              BY <1>10, <5>1, <6>1
            <6>5. f.index < Len(log'[k])
              BY <1>1, <5>1, <6>1, <6>2
            <6>6. \A j \in 1 .. f.index + 1 : log'[k][j] = log'[n][j]
              BY <1>4, <6>1, <6>3
            <6> QED
              BY <1>5, <5>1, <6>4, <6>5, <6>6 DEF HasPrefix
          <5> QED
            BY <5>2, <5>3
        <4> QED
          BY <4>2
      <3> QED
        BY <1>1, <2>1, <2>3, <3>1, <3>2 DEF Core, PendingAtNewest
    <2> QED
      BY <1>5, <2>2, <2>3
  <1>13. PendingAtOld'
    <2> SUFFICES ASSUME NEW f \in handlers', f.pc = "commit", ~Newest(f.node)',
                        NEW m \in Node, Newest(m)'
                 PROVE  Outlived(f, m)'
      BY DEF PendingAtOld
    <2>1. m = n
      BY <1>1, <1>9, OneNewest DEF Core
    <2>2. f \in handlers /\ f.node \in Node /\ f.index \in Nat /\ ~Newest(f.node)
      BY <1>1, <1>5, <1>6, <1>7, <1>9
    <2>3. Outlived(f, n)
      BY <1>1, <2>2 DEF Core, PendingAtOld
    <2>4. h.index > f.index
      <3>1. h.index + 1 \in 1 .. Len(log[n])
        BY <1>1, <1>3, <1>8
      <3>2. h.index + 1 > f.index + 1
        BY <1>1, <1>3, <2>3, <3>1 DEF Outlived
      <3> QED
        BY <1>1, <2>2, <3>2
    <2>5. f.index < Len(log'[n]) /\ f.index < Len(log'[f.node])
      BY <1>1, <1>4, <2>2, <2>3, <2>4 DEF Outlived
    <2>6. \A k \in Node : \A i \in 1 .. Len(log'[k]) :
             log'[k][i].term = currentTerm[n] => i > f.index + 1
      <3> SUFFICES ASSUME NEW k \in Node, NEW i \in 1 .. Len(log'[k]),
                          log'[k][i].term = currentTerm[n]
                   PROVE  i > f.index + 1
        OBVIOUS
      <3>1. CASE log'[k] = log[k]
        BY <2>3, <3>1 DEF Outlived
      <3>2. CASE log'[k] # log[k]
        <4>1. Len(log'[k]) = h.index + 1 /\ log'[k][i] = log[n][i]
          BY <1>4, <3>2
        <4>2. i \in 1 .. Len(log[n])
          BY <1>1, <1>3, <1>8, <4>1
        <4> QED
          BY <1>1, <2>3, <4>1, <4>2 DEF Outlived
      <3> QED
        BY <3>1, <3>2
    <2>7. state[f.node] = "LEADER" => log'[f.node] = log[f.node]
      <3> SUFFICES ASSUME state[f.node] = "LEADER", log'[f.node] # log[f.node]
                   PROVE  FALSE
        OBVIOUS
      <3>1. f.node \in Q /\ currentTerm[f.node] = currentTerm[n]
        BY <1>1, <1>4, <2>2
      <3>2. f.node = n
        BY <1>1, <2>2, <3>1 DEF Core, Roles
      <3> QED
        BY <1>1, <2>2, <3>2
    <2> QED
      BY <1>5, <2>1, <2>3, <2>5, <2>6, <2>7 DEF Outlived
  <1> QED
    BY <1>9, <1>12, <1>13 DEF Core

\* A node that is behind takes over a newer term.
LEMMA DemoteCore ==
    ASSUME TypeOK, Core, NEW n \in Node, NEW k \in Node,
           currentTerm[k] > currentTerm[n],
           currentTerm' = [currentTerm EXCEPT ![n] = currentTerm[k]],
           state' = [state EXCEPT ![n] = "FOLLOWER"],
           log' = log, used'.elections = used.elections,
           \A g \in handlers' : g \in handlers \/ g.pc = "received"
    PROVE  Core'
  <1>1. /\ currentTerm \in [Node -> Nat] /\ state \in [Node -> {"FOLLOWER", "LEADER"}]
        /\ \A f \in handlers : f.node \in Node
    BY HandlerAt DEF TypeOK
  <1>2. \A x \in Node : x # n => state'[x] = state[x] /\ currentTerm'[x] = currentTerm[x]
    BY <1>1
  <1>3. state'[n] = "FOLLOWER" /\ currentTerm'[n] = currentTerm[k]
    BY <1>1
  <1>4. ~Newest(n)
    BY <1>1 DEF Newest
  <1>5. \A x \in Node : Newest(x)' <=> Newest(x)
    <2> SUFFICES ASSUME NEW x \in Node PROVE Newest(x)' <=> Newest(x)
      OBVIOUS
    <2>1. CASE x = n
      BY <1>3, <1>4, <2>1 DEF Newest
    <2>2. CASE x # n
      <3>1. ASSUME Newest(x) PROVE Newest(x)'
        BY <1>1, <1>2, <1>3, <2>2, <3>1 DEF Newest
      <3>2. ASSUME Newest(x)' PROVE Newest(x)
        <4>1. state[x] = "LEADER" /\ currentTerm[x] >= currentTerm[k]
          BY <1>1, <1>2, <1>3, <2>2, <3>2 DEF Newest
        <4>2. \A m \in Node : m # n => currentTerm[x] >= currentTerm[m]
          BY <1>2, <2>2, <3>2 DEF Newest
        <4> QED
          BY <1>1, <4>1, <4>2 DEF Newest
      <3> QED
        BY <3>1, <3>2
    <2> QED
      BY <2>1, <2>2
  <1>6. \A x \in Node : Old(x)' => Old(x)
    BY <1>2, <1>3, <1>5 DEF Old, Working
  <1>7. \A m \in Node : Newest(m) => /\ m # n /\ currentTerm[m] > currentTerm[n]
                                     /\ currentTerm[m] >= currentTerm[k]
    BY <1>1, <1>4 DEF Newest
  <1>8. ASSUME NEW x \in Node, state[x] = "LEADER", ~Newest(x)
        PROVE  \E m \in Node : Newest(m) /\ Replaced(x, m)
    BY <1>8 DEF Core, Roles
  <1>9. Roles'
    <2>1. \A x, y \in Node : state'[x] = "LEADER" /\ state'[y] = "LEADER"
             /\ currentTerm'[x] = currentTerm'[y] => x = y
      BY <1>2, <1>3 DEF Core, Roles
    <2>2. ASSUME NEW x \in Node, state'[x] = "LEADER", ~Newest(x)'
          PROVE  \E m \in Node : Newest(m)' /\ Replaced(x, m)'
      <3>1. x # n /\ state[x] = "LEADER" /\ ~Newest(x)
        BY <1>2, <1>3, <1>5, <2>2
      <3>2. PICK m \in Node : Newest(m) /\ Replaced(x, m)
        BY <1>8, <3>1
      <3>3. PICK Q \in Quorum : \A y \in Q : currentTerm[y] = currentTerm[m]
        BY <3>2 DEF Replaced
      <3>4. \A y \in Q : currentTerm'[y] = currentTerm'[m]
        <4>1. n \notin Q
          BY <1>1, <1>7, <3>2, <3>3
        <4> QED
          BY <1>2, <1>7, <3>2, <3>3, <4>1 DEF Quorum
      <3>5. currentTerm'[m] = currentTerm'[x] + 1
        BY <1>2, <1>7, <3>1, <3>2 DEF Replaced
      <3>6. Replaced(x, m)'
        BY <3>4, <3>5 DEF Replaced
      <3> QED
        BY <1>5, <3>2, <3>6
    <2>3. \A g \in handlers' : Working(g) => \E m \in Node : Newest(m)'
      <3> SUFFICES ASSUME NEW g \in handlers', Working(g) PROVE \E m \in Node : Newest(m)
        BY <1>5
      <3> QED
        BY DEF Core, Roles, Working
    <2>4. (\A x \in Node : Old(x) => used.elections = 1)'
      BY <1>6 DEF Core, Roles
    <2>5. \A x, y \in Node : Old(x)' /\ Old(y)' => x = y
      BY <1>6 DEF Core, Roles
    <2> QED
      BY <2>1, <2>2, <2>3, <2>4, <2>5 DEF Roles, Working
  <1>10. PendingAtNewest'
    <2> SUFFICES ASSUME NEW f \in handlers', Newest(f.node)', f.pc # "received"
                 PROVE  /\ f.pc \in {"replicate", "commit"} => Own(f)'
                        /\ f.pc = "commit" =>
                             \E Q \in Quorum : \A x \in Q : HasPrefix(x, f.node, f.index)'
      BY DEF PendingAtNewest
    <2>1. f \in handlers /\ f.node \in Node
      BY <1>1
    <2>2. /\ Newest(f.node) /\ f.node # n
          /\ currentTerm'[f.node] = currentTerm[f.node]
      BY <1>2, <1>5, <1>7, <2>1
    <2>3. Own(f) => Own(f)'
      BY <2>2 DEF Own
    <2>4. ASSUME f.pc = "commit"
          PROVE  \E Q \in Quorum : \A x \in Q : HasPrefix(x, f.node, f.index)'
      <3>1. PICK Q \in Quorum : \A x \in Q : HasPrefix(x, f.node, f.index)
        BY <2>1, <2>2, <2>4 DEF Core, PendingAtNewest
      <3>2. ASSUME NEW x \in Q PROVE HasPrefix(x, f.node, f.index)'
        <4>1. x \in Node /\ HasPrefix(x, f.node, f.index)
          BY <3>1 DEF Quorum
        <4>2. x # n
          BY <1>1, <1>7, <2>1, <2>2, <4>1 DEF HasPrefix
        <4> QED
          BY <1>2, <2>2, <4>1, <4>2 DEF HasPrefix
      <3> QED
        BY <3>2
    <2> QED
      BY <2>1, <2>2, <2>3, <2>4 DEF Core, PendingAtNewest
  <1>11. PendingAtOld'
    <2> SUFFICES ASSUME NEW f \in handlers', f.pc = "commit", ~Newest(f.node)',
                        NEW m \in Node, Newest(m)'
                 PROVE  Outlived(f, m)'
      BY DEF PendingAtOld
    <2>1. f \in handlers /\ f.node \in Node
      BY <1>1
    <2>2. ~Newest(f.node) /\ Newest(m) /\ m # n /\ currentTerm'[m] = currentTerm[m]
      BY <1>2, <1>5, <1>7, <2>1
    <2>3. Outlived(f, m)
      BY <2>1, <2>2 DEF Core, PendingAtOld
    <2>4. state'[f.node] = "LEADER" => state[f.node] = "LEADER"
      BY <1>2, <1>3, <2>1
    <2>5. state'[f.node] # "LEADER" => currentTerm'[f.node] = currentTerm[m]
      <3>1. CASE f.node # n
        BY <1>2, <2>1, <2>3, <3>1 DEF Outlived
      <3>2. CASE f.node = n /\ state[n] # "LEADER"
        BY <1>1, <1>7, <2>2, <2>3, <3>2 DEF Outlived
      <3>3. CASE f.node = n /\ state[n] = "LEADER"
        <4>1. PICK x \in Node : Newest(x) /\ Replaced(n, x)
          BY <1>4, <1>8, <3>3
        <4>2. x = m
          BY <2>2, <4>1, OneNewest DEF Core
        <4>3. /\ currentTerm[m] = currentTerm[n] + 1
              /\ currentTerm[m] >= currentTerm[k]
          BY <1>7, <2>2, <4>1, <4>2 DEF Replaced
        <4>4. currentTerm[k] \in Nat /\ currentTerm[n] \in Nat
          BY <1>1
        <4>5. currentTerm[k] = currentTerm[m]
          BY <4>3, <4>4
        <4> QED
          BY <1>3, <3>3, <4>5
      <3> QED
        BY <3>1, <3>2, <3>3
    <2> QED
      BY <2>2, <2>3, <2>4, <2>5 DEF Outlived
  <1> QED
    BY <1>9, <1>10, <1>11 DEF Core

\* A follower takes over the log of its leader.
LEMMA HearLeaderCore ==
    ASSUME TypeOK, Core, NEW m \in Node, HearLeader(m)
    PROVE  Core'
  <1>1. PICK n \in Node \ {m} :
           /\ state[n] = "LEADER" /\ currentTerm[n] = currentTerm[m]
           /\ log' = [log EXCEPT ![m] = log[n]]
    BY DEF HearLeader
  <1>2. UNCHANGED <<state, currentTerm, handlers, used>>
    BY DEF HearLeader
  <1>3. log'[m] = log[n] /\ \A k \in Node : k # m => log'[k] = log[k]
    BY <1>1 DEF TypeOK
  <1>4. Roles' /\ \A k \in Node : Newest(k)' <=> Newest(k)
    <2>1. used'.elections = used.elections
          /\ \A g \in handlers' : Working(g) =>
                \E h \in handlers : Working(h) /\ h.node = g.node
      BY <1>2
    <2> QED
      BY <1>2, <2>1, RolesStay DEF Core
  <1>5. \A x \in Node : /\ state[x] = "LEADER" /\ currentTerm[x] = currentTerm[m]
                        => x = n
    BY <1>1 DEF Core, Roles
  <1>6. \A f \in handlers : f.node \in Node
    BY HandlerAt
  <1>7. PendingAtNewest'
    <2> SUFFICES ASSUME NEW f \in handlers, Newest(f.node)
                 PROVE  /\ f.pc \in {"replicate", "commit"} => Own(f)'
                        /\ f.pc = "commit" =>
                             \E Q \in Quorum : \A k \in Q : HasPrefix(k, f.node, f.index)'
      BY <1>2, <1>4, <1>6 DEF PendingAtNewest
    <2>1. f.node # m /\ f.node \in Node /\ state[f.node] = "LEADER"
      BY <1>1, <1>5, <1>6 DEF Newest
    <2>2. Own(f) => Own(f)'
      BY <1>2, <1>3, <2>1 DEF Own
    <2>3. ASSUME f.pc = "commit"
          PROVE  \E Q \in Quorum : \A k \in Q : HasPrefix(k, f.node, f.index)'
      <3>1. PICK Q \in Quorum : \A k \in Q : HasPrefix(k, f.node, f.index)
        BY <2>3 DEF Core, PendingAtNewest
      <3>2. ASSUME NEW k \in Q PROVE HasPrefix(k, f.node, f.index)'
        <4>1. k \in Node /\ HasPrefix(k, f.node, f.index)
          BY <3>1 DEF Quorum
        <4>2. CASE k # m
          BY <1>2, <1>3, <2>1, <4>1, <4>2 DEF HasPrefix
        <4>3. CASE k = m
          <5>1. f.node = n
            BY <1>5, <2>1, <4>1, <4>3 DEF HasPrefix
          <5>2. Own(f)
            BY <2>3 DEF Core, PendingAtNewest
          <5>3. log'[k] = log[f.node] /\ log'[f.node] = log[f.node]
            BY <1>3, <2>1, <4>3, <5>1
          <5> QED
            BY <1>2, <4>1, <5>2, <5>3 DEF HasPrefix, Own
        <4> QED
          BY <4>2, <4>3
      <3> QED
        BY <3>2
    <2> QED
      BY <2>2, <2>3 DEF Core, PendingAtNewest
  <1>8. PendingAtOld'
    <2> SUFFICES ASSUME NEW f \in handlers, f.pc = "commit", ~Newest(f.node),
                        NEW x \in Node, Newest(x)
                 PROVE  Outlived(f, x)'
      BY <1>2, <1>4, <1>6 DEF PendingAtOld
    <2>1. Outlived(f, x) /\ f.node \in Node
      BY <1>6 DEF Core, PendingAtOld
    <2>2. x # m /\ state[x] = "LEADER"
      BY <1>1, <1>5 DEF Newest
    <2>3. \A k \in Node : \A i \in 1 .. Len(log'[k]) :
             log'[k][i].term = currentTerm[x] => i > f.index + 1
      BY <1>1, <1>3, <2>1 DEF Outlived
    <2>4. CASE f.node # m
      BY <1>2, <1>3, <2>1, <2>2, <2>3, <2>4 DEF Outlived
    <2>5. CASE f.node = m
      <3>1. state[m] # "LEADER"
        BY <1>1, <1>5
      <3>2. currentTerm[m] = currentTerm[x]
        BY <2>1, <2>5, <3>1 DEF Outlived
      <3>3. x = n
        BY <1>5, <2>2, <3>2
      <3> QED
        BY <1>2, <1>3, <2>1, <2>2, <2>3, <2>5, <3>1, <3>2, <3>3 DEF Outlived
    <2> QED
      BY <2>4, <2>5
  <1> QED
    BY <1>4, <1>7, <1>8 DEF Core

LEMMA RestartCore ==
    ASSUME Restart
    PROVE  Core'
  <1>1. handlers' = {} /\ \A n \in Node : state'[n] # "LEADER"
    BY DEF Restart
  <1>2. \A n \in Node : ~Old(n)'
    BY <1>1 DEF Old
  <1>3. Roles'
    BY <1>1, <1>2 DEF Roles
  <1> QED
    BY <1>1, <1>3 DEF Core, PendingAtNewest, PendingAtOld

\* What an election does to terms and roles: n is the newest leader, a majority
\* is in its term, and other leaders and terms stay outside that majority.
Elected(n, Q) ==
    /\ Newest(n)'
    /\ \A k \in Node : k # n /\ state'[k] = "LEADER" =>
          /\ state[k] = "LEADER" /\ k \notin Q
          /\ currentTerm'[k] = currentTerm[k]
          /\ currentTerm'[k] < currentTerm'[n]
    /\ \A k \in Node : currentTerm[k] < currentTerm'[n]
    /\ \A k \in Q : currentTerm'[k] = currentTerm'[n]
    /\ \A m \in Node : Newest(m) => currentTerm'[n] = currentTerm[m] + 1
    /\ \A k \in Node : k \notin Q => state'[k] = state[k]
    /\ log' = log /\ handlers' = handlers

LEMMA ElectMoves ==
    ASSUME TypeOK, NEW n \in Node, NEW Q \in Quorum, Elect(n, Q)
    PROVE  Elected(n, Q)
  <1>1. /\ currentTerm \in [Node -> Nat] /\ n \in Q /\ Q \subseteq Node
        /\ \A k \in Node : currentTerm[k] \in Nat
    BY DEF TypeOK, Elect, Quorum
  <1>2. PICK m \in Node :
           /\ \A k \in Node : currentTerm[m] >= currentTerm[k]
           /\ currentTerm' = [k \in Node |-> IF k \in Q THEN currentTerm[m] + 1
                                             ELSE currentTerm[k]]
    BY DEF Elect
  <1>3. /\ state' = [k \in Node |-> IF k = n THEN "LEADER"
                                    ELSE IF k \in Q THEN "FOLLOWER" ELSE state[k]]
        /\ log' = log /\ handlers' = handlers
    BY DEF Elect
  <1>4. /\ state'[n] = "LEADER"
        /\ \A k \in Node : k \notin Q => state'[k] = state[k]
        /\ \A k \in Node : k # n /\ state'[k] = "LEADER" =>
              state[k] = "LEADER" /\ k \notin Q
    BY <1>1, <1>3
  <1>5. currentTerm'[n] = currentTerm[m] + 1
    BY <1>1, <1>2
  <1>6. /\ \A k \in Node : currentTerm[k] < currentTerm'[n]
        /\ \A k \in Q : currentTerm'[k] = currentTerm'[n]
        /\ \A k \in Node : k \notin Q => currentTerm'[k] = currentTerm[k]
    BY <1>1, <1>2, <1>5
  <1>7. \A k \in Node : currentTerm'[n] >= currentTerm'[k]
    BY <1>1, <1>2, <1>5
  <1>8. \A l \in Node : Newest(l) => currentTerm'[n] = currentTerm[l] + 1
    <2> SUFFICES ASSUME NEW l \in Node, Newest(l)
                 PROVE  currentTerm[l] = currentTerm[m]
      BY <1>5
    <2> QED
      BY <1>1, <1>2 DEF Newest
  <1> QED
    BY <1>3, <1>4, <1>6, <1>7, <1>8 DEF Elected, Newest

\* The first election, and the one after a restart: nobody serves a request.
LEMMA FirstElectCore ==
    ASSUME TypeOK, Core, NEW n \in Node, NEW Q \in Quorum, Elect(n, Q), NoLeader
    PROVE  Core'
  <1>1. Elected(n, Q)
    BY ElectMoves
  <1>2. \A h \in handlers' : h.pc = "received"
    BY <1>1 DEF Elected, Core, Roles, Newest, NoLeader, Working
  <1>3. \A k \in Node : state'[k] = "LEADER" => k = n
    BY <1>1 DEF Elected, NoLeader
  <1>4. \A k \in Node : ~Old(k)'
    BY <1>1, <1>2, <1>3 DEF Old, Elected, Working
  <1>5. Roles'
    BY <1>1, <1>2, <1>3, <1>4 DEF Roles, Elected, Working
  <1> QED
    BY <1>2, <1>5 DEF Core, PendingAtNewest, PendingAtOld

\* The election that replaces a leader.
LEMMA SecondElectCore ==
    ASSUME TypeOK, EntryTerms, Core, NEW n \in Node, NEW Q \in Quorum, Elect(n, Q),
           ~NoLeader, OneElection'
    PROVE  Core'
  <1>1. Elected(n, Q)
    BY ElectMoves
  <1>2. used.elections = 0 /\ used'.elections = 1
    <2>1. Spend("elections") /\ used.elections \in Nat
      BY DEF Elect, TypeOK
    <2> QED
      BY <2>1, SpendType DEF OneElection
  <1>3. \A k \in Node : ~Old(k)
    BY <1>2 DEF Core, Roles
  <1>4. PICK l \in Node : state[l] = "LEADER" /\ Newest(l)
    BY <1>3 DEF NoLeader, Old
  <1>5. \A k \in Node : state[k] = "LEADER" => k = l
    <2>1. \A k \in Node : state[k] = "LEADER" => Newest(k)
      BY <1>3 DEF Old
    <2> QED
      BY <1>4, <2>1, OneNewest DEF Core
  <1>6. \A h \in handlers : h.node \in Node /\ h.index \in Nat
    BY HandlerAt
  <1>7. \A h \in handlers : Working(h) => h.node = l
    BY <1>3, <1>5, <1>6 DEF Old, Newest
  <1>8. l # n /\ n \in Q /\ Q \subseteq Node
    BY <1>4 DEF Elect, Quorum
  <1>9. \A k \in Node : currentTerm[k] \in Nat
    BY DEF TypeOK
  <1>10. currentTerm'[n] = currentTerm[l] + 1
    BY <1>1, <1>4 DEF Elected
  <1>11. ~Newest(l)'
    <2> SUFFICES ASSUME Newest(l)' PROVE FALSE
      OBVIOUS
    <2>1. currentTerm'[l] >= currentTerm'[n] /\ state'[l] = "LEADER"
      BY DEF Newest
    <2>2. currentTerm'[l] = currentTerm[l]
      BY <1>1, <1>8, <2>1 DEF Elected
    <2> QED
      BY <1>9, <1>10, <2>1, <2>2
  <1>12. \A k \in Node : Newest(k)' => k = n
    BY <1>1, <1>5, <1>11 DEF Elected, Newest
  <1>13. \A k \in Node : Old(k)' => k = l
    BY <1>1, <1>5, <1>7 DEF Elected, Old, Working
  <1>14. Roles'
    <2>1. \A x, y \in Node : state'[x] = "LEADER" /\ state'[y] = "LEADER"
             /\ currentTerm'[x] = currentTerm'[y] => x = y
      BY <1>1, <1>5, <1>9, <1>10 DEF Elected
    <2>2. ASSUME NEW k \in Node, state'[k] = "LEADER", ~Newest(k)'
          PROVE  \E m \in Node : Newest(m)' /\ Replaced(k, m)'
      <3>1. k # n /\ k = l /\ currentTerm'[k] = currentTerm[l]
        BY <1>1, <1>5, <2>2 DEF Elected
      <3>2. Replaced(k, n)'
        BY <1>1, <1>10, <3>1 DEF Replaced, Elected
      <3> QED
        BY <1>1, <3>2 DEF Elected
    <2>3. \E m \in Node : Newest(m)'
      BY <1>1 DEF Elected
    <2> QED
      BY <1>2, <1>13, <2>1, <2>2, <2>3 DEF Roles, Working
  <1>15. PendingAtNewest'
    <2> SUFFICES ASSUME NEW h \in handlers, Newest(h.node)'
                 PROVE  h.pc \notin {"replicate", "commit"}
      BY <1>1 DEF Elected, PendingAtNewest
    <2> QED
      BY <1>6, <1>7, <1>8, <1>12 DEF Working
  <1>16. PendingAtOld'
    <2> SUFFICES ASSUME NEW h \in handlers, h.pc = "commit"
                 PROVE  Outlived(h, n)'
      BY <1>1, <1>12 DEF Elected, PendingAtOld
    <2>1. h.node = l /\ h.index \in Nat
      BY <1>6, <1>7 DEF Working
    <2>2. Own(h)
      BY <1>4, <2>1 DEF Core, PendingAtNewest
    <2>3. PICK P \in Quorum : \A k \in P : HasPrefix(k, l, h.index)
      BY <1>4, <2>1 DEF Core, PendingAtNewest
    <2>4. PICK k \in Node : k \in P /\ k \in Q
      BY QuorumsMeet
    <2>5. h.index < Len(log[k]) /\ LastTerm(log[k]) = currentTerm[l]
      BY <2>3, <2>4 DEF HasPrefix
    <2>6. UpToDate(log[n], log[k])
      BY <2>4 DEF Elect
    <2>7. /\ LastTerm(log[n]) \in Nat /\ Len(log[n]) \in Nat /\ Len(log[k]) \in Nat
          /\ Len(log[n]) > 0 => LastTerm(log[n]) = log[n][Len(log[n])].term
          /\ Len(log[n]) = 0 => LastTerm(log[n]) = 0
      BY LastTermAt DEF TypeOK
    <2>8. LastTerm(log[n]) <= currentTerm[l]
      <3>1. CASE Len(log[n]) = 0
        BY <1>9, <2>7, <3>1
      <3>2. CASE Len(log[n]) > 0
        <4>1. Len(log[n]) \in 1 .. Len(log[n])
          BY <2>7, <3>2
        <4>2. log[n][Len(log[n])].term <= currentTerm[n]
          BY <4>1 DEF EntryTerms
        <4>3. currentTerm[l] >= currentTerm[n]
          BY <1>4 DEF Newest
        <4> QED
          BY <1>9, <2>7, <3>2, <4>2, <4>3
      <3> QED
        BY <2>7, <3>1, <3>2
    <2>9. h.index < Len(log[n])
      BY <1>9, <2>1, <2>5, <2>6, <2>7, <2>8 DEF UpToDate
    <2>10. \A x \in Node : \A i \in 1 .. Len(log[x]) : log[x][i].term # currentTerm'[n]
      <3> SUFFICES ASSUME NEW x \in Node, NEW i \in 1 .. Len(log[x])
                   PROVE  log[x][i].term # currentTerm'[n]
        OBVIOUS
      <3>1. log[x][i].term <= currentTerm[x] /\ currentTerm[x] < currentTerm'[n]
        BY <1>1 DEF EntryTerms, Elected
      <3>2. log[x][i].term \in Nat
        BY EntryAt DEF TypeOK
      <3>3. currentTerm'[n] \in Nat
        BY <1>9, <1>10
      <3> QED
        BY <1>9, <3>1, <3>2, <3>3
    <2>11. /\ h.index < Len(log[l]) /\ log[l][h.index + 1].req = h.req
      BY <2>1, <2>2 DEF Own
    <2>12. state'[l] # "LEADER" => currentTerm'[l] = currentTerm'[n]
      BY <1>1, <1>4, <1>8 DEF Elected
    <2> QED
      BY <1>1, <2>1, <2>9, <2>10, <2>11, <2>12 DEF Outlived, Elected
  <1> QED
    BY <1>14, <1>15, <1>16 DEF Core

\* Steps whose calls are sent again, end, or move on by one handler that was at
\* work or whose node leads.
LEMMA MovesQuiet ==
    ASSUME TypeOK, CallsMove
    PROVE  NoNewPending
  <1>1. \A g \in handlers' : g.node \in Node
    BY DEF CallsMove, Handler
  <1> QED
    BY <1>1 DEF CallsMove, NoNewPending, Working

LEMMA AdvanceQuiet ==
    ASSUME TypeOK, NEW h \in handlers, NEW g, Advance(h, g),
           g.pc \notin {"replicate", "commit"},
           state[h.node] = "LEADER" \/ Working(h)
    PROVE  NoNewPending
  <1>1. h.node \in Node /\ g.node = h.node
    BY HandlerAt DEF Advance
  <1> QED
    BY <1>1 DEF Advance, NoNewPending

\* A handler's step that touches neither roles nor logs.
LEMMA QuietHandler ==
    ASSUME TypeOK, NEW h \in handlers,
           \/ Receive(h) \/ CheckCommand(h) \/ NotReplicated(h) \/ Commit(h)
           \/ NotCommitted(h) \/ PersistAndReply(h)
    PROVE  NoNewPending
  <1>1. h \in Handler
    BY DEF TypeOK
  <1>2. ASSUME NEW p \in {"command", "append"}, Advance(h, [h EXCEPT !.pc = p]),
               state[h.node] = "LEADER" \/ Working(h)
        PROVE  NoNewPending
    <2>1. [h EXCEPT !.pc = p].pc = p
      BY <1>1 DEF Handler
    <2> QED
      BY <1>2, <2>1, AdvanceQuiet
  <1>3. CASE Receive(h)
    BY <1>2, <1>3, ReceiveCalls, MovesQuiet
  <1>4. CASE CheckCommand(h)
    <2>1. Working(h)
      BY <1>4 DEF CheckCommand, Working
    <2> QED
      BY <1>2, <1>4, <2>1, CheckCalls, MovesQuiet
  <1>5. CASE Commit(h)
    <2>1. Working(h)
      BY <1>5 DEF Commit, Working
    <2>2. PICK result \in Result :
             Advance(h, [h EXCEPT !.pc = "persist", !.result = result])
      BY <1>5, CommitCalls
    <2>3. [h EXCEPT !.pc = "persist", !.result = result].pc = "persist"
      BY <1>1 DEF Handler
    <2> QED
      BY <2>1, <2>2, <2>3, AdvanceQuiet
  <1>6. CASE NotReplicated(h) \/ NotCommitted(h) \/ PersistAndReply(h)
    BY <1>6, StatusType, ReplyMoves, MovesQuiet
       DEF NotReplicated, NotCommitted, PersistAndReply
  <1> QED
    BY <1>3, <1>4, <1>5, <1>6

LEMMA NextCore ==
    ASSUME TypeOK, TypeOK', LiveNumbered, EntryTerms, LogsEndNewest, Core,
           OneElection', Tested, [Next]_vars
    PROVE  Core'
  <1>1. ASSUME NEW h \in handlers,
               \/ Receive(h) \/ CheckCommand(h) \/ NotReplicated(h) \/ Commit(h)
               \/ NotCommitted(h) \/ PersistAndReply(h)
        PROVE  Core'
    <2>1. UNCHANGED <<state, currentTerm, log>>
      BY <1>1 DEF Receive, CheckCommand, NotReplicated, Commit, NotCommitted,
                  PersistAndReply, roleVars
    <2>2. used'.elections = used.elections
      <3>1. used' = used \/ Spend("faults")
        BY <1>1 DEF Receive, CheckCommand, NotReplicated, Commit, NotCommitted,
                    PersistAndReply
      <3>2. used.elections \in Nat
        BY DEF TypeOK
      <3> QED
        BY <3>1, <3>2, SpendType
    <2> QED
      BY <1>1, <2>1, <2>2, QuietHandler, QuietCore
  <1>2. ASSUME NEW c \in Client,
               \/ \E op \in Op, n \in Node : ClientCommand(c, op, n)
               \/ OtherCommand(c) \/ Timeout(c)
        PROVE  Core'
    <2>1. UNCHANGED <<state, currentTerm, log>>
      BY <1>2 DEF ClientCommand, OtherCommand, Timeout, roleVars
    <2>2. used'.elections = used.elections
      <3>1. Spend("requests") \/ Spend("faults")
        BY <1>2 DEF ClientCommand, OtherCommand, Timeout
      <3>2. used.elections \in Nat
        BY DEF TypeOK
      <3> QED
        BY <3>1, <3>2, SpendType
    <2>3. NoNewPending
      <3>1. CASE Timeout(c)
        BY <3>1, TimeoutMoves, MovesQuiet
      <3>2. CASE OtherCommand(c)
        BY <3>2 DEF OtherCommand, NoNewPending
      <3>3. ASSUME NEW op \in Op, NEW n \in Node, ClientCommand(c, op, n)
            PROVE  NoNewPending
        <4>1. \A g \in handlers' : g.node \in Node /\ (g \in handlers \/ g.pc = "received")
          BY <3>3, NewRequest DEF Handler
        <4> QED
          BY <4>1 DEF NoNewPending, Working
      <3> QED
        BY <1>2, <3>1, <3>2, <3>3
    <2> QED
      BY <2>1, <2>2, <2>3, QuietCore
  <1>3. ASSUME NEW h \in handlers, StepDown(h)
        PROVE  Core'
    <2>1. PICK k \in Node :
             /\ currentTerm[k] > currentTerm[h.node]
             /\ currentTerm' = [currentTerm EXCEPT ![h.node] = currentTerm[k]]
      BY <1>3 DEF StepDown
    <2>2. /\ h.node \in Node
          /\ state' = [state EXCEPT ![h.node] = "FOLLOWER"]
          /\ log' = log /\ used' = used
      BY <1>3, HandlerAt DEF StepDown
    <2>3. \A g \in handlers' : g \in handlers \/ g.pc = "received"
      BY ZenonT(40), <1>3, StatusType, ReplyMoves DEF StepDown, CallsMove
    <2> QED
      BY <2>1, <2>2, <2>3, DemoteCore
  <1>4. ASSUME NEW m \in Node, HearVote(m)
        PROVE  Core'
    <2>1. PICK k \in Node :
             /\ currentTerm[k] > currentTerm[m]
             /\ currentTerm' = [currentTerm EXCEPT ![m] = currentTerm[k]]
      BY <1>4 DEF HearVote
    <2>2. /\ state' = [state EXCEPT ![m] = "FOLLOWER"]
          /\ log' = log /\ used' = used /\ handlers' = handlers
      BY <1>4 DEF HearVote
    <2> QED
      BY <2>1, <2>2, DemoteCore
  <1>5. ASSUME NEW n \in Node, NEW Q \in Quorum, Elect(n, Q)
        PROVE  Core'
    BY <1>5, FirstElectCore, SecondElectCore
  <1>6. ASSUME UNCHANGED vars
        PROVE  Core'
    <2>1. UNCHANGED <<state, currentTerm, log, used, handlers>>
      BY <1>6 DEF vars, roleVars
    <2> QED
      BY <2>1, QuietCore DEF NoNewPending
  <1>7. ASSUME NEW h \in handlers, HandlerStep(h)
        PROVE  Core'
    BY <1>1, <1>3, <1>7, AppendCore, ReplicateCore DEF HandlerStep, Tested
  <1> QED
    BY <1>2, <1>4, <1>5, <1>6, <1>7, HearLeaderCore, RestartCore DEF Next

-----------------------------------------------------------------------------
(* Logs end with their newest entry.                                       *)

\* A file that is written holds the log of its node.
LEMMA SavedEnds ==
    ASSUME LogsEndNewest, NEW S, Save(S),
           \A n \in Node : EndsNewest(log'[n])
    PROVE  LogsEndNewest'
  <1>1. \A n \in Node : saved'[n].log = log'[n] \/ saved'[n].log = saved[n].log
    BY DEF Save
  <1>2. \A n \in Node : EndsNewest(saved[n].log)
    BY DEF LogsEndNewest
  <1>3. \A n \in Node : EndsNewest(saved'[n].log)
    BY <1>1, <1>2
  <1> QED
    BY <1>3 DEF LogsEndNewest, EndsNewest

LEMMA NextEnds ==
    ASSUME TypeOK, TypeOK', EntryTerms, LogsEndNewest, Core, Tested, [Next]_vars
    PROVE  LogsEndNewest'
  <1>0. /\ \A n \in Node : EndsNewest(log[n]) /\ EndsNewest(saved[n].log)
        /\ \A n \in Node : /\ log[n] \in Seq(Entry) /\ log'[n] \in Seq(Entry)
                           /\ currentTerm[n] \in Nat
        /\ DOMAIN log = Node
    BY DEF LogsEndNewest, TypeOK
  <1>1. ASSUME NEW h \in handlers, AppendEntry(h)
        PROVE  LogsEndNewest'
    <2> DEFINE n == h.node
               e == [term |-> currentTerm[n], req |-> h.req]
    <2>1. /\ n \in Node /\ e \in Entry /\ e.term = currentTerm[n]
          /\ log' = [log EXCEPT ![n] = Append(log[n], e)] /\ saved' = saved
      BY <1>1, HandlerAt DEF TypeOK, Entry, AppendEntry
    <2>2. log'[n] = Append(log[n], e) /\ \A k \in Node : k # n => log'[k] = log[k]
      BY <1>0, <2>1
    <2> HIDE DEF e, n
    <2>3. /\ Len(log[n]) \in Nat /\ Len(log'[n]) = Len(log[n]) + 1
          /\ \A i \in 1 .. Len(log[n]) : log'[n][i] = log[n][i]
          /\ log'[n][Len(log[n]) + 1] = e
          /\ LastTerm(log'[n]) = currentTerm[n]
      BY <1>0, <2>1, <2>2, AppendAt
    <2>4. \A i \in 1 .. Len(log'[n]) : log'[n][i].term <= currentTerm[n]
      <3> SUFFICES ASSUME NEW i \in 1 .. Len(log'[n])
                   PROVE  log'[n][i].term <= currentTerm[n]
        OBVIOUS
      <3>1. CASE i \in 1 .. Len(log[n])
        BY <2>1, <2>3, <3>1 DEF EntryTerms
      <3>2. CASE i = Len(log[n]) + 1
        BY <1>0, <2>1, <2>3, <3>2
      <3> QED
        BY <2>3, <3>1, <3>2
    <2>5. EndsNewest(log'[n])
      BY <2>3, <2>4 DEF EndsNewest
    <2>6. \A k \in Node : EndsNewest(log'[k]) /\ EndsNewest(saved'[k].log)
      BY <1>0, <2>1, <2>2, <2>5
    <2> QED
      BY <2>6 DEF LogsEndNewest, EndsNewest
  <1>2. ASSUME NEW h \in handlers, NEW Q \in Quorum, Replicate(h, Q)
        PROVE  LogsEndNewest'
    <2> DEFINE n == h.node
    <2>1. /\ n \in Node /\ h.index \in Nat /\ h.pc = "replicate" /\ Newest(n)
          /\ Save(Q \ {n})
      BY <1>2, HandlerAt, OnlyNewestReplicates DEF Core, Replicate
    <2>2. Own(h)
      BY <2>1 DEF Core, PendingAtNewest
    <2>3. h.index < Len(log[n]) /\ log[n][h.index + 1].term = currentTerm[n]
      BY <2>2 DEF Own
    <2>4. \A k \in Node :
             \/ log'[k] = log[k]
             \/ /\ Len(log'[k]) = h.index + 1
                /\ \A j \in 1 .. h.index + 1 : log'[k][j] = log[n][j]
      BY <1>2, <2>3, ReplicateLogs
    <2>5. ASSUME NEW k \in Node, Len(log'[k]) = h.index + 1,
                 \A j \in 1 .. h.index + 1 : log'[k][j] = log[n][j]
          PROVE  EndsNewest(log'[k])
      <3>1. h.index + 1 \in 1 .. h.index + 1 /\ Len(log'[k]) > 0
        BY <2>1, <2>5
      <3>2. LastTerm(log'[k]) = currentTerm[n]
        <4>1. LastTerm(log'[k]) = log'[k][h.index + 1].term
          BY <1>0, <2>5, <3>1, LastTermAt
        <4> QED
          BY <2>3, <2>5, <3>1, <4>1
      <3>3. \A j \in 1 .. h.index + 1 : log[n][j].term <= currentTerm[n]
        <4>1. Len(log[n]) \in Nat
          BY <1>0, <2>1, LastTermAt
        <4>2. \A j \in 1 .. h.index + 1 : j \in 1 .. Len(log[n])
          BY <2>1, <2>3, <4>1
        <4> QED
          BY <2>1, <4>2 DEF EntryTerms
      <3> QED
        BY <2>5, <3>2, <3>3 DEF EndsNewest
    <2>6. \A k \in Node : EndsNewest(log'[k])
      BY <1>0, <2>4, <2>5
    <2> QED
      BY <2>1, <2>6, SavedEnds
  <1>3. ASSUME NEW m \in Node, HearLeader(m)
        PROVE  LogsEndNewest'
    <2>1. PICK n \in Node : log' = [log EXCEPT ![m] = log[n]]
      BY <1>3 DEF HearLeader
    <2>2. \A k \in Node : EndsNewest(log'[k])
      BY <1>0, <2>1
    <2> QED
      BY <1>3, <2>2, SavedEnds DEF HearLeader
  <1>4. ASSUME NEW S, Save(S), log' = log
        PROVE  LogsEndNewest'
    BY <1>0, <1>4, SavedEnds
  <1>5. ASSUME Restart
        PROVE  LogsEndNewest'
    <2>1. \A n \in Node : log'[n] = saved[n].log /\ saved'[n].log = saved[n].log
      BY <1>5 DEF Restart
    <2>2. \A n \in Node : EndsNewest(log'[n]) /\ EndsNewest(saved'[n].log)
      BY <1>0, <2>1
    <2> QED
      BY <2>2 DEF LogsEndNewest, EndsNewest
  <1>6. ASSUME UNCHANGED <<log, saved>>
        PROVE  LogsEndNewest'
    BY <1>6 DEF LogsEndNewest, EndsNewest
  <1>7. \/ UNCHANGED <<log, saved>>
        \/ Restart
        \/ \E h \in handlers : \/ AppendEntry(h)
                               \/ \E Q \in Quorum : Replicate(h, Q)
        \/ \E n \in Node : HearLeader(n)
        \/ \E S : Save(S) /\ log' = log
    BY DEF Next, vars, HandlerStep, Tested, ClientCommand, OtherCommand, Timeout,
           Receive, CheckCommand, NotReplicated, Commit, NotCommitted, StepDown,
           PersistAndReply, Elect, HearVote
  <1> QED
    BY <1>1, <1>2, <1>3, <1>4, <1>5, <1>6, <1>7

-----------------------------------------------------------------------------
(* Answers stand for executed entries.                                     *)

LEMMA ExecutedGrows ==
    ASSUME [Next]_vars
    PROVE  executed \subseteq executed'
  BY StraySpends DEF Next, vars, ClientCommand, OtherCommand, Timeout, HandlerStep, Receive,
         CheckCommand, AppendEntry, Replicate, NotReplicated, StepDown, Commit,
         NotCommitted, PersistAndReply, Elect, HearVote, HearLeader, Restart

LEMMA DoneStays ==
    ASSUME TypeOK, [Next]_vars, NEW r, Done(r)
    PROVE  Done(r)'
  <1>1. executed \subseteq executed'
    BY ExecutedGrows
  <1>2. used'.restarts = 0 => used.restarts = 0
    <2>1. used.restarts <= used'.restarts /\ used.restarts \in Nat
      BY UsedGrows DEF TypeOK
    <2> QED
      BY <2>1
  <1> QED
    BY <1>1, <1>2 DEF Done

\* A write is answered OK only for the result OK.
LEMMA WriteStatus ==
    ASSUME NEW r, IsWrite(r), NEW result, Status(r.op, result) = "OK"
    PROVE  result = "OK"
  BY DEF IsWrite, Status

\* A handler of an earlier leader that commits does so at a node that still leads.
LEMMA OutlivedCommit ==
    ASSUME TypeOK, Core, NEW h \in handlers, Commit(h), ~Newest(h.node)
    PROVE  state[h.node] = "LEADER" /\ \E m \in Node : Outlived(h, m)
  <1>1. h.node \in Node /\ h.index \in Nat /\ h.pc = "commit" /\ Working(h)
    BY HandlerAt DEF Commit, Working
  <1>2. PICK m \in Node : Newest(m)
    BY <1>1 DEF Core, Roles
  <1>3. Outlived(h, m)
    BY <1>1, <1>2 DEF Core, PendingAtOld
  <1>4. /\ h.index < Len(log[h.node])
        /\ log[h.node][h.index + 1].term = currentTerm[h.node]
    BY DEF Commit, OfCurrentTerm
  <1>5. state[h.node] = "LEADER"
    <2> SUFFICES ASSUME state[h.node] # "LEADER" PROVE FALSE
      OBVIOUS
    <2>1. currentTerm[h.node] = currentTerm[m]
      BY <1>3 DEF Outlived
    <2>2. h.index + 1 \in 1 .. Len(log[h.node])
      <3>1. Len(log[h.node]) \in Nat
        BY <1>1, LastTermAt DEF TypeOK
      <3> QED
        BY <1>1, <1>4, <3>1
    <2>3. h.index + 1 > h.index + 1
      BY <1>1, <1>3, <1>4, <2>1, <2>2 DEF Outlived
    <2> QED
      BY <1>1, <2>3
  <1> QED
    BY <1>3, <1>5

\* The handler that commits finds its own request at its index.
LEMMA CommitsOwn ==
    ASSUME TypeOK, Core, NEW h \in handlers, Commit(h)
    PROVE  log[h.node][h.index + 1].req = h.req
  <1>1. CASE Newest(h.node)
    <2>1. h.pc = "commit"
      BY DEF Commit
    <2>2. Own(h)
      BY <1>1, <2>1 DEF Core, PendingAtNewest
    <2> QED
      BY <2>2 DEF Own
  <1>2. CASE ~Newest(h.node)
    BY <1>2, OutlivedCommit DEF Outlived
  <1> QED
    BY <1>1, <1>2

\* What the cache says holds for every request that may ask it.
Cached(n, c, x) ==
    /\ x.entry.req.client = c
    /\ x.entry.req.id = cache[n][c].id
    /\ used.restarts = 0 =>
          /\ x.entry.req.id <= counter[c]
          /\ \A r \in Live : r.client = c /\ r.id = cache[n][c].id
                => r = x.entry.req
CacheStands ==
    \A n \in Node, c \in Client : cache[n][c].result = "OK" =>
        \E x \in executed : Cached(n, c, x)
FileStands ==
    \A n \in Node, c \in Client :
        saved[n].cache[c].result = "OK" => Stands(c, saved[n].cache[c].id)
HandlerStands ==
    \A h \in handlers : h.pc = "persist" /\ h.result = "OK" => Done(h.req)

LEMMA ExplainedParts ==
    Explained <=> CacheStands /\ FileStands /\ HandlerStands
  BY DEF Explained, CacheStands, FileStands, HandlerStands, Cached

\* A step that executes nothing: requests on their way are old ones or have a
\* new number, and files take what the cache has.
LEMMA StandsStay ==
    ASSUME TypeOK, Explained, [Next]_vars, cache' = cache,
           \A c \in Client : counter[c] <= counter'[c],
           \A r \in Live' : r \in Live \/ r.id > counter[r.client],
           counter' \in [Client -> 0 .. MaxLines],
           \A g \in handlers' : g \in handlers \/ g.pc # "persist",
           saved' = saved \/ \E S : Save(S)
    PROVE  Explained'
  <1>1. executed \subseteq executed' /\ CacheStands /\ FileStands /\ HandlerStands
    BY ExecutedGrows, ExplainedParts
  <1>2. used'.restarts = 0 => used.restarts = 0
    <2>1. used.restarts <= used'.restarts /\ used.restarts \in Nat
      BY UsedGrows DEF TypeOK
    <2> QED
      BY <2>1
  <1>3. HandlerStands'
    BY <1>1, DoneStays DEF HandlerStands
  <1>4. ASSUME NEW n \in Node, NEW c \in Client, NEW x \in executed, Cached(n, c, x)
        PROVE  Cached(n, c, x)'
    <2>1. /\ x.entry.req.client = c /\ x.entry.req.id = cache[n][c].id
          /\ cache[n][c].id \in Nat
          /\ counter[c] \in Nat /\ counter'[c] \in Nat /\ counter[c] <= counter'[c]
      BY <1>4, BoundAssumption DEF Cached, TypeOK, Answer
    <2>2. ASSUME used'.restarts = 0
          PROVE  /\ x.entry.req.id <= counter'[c]
                 /\ \A r \in Live' : r.client = c /\ r.id = cache[n][c].id
                       => r = x.entry.req
      <3>1. /\ x.entry.req.id <= counter[c]
            /\ \A r \in Live : r.client = c /\ r.id = cache[n][c].id
                  => r = x.entry.req
        BY <1>2, <1>4, <2>2 DEF Cached
      <3>2. x.entry.req.id <= counter'[c]
        BY <2>1, <3>1
      <3>3. ASSUME NEW r \in Live', r.client = c, r.id = cache[n][c].id
            PROVE  r \in Live
        BY <2>1, <3>1, <3>3
      <3> QED
        BY <3>1, <3>2, <3>3
    <2> QED
      BY <2>1, <2>2 DEF Cached
  <1>5. CacheStands'
    BY <1>1, <1>4 DEF CacheStands
  <1>6. FileStands'
    <2> SUFFICES ASSUME NEW n \in Node, NEW c \in Client,
                        saved'[n].cache[c].result = "OK"
                 PROVE  \E x \in executed' : /\ x.entry.req.client = c
                                             /\ x.entry.req.id = saved'[n].cache[c].id
      BY DEF FileStands, Stands
    <2>1. CASE saved'[n].cache = saved[n].cache
      <3>1. Stands(c, saved[n].cache[c].id)
        BY <1>1, <2>1 DEF FileStands
      <3> QED
        BY <1>1, <2>1, <3>1 DEF Stands
    <2>2. CASE saved'[n].cache = cache[n]
      <3>1. PICK x \in executed : Cached(n, c, x)
        BY <1>1, <2>2 DEF CacheStands
      <3> QED
        BY <1>1, <2>2, <3>1 DEF Stands, Cached
    <2>3. saved'[n].cache = saved[n].cache \/ saved'[n].cache = cache[n]
      BY DEF Save
    <2> QED
      BY <2>1, <2>2, <2>3
  <1>7. CacheStands' /\ FileStands' /\ HandlerStands'
    BY <1>3, <1>5, <1>6
  <1> QED
    BY <1>7 DEF Explained, CacheStands, FileStands, HandlerStands, Cached

\* A commit executes the request it caches the answer of.
LEMMA CommitStands ==
    ASSUME TypeOK, LiveNumbered, Core, Explained, [Next]_vars,
           NEW h \in handlers, Commit(h)
    PROVE  Explained'
  <1> DEFINE n == h.node
             d == h.req.client
  <1>1. /\ h \in Handler /\ n \in Node /\ h.index \in Nat /\ h.req \in Request
        /\ d \in Client
    BY HandlerAt DEF Request
  <1>2. PICK result \in Result :
           /\ \/ h.index > lastApplied[n] \/ result = NoResult
           /\ Advance(h, [h EXCEPT !.pc = "persist", !.result = result])
           /\ cache' = [cache EXCEPT ![h.node][h.req.client] =
                           [id |-> h.req.id, result |-> result]]
    BY CommitCalls
  <1> DEFINE g == [h EXCEPT !.pc = "persist", !.result = result]
             x == [index |-> h.index, entry |-> log[n][h.index + 1], node |-> n,
                   life |-> used.restarts]
  <1>3. /\ executed \subseteq executed' /\ CacheStands /\ FileStands /\ HandlerStands
        /\ UNCHANGED <<counter, saved, used>>
    BY ExecutedGrows, ExplainedParts DEF Commit, sessionVars
  <1>4. /\ handlers' = (handlers \ {h}) \cup {g} /\ g.req = h.req /\ g.result = result
        /\ UNCHANGED session
    BY <1>1, <1>2 DEF Advance, Handler
  <1>5. Live' \subseteq Live /\ h.req \in Live
    BY <1>4 DEF Live
  <1>6. ASSUME result = "OK"
        PROVE  \E y \in executed' : y.entry.req = h.req
    <2>1. h.index > lastApplied[n] /\ lastApplied[n] \in Nat
      BY <1>1, <1>2, <1>6 DEF NoResult, TypeOK
    <2>2. h.index \in lastApplied[n] + 1 .. h.index
      BY <1>1, <2>1
    <2>3. x \in executed'
      BY <2>2 DEF Commit
    <2> QED
      BY <2>3, CommitsOwn
  <1> HIDE DEF x
  <1>7. HandlerStands'
    <2> SUFFICES ASSUME NEW f \in handlers', f.pc = "persist", f.result = "OK"
                 PROVE  Done(f.req)'
      BY DEF HandlerStands
    <2>1. CASE f \in handlers
      BY <1>3, <2>1, DoneStays DEF HandlerStands
    <2>2. CASE f = g
      <3>1. PICK y \in executed' : y.entry.req = f.req
        BY <1>4, <1>6, <2>2
      <3> QED
        BY <3>1 DEF Done
    <2> QED
      BY <1>4, <2>1, <2>2
  <1> HIDE DEF g
  <1>8. /\ cache'[n][d] = [id |-> h.req.id, result |-> result]
        /\ \A k \in Node, c \in Client : k # n \/ c # d => cache'[k][c] = cache[k][c]
    <2>1. cache \in [Node -> [Client -> Answer]]
      BY DEF TypeOK
    <2> HIDE DEF Answer
    <2> QED
      BY <1>1, <1>2, <2>1
  <1>9. CacheStands'
    <2> SUFFICES ASSUME NEW k \in Node, NEW c \in Client, cache'[k][c].result = "OK"
                 PROVE  \E y \in executed' : Cached(k, c, y)'
      BY DEF CacheStands
    <2>1. CASE k = n /\ c = d
      <3>1. cache'[k][c].id = h.req.id /\ result = "OK"
        BY <1>8, <2>1
      <3>2. PICK y \in executed' : y.entry.req = h.req
        BY <1>6, <3>1
      <3>3. h.req.id <= counter'[c] /\ \A r \in Live' : r.client = c /\ r.id = h.req.id
                                          => r = h.req
        BY <1>3, <1>5, <2>1 DEF LiveNumbered
      <3>4. Cached(k, c, y)'
        BY <2>1, <3>1, <3>2, <3>3 DEF Cached
      <3> QED
        BY <3>2, <3>4
    <2>2. CASE k # n \/ c # d
      <3>1. cache'[k][c] = cache[k][c]
        BY <1>8, <2>2
      <3>2. PICK y \in executed : Cached(k, c, y)
        BY <1>3, <3>1 DEF CacheStands
      <3>3. Cached(k, c, y)'
        BY <1>3, <1>5, <3>1, <3>2 DEF Cached
      <3> QED
        BY <1>3, <3>3
    <2> QED
      BY <2>1, <2>2
  <1>10. FileStands'
    BY <1>3 DEF FileStands, Stands
  <1> QED
    BY <1>7, <1>9, <1>10 DEF Explained, CacheStands, FileStands, HandlerStands, Cached

LEMMA RestartStands ==
    ASSUME TypeOK, Explained, Restart
    PROVE  Explained'
  <1>1. /\ handlers' = {} /\ executed' = executed /\ saved' = saved
        /\ \A n \in Node : cache'[n] = saved[n].cache
    BY DEF Restart
  <1>2. used'.restarts # 0
    <2>1. Spend("restarts") /\ used.restarts \in Nat
      BY DEF Restart, TypeOK
    <2> QED
      BY <2>1, SpendType
  <1>3. FileStands /\ FileStands' /\ HandlerStands'
    BY <1>1, ExplainedParts DEF FileStands, Stands, HandlerStands
  <1>4. CacheStands'
    <2> SUFFICES ASSUME NEW n \in Node, NEW c \in Client, cache'[n][c].result = "OK"
                 PROVE  \E x \in executed' : Cached(n, c, x)'
      BY DEF CacheStands
    <2>1. PICK x \in executed : /\ x.entry.req.client = c
                                /\ x.entry.req.id = cache'[n][c].id
      BY <1>1, <1>3 DEF FileStands, Stands
    <2> QED
      BY <1>1, <1>2, <2>1 DEF Cached
  <1> QED
    BY <1>3, <1>4 DEF Explained, CacheStands, FileStands, HandlerStands, Cached

\* Results to be answered come from commits only.
LEMMA OnlyCommitPersists ==
    ASSUME TypeOK, NEW h \in handlers, HandlerStep(h), ~Commit(h)
    PROVE  /\ \A g \in handlers' : g \in handlers \/ g.pc # "persist"
           /\ cache' = cache
           /\ saved' = saved \/ \E S : Save(S)
  <1> DEFINE Few == \A g \in handlers' : g \in handlers \/ g.pc # "persist"
  <1>1. h \in Handler
    BY DEF TypeOK
  <1>2. ASSUME CallsMove
        PROVE  Few
    BY <1>2 DEF CallsMove
  <1>3. ASSUME NEW p \in {"command", "append", "commit"},
               Advance(h, [h EXCEPT !.pc = p])
        PROVE  Few
    BY <1>1, <1>3 DEF Advance, Handler
  <1>4. CASE Receive(h)
    <2>1. Few
      BY <1>2, <1>3, <1>4, ReceiveCalls
    <2> QED
      BY <1>4, <2>1 DEF Receive
  <1>5. CASE CheckCommand(h)
    <2>1. Few
      BY <1>2, <1>3, <1>5, CheckCalls
    <2> QED
      BY <1>5, <2>1 DEF CheckCommand
  <1>6. CASE AppendEntry(h)
    BY <1>1, <1>6 DEF AppendEntry, Handler
  <1>7. ASSUME NEW Q \in Quorum, Replicate(h, Q)
        PROVE  Few /\ cache' = cache /\ \E S : Save(S)
    <2>1. Go(h, "commit")
      BY <1>7 DEF Replicate
    <2>2. Few
      BY <1>3, <2>1, GoAdvances
    <2> QED
      BY <1>7, <2>2 DEF Replicate
  <1>8. CASE NotReplicated(h) \/ StepDown(h) \/ NotCommitted(h) \/ PersistAndReply(h)
    <2>1. Few
      BY ZenonT(40), <1>2, <1>8, StatusType, ReplyMoves
         DEF NotReplicated, StepDown, NotCommitted, PersistAndReply
    <2> QED
      BY <1>8, <2>1 DEF NotReplicated, StepDown, NotCommitted, PersistAndReply
  <1>10. CASE SendsOn(h)
    <2>1. Go(h, "commit") \/ Reply(h, Status(h.req.op, "not committed"))
      BY <1>10, SendsOnLogs
    <2>2. Few
      BY ZenonT(40), <1>2, <1>3, <2>1, GoAdvances, StatusType, ReplyMoves
    <2> QED
      BY <1>10, <2>2, SendsOnLogs
  <1> HIDE DEF Few
  <1>9. Few /\ cache' = cache /\ (saved' = saved \/ \E S : Save(S))
    BY <1>4, <1>5, <1>6, <1>7, <1>8, <1>10 DEF HandlerStep, Few
  <1> QED
    BY <1>9 DEF Few

LEMMA NextStands ==
    ASSUME TypeOK, TypeOK', LiveNumbered, Core, Explained, [Next]_vars
    PROVE  Explained'
  <1>1. /\ counter \in [Client -> 0 .. MaxLines] /\ counter' \in [Client -> 0 .. MaxLines]
        /\ MaxLines \in Nat
    BY BoundAssumption DEF TypeOK
  <1>2. ASSUME counter' = counter, Live' \subseteq Live, cache' = cache,
               \A g \in handlers' : g \in handlers \/ g.pc # "persist",
               saved' = saved \/ \E S : Save(S)
        PROVE  Explained'
    <2>1. \A c \in Client : counter[c] <= counter'[c]
      BY <1>1, <1>2
    <2> QED
      BY <1>1, <1>2, <2>1, StandsStay
  <1>3. ASSUME NEW c \in Client, NEW op \in Op, NEW n \in Node, ClientCommand(c, op, n)
        PROVE  Explained'
    <2>1. /\ \A d \in Client : counter[d] <= counter'[d]
          /\ \A g \in handlers' : g \in handlers \/ g.pc = "received"
          /\ \A q \in Live' : q \in Live \/ (q.client = c /\ q.id = counter[c] + 1)
      BY <1>3, NewRequest
    <2>2. \A r \in Live' : r \in Live \/ r.id > counter[r.client]
      BY <1>1, <2>1
    <2>3. cache' = cache /\ saved' = saved
      BY <1>3 DEF ClientCommand
    <2>4. \A g \in handlers' : g \in handlers \/ g.pc # "persist"
      BY <2>1
    <2> QED
      BY <1>1, <2>1, <2>2, <2>3, <2>4, StandsStay
  <1>4. ASSUME NEW c \in Client, OtherCommand(c)
        PROVE  Explained'
    <2>1. /\ counter' = [counter EXCEPT ![c] = @ + 1]
          /\ UNCHANGED <<session, handlers, cache, saved>>
      BY <1>4 DEF OtherCommand
    <2>2. \A d \in Client : counter[d] <= counter'[d]
      BY <1>1, <2>1
    <2>3. Live' = Live
      BY <2>1 DEF Live
    <2> QED
      BY <1>1, <2>1, <2>2, <2>3, StandsStay
  <1>5. ASSUME NEW c \in Client, Timeout(c)
        PROVE  Explained'
    <2>1. counter' = counter /\ cache' = cache /\ saved' = saved
      BY <1>5 DEF Timeout
    <2>2. Live' \subseteq Live /\ \A g \in handlers' : g \in handlers \/ g.pc # "persist"
      BY <1>5, TimeoutMoves, MoveKeeps DEF CallsMove, CallsKept
    <2> QED
      BY <1>2, <2>1, <2>2
  <1>6. ASSUME NEW h \in handlers, HandlerStep(h)
        PROVE  Explained'
    <2>1. CASE Commit(h)
      BY <2>1, CommitStands
    <2>2. CASE ~Commit(h)
      <3>1. counter' = counter /\ Live' \subseteq Live
        BY <1>6, HandlerCalls DEF CallsKept
      <3> QED
        BY <1>2, <1>6, <2>2, <3>1, OnlyCommitPersists
    <2> QED
      BY <2>1, <2>2
  <1>7. ASSUME NEW n \in Node, (\E Q \in Quorum : Elect(n, Q)) \/ HearVote(n) \/ HearLeader(n)
        PROVE  Explained'
    <2>1. UNCHANGED <<counter, session, handlers, cache>> /\ \E S : Save(S)
      BY <1>7 DEF Elect, HearVote, HearLeader, sessionVars
    <2>2. Live' = Live
      BY <2>1 DEF Live
    <2> QED
      BY <1>2, <2>1, <2>2
  <1>8. ASSUME UNCHANGED vars
        PROVE  Explained'
    <2>1. UNCHANGED <<counter, session, handlers, cache, saved>>
      BY <1>8 DEF vars, sessionVars
    <2>2. Live' = Live
      BY <2>1 DEF Live
    <2> QED
      BY <1>2, <2>1, <2>2
  <1> QED
    BY <1>3, <1>4, <1>5, <1>6, <1>7, <1>8, RestartStands DEF Next

\* The answers a handler gives.
LEMMA HandlerAnswers ==
    ASSUME TypeOK, Explained, NEW h \in handlers, HandlerStep(h)
    PROVE  \A a \in answers' :
              a.status = "OK" /\ IsWrite(a.req) => a \in answers \/ Done(a.req)
  <1> DEFINE Good == \A a \in answers' :
                        a.status = "OK" /\ IsWrite(a.req) => a \in answers \/ Done(a.req)
  <1>0. CacheStands /\ HandlerStands
    BY ExplainedParts
  <1>1. ASSUME NEW result, Answers(h, Status(h.req.op, result)),
               result = "OK" => Done(h.req)
        PROVE  Good
    <2> SUFFICES ASSUME NEW a \in answers', a.status = "OK", IsWrite(a.req), a \notin answers
                 PROVE  Done(a.req)
      OBVIOUS
    <2>1. a = [req |-> h.req, status |-> Status(h.req.op, result)]
      BY <1>1 DEF Answers
    <2>2. a.req = h.req /\ Status(h.req.op, result) = "OK"
      BY <2>1
    <2>3. result = "OK"
      BY <2>2, WriteStatus
    <2> QED
      BY <1>1, <2>2, <2>3
  <1>2. ASSUME answers' = answers
        PROVE  Good
    BY <1>2
  <1>3. CASE Receive(h)
    <2>1. Answers(h, "error") \/ answers' = answers
      BY <1>3, ReceiveCalls DEF Advance
    <2> QED
      BY <2>1 DEF Answers
  <1>4. CASE CheckCommand(h)
    <2> DEFINE last == cache[h.node][h.req.client]
    <2>1. \/ \E result : result # "OK" /\ Answers(h, Status(h.req.op, result))
          \/ last.id = h.req.id /\ Answers(h, Status(h.req.op, last.result))
          \/ answers' = answers
      <3>1. "not leader" # "OK"
        OBVIOUS
      <3> QED
        BY <1>4, <3>1, CheckCalls, Zenon DEF Advance
    <2>2. ASSUME last.id = h.req.id, last.result = "OK"
          PROVE  Done(h.req)
      <3>1. h.node \in Node /\ h.req.client \in Client
        BY HandlerAt DEF Request
      <3>2. PICK x \in executed : Cached(h.node, h.req.client, x)
        BY <1>0, <2>2, <3>1 DEF CacheStands
      <3>3. h.req \in Live
        BY DEF Live
      <3> QED
        BY <2>2, <3>2, <3>3 DEF Cached, Done
    <2> HIDE DEF last
    <2> QED
      BY <1>1, <1>2, <2>1, <2>2
  <1>5. CASE PersistAndReply(h)
    <2>1. Answers(h, Status(h.req.op, h.result)) /\ h.pc = "persist"
      BY <1>5, StatusType, ReplyMoves DEF PersistAndReply
    <2>2. h.result = "OK" => Done(h.req)
      BY <1>0, <2>1 DEF HandlerStands
    <2> QED
      BY <1>1, <2>1, <2>2
  <1>6. CASE NotReplicated(h) \/ NotCommitted(h)
    <2>1. PICK result : result # "OK" /\ Reply(h, Status(h.req.op, result))
      <3>1. "not committed" # "OK"
        OBVIOUS
      <3> QED
        BY <1>6, <3>1, Zenon DEF NotReplicated, NotCommitted
    <2>2. Answers(h, Status(h.req.op, result))
      BY <2>1, StatusType, ReplyMoves
    <2> QED
      BY <1>1, <2>1, <2>2
  <1>7. CASE StepDown(h)
    <2>1. PICK result : result # "OK" /\ Reply(h, Status(h.req.op, result))
      <3>1. "leader step down" # "OK"
        OBVIOUS
      <3> QED
        BY <1>7, <3>1, Zenon DEF StepDown
    <2>2. Answers(h, Status(h.req.op, result))
      BY <2>1, StatusType, ReplyMoves
    <2> QED
      BY <1>1, <2>1, <2>2
  <1>8. CASE AppendEntry(h) \/ Commit(h) \/ \E Q \in Quorum : Replicate(h, Q)
    BY <1>2, <1>8 DEF AppendEntry, Commit, Replicate, Go, sessionVars
  <1>9. CASE SendsOn(h)
    <2>1. CASE Go(h, "commit")
      BY <1>2, <2>1 DEF Go
    <2>2. CASE Reply(h, Status(h.req.op, "not committed"))
      <3>1. PICK result : result # "OK" /\ Reply(h, Status(h.req.op, result))
        <4>1. "not committed" # "OK"
          OBVIOUS
        <4> QED
          BY <2>2, <4>1, Zenon
      <3>2. Answers(h, Status(h.req.op, result))
        BY <3>1, StatusType, ReplyMoves
      <3> QED
        BY <1>1, <3>1, <3>2
    <2> QED
      BY Zenon, <1>9, <2>1, <2>2, SendsOnLogs
  <1> QED
    BY <1>3, <1>4, <1>5, <1>6, <1>7, <1>8, <1>9 DEF HandlerStep

LEMMA NextAnswered ==
    ASSUME TypeOK, LiveNumbered, Explained, AnsweredExecuted, [Next]_vars
    PROVE  AnsweredExecuted'
  <1>1. ASSUME NEW a \in answers', a.status = "OK", IsWrite(a.req)
        PROVE  a \in answers \/ Done(a.req)
    <2>1. CASE answers' = answers
      BY <1>1, <2>1
    <2>2. ASSUME NEW c \in Client, Timeout(c)
          PROVE  a \in answers
      BY <1>1, <2>2, TimeoutMoves
    <2>3. ASSUME NEW h \in handlers, HandlerStep(h)
          PROVE  a \in answers \/ Done(a.req)
      BY <1>1, <2>3, HandlerAnswers
    <2>4. \/ answers' = answers
          \/ \E c \in Client : Timeout(c)
          \/ \E h \in handlers : HandlerStep(h)
      <3>1. ASSUME NEW c \in Client, NEW op \in Op, NEW n \in Node,
                   ClientCommand(c, op, n)
            PROVE  answers' = answers
        BY <3>1, NewRequest
      <3> QED
        BY <3>1 DEF Next, vars, sessionVars, OtherCommand, Elect, HearVote,
                    HearLeader, Restart
    <2> QED
      BY <2>1, <2>2, <2>3, <2>4
  <1>2. \A r \in Acknowledged' : r \in Acknowledged \/ Done(r)
    <2> SUFFICES ASSUME NEW r \in Acknowledged', r \notin Acknowledged
                 PROVE  Done(r)
      OBVIOUS
    <2> DEFINE a == [req |-> r, status |-> "OK"]
    <2>1. IsWrite(r) /\ a \in answers' /\ a.status = "OK" /\ a.req = r
      BY DEF Acknowledged, IsWrite
    <2>2. a \notin answers
      BY <2>1 DEF Acknowledged
    <2> HIDE DEF a
    <2> QED
      BY <1>1, <2>1, <2>2
  <1>3. \A r \in Acknowledged' : Done(r)
    BY <1>2 DEF AnsweredExecuted
  <1>4. \A r \in Acknowledged' : Done(r)'
    BY <1>3, DoneStays
  <1> QED
    BY <1>4 DEF AnsweredExecuted

-----------------------------------------------------------------------------
(* The theorems.                                                           *)

\* The log a process starts with.
LEMMA StartLog ==
    /\ InitLog \in Seq(Entry) /\ LastTerm(InitLog) \in Nat /\ EndsNewest(InitLog)
    /\ \A i \in 1 .. Len(InitLog) : InitLog[i].term <= LastTerm(InitLog)
  <1>1. InitLog \in Seq(Entry)
    <2>1. [term : Nat, req : {NoRequest}] \subseteq Entry
      BY DEF Entry
    <2>2. InitLog \in Seq([term : Nat, req : {NoRequest}])
      BY LogAssumption
    <2> DEFINE S == [term : Nat, req : {NoRequest}]
    <2>3. InitLog \in Seq(S) /\ S \subseteq Entry
      BY <2>1, <2>2
    <2> HIDE DEF S, Entry
    <2> QED
      BY <2>3
  <1> QED
    BY <1>1, LastTermAt, LogAssumption DEF EndsNewest

LEMMA InitTypes ==
    ASSUME Init
    PROVE  TypeOK
  <1>1. /\ InitLog \in Seq(Entry) /\ LastTerm(InitLog) \in Nat
        /\ MaxLines \in Nat /\ InitLeader \in Node \cup {NoNode} /\ 0 \in 0 .. MaxLines
    BY StartLog, BoundAssumption, NAssumption
  <1>2. NoAnswer \in Answer
    BY <1>1 DEF NoAnswer, Answer, Result
  <1> HIDE DEF Entry, Answer, NoAnswer
  <1>3. /\ counter \in [Client -> 0 .. MaxLines]
        /\ session \in [Client -> {Idle} \cup
                             [pc : {"wait"}, req : Request, node : Node,
                              attempts : 0 .. N - 1]]
        /\ handlers \subseteq Handler
        /\ answers \subseteq [req : Request, status : {"OK", "error"}]
        /\ executed \subseteq [index : Nat, entry : Entry, node : Node, life : Nat]
    BY <1>1 DEF Init
  <1>4. /\ state \in [Node -> {"FOLLOWER", "LEADER"}]
        /\ currentTerm \in [Node -> Nat]
        /\ leaderId \in [Node -> Node \cup {NoNode}]
        /\ log \in [Node -> Seq(Entry)]
        /\ lastApplied \in [Node -> Nat]
    BY <1>1 DEF Init
  <1>5. cache \in [Node -> [Client -> Answer]]
    BY <1>2 DEF Init
  <1>6. saved \in [Node -> [term : Nat, log : Seq(Entry), cache : [Client -> Answer]]]
    BY <1>4, <1>5 DEF Init, File
  <1>7. used \in [requests : Nat, elections : Nat, faults : Nat, strays : Nat, restarts : Nat]
    BY DEF Init
  <1> QED
    BY <1>3, <1>4, <1>5, <1>6, <1>7 DEF TypeOK

LEMMA InitInv ==
    ASSUME Init
    PROVE  SessionInv
  <1>1. TypeOK
    BY InitTypes
  <1>2. /\ \A n \in Node : /\ log[n] = InitLog /\ saved[n].log = InitLog
                           /\ currentTerm[n] = LastTerm(InitLog)
                           /\ saved[n].term = LastTerm(InitLog)
                           /\ state[n] = "LEADER" => n = InitLeader
        /\ handlers = {} /\ answers = {} /\ \A c \in Client : session[c] = Idle
    BY DEF Init, File
  <1>3. EntryTerms /\ LogsEndNewest
    BY <1>2, StartLog DEF EntryTerms, LogsEndNewest
  <1>4. LiveNumbered
    BY <1>2 DEF LiveNumbered, Live
  <1>5. \A n \in Node : state[n] = "LEADER" => Newest(n)
    BY <1>2, StartLog DEF Newest
  <1>6. \A n \in Node : ~Old(n)
    BY <1>2, <1>5 DEF Old
  <1>7. Roles
    BY <1>2, <1>5, <1>6 DEF Roles
  <1>8. PendingAtNewest /\ PendingAtOld
    BY <1>2 DEF PendingAtNewest, PendingAtOld
  <1>9. Explained
    <2>1. \A n \in Node, c \in Client : /\ cache[n][c].result # "OK"
                                        /\ saved[n].cache[c].result # "OK"
      BY DEF Init, File, NoAnswer, NoResult
    <2> QED
      BY <1>2, <2>1 DEF Explained
  <1>10. AnsweredExecuted
    BY <1>2 DEF AnsweredExecuted, Acknowledged
  <1>11. StraysDeposed
    BY DEF Init, StraysDeposed
  <1> QED
    BY <1>1, <1>3, <1>4, <1>7, <1>8, <1>9, <1>10, <1>11 DEF SessionInv

\* While no leader was replaced, a handler at work serves a leader.
LEMMA FirstTested ==
    ASSUME SessionInv, used.elections = 0
    PROVE  Tested
  <1>1. TypeOK /\ Roles
    BY DEF SessionInv, StraysDeposed, OneElection
  <1> SUFFICES ASSUME NEW h \in handlers, SendsOn(h) PROVE FALSE
    BY DEF Tested
  <1>2. h.node \in Node /\ state[h.node] # "LEADER" /\ h.pc = "replicate"
    BY <1>1, SendsOnLogs
  <1>3. Working(h) /\ ~Newest(h.node)
    BY <1>2 DEF Working, Newest
  <1>4. Old(h.node)
    BY <1>3 DEF Old
  <1> QED
    BY <1>1, <1>2, <1>4 DEF Roles

LEMMA TestedStrays ==
    ASSUME TypeOK, Tested, [Next]_vars
    PROVE  used'.strays = used.strays
  <1>1. \/ used' = used
        \/ \E kind \in {"requests", "elections", "faults", "restarts"} : Spend(kind)
    BY DEF Tested, Next, vars, ClientCommand, OtherCommand, Timeout, HandlerStep,
           Receive, CheckCommand, AppendEntry, Replicate, NotReplicated, StepDown,
           Commit, NotCommitted, PersistAndReply, Elect, HearVote, HearLeader, Restart
  <1>2. used.strays \in Nat
    BY DEF TypeOK
  <1> QED
    BY <1>1, <1>2, SpendType

LEMMA NextDeposed ==
    ASSUME SessionInv, [Next]_vars
    PROVE  StraysDeposed'
  <1>1. TypeOK
    BY DEF SessionInv
  <1>2. used.elections <= used'.elections /\ used.elections \in Nat
        /\ used'.elections \in Nat
    BY <1>1, UsedGrows, NextTypes DEF TypeOK, SessionInv
  <1>3. ASSUME used'.elections = 0 PROVE used'.strays = 0
    <2>1. used.elections = 0
      BY <1>2, <1>3
    <2>2. Tested /\ used.strays = 0
      BY <2>1, FirstTested DEF SessionInv, StraysDeposed
    <2> QED
      BY <1>1, <2>2, TestedStrays
  <1> QED
    BY <1>3 DEF StraysDeposed

LEMMA NextInv ==
    ASSUME SessionInv, [Next]_vars
    PROVE  SessionInv'
  <1>1. TypeOK /\ EntryTerms /\ LiveNumbered
    BY DEF SessionInv
  <1>2. TypeOK' /\ LiveNumbered'
    BY <1>1, NextTypes
  <1>3. EntryTerms'
    BY <1>1, <1>2, NextTerms
  <1>4. ASSUME OneElection'
        PROVE  LogsEndNewest' /\ Core' /\ Explained' /\ AnsweredExecuted'
    <2>1. OneElection /\ Tested
      <3>1. /\ used.elections <= used'.elections /\ used.elections \in Nat
            /\ used'.elections \in Nat
        BY <1>1, <1>2, UsedGrows DEF TypeOK
      <3>2. used.strays <= used'.strays /\ used.strays \in Nat
        BY <1>1, <1>2, UsedGrows DEF TypeOK
      <3>3. used'.strays = 0
        BY <1>4 DEF OneElection
      <3>4. Tested
        BY <1>1, <3>3, UndisturbedTested
      <3> QED
        BY <1>4, <3>1, <3>2, <3>3, <3>4 DEF OneElection
    <2>2. LogsEndNewest /\ Core /\ Explained /\ AnsweredExecuted
      BY <2>1 DEF SessionInv, Core
    <2> QED
      BY <1>1, <1>2, <1>4, <2>1, <2>2, NextCore, NextEnds, NextStands, NextAnswered
  <1> QED
    BY <1>2, <1>3, <1>4, NextDeposed DEF SessionInv, Core

\* The inductive invariant: roles, logs, handlers, caches and files explain every
\* answer as long as at most one leader is replaced by another.
THEOREM SessionInvariant == Spec => []SessionInv
  <1>1. Init => SessionInv
    BY InitInv
  <1>2. SessionInv /\ [Next]_vars => SessionInv'
    BY NextInv
  <1> QED
    BY <1>1, <1>2, PTL DEF Spec

\* Whatever clients send, calls that time out, elections and restarts do to it,
\* the state of sessions, handlers, nodes and files is well formed.
THEOREM TypeCorrect == Spec => []TypeOK
  <1>1. SessionInv => TypeOK
    BY DEF SessionInv
  <1> QED
    BY <1>1, SessionInvariant, PTL

\* As long as at most one leader is replaced by another, a PUT or DELETE that
\* sendClientRequest answers OK was executed by a leader, whichever node answers,
\* from the handler or from its cache, and however often it was tried.
THEOREM AnsweredWritesExecuted == Spec => []WritesExecuted
  <1>1. SessionInv => WritesExecuted
    BY DEF SessionInv, WritesExecuted, OneElection
  <1> QED
    BY <1>1, SessionInvariant, PTL
-----------------------------------------------------------------------------
(* What is acknowledged stays in the log.                                  *)

\* A prefix that lasts: the newest leader has it, and before a leader is replaced
\* so has every log that is up to date with it, that of each node of a majority Q,
\* and each file of S.
Starts(lg, p) == Len(p) <= Len(lg) /\ \A j \in 1 .. Len(p) : lg[j] = p[j]
Lasts(p, Q, S) ==
    /\ EndsNewest(p)
    /\ \A n \in Node : Newest(n) => Starts(log[n], p)
    /\ used.elections = 0 =>
          /\ \A n \in Node : /\ UpToDate(log[n], p) => Starts(log[n], p)
                             /\ UpToDate(saved[n].log, p) => Starts(saved[n].log, p)
          /\ \A k \in Q : Starts(log[k], p)
          /\ \A k \in S : Starts(saved[k].log, p)

\* Before a leader is replaced, whatever ends in its term is a part of its log.
OfLeader ==
    used.elections = 0 => \A l \in Node : Newest(l) => \A n \in Node :
        /\ LastTerm(log[n]) = currentTerm[l] => Starts(log[l], log[n])
        /\ LastTerm(saved[n].log) = currentTerm[l] => Starts(log[l], saved[n].log)

\* No file is ahead of its node, and a process in which a leader was replaced has
\* one.
SavedBehind == \A n \in Node : saved[n].term <= currentTerm[n]
LeaderLeft ==
    used.elections = 1 /\ used.restarts = 0 => \E n \in Node : Newest(n)

\* One election against a leader, or restarts, not both.
Steady == used.elections = 0 \/ (used.elections = 1 /\ used.restarts = 0)

LEMMA StartsItself ==
    ASSUME NEW lg \in Seq(Entry)
    PROVE  Starts(lg, lg)
  BY LastTermAt DEF Starts

LEMMA StartsTrans ==
    ASSUME NEW a \in Seq(Entry), NEW b \in Seq(Entry), NEW c \in Seq(Entry),
           Starts(a, b), Starts(b, c)
    PROVE  Starts(a, c)
  <1>1. Len(a) \in Nat /\ Len(b) \in Nat /\ Len(c) \in Nat
    BY LastTermAt
  <1>2. Len(c) <= Len(b) /\ Len(b) <= Len(a)
    BY DEF Starts
  <1>3. \A j \in 1 .. Len(c) : j \in 1 .. Len(b)
    BY <1>1, <1>2
  <1> QED
    BY <1>1, <1>2, <1>3 DEF Starts

\* Of two parts of one log the shorter is a part of the longer.
LEMMA StartsBoth ==
    ASSUME NEW a \in Seq(Entry), NEW b \in Seq(Entry), NEW c \in Seq(Entry),
           Starts(a, b), Starts(a, c), Len(c) <= Len(b)
    PROVE  Starts(b, c)
  <1>1. Len(a) \in Nat /\ Len(b) \in Nat /\ Len(c) \in Nat
    BY LastTermAt
  <1>2. \A j \in 1 .. Len(c) : j \in 1 .. Len(b)
    BY <1>1
  <1> QED
    BY <1>2 DEF Starts

LEMMA StartsAppend ==
    ASSUME NEW lg \in Seq(Entry), NEW e \in Entry
    PROVE  /\ Starts(Append(lg, e), lg)
           /\ \A p \in Seq(Entry) : Starts(lg, p) => Starts(Append(lg, e), p)
  <1>1. Append(lg, e) \in Seq(Entry) /\ Starts(Append(lg, e), lg)
    BY AppendAt DEF Starts
  <1> QED
    BY <1>1, StartsTrans

\* The term a prefix ends with.
LEMMA StartTerm ==
    ASSUME NEW lg \in Seq(Entry), NEW p \in Seq(Entry), Starts(lg, p)
    PROVE  /\ Len(p) > 0 => Len(p) \in 1 .. Len(lg) /\ LastTerm(p) = lg[Len(p)].term
           /\ EndsNewest(lg) => LastTerm(p) <= LastTerm(lg)
           /\ EndsNewest(lg) => UpToDate(lg, p)
  <1>1. /\ Len(lg) \in Nat /\ Len(p) \in Nat /\ LastTerm(lg) \in Nat /\ LastTerm(p) \in Nat
        /\ Len(p) > 0 => LastTerm(p) = p[Len(p)].term
        /\ Len(p) = 0 => LastTerm(p) = 0
        /\ Len(p) <= Len(lg)
    BY LastTermAt DEF Starts
  <1>2. Len(p) > 0 => Len(p) \in 1 .. Len(lg) /\ LastTerm(p) = lg[Len(p)].term
    <2>1. Len(p) > 0 => Len(p) \in 1 .. Len(p) /\ Len(p) \in 1 .. Len(lg)
      BY <1>1
    <2> QED
      BY <1>1, <2>1 DEF Starts
  <1>3. EndsNewest(lg) => LastTerm(p) <= LastTerm(lg)
    <2>1. CASE Len(p) > 0
      BY <1>2, <2>1 DEF EndsNewest
    <2>2. CASE Len(p) = 0
      BY <1>1, <2>2
    <2> QED
      BY <1>1, <2>1, <2>2
  <1> QED
    BY <1>1, <1>2, <1>3 DEF UpToDate

LEMMA UpToDateTrans ==
    ASSUME NEW a \in Seq(Entry), NEW b \in Seq(Entry), NEW c \in Seq(Entry),
           UpToDate(a, b), UpToDate(b, c)
    PROVE  UpToDate(a, c)
  BY LastTermAt DEF UpToDate

\* Of two parts of one log, the one that is up to date with the other has it.
LEMMA UpToDateStarts ==
    ASSUME NEW whole \in Seq(Entry), NEW lg \in Seq(Entry), NEW p \in Seq(Entry),
           Starts(whole, lg), Starts(whole, p), EndsNewest(p), UpToDate(lg, p)
    PROVE  Starts(lg, p)
  <1>1. /\ Len(lg) \in Nat /\ Len(p) \in Nat /\ LastTerm(lg) \in Nat
        /\ LastTerm(p) \in Nat
        /\ Len(lg) > 0 => LastTerm(lg) = lg[Len(lg)].term
        /\ Len(lg) = 0 => LastTerm(lg) = 0
    BY LastTermAt
  <1>2. Len(p) <= Len(lg)
    <2> SUFFICES ASSUME Len(p) > Len(lg) PROVE FALSE
      BY <1>1
    <2>1. LastTerm(lg) > LastTerm(p)
      BY <1>1 DEF UpToDate
    <2>2. Len(lg) \in 1 .. Len(p) /\ LastTerm(lg) = lg[Len(lg)].term
      BY <1>1, <2>1
    <2>3. lg[Len(lg)] = p[Len(lg)]
      <3>1. Len(lg) \in 1 .. Len(lg)
        BY <2>2
      <3> QED
        BY <2>2, <3>1 DEF Starts
    <2>4. p[Len(lg)].term <= LastTerm(p)
      BY <2>2 DEF EndsNewest
    <2> QED
      BY <1>1, <2>1, <2>2, <2>3, <2>4
  <1> QED
    BY <1>2, StartsBoth

-----------------------------------------------------------------------------
(* What every step but an election and a restart does to roles, logs and files. *)

\* The log of n is a part of that of l, and nothing of the log of n that l has too
\* is lost.
Follows(n, l) ==
    /\ Starts(log'[l], log'[n])
    /\ \A p \in Seq(Entry) : Starts(log[n], p) /\ Starts(log[l], p)
                               => Starts(log'[n], p)
Moved ==
    /\ used'.elections = used.elections
    /\ \A n \in Node : (Newest(n)' <=> Newest(n))
                         /\ (Newest(n) => currentTerm'[n] = currentTerm[n])
    /\ \A n \in Node : state'[n] = "LEADER" =>
          state[n] = "LEADER" /\ Starts(log'[n], log[n])
    /\ used.elections = 0 => \A n \in Node :
          log'[n] = log[n] \/ \E l \in Node : Newest(l) /\ Follows(n, l)
    /\ \A n \in Node : saved'[n].log \in {saved[n].log, log'[n]}

\* Nothing happens to roles and logs.
LEMMA QuietMoved ==
    ASSUME TypeOK, UNCHANGED <<state, currentTerm, log>>,
           used'.elections = used.elections,
           saved' = saved \/ \E S : Save(S)
    PROVE  Moved
  <1>1. \A n \in Node : Newest(n)' <=> Newest(n)
    BY DEF Newest
  <1>2. \A n \in Node : saved'[n].log \in {saved[n].log, log'[n]}
    BY DEF Save
  <1>3. \A n \in Node : Starts(log[n], log[n])
    BY StartsItself DEF TypeOK
  <1> QED
    BY <1>1, <1>2, <1>3 DEF Moved

\* A node that is behind takes over a newer term.
LEMMA DemoteMoved ==
    ASSUME TypeOK, NEW n \in Node, NEW k \in Node,
           currentTerm[k] > currentTerm[n],
           currentTerm' = [currentTerm EXCEPT ![n] = currentTerm[k]],
           state' = [state EXCEPT ![n] = "FOLLOWER"], log' = log,
           used'.elections = used.elections, Save({n})
    PROVE  Moved
  <1>1. /\ \A m \in Node : currentTerm[m] \in Nat
        /\ currentTerm'[n] = currentTerm[k] /\ state'[n] = "FOLLOWER"
        /\ \A m \in Node : m # n => /\ currentTerm'[m] = currentTerm[m]
                                     /\ state'[m] = state[m]
    BY DEF TypeOK
  <1>2. ~Newest(n) /\ ~Newest(n)'
    BY <1>1 DEF Newest
  <1>3. ASSUME NEW m \in Node, m # n PROVE Newest(m)' <=> Newest(m)
    <2>1. CASE Newest(m)
      <3>1. \A i \in Node : currentTerm'[m] >= currentTerm'[i]
        BY <1>1, <1>3, <2>1 DEF Newest
      <3> QED
        BY <1>1, <1>3, <2>1, <3>1 DEF Newest
    <2>2. CASE Newest(m)'
      <3>1. \A i \in Node : currentTerm'[i] >= currentTerm[i]
        BY <1>1
      <3>2. \A i \in Node : currentTerm[m] >= currentTerm[i]
        BY <1>1, <1>3, <2>2, <3>1 DEF Newest
      <3> QED
        BY <1>1, <1>3, <2>2, <3>2 DEF Newest
    <2> QED
      BY <2>1, <2>2
  <1>4. \A m \in Node : saved'[m].log \in {saved[m].log, log'[m]}
    BY DEF Save
  <1>5. \A m \in Node : Starts(log[m], log[m])
    BY StartsItself DEF TypeOK
  <1>6. \A m \in Node : (Newest(m)' <=> Newest(m))
                         /\ (Newest(m) => currentTerm'[m] = currentTerm[m])
    BY <1>1, <1>2, <1>3
  <1>7. \A m \in Node : state'[m] = "LEADER" => state[m] = "LEADER"
    BY <1>1
  <1> QED
    BY <1>4, <1>5, <1>6, <1>7 DEF Moved

\* Before a leader is replaced whoever leads or works for a client is the newest.
LEMMA OnlyNewestWorks ==
    ASSUME TypeOK, Roles, used.elections = 0
    PROVE  /\ \A n \in Node : state[n] = "LEADER" => Newest(n)
           /\ \A h \in handlers : Working(h) => Newest(h.node)
  BY HandlerAt DEF Roles, Old

LEMMA AppendMoved ==
    ASSUME TypeOK, Roles, NEW h \in handlers, AppendEntry(h)
    PROVE  Moved
  <1> DEFINE n == h.node
             e == [term |-> currentTerm[n], req |-> h.req]
  <1>1. /\ n \in Node /\ e \in Entry /\ log \in [Node -> Seq(Entry)]
        /\ log' = [log EXCEPT ![n] = Append(log[n], e)]
        /\ UNCHANGED <<state, currentTerm, saved, used>> /\ Working(h)
    BY HandlerAt DEF AppendEntry, TypeOK, Entry, roleVars, Working
  <1>2. log'[n] = Append(log[n], e) /\ \A k \in Node : k # n => log'[k] = log[k]
    BY <1>1
  <1> HIDE DEF e
  <1>3. /\ Starts(log'[n], log[n]) /\ log'[n] \in Seq(Entry)
        /\ \A p \in Seq(Entry) : Starts(log[n], p) => Starts(log'[n], p)
    BY <1>1, <1>2, StartsAppend, AppendAt
  <1>4. Follows(n, n)
    BY <1>3, StartsItself DEF Follows
  <1>5. used.elections = 0 => Newest(n)
    BY <1>1, OnlyNewestWorks
  <1>6. \A k \in Node : Starts(log'[k], log[k])
    BY <1>1, <1>2, <1>3, StartsItself
  <1>7. \A k \in Node : Newest(k)' <=> Newest(k)
    BY <1>1 DEF Newest
  <1> QED
    BY <1>1, <1>2, <1>4, <1>5, <1>6, <1>7 DEF Moved

LEMMA HearLeaderMoved ==
    ASSUME TypeOK, Roles, NEW m \in Node, HearLeader(m)
    PROVE  Moved
  <1>1. PICK n \in Node \ {m} :
           /\ state[n] = "LEADER" /\ currentTerm[n] = currentTerm[m]
           /\ log' = [log EXCEPT ![m] = log[n]]
    BY DEF HearLeader
  <1>2. /\ log'[m] = log[n] /\ \A k \in Node : k # m => log'[k] = log[k]
        /\ \A k \in Node : log[k] \in Seq(Entry)
        /\ UNCHANGED <<state, currentTerm, used>> /\ Save({m})
    BY <1>1 DEF HearLeader, TypeOK
  <1>3. state[m] # "LEADER"
    BY <1>1 DEF Roles
  <1>4. used.elections = 0 => Newest(n)
    BY <1>1, OnlyNewestWorks
  <1>5. Follows(m, n)
    BY <1>1, <1>2, StartsItself DEF Follows
  <1>6. \A k \in Node : Newest(k)' <=> Newest(k)
    BY <1>2 DEF Newest
  <1>7. \A k \in Node : saved'[k].log \in {saved[k].log, log'[k]}
    BY <1>2 DEF Save
  <1>8. \A k \in Node : state'[k] = "LEADER" =>
           state[k] = "LEADER" /\ Starts(log'[k], log[k])
    BY <1>2, <1>3, StartsItself
  <1> QED
    BY <1>1, <1>2, <1>4, <1>5, <1>6, <1>7, <1>8 DEF Moved

\* A majority takes the leader's log up to the entry of h.
LEMMA ReplicateMoved ==
    ASSUME TypeOK, Roles, NEW h \in handlers, NEW Q \in Quorum, Replicate(h, Q), Own(h),
           \A k \in Node : log'[k] \in Seq(Entry)
    PROVE  Moved
  <1> DEFINE n == h.node
             i == h.index
  <1>1. /\ n \in Node /\ i \in Nat /\ state[n] = "LEADER" /\ Newest(n)
        /\ \A k \in Q : currentTerm[k] = currentTerm[n]
        /\ UNCHANGED <<state, currentTerm, used>> /\ Save(Q \ {n})
    BY HandlerAt, OnlyNewestReplicates DEF Replicate
  <1>2. i < Len(log[n]) /\ Len(log[n]) \in Nat /\ \A k \in Node : log[k] \in Seq(Entry)
    BY <1>1, LastTermAt DEF Own, TypeOK
  <1>3. /\ log'[n] = log[n]
        /\ \A k \in Node :
              \/ log'[k] = log[k]
              \/ /\ k \in Q /\ Len(log'[k]) = i + 1
                 /\ \A j \in 1 .. i + 1 : log'[k][j] = log[n][j]
        /\ \A k \in Node :
              (i < Len(log[k]) /\ \A j \in 1 .. i + 1 : log[k][j] = log[n][j])
              => log'[k] = log[k]
    BY <1>2, ReplicateLogs
  <1>4. ASSUME NEW k \in Node, log'[k] # log[k]
        PROVE  k \in Q /\ Follows(k, n)
    <2>1. /\ k \in Q /\ Len(log'[k]) = i + 1
          /\ \A j \in 1 .. i + 1 : log'[k][j] = log[n][j]
      BY <1>3, <1>4
    <2>2. Starts(log[n], log'[k])
      BY <1>1, <1>2, <2>1 DEF Starts
    <2>3. ASSUME NEW p \in Seq(Entry), Starts(log[k], p), Starts(log[n], p)
          PROVE  Starts(log'[k], p)
      <3>1. Len(p) \in Nat /\ Len(p) <= Len(log[k]) /\ Len(log[k]) \in Nat
        BY <1>2, <2>3, LastTermAt DEF Starts
      <3>2. Len(p) <= i + 1
        <4> SUFFICES ASSUME i + 1 < Len(p) PROVE FALSE
          BY <1>1, <3>1
        <4>1. i < Len(log[k]) /\ \A j \in 1 .. i + 1 : j \in 1 .. Len(p)
          BY <1>1, <3>1
        <4>2. \A j \in 1 .. i + 1 : log[k][j] = log[n][j]
          BY <2>3, <4>1 DEF Starts
        <4> QED
          BY <1>3, <1>4, <4>1, <4>2
      <3>3. log[n] \in Seq(Entry) /\ log'[k] \in Seq(Entry) /\ Len(p) <= Len(log'[k])
        BY <1>1, <1>2, <2>1, <3>2
      <3> HIDE DEF n, i
      <3> QED
        BY <2>2, <2>3, <3>3, StartsBoth
    <2> QED
      BY <1>3, <2>1, <2>2, <2>3 DEF Follows
  <1>5. \A k \in Node : Newest(k)' <=> Newest(k)
    BY <1>1 DEF Newest
  <1>6. \A k \in Node : saved'[k].log \in {saved[k].log, log'[k]}
    BY <1>1 DEF Save
  <1>7. \A k \in Node : state[k] = "LEADER" => log'[k] = log[k]
    BY <1>1, <1>3, <1>4 DEF Roles
  <1>8. \A k \in Node : state'[k] = "LEADER" =>
           state[k] = "LEADER" /\ Starts(log'[k], log[k])
    BY <1>1, <1>2, <1>7, StartsItself
  <1> QED
    BY <1>1, <1>4, <1>5, <1>6, <1>8 DEF Moved

\* Which steps these are.
LEMMA StepMoves ==
    ASSUME TypeOK, TypeOK', Core, Tested, [Next]_vars
    PROVE  \/ Moved
           \/ \E n \in Node, Q \in Quorum : Elect(n, Q)
           \/ Restart
  <1>0. Roles /\ PendingAtNewest
    BY DEF Core
  <1>1. ASSUME NEW h \in handlers, HandlerStep(h) PROVE Moved
    <2>1. CASE AppendEntry(h)
      BY <1>0, <2>1, AppendMoved
    <2>2. ASSUME NEW Q \in Quorum, Replicate(h, Q) PROVE Moved
      <3>1. Newest(h.node) /\ h.pc = "replicate"
        BY <1>0, <2>2, OnlyNewestReplicates DEF Replicate
      <3>2. Own(h)
        BY <1>0, <3>1 DEF PendingAtNewest
      <3>3. \A k \in Node : log'[k] \in Seq(Entry)
        BY DEF TypeOK
      <3> QED
        BY <1>0, <2>2, <3>2, <3>3, ReplicateMoved
    <2>3. CASE StepDown(h)
      <3>1. PICK k \in Node :
               /\ currentTerm[k] > currentTerm[h.node]
               /\ currentTerm' = [currentTerm EXCEPT ![h.node] = currentTerm[k]]
        BY <2>3 DEF StepDown
      <3>2. /\ state' = [state EXCEPT ![h.node] = "FOLLOWER"] /\ log' = log
            /\ used' = used /\ Save({h.node})
        BY <2>3 DEF StepDown
      <3> QED
        BY <3>1, <3>2, HandlerAt, DemoteMoved
    <2>4. CASE Receive(h) \/ CheckCommand(h) \/ Commit(h) \/ NotCommitted(h)
      BY <2>4, QuietMoved DEF Receive, CheckCommand, Commit, NotCommitted, roleVars
    <2>5. CASE NotReplicated(h)
      <3>1. UNCHANGED <<state, currentTerm, log, saved>>
        BY <2>5 DEF NotReplicated, roleVars
      <3>2. used'.elections = used.elections
        <4>1. used' = used \/ Spend("faults")
          BY <2>5 DEF NotReplicated
        <4>2. used.elections \in Nat
          BY DEF TypeOK
        <4> QED
          BY <4>1, <4>2, SpendType
      <3> QED
        BY <3>1, <3>2, QuietMoved
    <2>6. CASE PersistAndReply(h)
      BY <2>6, QuietMoved DEF PersistAndReply, roleVars
    <2> QED
      BY <1>1, <2>1, <2>2, <2>3, <2>4, <2>5, <2>6 DEF HandlerStep, Tested
  <1>2. ASSUME NEW c \in Client,
               \/ \E op \in Op, n \in Node : ClientCommand(c, op, n)
               \/ OtherCommand(c)
               \/ Timeout(c)
        PROVE  Moved
    <2>1. UNCHANGED <<state, currentTerm, log, saved>>
      BY <1>2 DEF ClientCommand, OtherCommand, Timeout, roleVars
    <2>2. Spend("requests") \/ Spend("faults")
      BY <1>2 DEF ClientCommand, OtherCommand, Timeout
    <2>3. used'.elections = used.elections
      <3>1. used.elections \in Nat
        BY DEF TypeOK
      <3> QED
        BY <2>2, <3>1, SpendType
    <2> QED
      BY <2>1, <2>3, QuietMoved
  <1>3. ASSUME NEW n \in Node, HearVote(n) PROVE Moved
    <2>1. PICK k \in Node :
             /\ currentTerm[k] > currentTerm[n]
             /\ currentTerm' = [currentTerm EXCEPT ![n] = currentTerm[k]]
      BY <1>3 DEF HearVote
    <2>2. /\ state' = [state EXCEPT ![n] = "FOLLOWER"] /\ log' = log
          /\ used' = used /\ Save({n})
      BY <1>3 DEF HearVote
    <2> QED
      BY <2>1, <2>2, DemoteMoved
  <1>4. ASSUME NEW n \in Node, HearLeader(n) PROVE Moved
    BY <1>0, <1>4, HearLeaderMoved
  <1>5. CASE UNCHANGED vars
    BY <1>5, QuietMoved DEF vars, roleVars
  <1> QED
    BY <1>1, <1>2, <1>3, <1>4, <1>5 DEF Next

\* A prefix that lasts goes on to do so.
LEMMA LastsMoved ==
    ASSUME TypeOK, TypeOK', Moved, NEW p \in Seq(Entry), NEW Q \in SUBSET Node,
           NEW S \in SUBSET Q, Lasts(p, Q, S)
    PROVE  Lasts(p, Q, S)'
  <1>1. \A n \in Node : /\ log[n] \in Seq(Entry) /\ log'[n] \in Seq(Entry)
                        /\ saved'[n].log \in {saved[n].log, log'[n]}
    BY DEF TypeOK, Moved
  <1>2. ASSUME NEW n \in Node, Newest(n) PROVE Starts(log'[n], p)
    <2>1. Starts(log[n], p) /\ Starts(log'[n], log[n])
      BY <1>2 DEF Lasts, Moved, Newest
    <2> QED
      BY <1>1, <2>1, StartsTrans
  <1>3. ASSUME used.elections = 0, NEW n \in Node
        PROVE  /\ UpToDate(log'[n], p) => Starts(log'[n], p)
               /\ Starts(log[n], p) => Starts(log'[n], p)
    <2>1. CASE log'[n] = log[n]
      BY <1>3, <2>1 DEF Lasts
    <2>2. CASE log'[n] # log[n]
      <3>1. PICK l \in Node : Newest(l) /\ Follows(n, l)
        BY <1>3, <2>2 DEF Moved
      <3>2. Starts(log'[l], p) /\ Starts(log'[l], log'[n]) /\ Starts(log[l], p)
        BY <1>2, <3>1 DEF Follows, Lasts
      <3>3. EndsNewest(p)
        BY DEF Lasts
      <3>4. UpToDate(log'[n], p) => Starts(log'[n], p)
        BY <1>1, <3>2, <3>3, UpToDateStarts
      <3> QED
        BY <3>1, <3>2, <3>4 DEF Follows
    <2> QED
      BY <2>1, <2>2
  <1>4. ASSUME used.elections = 0, NEW n \in Node
        PROVE  UpToDate(saved'[n].log, p) => Starts(saved'[n].log, p)
    BY <1>1, <1>3, <1>4 DEF Lasts
  <1>5. ASSUME used.elections = 0
        PROVE  /\ \A k \in Q : Starts(log'[k], p)
               /\ \A k \in S : Starts(saved'[k].log, p)
    <2>1. \A k \in Q : Starts(log'[k], p)
      BY <1>3, <1>5 DEF Lasts
    <2> QED
      BY <1>1, <1>5, <2>1 DEF Lasts
  <1>6. EndsNewest(p)' /\ \A n \in Node : Newest(n)' => Starts(log'[n], p)
    BY <1>2 DEF Lasts, Moved, EndsNewest
  <1>7. used'.elections = used.elections
    BY DEF Moved
  <1> QED
    BY <1>3, <1>4, <1>5, <1>6, <1>7 DEF Lasts, Starts, UpToDate, LastTerm

LEMMA OfLeaderMoved ==
    ASSUME TypeOK, TypeOK', Roles, Moved, OfLeader
    PROVE  OfLeader'
  <1>1. \A n \in Node : /\ log[n] \in Seq(Entry) /\ log'[n] \in Seq(Entry)
                        /\ saved[n].log \in Seq(Entry)
                        /\ saved'[n].log \in {saved[n].log, log'[n]}
    BY DEF TypeOK, Moved
  <1>2. ASSUME used.elections = 0, NEW l \in Node, Newest(l), NEW n \in Node
        PROVE  /\ LastTerm(log'[n]) = currentTerm'[l] => Starts(log'[l], log'[n])
               /\ LastTerm(saved'[n].log) = currentTerm'[l] =>
                     Starts(log'[l], saved'[n].log)
    <2>1. Starts(log'[l], log[l]) /\ currentTerm'[l] = currentTerm[l]
      BY <1>2 DEF Moved, Newest
    <2>2. ASSUME NEW lg \in Seq(Entry), Starts(log[l], lg) PROVE Starts(log'[l], lg)
      BY <1>1, <2>1, <2>2, StartsTrans
    <2>3. LastTerm(log'[n]) = currentTerm'[l] => Starts(log'[l], log'[n])
      <3>1. CASE log'[n] = log[n]
        BY <1>1, <1>2, <2>1, <2>2, <3>1 DEF OfLeader
      <3>2. CASE log'[n] # log[n]
        <4>1. PICK m \in Node : Newest(m) /\ Follows(n, m)
          BY <1>2, <3>2 DEF Moved
        <4>2. m = l
          BY <1>2, <4>1, OneNewest
        <4> QED
          BY <4>1, <4>2 DEF Follows
      <3> QED
        BY <3>1, <3>2
    <2>4. LastTerm(saved[n].log) = currentTerm'[l] => Starts(log'[l], saved[n].log)
      BY <1>1, <1>2, <2>1, <2>2 DEF OfLeader
    <2> QED
      BY <1>1, <2>3, <2>4
  <1>3. used'.elections = used.elections /\ \A n \in Node : Newest(n)' <=> Newest(n)
    BY DEF Moved
  <1> QED
    BY <1>2, <1>3 DEF OfLeader, Starts, LastTerm

LEMMA LastsElect ==
    ASSUME TypeOK, TypeOK', LogsEndNewest, NEW n \in Node, NEW P \in Quorum, Elect(n, P),
           used.elections = 0, NEW p \in Seq(Entry), NEW Q \in Quorum,
           NEW S \in SUBSET Q, Lasts(p, Q, S)
    PROVE  Lasts(p, Q, S)'
  <1>1. /\ log' = log /\ \A k \in Node : log[k] \in Seq(Entry)
        /\ \A k \in Node : saved'[k].log \in {saved[k].log, log[k]}
        /\ P \subseteq Node /\ Q \subseteq Node
    BY DEF Elect, Save, TypeOK, Quorum
  <1>2. /\ EndsNewest(p)
        /\ \A k \in Node : /\ UpToDate(log[k], p) => Starts(log[k], p)
                           /\ UpToDate(saved[k].log, p) => Starts(saved[k].log, p)
        /\ \A k \in Q : Starts(log[k], p)
        /\ \A k \in S : Starts(saved[k].log, p)
    BY DEF Lasts
  <1>3. Starts(log[n], p)
    <2>1. PICK k \in Node : k \in P /\ k \in Q
      BY QuorumsMeet
    <2>2. UpToDate(log[k], p) /\ UpToDate(log[n], log[k])
      BY <1>1, <1>2, <2>1, StartTerm DEF LogsEndNewest, Elect
    <2>3. UpToDate(log[n], p)
      BY <1>1, <2>2, UpToDateTrans
    <2> QED
      BY <1>2, <2>3
  <1>4. \A k \in Node : Newest(k)' => k = n
    <2>1. Elected(n, P)
      BY ElectMoves
    <2>2. \A k \in Node : currentTerm'[k] \in Nat
      BY DEF TypeOK
    <2> QED
      BY <2>1, <2>2 DEF Elected, Newest
  <1>5. \A k \in Node : Newest(k)' => Starts(log[k], p)
    BY <1>3, <1>4
  <1>6. /\ \A k \in Node : UpToDate(saved'[k].log, p) => Starts(saved'[k].log, p)
        /\ \A k \in S : Starts(saved'[k].log, p)
    BY <1>1, <1>2
  <1>7. \A k \in Node : UpToDate(log'[k], p) => Starts(log'[k], p)
    BY <1>1, <1>2
  <1> QED
    BY <1>1, <1>2, <1>5, <1>6, <1>7 DEF Lasts, EndsNewest, Starts, UpToDate, LastTerm

LEMMA LastTermBound ==
    ASSUME NEW lg \in Seq(Entry), NEW t \in Nat,
           \A i \in 1 .. Len(lg) : lg[i].term <= t
    PROVE  LastTerm(lg) <= t
  <1>1. Len(lg) \in Nat /\ (Len(lg) > 0 => Len(lg) \in 1 .. Len(lg))
    BY LastTermAt
  <1> QED
    BY <1>1, LastTermAt

\* Nothing has entries of the new leader's term yet.
LEMMA OfLeaderElect ==
    ASSUME TypeOK, TypeOK', EntryTerms, SavedBehind, NEW n \in Node, NEW P \in Quorum,
           Elect(n, P)
    PROVE  OfLeader'
  <1>1. Elected(n, P)
    BY ElectMoves
  <1>2. \A k \in Node : /\ log[k] \in Seq(Entry) /\ saved[k].log \in Seq(Entry)
                        /\ currentTerm[k] \in Nat /\ currentTerm'[k] \in Nat
                        /\ saved[k].term \in Nat
                        /\ log'[k] = log[k]
                        /\ saved'[k].log \in {saved[k].log, log[k]}
    BY DEF Elect, Save, TypeOK
  <1>3. ASSUME NEW k \in Node
        PROVE  LastTerm(log[k]) <= currentTerm[k] /\ LastTerm(saved[k].log) <= currentTerm[k]
    <2>2. LastTerm(log[k]) <= currentTerm[k] /\ LastTerm(saved[k].log) <= saved[k].term
      BY <1>2, LastTermBound DEF EntryTerms
    <2>3. LastTerm(saved[k].log) \in Nat /\ saved[k].term <= currentTerm[k]
      BY <1>2, LastTermAt DEF SavedBehind
    <2> QED
      BY <1>2, <2>2, <2>3
  <1>4. \A l \in Node : Newest(l)' => l = n
    BY <1>1, <1>2 DEF Elected, Newest
  <1>5. ASSUME NEW k \in Node
        PROVE  LastTerm(log'[k]) # currentTerm'[n] /\ LastTerm(saved'[k].log) # currentTerm'[n]
    <2>1. /\ LastTerm(log[k]) \in Nat /\ LastTerm(saved[k].log) \in Nat
          /\ currentTerm[k] < currentTerm'[n]
      BY <1>1, <1>2, LastTermAt DEF Elected
    <2>2. LastTerm(log[k]) # currentTerm'[n] /\ LastTerm(saved[k].log) # currentTerm'[n]
      BY <1>2, <1>3, <2>1
    <2> QED
      BY <1>2, <2>2
  <1> QED
    BY <1>4, <1>5 DEF OfLeader, LastTerm

LEMMA LastsRestart ==
    ASSUME Restart, NEW p \in Seq(Entry), NEW Q \in SUBSET Node,
           used.elections = 0, Lasts(p, Q, Q)
    PROVE  Lasts(p, Q, Q)'
  <1>1. \A n \in Node : /\ log'[n] = saved[n].log /\ saved'[n].log = saved[n].log
                        /\ state'[n] = "FOLLOWER"
    BY DEF Restart
  <1>2. \A n \in Node : ~Newest(n)'
    BY <1>1 DEF Newest
  <1>3. \A n \in Node : UpToDate(saved[n].log, p) => Starts(saved[n].log, p)
    BY DEF Lasts
  <1>4. \A k \in Q : Starts(saved[k].log, p)
    BY DEF Lasts
  <1>5. EndsNewest(p)' /\ (\A n \in Node : Newest(n)' => Starts(log'[n], p))
    BY <1>2 DEF Lasts, EndsNewest
  <1>6. \A n \in Node : /\ UpToDate(log'[n], p) => Starts(log'[n], p)
                        /\ UpToDate(saved'[n].log, p) => Starts(saved'[n].log, p)
    BY <1>1, <1>3
  <1>7. /\ \A k \in Q : Starts(log'[k], p)
        /\ \A k \in Q : Starts(saved'[k].log, p)
    BY <1>1, <1>4
  <1> QED
    BY <1>5, <1>6, <1>7 DEF Lasts, EndsNewest, Starts, UpToDate, LastTerm

LEMMA StraySaves ==
    ASSUME NEW h, SendsOn(h)
    PROVE  (\E S : Save(S)) /\ UNCHANGED <<state, currentTerm, cache>>
  BY DEF SendsOn, ReplicateDeposed

\* Files take what their nodes have after the step.
LEMMA FilesSaved ==
    ASSUME [Next]_vars
    PROVE  saved' = saved \/ \E S : Save(S)
  BY StraySaves DEF Next, vars, HandlerStep, ClientCommand, OtherCommand, Timeout, Receive,
         CheckCommand, AppendEntry, Replicate, NotReplicated, StepDown, Commit,
         NotCommitted, PersistAndReply, Elect, HearVote, HearLeader, Restart

LEMMA NextSaved ==
    ASSUME TypeOK, TypeOK', SavedBehind, [Next]_vars
    PROVE  SavedBehind'
  <1>1. \A n \in Node : /\ currentTerm[n] \in Nat /\ currentTerm'[n] \in Nat
                        /\ saved[n].term \in Nat
    BY DEF TypeOK
  <1>2. CASE Restart
    <2>1. \A n \in Node : currentTerm'[n] = saved[n].term /\ saved'[n].term = saved[n].term
      BY <1>2 DEF Restart
    <2> QED
      BY <1>1, <2>1 DEF SavedBehind
  <1>3. ASSUME \A n \in Node : currentTerm[n] <= currentTerm'[n],
               saved' = saved \/ \E S : Save(S)
        PROVE  SavedBehind'
    <2>1. \A n \in Node : saved'[n].term \in {saved[n].term, currentTerm'[n]}
      BY <1>3 DEF Save
    <2> QED
      BY <1>1, <1>3, <2>1 DEF SavedBehind
  <1>4. CASE currentTerm' = currentTerm /\ (saved' = saved \/ \E S : Save(S))
    BY <1>1, <1>3, <1>4
  <1>5. ASSUME NEW n \in Node, NEW k \in Node, NEW S, Save(S),
               currentTerm[k] > currentTerm[n],
               currentTerm' = [currentTerm EXCEPT ![n] = currentTerm[k]]
        PROVE  SavedBehind'
    <2>1. currentTerm \in [Node -> Nat]
      BY DEF TypeOK
    <2>2. \A m \in Node : currentTerm[m] <= currentTerm'[m]
      BY <1>1, <1>5, <2>1
    <2> QED
      BY <1>3, <1>5, <2>2
  <1>6. ASSUME NEW n \in Node, NEW Q \in Quorum, Elect(n, Q)
        PROVE  SavedBehind'
    <2>1. PICK m \in Node :
             /\ \A k \in Node : currentTerm[m] >= currentTerm[k]
             /\ currentTerm' = [k \in Node |-> IF k \in Q THEN currentTerm[m] + 1
                                               ELSE currentTerm[k]]
      BY <1>6 DEF Elect
    <2>2. \A k \in Node : currentTerm[k] <= currentTerm'[k]
      BY <1>1, <2>1
    <2>3. Save(Q)
      BY <1>6 DEF Elect
    <2> QED
      BY <1>3, <2>2, <2>3
  <1>7. ASSUME NEW h \in handlers, StepDown(h)
        PROVE  SavedBehind'
    <2>1. h.node \in Node /\ Save({h.node})
      BY <1>7, HandlerAt DEF StepDown
    <2>2. PICK k \in Node :
             /\ currentTerm[k] > currentTerm[h.node]
             /\ currentTerm' = [currentTerm EXCEPT ![h.node] = currentTerm[k]]
      BY <1>7 DEF StepDown
    <2> QED
      BY <1>5, <2>1, <2>2
  <1>8. ASSUME NEW n \in Node, HearVote(n)
        PROVE  SavedBehind'
    <2>1. Save({n})
      BY <1>8 DEF HearVote
    <2>2. PICK k \in Node :
             /\ currentTerm[k] > currentTerm[n]
             /\ currentTerm' = [currentTerm EXCEPT ![n] = currentTerm[k]]
      BY <1>8 DEF HearVote
    <2> QED
      BY <1>5, <2>1, <2>2
  <1>9. \/ currentTerm' = currentTerm
        \/ \E h \in handlers : StepDown(h)
        \/ \E n \in Node : HearVote(n) \/ \E Q \in Quorum : Elect(n, Q)
        \/ Restart
    BY StraySaves DEF Next, vars, roleVars, HandlerStep, ClientCommand, OtherCommand, Timeout, Receive,
           CheckCommand, AppendEntry, Replicate, NotReplicated, Commit, NotCommitted,
           PersistAndReply, HearLeader
  <1> QED
    BY <1>2, <1>4, <1>6, <1>7, <1>8, <1>9, FilesSaved

LEMMA NextLeft ==
    ASSUME TypeOK, TypeOK', Core, LeaderLeft, Tested, [Next]_vars
    PROVE  LeaderLeft'
  <1> SUFFICES ASSUME used'.elections = 1, used'.restarts = 0
               PROVE  \E n \in Node : Newest(n)'
    BY DEF LeaderLeft, Newest
  <1>1. CASE Restart
    <2>1. used'.restarts = used.restarts + 1 /\ used.restarts \in Nat
      BY <1>1, SpendType DEF Restart, TypeOK
    <2> QED
      BY <2>1
  <1>2. CASE Moved
    <2>1. used.restarts = 0
      <3>1. used.restarts <= used'.restarts /\ used.restarts \in Nat
        BY UsedGrows DEF TypeOK
      <3> QED
        BY <3>1
    <2> QED
      BY <1>2, <2>1 DEF Moved, LeaderLeft
  <1>3. CASE \E n \in Node, Q \in Quorum : Elect(n, Q)
    BY <1>3, ElectMoves DEF Elected
  <1> QED
    BY <1>1, <1>2, <1>3, StepMoves

LEMMA SteadyElect ==
    ASSUME TypeOK, LeaderLeft, NEW n \in Node, NEW P \in Quorum, Elect(n, P), Steady'
    PROVE  used.elections = 0
  <1>1. used.elections \in Nat /\ used.restarts \in Nat
    BY DEF TypeOK
  <1>2. CASE NoLeader
    <2>1. used' = used
      BY <1>2 DEF Elect
    <2>2. ~(used.elections = 1 /\ used.restarts = 0)
      BY <1>2 DEF LeaderLeft, Newest, NoLeader
    <2> QED
      BY <2>1, <2>2 DEF Steady
  <1>3. CASE ~NoLeader
    <2>1. used'.elections = used.elections + 1
      BY <1>1, <1>3, SpendType DEF Elect
    <2> QED
      BY <1>1, <2>1 DEF Steady
  <1> QED
    BY <1>2, <1>3

LEMMA LastsStay ==
    ASSUME TypeOK, TypeOK', Core, LogsEndNewest, LeaderLeft, Tested, [Next]_vars, Steady',
           NEW p \in Seq(Entry), NEW Q \in Quorum, NEW S \in SUBSET Q, Lasts(p, Q, S),
           Restart => S = Q /\ used.elections = 0
    PROVE  Lasts(p, Q, S)'
  <1>1. Q \in SUBSET Node
    BY DEF Quorum
  <1>2. CASE Moved
    BY <1>1, <1>2, LastsMoved
  <1>3. ASSUME NEW n \in Node, NEW P \in Quorum, Elect(n, P)
        PROVE  Lasts(p, Q, S)'
    BY <1>3, SteadyElect, LastsElect
  <1>4. CASE Restart
    BY <1>1, <1>4, LastsRestart
  <1> QED
    BY <1>2, <1>3, <1>4, StepMoves

\* What a handler has replicated lasts; the files of other nodes have it.
HandlerLasts(h) ==
    \E p \in Seq(Entry), Q \in Quorum :
        /\ Len(p) = h.index + 1 /\ p[h.index + 1].req = h.req
        /\ h.node \in Q /\ Lasts(p, Q, Q \ {h.node})
        /\ state[h.node] = "LEADER" => Starts(log[h.node], p)
HandlersLast ==
    Steady => \A h \in handlers : h.pc \in {"commit", "persist"} => HandlerLasts(h)

\* What was executed lasts within a process.
ExecutedLast ==
    used.restarts = 0 /\ used.elections <= 1 => \A x \in executed :
        \E p \in Seq(Entry), Q \in Quorum :
            Lasts(p, Q, {}) /\ x.index < Len(p) /\ p[x.index + 1] = x.entry

LEMMA HandlerStays ==
    ASSUME TypeOK, TypeOK', Core, LogsEndNewest, LeaderLeft, Tested, [Next]_vars, Steady',
           ~Restart, NEW h \in handlers, HandlerLasts(h)
    PROVE  HandlerLasts(h)'
  <1>1. PICK p \in Seq(Entry), Q \in Quorum :
           /\ Len(p) = h.index + 1 /\ p[h.index + 1].req = h.req
           /\ h.node \in Q /\ Lasts(p, Q, Q \ {h.node})
           /\ state[h.node] = "LEADER" => Starts(log[h.node], p)
    BY DEF HandlerLasts
  <1>2. Lasts(p, Q, Q \ {h.node})'
    BY <1>1, LastsStay
  <1>3. ASSUME state'[h.node] = "LEADER" PROVE Starts(log'[h.node], p)
    <2>1. h.node \in Node /\ log[h.node] \in Seq(Entry) /\ log'[h.node] \in Seq(Entry)
      BY HandlerAt DEF TypeOK
    <2>2. CASE Moved
      <3>1. state[h.node] = "LEADER" /\ Starts(log'[h.node], log[h.node])
        BY <1>3, <2>1, <2>2 DEF Moved
      <3> QED
        BY <1>1, <2>1, <3>1, StartsTrans
    <2>3. ASSUME NEW n \in Node, NEW P \in Quorum, Elect(n, P)
          PROVE  Starts(log'[h.node], p)
      <3>1. Elected(n, P)
        BY <2>3, ElectMoves
      <3>2. CASE h.node = n
        BY <1>2, <2>1, <3>1, <3>2 DEF Elected, Lasts
      <3>3. CASE h.node # n
        <4>1. state[h.node] = "LEADER" /\ log' = log
          BY <1>3, <2>1, <3>1, <3>3 DEF Elected
        <4> QED
          BY <1>1, <4>1
      <3> QED
        BY <3>2, <3>3
    <2> QED
      BY <2>2, <2>3, StepMoves
  <1> QED
    BY <1>1, <1>2, <1>3 DEF HandlerLasts, Starts

\* A majority has the leader's log up to the handler's entry.
LEMMA ReplicatedLasts ==
    ASSUME TypeOK, TypeOK', Roles, EntryTerms, EntryTerms', SavedBehind', OfLeader',
           NEW h \in handlers, NEW Q \in Quorum, Replicate(h, Q), Own(h),
           NEW g, g.node = h.node, g.index = h.index, g.req = h.req
    PROVE  HandlerLasts(g)'
  <1> DEFINE n == h.node
             i == h.index
  <1>1. /\ n \in Node /\ i \in Nat /\ Newest(n) /\ n \in Q /\ Q \subseteq Node
        /\ UNCHANGED <<state, currentTerm, used>> /\ Save(Q \ {n})
    BY HandlerAt, OnlyNewestReplicates DEF Replicate, Quorum, Handler
  <1>2. /\ i < Len(log[n]) /\ Len(log[n]) \in Nat
        /\ log[n][i + 1].term = currentTerm[n] /\ log[n][i + 1].req = h.req
    BY <1>1, LastTermAt DEF Own, TypeOK
  <1>3. \A k \in Node : /\ log[k] \in Seq(Entry) /\ log'[k] \in Seq(Entry)
                        /\ saved'[k].log \in Seq(Entry)
                        /\ currentTerm[k] \in Nat /\ saved'[k].term \in Nat
                        /\ currentTerm[k] <= currentTerm[n]
    BY <1>1 DEF TypeOK, Newest
  <1>4. PICK p \in Seq(Entry) : /\ Len(p) = i + 1
                                 /\ \A j \in 1 .. i + 1 : p[j] = log[n][j]
    <2> DEFINE q == SubSeq(log[n], 1, Smaller(i + 1, Len(log[n])))
    <2>1. Smaller(i + 1, Len(log[n])) = i + 1
      BY <1>1, <1>2 DEF Smaller
    <2>2. q \in Seq(Entry) /\ Len(q) = i + 1 /\ \A j \in 1 .. i + 1 : q[j] = log[n][j]
      BY <1>1, <1>3, <2>1, PrefixType
    <2> QED
      BY <2>2
  <1>5. /\ log'[n] = log[n]
        /\ \A k \in Q : i < Len(log'[k]) /\ \A j \in 1 .. i + 1 : log'[k][j] = log[n][j]
    BY <1>2, ReplicateLogs
  <1>6. /\ i + 1 \in 1 .. i + 1 /\ i + 1 \in 1 .. Len(log[n])
        /\ \A j \in 1 .. i + 1 : j \in 1 .. Len(log[n])
    BY <1>1, <1>2
  <1>7. LastTerm(p) = currentTerm[n] /\ p[i + 1].req = h.req
    <2>1. LastTerm(p) = p[i + 1].term
      BY <1>1, <1>4, LastTermAt
    <2> QED
      BY <1>2, <1>4, <1>6, <2>1
  <1>8. EndsNewest(p)
    <2>1. \A j \in 1 .. i + 1 : p[j].term <= currentTerm[n]
      BY <1>1, <1>4, <1>6 DEF EntryTerms
    <2> QED
      BY <1>4, <1>7, <2>1 DEF EndsNewest
  <1>9. Starts(log'[n], p)
    BY <1>1, <1>2, <1>4, <1>5 DEF Starts
  <1>10. \A k \in Q : Starts(log'[k], p)
    <2>1. \A k \in Q : Len(p) <= Len(log'[k])
      <3>1. \A k \in Q : Len(log'[k]) \in Nat
        BY <1>1, <1>3, LastTermAt
      <3> QED
        BY <1>1, <1>4, <1>5, <3>1
    <2> QED
      BY <1>4, <1>5, <2>1 DEF Starts
  <1>11. \A k \in Q \ {n} : saved'[k].log = log'[k]
    BY <1>1 DEF Save
  <1>12. Newest(n)' /\ \A m \in Node : Newest(m)' => m = n
    <2>1. \A m \in Node : Newest(m)' <=> Newest(m)
      BY <1>1 DEF Newest
    <2> QED
      BY <1>1, <2>1, OneNewest
  <1>13. ASSUME used.elections = 0, NEW lg \in Seq(Entry), UpToDate(lg, p),
                LastTerm(lg) <= currentTerm[n],
                LastTerm(lg) = currentTerm[n] => Starts(log'[n], lg)
         PROVE  Starts(lg, p)
    <2>1. LastTerm(lg) = currentTerm[n]
      <3>1. LastTerm(lg) \in Nat /\ LastTerm(lg) >= LastTerm(p)
        BY <1>1, <1>3, <1>7, <1>13, LastTermAt DEF UpToDate
      <3> QED
        BY <1>1, <1>3, <1>7, <1>13, <3>1
    <2>2. log'[n] \in Seq(Entry)
      BY <1>1, <1>3
    <2> QED
      BY <1>4, <1>8, <1>9, <1>13, <2>1, <2>2, UpToDateStarts
  <1>14. ASSUME used.elections = 0, NEW k \in Node
         PROVE  /\ UpToDate(log'[k], p) => Starts(log'[k], p)
                /\ UpToDate(saved'[k].log, p) => Starts(saved'[k].log, p)
    <2>1. /\ LastTerm(log'[k]) = currentTerm[n] => Starts(log'[n], log'[k])
          /\ LastTerm(saved'[k].log) = currentTerm[n] => Starts(log'[n], saved'[k].log)
      BY <1>1, <1>12, <1>14 DEF OfLeader, Starts, LastTerm
    <2>2. LastTerm(log'[k]) <= currentTerm[k] /\ LastTerm(saved'[k].log) <= saved'[k].term
      <3>1. /\ \A j \in 1 .. Len(log'[k]) : log'[k][j].term <= currentTerm[k]
            /\ \A j \in 1 .. Len(saved'[k].log) : saved'[k].log[j].term <= saved'[k].term
        BY <1>1 DEF EntryTerms
      <3> QED
        BY <1>3, <3>1, LastTermBound
    <2>3. saved'[k].term <= currentTerm[k]
      BY <1>1 DEF SavedBehind
    <2>4. LastTerm(log'[k]) \in Nat /\ LastTerm(saved'[k].log) \in Nat
      BY <1>3, LastTermAt
    <2>5. LastTerm(log'[k]) <= currentTerm[n] /\ LastTerm(saved'[k].log) <= currentTerm[n]
      BY <1>1, <1>3, <2>2, <2>3, <2>4
    <2> QED
      BY <1>3, <1>13, <1>14, <2>1, <2>5
  <1>15. Lasts(p, Q, Q \ {n})'
    BY <1>1, <1>8, <1>9, <1>10, <1>11, <1>12, <1>14
       DEF Lasts, EndsNewest, Starts, UpToDate, LastTerm
  <1> QED
    BY <1>1, <1>4, <1>7, <1>9, <1>15 DEF HandlerLasts, Starts

\* The handlers of the next state that have replicated or committed.
LEMMA HandlerFrom ==
    ASSUME TypeOK, Tested, NEW h \in handlers, HandlerStep(h), NEW g \in handlers',
           g \notin handlers, g.pc \in {"commit", "persist"}
    PROVE  /\ g.req = h.req /\ g.index = h.index /\ g.node = h.node
           /\ Commit(h) \/ \E Q \in Quorum : Replicate(h, Q)
  <1>1. h \in Handler
    BY DEF TypeOK
  <1>2. CASE Commit(h)
    <2>1. PICK result \in Result :
             Advance(h, [h EXCEPT !.pc = "persist", !.result = result])
      BY <1>2, CommitCalls
    <2>2. g = [h EXCEPT !.pc = "persist", !.result = result]
      BY <2>1 DEF Advance
    <2> QED
      BY <1>1, <1>2, <2>2 DEF Handler
  <1>3. ASSUME NEW Q \in Quorum, Replicate(h, Q)
        PROVE  g.req = h.req /\ g.index = h.index /\ g.node = h.node
    <2>1. g = [h EXCEPT !.pc = "commit"]
      BY <1>3 DEF Replicate, Go
    <2> QED
      BY <1>1, <2>1 DEF Handler
  <1>4. CASE ~Commit(h) /\ ~\E Q \in Quorum : Replicate(h, Q)
    <2>1. ~CallsMove
      BY DEF CallsMove
    <2>2. ASSUME NEW p \in {"command", "append"}, Advance(h, [h EXCEPT !.pc = p])
          PROVE  FALSE
      BY <1>1, <2>2 DEF Advance, Handler
    <2>3. ~Receive(h) /\ ~CheckCommand(h)
      BY <2>1, <2>2, ReceiveCalls, CheckCalls
    <2>4. ~AppendEntry(h)
      BY <1>1 DEF AppendEntry, Handler
    <2>5. ~NotReplicated(h) /\ ~StepDown(h) /\ ~NotCommitted(h) /\ ~PersistAndReply(h)
      BY ZenonT(40), <2>1, StatusType, ReplyMoves
         DEF NotReplicated, StepDown, NotCommitted, PersistAndReply
    <2> QED
      BY <1>4, <2>3, <2>4, <2>5 DEF HandlerStep, Tested
  <1> QED
    BY <1>2, <1>3, <1>4

\* Other steps leave handlers alone, add calls, or end them all.
LEMMA OtherHandlers ==
    ASSUME TypeOK, LiveNumbered, [Next]_vars, ~\E h \in handlers : HandlerStep(h)
    PROVE  \A g \in handlers' : g \in handlers \/ g.pc = "received"
  <1>1. ASSUME NEW c \in Client, Timeout(c)
        PROVE  \A g \in handlers' : g \in handlers \/ g.pc = "received"
    BY <1>1, TimeoutMoves DEF CallsMove
  <1>2. ASSUME NEW c \in Client, NEW op \in Op, NEW n \in Node, ClientCommand(c, op, n)
        PROVE  \A g \in handlers' : g \in handlers \/ g.pc = "received"
    BY <1>2, NewRequest
  <1>3. \/ handlers' = handlers \/ handlers' = {}
        \/ \E c \in Client : \/ Timeout(c)
                             \/ \E op \in Op, n \in Node : ClientCommand(c, op, n)
    BY DEF Next, vars, OtherCommand, Elect, HearVote, HearLeader, Restart
  <1> QED
    BY <1>1, <1>2, <1>3

\* Steadiness is lost for good.
LEMMA SteadyBefore ==
    ASSUME TypeOK, [Next]_vars
    PROVE  /\ Steady' => Steady
           /\ used'.elections = 0 => used.elections = 0
           /\ used'.restarts = 0 => used.restarts = 0
           /\ used'.elections <= 1 => used.elections <= 1
           /\ Restart => used'.restarts > 0 /\ used'.elections = used.elections
  <1>1. /\ used.elections \in Nat /\ used.restarts \in Nat
        /\ used'.elections \in Nat /\ used'.restarts \in Nat
        /\ used.elections <= used'.elections /\ used.restarts <= used'.restarts
    BY UsedGrows DEF TypeOK
  <1>2. Restart => /\ used'.restarts = used.restarts + 1
                   /\ used'.elections = used.elections
    BY <1>1, SpendType DEF Restart
  <1> QED
    BY <1>1, <1>2 DEF Steady

LEMMA NextHandlersLast ==
    ASSUME TypeOK, TypeOK', LiveNumbered, Core, EntryTerms, EntryTerms', LogsEndNewest,
           SavedBehind', LeaderLeft, OfLeader', HandlersLast, Tested, [Next]_vars
    PROVE  HandlersLast'
  <1> SUFFICES ASSUME Steady', NEW g \in handlers', g.pc \in {"commit", "persist"}
               PROVE  HandlerLasts(g)'
    BY DEF HandlersLast
  <1>1. \A h \in handlers : h.pc \in {"commit", "persist"} => HandlerLasts(h)
    BY SteadyBefore DEF HandlersLast
  <1>2. ~Restart
    BY DEF Restart
  <1>3. CASE g \in handlers
    BY <1>1, <1>2, <1>3, HandlerStays
  <1>4. CASE g \notin handlers
    <2>1. PICK h \in handlers : HandlerStep(h)
      BY <1>4, OtherHandlers
    <2>2. /\ g.req = h.req /\ g.index = h.index /\ g.node = h.node
          /\ Commit(h) \/ \E Q \in Quorum : Replicate(h, Q)
      BY <1>4, <2>1, HandlerFrom
    <2>3. CASE Commit(h)
      <3>1. HandlerLasts(h)
        BY <1>1, <2>3 DEF Commit
      <3>2. HandlerLasts(h)'
        BY <1>2, <3>1, HandlerStays
      <3> QED
        BY <2>2, <3>2 DEF HandlerLasts
    <2>4. ASSUME NEW Q \in Quorum, Replicate(h, Q)
          PROVE  HandlerLasts(g)'
      <3>1. Roles /\ h.pc = "replicate" /\ Newest(h.node)
        BY <2>4, OnlyNewestReplicates DEF Core, Replicate
      <3>2. Own(h)
        BY <3>1 DEF Core, PendingAtNewest
      <3> QED
        BY <2>2, <2>4, <3>1, <3>2, ReplicatedLasts
    <2> QED
      BY <2>2, <2>3, <2>4
  <1> QED
    BY <1>3, <1>4

\* What a handler commits is in the prefix it replicated.
LEMMA CommitsLasting ==
    ASSUME TypeOK, Core, NEW h \in handlers, Commit(h), NEW p \in Seq(Entry), NEW Q, NEW S,
           Lasts(p, Q, S), state[h.node] = "LEADER" => Starts(log[h.node], p)
    PROVE  Starts(log[h.node], p)
  <1>1. h.node \in Node
    BY HandlerAt
  <1>2. CASE Newest(h.node)
    BY <1>1, <1>2 DEF Lasts
  <1>3. CASE ~Newest(h.node)
    BY <1>3, OutlivedCommit
  <1> QED
    BY <1>2, <1>3

LEMMA LastsFewer ==
    ASSUME NEW p, NEW Q, NEW S, NEW T \in SUBSET S, Lasts(p, Q, S)
    PROVE  Lasts(p, Q, T)
  BY DEF Lasts

LEMMA NextExecutedLast ==
    ASSUME TypeOK, TypeOK', Core, LogsEndNewest, LeaderLeft, HandlersLast, ExecutedLast,
           Tested, [Next]_vars
    PROVE  ExecutedLast'
  <1> SUFFICES ASSUME used'.restarts = 0, used'.elections <= 1, NEW x \in executed'
               PROVE  \E p \in Seq(Entry), Q \in Quorum :
                         /\ Lasts(p, Q, {})'
                         /\ x.index < Len(p) /\ p[x.index + 1] = x.entry
    BY DEF ExecutedLast
  <1>1. used.restarts = 0 /\ used.elections <= 1 /\ Steady /\ Steady' /\ ~Restart
    <2>1. used.elections \in Nat /\ used'.elections \in Nat
      BY DEF TypeOK
    <2> QED
      BY <2>1, SteadyBefore DEF Steady
  <1>2. ASSUME NEW p \in Seq(Entry), NEW Q \in Quorum, NEW S \in SUBSET Q, Lasts(p, Q, S),
               x.index < Len(p) /\ p[x.index + 1] = x.entry
        PROVE  \E q \in Seq(Entry), P \in Quorum :
                  /\ Lasts(q, P, {})'
                  /\ x.index < Len(q) /\ q[x.index + 1] = x.entry
    <2>1. Lasts(p, Q, {})
      BY <1>2, LastsFewer
    <2>2. Lasts(p, Q, {})'
      BY <1>1, <2>1, LastsStay
    <2> QED
      BY <1>2, <2>2
  <1>3. CASE x \in executed
    BY <1>1, <1>2, <1>3 DEF ExecutedLast
  <1>4. CASE x \notin executed
    <2>1. PICK h \in handlers : Commit(h)
      BY <1>4, StraySpends DEF Next, vars, ClientCommand, OtherCommand, Timeout, HandlerStep, Receive,
         CheckCommand, AppendEntry, Replicate, NotReplicated, StepDown,
         NotCommitted, PersistAndReply, Elect, HearVote, HearLeader, Restart
    <2>2. PICK i \in lastApplied[h.node] + 1 .. h.index :
             /\ x.index = i /\ x.entry = log[h.node][i + 1]
      BY <1>4, <2>1 DEF Commit
    <2>3. h.node \in Node /\ h.index \in Nat /\ lastApplied[h.node] \in Nat
      BY HandlerAt DEF TypeOK
    <2>4. PICK p \in Seq(Entry), Q \in Quorum :
             /\ Len(p) = h.index + 1
             /\ h.node \in Q /\ Lasts(p, Q, Q \ {h.node})
             /\ state[h.node] = "LEADER" => Starts(log[h.node], p)
      BY <1>1, <2>1 DEF HandlersLast, HandlerLasts, Commit
    <2>5. Starts(log[h.node], p)
      BY <2>1, <2>4, CommitsLasting
    <2>6. i < Len(p) /\ i + 1 \in 1 .. Len(p)
      BY <2>3, <2>4
    <2>7. p[i + 1] = log[h.node][i + 1]
      BY <2>5, <2>6 DEF Starts
    <2> QED
      BY <1>2, <2>2, <2>4, <2>6, <2>7
  <1> QED
    BY <1>3, <1>4

-----------------------------------------------------------------------------
(* Undisturbed: no call or entry is lost and no leader is replaced, so that  *)
(* no deposed leader sends on.                                               *)

Undisturbed == used.faults = 0 /\ used.elections = 0 /\ used.strays = 0

LEMMA StaysUndisturbed ==
    ASSUME TypeOK, [Next]_vars, Undisturbed'
    PROVE  Undisturbed /\ ~Spend("faults") /\ ~Spend("elections") /\ Tested
  <1>1. /\ used.faults \in Nat /\ used.elections \in Nat
        /\ used \in [requests : Nat, elections : Nat, faults : Nat, strays : Nat, restarts : Nat]
    BY DEF TypeOK
  <1>2. ASSUME NEW kind \in {"requests", "elections", "faults", "strays", "restarts"}, Spend(kind)
        PROVE  /\ used'.faults = used.faults + (IF kind = "faults" THEN 1 ELSE 0)
               /\ used'.elections = used.elections + (IF kind = "elections" THEN 1 ELSE 0)
    <2>1. used' = [used EXCEPT ![kind] = @ + 1]
      BY <1>2 DEF Spend
    <2>2. CASE kind \in {"requests", "strays", "restarts"}
      BY <1>1, <2>1, <2>2
    <2>3. CASE kind = "faults"
      BY <1>1, <2>1, <2>3
    <2>4. CASE kind = "elections"
      BY <1>1, <2>1, <2>4
    <2> QED
      BY <2>2, <2>3, <2>4
  <1>3. \/ used' = used
        \/ \E kind \in {"requests", "elections", "faults", "strays", "restarts"} : Spend(kind)
    BY StraySpends DEF Next, vars, ClientCommand, OtherCommand, Timeout, HandlerStep, Receive,
           CheckCommand, AppendEntry, Replicate, NotReplicated, StepDown, Commit,
           NotCommitted, PersistAndReply, Elect, HearVote, HearLeader, Restart
  <1>4. ~Spend("faults")
    <2> SUFFICES ASSUME Spend("faults") PROVE FALSE
      OBVIOUS
    <2>1. used'.faults = used.faults + 1
      BY <1>2
    <2> QED
      BY <1>1, <2>1 DEF Undisturbed
  <1>5. ~Spend("elections")
    <2> SUFFICES ASSUME Spend("elections") PROVE FALSE
      OBVIOUS
    <2>1. used'.elections = used.elections + 1
      BY <1>2
    <2> QED
      BY <1>1, <2>1 DEF Undisturbed
  <1>7. used.strays = 0
    <2>1. used.strays \in Nat /\ used.strays <= used'.strays
      BY UsedGrows DEF TypeOK
    <2> QED
      BY <2>1 DEF Undisturbed
  <1>8. Tested
    BY UndisturbedTested DEF Undisturbed
  <1>6. Undisturbed
    <2>1. CASE used' = used
      BY <2>1 DEF Undisturbed
    <2>2. ASSUME NEW kind \in {"requests", "elections", "faults", "strays", "restarts"}, Spend(kind)
          PROVE  Undisturbed
      <3>1. used.faults <= used'.faults /\ used.elections <= used'.elections
        BY <1>1, <1>2, <2>2
      <3> QED
        BY <1>1, <1>7, <3>1 DEF Undisturbed
    <2> QED
      BY <1>3, <2>1, <2>2
  <1> QED
    BY <1>4, <1>5, <1>6, <1>8

\* Each client has one handler, which it waits for.
Alone ==
    /\ \A h \in handlers : Awaited(h)
    /\ \A g, h \in handlers : g.req.client = h.req.client => g = h

\* A step of handler h leaves G in its place, and ends the call when that is
\* nothing.
Turn(h, G) ==
    /\ handlers' = (handlers \ {h}) \cup G
    /\ \A g \in G : g.req = h.req /\ Awaited(g)'
    /\ \A d \in Client \ {h.req.client} : session'[d] = session[d]
    /\ G = {} => session'[h.req.client] = Idle
Goes(h, g) == Turn(h, {g}) /\ answers' = answers
Retried(h) == \E g : g.pc = "received" /\ Goes(h, g)
Closes(h, status) ==
    Turn(h, {}) /\ answers' = answers \cup {[req |-> h.req, status |-> status]}

LEMMA TryTurns ==
    ASSUME TypeOK, NEW h \in handlers, Awaited(h), NEW s \in Attempt, s.req = h.req,
           Try(h.req.client, s, handlers \ {h})
    PROVE  Retried(h) \/ Closes(h, "error")
  <1> DEFINE c == h.req.client
  <1>1. c \in Client /\ session[c].req = h.req /\ session \in [Client -> {Idle} \cup Waiting]
    BY AwaitedSession DEF TypeOK, Waiting
  <1>2. CASE s.attempts < N
    <2>1. session' = [session EXCEPT ![c] = s] /\ answers' = answers
          /\ handlers' = (handlers \ {h}) \cup {CallFrom(s)}
      BY <1>2 DEF Try
    <2>2. /\ CallFrom(s).req = h.req /\ CallFrom(s).attempt = s.attempts
          /\ CallFrom(s).pc = "received" /\ s.pc = "wait"
      BY DEF CallFrom, Attempt
    <2>3. session'[c] = s /\ \A d \in Client \ {c} : session'[d] = session[d]
      BY <1>1, <2>1
    <2>4. Awaited(CallFrom(s))'
      <3> DEFINE g == CallFrom(s)
      <3>1. g.req = h.req /\ g.attempt = s.attempts
        BY <2>2
      <3> HIDE DEF g
      <3> QED
        BY <2>2, <2>3, <3>1 DEF Awaited
    <2> QED
      BY <2>1, <2>2, <2>3, <2>4 DEF Retried, Goes, Turn
  <1>3. CASE ~(s.attempts < N)
    <2>1. /\ session' = [session EXCEPT ![c] = Idle]
          /\ handlers' = handlers \ {h}
          /\ answers' = answers \cup {[req |-> h.req, status |-> "error"]}
      BY <1>1, <1>3 DEF Try, Return
    <2>2. session'[c] = Idle /\ \A d \in Client \ {c} : session'[d] = session[d]
      BY <1>1, <2>1
    <2> QED
      BY <2>1, <2>2 DEF Closes, Turn
  <1> QED
    BY <1>2, <1>3

LEMMA ReplyTurns ==
    ASSUME TypeOK, NEW h \in handlers, Awaited(h), NEW status, Reply(h, status)
    PROVE  /\ status = "OK" => Closes(h, "OK")
           /\ status # "OK" => Retried(h) \/ Closes(h, "error")
  <1> DEFINE c == h.req.client
  <1>1. /\ c \in Client /\ session[c] \in Waiting /\ session[c].req = h.req
        /\ session \in [Client -> {Idle} \cup Waiting]
    BY AwaitedSession DEF TypeOK, Waiting
  <1>2. ASSUME status = "OK" PROVE Closes(h, "OK")
    <2>1. /\ session' = [session EXCEPT ![c] = Idle]
          /\ answers' = answers \cup {[req |-> h.req, status |-> "OK"]}
          /\ handlers' = handlers \ {h}
      BY <1>1, <1>2 DEF Reply, Return
    <2>2. session'[c] = Idle /\ \A d \in Client \ {c} : session'[d] = session[d]
      BY <1>1, <2>1
    <2> QED
      BY <2>1, <2>2 DEF Closes, Turn
  <1>3. ASSUME status # "OK" PROVE Retried(h) \/ Closes(h, "error")
    <2>1. PICK n \in Node : Try(c, Again(session[c], n), handlers \ {h})
      BY <1>3 DEF Reply
    <2> DEFINE s == Again(session[c], n)
    <2>2. s \in Attempt /\ s.req = h.req /\ Try(c, s, handlers \ {h})
      BY <1>1, <2>1, NextAttempt
    <2> HIDE DEF s
    <2> QED
      BY <2>2, TryTurns
  <1> QED
    BY <1>2, <1>3

LEMMA RedirectTurns ==
    ASSUME TypeOK, NEW h \in handlers, Awaited(h), Redirect(h)
    PROVE  Retried(h) \/ Closes(h, "error")
  <1> DEFINE c == h.req.client
  <1>1. c \in Client /\ session[c] \in Waiting /\ session[c].req = h.req
    BY AwaitedSession
  <1>2. PICK n \in Node : Try(c, [session[c] EXCEPT !.node = n], handlers \ {h})
    <2>1. (IF leaderId[h.node] = NoNode THEN Node ELSE {leaderId[h.node]}) \subseteq Node
      BY DEF TypeOK, Handler
    <2> QED
      BY <2>1 DEF Redirect
  <1> DEFINE s == [session[c] EXCEPT !.node = n]
  <1>3. s \in Attempt /\ s.req = h.req /\ Try(c, s, handlers \ {h})
    BY <1>1, <1>2, NextAttempt
  <1> HIDE DEF s
  <1> QED
    BY <1>3, TryTurns

LEMMA StepGoes ==
    ASSUME TypeOK, NEW h \in handlers, Awaited(h),
           NEW g, g.req = h.req, g.attempt = h.attempt,
           handlers' = (handlers \ {h}) \cup {g}, UNCHANGED <<session, answers>>
    PROVE  Goes(h, g)
  <1>1. Awaited(g)'
    BY DEF Awaited
  <1> QED
    BY <1>1 DEF Goes, Turn

\* The handlers that work do so for the newest leader, which has their entries.
LEMMA CalmHandler ==
    ASSUME TypeOK, Core, [Next]_vars, Undisturbed', NEW h \in handlers, Working(h)
    PROVE  /\ Newest(h.node) /\ state[h.node] = "LEADER"
           /\ ~NotReplicated(h) /\ ~StepDown(h) /\ ~NotCommitted(h)
  <1>1. Newest(h.node) /\ state[h.node] = "LEADER"
    BY StaysUndisturbed, OnlyNewestWorks DEF Undisturbed, Core, Newest
  <1>2. ~NotReplicated(h)
    BY Zenon, <1>1, StaysUndisturbed DEF NotReplicated
  <1>3. ~StepDown(h)
    <2>1. ~\E m \in Node : currentTerm[m] > currentTerm[h.node]
      <3>1. h.node \in Node /\ \A m \in Node : currentTerm[m] \in Nat
        BY HandlerAt DEF TypeOK
      <3>2. \A m \in Node : currentTerm[h.node] >= currentTerm[m]
        BY <1>1 DEF Newest
      <3> QED
        BY <3>1, <3>2
    <2> QED
      BY Zenon, <2>1 DEF StepDown
  <1>4. ~NotCommitted(h)
    <2>1. h.pc = "commit" => OfCurrentTerm(h)
      <3>1. h.pc = "commit" => Own(h)
        BY <1>1 DEF Core, PendingAtNewest
      <3> QED
        BY <3>1 DEF Own, OfCurrentTerm
    <2> QED
      BY Zenon, <2>1 DEF NotCommitted
  <1> QED
    BY <1>1, <1>2, <1>3, <1>4

\* How the calls go on.
CalmTurn(h) ==
    \/ h.pc = "received" /\ Receive(h) /\ (Retried(h) \/ Closes(h, "error"))
    \/ h.pc = "received" /\ Receive(h) /\ Goes(h, [h EXCEPT !.pc = "command"])
    \/ /\ h.pc = "command" /\ CheckCommand(h)
       /\ cache[h.node][h.req.client].id # h.req.id
       /\ Goes(h, [h EXCEPT !.pc = "append"])
    \/ /\ h.pc = "command" /\ CheckCommand(h)
       /\ cache[h.node][h.req.client].id = h.req.id
       /\ IF Status(h.req.op, cache[h.node][h.req.client].result) = "OK"
          THEN Closes(h, "OK") ELSE Retried(h) \/ Closes(h, "error")
    \/ /\ AppendEntry(h)
       /\ Goes(h, [h EXCEPT !.pc = "replicate", !.index = Len(log[h.node])])
    \/ /\ \E Q \in Quorum : Replicate(h, Q)
       /\ Goes(h, [h EXCEPT !.pc = "commit"])
    \/ /\ Commit(h)
       /\ \E result \in Result :
            /\ cache' = [cache EXCEPT ![h.node][h.req.client] =
                            [id |-> h.req.id, result |-> result]]
            /\ Goes(h, [h EXCEPT !.pc = "persist", !.result = result])
    \/ /\ h.pc = "persist" /\ PersistAndReply(h)
       /\ IF Status(h.req.op, h.result) = "OK"
          THEN Closes(h, "OK") ELSE Retried(h) \/ Closes(h, "error")

LEMMA CalmTurns ==
    ASSUME TypeOK, Core, [Next]_vars, Undisturbed', NEW h \in handlers, Awaited(h),
           HandlerStep(h)
    PROVE  CalmTurn(h)
  <1>1. h \in Handler /\ h \in handlers
    BY DEF TypeOK
  <1>2. ASSUME NEW p, Go(h, p)
        PROVE  Goes(h, [h EXCEPT !.pc = p])
    <2>1. [h EXCEPT !.pc = p].req = h.req /\ [h EXCEPT !.pc = p].attempt = h.attempt
      BY <1>1 DEF Handler
    <2> QED
      BY <1>2, <2>1, StepGoes DEF Go
  <1>3. CASE Receive(h)
    BY <1>2, <1>3, RedirectTurns DEF Receive, CalmTurn
  <1>4. CASE CheckCommand(h)
    <2>1. h.pc = "command" /\ state[h.node] = "LEADER"
      BY <1>4, CalmHandler DEF CheckCommand, Working
    <2>2. \/ /\ cache[h.node][h.req.client].id # h.req.id
             /\ Go(h, "append")
          \/ /\ cache[h.node][h.req.client].id = h.req.id
             /\ Reply(h, Status(h.req.op, cache[h.node][h.req.client].result))
      BY Zenon, <1>4, <2>1 DEF CheckCommand
    <2> QED
      BY <1>2, <1>4, <2>1, <2>2, ReplyTurns DEF CalmTurn
  <1>5. CASE AppendEntry(h)
    <2> DEFINE g == [h EXCEPT !.pc = "replicate", !.index = Len(log[h.node])]
    <2>1. g.req = h.req /\ g.attempt = h.attempt
      BY <1>1 DEF Handler
    <2>2. handlers' = (handlers \ {h}) \cup {g} /\ UNCHANGED <<session, answers>>
      BY <1>5 DEF AppendEntry, sessionVars
    <2> HIDE DEF g
    <2>3. Goes(h, g)
      BY <2>1, <2>2, StepGoes
    <2> QED
      BY <1>5, <2>3 DEF CalmTurn, g
  <1>6. ASSUME NEW Q \in Quorum, Replicate(h, Q) PROVE CalmTurn(h)
    <2>1. Goes(h, [h EXCEPT !.pc = "commit"])
      BY <1>2, <1>6 DEF Replicate
    <2> QED
      BY <1>6, <2>1 DEF CalmTurn
  <1>7. CASE Commit(h)
    <2>1. PICK result \in Result :
             /\ cache' = [cache EXCEPT ![h.node][h.req.client] =
                             [id |-> h.req.id, result |-> result]]
             /\ handlers' = (handlers \ {h}) \cup
                            {[h EXCEPT !.pc = "persist", !.result = result]}
      BY <1>7, CommitCalls DEF Advance
    <2> DEFINE g == [h EXCEPT !.pc = "persist", !.result = result]
    <2>2. g.req = h.req /\ g.attempt = h.attempt
      BY <1>1 DEF Handler
    <2>3. handlers' = (handlers \ {h}) \cup {g} /\ UNCHANGED <<session, answers>>
      BY <1>7, <2>1 DEF Commit, sessionVars
    <2> HIDE DEF g
    <2>4. Goes(h, g)
      BY <2>2, <2>3, StepGoes
    <2> QED
      BY <1>7, <2>1, <2>4 DEF CalmTurn, g
  <1>8. CASE PersistAndReply(h)
    <2>1. h.pc = "persist" /\ Reply(h, Status(h.req.op, h.result))
      BY <1>8 DEF PersistAndReply
    <2> QED
      BY <1>8, <2>1, ReplyTurns DEF CalmTurn
  <1>9. ~NotReplicated(h) /\ ~StepDown(h) /\ ~NotCommitted(h)
    <2>1. CASE h.pc = "received"
      BY Zenon, <2>1 DEF NotReplicated, StepDown, NotCommitted
    <2>2. CASE h.pc # "received"
      BY <2>2, CalmHandler DEF Working
    <2> QED
      BY <2>1, <2>2
  <1> QED
    BY <1>3, <1>4, <1>5, <1>6, <1>7, <1>8, <1>9, StaysUndisturbed
       DEF HandlerStep, Tested

LEMMA TurnsAlone ==
    ASSUME TypeOK, Alone, NEW h \in handlers, NEW G, Turn(h, G),
           \A g1, g2 \in G : g1 = g2
    PROVE  Alone'
  <1>1. \A g \in handlers : g.req.client \in Client
    BY HandlerAt DEF Request
  <1>2. ASSUME NEW g \in handlers \ {h}
        PROVE  g.req.client # h.req.client /\ Awaited(g)'
    <2>1. g.req.client # h.req.client /\ Awaited(g)
      BY DEF Alone
    <2>2. session'[g.req.client] = session[g.req.client]
      BY <1>1, <2>1 DEF Turn
    <2> QED
      BY <2>1, <2>2 DEF Awaited
  <1>3. \A g \in G : g.req = h.req /\ Awaited(g)'
    BY DEF Turn
  <1>4. \A g \in handlers' : g \in handlers \ {h} \/ g \in G
    BY DEF Turn
  <1>5. \A g \in handlers' : Awaited(g)'
    BY <1>2, <1>3, <1>4
  <1>6. \A g, k \in handlers' : g.req.client = k.req.client => g = k
    BY <1>2, <1>3, <1>4 DEF Alone
  <1> QED
    BY <1>5, <1>6 DEF Alone

\* Whatever a handler's step is, at most one handler takes its place.
LEMMA CalmLeavesOne ==
    ASSUME NEW h \in handlers, CalmTurn(h)
    PROVE  /\ \E G : Turn(h, G) /\ \A g1, g2 \in G : g1 = g2
           /\ \A a \in answers' : a \in answers \/ a.req = h.req
  <1>1. \/ \E g : Goes(h, g)
        \/ Closes(h, "OK") \/ Closes(h, "error")
    BY DEF CalmTurn, Retried
  <1>2. ASSUME NEW g, Goes(h, g)
        PROVE  /\ \E G : Turn(h, G) /\ \A g1, g2 \in G : g1 = g2
               /\ \A a \in answers' : a \in answers \/ a.req = h.req
    <2>1. Turn(h, {g}) /\ answers' = answers
      BY <1>2 DEF Goes
    <2>2. \A g1, g2 \in {g} : g1 = g2
      OBVIOUS
    <2> QED
      BY <2>1, <2>2
  <1>3. ASSUME NEW status, Closes(h, status)
        PROVE  /\ \E G : Turn(h, G) /\ \A g1, g2 \in G : g1 = g2
               /\ \A a \in answers' : a \in answers \/ a.req = h.req
    <2>1. /\ Turn(h, {})
          /\ answers' = answers \cup {[req |-> h.req, status |-> status]}
      BY <1>3 DEF Closes
    <2>2. \A a \in answers' : a \in answers \/ a.req = h.req
      BY <2>1
    <2> QED
      BY <2>1, <2>2
  <1> QED
    BY <1>1, <1>2, <1>3

\* A new request, of this life of the process, has a handler of its own.
NewCall(c, r) ==
    /\ r \in Request /\ r.client = c /\ r.id = counter[c] + 1
    /\ r.life = used.restarts
    /\ session[c] = Idle /\ \A d \in Client \ {c} : session'[d] = session[d]
    /\ session'[c].req = r /\ counter'[c] = counter[c] + 1
    /\ \E g : /\ g.pc = "received" /\ g.req = r /\ handlers' = handlers \cup {g}
              /\ Awaited(g)'

LEMMA CommandCalls ==
    ASSUME TypeOK, NEW c \in Client, NEW op \in Op, NEW n \in Node,
           ClientCommand(c, op, n)
    PROVE  \E r : NewCall(c, r)
  <1>1. PICK r : r = [client |-> c, id |-> counter[c] + 1, life |-> used.restarts,
                      op |-> op]
    OBVIOUS
  <1>2. PICK s : s = [pc |-> "wait", req |-> r, node |-> n, attempts |-> 0]
    OBVIOUS
  <1>3. PICK g : g = CallFrom(s)
    OBVIOUS
  <1>4. /\ counter \in [Client -> 0 .. MaxLines] /\ counter[c] < MaxLines
        /\ counter' = [counter EXCEPT ![c] = @ + 1] /\ MaxLines \in Nat
        /\ session[c] = Idle /\ Try(c, s, handlers)
        /\ session \in [Client -> {Idle} \cup Waiting]
    BY <1>1, <1>2, BoundAssumption DEF TypeOK, ClientCommand, Waiting
  <1>5. /\ r \in Request /\ r.client = c /\ r.id = counter[c] + 1
        /\ r.life = used.restarts
    BY <1>1, <1>4 DEF TypeOK, Request
  <1>6. s.req = r /\ s.attempts = 0 /\ s.pc = "wait" /\ 0 < N
    BY <1>2, NAssumption
  <1>7. /\ session' = [session EXCEPT ![c] = s]
        /\ handlers' = handlers \cup {g}
    BY <1>3, <1>4, <1>6 DEF Try
  <1>8. g.pc = "received" /\ g.req = r /\ g.attempt = 0
    BY <1>3, <1>6 DEF CallFrom
  <1>9. session'[c] = s /\ \A d \in Client \ {c} : session'[d] = session[d]
    BY <1>4, <1>7
  <1>10. counter'[c] = counter[c] + 1
    BY <1>4
  <1>11. Awaited(g)'
    BY <1>5, <1>6, <1>8, <1>9 DEF Awaited
  <1> QED
    BY <1>4, <1>5, <1>6, <1>7, <1>8, <1>9, <1>10, <1>11 DEF NewCall

\* Every step that is calm: a new request, a handler's, one that leaves the calls
\* alone, or a restart.
LEMMA CalmSteps ==
    ASSUME TypeOK, Core, Alone, [Next]_vars, Undisturbed'
    PROVE  \/ \E c \in Client : answers' = answers /\ \E r : NewCall(c, r)
           \/ \E h \in handlers : HandlerStep(h) /\ CalmTurn(h)
           \/ UNCHANGED <<session, handlers, answers, cache>> /\ ~Restart
           \/ Restart
  <1>1. ~\E c \in Client : Timeout(c)
    BY StaysUndisturbed DEF Timeout
  <1>2. ASSUME NEW c \in Client, NEW op \in Op, NEW n \in Node, ClientCommand(c, op, n)
        PROVE  answers' = answers
    <2>1. Try(c, [pc |-> "wait",
                  req |-> [client |-> c, id |-> counter[c] + 1, life |-> used.restarts,
                           op |-> op], node |-> n, attempts |-> 0], handlers)
      BY <1>2 DEF ClientCommand
    <2>2. 0 < N
      BY NAssumption
    <2> QED
      BY <2>1, <2>2 DEF Try
  <1>3. \A h \in handlers : Awaited(h)
    BY DEF Alone
  <1>4. CASE \E n \in Node : HearVote(n) \/ HearLeader(n) \/ \E Q \in Quorum : Elect(n, Q)
    BY <1>4 DEF HearVote, HearLeader, Elect, sessionVars
  <1>5. CASE (\E c \in Client : OtherCommand(c)) \/ UNCHANGED vars
    BY <1>5 DEF OtherCommand, vars, sessionVars
  <1> QED
    BY <1>1, <1>2, <1>3, <1>4, <1>5, CommandCalls, CalmTurns DEF Next

LEMMA NextAlone ==
    ASSUME TypeOK, Core, Alone, [Next]_vars, Undisturbed'
    PROVE  Alone'
  <1>1. ASSUME NEW c \in Client, NEW r, NewCall(c, r)
        PROVE  Alone'
    <2>1. PICK g : /\ g.pc = "received" /\ g.req = r /\ handlers' = handlers \cup {g}
                   /\ Awaited(g)'
      BY <1>1 DEF NewCall
    <2>2. ASSUME NEW k \in handlers
          PROVE  k.req.client # c /\ Awaited(k)'
      <3>1. Awaited(k) /\ k.req.client \in Client
        BY HandlerAt DEF Alone, Request
      <3>2. k.req.client # c
        BY <1>1, <3>1, AwaitedSession DEF NewCall
      <3>3. session'[k.req.client] = session[k.req.client]
        BY <1>1, <3>1, <3>2 DEF NewCall
      <3> QED
        BY <3>1, <3>2, <3>3 DEF Awaited
    <2>3. r.client = c
      BY <1>1 DEF NewCall
    <2>4. \A k \in handlers' : Awaited(k)'
      BY <2>1, <2>2
    <2>5. \A k, m \in handlers' : k.req.client = m.req.client => k = m
      BY <2>1, <2>2, <2>3 DEF Alone
    <2> QED
      BY <2>4, <2>5 DEF Alone
  <1>2. ASSUME NEW h \in handlers, CalmTurn(h)
        PROVE  Alone'
    BY <1>2, CalmLeavesOne, TurnsAlone
  <1>3. CASE UNCHANGED <<session, handlers>>
    BY <1>3 DEF Alone, Awaited
  <1>4. CASE Restart
    BY <1>4 DEF Restart, Alone
  <1> QED
    BY <1>1, <1>2, <1>3, <1>4, CalmSteps

\* What is newly executed is what a handler commits.
LEMMA Committed ==
    ASSUME NEW h, Commit(h), NEW x \in executed', x \notin executed
    PROVE  \E i \in lastApplied[h.node] + 1 .. h.index :
              /\ x.index = i /\ x.entry = log[h.node][i + 1]
              /\ x.node = h.node /\ x.life = used.restarts
  BY DEF Commit

\* No log has the request, and it was not executed.
In(lg, r) == \E i \in 1 .. Len(lg) : lg[i].req = r
Untouched(r) ==
    /\ \A x \in executed : x.entry.req # r
    /\ \A n \in Node : ~In(log[n], r) /\ ~In(saved[n].log, r)

LEMMA UntouchedStays ==
    ASSUME TypeOK, [Next]_vars, NEW r, Untouched(r),
           \A h \in handlers : AppendEntry(h) => h.req # r
    PROVE  Untouched(r)'
  <1>1. \A n \in Node : log[n] \in Seq(Entry) /\ ~In(log[n], r) /\ ~In(saved[n].log, r)
    BY DEF TypeOK, Untouched
  <1>2. ASSUME NEW n \in Node
        PROVE  ~In(log'[n], r)
    <2>1. CASE log' = log
      BY <1>1, <2>1
    <2>2. ASSUME NEW h \in handlers, AppendEntry(h)
          PROVE  ~In(log'[n], r)
      <3> DEFINE e == [term |-> currentTerm[h.node], req |-> h.req]
      <3>1. /\ h.node \in Node /\ e \in Entry /\ e.req # r
            /\ log' = [log EXCEPT ![h.node] = Append(log[h.node], e)]
        BY <2>2, HandlerAt DEF AppendEntry, TypeOK, Entry
      <3> HIDE DEF e
      <3>2. CASE n # h.node
        BY <1>1, <3>1, <3>2 DEF TypeOK
      <3>3. CASE n = h.node
        <4>1. log'[n] = Append(log[n], e)
          BY <3>1, <3>3 DEF TypeOK
        <4>2. /\ Len(log[n]) \in Nat /\ Len(log'[n]) = Len(log[n]) + 1
              /\ \A i \in 1 .. Len(log[n]) : log'[n][i] = log[n][i]
              /\ log'[n][Len(log[n]) + 1] = e
          BY <1>1, <3>1, <4>1, AppendAt
        <4>3. \A i \in 1 .. Len(log'[n]) : i \in 1 .. Len(log[n]) \/ i = Len(log[n]) + 1
          BY <4>2
        <4> QED
          BY <1>1, <3>1, <4>2, <4>3 DEF In
      <3> QED
        BY <3>2, <3>3
    <2>3. ASSUME NEW h \in handlers, NEW Q \in Quorum, Replicate(h, Q)
          PROVE  ~In(log'[n], r)
      <3> DEFINE whole == log[h.node]
                 len == Smaller(h.index + 1, Len(whole))
                 prefix == SubSeq(whole, 1, len)
      <3>1. h.node \in Node /\ h.index \in Nat /\ whole \in Seq(Entry)
        BY <1>1, HandlerAt
      <3>2. log'[n] = log[n] \/ log'[n] = prefix
        BY <2>3 DEF Replicate
      <3>3. Len(prefix) = len /\ \A j \in 1 .. len : prefix[j] = whole[j]
        BY <3>1, PrefixType
      <3>4. \A j \in 1 .. len : j \in 1 .. Len(whole)
        BY <3>1, LastTermAt DEF Smaller
      <3>5. ~In(prefix, r)
        <4>1. ~In(whole, r)
          BY <1>1, <3>1
        <4> HIDE DEF prefix, len, whole
        <4> QED
          BY <3>3, <3>4, <4>1 DEF In
      <3> QED
        BY <1>1, <3>2, <3>5
    <2>4. ASSUME NEW m \in Node, HearLeader(m)
          PROVE  ~In(log'[n], r)
      <3>1. PICK k \in Node : log' = [log EXCEPT ![m] = log[k]]
        BY <2>4 DEF HearLeader
      <3>2. log'[n] = log[n] \/ log'[n] = log[k]
        BY <3>1 DEF TypeOK
      <3> QED
        BY <1>1, <3>2
    <2>5. CASE Restart
      BY <1>1, <2>5 DEF Restart
    <2>7. ASSUME NEW h \in handlers, SendsOn(h)
          PROVE  ~In(log'[n], r)
      <3>1. /\ h.node \in Node /\ log'[n] \in Seq(Entry)
            /\ \/ log'[n] = log[n]
               \/ \A i \in 1 .. Len(log'[n]) :
                     \/ i <= Len(log[n]) /\ log'[n][i] = log[n][i]
                     \/ i <= Len(log[h.node]) /\ log'[n][i] = log[h.node][i]
        BY <2>7, SendsOnLogs
      <3>2. ~In(log[n], r) /\ ~In(log[h.node], r)
        BY <1>1, <3>1
      <3>3. Len(log[n]) \in Nat /\ Len(log[h.node]) \in Nat /\ Len(log'[n]) \in Nat
        BY <1>1, <3>1, LastTermAt
      <3>4. ASSUME NEW i \in 1 .. Len(log'[n]) PROVE log'[n][i].req # r
        <4>1. CASE i <= Len(log[n]) /\ log'[n][i] = log[n][i]
          BY <3>2, <3>3, <4>1 DEF In
        <4>2. CASE i <= Len(log[h.node]) /\ log'[n][i] = log[h.node][i]
          BY <3>2, <3>3, <4>2 DEF In
        <4>3. CASE log'[n] = log[n]
          BY <3>2, <4>3 DEF In
        <4> QED
          BY <3>1, <4>1, <4>2, <4>3
      <3> QED
        BY <3>4 DEF In
    <2>6. \/ log' = log \/ Restart
          \/ \E h \in handlers : \/ AppendEntry(h) \/ SendsOn(h)
                                 \/ \E Q \in Quorum : Replicate(h, Q)
          \/ \E m \in Node : HearLeader(m)
      BY DEF Next, vars, HandlerStep, ClientCommand, OtherCommand, Timeout, Receive,
             CheckCommand, NotReplicated, StepDown, Commit, NotCommitted,
             PersistAndReply, Elect, HearVote
    <2> QED
      BY <2>1, <2>2, <2>3, <2>4, <2>5, <2>6, <2>7
  <1>3. \A n \in Node : ~In(saved'[n].log, r)
    <2>1. \A n \in Node : saved'[n].log \in {saved[n].log, log'[n]}
      BY FilesSaved DEF Save
    <2> QED
      BY <1>1, <1>2, <2>1
  <1>4. \A x \in executed' : x.entry.req # r
    <2>1. CASE executed' = executed
      BY <2>1 DEF Untouched
    <2>2. ASSUME NEW h \in handlers, Commit(h), NEW x \in executed', x \notin executed
          PROVE  x.entry.req # r
      <3>1. PICK i \in lastApplied[h.node] + 1 .. h.index :
               /\ x.index = i /\ x.entry = log[h.node][i + 1]
        BY <2>2, Committed
      <3>2. /\ h.node \in Node /\ h.index \in Nat /\ lastApplied[h.node] \in Nat
            /\ h.index < Len(log[h.node]) /\ Len(log[h.node]) \in Nat
        BY <2>2, HandlerAt, LastTermAt DEF TypeOK, Commit, OfCurrentTerm
      <3>3. i + 1 \in 1 .. Len(log[h.node])
        BY <3>2
      <3> QED
        BY <1>1, <3>1, <3>2, <3>3 DEF In
    <2>3. executed' = executed \/ \E h \in handlers : Commit(h)
      BY StraySpends DEF Next, vars, HandlerStep, ClientCommand, OtherCommand, Timeout,
             Receive, CheckCommand, AppendEntry, Replicate, NotReplicated, StepDown,
             NotCommitted, PersistAndReply, Elect, HearVote, HearLeader, Restart
    <2> QED
      BY <2>1, <2>2, <2>3 DEF Untouched
  <1> QED
    BY <1>2, <1>3, <1>4 DEF Untouched, In

\* Requests that were not given out yet are nowhere.
GivenOut(r) ==
    \/ r.life < used.restarts
    \/ r.life = used.restarts /\ r.id <= counter[r.client]
Numbered ==
    \A r \in Request : ~GivenOut(r) =>
        /\ r \notin Live /\ Untouched(r)
        /\ \A a \in answers : a.req # r

LEMMA GivenOutStays ==
    ASSUME TypeOK, TypeOK', LiveNumbered, [Next]_vars, NEW r \in Request, GivenOut(r)
    PROVE  GivenOut(r)'
  <1>1. /\ used.restarts \in Nat /\ used'.restarts \in Nat
        /\ used.restarts <= used'.restarts /\ r.life \in Nat /\ r.id \in Nat
        /\ r.client \in Client
    <2>1. used.restarts \in Nat /\ used'.restarts \in Nat
      BY DEF TypeOK
    <2>2. r.life \in Nat /\ r.id \in Nat /\ r.client \in Client
      BY BoundAssumption DEF Request
    <2> QED
      BY <2>1, <2>2, UsedGrows
  <1>2. CASE Restart
    <2>1. used'.restarts = used.restarts + 1
      BY <1>1, <1>2, SpendType DEF Restart
    <2> QED
      BY <1>1, <2>1 DEF GivenOut
  <1>3. CASE ~Restart
    <2>1. \A c \in Client : counter[c] <= counter'[c]
      <3>1. counter \in [Client -> 0 .. MaxLines] /\ MaxLines \in Nat
        BY BoundAssumption DEF TypeOK
      <3>2. ASSUME NEW c \in Client, counter' = [counter EXCEPT ![c] = @ + 1]
            PROVE  \A d \in Client : counter[d] <= counter'[d]
        BY <3>1, <3>2
      <3>3. CASE counter' = counter
        BY <3>1, <3>3
      <3>4. \/ counter' = counter
            \/ \E c \in Client : counter' = [counter EXCEPT ![c] = @ + 1]
        BY <1>3, StraySpends DEF Next, vars, sessionVars, HandlerStep, ClientCommand, OtherCommand, Timeout,
           Receive, CheckCommand, AppendEntry, Replicate, NotReplicated, StepDown, Commit,
           NotCommitted, PersistAndReply, Elect, HearVote, HearLeader
      <3> QED
        BY <3>2, <3>3, <3>4
    <2>2. counter[r.client] \in Nat /\ counter'[r.client] \in Nat
          /\ counter[r.client] <= counter'[r.client]
      BY <1>1, <2>1, BoundAssumption DEF TypeOK
    <2>3. CASE r.life < used.restarts
      BY <1>1, <2>3 DEF GivenOut
    <2>4. CASE r.life = used.restarts /\ r.id <= counter[r.client]
      BY <1>1, <2>2, <2>4 DEF GivenOut
    <2> QED
      BY <2>3, <2>4 DEF GivenOut
  <1> QED
    BY <1>2, <1>3

LEMMA NewCallGivenOut ==
    ASSUME TypeOK, LiveNumbered, NEW c \in Client, NEW r, NewCall(c, r),
           used'.restarts = used.restarts
    PROVE  /\ ~GivenOut(r) /\ GivenOut(r)'
           /\ \A q \in Live' : q \in Live \/ q = r
  <1>1. /\ r.client = c /\ r.id = counter[c] + 1 /\ r.life = used.restarts
        /\ counter[c] \in Nat /\ used.restarts \in Nat /\ counter'[c] = counter[c] + 1
    BY BoundAssumption DEF NewCall, TypeOK
  <1>2. ~GivenOut(r)
    BY <1>1 DEF GivenOut
  <1>3. GivenOut(r)'
    BY <1>1 DEF GivenOut
  <1>4. \A q \in Live' : q \in Live \/ q = r
    BY DEF NewCall, Live
  <1> QED
    BY <1>2, <1>3, <1>4

\* Who is on the way, or answered, after a calm step.
LEMMA CalmLive ==
    ASSUME TypeOK, LiveNumbered, Core, Alone, [Next]_vars, Undisturbed'
    PROVE  /\ \A q \in Live' : q \in Live \/ (~GivenOut(q) /\ GivenOut(q)')
           /\ \A a \in answers' : a \in answers \/ a.req \in Live
  <1> DEFINE Good == /\ \A q \in Live' : q \in Live \/ (~GivenOut(q) /\ GivenOut(q)')
                     /\ \A a \in answers' : a \in answers \/ a.req \in Live
  <1>1. ASSUME NEW c \in Client, NEW r, NewCall(c, r), answers' = answers,
               used'.restarts = used.restarts
        PROVE  Good
    BY <1>1, NewCallGivenOut
  <1>2. ASSUME NEW h \in handlers, HandlerStep(h), CalmTurn(h)
        PROVE  Good
    BY <1>2, CalmLeavesOne, HandlerCalls DEF CallsKept, Live
  <1>3. ASSUME UNCHANGED <<session, handlers, answers>>
        PROVE  Good
    BY <1>3 DEF Live
  <1>4. ASSUME Restart
        PROVE  Good
    BY <1>4 DEF Restart, Live
  <1>5. ASSUME NEW c \in Client, NEW op \in Op, NEW n \in Node, ClientCommand(c, op, n)
        PROVE  Good
    <2>1. PICK r : NewCall(c, r)
      BY <1>5, CommandCalls
    <2>2. answers' = answers
      BY <1>5, NewRequest
    <2>3. used'.restarts = used.restarts
      <3>1. Spend("requests") /\ used.restarts \in Nat
        BY <1>5 DEF ClientCommand, TypeOK
      <3> QED
        BY <3>1, SpendType
    <2> QED
      BY <1>1, <2>1, <2>2, <2>3
  <1>6. \/ \E c \in Client, op \in Op, n \in Node : ClientCommand(c, op, n)
        \/ \E h \in handlers : HandlerStep(h)
        \/ UNCHANGED <<session, handlers, answers>>
        \/ Restart
    BY StaysUndisturbed DEF Next, vars, sessionVars, OtherCommand, Timeout, HearVote,
       HearLeader, Elect
  <1>7. \A h \in handlers : HandlerStep(h) => CalmTurn(h)
    BY CalmTurns DEF Alone
  <1> HIDE DEF Good
  <1>8. Good
    BY <1>2, <1>3, <1>4, <1>5, <1>6, <1>7
  <1> QED
    BY <1>8 DEF Good

LEMMA NextNumbered ==
    ASSUME TypeOK, TypeOK', LiveNumbered, Core, Alone, Numbered, [Next]_vars, Undisturbed'
    PROVE  Numbered'
  <1> SUFFICES ASSUME NEW r \in Request, ~GivenOut(r)'
               PROVE  /\ r \notin Live' /\ Untouched(r)'
                      /\ \A a \in answers' : a.req # r
    BY DEF Numbered
  <1>1. ~GivenOut(r)
    BY GivenOutStays
  <1>2. r \notin Live /\ Untouched(r) /\ \A a \in answers : a.req # r
    BY <1>1 DEF Numbered
  <1>3. r \notin Live' /\ \A a \in answers' : a.req # r
    BY <1>2, CalmLive
  <1>4. \A h \in handlers : h.req # r
    BY <1>2 DEF Live
  <1>5. Untouched(r)'
    BY <1>2, <1>4, UntouchedStays
  <1> QED
    BY <1>3, <1>5

\* The newest leader remembers the request, with a result that is no OK.
Failed(r) ==
    \E n \in Node : /\ Newest(n)
                    /\ cache[n][r.client].id = r.id
                    /\ cache[n][r.client].result # "OK"
Fresh(r) == Untouched(r) \/ Failed(r)

\* What a handler has left to find: its request is new, or failed before.
CheckedAt(h) ==
    /\ h.pc \in {"received", "command"} => Fresh(h.req)
    /\ h.pc = "append" => Untouched(h.req)
    /\ h.pc = "persist" => /\ cache[h.node][h.req.client].id = h.req.id
                           /\ cache[h.node][h.req.client].result = h.result
Checked == \A h \in handlers : CheckedAt(h)

\* Only a commit changes a cache, in one place.
LEMMA CacheStays ==
    ASSUME TypeOK, [Next]_vars, ~Restart, NEW n \in Node, NEW c \in Client,
           \A h \in handlers : Commit(h) => h.req.client # c
    PROVE  cache'[n][c] = cache[n][c]
  <1>1. cache' = cache \/ \E h \in handlers : Commit(h)
    BY StraySaves DEF Next, vars, HandlerStep, ClientCommand, OtherCommand, Timeout, Receive,
           CheckCommand, AppendEntry, Replicate, NotReplicated, StepDown,
           NotCommitted, PersistAndReply, Elect, HearVote, HearLeader
  <1>2. ASSUME NEW h \in handlers, Commit(h)
        PROVE  cache'[n][c] = cache[n][c]
    <2>1. PICK result : cache' = [cache EXCEPT ![h.node][h.req.client] =
                                     [id |-> h.req.id, result |-> result]]
      BY <1>2 DEF Commit
    <2>2. h.req.client # c
      BY <1>2
    <2> QED
      BY <2>1, <2>2 DEF TypeOK
  <1> QED
    BY <1>1, <1>2

\* Undisturbed, the newest leader stays.
LEMMA NewestStays ==
    ASSUME TypeOK, TypeOK', Core, [Next]_vars, Undisturbed', ~Restart,
           NEW n \in Node, Newest(n)
    PROVE  Newest(n)'
  <1>1. ~\E m \in Node, Q \in Quorum : Elect(m, Q)
    <2>1. ~NoLeader
      BY DEF NoLeader, Newest
    <2> QED
      BY <2>1, StaysUndisturbed DEF Elect
  <1> QED
    BY <1>1, StepMoves, StaysUndisturbed DEF Moved

LEMMA FailedStays ==
    ASSUME TypeOK, TypeOK', Core, [Next]_vars, Undisturbed', ~Restart,
           NEW r \in Request, Failed(r),
           \A h \in handlers : Commit(h) => h.req.client # r.client
    PROVE  Failed(r)'
  <1>1. PICK n \in Node : /\ Newest(n)
                          /\ cache[n][r.client].id = r.id
                          /\ cache[n][r.client].result # "OK"
    BY DEF Failed
  <1>2. r.client \in Client
    BY DEF Request
  <1>3. cache'[n][r.client] = cache[n][r.client]
    BY <1>2, CacheStays
  <1>4. Newest(n)'
    BY <1>1, NewestStays
  <1> QED
    BY <1>1, <1>3, <1>4 DEF Failed

\* A step of another handler is one of another client's.
LEMMA OthersClient ==
    ASSUME TypeOK, Alone, NEW k \in handlers, k \in handlers',
           NEW h \in handlers, AppendEntry(h) \/ Commit(h)
    PROVE  h.req.client # k.req.client /\ h.req # k.req
  <1>1. h \in Handler
    BY DEF TypeOK
  <1>2. h \notin handlers'
    <2>1. CASE AppendEntry(h)
      <3>1. [h EXCEPT !.pc = "replicate", !.index = Len(log[h.node])] # h
        BY <1>1, <2>1 DEF AppendEntry, Handler
      <3> QED
        BY <2>1, <3>1 DEF AppendEntry
    <2>2. CASE Commit(h)
      <3>1. \A result : [h EXCEPT !.pc = "persist", !.result = result] # h
        BY <1>1, <2>2 DEF Commit, Handler
      <3> QED
        BY <2>2, <3>1 DEF Commit
    <2> QED
      BY <2>1, <2>2
  <1>3. k # h
    BY <1>2
  <1> QED
    BY <1>3 DEF Alone

LEMMA CheckedStays ==
    ASSUME TypeOK, TypeOK', Core, Alone, [Next]_vars, Undisturbed', ~Restart,
           NEW k \in handlers, k \in handlers', CheckedAt(k)
    PROVE  CheckedAt(k)'
  <1>1. \A h \in handlers : AppendEntry(h) \/ Commit(h) =>
           h.req.client # k.req.client /\ h.req # k.req
    BY OthersClient
  <1>2. k.req \in Request /\ k.node \in Node /\ k.req.client \in Client
    BY HandlerAt DEF Request
  <1>3. Untouched(k.req) => Untouched(k.req)'
    BY <1>1, UntouchedStays
  <1>4. Failed(k.req) => Failed(k.req)'
    BY <1>1, <1>2, FailedStays
  <1>5. cache'[k.node][k.req.client] = cache[k.node][k.req.client]
    BY <1>1, <1>2, CacheStays
  <1> QED
    BY <1>3, <1>4, <1>5 DEF CheckedAt, Fresh

LEMMA FreshQuiet ==
    ASSUME NEW r, UNCHANGED <<state, currentTerm, log, saved, cache, executed>>
    PROVE  /\ Untouched(r) => Untouched(r)'
           /\ Fresh(r) => Fresh(r)'
  BY DEF Untouched, Failed, Fresh, Newest

\* The handler that takes the place of h.
LEMMA CheckedTurn ==
    ASSUME TypeOK, TypeOK', Core, Checked, [Next]_vars, Undisturbed',
           NEW h \in handlers, CalmTurn(h), NEW k \in handlers', k \notin handlers
    PROVE  CheckedAt(k)'
  <1>1. h \in Handler /\ h.req \in Request /\ h.node \in Node /\ h.req.client \in Client
    BY HandlerAt DEF Request
  <1>2. CheckedAt(h)
    BY DEF Checked
  <1>3. ASSUME NEW g, Goes(h, g) PROVE k = g /\ k.req = h.req
    BY <1>3 DEF Goes, Turn
  <1>4. ~Closes(h, "OK") /\ ~Closes(h, "error")
    BY DEF Closes, Turn
  <1>5. Retried(h) => k.pc = "received" /\ k.req = h.req
    BY <1>3 DEF Retried
  <1>6. ASSUME k.pc \in {"received", "command"}, Fresh(k.req)' PROVE CheckedAt(k)'
    BY <1>6 DEF CheckedAt
  <1>7. CASE h.pc = "received" /\ Receive(h)
    <2>1. Fresh(h.req)'
      BY <1>2, <1>7, FreshQuiet DEF CheckedAt, Receive, roleVars
    <2>2. k.req = h.req /\ k.pc \in {"received", "command"}
      <3>1. Retried(h) \/ Goes(h, [h EXCEPT !.pc = "command"])
        BY <1>4, <1>7 DEF CalmTurn, CheckCommand, AppendEntry, Replicate, Commit
      <3>2. [h EXCEPT !.pc = "command"].pc = "command"
        BY <1>1 DEF Handler
      <3> QED
        BY <1>3, <1>5, <3>1, <3>2
    <2> QED
      BY <1>6, <2>1, <2>2
  <1>8. CASE h.pc = "command" /\ CheckCommand(h)
    <2>1. UNCHANGED <<state, currentTerm, log, saved, cache, executed>>
      BY <1>8 DEF CheckCommand, roleVars
    <2>2. Fresh(h.req) /\ Fresh(h.req)'
      BY <1>2, <1>8, <2>1, FreshQuiet DEF CheckedAt
    <2>3. CASE Retried(h)
      BY <1>5, <1>6, <2>2, <2>3
    <2>4. CASE ~Retried(h)
      <3>1. /\ cache[h.node][h.req.client].id # h.req.id
            /\ Goes(h, [h EXCEPT !.pc = "append"])
        BY <1>4, <1>8, <2>4 DEF CalmTurn, AppendEntry, Replicate, Commit
      <3>2. k.req = h.req /\ k.pc = "append"
        BY <1>1, <1>3, <3>1 DEF Handler
      <3>3. ~Failed(h.req)
        <4>1. Newest(h.node) /\ Roles
          BY <1>8, CalmHandler DEF Working, Core
        <4> QED
          BY <1>1, <3>1, <4>1, OneNewest DEF Failed
      <3>4. Untouched(h.req)'
        BY <2>1, <2>2, <3>3, FreshQuiet DEF Fresh
      <3> QED
        BY <3>2, <3>4 DEF CheckedAt
    <2> QED
      BY <2>3, <2>4
  <1>9. CASE Commit(h)
    <2>1. PICK result \in Result :
             /\ cache' = [cache EXCEPT ![h.node][h.req.client] =
                             [id |-> h.req.id, result |-> result]]
             /\ Goes(h, [h EXCEPT !.pc = "persist", !.result = result])
      BY <1>9 DEF CalmTurn, Commit, CheckCommand, AppendEntry, Replicate
    <2>2. k.req = h.req /\ k.node = h.node /\ k.pc = "persist" /\ k.result = result
      <3>1. k = [h EXCEPT !.pc = "persist", !.result = result]
        BY <1>3, <2>1
      <3> QED
        BY <1>1, <3>1 DEF Handler
    <2>3. cache'[h.node][h.req.client] = [id |-> h.req.id, result |-> result]
      <3>1. cache \in [Node -> [Client -> Answer]]
        BY DEF TypeOK
      <3> QED
        BY <1>1, <2>1, <3>1
    <2> QED
      BY <2>2, <2>3 DEF CheckedAt
  <1>10. CASE h.pc = "persist" /\ PersistAndReply(h)
    <2>1. Status(h.req.op, h.result) # "OK" /\ Retried(h)
      BY <1>4, <1>10 DEF CalmTurn, CheckCommand, AppendEntry, Replicate, Commit
    <2>2. h.result # "OK"
      BY <2>1 DEF Status
    <2>3. /\ cache[h.node][h.req.client].id = h.req.id
          /\ cache[h.node][h.req.client].result = h.result
      BY <1>2, <1>10 DEF CheckedAt
    <2>4. Newest(h.node)'
      <3>1. Newest(h.node) /\ UNCHANGED <<state, currentTerm>>
        BY <1>10, CalmHandler DEF Working, PersistAndReply, roleVars
      <3> QED
        BY <3>1 DEF Newest
    <2>5. cache' = cache
      BY <1>10 DEF PersistAndReply
    <2>6. Failed(h.req)'
      BY <1>1, <2>2, <2>3, <2>4, <2>5 DEF Failed
    <2> QED
      BY <1>5, <1>6, <2>1, <2>6 DEF Fresh
  <1>11. CASE AppendEntry(h) \/ \E Q \in Quorum : Replicate(h, Q)
    <2>1. k.pc \in {"replicate", "commit"}
      <3>1. \/ Goes(h, [h EXCEPT !.pc = "replicate", !.index = Len(log[h.node])])
            \/ Goes(h, [h EXCEPT !.pc = "commit"])
        BY <1>11 DEF CalmTurn, CheckCommand, AppendEntry, Replicate, Commit
      <3>2. \/ k = [h EXCEPT !.pc = "replicate", !.index = Len(log[h.node])]
            \/ k = [h EXCEPT !.pc = "commit"]
        BY <1>3, <3>1
      <3> QED
        BY <1>1, <3>2 DEF Handler
    <2> QED
      BY <2>1 DEF CheckedAt
  <1> QED
    BY <1>7, <1>8, <1>9, <1>10, <1>11 DEF CalmTurn

LEMMA NextChecked ==
    ASSUME TypeOK, TypeOK', LiveNumbered, Core, Alone, Numbered, Checked, [Next]_vars,
           Undisturbed'
    PROVE  Checked'
  <1> SUFFICES ASSUME NEW k \in handlers' PROVE CheckedAt(k)'
    BY DEF Checked
  <1>1. ~Restart
    BY DEF Restart
  <1>2. CASE k \in handlers
    BY <1>1, <1>2, CheckedStays DEF Checked
  <1>3. ASSUME k \notin handlers, NEW c \in Client, NEW r, NewCall(c, r)
        PROVE  CheckedAt(k)'
    <2>1. k.pc = "received" /\ k.req = r
      BY <1>3 DEF NewCall
    <2>2. ~GivenOut(r)
      BY <1>3, BoundAssumption DEF NewCall, GivenOut, TypeOK
    <2>3. r \notin Live /\ Untouched(r)
      BY <1>3, <2>2 DEF Numbered, NewCall
    <2>4. Untouched(r)'
      BY <2>3, UntouchedStays DEF Live
    <2> QED
      BY <2>1, <2>4 DEF CheckedAt, Fresh
  <1>4. ASSUME k \notin handlers, NEW h \in handlers, CalmTurn(h)
        PROVE  CheckedAt(k)'
    BY <1>4, CheckedTurn
  <1> QED
    BY <1>1, <1>2, <1>3, <1>4, CalmSteps

\* An answered write lasts in the files of a majority, or is nowhere: the cache
\* answered it for an earlier process.
AckedAt(r) ==
    \/ Untouched(r) /\ r \notin Live
    \/ \E p \in Seq(Entry), Q \in Quorum : Lasts(p, Q, Q) /\ In(p, r)
AckLast == \A r \in Acknowledged : AckedAt(r)

LEMMA AckStays ==
    ASSUME TypeOK, TypeOK', LiveNumbered, Core, LogsEndNewest, LeaderLeft, Alone, Numbered,
           [Next]_vars, Undisturbed', NEW r \in Acknowledged, AckedAt(r)
    PROVE  AckedAt(r)'
  <1>1. CASE Untouched(r) /\ r \notin Live
    <2>1. r \in Request /\ \E a \in answers : a.req = r
      BY DEF Acknowledged, TypeOK
    <2>2. GivenOut(r)
      BY <2>1 DEF Numbered
    <2>3. r \notin Live'
      BY <1>1, <2>2, CalmLive
    <2>4. Untouched(r)'
      BY <1>1, UntouchedStays DEF Live
    <2> QED
      BY <2>3, <2>4 DEF AckedAt
  <1>2. ASSUME NEW p \in Seq(Entry), NEW Q \in Quorum, Lasts(p, Q, Q), In(p, r)
        PROVE  AckedAt(r)'
    <2>1. Steady' /\ used.elections = 0
      BY StaysUndisturbed DEF Steady, Undisturbed
    <2>2. Lasts(p, Q, Q)'
      BY <1>2, <2>1, LastsStay, StaysUndisturbed
    <2> QED
      BY <1>2, <2>2 DEF AckedAt, In
  <1> QED
    BY <1>1, <1>2 DEF AckedAt

\* The request of a handler that ends is not on its way any more.
LEMMA ClosesLive ==
    ASSUME TypeOK, LiveNumbered, Alone, NEW h \in handlers, Turn(h, {})
    PROVE  h.req \notin Live'
  <1>1. h.req.client \in Client
    BY HandlerAt DEF Request
  <1>2. \A g \in handlers' : g.req # h.req
    BY DEF Turn, Alone
  <1>3. ASSUME NEW d \in Client, session'[d] # Idle
        PROVE  session'[d].req # h.req
    <2>1. d # h.req.client /\ session'[d] = session[d]
      BY <1>1, <1>3 DEF Turn
    <2>2. session[d].req.client = d
      BY <1>3, <2>1 DEF LiveNumbered
    <2> QED
      BY <2>1, <2>2
  <1> QED
    BY <1>2, <1>3 DEF Live

LEMMA NewAck ==
    ASSUME TypeOK, TypeOK', LiveNumbered, Core, LogsEndNewest, LeaderLeft, Alone, Checked,
           HandlersLast, [Next]_vars, Undisturbed', ~Restart,
           NEW h \in handlers, CalmTurn(h), NEW r \in Acknowledged', r \notin Acknowledged
    PROVE  AckedAt(r)'
  <1>1. h \in Handler /\ h.req \in Request /\ h.node \in Node /\ h.req.client \in Client
    BY HandlerAt DEF Request
  <1>2. PICK a : a = [req |-> r, status |-> "OK"] /\ a \in answers' /\ a \notin answers
    BY DEF Acknowledged, IsWrite
  <1>3. /\ \A g : ~Goes(h, g)
        /\ ~Closes(h, "error")
        /\ Closes(h, "OK") => h.req = r
    <2>1. \A g : ~Goes(h, g)
      BY <1>2 DEF Goes
    <2>2. ASSUME NEW status, Closes(h, status) PROVE status = "OK" /\ h.req = r
      <3>1. a = [req |-> h.req, status |-> status]
        BY <1>2, <2>2 DEF Closes
      <3> QED
        BY <1>2, <3>1
    <2>3. "error" # "OK"
      OBVIOUS
    <2> QED
      BY <2>1, <2>2, <2>3
  <1>4. /\ Closes(h, "OK") /\ h.req = r /\ CheckedAt(h) /\ IsWrite(h.req)
        /\ \/ /\ h.pc = "command" /\ CheckCommand(h)
              /\ cache[h.node][h.req.client].id = h.req.id
              /\ Status(h.req.op, cache[h.node][h.req.client].result) = "OK"
           \/ h.pc = "persist" /\ PersistAndReply(h)
    <2>1. /\ Closes(h, "OK")
          /\ \/ /\ h.pc = "command" /\ CheckCommand(h)
                /\ cache[h.node][h.req.client].id = h.req.id
                /\ Status(h.req.op, cache[h.node][h.req.client].result) = "OK"
             \/ h.pc = "persist" /\ PersistAndReply(h)
      BY <1>3 DEF CalmTurn, Retried
    <2>2. IsWrite(r)
      BY DEF Acknowledged, IsWrite
    <2> QED
      BY <1>3, <2>1, <2>2 DEF Checked
  <1>5. CASE h.pc = "command" /\ CheckCommand(h)
    <2>1. /\ cache[h.node][h.req.client].id = h.req.id
          /\ Status(h.req.op, cache[h.node][h.req.client].result) = "OK"
      BY <1>4, <1>5
    <2>2. cache[h.node][h.req.client].result = "OK"
      BY <1>4, <2>1, WriteStatus
    <2>3. ~Failed(h.req)
      <3>1. Newest(h.node) /\ Roles
        BY <1>5, CalmHandler DEF Working, Core
      <3> QED
        BY <1>1, <2>2, <3>1, OneNewest DEF Failed
    <2>4. Untouched(h.req)
      BY <1>4, <1>5, <2>3 DEF CheckedAt, Fresh
    <2>5. Untouched(h.req)'
      BY <1>5, <2>4, FreshQuiet DEF CheckCommand, roleVars
    <2>6. h.req \notin Live'
      BY <1>4, ClosesLive DEF Closes
    <2> QED
      BY <1>4, <2>5, <2>6 DEF AckedAt
  <1>6. CASE h.pc = "persist" /\ PersistAndReply(h)
    <2>1. Steady' /\ Steady /\ used'.elections = 0
      BY StaysUndisturbed DEF Steady, Undisturbed
    <2>2. PICK p \in Seq(Entry), Q \in Quorum :
             /\ Len(p) = h.index + 1 /\ p[h.index + 1].req = h.req
             /\ h.node \in Q /\ Lasts(p, Q, Q \ {h.node})
      BY <1>6, <2>1 DEF HandlersLast, HandlerLasts
    <2>3. In(p, h.req)
      <3>1. h.index + 1 \in 1 .. Len(p)
        BY <2>2, HandlerAt
      <3> QED
        BY <2>2, <3>1 DEF In
    <2>4. Lasts(p, Q, Q \ {h.node})'
      BY <2>1, <2>2, LastsStay, StaysUndisturbed
    <2>5. saved'[h.node].log = log'[h.node]
      BY <1>1, <1>6 DEF PersistAndReply, Save
    <2>6. Lasts(p, Q, Q)'
      <3>1. Starts(saved'[h.node].log, p)
        BY <2>1, <2>2, <2>4, <2>5 DEF Lasts, Starts
      <3>2. \A k \in Q : Starts(saved'[k].log, p)
        BY <2>1, <2>4, <3>1 DEF Lasts, Starts
      <3> QED
        BY <2>4, <3>2 DEF Lasts, Starts
    <2> QED
      BY <1>4, <2>3, <2>6 DEF AckedAt, In
  <1> QED
    BY <1>4, <1>5, <1>6

LEMMA NextAckLast ==
    ASSUME TypeOK, TypeOK', LiveNumbered, Core, LogsEndNewest, LeaderLeft, Alone, Numbered,
           Checked, HandlersLast, AckLast, [Next]_vars, Undisturbed'
    PROVE  AckLast'
  <1> SUFFICES ASSUME NEW r \in Acknowledged' PROVE AckedAt(r)'
    BY DEF AckLast
  <1>1. CASE r \in Acknowledged
    BY <1>1, AckStays DEF AckLast
  <1>2. CASE r \notin Acknowledged
    <2>1. answers' # answers
      BY <1>2 DEF Acknowledged, IsWrite
    <2>2. ~Restart
      BY <2>1 DEF Restart
    <2>3. PICK h \in handlers : CalmTurn(h)
      BY <2>1, <2>2, CalmSteps
    <2> QED
      BY <1>2, <2>2, <2>3, NewAck
  <1> QED
    BY <1>1, <1>2

LEMMA NextOfLeader ==
    ASSUME TypeOK, TypeOK', Core, EntryTerms, SavedBehind, OfLeader, Tested,
           [Next]_vars
    PROVE  OfLeader'
  <1>1. CASE Moved
    BY <1>1, OfLeaderMoved DEF Core
  <1>2. ASSUME NEW n \in Node, NEW Q \in Quorum, Elect(n, Q)
        PROVE  OfLeader'
    BY <1>2, OfLeaderElect
  <1>3. CASE Restart
    <2>1. \A n \in Node : state'[n] = "FOLLOWER"
      BY <1>3 DEF Restart
    <2>2. \A n \in Node : ~Newest(n)'
      BY <2>1 DEF Newest
    <2> QED
      BY <2>2 DEF OfLeader
  <1> QED
    BY <1>1, <1>2, <1>3, StepMoves

\* The inductive invariant: what has been replicated lasts, and where nothing is
\* disturbed so does what has been answered.
KeptInv ==
    /\ SessionInv
    /\ SavedBehind
    /\ used.strays = 0 => LeaderLeft /\ OfLeader /\ HandlersLast /\ ExecutedLast
    /\ Undisturbed => Alone /\ Numbered /\ Checked /\ AckLast

LEMMA InitKept ==
    ASSUME Init
    PROVE  KeptInv
  <1>1. SessionInv
    BY InitInv
  <1>2. /\ \A n \in Node : /\ log[n] = InitLog /\ saved[n].log = InitLog
                           /\ saved[n].term = currentTerm[n]
                           /\ currentTerm[n] \in Nat
        /\ handlers = {} /\ answers = {} /\ executed = {}
        /\ \A c \in Client : session[c] = Idle
        /\ used.elections = 0
    BY StartLog DEF Init, File
  <1>3. SavedBehind /\ LeaderLeft
    BY <1>2 DEF SavedBehind, LeaderLeft
  <1>4. OfLeader
    BY <1>2, StartLog, StartsItself DEF OfLeader
  <1>5. HandlersLast /\ ExecutedLast /\ Alone /\ Checked
    BY <1>2 DEF HandlersLast, ExecutedLast, Alone, Checked
  <1>6. AckLast
    BY <1>2 DEF AckLast, Acknowledged
  <1>7. Numbered
    <2>1. ASSUME NEW r \in Request, NEW i \in 1 .. Len(InitLog)
          PROVE  InitLog[i].req # r
      <3> DEFINE Start == [term : Nat, req : {NoRequest}]
      <3>1. InitLog \in Seq(Start)
        BY LogAssumption
      <3> HIDE DEF Start
      <3>2. InitLog[i] \in Start
        BY <3>1
      <3>3. InitLog[i].req = NoRequest
        BY <3>2 DEF Start
      <3>4. r.id # 0
        BY BoundAssumption DEF Request
      <3> QED
        BY <3>3, <3>4 DEF NoRequest
    <2>2. \A r \in Request : Untouched(r)
      BY <1>2, <2>1 DEF Untouched, In
    <2>3. Live = {}
      BY <1>2 DEF Live
    <2> QED
      BY <1>2, <2>2, <2>3 DEF Numbered
  <1> QED
    BY <1>1, <1>3, <1>4, <1>5, <1>6, <1>7 DEF KeptInv

LEMMA NextKept ==
    ASSUME KeptInv, [Next]_vars
    PROVE  KeptInv'
  <1>1. SessionInv /\ SessionInv'
    BY NextInv DEF KeptInv
  <1>2. /\ TypeOK /\ EntryTerms /\ LiveNumbered
        /\ TypeOK' /\ EntryTerms' /\ LiveNumbered'
        /\ SavedBehind
        /\ used.strays = 0 => LeaderLeft /\ OfLeader /\ HandlersLast /\ ExecutedLast
    BY <1>1 DEF KeptInv, SessionInv
  <1>3. SavedBehind'
    BY <1>2, NextSaved
  <1>4. /\ used.elections \in Nat /\ used'.elections \in Nat
        /\ used.elections <= used'.elections
        /\ used.strays \in Nat /\ used.strays <= used'.strays
    BY <1>2, UsedGrows DEF TypeOK
  <1>5. CASE OneElection'
    <2>0. used'.strays = 0 /\ used.strays = 0
      BY <1>4, <1>5 DEF OneElection
    <2>1. OneElection /\ Tested
      BY <1>2, <1>4, <1>5, <2>0, UndisturbedTested DEF OneElection
    <2>2. Core /\ LogsEndNewest
      BY <1>1, <2>1 DEF SessionInv, Core
    <2>3. LeaderLeft' /\ OfLeader' /\ ExecutedLast'
      BY <1>2, <2>0, <2>1, <2>2, NextLeft, NextOfLeader, NextExecutedLast
    <2>4. HandlersLast'
      BY <1>2, <1>3, <2>0, <2>1, <2>2, <2>3, NextHandlersLast
    <2>5. ASSUME Undisturbed'
          PROVE  Alone' /\ Numbered' /\ Checked' /\ AckLast'
      <3>1. Alone /\ Numbered /\ Checked /\ AckLast
        BY <1>2, <2>5, StaysUndisturbed DEF KeptInv
      <3> QED
        BY <1>2, <2>0, <2>2, <2>5, <3>1, NextAlone, NextNumbered, NextChecked, NextAckLast
    <2> QED
      BY <1>1, <1>3, <2>3, <2>4, <2>5 DEF KeptInv
  <1>6. CASE ~OneElection' /\ used'.strays = 0
    <2>1. used'.elections > 1
      BY <1>4, <1>6 DEF OneElection
    <2>2. LeaderLeft' /\ OfLeader' /\ ExecutedLast'
      BY <1>4, <2>1 DEF LeaderLeft, OfLeader, ExecutedLast
    <2>3. HandlersLast' /\ ~Undisturbed'
      BY <1>4, <2>1 DEF HandlersLast, Steady, Undisturbed
    <2> QED
      BY <1>1, <1>3, <2>2, <2>3 DEF KeptInv
  <1>7. CASE used'.strays # 0
    <2>1. ~Undisturbed'
      BY <1>7 DEF Undisturbed
    <2> QED
      BY <1>1, <1>3, <1>7, <2>1 DEF KeptInv
  <1> QED
    BY <1>5, <1>6, <1>7

LEMMA KeptInLog ==
    ASSUME KeptInv
    PROVE  AcknowledgedKept
  <1> SUFFICES ASSUME \/ /\ used.elections <= 1 /\ used.restarts = 0
                         /\ used.strays = 0
                      \/ used.elections = 0 /\ used.faults = 0,
                      NEW n \in Node, Newest(n),
                      NEW r \in Acknowledged, Executions(r) # {}
               PROVE  In(log[n], r)
    BY DEF AcknowledgedKept, AcknowledgedInLog, In
  <1>1. TypeOK
    BY DEF KeptInv, SessionInv
  <1>2. ASSUME NEW p \in Seq(Entry), NEW Q, NEW S, Lasts(p, Q, S), In(p, r)
        PROVE  In(log[n], r)
    <2>1. Starts(log[n], p)
      BY <1>2 DEF Lasts
    <2>2. Len(log[n]) \in Nat /\ Len(p) \in Nat /\ Len(p) <= Len(log[n])
      BY <1>1, <2>1, LastTermAt DEF TypeOK, Starts
    <2>3. \A i \in 1 .. Len(p) : i \in 1 .. Len(log[n])
      BY <2>2
    <2> QED
      BY <1>2, <2>1, <2>3 DEF In, Starts
  <1>3. PICK x \in executed : x.entry.req = r
    BY DEF Executions
  <1>4. CASE used.elections <= 1 /\ used.restarts = 0 /\ used.strays = 0
    <2>1. PICK p \in Seq(Entry), Q \in Quorum :
             Lasts(p, Q, {}) /\ x.index < Len(p) /\ p[x.index + 1] = x.entry
      BY <1>4 DEF KeptInv, ExecutedLast
    <2>2. x.index + 1 \in 1 .. Len(p)
      <3>1. x.index \in Nat /\ Len(p) \in Nat
        BY <1>1, LastTermAt DEF TypeOK
      <3> QED
        BY <2>1, <3>1
    <2>3. In(p, r)
      BY <1>3, <2>1, <2>2 DEF In
    <2> QED
      BY <1>2, <2>1, <2>3
  <1>5. CASE used.elections = 0 /\ used.faults = 0
    <2>0. used.strays = 0
      BY <1>5 DEF KeptInv, SessionInv, StraysDeposed
    <2>1. AckedAt(r)
      BY <1>5, <2>0 DEF KeptInv, Undisturbed, AckLast
    <2>2. ~Untouched(r)
      BY <1>3 DEF Untouched
    <2> QED
      BY <1>2, <2>1, <2>2 DEF AckedAt
  <1> QED
    BY <1>4, <1>5

\* The inductive invariant, for any number of elections, lost calls and restarts.
THEOREM KeptInvariant == Spec => []KeptInv
  <1>1. Init => KeptInv
    BY InitKept
  <1>2. KeptInv /\ [Next]_vars => KeptInv'
    BY NextKept
  <1> QED
    BY <1>1, <1>2, PTL DEF Spec

\* A PUT or DELETE that a leader executed and sendClientRequest answered OK stays
\* in the log of the newest leader: over one election against a leader, and over
\* any number of restarts when no call or entry is lost and no leader replaced.
THEOREM AcknowledgedWritesKept == Spec => []AcknowledgedKept
  <1>1. KeptInv => AcknowledgedKept
    BY KeptInLog
  <1> QED
    BY <1>1, KeptInvariant, PTL

-----------------------------------------------------------------------------
(* What a request may still add to what is executed: its entries in logs    *)
(* and files are there to stay, each handler nobody waits for may append it *)
(* or make the cache forget it, and so may each leader that does not        *)
(* remember it.  Only a lost call or entry, an election or the calls of a   *)
(* deposed leader add to these.                                             *)

\* The entry x is at its place in a log.
Has(lg, x) == x.index < Len(lg) /\ lg[x.index + 1] = x.entry
Applied(x) == \E y \in executed : y.index = x.index /\ y.entry = x.entry
Copies(r) ==
    {x \in [index : Nat, entry : Entry] :
        /\ x.entry.req = r
        /\ Applied(x) \/ \E n \in Node : Has(log[n], x) \/ Has(saved[n].log, x)}

\* Handler h may append r, or put another request in r's place in the cache.
Pending(h, r) ==
    \/ h.req = r /\ h.pc = "append"
    \/ /\ ~Awaited(h) /\ h.req.client = r.client
       /\ h.req = r => h.pc \in {"received", "command"}
       /\ h.req # r => h.pc # "persist"
Appends(r) == {h \in handlers : Pending(h, r)}

\* The leaders, or the one to come.
Leading == IF NoLeader THEN {NoNode} ELSE {n \in Node : state[n] = "LEADER"}

\* A session asks for r.
Asks(r) == session[r.client] # Idle /\ session[r.client].req = r

\* The handler has the node's entry for its request, or is about to.
Holds(h) == \/ h.pc = "append"
            \/ h.pc \in {"replicate", "commit"} /\ OfCurrentTerm(h)
Forgets(n, r) ==
    /\ cache[n][r.client].id # r.id
    /\ \A h \in handlers : h.req = r /\ h.node = n /\ Awaited(h) => ~Holds(h)
Open(r) ==
    {n \in Leading : ~GivenOut(r) \/ (Asks(r) /\ (n # NoNode => Forgets(n, r)))}

Bounded(r) ==
    /\ IsFiniteSet(Copies(r)) /\ IsFiniteSet(Appends(r)) /\ IsFiniteSet(Open(r))
    /\ Cardinality(Copies(r)) + Cardinality(Appends(r)) + Cardinality(Open(r))
          <= 1 + used.faults + used.elections + used.strays

\* A request that was not given out is nowhere.
NotYet == \A r \in Request : ~GivenOut(r) => r \notin Live /\ Copies(r) = {}

\* A client waits for one handler at most, which is of its latest attempt.
OneAwaited ==
    /\ \A g, h \in handlers :
          Awaited(g) /\ Awaited(h) /\ g.req.client = h.req.client => g = h
    /\ \A h \in handlers : Asks(h.req) => h.attempt <= session[h.req.client].attempts

\* One leader a term, and one of them is the newest node.
OneLeads ==
    /\ \A n, m \in Node : /\ state[n] = "LEADER" /\ state[m] = "LEADER"
                          /\ currentTerm[n] = currentTerm[m]
                          => n = m
    /\ NoLeader \/ \E n \in Node : Newest(n)

-----------------------------------------------------------------------------
(* Sets that grow by at most d elements.                                   *)

Grows(S, T, d) ==
    IsFiniteSet(S) => IsFiniteSet(T) /\ Cardinality(T) <= Cardinality(S) + d

LEMMA GrowsNone ==
    ASSUME NEW S, NEW T \in SUBSET S
    PROVE  Grows(S, T, 0)
  <1> SUFFICES ASSUME IsFiniteSet(S)
               PROVE  IsFiniteSet(T) /\ Cardinality(T) <= Cardinality(S) + 0
    BY DEF Grows
  <1>1. IsFiniteSet(T) /\ Cardinality(T) <= Cardinality(S)
    BY FS_Subset
  <1>2. Cardinality(S) \in Nat
    BY FS_CardinalityType
  <1> QED
    BY <1>1, <1>2

LEMMA GrowsOne ==
    ASSUME NEW S, NEW b, NEW T \in SUBSET (S \cup {b})
    PROVE  Grows(S, T, 1)
  <1> SUFFICES ASSUME IsFiniteSet(S)
               PROVE  IsFiniteSet(T) /\ Cardinality(T) <= Cardinality(S) + 1
    BY DEF Grows
  <1>1. IsFiniteSet(S \cup {b}) /\ Cardinality(S \cup {b}) <= Cardinality(S) + 1
    <2>1. Cardinality(S) \in Nat
      BY FS_CardinalityType
    <2>2. /\ IsFiniteSet(S \cup {b})
          /\ \/ Cardinality(S \cup {b}) = Cardinality(S)
             \/ Cardinality(S \cup {b}) = Cardinality(S) + 1
      BY FS_AddElement
    <2> QED
      BY <2>1, <2>2
  <1>2. IsFiniteSet(T) /\ Cardinality(T) <= Cardinality(S \cup {b})
    BY <1>1, FS_Subset
  <1>3. Cardinality(S) \in Nat /\ Cardinality(S \cup {b}) \in Nat /\ Cardinality(T) \in Nat
    BY <1>1, <1>2, FS_CardinalityType
  <1> QED
    BY <1>1, <1>2, <1>3

LEMMA ShrinksOne ==
    ASSUME NEW S, NEW a \in S, NEW T \in SUBSET (S \ {a})
    PROVE  Grows(S, T, -1)
  <1> SUFFICES ASSUME IsFiniteSet(S)
               PROVE  IsFiniteSet(T) /\ Cardinality(T) <= Cardinality(S) + (-1)
    BY DEF Grows
  <1>1. IsFiniteSet(S \ {a}) /\ Cardinality(S \ {a}) = Cardinality(S) - 1
    BY FS_RemoveElement
  <1>2. IsFiniteSet(T) /\ Cardinality(T) <= Cardinality(S \ {a})
    BY <1>1, FS_Subset
  <1>3. Cardinality(S) \in Nat /\ Cardinality(S \ {a}) \in Nat /\ Cardinality(T) \in Nat
    BY <1>1, <1>2, FS_CardinalityType
  <1> QED
    BY <1>1, <1>2, <1>3

LEMMA Swaps ==
    ASSUME NEW S, NEW a \in S, NEW b, NEW T \in SUBSET ((S \ {a}) \cup {b})
    PROVE  Grows(S, T, 0)
  <1> SUFFICES ASSUME IsFiniteSet(S)
               PROVE  IsFiniteSet(T) /\ Cardinality(T) <= Cardinality(S) + 0
    BY DEF Grows
  <1>1. IsFiniteSet(S \ {a}) /\ Cardinality(S \ {a}) = Cardinality(S) - 1
    BY FS_RemoveElement
  <1>2. Grows(S \ {a}, T, 1)
    BY GrowsOne
  <1>3. IsFiniteSet(T) /\ Cardinality(T) <= (Cardinality(S) - 1) + 1
    BY <1>1, <1>2 DEF Grows
  <1>4. Cardinality(S) \in Nat /\ Cardinality(T) \in Nat
    BY <1>3, FS_CardinalityType
  <1> QED
    BY <1>3, <1>4

\* What a step does to the three sets of r together.
Moves(r, d) ==
    \E a, b, c \in Int :
        /\ a + b + c <= d
        /\ Grows(Copies(r), Copies(r)', a)
        /\ Grows(Appends(r), Appends(r)', b)
        /\ Grows(Open(r), Open(r)', c)

LEMMA MovesBounded ==
    ASSUME TypeOK, TypeOK', NEW r, NEW d \in Int, Moves(r, d), Bounded(r),
           used'.faults + used'.elections + used'.strays
               >= used.faults + used.elections + used.strays + d
    PROVE  Bounded(r)'
  <1>1. PICK a \in Int, b \in Int, c \in Int :
           /\ a + b + c <= d
           /\ Grows(Copies(r), Copies(r)', a)
           /\ Grows(Appends(r), Appends(r)', b)
           /\ Grows(Open(r), Open(r)', c)
    BY Zenon DEF Moves
  <1>2. /\ IsFiniteSet(Copies(r)) /\ IsFiniteSet(Appends(r)) /\ IsFiniteSet(Open(r))
        /\ IsFiniteSet(Copies(r)') /\ IsFiniteSet(Appends(r)') /\ IsFiniteSet(Open(r)')
        /\ Cardinality(Copies(r)') <= Cardinality(Copies(r)) + a
        /\ Cardinality(Appends(r)') <= Cardinality(Appends(r)) + b
        /\ Cardinality(Open(r)') <= Cardinality(Open(r)) + c
    BY Zenon, <1>1 DEF Grows, Bounded
  <1>3. /\ Cardinality(Copies(r)) \in Nat /\ Cardinality(Appends(r)) \in Nat
        /\ Cardinality(Open(r)) \in Nat /\ Cardinality(Copies(r)') \in Nat
        /\ Cardinality(Appends(r)') \in Nat /\ Cardinality(Open(r)') \in Nat
    BY <1>2, FS_CardinalityType
  <1>4. /\ used.faults \in Nat /\ used.elections \in Nat /\ used.strays \in Nat
        /\ used'.faults \in Nat /\ used'.elections \in Nat /\ used'.strays \in Nat
    BY DEF TypeOK
  <1>5. Cardinality(Copies(r)) + Cardinality(Appends(r)) + Cardinality(Open(r))
          <= 1 + used.faults + used.elections + used.strays
    BY DEF Bounded
  <1>6. Cardinality(Copies(r)') + Cardinality(Appends(r)') + Cardinality(Open(r)')
          <= 1 + used'.faults + used'.elections + used'.strays
    BY <1>1, <1>2, <1>3, <1>4, <1>5
  <1> QED
    BY Zenon, <1>2, <1>6 DEF Bounded

-----------------------------------------------------------------------------
(* How calls end.                                                          *)

\* The client waits for h no more, but for G; of its handlers the rest are left.
Away(h, rest, G) ==
    /\ Awaited(h) /\ rest \subseteq handlers /\ handlers' = rest \cup G
    /\ \A k \in rest : Awaited(k)' <=> Awaited(k) /\ k.req.client # h.req.client
    /\ \A g \in G : g.pc = "received" /\ g.req = h.req /\ Awaited(g)'
    /\ \A r \in Request : Asks(r)' => Asks(r)

Ends(h) ==
    \/ ~Awaited(h) /\ handlers' = handlers \ {h} /\ session' = session
    \/ \E G : Away(h, handlers \ {h}, G)

LEMMA ReturnAway ==
    ASSUME TypeOK, OneAwaited, NEW h \in handlers, Awaited(h),
           NEW rest \in SUBSET handlers, handlers' = rest,
           session' = [session EXCEPT ![h.req.client] = Idle]
    PROVE  OneAwaited' /\ Away(h, rest, {})
  <1>1. PICK c : c = h.req.client
    OBVIOUS
  <1>2. /\ session \in [Client -> {Idle} \cup Waiting]
        /\ \A k \in handlers : k.req.client \in Client
        /\ \A r \in Request : r.client \in Client
    BY DEF TypeOK, Waiting, Handler, Request
  <1>3. session'[c] = Idle /\ \A d \in Client \ {c} : session'[d] = session[d]
    BY <1>1, <1>2
  <1>4. ASSUME NEW k \in rest
        PROVE  Awaited(k)' <=> Awaited(k) /\ k.req.client # c
    BY <1>2, <1>3 DEF Awaited, Idle
  <1>5. ASSUME NEW r, r.client \in Client, Asks(r)'
        PROVE  r.client # c /\ Asks(r) /\ session'[r.client] = session[r.client]
    BY <1>3, <1>5 DEF Asks
  <1>6. Away(h, rest, {})
    <2>1. \A r \in Request : Asks(r)' => Asks(r)
      BY <1>2, <1>5
    <2> QED
      BY <1>1, <1>4, <2>1 DEF Away
  <1>7. ASSUME NEW k \in handlers', Asks(k.req)'
        PROVE  k.attempt <= session'[k.req.client].attempts
    BY <1>2, <1>5, <1>7 DEF OneAwaited
  <1>8. \A k1, k2 \in handlers' :
           Awaited(k1)' /\ Awaited(k2)' /\ k1.req.client = k2.req.client => k1 = k2
    BY <1>4 DEF OneAwaited
  <1> QED
    BY <1>6, <1>7, <1>8 DEF OneAwaited

LEMMA TryAway ==
    ASSUME TypeOK, OneAwaited, NEW h \in handlers, Awaited(h), NEW s \in Attempt,
           s.req = h.req, NEW rest \in SUBSET handlers,
           \/ s.attempts > session[h.req.client].attempts
           \/ s.attempts = session[h.req.client].attempts /\ h \notin rest,
           Try(h.req.client, s, rest)
    PROVE  OneAwaited' /\ \E G : Away(h, rest, G)
  <1>1. PICK c : c = h.req.client
    OBVIOUS
  <1>2. /\ c \in Client /\ session[c] # Idle /\ session[c] \in Waiting
        /\ session[c].req = h.req /\ session \in [Client -> {Idle} \cup Waiting]
        /\ session[c].pc = "wait" /\ session[c].attempts \in Nat /\ s.attempts \in Nat
        /\ s.pc = "wait" /\ session[c].attempts <= s.attempts
    <2>1. c \in Client /\ session[c] # Idle /\ session[c] \in Waiting /\ session[c].req = h.req
      BY <1>1, AwaitedSession
    <2>2. session[c].attempts \in Nat /\ session[c].pc = "wait"
      BY <2>1, NAssumption DEF Waiting
    <2>3. s.attempts \in Nat /\ s.pc = "wait"
      BY DEF Attempt
    <2>4. session[c].attempts <= s.attempts
      BY <1>1, <2>2, <2>3
    <2>5. session \in [Client -> {Idle} \cup Waiting]
      BY DEF TypeOK, Waiting
    <2> QED
      BY Zenon, <2>1, <2>2, <2>3, <2>4, <2>5
  <1>3. /\ \A k \in handlers : /\ k.req.client \in Client /\ k.req \in Request
                               /\ k.attempt \in Nat
        /\ \A r \in Request : r.client \in Client
        /\ h.req \in Request
    <2>1. \A k \in handlers : k.req \in Request /\ k.attempt \in Nat
      BY NAssumption DEF TypeOK, Handler
    <2> QED
      BY <2>1 DEF Request
  <1>4. ASSUME NEW k \in handlers, k.req = h.req
        PROVE  k.attempt <= session[c].attempts
    <2>1. Asks(k.req)
      BY <1>1, <1>2, <1>4 DEF Asks
    <2> QED
      BY <1>1, <1>4, <2>1 DEF OneAwaited
  <1>5. ASSUME NEW k \in handlers, k.req.client # c, session'[k.req.client] = session[k.req.client]
        PROVE  Awaited(k)' <=> Awaited(k)
    BY <1>5 DEF Awaited
  <1>6. ASSUME NEW k1 \in handlers, NEW k2 \in handlers, Awaited(k1), Awaited(k2),
               k1.req.client = k2.req.client
        PROVE  k1 = k2
    BY <1>6 DEF OneAwaited
  <1>7. CASE s.attempts < N
    <2>1. PICK g : g = CallFrom(s)
      OBVIOUS
    <2>2. /\ session' = [session EXCEPT ![c] = s] /\ handlers' = rest \cup {g}
          /\ g.pc = "received" /\ g.req = h.req /\ g.attempt = s.attempts
      BY <1>1, <1>7, <2>1 DEF Try, CallFrom
    <2>3. session'[c] = s /\ \A d \in Client \ {c} : session'[d] = session[d]
      BY <1>2, <2>2
    <2>4. Awaited(g)'
      BY <1>1, <1>2, <2>2, <2>3 DEF Awaited
    <2>5. ASSUME NEW k \in rest, k.req.client = c
          PROVE  ~Awaited(k)'
      <3> SUFFICES ASSUME Awaited(k)' PROVE FALSE
        OBVIOUS
      <3>1. k.req = h.req /\ k.attempt = s.attempts /\ k \in handlers
        BY <2>3, <2>5 DEF Awaited
      <3>2. k.attempt <= session[c].attempts /\ k.attempt \in Nat
        BY <1>3, <1>4, <3>1
      <3>3. s.attempts = session[c].attempts /\ h \notin rest
        BY <1>1, <1>2, <3>1, <3>2
      <3>4. Awaited(k)
        BY <1>2, <2>5, <3>1, <3>3 DEF Awaited
      <3> QED
        BY <1>1, <1>6, <2>5, <3>1, <3>3, <3>4
    <2>6. ASSUME NEW k \in rest PROVE Awaited(k)' <=> Awaited(k) /\ k.req.client # c
      BY <1>3, <1>5, <2>3, <2>5
    <2>7. ASSUME NEW r \in Request, Asks(r)' PROVE Asks(r)
      <3>1. CASE r.client = c
        BY <1>2, <2>3, <2>7, <3>1 DEF Asks
      <3>2. CASE r.client # c
        BY <1>3, <2>3, <2>7, <3>2 DEF Asks
      <3> QED
        BY <3>1, <3>2
    <2>8. Away(h, rest, {g})
      BY <1>1, <2>2, <2>4, <2>6, <2>7 DEF Away
    <2>9. \A k1, k2 \in handlers' :
             Awaited(k1)' /\ Awaited(k2)' /\ k1.req.client = k2.req.client => k1 = k2
      BY <1>1, <1>6, <2>2, <2>6
    <2>10. ASSUME NEW k \in handlers', Asks(k.req)'
           PROVE  k.attempt <= session'[k.req.client].attempts
      <3>1. CASE k = g
        BY <1>1, <1>2, <2>2, <2>3, <3>1
      <3>2. CASE k \in rest /\ k.req.client # c
        BY <1>3, <2>3, <2>10, <3>2 DEF Asks, OneAwaited
      <3>3. CASE k \in rest /\ k.req.client = c
        <4>1. k.req = h.req
          BY <1>2, <2>3, <2>10, <3>3 DEF Asks
        <4>2. k.attempt <= session[c].attempts /\ k.attempt \in Nat
          BY <1>3, <1>4, <3>3, <4>1
        <4> QED
          BY <1>2, <2>3, <3>3, <4>2
      <3> QED
        BY <2>2, <3>1, <3>2, <3>3
    <2>11. OneAwaited'
      BY <2>9, <2>10 DEF OneAwaited
    <2> QED
      BY <2>8, <2>11
  <1>8. CASE ~(s.attempts < N)
    <2>1. session' = [session EXCEPT ![c] = Idle] /\ handlers' = rest
      BY <1>1, <1>8 DEF Try, Return
    <2> QED
      BY <1>1, <2>1, ReturnAway
  <1> QED
    BY <1>7, <1>8

LEMMA Attempts ==
    ASSUME NEW w \in Waiting, NEW n \in Node
    PROVE  /\ [w EXCEPT !.node = n].attempts = w.attempts
           /\ Again(w, n).attempts > w.attempts
  <1>1. w.attempts \in Nat
    BY NAssumption DEF Waiting
  <1>2. [w EXCEPT !.node = n].attempts = w.attempts
    BY DEF Waiting
  <1>3. Again(w, n).attempts = w.attempts + 1
    BY DEF Again, Waiting
  <1> QED
    BY <1>1, <1>2, <1>3

LEMMA LeavesEnds ==
    ASSUME TypeOK, OneAwaited, NEW h \in handlers, ~Awaited(h),
           handlers' = handlers \ {h}, session' = session
    PROVE  Ends(h) /\ OneAwaited'
  <1>1. OneAwaited'
    BY DEF OneAwaited, Awaited, Asks
  <1> QED
    BY <1>1 DEF Ends

LEMMA ReplyEnds ==
    ASSUME TypeOK, OneAwaited, NEW h \in handlers, NEW status, Reply(h, status)
    PROVE  Ends(h) /\ OneAwaited'
  <1>1. CASE ~Awaited(h)
    BY <1>1, LeavesEnds DEF Reply
  <1>2. CASE Awaited(h) /\ status = "OK"
    <2>1. /\ session' = [session EXCEPT ![h.req.client] = Idle]
          /\ handlers' = handlers \ {h}
      BY <1>2 DEF Reply, Return
    <2> QED
      BY <1>2, <2>1, ReturnAway DEF Ends
  <1>3. CASE Awaited(h) /\ status # "OK"
    <2>1. PICK n \in Node : Try(h.req.client, Again(session[h.req.client], n), handlers \ {h})
      BY <1>3 DEF Reply
    <2>2. session[h.req.client] \in Waiting /\ session[h.req.client].req = h.req
      BY <1>3, AwaitedSession
    <2>3. PICK s : s = Again(session[h.req.client], n)
      OBVIOUS
    <2>4. /\ s \in Attempt /\ s.req = h.req
          /\ s.attempts > session[h.req.client].attempts
      BY <2>2, <2>3, NextAttempt, Attempts
    <2> QED
      BY <1>3, <2>1, <2>3, <2>4, TryAway DEF Ends
  <1> QED
    BY <1>1, <1>2, <1>3

LEMMA RedirectEnds ==
    ASSUME TypeOK, OneAwaited, NEW h \in handlers, Redirect(h)
    PROVE  Ends(h) /\ OneAwaited'
  <1>1. CASE ~Awaited(h)
    BY <1>1, LeavesEnds DEF Redirect
  <1>2. CASE Awaited(h)
    <2>1. PICK n \in Node :
             Try(h.req.client, [session[h.req.client] EXCEPT !.node = n], handlers \ {h})
      <3>1. (IF leaderId[h.node] = NoNode THEN Node ELSE {leaderId[h.node]}) \subseteq Node
        BY DEF TypeOK, Handler
      <3> QED
        BY <1>2, <3>1 DEF Redirect
    <2>2. session[h.req.client] \in Waiting /\ session[h.req.client].req = h.req
      BY <1>2, AwaitedSession
    <2>3. PICK s : s = [session[h.req.client] EXCEPT !.node = n]
      OBVIOUS
    <2>4. /\ s \in Attempt /\ s.req = h.req
          /\ s.attempts = session[h.req.client].attempts
      BY <2>2, <2>3, NextAttempt, Attempts
    <2>5. h \notin handlers \ {h}
      OBVIOUS
    <2> QED
      BY <1>2, <2>1, <2>3, <2>4, <2>5, TryAway DEF Ends
  <1> QED
    BY <1>1, <1>2

\* A call times out: its handler is left alone or, if it had not started, gone.
LEMMA TimeoutAway ==
    ASSUME TypeOK, OneAwaited, NEW c \in Client, Timeout(c)
    PROVE  /\ OneAwaited'
           /\ \E h \in handlers, rest \in SUBSET handlers : \E G :
                 /\ h.req.client = c /\ Away(h, rest, G)
                 /\ \A k \in handlers : k \in rest \/ k.pc = "received"
  <1> DEFINE n == (session[c].node + 1) % N
             s == Again(session[c], n)
  <1>1. PICK h \in handlers, rest \in SUBSET handlers :
            /\ h.req.client = c /\ Awaited(h) /\ Try(c, s, rest)
            /\ \A k \in handlers : k \in rest \/ k.pc = "received"
    BY DEF Timeout
  <1>2. session[c] \in Waiting /\ session[c].req = h.req
    BY <1>1, AwaitedSession
  <1>3. n \in Node
    BY <1>2, NAssumption DEF Waiting, Node
  <1>4. s \in Attempt /\ s.req = h.req /\ s.attempts > session[h.req.client].attempts
    BY <1>1, <1>2, <1>3, NextAttempt, Attempts
  <1> HIDE DEF s
  <1> QED
    BY <1>1, <1>4, TryAway

\* A handler goes on with g in its place, in the same call.
Onward(h, g) == Advance(h, g) /\ g.attempt = h.attempt

LEMMA OnwardAwaits ==
    ASSUME TypeOK, OneAwaited, NEW h \in handlers, NEW g, Onward(h, g)
    PROVE  /\ OneAwaited'
           /\ \A k : Awaited(k)' <=> Awaited(k)
           /\ Awaited(g) <=> Awaited(h)
  <1>1. /\ g.req = h.req /\ g.attempt = h.attempt
        /\ handlers' = (handlers \ {h}) \cup {g} /\ session' = session
    BY DEF Onward, Advance
  <1>2. \A k : Awaited(k)' <=> Awaited(k)
    BY <1>1 DEF Awaited
  <1>3. Awaited(g) <=> Awaited(h)
    BY <1>1 DEF Awaited
  <1>4. \A k1, k2 \in handlers' :
           Awaited(k1) /\ Awaited(k2) /\ k1.req.client = k2.req.client => k1 = k2
    BY <1>1, <1>3 DEF OneAwaited
  <1>5. \A k \in handlers' : Asks(k.req)' => k.attempt <= session'[k.req.client].attempts
    BY <1>1 DEF OneAwaited, Asks
  <1> QED
    BY <1>2, <1>3, <1>4, <1>5 DEF OneAwaited

-----------------------------------------------------------------------------
(* The three sets in a step.                                               *)

\* The entry that a handler appends.
NewEntry(h) == [index |-> Len(log[h.node]),
                entry |-> [term |-> currentTerm[h.node], req |-> h.req]]

\* Entries are copied to the same place of another log or file, and applied from
\* there; only AppendEntry makes one.
LEMMA NextCopies ==
    ASSUME TypeOK, [Next]_vars, NEW r, NEW x \in Copies(r)'
    PROVE  \/ x \in Copies(r)
           \/ \E h \in handlers : AppendEntry(h) /\ h.req = r /\ x = NewEntry(h)
  <1> DEFINE Held(lg) == Has(lg, x) => x \in Copies(r)
             New == \E h \in handlers : AppendEntry(h) /\ h.req = r /\ x = NewEntry(h)
  <1>1. x.index \in Nat /\ x.entry.req = r /\ x \in [index : Nat, entry : Entry]
    BY DEF Copies
  <1>2. /\ \A n \in Node : log[n] \in Seq(Entry) /\ Held(log[n]) /\ Held(saved[n].log)
        /\ \A n \in Node : Len(log[n]) \in Nat
        /\ Applied(x) => x \in Copies(r)
    BY <1>1, LastTermAt DEF TypeOK, Copies
  <1> HIDE DEF Held, New
  <1>3. ASSUME NEW n \in Node PROVE Held(log'[n]) \/ New
    <2>1. CASE log' = log
      BY <1>2, <2>1
    <2>2. ASSUME NEW h \in handlers, AppendEntry(h)
          PROVE  Held(log'[n]) \/ New
      <3>1. PICK e : e = [term |-> currentTerm[h.node], req |-> h.req]
        OBVIOUS
      <3>2. /\ h.node \in Node /\ e \in Entry
            /\ log' = [log EXCEPT ![h.node] = Append(log[h.node], e)]
        BY <2>2, <3>1, HandlerAt DEF AppendEntry, TypeOK, Entry
      <3>3. CASE n # h.node
        BY <1>2, <3>2, <3>3 DEF TypeOK
      <3>4. CASE n = h.node
        <4>1. log'[n] = Append(log[n], e)
          BY <3>2, <3>4 DEF TypeOK
        <4>2. /\ Len(log[n]) \in Nat /\ Len(log'[n]) = Len(log[n]) + 1
              /\ \A i \in 1 .. Len(log[n]) : log'[n][i] = log[n][i]
              /\ log'[n][Len(log[n]) + 1] = e
          BY <1>2, <3>2, <4>1, AppendAt
        <4>3. CASE x.index < Len(log[n])
          <5>1. Has(log'[n], x) => Has(log[n], x)
            BY <1>1, <4>2, <4>3 DEF Has
          <5> QED
            BY <1>2, <5>1 DEF Held
        <4>4. CASE x.index = Len(log[n]) /\ x.entry = e
          <5>1. x = NewEntry(h) /\ h.req = r
            BY <1>1, <3>1, <3>4, <4>4 DEF NewEntry
          <5> QED
            BY <2>2, <5>1 DEF New
        <4>5. Has(log'[n], x) => \/ x.index < Len(log[n])
                                 \/ x.index = Len(log[n]) /\ x.entry = e
          BY <1>1, <4>2 DEF Has
        <4> QED
          BY <4>3, <4>4, <4>5 DEF Held
      <3> QED
        BY <3>3, <3>4
    <2>3. ASSUME NEW h \in handlers, NEW Q \in Quorum, Replicate(h, Q)
          PROVE  Held(log'[n])
      <3> DEFINE whole == log[h.node]
                 len == Smaller(h.index + 1, Len(whole))
                 prefix == SubSeq(whole, 1, len)
      <3>1. h.node \in Node /\ h.index \in Nat /\ whole \in Seq(Entry) /\ Len(whole) \in Nat
        BY <1>2, HandlerAt
      <3>2. log'[n] = log[n] \/ log'[n] = prefix
        BY <2>3 DEF Replicate
      <3>3. Len(prefix) = len /\ \A j \in 1 .. len : prefix[j] = whole[j]
        BY <3>1, PrefixType
      <3>4. len \in Nat /\ len <= Len(whole)
        BY <3>1 DEF Smaller
      <3>5. Held(whole)
        BY <1>2, <3>1
      <3>6. Held(prefix)
        <4> HIDE DEF prefix, len, whole
        <4>1. Has(prefix, x) => Has(whole, x)
          BY <1>1, <3>1, <3>3, <3>4 DEF Has
        <4> QED
          BY <3>5, <4>1 DEF Held
      <3> QED
        BY <1>2, <3>2, <3>6
    <2>4. ASSUME NEW m \in Node, HearLeader(m)
          PROVE  Held(log'[n])
      <3>1. PICK k \in Node : log' = [log EXCEPT ![m] = log[k]]
        BY <2>4 DEF HearLeader
      <3>2. log'[n] = log[n] \/ log'[n] = log[k]
        BY <3>1 DEF TypeOK
      <3> QED
        BY <1>2, <3>2
    <2>5. CASE Restart
      BY <1>2, <2>5 DEF Restart
    <2>7. ASSUME NEW h \in handlers, SendsOn(h)
          PROVE  Held(log'[n])
      <3> SUFFICES ASSUME Has(log'[n], x) PROVE x \in Copies(r)
        BY DEF Held
      <3>1. /\ h.node \in Node /\ log'[n] \in Seq(Entry)
            /\ \/ log'[n] = log[n]
               \/ \A i \in 1 .. Len(log'[n]) :
                     \/ i <= Len(log[n]) /\ log'[n][i] = log[n][i]
                     \/ i <= Len(log[h.node]) /\ log'[n][i] = log[h.node][i]
        BY <2>7, SendsOnLogs
      <3>2. Len(log'[n]) \in Nat
        BY <3>1, LastTermAt
      <3>3. x.index + 1 \in 1 .. Len(log'[n]) /\ log'[n][x.index + 1] = x.entry
        BY <1>1, <3>2 DEF Has
      <3>4. Has(log[n], x) \/ Has(log[h.node], x)
        BY <1>1, <1>2, <3>1, <3>3 DEF Has
      <3> QED
        BY <1>2, <3>1, <3>4 DEF Held
    <2>6. \/ log' = log \/ Restart
          \/ \E h \in handlers : \/ AppendEntry(h) \/ SendsOn(h)
                                 \/ \E Q \in Quorum : Replicate(h, Q)
          \/ \E m \in Node : HearLeader(m)
      BY DEF Next, vars, HandlerStep, ClientCommand, OtherCommand, Timeout, Receive,
             CheckCommand, NotReplicated, StepDown, Commit, NotCommitted,
             PersistAndReply, Elect, HearVote
    <2> QED
      BY <2>1, <2>2, <2>3, <2>4, <2>5, <2>6, <2>7
  <1>4. \A n \in Node : Held(saved'[n].log) \/ New
    <2>1. \A n \in Node : saved'[n].log \in {saved[n].log, log'[n]}
      BY FilesSaved DEF Save
    <2> QED
      BY <1>2, <1>3, <2>1
  <1>5. Applied(x)' => x \in Copies(r)
    <2> SUFFICES ASSUME NEW y \in executed', y.index = x.index, y.entry = x.entry,
                        y \notin executed
                 PROVE  x \in Copies(r)
      BY <1>2 DEF Applied
    <2>2. ASSUME NEW h \in handlers, Commit(h)
          PROVE  x \in Copies(r)
      <3>1. PICK i \in lastApplied[h.node] + 1 .. h.index :
               x.index = i /\ x.entry = log[h.node][i + 1]
        BY <2>2, Committed
      <3>2. /\ h.node \in Node /\ h.index \in Nat /\ lastApplied[h.node] \in Nat
            /\ h.index < Len(log[h.node]) /\ Len(log[h.node]) \in Nat
        BY <2>2, HandlerAt, LastTermAt DEF TypeOK, Commit, OfCurrentTerm
      <3>3. Has(log[h.node], x)
        BY <3>1, <3>2 DEF Has
      <3> QED
        BY <1>2, <3>2, <3>3 DEF Held
    <2>3. executed' = executed \/ \E h \in handlers : Commit(h)
      BY StraySpends DEF Next, vars, HandlerStep, ClientCommand, OtherCommand, Timeout,
             Receive, CheckCommand, AppendEntry, Replicate, NotReplicated, StepDown,
             NotCommitted, PersistAndReply, Elect, HearVote, HearLeader, Restart
    <2> QED
      BY <2>2, <2>3
  <1>6. Applied(x)' \/ \E n \in Node : Has(log'[n], x) \/ Has(saved'[n].log, x)
    BY DEF Copies
  <1>7. x \in Copies(r) \/ New
    BY <1>3, <1>4, <1>5, <1>6 DEF Held
  <1> QED
    BY <1>7 DEF New

\* A node hears of a newer term.
Demoted(a) ==
    \E k \in Node :
        /\ currentTerm[k] > currentTerm[a]
        /\ state' = [state EXCEPT ![a] = "FOLLOWER"]
        /\ currentTerm' = [currentTerm EXCEPT ![a] = currentTerm[k]]

LEMMA RoleSteps ==
    ASSUME TypeOK, [Next]_vars
    PROVE  \/ UNCHANGED <<state, currentTerm>>
           \/ \E a \in Node : Demoted(a)
           \/ \E n \in Node, Q \in Quorum : Elect(n, Q)
           \/ Restart
  <1>1. ASSUME NEW h \in handlers, StepDown(h) PROVE \E a \in Node : Demoted(a)
    <2>1. h.node \in Node
      BY HandlerAt
    <2> QED
      BY <1>1, <2>1 DEF StepDown, Demoted
  <1>2. ASSUME NEW m \in Node, HearVote(m) PROVE \E a \in Node : Demoted(a)
    BY <1>2 DEF HearVote, Demoted
  <1>3. \/ UNCHANGED <<state, currentTerm>>
        \/ \E h \in handlers : StepDown(h)
        \/ \E m \in Node : HearVote(m)
        \/ \E n \in Node, Q \in Quorum : Elect(n, Q)
        \/ Restart
    BY StraySaves DEF Next, vars, roleVars, HandlerStep, ClientCommand, OtherCommand, Timeout,
           Receive, CheckCommand, AppendEntry, Replicate, NotReplicated, Commit,
           NotCommitted, PersistAndReply, HearLeader
  <1> QED
    BY <1>1, <1>2, <1>3

LEMMA ElectTerms ==
    ASSUME TypeOK, NEW n \in Node, NEW Q \in Quorum, Elect(n, Q)
    PROVE  /\ n \in Q /\ state[n] = "FOLLOWER" /\ state'[n] = "LEADER"
           /\ \A k \in Node : state'[k] = "LEADER" =>
                 k = n \/ (k \notin Q /\ state[k] = "LEADER")
           /\ \A k \in Node \ Q : currentTerm'[k] = currentTerm[k]
           /\ \A k \in Node : /\ currentTerm'[n] > currentTerm[k]
                              /\ currentTerm'[n] >= currentTerm'[k]
  <1>1. PICK m \in Node :
           /\ \A k \in Node : currentTerm[m] >= currentTerm[k]
           /\ currentTerm' = [k \in Node |-> IF k \in Q THEN currentTerm[m] + 1
                                             ELSE currentTerm[k]]
    BY Zenon DEF Elect
  <1>2. /\ n \in Q /\ state[n] = "FOLLOWER"
        /\ state' = [k \in Node |-> IF k = n THEN "LEADER"
                                    ELSE IF k \in Q THEN "FOLLOWER" ELSE state[k]]
    BY Zenon DEF Elect
  <1>3. \A k \in Node : currentTerm[k] \in Nat
    BY DEF TypeOK
  <1> QED
    BY <1>1, <1>2, <1>3

LEMMA NextOneLeads ==
    ASSUME TypeOK, OneLeads, [Next]_vars
    PROVE  OneLeads'
  <1>1. \A n \in Node : currentTerm[n] \in Nat
    BY DEF TypeOK
  <1>2. CASE UNCHANGED <<state, currentTerm>>
    BY <1>2 DEF OneLeads, NoLeader, Newest
  <1>3. ASSUME NEW a \in Node, Demoted(a) PROVE OneLeads'
    <2>1. PICK k \in Node :
             /\ currentTerm[k] > currentTerm[a]
             /\ state' = [state EXCEPT ![a] = "FOLLOWER"]
             /\ currentTerm' = [currentTerm EXCEPT ![a] = currentTerm[k]]
      BY <1>3 DEF Demoted
    <2>2. /\ state'[a] = "FOLLOWER" /\ currentTerm'[a] = currentTerm[k]
          /\ \A n \in Node \ {a} : /\ state'[n] = state[n]
                                   /\ currentTerm'[n] = currentTerm[n]
      BY <2>1 DEF TypeOK
    <2>3. ASSUME NEW n \in Node, Newest(n) PROVE Newest(n)'
      <3>1. state[n] = "LEADER" /\ \A m \in Node : currentTerm[n] >= currentTerm[m]
        BY <2>3 DEF Newest
      <3>2. n # a
        BY <1>1, <2>1, <3>1
      <3>3. \A m \in Node : currentTerm'[n] >= currentTerm'[m]
        BY <2>2, <3>1, <3>2
      <3> QED
        BY <2>2, <3>1, <3>2, <3>3 DEF Newest
    <2>4. \A n, m \in Node : /\ state'[n] = "LEADER" /\ state'[m] = "LEADER"
                             /\ currentTerm'[n] = currentTerm'[m]
                             => n = m
      BY <2>2 DEF OneLeads
    <2>5. NoLeader' \/ \E n \in Node : Newest(n)'
      <3>1. CASE NoLeader
        BY <2>2, <3>1 DEF NoLeader
      <3> QED
        BY <2>3, <3>1 DEF OneLeads
    <2> QED
      BY <2>4, <2>5 DEF OneLeads
  <1>4. ASSUME NEW n \in Node, NEW Q \in Quorum, Elect(n, Q) PROVE OneLeads'
    <2>1. /\ n \in Q /\ state'[n] = "LEADER"
          /\ \A k \in Node : state'[k] = "LEADER" =>
                k = n \/ (k \notin Q /\ state[k] = "LEADER")
          /\ \A k \in Node \ Q : currentTerm'[k] = currentTerm[k]
          /\ \A k \in Node : /\ currentTerm'[n] > currentTerm[k]
                             /\ currentTerm'[n] >= currentTerm'[k]
      BY <1>4, ElectTerms
    <2>2. \A k \in Node \ Q : ~(currentTerm'[n] = currentTerm'[k])
      <3>1. currentTerm' \in [Node -> Nat]
        BY NextNodes DEF NodesTyped
      <3> QED
        BY <1>1, <2>1, <3>1
    <2>3. \A k, m \in Node : /\ state'[k] = "LEADER" /\ state'[m] = "LEADER"
                             /\ currentTerm'[k] = currentTerm'[m]
                             => k = m
      BY <2>1, <2>2 DEF OneLeads
    <2>4. Newest(n)'
      BY <2>1 DEF Newest
    <2> QED
      BY <2>3, <2>4 DEF OneLeads
  <1>5. CASE Restart
    BY <1>5 DEF Restart, OneLeads, NoLeader
  <1> QED
    BY <1>2, <1>3, <1>4, <1>5, RoleSteps

\* Roles are kept, or a node other than the newest loses its own.
Led == UNCHANGED <<state, currentTerm>> \/ \E a \in Node : Demoted(a)

LEMMA LedStays ==
    ASSUME TypeOK, OneLeads, Led
    PROVE  Leading' \subseteq Leading
  <1>1. CASE UNCHANGED <<state, currentTerm>>
    BY <1>1 DEF Leading, NoLeader
  <1>2. ASSUME NEW a \in Node, Demoted(a) PROVE Leading' \subseteq Leading
    <2>1. \A m \in Node : state'[m] = "LEADER" => state[m] = "LEADER"
      BY <1>2 DEF Demoted, TypeOK
    <2>2. CASE NoLeader
      BY <2>1, <2>2 DEF Leading, NoLeader
    <2>3. CASE ~NoLeader
      <3>1. PICK m \in Node : Newest(m)
        BY <2>3 DEF OneLeads
      <3>2. state[m] = "LEADER" /\ m # a
        <4>1. \A k \in Node : currentTerm[k] \in Nat
          BY DEF TypeOK
        <4> QED
          BY <1>2, <3>1, <4>1 DEF Newest, Demoted
      <3>3. state'[m] = "LEADER"
        BY <1>2, <3>2 DEF Demoted, TypeOK
      <3> QED
        BY <2>1, <2>3, <3>3 DEF Leading, NoLeader
    <2> QED
      BY <2>2, <2>3
  <1> QED
    BY <1>1, <1>2 DEF Led

\* A leader keeps its term and its entries.
LEMMA LeaderKeeps ==
    ASSUME TypeOK, OneLeads, Tested, [Next]_vars, NEW n \in Node,
           state[n] = "LEADER", state'[n] = "LEADER"
    PROVE  /\ currentTerm'[n] = currentTerm[n]
           /\ Len(log[n]) \in Nat /\ Len(log'[n]) \in Nat /\ Len(log[n]) <= Len(log'[n])
           /\ \A i \in 1 .. Len(log[n]) : log'[n][i] = log[n][i]
  <1>1. ~Restart
    BY DEF Restart
  <1>2. log[n] \in Seq(Entry) /\ Len(log[n]) \in Nat
    BY LastTermAt DEF TypeOK
  <1>3. currentTerm'[n] = currentTerm[n]
    <2>1. ASSUME NEW a \in Node, Demoted(a) PROVE currentTerm'[n] = currentTerm[n]
      <3>1. n # a
        BY <2>1 DEF Demoted, TypeOK
      <3> QED
        BY <2>1, <3>1 DEF Demoted, TypeOK
    <2>2. ASSUME NEW m \in Node, NEW Q \in Quorum, Elect(m, Q)
          PROVE  currentTerm'[n] = currentTerm[n]
      <3>1. n \notin Q
        BY <2>2, ElectTerms
      <3> QED
        BY <2>2, <3>1, ElectTerms
    <2> QED
      BY <1>1, <2>1, <2>2, RoleSteps
  <1>4. ASSUME NEW h \in handlers, AppendEntry(h)
        PROVE  \/ log'[n] = log[n]
               \/ \E e \in Entry : log'[n] = Append(log[n], e)
    <2>1. PICK e : e = [term |-> currentTerm[h.node], req |-> h.req]
      OBVIOUS
    <2>2. /\ h.node \in Node /\ e \in Entry
          /\ log' = [log EXCEPT ![h.node] = Append(log[h.node], e)]
      BY <1>4, <2>1, HandlerAt DEF AppendEntry, TypeOK, Entry
    <2> QED
      BY <2>2 DEF TypeOK
  <1>5. ASSUME NEW h \in handlers, NEW Q \in Quorum, Replicate(h, Q)
        PROVE  log'[n] = log[n]
    <2> DEFINE len == Smaller(h.index + 1, Len(log[h.node]))
               prefix == SubSeq(log[h.node], 1, len)
    <2>1. h.node \in Node /\ h.index \in Nat /\ log[h.node] \in Seq(Entry)
          /\ Len(log[h.node]) \in Nat
      BY HandlerAt, LastTermAt DEF TypeOK
    <2>2. /\ state[h.node] = "LEADER" /\ \A m \in Q : currentTerm[m] = currentTerm[h.node]
          /\ log' = [m \in Node |-> IF m \notin Q \/ Extends(log[m], prefix)
                                    THEN log[m] ELSE prefix]
      BY <1>5 DEF Replicate
    <2>3. CASE n \notin Q
      BY <2>2, <2>3
    <2>4. CASE n \in Q
      <3>1. n = h.node
        BY <2>1, <2>2, <2>4 DEF OneLeads
      <3>2. Len(prefix) = len
        BY <2>1, PrefixType
      <3>3. len <= Len(log[n])
        BY <2>1, <3>1 DEF Smaller
      <3>4. Extends(log[n], prefix)
        BY <2>1, <3>1, <3>2, <3>3 DEF Extends
      <3> HIDE DEF prefix
      <3> QED
        BY <2>2, <3>4
    <2> QED
      BY <2>3, <2>4
  <1>6. ASSUME NEW m \in Node, HearLeader(m)
        PROVE  log'[n] = log[n]
    <2>1. PICK k \in Node \ {m} : /\ state[k] = "LEADER" /\ currentTerm[k] = currentTerm[m]
                                  /\ log' = [log EXCEPT ![m] = log[k]]
      BY <1>6 DEF HearLeader
    <2>2. n # m
      BY <2>1 DEF OneLeads
    <2> QED
      BY <2>1, <2>2 DEF TypeOK
  <1>7. log'[n] = log[n] \/ \E e \in Entry : log'[n] = Append(log[n], e)
    <2>1. \/ log' = log
          \/ \E h \in handlers : AppendEntry(h) \/ \E Q \in Quorum : Replicate(h, Q)
          \/ \E m \in Node : HearLeader(m)
      BY <1>1 DEF Tested, Next, vars, HandlerStep, ClientCommand, OtherCommand, Timeout, Receive,
             CheckCommand, NotReplicated, StepDown, Commit, NotCommitted,
             PersistAndReply, Elect, HearVote
    <2> QED
      BY <1>4, <1>5, <1>6, <2>1
  <1>8. ASSUME NEW e \in Entry, log'[n] = Append(log[n], e)
        PROVE  /\ Len(log'[n]) = Len(log[n]) + 1
               /\ \A i \in 1 .. Len(log[n]) : log'[n][i] = log[n][i]
    BY <1>2, <1>8, AppendAt
  <1> QED
    BY <1>2, <1>3, <1>7, <1>8

LEMMA HoldStays ==
    ASSUME TypeOK, OneLeads, Tested, [Next]_vars, NEW h \in handlers, Holds(h),
           state[h.node] = "LEADER", state'[h.node] = "LEADER"
    PROVE  Holds(h)'
  <1>1. h.node \in Node /\ h.index \in Nat
    BY HandlerAt
  <1>2. /\ currentTerm'[h.node] = currentTerm[h.node]
        /\ Len(log[h.node]) \in Nat /\ Len(log'[h.node]) \in Nat
        /\ Len(log[h.node]) <= Len(log'[h.node])
        /\ \A i \in 1 .. Len(log[h.node]) : log'[h.node][i] = log[h.node][i]
    BY <1>1, LeaderKeeps
  <1>3. ASSUME OfCurrentTerm(h) PROVE OfCurrentTerm(h)'
    <2>1. h.index + 1 \in 1 .. Len(log[h.node]) /\ h.index < Len(log'[h.node])
      BY <1>1, <1>2, <1>3 DEF OfCurrentTerm
    <2>2. log'[h.node][h.index + 1] = log[h.node][h.index + 1]
      BY <1>2, <2>1
    <2> QED
      BY <1>2, <1>3, <2>1, <2>2 DEF OfCurrentTerm
  <1> QED
    BY <1>3 DEF Holds

LEMMA HandlerLed ==
    ASSUME TypeOK, NEW h \in handlers, HandlerStep(h)
    PROVE  Led
  <1>1. CASE StepDown(h)
    <2>1. h.node \in Node
      BY HandlerAt
    <2> QED
      BY <1>1, <2>1 DEF StepDown, Demoted, Led
  <1>2. CASE ~StepDown(h)
    BY <1>2, StraySaves DEF HandlerStep, Led, roleVars, Receive, CheckCommand, AppendEntry,
       Replicate, NotReplicated, Commit, NotCommitted, PersistAndReply
  <1> QED
    BY <1>1, <1>2

\* A leader that has a request open had it open before, as long as nothing it held
\* against it is gone.
LEMMA OpenStays ==
    ASSUME TypeOK, TypeOK', LiveNumbered, OneLeads, [Next]_vars, NEW r \in Request,
           NEW n \in Open(r)', n \in Leading,
           GivenOut(r) /\ Asks(r)' => Asks(r),
           /\ GivenOut(r) /\ Asks(r) /\ n \in Node
           /\ cache[n][r.client].id = r.id
           => cache'[n][r.client].id = r.id,
           \A h \in handlers :
              /\ n \in Node /\ state[n] = "LEADER" /\ state'[n] = "LEADER"
              /\ h.req = r /\ h.node = n /\ Awaited(h) /\ Holds(h)
              => \E g \in handlers' :
                    g.req = r /\ g.node = n /\ Awaited(g)' /\ Holds(g)'
    PROVE  n \in Open(r)
  <1> SUFFICES ASSUME GivenOut(r)
               PROVE  Asks(r) /\ (n # NoNode => Forgets(n, r))
    BY DEF Open
  <1>1. GivenOut(r)'
    BY GivenOutStays
  <1>2. n \in Leading' /\ Asks(r)' /\ (n # NoNode => Forgets(n, r)')
    BY <1>1 DEF Open
  <1>3. Asks(r)
    BY <1>2
  <1>4. ASSUME n # NoNode PROVE Forgets(n, r)
    <2>1. n \in Node /\ state[n] = "LEADER" /\ state'[n] = "LEADER"
      BY <1>2, <1>4 DEF Leading
    <2>2. /\ cache'[n][r.client].id # r.id
          /\ \A g \in handlers' : g.req = r /\ g.node = n /\ Awaited(g)' => ~Holds(g)'
      BY <1>2, <1>4 DEF Forgets
    <2> QED
      BY <1>3, <2>1, <2>2 DEF Forgets
  <1> QED
    BY <1>3, <1>4

\* A handler that goes on.
LEMMA OnwardAppends ==
    ASSUME TypeOK, OneAwaited, NEW h \in handlers, NEW g, Onward(h, g), NEW r
    PROVE  /\ Pending(g, r)' <=> Pending(g, r)
           /\ Appends(r)' \subseteq Appends(r) \cup {g}
           /\ ~Pending(g, r) => Appends(r)' \subseteq Appends(r) \ {h}
           /\ (Pending(g, r) => Pending(h, r)) => Grows(Appends(r), Appends(r)', 0)
  <1>1. handlers' = (handlers \ {h}) \cup {g}
    BY DEF Onward, Advance
  <1>2. \A k : Pending(k, r)' <=> Pending(k, r)
    BY OnwardAwaits DEF Pending
  <1>3. Appends(r)' \subseteq Appends(r) \cup {g}
    BY <1>1, <1>2 DEF Appends
  <1>4. ASSUME ~Pending(g, r) PROVE Appends(r)' \subseteq Appends(r) \ {h}
    BY <1>1, <1>2, <1>4 DEF Appends
  <1>5. ASSUME Pending(g, r) => Pending(h, r)
        PROVE  Grows(Appends(r), Appends(r)', 0)
    <2>1. CASE Pending(h, r)
      <3>1. /\ h \in Appends(r)
            /\ Appends(r)' \in SUBSET ((Appends(r) \ {h}) \cup {g})
        BY <1>1, <1>2, <2>1 DEF Appends
      <3> QED
        BY <3>1, Swaps
    <2>2. CASE ~Pending(h, r)
      <3>1. Appends(r)' \in SUBSET Appends(r)
        BY <1>4, <1>5, <2>2
      <3> QED
        BY <3>1, GrowsNone
    <2> QED
      BY <2>1, <2>2
  <1> QED
    BY <1>2, <1>3, <1>4, <1>5

LEMMA OnwardOpen ==
    ASSUME TypeOK, TypeOK', LiveNumbered, OneAwaited, OneLeads, Tested, [Next]_vars, Led,
           NEW h \in handlers, NEW g, Onward(h, g), NEW r \in Request,
           NEW n \in Open(r)',
           /\ GivenOut(r) /\ Asks(r) /\ n \in Node
           /\ cache[n][r.client].id = r.id
           => cache'[n][r.client].id = r.id,
           /\ h.req = r /\ Awaited(h) /\ Holds(h)
           /\ state[h.node] = "LEADER" /\ state'[h.node] = "LEADER"
           => Holds(g)'
    PROVE  n \in Open(r)
  <1>1. n \in Leading
    BY LedStays DEF Open
  <1>2. /\ handlers' = (handlers \ {h}) \cup {g} /\ session' = session
        /\ g.req = h.req /\ g.node = h.node
    BY DEF Onward, Advance
  <1>3. Asks(r)' => Asks(r)
    BY <1>2 DEF Asks
  <1>4. ASSUME NEW k \in handlers, state[n] = "LEADER", state'[n] = "LEADER",
               k.req = r, k.node = n, Awaited(k), Holds(k)
        PROVE  \E j \in handlers' : j.req = r /\ j.node = n /\ Awaited(j)' /\ Holds(j)'
    <2>1. CASE k = h
      <3>1. Holds(g)' /\ Awaited(g)' /\ g \in handlers'
        BY <1>2, <1>4, <2>1, OnwardAwaits
      <3> QED
        BY <1>2, <1>4, <2>1, <3>1
    <2>2. CASE k # h
      <3>1. Holds(k)' /\ Awaited(k)' /\ k \in handlers'
        BY <1>2, <1>4, <2>2, OnwardAwaits, HoldStays
      <3> QED
        BY <1>4, <3>1
    <2> QED
      BY <2>1, <2>2
  <1> QED
    BY <1>1, <1>3, <1>4, OpenStays

\* A handler that ends: the others are awaited as before, and none may append more.
LEMMA EndsLeaves ==
    ASSUME OneAwaited, NEW h \in handlers, Ends(h), NEW r \in Request
    PROVE  /\ Appends(r)' \subseteq Appends(r)
           /\ Asks(r)' => Asks(r)
           /\ \A k \in handlers \ {h} : k \in handlers' /\ (Awaited(k)' <=> Awaited(k))
  <1>1. PICK G : /\ handlers' = (handlers \ {h}) \cup G
                 /\ \A g \in G : g.pc = "received" /\ Awaited(g)' /\ g.req = h.req
                 /\ \A k \in handlers \ {h} : Awaited(k)' <=> Awaited(k)
                 /\ Asks(r)' => Asks(r)
    <2>1. CASE ~Awaited(h) /\ handlers' = handlers \ {h} /\ session' = session
      <3>1. PICK G : G = {}
        OBVIOUS
      <3>2. /\ handlers' = (handlers \ {h}) \cup G
            /\ \A g \in G : g.pc = "received" /\ Awaited(g)' /\ g.req = h.req
        BY <2>1, <3>1
      <3>3. /\ \A k \in handlers \ {h} : Awaited(k)' <=> Awaited(k)
            /\ Asks(r)' => Asks(r)
        BY <2>1 DEF Awaited, Asks
      <3> HIDE <3>1
      <3> QED
        BY Zenon, <3>2, <3>3
    <2>2. ASSUME NEW G, Away(h, handlers \ {h}, G)
          PROVE  /\ handlers' = (handlers \ {h}) \cup G
                 /\ \A g \in G : g.pc = "received" /\ Awaited(g)' /\ g.req = h.req
                 /\ \A k \in handlers \ {h} : Awaited(k)' <=> Awaited(k)
                 /\ Asks(r)' => Asks(r)
      <3>1. \A k \in handlers \ {h} : Awaited(k) => k.req.client # h.req.client
        BY <2>2 DEF Away, OneAwaited
      <3> QED
        BY <2>2, <3>1 DEF Away
    <2> QED
      BY <2>1, <2>2 DEF Ends
  <1>2. \A k \in handlers \ {h} : Pending(k, r)' => Pending(k, r)
    BY <1>1 DEF Pending
  <1>3. \A g \in G : ~Pending(g, r)'
    BY <1>1 DEF Pending
  <1>4. Appends(r)' \subseteq Appends(r)
    BY <1>1, <1>2, <1>3 DEF Appends
  <1> QED
    BY <1>1, <1>4

\* In a step that leaves the caches alone.
LEMMA EndsMoves ==
    ASSUME TypeOK, TypeOK', LiveNumbered, OneAwaited, OneLeads, Tested, [Next]_vars, Led,
           NEW h \in handlers, Ends(h), cache' = cache, NEW r \in Request
    PROVE  /\ Appends(r)' \subseteq Appends(r)
           /\ Open(r)' \subseteq Open(r) \cup {h.node}
           /\ ~(/\ Holds(h) /\ Awaited(h) /\ h.req = r
                /\ state[h.node] = "LEADER" /\ state'[h.node] = "LEADER")
              => Open(r)' \subseteq Open(r)
  <1>1. /\ Asks(r)' => Asks(r)
        /\ \A k \in handlers \ {h} : k \in handlers' /\ (Awaited(k)' <=> Awaited(k))
    BY EndsLeaves
  <1>4. Appends(r)' \subseteq Appends(r)
    BY EndsLeaves
  <1>5. ASSUME NEW n \in Open(r)',
               ~(/\ Holds(h) /\ Awaited(h) /\ h.req = r /\ h.node = n
                 /\ state[n] = "LEADER" /\ state'[n] = "LEADER")
        PROVE  n \in Open(r)
    <2>1. n \in Leading
      BY LedStays DEF Open
    <2>2. ASSUME NEW k \in handlers, state[n] = "LEADER", state'[n] = "LEADER",
                 k.req = r, k.node = n, Awaited(k), Holds(k)
          PROVE  \E j \in handlers' : j.req = r /\ j.node = n /\ Awaited(j)' /\ Holds(j)'
      <3>1. k # h
        BY <1>5, <2>2
      <3>2. Holds(k)' /\ Awaited(k)' /\ k \in handlers'
        BY <1>1, <2>2, <3>1, HoldStays
      <3> QED
        BY <2>2, <3>2
    <2> QED
      BY <1>1, <2>1, <2>2, OpenStays
  <1>6. Open(r)' \subseteq Open(r) \cup {h.node}
    BY <1>5
  <1> QED
    BY <1>4, <1>5, <1>6

-----------------------------------------------------------------------------
(* The steps of a handler.                                                 *)

LEMMA AppendLeaves ==
    ASSUME TypeOK, NEW k \in handlers, AppendEntry(k)
    PROVE  k \notin handlers' /\ k.pc = "append"
  <1>1. k \in Handler /\ k.pc = "append"
    BY HandlerAt DEF AppendEntry
  <1>2. [k EXCEPT !.pc = "replicate", !.index = Len(log[k.node])].pc = "replicate"
    BY <1>1 DEF Handler
  <1> QED
    BY <1>1, <1>2 DEF AppendEntry

LEMMA CopiesKept ==
    ASSUME TypeOK, [Next]_vars, NEW r, \A k \in handlers : AppendEntry(k) => k.req # r
    PROVE  Grows(Copies(r), Copies(r)', 0)
  <1>1. Copies(r)' \in SUBSET Copies(r)
    BY NextCopies
  <1> QED
    BY <1>1, GrowsNone

LEMMA EndsWeighs ==
    ASSUME TypeOK, TypeOK', LiveNumbered, OneAwaited, OneLeads, Tested, [Next]_vars,
           NEW h \in handlers, HandlerStep(h), Ends(h), cache' = cache, h.pc # "append",
           NEW r \in Request
    PROVE  /\ Moves(r, 1)
           /\ ~(Holds(h) /\ state[h.node] = "LEADER" /\ state'[h.node] = "LEADER")
              => Moves(r, 0)
  <1>1. /\ Appends(r)' \subseteq Appends(r)
        /\ Open(r)' \subseteq Open(r) \cup {h.node}
        /\ ~(Holds(h) /\ state[h.node] = "LEADER" /\ state'[h.node] = "LEADER")
              => Open(r)' \subseteq Open(r)
    BY HandlerLed, EndsMoves
  <1>2. Grows(Copies(r), Copies(r)', 0)
    <2>1. \A k \in handlers \ {h} : k \in handlers'
      BY DEF Ends, Away
    <2>2. \A k \in handlers : ~AppendEntry(k)
      BY <2>1, AppendLeaves
    <2> QED
      BY <2>2, CopiesKept
  <1>3. Grows(Appends(r), Appends(r)', 0)
    BY <1>1, GrowsNone
  <1>4. Grows(Open(r), Open(r)', 1)
    BY <1>1, GrowsOne
  <1>5. Moves(r, 1)
    <2>1. 0 + 0 + 1 <= 1 /\ 0 \in Int /\ 1 \in Int
      OBVIOUS
    <2> QED
      BY Zenon, <1>2, <1>3, <1>4, <2>1 DEF Moves
  <1>6. ASSUME Open(r)' \subseteq Open(r) PROVE Moves(r, 0)
    <2>1. Grows(Open(r), Open(r)', 0)
      BY <1>6, GrowsNone
    <2>2. 0 + 0 + 0 <= 0 /\ 0 \in Int
      OBVIOUS
    <2> QED
      BY Zenon, <1>2, <1>3, <2>1, <2>2 DEF Moves
  <1> QED
    BY <1>1, <1>5, <1>6

LEMMA OnwardWeighs ==
    ASSUME TypeOK, TypeOK', LiveNumbered, OneAwaited, OneLeads, Tested, [Next]_vars,
           NEW h \in handlers, HandlerStep(h), NEW g, Onward(h, g), cache' = cache,
           h.pc # "append", NEW r \in Request, Pending(g, r) => Pending(h, r),
           /\ Holds(h) /\ state[h.node] = "LEADER" /\ state'[h.node] = "LEADER"
           => Holds(g)'
    PROVE  Moves(r, 0)
  <1>1. Grows(Appends(r), Appends(r)', 0)
    BY OnwardAppends
  <1>2. Open(r)' \subseteq Open(r)
    BY HandlerLed, OnwardOpen
  <1>3. Grows(Open(r), Open(r)', 0)
    BY <1>2, GrowsNone
  <1>4. Grows(Copies(r), Copies(r)', 0)
    <2>1. \A k \in handlers \ {h} : k \in handlers'
      BY DEF Onward, Advance
    <2>2. \A k \in handlers : ~AppendEntry(k)
      BY <2>1, AppendLeaves
    <2> QED
      BY <2>2, CopiesKept
  <1>5. 0 + 0 + 0 <= 0 /\ 0 \in Int
    OBVIOUS
  <1> QED
    BY Zenon, <1>1, <1>3, <1>4, <1>5 DEF Moves

LEMMA GoOnward ==
    ASSUME TypeOK, NEW h \in handlers, NEW p \in {"command", "append", "commit"}, Go(h, p)
    PROVE  \E g : /\ Onward(h, g) /\ g.pc = p /\ g.index = h.index
                  /\ g.req = h.req /\ g.node = h.node
  <1>1. PICK g : g = [h EXCEPT !.pc = p]
    OBVIOUS
  <1>2. g.pc = p /\ g.index = h.index /\ g.req = h.req /\ g.node = h.node
        /\ g.attempt = h.attempt
    BY <1>1, HandlerAt DEF Handler
  <1>3. Advance(h, g)
    BY <1>1, GoAdvances
  <1> QED
    BY <1>2, <1>3 DEF Onward

LEMMA ReceiveWeighs ==
    ASSUME TypeOK, TypeOK', LiveNumbered, OneAwaited, OneLeads, Tested, [Next]_vars,
           NEW h \in handlers, Receive(h), NEW r \in Request
    PROVE  OneAwaited' /\ Moves(r, 0)
  <1>1. /\ h.pc = "received" /\ cache' = cache /\ HandlerStep(h) /\ ~Holds(h)
        /\ h.pc # "append"
    BY DEF Receive, HandlerStep, Holds
  <1>2. CASE Go(h, "command")
    <2>1. PICK g : /\ Onward(h, g) /\ g.pc = "command" /\ g.req = h.req
      BY <1>2, GoOnward
    <2>2. Pending(g, r) => Pending(h, r)
      BY <1>1, <2>1, OnwardAwaits DEF Pending
    <2>3. OneAwaited'
      BY <2>1, OnwardAwaits
    <2> QED
      BY <1>1, <2>1, <2>2, <2>3, OnwardWeighs
  <1>3. CASE Redirect(h)
    <2>1. Ends(h) /\ OneAwaited'
      BY <1>3, RedirectEnds
    <2> QED
      BY <1>1, <2>1, EndsWeighs
  <1> QED
    BY <1>2, <1>3 DEF Receive

LEMMA CheckWeighs ==
    ASSUME TypeOK, TypeOK', LiveNumbered, NotYet, OneAwaited, OneLeads, Tested, [Next]_vars,
           NEW h \in handlers, CheckCommand(h), NEW r \in Request
    PROVE  OneAwaited' /\ Moves(r, 0)
  <1>1. /\ h.pc = "command" /\ cache' = cache /\ HandlerStep(h) /\ ~Holds(h)
        /\ h.pc # "append"
    BY DEF CheckCommand, HandlerStep, Holds
  <1>2. \/ \E status : Reply(h, status)
        \/ /\ state[h.node] = "LEADER" /\ Go(h, "append")
           /\ cache[h.node][h.req.client].id # h.req.id
    BY Zenon DEF CheckCommand
  <1>3. ASSUME NEW status, Reply(h, status)
        PROVE  OneAwaited' /\ Moves(r, 0)
    BY <1>1, <1>3, ReplyEnds, EndsWeighs
  <1>4. ASSUME state[h.node] = "LEADER", Go(h, "append"),
               cache[h.node][h.req.client].id # h.req.id
        PROVE  OneAwaited' /\ Moves(r, 0)
    <2>1. PICK g : Onward(h, g) /\ g.pc = "append" /\ g.req = h.req /\ g.node = h.node
      BY <1>4, GoOnward
    <2>2. OneAwaited' /\ (Awaited(g) <=> Awaited(h))
      BY <2>1, OnwardAwaits
    <2>3. CASE ~(r = h.req /\ Awaited(h))
      <3>1. Pending(g, r) => Pending(h, r)
        BY <1>1, <2>1, <2>2, <2>3 DEF Pending
      <3> QED
        BY <1>1, <2>1, <2>2, <3>1, OnwardWeighs
    <2>4. CASE r = h.req /\ Awaited(h)
      <3>1. h.node \in Open(r)
        <4>1. h.node \in Node /\ h.node \in Leading
          BY <1>4, HandlerAt DEF Leading, NoLeader
        <4>2. Asks(r)
          BY <2>4, AwaitedSession DEF Asks
        <4>3. \A k \in handlers : k.req = r /\ Awaited(k) => k = h
          BY <2>4 DEF OneAwaited
        <4>4. Forgets(h.node, r)
          BY <1>1, <1>4, <2>4, <4>3 DEF Forgets
        <4> QED
          BY <4>1, <4>2, <4>4 DEF Open
      <3>2. h.node \notin Open(r)'
        <4>1. GivenOut(r)'
          <5>1. GivenOut(r)
            BY <2>4 DEF NotYet, Live
          <5> QED
            BY <5>1, GivenOutStays
        <4>2. h.node # NoNode
          BY HandlerAt, NAssumption DEF Node, NoNode
        <4>3. g \in handlers' /\ Awaited(g)' /\ Holds(g)'
          BY <2>1, <2>2, <2>4, OnwardAwaits DEF Onward, Advance, Holds
        <4>4. ~Forgets(h.node, r)'
          BY <2>1, <2>4, <4>3 DEF Forgets
        <4> QED
          BY <4>1, <4>2, <4>4 DEF Open
      <3>3. Open(r)' \subseteq Open(r)
        BY <1>1, <2>1, HandlerLed, OnwardOpen
      <3>4. Grows(Open(r), Open(r)', -1)
        BY <3>1, <3>2, <3>3, ShrinksOne
      <3>5. Grows(Appends(r), Appends(r)', 1)
        BY <2>1, OnwardAppends, GrowsOne
      <3>6. Grows(Copies(r), Copies(r)', 0)
        <4>1. \A k \in handlers \ {h} : k \in handlers'
          BY <2>1 DEF Onward, Advance
        <4>2. \A k \in handlers : ~AppendEntry(k)
          BY <1>1, <4>1, AppendLeaves
        <4> QED
          BY <4>2, CopiesKept
      <3>7. 0 + 1 + (-1) <= 0 /\ 0 \in Int /\ 1 \in Int /\ -1 \in Int
        OBVIOUS
      <3> QED
        BY Zenon, <2>2, <3>4, <3>5, <3>6, <3>7 DEF Moves
    <2> QED
      BY <2>3, <2>4
  <1> QED
    BY <1>2, <1>3, <1>4

LEMMA AppendWeighs ==
    ASSUME TypeOK, TypeOK', LiveNumbered, OneAwaited, OneLeads, Tested, [Next]_vars,
           NEW h \in handlers, AppendEntry(h), NEW r \in Request
    PROVE  OneAwaited' /\ Moves(r, 0)
  <1>1. h.pc = "append" /\ cache' = cache /\ HandlerStep(h) /\ h \in Handler /\ h.node \in Node
    BY HandlerAt DEF AppendEntry, HandlerStep
  <1>2. PICK g : g = [h EXCEPT !.pc = "replicate", !.index = Len(log[h.node])]
    OBVIOUS
  <1>3. /\ g.pc = "replicate" /\ g.index = Len(log[h.node]) /\ g.req = h.req
        /\ g.node = h.node /\ g.attempt = h.attempt
    BY <1>1, <1>2 DEF Handler
  <1>4. Onward(h, g)
    BY <1>2, <1>3, AppendCalls DEF Onward
  <1>5. OneAwaited' /\ (Awaited(g) <=> Awaited(h))
    BY <1>4, OnwardAwaits
  <1>6. Holds(g)'
    <2>1. PICK e : e = [term |-> currentTerm[h.node], req |-> h.req]
      OBVIOUS
    <2>2. /\ e \in Entry /\ log' = [log EXCEPT ![h.node] = Append(log[h.node], e)]
          /\ currentTerm' = currentTerm /\ log[h.node] \in Seq(Entry)
          /\ e.term = currentTerm[h.node]
      BY <1>1, <2>1, HandlerAt DEF AppendEntry, TypeOK, Entry, roleVars
    <2>3. log'[h.node] = Append(log[h.node], e)
      BY <1>1, <2>2 DEF TypeOK
    <2>4. /\ Len(log[h.node]) \in Nat /\ Len(log'[h.node]) = Len(log[h.node]) + 1
          /\ log'[h.node][Len(log[h.node]) + 1] = e
      BY <2>2, <2>3, AppendAt
    <2>5. g.index < Len(log'[g.node]) /\ log'[g.node][g.index + 1].term = currentTerm'[g.node]
      BY <1>3, <2>2, <2>4
    <2> QED
      BY <1>3, <2>5 DEF Holds, OfCurrentTerm
  <1>7. Grows(Open(r), Open(r)', 0)
    <2>1. Open(r)' \subseteq Open(r)
      BY <1>1, <1>4, <1>6, HandlerLed, OnwardOpen
    <2> QED
      BY <2>1, GrowsNone
  <1>8. CASE r = h.req
    <2>1. ~Pending(g, r) /\ h \in Appends(r)
      BY <1>1, <1>3, <1>8 DEF Pending, Appends
    <2>2. Appends(r)' \subseteq Appends(r) \ {h}
      BY <1>4, <2>1, OnwardAppends
    <2>3. Grows(Appends(r), Appends(r)', -1)
      BY <2>1, <2>2, ShrinksOne
    <2>4. Copies(r)' \subseteq Copies(r) \cup {NewEntry(h)}
      <3>1. ASSUME NEW k \in handlers, AppendEntry(k) PROVE k = h
        BY <1>4, <3>1, AppendLeaves DEF Onward, Advance
      <3> QED
        BY <3>1, NextCopies
    <2>5. Grows(Copies(r), Copies(r)', 1)
      BY <2>4, GrowsOne
    <2>6. 1 + (-1) + 0 <= 0 /\ 0 \in Int /\ 1 \in Int /\ -1 \in Int
      OBVIOUS
    <2> QED
      BY Zenon, <1>5, <1>7, <2>3, <2>5, <2>6 DEF Moves
  <1>9. CASE r # h.req
    <2>1. Pending(g, r) => Pending(h, r)
      BY <1>1, <1>3, <1>5, <1>9 DEF Pending
    <2>2. Grows(Appends(r), Appends(r)', 0)
      BY <1>4, <2>1, OnwardAppends
    <2>3. Grows(Copies(r), Copies(r)', 0)
      <3>1. ASSUME NEW k \in handlers, AppendEntry(k) PROVE k.req # r
        BY <1>4, <1>9, <3>1, AppendLeaves DEF Onward, Advance
      <3> QED
        BY <3>1, CopiesKept
    <2>4. 0 + 0 + 0 <= 0 /\ 0 \in Int
      OBVIOUS
    <2> QED
      BY Zenon, <1>5, <1>7, <2>2, <2>3, <2>4 DEF Moves
  <1> QED
    BY <1>8, <1>9

LEMMA ReplicateWeighs ==
    ASSUME TypeOK, TypeOK', LiveNumbered, OneAwaited, OneLeads, Tested, [Next]_vars,
           NEW h \in handlers, NEW Q \in Quorum, Replicate(h, Q), NEW r \in Request
    PROVE  OneAwaited' /\ Moves(r, 0)
  <1>1. /\ h.pc = "replicate" /\ cache' = cache /\ HandlerStep(h) /\ h.pc # "append"
        /\ Go(h, "commit")
    BY DEF Replicate, HandlerStep
  <1>2. PICK g : /\ Onward(h, g) /\ g.pc = "commit" /\ g.req = h.req /\ g.node = h.node
                 /\ g.index = h.index
    BY <1>1, GoOnward
  <1>3. OneAwaited' /\ (Awaited(g) <=> Awaited(h))
    BY <1>2, OnwardAwaits
  <1>4. Pending(g, r) => Pending(h, r)
    BY <1>1, <1>2, <1>3 DEF Pending
  <1>5. ASSUME Holds(h), state[h.node] = "LEADER", state'[h.node] = "LEADER"
        PROVE  Holds(g)'
    <2>1. Holds(h)'
      BY <1>5, HoldStays
    <2>2. OfCurrentTerm(h)'
      BY <1>1, <2>1 DEF Holds
    <2> QED
      BY <1>2, <2>2 DEF Holds, OfCurrentTerm
  <1> QED
    BY <1>1, <1>2, <1>3, <1>4, <1>5, OnwardWeighs

\* The handler caches its answer: its own request is remembered, and another one
\* of the same client is not any more.
LEMMA CommitWeighs ==
    ASSUME TypeOK, TypeOK', LiveNumbered, NotYet, OneAwaited, OneLeads, Tested, [Next]_vars,
           NEW h \in handlers, Commit(h), NEW r \in Request
    PROVE  OneAwaited' /\ Moves(r, 0)
  <1>1. /\ h.pc = "commit" /\ HandlerStep(h) /\ h \in Handler /\ h.node \in Node
        /\ h.req.client \in Client /\ h.req \in Live /\ h.req \in Request
    BY HandlerAt DEF Commit, HandlerStep, Request, Live
  <1>2. PICK result \in Result :
           /\ Advance(h, [h EXCEPT !.pc = "persist", !.result = result])
           /\ cache' = [cache EXCEPT ![h.node][h.req.client] =
                           [id |-> h.req.id, result |-> result]]
    BY CommitCalls DEF Advance
  <1>3. PICK g : g = [h EXCEPT !.pc = "persist", !.result = result]
    OBVIOUS
  <1>4. g.pc = "persist" /\ g.req = h.req /\ g.node = h.node /\ g.attempt = h.attempt
    BY <1>1, <1>3 DEF Handler
  <1>5. Onward(h, g)
    BY <1>2, <1>3, <1>4 DEF Onward
  <1>6. OneAwaited' /\ (Awaited(g) <=> Awaited(h))
    BY <1>5, OnwardAwaits
  <1>7. /\ cache'[h.node][h.req.client].id = h.req.id
        /\ \A n \in Node, c \in Client :
              n # h.node \/ c # h.req.client => cache'[n][c] = cache[n][c]
    BY <1>1, <1>2 DEF TypeOK
  <1>8. Grows(Copies(r), Copies(r)', 0)
    <2>1. \A k \in handlers \ {h} : k \in handlers'
      BY <1>5 DEF Onward, Advance
    <2>2. \A k \in handlers : ~AppendEntry(k)
      BY <1>1, <2>1, AppendLeaves
    <2> QED
      BY <2>2, CopiesKept
  <1>9. r.client \in Client /\ ~Pending(g, r)
    BY <1>4 DEF Request, Pending
  <1>10. Appends(r)' \subseteq Appends(r) \ {h}
    BY <1>5, <1>9, OnwardAppends
  <1>11. ASSUME NEW n \in Open(r)',
                GivenOut(r) /\ Asks(r) /\ n = h.node => r = h.req \/ r.client # h.req.client
         PROVE  n \in Open(r)
    <2>1. CASE r = h.req /\ n = h.node
      <3>1. n # NoNode
        BY <1>1, <2>1, NAssumption DEF Node, NoNode
      <3>2. ~Forgets(n, r)'
        BY <1>7, <2>1 DEF Forgets
      <3>3. GivenOut(r)'
        <4>1. GivenOut(r)
          BY <1>1, <2>1 DEF NotYet
        <4> QED
          BY <4>1, GivenOutStays
      <3> QED
        BY <3>1, <3>2, <3>3 DEF Open
    <2>2. CASE ~(r = h.req /\ n = h.node)
      <3>1. /\ GivenOut(r) /\ Asks(r) /\ n \in Node
            /\ cache[n][r.client].id = r.id
            => cache'[n][r.client].id = r.id
        BY <1>7, <1>9, <1>11, <2>2
      <3>2. \/ n # h.node
            \/ h.req # r
        BY <2>2
      <3>3. ASSUME NEW k \in handlers, state[n] = "LEADER", state'[n] = "LEADER",
                   k.req = r, k.node = n, Awaited(k), Holds(k)
            PROVE  \E j \in handlers' : j.req = r /\ j.node = n /\ Awaited(j)' /\ Holds(j)'
        <4>1. k # h
          BY <3>2, <3>3
        <4>2. Holds(k)' /\ Awaited(k)' /\ k \in handlers'
          BY <1>5, <3>3, <4>1, OnwardAwaits, HoldStays DEF Onward, Advance
        <4> QED
          BY <3>3, <4>2
      <3>4. n \in Leading
        BY <1>1, HandlerLed, LedStays DEF Open
      <3>5. Asks(r)' => Asks(r)
        BY <1>5 DEF Onward, Advance, Asks
      <3> QED
        BY <3>1, <3>3, <3>4, <3>5, OpenStays
    <2> QED
      BY <2>1, <2>2
  <1>12. CASE GivenOut(r) /\ Asks(r) /\ r # h.req /\ r.client = h.req.client
    <2>1. h \in Appends(r)
      <3>1. ~Awaited(h)
        BY <1>12, AwaitedSession DEF Asks
      <3> QED
        BY <1>1, <1>12, <3>1 DEF Appends, Pending
    <2>2. Grows(Appends(r), Appends(r)', -1)
      BY <1>10, <2>1, ShrinksOne
    <2>3. Open(r)' \subseteq Open(r) \cup {h.node}
      BY <1>11
    <2>4. Grows(Open(r), Open(r)', 1)
      BY <2>3, GrowsOne
    <2>5. 0 + (-1) + 1 <= 0 /\ 0 \in Int /\ 1 \in Int /\ -1 \in Int
      OBVIOUS
    <2> QED
      BY Zenon, <1>6, <1>8, <2>2, <2>4, <2>5 DEF Moves
  <1>13. CASE ~(GivenOut(r) /\ Asks(r) /\ r # h.req /\ r.client = h.req.client)
    <2>1. Open(r)' \subseteq Open(r)
      BY <1>11, <1>13
    <2>2. Grows(Open(r), Open(r)', 0)
      BY <2>1, GrowsNone
    <2>3. Appends(r)' \subseteq Appends(r)
      BY <1>10
    <2>4. Grows(Appends(r), Appends(r)', 0)
      BY <2>3, GrowsNone
    <2>5. 0 + 0 + 0 <= 0 /\ 0 \in Int
      OBVIOUS
    <2> QED
      BY Zenon, <1>6, <1>8, <2>2, <2>4, <2>5 DEF Moves
  <1> QED
    BY <1>12, <1>13

LEMMA HandlerWeighs ==
    ASSUME TypeOK, TypeOK', LiveNumbered, NotYet, OneAwaited, OneLeads, Tested, [Next]_vars,
           NEW h \in handlers, HandlerStep(h), NEW r \in Request
    PROVE  OneAwaited' /\ (Moves(r, 0) \/ (Spend("faults") /\ Moves(r, 1)))
  <1>1. CASE Receive(h)
    BY <1>1, ReceiveWeighs
  <1>2. CASE CheckCommand(h)
    BY <1>2, CheckWeighs
  <1>3. CASE AppendEntry(h)
    BY <1>3, AppendWeighs
  <1>4. CASE \E Q \in Quorum : Replicate(h, Q)
    BY <1>4, ReplicateWeighs
  <1>5. CASE NotReplicated(h)
    <2>1. /\ h.pc # "append" /\ cache' = cache
          /\ Reply(h, Status(h.req.op, "not committed"))
          /\ state[h.node] = "LEADER" => Spend("faults")
      BY Zenon, <1>5 DEF NotReplicated
    <2>2. Ends(h) /\ OneAwaited'
      BY <2>1, ReplyEnds
    <2> QED
      BY <2>1, <2>2, EndsWeighs
  <1>6. CASE StepDown(h)
    <2>1. /\ h.pc # "append" /\ cache' = cache
          /\ Reply(h, Status(h.req.op, "leader step down"))
          /\ state' = [state EXCEPT ![h.node] = "FOLLOWER"]
      BY Zenon, <1>6 DEF StepDown
    <2>2. state'[h.node] # "LEADER"
      BY <2>1, HandlerAt DEF TypeOK
    <2>3. Ends(h) /\ OneAwaited'
      BY <2>1, ReplyEnds
    <2> QED
      BY <2>1, <2>2, <2>3, EndsWeighs
  <1>7. CASE Commit(h)
    BY <1>7, CommitWeighs
  <1>8. CASE NotCommitted(h)
    <2>1. /\ h.pc = "commit" /\ cache' = cache /\ ~OfCurrentTerm(h)
          /\ Reply(h, Status(h.req.op, "not committed"))
      BY Zenon, <1>8 DEF NotCommitted
    <2>2. Ends(h) /\ OneAwaited' /\ ~Holds(h) /\ h.pc # "append"
      BY <2>1, ReplyEnds DEF Holds
    <2> QED
      BY <2>1, <2>2, EndsWeighs
  <1>9. CASE PersistAndReply(h)
    <2>1. /\ h.pc = "persist" /\ cache' = cache
          /\ Reply(h, Status(h.req.op, h.result))
      BY Zenon, <1>9 DEF PersistAndReply
    <2>2. Ends(h) /\ OneAwaited' /\ ~Holds(h) /\ h.pc # "append"
      BY <2>1, ReplyEnds DEF Holds
    <2> QED
      BY <2>1, <2>2, EndsWeighs
  <1> QED
    BY <1>1, <1>2, <1>3, <1>4, <1>5, <1>6, <1>7, <1>8, <1>9 DEF HandlerStep, Tested

\* The calls of a deposed leader: its handler goes on or ends.
LEMMA StrayCalls ==
    ASSUME TypeOK, OneAwaited, NEW h \in handlers, SendsOn(h), NEW r \in Request
    PROVE  /\ OneAwaited' /\ (Asks(r)' => Asks(r))
           /\ Grows(Appends(r), Appends(r)', 0)
           /\ \A k \in handlers \ {h} : k \in handlers' /\ (Awaited(k)' <=> Awaited(k))
           /\ h \notin handlers' \/ h.pc # "append"
  <1>1. h.pc = "replicate"
    BY SendsOnLogs
  <1>2. CASE Go(h, "commit")
    <2>1. PICK g : Onward(h, g) /\ g.pc = "commit" /\ g.req = h.req
      BY <1>2, GoOnward
    <2>2. OneAwaited' /\ (Awaited(g) <=> Awaited(h)) /\ \A k : Awaited(k)' <=> Awaited(k)
      BY <2>1, OnwardAwaits
    <2>3. Pending(g, r) => Pending(h, r)
      BY <1>1, <2>1, <2>2 DEF Pending
    <2>4. Grows(Appends(r), Appends(r)', 0)
      BY <2>1, <2>3, OnwardAppends
    <2>5. \A k \in handlers \ {h} : k \in handlers'
      BY <2>1 DEF Onward, Advance
    <2>6. Asks(r)' => Asks(r)
      BY <2>1 DEF Onward, Advance, Asks
    <2> QED
      BY <1>1, <2>2, <2>4, <2>5, <2>6
  <1>3. CASE Reply(h, Status(h.req.op, "not committed"))
    <2>1. Ends(h) /\ OneAwaited'
      BY <1>3, ReplyEnds
    <2>2. Appends(r)' \subseteq Appends(r)
      BY <2>1, EndsLeaves
    <2> QED
      BY <1>1, <2>1, <2>2, EndsLeaves, GrowsNone
  <1> QED
    BY <1>2, <1>3, SendsOnLogs

\* The one leader of that term may lose the entry of a handler.
LEMMA StrayOpen ==
    ASSUME TypeOK, TypeOK', LiveNumbered, OneAwaited, OneLeads, [Next]_vars,
           NEW h \in handlers, SendsOn(h), NEW r \in Request, NEW n \in Open(r)',
           ~(n \in Node /\ state[n] = "LEADER" /\ currentTerm[n] = currentTerm[h.node])
    PROVE  n \in Open(r)
  <1>1. /\ h.node \in Node /\ state[h.node] # "LEADER"
        /\ UNCHANGED <<state, currentTerm, cache>>
        /\ \A m \in Node : log'[m] = log[m] \/ currentTerm[m] = currentTerm[h.node]
    BY SendsOnLogs
  <1>2. n \in Leading
    BY <1>1 DEF Open, Leading, NoLeader
  <1>3. ASSUME NEW k \in handlers, n \in Node, state[n] = "LEADER",
               k.req = r, k.node = n, Awaited(k), Holds(k)
        PROVE  \E j \in handlers' : j.req = r /\ j.node = n /\ Awaited(j)' /\ Holds(j)'
    <2>1. k # h /\ log'[n] = log[n] /\ currentTerm'[n] = currentTerm[n]
      BY <1>1, <1>3
    <2>2. k \in handlers' /\ Awaited(k)'
      BY <1>3, <2>1, StrayCalls
    <2>3. Holds(k)'
      BY <1>3, <2>1 DEF Holds, OfCurrentTerm
    <2> QED
      BY <1>3, <2>2, <2>3
  <1>4. Asks(r)' => Asks(r)
    BY StrayCalls
  <1> QED
    BY <1>1, <1>2, <1>3, <1>4, OpenStays

LEMMA StrayWeighs ==
    ASSUME TypeOK, TypeOK', LiveNumbered, OneAwaited, OneLeads, [Next]_vars,
           NEW h \in handlers, SendsOn(h), NEW r \in Request
    PROVE  OneAwaited' /\ Spend("strays") /\ Moves(r, 1)
  <1>1. /\ h.node \in Node /\ Spend("strays") /\ h.pc # "append"
    BY SendsOnLogs
  <1>2. Grows(Copies(r), Copies(r)', 0)
    <2>1. \A k \in handlers : ~AppendEntry(k)
      BY <1>1, StrayCalls, AppendLeaves
    <2> QED
      BY <2>1, CopiesKept
  <1>3. OneAwaited' /\ Grows(Appends(r), Appends(r)', 0)
    BY StrayCalls
  <1>4. PICK m : \A n \in Node : state[n] = "LEADER" /\ currentTerm[n] = currentTerm[h.node]
                    => n = m
    BY DEF OneLeads
  <1>5. Open(r)' \subseteq Open(r) \cup {m}
    <2> SUFFICES ASSUME NEW n \in Open(r)', n \notin Open(r) PROVE n = m
      OBVIOUS
    <2>1. n \in Node /\ state[n] = "LEADER" /\ currentTerm[n] = currentTerm[h.node]
      BY StrayOpen
    <2> QED
      BY <1>4, <2>1
  <1>6. Grows(Open(r), Open(r)', 1)
    BY <1>5, GrowsOne
  <1>7. 0 + 0 + 1 <= 1 /\ 0 \in Int /\ 1 \in Int
    OBVIOUS
  <1> QED
    BY Zenon, <1>1, <1>2, <1>3, <1>6, <1>7 DEF Moves

-----------------------------------------------------------------------------
(* The other steps.                                                        *)

\* Handlers, sessions and caches are left alone.
LEMMA QuietWeighs ==
    ASSUME TypeOK, TypeOK', LiveNumbered, OneAwaited, OneLeads, Tested, [Next]_vars, Led,
           UNCHANGED <<handlers, session, cache>>, NEW r \in Request
    PROVE  OneAwaited' /\ Moves(r, 0)
  <1>1. \A k : Awaited(k)' <=> Awaited(k)
    BY DEF Awaited
  <1>2. OneAwaited'
    BY <1>1 DEF OneAwaited, Asks
  <1>3. Grows(Copies(r), Copies(r)', 0)
    BY AppendLeaves, CopiesKept
  <1>4. Grows(Appends(r), Appends(r)', 0)
    <2>1. Appends(r)' \subseteq Appends(r)
      BY <1>1 DEF Appends, Pending
    <2> QED
      BY <2>1, GrowsNone
  <1>5. Grows(Open(r), Open(r)', 0)
    <2>1. ASSUME NEW n \in Open(r)' PROVE n \in Open(r)
      <3>1. n \in Leading /\ (Asks(r)' => Asks(r))
        BY LedStays DEF Open, Asks
      <3>2. ASSUME NEW k \in handlers, state[n] = "LEADER", state'[n] = "LEADER",
                   k.req = r, k.node = n, Awaited(k), Holds(k)
            PROVE  \E j \in handlers' : j.req = r /\ j.node = n /\ Awaited(j)' /\ Holds(j)'
        <4>1. Holds(k)' /\ Awaited(k)' /\ k \in handlers'
          BY <1>1, <3>2, HoldStays
        <4> QED
          BY <3>2, <4>1
      <3> QED
        BY <3>1, <3>2, OpenStays
    <2> QED
      BY <2>1, GrowsNone
  <1>6. 0 + 0 + 0 <= 0 /\ 0 \in Int
    OBVIOUS
  <1> QED
    BY Zenon, <1>2, <1>3, <1>4, <1>5, <1>6 DEF Moves

LEMMA CommandWeighs ==
    ASSUME TypeOK, TypeOK', LiveNumbered, NotYet, OneAwaited, OneLeads, Tested, [Next]_vars,
           NEW c \in Client, NEW q, NewCall(c, q), UNCHANGED <<roleVars, cache>>,
           NEW r \in Request
    PROVE  OneAwaited' /\ Moves(r, 0)
  <1>1. PICK g : /\ g.pc = "received" /\ g.req = q /\ handlers' = handlers \cup {g}
                 /\ Awaited(g)'
    BY DEF NewCall
  <1>2. /\ q \in Request /\ q.client = c /\ session[c] = Idle /\ session'[c].req = q
        /\ \A d \in Client \ {c} : session'[d] = session[d]
    BY DEF NewCall
  <1>3. ~GivenOut(q) /\ q \notin Live
    <2>1. counter[c] \in Nat /\ used.restarts \in Nat
      BY BoundAssumption DEF TypeOK
    <2>2. ~GivenOut(q)
      BY <2>1 DEF NewCall, GivenOut
    <2> QED
      BY <1>2, <2>2 DEF NotYet
  <1>4. \A k \in handlers : k.req # q /\ k.req.client \in Client
    BY <1>3, HandlerAt DEF Live, Request
  <1>5. ASSUME NEW k \in handlers
        PROVE  /\ Awaited(k)' <=> Awaited(k)
               /\ Awaited(k) => k.req.client # c
               /\ Asks(k.req)' => Asks(k.req) /\ k.req.client # c
    <2>1. CASE k.req.client = c
      <3>1. ~Awaited(k)' /\ ~Asks(k.req)'
        BY <1>2, <1>4, <2>1 DEF Awaited, Asks
      <3>2. ~Awaited(k)
        BY <1>2, <2>1 DEF Awaited, Idle
      <3> QED
        BY <3>1, <3>2
    <2>2. CASE k.req.client # c
      <3>1. session'[k.req.client] = session[k.req.client]
        BY <1>2, <1>4, <2>2
      <3> QED
        BY <2>2, <3>1 DEF Awaited, Asks
    <2> QED
      BY <2>1, <2>2
  <1>6. OneAwaited'
    <2>1. \A k1, k2 \in handlers' :
             Awaited(k1)' /\ Awaited(k2)' /\ k1.req.client = k2.req.client => k1 = k2
      BY <1>1, <1>2, <1>5 DEF OneAwaited
    <2>2. ASSUME NEW k \in handlers', Asks(k.req)'
          PROVE  k.attempt <= session'[k.req.client].attempts
      <3>1. CASE k = g
        <4>1. g.attempt = session'[c].attempts /\ session'[c] # Idle
          BY <1>1, <1>2 DEF Awaited, Idle
        <4>2. session'[c].attempts \in Nat
          BY <4>1, NAssumption DEF TypeOK
        <4> QED
          BY <1>1, <1>2, <3>1, <4>1, <4>2
      <3>2. CASE k \in handlers
        <4>1. Asks(k.req) /\ k.req.client # c
          BY <1>5, <2>2, <3>2
        <4> QED
          BY <1>2, <1>4, <3>2, <4>1 DEF OneAwaited
      <3> QED
        BY <1>1, <3>1, <3>2
    <2> QED
      BY <2>1, <2>2 DEF OneAwaited
  <1>7. Grows(Copies(r), Copies(r)', 0)
    BY <1>1, AppendLeaves, CopiesKept
  <1>8. Grows(Appends(r), Appends(r)', 0)
    <2>1. ~Pending(g, r)'
      BY <1>1 DEF Pending
    <2>2. \A k \in handlers : Pending(k, r)' => Pending(k, r)
      BY <1>5 DEF Pending
    <2>3. Appends(r)' \subseteq Appends(r)
      BY <1>1, <2>1, <2>2 DEF Appends
    <2> QED
      BY <2>3, GrowsNone
  <1>9. Grows(Open(r), Open(r)', 0)
    <2>1. ASSUME NEW n \in Open(r)' PROVE n \in Open(r)
      <3>1. n \in Leading
        BY DEF Open, Leading, NoLeader, roleVars
      <3>2. GivenOut(r) /\ Asks(r)' => Asks(r)
        <4>1. CASE r.client = c
          BY <1>2, <1>3, <4>1 DEF Asks
        <4>2. CASE r.client # c
          BY <1>2, <4>2 DEF Asks, Request
        <4> QED
          BY <4>1, <4>2
      <3>3. ASSUME NEW k \in handlers, state[n] = "LEADER", state'[n] = "LEADER",
                   k.req = r, k.node = n, Awaited(k), Holds(k)
            PROVE  \E j \in handlers' : j.req = r /\ j.node = n /\ Awaited(j)' /\ Holds(j)'
        <4>1. Holds(k)' /\ Awaited(k)' /\ k \in handlers'
          BY <1>1, <1>5, <3>3, HoldStays
        <4> QED
          BY <3>3, <4>1
      <3> QED
        BY <3>1, <3>2, <3>3, OpenStays
    <2> QED
      BY <2>1, GrowsNone
  <1>10. 0 + 0 + 0 <= 0 /\ 0 \in Int
    OBVIOUS
  <1> QED
    BY Zenon, <1>6, <1>7, <1>8, <1>9, <1>10 DEF Moves

\* The handler that is not awaited any more may still append its entry, or its
\* leader has the request open again.
LEMMA TimeoutWeighs ==
    ASSUME TypeOK, TypeOK', LiveNumbered, OneAwaited, OneLeads, Tested, [Next]_vars,
           NEW c \in Client, Timeout(c), NEW r \in Request
    PROVE  OneAwaited' /\ Moves(r, 1)
  <1>0. PICK h \in handlers, rest \in SUBSET handlers :
           \E G : /\ h.req.client = c /\ Away(h, rest, G)
                  /\ \A k \in handlers : k \in rest \/ k.pc = "received"
    BY TimeoutAway
  <1>1. PICK G : /\ h.req.client = c /\ Away(h, rest, G)
                 /\ \A k \in handlers : k \in rest \/ k.pc = "received"
    BY <1>0
  <1>2. OneAwaited'
    BY TimeoutAway
  <1>3. /\ Awaited(h) /\ handlers' = rest \cup G
        /\ \A k \in rest : Awaited(k)' <=> Awaited(k) /\ k.req.client # c
        /\ \A g \in G : g.pc = "received" /\ Awaited(g)' /\ g.req = h.req
        /\ Asks(r)' => Asks(r)
    BY <1>1 DEF Away
  <1>4. \A k \in handlers : k # h /\ Awaited(k) => k.req.client # c
    BY <1>1, <1>3 DEF OneAwaited
  <1>5. Grows(Copies(r), Copies(r)', 0)
    <2>1. \A k \in handlers : ~AppendEntry(k)
      BY <1>1, <1>3, AppendLeaves
    <2> QED
      BY <2>1, CopiesKept
  <1>6. \A k \in rest \ {h} : Pending(k, r)' => Pending(k, r)
    BY <1>3, <1>4 DEF Pending
  <1>7. \A g \in G : ~Pending(g, r)'
    BY <1>3 DEF Pending
  <1>8. ASSUME NEW n \in Open(r)', ~(Holds(h) /\ h.req = r /\ h.node = n)
        PROVE  n \in Open(r)
    <2>1. n \in Leading /\ cache' = cache
      BY DEF Open, Leading, NoLeader, Timeout, roleVars
    <2>2. ASSUME NEW k \in handlers, state[n] = "LEADER", state'[n] = "LEADER",
                 k.req = r, k.node = n, Awaited(k), Holds(k)
          PROVE  \E j \in handlers' : j.req = r /\ j.node = n /\ Awaited(j)' /\ Holds(j)'
      <3>1. k # h /\ k \in rest
        BY <1>1, <1>8, <2>2 DEF Holds
      <3>2. Holds(k)' /\ Awaited(k)' /\ k \in handlers'
        BY <1>3, <1>4, <2>2, <3>1, HoldStays
      <3> QED
        BY <2>2, <3>2
    <2> QED
      BY <1>3, <2>1, <2>2, OpenStays
  <1>9. 0 + 1 + 0 <= 1 /\ 0 + 0 + 1 <= 1 /\ 0 \in Int /\ 1 \in Int
    OBVIOUS
  <1>10. CASE Holds(h) /\ h.req = r
    <2>1. Pending(h, r)' => Pending(h, r)
      BY <1>3, <1>10 DEF Pending, Holds
    <2>2. Appends(r)' \subseteq Appends(r)
      BY <1>3, <1>6, <1>7, <2>1 DEF Appends
    <2>3. Open(r)' \subseteq Open(r) \cup {h.node}
      BY <1>8
    <2>4. Grows(Appends(r), Appends(r)', 0) /\ Grows(Open(r), Open(r)', 1)
      BY <2>2, <2>3, GrowsNone, GrowsOne
    <2> QED
      BY Zenon, <1>2, <1>5, <1>9, <2>4 DEF Moves
  <1>11. CASE ~(Holds(h) /\ h.req = r)
    <2>1. Appends(r)' \subseteq Appends(r) \cup {h}
      BY <1>3, <1>6, <1>7 DEF Appends
    <2>2. Open(r)' \subseteq Open(r)
      BY <1>8, <1>11
    <2>3. Grows(Appends(r), Appends(r)', 1) /\ Grows(Open(r), Open(r)', 0)
      BY <2>1, <2>2, GrowsNone, GrowsOne
    <2> QED
      BY Zenon, <1>2, <1>5, <1>9, <2>3 DEF Moves
  <1> QED
    BY <1>10, <1>11

\* A new leader remembers nothing; when there was none it was counted before.
LEMMA ElectWeighs ==
    ASSUME TypeOK, TypeOK', LiveNumbered, OneAwaited, OneLeads, Tested, [Next]_vars,
           NEW n \in Node, NEW Q \in Quorum, Elect(n, Q), NEW r \in Request
    PROVE  /\ OneAwaited'
           /\ NoLeader => Moves(r, 0)
           /\ ~NoLeader => Moves(r, 1)
  <1>1. UNCHANGED <<handlers, session, cache, counter>>
    BY DEF Elect, sessionVars
  <1>2. /\ state'[n] = "LEADER" /\ state[n] = "FOLLOWER"
        /\ \A k \in Node : state'[k] = "LEADER" => k = n \/ state[k] = "LEADER"
    BY ElectTerms
  <1>3. \A k : Awaited(k)' <=> Awaited(k)
    BY <1>1 DEF Awaited
  <1>4. OneAwaited' /\ (Asks(r)' <=> Asks(r))
    BY <1>1, <1>3 DEF OneAwaited, Asks
  <1>5. Grows(Copies(r), Copies(r)', 0)
    BY <1>1, AppendLeaves, CopiesKept
  <1>6. Grows(Appends(r), Appends(r)', 0)
    <2>1. Appends(r)' \subseteq Appends(r)
      BY <1>1, <1>3 DEF Appends, Pending
    <2> QED
      BY <2>1, GrowsNone
  <1>7. Leading' \subseteq Node /\ (GivenOut(r) => GivenOut(r)')
    BY <1>2, GivenOutStays DEF Leading, NoLeader
  <1>8. ASSUME NEW k \in Open(r)', k # n, ~NoLeader PROVE k \in Open(r)
    <2>1. k \in Leading
      BY <1>2, <1>7, <1>8 DEF Open, Leading, NoLeader
    <2>2. ASSUME NEW h \in handlers, state[k] = "LEADER", state'[k] = "LEADER",
                 h.req = r, h.node = k, Awaited(h), Holds(h)
          PROVE  \E j \in handlers' : j.req = r /\ j.node = k /\ Awaited(j)' /\ Holds(j)'
      <3>1. Holds(h)' /\ Awaited(h)' /\ h \in handlers'
        BY <1>1, <1>3, <2>2, HoldStays
      <3> QED
        BY <2>2, <3>1
    <2> QED
      BY <1>1, <1>4, <2>1, <2>2, OpenStays
  <1>9. 0 + 0 + 0 <= 0 /\ 0 + 0 + 1 <= 1 /\ 0 \in Int /\ 1 \in Int
    OBVIOUS
  <1>10. CASE NoLeader
    <2>1. \A k \in Open(r)' : k = n /\ (~GivenOut(r)' \/ Asks(r)')
      BY <1>2, <1>10 DEF Open, Leading, NoLeader
    <2>2. Grows(Open(r), Open(r)', 0)
      <3>1. CASE Open(r)' = {}
        BY <3>1, GrowsNone
      <3>2. CASE Open(r)' # {}
        <4>1. ~GivenOut(r) \/ Asks(r)
          BY <1>4, <1>7, <2>1, <3>2
        <4>2. NoNode \in Open(r)
          BY <1>10, <4>1 DEF Open, Leading
        <4>3. Open(r)' \in SUBSET ((Open(r) \ {NoNode}) \cup {n})
          BY <2>1
        <4> QED
          BY <4>2, <4>3, Swaps
      <3> QED
        BY <3>1, <3>2
    <2>3. Moves(r, 0)
      BY Zenon, <1>5, <1>6, <1>9, <2>2 DEF Moves
    <2> QED
      BY <1>4, <1>10, <2>3
  <1>11. CASE ~NoLeader
    <2>1. Open(r)' \subseteq Open(r) \cup {n}
      BY <1>8, <1>11
    <2>2. Grows(Open(r), Open(r)', 1)
      BY <2>1, GrowsOne
    <2>3. Moves(r, 1)
      BY Zenon, <1>5, <1>6, <1>9, <2>2 DEF Moves
    <2> QED
      BY <1>4, <1>11, <2>3
  <1> QED
    BY <1>10, <1>11

LEMMA RestartWeighs ==
    ASSUME TypeOK, TypeOK', LiveNumbered, [Next]_vars, Restart, NEW r \in Request
    PROVE  OneAwaited' /\ Moves(r, 0)
  <1>1. /\ handlers' = {} /\ \A c \in Client : session'[c] = Idle
        /\ \A n \in Node : state'[n] = "FOLLOWER"
    BY DEF Restart
  <1>2. OneAwaited' /\ Appends(r)' = {} /\ ~Asks(r)'
    BY <1>1 DEF OneAwaited, Appends, Asks, Request
  <1>3. Grows(Copies(r), Copies(r)', 0)
    <2>1. \A k \in handlers : ~AppendEntry(k)
      BY <1>1 DEF AppendEntry
    <2> QED
      BY <2>1, CopiesKept
  <1>4. Grows(Appends(r), Appends(r)', 0)
    BY <1>2, GrowsNone
  <1>5. Grows(Open(r), Open(r)', 0)
    <2>1. CASE GivenOut(r)'
      <3>1. Open(r)' = {}
        BY <1>2, <2>1 DEF Open
      <3> QED
        BY <3>1, GrowsNone
    <2>2. CASE ~GivenOut(r)'
      <3>1. ~GivenOut(r)
        BY <2>2, GivenOutStays
      <3>2. PICK a : a \in Leading
        BY DEF Leading, NoLeader
      <3>3. a \in Open(r)
        BY <3>1, <3>2 DEF Open
      <3>4. Leading' = {NoNode}
        BY <1>1 DEF Leading, NoLeader
      <3>5. Open(r)' \in SUBSET ((Open(r) \ {a}) \cup {NoNode})
        BY <3>4 DEF Open
      <3> QED
        BY <3>3, <3>5, Swaps
    <2> QED
      BY <2>1, <2>2
  <1>6. 0 + 0 + 0 <= 0 /\ 0 \in Int
    OBVIOUS
  <1> QED
    BY Zenon, <1>2, <1>3, <1>4, <1>5, <1>6 DEF Moves

LEMMA NextWeighs ==
    ASSUME TypeOK, TypeOK', LiveNumbered, NotYet, OneAwaited, OneLeads, [Next]_vars,
           NEW r \in Request
    PROVE  /\ OneAwaited'
           /\ Moves(r, 0) \/ (Moves(r, 1) /\ \E k \in {"faults", "elections", "strays"} : Spend(k))
  <1> DEFINE Good ==
        /\ OneAwaited'
        /\ Moves(r, 0) \/ (Moves(r, 1) /\ \E k \in {"faults", "elections", "strays"} : Spend(k))
  <1>0. ASSUME NEW h \in handlers, SendsOn(h) PROVE Good
    BY <1>0, StrayWeighs
  <1> SUFFICES ASSUME Tested PROVE Good
    BY <1>0 DEF Tested
  <1>1. ASSUME NEW c \in Client, NEW op \in Op, NEW n \in Node, ClientCommand(c, op, n)
        PROVE  Good
    <2>1. PICK q : NewCall(c, q)
      BY <1>1, CommandCalls
    <2>2. UNCHANGED <<roleVars, cache>>
      BY <1>1 DEF ClientCommand
    <2> QED
      BY <2>1, <2>2, CommandWeighs
  <1>2. ASSUME NEW c \in Client, Timeout(c) PROVE Good
    BY <1>2, TimeoutWeighs DEF Timeout
  <1>3. ASSUME NEW h \in handlers, HandlerStep(h) PROVE Good
    BY <1>3, HandlerWeighs
  <1>4. ASSUME NEW n \in Node, NEW Q \in Quorum, Elect(n, Q) PROVE Good
    <2>1. NoLeader \/ Spend("elections")
      BY <1>4 DEF Elect
    <2> QED
      BY <1>4, <2>1, ElectWeighs
  <1>5. ASSUME Restart PROVE Good
    BY <1>5, RestartWeighs
  <1>6. ASSUME NEW m \in Node, HearVote(m) PROVE Good
    <2>1. Led
      BY <1>6 DEF HearVote, Led, Demoted
    <2>2. UNCHANGED <<handlers, session, cache>>
      BY <1>6 DEF HearVote, sessionVars
    <2> QED
      BY <2>1, <2>2, QuietWeighs
  <1>7. ASSUME \/ \E c \in Client : OtherCommand(c)
               \/ \E m \in Node : HearLeader(m)
               \/ UNCHANGED vars
        PROVE  Good
    <2>1. Led /\ UNCHANGED <<handlers, session, cache>>
      BY <1>7 DEF OtherCommand, HearLeader, vars, roleVars, sessionVars, Led
    <2> QED
      BY <2>1, QuietWeighs
  <1> HIDE DEF Good
  <1>8. Good
    BY <1>1, <1>2, <1>3, <1>4, <1>5, <1>6, <1>7 DEF Next
  <1> QED
    BY <1>8 DEF Good

LEMMA UsedFaults ==
    ASSUME TypeOK, [Next]_vars
    PROVE  /\ used'.faults + used'.elections + used'.strays
                 >= used.faults + used.elections + used.strays
           /\ \A k \in {"faults", "elections", "strays"} : Spend(k) =>
                 used'.faults + used'.elections + used'.strays
                     >= used.faults + used.elections + used.strays + 1
  <1>1. /\ used \in [requests : Nat, elections : Nat, faults : Nat, strays : Nat, restarts : Nat]
        /\ used.faults \in Nat /\ used.elections \in Nat /\ used.strays \in Nat
    BY DEF TypeOK
  <1>2. ASSUME NEW kind \in {"requests", "elections", "faults", "strays", "restarts"}, Spend(kind)
        PROVE  /\ used'.faults = used.faults + (IF kind = "faults" THEN 1 ELSE 0)
               /\ used'.elections = used.elections + (IF kind = "elections" THEN 1 ELSE 0)
               /\ used'.strays = used.strays + (IF kind = "strays" THEN 1 ELSE 0)
    <2>1. used' = [used EXCEPT ![kind] = @ + 1]
      BY <1>2 DEF Spend
    <2>2. CASE kind \in {"requests", "restarts"}
      BY <1>1, <2>1, <2>2
    <2>3. CASE kind = "faults"
      BY <1>1, <2>1, <2>3
    <2>4. CASE kind = "elections"
      BY <1>1, <2>1, <2>4
    <2>5. CASE kind = "strays"
      BY <1>1, <2>1, <2>5
    <2> QED
      BY <2>2, <2>3, <2>4, <2>5
  <1>3. \/ used' = used
        \/ \E kind \in {"requests", "elections", "faults", "strays", "restarts"} : Spend(kind)
    BY StraySpends DEF Next, vars, ClientCommand, OtherCommand, Timeout, HandlerStep, Receive,
           CheckCommand, AppendEntry, Replicate, NotReplicated, StepDown, Commit,
           NotCommitted, PersistAndReply, Elect, HearVote, HearLeader, Restart
  <1>4. used'.faults + used'.elections + used'.strays
          >= used.faults + used.elections + used.strays
    <2>1. CASE used' = used
      BY <1>1, <2>1
    <2>2. ASSUME NEW kind \in {"requests", "elections", "faults", "strays", "restarts"}, Spend(kind)
          PROVE  used'.faults + used'.elections + used'.strays
                     >= used.faults + used.elections + used.strays
      BY <1>1, <1>2, <2>2
    <2> QED
      BY <1>3, <2>1, <2>2
  <1>5. ASSUME NEW k \in {"faults", "elections", "strays"}, Spend(k)
        PROVE  used'.faults + used'.elections + used'.strays
                   >= used.faults + used.elections + used.strays + 1
    <2>1. /\ used'.faults = used.faults + (IF k = "faults" THEN 1 ELSE 0)
          /\ used'.elections = used.elections + (IF k = "elections" THEN 1 ELSE 0)
          /\ used'.strays = used.strays + (IF k = "strays" THEN 1 ELSE 0)
      BY <1>2, <1>5
    <2> QED
      BY <1>1, <1>5, <2>1
  <1> QED
    BY <1>4, <1>5

LEMMA NextNotYet ==
    ASSUME TypeOK, TypeOK', LiveNumbered, NotYet, [Next]_vars
    PROVE  NotYet'
  <1> SUFFICES ASSUME NEW r \in Request, ~GivenOut(r)'
               PROVE  r \notin Live' /\ Copies(r)' = {}
    BY DEF NotYet
  <1>1. ~GivenOut(r)
    BY GivenOutStays
  <1>2. r \notin Live /\ Copies(r) = {}
    BY <1>1 DEF NotYet
  <1>3. Copies(r)' = {}
    <2>1. \A h \in handlers : h.req # r
      BY <1>2 DEF Live
    <2> QED
      BY <1>2, <2>1, NextCopies
  <1>4. r \notin Live'
    <2>1. ASSUME NEW c \in Client, NEW op \in Op, NEW n \in Node, ClientCommand(c, op, n)
          PROVE  r \notin Live'
      <3>1. PICK q : NewCall(c, q)
        BY <2>1, CommandCalls
      <3>2. used'.restarts = used.restarts
        <4>1. Spend("requests") /\ used.restarts \in Nat
          BY <2>1 DEF ClientCommand, TypeOK
        <4> QED
          BY <4>1, SpendType
      <3> QED
        BY <1>2, <3>1, <3>2, NewCallGivenOut
    <2>2. ASSUME CallsKept PROVE r \notin Live'
      BY <1>2, <2>2 DEF CallsKept
    <2>3. ASSUME NEW c \in Client, Timeout(c) PROVE r \notin Live'
      BY <2>2, <2>3, TimeoutMoves, MoveKeeps
    <2>4. ASSUME NEW h \in handlers, HandlerStep(h) PROVE r \notin Live'
      BY <2>2, <2>4, HandlerCalls
    <2>5. CASE UNCHANGED <<session, handlers>>
      BY <1>2, <2>5 DEF Live
    <2>6. CASE Restart
      BY <2>6 DEF Restart, Live
    <2>7. \/ \E c \in Client, op \in Op, n \in Node : ClientCommand(c, op, n)
          \/ \E c \in Client : Timeout(c)
          \/ \E h \in handlers : HandlerStep(h)
          \/ UNCHANGED <<session, handlers>>
          \/ Restart
      BY DEF Next, vars, sessionVars, OtherCommand, HearVote, HearLeader, Elect
    <2> QED
      BY <2>1, <2>3, <2>4, <2>5, <2>6, <2>7
  <1> QED
    BY <1>3, <1>4

\* The inductive invariant: every request is within its bound.
RepeatInv ==
    /\ NotYet /\ OneAwaited /\ OneLeads
    /\ \A r \in Request : Bounded(r)

LEMMA InitRepeats ==
    ASSUME Init
    PROVE  RepeatInv
  <1>1. /\ \A n \in Node : log[n] = InitLog /\ saved[n].log = InitLog
        /\ handlers = {} /\ executed = {}
        /\ \A c \in Client : session[c] = Idle
        /\ used.faults = 0 /\ used.elections = 0 /\ used.strays = 0
    BY DEF Init, File
  <1>2. ASSUME NEW r \in Request PROVE Copies(r) = {} /\ Appends(r) = {}
    <2>1. ASSUME NEW x \in [index : Nat, entry : Entry], Has(InitLog, x)
          PROVE  x.entry.req # r
      <3> DEFINE Start == [term : Nat, req : {NoRequest}]
      <3>1. InitLog \in Seq(Start) /\ Len(InitLog) \in Nat
        BY LogAssumption
      <3> HIDE DEF Start
      <3>2. x.index + 1 \in 1 .. Len(InitLog)
        BY <2>1, <3>1 DEF Has
      <3>3. x.entry \in Start
        BY <2>1, <3>1, <3>2 DEF Has
      <3>4. x.entry.req = NoRequest
        BY <3>3 DEF Start
      <3>5. r.id # 0
        BY BoundAssumption DEF Request
      <3> QED
        BY <3>4, <3>5 DEF NoRequest
    <2>2. Copies(r) = {}
      BY <1>1, <2>1 DEF Copies, Applied
    <2> QED
      BY <1>1, <2>2 DEF Appends
  <1>3. NotYet
    <2>1. Live = {}
      BY <1>1 DEF Live
    <2> QED
      BY <1>2, <2>1 DEF NotYet
  <1>4. OneAwaited
    BY <1>1 DEF OneAwaited
  <1>5. state = [n \in Node |-> IF n = InitLeader THEN "LEADER" ELSE "FOLLOWER"]
        /\ currentTerm = [n \in Node |-> LastTerm(InitLog)]
    BY DEF Init
  <1>6. \A n \in Node : currentTerm[n] \in Nat
    BY InitTypes DEF TypeOK
  <1>7. OneLeads
    <2>1. \A n, m \in Node : state[n] = "LEADER" /\ state[m] = "LEADER" => n = m
      BY <1>5
    <2>2. \A n, m \in Node : currentTerm[n] >= currentTerm[m]
      BY <1>5, <1>6
    <2> QED
      BY <2>1, <2>2 DEF OneLeads, NoLeader, Newest
  <1>8. ASSUME NEW r \in Request PROVE Bounded(r)
    <2>1. PICK a : Leading \subseteq {a}
      <3>1. CASE NoLeader
        BY <3>1 DEF Leading
      <3>2. CASE ~NoLeader
        <4>1. Leading \subseteq {InitLeader}
          BY <1>5, <3>2 DEF Leading
        <4> QED
          BY <4>1
      <3> QED
        BY <3>1, <3>2
    <2>2. IsFiniteSet({}) /\ Cardinality({}) = 0
      BY FS_EmptySet
    <2>3. Open(r) \in SUBSET ({} \cup {a})
      BY <2>1 DEF Open
    <2>4. IsFiniteSet(Open(r)) /\ Cardinality(Open(r)) <= 0 + 1
      BY <2>2, <2>3, GrowsOne DEF Grows
    <2>5. Cardinality(Open(r)) \in Nat
      BY <2>4, FS_CardinalityType
    <2>6. 0 + 0 + Cardinality(Open(r)) <= 1 + 0 + 0 + 0
      BY <2>4, <2>5
    <2> QED
      BY <1>1, <1>2, <2>2, <2>4, <2>6 DEF Bounded
  <1> QED
    BY <1>3, <1>4, <1>7, <1>8 DEF RepeatInv

LEMMA NextRepeats ==
    ASSUME TypeOK, TypeOK', LiveNumbered, RepeatInv, [Next]_vars
    PROVE  RepeatInv'
  <1>1. NotYet /\ OneAwaited /\ OneLeads
    BY DEF RepeatInv
  <1>2. NotYet' /\ OneLeads'
    BY <1>1, NextNotYet, NextOneLeads
  <1>3. OneAwaited'
    <2>1. CASE Request = {}
      <3>1. handlers' = {}
        BY <2>1 DEF TypeOK, Handler
      <3> QED
        BY <3>1 DEF OneAwaited
    <2>2. CASE Request # {}
      <3>1. PICK r : r \in Request
        BY <2>2
      <3> QED
        BY <1>1, <3>1, NextWeighs
    <2> QED
      BY <2>1, <2>2
  <1>4. ASSUME NEW r \in Request PROVE Bounded(r)'
    <2>1. Bounded(r) /\ 0 \in Int /\ 1 \in Int
      BY DEF RepeatInv
    <2>2. /\ used'.faults + used'.elections + used'.strays
                >= used.faults + used.elections + used.strays + 0
          /\ \A k \in {"faults", "elections", "strays"} : Spend(k) =>
                used'.faults + used'.elections + used'.strays
                    >= used.faults + used.elections + used.strays + 1
      <3>1. used.faults \in Nat /\ used.elections \in Nat /\ used.strays \in Nat
        BY DEF TypeOK
      <3>2. used.faults + used.elections + used.strays + 0
              = used.faults + used.elections + used.strays
        BY <3>1
      <3> QED
        BY <3>1, <3>2, UsedFaults
    <2>3. CASE Moves(r, 0)
      BY <2>1, <2>2, <2>3, MovesBounded
    <2>4. CASE Moves(r, 1) /\ \E k \in {"faults", "elections", "strays"} : Spend(k)
      BY <2>1, <2>2, <2>4, MovesBounded
    <2> QED
      BY <1>1, <2>3, <2>4, NextWeighs
  <1> QED
    BY <1>2, <1>3, <1>4 DEF RepeatInv

LEMMA RepeatsBounded ==
    ASSUME TypeOK, RepeatInv, NEW x \in executed, x.entry.req # NoRequest
    PROVE  Cardinality(Places(x.entry.req))
               <= 1 + used.faults + used.elections + used.strays
  <1>1. PICK r \in Request : r = x.entry.req
    BY DEF TypeOK, Entry
  <1>2. Bounded(r)
    BY DEF RepeatInv
  <1>3. Places(r) \in SUBSET Copies(r)
    <2> SUFFICES ASSUME NEW y \in Executions(r)
                 PROVE  [index |-> y.index, entry |-> y.entry] \in Copies(r)
      BY Zenon DEF Places
    <2>1. y \in executed /\ y.entry.req = r /\ y.index \in Nat /\ y.entry \in Entry
      BY DEF Executions, TypeOK
    <2>2. PICK x1 : x1 = [index |-> y.index, entry |-> y.entry]
      OBVIOUS
    <2>3. x1.index = y.index /\ x1.entry = y.entry /\ x1 \in [index : Nat, entry : Entry]
      BY <2>1, <2>2
    <2>4. Applied(x1)
      BY <2>1, <2>3 DEF Applied
    <2>5. x1 \in Copies(r)
      BY <2>1, <2>3, <2>4 DEF Copies
    <2> QED
      BY <2>2, <2>5
  <1>4. IsFiniteSet(Copies(r)) /\ IsFiniteSet(Appends(r)) /\ IsFiniteSet(Open(r))
    BY <1>2 DEF Bounded
  <1>5. /\ IsFiniteSet(Places(r))
        /\ Cardinality(Places(r)) <= Cardinality(Copies(r))
    BY <1>3, <1>4, FS_Subset
  <1>6. /\ Cardinality(Places(r)) \in Nat /\ Cardinality(Copies(r)) \in Nat
        /\ Cardinality(Appends(r)) \in Nat /\ Cardinality(Open(r)) \in Nat
    BY <1>4, <1>5, FS_CardinalityType
  <1>7. used.faults \in Nat /\ used.elections \in Nat /\ used.strays \in Nat
    BY DEF TypeOK
  <1>8. Cardinality(Copies(r)) + Cardinality(Appends(r)) + Cardinality(Open(r))
          <= 1 + used.faults + used.elections + used.strays
    BY <1>2 DEF Bounded
  <1> QED
    BY <1>1, <1>5, <1>6, <1>7, <1>8

-----------------------------------------------------------------------------
(* As long as nothing is lost, no leader replaced and no process restarted, *)
(* what is answered has been executed.                                      *)

Calm == Undisturbed /\ used.restarts = 0
\* Executed, or in the entry that never is.
Ran(r) == Executions(r) # {} \/ FirstOfAll(r)

\* What a leader counts as applied a leader has executed.
AppliedRan ==
    /\ \A n \in Node : state[n] = "LEADER" =>
          \A i \in 1 .. lastApplied[n] :
              /\ i < Len(log[n])
              /\ \E x \in executed : x.index = i /\ x.entry = log[n][i + 1]
    /\ NoLeader => \A n \in Node : lastApplied[n] = 0

\* Caches have the numbers that were given out, and know what was executed.
CachedRan ==
    /\ \A n \in Node, c \in Client : cache[n][c].id <= counter[c]
    /\ \A n \in Node, r \in Live : cache[n][r.client].id = r.id => Ran(r)
    /\ \A h \in handlers : h.pc = "persist" => Ran(h.req)

CalmInv ==
    Calm => /\ AppliedRan /\ CachedRan
            /\ \A a \in answers : Ran(a.req)

LEMMA StaysCalm ==
    ASSUME TypeOK, [Next]_vars, Calm'
    PROVE  Calm /\ ~Restart /\ Undisturbed' /\ Tested
  <1>1. /\ used.restarts \in Nat /\ used'.restarts \in Nat
        /\ used.restarts <= used'.restarts /\ used'.restarts = 0
    BY UsedGrows DEF TypeOK, Calm
  <1>2. ~Restart
    <2> SUFFICES ASSUME Restart PROVE FALSE
      OBVIOUS
    <2>1. used'.restarts = used.restarts + 1
      BY <1>1, SpendType DEF Restart
    <2> QED
      BY <1>1, <2>1
  <1>3. Undisturbed /\ Undisturbed' /\ Tested
    BY StaysUndisturbed DEF Calm
  <1> QED
    BY <1>1, <1>2, <1>3 DEF Calm

LEMMA LogAt ==
    ASSUME NEW lg \in Seq(Entry)
    PROVE  Len(lg) \in Nat /\ (lg # <<>> <=> Len(lg) > 0)
  <1> HIDE DEF Entry
  <1> QED
    OBVIOUS

LEMMA RanStays ==
    ASSUME TypeOK, TypeOK', Core, OneLeads, [Next]_vars, Calm', NEW r, Ran(r)
    PROVE  Ran(r)'
  <1>1. CASE Executions(r) # {}
    BY <1>1, ExecutedGrows DEF Ran, Executions
  <1>2. CASE FirstOfAll(r)
    <2>1. PICK n \in Node : Newest(n) /\ log[n] # <<>> /\ log[n][1].req = r
      BY <1>2 DEF FirstOfAll
    <2>2. Newest(n)'
      BY <2>1, StaysCalm, NewestStays
    <2>3. /\ Len(log[n]) \in Nat /\ Len(log'[n]) \in Nat /\ Len(log[n]) <= Len(log'[n])
          /\ \A i \in 1 .. Len(log[n]) : log'[n][i] = log[n][i]
      BY <2>1, <2>2, StaysCalm, LeaderKeeps DEF Newest
    <2>4. Len(log[n]) > 0
      BY <2>1, LogAt DEF TypeOK
    <2>5. log'[n] # <<>> /\ log'[n][1] = log[n][1]
      <3>1. 1 \in 1 .. Len(log[n]) /\ Len(log'[n]) > 0
        BY <2>3, <2>4
      <3> QED
        BY <2>3, <3>1, LogAt DEF TypeOK
    <2> QED
      BY <2>1, <2>2, <2>5 DEF FirstOfAll, Ran
  <1> QED
    BY <1>1, <1>2 DEF Ran

LEMMA CountersGrow ==
    ASSUME TypeOK, [Next]_vars, ~Restart
    PROVE  \A c \in Client : /\ counter[c] \in Nat /\ counter'[c] \in Nat
                             /\ counter[c] <= counter'[c]
  <1>1. counter \in [Client -> 0 .. MaxLines] /\ MaxLines \in Nat
    BY BoundAssumption DEF TypeOK
  <1>2. ASSUME NEW c \in Client, counter' = [counter EXCEPT ![c] = @ + 1],
               NEW d \in Client
        PROVE  counter[d] \in Nat /\ counter'[d] \in Nat /\ counter[d] <= counter'[d]
    BY <1>1, <1>2
  <1>3. ASSUME counter' = counter, NEW d \in Client
        PROVE  counter[d] \in Nat /\ counter'[d] \in Nat /\ counter[d] <= counter'[d]
    BY <1>1, <1>3
  <1>4. \/ counter' = counter
        \/ \E c \in Client : counter' = [counter EXCEPT ![c] = @ + 1]
    BY StraySpends DEF Next, vars, sessionVars, HandlerStep, ClientCommand, OtherCommand, Timeout,
       Receive, CheckCommand, AppendEntry, Replicate, NotReplicated, StepDown, Commit,
       NotCommitted, PersistAndReply, Elect, HearVote, HearLeader
  <1> QED
    BY <1>2, <1>3, <1>4

\* Undisturbed, nobody is elected while a node leads, and the newest leader goes on.
LEMMA CalmLeads ==
    ASSUME TypeOK, TypeOK', Core, OneLeads, [Next]_vars, Calm'
    PROVE  /\ NoLeader' => NoLeader
           /\ \A n \in Node : state'[n] = "LEADER" /\ state[n] # "LEADER" =>
                 NoLeader /\ lastApplied' = lastApplied
  <1>1. ~Restart /\ Undisturbed'
    BY StaysCalm
  <1>2. NoLeader' => NoLeader
    <2> SUFFICES ASSUME ~NoLeader PROVE ~NoLeader'
      OBVIOUS
    <2>1. PICK n \in Node : Newest(n)
      BY DEF OneLeads
    <2>2. Newest(n)'
      BY <1>1, <2>1, NewestStays
    <2> QED
      BY <2>2 DEF Newest, NoLeader
  <1>3. ASSUME NEW n \in Node, state'[n] = "LEADER", state[n] # "LEADER"
        PROVE  NoLeader /\ lastApplied' = lastApplied
    <2>1. ASSUME NEW a \in Node, Demoted(a) PROVE FALSE
      BY <1>3, <2>1 DEF Demoted, TypeOK
    <2>2. PICK m \in Node, Q \in Quorum : Elect(m, Q)
      BY <1>1, <1>3, <2>1, RoleSteps
    <2>3. NoLeader
      BY <1>1, <2>2, StaysUndisturbed DEF Elect
    <2> QED
      BY <2>2, <2>3 DEF Elect
  <1> QED
    BY <1>2, <1>3

\* The entries that a commit applies.
LEMMA Commits ==
    ASSUME NEW h, Commit(h), NEW i \in lastApplied[h.node] + 1 .. h.index
    PROVE  \E x \in executed' : x.index = i /\ x.entry = log[h.node][i + 1]
  <1>1. PICK x : x = [index |-> i, entry |-> log[h.node][i + 1], node |-> h.node,
                      life |-> used.restarts]
    OBVIOUS
  <1>2. x \in executed'
    BY <1>1 DEF Commit
  <1> QED
    BY <1>1, <1>2

\* A commit, undisturbed: the handler's own entry is one of those applied, or the
\* first of all.
LEMMA CommitRan ==
    ASSUME TypeOK, TypeOK', Core, OneLeads, AppliedRan, [Next]_vars, Calm',
           NEW h \in handlers, Commit(h)
    PROVE  Ran(h.req)' /\ state[h.node] = "LEADER"
  <1>1. /\ h.node \in Node /\ h.index \in Nat /\ lastApplied[h.node] \in Nat
        /\ log[h.node] \in Seq(Entry)
    BY HandlerAt DEF TypeOK
  <1>2. Newest(h.node) /\ state[h.node] = "LEADER"
    BY StaysCalm, CalmHandler DEF Commit, Working
  <1>3. log[h.node][h.index + 1].req = h.req
    BY CommitsOwn
  <1>4. CASE h.index = 0
    <2>1. log[h.node][1].req = h.req
      BY <1>3, <1>4
    <2>2. log[h.node] # <<>>
      BY <1>1, LogAt DEF Commit, OfCurrentTerm
    <2>3. Ran(h.req)
      BY <1>1, <1>2, <2>1, <2>2 DEF Ran, FirstOfAll
    <2> QED
      BY <1>2, <2>3, RanStays
  <1>5. CASE h.index > 0
    <2>1. \E x \in executed' : x.index = h.index /\ x.entry = log[h.node][h.index + 1]
      <3>1. CASE h.index > lastApplied[h.node]
        <4>1. h.index \in lastApplied[h.node] + 1 .. h.index
          BY <1>1, <3>1
        <4> QED
          BY <4>1, Commits
      <3>2. CASE ~(h.index > lastApplied[h.node])
        <4>1. h.index \in 1 .. lastApplied[h.node]
          BY <1>1, <1>5, <3>2
        <4>2. \E x \in executed : x.index = h.index /\ x.entry = log[h.node][h.index + 1]
          BY <1>1, <1>2, <4>1 DEF AppliedRan
        <4> QED
          BY <4>2, ExecutedGrows
      <3> QED
        BY <3>1, <3>2
    <2>2. \E x \in executed' : x.entry.req = h.req
      BY <1>3, <2>1
    <2> QED
      BY <1>2, <2>2 DEF Ran, Executions
  <1> QED
    BY <1>1, <1>4, <1>5

LEMMA NextAppliedRan ==
    ASSUME TypeOK, TypeOK', Core, OneLeads, AppliedRan, [Next]_vars, Calm'
    PROVE  AppliedRan'
  <1>1. ~Restart /\ Undisturbed' /\ Tested /\ executed \subseteq executed'
    BY StaysCalm, ExecutedGrows
  <1>2. \/ lastApplied' = lastApplied
        \/ \E h \in handlers : Commit(h)
        \/ \E m \in Node : HearLeader(m)
    BY <1>1 DEF Tested, Next, vars, HandlerStep, ClientCommand, OtherCommand, Timeout, Receive,
           CheckCommand, AppendEntry, Replicate, NotReplicated, StepDown, NotCommitted,
           PersistAndReply, Elect, HearVote
  <1>3. ASSUME NoLeader' PROVE \A n \in Node : lastApplied'[n] = 0
    <2>1. NoLeader /\ \A n \in Node : lastApplied[n] = 0
      BY <1>3, CalmLeads DEF AppliedRan
    <2>2. ASSUME NEW h \in handlers, Commit(h) PROVE FALSE
      <3>1. h.node \in Node
        BY HandlerAt
      <3> QED
        BY <2>1, <2>2, <3>1, CommitRan DEF NoLeader
    <2>3. ~\E m \in Node : HearLeader(m)
      BY <2>1 DEF HearLeader, NoLeader
    <2> QED
      BY <1>2, <2>1, <2>2, <2>3
  <1>4. ASSUME NEW n \in Node, state'[n] = "LEADER", NEW i \in 1 .. lastApplied'[n]
        PROVE  i < Len(log'[n]) /\ \E x \in executed' : x.index = i /\ x.entry = log'[n][i + 1]
    <2>0. lastApplied[n] \in Nat /\ lastApplied \in [Node -> Nat]
      BY DEF TypeOK
    <2>1. CASE state[n] # "LEADER"
      <3>1. lastApplied'[n] = 0
        BY <1>4, <2>1, CalmLeads DEF AppliedRan
      <3> QED
        BY <3>1
    <2>2. CASE state[n] = "LEADER"
      <3>1. /\ Len(log[n]) \in Nat /\ Len(log'[n]) \in Nat /\ Len(log[n]) <= Len(log'[n])
            /\ \A j \in 1 .. Len(log[n]) : log'[n][j] = log[n][j]
        BY <1>1, <1>4, <2>2, LeaderKeeps
      <3>2. i \in Nat /\ i > 0
        <4>1. lastApplied'[n] \in Nat
          BY DEF TypeOK
        <4> QED
          BY <4>1
      <3>3. i < Len(log[n]) /\ \E x \in executed' : x.index = i /\ x.entry = log[n][i + 1]
        <4>1. CASE lastApplied'[n] = lastApplied[n]
          BY <1>1, <2>2, <4>1 DEF AppliedRan
        <4>2. ASSUME NEW h \in handlers, Commit(h), lastApplied'[n] # lastApplied[n]
              PROVE  i < Len(log[n]) /\ \E x \in executed' : x.index = i /\ x.entry = log[n][i + 1]
          <5>1. h.index \in Nat /\ h.node \in Node
            BY HandlerAt
          <5>2. h.node = n /\ lastApplied'[n] = Larger(lastApplied[n], h.index)
            BY <2>0, <4>2, <5>1 DEF Commit
          <5>3. h.index < Len(log[n])
            BY <4>2, <5>2 DEF Commit, OfCurrentTerm
          <5>4. CASE i <= lastApplied[n]
            <6>1. i \in 1 .. lastApplied[n]
              BY <2>0, <3>2, <5>4
            <6> QED
              BY <1>1, <2>2, <6>1 DEF AppliedRan
          <5>5. CASE ~(i <= lastApplied[n])
            <6>1. i \in lastApplied[n] + 1 .. h.index
              BY <2>0, <3>2, <5>1, <5>2, <5>5 DEF Larger
            <6>2. \E x \in executed' : x.index = i /\ x.entry = log[n][i + 1]
              BY <4>2, <5>2, <6>1, Commits
            <6> QED
              BY <2>0, <3>1, <3>2, <5>1, <5>3, <6>1, <6>2
          <5> QED
            BY <5>4, <5>5
        <4>3. ASSUME NEW m \in Node, HearLeader(m) PROVE lastApplied'[n] = lastApplied[n]
          <5>1. PICK k \in Node \ {m} :
                   /\ state[k] = "LEADER" /\ currentTerm[k] = currentTerm[m]
                   /\ lastApplied' = [lastApplied EXCEPT ![m] = Larger(@, lastApplied[k])]
            BY <4>3 DEF HearLeader
          <5>2. n # m
            BY <2>2, <5>1 DEF OneLeads
          <5> QED
            BY <2>0, <5>1, <5>2
        <4> QED
          BY <1>2, <4>1, <4>2, <4>3
      <3>4. i + 1 \in 1 .. Len(log[n])
        BY <3>1, <3>2, <3>3
      <3> QED
        BY <3>1, <3>2, <3>3, <3>4
    <2> QED
      BY <2>1, <2>2
  <1> QED
    BY <1>3, <1>4 DEF AppliedRan

\* A redirect does not end the call: it is not counted as an attempt.
LEMMA ReceiveAnswers ==
    ASSUME TypeOK, NEW h \in handlers, Awaited(h), Receive(h)
    PROVE  answers' = answers
  <1>1. session[h.req.client] \in Waiting
    BY AwaitedSession
  <1>2. \A n : [session[h.req.client] EXCEPT !.node = n].attempts < N
    <2>1. N \in Nat /\ session[h.req.client].attempts \in 0 .. N - 1
      BY <1>1, NAssumption DEF Waiting
    <2>2. session[h.req.client].attempts < N
      BY <2>1
    <2>3. \A n : [session[h.req.client] EXCEPT !.node = n].attempts
                    = session[h.req.client].attempts
      BY <1>1 DEF Waiting
    <2> QED
      BY <2>2, <2>3
  <1>3. ASSUME Redirect(h) PROVE answers' = answers
    <2>1. PICK n : Try(h.req.client, [session[h.req.client] EXCEPT !.node = n],
                       handlers \ {h})
      BY <1>3 DEF Redirect
    <2> QED
      BY <1>2, <2>1 DEF Try
  <1> QED
    BY <1>3 DEF Receive, Go

\* What is answered was executed.
LEMMA NextAnsweredRan ==
    ASSUME TypeOK, TypeOK', Core, OneLeads, Alone, CachedRan,
           \A a \in answers : Ran(a.req), [Next]_vars, Calm'
    PROVE  \A a \in answers' : Ran(a.req)'
  <1> SUFFICES ASSUME NEW a \in answers', a \notin answers
               PROVE  Ran(a.req)'
    BY RanStays
  <1>1. ~Restart /\ Undisturbed'
    BY StaysCalm
  <1>2. PICK h \in handlers : HandlerStep(h) /\ CalmTurn(h)
    BY <1>1, CalmSteps
  <1>3. a.req = h.req
    BY <1>2, CalmLeavesOne
  <1>4. h.req \in Live /\ h.node \in Node
    BY HandlerAt DEF Live
  <1>5. \A g : ~Goes(h, g)
    BY DEF Goes
  <1>6. ~Receive(h)
    BY ReceiveAnswers DEF Alone
  <1>7. \/ h.pc = "command" /\ cache[h.node][h.req.client].id = h.req.id
        \/ h.pc = "persist"
    BY <1>2, <1>5, <1>6 DEF CalmTurn
  <1>8. Ran(h.req)
    BY <1>4, <1>7 DEF CachedRan
  <1> QED
    BY <1>3, <1>8, RanStays

LEMMA NextCachedRan ==
    ASSUME TypeOK, TypeOK', LiveNumbered, Core, OneLeads, Alone, AppliedRan, CachedRan,
           [Next]_vars, Calm'
    PROVE  CachedRan'
  <1>1. ~Restart /\ Undisturbed' /\ Tested
    BY StaysCalm
  <1>2. \A c \in Client : /\ counter[c] \in Nat /\ counter'[c] \in Nat
                          /\ counter[c] <= counter'[c]
    BY <1>1, CountersGrow
  <1>3. \A n \in Node, c \in Client : cache[n][c].id \in Nat
    <2>1. \A n \in Node, c \in Client : cache[n][c] \in Answer
      BY DEF TypeOK
    <2> QED
      BY <2>1, BoundAssumption DEF Answer
  <1>4. \A r \in Live : r.client \in Client /\ r.id <= counter[r.client]
    <2>1. \A c \in Client : session[c] # Idle => session[c].req \in Request
      BY DEF TypeOK
    <2>2. \A r \in Live : r \in Request
      BY <2>1, HandlerAt DEF Live
    <2> QED
      BY <2>2 DEF LiveNumbered, Request
  <1>5. \/ cache' = cache
        \/ \E h \in handlers : Commit(h)
    BY <1>1 DEF Tested, Next, vars, HandlerStep, ClientCommand, OtherCommand, Timeout, Receive,
           CheckCommand, AppendEntry, Replicate, NotReplicated, StepDown,
           NotCommitted, PersistAndReply, Elect, HearVote, HearLeader
  <1>6. ASSUME NEW h \in handlers, Commit(h)
        PROVE  /\ h.req \in Live /\ h.req.client \in Client /\ h.node \in Node
               /\ Ran(h.req)'
               /\ \E result : cache' = [cache EXCEPT ![h.node][h.req.client] =
                                           [id |-> h.req.id, result |-> result]]
    <2>1. h.req \in Live /\ h.node \in Node
      BY HandlerAt DEF Live
    <2> QED
      BY <1>4, <1>6, <2>1, CommitRan DEF Commit
  <1>7. ASSUME NEW n \in Node, NEW c \in Client
        PROVE  \/ cache'[n][c] = cache[n][c]
               \/ \E h \in handlers : /\ Commit(h) /\ h.req.client = c
                                      /\ cache'[n][c].id = h.req.id
    <2>1. ASSUME NEW h \in handlers, Commit(h)
          PROVE  \/ cache'[n][c] = cache[n][c]
                 \/ h.req.client = c /\ cache'[n][c].id = h.req.id
      <3>1. PICK result : cache' = [cache EXCEPT ![h.node][h.req.client] =
                                       [id |-> h.req.id, result |-> result]]
        BY <1>6, <2>1
      <3>2. h.node \in Node /\ h.req.client \in Client
        BY <1>6, <2>1
      <3>3. cache \in [Node -> [Client -> Answer]]
        BY DEF TypeOK
      <3>4. CASE n = h.node /\ c = h.req.client
        <4>1. cache'[n][c] = [id |-> h.req.id, result |-> result]
          BY <3>1, <3>3, <3>4
        <4> QED
          BY <3>4, <4>1
      <3>5. CASE ~(n = h.node /\ c = h.req.client)
        BY <3>1, <3>2, <3>3, <3>5
      <3> QED
        BY <3>4, <3>5
    <2> QED
      BY <1>5, <2>1
  <1>8. \A n \in Node, c \in Client : cache'[n][c].id <= counter'[c]
    <2> SUFFICES ASSUME NEW n \in Node, NEW c \in Client
                 PROVE  cache'[n][c].id <= counter'[c]
      OBVIOUS
    <2>1. CASE cache'[n][c] = cache[n][c]
      <3>1. cache[n][c].id <= counter[c]
        BY DEF CachedRan
      <3> QED
        BY <1>2, <1>3, <2>1, <3>1
    <2>2. ASSUME NEW h \in handlers, Commit(h), h.req.client = c, cache'[n][c].id = h.req.id
          PROVE  cache'[n][c].id <= counter'[c]
      <3>1. h.req.id <= counter[c] /\ h.req.id \in Nat
        BY <1>4, <1>6, <2>2, HandlerAt, BoundAssumption DEF Request
      <3> QED
        BY <1>2, <2>2, <3>1
    <2> QED
      BY <1>7, <2>1, <2>2
  <1>9. ASSUME NEW r \in Live, NEW n \in Node, cache'[n][r.client].id = r.id
        PROVE  Ran(r)'
    <2>1. CASE cache'[n][r.client] = cache[n][r.client]
      BY <1>9, <2>1, RanStays DEF CachedRan
    <2>2. ASSUME NEW h \in handlers, Commit(h), h.req.client = r.client,
                 cache'[n][r.client].id = h.req.id
          PROVE  Ran(r)'
      <3>1. r = h.req
        BY <1>6, <1>9, <2>2 DEF LiveNumbered
      <3> QED
        BY <1>6, <2>2, <3>1
    <2> QED
      BY <1>4, <1>7, <2>1, <2>2
  <1>10. ASSUME NEW r \in Live', NEW n \in Node, cache'[n][r.client].id = r.id
         PROVE  Ran(r)'
    <2>1. ASSUME NEW c \in Client, NEW q, NewCall(c, q), r \notin Live PROVE FALSE
      <3>1. r = q
        BY <2>1 DEF NewCall, Live
      <3>2. r.client = c /\ r.id = counter[c] + 1 /\ r \in Request
        BY <2>1, <3>1 DEF NewCall
      <3>3. \A h \in handlers : ~Commit(h)
        <4> SUFFICES ASSUME NEW h \in handlers, Commit(h) PROVE FALSE
          OBVIOUS
        <4>1. session' = session
          BY DEF Commit, sessionVars
        <4>2. session'[c].req = r /\ session[c] = Idle
          BY <2>1, <3>1 DEF NewCall
        <4>3. r = NoRequest
          BY <4>1, <4>2 DEF Idle
        <4>4. r.id # 0
          BY <3>2, BoundAssumption DEF Request
        <4> QED
          BY <4>3, <4>4 DEF NoRequest
      <3>4. cache[n][c].id = counter[c] + 1
        BY <1>5, <1>10, <3>2, <3>3
      <3>5. cache[n][c].id <= counter[c] /\ counter[c] \in Nat
        BY <1>2 DEF CachedRan
      <3> QED
        BY <3>4, <3>5
    <2>2. ASSUME NEW h \in handlers, HandlerStep(h) PROVE r \in Live
      BY <2>2, HandlerCalls DEF CallsKept
    <2>3. ASSUME UNCHANGED <<session, handlers>> PROVE r \in Live
      BY <2>3 DEF Live
    <2> QED
      BY <1>1, <1>9, <1>10, <2>1, <2>2, <2>3, CalmSteps
  <1>11. ASSUME NEW g \in handlers', g.pc = "persist"
         PROVE  Ran(g.req)'
    <2>1. CASE g \in handlers
      BY <1>11, <2>1, RanStays DEF CachedRan
    <2>2. ASSUME NEW h \in handlers, HandlerStep(h), g \notin handlers PROVE Ran(g.req)'
      <3>1. Commit(h)
        BY <1>11, <2>2, OnlyCommitPersists
      <3>2. g.req = h.req
        <4>1. PICK result : handlers' = (handlers \ {h}) \cup
                                        {[h EXCEPT !.pc = "persist", !.result = result]}
          BY <3>1 DEF Commit
        <4>2. g = [h EXCEPT !.pc = "persist", !.result = result] /\ h \in Handler
          BY <2>2, <4>1, HandlerAt
        <4> QED
          BY <4>2 DEF Handler
      <3> QED
        BY <1>6, <3>1, <3>2
    <2>3. ASSUME NEW c \in Client, NEW r, NewCall(c, r) PROVE g \in handlers
      BY <1>11, <2>3 DEF NewCall
    <2> QED
      BY <1>1, <2>1, <2>2, <2>3, CalmSteps
  <1> QED
    BY <1>8, <1>10, <1>11 DEF CachedRan

LEMMA InitCalm ==
    ASSUME Init
    PROVE  CalmInv
  <1>1. /\ handlers = {} /\ answers = {} /\ \A c \in Client : session[c] = Idle
        /\ \A n \in Node : lastApplied[n] = 0
        /\ \A n \in Node, c \in Client : cache[n][c] = NoAnswer
        /\ \A c \in Client : counter[c] = 0
    BY DEF Init
  <1>2. Live = {}
    BY <1>1 DEF Live
  <1>3. \A n \in Node, c \in Client : cache[n][c].id = 0
    BY <1>1 DEF NoAnswer
  <1>4. AppliedRan
    BY <1>1 DEF AppliedRan
  <1>5. CachedRan
    BY <1>1, <1>2, <1>3 DEF CachedRan
  <1> QED
    BY <1>1, <1>4, <1>5 DEF CalmInv

LEMMA NextCalm ==
    ASSUME KeptInv, KeptInv', OneLeads, CalmInv, [Next]_vars
    PROVE  CalmInv'
  <1> SUFFICES ASSUME Calm'
               PROVE  /\ AppliedRan' /\ CachedRan'
                      /\ \A a \in answers' : Ran(a.req)'
    BY DEF CalmInv
  <1>1. TypeOK /\ TypeOK' /\ LiveNumbered
    BY DEF KeptInv, SessionInv
  <1>2. Calm
    BY <1>1, StaysCalm
  <1>3. Alone
    BY <1>2 DEF KeptInv, Calm
  <1>4. Core
    <2>1. OneElection
      BY <1>2 DEF Calm, Undisturbed, OneElection
    <2> QED
      BY <2>1 DEF KeptInv, SessionInv, Core
  <1>5. AppliedRan /\ CachedRan /\ \A a \in answers : Ran(a.req)
    BY <1>2 DEF CalmInv
  <1> QED
    BY <1>1, <1>3, <1>4, <1>5, NextAppliedRan, NextCachedRan, NextAnsweredRan DEF KeptInv

-----------------------------------------------------------------------------
(* Who applies: a node is given the chance by an election, in one life of   *)
(* the process, and applies one entry an index in it.                       *)

\* Nodes that lead, have a handler at work or have applied entries, with the
\* life of the process they do it in.
Tenures ==
    {[node |-> x.node, life |-> x.life] : x \in executed}
    \cup {[node |-> n, life |-> used.restarts] :
             n \in {m \in Node : state[m] = "LEADER"}}
    \cup {[node |-> h.node, life |-> used.restarts] :
             h \in {g \in handlers : Working(g)}}

\* The first election and the first after a restart need not be counted.
Vacant == IF NoLeader THEN 1 ELSE 0
TenuresBounded ==
    /\ IsFiniteSet(Tenures)
    /\ Cardinality(Tenures) + Vacant <= 1 + used.elections + used.restarts

\* In this life an index was applied only when lastApplied has passed it.
OnceALife ==
    /\ \A x \in executed : /\ x.life <= used.restarts
                           /\ x.life = used.restarts => x.index <= lastApplied[x.node]
    /\ \A x, y \in executed :
          x.index = y.index /\ x.node = y.node /\ x.life = y.life => x = y

LEMMA AppliedGrows ==
    ASSUME TypeOK, [Next]_vars, ~Restart, NEW n \in Node
    PROVE  lastApplied[n] \in Nat /\ lastApplied[n] <= lastApplied'[n]
  <1>1. lastApplied \in [Node -> Nat] /\ lastApplied[n] \in Nat
    BY DEF TypeOK
  <1>2. ASSUME NEW m \in Node, NEW i \in Nat,
               lastApplied' = [lastApplied EXCEPT ![m] = Larger(@, i)]
        PROVE  lastApplied[n] <= lastApplied'[n]
    <2>1. lastApplied[n] <= Larger(lastApplied[n], i)
      BY <1>1 DEF Larger
    <2> QED
      BY <1>1, <1>2, <2>1
  <1>3. ASSUME NEW h \in handlers, Commit(h) PROVE lastApplied[n] <= lastApplied'[n]
    <2>1. h.node \in Node /\ h.index \in Nat
      BY HandlerAt
    <2> QED
      BY <1>2, <1>3, <2>1 DEF Commit
  <1>4. ASSUME NEW m \in Node, HearLeader(m) PROVE lastApplied[n] <= lastApplied'[n]
    <2>1. PICK k \in Node :
             lastApplied' = [lastApplied EXCEPT ![m] = Larger(@, lastApplied[k])]
      BY <1>4 DEF HearLeader
    <2>2. lastApplied[k] \in Nat
      BY DEF TypeOK
    <2> QED
      BY <1>2, <2>1, <2>2
  <1>5. ASSUME NEW h \in handlers, SendsOn(h) PROVE lastApplied[n] <= lastApplied'[n]
    BY <1>5, SendsOnLogs
  <1>6. \/ lastApplied' = lastApplied
        \/ \E h \in handlers : Commit(h) \/ SendsOn(h)
        \/ \E m \in Node : HearLeader(m)
    BY DEF Next, vars, HandlerStep, ClientCommand, OtherCommand, Timeout, Receive,
           CheckCommand, AppendEntry, Replicate, NotReplicated, StepDown, NotCommitted,
           PersistAndReply, Elect, HearVote
  <1> QED
    BY <1>1, <1>3, <1>4, <1>5, <1>6

\* What a step adds to executed, if anything.
LEMMA ExecutedFrom ==
    ASSUME TypeOK, [Next]_vars
    PROVE  \/ executed' = executed
           \/ \E h \in handlers : Commit(h)
  BY StraySpends DEF Next, vars, HandlerStep, ClientCommand, OtherCommand, Timeout,
         Receive, CheckCommand, AppendEntry, Replicate, NotReplicated, StepDown,
         NotCommitted, PersistAndReply, Elect, HearVote, HearLeader, Restart

LEMMA CommitUsed ==
    ASSUME NEW h, Commit(h)
    PROVE  /\ used' = used
           /\ lastApplied' = [lastApplied EXCEPT ![h.node] = Larger(@, h.index)]
  BY DEF Commit

LEMMA NextOnce ==
    ASSUME TypeOK, TypeOK', OnceALife, [Next]_vars
    PROVE  OnceALife'
  <1>1. /\ used.restarts \in Nat /\ used'.restarts \in Nat
        /\ used.restarts <= used'.restarts
    BY UsedGrows DEF TypeOK
  <1>2. /\ \A x \in executed' : x \in [index : Nat, entry : Entry, node : Node, life : Nat]
        /\ \A x \in executed : x.node \in Node /\ x.index \in Nat /\ x.life \in Nat
    BY DEF TypeOK
  <1>3. \A n \in Node : lastApplied[n] \in Nat /\ lastApplied'[n] \in Nat
    BY DEF TypeOK
  <1>4. ASSUME NEW x \in executed
        PROVE  /\ x.life <= used'.restarts
               /\ x.life = used'.restarts => x.index <= lastApplied'[x.node]
    <2>1. x.life \in Nat /\ x.index \in Nat /\ x.node \in Node /\ x.life <= used.restarts
      BY <1>2 DEF OnceALife
    <2>2. x.life <= used'.restarts
      BY <1>1, <2>1
    <2>3. ASSUME x.life = used'.restarts PROVE x.index <= lastApplied'[x.node]
      <3>1. x.life = used.restarts /\ used'.restarts = used.restarts
        BY <1>1, <2>1, <2>3
      <3>2. ~Restart
        <4> SUFFICES ASSUME Restart PROVE FALSE
          OBVIOUS
        <4>1. used'.restarts = used.restarts + 1
          BY SpendType DEF Restart
        <4> QED
          BY <1>1, <3>1, <4>1
      <3>3. lastApplied[x.node] <= lastApplied'[x.node]
        BY <2>1, <3>2, AppliedGrows
      <3>4. x.index <= lastApplied[x.node]
        BY <3>1 DEF OnceALife
      <3> QED
        BY <1>3, <2>1, <3>3, <3>4
    <2> QED
      BY <2>2, <2>3
  <1>5. CASE executed' = executed
    BY <1>4, <1>5 DEF OnceALife
  <1>6. ASSUME NEW h \in handlers, Commit(h) PROVE OnceALife'
    <2>1. h.node \in Node /\ h.index \in Nat
      BY HandlerAt
    <2>2. used' = used /\ lastApplied'[h.node] = Larger(lastApplied[h.node], h.index)
      BY <1>6, <2>1, CommitUsed DEF TypeOK
    <2>3. ASSUME NEW x \in executed', x \notin executed
          PROVE  /\ x.index \in Nat /\ x.entry = log[h.node][x.index + 1]
                 /\ x.node = h.node /\ x.life = used.restarts
                 /\ x.index > lastApplied[h.node]
                 /\ x.index <= lastApplied'[x.node]
      <3>1. PICK i \in lastApplied[h.node] + 1 .. h.index :
               /\ x.index = i /\ x.entry = log[h.node][i + 1]
               /\ x.node = h.node /\ x.life = used.restarts
        BY <1>6, <2>3, Committed
      <3>2. i \in Nat /\ i > lastApplied[h.node] /\ i <= h.index
        BY <1>3, <2>1, <3>1
      <3>3. i <= Larger(lastApplied[h.node], h.index)
        BY <1>3, <2>1, <3>2 DEF Larger
      <3> QED
        BY <2>2, <3>1, <3>2, <3>3
    <2>4. ASSUME NEW x \in executed, NEW y \in executed', y \notin executed,
                 x.index = y.index, x.node = y.node, x.life = y.life
          PROVE  FALSE
      <3>1. y.node = h.node /\ y.life = used.restarts /\ y.index > lastApplied[h.node]
        BY <2>3, <2>4
      <3>2. x.index <= lastApplied[h.node]
        BY <2>4, <3>1 DEF OnceALife
      <3> QED
        BY <1>2, <1>3, <2>1, <2>4, <3>1, <3>2
    <2>5. ASSUME NEW x \in executed', NEW y \in executed',
                 x.index = y.index, x.node = y.node, x.life = y.life
          PROVE  x = y
      <3>1. CASE x \in executed /\ y \in executed
        BY <2>5, <3>1 DEF OnceALife
      <3>2. CASE x \notin executed /\ y \notin executed
        <4>1. x.entry = y.entry
          BY <2>3, <2>5, <3>2
        <4> QED
          BY <1>2, <2>5, <4>1
      <3> QED
        BY <2>4, <2>5, <3>1, <3>2
    <2>6. \A x \in executed' :
             /\ x.life <= used'.restarts
             /\ x.life = used'.restarts => x.index <= lastApplied'[x.node]
      <3> SUFFICES ASSUME NEW x \in executed', x \notin executed
                   PROVE  /\ x.life <= used'.restarts
                          /\ x.index <= lastApplied'[x.node]
        BY <1>4
      <3> QED
        BY <1>1, <2>2, <2>3
    <2> QED
      BY <2>5, <2>6 DEF OnceALife
  <1> QED
    BY <1>5, <1>6, ExecutedFrom

\* A handler at work was at work, or has just been let in by a leader.
LEMMA WorkingFrom ==
    ASSUME TypeOK, OneAwaited, [Next]_vars, NEW g \in handlers', Working(g)
    PROVE  \/ /\ g.node \in Node /\ state[g.node] = "LEADER" /\ state' = state
           \/ \E h \in handlers : Working(h) /\ h.node = g.node
  <1> DEFINE Good == \/ /\ g.node \in Node /\ state[g.node] = "LEADER" /\ state' = state
                     \/ \E h \in handlers : Working(h) /\ h.node = g.node
  <1>1. CASE g \in handlers
    BY <1>1
  <1> SUFFICES ASSUME g \notin handlers PROVE Good
    BY <1>1
  <1>2. ASSUME NEW h \in handlers, Ends(h) PROVE Good
    BY <1>2 DEF Ends, Away, Working
  <1>3. ASSUME NEW h \in handlers, NEW f, Onward(h, f), Working(h) PROVE Good
    <2>1. g = f /\ f.node = h.node
      BY <1>3 DEF Onward, Advance
    <2> QED
      BY <1>3, <2>1
  <1>4. ASSUME NEW h \in handlers, Receive(h) PROVE Good
    <2>1. CASE Redirect(h)
      BY <1>2, <2>1, RedirectEnds
    <2>2. CASE state[h.node] = "LEADER" /\ Go(h, "command")
      <3>1. PICK f : Onward(h, f) /\ f.node = h.node
        BY <2>2, GoOnward
      <3>2. g = f
        BY <3>1 DEF Onward, Advance
      <3>3. state' = state /\ h.node \in Node
        BY <1>4, HandlerAt DEF Receive, roleVars
      <3> QED
        BY <2>2, <3>1, <3>2, <3>3
    <2> QED
      BY <1>4, <2>1, <2>2 DEF Receive
  <1>5. ASSUME NEW h \in handlers, NEW status, Reply(h, status) PROVE Good
    BY <1>2, <1>5, ReplyEnds
  <1>6. ASSUME NEW h \in handlers, NEW p \in {"append", "commit"}, Go(h, p), Working(h)
        PROVE  Good
    BY <1>3, <1>6, GoOnward
  <1>7. ASSUME NEW h \in handlers, CheckCommand(h) PROVE Good
    <2>1. Working(h) /\ (Go(h, "append") \/ \E status : Reply(h, status))
      BY Zenon, <1>7 DEF CheckCommand, Working
    <2> QED
      BY <1>5, <1>6, <2>1
  <1>8. ASSUME NEW h \in handlers, AppendEntry(h) PROVE Good
    <2>1. PICK f : f = [h EXCEPT !.pc = "replicate", !.index = Len(log[h.node])]
      OBVIOUS
    <2>2. g = f /\ f.node = h.node /\ Working(h)
      BY <1>8, <2>1, HandlerAt DEF AppendEntry, Handler, Working
    <2> QED
      BY <2>2
  <1>9. ASSUME NEW h \in handlers, Commit(h) PROVE Good
    <2>1. PICK result : g = [h EXCEPT !.pc = "persist", !.result = result]
      BY <1>9 DEF Commit
    <2>2. g.node = h.node /\ Working(h)
      BY <1>9, <2>1, HandlerAt DEF Commit, Handler, Working
    <2> QED
      BY <2>2
  <1>10. ASSUME NEW h \in handlers, SendsOn(h) PROVE Good
    BY <1>5, <1>6, <1>10, SendsOnLogs DEF Working
  <1>11. ASSUME NEW h \in handlers, NEW Q \in Quorum, Replicate(h, Q) PROVE Good
    <2>1. Working(h) /\ Go(h, "commit")
      BY <1>11 DEF Replicate, Working
    <2> QED
      BY <1>6, <2>1
  <1>12. ASSUME NEW h \in handlers,
                NotReplicated(h) \/ StepDown(h) \/ NotCommitted(h) \/ PersistAndReply(h)
         PROVE  Good
    <2>1. \E status : Reply(h, status)
      BY Zenon, <1>12 DEF NotReplicated, StepDown, NotCommitted, PersistAndReply
    <2> QED
      BY <1>5, <2>1
  <1>13. ASSUME NEW h \in handlers, HandlerStep(h) PROVE Good
    <2> HIDE DEF Good
    <2> QED
      BY <1>4, <1>7, <1>8, <1>9, <1>10, <1>11, <1>12, <1>13 DEF HandlerStep
  <1>14. ASSUME NEW c \in Client, Timeout(c) PROVE Good
    BY <1>14, TimeoutAway DEF Away, Working
  <1>15. ASSUME NEW c \in Client, NEW op \in Op, NEW n \in Node, ClientCommand(c, op, n)
         PROVE  Good
    <2>1. PICK q : NewCall(c, q)
      BY <1>15, CommandCalls
    <2> QED
      BY <2>1 DEF NewCall, Working
  <1>16. CASE handlers' \subseteq handlers
    BY <1>16
  <1>17. \/ \E c \in Client : \/ Timeout(c)
                              \/ \E op \in Op, n \in Node : ClientCommand(c, op, n)
         \/ \E h \in handlers : HandlerStep(h)
         \/ handlers' \subseteq handlers
    BY DEF Next, vars, OtherCommand, Elect, HearVote, HearLeader, Restart
  <1> HIDE DEF Good
  <1> QED
    BY <1>13, <1>14, <1>15, <1>16, <1>17 DEF Good

LEMMA UsedTenures ==
    ASSUME TypeOK, [Next]_vars
    PROVE  /\ used'.elections + used'.restarts >= used.elections + used.restarts
           /\ Spend("elections") =>
                 used'.elections + used'.restarts = used.elections + used.restarts + 1
           /\ Spend("restarts") =>
                 used'.elections + used'.restarts = used.elections + used.restarts + 1
  <1>1. /\ used.elections \in Nat /\ used.restarts \in Nat
        /\ used'.elections \in Nat /\ used'.restarts \in Nat
        /\ used.elections <= used'.elections /\ used.restarts <= used'.restarts
    BY UsedGrows DEF TypeOK
  <1>2. ASSUME Spend("elections")
        PROVE  used'.elections = used.elections + 1 /\ used'.restarts = used.restarts
    BY <1>1, <1>2, SpendType
  <1>3. ASSUME Spend("restarts")
        PROVE  used'.restarts = used.restarts + 1 /\ used'.elections = used.elections
    BY <1>1, <1>3, SpendType
  <1> QED
    BY <1>1, <1>2, <1>3

\* What a step that is no restart adds: the node that is elected.
LEMMA TenuresFrom ==
    ASSUME TypeOK, TypeOK', OneAwaited, [Next]_vars, ~Restart, NEW t \in Tenures'
    PROVE  \/ t \in Tenures
           \/ \E n \in Node : /\ \E Q \in Quorum : Elect(n, Q)
                              /\ t = [node |-> n, life |-> used.restarts]
  <1>1. used'.restarts = used.restarts
    <2>1. \/ used' = used
          \/ \E kind \in {"requests", "elections", "faults", "strays"} : Spend(kind)
      BY StraySpends DEF Next, vars, ClientCommand, OtherCommand, Timeout, HandlerStep, Receive,
             CheckCommand, AppendEntry, Replicate, NotReplicated, StepDown, Commit,
             NotCommitted, PersistAndReply, Elect, HearVote, HearLeader
    <2>2. used.restarts \in Nat
      BY DEF TypeOK
    <2> QED
      BY <2>1, <2>2, SpendType
  <1>2. ASSUME NEW n \in Node, state'[n] = "LEADER",
               t = [node |-> n, life |-> used.restarts]
        PROVE  \/ t \in Tenures
               \/ \E Q \in Quorum : Elect(n, Q)
    <2>1. CASE state[n] = "LEADER"
      BY <1>2, <2>1 DEF Tenures
    <2>2. CASE state[n] # "LEADER"
      <3>1. ~\E a \in Node : Demoted(a)
        BY <1>2, <2>2 DEF Demoted, TypeOK
      <3>2. PICK m \in Node, Q \in Quorum : Elect(m, Q)
        BY <1>2, <2>2, <3>1, RoleSteps
      <3>3. n = m
        BY <1>2, <2>2, <3>2, ElectTerms
      <3> QED
        BY <3>2, <3>3
    <2> QED
      BY <2>1, <2>2
  <1>3. ASSUME NEW g \in handlers', Working(g),
               t = [node |-> g.node, life |-> used.restarts]
        PROVE  t \in Tenures
    BY <1>3, WorkingFrom DEF Tenures
  <1>4. ASSUME NEW x \in executed', t = [node |-> x.node, life |-> x.life]
        PROVE  t \in Tenures
    <2>1. CASE x \in executed
      BY <1>4, <2>1 DEF Tenures
    <2>2. CASE x \notin executed
      <3>1. PICK h \in handlers : Commit(h)
        BY <2>2, ExecutedFrom
      <3>2. x.node = h.node /\ x.life = used.restarts
        BY <2>2, <3>1, Committed
      <3>3. Working(h)
        BY <3>1 DEF Commit, Working
      <3> QED
        BY <1>4, <3>2, <3>3 DEF Tenures
    <2> QED
      BY <2>1, <2>2
  <1>5. \/ \E x \in executed' : t = [node |-> x.node, life |-> x.life]
        \/ \E n \in Node : state'[n] = "LEADER" /\ t = [node |-> n, life |-> used.restarts]
        \/ \E g \in handlers' : Working(g) /\ t = [node |-> g.node, life |-> used.restarts]
    BY <1>1 DEF Tenures, Working
  <1> QED
    BY <1>2, <1>3, <1>4, <1>5

LEMMA NextTenures ==
    ASSUME TypeOK, TypeOK', OneAwaited, OneLeads, TenuresBounded, [Next]_vars
    PROVE  TenuresBounded'
  <1>1. /\ used'.elections + used'.restarts >= used.elections + used.restarts
        /\ used.elections + used.restarts \in Int /\ used'.elections + used'.restarts \in Int
        /\ used.elections \in Nat /\ used.restarts \in Nat
        /\ used'.elections \in Nat /\ used'.restarts \in Nat
    <2>1. /\ used.elections \in Nat /\ used.restarts \in Nat
          /\ used'.elections \in Nat /\ used'.restarts \in Nat
      BY DEF TypeOK
    <2>2. used'.elections + used'.restarts >= used.elections + used.restarts
      BY UsedTenures
    <2> QED
      BY <2>1, <2>2
  <1>2. /\ IsFiniteSet(Tenures) /\ Cardinality(Tenures) \in Nat
        /\ Cardinality(Tenures) + Vacant <= 1 + used.elections + used.restarts
        /\ Vacant \in {0, 1} /\ Vacant' \in {0, 1}
    BY FS_CardinalityType DEF TenuresBounded, Vacant
  <1>3. ASSUME NEW d \in {0, 1}, Grows(Tenures, Tenures', d),
               d + Vacant' + used.elections + used.restarts
                   <= Vacant + used'.elections + used'.restarts
        PROVE  TenuresBounded'
    <2>1. IsFiniteSet(Tenures') /\ Cardinality(Tenures') <= Cardinality(Tenures) + d
      BY <1>2, <1>3 DEF Grows
    <2>2. Cardinality(Tenures') \in Nat
      BY <2>1, FS_CardinalityType
    <2>3. Cardinality(Tenures') + Vacant' <= 1 + used'.elections + used'.restarts
      BY <1>1, <1>2, <1>3, <2>1, <2>2
    <2> QED
      BY <2>1, <2>3 DEF TenuresBounded
  <1>4. CASE Restart
    <2>1. /\ handlers' = {} /\ \A n \in Node : state'[n] # "LEADER"
          /\ executed' = executed /\ Spend("restarts")
      BY <1>4 DEF Restart
    <2>2. Tenures' \in SUBSET Tenures
      BY <2>1 DEF Tenures
    <2>3. Grows(Tenures, Tenures', 0)
      BY <2>2, GrowsNone
    <2>4. used'.elections + used'.restarts = used.elections + used.restarts + 1
      BY <2>1, UsedTenures
    <2> QED
      BY <1>1, <1>2, <1>3, <2>3, <2>4
  <1>5. ASSUME NEW n \in Node, NEW Q \in Quorum, Elect(n, Q), ~Restart
        PROVE  TenuresBounded'
    <2>1. Tenures' \in SUBSET (Tenures \cup {[node |-> n, life |-> used.restarts]})
      <3>1. ASSUME NEW m \in Node, NEW R \in Quorum, Elect(m, R) PROVE m = n
        <4>1. state'[m] = "LEADER" /\ state[m] = "FOLLOWER"
          BY <3>1, ElectTerms
        <4>2. \A k \in Node : state'[k] = "LEADER" => k = n \/ state[k] = "LEADER"
          BY <1>5, ElectTerms
        <4> QED
          BY <4>1, <4>2
      <3> QED
        BY <1>5, <3>1, TenuresFrom
    <2>2. Grows(Tenures, Tenures', 1)
      BY <2>1, GrowsOne
    <2>3. Vacant' = 0
      <3>1. state'[n] = "LEADER"
        BY <1>5, ElectTerms
      <3> QED
        BY <3>1 DEF Vacant, NoLeader
    <2>4. CASE NoLeader
      <3>1. Vacant = 1
        BY <2>4 DEF Vacant
      <3> QED
        BY <1>1, <1>3, <2>2, <2>3, <3>1
    <2>5. CASE ~NoLeader
      <3>1. Vacant = 0 /\ Spend("elections")
        BY <1>5, <2>5 DEF Vacant, Elect
      <3>2. used'.elections + used'.restarts = used.elections + used.restarts + 1
        BY <3>1, UsedTenures
      <3> QED
        BY <1>1, <1>3, <2>2, <2>3, <3>1, <3>2
    <2> QED
      BY <2>4, <2>5
  <1>6. ASSUME ~Restart, ~\E n \in Node, Q \in Quorum : Elect(n, Q)
        PROVE  TenuresBounded'
    <2>1. Tenures' \in SUBSET Tenures
      BY <1>6, TenuresFrom
    <2>2. Grows(Tenures, Tenures', 0)
      BY <2>1, GrowsNone
    <2>3. NoLeader' => NoLeader
      <3> SUFFICES ASSUME NoLeader' PROVE NoLeader
        OBVIOUS
      <3>1. Led
        BY <1>6, RoleSteps DEF Led
      <3>2. NoNode \in Leading
        BY <3>1, LedStays DEF Leading
      <3>3. NoNode \notin Node
        BY NAssumption DEF Node, NoNode
      <3> QED
        BY <3>2, <3>3 DEF Leading
    <2>4. Vacant' <= Vacant
      BY <2>3 DEF Vacant
    <2> QED
      BY <1>1, <1>2, <1>3, <2>2, <2>4
  <1> QED
    BY <1>4, <1>5, <1>6

LEMMA InitTenures ==
    ASSUME Init
    PROVE  TenuresBounded /\ OnceALife
  <1>1. /\ handlers = {} /\ executed = {} /\ used.elections = 0 /\ used.restarts = 0
        /\ state = [n \in Node |-> IF n = InitLeader THEN "LEADER" ELSE "FOLLOWER"]
    BY DEF Init
  <1>2. IsFiniteSet({}) /\ Cardinality({}) = 0
    BY FS_EmptySet
  <1>3. CASE NoLeader
    <2>1. Tenures = {}
      BY <1>1, <1>3 DEF Tenures, NoLeader
    <2>2. Vacant = 1
      BY <1>3 DEF Vacant
    <2> QED
      BY <1>1, <1>2, <2>1, <2>2 DEF TenuresBounded, OnceALife
  <1>4. CASE ~NoLeader
    <2>1. Tenures \in SUBSET ({} \cup {[node |-> InitLeader, life |-> 0]})
      BY <1>1 DEF Tenures
    <2>2. IsFiniteSet(Tenures) /\ Cardinality(Tenures) <= 0 + 1
      BY <1>2, <2>1, GrowsOne DEF Grows
    <2>3. Vacant = 0 /\ Cardinality(Tenures) \in Nat
      BY <1>4, <2>2, FS_CardinalityType DEF Vacant
    <2>4. Cardinality(Tenures) + Vacant <= 1 + used.elections + used.restarts
      BY <1>1, <2>2, <2>3
    <2> QED
      BY <1>1, <2>2, <2>4 DEF TenuresBounded, OnceALife
  <1> QED
    BY <1>3, <1>4

LEMMA AppliersBounded ==
    ASSUME TypeOK, TenuresBounded, NEW x
    PROVE  Cardinality(AppliedBy(x)) <= 1 + used.elections + used.restarts
  <1>1. AppliedBy(x) \in SUBSET Tenures
    BY DEF AppliedBy, Tenures
  <1>2. /\ IsFiniteSet(Tenures)
        /\ Cardinality(Tenures) + Vacant <= 1 + used.elections + used.restarts
    BY DEF TenuresBounded
  <1>3. IsFiniteSet(AppliedBy(x)) /\ Cardinality(AppliedBy(x)) <= Cardinality(Tenures)
    BY <1>1, <1>2, FS_Subset
  <1>4. Cardinality(AppliedBy(x)) \in Nat /\ Cardinality(Tenures) \in Nat
    BY <1>2, <1>3, FS_CardinalityType
  <1>5. used.elections \in Nat /\ used.restarts \in Nat /\ Vacant \in {0, 1}
    BY DEF TypeOK, Vacant
  <1> QED
    BY <1>2, <1>3, <1>4, <1>5

-----------------------------------------------------------------------------
\* What a request may still add, and who may still apply it, is bounded by what
\* was lost, elected, sent on or restarted; undisturbed, caches and answers are of
\* what was executed.
ExecutionInv == RepeatInv /\ CalmInv /\ TenuresBounded /\ OnceALife

THEOREM RepeatInvariant == Spec => [](KeptInv /\ ExecutionInv)
  <1>1. Init => KeptInv /\ ExecutionInv
    BY InitKept, InitRepeats, InitCalm, InitTenures DEF ExecutionInv
  <1>2. KeptInv /\ ExecutionInv /\ [Next]_vars => (KeptInv /\ ExecutionInv)'
    <2> SUFFICES ASSUME KeptInv, ExecutionInv, [Next]_vars
                 PROVE  KeptInv' /\ ExecutionInv'
      OBVIOUS
    <2>1. KeptInv'
      BY NextKept
    <2>2. RepeatInv /\ CalmInv /\ TenuresBounded /\ OnceALife
      BY DEF ExecutionInv
    <2>3. TypeOK /\ TypeOK' /\ LiveNumbered /\ OneLeads /\ OneAwaited
      BY <2>1, <2>2 DEF KeptInv, SessionInv, RepeatInv
    <2>4. RepeatInv'
      BY <2>2, <2>3, NextRepeats
    <2>5. CalmInv'
      BY <2>1, <2>2, <2>3, NextCalm
    <2>6. TenuresBounded' /\ OnceALife'
      BY <2>2, <2>3, NextTenures, NextOnce
    <2> QED
      BY <2>1, <2>4, <2>5, <2>6 DEF ExecutionInv
  <1> QED
    BY <1>1, <1>2, PTL DEF Spec

\* However often sendClientRequest tries a request, over any number of elections,
\* lost calls, calls of deposed leaders and restarts: handlers apply one entry of
\* it, and one more at most for each call or entry that was lost, each leader that
\* was replaced and each round that a deposed leader sent on.  The same entry they
\* apply once, and once more at most for each leader that was replaced and each
\* restart, after which lastApplied starts again; a node in one life of the process
\* applies one entry an index.  When nothing is lost, replaced or restarted, a request that was answered
\* was executed, unless it is the first entry of all, which no leader applies.
THEOREM RepeatedExecutionsExplained == Spec => []RepeatsExplained
  <1>1. KeptInv /\ ExecutionInv => RepeatsExplained
    <2> SUFFICES ASSUME KeptInv, RepeatInv, CalmInv, TenuresBounded, OnceALife
                 PROVE  RepeatsExplained
      BY DEF ExecutionInv
    <2>1. TypeOK
      BY DEF KeptInv, SessionInv
    <2>2. \A x \in executed : x.entry.req # NoRequest =>
             Cardinality(Places(x.entry.req))
                 <= 1 + used.faults + used.elections + used.strays
      BY <2>1, RepeatsBounded
    <2>3. \A x \in executed :
             Cardinality(AppliedBy(x)) <= 1 + used.elections + used.restarts
      BY <2>1, AppliersBounded
    <2>4. used.faults = 0 /\ used.elections = 0 /\ used.restarts = 0 => Calm
      BY DEF Calm, Undisturbed, KeptInv, SessionInv, StraysDeposed
    <2>5. Calm => \A a \in answers : Executions(a.req) # {} \/ FirstOfAll(a.req)
      BY DEF CalmInv, Ran
    <2> QED
      BY <2>2, <2>3, <2>4, <2>5 DEF RepeatsExplained, OnceALife
  <1> QED
    BY <1>1, RepeatInvariant, PTL
=============================================================================
