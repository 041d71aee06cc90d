------------------------------ MODULE Session ------------------------------
(***************************************************************************)
(* A client's request from the command line to its answer: handle_client   *)
(* numbers it, sendClientRequest tries one node after the other, the       *)
(* ClientRequest handler of a node redirects or runs handleClientCommand,  *)
(* which recognises a retry by the last request it has cached of that      *)
(* client.  A call that times out leaves its handler running.              *)
(*                                                                         *)
(* Below the handlers is the cluster in outline: elections are won in one  *)
(* step by a node whose log is up to date, replication reaches a majority  *)
(* in one step or fails, and a vote request reaches a node before the new  *)
(* leader's heartbeats do.  Election and Replication look into those       *)
(* steps.  The store is left out: a GET or a DELETE may find the key or    *)
(* not.                                                                    *)
(***************************************************************************)
EXTENDS Integers, Sequences, FiniteSets

CONSTANTS
    N,               \* raft_nodes.size()
    Client,          \* client sockets
    Op,              \* the commands clients use, of PUT, GET and DELETE
    InitLeader,      \* the leader at the start, or NoNode
    InitLog,         \* the log all nodes have by then
    MaxLines,        \* bound: command lines per client and process
    Budgets          \* bound: how many requests, elections against a leader,
                     \* faults (calls timed out, entries not replicated),
                     \* strays (rounds of calls of a deposed leader) and
                     \* restarts of the process may come together

Node == 0 .. N - 1
NoNode == -1

NoRequest == [client |-> NoNode, id |-> 0, life |-> 0, op |-> "PUT"]

LastTerm(lg) == IF lg = <<>> THEN 0 ELSE lg[Len(lg)].term

ASSUME NAssumption == N \in Nat \ {0} /\ InitLeader \in Node \cup {NoNode}
ASSUME OpAssumption == Op \subseteq {"PUT", "GET", "DELETE"}
ASSUME LogAssumption ==
    /\ InitLog \in Seq([term : Nat, req : {NoRequest}])
    /\ \A i \in 1 .. Len(InitLog) : InitLog[i].term <= LastTerm(InitLog)
ASSUME BoundAssumption ==
    /\ MaxLines \in Nat
    /\ Budgets \subseteq [requests : Nat, elections : Nat, faults : Nat,
                           strays : Nat, restarts : Nat]

VARIABLES
    counter,         \* clientRequestCounter
    session,         \* session[c]: the call sendClientRequest is making for c
    handlers,        \* ClientRequest handlers that run, awaited or not
    state, currentTerm, leaderId, log, lastApplied,
    cache,           \* cache[n][c]: clientLastRequest and clientResultCache
    saved,           \* saved[n]: the metadata file of n
    answers,         \* requests answered, with the status the client saw
    executed,        \* entries handlers have applied: where, and at which
                     \* node in which life of the process
    used             \* what is spent, in the fields of a budget

sessionVars == <<counter, session, answers>>
roleVars == <<state, currentTerm, leaderId>>
vars == <<sessionVars, handlers, roleVars, log, lastApplied, cache, saved,
          executed, used>>

-----------------------------------------------------------------------------
Idle == [pc |-> "idle", req |-> NoRequest, node |-> 0, attempts |-> 0]
NoResult == "none"      \* the empty string
NoAnswer == [id |-> 0, result |-> NoResult]

\* One more of a kind, within a budget.
Spend(kind) ==
    /\ used' = [used EXCEPT ![kind] = @ + 1]
    /\ \E b \in Budgets : \A k \in DOMAIN b : used'[k] <= b[k]

\* What applying a command can return.
Outcome == [PUT |-> {"OK"}, DELETE |-> {"OK", "key not found"},
            GET |-> {"value", "key not found"}]

\* Mutant: only a missing key is an error.
StatusLenient(op, result) ==
    IF result = "key not found" THEN "error" ELSE "OK"

\* The status of the response to what handleClientCommand returned: whatever
\* a GET returns besides "key not found" is taken for the value.
Status(op, result) ==
    IF result = "OK" \/ (op = "GET" /\ result # "key not found")
    THEN "OK" ELSE "error"

\* Smallest majorities: who else agrees hears of it later.
Quorum == {Q \in SUBSET Node : Cardinality(Q) = N \div 2 + 1}

UpToDate(lg, other) ==
    \/ LastTerm(lg) > LastTerm(other)
    \/ LastTerm(lg) = LastTerm(other) /\ Len(lg) >= Len(other)

Larger(i, j) == IF i > j THEN i ELSE j
Smaller(i, j) == IF i < j THEN i ELSE j

\* persistMetadata: what the file of n holds afterwards.
File(n) == [term |-> currentTerm[n], log |-> log[n], cache |-> cache[n]]

\* The same for every n after the step.
Save(S) == saved' = [n \in Node |-> IF n \in S
    THEN [term |-> currentTerm'[n], log |-> log'[n], cache |-> cache'[n]]
    ELSE saved[n]]

\* A fresh process, or a cluster whose leader was just elected.
Init ==
    /\ counter = [c \in Client |-> 0]
    /\ session = [c \in Client |-> Idle]
    /\ handlers = {}
    /\ state = [n \in Node |-> IF n = InitLeader THEN "LEADER" ELSE "FOLLOWER"]
    /\ currentTerm = [n \in Node |-> LastTerm(InitLog)]
    /\ leaderId = [n \in Node |-> IF n = InitLeader THEN n ELSE NoNode]
    /\ log = [n \in Node |-> InitLog]
    /\ lastApplied = [n \in Node |-> 0]
    /\ cache = [n \in Node |-> [c \in Client |-> NoAnswer]]
    /\ saved = [n \in Node |-> File(n)]
    /\ answers = {} /\ executed = {}
    /\ used = [requests |-> 0, elections |-> 0, faults |-> 0, strays |-> 0,
               restarts |-> 0]

-----------------------------------------------------------------------------
(* sendClientRequest.                                                      *)

CallFrom(s) == [req |-> s.req, attempt |-> s.attempts, node |-> s.node,
                pc |-> "received", index |-> 0, result |-> NoResult]

Awaited(h) == LET s == session[h.req.client]
              IN  s.pc = "wait" /\ s.req = h.req /\ s.attempts = h.attempt

\* The call ends and the command line is answered.
Return(c, status) ==
    /\ session' = [session EXCEPT ![c] = Idle]
    /\ answers' = answers \cup {[req |-> session[c].req, status |-> status]}

\* Mutant: one attempt too many.
TryOnceMore(c, s, rest) ==
    IF s.attempts <= N
    THEN /\ session' = [session EXCEPT ![c] = s]
         /\ handlers' = rest \cup {CallFrom(s)}
         /\ UNCHANGED answers
    ELSE Return(c, "error") /\ handlers' = rest

\* The head of the loop, with the handlers that are left: the next call, or
\* "All nodes unreachable".
Try(c, s, rest) ==
    IF s.attempts < N
    THEN /\ session' = [session EXCEPT ![c] = s]
         /\ handlers' = rest \cup {CallFrom(s)}
         /\ UNCHANGED answers
    ELSE Return(c, "error") /\ handlers' = rest

\* One more attempt, at node n.
Again(s, n) == [s EXCEPT !.node = n, !.attempts = s.attempts + 1]

\* Mutant: an error is answered by trying again without counting.
ReplyNotCounted(h, status) ==
    IF Awaited(h)
    THEN IF status = "OK"
         THEN Return(h.req.client, "OK") /\ handlers' = handlers \ {h}
         ELSE \E n \in Node : Try(h.req.client,
                [session[h.req.client] EXCEPT !.node = n], handlers \ {h})
    ELSE handlers' = handlers \ {h} /\ UNCHANGED <<session, answers>>

\* The handler is done.  Anything but OK is tried again, at any node.
Reply(h, status) ==
    IF Awaited(h)
    THEN IF status = "OK"
         THEN Return(h.req.client, "OK") /\ handlers' = handlers \ {h}
         ELSE \E n \in Node : Try(h.req.client,
                Again(session[h.req.client], n), handlers \ {h})
    ELSE handlers' = handlers \ {h} /\ UNCHANGED <<session, answers>>

\* A redirect is followed without counting it as an attempt.
Redirect(h) ==
    IF Awaited(h)
    THEN \E n \in (IF leaderId[h.node] = NoNode THEN Node
                   ELSE {leaderId[h.node]}) :
            Try(h.req.client, [session[h.req.client] EXCEPT !.node = n],
                handlers \ {h})
    ELSE handlers' = handlers \ {h} /\ UNCHANGED <<session, answers>>

\* handle_client reads a command line of the store.
ClientCommand(c, op, n) ==
    /\ session[c] = Idle /\ counter[c] < MaxLines
    /\ counter' = [counter EXCEPT ![c] = @ + 1]
    /\ LET r == [client |-> c, id |-> counter[c] + 1, life |-> used.restarts,
                 op |-> op]
       IN  Try(c, [pc |-> "wait", req |-> r, node |-> n, attempts |-> 0],
               handlers)
    /\ Spend("requests")
    /\ UNCHANGED <<roleVars, log, lastApplied, cache, saved, executed>>

\* Any other command line takes a number too.
OtherCommand(c) ==
    /\ session[c] = Idle /\ counter[c] < MaxLines
    /\ counter' = [counter EXCEPT ![c] = @ + 1]
    /\ Spend("requests")
    /\ UNCHANGED <<session, answers, handlers, roleVars, log, lastApplied,
                   cache, saved, executed>>

\* sendRPC gives up after a second.  The handler runs on, or never started.
Timeout(c) ==
    /\ Spend("faults")
    /\ \E h \in handlers :
        /\ h.req.client = c /\ Awaited(h)
        /\ \E rest \in {handlers} \cup
                       (IF h.pc = "received" THEN {handlers \ {h}} ELSE {}) :
            Try(c, Again(session[c], (session[c].node + 1) % N), rest)
    /\ UNCHANGED <<counter, roleVars, log, lastApplied, cache, saved, executed>>

-----------------------------------------------------------------------------
(* The ClientRequest handler and handleClientCommand.                      *)

Go(h, pc) == /\ handlers' = (handlers \ {h}) \cup {[h EXCEPT !.pc = pc]}
             /\ UNCHANGED <<session, answers>>

\* A node that does not lead redirects.
Receive(h) ==
    /\ h.pc = "received"
    /\ IF state[h.node] = "LEADER" THEN Go(h, "command") ELSE Redirect(h)
    /\ UNCHANGED <<counter, roleVars, log, lastApplied, cache, saved, executed,
                   used>>

\* Mutant: the cache is not asked.
CheckCommandNoCache(h) ==
    /\ h.pc = "command"
    /\ IF state[h.node] # "LEADER" THEN Reply(h, Status(h.req.op, "not leader"))
       ELSE Go(h, "append")
    /\ UNCHANGED <<counter, roleVars, log, lastApplied, cache, saved, executed,
                   used>>

\* The role once more, and the last request of the client: only that one is
\* recognised.
CheckCommand(h) ==
    /\ h.pc = "command"
    /\ LET last == cache[h.node][h.req.client]
       IN  IF state[h.node] # "LEADER"
           THEN Reply(h, Status(h.req.op, "not leader"))
           ELSE IF last.id = h.req.id
                THEN Reply(h, Status(h.req.op, last.result))
                ELSE Go(h, "append")
    /\ UNCHANGED <<counter, roleVars, log, lastApplied, cache, saved, executed,
                   used>>

\* Log positions count from 0 in the code.
AppendEntry(h) ==
    /\ h.pc = "append"
    /\ log' = [log EXCEPT ![h.node] =
                  Append(@, [term |-> currentTerm[h.node], req |-> h.req])]
    /\ handlers' = (handlers \ {h}) \cup
                   {[h EXCEPT !.pc = "replicate", !.index = Len(log[h.node])]}
    /\ UNCHANGED <<sessionVars, roleVars, lastApplied, cache, saved, executed,
                   used>>

Extends(lg, prefix) ==
    Len(lg) >= Len(prefix) /\ SubSeq(lg, 1, Len(prefix)) = prefix

\* A majority takes the leader's log up to the entry.
Replicate(h, Q) ==
    LET prefix == SubSeq(log[h.node], 1, Smaller(h.index + 1, Len(log[h.node])))
    IN  /\ h.pc = "replicate"
        /\ state[h.node] = "LEADER" /\ h.node \in Q
        /\ \A m \in Q : currentTerm[m] = currentTerm[h.node]
        /\ log' = [m \in Node |-> IF m \notin Q \/ Extends(log[m], prefix)
                                  THEN log[m] ELSE prefix]
        /\ leaderId' = [m \in Node |-> IF m \in Q THEN h.node ELSE leaderId[m]]
        /\ Go(h, "commit")
        /\ UNCHANGED <<counter, state, currentTerm, lastApplied, cache, executed,
                       used>>
        /\ Save(Q \ {h.node})

\* What a peer's log is after the entries from next on: unchanged when there
\* are none or the first of them is there already.
Taken(lg, next, entries) ==
    IF \/ entries = <<>>
       \/ next < Len(lg) /\ lg[next + 1].term = entries[1].term
    THEN lg ELSE SubSeq(lg, 1, next) \o entries

\* Does the peer have the entry before next?
Precedes(n, m, next) ==
    \/ next = 0
    \/ next <= Len(log[m]) /\ log[m][next].term = log[n][next].term

\* The role was tested before: a deposed leader's handler sends on, under the
\* term it has been told, and the peers of that term, the new leader among
\* them, take it for their leader.  The calls reach S, from where nextIndex is.
ReplicateDeposed(h, S, next) ==
    LET n == h.node
        Entries(m) == SubSeq(log[n], next[m] + 1,
                             Smaller(h.index + 1, Len(log[n])))
        Takes == {m \in S : Precedes(n, m, next[m])}
    IN  /\ h.pc = "replicate" /\ state[n] # "LEADER"
        /\ \A m \in S : currentTerm[m] = currentTerm[n]
        /\ log' = [m \in Node |-> IF m \in Takes
                        THEN Taken(log[m], next[m], Entries(m)) ELSE log[m]]
        /\ leaderId' = [m \in Node |-> IF m \in S THEN n ELSE leaderId[m]]
        /\ lastApplied' = [m \in Node |-> IF m \in Takes
               THEN Larger(lastApplied[m],
                           Smaller(lastApplied[n], Len(log'[m]) - 1))
               ELSE lastApplied[m]]
        /\ IF Cardinality(Takes) >= N \div 2 THEN Go(h, "commit")
           ELSE Reply(h, Status(h.req.op, "not committed"))
        /\ Spend("strays")
        /\ UNCHANGED <<counter, state, currentTerm, cache, executed>>
        /\ Save(S)

SendsOn(h) ==
    \E S \in SUBSET (Node \ {h.node}) :
        \E next \in [S -> 0 .. Len(log[h.node])] : ReplicateDeposed(h, S, next)

\* Too few peers answer.  The entry stays in the log.
NotReplicated(h) ==
    /\ h.pc = "replicate"
    /\ IF state[h.node] = "LEADER" THEN Spend("faults") ELSE UNCHANGED used
    /\ Reply(h, Status(h.req.op, "not committed"))
    /\ UNCHANGED <<counter, roleVars, log, lastApplied, cache, saved, executed>>

\* A peer answers with a newer term; leaderId keeps naming the node itself.
StepDown(h) ==
    /\ h.pc = "replicate"
    /\ \E m \in Node :
        /\ currentTerm[m] > currentTerm[h.node]
        /\ currentTerm' = [currentTerm EXCEPT ![h.node] = currentTerm[m]]
    /\ state' = [state EXCEPT ![h.node] = "FOLLOWER"]
    /\ Reply(h, Status(h.req.op, "leader step down"))
    /\ UNCHANGED <<counter, leaderId, log, lastApplied, cache, executed,
                   used>>
    /\ Save({h.node})

\* Does the entry at the handler's index belong to the current term?
OfCurrentTerm(h) == /\ h.index < Len(log[h.node])
                    /\ log[h.node][h.index + 1].term = currentTerm[h.node]

\* The entries up to the handler's are applied and the answer is cached: an
\* empty one when another handler has applied the entry already.
Commit(h) ==
    LET n == h.node
        op == log[n][h.index + 1].req.op
    IN  /\ h.pc = "commit" /\ OfCurrentTerm(h)
        /\ \E result \in (IF h.index > lastApplied[n] THEN Outcome[op]
                          ELSE {NoResult}) :
            /\ cache' = [cache EXCEPT ![n][h.req.client] =
                            [id |-> h.req.id, result |-> result]]
            /\ handlers' = (handlers \ {h}) \cup
                           {[h EXCEPT !.pc = "persist", !.result = result]}
        /\ executed' = executed \cup
              {[index |-> i, entry |-> log[n][i + 1], node |-> n,
                life |-> used.restarts] : i \in lastApplied[n] + 1 .. h.index}
        /\ lastApplied' = [lastApplied EXCEPT ![n] = Larger(@, h.index)]
        /\ UNCHANGED <<sessionVars, roleVars, log, saved, used>>

NotCommitted(h) ==
    /\ h.pc = "commit" /\ ~OfCurrentTerm(h)
    /\ Reply(h, Status(h.req.op, "not committed"))
    /\ UNCHANGED <<counter, roleVars, log, lastApplied, cache, saved, executed,
                   used>>

\* persistMetadata, after the lock, and the response.
PersistAndReply(h) ==
    /\ h.pc = "persist"
    /\ Reply(h, Status(h.req.op, h.result))
    /\ UNCHANGED <<counter, roleVars, log, lastApplied, cache, executed,
                   used>>
    /\ Save({h.node})

-----------------------------------------------------------------------------
(* The cluster, and the process.                                           *)

NoLeader == \A n \in Node : state[n] # "LEADER"

\* Mutant: votes are given whatever the candidate's log is.
ElectAnyone(n, Q) ==
    /\ IF NoLeader THEN UNCHANGED used ELSE Spend("elections")
    /\ state[n] = "FOLLOWER" /\ n \in Q
    /\ \E m \in Node :
        /\ \A k \in Node : currentTerm[m] >= currentTerm[k]
        /\ currentTerm' = [k \in Node |-> IF k \in Q THEN currentTerm[m] + 1
                                          ELSE currentTerm[k]]
    /\ state' = [k \in Node |-> IF k = n THEN "LEADER"
                                ELSE IF k \in Q THEN "FOLLOWER" ELSE state[k]]
    /\ leaderId' = [leaderId EXCEPT ![n] = n]
    /\ UNCHANGED <<sessionVars, handlers, log, lastApplied, cache, executed>>
    /\ Save(Q)

\* n is elected by Q in a new term.
Elect(n, Q) ==
    /\ IF NoLeader THEN UNCHANGED used ELSE Spend("elections")
    /\ state[n] = "FOLLOWER" /\ n \in Q
    /\ \A m \in Q : UpToDate(log[n], log[m])
    /\ \E m \in Node :
        /\ \A k \in Node : currentTerm[m] >= currentTerm[k]
        /\ currentTerm' = [k \in Node |-> IF k \in Q THEN currentTerm[m] + 1
                                          ELSE currentTerm[k]]
    /\ state' = [k \in Node |-> IF k = n THEN "LEADER"
                                ELSE IF k \in Q THEN "FOLLOWER" ELSE state[k]]
    /\ leaderId' = [leaderId EXCEPT ![n] = n]
    /\ UNCHANGED <<sessionVars, handlers, log, lastApplied, cache, executed>>
    /\ Save(Q)

\* A vote request of a newer term: becomeFollower.
HearVote(m) ==
    /\ \E n \in Node :
        /\ state[n] = "LEADER" /\ currentTerm[n] > currentTerm[m]
        /\ currentTerm' = [currentTerm EXCEPT ![m] = currentTerm[n]]
    /\ state' = [state EXCEPT ![m] = "FOLLOWER"]
    /\ UNCHANGED <<sessionVars, handlers, leaderId, log, lastApplied, cache,
                   executed, used>>
    /\ Save({m})

\* A heartbeat with the entries m lacks and what has been applied.
HearLeader(m) ==
    /\ \E n \in Node \ {m} :
        /\ state[n] = "LEADER" /\ currentTerm[n] = currentTerm[m]
        /\ \/ leaderId[m] # n \/ log[m] # log[n]
           \/ lastApplied[m] < lastApplied[n]
        /\ leaderId' = [leaderId EXCEPT ![m] = n]
        /\ log' = [log EXCEPT ![m] = log[n]]
        /\ lastApplied' = [lastApplied EXCEPT ![m] = Larger(@, lastApplied[n])]
    /\ UNCHANGED <<sessionVars, handlers, state, currentTerm, cache, executed,
                   used>>
    /\ Save({m})

\* The process dies and is started again: the nodes load their files, the
\* counters start again, sessions and handlers are gone.
Restart ==
    /\ Spend("restarts")
    /\ counter' = [c \in Client |-> 0]
    /\ session' = [c \in Client |-> Idle]
    /\ handlers' = {}
    /\ state' = [n \in Node |-> "FOLLOWER"]
    /\ leaderId' = [n \in Node |-> NoNode]
    /\ currentTerm' = [n \in Node |-> saved[n].term]
    /\ log' = [n \in Node |-> saved[n].log]
    /\ cache' = [n \in Node |-> saved[n].cache]
    /\ lastApplied' = [n \in Node |-> 0]
    /\ UNCHANGED <<answers, saved, executed>>

-----------------------------------------------------------------------------
HandlerStep(h) ==
    \/ Receive(h)
    \/ CheckCommand(h)
    \/ AppendEntry(h)
    \/ \E Q \in Quorum : Replicate(h, Q)
    \/ SendsOn(h)
    \/ NotReplicated(h)
    \/ StepDown(h)
    \/ Commit(h)
    \/ NotCommitted(h)
    \/ PersistAndReply(h)

Next ==
    \/ \E c \in Client :
        \/ \E op \in Op, n \in Node : ClientCommand(c, op, n)
        \/ OtherCommand(c)
        \/ Timeout(c)
    \/ \E h \in handlers : HandlerStep(h)
    \/ \E n \in Node : \/ \E Q \in Quorum : Elect(n, Q)
                       \/ HearVote(n)
                       \/ HearLeader(n)
    \/ Restart

Spec == Init /\ [][Next]_vars

\* Handlers run on, and while there is no leader one gets elected; vote
\* requests and heartbeats, which are repeated, arrive.
FairSpec ==
    /\ Spec
    /\ \A c \in Client :
        WF_vars(\E h \in handlers : /\ h.req.client = c /\ Awaited(h)
                                    /\ HandlerStep(h))
    /\ WF_vars(NoLeader /\ \E n \in Node, Q \in Quorum : Elect(n, Q))
    /\ WF_vars(\E n \in Node : HearVote(n) \/ HearLeader(n))

-----------------------------------------------------------------------------
(* Properties.                                                             *)

Request == [client : Client, id : 1 .. MaxLines, life : Nat, op : Op]
Result == {NoResult, "OK", "value", "key not found"}
Answer == [id : 0 .. MaxLines, result : Result]
Entry == [term : Nat, req : Request \cup {NoRequest}]
Handler == [req : Request, attempt : 0 .. N - 1, node : Node,
            pc : {"received", "command", "append", "replicate", "commit",
                  "persist"},
            index : Nat, result : Result]

\* Sessions, handlers, logs, caches and files are well formed.
TypeOK ==
    /\ counter \in [Client -> 0 .. MaxLines]
    /\ session \in [Client -> {Idle} \cup
                         [pc : {"wait"}, req : Request, node : Node,
                          attempts : 0 .. N - 1]]
    /\ handlers \subseteq Handler
    /\ state \in [Node -> {"FOLLOWER", "LEADER"}]
    /\ currentTerm \in [Node -> Nat]
    /\ leaderId \in [Node -> Node \cup {NoNode}]
    /\ log \in [Node -> Seq(Entry)]
    /\ lastApplied \in [Node -> Nat]
    /\ cache \in [Node -> [Client -> Answer]]
    /\ saved \in [Node -> [term : Nat, log : Seq(Entry),
                            cache : [Client -> Answer]]]
    /\ answers \subseteq [req : Request, status : {"OK", "error"}]
    /\ executed \subseteq [index : Nat, entry : Entry, node : Node, life : Nat]
    /\ used \in [requests : Nat, elections : Nat, faults : Nat, strays : Nat,
                restarts : Nat]

IsWrite(r) == r.op # "GET"
Executions(r) == {x \in executed : x.entry.req = r}
Acknowledged == {r \in {a.req : a \in answers} :
                    IsWrite(r) /\ [req |-> r, status |-> "OK"] \in answers}

\* A write that was answered OK, by a handler or from the cache, was executed:
\* the write itself, or after a restart one with its client and its number.
Done(r) == \E x \in executed : /\ x.entry.req.client = r.client
                               /\ x.entry.req.id = r.id
                               /\ used.restarts = 0 => x.entry.req = r
AnsweredExecuted == \A r \in Acknowledged : Done(r)

\* It was as long as no deposed leader's calls reach peers and no node leads
\* twice: otherwise a handler of an earlier tenure finds another request's entry
\* at its index, of the term that is now current, and answers for it.
WritesExecuted ==
    used.elections <= 1 /\ used.strays = 0 => AnsweredExecuted

\* The same without the exception: the cache answers no other request.
OwnWritesExecuted == \A r \in Acknowledged : Executions(r) # {}

\* An executed write that was answered OK stays in the log of the newest leader.
Newest(n) == /\ state[n] = "LEADER"
             /\ \A m \in Node : currentTerm[n] >= currentTerm[m]
AcknowledgedInLog ==
    \A n \in Node : Newest(n) =>
        \A r \in Acknowledged : Executions(r) # {} =>
            \E i \in 1 .. Len(log[n]) : log[n][i].req = r

\* It does over an election, and over restarts as long as no call was lost: a
\* retry may be answered from the cache before the entry is on disk.  A deposed
\* leader appends under its successor's term; when it sends that on, is elected
\* again or restarted with it, the successor's entries may be gone.
AcknowledgedKept ==
    \/ used.elections <= 1 /\ used.restarts = 0 /\ used.strays = 0
    \/ used.elections = 0 /\ used.faults = 0
    => AcknowledgedInLog

\* The first entry of all is never applied: lastApplied starts at its index.
FirstOfAll(r) ==
    \E n \in Node : Newest(n) /\ log[n] # <<>> /\ log[n][1].req = r

\* The entries of a request that were applied, and who applied the entry.
Places(r) == {[index |-> x.index, entry |-> x.entry] : x \in Executions(r)}
AppliedBy(x) == {[node |-> y.node, life |-> y.life] :
                    y \in {z \in executed : z.index = x.index /\ z.entry = x.entry}}

\* However often a request is tried, a second entry of it is applied only when a
\* call or an entry was lost, the leader changed or a deposed one sent on, and
\* one for each of those; the same entry is applied again only by a new leader
\* or after a restart, whose lastApplied starts again, and until then a node
\* applies one entry an index; and undisturbed, whatever is answered has been
\* executed, but for the first of all.
RepeatsExplained ==
    /\ \A x \in executed : x.entry.req # NoRequest =>
          Cardinality(Places(x.entry.req))
              <= 1 + used.faults + used.elections + used.strays
    /\ \A x \in executed :
          Cardinality(AppliedBy(x)) <= 1 + used.elections + used.restarts
    /\ \A x, y \in executed :
          x.index = y.index /\ x.node = y.node /\ x.life = y.life => x = y
    /\ used.faults = 0 /\ used.elections = 0 /\ used.restarts = 0
          => \A a \in answers : Executions(a.req) # {} \/ FirstOfAll(a.req)

\* At most once, as the cache is meant to achieve.
AtMostOnce ==
    \A x, y \in executed : x.entry.req = y.entry.req => x.index = y.index

\* A write that was answered with an error was not executed.
ErrorsNotExecuted ==
    \A a \in answers : IsWrite(a.req) /\ a.status = "error" =>
        \/ [req |-> a.req, status |-> "OK"] \in answers
        \/ Executions(a.req) = {}

\* A GET that is answered OK was executed: the value is one of the store, and
\* not the text of an error.
ReadsExecuted ==
    \A a \in answers : a.req.op = "GET" /\ a.status = "OK" =>
        Executions(a.req) # {}

\* Every request returns: redirects stop once the leader is known.
RequestsReturn == \A c \in Client : (session[c] # Idle) ~> (session[c] = Idle)
=============================================================================
