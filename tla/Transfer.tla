----------------------------- MODULE Transfer ------------------------------
(***************************************************************************)
(* Bringing one follower up to date, and what its two files hold when the  *)
(* process dies on the way.  A leader sends a peer that lags behind its    *)
(* snapshot the snapshot in chunks, one RPC each; the follower collects    *)
(* them in snapshotBuffer and at the last one replaces its state, its      *)
(* snapshot file and its metadata file, one after the other.  A peer that  *)
(* does not lag gets AppendEntries, and may take a snapshot of its own.    *)
(*                                                                         *)
(* All nodes live in one process.  The two others have the same log and    *)
(* are elected in one step; a leader of an older term may not know yet     *)
(* that it is deposed.  An AppendEntries handler holds the follower's      *)
(* mutex from its first to its last step, an InstallSnapshot handler only  *)
(* to install.                                                             *)
(***************************************************************************)
EXTENDS RaftLog, FiniteSets

CONSTANTS
    Sender,          \* [leader, thread]: a leader's heartbeat or client thread
    InitLeader,      \* the leader at the start
    History,         \* the terms of the entries the leaders have, from 0 on
    ChunksOf,        \* ChunksOf[i + 1]: the chunks a snapshot at i takes
    InitSnapshot,    \* the index of the leaders' snapshots at the start
    InitSize,        \* the entries the follower has at the start
    SnapshotThreshold,
    Self,            \* the follower, as the owner of a snapshot
    Overlap,         \* may handlers of the follower run side by side?
    MaxElections,    \* bound: elections against a leader
    MaxLost,         \* bound: calls that time out
    MaxSnapshots,    \* bound: snapshots the leaders take
    MaxCrashes,      \* bound: deaths of the process
    MaxDisturbances  \* bound: all of these together

Leader == {s.leader : s \in Sender}
Index == 0 .. Len(History) - 1

ASSUME SenderAssumption ==
    /\ \A s \in Sender : s.thread \in {"heart", "client"}
    /\ InitLeader \in Leader /\ Self \notin Leader
ASSUME HistoryAssumption ==
    /\ History \in Seq(Nat \ {0}) /\ History # <<>>
    /\ ChunksOf \in [1 .. Len(History) -> Nat \ {0}]
    /\ InitSnapshot \in Index /\ InitSize \in 0 .. Len(History)
ASSUME BoundAssumption ==
    /\ SnapshotThreshold \in Nat \ {0} /\ Overlap \in BOOLEAN
    /\ {MaxElections, MaxLost, MaxSnapshots, MaxCrashes, MaxDisturbances} \subseteq Nat

VARIABLES
    leaderTerm,      \* leaderTerm[l]: currentTerm of l
    elected,         \* elected[l]: the term l was last elected in
    leading,         \* leading[l]: does l's heartbeat loop go on?
    leaderSnapshot, nextIndex,
    transfer,        \* transfer[s]: the snapshot s sends, the part it is at and
                     \* the term its leader began it in
    handlers,        \* the calls to the follower, from sending to reply
    currentTerm, log, latestSnapshot, commitIndex, lastApplied,
    snapshotBuffer,
    metadata,        \* the follower's metadata file
    snapFile,        \* the follower's snapshot file
    up,              \* is the process up, down or beyond a restart?
    torn,            \* died between the snapshot file and the metadata file
    astray,          \* a chunk was sent under a term not its leader's own, or
                     \* not the one the transfer was begun in
    stale,           \* an answer to a call of an older term moved nextIndex
    compacted,       \* the follower took a snapshot of its own
    lost, snapshots, elections, crashes

electionVars == <<leaderTerm, elected, leading, elections>>
leaderVars == <<electionVars, leaderSnapshot, nextIndex, transfer, snapshots>>
memory == <<currentTerm, log, latestSnapshot, commitIndex, lastApplied,
            snapshotBuffer>>
disk == <<metadata, snapFile>>
history == <<torn, astray, stale, compacted>>
vars == <<leaderVars, handlers, memory, disk, up, history, lost, crashes>>

-----------------------------------------------------------------------------
Entry(i) == [index |-> i, term |-> History[i + 1]]
EntriesFrom(i, size) == [k \in 1 .. size - i |-> Entry(i + k - 1)]

\* serializeSnapshot cut into chunks: what matters of a chunk is whose it is.
Snapshot(owner, i) ==
    [lastIncludedIndex |-> i, lastIncludedTerm |-> History[i + 1],
     parts |-> [k \in 1 .. ChunksOf[i + 1] |->
                   [owner |-> owner, index |-> i, part |-> k]]]
NoSnap == [lastIncludedIndex |-> -1, lastIncludedTerm |-> 0, parts |-> <<>>]

\* What resize leaves where no chunk was written, and what is left of a file
\* that was being written.
Gap == [owner |-> Self, index |-> 0, part |-> 0]
Torn == [torn |-> TRUE]

LeaderLog(l) ==
    EntriesFrom(baseIndex(leaderSnapshot[l]), Len(History))

NeedsSnapshot(l) == nextIndex[l] <= leaderSnapshot[l].lastIncludedIndex

\* persistMetadata.
File == [term |-> currentTerm, log |-> log]

NoTransfer == [snap |-> NoSnap, part |-> 0, term |-> 0]

MoreMayHappen == lost + snapshots + elections + crashes < MaxDisturbances

Init ==
    /\ leaderTerm = [l \in Leader |-> History[Len(History)]]
    /\ elected = [l \in Leader |-> IF l = InitLeader THEN leaderTerm[l] ELSE 0]
    /\ leading = [l \in Leader |-> l = InitLeader]
    /\ leaderSnapshot = [l \in Leader |-> Snapshot(l, InitSnapshot)]
    /\ nextIndex = [l \in Leader |-> Len(History)]
    /\ transfer = [s \in Sender |-> NoTransfer]
    /\ handlers = {}
    /\ currentTerm = History[Len(History)]
    /\ log = EntriesFrom(0, InitSize)
    /\ latestSnapshot = NoSnap /\ commitIndex = 0 /\ lastApplied = 0
    /\ snapshotBuffer = <<>>
    /\ metadata = File /\ snapFile = NoSnap
    /\ up = "up" /\ torn = FALSE /\ astray = FALSE /\ stale = FALSE
    /\ compacted = FALSE
    /\ lost = 0 /\ snapshots = 0 /\ elections = 0 /\ crashes = 0

-----------------------------------------------------------------------------
(* The leaders.                                                            *)

Call(s, m) == [from |-> s, msg |-> m, pc |-> "sent", awaited |-> TRUE,
               success |-> FALSE, snap |-> NoSnap]

\* A chunk is stamped with the term the leader has when it is sent.
Chunk(s, t) ==
    Call(s, [kind |-> "snapshot", term |-> leaderTerm[s.leader],
             chunk |-> t.snap.parts[t.part],
             done |-> t.part = Len(t.snap.parts)])

AppendEntries(s, commit) ==
    LET l == s.leader
        prev == nextIndex[l] - 1
    IN  Call(s, [kind |-> "append", term |-> leaderTerm[l],
                 prevLogIndex |-> prev,
                 prevLogTerm |-> getLogTerm(LeaderLog(l), leaderSnapshot[l], prev),
                 entries |-> getLogEntries(LeaderLog(l), leaderSnapshot[l],
                                           nextIndex[l], Len(History)),
                 leaderCommit |-> commit])

\* A transfer of the snapshot the leader has, begun in the term it won.
Begun(s) == [snap |-> leaderSnapshot[s.leader], part |-> 1,
             term |-> elected[s.leader]]

\* What is sent now goes under another term than that.
GoesAstray(s, t) == leaderTerm[s.leader] # t.term

\* The thread turns to the peer.  The client thread tries AppendEntries first.
Round(s) ==
    LET l == s.leader
    IN  /\ leading[l] /\ transfer[s] = NoTransfer
        /\ \A h \in handlers : h.from = s => ~h.awaited
        /\ IF s.thread = "heart" /\ NeedsSnapshot(l)
           THEN /\ transfer' = [transfer EXCEPT ![s] = Begun(s)]
                /\ handlers' = handlers \cup {Chunk(s, Begun(s))}
           ELSE /\ \E commit \in leaderSnapshot[l].lastIncludedIndex ..
                                 Len(History) - 1 :
                     handlers' = handlers \cup {AppendEntries(s, commit)}
                /\ UNCHANGED transfer
        /\ UNCHANGED <<electionVars, leaderSnapshot, nextIndex, snapshots, memory,
                       disk, up, history, lost, crashes>>

\* Mutants: an entry is skipped; nextIndex is not moved.
AfterSnapshotSkips(s) == transfer[s].snap.lastIncludedIndex + 2
AfterSnapshotSame(s) == nextIndex[s.leader]

\* nextIndex of a peer that has got the whole snapshot.
AfterSnapshot(s) == transfer[s].snap.lastIncludedIndex + 1

\* The answer to a chunk: the next one, the end of the transfer, or giving up.
\* Nobody looks whether the leader still is one, or is one again: start_election
\* makes it one before it joins the thread, whose loop tests no flag.
ChunkAnswered(h, success) ==
    LET s == h.from
        t == [transfer[s] EXCEPT !.part = @ + 1]
    IN  IF success /\ ~h.msg.done
        THEN /\ transfer' = [transfer EXCEPT ![s] = t]
             /\ handlers' = (handlers \ {h}) \cup {Chunk(s, t)}
             /\ astray' = (astray \/ GoesAstray(s, t))
             /\ UNCHANGED <<leaderTerm, leading, nextIndex>>
        ELSE /\ transfer' = [transfer EXCEPT ![s] = NoTransfer]
             /\ nextIndex' = [nextIndex EXCEPT ![s.leader] =
                                 IF success THEN AfterSnapshot(s) ELSE @]
             /\ handlers' = handlers \ {h}
             /\ UNCHANGED <<leaderTerm, leading, astray>>

\* The answer to AppendEntries, which a leader that was told to stop ignores.
\* The client thread sends the snapshot as soon as it is needed.
AppendAnswered(h, success) ==
    LET s == h.from
        l == s.leader
        sent == Len(h.msg.entries)
    IN  IF (s.thread = "heart" /\ ~leading[l]) \/ (success /\ sent = 0)
        THEN /\ handlers' = handlers \ {h}
             /\ UNCHANGED <<leaderTerm, leading, nextIndex, transfer, astray>>
        ELSE IF currentTerm > leaderTerm[l]
        THEN /\ leaderTerm' = [leaderTerm EXCEPT ![l] = currentTerm]
             /\ leading' = [leading EXCEPT ![l] = FALSE]
             /\ handlers' = handlers \ {h}
             /\ UNCHANGED <<nextIndex, transfer, astray>>
        ELSE /\ nextIndex' = [nextIndex EXCEPT ![l] =
                   IF success THEN h.msg.prevLogIndex + 1 + sent
                   ELSE IF @ > 0 THEN @ - 1 ELSE @]
             /\ IF /\ ~success /\ s.thread = "client"
                   /\ nextIndex'[l] <= leaderSnapshot[l].lastIncludedIndex
                THEN /\ transfer' = [transfer EXCEPT ![s] = Begun(s)]
                     /\ handlers' = (handlers \ {h}) \cup {Chunk(s, Begun(s))}
                     /\ astray' = (astray \/ GoesAstray(s, Begun(s)))
                ELSE handlers' = handlers \ {h} /\ UNCHANGED <<transfer, astray>>
             /\ UNCHANGED <<leaderTerm, leading>>

\* The handler is done; the follower's term goes with the answer.
Reply(h, success) ==
    /\ IF ~h.awaited
       THEN /\ handlers' = handlers \ {h}
            /\ UNCHANGED <<leaderTerm, leading, nextIndex, transfer, astray>>
       ELSE IF h.msg.kind = "snapshot" THEN ChunkAnswered(h, success)
       ELSE AppendAnswered(h, success)
    /\ stale' = \/ stale
                \/ /\ leading[h.from.leader] /\ nextIndex' # nextIndex
                   /\ h.msg.term # leaderTerm[h.from.leader]
    /\ UNCHANGED <<elected, elections, leaderSnapshot, snapshots, torn, compacted>>

\* sendRPC gives up.  The call was lost, or its handler runs on.
CallTimesOut(h) ==
    /\ h.awaited /\ lost < MaxLost /\ MoreMayHappen
    /\ lost' = lost + 1
    /\ transfer' = [transfer EXCEPT ![h.from] = NoTransfer]
    /\ \/ h.pc = "sent" /\ handlers' = handlers \ {h}
       \/ /\ h.pc # "sent" \/ Overlap
          /\ handlers' = (handlers \ {h}) \cup {[h EXCEPT !.awaited = FALSE]}
    /\ UNCHANGED <<electionVars, leaderSnapshot, nextIndex, snapshots, memory,
                   disk, up, history, crashes>>

\* A leader takes a snapshot of what it has applied.
LeaderSnapshot(l, i) ==
    /\ up = "up" /\ snapshots < MaxSnapshots /\ MoreMayHappen
    /\ i > leaderSnapshot[l].lastIncludedIndex
    /\ snapshots' = snapshots + 1
    /\ leaderSnapshot' = [leaderSnapshot EXCEPT ![l] = Snapshot(l, i)]
    /\ nextIndex' = [nextIndex EXCEPT ![l] = IF @ <= i THEN i + 1 ELSE @]
    /\ UNCHANGED <<electionVars, transfer, handlers, memory, disk, up, history,
                   lost, crashes>>

\* l is elected; the others need not know.  A transfer or an AppendEntries of its
\* last heartbeat thread goes on.
Elect(l) ==
    /\ up = "up" /\ ~leading[l]
    /\ IF \E m \in Leader : leading[m]
       THEN /\ elections < MaxElections /\ MoreMayHappen
            /\ elections' = elections + 1
       ELSE UNCHANGED elections
    /\ \E t \in {currentTerm} \cup {leaderTerm[m] : m \in Leader} :
        /\ t >= currentTerm /\ \A m \in Leader : t >= leaderTerm[m]
        /\ leaderTerm' = [leaderTerm EXCEPT ![l] = t + 1]
        /\ elected' = [elected EXCEPT ![l] = t + 1]
    /\ leading' = [leading EXCEPT ![l] = TRUE]
    /\ nextIndex' = [nextIndex EXCEPT ![l] = Len(History)]
    /\ UNCHANGED <<leaderSnapshot, transfer, snapshots, handlers, memory, disk,
                   up, history, lost, crashes>>

\* A leader hears of a newer one: becomeFollower.  Its threads finish what they
\* are at.
Deposed(l) ==
    /\ leading[l]
    /\ \E m \in Leader :
        /\ elected[m] > leaderTerm[l]
        /\ leaderTerm' = [leaderTerm EXCEPT ![l] = elected[m]]
    /\ leading' = [leading EXCEPT ![l] = FALSE]
    /\ UNCHANGED <<elected, elections, leaderSnapshot, nextIndex, transfer,
                   snapshots, handlers, memory, disk, up, history, lost, crashes>>

-----------------------------------------------------------------------------
(* The follower.                                                           *)

Serial == Overlap \/ \A h \in handlers : h.pc \in {"sent", "stuck"}
MutexFree == \A h \in handlers : h.msg.kind = "append" => h.pc = "sent"

Go(h, pc) == handlers' = (handlers \ {h}) \cup {[h EXCEPT !.pc = pc]}
KeepLeaders == UNCHANGED <<leaderVars, history>>

\* A message of an older term is refused.
Refuse(h) ==
    /\ up = "up" /\ h.pc = "sent" /\ Serial
    /\ h.msg.kind = "append" => MutexFree
    /\ h.msg.term < currentTerm
    /\ Reply(h, FALSE)
    /\ UNCHANGED <<memory, disk, up, lost, crashes>>

\* The buffer with a chunk at its place.
Written(buffer, c) ==
    LET size == IF Len(buffer) < c.part THEN c.part ELSE Len(buffer)
    IN  [k \in 1 .. size |-> IF k = c.part THEN c
                             ELSE IF k <= Len(buffer) THEN buffer[k] ELSE Gap]

\* Mutant: the buffer keeps what an earlier transfer left in it.
BufferForKept(c) == snapshotBuffer

\* The first chunk clears the buffer.
BufferFor(c) == IF c.part = 1 THEN <<>> ELSE snapshotBuffer

\* Mutant: only the term is written.
HearTermOnly(t) ==
    /\ currentTerm' = IF t > currentTerm THEN t ELSE currentTerm
    /\ metadata' = IF t > currentTerm THEN [term |-> t, log |-> <<>>]
                   ELSE metadata

\* becomeFollower persists the new term.
HearTerm(t) ==
    /\ currentTerm' = IF t > currentTerm THEN t ELSE currentTerm
    /\ metadata' = IF t > currentTerm THEN [term |-> t, log |-> log]
                   ELSE metadata

\* A chunk of the current term or a newer one.
ReceiveChunk(h) ==
    /\ up = "up" /\ h.pc = "sent" /\ Serial
    /\ h.msg.kind = "snapshot" /\ h.msg.term >= currentTerm
    /\ h.msg.term > currentTerm => MutexFree
    /\ HearTerm(h.msg.term)
    /\ snapshotBuffer' = Written(BufferFor(h.msg.chunk), h.msg.chunk)
    /\ IF h.msg.done THEN Go(h, "save") /\ KeepLeaders ELSE Reply(h, TRUE)
    /\ UNCHANGED <<log, latestSnapshot, commitIndex, lastApplied, snapFile, up,
                   lost, crashes>>

\* The snapshots that leaders and the follower take.  Is a buffer one of them from
\* its first chunk to its last?
Taken == {Snapshot(o, i) : o \in Leader \cup {Self}, i \in Index}
Whole(parts) == \E s \in Taken : parts = s.parts

\* deserializeSnapshot.  Nothing tells a mixture from a snapshot, except that a
\* length that makes no sense may throw.
Deserialized(buffer) ==
    {[lastIncludedIndex |-> i, lastIncludedTerm |-> History[i + 1],
      parts |-> buffer] :
        i \in IF buffer = <<>> THEN Index ELSE {buffer[1].index}}

saveSnapshot(snap) == snapFile' = snap

\* deserializeSnapshot at the last chunk, or the follower's own snapshot, and
\* saveSnapshot.
SaveSnapshot(h) ==
    /\ up = "up" /\ h.pc = "save"
    /\ \/ \E snap \in (IF h.msg.kind = "append" THEN {Snapshot(Self, lastApplied)}
                       ELSE Deserialized(snapshotBuffer)) :
            /\ saveSnapshot(snap)
            /\ handlers' = (handlers \ {h}) \cup
                           {[h EXCEPT !.pc = "replace", !.snap = snap]}
            /\ KeepLeaders
       \/ /\ h.msg.kind = "snapshot" /\ ~Whole(snapshotBuffer)
          /\ Reply(h, FALSE) /\ UNCHANGED snapFile
    /\ UNCHANGED <<memory, metadata, up, lost, crashes>>

\* The follower's state is replaced by the snapshot it received.
Install(h) ==
    /\ up = "up" /\ h.pc = "replace" /\ h.msg.kind = "snapshot" /\ MutexFree
    /\ log' = <<>>
    /\ latestSnapshot' = h.snap
    /\ commitIndex' = h.snap.lastIncludedIndex
    /\ lastApplied' = h.snap.lastIncludedIndex
    /\ Go(h, "persist") /\ KeepLeaders
    /\ UNCHANGED <<currentTerm, snapshotBuffer, disk, up, lost, crashes>>

\* Its own log is cut off at its own snapshot.
Truncate(h) ==
    /\ up = "up" /\ h.pc = "replace" /\ h.msg.kind = "append"
    /\ log' = truncateLogSafe(log, latestSnapshot, h.snap.lastIncludedIndex)
    /\ latestSnapshot' = h.snap /\ compacted' = TRUE
    /\ Go(h, "persist")
    /\ UNCHANGED <<leaderVars, torn, astray, stale, currentTerm, commitIndex,
                   lastApplied, snapshotBuffer, disk, up, lost, crashes>>

Persist(h) ==
    /\ up = "up" /\ h.pc = "persist"
    /\ metadata' = File
    /\ snapshotBuffer' = IF h.msg.kind = "snapshot" THEN <<>> ELSE snapshotBuffer
    /\ Reply(h, TRUE)
    /\ UNCHANGED <<currentTerm, log, latestSnapshot, commitIndex, lastApplied,
                   snapFile, up, lost, crashes>>

\* AppendEntries of the current term: the consistency check and the append.
ReceiveEntries(h) ==
    LET m == h.msg
        ok == PrevLogMatches(log, latestSnapshot, m.prevLogIndex, m.prevLogTerm)
    IN  /\ up = "up" /\ h.pc = "sent" /\ Serial /\ MutexFree
        /\ m.kind = "append" /\ m.term = currentTerm
        /\ log' = IF ok THEN AppendBatch(log, latestSnapshot, m.prevLogIndex,
                                         m.entries)
                  ELSE log
        /\ handlers' = (handlers \ {h}) \cup
                       {[h EXCEPT !.pc = "log", !.success = ok]}
        /\ KeepLeaders
        /\ UNCHANGED <<currentTerm, latestSnapshot, commitIndex, lastApplied,
                       snapshotBuffer, disk, up, lost, crashes>>

\* A newer term makes the handler lock the mutex it holds.
Stick(h) ==
    /\ up = "up" /\ h.pc = "sent" /\ Serial /\ MutexFree
    /\ h.msg.kind = "append" /\ h.msg.term > currentTerm
    /\ Go(h, "stuck") /\ KeepLeaders
    /\ UNCHANGED <<memory, disk, up, lost, crashes>>

\* The log is written, what is committed is applied, and a vector of the
\* threshold's length is compacted.
PersistAndApply(h) ==
    LET last == getLogSize(log, latestSnapshot) - 1
        commits == h.success /\ h.msg.leaderCommit > commitIndex
        commit == IF ~commits THEN commitIndex
                  ELSE IF h.msg.leaderCommit < last THEN h.msg.leaderCommit
                  ELSE last
    IN  /\ up = "up" /\ h.pc = "log"
        /\ metadata' = File
        /\ commitIndex' = commit
        /\ lastApplied' = IF lastApplied < commit THEN commit ELSE lastApplied
        /\ IF commits /\ Len(log) >= SnapshotThreshold
           THEN Go(h, "save") /\ KeepLeaders
           ELSE Reply(h, h.success)
        /\ UNCHANGED <<currentTerm, log, latestSnapshot, snapshotBuffer, snapFile,
                       up, lost, crashes>>

\* A vote request of a newer leader's election.
HearCandidate ==
    /\ up = "up" /\ Serial /\ MutexFree
    /\ \E l \in Leader : elected[l] > currentTerm /\ HearTerm(elected[l])
    /\ KeepLeaders
    /\ UNCHANGED <<handlers, log, latestSnapshot, commitIndex, lastApplied,
                   snapshotBuffer, snapFile, up, lost, crashes>>

\* The process dies.  A file that is being written may be left torn.
Crash ==
    /\ up = "up" /\ crashes < MaxCrashes /\ MoreMayHappen
    /\ crashes' = crashes + 1
    /\ up' = "down"
    /\ torn' = (torn \/ \E h \in handlers : h.pc \in {"replace", "persist"})
    /\ metadata' \in {metadata} \cup
          (IF \E h \in handlers : h.pc \in {"persist", "log"} THEN {Torn} ELSE {})
    /\ snapFile' \in {snapFile} \cup
          (IF \E h \in handlers : h.pc = "save" THEN {Torn} ELSE {})
    /\ handlers' = {}
    /\ transfer' = [s \in Sender |-> NoTransfer]
    /\ leading' = [l \in Leader |-> FALSE]
    /\ UNCHANGED <<leaderTerm, elected, elections, leaderSnapshot, nextIndex,
                   snapshots, memory, astray, stale, compacted, lost>>

\* loadMetadata and RaftNode::start.  A file that does not parse throws.
Restart ==
    /\ up = "down"
    /\ IF Torn \in {metadata, snapFile}
       THEN up' = "broken" /\ UNCHANGED memory
       ELSE /\ up' = "up"
            /\ currentTerm' = metadata.term
            /\ log' = metadata.log
            /\ latestSnapshot' = snapFile
            /\ commitIndex' = IF snapFile = NoSnap THEN 0
                              ELSE snapFile.lastIncludedIndex
            /\ lastApplied' = commitIndex'
            /\ snapshotBuffer' = <<>>
    /\ UNCHANGED <<leaderVars, handlers, disk, history, lost, crashes>>

-----------------------------------------------------------------------------
HandlerStep(h) ==
    \/ Refuse(h) \/ ReceiveChunk(h) \/ SaveSnapshot(h) \/ Install(h)
    \/ Truncate(h) \/ Persist(h) \/ ReceiveEntries(h) \/ Stick(h)
    \/ PersistAndApply(h)

Next ==
    \/ \E s \in Sender : Round(s)
    \/ \E h \in handlers : HandlerStep(h) \/ CallTimesOut(h)
    \/ \E l \in Leader :
        Elect(l) \/ Deposed(l) \/ \E i \in Index : LeaderSnapshot(l, i)
    \/ HearCandidate
    \/ Crash \/ Restart

Spec == Init /\ [][Next]_vars

\* Heartbeat rounds go on, a handler that gets the mutex time and again ends,
\* the process is started again, and while there is no leader one gets elected;
\* its vote request, which goes to every node before a heartbeat does, arrives.
NoLeader == \A l \in Leader : ~leading[l]
FairSpec ==
    /\ Spec
    /\ \A s \in Sender : s.thread = "heart" => WF_vars(Round(s))
    /\ \A s \in Sender :
        SF_vars(\E h \in handlers : h.from = s /\ HandlerStep(h))
    /\ WF_vars(Restart)
    /\ WF_vars(NoLeader /\ \E l \in Leader : Elect(l))
    /\ SF_vars(HearCandidate)

-----------------------------------------------------------------------------
(* Properties.                                                             *)

Stuck == \E h \in handlers : h.pc = "stuck"

\* The state of leaders, calls and follower and its two files are well formed:
\* nextIndex stays within the leaders' log, the follower's vector is never longer
\* than it, a transfer is at one of its chunks, and the metadata file is of no
\* later term than the follower.  The commit index becomes -1 when a client's
\* thread sends an empty batch to a follower that has nothing.
LogEntry == [index : Index, term : Nat]
Vector == {v \in Seq(LogEntry) : Len(v) <= Len(History)}
Piece == [owner : Leader \cup {Self}, index : Index, part : Nat]
AnySnapshot == {NoSnap} \cup
    [lastIncludedIndex : Index, lastIncludedTerm : Nat, parts : Seq(Piece)]
Message ==
    [kind : {"snapshot"}, term : Nat, chunk : Piece, done : BOOLEAN] \cup
    [kind : {"append"}, term : Nat, prevLogIndex : Index \cup {-1},
     prevLogTerm : Nat, entries : Vector, leaderCommit : Index]
Handler ==
    [from : Sender, msg : Message, awaited : BOOLEAN, success : BOOLEAN,
     pc : {"sent", "log", "save", "replace", "persist", "stuck"},
     snap : AnySnapshot]
TypeOK ==
    /\ leaderTerm \in [Leader -> Nat] /\ elected \in [Leader -> Nat]
    /\ leading \in [Leader -> BOOLEAN]
    /\ leaderSnapshot \in [Leader -> Taken]
    /\ nextIndex \in [Leader -> 0 .. Len(History)]
    /\ transfer \in [Sender -> {NoTransfer} \cup
                                [snap : Taken, part : Nat \ {0}, term : Nat]]
    /\ \A s \in Sender : transfer[s].part <= Len(transfer[s].snap.parts)
    /\ handlers \subseteq Handler
    /\ currentTerm \in Nat /\ log \in Vector /\ latestSnapshot \in AnySnapshot
    /\ commitIndex \in Index \cup {-1} /\ lastApplied \in Index
    /\ snapshotBuffer \in Seq(Piece)
    /\ metadata \in {Torn} \cup [term : 0 .. currentTerm, log : Vector]
    /\ snapFile \in {Torn} \cup AnySnapshot
    /\ up \in {"up", "down", "broken"}
    /\ {torn, astray, stale, compacted} \subseteq BOOLEAN
    /\ {lost, snapshots, elections, crashes} \subseteq Nat

\* The snapshot a follower works with is one that somebody took, from its first
\* chunk to its last.
SnapshotWhole == latestSnapshot # NoSnap => Whole(latestSnapshot.parts)

\* It is while transfers of an old and a new leader interleave, calls get lost
\* and the process dies, as long as no transfer is continued when its leader is
\* deposed, or when it leads again.
WholeUnlessAstray == ~astray => SnapshotWhole

\* Every entry of the vector is at the place its index says, unless the process
\* died with a new snapshot file and an old metadata file.
EntriesInPlace ==
    \A k \in 1 .. Len(log) : log[k].index = baseIndex(latestSnapshot) + k - 1
InPlaceUnlessTorn == ~torn => EntriesInPlace

\* An entry that is on the follower's disk stays there or is covered by its
\* snapshot, whatever is sent and wherever the process dies, unless an answer
\* got lost and the follower has taken a snapshot of its own, or a leader that
\* was elected again took the answer to a call of its earlier term: then it may
\* fall back behind the follower and clear its log with an older snapshot.
Readable == Torn \notin {metadata, snapFile}
OnDisk(i) == \/ i <= snapFile.lastIncludedIndex
             \/ \E k \in 1 .. Len(metadata.log) : metadata.log[k].index = i
KeptOnDisk ==
    [][/\ Readable /\ Readable' /\ ~astray' /\ ~torn /\ ~stale
       /\ lost = 0 \/ ~compacted
       => \A i \in Index : OnDisk(i) => OnDisk(i)']_vars

\* A snapshot is never replaced by an older one.
SnapshotsAdvance ==
    [][Readable /\ Readable' =>
          snapFile'.lastIncludedIndex >= snapFile.lastIncludedIndex]_vars

\* The follower ends up with everything the leaders have, unless its files are
\* torn, its mutex is stuck or a leader wrote into its buffer under a later term
\* than the one it began the transfer in.
CatchesUp == <>[](\/ getLogSize(log, latestSnapshot) = Len(History)
                  \/ torn \/ astray \/ Stuck \/ up = "broken")

\* A process that died can be started again.
RestartPossible == up # "broken"
=============================================================================
