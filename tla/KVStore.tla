------------------------------ MODULE KVStore ------------------------------
(***************************************************************************)
(* The key-value store of the process: the map, its write-ahead log file,  *)
(* the snapshot file, and what a restart makes of them (kvstore.cpp,       *)
(* wal.cpp, RaftNode::start).  Every put and remove comes from             *)
(* applyToStateMachine under store_mutex, so there is one at a time; the   *)
(* process can die between its two halves.                                 *)
(*                                                                         *)
(* Text is a sequence of characters; the only one that matters is the "="  *)
(* that separates key and value in a PUT record.                           *)
(***************************************************************************)
EXTENDS Integers, Sequences

CONSTANTS
    Char,            \* characters
    Eq,              \* the character =
    Key, Value,      \* texts
    None,            \* no value
    MaxIndex,        \* bound: records appended to one file
    MaxCrashes,      \* bound: restarts
    MaxSnapshots     \* bound: snapshots taken

ASSUME TextAssumption ==
    /\ Eq \in Char
    /\ \A t \in Key \cup Value : t \in Seq(Char)
    /\ <<>> \notin Key
    /\ None \notin Value
ASSUME BoundAssumption ==
    MaxIndex \in Nat /\ MaxCrashes \in Nat /\ MaxSnapshots \in Nat

VARIABLES
    mp,              \* the map, in memory
    wal,             \* the records of walfile.wal (and of cachedEntries)
    lastIndex,       \* the index of the last record
    op,              \* the put or remove in progress
    snapshot,        \* the snapshot file: a map, or None
    truncating,      \* the index a snapshot is about to truncate the WAL to
    crashes, snapshots

vars == <<mp, wal, lastIndex, op, snapshot, truncating, crashes, snapshots>>

-----------------------------------------------------------------------------
(* Records.                                                                *)

\* "PUT " + key + "=" + value and "DELETE " + key.
PutRecord(k, v) == [command |-> "PUT", text |-> k \o <<Eq>> \o v]
DeleteRecord(k) == [command |-> "DELETE", text |-> k]

\* Mutant: the text is split at its last "=".
eqPosLast(t) == CHOOSE i \in 1 .. Len(t) :
                    t[i] = Eq /\ \A j \in i + 1 .. Len(t) : t[j] # Eq

\* The position of the first "=" of a text.
eqPos(t) == CHOOSE i \in 1 .. Len(t) :
                t[i] = Eq /\ \A j \in 1 .. i - 1 : t[j] # Eq

\* The key and the value recovery reads from a record.
keyOf(rec) == IF rec.command = "DELETE" THEN rec.text
              ELSE SubSeq(rec.text, 1, eqPos(rec.text) - 1)
valueOf(rec) == IF rec.command = "DELETE" THEN None
                ELSE SubSeq(rec.text, eqPos(rec.text) + 1, Len(rec.text))

\* The replay of the WAL into an empty map: the last record of a key decides.
RecordsOf(file, k) == {i \in 1 .. Len(file) : keyOf(file[i].record) = k}
\* (As the choice of Replay, a mutant: the first record of a key decides.)
FirstOf(S) == CHOOSE i \in S : \A j \in S : i <= j
LastOf(S) == CHOOSE i \in S : \A j \in S : j <= i
Replay(file) ==
    [k \in Key |-> IF RecordsOf(file, k) = {} THEN None
                   ELSE valueOf(file[LastOf(RecordsOf(file, k))].record)]

\* The map a restart builds: the WAL is replayed, then a node that finds a
\* snapshot file replaces the whole map by it.
Recovered == IF snapshot = None THEN Replay(wal) ELSE snapshot

\* The records after an index.  Records are in order, so these are a suffix.
Newer(file, index) ==
    LET S == {i \in 1 .. Len(file) : file[i].index > index}
    IN  IF S = {} THEN <<>> ELSE SubSeq(file, FirstOf(S), Len(file))

LastIndexOf(file) == IF file = <<>> THEN 0 ELSE file[Len(file)].index

-----------------------------------------------------------------------------
Idle == [pc |-> "idle"]

Init ==
    /\ mp = [k \in Key |-> None]
    /\ wal = <<>> /\ lastIndex = 0
    /\ op = Idle
    /\ snapshot = None /\ truncating = -1
    /\ crashes = 0 /\ snapshots = 0

\* The first half of put and remove: WAL::appendEntry.
appendEntry(rec) ==
    /\ lastIndex < MaxIndex
    /\ lastIndex' = lastIndex + 1
    /\ wal' = Append(wal, [index |-> lastIndex + 1, record |-> rec])

put(k, v) ==
    /\ op = Idle
    /\ appendEntry(PutRecord(k, v))
    /\ op' = [pc |-> "logged", key |-> k, value |-> v]
    /\ UNCHANGED <<mp, snapshot, truncating, crashes, snapshots>>

\* Mutant: an empty value instead of none.
removeStoresEmpty(k) ==
    /\ op = Idle
    /\ appendEntry(DeleteRecord(k))
    /\ op' = [pc |-> "logged", key |-> k, value |-> <<>>]
    /\ UNCHANGED <<mp, snapshot, truncating, crashes, snapshots>>

remove(k) ==
    /\ op = Idle
    /\ appendEntry(DeleteRecord(k))
    /\ op' = [pc |-> "logged", key |-> k, value |-> None]
    /\ UNCHANGED <<mp, snapshot, truncating, crashes, snapshots>>

\* The second half: the map, under its own lock.
UpdateMap ==
    /\ op.pc = "logged"
    /\ mp' = [mp EXCEPT ![op.key] = op.value]
    /\ op' = Idle
    /\ UNCHANGED <<wal, lastIndex, snapshot, truncating, crashes, snapshots>>

\* A node takes a snapshot: dumpToMap under store_mutex and saveSnapshot.  Its
\* lastApplied, which counts Raft entries, is what the WAL is truncated to.
saveSnapshot(lastApplied) ==
    /\ op = Idle /\ truncating = -1
    /\ snapshots < MaxSnapshots
    /\ snapshots' = snapshots + 1
    /\ snapshot' = mp
    /\ truncating' = lastApplied
    /\ UNCHANGED <<mp, wal, lastIndex, op, crashes>>

\* Mutant: numbering starts again although records remain.
truncateUpToResets ==
    /\ truncating # -1
    /\ wal' = Newer(wal, truncating)
    /\ lastIndex' = 0
    /\ truncating' = -1
    /\ UNCHANGED <<mp, op, snapshot, crashes, snapshots>>

\* writeAheadLog_truncate, without store_mutex.
truncateUpTo ==
    /\ truncating # -1
    /\ wal' = Newer(wal, truncating)
    /\ lastIndex' = LastIndexOf(Newer(wal, truncating))
    /\ truncating' = -1
    /\ UNCHANGED <<mp, op, snapshot, crashes, snapshots>>

\* Mutant: the WAL file is emptied when it is opened.
RestartTruncates ==
    /\ crashes < MaxCrashes
    /\ crashes' = crashes + 1
    /\ mp' = [k \in Key |-> None]
    /\ wal' = <<>>
    /\ lastIndex' = 0
    /\ op' = Idle
    /\ truncating' = -1
    /\ UNCHANGED <<snapshot, snapshots>>

\* The process dies and is started again.
Restart ==
    /\ crashes < MaxCrashes
    /\ crashes' = crashes + 1
    /\ mp' = Recovered
    /\ lastIndex' = LastIndexOf(wal)
    /\ op' = Idle
    /\ truncating' = -1
    /\ UNCHANGED <<wal, snapshot, snapshots>>

Next ==
    \/ \E k \in Key : remove(k) \/ \E v \in Value : put(k, v)
    \/ UpdateMap
    \/ \E i \in 0 .. MaxIndex : saveSnapshot(i)
    \/ truncateUpTo
    \/ Restart

Spec == Init /\ [][Next]_vars

-----------------------------------------------------------------------------
(* Properties.                                                             *)

\* The map, the records of the file and the operation in progress are well
\* formed.
TypeOK ==
    /\ mp \in [Key -> Value \cup {None}]
    /\ wal \in Seq([index : Nat,
                    record : [command : {"PUT", "DELETE"}, text : Seq(Char)]])
    /\ lastIndex \in 0 .. MaxIndex
    /\ op \in {Idle} \cup [pc : {"logged"}, key : Key,
                           value : Value \cup {None}]
    /\ truncating \in -1 .. MaxIndex
    /\ crashes \in 0 .. MaxCrashes
    /\ snapshots \in 0 .. MaxSnapshots

\* The records are in the order of their indices and numbering goes on from
\* the last one, over truncations and restarts: truncateUpTo keeps a suffix.
WalOrdered ==
    /\ \A i, j \in 1 .. Len(wal) : i < j => wal[i].index < wal[j].index
    /\ lastIndex = LastIndexOf(wal)

\* Between two operations a crash would lose nothing: the map is the one a
\* restart builds.
NothingToLose == op = Idle => mp = Recovered

\* It is until a node takes the first snapshot.
NothingLostBefore == snapshots = 0 => NothingToLose

\* Until then the map a restart would build is that of a durable map: it
\* changes by one completed record at a time, and not by a crash.
Durable == INSTANCE KVMap WITH map <- Recovered, promised <- (snapshots = 0)
IsDurableMap == Durable!Spec
=============================================================================
