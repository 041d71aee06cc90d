--------------------------- MODULE KVStoreProofs ---------------------------
(***************************************************************************)
(* Theorems about KVStore, for all texts and bounds: until a node takes    *)
(* the first snapshot, and if no key contains "=", the store with its      *)
(* write-ahead log is a durable map; its records stay in order over        *)
(* truncations and restarts, and its map a map from keys to values.  The   *)
(* runs show that the conditions of the first are needed.                  *)
(***************************************************************************)
EXTENDS KVStore, SequenceTheorems, WellFoundedInduction, TLAPS

PlainKeys == \A k \in Key : \A i \in 1 .. Len(k) : k[i] # Eq
NoSnapshotYet == snapshots = 0

-----------------------------------------------------------------------------
(* Records.                                                                *)

\* A key without "=" is read back from the record that was written for it, and
\* so is any value.
LEMMA RecordReadBack ==
    ASSUME PlainKeys, NEW k \in Key, NEW v \in Value
    PROVE  /\ PutRecord(k, v).text \in Seq(Char)
           /\ keyOf(PutRecord(k, v)) = k
           /\ valueOf(PutRecord(k, v)) = v
  <1> DEFINE t == k \o <<Eq>> \o v
             n == Len(k)
  <1>1. k \in Seq(Char) /\ v \in Seq(Char) /\ Eq \in Char
    BY TextAssumption
  <1>2. /\ t \in Seq(Char)
        /\ n \in Nat /\ Len(v) \in Nat
        /\ Len(t) = n + 1 + Len(v)
    BY <1>1
  <1>3. /\ \A i \in 1 .. n : t[i] = k[i]
        /\ t[n + 1] = Eq
        /\ \A i \in 1 .. Len(v) : t[n + 1 + i] = v[i]
    BY <1>1
  <1>4. \A i \in 1 .. n : t[i] # Eq
    BY <1>3 DEF PlainKeys
  <1>5. eqPos(t) = n + 1
    <2> HIDE DEF t, n
    <2>1. /\ n + 1 \in 1 .. Len(t)
          /\ t[n + 1] = Eq /\ \A j \in 1 .. (n + 1) - 1 : t[j] # Eq
      BY <1>2, <1>3, <1>4
    <2>2. ASSUME NEW i \in 1 .. Len(t), t[i] = Eq,
                 \A j \in 1 .. i - 1 : t[j] # Eq
          PROVE  i = n + 1
      <3>1. i \notin 1 .. n
        BY <2>2, <1>4
      <3>2. ~(n + 1 < i)
        BY <2>2, <2>1, <1>2
      <3> QED
        BY <3>1, <3>2, <1>2
    <2> QED
      BY <2>1, <2>2 DEF eqPos
  <1>6. SubSeq(t, 1, n) = k
    <2>1. SubSeq(t, 1, n) \in Seq(Char) /\ Len(SubSeq(t, 1, n)) = n
      BY <1>2, SubSeqProperties
    <2>2. \A i \in 1 .. n : SubSeq(t, 1, n)[i] = k[i]
      BY <1>2, <1>3, SubSeqProperties
    <2> QED
      BY <1>1, <2>1, <2>2, SeqEqual
  <1>7. SubSeq(t, n + 2, Len(t)) = v
    <2>1. /\ SubSeq(t, n + 2, Len(t)) \in Seq(Char)
          /\ Len(SubSeq(t, n + 2, Len(t))) = Len(v)
          /\ \A i \in 1 .. Len(v) : SubSeq(t, n + 2, Len(t))[i] = v[i]
      BY <1>2, <1>3, SubSeqProperties
    <2> QED
      BY <1>1, <2>1, SeqEqual
  <1> HIDE DEF t, n
  <1>8. n + 1 - 1 = n /\ n + 1 + 1 = n + 2
    BY <1>2
  <1>9. PutRecord(k, v) = [command |-> "PUT", text |-> t]
    BY DEF PutRecord, t
  <1>10. PutRecord(k, v).command # "DELETE" /\ PutRecord(k, v).text = t
    BY <1>9
  <1>11. keyOf(PutRecord(k, v)) = SubSeq(t, 1, eqPos(t) - 1)
    BY <1>10, Zenon DEF keyOf
  <1>12. valueOf(PutRecord(k, v)) = SubSeq(t, eqPos(t) + 1, Len(t))
    BY <1>10, Zenon DEF valueOf
  <1> QED
    BY <1>2, <1>5, <1>6, <1>7, <1>8, <1>10, <1>11, <1>12

LEMMA DeleteReadBack ==
    ASSUME NEW k \in Key
    PROVE  /\ DeleteRecord(k).text \in Seq(Char)
           /\ keyOf(DeleteRecord(k)) = k
           /\ valueOf(DeleteRecord(k)) = None
  BY TextAssumption DEF DeleteRecord, keyOf, valueOf

-----------------------------------------------------------------------------
(* Replay.                                                                 *)

Record == [command : {"PUT", "DELETE"}, text : Seq(Char)]
Line == [index : Nat, record : Record]

\* Some record of a file is the last of those that concern a key.
LEMMA BoundedHasLast ==
    ASSUME NEW n \in Nat, NEW S, S \subseteq 1 .. n, S # {}
    PROVE  \E m \in S : \A j \in S : j <= m
  <1> DEFINE Bounds == {m \in Nat : \A j \in S : j <= m}
             R == OpToRel(<, Nat)
  <1>1. Bounds \subseteq Nat /\ n \in Bounds
    OBVIOUS
  <1>2. PICK m \in Bounds : \A y \in Bounds : ~(<<y, m>> \in R)
    <2>1. IsWellFoundedOn(R, Nat)
      BY NatLessThanWellFounded
    <2> HIDE DEF R, Bounds
    <2> QED
      BY <1>1, <2>1, WFMin
  <1>3. \A y \in Bounds : ~(y < m)
    BY <1>2 DEF OpToRel
  <1>4. m \in S
    <2> SUFFICES ASSUME m \notin S PROVE FALSE
      OBVIOUS
    <2>1. PICK j \in S : TRUE
      OBVIOUS
    <2>2. m >= 1 /\ m - 1 \in Nat
      BY <2>1
    <2>3. m - 1 \in Bounds
      BY <2>2
    <2> QED
      BY <1>3, <2>2, <2>3
  <1> QED
    BY <1>4

\* One more record changes the replayed map at the record's key only.
LEMMA ReplayAppend ==
    ASSUME NEW file \in Seq(Line), NEW e \in Line, keyOf(e.record) \in Key
    PROVE  Replay(Append(file, e)) =
              [Replay(file) EXCEPT ![keyOf(e.record)] = valueOf(e.record)]
  <1> DEFINE n == Len(file)
             longer == Append(file, e)
  <1>1. /\ n \in Nat /\ Len(longer) = n + 1
        /\ \A i \in 1 .. n : longer[i] = file[i]
        /\ longer[n + 1] = e
    <2> HIDE DEF Line
    <2> QED
      OBVIOUS
  <1> HIDE DEF longer, n
  <1>2. ASSUME NEW k \in Key, k # keyOf(e.record)
        PROVE  Replay(longer)[k] = Replay(file)[k]
    <2>1. RecordsOf(longer, k) = RecordsOf(file, k)
      BY <1>1, <1>2 DEF RecordsOf, n
    <2>2. CASE RecordsOf(file, k) = {}
      BY <2>1, <2>2 DEF Replay
    <2>3. CASE RecordsOf(file, k) # {}
      <3> DEFINE S == RecordsOf(file, k)
      <3>1. LastOf(S) \in S
        <4>1. S \subseteq 1 .. n /\ S # {}
          BY <2>3 DEF RecordsOf, n
        <4>2. \E m \in S : \A j \in S : j <= m
          BY <4>1, <1>1, BoundedHasLast
        <4> QED
          BY <4>2 DEF LastOf
      <3>2. longer[LastOf(S)] = file[LastOf(S)]
        BY <3>1, <1>1 DEF RecordsOf, n
      <3> QED
        BY <2>1, <2>3, <3>2 DEF Replay
    <2> QED
      BY <2>2, <2>3
  <1>3. ASSUME NEW k \in Key, k = keyOf(e.record)
        PROVE  Replay(longer)[k] = valueOf(e.record)
    <2> DEFINE S == RecordsOf(longer, k)
    <2>1. n + 1 \in S /\ \A j \in S : j \in Int /\ j <= n + 1
      BY <1>1, <1>3 DEF RecordsOf
    <2>2. LastOf(S) = n + 1
      <3> HIDE DEF S
      <3> QED
        BY <2>1, <1>1 DEF LastOf
    <2> QED
      BY <2>1, <2>2, <1>1 DEF Replay
  <1>4. Replay(longer) \in [Key -> {Replay(longer)[k] : k \in Key}]
        /\ DOMAIN Replay(longer) = Key /\ DOMAIN Replay(file) = Key
    BY DEF Replay
  <1>5. Replay(longer) = [k \in Key |-> Replay(longer)[k]]
    BY DEF Replay
  <1>6. Replay(file) = [k \in Key |-> Replay(file)[k]]
    BY DEF Replay
  <1> QED
    BY <1>2, <1>3, <1>5, <1>6 DEF longer

-----------------------------------------------------------------------------
(* The store.                                                              *)

\* Between the two halves of an operation the file is one record ahead of the
\* map.  NothingToLose alone says nothing of that state and is not inductive.
FileAhead ==
    /\ TypeOK
    /\ snapshot = None /\ truncating = -1
    /\ op = Idle => mp = Replay(wal)
    /\ op # Idle => Replay(wal) = [mp EXCEPT ![op.key] = op.value]
    /\ Replay(wal) \in [Key -> Value \cup {None}]
    /\ LastIndexOf(wal) \in 0 .. MaxIndex

LEMMA ReplayEmpty == Replay(<<>>) = [k \in Key |-> None]
  <1>1. \A k \in Key : RecordsOf(<<>>, k) = {}
    BY DEF RecordsOf
  <1> QED
    BY <1>1 DEF Replay

LEMMA InitFile == Init => FileAhead
  <1> SUFFICES ASSUME Init PROVE FileAhead
    OBVIOUS
  <1>1. TypeOK
    BY BoundAssumption DEF Init, TypeOK, Idle
  <1>2. LastIndexOf(wal) \in 0 .. MaxIndex
    BY BoundAssumption DEF Init, LastIndexOf
  <1> QED
    BY <1>1, <1>2, ReplayEmpty DEF Init, FileAhead

\* The first half of an operation on key k: the record is in the file, the map
\* is still the old one.
LEMMA LogOperation ==
    ASSUME FileAhead, op = Idle, NEW k \in Key, NEW v \in Value \cup {None},
           NEW rec \in Record, keyOf(rec) = k, valueOf(rec) = v,
           appendEntry(rec), op' = [pc |-> "logged", key |-> k, value |-> v],
           UNCHANGED <<mp, snapshot, truncating, crashes, snapshots>>
    PROVE  /\ FileAhead'
           /\ Recovered' = [Recovered EXCEPT ![k] = v]
  <1> DEFINE e == [index |-> lastIndex + 1, record |-> rec]
  <1>1. /\ wal \in Seq(Line) /\ lastIndex \in 0 .. MaxIndex
        /\ lastIndex < MaxIndex /\ wal' = Append(wal, e)
        /\ lastIndex' = lastIndex + 1
    BY DEF FileAhead, TypeOK, Line, Record, appendEntry
  <1>2. e \in Line
    BY <1>1, BoundAssumption DEF Line
  <1>3. wal' \in Seq(Line) /\ Len(wal') = Len(wal) + 1
        /\ Len(wal) \in Nat /\ wal'[Len(wal')] = e
    <2> HIDE DEF Line, e
    <2> QED
      BY <1>1, <1>2
  <1>4. Replay(wal') = [Replay(wal) EXCEPT ![k] = v]
    <2>1. e.record = rec
      OBVIOUS
    <2> HIDE DEF e, Line
    <2> QED
      BY <1>1, <1>2, <2>1, ReplayAppend
  <1>5. /\ mp' = mp /\ mp = Replay(wal)
        /\ op' # Idle /\ op'.key = k /\ op'.value = v
    BY DEF FileAhead, Idle
  <1>6. Replay(wal') = [mp' EXCEPT ![op'.key] = op'.value]
    BY <1>4, <1>5
  <1>7. Replay(wal') \in [Key -> Value \cup {None}]
    BY <1>4 DEF FileAhead
  <1>8. LastIndexOf(wal') \in 0 .. MaxIndex
    <2>1. wal' # <<>>
      BY <1>3
    <2>2. LastIndexOf(wal') = lastIndex + 1
      BY <1>3, <2>1 DEF LastIndexOf
    <2> QED
      BY <1>1, <2>2, BoundAssumption
  <1>9. TypeOK'
    <2>1. lastIndex' \in 0 .. MaxIndex
      BY <1>1, BoundAssumption
    <2>2. op' \in [pc : {"logged"}, key : Key, value : Value \cup {None}]
      OBVIOUS
    <2>3. /\ mp' \in [Key -> Value \cup {None}]
          /\ truncating' \in -1 .. MaxIndex
          /\ crashes' \in 0 .. MaxCrashes
          /\ snapshots' \in 0 .. MaxSnapshots
      BY DEF FileAhead, TypeOK
    <2> QED
      BY <1>3, <2>1, <2>2, <2>3 DEF TypeOK, Line, Record
  <1>10. snapshot' = None /\ truncating' = -1
    BY DEF FileAhead
  <1> QED
    BY <1>4, <1>5, <1>6, <1>7, <1>8, <1>9, <1>10 DEF FileAhead, Recovered

\* What a step may do to the map a restart would build: one write, one removal,
\* or nothing.
DurableStep ==
    \/ \E k \in Key : \/ Recovered' = [Recovered EXCEPT ![k] = None]
                      \/ \E v \in Value :
                            Recovered' = [Recovered EXCEPT ![k] = v]
    \/ Recovered' = Recovered

\* The inductive invariant: the file is ahead until the first snapshot.
UntilSnapshot == snapshots \in Nat /\ (NoSnapshotYet => FileAhead)

\* Snapshots are not untaken.
LEMMA SnapshotsCount ==
    snapshots \in Nat /\ [Next]_vars =>
        snapshots' \in Nat /\ (NoSnapshotYet' => NoSnapshotYet)
  BY DEF Next, vars, put, remove, UpdateMap, saveSnapshot, truncateUpTo, Restart,
         NoSnapshotYet

\* Until the first snapshot every step keeps the file ahead of the map and is a
\* step of a durable map.
LEMMA NextFile ==
    ASSUME PlainKeys
    PROVE  FileAhead /\ NoSnapshotYet' /\ [Next]_vars => FileAhead' /\ DurableStep
  <1> SUFFICES ASSUME FileAhead, NoSnapshotYet', [Next]_vars
               PROVE  FileAhead' /\ DurableStep
    OBVIOUS
  <1>1. ASSUME NEW k \in Key, NEW v \in Value, put(k, v)
        PROVE  FileAhead' /\ DurableStep
    <2>1. PutRecord(k, v) \in Record
      BY RecordReadBack DEF PutRecord, Record
    <2>2. FileAhead' /\ Recovered' = [Recovered EXCEPT ![k] = v]
      BY <1>1, <2>1, RecordReadBack, LogOperation DEF put
    <2> QED
      BY <2>2 DEF DurableStep
  <1>2. ASSUME NEW k \in Key, remove(k)
        PROVE  FileAhead' /\ DurableStep
    <2>1. DeleteRecord(k) \in Record
      BY DeleteReadBack DEF DeleteRecord, Record
    <2>2. FileAhead' /\ Recovered' = [Recovered EXCEPT ![k] = None]
      BY <1>2, <2>1, DeleteReadBack, LogOperation DEF remove
    <2> QED
      BY <2>2 DEF DurableStep
  <1>3. CASE UpdateMap
    <2>1. op # Idle /\ op'= Idle
          /\ mp' = [mp EXCEPT ![op.key] = op.value]
          /\ UNCHANGED <<wal, lastIndex, snapshot, truncating, crashes, snapshots>>
      BY <1>3 DEF UpdateMap, Idle
    <2>2. mp' = Replay(wal')
      BY <2>1 DEF FileAhead
    <2>3. Recovered' = Recovered
      BY <2>1 DEF Recovered
    <2>4. TypeOK'
      BY <2>1, <2>2 DEF FileAhead, TypeOK
    <2> QED
      BY <2>1, <2>2, <2>3, <2>4 DEF FileAhead, DurableStep
  <1>4. ASSUME NEW i \in 0 .. MaxIndex, saveSnapshot(i)
        PROVE  FALSE
    BY <1>4 DEF saveSnapshot, FileAhead, TypeOK, NoSnapshotYet
  <1>5. CASE truncateUpTo
    BY <1>5 DEF truncateUpTo, FileAhead
  <1>6. CASE Restart
    <2>1. /\ op' = Idle /\ mp' = Replay(wal) /\ crashes' \in 0 .. MaxCrashes
          /\ lastIndex' = LastIndexOf(wal) /\ truncating' = -1
          /\ UNCHANGED <<wal, snapshot, snapshots>>
      BY <1>6, BoundAssumption DEF Restart, FileAhead, Recovered, TypeOK
    <2>2. TypeOK'
      BY <2>1, BoundAssumption DEF FileAhead, TypeOK
    <2>3. Recovered' = Recovered
      BY <2>1 DEF Recovered
    <2> QED
      BY <2>1, <2>2, <2>3 DEF FileAhead, DurableStep
  <1>7. CASE UNCHANGED vars
    BY <1>7 DEF vars, FileAhead, TypeOK, Recovered, DurableStep
  <1> QED
    BY <1>1, <1>2, <1>3, <1>4, <1>5, <1>6, <1>7 DEF Next

\* UntilSnapshot is an invariant.
LEMMA UntilSnapshotHolds ==
    ASSUME PlainKeys
    PROVE  /\ Init => UntilSnapshot
           /\ UntilSnapshot /\ [Next]_vars => UntilSnapshot'
  <1>1. Init => UntilSnapshot
    BY InitFile DEF UntilSnapshot, Init
  <1>2. UntilSnapshot /\ [Next]_vars => UntilSnapshot'
    BY SnapshotsCount, NextFile DEF UntilSnapshot
  <1> QED
    BY <1>1, <1>2

\* Without "=" in keys, and in every behaviour up to its first snapshot, a crash
\* between two operations of KVStore loses nothing: replaying the WAL rebuilds
\* the map, for every sequence of puts, removals and restarts.
THEOREM NothingIsLost ==
    ASSUME PlainKeys
    PROVE  Spec => []NothingLostBefore
  <1>1. UntilSnapshot => NothingLostBefore
    BY DEF UntilSnapshot, NoSnapshotYet, NothingLostBefore, FileAhead,
           NothingToLose, Recovered
  <1> QED
    BY <1>1, UntilSnapshotHolds, PTL DEF Spec

\* Under the same conditions the map, the file and the restarts together
\* implement a durable map: the WAL record is the commit point of an operation,
\* and the first snapshot withdraws the promise.
THEOREM ImplementsDurableMap ==
    ASSUME PlainKeys
    PROVE  Spec => IsDurableMap
  <1>1. Init => Durable!Init
    <2> SUFFICES ASSUME Init
                 PROVE  Recovered = [k \in Key |-> None] /\ (snapshots = 0) = TRUE
      BY DEF Durable!Init
    <2> QED
      BY ReplayEmpty DEF Init, Recovered
  <1>2. UntilSnapshot /\ [Next]_vars
        => [Durable!Next]_<<Recovered, snapshots = 0>>
    <2> SUFFICES ASSUME UntilSnapshot, [Next]_vars
                 PROVE  [Durable!Next]_<<Recovered, snapshots = 0>>
      OBVIOUS
    <2>1. CASE ~NoSnapshotYet'
      BY <2>1 DEF NoSnapshotYet, Durable!Next, Durable!Withdraw
    <2>2. CASE NoSnapshotYet'
      <3>1. FileAhead /\ NoSnapshotYet
        BY <2>2, SnapshotsCount DEF UntilSnapshot
      <3>2. DurableStep
        BY <2>2, <3>1, NextFile
      <3>3. (snapshots = 0)' = (snapshots = 0)
        BY <2>2, <3>1 DEF NoSnapshotYet
      <3> QED
        BY <3>2, <3>3 DEF DurableStep, Durable!Next, Durable!Put, Durable!Remove
    <2> QED
      BY <2>1, <2>2
  <1> QED
    BY <1>1, <1>2, UntilSnapshotHolds, PTL DEF Spec, IsDurableMap, Durable!Spec

-----------------------------------------------------------------------------
(* The order of the records, with any keys and over truncations.           *)

\* The records after an index are none or a suffix of the file.
LEMMA NewerIsSuffix ==
    ASSUME NEW file \in Seq(Line), NEW index \in Int
    PROVE  \/ Newer(file, index) = <<>>
           \/ \E m \in 1 .. Len(file) :
                 /\ Newer(file, index) \in Seq(Line)
                 /\ Len(Newer(file, index)) = (Len(file) - m) + 1
                 /\ \A i \in 1 .. Len(Newer(file, index)) :
                       Newer(file, index)[i] = file[(m - 1) + i]
  <1> DEFINE n == Len(file)
             S == {i \in 1 .. n : file[i].index > index}
  <1>1. n \in Nat
    <2> HIDE DEF Line
    <2> QED
      OBVIOUS
  <1>2. CASE S = {}
    BY <1>2 DEF Newer
  <1>3. CASE S # {}
    <2>1. PICK m \in S : \A j \in S : m <= j
      <3> DEFINE R == OpToRel(<, Nat)
      <3>1. PICK m \in S : \A y \in S : ~(<<y, m>> \in R)
        <4>1. IsWellFoundedOn(R, Nat)
          BY NatLessThanWellFounded
        <4>2. S \subseteq Nat
          BY <1>1
        <4> HIDE DEF R, S
        <4> QED
          BY <1>3, <4>1, <4>2, WFMin
      <3>2. \A y \in S : y \in Nat /\ m \in Nat
        BY <1>1
      <3> HIDE DEF S
      <3>3. \A y \in S : ~(y < m)
        BY <3>1, <3>2 DEF OpToRel
      <3> QED
        BY <3>2, <3>3
    <2>2. FirstOf(S) \in S /\ \A j \in S : FirstOf(S) <= j
      <3> HIDE DEF S
      <3> QED
        BY <2>1 DEF FirstOf
    <2> DEFINE f == FirstOf(S)
               t == SubSeq(file, f, n)
    <2>3. f \in 1 .. n /\ Newer(file, index) = t
      BY <1>3, <2>2 DEF Newer
    <2>4. t \in Seq(Line) /\ Len(t) = (n - f) + 1
          /\ \A i \in 1 .. Len(t) : t[i] = file[(f - 1) + i]
      <3> HIDE DEF f, Line, S
      <3>1. f \in 1 .. n + 1 /\ n \in f - 1 .. n /\ f <= n
        BY <1>1, <2>3
      <3>2. /\ t \in Seq(Line) /\ Len(t) = (n - f) + 1
            /\ \A i \in 1 .. (n - f) + 1 : t[i] = file[(f + i) - 1]
        BY <1>1, <2>3, <3>1, SubSeqProperties
      <3>3. \A i \in 1 .. Len(t) : (f + i) - 1 = (f - 1) + i
        BY <1>1, <2>3, <3>2
      <3> QED
        BY <3>2, <3>3
    <2> HIDE DEF t, f, S
    <2> QED
      BY <2>3, <2>4
  <1> QED
    BY <1>2, <1>3

\* What WalOrdered needs to be inductive.
WalInv ==
    /\ wal \in Seq(Line) /\ lastIndex \in 0 .. MaxIndex /\ truncating \in Int
    /\ WalOrdered

\* Every record's index is at most the last one's.
LEMMA LastIsLargest ==
    ASSUME WalInv, NEW i \in 1 .. Len(wal)
    PROVE  wal[i].index <= lastIndex /\ wal[i].index \in Nat
  <1>1. Len(wal) \in Nat /\ Len(wal) \in 1 .. Len(wal) /\ wal # <<>>
    <2> HIDE DEF Line
    <2> QED
      BY DEF WalInv
  <1>2. wal[i] \in Line /\ wal[Len(wal)] \in Line
    <2> HIDE DEF Line
    <2> QED
      BY <1>1 DEF WalInv
  <1>3. wal[i].index \in Nat /\ wal[Len(wal)].index \in Nat
    BY <1>2 DEF Line
  <1>4. lastIndex = wal[Len(wal)].index
    BY <1>1 DEF WalInv, WalOrdered, LastIndexOf
  <1>5. CASE i = Len(wal)
    BY <1>3, <1>4, <1>5
  <1>6. CASE i < Len(wal)
    BY <1>1, <1>3, <1>4, <1>6 DEF WalInv, WalOrdered
  <1> QED
    BY <1>1, <1>3, <1>5, <1>6

LEMMA AppendOrdered ==
    ASSUME WalInv, NEW rec \in Record, appendEntry(rec), truncating' = truncating
    PROVE  WalInv'
  <1> DEFINE e == [index |-> lastIndex + 1, record |-> rec]
  <1>1. /\ lastIndex \in 0 .. MaxIndex /\ lastIndex < MaxIndex
        /\ lastIndex' = lastIndex + 1 /\ wal' = Append(wal, e) /\ wal \in Seq(Line)
        /\ truncating' \in Int /\ MaxIndex \in Nat
    BY BoundAssumption DEF WalInv, appendEntry
  <1>2. e \in Line /\ e.index = lastIndex + 1
    BY <1>1 DEF Line
  <1>3. /\ wal' \in Seq(Line) /\ Len(wal) \in Nat /\ Len(wal') = Len(wal) + 1
        /\ \A i \in 1 .. Len(wal) : wal'[i] = wal[i]
        /\ wal'[Len(wal) + 1] = e
    <2> HIDE DEF Line, e
    <2> QED
      BY <1>1, <1>2
  <1> HIDE DEF e
  <1>4. ASSUME NEW i \in 1 .. Len(wal'), NEW j \in 1 .. Len(wal'), i < j
        PROVE  wal'[i].index < wal'[j].index
    <2>1. i \in 1 .. Len(wal)
      BY <1>3, <1>4
    <2>2. CASE j \in 1 .. Len(wal)
      BY <1>3, <1>4, <2>1, <2>2 DEF WalInv, WalOrdered
    <2>3. CASE j = Len(wal) + 1
      BY <1>1, <1>2, <1>3, <2>1, <2>3, LastIsLargest
    <2> QED
      BY <1>3, <2>2, <2>3
  <1>5. lastIndex' = LastIndexOf(wal')
    <2>1. wal' # <<>>
      BY <1>3
    <2> QED
      BY <1>1, <1>2, <1>3, <2>1 DEF LastIndexOf
  <1>6. lastIndex' \in 0 .. MaxIndex
    BY <1>1
  <1> QED
    BY <1>1, <1>3, <1>4, <1>5, <1>6 DEF WalInv, WalOrdered

LEMMA TruncateOrdered ==
    ASSUME WalInv, truncateUpTo
    PROVE  WalInv'
  <1> DEFINE t == Newer(wal, truncating)
  <1>1. /\ wal \in Seq(Line) /\ truncating \in Int /\ wal' = t
        /\ lastIndex' = LastIndexOf(t) /\ truncating' \in Int
        /\ lastIndex \in 0 .. MaxIndex /\ MaxIndex \in Nat
    BY BoundAssumption DEF WalInv, truncateUpTo
  <1>2. CASE t = <<>>
    <2>1. wal' = <<>> /\ lastIndex' = 0
      BY <1>1, <1>2 DEF LastIndexOf
    <2> QED
      BY <1>1, <2>1 DEF WalInv, WalOrdered, LastIndexOf
  <1>3. CASE t # <<>>
    <2>1. PICK m \in 1 .. Len(wal) :
             /\ t \in Seq(Line) /\ Len(t) = (Len(wal) - m) + 1
             /\ \A i \in 1 .. Len(t) : t[i] = wal[(m - 1) + i]
      BY <1>1, <1>3, NewerIsSuffix
    <2>2. Len(wal) \in Nat
      <3> HIDE DEF Line
      <3> QED
        BY <1>1
    <2> HIDE DEF t
    <2>3. \A i \in 1 .. Len(t) : (m - 1) + i \in 1 .. Len(wal)
      BY <2>1, <2>2
    <2>4. ASSUME NEW i \in 1 .. Len(t), NEW j \in 1 .. Len(t), i < j
          PROVE  t[i].index < t[j].index
      <3>1. (m - 1) + i < (m - 1) + j
        BY <2>1, <2>2, <2>4
      <3> QED
        BY <2>1, <2>3, <3>1 DEF WalInv, WalOrdered
    <2>5. LastIndexOf(t) = wal[Len(wal)].index
      <3>1. Len(t) \in 1 .. Len(t) /\ (m - 1) + Len(t) = Len(wal)
        BY <2>1, <2>2
      <3> QED
        BY <1>3, <2>1, <3>1 DEF LastIndexOf
    <2>6. LastIndexOf(t) \in 0 .. MaxIndex
      <3>1. Len(wal) \in 1 .. Len(wal)
        BY <2>1, <2>2
      <3> QED
        BY <1>1, <2>5, <3>1, LastIsLargest
    <2> QED
      BY <1>1, <2>1, <2>4, <2>6 DEF WalInv, WalOrdered
  <1> QED
    BY <1>2, <1>3

LEMMA PutIsRecord ==
    ASSUME NEW k \in Key, NEW v \in Value
    PROVE  PutRecord(k, v) \in Record /\ DeleteRecord(k) \in Record
  <1>1. k \in Seq(Char) /\ v \in Seq(Char) /\ Eq \in Char
    BY TextAssumption
  <1>2. k \o <<Eq>> \o v \in Seq(Char)
    BY <1>1
  <1> QED
    BY <1>1, <1>2 DEF PutRecord, DeleteRecord, Record

LEMMA NextOrdered ==
    ASSUME WalInv, [Next]_vars
    PROVE  WalInv'
  <1>1. ASSUME NEW k \in Key, NEW v \in Value, put(k, v)
        PROVE  WalInv'
    BY <1>1, PutIsRecord, AppendOrdered DEF put
  <1>2. ASSUME NEW k \in Key, remove(k)
        PROVE  WalInv'
    <2>1. DeleteRecord(k) \in Record
      BY TextAssumption DEF DeleteRecord, Record
    <2> QED
      BY <1>2, <2>1, AppendOrdered DEF remove
  <1>3. ASSUME wal' = wal, lastIndex' = lastIndex, truncating' \in Int
        PROVE  WalInv'
    BY <1>3 DEF WalInv, WalOrdered
  <1>4. ASSUME NEW i \in 0 .. MaxIndex, saveSnapshot(i)
        PROVE  WalInv'
    BY <1>3, <1>4, BoundAssumption DEF saveSnapshot
  <1>5. CASE Restart
    BY <1>3, <1>5 DEF Restart, WalInv, WalOrdered
  <1>6. CASE UpdateMap \/ UNCHANGED vars
    BY <1>3, <1>6 DEF UpdateMap, vars, WalInv
  <1> QED
    BY <1>1, <1>2, <1>4, <1>5, <1>6, TruncateOrdered DEF Next

\* With any keys, and over appends, truncations up to any Raft index, snapshots
\* and restarts, the records of the WAL are in the order of their numbers and
\* numbering goes on from the last record of the file.
THEOREM RecordsStayOrdered == Spec => []WalOrdered
  <1>1. Init => WalInv
    <2> SUFFICES ASSUME Init PROVE WalInv
      OBVIOUS
    <2>1. wal = <<>> /\ lastIndex = 0 /\ truncating = -1 /\ MaxIndex \in Nat
      BY BoundAssumption DEF Init
    <2> QED
      BY <2>1 DEF WalInv, WalOrdered, LastIndexOf
  <1>2. WalInv /\ [Next]_vars => WalInv'
    BY NextOrdered
  <1>3. WalInv => WalOrdered
    BY DEF WalInv
  <1> QED
    BY <1>1, <1>2, <1>3, PTL DEF Spec

-----------------------------------------------------------------------------
(* Types, over snapshots too.                                              *)

\* Every record of the file was written by a put or a remove.
Written == {PutRecord(k, v) : k \in Key, v \in Value} \cup {DeleteRecord(k) : k \in Key}
Map == [Key -> Value \cup {None}]
StoreInv ==
    /\ WalInv /\ TypeOK
    /\ snapshot \in Map \cup {None}
    /\ \A i \in 1 .. Len(wal) : wal[i].record \in Written

\* Replaying such a file gives a map from keys to values.
LEMMA ReplayTyped ==
    ASSUME PlainKeys, StoreInv
    PROVE  Replay(wal) \in Map
  <1>1. ASSUME NEW rec \in Written
        PROVE  valueOf(rec) \in Value \cup {None}
    <2>1. CASE \E k \in Key : rec = DeleteRecord(k)
      BY <2>1, DeleteReadBack
    <2>2. CASE \E k \in Key, v \in Value : rec = PutRecord(k, v)
      BY <2>2, RecordReadBack
    <2> QED
      BY <2>1, <2>2 DEF Written
  <1>2. Len(wal) \in Nat
    <2> HIDE DEF Line
    <2> QED
      BY DEF StoreInv, WalInv
  <1>3. ASSUME NEW k \in Key, RecordsOf(wal, k) # {}
        PROVE  valueOf(wal[LastOf(RecordsOf(wal, k))].record) \in Value \cup {None}
    <2> DEFINE S == RecordsOf(wal, k)
    <2>1. S \subseteq 1 .. Len(wal) /\ S # {}
      BY <1>3 DEF RecordsOf
    <2>2. \E m \in S : \A j \in S : j <= m
      BY <1>2, <2>1, BoundedHasLast
    <2> HIDE DEF S
    <2>3. LastOf(S) \in 1 .. Len(wal)
      BY <2>1, <2>2 DEF LastOf
    <2> QED
      BY <1>1, <2>3 DEF StoreInv, S
  <1>4. \A k \in Key : Replay(wal)[k] \in Value \cup {None}
    BY <1>3 DEF Replay
  <1>5. Replay(wal) = [k \in Key |-> Replay(wal)[k]]
    BY DEF Replay
  <1> QED
    BY <1>4, <1>5 DEF Map

LEMMA LogTyped ==
    ASSUME StoreInv, NEW k \in Key, NEW v \in Value \cup {None}, NEW rec \in Record,
           rec \in Written, appendEntry(rec),
           op' = [pc |-> "logged", key |-> k, value |-> v],
           UNCHANGED <<mp, snapshot, truncating, crashes, snapshots>>
    PROVE  StoreInv'
  <1>1. WalInv'
    BY AppendOrdered DEF StoreInv
  <1> DEFINE e == [index |-> lastIndex + 1, record |-> rec]
  <1>2. /\ wal \in Seq(Line) /\ wal' = Append(wal, e) /\ e.record = rec
        /\ lastIndex \in 0 .. MaxIndex
    BY DEF StoreInv, WalInv, appendEntry
  <1>3. e \in Line
    BY <1>2, BoundAssumption DEF Line
  <1>4. /\ Len(wal) \in Nat /\ Len(wal') = Len(wal) + 1
        /\ \A i \in 1 .. Len(wal) : wal'[i] = wal[i]
        /\ wal'[Len(wal) + 1] = e
    <2> HIDE DEF Line, e
    <2> QED
      BY <1>2, <1>3
  <1> HIDE DEF e
  <1>5. \A i \in 1 .. Len(wal') : wal'[i].record \in Written
    <2> SUFFICES ASSUME NEW i \in 1 .. Len(wal') PROVE wal'[i].record \in Written
      OBVIOUS
    <2>1. CASE i \in 1 .. Len(wal)
      BY <1>4, <2>1 DEF StoreInv
    <2>2. CASE i = Len(wal) + 1
      BY <1>2, <1>4, <2>2
    <2> QED
      BY <1>4, <2>1, <2>2
  <1>6. op' \in [pc : {"logged"}, key : Key, value : Value \cup {None}]
    OBVIOUS
  <1>7. TypeOK'
    BY <1>1, <1>6 DEF WalInv, StoreInv, TypeOK, Line, Record
  <1> QED
    BY <1>1, <1>5, <1>7 DEF StoreInv

LEMMA NextTyped ==
    ASSUME PlainKeys, StoreInv, [Next]_vars
    PROVE  StoreInv'
  <1>0. WalInv'
    BY NextOrdered DEF StoreInv
  <1>1. ASSUME NEW k \in Key, NEW v \in Value, put(k, v)
        PROVE  StoreInv'
    BY <1>1, PutIsRecord, LogTyped DEF put, Written
  <1>2. ASSUME NEW k \in Key, remove(k)
        PROVE  StoreInv'
    <2>1. DeleteRecord(k) \in Record
      BY TextAssumption DEF DeleteRecord, Record
    <2> QED
      BY <1>2, <2>1, LogTyped DEF remove, Written
  <1>3. CASE UpdateMap
    <2>1. op \in [pc : {"logged"}, key : Key, value : Value \cup {None}]
      BY <1>3 DEF UpdateMap, StoreInv, TypeOK, Idle
    <2>2. mp' \in Map /\ op' = Idle
          /\ UNCHANGED <<wal, lastIndex, snapshot, truncating, crashes, snapshots>>
      BY <1>3, <2>1 DEF UpdateMap, StoreInv, TypeOK, Map
    <2>3. TypeOK'
      BY <2>2 DEF StoreInv, TypeOK, Map
    <2> QED
      BY <1>0, <2>2, <2>3 DEF StoreInv
  <1>4. ASSUME NEW i \in 0 .. MaxIndex, saveSnapshot(i)
        PROVE  StoreInv'
    <2>1. /\ snapshot' \in Map /\ truncating' \in -1 .. MaxIndex
          /\ snapshots' \in 0 .. MaxSnapshots
          /\ UNCHANGED <<mp, wal, lastIndex, op, crashes>>
      BY <1>4, BoundAssumption DEF saveSnapshot, StoreInv, TypeOK, Map
    <2>2. TypeOK'
      BY <2>1 DEF StoreInv, TypeOK
    <2> QED
      BY <1>0, <2>1, <2>2 DEF StoreInv
  <1>5. CASE truncateUpTo
    <2> DEFINE t == Newer(wal, truncating)
    <2>1. /\ wal' = t /\ UNCHANGED <<mp, op, snapshot, crashes, snapshots>>
          /\ truncating' \in -1 .. MaxIndex
          /\ wal \in Seq(Line) /\ truncating \in Int
      BY <1>5, BoundAssumption DEF truncateUpTo, StoreInv, WalInv
    <2>2. \A i \in 1 .. Len(t) : t[i].record \in Written
      <3>1. CASE t = <<>>
        BY <3>1
      <3>2. CASE t # <<>>
        <4>1. PICK m \in 1 .. Len(wal) :
                 /\ Len(t) = (Len(wal) - m) + 1
                 /\ \A i \in 1 .. Len(t) : t[i] = wal[(m - 1) + i]
          BY <2>1, <3>2, NewerIsSuffix
        <4>2. Len(wal) \in Nat
          <5> HIDE DEF Line
          <5> QED
            BY <2>1
        <4> HIDE DEF t
        <4>3. \A i \in 1 .. Len(t) : (m - 1) + i \in 1 .. Len(wal)
          BY <4>1, <4>2
        <4> QED
          BY <4>1, <4>3 DEF StoreInv
      <3> QED
        BY <3>1, <3>2
    <2> HIDE DEF t
    <2>3. TypeOK'
      BY <1>0, <2>1 DEF WalInv, StoreInv, TypeOK, Line, Record
    <2> QED
      BY <1>0, <2>1, <2>2, <2>3 DEF StoreInv
  <1>6. CASE Restart
    <2>1. Recovered \in Map
      BY ReplayTyped DEF Recovered, StoreInv
    <2>2. /\ mp' \in Map /\ op' = Idle /\ truncating' = -1
          /\ crashes' \in 0 .. MaxCrashes /\ UNCHANGED <<wal, snapshot, snapshots>>
      BY <1>6, <2>1, BoundAssumption DEF Restart, StoreInv, TypeOK
    <2>3. TypeOK'
      BY <1>0, <2>2, BoundAssumption DEF WalInv, StoreInv, TypeOK, Map, Line, Record
    <2> QED
      BY <1>0, <2>2, <2>3 DEF StoreInv
  <1>7. CASE UNCHANGED vars
    BY <1>0, <1>7 DEF vars, StoreInv, TypeOK
  <1> QED
    BY <1>1, <1>2, <1>3, <1>4, <1>5, <1>6, <1>7 DEF Next

\* If no key contains "=", the map holds values of clients only: what put and
\* remove write is read back by the constructor, from a WAL that was truncated
\* at any index and after any number of snapshots and restarts.
THEOREM TypeCorrect ==
    ASSUME PlainKeys
    PROVE  Spec => []TypeOK
  <1>1. Init => StoreInv
    <2> SUFFICES ASSUME Init PROVE StoreInv
      OBVIOUS
    <2>1. wal = <<>> /\ lastIndex = 0 /\ truncating = -1 /\ MaxIndex \in Nat
          /\ snapshot = None
      BY BoundAssumption DEF Init
    <2>2. WalInv
      BY <2>1 DEF WalInv, WalOrdered, LastIndexOf
    <2>3. TypeOK
      BY BoundAssumption DEF Init, TypeOK, Idle
    <2> QED
      BY <2>1, <2>2, <2>3 DEF StoreInv
  <1>2. StoreInv /\ [Next]_vars => StoreInv'
    BY NextTyped
  <1>3. StoreInv => TypeOK
    BY DEF StoreInv
  <1> QED
    BY <1>1, <1>2, <1>3, PTL DEF Spec
=============================================================================
