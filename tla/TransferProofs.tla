--------------------------- MODULE TransferProofs ---------------------------
(***************************************************************************)
(* Theorems about Transfer, for any history of entries, numbers of chunks, *)
(* senders and bounds.                                                     *)
(***************************************************************************)
EXTENDS Transfer, SequenceTheorems, TLAPS

-----------------------------------------------------------------------------
(* Snapshots, batches and buffers.                                         *)

LEMMA HistoryFacts ==
    /\ Len(History) \in Nat \ {0} /\ 0 \in Index /\ Index \subseteq Nat
    /\ \A i \in Index : History[i + 1] \in Nat /\ ChunksOf[i + 1] \in Nat \ {0}
    /\ History[Len(History)] \in Nat \ {0}
  <1>1. Len(History) \in Nat \ {0}
    BY HistoryAssumption, EmptySeq, LenProperties
  <1>2. \A i \in 1 .. Len(History) : History[i] \in Nat \ {0}
    BY HistoryAssumption, ElementOfSeq
  <1>3. \A i \in Index : i + 1 \in 1 .. Len(History)
    BY <1>1 DEF Index
  <1> QED
    BY <1>1, <1>2, <1>3, HistoryAssumption DEF Index

LEMMA SnapshotFields ==
    ASSUME NEW o \in Leader \cup {Self}, NEW i \in Index
    PROVE  LET snap == Snapshot(o, i)
           IN  /\ snap \in Taken /\ snap \in AnySnapshot
               /\ snap.lastIncludedIndex = i
               /\ snap.parts \in Seq(Piece) /\ Len(snap.parts) \in Nat \ {0}
               /\ \A k \in 1 .. Len(snap.parts) : snap.parts[k].part = k
  <1> DEFINE n == ChunksOf[i + 1]
             piece(k) == [owner |-> o, index |-> i, part |-> k]
             parts == [k \in 1 .. n |-> piece(k)]
  <1>1. n \in Nat \ {0} /\ History[i + 1] \in Nat
    BY HistoryFacts
  <1>2. \A k \in 1 .. n : piece(k) \in Piece
    BY <1>1 DEF Piece
  <1>3. parts \in Seq(Piece) /\ Len(parts) = n
    <2> HIDE DEF piece, n
    <2> QED
      BY <1>1, <1>2, IsASeq, LenProperties
  <1>4. \A k \in 1 .. n : parts[k].part = k
    OBVIOUS
  <1>5. Snapshot(o, i) = [lastIncludedIndex |-> i, lastIncludedTerm |-> History[i + 1],
                          parts |-> parts]
    BY DEF Snapshot
  <1> HIDE DEF parts, n
  <1>6. Snapshot(o, i) \in AnySnapshot
    BY <1>1, <1>3, <1>5 DEF AnySnapshot
  <1>7. Snapshot(o, i) \in Taken
    BY DEF Taken
  <1>8. Snapshot(o, i).parts = parts /\ Snapshot(o, i).lastIncludedIndex = i
    BY <1>5
  <1>9. Len(parts) \in Nat \ {0} /\ \A k \in 1 .. Len(parts) : parts[k].part = k
    BY <1>1, <1>3, <1>4
  <1> QED
    BY <1>3, <1>6, <1>7, <1>8, <1>9

LEMMA TakenFields ==
    ASSUME NEW snap \in Taken
    PROVE  /\ snap \in AnySnapshot /\ snap.lastIncludedIndex \in Index
           /\ snap.parts \in Seq(Piece) /\ Len(snap.parts) \in Nat \ {0}
           /\ \A k \in 1 .. Len(snap.parts) :
                 snap.parts[k] \in Piece /\ snap.parts[k].part = k
  <1>1. PICK o \in Leader \cup {Self}, i \in Index : snap = Snapshot(o, i)
    BY DEF Taken
  <1>2. /\ snap \in AnySnapshot /\ snap.lastIncludedIndex = i
        /\ snap.parts \in Seq(Piece) /\ Len(snap.parts) \in Nat \ {0}
        /\ \A k \in 1 .. Len(snap.parts) : snap.parts[k].part = k
    BY <1>1, SnapshotFields
  <1>3. \A k \in 1 .. Len(snap.parts) : snap.parts[k] \in Piece
    BY <1>2, ElementOfSeq
  <1> QED
    BY <1>2, <1>3

LEMMA NoSnapFields ==
    /\ NoSnap \in AnySnapshot /\ NoSnap.lastIncludedIndex = -1
    /\ NoTransfer.part = 0 /\ NoTransfer.snap.parts = <<>>
  BY DEF NoSnap, AnySnapshot, NoTransfer

LEMMA AnySnapshotFields ==
    ASSUME NEW snap \in AnySnapshot
    PROVE  /\ snap.lastIncludedIndex \in Index \cup {-1}
           /\ snap.lastIncludedIndex \in Int
           /\ snap # NoSnap => snap.lastIncludedIndex \in Index
           /\ baseIndex(snap) = snap.lastIncludedIndex + 1
           /\ baseIndex(snap) \in 0 .. Len(History)
  <1>1. /\ snap.lastIncludedIndex \in Index \cup {-1}
        /\ snap # NoSnap => snap.lastIncludedIndex \in Index
    BY DEF AnySnapshot, NoSnap
  <1> QED
    BY <1>1, HistoryFacts DEF baseIndex, Index

\* What a log is made of.
LEMMA EntryType ==
    ASSUME NEW i \in Index
    PROVE  Entry(i) \in LogEntry /\ Entry(i).index = i
  BY HistoryFacts DEF Entry, LogEntry

LEMMA VectorFields ==
    ASSUME NEW v \in Vector
    PROVE  /\ v \in Seq(LogEntry) /\ Len(v) \in Nat /\ Len(v) <= Len(History)
           /\ \A k \in 1 .. Len(v) : /\ v[k] \in LogEntry /\ v[k].index \in Index
                                     /\ v[k].term \in Nat
  <1>1. v \in Seq(LogEntry) /\ Len(v) <= Len(History)
    BY DEF Vector
  <1>2. \A k \in 1 .. Len(v) : v[k] \in LogEntry
    BY <1>1, ElementOfSeq
  <1> QED
    BY <1>1, <1>2, LenProperties DEF LogEntry

LEMMA EntriesFromType ==
    ASSUME NEW i \in 0 .. Len(History), NEW size \in 0 .. Len(History), i <= size
    PROVE  /\ EntriesFrom(i, size) \in Vector
           /\ Len(EntriesFrom(i, size)) = size - i
           /\ \A k \in 1 .. size - i : EntriesFrom(i, size)[k] = Entry(i + k - 1)
  <1>1. Len(History) \in Nat /\ size - i \in Nat /\ size - i <= Len(History)
    BY HistoryFacts
  <1>2. \A k \in 1 .. size - i : i + k - 1 \in Index
    BY <1>1 DEF Index
  <1>3. \A k \in 1 .. size - i : Entry(i + k - 1) \in LogEntry
    BY <1>2, EntryType
  <1> DEFINE n == size - i
             v == [k \in 1 .. n |-> Entry(i + k - 1)]
  <1>4. v = EntriesFrom(i, size)
    BY DEF EntriesFrom
  <1>5. v \in Seq(LogEntry) /\ Len(v) = n
    <2>1. n \in Nat /\ \A k \in 1 .. n : Entry(i + k - 1) \in LogEntry
      BY <1>1, <1>3
    <2> HIDE DEF n
    <2> QED
      BY <2>1, IsASeq, LenProperties
  <1>6. \A k \in 1 .. n : v[k] = Entry(i + k - 1)
    OBVIOUS
  <1> HIDE DEF v
  <1> QED
    BY <1>1, <1>4, <1>5, <1>6 DEF Vector

LEMMA PartOfVector ==
    ASSUME NEW lg \in Vector, NEW m \in Nat \ {0}, NEW n \in Nat, n <= Len(lg)
    PROVE  /\ SubSeq(lg, m, n) \in Vector
           /\ Len(SubSeq(lg, m, n)) = IF m <= n THEN n - m + 1 ELSE 0
           /\ \A i \in 1 .. n - m + 1 : SubSeq(lg, m, n)[i] = lg[m + i - 1]
  <1>1. lg \in Seq(LogEntry) /\ Len(lg) \in Nat /\ Len(lg) <= Len(History)
        /\ Len(History) \in Nat
    BY VectorFields, HistoryFacts
  <1>2. \A i \in m .. n : lg[i] \in LogEntry
    BY <1>1, ElementOfSeq
  <1>3. /\ SubSeq(lg, m, n) \in Seq(LogEntry)
        /\ Len(SubSeq(lg, m, n)) = IF m <= n THEN n - m + 1 ELSE 0
        /\ \A i \in 1 .. n - m + 1 : SubSeq(lg, m, n)[i] = lg[m + i - 1]
    BY <1>1, <1>2, SubSeqProperties
  <1> QED
    BY <1>1, <1>3 DEF Vector

\* What a leader sends from nextIndex on, or from the start of its vector when
\* that is later: always the rest of the history.
BatchFits(m) ==
    /\ m.prevLogIndex + 1 + Len(m.entries) <= Len(History)
    /\ m.entries # <<>> => m.entries[1].index + Len(m.entries) <= Len(History)

LEMMA ShiftedStart ==
    ASSUME NEW H \in Nat, NEW b \in 0 .. H, NEW first \in 0 .. H, b <= first
    PROVE  /\ first - b \in Nat /\ H - b \in Nat /\ first - b + 1 \in Nat \ {0}
           /\ H - b - (first - b + 1) + 1 = H - first /\ H - first \in Nat
           /\ first - b + 1 <= H - b + 1 /\ H - first <= H
           /\ \A k \in 1 .. H - first :
                 /\ first - b + k \in 1 .. H - b
                 /\ b + (first - b + k) - 1 = first + k - 1
                 /\ first - b + 1 + k - 1 = first - b + k
  OBVIOUS

LEMMA BatchType ==
    ASSUME NEW snap \in Taken, NEW next \in 0 .. Len(History)
    PROVE  LET lg == EntriesFrom(baseIndex(snap), Len(History))
               first == IF next > baseIndex(snap) THEN next ELSE baseIndex(snap)
               entries == getLogEntries(lg, snap, next, Len(History))
           IN  /\ entries \in Vector
               /\ Len(entries) = Len(History) - first
               /\ \A k \in 1 .. Len(entries) : entries[k] = Entry(first + k - 1)
               /\ getLogTerm(lg, snap, next - 1) \in Nat
  <1> DEFINE H == Len(History)
             b == baseIndex(snap)
             lg == EntriesFrom(b, H)
             first == IF next > b THEN next ELSE b
             entries == getLogEntries(lg, snap, next, H)
             start == first - b
  <1>1. /\ H \in Nat /\ b \in 0 .. H /\ snap \in AnySnapshot
        /\ b = snap.lastIncludedIndex + 1 /\ snap.lastIncludedTerm \in Nat
    <2>1. snap \in AnySnapshot /\ snap.lastIncludedIndex \in Index
      BY TakenFields
    <2>2. snap.lastIncludedTerm \in Nat
      BY <2>1 DEF AnySnapshot, NoSnap
    <2> QED
      BY <2>1, <2>2, AnySnapshotFields, HistoryFacts
  <1>2. /\ lg \in Vector /\ Len(lg) = H - b
        /\ \A k \in 1 .. H - b : lg[k] = Entry(b + k - 1)
    <2>1. H \in 0 .. H /\ b <= H
      BY <1>1
    <2> HIDE DEF b
    <2> QED
      BY <1>1, <2>1, EntriesFromType
  <1>3. first \in 0 .. H /\ b <= first /\ start = IF next > b THEN next - b ELSE 0
    BY <1>1
  <1> HIDE DEF H, b, lg, first
  <1>a. /\ start \in Nat /\ H - b \in Nat /\ start + 1 \in Nat \ {0}
        /\ H - b - (start + 1) + 1 = H - first /\ H - first \in Nat
        /\ start + 1 <= H - b + 1 /\ H - first <= H
        /\ \A k \in 1 .. H - first :
              /\ start + k \in 1 .. H - b
              /\ b + (start + k) - 1 = first + k - 1
              /\ start + 1 + k - 1 = start + k
    <2>1. H \in Nat /\ b \in 0 .. H /\ first \in 0 .. H /\ b <= first
      BY <1>1, <1>3
    <2> QED
      BY <2>1, ShiftedStart, ZenonT(40)
  <1>4. entries = SubSeq(lg, start + 1, H - b)
    <2>1. /\ next > b => start = next - b
          /\ ~(next > b) => start = 0
      BY <1>3
    <2> HIDE DEF start
    <2> QED
      BY <1>1, <1>2, <2>1 DEF getLogEntries, b
  <1>5. lg \in Seq(LogEntry) /\ \A k \in 1 .. Len(lg) : lg[k].term \in Nat
    BY <1>2, VectorFields
  <1> HIDE DEF start
  <1>6. /\ SubSeq(lg, start + 1, H - b) \in Seq(LogEntry)
        /\ Len(SubSeq(lg, start + 1, H - b)) = H - first
        /\ \A k \in 1 .. H - first :
              SubSeq(lg, start + 1, H - b)[k] = lg[start + k]
    <2>1. H - b <= Len(lg)
      BY <1>2, <1>a
    <2>2. /\ SubSeq(lg, start + 1, H - b) \in Vector
          /\ Len(SubSeq(lg, start + 1, H - b)) =
                IF start + 1 <= H - b THEN H - b - (start + 1) + 1 ELSE 0
          /\ \A k \in 1 .. H - b - (start + 1) + 1 :
                SubSeq(lg, start + 1, H - b)[k] = lg[start + 1 + k - 1]
      BY <1>2, <1>a, <2>1, PartOfVector
    <2>3. ~(start + 1 <= H - b) => H - first = 0
      BY <1>a
    <2> QED
      BY <1>a, <2>2, <2>3, VectorFields
  <1>7. \A k \in 1 .. H - first : lg[start + k] = Entry(first + k - 1)
    BY <1>2, <1>a
  <1>8. getLogTerm(lg, snap, next - 1) \in Nat
    <2>1. \A k \in 0 .. Len(lg) - 1 : lg[k + 1].term \in Nat
      <3> TAKE k \in 0 .. Len(lg) - 1
      <3>1. k + 1 \in 1 .. Len(lg)
        BY <1>1, <1>2
      <3> QED
        BY <1>5, <3>1
    <2> QED
      BY <1>1, <2>1 DEF getLogTerm
  <1> QED
    BY <1>4, <1>6, <1>7, <1>8, <1>a, SMTT(30) DEF Vector, H, b, lg, first

\* The append loop never makes the vector longer than the history, wherever the
\* follower believes its vector to start.
LEMMA PushType ==
    ASSUME NEW lg \in Vector, NEW snap \in AnySnapshot, NEW entries \in Vector,
           entries # <<>>, entries[1].index + Len(entries) <= Len(History)
    PROVE  PushMissing(lg, snap, entries) \in Vector
  <1> DEFINE held == getLogSize(lg, snap) - entries[1].index
             skip == IF held > 0 THEN held ELSE 0
             new == SubSeq(entries, skip + 1, Len(entries))
  <1>1. /\ lg \in Seq(LogEntry) /\ Len(lg) \in Nat
        /\ entries \in Seq(LogEntry) /\ Len(entries) \in Nat \ {0}
        /\ Len(lg) <= Len(History)
    BY VectorFields, EmptySeq
  <1>2. entries[1].index \in Nat /\ getLogSize(lg, snap) \in Nat
        /\ getLogSize(lg, snap) >= Len(lg)
    <2>1. entries[1].index \in Index
      BY <1>1, VectorFields
    <2>2. baseIndex(snap) \in Nat
      BY AnySnapshotFields, HistoryFacts
    <2>3. entries[1].index \in Nat
      BY <2>1, HistoryFacts
    <2>4. getLogSize(lg, snap) = baseIndex(snap) + Len(lg)
      BY DEF getLogSize
    <2> DEFINE b == baseIndex(snap)
               n == Len(lg)
    <2>5. b \in Nat /\ n \in Nat => b + n \in Nat /\ b + n >= n
      OBVIOUS
    <2> QED
      BY <1>1, <2>2, <2>3, <2>4, <2>5
  <1>3. skip \in Nat /\ Len(History) \in Nat
    BY <1>2, HistoryFacts
  <1>4. new \in Seq(LogEntry)
        /\ Len(new) = IF skip + 1 <= Len(entries) THEN Len(entries) - skip ELSE 0
    <2>1. \A k \in skip + 1 .. Len(entries) : entries[k] \in LogEntry
      BY <1>1, <1>3, ElementOfSeq
    <2> HIDE DEF skip
    <2> QED
      BY <1>1, <1>3, <2>1, SubSeqProperties
  <1>5. Len(lg) + Len(new) <= Len(History)
    <2> DEFINE size == getLogSize(lg, snap)
               e == entries[1].index
    <2>1. size \in Nat /\ e \in Nat /\ Len(lg) <= size
      BY <1>2
    <2>2. Len(new) = 0 \/ Len(new) = Len(entries) - (IF size - e > 0 THEN size - e ELSE 0)
      BY <1>4
    <2> HIDE DEF new, size, e, skip
    <2> QED
      BY <1>1, <1>3, <2>1, <2>2 DEF e
  <1> HIDE DEF new
  <1>6. lg \o new \in Seq(LogEntry) /\ Len(lg \o new) = Len(lg) + Len(new)
    BY <1>1, <1>4, ConcatProperties, ZenonT(40)
  <1>7. PushMissing(lg, snap, entries) = lg \o new
    BY DEF PushMissing, new
  <1> QED
    BY <1>5, <1>6, <1>7 DEF Vector

LEMMA AppendBatchType ==
    ASSUME NEW lg \in Vector, NEW snap \in AnySnapshot, NEW entries \in Vector,
           NEW prev \in Int,
           entries # <<>> => entries[1].index + Len(entries) <= Len(History)
    PROVE  AppendBatch(lg, snap, prev, entries) \in Vector
  <1> DEFINE at == prev + 1 - baseIndex(snap)
  <1>1. CASE entries # <<>> /\ at \in 0 .. Len(lg) - 1
    <2>1. at \in Nat /\ at <= Len(lg)
      BY <1>1, VectorFields
    <2> HIDE DEF at
    <2>2. SubSeq(lg, 1, at) \in Vector
      BY <2>1, PartOfVector
    <2>3. PushMissing(SubSeq(lg, 1, at), snap, entries) \in Vector
      BY <1>1, <2>2, PushType
    <2> QED
      BY <1>1, <2>3 DEF AppendBatch, at
  <1>2. CASE ~(entries # <<>> /\ at \in 0 .. Len(lg) - 1)
    BY <1>2, PushType DEF AppendBatch
  <1> QED
    BY <1>1, <1>2

LEMMA TruncateType ==
    ASSUME NEW lg \in Vector, NEW snap \in AnySnapshot, NEW i \in Int
    PROVE  truncateLogSafe(lg, snap, i) \in Vector
  <1> DEFINE at == i - snap.lastIncludedIndex
  <1>1. Len(lg) \in Nat
    BY VectorFields
  <1>2. CASE at \in 1 .. Len(lg)
    <2>1. at + 1 \in Nat \ {0}
      BY <1>1, <1>2
    <2> HIDE DEF at
    <2>2. SubSeq(lg, at + 1, Len(lg)) \in Vector
      BY <1>1, <2>1, PartOfVector
    <2> QED
      BY <1>2, <2>2 DEF truncateLogSafe, at
  <1>3. CASE at \notin 1 .. Len(lg)
    BY <1>3 DEF truncateLogSafe
  <1> QED
    BY <1>2, <1>3

LEMMA WrittenType ==
    ASSUME NEW buffer \in Seq(Piece), NEW c \in Piece
    PROVE  /\ Written(buffer, c) \in Seq(Piece)
           /\ Len(Written(buffer, c)) = IF Len(buffer) < c.part THEN c.part
                                        ELSE Len(buffer)
           /\ \A k \in 1 .. Len(Written(buffer, c)) :
                 Written(buffer, c)[k] = IF k = c.part THEN c
                                         ELSE IF k <= Len(buffer) THEN buffer[k]
                                         ELSE Gap
  <1> DEFINE size == IF Len(buffer) < c.part THEN c.part ELSE Len(buffer)
             f(k) == IF k = c.part THEN c
                     ELSE IF k <= Len(buffer) THEN buffer[k] ELSE Gap
             w == [k \in 1 .. size |-> f(k)]
  <1>1. Len(buffer) \in Nat /\ c.part \in Nat /\ size \in Nat
    BY LenProperties DEF Piece
  <1>2. Gap \in Piece
    BY HistoryFacts DEF Gap, Piece
  <1>3. \A k \in 1 .. size : f(k) \in Piece
    <2> TAKE k \in 1 .. size
    <2>1. k <= Len(buffer) => buffer[k] \in Piece
      BY <1>1, ElementOfSeq
    <2> QED
      BY <1>2, <2>1
  <1>4. w \in Seq(Piece) /\ Len(w) = size /\ \A k \in 1 .. size : w[k] = f(k)
    <2> HIDE DEF size, f
    <2> QED
      BY <1>1, <1>3, IsASeq, LenProperties
  <1>5. Written(buffer, c) = w
    BY DEF Written
  <1> HIDE DEF w
  <1> QED
    BY <1>4, <1>5

-----------------------------------------------------------------------------
(* Calls: at most one of a sender's calls is awaited, and a chunk that is   *)
(* awaited is the one the sender's transfer is at.                         *)

Sending == {NoTransfer} \cup
    {t \in [snap : Taken, part : Nat \ {0}, term : Nat] :
        t.part <= Len(t.snap.parts)}

Carries(m, t) ==
    /\ t # NoTransfer
    /\ m.chunk = t.snap.parts[t.part]
    /\ m.done <=> t.part = Len(t.snap.parts)

PcWell(h) ==
    /\ h.pc = "replace" => h.snap.lastIncludedIndex \in Index
    /\ h.pc \in {"log", "stuck"} => h.msg.kind = "append"
    /\ h.pc # "sent" => h.msg.kind = "append" \/ h.msg.done

CallWell(h, t) ==
    /\ h.msg.kind = "append" => BatchFits(h.msg)
    /\ h.awaited /\ h.msg.kind = "snapshot" => Carries(h.msg, t)
    /\ PcWell(h)

CallsWell(hs, tr) ==
    /\ hs \subseteq Handler /\ tr \in [Sender -> Sending]
    /\ \A h \in hs : CallWell(h, tr[h.from])
    /\ \A g, h \in hs : g.awaited /\ h.awaited /\ g.from = h.from => g = h

LEMMA HandlerFields ==
    ASSUME NEW h \in Handler
    PROVE  /\ h.from \in Sender /\ h.from.leader \in Leader /\ h.awaited \in BOOLEAN
           /\ h.success \in BOOLEAN /\ h.snap \in AnySnapshot
           /\ h.msg \in Message /\ h.msg.term \in Nat
           /\ h.msg.kind \in {"snapshot", "append"}
           /\ h.msg.kind = "snapshot" => h.msg.chunk \in Piece /\ h.msg.done \in BOOLEAN
           /\ h.msg.kind = "append" => /\ h.msg.prevLogIndex \in Index \cup {-1}
                                       /\ h.msg.prevLogTerm \in Nat
                                       /\ h.msg.entries \in Vector
                                       /\ h.msg.leaderCommit \in Index
  <1>1. /\ h.from \in Sender /\ h.awaited \in BOOLEAN /\ h.msg \in Message
        /\ h.success \in BOOLEAN /\ h.snap \in AnySnapshot
    BY DEF Handler
  <1>2. h.from.leader \in Leader
    BY <1>1 DEF Leader
  <1> QED
    BY <1>1, <1>2 DEF Message

\* A handler goes on, or nobody waits for it any more.
LEMMA HandlerMoves ==
    ASSUME NEW h \in Handler, NEW b \in BOOLEAN, NEW snap \in AnySnapshot,
           NEW pc \in {"sent", "log", "save", "replace", "persist", "stuck"},
           NEW g \in {[h EXCEPT !.pc = pc], [h EXCEPT !.awaited = FALSE],
                      [h EXCEPT !.pc = pc, !.snap = snap],
                      [h EXCEPT !.pc = pc, !.success = b]}
    PROVE  /\ g \in Handler /\ g.from = h.from /\ g.msg = h.msg
           /\ g.awaited => h.awaited
  BY DEF Handler

\* One call is replaced by at most one other of its sender.
Replaces(N, h, tr2, tr) ==
    /\ tr2 \in [Sender -> Sending] /\ N \subseteq Handler
    /\ \A s \in Sender : s # h.from \/ ~h.awaited => tr2[s] = tr[s]
    /\ \A g \in N : /\ g.from = h.from
                    /\ g.awaited => h.awaited
                    /\ CallWell(g, tr2[g.from])
                    /\ \A f \in N : f = g

LEMMA CallReplaced ==
    ASSUME NEW hs, NEW tr, CallsWell(hs, tr), NEW h \in hs,
           NEW N, NEW tr2, Replaces(N, h, tr2, tr)
    PROVE  CallsWell((hs \ {h}) \cup N, tr2)
  <1> DEFINE hs2 == (hs \ {h}) \cup N
  <1>1. /\ hs \subseteq Handler
        /\ \A f \in hs : f.from \in Sender /\ CallWell(f, tr[f.from])
        /\ \A f, g \in hs : f.awaited /\ g.awaited /\ f.from = g.from => f = g
    BY HandlerFields DEF CallsWell
  <1>2. /\ tr2 \in [Sender -> Sending] /\ N \subseteq Handler
        /\ \A s \in Sender : s # h.from \/ ~h.awaited => tr2[s] = tr[s]
        /\ \A g \in N : g.from = h.from /\ CallWell(g, tr2[g.from])
        /\ \A g \in N : g.awaited => h.awaited
        /\ \A f, g \in N : f = g
    BY DEF Replaces
  <1>3. hs2 \subseteq Handler
    BY <1>1, <1>2
  <1>4. ASSUME NEW f \in hs \ {h} PROVE CallWell(f, tr2[f.from])
    <2>1. f.awaited => tr2[f.from] = tr[f.from]
      <3>1. ASSUME f.awaited, h.awaited PROVE f.from # h.from
        BY <1>1, <3>1
      <3> QED
        BY <1>1, <1>2, <3>1
    <2>2. CallWell(f, tr[f.from])
      BY <1>1
    <2> QED
      BY <2>1, <2>2 DEF CallWell
  <1>5. ASSUME NEW f \in hs2, NEW g \in hs2, f.awaited, g.awaited, f.from = g.from
        PROVE  f = g
    <2>1. ASSUME NEW e \in N, NEW d \in hs \ {h}, e.awaited, d.awaited,
                 e.from = d.from
          PROVE  FALSE
      <3>1. h.awaited /\ d.from = h.from
        BY <1>2, <2>1
      <3>2. d = h
        BY <1>1, <2>1, <3>1
      <3> QED
        BY <3>2
    <2>2. f \in N /\ g \in N => f = g
      BY <1>2
    <2>3. f \in hs \ {h} /\ g \in hs \ {h} => f = g
      BY <1>1, <1>5
    <2> QED
      BY <1>5, <2>1, <2>2, <2>3
  <1>6. \A f \in hs2 : CallWell(f, tr2[f.from])
    BY <1>2, <1>4
  <1> QED
    BY <1>2, <1>3, <1>5, <1>6 DEF CallsWell

LEMMA CallAdded ==
    ASSUME NEW hs, NEW tr, CallsWell(hs, tr), NEW g \in Handler,
           \A h \in hs : h.from = g.from => ~h.awaited,
           NEW tr2 \in [Sender -> Sending],
           \A s \in Sender : s # g.from => tr2[s] = tr[s],
           CallWell(g, tr2[g.from])
    PROVE  CallsWell(hs \cup {g}, tr2)
  <1> DEFINE hs2 == hs \cup {g}
  <1>1. /\ hs \subseteq Handler
        /\ \A f \in hs : f.from \in Sender /\ CallWell(f, tr[f.from])
        /\ \A e, f \in hs : e.awaited /\ f.awaited /\ e.from = f.from => e = f
    BY HandlerFields DEF CallsWell
  <1>2. hs2 \subseteq Handler
    BY <1>1
  <1>3. ASSUME NEW f \in hs2 PROVE CallWell(f, tr2[f.from])
    <2>1. CASE f = g
      BY <2>1
    <2>2. CASE f # g
      <3>1. f \in hs /\ (f.awaited => tr2[f.from] = tr[f.from])
        BY <1>1, <1>3, <2>2
      <3> QED
        BY <1>1, <3>1 DEF CallWell
    <2> QED
      BY <2>1, <2>2
  <1>4. ASSUME NEW e \in hs2, NEW f \in hs2, e.awaited, f.awaited, e.from = f.from
        PROVE  e = f
    BY <1>1, <1>4
  <1> QED
    BY <1>2, <1>3, <1>4 DEF CallsWell

\* What a transfer's chunk is.
LEMMA SendingFields ==
    ASSUME NEW t \in Sending
    PROVE  /\ t.part <= Len(t.snap.parts)
           /\ t # NoTransfer => /\ t.snap \in Taken /\ t.part \in Nat \ {0}
                                /\ t.part \in 1 .. Len(t.snap.parts)
                                /\ t.snap.parts[t.part] \in Piece
                                /\ t.snap.parts[t.part].part = t.part
  <1>1. CASE t = NoTransfer
    BY <1>1, NoSnapFields, EmptySeq
  <1>2. CASE t # NoTransfer
    <2>1. t.snap \in Taken /\ t.part \in Nat \ {0} /\ t.part <= Len(t.snap.parts)
      BY <1>2 DEF Sending
    <2>2. t.part \in 1 .. Len(t.snap.parts)
      BY <2>1, TakenFields
    <2> QED
      BY <2>1, <2>2, TakenFields
  <1> QED
    BY <1>1, <1>2

LeadersWell ==
    /\ leaderTerm \in [Leader -> Nat] /\ elected \in [Leader -> Nat]
    /\ leading \in [Leader -> BOOLEAN]
    /\ leaderSnapshot \in [Leader -> Taken]
    /\ nextIndex \in [Leader -> 0 .. Len(History)]

LEMMA SnapshotStarts ==
    ASSUME LeadersWell, NEW s \in Sender
    PROVE  /\ Begun(s) \in Sending /\ Begun(s) # NoTransfer /\ Begun(s).part = 1
           /\ Begun(s).snap = leaderSnapshot[s.leader]
           /\ Begun(s).term = elected[s.leader]
  <1> DEFINE snap == leaderSnapshot[s.leader]
  <1>1. snap \in Taken /\ elected[s.leader] \in Nat
    BY DEF LeadersWell, Leader
  <1>2. Len(snap.parts) \in Nat \ {0}
    BY <1>1, TakenFields
  <1>3. Begun(s) = [snap |-> snap, part |-> 1, term |-> elected[s.leader]]
    BY DEF Begun
  <1> HIDE DEF snap
  <1>4. Begun(s) \in Sending /\ Begun(s) # NoTransfer
    BY <1>1, <1>2, <1>3 DEF Sending, NoTransfer
  <1> QED
    BY <1>3, <1>4 DEF snap

\* The next chunk, when the last one was not.
LEMMA PartAfter ==
    ASSUME NEW t \in Sending, NEW m, Carries(m, t), ~m.done
    PROVE  /\ [t EXCEPT !.part = @ + 1] \in Sending
           /\ [t EXCEPT !.part = @ + 1] # NoTransfer
           /\ [t EXCEPT !.part = @ + 1].snap = t.snap
           /\ [t EXCEPT !.part = @ + 1].part = t.part + 1
           /\ [t EXCEPT !.part = @ + 1].term = t.term
  <1>1. t # NoTransfer /\ t.snap \in Taken /\ t.part \in Nat \ {0}
        /\ t.part <= Len(t.snap.parts) /\ t.part # Len(t.snap.parts)
    BY SendingFields DEF Carries
  <1>2. t \in [snap : Taken, part : Nat \ {0}, term : Nat]
    BY <1>1 DEF Sending
  <1> DEFINE t2 == [t EXCEPT !.part = @ + 1]
             n == Len(t.snap.parts)
  <1>3. n \in Nat
    BY <1>1, TakenFields
  <1>4. t.part + 1 \in Nat \ {0} /\ t.part + 1 <= n /\ t.part + 1 # 0
    BY <1>1, <1>3
  <1>5. t2 \in [snap : Taken, part : Nat \ {0}, term : Nat] /\ t2.snap = t.snap
        /\ t2.part = t.part + 1 /\ t2.term = t.term
    BY <1>2, <1>4
  <1>6. t2 # NoTransfer
    BY <1>4, <1>5, NoSnapFields
  <1> QED
    BY <1>4, <1>5, <1>6 DEF Sending

LEMMA ChunkCall ==
    ASSUME NEW s \in Sender, NEW t \in Sending, t # NoTransfer,
           leaderTerm \in [Leader -> Nat]
    PROVE  LET g == Chunk(s, t)
           IN  /\ g \in Handler /\ g.from = s /\ g.awaited /\ g.pc = "sent"
               /\ g.msg.kind = "snapshot" /\ g.msg.term = leaderTerm[s.leader]
               /\ g.msg.chunk = t.snap.parts[t.part]
               /\ Carries(g.msg, t) /\ CallWell(g, t)
  <1>1. s.leader \in Leader
    BY DEF Leader
  <1>2. leaderTerm[s.leader] \in Nat /\ t.snap.parts[t.part] \in Piece
    BY <1>1, SendingFields
  <1> DEFINE m == [kind |-> "snapshot", term |-> leaderTerm[s.leader],
                   chunk |-> t.snap.parts[t.part],
                   done |-> t.part = Len(t.snap.parts)]
  <1>3. m \in Message /\ m.kind = "snapshot" /\ m.term = leaderTerm[s.leader]
        /\ m.chunk = t.snap.parts[t.part] /\ (m.done <=> t.part = Len(t.snap.parts))
    BY <1>2 DEF Message
  <1>4. Chunk(s, t) = Call(s, m)
    BY DEF Chunk
  <1> HIDE DEF m
  <1>5. /\ Call(s, m) \in Handler /\ Call(s, m).from = s /\ Call(s, m).awaited
        /\ Call(s, m).pc = "sent" /\ Call(s, m).msg = m
    BY <1>3, NoSnapFields DEF Call, Handler
  <1> QED
    BY <1>3, <1>4, <1>5 DEF CallWell, Carries, PcWell

LEMMA AppendCall ==
    ASSUME NEW s \in Sender, NEW commit \in Index,
           leaderTerm \in [Leader -> Nat], leaderSnapshot \in [Leader -> Taken],
           nextIndex \in [Leader -> 0 .. Len(History)], NEW t
    PROVE  LET g == AppendEntries(s, commit)
           IN  /\ g \in Handler /\ g.from = s /\ g.awaited /\ g.pc = "sent"
               /\ g.msg.kind = "append" /\ CallWell(g, t)
  <1> DEFINE l == s.leader
             snap == leaderSnapshot[l]
             next == nextIndex[l]
             lg == LeaderLog(l)
             entries == getLogEntries(lg, snap, next, Len(History))
             b == baseIndex(snap)
             first == IF next > b THEN next ELSE b
             m == [kind |-> "append", term |-> leaderTerm[l],
                   prevLogIndex |-> next - 1,
                   prevLogTerm |-> getLogTerm(lg, snap, next - 1),
                   entries |-> entries, leaderCommit |-> commit]
  <1>1. l \in Leader
    BY DEF Leader
  <1>2. snap \in Taken /\ next \in 0 .. Len(History) /\ leaderTerm[l] \in Nat
    BY <1>1
  <1>3. lg = EntriesFrom(b, Len(History))
    BY DEF LeaderLog
  <1>4. /\ entries \in Vector /\ Len(entries) = Len(History) - first
        /\ \A k \in 1 .. Len(entries) : entries[k] = Entry(first + k - 1)
        /\ getLogTerm(lg, snap, next - 1) \in Nat
    <2> HIDE DEF snap, next, lg
    <2> QED
      BY <1>2, <1>3, BatchType DEF b
  <1>5. Len(History) \in Nat /\ b \in 0 .. Len(History) /\ b \in Int
    BY <1>2, TakenFields, AnySnapshotFields, HistoryFacts
  <1>6. next - 1 \in Index \cup {-1}
    <2>1. \A H \in Nat : \A n \in 0 .. H : n - 1 \in (0 .. H - 1) \cup {-1}
      OBVIOUS
    <2> QED
      BY <1>2, <1>5, <2>1 DEF Index
  <1>7. AppendEntries(s, commit) = Call(s, m)
    BY DEF AppendEntries
  <1>8. m \in Message /\ m.kind = "append" /\ m.prevLogIndex = next - 1
        /\ m.entries = entries
    <2> HIDE DEF entries, lg, next, snap, l
    <2>1. leaderTerm[l] \in Nat
      BY <1>2 DEF l
    <2> QED
      BY <1>4, <1>6, <2>1 DEF Message
  <1>9. BatchFits(m)
    <2> HIDE DEF entries, b, m, lg, next, snap
    <2>1. first \in 0 .. Len(History) /\ next <= first /\ next \in Int
      BY <1>2, <1>5
    <2>2. next - 1 + 1 + Len(entries) <= Len(History)
      BY <1>4, <1>5, <2>1
    <2>3. ASSUME entries # <<>>
          PROVE  entries[1].index + Len(entries) <= Len(History)
      <3> HIDE DEF first
      <3>1. Len(entries) \in Nat \ {0}
        BY <1>4, <2>3, VectorFields, EmptySeq
      <3>2. entries[1] = Entry(first + 1 - 1) /\ entries[1] \in LogEntry
        BY <1>4, <3>1, VectorFields
      <3>3. entries[1].index = first
        BY <2>1, <3>2 DEF Entry
      <3> QED
        BY <1>4, <1>5, <2>1, <3>3
    <2> QED
      BY <1>8, <2>2, <2>3 DEF BatchFits
  <1> HIDE DEF m
  <1>10. /\ Call(s, m) \in Handler /\ Call(s, m).from = s /\ Call(s, m).awaited
         /\ Call(s, m).pc = "sent" /\ Call(s, m).msg = m
    BY <1>8, NoSnapFields DEF Call, Handler
  <1> QED
    BY <1>7, <1>8, <1>9, <1>10 DEF CallWell, PcWell

-----------------------------------------------------------------------------
(* Type correctness.                                                       *)

MemoryWell ==
    /\ currentTerm \in Nat /\ log \in Vector /\ latestSnapshot \in AnySnapshot
    /\ commitIndex \in Index \cup {-1} /\ lastApplied \in Index
    /\ snapshotBuffer \in Seq(Piece)
DiskWell ==
    /\ metadata \in {Torn} \cup [term : 0 .. currentTerm, log : Vector]
    /\ snapFile \in {Torn} \cup AnySnapshot
    /\ up \in {"up", "down", "broken"}
CountsWell ==
    /\ {torn, astray, stale, compacted} \subseteq BOOLEAN
    /\ {lost, snapshots, elections, crashes} \subseteq Nat

TypeInv ==
    /\ LeadersWell /\ CallsWell(handlers, transfer)
    /\ MemoryWell /\ DiskWell /\ CountsWell

\* What an answer does to its sender.
NoNextCall(h) ==
    /\ handlers' = handlers \ {h}
    /\ \/ transfer' = transfer
       \/ h.awaited /\ transfer' = [transfer EXCEPT ![h.from] = NoTransfer]
    /\ astray' = astray
NextPart(h) == [transfer[h.from] EXCEPT !.part = @ + 1]
NextChunk(h) ==
    /\ h.awaited /\ h.msg.kind = "snapshot" /\ ~h.msg.done
    /\ transfer' = [transfer EXCEPT ![h.from] = NextPart(h)]
    /\ handlers' = (handlers \ {h}) \cup {Chunk(h.from, NextPart(h))}
    /\ astray' = (astray \/ GoesAstray(h.from, NextPart(h)))
    /\ UNCHANGED <<leaderTerm, leading>>
FirstChunk(h) ==
    /\ h.awaited /\ h.msg.kind = "append" /\ h.from.thread = "client"
    /\ transfer' = [transfer EXCEPT ![h.from] = Begun(h.from)]
    /\ handlers' = (handlers \ {h}) \cup {Chunk(h.from, Begun(h.from))}
    /\ astray' = (astray \/ GoesAstray(h.from, Begun(h.from)))
    /\ UNCHANGED <<leaderTerm, leading>>

LEMMA ReplyForms ==
    ASSUME LeadersWell, CallsWell(handlers, transfer), currentTerm \in Nat,
           NEW h \in handlers, NEW success \in BOOLEAN, Reply(h, success)
    PROVE  /\ NoNextCall(h) \/ (NextChunk(h) /\ success) \/ FirstChunk(h)
           /\ \/ UNCHANGED <<leaderTerm, leading>>
              \/ /\ currentTerm > leaderTerm[h.from.leader]
                 /\ leaderTerm' = [leaderTerm EXCEPT ![h.from.leader] = currentTerm]
                 /\ leading' = [leading EXCEPT ![h.from.leader] = FALSE]
           /\ nextIndex' \in [Leader -> 0 .. Len(History)]
           /\ UNCHANGED <<elected, elections, leaderSnapshot, snapshots, torn,
                          compacted>>
  <1> DEFINE s == h.from
             l == s.leader
  <1>1. /\ h \in Handler /\ s \in Sender /\ l \in Leader
        /\ transfer \in [Sender -> Sending] /\ CallWell(h, transfer[s])
    BY HandlerFields DEF CallsWell
  <1>2. /\ UNCHANGED <<elected, elections, leaderSnapshot, snapshots, torn, compacted>>
        /\ IF ~h.awaited
           THEN /\ handlers' = handlers \ {h}
                /\ UNCHANGED <<leaderTerm, leading, nextIndex, transfer, astray>>
           ELSE IF h.msg.kind = "snapshot" THEN ChunkAnswered(h, success)
           ELSE AppendAnswered(h, success)
    BY DEF Reply
  <1>3. nextIndex \in [Leader -> 0 .. Len(History)] /\ Len(History) \in Nat
    BY HistoryFacts DEF LeadersWell
  <1>4. CASE ~h.awaited
    <2>1. NoNextCall(h)
      BY <1>2, <1>4 DEF NoNextCall
    <2> QED
      BY <1>2, <1>3, <1>4, <2>1
  <1>5. CASE h.awaited /\ h.msg.kind = "snapshot"
    <2>1. ChunkAnswered(h, success)
      BY <1>2, <1>5
    <2>2. CASE success /\ ~h.msg.done
      <3>1. NextChunk(h) /\ UNCHANGED <<leaderTerm, leading, nextIndex>>
        BY <1>5, <2>1, <2>2 DEF ChunkAnswered, NextChunk, NextPart
      <3> QED
        BY <1>2, <1>3, <2>2, <3>1
    <2>3. CASE ~(success /\ ~h.msg.done)
      <3>1. /\ transfer' = [transfer EXCEPT ![s] = NoTransfer]
            /\ nextIndex' = [nextIndex EXCEPT ![l] =
                                IF success THEN AfterSnapshot(s) ELSE @]
            /\ handlers' = handlers \ {h}
            /\ UNCHANGED <<leaderTerm, leading, astray>>
        BY <2>1, <2>3 DEF ChunkAnswered
      <3>2. NoNextCall(h)
        BY <1>5, <3>1 DEF NoNextCall
      <3>3. AfterSnapshot(s) \in 0 .. Len(History)
        <4>1. transfer[s].snap \in Taken
          BY <1>1, <1>5, SendingFields DEF CallWell, Carries
        <4>2. transfer[s].snap.lastIncludedIndex \in 0 .. Len(History) - 1
          BY <4>1, TakenFields DEF Index
        <4> QED
          BY <1>3, <4>2 DEF AfterSnapshot
      <3>4. nextIndex' \in [Leader -> 0 .. Len(History)]
        BY <1>3, <3>1, <3>3
      <3> QED
        BY <1>2, <3>1, <3>2, <3>4
    <2> QED
      BY <2>2, <2>3
  <1>6. CASE h.awaited /\ h.msg.kind = "append"
    <2> DEFINE sent == Len(h.msg.entries)
               stopped == (s.thread = "heart" /\ ~leading[l]) \/ (success /\ sent = 0)
               after == IF success THEN h.msg.prevLogIndex + 1 + sent
                        ELSE IF nextIndex[l] > 0 THEN nextIndex[l] - 1
                        ELSE nextIndex[l]
               again == /\ ~success /\ s.thread = "client"
                        /\ nextIndex'[l] <= leaderSnapshot[l].lastIncludedIndex
    <2>1. AppendAnswered(h, success)
      BY <1>2, <1>6
    <2>2. CASE stopped
      <3>1. /\ handlers' = handlers \ {h} /\ astray' = astray
            /\ UNCHANGED <<leaderTerm, leading, nextIndex, transfer>>
        BY <2>1, <2>2 DEF AppendAnswered
      <3>2. NoNextCall(h)
        BY <3>1 DEF NoNextCall
      <3> QED
        BY <1>2, <1>3, <3>1, <3>2
    <2>3. CASE ~stopped /\ currentTerm > leaderTerm[l]
      <3>1. /\ leaderTerm' = [leaderTerm EXCEPT ![l] = currentTerm]
            /\ leading' = [leading EXCEPT ![l] = FALSE]
            /\ handlers' = handlers \ {h} /\ astray' = astray
            /\ UNCHANGED <<nextIndex, transfer>>
        BY <2>1, <2>3 DEF AppendAnswered
      <3>2. NoNextCall(h)
        BY <3>1 DEF NoNextCall
      <3> QED
        BY <1>2, <1>3, <2>3, <3>1, <3>2
    <2>4. CASE ~stopped /\ ~(currentTerm > leaderTerm[l])
      <3>1. /\ nextIndex' = [nextIndex EXCEPT ![l] = after]
            /\ IF again
               THEN /\ transfer' = [transfer EXCEPT ![s] = Begun(s)]
                    /\ handlers' = (handlers \ {h}) \cup {Chunk(s, Begun(s))}
                    /\ astray' = (astray \/ GoesAstray(s, Begun(s)))
               ELSE handlers' = handlers \ {h} /\ UNCHANGED <<transfer, astray>>
            /\ UNCHANGED <<leaderTerm, leading>>
        BY <2>1, <2>4 DEF AppendAnswered
      <3>2. NoNextCall(h) \/ FirstChunk(h)
        BY <1>6, <3>1 DEF NoNextCall, FirstChunk
      <3>3. after \in 0 .. Len(History)
        <4>1. h.msg.prevLogIndex \in Int /\ h.msg.prevLogIndex + 1 \in Nat
              /\ sent \in Nat
          <5>1. h.msg.prevLogIndex \in Index \cup {-1} /\ h.msg.entries \in Vector
            BY <1>1, <1>6, HandlerFields
          <5>2. sent \in Nat
            BY <5>1, VectorFields
          <5>3. h.msg.prevLogIndex \in Nat \cup {-1}
            BY <5>1, HistoryFacts
          <5> QED
            BY <5>2, <5>3
        <4>2. h.msg.prevLogIndex + 1 + sent <= Len(History)
          BY <1>1, <1>6 DEF CallWell, BatchFits
        <4>3. nextIndex[l] \in 0 .. Len(History)
          BY <1>1, <1>3
        <4> DEFINE p == h.msg.prevLogIndex
        <4> HIDE DEF sent, s, l, p
        <4>4. success => after \in 0 .. Len(History)
          BY <1>3, <4>1, <4>2 DEF p
        <4>5. ~success => after \in 0 .. Len(History)
          BY <1>3, <4>3
        <4> QED
          BY <4>4, <4>5
      <3>4. nextIndex' \in [Leader -> 0 .. Len(History)]
        <4> HIDE DEF after
        <4> QED
          BY <1>3, <3>1, <3>3
      <3> QED
        BY <1>2, <3>1, <3>2, <3>4
    <2> QED
      BY <2>2, <2>3, <2>4
  <1> QED
    BY <1>1, <1>4, <1>5, <1>6, HandlerFields

LEMMA ReplyType ==
    ASSUME LeadersWell, CallsWell(handlers, transfer), MemoryWell, CountsWell,
           NEW h \in handlers, NEW success \in BOOLEAN, Reply(h, success)
    PROVE  /\ LeadersWell' /\ CallsWell(handlers', transfer')
           /\ {astray', stale'} \subseteq BOOLEAN
           /\ UNCHANGED <<elections, snapshots, torn, compacted>>
  <1>1. /\ h \in Handler /\ h.from \in Sender /\ h.from.leader \in Leader
        /\ transfer \in [Sender -> Sending] /\ CallWell(h, transfer[h.from])
    BY HandlerFields DEF CallsWell
  <1>2. /\ NoNextCall(h) \/ NextChunk(h) \/ FirstChunk(h)
        /\ \/ UNCHANGED <<leaderTerm, leading>>
           \/ /\ leaderTerm' = [leaderTerm EXCEPT ![h.from.leader] = currentTerm]
              /\ leading' = [leading EXCEPT ![h.from.leader] = FALSE]
        /\ nextIndex' \in [Leader -> 0 .. Len(History)]
        /\ UNCHANGED <<elected, elections, leaderSnapshot, snapshots, torn, compacted>>
    BY ReplyForms DEF MemoryWell
  <1>3. LeadersWell'
    <2>1. leaderTerm' \in [Leader -> Nat] /\ leading' \in [Leader -> BOOLEAN]
      BY <1>1, <1>2 DEF LeadersWell, MemoryWell
    <2> QED
      BY <1>2, <2>1 DEF LeadersWell
  <1>4. leaderTerm \in [Leader -> Nat] /\ leaderSnapshot \in [Leader -> Taken]
    BY DEF LeadersWell
  <1>5. stale' \in BOOLEAN
    BY DEF Reply
  <1>6. ASSUME NEW t \in Sending, t # NoTransfer, h.awaited,
               transfer' = [transfer EXCEPT ![h.from] = t],
               handlers' = (handlers \ {h}) \cup {Chunk(h.from, t)}
        PROVE  CallsWell(handlers', transfer')
    <2> DEFINE g == Chunk(h.from, t)
    <2>1. g \in Handler /\ g.from = h.from /\ CallWell(g, t)
      BY <1>1, <1>4, <1>6, ChunkCall
    <2>2. /\ transfer' \in [Sender -> Sending] /\ transfer'[h.from] = t
          /\ \A s \in Sender : s # h.from => transfer'[s] = transfer[s]
      BY <1>1, <1>6
    <2>3. Replaces({g}, h, transfer', transfer)
      <3> HIDE DEF g
      <3> QED
        BY <1>6, <2>1, <2>2 DEF Replaces
    <2> HIDE DEF g
    <2>4. CallsWell((handlers \ {h}) \cup {g}, transfer')
      BY <2>3, CallReplaced
    <2> QED
      BY <1>6, <2>4 DEF g
  <1>7. CASE NoNextCall(h)
    <2>1. /\ transfer' \in [Sender -> Sending]
          /\ \A s \in Sender : s # h.from \/ ~h.awaited => transfer'[s] = transfer[s]
      <3>1. NoTransfer \in Sending
        BY DEF Sending
      <3> QED
        BY <1>1, <1>7, <3>1 DEF NoNextCall
    <2>2. CallsWell((handlers \ {h}) \cup {}, transfer')
      <3>1. Replaces({}, h, transfer', transfer)
        BY <2>1 DEF Replaces
      <3> QED
        BY <3>1, CallReplaced
    <2>3. (handlers \ {h}) \cup {} = handlers'
      BY <1>7 DEF NoNextCall
    <2>4. astray' = astray
      BY <1>7 DEF NoNextCall
    <2> QED
      BY <1>2, <1>3, <1>5, <2>2, <2>3, <2>4 DEF CountsWell
  <1>8. CASE NextChunk(h)
    <2>1. Carries(h.msg, transfer[h.from]) /\ transfer[h.from] \in Sending /\ ~h.msg.done
      BY <1>1, <1>8 DEF CallWell, NextChunk
    <2>2. NextPart(h) \in Sending /\ NextPart(h) # NoTransfer
      BY <2>1, PartAfter DEF NextPart
    <2>3. CallsWell(handlers', transfer')
      BY <1>6, <1>8, <2>2 DEF NextChunk
    <2>4. astray' \in BOOLEAN
      BY <1>8 DEF NextChunk, CountsWell
    <2> QED
      BY <1>2, <1>3, <1>5, <2>3, <2>4
  <1>9. CASE FirstChunk(h)
    <2>1. Begun(h.from) \in Sending /\ Begun(h.from) # NoTransfer
      BY <1>1, SnapshotStarts
    <2>2. CallsWell(handlers', transfer')
      BY <1>6, <1>9, <2>1 DEF FirstChunk
    <2>3. astray' \in BOOLEAN
      BY <1>9 DEF FirstChunk, CountsWell
    <2> QED
      BY <1>2, <1>3, <1>5, <2>2, <2>3
  <1> QED
    BY <1>2, <1>7, <1>8, <1>9

\* A handler that goes on without an answer.
LEMMA MoveType ==
    ASSUME CallsWell(handlers, transfer), NEW h \in handlers, NEW g \in Handler,
           g.from = h.from, g.msg = h.msg, g.awaited => h.awaited,
           PcWell(g)
    PROVE  CallsWell((handlers \ {h}) \cup {g}, transfer)
  <1>1. /\ transfer \in [Sender -> Sending] /\ CallWell(h, transfer[h.from])
    BY HandlerFields DEF CallsWell
  <1>2. Replaces({g}, h, transfer, transfer)
    BY <1>1 DEF Replaces, CallWell
  <1> QED
    BY <1>2, CallReplaced

LEMMA TypeInvOf ==
    ASSUME TypeInv
    PROVE  TypeOK
  <1>1. transfer \in [Sender -> Sending] /\ handlers \subseteq Handler
    BY DEF TypeInv, CallsWell
  <1>2. transfer \in [Sender -> {NoTransfer} \cup [snap : Taken, part : Nat \ {0}, term : Nat]]
    BY <1>1 DEF Sending
  <1>3. \A s \in Sender : transfer[s].part <= Len(transfer[s].snap.parts)
    BY <1>1, SendingFields
  <1> QED
    BY <1>1, <1>2, <1>3
       DEF TypeInv, TypeOK, LeadersWell, MemoryWell, DiskWell, CountsWell

LEMMA TypeInit ==
    Init => TypeInv
  <1> SUFFICES ASSUME Init PROVE TypeInv
    OBVIOUS
  <1> USE DEF Init
  <1>1. LeadersWell
    <2>1. Len(History) \in 0 .. Len(History) /\ History[Len(History)] \in Nat
      BY HistoryFacts
    <2>2. \A l \in Leader : Snapshot(l, InitSnapshot) \in Taken
      BY HistoryAssumption, SnapshotFields
    <2> QED
      BY <2>1, <2>2 DEF LeadersWell
  <1>2. CallsWell(handlers, transfer)
    <2>1. handlers = {} /\ transfer = [s \in Sender |-> NoTransfer]
      OBVIOUS
    <2>2. NoTransfer \in Sending
      BY DEF Sending
    <2> HIDE DEF Init
    <2>3. transfer \in [Sender -> Sending]
      BY <2>1, <2>2
    <2>4. handlers \subseteq Handler /\ \A h \in handlers : FALSE
      BY <2>1
    <2> QED
      BY <2>3, <2>4 DEF CallsWell
  <1>3. log \in Vector
    <2>1. 0 \in 0 .. Len(History) /\ InitSize \in 0 .. Len(History) /\ 0 <= InitSize
      BY HistoryFacts, HistoryAssumption
    <2> QED
      BY <2>1, EntriesFromType
  <1>4. MemoryWell
    <2>1. History[Len(History)] \in Nat /\ 0 \in Index
      BY HistoryFacts
    <2>2. <<>> \in Seq(Piece)
      BY EmptySeq
    <2> QED
      BY <1>3, <2>1, <2>2, NoSnapFields DEF MemoryWell
  <1>5. DiskWell
    <2>1. currentTerm \in 0 .. currentTerm
      BY <1>4 DEF MemoryWell
    <2> QED
      BY <1>3, <2>1, NoSnapFields DEF DiskWell, File
  <1>6. CountsWell
    <2>1. /\ torn = FALSE /\ astray = FALSE /\ stale = FALSE /\ compacted = FALSE
          /\ lost = 0 /\ snapshots = 0 /\ elections = 0 /\ crashes = 0
      BY Zenon
    <2> HIDE DEF Init
    <2>2. {torn, astray, stale, compacted} \subseteq BOOLEAN
      BY <2>1, Zenon
    <2> QED
      BY <2>1, <2>2 DEF CountsWell
  <1> QED
    BY <1>1, <1>2, <1>4, <1>5, <1>6 DEF TypeInv

\* The follower hears of a term.
LEMMA HearTermType ==
    ASSUME MemoryWell, DiskWell, NEW t \in Nat, HearTerm(t), log' = log
    PROVE  /\ currentTerm' \in Nat /\ currentTerm' >= currentTerm
           /\ metadata' \in {Torn} \cup [term : 0 .. currentTerm', log : Vector]
  <1>1. currentTerm' \in Nat /\ currentTerm' >= currentTerm
        /\ (t > currentTerm => currentTerm' = t)
        /\ (~(t > currentTerm) => currentTerm' = currentTerm)
    BY DEF HearTerm, MemoryWell
  <1>2. CASE t > currentTerm
    <2>1. t \in 0 .. currentTerm'
      BY <1>1, <1>2
    <2>2. metadata' = [term |-> t, log |-> log] /\ log \in Vector
      BY <1>2 DEF HearTerm, MemoryWell
    <2> QED
      BY <1>1, <2>1, <2>2
  <1>3. CASE ~(t > currentTerm)
    BY <1>1, <1>3 DEF HearTerm, DiskWell
  <1> QED
    BY <1>1, <1>2, <1>3

LEMMA FileType ==
    ASSUME currentTerm \in Nat, NEW lg \in Vector
    PROVE  [term |-> currentTerm, log |-> lg] \in [term : 0 .. currentTerm, log : Vector]
  <1>1. currentTerm \in 0 .. currentTerm
    OBVIOUS
  <1> QED
    BY <1>1

LEMMA RoundType ==
    ASSUME TypeInv, NEW s \in Sender, Round(s)
    PROVE  TypeInv'
  <1> DEFINE l == s.leader
             t == Begun(s)
  <1>1. /\ LeadersWell /\ CallsWell(handlers, transfer) /\ l \in Leader
        /\ transfer \in [Sender -> Sending] /\ MemoryWell /\ DiskWell /\ CountsWell
    BY DEF TypeInv, CallsWell, Leader
  <1>2. leaderTerm \in [Leader -> Nat] /\ leaderSnapshot \in [Leader -> Taken]
        /\ nextIndex \in [Leader -> 0 .. Len(History)]
    BY <1>1 DEF LeadersWell
  <1>3. /\ \A h \in handlers : h.from = s => ~h.awaited
        /\ UNCHANGED <<electionVars, leaderSnapshot, nextIndex, snapshots, memory,
                       disk, up, history, lost, crashes>>
    BY DEF Round
  <1>4. CallsWell(handlers', transfer')
    <2>1. CASE s.thread = "heart" /\ NeedsSnapshot(l)
      <3> DEFINE g == Chunk(s, t)
      <3>1. transfer' = [transfer EXCEPT ![s] = t] /\ handlers' = handlers \cup {g}
        BY <2>1 DEF Round
      <3>2. t \in Sending /\ t # NoTransfer
        BY <1>1, <1>2, SnapshotStarts
      <3> HIDE DEF t
      <3>3. g \in Handler /\ g.from = s /\ CallWell(g, t)
        BY <1>2, <3>2, ChunkCall
      <3>4. /\ transfer' \in [Sender -> Sending] /\ transfer'[s] = t
            /\ \A r \in Sender : r # s => transfer'[r] = transfer[r]
        BY <1>1, <3>1, <3>2
      <3> HIDE DEF g
      <3>5. /\ \A h \in handlers : h.from = g.from => ~h.awaited
            /\ \A r \in Sender : r # g.from => transfer'[r] = transfer[r]
            /\ CallWell(g, transfer'[g.from])
        BY <1>3, <3>3, <3>4
      <3>6. CallsWell(handlers \cup {g}, transfer')
        BY <1>1, <3>3, <3>4, <3>5, CallAdded
      <3> QED
        BY <3>1, <3>6
    <2>2. CASE ~(s.thread = "heart" /\ NeedsSnapshot(l))
      <3>1. PICK commit \in leaderSnapshot[l].lastIncludedIndex .. Len(History) - 1 :
                handlers' = handlers \cup {AppendEntries(s, commit)}
        BY <2>2 DEF Round
      <3>2. transfer' = transfer
        BY <2>2 DEF Round
      <3>3. commit \in Index
        <4>1. leaderSnapshot[l].lastIncludedIndex \in Nat /\ Len(History) \in Nat
          BY <1>1, <1>2, TakenFields, HistoryFacts
        <4> QED
          BY <4>1 DEF Index
      <3> DEFINE g == AppendEntries(s, commit)
      <3>4. g \in Handler /\ g.from = s /\ CallWell(g, transfer[s])
        BY <1>2, <3>3, AppendCall
      <3> HIDE DEF g
      <3>5. CallsWell(handlers \cup {g}, transfer)
        BY <1>1, <1>3, <3>4, CallAdded
      <3> QED
        BY <3>1, <3>2, <3>5 DEF g
    <2> QED
      BY <2>1, <2>2
  <1> QED
    BY <1>1, <1>3, <1>4
       DEF TypeInv, LeadersWell, MemoryWell, DiskWell, CountsWell, electionVars,
           memory, disk, history

LEMMA CallTimesOutType ==
    ASSUME TypeInv, NEW h \in handlers, CallTimesOut(h)
    PROVE  TypeInv'
  <1>1. /\ LeadersWell /\ CallsWell(handlers, transfer) /\ h \in Handler
        /\ h.from \in Sender /\ transfer \in [Sender -> Sending]
        /\ MemoryWell /\ DiskWell /\ CountsWell
    BY HandlerFields DEF TypeInv, CallsWell
  <1>2. /\ h.awaited /\ lost' = lost + 1
        /\ transfer' = [transfer EXCEPT ![h.from] = NoTransfer]
        /\ UNCHANGED <<electionVars, leaderSnapshot, nextIndex, snapshots, memory,
                       disk, up, history, crashes>>
    BY DEF CallTimesOut
  <1> DEFINE g == [h EXCEPT !.awaited = FALSE]
  <1>3. /\ g \in Handler /\ g.from = h.from /\ g.msg = h.msg /\ g.awaited = FALSE
        /\ g.pc = h.pc /\ g.snap = h.snap
    BY <1>1 DEF Handler
  <1>4. PICK N \in {{}, {g}} : handlers' = (handlers \ {h}) \cup N
    <2>1. \/ handlers' = handlers \ {h}
          \/ handlers' = (handlers \ {h}) \cup {g}
      BY DEF CallTimesOut
    <2> HIDE DEF g
    <2>2. (handlers \ {h}) \cup {} = handlers \ {h}
      OBVIOUS
    <2> QED
      BY <2>1, <2>2
  <1>5. Replaces(N, h, transfer', transfer)
    <2>1. /\ transfer' \in [Sender -> Sending]
          /\ \A s \in Sender : s # h.from \/ ~h.awaited => transfer'[s] = transfer[s]
      <3>1. NoTransfer \in Sending
        BY DEF Sending
      <3> QED
        BY <1>1, <1>2, <3>1
    <2>2. CallWell(g, transfer'[g.from])
      <3>1. CallWell(h, transfer[h.from])
        BY <1>1 DEF CallsWell
      <3> QED
        BY <1>3, <3>1 DEF CallWell, PcWell
    <2> HIDE DEF g
    <2> QED
      BY <1>3, <1>4, <2>1, <2>2 DEF Replaces
  <1>6. CallsWell(handlers', transfer')
    BY <1>1, <1>4, <1>5, CallReplaced
  <1>7. LeadersWell' /\ MemoryWell' /\ DiskWell'
    BY <1>1, <1>2 DEF LeadersWell, MemoryWell, DiskWell, electionVars, memory, disk
  <1>8. CountsWell'
    BY <1>1, <1>2 DEF CountsWell, electionVars, history
  <1> QED
    BY <1>6, <1>7, <1>8 DEF TypeInv

LEMMA LeaderStepType ==
    ASSUME TypeInv, NEW l \in Leader,
           \/ Elect(l) \/ Deposed(l)
           \/ \E i \in Index : LeaderSnapshot(l, i)
    PROVE  TypeInv'
  <1>1. /\ LeadersWell /\ CallsWell(handlers, transfer)
        /\ MemoryWell /\ DiskWell /\ CountsWell
    BY DEF TypeInv
  <1>2. Len(History) \in Nat
    BY HistoryFacts
  <1>3. CASE Elect(l)
    <2>1. PICK t \in {currentTerm} \cup {leaderTerm[m] : m \in Leader} :
            /\ leaderTerm' = [leaderTerm EXCEPT ![l] = t + 1]
            /\ elected' = [elected EXCEPT ![l] = t + 1]
      BY <1>3 DEF Elect
    <2>2. t + 1 \in Nat
      BY <1>1 DEF LeadersWell, MemoryWell
    <2>3. /\ leading' = [leading EXCEPT ![l] = TRUE]
          /\ nextIndex' = [nextIndex EXCEPT ![l] = Len(History)]
          /\ UNCHANGED <<leaderSnapshot, transfer, snapshots, handlers, memory, disk,
                         up, history, lost, crashes>>
          /\ elections' \in {elections, elections + 1}
      BY <1>3 DEF Elect
    <2>4. LeadersWell'
      <3>1. Len(History) \in 0 .. Len(History)
        BY <1>2
      <3> QED
        BY <1>1, <2>1, <2>2, <2>3, <3>1 DEF LeadersWell
    <2>5. CallsWell(handlers', transfer') /\ MemoryWell' /\ DiskWell' /\ CountsWell'
      BY <1>1, <2>3 DEF MemoryWell, DiskWell, CountsWell, memory, disk, history
    <2> QED
      BY <2>4, <2>5 DEF TypeInv
  <1>4. CASE Deposed(l)
    <2>1. PICK m \in Leader : leaderTerm' = [leaderTerm EXCEPT ![l] = elected[m]]
      BY <1>4 DEF Deposed
    <2>2. /\ leading' = [leading EXCEPT ![l] = FALSE]
          /\ UNCHANGED <<elected, elections, leaderSnapshot, nextIndex, transfer,
                         snapshots, handlers, memory, disk, up, history, lost, crashes>>
      BY <1>4 DEF Deposed
    <2>3. LeadersWell'
      BY <1>1, <2>1, <2>2 DEF LeadersWell
    <2>4. CallsWell(handlers', transfer') /\ MemoryWell' /\ DiskWell' /\ CountsWell'
      BY <1>1, <2>2 DEF MemoryWell, DiskWell, CountsWell, memory, disk, history
    <2> QED
      BY <2>3, <2>4 DEF TypeInv
  <1>5. CASE \E i \in Index : LeaderSnapshot(l, i)
    <2>1. PICK i \in Index : LeaderSnapshot(l, i)
      BY <1>5
    <2>2. /\ snapshots' = snapshots + 1
          /\ leaderSnapshot' = [leaderSnapshot EXCEPT ![l] = Snapshot(l, i)]
          /\ nextIndex' = [nextIndex EXCEPT ![l] = IF @ <= i THEN i + 1 ELSE @]
          /\ UNCHANGED <<electionVars, transfer, handlers, memory, disk, up, history,
                         lost, crashes>>
      BY <2>1 DEF LeaderSnapshot
    <2>3. Snapshot(l, i) \in Taken /\ i + 1 \in 0 .. Len(History)
      BY <1>2, SnapshotFields DEF Index
    <2>4. LeadersWell'
      <3>1. leaderSnapshot' \in [Leader -> Taken]
        BY <1>1, <2>2, <2>3 DEF LeadersWell
      <3>2. nextIndex' \in [Leader -> 0 .. Len(History)]
        BY <1>1, <2>2, <2>3 DEF LeadersWell
      <3> QED
        BY <1>1, <2>2, <3>1, <3>2 DEF LeadersWell, electionVars
    <2>5. CallsWell(handlers', transfer') /\ MemoryWell' /\ DiskWell' /\ CountsWell'
      BY <1>1, <2>2
         DEF MemoryWell, DiskWell, CountsWell, memory, disk, history, electionVars
    <2> QED
      BY <2>4, <2>5 DEF TypeInv
  <1> QED
    BY <1>3, <1>4, <1>5

LEMMA RefuseType ==
    ASSUME TypeInv, NEW h \in handlers, Refuse(h)
    PROVE  TypeInv'
  <1>1. /\ LeadersWell /\ CallsWell(handlers, transfer)
        /\ MemoryWell /\ DiskWell /\ CountsWell
    BY DEF TypeInv
  <1>2. Reply(h, FALSE) /\ UNCHANGED <<memory, disk, up, lost, crashes>>
    BY DEF Refuse
  <1>3. /\ LeadersWell' /\ CallsWell(handlers', transfer')
        /\ {astray', stale'} \subseteq BOOLEAN
        /\ UNCHANGED <<elections, snapshots, torn, compacted>>
    BY <1>1, <1>2, ReplyType
  <1>4. MemoryWell' /\ DiskWell' /\ CountsWell'
    BY <1>1, <1>2, <1>3 DEF MemoryWell, DiskWell, CountsWell, memory, disk
  <1> QED
    BY <1>3, <1>4 DEF TypeInv

\* A step of a handler that is not its last one: Go, or with a field more.
LEMMA GoType ==
    ASSUME TypeInv, NEW h \in handlers, NEW g \in Handler,
           g.from = h.from, g.msg = h.msg, g.awaited => h.awaited,
           PcWell(g),
           handlers' = (handlers \ {h}) \cup {g}, UNCHANGED leaderVars
    PROVE  LeadersWell' /\ CallsWell(handlers', transfer')
           /\ snapshots' = snapshots /\ elections' = elections
  <1>1. LeadersWell /\ CallsWell(handlers, transfer)
    BY DEF TypeInv
  <1>2. CallsWell((handlers \ {h}) \cup {g}, transfer)
    BY <1>1, MoveType
  <1>3. /\ UNCHANGED <<leaderTerm, elected, leading, leaderSnapshot, nextIndex>>
        /\ transfer' = transfer /\ snapshots' = snapshots /\ elections' = elections
    BY DEF leaderVars, electionVars
  <1>4. LeadersWell'
    BY <1>1, <1>3 DEF LeadersWell
  <1> QED
    BY <1>2, <1>3, <1>4

LEMMA GoFields ==
    ASSUME NEW h \in Handler,
           NEW pc \in {"sent", "log", "save", "replace", "persist", "stuck"}
    PROVE  LET g == [h EXCEPT !.pc = pc]
           IN  /\ g \in Handler /\ g.from = h.from /\ g.msg = h.msg /\ g.pc = pc
               /\ g.awaited = h.awaited /\ g.snap = h.snap /\ g.success = h.success
  BY DEF Handler

LEMMA GoWell ==
    ASSUME NEW h \in Handler, PcWell(h), NEW pc \in {"save", "persist", "stuck"},
           pc = "stuck" => h.msg.kind = "append",
           h.pc = "sent" => h.msg.kind = "append" \/ h.msg.done
    PROVE  PcWell([h EXCEPT !.pc = pc])
  <1> DEFINE g == [h EXCEPT !.pc = pc]
  <1>1. g.msg = h.msg /\ g.pc = pc
    BY GoFields
  <1> HIDE DEF g
  <1>2. PcWell(g)
    BY <1>1 DEF PcWell
  <1> QED
    BY <1>2 DEF g

LEMMA HandlerIn ==
    ASSUME TypeInv, NEW h \in handlers
    PROVE  h \in Handler /\ PcWell(h) /\ CallWell(h, transfer[h.from])
  BY DEF TypeInv, CallsWell, CallWell

LEMMA ReceiveChunkType ==
    ASSUME TypeInv, NEW h \in handlers, ReceiveChunk(h)
    PROVE  TypeInv'
  <1> DEFINE c == h.msg.chunk
  <1>1. /\ LeadersWell /\ CallsWell(handlers, transfer) /\ h \in Handler
        /\ PcWell(h) /\ MemoryWell /\ DiskWell /\ CountsWell
    BY HandlerIn DEF TypeInv
  <1>2. /\ HearTerm(h.msg.term) /\ h.msg.kind = "snapshot"
        /\ snapshotBuffer' = Written(BufferFor(c), c)
        /\ IF h.msg.done THEN Go(h, "save") /\ KeepLeaders ELSE Reply(h, TRUE)
        /\ UNCHANGED <<log, latestSnapshot, commitIndex, lastApplied, snapFile, up,
                       lost, crashes>>
    BY DEF ReceiveChunk
  <1>3. c \in Piece /\ h.msg.term \in Nat
    BY <1>1, <1>2, HandlerFields
  <1>4. snapshotBuffer' \in Seq(Piece)
    <2>1. BufferFor(c) \in Seq(Piece)
      BY <1>1, EmptySeq DEF BufferFor, MemoryWell
    <2> QED
      BY <1>2, <1>3, <2>1, WrittenType
  <1>5. MemoryWell' /\ DiskWell'
    <2>1. /\ currentTerm' \in Nat
          /\ metadata' \in {Torn} \cup [term : 0 .. currentTerm', log : Vector]
      BY <1>1, <1>2, <1>3, HearTermType
    <2> QED
      BY <1>1, <1>2, <1>4, <2>1 DEF MemoryWell, DiskWell
  <1>6. CASE h.msg.done
    <2>1. Go(h, "save") /\ KeepLeaders
      BY <1>2, <1>6
    <2> DEFINE g == [h EXCEPT !.pc = "save"]
    <2>2. /\ g \in Handler /\ g.from = h.from /\ g.msg = h.msg
          /\ (g.awaited => h.awaited) /\ PcWell(g)
      BY <1>1, <1>6, GoFields, GoWell
    <2>3. handlers' = (handlers \ {h}) \cup {g} /\ UNCHANGED leaderVars
          /\ UNCHANGED history
      BY <2>1 DEF Go, KeepLeaders
    <2> HIDE DEF g
    <2>4. /\ LeadersWell' /\ CallsWell(handlers', transfer')
          /\ snapshots' = snapshots /\ elections' = elections
      BY <2>2, <2>3, GoType
    <2>5. CountsWell'
      BY <1>1, <1>2, <2>3, <2>4 DEF CountsWell, history
    <2> QED
      BY <1>5, <2>4, <2>5 DEF TypeInv
  <1>7. CASE ~h.msg.done
    <2>1. /\ LeadersWell' /\ CallsWell(handlers', transfer')
          /\ {astray', stale'} \subseteq BOOLEAN
          /\ UNCHANGED <<elections, snapshots, torn, compacted>>
      BY <1>1, <1>2, <1>7, ReplyType
    <2>2. CountsWell'
      BY <1>1, <1>2, <2>1 DEF CountsWell
    <2> QED
      BY <1>5, <2>1, <2>2 DEF TypeInv
  <1> QED
    BY <1>6, <1>7

\* Whatever a buffer is taken for is of a snapshot's form.
LEMMA DeserializedType ==
    ASSUME NEW buffer \in Seq(Piece), NEW snap \in Deserialized(buffer)
    PROVE  /\ snap \in AnySnapshot /\ snap # NoSnap /\ snap.parts = buffer
           /\ snap.lastIncludedIndex \in Index
           /\ snap.lastIncludedTerm = History[snap.lastIncludedIndex + 1]
           /\ buffer # <<>> => snap.lastIncludedIndex = buffer[1].index
  <1>1. PICK i \in (IF buffer = <<>> THEN Index ELSE {buffer[1].index}) :
          snap = [lastIncludedIndex |-> i, lastIncludedTerm |-> History[i + 1],
                  parts |-> buffer]
    BY DEF Deserialized
  <1>2. i \in Index
    <2>1. CASE buffer # <<>>
      <3>1. Len(buffer) \in Nat \ {0}
        BY <2>1, EmptySeq, LenProperties
      <3>2. buffer[1] \in Piece
        BY <3>1, ElementOfSeq
      <3> QED
        BY <1>1, <2>1, <3>2 DEF Piece
    <2> QED
      BY <1>1, <2>1
  <1>3. History[i + 1] \in Nat /\ i \in Nat
    BY <1>2, HistoryFacts
  <1>4. snap \in AnySnapshot
    BY <1>1, <1>2, <1>3 DEF AnySnapshot
  <1>5. snap # NoSnap
    BY <1>1, <1>3, NoSnapFields
  <1> QED
    BY <1>1, <1>2, <1>4, <1>5

LEMMA SaveSnapshotType ==
    ASSUME TypeInv, NEW h \in handlers, SaveSnapshot(h)
    PROVE  TypeInv'
  <1>1. /\ LeadersWell /\ CallsWell(handlers, transfer) /\ h \in Handler
        /\ PcWell(h) /\ h.pc = "save" /\ MemoryWell /\ DiskWell /\ CountsWell
    BY HandlerIn DEF TypeInv, SaveSnapshot
  <1>2. UNCHANGED <<memory, metadata, up, lost, crashes>>
    BY DEF SaveSnapshot
  <1>3. ASSUME NEW snap \in (IF h.msg.kind = "append" THEN {Snapshot(Self, lastApplied)}
                             ELSE Deserialized(snapshotBuffer)),
               saveSnapshot(snap), KeepLeaders,
               handlers' = (handlers \ {h}) \cup
                           {[h EXCEPT !.pc = "replace", !.snap = snap]}
        PROVE  TypeInv'
    <2>1. snap \in AnySnapshot /\ snap.lastIncludedIndex \in Index
      <3>1. lastApplied \in Index /\ snapshotBuffer \in Seq(Piece)
        BY <1>1 DEF MemoryWell
      <3>2. /\ Snapshot(Self, lastApplied) \in AnySnapshot
            /\ Snapshot(Self, lastApplied).lastIncludedIndex \in Index
        BY <3>1, SnapshotFields
      <3>3. CASE h.msg.kind = "append"
        BY <1>3, <3>2, <3>3
      <3>4. CASE h.msg.kind # "append"
        BY <1>3, <3>1, <3>4, DeserializedType
      <3> QED
        BY <3>3, <3>4
    <2> DEFINE g == [h EXCEPT !.pc = "replace", !.snap = snap]
    <2>2. /\ g \in Handler /\ g.from = h.from /\ g.msg = h.msg
          /\ (g.awaited => h.awaited) /\ PcWell(g)
      BY <1>1, <2>1 DEF Handler, PcWell
    <2>3. handlers' = (handlers \ {h}) \cup {g} /\ UNCHANGED leaderVars
          /\ UNCHANGED history
      BY <1>3 DEF KeepLeaders
    <2> HIDE DEF g
    <2>4. /\ LeadersWell' /\ CallsWell(handlers', transfer')
          /\ snapshots' = snapshots /\ elections' = elections
      BY <2>2, <2>3, GoType
    <2>5. CountsWell'
      BY <1>1, <1>2, <2>3, <2>4 DEF CountsWell, history
    <2>6. MemoryWell' /\ DiskWell'
      BY <1>1, <1>2, <1>3, <2>1 DEF MemoryWell, DiskWell, memory, saveSnapshot
    <2> QED
      BY <2>4, <2>5, <2>6 DEF TypeInv
  <1>4. CASE Reply(h, FALSE) /\ UNCHANGED snapFile
    <2>1. /\ LeadersWell' /\ CallsWell(handlers', transfer')
          /\ {astray', stale'} \subseteq BOOLEAN
          /\ UNCHANGED <<elections, snapshots, torn, compacted>>
      BY <1>1, <1>4, ReplyType
    <2>2. CountsWell' /\ MemoryWell' /\ DiskWell'
      BY <1>1, <1>2, <1>4, <2>1 DEF CountsWell, MemoryWell, DiskWell, memory
    <2> QED
      BY <2>1, <2>2 DEF TypeInv
  <1> QED
    BY <1>3, <1>4 DEF SaveSnapshot

LEMMA InstallType ==
    ASSUME TypeInv, NEW h \in handlers, Install(h)
    PROVE  TypeInv'
  <1>1. /\ h \in Handler /\ MemoryWell /\ DiskWell /\ CountsWell
        /\ CallWell(h, transfer[h.from]) /\ PcWell(h)
    BY HandlerIn DEF TypeInv
  <1>2. /\ h.pc = "replace" /\ log' = <<>> /\ latestSnapshot' = h.snap
        /\ commitIndex' = h.snap.lastIncludedIndex
        /\ lastApplied' = h.snap.lastIncludedIndex
        /\ UNCHANGED <<currentTerm, snapshotBuffer, disk, up, lost, crashes>>
        /\ Go(h, "persist") /\ KeepLeaders
    BY DEF Install
  <1>3. h.snap.lastIncludedIndex \in Index /\ h.snap \in AnySnapshot
    BY <1>1, <1>2, HandlerFields DEF CallWell, PcWell
  <1>4. <<>> \in Vector
    <2>1. <<>> \in Seq(LogEntry) /\ Len(<<>>) = 0
      BY EmptySeq
    <2> QED
      BY <2>1, HistoryFacts DEF Vector
  <1> DEFINE g == [h EXCEPT !.pc = "persist"]
  <1>5. /\ g \in Handler /\ g.from = h.from /\ g.msg = h.msg
        /\ (g.awaited => h.awaited) /\ PcWell(g)
    BY <1>1, <1>2, GoFields, GoWell
  <1>6. /\ handlers' = (handlers \ {h}) \cup {g} /\ UNCHANGED leaderVars
        /\ UNCHANGED history
    BY <1>2 DEF Go, KeepLeaders
  <1> HIDE DEF g
  <1>7. /\ LeadersWell' /\ CallsWell(handlers', transfer')
        /\ snapshots' = snapshots /\ elections' = elections
    BY <1>5, <1>6, GoType
  <1>8. MemoryWell' /\ DiskWell' /\ CountsWell'
    BY <1>1, <1>2, <1>3, <1>4, <1>6, <1>7
       DEF MemoryWell, DiskWell, CountsWell, disk, history
  <1> QED
    BY <1>7, <1>8 DEF TypeInv

LEMMA TruncateStepType ==
    ASSUME TypeInv, NEW h \in handlers, Truncate(h)
    PROVE  TypeInv'
  <1>1. /\ h \in Handler /\ PcWell(h) /\ MemoryWell /\ DiskWell /\ CountsWell
    BY HandlerIn DEF TypeInv
  <1>2. /\ h.pc = "replace" /\ log' = truncateLogSafe(log, latestSnapshot, h.snap.lastIncludedIndex)
        /\ latestSnapshot' = h.snap /\ compacted' = TRUE
        /\ Go(h, "persist")
        /\ UNCHANGED <<leaderVars, torn, astray, stale, currentTerm, commitIndex,
                       lastApplied, snapshotBuffer, disk, up, lost, crashes>>
    BY DEF Truncate
  <1>3. h.snap.lastIncludedIndex \in Int /\ h.snap \in AnySnapshot
    BY <1>1, HandlerFields, AnySnapshotFields
  <1>4. log' \in Vector
    BY <1>1, <1>2, <1>3, TruncateType DEF MemoryWell
  <1> DEFINE g == [h EXCEPT !.pc = "persist"]
  <1>5. /\ g \in Handler /\ g.from = h.from /\ g.msg = h.msg
        /\ (g.awaited => h.awaited) /\ PcWell(g)
    BY <1>1, <1>2, GoFields, GoWell
  <1>6. /\ handlers' = (handlers \ {h}) \cup {g} /\ UNCHANGED leaderVars
    BY <1>2 DEF Go
  <1> HIDE DEF g
  <1>7. /\ LeadersWell' /\ CallsWell(handlers', transfer')
        /\ snapshots' = snapshots /\ elections' = elections
    BY <1>5, <1>6, GoType
  <1>8. MemoryWell' /\ DiskWell' /\ CountsWell'
    BY <1>1, <1>2, <1>3, <1>4, <1>7 DEF MemoryWell, DiskWell, CountsWell, disk
  <1> QED
    BY <1>7, <1>8 DEF TypeInv

LEMMA PersistType ==
    ASSUME TypeInv, NEW h \in handlers, Persist(h)
    PROVE  TypeInv'
  <1>1. /\ LeadersWell /\ CallsWell(handlers, transfer)
        /\ MemoryWell /\ DiskWell /\ CountsWell
    BY DEF TypeInv
  <1>2. /\ metadata' = File /\ snapshotBuffer' \in {snapshotBuffer, <<>>}
        /\ Reply(h, TRUE)
        /\ UNCHANGED <<currentTerm, log, latestSnapshot, commitIndex, lastApplied,
                       snapFile, up, lost, crashes>>
    BY DEF Persist
  <1>3. /\ LeadersWell' /\ CallsWell(handlers', transfer')
        /\ {astray', stale'} \subseteq BOOLEAN
        /\ UNCHANGED <<elections, snapshots, torn, compacted>>
    BY <1>1, <1>2, ReplyType
  <1>4. MemoryWell' /\ CountsWell'
    BY <1>1, <1>2, <1>3, EmptySeq DEF MemoryWell, CountsWell
  <1>5. DiskWell'
    <2>1. metadata' \in [term : 0 .. currentTerm, log : Vector]
      BY <1>1, <1>2, FileType DEF File, MemoryWell
    <2> QED
      BY <1>1, <1>2, <2>1 DEF DiskWell
  <1> QED
    BY <1>3, <1>4, <1>5 DEF TypeInv

LEMMA ReceiveEntriesType ==
    ASSUME TypeInv, NEW h \in handlers, ReceiveEntries(h)
    PROVE  TypeInv'
  <1> DEFINE m == h.msg
             ok == PrevLogMatches(log, latestSnapshot, m.prevLogIndex, m.prevLogTerm)
             g == [h EXCEPT !.pc = "log", !.success = ok]
  <1>1. /\ h \in Handler /\ MemoryWell /\ DiskWell /\ CountsWell
        /\ CallWell(h, transfer[h.from])
    BY HandlerIn DEF TypeInv, CallsWell
  <1>2. /\ m.kind = "append"
        /\ log' = IF ok THEN AppendBatch(log, latestSnapshot, m.prevLogIndex, m.entries)
                  ELSE log
        /\ handlers' = (handlers \ {h}) \cup {g}
        /\ KeepLeaders
        /\ UNCHANGED <<currentTerm, latestSnapshot, commitIndex, lastApplied,
                       snapshotBuffer, disk, up, lost, crashes>>
    BY DEF ReceiveEntries
  <1>3. log' \in Vector
    <2>1. m.prevLogIndex \in Int /\ m.entries \in Vector
      BY <1>1, <1>2, HandlerFields, HistoryFacts
    <2>2. m.entries # <<>> => m.entries[1].index + Len(m.entries) <= Len(History)
      BY <1>1, <1>2 DEF CallWell, BatchFits
    <2>3. AppendBatch(log, latestSnapshot, m.prevLogIndex, m.entries) \in Vector
      BY <1>1, <2>1, <2>2, AppendBatchType DEF MemoryWell
    <2> QED
      BY <1>1, <1>2, <2>3 DEF MemoryWell
  <1>4. /\ g \in Handler /\ g.from = h.from /\ g.msg = h.msg
        /\ (g.awaited => h.awaited) /\ PcWell(g)
    <2>1. ok \in BOOLEAN
      BY DEF PrevLogMatches
    <2> HIDE DEF ok
    <2> QED
      BY <1>1, <1>2, <2>1 DEF Handler, PcWell
  <1>5. UNCHANGED leaderVars /\ UNCHANGED history
    BY <1>2 DEF KeepLeaders
  <1> HIDE DEF g
  <1>6. /\ LeadersWell' /\ CallsWell(handlers', transfer')
        /\ snapshots' = snapshots /\ elections' = elections
    BY <1>2, <1>4, <1>5, GoType
  <1>7. MemoryWell' /\ DiskWell' /\ CountsWell'
    BY <1>1, <1>2, <1>3, <1>5, <1>6 DEF MemoryWell, DiskWell, CountsWell, disk, history
  <1> QED
    BY <1>6, <1>7 DEF TypeInv

LEMMA StickType ==
    ASSUME TypeInv, NEW h \in handlers, Stick(h)
    PROVE  TypeInv'
  <1> DEFINE g == [h EXCEPT !.pc = "stuck"]
  <1>1. /\ h \in Handler /\ PcWell(h) /\ MemoryWell /\ DiskWell /\ CountsWell
    BY HandlerIn DEF TypeInv
  <1>2. /\ h.msg.kind = "append" /\ handlers' = (handlers \ {h}) \cup {g} /\ UNCHANGED leaderVars
        /\ UNCHANGED history /\ UNCHANGED <<memory, disk, up, lost, crashes>>
    BY DEF Stick, Go, KeepLeaders
  <1>3. /\ g \in Handler /\ g.from = h.from /\ g.msg = h.msg
        /\ (g.awaited => h.awaited) /\ PcWell(g)
    BY <1>1, <1>2, GoFields, GoWell
  <1> HIDE DEF g
  <1>4. /\ LeadersWell' /\ CallsWell(handlers', transfer')
        /\ snapshots' = snapshots /\ elections' = elections
    BY <1>2, <1>3, GoType
  <1>5. MemoryWell' /\ DiskWell' /\ CountsWell'
    BY <1>1, <1>2, <1>4 DEF MemoryWell, DiskWell, CountsWell, memory, disk, history
  <1> QED
    BY <1>4, <1>5 DEF TypeInv

\* The commit index after a batch.
CommitAfter(h) ==
    LET last == getLogSize(log, latestSnapshot) - 1
    IN  IF ~(h.success /\ h.msg.leaderCommit > commitIndex) THEN commitIndex
        ELSE IF h.msg.leaderCommit < last THEN h.msg.leaderCommit
        ELSE last

LEMMA CommitType ==
    ASSUME MemoryWell, NEW h \in Handler, h.msg.kind = "append"
    PROVE  /\ CommitAfter(h) \in Index \cup {-1}
           /\ lastApplied < CommitAfter(h) => CommitAfter(h) \in Index
  <1> DEFINE last == getLogSize(log, latestSnapshot) - 1
             c == h.msg.leaderCommit
  <1>1. c \in Index /\ commitIndex \in Index \cup {-1} /\ lastApplied \in Index
    BY HandlerFields DEF MemoryWell
  <1>2. last \in Int /\ last >= -1
    <2>1. Len(log) \in Nat /\ baseIndex(latestSnapshot) \in 0 .. Len(History)
          /\ Len(History) \in Nat
      BY VectorFields, AnySnapshotFields, HistoryFacts DEF MemoryWell
    <2>2. getLogSize(log, latestSnapshot) = baseIndex(latestSnapshot) + Len(log)
      BY DEF getLogSize
    <2>3. \A n, b \in Nat : b + n \in Nat
      OBVIOUS
    <2>4. baseIndex(latestSnapshot) \in Nat
      BY <2>1
    <2>5. getLogSize(log, latestSnapshot) \in Nat
      BY <2>1, <2>2, <2>3, <2>4, Zenon
    <2> QED
      BY <2>5
  <1>3. CommitAfter(h) \in {commitIndex, c} \/ (CommitAfter(h) = last /\ ~(c < last))
    BY DEF CommitAfter
  <1>4. c \in 0 .. Len(History) - 1 /\ Len(History) \in Nat
    BY <1>1, HistoryFacts DEF Index
  <1>5. ~(c < last) => last \in Index \cup {-1}
    <2> HIDE DEF last, c
    <2> QED
      BY <1>2, <1>4 DEF Index
  <1>6. CommitAfter(h) \in Index \cup {-1}
    <2> HIDE DEF last, c
    <2> QED
      BY <1>1, <1>3, <1>5
  <1>7. lastApplied \in Nat
    BY <1>1, HistoryFacts
  <1> QED
    BY <1>6, <1>7

LEMMA PersistAndApplyType ==
    ASSUME TypeInv, NEW h \in handlers, PersistAndApply(h)
    PROVE  TypeInv'
  <1>1. /\ LeadersWell /\ CallsWell(handlers, transfer) /\ h \in Handler
        /\ MemoryWell /\ DiskWell /\ CountsWell /\ h.success \in BOOLEAN
        /\ h.msg.kind = "append"
    <2>1. h \in Handler /\ CallWell(h, transfer[h.from]) /\ h.pc = "log"
      BY HandlerIn DEF TypeInv, CallsWell, PersistAndApply
    <2> QED
      BY <2>1, HandlerFields DEF TypeInv, CallWell, PcWell
  <1>2. /\ metadata' = File
        /\ commitIndex' = CommitAfter(h)
        /\ lastApplied' = IF lastApplied < CommitAfter(h) THEN CommitAfter(h)
                          ELSE lastApplied
        /\ (Go(h, "save") /\ KeepLeaders) \/ Reply(h, h.success)
        /\ UNCHANGED <<currentTerm, log, latestSnapshot, snapshotBuffer, snapFile,
                       up, lost, crashes>>
    BY DEF PersistAndApply, CommitAfter
  <1>3. commitIndex' \in Index \cup {-1} /\ lastApplied' \in Index
    BY <1>1, <1>2, CommitType DEF MemoryWell
  <1>4. MemoryWell'
    BY <1>1, <1>2, <1>3 DEF MemoryWell
  <1>5. DiskWell'
    <2>1. metadata' \in [term : 0 .. currentTerm, log : Vector]
      BY <1>1, <1>2, FileType DEF File, MemoryWell
    <2> QED
      BY <1>1, <1>2, <2>1 DEF DiskWell
  <1>6. CASE Go(h, "save") /\ KeepLeaders
    <2> DEFINE g == [h EXCEPT !.pc = "save"]
    <2>1. /\ g \in Handler /\ g.from = h.from /\ g.msg = h.msg
          /\ (g.awaited => h.awaited) /\ PcWell(g)
      BY <1>1, GoFields DEF PcWell
    <2>2. /\ handlers' = (handlers \ {h}) \cup {g} /\ UNCHANGED leaderVars
          /\ UNCHANGED history
      BY <1>6 DEF Go, KeepLeaders
    <2> HIDE DEF g
    <2>3. /\ LeadersWell' /\ CallsWell(handlers', transfer')
          /\ snapshots' = snapshots /\ elections' = elections
      BY <2>1, <2>2, GoType
    <2>4. CountsWell'
      BY <1>1, <1>2, <2>2, <2>3 DEF CountsWell, history
    <2> QED
      BY <1>4, <1>5, <2>3, <2>4 DEF TypeInv
  <1>7. CASE Reply(h, h.success)
    <2>1. /\ LeadersWell' /\ CallsWell(handlers', transfer')
          /\ {astray', stale'} \subseteq BOOLEAN
          /\ UNCHANGED <<elections, snapshots, torn, compacted>>
      BY <1>1, <1>7, ReplyType
    <2>2. CountsWell'
      BY <1>1, <1>2, <2>1 DEF CountsWell
    <2> QED
      BY <1>4, <1>5, <2>1, <2>2 DEF TypeInv
  <1> QED
    BY <1>2, <1>6, <1>7

LEMMA CrashType ==
    ASSUME TypeInv, Crash
    PROVE  TypeInv'
  <1>1. /\ LeadersWell /\ MemoryWell /\ DiskWell /\ CountsWell
    BY DEF TypeInv
  <1>2. /\ crashes' = crashes + 1 /\ up' = "down"
        /\ torn' = (torn \/ \E h \in handlers : h.pc \in {"replace", "persist"})
        /\ metadata' \in {metadata, Torn} /\ snapFile' \in {snapFile, Torn}
        /\ handlers' = {} /\ transfer' = [s \in Sender |-> NoTransfer]
        /\ leading' = [l \in Leader |-> FALSE]
        /\ UNCHANGED <<leaderTerm, elected, elections, leaderSnapshot, nextIndex,
                       snapshots, memory, astray, stale, compacted, lost>>
    BY DEF Crash
  <1>3. CallsWell(handlers', transfer')
    <2>1. transfer' \in [Sender -> Sending]
      BY <1>2 DEF Sending
    <2>2. handlers' \subseteq Handler /\ \A h \in handlers' : FALSE
      BY <1>2
    <2> QED
      BY <2>1, <2>2 DEF CallsWell
  <1>4. LeadersWell' /\ MemoryWell' /\ DiskWell'
    BY <1>1, <1>2 DEF LeadersWell, MemoryWell, DiskWell, memory
  <1>5. CountsWell'
    <2>1. /\ torn' \in BOOLEAN /\ astray' \in BOOLEAN /\ stale' \in BOOLEAN
          /\ compacted' \in BOOLEAN
      BY <1>1, <1>2 DEF CountsWell
    <2>2. {lost, snapshots, elections, crashes}' \subseteq Nat
      BY <1>1, <1>2 DEF CountsWell
    <2> QED
      BY <2>1, <2>2 DEF CountsWell
  <1> QED
    BY <1>3, <1>4, <1>5 DEF TypeInv

LEMMA RestartType ==
    ASSUME TypeInv, Restart
    PROVE  TypeInv'
  <1>1. /\ LeadersWell /\ CallsWell(handlers, transfer)
        /\ MemoryWell /\ DiskWell /\ CountsWell
    BY DEF TypeInv
  <1>2. UNCHANGED <<leaderVars, handlers, disk, history, lost, crashes>>
    BY DEF Restart
  <1>3. CASE Torn \in {metadata, snapFile}
    <2>1. up' = "broken" /\ UNCHANGED memory
      BY <1>3 DEF Restart
    <2> QED
      BY <1>1, <1>2, <2>1
         DEF TypeInv, LeadersWell, MemoryWell, DiskWell, CountsWell, leaderVars,
             electionVars, memory, disk, history
  <1>4. CASE Torn \notin {metadata, snapFile}
    <2>1. /\ up' = "up" /\ currentTerm' = metadata.term /\ log' = metadata.log
          /\ latestSnapshot' = snapFile
          /\ commitIndex' = IF snapFile = NoSnap THEN 0
                            ELSE snapFile.lastIncludedIndex
          /\ lastApplied' = commitIndex' /\ snapshotBuffer' = <<>>
      BY <1>4 DEF Restart
    <2>2. metadata \in [term : 0 .. currentTerm, log : Vector]
          /\ snapFile \in AnySnapshot
      BY <1>1, <1>4 DEF DiskWell
    <2>3. commitIndex' \in Index
      BY <2>1, <2>2, AnySnapshotFields, HistoryFacts
    <2>4. metadata.term \in Nat /\ metadata.term \in 0 .. metadata.term
          /\ metadata = [term |-> metadata.term, log |-> metadata.log]
          /\ metadata.log \in Vector
      BY <1>1, <2>2 DEF MemoryWell
    <2>5. MemoryWell'
      BY <2>1, <2>2, <2>3, <2>4, EmptySeq DEF MemoryWell
    <2>6. metadata' \in [term : 0 .. currentTerm', log : Vector]
      BY <1>2, <2>1, <2>4 DEF disk
    <2>7. DiskWell'
      BY <1>2, <2>1, <2>2, <2>6 DEF DiskWell, disk
    <2> QED
      BY <1>1, <1>2, <2>5, <2>7
         DEF TypeInv, LeadersWell, CountsWell, leaderVars, electionVars, history
  <1> QED
    BY <1>3, <1>4

LEMMA HearCandidateType ==
    ASSUME TypeInv, HearCandidate
    PROVE  TypeInv'
  <1>1. /\ LeadersWell /\ CallsWell(handlers, transfer)
        /\ MemoryWell /\ DiskWell /\ CountsWell
    BY DEF TypeInv
  <1>2. /\ KeepLeaders
        /\ UNCHANGED <<handlers, log, latestSnapshot, commitIndex, lastApplied,
                       snapshotBuffer, snapFile, up, lost, crashes>>
    BY DEF HearCandidate
  <1>3. PICK l \in Leader : HearTerm(elected[l])
    BY DEF HearCandidate
  <1>4. elected[l] \in Nat
    BY <1>1 DEF LeadersWell
  <1>5. /\ currentTerm' \in Nat
        /\ metadata' \in {Torn} \cup [term : 0 .. currentTerm', log : Vector]
    BY <1>1, <1>2, <1>3, <1>4, HearTermType
  <1>6. MemoryWell' /\ DiskWell'
    BY <1>1, <1>2, <1>5 DEF MemoryWell, DiskWell
  <1> QED
    BY <1>1, <1>2, <1>6
       DEF TypeInv, LeadersWell, CountsWell, KeepLeaders, leaderVars, electionVars,
           history

LEMMA TypeStep ==
    TypeInv /\ [Next]_vars => TypeInv'
  <1> SUFFICES ASSUME TypeInv, [Next]_vars PROVE TypeInv'
    OBVIOUS
  <1>1. ASSUME NEW s \in Sender, Round(s) PROVE TypeInv'
    BY <1>1, RoundType
  <1>2. ASSUME NEW h \in handlers, HandlerStep(h) \/ CallTimesOut(h) PROVE TypeInv'
    <2>1. CASE CallTimesOut(h)
      BY <2>1, CallTimesOutType
    <2>2. CASE HandlerStep(h)
      <3>1. CASE Refuse(h)
        BY <3>1, RefuseType
      <3>2. CASE ReceiveChunk(h)
        BY <3>2, ReceiveChunkType
      <3>3. CASE SaveSnapshot(h)
        BY <3>3, SaveSnapshotType
      <3>4. CASE Install(h)
        BY <3>4, InstallType
      <3>5. CASE Truncate(h)
        BY <3>5, TruncateStepType
      <3>6. CASE Persist(h)
        BY <3>6, PersistType
      <3>7. CASE ReceiveEntries(h)
        BY <3>7, ReceiveEntriesType
      <3>8. CASE Stick(h)
        BY <3>8, StickType
      <3>9. CASE PersistAndApply(h)
        BY <3>9, PersistAndApplyType
      <3> QED
        BY <2>2, <3>1, <3>2, <3>3, <3>4, <3>5, <3>6, <3>7, <3>8, <3>9
           DEF HandlerStep
    <2> QED
      BY <1>2, <2>1, <2>2
  <1>3. ASSUME NEW l \in Leader,
               Elect(l) \/ Deposed(l) \/ \E i \in Index : LeaderSnapshot(l, i)
        PROVE  TypeInv'
    BY <1>3, LeaderStepType
  <1>4. CASE HearCandidate
    BY <1>4, HearCandidateType
  <1>5. CASE Crash
    BY <1>5, CrashType
  <1>6. CASE Restart
    BY <1>6, RestartType
  <1>7. CASE UNCHANGED vars
    BY <1>7 DEF vars, TypeInv, LeadersWell, MemoryWell, DiskWell, CountsWell,
                leaderVars, electionVars, memory, disk, history
  <1> QED
    BY <1>1, <1>2, <1>3, <1>4, <1>5, <1>6, <1>7 DEF Next

\* The leaders, the calls, the follower and its files are always well formed,
\* whatever the senders are and whether or not handlers run side by side: what
\* ReceiveEntries, Install, Truncate and loadMetadata index is there.
THEOREM TypeCorrect == Spec => []TypeOK
  <1>1. Init => TypeInv
    BY TypeInit
  <1>2. TypeInv /\ [Next]_vars => TypeInv'
    BY TypeStep
  <1>3. TypeInv => TypeOK
    BY TypeInvOf
  <1> QED
    BY <1>1, <1>2, <1>3, PTL DEF Spec

-----------------------------------------------------------------------------
(* One handler at a time, and one heartbeat thread per leader.             *)

OneHeartbeatEach ==
    \A s, t \in Sender : s.thread = "heart" /\ (s.leader = t.leader => s = t)

\* A term elects one leader, and a leader sends under the term it was elected in
\* for as long as its loop goes on.
LeadersApart ==
    /\ \A l \in Leader : elected[l] <= leaderTerm[l]
    /\ \A l \in Leader : leading[l] => /\ leaderTerm[l] = elected[l]
                                       /\ elected[l] > 0 /\ up = "up"
    /\ \A l, m \in Leader : elected[l] = elected[m] /\ elected[l] > 0 => l = m

\* A transfer was begun in a term that its leader won, perhaps not the last one,
\* and nobody else did.
TransfersApart ==
    /\ \A s \in Sender : transfer[s].term <= elected[s.leader]
    /\ \A s \in Sender : transfer[s] # NoTransfer => transfer[s].term > 0
    /\ \A s \in Sender, l \in Leader :
          transfer[s].term > 0 /\ transfer[s].term = elected[l] => s.leader = l
    /\ \A r, s \in Sender :
          transfer[r].term > 0 /\ transfer[r].term = transfer[s].term
          => r.leader = s.leader

Busy(h) == h.pc \notin {"sent", "stuck"}

OneAtATime ==
    /\ \A h \in handlers : /\ up = "up" /\ elected[h.from.leader] > 0
                           /\ h.pc = "sent" => h.awaited
    /\ \A g, h \in handlers : Busy(g) /\ Busy(h) => g = h

\* What a handler's step does to the calls: it goes on, or it answers.
Moved(h, g) ==
    /\ handlers' = (handlers \ {h}) \cup {g}
    /\ g \in Handler /\ g.from = h.from /\ g.msg = h.msg /\ g.awaited = h.awaited
    /\ g.pc # "sent"
    /\ UNCHANGED leaderVars /\ astray' = astray /\ torn' = torn

LEMMA GoMoves ==
    ASSUME NEW h \in Handler, NEW pc \in {"save", "persist", "stuck"},
           Go(h, pc), UNCHANGED leaderVars, astray' = astray, torn' = torn
    PROVE  Moved(h, [h EXCEPT !.pc = pc]) /\ [h EXCEPT !.pc = pc].pc = pc
  <1> DEFINE g == [h EXCEPT !.pc = pc]
  <1>1. /\ g \in Handler /\ g.from = h.from /\ g.msg = h.msg /\ g.pc = pc
        /\ g.awaited = h.awaited
    <2>1. pc \in {"sent", "log", "save", "replace", "persist", "stuck"}
      OBVIOUS
    <2> QED
      BY <2>1, GoFields, ZenonT(40)
  <1>2. handlers' = (handlers \ {h}) \cup {g}
    BY DEF Go
  <1> HIDE DEF g
  <1>3. Moved(h, g) /\ g.pc = pc
    BY <1>1, <1>2 DEF Moved
  <1> QED
    BY <1>3 DEF g

LEMMA HandlerEffect ==
    ASSUME TypeInv, NEW h \in handlers, HandlerStep(h)
    PROVE  /\ up = "up" /\ up' = "up" /\ h.pc # "stuck"
           /\ h.pc = "sent" => Serial
           /\ (\E g \in Handler : Moved(h, g))
              \/ \E success \in BOOLEAN : Reply(h, success)
  <1>1. h \in Handler /\ h.success \in BOOLEAN
    BY HandlerIn, HandlerFields
  <1>2. /\ up = "up" /\ up' = "up" /\ h.pc # "stuck"
        /\ h.pc = "sent" => Serial
    BY DEF HandlerStep, Refuse, ReceiveChunk, SaveSnapshot, Install, Truncate, Persist,
           ReceiveEntries, Stick, PersistAndApply
  <1>3. KeepLeaders => UNCHANGED leaderVars /\ astray' = astray /\ torn' = torn
    BY DEF KeepLeaders, history
  <1>4. ASSUME NEW pc \in {"save", "persist", "stuck"}, Go(h, pc),
               UNCHANGED leaderVars, astray' = astray, torn' = torn
        PROVE  \E g \in Handler : Moved(h, g)
    <2>1. Moved(h, [h EXCEPT !.pc = pc])
      BY <1>1, <1>4, GoMoves
    <2> QED
      BY <2>1 DEF Moved
  <1>5. ASSUME NEW g \in {[h EXCEPT !.pc = "replace", !.snap = s] : s \in AnySnapshot}
                         \cup {[h EXCEPT !.pc = "log", !.success = b] : b \in BOOLEAN},
               handlers' = (handlers \ {h}) \cup {g}, KeepLeaders
        PROVE  \E f \in Handler : Moved(h, f)
    <2>1. /\ g \in Handler /\ g.from = h.from /\ g.msg = h.msg
          /\ g.awaited = h.awaited /\ g.pc # "sent"
      BY <1>1, <1>5, ZenonT(40) DEF Handler
    <2> QED
      BY <1>3, <1>5, <2>1 DEF Moved
  <1>6. CASE Refuse(h)
    BY <1>2, <1>6 DEF Refuse
  <1>7. CASE ReceiveChunk(h)
    BY <1>2, <1>3, <1>4, <1>7 DEF ReceiveChunk
  <1>8. CASE SaveSnapshot(h)
    <2>1. CASE Reply(h, FALSE)
      BY <1>2, <2>1
    <2>2. CASE ~Reply(h, FALSE)
      <3>1. PICK snap \in (IF h.msg.kind = "append" THEN {Snapshot(Self, lastApplied)}
                           ELSE Deserialized(snapshotBuffer)) :
              /\ handlers' = (handlers \ {h}) \cup
                             {[h EXCEPT !.pc = "replace", !.snap = snap]}
              /\ KeepLeaders
        BY <1>8, <2>2 DEF SaveSnapshot
      <3>2. snap \in AnySnapshot
        <4>1. lastApplied \in Index /\ snapshotBuffer \in Seq(Piece)
          BY DEF TypeInv, MemoryWell
        <4>2. Snapshot(Self, lastApplied) \in AnySnapshot
          BY <4>1, SnapshotFields
        <4>3. CASE h.msg.kind = "append"
          BY <3>1, <4>2, <4>3
        <4>4. CASE h.msg.kind # "append"
          BY <3>1, <4>1, <4>4, DeserializedType
        <4> QED
          BY <4>3, <4>4
      <3> QED
        BY <1>2, <1>5, <3>1, <3>2
    <2> QED
      BY <2>1, <2>2
  <1>9. CASE Install(h)
    BY <1>2, <1>3, <1>4, <1>9 DEF Install
  <1>10. CASE Truncate(h)
    BY <1>2, <1>4, <1>10 DEF Truncate
  <1>11. CASE Persist(h)
    BY <1>2, <1>11 DEF Persist
  <1>12. CASE ReceiveEntries(h)
    <2> DEFINE ok == PrevLogMatches(log, latestSnapshot, h.msg.prevLogIndex,
                                    h.msg.prevLogTerm)
    <2>1. /\ handlers' = (handlers \ {h}) \cup
                         {[h EXCEPT !.pc = "log", !.success = ok]}
          /\ KeepLeaders
      BY <1>12 DEF ReceiveEntries
    <2>2. ok \in BOOLEAN
      BY DEF PrevLogMatches
    <2> HIDE DEF ok
    <2> QED
      BY <1>2, <1>5, <2>1, <2>2
  <1>13. CASE Stick(h)
    BY <1>2, <1>3, <1>4, <1>13 DEF Stick
  <1>14. CASE PersistAndApply(h)
    BY <1>1, <1>2, <1>3, <1>4, <1>14 DEF PersistAndApply
  <1> QED
    BY <1>6, <1>7, <1>8, <1>9, <1>10, <1>11, <1>12, <1>13, <1>14 DEF HandlerStep

\* An answer to a heartbeat thread, which never starts a transfer.
LEMMA HeartbeatReply ==
    ASSUME TypeInv, OneHeartbeatEach, NEW h \in handlers,
           NEW success \in BOOLEAN, Reply(h, success)
    PROVE  /\ NoNextCall(h) \/ (NextChunk(h) /\ success)
           /\ \/ UNCHANGED <<leaderTerm, leading>>
              \/ /\ currentTerm > leaderTerm[h.from.leader]
                 /\ leaderTerm' = [leaderTerm EXCEPT ![h.from.leader] = currentTerm]
                 /\ leading' = [leading EXCEPT ![h.from.leader] = FALSE]
           /\ UNCHANGED <<elected, leaderSnapshot, torn>>
  <1>1. /\ LeadersWell /\ CallsWell(handlers, transfer) /\ currentTerm \in Nat
        /\ h.from \in Sender
    BY HandlerIn, HandlerFields DEF TypeInv, MemoryWell
  <1>2. ~FirstChunk(h)
    BY <1>1 DEF FirstChunk, OneHeartbeatEach
  <1>3. /\ NoNextCall(h) \/ (NextChunk(h) /\ success) \/ FirstChunk(h)
        /\ \/ UNCHANGED <<leaderTerm, leading>>
           \/ /\ currentTerm > leaderTerm[h.from.leader]
              /\ leaderTerm' = [leaderTerm EXCEPT ![h.from.leader] = currentTerm]
              /\ leading' = [leading EXCEPT ![h.from.leader] = FALSE]
        /\ UNCHANGED <<elected, leaderSnapshot, torn>>
    BY <1>1, ReplyForms
  <1> QED
    BY <1>2, <1>3

LEMMA LeadersApartInit ==
    Init => LeadersApart
  <1> SUFFICES ASSUME Init PROVE LeadersApart
    OBVIOUS
  <1>1. /\ leaderTerm = [l \in Leader |-> History[Len(History)]]
        /\ elected = [l \in Leader |-> IF l = InitLeader THEN leaderTerm[l] ELSE 0]
        /\ leading = [l \in Leader |-> l = InitLeader] /\ up = "up"
    BY DEF Init
  <1>2. History[Len(History)] \in Nat \ {0}
    BY HistoryFacts
  <1> DEFINE t == History[Len(History)]
  <1> HIDE DEF t
  <1>3. \A l \in Leader : /\ leaderTerm[l] = t
                          /\ elected[l] = IF l = InitLeader THEN t ELSE 0
                          /\ leading[l] <=> l = InitLeader
    BY <1>1 DEF t
  <1>4. t \in Nat /\ t > 0 /\ 0 <= t
    BY <1>2 DEF t
  <1> QED
    BY <1>1, <1>3, <1>4 DEF LeadersApart

LEMMA LeadersApartStep ==
    ASSUME TypeInv, OneHeartbeatEach, LeadersApart, [Next]_vars
    PROVE  LeadersApart'
  <1>1. /\ leaderTerm \in [Leader -> Nat] /\ elected \in [Leader -> Nat]
        /\ leading \in [Leader -> BOOLEAN] /\ currentTerm \in Nat
    BY DEF TypeInv, LeadersWell, MemoryWell
  <1>2. CASE UNCHANGED <<leaderTerm, elected, leading, up>>
    BY <1>2 DEF LeadersApart
  <1>3. ASSUME NEW h \in handlers, HandlerStep(h) PROVE LeadersApart'
    <2>1. /\ up = "up" /\ up' = "up"
          /\ (\E g \in Handler : Moved(h, g))
             \/ \E success \in BOOLEAN : Reply(h, success)
      BY <1>3, HandlerEffect
    <2>2. CASE \E g \in Handler : Moved(h, g)
      BY <1>2, <2>1, <2>2 DEF Moved, leaderVars, electionVars
    <2>3. CASE \E success \in BOOLEAN : Reply(h, success)
      <3> DEFINE l == h.from.leader
      <3>1. /\ \/ UNCHANGED <<leaderTerm, leading>>
               \/ /\ currentTerm > leaderTerm[l]
                  /\ leaderTerm' = [leaderTerm EXCEPT ![l] = currentTerm]
                  /\ leading' = [leading EXCEPT ![l] = FALSE]
            /\ elected' = elected
        BY <2>3, HeartbeatReply
      <3> HIDE DEF l
      <3>2. CASE UNCHANGED <<leaderTerm, leading>>
        BY <1>2, <2>1, <3>1, <3>2
      <3>3. CASE /\ currentTerm > leaderTerm[l]
                 /\ leaderTerm' = [leaderTerm EXCEPT ![l] = currentTerm]
                 /\ leading' = [leading EXCEPT ![l] = FALSE]
        BY <1>1, <2>1, <3>1, <3>3 DEF LeadersApart
      <3> QED
        BY <3>1, <3>2, <3>3
    <2> QED
      BY <2>1, <2>2, <2>3
  <1>4. ASSUME NEW l \in Leader, Elect(l) PROVE LeadersApart'
    <2>1. PICK t \in {currentTerm} \cup {leaderTerm[m] : m \in Leader} :
            /\ t >= currentTerm /\ \A m \in Leader : t >= leaderTerm[m]
            /\ leaderTerm' = [leaderTerm EXCEPT ![l] = t + 1]
            /\ elected' = [elected EXCEPT ![l] = t + 1]
      BY <1>4 DEF Elect
    <2>2. up = "up" /\ up' = "up" /\ leading' = [leading EXCEPT ![l] = TRUE]
      BY <1>4 DEF Elect
    <2>3. t \in Nat
      BY <1>1
    <2>4. \A m \in Leader : elected[m] < t + 1
      BY <1>1, <2>1, <2>3 DEF LeadersApart
    <2>5. \A m \in Leader : /\ elected'[m] = IF m = l THEN t + 1 ELSE elected[m]
                            /\ leaderTerm'[m] = IF m = l THEN t + 1 ELSE leaderTerm[m]
                            /\ m # l => leading'[m] = leading[m]
      BY <1>1, <2>1, <2>2
    <2>6. \A m \in Leader : elected'[m] <= leaderTerm'[m]
      BY <1>1, <2>3, <2>5 DEF LeadersApart
    <2>7. \A m \in Leader : leading'[m] => /\ leaderTerm'[m] = elected'[m]
                                           /\ elected'[m] > 0 /\ up' = "up"
      <3> TAKE m \in Leader
      <3>1. CASE m = l
        <4>1. elected'[l] = t + 1 /\ leaderTerm'[l] = t + 1
          BY <2>5
        <4>2. t + 1 > 0
          BY <2>3
        <4> QED
          BY <2>2, <3>1, <4>1, <4>2
      <3>2. CASE m # l
        BY <2>2, <2>5, <3>2 DEF LeadersApart
      <3> QED
        BY <3>1, <3>2
    <2>8. \A m, k \in Leader : elected'[m] = elected'[k] /\ elected'[m] > 0 => m = k
      BY <1>1, <2>3, <2>4, <2>5 DEF LeadersApart
    <2> QED
      BY <2>6, <2>7, <2>8 DEF LeadersApart
  <1>5. ASSUME NEW l \in Leader, Deposed(l) PROVE LeadersApart'
    <2>1. PICK m \in Leader :
            /\ elected[m] > leaderTerm[l]
            /\ leaderTerm' = [leaderTerm EXCEPT ![l] = elected[m]]
      BY <1>5 DEF Deposed
    <2>2. /\ leading' = [leading EXCEPT ![l] = FALSE]
          /\ elected' = elected /\ up' = up
      BY <1>5 DEF Deposed
    <2> QED
      BY <1>1, <2>1, <2>2 DEF LeadersApart
  <1>6. CASE Crash
    <2>1. /\ leading' = [l \in Leader |-> FALSE]
          /\ UNCHANGED <<leaderTerm, elected>>
      BY <1>6 DEF Crash
    <2> QED
      BY <2>1 DEF LeadersApart
  <1>7. CASE Restart
    <2>1. UNCHANGED <<leaderTerm, elected, leading>> /\ up = "down"
      BY <1>7 DEF Restart, leaderVars, electionVars
    <2> QED
      BY <2>1 DEF LeadersApart
  <1>8. ASSUME \/ \E s \in Sender : Round(s)
               \/ \E h \in handlers : CallTimesOut(h)
               \/ \E l \in Leader, i \in Index : LeaderSnapshot(l, i)
               \/ HearCandidate \/ UNCHANGED vars
        PROVE  LeadersApart'
    <2>1. UNCHANGED <<leaderTerm, elected, leading, up>>
      BY <1>8 DEF Round, CallTimesOut, LeaderSnapshot, HearCandidate, KeepLeaders,
                  vars, leaderVars, electionVars
    <2> QED
      BY <1>2, <2>1
  <1> QED
    BY <1>3, <1>4, <1>5, <1>6, <1>7, <1>8 DEF Next

LEMMA TransfersApartInit ==
    Init => TransfersApart
  <1> SUFFICES ASSUME Init PROVE TransfersApart
    OBVIOUS
  <1>1. transfer = [s \in Sender |-> NoTransfer] /\ LeadersWell
    BY TypeInit DEF Init, TypeInv
  <1>2. \A s \in Sender : /\ transfer[s] = NoTransfer /\ transfer[s].term = 0
                          /\ elected[s.leader] \in Nat
    BY <1>1 DEF NoTransfer, LeadersWell, Leader
  <1> QED
    BY <1>2 DEF TransfersApart

LEMMA TransfersApartStep ==
    ASSUME TypeInv, OneHeartbeatEach, LeadersApart, TransfersApart, [Next]_vars
    PROVE  TransfersApart'
  <1>1. /\ elected \in [Leader -> Nat] /\ leaderTerm \in [Leader -> Nat]
        /\ transfer \in [Sender -> Sending] /\ currentTerm \in Nat /\ LeadersWell
        /\ \A s \in Sender : s.leader \in Leader
        /\ NoTransfer.term = 0
    BY DEF TypeInv, LeadersWell, CallsWell, MemoryWell, Leader, NoTransfer
  \* A transfer ends or goes on.
  <1>2. ASSUME elected' = elected,
               \A s \in Sender : \/ transfer'[s] = NoTransfer
                                 \/ /\ transfer[s] # NoTransfer
                                    /\ transfer'[s].term = transfer[s].term
        PROVE  TransfersApart'
    BY <1>1, <1>2 DEF TransfersApart
  <1>3. ASSUME elected' = elected, transfer' = transfer PROVE TransfersApart'
    BY <1>3 DEF TransfersApart
  <1>4. ASSUME NEW h \in handlers, HandlerStep(h) PROVE TransfersApart'
    <2>1. \/ \E g \in Handler : Moved(h, g)
          \/ \E success \in BOOLEAN : Reply(h, success)
      BY <1>4, HandlerEffect
    <2>2. CASE \E g \in Handler : Moved(h, g)
      BY <1>3, <2>2 DEF Moved, leaderVars, electionVars
    <2>3. CASE \E success \in BOOLEAN : Reply(h, success)
      <3>1. elected' = elected /\ (NoNextCall(h) \/ NextChunk(h))
        BY <2>3, HeartbeatReply
      <3>2. CASE NoNextCall(h)
        <4>1. CASE transfer' = transfer
          BY <1>3, <3>1, <4>1
        <4>2. CASE transfer' = [transfer EXCEPT ![h.from] = NoTransfer]
          <5>1. ASSUME NEW s \in Sender
                PROVE  transfer'[s] = NoTransfer \/ transfer'[s] = transfer[s]
            BY <1>1, <4>2
          <5> QED
            BY <1>1, <3>1, <5>1 DEF TransfersApart
        <4> QED
          BY <3>2, <4>1, <4>2 DEF NoNextCall
      <3>3. CASE NextChunk(h)
        <4>1. /\ Carries(h.msg, transfer[h.from]) /\ transfer[h.from] \in Sending
              /\ ~h.msg.done /\ h.from \in Sender
          BY <1>1, <3>3, HandlerIn, HandlerFields DEF NextChunk, CallWell
        <4>2. NextPart(h).term = transfer[h.from].term /\ transfer[h.from] # NoTransfer
          BY <4>1, PartAfter DEF NextPart, Carries
        <4>3. transfer' = [transfer EXCEPT ![h.from] = NextPart(h)]
          BY <3>3 DEF NextChunk
        <4>4. ASSUME NEW s \in Sender
              PROVE  \/ transfer'[s] = transfer[s]
                     \/ /\ transfer[s] # NoTransfer
                        /\ transfer'[s].term = transfer[s].term
          BY <1>1, <4>2, <4>3
        <4> QED
          BY <1>1, <3>1, <4>4 DEF TransfersApart
      <3> QED
        BY <3>1, <3>2, <3>3
    <2> QED
      BY <2>1, <2>2, <2>3
  <1>5. ASSUME NEW s \in Sender, Round(s) PROVE TransfersApart'
    <2>1. leading[s.leader] /\ elected' = elected
      BY <1>5 DEF Round, electionVars
    <2>2. CASE transfer' = transfer
      BY <1>3, <2>1, <2>2
    <2>3. CASE transfer' = [transfer EXCEPT ![s] = Begun(s)]
      <3>1. Begun(s).term = elected[s.leader] /\ elected[s.leader] > 0
        BY <1>1, <2>1, SnapshotStarts DEF LeadersApart
      <3>2. /\ transfer'[s].term = elected[s.leader]
            /\ \A r \in Sender : r # s => transfer'[r] = transfer[r]
        BY <1>1, <2>3, <3>1
      <3>3. \A r \in Sender : transfer'[r].term <= elected[r.leader]
        BY <1>1, <3>2 DEF TransfersApart
      <3>4. \A r \in Sender : transfer'[r] # NoTransfer => transfer'[r].term > 0
        BY <1>1, <3>1, <3>2 DEF TransfersApart
      <3>5. \A r \in Sender, l \in Leader :
              transfer'[r].term > 0 /\ transfer'[r].term = elected[l] => r.leader = l
        BY <1>1, <3>1, <3>2 DEF TransfersApart, LeadersApart
      <3>6. \A q, r \in Sender :
              transfer'[q].term > 0 /\ transfer'[q].term = transfer'[r].term
              => q.leader = r.leader
        <4> TAKE q, r \in Sender
        <4>1. CASE q = s
          BY <1>1, <2>1, <3>2, <3>5, <4>1
        <4>2. CASE r = s
          BY <1>1, <2>1, <3>2, <3>5, <4>2
        <4>3. CASE q # s /\ r # s
          BY <3>2, <4>3 DEF TransfersApart
        <4> QED
          BY <4>1, <4>2, <4>3
      <3> QED
        BY <2>1, <3>3, <3>4, <3>5, <3>6 DEF TransfersApart
    <2> QED
      BY <1>5, <2>2, <2>3 DEF Round
  <1>6. ASSUME NEW h \in handlers, CallTimesOut(h) PROVE TransfersApart'
    <2>1. elected' = elected /\ transfer' = [transfer EXCEPT ![h.from] = NoTransfer]
      BY <1>6 DEF CallTimesOut, electionVars
    <2>2. ASSUME NEW s \in Sender
          PROVE  transfer'[s] = NoTransfer \/ transfer'[s] = transfer[s]
      BY <1>1, <2>1
    <2> QED
      BY <1>1, <2>1, <2>2 DEF TransfersApart
  <1>7. ASSUME NEW l \in Leader, Elect(l) PROVE TransfersApart'
    <2>1. PICK t \in {currentTerm} \cup {leaderTerm[m] : m \in Leader} :
            /\ t >= currentTerm /\ \A m \in Leader : t >= leaderTerm[m]
            /\ elected' = [elected EXCEPT ![l] = t + 1]
      BY <1>7 DEF Elect
    <2>2. t \in Nat /\ transfer' = transfer
      BY <1>1, <1>7 DEF Elect
    <2>3. \A m \in Leader : elected[m] < t + 1
      BY <1>1, <2>1, <2>2 DEF LeadersApart
    <2>4. \A m \in Leader : elected'[m] = IF m = l THEN t + 1 ELSE elected[m]
      BY <1>1, <2>1
    <2>5. \A s \in Sender : transfer[s].term \in Nat /\ transfer[s].term < t + 1
      <3> TAKE s \in Sender
      <3>1. transfer[s].term \in Nat
        BY <1>1 DEF Sending
      <3> QED
        BY <1>1, <2>2, <2>3, <3>1 DEF TransfersApart
    <2>6. \A s \in Sender : transfer[s].term <= elected'[s.leader]
      BY <1>1, <2>2, <2>4, <2>5 DEF TransfersApart
    <2>7. \A s \in Sender, m \in Leader :
            transfer[s].term > 0 /\ transfer[s].term = elected'[m] => s.leader = m
      BY <1>1, <2>2, <2>4, <2>5 DEF TransfersApart
    <2> QED
      BY <2>2, <2>6, <2>7 DEF TransfersApart
  <1>8. CASE Crash
    <2>1. elected' = elected /\ transfer' = [s \in Sender |-> NoTransfer]
      BY <1>8 DEF Crash
    <2>2. \A s \in Sender : transfer'[s] = NoTransfer
      BY <2>1
    <2> QED
      BY <1>2, <2>1, <2>2
  <1>9. ASSUME \/ \E l \in Leader : Deposed(l)
               \/ \E l \in Leader, i \in Index : LeaderSnapshot(l, i)
               \/ HearCandidate \/ Restart \/ UNCHANGED vars
        PROVE  TransfersApart'
    <2>1. UNCHANGED <<elected, transfer>>
      BY <1>9 DEF Deposed, LeaderSnapshot, HearCandidate, Restart, KeepLeaders, vars,
                  leaderVars, electionVars
    <2> QED
      BY <1>3, <2>1
  <1> QED
    BY <1>4, <1>5, <1>6, <1>7, <1>8, <1>9 DEF Next

LEMMA OneAtATimeStep ==
    ASSUME TypeInv, OneHeartbeatEach, ~Overlap, LeadersApart, OneAtATime, [Next]_vars
    PROVE  OneAtATime'
  <1>1. /\ handlers \subseteq Handler /\ elected \in [Leader -> Nat]
        /\ leaderTerm \in [Leader -> Nat] /\ transfer \in [Sender -> Sending]
        /\ \A h \in handlers : h.from \in Sender /\ h.from.leader \in Leader
    BY HandlerFields DEF TypeInv, CallsWell, LeadersWell
  <1>2. ASSUME handlers' \subseteq handlers, UNCHANGED <<elected, up>>
        PROVE  OneAtATime'
    BY <1>2 DEF OneAtATime
  <1>3. ASSUME NEW h \in handlers, NEW g,
               handlers' = (handlers \ {h}) \cup {g}, UNCHANGED <<elected, up>>,
               g.from = h.from, g.pc = "sent" => g.awaited,
               Busy(g) => Busy(h) \/ \A f \in handlers : ~Busy(f)
        PROVE  OneAtATime'
    <2>1. \A f \in handlers' : /\ up' = "up" /\ elected'[f.from.leader] > 0
                               /\ f.pc = "sent" => f.awaited
      BY <1>3 DEF OneAtATime
    <2>2. ASSUME NEW e \in handlers', NEW f \in handlers', Busy(e), Busy(f)
          PROVE  e = f
      <3>1. ASSUME NEW d \in handlers \ {h}, Busy(d), Busy(g) PROVE FALSE
        BY <1>3, <3>1 DEF OneAtATime
      <3>2. e \in handlers /\ f \in handlers => e = f
        BY <2>2 DEF OneAtATime
      <3> QED
        BY <1>3, <2>2, <3>1, <3>2
    <2> QED
      BY <2>1, <2>2 DEF OneAtATime
  <1>4. ASSUME NEW h \in handlers, HandlerStep(h) PROVE OneAtATime'
    <2>1. /\ up = "up" /\ up' = "up" /\ h.pc # "stuck"
          /\ h.pc = "sent" => Serial
          /\ (\E g \in Handler : Moved(h, g))
             \/ \E success \in BOOLEAN : Reply(h, success)
      BY <1>4, HandlerEffect
    <2>2. Busy(h) \/ \A f \in handlers : ~Busy(f)
      BY <2>1 DEF Busy, Serial
    <2>3. CASE \E g \in Handler : Moved(h, g)
      <3>1. PICK g \in Handler : Moved(h, g)
        BY <2>3
      <3> QED
        BY <1>3, <2>1, <2>2, <3>1 DEF Moved, leaderVars, electionVars
    <2>4. CASE \E success \in BOOLEAN : Reply(h, success)
      <3>1. elected' = elected /\ (NoNextCall(h) \/ NextChunk(h))
        BY <2>4, HeartbeatReply
      <3>2. CASE NoNextCall(h)
        BY <1>2, <2>1, <3>1, <3>2 DEF NoNextCall
      <3>3. CASE NextChunk(h)
        <4> DEFINE t == NextPart(h)
                   g == Chunk(h.from, t)
        <4>1. t \in Sending /\ t # NoTransfer
          <5>1. /\ Carries(h.msg, transfer[h.from]) /\ transfer[h.from] \in Sending
                /\ ~h.msg.done
            BY <1>1, <3>3, HandlerIn DEF NextChunk, CallWell
          <5> QED
            BY <5>1, PartAfter DEF NextPart
        <4> HIDE DEF t
        <4>2. g.from = h.from /\ g.awaited /\ g.pc = "sent"
          BY <1>1, <4>1, ChunkCall
        <4>3. handlers' = (handlers \ {h}) \cup {g}
          BY <3>3 DEF NextChunk, t
        <4>4. ~Busy(g)
          BY <4>2 DEF Busy
        <4> HIDE DEF g
        <4> QED
          BY <1>3, <2>1, <3>1, <4>2, <4>3, <4>4
      <3> QED
        BY <3>1, <3>2, <3>3
    <2> QED
      BY <2>1, <2>3, <2>4
  <1>5. ASSUME NEW s \in Sender, Round(s) PROVE OneAtATime'
    <2> DEFINE l == s.leader
               t == Begun(s)
    <2>1. /\ l \in Leader /\ leading[l] /\ UNCHANGED <<elected, up>>
      BY <1>5 DEF Round, Leader, electionVars
    <2>2. up = "up" /\ elected[l] > 0
      BY <2>1 DEF LeadersApart
    <2>3. PICK g : /\ handlers' = handlers \cup {g}
                   /\ g.from = s /\ g.awaited /\ g.pc = "sent"
      <3>1. /\ leaderTerm \in [Leader -> Nat] /\ leaderSnapshot \in [Leader -> Taken]
            /\ nextIndex \in [Leader -> 0 .. Len(History)]
        BY DEF TypeInv, LeadersWell
      <3>2. CASE s.thread = "heart" /\ NeedsSnapshot(l)
        <4>1. t \in Sending /\ t # NoTransfer
          BY SnapshotStarts DEF TypeInv
        <4>2. handlers' = handlers \cup {Chunk(s, t)}
          BY <1>5, <3>2 DEF Round
        <4> HIDE DEF t
        <4> QED
          BY <3>1, <4>1, <4>2, ChunkCall
      <3>3. CASE ~(s.thread = "heart" /\ NeedsSnapshot(l))
        <4>1. PICK commit \in leaderSnapshot[l].lastIncludedIndex .. Len(History) - 1 :
                  handlers' = handlers \cup {AppendEntries(s, commit)}
          BY <1>5, <3>3 DEF Round
        <4>2. commit \in Index
          <5>1. leaderSnapshot[l].lastIncludedIndex \in Nat /\ Len(History) \in Nat
            BY <2>1, <3>1, TakenFields, HistoryFacts
          <5> QED
            BY <5>1 DEF Index
        <4> QED
          BY <3>1, <4>1, <4>2, AppendCall
      <3> QED
        BY <3>2, <3>3
    <2>4. ~Busy(g)
      BY <2>3 DEF Busy
    <2> HIDE DEF l
    <2>5. \A f \in handlers' : /\ up' = "up" /\ elected'[f.from.leader] > 0
                               /\ f.pc = "sent" => f.awaited
      BY <2>1, <2>2, <2>3 DEF OneAtATime, l
    <2>6. \A e, f \in handlers' : Busy(e) /\ Busy(f) => e = f
      BY <2>3, <2>4 DEF OneAtATime
    <2> QED
      BY <2>5, <2>6 DEF OneAtATime
  <1>6. ASSUME NEW h \in handlers, CallTimesOut(h) PROVE OneAtATime'
    <2>1. UNCHANGED <<elected, up>>
      BY <1>6 DEF CallTimesOut, electionVars
    <2> DEFINE g == [h EXCEPT !.awaited = FALSE]
    <2>2. g.pc = h.pc /\ g.from = h.from
      BY <1>1 DEF Handler
    <2>3. \/ handlers' = handlers \ {h}
          \/ h.pc # "sent" /\ handlers' = (handlers \ {h}) \cup {g}
      BY <1>6 DEF CallTimesOut
    <2> HIDE DEF g
    <2>4. Busy(g) => Busy(h)
      BY <2>2 DEF Busy
    <2>5. CASE handlers' = handlers \ {h}
      BY <1>2, <2>1, <2>5
    <2>6. CASE h.pc # "sent" /\ handlers' = (handlers \ {h}) \cup {g}
      BY <1>3, <2>1, <2>2, <2>4, <2>6
    <2> QED
      BY <2>3, <2>5, <2>6
  <1>7. ASSUME NEW l \in Leader, Elect(l) PROVE OneAtATime'
    <2>1. PICK t \in {currentTerm} \cup {leaderTerm[m] : m \in Leader} :
            elected' = [elected EXCEPT ![l] = t + 1]
      BY <1>7 DEF Elect
    <2>2. handlers' = handlers /\ up' = up
      BY <1>7 DEF Elect
    <2>3. t \in Nat
      BY <1>1 DEF TypeInv, MemoryWell
    <2>4. \A m \in Leader : elected[m] > 0 => elected'[m] > 0
      BY <1>1, <2>1, <2>3
    <2> QED
      BY <1>1, <2>2, <2>4 DEF OneAtATime
  <1>8. CASE Crash
    BY <1>8 DEF Crash, OneAtATime
  <1>9. CASE Restart
    <2>1. handlers = {}
      BY <1>9 DEF Restart, OneAtATime
    <2> QED
      BY <1>9, <2>1 DEF Restart, OneAtATime
  <1>10. ASSUME \/ \E l \in Leader : Deposed(l)
                \/ \E l \in Leader, i \in Index : LeaderSnapshot(l, i)
                \/ HearCandidate \/ UNCHANGED vars
         PROVE  OneAtATime'
    <2>1. UNCHANGED <<handlers, elected, up>>
      BY <1>10 DEF Deposed, LeaderSnapshot, HearCandidate, KeepLeaders, vars,
                   leaderVars, electionVars
    <2> QED
      BY <1>2, <2>1
  <1> QED
    BY <1>4, <1>5, <1>6, <1>7, <1>8, <1>9, <1>10 DEF Next

LEMMA OneAtATimeInit ==
    Init => OneAtATime
  BY DEF Init, OneAtATime

-----------------------------------------------------------------------------
(* A snapshot is whole unless a leader sent on under another's term.       *)

\* The chunks that are on their way are of their leader's own term.  One that is
\* not the first finds what came before it in the buffer, or is refused, and no
\* InstallSnapshot is under way that would clear the buffer.
ChunkSent(h) == h.pc = "sent" /\ h.msg.kind = "snapshot"
Installing(h) == Busy(h) /\ h.msg.kind = "snapshot"
Holds(buffer, parts, n) ==
    Len(buffer) = n /\ \A k \in 1 .. n : buffer[k] = parts[k]
Follows(h) ==
    h.msg.chunk.part > 1 =>
        /\ h.msg.term <= currentTerm
        /\ h.msg.term = currentTerm =>
              /\ Holds(snapshotBuffer, transfer[h.from].snap.parts,
                       h.msg.chunk.part - 1)
              /\ \A g \in handlers : ~Installing(g)
BufferFits ==
    \A h \in handlers : ChunkSent(h) =>
        h.msg.term = transfer[h.from].term /\ Follows(h)

SnapshotsWhole ==
    /\ \A h \in handlers : h.pc = "save" /\ h.msg.kind = "snapshot" =>
                              Whole(snapshotBuffer)
    /\ \A h \in handlers : h.pc \in {"replace", "persist"} => Whole(h.snap.parts)
    /\ latestSnapshot # NoSnap => Whole(latestSnapshot.parts)
    /\ snapFile \notin {NoSnap, Torn} => Whole(snapFile.parts)

WholeInv ==
    /\ TypeInv /\ LeadersApart /\ TransfersApart /\ OneAtATime
    /\ ~astray => BufferFits /\ SnapshotsWhole

\* Nothing that a chunk on its way depends on has changed.
LEMMA FitsStay ==
    ASSUME BufferFits, UNCHANGED <<currentTerm, snapshotBuffer>>,
           \A h \in handlers' : ChunkSent(h) =>
               h \in handlers /\ transfer'[h.from] = transfer[h.from],
           \A g \in handlers' : Installing(g) => \E f \in handlers : Installing(f)
    PROVE  BufferFits'
  <1> SUFFICES ASSUME NEW h \in handlers', ChunkSent(h)
               PROVE  h.msg.term = transfer'[h.from].term /\ Follows(h)'
    BY DEF BufferFits, ChunkSent
  <1>1. /\ h \in handlers /\ transfer'[h.from] = transfer[h.from]
        /\ h.msg.term = transfer[h.from].term /\ Follows(h)
    BY DEF BufferFits
  <1>2. (\A f \in handlers : ~Installing(f)) => \A g \in handlers' : ~Installing(g)
    OBVIOUS
  <1> QED
    BY <1>1, <1>2 DEF Follows, Installing, Busy

\* An answer that is not followed by a chunk.
LEMMA NoNextCallFits ==
    ASSUME TypeInv, OneAtATime, BufferFits, NEW h \in handlers, NoNextCall(h),
           UNCHANGED <<currentTerm, snapshotBuffer, elected>>
    PROVE  BufferFits'
  <1>1. /\ transfer \in [Sender -> Sending]
        /\ \A f \in handlers : f.from \in Sender
        /\ \A f, g \in handlers : f.awaited /\ g.awaited /\ f.from = g.from => f = g
    BY HandlerFields DEF TypeInv, CallsWell
  <1>2. ASSUME NEW f \in handlers', ChunkSent(f)
        PROVE  f \in handlers /\ transfer'[f.from] = transfer[f.from]
    <2>1. f \in handlers /\ f # h
      BY <1>2 DEF NoNextCall
    <2>2. f.awaited
      BY <1>2, <2>1 DEF OneAtATime, ChunkSent
    <2>3. h.awaited => f.from # h.from
      BY <1>1, <2>1, <2>2
    <2> QED
      BY <1>1, <2>1, <2>3 DEF NoNextCall
  <1>3. \A g \in handlers' : g \in handlers
    BY DEF NoNextCall
  <1> QED
    BY <1>2, <1>3, FitsStay

\* A handler that goes on.
LEMMA MovedFits ==
    ASSUME BufferFits, NEW h \in handlers, NEW g, Moved(h, g),
           h.pc # "sent" \/ h.msg.kind = "append",
           UNCHANGED <<currentTerm, snapshotBuffer>>, h.pc # "stuck"
    PROVE  BufferFits'
  <1>1. elected' = elected /\ transfer' = transfer
    BY DEF Moved, leaderVars, electionVars
  <1>2. /\ handlers' = (handlers \ {h}) \cup {g} /\ g.pc # "sent" /\ g.msg = h.msg
    BY DEF Moved
  <1>3. \A f \in handlers' : ChunkSent(f) => f \in handlers
    BY <1>2 DEF ChunkSent
  <1>4. Installing(g) => Installing(h)
    BY DEF Moved, Installing, Busy
  <1> QED
    BY <1>1, <1>2, <1>3, <1>4, FitsStay

\* Two chunks of one term come from one call.
LEMMA OneTermOneCall ==
    ASSUME TypeInv, OneHeartbeatEach, TransfersApart, OneAtATime, BufferFits,
           NEW g \in handlers, NEW h \in handlers, ChunkSent(g), ChunkSent(h),
           g.msg.term = h.msg.term
    PROVE  g = h
  <1>1. /\ g.from \in Sender /\ h.from \in Sender
        /\ g.from.leader \in Leader /\ h.from.leader \in Leader
    BY HandlerIn, HandlerFields
  <1>2. transfer[g.from].term = transfer[h.from].term /\ transfer[g.from].term > 0
    <2>1. g.awaited /\ g.msg.kind = "snapshot"
      BY DEF OneAtATime, ChunkSent
    <2>2. transfer[g.from] # NoTransfer
      BY <2>1, HandlerIn DEF CallWell, Carries
    <2> QED
      BY <1>1, <2>2 DEF BufferFits, TransfersApart
  <1>3. g.from.leader = h.from.leader
    BY <1>1, <1>2 DEF TransfersApart
  <1>4. g.from = h.from
    BY <1>1, <1>3 DEF OneHeartbeatEach
  <1>5. g.awaited /\ h.awaited
    BY DEF OneAtATime, ChunkSent
  <1> QED
    BY <1>4, <1>5 DEF TypeInv, CallsWell

\* What the buffer holds after a chunk that is accepted.
LEMMA BufferAfter ==
    ASSUME TypeInv, OneAtATime, BufferFits, NEW h \in handlers, ReceiveChunk(h)
    PROVE  /\ h.awaited /\ Carries(h.msg, transfer[h.from])
           /\ h.msg.chunk.part = transfer[h.from].part
           /\ Holds(snapshotBuffer', transfer[h.from].snap.parts, transfer[h.from].part)
           /\ snapshotBuffer' \in Seq(Piece)
           /\ currentTerm' = h.msg.term /\ h.msg.term >= currentTerm
           /\ h.msg.term \in Nat /\ currentTerm \in Nat
  <1> DEFINE c == h.msg.chunk
             t == transfer[h.from]
             p == t.part
  <1>1. /\ h.pc = "sent" /\ h.msg.kind = "snapshot" /\ h.msg.term >= currentTerm
        /\ HearTerm(h.msg.term)
        /\ snapshotBuffer' = Written(BufferFor(c), c)
    BY DEF ReceiveChunk
  <1>2. /\ h \in Handler /\ c \in Piece /\ h.msg.term \in Nat /\ currentTerm \in Nat
        /\ snapshotBuffer \in Seq(Piece) /\ t \in Sending
    BY <1>1, HandlerIn, HandlerFields DEF TypeInv, MemoryWell, CallsWell
  <1>3. h.awaited /\ Carries(h.msg, t)
    BY <1>1, HandlerIn DEF OneAtATime, CallWell
  <1>4. /\ c = t.snap.parts[p] /\ c.part = p /\ p \in Nat \ {0}
    BY <1>2, <1>3, SendingFields DEF Carries
  <1>5. currentTerm' = h.msg.term
    BY <1>1, <1>2 DEF HearTerm
  <1>6. /\ BufferFor(c) \in Seq(Piece) /\ Holds(BufferFor(c), t.snap.parts, p - 1)
    <2>1. CASE p = 1
      <3>1. BufferFor(c) = <<>>
        BY <1>4, <2>1 DEF BufferFor
      <3>2. Len(BufferFor(c)) = 0 /\ BufferFor(c) \in Seq(Piece)
        BY <3>1, EmptySeq
      <3>3. p - 1 = 0 /\ \A k \in 1 .. p - 1 : FALSE
        BY <2>1
      <3> QED
        BY <3>2, <3>3 DEF Holds
    <2>2. CASE p # 1
      <3>0. c.part > 1
        BY <1>4, <2>2
      <3>1. c.part > 1 /\ ChunkSent(h)
        BY <1>1, <3>0 DEF ChunkSent
      <3>2. h.msg.term <= currentTerm /\ h.msg.term = currentTerm
        BY <1>1, <1>2, <3>1 DEF BufferFits, Follows
      <3>3. Holds(snapshotBuffer, t.snap.parts, p - 1)
        BY <1>4, <3>1, <3>2 DEF BufferFits, Follows
      <3>4. BufferFor(c) = snapshotBuffer
        BY <3>1 DEF BufferFor
      <3> QED
        BY <1>2, <3>3, <3>4
    <2> QED
      BY <2>1, <2>2
  <1> DEFINE b == BufferFor(c)
             w == Written(b, c)
  <1> HIDE DEF b, p, c, t
  <1>7. /\ w \in Seq(Piece) /\ Len(w) = IF Len(b) < p THEN p ELSE Len(b)
        /\ \A k \in 1 .. Len(w) : w[k] = IF k = p THEN c
                                         ELSE IF k <= Len(b) THEN b[k] ELSE Gap
    <2>1. b \in Seq(Piece) /\ c \in Piece /\ c.part = p
      BY <1>2, <1>4, <1>6 DEF b
    <2>2. /\ w \in Seq(Piece)
          /\ Len(w) = IF Len(b) < c.part THEN c.part ELSE Len(b)
          /\ \A k \in 1 .. Len(w) : w[k] = IF k = c.part THEN c
                                           ELSE IF k <= Len(b) THEN b[k] ELSE Gap
      BY <2>1, WrittenType
    <2> HIDE DEF w
    <2> QED
      BY <2>1, <2>2
  <1>8. Len(b) = p - 1 /\ \A k \in 1 .. p - 1 : b[k] = t.snap.parts[k]
    BY <1>6 DEF Holds, b
  <1> HIDE DEF w
  <1>9. Len(w) = p
    BY <1>4, <1>7, <1>8
  <1>10. \A k \in 1 .. p : w[k] = t.snap.parts[k]
    <2> TAKE k \in 1 .. p
    <2>1. CASE k = p
      BY <1>4, <1>7, <1>9, <2>1
    <2>2. CASE k # p
      <3>1. k \in 1 .. p - 1 /\ k <= p - 1
        BY <1>4, <2>2
      <3> QED
        BY <1>7, <1>8, <1>9, <2>2, <3>1
    <2> QED
      BY <2>1, <2>2
  <1>11. snapshotBuffer' = w
    BY <1>1 DEF w, b
  <1> QED
    BY <1>1, <1>2, <1>3, <1>4, <1>5, <1>7, <1>9, <1>10, <1>11 DEF Holds, p, c, t

\* The other chunks on their way after it: each is a first one or too old.
LEMMA OthersBehind ==
    ASSUME TypeInv, OneHeartbeatEach, TransfersApart, OneAtATime, BufferFits,
           NEW h \in handlers, ReceiveChunk(h), NEW f \in handlers, f # h, ChunkSent(f)
    PROVE  f.msg.chunk.part > 1 => f.msg.term < currentTerm'
  <1>1. /\ currentTerm' = h.msg.term /\ h.msg.term >= currentTerm
        /\ h.msg.term \in Nat /\ currentTerm \in Nat
    BY BufferAfter
  <1>2. ChunkSent(h)
    BY DEF ReceiveChunk, ChunkSent
  <1>3. f.msg.term # h.msg.term
    BY <1>2, OneTermOneCall
  <1>4. f.msg.term \in Nat
    BY HandlerIn, HandlerFields
  <1>5. f.msg.chunk.part > 1 => f.msg.term <= currentTerm
    BY DEF BufferFits, Follows
  <1> QED
    BY <1>1, <1>3, <1>4, <1>5

\* Whole snapshots stay so when nothing is written.
LEMMA WholeStays ==
    ASSUME SnapshotsWhole, handlers' \subseteq handlers,
           UNCHANGED <<snapshotBuffer, latestSnapshot, snapFile>>
    PROVE  SnapshotsWhole'
  BY DEF SnapshotsWhole

\* A chunk that is not the last one.
LEMMA NextChunkFits ==
    ASSUME TypeInv, OneHeartbeatEach, TransfersApart, OneAtATime, BufferFits,
           SnapshotsWhole, ~Overlap, NEW h \in handlers, ReceiveChunk(h), ~h.msg.done,
           ~astray'
    PROVE  BufferFits' /\ SnapshotsWhole'
  <1> DEFINE s == h.from
             t == NextPart(h)
  <1>1. /\ h \in Handler /\ s \in Sender /\ s.leader \in Leader
        /\ transfer \in [Sender -> Sending] /\ leaderTerm \in [Leader -> Nat]
    BY HandlerIn, HandlerFields DEF TypeInv, CallsWell, LeadersWell
  <1>2. /\ h.awaited /\ Carries(h.msg, transfer[s])
        /\ h.msg.chunk.part = transfer[s].part
        /\ Holds(snapshotBuffer', transfer[s].snap.parts, transfer[s].part)
        /\ currentTerm' = h.msg.term
        /\ h.msg.term \in Nat
    BY BufferAfter
  <1>3. /\ Reply(h, TRUE) /\ h.msg.kind = "snapshot" /\ Serial
        /\ UNCHANGED <<latestSnapshot, snapFile>>
    BY DEF ReceiveChunk
  <1>4. NextChunk(h) \/ NoNextCall(h)
    BY <1>3, HeartbeatReply
  <1>5. ChunkAnswered(h, TRUE) /\ elected' = elected
    BY <1>2, <1>3 DEF Reply
  <1>6. /\ transfer' = [transfer EXCEPT ![s] = t]
        /\ handlers' = (handlers \ {h}) \cup {Chunk(s, t)}
        /\ leaderTerm[s.leader] = t.term
    BY <1>5 DEF ChunkAnswered, NextPart, GoesAstray
  <1>7. /\ t \in Sending /\ t # NoTransfer /\ t.snap = transfer[s].snap
        /\ t.part = transfer[s].part + 1 /\ transfer[s].part \in Nat \ {0}
        /\ t.term = transfer[s].term
    <2>1. transfer[s] \in Sending /\ transfer[s] # NoTransfer
      BY <1>1, <1>2 DEF Carries
    <2> QED
      BY <1>1, <1>2, <2>1, PartAfter, SendingFields DEF NextPart
  <1> HIDE DEF t
  <1>8. PICK g :
        /\ g = Chunk(s, t)
        /\ g.from = s /\ g.pc = "sent" /\ g.msg.kind = "snapshot"
        /\ g.msg.term = leaderTerm[s.leader] /\ g.msg.chunk.part = t.part
    BY <1>1, <1>7, ChunkCall, SendingFields
  <1>9. h.msg.term = transfer[s].term
    BY <1>3 DEF BufferFits, ChunkSent, ReceiveChunk
  <1>10. \A f \in handlers' : ~Busy(f)
    BY <1>3, <1>6, <1>8 DEF Serial, Busy
  <1>11. g.msg.term = transfer'[g.from].term /\ Follows(g)'
    <2>1. transfer'[g.from] = t /\ t.part - 1 = transfer[s].part
      BY <1>1, <1>6, <1>7, <1>8
    <2>2. Holds(snapshotBuffer', transfer'[g.from].snap.parts, g.msg.chunk.part - 1)
      BY <1>2, <1>7, <1>8, <2>1
    <2>3. g.msg.term = currentTerm'
      BY <1>2, <1>6, <1>7, <1>8, <1>9
    <2>4. g.msg.term <= currentTerm'
      BY <1>2, <2>3
    <2> QED
      BY <1>6, <1>8, <1>10, <2>1, <2>2, <2>3, <2>4 DEF Follows, Installing
  <1>12. ASSUME NEW f \in handlers', ChunkSent(f)
         PROVE  f.msg.term = transfer'[f.from].term /\ Follows(f)'
    <2>1. CASE f = g
      BY <1>11, <2>1
    <2>2. CASE f # g
      <3>1. f \in handlers /\ f # h
        BY <1>6, <1>8, <1>12, <2>2
      <3>2. f.msg.term = transfer'[f.from].term
        <4>1. f.awaited /\ h.awaited /\ f.from \in Sender
          BY <1>2, <1>12, <3>1, HandlerIn, HandlerFields DEF OneAtATime, ChunkSent
        <4>2. f.from # s
          BY <3>1, <4>1 DEF TypeInv, CallsWell
        <4> QED
          BY <1>1, <1>6, <1>12, <3>1, <4>1, <4>2 DEF BufferFits
      <3>3. f.msg.chunk.part > 1 => f.msg.term < currentTerm'
        BY <1>12, <3>1, OthersBehind
      <3>4. f.msg.term \in Nat
        BY <3>1, HandlerIn, HandlerFields
      <3> QED
        BY <1>2, <3>2, <3>3, <3>4 DEF Follows
    <2> QED
      BY <2>1, <2>2
  <1>13. BufferFits'
    BY <1>12 DEF BufferFits, ChunkSent
  <1>14. SnapshotsWhole'
    BY <1>3, <1>10 DEF SnapshotsWhole, Busy
  <1> QED
    BY <1>13, <1>14

\* The last chunk.
LEMMA LastChunkFits ==
    ASSUME TypeInv, OneHeartbeatEach, TransfersApart, OneAtATime, BufferFits,
           SnapshotsWhole, ~Overlap, NEW h \in handlers, ReceiveChunk(h), h.msg.done
    PROVE  BufferFits' /\ SnapshotsWhole'
  <1> DEFINE g == [h EXCEPT !.pc = "save"]
             t == transfer[h.from]
  <1>1. /\ h \in Handler /\ h.from \in Sender /\ t \in Sending
    BY HandlerIn, HandlerFields DEF TypeInv, CallsWell
  <1>2. /\ Carries(h.msg, t) /\ h.msg.chunk.part = t.part
        /\ Holds(snapshotBuffer', t.snap.parts, t.part)
        /\ snapshotBuffer' \in Seq(Piece)
        /\ currentTerm' = h.msg.term /\ h.msg.term \in Nat
    BY BufferAfter
  <1>3. /\ Go(h, "save") /\ KeepLeaders /\ Serial /\ h.msg.kind = "snapshot"
        /\ UNCHANGED <<latestSnapshot, snapFile>>
    BY DEF ReceiveChunk
  <1>4. /\ handlers' = (handlers \ {h}) \cup {g} /\ g.pc = "save"
        /\ transfer' = transfer
    BY <1>1, <1>3, GoFields DEF Go, KeepLeaders, leaderVars
  <1> HIDE DEF g
  <1>5. Whole(snapshotBuffer')
    <2>1. t.snap \in Taken /\ t.part = Len(t.snap.parts)
      BY <1>1, <1>2, SendingFields DEF Carries
    <2>2. t.snap.parts \in Seq(Piece)
      BY <2>1, TakenFields
    <2>3. /\ Len(snapshotBuffer') = Len(t.snap.parts)
          /\ \A k \in 1 .. Len(t.snap.parts) : snapshotBuffer'[k] = t.snap.parts[k]
      BY <1>2, <2>1 DEF Holds
    <2> DEFINE new == snapshotBuffer'
               parts == t.snap.parts
    <2>4. new \in Seq(Piece) /\ parts \in Seq(Piece)
      BY <1>2, <2>2
    <2> HIDE DEF new, parts
    <2>5. new = parts
      BY <2>3, <2>4, SeqEqual DEF new, parts
    <2> QED
      BY <2>1, <2>5 DEF Whole, new, parts
  <1>6. ASSUME NEW f \in handlers', ChunkSent(f)
        PROVE  f.msg.term = transfer'[f.from].term /\ Follows(f)'
    <2>1. f \in handlers /\ f # h
      BY <1>4, <1>6 DEF ChunkSent
    <2>2. f.msg.term = transfer[f.from].term
      BY <1>6, <2>1 DEF BufferFits
    <2>3. f.msg.chunk.part > 1 => f.msg.term < currentTerm'
      BY <1>6, <2>1, OthersBehind
    <2>4. f.msg.term \in Nat
      BY <2>1, HandlerIn, HandlerFields
    <2> QED
      BY <1>2, <1>4, <2>2, <2>3, <2>4 DEF Follows
  <1>7. BufferFits'
    BY <1>6 DEF BufferFits, ChunkSent
  <1>8. \A f \in handlers' : Busy(f) => f = g
    BY <1>3, <1>4 DEF Serial, Busy
  <1>9. \A f \in handlers' : f.pc \notin {"replace", "persist"}
    BY <1>4, <1>8 DEF Busy
  <1>10. SnapshotsWhole'
    BY <1>3, <1>5, <1>9 DEF SnapshotsWhole
  <1> QED
    BY <1>7, <1>10

LEMMA SaveSnapshotFits ==
    ASSUME TypeInv, OneHeartbeatEach, OneAtATime, BufferFits, SnapshotsWhole,
           NEW h \in handlers, SaveSnapshot(h)
    PROVE  BufferFits' /\ SnapshotsWhole'
  <1>1. /\ h \in Handler /\ h.pc = "save" /\ lastApplied \in Index
        /\ snapshotBuffer \in Seq(Piece)
        /\ UNCHANGED <<currentTerm, snapshotBuffer, latestSnapshot>>
    BY HandlerIn DEF TypeInv, MemoryWell, SaveSnapshot, memory
  <1>2. CASE Reply(h, FALSE) /\ UNCHANGED snapFile
    <2>1. NoNextCall(h) /\ elected' = elected
      BY <1>2, HeartbeatReply
    <2>2. handlers' \subseteq handlers
      BY <2>1 DEF NoNextCall
    <2> QED
      BY <1>1, <1>2, <2>1, <2>2, NoNextCallFits, WholeStays
  <1>3. CASE ~(Reply(h, FALSE) /\ UNCHANGED snapFile)
    <2>1. PICK snap \in (IF h.msg.kind = "append" THEN {Snapshot(Self, lastApplied)}
                         ELSE Deserialized(snapshotBuffer)) :
            /\ saveSnapshot(snap)
            /\ handlers' = (handlers \ {h}) \cup
                           {[h EXCEPT !.pc = "replace", !.snap = snap]}
            /\ KeepLeaders
      BY <1>3 DEF SaveSnapshot
    <2>2. snap \in AnySnapshot /\ Whole(snap.parts)
      <3>1. CASE h.msg.kind = "append"
        <4>1. Snapshot(Self, lastApplied) \in Taken
              /\ Snapshot(Self, lastApplied) \in AnySnapshot
          BY <1>1, SnapshotFields
        <4> QED
          BY <2>1, <3>1, <4>1 DEF Whole
      <3>2. CASE h.msg.kind # "append"
        <4>1. h.msg.kind = "snapshot"
          BY <1>1, <3>2, HandlerFields
        <4>2. Whole(snapshotBuffer)
          BY <1>1, <4>1 DEF SnapshotsWhole
        <4>3. snap \in AnySnapshot /\ snap.parts = snapshotBuffer
          BY <1>1, <2>1, <3>2, DeserializedType
        <4> QED
          BY <4>2, <4>3
      <3> QED
        BY <3>1, <3>2
    <2> DEFINE g == [h EXCEPT !.pc = "replace", !.snap = snap]
    <2>3. /\ g \in Handler /\ g.from = h.from /\ g.msg = h.msg
          /\ g.awaited = h.awaited /\ g.pc = "replace" /\ g.snap = snap
      BY <1>1, <2>2 DEF Handler
    <2> HIDE DEF g
    <2>4. Moved(h, g)
      BY <2>1, <2>3 DEF Moved, KeepLeaders, history, g
    <2>5. BufferFits'
      BY <1>1, <2>4, MovedFits
    <2>6. \A f \in handlers' : f = g \/ (f \in handlers /\ ~Busy(f))
      <3>1. \A f \in handlers \ {h} : ~Busy(f)
        BY <1>1 DEF OneAtATime, Busy
      <3> QED
        BY <2>4, <3>1 DEF Moved
    <2>7. SnapshotsWhole'
      BY <1>1, <2>1, <2>2, <2>3, <2>6 DEF SnapshotsWhole, Busy, saveSnapshot
    <2> QED
      BY <2>5, <2>7
  <1> QED
    BY <1>2, <1>3

LEMMA ReplaceFits ==
    ASSUME TypeInv, OneAtATime, BufferFits, SnapshotsWhole, NEW h \in handlers,
           Install(h) \/ Truncate(h)
    PROVE  BufferFits' /\ SnapshotsWhole'
  <1> DEFINE g == [h EXCEPT !.pc = "persist"]
  <1>1. /\ h \in Handler /\ h.pc = "replace" /\ Go(h, "persist")
        /\ UNCHANGED leaderVars /\ astray' = astray /\ torn' = torn
        /\ latestSnapshot' = h.snap
        /\ UNCHANGED <<currentTerm, snapshotBuffer, snapFile>>
    BY HandlerIn DEF Install, Truncate, KeepLeaders, history, disk
  <1>2. Moved(h, g) /\ g.pc = "persist" /\ g.snap = h.snap
    BY <1>1, GoMoves, GoFields
  <1> HIDE DEF g
  <1>3. BufferFits'
    BY <1>1, <1>2, MovedFits
  <1>4. Whole(h.snap.parts)
    BY <1>1 DEF SnapshotsWhole
  <1>5. \A f \in handlers' : f = g \/ f \in handlers
    BY <1>2 DEF Moved
  <1>6. SnapshotsWhole'
    BY <1>1, <1>2, <1>4, <1>5 DEF SnapshotsWhole
  <1> QED
    BY <1>3, <1>6

LEMMA PersistFits ==
    ASSUME TypeInv, OneHeartbeatEach, OneAtATime, BufferFits, SnapshotsWhole,
           NEW h \in handlers, Persist(h)
    PROVE  BufferFits' /\ SnapshotsWhole'
  <1>1. /\ h \in Handler /\ PcWell(h) /\ h.pc = "persist" /\ Reply(h, TRUE)
        /\ snapshotBuffer' = IF h.msg.kind = "snapshot" THEN <<>> ELSE snapshotBuffer
        /\ UNCHANGED <<currentTerm, latestSnapshot, snapFile>>
    BY HandlerIn DEF Persist
  <1>2. NoNextCall(h) /\ elected' = elected
    <2>1. ~NextChunk(h)
      BY <1>1 DEF NextChunk, PcWell
    <2> QED
      BY <1>1, <2>1, HeartbeatReply
  <1>3. \A f \in handlers' : f \in handlers /\ ~Busy(f)
    BY <1>1, <1>2 DEF NoNextCall, OneAtATime, Busy
  <1>4. SnapshotsWhole'
    BY <1>1, <1>3 DEF SnapshotsWhole, Busy
  <1>5. CASE h.msg.kind = "append"
    BY <1>1, <1>2, <1>4, <1>5, NoNextCallFits
  <1>6. CASE h.msg.kind = "snapshot"
    <2>1. Installing(h)
      BY <1>1, <1>6 DEF Installing, Busy
    <2>2. ASSUME NEW f \in handlers', ChunkSent(f)
          PROVE  f.msg.term = transfer'[f.from].term /\ Follows(f)'
      <3>1. f \in handlers
        BY <1>3
      <3>2. f.msg.term = transfer'[f.from].term
        <4>1. f.awaited /\ f # h /\ f.from \in Sender /\ transfer \in [Sender -> Sending]
          BY <1>1, <2>2, <3>1, HandlerIn, HandlerFields
             DEF OneAtATime, ChunkSent, TypeInv, CallsWell
        <4>2. h.awaited => f.from # h.from
          BY <3>1, <4>1 DEF TypeInv, CallsWell
        <4>3. transfer'[f.from] = transfer[f.from]
          BY <1>2, <4>1, <4>2 DEF NoNextCall
        <4> QED
          BY <2>2, <3>1, <4>3 DEF BufferFits
      <3>3. f.msg.chunk.part > 1 => f.msg.term <= currentTerm /\ f.msg.term # currentTerm
        BY <2>1, <2>2, <3>1 DEF BufferFits, Follows
      <3> QED
        BY <1>1, <1>2, <3>2, <3>3 DEF Follows
    <2>3. BufferFits'
      BY <2>2 DEF BufferFits, ChunkSent
    <2> QED
      BY <1>4, <2>3
  <1> QED
    BY <1>1, <1>5, <1>6, HandlerFields

LEMMA EntriesFit ==
    ASSUME TypeInv, OneHeartbeatEach, OneAtATime, BufferFits, SnapshotsWhole,
           NEW h \in handlers,
           ReceiveEntries(h) \/ Stick(h) \/ PersistAndApply(h) \/ Refuse(h)
    PROVE  BufferFits' /\ SnapshotsWhole'
  <1>1. /\ h \in Handler /\ PcWell(h)
        /\ UNCHANGED <<currentTerm, snapshotBuffer, latestSnapshot, snapFile>>
    BY HandlerIn DEF ReceiveEntries, Stick, PersistAndApply, Refuse, memory, disk
  <1>2. ASSUME NEW g, Moved(h, g), h.msg.kind = "append", h.pc # "stuck",
               g.pc \notin {"replace", "persist"}
        PROVE  BufferFits' /\ SnapshotsWhole'
    <2>1. BufferFits'
      BY <1>1, <1>2, MovedFits
    <2>2. \A f \in handlers' : f = g \/ f \in handlers
      BY <1>2 DEF Moved
    <2>3. g.msg.kind # "snapshot"
      BY <1>2 DEF Moved
    <2> QED
      BY <1>1, <1>2, <2>1, <2>2, <2>3 DEF SnapshotsWhole
  <1>3. ASSUME NEW success \in BOOLEAN, Reply(h, success),
               ~success \/ h.msg.kind = "append"
        PROVE  BufferFits' /\ SnapshotsWhole'
    <2>1. ~(NextChunk(h) /\ success)
      BY <1>3 DEF NextChunk
    <2>2. NoNextCall(h) /\ elected' = elected
      BY <1>3, <2>1, HeartbeatReply
    <2>3. handlers' \subseteq handlers
      BY <2>2 DEF NoNextCall
    <2> QED
      BY <1>1, <2>2, <2>3, NoNextCallFits, WholeStays
  <1>4. CASE ReceiveEntries(h)
    <2> DEFINE ok == PrevLogMatches(log, latestSnapshot, h.msg.prevLogIndex,
                                    h.msg.prevLogTerm)
               g == [h EXCEPT !.pc = "log", !.success = ok]
    <2>1. /\ handlers' = (handlers \ {h}) \cup {g} /\ KeepLeaders
          /\ h.msg.kind = "append" /\ h.pc = "sent"
      BY <1>4 DEF ReceiveEntries
    <2>2. ok \in BOOLEAN
      BY DEF PrevLogMatches
    <2> HIDE DEF ok
    <2>3. /\ g \in Handler /\ g.from = h.from /\ g.msg = h.msg
          /\ g.awaited = h.awaited /\ g.pc = "log"
      BY <1>1, <2>2 DEF Handler
    <2> HIDE DEF g
    <2>4. Moved(h, g)
      BY <2>1, <2>3 DEF Moved, KeepLeaders, history
    <2> QED
      BY <1>2, <2>1, <2>3, <2>4
  <1>5. ASSUME NEW pc \in {"save", "stuck"}, Go(h, pc), KeepLeaders,
               h.msg.kind = "append", h.pc # "stuck"
        PROVE  BufferFits' /\ SnapshotsWhole'
    <2>1. Moved(h, [h EXCEPT !.pc = pc]) /\ [h EXCEPT !.pc = pc].pc = pc
      BY <1>1, <1>5, GoMoves DEF KeepLeaders, history
    <2> QED
      BY <1>2, <1>5, <2>1
  <1>6. CASE Stick(h)
    BY <1>5, <1>6 DEF Stick
  <1>7. CASE PersistAndApply(h)
    <2>1. h.msg.kind = "append" /\ h.pc = "log" /\ h.success \in BOOLEAN
      BY <1>1, <1>7, HandlerFields DEF PersistAndApply, PcWell
    <2>2. (Go(h, "save") /\ KeepLeaders) \/ Reply(h, h.success)
      BY <1>7 DEF PersistAndApply
    <2> QED
      BY <1>3, <1>5, <2>1, <2>2
  <1>8. CASE Refuse(h)
    BY <1>3, <1>8 DEF Refuse
  <1> QED
    BY <1>4, <1>6, <1>7, <1>8

LEMMA RoundFits ==
    ASSUME TypeInv, LeadersApart, OneAtATime, BufferFits, SnapshotsWhole,
           NEW s \in Sender, Round(s)
    PROVE  BufferFits' /\ SnapshotsWhole'
  <1> DEFINE l == s.leader
             t == Begun(s)
  <1>1. /\ l \in Leader /\ leading[l] /\ transfer \in [Sender -> Sending]
        /\ leaderTerm \in [Leader -> Nat] /\ leaderSnapshot \in [Leader -> Taken]
        /\ nextIndex \in [Leader -> 0 .. Len(History)]
        /\ \A h \in handlers : h.from \in Sender
    BY HandlerFields DEF Round, Leader, TypeInv, LeadersWell, CallsWell
  <1>2. /\ \A h \in handlers : h.from = s => ~h.awaited
        /\ UNCHANGED <<elected, currentTerm, snapshotBuffer, latestSnapshot, snapFile>>
    BY DEF Round, electionVars, memory, disk
  <1>3. leaderTerm[l] = elected[l]
    BY <1>1 DEF LeadersApart
  <1>4. ASSUME NEW h \in handlers, ChunkSent(h) PROVE transfer'[h.from] = transfer[h.from]
    <2>1. h.from # s
      BY <1>2, <1>4 DEF OneAtATime, ChunkSent
    <2>2. \A r \in Sender : r # s => transfer'[r] = transfer[r]
      BY <1>1 DEF Round
    <2> QED
      BY <1>1, <2>1, <2>2
  <1>5. ASSUME NEW g, handlers' = handlers \cup {g}, g.pc = "sent",
               g.msg.kind = "snapshot" =>
                   /\ g.msg.term = transfer'[g.from].term
                   /\ g.msg.chunk.part = 1
        PROVE  BufferFits' /\ SnapshotsWhole'
    <2>1. ~Busy(g)
      BY <1>5 DEF Busy
    <2>2. ASSUME NEW h \in handlers', ChunkSent(h)
          PROVE  h.msg.term = transfer'[h.from].term /\ Follows(h)'
      <3>1. CASE h = g
        BY <1>2, <1>5, <2>2, <3>1 DEF ChunkSent, Follows
      <3>2. CASE h # g
        <4>1. h \in handlers /\ h.msg.term = transfer[h.from].term /\ Follows(h)
          BY <1>5, <2>2, <3>2 DEF BufferFits
        <4>2. transfer'[h.from] = transfer[h.from]
          BY <1>4, <2>2, <4>1
        <4>3. (\A f \in handlers : ~Installing(f)) => \A f \in handlers' : ~Installing(f)
          BY <1>5, <2>1 DEF Installing
        <4> QED
          BY <1>2, <4>1, <4>2, <4>3 DEF Follows, Installing, Busy
      <3> QED
        BY <3>1, <3>2
    <2>3. BufferFits'
      BY <2>2 DEF BufferFits, ChunkSent
    <2>4. SnapshotsWhole'
      BY <1>2, <1>5 DEF SnapshotsWhole
    <2> QED
      BY <2>3, <2>4
  <1>6. CASE s.thread = "heart" /\ NeedsSnapshot(l)
    <2>1. t \in Sending /\ t # NoTransfer /\ t.part = 1 /\ t.term = elected[l]
      BY SnapshotStarts DEF TypeInv
    <2>2. handlers' = handlers \cup {Chunk(s, t)} /\ transfer'[s] = t
      BY <1>1, <1>6 DEF Round
    <2> HIDE DEF t
    <2>3. /\ Chunk(s, t).pc = "sent" /\ Chunk(s, t).from = s
          /\ Chunk(s, t).msg.term = leaderTerm[l]
          /\ Chunk(s, t).msg.chunk.part = 1
      BY <1>1, <2>1, ChunkCall, SendingFields, SMTT(30)
    <2> QED
      BY <1>3, <1>5, <2>1, <2>2, <2>3
  <1>7. CASE ~(s.thread = "heart" /\ NeedsSnapshot(l))
    <2>1. PICK commit \in leaderSnapshot[l].lastIncludedIndex .. Len(History) - 1 :
              handlers' = handlers \cup {AppendEntries(s, commit)}
      BY <1>7 DEF Round
    <2>2. commit \in Index
      <3>1. leaderSnapshot[l].lastIncludedIndex \in Nat /\ Len(History) \in Nat
        BY <1>1, TakenFields, HistoryFacts
      <3> QED
        BY <3>1 DEF Index
    <2>3. /\ AppendEntries(s, commit).pc = "sent"
          /\ AppendEntries(s, commit).msg.kind = "append"
      BY <1>1, <2>2, AppendCall
    <2> QED
      BY <1>5, <2>1, <2>3
  <1> QED
    BY <1>6, <1>7

LEMMA CallTimesOutFits ==
    ASSUME TypeInv, OneAtATime, BufferFits, SnapshotsWhole, ~Overlap,
           NEW h \in handlers, CallTimesOut(h)
    PROVE  BufferFits' /\ SnapshotsWhole'
  <1> DEFINE g == [h EXCEPT !.awaited = FALSE]
  <1>1. /\ h \in Handler /\ h.awaited
        /\ transfer' = [transfer EXCEPT ![h.from] = NoTransfer]
        /\ transfer \in [Sender -> Sending]
        /\ UNCHANGED <<elected, currentTerm, snapshotBuffer, latestSnapshot, snapFile>>
    BY HandlerIn DEF CallTimesOut, TypeInv, CallsWell, electionVars, memory, disk
  <1>2. /\ g.pc = h.pc /\ g.msg = h.msg /\ g.snap = h.snap
    BY <1>1 DEF Handler
  <1>3. \/ handlers' = handlers \ {h}
        \/ h.pc # "sent" /\ handlers' = (handlers \ {h}) \cup {g}
    BY DEF CallTimesOut
  <1> HIDE DEF g
  <1>4. \A f \in handlers' : f \in handlers \ {h} \/ (f = g /\ h.pc # "sent")
    BY <1>3
  <1>5. ASSUME NEW f \in handlers', ChunkSent(f)
        PROVE  f \in handlers /\ transfer'[f.from] = transfer[f.from]
    <2>1. f \in handlers \ {h}
      BY <1>2, <1>4, <1>5 DEF ChunkSent
    <2>2. f.awaited
      BY <1>5, <2>1 DEF OneAtATime, ChunkSent
    <2>3. f.from # h.from /\ f.from \in Sender
      BY <1>1, <2>1, <2>2, HandlerIn, HandlerFields DEF TypeInv, CallsWell
    <2> QED
      BY <1>1, <2>1, <2>3
  <1>6. \A f \in handlers' : Installing(f) => \E e \in handlers : Installing(e)
    BY <1>2, <1>4 DEF Installing, Busy
  <1>7. BufferFits'
    BY <1>1, <1>5, <1>6, FitsStay
  <1>8. SnapshotsWhole'
    BY <1>1, <1>2, <1>4 DEF SnapshotsWhole
  <1> QED
    BY <1>7, <1>8

LEMMA ElectFits ==
    ASSUME BufferFits, SnapshotsWhole, NEW l \in Leader, Elect(l)
    PROVE  BufferFits' /\ SnapshotsWhole'
  <1>1. UNCHANGED <<transfer, handlers, currentTerm, snapshotBuffer, latestSnapshot,
                    snapFile>>
    BY DEF Elect, memory, disk
  <1> QED
    BY <1>1 DEF BufferFits, Follows, ChunkSent, Installing, Busy, SnapshotsWhole

LEMMA HearCandidateFits ==
    ASSUME TypeInv, BufferFits, SnapshotsWhole, HearCandidate
    PROVE  BufferFits' /\ SnapshotsWhole'
  <1>1. PICK l \in Leader : elected[l] > currentTerm /\ HearTerm(elected[l])
    BY DEF HearCandidate
  <1>2. /\ UNCHANGED <<handlers, transfer, elected, snapshotBuffer, latestSnapshot,
                       snapFile>>
        /\ elected[l] \in Nat /\ currentTerm \in Nat
    BY DEF HearCandidate, KeepLeaders, leaderVars, electionVars, TypeInv, LeadersWell,
           MemoryWell
  <1>3. currentTerm' > currentTerm /\ currentTerm' \in Nat
    BY <1>1, <1>2 DEF HearTerm
  <1>4. ASSUME NEW h \in handlers', ChunkSent(h)
        PROVE  h.msg.term = transfer'[h.from].term /\ Follows(h)'
    <2>1. h \in handlers /\ h.msg.term = transfer[h.from].term
          /\ (h.msg.chunk.part > 1 => h.msg.term <= currentTerm)
      BY <1>2, <1>4 DEF BufferFits, Follows
    <2>2. h.msg.term \in Nat
      BY <2>1, HandlerIn, HandlerFields
    <2>3. h.msg.chunk.part > 1 => h.msg.term <= currentTerm' /\ h.msg.term # currentTerm'
      BY <1>2, <1>3, <2>1, <2>2
    <2> QED
      BY <1>2, <2>1, <2>3 DEF Follows
  <1>5. BufferFits'
    BY <1>4 DEF BufferFits, ChunkSent
  <1>6. SnapshotsWhole'
    BY <1>2 DEF SnapshotsWhole
  <1> QED
    BY <1>5, <1>6

LEMMA CrashRestartFits ==
    ASSUME OneAtATime, SnapshotsWhole, Crash \/ Restart
    PROVE  BufferFits' /\ SnapshotsWhole'
  <1>1. CASE Crash
    <2>1. /\ handlers' = {} /\ latestSnapshot' = latestSnapshot
          /\ snapFile' \in {snapFile, Torn}
      BY <1>1 DEF Crash, memory
    <2> QED
      BY <2>1 DEF BufferFits, SnapshotsWhole
  <1>2. CASE Restart
    <2>1. handlers = {} /\ handlers' = {}
      BY <1>2 DEF Restart, OneAtATime
    <2>2. snapFile' = snapFile
      BY <1>2 DEF Restart, disk
    <2>3. latestSnapshot' = latestSnapshot
          \/ (latestSnapshot' = snapFile /\ snapFile # Torn)
      BY <1>2 DEF Restart, memory
    <2> QED
      BY <2>1, <2>2, <2>3 DEF BufferFits, SnapshotsWhole
  <1> QED
    BY <1>1, <1>2

LEMMA WholeStep ==
    ASSUME OneHeartbeatEach, ~Overlap, WholeInv, [Next]_vars
    PROVE  WholeInv'
  <1>1. TypeInv /\ LeadersApart /\ TransfersApart /\ OneAtATime
    BY DEF WholeInv
  <1>2. TypeInv' /\ LeadersApart' /\ TransfersApart' /\ OneAtATime'
    BY <1>1, TypeStep, LeadersApartStep, TransfersApartStep, OneAtATimeStep
  <1>3. astray \in BOOLEAN
    BY <1>1 DEF TypeInv, CountsWell
  <1>4. ASSUME ~astray' PROVE BufferFits' /\ SnapshotsWhole'
    <2>1. ASSUME NEW h \in handlers, HandlerStep(h)
          PROVE  BufferFits' /\ SnapshotsWhole'
      <3>1. ~astray
        <4>1. (\E g \in Handler : Moved(h, g))
              \/ \E success \in BOOLEAN : Reply(h, success)
          BY <1>1, <2>1, HandlerEffect
        <4>2. ASSUME NEW success \in BOOLEAN, Reply(h, success) PROVE ~astray
          BY <1>1, <1>4, <4>2, HeartbeatReply DEF NoNextCall, NextChunk
        <4> QED
          BY <1>4, <4>1, <4>2 DEF Moved
      <3>2. BufferFits /\ SnapshotsWhole
        BY <3>1 DEF WholeInv
      <3>3. CASE ReceiveChunk(h)
        BY <1>1, <1>4, <3>2, <3>3, NextChunkFits, LastChunkFits
      <3>4. CASE SaveSnapshot(h)
        BY <1>1, <3>2, <3>4, SaveSnapshotFits
      <3>5. CASE Install(h) \/ Truncate(h)
        BY <1>1, <3>2, <3>5, ReplaceFits
      <3>6. CASE Persist(h)
        BY <1>1, <3>2, <3>6, PersistFits
      <3>7. CASE ReceiveEntries(h) \/ Stick(h) \/ PersistAndApply(h) \/ Refuse(h)
        BY <1>1, <3>2, <3>7, EntriesFit
      <3> QED
        BY <2>1, <3>3, <3>4, <3>5, <3>6, <3>7 DEF HandlerStep
    <2>2. ASSUME ~\E h \in handlers : HandlerStep(h)
          PROVE  BufferFits' /\ SnapshotsWhole'
      <3>1. astray' = astray
        BY <2>2 DEF Next, Round, CallTimesOut, Elect, Deposed, LeaderSnapshot,
                    HearCandidate, KeepLeaders, Crash, Restart, vars, history
      <3>2. BufferFits /\ SnapshotsWhole
        BY <1>4, <3>1 DEF WholeInv
      <3>3. ASSUME NEW s \in Sender, Round(s) PROVE BufferFits' /\ SnapshotsWhole'
        BY <1>1, <3>2, <3>3, RoundFits
      <3>4. ASSUME NEW h \in handlers, CallTimesOut(h)
            PROVE  BufferFits' /\ SnapshotsWhole'
        BY <1>1, <3>2, <3>4, CallTimesOutFits
      <3>5. ASSUME NEW l \in Leader, Elect(l) PROVE BufferFits' /\ SnapshotsWhole'
        BY <1>1, <3>2, <3>5, ElectFits
      <3>6. CASE HearCandidate
        BY <1>1, <3>2, <3>6, HearCandidateFits
      <3>7. CASE Crash \/ Restart
        BY <1>1, <3>2, <3>7, CrashRestartFits
      <3>8. ASSUME \/ \E l \in Leader : Deposed(l)
                   \/ \E l \in Leader, i \in Index : LeaderSnapshot(l, i)
                   \/ UNCHANGED vars
            PROVE  BufferFits' /\ SnapshotsWhole'
        <4>1. UNCHANGED <<handlers, transfer, elected, currentTerm, snapshotBuffer,
                          latestSnapshot, snapFile>>
          BY <3>8 DEF Deposed, LeaderSnapshot, vars, leaderVars, electionVars, memory,
                      disk
        <4> QED
          BY <3>2, <4>1 DEF BufferFits, SnapshotsWhole, Follows, ChunkSent, Installing,
                            Busy
      <3> QED
        BY <2>2, <3>3, <3>4, <3>5, <3>6, <3>7, <3>8 DEF Next
    <2> QED
      BY <2>1, <2>2
  <1> QED
    BY <1>2, <1>4 DEF WholeInv

\* With one handler of the follower at a time and one heartbeat thread per leader,
\* the snapshot a follower works with is one that somebody took, from its first
\* chunk to its last, over any number of elections, lost calls, restarts and
\* snapshots, as long as no transfer is continued under a later term than the one it
\* was begun in, by a leader that was deposed or that leads again: the term check of
\* the InstallSnapshot handler keeps two transfers apart in one buffer.
THEOREM SnapshotsStayWhole ==
    ASSUME OneHeartbeatEach, ~Overlap
    PROVE  Spec => []WholeUnlessAstray
  <1>1. Init => WholeInv
    <2> SUFFICES ASSUME Init PROVE WholeInv
      OBVIOUS
    <2>1. TypeInv /\ LeadersApart /\ TransfersApart /\ OneAtATime
      BY TypeInit, LeadersApartInit, TransfersApartInit, OneAtATimeInit
    <2>2. handlers = {} /\ latestSnapshot = NoSnap /\ snapFile = NoSnap
      BY DEF Init
    <2>3. BufferFits /\ SnapshotsWhole
      BY <2>2 DEF BufferFits, SnapshotsWhole
    <2> QED
      BY <2>1, <2>3 DEF WholeInv
  <1>2. WholeInv /\ [Next]_vars => WholeInv'
    BY WholeStep
  <1>3. WholeInv => WholeUnlessAstray
    BY DEF WholeInv, SnapshotsWhole, WholeUnlessAstray, SnapshotWhole
  <1> QED
    BY <1>1, <1>2, <1>3, PTL DEF Spec

-----------------------------------------------------------------------------
(* The follower's entries stay where their index says.                     *)

\* A vector holds the leaders' entries from the one after a snapshot on, a batch
\* those after its prevLogIndex.
Placed(v, snap) == \A k \in 1 .. Len(v) : v[k] = Entry(baseIndex(snap) + k - 1)
Straight(m) ==
    /\ m.prevLogIndex \in Nat
    /\ \A k \in 1 .. Len(m.entries) : m.entries[k] = Entry(m.prevLogIndex + k)

\* A batch that passes the consistency check starts in the vector or right behind
\* it; in the vector it finds its own first entry, and is skipped.
LEMMA BatchPlaced ==
    ASSUME NEW lg \in Vector, NEW snap \in AnySnapshot, NEW m, m.entries \in Vector,
           Straight(m), Placed(lg, snap), NEW term,
           PrevLogMatches(lg, snap, m.prevLogIndex, term)
    PROVE  LET new == AppendBatch(lg, snap, m.prevLogIndex, m.entries)
           IN  Placed(new, snap) /\ Len(lg) <= Len(new)
  <1> DEFINE b == baseIndex(snap)
             n == Len(lg)
             prev == m.prevLogIndex
             entries == m.entries
             at == prev + 1 - b
             new == AppendBatch(lg, snap, prev, entries)
  <1>1. /\ b \in Nat /\ n \in Nat /\ prev \in Nat /\ entries \in Vector
        /\ Len(entries) \in Nat /\ lg \in Seq(LogEntry) /\ entries \in Seq(LogEntry)
        /\ snap.lastIncludedIndex = b - 1 /\ getLogSize(lg, snap) = b + n
    <2>1. b \in Nat /\ snap.lastIncludedIndex \in Int /\ b = snap.lastIncludedIndex + 1
      BY AnySnapshotFields, HistoryFacts
    <2> QED
      BY <2>1, VectorFields DEF Straight, getLogSize
  <1>2. at \in 0 .. n
    <2>1. \/ prev = b - 1
          \/ prev > b - 1 /\ prev < b + n
      BY <1>1 DEF PrevLogMatches
    <2> HIDE DEF prev, b, n
    <2> QED
      BY <1>1, <2>1
  <1>3. /\ \A k \in 1 .. n : lg[k] = Entry(b + k - 1)
        /\ \A k \in 1 .. Len(entries) : entries[k] = Entry(prev + k)
    BY DEF Placed, Straight
  <1>4. CASE entries = <<>>
    <2>1. new = lg
      BY <1>4 DEF AppendBatch
    <2> QED
      BY <1>1, <2>1
  <1>5. CASE entries # <<>> /\ at \in 0 .. n - 1
    <2>1. Len(entries) \in Nat \ {0} /\ 1 \in 1 .. Len(entries)
      BY <1>1, <1>5, EmptySeq
    <2>2. entries[1] = Entry(prev + 1)
      BY <1>3, <2>1
    <2>3. at + 1 \in 1 .. n /\ b + (at + 1) - 1 = prev + 1
      <3> HIDE DEF prev, b, n
      <3> QED
        BY <1>1, <1>5
    <2>4. lg[at + 1] = Entry(prev + 1)
      <3> HIDE DEF at, prev, b, n
      <3> QED
        BY <1>3, <2>3
    <2>5. new = lg
      BY <1>5, <2>2, <2>4 DEF AppendBatch
    <2> QED
      BY <1>1, <2>5
  <1>6. CASE entries # <<>> /\ at \notin 0 .. n - 1
    <2>1. Len(entries) \in Nat \ {0} /\ 1 \in 1 .. Len(entries)
      BY <1>1, <1>6, EmptySeq
    <2>2. prev + 1 = b + n
      <3> HIDE DEF prev, b, n
      <3> QED
        BY <1>1, <1>2, <1>6
    <2>3. entries[1].index = b + n
      <3>1. entries[1] = Entry(prev + 1)
        BY <1>3, <2>1
      <3>2. \A i \in Nat : Entry(i).index = i
        BY DEF Entry
      <3> HIDE DEF entries, prev, b, n
      <3> QED
        BY <1>1, <2>2, <3>1, <3>2
    <2>4. getLogSize(lg, snap) - entries[1].index = 0
      <3> HIDE DEF entries, b, n
      <3> QED
        BY <1>1, <2>3
    <2>5. SubSeq(entries, 0 + 1, Len(entries)) = entries
      BY <1>1, SubSeqFull
    <2>6. new = lg \o entries
      <3>1. PushMissing(lg, snap, entries) = lg \o SubSeq(entries, 0 + 1, Len(entries))
        BY <2>4 DEF PushMissing
      <3> QED
        BY <1>6, <2>5, <3>1 DEF AppendBatch
    <2>7. /\ Len(lg \o entries) = n + Len(entries)
          /\ \A k \in 1 .. n + Len(entries) :
                (lg \o entries)[k] = IF k <= n THEN lg[k] ELSE entries[k - n]
      BY <1>1, ConcatProperties
    <2>8. ASSUME NEW k \in 1 .. n + Len(entries)
          PROVE  (lg \o entries)[k] = Entry(b + k - 1)
      <3> HIDE DEF entries, n, b, prev
      <3>1. CASE k <= n
        <4>1. k \in 1 .. n
          BY <1>1, <3>1
        <4> QED
          BY <1>3, <2>7, <3>1, <4>1
      <3>2. CASE ~(k <= n)
        <4>1. k - n \in 1 .. Len(entries) /\ prev + (k - n) = b + k - 1
          BY <1>1, <2>2, <3>2
        <4>2. entries[k - n] = Entry(prev + (k - n))
          BY <1>3, <4>1
        <4> QED
          BY <2>7, <3>2, <4>1, <4>2
      <3> QED
        BY <3>1, <3>2
    <2>9. n <= n + Len(entries)
      BY <1>1
    <2> QED
      BY <2>6, <2>7, <2>8, <2>9 DEF Placed
  <1> QED
    BY <1>2, <1>4, <1>5, <1>6

\* What the follower has applied ends in its vector or with its snapshot; a
\* snapshot of its own is the one of what it has applied.
Applied ==
    /\ commitIndex <= lastApplied
    /\ latestSnapshot.lastIncludedIndex <= lastApplied
    /\ lastApplied = 0 \/ lastApplied < getLogSize(log, latestSnapshot)
Compacts ==
    \A h \in handlers : h.msg.kind = "append" =>
        /\ h.pc \in {"save", "replace"} => Len(log) > 0
        /\ h.pc = "replace" => h.snap.lastIncludedIndex = lastApplied

\* The snapshot file is ahead of the follower's state while a handler replaces
\* that, and ahead of the metadata file until the handler has persisted it.
FilesFollow ==
    /\ up = "up" => Readable
    /\ \A h \in handlers : h.pc = "replace" => h.snap = snapFile
    /\ up = "up" /\ (\A h \in handlers : h.pc # "replace") =>
          snapFile = latestSnapshot
    /\ Readable /\ (\A h \in handlers : h.pc \notin {"replace", "persist"}) =>
          Placed(metadata.log, snapFile)

AllStraight == \A h \in handlers : h.msg.kind = "append" => Straight(h.msg)
InPlace == Placed(log, latestSnapshot) /\ Applied /\ Compacts /\ FilesFollow
PlaceInv ==
    /\ TypeInv /\ LeadersApart /\ OneAtATime
    /\ AllStraight
    /\ ~torn => InPlace

\* A heartbeat thread sends entries from nextIndex on, or else the snapshot.
LEMMA RoundStraight ==
    ASSUME TypeInv, OneHeartbeatEach, AllStraight, NEW s \in Sender, Round(s)
    PROVE  /\ AllStraight'
           /\ \A g \in handlers' : g \in handlers \/ g.pc = "sent"
           /\ handlers \subseteq handlers'
  <1> DEFINE l == s.leader
             snap == leaderSnapshot[l]
             next == nextIndex[l]
             t == [snap |-> snap, part |-> 1, term |-> elected[l]]
  <1>1. l \in Leader /\ s.thread = "heart"
    BY DEF Leader, OneHeartbeatEach
  <1>2. snap \in Taken /\ next \in 0 .. Len(History)
    BY <1>1 DEF TypeInv, LeadersWell
  <1>3. CASE NeedsSnapshot(l)
    <2>1. handlers' = handlers \cup {Chunk(s, t)}
      BY <1>1, <1>3 DEF Round, Begun
    <2>2. Chunk(s, t).pc = "sent" /\ Chunk(s, t).msg.kind = "snapshot"
      BY DEF Chunk, Call
    <2> QED
      BY <2>1, <2>2 DEF AllStraight
  <1>4. CASE ~NeedsSnapshot(l)
    <2>1. PICK commit : handlers' = handlers \cup {AppendEntries(s, commit)}
      BY <1>1, <1>4 DEF Round
    <2> DEFINE g == AppendEntries(s, commit)
               b == baseIndex(snap)
               lg == EntriesFrom(b, Len(History))
               entries == getLogEntries(lg, snap, next, Len(History))
               first == IF next > b THEN next ELSE b
    <2>2. /\ g.pc = "sent" /\ g.msg.prevLogIndex = next - 1 /\ g.msg.entries = entries
      BY DEF AppendEntries, Call, LeaderLog
    <2>3. \A k \in 1 .. Len(entries) : entries[k] = Entry(first + k - 1)
      <3> HIDE DEF snap, next
      <3> QED
        BY <1>2, BatchType DEF b, lg
    <2>4. b \in Nat \ {0} /\ b <= next /\ next \in Nat /\ Len(entries) \in Nat
      <3>1. snap.lastIncludedIndex \in Nat
        BY <1>2, TakenFields, HistoryFacts
      <3>2. next > snap.lastIncludedIndex
        BY <1>2, <1>4, <3>1 DEF NeedsSnapshot
      <3>3. next \in Nat
        BY <1>2, HistoryFacts
      <3>4. entries \in Vector
        <4> HIDE DEF snap, next
        <4> QED
          BY <1>2, BatchType DEF b, lg
      <3>5. b = snap.lastIncludedIndex + 1
        BY DEF baseIndex
      <3>6. Len(entries) \in Nat
        BY <3>4, VectorFields
      <3> HIDE DEF b, entries, next, snap
      <3> QED
        BY <3>1, <3>2, <3>3, <3>5, <3>6
    <2> HIDE DEF entries, b, g
    <2>5. first = next
      BY <2>4
    <2>6. Straight(g.msg)
      <3>1. next - 1 \in Nat
        BY <2>4
      <3>2. ASSUME NEW k \in 1 .. Len(entries) PROVE entries[k] = Entry(next - 1 + k)
        <4>1. next + k - 1 = next - 1 + k
          BY <2>4
        <4>2. entries[k] = Entry(next + k - 1)
          BY <2>3, <2>5
        <4> QED
          BY <4>1, <4>2
      <3> QED
        BY <2>2, <3>1, <3>2 DEF Straight
    <2>7. handlers' = handlers \cup {g}
      BY <2>1 DEF g
    <2> QED
      BY <2>2, <2>6, <2>7 DEF AllStraight
  <1> QED
    BY <1>3, <1>4

\* No other step sends entries.
LEMMA StraightStays ==
    ASSUME AllStraight,
           \A g \in handlers' : \/ g.msg.kind = "snapshot"
                                \/ \E f \in handlers : g.msg = f.msg
    PROVE  AllStraight'
  BY DEF AllStraight

\* Steps that leave vector, snapshot and files alone, or write the metadata file
\* when the snapshot file is that of the follower's state.
Keeps ==
    /\ \A g \in handlers' :
          \/ g.pc \notin {"save", "replace", "persist"}
          \/ g.pc = "save" /\ g.msg.kind = "snapshot"
          \/ \E f \in handlers : g.pc = f.pc /\ g.snap = f.snap /\ g.msg = f.msg
    /\ \A f \in handlers :
          f.pc \in {"replace", "persist"} => \E g \in handlers' : g.pc = f.pc

LEMMA PlacesStay ==
    ASSUME InPlace,
           UNCHANGED <<log, latestSnapshot, snapFile, commitIndex, lastApplied, up>>,
           Keeps,
           \/ metadata' = metadata
           \/ /\ metadata' # Torn /\ metadata'.log = log
              /\ up = "up" /\ \A h \in handlers : h.pc # "replace"
    PROVE  InPlace'
  <1>1. Placed(log, latestSnapshot)' /\ Applied'
    BY DEF InPlace, Applied, Placed
  <1>2. Compacts'
    BY DEF InPlace, Compacts, Keeps
  <1>3. up' = "up" => Readable'
    BY DEF InPlace, FilesFollow, Readable
  <1>4. /\ up = "up" => Readable
        /\ \A h \in handlers : h.pc = "replace" => h.snap = snapFile
        /\ up = "up" /\ (\A h \in handlers : h.pc # "replace") =>
              snapFile = latestSnapshot
        /\ Readable /\ (\A h \in handlers : h.pc \notin {"replace", "persist"}) =>
              Placed(metadata.log, snapFile)
    BY DEF InPlace, FilesFollow
  <1>5. /\ \A h \in handlers' : h.pc = "replace" => h.snap = snapFile'
        /\ up' = "up" /\ (\A h \in handlers' : h.pc # "replace") =>
              snapFile' = latestSnapshot'
    BY <1>4 DEF Keeps
  <1>6. ASSUME Readable', \A h \in handlers' : h.pc \notin {"replace", "persist"}
        PROVE  Placed(metadata.log, snapFile)'
    <2>1. \A h \in handlers : h.pc \notin {"replace", "persist"}
      BY <1>6 DEF Keeps
    <2>2. CASE metadata' = metadata
      <3>1. Readable
        BY <1>6, <2>2 DEF Readable
      <3>2. Placed(metadata.log, snapFile)
        BY <1>4, <2>1, <3>1
      <3> QED
        BY <2>2, <3>2 DEF Placed
    <2>3. CASE metadata' # metadata
      <3>1. metadata'.log = log /\ snapFile = latestSnapshot
        BY <1>4, <2>1, <2>3
      <3> QED
        BY <1>1, <3>1 DEF Placed
    <2> QED
      BY <2>2, <2>3
  <1> QED
    BY <1>1, <1>2, <1>3, <1>5, <1>6 DEF InPlace, FilesFollow

\* A vector cut off at a snapshot of something it holds starts behind that
\* snapshot, and ends where it did.
LEMMA TruncatePlaced ==
    ASSUME NEW lg \in Vector, NEW snap \in AnySnapshot, Placed(lg, snap),
           NEW i \in Nat, NEW own, own.lastIncludedIndex = i,
           Len(lg) > 0, snap.lastIncludedIndex <= i,
           i = 0 \/ i < getLogSize(lg, snap)
    PROVE  LET cut == truncateLogSafe(lg, snap, i)
           IN  Placed(cut, own) /\ getLogSize(cut, own) = getLogSize(lg, snap)
  <1> DEFINE n == Len(lg)
             last == snap.lastIncludedIndex
             at == i - last
             cut == truncateLogSafe(lg, snap, i)
  <1>1. /\ n \in Nat \ {0} /\ last \in Int /\ last >= -1 /\ baseIndex(snap) = last + 1
        /\ getLogSize(lg, snap) = last + 1 + n /\ baseIndex(own) = i + 1
    <2>1. last \in Int /\ last \in Index \cup {-1} /\ baseIndex(snap) = last + 1
      BY AnySnapshotFields
    <2>2. last >= -1
      BY <2>1, HistoryFacts
    <2> QED
      BY <2>1, <2>2, VectorFields DEF getLogSize, baseIndex
  <1>2. at \in 0 .. n
    <2> HIDE DEF n, last
    <2>1. i = 0 \/ i < last + 1 + n
      BY <1>1
    <2>2. last <= i
      BY DEF last
    <2> QED
      BY <1>1, <2>1, <2>2
  <1>3. CASE at = 0
    <2>1. cut = lg
      BY <1>3 DEF truncateLogSafe
    <2>2. i = last
      <3> HIDE DEF last
      <3> QED
        BY <1>1, <1>3
    <2>3. baseIndex(own) = baseIndex(snap)
      BY <1>1, <2>2
    <2> QED
      BY <2>1, <2>3 DEF Placed, getLogSize
  <1>4. CASE at # 0
    <2>1. at \in 1 .. n /\ at + 1 \in Nat \ {0}
      <3> HIDE DEF at, n
      <3> QED
        BY <1>1, <1>2, <1>4
    <2>2. cut = SubSeq(lg, at + 1, n)
      BY <2>1 DEF truncateLogSafe
    <2>3. /\ Len(cut) = n - at
          /\ \A k \in 1 .. n - at : cut[k] = lg[at + k]
      <3>1. /\ Len(cut) = IF at + 1 <= n THEN n - (at + 1) + 1 ELSE 0
            /\ \A k \in 1 .. n - (at + 1) + 1 : cut[k] = lg[(at + 1) + k - 1]
        <4> HIDE DEF at, cut
        <4>1. n <= Len(lg) /\ n \in Nat
          BY <1>1
        <4> QED
          BY <2>1, <2>2, <4>1, PartOfVector
      <3>2. n - (at + 1) + 1 = n - at /\ (~(at + 1 <= n) => n - at = 0)
            /\ \A k \in 1 .. n - at : (at + 1) + k - 1 = at + k
        <4> HIDE DEF at, n
        <4> QED
          BY <1>1, <2>1
      <3> HIDE DEF at, n, cut
      <3> QED
        BY <3>1, <3>2
    <2>4. ASSUME NEW k \in 1 .. n - at PROVE cut[k] = Entry(i + 1 + k - 1)
      <3>1. at + k \in 1 .. n /\ last + 1 + (at + k) - 1 = i + 1 + k - 1
        <4> HIDE DEF n, last, cut
        <4> QED
          BY <1>1, <2>1
      <3>2. lg[at + k] = Entry(last + 1 + (at + k) - 1)
        <4> HIDE DEF at, last
        <4> QED
          BY <1>1, <3>1 DEF Placed
      <3> QED
        BY <2>3, <3>1, <3>2
    <2>5. Placed(cut, own)
      <3> HIDE DEF at, n, cut
      <3> QED
        BY <1>1, <2>3, <2>4 DEF Placed
    <2>6. i + 1 + (n - at) = last + 1 + n
      <3> HIDE DEF n, last
      <3> QED
        BY <1>1
    <2>7. getLogSize(cut, own) = i + 1 + (n - at)
      <3> HIDE DEF at, n, cut
      <3> QED
        BY <1>1, <2>3 DEF getLogSize
    <2> QED
      BY <1>1, <2>5, <2>6, <2>7
  <1> QED
    BY <1>3, <1>4

\* What an answer leaves of the calls.
LEMMA AnswerLeaves ==
    ASSUME TypeInv, OneHeartbeatEach, NEW h \in handlers,
           NEW success \in BOOLEAN, Reply(h, success)
    PROVE  /\ \A g \in handlers' : \/ g \in handlers \ {h}
                                   \/ g.pc = "sent" /\ g.msg.kind = "snapshot"
           /\ handlers \ {h} \subseteq handlers'
           /\ torn' = torn
  <1>1. (NoNextCall(h) \/ NextChunk(h)) /\ torn' = torn
    BY HeartbeatReply
  <1>2. \A s, t : Chunk(s, t).pc = "sent" /\ Chunk(s, t).msg.kind = "snapshot"
    BY DEF Chunk, Call
  <1>3. CASE NoNextCall(h)
    BY <1>1, <1>3 DEF NoNextCall
  <1>4. CASE NextChunk(h)
    BY <1>1, <1>2, <1>4 DEF NextChunk
  <1> QED
    BY <1>1, <1>3, <1>4

\* While nothing is at work, and while one handler is, the others wait.
LEMMA OthersWait ==
    ASSUME OneAtATime, NEW h \in handlers, Busy(h)
    PROVE  \A g \in handlers \ {h} : ~Busy(g)
  BY DEF OneAtATime

LEMMA SerialQuiet ==
    ASSUME Serial, ~Overlap
    PROVE  \A g \in handlers : ~Busy(g)
  BY DEF Serial, Busy

LEMMA Unbroken ==
    /\ \A t, lg : [term |-> t, log |-> lg] # Torn
    /\ Torn \notin AnySnapshot
  BY DEF Torn, AnySnapshot, NoSnap

LEMMA HearTermWrites ==
    ASSUME NEW t, HearTerm(t)
    PROVE  \/ metadata' = metadata
           \/ metadata' # Torn /\ metadata'.log = log
  <1>1. metadata' = [term |-> t, log |-> log] \/ metadata' = metadata
    BY DEF HearTerm
  <1>2. [term |-> t, log |-> log] # Torn /\ [term |-> t, log |-> log].log = log
    BY Unbroken
  <1> QED
    BY <1>1, <1>2

\* A refusal, a chunk or a handler that sticks.
LEMMA QuietPlaces ==
    ASSUME TypeInv, OneHeartbeatEach, ~Overlap, InPlace, NEW h \in handlers,
           Refuse(h) \/ ReceiveChunk(h) \/ Stick(h)
    PROVE  InPlace'
  <1>1. /\ UNCHANGED <<log, latestSnapshot, snapFile, commitIndex, lastApplied, up>>
        /\ h.pc = "sent" /\ Serial /\ up = "up"
        /\ h \in Handler
    BY HandlerIn DEF Refuse, ReceiveChunk, Stick, memory, disk
  <1>2. \A g \in handlers : g.pc \notin {"save", "replace", "persist"}
    BY <1>1, SerialQuiet DEF Busy
  <1>3. \/ metadata' = metadata
        \/ metadata' # Torn /\ metadata'.log = log
    BY HearTermWrites DEF Refuse, ReceiveChunk, Stick, disk
  <1>4. ASSUME NEW success \in BOOLEAN, Reply(h, success) PROVE Keeps
    BY <1>2, <1>4, AnswerLeaves DEF Keeps
  <1>5. ASSUME NEW pc \in {"save", "stuck"}, Go(h, pc),
               pc = "save" => h.msg.kind = "snapshot"
        PROVE  Keeps
    <2> DEFINE g == [h EXCEPT !.pc = pc]
    <2>1. g.pc = pc /\ g.msg = h.msg
      BY <1>1, GoFields
    <2>2. handlers' = (handlers \ {h}) \cup {g}
      BY <1>5 DEF Go
    <2> HIDE DEF g
    <2> QED
      BY <1>2, <1>5, <2>1, <2>2 DEF Keeps
  <1>6. Keeps
    BY <1>4, <1>5 DEF Refuse, ReceiveChunk, Stick
  <1> QED
    BY <1>1, <1>2, <1>3, <1>6, PlacesStay

\* The snapshot file is written: the handler that wrote it is at work until the
\* follower's state and metadata file have followed.
LEMMA SaveSnapshotPlaces ==
    ASSUME TypeInv, OneHeartbeatEach, OneAtATime, InPlace, NEW h \in handlers,
           SaveSnapshot(h)
    PROVE  InPlace'
  <1>1. /\ h \in Handler /\ h.pc = "save" /\ up = "up" /\ lastApplied \in Index
        /\ snapshotBuffer \in Seq(Piece)
        /\ UNCHANGED <<log, latestSnapshot, commitIndex, lastApplied, metadata, up>>
    BY HandlerIn DEF TypeInv, MemoryWell, SaveSnapshot, memory
  <1>2. \A g \in handlers \ {h} : ~Busy(g)
    BY <1>1, OthersWait DEF Busy
  <1>3. CASE Reply(h, FALSE) /\ UNCHANGED snapFile
    <2>1. Keeps
      BY <1>1, <1>2, <1>3, AnswerLeaves DEF Keeps, Busy
    <2> QED
      BY <1>1, <1>3, <2>1, PlacesStay
  <1>4. CASE ~(Reply(h, FALSE) /\ UNCHANGED snapFile)
    <2>1. PICK snap \in (IF h.msg.kind = "append" THEN {Snapshot(Self, lastApplied)}
                         ELSE Deserialized(snapshotBuffer)) :
            /\ saveSnapshot(snap)
            /\ handlers' = (handlers \ {h}) \cup
                           {[h EXCEPT !.pc = "replace", !.snap = snap]}
      BY <1>4 DEF SaveSnapshot
    <2>2. snap \in AnySnapshot
          /\ (h.msg.kind = "append" => snap.lastIncludedIndex = lastApplied)
      BY <1>1, <2>1, SnapshotFields, DeserializedType
    <2> DEFINE g == [h EXCEPT !.pc = "replace", !.snap = snap]
    <2>3. g.msg = h.msg /\ g.pc = "replace" /\ g.snap = snap
      BY <1>1, <2>2 DEF Handler
    <2> HIDE DEF g
    <2>4. handlers' = (handlers \ {h}) \cup {g}
      BY <2>1 DEF g
    <2>5. \A f \in handlers' : f = g \/ f.pc \in {"sent", "stuck"}
      BY <1>2, <2>4 DEF Busy
    <2>6. Placed(log, latestSnapshot)' /\ Applied'
      BY <1>1 DEF InPlace, Applied, Placed
    <2>7. Compacts'
      <3>1. h.msg.kind = "append" => Len(log) > 0
        BY <1>1 DEF InPlace, Compacts
      <3> QED
        BY <1>1, <2>2, <2>3, <2>5, <3>1 DEF Compacts
    <2>8. FilesFollow'
      <3>1. Readable
        BY <1>1 DEF InPlace, FilesFollow
      <3>2. snapFile' = snap /\ Readable'
        BY <1>1, <2>1, <2>2, <3>1, Unbroken DEF saveSnapshot, Readable
      <3>3. g \in handlers'
        BY <2>4
      <3> QED
        BY <2>3, <2>5, <3>2, <3>3 DEF FilesFollow
    <2> QED
      BY <2>6, <2>7, <2>8 DEF InPlace
  <1> QED
    BY <1>3, <1>4

\* The follower's state follows its snapshot file.
LEMMA ReplacePlaces ==
    ASSUME TypeInv, OneAtATime, InPlace, NEW h \in handlers,
           Install(h) \/ Truncate(h)
    PROVE  InPlace'
  <1> DEFINE g == [h EXCEPT !.pc = "persist"]
  <1>1. /\ h \in Handler /\ h.pc = "replace" /\ Go(h, "persist") /\ up = "up"
        /\ PcWell(h)
        /\ latestSnapshot' = h.snap
        /\ UNCHANGED <<metadata, snapFile, up>>
    BY HandlerIn DEF Install, Truncate, disk
  <1>2. handlers' = (handlers \ {h}) \cup {g} /\ g.pc = "persist"
    BY <1>1, GoFields DEF Go
  <1> HIDE DEF g
  <1>3. \A f \in handlers' : f = g \/ f.pc \in {"sent", "stuck"}
    BY <1>1, <1>2, OthersWait DEF Busy
  <1>4. FilesFollow'
    <2>1. snapFile = h.snap /\ Readable
      BY <1>1 DEF InPlace, FilesFollow
    <2>2. Readable' /\ snapFile' = latestSnapshot'
      BY <1>1, <2>1 DEF Readable
    <2>3. g \in handlers'
      BY <1>2
    <2> QED
      BY <1>2, <1>3, <2>2, <2>3 DEF FilesFollow
  <1>5. Compacts'
    BY <1>2, <1>3 DEF Compacts
  <1>6. Placed(log, latestSnapshot)' /\ Applied'
    <2>1. h.snap.lastIncludedIndex \in Nat
      BY <1>1, HistoryFacts DEF PcWell
    <2>2. CASE Install(h)
      <3>1. /\ log' = <<>> /\ commitIndex' = h.snap.lastIncludedIndex
            /\ lastApplied' = h.snap.lastIncludedIndex
        BY <2>2 DEF Install
      <3>2. Placed(log, latestSnapshot)'
        BY <3>1 DEF Placed
      <3>3. getLogSize(log, latestSnapshot)' = h.snap.lastIncludedIndex + 1
        BY <1>1, <2>1, <3>1 DEF getLogSize, baseIndex
      <3> QED
        BY <1>1, <2>1, <3>1, <3>2, <3>3 DEF Applied
    <2>3. CASE Truncate(h)
      <3>1. /\ log' = truncateLogSafe(log, latestSnapshot, h.snap.lastIncludedIndex)
            /\ UNCHANGED <<commitIndex, lastApplied>> /\ h.msg.kind = "append"
        BY <2>3 DEF Truncate
      <3>2. Len(log) > 0 /\ h.snap.lastIncludedIndex = lastApplied
        BY <1>1, <3>1 DEF InPlace, Compacts
      <3>3. /\ Placed(log, latestSnapshot) /\ commitIndex <= lastApplied
            /\ latestSnapshot.lastIncludedIndex <= lastApplied
            /\ lastApplied = 0 \/ lastApplied < getLogSize(log, latestSnapshot)
            /\ log \in Vector /\ latestSnapshot \in AnySnapshot
        BY DEF InPlace, Applied, TypeInv, MemoryWell
      <3>4. /\ Placed(log', h.snap)
            /\ getLogSize(log', h.snap) = getLogSize(log, latestSnapshot)
        BY <2>1, <3>1, <3>2, <3>3, TruncatePlaced
      <3> QED
        BY <1>1, <2>1, <3>1, <3>2, <3>3, <3>4 DEF Placed, Applied
    <2> QED
      BY <2>2, <2>3
  <1> QED
    BY <1>4, <1>5, <1>6 DEF InPlace

\* The metadata file follows both.
LEMMA PersistPlaces ==
    ASSUME TypeInv, OneHeartbeatEach, OneAtATime, InPlace, NEW h \in handlers,
           Persist(h)
    PROVE  InPlace'
  <1>1. /\ h.pc = "persist" /\ up = "up" /\ metadata' = File /\ Reply(h, TRUE)
        /\ UNCHANGED <<log, latestSnapshot, commitIndex, lastApplied, snapFile, up>>
    BY DEF Persist
  <1>2. \A f \in handlers' : f.pc \in {"sent", "stuck"}
    BY <1>1, OthersWait, AnswerLeaves DEF Busy
  <1>3. \A f \in handlers : f.pc # "replace"
    BY <1>1, OthersWait DEF Busy
  <1>4. snapFile = latestSnapshot /\ Readable
    BY <1>1, <1>3 DEF InPlace, FilesFollow
  <1>5. metadata' # Torn /\ metadata'.log = log
    BY <1>1, Unbroken DEF File
  <1>6. Placed(log, latestSnapshot)' /\ Applied'
    BY <1>1 DEF InPlace, Applied, Placed
  <1>7. FilesFollow'
    BY <1>1, <1>2, <1>4, <1>5, <1>6 DEF FilesFollow, Readable, Placed
  <1>8. Compacts'
    BY <1>2 DEF Compacts
  <1> QED
    BY <1>6, <1>7, <1>8 DEF InPlace

\* Entries are taken.
LEMMA ReceiveEntriesPlaces ==
    ASSUME TypeInv, ~Overlap, AllStraight, InPlace, NEW h \in handlers,
           ReceiveEntries(h)
    PROVE  InPlace'
  <1> DEFINE m == h.msg
             ok == PrevLogMatches(log, latestSnapshot, m.prevLogIndex, m.prevLogTerm)
             g == [h EXCEPT !.pc = "log", !.success = ok]
  <1>1. /\ h \in Handler /\ h.pc = "sent" /\ m.kind = "append" /\ up = "up" /\ Serial
        /\ m.entries \in Vector /\ Straight(m)
        /\ log \in Vector /\ latestSnapshot \in AnySnapshot
        /\ UNCHANGED <<latestSnapshot, commitIndex, lastApplied, metadata, snapFile, up>>
    BY HandlerIn, HandlerFields
       DEF ReceiveEntries, AllStraight, TypeInv, MemoryWell, disk
  <1>2. /\ log' = IF ok THEN AppendBatch(log, latestSnapshot, m.prevLogIndex, m.entries)
                  ELSE log
        /\ handlers' = (handlers \ {h}) \cup {g}
    BY DEF ReceiveEntries
  <1>3. g.pc = "log"
    BY <1>1 DEF Handler
  <1> HIDE DEF g
  <1>4. /\ \A f \in handlers : f.pc \in {"sent", "stuck"}
        /\ \A f \in handlers' : f.pc \in {"sent", "stuck", "log"}
    BY <1>1, <1>2, <1>3, SerialQuiet DEF Busy
  <1>5. Placed(log', latestSnapshot) /\ Len(log) <= Len(log')
    <2>1. Placed(log, latestSnapshot) /\ Len(log) \in Nat
      BY <1>1, VectorFields DEF InPlace
    <2>2. CASE ok
      <3> HIDE DEF m
      <3>1. LET new == AppendBatch(log, latestSnapshot, m.prevLogIndex, m.entries)
            IN  Placed(new, latestSnapshot) /\ Len(log) <= Len(new)
        BY <1>1, <2>1, <2>2, BatchPlaced
      <3> QED
        BY <1>2, <2>2, <3>1
    <2>3. CASE ~ok
      BY <1>2, <2>1, <2>3
    <2> QED
      BY <2>2, <2>3
  <1>6. Placed(log, latestSnapshot)'
    BY <1>1, <1>5 DEF Placed
  <1>7. Applied'
    <2>1. /\ commitIndex <= lastApplied /\ latestSnapshot.lastIncludedIndex <= lastApplied
          /\ lastApplied = 0 \/ lastApplied < getLogSize(log, latestSnapshot)
      BY DEF InPlace, Applied
    <2>2. getLogSize(log, latestSnapshot) <= getLogSize(log', latestSnapshot)
          /\ getLogSize(log, latestSnapshot) \in Int
          /\ getLogSize(log', latestSnapshot) \in Int
      <3>1. baseIndex(latestSnapshot) \in Nat /\ Len(log) \in Nat /\ Len(log') \in Nat
        <4>1. log' \in Vector
          BY ReceiveEntriesType DEF TypeInv, MemoryWell
        <4> QED
          BY <1>1, <4>1, VectorFields, AnySnapshotFields, HistoryFacts
      <3> QED
        BY <1>5, <3>1 DEF getLogSize
    <2>3. lastApplied \in Nat
      BY HistoryFacts DEF TypeInv, MemoryWell
    <2> QED
      BY <1>1, <2>1, <2>2, <2>3 DEF Applied
  <1>8. Compacts'
    BY <1>4 DEF Compacts
  <1>9. FilesFollow'
    <2>1. snapFile = latestSnapshot /\ Readable /\ Placed(metadata.log, snapFile)
      BY <1>1, <1>4 DEF InPlace, FilesFollow
    <2> QED
      BY <1>1, <1>4, <2>1 DEF FilesFollow, Readable, Placed
  <1> QED
    BY <1>6, <1>7, <1>8, <1>9 DEF InPlace

\* They are persisted and applied.
LEMMA PersistAndApplyPlaces ==
    ASSUME TypeInv, OneHeartbeatEach, OneAtATime, InPlace, NEW h \in handlers,
           PersistAndApply(h)
    PROVE  InPlace'
  <1> DEFINE last == getLogSize(log, latestSnapshot) - 1
             commit == CommitAfter(h)
  <1>1. /\ h \in Handler /\ h.pc = "log" /\ up = "up" /\ metadata' = File
        /\ h.msg.kind = "append" /\ h.success \in BOOLEAN
        /\ UNCHANGED <<log, latestSnapshot, snapFile, up>>
    BY HandlerIn, HandlerFields DEF PersistAndApply, PcWell
  <1>2. /\ commitIndex' = commit
        /\ lastApplied' = IF lastApplied < commit THEN commit ELSE lastApplied
        /\ \/ Go(h, "save") /\ Len(log) >= SnapshotThreshold
           \/ Reply(h, h.success)
    BY DEF PersistAndApply, CommitAfter
  <1>3. \A f \in handlers \ {h} : f.pc \in {"sent", "stuck"}
    BY <1>1, OthersWait DEF Busy
  <1>4. \A f \in handlers' : f.pc \in {"sent", "stuck"} \/ (f.pc = "save" /\ Len(log) > 0)
    <2>1. CASE Go(h, "save") /\ Len(log) >= SnapshotThreshold
      <3> DEFINE g == [h EXCEPT !.pc = "save"]
      <3>1. handlers' = (handlers \ {h}) \cup {g} /\ g.pc = "save"
        BY <1>1, <2>1, GoFields DEF Go
      <3>2. Len(log) > 0
        <4>1. SnapshotThreshold \in Nat \ {0} /\ Len(log) \in Nat
          BY BoundAssumption, VectorFields DEF TypeInv, MemoryWell
        <4> QED
          BY <2>1, <4>1
      <3> HIDE DEF g
      <3> QED
        BY <1>3, <3>1, <3>2
    <2>2. CASE Reply(h, h.success)
      BY <1>1, <1>3, <2>2, AnswerLeaves
    <2> QED
      BY <1>2, <2>1, <2>2
  <1>5. Placed(log, latestSnapshot)'
    BY <1>1 DEF InPlace, Placed
  <1>6. Applied'
    <2>1. /\ commitIndex <= lastApplied /\ latestSnapshot.lastIncludedIndex <= lastApplied
          /\ lastApplied = 0 \/ lastApplied < getLogSize(log, latestSnapshot)
      BY DEF InPlace, Applied
    <2>2. /\ lastApplied \in Nat /\ commitIndex \in Int
          /\ latestSnapshot.lastIncludedIndex \in Int /\ last \in Int
      <3>1. /\ lastApplied \in Index /\ commitIndex \in Index \cup {-1}
            /\ log \in Vector /\ latestSnapshot \in AnySnapshot
        BY DEF TypeInv, MemoryWell
      <3>2. Len(log) \in Nat /\ baseIndex(latestSnapshot) \in Nat
            /\ latestSnapshot.lastIncludedIndex \in Int
        BY <3>1, VectorFields, AnySnapshotFields, HistoryFacts
      <3>3. last \in Int
        BY <3>2 DEF getLogSize
      <3> QED
        BY <3>1, <3>2, <3>3, HistoryFacts
    <2>3. commit \in Int /\ (commit = commitIndex \/ commit <= last)
      <3>1. h.msg.leaderCommit \in Int
        <4>1. h.msg.leaderCommit \in Index
          BY <1>1, HandlerFields
        <4>2. \A c \in Index : c \in Int
          BY HistoryFacts
        <4> QED
          BY <4>1, <4>2, Zenon
      <3>2. \/ commit = commitIndex
            \/ commit = h.msg.leaderCommit /\ h.msg.leaderCommit < last
            \/ commit = last
        BY DEF CommitAfter
      <3> HIDE DEF commit, last
      <3> QED
        BY <2>2, <3>1, <3>2
    <2>4. getLogSize(log, latestSnapshot) = last + 1
      <3>1. getLogSize(log, latestSnapshot) \in Int
        BY VectorFields, AnySnapshotFields, HistoryFacts
           DEF TypeInv, MemoryWell, getLogSize
      <3> QED
        BY <3>1
    <2>5. /\ commitIndex' <= lastApplied' /\ latestSnapshot.lastIncludedIndex <= lastApplied'
          /\ lastApplied' = 0 \/ lastApplied' < last + 1
      <3> HIDE DEF commit, last
      <3> QED
        BY <1>2, <2>1, <2>2, <2>3, <2>4
    <2> QED
      BY <1>1, <2>4, <2>5 DEF Applied
  <1>7. Compacts'
    BY <1>1, <1>4 DEF Compacts
  <1>8. FilesFollow'
    <2>1. snapFile = latestSnapshot /\ Readable
      BY <1>1, <1>3 DEF InPlace, FilesFollow
    <2>2. metadata' # Torn /\ metadata'.log = log
      BY <1>1, Unbroken DEF File
    <2> QED
      BY <1>1, <1>4, <1>5, <2>1, <2>2 DEF FilesFollow, Readable, Placed
  <1> QED
    BY <1>5, <1>6, <1>7, <1>8 DEF InPlace

\* A call is sent, or given up.
LEMMA CallsPlaces ==
    ASSUME TypeInv, OneHeartbeatEach, AllStraight,
           \/ \E s \in Sender : Round(s)
           \/ \E h \in handlers : CallTimesOut(h)
    PROVE  AllStraight' /\ (InPlace => InPlace')
  <1>1. CASE \E s \in Sender : Round(s)
    <2>1. PICK s \in Sender : Round(s)
      BY <1>1
    <2>2. /\ UNCHANGED <<log, latestSnapshot, snapFile, commitIndex, lastApplied, up>>
          /\ metadata' = metadata
      BY <2>1 DEF Round, memory, disk
    <2>3. AllStraight' /\ Keeps
      BY <2>1, RoundStraight DEF Keeps
    <2> QED
      BY <2>2, <2>3, PlacesStay
  <1>2. CASE \E h \in handlers : CallTimesOut(h)
    <2>1. PICK h \in handlers : CallTimesOut(h)
      BY <1>2
    <2> DEFINE g == [h EXCEPT !.awaited = FALSE]
    <2>2. /\ UNCHANGED <<log, latestSnapshot, snapFile, commitIndex, lastApplied, up>>
          /\ metadata' = metadata
          /\ \/ h.pc = "sent" /\ handlers' = handlers \ {h}
             \/ handlers' = (handlers \ {h}) \cup {g}
      BY <2>1 DEF CallTimesOut, memory, disk
    <2>3. g.pc = h.pc /\ g.snap = h.snap /\ g.msg = h.msg
      BY HandlerIn DEF Handler
    <2> HIDE DEF g
    <2>4. Keeps
      BY <2>2, <2>3 DEF Keeps
    <2>5. AllStraight'
      BY <2>2, <2>3, StraightStays DEF AllStraight
    <2> QED
      BY <2>2, <2>4, <2>5, PlacesStay
  <1> QED
    BY <1>1, <1>2

\* The leaders' own steps, a vote request and no step at all.
LEMMA LeadersPlaces ==
    ASSUME TypeInv, ~Overlap, AllStraight,
           \/ \E l \in Leader : Elect(l) \/ Deposed(l)
                                \/ \E i \in Index : LeaderSnapshot(l, i)
           \/ HearCandidate
           \/ UNCHANGED vars
    PROVE  AllStraight' /\ (InPlace => InPlace') /\ torn' = torn
  <1>1. /\ UNCHANGED <<log, latestSnapshot, snapFile, commitIndex, lastApplied, up,
                       handlers, torn>>
        /\ metadata' = metadata \/ HearCandidate
    BY DEF Elect, Deposed, LeaderSnapshot, HearCandidate, KeepLeaders, vars, memory,
           disk, history
  <1>2. Keeps
    BY <1>1 DEF Keeps
  <1>3. CASE HearCandidate
    <2>1. up = "up" /\ \A h \in handlers : h.pc # "replace"
      BY <1>3, SerialQuiet DEF HearCandidate, Busy
    <2>2. \/ metadata' = metadata
          \/ metadata' # Torn /\ metadata'.log = log
      BY <1>3, HearTermWrites DEF HearCandidate
    <2>3. InPlace => InPlace'
      BY <1>1, <1>2, <2>1, <2>2, PlacesStay
    <2> QED
      BY <1>1, <2>3 DEF AllStraight
  <1>4. CASE metadata' = metadata
    BY <1>1, <1>2, <1>4, PlacesStay DEF AllStraight
  <1> QED
    BY <1>1, <1>3, <1>4

\* The process dies, between the two files or elsewhere, and starts again.
LEMMA CrashPlaces ==
    ASSUME InPlace, Crash, ~torn'
    PROVE  InPlace'
  <1>1. /\ UNCHANGED <<log, latestSnapshot, commitIndex, lastApplied>>
        /\ up = "up" /\ up' = "down" /\ handlers' = {}
        /\ \A h \in handlers : h.pc \notin {"replace", "persist"}
        /\ metadata' \in {metadata, Torn} /\ snapFile' \in {snapFile, Torn}
    BY DEF Crash, memory
  <1>2. Placed(log, latestSnapshot)' /\ Applied'
    BY <1>1 DEF InPlace, Applied, Placed
  <1>3. Compacts'
    BY <1>1 DEF Compacts
  <1>4. Readable' => Placed(metadata.log, snapFile)'
    <2>1. Placed(metadata.log, snapFile)
      BY <1>1 DEF InPlace, FilesFollow
    <2>2. Readable' => metadata' = metadata /\ snapFile' = snapFile
      BY <1>1 DEF Readable
    <2> QED
      BY <2>1, <2>2 DEF Placed
  <1>5. FilesFollow'
    BY <1>1, <1>4 DEF FilesFollow
  <1> QED
    BY <1>2, <1>3, <1>5 DEF InPlace

LEMMA RestartPlaces ==
    ASSUME TypeInv, OneAtATime, InPlace, Restart
    PROVE  InPlace'
  <1>1. handlers = {} /\ handlers' = {} /\ UNCHANGED <<metadata, snapFile>>
    BY DEF Restart, OneAtATime, disk
  <1>2. Compacts'
    BY <1>1 DEF Compacts
  <1>3. CASE ~Readable
    <2>1. up' = "broken" /\ UNCHANGED <<log, latestSnapshot, commitIndex, lastApplied>>
      BY <1>3 DEF Restart, Readable, memory
    <2>2. Placed(log, latestSnapshot)' /\ Applied'
      BY <2>1 DEF InPlace, Applied, Placed
    <2>3. FilesFollow'
      BY <1>1, <1>3, <2>1 DEF FilesFollow, Readable
    <2> QED
      BY <1>2, <2>2, <2>3 DEF InPlace
  <1>4. CASE Readable
    <2>1. /\ log' = metadata.log /\ latestSnapshot' = snapFile
          /\ commitIndex' = IF snapFile = NoSnap THEN 0 ELSE snapFile.lastIncludedIndex
          /\ lastApplied' = commitIndex'
      BY <1>4 DEF Restart, Readable
    <2>2. Placed(metadata.log, snapFile)
      BY <1>1, <1>4 DEF InPlace, FilesFollow
    <2>3. Placed(log, latestSnapshot)'
      BY <2>1, <2>2 DEF Placed
    <2>4. Applied'
      <3>1. snapFile \in AnySnapshot /\ metadata.log \in Vector
        BY <1>4 DEF TypeInv, DiskWell, Readable
      <3>2. /\ Len(metadata.log) \in Nat /\ snapFile.lastIncludedIndex \in Int
            /\ baseIndex(snapFile) = snapFile.lastIncludedIndex + 1
        BY <3>1, VectorFields, AnySnapshotFields
      <3>3. NoSnap.lastIncludedIndex = -1
        BY NoSnapFields
      <3> QED
        BY <2>1, <3>2, <3>3, SMTT(30) DEF Applied, getLogSize
    <2>5. FilesFollow'
      BY <1>1, <1>4, <2>1, <2>2 DEF FilesFollow, Readable, Placed
    <2> QED
      BY <1>2, <2>3, <2>4, <2>5 DEF InPlace
  <1> QED
    BY <1>3, <1>4

LEMMA HandlerPlaces ==
    ASSUME TypeInv, OneHeartbeatEach, ~Overlap, OneAtATime, AllStraight,
           NEW h \in handlers, HandlerStep(h)
    PROVE  /\ AllStraight'
           /\ InPlace => InPlace'
           /\ ~torn' => ~torn
  <1>1. (\E g \in Handler : Moved(h, g)) \/ \E success \in BOOLEAN : Reply(h, success)
    BY HandlerEffect
  <1>2. ASSUME NEW g \in Handler, Moved(h, g) PROVE AllStraight' /\ torn' = torn
    BY <1>2, StraightStays DEF Moved
  <1>3. ASSUME NEW success \in BOOLEAN, Reply(h, success)
        PROVE  AllStraight' /\ torn' = torn
    BY <1>3, AnswerLeaves, StraightStays
  <1>4. ASSUME InPlace PROVE InPlace'
    <2>1. CASE Refuse(h) \/ ReceiveChunk(h) \/ Stick(h)
      BY <1>4, <2>1, QuietPlaces
    <2>2. CASE SaveSnapshot(h)
      BY <1>4, <2>2, SaveSnapshotPlaces
    <2>3. CASE Install(h) \/ Truncate(h)
      BY <1>4, <2>3, ReplacePlaces
    <2>4. CASE Persist(h)
      BY <1>4, <2>4, PersistPlaces
    <2>5. CASE ReceiveEntries(h)
      BY <1>4, <2>5, ReceiveEntriesPlaces
    <2>6. CASE PersistAndApply(h)
      BY <1>4, <2>6, PersistAndApplyPlaces
    <2> QED
      BY <2>1, <2>2, <2>3, <2>4, <2>5, <2>6 DEF HandlerStep
  <1> QED
    BY <1>1, <1>2, <1>3, <1>4

LEMMA PlaceInit ==
    Init => AllStraight /\ InPlace
  <1> SUFFICES ASSUME Init PROVE AllStraight /\ InPlace
    OBVIOUS
  <1>1. /\ handlers = {} /\ log = EntriesFrom(0, InitSize) /\ latestSnapshot = NoSnap
        /\ commitIndex = 0 /\ lastApplied = 0 /\ metadata = File /\ snapFile = NoSnap
    BY DEF Init
  <1>2. /\ Len(log) = InitSize
        /\ \A k \in 1 .. Len(log) : log[k] = Entry(0 + k - 1)
    <2>1. /\ InitSize \in 0 .. Len(History) /\ 0 \in 0 .. Len(History)
          /\ 0 <= InitSize /\ InitSize - 0 = InitSize
      BY HistoryAssumption, HistoryFacts
    <2> QED
      BY <1>1, <2>1, EntriesFromType
  <1>3. Placed(log, NoSnap)
    BY <1>2, NoSnapFields DEF Placed, baseIndex
  <1>4. metadata # Torn /\ snapFile # Torn /\ metadata.log = log
    BY <1>1, Unbroken, NoSnapFields DEF File
  <1>5. FilesFollow
    BY <1>1, <1>3, <1>4 DEF FilesFollow, Readable
  <1>6. Applied
    BY <1>1, NoSnapFields DEF Applied
  <1> QED
    BY <1>1, <1>3, <1>5, <1>6 DEF AllStraight, InPlace, Compacts

LEMMA PlaceStep ==
    ASSUME OneHeartbeatEach, ~Overlap, PlaceInv, [Next]_vars
    PROVE  PlaceInv'
  <1>1. TypeInv /\ LeadersApart /\ OneAtATime /\ AllStraight /\ (~torn => InPlace)
    BY DEF PlaceInv
  <1>2. TypeInv' /\ LeadersApart' /\ OneAtATime'
    BY <1>1, TypeStep, LeadersApartStep, OneAtATimeStep
  <1>3. AllStraight' /\ (~torn' => InPlace')
    <2>1. CASE \E h \in handlers : HandlerStep(h)
      BY <1>1, <2>1, HandlerPlaces
    <2>2. CASE \/ \E s \in Sender : Round(s)
               \/ \E h \in handlers : CallTimesOut(h)
      <3>1. torn' = torn
        BY <2>2 DEF Round, CallTimesOut, history
      <3> QED
        BY <1>1, <2>2, <3>1, CallsPlaces
    <2>3. CASE \/ \E l \in Leader : Elect(l) \/ Deposed(l)
                                    \/ \E i \in Index : LeaderSnapshot(l, i)
               \/ HearCandidate
               \/ UNCHANGED vars
      BY <1>1, <2>3, LeadersPlaces
    <2>4. CASE Crash
      <3>1. handlers' = {} /\ (~torn' => ~torn)
        BY <2>4 DEF Crash
      <3> QED
        BY <1>1, <2>4, <3>1, CrashPlaces DEF AllStraight
    <2>5. CASE Restart
      <3>1. handlers' = handlers /\ torn' = torn
        BY <2>5 DEF Restart, history
      <3> QED
        BY <1>1, <2>5, <3>1, RestartPlaces DEF AllStraight
    <2> QED
      BY <2>1, <2>2, <2>3, <2>4, <2>5 DEF Next
  <1> QED
    BY <1>2, <1>3 DEF PlaceInv

\* With one handler of the follower at a time and one heartbeat thread per leader,
\* every entry of the follower's vector is at the place its index says, through
\* batches that overlap what it has, snapshots it receives and snapshots it takes,
\* over any number of elections, lost calls and restarts, unless the process died
\* between the snapshot file and the metadata file.
THEOREM EntriesStayInPlace ==
    ASSUME OneHeartbeatEach, ~Overlap
    PROVE  Spec => []InPlaceUnlessTorn
  <1>1. Init => PlaceInv
    BY TypeInit, LeadersApartInit, OneAtATimeInit, PlaceInit DEF PlaceInv
  <1>2. PlaceInv /\ [Next]_vars => PlaceInv'
    BY PlaceStep
  <1>3. PlaceInv => InPlaceUnlessTorn
    <2>1. \A i : Entry(i).index = i
      BY DEF Entry
    <2>2. Placed(log, latestSnapshot) => EntriesInPlace
      BY <2>1 DEF Placed, EntriesInPlace
    <2> QED
      BY <2>2 DEF PlaceInv, InPlace, InPlaceUnlessTorn
  <1> QED
    BY <1>1, <1>2, <1>3, PTL DEF Spec

-----------------------------------------------------------------------------
(* What is on the follower's disk stays.  A snapshot is sent only to a      *)
(* follower whose entries it covers, since nextIndex does not fall below    *)
(* what the follower has, unless an answer misleads the leader.             *)

\* What can mislead a leader.
Undisturbed == ~torn /\ ~astray /\ ~stale /\ (lost = 0 \/ ~compacted)

End == getLogSize(log, latestSnapshot)
Held == latestSnapshot.lastIncludedIndex
Offer(l) == leaderSnapshot[l].lastIncludedIndex

\* The index of the snapshot that a chunk on its way or a handler at work brings.
Target(h) == IF h.pc = "sent" THEN transfer[h.from].snap.lastIncludedIndex
             ELSE IF h.pc = "save" THEN snapshotBuffer[1].index
             ELSE snapFile.lastIncludedIndex
Brings(h) == ChunkSent(h) \/ Installing(h)
Batch(h) == h.msg.kind = "append" /\ h.awaited

\* A call is of a term its leader was elected in, perhaps not the last one, a
\* handler at work of the follower's own.
CallTerm(h) ==
    /\ 0 < h.msg.term /\ h.msg.term <= elected[h.from.leader]
    /\ Busy(h) => h.msg.term = currentTerm
    /\ lost = 0 => h.awaited
CallTerms ==
    /\ \A h \in handlers : CallTerm(h)
    /\ \A h \in handlers, l \in Leader : h.msg.term = elected[l] => l = h.from.leader
    /\ \A g, h \in handlers : g.msg.term = h.msg.term => g.from.leader = h.from.leader

\* A snapshot has the term of its last entry.
RightTerm(snap) ==
    snap \in {NoSnap, Torn}
    \/ snap.lastIncludedTerm = History[snap.lastIncludedIndex + 1]
RightTerms == RightTerm(latestSnapshot) /\ RightTerm(snapFile)

\* A handler whose answer moves nextIndex to the end of the log, and one that has
\* replaced the follower's state.
AnswersWith(h, l) ==
    /\ h.from.leader = l /\ h.awaited /\ Busy(h)
    /\ h.msg.kind = "append" /\ h.success /\ h.msg.entries # <<>>
Answering(l) == \E h \in handlers : AnswersWith(h, l)
Replaced == \E h \in handlers : h.pc = "persist" /\ h.msg.kind = "snapshot"

\* A leader that needs to send a snapshot has one that covers the follower's
\* entries, and nextIndex does not fall below the follower's snapshot; where no
\* call was lost it does not even fall below the follower's last entry.
Ahead(l) ==
    /\ NeedsSnapshot(l) => End <= Offer(l) + 1
    /\ \/ compacted /\ Answering(l)
       \/ Held < nextIndex[l]
       \/ Held <= Offer(l)
    /\ elected[l] > currentTerm => nextIndex[l] = Len(History)
    /\ lost = 0 => End <= nextIndex[l] \/ Answering(l) \/ Replaced
LeadersAhead == \A l \in Leader : leading[l] /\ elected[l] >= currentTerm => Ahead(l)

\* A batch starts no earlier than the follower's snapshot ends, so it is rejected
\* only by a follower that has nothing from there on.
BatchAhead(h) ==
    LET l == h.from.leader
        p == h.msg.prevLogIndex
    IN  /\ p + 1 <= nextIndex[l] /\ nextIndex[l] > Offer(l)
        /\ h.msg.prevLogTerm = History[p + 1]
        /\ p + 1 + Len(h.msg.entries) = Len(History)
        /\ h.msg.term = elected[l] =>
              /\ h.pc = "sent" /\ h.msg.term = currentTerm => Held <= p
              /\ h.pc = "sent" /\ h.msg.term > currentTerm => p = Len(History) - 1
              /\ h.pc = "log" /\ ~h.success => End <= p
BatchesAhead == \A h \in handlers : Batch(h) => BatchAhead(h)

\* A snapshot on its way covers the follower's entries.  What its leader sends
\* later starts no earlier than it ends.
SnapshotAhead(h) ==
    /\ h.msg.term <= currentTerm
    /\ h.msg.term = currentTerm /\ h.pc # "persist" => End <= Target(h) + 1
    /\ h.awaited => Target(h) = transfer[h.from].snap.lastIncludedIndex
    /\ h.pc = "persist" => log = <<>>
    /\ h.msg.term = elected[h.from.leader] => Target(h) <= Offer(h.from.leader)
Overtaken(g, h) ==
    Installing(g) /\ g.from = h.from /\ g.msg.term = h.msg.term =>
        /\ ChunkSent(h) => Target(g) <= Target(h)
        /\ Batch(h) => Target(g) <= h.msg.prevLogIndex
SnapshotsAhead ==
    /\ \A h \in handlers : Brings(h) => SnapshotAhead(h)
    /\ \A g, h \in handlers : Overtaken(g, h)

\* The metadata file has no entry that the follower has not.
FileBehind ==
    up = "up" => \A k \in 1 .. Len(metadata.log) : metadata.log[k].index < End

NothingLost ==
    CallTerms /\ RightTerms /\ LeadersAhead /\ BatchesAhead /\ SnapshotsAhead /\ FileBehind
KeptInv == WholeInv /\ PlaceInv /\ (Undisturbed => NothingLost)

LEMMA LeaderFields ==
    ASSUME TypeInv, NEW l \in Leader
    PROVE  /\ Offer(l) \in Int /\ Offer(l) \in 0 .. Len(History) - 1
           /\ nextIndex[l] \in Int /\ nextIndex[l] \in 0 .. Len(History)
           /\ elected[l] \in Int /\ elected[l] \in Nat /\ leading[l] \in BOOLEAN
           /\ leaderTerm[l] \in Int
           /\ NeedsSnapshot(l) <=> nextIndex[l] <= Offer(l)
  <1>1. /\ leaderSnapshot[l] \in Taken /\ nextIndex[l] \in 0 .. Len(History)
        /\ elected[l] \in Nat /\ leading[l] \in BOOLEAN /\ leaderTerm[l] \in Nat
    BY DEF TypeInv, LeadersWell
  <1>2. Offer(l) \in Index
    BY <1>1, TakenFields DEF Offer
  <1> QED
    BY <1>1, <1>2, HistoryFacts DEF Index, Offer, NeedsSnapshot

LEMMA PlacedEnd ==
    ASSUME NEW v \in Vector, NEW snap \in AnySnapshot, Placed(v, snap)
    PROVE  LET held == snap.lastIncludedIndex
               end == getLogSize(v, snap)
           IN  /\ end \in Int /\ end \in 0 .. Len(History) /\ held \in Int
               /\ held < end /\ end = held + 1 + Len(v) /\ Len(v) \in Nat
               /\ -1 <= held /\ held < Len(History) /\ Len(History) \in Nat \ {0}
  <1> DEFINE held == snap.lastIncludedIndex
             end == getLogSize(v, snap)
  <1>1. held \in Int /\ held \in Index \cup {-1} /\ baseIndex(snap) = held + 1
    BY AnySnapshotFields
  <1>2. Len(v) \in Nat /\ \A k \in 1 .. Len(v) : v[k].index \in Index
    BY VectorFields
  <1>3. Len(History) \in Nat \ {0}
    BY HistoryFacts
  <1>4. -1 <= held /\ held < Len(History)
    BY <1>1, <1>3 DEF Index
  <1>5. end = held + 1 + Len(v)
    BY <1>1 DEF getLogSize
  <1> HIDE DEF held, end
  <1>6. CASE Len(v) = 0
    BY <1>1, <1>2, <1>3, <1>4, <1>5, <1>6 DEF held, end
  <1>7. CASE Len(v) # 0
    <2>1. Len(v) \in 1 .. Len(v)
      BY <1>2, <1>7
    <2>2. v[Len(v)] = Entry(held + 1 + Len(v) - 1)
      BY <1>1, <2>1 DEF Placed
    <2>3. v[Len(v)].index = held + 1 + Len(v) - 1
      BY <2>2 DEF Entry
    <2>4. held + 1 + Len(v) - 1 \in Index
      BY <1>2, <2>1, <2>3
    <2>5. held + Len(v) < Len(History)
      BY <1>1, <1>2, <1>3, <2>4 DEF Index
    <2> QED
      BY <1>1, <1>2, <1>3, <1>4, <1>5, <2>5 DEF held, end
  <1> QED
    BY <1>6, <1>7

LEMMA EndFields ==
    ASSUME TypeInv, Placed(log, latestSnapshot)
    PROVE  /\ End \in Int /\ End \in 0 .. Len(History) /\ Held \in Int
           /\ Held < End /\ End = Held + 1 + Len(log) /\ Len(log) \in Nat
           /\ -1 <= Held /\ Held < Len(History) /\ Len(History) \in Nat \ {0}
  <1>1. log \in Vector /\ latestSnapshot \in AnySnapshot
    BY DEF TypeInv, MemoryWell
  <1> QED
    BY <1>1, PlacedEnd DEF End, Held

LEMMA EndFieldsNext ==
    ASSUME TypeInv', Placed(log', latestSnapshot')
    PROVE  /\ End' \in Int /\ End' \in 0 .. Len(History) /\ Held' \in Int
           /\ Held' < End' /\ End' = Held' + 1 + Len(log') /\ Len(log') \in Nat
           /\ -1 <= Held' /\ Held' < Len(History) /\ Len(History) \in Nat \ {0}
  <1>1. log' \in Vector /\ latestSnapshot' \in AnySnapshot
    BY DEF TypeInv, MemoryWell
  <1> QED
    BY <1>1, PlacedEnd DEF End, Held

\* What has misled a leader once stays recorded.
LEMMA RecordsStay ==
    ASSUME OneHeartbeatEach, TypeInv, [Next]_vars
    PROVE  /\ torn => torn'
           /\ astray => astray'
           /\ stale => stale'
           /\ compacted => compacted'
           /\ lost' = 0 => lost = 0
  <1>1. /\ {torn, astray, stale, compacted} \subseteq BOOLEAN /\ lost \in Nat
    BY DEF TypeInv, CountsWell
  <1>2. CASE \E h \in handlers : HandlerStep(h)
    <2>1. PICK h \in handlers : HandlerStep(h)
      BY <1>2
    <2>2. lost' = lost
      BY <2>1 DEF HandlerStep, Refuse, ReceiveChunk, SaveSnapshot, Install, Truncate,
                  Persist, ReceiveEntries, Stick, PersistAndApply
    <2>3. (\E success \in BOOLEAN : Reply(h, success))
          \/ /\ UNCHANGED <<torn, astray, stale>>
             /\ compacted' = compacted \/ compacted' = TRUE
      <3>1. h.success \in BOOLEAN
        BY HandlerIn, HandlerFields
      <3> QED
        BY <2>1, <3>1 DEF HandlerStep, Refuse, ReceiveChunk, SaveSnapshot, Install,
               Truncate, Persist, ReceiveEntries, Stick, PersistAndApply, KeepLeaders,
               history
    <2>4. ASSUME NEW success \in BOOLEAN, Reply(h, success)
          PROVE  /\ torn' = torn /\ compacted' = compacted /\ (astray => astray')
                 /\ stale => stale'
      <3>1. torn' = torn /\ (astray => astray')
        BY <2>4, HeartbeatReply DEF NoNextCall, NextChunk
      <3> QED
        BY <2>4, <3>1 DEF Reply
    <2> QED
      BY <1>1, <2>2, <2>3, <2>4
  <1>3. CASE ~\E h \in handlers : HandlerStep(h)
    <2>1. UNCHANGED <<astray, stale, compacted>>
      BY <1>3 DEF Next, Round, CallTimesOut, Elect, Deposed, LeaderSnapshot,
                  HearCandidate, KeepLeaders, Crash, Restart, vars, history
    <2>2. torn => torn'
      BY <1>3 DEF Next, Round, CallTimesOut, Elect, Deposed, LeaderSnapshot,
                  HearCandidate, KeepLeaders, Crash, Restart, vars, history
    <2>3. lost' = lost \/ lost' = lost + 1
      BY <1>3 DEF Next, Round, CallTimesOut, Elect, Deposed, LeaderSnapshot,
                  HearCandidate, Crash, Restart, vars
    <2> QED
      BY <1>1, <2>1, <2>2, <2>3
  <1> QED
    BY <1>2, <1>3

\* A step after which nothing has misled a leader.
LEMMA UndisturbedBefore ==
    ASSUME OneHeartbeatEach, TypeInv, [Next]_vars, Undisturbed'
    PROVE  Undisturbed
  BY RecordsStay DEF Undisturbed

LEMMA LeaderFieldsNext ==
    ASSUME TypeInv', NEW l \in Leader
    PROVE  /\ Offer(l)' \in Int /\ Offer(l)' \in 0 .. Len(History) - 1
           /\ nextIndex'[l] \in Int /\ nextIndex'[l] \in 0 .. Len(History)
           /\ elected'[l] \in Int /\ elected'[l] \in Nat /\ leading'[l] \in BOOLEAN
           /\ leaderTerm'[l] \in Int
           /\ NeedsSnapshot(l)' <=> nextIndex'[l] <= Offer(l)'
  <1>1. /\ leaderSnapshot'[l] \in Taken /\ nextIndex'[l] \in 0 .. Len(History)
        /\ elected'[l] \in Nat /\ leading'[l] \in BOOLEAN /\ leaderTerm'[l] \in Nat
    BY DEF TypeInv, LeadersWell
  <1>2. leaderSnapshot'[l].lastIncludedIndex \in Index
    BY <1>1, TakenFields
  <1> QED
    BY <1>1, <1>2, HistoryFacts DEF Index, Offer, NeedsSnapshot

LEMMA BatchFields ==
    ASSUME TypeInv, NEW h \in handlers
    PROVE  /\ h.from \in Sender /\ h.from.leader \in Leader /\ h.msg.term \in Int
           /\ h.msg.kind \in {"snapshot", "append"} /\ h.awaited \in BOOLEAN
           /\ h.msg.kind = "append" => /\ h.msg.prevLogIndex \in Int
                                       /\ h.msg.entries \in Vector
                                       /\ Len(h.msg.entries) \in Nat
  <1>1. h \in Handler
    BY HandlerIn
  <1>2. Index \cup {-1} \subseteq Int
    BY HistoryFacts
  <1>3. h.msg.kind = "append" => /\ h.msg.prevLogIndex \in Index \cup {-1}
                                 /\ h.msg.entries \in Vector
    BY <1>1, HandlerFields
  <1>4. h.msg.kind = "append" => Len(h.msg.entries) \in Nat
    BY <1>3, VectorFields
  <1>5. /\ h.from \in Sender /\ h.from.leader \in Leader /\ h.msg.term \in Int
        /\ h.msg.kind \in {"snapshot", "append"} /\ h.awaited \in BOOLEAN
    BY <1>1, HandlerFields
  <1> QED
    BY <1>2, <1>3, <1>4, <1>5

\* What a snapshot under way is the snapshot of.
LEMMA TargetFields ==
    ASSUME WholeInv, InPlace, ~astray, NEW h \in handlers, Brings(h)
    PROVE  Target(h) \in Int
  <1>1. TypeInv /\ OneAtATime /\ SnapshotsWhole /\ CallsWell(handlers, transfer)
    BY DEF WholeInv, TypeInv
  <1>2. CASE h.pc = "sent"
    <2>1. transfer[h.from] \in Sending
      BY <1>1, BatchFields DEF CallsWell
    <2>2. transfer[h.from].snap \in AnySnapshot
      BY <2>1, SendingFields, TakenFields, NoSnapFields DEF NoTransfer
    <2> QED
      BY <1>2, <2>2, AnySnapshotFields DEF Target
  <1>3. CASE h.pc = "save"
    <2>1. h.msg.kind = "snapshot"
      BY <1>3 DEF Brings, ChunkSent, Installing
    <2>2. PICK s \in Taken : snapshotBuffer = s.parts
      BY <1>1, <1>3, <2>1 DEF SnapshotsWhole, Whole
    <2>3. 1 \in 1 .. Len(s.parts) /\ s.parts[1] \in Piece
      BY <2>2, TakenFields
    <2>4. snapshotBuffer[1].index \in Index /\ Index \subseteq Int
      BY <2>2, <2>3, HistoryFacts DEF Piece
    <2>5. Target(h) = snapshotBuffer[1].index
      BY <1>3 DEF Target
    <2> QED
      BY <2>4, <2>5
  <1>4. CASE h.pc \notin {"sent", "save"}
    <2>1. snapFile \in AnySnapshot
      BY <1>1 DEF OneAtATime, InPlace, FilesFollow, Readable, TypeInv, DiskWell
    <2> QED
      BY <1>4, <2>1, AnySnapshotFields DEF Target
  <1> QED
    BY <1>2, <1>3, <1>4

-----------------------------------------------------------------------------
(* Steps after which every call was there before, or follows one.           *)

\* A call follows one.
Goes(h, f) ==
    /\ h.from = f.from /\ h.msg.kind = f.msg.kind /\ h.msg.term = f.msg.term
    /\ h.msg.kind = "append" => h.msg = f.msg
    /\ h.awaited => f.awaited
    /\ h.pc = "sent" => f.pc = "sent"
    /\ Brings(h) => /\ Brings(f) /\ Target(h)' = Target(f)
                    /\ f.pc = "persist" => h.pc = "persist"
    /\ h.awaited /\ h.msg.kind = "snapshot" =>
          transfer'[h.from].snap = transfer[h.from].snap

\* What the leaders of the calls do meanwhile.
LeadersCalm ==
    /\ \A l \in Leader : Offer(l) <= Offer(l)' /\ elected[l] <= elected'[l]
    /\ \A h \in handlers', l \in Leader :
          elected'[l] = elected[l] \/ h.msg.term < elected'[l]
    /\ \A h \in handlers' : Batch(h) =>
          /\ nextIndex[h.from.leader] <= nextIndex'[h.from.leader]
          /\ Offer(h.from.leader)' < nextIndex'[h.from.leader]

\* What the follower does.
FollowerCalm ==
    /\ currentTerm <= currentTerm'
    /\ \A h \in handlers' : /\ Busy(h) => h.msg.term = currentTerm'
                            /\ lost' = 0 => h.awaited
    /\ \A h \in handlers' : Batch(h) /\ h.msg.term = elected'[h.from.leader] =>
          /\ h.pc = "sent" /\ h.msg.term = currentTerm' /\ Held <= h.msg.prevLogIndex
             => Held' <= h.msg.prevLogIndex
          /\ h.pc = "log" /\ ~h.success => End' <= h.msg.prevLogIndex
    /\ \A h \in handlers' : Brings(h) =>
          /\ h.msg.term = currentTerm' /\ h.pc # "persist" /\ End <= Target(h)' + 1
             => End' <= Target(h)' + 1
          /\ h.pc = "persist" => log' = <<>>

Calm ==
    /\ \A h \in handlers' : \E f \in handlers : Goes(h, f)
    /\ LeadersCalm /\ FollowerCalm
    /\ \A g, h \in handlers' :
          /\ Installing(g) /\ g.from = h.from /\ g.msg.term = h.msg.term
          /\ ChunkSent(h) \/ Batch(h)
          => \E e \in handlers : Goes(g, e) /\ Installing(e)

LEMMA CalmKeeps ==
    ASSUME WholeInv, WholeInv', PlaceInv, InPlace, ~astray, Calm,
           CallTerms, BatchesAhead, SnapshotsAhead
    PROVE  CallTerms' /\ BatchesAhead' /\ SnapshotsAhead'
  <1>0. TypeInv /\ TypeInv' /\ OneAtATime'
    BY DEF WholeInv
  <1>1. /\ \A h \in handlers : /\ h.from \in Sender /\ h.from.leader \in Leader
                               /\ h.msg.term \in Int
                               /\ h.msg.kind \in {"snapshot", "append"}
        /\ \A h \in handlers' : /\ h.from \in Sender /\ h.from.leader \in Leader
                                /\ h.msg.term \in Int
                                /\ h.msg.kind \in {"snapshot", "append"}
    BY <1>0, HandlerFields DEF TypeInv, CallsWell
  <1>2. /\ currentTerm \in Int /\ currentTerm' \in Int
        /\ \A l \in Leader : /\ elected[l] \in Int /\ elected'[l] \in Int
                             /\ nextIndex[l] \in Int /\ nextIndex'[l] \in Int
    BY <1>0, HistoryFacts DEF TypeInv, MemoryWell, LeadersWell
  <1>3. /\ \A h \in handlers', l \in Leader :
              elected'[l] = elected[l] \/ h.msg.term < elected'[l]
        /\ \A l \in Leader : Offer(l) <= Offer(l)' /\ elected[l] <= elected'[l]
        /\ currentTerm <= currentTerm'
        /\ \A h \in handlers' : \E f \in handlers : Goes(h, f)
    BY DEF Calm, LeadersCalm, FollowerCalm
  <1>4. ASSUME NEW h \in handlers', h.msg.term = elected'[h.from.leader]
        PROVE  elected'[h.from.leader] = elected[h.from.leader]
    BY <1>1, <1>2, <1>3, <1>4
  <1>5. \A h \in handlers' : h.pc = "sent" => h.awaited
    BY <1>0 DEF OneAtATime
  <1>6. CallTerms'
    <2>1. ASSUME NEW h \in handlers' PROVE CallTerm(h)'
      <3>1. PICK f \in handlers : Goes(h, f)
        BY <1>3
      <3>2. CallTerm(f)
        BY DEF CallTerms
      <3>3. /\ 0 < h.msg.term /\ h.msg.term <= elected'[h.from.leader]
        BY <1>1, <1>2, <1>3, <3>1, <3>2 DEF Goes, CallTerm
      <3>4. (Busy(h) => h.msg.term = currentTerm') /\ (lost' = 0 => h.awaited)
        BY DEF Calm, FollowerCalm
      <3> QED
        BY <3>3, <3>4 DEF CallTerm, Busy
    <2>2. ASSUME NEW h \in handlers', NEW l \in Leader, h.msg.term = elected'[l]
          PROVE  l = h.from.leader
      <3>1. PICK f \in handlers : Goes(h, f)
        BY <1>3
      <3>2. elected'[l] = elected[l]
        BY <1>1, <1>2, <1>3, <2>2
      <3> QED
        BY <2>2, <3>1, <3>2 DEF Goes, CallTerms
    <2>3. ASSUME NEW g \in handlers', NEW h \in handlers', g.msg.term = h.msg.term
          PROVE  g.from.leader = h.from.leader
      <3>1. PICK e \in handlers : Goes(g, e)
        BY <1>3
      <3>2. PICK f \in handlers : Goes(h, f)
        BY <1>3
      <3>3. /\ g.from = e.from /\ g.msg.term = e.msg.term
            /\ h.from = f.from /\ h.msg.term = f.msg.term
        BY <3>1, <3>2 DEF Goes
      <3>4. e.msg.term = f.msg.term => e.from.leader = f.from.leader
        BY DEF CallTerms
      <3> QED
        BY <2>3, <3>3, <3>4
    <2> QED
      BY <2>1, <2>2, <2>3 DEF CallTerms
  <1>7. BatchesAhead'
    <2> SUFFICES ASSUME NEW h \in handlers', Batch(h) PROVE BatchAhead(h)'
      BY DEF BatchesAhead, Batch
    <2> DEFINE l == h.from.leader
               p == h.msg.prevLogIndex
    <2>1. PICK f \in handlers : Goes(h, f)
      BY <1>3
    <2>2. f.msg = h.msg /\ f.from = h.from /\ Batch(f)
      BY <2>1 DEF Goes, Batch
    <2>3. BatchAhead(f)
      BY <2>2 DEF BatchesAhead
    <2>4. /\ nextIndex[l] <= nextIndex'[l] /\ Offer(l)' < nextIndex'[l]
          /\ currentTerm <= currentTerm' /\ l \in Leader
      BY <1>1, <1>3 DEF Calm, LeadersCalm
    <2>5. p \in Int /\ Offer(l)' \in Int
      BY <1>0, <1>1, <2>2, BatchFields, LeaderFieldsNext DEF Batch
    <2>6. /\ p + 1 <= nextIndex'[l] /\ Offer(l)' < nextIndex'[l]
          /\ h.msg.prevLogTerm = History[p + 1]
          /\ p + 1 + Len(h.msg.entries) = Len(History)
      <3>1. /\ p + 1 <= nextIndex[l]
            /\ h.msg.prevLogTerm = History[p + 1]
            /\ p + 1 + Len(h.msg.entries) = Len(History)
        BY <2>2, <2>3 DEF BatchAhead
      <3>2. nextIndex[l] \in Int /\ nextIndex'[l] \in Int
        BY <1>2, <2>4
      <3> QED
        BY <2>4, <2>5, <3>1, <3>2
    <2>7. ASSUME h.msg.term = elected'[l]
          PROVE  /\ h.pc = "sent" /\ h.msg.term = currentTerm' => Held' <= p
                 /\ h.pc = "sent" /\ h.msg.term > currentTerm' => p = Len(History) - 1
                 /\ h.pc = "log" /\ ~h.success => End' <= p
      <3>1. elected'[l] = elected[l] /\ h.msg.term \in Int
        BY <1>1, <1>4, <2>7
      <3>2. /\ f.pc = "sent" /\ f.msg.term = currentTerm => Held <= p
            /\ f.pc = "sent" /\ f.msg.term > currentTerm => p = Len(History) - 1
        BY <2>2, <2>3, <2>7, <3>1 DEF BatchAhead
      <3>3. h.pc = "sent" => f.pc = "sent"
        BY <2>1 DEF Goes
      <3>4. ASSUME h.pc = "sent", h.msg.term = currentTerm'
            PROVE  Held' <= p
        <4>1. CASE f.msg.term = currentTerm
          BY <2>7, <3>2, <3>3, <3>4, <4>1 DEF Calm, FollowerCalm
        <4>2. CASE f.msg.term > currentTerm
          <5>1. p = Len(History) - 1
            BY <3>2, <3>3, <3>4, <4>2
          <5>2. Held' \in Index \cup {-1}
            BY <1>0, AnySnapshotFields DEF Held, TypeInv, MemoryWell
          <5>3. Held' <= Len(History) - 1 /\ Len(History) \in Nat \ {0}
            BY <5>2, HistoryFacts DEF Index
          <5> QED
            BY <5>1, <5>3
        <4> QED
          BY <1>2, <2>2, <2>4, <3>1, <3>4, <4>1, <4>2
      <3>5. h.pc = "log" /\ ~h.success => End' <= p
        BY <2>7 DEF Calm, FollowerCalm
      <3> QED
        BY <1>2, <2>2, <2>4, <3>1, <3>2, <3>3, <3>4, <3>5
    <2> QED
      BY <1>2, <2>4, <2>5, <2>6, <2>7 DEF BatchAhead
  <1>8. ASSUME NEW h \in handlers', Brings(h) PROVE SnapshotAhead(h)'
    <2>1. PICK f \in handlers : Goes(h, f)
      BY <1>3
    <2>2. /\ Brings(f) /\ Target(h)' = Target(f)
          /\ (f.pc = "persist" => h.pc = "persist")
          /\ h.from = f.from /\ h.msg.term = f.msg.term /\ (h.awaited => f.awaited)
          /\ h.msg.kind = "snapshot"
      BY <1>8, <2>1 DEF Goes, Brings, ChunkSent, Installing
    <2>3. SnapshotAhead(f)
      BY <2>2 DEF SnapshotsAhead
    <2>4. h.msg.term <= currentTerm'
          /\ (h.msg.term = currentTerm' => h.msg.term = currentTerm)
      BY <1>1, <1>2, <1>3, <2>2, <2>3 DEF SnapshotAhead
    <2>5. h.msg.term = currentTerm' /\ h.pc # "persist" => End' <= Target(h)' + 1
      BY <1>8, <2>2, <2>3, <2>4 DEF SnapshotAhead, Calm, FollowerCalm
    <2>6. h.awaited => Target(h)' = transfer'[h.from].snap.lastIncludedIndex
      BY <2>1, <2>2, <2>3 DEF SnapshotAhead, Goes
    <2>7. h.pc = "persist" => log' = <<>>
      BY <1>8 DEF Calm, FollowerCalm
    <2>8. h.msg.term = elected'[h.from.leader] => Target(h)' <= Offer(h.from.leader)'
      <3>1. SUFFICES ASSUME h.msg.term = elected'[h.from.leader]
                     PROVE  Target(h)' <= Offer(h.from.leader)'
        OBVIOUS
      <3>2. elected'[h.from.leader] = elected[h.from.leader] /\ h.from.leader \in Leader
        BY <1>1, <1>4, <3>1
      <3>3. Target(f) <= Offer(h.from.leader)
            /\ Offer(h.from.leader) <= Offer(h.from.leader)'
        BY <1>3, <2>2, <2>3, <3>1, <3>2 DEF SnapshotAhead
      <3>4. /\ Offer(h.from.leader) \in Int /\ Offer(h.from.leader)' \in Int
            /\ Target(f) \in Int
        BY <1>0, <2>2, <3>2, LeaderFields, LeaderFieldsNext, TargetFields
      <3> QED
        BY <2>2, <3>3, <3>4
    <2> QED
      BY <2>4, <2>5, <2>6, <2>7, <2>8 DEF SnapshotAhead
  <1>9. ASSUME NEW g \in handlers', NEW h \in handlers' PROVE Overtaken(g, h)'
    <2> SUFFICES ASSUME Installing(g), g.from = h.from, g.msg.term = h.msg.term
                 PROVE  /\ ChunkSent(h) => Target(g)' <= Target(h)'
                        /\ Batch(h) => Target(g)' <= h.msg.prevLogIndex
      BY DEF Overtaken, Installing, ChunkSent, Batch, Busy
    <2> SUFFICES ASSUME ChunkSent(h) \/ Batch(h)
                 PROVE  /\ ChunkSent(h) => Target(g)' <= Target(h)'
                        /\ Batch(h) => Target(g)' <= h.msg.prevLogIndex
      OBVIOUS
    <2>1. PICK e \in handlers : Goes(g, e) /\ Installing(e)
      BY DEF Calm
    <2>2. PICK f \in handlers : Goes(h, f)
      BY <1>3
    <2>3. Target(g)' = Target(e)
      BY <2>1 DEF Goes, Brings
    <2>4. e.from = f.from /\ e.msg.term = f.msg.term
      BY <2>1, <2>2 DEF Goes
    <2>5. Overtaken(e, f)
      BY DEF SnapshotsAhead
    <2>6. ChunkSent(h) => ChunkSent(f) /\ Target(h)' = Target(f)
      BY <2>2 DEF Goes, ChunkSent, Brings
    <2>7. Batch(h) => Batch(f) /\ f.msg = h.msg
      BY <2>2 DEF Goes, Batch
    <2> QED
      BY <2>1, <2>3, <2>4, <2>5, <2>6, <2>7 DEF Overtaken
  <1>10. SnapshotsAhead'
    BY <1>8, <1>9 DEF SnapshotsAhead, Brings, ChunkSent, Installing, Busy
  <1> QED
    BY <1>6, <1>7, <1>10

-----------------------------------------------------------------------------
(* A step from a state where nothing is lost.                              *)
Standing ==
    /\ WholeInv /\ PlaceInv /\ Undisturbed /\ NothingLost
    /\ WholeInv' /\ PlaceInv' /\ Undisturbed'

LEMMA StandingFacts ==
    ASSUME Standing
    PROVE  /\ TypeInv /\ OneAtATime /\ LeadersApart /\ InPlace /\ AllStraight
           /\ BufferFits /\ SnapshotsWhole /\ ~astray
           /\ TypeInv' /\ OneAtATime' /\ LeadersApart' /\ InPlace' /\ ~astray'
           /\ CallsWell(handlers, transfer) /\ CallsWell(handlers', transfer')
           /\ currentTerm \in Int /\ currentTerm' \in Int
  <1>1. /\ TypeInv /\ OneAtATime /\ LeadersApart /\ ~astray /\ ~torn
        /\ InPlace /\ AllStraight /\ BufferFits /\ SnapshotsWhole
    BY DEF Standing, WholeInv, PlaceInv, Undisturbed
  <1>2. /\ TypeInv' /\ OneAtATime' /\ LeadersApart' /\ ~astray' /\ InPlace'
    BY DEF Standing, WholeInv, PlaceInv, Undisturbed
  <1>3. CallsWell(handlers, transfer) /\ currentTerm \in Int
    BY <1>1 DEF TypeInv, MemoryWell
  <1>4. CallsWell(handlers', transfer') /\ currentTerm' \in Int
    BY <1>2 DEF TypeInv, MemoryWell
  <1> QED
    BY <1>1, <1>2, <1>3, <1>4

\* One call of a leader is awaited, since it has one sender.
LEMMA OneAwaited ==
    ASSUME OneHeartbeatEach, NEW hs, NEW tr, CallsWell(hs, tr), NEW g \in hs, NEW h \in hs,
           g.awaited, h.awaited, g.from.leader = h.from.leader
    PROVE  g = h
  <1>1. g.from \in Sender /\ h.from \in Sender
    BY HandlerFields DEF CallsWell
  <1>2. g.from = h.from
    BY <1>1 DEF OneHeartbeatEach
  <1> QED
    BY <1>2 DEF CallsWell

\* A step that leaves the follower's log, snapshot and snapshot file alone.
Stays(h, f) ==
    /\ h.from = f.from /\ h.msg.kind = f.msg.kind /\ h.msg.term = f.msg.term
    /\ h.msg.kind = "append" => h.msg = f.msg
    /\ h.awaited => f.awaited
    /\ lost' = 0 /\ f.awaited => h.awaited
    /\ Busy(h) => Busy(f)
    /\ \/ h.pc = f.pc /\ (h.pc = "log" => h.success = f.success)
       \/ h.msg.kind = "append" /\ h.pc \notin {"sent", "log"}
    /\ h.awaited /\ h.msg.kind = "snapshot" =>
          transfer'[h.from].snap = transfer[h.from].snap
Quiet ==
    /\ UNCHANGED <<log, latestSnapshot, snapFile>>
    /\ \A h \in handlers' : \E f \in handlers : Stays(h, f)
    /\ LeadersCalm
    /\ currentTerm <= currentTerm'
    /\ currentTerm' = currentTerm \/ \A f \in handlers : ~Busy(f)
    /\ \/ snapshotBuffer' = snapshotBuffer
       \/ \A h \in handlers' : h.msg.kind = "snapshot" => h.pc # "save"
    /\ lost' = 0 => lost = 0

LEMMA StaysGoes ==
    ASSUME Standing, Quiet, NEW h \in handlers', NEW f \in handlers, Stays(h, f)
    PROVE  Goes(h, f) /\ (Brings(h) => h.pc = f.pc)
  <1>1. h.msg.kind \in {"snapshot", "append"} /\ (h.pc = "sent" => h.awaited)
    BY StandingFacts, HandlerFields DEF OneAtATime, CallsWell
  <1>2. h.pc = "sent" => f.pc = "sent"
    BY DEF Stays
  <1>3. ASSUME Brings(h) PROVE Brings(f) /\ Target(h)' = Target(f) /\ h.pc = f.pc
    <2>1. /\ h.pc = f.pc /\ h.msg.kind = "snapshot" /\ f.msg.kind = "snapshot"
          /\ h.from = f.from
      BY <1>3 DEF Stays, Brings, ChunkSent, Installing
    <2>2. Brings(f)
      BY <1>3, <2>1 DEF Brings, ChunkSent, Installing, Busy
    <2>3. CASE h.pc = "sent"
      <3>1. transfer'[h.from].snap = transfer[h.from].snap
        BY <1>1, <2>1, <2>3 DEF Stays
      <3> QED
        BY <2>1, <2>2, <2>3, <3>1 DEF Target
    <2>4. CASE h.pc # "sent"
      BY <1>3, <2>1, <2>2, <2>4 DEF Quiet, Target
    <2> QED
      BY <2>3, <2>4
  <1> QED
    BY <1>2, <1>3 DEF Stays, Goes

LEMMA QuietCalm ==
    ASSUME Standing, Quiet
    PROVE  Calm
  <1>1. \A h \in handlers' : \E f \in handlers : Goes(h, f)
    BY StaysGoes DEF Quiet
  <1>2. End' = End /\ Held' = Held /\ UNCHANGED log
    BY DEF Quiet, End, Held
  <1>3. CallTerms /\ BatchesAhead /\ SnapshotsAhead
    BY DEF Standing, NothingLost
  <1>4. FollowerCalm
    <2>1. ASSUME NEW h \in handlers'
          PROVE  (Busy(h) => h.msg.term = currentTerm') /\ (lost' = 0 => h.awaited)
      <3>1. PICK f \in handlers : Stays(h, f)
        BY DEF Quiet
      <3>2. CallTerm(f)
        BY <1>3 DEF CallTerms
      <3>3. Busy(h) => h.msg.term = currentTerm'
        BY <3>1, <3>2 DEF Stays, Quiet, CallTerm
      <3>4. lost' = 0 => h.awaited
        BY <3>1, <3>2 DEF Stays, Quiet, CallTerm
      <3> QED
        BY <3>3, <3>4
    <2>2. ASSUME NEW h \in handlers', Batch(h), h.msg.term = elected'[h.from.leader],
                 h.pc = "log", ~h.success
          PROVE  End' <= h.msg.prevLogIndex
      <3>1. PICK f \in handlers : Stays(h, f)
        BY DEF Quiet
      <3>2. f.pc = "log" /\ ~f.success /\ f.msg = h.msg /\ Batch(f) /\ f.from = h.from
        BY <2>2, <3>1 DEF Stays, Batch
      <3>3. h.msg.term \in Int /\ h.from.leader \in Leader
        BY StandingFacts, HandlerFields DEF CallsWell
      <3>4. elected'[h.from.leader] = elected[h.from.leader]
        BY <2>2, <3>3, StandingFacts, LeaderFieldsNext DEF Quiet, LeadersCalm
      <3>5. BatchAhead(f)
        BY <1>3, <3>2 DEF BatchesAhead
      <3> QED
        BY <1>2, <2>2, <3>2, <3>4, <3>5 DEF BatchAhead
    <2>3. ASSUME NEW h \in handlers', Brings(h), h.pc = "persist"
          PROVE  log' = <<>>
      <3>1. PICK f \in handlers : Stays(h, f)
        BY DEF Quiet
      <3>2. Brings(f) /\ f.pc = "persist"
        BY <2>3, <3>1, StaysGoes DEF Goes
      <3> QED
        BY <1>2, <1>3, <3>2 DEF SnapshotsAhead, SnapshotAhead
    <2> QED
      BY <1>2, <2>1, <2>2, <2>3 DEF FollowerCalm, Quiet
  <1>5. ASSUME NEW g \in handlers', Installing(g)
        PROVE  \E e \in handlers : Goes(g, e) /\ Installing(e)
    <2>1. PICK e \in handlers : Stays(g, e)
      BY DEF Quiet
    <2>2. Goes(g, e) /\ Installing(e)
      BY <1>5, <2>1, StaysGoes DEF Stays, Installing
    <2> QED
      BY <2>2
  <1> QED
    BY <1>1, <1>4, <1>5 DEF Calm, Quiet

-----------------------------------------------------------------------------
(* What an answer does to its leader.                                      *)
NextOnFailure(n) == IF n > 0 THEN n - 1 ELSE n

LEMMA AnswerNext ==
    ASSUME TypeInv, OneHeartbeatEach, NEW h \in handlers,
           NEW success \in BOOLEAN, Reply(h, success)
    PROVE  LET l == h.from.leader
           IN  /\ \A m \in Leader :
                     /\ m # l \/ ~h.awaited => nextIndex'[m] = nextIndex[m]
                     /\ leading'[m] => leading[m]
               /\ UNCHANGED <<elected, leaderSnapshot, compacted>>
               /\ h.awaited /\ h.msg.kind = "snapshot" =>
                     nextIndex'[l] = IF success /\ h.msg.done
                                     THEN transfer[h.from].snap.lastIncludedIndex + 1
                                     ELSE nextIndex[l]
               /\ h.awaited /\ h.msg.kind = "append" /\ leading'[l]
                  /\ currentTerm <= leaderTerm[l] =>
                     nextIndex'[l] =
                        IF success /\ h.msg.entries = <<>> THEN nextIndex[l]
                        ELSE IF success
                        THEN h.msg.prevLogIndex + 1 + Len(h.msg.entries)
                        ELSE NextOnFailure(nextIndex[l])
               /\ leading[l] /\ nextIndex' # nextIndex /\ ~stale' =>
                     h.msg.term = leaderTerm[l]
  <1> DEFINE l == h.from.leader
  <1>1. /\ nextIndex \in [Leader -> 0 .. Len(History)] /\ leading \in [Leader -> BOOLEAN]
        /\ leaderTerm \in [Leader -> Nat] /\ currentTerm \in Nat
    BY DEF TypeInv, LeadersWell, MemoryWell
  <1>2. /\ l \in Leader /\ h.from \in Sender /\ h.from.thread = "heart"
        /\ h.awaited \in BOOLEAN /\ h.msg.kind \in {"snapshot", "append"}
        /\ h.msg.kind = "append" => h.msg.entries \in Vector
    BY BatchFields DEF OneHeartbeatEach
  <1>3. UNCHANGED <<elected, leaderSnapshot, compacted>>
    BY DEF Reply
  <1>4. leading[l] /\ nextIndex' # nextIndex /\ ~stale' => h.msg.term = leaderTerm[l]
    BY DEF Reply
  <1>5. \A m \in Leader : leading'[m] => leading[m]
    <2>1. \/ leading' = leading
          \/ leading' = [leading EXCEPT ![l] = FALSE]
      BY HeartbeatReply
    <2> QED
      BY <1>1, <1>2, <2>1
  <1>6. CASE ~h.awaited
    <2>1. nextIndex' = nextIndex
      BY <1>6 DEF Reply
    <2> QED
      BY <1>3, <1>4, <1>5, <1>6, <2>1
  <1>7. CASE h.awaited /\ h.msg.kind = "snapshot"
    <2>1. ChunkAnswered(h, success)
      BY <1>7 DEF Reply
    <2>2. CASE success /\ ~h.msg.done
      <3>1. nextIndex' = nextIndex
        BY <2>1, <2>2 DEF ChunkAnswered
      <3> QED
        BY <1>3, <1>4, <1>5, <1>7, <2>2, <3>1
    <2>3. CASE ~(success /\ ~h.msg.done)
      <3>1. nextIndex' = [nextIndex EXCEPT ![l] =
                             IF success THEN AfterSnapshot(h.from) ELSE @]
        BY <2>1, <2>3 DEF ChunkAnswered
      <3>2. \A m \in Leader : m # l => nextIndex'[m] = nextIndex[m]
        BY <1>1, <1>2, <3>1
      <3>3. nextIndex'[l] = IF success THEN AfterSnapshot(h.from) ELSE nextIndex[l]
        BY <1>1, <1>2, <3>1
      <3>4. success => h.msg.done
        BY <2>3
      <3> QED
        BY <1>3, <1>4, <1>5, <1>7, <3>2, <3>3, <3>4 DEF AfterSnapshot
    <2> QED
      BY <2>2, <2>3
  <1>8. CASE h.awaited /\ h.msg.kind = "append"
    <2>1. AppendAnswered(h, success)
      BY <1>8 DEF Reply
    <2>2. Len(h.msg.entries) = 0 <=> h.msg.entries = <<>>
      BY <1>2, <1>8, VectorFields, EmptySeq
    <2>3. CASE ~leading[l] \/ (success /\ Len(h.msg.entries) = 0)
      <3>1. nextIndex' = nextIndex
        BY <1>2, <2>1, <2>3 DEF AppendAnswered
      <3> QED
        BY <1>2, <1>3, <1>4, <1>5, <1>8, <2>2, <2>3, <3>1
    <2>4. CASE leading[l] /\ ~(success /\ Len(h.msg.entries) = 0)
      <3>1. CASE currentTerm > leaderTerm[l]
        <4>1. nextIndex' = nextIndex
          BY <1>2, <2>1, <2>4, <3>1 DEF AppendAnswered
        <4>2. ~(currentTerm <= leaderTerm[l])
          BY <1>1, <1>2, <3>1
        <4> QED
          BY <1>2, <1>3, <1>4, <1>5, <1>8, <4>1, <4>2
      <3>2. CASE ~(currentTerm > leaderTerm[l])
        <4>1. nextIndex' = [nextIndex EXCEPT ![l] =
                  IF success THEN h.msg.prevLogIndex + 1 + Len(h.msg.entries)
                  ELSE IF @ > 0 THEN @ - 1 ELSE @]
          BY <1>2, <2>1, <2>4, <3>2 DEF AppendAnswered
        <4>2. \A m \in Leader : m # l => nextIndex'[m] = nextIndex[m]
          BY <1>1, <1>2, <4>1
        <4>3. nextIndex'[l] =
                  IF success THEN h.msg.prevLogIndex + 1 + Len(h.msg.entries)
                  ELSE NextOnFailure(nextIndex[l])
          BY <1>1, <1>2, <4>1 DEF NextOnFailure
        <4> QED
          BY <1>3, <1>4, <1>5, <1>8, <2>2, <2>4, <4>2, <4>3
      <3> QED
        BY <3>1, <3>2
    <2> QED
      BY <2>3, <2>4
  <1> QED
    BY <1>2, <1>6, <1>7, <1>8

-----------------------------------------------------------------------------
(* The quiet steps.                                                        *)
LEMMA StayedStays ==
    ASSUME NEW h \in handlers,
           h.awaited /\ h.msg.kind = "snapshot" =>
               transfer'[h.from].snap = transfer[h.from].snap
    PROVE  Stays(h, h)
  BY DEF Stays

LEMMA QuietOf ==
    ASSUME Standing, UNCHANGED <<log, latestSnapshot, snapFile, snapshotBuffer>>,
           UNCHANGED <<elected, leaderSnapshot, nextIndex>>,
           \A h \in handlers' : \E f \in handlers : Stays(h, f),
           currentTerm <= currentTerm',
           currentTerm' = currentTerm \/ \A f \in handlers : ~Busy(f),
           lost' = 0 => lost = 0
    PROVE  Quiet
  <1>1. \A l \in Leader : Offer(l)' = Offer(l) /\ Offer(l) \in Int /\ elected[l] \in Int
                          /\ nextIndex[l] \in Int
    BY StandingFacts, LeaderFields DEF Offer
  <1>2. ASSUME NEW h \in handlers', Batch(h)
        PROVE  h.from.leader \in Leader /\ Offer(h.from.leader) < nextIndex[h.from.leader]
    <2>1. PICK f \in handlers : Stays(h, f)
      OBVIOUS
    <2>2. Batch(f) /\ f.from = h.from
      BY <1>2, <2>1 DEF Stays, Batch
    <2>3. BatchAhead(f)
      BY <2>2 DEF Standing, NothingLost, BatchesAhead
    <2>4. f.from.leader \in Leader
      BY StandingFacts, BatchFields
    <2> QED
      BY <1>1, <2>2, <2>3, <2>4 DEF BatchAhead
  <1>3. LeadersCalm
    BY <1>1, <1>2 DEF LeadersCalm
  <1> QED
    BY <1>3 DEF Quiet

LEMMA AnswerQuiet ==
    ASSUME Standing, OneHeartbeatEach, NEW h \in handlers, NEW success \in BOOLEAN,
           Reply(h, success), UNCHANGED <<log, latestSnapshot, snapFile, lost>>,
           currentTerm <= currentTerm',
           currentTerm' = currentTerm \/ \A f \in handlers : ~Busy(f),
           \/ snapshotBuffer' = snapshotBuffer
           \/ \A g \in handlers' : g.msg.kind = "snapshot" => g.pc # "save"
    PROVE  Quiet
  <1> DEFINE l == h.from.leader
  <1>1. /\ TypeInv /\ CallsWell(handlers, transfer) /\ BufferFits /\ ~astray'
        /\ h.from \in Sender /\ l \in Leader /\ h \in Handler /\ PcWell(h)
        /\ transfer \in [Sender -> Sending]
    BY StandingFacts, BatchFields, HandlerIn DEF CallsWell
  <1>2. NoNextCall(h) \/ (NextChunk(h) /\ success)
    BY <1>1, HeartbeatReply
  <1>3. UNCHANGED <<elected, leaderSnapshot>>
    BY DEF Reply
  <1>4. \A m \in Leader : m # l \/ ~h.awaited => nextIndex'[m] = nextIndex[m]
    BY <1>1, AnswerNext
  <1>5. \A s \in Sender : s # h.from \/ ~h.awaited => transfer'[s] = transfer[s]
    BY <1>1, <1>2 DEF NoNextCall, NextChunk
  <1>6. ASSUME NEW g \in handlers \ {h} PROVE Stays(g, g)
    <2>1. g.from \in Sender /\ g.awaited \in BOOLEAN
      BY <1>1, BatchFields
    <2>2. g.awaited => g.from # h.from \/ ~h.awaited
      BY <1>1, <1>6 DEF CallsWell
    <2> QED
      BY <1>5, <2>1, <2>2, StayedStays
  <1>7. ASSUME NEW g \in handlers', g \notin handlers \ {h}
        PROVE  Stays(g, h) /\ g.msg.kind = "snapshot"
    <2>1. NextChunk(h) /\ g = Chunk(h.from, NextPart(h))
      BY <1>2, <1>7 DEF NoNextCall, NextChunk
    <2>2. h.pc = "sent" /\ h.awaited /\ h.msg.kind = "snapshot"
      BY <1>1, <2>1 DEF NextChunk, PcWell
    <2>3. h.msg.term = transfer[h.from].term
      BY <1>1, <2>2 DEF BufferFits, ChunkSent
    <2>7. transfer[h.from] \in Sending /\ Carries(h.msg, transfer[h.from]) /\ ~h.msg.done
      BY <1>1, <2>1, <2>2 DEF CallsWell, CallWell, NextChunk
    <2>4. leaderTerm[l] = transfer[h.from].term
      <3>1. NextPart(h).term = transfer[h.from].term
        BY <2>7, PartAfter DEF NextPart
      <3> QED
        BY <1>1, <2>1, <3>1 DEF NextChunk, GoesAstray
    <2>5. /\ g.from = h.from /\ g.msg.kind = "snapshot" /\ g.msg.term = leaderTerm[l]
          /\ g.pc = "sent" /\ g.awaited
      BY <2>1 DEF Chunk, Call
    <2>6. transfer'[h.from] = NextPart(h)
      BY <1>1, <2>1 DEF NextChunk
    <2>8. transfer'[h.from].snap = transfer[h.from].snap
      BY <2>6, <2>7, PartAfter DEF NextPart
    <2> QED
      BY <2>2, <2>3, <2>4, <2>5, <2>8 DEF Stays, Busy
  <1>8. \A g \in handlers' : \E f \in handlers : Stays(g, f)
    BY <1>6, <1>7
  <1>9. LeadersCalm
    <2>1. \A m \in Leader : Offer(m)' = Offer(m) /\ Offer(m) \in Int
                            /\ elected[m] \in Int /\ nextIndex[m] \in Int
      BY <1>1, <1>3, LeaderFields DEF Offer
    <2>2. ASSUME NEW g \in handlers', Batch(g)
          PROVE  /\ g.from.leader \in Leader
                 /\ nextIndex'[g.from.leader] = nextIndex[g.from.leader]
                 /\ Offer(g.from.leader) < nextIndex[g.from.leader]
      <3>1. g \in handlers \ {h}
        BY <1>7, <2>2 DEF Batch
      <3>2. g.from.leader \in Leader
        BY <1>1, <3>1, BatchFields
      <3>3. g.from.leader # l \/ ~h.awaited
        BY <1>1, <2>2, <3>1, OneAwaited DEF Batch
      <3>4. BatchAhead(g)
        BY <2>2, <3>1 DEF Standing, NothingLost, BatchesAhead
      <3> QED
        BY <1>4, <2>1, <3>2, <3>3, <3>4 DEF BatchAhead
    <2> QED
      BY <1>3, <2>1, <2>2 DEF LeadersCalm
  <1> QED
    BY <1>8, <1>9 DEF Quiet

LEMMA CallTimesOutQuiet ==
    ASSUME Standing, NEW h \in handlers, CallTimesOut(h)
    PROVE  Quiet
  <1>1. /\ TypeInv /\ CallsWell(handlers, transfer) /\ currentTerm \in Int
        /\ h.from \in Sender /\ h \in Handler /\ transfer \in [Sender -> Sending]
        /\ lost \in Nat
    BY StandingFacts, BatchFields, HandlerIn DEF CallsWell, TypeInv, CountsWell
  <1>2. \A s \in Sender : s # h.from => transfer'[s] = transfer[s]
    BY <1>1 DEF CallTimesOut
  <1>3. lost' # 0
    BY <1>1 DEF CallTimesOut
  <1>4. ASSUME NEW g \in handlers \ {h} PROVE Stays(g, g)
    <2>1. g.from \in Sender
      BY <1>1, BatchFields
    <2>2. g.awaited => g.from # h.from
      BY <1>1 DEF CallsWell, CallTimesOut
    <2> QED
      BY <1>2, <2>1, <2>2, StayedStays
  <1>5. Stays([h EXCEPT !.awaited = FALSE], h)
    <2> DEFINE g == [h EXCEPT !.awaited = FALSE]
    <2>1. /\ g.from = h.from /\ g.msg = h.msg /\ g.awaited = FALSE /\ g.pc = h.pc
          /\ g.success = h.success
      BY <1>1 DEF Handler
    <2> HIDE DEF g
    <2> QED
      BY <1>3, <2>1 DEF Stays, Busy
  <1>6. ASSUME NEW g \in handlers' PROVE \E f \in handlers : Stays(g, f)
    <2>1. g \in handlers \ {h} \/ g = [h EXCEPT !.awaited = FALSE]
      BY DEF CallTimesOut
    <2> QED
      BY <1>4, <1>5, <2>1
  <1>7. /\ UNCHANGED <<log, latestSnapshot, snapFile, snapshotBuffer, currentTerm>>
        /\ UNCHANGED <<elected, leaderSnapshot, nextIndex>>
    BY DEF CallTimesOut, memory, disk, electionVars
  <1> QED
    BY <1>1, <1>3, <1>6, <1>7, QuietOf

LEMMA StickQuiet ==
    ASSUME Standing, NEW h \in handlers, Stick(h)
    PROVE  Quiet
  <1>1. h \in Handler /\ currentTerm \in Int
    BY StandingFacts, HandlerIn
  <1>2. /\ UNCHANGED <<log, latestSnapshot, snapFile, snapshotBuffer, currentTerm, lost>>
        /\ UNCHANGED <<elected, leaderSnapshot, nextIndex, transfer>>
        /\ h.msg.kind = "append"
        /\ handlers' = (handlers \ {h}) \cup {[h EXCEPT !.pc = "stuck"]}
    BY DEF Stick, memory, disk, leaderVars, electionVars, KeepLeaders, Go
  <1>3. \A g \in handlers \ {h} : Stays(g, g)
    BY <1>2, StayedStays
  <1>4. Stays([h EXCEPT !.pc = "stuck"], h)
    <2> DEFINE g == [h EXCEPT !.pc = "stuck"]
    <2>1. g.from = h.from /\ g.msg = h.msg /\ g.awaited = h.awaited /\ g.pc = "stuck"
      BY <1>1, GoFields
    <2> HIDE DEF g
    <2> QED
      BY <1>2, <2>1 DEF Stays, Busy
  <1>5. \A g \in handlers' : \E f \in handlers : Stays(g, f)
    BY <1>2, <1>3, <1>4
  <1> QED
    BY <1>1, <1>2, <1>5, QuietOf

LEMMA OthersQuiet ==
    ASSUME Standing, ~Overlap,
           HearCandidate \/ (\E l \in Leader : Deposed(l)) \/ UNCHANGED vars
    PROVE  Quiet
  <1>1. currentTerm \in Int /\ currentTerm' \in Int /\ TypeInv
    BY StandingFacts
  <1>2. /\ UNCHANGED <<log, latestSnapshot, snapFile, snapshotBuffer, lost, handlers>>
        /\ UNCHANGED <<elected, leaderSnapshot, nextIndex, transfer>>
    BY DEF HearCandidate, Deposed, memory, disk, leaderVars, electionVars, KeepLeaders,
           vars
  <1>3. \A g \in handlers' : \E f \in handlers : Stays(g, f)
    BY <1>2, StayedStays
  <1>4. CASE HearCandidate
    <2>1. \A f \in handlers : ~Busy(f)
      BY <1>4, SerialQuiet DEF HearCandidate
    <2>2. PICK l \in Leader : elected[l] > currentTerm /\ HearTerm(elected[l])
      BY <1>4 DEF HearCandidate
    <2>3. elected[l] \in Int
      BY <1>1, LeaderFields
    <2>4. currentTerm <= currentTerm'
      BY <1>1, <2>2, <2>3 DEF HearTerm
    <2> QED
      BY <1>2, <1>3, <2>1, <2>4, QuietOf
  <1>5. CASE ~HearCandidate
    <2>1. currentTerm' = currentTerm
      BY <1>5 DEF Deposed, memory, vars
    <2> QED
      BY <1>1, <1>2, <1>3, <2>1, QuietOf
  <1> QED
    BY <1>4, <1>5

LEMMA LeaderSnapshotQuiet ==
    ASSUME Standing, NEW l \in Leader, NEW i \in Index, LeaderSnapshot(l, i)
    PROVE  Quiet
  <1>0. TypeInv /\ TypeInv' /\ currentTerm \in Int
    BY StandingFacts
  <1>1. /\ TypeInv /\ TypeInv' /\ currentTerm \in Int
        /\ nextIndex \in [Leader -> 0 .. Len(History)]
        /\ leaderSnapshot \in [Leader -> Taken]
        /\ Index \subseteq Int /\ Len(History) \in Int
    <2>1. LeadersWell
      BY <1>0 DEF TypeInv
    <2> QED
      BY <1>0, <2>1, HistoryFacts DEF LeadersWell
  <1>2. /\ UNCHANGED <<log, latestSnapshot, snapFile, snapshotBuffer, currentTerm>>
        /\ UNCHANGED <<elected, transfer, handlers, lost>>
        /\ i > Offer(l)
    BY DEF LeaderSnapshot, memory, disk, electionVars, Offer
  <1>3. ASSUME NEW m \in Leader
        PROVE  /\ Offer(m) <= Offer(m)' /\ nextIndex[m] <= nextIndex'[m]
               /\ Offer(m) < nextIndex[m] => Offer(m)' < nextIndex'[m]
    <2>1. /\ Offer(m) \in Int /\ Offer(m)' \in Int
          /\ nextIndex[m] \in Int /\ nextIndex'[m] \in Int /\ i \in Int
      BY <1>1, LeaderFields, LeaderFieldsNext
    <2>2. CASE m = l
      <3>1. leaderSnapshot'[m] = Snapshot(l, i)
        BY <1>1, <2>2 DEF LeaderSnapshot
      <3>2. Offer(m)' = i
        BY <3>1, SnapshotFields DEF Offer
      <3>3. nextIndex'[m] = IF nextIndex[m] <= i THEN i + 1 ELSE nextIndex[m]
        BY <1>1, <2>2 DEF LeaderSnapshot
      <3> QED
        BY <1>2, <2>1, <2>2, <3>2, <3>3
    <2>3. CASE m # l
      <3>1. leaderSnapshot'[m] = leaderSnapshot[m] /\ nextIndex'[m] = nextIndex[m]
        BY <1>1, <2>3 DEF LeaderSnapshot
      <3> QED
        BY <2>1, <3>1 DEF Offer
    <2> QED
      BY <2>2, <2>3
  <1>4. ASSUME NEW g \in handlers, Batch(g)
        PROVE  g.from.leader \in Leader /\ Offer(g.from.leader) < nextIndex[g.from.leader]
    <2>1. g.from.leader \in Leader /\ BatchAhead(g)
      BY <1>1, <1>4, BatchFields DEF Standing, NothingLost, BatchesAhead
    <2>2. Offer(g.from.leader) \in Int /\ nextIndex[g.from.leader] \in Int
      BY <1>1, <2>1, LeaderFields
    <2> QED
      BY <2>1, <2>2 DEF BatchAhead
  <1>5. \A m \in Leader : elected[m] \in Int
    BY <1>1, LeaderFields
  <1>6. LeadersCalm
    BY <1>2, <1>3, <1>4, <1>5 DEF LeadersCalm
  <1> QED
    BY <1>1, <1>2, <1>6, StayedStays DEF Quiet

LEMMA ElectQuiet ==
    ASSUME Standing, NEW l \in Leader, Elect(l)
    PROVE  Quiet /\ nextIndex'[l] = Len(History) /\ elected'[l] > currentTerm
           /\ \A m \in Leader : m # l => nextIndex'[m] = nextIndex[m]
  <1>0. /\ TypeInv /\ TypeInv' /\ currentTerm \in Int /\ LeadersApart
        /\ CallsWell(handlers, transfer)
    BY StandingFacts
  <1>1. /\ TypeInv /\ TypeInv' /\ currentTerm \in Int /\ LeadersApart
        /\ CallsWell(handlers, transfer)
        /\ nextIndex \in [Leader -> 0 .. Len(History)]
        /\ elected \in [Leader -> Nat] /\ leaderTerm \in [Leader -> Nat]
        /\ Len(History) \in Int /\ currentTerm \in Nat
    <2>1. LeadersWell /\ MemoryWell
      BY <1>0 DEF TypeInv
    <2> QED
      BY <1>0, <2>1, HistoryFacts DEF LeadersWell, MemoryWell
  <1>2. /\ UNCHANGED <<log, latestSnapshot, snapFile, snapshotBuffer, currentTerm>>
        /\ UNCHANGED <<leaderSnapshot, transfer, handlers, lost>>
        /\ nextIndex' = [nextIndex EXCEPT ![l] = Len(History)]
    BY DEF Elect, memory, disk
  <1>3. PICK t \in {currentTerm} \cup {leaderTerm[m] : m \in Leader} :
            /\ t >= currentTerm /\ \A m \in Leader : t >= leaderTerm[m]
            /\ elected' = [elected EXCEPT ![l] = t + 1]
    BY DEF Elect
  <1>4. t \in Nat
    BY <1>1, <1>3
  <1>5. elected'[l] = t + 1 /\ \A m \in Leader : m # l => elected'[m] = elected[m]
    BY <1>1, <1>3
  <1>6. /\ nextIndex'[l] = Len(History)
        /\ \A m \in Leader : m # l => nextIndex'[m] = nextIndex[m]
    BY <1>1, <1>2
  <1>7. \A m \in Leader : elected[m] <= t
    <2> SUFFICES ASSUME NEW m \in Leader PROVE elected[m] <= t
      OBVIOUS
    <2>1. elected[m] <= leaderTerm[m] /\ t >= leaderTerm[m]
      BY <1>1, <1>3 DEF LeadersApart
    <2> QED
      BY <1>1, <1>4, <2>1
  <1>8. ASSUME NEW g \in handlers
        PROVE  g.msg.term <= t /\ g.msg.term \in Int
    <2>1. CallTerm(g) /\ g.from.leader \in Leader /\ g.msg.term \in Int /\ g.from \in Sender
      BY <1>1, BatchFields DEF Standing, NothingLost, CallTerms
    <2>2. g.msg.term <= elected[g.from.leader] /\ elected[g.from.leader] \in Int
          /\ elected[g.from.leader] <= t
      BY <1>1, <1>7, <2>1 DEF CallTerm
    <2> QED
      BY <1>4, <2>1, <2>2
  <1>9. LeadersCalm
    <2>1. \A m \in Leader : /\ Offer(m)' = Offer(m) /\ Offer(m) \in Int
                            /\ Offer(m) <= Len(History) - 1
                            /\ nextIndex[m] \in Int /\ nextIndex[m] <= Len(History)
      BY <1>1, <1>2, LeaderFields DEF Offer
    <2>2. ASSUME NEW m \in Leader
          PROVE  Offer(m) <= Offer(m)' /\ elected[m] <= elected'[m]
      <3>1. elected[m] \in Nat /\ elected[m] <= t
        BY <1>1, <1>7
      <3>2. elected'[m] = t + 1 \/ elected'[m] = elected[m]
        BY <1>5
      <3>3. elected[m] <= elected'[m]
        BY <1>4, <3>1, <3>2
      <3>4. Offer(m) <= Offer(m)'
        BY <2>1
      <3> QED
        BY <3>3, <3>4
    <2>3. \A h \in handlers', m \in Leader :
              elected'[m] = elected[m] \/ h.msg.term < elected'[m]
      BY <1>2, <1>4, <1>5, <1>8
    <2>4. ASSUME NEW h \in handlers', Batch(h)
          PROVE  /\ nextIndex[h.from.leader] <= nextIndex'[h.from.leader]
                 /\ Offer(h.from.leader)' < nextIndex'[h.from.leader]
      <3>1. h.from.leader \in Leader /\ BatchAhead(h)
        BY <1>1, <1>2, <2>4, BatchFields DEF Standing, NothingLost, BatchesAhead
      <3>2. Offer(h.from.leader) < nextIndex[h.from.leader]
        BY <2>1, <3>1 DEF BatchAhead
      <3>3. CASE h.from.leader = l
        BY <1>1, <1>6, <2>1, <3>1, <3>3
      <3>4. CASE h.from.leader # l
        BY <1>6, <2>1, <3>1, <3>2, <3>4
      <3> QED
        BY <3>3, <3>4
    <2> QED
      BY <2>2, <2>3, <2>4 DEF LeadersCalm
  <1>10. Quiet
    BY <1>1, <1>2, <1>9, StayedStays DEF Quiet
  <1> QED
    BY <1>1, <1>3, <1>4, <1>5, <1>6, <1>10

LEMMA AnswersQuiet ==
    ASSUME Standing, OneHeartbeatEach, ~Overlap, NEW h \in handlers,
           \/ Refuse(h) \/ Persist(h) \/ PersistAndApply(h)
           \/ ReceiveChunk(h) /\ ~h.msg.done
    PROVE  Quiet
  <1>1. /\ TypeInv /\ OneAtATime /\ currentTerm \in Int /\ currentTerm' \in Int
        /\ h \in Handler /\ h.success \in BOOLEAN /\ h.msg.term \in Int
    BY StandingFacts, HandlerIn, HandlerFields
  <1>2. CASE Refuse(h)
    <2>1. Reply(h, FALSE) /\ UNCHANGED <<memory, disk, lost>>
      BY <1>2 DEF Refuse
    <2>2. /\ UNCHANGED <<log, latestSnapshot, snapFile, lost, snapshotBuffer>>
          /\ currentTerm' = currentTerm /\ currentTerm <= currentTerm'
      BY <1>1, <2>1 DEF memory, disk
    <2> QED
      BY <2>1, <2>2, AnswerQuiet
  <1>3. CASE ReceiveChunk(h) /\ ~h.msg.done
    <2>1. /\ Reply(h, TRUE) /\ UNCHANGED <<log, latestSnapshot, snapFile, lost>>
          /\ HearTerm(h.msg.term) /\ Serial
      BY <1>3 DEF ReceiveChunk
    <2>2. \A f \in handlers : ~Busy(f)
      BY <2>1, SerialQuiet
    <2>3. \A g \in handlers' : g.pc # "save"
      BY <1>1, <2>1, <2>2, AnswerLeaves DEF Busy
    <2>4. currentTerm <= currentTerm'
      BY <1>1, <2>1 DEF HearTerm
    <2> QED
      BY <2>1, <2>2, <2>3, <2>4, AnswerQuiet
  <1>4. CASE Persist(h)
    <2>1. /\ Reply(h, TRUE)
          /\ UNCHANGED <<log, latestSnapshot, snapFile, lost, currentTerm>>
          /\ h.pc = "persist"
      BY <1>4 DEF Persist
    <2>2. \A g \in handlers \ {h} : ~Busy(g)
      BY <1>1, <2>1, OthersWait DEF Busy
    <2>3. \A g \in handlers' : g.pc # "save"
      BY <1>1, <2>1, <2>2, AnswerLeaves DEF Busy
    <2>4. currentTerm' = currentTerm /\ currentTerm <= currentTerm'
      BY <1>1, <2>1
    <2> QED
      BY <2>1, <2>3, <2>4, AnswerQuiet
  <1>5. CASE PersistAndApply(h)
    <2>1. /\ UNCHANGED <<log, latestSnapshot, snapFile, lost, currentTerm, snapshotBuffer>>
          /\ h.pc = "log"
          /\ (Go(h, "save") /\ KeepLeaders) \/ Reply(h, h.success)
      BY <1>5 DEF PersistAndApply
    <2>2. CASE Reply(h, h.success)
      BY <1>1, <2>1, <2>2, AnswerQuiet
    <2>3. CASE Go(h, "save") /\ KeepLeaders
      <3>1. /\ handlers' = (handlers \ {h}) \cup {[h EXCEPT !.pc = "save"]}
            /\ UNCHANGED <<elected, leaderSnapshot, nextIndex, transfer>>
        BY <2>3 DEF Go, KeepLeaders, leaderVars, electionVars
      <3>2. \A g \in handlers \ {h} : Stays(g, g)
        BY <3>1, StayedStays
      <3>3. h.msg.kind = "append"
        BY <1>1, <2>1, HandlerIn DEF PcWell
      <3>4. Stays([h EXCEPT !.pc = "save"], h)
        <4> DEFINE g == [h EXCEPT !.pc = "save"]
        <4>1. /\ g.from = h.from /\ g.msg = h.msg /\ g.awaited = h.awaited
              /\ g.pc = "save"
          BY <1>1, GoFields
        <4> HIDE DEF g
        <4> QED
          BY <2>1, <3>3, <4>1 DEF Stays, Busy
      <3>5. \A g \in handlers' : \E f \in handlers : Stays(g, f)
        BY <3>1, <3>2, <3>4
      <3> QED
        BY <1>1, <2>1, <3>1, <3>5, QuietOf
    <2> QED
      BY <2>1, <2>2, <2>3
  <1> QED
    BY <1>2, <1>3, <1>4, <1>5
-----------------------------------------------------------------------------
(* The steps at which a handler goes on with the follower's state.         *)

\* Two calls of one term are of one leader, and if both are awaited the same.
LEMMA SameTerm ==
    ASSUME Standing, OneHeartbeatEach, NEW f \in handlers, NEW h \in handlers,
           h.msg.term \in {f.msg.term, elected[f.from.leader]}
    PROVE  h.from = f.from /\ (f.awaited /\ h.awaited => f = h)
  <1>1. /\ f.from \in Sender /\ h.from \in Sender /\ f.from.leader \in Leader
        /\ CallsWell(handlers, transfer) /\ CallTerms
    BY StandingFacts, BatchFields DEF Standing, NothingLost
  <1>2. f.from.leader = h.from.leader
    BY <1>1 DEF CallTerms
  <1> QED
    BY <1>1, <1>2, OneAwaited DEF OneHeartbeatEach

LEMMA MovedCalm ==
    ASSUME Standing, OneHeartbeatEach, NEW h \in handlers, NEW g, Moved(h, g),
           lost' = lost, currentTerm' = currentTerm,
           \/ Busy(h)
           \/ h.pc = "sent" /\ h.msg.term = currentTerm,
           \A f \in handlers \ {h} : ~Busy(f),
           h.msg.kind = "snapshot" =>
               /\ Target(g)' = Target(h) /\ h.pc # "persist"
               /\ g.pc = "persist" => log' = <<>>
               /\ g.pc # "persist" => End' = End,
           \A f \in handlers \ {h} :
               /\ Batch(f) /\ f.pc = "sent" /\ f.msg.term = elected[f.from.leader]
                  /\ f.msg.term = currentTerm /\ Held <= f.msg.prevLogIndex
                  => Held' <= f.msg.prevLogIndex
               /\ ChunkSent(f) /\ f.msg.term = currentTerm /\ End <= Target(f) + 1
                  => End' <= Target(f) + 1,
           Batch(g) /\ g.pc = "log" /\ ~g.success
               /\ g.msg.term = elected[g.from.leader] => End' <= g.msg.prevLogIndex
    PROVE  Calm
  <1>1. /\ TypeInv /\ OneAtATime /\ CallsWell(handlers, transfer)
        /\ CallsWell(handlers', transfer') /\ OneAtATime' /\ h \in Handler /\ PcWell(h)
        /\ h.msg.kind \in {"snapshot", "append"} /\ CallTerms /\ BatchesAhead
    BY StandingFacts, HandlerIn, BatchFields DEF Standing, NothingLost
  <1>2. /\ handlers' = (handlers \ {h}) \cup {g}
        /\ g.from = h.from /\ g.msg = h.msg /\ g.awaited = h.awaited /\ g.pc # "sent"
        /\ UNCHANGED <<elected, leaderSnapshot, nextIndex, transfer>>
    BY DEF Moved, leaderVars, electionVars
  <1>3. \A f \in handlers \ {h} : Goes(f, f) /\ (Brings(f) => ChunkSent(f) /\ Target(f)' = Target(f))
    BY <1>2 DEF Goes, Brings, Target, Installing, ChunkSent, Busy
  <1>4. Goes(g, h)
    <2>1. Brings(g) => h.msg.kind = "snapshot"
      BY <1>2 DEF Brings, ChunkSent, Installing
    <2>2. h.msg.kind = "snapshot" => Brings(h)
      BY <1>1 DEF PcWell, Brings, ChunkSent, Installing, Busy
    <2> QED
      BY <1>2, <2>1, <2>2 DEF Goes
  <1>5. \A e \in handlers' : \E f \in handlers : Goes(e, f)
    BY <1>2, <1>3, <1>4
  <1>6. \A m \in Leader : /\ Offer(m)' = Offer(m) /\ Offer(m) \in Int
                          /\ elected[m] \in Int /\ nextIndex[m] \in Int
    BY <1>1, <1>2, LeaderFields DEF Offer
  <1>7. LeadersCalm
    <2>1. ASSUME NEW e \in handlers', Batch(e)
          PROVE  /\ e.from.leader \in Leader
                 /\ Offer(e.from.leader) < nextIndex[e.from.leader]
      <3>1. PICK f \in handlers : Goes(e, f)
        BY <1>5
      <3>2. Batch(f) /\ f.from = e.from /\ f.from.leader \in Leader
        BY <1>1, <2>1, <3>1, BatchFields DEF Goes, Batch
      <3>3. BatchAhead(f)
        BY <1>1, <3>2 DEF BatchesAhead
      <3> QED
        BY <1>6, <3>2, <3>3 DEF BatchAhead
    <2> QED
      BY <1>2, <1>6, <2>1 DEF LeadersCalm
  <1>8. FollowerCalm
    <2>1. ASSUME NEW e \in handlers'
          PROVE  (Busy(e) => e.msg.term = currentTerm') /\ (lost' = 0 => e.awaited)
      <3>1. CallTerm(h)
        BY <1>1 DEF CallTerms
      <3>2. CASE e = g
        BY <1>2, <3>1, <3>2 DEF CallTerm
      <3>3. CASE e # g
        BY <1>1, <1>2, <3>3 DEF CallTerms, CallTerm
      <3> QED
        BY <3>2, <3>3
    <2>2. ASSUME NEW e \in handlers', Batch(e), e.msg.term = elected[e.from.leader]
          PROVE  /\ e.pc = "sent" /\ e.msg.term = currentTerm /\ Held <= e.msg.prevLogIndex
                    => Held' <= e.msg.prevLogIndex
                 /\ e.pc = "log" /\ ~e.success => End' <= e.msg.prevLogIndex
      <3>1. CASE e = g
        BY <1>2, <2>2, <3>1
      <3>2. CASE e # g
        BY <1>2, <2>2, <3>2 DEF Busy
      <3> QED
        BY <3>1, <3>2
    <2>3. ASSUME NEW e \in handlers', Brings(e)
          PROVE  /\ e.msg.term = currentTerm /\ e.pc # "persist" /\ End <= Target(e)' + 1
                    => End' <= Target(e)' + 1
                 /\ e.pc = "persist" => log' = <<>>
      <3>1. CASE e = g
        <4>1. h.msg.kind = "snapshot"
          BY <1>2, <2>3, <3>1 DEF Brings, ChunkSent, Installing
        <4> QED
          BY <3>1, <4>1
      <3>2. CASE e # g
        <4>1. e \in handlers \ {h}
          BY <1>2, <3>2
        <4>2. ChunkSent(e) /\ Target(e)' = Target(e) /\ e.pc = "sent"
          BY <1>3, <2>3, <4>1 DEF ChunkSent
        <4> QED
          BY <4>1, <4>2
      <3> QED
        BY <3>1, <3>2
    <2>4. currentTerm <= currentTerm'
      BY StandingFacts
    <2> QED
      BY <1>2, <2>1, <2>2, <2>3, <2>4 DEF FollowerCalm
  <1>9. ASSUME NEW e \in handlers', NEW f \in handlers', Installing(e),
               e.from = f.from, ChunkSent(f) \/ Batch(f)
        PROVE  Goes(e, h) /\ Installing(h)
    <2>1. e = g
      BY <1>2, <1>9 DEF Installing
    <2>2. h.msg.kind = "snapshot"
      BY <1>2, <1>9, <2>1 DEF Installing
    <2>3. CASE h.pc = "sent"
      <3>1. g.awaited /\ f.awaited
        BY <1>1, <1>2, <1>9, <2>3 DEF OneAtATime, ChunkSent, Batch
      <3>2. f = g
        BY <1>1, <1>9, <2>1, <3>1 DEF CallsWell
      <3> QED
        BY <1>2, <1>9, <2>2, <3>2 DEF ChunkSent, Batch
    <2>4. CASE h.pc # "sent"
      BY <1>4, <2>1, <2>2, <2>4 DEF Installing
    <2> QED
      BY <2>3, <2>4
  <1> QED
    BY <1>5, <1>7, <1>8, <1>9 DEF Calm

\* A batch that starts where the follower's snapshot ends or later is rejected only
\* by a follower that has no entry there.
LEMMA RejectedBehind ==
    ASSUME Standing, NEW h \in handlers, Batch(h), h.pc = "sent",
           h.msg.term = currentTerm, h.msg.term = elected[h.from.leader],
           ~PrevLogMatches(log, latestSnapshot, h.msg.prevLogIndex, h.msg.prevLogTerm)
    PROVE  End <= h.msg.prevLogIndex
  <1> DEFINE p == h.msg.prevLogIndex
  <1>1. /\ TypeInv /\ Placed(log, latestSnapshot) /\ BatchAhead(h)
        /\ RightTerm(latestSnapshot) /\ p \in Nat
    BY StandingFacts DEF Standing, NothingLost, BatchesAhead, InPlace, AllStraight,
       Straight, Batch, RightTerms
  <1>2. /\ End \in Int /\ Held \in Int /\ End = Held + 1 + Len(log) /\ Len(log) \in Nat
    BY <1>1, EndFields
  <1>3. Held <= p /\ h.msg.prevLogTerm = History[p + 1]
    BY <1>1 DEF BatchAhead
  <1>4. latestSnapshot \in AnySnapshot
    BY <1>1 DEF TypeInv, MemoryWell
  <1>5. CASE p = Held
    <2>1. latestSnapshot \notin {NoSnap, Torn}
      BY <1>1, <1>4, <1>5, NoSnapFields, Unbroken DEF Held
    <2>2. latestSnapshot.lastIncludedTerm = History[p + 1]
      BY <1>1, <1>5, <2>1 DEF RightTerm, Held
    <2> QED
      BY <1>3, <1>5, <2>2 DEF PrevLogMatches, Held
  <1>6. CASE Held < p /\ p < End
    <2>1. p - Held \in 1 .. Len(log)
      BY <1>1, <1>2, <1>6
    <2>2. baseIndex(latestSnapshot) = Held + 1
      BY DEF baseIndex, Held
    <2>3. log[p - Held] = Entry(baseIndex(latestSnapshot) + (p - Held) - 1)
      BY <1>1, <2>1 DEF Placed
    <2>4. baseIndex(latestSnapshot) + (p - Held) - 1 = p
      BY <1>1, <1>2, <2>2
    <2>5. log[p - Held].term = History[p + 1]
      BY <2>3, <2>4 DEF Entry
    <2>6. p - baseIndex(latestSnapshot) + 1 = p - Held
      BY <1>1, <1>2, <2>2
    <2>7. /\ p > latestSnapshot.lastIncludedIndex
          /\ p < getLogSize(log, latestSnapshot)
      BY <1>1, <1>2, <1>6 DEF Held, End
    <2> QED
      BY <1>3, <2>5, <2>6, <2>7 DEF PrevLogMatches
  <1> QED
    BY <1>1, <1>2, <1>3, <1>5, <1>6

LEMMA ReceiveEntriesCalm ==
    ASSUME Standing, OneHeartbeatEach, ~Overlap, NEW h \in handlers, ReceiveEntries(h)
    PROVE  Calm /\ Held' = Held /\ End <= End'
           /\ (h.msg.entries = <<>> => log' = log)
           /\ \E g \in handlers' :
                 /\ g.from = h.from /\ g.msg = h.msg /\ g.awaited = h.awaited
                 /\ g.pc = "log"
                 /\ g.success \/ log' = log
                 /\ handlers' = (handlers \ {h}) \cup {g}
  <1> DEFINE ok == PrevLogMatches(log, latestSnapshot, h.msg.prevLogIndex,
                                  h.msg.prevLogTerm)
             g == [h EXCEPT !.pc = "log", !.success = ok]
  <1>1. /\ TypeInv /\ TypeInv' /\ OneAtATime /\ h \in Handler /\ InPlace /\ InPlace'
        /\ AllStraight
    BY StandingFacts, HandlerIn
  <1>2. /\ h.pc = "sent" /\ h.msg.kind = "append" /\ h.msg.term = currentTerm /\ Serial
        /\ UNCHANGED <<currentTerm, lost, latestSnapshot, astray, torn>>
        /\ UNCHANGED leaderVars
        /\ handlers' = (handlers \ {h}) \cup {g}
        /\ log' = IF ok THEN AppendBatch(log, latestSnapshot, h.msg.prevLogIndex,
                                         h.msg.entries)
                  ELSE log
    BY DEF ReceiveEntries, KeepLeaders, history
  <1>3. ok \in BOOLEAN
    BY DEF PrevLogMatches
  <1>4. /\ g \in Handler /\ g.from = h.from /\ g.msg = h.msg /\ g.awaited = h.awaited
        /\ g.pc = "log" /\ g.success = ok
    BY <1>1, <1>3 DEF Handler
  <1>5. \A f \in handlers : ~Busy(f)
    BY <1>2, SerialQuiet
  <1>6. Held' = Held /\ Held \in Int /\ End' \in Int /\ End \in Int
    <2>1. Placed(log, latestSnapshot) /\ Placed(log', latestSnapshot')
      BY <1>1 DEF InPlace
    <2>2. Held' = Held
      BY <1>2 DEF Held
    <2> QED
      BY <1>1, <2>1, <2>2, EndFields, EndFieldsNext
  <1>7. ok \/ log' = log
    BY <1>2
  <1>8. h.msg.entries = <<>> => log' = log
    BY <1>2 DEF AppendBatch
  <1>9. End <= End'
    <2>1. CASE ok
      <3>1. /\ log \in Vector /\ latestSnapshot \in AnySnapshot
            /\ Placed(log, latestSnapshot) /\ Straight(h.msg) /\ h.msg.entries \in Vector
        BY <1>1, <1>2, HandlerFields DEF TypeInv, MemoryWell, InPlace, AllStraight
      <3>2. Len(log) <= Len(log')
        BY <1>2, <2>1, <3>1, BatchPlaced
      <3>3. End = Held + 1 + Len(log) /\ End' = Held' + 1 + Len(log')
            /\ Len(log) \in Nat /\ Len(log') \in Nat
        <4>1. Placed(log, latestSnapshot) /\ Placed(log', latestSnapshot')
          BY <1>1 DEF InPlace
        <4> QED
          BY <1>1, <4>1, EndFields, EndFieldsNext
      <3> QED
        BY <1>6, <3>2, <3>3
    <2>2. CASE ~ok
      BY <1>2, <1>6, <2>2 DEF End
    <2> QED
      BY <2>1, <2>2
  <1>10. Moved(h, g)
    BY <1>2, <1>4 DEF Moved
  <1>11. ASSUME NEW f \in handlers \ {h}, ChunkSent(f), f.msg.term = currentTerm
         PROVE  FALSE
    <2>1. f.awaited /\ h.awaited /\ CallTerm(f)
      BY <1>1, <1>2, <1>11 DEF OneAtATime, ChunkSent, Standing, NothingLost, CallTerms
    <2> QED
      BY <1>2, <1>11, <2>1, SameTerm DEF ChunkSent
  <1>12. ASSUME Batch(g), g.pc = "log", ~g.success, g.msg.term = elected[g.from.leader]
         PROVE  End' <= g.msg.prevLogIndex
    <2>1. End <= h.msg.prevLogIndex
      BY <1>2, <1>4, <1>12, RejectedBehind DEF Batch
    <2>2. End' = End
      BY <1>2, <1>4, <1>12 DEF End
    <2> QED
      BY <1>4, <2>1, <2>2
  <1> HIDE DEF g, ok
  <1>13. Calm
    BY <1>2, <1>5, <1>6, <1>10, <1>11, <1>12, MovedCalm
  <1> QED
    BY <1>2, <1>4, <1>6, <1>7, <1>8, <1>9, <1>13

LEMMA TakenStart ==
    ASSUME NEW snap \in Taken
    PROVE  /\ snap.parts[1].index = snap.lastIncludedIndex /\ snap.parts # <<>>
           /\ snap.lastIncludedTerm = History[snap.lastIncludedIndex + 1]
  <1>1. PICK o \in Leader \cup {Self}, i \in Index : snap = Snapshot(o, i)
    BY DEF Taken
  <1>2. 1 \in 1 .. ChunksOf[i + 1] /\ Len(snap.parts) \in Nat \ {0}
    BY HistoryFacts, TakenFields
  <1> QED
    BY <1>1, <1>2 DEF Snapshot

LEMMA SaveSnapshotCalm ==
    ASSUME Standing, OneHeartbeatEach, NEW h \in handlers, SaveSnapshot(h)
    PROVE  /\ Calm /\ snapFile.lastIncludedIndex <= snapFile'.lastIncludedIndex
           /\ RightTerm(snapFile')
           /\ \E g \in Handler :
                 /\ g.from = h.from /\ g.msg = h.msg /\ g.awaited = h.awaited
                 /\ g.pc = "replace" /\ g.success = h.success
                 /\ handlers' = (handlers \ {h}) \cup {g}
  <1>1. /\ TypeInv /\ OneAtATime /\ h \in Handler /\ PcWell(h) /\ InPlace
        /\ SnapshotsWhole /\ currentTerm \in Int
        /\ h.msg.kind \in {"snapshot", "append"}
    BY StandingFacts, HandlerIn, HandlerFields
  <1>2. /\ h.pc = "save" /\ up = "up"
        /\ UNCHANGED <<currentTerm, lost, latestSnapshot, log>>
    BY DEF SaveSnapshot, memory
  <1>3. h.msg.kind = "snapshot" => Whole(snapshotBuffer)
    BY <1>1, <1>2 DEF SnapshotsWhole
  <1>4. PICK snap \in (IF h.msg.kind = "append" THEN {Snapshot(Self, lastApplied)}
                       ELSE Deserialized(snapshotBuffer)) :
            /\ saveSnapshot(snap)
            /\ handlers' = (handlers \ {h}) \cup
                           {[h EXCEPT !.pc = "replace", !.snap = snap]}
            /\ KeepLeaders
    BY <1>3 DEF SaveSnapshot
  <1>5. \A f \in handlers \ {h} : ~Busy(f)
    BY <1>1, <1>2, OthersWait DEF Busy
  <1>6. snapFile = latestSnapshot
    BY <1>1, <1>2, <1>5 DEF InPlace, FilesFollow, Busy
  <1>7. /\ End \in Int /\ Held \in Int /\ Held < End
    BY <1>1, EndFields DEF InPlace
  <1>8. h.msg.kind = "snapshot" =>
            /\ Target(h) = snapshotBuffer[1].index
            /\ End <= Target(h) + 1 /\ Target(h) \in Int
    <2> SUFFICES ASSUME h.msg.kind = "snapshot"
                 PROVE  /\ Target(h) = snapshotBuffer[1].index
                        /\ End <= Target(h) + 1 /\ Target(h) \in Int
      OBVIOUS
    <2>1. Brings(h) /\ Busy(h)
      BY <1>2 DEF Brings, Installing, Busy
    <2>2. SnapshotAhead(h) /\ CallTerm(h)
      BY <2>1 DEF Standing, NothingLost, SnapshotsAhead, CallTerms
    <2>3. h.msg.term = currentTerm
      BY <2>1, <2>2 DEF CallTerm
    <2> QED
      BY <1>2, <2>1, <2>2, <2>3, TargetFields, StandingFacts DEF SnapshotAhead, Target,
         Standing
  <1>9. /\ snap \in AnySnapshot /\ snap # NoSnap
        /\ snap.lastIncludedTerm = History[snap.lastIncludedIndex + 1]
        /\ h.msg.kind = "append" => snap.lastIncludedIndex = lastApplied
        /\ h.msg.kind = "snapshot" => snap.lastIncludedIndex = Target(h)
    <2>1. CASE h.msg.kind = "append"
      <3>1. lastApplied \in Index /\ snap = Snapshot(Self, lastApplied)
        BY <1>1, <1>4, <2>1 DEF TypeInv, MemoryWell
      <3>2. /\ snap \in AnySnapshot /\ snap.lastIncludedIndex = lastApplied
            /\ snap.lastIncludedTerm = History[lastApplied + 1]
        BY <3>1, SnapshotFields DEF Snapshot
      <3>3. snap # NoSnap
        BY <3>1, <3>2, NoSnapFields, HistoryFacts
      <3> QED
        BY <2>1, <3>2, <3>3
    <2>2. CASE h.msg.kind = "snapshot"
      <3>1. snapshotBuffer \in Seq(Piece) /\ snap \in Deserialized(snapshotBuffer)
        BY <1>1, <1>4, <2>2 DEF TypeInv, MemoryWell
      <3>2. snapshotBuffer # <<>>
        BY <1>3, <2>2, TakenStart DEF Whole
      <3> QED
        BY <1>8, <2>2, <3>1, <3>2, DeserializedType
    <2> QED
      BY <1>1, <2>1, <2>2
  <1> DEFINE g == [h EXCEPT !.pc = "replace", !.snap = snap]
  <1>10. /\ g \in Handler /\ g.from = h.from /\ g.msg = h.msg /\ g.awaited = h.awaited
         /\ g.pc = "replace" /\ g.success = h.success
    BY <1>1, <1>9 DEF Handler
  <1>11. /\ handlers' = (handlers \ {h}) \cup {g} /\ snapFile' = snap
    BY <1>4 DEF saveSnapshot
  <1> HIDE DEF g
  <1>12. Moved(h, g)
    BY <1>4, <1>10, <1>11 DEF Moved, KeepLeaders, history
  <1>13. h.msg.kind = "snapshot" => Target(g)' = Target(h)
    BY <1>9, <1>10, <1>11 DEF Target
  <1>14. End' = End /\ Held' = Held
    BY <1>2 DEF End, Held
  <1>15. Calm
    <2>1. Busy(h) /\ h.pc # "persist"
      BY <1>2 DEF Busy
    <2> QED
      BY <1>2, <1>5, <1>10, <1>12, <1>13, <1>14, <2>1, MovedCalm
  <1>16. snapFile.lastIncludedIndex <= snapFile'.lastIncludedIndex
    <2>1. snapFile.lastIncludedIndex = Held
      BY <1>6 DEF Held
    <2>2. CASE h.msg.kind = "append"
      BY <1>1, <1>9, <1>11, <2>1, <2>2 DEF InPlace, Applied, Held
    <2>3. CASE h.msg.kind = "snapshot"
      <3>1. Held <= Target(h)
        BY <1>7, <1>8, <2>3
      <3> QED
        BY <1>9, <1>11, <2>1, <2>3, <3>1
    <2> QED
      BY <1>1, <2>2, <2>3
  <1>17. RightTerm(snapFile')
    BY <1>9, <1>11 DEF RightTerm
  <1> QED
    BY <1>10, <1>11, <1>15, <1>16, <1>17

LEMMA InstallCalm ==
    ASSUME Standing, OneHeartbeatEach, NEW h \in handlers, Install(h)
    PROVE  /\ Calm /\ End <= End' /\ End' = Target(h) + 1 /\ Held' = Target(h)
           /\ Target(h) \in Int /\ h.msg.term = currentTerm
           /\ RightTerm(latestSnapshot')
           /\ \E g \in Handler :
                 /\ g.from = h.from /\ g.msg = h.msg /\ g.awaited = h.awaited
                 /\ g.pc = "persist" /\ handlers' = (handlers \ {h}) \cup {g}
  <1>1. /\ TypeInv /\ OneAtATime /\ h \in Handler /\ InPlace /\ currentTerm \in Int
        /\ CallTerms /\ SnapshotsAhead /\ WholeInv /\ ~astray
    BY StandingFacts, HandlerIn DEF Standing, NothingLost
  <1>2. /\ h.pc = "replace" /\ h.msg.kind = "snapshot"
        /\ log' = <<>> /\ latestSnapshot' = h.snap /\ UNCHANGED <<currentTerm, lost, snapFile>>
        /\ handlers' = (handlers \ {h}) \cup {[h EXCEPT !.pc = "persist"]}
        /\ KeepLeaders
    BY DEF Install, Go, disk
  <1>3. Brings(h) /\ Busy(h) /\ Installing(h)
    BY <1>2 DEF Brings, Installing, Busy
  <1>4. h.snap = snapFile
    BY <1>1, <1>2 DEF InPlace, FilesFollow
  <1>5. Target(h) = snapFile.lastIncludedIndex /\ Target(h) \in Int
    BY <1>1, <1>2, <1>3, TargetFields DEF Target
  <1>6. Held' = Target(h)
    BY <1>2, <1>4, <1>5 DEF Held
  <1>7. End' = Target(h) + 1
    <2>1. Len(log') = 0
      BY <1>2, EmptySeq
    <2> QED
      BY <1>2, <1>4, <1>5, <2>1 DEF End, getLogSize, baseIndex
  <1>8. h.msg.term = currentTerm /\ SnapshotAhead(h)
    BY <1>1, <1>3 DEF CallTerms, CallTerm, SnapshotsAhead
  <1>9. End <= End'
    BY <1>2, <1>7, <1>8 DEF SnapshotAhead
  <1>10. \A f \in handlers \ {h} : ~Busy(f)
    BY <1>1, <1>3, OthersWait
  <1> DEFINE g == [h EXCEPT !.pc = "persist"]
  <1>11. /\ g \in Handler /\ g.from = h.from /\ g.msg = h.msg /\ g.pc = "persist"
         /\ g.awaited = h.awaited
    BY <1>1, GoFields
  <1>12. Moved(h, g) /\ handlers' = (handlers \ {h}) \cup {g}
    BY <1>1, <1>2, GoMoves DEF KeepLeaders, history, Go
  <1> HIDE DEF g
  <1>13. Target(g)' = Target(h)
    BY <1>2, <1>5, <1>11 DEF Target
  <1>14. ASSUME NEW f \in handlers \ {h}, f.msg.term = currentTerm,
                ChunkSent(f) \/ f.msg.term = elected[f.from.leader]
         PROVE  /\ Batch(f) => Target(h) <= f.msg.prevLogIndex
                /\ ChunkSent(f) => Target(h) <= Target(f)
    <2>1. h.from = f.from
      BY <1>8, <1>14, SameTerm
    <2>2. Overtaken(h, f)
      BY <1>1 DEF SnapshotsAhead
    <2> QED
      BY <1>3, <1>8, <1>14, <2>1, <2>2 DEF Overtaken
  <1>15. ASSUME NEW f \in handlers \ {h}, ChunkSent(f), f.msg.term = currentTerm
         PROVE  End' <= Target(f) + 1
    <2>1. CallTerm(f) /\ f.awaited /\ Brings(f)
      BY <1>1, <1>15 DEF CallTerms, OneAtATime, ChunkSent, Brings
    <2>2. Target(h) <= Target(f) /\ Target(f) \in Int
      BY <1>1, <1>14, <1>15, <2>1, TargetFields
    <2> QED
      BY <1>5, <1>7, <2>2
  <1>16. Calm
    <2>1. h.pc # "persist" /\ g.pc = "persist" /\ log' = <<>>
      BY <1>2, <1>11
    <2>2. \A f \in handlers \ {h} :
              Batch(f) /\ f.pc = "sent" /\ f.msg.term = elected[f.from.leader]
                  /\ f.msg.term = currentTerm /\ Held <= f.msg.prevLogIndex
              => Held' <= f.msg.prevLogIndex
      BY <1>6, <1>14
    <2> QED
      BY <1>2, <1>3, <1>10, <1>12, <1>13, <1>15, <2>1, <2>2, MovedCalm
  <1>17. RightTerm(latestSnapshot')
    BY <1>2, <1>4 DEF Standing, NothingLost, RightTerms
  <1> QED
    BY <1>5, <1>6, <1>7, <1>8, <1>9, <1>11, <1>12, <1>16, <1>17

LEMMA TruncateCalm ==
    ASSUME Standing, OneHeartbeatEach, NEW h \in handlers, Truncate(h)
    PROVE  /\ Calm /\ End' = End /\ Held' < End' /\ lost = 0
           /\ RightTerm(latestSnapshot')
           /\ \E g \in Handler :
                 /\ g.from = h.from /\ g.msg = h.msg /\ g.awaited = h.awaited
                 /\ g.success = h.success
                 /\ g.pc = "persist" /\ handlers' = (handlers \ {h}) \cup {g}
  <1>1. /\ TypeInv /\ OneAtATime /\ h \in Handler /\ InPlace /\ currentTerm \in Int
        /\ CallTerms /\ TypeInv' /\ InPlace'
    BY StandingFacts, HandlerIn DEF Standing, NothingLost
  <1>2. /\ h.pc = "replace" /\ h.msg.kind = "append" /\ latestSnapshot' = h.snap
        /\ UNCHANGED <<currentTerm, lost, snapFile, torn, astray>>
        /\ UNCHANGED leaderVars /\ compacted'
        /\ handlers' = (handlers \ {h}) \cup {[h EXCEPT !.pc = "persist"]}
        /\ log' = truncateLogSafe(log, latestSnapshot, h.snap.lastIncludedIndex)
    BY DEF Truncate, Go, disk
  <1>3. Busy(h)
    BY <1>2 DEF Busy
  <1>4. lost = 0
    BY <1>2 DEF Standing, Undisturbed
  <1>5. End' = End
    <2>1. /\ log \in Vector /\ latestSnapshot \in AnySnapshot /\ lastApplied \in Nat
          /\ Placed(log, latestSnapshot)
      BY <1>1, HistoryFacts DEF TypeInv, MemoryWell, InPlace
    <2>2. /\ h.snap.lastIncludedIndex = lastApplied /\ Len(log) > 0
          /\ latestSnapshot.lastIncludedIndex <= lastApplied
          /\ lastApplied = 0 \/ lastApplied < getLogSize(log, latestSnapshot)
      BY <1>1, <1>2 DEF InPlace, Applied, Compacts
    <2>3. getLogSize(log', latestSnapshot') = getLogSize(log, latestSnapshot)
      BY <1>2, <2>1, <2>2, TruncatePlaced
    <2> QED
      BY <2>3 DEF End
  <1>6. Held' < End'
    BY <1>1, EndFieldsNext DEF InPlace
  <1>7. \A f \in handlers \ {h} : ~Busy(f)
    BY <1>1, <1>3, OthersWait
  <1> DEFINE g == [h EXCEPT !.pc = "persist"]
  <1>8. /\ g \in Handler /\ g.from = h.from /\ g.msg = h.msg /\ g.pc = "persist"
        /\ g.awaited = h.awaited /\ g.success = h.success
    BY <1>1, GoFields
  <1>9. Moved(h, g) /\ handlers' = (handlers \ {h}) \cup {g}
    BY <1>1, <1>2, GoMoves DEF Go
  <1> HIDE DEF g
  <1>10. ASSUME NEW f \in handlers \ {h}, Batch(f), f.msg.term = elected[f.from.leader],
                f.msg.term = currentTerm
         PROVE  FALSE
    <2>1. h.awaited /\ h.msg.term = currentTerm /\ f.awaited
      BY <1>1, <1>3, <1>4, <1>10 DEF CallTerms, CallTerm, Batch
    <2> QED
      BY <1>10, <2>1, SameTerm
  <1>11. Calm
    BY <1>2, <1>3, <1>5, <1>7, <1>8, <1>9, <1>10, MovedCalm
  <1>12. RightTerm(latestSnapshot')
    <2>1. h.snap = snapFile
      BY <1>1, <1>2 DEF InPlace, FilesFollow
    <2> QED
      BY <1>2, <2>1 DEF Standing, NothingLost, RightTerms
  <1> QED
    BY <1>4, <1>5, <1>6, <1>8, <1>9, <1>11, <1>12

LEMMA LastChunkCalm ==
    ASSUME Standing, OneHeartbeatEach, ~Overlap, NEW h \in handlers, ReceiveChunk(h),
           h.msg.done
    PROVE  Calm /\ UNCHANGED <<log, latestSnapshot, currentTerm, lost, compacted, snapFile>>
           /\ \E g \in Handler :
                 /\ g.from = h.from /\ g.msg = h.msg /\ g.awaited = h.awaited
                 /\ g.pc = "save" /\ handlers' = (handlers \ {h}) \cup {g}
  <1>1. /\ TypeInv /\ OneAtATime /\ h \in Handler /\ currentTerm \in Int /\ BufferFits
        /\ SnapshotsAhead /\ h.msg.term \in Int /\ CallsWell(handlers, transfer)
        /\ h.from \in Sender
    BY StandingFacts, HandlerIn, BatchFields DEF Standing, NothingLost
  <1>2. /\ h.pc = "sent" /\ h.msg.kind = "snapshot" /\ h.msg.term >= currentTerm
        /\ UNCHANGED <<log, latestSnapshot, lost, snapFile>> /\ Serial
        /\ handlers' = (handlers \ {h}) \cup {[h EXCEPT !.pc = "save"]}
        /\ KeepLeaders /\ HearTerm(h.msg.term)
    BY DEF ReceiveChunk, Go
  <1>3. Brings(h) /\ ChunkSent(h)
    BY <1>2 DEF Brings, ChunkSent
  <1>4. h.msg.term = currentTerm
    BY <1>1, <1>2, <1>3 DEF SnapshotsAhead, SnapshotAhead
  <1>5. currentTerm' = currentTerm
    BY <1>1, <1>2, <1>4 DEF HearTerm
  <1>6. \A f \in handlers : ~Busy(f)
    BY <1>2, SerialQuiet
  <1> DEFINE g == [h EXCEPT !.pc = "save"]
             t == transfer[h.from]
  <1>7. /\ g \in Handler /\ g.from = h.from /\ g.msg = h.msg /\ g.pc = "save"
        /\ g.awaited = h.awaited
    BY <1>1, GoFields
  <1>8. Moved(h, g) /\ handlers' = (handlers \ {h}) \cup {g}
    BY <1>1, <1>2, GoMoves DEF KeepLeaders, history, Go
  <1> HIDE DEF g
  <1>9. Target(g)' = Target(h)
    <2>1. /\ Carries(h.msg, t) /\ Holds(snapshotBuffer', t.snap.parts, t.part)
          /\ t \in Sending
      BY <1>1, BufferAfter DEF CallsWell
    <2>2. /\ t.snap \in Taken /\ t.part \in Nat \ {0}
      BY <2>1, SendingFields DEF Carries
    <2>3. snapshotBuffer'[1] = t.snap.parts[1]
      BY <2>1, <2>2 DEF Holds
    <2>4. snapshotBuffer'[1].index = t.snap.lastIncludedIndex
      BY <2>2, <2>3, TakenStart
    <2> QED
      BY <1>2, <1>7, <2>4 DEF Target
  <1>10. End' = End /\ Held' = Held
    BY <1>2 DEF End, Held
  <1>11. Calm
    BY <1>2, <1>4, <1>5, <1>6, <1>7, <1>8, <1>9, <1>10, MovedCalm
  <1> QED
    BY <1>2, <1>5, <1>7, <1>8, <1>11 DEF KeepLeaders, history

-----------------------------------------------------------------------------
(* A call is sent.                                                         *)
LEMMA OldCallsKeep ==
    ASSUME Standing, NEW s \in Sender, Round(s), NEW f \in handlers
    PROVE  /\ CallTerm(f)' /\ (Batch(f) => BatchAhead(f)')
           /\ Brings(f) => SnapshotAhead(f)' /\ Target(f)' = Target(f)
  <1>1. /\ CallsWell(handlers, transfer) /\ f.from \in Sender /\ OneAtATime
        /\ CallTerm(f) /\ (Batch(f) => BatchAhead(f)) /\ (Brings(f) => SnapshotAhead(f))
    BY StandingFacts, BatchFields DEF Standing, NothingLost, CallTerms, BatchesAhead,
       SnapshotsAhead
  <1>2. /\ UNCHANGED <<elected, leaderSnapshot, nextIndex, currentTerm, log,
                       latestSnapshot, snapshotBuffer, snapFile, lost>>
        /\ \A h \in handlers : h.from = s => ~h.awaited
        /\ \A r \in Sender : r # s => transfer'[r] = transfer[r]
    BY <1>1 DEF Round, electionVars, memory, disk, CallsWell
  <1>3. f.awaited => transfer'[f.from] = transfer[f.from]
    BY <1>1, <1>2
  <1>4. Brings(f) => Target(f)' = Target(f)
    BY <1>1, <1>2, <1>3 DEF Brings, Target, OneAtATime
  <1>5. End' = End /\ Held' = Held /\ \A l \in Leader : Offer(l)' = Offer(l)
    BY <1>2 DEF End, Held, Offer
  <1>6. f.from.leader \in Leader
    BY StandingFacts, BatchFields
  <1>7. CallTerm(f)'
    BY <1>1, <1>2 DEF CallTerm
  <1>8. Batch(f) => BatchAhead(f)'
    BY <1>1, <1>2, <1>5, <1>6 DEF BatchAhead
  <1>9. Brings(f) => SnapshotAhead(f)'
    BY <1>1, <1>2, <1>3, <1>4, <1>5, <1>6 DEF SnapshotAhead
  <1> QED
    BY <1>4, <1>7, <1>8, <1>9

\* The leader whose thread it is sends under the term it was elected in.
LEMMA NewCallKeeps ==
    ASSUME Standing, OneHeartbeatEach, NEW s \in Sender, Round(s), NEW g,
           handlers' = handlers \cup {g}, g.from = s, g.awaited, g.pc = "sent",
           g.msg.term = elected[s.leader],
           Batch(g) => BatchAhead(g)',
           g.msg.kind = "snapshot" =>
               SnapshotAhead(g)' /\ Offer(s.leader) <= Target(g)',
           Batch(g) => Offer(s.leader) <= g.msg.prevLogIndex,
           g.msg.kind = "append" \/ g.msg.kind = "snapshot",
           Batch(g) => g.msg.prevLogIndex \in Int,
           g.msg.kind = "snapshot" => Target(g)' \in Int
    PROVE  CallTerms' /\ BatchesAhead' /\ SnapshotsAhead'
  <1>1. /\ CallsWell(handlers, transfer) /\ TypeInv /\ LeadersApart /\ s.leader \in Leader
        /\ CallTerms /\ SnapshotsAhead /\ leading[s.leader] /\ WholeInv /\ InPlace /\ ~astray
    BY StandingFacts DEF Standing, NothingLost, Round, Leader
  <1>2. UNCHANGED <<elected, leaderSnapshot, lost>>
    BY DEF Round, electionVars
  <1>3. elected[s.leader] > 0 /\ elected[s.leader] \in Int
    BY <1>1, LeaderFields DEF LeadersApart
  <1>4. CallTerm(g)'
    BY <1>2, <1>3 DEF CallTerm, Busy
  <1>5. \A f \in handlers' : CallTerm(f)'
    BY <1>4, OldCallsKeep
  <1>6. ASSUME NEW f \in handlers', NEW l \in Leader, f.msg.term = elected'[l]
        PROVE  l = f.from.leader
    <2>1. CASE f \in handlers
      BY <1>1, <1>2, <1>6, <2>1 DEF CallTerms
    <2>2. CASE f = g
      BY <1>1, <1>2, <1>3, <1>6, <2>2 DEF LeadersApart
    <2> QED
      BY <2>1, <2>2
  <1>11. ASSUME NEW e \in handlers', NEW f \in handlers', e.msg.term = f.msg.term
         PROVE  e.from.leader = f.from.leader
    <2>1. CASE e \in handlers /\ f \in handlers
      BY <1>1, <1>11, <2>1 DEF CallTerms
    <2>2. CASE e = g
      BY <1>1, <1>2, <1>6, <1>11, <2>2
    <2>3. CASE f = g
      BY <1>1, <1>2, <1>6, <1>11, <2>3
    <2> QED
      BY <2>1, <2>2, <2>3
  <1>7. BatchesAhead'
    <2>1. \A f \in handlers' : Batch(f) => BatchAhead(f)'
      BY OldCallsKeep
    <2> QED
      BY <2>1 DEF BatchesAhead, Batch
  <1>8. \A f \in handlers' : Brings(f) => SnapshotAhead(f)'
    <2>1. Brings(g) => g.msg.kind = "snapshot"
      BY DEF Brings, ChunkSent, Installing
    <2> QED
      BY <2>1, OldCallsKeep
  <1>9. ASSUME NEW e \in handlers', NEW f \in handlers', Installing(e), e.from = f.from,
               e.msg.term = f.msg.term
        PROVE  /\ ChunkSent(f) => Target(e)' <= Target(f)'
               /\ Batch(f) => Target(e)' <= f.msg.prevLogIndex
    <2>1. e \in handlers /\ Brings(e)
      BY <1>9 DEF Installing, Busy, Brings
    <2>2. Target(e)' = Target(e) /\ Target(e) \in Int /\ SnapshotAhead(e)
      BY <1>1, <2>1, OldCallsKeep, TargetFields DEF SnapshotsAhead
    <2>3. CASE f \in handlers
      <3>1. Overtaken(e, f)
        BY <1>1, <2>1, <2>3 DEF SnapshotsAhead
      <3>2. ChunkSent(f) => Target(f)' = Target(f)
        BY <2>3, OldCallsKeep DEF Brings
      <3> QED
        BY <1>9, <2>2, <3>1, <3>2 DEF Overtaken
    <2>4. CASE f = g
      <3>1. Target(e) <= Offer(s.leader) /\ Offer(s.leader) \in Int
        BY <1>1, <1>9, <2>2, <2>4, LeaderFields DEF SnapshotAhead
      <3> QED
        BY <2>2, <2>4, <3>1 DEF ChunkSent
    <2> QED
      BY <2>3, <2>4
  <1>10. SnapshotsAhead'
    BY <1>8, <1>9 DEF SnapshotsAhead, Overtaken, Brings, ChunkSent, Installing, Busy, Batch
  <1> QED
    BY <1>5, <1>6, <1>7, <1>10, <1>11 DEF CallTerms

LEMMA RoundKeeps ==
    ASSUME Standing, OneHeartbeatEach, NEW s \in Sender, Round(s)
    PROVE  CallTerms' /\ BatchesAhead' /\ SnapshotsAhead'
  <1> DEFINE l == s.leader
             t == [snap |-> leaderSnapshot[l], part |-> 1, term |-> elected[l]]
  <1>1. /\ TypeInv /\ LeadersApart /\ l \in Leader /\ leading[l]
        /\ currentTerm \in Int /\ CallsWell(handlers, transfer) /\ TypeInv'
        /\ LeadersWell /\ InPlace
    BY StandingFacts DEF Round, Leader, TypeInv
  <1>2. /\ leaderTerm[l] = elected[l] /\ elected[l] \in Int
        /\ Offer(l) \in Int /\ nextIndex[l] \in Int /\ nextIndex[l] \in 0 .. Len(History)
        /\ Offer(l) \in 0 .. Len(History) - 1
        /\ NeedsSnapshot(l) <=> nextIndex[l] <= Offer(l)
        /\ leaderSnapshot[l] \in Taken /\ Len(History) \in Nat \ {0}
    BY <1>1, LeaderFields, HistoryFacts DEF LeadersApart, LeadersWell
  <1>3. /\ UNCHANGED <<elected, leaderSnapshot, nextIndex, currentTerm, log,
                       latestSnapshot, snapshotBuffer, snapFile, lost>>
        /\ \A h \in handlers : h.from = s => ~h.awaited
        /\ s.thread = "heart" /\ transfer \in [Sender -> Sending]
    BY <1>1 DEF Round, electionVars, memory, disk, OneHeartbeatEach, CallsWell
  <1>4. End' = End /\ Held' = Held /\ Offer(l)' = Offer(l) /\ End \in Int /\ Held \in Int
        /\ Held < Len(History)
    BY <1>1, <1>3, EndFields DEF End, Held, Offer, InPlace
  <1>5. ~Answering(l)
    BY <1>1, <1>3, BatchFields DEF Answering, AnswersWith, OneHeartbeatEach
  <1>6. elected[l] >= currentTerm => Ahead(l)
    BY <1>1 DEF Standing, NothingLost, LeadersAhead
  <1>7. CASE NeedsSnapshot(l)
    <2>0. PICK g : g = Chunk(s, t)
      OBVIOUS
    <2>1. /\ handlers' = handlers \cup {g} /\ transfer' = [transfer EXCEPT ![s] = t]
      BY <1>3, <1>7, <2>0 DEF Round, Begun
    <2>2. transfer'[s] = t
      BY <1>3, <2>1
    <2>3. g.from = s /\ g.awaited /\ g.pc = "sent" /\ g.msg.term = elected[l]
          /\ g.msg.kind = "snapshot"
      BY <1>2, <2>0 DEF Chunk, Call
    <2>4. Target(g)' = Offer(l)
      BY <2>2, <2>3 DEF Target, Offer
    <2>5. ~(elected[l] > currentTerm)
      BY <1>1, <1>2, <1>6, <1>7 DEF Ahead
    <2>6. elected[l] = currentTerm => End <= Offer(l) + 1
      BY <1>1, <1>2, <1>6, <1>7 DEF Ahead
    <2>7. SnapshotAhead(g)'
      BY <1>1, <1>2, <1>3, <1>4, <2>2, <2>3, <2>4, <2>5, <2>6 DEF SnapshotAhead, Offer
    <2> QED
      BY <1>2, <2>1, <2>3, <2>4, <2>7, NewCallKeeps DEF Batch
  <1>8. CASE ~NeedsSnapshot(l)
    <2>1. PICK commit \in leaderSnapshot[l].lastIncludedIndex .. Len(History) - 1 :
              handlers' = handlers \cup {AppendEntries(s, commit)}
      BY <1>3, <1>8 DEF Round
    <2> DEFINE p == nextIndex[l] - 1
    <2>0. PICK g : g = AppendEntries(s, commit)
      OBVIOUS
    <2>11. PICK lg : lg = EntriesFrom(baseIndex(leaderSnapshot[l]), Len(History))
      OBVIOUS
    <2>2. /\ g.from = s /\ g.awaited /\ g.pc = "sent" /\ g.msg.term = elected[l]
          /\ g.msg.kind = "append" /\ g.msg.prevLogIndex = p
          /\ g.msg.prevLogTerm = getLogTerm(lg, leaderSnapshot[l], p)
          /\ g.msg.entries = getLogEntries(lg, leaderSnapshot[l], nextIndex[l],
                                           Len(History))
      BY <1>2, <2>0, <2>11 DEF AppendEntries, Call, LeaderLog
    <2>3. /\ baseIndex(leaderSnapshot[l]) = Offer(l) + 1
          /\ leaderSnapshot[l].lastIncludedTerm = History[Offer(l) + 1]
          /\ leaderSnapshot[l].lastIncludedIndex = Offer(l)
      BY <1>2, TakenStart DEF Offer, baseIndex
    <2>4. p \in Int /\ Offer(l) <= p /\ p < Len(History) /\ p + 1 = nextIndex[l]
          /\ nextIndex[l] >= Offer(l) + 1 /\ nextIndex[l] <= Len(History)
      BY <1>2, <1>8
    <2>5. /\ Offer(l) + 1 \in 0 .. Len(History)
          /\ Len(lg) = Len(History) - (Offer(l) + 1)
          /\ \A k \in 1 .. Len(History) - (Offer(l) + 1) : lg[k] = Entry(Offer(l) + 1 + k - 1)
      <3>1. Offer(l) + 1 \in 0 .. Len(History) /\ Offer(l) + 1 <= Len(History)
            /\ Len(History) \in 0 .. Len(History)
        <4>1. \A o \in Int, n \in Nat : o \in 0 .. n - 1 =>
                  o + 1 \in 0 .. n /\ o + 1 <= n /\ n \in 0 .. n
          OBVIOUS
        <4>2. Offer(l) \in Int /\ Offer(l) \in 0 .. Len(History) - 1
              /\ Len(History) \in Nat
          BY <1>2
        <4> QED
          BY <4>1, <4>2
      <3>2. lg = EntriesFrom(Offer(l) + 1, Len(History))
        BY <2>3, <2>11
      <3> QED
        BY <3>1, <3>2, EntriesFromType
    <2>6. Len(g.msg.entries) = Len(History) - nextIndex[l]
      <3>1. Len(getLogEntries(lg, leaderSnapshot[l], nextIndex[l], Len(History)))
              = Len(History) - (IF nextIndex[l] > baseIndex(leaderSnapshot[l])
                                THEN nextIndex[l] ELSE baseIndex(leaderSnapshot[l]))
        BY <1>2, <2>11, BatchType
      <3>2. (IF nextIndex[l] > Offer(l) + 1 THEN nextIndex[l] ELSE Offer(l) + 1)
               = nextIndex[l]
        BY <1>2, <2>4
      <3> QED
        BY <2>2, <2>3, <3>1, <3>2
    <2>7. g.msg.prevLogTerm = History[p + 1]
      <3>1. CASE p = Offer(l)
        BY <2>2, <2>3, <3>1 DEF getLogTerm
      <3>2. CASE p # Offer(l)
        <4> DEFINE k == p - (Offer(l) + 1) + 1
        <4>0. Len(lg) = Len(History) - (Offer(l) + 1)
          BY <2>5
        <4> HIDE DEF p
        <4>1. k \in 1 .. Len(History) - (Offer(l) + 1) /\ Offer(l) + 1 + k - 1 = p
              /\ p - (Offer(l) + 1) \in 0 .. Len(lg) - 1
          <5>1. \A o, q, n \in Int : o <= q /\ q < n /\ q # o =>
                    /\ q - (o + 1) + 1 \in 1 .. n - (o + 1)
                    /\ o + 1 + (q - (o + 1) + 1) - 1 = q
                    /\ q - (o + 1) \in 0 .. n - (o + 1) - 1
            OBVIOUS
          <5>2. Offer(l) \in Int /\ Len(History) \in Int
            BY <1>2
          <5>3. /\ p - (Offer(l) + 1) + 1 \in 1 .. Len(History) - (Offer(l) + 1)
                /\ Offer(l) + 1 + (p - (Offer(l) + 1) + 1) - 1 = p
                /\ p - (Offer(l) + 1) \in 0 .. Len(History) - (Offer(l) + 1) - 1
            BY <2>4, <3>2, <5>1, <5>2
          <5> QED
            BY <4>0, <5>3
        <4>2. lg[k] = Entry(p)
          BY <2>5, <4>1
        <4>3. lg[k].term = History[p + 1]
          BY <4>2 DEF Entry
        <4> QED
          BY <2>2, <2>3, <3>2, <4>1, <4>3 DEF getLogTerm
      <3> QED
        BY <3>1, <3>2
    <2> HIDE DEF p
    <2>8. g.msg.term = elected[l] =>
              /\ g.msg.term = currentTerm => Held <= p
              /\ g.msg.term > currentTerm => p = Len(History) - 1
      <3>1. ASSUME elected[l] = currentTerm PROVE Held <= p
        <4>1. Held < nextIndex[l] \/ Held <= Offer(l)
          BY <1>1, <1>5, <1>6, <3>1 DEF Ahead
        <4> QED
          BY <1>2, <1>4, <2>4, <4>1
      <3>2. ASSUME elected[l] > currentTerm PROVE p = Len(History) - 1
        <4>1. nextIndex[l] = Len(History)
          BY <1>1, <1>2, <1>6, <3>2 DEF Ahead
        <4> QED
          BY <1>2, <2>4, <4>1
      <3> QED
        BY <2>2, <3>1, <3>2
    <2>9. BatchAhead(g)'
      <3>1. /\ p + 1 <= nextIndex[l] /\ nextIndex[l] > Offer(l)
            /\ p + 1 + Len(g.msg.entries) = Len(History)
        <4>1. /\ Offer(l) \in Int /\ p \in Int /\ nextIndex[l] \in Int
              /\ Len(History) \in Int
          BY <1>2, <2>4
        <4>2. p + 1 = nextIndex[l] /\ nextIndex[l] >= Offer(l) + 1
          BY <2>4
        <4>3. p + 1 <= nextIndex[l] /\ nextIndex[l] > Offer(l)
          BY <4>1, <4>2
        <4>4. p + 1 + Len(g.msg.entries) = p + 1 + (Len(History) - (p + 1))
          BY <2>6, <4>2
        <4>5. p + 1 + (Len(History) - (p + 1)) = Len(History)
          BY <4>1
        <4> QED
          BY <4>3, <4>4, <4>5
      <3> QED
        BY <1>3, <1>4, <2>2, <2>7, <2>8, <3>1 DEF BatchAhead
    <2>10. handlers' = handlers \cup {g}
      BY <2>0, <2>1
    <2> QED
      BY <1>2, <2>2, <2>4, <2>9, <2>10, NewCallKeeps
  <1> QED
    BY <1>7, <1>8

-----------------------------------------------------------------------------
(* The leaders stay ahead.                                                 *)
LEMMA AheadAtEnd ==
    ASSUME Standing, NEW l \in Leader, nextIndex'[l] = Len(History)
    PROVE  Ahead(l)'
  <1>1. /\ End' \in 0 .. Len(History) /\ Held' < Len(History)
        /\ Len(History) \in Nat \ {0}
    BY StandingFacts, EndFieldsNext DEF InPlace
  <1>2. /\ Offer(l)' \in 0 .. Len(History) - 1
        /\ NeedsSnapshot(l)' <=> nextIndex'[l] <= Offer(l)'
    BY StandingFacts, LeaderFieldsNext
  <1>3. ~NeedsSnapshot(l)'
    BY <1>1, <1>2
  <1> QED
    BY <1>1, <1>3 DEF Ahead

\* What keeps a leader ahead when the follower's entries stay.
Steady(l) ==
    /\ leading[l] /\ elected'[l] = elected[l] /\ nextIndex[l] <= nextIndex'[l]
    /\ \/ Offer(l)' = Offer(l)
       \/ Offer(l) <= Offer(l)' /\ Offer(l)' < nextIndex'[l]
    /\ lost' = 0 =>
          /\ Answering(l) => Answering(l)'
          /\ Replaced => Replaced' \/ End' <= nextIndex'[l]

LEMMA SteadyAhead ==
    ASSUME Standing, End' = End, Held' = Held, currentTerm <= currentTerm',
           compacted' = compacted, lost' = 0 => lost = 0, NEW l \in Leader,
           elected'[l] >= currentTerm', Steady(l)
    PROVE  Ahead(l)'
  <1>1. /\ TypeInv /\ TypeInv' /\ currentTerm \in Int /\ currentTerm' \in Int
        /\ LeadersAhead
    BY StandingFacts DEF Standing, NothingLost
  <1>2. /\ End \in Int /\ Held \in Int /\ Len(History) \in Int
    BY StandingFacts, EndFields DEF InPlace
  <1>3. /\ Offer(l) \in Int /\ nextIndex[l] \in Int /\ elected[l] \in Int
        /\ NeedsSnapshot(l) <=> nextIndex[l] <= Offer(l)
    BY <1>1, LeaderFields
  <1>4. /\ Offer(l)' \in Int /\ nextIndex'[l] \in Int /\ nextIndex'[l] <= Len(History)
        /\ NeedsSnapshot(l)' <=> nextIndex'[l] <= Offer(l)'
    BY <1>1, <1>2, LeaderFieldsNext
  <1>5. leading[l] /\ elected[l] >= currentTerm /\ elected'[l] = elected[l]
        /\ nextIndex[l] <= nextIndex'[l]
    BY <1>1, <1>3 DEF Steady
  <1>6. Ahead(l)
    BY <1>1, <1>5 DEF LeadersAhead
  <1>7. Offer(l) <= Offer(l)' /\ (Offer(l)' = Offer(l) \/ Offer(l)' < nextIndex'[l])
    BY <1>3 DEF Steady
  <1>8. NeedsSnapshot(l)' => End' <= Offer(l)' + 1
    BY <1>2, <1>3, <1>4, <1>5, <1>6, <1>7 DEF Ahead
  <1>9. \/ compacted' /\ Answering(l)'
        \/ Held' < nextIndex'[l]
        \/ Held' <= Offer(l)'
    <2>1. CASE compacted /\ Answering(l)
      <3>1. lost' = 0
        BY <2>1 DEF Standing, Undisturbed
      <3> QED
        BY <2>1, <3>1 DEF Steady
    <2>2. CASE ~(compacted /\ Answering(l))
      <3>1. Held < nextIndex[l] \/ Held <= Offer(l)
        BY <1>6, <2>2 DEF Ahead
      <3> QED
        BY <1>2, <1>3, <1>4, <1>5, <1>7, <3>1
    <2> QED
      BY <2>1, <2>2
  <1>10. elected'[l] > currentTerm' => nextIndex'[l] = Len(History)
    BY <1>1, <1>2, <1>3, <1>4, <1>5, <1>6 DEF Ahead
  <1>11. lost' = 0 => End' <= nextIndex'[l] \/ Answering(l)' \/ Replaced'
    <2> SUFFICES ASSUME lost' = 0
                 PROVE  End' <= nextIndex'[l] \/ Answering(l)' \/ Replaced'
      OBVIOUS
    <2>1. End <= nextIndex[l] \/ Answering(l) \/ Replaced
      BY <1>6 DEF Ahead
    <2>2. CASE End <= nextIndex[l]
      BY <1>2, <1>3, <1>4, <1>5, <2>2
    <2> QED
      BY <2>1, <2>2 DEF Steady
  <1> QED
    BY <1>8, <1>9, <1>10, <1>11 DEF Ahead

\* An answer to which a handler moved on still is one.
LEMMA AnsweringMoves ==
    ASSUME NEW h \in handlers, NEW g, handlers' = (handlers \ {h}) \cup {g},
           g.from = h.from, g.msg = h.msg, g.awaited = h.awaited,
           Busy(h) => Busy(g) /\ g.success = h.success,
           h.pc # "persist"
    PROVE  /\ \A l \in Leader : Answering(l) => Answering(l)'
           /\ Replaced => Replaced'
  <1>1. ASSUME NEW l \in Leader, Answering(l) PROVE Answering(l)'
    <2>1. PICK f \in handlers : AnswersWith(f, l)
      BY <1>1 DEF Answering
    <2>2. CASE f = h
      <3>1. AnswersWith(g, l) /\ g \in handlers'
        BY <2>1, <2>2 DEF AnswersWith
      <3> QED
        BY <3>1 DEF Answering
    <2>3. CASE f # h
      BY <2>1, <2>3 DEF Answering
    <2> QED
      BY <2>2, <2>3
  <1>2. Replaced => Replaced'
    BY DEF Replaced
  <1> QED
    BY <1>1, <1>2

LEMMA AnswerAhead ==
    ASSUME Standing, OneHeartbeatEach, NEW h \in handlers, NEW success \in BOOLEAN,
           Reply(h, success), UNCHANGED <<log, latestSnapshot, lost>>,
           currentTerm <= currentTerm',
           h.msg.kind = "snapshot" /\ success /\ h.msg.done => h.pc = "persist",
           h.msg.kind = "snapshot" /\ h.pc = "persist" => success,
           ~success => \/ h.pc = "sent" /\ h.msg.term < currentTerm
                       \/ h.pc = "log" /\ ~h.success
    PROVE  LeadersAhead'
  <1> DEFINE k == h.from.leader
  <1>1. /\ TypeInv /\ TypeInv' /\ OneAtATime /\ LeadersApart /\ InPlace
        /\ CallsWell(handlers, transfer) /\ currentTerm \in Int /\ currentTerm' \in Int
        /\ k \in Leader /\ h.msg.term \in Int /\ PcWell(h) /\ h.awaited \in BOOLEAN
        /\ h.msg.kind \in {"snapshot", "append"} /\ ~stale'
        /\ CallTerms /\ LeadersAhead /\ BatchesAhead /\ SnapshotsAhead
    BY StandingFacts, BatchFields, HandlerIn DEF Standing, NothingLost, Undisturbed
  <1>2. /\ UNCHANGED <<elected, leaderSnapshot, compacted>>
        /\ handlers \ {h} \subseteq handlers'
        /\ \A m \in Leader : /\ m # k \/ ~h.awaited => nextIndex'[m] = nextIndex[m]
                             /\ leading'[m] => leading[m]
    BY <1>1, AnswerNext, AnswerLeaves
  <1>3. /\ End' = End /\ Held' = Held /\ \A m \in Leader : Offer(m)' = Offer(m)
        /\ End \in Int /\ Held \in Int /\ Held < End
    BY <1>1, <1>2, EndFields DEF End, Held, Offer, InPlace
  <1>4. \A m \in Leader : /\ Offer(m) \in Int /\ nextIndex[m] \in Int
                          /\ elected[m] \in Int /\ nextIndex'[m] \in Int
                          /\ nextIndex[m] \in 0 .. Len(History)
                          /\ NeedsSnapshot(m)' <=> nextIndex'[m] <= Offer(m)'
    BY <1>1, LeaderFields, LeaderFieldsNext
  <1>5. CallTerm(h)
    BY <1>1 DEF CallTerms
  <1>6. Replaced => Replaced' \/ (h.pc = "persist" /\ h.msg.kind = "snapshot")
    BY <1>2 DEF Replaced
  <1>7. ASSUME NEW l \in Leader, Answering(l)
        PROVE  Answering(l)' \/ AnswersWith(h, l)
    BY <1>2, <1>7 DEF Answering
  <1>8. ASSUME NEW l \in Leader, leading[l], nextIndex'[l] = nextIndex[l],
               ~AnswersWith(h, l),
               ~(lost = 0 /\ h.pc = "persist" /\ h.msg.kind = "snapshot"),
               elected[l] >= currentTerm'
        PROVE  Ahead(l)'
    <2>1. Steady(l)
      BY <1>2, <1>3, <1>4, <1>6, <1>7, <1>8 DEF Steady
    <2> QED
      BY <1>2, <1>3, <1>8, <2>1, SteadyAhead
  <1> SUFFICES ASSUME NEW l \in Leader, leading'[l], elected[l] >= currentTerm'
               PROVE  Ahead(l)'
    BY <1>2 DEF LeadersAhead
  <1>9. /\ leading[l] /\ elected[l] >= currentTerm /\ Ahead(l)
        /\ leaderTerm[l] = elected[l]
    BY <1>1, <1>2, <1>4 DEF LeadersAhead, LeadersApart
  <1>10. CASE l # k \/ ~h.awaited
    <2>1. nextIndex'[l] = nextIndex[l] /\ ~AnswersWith(h, l)
      BY <1>2, <1>10 DEF AnswersWith
    <2>2. CASE lost = 0 /\ h.pc = "persist" /\ h.msg.kind = "snapshot"
      <3>1. h.msg.term = currentTerm /\ h.awaited
        BY <1>5, <2>2 DEF CallTerm, Busy
      <3>2. elected[l] # currentTerm
        BY <1>1, <1>10, <3>1 DEF CallTerms
      <3>3. nextIndex[l] = Len(History)
        BY <1>1, <1>4, <1>9, <3>2 DEF Ahead
      <3> QED
        BY <2>1, <3>3, AheadAtEnd
    <2>3. CASE ~(lost = 0 /\ h.pc = "persist" /\ h.msg.kind = "snapshot")
      BY <1>8, <1>9, <2>1, <2>3
    <2> QED
      BY <2>2, <2>3
  <1>11. CASE l = k /\ h.awaited /\ h.msg.kind = "snapshot"
    <2>1. ~AnswersWith(h, l)
      BY <1>11 DEF AnswersWith
    <2>2. CASE success /\ h.msg.done
      <3>1. h.pc = "persist" /\ Busy(h) /\ Brings(h)
        BY <1>11, <2>2 DEF Busy, Brings, Installing
      <3>2. SnapshotAhead(h) /\ h.msg.term = currentTerm /\ log = <<>>
        BY <1>1, <1>5, <1>11, <3>1 DEF SnapshotsAhead, SnapshotAhead, CallTerm
      <3>3. snapFile = latestSnapshot
        <4>1. \A f \in handlers : f.pc # "replace"
          BY <1>1, <3>1, OthersWait DEF Busy
        <4> QED
          BY <1>1, <4>1 DEF InPlace, FilesFollow, OneAtATime
      <3>4. nextIndex'[l] = Held + 1
        <4>1. nextIndex'[l] = transfer[h.from].snap.lastIncludedIndex + 1
          BY <1>1, <1>11, <2>2, AnswerNext
        <4>2. transfer[h.from].snap.lastIncludedIndex = Target(h)
          BY <1>11, <3>2 DEF SnapshotAhead
        <4>3. Target(h) = Held
          BY <3>1, <3>3 DEF Target, Held
        <4> QED
          BY <4>1, <4>2, <4>3
      <3>5. End = Held + 1
        BY <3>2, <1>3, EmptySeq DEF End, Held, getLogSize, baseIndex
      <3>6. CASE elected[l] = currentTerm
        <4>1. ~(elected[l] > currentTerm')
          BY <1>1, <1>4, <3>6
        <4> QED
          BY <1>2, <1>3, <1>4, <3>4, <3>5, <4>1 DEF Ahead
      \* The answer to a call of an earlier term.
      <3>7. CASE elected[l] # currentTerm
        <4>1. nextIndex[l] = Len(History)
          BY <1>1, <1>4, <1>9, <3>7 DEF Ahead
        <4>2. nextIndex' = nextIndex
          BY <1>1, <1>9, <1>11, <3>2, <3>7, AnswerNext
        <4> QED
          BY <4>1, <4>2, AheadAtEnd
      <3> QED
        BY <3>6, <3>7
    <2>3. CASE ~(success /\ h.msg.done)
      <3>1. nextIndex'[l] = nextIndex[l]
        BY <1>1, <1>11, <2>3, AnswerNext
      <3>2. h.pc # "persist"
        BY <1>1, <1>11, <2>3 DEF PcWell
      <3> QED
        BY <1>8, <1>9, <2>1, <3>1, <3>2
    <2> QED
      BY <2>2, <2>3
  <1>12. CASE l = k /\ h.awaited /\ h.msg.kind = "append"
    <2>1. currentTerm <= leaderTerm[k]
      BY <1>1, <1>4, <1>9, <1>12
    <2>2. nextIndex'[l] = IF success /\ h.msg.entries = <<>> THEN nextIndex[l]
                          ELSE IF success
                          THEN h.msg.prevLogIndex + 1 + Len(h.msg.entries)
                          ELSE NextOnFailure(nextIndex[l])
      BY <1>1, <1>12, <2>1, AnswerNext
    <2>3. BatchAhead(h) /\ h.msg.prevLogIndex \in Int
      BY <1>1, <1>12, BatchFields DEF BatchesAhead, Batch
    <2>4. CASE success /\ h.msg.entries = <<>>
      BY <1>8, <1>9, <1>12, <2>2, <2>4 DEF AnswersWith
    <2>5. CASE success /\ h.msg.entries # <<>>
      <3>1. nextIndex'[l] = Len(History)
        BY <2>2, <2>3, <2>5 DEF BatchAhead
      <3> QED
        BY <3>1, AheadAtEnd
    <2>6. CASE ~success /\ nextIndex'[l] = nextIndex[l]
      <3>1. ~AnswersWith(h, l)
        BY <2>6 DEF AnswersWith, Busy
      <3> QED
        BY <1>8, <1>9, <1>12, <2>6, <3>1
    <2>7. CASE ~success /\ nextIndex'[l] # nextIndex[l]
      <3>1. nextIndex' # nextIndex
        BY <2>7
      <3>2. h.msg.term = elected[l]
        BY <1>1, <1>9, <1>12, <3>1, AnswerNext
      <3>3. h.pc = "log" /\ ~h.success
        BY <1>1, <1>4, <1>9, <2>7, <3>2
      <3>4. h.msg.term = currentTerm
        BY <1>5, <3>3 DEF CallTerm, Busy
      <3>5. End <= h.msg.prevLogIndex /\ h.msg.prevLogIndex + 1 <= nextIndex[l]
        BY <1>12, <2>3, <3>2, <3>3 DEF BatchAhead
      <3>6. nextIndex'[l] = nextIndex[l] - 1
        BY <2>2, <2>7 DEF NextOnFailure
      <3>7. End <= nextIndex'[l] /\ Held < nextIndex'[l]
        BY <1>3, <1>4, <2>3, <3>5, <3>6
      <3>8. ~(elected[l] > currentTerm')
        BY <1>1, <1>4, <3>2, <3>4
      <3> QED
        BY <1>2, <1>3, <1>4, <3>7, <3>8 DEF Ahead
    <2> QED
      BY <2>4, <2>5, <2>6, <2>7
  <1> QED
    BY <1>1, <1>10, <1>11, <1>12

\* Nothing happens to the calls whose answers are awaited, nor to the follower.
LEMMA SteadyStep ==
    ASSUME Standing, UNCHANGED <<log, latestSnapshot, compacted>>,
           currentTerm <= currentTerm', lost' = 0 => lost = 0,
           lost' = 0 => /\ \A l \in Leader : Answering(l) => Answering(l)'
                        /\ Replaced => Replaced',
           \A l \in Leader : leading'[l] /\ elected'[l] >= currentTerm' =>
               \/ nextIndex'[l] = Len(History)
               \/ /\ leading[l] /\ elected'[l] = elected[l]
                  /\ nextIndex[l] <= nextIndex'[l]
                  /\ \/ Offer(l)' = Offer(l)
                     \/ Offer(l) <= Offer(l)' /\ Offer(l)' < nextIndex'[l]
    PROVE  LeadersAhead'
  <1>1. End' = End /\ Held' = Held
    BY DEF End, Held
  <1> SUFFICES ASSUME NEW l \in Leader, leading'[l], elected'[l] >= currentTerm'
               PROVE  Ahead(l)'
    BY DEF LeadersAhead
  <1>2. CASE nextIndex'[l] = Len(History)
    BY <1>2, AheadAtEnd
  <1>3. CASE nextIndex'[l] # Len(History)
    <2>1. Steady(l)
      BY <1>3 DEF Steady
    <2> QED
      BY <1>1, <2>1, SteadyAhead
  <1> QED
    BY <1>2, <1>3

LEMMA OwnStepsAhead ==
    ASSUME Standing, ~Overlap,
           \/ \E s \in Sender : Round(s)
           \/ \E l \in Leader : Elect(l) \/ Deposed(l)
                                \/ \E i \in Index : LeaderSnapshot(l, i)
           \/ HearCandidate
           \/ UNCHANGED vars
    PROVE  LeadersAhead'
  <1>1. /\ TypeInv /\ TypeInv' /\ currentTerm \in Int /\ currentTerm' \in Int
        /\ leading \in [Leader -> BOOLEAN]
        /\ \A l \in Leader : nextIndex[l] \in Int /\ Offer(l) \in Int
    <2>1. LeadersWell
      BY StandingFacts DEF TypeInv
    <2> QED
      BY <2>1, StandingFacts, LeaderFields DEF LeadersWell
  <1>2. /\ UNCHANGED <<log, latestSnapshot, compacted, lost>> /\ handlers \subseteq handlers'
    BY DEF Round, Elect, Deposed, LeaderSnapshot, HearCandidate, KeepLeaders, vars,
           memory, history, leaderVars, electionVars
  <1>3. /\ \A l \in Leader : Answering(l) => Answering(l)'
        /\ Replaced => Replaced'
    BY <1>2 DEF Answering, Replaced
  <1>4. CASE \E l \in Leader : Elect(l)
    <2>1. PICK k \in Leader : Elect(k)
      BY <1>4
    <2>2. /\ nextIndex'[k] = Len(History)
          /\ \A m \in Leader : m # k => nextIndex'[m] = nextIndex[m]
      BY <2>1, ElectQuiet
    <2>3. PICK t : /\ elected' = [elected EXCEPT ![k] = t]
                   /\ leading' = [leading EXCEPT ![k] = TRUE]
                   /\ UNCHANGED <<leaderSnapshot, currentTerm>>
      BY <2>1 DEF Elect, memory
    <2>4. \A m \in Leader : m # k => elected'[m] = elected[m] /\ leading'[m] = leading[m]
      <3>1. elected \in [Leader -> Nat]
        BY <1>1 DEF TypeInv, LeadersWell
      <3> QED
        BY <1>1, <2>3, <3>1
    <2>5. \A m \in Leader : Offer(m)' = Offer(m)
      BY <2>3 DEF Offer
    <2>6. \A l \in Leader : leading'[l] /\ elected'[l] >= currentTerm' =>
               \/ nextIndex'[l] = Len(History)
               \/ /\ leading[l] /\ elected'[l] = elected[l]
                  /\ nextIndex[l] <= nextIndex'[l]
                  /\ Offer(l)' = Offer(l)
      BY <1>1, <2>2, <2>4, <2>5
    <2>7. currentTerm <= currentTerm'
      BY <1>1, <2>3
    <2> QED
      BY <1>2, <1>3, <2>6, <2>7, SteadyStep
  <1>5. CASE ~\E l \in Leader : Elect(l)
    <2>1. currentTerm <= currentTerm'
      <3>1. CASE HearCandidate
        <4>1. PICK l \in Leader : elected[l] > currentTerm /\ HearTerm(elected[l])
          BY <3>1 DEF HearCandidate
        <4>2. elected[l] \in Int
          BY <1>1, LeaderFields
        <4> QED
          BY <1>1, <4>1, <4>2 DEF HearTerm
      <3>2. CASE ~HearCandidate
        <4>1. currentTerm' = currentTerm
          BY <1>5, <3>2 DEF Round, Deposed, LeaderSnapshot, vars, memory
        <4> QED
          BY <1>1, <4>1
      <3> QED
        BY <3>1, <3>2
    <2>2. /\ elected' = elected
          /\ \A l \in Leader : leading'[l] => leading[l]
      BY <1>1, <1>5 DEF Round, Deposed, LeaderSnapshot, vars, HearCandidate, KeepLeaders,
                   leaderVars, electionVars
    <2>3. ASSUME NEW l \in Leader
          PROVE  /\ nextIndex[l] <= nextIndex'[l]
                 /\ \/ Offer(l)' = Offer(l)
                    \/ Offer(l) <= Offer(l)' /\ Offer(l)' < nextIndex'[l]
      <3>1. CASE \E k \in Leader, i \in Index : LeaderSnapshot(k, i)
        <4>1. PICK k \in Leader, i \in Index : LeaderSnapshot(k, i)
          BY <3>1
        <4>2. /\ leaderSnapshot' = [leaderSnapshot EXCEPT ![k] = Snapshot(k, i)]
              /\ nextIndex' = [nextIndex EXCEPT ![k] = IF @ <= i THEN i + 1 ELSE @]
              /\ i > Offer(k) /\ i \in Int
          BY <4>1, HistoryFacts DEF LeaderSnapshot, Offer
        <4>3. leaderSnapshot \in [Leader -> Taken]
              /\ nextIndex \in [Leader -> 0 .. Len(History)]
          BY <1>1 DEF TypeInv, LeadersWell
        <4>4. CASE l = k
          <5>1. Offer(l)' = i
            BY <4>2, <4>3, <4>4, SnapshotFields DEF Offer
          <5>2. nextIndex'[l] = IF nextIndex[l] <= i THEN i + 1 ELSE nextIndex[l]
            BY <4>2, <4>3, <4>4
          <5> QED
            BY <1>1, <4>2, <4>4, <5>1, <5>2
        <4>5. CASE l # k
          <5>1. nextIndex'[l] = nextIndex[l] /\ leaderSnapshot'[l] = leaderSnapshot[l]
            BY <4>2, <4>3, <4>5
          <5> QED
            BY <1>1, <5>1 DEF Offer
        <4> QED
          BY <4>4, <4>5
      <3>2. CASE ~\E k \in Leader, i \in Index : LeaderSnapshot(k, i)
        <4>1. UNCHANGED <<leaderSnapshot, nextIndex>>
          BY <1>5, <3>2 DEF Round, Deposed, vars, HearCandidate, KeepLeaders, leaderVars
        <4> QED
          BY <1>1, <4>1 DEF Offer
      <3> QED
        BY <3>1, <3>2
    <2>4. \A l \in Leader : elected'[l] = elected[l]
      BY <2>2
    <2> QED
      BY <1>2, <1>3, <2>1, <2>2, <2>3, <2>4, SteadyStep
  <1> QED
    BY <1>4, <1>5

LEMMA CallTimesOutAhead ==
    ASSUME Standing, NEW h \in handlers, CallTimesOut(h)
    PROVE  LeadersAhead'
  <1>1. lost \in Nat /\ currentTerm \in Int /\ \A l \in Leader : nextIndex[l] \in Int
    BY StandingFacts, LeaderFields DEF TypeInv, CountsWell
  <1>2. /\ UNCHANGED <<log, latestSnapshot, compacted, currentTerm>> /\ lost' = lost + 1
        /\ UNCHANGED <<leading, elected, nextIndex, leaderSnapshot>>
    BY DEF CallTimesOut, memory, history, electionVars
  <1>3. lost' # 0 /\ currentTerm <= currentTerm'
    BY <1>1, <1>2
  <1>4. \A l \in Leader : nextIndex[l] <= nextIndex'[l] /\ Offer(l)' = Offer(l)
    BY <1>1, <1>2 DEF Offer
  <1> QED
    BY <1>2, <1>3, <1>4, SteadyStep

\* A handler goes on, and leaves the follower's log and snapshot as they are.
LEMMA MovedAhead ==
    ASSUME Standing, NEW h \in handlers, NEW g, handlers' = (handlers \ {h}) \cup {g},
           g.from = h.from, g.msg = h.msg, g.awaited = h.awaited,
           Busy(h) => Busy(g) /\ g.success = h.success, h.pc # "persist",
           UNCHANGED <<log, latestSnapshot, compacted, lost, currentTerm>>,
           UNCHANGED leaderVars
    PROVE  LeadersAhead'
  <1>1. currentTerm \in Int /\ \A l \in Leader : nextIndex[l] \in Int
    BY StandingFacts, LeaderFields
  <1>2. UNCHANGED <<leading, elected, nextIndex, leaderSnapshot>>
    BY DEF leaderVars, electionVars
  <1>3. \A l \in Leader : nextIndex[l] <= nextIndex'[l] /\ Offer(l)' = Offer(l)
    BY <1>1, <1>2 DEF Offer
  <1>4. /\ \A l \in Leader : Answering(l) => Answering(l)'
        /\ Replaced => Replaced'
    BY AnsweringMoves
  <1>5. currentTerm <= currentTerm'
    BY <1>1
  <1> QED
    BY <1>2, <1>3, <1>4, <1>5, SteadyStep

\* A leader of a later term has its nextIndex at the end of its log, one of the
\* follower's own term is the sender of what is at work.
LEMMA OnlySenderMatters ==
    ASSUME Standing, NEW h \in handlers, h.msg.term = currentTerm,
           UNCHANGED <<currentTerm, nextIndex, leading, elected>>,
           elected[h.from.leader] = currentTerm /\ leading[h.from.leader]
               => Ahead(h.from.leader)'
    PROVE  LeadersAhead'
  <1>1. /\ TypeInv /\ CallTerms /\ LeadersAhead /\ currentTerm \in Int
    BY StandingFacts DEF Standing, NothingLost
  <1> SUFFICES ASSUME NEW l \in Leader, leading[l], elected[l] >= currentTerm
               PROVE  Ahead(l)'
    BY DEF LeadersAhead
  <1>2. elected[l] \in Int
    BY <1>1, LeaderFields
  <1>3. CASE elected[l] > currentTerm
    <2>1. nextIndex'[l] = Len(History)
      BY <1>1, <1>3 DEF LeadersAhead, Ahead
    <2> QED
      BY <2>1, AheadAtEnd
  <1>4. CASE elected[l] = currentTerm
    <2>1. l = h.from.leader
      BY <1>1, <1>4 DEF CallTerms
    <2> QED
      BY <1>4, <2>1
  <1> QED
    BY <1>1, <1>2, <1>3, <1>4

LEMMA ReceiveEntriesAhead ==
    ASSUME Standing, OneHeartbeatEach, ~Overlap, NEW h \in handlers, ReceiveEntries(h)
    PROVE  LeadersAhead'
  <1> DEFINE l == h.from.leader
  <1>1. PICK g \in handlers' :
              /\ g.from = h.from /\ g.msg = h.msg /\ g.awaited = h.awaited
              /\ g.pc = "log"
              /\ g.success \/ log' = log
              /\ handlers' = (handlers \ {h}) \cup {g}
    BY ReceiveEntriesCalm
  <1>2. /\ h.pc = "sent" /\ h.msg.kind = "append" /\ h.msg.term = currentTerm
        /\ UNCHANGED <<currentTerm, lost, latestSnapshot, compacted>>
        /\ UNCHANGED leaderVars
    BY DEF ReceiveEntries, KeepLeaders, history
  <1>3. ~Busy(h) /\ h.pc # "persist"
    BY <1>2 DEF Busy
  <1>4. CASE log' = log
    BY <1>1, <1>2, <1>3, <1>4, MovedAhead
  <1>5. CASE log' # log
    <2>1. /\ h.msg.entries # <<>> /\ g.success /\ Held' = Held
      BY <1>1, <1>5, ReceiveEntriesCalm
    <2>2. /\ TypeInv /\ l \in Leader /\ h.awaited /\ BatchAhead(h) /\ LeadersAhead
          /\ currentTerm \in Int
      BY <1>2, StandingFacts, BatchFields DEF OneAtATime, Standing, NothingLost,
         BatchesAhead, Batch
    <2>3. Answering(l)'
      <3>1. Busy(g)
        BY <1>1 DEF Busy
      <3>2. AnswersWith(g, l)
        BY <1>1, <1>2, <2>1, <2>2, <3>1 DEF AnswersWith
      <3> QED
        BY <3>2 DEF Answering, AnswersWith, Busy
    <2>4. UNCHANGED <<nextIndex, leading, elected, leaderSnapshot>>
      BY <1>2 DEF leaderVars, electionVars
    <2>5. ASSUME elected[l] = currentTerm, leading[l] PROVE Ahead(l)'
      <3>1. Ahead(l)
        BY <2>2, <2>5 DEF LeadersAhead
      <3>2. /\ Offer(l) \in Int /\ nextIndex[l] \in Int
            /\ NeedsSnapshot(l) <=> nextIndex[l] <= Offer(l)
        BY <2>2, LeaderFields
      <3>3. ~NeedsSnapshot(l)
        BY <2>2, <3>2 DEF BatchAhead
      <3>4. /\ Offer(l)' = Offer(l) /\ (NeedsSnapshot(l)' <=> NeedsSnapshot(l))
        BY <2>4 DEF Offer, NeedsSnapshot
      <3> QED
        BY <1>2, <2>1, <2>2, <2>3, <2>4, <2>5, <3>1, <3>3, <3>4 DEF Ahead
    <2> QED
      BY <1>2, <2>4, <2>5, OnlySenderMatters
  <1> QED
    BY <1>4, <1>5

LEMMA InstallAhead ==
    ASSUME Standing, OneHeartbeatEach, NEW h \in handlers, Install(h)
    PROVE  LeadersAhead'
  <1> DEFINE l == h.from.leader
  <1>1. /\ End' = Target(h) + 1 /\ Held' = Target(h)
        /\ Target(h) \in Int /\ h.msg.term = currentTerm
        /\ \E g \in Handler :
              /\ g.from = h.from /\ g.msg = h.msg /\ g.awaited = h.awaited
              /\ g.pc = "persist" /\ handlers' = (handlers \ {h}) \cup {g}
    BY InstallCalm
  <1>2. /\ h.pc = "replace" /\ h.msg.kind = "snapshot"
        /\ UNCHANGED <<currentTerm, nextIndex, leading, elected, leaderSnapshot>>
    BY DEF Install, KeepLeaders, leaderVars, electionVars
  <1>3. Replaced'
    BY <1>1, <1>2 DEF Replaced
  <1>4. TypeInv /\ l \in Leader /\ SnapshotAhead(h) /\ currentTerm \in Int
    <2>1. Brings(h)
      BY <1>2 DEF Brings, Installing, Busy
    <2> QED
      BY <2>1, StandingFacts, BatchFields DEF Standing, NothingLost, SnapshotsAhead
  <1>5. ASSUME elected[l] = currentTerm PROVE Ahead(l)'
    <2>1. Target(h) <= Offer(l)
      BY <1>1, <1>4, <1>5 DEF SnapshotAhead
    <2>2. Offer(l) \in Int /\ Offer(l)' = Offer(l)
      BY <1>2, <1>4, LeaderFields DEF Offer
    <2>3. End' <= Offer(l)' + 1 /\ Held' <= Offer(l)'
      BY <1>1, <2>1, <2>2
    <2> QED
      BY <1>2, <1>3, <1>4, <1>5, <2>3 DEF Ahead
  <1> QED
    BY <1>1, <1>2, <1>5, OnlySenderMatters

LEMMA TruncateAhead ==
    ASSUME Standing, OneHeartbeatEach, NEW h \in handlers, Truncate(h)
    PROVE  LeadersAhead'
  <1> DEFINE l == h.from.leader
  <1>1. PICK g \in Handler :
              /\ g.from = h.from /\ g.msg = h.msg /\ g.awaited = h.awaited
              /\ g.success = h.success
              /\ g.pc = "persist" /\ handlers' = (handlers \ {h}) \cup {g}
    BY TruncateCalm
  <1>2. /\ h.pc = "replace" /\ h.msg.kind = "append" /\ compacted'
        /\ UNCHANGED <<currentTerm, nextIndex, leading, elected, leaderSnapshot, lost>>
    BY DEF Truncate, leaderVars, electionVars
  <1>3. End' = End /\ Held' < End' /\ lost = 0
    BY TruncateCalm
  <1>4. /\ TypeInv /\ l \in Leader /\ h.msg.term = currentTerm /\ currentTerm \in Int
        /\ OneAtATime /\ LeadersAhead /\ Busy(h) /\ Busy(g)
    <2>1. Busy(h) /\ Busy(g)
      BY <1>1, <1>2 DEF Busy
    <2> QED
      BY <2>1, StandingFacts, BatchFields DEF Standing, NothingLost, CallTerms, CallTerm
  <1>5. ~Replaced
    BY <1>2, <1>4 DEF Replaced, OneAtATime, Busy
  <1>6. Answering(l) => Answering(l)'
    BY <1>1, <1>2, <1>4, AnsweringMoves
  <1>7. ASSUME elected[l] = currentTerm, leading[l] PROVE Ahead(l)'
    <2>1. Ahead(l)
      BY <1>4, <1>7 DEF LeadersAhead
    <2>2. End <= nextIndex[l] \/ Answering(l)
      BY <1>3, <1>5, <2>1 DEF Ahead
    <2>3. /\ End' \in Int /\ Held' \in Int /\ nextIndex[l] \in Int
      BY <1>4, StandingFacts, LeaderFields, EndFieldsNext DEF InPlace
    <2>4. End' <= nextIndex'[l] \/ Answering(l)'
      BY <1>2, <1>3, <1>6, <2>2
    <2>5. Held' < nextIndex'[l] \/ (compacted' /\ Answering(l)')
      BY <1>2, <1>3, <2>3, <2>4
    <2>6. Offer(l)' = Offer(l) /\ (NeedsSnapshot(l)' <=> NeedsSnapshot(l))
      BY <1>2 DEF Offer, NeedsSnapshot
    <2>7. NeedsSnapshot(l)' => End' <= Offer(l)' + 1
      BY <1>3, <2>1, <2>6 DEF Ahead
    <2> QED
      BY <1>2, <1>4, <1>7, <2>4, <2>5, <2>7 DEF Ahead
  <1> QED
    BY <1>2, <1>4, <1>7, OnlySenderMatters

-----------------------------------------------------------------------------
(* Every step keeps what the leaders rely on.                              *)

LEMMA CalmStands ==
    ASSUME Standing, Calm
    PROVE  CallTerms' /\ BatchesAhead' /\ SnapshotsAhead'
  <1>1. /\ WholeInv /\ WholeInv' /\ PlaceInv /\ InPlace /\ ~astray
        /\ CallTerms /\ BatchesAhead /\ SnapshotsAhead
    BY StandingFacts DEF Standing, NothingLost
  <1> QED
    BY <1>1, CalmKeeps

\* The entries of a vector end with what the follower has.
LEMMA PlacedBehind ==
    ASSUME NEW v \in Vector, NEW snap \in AnySnapshot, Placed(v, snap)
    PROVE  \A k \in 1 .. Len(v) : v[k].index < getLogSize(v, snap)
  <1>1. /\ baseIndex(snap) = snap.lastIncludedIndex + 1
        /\ snap.lastIncludedIndex \in Int /\ Len(v) \in Nat
    BY AnySnapshotFields, VectorFields
  <1>2. \A i : Entry(i).index = i
    BY DEF Entry
  <1>3. \A k \in 1 .. Len(v) : v[k].index = baseIndex(snap) + k - 1
    BY <1>2 DEF Placed
  <1> QED
    BY <1>1, <1>3 DEF getLogSize

LEMMA FileStaysBehind ==
    ASSUME Standing,
           up' = "up" => \/ up = "up" /\ metadata' = metadata /\ End <= End'
                         \/ metadata'.log = log'
    PROVE  FileBehind'
  <1> SUFFICES ASSUME up' = "up", NEW k \in 1 .. Len(metadata'.log)
               PROVE  metadata'.log[k].index < End'
    BY DEF FileBehind
  <1>1. /\ TypeInv /\ TypeInv' /\ InPlace /\ InPlace' /\ FileBehind
    BY StandingFacts DEF Standing, NothingLost
  <1>2. CASE metadata'.log = log'
    <2>1. log' \in Vector /\ latestSnapshot' \in AnySnapshot
          /\ Placed(log', latestSnapshot')
      BY <1>1 DEF TypeInv, MemoryWell, InPlace
    <2> QED
      BY <1>2, <2>1, PlacedBehind DEF End
  <1>3. CASE up = "up" /\ metadata' = metadata /\ End <= End'
    <2>1. metadata.log[k].index < End
      BY <1>1, <1>3 DEF FileBehind
    <2>2. metadata.log \in Vector
      BY <1>1, <1>3 DEF InPlace, FilesFollow, Readable, TypeInv, DiskWell
    <2>3. metadata.log[k].index \in Int
      <3>1. k \in 1 .. Len(metadata.log)
        BY <1>3
      <3>2. metadata.log[k].index \in Index
        BY <2>2, <3>1, VectorFields
      <3>3. Index \subseteq Int
        BY HistoryFacts
      <3> QED
        BY <3>2, <3>3
    <2>4. End \in Int /\ End' \in Int
      BY <1>1, EndFields, EndFieldsNext DEF InPlace
    <2> QED
      BY <1>3, <2>1, <2>3, <2>4
  <1> QED
    BY <1>2, <1>3

\* Steps that leave the follower's log and snapshots alone.
LEMMA RestStays ==
    ASSUME Standing, UNCHANGED <<log, latestSnapshot, snapFile>>,
           up' = "up" => \/ up = "up" /\ metadata' = metadata
                         \/ metadata'.log = log'
    PROVE  RightTerms' /\ FileBehind'
  <1>1. RightTerms'
    BY DEF Standing, NothingLost, RightTerms, RightTerm
  <1>2. End' = End /\ End \in Int
    BY StandingFacts, EndFields DEF End, InPlace
  <1>3. FileBehind'
    BY <1>2, FileStaysBehind
  <1> QED
    BY <1>1, <1>3

LEMMA AnswersKeep ==
    ASSUME Standing, OneHeartbeatEach, ~Overlap, NEW h \in handlers,
           \/ Refuse(h) \/ Persist(h) \/ PersistAndApply(h)
           \/ ReceiveChunk(h) /\ ~h.msg.done
    PROVE  NothingLost'
  <1>1. CallTerms' /\ BatchesAhead' /\ SnapshotsAhead'
    BY AnswersQuiet, QuietCalm, CalmStands
  <1>2. /\ UNCHANGED <<log, latestSnapshot, snapFile, up, lost>> /\ up = "up"
    BY DEF Refuse, Persist, PersistAndApply, ReceiveChunk, memory, disk
  <1>3. h \in Handler /\ PcWell(h) /\ currentTerm \in Int /\ h.msg.term \in Int
        /\ h.success \in BOOLEAN
    BY StandingFacts, HandlerIn, HandlerFields, BatchFields
  <1>4. currentTerm <= currentTerm'
    <2>1. currentTerm' = currentTerm \/ HearTerm(h.msg.term)
      BY DEF Refuse, Persist, PersistAndApply, ReceiveChunk, memory
    <2> QED
      BY <1>3, <2>1 DEF HearTerm
  <1>5. LeadersAhead'
    <2>1. CASE Refuse(h)
      <3>1. h.pc = "sent" /\ h.msg.term < currentTerm /\ Reply(h, FALSE)
        BY <2>1 DEF Refuse
      <3> QED
        BY <1>2, <1>4, <3>1, AnswerAhead
    <2>2. CASE Persist(h)
      <3>1. h.pc = "persist" /\ Reply(h, TRUE)
        BY <2>2 DEF Persist
      <3> QED
        BY <1>2, <1>4, <3>1, AnswerAhead
    <2>3. CASE ReceiveChunk(h) /\ ~h.msg.done
      <3>1. h.pc = "sent" /\ Reply(h, TRUE)
        BY <2>3 DEF ReceiveChunk
      <3> QED
        BY <1>2, <1>4, <2>3, <3>1, AnswerAhead
    <2>4. CASE PersistAndApply(h)
      <3>1. /\ h.pc = "log" /\ currentTerm' = currentTerm
            /\ Reply(h, h.success) \/ (Go(h, "save") /\ KeepLeaders)
        BY <2>4 DEF PersistAndApply
      <3>2. h.msg.kind # "snapshot" \/ FALSE
        BY <1>3, <3>1, HandlerFields DEF PcWell
      <3>3. CASE Reply(h, h.success)
        BY <1>2, <1>3, <1>4, <3>1, <3>2, <3>3, AnswerAhead
      <3>4. CASE Go(h, "save") /\ KeepLeaders
        <4> DEFINE g == [h EXCEPT !.pc = "save"]
        <4>1. /\ g.pc = "save" /\ g.msg = h.msg /\ g.from = h.from
              /\ g.awaited = h.awaited /\ g.success = h.success
          BY <1>3, GoFields DEF Handler
        <4>2. handlers' = (handlers \ {h}) \cup {g}
          BY <3>4 DEF Go
        <4> HIDE DEF g
        <4>3. UNCHANGED leaderVars /\ compacted' = compacted
          BY <3>4 DEF KeepLeaders, history
        <4>4. Busy(g)
          BY <4>1 DEF Busy
        <4> QED
          BY <1>2, <3>1, <4>1, <4>2, <4>3, <4>4, MovedAhead
      <3> QED
        BY <3>1, <3>3, <3>4
    <2> QED
      BY <2>1, <2>2, <2>3, <2>4
  <1>6. metadata' = metadata \/ metadata'.log = log'
    <2>1. File.log = log
      BY DEF File
    <2>2. HearTerm(h.msg.term) => metadata' = metadata \/ metadata'.log = log
      BY HearTermWrites
    <2> QED
      BY <1>2, <2>1, <2>2 DEF Refuse, Persist, PersistAndApply, ReceiveChunk, disk
  <1> QED
    BY <1>1, <1>2, <1>5, <1>6, RestStays DEF NothingLost

LEMMA GoingOnKeeps ==
    ASSUME Standing, OneHeartbeatEach, ~Overlap, NEW h \in handlers,
           \/ ReceiveChunk(h) /\ h.msg.done
           \/ SaveSnapshot(h) \/ ReceiveEntries(h) \/ Stick(h)
    PROVE  NothingLost'
  <1>1. h \in Handler /\ currentTerm \in Int
    BY StandingFacts, HandlerIn
  <1>2. CASE ReceiveChunk(h) /\ h.msg.done
    <2>1. /\ Calm /\ UNCHANGED <<log, latestSnapshot, currentTerm, lost, compacted, snapFile>>
      BY <1>2, LastChunkCalm
    <2>2. PICK g \in Handler :
              /\ g.from = h.from /\ g.msg = h.msg /\ g.awaited = h.awaited
              /\ g.pc = "save" /\ handlers' = (handlers \ {h}) \cup {g}
      BY <1>2, LastChunkCalm
    <2>3. /\ h.pc = "sent" /\ up = "up" /\ up' = up /\ UNCHANGED leaderVars
          /\ HearTerm(h.msg.term)
      BY <1>2 DEF ReceiveChunk, KeepLeaders
    <2>4. LeadersAhead'
      <3>1. ~Busy(h) /\ h.pc # "persist"
        BY <2>3 DEF Busy
      <3> QED
        BY <2>1, <2>2, <2>3, <3>1, MovedAhead
    <2>5. metadata' = metadata \/ metadata'.log = log'
      BY <2>1, <2>3, HearTermWrites
    <2> QED
      BY <2>1, <2>3, <2>4, <2>5, CalmStands, RestStays DEF NothingLost
  <1>3. CASE SaveSnapshot(h)
    <2>1. /\ Calm /\ RightTerm(snapFile')
      BY <1>3, SaveSnapshotCalm
    <2>2. PICK g \in Handler :
              /\ g.from = h.from /\ g.msg = h.msg /\ g.awaited = h.awaited
              /\ g.pc = "replace" /\ g.success = h.success
              /\ handlers' = (handlers \ {h}) \cup {g}
      BY <1>3, SaveSnapshotCalm
    <2>3. /\ h.pc = "save" /\ up = "up"
          /\ UNCHANGED <<log, latestSnapshot, currentTerm, lost, up, metadata>>
      BY <1>3 DEF SaveSnapshot, memory
    <2>4. UNCHANGED leaderVars /\ compacted' = compacted
      <3>1. h.msg.kind = "snapshot" => Whole(snapshotBuffer)
        BY <2>3, StandingFacts DEF SnapshotsWhole
      <3> QED
        BY <1>3, <3>1 DEF SaveSnapshot, KeepLeaders, history
    <2>5. LeadersAhead'
      <3>1. Busy(g) /\ h.pc # "persist"
        BY <2>2, <2>3 DEF Busy
      <3> QED
        BY <2>2, <2>3, <2>4, <3>1, MovedAhead
    <2>6. RightTerms'
      BY <2>1, <2>3 DEF Standing, NothingLost, RightTerms, RightTerm
    <2>7. FileBehind'
      <3>1. End' = End /\ End \in Int
        BY <2>3, StandingFacts, EndFields DEF End, InPlace
      <3> QED
        BY <2>3, <3>1, FileStaysBehind
    <2> QED
      BY <2>1, <2>5, <2>6, <2>7, CalmStands DEF NothingLost
  <1>4. CASE ReceiveEntries(h)
    <2>1. Calm /\ End <= End'
      BY <1>4, ReceiveEntriesCalm
    <2>2. UNCHANGED <<latestSnapshot, metadata, snapFile, up>> /\ up = "up"
      BY <1>4 DEF ReceiveEntries, disk
    <2>3. RightTerms'
      BY <2>2 DEF Standing, NothingLost, RightTerms, RightTerm
    <2>4. FileBehind' /\ LeadersAhead'
      BY <1>4, <2>1, <2>2, FileStaysBehind, ReceiveEntriesAhead
    <2> QED
      BY <2>1, <2>3, <2>4, CalmStands DEF NothingLost
  <1>5. CASE Stick(h)
    <2>1. Calm
      BY <1>5, StickQuiet, QuietCalm
    <2>2. /\ h.pc = "sent" /\ up = "up" /\ Go(h, "stuck")
          /\ UNCHANGED <<log, latestSnapshot, currentTerm, lost, up, metadata, snapFile,
                         compacted>>
          /\ UNCHANGED leaderVars
      BY <1>5 DEF Stick, memory, disk, KeepLeaders, history
    <2> DEFINE g == [h EXCEPT !.pc = "stuck"]
    <2>3. /\ g.msg = h.msg /\ g.from = h.from /\ g.awaited = h.awaited
      BY <1>1, GoFields
    <2>4. handlers' = (handlers \ {h}) \cup {g} /\ ~Busy(h) /\ h.pc # "persist"
      BY <2>2 DEF Go, Busy
    <2> HIDE DEF g
    <2>5. LeadersAhead'
      BY <2>2, <2>3, <2>4, MovedAhead
    <2> QED
      BY <2>1, <2>2, <2>5, CalmStands, RestStays DEF NothingLost
  <1> QED
    BY <1>2, <1>3, <1>4, <1>5

LEMMA ReplacingKeeps ==
    ASSUME Standing, OneHeartbeatEach, NEW h \in handlers, Install(h) \/ Truncate(h)
    PROVE  NothingLost'
  <1>1. Calm /\ RightTerm(latestSnapshot') /\ End <= End'
    <2>1. CASE Install(h)
      BY <2>1, InstallCalm
    <2>2. CASE Truncate(h)
      <3>1. End \in Int
        BY StandingFacts, EndFields DEF InPlace
      <3> QED
        BY <2>2, <3>1, TruncateCalm
    <2> QED
      BY <2>1, <2>2
  <1>2. LeadersAhead'
    BY InstallAhead, TruncateAhead
  <1>3. UNCHANGED <<metadata, snapFile, up>> /\ up = "up"
    BY DEF Install, Truncate, disk
  <1>4. RightTerms'
    BY <1>1, <1>3 DEF Standing, NothingLost, RightTerms, RightTerm
  <1>5. FileBehind'
    BY <1>1, <1>3, FileStaysBehind
  <1> QED
    BY <1>1, <1>2, <1>4, <1>5, CalmStands DEF NothingLost

LEMMA CallsKeep ==
    ASSUME Standing, OneHeartbeatEach, ~Overlap,
           \/ \E s \in Sender : Round(s)
           \/ \E h \in handlers : CallTimesOut(h)
           \/ \E l \in Leader : Elect(l) \/ Deposed(l)
                                \/ \E i \in Index : LeaderSnapshot(l, i)
           \/ HearCandidate
           \/ UNCHANGED vars
    PROVE  NothingLost'
  <1>1. CallTerms' /\ BatchesAhead' /\ SnapshotsAhead'
    <2>1. CASE \E s \in Sender : Round(s)
      BY <2>1, RoundKeeps
    <2>2. CASE ~\E s \in Sender : Round(s)
      <3>1. Quiet
        BY <2>2, CallTimesOutQuiet, ElectQuiet, LeaderSnapshotQuiet, OthersQuiet
      <3> QED
        BY <3>1, QuietCalm, CalmStands
    <2> QED
      BY <2>1, <2>2
  <1>2. LeadersAhead'
    BY CallTimesOutAhead, OwnStepsAhead
  <1>3. UNCHANGED <<log, latestSnapshot, snapFile, up>>
    BY DEF Round, CallTimesOut, Elect, Deposed, LeaderSnapshot, HearCandidate, vars,
           memory, disk
  <1>4. metadata' = metadata \/ metadata'.log = log'
    <2>1. CASE HearCandidate
      <3>1. PICK l \in Leader : HearTerm(elected[l])
        BY <2>1 DEF HearCandidate
      <3> QED
        BY <1>3, <3>1, HearTermWrites
    <2>2. CASE ~HearCandidate
      BY <2>2 DEF Round, CallTimesOut, Elect, Deposed, LeaderSnapshot, vars, disk
    <2> QED
      BY <2>1, <2>2
  <1>5. RightTerms' /\ FileBehind'
    BY <1>3, <1>4, RestStays
  <1> QED
    BY <1>1, <1>2, <1>5 DEF NothingLost

\* After a crash, and until the process is started again, there is no call and no
\* leader.
LEMMA DeathKeeps ==
    ASSUME Standing, Crash \/ Restart
    PROVE  NothingLost'
  <1>1. handlers' = {} /\ \A l \in Leader : ~leading'[l]
    <2>1. CASE Crash
      BY <2>1 DEF Crash
    <2>2. CASE Restart
      <3>1. up = "down" /\ UNCHANGED <<handlers, leading>>
        BY <2>2 DEF Restart, leaderVars, electionVars
      <3>2. handlers = {} /\ \A l \in Leader : ~leading[l]
        BY <3>1, StandingFacts DEF OneAtATime, LeadersApart
      <3> QED
        BY <3>1, <3>2
    <2> QED
      BY <2>1, <2>2
  <1>2. CallTerms' /\ BatchesAhead' /\ SnapshotsAhead' /\ LeadersAhead'
    BY <1>1 DEF CallTerms, BatchesAhead, SnapshotsAhead, LeadersAhead
  <1>3. RightTerms'
    <2>1. snapFile' \in {snapFile, Torn} /\ latestSnapshot' \in {latestSnapshot, snapFile}
      BY DEF Crash, Restart, memory, disk
    <2> QED
      BY <2>1 DEF Standing, NothingLost, RightTerms, RightTerm
  <1>4. up' = "up" => metadata'.log = log'
    BY DEF Crash, Restart, disk
  <1>5. FileBehind'
    BY <1>4, FileStaysBehind
  <1> QED
    BY <1>2, <1>3, <1>5 DEF NothingLost

LEMMA KeptStep ==
    ASSUME OneHeartbeatEach, ~Overlap, KeptInv, [Next]_vars
    PROVE  KeptInv'
  <1>1. WholeInv' /\ PlaceInv'
    BY WholeStep, PlaceStep DEF KeptInv
  <1>2. ASSUME Undisturbed' PROVE NothingLost'
    <2>1. Undisturbed
      BY <1>2, UndisturbedBefore DEF KeptInv, WholeInv
    <2>2. Standing
      BY <1>1, <1>2, <2>1 DEF Standing, KeptInv
    <2>3. CASE \E h \in handlers : HandlerStep(h)
      BY <2>2, <2>3, AnswersKeep, GoingOnKeeps, ReplacingKeeps DEF HandlerStep
    <2>4. CASE \/ \E s \in Sender : Round(s)
               \/ \E h \in handlers : CallTimesOut(h)
               \/ \E l \in Leader : Elect(l) \/ Deposed(l)
                                    \/ \E i \in Index : LeaderSnapshot(l, i)
               \/ HearCandidate
               \/ UNCHANGED vars
      BY <2>2, <2>4, CallsKeep
    <2>5. CASE Crash \/ Restart
      BY <2>2, <2>5, DeathKeeps
    <2> QED
      BY <2>3, <2>4, <2>5 DEF Next
  <1> QED
    BY <1>1, <1>2 DEF KeptInv

LEMMA KeptInit ==
    ASSUME OneHeartbeatEach, ~Overlap, Init
    PROVE  KeptInv
  <1>1. /\ TypeInv /\ LeadersApart /\ TransfersApart /\ OneAtATime
        /\ AllStraight /\ InPlace
    BY TypeInit, LeadersApartInit, TransfersApartInit, OneAtATimeInit, PlaceInit
  <1>2. handlers = {} /\ latestSnapshot = NoSnap /\ snapFile = NoSnap
        /\ \A l \in Leader : nextIndex[l] = Len(History)
    BY DEF Init
  <1>3. BufferFits /\ SnapshotsWhole
    BY <1>2 DEF BufferFits, SnapshotsWhole
  <1>4. CallTerms /\ BatchesAhead /\ SnapshotsAhead /\ RightTerms
    BY <1>2 DEF CallTerms, BatchesAhead, SnapshotsAhead, RightTerms, RightTerm
  <1>5. LeadersAhead
    <2> SUFFICES ASSUME NEW l \in Leader PROVE Ahead(l)
      BY DEF LeadersAhead
    <2>1. /\ End \in 0 .. Len(History) /\ Held < Len(History)
          /\ Len(History) \in Nat \ {0}
      BY <1>1, EndFields DEF InPlace
    <2>2. /\ Offer(l) \in 0 .. Len(History) - 1
          /\ NeedsSnapshot(l) <=> nextIndex[l] <= Offer(l)
      BY <1>1, LeaderFields
    <2>3. ~NeedsSnapshot(l)
      BY <1>2, <2>1, <2>2
    <2> QED
      BY <1>2, <2>1, <2>3 DEF Ahead
  <1>6. FileBehind
    <2>1. metadata.log = log
      BY DEF Init, File
    <2>2. log \in Vector /\ latestSnapshot \in AnySnapshot /\ Placed(log, latestSnapshot)
      BY <1>1 DEF TypeInv, MemoryWell, InPlace
    <2> QED
      BY <2>1, <2>2, PlacedBehind DEF FileBehind, End
  <1> QED
    BY <1>1, <1>3, <1>4, <1>5, <1>6 DEF KeptInv, WholeInv, PlaceInv, NothingLost

-----------------------------------------------------------------------------
(* What the follower writes covers what was on its disk.                   *)

\* The metadata file is written while the snapshot file is that of the follower's
\* state.
LEMMA WrittenCovers ==
    ASSUME KeptInv, Undisturbed, up = "up", snapFile = latestSnapshot, Readable,
           snapFile' = snapFile, metadata'.log = log, NEW i \in Index, OnDisk(i)
    PROVE  OnDisk(i)'
  <1>1. /\ TypeInv /\ Placed(log, latestSnapshot) /\ FileBehind
    BY DEF KeptInv, NothingLost, PlaceInv, InPlace, Undisturbed
  <1>2. /\ End = Held + 1 + Len(log) /\ Len(log) \in Nat /\ Held \in Int /\ i \in Int
        /\ baseIndex(latestSnapshot) = Held + 1
    BY <1>1, EndFields, HistoryFacts DEF baseIndex, Held
  <1>3. i <= Held \/ i < End
    BY <1>1 DEF OnDisk, Held, FileBehind
  <1>4. CASE i <= Held
    BY <1>4 DEF OnDisk, Held
  <1>5. CASE Held < i /\ i < End
    <2>1. i - Held \in 1 .. Len(log) /\ baseIndex(latestSnapshot) + (i - Held) - 1 = i
      BY <1>2, <1>5
    <2>2. log[i - Held] = Entry(i)
      BY <1>1, <2>1 DEF Placed
    <2>3. log[i - Held].index = i
      BY <2>2 DEF Entry
    <2> QED
      BY <2>1, <2>3 DEF OnDisk
  <1> QED
    BY <1>2, <1>3, <1>4, <1>5

LEMMA DiskKeeps ==
    ASSUME OneHeartbeatEach, ~Overlap, KeptInv, [Next]_vars, Readable, Readable',
           Undisturbed, NEW i \in Index, OnDisk(i)
    PROVE  OnDisk(i)'
  <1>1. /\ TypeInv /\ OneAtATime /\ InPlace /\ SnapshotsWhole
    BY DEF KeptInv, WholeInv, PlaceInv, Undisturbed
  <1>2. CASE UNCHANGED disk
    BY <1>2 DEF OnDisk, disk
  <1>3. ASSUME up = "up", \A h \in handlers : h.pc # "replace",
               snapFile' = snapFile, metadata' = metadata \/ metadata'.log = log
        PROVE  OnDisk(i)'
    <2>1. snapFile = latestSnapshot
      BY <1>1, <1>3 DEF InPlace, FilesFollow
    <2>2. CASE metadata' = metadata
      BY <1>2, <1>3, <2>2 DEF disk
    <2> QED
      BY <1>3, <2>1, <2>2, WrittenCovers
  <1>4. CASE HearCandidate
    <2>1. /\ up = "up" /\ Serial /\ snapFile' = snapFile
          /\ \E l \in Leader : HearTerm(elected[l])
      BY <1>4 DEF HearCandidate
    <2>2. \A h \in handlers : h.pc # "replace"
      BY <2>1, SerialQuiet DEF Busy
    <2> QED
      BY <1>3, <2>1, <2>2, HearTermWrites
  <1>5. CASE \E h \in handlers : ReceiveChunk(h)
    <2>1. PICK h \in handlers : ReceiveChunk(h)
      BY <1>5
    <2>2. up = "up" /\ Serial /\ snapFile' = snapFile /\ HearTerm(h.msg.term)
      BY <2>1 DEF ReceiveChunk
    <2>3. \A g \in handlers : g.pc # "replace"
      BY <2>2, SerialQuiet DEF Busy
    <2> QED
      BY <1>3, <2>2, <2>3, HearTermWrites
  <1>6. CASE \E h \in handlers : Persist(h) \/ PersistAndApply(h)
    <2>1. PICK h \in handlers : Persist(h) \/ PersistAndApply(h)
      BY <1>6
    <2>2. /\ up = "up" /\ snapFile' = snapFile /\ metadata' = File
          /\ h.pc \in {"persist", "log"}
      BY <2>1 DEF Persist, PersistAndApply
    <2>3. \A g \in handlers : g.pc # "replace"
      BY <1>1, <2>2 DEF OneAtATime, Busy
    <2>4. metadata'.log = log
      BY <2>2 DEF File
    <2> QED
      BY <1>3, <2>2, <2>3, <2>4
  <1>7. CASE \E h \in handlers : SaveSnapshot(h)
    <2>1. PICK h \in handlers : SaveSnapshot(h)
      BY <1>7
    <2>2. h.msg.kind = "snapshot" => Whole(snapshotBuffer)
      BY <1>1, <2>1 DEF SaveSnapshot, SnapshotsWhole
    <2>3. UNCHANGED <<history, lost, metadata>>
      BY <2>1, <2>2 DEF SaveSnapshot, KeepLeaders
    <2>4. Standing
      <3>1. Undisturbed'
        BY <2>3 DEF Undisturbed, history
      <3>2. KeptInv'
        BY KeptStep
      <3> QED
        BY <3>1, <3>2 DEF Standing, KeptInv
    <2>5. snapFile.lastIncludedIndex <= snapFile'.lastIncludedIndex
      BY <2>1, <2>4, SaveSnapshotCalm
    <2>6. /\ snapFile.lastIncludedIndex \in Int /\ snapFile'.lastIncludedIndex \in Int
          /\ i \in Int
      <3>1. snapFile \in AnySnapshot /\ snapFile' \in AnySnapshot
        BY <2>4, StandingFacts DEF Readable, TypeInv, DiskWell
      <3>2. i \in Int
        BY HistoryFacts
      <3> QED
        BY <3>1, <3>2, AnySnapshotFields
    <2> QED
      BY <2>3, <2>5, <2>6 DEF OnDisk
  <1>8. CASE Crash
    <2>1. metadata' \in {metadata, Torn} /\ snapFile' \in {snapFile, Torn}
      BY <1>8 DEF Crash
    <2>2. UNCHANGED disk
      BY <2>1 DEF Readable, disk
    <2> QED
      BY <1>2, <2>2
  <1>9. CASE \/ \E s \in Sender : Round(s)
             \/ \E h \in handlers : CallTimesOut(h)
             \/ \E l \in Leader : Elect(l) \/ Deposed(l)
                                  \/ \E j \in Index : LeaderSnapshot(l, j)
             \/ Restart
             \/ \E h \in handlers : Refuse(h) \/ Install(h) \/ Truncate(h)
                                    \/ ReceiveEntries(h) \/ Stick(h)
             \/ UNCHANGED vars
    <2>1. UNCHANGED disk
      BY <1>9 DEF Round, CallTimesOut, Elect, Deposed, LeaderSnapshot, Restart, Refuse,
                  Install, Truncate, ReceiveEntries, Stick, vars
    <2> QED
      BY <1>2, <2>1
  <1> QED
    BY <1>4, <1>5, <1>6, <1>7, <1>8, <1>9 DEF Next, HandlerStep

\* With one handler of the follower at a time and one heartbeat thread per leader,
\* an entry that is on the follower's disk stays there or is covered by the
\* snapshot on it, over any number of elections, snapshots, lost calls and
\* restarts, as long as nothing has misled a leader.
THEOREM EntriesStayOnDisk ==
    ASSUME OneHeartbeatEach, ~Overlap
    PROVE  Spec => KeptOnDisk
  <1>1. Init => KeptInv
    BY KeptInit
  <1>2. KeptInv /\ [Next]_vars => KeptInv'
    BY KeptStep
  <1>3. KeptInv /\ [Next]_vars =>
           [/\ Readable /\ Readable' /\ ~astray' /\ ~torn /\ ~stale
            /\ lost = 0 \/ ~compacted
            => \A i \in Index : OnDisk(i) => OnDisk(i)']_vars
    <2> SUFFICES ASSUME KeptInv, [Next]_vars, Readable, Readable', ~astray', ~torn,
                        ~stale, lost = 0 \/ ~compacted, NEW i \in Index, OnDisk(i)
                 PROVE  OnDisk(i)'
      OBVIOUS
    <2>1. ~astray
      BY RecordsStay DEF KeptInv, WholeInv
    <2> QED
      BY <2>1, DiskKeeps DEF Undisturbed
  <1> QED
    BY <1>1, <1>2, <1>3, PTL DEF Spec, KeptOnDisk
=============================================================================
