----------------------------- MODULE MCKVStore -----------------------------
(* The store with few texts, for TLC.                                      *)
EXTENDS KVStore, SequencesExt

CONSTANTS a, b, v, w

Chars == {a, b, v, w, Eq}
PlainKeys == {<<a>>, <<a, b>>}
KeysWithEq == {<<a>>, <<a, Eq, b>>}
\* Values may contain the separator.
Values == {<<v>>, <<Eq, w>>}

\* Recovery as the loop of the constructor: one record after the other.
ApplyRecord(m, e) == [k \in Key |-> IF k = keyOf(e.record)
                                   THEN valueOf(e.record) ELSE m[k]]

\* The closed form of Replay is the outcome of the constructor's loop, and that
\* of Newer the outcome of truncateUpTo's: records never get out of order.
ReplayIsLoop ==
    /\ Replay(wal) = FoldLeft(ApplyRecord, [k \in Key |-> None], wal)
    /\ \A i \in 0 .. MaxIndex :
          LET After(e) == e.index > i
          IN  Newer(wal, i) = SelectSeq(wal, After)
=============================================================================
