--------------------------- MODULE WorkRowsProofs ---------------------------
(***************************************************************************)
(* Facts about the rows of WorkRows, and about counting, for the proofs    *)
(* about the components that queue work.                                   *)
(***************************************************************************)
EXTENDS WorkRows, FiniteSetTheorems, TLAPS

\* What the runner does to a row keeps it a row.
LEMMA RowsTyped ==
  ASSUME NEW max \in Nat, NEW r \in Rows(max)
  PROVE  /\ Absent \in Rows(max) /\ Queued \in Rows(max)
         /\ CanClaim(r, max) => /\ Claimed(r) \in Rows(max)
                                /\ r.attempts + 1 \in 1..max
         /\ Lapsed(r) \in Rows(max) /\ Completed(r) \in Rows(max)
         /\ GivenBack(r, max) \in Rows(max) /\ Buried(r) \in Rows(max)
<1>1. Absent \in Rows(max) /\ Queued \in Rows(max)
  BY DEF Absent, Queued, Row, Columns, Rows
<1>2. CanClaim(r, max) => r.attempts + 1 \in 1..max
  BY DEF CanClaim, Rows
<1>3. CanClaim(r, max) => Claimed(r) \in Rows(max)
  BY <1>2 DEF Claimed, Columns, Rows
<1>4. Lapsed(r) \in Rows(max) /\ Buried(r) \in Rows(max)
  BY DEF Lapsed, Buried, Rows
<1>5. Completed(r) \in Rows(max)
  BY DEF Completed, Columns, Rows
<1>6. GivenBack(r, max) \in Rows(max)
  BY DEF GivenBack, Columns, Rows
<1> QED BY <1>1, <1>2, <1>3, <1>4, <1>5, <1>6

\* A set whose members are all the same counts one at most.
LEMMA AtMostOne ==
  ASSUME NEW S, \A x, y \in S : x = y
  PROVE  IsFiniteSet(S) /\ Cardinality(S) <= 1
<1>1. CASE S = {}
  BY <1>1, FS_EmptySet
<1>2. CASE S # {}
  <2>1. PICK x : S = {x}
    BY <1>2
  <2>2. IsFiniteSet({x}) /\ Cardinality({x}) = 1
    BY FS_Singleton
  <2> QED BY <2>1, <2>2
<1> QED BY <1>1, <1>2

\* The lease is of an attempt that was counted, and a row nobody queued was never claimed.
RowSound(r) ==
  /\ r.live <= r.attempts
  /\ r.stage = "running" => r.attempts > 0
  /\ r.stage = "absent" => r.attempts = 0

LEMMA RowsSound ==
  ASSUME NEW max \in Nat, NEW r \in Rows(max), RowSound(r)
  PROVE  /\ RowSound(Absent) /\ RowSound(Queued) /\ RowSound(Row("deleted"))
         /\ CanClaim(r, max) => RowSound(Claimed(r))
         /\ RowSound(Lapsed(r)) /\ RowSound(Completed(r)) /\ RowSound(Buried(r))
         /\ RowSound(GivenBack(r, max))
<1>1. RowSound(Absent) /\ RowSound(Queued) /\ RowSound(Row("deleted"))
  BY DEF RowSound, Absent, Queued, Row, Columns
<1>2. r.attempts \in Nat /\ r.live \in Nat
  BY DEF Rows
<1>3. CanClaim(r, max) => RowSound(Claimed(r))
  BY <1>2 DEF RowSound, CanClaim, Claimed, Columns
<1>4. RowSound(Completed(r)) /\ RowSound(GivenBack(r, max))
  BY <1>2 DEF RowSound, Completed, GivenBack, Columns
<1>5. RowSound(Lapsed(r)) /\ RowSound(Buried(r))
  BY <1>2 DEF RowSound, Lapsed, Buried, Rows
<1> QED BY <1>1, <1>3, <1>4, <1>5
=============================================================================
