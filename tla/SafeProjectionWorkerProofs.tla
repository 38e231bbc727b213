--------------------- MODULE SafeProjectionWorkerProofs ---------------------
(***************************************************************************)
(* Proofs about the validation of safe factual projections.                *)
(***************************************************************************)
EXTENDS SafeProjectionWorker, TLAPS

\* attempt_count in every status.  _claim does not look at it: that a RETRY row has
\* attempts left is what bounds the claims.
AttemptsInv ==
    \A p \in Projections :
        LET row == projection[p] IN
        /\ row.status \in {"absent", "pending"} => row.attempts = 0
        /\ row.status = "retry" => row.attempts < MaxAttempts
        /\ row.attempts <= MaxAttempts

Inv == TypeOK /\ AttemptsInv /\ VerdictIsSound

\* What holds of one row, in any state.
RowInv(row) ==
    /\ row \in Row
    /\ row.status \in {"absent", "pending"} => row.attempts = 0
    /\ row.status = "retry" => row.attempts < MaxAttempts
    /\ row.attempts <= MaxAttempts
    /\ row.status = "ready" => row.valid
    /\ row.status = "blocked" /\ row.valid => row.attempts = MaxAttempts

\* The legal moves of one row, as the abstract specification sees them.
RowStep(old, new) ==
    \/ new.status = old.status /\ new.attempts = old.attempts
    \/ old.status = "absent" /\ new.status = "pending" /\ new.attempts = old.attempts
    \/ /\ old.status \in {"pending", "retry"} /\ new.status = "validating"
       /\ old.attempts < MaxAttempts /\ new.attempts = old.attempts + 1
    \/ /\ old.status = "validating" /\ new.status = "retry"
       /\ old.attempts < MaxAttempts /\ new.attempts = old.attempts
    \/ /\ old.status = "validating" /\ new.status \in {"ready", "blocked"}
       /\ new.attempts = old.attempts

Rows == projection \in [Projections -> Row] /\ \A p \in Projections : RowInv(projection[p])

\* The invariant, row by row.
LEMMA InvByRow == Inv <=> Rows /\ batch \in [Workers -> Batch] /\ crashes \in Nat
  BY WorkerAssumption DEF Inv, Rows, RowInv, TypeOK, AttemptsInv, VerdictIsSound, Row

\* The clock changes nothing but the age.
LEMMA AgeStep ==
  ASSUME NEW row \in Row, RowInv(row)
  PROVE  LET new == [row EXCEPT !.age = Older(@)] IN RowInv(new) /\ RowStep(row, new)
  BY WorkerAssumption DEF RowInv, RowStep, Row, Older, OldAge, ProcessingStatus

\* A stale claim is put back only with attempts left, and given up only without.
LEMMA RecoveredStep ==
  ASSUME NEW row \in Row, NEW age \in Nat, RowInv(row), row.status = "validating"
  PROVE  RowInv(Recovered(row, age)) /\ RowStep(row, Recovered(row, age))
<1>1. row \in Row /\ row.attempts \in Nat /\ row.attempts <= MaxAttempts /\ MaxAttempts \in Nat
  BY WorkerAssumption DEF RowInv, Row
<1>2. CASE row.attempts >= MaxAttempts
  <2>1. Recovered(row, age) = [row EXCEPT !.status = "blocked", !.age = 0]
    BY <1>2 DEF Recovered
  <2>2. "blocked" \in ProcessingStatus /\ 0 \in Nat
    BY DEF ProcessingStatus
  <2>3. Recovered(row, age) \in Row
    BY <2>1, <2>2, Zenon DEF Row
  <2>4. LET new == Recovered(row, age) IN
        new.status = "blocked" /\ new.attempts = row.attempts /\ new.valid = row.valid
    BY <2>1 DEF Row
  <2>. QED
    BY <1>1, <1>2, <2>3, <2>4 DEF RowInv, RowStep
<1>3. CASE ~(row.attempts >= MaxAttempts)
  <2>1. Recovered(row, age) = [row EXCEPT !.status = "retry", !.age = age]
    BY <1>3 DEF Recovered
  <2>2. "retry" \in ProcessingStatus /\ 0 \in Nat
    BY DEF ProcessingStatus
  <2>3. Recovered(row, age) \in Row
    BY <2>1, <2>2, Zenon DEF Row
  <2>4. LET new == Recovered(row, age) IN
        new.status = "retry" /\ new.attempts = row.attempts /\ new.valid = row.valid
    BY <2>1 DEF Row
  <2>. QED
    BY <1>1, <1>3, <2>3, <2>4 DEF RowInv, RowStep
<1>. QED
  BY <1>2, <1>3

\* A claimed row had an attempt left.
LEMMA ClaimedStep ==
  ASSUME NEW row \in Row, NEW age \in Nat, RowInv(row), row.status \in {"pending", "retry"}
  PROVE  RowInv(Claimed(row, age)) /\ RowStep(row, Claimed(row, age))
<1>1. row \in Row /\ row.attempts \in Nat /\ row.attempts < MaxAttempts /\ MaxAttempts \in Nat
  BY WorkerAssumption DEF RowInv, Row
<1>2. "validating" \in ProcessingStatus /\ row.attempts + 1 \in Nat
  BY <1>1 DEF ProcessingStatus
<1>3. Claimed(row, age) \in Row
  BY <1>2, Zenon DEF Claimed, Row
<1>4. Claimed(row, age).status = "validating" /\ Claimed(row, age).attempts = row.attempts + 1
  BY DEF Claimed, Row
<1>. QED
  BY <1>1, <1>3, <1>4 DEF RowInv, RowStep

\* A verdict follows the payload, and only a VALIDATING row gets one.
LEMMA ValidatedStep ==
  ASSUME NEW row \in Row, RowInv(row)
  PROVE  RowInv(Validated(row)) /\ RowStep(row, Validated(row))
  BY WorkerAssumption DEF RowInv, RowStep, Row, Validated, ProcessingStatus

\* Every step moves every row legally and keeps the batches well-formed.
LEMMA NextByRow ==
  ASSUME Inv, [Next]_vars
  PROVE  /\ Inv'
         /\ \A p \in Projections : RowStep(projection[p], projection'[p])
<1> USE DEF Batch, BeforeClaim
<1> DEFINE Moved == projection' \in [Projections -> Row] /\
                    \A p \in Projections : RowInv(projection'[p]) /\ RowStep(projection[p], projection'[p])
<1>1. Rows /\ batch \in [Workers -> Batch] /\ crashes \in Nat
  BY InvByRow
<1>2. SUFFICES Moved /\ batch' \in [Workers -> Batch] /\ crashes' \in Nat
  BY WorkerAssumption DEF Inv, RowInv, TypeOK, AttemptsInv, VerdictIsSound, Row
<1>3. ASSUME UNCHANGED projection PROVE Moved
  BY <1>1, <1>3 DEF Rows, RowStep
<1>4. NoBatch \in Batch
  BY DEF NoBatch
<1>5. ASSUME NEW p \in Projections, NEW valid \in BOOLEAN, Insert(p, valid)
      PROVE  Moved /\ batch' \in [Workers -> Batch] /\ crashes' \in Nat
  <2>1. RowInv(projection'[p]) /\ RowStep(projection[p], projection'[p])
    BY <1>1, <1>5, WorkerAssumption DEF Insert, Rows, RowInv, RowStep, Row, NoRow, ProcessingStatus
  <2>2. \A q \in Projections \ {p} : projection'[q] = projection[q]
    BY <1>1, <1>5 DEF Insert, Rows
  <2>3. projection' \in [Projections -> Row]
    BY <1>1, <1>5 DEF Insert, Rows, Row, NoRow, ProcessingStatus
  <2>. QED
    BY <1>1, <1>5, <2>1, <2>2, <2>3 DEF Insert, Rows, RowStep
<1>6. ASSUME Tick
      PROVE  Moved /\ batch' \in [Workers -> Batch] /\ crashes' \in Nat
  <2>1. \A p \in Projections : RowInv(projection'[p]) /\ RowStep(projection[p], projection'[p])
    BY <1>1, <1>6, AgeStep DEF Tick, Rows, RowStep
  <2>2. projection' \in [Projections -> Row]
    BY <1>6, <2>1 DEF Tick, RowInv
  <2>3. \A w \in Workers : batch'[w] \in Batch
    BY <1>1, <1>6 DEF Tick
  <2>4. batch' \in [Workers -> Batch]
    BY <1>6, <2>3 DEF Tick
  <2>. QED
    BY <1>1, <1>6, <2>1, <2>2, <2>4 DEF Tick
<1>7. ASSUME NEW w \in Workers, StartBatch(w)
      PROVE  Moved /\ batch' \in [Workers -> Batch] /\ crashes' \in Nat
  BY <1>1, <1>3, <1>7 DEF StartBatch, NoBatch
<1>8. ASSUME NEW w \in Workers, RecoverStale(w)
      PROVE  Moved /\ batch' \in [Workers -> Batch] /\ crashes' \in Nat
  <2>1. PICK page \in SUBSET StaleRows(w) :
          projection' = [p \in Projections |->
                           IF p \in page THEN Recovered(projection[p], batch[w].age) ELSE projection[p]]
    BY <1>8 DEF RecoverStale, Page
  <2>2. \A p \in page : projection[p].status = "validating"
    BY <2>1 DEF StaleRows, InStatus
  <2>3. batch[w].age \in Nat
    BY <1>1
  <2>4. \A p \in Projections : RowInv(projection'[p]) /\ RowStep(projection[p], projection'[p])
    BY <1>1, <2>1, <2>2, <2>3, RecoveredStep DEF Rows, RowStep
  <2>5. projection' \in [Projections -> Row]
    BY <2>1, <2>4 DEF RowInv
  <2>. QED
    BY <1>1, <1>8, <2>4, <2>5 DEF RecoverStale
<1>9. ASSUME NEW w \in Workers, Claim(w)
      PROVE  Moved /\ batch' \in [Workers -> Batch] /\ crashes' \in Nat
  <2>1. PICK page \in SUBSET ClaimableRows(w) :
          /\ projection' = [p \in Projections |->
                              IF p \in page THEN Claimed(projection[p], batch[w].age) ELSE projection[p]]
          /\ batch' = [batch EXCEPT ![w] =
                         IF page = {} THEN NoBatch
                         ELSE [pc |-> "validate", age |-> 0, claimed |-> page]]
    BY <1>9 DEF Claim, Page
  <2>2. page \subseteq Projections /\ \A p \in page : projection[p].status \in {"pending", "retry"}
    BY <2>1 DEF ClaimableRows, InStatus
  <2>3. batch[w].age \in Nat
    BY <1>1
  <2>4. \A p \in Projections : RowInv(projection'[p]) /\ RowStep(projection[p], projection'[p])
    BY <1>1, <2>1, <2>2, <2>3, ClaimedStep DEF Rows, RowStep
  <2>5. projection' \in [Projections -> Row]
    BY <2>1, <2>4 DEF RowInv
  <2>6. batch' \in [Workers -> Batch]
    BY <1>1, <1>4, <2>1, <2>2
  <2>. QED
    BY <1>1, <1>9, <2>4, <2>5, <2>6 DEF Claim
<1>10. ASSUME NEW w \in Workers, NEW p \in batch[w].claimed, ValidateOne(w, p)
       PROVE  Moved /\ batch' \in [Workers -> Batch] /\ crashes' \in Nat
  <2>1. p \in Projections
    BY <1>1
  <2>2. RowInv(projection'[p]) /\ RowStep(projection[p], projection'[p])
    BY <1>1, <1>10, <2>1, ValidatedStep DEF ValidateOne, Rows
  <2>3. \A q \in Projections \ {p} : projection'[q] = projection[q]
    BY <1>1, <1>10 DEF ValidateOne, Rows
  <2>4. projection' \in [Projections -> Row]
    BY <1>1, <1>10, <2>1, <2>2 DEF ValidateOne, Rows, RowInv
  <2>5. batch' \in [Workers -> Batch]
    BY <1>1, <1>4, <1>10 DEF ValidateOne
  <2>. QED
    BY <1>1, <1>10, <2>2, <2>3, <2>4, <2>5 DEF ValidateOne, Rows, RowStep
<1>11. ASSUME NEW w \in Workers, Crash(w)
       PROVE  Moved /\ batch' \in [Workers -> Batch] /\ crashes' \in Nat
  BY <1>1, <1>3, <1>4, <1>11 DEF Crash
<1>12. CASE UNCHANGED vars
  BY <1>1, <1>3, <1>12 DEF vars
<1>. QED
  BY <1>5, <1>6, <1>7, <1>8, <1>9, <1>10, <1>11, <1>12 DEF Next, ProcessBatch

\* The initial state satisfies the invariant.
LEMMA InitInv == Init => Inv
  BY WorkerAssumption
  DEF Init, Inv, TypeOK, AttemptsInv, VerdictIsSound, Row, NoRow, Batch, NoBatch, ProcessingStatus

\* Inv is an invariant of the worker: the bound on attempts, by status, is what makes
\* the soundness of the verdicts inductive.
THEOREM Invariance == Spec => []Inv
  BY InitInv, NextByRow, PTL DEF Spec

\* Rows and batches keep their types whatever the number of rows and processes.
THEOREM TypeCorrect == Spec => []TypeOK
  BY Invariance, PTL DEF Inv

\* A valid projection is BLOCKED only after all its attempts, an invalid one is never
\* READY: the verdicts of _validate_one and _recover_stale under any interleaving.
THEOREM VerdictsAreSound == Spec => []VerdictIsSound
  BY Invariance, PTL DEF Inv

\* process_batch implements bounded work: every transaction moves every row by a legal
\* step or not at all.
THEOREM Refinement == Spec => ImplementsBoundedWork
<1>1. Init => Work!Init
  BY DEF Init, Work!Init, NoRow
<1>2. Inv /\ [Next]_vars => [Work!Next]_(Work!vars)
  <2> SUFFICES ASSUME Inv, [Next]_vars PROVE Work!Next
    OBVIOUS
  <2>1. Inv' /\ \A p \in Projections : RowStep(projection[p], projection'[p])
    BY NextByRow
  <2>2. \A p \in Projections : projection[p] \in Row /\ projection'[p] \in Row
    BY <2>1 DEF Inv, TypeOK
  <2>3. \A p \in Projections :
          \/ Work!Arrive(p) \/ Work!Take(p) \/ Work!PutBack(p)
          \/ Work!Finish(p) \/ Work!GiveUp(p) \/ Work!Stays(p)
    BY <2>1, <2>2 DEF RowStep, Row, ProcessingStatus, Work!Arrive, Work!Take, Work!PutBack,
       Work!Finish, Work!GiveUp, Work!Stays, Work!Moves, Work!Keeps
  <2>. QED
    BY <2>2, <2>3 DEF Work!Next, Work!States, Row, ProcessingStatus
<1>. QED
  BY <1>1, <1>2, Invariance, PTL DEF Spec, ImplementsBoundedWork, Work!Spec

=============================================================================
