------------------------- MODULE IntegrationProofs -------------------------
(***************************************************************************)
(* Proofs about Integration: types, that an error of an attempt with its   *)
(* claim is shown only while a job is still to write again, and that       *)
(* webhook secrets are kept.                                               *)
(***************************************************************************)
EXTENDS Integration, TLAPS

\* A call of Save that is about to write has a key, and jobs are of saved rows.
FromOwners ==
    /\ \A c \in Savers : saver[c].pc = "writing" => saver[c].key \in Keys
    /\ \A j \in Jobs : job[j].pc # "none" => Configured
    /\ \A i \in Losses : stray[i].pc # "none" => Configured

\* Some unfinished job has not yet written its success, or the error is a late one.
StillToWrite == row.status = "error" => late \/ \E j \in Jobs : Open(j) /\ job[j].pc # "finished"

IInv == TypeOK /\ FromOwners /\ StillToWrite

-----------------------------------------------------------------------------
\* Nothing is configured at first.
LEMMA InitIInv == Init => IInv
  <1> SUFFICES ASSUME Init PROVE IInv
    OBVIOUS
  <1>1. NoAttempt \in Attempt /\ NoAttempt.pc = "none" /\ NoSave \in Save /\ NoSave.pc = "idle"
    BY DEF NoAttempt, Attempt, NoSave, Save
  <1>2. \A j \in Jobs : job[j] = NoAttempt
    BY DEF Init
  <1>3. \A i \in Losses : stray[i] = NoAttempt
    BY DEF Init
  <1>4. /\ row \in Row /\ row.status = "none" /\ row.key \notin Keys
        /\ used \in [saves : 0 .. MaxSaves, failures : 0 .. MaxFailures, losses : 0 .. MaxLosses]
    BY IntegrationAssumption DEF Init, Row
  <1>5. TypeOK
    BY <1>1, <1>2, <1>3, <1>4 DEF Init, TypeOK, Running, Open
  <1>6. FromOwners /\ StillToWrite
    BY <1>1, <1>2, <1>3, <1>4 DEF Init, FromOwners, StillToWrite
  <1> QED
    BY <1>5, <1>6 DEF IInv

\* What calls of Save do before and after their statement does not touch the row.
LEMMA SaverStep ==
    ASSUME IInv, NEW c \in Savers, NEW t \in Save,
           t.pc = "writing" => t.key \in Keys,
           saver' = [saver EXCEPT ![c] = t],
           used' \in [saves : 0 .. MaxSaves, failures : 0 .. MaxFailures, losses : 0 .. MaxLosses],
           UNCHANGED <<provider, valid, row, job, stray, late>>
    PROVE  IInv'
  <1>1. TypeOK'
    BY DEF IInv, TypeOK, Running, Open
  <1>2. FromOwners'
    BY DEF IInv, TypeOK, FromOwners, Configured
  <1>3. StillToWrite'
    BY DEF IInv, StillToWrite, Open
  <1> QED
    BY <1>1, <1>2, <1>3 DEF IInv

\* The statement of Save leaves a row with a key and no error.
LEMMA WriteStep == ASSUME IInv, NEW c \in Savers, Write(c) PROVE IInv'
  <1>1. saver[c].key \in Keys /\ saver[c].secret \in BOOLEAN /\ row.secret \in BOOLEAN
    BY DEF IInv, TypeOK, FromOwners, Write, Save, Row
  <1>2. row' \in Row /\ row'.key \in Keys /\ row'.status = "active"
    BY <1>1 DEF Write, Row, KeptSecret
  <1>3. NoSave \in Save /\ saver' = [saver EXCEPT ![c] = NoSave]
    BY DEF NoSave, Save, Write
  <1>4. TypeOK'
    BY <1>2, <1>3 DEF IInv, TypeOK, Write, Running, Open
  <1>5. FromOwners'
    BY <1>2, <1>3 DEF IInv, TypeOK, FromOwners, Write, Configured, NoSave
  <1>6. StillToWrite'
    BY <1>2 DEF StillToWrite
  <1> QED
    BY <1>4, <1>5, <1>6 DEF IInv

\* A step of a job that leaves the row alone, and its job open and unfinished or
\* no error to be shown.
LEMMA JobStep ==
    ASSUME IInv, NEW j \in Jobs, NEW t \in Attempt,
           job' = [job EXCEPT ![j] = t],
           t.pc # "none", Configured,
           t.pc \notin {"due", "done"} => t.key \in Keys,
           t.pc \in {"finished", "done"} => job[j].pc \in {"finished", "done"},
           used' \in [saves : 0 .. MaxSaves, failures : 0 .. MaxFailures, losses : 0 .. MaxLosses],
           UNCHANGED <<provider, valid, row, saver, stray, late>>
    PROVE  IInv'
  <1>1. TypeOK'
    BY DEF IInv, TypeOK, Running, Open
  <1>2. FromOwners'
    BY DEF IInv, TypeOK, FromOwners, Configured
  <1>3. StillToWrite'
    BY DEF IInv, TypeOK, StillToWrite, Open
  <1> QED
    BY <1>1, <1>2, <1>3 DEF IInv

\* The writes of the status: an error by a job that is due again, or a success.
LEMMA StatusStep == ASSUME IInv, NEW j \in Jobs, RecordError(j) \/ Finish(j) PROVE IInv'
  <1>1. Configured /\ job[j].key \in Keys /\ row.key \in Keys
    BY DEF IInv, TypeOK, FromOwners, Running, Open, RecordError, Finish, Configured
  <1>2. /\ row' \in Row /\ row'.key = row.key
        /\ row'.status = (IF job[j].pc = "failed" THEN "error" ELSE "active")
    BY DEF IInv, TypeOK, Row, RecordError, Finish, SyncedRow, FailedRow
  <1>3. job' = [job EXCEPT ![j].pc = IF job[j].pc = "failed" THEN "recorded" ELSE "finished"]
    BY DEF RecordError, Finish, Step
  <1>4. /\ job' \in [Jobs -> Attempt]
        /\ \A i \in Jobs \ {j} : job'[i] = job[i]
        /\ job'[j].key = job[j].key
        /\ job'[j].pc = IF job[j].pc = "failed" THEN "recorded" ELSE "finished"
    BY <1>3 DEF IInv, TypeOK, Attempt
  <1>5. TypeOK'
    BY <1>1, <1>2, <1>4 DEF IInv, TypeOK, Running, Open, RecordError, Finish
  <1>6. FromOwners'
    BY <1>2 DEF IInv, FromOwners, Configured, RecordError, Finish
  <1>7. StillToWrite'
    BY <1>2, <1>4 DEF StillToWrite, Open
  <1> QED
    BY <1>5, <1>6, <1>7 DEF IInv

\* An attempt that goes on without its claim, up to the write of its status.
LEMMA StrayStep ==
    ASSUME IInv, NEW i \in Losses, NEW t \in Attempt,
           stray' = [stray EXCEPT ![i] = t],
           t.pc # "none" => t.key \in Keys /\ Configured,
           UNCHANGED <<provider, valid, row, saver, job, late, used>>
    PROVE  IInv'
  <1>1. TypeOK'
    BY DEF IInv, TypeOK, Running, Open
  <1>2. FromOwners'
    BY DEF IInv, TypeOK, FromOwners, Configured
  <1>3. StillToWrite'
    BY DEF IInv, StillToWrite, Open
  <1> QED
    BY <1>1, <1>2, <1>3 DEF IInv

\* Its write is a late one.
LEMMA StrayWritesStep == ASSUME IInv, NEW i \in Losses, StrayWrites(i) PROVE IInv'
  <1>1. Configured /\ row.key \in Keys
    BY DEF IInv, TypeOK, FromOwners, StrayWrites, Configured
  <1>2. row' \in Row /\ row'.key = row.key /\ row'.status \in {"active", "error"}
    BY DEF IInv, TypeOK, Row, StrayWrites, SyncedRow, FailedRow
  <1>3. NoAttempt \in Attempt /\ NoAttempt.pc = "none"
        /\ stray' = [stray EXCEPT ![i] = NoAttempt]
    BY DEF NoAttempt, Attempt, StrayWrites
  <1>4. TypeOK'
    BY <1>1, <1>2, <1>3 DEF IInv, TypeOK, StrayWrites, Running, Open
  <1>5. FromOwners'
    BY <1>2, <1>3 DEF IInv, TypeOK, FromOwners, Configured, StrayWrites
  <1>6. StillToWrite'
    BY DEF StillToWrite, StrayWrites
  <1> QED
    BY <1>4, <1>5, <1>6 DEF IInv

\* The job of an attempt that loses its claim is due again.
LEMMA CutStep == ASSUME IInv, NEW j \in Jobs, Cut(j) PROVE IInv'
  <1>1. Configured /\ job[j].key \in Keys /\ job[j] \in Attempt /\ Open(j)
    BY DEF IInv, TypeOK, FromOwners, Running, Open, Cut
  <1>2. /\ used.losses + 1 \in Losses
        /\ used' \in [saves : 0 .. MaxSaves, failures : 0 .. MaxFailures, losses : 0 .. MaxLosses]
    BY IntegrationAssumption DEF IInv, TypeOK, Cut, Losses
  <1>3. [job[j] EXCEPT !.pc = "due"] \in Attempt
    BY <1>1 DEF Attempt
  <1>4. /\ job' \in [Jobs -> Attempt] /\ \A i \in Jobs \ {j} : job'[i] = job[i]
        /\ job'[j].pc = "due"
    BY <1>1, <1>3 DEF IInv, TypeOK, Cut, Step, Attempt
  <1>5. /\ stray' \in [Losses -> Attempt]
        /\ \A i \in Losses : stray'[i] = stray[i] \/ stray'[i] = job[j]
    BY <1>1, <1>2 DEF IInv, TypeOK, Cut
  <1>6. TypeOK'
    BY <1>1, <1>2, <1>4, <1>5 DEF IInv, TypeOK, Cut, Running, Open
  <1>7. FromOwners'
    BY <1>1, <1>4, <1>5 DEF IInv, FromOwners, Cut, Configured
  <1>8. StillToWrite'
    BY <1>4 DEF IInv, StillToWrite, Cut, Open
  <1> QED
    BY <1>6, <1>7, <1>8 DEF IInv

\* Every action, and the stutter, keeps the invariant.
LEMMA NextIInv == IInv /\ [Next]_vars => IInv'
  <1> SUFFICES ASSUME IInv, [Next]_vars PROVE IInv'
    OBVIOUS
  <1>0. /\ used.saves < MaxSaves => used.saves + 1 \in 0 .. MaxSaves
        /\ used.failures < MaxFailures => used.failures + 1 \in 0 .. MaxFailures
        /\ used.losses < MaxLosses => used.losses + 1 \in 0 .. MaxLosses
        /\ used \in [saves : 0 .. MaxSaves, failures : 0 .. MaxFailures, losses : 0 .. MaxLosses]
        /\ job \in [Jobs -> Attempt]
    BY IntegrationAssumption DEF IInv, TypeOK
  <1>1. ASSUME NEW k \in Keys, Revoke(k) PROVE IInv'
    BY <1>1 DEF IInv, TypeOK, FromOwners, StillToWrite, Revoke, Running, Open, Configured
  <1>2. ASSUME NEW c \in Savers, NEW k \in Keys, NEW secret \in BOOLEAN, Check(c, k, secret)
        PROVE  IInv'
    <2>1. [pc |-> "writing", key |-> k, secret |-> secret] \in Save
      BY DEF Save
    <2> QED
      BY <1>0, <1>2, <2>1, SaverStep DEF Check
  <1>3. ASSUME NEW c \in Savers, Write(c) PROVE IInv'
    BY <1>3, WriteStep
  <1>4. ASSUME NEW c \in Savers, GiveUp(c) PROVE IInv'
    <2>1. NoSave \in Save /\ NoSave.pc # "writing"
      BY DEF NoSave, Save
    <2> QED
      BY <1>0, <1>4, <2>1, SaverStep DEF GiveUp
  <1>5. ASSUME NEW j \in Jobs, Enqueue(j) PROVE IInv'
    <2>1. [job[j] EXCEPT !.pc = "due"] \in Attempt
      BY <1>0 DEF Attempt
    <2> QED
      BY <1>0, <1>5, <2>1, JobStep DEF Enqueue, Step, Attempt
  <1>6. ASSUME NEW j \in Jobs, Load(j) PROVE IInv'
    <2>1. Configured /\ row.key \in Keys
      BY <1>6 DEF Load, IInv, TypeOK, FromOwners, Configured
    <2>2. [pc |-> "loaded", key |-> row.key] \in Attempt
      BY <2>1 DEF Attempt
    <2> QED
      BY <1>0, <1>6, <2>1, <2>2, JobStep DEF Load
  <1>7. ASSUME NEW j \in Jobs, Attempted(j) \/ Close(j) \/ Lose(j) PROVE IInv'
    <2>1. Configured /\ job[j].key \in Keys
      BY <1>7 DEF IInv, TypeOK, FromOwners, Running, Open, Attempted, Succeed, Refuse, Fail,
                  Close, Lose
    <2>2. PICK pc \in {"due", "synced", "failed", "done"} :
            /\ job' = [job EXCEPT ![j].pc = pc]
            /\ pc = "done" => job[j].pc = "finished"
      BY <1>7 DEF Attempted, Succeed, Refuse, Fail, Close, Lose, Step
    <2>3. [job[j] EXCEPT !.pc = pc] \in Attempt
      BY <1>0 DEF Attempt
    <2>4. /\ used' \in [saves : 0 .. MaxSaves, failures : 0 .. MaxFailures, losses : 0 .. MaxLosses]
          /\ UNCHANGED <<provider, valid, row, saver, stray, late>>
      BY <1>0, <1>7 DEF Attempted, Succeed, Refuse, Fail, Close, Lose
    <2> QED
      BY <1>0, <2>1, <2>2, <2>3, <2>4, JobStep DEF Attempt
  <1>8. ASSUME NEW j \in Jobs, RecordError(j) \/ Finish(j) PROVE IInv'
    BY <1>8, StatusStep
  <1>9. ASSUME NEW j \in Jobs, Cut(j) PROVE IInv'
    BY <1>9, CutStep
  <1>10. ASSUME NEW i \in Losses, StrayLists(i) \/ StrayEnds(i) PROVE IInv'
    <2>1. stray[i] \in Attempt /\ stray[i].pc # "none" /\ stray[i].key \in Keys /\ Configured
      BY <1>10 DEF IInv, TypeOK, FromOwners, StrayLists, StrayEnds
    <2>2. NoAttempt \in Attempt /\ NoAttempt.pc = "none"
      BY DEF NoAttempt, Attempt
    <2>3. CASE StrayLists(i)
      <3>1. PICK pc \in {"synced", "failed"} : stray' = [stray EXCEPT ![i].pc = pc]
        BY <2>3 DEF StrayLists
      <3>2. [stray[i] EXCEPT !.pc = pc] \in Attempt /\ [stray[i] EXCEPT !.pc = pc].key = stray[i].key
        BY <2>1 DEF Attempt
      <3> QED
        BY <2>1, <2>3, <3>1, <3>2, StrayStep DEF StrayLists
    <2>4. CASE StrayEnds(i)
      BY <2>2, <2>4, StrayStep DEF StrayEnds
    <2> QED
      BY <1>10, <2>3, <2>4
  <1>11. ASSUME NEW i \in Losses, StrayWrites(i) PROVE IInv'
    BY <1>11, StrayWritesStep
  <1>12. CASE UNCHANGED vars
    BY <1>12 DEF vars, IInv, TypeOK, FromOwners, StillToWrite, Running, Open, Configured
  <1> QED
    BY <1>1, <1>2, <1>3, <1>4, <1>5, <1>6, <1>7, <1>8, <1>9, <1>10, <1>11, <1>12 DEF Next, Sync

\* The invariant that carries the theorems below.
THEOREM Safety == Spec => []IInv
BY InitIInv, NextIInv, PTL DEF Spec

\* Rows, calls and attempts have their types, and no attempt is without a key.
THEOREM TypeCorrect == Spec => []TypeOK
  <1>1. IInv => TypeOK
    BY DEF IInv
  <1> QED
    BY Safety, <1>1, PTL

\* However saves and syncs overlap, fail and are lost, an error that the owner
\* sees belongs to a sync that will be tried again, unless an attempt that had lost
\* its claim wrote it.
THEOREM ErrorsAreRetried == Spec => []ErrorIsRetried
  <1>1. IInv => ErrorIsRetried
    BY DEF IInv, StillToWrite, ErrorIsRetried
  <1> QED
    BY Safety, <1>1, PTL

\* No save, whatever runs beside it, takes a webhook secret away.
THEOREM SecretsAreKept == Spec => SecretKept
  <1>1. IInv /\ [Next]_vars => [row.secret => row'.secret]_vars
    <2> SUFFICES ASSUME IInv, Next, row.secret PROVE row'.secret
      OBVIOUS
    <2>1. ASSUME NEW c \in Savers, Write(c) PROVE row'.secret
      BY <2>1 DEF Write, KeptSecret
    <2>2. ASSUME NEW j \in Jobs, RecordError(j) \/ Finish(j) PROVE row'.secret
      BY <2>2 DEF RecordError, Finish, SyncedRow, FailedRow, IInv, TypeOK, Row
    <2>3. ASSUME NEW i \in Losses, StrayWrites(i) PROVE row'.secret
      BY <2>3 DEF StrayWrites, SyncedRow, FailedRow, IInv, TypeOK, Row
    <2>4. CASE UNCHANGED row
      BY <2>4
    <2> QED
      BY <2>1, <2>2, <2>3, <2>4
         DEF Next, Sync, Attempted, Revoke, Check, GiveUp, Enqueue, Load, Succeed, Refuse, Fail,
             Close, Lose, Cut, StrayLists, StrayEnds
  <1> QED
    BY Safety, <1>1, PTL DEF Spec, SecretKept

=============================================================================
