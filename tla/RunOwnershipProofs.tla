-------------------------- MODULE RunOwnershipProofs --------------------------
(***************************************************************************)
(* Theorems about RunOwnership for every set of processes and every bound. *)
(***************************************************************************)
EXTENDS RunOwnership, TLAPS

USE StoreAssumption, OwnershipAssumption, OutcomesAssumption
    DEF StoreAssumption, OwnershipAssumption, OutcomesAssumption

\* An acquisition not made yet has its type.
LEMMA UnbornType == Unborn \in Acq
    BY DEF Unborn, Acq, Mode, Missing, RunRow, PauseReason, Status

\* The initial state has its type.
LEMMA InitType == Init => TypeOK
<1> SUFFICES ASSUME Init PROVE TypeOK
    OBVIOUS
<1>1. StoreTypeOK
    BY DEF Init, StoreInit, StoreTypeOK, Missing, RunRow, PauseReason, NoLease, Status
<1>2. NoView \in View
    BY DEF NoView, View
<1>3. Idle \in Prep /\ NoPlan \in Plan
    BY DEF Idle, Prep, NoPlan, Plan, Mode
<1>4. QED
    BY <1>1, UnbornType, <1>2, <1>3 DEF Init, StoreInit, TypeOK, Stretch, PC

\* What the helpers return when the state is well typed.
LEMMA AdoptedType ==
    ASSUME TypeOK, row' \in RunRow, NEW f \in Stretch
    PROVE  Adopted(f) \in [Stretch -> View]
<1>1. [revision |-> row'.revision, status |-> row'.status] \in View
    BY DEF RunRow, View
<1>2. QED
    BY <1>1 DEF Adopted, TypeOK

\* What a process reads of the line is a view.
LEMMA RefreshedType ==
    ASSUME TypeOK, NEW p \in Process
    PROVE  Refreshed(p) \in [Stretch -> View]
<1>1. [revision |-> row.revision, status |-> row.status] \in View
    BY DEF RunRow, View, TypeOK, StoreTypeOK
<1>2. QED
    BY <1>1 DEF Refreshed, TypeOK

\* A view that is dropped is still a view.
LEMMA ForgottenType ==
    ASSUME TypeOK, NEW f \in Stretch
    PROVE  Forgotten(f) \in [Stretch -> View]
<1>1. [revision |-> 0, status |-> "running"] \in View
    BY DEF View, Status
<1>2. QED
    BY <1>1 DEF Forgotten, TypeOK

\* An acquisition that begins has its type.
LEMMA ExceptType ==
    ASSUME NEW p \in Process \cup {NoProcess}, NEW mode \in Mode, NEW orphaned \in BOOLEAN,
           NEW outcome \in Outcome \cup {"none"}, NEW fenced \in BOOLEAN
    PROVE  [Unborn EXCEPT !.proc = p, !.mode = mode, !.orphaned = orphaned,
                          !.outcome = outcome, !.fenced = fenced] \in Acq
BY UnbornType DEF Acq

\* One that is fenced off and halted has its type.
LEMMA ClosedType ==
    ASSUME TypeOK, NEW f \in Stretch
    PROVE  Closed(f) \in Acq
<1> DEFINE known == acq[f].fenced /\ registry[Owner(f)] = f
<1>1. acq[f] \in Acq
    BY DEF TypeOK
<1>2. /\ acq[f].proc \in Process \cup {NoProcess}
      /\ acq[f].mode \in Mode
      /\ acq[f].orphaned \in BOOLEAN
      /\ acq[f].outcome \in Outcome \cup {"none"}
    BY <1>1 DEF Acq
<1>3. known \in BOOLEAN
    OBVIOUS
<1> HIDE DEF known
<1>4. [Unborn EXCEPT !.proc = acq[f].proc, !.mode = acq[f].mode,
                     !.orphaned = acq[f].orphaned, !.outcome = acq[f].outcome,
                     !.fenced = known] \in Acq
    BY <1>2, <1>3, ExceptType
<1>5. QED
    BY <1>4 DEF Closed, known

\* A write of the line leaves a line.
LEMMA PutType ==
    ASSUME StoreTypeOK, NEW status \in Status \cup {"missing"},
           NEW reason \in PauseReason, NEW attempts \in Nat, Put(status, reason, attempts)
    PROVE  row' \in RunRow
BY DEF Put, RunRow, StoreTypeOK

\* What a preparation reads is a preparation.
LEMMA ReadType ==
    ASSUME TypeOK, NEW p \in Process, NEW mode \in Mode \cup {"abort"}
    PROVE  Read(p, mode) \in Prep
BY DEF Read, Prep, Mode, TypeOK, StoreTypeOK, RunRow

\* The registry without one engine is a registry.
LEMMA DeregisteredType ==
    ASSUME TypeOK, NEW f \in Stretch
    PROVE  Deregistered(f) \in [Process -> 0 .. MaxFence]
<1>1. CASE Owner(f) \in Process
    BY <1>1 DEF Deregistered, TypeOK
<1>2. CASE Owner(f) \notin Process
    BY <1>2 DEF Deregistered, TypeOK
<1>3. QED
    BY <1>1, <1>2

\* A lease released, or not for a fault, is a lease.
LEMMA ReleaseLeaseType ==
    ASSUME TypeOK, NEW f \in Stretch, ReleaseLease(f)
    PROVE  /\ lease' \in [holder : Process \cup {NoProcess}, left : 0 .. Ttl]
           /\ faults' \in 0 .. MaxFaults
<1>1. NoLease \in [holder : Process \cup {NoProcess}, left : 0 .. Ttl]
    BY DEF NoLease
<1>2. lease' = lease \/ lease' = NoLease
    BY DEF ReleaseLease, Release
<1>3. faults' \in 0 .. MaxFaults
    BY DEF ReleaseLease, Fault, TypeOK
<1>4. QED
    BY <1>1, <1>2, <1>3 DEF TypeOK, StoreTypeOK

\* The updates the actions make to a stretch's record keep it well typed.
LEMMA AcqUpdates ==
    ASSUME NEW a \in Acq
    PROVE  /\ \A b \in BOOLEAN : [a EXCEPT !.beating = b] \in Acq
           /\ \A b \in BOOLEAN : [a EXCEPT !.clean = b] \in Acq
           /\ \A b \in BOOLEAN : [a EXCEPT !.halted = b] \in Acq
           /\ \A b \in BOOLEAN : [a EXCEPT !.published = b] \in Acq
           /\ \A b, c \in BOOLEAN : [a EXCEPT !.halted = b, !.fenced = c] \in Acq
           /\ \A b, c, d \in BOOLEAN :
                [a EXCEPT !.beating = b, !.fenced = c, !.halted = d] \in Acq
           /\ \A r \in RunRow, b \in BOOLEAN : [a EXCEPT !.prior = r, !.orphaned = b] \in Acq
           /\ \A r \in RunRow, n \in Nat : [a EXCEPT !.prior = r, !.receipt = n] \in Acq
           /\ \A m, n \in Nat : [a EXCEPT !.receipt = m, !.attempts = n] \in Acq
           /\ \A n \in 0 .. MaxSnaps : [a EXCEPT !.snaps = n] \in Acq
           /\ \A o \in Outcome \cup {"none"}, b, c \in BOOLEAN :
                [a EXCEPT !.outcome = o, !.accepted = b, !.halted = c] \in Acq
BY Zenon DEF Acq

\* One acquisition changes at a time.
LEMMA OneAcqType ==
    ASSUME TypeOK, NEW f \in Stretch
    PROVE  /\ acq[f] \in Acq
           /\ \A a \in Acq : [acq EXCEPT ![f] = a] \in [Stretch -> Acq]
BY DEF TypeOK

\* Fields set one by one are fields set in one record.
LEMMA FieldsOfOne ==
    ASSUME TypeOK, NEW f \in Stretch, NEW b, NEW c, NEW d
    PROVE  /\ [acq EXCEPT ![f].beating = b, ![f].fenced = c, ![f].halted = d]
                = [acq EXCEPT ![f] = [acq[f] EXCEPT !.beating = b, !.fenced = c, !.halted = d]]
           /\ [acq EXCEPT ![f].outcome = b, ![f].accepted = c, ![f].halted = d]
                = [acq EXCEPT ![f] = [acq[f] EXCEPT !.outcome = b, !.accepted = c, !.halted = d]]
           /\ [acq EXCEPT ![f].halted = b, ![f].fenced = c]
                = [acq EXCEPT ![f] = [acq[f] EXCEPT !.halted = b, !.fenced = c]]
BY DEF TypeOK

\* A cancelled line is a line.
LEMMA CancelType ==
    ASSUME StoreTypeOK, Cancel
    PROVE  row' \in RunRow
<1>1. row.attempts \in Nat /\ "none" \in PauseReason /\ "cancelled" \in Status
    BY DEF StoreTypeOK, RunRow, PauseReason, Status
<1>2. QED
    BY <1>1, PutType DEF Cancel, StoreTypeOK

\* An engine that finds itself fenced off keeps every type.
LEMMA AbortFencedType ==
    ASSUME TypeOK, NEW f \in Stretch, AbortFenced(f), faults' \in 0 .. MaxFaults
    PROVE  TypeOK'
<1>1. acq' \in [Stretch -> Acq]
    <2> DEFINE known == registry[Owner(f)] = f
               fenced == known \/ acq[f].fenced
               halted == IF known THEN Halted(f) ELSE acq[f].halted
    <2>1. fenced \in BOOLEAN /\ halted \in BOOLEAN
        BY OneAcqType DEF Halted, Acq
    <2>2. acq' = [acq EXCEPT ![f].beating = FALSE, ![f].fenced = fenced,
                             ![f].halted = halted]
        BY DEF AbortFenced
    <2> HIDE DEF fenced, halted
    <2>3. QED
        <3>1. acq' = [acq EXCEPT ![f] = [acq[f] EXCEPT !.beating = FALSE, !.fenced = fenced,
                                                       !.halted = halted]]
            BY <2>2, FieldsOfOne
        <3>2. [acq[f] EXCEPT !.beating = FALSE, !.fenced = fenced, !.halted = halted] \in Acq
            BY <2>1, OneAcqType, AcqUpdates
        <3>3. QED
            BY <3>1, <3>2, OneAcqType
<1>2. plan' \in [Process -> Plan]
    <2>1. NoPlan \in Plan
        BY DEF NoPlan, Plan
    <2>2. QED
        BY <2>1 DEF AbortFenced, Revoked, TypeOK
<1>3. QED
    BY <1>1, <1>2 DEF AbortFenced, TypeOK, StoreTypeOK

\* Every step keeps the state well typed.
LEMMA TypeStep == TypeOK /\ [Next]_vars => TypeOK'
<1> SUFFICES ASSUME TypeOK, [Next]_vars PROVE TypeOK'
    OBVIOUS
<1>0. Idle \in Prep /\ NoPlan \in Plan /\ NoView \in View
    BY DEF Idle, Prep, NoPlan, Plan, Mode, NoView, View
<1>1. ASSUME NEW p \in Process, NEW mode \in Requests, Prepare(p, mode)
      PROVE  TypeOK'
    BY <1>1, ReadType DEF Prepare, TypeOK, StoreTypeOK, Mode
<1>2. ASSUME NEW p \in Process, Resume(p)
      PROVE  TypeOK'
    BY <1>2, ReadType, RefreshedType DEF Resume, TypeOK, StoreTypeOK, Mode
<1>3. ASSUME NEW p \in Process, Fire(p)
      PROVE  TypeOK'
    BY <1>3, <1>0, ReadType, RefreshedType DEF Fire, TypeOK, StoreTypeOK, Mode
<1>4. ASSUME NEW p \in Process, AcquireRun(p)
      PROVE  TypeOK'
    <2> DEFINE born == [Unborn EXCEPT !.proc = p, !.mode = prep[p].mode,
                                      !.orphaned = prep[p].clear, !.beating = TRUE]
    <2>1. prep[p] \in Prep /\ prep[p].mode \in Mode
        BY <1>4 DEF AcquireRun, TypeOK, Prep
    <2>2. born \in Acq
        BY <2>1, UnbornType DEF Prep, Acq
    <2>3. \A g \in Stretch : acq[g] \in Acq /\ [acq[g] EXCEPT !.beating = FALSE] \in Acq
        BY OneAcqType, AcqUpdates
    <2> HIDE DEF born
    <2>4. acq' = [g \in Stretch |->
                    IF g = fence + 1 THEN born
                    ELSE IF Owner(g) = p THEN [acq[g] EXCEPT !.beating = FALSE] ELSE acq[g]]
        BY <1>4 DEF AcquireRun, born
    <2>5. acq' \in [Stretch -> Acq]
        BY <2>2, <2>3, <2>4
    <2>6. pc' \in [Stretch -> PC]
        BY <1>4 DEF AcquireRun, Goto, TypeOK, PC, Preparing
    <2>7. prep' \in [Process -> Prep] /\ plan' \in [Process -> Plan]
        <3>1. [Idle EXCEPT !.step = "launching"] \in Prep
            BY <1>0 DEF Prep
        <3>2. QED
            BY <1>4, <1>0, <3>1 DEF AcquireRun, TypeOK
    <2>8. StoreTypeOK' /\ fence' \in 0 .. MaxFence
        BY <1>4 DEF AcquireRun, Acquire, TypeOK, StoreTypeOK
    <2>9. QED
        BY <1>4, <2>5, <2>6, <2>7, <2>8 DEF AcquireRun, Acquire, TypeOK
<1>5. ASSUME NEW p \in Process, AcquireRefused(p)
      PROVE  TypeOK'
    BY <1>5, <1>0 DEF AcquireRefused, TypeOK, StoreTypeOK, Prep
<1>6. ASSUME NEW p \in Process, UnleasedRefused(p)
      PROVE  TypeOK'
    BY <1>6, <1>0 DEF UnleasedRefused, TypeOK, StoreTypeOK, Release, NoLease
<1>7. ASSUME NEW f \in Stretch, Admit(f)
      PROVE  TypeOK'
    <2>1. Orphaned(f) \in BOOLEAN /\ row \in RunRow
        BY DEF Orphaned, TypeOK, StoreTypeOK, Acq
    <2>2. acq' \in [Stretch -> Acq]
        BY <1>7, <2>1, OneAcqType, AcqUpdates DEF Admit
    <2>3. view' \in [Stretch -> View]
        BY <1>7, <2>1 DEF Admit, TypeOK, View, RunRow, Status
    <2>4. registry' \in [Process -> 0 .. MaxFence]
        <3>1. registry' = registry \/ registry' = [registry EXCEPT ![Owner(f)] = f]
            BY <1>7 DEF Admit
        <3>2. f \in 0 .. MaxFence
            BY DEF Stretch
        <3>3. QED
            BY <3>1, <3>2 DEF TypeOK
    <2>5. pc' \in [Stretch -> PC]
        BY <1>7 DEF Admit, TypeOK, Goto, PC, Preparing
    <2>6. QED
        BY <1>7, <2>2, <2>3, <2>4, <2>5 DEF Admit, TypeOK, StoreTypeOK
<1>8. ASSUME NEW f \in Stretch, LaunchWrite(f)
      PROVE  TypeOK'
    <2>1. PICK ok \in BOOLEAN : LaunchWrite(f)!2!(ok)
        BY <1>8 DEF LaunchWrite
    <2>2. acq[f] \in Acq /\ view[f] \in View /\ row \in RunRow
        BY DEF TypeOK, StoreTypeOK
    <2>3. NextAttempt(f) \in Nat /\ LaunchReason(f) \in PauseReason
        BY <2>2 DEF NextAttempt, LaunchReason, Acq, RunRow, PauseReason
    <2>4. row' \in RunRow
        BY <2>1, <2>2, <2>3, PutType DEF View, TypeOK
    <2>5. acq' \in [Stretch -> Acq]
        <3>1. row.revision + 1 \in Nat
            BY <2>2 DEF RunRow
        <3>2. [acq EXCEPT ![f].receipt = row.revision + 1,
                          ![f].attempts = NextAttempt(f)] \in [Stretch -> Acq]
            BY <2>3, <3>1, OneAcqType, AcqUpdates
        <3>3. QED
            BY <2>1, <3>2 DEF TypeOK
    <2>6. view' \in [Stretch -> View]
        BY <2>1, <2>4, AdoptedType DEF TypeOK
    <2>7. registry' \in [Process -> 0 .. MaxFence]
        BY <2>1, DeregisteredType DEF TypeOK
    <2>8. pc' \in [Stretch -> PC]
        BY <2>1 DEF TypeOK, Goto, PC, Preparing
    <2>9. faults' \in 0 .. MaxFaults
        BY <2>1 DEF TypeOK, Stored, Fault
    <2>10. QED
        BY <1>8, <2>4, <2>5, <2>6, <2>7, <2>8, <2>9 DEF LaunchWrite, TypeOK, StoreTypeOK
<1>9. ASSUME NEW f \in Stretch, Submit(f)
      PROVE  TypeOK'
    <2>1. Missing \in RunRow
        BY DEF Missing, RunRow, PauseReason
    <2>2. [acq EXCEPT ![f].prior = Missing, ![f].receipt = 0] \in [Stretch -> Acq]
        BY <2>1, OneAcqType, AcqUpdates
    <2>3. acq' \in [Stretch -> Acq]
        BY <1>9, <2>2 DEF Submit, TypeOK
    <2>4. registry' \in [Process -> 0 .. MaxFence]
        BY <1>9, DeregisteredType DEF Submit, TypeOK
    <2>5. prep' \in [Process -> Prep]
        BY <1>9, <1>0 DEF Submit, TypeOK
    <2>6. pc' \in [Stretch -> PC]
        BY <1>9 DEF Submit, TypeOK, Goto, PC, Preparing, Executing
    <2>7. QED
        BY <1>9, <2>3, <2>4, <2>5, <2>6 DEF Submit, TypeOK, StoreTypeOK
<1>10. ASSUME NEW f \in Stretch, LaunchFails(f)
      PROVE  TypeOK'
    BY <1>10 DEF LaunchFails, TypeOK, StoreTypeOK, Goto, PC, Preparing, Fault
<1>11. ASSUME NEW f \in Stretch, Abandon(f)
      PROVE  TypeOK'
    <2>1. PICK ok \in BOOLEAN : Abandon(f)!2!(ok)
        BY <1>11 DEF Abandon
    <2>2. acq[f].prior \in RunRow
        BY OneAcqType DEF Acq
    <2>3. row' \in RunRow
        <3>1. Restored(f) \in Status
            BY <2>2 DEF Restored, RunRow, Status, Finished
        <3>2. QED
            BY <2>1, <2>2, <3>1, PutType DEF TypeOK, StoreTypeOK, RunRow
    <2>4. pc' \in [Stretch -> PC]
        BY <1>11 DEF Abandon, TypeOK, Goto, PC, Preparing
    <2>5. faults' \in 0 .. MaxFaults
        BY <2>1 DEF TypeOK, Stored, Fault
    <2>6. QED
        BY <1>11, <2>3, <2>4, <2>5, DeregisteredType DEF Abandon, TypeOK, StoreTypeOK
<1>12. ASSUME NEW f \in Stretch, ReleaseRefused(f)
      PROVE  TypeOK'
    <2>1. acq' \in [Stretch -> Acq] /\ view' \in [Stretch -> View]
        BY <1>12, ClosedType, OneAcqType, ForgottenType DEF ReleaseRefused
    <2>2. pc' \in [Stretch -> PC] /\ prep' \in [Process -> Prep]
        BY <1>12, <1>0 DEF ReleaseRefused, TypeOK, Goto, PC, Ended
    <2>3. QED
        BY <1>12, <2>1, <2>2, ReleaseLeaseType DEF ReleaseRefused, TypeOK, StoreTypeOK
<1>13. ASSUME NEW f \in Stretch, Capture(f)
      PROVE  TypeOK'
    <2>1. acq[f].snaps + 1 \in 0 .. MaxSnaps
        BY <1>13, OneAcqType DEF Capture, Acq
    <2>2. acq' \in [Stretch -> Acq]
        BY <1>13, <2>1, OneAcqType, AcqUpdates DEF Capture
    <2>3. QED
        BY <1>13, <2>2 DEF Capture, TypeOK, StoreTypeOK
<1>14. ASSUME NEW f \in Stretch, WriteSnapshot(f)
      PROVE  TypeOK'
    <2>1. snap[f] \in View /\ row \in RunRow
        BY DEF TypeOK, StoreTypeOK
    <2>2. row' \in RunRow
        BY <1>14, <2>1, PutType DEF WriteSnapshot, TypeOK, View, RunRow
    <2>3. QED
        BY <1>14, <1>0, <2>2, AdoptedType DEF WriteSnapshot, TypeOK, StoreTypeOK
<1>15. ASSUME NEW f \in Stretch, Beat(f)
      PROVE  TypeOK'
    BY <1>15 DEF Beat, TypeOK, StoreTypeOK, Renew, Owner, Acq
<1>16. ASSUME NEW f \in Stretch, LeaseLost(f)
      PROVE  TypeOK'
    BY <1>16, AbortFencedType DEF LeaseLost, TypeOK
<1>17. ASSUME NEW f \in Stretch, BusyRenewal(f)
      PROVE  TypeOK'
    BY <1>17, AbortFencedType DEF BusyRenewal, Fault, TypeOK
<1>18. ASSUME NEW f \in Stretch, Finish(f)
      PROVE  TypeOK'
    <2> DEFINE written(o, ok) == ok /\ CanWrite(f, "finish", AnyRevision, StatusOf(o))
    <2>1. PICK o \in Outcomes, ok \in BOOLEAN :
            /\ Stored(ok)
            /\ acq' = [acq EXCEPT ![f].outcome = o, ![f].accepted = written(o, ok),
                                  ![f].halted = FALSE]
            /\ IF written(o, ok) THEN Put(StatusOf(o), ReasonOf(o), acq[f].attempts)
                                 ELSE UNCHANGED row
            /\ view' = IF ok THEN Adopted(f) ELSE view
            /\ pc' = [pc EXCEPT ![f] = IF written(o, ok) /\ o = "quota" THEN "decided" ELSE "drained"]
        BY <1>18 DEF Finish, Goto
    <2>2. written(o, ok) \in BOOLEAN
        OBVIOUS
    <2> HIDE DEF written
    <2>3. acq' \in [Stretch -> Acq]
        <3>1. acq' = [acq EXCEPT ![f] = [acq[f] EXCEPT !.outcome = o, !.accepted = written(o, ok),
                                                       !.halted = FALSE]]
            BY <2>1, FieldsOfOne
        <3>2. [acq[f] EXCEPT !.outcome = o, !.accepted = written(o, ok), !.halted = FALSE] \in Acq
            BY <2>2, OneAcqType, AcqUpdates
        <3>3. QED
            BY <3>1, <3>2, OneAcqType
    <2>4. row' \in RunRow
        <3>1. StatusOf(o) \in Status /\ ReasonOf(o) \in PauseReason
            BY DEF StatusOf, ReasonOf, Outcome, Paused, Status, PauseReason
        <3>2. acq[f].attempts \in Nat
            BY OneAcqType DEF Acq
        <3>3. QED
            BY <2>1, <3>1, <3>2, PutType DEF TypeOK, StoreTypeOK
    <2>5. view' \in [Stretch -> View]
        BY <2>1, <2>4, AdoptedType DEF TypeOK
    <2>6. pc' \in [Stretch -> PC]
        BY <2>1 DEF TypeOK, PC, Executing
    <2>7. faults' \in 0 .. MaxFaults
        BY <2>1 DEF TypeOK, Stored, Fault
    <2>8. QED
        BY <1>18, <2>3, <2>4, <2>5, <2>6, <2>7 DEF Finish, TypeOK, StoreTypeOK
<1>19. ASSUME NEW f \in Stretch, OnPaused(f)
      PROVE  TypeOK'
    <2>1. [step |-> "prepared", fence |-> f, attempts |-> acq[f].attempts] \in Plan
        BY DEF TypeOK, Plan, Acq, Stretch
    <2>2. plan' \in [Process -> Plan]
        BY <1>19, <2>1 DEF OnPaused, TypeOK
    <2>3. pc' \in [Stretch -> PC]
        BY <1>19 DEF OnPaused, TypeOK, Goto, PC, Executing
    <2>4. QED
        BY <1>19, <2>2, <2>3 DEF OnPaused, TypeOK, StoreTypeOK
<1>20. ASSUME NEW f \in Stretch, Settle(f)
      PROVE  TypeOK'
    <2> DEFINE owned(ok) == ok /\ CanWrite(f, "snapshot", view[f].revision, view[f].status)
    <2>1. PICK settled \in BOOLEAN, ok \in BOOLEAN :
            /\ Stored(settled /\ ok)
            /\ IF owned(ok) THEN Put(view[f].status, row.reason, row.attempts) ELSE UNCHANGED row
            /\ acq' = [acq EXCEPT ![f].clean = settled /\ owned(ok)]
            /\ view' = IF ok THEN Adopted(f) ELSE view
        BY <1>20 DEF Settle
    <2>2. (settled /\ owned(ok)) \in BOOLEAN
        OBVIOUS
    <2> HIDE DEF owned
    <2>3. acq' \in [Stretch -> Acq]
        BY <2>1, <2>2, OneAcqType, AcqUpdates
    <2>4. row' \in RunRow
        BY <2>1, PutType DEF TypeOK, StoreTypeOK, View, RunRow
    <2>5. view' \in [Stretch -> View]
        BY <2>1, <2>4, AdoptedType DEF TypeOK
    <2>6. pc' \in [Stretch -> PC]
        BY <1>20 DEF Settle, Goto, TypeOK, PC, Executing
    <2>7. faults' \in 0 .. MaxFaults
        BY <2>1 DEF TypeOK, Stored, Fault
    <2>8. QED
        BY <1>20, <2>3, <2>4, <2>5, <2>6, <2>7 DEF Settle, TypeOK, StoreTypeOK
<1>21. ASSUME NEW f \in Stretch, ReleaseRun(f)
      PROVE  TypeOK'
    <2>1. acq' \in [Stretch -> Acq]
        BY <1>21, OneAcqType, AcqUpdates DEF ReleaseRun
    <2>2. pc' \in [Stretch -> PC]
        BY <1>21 DEF ReleaseRun, TypeOK, Goto, PC, Executing
    <2>3. QED
        BY <1>21, <2>1, <2>2, ReleaseLeaseType DEF ReleaseRun, TypeOK, StoreTypeOK
<1>22. ASSUME NEW f \in Stretch, EnterGuard(f)
      PROVE  TypeOK'
    BY <1>22 DEF EnterGuard, TypeOK, StoreTypeOK, Goto, PC, Executing, Stretch
<1>23. ASSUME NEW f \in Stretch, SkipPublication(f)
      PROVE  TypeOK'
    <2>1. acq' \in [Stretch -> Acq] /\ view' \in [Stretch -> View]
        BY <1>23, ClosedType, OneAcqType, ForgottenType DEF SkipPublication
    <2>2. pc' \in [Stretch -> PC]
        BY <1>23 DEF SkipPublication, TypeOK, Goto, PC, Ended
    <2>3. QED
        BY <1>23, <2>1, <2>2 DEF SkipPublication, TypeOK, StoreTypeOK
<1>24. ASSUME NEW f \in Stretch, Publish(f)
      PROVE  TypeOK'
    <2>1. [Closed(f) EXCEPT !.published = TRUE] \in Acq
        BY ClosedType, AcqUpdates
    <2>2. acq' \in [Stretch -> Acq] /\ view' \in [Stretch -> View]
        BY <1>24, <2>1, OneAcqType, ForgottenType DEF Publish
    <2>3. pc' \in [Stretch -> PC]
        BY <1>24 DEF Publish, TypeOK, Goto, PC, Ended
    <2>4. QED
        BY <1>24, <2>2, <2>3 DEF Publish, TypeOK, StoreTypeOK
<1>25. ASSUME NEW p \in Process, ArmPlan(p)
      PROVE  TypeOK'
    BY <1>25, <1>0 DEF ArmPlan, TypeOK, StoreTypeOK, Plan
<1>26. ASSUME NEW p \in Process, Rearm(p)
      PROVE  TypeOK'
    BY <1>26 DEF Rearm, TypeOK, StoreTypeOK, Plan, RunRow
<1>27. ASSUME NEW p \in Process, NEW g \in Presentable(p), CancelRun(p, g)
      PROVE  TypeOK'
    <2>1. g = Ownerless \/ g \in Stretch
        BY DEF Presentable
    <2>2. row' \in RunRow
        BY <1>27, CancelType DEF CancelRun, TypeOK, StoreTypeOK
    <2>3. plan' \in [Process -> Plan]
        BY <1>27, <1>0 DEF CancelRun, Revoked, TypeOK
    <2>4. view' \in [Stretch -> View]
        BY <1>27, <2>1, <2>2, AdoptedType DEF CancelRun, TypeOK
    <2>5. acq' \in [Stretch -> Acq]
        <3>1. CASE g = Ownerless
            BY <1>27, <3>1 DEF CancelRun, TypeOK
        <3>2. CASE g \in Stretch
            <4>1. Halted(g) \in BOOLEAN
                BY <3>2, OneAcqType DEF Halted, Acq
            <4>2. [acq EXCEPT ![g].halted = Halted(g), ![g].fenced = TRUE] \in [Stretch -> Acq]
                <5>1. [acq[g] EXCEPT !.halted = Halted(g), !.fenced = TRUE] \in Acq
                    BY <3>2, <4>1, OneAcqType, AcqUpdates
                <5>2. QED
                    BY <3>2, <5>1, FieldsOfOne, OneAcqType
            <4>3. [acq EXCEPT ![g].halted = Halted(g)] \in [Stretch -> Acq]
                BY <3>2, <4>1, OneAcqType, AcqUpdates
            <4>4. QED
                BY <1>27, <4>2, <4>3 DEF CancelRun, TypeOK
        <3>3. QED
            BY <2>1, <3>1, <3>2
    <2>6. QED
        BY <1>27, <2>2, <2>3, <2>4, <2>5 DEF CancelRun, TypeOK, StoreTypeOK
<1>28. ASSUME NEW p \in Process, AbortRoute(p)
      PROVE  TypeOK'
    <2>1. row' \in RunRow
        BY <1>28, CancelType DEF AbortRoute, TypeOK, StoreTypeOK
    <2>2. plan' \in [Process -> Plan] /\ prep' \in [Process -> Prep]
        BY <1>28, <1>0 DEF AbortRoute, Revoked, TypeOK
    <2>3. view' \in [Stretch -> View]
        <3>1. Answering(p) = 0 \/ Answering(p) \in Stretch
            BY DEF Answering, TypeOK, Stretch
        <3>2. QED
            BY <1>28, <2>1, <3>1, AdoptedType DEF AbortRoute, TypeOK
    <2>4. QED
        BY <1>28, <2>1, <2>2, <2>3 DEF AbortRoute, TypeOK, StoreTypeOK
<1>29. ASSUME NEW p \in Process, Crash(p)
      PROVE  TypeOK'
    <2>1. pc' \in [Stretch -> PC] /\ guard' \in 0 .. MaxFence /\ guard' \in Nat
        BY <1>29 DEF Crash, TypeOK, StoreTypeOK, PC, Ended
    <2>2. acq' \in [Stretch -> Acq]
        BY <1>29, ClosedType, OneAcqType DEF Crash
    <2>3. view' \in [Stretch -> View] /\ snap' \in [Stretch -> View]
        BY <1>29, <1>0, ForgottenType DEF Crash, TypeOK
    <2>4. prep' \in [Process -> Prep] /\ plan' \in [Process -> Plan]
        <3>1. [Idle EXCEPT !.step = "down"] \in Prep
            BY <1>0 DEF Prep
        <3>2. QED
            BY <1>29, <1>0, <3>1 DEF Crash, TypeOK
    <2>5. registry' \in [Process -> 0 .. MaxFence] /\ faults' \in 0 .. MaxFaults
        BY <1>29 DEF Crash, Fault, TypeOK
    <2>6. QED
        BY <1>29, <2>1, <2>2, <2>3, <2>4, <2>5 DEF Crash, TypeOK, StoreTypeOK
<1>30. CASE Time
    BY <1>30 DEF Time, Tick, Leased, TypeOK, StoreTypeOK
<1>31. CASE UNCHANGED vars
    BY <1>31 DEF vars, TypeOK, StoreTypeOK
<1>32. QED
    BY <1>1, <1>2, <1>3, <1>4, <1>5, <1>6, <1>7, <1>8, <1>9, <1>10, <1>11, <1>12, <1>13,
       <1>14, <1>15, <1>16, <1>17, <1>18, <1>19, <1>20, <1>21, <1>22, <1>23, <1>24, <1>25,
       <1>26, <1>27, <1>28, <1>29, <1>30, <1>31
       DEF Next, LaunchStep, EpilogueStep, BackgroundStep, ProcessStep

\* Type correctness: in every reachable state every variable has its type.
THEOREM TypeCorrect == Spec => []TypeOK
BY InitType, TypeStep, PTL DEF Spec
-------------------------------------------------------------------------------
(* The announcement is guarded *)

\* What a step must leave alone of a stretch that is announcing.
LEMMA AnnouncedFrame ==
    ASSUME AnnouncedIsDurable,
           \A f \in Stretch : pc'[f] = "publishing" =>
              /\ pc[f] = "publishing"
              /\ guard' = guard
              /\ fence' = fence
              /\ row'.status = row.status
              /\ acq'[f].outcome = acq[f].outcome
    PROVE  AnnouncedIsDurable'
BY DEF AnnouncedIsDurable, StatusOf

\* A line that is written again with its own status has the same status.
LEMMA PutStatus ==
    ASSUME NEW status, NEW reason, NEW attempts, Put(status, reason, attempts)
    PROVE  row'.status = status /\ row'.revision = row.revision + 1
BY DEF Put

\* Every step keeps what is announced durable.
LEMMA AnnouncedStep ==
    ASSUME TypeOK, AnnouncedIsDurable, [Next]_vars
    PROVE  AnnouncedIsDurable'
<1>1. ASSUME NEW p \in Process,
             \/ \E mode \in Requests : Prepare(p, mode)
             \/ Resume(p) \/ Fire(p) \/ AcquireRefused(p) \/ UnleasedRefused(p)
             \/ ArmPlan(p) \/ Rearm(p)
      PROVE  AnnouncedIsDurable'
    BY <1>1, AnnouncedFrame
       DEF Prepare, Resume, Fire, AcquireRefused, UnleasedRefused, ArmPlan, Rearm
<1>2. ASSUME NEW p \in Process, AcquireRun(p)
      PROVE  AnnouncedIsDurable'
    BY <1>2 DEF AcquireRun, CanAcquire, GuardFree, Goto, AnnouncedIsDurable, TypeOK, Stretch
<1>3. ASSUME NEW f \in Stretch, Admit(f)
      PROVE  AnnouncedIsDurable'
    <2>1. \A g \in Stretch : acq'[g].outcome = acq[g].outcome
        BY <1>3 DEF Admit, TypeOK, Acq
    <2>2. QED
        BY <1>3, <2>1, AnnouncedFrame DEF Admit, Goto, TypeOK
<1>4. ASSUME NEW f \in Stretch, LaunchWrite(f)
      PROVE  AnnouncedIsDurable'
    <2>1. \A g \in Stretch : acq'[g].outcome = acq[g].outcome
        BY <1>4 DEF LaunchWrite, TypeOK, Acq
    <2>2. row' = row \/ (fence = f /\ pc[f] = "registered")
        BY <1>4 DEF LaunchWrite, CanWrite
    <2>3. QED
        BY <1>4, <2>1, <2>2, AnnouncedFrame DEF LaunchWrite, Goto, TypeOK, AnnouncedIsDurable
<1>5. ASSUME NEW f \in Stretch, Submit(f) \/ LaunchFails(f)
      PROVE  AnnouncedIsDurable'
    <2>1. \A g \in Stretch : acq'[g].outcome = acq[g].outcome
        BY <1>5 DEF Submit, LaunchFails, TypeOK, Acq
    <2>2. QED
        BY <1>5, <2>1, AnnouncedFrame DEF Submit, LaunchFails, Goto, TypeOK
<1>6. ASSUME NEW f \in Stretch, Abandon(f)
      PROVE  AnnouncedIsDurable'
    <2>1. row' = row \/ (fence = f /\ pc[f] = "abandoning")
        BY <1>6 DEF Abandon, CanWrite
    <2>2. QED
        BY <1>6, <2>1, AnnouncedFrame DEF Abandon, Goto, TypeOK, AnnouncedIsDurable
<1>7. ASSUME NEW f \in Stretch, ReleaseRefused(f) \/ SkipPublication(f)
      PROVE  AnnouncedIsDurable'
    BY <1>7, AnnouncedFrame DEF ReleaseRefused, SkipPublication, Goto, TypeOK
<1>8. ASSUME NEW f \in Stretch, Capture(f) \/ Beat(f)
      PROVE  AnnouncedIsDurable'
    <2>1. \A g \in Stretch : acq'[g].outcome = acq[g].outcome
        BY <1>8 DEF Capture, Beat, TypeOK, Acq
    <2>2. QED
        BY <1>8, <2>1, AnnouncedFrame DEF Capture, Beat
<1>9. ASSUME NEW f \in Stretch, WriteSnapshot(f)
      PROVE  AnnouncedIsDurable'
    <2>1. row'.status = row.status
        BY <1>9, PutStatus DEF WriteSnapshot, CanWrite
    <2>2. QED
        BY <1>9, <2>1, AnnouncedFrame DEF WriteSnapshot
<1>10. ASSUME NEW f \in Stretch, LeaseLost(f) \/ BusyRenewal(f)
      PROVE  AnnouncedIsDurable'
    <2>1. \A g \in Stretch : acq'[g].outcome = acq[g].outcome
        BY <1>10, SMTT(60) DEF LeaseLost, BusyRenewal, AbortFenced, TypeOK, Acq
    <2>2. QED
        BY <1>10, <2>1, AnnouncedFrame DEF LeaseLost, BusyRenewal, AbortFenced
<1>11. ASSUME NEW f \in Stretch, Finish(f)
      PROVE  AnnouncedIsDurable'
    <2>1. \A g \in Stretch : g # f => acq'[g] = acq[g]
        BY <1>11 DEF Finish, TypeOK
    <2>2. row' = row \/ (fence = f /\ pc[f] = "running")
        BY <1>11 DEF Finish, CanWrite
    <2>3. QED
        BY <1>11, <2>1, <2>2, AnnouncedFrame DEF Finish, Goto, TypeOK, AnnouncedIsDurable
<1>12. ASSUME NEW f \in Stretch, OnPaused(f)
      PROVE  AnnouncedIsDurable'
    BY <1>12, AnnouncedFrame DEF OnPaused, Goto, TypeOK
<1>13. ASSUME NEW f \in Stretch, Settle(f)
      PROVE  AnnouncedIsDurable'
    <2>1. row'.status = row.status
        BY <1>13, PutStatus DEF Settle, CanWrite
    <2>2. \A g \in Stretch : acq'[g].outcome = acq[g].outcome
        BY <1>13 DEF Settle, TypeOK, Acq
    <2>3. QED
        BY <1>13, <2>1, <2>2, AnnouncedFrame DEF Settle, Goto, TypeOK
<1>14. ASSUME NEW f \in Stretch, ReleaseRun(f)
      PROVE  AnnouncedIsDurable'
    <2>1. \A g \in Stretch : acq'[g].outcome = acq[g].outcome
        BY <1>14 DEF ReleaseRun, TypeOK, Acq
    <2>2. QED
        BY <1>14, <2>1, AnnouncedFrame DEF ReleaseRun, Goto, TypeOK
<1>15. ASSUME NEW f \in Stretch, EnterGuard(f)
      PROVE  AnnouncedIsDurable'
    <2>1. \A g \in Stretch : pc[g] # "publishing"
        BY <1>15 DEF EnterGuard, GuardFree, AnnouncedIsDurable, Stretch
    <2>2. QED
        BY <1>15, <2>1 DEF EnterGuard, StillOurs, StatusOf, Goto, TypeOK, AnnouncedIsDurable
<1>16. ASSUME NEW f \in Stretch, Publish(f)
      PROVE  AnnouncedIsDurable'
    <2>1. \A g \in Stretch : pc[g] = "publishing" => g = f
        BY <1>16 DEF Publish, AnnouncedIsDurable
    <2>2. \A g \in Stretch : pc'[g] # "publishing"
        BY <1>16, <2>1 DEF Publish, Goto, TypeOK
    <2>3. QED
        BY <2>2 DEF AnnouncedIsDurable
<1>17. ASSUME NEW p \in Process, NEW g \in Presentable(p), CancelRun(p, g)
      PROVE  AnnouncedIsDurable'
    <2>1. \A f \in Stretch : acq'[f].outcome = acq[f].outcome
        BY <1>17 DEF CancelRun, TypeOK, Acq
    <2>2. GuardFree
        BY <1>17 DEF CancelRun, CanCancel
    <2>3. QED
        BY <1>17, <2>1, <2>2 DEF CancelRun, GuardFree, AnnouncedIsDurable, Stretch
<1>18. ASSUME NEW p \in Process, AbortRoute(p)
      PROVE  AnnouncedIsDurable'
    <2>1. row' = row \/ GuardFree
        BY <1>18 DEF AbortRoute, CanCancel
    <2>2. QED
        BY <1>18, <2>1, AnnouncedFrame DEF AbortRoute, GuardFree, AnnouncedIsDurable, Stretch
<1>19. ASSUME NEW p \in Process, Crash(p)
      PROVE  AnnouncedIsDurable'
    <2>1. ASSUME NEW f \in Stretch, pc'[f] = "publishing"
          PROVE  pc[f] = "publishing" /\ Owner(f) # p
        BY <1>19, <2>1 DEF Crash, Ended
    <2>2. QED
        BY <1>19, <2>1 DEF Crash, AnnouncedIsDurable, StatusOf
<1>20. CASE Time
    BY <1>20, AnnouncedFrame DEF Time, Tick
<1>21. CASE UNCHANGED vars
    BY <1>21, AnnouncedFrame DEF vars
<1>22. QED
    BY <1>1, <1>2, <1>3, <1>4, <1>5, <1>6, <1>7, <1>8, <1>9, <1>10, <1>11, <1>12, <1>13,
       <1>14, <1>15, <1>16, <1>17, <1>18, <1>19, <1>20, <1>21
       DEF Next, LaunchStep, EpilogueStep, BackgroundStep, ProcessStep

\* At first nothing is announced.
LEMMA AnnouncedInitially == Init => AnnouncedIsDurable
BY DEF Init, AnnouncedIsDurable

\* While an outcome is announced the line says it and the run has not moved on,
\* for any number of processes, acquisitions, crashes and storage errors.
THEOREM AnnouncementsAreDurable == Spec => []AnnouncedIsDurable
<1>1. Init => AnnouncedIsDurable
    BY AnnouncedInitially
<1>2. QED
    BY <1>1, TypeCorrect, AnnouncedStep, PTL DEF Spec
-------------------------------------------------------------------------------
(* What a launch presents *)

\* The ways a step may touch views, launches and the line without disturbing
\* what the launches still to be written rely on.
LEMMA LaunchFrame ==
    ASSUME TypeOK, LaunchSeesTheLine,
           row' = row \/ row'.revision = row.revision + 1,
           \A f \in Stretch :
              /\ pc'[f] \in {"acquired", "registered", "launched"} =>
                    pc'[f] = pc[f] /\ acq'[f].receipt = acq[f].receipt
              /\ \/ view'[f] = view[f]
                 \/ /\ view'[f].revision = row'.revision
                    /\ view'[f].status = row'.status
                    /\ row'.status # "missing"
                 \/ view'[f].revision = 0 /\ pc'[f] # "registered"
    PROVE  LaunchSeesTheLine'
<1>1. row.revision \in Nat /\ row'.revision \in Nat /\ row'.revision >= row.revision
    BY DEF TypeOK, StoreTypeOK, RunRow
<1>2. \A f \in Stretch : view[f].revision \in Nat
    BY DEF TypeOK, View
<1>3. QED
    BY <1>1, <1>2 DEF LaunchSeesTheLine

\* Adopting a receipt moves a view to the line just written.
LEMMA AdoptedFrame ==
    ASSUME TypeOK, NEW f \in Stretch, row.status # "missing" => row'.status # "missing",
           NEW g \in Stretch
    PROVE  \/ Adopted(f)[g] = view[g]
           \/ /\ Adopted(f)[g].revision = row'.revision
              /\ Adopted(f)[g].status = row'.status
              /\ row'.status # "missing"
BY DEF Adopted, TypeOK

\* A refresh moves a view to the line read.
LEMMA RefreshedFrame ==
    ASSUME TypeOK, NEW p \in Process, NEW g \in Stretch
    PROVE  \/ Refreshed(p)[g] = view[g]
           \/ /\ Refreshed(p)[g].revision = row.revision
              /\ Refreshed(p)[g].status = row.status
BY DEF Refreshed, TypeOK

\* A view that is dropped is older than any line.
LEMMA ForgottenFrame ==
    ASSUME TypeOK, NEW f \in Stretch, NEW g \in Stretch
    PROVE  Forgotten(f)[g] = view[g] \/ (g = f /\ Forgotten(f)[g].revision = 0)
BY DEF Forgotten, TypeOK

\* A cancel writes the line once, or not at all.
LEMMA CancelFrame ==
    ASSUME Cancel
    PROVE  /\ row' = row \/ row'.revision = row.revision + 1
           /\ row'.status = "cancelled"
BY PutStatus DEF Cancel

\* Every step keeps the views no newer than the line.
LEMMA LaunchSeesStep ==
    ASSUME TypeOK, LaunchSeesTheLine, [Next]_vars
    PROVE  LaunchSeesTheLine'
<1>1. ASSUME NEW p \in Process,
             \/ \E mode \in Requests : Prepare(p, mode)
             \/ AcquireRefused(p) \/ UnleasedRefused(p) \/ ArmPlan(p) \/ Rearm(p)
      PROVE  LaunchSeesTheLine'
    BY <1>1, LaunchFrame DEF Prepare, AcquireRefused, UnleasedRefused, ArmPlan, Rearm
<1>2. ASSUME NEW p \in Process, Resume(p)
      PROVE  LaunchSeesTheLine'
    BY <1>2, LaunchFrame, RefreshedFrame DEF Resume
<1>3. ASSUME NEW p \in Process, Fire(p)
      PROVE  LaunchSeesTheLine'
    BY <1>3, LaunchFrame, RefreshedFrame DEF Fire, ResumeTokenHolds
<1>4. ASSUME NEW p \in Process, AcquireRun(p)
      PROVE  LaunchSeesTheLine'
    <2>1. acq'[fence + 1].receipt = 0
        <3>1. fence + 1 \in Stretch
            BY <1>4 DEF AcquireRun, TypeOK, Stretch
        <3>2. QED
            BY <1>4, <3>1 DEF AcquireRun, Unborn
    <2>2. \A g \in Stretch : g # fence + 1 =>
             acq'[g].receipt = acq[g].receipt /\ pc'[g] = pc[g]
        BY <1>4 DEF AcquireRun, Goto, TypeOK, Acq
    <2>3. \A g \in Stretch : g = fence + 1 => pc'[g] = "acquired"
        BY <1>4 DEF AcquireRun, Goto, TypeOK
    <2>4. row' = row /\ view' = view
        BY <1>4 DEF AcquireRun, Acquire
    <2>5. QED
        BY <2>1, <2>2, <2>3, <2>4 DEF LaunchSeesTheLine
<1>5. ASSUME NEW f \in Stretch, Admit(f)
      PROVE  LaunchSeesTheLine'
    <2>1. \A g \in Stretch : acq'[g].receipt = acq[g].receipt
        BY <1>5 DEF Admit, TypeOK, Acq
    <2>2. \A g \in Stretch : g # f => pc'[g] = pc[g] /\ view'[g] = view[g]
        BY <1>5 DEF Admit, Goto, TypeOK
    <2>3. \/ pc'[f] = "refusing" /\ view'[f] = view[f]
          \/ /\ pc'[f] = "registered"
             /\ view'[f].revision = row.revision /\ view'[f].status = "running"
        BY <1>5 DEF Admit, Goto, TypeOK
    <2>4. row' = row /\ row.revision \in Nat
        BY <1>5 DEF Admit, TypeOK, StoreTypeOK, RunRow
    <2>5. pc[f] = "acquired"
        BY <1>5 DEF Admit
    <2>6. QED
        BY <2>1, <2>2, <2>3, <2>4, <2>5 DEF LaunchSeesTheLine
<1>6. ASSUME NEW f \in Stretch, LaunchWrite(f)
      PROVE  LaunchSeesTheLine'
    <2>1. PICK ok \in BOOLEAN : LaunchWrite(f)!2!(ok)
        BY <1>6 DEF LaunchWrite
    <2>2. row.revision \in Nat /\ view[f].status # "missing"
        BY <1>6 DEF LaunchWrite, LaunchSeesTheLine, TypeOK, StoreTypeOK, RunRow
    <2>3. /\ row' = row \/ row'.revision = row.revision + 1
          /\ row.status # "missing" => row'.status # "missing"
        BY <2>1, <2>2, PutStatus
    <2>4. \A g \in Stretch :
             \/ view'[g] = view[g]
             \/ /\ view'[g].revision = row'.revision
                /\ view'[g].status = row'.status
                /\ row'.status # "missing"
        BY <2>1, <2>3, AdoptedFrame
    <2>5. CASE ok /\ CanWrite(f, "launch", view[f].revision, "running")
        <3>1. pc'[f] = "launched" /\ acq'[f].receipt # 0
            BY <2>1, <2>2, <2>5 DEF Goto, TypeOK, Acq
        <3>2. \A g \in Stretch : g # f => pc'[g] = pc[g] /\ acq'[g] = acq[g]
            BY <2>1, <2>5 DEF Goto, TypeOK
        <3>3. \A g \in Stretch : view[g].revision \in Nat
            BY DEF TypeOK, View
        <3>4. QED
            BY <2>2, <2>3, <2>4, <3>1, <3>2, <3>3 DEF LaunchSeesTheLine
    <2>6. CASE ~(ok /\ CanWrite(f, "launch", view[f].revision, "running"))
        BY <2>1, <2>3, <2>4, <2>6, LaunchFrame DEF Goto, TypeOK
    <2>7. QED
        BY <2>5, <2>6
<1>7. ASSUME NEW f \in Stretch, Submit(f) \/ LaunchFails(f) \/ EnterGuard(f) \/ OnPaused(f)
      PROVE  LaunchSeesTheLine'
    <2>1. \A g \in Stretch : g # f => pc'[g] = pc[g] /\ acq'[g] = acq[g]
        BY <1>7 DEF Submit, LaunchFails, EnterGuard, OnPaused, Goto, TypeOK
    <2>2. pc'[f] \notin {"acquired", "registered", "launched"}
        BY <1>7 DEF Submit, LaunchFails, EnterGuard, OnPaused, Goto, TypeOK
    <2>3. row' = row /\ view' = view
        BY <1>7 DEF Submit, LaunchFails, EnterGuard, OnPaused
    <2>4. QED
        BY <2>1, <2>2, <2>3, LaunchFrame
<1>8. ASSUME NEW f \in Stretch, Abandon(f)
      PROVE  LaunchSeesTheLine'
    <2>1. row' = row \/ row'.revision = row.revision + 1
        BY <1>8, PutStatus DEF Abandon
    <2>2. QED
        BY <1>8, <2>1, LaunchFrame DEF Abandon, Goto, TypeOK
<1>9. ASSUME NEW f \in Stretch, ReleaseRefused(f) \/ SkipPublication(f) \/ Publish(f)
      PROVE  LaunchSeesTheLine'
    <2>1. \A g \in Stretch : g # f => pc'[g] = pc[g] /\ acq'[g] = acq[g]
        BY <1>9 DEF ReleaseRefused, SkipPublication, Publish, Goto, TypeOK
    <2>2. pc'[f] \in Ended
        BY <1>9 DEF ReleaseRefused, SkipPublication, Publish, Goto, TypeOK, Ended
    <2>3. row' = row /\ view' = Forgotten(f)
        BY <1>9 DEF ReleaseRefused, SkipPublication, Publish
    <2>4. QED
        BY <2>1, <2>2, <2>3, ForgottenFrame, LaunchFrame DEF Ended
<1>10. ASSUME NEW f \in Stretch,
              Capture(f) \/ Beat(f) \/ LeaseLost(f) \/ BusyRenewal(f)
       PROVE  LaunchSeesTheLine'
    <2>1. CASE Capture(f)
        <3>1. \A g \in Stretch : acq'[g].receipt = acq[g].receipt
            BY <2>1 DEF Capture, TypeOK, Acq
        <3>2. QED
            BY <2>1, <3>1, LaunchFrame DEF Capture
    <2>2. CASE Beat(f)
        BY <2>2, LaunchFrame DEF Beat
    <2>3. CASE LeaseLost(f) \/ BusyRenewal(f)
        <3>1. AbortFenced(f)
            BY <2>3 DEF LeaseLost, BusyRenewal
        <3>2. \A g \in Stretch : acq'[g].receipt = acq[g].receipt
            BY <3>1 DEF AbortFenced, TypeOK, Acq
        <3>3. QED
            BY <3>1, <3>2, LaunchFrame DEF AbortFenced
    <2>4. QED
        BY <1>10, <2>1, <2>2, <2>3
<1>11. ASSUME NEW f \in Stretch, WriteSnapshot(f)
       PROVE  LaunchSeesTheLine'
    <2>1. /\ row' = row \/ row'.revision = row.revision + 1
          /\ row'.status = row.status
        BY <1>11, PutStatus DEF WriteSnapshot, CanWrite
    <2>2. QED
        BY <1>11, <2>1, AdoptedFrame, LaunchFrame DEF WriteSnapshot
<1>12. ASSUME NEW f \in Stretch, Finish(f)
       PROVE  LaunchSeesTheLine'
    <2>1. PICK o \in Outcomes, ok \in BOOLEAN :
            /\ row' = row \/ Put(StatusOf(o), ReasonOf(o), acq[f].attempts)
            /\ view' = view \/ view' = Adopted(f)
        BY <1>12 DEF Finish
    <2>2. StatusOf(o) # "missing"
        BY DEF StatusOf, Outcome, Paused, Finished
    <2>3. /\ row' = row \/ row'.revision = row.revision + 1
          /\ row.status # "missing" => row'.status # "missing"
        BY <2>1, <2>2, PutStatus
    <2>4. \A g \in Stretch :
             pc'[g] \in {"acquired", "registered", "launched"} =>
                pc'[g] = pc[g] /\ acq'[g].receipt = acq[g].receipt
        BY <1>12 DEF Finish, Goto, TypeOK
    <2>5. QED
        BY <2>1, <2>3, <2>4, AdoptedFrame, LaunchFrame
<1>13. ASSUME NEW f \in Stretch, Settle(f)
       PROVE  LaunchSeesTheLine'
    <2>1. /\ row' = row \/ row'.revision = row.revision + 1
          /\ row'.status = row.status
        BY <1>13, PutStatus DEF Settle, CanWrite
    <2>2. \A g \in Stretch :
             pc'[g] \in {"acquired", "registered", "launched"} =>
                pc'[g] = pc[g] /\ acq'[g].receipt = acq[g].receipt
        BY <1>13 DEF Settle, Goto, TypeOK
    <2>3. view' = view \/ view' = Adopted(f)
        BY <1>13 DEF Settle
    <2>4. QED
        BY <2>1, <2>2, <2>3, AdoptedFrame, LaunchFrame
<1>14. ASSUME NEW f \in Stretch, ReleaseRun(f)
       PROVE  LaunchSeesTheLine'
    <2>1. \A g \in Stretch :
             pc'[g] \in {"acquired", "registered", "launched"} =>
                pc'[g] = pc[g] /\ acq'[g].receipt = acq[g].receipt
        BY <1>14 DEF ReleaseRun, Goto, TypeOK
    <2>2. QED
        BY <1>14, <2>1, LaunchFrame DEF ReleaseRun
<1>15. ASSUME NEW p \in Process, NEW g \in Presentable(p), CancelRun(p, g)
       PROVE  LaunchSeesTheLine'
    <2>1. \A f \in Stretch : acq'[f].receipt = acq[f].receipt
        BY <1>15 DEF CancelRun, TypeOK, Acq
    <2>2. row' = row \/ (row'.revision = row.revision + 1 /\ row'.status = "cancelled")
        BY <1>15, CancelFrame DEF CancelRun, Cancel
    <2>3. view' = view \/ (g \in Stretch /\ view' = Adopted(g))
        BY <1>15 DEF CancelRun, Presentable
    <2>4. QED
        BY <1>15, <2>1, <2>2, <2>3, AdoptedFrame, LaunchFrame DEF CancelRun
<1>16. ASSUME NEW p \in Process, AbortRoute(p)
       PROVE  LaunchSeesTheLine'
    <2>1. row' = row \/ (row'.revision = row.revision + 1 /\ row'.status = "cancelled")
        BY <1>16, CancelFrame DEF AbortRoute, Cancel
    <2>2. view' = view \/ \E g \in Stretch : view' = Adopted(g)
        BY <1>16 DEF AbortRoute, Answering, TypeOK, Stretch
    <2>3. QED
        BY <1>16, <2>1, <2>2, AdoptedFrame, LaunchFrame DEF AbortRoute
<1>17. ASSUME NEW p \in Process, Crash(p)
       PROVE  LaunchSeesTheLine'
    <2>1. \A f \in Stretch :
             pc'[f] \in {"acquired", "registered", "launched"} =>
                Owner(f) # p /\ pc'[f] = pc[f]
        BY <1>17 DEF Crash, Ended
    <2>2. \A f \in Stretch :
             view'[f] = view[f] \/ (Owner(f) = p /\ view'[f].revision = 0)
        BY <1>17, ForgottenFrame DEF Crash
    <2>3. row' = row /\ \A f \in Stretch : Owner(f) # p => acq'[f] = acq[f]
        BY <1>17 DEF Crash
    <2>4. QED
        BY <2>1, <2>2, <2>3, LaunchFrame
<1>18. CASE Time
    BY <1>18, LaunchFrame DEF Time, Tick
<1>19. CASE UNCHANGED vars
    BY <1>19, LaunchFrame DEF vars
<1>20. QED
    BY <1>1, <1>2, <1>3, <1>4, <1>5, <1>6, <1>7, <1>8, <1>9, <1>10, <1>11, <1>12, <1>13,
       <1>14, <1>15, <1>16, <1>17, <1>18, <1>19
       DEF Next, LaunchStep, EpilogueStep, BackgroundStep, ProcessStep

\* At first nothing is launched.
LEMMA LaunchSeesInitially == Init => LaunchSeesTheLine
BY DEF Init, StoreInit, Missing, NoView, LaunchSeesTheLine

\* A launch write never presents a view that is newer than the line or that
\* says something else of the revision it is compared with.
THEOREM LaunchesSeeTheLine == Spec => []LaunchSeesTheLine
<1>1. Init => LaunchSeesTheLine
    BY LaunchSeesInitially
<1>2. QED
    BY <1>1, TypeCorrect, LaunchSeesStep, PTL DEF Spec
-------------------------------------------------------------------------------
(* RunOwnership implements RunLifecycle *)

\* PhaseOf, read as a table.
PhaseTable ==
    /\ pc[fence] \in {"acquired", "registered"} => CurrentPhase = "launching"
    /\ pc[fence] = "launched" => CurrentPhase = "launched"
    /\ pc[fence] = "abandoning" =>
          CurrentPhase = IF acq[fence].receipt # 0 THEN "launched" ELSE "closed"
    /\ pc[fence] = "running" => CurrentPhase = "executing"
    /\ pc[fence] \in {"decided", "drained", "snapped", "released"} =>
          CurrentPhase = IF acq[fence].accepted THEN "decided" ELSE "closed"
    /\ pc[fence] = "publishing" => CurrentPhase = "announcing"
    /\ pc[fence] \in {"refusing", "refused", "done", "dead"} => CurrentPhase = "closed"

\* The phase of the acquisition that counts, by where its thread is.
LEMMA PhaseLookup == fence # 0 => PhaseTable
    BY DEF PhaseTable, CurrentPhase, PhaseOf, Executing

\* The same after a step.
LEMMA PhaseLookupNext == fence' # 0 => PhaseTable'
    BY DEF PhaseTable, CurrentPhase, PhaseOf, Executing

\* An acquisition that was made has a phase.
LEMMA PhaseNone == (fence # 0 => CurrentPhase # "none")
    BY DEF CurrentPhase, PhaseOf

\* A step that leaves the status and the acquisition that counts alone.
LEMMA InvisibleFrame ==
    ASSUME TypeOK, fence' = fence, row'.status = row.status,
           fence # 0 =>
              /\ pc'[fence] = pc[fence]
              /\ acq'[fence].receipt = acq[fence].receipt
              /\ acq'[fence].accepted = acq[fence].accepted
    PROVE  UNCHANGED Lifecycle!lifecycleVars
<1>1. fence # 0 => fence \in Stretch
    BY DEF TypeOK, Stretch
<1>2. CurrentPhase' = CurrentPhase
    BY <1>1 DEF CurrentPhase, PhaseOf
<1>3. QED
    BY <1>2 DEF Lifecycle!lifecycleVars

\* The acquisition that counts is given up: it never counts as anything again.
LEMMA CloseFrame ==
    ASSUME TypeOK, fence' = fence, fence # 0, row'.status = row.status,
           pc'[fence] \in {"refusing", "refused", "done", "dead"}
    PROVE  Lifecycle!Close
<1>1. CurrentPhase' = "closed"
    BY PhaseLookupNext DEF PhaseTable
<1>2. QED
    BY <1>1, PhaseNone DEF Lifecycle!Close

\* Nothing is being announced while nobody holds the guard.
LEMMA GuardFreePhase ==
    ASSUME TypeOK, AnnouncedIsDurable, GuardFree
    PROVE  CurrentPhase # "announcing"
<1>1. CASE fence = 0
    BY <1>1 DEF CurrentPhase
<1>2. CASE fence # 0
    <2>1. fence \in Stretch
        BY <1>2 DEF TypeOK, Stretch
    <2>2. pc[fence] # "publishing"
        BY <2>1, <1>2 DEF AnnouncedIsDurable, GuardFree
    <2>3. QED
        BY <2>1, <2>2, <1>2 DEF CurrentPhase, PhaseOf, Executing
<1>3. QED
    BY <1>1, <1>2

\* Every step is a step of the lifecycle, or a stutter.
LEMMA LifecycleStep ==
    ASSUME TypeOK, AnnouncedIsDurable, LaunchSeesTheLine, [Next]_vars
    PROVE  [Lifecycle!LifecycleNext]_(Lifecycle!lifecycleVars)
<1> DEFINE Goal == [Lifecycle!LifecycleNext]_(Lifecycle!lifecycleVars)
<1> SUFFICES Goal
    OBVIOUS
<1>1. fence # 0 => fence \in Stretch
    BY DEF TypeOK, Stretch
<1>2. UNCHANGED Lifecycle!lifecycleVars => Goal
    OBVIOUS
<1>3. Lifecycle!Close => Goal
    BY DEF Lifecycle!LifecycleNext
<1>4. \A f \in Stretch : f # 0 /\ (Lifecycle!CancelLine => Goal)
    BY DEF Lifecycle!LifecycleNext, Stretch
<1>5. ASSUME NEW p \in Process, AcquireRun(p)
      PROVE  Goal
    <2>1. fence' = fence + 1 /\ fence' \in Stretch /\ row' = row
        BY <1>5 DEF AcquireRun, Acquire, TypeOK, Stretch
    <2>2. pc'[fence'] = "acquired"
        BY <1>5, <2>1 DEF AcquireRun, Goto, TypeOK
    <2>3. CurrentPhase' = "launching"
        BY <2>1, <2>2, PhaseLookupNext DEF PhaseTable, Stretch
    <2>4. CurrentPhase # "announcing"
        BY <1>5, GuardFreePhase DEF AcquireRun, CanAcquire
    <2>5. QED
        BY <2>1, <2>3, <2>4 DEF Lifecycle!LifecycleNext, Lifecycle!Take
<1>6. ASSUME NEW f \in Stretch, Admit(f)
      PROVE  Goal
    <2>1. row' = row /\ fence' = fence
        BY <1>6 DEF Admit
    <2>2. CASE f = fence /\ pc'[f] = "refusing"
        BY <1>3, <1>4, <2>1, <2>2, CloseFrame
    <2>3. CASE f = fence /\ pc'[f] # "refusing"
        <3>1. pc[fence] = "acquired" /\ pc'[fence] = "registered"
            BY <1>6, <2>3 DEF Admit, Goto, TypeOK
        <3>2. CurrentPhase' = CurrentPhase
            BY <1>4, <2>1, <2>3, <3>1, PhaseLookup, PhaseLookupNext DEF PhaseTable
        <3>3. QED
            BY <1>2, <2>1, <3>2 DEF Lifecycle!lifecycleVars
    <2>4. CASE f # fence
        <3>1. fence # 0 => pc'[fence] = pc[fence] /\ acq'[fence] = acq[fence]
            BY <1>1, <1>6, <2>4 DEF Admit, Goto, TypeOK
        <3>2. QED
            BY <1>2, <2>1, <3>1, InvisibleFrame
    <2>5. QED
        BY <2>2, <2>3, <2>4
<1>7. ASSUME NEW f \in Stretch, LaunchWrite(f)
      PROVE  Goal
    <2>1. PICK ok \in BOOLEAN :
            /\ pc[f] = "registered" /\ fence' = fence
            /\ IF ok /\ CanWrite(f, "launch", view[f].revision, "running")
                 THEN /\ Put(view[f].status, LaunchReason(f), NextAttempt(f))
                      /\ Goto(f, "launched")
                      /\ acq' = [acq EXCEPT ![f].receipt = row.revision + 1,
                                            ![f].attempts = NextAttempt(f)]
                 ELSE Goto(f, "refusing") /\ UNCHANGED <<row, acq>>
        BY <1>7 DEF LaunchWrite
    <2>2. CASE ok /\ CanWrite(f, "launch", view[f].revision, "running")
        <3>1. f = fence /\ row.revision = view[f].revision
            BY <2>2 DEF CanWrite, LaunchModes
        <3>2. row'.status = view[f].status
            BY <2>1, <2>2 DEF Put
        <3>3. row'.status = "running" \/ (row.status # "missing" /\ row'.status = row.status)
            BY <2>1, <3>1, <3>2 DEF LaunchSeesTheLine
        <3>4. pc'[fence] = "launched"
            BY <2>1, <2>2, <3>1 DEF Goto, TypeOK
        <3>5. CurrentPhase = "launching" /\ CurrentPhase' = "launched"
            BY <1>4, <2>1, <3>1, <3>4, PhaseLookup, PhaseLookupNext DEF PhaseTable
        <3>6. QED
            BY <2>1, <3>3, <3>5 DEF Lifecycle!LifecycleNext, Lifecycle!Launch
    <2>3. CASE ~(ok /\ CanWrite(f, "launch", view[f].revision, "running"))
        <3>1. row' = row /\ acq' = acq /\ pc' = [pc EXCEPT ![f] = "refusing"]
            BY <2>1, <2>3 DEF Goto
        <3>2. CASE f = fence
            <4>1. pc'[fence] = "refusing"
                BY <3>1, <3>2 DEF TypeOK
            <4>2. QED
                BY <1>3, <1>4, <2>1, <3>1, <3>2, <4>1, CloseFrame
        <3>3. CASE f # fence
            <4>1. fence # 0 => pc'[fence] = pc[fence]
                BY <1>1, <3>1, <3>3 DEF TypeOK
            <4>2. QED
                BY <1>2, <2>1, <3>1, <4>1, InvisibleFrame
        <3>4. QED
            BY <3>2, <3>3
    <2>4. QED
        BY <2>2, <2>3
<1>8. ASSUME NEW f \in Stretch, Submit(f)
      PROVE  Goal
    <2>1. row' = row /\ fence' = fence
        BY <1>8 DEF Submit
    <2>2. CASE f = fence
        <3>1. pc[fence] = "launched" /\ pc'[fence] = "running"
            BY <1>8, <2>2 DEF Submit, Goto, TypeOK
        <3>2. CurrentPhase = "launched" /\ CurrentPhase' = "executing"
            BY <1>4, <2>1, <2>2, <3>1, PhaseLookup, PhaseLookupNext DEF PhaseTable
        <3>3. QED
            BY <2>1, <3>2 DEF Lifecycle!LifecycleNext, Lifecycle!Execute
    <2>3. CASE f # fence
        <3>1. fence # 0 => pc'[fence] = pc[fence] /\ acq'[fence] = acq[fence]
            BY <1>1, <1>8, <2>3 DEF Submit, Goto, TypeOK
        <3>2. QED
            BY <1>2, <2>1, <3>1, InvisibleFrame
    <2>4. QED
        BY <2>2, <2>3
<1>9. ASSUME NEW f \in Stretch, LaunchFails(f)
      PROVE  Goal
    <2>1. row' = row /\ fence' = fence /\ acq' = acq
        BY <1>9 DEF LaunchFails
    <2>2. CASE f = fence
        <3>1. /\ pc[fence] \in {"acquired", "registered", "launched"}
              /\ pc'[fence] = "abandoning"
            BY <1>9, <2>2 DEF LaunchFails, Goto, TypeOK
        <3>2. CurrentPhase' = IF acq[fence].receipt # 0 THEN "launched" ELSE "closed"
            BY <1>4, <2>1, <2>2, <3>1, PhaseLookupNext DEF PhaseTable
        <3>3. CASE pc[fence] = "launched"
            <4>1. CurrentPhase' = CurrentPhase
                BY <1>4, <2>2, <3>2, <3>3, PhaseLookup DEF PhaseTable, LaunchSeesTheLine
            <4>2. QED
                BY <1>2, <2>1, <4>1 DEF Lifecycle!lifecycleVars
        <3>4. CASE pc[fence] # "launched"
            <4>1. CurrentPhase' = "closed" /\ CurrentPhase # "none"
                BY <1>4, <2>2, <3>1, <3>2, <3>4, PhaseNone DEF LaunchSeesTheLine
            <4>2. QED
                BY <1>3, <2>1, <4>1 DEF Lifecycle!Close
        <3>5. QED
            BY <3>3, <3>4
    <2>3. CASE f # fence
        <3>1. fence # 0 => pc'[fence] = pc[fence]
            BY <1>1, <1>9, <2>3 DEF LaunchFails, Goto, TypeOK
        <3>2. QED
            BY <1>2, <2>1, <3>1, InvisibleFrame
    <2>4. QED
        BY <2>2, <2>3
<1>10. ASSUME NEW f \in Stretch, Abandon(f)
       PROVE  Goal
    <2>1. PICK ok \in BOOLEAN :
            /\ fence' = fence /\ acq' = acq
            /\ pc[f] = "abandoning" /\ Goto(f, "refusing")
            /\ IF ok /\ acq[f].receipt # 0
                      /\ CanWrite(f, "refuse_launch", acq[f].receipt, Restored(f))
                 THEN Put(Restored(f), acq[f].prior.reason, acq[f].prior.attempts)
                 ELSE UNCHANGED row
        BY <1>10 DEF Abandon
    <2>2. CASE f = fence
        <3>1. pc'[fence] = "refusing"
            BY <2>1, <2>2 DEF Goto, TypeOK
        <3>2. CASE row' = row
            BY <1>3, <1>4, <2>1, <2>2, <3>1, <3>2, CloseFrame
        <3>3. CASE row' # row
            <4>1. acq[f].receipt # 0 /\ row'.status = Restored(f)
                BY <2>1, <3>3 DEF Put
            <4>2. acq[f].prior.status \in Status \cup {"missing"}
                BY DEF TypeOK, Acq, RunRow
            <4>3. Restored(f) \in Finished \cup {"paused", "cancelled"}
                BY <4>2 DEF Restored, Status, Finished
            <4>4. CurrentPhase = "launched" /\ CurrentPhase' = "closed"
                BY <1>4, <2>1, <2>2, <3>1, <4>1, PhaseLookup, PhaseLookupNext DEF PhaseTable
            <4>5. QED
                BY <2>1, <4>1, <4>3, <4>4
                   DEF Lifecycle!LifecycleNext, Lifecycle!Withdraw, Lifecycle!Decision,
                       Lifecycle!Verdict, Finished
        <3>4. QED
            BY <3>2, <3>3
    <2>3. CASE f # fence
        <3>1. row' = row
            BY <2>1, <2>3 DEF CanWrite
        <3>2. fence # 0 => pc'[fence] = pc[fence]
            BY <1>1, <2>1, <2>3 DEF Goto, TypeOK
        <3>3. QED
            BY <1>2, <2>1, <3>1, <3>2, InvisibleFrame
    <2>4. QED
        BY <2>2, <2>3
<1>11. ASSUME NEW f \in Stretch, ReleaseRefused(f) \/ SkipPublication(f) \/ Publish(f)
       PROVE  Goal
    <2>1. row' = row /\ fence' = fence
        BY <1>11 DEF ReleaseRefused, SkipPublication, Publish
    <2>2. CASE f = fence
        <3>1. pc'[fence] \in {"refused", "done"}
            BY <1>11, <2>2 DEF ReleaseRefused, SkipPublication, Publish, Goto, TypeOK
        <3>2. QED
            BY <1>3, <1>4, <2>1, <2>2, <3>1, CloseFrame
    <2>3. CASE f # fence
        <3>1. fence # 0 => pc'[fence] = pc[fence] /\ acq'[fence] = acq[fence]
            BY <1>1, <1>11, <2>3 DEF ReleaseRefused, SkipPublication, Publish, Goto, TypeOK
        <3>2. QED
            BY <1>2, <2>1, <3>1, InvisibleFrame
    <2>4. QED
        BY <2>2, <2>3
<1>12. ASSUME NEW f \in Stretch, Finish(f)
       PROVE  Goal
    <2>1. PICK o \in Outcomes, ok \in BOOLEAN :
            LET written == ok /\ CanWrite(f, "finish", AnyRevision, StatusOf(o)) IN
            /\ pc[f] = "running" /\ fence' = fence
            /\ acq' = [acq EXCEPT ![f].outcome = o, ![f].accepted = written,
                                  ![f].halted = FALSE]
            /\ IF written THEN Put(StatusOf(o), ReasonOf(o), acq[f].attempts)
                          ELSE UNCHANGED row
            /\ Goto(f, IF written /\ o = "quota" THEN "decided" ELSE "drained")
        BY <1>12 DEF Finish
    <2> DEFINE written == ok /\ CanWrite(f, "finish", AnyRevision, StatusOf(o))
    <2>2. CASE f = fence
        <3>1. pc'[fence] \in {"decided", "drained"}
            BY <2>1, <2>2 DEF Goto, TypeOK
        <3>2. acq'[fence].accepted = written
            BY <2>1, <2>2 DEF TypeOK, Acq
        <3>3. CurrentPhase = "executing"
            BY <1>4, <2>1, <2>2, PhaseLookup DEF PhaseTable
        <3>4. CurrentPhase' = IF written THEN "decided" ELSE "closed"
            BY <1>4, <2>1, <2>2, <3>1, <3>2, PhaseLookupNext DEF PhaseTable
        <3>5. CASE written
            <4>1. row.status = "running"
                BY <3>5 DEF CanWrite
            <4>2. row'.status = StatusOf(o)
                BY <2>1, <3>5 DEF Put
            <4>3. StatusOf(o) \in Finished \cup {"paused", "cancelled"}
                BY DEF StatusOf, Outcome, Paused
            <4>4. QED
                BY <2>1, <3>3, <3>4, <3>5, <4>1, <4>2, <4>3
                   DEF Lifecycle!LifecycleNext, Lifecycle!Decide, Lifecycle!Decision,
                       Lifecycle!Verdict, Finished
        <3>6. CASE ~written
            BY <1>3, <2>1, <3>3, <3>4, <3>6 DEF Lifecycle!Close
        <3>7. QED
            BY <3>5, <3>6
    <2>3. CASE f # fence
        <3>1. row' = row
            BY <2>1, <2>3 DEF CanWrite
        <3>2. fence # 0 => pc'[fence] = pc[fence] /\ acq'[fence] = acq[fence]
            BY <1>1, <2>1, <2>3 DEF Goto, TypeOK
        <3>3. QED
            BY <1>2, <2>1, <3>1, <3>2, InvisibleFrame
    <2>4. QED
        BY <2>2, <2>3
<1>13. ASSUME NEW f \in Stretch, OnPaused(f) \/ Settle(f) \/ ReleaseRun(f)
       PROVE  Goal
    <2>1. row'.status = row.status /\ fence' = fence
        BY <1>13, PutStatus DEF OnPaused, Settle, ReleaseRun, CanWrite
    <2>2. \A g \in Stretch : acq'[g].accepted = acq[g].accepted
        <3>1. CASE OnPaused(f)
            BY <3>1 DEF OnPaused
        <3>2. CASE Settle(f)
            BY <3>2 DEF Settle, TypeOK, Acq
        <3>3. CASE ReleaseRun(f)
            BY <3>3 DEF ReleaseRun, TypeOK, Acq
        <3>4. QED
            BY <1>13, <3>1, <3>2, <3>3
    <2>3. CASE f = fence
        <3>1. /\ pc[fence] \in {"decided", "drained", "snapped", "released"}
              /\ pc'[fence] \in {"decided", "drained", "snapped", "released"}
            BY <1>13, <2>3 DEF OnPaused, Settle, ReleaseRun, Goto, TypeOK
        <3>2. CurrentPhase' = CurrentPhase
            BY <1>4, <2>1, <2>2, <2>3, <3>1, PhaseLookup, PhaseLookupNext DEF PhaseTable
        <3>3. QED
            BY <1>2, <2>1, <3>2 DEF Lifecycle!lifecycleVars
    <2>4. CASE f # fence
        <3>1. fence # 0 => pc'[fence] = pc[fence] /\ acq'[fence] = acq[fence]
            BY <1>1, <1>13, <2>4 DEF OnPaused, Settle, ReleaseRun, Goto, TypeOK
        <3>2. QED
            BY <1>2, <2>1, <3>1, InvisibleFrame
    <2>5. QED
        BY <2>3, <2>4
<1>14. ASSUME NEW f \in Stretch, EnterGuard(f)
       PROVE  Goal
    <2>1. /\ f = fence /\ fence' = fence /\ row' = row /\ acq' = acq
          /\ pc[fence] = "released" /\ acq[fence].accepted
          /\ row.status = StatusOf(acq[f].outcome) /\ row.status # "cancelled"
        BY <1>14 DEF EnterGuard, MayPublish, StillOurs
    <2>2. pc'[fence] = "publishing"
        BY <1>14, <2>1 DEF EnterGuard, Goto, TypeOK
    <2>3. CurrentPhase = "decided" /\ CurrentPhase' = "announcing"
        BY <1>4, <2>1, <2>2, PhaseLookup, PhaseLookupNext DEF PhaseTable
    <2>4. acq[f].outcome \in Outcome \cup {"none"} /\ row.status \in Status \cup {"missing"}
        BY DEF TypeOK, Acq, StoreTypeOK, RunRow
    <2>5. row.status \in Finished \cup {"paused"}
        BY <2>1, <2>4 DEF StatusOf, Outcome, Paused, Finished, Status
    <2>6. QED
        BY <2>1, <2>3, <2>5
           DEF Lifecycle!LifecycleNext, Lifecycle!Announce, Lifecycle!Decision,
               Lifecycle!Verdict, Finished
<1>15. ASSUME NEW f \in Stretch, BackgroundStep(f)
       PROVE  Goal
    <2>1. row'.status = row.status /\ fence' = fence /\ pc' = pc
        <3>1. CASE WriteSnapshot(f)
            BY <3>1, PutStatus DEF WriteSnapshot, CanWrite
        <3>2. CASE ~WriteSnapshot(f)
            BY <1>15, <3>2 DEF BackgroundStep, Capture, Beat, LeaseLost, BusyRenewal, AbortFenced
        <3>3. QED
            BY <3>1, <3>2
    <2>2. \A g \in Stretch :
             acq'[g].receipt = acq[g].receipt /\ acq'[g].accepted = acq[g].accepted
        <3>1. CASE Capture(f)
            BY <3>1 DEF Capture, TypeOK, Acq
        <3>2. CASE WriteSnapshot(f) \/ Beat(f)
            BY <3>2 DEF WriteSnapshot, Beat
        <3>3. CASE LeaseLost(f) \/ BusyRenewal(f)
            <4>1. AbortFenced(f)
                BY <3>3 DEF LeaseLost, BusyRenewal
            <4>2. QED
                BY <4>1 DEF AbortFenced, TypeOK, Acq
        <3>4. QED
            BY <1>15, <3>1, <3>2, <3>3 DEF BackgroundStep
    <2>3. QED
        BY <1>1, <1>2, <2>1, <2>2, InvisibleFrame
<1>16. ASSUME NEW p \in Process,
              \/ \E mode \in Requests : Prepare(p, mode)
              \/ Resume(p) \/ Fire(p) \/ AcquireRefused(p) \/ UnleasedRefused(p)
              \/ ArmPlan(p) \/ Rearm(p)
       PROVE  Goal
    <2>1. row' = row /\ fence' = fence /\ pc' = pc /\ acq' = acq
        BY <1>16 DEF Prepare, Resume, Fire, AcquireRefused, UnleasedRefused, ArmPlan, Rearm
    <2>2. QED
        BY <1>2, <2>1, InvisibleFrame
<1>17. ASSUME NEW e \in Int, NEW r \in Int, CanCancel(e, r),
              Cancel, fence' = fence, pc' = pc,
              \A g \in Stretch :
                 acq'[g].receipt = acq[g].receipt /\ acq'[g].accepted = acq[g].accepted
       PROVE  Goal
    <2>1. row.status \in {"running", "paused", "cancelled"} /\ GuardFree
        BY <1>17 DEF CanCancel
    <2>2. CASE row' = row
        BY <1>1, <1>2, <1>17, <2>2, InvisibleFrame
    <2>3. CASE row' # row
        <3>1. row.status \in {"running", "paused"} /\ row'.status = "cancelled"
            BY <1>17, <2>1, <2>3 DEF Cancel, Put
        <3>2. CurrentPhase # "announcing"
            BY <2>1, GuardFreePhase
        <3>3. CurrentPhase' = CurrentPhase
            BY <1>1, <1>17 DEF CurrentPhase, PhaseOf
        <3>4. QED
            BY <1>17, <3>1, <3>2, <3>3 DEF Lifecycle!LifecycleNext, Lifecycle!CancelLine
    <2>4. QED
        BY <2>2, <2>3
<1>18. ASSUME NEW p \in Process, NEW g \in Presentable(p), CancelRun(p, g)
       PROVE  Goal
    <2>1. /\ fence' = fence /\ pc' = pc
          /\ \A h \in Stretch :
                acq'[h].receipt = acq[h].receipt /\ acq'[h].accepted = acq[h].accepted
        <3>1. fence' = fence /\ pc' = pc
            BY <1>18 DEF CancelRun
        <3>2. CASE acq' = acq
            BY <3>1, <3>2
        <3>3. CASE acq' # acq
            <4>1. g \in Stretch
                BY <1>18, <3>3 DEF CancelRun, Presentable
            <4>2. \/ acq' = [acq EXCEPT ![g].halted = Halted(g)]
                  \/ acq' = [acq EXCEPT ![g].halted = Halted(g), ![g].fenced = TRUE]
                BY <1>18, <3>3 DEF CancelRun
            <4>3. QED
                BY <3>1, <4>1, <4>2, SMTT(60) DEF TypeOK, Acq
        <3>4. QED
            BY <3>2, <3>3
    <2>2. CASE CanCancel(g, AnyRevision)
        <3>1. g \in Int /\ AnyRevision \in Int
            BY DEF Presentable, Ownerless, AnyRevision, Stretch
        <3>2. QED
            BY <1>17, <1>18, <2>1, <2>2, <3>1 DEF CancelRun
    <2>3. CASE ~CanCancel(g, AnyRevision)
        <3>1. row' = row
            BY <1>18, <2>3 DEF CancelRun
        <3>2. QED
            BY <1>1, <1>2, <2>1, <3>1, InvisibleFrame
    <2>4. QED
        BY <2>2, <2>3
<1>19. ASSUME NEW p \in Process, AbortRoute(p)
       PROVE  Goal
    <2>1. fence' = fence /\ pc' = pc /\ acq' = acq
        BY <1>19 DEF AbortRoute
    <2>2. CASE CanCancel(Ownerless, prep[p].revision)
        <3>1. Ownerless \in Int /\ prep[p].revision \in Int
            BY DEF Ownerless, TypeOK, Prep
        <3>2. QED
            BY <1>17, <1>19, <2>1, <2>2, <3>1 DEF AbortRoute
    <2>3. CASE ~CanCancel(Ownerless, prep[p].revision)
        <3>1. row' = row
            BY <1>19, <2>3 DEF AbortRoute
        <3>2. QED
            BY <1>2, <2>1, <3>1, InvisibleFrame
    <2>4. QED
        BY <2>2, <2>3
<1>20. ASSUME NEW p \in Process, Crash(p)
       PROVE  Goal
    <2>1. row' = row /\ fence' = fence
        BY <1>20 DEF Crash
    <2>2. CASE fence # 0 /\ Owner(fence) = p
        <3>1. pc'[fence] \in Ended
            BY <1>1, <1>20, <2>2 DEF Crash, Ended
        <3>2. QED
            BY <1>3, <2>1, <2>2, <3>1, CloseFrame DEF Ended
    <2>3. CASE fence # 0 => Owner(fence) # p
        <3>1. fence # 0 => pc'[fence] = pc[fence] /\ acq'[fence] = acq[fence]
            BY <1>1, <1>20, <2>3 DEF Crash
        <3>2. QED
            BY <1>2, <2>1, <3>1, InvisibleFrame
    <2>4. QED
        BY <2>2, <2>3
<1>21. CASE Time
    <2>1. row' = row /\ fence' = fence /\ pc' = pc /\ acq' = acq
        BY <1>21 DEF Time, Tick
    <2>2. QED
        BY <1>2, <2>1, InvisibleFrame
<1>22. CASE UNCHANGED vars
    <2>1. row' = row /\ fence' = fence /\ pc' = pc /\ acq' = acq
        BY <1>22 DEF vars
    <2>2. QED
        BY <1>2, <2>1, InvisibleFrame
<1>23. QED
    BY <1>5, <1>6, <1>7, <1>8, <1>9, <1>10, <1>11, <1>12, <1>13, <1>14, <1>15, <1>16,
       <1>18, <1>19, <1>20, <1>21, <1>22
       DEF Next, LaunchStep, EpilogueStep, ProcessStep

\* A run nobody launched is one the lifecycle starts from.
LEMMA LifecycleInitially == Init => Lifecycle!LifecycleInit
BY DEF Init, StoreInit, Missing, CurrentPhase, Lifecycle!LifecycleInit

\* Every step of every thread of every process is, seen from the run, one step
\* of the acquisition that counts, a cancellation, or nothing at all.
THEOREM OwnershipImplementsLifecycle == Spec => ImplementsLifecycle
<1>1. Init => Lifecycle!LifecycleInit
    BY LifecycleInitially
<1>2. TypeOK /\ AnnouncedIsDurable /\ LaunchSeesTheLine /\ [Next]_vars
        => [Lifecycle!LifecycleNext]_(Lifecycle!lifecycleVars)
    BY LifecycleStep
<1>3. QED
    BY <1>1, <1>2, TypeCorrect, AnnouncementsAreDurable, LaunchesSeeTheLine, PTL
       DEF Spec, ImplementsLifecycle, Lifecycle!LifecycleSpec
-------------------------------------------------------------------------------
(* One engine per process *)

\* The steps of a stretch whose process answers for it.
Answered == {"registered", "launched"} \cup Executing

\* A process prepares one launch at a time, and its ticket is out.
OneLaunch ==
    \A f \in Stretch : pc[f] \in Preparing =>
        /\ Owner(f) \in Process
        /\ prep[Owner(f)].step = "launching"
        /\ \A g \in Stretch : pc[g] \in Preparing /\ Owner(g) = Owner(f) => g = f

\* A stretch that is about to launch or runs is the one its process registered.
Registered ==
    \A f \in Stretch : pc[f] \in Answered =>
        Owner(f) \in Process /\ registry[Owner(f)] = f

\* A step that begins no preparation leaves one launch per process.
LEMMA OneLaunchFrame ==
    ASSUME OneLaunch,
           \A f \in Stretch : acq'[f].proc = acq[f].proc,
           \A f \in Stretch : pc'[f] \in Preparing => pc[f] \in Preparing,
           \A f \in Stretch : pc'[f] \in Preparing =>
               prep'[Owner(f)].step = prep[Owner(f)].step
    PROVE  OneLaunch'
BY DEF OneLaunch, Owner

\* A step that leaves the answered launches alone leaves them registered.
LEMMA RegisteredFrame ==
    ASSUME Registered,
           \A f \in Stretch : acq'[f].proc = acq[f].proc,
           \A f \in Stretch : pc'[f] \in Answered =>
              pc[f] \in Answered /\ registry'[Owner(f)] = registry[Owner(f)]
    PROVE  Registered'
BY DEF Registered, Owner

\* Leaving the registry is a step of the stretch itself.
LEMMA DeregisteredFrame ==
    ASSUME TypeOK, Registered, NEW f \in Stretch, NEW g \in Stretch,
           pc[g] \in Answered, g # f
    PROVE  Deregistered(f)[Owner(g)] = registry[Owner(g)]
BY DEF Deregistered, Registered, TypeOK

\* What no step of a stretch changes of any record: whose it is, how it was
\* launched, and, but for the reload and the end of the stretch, that it
\* recovers a run and that it announced.
Ends(f) == ReleaseRefused(f) \/ SkipPublication(f) \/ Publish(f)

\* What the steps of one acquisition leave alone of all of them.
LEMMA FieldsKept ==
    ASSUME TypeOK, NEW f \in Stretch, NEW g \in Stretch,
           LaunchStep(f) \/ Finish(f) \/ EpilogueStep(f) \/ BackgroundStep(f)
    PROVE  /\ acq'[g].proc = acq[g].proc
           /\ acq'[g].mode = acq[g].mode
           /\ acq'[g].orphaned = acq[g].orphaned \/ (g = f /\ Admit(f))
           /\ acq'[g].published = acq[g].published \/ (g = f /\ Ends(f))
<1>1. /\ Closed(f).proc = acq[f].proc
      /\ Closed(f).mode = acq[f].mode
      /\ Closed(f).orphaned = acq[f].orphaned
      /\ [Closed(f) EXCEPT !.published = TRUE].proc = acq[f].proc
      /\ [Closed(f) EXCEPT !.published = TRUE].mode = acq[f].mode
      /\ [Closed(f) EXCEPT !.published = TRUE].orphaned = acq[f].orphaned
    BY DEF Closed, Unborn
<1>2. CASE Admit(f)
    BY <1>2 DEF Admit, TypeOK, Acq
<1>3. CASE LaunchWrite(f)
    <2>1. acq' = acq \/ acq' = [acq EXCEPT ![f].receipt = row.revision + 1,
                                          ![f].attempts = NextAttempt(f)]
        BY <1>3 DEF LaunchWrite
    <2>2. QED
        BY <2>1 DEF TypeOK, Acq
<1>4. CASE Submit(f) \/ LaunchFails(f) \/ Abandon(f)
    <2>1. acq' = acq \/ acq' = [acq EXCEPT ![f].prior = Missing, ![f].receipt = 0]
        BY <1>4 DEF Submit, LaunchFails, Abandon
    <2>2. QED
        BY <2>1 DEF TypeOK, Acq
<1>5. CASE Ends(f)
    BY <1>1, <1>5 DEF Ends, ReleaseRefused, SkipPublication, Publish, TypeOK
<1>6. CASE Capture(f) \/ WriteSnapshot(f) \/ Beat(f)
    <2>1. acq' = acq \/ acq' = [acq EXCEPT ![f].snaps = acq[f].snaps + 1]
        BY <1>6 DEF Capture, WriteSnapshot, Beat
    <2>2. QED
        BY <2>1 DEF TypeOK, Acq
<1>7. CASE LeaseLost(f) \/ BusyRenewal(f)
    <2>1. \E a, b : acq' = [acq EXCEPT ![f].beating = FALSE, ![f].fenced = a, ![f].halted = b]
        BY <1>7 DEF LeaseLost, BusyRenewal, AbortFenced
    <2>2. QED
        BY <2>1 DEF TypeOK, Acq
<1>8. CASE Finish(f)
    <2>1. \E o, written : acq' = [acq EXCEPT ![f].outcome = o, ![f].accepted = written,
                                            ![f].halted = FALSE]
        BY <1>8 DEF Finish
    <2>2. QED
        BY <2>1 DEF TypeOK, Acq
<1>9. CASE OnPaused(f) \/ Settle(f) \/ ReleaseRun(f) \/ EnterGuard(f)
    <2>1. \/ acq' = acq
          \/ \E clean : acq' = [acq EXCEPT ![f].clean = clean]
          \/ acq' = [acq EXCEPT ![f].beating = FALSE]
        BY <1>9 DEF OnPaused, Settle, ReleaseRun, EnterGuard
    <2>2. QED
        BY <2>1 DEF TypeOK, Acq
<1>10. QED
    BY <1>2, <1>3, <1>4, <1>5, <1>6, <1>7, <1>8, <1>9
       DEF LaunchStep, EpilogueStep, BackgroundStep, Ends

\* Nor does a process's own step, but for a new acquisition and a crash.
LEMMA ProcessFieldsKept ==
    ASSUME TypeOK, NEW p \in Process, NEW g \in Stretch,
           ProcessStep(p), ~AcquireRun(p), ~Crash(p)
    PROVE  /\ pc' = pc /\ fence' = fence
           /\ acq'[g].proc = acq[g].proc
           /\ acq'[g].mode = acq[g].mode
           /\ acq'[g].orphaned = acq[g].orphaned
           /\ acq'[g].published = acq[g].published
<1>1. CASE \E h \in Presentable(p) : CancelRun(p, h)
    <2>1. PICK h \in Presentable(p) : CancelRun(p, h)
        BY <1>1
    <2>2. \/ acq' = acq
          \/ h \in Stretch /\ acq' = [acq EXCEPT ![h].halted = Halted(h)]
          \/ h \in Stretch /\ acq' = [acq EXCEPT ![h].halted = Halted(h), ![h].fenced = TRUE]
        BY <2>1 DEF CancelRun, Presentable
    <2>3. QED
        BY <2>1, <2>2, SMTT(60) DEF CancelRun, TypeOK, Acq
<1>2. CASE ~\E h \in Presentable(p) : CancelRun(p, h)
    BY <1>2 DEF ProcessStep, Prepare, Resume, Fire, AcquireRefused, UnleasedRefused,
                ArmPlan, Rearm, AbortRoute
<1>3. QED
    BY <1>1, <1>2

\* A crash forgets that a stretch announced, and nothing else of these.
LEMMA CrashFieldsKept ==
    ASSUME NEW p \in Process, NEW g \in Stretch, Crash(p)
    PROVE  /\ acq'[g].proc = acq[g].proc
           /\ acq'[g].mode = acq[g].mode
           /\ acq'[g].orphaned = acq[g].orphaned
           /\ acq'[g].published => acq[g].published
           /\ Owner(g) # p => pc'[g] = pc[g] /\ acq'[g] = acq[g]
           /\ Owner(g) = p => pc'[g] \in Ended /\ ~acq'[g].published
           /\ pc'[g] = pc[g] \/ pc'[g] = "dead"
           /\ fence' = fence /\ row' = row
BY DEF Crash, Closed, Unborn, Ended

\* Every step keeps one launch per process.
LEMMA OneLaunchStep ==
    ASSUME TypeOK, OneLaunch, [Next]_vars
    PROVE  OneLaunch'
<1>1. ASSUME NEW p \in Process,
             \/ \E mode \in Requests : Prepare(p, mode)
             \/ Resume(p) \/ Fire(p) \/ AcquireRefused(p) \/ UnleasedRefused(p)
             \/ ArmPlan(p) \/ Rearm(p) \/ AbortRoute(p)
      PROVE  OneLaunch'
    <2>1. pc' = pc /\ acq' = acq
        BY <1>1 DEF Prepare, Resume, Fire, AcquireRefused, UnleasedRefused, ArmPlan, Rearm,
                    AbortRoute
    <2>2. \A q \in Process : prep'[q] = prep[q] \/ prep[q].step # "launching"
        BY <1>1 DEF Prepare, Resume, Fire, AcquireRefused, UnleasedRefused, ArmPlan, Rearm,
                    AbortRoute, TypeOK
    <2>3. QED
        BY <2>1, <2>2, OneLaunchFrame DEF OneLaunch
<1>2. ASSUME NEW p \in Process, AcquireRun(p)
      PROVE  OneLaunch'
    <2> DEFINE new == fence + 1
    <2>1. new \in Stretch
        BY <1>2 DEF AcquireRun, TypeOK, Stretch
    <2>2. pc'[new] = "acquired" /\ acq'[new].proc = p
        BY <1>2, <2>1 DEF AcquireRun, Goto, TypeOK, Unborn
    <2>3. \A g \in Stretch : g # new => pc'[g] = pc[g] /\ acq'[g].proc = acq[g].proc
        BY <1>2 DEF AcquireRun, Goto, TypeOK, Acq
    <2>4. \A g \in Stretch : pc[g] \in Preparing => Owner(g) # p
        BY <1>2 DEF AcquireRun, OneLaunch
    <2>5. prep'[p].step = "launching" /\ \A q \in Process : q # p => prep'[q] = prep[q]
        BY <1>2 DEF AcquireRun, Idle, TypeOK
    <2> HIDE DEF new
    <2>6. QED
        BY <2>1, <2>2, <2>3, <2>4, <2>5 DEF OneLaunch, Owner, Preparing
<1>3. ASSUME NEW f \in Stretch,
             Admit(f) \/ LaunchWrite(f) \/ LaunchFails(f) \/ Abandon(f)
      PROVE  OneLaunch'
    <2>1. \A g \in Stretch : pc'[g] = pc[g] \/ (g = f /\ pc[f] \in Preparing)
        BY <1>3 DEF Admit, LaunchWrite, LaunchFails, Abandon, Goto, TypeOK, Preparing
    <2>2. prep' = prep
        BY <1>3 DEF Admit, LaunchWrite, LaunchFails, Abandon
    <2>3. QED
        BY <1>3, <2>1, <2>2, FieldsKept, OneLaunchFrame DEF LaunchStep
<1>4. ASSUME NEW f \in Stretch, Submit(f) \/ ReleaseRefused(f)
      PROVE  OneLaunch'
    <2>1. pc[f] \in Preparing /\ \A g \in Stretch : g # f => pc'[g] = pc[g]
        BY <1>4 DEF Submit, ReleaseRefused, Goto, TypeOK, Preparing
    <2>2. \/ pc'[f] = "refusing" /\ prep' = prep
          \/ pc'[f] \notin Preparing /\ prep' = [prep EXCEPT ![Owner(f)] = Idle]
        BY <1>4 DEF Submit, ReleaseRefused, Goto, TypeOK, Preparing
    <2>3. \A g \in Stretch : pc'[g] \in Preparing => prep'[Owner(g)].step = prep[Owner(g)].step
        BY <2>1, <2>2 DEF OneLaunch, TypeOK
    <2>4. QED
        BY <1>4, <2>1, <2>3, FieldsKept, OneLaunchFrame DEF LaunchStep
<1>5. ASSUME NEW f \in Stretch, Finish(f) \/ EpilogueStep(f) \/ BackgroundStep(f)
      PROVE  OneLaunch'
    <2>1. \A g \in Stretch : pc'[g] = pc[g] \/ pc'[g] \notin Preparing
        BY <1>5 DEF Finish, EpilogueStep, OnPaused, Settle, ReleaseRun, EnterGuard,
                    SkipPublication, Publish, BackgroundStep, Capture, WriteSnapshot, Beat,
                    LeaseLost, BusyRenewal, AbortFenced, Goto, TypeOK, Preparing
    <2>2. prep' = prep
        BY <1>5 DEF Finish, EpilogueStep, OnPaused, Settle, ReleaseRun, EnterGuard,
                    SkipPublication, Publish, BackgroundStep, Capture, WriteSnapshot, Beat,
                    LeaseLost, BusyRenewal, AbortFenced
    <2>3. QED
        BY <1>5, <2>1, <2>2, FieldsKept, OneLaunchFrame
<1>6. ASSUME NEW p \in Process, NEW g \in Presentable(p), CancelRun(p, g)
      PROVE  OneLaunch'
    <2>1. \A f \in Stretch : acq'[f].proc = acq[f].proc
        BY <1>6 DEF CancelRun, TypeOK, Acq
    <2>2. QED
        BY <1>6, <2>1, OneLaunchFrame DEF CancelRun
<1>7. ASSUME NEW p \in Process, Crash(p)
      PROVE  OneLaunch'
    <2>1. \A f \in Stretch : acq'[f].proc = acq[f].proc
        BY <1>7 DEF Crash, Closed, Unborn
    <2>2. \A f \in Stretch : pc'[f] \in Preparing => pc'[f] = pc[f] /\ Owner(f) # p
        BY <1>7 DEF Crash, Ended, Preparing, TypeOK
    <2>3. QED
        BY <1>7, <2>1, <2>2, OneLaunchFrame DEF Crash, TypeOK, OneLaunch
<1>8. CASE Time \/ UNCHANGED vars
    BY <1>8, OneLaunchFrame DEF Time, vars
<1>9. QED
    BY <1>1, <1>2, <1>3, <1>4, <1>5, <1>6, <1>7, <1>8 DEF Next, LaunchStep, ProcessStep

\* Every step keeps the answered launches registered.
LEMMA RegisteredStep ==
    ASSUME TypeOK, OneLaunch, Registered, [Next]_vars
    PROVE  Registered'
<1>1. ASSUME NEW p \in Process,
             \/ \E mode \in Requests : Prepare(p, mode)
             \/ Resume(p) \/ Fire(p) \/ AcquireRefused(p)
             \/ ArmPlan(p) \/ Rearm(p) \/ AbortRoute(p)
      PROVE  Registered'
    BY <1>1, RegisteredFrame
       DEF Prepare, Resume, Fire, AcquireRefused, ArmPlan, Rearm, AbortRoute
<1>2. ASSUME NEW p \in Process, UnleasedRefused(p)
      PROVE  Registered'
    <2>1. pc' = pc /\ acq' = acq
        BY <1>2 DEF UnleasedRefused
    <2>2. CASE IsLive(registry[p])
        BY <1>2, <2>1, <2>2, RegisteredFrame DEF UnleasedRefused
    <2>3. CASE ~IsLive(registry[p])
        <3>1. \A f \in Stretch : pc[f] \in Answered => Owner(f) # p
            <4>1. \A f \in Stretch : pc[f] \in Executing => Owner(f) # p
                BY <2>3 DEF IsLive, Registered, Answered, Stretch
            <4>2. \A f \in Stretch : pc[f] \in Preparing => Owner(f) # p
                BY <1>2 DEF UnleasedRefused, OneLaunch
            <4>3. QED
                BY <4>1, <4>2 DEF Answered, Preparing
        <3>2. registry' = [registry EXCEPT ![p] = 0]
            BY <1>2, <2>3 DEF UnleasedRefused
        <3>3. QED
            BY <2>1, <3>1, <3>2, RegisteredFrame DEF Registered, TypeOK
    <2>4. QED
        BY <2>2, <2>3
<1>3. ASSUME NEW p \in Process, AcquireRun(p)
      PROVE  Registered'
    <2>1. \A g \in Stretch : g # fence + 1 => pc'[g] = pc[g] /\ acq'[g].proc = acq[g].proc
        BY <1>3 DEF AcquireRun, Goto, TypeOK, Acq
    <2>2. \A g \in Stretch : g = fence + 1 => pc'[g] = "acquired"
        BY <1>3 DEF AcquireRun, Goto, TypeOK
    <2>3. registry' = registry
        BY <1>3 DEF AcquireRun
    <2>4. QED
        BY <2>1, <2>2, <2>3 DEF Registered, Answered, Executing, Owner
<1>4. ASSUME NEW f \in Stretch, Admit(f)
      PROVE  Registered'
    <2>1. \A g \in Stretch : acq'[g].proc = acq[g].proc
        BY <1>4, FieldsKept DEF LaunchStep
    <2>2. \A g \in Stretch : g # f => pc'[g] = pc[g]
        BY <1>4 DEF Admit, Goto, TypeOK
    <2>3. CASE pc'[f] = "refusing" /\ registry' = registry
        BY <2>1, <2>2, <2>3, RegisteredFrame DEF Answered, Executing
    <2>4. CASE ~Clash(f) /\ pc'[f] = "registered" /\ registry' = [registry EXCEPT ![Owner(f)] = f]
        <3>1. pc[f] \in Preparing /\ Owner(f) \in Process
            BY <1>4 DEF Admit, Preparing, OneLaunch
        <3>2. \A g \in Stretch : pc[g] \in Executing => Owner(g) # Owner(f)
            BY <2>4 DEF Clash, IsLive, Registered, Answered, Stretch
        <3>3. \A g \in Stretch : g # f /\ pc[g] \in Preparing => Owner(g) # Owner(f)
            BY <3>1 DEF OneLaunch
        <3>4. \A g \in Stretch : g # f /\ pc[g] \in Answered =>
                registry'[Owner(g)] = registry[Owner(g)]
            BY <2>4, <3>2, <3>3 DEF Answered, Preparing, TypeOK
        <3>5. registry'[Owner(f)] = f
            BY <2>4, <3>1 DEF TypeOK
        <3>6. QED
            BY <2>1, <2>2, <3>1, <3>4, <3>5 DEF Registered, Owner
    <2>5. QED
        BY <1>4, <2>3, <2>4 DEF Admit, Goto, TypeOK
<1>5. ASSUME NEW f \in Stretch,
             LaunchWrite(f) \/ Submit(f) \/ LaunchFails(f) \/ Abandon(f) \/ ReleaseRefused(f)
      PROVE  Registered'
    <2>1. \A g \in Stretch : acq'[g].proc = acq[g].proc
        BY <1>5, FieldsKept DEF LaunchStep
    <2>2. \A g \in Stretch : g # f => pc'[g] = pc[g]
        BY <1>5 DEF LaunchWrite, Submit, LaunchFails, Abandon, ReleaseRefused, Goto, TypeOK
    <2>3. \/ pc'[f] \in Answered /\ pc[f] \in Answered /\ registry' = registry
          \/ pc'[f] \notin Answered /\ registry' \in {registry, Deregistered(f)}
        BY <1>5 DEF LaunchWrite, Submit, LaunchFails, Abandon, ReleaseRefused, Goto, TypeOK,
                    Answered, Executing
    <2>4. QED
        BY <2>1, <2>2, <2>3, DeregisteredFrame, RegisteredFrame
<1>6. ASSUME NEW f \in Stretch, Finish(f) \/ EpilogueStep(f) \/ BackgroundStep(f)
      PROVE  Registered'
    <2>1. \A g \in Stretch : pc'[g] \in Answered => pc[g] \in Answered
        BY <1>6 DEF Finish, EpilogueStep, OnPaused, Settle, ReleaseRun, EnterGuard,
                    SkipPublication, Publish, BackgroundStep, Capture, WriteSnapshot, Beat,
                    LeaseLost, BusyRenewal, AbortFenced, Goto, TypeOK, Answered, Executing
    <2>2. registry' = registry
        BY <1>6 DEF Finish, EpilogueStep, OnPaused, Settle, ReleaseRun, EnterGuard,
                    SkipPublication, Publish, BackgroundStep, Capture, WriteSnapshot, Beat,
                    LeaseLost, BusyRenewal, AbortFenced
    <2>3. QED
        BY <1>6, <2>1, <2>2, FieldsKept, RegisteredFrame
<1>7. ASSUME NEW p \in Process, NEW g \in Presentable(p), CancelRun(p, g)
      PROVE  Registered'
    <2>1. \A f \in Stretch : acq'[f].proc = acq[f].proc
        BY <1>7 DEF CancelRun, TypeOK, Acq
    <2>2. QED
        BY <1>7, <2>1, RegisteredFrame DEF CancelRun
<1>8. ASSUME NEW p \in Process, Crash(p)
      PROVE  Registered'
    <2>1. \A f \in Stretch : acq'[f].proc = acq[f].proc
        BY <1>8 DEF Crash, Closed, Unborn
    <2>2. \A f \in Stretch : pc'[f] \in Answered => pc'[f] = pc[f] /\ Owner(f) # p
        BY <1>8 DEF Crash, Ended, Answered, Executing, TypeOK
    <2>3. QED
        BY <1>8, <2>1, <2>2, RegisteredFrame DEF Crash, TypeOK, Registered
<1>9. CASE Time \/ UNCHANGED vars
    BY <1>9, RegisteredFrame DEF Time, vars
<1>10. QED
    BY <1>1, <1>2, <1>3, <1>4, <1>5, <1>6, <1>7, <1>8, <1>9 DEF Next, LaunchStep, ProcessStep

\* One process never executes two stretches of a run: it prepares one launch at
\* a time, and what it launches or runs is the stretch it registered under the
\* service lock.
THEOREM EnginesAreAlone == Spec => []OneEnginePerProcess
<1>1. Init => OneLaunch /\ Registered
    BY DEF Init, OneLaunch, Registered, Preparing, Answered, Executing
<1>2. TypeOK /\ OneLaunch /\ Registered /\ [Next]_vars => OneLaunch' /\ Registered'
    BY OneLaunchStep, RegisteredStep
<1>3. Registered => OneEnginePerProcess
    BY DEF Registered, Answered, OneEnginePerProcess
<1>4. QED
    BY <1>1, <1>2, <1>3, TypeCorrect, PTL DEF Spec
-------------------------------------------------------------------------------
(* A recovered run announced nothing before *)

\* A fence nobody was given names no thread, of any process.
Born == \A f \in Stretch : f > fence => pc[f] = "unborn" /\ Owner(f) \notin Process

\* Who announced is done.
Spoken == \A f \in Stretch : acq[f].published => pc[f] = "done"

\* g launches, or runs, over the line it reloaded.
Takes(g) ==
    \/ pc[g] = "registered" /\ fence = g
    \/ pc[g] \in {"launched"} \cup Executing

\* After an announcement the line stays out of "running" until the next
\* acquisition reloaded it, so that one cannot find it orphaned.
Silence ==
    \A f \in Stretch : acq[f].published =>
        /\ fence = f => row.status # "running"
        /\ \A g \in Stretch : g = f + 1 =>
             /\ pc[g] = "acquired" /\ fence = g => row.status # "running"
             /\ Takes(g) => ~acq[g].orphaned

\* Every step keeps the acquisitions beyond the fence unborn.
LEMMA BornStep ==
    ASSUME TypeOK, Born, [Next]_vars
    PROVE  Born'
<1>1. ASSUME NEW p \in Process, AcquireRun(p)
      PROVE  Born'
    <2>1. fence' = fence + 1 /\ fence \in Nat
        BY <1>1 DEF AcquireRun, Acquire, TypeOK
    <2>2. \A g \in Stretch : g # fence + 1 => pc'[g] = pc[g] /\ acq'[g].proc = acq[g].proc
        BY <1>1 DEF AcquireRun, Goto, TypeOK, Acq
    <2>3. QED
        BY <2>1, <2>2 DEF Born, Owner, Stretch
<1>2. ASSUME NEW f \in Stretch,
             LaunchStep(f) \/ Finish(f) \/ EpilogueStep(f) \/ BackgroundStep(f)
      PROVE  Born'
    <2>1. \/ pc' = pc
          \/ pc[f] # "unborn" /\ \E step : pc' = [pc EXCEPT ![f] = step]
        BY <1>2 DEF LaunchStep, Admit, LaunchWrite, Submit, LaunchFails, Abandon,
                    ReleaseRefused, Finish, EpilogueStep, OnPaused, Settle, ReleaseRun,
                    EnterGuard, SkipPublication, Publish, BackgroundStep, Capture,
                    WriteSnapshot, Beat, LeaseLost, BusyRenewal, AbortFenced, Goto
    <2>2. fence' = fence
        BY <1>2 DEF LaunchStep, Admit, LaunchWrite, Submit, LaunchFails, Abandon,
                    ReleaseRefused, Finish, EpilogueStep, OnPaused, Settle, ReleaseRun,
                    EnterGuard, SkipPublication, Publish, BackgroundStep, Capture,
                    WriteSnapshot, Beat, LeaseLost, BusyRenewal, AbortFenced
    <2>3. QED
        BY <1>2, <2>1, <2>2, FieldsKept DEF Born, Owner, TypeOK
<1>3. ASSUME NEW p \in Process, ProcessStep(p), ~AcquireRun(p), ~Crash(p)
      PROVE  Born'
    BY <1>3, ProcessFieldsKept DEF Born, Owner
<1>4. ASSUME NEW p \in Process, Crash(p)
      PROVE  Born'
    BY <1>4, CrashFieldsKept DEF Born, Owner
<1>5. CASE Time \/ UNCHANGED vars
    BY <1>5 DEF Time, Tick, vars, Born, Owner
<1>6. QED
    BY <1>1, <1>2, <1>3, <1>4, <1>5 DEF Next

\* Every step keeps what was published said by a thread that ended its run.
LEMMA SpokenStep ==
    ASSUME TypeOK, Spoken, [Next]_vars
    PROVE  Spoken'
<1>1. ASSUME NEW p \in Process, AcquireRun(p)
      PROVE  Spoken'
    <2>1. \A g \in Stretch : g # fence + 1 => pc'[g] = pc[g] /\ acq'[g].published = acq[g].published
        BY <1>1 DEF AcquireRun, Goto, TypeOK, Acq
    <2>2. \A g \in Stretch : g = fence + 1 => ~acq'[g].published
        BY <1>1 DEF AcquireRun, Unborn
    <2>3. QED
        BY <2>1, <2>2 DEF Spoken
<1>2. ASSUME NEW f \in Stretch, ReleaseRefused(f) \/ SkipPublication(f) \/ Publish(f)
      PROVE  Spoken'
    <2>1. ~Closed(f).published
        BY DEF Closed, Unborn
    <2>2. \A g \in Stretch : g # f => pc'[g] = pc[g] /\ acq'[g] = acq[g]
        BY <1>2 DEF ReleaseRefused, SkipPublication, Publish, Goto, TypeOK
    <2>3. pc'[f] = "done" \/ ~acq'[f].published
        BY <1>2, <2>1 DEF ReleaseRefused, SkipPublication, Publish, Goto, TypeOK
    <2>4. QED
        BY <2>2, <2>3 DEF Spoken
<1>3. ASSUME NEW f \in Stretch,
             LaunchStep(f) \/ Finish(f) \/ EpilogueStep(f) \/ BackgroundStep(f),
             ~(ReleaseRefused(f) \/ SkipPublication(f) \/ Publish(f))
      PROVE  Spoken'
    <2>1. \A g \in Stretch : acq'[g].published = acq[g].published
        BY <1>3, FieldsKept DEF Ends
    <2>2. \/ pc' = pc
          \/ pc[f] # "done" /\ \E step : pc' = [pc EXCEPT ![f] = step]
        BY <1>3 DEF LaunchStep, Admit, LaunchWrite, Submit, LaunchFails, Abandon,
                    Finish, EpilogueStep, OnPaused, Settle, ReleaseRun,
                    EnterGuard, BackgroundStep, Capture,
                    WriteSnapshot, Beat, LeaseLost, BusyRenewal, AbortFenced, Goto
    <2>3. QED
        BY <2>1, <2>2 DEF Spoken, TypeOK
<1>4. ASSUME NEW p \in Process, ProcessStep(p), ~AcquireRun(p), ~Crash(p)
      PROVE  Spoken'
    BY <1>4, ProcessFieldsKept DEF Spoken
<1>5. ASSUME NEW p \in Process, Crash(p)
      PROVE  Spoken'
    BY <1>5, CrashFieldsKept DEF Spoken
<1>6. CASE Time \/ UNCHANGED vars
    BY <1>6 DEF Time, vars, Spoken
<1>7. QED
    BY <1>1, <1>2, <1>3, <1>4, <1>5, <1>6 DEF Next

\* Once its acquisition reloads it or is done, the line only moves to cancelled.
LEMMA LineIsQuiet ==
    ASSUME TypeOK, [Next]_vars, fence \in Stretch, pc[fence] \in {"acquired", "done"}
    PROVE  row'.status \in {row.status, "cancelled"}
<1>1. ASSUME Cancel
      PROVE  row'.status \in {row.status, "cancelled"}
    BY <1>1 DEF Cancel, Put
<1>2. ASSUME NEW f \in Stretch, LaunchWrite(f) \/ Abandon(f) \/ Finish(f) \/ Settle(f)
      PROVE  row' = row
    <2>1. f # fence
        BY <1>2 DEF LaunchWrite, Abandon, Finish, Settle
    <2>2. QED
        BY <1>2, <2>1 DEF LaunchWrite, Abandon, Finish, Settle, CanWrite
<1>3. ASSUME NEW f \in Stretch, WriteSnapshot(f)
      PROVE  row'.status = row.status
    BY <1>3 DEF WriteSnapshot, CanWrite, Put, LaunchModes
<1>4. ASSUME NEW f \in Stretch,
             LaunchStep(f) \/ Finish(f) \/ EpilogueStep(f) \/ BackgroundStep(f)
      PROVE  row'.status = row.status
    BY <1>2, <1>3, <1>4
       DEF LaunchStep, Admit, Submit, LaunchFails, ReleaseRefused, EpilogueStep, OnPaused,
           ReleaseRun, EnterGuard, SkipPublication, Publish, BackgroundStep, Capture, Beat,
           LeaseLost, BusyRenewal, AbortFenced
<1>5. ASSUME NEW p \in Process, ProcessStep(p)
      PROVE  Cancel \/ row' = row
    BY <1>5 DEF ProcessStep, Prepare, Resume, Fire, AcquireRun, Acquire, AcquireRefused,
                UnleasedRefused, ArmPlan, Rearm, CancelRun, AbortRoute, Crash
<1>6. CASE Time \/ UNCHANGED vars
    BY <1>6 DEF Time, Tick, vars
<1>7. QED
    BY <1>1, <1>4, <1>5, <1>6 DEF Next

\* A step that orphans nobody and publishes nothing keeps the silence.
LEMMA SilenceFrame ==
    ASSUME TypeOK, Spoken, Silence, [Next]_vars, fence' = fence,
           \A g \in Stretch : acq'[g].published => acq[g].published,
           \A g \in Stretch : acq'[g].orphaned => acq[g].orphaned,
           \A g \in Stretch : pc'[g] = "acquired" => pc[g] = "acquired",
           \A g \in Stretch : Takes(g)' => Takes(g)
    PROVE  Silence'
<1>1. SUFFICES ASSUME NEW f \in Stretch, acq'[f].published
               PROVE  /\ fence' = f => row'.status # "running"
                      /\ \A g \in Stretch : g = f + 1 =>
                           /\ pc'[g] = "acquired" /\ fence' = g => row'.status # "running"
                           /\ Takes(g)' => ~acq'[g].orphaned
    BY DEF Silence
<1>2. pc[f] = "done"
    BY <1>1 DEF Spoken
<1>3. QED
    BY <1>1, <1>2, LineIsQuiet DEF Silence

\* Every step keeps a recovered acquisition silent.
LEMMA SilenceStep ==
    ASSUME TypeOK, AnnouncedIsDurable, Born, Spoken, Silence, [Next]_vars
    PROVE  Silence'
<1>1. ASSUME NEW p \in Process, AcquireRun(p)
      PROVE  Silence'
    <2> DEFINE new == fence + 1
    <2>1. new \in Stretch /\ fence' = new /\ row' = row /\ fence \in Nat
        BY <1>1 DEF AcquireRun, Acquire, TypeOK, Stretch
    <2>2. \A g \in Stretch : g # new =>
            pc'[g] = pc[g] /\ acq'[g].published = acq[g].published
                           /\ acq'[g].orphaned = acq[g].orphaned
        BY <1>1 DEF AcquireRun, Goto, TypeOK, Acq
    <2>3. pc'[new] = "acquired" /\ ~acq'[new].published
        BY <1>1, <2>1 DEF AcquireRun, Goto, Unborn, TypeOK
    <2>4. \A g \in Stretch : Takes(g)' => Takes(g) /\ g # new
        BY <2>1, <2>2, <2>3 DEF Takes, Executing
    <2>5. \A f \in Stretch : new = f + 1 => f = fence
        BY <2>1 DEF Stretch
    <2> HIDE DEF new
    <2>6. QED
        BY <2>1, <2>2, <2>3, <2>4, <2>5 DEF Silence
<1>2. ASSUME NEW f \in Stretch, Admit(f)
      PROVE  Silence'
    <2>1. acq'[f].orphaned => row.status = "running"
        BY <1>2 DEF Admit, Orphaned, TypeOK, Acq
    <2>2. \A g \in Stretch : g # f =>
            pc'[g] = pc[g] /\ acq'[g].orphaned = acq[g].orphaned
        BY <1>2 DEF Admit, Goto, TypeOK
    <2>3. pc[f] = "acquired" /\ pc'[f] \in {"refusing", "registered"}
        BY <1>2 DEF Admit, Goto, TypeOK
    <2>4. fence' = fence /\ row' = row
        BY <1>2 DEF Admit
    <2>5. \A g \in Stretch : acq'[g].published = acq[g].published
        BY <1>2, FieldsKept, ZenonT(60)
           DEF LaunchStep, Ends, Admit, ReleaseRefused, SkipPublication, Publish
    <2>6. \A g \in Stretch : Takes(g)' => Takes(g) \/ (g = f /\ fence = f)
        BY <2>2, <2>3, <2>4 DEF Takes, Executing
    <2>7. ~Takes(f)
        BY <2>3 DEF Takes, Executing
    <2>8. SUFFICES ASSUME NEW h \in Stretch, acq'[h].published
                   PROVE  /\ fence' = h => row'.status # "running"
                          /\ \A g \in Stretch : g = h + 1 =>
                               /\ pc'[g] = "acquired" /\ fence' = g => row'.status # "running"
                               /\ Takes(g)' => ~acq'[g].orphaned
        BY DEF Silence
    <2>9. acq[h].published
        BY <2>5, <2>8
    <2>10. ASSUME NEW g \in Stretch, g = h + 1
           PROVE  /\ pc'[g] = "acquired" /\ fence' = g => row'.status # "running"
                  /\ Takes(g)' => ~acq'[g].orphaned
        <3>1. CASE g = f
            BY <2>1, <2>3, <2>4, <2>6, <2>7, <2>9, <2>10, <3>1 DEF Silence
        <3>2. CASE g # f
            BY <2>2, <2>4, <2>6, <2>9, <2>10, <3>2 DEF Silence
        <3>3. QED
            BY <3>1, <3>2
    <2>11. QED
        BY <2>4, <2>9, <2>10 DEF Silence
<1>3. ASSUME NEW f \in Stretch, Publish(f)
      PROVE  Silence'
    <2>1. /\ fence = f /\ row.status # "running" /\ row' = row /\ fence' = fence
        BY <1>3 DEF Publish, AnnouncedIsDurable, StatusOf, Paused, TypeOK, Acq, Outcome, Finished
    <2>2. \A g \in Stretch : g # f => pc'[g] = pc[g] /\ acq'[g] = acq[g]
        BY <1>3 DEF Publish, Goto, TypeOK
    <2>3. \A g \in Stretch : g = f + 1 => pc[g] = "unborn" /\ g # f
        BY <2>1 DEF Born, Stretch
    <2>4. \A g \in Stretch : Takes(g)' => Takes(g) /\ g # f
        BY <1>3, <2>1, <2>2 DEF Takes, Publish, Goto, TypeOK, Executing
    <2>5. \A g \in Stretch : Takes(g) => pc[g] # "unborn"
        BY DEF Takes, Executing
    <2>6. QED
        BY <2>1, <2>2, <2>3, <2>4, <2>5 DEF Silence
<1>4. ASSUME NEW f \in Stretch, LaunchWrite(f)
      PROVE  Silence'
    <2>1. \A g \in Stretch : g # f => pc'[g] = pc[g]
        BY <1>4 DEF LaunchWrite, Goto, TypeOK
    <2>2. pc[f] = "registered" /\ ((pc'[f] = "launched" /\ f = fence) \/ pc'[f] = "refusing")
        BY <1>4 DEF LaunchWrite, Goto, TypeOK, CanWrite
    <2>3. fence' = fence
        BY <1>4 DEF LaunchWrite
    <2>4. \A g \in Stretch : acq'[g].published = acq[g].published
                             /\ acq'[g].orphaned = acq[g].orphaned
        BY <1>4, FieldsKept DEF LaunchStep, Ends, LaunchWrite, Admit, ReleaseRefused,
                                SkipPublication, Publish
    <2>5. \A g \in Stretch : Takes(g)' => Takes(g)
        BY <2>1, <2>2, <2>3 DEF Takes, Executing
    <2>6. QED
        BY <2>1, <2>2, <2>3, <2>4, <2>5, SilenceFrame
<1>5. ASSUME NEW f \in Stretch,
             LaunchStep(f) \/ Finish(f) \/ EpilogueStep(f) \/ BackgroundStep(f),
             ~Admit(f), ~Publish(f), ~LaunchWrite(f)
      PROVE  Silence'
    <2>1. ~Closed(f).published
        BY DEF Closed, Unborn
    <2>2. \A g \in Stretch : acq'[g].published => acq[g].published
        <3>1. CASE ReleaseRefused(f) \/ SkipPublication(f)
            BY <2>1, <3>1 DEF ReleaseRefused, SkipPublication, TypeOK
        <3>2. CASE ~(ReleaseRefused(f) \/ SkipPublication(f))
            BY <1>5, <3>2, FieldsKept DEF Ends
        <3>3. QED
            BY <3>1, <3>2
    <2>3. \A g \in Stretch : acq'[g].orphaned = acq[g].orphaned
        BY <1>5, FieldsKept
    <2>4. \A g \in Stretch :
            \/ pc'[g] = pc[g]
            \/ pc'[g] \in Ended \cup {"abandoning", "refusing"}
            \/ pc[g] \in {"launched"} \cup Executing /\ pc'[g] # "acquired"
        BY <1>5 DEF LaunchStep, Submit, LaunchFails, Abandon, ReleaseRefused,
                    Finish, EpilogueStep, OnPaused, Settle, ReleaseRun,
                    EnterGuard, SkipPublication, BackgroundStep, Capture,
                    WriteSnapshot, Beat, LeaseLost, BusyRenewal, AbortFenced, Goto,
                    TypeOK, Executing, Ended
    <2>5. fence' = fence
        BY <1>5 DEF LaunchStep, Submit, LaunchFails, Abandon, ReleaseRefused,
                    Finish, EpilogueStep, OnPaused, Settle, ReleaseRun,
                    EnterGuard, SkipPublication, BackgroundStep, Capture,
                    WriteSnapshot, Beat, LeaseLost, BusyRenewal, AbortFenced
    <2>6. \A g \in Stretch : Takes(g)' => Takes(g)
        BY <2>4, <2>5 DEF Takes, Executing, Ended
    <2>7. \A g \in Stretch : pc'[g] = "acquired" => pc[g] = "acquired"
        BY <2>4 DEF Ended
    <2>8. QED
        BY <2>2, <2>3, <2>5, <2>6, <2>7, SilenceFrame
<1>6. ASSUME NEW p \in Process, ProcessStep(p), ~AcquireRun(p), ~Crash(p)
      PROVE  Silence'
    <2>1. fence' = fence /\ pc' = pc
        <3>1. 1 \in Stretch
            BY DEF Stretch
        <3>2. QED
            BY <1>6, <3>1, ProcessFieldsKept
    <2>2. \A g \in Stretch : acq'[g].published = acq[g].published
                             /\ acq'[g].orphaned = acq[g].orphaned
        BY <1>6, ProcessFieldsKept
    <2>3. \A g \in Stretch : Takes(g)' => Takes(g)
        BY <2>1 DEF Takes
    <2>4. QED
        BY <2>1, <2>2, <2>3, SilenceFrame
<1>7. ASSUME NEW p \in Process, Crash(p)
      PROVE  Silence'
    <2>1. \A g \in Stretch : pc'[g] = pc[g] \/ pc'[g] = "dead"
        BY <1>7, CrashFieldsKept
    <2>2. fence' = fence
        BY <1>7 DEF Crash
    <2>3. \A g \in Stretch : Takes(g)' => Takes(g)
        BY <2>1, <2>2 DEF Takes, Executing
    <2>4. QED
        BY <1>7, <2>1, <2>2, <2>3, CrashFieldsKept, SilenceFrame
<1>8. CASE Time \/ UNCHANGED vars
    <2>1. fence' = fence /\ pc' = pc /\ acq' = acq
        BY <1>8 DEF Time, Tick, vars
    <2>2. \A g \in Stretch : Takes(g)' => Takes(g)
        BY <2>1 DEF Takes
    <2>3. QED
        BY <2>1, <2>2, SilenceFrame
<1>9. QED
    BY <1>1, <1>2, <1>3, <1>4, <1>5, <1>6, <1>7, <1>8 DEF Next

\* A run that is recovered had announced nothing: after an announcement the line
\* is not "running" until the next acquisition has reloaded it, so the reload
\* under ownership tells a finished run from an abandoned one.
THEOREM RecoveriesAreSilent == Spec => []RecoveredIsSilent
<1>1. Init => Born /\ Spoken /\ Silence
    BY DEF Init, StoreInit, Born, Spoken, Silence, Owner, Unborn, Stretch
<1>2. TypeOK /\ AnnouncedIsDurable /\ Born /\ Spoken /\ Silence /\ [Next]_vars
        => Born' /\ Spoken' /\ Silence'
    BY BornStep, SpokenStep, SilenceStep
<1>3. Silence => RecoveredIsSilent
    BY DEF Silence, RecoveredIsSilent, Takes, Stretch
<1>4. QED
    BY <1>1, <1>2, <1>3, TypeCorrect, AnnouncementsAreDurable, PTL DEF Spec
-------------------------------------------------------------------------------
(* How any step moves the line, a prepared launch and a view *)

\* Between its reload and its submission a stretch keeps the line it displaced,
\* and the receipt of its own write.
Displacing == {"registered", "launched", "abandoning"}

\* Between the admission and the launch write, the line read is kept.
LEMMA PriorKept ==
    ASSUME TypeOK, [Next]_vars, NEW f \in Stretch, pc'[f] \in Displacing, ~Admit(f)
    PROVE  /\ acq'[f].prior = acq[f].prior /\ acq'[f].mode = acq[f].mode
           /\ \/ pc'[f] = pc[f] /\ acq'[f].receipt = acq[f].receipt
              \/ LaunchWrite(f)
              \/ LaunchFails(f)
<1>1. CASE \E p \in Process : AcquireRun(p)
    BY <1>1 DEF AcquireRun, Goto, Displacing, TypeOK, Acq
<1>2. CASE \E p \in Process : Crash(p)
    <2>1. PICK p \in Process : Crash(p)
        BY <1>2
    <2>2. Owner(f) # p
        BY <2>1, CrashFieldsKept DEF Displacing, Ended
    <2>3. QED
        BY <2>1, <2>2, CrashFieldsKept
<1>3. CASE \E p \in Process : \E h \in Presentable(p) : CancelRun(p, h)
    <2>1. PICK p \in Process : \E h \in Presentable(p) : CancelRun(p, h)
        BY <1>3
    <2>4. PICK h \in Presentable(p) : CancelRun(p, h)
        BY <2>1
    <2>2. \/ acq' = acq
          \/ h \in Stretch /\ acq' = [acq EXCEPT ![h].halted = Halted(h)]
          \/ h \in Stretch /\ acq' = [acq EXCEPT ![h].halted = Halted(h), ![h].fenced = TRUE]
        BY <2>4 DEF CancelRun, Presentable
    <2>3. acq'[f].prior = acq[f].prior /\ acq'[f].mode = acq[f].mode
          /\ acq'[f].receipt = acq[f].receipt
        <3>1. acq \in [Stretch -> Acq]
            BY DEF TypeOK
        <3>2. CASE acq' = acq
            BY <3>2
        <3>3. CASE h \in Stretch /\ acq' # acq
            <4>1. \E a, b : \/ acq' = [acq EXCEPT ![h].halted = a]
                           \/ acq' = [acq EXCEPT ![h].halted = a, ![h].fenced = b]
                BY <2>2, <3>3
            <4>2. QED
                BY <3>1, <3>3, <4>1 DEF Acq
        <3>4. QED
            BY <2>2, <3>2, <3>3
    <2>5. pc' = pc
        BY <2>4 DEF CancelRun
    <2>6. QED
        BY <2>3, <2>5
<1>4. ASSUME NEW p \in Process, ProcessStep(p), ~AcquireRun(p), ~Crash(p),
             ~\E h \in Presentable(p) : CancelRun(p, h)
      PROVE  acq' = acq /\ pc' = pc
    BY <1>4 DEF ProcessStep, Prepare, Resume, Fire, AcquireRefused, UnleasedRefused,
                ArmPlan, Rearm, AbortRoute
<1>5. ASSUME NEW g \in Stretch, g # f,
             LaunchStep(g) \/ Finish(g) \/ EpilogueStep(g) \/ BackgroundStep(g)
      PROVE  acq'[f] = acq[f] /\ pc'[f] = pc[f]
    <2>1. pc'[f] = pc[f]
        BY <1>5 DEF LaunchStep, Admit, LaunchWrite, Submit, LaunchFails, Abandon,
                    ReleaseRefused, Finish, EpilogueStep, OnPaused, Settle, ReleaseRun,
                    EnterGuard, SkipPublication, Publish, BackgroundStep, Capture,
                    WriteSnapshot, Beat, LeaseLost, BusyRenewal, AbortFenced, Goto, TypeOK
    <2>2. acq'[f] = acq[f]
        BY <1>5 DEF LaunchStep, Admit, LaunchWrite, Submit, LaunchFails, Abandon,
                    ReleaseRefused, Finish, EpilogueStep, OnPaused, Settle, ReleaseRun,
                    EnterGuard, SkipPublication, Publish, BackgroundStep, Capture,
                    WriteSnapshot, Beat, LeaseLost, BusyRenewal, AbortFenced, TypeOK
    <2>3. QED
        BY <2>1, <2>2
<1>6. CASE LaunchWrite(f)
    <2>1. acq' = acq \/ acq' = [acq EXCEPT ![f].receipt = row.revision + 1,
                                          ![f].attempts = NextAttempt(f)]
        BY <1>6 DEF LaunchWrite
    <2>2. QED
        BY <1>6, <2>1 DEF TypeOK, Acq
<1>7. CASE LaunchFails(f)
    BY <1>7 DEF LaunchFails
<1>8. CASE LeaseLost(f) \/ BusyRenewal(f)
    <2>1. \E a, b : acq' = [acq EXCEPT ![f].beating = FALSE, ![f].fenced = a, ![f].halted = b]
        BY <1>8 DEF LeaseLost, BusyRenewal, AbortFenced
    <2>2. QED
        BY <1>8, <2>1 DEF TypeOK, Acq, LeaseLost, BusyRenewal, AbortFenced
<1>9. CASE WriteSnapshot(f) \/ Beat(f)
    BY <1>9 DEF WriteSnapshot, Beat
<1>10. CASE Submit(f) \/ Abandon(f) \/ ReleaseRefused(f) \/ Finish(f) \/ EpilogueStep(f)
            \/ Capture(f)
    BY <1>10 DEF Submit, Abandon, ReleaseRefused, Finish, EpilogueStep, OnPaused, Settle,
                 ReleaseRun, EnterGuard, SkipPublication, Publish, Capture, Goto, TypeOK,
                 Displacing, Executing
<1>11. CASE Time \/ UNCHANGED vars
    BY <1>11 DEF Time, vars
<1>12. QED
    BY <1>1, <1>2, <1>3, <1>4, <1>5, <1>6, <1>7, <1>8, <1>9, <1>10, <1>11
       DEF Next, LaunchStep, BackgroundStep

\* The revision counts the writes, and a write that moves the status is a
\* cancellation, or a launch, a verdict or a withdrawal of the current stretch.
LEMMA LineMoves ==
    ASSUME TypeOK, [Next]_vars
    PROVE  /\ row' = row \/ row'.revision = row.revision + 1
           /\ \/ row'.status = row.status
              \/ row'.status = "cancelled" /\ row.status \notin Finished
              \/ \E f \in Stretch :
                   /\ fence = f
                   /\ \/ /\ LaunchWrite(f) /\ Launching(f)
                         /\ view[f].revision = row.revision
                         /\ row'.status = view[f].status
                      \/ /\ Abandon(f) /\ acq[f].receipt # 0
                         /\ row'.status = Restored(f)
                      \/ Finish(f) /\ row.status = "running"
<1>1. ASSUME Cancel, row.status \in {"running", "paused", "cancelled"}
      PROVE  /\ row' = row \/ row'.revision = row.revision + 1
             /\ row'.status = "cancelled" /\ row.status \notin Finished
    BY <1>1 DEF Cancel, Put, Finished
<1>2. ASSUME NEW p \in Process, ProcessStep(p)
      PROVE  row' = row \/ (Cancel /\ row.status \in {"running", "paused", "cancelled"})
    BY <1>2 DEF ProcessStep, Prepare, Resume, Fire, AcquireRun, Acquire, AcquireRefused,
                UnleasedRefused, ArmPlan, Rearm, CancelRun, AbortRoute, Crash, CanCancel
<1>3. ASSUME NEW f \in Stretch, LaunchWrite(f), row' # row
      PROVE  /\ fence = f /\ Launching(f) /\ view[f].revision = row.revision
             /\ row'.status = view[f].status /\ row'.revision = row.revision + 1
    BY <1>3 DEF LaunchWrite, CanWrite, LaunchModes, Put, Launching, Goto, TypeOK
<1>4. ASSUME NEW f \in Stretch, Abandon(f), row' # row
      PROVE  /\ fence = f /\ acq[f].receipt # 0
             /\ row'.status = Restored(f) /\ row'.revision = row.revision + 1
    BY <1>4 DEF Abandon, CanWrite, Put
<1>5. ASSUME NEW f \in Stretch, Finish(f), row' # row
      PROVE  fence = f /\ row.status = "running" /\ row'.revision = row.revision + 1
    BY <1>5 DEF Finish, CanWrite, Put
<1>6. ASSUME NEW f \in Stretch, Settle(f) \/ WriteSnapshot(f), row' # row
      PROVE  row'.status = row.status /\ row'.revision = row.revision + 1
    BY <1>6 DEF Settle, WriteSnapshot, CanWrite, Put
<1>7. ASSUME NEW f \in Stretch,
             Admit(f) \/ Submit(f) \/ LaunchFails(f) \/ ReleaseRefused(f) \/ OnPaused(f)
             \/ ReleaseRun(f) \/ EnterGuard(f) \/ SkipPublication(f) \/ Publish(f)
             \/ Capture(f) \/ Beat(f) \/ LeaseLost(f) \/ BusyRenewal(f)
      PROVE  row' = row
    BY <1>7 DEF Admit, Submit, LaunchFails, ReleaseRefused, OnPaused, ReleaseRun, EnterGuard,
                SkipPublication, Publish, Capture, Beat, LeaseLost, BusyRenewal, AbortFenced
<1>8. CASE Time \/ UNCHANGED vars
    BY <1>8 DEF Time, Tick, vars
<1>9. QED
    BY <1>1, <1>2, <1>3, <1>4, <1>5, <1>6, <1>7, <1>8
       DEF Next, LaunchStep, EpilogueStep, BackgroundStep

\* A stretch that is registered keeps its view of the line, or adopts the line.
LEMMA ViewMoves ==
    ASSUME TypeOK, [Next]_vars, NEW f \in Stretch, pc'[f] = "registered", ~Admit(f)
    PROVE  \/ view'[f] = view[f]
           \/ view'[f].revision = row'.revision /\ view'[f].status = row'.status
<1>1. ASSUME NEW p \in Process, Resume(p) \/ Fire(p)
      PROVE  view' \in {view, Refreshed(p)} /\ row' = row
    BY <1>1 DEF Resume, Fire
<1>2. ASSUME NEW p \in Process, CancelRun(p, 0) \/ AbortRoute(p) \/ \E h \in Stretch : CancelRun(p, h)
      PROVE  view' = view \/ \E h \in Stretch : view' = Adopted(h)
    <2>1. Answering(p) = 0 \/ Answering(p) \in Stretch
        BY DEF Answering, TypeOK, Stretch
    <2>2. CASE AbortRoute(p)
        BY <2>1, <2>2 DEF AbortRoute
    <2>3. CASE CancelRun(p, 0)
        BY <2>3 DEF CancelRun, Ownerless
    <2>4. CASE \E h \in Stretch : CancelRun(p, h)
        BY <2>4 DEF CancelRun
    <2>5. QED
        BY <1>2, <2>2, <2>3, <2>4
<1>3. ASSUME NEW p \in Process, Crash(p)
      PROVE  view'[f] = view[f]
    BY <1>3, CrashFieldsKept DEF Crash, Ended, Owner
<1>4. ASSUME NEW p \in Process, ProcessStep(p)
      PROVE  \/ view' = view
             \/ Resume(p) \/ Fire(p) \/ Crash(p)
             \/ CancelRun(p, 0) \/ AbortRoute(p) \/ \E h \in Stretch : CancelRun(p, h)
    BY <1>4 DEF ProcessStep, Prepare, AcquireRun, AcquireRefused, UnleasedRefused, ArmPlan,
                Rearm, Presentable, Ownerless
<1>5. ASSUME NEW g \in Stretch,
             LaunchWrite(g) \/ Finish(g) \/ Settle(g) \/ WriteSnapshot(g)
      PROVE  view' \in {view, Adopted(g)}
    BY <1>5 DEF LaunchWrite, Finish, Settle, WriteSnapshot
<1>6. ASSUME NEW g \in Stretch, ReleaseRefused(g) \/ SkipPublication(g) \/ Publish(g)
      PROVE  view'[f] = view[f]
    BY <1>6 DEF ReleaseRefused, SkipPublication, Publish, Goto, Forgotten, TypeOK
<1>7. ASSUME NEW g \in Stretch, Admit(g)
      PROVE  view'[f] = view[f]
    BY <1>7 DEF Admit, TypeOK
<1>8. ASSUME NEW g \in Stretch,
             Submit(g) \/ LaunchFails(g) \/ Abandon(g) \/ OnPaused(g)
             \/ ReleaseRun(g) \/ EnterGuard(g)
             \/ Capture(g) \/ Beat(g) \/ LeaseLost(g) \/ BusyRenewal(g)
      PROVE  view' = view
    BY <1>8 DEF Submit, LaunchFails, Abandon, OnPaused, ReleaseRun, EnterGuard,
                Capture, Beat, LeaseLost, BusyRenewal, AbortFenced
<1>9. ASSUME NEW g \in Stretch
      PROVE  \/ Adopted(g)[f] = view[f]
             \/ Adopted(g)[f].revision = row'.revision /\ Adopted(g)[f].status = row'.status
    BY DEF Adopted, TypeOK
<1>10. CASE Time \/ UNCHANGED vars
    BY <1>10 DEF Time, vars
<1>11. QED
    BY <1>1, <1>2, <1>3, <1>4, <1>5, <1>6, <1>7, <1>8, <1>9, <1>10, RefreshedFrame
       DEF Next, LaunchStep, EpilogueStep, BackgroundStep
-------------------------------------------------------------------------------
(* A verdict stays, and a cancel is seen *)

\* A launch over a finished line displaced that verdict.
Verdict ==
    \A f \in Stretch :
        (/\ fence = f /\ row.status \in Finished
         /\ \/ pc[f] \in {"registered", "launched"}
            \/ pc[f] = "abandoning" /\ acq[f].receipt # 0)
        => acq[f].prior.status = row.status

\* A launch as new as a cancelled line, and not cancelled itself, displaced a
\* cancelled line: a replay.
SeesCancel ==
    \A f \in Stretch :
        (/\ pc[f] = "registered" /\ view[f].revision = row.revision
         /\ view[f].status = "running" /\ row.status = "cancelled")
        => acq[f].prior.status = "cancelled"

\* The admission reads the line again.
LEMMA AdmitReloads ==
    ASSUME TypeOK, NEW f \in Stretch, Admit(f)
    PROVE  acq'[f].prior = row /\ acq'[f].mode = acq[f].mode /\ row' = row /\ fence' = fence
BY DEF Admit, TypeOK, Acq

\* Every step keeps a verdict behind the launch that displaces it.
LEMMA VerdictStep ==
    ASSUME TypeOK, LaunchSeesTheLine, Verdict, [Next]_vars
    PROVE  Verdict'
<1>1. SUFFICES ASSUME NEW f \in Stretch, fence' = f, row'.status \in Finished,
                      \/ pc'[f] \in {"registered", "launched"}
                      \/ pc'[f] = "abandoning" /\ acq'[f].receipt # 0
               PROVE  acq'[f].prior.status = row'.status
    BY DEF Verdict
<1>2. CASE Admit(f)
    BY <1>2, AdmitReloads
<1>3. CASE ~Admit(f)
    <2>1. acq'[f].prior = acq[f].prior
        BY <1>1, <1>3, PriorKept DEF Displacing
    <2>2. \/ pc'[f] = pc[f] /\ acq'[f].receipt = acq[f].receipt
          \/ LaunchWrite(f) \/ LaunchFails(f)
        BY <1>1, <1>3, PriorKept DEF Displacing
    <2>3. fence = f
        <3>1. ASSUME NEW p \in Process, AcquireRun(p)
              PROVE  FALSE
            BY <1>1, <3>1 DEF AcquireRun, Acquire, Goto, TypeOK
        <3>2. fence' = fence \/ \E p \in Process : AcquireRun(p)
            BY ZenonT(60) DEF Next, LaunchStep, Admit, LaunchWrite, Submit, LaunchFails, Abandon,
                   ReleaseRefused, Finish, EpilogueStep, OnPaused, Settle, ReleaseRun,
                   EnterGuard, SkipPublication, Publish, BackgroundStep, Capture,
                   WriteSnapshot, Beat, LeaseLost, BusyRenewal, AbortFenced, ProcessStep,
                   Prepare, Resume, Fire, AcquireRefused, UnleasedRefused, ArmPlan, Rearm,
                   CancelRun, AbortRoute, Crash, Time, Tick, vars
        <3>3. QED
            BY <1>1, <3>1, <3>2
    <2>4. /\ pc[f] \in Displacing
          /\ pc[f] = "abandoning" => acq[f].receipt # 0
          /\ row.status \in Finished => acq[f].prior.status = row.status
        <3>1. CASE pc'[f] = pc[f] /\ acq'[f].receipt = acq[f].receipt
            BY <1>1, <2>3, <3>1 DEF Verdict, Displacing
        <3>2. CASE LaunchWrite(f)
            BY <2>3, <3>2 DEF LaunchWrite, Verdict, Displacing
        <3>3. CASE LaunchFails(f)
            BY <1>1, <2>3, <3>3 DEF LaunchFails, Goto, TypeOK, Verdict, Displacing,
                                    LaunchSeesTheLine
        <3>4. QED
            BY <2>2, <3>1, <3>2, <3>3
    <2>5. CASE row'.status = row.status
        BY <1>1, <2>1, <2>4, <2>5
    <2>6. CASE row'.status # row.status
        <3>1. PICK h \in Stretch :
                /\ fence = h
                /\ \/ /\ LaunchWrite(h) /\ Launching(h)
                      /\ view[h].revision = row.revision
                      /\ row'.status = view[h].status
                   \/ /\ Abandon(h) /\ acq[h].receipt # 0
                      /\ row'.status = Restored(h)
                   \/ Finish(h) /\ row.status = "running"
            BY <1>1, <2>6, LineMoves DEF Finished
        <3>2. h = f
            BY <2>3, <3>1
        <3>3. ~Finish(f)
            BY <2>4 DEF Finish, Displacing
        <3>4. ~Abandon(f)
            BY <1>1 DEF Abandon, Goto, TypeOK
        <3>5. pc[f] = "registered" /\ row'.status = view[f].status
              /\ view[f].revision = row.revision
            BY <3>1, <3>2, <3>3, <3>4 DEF Launching
        <3>6. QED
            BY <1>1, <2>6, <3>5 DEF LaunchSeesTheLine, Finished
    <2>7. QED
        BY <2>5, <2>6
<1>4. QED
    BY <1>2, <1>3

\* Every step keeps a cancel seen by the launch it precedes.
LEMMA SeesCancelStep ==
    ASSUME TypeOK, LaunchSeesTheLine, SeesCancel, [Next]_vars
    PROVE  SeesCancel'
<1>1. SUFFICES ASSUME NEW f \in Stretch, pc'[f] = "registered",
                      view'[f].revision = row'.revision,
                      view'[f].status = "running", row'.status = "cancelled"
               PROVE  acq'[f].prior.status = "cancelled"
    BY DEF SeesCancel
<1>2. CASE Admit(f)
    BY <1>1, <1>2, AdmitReloads
<1>3. CASE ~Admit(f)
    <2>1. acq'[f].prior = acq[f].prior /\ pc[f] = "registered"
        <3>1. acq'[f].prior = acq[f].prior
              /\ (pc'[f] = pc[f] \/ LaunchWrite(f) \/ LaunchFails(f))
            BY <1>1, <1>3, PriorKept DEF Displacing
        <3>2. QED
            BY <1>1, <3>1 DEF LaunchWrite, LaunchFails, Goto, TypeOK
    <2>2. view'[f] = view[f]
        BY <1>1, <1>3, ViewMoves
    <2>3. row' = row
        <3>1. view[f].revision <= row.revision /\ row.revision \in Nat
            BY DEF LaunchSeesTheLine, TypeOK, StoreTypeOK, RunRow
        <3>2. QED
            BY <1>1, <2>2, <3>1, LineMoves
    <2>4. QED
        BY <1>1, <2>1, <2>2, <2>3 DEF SeesCancel
<1>4. QED
    BY <1>2, <1>3

\* A verdict leaves the line only through a new launch: no late snapshot, verdict
\* or withdrawal of any stretch overwrites it, and a withdrawn launch over a
\* finished line puts that verdict back.
THEOREM VerdictsStand == Spec => VerdictStands
<1>1. Init => Verdict
    BY DEF Init, Verdict
<1>2. TypeOK /\ LaunchSeesTheLine /\ Verdict /\ [Next]_vars => Verdict'
    BY VerdictStep
<1>3. TypeOK /\ LaunchSeesTheLine /\ Verdict /\ [Next]_vars =>
        [row.status \in Finished /\ row'.status # row.status
            => \E f \in Stretch : Launching(f)]_vars
    <2>1. SUFFICES ASSUME TypeOK, Verdict, [Next]_vars, row.status \in Finished,
                          row'.status # row.status
                   PROVE  \E f \in Stretch : Launching(f)
        OBVIOUS
    <2>2. PICK f \in Stretch :
            /\ fence = f
            /\ \/ Launching(f)
               \/ Abandon(f) /\ acq[f].receipt # 0 /\ row'.status = Restored(f)
               \/ Finish(f) /\ row.status = "running"
        BY <2>1, LineMoves
    <2>3. row.status # "running"
        BY <2>1 DEF Finished
    <2>4. ASSUME Abandon(f), acq[f].receipt # 0, row'.status = Restored(f)
          PROVE  FALSE
        <3>1. acq[f].prior.status = row.status
            BY <2>1, <2>2, <2>4 DEF Verdict, Abandon
        <3>2. QED
            BY <2>1, <2>4, <3>1 DEF Restored, Finished
    <2>5. QED
        BY <2>2, <2>3, <2>4
<1>4. QED
    BY <1>1, <1>2, <1>3, TypeCorrect, LaunchesSeeTheLine, PTL DEF Spec, VerdictStands

\* A cancel that lands after a launch reloaded the line survives the launch write:
\* it moved the revision the write presents, and a view that adopted it says so.
THEOREM CancelsSurviveLaunches == Spec => CancelSurvivesLaunch
<1>1. Init => SeesCancel
    BY DEF Init, SeesCancel
<1>2. TypeOK /\ LaunchSeesTheLine /\ SeesCancel /\ [Next]_vars => SeesCancel'
    BY SeesCancelStep
<1>3. TypeOK /\ LaunchSeesTheLine /\ SeesCancel /\ [Next]_vars =>
        [\A f \in Stretch :
            (Launching(f) /\ row.status = "cancelled" /\ acq[f].prior.status # "cancelled")
                => row'.status = "cancelled"]_vars
    <2>1. SUFFICES ASSUME TypeOK, LaunchSeesTheLine, SeesCancel, [Next]_vars,
                          NEW f \in Stretch, Launching(f), row.status = "cancelled",
                          acq[f].prior.status # "cancelled"
                   PROVE  row'.status = "cancelled"
        OBVIOUS
    <2>2. LaunchWrite(f)
        <3>1. ~LaunchFails(f) /\ ~Admit(f)
            BY <2>1 DEF Launching, LaunchFails, Admit, Goto, TypeOK
        <3>2. QED
            BY <2>1, <3>1, PriorKept DEF Launching, Displacing
    <2>3. view[f].revision = row.revision /\ row'.status = view[f].status
        BY <2>1, <2>2 DEF Launching, LaunchWrite, Goto, TypeOK, CanWrite, LaunchModes, Put
    <2>4. QED
        BY <2>1, <2>3 DEF Launching, LaunchSeesTheLine, SeesCancel
<1>4. QED
    BY <1>1, <1>2, <1>3, TypeCorrect, LaunchesSeeTheLine, PTL DEF Spec, CancelSurvivesLaunch
-------------------------------------------------------------------------------
(* An answer "abort" ends what it read *)

\* A route abort read a pause, and no later revision than the line's.
AbortReads ==
    \A p \in Process : prep[p].step = "reading" /\ prep[p].mode = "abort" =>
        /\ prep[p].revision <= row.revision
        /\ prep[p].revision = row.revision => row.status = "paused"

\* Only a launch being prepared, or ending, changes what a process prepares.
LEMMA PrepMoves ==
    ASSUME TypeOK, OneLaunch, [Next]_vars, NEW p \in Process,
           prep'[p].step = "reading" \/ prep[p].step = "reading"
    PROVE  \/ prep'[p] = prep[p]
           \/ \E mode \in Requests \ {"resume"} : Prepare(p, mode)
           \/ Resume(p) \/ Fire(p) \/ AcquireRun(p) \/ AcquireRefused(p)
           \/ AbortRoute(p) \/ Crash(p)
<1>1. ASSUME NEW f \in Stretch,
             LaunchStep(f) \/ Finish(f) \/ EpilogueStep(f) \/ BackgroundStep(f)
      PROVE  prep'[p] = prep[p]
    <2>1. CASE Submit(f) \/ ReleaseRefused(f)
        <3>1. Owner(f) \in Process /\ prep[Owner(f)].step = "launching"
            BY <2>1 DEF Submit, ReleaseRefused, OneLaunch, Preparing
        <3>2. \/ prep' = prep
              \/ prep' = [prep EXCEPT ![Owner(f)] = Idle]
            BY <2>1 DEF Submit, ReleaseRefused
        <3>3. QED
            BY <3>1, <3>2 DEF TypeOK, Idle
    <2>2. CASE ~(Submit(f) \/ ReleaseRefused(f))
        BY <1>1, <2>2
           DEF LaunchStep, Admit, LaunchWrite, LaunchFails, Abandon,
               Finish, EpilogueStep, OnPaused, Settle, ReleaseRun,
               EnterGuard, SkipPublication, Publish, BackgroundStep, Capture,
               WriteSnapshot, Beat, LeaseLost, BusyRenewal, AbortFenced
    <2>3. QED
        BY <2>1, <2>2
<1>2. ASSUME NEW q \in Process, ProcessStep(q), q # p
      PROVE  prep'[p] = prep[p]
    BY <1>2 DEF ProcessStep, Prepare, Resume, Fire, AcquireRun, AcquireRefused,
                UnleasedRefused, ArmPlan, Rearm, CancelRun, AbortRoute, Crash, TypeOK
<1>3. UnleasedRefused(p) => prep'[p].step = "idle" /\ prep[p].step = "unleased"
    BY DEF UnleasedRefused, Idle, TypeOK
<1>4. ArmPlan(p) \/ Rearm(p) \/ (\E h \in Presentable(p) : CancelRun(p, h)) => prep' = prep
    BY DEF ArmPlan, Rearm, CancelRun
<1>5. CASE Time \/ UNCHANGED vars
    BY <1>5 DEF Time, vars
<1>6. QED
    BY <1>1, <1>2, <1>3, <1>4, <1>5 DEF Next, ProcessStep

\* Every step keeps what an abort read no newer than the line.
LEMMA AbortReadsStep ==
    ASSUME TypeOK, OneLaunch, AbortReads, [Next]_vars
    PROVE  AbortReads'
<1>1. SUFFICES ASSUME NEW p \in Process, prep'[p].step = "reading", prep'[p].mode = "abort"
               PROVE  /\ prep'[p].revision <= row'.revision
                      /\ prep'[p].revision = row'.revision => row'.status = "paused"
    BY DEF AbortReads
<1>2. row.revision \in Nat /\ prep[p].revision \in Nat
    BY DEF TypeOK, StoreTypeOK, RunRow, Prep
<1>3. CASE prep'[p] = prep[p]
    BY <1>1, <1>2, <1>3, LineMoves DEF AbortReads
<1>4. ASSUME NEW mode \in Requests \ {"resume"}, Prepare(p, mode)
      PROVE  row' = row /\ prep'[p] = Read(p, mode)
             /\ (mode = "abort" => row.status = "paused")
    BY <1>4 DEF Prepare, TypeOK
<1>5. CASE \E mode \in Requests \ {"resume"} : Prepare(p, mode)
    <2>1. PICK mode \in Requests \ {"resume"} : Prepare(p, mode)
        BY <1>5
    <2>2. row' = row /\ prep'[p] = Read(p, mode) /\ (mode = "abort" => row.status = "paused")
        BY <1>4, <2>1
    <2>3. Read(p, mode).mode = mode
        BY DEF Read
    <2>4. mode = "abort"
        BY <1>1, <2>2, <2>3
    <2>5. prep'[p].revision = row.revision
        BY <2>2, <2>4 DEF Read
    <2>6. QED
        BY <1>2, <2>2, <2>4, <2>5
<1>6. Resume(p) => prep'[p] = prep[p] \/ prep'[p].mode = "resume"
    BY DEF Resume, Read, TypeOK
<1>7. Fire(p) => prep'[p] = prep[p] \/ prep'[p].mode = "auto"
    BY DEF Fire, Read, TypeOK
<1>8. AcquireRun(p) \/ AcquireRefused(p) \/ AbortRoute(p) \/ Crash(p)
        => prep'[p].step # "reading"
    BY DEF AcquireRun, AcquireRefused, AbortRoute, Crash, Idle, TypeOK
<1>9. QED
    BY <1>1, <1>3, <1>5, <1>6, <1>7, <1>8, PrepMoves

\* A route answer "abort" cancels the pause that was read and nothing later.
THEOREM AbortsEndOnlyThePause == Spec => AbortEndsOnlyThePause
<1>1. Init => OneLaunch /\ AbortReads
    BY DEF Init, OneLaunch, AbortReads, Preparing, Idle
<1>2. TypeOK /\ OneLaunch /\ AbortReads /\ [Next]_vars => OneLaunch' /\ AbortReads'
    BY OneLaunchStep, AbortReadsStep
<1>3. TypeOK /\ OneLaunch /\ AbortReads /\ [Next]_vars =>
        [\A p \in Process :
            (/\ prep[p].step = "reading" /\ prep[p].mode = "abort"
             /\ prep'[p] # prep[p] /\ row' # row /\ row'.status = "cancelled")
                => row.status = "paused" /\ row.revision = prep[p].revision]_vars
    <2>1. SUFFICES ASSUME TypeOK, OneLaunch, AbortReads, [Next]_vars, NEW p \in Process,
                          prep[p].step = "reading", prep[p].mode = "abort",
                          prep'[p] # prep[p], row' # row
                   PROVE  row.status = "paused" /\ row.revision = prep[p].revision
        OBVIOUS
    <2>2. AbortRoute(p)
        <3>1. ~\E mode \in Requests \ {"resume"} : Prepare(p, mode)
            BY <2>1 DEF Prepare
        <3>2. ~Resume(p) /\ ~Fire(p) /\ ~AcquireRun(p) /\ ~AcquireRefused(p) /\ ~Crash(p)
            BY <2>1 DEF Resume, Fire, AcquireRun, AcquireRefused, Crash
        <3>3. QED
            BY <2>1, <3>1, <3>2, PrepMoves
    <2>3. prep[p].revision = row.revision
        BY <2>1, <2>2 DEF AbortRoute, CanCancel, AnyRevision, TypeOK, Prep
    <2>4. QED
        BY <2>1, <2>3 DEF AbortReads
<1>4. QED
    BY <1>1, <1>2, <1>3, TypeCorrect, PTL DEF Spec, AbortEndsOnlyThePause
-------------------------------------------------------------------------------
(* The auto-resume budget *)

\* Every plan and every launch it leads to leaves room for one attempt more.
PlansHaveAttempts ==
    \A p \in Process :
        /\ plan[p].step # "none" => plan[p].attempts < MaxAttempts
        /\ prep[p].step = "reading" /\ prep[p].mode = "auto"
             => prep[p].attempts < MaxAttempts

LaunchesHaveAttempts ==
    \A f \in Stretch : acq[f].mode = "auto" /\ fence = f =>
        /\ pc[f] = "acquired" => row.attempts < MaxAttempts
        /\ pc[f] = "registered" => NextAttempt(f) <= MaxAttempts

\* Every step keeps an attempt left to each plan.
LEMMA PlansStep ==
    ASSUME TypeOK, OneLaunch, PlansHaveAttempts, [Next]_vars
    PROVE  PlansHaveAttempts'
<1>1. ASSUME NEW p \in Process
      PROVE  plan'[p].step # "none" => plan'[p].attempts < MaxAttempts
    <2>1. plan[p].step # "none" => plan[p].attempts < MaxAttempts
        BY <1>1 DEF PlansHaveAttempts
    <2>2. NoPlan.step = "none"
        BY DEF NoPlan
    <2>3. ASSUME NEW q \in Process, ProcessStep(q)
          PROVE  plan'[p].step # "none" => plan'[p].attempts < MaxAttempts
        <3>1. CASE Rearm(q)
            BY <2>1, <3>1 DEF Rearm, AttemptsLeft, TypeOK
        <3>2. CASE ArmPlan(q)
            BY <2>1, <2>2, <3>2 DEF ArmPlan, TypeOK, Plan
        <3>3. CASE ~Rearm(q) /\ ~ArmPlan(q)
            <4>1. plan' = plan \/ plan' = [plan EXCEPT ![q] = NoPlan]
                BY <2>3, <3>3
                   DEF ProcessStep, Prepare, Resume, Fire, AcquireRun, AcquireRefused,
                       UnleasedRefused, CancelRun, AbortRoute, Crash, Revoked
            <4>2. QED
                BY <2>1, <2>2, <4>1 DEF TypeOK
        <3>4. QED
            BY <3>1, <3>2, <3>3
    <2>4. ASSUME NEW f \in Stretch, OnPaused(f)
          PROVE  plan'[p].step # "none" => plan'[p].attempts < MaxAttempts
        BY <2>1, <2>4 DEF OnPaused, AttemptsLeft, TypeOK
    <2>5. ASSUME NEW f \in Stretch,
                 LaunchStep(f) \/ Finish(f) \/ EpilogueStep(f) \/ BackgroundStep(f),
                 ~OnPaused(f)
          PROVE  plan' = plan \/ plan' = [plan EXCEPT ![Owner(f)] = NoPlan]
        BY <2>5
           DEF LaunchStep, Admit, LaunchWrite, Submit, LaunchFails, Abandon,
               ReleaseRefused, Finish, EpilogueStep, Settle, ReleaseRun,
               EnterGuard, SkipPublication, Publish, BackgroundStep, Capture,
               WriteSnapshot, Beat, LeaseLost, BusyRenewal, AbortFenced, Revoked
    <2>6. CASE Time \/ UNCHANGED vars
        BY <2>1, <2>6 DEF Time, vars
    <2>7. QED
        BY <2>1, <2>2, <2>3, <2>4, <2>5, <2>6 DEF Next, TypeOK
<1>2. ASSUME NEW p \in Process, prep'[p].step = "reading", prep'[p].mode = "auto"
      PROVE  prep'[p].attempts < MaxAttempts
    <2>1. CASE prep'[p] = prep[p]
        BY <1>2, <2>1 DEF PlansHaveAttempts
    <2>2. CASE \E mode \in Requests \ {"resume"} : Prepare(p, mode)
        BY <1>2, <2>2 DEF Prepare, Read, TypeOK
    <2>3. CASE Resume(p)
        BY <1>2, <2>1, <2>3 DEF Resume, Read, TypeOK
    <2>4. CASE Fire(p)
        <3>1. prep'[p] = prep[p]
              \/ (prep'[p] = Read(p, "auto") /\ row.attempts = plan[p].attempts)
            BY <2>4 DEF Fire, ResumeTokenHolds, TypeOK
        <3>2. plan[p].attempts < MaxAttempts
            BY <2>4 DEF Fire, PlansHaveAttempts
        <3>3. QED
            BY <2>1, <3>1, <3>2 DEF Read
    <2>5. AcquireRun(p) \/ AcquireRefused(p) \/ AbortRoute(p) \/ Crash(p)
            => prep'[p].step # "reading"
        BY DEF AcquireRun, AcquireRefused, AbortRoute, Crash, Idle, TypeOK
    <2>6. QED
        BY <1>2, <2>1, <2>2, <2>3, <2>4, <2>5, PrepMoves
<1>3. QED
    BY <1>1, <1>2 DEF PlansHaveAttempts

\* While a launch is prepared the line keeps its count of attempts.
LEMMA AttemptsKept ==
    ASSUME TypeOK, [Next]_vars, fence \in Stretch, pc[fence] = "acquired"
    PROVE  row'.attempts = row.attempts
<1>1. ASSUME NEW f \in Stretch, LaunchWrite(f) \/ Abandon(f) \/ Finish(f) \/ Settle(f)
      PROVE  row' = row
    <2>1. f # fence
        BY <1>1 DEF LaunchWrite, Abandon, Finish, Settle
    <2>2. QED
        BY <1>1, <2>1 DEF LaunchWrite, Abandon, Finish, Settle, CanWrite
<1>2. ASSUME NEW f \in Stretch, WriteSnapshot(f)
      PROVE  row'.attempts = row.attempts
    BY <1>2 DEF WriteSnapshot, Put
<1>3. ASSUME NEW f \in Stretch,
             LaunchStep(f) \/ Finish(f) \/ EpilogueStep(f) \/ BackgroundStep(f)
      PROVE  row'.attempts = row.attempts
    BY <1>1, <1>2, <1>3
       DEF LaunchStep, Admit, Submit, LaunchFails, ReleaseRefused, EpilogueStep, OnPaused,
           ReleaseRun, EnterGuard, SkipPublication, Publish, BackgroundStep, Capture, Beat,
           LeaseLost, BusyRenewal, AbortFenced
<1>4. ASSUME NEW p \in Process, ProcessStep(p)
      PROVE  Cancel \/ row' = row
    BY <1>4 DEF ProcessStep, Prepare, Resume, Fire, AcquireRun, Acquire, AcquireRefused,
                UnleasedRefused, ArmPlan, Rearm, CancelRun, AbortRoute, Crash
<1>5. Cancel => row'.attempts = row.attempts
    BY DEF Cancel, Put
<1>6. CASE Time \/ UNCHANGED vars
    BY <1>6 DEF Time, Tick, vars
<1>7. QED
    BY <1>3, <1>4, <1>5, <1>6 DEF Next

\* Only an acquisition moves the fence or a stretch into its first step.
LEMMA AcquiringMoves ==
    ASSUME TypeOK, [Next]_vars, NEW f \in Stretch, ~\E p \in Process : AcquireRun(p)
    PROVE  /\ fence' = fence
           /\ acq'[f].mode = acq[f].mode
           /\ pc'[f] = "acquired" => pc[f] = "acquired"
<1>1. fence' = fence
    BY ZenonT(60) DEF Next, LaunchStep, Admit, LaunchWrite, Submit, LaunchFails, Abandon,
           ReleaseRefused, Finish, EpilogueStep, OnPaused, Settle, ReleaseRun,
           EnterGuard, SkipPublication, Publish, BackgroundStep, Capture,
           WriteSnapshot, Beat, LeaseLost, BusyRenewal, AbortFenced, ProcessStep,
           Prepare, Resume, Fire, AcquireRefused, UnleasedRefused, ArmPlan, Rearm,
           CancelRun, AbortRoute, Crash, Time, Tick, vars
<1>2. ASSUME NEW g \in Stretch,
             LaunchStep(g) \/ Finish(g) \/ EpilogueStep(g) \/ BackgroundStep(g)
      PROVE  pc'[f] = "acquired" => pc[f] = "acquired"
    BY <1>2, ZenonT(60)
       DEF LaunchStep, Admit, LaunchWrite, Submit, LaunchFails, Abandon,
           ReleaseRefused, Finish, EpilogueStep, OnPaused, Settle, ReleaseRun,
           EnterGuard, SkipPublication, Publish, BackgroundStep, Capture,
           WriteSnapshot, Beat, LeaseLost, BusyRenewal, AbortFenced, Goto, TypeOK
<1>3. ASSUME NEW g \in Stretch,
             LaunchStep(g) \/ Finish(g) \/ EpilogueStep(g) \/ BackgroundStep(g)
      PROVE  acq'[f].mode = acq[f].mode
    BY <1>3, FieldsKept
<1>4. ASSUME NEW p \in Process, ProcessStep(p), ~AcquireRun(p)
      PROVE  acq'[f].mode = acq[f].mode /\ (pc'[f] = "acquired" => pc[f] = "acquired")
    <2>1. CASE Crash(p)
        BY <2>1, CrashFieldsKept
    <2>2. CASE ~Crash(p)
        BY <1>4, <2>2, ProcessFieldsKept
    <2>3. QED
        BY <2>1, <2>2
<1>5. CASE Time \/ UNCHANGED vars
    BY <1>1, <1>5 DEF Time, vars
<1>6. QED
    BY <1>1, <1>2, <1>3, <1>4, <1>5 DEF Next

\* Every step keeps the attempts of a launch within the cap.
LEMMA LaunchesStep ==
    ASSUME TypeOK, PlansHaveAttempts, LaunchesHaveAttempts, [Next]_vars
    PROVE  LaunchesHaveAttempts'
<1>1. CASE \E p \in Process : AcquireRun(p)
    <2>1. PICK p \in Process : AcquireRun(p)
        BY <1>1
    <2> DEFINE new == fence + 1
    <2>2. new \in Stretch /\ fence' = new /\ row' = row /\ pc'[new] = "acquired"
        BY <2>1 DEF AcquireRun, Acquire, TypeOK, Stretch, Goto
    <2>3. acq'[new].mode = prep[p].mode
        BY <2>1, <2>2 DEF AcquireRun, Unborn, TypeOK
    <2>4. prep[p].mode = "auto" => row.attempts < MaxAttempts
        BY <2>1 DEF AcquireRun, TokenHolds, ResumeTokenHolds, PlansHaveAttempts
    <2> HIDE DEF new
    <2>5. QED
        BY <2>2, <2>3, <2>4 DEF LaunchesHaveAttempts
<1>2. CASE ~\E p \in Process : AcquireRun(p)
    <2>1. SUFFICES ASSUME NEW f \in Stretch, acq'[f].mode = "auto", fence' = f
                   PROVE  /\ pc'[f] = "acquired" => row'.attempts < MaxAttempts
                          /\ pc'[f] = "registered" => NextAttempt(f)' <= MaxAttempts
        BY DEF LaunchesHaveAttempts
    <2>2. acq[f].mode = "auto" /\ fence = f /\ (pc'[f] = "acquired" => pc[f] = "acquired")
        BY <1>2, <2>1, AcquiringMoves
    <2>3. ASSUME pc'[f] = "acquired"
          PROVE  row'.attempts < MaxAttempts
        BY <2>2, <2>3, AttemptsKept DEF LaunchesHaveAttempts
    <2>4. ASSUME pc'[f] = "registered"
          PROVE  NextAttempt(f)' <= MaxAttempts
        <3>1. CASE Admit(f)
            <4>1. acq'[f].prior = row /\ row.attempts < MaxAttempts /\ row.attempts \in Nat
                BY <2>2, <3>1, AdmitReloads
                   DEF Admit, LaunchesHaveAttempts, TypeOK, StoreTypeOK, RunRow
            <4>2. QED
                BY <4>1 DEF NextAttempt
        <3>2. CASE ~Admit(f)
            <4>1. acq'[f].prior = acq[f].prior
                  /\ (pc'[f] = pc[f] \/ LaunchWrite(f) \/ LaunchFails(f))
                BY <2>4, <3>2, PriorKept DEF Displacing
            <4>2. pc[f] = "registered"
                BY <2>4, <4>1 DEF LaunchWrite, LaunchFails, Goto, TypeOK
            <4>3. QED
                BY <2>2, <4>1, <4>2 DEF LaunchesHaveAttempts, NextAttempt
        <3>3. QED
            BY <3>1, <3>2
    <2>5. QED
        BY <2>3, <2>4
<1>3. QED
    BY <1>1, <1>2

\* At first no plan is made and nothing is prepared.
LEMMA AttemptsInitially == Init => OneLaunch /\ PlansHaveAttempts /\ LaunchesHaveAttempts
BY DEF Init, StoreInit, OneLaunch, PlansHaveAttempts, LaunchesHaveAttempts,
       Preparing, Idle, NoPlan, Stretch

\* What the cap rests on is kept by every step, with what says that a process
\* prepares one launch at a time.
LEMMA AttemptsStep ==
    TypeOK /\ OneLaunch /\ PlansHaveAttempts /\ LaunchesHaveAttempts /\ [Next]_vars
        => OneLaunch' /\ PlansHaveAttempts' /\ LaunchesHaveAttempts'
BY OneLaunchStep, PlansStep, LaunchesStep

\* A launch that has an attempt left writes no more than the cap.
LEMMA CappedStep ==
    ASSUME TypeOK, LaunchesHaveAttempts, [Next]_vars
    PROVE  AutoLaunchIsCapped
<1>1. SUFFICES ASSUME NEW f \in Stretch, Launching(f), acq[f].mode = "auto"
               PROVE  row'.attempts <= MaxAttempts
    BY DEF AutoLaunchIsCapped
<1>2. LaunchWrite(f)
    <2>1. ~LaunchFails(f) /\ ~Admit(f)
        BY <1>1 DEF Launching, LaunchFails, Admit, Goto, TypeOK
    <2>2. QED
        BY <1>1, <2>1, PriorKept DEF Launching, Displacing
<1>3. fence = f /\ row'.attempts = NextAttempt(f)
    BY <1>1, <1>2 DEF Launching, LaunchWrite, Goto, TypeOK, CanWrite, Put
<1>4. QED
    BY <1>1, <1>3 DEF Launching, LaunchesHaveAttempts

\* No auto-resume takes a run past its attempts: the plan, the token it presents
\* and the acquisition that revalidates it are about the same line.
THEOREM AutoResumesAreCapped == Spec => AutoResumeCapped
<1>1. TypeOK /\ LaunchesHaveAttempts /\ [Next]_vars => [AutoLaunchIsCapped]_vars
    BY CappedStep
<1>2. QED
    BY <1>1, AttemptsInitially, AttemptsStep, TypeCorrect, PTL DEF Spec, AutoResumeCapped
===============================================================================
