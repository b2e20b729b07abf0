-------------------------- MODULE AutomationProofs --------------------------
(***************************************************************************)
(* AutomationRuns and AutomationOutbox for every value of their constants. *)
(*                                                                         *)
(* First the leases and runs: the rows keep their types, the lease of a    *)
(* job and its running run stand for each other, at most one run of a job  *)
(* is running and at most one queued, and an active lease is never stolen. *)
(* Then what the rows tell of a job: its schedule follows its switch, its  *)
(* incidents have their alerts, and the state shown is true of them; and   *)
(* "off" revokes every claim.                                              *)
(* Last the deliveries to the owner: what the rows of the outbox say is    *)
(* true of his chat, nothing is sent a second time on a guess, and nothing *)
(* for a job that was archived.                                            *)
(***************************************************************************)
EXTENDS AutomationOutbox, FiniteSetTheorems, TLAPS

USE DEF RunIds, OutboxIds

\* What an active window answers is a time.
LEMMA NextActiveNat ==
    ASSUME NEW s \in Schedules, now \in 1..MaxTime, NEW d \in Delays \cup {s.every, 0}
    PROVE  NextActive(now + d, s) \in Nat
    BY WindowsOK

LEMMA NextRunNat ==
    ASSUME TypeOK, NEW j \in Jobs, NEW d \in Delays \cup {job[j].sched.every}
    PROVE  NextRun(j, d) \in Nat
<1>1. job[j].sched \in Schedules /\ now \in 1..MaxTime
      BY DEF TypeOK, JobRow
<1>2. NextActive(now + d, job[j].sched) \in Nat
      BY <1>1, NextActiveNat
<1> QED BY <1>2 DEF NextRun

\* The empty rows are rows.
LEMMA InitTypes ==
    /\ NoJob \in JobRow
    /\ NoRuntime \in RuntimeRow
    /\ NoRun \in RunRow
    /\ NoMessage \in Message
<1> USE ConstantsOK
<1>1. NoJob \in JobRow  BY DEF NoJob, JobRow
<1>2. NoRuntime \in RuntimeRow  BY DEF NoRuntime, RuntimeRow, ActualStates
<1>3. NoRun \in RunRow  BY DEF NoRun, RunRow, Terminal
<1>4. NoMessage \in Message  BY DEF NoMessage, Message, Pending
<1> QED BY <1>1, <1>2, <1>3, <1>4

\* A run row with another status, a message row with another one.
LEMMA RunStatus ==
    ASSUME NEW row \in RunRow, NEW st \in {"absent", "queued", "running"} \cup Terminal
    PROVE  [row EXCEPT !.st = st] \in RunRow
    BY DEF RunRow

LEMMA NewMessageType ==
    ASSUME TypeOK
    PROVE  NewMessage \in Message
<1>1. now \in Nat  BY DEF TypeOK
<1> QED BY <1>1 DEF NewMessage, Message, Pending

LEMMA CancelQueuedTypes ==
    ASSUME TypeOK, NEW j \in Jobs
    PROVE  CancelQueued(j) \in [RunIds -> RunRow]
<1>1. ASSUME NEW r \in RunIds  PROVE CancelQueued(j)[r] \in RunRow
  <2>1. runs[r] \in RunRow  BY DEF TypeOK
  <2>2. [runs[r] EXCEPT !.st = "cancelled"] \in RunRow  BY <2>1, RunStatus DEF Terminal
  <2> QED BY <2>1, <2>2 DEF CancelQueued
<1> QED BY <1>1 DEF CancelQueued

\* What claim_next_run leaves of the expired leases.
LEMMA ReapTypes ==
    ASSUME TypeOK, Reap
    PROVE  /\ ReapedRuntime \in [Jobs -> RuntimeRow]
           /\ ReapedRuns \in [RunIds -> RunRow]
           /\ ReapedOutbox \in [OutboxIds -> Message]
           /\ \A j \in Jobs : ReapedRuntime[j].token = runtime[j].token
<1> USE ConstantsOK
<1>1. ReapedRuns \in [RunIds -> RunRow]
  <2>1. ASSUME NEW r \in RunIds  PROVE ReapedRuns[r] \in RunRow
    <3>1. runs[r] \in RunRow  BY DEF TypeOK
    <3>2. [runs[r] EXCEPT !.st = "failed"] \in RunRow  BY <3>1, RunStatus DEF Terminal
    <3> QED BY <3>1, <3>2 DEF ReapedRuns
  <2> QED BY <2>1 DEF ReapedRuns
<1>2. ASSUME NEW j \in Jobs
      PROVE  ReapedRuntime[j] \in RuntimeRow /\ ReapedRuntime[j].token = runtime[j].token
  <2>1. runtime[j] \in RuntimeRow  BY DEF TypeOK
  <2>2. CASE j \notin Expired  BY <2>1, <2>2 DEF ReapedRuntime
  <2>3. CASE j \in Expired
    <3>1. runtime[j].incident = 0 => runtime[j].incidents + 1 \in 0..MaxIncidents
          BY <2>1, <2>3, MaxIncidents \in Nat DEF Reap, OpensIncident, RuntimeRow
    <3> QED BY <2>1, <2>3, <3>1 DEF ReapedRuntime, RuntimeRow, ActualStates
  <2> QED BY <2>2, <2>3
<1>3. ReapedRuntime \in [Jobs -> RuntimeRow]
      BY <1>2 DEF ReapedRuntime
<1>4. ReapedOutbox \in [OutboxIds -> Message]
  <2>1. ASSUME NEW m \in OutboxIds  PROVE outbox[m] \in Message  BY DEF TypeOK
  <2> QED BY <2>1, NewMessageType DEF ReapedOutbox
<1> QED BY <1>1, <1>2, <1>3, <1>4

LEMMA StartedTypes ==
    ASSUME TypeOK, Reap, NEW j \in Jobs, NEW o \in Owners
    PROVE  Started(j, o) \in RuntimeRow /\ Started(j, o).token = runtime[j].token + 1
<1>1. ReapedRuntime[j] \in RuntimeRow /\ ReapedRuntime[j].token = runtime[j].token
      BY ReapTypes
<1>2. now + LeaseSeconds \in Nat  BY ConstantsOK DEF TypeOK
<1>3. ReapedRuntime[j].token + 1 \in Nat  BY <1>1 DEF RuntimeRow
<1>4. Started(j, o) \in RuntimeRow
      BY <1>1, <1>2, <1>3, Zenon DEF Started, RuntimeRow, ActualStates
<1>5. Started(j, o).token = ReapedRuntime[j].token + 1
      BY <1>1 DEF Started, RuntimeRow
<1> QED BY <1>1, <1>4, <1>5

LEMMA DeferredTypes ==
    ASSUME TypeOK, Reap, NEW D \in SUBSET Jobs
    PROVE  Deferred(D) \in [Jobs -> RuntimeRow]
<1>1. ASSUME NEW j \in Jobs  PROVE Deferred(D)[j] \in RuntimeRow
  <2>1. ReapedRuntime[j] \in RuntimeRow  BY ReapTypes
  <2>2. job[j].sched \in Schedules /\ now \in 1..MaxTime  BY DEF TypeOK, JobRow
  <2>3. NextActive(now + 0, job[j].sched) \in Nat  BY <2>2, NextActiveNat
  <2>4. now + 0 = now  BY <2>2
  <2> QED BY <2>1, <2>3, <2>4 DEF Deferred, RuntimeRow
<1> QED BY <1>1 DEF Deferred

LEMMA Rows ==
    ASSUME TypeOK
    PROVE  /\ \A j \in Jobs : job[j] \in JobRow /\ runtime[j] \in RuntimeRow
           /\ \A r \in RunIds : runs[r] \in RunRow
           /\ \A m \in OutboxIds : outbox[m] \in Message
    BY DEF TypeOK

\* Replacing one row keeps a table well typed.
LEMMA RowUpdates ==
    ASSUME TypeOK
    PROVE  /\ \A j \in Jobs, row \in JobRow : [job EXCEPT ![j] = row] \in [Jobs -> JobRow]
           /\ \A j \in Jobs, row \in RuntimeRow :
                 [runtime EXCEPT ![j] = row] \in [Jobs -> RuntimeRow]
           /\ \A r \in RunIds, row \in RunRow : [runs EXCEPT ![r] = row] \in [RunIds -> RunRow]
           /\ \A m \in OutboxIds, row \in Message :
                 [outbox EXCEPT ![m] = row] \in [OutboxIds -> Message]
    BY DEF TypeOK

LEMMA TypeInit == Init => TypeOK
<1> SUFFICES ASSUME Init PROVE TypeOK  OBVIOUS
<1>1. now \in 1..MaxTime  BY ConstantsOK DEF Init
<1>2. hold \in [reason : HoldReasons \cup {"none"}, by : Parties \cup {NoParty}]
      BY DEF Init
<1> QED BY <1>1, <1>2, InitTypes DEF Init, TypeOK

\* What the control socket and the role projection write is well typed.
LEMMA ControlTypes ==
    ASSUME TypeOK, Control
    PROVE  TypeOK'
<1>0. now \in Nat /\ now + LeaseSeconds \in Nat  BY ConstantsOK DEF TypeOK
<1>1. ASSUME NEW j \in Jobs, NEW s \in Schedules, Create(j, s)  PROVE TypeOK'
  <2>1. [NoJob EXCEPT !.st = "live", !.sched = s, !.updated = now] \in JobRow
        BY InitTypes, <1>0, Zenon DEF JobRow
  <2> QED BY <1>1, <2>1, InitTypes, RowUpdates DEF TypeOK, Create
<1>2. ASSUME NEW j \in Jobs, SeedDefaults(j)  PROVE TypeOK'
  <2>1. [NoJob EXCEPT !.st = "live", !.updated = now] \in JobRow
        BY InitTypes, <1>0, Zenon DEF JobRow
  <2> QED BY <1>2, <2>1, InitTypes, RowUpdates DEF TypeOK, SeedDefaults
<1>3. ASSUME NEW j \in Jobs, Enable(j)  PROVE TypeOK'
  <2>1. job[j].revision + 1 \in Nat \ {0}  BY DEF TypeOK, JobRow
  <2> DEFINE plan == [job[j] EXCEPT !.desired = "on", !.revision = job[j].revision + 1, !.updated = now]
  <2>a. plan \in JobRow  BY Rows, <1>0, <2>1, Zenon DEF JobRow
  <2>b. job' = [job EXCEPT ![j] = plan]  BY <1>3 DEF TypeOK, Enable
  <2>2. job' \in [Jobs -> JobRow]  BY <2>a, <2>b, RowUpdates
  <2> QED BY <1>3, <2>2 DEF TypeOK, Enable
<1>4. ASSUME NEW j \in Jobs, Disable(j)  PROVE TypeOK'
  <2>1. job[j].revision + 1 \in Nat \ {0}  BY DEF TypeOK, JobRow
  <2> DEFINE plan == [job[j] EXCEPT !.desired = "off", !.revision = job[j].revision + 1, !.updated = now]
  <2>a. plan \in JobRow  BY Rows, <1>0, <2>1, Zenon DEF JobRow
  <2>b. job' = [job EXCEPT ![j] = plan]  BY <1>4 DEF TypeOK, Disable
  <2>2. job' \in [Jobs -> JobRow]  BY <2>a, <2>b, RowUpdates
  <2> DEFINE actual == IF LeaseActive(j) THEN "stopping" ELSE runtime[j].actual
             row == [runtime[j] EXCEPT !.actual = actual, !.next = 0]
  <2>3. row \in RuntimeRow
    <3>1. runtime[j] \in RuntimeRow  BY DEF TypeOK
    <3>2. actual \in ActualStates  BY <3>1 DEF RuntimeRow, ActualStates
    <3> HIDE DEF actual
    <3> QED BY <3>1, <3>2, 0 \in Nat, Zenon DEF RuntimeRow
  <2>4. runtime' = [runtime EXCEPT ![j] = row]  BY <1>4 DEF TypeOK, Disable
  <2>5. runtime' \in [Jobs -> RuntimeRow]  BY <2>3, <2>4, RowUpdates
  <2>6. runs' \in [RunIds -> RunRow]  BY <1>4, CancelQueuedTypes DEF Disable
  <2> QED BY <1>4, <2>2, <2>5, <2>6 DEF TypeOK, Disable
<1>5. ASSUME NEW j \in Jobs, NEW s \in Schedules, SetSchedule(j, s)  PROVE TypeOK'
  <2>1. job[j].revision + 1 \in Nat \ {0}  BY DEF TypeOK, JobRow
  <2> DEFINE plan == [job[j] EXCEPT !.sched = s, !.revision = job[j].revision + 1, !.updated = now]
  <2>a. plan \in JobRow  BY Rows, <1>0, <2>1, Zenon DEF JobRow
  <2>b. job' = [job EXCEPT ![j] = plan]  BY <1>5 DEF TypeOK, SetSchedule
  <2>2. job' \in [Jobs -> JobRow]  BY <2>a, <2>b, RowUpdates
  <2> QED BY <1>5, <2>2 DEF TypeOK, SetSchedule
<1>6. ASSUME NEW j \in Jobs, NEW r \in RunIds, EnqueueRun(j, r)  PROVE TypeOK'
  <2>1. [NoRun EXCEPT !.st = "queued", !.job = j, !.at = now] \in RunRow
        BY InitTypes, <1>0, Zenon DEF RunRow
  <2>2. [runtime[j] EXCEPT !.actual = "queued"] \in RuntimeRow
        BY Rows, Zenon DEF RuntimeRow, ActualStates
  <2>3. runtime' = [runtime EXCEPT ![j] = [runtime[j] EXCEPT !.actual = "queued"]]
        BY <1>6 DEF TypeOK, EnqueueRun
  <2> QED BY <1>6, <2>1, <2>2, <2>3, RowUpdates DEF TypeOK, EnqueueRun
<1>7. ASSUME NEW j \in Jobs, TestNotification(j)  PROVE TypeOK'
  <2>1. runtime[j].tests + 1 \in 0..MaxIncidents
    <3>1. runtime[j].tests \in 0..MaxIncidents  BY Rows DEF RuntimeRow
    <3>2. runtime[j].tests < MaxTests  BY <1>7 DEF TestNotification
    <3>3. MaxTests \in 0..MaxIncidents /\ MaxIncidents \in Nat  BY ConstantsOK
    <3> QED BY <3>1, <3>2, <3>3
  <2>2. [runtime[j] EXCEPT !.tests = runtime[j].tests + 1] \in RuntimeRow
        BY Rows, <2>1, Zenon DEF RuntimeRow
  <2>3. runtime' = [runtime EXCEPT ![j] = [runtime[j] EXCEPT !.tests = runtime[j].tests + 1]]
        BY <1>7 DEF TypeOK, TestNotification
  <2>4. <<"test", j, runtime[j].tests + 1>> \in OutboxIds
    <3>1. runtime[j].tests + 1 \in 1..MaxIncidents  BY <2>1, Rows DEF RuntimeRow
    <3> QED BY <3>1
  <2> QED BY <1>7, <2>2, <2>3, <2>4, NewMessageType, RowUpdates DEF TypeOK, TestNotification
<1>8. ASSUME NEW j \in Jobs, Archive(j)  PROVE TypeOK'
  <2>1. job[j].revision + 1 \in Nat \ {0} /\ job[j].revision + 1 \in Nat
        BY DEF TypeOK, JobRow
  <2> DEFINE plan == [job[j] EXCEPT !.st = "archived", !.revision = job[j].revision + 1, !.updated = now]
  <2>a. plan \in JobRow  BY Rows, <1>0, <2>1, Zenon DEF JobRow
  <2>b. job' = [job EXCEPT ![j] = plan]  BY <1>8 DEF TypeOK, Archive
  <2>2. job' \in [Jobs -> JobRow]  BY <2>a, <2>b, RowUpdates
  <2> DEFINE row == [runtime[j] EXCEPT !.actual = "archived", !.next = 0,
                                       !.applied = job[j].revision + 1]
  <2>3. row \in RuntimeRow
        BY Rows, <2>1, 0 \in Nat, Zenon DEF RuntimeRow, ActualStates
  <2>4. runtime' = [runtime EXCEPT ![j] = row]  BY <1>8 DEF TypeOK, Archive
  <2>5. runtime' \in [Jobs -> RuntimeRow]  BY <2>3, <2>4, RowUpdates
  <2>6. runs' \in [RunIds -> RunRow]  BY <1>8, CancelQueuedTypes DEF Archive
  <2>7. outbox' \in [OutboxIds -> Message]
    <3>1. ASSUME NEW m \in OutboxIds
          PROVE  [outbox[m] EXCEPT !.st = "cancelled", !.owner = NoOwner, !.until = 0] \in Message
          BY Rows, 0 \in Nat, Zenon DEF Message
    <3> QED BY <1>8, <3>1 DEF TypeOK, Archive
  <2> QED BY <1>8, <2>2, <2>5, <2>6, <2>7 DEF TypeOK, Archive
<1>9. ASSUME NEW j \in Jobs, NEW desired \in {"on", "off"},
             NEW shown \in {"error", "running", "idle", "disabled"},
             NEW wake \in 0..MaxTime, ProjectRole(j, desired, shown, wake)
      PROVE  TypeOK'
  <2> DEFINE row == IF Live(j) THEN job[j] ELSE [NoJob EXCEPT !.st = "live"]
             revision == row.revision + IF row.desired # desired THEN 1 ELSE 0
             kept == IF runtime[j].next # 0 THEN runtime[j].next ELSE now
             next == IF desired = "off" THEN 0
                     ELSE IF wake # 0 /\ shown = "idle" THEN wake ELSE kept
             line == [runtime[j] EXCEPT !.actual = shown, !.next = next, !.applied = revision]
  <2>1. row \in JobRow
    <3>1. [NoJob EXCEPT !.st = "live"] \in JobRow  BY InitTypes, Zenon DEF JobRow
    <3> QED BY <3>1 DEF TypeOK
  <2>2. revision \in Nat \ {0} /\ revision \in Nat  BY <2>1 DEF JobRow
  <2>3. next \in Nat  BY <1>0 DEF TypeOK, RuntimeRow
  <2>4. job' = [job EXCEPT ![j] = [row EXCEPT !.desired = desired, !.revision = revision,
                                              !.updated = now]]
        BY <1>9 DEF ProjectRole
  <2>5. runtime' = [runtime EXCEPT ![j] = line]
    <3>1. runtime' = [runtime EXCEPT ![j].actual = shown, ![j].next = next, ![j].applied = revision]
          BY <1>9 DEF ProjectRole
    <3> HIDE DEF next, revision
    <3> QED BY <3>1 DEF TypeOK
  <2>6. runs' \in [RunIds -> RunRow]  BY <1>9, CancelQueuedTypes DEF TypeOK, ProjectRole
  <2>7. UNCHANGED <<now, hold, outbox>>  BY <1>9 DEF ProjectRole
  <2> HIDE DEF row, revision, next
  <2>8. job' \in [Jobs -> JobRow]
    <3>1. [row EXCEPT !.desired = desired, !.revision = revision, !.updated = now] \in JobRow
          BY <2>1, <2>2, <1>0, Zenon DEF JobRow
    <3> QED BY <3>1, <2>4, RowUpdates
  <2>9. line \in RuntimeRow
    <3>1. runtime[j] \in RuntimeRow  BY DEF TypeOK
    <3>2. shown \in ActualStates  BY DEF ActualStates
    <3> QED BY <2>2, <2>3, <3>1, <3>2, Zenon DEF RuntimeRow
  <2>10. runtime' \in [Jobs -> RuntimeRow]  BY <2>5, <2>9, RowUpdates
  <2> QED BY <2>6, <2>7, <2>8, <2>10 DEF TypeOK
<1>10. ASSUME NEW p \in Parties, NEW reason \in HoldReasons \cup {"none"}, SetGlobalHold(p, reason)
       PROVE  TypeOK'
  <2>1. hold' \in [reason : HoldReasons \cup {"none"}, by : Parties \cup {NoParty}]
        BY <1>10 DEF SetGlobalHold
  <2> QED BY <1>10, <2>1 DEF TypeOK, SetGlobalHold
<1> QED BY <1>1, <1>2, <1>3, <1>4, <1>5, <1>6, <1>7, <1>8, <1>9, <1>10 DEF Control

\* What the scheduler writes is well typed.
LEMMA SchedulerTypes ==
    ASSUME TypeOK, Scheduler
    PROVE  TypeOK'
<1>0. now \in Nat /\ now + LeaseSeconds \in Nat  BY ConstantsOK DEF TypeOK
<1>1. ASSUME NEW j \in Jobs, Reconcile(j)  PROVE TypeOK'
  <2> DEFINE next == NextActive(now + job[j].sched.every, job[j].sched)
             stopping == [runtime[j] EXCEPT !.actual = "stopping", !.next = 0]
             resting == [runtime[j] EXCEPT !.actual = RestState(j), !.next = next,
                                           !.applied = job[j].revision]
             off == [runtime[j] EXCEPT !.actual = "disabled", !.next = 0,
                                       !.applied = job[j].revision]
  <2>1. next \in Nat
    <3>1. job[j].sched \in Schedules /\ now \in 1..MaxTime  BY DEF TypeOK, JobRow
    <3> QED BY <3>1, NextActiveNat
  <2>2. job[j].revision \in Nat  BY Rows DEF JobRow
  <2>3. RestState(j) \in ActualStates  BY DEF RestState, ActualStates
  <2>4. /\ stopping \in RuntimeRow
        /\ resting \in RuntimeRow
        /\ off \in RuntimeRow
    <3> HIDE DEF next
    <3>1. "stopping" \in ActualStates /\ "disabled" \in ActualStates  BY DEF ActualStates
    <3> QED BY Rows, <2>1, <2>2, <2>3, <3>1, 0 \in Nat, Zenon DEF RuntimeRow
  <2>5. runtime' \in {[runtime EXCEPT ![j] = stopping], [runtime EXCEPT ![j] = resting],
                      [runtime EXCEPT ![j] = off]}
    <3>1. CASE LeaseActive(j)
          BY <1>1, <3>1 DEF Reconcile, TypeOK
    <3>2. CASE ~LeaseActive(j) /\ job[j].desired = "on"
          BY <1>1, <3>2 DEF Reconcile, TypeOK
    <3>3. CASE ~LeaseActive(j) /\ job[j].desired # "on"
          BY <1>1, <3>3 DEF Reconcile, TypeOK
    <3> QED BY <3>1, <3>2, <3>3
  <2>6. runtime' \in [Jobs -> RuntimeRow]
    <3> HIDE DEF stopping, resting, off
    <3> QED BY <2>4, <2>5, RowUpdates
  <2>7. runs' \in [RunIds -> RunRow]  BY <1>1, CancelQueuedTypes DEF Reconcile, TypeOK
  <2> QED BY <1>1, <2>6, <2>7 DEF Reconcile, TypeOK
<1>2. ASSUME NEW o \in Owners, NEW r \in RunIds, ClaimQueued(o, r)  PROVE TypeOK'
  <2> DEFINE j == runs[r].job
             row == [ReapedRuns[r] EXCEPT !.st = "running", !.owner = o,
                         !.token = runtime[j].token + 1, !.revision = job[j].revision]
  <2>1. Reap  BY <1>2 DEF ClaimQueued
  <2>2. j \in Jobs  BY Rows DEF RunRow
  <2>3. runtime[j].token + 1 \in Nat /\ job[j].revision \in Nat
        BY Rows, <2>2 DEF RuntimeRow, JobRow
  <2>4. ReapedRuns \in [RunIds -> RunRow]  BY <2>1, ReapTypes
  <2>5. row \in RunRow
    <3> HIDE DEF j
    <3>1. ReapedRuns[r] \in RunRow  BY <2>4
    <3> QED BY <2>3, <3>1, Zenon DEF RunRow
  <2>6. runs' = [ReapedRuns EXCEPT ![r] = row]  BY <1>2, <2>4 DEF ClaimQueued
  <2>7. runs' \in [RunIds -> RunRow]
    <3> HIDE DEF row
    <3> QED BY <2>4, <2>5, <2>6
  <2>8. runtime' \in [Jobs -> RuntimeRow]
    <3>1. runtime' = [ReapedRuntime EXCEPT ![j] = Started(j, o)]  BY <1>2 DEF ClaimQueued
    <3> HIDE DEF j
    <3> QED BY <2>1, <2>2, <3>1, StartedTypes, ReapTypes
  <2> QED BY <1>2, <2>1, <2>7, <2>8, ReapTypes DEF ClaimQueued, Reap, TypeOK
<1>3. ASSUME NEW o \in Owners, NEW j \in Jobs, NEW r \in RunIds, NEW D \in SUBSET Jobs,
             ClaimDue(o, j, r, D)
      PROVE  TypeOK'
  <2>1. Reap  BY <1>3 DEF ClaimDue
  <2>2. runtime[j].token + 1 \in Nat /\ job[j].revision \in Nat
        BY Rows DEF RuntimeRow, JobRow
  <2>3. [st |-> "running", job |-> j, at |-> now, owner |-> o,
         token |-> runtime[j].token + 1, revision |-> job[j].revision] \in RunRow
        BY <1>0, <2>2 DEF RunRow
  <2>4. runs' \in [RunIds -> RunRow]  BY <1>3, <2>1, <2>3, ReapTypes DEF ClaimDue
  <2>5. runtime' \in [Jobs -> RuntimeRow]
        BY <1>3, <2>1, StartedTypes, DeferredTypes DEF ClaimDue
  <2> QED BY <1>3, <2>1, <2>4, <2>5, ReapTypes DEF ClaimDue, Reap, TypeOK
<1>4. ASSUME ClaimNothing  PROVE TypeOK'
  <2>1. Reap  BY <1>4 DEF ClaimNothing
  <2>2. Due \in SUBSET Jobs  BY DEF Due
  <2>3. runtime' \in [Jobs -> RuntimeRow]  BY <1>4, <2>1, <2>2, DeferredTypes DEF ClaimNothing
  <2> QED BY <1>4, <2>1, <2>3, ReapTypes DEF ClaimNothing, Reap, TypeOK
<1>5. ASSUME NEW r \in RunIds, Heartbeat(r)  PROVE TypeOK'
  <2> DEFINE j == runs[r].job
             row == [runtime[j] EXCEPT !.until = now + LeaseSeconds]
  <2>1. j \in Jobs  BY Rows DEF RunRow
  <2>2. runtime' = [runtime EXCEPT ![j] = row]  BY <1>5 DEF Heartbeat, TypeOK
  <2>3. row \in RuntimeRow
    <3> HIDE DEF j
    <3> QED BY Rows, <1>0, <2>1, Zenon DEF RuntimeRow
  <2>4. runtime' \in [Jobs -> RuntimeRow]
    <3> HIDE DEF j, row
    <3> QED BY <2>1, <2>2, <2>3, RowUpdates
  <2> QED BY <1>5, <2>4 DEF Heartbeat, TypeOK
<1>6. ASSUME NEW r \in RunIds, CancelClaim(r)  PROVE TypeOK'
  <2> DEFINE j == runs[r].job
             actual == IF job[j].desired = "on" THEN RestState(j) ELSE "disabled"
             next == NextRun(j, job[j].sched.every)
             row == [runtime[j] EXCEPT !.actual = actual, !.next = next, !.owner = NoOwner,
                                       !.until = 0, !.applied = job[j].revision]
  <2>1. j \in Jobs  BY Rows DEF RunRow
  <2>2. /\ runtime' = [runtime EXCEPT ![j] = row]
        /\ runs' = [runs EXCEPT ![r] = [runs[r] EXCEPT !.st = "cancelled"]]
        /\ UNCHANGED <<now, hold, job, outbox>>
    <3>1. runtime' = [runtime EXCEPT ![j].actual = actual, ![j].next = next,
               ![j].owner = NoOwner, ![j].until = 0, ![j].applied = job[j].revision]
          BY <1>6 DEF CancelClaim
    <3>2. runs' = [runs EXCEPT ![r] = [runs[r] EXCEPT !.st = "cancelled"]]
          BY <1>6 DEF CancelClaim, TypeOK
    <3>3. UNCHANGED <<now, hold, job, outbox>>  BY <1>6 DEF CancelClaim
    <3> HIDE DEF j, actual, next
    <3> QED BY <3>1, <3>2, <3>3 DEF TypeOK
  <2>3. actual \in ActualStates  BY DEF RestState, ActualStates
  <2>4. row \in RuntimeRow
    <3> HIDE DEF j
    <3>1. next \in Nat  BY <2>1, NextRunNat
    <3>2. job[j].revision \in Nat  BY <2>1, Rows DEF JobRow
    <3> HIDE DEF actual, next
    <3> QED BY Rows, <2>1, <2>3, <3>1, <3>2, 0 \in Nat, Zenon DEF RuntimeRow
  <2>5. runtime' \in [Jobs -> RuntimeRow]
    <3> HIDE DEF j, row
    <3> QED BY <2>1, <2>2, <2>4, RowUpdates
  <2>6. [runs[r] EXCEPT !.st = "cancelled"] \in RunRow  BY Rows, RunStatus DEF Terminal
  <2>7. runs' \in [RunIds -> RunRow]  BY <2>2, <2>6, RowUpdates
  <2> QED BY <2>2, <2>5, <2>7 DEF TypeOK
<1>7. ASSUME NEW r \in RunIds, NEW ok \in BOOLEAN,
             NEW delay \in Delays \cup {s.every : s \in Schedules}, FinishRun(r, ok, delay)
      PROVE  TypeOK'
  <2> DEFINE j == runs[r].job
             opens == ~ok /\ runtime[j].incident = 0
             closes == ok /\ runtime[j].incident # 0
             n == IF opens THEN runtime[j].incidents + 1 ELSE runtime[j].incident
             actual == IF ~ok THEN "error" ELSE IF job[j].desired = "on" THEN "idle" ELSE "disabled"
             next == NextRun(j, delay)
             incident == IF ok THEN 0 ELSE n
             incidents == IF opens THEN n ELSE runtime[j].incidents
             st == IF ok THEN "succeeded" ELSE "failed"
             row == [runtime[j] EXCEPT !.actual = actual, !.next = next, !.owner = NoOwner,
                         !.until = 0, !.incident = incident, !.incidents = incidents,
                         !.applied = job[j].revision]
  <2>1. j \in Jobs  BY Rows DEF RunRow
  <2>2. /\ delay \in Delays \cup {job[j].sched.every}
        /\ opens => n + runtime[j].tests <= MaxIncidents
        /\ runs' = [runs EXCEPT ![r].st = st]
        /\ outbox' = IF opens THEN [outbox EXCEPT ![<<"error", j, n>>] = NewMessage]
                     ELSE IF closes THEN [outbox EXCEPT ![<<"recovery", j, n>>] = NewMessage]
                     ELSE outbox
        /\ runtime' = [runtime EXCEPT ![j].actual = actual, ![j].next = next,
               ![j].owner = NoOwner, ![j].until = 0, ![j].incident = incident,
               ![j].incidents = incidents, ![j].applied = job[j].revision]
        /\ UNCHANGED <<now, hold, job>>
        BY <1>7, Zenon DEF FinishRun
  <2>3. /\ actual \in ActualStates
        /\ st \in {"absent", "queued", "running"} \cup Terminal
        BY DEF ActualStates, Terminal
  <2>4. /\ opens \/ closes => n \in 1..MaxIncidents
        /\ incident \in 0..MaxIncidents /\ incidents \in 0..MaxIncidents
    <3> HIDE DEF j
    <3>1. /\ runtime[j].incident \in 0..MaxIncidents /\ runtime[j].tests \in Nat
          /\ runtime[j].incidents \in 0..MaxIncidents
          BY Rows, <2>1 DEF RuntimeRow
    <3>2. MaxIncidents \in Nat  BY ConstantsOK
    <3> QED BY <2>2, <3>1, <3>2
  <2>5. row \in RuntimeRow
    <3> HIDE DEF j
    <3>1. next \in Nat  BY <2>1, <2>2, NextRunNat
    <3>2. job[j].revision \in Nat  BY <2>1, Rows DEF JobRow
    <3> HIDE DEF actual, next, incident, incidents
    <3> QED BY Rows, <2>1, <2>3, <2>4, <3>1, <3>2, 0 \in Nat, Zenon DEF RuntimeRow
  <2>6. runtime' = [runtime EXCEPT ![j] = row]
    <3> HIDE DEF j, actual, next, incident, incidents
    <3> QED BY <2>2 DEF TypeOK
  <2>7. runtime' \in [Jobs -> RuntimeRow]
    <3> HIDE DEF j, row
    <3> QED BY <2>1, <2>5, <2>6, RowUpdates
  <2>8. runs' \in [RunIds -> RunRow]
    <3>1. runs' = [runs EXCEPT ![r] = [runs[r] EXCEPT !.st = st]]  BY <2>2 DEF TypeOK
    <3> HIDE DEF st
    <3>2. [runs[r] EXCEPT !.st = st] \in RunRow  BY Rows, RunStatus, <2>3
    <3> QED BY <3>1, <3>2, RowUpdates
  <2>9. outbox' \in [OutboxIds -> Message]
    <3> HIDE DEF j, n
    <3>1. opens \/ closes => <<"error", j, n>> \in OutboxIds /\ <<"recovery", j, n>> \in OutboxIds
          BY <2>1, <2>4 DEF Transitions
    <3> HIDE DEF opens, closes
    <3> QED BY <2>2, <3>1, NewMessageType, RowUpdates DEF TypeOK
  <2> QED BY <2>2, <2>7, <2>8, <2>9 DEF TypeOK
<1> QED BY <1>1, <1>2, <1>3, <1>4, <1>5, <1>6, <1>7 DEF Scheduler

LEMMA TypeStep == TypeOK /\ [Next]_vars => TypeOK'
<1> SUFFICES ASSUME TypeOK, [Next]_vars PROVE TypeOK'  OBVIOUS
<1>1. CASE Tick
      BY <1>1, ConstantsOK DEF TypeOK, Tick
<1>2. CASE Control  BY <1>2, ControlTypes
<1>3. CASE Scheduler  BY <1>3, SchedulerTypes
<1>4. CASE UNCHANGED vars  BY <1>4 DEF TypeOK, vars
<1> QED BY <1>1, <1>2, <1>3, <1>4 DEF Next

\* Every row the store writes keeps the columns' domains, for any number of jobs,
\* runs and incidents and any schedule.
THEOREM TypeCorrect == Spec => []TypeOK
BY TypeInit, TypeStep, PTL DEF Spec

-----------------------------------------------------------------------------
(* Leases and runs.  RunningHoldsFence is not inductive by itself: to see  *)
(* that the run which ends leaves no other behind one needs that a job has *)
(* one running run, and to see that a new row starts without one that runs *)
(* belong to rows which exist.  Fence adds both.  It is stated over the    *)
(* three tables as parameters, so that the two halves of claim_next_run    *)
(* (reaping, then starting a run) are two lemmas.                          *)

HIDE DEF RunIds, OutboxIds

Active == {"queued", "running"}

Fence(jb, rt, rn) ==
    /\ \A r \in RunIds : rn[r].st = "running" =>
          /\ rt[rn[r].job].owner = rn[r].owner
          /\ rt[rn[r].job].token = rn[r].token
          /\ rt[rn[r].job].until # 0
    /\ \A j \in Jobs : rt[j].until # 0 =>
          \E r \in RunIds : rn[r].job = j /\ rn[r].st = "running"
    /\ \A j \in Jobs : rt[j].owner # NoOwner <=> rt[j].until # 0
    /\ \A j \in Jobs : Managed(j) /\ rt[j].actual \in {"running", "stopping"} => rt[j].until # 0
    /\ \A r, q \in RunIds :
          rn[r].st \in Active /\ rn[q].st = rn[r].st /\ rn[q].job = rn[r].job => q = r
    /\ \A r \in RunIds : rn[r].st \in Active => jb[rn[r].job].st # "absent"

FenceInv == TypeOK /\ Fence(job, runtime, runs)

Tables(jb, rt, rn) ==
    /\ jb \in [Jobs -> JobRow] /\ rt \in [Jobs -> RuntimeRow] /\ rn \in [RunIds -> RunRow]

\* Steps that touch no lease: a row keeps owner and expiry, a token changes only
\* where no lease is held, and runs are at most cancelled from the queue.
LEMMA FenceFrame ==
    ASSUME NEW jb, NEW rt, NEW rn, NEW jb2, NEW rt2, NEW rn2,
           Tables(jb, rt, rn), Fence(jb, rt, rn),
           \A j \in Jobs : /\ rt2[j].owner = rt[j].owner /\ rt2[j].until = rt[j].until
                           /\ rt2[j].token = rt[j].token \/ rt[j].until = 0,
           \A j \in Jobs : Managed(j) /\ rt2[j].actual \in {"running", "stopping"}
                              => rt[j].until # 0 \/ rt2[j].actual = rt[j].actual,
           \A j \in Jobs : jb2[j].st = "absent" => jb[j].st = "absent",
           \A r \in RunIds : \/ rn2[r] = rn[r]
                             \/ /\ rn[r].st = "queued" /\ rn2[r].st = "cancelled"
                                /\ rn2[r].job = rn[r].job
    PROVE  Fence(jb2, rt2, rn2)
<1>0. /\ \A r \in RunIds : rn[r].job \in Jobs
      /\ \A r \in RunIds : rn2[r].job = rn[r].job
      /\ \A r \in RunIds : rn2[r].st \in Active => rn2[r] = rn[r]
      /\ \A r \in RunIds : rn[r].st = "running" => rn2[r] = rn[r]
      BY DEF Tables, RunRow, Active
<1>1. ASSUME NEW r \in RunIds, rn2[r].st = "running"
      PROVE  /\ rt2[rn2[r].job].owner = rn2[r].owner
             /\ rt2[rn2[r].job].token = rn2[r].token
             /\ rt2[rn2[r].job].until # 0
      BY <1>0, <1>1 DEF Fence, Active
<1>2. ASSUME NEW j \in Jobs, rt2[j].until # 0
      PROVE  \E r \in RunIds : rn2[r].job = j /\ rn2[r].st = "running"
      BY <1>0, <1>2 DEF Fence
<1>3. ASSUME NEW j \in Jobs  PROVE rt2[j].owner # NoOwner <=> rt2[j].until # 0
      BY DEF Fence
<1>4. ASSUME NEW j \in Jobs, Managed(j), rt2[j].actual \in {"running", "stopping"}
      PROVE  rt2[j].until # 0
      BY <1>4 DEF Fence
<1>5. ASSUME NEW r \in RunIds, NEW q \in RunIds,
             rn2[r].st \in Active, rn2[q].st = rn2[r].st, rn2[q].job = rn2[r].job
      PROVE  q = r
      BY <1>0, <1>5 DEF Fence
<1>6. ASSUME NEW r \in RunIds, rn2[r].st \in Active  PROVE jb2[rn2[r].job].st # "absent"
      BY <1>0, <1>6 DEF Fence
<1> QED BY <1>1, <1>2, <1>3, <1>4, <1>5, <1>6 DEF Fence

\* A run ends together with its lease.
LEMMA FenceEnd ==
    ASSUME NEW jb, NEW rt, NEW rn, NEW rt2, NEW rn2, NEW r \in RunIds,
           Tables(jb, rt, rn), Fence(jb, rt, rn),
           rn[r].st = "running",
           rn2 \in [RunIds -> RunRow], rn2[r].st \in Terminal,
           \A q \in RunIds \ {r} : rn2[q] = rn[q],
           rt2[rn[r].job].owner = NoOwner, rt2[rn[r].job].until = 0,
           rt2[rn[r].job].actual \notin {"running", "stopping"},
           \A j \in Jobs \ {rn[r].job} : rt2[j] = rt[j]
    PROVE  Fence(jb, rt2, rn2)
<1>0. /\ \A q \in RunIds : rn[q].job \in Jobs
      /\ \A q \in RunIds : rn2[q].st \in Active => q # r /\ rn2[q] = rn[q]
      /\ \A q \in RunIds : rn[q].st = "running" /\ rn[q].job = rn[r].job => q = r
      BY DEF Tables, RunRow, Active, Terminal, Fence
<1>1. ASSUME NEW q \in RunIds, rn2[q].st = "running"
      PROVE  /\ rt2[rn2[q].job].owner = rn2[q].owner
             /\ rt2[rn2[q].job].token = rn2[q].token
             /\ rt2[rn2[q].job].until # 0
      BY <1>0, <1>1 DEF Fence, Active
<1>2. ASSUME NEW j \in Jobs, rt2[j].until # 0
      PROVE  \E q \in RunIds : rn2[q].job = j /\ rn2[q].st = "running"
  <2>1. j # rn[r].job /\ rt[j].until # 0  BY <1>2
  <2>2. PICK q \in RunIds : rn[q].job = j /\ rn[q].st = "running"  BY <2>1 DEF Fence
  <2> QED BY <2>1, <2>2
<1>3. ASSUME NEW j \in Jobs  PROVE rt2[j].owner # NoOwner <=> rt2[j].until # 0
      BY DEF Fence
<1>4. ASSUME NEW j \in Jobs, Managed(j), rt2[j].actual \in {"running", "stopping"}
      PROVE  rt2[j].until # 0
      BY <1>4 DEF Fence
<1>5. ASSUME NEW p \in RunIds, NEW q \in RunIds,
             rn2[p].st \in Active, rn2[q].st = rn2[p].st, rn2[q].job = rn2[p].job
      PROVE  q = p
      BY <1>0, <1>5 DEF Fence
<1>6. ASSUME NEW q \in RunIds, rn2[q].st \in Active  PROVE jb[rn2[q].job].st # "absent"
      BY <1>0, <1>6 DEF Fence
<1> QED BY <1>1, <1>2, <1>3, <1>4, <1>5, <1>6 DEF Fence

\* A run starts, from the queue or anew, together with a lease.
LEMMA FenceStart ==
    ASSUME NEW jb, NEW rt, NEW rn, NEW rt2, NEW rn2, NEW r \in RunIds, NEW j \in Jobs,
           Tables(jb, rt, rn), Fence(jb, rt, rn),
           rt[j].until = 0, jb[j].st # "absent",
           rn2[r].st = "running", rn2[r].job = j,
           rn2[r].owner = rt2[j].owner, rn2[r].token = rt2[j].token,
           \A q \in RunIds \ {r} : rn2[q] = rn[q],
           rn[r].st # "running",
           rt2[j].owner # NoOwner, rt2[j].until # 0,
           \A k \in Jobs \ {j} : /\ rt2[k].owner = rt[k].owner /\ rt2[k].until = rt[k].until
                                 /\ rt2[k].token = rt[k].token /\ rt2[k].actual = rt[k].actual
    PROVE  Fence(jb, rt2, rn2)
<1>0. /\ \A q \in RunIds : rn[q].job \in Jobs
      /\ \A q \in RunIds : rn[q].st = "running" => rn[q].job # j
      BY DEF Tables, RunRow, Fence
<1>1. ASSUME NEW q \in RunIds, rn2[q].st = "running"
      PROVE  /\ rt2[rn2[q].job].owner = rn2[q].owner
             /\ rt2[rn2[q].job].token = rn2[q].token
             /\ rt2[rn2[q].job].until # 0
      BY <1>0, <1>1 DEF Fence
<1>2. ASSUME NEW k \in Jobs, rt2[k].until # 0
      PROVE  \E q \in RunIds : rn2[q].job = k /\ rn2[q].st = "running"
  <2>1. CASE k = j  BY <2>1
  <2>2. CASE k # j
    <3>1. PICK q \in RunIds : rn[q].job = k /\ rn[q].st = "running"  BY <1>2, <2>2 DEF Fence
    <3> QED BY <3>1
  <2> QED BY <2>1, <2>2
<1>3. ASSUME NEW k \in Jobs  PROVE rt2[k].owner # NoOwner <=> rt2[k].until # 0
      BY DEF Fence
<1>4. ASSUME NEW k \in Jobs, Managed(k), rt2[k].actual \in {"running", "stopping"}
      PROVE  rt2[k].until # 0
      BY <1>4 DEF Fence
<1>5. ASSUME NEW p \in RunIds, NEW q \in RunIds,
             rn2[p].st \in Active, rn2[q].st = rn2[p].st, rn2[q].job = rn2[p].job
      PROVE  q = p
  <2>1. CASE p = r \/ q = r  BY <1>0, <1>5, <2>1
  <2>2. CASE p # r /\ q # r  BY <1>5, <2>2 DEF Fence
  <2> QED BY <2>1, <2>2
<1>6. ASSUME NEW q \in RunIds, rn2[q].st \in Active  PROVE jb[rn2[q].job].st # "absent"
      BY <1>6 DEF Fence
<1> QED BY <1>1, <1>2, <1>3, <1>4, <1>5, <1>6 DEF Fence

\* Reaping fails the runs of the expired leases and no others.
LEMMA ReapFacts ==
    ASSUME FenceInv, Reap
    PROVE  /\ Tables(job, ReapedRuntime, ReapedRuns)
           /\ \A j \in Jobs :
                 IF j \in Expired
                 THEN /\ ReapedRuntime[j].until = 0 /\ ReapedRuntime[j].owner = NoOwner
                      /\ ReapedRuntime[j].actual = "error"
                      /\ ReapedRuntime[j].token = runtime[j].token
                 ELSE ReapedRuntime[j] = runtime[j]
           /\ \A r \in RunIds :
                 /\ ReapedRuns[r].job = runs[r].job
                 /\ IF runs[r].st = "running" /\ runs[r].job \in Expired
                    THEN ReapedRuns[r].st = "failed"
                    ELSE ReapedRuns[r] = runs[r]
<1>1. TypeOK  BY DEF FenceInv
<1>2. Tables(job, ReapedRuntime, ReapedRuns)  BY <1>1, ReapTypes DEF TypeOK, Tables
<1>3. ASSUME NEW j \in Jobs
      PROVE  IF j \in Expired
             THEN /\ ReapedRuntime[j].until = 0 /\ ReapedRuntime[j].owner = NoOwner
                  /\ ReapedRuntime[j].actual = "error"
                  /\ ReapedRuntime[j].token = runtime[j].token
             ELSE ReapedRuntime[j] = runtime[j]
  <2>1. runtime[j] \in RuntimeRow  BY <1>1, Rows
  <2> QED BY <2>1 DEF ReapedRuntime, RuntimeRow
<1>4. ASSUME NEW r \in RunIds
      PROVE  /\ ReapedRuns[r].job = runs[r].job
             /\ IF runs[r].st = "running" /\ runs[r].job \in Expired
                THEN ReapedRuns[r].st = "failed"
                ELSE ReapedRuns[r] = runs[r]
  <2>1. runs[r] \in RunRow  BY <1>1, Rows
  <2>2. runs[r].st = "running" => runs[r].token = runtime[runs[r].job].token
        BY DEF FenceInv, Fence
  <2> QED BY <2>1, <2>2 DEF ReapedRuns, RunRow
<1> QED BY <1>2, <1>3, <1>4

LEMMA FenceReap ==
    ASSUME FenceInv, Reap
    PROVE  Fence(job, ReapedRuntime, ReapedRuns)
<1>0. /\ TypeOK /\ Fence(job, runtime, runs)
      /\ \A r \in RunIds : runs[r].job \in Jobs
      BY DEF FenceInv, TypeOK, RunRow
<1> DEFINE rt == ReapedRuntime
           rn == ReapedRuns
<1>1. /\ \A r \in RunIds : rn[r].st = "running" => rn[r] = runs[r] /\ runs[r].job \notin Expired
      /\ \A r \in RunIds : rn[r].st \in Active => rn[r] = runs[r]
      BY <1>0, ReapFacts DEF Active
<1>2. ASSUME NEW r \in RunIds, rn[r].st = "running"
      PROVE  /\ rt[rn[r].job].owner = rn[r].owner
             /\ rt[rn[r].job].token = rn[r].token
             /\ rt[rn[r].job].until # 0
      BY <1>0, <1>1, <1>2, ReapFacts DEF Fence
<1>3. ASSUME NEW j \in Jobs, rt[j].until # 0
      PROVE  \E r \in RunIds : rn[r].job = j /\ rn[r].st = "running"
  <2>1. j \notin Expired /\ runtime[j].until # 0  BY <1>3, ReapFacts
  <2>2. PICK r \in RunIds : runs[r].job = j /\ runs[r].st = "running"  BY <1>0, <2>1 DEF Fence
  <2> QED BY <2>1, <2>2, ReapFacts
<1>4. ASSUME NEW j \in Jobs  PROVE rt[j].owner # NoOwner <=> rt[j].until # 0
      BY <1>0, ReapFacts DEF Fence
<1>5. ASSUME NEW j \in Jobs, Managed(j), rt[j].actual \in {"running", "stopping"}
      PROVE  rt[j].until # 0
      BY <1>0, <1>5, ReapFacts DEF Fence
<1>6. ASSUME NEW r \in RunIds, NEW q \in RunIds,
             rn[r].st \in Active, rn[q].st = rn[r].st, rn[q].job = rn[r].job
      PROVE  q = r
      BY <1>0, <1>1, <1>6 DEF Fence
<1>7. ASSUME NEW r \in RunIds, rn[r].st \in Active  PROVE job[rn[r].job].st # "absent"
      BY <1>0, <1>1, <1>7 DEF Fence
<1> QED BY <1>2, <1>3, <1>4, <1>5, <1>6, <1>7 DEF Fence

LEMMA FenceInit == Init => Fence(job, runtime, runs)
<1> SUFFICES ASSUME Init PROVE Fence(job, runtime, runs)  OBVIOUS
<1>1. /\ \A r \in RunIds : runs[r].st = "absent"
      /\ \A j \in Jobs : /\ runtime[j].until = 0 /\ runtime[j].owner = NoOwner
                         /\ runtime[j].actual = "disabled"
      BY DEF Init, NoRun, NoRuntime
<1> QED BY <1>1 DEF Fence, Active

\* Cancelling the queued runs of a job cancels no running one.
LEMMA CancelQueuedRuns ==
    ASSUME TypeOK, NEW j \in Jobs, NEW r \in RunIds
    PROVE  \/ CancelQueued(j)[r] = runs[r]
           \/ /\ runs[r].st = "queued" /\ CancelQueued(j)[r].st = "cancelled"
              /\ CancelQueued(j)[r].job = runs[r].job
    BY Rows DEF CancelQueued, RunRow

LEMMA ControlFence ==
    ASSUME FenceInv, Control
    PROVE  Fence(job, runtime, runs)'
<1>0. TypeOK /\ Fence(job, runtime, runs) /\ Tables(job, runtime, runs)
      BY DEF FenceInv, TypeOK, Tables
<1>n. now \in Nat \ {0}  BY <1>0 DEF TypeOK
\* the frame, over the next state
<1>f. ASSUME \A j \in Jobs : /\ runtime'[j].owner = runtime[j].owner
                             /\ runtime'[j].until = runtime[j].until
                             /\ runtime'[j].token = runtime[j].token \/ runtime[j].until = 0,
             \A j \in Jobs : Managed(j) /\ runtime'[j].actual \in {"running", "stopping"}
                                => runtime[j].until # 0 \/ runtime'[j].actual = runtime[j].actual,
             \A j \in Jobs : job'[j].st = "absent" => job[j].st = "absent",
             \A r \in RunIds : \/ runs'[r] = runs[r]
                               \/ /\ runs[r].st = "queued" /\ runs'[r].st = "cancelled"
                                  /\ runs'[r].job = runs[r].job
      PROVE  Fence(job, runtime, runs)'
      BY <1>0, <1>f, FenceFrame
\* a row that does not exist yet has neither a run nor a lease
<1>a. ASSUME NEW j \in Jobs, job[j].st = "absent"
      PROVE  runtime[j].until = 0 /\ runtime[j].owner = NoOwner
      BY <1>0, <1>a DEF Fence, Active
<1>1. ASSUME NEW j \in Jobs, NEW s \in Schedules, Create(j, s)  PROVE Fence(job, runtime, runs)'
  <2>1. /\ runtime' = [runtime EXCEPT ![j] = NoRuntime] /\ runs' = runs
        /\ job[j].st = "absent"
        /\ \A k \in Jobs : job'[k].st = "absent" => job[k].st = "absent"
        BY <1>0, <1>1 DEF Create, TypeOK
  <2>2. /\ NoRuntime.owner = NoOwner /\ NoRuntime.until = 0 /\ NoRuntime.actual = "disabled"
        BY DEF NoRuntime
  <2> QED BY <1>0, <1>a, <1>f, <2>1, <2>2 DEF TypeOK
<1>2. ASSUME NEW j \in Jobs, SeedDefaults(j)  PROVE Fence(job, runtime, runs)'
  <2>1. /\ runtime' = [runtime EXCEPT ![j] = NoRuntime] /\ runs' = runs
        /\ job[j].st = "absent"
        /\ \A k \in Jobs : job'[k].st = "absent" => job[k].st = "absent"
        BY <1>0, <1>2 DEF SeedDefaults, TypeOK
  <2>2. /\ NoRuntime.owner = NoOwner /\ NoRuntime.until = 0 /\ NoRuntime.actual = "disabled"
        BY DEF NoRuntime
  <2> QED BY <1>0, <1>a, <1>f, <2>1, <2>2 DEF TypeOK
<1>3. ASSUME NEW j \in Jobs, Enable(j) \/ \E s \in Schedules : SetSchedule(j, s)
      PROVE  Fence(job, runtime, runs)'
  <2>1. runtime' = runtime /\ runs' = runs  BY <1>3 DEF Enable, SetSchedule
  <2>2. \A k \in Jobs : job'[k].st = job[k].st
    <3>1. CASE Enable(j)  BY <1>0, <3>1, Rows DEF Enable, TypeOK, JobRow
    <3>2. CASE \E s \in Schedules : SetSchedule(j, s)
          BY <1>0, <3>2, Rows DEF SetSchedule, TypeOK, JobRow
    <3> QED BY <1>3, <3>1, <3>2
  <2> QED BY <1>f, <2>1, <2>2
<1>4. ASSUME NEW j \in Jobs, Disable(j)  PROVE Fence(job, runtime, runs)'
  <2>1. \A k \in Jobs : job'[k].st = job[k].st
        BY <1>0, <1>4, Rows DEF Disable, TypeOK, JobRow
  <2>2. \A k \in Jobs :
           /\ runtime'[k].owner = runtime[k].owner /\ runtime'[k].until = runtime[k].until
           /\ runtime'[k].token = runtime[k].token
           /\ runtime'[k].actual # runtime[k].actual => LeaseActive(k)
        BY <1>0, <1>4, Rows DEF Disable, TypeOK, RuntimeRow
  <2>3. \A k \in Jobs : LeaseActive(k) => runtime[k].until # 0
        BY <1>n DEF LeaseActive
  <2>4. runs' = CancelQueued(j)  BY <1>4 DEF Disable
  <2> QED BY <1>0, <1>f, <2>1, <2>2, <2>3, <2>4, CancelQueuedRuns
<1>5. ASSUME NEW j \in Jobs, NEW r \in RunIds, EnqueueRun(j, r)
      PROVE  Fence(job, runtime, runs)'
  <2>1. /\ job' = job /\ job[j].st # "absent"
        /\ runs[r].st = "absent"
        BY <1>5 DEF EnqueueRun, FreshRun, Live
  <2>2. /\ runs'[r].st = "queued" /\ runs'[r].job = j
        /\ \A q \in RunIds \ {r} : runs'[q] = runs[q]
        BY <1>0, <1>5 DEF EnqueueRun, TypeOK, NoRun
  <2>3. \A q \in RunIds : runs[q].job = j => runs[q].st # "queued"
        BY <1>5 DEF EnqueueRun, Absorbs
  <2>4. \A k \in Jobs :
           /\ runtime'[k].owner = runtime[k].owner /\ runtime'[k].until = runtime[k].until
           /\ runtime'[k].token = runtime[k].token
           /\ runtime'[k].actual \in {"queued", runtime[k].actual}
        BY <1>0, <1>5, Rows DEF EnqueueRun, TypeOK, RuntimeRow
  <2>5. \A q \in RunIds : runs[q].job \in Jobs  BY <1>0, Rows DEF RunRow
  <2>6. \A q \in RunIds : runs'[q].st = "running" => q # r /\ runs'[q] = runs[q]
        BY <2>2
  <2>7. \A q \in RunIds : runs[q].st = "running" => runs'[q] = runs[q]  BY <2>1, <2>2
  <2>8. /\ \A q \in RunIds : runs'[q].st = "running" =>
              /\ runtime'[runs'[q].job].owner = runs'[q].owner
              /\ runtime'[runs'[q].job].token = runs'[q].token
              /\ runtime'[runs'[q].job].until # 0
        /\ \A k \in Jobs : runtime'[k].until # 0 =>
              \E q \in RunIds : runs'[q].job = k /\ runs'[q].st = "running"
        BY <1>0, <2>4, <2>5, <2>6, <2>7 DEF Fence
  <2>9. /\ \A k \in Jobs : runtime'[k].owner # NoOwner <=> runtime'[k].until # 0
        /\ \A k \in Jobs : Managed(k) /\ runtime'[k].actual \in {"running", "stopping"}
              => runtime'[k].until # 0
        BY <1>0, <2>4 DEF Fence
  <2>10. ASSUME NEW p \in RunIds, NEW q \in RunIds,
                runs'[p].st \in Active, runs'[q].st = runs'[p].st, runs'[q].job = runs'[p].job
         PROVE  q = p
    <3>1. CASE p = r \/ q = r  BY <2>2, <2>3, <2>10, <3>1
    <3>2. CASE p # r /\ q # r  BY <1>0, <2>2, <2>10, <3>2 DEF Fence
    <3> QED BY <3>1, <3>2
  <2>11. \A q \in RunIds : runs'[q].st \in Active => job'[runs'[q].job].st # "absent"
         BY <1>0, <2>1, <2>2 DEF Fence
  <2> QED BY <2>8, <2>9, <2>10, <2>11 DEF Fence
<1>6. ASSUME NEW j \in Jobs, TestNotification(j)  PROVE Fence(job, runtime, runs)'
  <2>1. \A k \in Jobs :
           /\ runtime'[k].owner = runtime[k].owner /\ runtime'[k].until = runtime[k].until
           /\ runtime'[k].token = runtime[k].token /\ runtime'[k].actual = runtime[k].actual
        BY <1>0, <1>6, Rows DEF TestNotification, TypeOK, RuntimeRow
  <2>2. job' = job /\ runs' = runs  BY <1>6 DEF TestNotification
  <2> QED BY <1>f, <2>1, <2>2
<1>7. ASSUME NEW j \in Jobs, Archive(j)  PROVE Fence(job, runtime, runs)'
  <2>1. \A k \in Jobs : job'[k].st = "absent" => job[k].st = "absent"
        BY <1>0, <1>7, Rows DEF Archive, TypeOK, JobRow
  <2>2. \A k \in Jobs :
           /\ runtime'[k].owner = runtime[k].owner /\ runtime'[k].until = runtime[k].until
           /\ runtime'[k].token = runtime[k].token
           /\ runtime'[k].actual \in {"archived", runtime[k].actual}
        BY <1>0, <1>7, Rows DEF Archive, TypeOK, RuntimeRow
  <2>3. runs' = CancelQueued(j)  BY <1>7 DEF Archive
  <2> QED BY <1>0, <1>f, <2>1, <2>2, <2>3, CancelQueuedRuns
<1>8. ASSUME NEW j \in Jobs, NEW desired \in {"on", "off"},
             NEW shown \in {"error", "running", "idle", "disabled"},
             NEW wake \in 0..MaxTime, ProjectRole(j, desired, shown, wake)
      PROVE  Fence(job, runtime, runs)'
  <2>1. ~Managed(j)  BY <1>8 DEF ProjectRole
  <2>2. \A k \in Jobs : job'[k].st = "absent" => job[k].st = "absent"
    <3>1. \A k \in Jobs \ {j} : job'[k] = job[k]  BY <1>0, <1>8 DEF ProjectRole, TypeOK
    <3>2. job'[j].st = "live"
      <4> DEFINE row == IF Live(j) THEN job[j] ELSE [NoJob EXCEPT !.st = "live"]
      <4>1. row \in JobRow /\ row.st = "live"
        <5>1. [NoJob EXCEPT !.st = "live"] \in JobRow  BY InitTypes, Zenon DEF JobRow
        <5>2. [NoJob EXCEPT !.st = "live"].st = "live"  BY DEF NoJob
        <5> QED BY <1>0, <5>1, <5>2, Rows DEF Live
      <4>2. PICK n : job'[j] = [row EXCEPT !.desired = desired, !.revision = n, !.updated = now]
            BY <1>0, <1>8 DEF ProjectRole, TypeOK
      <4> HIDE DEF row
      <4> QED BY <4>1, <4>2 DEF JobRow
    <3> QED BY <3>1, <3>2
  <2>3. \A k \in Jobs :
           /\ runtime'[k].owner = runtime[k].owner /\ runtime'[k].until = runtime[k].until
           /\ runtime'[k].token = runtime[k].token
           /\ k # j => runtime'[k].actual = runtime[k].actual
    <3>1. PICK n, v : runtime' = [runtime EXCEPT ![j].actual = shown, ![j].next = n,
                                                 ![j].applied = v]
          BY <1>8 DEF ProjectRole
    <3> QED BY <1>0, <3>1, Rows DEF TypeOK, RuntimeRow
  <2>4. runs' = CancelQueued(j) \/ runs' = runs  BY <1>8 DEF ProjectRole
  <2> QED BY <1>0, <1>f, <2>1, <2>2, <2>3, <2>4, CancelQueuedRuns
<1>9. ASSUME NEW p \in Parties, NEW reason \in HoldReasons \cup {"none"}, SetGlobalHold(p, reason)
      PROVE  Fence(job, runtime, runs)'
      BY <1>0, <1>9 DEF SetGlobalHold
<1> QED BY <1>1, <1>2, <1>3, <1>4, <1>5, <1>6, <1>7, <1>8, <1>9 DEF Control

LEMMA StartedFields ==
    ASSUME FenceInv, Reap, NEW j \in Jobs, NEW o \in Owners
    PROVE  /\ Started(j, o).actual = "running" /\ Started(j, o).owner = o
           /\ Started(j, o).until = now + LeaseSeconds
           /\ Started(j, o).token = runtime[j].token + 1
           /\ o # NoOwner /\ now + LeaseSeconds # 0
<1>1. ReapedRuntime[j] \in RuntimeRow  BY ReapTypes DEF FenceInv
<1>2. Started(j, o).token = runtime[j].token + 1  BY StartedTypes DEF FenceInv
<1>3. o # NoOwner /\ now + LeaseSeconds # 0  BY ConstantsOK DEF FenceInv, TypeOK
<1> QED BY <1>1, <1>2, <1>3 DEF Started, RuntimeRow

LEMMA DeferredFields ==
    ASSUME FenceInv, Reap, NEW D \in SUBSET Jobs, NEW k \in Jobs
    PROVE  /\ Deferred(D)[k].owner = ReapedRuntime[k].owner
           /\ Deferred(D)[k].until = ReapedRuntime[k].until
           /\ Deferred(D)[k].token = ReapedRuntime[k].token
           /\ Deferred(D)[k].actual = ReapedRuntime[k].actual
<1>1. ReapedRuntime[k] \in RuntimeRow  BY ReapTypes DEF FenceInv
<1> QED BY <1>1 DEF Deferred, RuntimeRow

\* A job whose lease is not active has no lease once the expired ones are reaped.
LEMMA ReapedFree ==
    ASSUME FenceInv, Reap, NEW j \in Jobs, ~LeaseActive(j)
    PROVE  ReapedRuntime[j].until = 0
<1>1. runtime[j].until \in Nat /\ now \in Nat  BY Rows DEF FenceInv, TypeOK, RuntimeRow
<1>2. CASE j \in Expired  BY <1>2, ReapFacts
<1>3. CASE j \notin Expired
  <2>1. runtime[j].until = 0  BY <1>1, <1>3 DEF Expired, LeaseExpired, LeaseActive
  <2> QED BY <1>3, <2>1, ReapFacts
<1> QED BY <1>2, <1>3

LEMMA SchedulerFence ==
    ASSUME FenceInv, Scheduler
    PROVE  Fence(job, runtime, runs)'
<1>0. /\ TypeOK /\ Fence(job, runtime, runs) /\ Tables(job, runtime, runs)
      /\ TypeOK'
      BY SchedulerTypes DEF FenceInv, TypeOK, Tables
<1>n. now \in Nat \ {0}  BY <1>0 DEF TypeOK
<1>1. ASSUME NEW j \in Jobs, Reconcile(j)  PROVE Fence(job, runtime, runs)'
  <2>1. job' = job  BY <1>1 DEF Reconcile
  <2>2. runs' = runs \/ runs' = CancelQueued(j)  BY <1>1 DEF Reconcile
  <2>3. \A k \in Jobs :
           /\ runtime'[k].owner = runtime[k].owner /\ runtime'[k].until = runtime[k].until
           /\ runtime'[k].token = runtime[k].token
           /\ runtime'[k].actual \in {runtime[k].actual, "error", "idle", "disabled"}
                \/ LeaseActive(k)
    <3>1. PICK a, n, v : /\ runtime' = [runtime EXCEPT ![j].actual = a, ![j].next = n,
                                                       ![j].applied = v]
                         /\ a \in {"error", "idle", "disabled"} \/ LeaseActive(j)
      <4>1. CASE LeaseActive(j)
        <5>1. runtime' = [runtime EXCEPT ![j].actual = "stopping", ![j].next = 0]
              BY <1>1, <4>1 DEF Reconcile
        <5>2. runtime' = [runtime EXCEPT ![j].actual = "stopping", ![j].next = 0,
                                         ![j].applied = runtime[j].applied]
              BY <5>1, <1>0, Rows DEF TypeOK, RuntimeRow
        <5> QED BY <4>1, <5>2
      <4>2. CASE ~LeaseActive(j)
            BY <1>1, <4>2 DEF Reconcile, RestState
      <4> QED BY <4>1, <4>2
    <3> QED BY <1>0, <3>1, Rows DEF TypeOK, RuntimeRow
  <2>4. \A k \in Jobs : LeaseActive(k) => runtime[k].until # 0
        BY <1>n DEF LeaseActive
  <2> QED BY <1>0, <2>1, <2>2, <2>3, <2>4, FenceFrame, CancelQueuedRuns
<1>2. ASSUME NEW o \in Owners, NEW r \in RunIds, ClaimQueued(o, r)
      PROVE  Fence(job, runtime, runs)'
  <2> DEFINE j == runs[r].job
  <2>1. /\ Reap /\ job' = job /\ runs[r].st = "queued"
        /\ job[j].st # "absent" /\ ~LeaseActive(j)
        BY <1>2 DEF ClaimQueued, Reap, Claimable, Live
  <2>2. j \in Jobs /\ runs[r] \in RunRow  BY <1>0, Rows DEF RunRow
  <2>3. /\ Tables(job, ReapedRuntime, ReapedRuns) /\ Fence(job, ReapedRuntime, ReapedRuns)
        /\ ReapedRuns[r] = runs[r] /\ ReapedRuns[r] \in RunRow
        BY <2>1, <2>2, ReapFacts, FenceReap DEF Tables
  <2>4. /\ runtime'[j] = Started(j, o)
        /\ \A k \in Jobs \ {j} : runtime'[k] = ReapedRuntime[k]
        BY <1>2, <2>2, <2>3 DEF ClaimQueued, Tables
  <2>5. /\ runs'[r].st = "running" /\ runs'[r].job = j /\ runs'[r].owner = o
        /\ runs'[r].token = runtime[j].token + 1
        /\ \A q \in RunIds \ {r} : runs'[q] = ReapedRuns[q]
    <3>1. PICK v : runs' = [ReapedRuns EXCEPT ![r].st = "running", ![r].owner = o,
                                ![r].token = runtime[j].token + 1, ![r].revision = v]
          BY <1>2 DEF ClaimQueued
    <3> HIDE DEF j
    <3>2. runs[r].job = j  BY DEF j
    <3> QED BY <2>3, <3>1, <3>2 DEF Tables, RunRow
  <2>6. ReapedRuntime[j].until = 0  BY <2>1, <2>2, ReapedFree
  <2> HIDE DEF j
  <2> QED BY <2>1, <2>2, <2>3, <2>4, <2>5, <2>6, StartedFields, FenceStart
<1>3. ASSUME NEW o \in Owners, NEW j \in Jobs, NEW r \in RunIds, NEW D \in SUBSET Jobs,
             ClaimDue(o, j, r, D)
      PROVE  Fence(job, runtime, runs)'
  <2>1. /\ Reap /\ job' = job /\ runs[r].st = "absent"
        /\ job[j].st # "absent" /\ ~LeaseActive(j)
        BY <1>3 DEF ClaimDue, Reap, DueInWindow, Due, Live, FreshRun
  <2>2. /\ Tables(job, ReapedRuntime, ReapedRuns) /\ Fence(job, ReapedRuntime, ReapedRuns)
        /\ ReapedRuns[r].st = "absent"
        BY <2>1, ReapFacts, FenceReap
  <2>3. /\ runtime'[j] = Started(j, o)
        /\ \A k \in Jobs \ {j} : runtime'[k] = Deferred(D)[k]
        BY <1>3 DEF ClaimDue, Deferred
  <2>4. /\ runs'[r] = [st |-> "running", job |-> j, at |-> now, owner |-> o,
                       token |-> runtime[j].token + 1, revision |-> job[j].revision]
        /\ \A q \in RunIds \ {r} : runs'[q] = ReapedRuns[q]
        BY <1>3, <2>2 DEF ClaimDue, Tables
  <2>5. ReapedRuntime[j].until = 0  BY <2>1, ReapedFree
  <2>6. \A k \in Jobs \ {j} :
           /\ runtime'[k].owner = ReapedRuntime[k].owner
           /\ runtime'[k].until = ReapedRuntime[k].until
           /\ runtime'[k].token = ReapedRuntime[k].token
           /\ runtime'[k].actual = ReapedRuntime[k].actual
        BY <2>1, <2>3, DeferredFields
  <2>7. /\ runs'[r].st = "running" /\ runs'[r].job = j /\ runs'[r].owner = o
        /\ runs'[r].token = runtime[j].token + 1
        BY <2>4
  <2> QED BY <2>1, <2>2, <2>3, <2>4, <2>5, <2>6, <2>7, StartedFields, FenceStart
<1>4. ASSUME ClaimNothing  PROVE Fence(job, runtime, runs)'
  <2>1. /\ Reap /\ job' = job /\ runtime' = Deferred(Due) /\ runs' = ReapedRuns
        /\ Due \in SUBSET Jobs
        BY <1>4 DEF ClaimNothing, Reap, Due
  <2> QED BY <2>1, ReapFacts, FenceReap, DeferredFields, FenceFrame
<1>5. ASSUME NEW r \in RunIds, Heartbeat(r)  PROVE Fence(job, runtime, runs)'
  <2> DEFINE j == runs[r].job
  <2>1. /\ j \in Jobs /\ runtime[j].until # 0 /\ job' = job /\ runs' = runs
    <3>1. runtime[j].until > now  BY <1>5 DEF Heartbeat, LeaseActive
    <3> QED BY <1>0, <1>5, <1>n, <3>1, Rows DEF Heartbeat, RunRow
  <2>2. now + LeaseSeconds # 0  BY <1>n, ConstantsOK
  <2>3. \A k \in Jobs :
           /\ runtime'[k].owner = runtime[k].owner
           /\ runtime'[k].token = runtime[k].token /\ runtime'[k].actual = runtime[k].actual
           /\ runtime'[k].until # 0 <=> runtime[k].until # 0
    <3>1. runtime' = [runtime EXCEPT ![j].until = now + LeaseSeconds]  BY <1>5 DEF Heartbeat
    <3> HIDE DEF j
    <3> QED BY <1>0, <2>1, <2>2, <3>1, Rows DEF TypeOK, RuntimeRow
  <2>4. \A q \in RunIds : runs[q].job \in Jobs  BY <1>0, Rows DEF RunRow
  <2> QED BY <1>0, <2>1, <2>3, <2>4 DEF Fence
<1>6. ASSUME NEW r \in RunIds, CancelClaim(r)  PROVE Fence(job, runtime, runs)'
  <2> DEFINE j == runs[r].job
  <2>1. j \in Jobs /\ runs[r].st = "running" /\ job' = job
        BY <1>0, <1>6, Rows DEF CancelClaim, RunRow
  <2>2. PICK a, n, v : /\ runtime' = [runtime EXCEPT ![j].actual = a, ![j].next = n,
                              ![j].owner = NoOwner, ![j].until = 0, ![j].applied = v]
                       /\ a \in {"error", "idle", "disabled"}
        BY <1>6 DEF CancelClaim, RestState
  <2>3. runs' = [runs EXCEPT ![r].st = "cancelled"]  BY <1>6 DEF CancelClaim
  <2> HIDE DEF j
  <2>4. /\ runtime'[j].owner = NoOwner /\ runtime'[j].until = 0
        /\ runtime'[j].actual \notin {"running", "stopping"}
        /\ \A k \in Jobs \ {j} : runtime'[k] = runtime[k]
        BY <1>0, <2>1, <2>2, Rows DEF TypeOK, RuntimeRow
  <2>5. /\ runs' \in [RunIds -> RunRow] /\ runs'[r].st \in Terminal
        /\ \A q \in RunIds \ {r} : runs'[q] = runs[q]
        BY <1>0, <2>3, Rows DEF TypeOK, RunRow, Terminal
  <2>6. runs[r].job = j  BY DEF j
  <2> QED BY <1>0, <2>1, <2>4, <2>5, <2>6, FenceEnd
<1>7. ASSUME NEW r \in RunIds, NEW ok \in BOOLEAN,
             NEW delay \in Delays \cup {s.every : s \in Schedules}, FinishRun(r, ok, delay)
      PROVE  Fence(job, runtime, runs)'
  <2> DEFINE j == runs[r].job
  <2>1. j \in Jobs /\ runs[r].st = "running" /\ job' = job
        BY <1>0, <1>7, Rows DEF FinishRun, RunRow
  <2>2. PICK a, n, v, i, is :
           /\ runtime' = [runtime EXCEPT ![j].actual = a, ![j].next = n,
                  ![j].owner = NoOwner, ![j].until = 0, ![j].incident = i,
                  ![j].incidents = is, ![j].applied = v]
           /\ a \in {"error", "idle", "disabled"}
        BY <1>7 DEF FinishRun
  <2>3. PICK st \in {"succeeded", "failed"} : runs' = [runs EXCEPT ![r].st = st]
        BY <1>7 DEF FinishRun
  <2> HIDE DEF j
  <2>4. /\ runtime'[j].owner = NoOwner /\ runtime'[j].until = 0
        /\ runtime'[j].actual \notin {"running", "stopping"}
        /\ \A k \in Jobs \ {j} : runtime'[k] = runtime[k]
        BY <1>0, <2>1, <2>2, Rows DEF TypeOK, RuntimeRow
  <2>5. /\ runs' \in [RunIds -> RunRow] /\ runs'[r].st \in Terminal
        /\ \A q \in RunIds \ {r} : runs'[q] = runs[q]
        BY <1>0, <2>3, Rows DEF TypeOK, RunRow, Terminal
  <2>6. runs[r].job = j  BY DEF j
  <2> QED BY <1>0, <2>1, <2>4, <2>5, <2>6, FenceEnd
<1> QED BY <1>1, <1>2, <1>3, <1>4, <1>5, <1>6, <1>7 DEF Scheduler

LEMMA FenceStep == FenceInv /\ [Next]_vars => FenceInv'
<1> SUFFICES ASSUME FenceInv, [Next]_vars PROVE FenceInv'  OBVIOUS
<1>1. TypeOK'  BY TypeStep DEF FenceInv
<1>2. CASE Tick  BY <1>1, <1>2 DEF FenceInv, Tick
<1>3. CASE Control  BY <1>1, <1>3, ControlFence DEF FenceInv
<1>4. CASE Scheduler  BY <1>1, <1>4, SchedulerFence DEF FenceInv
<1>5. CASE UNCHANGED vars  BY <1>1, <1>5 DEF FenceInv, vars
<1> QED BY <1>2, <1>3, <1>4, <1>5 DEF Next

\* The strengthened correspondence of leases, runs and rows holds in every
\* state; the three results below are read off it.
THEOREM FenceCorrect == Spec => []FenceInv
<1>1. Init => FenceInv  BY TypeInit, FenceInit DEF FenceInv
<1> QED BY <1>1, FenceStep, PTL DEF Spec

\* A run is running exactly while the runtime row of its job carries its owner
\* and fence, and a job shown as running or stopping has such a run, for any
\* number of jobs, owners and runs.
THEOREM FenceHeld == Spec => []RunningHoldsFence
<1>1. FenceInv => RunningHoldsFence
  <2> SUFFICES ASSUME FenceInv, NEW j \in Jobs
               PROVE  /\ \A r \in Running(j) : OwnsFence(r)
                      /\ runtime[j].until # 0 <=> Running(j) # {}
                      /\ runtime[j].owner # NoOwner <=> runtime[j].until # 0
                      /\ Managed(j) /\ runtime[j].actual \in {"running", "stopping"}
                            => runtime[j].until # 0
      BY DEF RunningHoldsFence
  <2> QED BY DEF FenceInv, Fence, Running, OwnsFence
<1> QED BY <1>1, FenceCorrect, PTL

\* A set in which any two elements are equal has at most one.
LEMMA AtMostOne ==
    ASSUME NEW S, \A x, y \in S : x = y
    PROVE  Cardinality(S) <= 1
<1>1. CASE S = {}  BY <1>1, FS_EmptySet
<1>2. CASE S # {}
  <2>1. PICK x \in S : S = {x}  BY <1>2
  <2> QED BY <2>1, FS_Singleton
<1> QED BY <1>1, <1>2

\* No job is worked on twice at the same time or queued twice, for any number
\* of jobs, owners and runs.
THEOREM WorkIsNotDuplicated == Spec => []NoDuplicateWork
<1>1. FenceInv => NoDuplicateWork
  <2> SUFFICES ASSUME FenceInv, NEW j \in Jobs
               PROVE  Cardinality(Running(j)) <= 1 /\ Cardinality(Queued(j)) <= 1
      BY DEF NoDuplicateWork
  <2>1. \A r, q \in Running(j) : r = q  BY DEF FenceInv, Fence, Running, Active
  <2>2. \A r, q \in Queued(j) : r = q  BY DEF FenceInv, Fence, Queued, Active
  <2> QED BY <2>1, <2>2, AtMostOne
<1> QED BY <1>1, FenceCorrect, PTL

-----------------------------------------------------------------------------
(* What one step may do to the lease of a job *)

LeaseKept(j) ==
    /\ runtime'[j].owner = runtime[j].owner /\ runtime'[j].until = runtime[j].until
    /\ runtime'[j].token = runtime[j].token \/ runtime[j].until = 0
LeaseExtended(j) ==
    /\ runtime'[j].owner = runtime[j].owner /\ runtime'[j].token = runtime[j].token
    /\ runtime'[j].until = now + LeaseSeconds
LeaseReplaced(j) ==
    ~LeaseActive(j) /\ runtime'[j].until \in {0, now + LeaseSeconds}
LeaseEnded(j) ==
    /\ runtime'[j].until = 0 /\ runtime'[j].token = runtime[j].token
    /\ \E r \in Running(j) : OwnsFence(r) /\ runs'[r].st \in Terminal
LeaseStep(j) == LeaseKept(j) \/ LeaseExtended(j) \/ LeaseReplaced(j) \/ LeaseEnded(j)

LEMMA ControlLeases ==
    ASSUME FenceInv, Control, NEW k \in Jobs
    PROVE  LeaseKept(k)
<1>0. TypeOK  BY DEF FenceInv
<1>1. ASSUME NEW j \in Jobs, job[j].st = "absent", runtime' = [runtime EXCEPT ![j] = NoRuntime]
      PROVE  LeaseKept(k)
  <2>1. runtime[j].until = 0 /\ runtime[j].owner = NoOwner
        BY <1>1 DEF FenceInv, Fence, Active
  <2> QED BY <1>0, <1>1, <2>1 DEF LeaseKept, TypeOK, NoRuntime
<1>2. ASSUME NEW j \in Jobs, NEW a, NEW n, NEW v, NEW t,
             runtime' = [runtime EXCEPT ![j].actual = a, ![j].next = n, ![j].applied = v,
                                        ![j].tests = t]
      PROVE  LeaseKept(k)
      BY <1>0, <1>2, Rows DEF LeaseKept, TypeOK, RuntimeRow
<1>3. ASSUME UNCHANGED runtime  PROVE LeaseKept(k)
      BY <1>3 DEF LeaseKept
<1>4. ASSUME NEW j \in Jobs, NEW s \in Schedules, Create(j, s)  PROVE LeaseKept(k)
      BY <1>1, <1>4 DEF Create
<1>5. ASSUME NEW j \in Jobs, SeedDefaults(j)  PROVE LeaseKept(k)
      BY <1>1, <1>5 DEF SeedDefaults
<1>6. ASSUME NEW j \in Jobs, Disable(j)  PROVE LeaseKept(k)
      BY <1>0, <1>6, Rows DEF Disable, LeaseKept, TypeOK, RuntimeRow
<1>7. ASSUME NEW j \in Jobs, NEW r \in RunIds, EnqueueRun(j, r)  PROVE LeaseKept(k)
      BY <1>0, <1>7, Rows DEF EnqueueRun, LeaseKept, TypeOK, RuntimeRow
<1>8. ASSUME NEW j \in Jobs, TestNotification(j)  PROVE LeaseKept(k)
      BY <1>0, <1>8, Rows DEF TestNotification, LeaseKept, TypeOK, RuntimeRow
<1>9. ASSUME NEW j \in Jobs, Archive(j)  PROVE LeaseKept(k)
      BY <1>0, <1>9, Rows DEF Archive, LeaseKept, TypeOK, RuntimeRow
<1>10. ASSUME NEW j \in Jobs, NEW desired \in {"on", "off"},
              NEW shown \in {"error", "running", "idle", "disabled"},
              NEW wake \in 0..MaxTime, ProjectRole(j, desired, shown, wake)
       PROVE  LeaseKept(k)
  <2>1. PICK n, v : runtime' = [runtime EXCEPT ![j].actual = shown, ![j].next = n,
                                               ![j].applied = v]
        BY <1>10 DEF ProjectRole
  <2> QED BY <1>0, <2>1, Rows DEF LeaseKept, TypeOK, RuntimeRow
<1>11. ASSUME NEW j \in Jobs, Enable(j) \/ \E s \in Schedules : SetSchedule(j, s)
       PROVE  LeaseKept(k)
       BY <1>3, <1>11 DEF Enable, SetSchedule
<1>12. ASSUME NEW p \in Parties, NEW reason \in HoldReasons \cup {"none"}, SetGlobalHold(p, reason)
       PROVE  LeaseKept(k)
       BY <1>3, <1>12 DEF SetGlobalHold
<1> QED BY <1>4, <1>5, <1>6, <1>7, <1>8, <1>9, <1>10, <1>11, <1>12 DEF Control

LEMMA SchedulerLeases ==
    ASSUME FenceInv, Scheduler, NEW k \in Jobs
    PROVE  LeaseStep(k)
<1>0. TypeOK  BY DEF FenceInv
\* a lease that is active is not reaped
<1>a. ASSUME Reap
      PROVE  IF LeaseActive(k) THEN ReapedRuntime[k] = runtime[k]
             ELSE ReapedRuntime[k].until = 0
  <2>1. runtime[k].until \in Nat /\ now \in Nat  BY <1>0, Rows DEF RuntimeRow, TypeOK
  <2>2. LeaseActive(k) => k \notin Expired
        BY <2>1 DEF LeaseActive, Expired, LeaseExpired
  <2> QED BY <1>a, <2>2, ReapFacts, ReapedFree
<1>1. ASSUME NEW j \in Jobs, Reconcile(j)  PROVE LeaseStep(k)
  <2>1. LeaseKept(k)
    <3>1. CASE LeaseActive(j)
          BY <1>0, <1>1, <3>1, Rows DEF Reconcile, LeaseKept, TypeOK, RuntimeRow
    <3>2. CASE ~LeaseActive(j)
      <4>1. PICK a, n, v : runtime' = [runtime EXCEPT ![j].actual = a, ![j].next = n,
                                                      ![j].applied = v]
            BY <1>1, <3>2 DEF Reconcile
      <4> QED BY <1>0, <4>1, Rows DEF LeaseKept, TypeOK, RuntimeRow
    <3> QED BY <3>1, <3>2
  <2> QED BY <2>1 DEF LeaseStep
<1>2. ASSUME NEW o \in Owners, NEW r \in RunIds, ClaimQueued(o, r)  PROVE LeaseStep(k)
  <2> DEFINE j == runs[r].job
  <2>1. Reap /\ ~LeaseActive(j) /\ j \in Jobs
        BY <1>0, <1>2, Rows DEF ClaimQueued, Reap, Claimable, RunRow
  <2>2. /\ runtime'[j] = Started(j, o)
        /\ k # j => runtime'[k] = ReapedRuntime[k]
        BY <1>2, <2>1, ReapFacts DEF ClaimQueued, Tables
  <2> HIDE DEF j
  <2>3. CASE k = j
        BY <2>1, <2>2, <2>3, StartedFields DEF LeaseStep, LeaseReplaced
  <2>4. CASE k # j
        BY <1>a, <2>1, <2>2, <2>4 DEF LeaseStep, LeaseReplaced, LeaseKept
  <2> QED BY <2>3, <2>4
<1>3. ASSUME NEW o \in Owners, NEW j \in Jobs, NEW r \in RunIds, NEW D \in SUBSET Jobs,
             ClaimDue(o, j, r, D)
      PROVE  LeaseStep(k)
  <2>1. Reap /\ ~LeaseActive(j)
        BY <1>3 DEF ClaimDue, Reap, DueInWindow, Due
  <2>2. /\ runtime'[j] = Started(j, o)
        /\ k # j => runtime'[k] = Deferred(D)[k]
        BY <1>3 DEF ClaimDue, Deferred
  <2>3. CASE k = j
        BY <2>1, <2>2, <2>3, StartedFields DEF LeaseStep, LeaseReplaced
  <2>4. CASE k # j
        BY <1>a, <2>1, <2>2, <2>4, DeferredFields DEF LeaseStep, LeaseReplaced, LeaseKept
  <2> QED BY <2>3, <2>4
<1>4. ASSUME ClaimNothing  PROVE LeaseStep(k)
  <2>1. Reap /\ runtime' = Deferred(Due) /\ Due \in SUBSET Jobs
        BY <1>4 DEF ClaimNothing, Due
  <2> QED BY <1>a, <2>1, DeferredFields DEF LeaseStep, LeaseReplaced, LeaseKept
<1>5. ASSUME NEW r \in RunIds, Heartbeat(r)  PROVE LeaseStep(k)
  <2>1. runtime' = [runtime EXCEPT ![runs[r].job].until = now + LeaseSeconds]
        BY <1>5 DEF Heartbeat
  <2>2. LeaseKept(k) \/ LeaseExtended(k)
        BY <1>0, <2>1, Rows DEF LeaseKept, LeaseExtended, TypeOK, RuntimeRow, RunRow
  <2> QED BY <2>2 DEF LeaseStep
\* a run ends its own lease
<1>b. ASSUME NEW r \in RunIds, NEW j \in Jobs, runs[r].job = j,
             runs[r].st = "running", OwnsFence(r), runs'[r].st \in Terminal,
             runtime'[j].until = 0, runtime'[j].token = runtime[j].token,
             \A q \in Jobs \ {j} : runtime'[q] = runtime[q]
      PROVE  LeaseStep(k)
  <2>1. CASE k = j  BY <1>b, <2>1 DEF LeaseStep, LeaseEnded, Running
  <2>2. CASE k # j  BY <1>b, <2>2 DEF LeaseStep, LeaseKept
  <2> QED BY <2>1, <2>2
<1>6. ASSUME NEW r \in RunIds, CancelClaim(r)  PROVE LeaseStep(k)
  <2> DEFINE j == runs[r].job
  <2>1. j \in Jobs /\ runs[r].st = "running" /\ OwnsFence(r)
        BY <1>0, <1>6, Rows DEF CancelClaim, RunRow
  <2>2. PICK a, n, v : runtime' = [runtime EXCEPT ![j].actual = a, ![j].next = n,
                              ![j].owner = NoOwner, ![j].until = 0, ![j].applied = v]
        BY <1>6 DEF CancelClaim
  <2>3. runs'[r].st \in Terminal
        BY <1>0, <1>6, Rows DEF CancelClaim, TypeOK, RunRow, Terminal
  <2>4. runs[r].job = j  OBVIOUS
  <2> HIDE DEF j
  <2>5. /\ runtime'[j].until = 0 /\ runtime'[j].token = runtime[j].token
        /\ \A q \in Jobs \ {j} : runtime'[q] = runtime[q]
        BY <1>0, <2>1, <2>2, Rows DEF TypeOK, RuntimeRow
  <2> QED BY <1>b, <2>1, <2>3, <2>4, <2>5
<1>7. ASSUME NEW r \in RunIds, NEW ok \in BOOLEAN,
             NEW delay \in Delays \cup {s.every : s \in Schedules}, FinishRun(r, ok, delay)
      PROVE  LeaseStep(k)
  <2> DEFINE j == runs[r].job
  <2>1. j \in Jobs /\ runs[r].st = "running" /\ OwnsFence(r)
        BY <1>0, <1>7, Rows DEF FinishRun, RunRow
  <2>2. PICK a, n, v, i, is :
           runtime' = [runtime EXCEPT ![j].actual = a, ![j].next = n,
                  ![j].owner = NoOwner, ![j].until = 0, ![j].incident = i,
                  ![j].incidents = is, ![j].applied = v]
        BY <1>7 DEF FinishRun
  <2>3. runs'[r].st \in Terminal
        BY <1>0, <1>7, Rows DEF FinishRun, TypeOK, RunRow, Terminal
  <2>4. runs[r].job = j  OBVIOUS
  <2> HIDE DEF j
  <2>5. /\ runtime'[j].until = 0 /\ runtime'[j].token = runtime[j].token
        /\ \A q \in Jobs \ {j} : runtime'[q] = runtime[q]
        BY <1>0, <2>1, <2>2, Rows DEF TypeOK, RuntimeRow
  <2> QED BY <1>b, <2>1, <2>3, <2>4, <2>5
<1> QED BY <1>1, <1>2, <1>3, <1>4, <1>5, <1>6, <1>7 DEF Scheduler

\* No lease reaches further than a lease's length from now; a heartbeat, which
\* sets it to that, therefore never shortens it.
LeaseBounded == \A j \in Jobs : runtime[j].until <= now + LeaseSeconds

LEMMA NextLeases ==
    ASSUME FenceInv, [Next]_vars, NEW j \in Jobs
    PROVE  LeaseStep(j)
<1>1. CASE Tick  BY <1>1 DEF Tick, LeaseStep, LeaseKept
<1>2. CASE Control  BY <1>2, ControlLeases DEF LeaseStep
<1>3. CASE Scheduler  BY <1>3, SchedulerLeases
<1>4. CASE UNCHANGED vars  BY <1>4 DEF vars, LeaseStep, LeaseKept
<1> QED BY <1>1, <1>2, <1>3, <1>4 DEF Next

LEMMA LeaseBoundedStep ==
    ASSUME FenceInv, LeaseBounded, [Next]_vars
    PROVE  LeaseBounded'
<1>1. now' \in Nat /\ now \in Nat /\ now <= now' /\ LeaseSeconds \in Nat
  <2>1. now' \in {now, now + 1}
    <3>1. CASE Tick  BY <3>1 DEF Tick
    <3>2. CASE Control
      <4>1. ASSUME NEW j \in Jobs, NEW s \in Schedules, Create(j, s) \/ SetSchedule(j, s)
            PROVE  now' = now
            BY <4>1 DEF Create, SetSchedule
      <4>2. ASSUME NEW j \in Jobs, SeedDefaults(j) \/ Enable(j) \/ Disable(j)
            PROVE  now' = now
            BY <4>2 DEF SeedDefaults, Enable, Disable
      <4>3. ASSUME NEW j \in Jobs, TestNotification(j) \/ Archive(j)  PROVE now' = now
            BY <4>3 DEF TestNotification, Archive
      <4>4. ASSUME NEW j \in Jobs, NEW r \in RunIds, EnqueueRun(j, r)  PROVE now' = now
            BY <4>4 DEF EnqueueRun
      <4>5. ASSUME NEW j \in Jobs, NEW desired, NEW shown, NEW wake,
                   ProjectRole(j, desired, shown, wake)
            PROVE  now' = now
            BY <4>5 DEF ProjectRole
      <4>6. ASSUME NEW p, NEW reason, SetGlobalHold(p, reason)  PROVE now' = now
            BY <4>6 DEF SetGlobalHold
      <4> QED BY <3>2, <4>1, <4>2, <4>3, <4>4, <4>5, <4>6 DEF Control
    <3>3. CASE Scheduler
      <4>1. ASSUME NEW r \in RunIds, NEW ok, NEW delay, FinishRun(r, ok, delay)  PROVE now' = now
            BY <4>1 DEF FinishRun
      <4> QED BY <3>3, <4>1 DEF Scheduler, Reconcile, ClaimQueued, ClaimDue, ClaimNothing, Reap,
                                Heartbeat, CancelClaim
    <3>4. CASE UNCHANGED vars  BY <3>4 DEF vars
    <3> QED BY <3>1, <3>2, <3>3, <3>4 DEF Next
  <2>2. now \in Nat  BY DEF FenceInv, TypeOK
  <2> QED BY <2>1, <2>2, ConstantsOK
<1>2. ASSUME NEW j \in Jobs  PROVE runtime'[j].until <= now' + LeaseSeconds
  <2>1. runtime[j].until <= now + LeaseSeconds /\ runtime[j].until \in Nat
        BY Rows DEF LeaseBounded, FenceInv, RuntimeRow
  <2>2. runtime'[j].until \in {runtime[j].until, now + LeaseSeconds, 0}
        BY NextLeases DEF LeaseStep, LeaseKept, LeaseExtended, LeaseReplaced, LeaseEnded
  <2> QED BY <1>1, <2>1, <2>2
<1> QED BY <1>2 DEF LeaseBounded

\* Until a lease runs out nobody else gets the fence of its job and nobody
\* shortens it, except the run that ends with it, for any number of jobs,
\* owners and runs.
THEOREM LeaseIsExclusive == Spec => ActiveLeaseNeverStolen
<1>1. Init => LeaseBounded
  <2> SUFFICES ASSUME Init, NEW j \in Jobs PROVE runtime[j].until <= now + LeaseSeconds
      BY DEF LeaseBounded
  <2>1. runtime[j].until = 0 /\ now = 1  BY DEF Init, NoRuntime
  <2> QED BY <2>1, ConstantsOK
<1>2. FenceInv /\ LeaseBounded /\ [Next]_vars => LeaseBounded'  BY LeaseBoundedStep
<1>3. FenceInv /\ LeaseBounded /\ [Next]_vars =>
        [\A j \in Jobs : LeaseActive(j) =>
          /\ runtime'[j].token = runtime[j].token
          /\ \/ runtime'[j].owner = runtime[j].owner /\ runtime'[j].until >= runtime[j].until
             \/ \E r \in Running(j) : OwnsFence(r) /\ runs'[r].st \in Terminal]_vars
  <2> SUFFICES ASSUME FenceInv, LeaseBounded, [Next]_vars, NEW j \in Jobs, LeaseActive(j)
               PROVE  /\ runtime'[j].token = runtime[j].token
                      /\ \/ /\ runtime'[j].owner = runtime[j].owner
                            /\ runtime'[j].until >= runtime[j].until
                         \/ \E r \in Running(j) : OwnsFence(r) /\ runs'[r].st \in Terminal
      OBVIOUS
  <2>1. runtime[j].until \in Nat /\ now \in Nat /\ runtime[j].until # 0
        /\ runtime[j].until <= now + LeaseSeconds /\ now + LeaseSeconds \in Nat
    <3>1. runtime[j].until \in Nat /\ now \in Nat /\ LeaseSeconds \in Nat
          BY Rows, ConstantsOK DEF FenceInv, TypeOK, RuntimeRow
    <3> QED BY <3>1 DEF LeaseActive, LeaseBounded
  <2>2. LeaseStep(j)  BY NextLeases
  <2>3. CASE LeaseKept(j)  BY <2>1, <2>3 DEF LeaseKept
  <2>4. CASE LeaseExtended(j)  BY <2>1, <2>4 DEF LeaseExtended
  <2>5. CASE LeaseReplaced(j)  BY <2>5 DEF LeaseReplaced
  <2>6. CASE LeaseEnded(j)  BY <2>6 DEF LeaseEnded
  <2> QED BY <2>2, <2>3, <2>4, <2>5, <2>6 DEF LeaseStep
<1> QED BY <1>1, <1>2, <1>3, FenceCorrect, PTL DEF Spec, ActiveLeaseNeverStolen

HIDE DEF RunIds, OutboxIds

-----------------------------------------------------------------------------
(* What the rows tell.  The three invariants hold together, with what they *)
(* rest on: the scheduler never applies a revision the operator has not    *)
(* made, nothing is left of a row that does not exist, and a running run   *)
(* is at most as new as its job.  Again the tables are parameters.         *)

\* A run of job j waits in the queue.
Waits(rn, j) == \E r \in RunIds : rn[r].job = j /\ rn[r].st = "queued"

RowOK(jb, rt, rn, j) ==
    /\ rt[j].applied <= jb[j].revision
    /\ jb[j].st = "absent" => rt[j].incident = 0 /\ rt[j].incidents = 0
    /\ jb[j].st = "live" /\ jb[j].desired = "on" /\ rt[j].applied = jb[j].revision
          => rt[j].next # 0
    /\ jb[j].st # "absent" /\ jb[j].desired = "off" => rt[j].next = 0 /\ ~Waits(rn, j)
    /\ /\ Managed(j) /\ jb[j].st = "live" /\ jb[j].desired = "on"
       /\ rt[j].until = 0 /\ ~Waits(rn, j) /\ rt[j].applied = jb[j].revision
       => (rt[j].actual = "error" <=> rt[j].incident # 0)

RowsOK(jb, rt, rn) == \A j \in Jobs : RowOK(jb, rt, rn, j)

\* No run is newer than its job, and one that "off" has overtaken is older.
RunsBehind ==
    \A r \in RunIds : runs[r].st = "running" =>
        /\ runs[r].revision <= job[runs[r].job].revision
        /\ job[runs[r].job].desired = "off" => runs[r].revision # job[runs[r].job].revision

StatusInv == FenceInv /\ RowsOK(job, runtime, runs) /\ RunsBehind /\ IncidentAlertedOnce

-----------------------------------------------------------------------------
(* The rows *)

\* A step on one job leaves the rows of the others as they are.
LEMMA OneRow ==
    ASSUME TypeOK, RowsOK(job, runtime, runs), NEW j \in Jobs,
           \A k \in Jobs \ {j} : job'[k] = job[k] /\ runtime'[k] = runtime[k],
           \A r \in RunIds : \/ runs'[r] = runs[r]
                             \/ /\ runs'[r].job = j
                                /\ runs[r].job = j \/ runs[r].st = "absent",
           RowOK(job, runtime, runs, j)'
    PROVE  RowsOK(job, runtime, runs)'
<1>1. ASSUME NEW k \in Jobs, k # j  PROVE RowOK(job, runtime, runs, k)'
  <2>1. Waits(runs', k) <=> Waits(runs, k)
        BY <1>1 DEF Waits
  <2>2. RowOK(job, runtime, runs, k)  BY DEF RowsOK
  <2> QED BY <1>1, <2>1, <2>2 DEF RowOK
<1> QED BY <1>1 DEF RowsOK

\* Cancelling the queue of a job leaves none of its runs there.
LEMMA QueueCancelled ==
    ASSUME TypeOK, NEW j \in Jobs, runs' = CancelQueued(j)
    PROVE  /\ ~Waits(runs', j)
           /\ \A r \in RunIds : runs'[r] = runs[r] \/ (runs'[r].job = j /\ runs[r].job = j)
<1>1. ASSUME NEW r \in RunIds
      PROVE  \/ runs'[r] = runs[r] /\ ~(runs[r].job = j /\ runs[r].st = "queued")
             \/ runs[r].job = j /\ runs'[r].job = j /\ runs'[r].st = "cancelled"
  <2>1. runs[r] \in RunRow  BY Rows
  <2> QED BY <2>1 DEF CancelQueued, RunRow
<1> QED BY <1>1 DEF Waits

\* A job without a row has no run in the queue.
LEMMA AbsentWaitsNot ==
    ASSUME FenceInv, NEW j \in Jobs, job[j].st = "absent"
    PROVE  ~Waits(runs, j) /\ ~\E r \in RunIds : runs[r].job = j /\ runs[r].st = "running"
BY DEF FenceInv, Fence, Waits, Active

LEMMA ControlRows ==
    ASSUME FenceInv, RowsOK(job, runtime, runs), Control
    PROVE  RowsOK(job, runtime, runs)'
<1>0. /\ TypeOK
      /\ job \in [Jobs -> JobRow] /\ runtime \in [Jobs -> RuntimeRow] /\ runs \in [RunIds -> RunRow]
      BY DEF FenceInv, TypeOK
<1>r. \A j \in Jobs : RowOK(job, runtime, runs, j)  BY DEF RowsOK
<1>1. ASSUME NEW j \in Jobs, job[j].st = "absent", NEW row,
             row.st = "live", row.desired = "off", row.revision = 1,
             job' = [job EXCEPT ![j] = row],
             runtime' = [runtime EXCEPT ![j] = NoRuntime], runs' = runs
      PROVE  RowsOK(job, runtime, runs)'
  <2>1. /\ job'[j].st = "live" /\ job'[j].desired = "off" /\ job'[j].revision = 1
        /\ runtime'[j].applied = 1 /\ runtime'[j].next = 0
        BY <1>0, <1>1 DEF NoRuntime
  <2>2. ~Waits(runs', j)  BY <1>1, AbsentWaitsNot
  <2>3. RowOK(job, runtime, runs, j)'  BY <2>1, <2>2 DEF RowOK
  <2> QED BY <1>0, <1>1, <2>3, OneRow
<1>2. ASSUME NEW j \in Jobs, NEW s \in Schedules, Create(j, s)
      PROVE  RowsOK(job, runtime, runs)'
  <2> DEFINE row == [NoJob EXCEPT !.st = "live", !.sched = s, !.updated = now]
  <2>1. row.st = "live" /\ row.desired = "off" /\ row.revision = 1  BY DEF NoJob
  <2> QED BY <1>1, <1>2, <2>1 DEF Create
<1>3. ASSUME NEW j \in Jobs, SeedDefaults(j)  PROVE RowsOK(job, runtime, runs)'
  <2> DEFINE row == [NoJob EXCEPT !.st = "live", !.updated = now]
  <2>1. row.st = "live" /\ row.desired = "off" /\ row.revision = 1  BY DEF NoJob
  <2> QED BY <1>1, <1>3, <2>1 DEF SeedDefaults
\* the switch is turned on, or the schedule set: the revision is not applied yet
<1>4. ASSUME NEW j \in Jobs, Enable(j) \/ \E s \in Schedules : SetSchedule(j, s)
      PROVE  RowsOK(job, runtime, runs)'
  <2>1. /\ runtime' = runtime /\ runs' = runs
        /\ job'[j].st = "live" /\ job'[j].revision = job[j].revision + 1
        /\ job'[j].desired \in {"on", job[j].desired} /\ job[j].st = "live"
        /\ \A k \in Jobs \ {j} : job'[k] = job[k]
    <3>1. CASE Enable(j)  BY <1>0, <3>1 DEF Enable, JobRow, Live
    <3>2. CASE \E s \in Schedules : SetSchedule(j, s)
          BY <1>0, <3>2 DEF SetSchedule, JobRow, Live
    <3> QED BY <1>4, <3>1, <3>2
  <2>2. job[j].revision \in Nat /\ runtime[j].applied \in Nat
        BY <1>0 DEF JobRow, RuntimeRow
  <2>3. RowOK(job, runtime, runs, j)'  BY <1>r, <2>1, <2>2 DEF RowOK
  <2> QED BY <1>0, <2>1, <2>3, OneRow
<1>5. ASSUME NEW j \in Jobs, Disable(j)  PROVE RowsOK(job, runtime, runs)'
  <2>1. /\ runtime'[j].next = 0 /\ runtime'[j].applied = runtime[j].applied
        /\ job'[j].revision = job[j].revision + 1 /\ job'[j].desired = "off"
        /\ job'[j].st = "live" /\ runs' = CancelQueued(j)
        /\ \A k \in Jobs \ {j} : job'[k] = job[k] /\ runtime'[k] = runtime[k]
        BY <1>0, <1>5 DEF Disable, JobRow, RuntimeRow, Live
  <2>2. job[j].revision \in Nat /\ runtime[j].applied \in Nat
        BY <1>0 DEF JobRow, RuntimeRow
  <2>3. RowOK(job, runtime, runs, j)'
        BY <1>0, <1>r, <2>1, <2>2, QueueCancelled DEF RowOK
  <2> QED BY <1>0, <2>1, <2>3, OneRow, QueueCancelled
<1>6. ASSUME NEW j \in Jobs, NEW r \in RunIds, EnqueueRun(j, r)
      PROVE  RowsOK(job, runtime, runs)'
  <2>1. /\ job' = job /\ job[j].desired = "on" /\ job[j].st = "live"
        /\ \A k \in Jobs \ {j} : runtime'[k] = runtime[k]
        /\ runtime'[j].next = runtime[j].next /\ runtime'[j].applied = runtime[j].applied
        BY <1>0, <1>6 DEF EnqueueRun, RuntimeRow, Live
  <2>2. /\ runs[r].st = "absent" /\ runs'[r].st = "queued" /\ runs'[r].job = j
        /\ \A q \in RunIds \ {r} : runs'[q] = runs[q]
        BY <1>0, <1>6 DEF EnqueueRun, FreshRun, NoRun
  <2>3. Waits(runs', j)  BY <2>2 DEF Waits
  <2>4. RowOK(job, runtime, runs, j)'  BY <1>r, <2>1, <2>3 DEF RowOK
  <2> QED BY <1>0, <2>1, <2>2, <2>4, OneRow
<1>7. ASSUME NEW j \in Jobs, TestNotification(j)  PROVE RowsOK(job, runtime, runs)'
  <2>1. /\ job' = job /\ runs' = runs /\ job[j].st = "live"
        /\ \A k \in Jobs \ {j} : runtime'[k] = runtime[k]
        /\ runtime'[j].next = runtime[j].next /\ runtime'[j].applied = runtime[j].applied
        /\ runtime'[j].until = runtime[j].until /\ runtime'[j].actual = runtime[j].actual
        /\ runtime'[j].incident = runtime[j].incident
        BY <1>0, <1>7 DEF TestNotification, RuntimeRow, Live
  <2>2. RowOK(job, runtime, runs, j)'  BY <1>r, <2>1 DEF RowOK
  <2> QED BY <1>0, <2>1, <2>2, OneRow
<1>8. ASSUME NEW j \in Jobs, Archive(j)  PROVE RowsOK(job, runtime, runs)'
  <2>1. /\ job[j].desired = "off" /\ job'[j].desired = "off" /\ job'[j].st = "archived"
        /\ job'[j].revision = job[j].revision + 1
        /\ runtime'[j].next = 0 /\ runtime'[j].applied = job[j].revision + 1
        /\ runs' = CancelQueued(j)
        /\ \A k \in Jobs \ {j} : job'[k] = job[k] /\ runtime'[k] = runtime[k]
    <3>1. job[j].desired = "off" /\ runs' = CancelQueued(j)  BY <1>8 DEF Archive
    <3>2. /\ job' = [job EXCEPT ![j].st = "archived", ![j].revision = @ + 1,
                                 ![j].updated = now]
          /\ runtime' = [runtime EXCEPT ![j].actual = "archived", ![j].next = 0,
                                        ![j].applied = job[j].revision + 1]
          BY <1>8 DEF Archive
    <3> QED BY <1>0, <3>1, <3>2 DEF JobRow, RuntimeRow
  <2>2. job[j].revision \in Nat  BY <1>0 DEF JobRow
  <2>3. RowOK(job, runtime, runs, j)'  BY <1>0, <2>1, <2>2, QueueCancelled DEF RowOK
  <2> QED BY <1>0, <2>1, <2>3, OneRow, QueueCancelled
<1>9. ASSUME NEW j \in Jobs, NEW desired \in {"on", "off"},
             NEW shown \in {"error", "running", "idle", "disabled"},
             NEW wake \in 0..MaxTime, ProjectRole(j, desired, shown, wake)
      PROVE  RowsOK(job, runtime, runs)'
  <2> DEFINE row == IF Live(j) THEN job[j] ELSE [NoJob EXCEPT !.st = "live"]
             revision == row.revision + IF row.desired # desired THEN 1 ELSE 0
             kept == IF runtime[j].next # 0 THEN runtime[j].next ELSE now
             next == IF desired = "off" THEN 0
                     ELSE IF wake # 0 /\ shown = "idle" THEN wake ELSE kept
  <2>1. /\ job' = [job EXCEPT ![j] = [row EXCEPT !.desired = desired, !.revision = revision,
                                                 !.updated = now]]
        /\ runtime' = [runtime EXCEPT ![j].actual = shown, ![j].next = next,
                                      ![j].applied = revision]
        /\ runs' = IF desired = "off" THEN CancelQueued(j) ELSE runs
        /\ ~Managed(j)
        BY <1>9 DEF ProjectRole
  <2>2. row \in JobRow /\ row.st = "live"
    <3>1. [NoJob EXCEPT !.st = "live"] \in JobRow  BY InitTypes, Zenon DEF JobRow
    <3>2. [NoJob EXCEPT !.st = "live"].st = "live"  BY DEF NoJob
    <3> QED BY <1>0, <3>1, <3>2 DEF Live
  <2>3. revision \in Nat /\ (desired = "on" => next # 0)
    <3>1. now \in Nat \ {0}  BY <1>0 DEF TypeOK
    <3>2. row.revision \in Nat  BY <2>2 DEF JobRow
    <3> HIDE DEF row
    <3> QED BY <3>1, <3>2
  <2>4. desired = "off" => next = 0  OBVIOUS
  <2> HIDE DEF row, revision, next
  <2>5. /\ job'[j].st = "live" /\ job'[j].desired = desired /\ job'[j].revision = revision
        /\ runtime'[j].next = next /\ runtime'[j].applied = revision
        /\ \A k \in Jobs \ {j} : job'[k] = job[k] /\ runtime'[k] = runtime[k]
        BY <1>0, <2>1, <2>2 DEF JobRow, RuntimeRow
  <2>6. RowOK(job, runtime, runs, j)'
        BY <1>0, <2>1, <2>3, <2>4, <2>5, QueueCancelled DEF RowOK
  <2>7. \A r \in RunIds : runs'[r] = runs[r] \/ (runs'[r].job = j /\ runs[r].job = j)
    <3>1. CASE desired = "off"  BY <1>0, <2>1, <3>1, QueueCancelled
    <3>2. CASE desired # "off"  BY <2>1, <3>2
    <3> QED BY <3>1, <3>2
  <2> QED BY <1>0, <2>5, <2>6, <2>7, OneRow
<1>10. ASSUME NEW p \in Parties, NEW reason \in HoldReasons \cup {"none"}, SetGlobalHold(p, reason)
       PROVE  RowsOK(job, runtime, runs)'
       BY <1>10 DEF SetGlobalHold
<1> QED BY <1>2, <1>3, <1>4, <1>5, <1>6, <1>7, <1>8, <1>9, <1>10 DEF Control

\* Reaping applies nothing and schedules nothing; a reaped job shows its incident.
LEMMA ReapRows ==
    ASSUME FenceInv, RowsOK(job, runtime, runs), Reap
    PROVE  RowsOK(job, ReapedRuntime, ReapedRuns)
<1>0. TypeOK  BY DEF FenceInv
<1> SUFFICES ASSUME NEW j \in Jobs PROVE RowOK(job, ReapedRuntime, ReapedRuns, j)
    BY DEF RowsOK
<1>1. RowOK(job, runtime, runs, j) /\ runtime[j] \in RuntimeRow
      BY <1>0, Rows DEF RowsOK
<1>2. Waits(ReapedRuns, j) <=> Waits(runs, j)
  <2>1. \A r \in RunIds : ReapedRuns[r].job = runs[r].job
                          /\ (ReapedRuns[r].st = "queued" <=> runs[r].st = "queued")
        BY ReapFacts
  <2> QED BY <2>1 DEF Waits
<1>3. CASE j \notin Expired
      BY <1>1, <1>2, <1>3, ReapFacts DEF RowOK
<1>4. CASE j \in Expired
  <2>1. /\ ReapedRuntime[j].next = runtime[j].next
        /\ ReapedRuntime[j].applied = runtime[j].applied
        /\ ReapedRuntime[j].incident # 0
    <3>1. /\ ReapedRuntime[j].next = runtime[j].next
          /\ ReapedRuntime[j].applied = runtime[j].applied
          /\ ReapedRuntime[j].incident
             = IF runtime[j].incident = 0 THEN runtime[j].incidents + 1 ELSE runtime[j].incident
          BY <1>1, <1>4 DEF ReapedRuntime, RuntimeRow
    <3>2. runtime[j].incidents \in Nat  BY <1>1, ConstantsOK DEF RuntimeRow
    <3> QED BY <3>1, <3>2
  <2>2. job[j].st # "absent"
        BY <1>4, AbsentWaitsNot DEF FenceInv, Fence, Expired, LeaseExpired
  <2>3. ReapedRuntime[j].actual = "error"  BY <1>4, ReapFacts
  <2> QED BY <1>1, <1>2, <2>1, <2>2, <2>3 DEF RowOK
<1> QED BY <1>3, <1>4

\* The row of a job whose run starts, and of one that is put off.
LEMMA StartedRow ==
    ASSUME TypeOK, Reap, NEW j \in Jobs, NEW o \in Owners
    PROVE  /\ Started(j, o).applied = ReapedRuntime[j].applied
           /\ Started(j, o).next = ReapedRuntime[j].next
           /\ Started(j, o).incident = ReapedRuntime[j].incident
           /\ Started(j, o).incidents = ReapedRuntime[j].incidents
           /\ Started(j, o).until # 0
<1>1. ReapedRuntime[j] \in RuntimeRow  BY ReapTypes
<1>2. now + LeaseSeconds # 0  BY ConstantsOK DEF TypeOK
<1> QED BY <1>1, <1>2 DEF Started, RuntimeRow

LEMMA DeferredRow ==
    ASSUME TypeOK, Reap, NEW D \in SUBSET Jobs, NEW k \in Jobs
    PROVE  /\ Deferred(D)[k].applied = ReapedRuntime[k].applied
           /\ Deferred(D)[k].until = ReapedRuntime[k].until
           /\ Deferred(D)[k].actual = ReapedRuntime[k].actual
           /\ Deferred(D)[k].incident = ReapedRuntime[k].incident
           /\ Deferred(D)[k].incidents = ReapedRuntime[k].incidents
           /\ IF k \in D THEN Deferred(D)[k].next # 0
                          ELSE Deferred(D)[k].next = ReapedRuntime[k].next
<1>1. ReapedRuntime[k] \in RuntimeRow  BY ReapTypes
<1>2. NextActive(now, job[k].sched) # 0
  <2>1. job[k].sched \in Schedules /\ now \in 1..MaxTime  BY Rows DEF TypeOK, JobRow
  <2>2. NextActive(now + 0, job[k].sched) >= now + 0 /\ now + 0 = now
        BY <2>1, WindowsOK
  <2>3. NextActive(now + 0, job[k].sched) \in Nat  BY <2>1, WindowsOK
  <2> QED BY <2>1, <2>2, <2>3
<1> QED BY <1>1, <1>2 DEF Deferred, RuntimeRow

\* What cancel_run_claim and finish_run put into the schedule.
LEMMA NextRunOK ==
    ASSUME TypeOK, NEW j \in Jobs, NEW d \in Delays \cup {job[j].sched.every}
    PROVE  IF job[j].desired = "on" THEN NextRun(j, d) # 0 ELSE NextRun(j, d) = 0
<1>1. job[j].sched \in Schedules /\ now \in 1..MaxTime  BY Rows DEF TypeOK, JobRow
<1>2. NextActive(now + d, job[j].sched) >= now + d /\ d \in Nat
  <2>1. d \in Delays \cup {job[j].sched.every, 0}  OBVIOUS
  <2>2. d \in Nat  BY <1>1, ConstantsOK
  <2> QED BY <1>1, <2>1, <2>2, WindowsOK
<1>3. NextActive(now + d, job[j].sched) \in Nat  BY <1>1, NextActiveNat
<1> QED BY <1>1, <1>2, <1>3 DEF NextRun

LEMMA SchedulerRows ==
    ASSUME FenceInv, RowsOK(job, runtime, runs), Scheduler
    PROVE  RowsOK(job, runtime, runs)'
<1>0. /\ TypeOK
      /\ job \in [Jobs -> JobRow] /\ runtime \in [Jobs -> RuntimeRow] /\ runs \in [RunIds -> RunRow]
      BY DEF FenceInv, TypeOK
<1>r. \A j \in Jobs : RowOK(job, runtime, runs, j)  BY DEF RowsOK
<1>1. ASSUME NEW j \in Jobs, Reconcile(j)  PROVE RowsOK(job, runtime, runs)'
  <2>0. job' = job /\ \A k \in Jobs \ {j} : runtime'[k] = runtime[k]
    <3>1. CASE LeaseActive(j)  BY <1>0, <1>1, <3>1 DEF Reconcile
    <3>2. CASE ~LeaseActive(j) /\ job[j].desired = "on"  BY <1>0, <1>1, <3>2 DEF Reconcile
    <3>3. CASE ~LeaseActive(j) /\ job[j].desired # "on"  BY <1>0, <1>1, <3>3 DEF Reconcile
    <3> QED BY <3>1, <3>2, <3>3
  <2>1. CASE LeaseActive(j)
    <3>1. /\ job[j].desired = "off" /\ runs' = runs
          /\ runtime'[j].next = 0 /\ runtime'[j].applied = runtime[j].applied
          /\ runtime'[j].incident = runtime[j].incident
          /\ runtime'[j].incidents = runtime[j].incidents
          BY <1>0, <1>1, <2>1 DEF Reconcile, RuntimeRow
    <3>2. RowOK(job, runtime, runs, j)'  BY <1>r, <2>0, <3>1 DEF RowOK
    <3> QED BY <1>0, <2>0, <3>1, <3>2, OneRow
  <2>2. CASE ~LeaseActive(j) /\ job[j].desired = "on"
    <3>1. PICK n : n = NextActive(now + job[j].sched.every, job[j].sched)  OBVIOUS
    <3>2. n # 0
      <4>1. NextRun(j, job[j].sched.every) # 0  BY <1>0, <2>2, NextRunOK
      <4> QED BY <2>2, <3>1, <4>1 DEF NextRun
    <3>3. /\ runtime' = [runtime EXCEPT ![j].actual = RestState(j), ![j].next = n,
                                        ![j].applied = job[j].revision]
          /\ runs' = runs /\ job[j].st # "absent"
          BY <1>1, <2>2, <3>1 DEF Reconcile, Unapplied, Live
    <3>4. /\ runtime'[j].next = n /\ runtime'[j].applied = job[j].revision
          /\ runtime'[j].incident = runtime[j].incident
          /\ runtime'[j].actual = RestState(j)
          BY <1>0, <3>3 DEF RuntimeRow
    <3>5. RestState(j) = "error" <=> runtime[j].incident # 0  BY DEF RestState
    <3>6. job[j].revision <= job[j].revision  BY <1>0 DEF JobRow
    <3>7. RowOK(job, runtime, runs, j)'
          BY <2>0, <2>2, <3>2, <3>3, <3>4, <3>5, <3>6 DEF RowOK
    <3> QED BY <1>0, <2>0, <3>3, <3>7, OneRow
  <2>3. CASE ~LeaseActive(j) /\ job[j].desired # "on"
    <3>1. /\ runtime'[j].next = 0 /\ runtime'[j].applied = job[j].revision
          /\ runs' = CancelQueued(j) /\ job[j].st # "absent"
          BY <1>0, <1>1, <2>3 DEF Reconcile, RuntimeRow, Unapplied, Live
    <3>2. job[j].revision <= job[j].revision  BY <1>0 DEF JobRow
    <3>3. RowOK(job, runtime, runs, j)'
          BY <1>0, <2>0, <2>3, <3>1, <3>2, QueueCancelled DEF RowOK
    <3> QED BY <1>0, <2>0, <3>1, <3>3, OneRow, QueueCancelled
  <2> QED BY <2>1, <2>2, <2>3
<1>2. ASSUME NEW o \in Owners, NEW r \in RunIds, ClaimQueued(o, r)
      PROVE  RowsOK(job, runtime, runs)'
  <2>1. PICK j \in Jobs : j = runs[r].job  BY <1>0 DEF RunRow
  <2>2. /\ Reap /\ job' = job /\ job[j].st = "live" /\ job[j].desired = "on"
        /\ runs[r].st = "queued"
        BY <1>2, <2>1 DEF ClaimQueued, Reap, Claimable, Live
  <2>3. /\ ReapedRuntime \in [Jobs -> RuntimeRow] /\ ReapedRuns \in [RunIds -> RunRow]
        /\ RowsOK(job, ReapedRuntime, ReapedRuns)
        /\ ReapedRuns[r] = runs[r]
        BY <1>0, <2>2, ReapTypes, ReapRows, ReapFacts
  <2>4. /\ runtime'[j] = Started(j, o)
        /\ \A k \in Jobs \ {j} : runtime'[k] = ReapedRuntime[k]
        BY <1>2, <2>1, <2>3 DEF ClaimQueued
  <2>5. /\ runs'[r].job = j
        /\ \A q \in RunIds \ {r} : runs'[q] = ReapedRuns[q]
    <3>1. PICK t, v : runs' = [ReapedRuns EXCEPT ![r].st = "running", ![r].owner = o,
                                ![r].token = t, ![r].revision = v]
          BY <1>2 DEF ClaimQueued
    <3> QED BY <2>1, <2>3, <3>1 DEF RunRow
  <2>6. ASSUME NEW k \in Jobs  PROVE RowOK(job, runtime, runs, k)'
    <3>1. CASE k = j
          BY <1>0, <2>2, <2>3, <2>4, <3>1, StartedRow DEF RowOK, RowsOK
    <3>2. CASE k # j
      <4>1. Waits(runs', k) <=> Waits(ReapedRuns, k)
            BY <2>1, <2>3, <2>5, <3>2 DEF Waits
      <4> QED BY <2>2, <2>3, <2>4, <3>2, <4>1 DEF RowOK, RowsOK
    <3> QED BY <3>1, <3>2
  <2> QED BY <2>6 DEF RowsOK
<1>3. ASSUME NEW o \in Owners, NEW j \in Jobs, NEW r \in RunIds, NEW D \in SUBSET Jobs,
             ClaimDue(o, j, r, D)
      PROVE  RowsOK(job, runtime, runs)'
  <2>1. /\ Reap /\ job' = job /\ job[j].st = "live" /\ job[j].desired = "on"
        /\ runs[r].st = "absent" /\ D \subseteq Due
        BY <1>3 DEF ClaimDue, Reap, DueInWindow, Due, Live, FreshRun
  <2>2. /\ ReapedRuns \in [RunIds -> RunRow] /\ RowsOK(job, ReapedRuntime, ReapedRuns)
        /\ ReapedRuns[r] = runs[r]
        BY <1>0, <2>1, ReapTypes, ReapRows, ReapFacts
  <2>3. /\ runtime'[j] = Started(j, o)
        /\ \A k \in Jobs \ {j} : runtime'[k] = Deferred(D)[k]
        BY <1>3 DEF ClaimDue, Deferred
  <2>4. /\ runs'[r].st = "running"
        /\ \A q \in RunIds \ {r} : runs'[q] = ReapedRuns[q]
        BY <1>3, <2>2 DEF ClaimDue
  <2>5. ASSUME NEW k \in Jobs  PROVE RowOK(job, runtime, runs, k)'
    <3>1. Waits(runs', k) <=> Waits(ReapedRuns, k)
          BY <2>1, <2>2, <2>4 DEF Waits
    <3>2. CASE k = j
          BY <1>0, <2>1, <2>2, <2>3, <3>1, <3>2, StartedRow DEF RowOK, RowsOK
    <3>3. CASE k # j
      <4>1. k \in D => job[k].desired = "on" /\ job[k].st = "live"
            BY <2>1 DEF Due, Live
      <4> QED BY <1>0, <2>1, <2>2, <2>3, <3>1, <3>3, <4>1, DeferredRow DEF RowOK, RowsOK
    <3> QED BY <3>2, <3>3
  <2> QED BY <2>5 DEF RowsOK
<1>4. ASSUME ClaimNothing  PROVE RowsOK(job, runtime, runs)'
  <2>1. /\ Reap /\ job' = job /\ runtime' = Deferred(Due) /\ runs' = ReapedRuns
        /\ Due \in SUBSET Jobs /\ RowsOK(job, ReapedRuntime, ReapedRuns)
        BY <1>4, ReapRows DEF ClaimNothing, Reap, Due
  <2>2. ASSUME NEW k \in Jobs  PROVE RowOK(job, runtime, runs, k)'
    <3>1. k \in Due => job[k].desired = "on" /\ job[k].st = "live"
          BY DEF Due, Live
    <3> QED BY <1>0, <2>1, <3>1, DeferredRow DEF RowOK, RowsOK
  <2> QED BY <2>2 DEF RowsOK
<1>5. ASSUME NEW r \in RunIds, Heartbeat(r)  PROVE RowsOK(job, runtime, runs)'
  <2>1. PICK j \in Jobs : j = runs[r].job  BY <1>0 DEF RunRow
  <2>2. /\ runtime' = [runtime EXCEPT ![j].until = now + LeaseSeconds]
        /\ job' = job /\ runs' = runs
        BY <1>5, <2>1 DEF Heartbeat
  <2>3. now + LeaseSeconds # 0  BY <1>0, ConstantsOK DEF TypeOK
  <2>4. RowOK(job, runtime, runs, j)'
        BY <1>0, <1>r, <2>2, <2>3 DEF RowOK, RuntimeRow
  <2> QED BY <1>0, <2>2, <2>4, OneRow
\* a run ends: the revision is applied, the state shown is that of the incident
<1>6. ASSUME NEW r \in RunIds, NEW j \in Jobs, NEW row,
             runs[r].job = j, runs[r].st = "running", runs'[r].job = j,
             runs'[r].st \in Terminal,
             job' = job, \A q \in RunIds \ {r} : runs'[q] = runs[q],
             runtime' = [runtime EXCEPT ![j] = row],
             row.applied = job[j].revision,
             IF job[j].desired = "on" THEN row.next # 0 ELSE row.next = 0,
             job[j].desired = "on" => (row.actual = "error" <=> row.incident # 0)
      PROVE  RowsOK(job, runtime, runs)'
  <2>1. /\ runtime'[j] = row /\ job[j].st # "absent" /\ job[j].revision <= job[j].revision
        /\ job[j].desired \in {"on", "off"}
        BY <1>0, <1>6, AbsentWaitsNot DEF JobRow
  <2>2. Waits(runs', j) <=> Waits(runs, j)
        BY <1>6 DEF Waits, Terminal
  <2>3. RowOK(job, runtime, runs, j)'
        BY <1>6, <1>r, <2>1, <2>2 DEF RowOK
  <2>4. \A q \in RunIds : runs'[q] = runs[q] \/ (runs'[q].job = j /\ runs[q].job = j)
        BY <1>6
  <2>5. \A k \in Jobs \ {j} : runtime'[k] = runtime[k]  BY <1>0, <1>6
  <2> QED BY <1>0, <1>6, <2>3, <2>4, <2>5, OneRow
<1>7. ASSUME NEW r \in RunIds, CancelClaim(r)  PROVE RowsOK(job, runtime, runs)'
  <2>1. PICK j \in Jobs : j = runs[r].job  BY <1>0 DEF RunRow
  <2>2. PICK a, n : /\ a = (IF job[j].desired = "on" THEN RestState(j) ELSE "disabled")
                    /\ n = NextRun(j, job[j].sched.every)
        OBVIOUS
  <2>3. /\ runs[r].st = "running" /\ runs' = [runs EXCEPT ![r].st = "cancelled"] /\ job' = job
        /\ runtime' = [runtime EXCEPT ![j].actual = a, ![j].next = n, ![j].owner = NoOwner,
                                      ![j].until = 0, ![j].applied = job[j].revision]
        BY <1>7, <2>1, <2>2 DEF CancelClaim
  <2>4. PICK row : row = [runtime[j] EXCEPT !.actual = a, !.next = n, !.owner = NoOwner,
                                            !.until = 0, !.applied = job[j].revision]
        OBVIOUS
  <2>5. /\ runtime' = [runtime EXCEPT ![j] = row]
        /\ row.applied = job[j].revision /\ row.next = n /\ row.actual = a
        /\ row.incident = runtime[j].incident
        BY <1>0, <2>3, <2>4 DEF RuntimeRow
  <2>6. /\ runs'[r].job = j /\ runs'[r].st \in Terminal
        /\ \A q \in RunIds \ {r} : runs'[q] = runs[q]
        BY <1>0, <2>1, <2>3 DEF RunRow, Terminal
  <2>7. IF job[j].desired = "on" THEN n # 0 ELSE n = 0
        BY <1>0, <2>2, NextRunOK
  <2>8. job[j].desired = "on" => (a = "error" <=> runtime[j].incident # 0)
        BY <2>2 DEF RestState
  <2>9. /\ IF job[j].desired = "on" THEN row.next # 0 ELSE row.next = 0
        /\ job[j].desired = "on" => (row.actual = "error" <=> row.incident # 0)
        BY <2>5, <2>7, <2>8
  <2>10. row.applied = job[j].revision /\ runtime' = [runtime EXCEPT ![j] = row]  BY <2>5
  <2>11. runs[r].job = j /\ runs[r].st = "running" /\ job' = job  BY <2>1, <2>3
  <2> QED BY <1>6, <2>6, <2>9, <2>10, <2>11
<1>8. ASSUME NEW r \in RunIds, NEW ok \in BOOLEAN,
             NEW delay \in Delays \cup {s.every : s \in Schedules}, FinishRun(r, ok, delay)
      PROVE  RowsOK(job, runtime, runs)'
  <2>1. PICK j \in Jobs : j = runs[r].job  BY <1>0 DEF RunRow
  <2>2. PICK a, n, i, is, st :
           /\ runtime' = [runtime EXCEPT ![j].actual = a, ![j].next = n,
                  ![j].owner = NoOwner, ![j].until = 0, ![j].incident = i,
                  ![j].incidents = is, ![j].applied = job[j].revision]
           /\ runs' = [runs EXCEPT ![r].st = st] /\ st \in {"succeeded", "failed"}
           /\ a = (IF ~ok THEN "error" ELSE IF job[j].desired = "on" THEN "idle" ELSE "disabled")
           /\ n = NextRun(j, delay)
           /\ i = (IF ok THEN 0 ELSE IF ~ok /\ runtime[j].incident = 0 THEN runtime[j].incidents + 1
                                   ELSE runtime[j].incident)
        BY <1>8, <2>1 DEF FinishRun
  <2>3. /\ runs[r].st = "running" /\ job' = job
        /\ delay \in Delays \cup {job[j].sched.every}
        BY <1>8, <2>1 DEF FinishRun
  <2>4. PICK row : row = [runtime[j] EXCEPT !.actual = a, !.next = n, !.owner = NoOwner,
                              !.until = 0, !.incident = i, !.incidents = is,
                              !.applied = job[j].revision]
        OBVIOUS
  <2>5. /\ runtime' = [runtime EXCEPT ![j] = row]
        /\ row.applied = job[j].revision /\ row.next = n /\ row.actual = a /\ row.incident = i
        BY <1>0, <2>2, <2>4 DEF RuntimeRow
  <2>6. /\ runs'[r].job = j /\ runs'[r].st \in Terminal
        /\ \A q \in RunIds \ {r} : runs'[q] = runs[q]
        BY <1>0, <2>1, <2>2 DEF RunRow, Terminal
  <2>7. IF job[j].desired = "on" THEN n # 0 ELSE n = 0
        BY <1>0, <2>2, <2>3, NextRunOK
  <2>8. job[j].desired = "on" => (a = "error" <=> i # 0)
    <3>1. runtime[j].incident \in Nat /\ runtime[j].incidents \in Nat
          BY <1>0, ConstantsOK DEF RuntimeRow
    <3> QED BY <2>2, <3>1
  <2> QED BY <1>6, <2>1, <2>3, <2>5, <2>6, <2>7, <2>8
<1> QED BY <1>1, <1>2, <1>3, <1>4, <1>5, <1>7, <1>8 DEF Scheduler

LEMMA RowsStart == Init => RowsOK(job, runtime, runs)
<1> SUFFICES ASSUME Init, NEW j \in Jobs PROVE RowOK(job, runtime, runs, j)
    BY DEF RowsOK
<1>1. /\ job[j].st = "absent" /\ job[j].revision = 1
      /\ runtime[j].applied = 1 /\ runtime[j].incident = 0 /\ runtime[j].incidents = 0
      BY DEF Init, NoJob, NoRuntime
<1> QED BY <1>1 DEF RowOK

LEMMA RowsKeep ==
    ASSUME FenceInv, RowsOK(job, runtime, runs), [Next]_vars
    PROVE  RowsOK(job, runtime, runs)'
<1>1. CASE Tick  BY <1>1 DEF Tick
<1>2. CASE Control  BY <1>2, ControlRows
<1>3. CASE Scheduler  BY <1>3, SchedulerRows
<1>4. CASE UNCHANGED vars  BY <1>4 DEF vars
<1> QED BY <1>1, <1>2, <1>3, <1>4 DEF Next

-----------------------------------------------------------------------------
(* Runs and the revision they were claimed for *)

\* A job row changes its switch only together with its revision, which never falls.
JobsMoveOn ==
    \A j \in Jobs : job[j].st # "absent" =>
        /\ job'[j].revision >= job[j].revision
        /\ job'[j].desired = job[j].desired \/ job'[j].revision > job[j].revision

\* A run that runs was running before, or is claimed now for the present revision of
\* a job that is on.
RunsMoveOn ==
    \A r \in RunIds : runs'[r].st = "running" =>
        \/ runs'[r] = runs[r]
        \/ /\ runs[r].st # "running"
           /\ job' = job /\ job[runs'[r].job].desired = "on"
           /\ runs'[r].revision = job[runs'[r].job].revision

LEMMA JobsAdvance ==
    ASSUME FenceInv, [Next]_vars
    PROVE  JobsMoveOn
<1>0. TypeOK /\ job \in [Jobs -> JobRow] /\ \A k \in Jobs : job[k].revision \in Nat
      BY DEF FenceInv, TypeOK, JobRow
<1>1. ASSUME job' = job  PROVE JobsMoveOn
      BY <1>0, <1>1 DEF JobsMoveOn
\* one row is replaced
<1>2. ASSUME NEW j \in Jobs, \A k \in Jobs \ {j} : job'[k] = job[k],
             \/ job[j].st = "absent"
             \/ job'[j].revision = job[j].revision + 1
             \/ job'[j].revision = job[j].revision /\ job'[j].desired = job[j].desired
      PROVE  JobsMoveOn
  <2>1. ASSUME NEW k \in Jobs, job[k].st # "absent"
        PROVE  /\ job'[k].revision >= job[k].revision
               /\ job'[k].desired = job[k].desired \/ job'[k].revision > job[k].revision
    <3>1. CASE k # j  BY <1>0, <1>2, <3>1
    <3>2. CASE k = j  BY <1>0, <1>2, <2>1, <3>2
    <3> QED BY <3>1, <3>2
  <2> QED BY <2>1 DEF JobsMoveOn
<1>3. ASSUME NEW j \in Jobs, NEW s \in Schedules, Create(j, s) \/ SetSchedule(j, s)
      PROVE  JobsMoveOn
  <2>1. CASE Create(j, s)  BY <1>0, <1>2, <2>1 DEF Create
  <2>2. CASE SetSchedule(j, s)
    <3>1. job'[j].revision = job[j].revision + 1 /\ \A k \in Jobs \ {j} : job'[k] = job[k]
          BY <1>0, <2>2 DEF SetSchedule, JobRow
    <3> QED BY <1>2, <3>1
  <2> QED BY <1>3, <2>1, <2>2
<1>4. ASSUME NEW j \in Jobs, SeedDefaults(j)  PROVE JobsMoveOn
      BY <1>0, <1>2, <1>4 DEF SeedDefaults
<1>5. ASSUME NEW j \in Jobs, Enable(j) \/ Disable(j) \/ Archive(j)  PROVE JobsMoveOn
  <2>1. job'[j].revision = job[j].revision + 1 /\ \A k \in Jobs \ {j} : job'[k] = job[k]
    <3>1. CASE Enable(j)  BY <1>0, <3>1 DEF Enable, JobRow
    <3>2. CASE Disable(j)  BY <1>0, <3>2 DEF Disable, JobRow
    <3>3. CASE Archive(j)
      <4>1. job' = [job EXCEPT ![j].st = "archived", ![j].revision = @ + 1, ![j].updated = now]
            BY <3>3 DEF Archive
      <4> QED BY <1>0, <4>1 DEF JobRow
    <3> QED BY <1>5, <3>1, <3>2, <3>3
  <2> QED BY <1>2, <2>1
<1>6. ASSUME NEW j \in Jobs, NEW desired \in {"on", "off"},
             NEW shown \in {"error", "running", "idle", "disabled"},
             NEW wake \in 0..MaxTime, ProjectRole(j, desired, shown, wake)
      PROVE  JobsMoveOn
  <2>1. CASE ~Live(j)
    <3>1. job[j].st = "absent" /\ \A k \in Jobs \ {j} : job'[k] = job[k]
          BY <1>0, <1>6, <2>1 DEF ProjectRole
    <3> QED BY <1>2, <3>1
  <2>2. CASE Live(j)
    <3>1. job' = [job EXCEPT ![j] =
                     [job[j] EXCEPT !.desired = desired,
                         !.revision = job[j].revision + IF job[j].desired # desired THEN 1 ELSE 0,
                         !.updated = now]]
          BY <1>6, <2>2 DEF ProjectRole
    <3>2. /\ job'[j].revision = job[j].revision + IF job[j].desired # desired THEN 1 ELSE 0
          /\ job'[j].desired = desired
          /\ \A k \in Jobs \ {j} : job'[k] = job[k]
          BY <1>0, <3>1 DEF JobRow
    <3>3. CASE job[j].desired # desired  BY <1>0, <1>2, <3>2, <3>3
    <3>4. CASE job[j].desired = desired  BY <1>0, <1>2, <3>2, <3>4
    <3> QED BY <3>3, <3>4
  <2> QED BY <2>1, <2>2
<1>7. ASSUME NEW j \in Jobs, TestNotification(j) \/ Reconcile(j)  PROVE JobsMoveOn
      BY <1>1, <1>7 DEF TestNotification, Reconcile
<1>8. ASSUME NEW j \in Jobs, NEW r \in RunIds, EnqueueRun(j, r)  PROVE JobsMoveOn
      BY <1>1, <1>8 DEF EnqueueRun
<1>9. ASSUME NEW r \in RunIds, NEW ok, NEW delay, FinishRun(r, ok, delay)  PROVE JobsMoveOn
      BY <1>1, <1>9 DEF FinishRun
<1>10. ASSUME NEW p, NEW reason, SetGlobalHold(p, reason)  PROVE JobsMoveOn
      BY <1>1, <1>10 DEF SetGlobalHold
<1>11. ASSUME NEW r \in RunIds, Heartbeat(r) \/ CancelClaim(r)  PROVE JobsMoveOn
      BY <1>1, <1>11 DEF Heartbeat, CancelClaim
<1>12. CASE Control
      BY <1>3, <1>4, <1>5, <1>6, <1>7, <1>8, <1>10, <1>12 DEF Control
<1>13. CASE Scheduler
      BY <1>1, <1>7, <1>9, <1>11, <1>13
      DEF Scheduler, ClaimQueued, ClaimDue, ClaimNothing, Reap
<1> QED BY <1>1, <1>12, <1>13 DEF Next, Tick, vars

LEMMA RunsAdvance ==
    ASSUME FenceInv, [Next]_vars
    PROVE  RunsMoveOn
<1>0. /\ TypeOK /\ runs \in [RunIds -> RunRow] /\ \A r \in RunIds : runs[r].job \in Jobs
      BY DEF FenceInv, TypeOK, RunRow
\* most steps leave the runs alone or only end some
<1>1. ASSUME \A r \in RunIds : runs'[r] = runs[r] \/ runs'[r].st # "running"
      PROVE  RunsMoveOn
      BY <1>1 DEF RunsMoveOn
<1>2. ASSUME NEW j \in Jobs, runs' = CancelQueued(j)  PROVE RunsMoveOn
  <2>1. \A r \in RunIds : runs'[r] = runs[r] \/ runs'[r].st # "running"
        BY <1>0, <1>2, CancelQueuedRuns
  <2> QED BY <1>1, <2>1
<1>3. ASSUME UNCHANGED runs  PROVE RunsMoveOn
      BY <1>1, <1>3
<1>4. CASE Control
  <2>1. ASSUME NEW j \in Jobs, NEW r \in RunIds, EnqueueRun(j, r)  PROVE RunsMoveOn
        BY <1>0, <1>1, <2>1 DEF EnqueueRun, NoRun
  <2>2. ASSUME NEW j \in Jobs, NEW s \in Schedules, Create(j, s) \/ SetSchedule(j, s)
        PROVE  RunsMoveOn
        BY <1>3, <2>2 DEF Create, SetSchedule
  <2>3. ASSUME NEW j \in Jobs, SeedDefaults(j) \/ Enable(j) \/ TestNotification(j)
        PROVE  RunsMoveOn
        BY <1>3, <2>3 DEF SeedDefaults, Enable, TestNotification
  <2>4. ASSUME NEW j \in Jobs, Disable(j) \/ Archive(j)  PROVE RunsMoveOn
        BY <1>2, <2>4 DEF Disable, Archive
  <2>5. ASSUME NEW j \in Jobs, NEW desired, NEW shown, NEW wake,
               ProjectRole(j, desired, shown, wake)
        PROVE  RunsMoveOn
        BY <1>2, <1>3, <2>5 DEF ProjectRole
  <2>6. ASSUME NEW p, NEW reason, SetGlobalHold(p, reason)  PROVE RunsMoveOn
        BY <1>3, <2>6 DEF SetGlobalHold
  <2> QED BY <1>4, <2>1, <2>2, <2>3, <2>4, <2>5, <2>6 DEF Control
<1>5. CASE Scheduler
  <2>r. Reap => \A r \in RunIds : ReapedRuns[r] = runs[r] \/ ReapedRuns[r].st # "running"
        BY ReapFacts
  <2>1. ASSUME NEW j \in Jobs, Reconcile(j)  PROVE RunsMoveOn
        BY <1>2, <1>3, <2>1 DEF Reconcile
  <2>2. ASSUME NEW o \in Owners, NEW r \in RunIds, ClaimQueued(o, r)  PROVE RunsMoveOn
    <3>1. PICK j \in Jobs : j = runs[r].job  BY <1>0
    <3>2. /\ Reap /\ job' = job /\ job[j].desired = "on" /\ runs[r].st = "queued"
          BY <2>2, <3>1 DEF ClaimQueued, Reap, Claimable
    <3>3. ReapedRuns \in [RunIds -> RunRow] /\ ReapedRuns[r].job = j
          BY <1>0, <3>1, <3>2, ReapTypes, ReapFacts
    <3>4. PICK v, t : /\ v = job[j].revision
                      /\ runs' = [ReapedRuns EXCEPT ![r].st = "running", ![r].owner = o,
                                     ![r].token = t, ![r].revision = v]
          BY <2>2, <3>1 DEF ClaimQueued
    <3>5. /\ runs'[r].job = j /\ runs'[r].revision = v
          /\ \A q \in RunIds \ {r} : runs'[q] = ReapedRuns[q]
          BY <3>3, <3>4 DEF RunRow
    <3> QED BY <2>r, <3>2, <3>4, <3>5 DEF RunsMoveOn
  <2>3. ASSUME NEW o \in Owners, NEW j \in Jobs, NEW r \in RunIds, NEW D \in SUBSET Jobs,
               ClaimDue(o, j, r, D)
        PROVE  RunsMoveOn
    <3>1. /\ Reap /\ job' = job /\ job[j].desired = "on" /\ runs[r].st = "absent"
          BY <2>3 DEF ClaimDue, Reap, DueInWindow, Due, FreshRun
    <3>2. ReapedRuns \in [RunIds -> RunRow]  BY <1>0, <3>1, ReapTypes
    <3>3. /\ runs'[r].job = j /\ runs'[r].revision = job[j].revision
          /\ \A q \in RunIds \ {r} : runs'[q] = ReapedRuns[q]
          BY <2>3, <3>2 DEF ClaimDue
    <3> QED BY <2>r, <3>1, <3>3 DEF RunsMoveOn
  <2>4. ASSUME ClaimNothing  PROVE RunsMoveOn
        BY <1>1, <2>4, <2>r DEF ClaimNothing
  <2>5. ASSUME NEW r \in RunIds, Heartbeat(r)  PROVE RunsMoveOn
        BY <1>3, <2>5 DEF Heartbeat
  <2>6. ASSUME NEW r \in RunIds, NEW st \in Terminal, runs' = [runs EXCEPT ![r].st = st]
        PROVE  RunsMoveOn
        BY <1>0, <1>1, <2>6 DEF RunRow, Terminal
  <2>7. ASSUME NEW r \in RunIds, CancelClaim(r)  PROVE RunsMoveOn
        BY <2>6, <2>7 DEF CancelClaim, Terminal
  <2>8. ASSUME NEW r \in RunIds, NEW ok, NEW delay, FinishRun(r, ok, delay)  PROVE RunsMoveOn
    <3>1. PICK st \in Terminal : runs' = [runs EXCEPT ![r].st = st]
          BY <2>8 DEF FinishRun, Terminal
    <3> QED BY <2>6, <3>1
  <2> QED BY <1>5, <2>1, <2>2, <2>3, <2>4, <2>5, <2>7, <2>8 DEF Scheduler
<1> QED BY <1>3, <1>4, <1>5 DEF Next, Tick, vars

LEMMA BehindKeeps ==
    ASSUME FenceInv, RunsBehind, [Next]_vars
    PROVE  RunsBehind'
<1>1. JobsMoveOn /\ RunsMoveOn  BY JobsAdvance, RunsAdvance
<1>2. TypeOK /\ TypeOK'  BY TypeStep DEF FenceInv
<1> SUFFICES ASSUME NEW r \in RunIds, runs'[r].st = "running"
             PROVE  /\ runs'[r].revision <= job'[runs'[r].job].revision
                    /\ job'[runs'[r].job].desired = "off"
                          => runs'[r].revision # job'[runs'[r].job].revision
    BY DEF RunsBehind
<1>3. PICK j \in Jobs : j = runs'[r].job  BY <1>2 DEF TypeOK, RunRow
<1>4. job[j].revision \in Nat /\ job'[j].revision \in Nat
      BY <1>2 DEF TypeOK, JobRow
<1>5. CASE runs'[r] = runs[r]
  <2>1. /\ runs[r].revision <= job[j].revision /\ runs[r].revision \in Nat
        /\ job[j].desired = "off" => runs[r].revision # job[j].revision
        /\ job[j].st # "absent"
        BY <1>2, <1>3, <1>5, Rows DEF RunsBehind, FenceInv, Fence, Active, RunRow
  <2> QED BY <1>1, <1>3, <1>4, <1>5, <2>1 DEF JobsMoveOn
<1>6. CASE runs'[r] # runs[r]
      BY <1>1, <1>3, <1>4, <1>6 DEF RunsMoveOn
<1> QED BY <1>5, <1>6

-----------------------------------------------------------------------------
(* Incidents and their alerts *)

Alert(t, j, n) == outbox[<<t, j, n>>].st # "absent"
AlertOK(j) ==
    /\ runtime[j].incident \in {0, runtime[j].incidents}
    /\ \A n \in 1..MaxIncidents :
          /\ Alert("error", j, n) <=> n <= runtime[j].incidents
          /\ Alert("recovery", j, n) <=> n <= runtime[j].incidents /\ n # runtime[j].incident

LEMMA AlertsOK == IncidentAlertedOnce <=> \A j \in Jobs : AlertOK(j)
BY DEF IncidentAlertedOnce, AlertOK, Alert

\* A step that opens and closes no incident and writes or deletes no alert of one.
IncidentKept(j) ==
    /\ runtime'[j].incident = runtime[j].incident
    /\ runtime'[j].incidents = runtime[j].incidents
AlertsKept(j) == \A t \in Transitions, n \in 1..MaxIncidents : Alert(t, j, n)' <=> Alert(t, j, n)

LEMMA AlertsFrame ==
    ASSUME NEW j \in Jobs, AlertOK(j), IncidentKept(j), AlertsKept(j)
    PROVE  AlertOK(j)'
<1>1. \A n \in 1..MaxIncidents : /\ Alert("error", j, n)' <=> Alert("error", j, n)
                                 /\ Alert("recovery", j, n)' <=> Alert("recovery", j, n)
      BY DEF AlertsKept, Transitions
<1> QED BY <1>1 DEF AlertOK, IncidentKept

LEMMA ControlAlerts ==
    ASSUME FenceInv, RowsOK(job, runtime, runs), Control, NEW k \in Jobs
    PROVE  IncidentKept(k) /\ AlertsKept(k)
<1>0. TypeOK /\ runtime \in [Jobs -> RuntimeRow] /\ outbox \in [OutboxIds -> Message]
      BY DEF FenceInv, TypeOK
<1>k. /\ UNCHANGED outbox => AlertsKept(k)
      /\ UNCHANGED runtime => IncidentKept(k)
      BY DEF AlertsKept, Alert, IncidentKept
<1>1. ASSUME NEW j \in Jobs, job[j].st = "absent", runtime' = [runtime EXCEPT ![j] = NoRuntime]
      PROVE  IncidentKept(k)
  <2>1. runtime[j].incident = 0 /\ runtime[j].incidents = 0  BY <1>1 DEF RowsOK, RowOK
  <2> QED BY <1>0, <1>1, <2>1 DEF IncidentKept, NoRuntime
<1>2. ASSUME NEW j \in Jobs, NEW s \in Schedules, Create(j, s) \/ SetSchedule(j, s)
      PROVE  IncidentKept(k) /\ AlertsKept(k)
      BY <1>1, <1>2, <1>k DEF Create, SetSchedule
<1>3. ASSUME NEW j \in Jobs, SeedDefaults(j) \/ Enable(j)
      PROVE  IncidentKept(k) /\ AlertsKept(k)
      BY <1>1, <1>3, <1>k DEF SeedDefaults, Enable
<1>4. ASSUME NEW j \in Jobs, Disable(j)  PROVE IncidentKept(k) /\ AlertsKept(k)
      BY <1>0, <1>4, <1>k DEF Disable, IncidentKept, RuntimeRow
<1>5. ASSUME NEW j \in Jobs, NEW r \in RunIds, EnqueueRun(j, r)
      PROVE  IncidentKept(k) /\ AlertsKept(k)
      BY <1>0, <1>5, <1>k DEF EnqueueRun, IncidentKept, RuntimeRow
<1>6. ASSUME NEW j \in Jobs, TestNotification(j)  PROVE IncidentKept(k) /\ AlertsKept(k)
  <2>1. IncidentKept(k)  BY <1>0, <1>6 DEF TestNotification, IncidentKept, RuntimeRow
  <2>2. PICK i : outbox' = [outbox EXCEPT ![<<"test", j, i>>] = NewMessage]
        BY <1>6 DEF TestNotification
  <2>3. ASSUME NEW t \in Transitions, NEW n \in 1..MaxIncidents
        PROVE  outbox'[<<t, k, n>>] = outbox[<<t, k, n>>]
        BY <1>0, <2>2 DEF Transitions
  <2> QED BY <2>1, <2>3 DEF AlertsKept, Alert
<1>7. ASSUME NEW j \in Jobs, Archive(j)  PROVE IncidentKept(k) /\ AlertsKept(k)
  <2>1. runtime' = [runtime EXCEPT ![j].actual = "archived", ![j].next = 0,
                                   ![j].applied = job[j].revision + 1]
        BY <1>7 DEF Archive
  <2>2. IncidentKept(k)  BY <1>0, <2>1 DEF IncidentKept, RuntimeRow
  <2>3. \A m \in OutboxIds :
           \/ outbox'[m] = outbox[m]
           \/ outbox[m].st \in {"queued", "failed"} /\ outbox'[m].st = "cancelled"
        BY <1>0, <1>7 DEF Archive, Cancellable, Message
  <2>4. ASSUME NEW t \in Transitions, NEW n \in 1..MaxIncidents
        PROVE  Alert(t, k, n)' <=> Alert(t, k, n)
    <3>1. <<t, k, n>> \in OutboxIds  BY DEF OutboxIds
    <3> QED BY <2>3, <3>1 DEF Alert
  <2> QED BY <2>2, <2>4 DEF AlertsKept
<1>8. ASSUME NEW j \in Jobs, NEW desired, NEW shown, NEW wake, ProjectRole(j, desired, shown, wake)
      PROVE  IncidentKept(k) /\ AlertsKept(k)
  <2>1. PICK n, v : runtime' = [runtime EXCEPT ![j].actual = shown, ![j].next = n, ![j].applied = v]
        BY <1>8 DEF ProjectRole
  <2>2. IncidentKept(k)  BY <1>0, <2>1 DEF IncidentKept, RuntimeRow
  <2> QED BY <1>8, <1>k, <2>2 DEF ProjectRole
<1>9. ASSUME NEW p, NEW reason, SetGlobalHold(p, reason)
      PROVE  IncidentKept(k) /\ AlertsKept(k)
      BY <1>9, <1>k DEF SetGlobalHold
<1> QED BY <1>2, <1>3, <1>4, <1>5, <1>6, <1>7, <1>8, <1>9 DEF Control

\* A reaped job without an incident opens the next one, with its alert.
LEMMA ReapAlerts ==
    ASSUME FenceInv, IncidentAlertedOnce, Reap, NEW j \in Jobs,
           runtime'[j].incident = ReapedRuntime[j].incident,
           runtime'[j].incidents = ReapedRuntime[j].incidents
    PROVE  AlertOK(j)'
<1>0. /\ TypeOK /\ runtime[j] \in RuntimeRow /\ AlertOK(j) /\ outbox \in [OutboxIds -> Message]
      BY Rows, AlertsOK DEF FenceInv, TypeOK
<1>1. outbox' = ReapedOutbox  BY DEF Reap
<1>2. \A t \in Transitions, n \in 1..MaxIncidents : <<t, j, n>> \in OutboxIds
      BY DEF OutboxIds
<1>3. CASE j \notin OpensIncident
  <2>1. runtime'[j].incident = runtime[j].incident /\ runtime'[j].incidents = runtime[j].incidents
        BY <1>0, <1>3 DEF OpensIncident, ReapedRuntime, RuntimeRow
  <2>2. ASSUME NEW t \in Transitions, NEW n \in 1..MaxIncidents
        PROVE  outbox'[<<t, j, n>>] = outbox[<<t, j, n>>]
        BY <1>1, <1>2, <1>3 DEF ReapedOutbox
  <2>3. IncidentKept(j) /\ AlertsKept(j)  BY <2>1, <2>2 DEF IncidentKept, AlertsKept, Alert
  <2> QED BY <1>0, <2>3, AlertsFrame
<1>4. CASE j \in OpensIncident
  <2>1. PICK i \in Nat : i = runtime[j].incidents  BY <1>0, ConstantsOK DEF RuntimeRow
  <2>2. runtime[j].incident = 0 /\ j \in Expired  BY <1>4 DEF OpensIncident
  <2>3. runtime'[j].incident = i + 1 /\ runtime'[j].incidents = i + 1
        BY <1>0, <2>1, <2>2 DEF ReapedRuntime, RuntimeRow
  <2>4. ASSUME NEW n \in 1..MaxIncidents
        PROVE  /\ Alert("error", j, n)' <=> n = i + 1 \/ Alert("error", j, n)
               /\ Alert("recovery", j, n)' <=> Alert("recovery", j, n)
    <3>1. <<"error", j, n>> \in OutboxIds /\ <<"recovery", j, n>> \in OutboxIds
          BY <1>2 DEF Transitions
    <3>2. NewMessage.st # "absent"  BY DEF NewMessage
    <3>3. outbox'[<<"error", j, n>>] = IF n = i + 1 THEN NewMessage ELSE outbox[<<"error", j, n>>]
          BY <1>1, <1>4, <2>1, <3>1 DEF ReapedOutbox
    <3>4. outbox'[<<"recovery", j, n>>] = outbox[<<"recovery", j, n>>]
          BY <1>1, <3>1 DEF ReapedOutbox
    <3> QED BY <3>2, <3>3, <3>4 DEF Alert
  <2>5. ASSUME NEW n \in 1..MaxIncidents
        PROVE  /\ Alert("error", j, n) <=> n <= i
               /\ Alert("recovery", j, n) <=> n <= i
        BY <1>0, <2>1, <2>2 DEF AlertOK
  <2>6. ASSUME NEW n \in 1..MaxIncidents
        PROVE  /\ Alert("error", j, n)' <=> n <= i + 1
               /\ Alert("recovery", j, n)' <=> n <= i + 1 /\ n # i + 1
    <3>1. n <= i + 1 <=> n = i + 1 \/ n <= i  BY <2>1
    <3>2. (n <= i + 1 /\ n # i + 1) <=> n <= i  BY <2>1
    <3> QED BY <2>4, <2>5, <3>1, <3>2
  <2> QED BY <2>3, <2>6 DEF AlertOK
<1> QED BY <1>3, <1>4

\* A run that ends opens an incident, closes one, or leaves it, with the alert.
LEMMA FinishAlerts ==
    ASSUME FenceInv, IncidentAlertedOnce, NEW r \in RunIds, NEW ok \in BOOLEAN, NEW delay,
           FinishRun(r, ok, delay), NEW k \in Jobs
    PROVE  AlertOK(k)'
<1>0. /\ TypeOK /\ runtime \in [Jobs -> RuntimeRow] /\ AlertOK(k)
      /\ outbox \in [OutboxIds -> Message]
      BY AlertsOK DEF FenceInv, TypeOK
<1>1. PICK j \in Jobs : j = runs[r].job  BY <1>0, Rows DEF RunRow
<1>2. PICK i \in Nat, is \in Nat : i = runtime[j].incident /\ is = runtime[j].incidents
      BY <1>0, ConstantsOK DEF RuntimeRow
<1>3. PICK n : n = IF ~ok /\ i = 0 THEN is + 1 ELSE i  OBVIOUS
<1>4. PICK a, x, v :
         /\ runtime' = [runtime EXCEPT ![j].actual = a, ![j].next = x,
                ![j].owner = NoOwner, ![j].until = 0, ![j].incident = IF ok THEN 0 ELSE n,
                ![j].incidents = IF ~ok /\ i = 0 THEN n ELSE @, ![j].applied = v]
         /\ outbox' = IF ~ok /\ i = 0 THEN [outbox EXCEPT ![<<"error", j, n>>] = NewMessage]
                      ELSE IF ok /\ i # 0 THEN [outbox EXCEPT ![<<"recovery", j, n>>] = NewMessage]
                      ELSE outbox
         /\ ~ok /\ i = 0 => n <= MaxIncidents
  <2>1. runtime[j].tests \in Nat /\ MaxIncidents \in Nat  BY <1>0, ConstantsOK DEF RuntimeRow
  <2>2. ~ok /\ i = 0 => n + runtime[j].tests <= MaxIncidents
        BY <1>1, <1>2, <1>3 DEF FinishRun
  <2>3. n \in Nat  BY <1>2, <1>3
  <2>4. ~ok /\ i = 0 => n <= MaxIncidents  BY <2>1, <2>2, <2>3
  <2>5. /\ outbox' = IF ~ok /\ i = 0 THEN [outbox EXCEPT ![<<"error", j, n>>] = NewMessage]
                     ELSE IF ok /\ i # 0 THEN [outbox EXCEPT ![<<"recovery", j, n>>] = NewMessage]
                     ELSE outbox
        BY <1>1, <1>2, <1>3, Zenon DEF FinishRun
  <2>6. runtime' = [runtime EXCEPT
           ![j].actual = IF ~ok THEN "error"
                         ELSE IF job[j].desired = "on" THEN "idle" ELSE "disabled",
           ![j].next = NextRun(j, delay),
           ![j].owner = NoOwner, ![j].until = 0,
           ![j].incident = IF ok THEN 0 ELSE n,
           ![j].incidents = IF ~ok /\ i = 0 THEN n ELSE @,
           ![j].applied = job[j].revision]
        BY <1>1, <1>2, <1>3, Zenon DEF FinishRun
  <2> QED BY <2>4, <2>5, <2>6
<1>5. /\ runtime'[j].incident = IF ok THEN 0 ELSE n
      /\ runtime'[j].incidents = IF ~ok /\ i = 0 THEN n ELSE is
      /\ \A q \in Jobs \ {j} : runtime'[q] = runtime[q]
      BY <1>0, <1>2, <1>4 DEF RuntimeRow
<1>6. \A t \in Transitions, q \in Jobs, m \in 1..MaxIncidents : <<t, q, m>> \in OutboxIds
      BY DEF OutboxIds
<1>7. NewMessage.st # "absent"  BY DEF NewMessage
<1>8. ASSUME NEW q \in Jobs, NEW m \in 1..MaxIncidents
      PROVE  /\ Alert("error", q, m)' <=>
                    Alert("error", q, m) \/ (~ok /\ i = 0 /\ q = j /\ m = n)
             /\ Alert("recovery", q, m)' <=>
                    Alert("recovery", q, m) \/ (ok /\ i # 0 /\ q = j /\ m = n)
  <2>1. <<"error", q, m>> \in OutboxIds /\ <<"recovery", q, m>> \in OutboxIds
        BY <1>6 DEF Transitions
  <2>2. CASE ~ok /\ i = 0  BY <1>0, <1>4, <1>7, <2>1, <2>2 DEF Alert
  <2>3. CASE ok /\ i # 0  BY <1>0, <1>4, <1>7, <2>1, <2>3 DEF Alert
  <2>4. CASE ok = (i = 0)  BY <1>4, <2>4 DEF Alert
  <2> QED BY <2>2, <2>3, <2>4
<1>9. CASE k # j
  <2>1. IncidentKept(k)  BY <1>5, <1>9 DEF IncidentKept
  <2>2. AlertsKept(k)  BY <1>8, <1>9 DEF AlertsKept, Transitions
  <2> QED BY <1>0, <2>1, <2>2, AlertsFrame
<1>10. CASE k = j
  <2>1. i \in {0, is}  BY <1>0, <1>2, <1>10 DEF AlertOK
  <2>2. ASSUME NEW m \in 1..MaxIncidents
        PROVE  /\ Alert("error", j, m) <=> m <= is
               /\ Alert("recovery", j, m) <=> m <= is /\ m # i
        BY <1>0, <1>2, <1>10 DEF AlertOK
  <2>3. CASE ~ok /\ i = 0
    <3>1. ASSUME NEW m \in 1..MaxIncidents
          PROVE  /\ Alert("error", j, m)' <=> m <= n
                 /\ Alert("recovery", j, m)' <=> m <= n /\ m # n
      <4>1. /\ m <= n <=> m <= is \/ m = n
            /\ (m <= n /\ m # n) <=> (m <= is /\ m # i)
            BY <1>2, <1>3, <2>3
      <4> QED BY <1>8, <2>2, <2>3, <4>1
    <3>2. runtime'[j].incident = n /\ runtime'[j].incidents = n  BY <1>5, <2>3
    <3> QED BY <1>10, <3>1, <3>2 DEF AlertOK
  <2>4. CASE ok /\ i # 0
    <3>1. ASSUME NEW m \in 1..MaxIncidents
          PROVE  /\ Alert("error", j, m)' <=> m <= is
                 /\ Alert("recovery", j, m)' <=> m <= is /\ m # 0
      <4>1. (m <= is /\ m # 0) <=> ((m <= is /\ m # i) \/ m = n)
            BY <1>2, <1>3, <2>1, <2>4
      <4> QED BY <1>8, <2>2, <2>4, <4>1
    <3>2. runtime'[j].incident = 0 /\ runtime'[j].incidents = is  BY <1>5, <2>4
    <3> QED BY <1>10, <3>1, <3>2 DEF AlertOK
  <2>5. CASE ok = (i = 0)
    <3>1. IncidentKept(j)  BY <1>2, <1>3, <1>5, <2>5 DEF IncidentKept
    <3>2. AlertsKept(j)  BY <1>8, <2>5 DEF AlertsKept, Transitions
    <3> QED BY <1>0, <1>10, <3>1, <3>2, AlertsFrame
  <2> QED BY <2>3, <2>4, <2>5
<1> QED BY <1>9, <1>10

LEMMA AlertsKeep ==
    ASSUME FenceInv, RowsOK(job, runtime, runs), IncidentAlertedOnce, [Next]_vars
    PROVE  IncidentAlertedOnce'
<1>0. /\ TypeOK /\ runtime \in [Jobs -> RuntimeRow]
      BY DEF FenceInv, TypeOK
<1> SUFFICES ASSUME NEW k \in Jobs PROVE AlertOK(k)'
    BY DEF IncidentAlertedOnce, AlertOK, Alert
<1>k. IncidentKept(k) /\ AlertsKept(k) => AlertOK(k)'
      BY AlertsFrame, AlertsOK
<1>1. ASSUME UNCHANGED outbox, IncidentKept(k)  PROVE AlertOK(k)'
      BY <1>1, <1>k DEF AlertsKept, Alert
<1>2. ASSUME UNCHANGED <<runtime, outbox>>  PROVE AlertOK(k)'
      BY <1>1, <1>2 DEF IncidentKept
<1>3. CASE Control  BY <1>3, <1>k, ControlAlerts
<1>4. CASE Scheduler
  <2>1. ASSUME NEW j \in Jobs, Reconcile(j)  PROVE AlertOK(k)'
    <3>1. IncidentKept(k)
      <4>1. CASE LeaseActive(j)
            BY <1>0, <2>1, <4>1 DEF Reconcile, IncidentKept, RuntimeRow
      <4>2. CASE ~LeaseActive(j)
        <5>1. PICK a, n, v : runtime' = [runtime EXCEPT ![j].actual = a, ![j].next = n,
                                                        ![j].applied = v]
              BY <2>1, <4>2 DEF Reconcile
        <5> QED BY <1>0, <5>1 DEF IncidentKept, RuntimeRow
      <4> QED BY <4>1, <4>2
    <3> QED BY <1>1, <2>1, <3>1 DEF Reconcile
  <2>2. ASSUME NEW o \in Owners, NEW r \in RunIds, ClaimQueued(o, r)  PROVE AlertOK(k)'
    <3>1. PICK j \in Jobs : j = runs[r].job  BY <1>0, Rows DEF RunRow
    <3>2. Reap /\ runtime' = [ReapedRuntime EXCEPT ![j] = Started(j, o)]
          BY <2>2, <3>1 DEF ClaimQueued
    <3>3. /\ runtime'[k].incident = ReapedRuntime[k].incident
          /\ runtime'[k].incidents = ReapedRuntime[k].incidents
          BY <1>0, <3>2, ReapTypes, StartedRow
    <3> QED BY <3>2, <3>3, ReapAlerts
  <2>3. ASSUME NEW o \in Owners, NEW j \in Jobs, NEW r \in RunIds, NEW D \in SUBSET Jobs,
               ClaimDue(o, j, r, D)
        PROVE  AlertOK(k)'
    <3>1. /\ Reap /\ runtime'[k] \in {Started(k, o), Deferred(D)[k]}
          BY <2>3 DEF ClaimDue, Deferred
    <3>2. /\ runtime'[k].incident = ReapedRuntime[k].incident
          /\ runtime'[k].incidents = ReapedRuntime[k].incidents
          BY <1>0, <3>1, StartedRow, DeferredRow
    <3> QED BY <3>1, <3>2, ReapAlerts
  <2>4. ASSUME ClaimNothing  PROVE AlertOK(k)'
    <3>1. Reap /\ runtime' = Deferred(Due) /\ Due \in SUBSET Jobs
          BY <2>4 DEF ClaimNothing, Due
    <3> QED BY <1>0, <3>1, DeferredRow, ReapAlerts
  <2>5. ASSUME NEW r \in RunIds, Heartbeat(r)  PROVE AlertOK(k)'
    <3>1. PICK j \in Jobs : j = runs[r].job  BY <1>0, Rows DEF RunRow
    <3>2. IncidentKept(k)  BY <1>0, <2>5, <3>1 DEF Heartbeat, IncidentKept, RuntimeRow
    <3> QED BY <1>1, <2>5, <3>2 DEF Heartbeat
  <2>6. ASSUME NEW r \in RunIds, CancelClaim(r)  PROVE AlertOK(k)'
    <3>1. PICK j \in Jobs : j = runs[r].job  BY <1>0, Rows DEF RunRow
    <3>2. PICK a, n, v : runtime' = [runtime EXCEPT ![j].actual = a, ![j].next = n,
                              ![j].owner = NoOwner, ![j].until = 0, ![j].applied = v]
          BY <2>6, <3>1 DEF CancelClaim
    <3>3. IncidentKept(k)  BY <1>0, <3>2 DEF IncidentKept, RuntimeRow
    <3> QED BY <1>1, <2>6, <3>3 DEF CancelClaim
  <2>7. ASSUME NEW r \in RunIds, NEW ok \in BOOLEAN,
               NEW delay \in Delays \cup {s.every : s \in Schedules}, FinishRun(r, ok, delay)
        PROVE  AlertOK(k)'
        BY <2>7, FinishAlerts
  <2> QED BY <1>4, <2>1, <2>2, <2>3, <2>4, <2>5, <2>6, <2>7 DEF Scheduler
<1> QED BY <1>2, <1>3, <1>4 DEF Next, Tick, vars

LEMMA StatusStart == Init => StatusInv
<1>0. Init => FenceInv  BY TypeInit, FenceInit DEF FenceInv
<1>1. Init => RowsOK(job, runtime, runs)  BY RowsStart
<1>2. Init => RunsBehind
      BY DEF Init, RunsBehind, NoRun
<1>3. Init => IncidentAlertedOnce
  <2> SUFFICES ASSUME Init, NEW j \in Jobs PROVE AlertOK(j)
      BY AlertsOK
  <2>1. runtime[j].incident = 0 /\ runtime[j].incidents = 0  BY DEF Init, NoRuntime
  <2>2. ASSUME NEW n \in 1..MaxIncidents
        PROVE  ~Alert("error", j, n) /\ ~Alert("recovery", j, n) /\ ~(n <= 0)
    <3>1. <<"error", j, n>> \in OutboxIds /\ <<"recovery", j, n>> \in OutboxIds
          BY DEF OutboxIds, Transitions
    <3> QED BY <3>1 DEF Init, NoMessage, Alert
  <2> QED BY <2>1, <2>2 DEF AlertOK
<1> QED BY <1>0, <1>1, <1>2, <1>3 DEF StatusInv

LEMMA StatusStep == StatusInv /\ [Next]_vars => StatusInv'
BY FenceStep, RowsKeep, BehindKeeps, AlertsKeep DEF StatusInv

(***************************************************************************)
(* Results                                                                 *)
(***************************************************************************)

\* Rows, runs and alerts of every job agree, in every state.
THEOREM StatusCorrect == Spec => []StatusInv
BY StatusStart, StatusStep, PTL DEF Spec

\* A job that is on and applied has a next run; one that is off has nothing scheduled and
\* nothing queued, in any order of commands, claims, expiries and late finishes
\* (set_enabled, reconcile, claim_next_run, finish_run, archive).
THEOREM ScheduleFollows == Spec => []ScheduleFollowsSwitch
<1>1. StatusInv => ScheduleFollowsSwitch
  <2> SUFFICES ASSUME StatusInv, NEW j \in Jobs
               PROVE  /\ Live(j) /\ job[j].desired = "on"
                             /\ runtime[j].applied = job[j].revision => runtime[j].next # 0
                      /\ job[j].st # "absent" /\ job[j].desired = "off"
                             => runtime[j].next = 0 /\ Queued(j) = {}
      BY DEF ScheduleFollowsSwitch
  <2>1. RowOK(job, runtime, runs, j)  BY DEF StatusInv, RowsOK
  <2>2. ~Waits(runs, j) => Queued(j) = {}  BY DEF Waits, Queued
  <2> QED BY <2>1, <2>2 DEF RowOK, Live
<1> QED BY <1>1, StatusCorrect, PTL

\* Each incident has one error alert, and one recovery alert exactly when it is closed
\* (claim_next_run, finish_run; archive resolves alerts but deletes none).
THEOREM IncidentsAlerted == Spec => []IncidentAlertedOnce
<1>1. StatusInv => IncidentAlertedOnce  BY DEF StatusInv
<1> QED BY <1>1, StatusCorrect, PTL

\* A job at rest shows "error" exactly while its incident is open.
THEOREM StatusIsTold == Spec => []StatusTellsIncident
<1>1. StatusInv => StatusTellsIncident
  <2> SUFFICES ASSUME StatusInv, NEW j \in Jobs, AtRest(j)
               PROVE  runtime[j].actual = "error" <=> runtime[j].incident # 0
      BY DEF StatusTellsIncident
  <2>1. RowOK(job, runtime, runs, j)  BY DEF StatusInv, RowsOK
  <2>2. ~Waits(runs, j)  BY DEF Waits, AtRest, Queued
  <2> QED BY <2>1, <2>2 DEF RowOK, AtRest, Live
<1> QED BY <1>1, StatusCorrect, PTL

\* A run that "off" has overtaken never passes the gate of run_claim_is_current again.
THEOREM OffRevokes == Spec => OffRevokesClaim
<1>1. StatusInv /\ [Next]_vars =>
         [\A r \in RunIds :
             runs[r].st = "running" /\ job[runs[r].job].desired = "off"
                => ~ClaimIsCurrent(r)']_vars
  <2> SUFFICES ASSUME StatusInv, [Next]_vars, NEW r \in RunIds,
                      runs[r].st = "running", job[runs[r].job].desired = "off",
                      ClaimIsCurrent(r)'
               PROVE  FALSE
      OBVIOUS
  <2>1. FenceInv /\ RunsBehind /\ JobsMoveOn /\ RunsMoveOn
        BY JobsAdvance, RunsAdvance DEF StatusInv
  <2>2. PICK j \in Jobs : j = runs[r].job  BY <2>1, Rows DEF FenceInv, RunRow
  <2>3. /\ runs'[r] = runs[r]
        /\ job'[j].revision = runs[r].revision
    <3>1. runs'[r].st = "running" /\ job'[runs'[r].job].revision = runs'[r].revision
          BY DEF ClaimIsCurrent
    <3> QED BY <2>1, <2>2, <3>1 DEF RunsMoveOn
  <2>4. /\ job[j].st # "absent" /\ runs[r].revision \in Nat
        /\ job[j].revision \in Nat /\ job'[j].revision \in Nat
        BY <2>1, <2>2, Rows, TypeStep DEF FenceInv, Fence, Active, TypeOK, JobRow, RunRow
  <2>5. runs[r].revision <= job[j].revision /\ runs[r].revision # job[j].revision
        BY <2>1, <2>2 DEF RunsBehind
  <2> QED BY <2>1, <2>3, <2>4, <2>5 DEF JobsMoveOn
<1> QED BY <1>1, StatusCorrect, PTL DEF Spec, OffRevokesClaim

-----------------------------------------------------------------------------
(* Deliveries to the owner *)

\* Nothing of this notification ever got past the bridge.
Clean(m) == \A q \in requests : q.key = m => q.stage = "stale"

(* The inductive invariant, in parts. *)

\* What can still put a message into the chat.
OnItsWay == {"requested", "sending", "adrift"}

\* An attempt asks once, one request of a notification was not refused, and while it
\* is on its way nothing has arrived.
Identity == \A p, q \in requests : p.key = q.key /\ p.token = q.token => p = q
OneLive == \A p, q \in requests :
              p.key = q.key /\ p.stage # "stale" /\ q.stage # "stale" => p = q
Unarrived == \A q \in requests : q.stage \in OnItsWay => chat[q.key] = 0
Proven == \A q \in requests : q.stage = "ok" => chat[q.key] = 1
Unheard == \A m \in OutboxIds : Clean(m) => chat[m] = 0 /\ ledger[m] = "none"

BridgeInv ==
    /\ Bridge!BridgeTypeOK /\ Identity /\ OneLive /\ Unarrived /\ Proven /\ Unheard
    /\ \A m \in OutboxIds : chat[m] <= 1

\* Tests are numbered without gaps, from their first.
TestOK(j) ==
    /\ job[j].st = "absent" => runtime[j].tests = 0
    /\ \A n \in 1..MaxIncidents : outbox[<<"test", j, n>>].st # "absent" <=> n <= runtime[j].tests
TestsCounted == \A j \in Jobs : TestOK(j)

\* What a row says of its notification; a payload that cannot be rendered never left,
\* and nothing of an archived job is out.
RowTrue(m) ==
    /\ outbox[m].st \in {"absent", "queued", "failed", "cancelled"} => Clean(m)
    /\ outbox[m].st = "sent" => chat[m] = 1
    /\ ~Renderable(m) => Clean(m)
    /\ job[m[2]].st = "archived" => outbox[m].st # "sending" /\ ~Bridge!MayStillArrive(m)
RowsTrue == \A m \in OutboxIds : RowTrue(m)

\* A delivery in hand is that of a row which shows it.  A new one has not left before
\* "applying", and then under its own fence; an abandoned one never leaves again.
InHand == {"claimed", "previewed", "applying"}
HandOK(o) == delivery[o].step \in InHand =>
    LET m == delivery[o].m IN
    /\ outbox[m].st = "sending" /\ outbox[m].token = delivery[o].token
    /\ delivery[o].step = "claimed" \/ (~delivery[o].recovery /\ Renderable(m))
    /\ delivery[o].step # "applying" /\ ~delivery[o].recovery => Clean(m)
    /\ delivery[o].step = "applying" =>
          \A q \in requests : q.key = m /\ q.stage # "stale" => q.token = delivery[o].token
HandsOK == \A o \in Owners : HandOK(o)

Hand == [step : Steps, m : OutboxIds, token : Nat, revision : Nat, recovery : BOOLEAN]
OneUp == delivery \in [Owners -> Hand] /\ \A o, x \in Owners : Up(o) /\ Up(x) => o = x

OutboxInv == StatusInv /\ BridgeInv /\ TestsCounted /\ OneUp /\ RowsTrue /\ HandsOK

-----------------------------------------------------------------------------
(* Steps of the bridge *)

Moved(q, stage) == [q EXCEPT !.stage = stage]
BridgeRequest == [key : OutboxIds, token : Nat, stage : Bridge!Stages]

\* What a step of the bridge may do to the notifications.
BridgeMoves ==
    /\ \A m \in OutboxIds : Clean(m) => Clean(m)'
    /\ \A m \in OutboxIds : chat[m] = 1 => chat'[m] = 1
    /\ \A m \in OutboxIds : chat'[m] # chat[m] => Bridge!MayStillArrive(m)
    /\ \A r \in requests' : \E q \in requests :
          /\ r.key = q.key /\ r.token = q.token /\ (q.stage = "stale" => r.stage = "stale")
          /\ r.stage \in OnItsWay => q.stage \in OnItsWay

\* A request that goes one step on.
LEMMA Advanced ==
    ASSUME BridgeInv, NEW q \in requests, NEW s \in Bridge!Stages, Bridge!Advance(q, s),
           q.stage # "stale", s \in OnItsWay => q.stage \in OnItsWay,
           ledger' \in [OutboxIds -> Bridge!LedgerStates],
           \A m \in OutboxIds : m # q.key => ledger'[m] = ledger[m],
           s = "stale" => q.stage = "requested" /\ ledger'[q.key] = "none",
           \/ chat' = chat /\ (s = "ok" => chat[q.key] = 1)
           \/ /\ q.stage \in {"sending", "adrift"} /\ s \in {"sent", "lost"}
              /\ chat' = [chat EXCEPT ![q.key] = @ + 1]
    PROVE  BridgeInv' /\ BridgeMoves
<1> DEFINE n == Moved(q, s)
<1>1. /\ requests' = (requests \ {q}) \cup {n} /\ q \in BridgeRequest
      /\ n \in BridgeRequest /\ n.key = q.key /\ n.token = q.token /\ n.stage = s
  BY DEF BridgeInv, Bridge!BridgeTypeOK, Bridge!Advance, Moved, BridgeRequest
<1> HIDE DEF n
<1>2. chat' \in [OutboxIds -> Nat]
  BY <1>1 DEF BridgeInv, Bridge!BridgeTypeOK, BridgeRequest
<1>3. Bridge!BridgeTypeOK'
  BY <1>1, <1>2 DEF BridgeInv, Bridge!BridgeTypeOK, BridgeRequest
<1>4. \A r \in requests' : r = n \/ (r \in requests /\ r # q)
  BY <1>1
<1>5. Identity'
  BY <1>1, <1>4 DEF BridgeInv, Identity
<1>6. OneLive'
  BY <1>1, <1>4 DEF BridgeInv, OneLive
<1>7. \A m \in OutboxIds : chat'[m] = chat[m] \/ (m = q.key /\ chat[m] = 0 /\ chat'[m] = 1)
  <2>1. CASE chat' = chat
    BY <2>1
  <2>2. CASE /\ q.stage \in {"sending", "adrift"} /\ s \in {"sent", "lost"}
             /\ chat' = [chat EXCEPT ![q.key] = @ + 1]
    <3>1. chat[q.key] = 0 /\ chat \in [OutboxIds -> Nat] /\ q.key \in OutboxIds
      BY <1>1, <2>2 DEF BridgeInv, Unarrived, OnItsWay, Bridge!BridgeTypeOK, BridgeRequest
    <3> QED
      BY <2>2, <3>1
  <2> QED
    BY <2>1, <2>2
<1>8. q.key \in OutboxIds /\ \A r \in requests : r.key \in OutboxIds
  BY <1>1 DEF BridgeInv, Bridge!BridgeTypeOK, BridgeRequest
<1>9. Unarrived'
  <2> SUFFICES ASSUME NEW r \in requests', r.stage \in OnItsWay PROVE chat'[r.key] = 0
    BY DEF Unarrived
  <2>1. CASE r = n
    <3>1. chat[q.key] = 0
      BY <1>1, <2>1 DEF BridgeInv, Unarrived
    <3>2. chat' = chat
      BY <1>1, <2>1 DEF OnItsWay
    <3> QED
      BY <1>1, <2>1, <3>1, <3>2
  <2>2. CASE r # n
    <3>1. r \in requests /\ r # q /\ r.stage # "stale"
      BY <1>4, <2>2 DEF OnItsWay
    <3>2. chat[r.key] = 0 /\ r.key # q.key
      BY <3>1 DEF BridgeInv, Unarrived, OneLive
    <3> QED
      BY <1>7, <1>8, <3>1, <3>2
  <2> QED
    BY <2>1, <2>2
<1>10. Proven'
  <2> SUFFICES ASSUME NEW r \in requests', r.stage = "ok" PROVE chat'[r.key] = 1
    BY DEF Proven
  <2>1. CASE r = n
    BY <1>1, <2>1
  <2>2. CASE r # n
    <3>1. r \in requests /\ chat[r.key] = 1
      BY <1>4, <2>2 DEF BridgeInv, Proven
    <3> QED
      BY <1>7, <1>8, <3>1
  <2> QED
    BY <2>1, <2>2
<1>11. \A m \in OutboxIds : chat'[m] <= 1
  BY <1>7 DEF BridgeInv
<1>12. \A m \in OutboxIds : Clean(m) => Clean(m)'
  <2> SUFFICES ASSUME NEW m \in OutboxIds, Clean(m) PROVE Clean(m)'
    OBVIOUS
  <2>1. m # q.key
    BY DEF Clean
  <2> QED
    BY <1>1, <1>4, <2>1 DEF Clean
<1>u. Unheard'
  <2> SUFFICES ASSUME NEW m \in OutboxIds, Clean(m)' PROVE chat'[m] = 0 /\ ledger'[m] = "none"
    BY DEF Unheard
  <2>1. CASE m = q.key
    <3>1. s = "stale"
      BY <1>1, <2>1 DEF Clean
    <3>2. chat[m] = 0 /\ chat' = chat
      BY <2>1, <3>1 DEF BridgeInv, Unarrived, OnItsWay
    <3> QED
      BY <2>1, <3>1, <3>2
  <2>2. CASE m # q.key
    <3>1. Clean(m)
      BY <1>1, <2>2 DEF Clean
    <3> QED
      BY <1>7, <2>2, <3>1 DEF BridgeInv, Unheard
  <2> QED
    BY <2>1, <2>2
<1>13. \A m \in OutboxIds : chat'[m] # chat[m] => Bridge!MayStillArrive(m)
  BY <1>7 DEF Bridge!MayStillArrive
<1>14. \A r \in requests' : \E p \in requests :
          /\ r.key = p.key /\ r.token = p.token /\ (p.stage = "stale" => r.stage = "stale")
          /\ r.stage \in OnItsWay => p.stage \in OnItsWay
  BY <1>1, <1>4
<1>15. BridgeInv'
  BY <1>3, <1>5, <1>6, <1>9, <1>10, <1>11, <1>u DEF BridgeInv
<1>16. \A m \in OutboxIds : chat[m] = 1 => chat'[m] = 1
  BY <1>7
<1> QED
  BY <1>12, <1>13, <1>14, <1>15, <1>16 DEF BridgeMoves

LEMMA BridgeSteps ==
    ASSUME BridgeInv, NEW q \in requests, Bridge!Step(q)
    PROVE  BridgeInv' /\ BridgeMoves
<1>1. /\ q \in BridgeRequest /\ ledger \in [OutboxIds -> Bridge!LedgerStates] /\ chat \in [OutboxIds -> Nat]
  BY DEF BridgeInv, Bridge!BridgeTypeOK, BridgeRequest
<1>2. q.key \in OutboxIds /\ chat[q.key] \in Nat /\ chat[q.key] <= 1
  BY <1>1 DEF BridgeRequest, BridgeInv
<1> USE DEF OnItsWay
<1>3. CASE Bridge!Intent(q)
  BY <1>1, <1>2, <1>3, Advanced DEF Bridge!Intent, Bridge!Stages, Bridge!LedgerStates
<1>4. CASE Bridge!Stale(q)
  BY <1>1, <1>2, <1>4, Advanced DEF Bridge!Stale, Bridge!Stages
<1>5. CASE Bridge!Replay(q)
  BY <1>1, <1>2, <1>5, Advanced DEF Bridge!Replay, Bridge!Stages
<1>6. CASE Bridge!Send(q)
  BY <1>1, <1>2, <1>6, Advanced DEF Bridge!Send, Bridge!Stages
<1>7. CASE Bridge!Record(q)
  BY <1>1, <1>2, <1>7, Advanced DEF Bridge!Record, Bridge!Stages, Bridge!LedgerStates
<1>8. CASE Bridge!Verify(q)
  <2>1. chat[q.key] = 1
    BY <1>2, <1>8 DEF Bridge!Verify, Bridge!ReadbackVerifies
  <2> QED
    BY <1>1, <1>2, <1>8, <2>1, Advanced
    DEF Bridge!Verify, Bridge!MarkVerified, Bridge!Stages, Bridge!LedgerStates
<1>9. CASE Bridge!Drop(q)
  BY <1>1, <1>2, <1>9, Advanced DEF Bridge!Drop, Bridge!Stages, Bridge!InLane
<1>10. CASE Bridge!Arrive(q)
  BY <1>1, <1>2, <1>10, Advanced DEF Bridge!Arrive, Bridge!Stages
<1> QED
  BY <1>3, <1>4, <1>5, <1>6, <1>7, <1>8, <1>9, <1>10 DEF Bridge!Step

\* A look at a notification notes what the look has shown.
LEMMA LookupStep ==
    ASSUME BridgeInv, NEW m \in OutboxIds, Bridge!Lookup(m)
    PROVE  BridgeInv' /\ BridgeMoves /\ requests' = requests /\ chat' = chat /\ chat[m] = 1
<1>1. /\ requests' = requests /\ chat' = chat
      /\ ledger' = [ledger EXCEPT ![m] = "verified"] /\ chat[m] > 0
  BY DEF Bridge!Lookup, Bridge!MarkVerified, Bridge!LookupVerifies, Bridge!ReadbackVerifies
<1>2. Bridge!BridgeTypeOK'
  BY <1>1 DEF BridgeInv, Bridge!BridgeTypeOK, Bridge!LedgerStates
<1>3. chat[m] = 1
  BY <1>1 DEF BridgeInv, Bridge!BridgeTypeOK
<1>5. \A k \in OutboxIds : Clean(k) <=> Clean(k)'
  BY <1>1 DEF Clean
<1>u. Unheard'
  BY <1>1, <1>3, <1>5 DEF BridgeInv, Unheard, Bridge!BridgeTypeOK
<1>4. BridgeInv'
  BY <1>1, <1>2, <1>u DEF BridgeInv, Identity, OneLive, Unarrived, Proven
<1>6. BridgeMoves
  BY <1>1, <1>5 DEF BridgeMoves
<1> QED
  BY <1>1, <1>3, <1>4, <1>6

\* A notification of which nothing is known may be asked for.
LEMMA RequestStep ==
    ASSUME BridgeInv, NEW m \in OutboxIds, Clean(m), NEW t \in Nat, Bridge!Request(m, t)
    PROVE  /\ BridgeInv' /\ chat' = chat
           /\ \A k \in OutboxIds \ {m} : Clean(k) => Clean(k)'
           /\ \A r \in requests' : r \in requests \/ (r.key = m /\ r.token = t)
<1> DEFINE n == [key |-> m, token |-> t, stage |-> "requested"]
<1>1. /\ requests' = requests \cup {n} /\ ledger' = ledger /\ chat' = chat
      /\ \A q \in requests : q.key # m \/ q.token # t
      /\ n \in BridgeRequest /\ n.key = m /\ n.token = t /\ n.stage = "requested"
  BY DEF Bridge!Request, BridgeRequest, Bridge!Stages
<1> HIDE DEF n
<1>2. Bridge!BridgeTypeOK'
  BY <1>1 DEF BridgeInv, Bridge!BridgeTypeOK, BridgeRequest
<1>3. Identity'
  BY <1>1 DEF BridgeInv, Identity
<1>4. OneLive'
  BY <1>1 DEF BridgeInv, OneLive, Clean
<1>5. Unarrived' /\ Proven'
  BY <1>1 DEF BridgeInv, Unarrived, Proven, Unheard
<1>6. \A k \in OutboxIds : chat'[k] <= 1
  BY <1>1 DEF BridgeInv
<1>7. \A k \in OutboxIds \ {m} : Clean(k) <=> Clean(k)'
  BY <1>1 DEF Clean
<1>8. Unheard'
  BY <1>1, <1>7 DEF BridgeInv, Unheard, Clean
<1> QED
  BY <1>1, <1>2, <1>3, <1>4, <1>5, <1>6, <1>7, <1>8 DEF BridgeInv

-----------------------------------------------------------------------------
(* Transactions of the store *)

\* What they may do to the rows: write one that was not there, cancel one that is not
\* being sent, and archive a job when none of its rows is.
RowMoves(m) ==
    \/ outbox'[m] = outbox[m]
    \/ outbox[m].st = "absent" /\ outbox'[m].st = "queued"
    \/ outbox[m].st \in {"queued", "failed"} /\ outbox'[m].st = "cancelled"
StoreMoves ==
    /\ \A m \in OutboxIds : RowMoves(m)
    /\ \A m \in OutboxIds : job'[m[2]].st = "archived" =>
          job[m[2]].st = "archived" \/ outbox[m].st # "sending"
    /\ TestsCounted'

LEMMA OutboxId ==
    ASSUME NEW m \in OutboxIds
    PROVE  /\ m = <<m[1], m[2], m[3]>> /\ m[1] \in Transitions \cup {"test"}
           /\ m[2] \in Jobs /\ m[3] \in 1..MaxIncidents
BY DEF OutboxIds

\* A step that writes at most alerts of incidents leaves the tests.
LEMMA TestsStay ==
    ASSUME TestsCounted,
           \A j \in Jobs : /\ runtime'[j].tests = runtime[j].tests
                           /\ job'[j].st = "absent" => job[j].st = "absent",
           \A m \in OutboxIds : m[1] = "test" => (outbox'[m].st # "absent" <=> outbox[m].st # "absent")
    PROVE  TestsCounted'
<1> SUFFICES ASSUME NEW j \in Jobs PROVE TestOK(j)'
  BY DEF TestsCounted
<1>1. TestOK(j)
  BY DEF TestsCounted
<1>2. \A n \in 1..MaxIncidents : /\ <<"test", j, n>> \in OutboxIds
                                 /\ <<"test", j, n>>[1] = "test"
  BY DEF OutboxIds
<1>3. \A n \in 1..MaxIncidents :
         outbox'[<<"test", j, n>>].st # "absent" <=> outbox[<<"test", j, n>>].st # "absent"
  BY <1>2
<1> QED
  BY <1>1, <1>3 DEF TestOK

LEMMA ControlMoves ==
    ASSUME StatusInv, TestsCounted, Control
    PROVE  StoreMoves
<1>0. /\ TypeOK /\ runtime \in [Jobs -> RuntimeRow] /\ job \in [Jobs -> JobRow]
      /\ outbox \in [OutboxIds -> Message]
  BY DEF StatusInv, FenceInv, TypeOK
<1>t. \A j \in Jobs : TestOK(j)
  BY DEF TestsCounted
\* a command that leaves the outbox and the number of the tests
<1>1. ASSUME UNCHANGED outbox,
             \A j \in Jobs : /\ runtime'[j].tests = runtime[j].tests
                             /\ job'[j].st = "absent" => job[j].st = "absent"
                             /\ job'[j].st = "archived" => job[j].st = "archived"
      PROVE  StoreMoves
  BY <1>1, TestsStay, OutboxId DEF StoreMoves, RowMoves
<1>2. ASSUME NEW j \in Jobs, job[j].st = "absent", NEW row, row.st = "live",
             job' = [job EXCEPT ![j] = row], runtime' = [runtime EXCEPT ![j] = NoRuntime],
             UNCHANGED outbox
      PROVE  StoreMoves
  <2>1. \A k \in Jobs : runtime'[k].tests = runtime[k].tests
    BY <1>0, <1>2, <1>t DEF TestOK, NoRuntime
  <2> QED
    BY <1>0, <1>1, <1>2, <2>1
<1>3. ASSUME NEW j \in Jobs, NEW s \in Schedules, Create(j, s) PROVE StoreMoves
  <2>1. [NoJob EXCEPT !.st = "live", !.sched = s, !.updated = now].st = "live"
    BY DEF NoJob
  <2> QED
    BY <1>2, <1>3, <2>1 DEF Create
<1>4. ASSUME NEW j \in Jobs, SeedDefaults(j) PROVE StoreMoves
  <2>1. [NoJob EXCEPT !.st = "live", !.updated = now].st = "live"
    BY DEF NoJob
  <2> QED
    BY <1>2, <1>4, <2>1 DEF SeedDefaults
<1>5. ASSUME NEW j \in Jobs, NEW s \in Schedules, SetSchedule(j, s) PROVE StoreMoves
  BY <1>0, <1>1, <1>5 DEF SetSchedule, JobRow
<1>6. ASSUME NEW j \in Jobs, Enable(j) PROVE StoreMoves
  BY <1>0, <1>1, <1>6 DEF Enable, JobRow
<1>7. ASSUME NEW j \in Jobs, Disable(j) PROVE StoreMoves
  BY <1>0, <1>1, <1>7 DEF Disable, JobRow, RuntimeRow
<1>8. ASSUME NEW j \in Jobs, NEW r \in RunIds, EnqueueRun(j, r) PROVE StoreMoves
  BY <1>0, <1>1, <1>8 DEF EnqueueRun, RuntimeRow
<1>9. ASSUME NEW j \in Jobs, TestNotification(j) PROVE StoreMoves
  <2>1. PICK i \in Nat : i = runtime[j].tests
    BY <1>0, ConstantsOK DEF RuntimeRow
  <2>2. /\ outbox' = [outbox EXCEPT ![<<"test", j, i + 1>>] = NewMessage] /\ job' = job
        /\ runtime' = [runtime EXCEPT ![j].tests = @ + 1]
    BY <1>9, <2>1 DEF TestNotification
  <2>3. i < MaxIncidents
    <3>1. i < MaxTests
      BY <1>9, <2>1 DEF TestNotification
    <3>2. MaxTests \in 0..MaxIncidents /\ MaxIncidents \in Nat
      BY ConstantsOK
    <3> QED
      BY <2>1, <3>1, <3>2
  <2>4. i + 1 \in 1..MaxIncidents /\ <<"test", j, i + 1>> \in OutboxIds
    BY <2>1, <2>3, ConstantsOK DEF OutboxIds
  <2>5. outbox[<<"test", j, i + 1>>].st = "absent"
    BY <1>t, <2>1, <2>4 DEF TestOK
  <2>6. NewMessage.st = "queued"
    BY DEF NewMessage
  <2>7. \A m \in OutboxIds : RowMoves(m)
    BY <1>0, <2>2, <2>4, <2>5, <2>6 DEF RowMoves
  <2>8. TestsCounted'
    <3> SUFFICES ASSUME NEW k \in Jobs PROVE TestOK(k)'
      BY DEF TestsCounted
    <3>1. CASE k # j
      <4>1. \A n \in 1..MaxIncidents : /\ <<"test", k, n>> \in OutboxIds
                                       /\ <<"test", k, n>> # <<"test", j, i + 1>>
        BY <3>1 DEF OutboxIds
      <4>2. \A n \in 1..MaxIncidents : outbox'[<<"test", k, n>>] = outbox[<<"test", k, n>>]
        BY <1>0, <2>2, <4>1
      <4> QED
        BY <1>0, <1>t, <2>2, <3>1, <4>2 DEF TestOK
    <3>2. CASE k = j
      <4>1. \A n \in 1..MaxIncidents :
               /\ <<"test", j, n>> \in OutboxIds
               /\ outbox'[<<"test", j, n>>] =
                     IF n = i + 1 THEN NewMessage ELSE outbox[<<"test", j, n>>]
        BY <1>0, <2>2, <2>4 DEF OutboxIds
      <4>2. \A n \in 1..MaxIncidents : outbox[<<"test", j, n>>].st # "absent" <=> n <= i
        BY <1>t, <2>1 DEF TestOK
      <4>3. \A n \in 1..MaxIncidents : n <= i + 1 <=> n <= i \/ n = i + 1
        BY <2>1
      <4>4. \A n \in 1..MaxIncidents : outbox'[<<"test", j, n>>].st # "absent" <=> n <= i + 1
        BY <2>6, <4>1, <4>2, <4>3
      <4>5. runtime'[j].tests = i + 1
        BY <1>0, <2>1, <2>2 DEF RuntimeRow
      <4>6. job'[j].st # "absent"
        BY <1>9, <2>2 DEF TestNotification, Live
      <4> QED
        BY <3>2, <4>4, <4>5, <4>6 DEF TestOK
    <3> QED
      BY <3>1, <3>2
  <2> QED
    BY <2>2, <2>7, <2>8 DEF StoreMoves
<1>10. ASSUME NEW j \in Jobs, Archive(j) PROVE StoreMoves
  <2>1. \A m \in OutboxIds : /\ RowMoves(m)
                             /\ m[1] = "test" => outbox'[m] = outbox[m]
    BY <1>0, <1>10 DEF Archive, Cancellable, Message, RowMoves, Transitions
  <2>2. \A m \in OutboxIds : m[2] = j => outbox[m].st # "sending"
    BY <1>10 DEF Archive, Cancellable, Pending
  <2>3. /\ \A k \in Jobs : runtime'[k].tests = runtime[k].tests
        /\ \A k \in Jobs \ {j} : job'[k] = job[k]
        /\ job'[j].st = "archived"
    <3>1. /\ runtime' = [runtime EXCEPT ![j].actual = "archived", ![j].next = 0,
                                        ![j].applied = job[j].revision + 1]
          /\ job' = [job EXCEPT ![j].st = "archived", ![j].revision = @ + 1, ![j].updated = now]
      BY <1>10 DEF Archive
    <3>2. \A k \in Jobs : runtime'[k].tests = runtime[k].tests
      BY <1>0, <3>1 DEF RuntimeRow
    <3> QED
      BY <1>0, <3>1, <3>2 DEF JobRow
  <2>4. TestsCounted'
    BY <2>1, <2>3, TestsStay
  <2>5. \A m \in OutboxIds : job'[m[2]].st = "archived" =>
          job[m[2]].st = "archived" \/ outbox[m].st # "sending"
    BY <2>2, <2>3, OutboxId
  <2> QED
    BY <2>1, <2>4, <2>5 DEF StoreMoves
<1>11. ASSUME NEW j \in Jobs, NEW desired, NEW shown, NEW wake, ProjectRole(j, desired, shown, wake)
       PROVE  StoreMoves
  <2>1. PICK n, v : runtime' = [runtime EXCEPT ![j].actual = shown, ![j].next = n, ![j].applied = v]
    BY <1>11 DEF ProjectRole
  <2>2. \A k \in Jobs : runtime'[k].tests = runtime[k].tests
    BY <1>0, <2>1 DEF RuntimeRow
  <2>3. \A k \in Jobs \ {j} : job'[k] = job[k]
    BY <1>0, <1>11 DEF ProjectRole
  <2>4. job'[j].st = "live"
    <3>1. CASE Live(j)
      BY <1>0, <1>11, <3>1 DEF ProjectRole, Live, JobRow
    <3>2. CASE ~Live(j)
      BY <1>0, <1>11, <3>2 DEF ProjectRole, Live, NoJob
    <3> QED
      BY <3>1, <3>2
  <2> QED
    BY <1>1, <1>11, <2>2, <2>3, <2>4 DEF ProjectRole
<1>12. ASSUME NEW p, NEW reason, SetGlobalHold(p, reason) PROVE StoreMoves
  BY <1>1, <1>12 DEF SetGlobalHold
<1> QED
  BY <1>3, <1>4, <1>5, <1>6, <1>7, <1>8, <1>9, <1>10, <1>11, <1>12 DEF Control

LEMMA ReapMoves ==
    ASSUME StatusInv, TestsCounted, Reap,
           \A j \in Jobs : runtime'[j].tests = ReapedRuntime[j].tests
    PROVE  StoreMoves
<1>0. /\ TypeOK /\ runtime \in [Jobs -> RuntimeRow] /\ outbox \in [OutboxIds -> Message]
      /\ \A j \in Jobs : AlertOK(j)
  BY AlertsOK DEF StatusInv, FenceInv, TypeOK
<1>1. \A j \in Jobs : runtime'[j].tests = runtime[j].tests
  BY <1>0 DEF ReapedRuntime, RuntimeRow
<1>2. job' = job /\ outbox' = ReapedOutbox
  BY DEF Reap
<1>3. ASSUME NEW m \in OutboxIds
      PROVE  RowMoves(m) /\ (m[1] = "test" => outbox'[m] = outbox[m])
  <2>1. CASE m[1] = "error" /\ m[2] \in OpensIncident /\ m[3] = runtime[m[2]].incidents + 1
    <3>1. PICK j \in Jobs, n \in 1..MaxIncidents : m = <<"error", j, n>> /\ j = m[2] /\ n = m[3]
      BY <2>1, OutboxId
    <3>2. n = runtime[j].incidents + 1 /\ runtime[j].incidents \in Nat
      BY <1>0, <2>1, <3>1, ConstantsOK DEF RuntimeRow
    <3>3. ~Alert("error", j, n)
      BY <1>0, <3>2 DEF AlertOK
    <3>4. outbox'[m] = NewMessage /\ outbox[m].st = "absent"
      BY <1>2, <2>1, <3>1, <3>3 DEF ReapedOutbox, Alert
    <3> QED
      BY <2>1, <3>4 DEF RowMoves, NewMessage
  <2>2. CASE ~(m[1] = "error" /\ m[2] \in OpensIncident /\ m[3] = runtime[m[2]].incidents + 1)
    BY <1>2, <2>2 DEF ReapedOutbox, RowMoves
  <2> QED
    BY <2>1, <2>2
<1>4. TestsCounted'
  BY <1>1, <1>2, <1>3, TestsStay
<1> QED
  BY <1>2, <1>3, <1>4 DEF StoreMoves

\* What of the row of a job that starts, or is put off, is not of the tests.
LEMMA ReapedTests ==
    ASSUME TypeOK, Reap, NEW j \in Jobs
    PROVE  /\ \A o \in Owners : Started(j, o).tests = ReapedRuntime[j].tests
           /\ \A D \in SUBSET Jobs : Deferred(D)[j].tests = ReapedRuntime[j].tests
<1>1. ReapedRuntime[j] \in RuntimeRow
  BY ReapTypes
<1> QED
  BY <1>1 DEF Started, Deferred, RuntimeRow

LEMMA FinishMoves ==
    ASSUME StatusInv, TestsCounted, NEW r \in RunIds, NEW ok \in BOOLEAN, NEW delay,
           FinishRun(r, ok, delay)
    PROVE  StoreMoves
<1>0. /\ TypeOK /\ runtime \in [Jobs -> RuntimeRow] /\ outbox \in [OutboxIds -> Message]
      /\ \A j \in Jobs : AlertOK(j)
  BY AlertsOK DEF StatusInv, FenceInv, TypeOK
<1>1. PICK j \in Jobs : j = runs[r].job
  BY <1>0, Rows DEF RunRow
<1>2. PICK i \in 0..MaxIncidents, is \in 0..MaxIncidents :
         i = runtime[j].incident /\ is = runtime[j].incidents
  BY <1>0, ConstantsOK DEF RuntimeRow
<1>m. MaxIncidents \in Nat
  BY ConstantsOK
<1>3. /\ job' = job
      /\ \/ UNCHANGED outbox
         \/ is + 1 <= MaxIncidents /\ outbox' = [outbox EXCEPT ![<<"error", j, is + 1>>] = NewMessage]
         \/ i # 0 /\ outbox' = [outbox EXCEPT ![<<"recovery", j, i>>] = NewMessage]
  <2>1. runtime[j].tests \in Nat
    BY <1>0, ConstantsOK DEF RuntimeRow
  <2>2. ~ok /\ i = 0 => is + 1 <= MaxIncidents
    <3>1. ~ok /\ i = 0 => (is + 1) + runtime[j].tests <= MaxIncidents
      BY <1>1, <1>2 DEF FinishRun
    <3> QED
      BY <1>2, <1>m, <2>1, <3>1
  <2>3. outbox' = IF ~ok /\ i = 0 THEN [outbox EXCEPT ![<<"error", j, is + 1>>] = NewMessage]
                  ELSE IF ok /\ i # 0 THEN [outbox EXCEPT ![<<"recovery", j, i>>] = NewMessage]
                  ELSE outbox
    BY <1>1, <1>2, Zenon DEF FinishRun
  <2>4. job' = job
    BY DEF FinishRun
  <2> QED
    BY <2>2, <2>3, <2>4
<1>4. \A k \in Jobs : runtime'[k].tests = runtime[k].tests
  <2>1. PICK a, x, n, c, v : runtime' = [runtime EXCEPT ![j].actual = a, ![j].next = x,
             ![j].owner = NoOwner, ![j].until = 0, ![j].incident = n, ![j].incidents = c,
             ![j].applied = v]
    BY <1>1 DEF FinishRun
  <2> QED
    BY <1>0, <2>1 DEF RuntimeRow
<1>5. NewMessage.st = "queued"
  BY DEF NewMessage
<1>6. ASSUME NEW m \in OutboxIds, outbox[m].st = "absent", m[1] # "test",
             outbox' = [outbox EXCEPT ![m] = NewMessage]
      PROVE  StoreMoves
  <2>1. \A k \in OutboxIds : RowMoves(k) /\ (k[1] = "test" => outbox'[k] = outbox[k])
    BY <1>0, <1>5, <1>6 DEF RowMoves
  <2>2. TestsCounted'
    BY <1>3, <1>4, <2>1, TestsStay
  <2> QED
    BY <1>3, <2>1, <2>2 DEF StoreMoves
<1>7. CASE UNCHANGED outbox
  <2>1. TestsCounted'
    BY <1>3, <1>4, <1>7, TestsStay
  <2> QED
    BY <1>3, <1>7, <2>1 DEF StoreMoves, RowMoves
<1>8. CASE is + 1 <= MaxIncidents /\ outbox' = [outbox EXCEPT ![<<"error", j, is + 1>>] = NewMessage]
  <2>1. is + 1 \in 1..MaxIncidents /\ ~(is + 1 <= is)
    BY <1>2, <1>8, <1>m
  <2>2. ~Alert("error", j, is + 1)
    BY <1>0, <1>2, <2>1 DEF AlertOK
  <2>3. <<"error", j, is + 1>> \in OutboxIds /\ <<"error", j, is + 1>>[1] # "test"
    BY <2>1 DEF OutboxIds, Transitions
  <2> QED
    BY <1>6, <1>8, <2>2, <2>3 DEF Alert
<1>9. CASE i # 0 /\ outbox' = [outbox EXCEPT ![<<"recovery", j, i>>] = NewMessage]
  <2>1. i \in 1..MaxIncidents
    BY <1>2, <1>9, <1>m
  <2>2. ~Alert("recovery", j, i)
    BY <1>0, <1>2, <2>1 DEF AlertOK
  <2>3. <<"recovery", j, i>> \in OutboxIds /\ <<"recovery", j, i>>[1] # "test"
    BY <2>1 DEF OutboxIds, Transitions
  <2> QED
    BY <1>6, <1>9, <2>2, <2>3 DEF Alert
<1> QED
  BY <1>3, <1>7, <1>8, <1>9

LEMMA SchedulerMoves ==
    ASSUME StatusInv, TestsCounted, Scheduler
    PROVE  StoreMoves
<1>0. TypeOK /\ runtime \in [Jobs -> RuntimeRow]
  BY DEF StatusInv, FenceInv, TypeOK
<1>1. ASSUME UNCHANGED <<job, outbox>>, \A j \in Jobs : runtime'[j].tests = runtime[j].tests
      PROVE  StoreMoves
  <2>1. TestsCounted'
    BY <1>1, TestsStay
  <2> QED
    BY <1>1, <2>1 DEF StoreMoves, RowMoves
<1>2. ASSUME NEW j \in Jobs, Reconcile(j) PROVE StoreMoves
  <2>1. \A k \in Jobs : runtime'[k].tests = runtime[k].tests
    <3>1. CASE LeaseActive(j)
      BY <1>0, <1>2, <3>1 DEF Reconcile, RuntimeRow
    <3>2. CASE ~LeaseActive(j)
      <4>1. PICK a, n, v : runtime' = [runtime EXCEPT ![j].actual = a, ![j].next = n, ![j].applied = v]
        BY <1>2, <3>2 DEF Reconcile
      <4> QED
        BY <1>0, <4>1 DEF RuntimeRow
    <3> QED
      BY <3>1, <3>2
  <2> QED
    BY <1>1, <1>2, <2>1 DEF Reconcile
<1>3. ASSUME NEW o \in Owners, NEW r \in RunIds, ClaimQueued(o, r) PROVE StoreMoves
  <2>1. PICK j \in Jobs : j = runs[r].job
    BY <1>0, Rows DEF RunRow
  <2>2. Reap /\ runtime' = [ReapedRuntime EXCEPT ![j] = Started(j, o)]
    BY <1>3, <2>1 DEF ClaimQueued
  <2>3. \A k \in Jobs : runtime'[k].tests = ReapedRuntime[k].tests
    BY <1>0, <2>2, ReapTypes, ReapedTests
  <2> QED
    BY <2>2, <2>3, ReapMoves
<1>4. ASSUME NEW o \in Owners, NEW j \in Jobs, NEW r \in RunIds, NEW D \in SUBSET Jobs,
             ClaimDue(o, j, r, D)
      PROVE  StoreMoves
  <2>1. /\ Reap
        /\ \A k \in Jobs : runtime'[k] \in {Started(k, o), Deferred(D)[k]}
    BY <1>4 DEF ClaimDue, Deferred
  <2>2. \A k \in Jobs : runtime'[k].tests = ReapedRuntime[k].tests
    BY <1>0, <2>1, ReapedTests
  <2> QED
    BY <2>1, <2>2, ReapMoves
<1>5. ASSUME ClaimNothing PROVE StoreMoves
  <2>1. Reap /\ runtime' = Deferred(Due) /\ Due \in SUBSET Jobs
    BY <1>5 DEF ClaimNothing, Due
  <2>2. \A k \in Jobs : runtime'[k].tests = ReapedRuntime[k].tests
    BY <1>0, <2>1, ReapedTests
  <2> QED
    BY <2>1, <2>2, ReapMoves
<1>6. ASSUME NEW r \in RunIds, Heartbeat(r) PROVE StoreMoves
  <2>1. PICK j \in Jobs : j = runs[r].job
    BY <1>0, Rows DEF RunRow
  <2> QED
    BY <1>0, <1>1, <1>6, <2>1 DEF Heartbeat, RuntimeRow
<1>7. ASSUME NEW r \in RunIds, CancelClaim(r) PROVE StoreMoves
  <2>1. PICK j \in Jobs : j = runs[r].job
    BY <1>0, Rows DEF RunRow
  <2>2. PICK a, n, v : runtime' = [runtime EXCEPT ![j].actual = a, ![j].next = n,
                            ![j].owner = NoOwner, ![j].until = 0, ![j].applied = v]
    BY <1>7, <2>1 DEF CancelClaim
  <2>3. \A k \in Jobs : runtime'[k].tests = runtime[k].tests
    BY <1>0, <2>2 DEF RuntimeRow
  <2> QED
    BY <1>1, <1>7, <2>3 DEF CancelClaim
<1>8. ASSUME NEW r \in RunIds, NEW ok \in BOOLEAN,
             NEW delay \in Delays \cup {s.every : s \in Schedules}, FinishRun(r, ok, delay)
      PROVE  StoreMoves
  BY <1>8, FinishMoves
<1> QED
  BY <1>2, <1>3, <1>4, <1>5, <1>6, <1>7, <1>8 DEF Scheduler

-----------------------------------------------------------------------------
(* Steps of a delivery *)

\* The rows of jobs and runs, and the numbers of tests, are not its concern.
LEMMA StatusFrame ==
    ASSUME StatusInv, TestsCounted, UNCHANGED <<now, hold, job, runtime, runs>>,
           outbox' \in [OutboxIds -> Message],
           \A m \in OutboxIds : outbox'[m].st = "absent" <=> outbox[m].st = "absent"
    PROVE  StatusInv' /\ TestsCounted'
<1>1. TypeOK'
  BY DEF StatusInv, FenceInv, TypeOK
<1>2. FenceInv' /\ RowsOK(job, runtime, runs)' /\ RunsBehind'
  BY <1>1 DEF StatusInv, FenceInv, RunsBehind
<1>3. \A t \in Transitions, j \in Jobs, n \in 1..MaxIncidents : <<t, j, n>> \in OutboxIds
  BY DEF OutboxIds
<1>4. \A j \in Jobs : AlertOK(j)'
  <2> SUFFICES ASSUME NEW j \in Jobs PROVE AlertOK(j)'
    OBVIOUS
  <2>1. AlertOK(j)
    BY AlertsOK DEF StatusInv
  <2>2. IncidentKept(j) /\ AlertsKept(j)
    BY <1>3 DEF IncidentKept, AlertsKept, Alert
  <2> QED
    BY <2>1, <2>2, AlertsFrame
<1>5. IncidentAlertedOnce'
  BY <1>4 DEF IncidentAlertedOnce, AlertOK, Alert
<1>6. TestsCounted'
  BY TestsStay
<1> QED
  BY <1>2, <1>5, <1>6 DEF StatusInv

\* A step of one delivery, about one row.
LEMMA DeliveryFrame ==
    ASSUME OutboxInv, NEW o \in Owners, NEW m \in OutboxIds,
           UNCHANGED <<now, hold, job, runtime, runs>>, BridgeInv',
           outbox' \in [OutboxIds -> Message], delivery' \in [Owners -> Hand],
           \A k \in OutboxIds \ {m} : outbox'[k] = outbox[k],
           outbox[m].st # "absent" /\ outbox'[m].st # "absent",
           \A k \in OutboxIds \ {m} :
              /\ Clean(k) => Clean(k)'
              /\ chat[k] = 1 => chat'[k] = 1
              /\ Bridge!MayStillArrive(k)' => Bridge!MayStillArrive(k),
           Up(o), \A x \in Owners \ {o} : delivery'[x] = delivery[x],
           RowTrue(m)', HandOK(o)'
    PROVE  OutboxInv'
<1>1. StatusInv' /\ TestsCounted'
  BY StatusFrame DEF OutboxInv
<1>2. RowsTrue'
  <2> SUFFICES ASSUME NEW k \in OutboxIds \ {m} PROVE RowTrue(k)'
    BY DEF RowsTrue
  <2>1. RowTrue(k)
    BY DEF OutboxInv, RowsTrue
  <2> QED
    BY <2>1 DEF RowTrue, Renderable
<1>3. \A x \in Owners \ {o} : ~Up(x) /\ ~Up(x)'
  BY DEF OutboxInv, OneUp, Up
<1>4. OneUp'
  BY <1>3 DEF OneUp
<1>5. HandsOK'
  BY <1>3 DEF HandsOK, HandOK, Up, InHand
<1> QED
  BY <1>1, <1>2, <1>4, <1>5 DEF OutboxInv

LEMMA NoHand == NoDelivery \in Hand /\ NoDelivery.step = "idle"
<1>1. OutboxIds # {}
  <2>1. PICK j \in Jobs : TRUE
    BY ConstantsOK
  <2>2. <<"test", j, 1>> \in OutboxIds
    BY ConstantsOK DEF OutboxIds
  <2> QED
    BY <2>2
<1>2. (CHOOSE m \in OutboxIds : TRUE) \in OutboxIds
  BY <1>1
<1> QED
  BY <1>2 DEF NoDelivery, Hand, Steps

\* A claim is let go with a status that is true.
LEMMA ReleaseStep ==
    ASSUME OutboxInv, NEW o \in Owners, delivery[o].step \in InHand,
           NEW m \in OutboxIds, m = delivery[o].m,
           NEW st \in {"sent", "failed", "cancelled", "sending"}, NEW due \in Nat,
           Release(o, st, due), UNCHANGED <<now, hold, job, runtime, runs>>,
           BridgeInv', BridgeMoves, requests' = requests,
           st = "sent" => chat'[m] = 1, st \in {"failed", "cancelled"} => Clean(m)'
    PROVE  OutboxInv'
<1>2. /\ outbox[m].st = "sending" /\ RowTrue(m) /\ outbox \in [OutboxIds -> Message]
      /\ NoOwner \in Owners \cup {NoOwner}
  BY DEF OutboxInv, HandsOK, HandOK, RowsTrue, StatusInv, FenceInv, TypeOK
<1>3. /\ delivery' = [delivery EXCEPT ![o] = NoDelivery] /\ delivery \in [Owners -> Hand]
      /\ Up(o)
  BY DEF Release, OutboxInv, OneUp, Up, InHand
<1>4. delivery' \in [Owners -> Hand] /\ HandOK(o)' /\ \A x \in Owners \ {o} : delivery'[x] = delivery[x]
  BY <1>3, NoHand DEF HandOK, InHand
<1>5. \/ outbox' = outbox
      \/ outbox' = [outbox EXCEPT ![m] = [@ EXCEPT !.st = st, !.due = due, !.owner = NoOwner,
                                                   !.until = 0]]
  BY DEF Release
<1>6. /\ outbox' \in [OutboxIds -> Message] /\ \A k \in OutboxIds \ {m} : outbox'[k] = outbox[k]
      /\ outbox'[m].st \in {"sending", st}
  <2> DEFINE row == [outbox[m] EXCEPT !.st = st, !.due = due, !.owner = NoOwner, !.until = 0]
  <2>0. outbox[m] \in Message /\ NoOwner \in Owners \cup {NoOwner}
    BY <1>2
  <2>1. row \in Message /\ row.st = st
    <3>1. st \in {"absent", "queued"} \cup {"sending", "sent", "failed", "cancelled"}
      OBVIOUS
    <3> QED
      BY <2>0, <3>1 DEF Message, Pending
  <2>2. outbox' = outbox \/ outbox' = [outbox EXCEPT ![m] = row]
    BY <1>5
  <2> HIDE DEF row
  <2> QED
    BY <1>2, <2>1, <2>2
<1>7. \A k \in OutboxIds : Bridge!MayStillArrive(k)' <=> Bridge!MayStillArrive(k)
  BY DEF Bridge!MayStillArrive
<1>8. RowTrue(m)'
  <2>1. job'[m[2]].st # "archived"
    BY <1>2 DEF RowTrue
  <2>2. Renderable(m)' <=> Renderable(m)
    BY DEF Renderable
  <2>3. Clean(m) => Clean(m)'
    BY DEF BridgeMoves
  <2> QED
    <3>1. /\ outbox'[m].st = "sent" => chat'[m] = 1
          /\ outbox'[m].st \in {"absent", "queued", "failed", "cancelled"} => Clean(m)'
      BY <1>6
    <3>2. ~Renderable(m) => Clean(m)
      BY <1>2 DEF RowTrue
    <3> QED
      BY <2>1, <2>2, <2>3, <3>1, <3>2 DEF RowTrue
<1> QED
  BY <1>2, <1>3, <1>4, <1>6, <1>7, <1>8, DeliveryFrame DEF BridgeMoves

\* The steps of _execute_outbox, one by one.
LEMMA DeliverStep ==
    ASSUME OutboxInv, NEW o \in Owners, Deliver(o)
    PROVE  OutboxInv'
<1>0. /\ delivery \in [Owners -> Hand] /\ BridgeInv /\ outbox \in [OutboxIds -> Message]
      /\ HandOK(o) /\ now \in Nat /\ now + RetrySeconds \in Nat /\ now + LeaseSeconds \in Nat
  BY RetryOK, ConstantsOK DEF OutboxInv, OneUp, HandsOK, StatusInv, FenceInv, TypeOK
<1>1. PICK m \in OutboxIds : m = delivery[o].m
  BY <1>0 DEF Hand
<1>2. RowTrue(m) /\ outbox[m] \in Message
  BY <1>0 DEF OutboxInv, RowsTrue
<1>3. outbox[m].due \in Nat /\ outbox[m].token \in Nat
  BY <1>2 DEF Message
\* nothing happens in the bridge
<1>b. ASSUME UNCHANGED bridgeVars
      PROVE  /\ BridgeInv' /\ BridgeMoves /\ requests' = requests
             /\ \A k \in OutboxIds : (Clean(k)' <=> Clean(k))
             /\ \A k \in OutboxIds : chat'[k] = chat[k]
             /\ \A k \in OutboxIds : (Bridge!MayStillArrive(k)' <=> Bridge!MayStillArrive(k))
  <2>1. requests' = requests /\ ledger' = ledger /\ chat' = chat
    BY <1>b DEF bridgeVars
  <2>2. \A k \in OutboxIds : (Clean(k)' <=> Clean(k))
    BY <2>1 DEF Clean
  <2>3. \A k \in OutboxIds : (Bridge!MayStillArrive(k)' <=> Bridge!MayStillArrive(k))
    BY <2>1 DEF Bridge!MayStillArrive
  <2>4. BridgeInv'
    BY <1>0, <2>1, <2>2 DEF BridgeInv, Bridge!BridgeTypeOK, Identity, OneLive, Unarrived,
       Proven, Unheard
  <2>5. BridgeMoves
    BY <2>1, <2>2 DEF BridgeMoves
  <2> QED
    BY <2>1, <2>2, <2>3, <2>4, <2>5
<1>4. ASSUME NEW k \in OutboxIds, ClaimOutbox(o, k) PROVE OutboxInv'
  <2> DEFINE row == [outbox[k] EXCEPT !.st = "sending", !.owner = o,
                                      !.until = now + LeaseSeconds, !.token = @ + 1]
             hand == [step |-> "claimed", m |-> k, token |-> outbox[k].token + 1,
                      revision |-> job[k[2]].revision, recovery |-> RecoveryOnly(k)]
  <2>1. /\ outbox' = [outbox EXCEPT ![k] = row] /\ delivery' = [delivery EXCEPT ![o] = hand]
        /\ UNCHANGED <<now, hold, job, runtime, runs>> /\ UNCHANGED bridgeVars
        /\ delivery[o].step = "idle" /\ (Abandoned(k) \/ Deliverable(k))
    <3>1. outbox' = [outbox EXCEPT ![k] = row]
      BY <1>4 DEF ClaimOutbox
    <3>2. delivery' = [delivery EXCEPT ![o] = hand]
      BY <1>4 DEF ClaimOutbox
    <3>3. UNCHANGED <<now, hold, job, runtime, runs>> /\ UNCHANGED bridgeVars
      BY <1>4 DEF ClaimOutbox
    <3>4. delivery[o].step = "idle" /\ (Abandoned(k) \/ Deliverable(k))
      BY <1>4 DEF ClaimOutbox
    <3> QED
      BY <3>1, <3>2, <3>3, <3>4
  <2>2. outbox[k] \in Message /\ job[k[2]].revision \in Nat /\ RowTrue(k)
    BY <1>0, OutboxId, Rows DEF OutboxInv, RowsTrue, StatusInv, FenceInv, JobRow
  <2>3. /\ row \in Message /\ row.st = "sending" /\ row.token = outbox[k].token + 1
        /\ outbox[k].token + 1 \in Nat
    <3>1. outbox[k].token + 1 \in Nat
      BY <2>2 DEF Message
    <3> QED
      BY <1>0, <2>2, <3>1 DEF Message, Pending
  <2>4. RecoveryOnly(k) \in BOOLEAN
    BY Zenon DEF RecoveryOnly
  <2>5. /\ hand \in Hand /\ hand.step = "claimed" /\ hand.m = k /\ hand.token = outbox[k].token + 1
        /\ hand.recovery = RecoveryOnly(k)
    BY <2>2, <2>3, <2>4 DEF Hand, Steps
  <2> HIDE DEF row, hand
  <2>6. /\ outbox' \in [OutboxIds -> Message] /\ outbox'[k] = row
        /\ \A x \in OutboxIds \ {k} : outbox'[x] = outbox[x]
    BY <1>0, <2>1, <2>3
  <2>7. /\ delivery' \in [Owners -> Hand] /\ delivery'[o] = hand
        /\ \A x \in Owners \ {o} : delivery'[x] = delivery[x]
    BY <1>0, <2>1, <2>5
  <2>8. outbox[k].st \in {"queued", "failed", "sending"} /\ job[k[2]].st # "archived"
    BY <2>1, <2>2 DEF Abandoned, Deliverable, Live, RowTrue
  <2>9. RowTrue(k)'
    BY <1>b, <2>1, <2>2, <2>3, <2>6, <2>8 DEF RowTrue, Renderable
  <2>10. HandOK(o)'
    <3>1. ~RecoveryOnly(k) => Clean(k)
      BY <2>2, <2>8 DEF RecoveryOnly, RowTrue
    <3> QED
      BY <1>b, <2>1, <2>3, <2>5, <2>6, <2>7, <3>1 DEF HandOK
  <2>11. Up(o) /\ outbox[k].st # "absent" /\ outbox'[k].st # "absent"
    BY <2>1, <2>3, <2>6, <2>8 DEF Up
  <2> QED
    BY <1>b, <2>1, <2>6, <2>7, <2>9, <2>10, <2>11, DeliveryFrame
\* the claim is let go
<1>5. CASE RecoverVerified(o)
  <2>1. delivery[o].step \in InHand /\ Bridge!Lookup(m)
    BY <1>1, <1>5 DEF RecoverVerified, InHand
  <2> QED
    BY <1>0, <1>1, <1>5, <2>1, LookupStep, ReleaseStep DEF RecoverVerified, FinishSent
<1>6. CASE RecoverBlocked(o)
  BY <1>1, <1>3, <1>6, <1>b, ReleaseStep DEF RecoverBlocked, BlockOutboxClaim, InHand
<1>7. CASE Superseded(o)
  <2>1. Clean(m)
    BY <1>0, <1>1, <1>7 DEF HandOK, InHand, Superseded
  <2> QED
    BY <1>1, <1>3, <1>7, <1>b, <2>1, ReleaseStep DEF Superseded, CancelOutboxClaim, InHand
<1>8. CASE PayloadInvalid(o)
  <2>1. Clean(m)
    BY <1>1, <1>2, <1>8 DEF PayloadInvalid, RowTrue
  <2> QED
    BY <1>0, <1>1, <1>8, <1>b, <2>1, ReleaseStep DEF PayloadInvalid, FinishFailed, InHand
<1>9. CASE AnsweredOk(o)
  <2>1. PICK q \in requests : q.key = m /\ q.stage = "ok"
    BY <1>1, <1>9 DEF AnsweredOk, Answer, Bridge!Answers
  <2>2. chat[m] = 1
    BY <1>0, <2>1 DEF BridgeInv, Proven
  <2> QED
    BY <1>0, <1>1, <1>9, <1>b, <2>2, ReleaseStep DEF AnsweredOk, FinishSent, InHand
<1>10. CASE AnsweredStale(o)
  <2>1. PICK q \in requests : q.key = m /\ q.token = delivery[o].token /\ q.stage = "stale"
    BY <1>1, <1>10 DEF AnsweredStale, Answer, Bridge!Answers
  <2>2. \A r \in requests : r.key = m /\ r.stage # "stale" => r.token = delivery[o].token
    BY <1>0, <1>1, <1>10 DEF AnsweredStale, HandOK, InHand
  <2>3. Clean(m)
    BY <1>0, <2>1, <2>2 DEF Clean, BridgeInv, Identity
  <2> QED
    BY <1>0, <1>1, <1>10, <1>b, <2>3, ReleaseStep DEF AnsweredStale, FinishFailed, InHand
\* only the hand moves
<1>11. ASSUME UNCHANGED vars, BridgeInv', NEW step \in {"idle", "previewed", "applying"}, Up(o),
              outbox[m].st = "sending", delivery'[o].step = step,
              delivery' \in [Owners -> Hand], \A x \in Owners \ {o} : delivery'[x] = delivery[x],
              \A k \in OutboxIds \ {m} :
                 /\ Clean(k) => Clean(k)'
                 /\ chat[k] = 1 => chat'[k] = 1
                 /\ Bridge!MayStillArrive(k)' => Bridge!MayStillArrive(k),
              Renderable(m) \/ (Clean(m) => Clean(m)'), HandOK(o)'
       PROVE  OutboxInv'
  <2>1. RowTrue(m)'
    BY <1>2, <1>11 DEF RowTrue, Renderable, vars
  <2> QED
    BY <1>0, <1>11, <2>1, DeliveryFrame DEF vars
<1>12. CASE Preview(o)
  <2>1. /\ delivery[o].step = "claimed" /\ ~delivery[o].recovery /\ Renderable(m)
        /\ UNCHANGED bridgeVars /\ UNCHANGED <<now, hold, job, runtime, runs>>
    BY <1>1, <1>12 DEF Preview
  <2>2. /\ Clean(m) /\ outbox[m].st = "sending" /\ outbox[m].token = delivery[o].token
        /\ Up(o)
    BY <1>0, <1>1, <2>1 DEF HandOK, InHand, Up
  <2>3. CASE FinishFailed(o)
    BY <1>0, <1>1, <1>b, <2>1, <2>2, <2>3, ReleaseStep DEF FinishFailed, InHand
  <2>4. CASE delivery' = [delivery EXCEPT ![o].step = "previewed"] /\ UNCHANGED outbox
    <3>1. /\ delivery' \in [Owners -> Hand] /\ delivery'[o].step = "previewed"
          /\ delivery'[o].m = m /\ delivery'[o].token = delivery[o].token
          /\ delivery'[o].recovery = delivery[o].recovery
          /\ \A x \in Owners \ {o} : delivery'[x] = delivery[x]
      BY <1>0, <1>1, <2>4 DEF Hand, Steps
    <3>2. UNCHANGED vars
      BY <2>1, <2>4 DEF vars
    <3>3. HandOK(o)'
      BY <1>b, <2>1, <2>2, <2>4, <3>1 DEF HandOK, Renderable
    <3> QED
      BY <1>b, <1>11, <2>1, <2>2, <3>1, <3>2, <3>3
  <2> QED
    BY <1>12, <2>3, <2>4 DEF Preview
<1>13. CASE Apply(o)
  <2>1. /\ delivery[o].step = "previewed" /\ delivery' = [delivery EXCEPT ![o].step = "applying"]
        /\ Bridge!Request(m, delivery[o].token) /\ UNCHANGED vars
    BY <1>1, <1>13 DEF Apply
  <2>2. /\ Clean(m) /\ outbox[m].st = "sending" /\ outbox[m].token = delivery[o].token
        /\ Up(o) /\ ~delivery[o].recovery /\ Renderable(m)
    BY <1>0, <1>1, <2>1 DEF HandOK, InHand, Up
  <2>3. delivery[o].token \in Nat
    BY <1>0 DEF Hand
  <2>4. /\ BridgeInv' /\ chat' = chat /\ \A k \in OutboxIds \ {m} : Clean(k) => Clean(k)'
        /\ \A r \in requests' : r \in requests \/ (r.key = m /\ r.token = delivery[o].token)
    BY <1>0, <2>1, <2>2, <2>3, RequestStep
  <2>5. /\ delivery' \in [Owners -> Hand] /\ delivery'[o].step = "applying"
        /\ delivery'[o].m = m /\ delivery'[o].token = delivery[o].token
        /\ delivery'[o].recovery = delivery[o].recovery
        /\ \A x \in Owners \ {o} : delivery'[x] = delivery[x]
    BY <1>0, <1>1, <2>1 DEF Hand, Steps
  <2>6. \A k \in OutboxIds \ {m} : Bridge!MayStillArrive(k)' => Bridge!MayStillArrive(k)
    BY <2>4 DEF Bridge!MayStillArrive
  <2>7. HandOK(o)'
    <3>1. \A r \in requests' : r.key = m /\ r.stage # "stale" => r.token = delivery'[o].token
      BY <2>2, <2>4, <2>5 DEF Clean
    <3>2. outbox' = outbox /\ job' = job
      BY <2>1 DEF vars
    <3> QED
      BY <2>2, <2>5, <3>1, <3>2 DEF HandOK, Renderable
  <2> QED
    BY <1>11, <2>1, <2>2, <2>4, <2>5, <2>6, <2>7
<1>14. CASE Uncertain(o)
  <2>1. /\ delivery[o].step = "applying" /\ delivery' = [delivery EXCEPT ![o] = NoDelivery]
        /\ UNCHANGED vars /\ UNCHANGED bridgeVars
    BY <1>14 DEF Uncertain
  <2>2. outbox[m].st = "sending" /\ Up(o)
    BY <1>0, <1>1, <2>1 DEF HandOK, InHand, Up
  <2>3. /\ delivery' \in [Owners -> Hand] /\ delivery'[o].step = "idle"
        /\ \A x \in Owners \ {o} : delivery'[x] = delivery[x]
    BY <1>0, <2>1, NoHand
  <2>4. HandOK(o)'
    BY <2>3 DEF HandOK, InHand
  <2> QED
    BY <1>b, <1>11, <2>1, <2>2, <2>3, <2>4
<1> QED
  BY <1>4, <1>5, <1>6, <1>7, <1>8, <1>9, <1>10, <1>12, <1>13, <1>14 DEF Deliver

-----------------------------------------------------------------------------
(* Every step *)

\* A transaction of the store: the bridge and the delivery in hand see nothing of it.
LEMMA StoreStep ==
    ASSUME OutboxInv, RunTransactions
    PROVE  OutboxInv'
<1>0. /\ delivery' = delivery /\ requests' = requests /\ ledger' = ledger /\ chat' = chat
      /\ Tick \/ Control \/ Scheduler
  <2>1. \A r \in RunIds : job[runs[r].job].sched.every \in Delays \cup {s.every : s \in Schedules}
    <3> SUFFICES ASSUME NEW r \in RunIds
                 PROVE  \E s \in Schedules : job[runs[r].job].sched.every = s.every
      OBVIOUS
    <3>1. job[runs[r].job].sched \in Schedules
      BY Rows DEF OutboxInv, StatusInv, FenceInv, RunRow, JobRow
    <3> QED
      BY <3>1
  <2>0. UNCHANGED deliveryVars
    BY DEF RunTransactions
  <2>2. CASE \E r \in RunIds, ok \in BOOLEAN : FinishRun(r, ok, job[runs[r].job].sched.every)
    <3>1. PICK r \in RunIds, ok \in BOOLEAN : FinishRun(r, ok, job[runs[r].job].sched.every)
      BY <2>2
    <3>2. PICK d \in Delays \cup {s.every : s \in Schedules} : d = job[runs[r].job].sched.every
      BY <2>1
    <3>3. FinishRun(r, ok, d)
      BY <3>1, <3>2
    <3>4. Scheduler
      BY <3>3, Zenon DEF Scheduler
    <3> QED
      BY <2>0, <3>4 DEF deliveryVars
  <2> QED
    BY <2>2 DEF RunTransactions, deliveryVars, Scheduler
<1>1. StatusInv'
  BY <1>0, StatusStep DEF OutboxInv, Next
<1>2. StoreMoves
  <2>1. CASE Tick
    <3>1. outbox' = outbox /\ job' = job /\ runtime' = runtime
      BY <2>1 DEF Tick
    <3>2. TestsCounted'
      BY <3>1, TestsStay DEF OutboxInv
    <3> QED
      BY <3>1, <3>2 DEF StoreMoves, RowMoves
  <2> QED
    BY <1>0, <2>1, ControlMoves, SchedulerMoves DEF OutboxInv
<1>3. BridgeInv' /\ OneUp'
  BY <1>0 DEF OutboxInv, BridgeInv, Bridge!BridgeTypeOK, Identity, OneLive, Unarrived, Proven,
     Unheard, Clean, OneUp, Up
<1>4. RowsTrue'
  <2> SUFFICES ASSUME NEW m \in OutboxIds PROVE RowTrue(m)'
    BY DEF RowsTrue
  <2>1. RowTrue(m) /\ RowMoves(m) /\ outbox[m] \in Message
    BY <1>2 DEF OutboxInv, RowsTrue, StoreMoves, StatusInv, FenceInv, TypeOK
  <2>2. (Clean(m)' <=> Clean(m)) /\ (Bridge!MayStillArrive(m)' <=> Bridge!MayStillArrive(m))
    BY <1>0 DEF Clean, Bridge!MayStillArrive
  <2>3. ASSUME job'[m[2]].st = "archived"
        PROVE  outbox'[m].st # "sending" /\ ~Bridge!MayStillArrive(m)
    <3>1. outbox[m].st # "sending"
      BY <1>2, <2>1, <2>3 DEF StoreMoves, RowTrue
    <3>2. outbox[m].st = "sent" \/ outbox[m].st \in {"absent", "queued", "failed", "cancelled"}
      BY <2>1, <3>1 DEF Message, Pending
    <3>3. CASE outbox[m].st = "sent"
      <4>1. chat[m] = 1
        BY <2>1, <3>3 DEF RowTrue
      <4> QED
        BY <2>1, <3>1, <4>1 DEF OutboxInv, BridgeInv, Unarrived, OnItsWay, Bridge!MayStillArrive,
           RowMoves
    <3>4. CASE outbox[m].st \in {"absent", "queued", "failed", "cancelled"}
      BY <2>1, <3>1, <3>4 DEF RowTrue, Clean, Bridge!MayStillArrive, RowMoves
    <3> QED
      BY <3>2, <3>3, <3>4
  <2>4. outbox'[m].st \in {"absent", "queued", "failed", "cancelled"} => Clean(m)
    BY <2>1 DEF RowMoves, RowTrue
  <2>5. outbox'[m].st = "sent" => chat'[m] = 1
    BY <1>0, <2>1 DEF RowMoves, RowTrue
  <2>6. ~Renderable(m)' => Clean(m)
    BY <2>1 DEF RowTrue, Renderable
  <2> QED
    BY <2>2, <2>3, <2>4, <2>5, <2>6 DEF RowTrue
<1>5. HandsOK'
  <2> SUFFICES ASSUME NEW o \in Owners, delivery[o].step \in InHand PROVE HandOK(o)'
    BY <1>0 DEF HandsOK, HandOK
  <2>1. PICK m \in OutboxIds : m = delivery[o].m
    BY DEF OutboxInv, OneUp, Hand
  <2>2. HandOK(o) /\ RowMoves(m)
    BY <1>2 DEF OutboxInv, HandsOK, StoreMoves
  <2>3. outbox'[m] = outbox[m]
    BY <2>1, <2>2 DEF HandOK, RowMoves
  <2>4. Clean(m)' <=> Clean(m)
    BY <1>0 DEF Clean
  <2> QED
    BY <1>0, <2>1, <2>2, <2>3, <2>4 DEF HandOK, Renderable
<1> QED
  BY <1>1, <1>2, <1>3, <1>4, <1>5 DEF OutboxInv, StoreMoves

\* A step of the bridge: no row and no hand sees it.
LEMMA BridgeStep ==
    ASSUME OutboxInv, NEW q \in requests, Bridge!Step(q), UNCHANGED <<vars, delivery>>
    PROVE  OutboxInv'
<1>1. BridgeInv' /\ BridgeMoves
  BY BridgeSteps DEF OutboxInv
<1>2. /\ now' = now /\ hold' = hold /\ job' = job /\ runtime' = runtime /\ runs' = runs
      /\ outbox' = outbox /\ delivery' = delivery
  BY DEF vars
<1>3. StatusInv' /\ TestsCounted'
  BY <1>2, StatusFrame DEF OutboxInv, StatusInv, FenceInv, TypeOK
<1>4. RowsTrue'
  <2> SUFFICES ASSUME NEW m \in OutboxIds PROVE RowTrue(m)'
    BY DEF RowsTrue
  <2>1. RowTrue(m) /\ (Clean(m) => Clean(m)') /\ (chat[m] = 1 => chat'[m] = 1)
    BY <1>1 DEF OutboxInv, RowsTrue, BridgeMoves
  <2>2. Bridge!MayStillArrive(m)' => Bridge!MayStillArrive(m)
    BY <1>1 DEF BridgeMoves, Bridge!MayStillArrive, OnItsWay
  <2> QED
    BY <1>2, <2>1, <2>2 DEF RowTrue, Renderable
<1>5. HandsOK'
  <2> SUFFICES ASSUME NEW o \in Owners, delivery[o].step \in InHand PROVE HandOK(o)'
    BY <1>2 DEF HandsOK, HandOK
  <2>1. PICK m \in OutboxIds : m = delivery[o].m
    BY DEF OutboxInv, OneUp, Hand
  <2>2. HandOK(o) /\ (Clean(m) => Clean(m)')
    BY <1>1 DEF OutboxInv, HandsOK, BridgeMoves
  <2>3. delivery[o].step = "applying" =>
           \A r \in requests' : r.key = m /\ r.stage # "stale" => r.token = delivery[o].token
    BY <1>1, <2>1, <2>2 DEF HandOK, BridgeMoves
  <2> QED
    BY <1>2, <2>1, <2>2, <2>3 DEF HandOK, Renderable
<1> QED
  BY <1>1, <1>2, <1>3, <1>4, <1>5 DEF OutboxInv, OneUp, Up

\* A daemon starts or dies: it has nothing in hand then.
LEMMA ProcessStep ==
    ASSUME OutboxInv, NEW o \in Owners, StartDaemon(o) \/ CrashDaemon(o)
    PROVE  OutboxInv'
<1>1. PICK d : d = [NoDelivery EXCEPT !.step = "down"]
  OBVIOUS
<1>2. d \in Hand /\ d.step = "down" /\ NoDelivery \in Hand /\ NoDelivery.step = "idle"
  BY <1>1, NoHand DEF Hand, Steps
<1>3. /\ now' = now /\ hold' = hold /\ job' = job /\ runtime' = runtime /\ runs' = runs
      /\ outbox' = outbox /\ requests' = requests /\ ledger' = ledger /\ chat' = chat
      /\ \/ (\A x \in Owners : ~Up(x)) /\ delivery' = [delivery EXCEPT ![o] = NoDelivery]
         \/ delivery' = [delivery EXCEPT ![o] = d]
  BY <1>1 DEF StartDaemon, CrashDaemon, vars, bridgeVars
<1>4. delivery \in [Owners -> Hand]
  BY DEF OutboxInv, OneUp
<1>5. /\ delivery' \in [Owners -> Hand] /\ delivery'[o].step \in {"idle", "down"}
      /\ \A x \in Owners \ {o} : delivery'[x] = delivery[x]
      /\ delivery'[o].step = "idle" => \A x \in Owners : ~Up(x)
  BY <1>2, <1>3, <1>4
<1>6. OneUp'
  BY <1>5 DEF OutboxInv, OneUp, Up
<1>7. StatusInv' /\ TestsCounted'
  BY <1>3, StatusFrame DEF OutboxInv, StatusInv, FenceInv, TypeOK
<1>8. BridgeInv' /\ RowsTrue'
  BY <1>3 DEF OutboxInv, BridgeInv, Bridge!BridgeTypeOK, Identity, OneLive, Unarrived, Proven,
     Unheard, Clean, RowsTrue, RowTrue, Renderable, Bridge!MayStillArrive
<1>9. HandsOK'
  <2> SUFFICES ASSUME NEW x \in Owners PROVE HandOK(x)'
    BY DEF HandsOK
  <2>1. CASE x = o
    BY <1>5, <2>1 DEF HandOK, InHand
  <2>2. CASE x # o
    BY <1>3, <1>5, <2>2 DEF OutboxInv, HandsOK, HandOK, Clean, Renderable
  <2> QED
    BY <2>1, <2>2
<1> QED
  BY <1>6, <1>7, <1>8, <1>9 DEF OutboxInv

LEMMA OutboxStart == OutboxInit => OutboxInv
<1> SUFFICES ASSUME OutboxInit PROVE OutboxInv
  OBVIOUS
<1>1. PICK d : d = [NoDelivery EXCEPT !.step = "new"]
  OBVIOUS
<1>2. d \in Hand /\ d.step = "new"
  BY <1>1, NoHand DEF Hand, Steps
<1>3. /\ Init /\ delivery = [o \in Owners |-> d] /\ requests = {}
      /\ ledger = [m \in OutboxIds |-> "none"] /\ chat = [m \in OutboxIds |-> 0]
  BY <1>1 DEF OutboxInit, Bridge!Init
<1>4. StatusInv
  BY <1>3, StatusStart
<1>5. BridgeInv
  BY <1>3 DEF BridgeInv, Bridge!BridgeTypeOK, Bridge!LedgerStates, Identity, OneLive, Unarrived,
     Proven, Unheard
<1>6. \A m \in OutboxIds : outbox[m].st = "absent" /\ Clean(m) /\ job[m[2]].st = "absent"
  BY <1>3, OutboxId DEF Init, Clean, NoMessage, NoJob
<1>7. RowsTrue
  BY <1>6 DEF RowsTrue, RowTrue
<1>8. TestsCounted
  <2> SUFFICES ASSUME NEW j \in Jobs PROVE TestOK(j)
    BY DEF TestsCounted
  <2>1. runtime[j].tests = 0
    BY <1>3 DEF Init, NoRuntime
  <2>2. \A n \in 1..MaxIncidents : <<"test", j, n>> \in OutboxIds /\ ~(n <= 0)
    BY DEF OutboxIds
  <2> QED
    BY <1>6, <2>1, <2>2 DEF TestOK
<1>9. OneUp /\ HandsOK
  BY <1>2, <1>3 DEF OneUp, Up, HandsOK, HandOK, InHand
<1> QED
  BY <1>4, <1>5, <1>7, <1>8, <1>9 DEF OutboxInv

LEMMA OutboxStep == OutboxInv /\ [OutboxNext]_allVars => OutboxInv'
<1> SUFFICES ASSUME OutboxInv, [OutboxNext]_allVars PROVE OutboxInv'
  OBVIOUS
<1>1. CASE RunTransactions
  BY <1>1, StoreStep
<1>2. ASSUME NEW o \in Owners, StartDaemon(o) \/ CrashDaemon(o) PROVE OutboxInv'
  BY <1>2, ProcessStep
<1>3. ASSUME NEW o \in Owners, Deliver(o) PROVE OutboxInv'
  BY <1>3, DeliverStep
<1>4. ASSUME NEW q \in requests, Bridge!Step(q), UNCHANGED <<vars, delivery>> PROVE OutboxInv'
  BY <1>4, BridgeStep
<1>5. CASE UNCHANGED allVars
  <2>1. /\ now' = now /\ hold' = hold /\ job' = job /\ runtime' = runtime /\ runs' = runs
        /\ outbox' = outbox /\ delivery' = delivery
        /\ requests' = requests /\ ledger' = ledger /\ chat' = chat
    BY <1>5 DEF allVars, deliveryVars, vars
  <2>2. StatusInv' /\ TestsCounted'
    BY <2>1, StatusFrame DEF OutboxInv, StatusInv, FenceInv, TypeOK
  <2> QED
    BY <2>1, <2>2 DEF OutboxInv, BridgeInv, Bridge!BridgeTypeOK, Identity, OneLive, Unarrived,
       Proven, Unheard, Clean, OneUp, Up, RowsTrue, RowTrue, Renderable, Bridge!MayStillArrive,
       HandsOK, HandOK, InHand
<1> QED
  BY <1>1, <1>2, <1>3, <1>4, <1>5 DEF OutboxNext

(***************************************************************************)
(* Results                                                                 *)
(***************************************************************************)

\* Rows, hands, requests and the chat agree, in every state.
THEOREM DeliveriesAgree == OutboxSpec => []OutboxInv
BY OutboxStart, OutboxStep, PTL DEF OutboxSpec

\* "sent" is one message in the owner's chat; "queued", "failed" and "cancelled" are none,
\* now and later, over crashes of the daemon and of the bridge, leases that run out and
\* requests that outlive their sender.
THEOREM StatusTold == OutboxSpec => []StatusIsTrue
<1>1. OutboxInv => StatusIsTrue
  <2> SUFFICES ASSUME OutboxInv, NEW m \in OutboxIds,
                      outbox[m].st \in {"sent", "queued", "failed", "cancelled"}
               PROVE  /\ outbox[m].st = "sent" => chat[m] = 1
                      /\ outbox[m].st \in {"queued", "failed", "cancelled"} =>
                            chat[m] = 0 /\ ~Bridge!MayStillArrive(m)
    BY DEF StatusIsTrue
  <2>1. RowTrue(m)
    BY DEF OutboxInv, RowsTrue
  <2>2. Clean(m) => chat[m] = 0 /\ ~Bridge!MayStillArrive(m)
    BY DEF OutboxInv, BridgeInv, Unheard, Clean, Bridge!MayStillArrive
  <2> QED
    BY <2>1, <2>2 DEF RowTrue
<1> QED
  BY <1>1, DeliveriesAgree, PTL

\* No notification is asked for again after a request whose outcome is not known.
THEOREM NotResent == OutboxSpec => []NeverBlindlyResent
<1>1. OutboxInv => NeverBlindlyResent
  <2> SUFFICES ASSUME OutboxInv, NEW m \in OutboxIds
               PROVE  Cardinality({q \in requests : q.key = m /\ q.stage # "stale"}) <= 1
    BY DEF NeverBlindlyResent
  <2> DEFINE S == {q \in requests : q.key = m /\ q.stage # "stale"}
  <2>1. \A p, q \in S : p = q
    BY DEF OutboxInv, BridgeInv, OneLive
  <2> HIDE DEF S
  <2>2. Cardinality(S) <= 1
    BY <2>1, AtMostOne
  <2> QED
    BY <2>2 DEF S
<1> QED
  BY <1>1, DeliveriesAgree, PTL

\* Nothing reaches the owner for a job that is archived, whatever was under way when the
\* operator archived it.
THEOREM ArchiveIsQuiet == OutboxSpec => ArchivedSendsNothing
<1>1. OutboxInv /\ [OutboxNext]_allVars
         => [\A m \in OutboxIds : job[m[2]].st = "archived" => chat'[m] = chat[m]]_allVars
  <2> SUFFICES ASSUME OutboxInv, OutboxNext, NEW m \in OutboxIds, job[m[2]].st = "archived"
               PROVE  chat'[m] = chat[m]
    OBVIOUS
  <2>1. ~Bridge!MayStillArrive(m)
    BY DEF OutboxInv, RowsTrue, RowTrue
  <2>2. CASE \E q \in requests : Bridge!Step(q)
    BY <2>1, <2>2, BridgeSteps DEF OutboxInv, BridgeMoves
  <2>3. CASE RunTransactions
    BY <2>3 DEF RunTransactions, deliveryVars
  <2>4. ASSUME NEW o \in Owners, StartDaemon(o) \/ CrashDaemon(o) PROVE chat' = chat
    BY <2>4 DEF StartDaemon, CrashDaemon, bridgeVars
  <2>5. ASSUME NEW o \in Owners, Deliver(o) PROVE chat' = chat
    <3>1. UNCHANGED bridgeVars => chat' = chat
      BY DEF bridgeVars
    <3>2. ASSUME NEW k \in OutboxIds, ClaimOutbox(o, k) PROVE chat' = chat
      BY <3>1, <3>2 DEF ClaimOutbox, bridgeVars
    <3>3. CASE RecoverVerified(o) \/ RecoverBlocked(o)
      BY <3>1, <3>3 DEF RecoverVerified, RecoverBlocked, Bridge!Lookup, bridgeVars
    <3>4. CASE Preview(o) \/ Apply(o) \/ Superseded(o) \/ PayloadInvalid(o)
      BY <3>1, <3>4 DEF Preview, Apply, Superseded, PayloadInvalid, Bridge!Request, bridgeVars
    <3>5. CASE AnsweredOk(o) \/ AnsweredStale(o) \/ Uncertain(o)
      BY <3>1, <3>5 DEF AnsweredOk, AnsweredStale, Uncertain, bridgeVars
    <3> QED
      BY <2>5, <3>2, <3>3, <3>4, <3>5 DEF Deliver
  <2> QED
    BY <2>2, <2>3, <2>4, <2>5 DEF OutboxNext
<1> QED
  BY <1>1, DeliveriesAgree, PTL DEF OutboxSpec, ArchivedSendsNothing

\* The daemon is one of the bridge's clients: whatever the store, the operator and the
\* crashes do, the bridge makes only the steps that OwnerBridge allows it, so that what is
\* proved of those holds of the notifications of the outbox.
THEOREM ClientOfTheBridge == OutboxSpec => Bridge!Spec
<1>1. OutboxInit => Bridge!Init
  BY DEF OutboxInit
<1>2. OutboxInv /\ [OutboxNext]_allVars => [Bridge!Next]_(Bridge!bridgeVars)
  <2> SUFFICES ASSUME OutboxInv, [OutboxNext]_allVars,
                      ~(requests' = requests /\ ledger' = ledger /\ chat' = chat)
               PROVE  Bridge!Next
    BY DEF Bridge!bridgeVars
  <2>1. OutboxNext /\ ~RunTransactions
    BY DEF allVars, deliveryVars, RunTransactions
  <2>2. CASE \E q \in requests : Bridge!Step(q)
    BY <2>2 DEF Bridge!Next
  <2>3. ASSUME NEW o \in Owners, StartDaemon(o) \/ CrashDaemon(o) PROVE FALSE
    BY <2>3 DEF StartDaemon, CrashDaemon, bridgeVars
  <2>4. ASSUME NEW o \in Owners, Deliver(o) PROVE Bridge!Next
    <3>1. delivery[o].m \in OutboxIds /\ delivery[o].token \in Nat
      BY DEF OutboxInv, OneUp, Hand
    <3>2. CASE RecoverVerified(o)
      BY <3>1, <3>2 DEF RecoverVerified, Bridge!Next
    <3>3. CASE Apply(o)
      BY <3>1, <3>3 DEF Apply, Bridge!Next
    <3>4. ASSUME NEW k \in OutboxIds, ClaimOutbox(o, k) PROVE FALSE
      BY <3>4 DEF ClaimOutbox, bridgeVars
    <3>5. ~RecoverBlocked(o) /\ ~Preview(o) /\ ~Superseded(o) /\ ~PayloadInvalid(o)
      BY DEF RecoverBlocked, Preview, Superseded, PayloadInvalid, bridgeVars
    <3>6. ~AnsweredOk(o) /\ ~AnsweredStale(o) /\ ~Uncertain(o)
      BY DEF AnsweredOk, AnsweredStale, Uncertain, bridgeVars
    <3> QED
      BY <2>4, <3>2, <3>3, <3>4, <3>5, <3>6 DEF Deliver
  <2> QED
    BY <2>1, <2>2, <2>3, <2>4 DEF OutboxNext
<1> QED
  BY <1>1, <1>2, DeliveriesAgree, PTL DEF OutboxSpec, Bridge!Spec
=============================================================================
