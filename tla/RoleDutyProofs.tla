--------------------------- MODULE RoleDutyProofs ---------------------------
(***************************************************************************)
(* What holds of RoleDuty for any events, notices, dispatches and faults:  *)
(* types, the one launch that may be under way, and the owner of a goal.   *)
(***************************************************************************)
EXTENDS RoleDuty, FiniteSetTheorems, TLAPS

Marks == {"none", "running", "completed", "failed", "unknown"}

\* mark_dispatch leaves the tables what they are.
LEMMA MarkedType ==
    ASSUME NEW s, s.role \in RoleRow, s.dispatch \in [Dispatches -> DispatchRow],
           s.item \in [Items -> ItemStates], NEW d \in Dispatches, NEW status \in Marks,
           NEW t \in Turns \cup {None}, NEW error \in Errors
    PROVE  /\ Marked(s, d, status, t, error).role \in RoleRow
           /\ Marked(s, d, status, t, error).dispatch \in [Dispatches -> DispatchRow]
           /\ Marked(s, d, status, t, error).item \in [Items -> ItemStates]
<1>1. ASSUME NEW was PROVE RoleMarked(s.role, d, was, status, error) \in RoleRow
  <2>1. ASSUME NEW to \in {"waiting", "idle", "off"}
        PROVE  [s.role EXCEPT !.active = None, !.error = error, !.state = to] \in RoleRow
    BY <2>1 DEF RoleRow
  <2>2. ASSUME NEW to \in Errors
        PROVE  [s.role EXCEPT !.state = "attention", !.error = to] \in RoleRow
    BY <2>2 DEF RoleRow
  <2>3. [s.role EXCEPT !.state = "running", !.error = "none"] \in RoleRow
    BY DEF RoleRow, Errors
  <2>4. (IF s.role.state = "waiting" THEN s.role.state
         ELSE IF s.role.desired = "on" THEN "idle" ELSE "off") \in {"waiting", "idle", "off"}
    OBVIOUS
  <2> QED
    BY <2>1, <2>2, <2>3, <2>4 DEF RoleMarked, Errors
<1>2. [s.dispatch EXCEPT ![d].status = status, ![d].turn = IF t = None THEN @ ELSE t]
        \in [Dispatches -> DispatchRow]
  BY DEF DispatchRow, Marks, Unsettled
<1>3. (IF s.dispatch[d].item = None THEN s.item
       ELSE [s.item EXCEPT ![s.dispatch[d].item] = status]) \in [Items -> ItemStates]
  BY DEF ItemStates, Marks
<1> QED
  BY <1>1, <1>2, <1>3 DEF Marked

\* So does finding a dispatch again, or not.
LEMMA ReconciledType ==
    ASSUME DutyTypeOK, NEW d \in Dispatches, NEW ok \in Errors, NEW bad \in Errors,
           NEW lost \in Errors
    PROVE  /\ Reconciled(d, ok, bad, lost).role \in RoleRow
           /\ Reconciled(d, ok, bad, lost).dispatch \in [Dispatches -> DispatchRow]
           /\ Reconciled(d, ok, bad, lost).item \in [Items -> ItemStates]
<1> DEFINE Typed(s) == /\ s.role \in RoleRow /\ s.dispatch \in [Dispatches -> DispatchRow]
                       /\ s.item \in [Items -> ItemStates]
<1>1. Typed(Tables)
  BY DEF Tables, DutyTypeOK
<1>2. None \in Turns \cup {None} /\ carries[d] \in Turns \cup {None}
  BY DEF DutyTypeOK
<1>3. ASSUME NEW t PROVE Typed(Judged(Tables, d, t, ok, bad))
  <2>1. Typed(Marked(Tables, d, "completed", None, ok))
    BY <1>1, MarkedType DEF Marks
  <2>2. Typed(Marked(Tables, d, "failed", None, bad))
    BY <1>1, MarkedType DEF Marks
  <2> QED
    BY <1>1, <2>1, <2>2 DEF Judged
<1>4. Typed(Marked(Tables, d, "unknown", None, lost))
  BY <1>1, MarkedType DEF Marks
<1>5. CASE dispatch[d].turn # None
  BY <1>3, <1>5 DEF Reconciled
<1>6. CASE dispatch[d].turn = None /\ carries[d] = None
  BY <1>4, <1>6 DEF Reconciled
<1>7. CASE dispatch[d].turn = None /\ carries[d] # None
  <2> DEFINE found == Marked(Tables, d, "running", carries[d], ok)
             end == turn[carries[d]]
  <2>1. Typed(found)
    BY <1>1, <1>2, MarkedType DEF Marks
  <2> HIDE DEF found
  <2>2. ASSUME end \in Marks
        PROVE  Typed(Marked(found, d, end, None, IF end = "completed" THEN ok ELSE bad))
    BY <2>1, <2>2, MarkedType
  <2>3. end \in {"inProgress"} \cup Marks
    BY <1>2, <1>7 DEF DutyTypeOK, Marks
  <2> QED
    BY <1>7, <2>1, <2>2, <2>3 DEF Reconciled, found
<1> QED
  BY <1>5, <1>6, <1>7

LEMMA InitType == DutyInit => DutyTypeOK
<1> SUFFICES ASSUME DutyInit PROVE DutyTypeOK
  OBVIOUS
<1>1. OffDuty \in RoleRow
  BY DEF OffDuty, RoleRow, Errors
<1>2. NoTick \in TickRow
  BY <1>1 DEF NoTick, TickRow, Steps
<1>3. dispatch \in [Dispatches -> DispatchRow]
  BY DEF DutyInit, DispatchRow
<1>4. item \in [Items -> ItemStates] /\ goal \in Goals /\ held \in BOOLEAN
  BY DEF DutyInit, ItemStates, Goals
<1>5. turn \in [Turns -> {"none", "inProgress", "completed", "failed"}]
  BY DEF DutyInit
<1>6. carries \in [Dispatches -> Turns \cup {None}]
  BY DEF DutyInit
<1>7. refused = {} /\ troubles \in 0..MaxTroubles
  BY RoleConstants DEF DutyInit
<1> QED
  BY <1>1, <1>2, <1>3, <1>4, <1>5, <1>6, <1>7 DEF DutyInit, DutyTypeOK

LEMMA LiveTurnType == LiveTurn \in Turns \cup {None}
BY DEF LiveTurn, Live

LEMMA NoTickType == NoTick \in TickRow /\ OffDuty \in RoleRow
<1>1. OffDuty \in RoleRow
  BY DEF OffDuty, RoleRow, Errors
<1> QED
  BY <1>1 DEF NoTick, TickRow, Steps

LEMMA NamedTurnType ==
    ASSUME dispatch \in [Dispatches -> DispatchRow], NEW d \in Dispatches, NEW t \in Turns
    PROVE  [dispatch EXCEPT ![d].status = "running", ![d].turn = t]
             \in [Dispatches -> DispatchRow]
<1>1. [dispatch[d] EXCEPT !.status = "running", !.turn = t] \in DispatchRow
  BY DEF DispatchRow, Unsettled
<1> QED
  BY <1>1

\* Commands, people and the agent.
LEMMA OutsideType ==
    ASSUME DutyTypeOK, Commands \/ Codex
    PROVE  DutyTypeOK'
<1> USE RoleConstants DEF DutyTypeOK, store, codex, people
<1>1. ASSUME NEW same \in {"generation", "nothing"}, Behind(same) PROVE tick' \in TickRow
  BY <1>1 DEF Behind, TickRow
<1>2. Minor \in {"generation", "nothing"}
  BY DEF Minor, TickRow
<1>3. ASSUME Trouble PROVE troubles' \in 0..MaxTroubles
  BY <1>3 DEF Trouble
<1>4. CASE Start
  BY <1>1, <1>3, <1>4 DEF Start, RoleRow, Errors, Goals, GoalShown
<1>5. CASE Stop
  BY <1>1, <1>3, <1>5 DEF Stop, RoleRow
<1>6. CASE Sleep
  BY <1>1, <1>2, <1>3, <1>6 DEF Sleep, RoleRow
<1>7. CASE Checkpoint
  BY <1>1, <1>2, <1>3, <1>7 DEF Checkpoint
<1>8. CASE WakeTime
  BY <1>8 DEF WakeTime, RoleRow, TickRow
<1>9. CASE SetHold
  BY <1>3, <1>9 DEF SetHold
<1>10. ASSUME NEW d \in Dispatches, ReconcileTurn(d) PROVE DutyTypeOK'
  <2>1. carries[d] \in Turns
    BY <1>10 DEF ReconcileTurn
  <2>2. [dispatch EXCEPT ![d].status = "running", ![d].turn = carries[d]]
          \in [Dispatches -> DispatchRow]
    BY <2>1, NamedTurnType
  <2> QED
    BY <1>1, <1>2, <1>10, <2>2 DEF ReconcileTurn
<1>11. ASSUME NEW i \in Items, Submit(i) PROVE DutyTypeOK'
  BY <1>11 DEF Submit, ItemStates
<1>12. CASE Continue
  BY <1>12 DEF Continue, Turns
<1>13. CASE PausedByHand
  BY <1>3, <1>13 DEF PausedByHand, Goals
<1>14. CASE Limited
  BY <1>3, <1>14 DEF Limited, Goals
<1>15. ASSUME NEW t \in Turns, TurnEnds(t) PROVE DutyTypeOK'
  BY <1>15 DEF TurnEnds
<1> QED
  BY <1>4, <1>5, <1>6, <1>7, <1>8, <1>9, <1>10, <1>11, <1>12, <1>13, <1>14, <1>15
     DEF Commands, Codex

-----------------------------------------------------------------------------
\* From prepare_dispatch on, a pass has a dispatch in its hands.
Launching == {"prepared", "launch", "launched", "refused", "lost", "failing"}
TickOK == tick \in TickRow /\ (tick.pc \in Launching => tick.d \in Dispatches)
RoleOK == DutyTypeOK /\ TickOK

LEMMA MovesType ==
    ASSUME TickOK
    PROVE  /\ \A pc \in Steps \ Launching : GoTo(pc) => TickOK'
           /\ End => TickOK'
           /\ \A launches, activate : activate \in BOOLEAN /\ Choose(launches, activate) => TickOK'
<1>1. ASSUME NEW pc \in Steps \ Launching, GoTo(pc) PROVE TickOK'
  BY <1>1 DEF GoTo, TickOK, TickRow
<1>2. ASSUME End PROVE TickOK'
  BY <1>2, NoTickType DEF End, NoTick, TickOK, Launching
<1>3. ASSUME NEW launches, NEW activate \in BOOLEAN, Choose(launches, activate) PROVE TickOK'
  <2>1. CASE Goes(activate)
    BY <2>1, NoTickType DEF Goes, NoTick, TickOK, TickRow, Launching, Steps, NormalSteps
  <2>2. "interrupt" \in Steps \ Launching
    BY DEF Steps, NormalSteps, Launching
  <2> QED
    BY <1>1, <1>2, <1>3, <2>1, <2>2 DEF Choose
<1> QED
  BY <1>1, <1>2, <1>3

LEMMA RoleMoves ==
    ASSUME DutyTypeOK
    PROVE  /\ \A error \in Errors : Attention(error) => role' \in RoleRow
           /\ \A want \in {"active", "paused"} : Applied(want) => role' \in RoleRow
           /\ Trouble => troubles' \in 0..MaxTroubles
<1>1. role \in RoleRow /\ troubles \in 0..MaxTroubles
  BY DEF DutyTypeOK
<1>2. ASSUME NEW error \in Errors, Attention(error) PROVE role' \in RoleRow
  BY <1>1, <1>2 DEF Attention, RoleRow
<1>3. ASSUME NEW want \in {"active", "paused"}, Applied(want) PROVE role' \in RoleRow
  BY <1>1, <1>3 DEF Applied, RoleRow, Errors
<1>4. ASSUME Trouble PROVE troubles' \in 0..MaxTroubles
  BY <1>1, <1>4, RoleConstants DEF Trouble
<1> QED
  BY <1>2, <1>3, <1>4

LEMMA SeenRow ==
    ASSUME NEW r \in RoleRow
    PROVE  [r EXCEPT !.error = "none", !.active = None,
                     !.state = IF @ = "waiting" THEN @ ELSE "idle"] \in RoleRow
BY DEF RoleRow, Errors

LEMMA SeenType == DutyTypeOK => Seen \in RoleRow
BY SeenRow DEF DutyTypeOK, Seen

\* What Store makes of the tables after mark_dispatch, or when a dispatch is found.
LEMMA StoreType ==
    ASSUME DutyTypeOK, NEW d \in Dispatches
    PROVE  /\ \A status \in Marks, t \in Turns \cup {None}, error \in Errors :
                Store(Marked(Tables, d, status, t, error)) =>
                  /\ role' \in RoleRow /\ dispatch' \in [Dispatches -> DispatchRow]
                  /\ item' \in [Items -> ItemStates]
           /\ \A ok, bad, lost \in Errors :
                Store(Reconciled(d, ok, bad, lost)) =>
                  /\ role' \in RoleRow /\ dispatch' \in [Dispatches -> DispatchRow]
                  /\ item' \in [Items -> ItemStates]
<1>1. /\ Tables.role \in RoleRow /\ Tables.dispatch \in [Dispatches -> DispatchRow]
      /\ Tables.item \in [Items -> ItemStates]
  BY DEF Tables, DutyTypeOK
<1>2. ASSUME NEW status \in Marks, NEW t \in Turns \cup {None}, NEW error \in Errors,
             Store(Marked(Tables, d, status, t, error))
      PROVE  /\ role' \in RoleRow /\ dispatch' \in [Dispatches -> DispatchRow]
             /\ item' \in [Items -> ItemStates]
  BY <1>1, <1>2, MarkedType DEF Store
<1>3. ASSUME NEW ok \in Errors, NEW bad \in Errors, NEW lost \in Errors,
             Store(Reconciled(d, ok, bad, lost))
      PROVE  /\ role' \in RoleRow /\ dispatch' \in [Dispatches -> DispatchRow]
             /\ item' \in [Items -> ItemStates]
  BY <1>3, ReconciledType DEF Store
<1> QED
  BY <1>2, <1>3

\* _role_tick and _sync_goal.
LEMMA GoalPassType ==
    ASSUME RoleOK,
           \/ Look \/ Consult \/ GoalStands \/ GoalWaits \/ ClaimGoal \/ SetGoal \/ SetDone
           \/ Unset \/ Interrupt \/ \E d \in Dispatches : Reconcile(d)
    PROVE  RoleOK'
<1> USE DEF DutyTypeOK, RoleOK, store, codex, people
<1>1. CASE Look
  <2>1. [NoTick EXCEPT !.pc = "hold", !.snap = role] \in TickRow
    BY NoTickType DEF TickRow, Steps, HoldSteps
  <2>2. [NoTick EXCEPT !.pc = "reconcile", !.live = LiveTurn, !.todo = Pending] \in TickRow
    BY NoTickType, LiveTurnType DEF TickRow, Steps, NormalSteps, Pending
  <2>3. tick' \in TickRow /\ tick'.pc \in {"hold", "reconcile"}
    BY <1>1, <2>1, <2>2 DEF Look, NoTick
  <2> QED
    BY <1>1, <2>3 DEF Look, TickOK, Launching
<1>2. CASE Consult
  <2>1. [NoTick EXCEPT !.pc = "hold", !.snap = role] \in TickRow
    BY NoTickType DEF TickRow, Steps, HoldSteps
  <2>2. \A i \in Items \cup {None} :
          [tick EXCEPT !.pc = "goal", !.snap = Seen, !.item = i, !.d = role.active] \in TickRow
    BY SeenType DEF TickOK, TickRow, Steps, NormalSteps, RoleRow
  <2>3. NextItems \subseteq Items
    BY DEF NextItems, Queued
  <2>4. PICK i \in Items \cup {None} :
          \/ tick' = [NoTick EXCEPT !.pc = "hold", !.snap = role]
          \/ tick' = [tick EXCEPT !.pc = "goal", !.snap = Seen, !.item = i, !.d = role.active]
    BY <1>2, <2>3 DEF Consult
  <2>5. CASE tick' = [NoTick EXCEPT !.pc = "hold", !.snap = role]
    BY <1>2, <2>1, <2>5 DEF Consult, NoTick, TickOK, Launching
  <2>6. CASE tick' = [tick EXCEPT !.pc = "goal", !.snap = Seen, !.item = i, !.d = role.active]
    <3>1. tick'.pc = "goal"
      BY <2>6 DEF TickOK, TickRow
    <3> QED
      BY <1>2, <2>2, <2>6, <3>1 DEF Consult, TickOK, Launching
  <2> QED
    BY <2>4, <2>5, <2>6
<1>3. CASE GoalStands
  <2>1. Wanted \in {"active", "paused"} /\ (tick.snap.desired = "on") \in BOOLEAN
    BY DEF Wanted
  <2>2. role' \in RoleRow
    BY <1>3, <2>1, RoleMoves DEF GoalStands, Errors
  <2>3. TickOK'
    BY <1>3, <2>1, MovesType DEF GoalStands, Ready, NotReady
  <2> QED
    BY <1>3, <2>2, <2>3 DEF GoalStands, TickOK
<1>4. CASE GoalWaits
  <2>1. role' \in RoleRow
    BY <1>4 DEF GoalWaits, RoleRow
  <2>2. TickOK'
    BY <1>4, MovesType DEF GoalWaits, Ready, NotReady
  <2> QED
    BY <1>4, <2>1, <2>2 DEF GoalWaits, TickOK
<1>5. CASE ClaimGoal
  <2>1. role' \in RoleRow
    BY <1>5 DEF ClaimGoal, RoleRow
  <2>2. TickOK'
    BY <1>5 DEF ClaimGoal, TickOK, TickRow, Wanted, Steps, NormalSteps, Launching
  <2> QED
    BY <1>5, <2>1, <2>2 DEF ClaimGoal, TickOK
<1>6. CASE SetGoal
  <2>1. goal' \in Goals
    BY <1>6 DEF SetGoal, TickOK, TickRow, Goals
  <2>2. TickOK'
    BY <1>6, MovesType DEF SetGoal, Steps, NormalSteps, Launching
  <2> QED
    BY <1>6, <2>1, <2>2 DEF SetGoal, TickOK
<1>7. CASE SetDone
  <2>1. role' \in RoleRow
    BY <1>7, RoleMoves DEF SetDone, TickOK, TickRow
  <2>2. [tick EXCEPT !.pc = "unset", !.same = "all"] \in TickRow /\ "unset" \notin Launching
    BY DEF TickOK, TickRow, Steps, NormalSteps, Launching
  <2>3. CASE tick' = [tick EXCEPT !.pc = "unset", !.same = "all"]
    BY <1>7, <2>1, <2>2, <2>3 DEF SetDone, TickOK, TickRow
  <2>4. CASE Ready
    BY <1>7, <2>1, <2>4, MovesType DEF SetDone, Ready, TickOK
  <2> QED
    BY <1>7, <2>3, <2>4 DEF SetDone
<1>8. CASE Unset
  BY <1>8, MovesType DEF Unset, Goals, TickOK
<1>9. CASE Interrupt
  <2>1. role' \in RoleRow /\ TickOK' /\ troubles' \in 0..MaxTroubles
    <3>1. CASE LosesAnswer
      BY <1>9, <3>1, MovesType, RoleMoves DEF LosesAnswer, RoleRow, Errors
    <3>2. CASE IsRejected
      BY <3>2, MovesType, RoleMoves DEF IsRejected, Errors
    <3> QED
      BY <1>9, <3>1, <3>2, MovesType DEF Interrupt
  <2>2. turn' \in [Turns -> {"none", "inProgress", "completed", "failed"}]
    BY <1>9 DEF Interrupt, Interrupted
  <2> QED
    BY <1>9, <2>1, <2>2 DEF Interrupt, TickOK
<1>10. ASSUME NEW d \in Dispatches, Reconcile(d) PROVE RoleOK'
  <2>1. TickOK'
    BY <1>10 DEF Reconcile, TickOK, TickRow, Launching
  <2> QED
    BY <1>10, <2>1, StoreType DEF Reconcile, Errors, TickOK
<1> QED
  BY <1>1, <1>2, <1>3, <1>4, <1>5, <1>6, <1>7, <1>8, <1>9, <1>10

\* _dispatch.
LEMMA LaunchType ==
    ASSUME RoleOK,
           \/ NotNow \/ Inject \/ InjectFails \/ Launch \/ Outcome \/ FailDispatch
           \/ \E d \in Dispatches : Prepare(d)
    PROVE  RoleOK'
<1> USE DEF DutyTypeOK, RoleOK, store, codex, people
<1>1. CASE NotNow
  BY <1>1, MovesType DEF NotNow, TickOK
<1>2. CASE Inject
  BY <1>2 DEF Inject, TickOK, TickRow, Launching, Steps, NormalSteps
<1>3. CASE InjectFails
  BY <1>3, RoleMoves DEF InjectFails, TickOK, TickRow, Launching, Steps
<1>4. CASE Launch
  <2>1. tick.d \in Dispatches /\ tick.live \in Turns \cup {None}
    BY <1>4 DEF Launch, TickOK, TickRow, Launching
  <2>2. ASSUME Carried(tick.d)
        PROVE  /\ turn' \in [Turns -> {"none", "inProgress", "completed", "failed"}]
               /\ carries' \in [Dispatches -> Turns \cup {None}]
    <3> DEFINE t == IF dispatch[tick.d].steer THEN tick.live ELSE tick.d
    <3>1. t \in Turns
      BY <2>1, <2>2 DEF Carried, Accepts, Live, Turns
    <3> QED
      BY <2>2, <3>1 DEF Carried
  <2>3. ASSUME NEW pc \in {"launched", "refused", "lost"}, GoTo(pc) PROVE TickOK'
    BY <1>4, <2>1, <2>3 DEF GoTo, TickOK, TickRow, Steps, NormalSteps
  <2>4. TickOK'
    BY <1>4, <2>3 DEF Launch
  <2>5. /\ turn' \in [Turns -> {"none", "inProgress", "completed", "failed"}]
        /\ carries' \in [Dispatches -> Turns \cup {None}] /\ troubles' \in 0..MaxTroubles
    BY <1>4, <2>2, RoleMoves DEF Launch
  <2> QED
    BY <1>4, <2>4, <2>5 DEF Launch, TickOK
<1>5. CASE Outcome
  <2>1. tick.d \in Dispatches /\ carries[tick.d] \in Turns \cup {None}
    BY <1>5 DEF Outcome, TickOK, Launching
  <2>2. /\ role' \in RoleRow /\ dispatch' \in [Dispatches -> DispatchRow]
        /\ item' \in [Items -> ItemStates]
    BY <1>5, <2>1, StoreType DEF Outcome, Marks, Errors
  <2>3. Seen' \in RoleRow
    BY <2>2, SeenRow DEF Seen
  <2>4. TickOK'
    <3>1. CASE End
      BY <3>1, MovesType DEF TickOK
    <3>2. CASE tick' = [NoTick EXCEPT !.pc = "goal", !.snap = Seen', !.activate = TRUE]
      BY <2>3, <3>2, NoTickType DEF TickOK, TickRow, NoTick, Steps, NormalSteps, Launching
    <3> QED
      BY <1>5, <3>1, <3>2 DEF Outcome
  <2> QED
    BY <1>5, <2>2, <2>4 DEF Outcome, TickOK
<1>6. CASE FailDispatch
  <2>1. tick.d \in Dispatches
    BY <1>6 DEF FailDispatch, TickOK, Launching
  <2> DEFINE failed == Marked(Tables, tick.d, "failed", None, "instruction")
  <2>2. /\ failed.role \in RoleRow /\ failed.dispatch \in [Dispatches -> DispatchRow]
        /\ failed.item \in [Items -> ItemStates]
    BY <2>1, MarkedType DEF Tables, Marks, Errors
  <2>3. /\ role' = [failed.role EXCEPT !.state = "attention", !.error = "instruction"]
        /\ dispatch' = failed.dispatch /\ item' = failed.item
    BY <1>6 DEF FailDispatch, Store, Marked
  <2> HIDE DEF failed
  <2>4. role' \in RoleRow
    BY <2>2, <2>3 DEF RoleRow, Errors
  <2>5. TickOK'
    BY <1>6, <2>4, NoTickType
       DEF FailDispatch, TickOK, NoTick, TickRow, Launching, Steps, HoldSteps
  <2> QED
    BY <1>6, <2>2, <2>3, <2>4, <2>5 DEF FailDispatch, TickOK
<1>7. ASSUME NEW d \in Dispatches, Prepare(d) PROVE RoleOK'
  <2>1. CASE Attention("other") /\ End /\ UNCHANGED <<dispatch, item>>
    BY <1>7, <2>1, MovesType, RoleMoves DEF Prepare, TickOK, Errors
  <2> DEFINE steer == tick.live # None
             new == [status |-> "starting", item |-> tick.item, steer |-> steer, turn |-> None]
  <2>2. CASE /\ dispatch' = [dispatch EXCEPT ![d] = new]
             /\ item' = IF tick.item = None THEN item ELSE [item EXCEPT ![tick.item] = "running"]
             /\ role' = IF steer THEN role ELSE [role EXCEPT !.active = d, !.state = "running"]
             /\ tick' = [tick EXCEPT !.pc = IF steer THEN "launch" ELSE "prepared", !.d = d,
                                     !.item = None]
    <3>1. new \in DispatchRow
      BY DEF DispatchRow, Unsettled, TickOK, TickRow
    <3> HIDE DEF new
    <3>2. dispatch' \in [Dispatches -> DispatchRow]
      BY <2>2, <3>1
    <3>3. item' \in [Items -> ItemStates]
      BY <2>2 DEF TickOK, TickRow, ItemStates
    <3>4. role' \in RoleRow
      BY <1>7, <2>2 DEF RoleRow
    <3>5. TickOK'
      BY <1>7, <2>2 DEF TickOK, TickRow, Steps, NormalSteps
    <3> QED
      BY <1>7, <3>2, <3>3, <3>4, <3>5 DEF Prepare, TickOK
  <2> QED
    BY <1>7, <2>1, <2>2 DEF Prepare
<1> QED
  BY <1>1, <1>2, <1>3, <1>4, <1>5, <1>6, <1>7

LEMMA HoldRows ==
    ASSUME TickOK, NEW live \in Turns \cup {None}
    PROVE  /\ tick' = [tick EXCEPT !.pc = "holdReconcile", !.live = live, !.todo = Pending]
                => TickOK'
           /\ tick' = [tick EXCEPT !.pc = "holdInterrupt", !.live = live] => TickOK'
           /\ tick' = [tick EXCEPT !.pc = "holdReconcile", !.want = "active", !.todo = Pending]
                => TickOK'
<1>1. tick \in TickRow /\ Pending \in SUBSET Dispatches
  BY DEF TickOK, Pending
<1>2. {"holdReconcile", "holdInterrupt"} \subseteq Steps \ Launching
  BY DEF Steps, HoldSteps, Launching
<1>3. ASSUME NEW pc \in Steps \ Launching, NEW todo \in SUBSET Dispatches,
             \/ tick' = [tick EXCEPT !.pc = pc, !.live = live, !.todo = todo]
             \/ tick' = [tick EXCEPT !.pc = pc, !.live = live]
             \/ tick' = [tick EXCEPT !.pc = pc, !.want = "active", !.todo = todo]
      PROVE  TickOK'
  <2>1. tick' \in TickRow /\ tick'.pc = pc
    BY <1>1, <1>3 DEF TickRow
  <2> QED
    BY <2>1 DEF TickOK
<1> QED
  BY <1>1, <1>2, <1>3

\* _reconcile_instruction_hold.
LEMMA HoldType ==
    ASSUME RoleOK,
           \/ Hold \/ HoldPause \/ HoldTurns \/ HoldNoTurn \/ HoldInterrupt \/ HoldSettled
           \/ \E d \in Dispatches : HoldReconcile(d)
    PROVE  RoleOK'
<1> USE DEF DutyTypeOK, RoleOK, store, codex, people
<1>1. {"holdPause", "holdTurns", "holdNoTurn", "holdReconcile", "holdInterrupt"}
        \subseteq Steps \ Launching
  BY DEF Steps, HoldSteps, Launching
<1>2. Pending \subseteq Dispatches
  BY DEF Pending
<1>3. CASE Hold
  BY <1>1, <1>3, MovesType DEF Hold, TickOK
<1>4. CASE HoldPause
  BY <1>1, <1>4, MovesType, RoleMoves DEF HoldPause, TickOK, Goals
<1>5. CASE HoldTurns
  <2>1. Stoppable \in Turns \cup {None}
    BY LiveTurnType DEF Stoppable, Live
  <2>2. ASSUME tick' = [tick EXCEPT !.pc = "holdReconcile", !.live = LiveTurn, !.todo = Pending]
        PROVE  TickOK'
    BY <1>1, <1>2, <2>2, LiveTurnType, HoldRows
  <2>3. ASSUME tick' = [tick EXCEPT !.pc = "holdInterrupt", !.live = Stoppable]
        PROVE  TickOK'
    BY <1>1, <2>1, <2>3, HoldRows
  <2>4. TickOK'
    BY <1>5, <2>2, <2>3, MovesType DEF HoldTurns
  <2> QED
    BY <1>5, <2>4 DEF HoldTurns, TickOK
<1>6. CASE HoldNoTurn
  <2>1. ASSUME tick' = [tick EXCEPT !.pc = "holdReconcile", !.want = "active", !.todo = Pending]
        PROVE  TickOK'
    BY <1>1, <1>2, <2>1, HoldRows
  <2>2. TickOK'
    BY <1>6, <2>1, MovesType DEF HoldNoTurn
  <2> QED
    BY <1>6, <2>2 DEF HoldNoTurn, TickOK
<1>7. CASE HoldInterrupt
  <2>1. TickOK'
    BY <1>2, <1>7, MovesType DEF HoldInterrupt, TickOK, TickRow, Steps, HoldSteps, Launching
  <2>2. turn' \in [Turns -> {"none", "inProgress", "completed", "failed"}]
    BY <1>7 DEF HoldInterrupt, Interrupted
  <2> QED
    BY <1>7, <2>1, <2>2, RoleMoves DEF HoldInterrupt, TickOK
<1>8. CASE HoldSettled
  <2>1. role' \in RoleRow
    BY <1>8 DEF HoldSettled, RoleRow, TickOK, TickRow
  <2> QED
    BY <1>8, <2>1, MovesType DEF HoldSettled, TickOK
<1>9. ASSUME NEW d \in Dispatches, HoldReconcile(d) PROVE RoleOK'
  <2>1. TickOK'
    BY <1>9, MovesType DEF HoldReconcile, TickOK, TickRow, Launching
  <2>2. tick.snap.error \in Errors
    BY DEF TickOK, TickRow, RoleRow
  <2>3. CASE Current
    BY <1>9, <2>1, <2>2, <2>3, StoreType DEF HoldReconcile, TickOK
  <2>4. CASE ~Current
    BY <1>9, <2>1, <2>4 DEF HoldReconcile, TickOK
  <2> QED
    BY <2>3, <2>4
<1> QED
  BY <1>3, <1>4, <1>5, <1>6, <1>7, <1>8, <1>9

LEMMA FaultsType ==
    ASSUME RoleOK, Faults
    PROVE  RoleOK'
<1> USE DEF DutyTypeOK, RoleOK, store, codex, people
<1>1. ASSUME LosesAnswer
      PROVE  role' \in RoleRow /\ TickOK' /\ troubles' \in 0..MaxTroubles
  BY <1>1, MovesType, RoleMoves DEF LosesAnswer, RoleRow, Errors
<1>2. ASSUME IsRejected
      PROVE  role' \in RoleRow /\ TickOK' /\ troubles' \in 0..MaxTroubles
  BY <1>2, MovesType, RoleMoves DEF IsRejected, Errors
<1>3. CASE Crash
  BY <1>3, MovesType, RoleMoves DEF Crash, TickOK
<1>4. CASE ReadFails
  BY <1>1, <1>2, <1>4 DEF ReadFails, TickOK
<1>5. CASE HoldReadFails
  BY <1>5, MovesType, RoleMoves DEF HoldReadFails, TickOK
<1>6. CASE BundleIsBad
  BY <1>6, MovesType, RoleMoves DEF BundleIsBad, TickOK, Errors
<1>7. CASE SetFails
  <2>1. goal' \in Goals
    BY <1>7 DEF SetFails, TickOK, TickRow, Goals
  <2> QED
    BY <1>1, <1>2, <1>7, <2>1 DEF SetFails, TickOK
<1>8. CASE DispatchFails
  BY <1>8, MovesType, RoleMoves DEF DispatchFails, TickOK, Errors
<1> QED
  BY <1>3, <1>4, <1>5, <1>6, <1>7, <1>8 DEF Faults

\* People and Codex leave the pass where it is.
LEMMA OutsideLeaves ==
    ASSUME RoleOK, Commands \/ Codex
    PROVE  /\ tick'.pc = tick.pc /\ tick'.d = tick.d /\ tick'.item = tick.item
           /\ tick'.live = tick.live /\ tick'.todo = tick.todo /\ tick'.want = tick.want
           /\ tick'.activate = tick.activate
           /\ tick'.snap.owned = tick.snap.owned /\ tick'.snap.desired = tick.snap.desired
           /\ tick'.snap.active = tick.snap.active
<1>1. \/ UNCHANGED tick
      \/ \E same \in {"all", "generation", "nothing"} : Behind(same)
      \/ tick' = [tick EXCEPT !.snap.asleep = FALSE]
  BY DEF Commands, Codex, Start, Stop, Sleep, Checkpoint, WakeTime, SetHold, ReconcileTurn,
         Submit, Minor, Continue, PausedByHand, Limited, TurnEnds, RoleOK, TickOK, TickRow
<1> QED
  BY <1>1 DEF Behind, RoleOK, TickOK, TickRow, RoleRow

LEMMA StepType == RoleOK /\ [DutyNext]_dutyVars => RoleOK'
<1> SUFFICES ASSUME RoleOK, [DutyNext]_dutyVars PROVE RoleOK'
  OBVIOUS
<1>1. CASE Commands \/ Codex
  <2>1. DutyTypeOK'
    BY <1>1, OutsideType DEF RoleOK
  <2> QED
    BY <1>1, <2>1, OutsideLeaves DEF RoleOK, TickOK, DutyTypeOK
<1>2. CASE Pass
  BY <1>2, GoalPassType, LaunchType, HoldType DEF Pass
<1>3. CASE Faults
  BY <1>3, FaultsType
<1>4. CASE UNCHANGED dutyVars
  BY <1>4 DEF dutyVars, RoleOK, DutyTypeOK, TickOK
<1> QED
  BY <1>1, <1>2, <1>3, <1>4 DEF DutyNext

\* The rows, the thread and the pass always have their types, and from
\* prepare_dispatch to its outcome a pass has a dispatch in its hands.
THEOREM DutyTypeCorrect == DutySpec => []RoleOK
<1>1. DutyInit => RoleOK
  <2> SUFFICES ASSUME DutyInit PROVE RoleOK
    OBVIOUS
  <2>1. tick.pc = "idle"
    BY DEF DutyInit, NoTick
  <2> QED
    BY <2>1, InitType DEF RoleOK, TickOK, DutyTypeOK, Launching
<1> QED
  BY <1>1, StepType, PTL DEF DutySpec

-----------------------------------------------------------------------------
(* The owner of a goal *)

\* Between the claim of a goal and its release, what the pass has read and asked
\* for binds Codex: an active goal is asked for only when it is claimed, and a
\* goal is given up only after it has been seen to rest, where nobody wakes it.
Watched == {"set", "setDone", "holdNoTurn", "holdTurns", "holdInterrupt", "holdReconcile"}
GoalInv ==
    /\ GoalIsOwned
    /\ tick.pc \in {"set", "setDone"} /\ tick.want = "active" =>
          role.owned /\ tick.snap.desired = "on"
    /\ tick.pc = "setDone" /\ tick.want = "paused" => goal # "active"
    /\ tick.pc = "holdNoTurn" => goal # "active"
    /\ tick.pc \in {"holdTurns", "holdInterrupt", "holdReconcile"} /\ tick.snap.owned =>
          goal # "active"

\* Settling a dispatch leaves the goal to its owner.
LEMMA MarkedOwner ==
    ASSUME NEW s, s.role \in RoleRow, NEW d, NEW status, NEW t, NEW error
    PROVE  Marked(s, d, status, t, error).role.owned = s.role.owned
BY DEF Marked, RoleMarked, RoleRow

LEMMA ReconciledOwner ==
    ASSUME DutyTypeOK, NEW d \in Dispatches, NEW ok \in Errors, NEW bad \in Errors,
           NEW lost \in Errors
    PROVE  Reconciled(d, ok, bad, lost).role.owned = role.owned
<1>1. Tables.role = role /\ role \in RoleRow
  BY DEF Tables, DutyTypeOK
<1>2. ASSUME NEW status, NEW t, NEW error
      PROVE  Marked(Tables, d, status, t, error).role.owned = role.owned
  BY <1>1, MarkedOwner
<1>3. ASSUME NEW t PROVE Judged(Tables, d, t, ok, bad).role.owned = role.owned
  BY <1>1, <1>2 DEF Judged
<1> DEFINE found == Marked(Tables, d, "running", carries[d], ok)
           end == turn[carries[d]]
<1>4. found.role \in RoleRow
  <2>1. "running" \in Marks /\ carries[d] \in Turns \cup {None}
    BY DEF Marks, DutyTypeOK
  <2> QED
    BY <1>1, <2>1, MarkedType DEF DutyTypeOK, Tables
<1>5. ASSUME NEW error PROVE Marked(found, d, end, None, error).role.owned = role.owned
  <2> HIDE DEF found, end
  <2>1. Marked(found, d, end, None, error).role.owned = found.role.owned
    BY <1>4, MarkedOwner
  <2> QED
    BY <1>2, <2>1 DEF found
<1>6. found.role.owned = role.owned
  BY <1>2
<1> HIDE DEF found, end
<1> QED
  BY <1>2, <1>3, <1>5, <1>6 DEF Reconciled, found, end

\* The pass goes where it neither sets nor watches the goal.
LEMMA GoalLeft ==
    ASSUME TickOK
    PROVE  /\ \A pc : pc \notin Watched /\ GoTo(pc) => tick'.pc \notin Watched
           /\ End => tick'.pc \notin Watched
           /\ \A launches, activate : Choose(launches, activate) => tick'.pc \notin Watched
<1>1. ASSUME NEW pc, GoTo(pc) PROVE tick'.pc = pc
  BY <1>1 DEF GoTo, TickOK, TickRow
<1>2. ASSUME End PROVE tick'.pc \notin Watched
  BY <1>2 DEF End, NoTick, Watched
<1>3. ASSUME NEW activate, Goes(activate) PROVE tick'.pc \notin Watched
  BY <1>3 DEF Goes, NoTick, Watched
<1> QED
  BY <1>1, <1>2, <1>3 DEF Choose, Watched

LEMMA GoalRests ==
    ASSUME goal' = "active" => role'.owned, tick'.pc \notin Watched
    PROVE  GoalInv'
BY DEF GoalInv, GoalIsOwned, Watched

LEMMA GoalOutside == RoleOK /\ GoalInv /\ (Commands \/ Codex) => GoalInv'
<1> SUFFICES ASSUME RoleOK, GoalInv, Commands \/ Codex PROVE GoalInv'
  OBVIOUS
<1>1. role'.owned = role.owned
  BY DEF Commands, Codex, Start, Stop, Sleep, Checkpoint, WakeTime, SetHold, ReconcileTurn,
         Submit, Continue, PausedByHand, Limited, TurnEnds, store, RoleOK, DutyTypeOK, RoleRow
<1>2. goal' = "active" => goal = "active"
  BY DEF Commands, Codex, Start, Stop, Sleep, Checkpoint, WakeTime, SetHold, ReconcileTurn,
         Submit, Continue, PausedByHand, Limited, TurnEnds, codex, GoalShown
<1> QED
  BY <1>1, <1>2, OutsideLeaves DEF GoalInv, GoalIsOwned

LEMMA GoalFaults == RoleOK /\ GoalInv /\ Faults => GoalInv'
<1> SUFFICES ASSUME RoleOK, GoalInv, Faults PROVE GoalInv'
  OBVIOUS
<1>1. tick'.pc \notin Watched
  BY GoalLeft DEF Faults, Crash, ReadFails, HoldReadFails, BundleIsBad, SetFails,
                  DispatchFails, LosesAnswer, IsRejected, RoleOK
<1>2. role'.owned = role.owned
  BY DEF Faults, Crash, ReadFails, HoldReadFails, BundleIsBad, SetFails, DispatchFails,
         LosesAnswer, IsRejected, Attention, store, RoleOK, DutyTypeOK, RoleRow
<1>3. goal' = "active" => role.owned
  BY DEF Faults, Crash, ReadFails, HoldReadFails, BundleIsBad, SetFails, DispatchFails,
         codex, GoalInv, GoalIsOwned
<1> QED
  BY <1>1, <1>2, <1>3, GoalRests

LEMMA GoalPass ==
    ASSUME RoleOK, GoalInv,
           \/ Look \/ Consult \/ GoalStands \/ GoalWaits \/ ClaimGoal \/ SetGoal \/ SetDone
           \/ Unset \/ Interrupt \/ \E d \in Dispatches : Reconcile(d)
    PROVE  GoalInv'
<1> USE DEF GoalInv, GoalIsOwned, RoleOK, store, codex
<1>1. CASE Look \/ Consult
  <2>1. CASE Look
    BY <1>1, <2>1, GoalRests DEF Look, NoTick, Watched
  <2>2. CASE Consult
    <3>1. \/ tick' = [NoTick EXCEPT !.pc = "hold", !.snap = role]
          \/ \E i : tick' = [tick EXCEPT !.pc = "goal", !.snap = Seen, !.item = i,
                                         !.d = role.active]
      BY <2>2 DEF Consult
    <3>2. tick'.pc \in {"hold", "goal"}
      BY <3>1 DEF NoTick, TickOK, TickRow
    <3> QED
      BY <2>2, <3>2, GoalRests DEF Consult, Watched
  <2> QED
    BY <1>1, <2>1, <2>2
<1>2. CASE GoalStands
  <2>1. tick'.pc \notin Watched
    BY <1>2, GoalLeft DEF GoalStands, Ready, NotReady
  <2>2. goal = "active" => role'.owned
    BY <1>2 DEF GoalStands, Attention, Applied, Wanted, GoalShown, DutyTypeOK, RoleRow
  <2> QED
    BY <1>2, <2>1, <2>2, GoalRests DEF GoalStands
<1>3. CASE GoalWaits
  <2>1. tick'.pc \notin Watched
    BY <1>3, GoalLeft DEF GoalWaits, Ready, NotReady
  <2>2. goal = "active" => role'.owned
    BY <1>3 DEF GoalWaits, DutyTypeOK, RoleRow
  <2> QED
    BY <1>3, <2>1, <2>2, GoalRests DEF GoalWaits
<1>4. CASE ClaimGoal
  <2>1. tick'.pc = "set" /\ tick'.want = Wanted /\ tick'.snap = tick.snap
    BY <1>4 DEF ClaimGoal, TickOK, TickRow
  <2>2. /\ goal' = "active" => role'.owned
        /\ Wanted = "active" => role'.owned /\ tick.snap.desired = "on"
    BY <1>4 DEF ClaimGoal, Wanted, DutyTypeOK, RoleRow
  <2> QED
    BY <2>1, <2>2
<1>5. CASE SetGoal
  <2>1. tick'.pc = "setDone" /\ tick'.want = tick.want /\ tick'.snap = tick.snap
    BY <1>5 DEF SetGoal, GoTo, TickOK, TickRow
  <2> QED
    BY <1>5, <2>1 DEF SetGoal
<1>6. CASE SetDone
  <2>1. tick'.pc \notin Watched
    <3>1. CASE Ready
      BY <3>1, GoalLeft DEF Ready
    <3>2. CASE tick' = [tick EXCEPT !.pc = "unset", !.same = "all"]
      BY <3>2 DEF TickOK, TickRow, Watched
    <3> QED
      BY <1>6, <3>1, <3>2 DEF SetDone
  <2>2. goal = "active" => role'.owned
    BY <1>6 DEF SetDone, Applied, DutyTypeOK, RoleRow, TickOK, TickRow
  <2> QED
    BY <1>6, <2>1, <2>2, GoalRests DEF SetDone
<1>7. CASE Unset
  BY <1>7, GoalLeft, GoalRests DEF Unset
<1>8. CASE Interrupt
  <2>1. tick'.pc \notin Watched
    BY <1>8, GoalLeft DEF Interrupt, LosesAnswer, IsRejected
  <2>2. role'.owned = role.owned
    BY <1>8 DEF Interrupt, LosesAnswer, IsRejected, Attention, DutyTypeOK, RoleRow
  <2> QED
    BY <1>8, <2>1, <2>2, GoalRests DEF Interrupt
<1>9. ASSUME NEW d \in Dispatches, Reconcile(d) PROVE GoalInv'
  <2>1. tick'.pc \notin Watched
    BY <1>9 DEF Reconcile, TickOK, TickRow, Watched
  <2>2. role'.owned = role.owned
    BY <1>9, ReconciledOwner DEF Reconcile, Store, Errors
  <2> QED
    BY <1>9, <2>1, <2>2, GoalRests DEF Reconcile
<1> QED
  BY <1>1, <1>2, <1>3, <1>4, <1>5, <1>6, <1>7, <1>8, <1>9

LEMMA GoalLaunch ==
    ASSUME RoleOK, GoalInv,
           \/ NotNow \/ Inject \/ InjectFails \/ Launch \/ Outcome \/ FailDispatch
           \/ \E d \in Dispatches : Prepare(d)
    PROVE  GoalInv'
<1> USE DEF GoalInv, GoalIsOwned, RoleOK, store, codex
<1>1. goal' = goal
  BY DEF NotNow, Inject, InjectFails, Launch, Outcome, FailDispatch, Prepare
<1>2. CASE NotNow
  BY <1>2, GoalLeft, GoalRests DEF NotNow
<1>3. CASE Inject \/ InjectFails
  <2>1. tick'.pc \in {"launch", "failing"}
    BY <1>3 DEF Inject, InjectFails, TickOK, TickRow
  <2> QED
    BY <1>3, <2>1, GoalRests DEF Inject, InjectFails, Watched
<1>4. CASE Launch
  <2>1. tick'.pc \in {"launched", "refused", "lost"}
    BY <1>4 DEF Launch, GoTo, TickOK, TickRow
  <2> QED
    BY <1>4, <2>1, GoalRests DEF Launch, Watched
<1>5. CASE Outcome
  <2>1. tick'.pc \in {"goal", "idle"}
    <3>1. \/ End
          \/ tick' = [NoTick EXCEPT !.pc = "goal", !.snap = Seen', !.activate = TRUE]
      BY <1>5 DEF Outcome
    <3>2. NoTick \in TickRow /\ NoTick.pc = "idle"
      BY NoTickType DEF NoTick
    <3> QED
      BY <3>1, <3>2 DEF End, TickRow
  <2>2. Tables.role = role /\ role \in RoleRow
    BY DEF Tables, DutyTypeOK
  <2>3. role'.owned = role.owned
    BY <1>5, <2>2, MarkedOwner DEF Outcome, Store
  <2> QED
    BY <1>1, <2>1, <2>3, GoalRests DEF Watched
<1>6. CASE FailDispatch
  <2>1. tick'.pc = "hold"
    BY <1>6 DEF FailDispatch, NoTick
  <2> DEFINE failed == Marked(Tables, tick.d, "failed", None, "instruction")
  <2>2. failed.role \in RoleRow /\ failed.role.owned = role.owned
    <3>1. tick.d \in Dispatches /\ "failed" \in Marks /\ "instruction" \in Errors
      BY <1>6 DEF FailDispatch, TickOK, Launching, Marks, Errors
    <3>2. /\ Tables.role = role /\ Tables.role \in RoleRow
          /\ Tables.dispatch \in [Dispatches -> DispatchRow]
          /\ Tables.item \in [Items -> ItemStates]
      BY DEF Tables, DutyTypeOK
    <3>3. failed.role.owned = role.owned
      BY <3>2, MarkedOwner
    <3>4. failed.role \in RoleRow
      BY <3>1, <3>2, MarkedType
    <3> QED
      BY <3>3, <3>4
  <2>3. role' = [failed.role EXCEPT !.state = "attention", !.error = "instruction"]
    BY <1>6 DEF FailDispatch, Store, Marked
  <2> HIDE DEF failed
  <2>4. role'.owned = role.owned
    BY <2>2, <2>3 DEF RoleRow
  <2> QED
    BY <1>1, <2>1, <2>4, GoalRests DEF Watched
<1>7. ASSUME NEW d \in Dispatches, Prepare(d) PROVE GoalInv'
  <2>1. CASE Attention("other") /\ End
    <3>1. role'.owned = role.owned
      BY <2>1 DEF Attention, DutyTypeOK, RoleRow
    <3> QED
      BY <1>1, <2>1, <3>1, GoalLeft, GoalRests
  <2>2. CASE ~(Attention("other") /\ End)
    <3> DEFINE pc == IF tick.live # None THEN "launch" ELSE "prepared"
    <3>1. /\ role' = role \/ role' = [role EXCEPT !.active = d, !.state = "running"]
          /\ tick' = [tick EXCEPT !.pc = pc, !.d = d, !.item = None]
      BY <1>7, <2>2 DEF Prepare
    <3>2. role'.owned = role.owned /\ tick'.pc = pc
      BY <3>1 DEF DutyTypeOK, RoleRow, TickOK, TickRow
    <3> QED
      BY <1>1, <3>2, GoalRests DEF Watched
  <2> QED
    BY <2>1, <2>2
<1> QED
  BY <1>2, <1>3, <1>4, <1>5, <1>6, <1>7

LEMMA GoalHold ==
    ASSUME RoleOK, GoalInv,
           \/ Hold \/ HoldPause \/ HoldTurns \/ HoldNoTurn \/ HoldInterrupt \/ HoldSettled
           \/ \E d \in Dispatches : HoldReconcile(d)
    PROVE  GoalInv'
<1> USE DEF GoalInv, GoalIsOwned, RoleOK, store, codex
<1>1. ASSUME NEW pc, GoTo(pc) PROVE tick'.pc = pc /\ tick'.snap = tick.snap
  BY <1>1 DEF GoTo, TickOK, TickRow
<1>2. ASSUME End, goal' = "active" => role'.owned PROVE GoalInv'
  BY <1>2, GoalLeft, GoalRests
<1>3. CASE Hold
  <2>1. role' = role /\ goal' = goal
    BY <1>3 DEF Hold
  <2>2. \/ End
        \/ GoTo("holdPause")
        \/ GoTo("holdTurns") /\ (tick.snap.owned => goal # "active")
        \/ GoTo("holdNoTurn") /\ goal # "active"
    BY <1>3 DEF Hold, GoalShown
  <2> QED
    BY <1>1, <1>2, <2>1, <2>2
<1>4. CASE HoldPause
  <2>1. role' = role /\ (goal' = goal \/ goal' = "paused")
    BY <1>4 DEF HoldPause
  <2>2. End \/ (GoTo("holdTurns") /\ goal' = "paused")
    BY <1>4 DEF HoldPause
  <2> QED
    BY <1>1, <1>2, <2>1, <2>2
<1>5. CASE HoldTurns
  <2>1. tick.pc = "holdTurns" /\ role' = role /\ goal' = goal
    BY <1>5 DEF HoldTurns
  <2>2. \/ End
        \/ tick'.pc \in {"holdReconcile", "holdInterrupt"} /\ tick'.snap = tick.snap
    BY <1>5 DEF HoldTurns, TickOK, TickRow
  <2> QED
    BY <1>2, <2>1, <2>2
<1>6. CASE HoldNoTurn
  <2>1. tick.pc = "holdNoTurn" /\ role' = role /\ goal' = goal
    BY <1>6 DEF HoldNoTurn
  <2>2. End \/ tick'.pc = "holdReconcile"
    BY <1>6 DEF HoldNoTurn, TickOK, TickRow
  <2> QED
    BY <1>2, <2>1, <2>2
<1>7. CASE HoldInterrupt
  <2>1. tick.pc = "holdInterrupt" /\ role' = role /\ goal' = goal
    BY <1>7 DEF HoldInterrupt
  <2>2. End \/ (tick'.pc = "holdReconcile" /\ tick'.snap = tick.snap)
    BY <1>7 DEF HoldInterrupt, TickOK, TickRow
  <2> QED
    BY <1>2, <2>1, <2>2
<1>8. CASE HoldSettled
  <2>1. goal = "active" => ~tick.snap.owned
    BY <1>8 DEF HoldSettled
  <2>2. goal' = "active" => role'.owned
    BY <1>8, <2>1 DEF HoldSettled
  <2> QED
    BY <1>2, <1>8, <2>2 DEF HoldSettled
<1>9. ASSUME NEW d \in Dispatches, HoldReconcile(d) PROVE GoalInv'
  <2>1. goal' = goal
    BY <1>9 DEF HoldReconcile
  <2>2. role'.owned = role.owned
    <3>1. tick.snap.error \in Errors
      BY DEF TickOK, TickRow, RoleRow
    <3> QED
      BY <1>9, <3>1, ReconciledOwner DEF HoldReconcile, Store
  <2>3. \/ End
        \/ tick'.pc = "holdReconcile" /\ tick'.snap = tick.snap
    BY <1>9 DEF HoldReconcile, TickOK, TickRow
  <2> QED
    BY <1>2, <1>9, <2>1, <2>2, <2>3 DEF HoldReconcile
<1> QED
  BY <1>3, <1>4, <1>5, <1>6, <1>7, <1>8, <1>9

\* A goal that Codex pursues is owned by the role, wherever a pass was cut off: the
\* claim is written before the request, and given up only for a goal at rest.
THEOREM GoalsAreOwned == DutySpec => []GoalIsOwned
<1>1. DutyInit => GoalInv
  BY DEF DutyInit, GoalInv, GoalIsOwned, NoTick
<1>2. RoleOK /\ GoalInv /\ [DutyNext]_dutyVars => GoalInv'
  <2> SUFFICES ASSUME RoleOK, GoalInv, [DutyNext]_dutyVars PROVE GoalInv'
    OBVIOUS
  <2>1. CASE Commands \/ Codex
    BY <2>1, GoalOutside
  <2>2. CASE Pass
    BY <2>2, GoalPass, GoalLaunch, GoalHold DEF Pass
  <2>3. CASE Faults
    BY <2>3, GoalFaults
  <2>4. CASE UNCHANGED dutyVars
    BY <2>4 DEF dutyVars, GoalInv, GoalIsOwned
  <2> QED
    BY <2>1, <2>2, <2>3, <2>4 DEF DutyNext
<1>3. GoalInv => GoalIsOwned
  BY DEF GoalInv
<1> QED
  BY <1>1, <1>2, <1>3, DutyTypeCorrect, PTL DEF DutySpec

-----------------------------------------------------------------------------
(* The turns that work on a message *)

\* What is carried out is carried by a turn that a launch of the role began, under
\* the name of that launch, and a row names no other turn.
Carrying ==
    /\ \A d \in Dispatches : carries[d] # None =>
          /\ carries[d] \in Dispatches /\ carries[carries[d]] = carries[d]
          /\ turn[carries[d]] # "none"
    /\ \A d \in Dispatches : dispatch[d].turn # None => dispatch[d].turn = carries[d]
    /\ \A d \in Dispatches : dispatch[d].status = "none" => carries[d] = None

\* The pass judges pending dispatches only; what it launches is pending, has not
\* been sent before, and joins a turn the role began.
Handled ==
    /\ tick.todo \subseteq Pending
    /\ tick.pc \in Launching => tick.d \in Pending
    /\ tick.pc \in {"prepared", "launch", "refused", "failing"} => carries[tick.d] = None
    /\ tick.pc \in Launching /\ dispatch[tick.d].steer =>
          tick.live \in Dispatches /\ carries[tick.live] = tick.live

Rows == TurnsAreKnown /\ ActiveStands /\ Carrying
KnownInv == Rows /\ Handled

\* One row moves on: a message still under way stays pending, and the role points
\* to it as long as it is.
RowMoves(d) ==
    /\ \A e \in Dispatches \ {d} : dispatch'[e] = dispatch[e]
    /\ dispatch'[d].steer = dispatch[d].steer
    /\ dispatch'[d].turn \in {dispatch[d].turn, carries[d]}
    /\ dispatch'[d].status \in Unsettled \/
          (dispatch'[d].status # "none" /\ carries[d] \notin Live)
    /\ role'.active = IF dispatch'[d].status \notin Unsettled /\ role.active = d
                      THEN None ELSE role.active
    /\ UNCHANGED <<turn, carries>>

LEMMA NoneIsNone == None \notin Dispatches /\ None \notin Turns /\ Native \notin Dispatches
BY RoleConstants DEF Dispatches, Turns

LEMMA RowsAfterMove ==
    ASSUME RoleOK, Rows, NEW d \in Pending, RowMoves(d)
    PROVE  Rows' /\ Pending \ {d} \subseteq Pending' /\ Pending' \subseteq Pending
<1>1. d \in Dispatches /\ dispatch[d].status \in Unsettled
  BY DEF Pending
<1>2. Live' = Live
  BY DEF RowMoves, Live
<1>3. \A e \in Dispatches \ {d} : e \in Pending' <=> e \in Pending
  BY DEF RowMoves, Pending
<1>4. d \in Pending' <=> dispatch'[d].status \in Unsettled
  BY <1>1 DEF Pending
<1>5. TurnsAreKnown'
  BY <1>1, <1>2, <1>3, <1>4 DEF Rows, TurnsAreKnown, RowMoves
<1>6. ActiveStands'
  BY <1>1, <1>3, <1>4, NoneIsNone DEF Rows, ActiveStands, RowMoves
<1>7. Carrying'
  <2>1. dispatch'[d].status # "none" /\ dispatch[d].status # "none"
    BY <1>1 DEF RowMoves, Unsettled
  <2> QED
    BY <1>1, <2>1 DEF Rows, Carrying, RowMoves
<1>8. Pending' \subseteq Dispatches
  BY DEF Pending, Dispatches
<1> QED
  BY <1>1, <1>3, <1>5, <1>6, <1>7, <1>8 DEF Rows, Pending

\* A step that leaves the rows alone and wakes no turn of theirs.
LEMMA RowsStay ==
    ASSUME Rows, dispatch' = dispatch, role'.active = role.active, carries' = carries,
           \A t \in Dispatches : /\ turn'[t] = "inProgress" => turn[t] = "inProgress"
                                 /\ turn[t] # "none" => turn'[t] # "none"
    PROVE  Rows' /\ Pending' = Pending
<1>1. Pending' = Pending
  BY DEF Pending, Dispatches
<1>2. Carrying'
  BY DEF Rows, Carrying
<1>3. TurnsAreKnown'
  BY <1>1, NoneIsNone DEF Rows, TurnsAreKnown, Carrying, Live, Turns
<1>4. ActiveStands'
  BY <1>1 DEF Rows, ActiveStands
<1> QED
  BY <1>1, <1>2, <1>3, <1>4 DEF Rows

LEMMA MarkedFacts ==
    ASSUME NEW s, s.role \in RoleRow, s.dispatch \in [Dispatches -> DispatchRow],
           NEW d \in Dispatches, NEW status \in Marks \ {"none"},
           NEW t \in Turns \cup {None}, NEW error
    PROVE  LET m == Marked(s, d, status, t, error) IN
           /\ \A e \in Dispatches \ {d} : m.dispatch[e] = s.dispatch[e]
           /\ m.dispatch[d].status = status /\ m.dispatch[d].steer = s.dispatch[d].steer
           /\ m.dispatch[d].turn = IF t = None THEN s.dispatch[d].turn ELSE t
           /\ m.role.active = IF status \in {"completed", "failed"} /\ s.role.active = d
                              THEN None ELSE s.role.active
<1>1. s.dispatch[d] \in DispatchRow
  OBVIOUS
<1>2. LET ds == [s.dispatch EXCEPT ![d].status = status,
                                   ![d].turn = IF t = None THEN @ ELSE t] IN
      /\ \A e \in Dispatches \ {d} : ds[e] = s.dispatch[e]
      /\ ds[d].status = status /\ ds[d].steer = s.dispatch[d].steer
      /\ ds[d].turn = IF t = None THEN s.dispatch[d].turn ELSE t
  BY <1>1 DEF DispatchRow
<1>3. RoleMarked(s.role, d, s.dispatch[d].status, status, error).active =
        IF status \in {"completed", "failed"} /\ s.role.active = d THEN None ELSE s.role.active
  BY DEF RoleMarked, RoleRow
<1> QED
  BY <1>2, <1>3 DEF Marked

\* mark_dispatch as a move of the row.
LEMMA SettledFacts ==
    ASSUME DutyTypeOK, NEW d \in Dispatches, NEW status \in {"completed", "failed"}, NEW error
    PROVE  LET m == Marked(Tables, d, status, None, error) IN
           /\ \A e \in Dispatches \ {d} : m.dispatch[e] = dispatch[e]
           /\ m.dispatch[d].status = status /\ m.dispatch[d].steer = dispatch[d].steer
           /\ m.dispatch[d].turn = dispatch[d].turn
           /\ m.role.active = IF role.active = d THEN None ELSE role.active
<1> DEFINE m == Marked(Tables, d, status, None, error)
<1>1. /\ Tables.role = role /\ role \in RoleRow
      /\ dispatch \in [Dispatches -> DispatchRow] /\ dispatch[d] \in DispatchRow
  BY DEF Tables, DutyTypeOK
<1>2. /\ \A e \in Dispatches \ {d} : m.dispatch[e] = dispatch[e]
      /\ m.dispatch[d].status = status
      /\ m.dispatch[d].steer = dispatch[d].steer
      /\ m.dispatch[d].turn = dispatch[d].turn
  <2>1. m.dispatch = [dispatch EXCEPT ![d].status = status,
                                      ![d].turn = IF None = None THEN @ ELSE None]
    BY DEF Marked, Tables
  <2> HIDE DEF m
  <2> QED
    BY <1>1, <2>1 DEF DispatchRow
<1>3. m.role.active = IF role.active = d THEN None ELSE role.active
  <2>1. m.role = RoleMarked(role, d, dispatch[d].status, status, error)
    BY DEF Marked, Tables
  <2> HIDE DEF m
  <2> QED
    BY <1>1, <2>1 DEF RoleMarked, RoleRow
<1> QED
  BY <1>2, <1>3

LEMMA SettleMoves ==
    ASSUME DutyTypeOK, NEW d \in Dispatches, NEW status \in {"completed", "failed"}, NEW error,
           Store(Marked(Tables, d, status, None, error)), UNCHANGED <<turn, carries>>,
           carries[d] \notin Live
    PROVE  RowMoves(d)
<1> DEFINE m == Marked(Tables, d, status, None, error)
<1>1. /\ \A e \in Dispatches \ {d} : m.dispatch[e] = dispatch[e]
      /\ m.dispatch[d].status = status /\ m.dispatch[d].steer = dispatch[d].steer
      /\ m.dispatch[d].turn = dispatch[d].turn
      /\ m.role.active = IF role.active = d THEN None ELSE role.active
  BY SettledFacts
<1>2. role' = m.role /\ dispatch' = m.dispatch
  BY DEF Store
<1> HIDE DEF m
<1> QED
  BY <1>1, <1>2 DEF RowMoves, Unsettled

LEMMA MarkMoves ==
    ASSUME DutyTypeOK, NEW d \in Dispatches, NEW status \in {"running", "unknown"}, NEW error,
           NEW t \in {None, carries[d]}, Store(Marked(Tables, d, status, t, error)),
           UNCHANGED <<turn, carries>>
    PROVE  RowMoves(d)
<1> DEFINE m == Marked(Tables, d, status, t, error)
<1>1. /\ Tables.role = role /\ Tables.dispatch = dispatch
      /\ role \in RoleRow /\ dispatch \in [Dispatches -> DispatchRow]
      /\ t \in Turns \cup {None}
  BY DEF Tables, DutyTypeOK
<1>2. status \in Marks \ {"none"} /\ status \notin {"completed", "failed"}
  BY DEF Marks
<1>3. /\ \A e \in Dispatches \ {d} : m.dispatch[e] = dispatch[e]
      /\ m.dispatch[d].status = status
      /\ m.dispatch[d].steer = dispatch[d].steer
      /\ m.dispatch[d].turn = IF t = None THEN dispatch[d].turn ELSE t
  <2>1. m.dispatch = [dispatch EXCEPT ![d].status = status,
                                      ![d].turn = IF t = None THEN @ ELSE t]
    BY DEF Marked, Tables
  <2>2. dispatch[d] \in DispatchRow
    BY <1>1
  <2> HIDE DEF m
  <2> QED
    BY <1>1, <2>1, <2>2 DEF DispatchRow
<1>4. m.role.active = role.active
  <2>1. m.role = RoleMarked(role, d, dispatch[d].status, status, error)
    BY DEF Marked, Tables
  <2> HIDE DEF m
  <2> QED
    BY <1>1, <1>2, <2>1 DEF RoleMarked, RoleRow
<1>5. role' = m.role /\ dispatch' = m.dispatch
  BY DEF Store
<1> HIDE DEF m
<1> QED
  BY <1>2, <1>3, <1>4, <1>5 DEF RowMoves, Unsettled

\* A dispatch is settled only when no turn works on it.
LEMMA ReconciledMoves ==
    ASSUME RoleOK, Rows, NEW d \in Pending, NEW ok \in Errors, NEW bad \in Errors,
           NEW lost \in Errors, Store(Reconciled(d, ok, bad, lost)), UNCHANGED <<turn, carries>>
    PROVE  RowMoves(d)
<1>1. d \in Dispatches /\ dispatch[d].status \in Unsettled
  BY DEF Pending
<1>2. /\ Tables.role = role /\ Tables.dispatch = dispatch /\ Tables.item = item
      /\ role \in RoleRow /\ dispatch \in [Dispatches -> DispatchRow]
      /\ item \in [Items -> ItemStates] /\ carries[d] \in Turns \cup {None}
      /\ None \in Turns \cup {None}
  BY <1>1 DEF Tables, RoleOK, DutyTypeOK
<1>3. ASSUME Store(Marked(Tables, d, "completed", None, ok))
             \/ Store(Marked(Tables, d, "failed", None, bad)), carries[d] \notin Live
      PROVE  RowMoves(d)
  BY <1>1, <1>3, SettleMoves DEF RoleOK
<1>4. CASE dispatch[d].turn # None
  <2> DEFINE t == dispatch[d].turn
  <2>1. Store(Judged(Tables, d, t, ok, bad)) /\ t = carries[d]
    BY <1>1, <1>4 DEF Reconciled, Rows, Carrying
  <2>2. CASE Store(Tables)
    BY <1>1, <1>2, <2>2 DEF RowMoves, Store
  <2>3. CASE ~(t = tick.live \/ turn[t] = "inProgress")
    <3>1. carries[d] \notin Live
      BY <2>1, <2>3 DEF Live
    <3>2. \/ Store(Marked(Tables, d, "completed", None, ok))
          \/ Store(Marked(Tables, d, "failed", None, bad))
      BY <2>1, <2>3 DEF Judged
    <3> QED
      BY <1>3, <3>1, <3>2
  <2> QED
    BY <2>1, <2>2, <2>3 DEF Judged
<1>5. CASE dispatch[d].turn = None /\ carries[d] = None
  <2>1. Store(Marked(Tables, d, "unknown", None, lost))
    BY <1>5 DEF Reconciled
  <2> QED
    BY <1>1, <2>1, MarkMoves DEF RoleOK
<1>6. CASE dispatch[d].turn = None /\ carries[d] # None
  <2> DEFINE found == Marked(Tables, d, "running", carries[d], ok)
             end == turn[carries[d]]
  <2>1. /\ \A e \in Dispatches \ {d} : found.dispatch[e] = dispatch[e]
        /\ found.dispatch[d].status = "running"
        /\ found.dispatch[d].steer = dispatch[d].steer
        /\ found.dispatch[d].turn = carries[d] /\ found.role.active = role.active
    BY <1>1, <1>2, <1>6, MarkedFacts DEF Marks
  <2>2. found.role \in RoleRow /\ found.dispatch \in [Dispatches -> DispatchRow]
    BY <1>1, <1>2, MarkedType DEF Marks
  <2>3. end \in {"inProgress", "completed", "failed"}
    BY <1>1, <1>2, <1>6 DEF Rows, Carrying, RoleOK, DutyTypeOK
  <2>4. CASE end = "inProgress"
    <3>1. Store(found)
      BY <1>6, <2>4 DEF Reconciled
    <3> QED
      BY <2>1, <3>1 DEF RowMoves, Store, Unsettled
  <2>5. CASE end # "inProgress"
    <3> DEFINE m == Marked(found, d, end, None, IF end = "completed" THEN ok ELSE bad)
    <3>1. role' = m.role /\ dispatch' = m.dispatch
      BY <1>6, <2>5 DEF Reconciled, Store
    <3>2. carries[d] \notin Live
      BY <2>5 DEF Live
    <3> HIDE DEF found, end
    <3>3. /\ \A e \in Dispatches \ {d} : m.dispatch[e] = found.dispatch[e]
          /\ m.dispatch[d].status = end /\ m.dispatch[d].steer = found.dispatch[d].steer
          /\ m.dispatch[d].turn = found.dispatch[d].turn
          /\ m.role.active = IF found.role.active = d THEN None ELSE found.role.active
      BY <1>1, <1>2, <2>2, <2>3, <2>5, MarkedFacts DEF Marks
    <3> HIDE DEF m
    <3> QED
      BY <2>1, <2>3, <2>5, <3>1, <3>2, <3>3 DEF RowMoves, Unsettled
  <2> QED
    BY <2>4, <2>5
<1> QED
  BY <1>4, <1>5, <1>6

\* A pass that launches nothing now, and judges what is pending or nothing.
LEMMA HandsFree ==
    ASSUME Rows', tick'.todo \subseteq Pending', tick'.pc \notin Launching
    PROVE  KnownInv'
BY DEF KnownInv, Handled, Launching

LEMMA KnownMoves ==
    ASSUME TickOK
    PROVE  /\ \A pc \in Steps \ Launching :
                GoTo(pc) => tick'.todo = tick.todo /\ tick'.pc \notin Launching
           /\ End => tick'.todo = {} /\ tick'.pc \notin Launching
           /\ \A launches, activate : Choose(launches, activate) =>
                tick'.todo \subseteq tick.todo /\ tick'.pc \notin Launching
<1>1. ASSUME NEW pc \in Steps \ Launching, GoTo(pc)
      PROVE  tick'.todo = tick.todo /\ tick'.pc \notin Launching
  BY <1>1 DEF GoTo, TickOK, TickRow
<1>2. ASSUME End PROVE tick'.todo = {} /\ tick'.pc \notin Launching
  BY <1>2 DEF End, NoTick, Launching
<1>3. ASSUME NEW activate, Goes(activate) PROVE tick'.todo = {} /\ tick'.pc \notin Launching
  BY <1>3 DEF Goes, NoTick, Launching
<1>4. "interrupt" \in Steps \ Launching
  BY DEF Steps, NormalSteps, Launching
<1> QED
  BY <1>1, <1>2, <1>3, <1>4 DEF Choose

\* What a turn does when it ends or is interrupted, and when the goal goes on.
LEMMA TurnsRest ==
    ASSUME RoleOK,
           \/ turn' = turn \/ (\E t \in Turns : TurnEnds(t)) \/ Continue
           \/ \E t : Interrupted(t)
    PROVE  \A t \in Dispatches : /\ turn'[t] = "inProgress" => turn[t] = "inProgress"
                                 /\ turn[t] # "none" => turn'[t] # "none"
<1>1. /\ Dispatches \subseteq Turns
      /\ turn \in [Turns -> {"none", "inProgress", "completed", "failed"}]
  BY DEF Turns, RoleOK, DutyTypeOK
<1>2. CASE turn' = turn
  BY <1>2
<1>3. ASSUME NEW t \in Turns, TurnEnds(t)
      PROVE  \A u \in Dispatches : /\ turn'[u] = "inProgress" => turn[u] = "inProgress"
                                   /\ turn[u] # "none" => turn'[u] # "none"
  BY <1>1, <1>3, NoneIsNone DEF TurnEnds
<1>4. CASE Continue
  BY <1>1, <1>4, NoneIsNone DEF Continue
<1>5. ASSUME NEW t, Interrupted(t)
      PROVE  \A u \in Dispatches : /\ turn'[u] = "inProgress" => turn[u] = "inProgress"
                                   /\ turn[u] # "none" => turn'[u] # "none"
  BY <1>1, <1>5, NoneIsNone DEF Interrupted
<1> QED
  BY <1>2, <1>3, <1>4, <1>5

LEMMA KnownOutside == RoleOK /\ KnownInv /\ (Commands \/ Codex) => KnownInv'
<1> SUFFICES ASSUME RoleOK, KnownInv, Commands \/ Codex PROVE KnownInv'
  OBVIOUS
<1>1. ASSUME NEW d \in Dispatches, ReconcileTurn(d) PROVE KnownInv'
  <2>1. d \in Pending /\ RowMoves(d)
    BY <1>1 DEF ReconcileTurn, Pending, Unsettled, RowMoves, codex, RoleOK, DutyTypeOK,
                DispatchRow
  <2>2. Pending' = Pending
    BY <1>1, <2>1 DEF ReconcileTurn, Pending, Unsettled, RowMoves, RoleOK, DutyTypeOK,
                DispatchRow, Dispatches
  <2>3. dispatch'[tick.d].steer = dispatch[tick.d].steer \/ tick.pc \notin Launching
    BY <2>1, OutsideLeaves DEF RowMoves, RoleOK, TickOK
  <2> QED
    BY <2>1, <2>2, <2>3, RowsAfterMove, OutsideLeaves DEF KnownInv, Handled, RowMoves
<1>2. CASE ~\E d \in Dispatches : ReconcileTurn(d)
  <2>1. dispatch' = dispatch /\ carries' = carries /\ role'.active = role.active
    BY <1>2 DEF Commands, Codex, Start, Stop, Sleep, Checkpoint, WakeTime, SetHold, Submit,
         Continue, PausedByHand, Limited, TurnEnds, store, codex, RoleOK, DutyTypeOK, RoleRow
  <2>2. turn' = turn \/ (\E t \in Turns : TurnEnds(t)) \/ Continue
    BY <1>2 DEF Commands, Codex, Start, Stop, Sleep, Checkpoint, WakeTime, SetHold, Submit,
         PausedByHand, Limited, codex
  <2>3. Rows' /\ Pending' = Pending
    BY <2>1, <2>2, TurnsRest, RowsStay DEF KnownInv
  <2> QED
    BY <2>1, <2>3, OutsideLeaves DEF KnownInv, Handled
<1> QED
  BY <1>1, <1>2

LEMMA KnownFaults == RoleOK /\ KnownInv /\ Faults => KnownInv'
<1> SUFFICES ASSUME RoleOK, KnownInv, Faults PROVE KnownInv'
  OBVIOUS
<1>1. tick'.todo = {} /\ tick'.pc \notin Launching
  BY KnownMoves DEF Faults, Crash, ReadFails, HoldReadFails, BundleIsBad, SetFails,
                    DispatchFails, LosesAnswer, IsRejected, RoleOK
<1>2. dispatch' = dispatch /\ carries' = carries /\ turn' = turn
      /\ role'.active = role.active
  BY DEF Faults, Crash, ReadFails, HoldReadFails, BundleIsBad, SetFails, DispatchFails,
         LosesAnswer, IsRejected, Attention, store, codex, RoleOK, DutyTypeOK, RoleRow
<1>3. Rows'
  BY <1>2, RowsStay DEF KnownInv
<1> QED
  BY <1>1, <1>3, HandsFree

LEMMA KnownPass ==
    ASSUME RoleOK, KnownInv,
           \/ Look \/ Consult \/ GoalStands \/ GoalWaits \/ ClaimGoal \/ SetGoal \/ SetDone
           \/ Unset \/ Interrupt \/ \E d \in Dispatches : Reconcile(d)
    PROVE  KnownInv'
<1> USE DEF RoleOK, store, codex
<1>1. ASSUME NEW d \in Dispatches, Reconcile(d) PROVE KnownInv'
  <2>1. d \in Pending
    BY <1>1 DEF Reconcile, IsNext, KnownInv, Handled
  <2>2. RowMoves(d)
    <3>1. Store(Reconciled(d, "none", "other", "launch_unknown")) /\ UNCHANGED <<turn, carries>>
      BY <1>1 DEF Reconcile
    <3>2. {"none", "other", "launch_unknown"} \subseteq Errors
      BY DEF Errors
    <3> QED
      BY <2>1, <3>1, <3>2, ReconciledMoves DEF KnownInv
  <2>3. Rows' /\ Pending \ {d} \subseteq Pending'
    BY <2>1, <2>2, RowsAfterMove DEF KnownInv
  <2>4. tick'.todo = tick.todo \ {d} /\ tick'.pc \notin Launching
    BY <1>1 DEF Reconcile, TickOK, TickRow, Launching
  <2> QED
    BY <2>3, <2>4, HandsFree DEF KnownInv, Handled
<1>2. CASE ~\E d \in Dispatches : Reconcile(d)
  <2>1. dispatch' = dispatch /\ carries' = carries
    BY <1>2 DEF Look, Consult, GoalStands, GoalWaits, ClaimGoal, SetGoal, SetDone, Unset,
                Interrupt
  <2>2. role'.active = role.active
    BY <1>2 DEF Look, Consult, GoalStands, GoalWaits, ClaimGoal, SetGoal, SetDone, Unset,
                Interrupt, Applied, Attention, LosesAnswer, IsRejected, DutyTypeOK, RoleRow
  <2>3. turn' = turn \/ \E t : Interrupted(t)
    BY <1>2 DEF Look, Consult, GoalStands, GoalWaits, ClaimGoal, SetGoal, SetDone, Unset,
                Interrupt
  <2>4. Rows' /\ Pending' = Pending
    BY <2>1, <2>2, <2>3, TurnsRest, RowsStay DEF KnownInv
  <2>5. tick'.pc \notin Launching /\ tick'.todo \subseteq Pending
    <3>1. tick.todo \subseteq Pending
      BY DEF KnownInv, Handled
    <3>2. CASE Look
      BY <3>2 DEF Look, NoTick, Launching
    <3>3. CASE Consult
      <4>1. \/ tick' = [NoTick EXCEPT !.pc = "hold", !.snap = role]
            \/ \E i : tick' = [tick EXCEPT !.pc = "goal", !.snap = Seen, !.item = i,
                                           !.d = role.active]
        BY <3>3 DEF Consult
      <4>2. tick'.pc \in {"hold", "goal"} /\ tick'.todo \in {{}, tick.todo}
        BY <4>1 DEF NoTick, TickOK, TickRow
      <4> QED
        BY <3>1, <4>2 DEF Launching
    <3>4. CASE GoalStands \/ GoalWaits
      BY <3>1, <3>4, KnownMoves DEF GoalStands, GoalWaits, Ready, NotReady
    <3>5. CASE ClaimGoal
      BY <3>1, <3>5 DEF ClaimGoal, TickOK, TickRow, Launching
    <3>6. CASE SetGoal
      BY <3>1, <3>6, KnownMoves DEF SetGoal, Steps, NormalSteps, Launching
    <3>7. CASE SetDone
      <4>1. CASE Ready
        BY <3>1, <4>1, KnownMoves DEF Ready
      <4>2. CASE tick' = [tick EXCEPT !.pc = "unset", !.same = "all"]
        BY <3>1, <4>2 DEF TickOK, TickRow, Launching
      <4> QED
        BY <3>7, <4>1, <4>2 DEF SetDone
    <3>8. CASE Unset \/ Interrupt
      BY <3>8, KnownMoves DEF Unset, Interrupt, LosesAnswer, IsRejected
    <3> QED
      BY <1>2, <3>2, <3>3, <3>4, <3>5, <3>6, <3>7, <3>8
  <2> QED
    BY <2>4, <2>5, HandsFree
<1> QED
  BY <1>1, <1>2

LEMMA KnownHold ==
    ASSUME RoleOK, KnownInv,
           \/ Hold \/ HoldPause \/ HoldTurns \/ HoldNoTurn \/ HoldInterrupt \/ HoldSettled
           \/ \E d \in Dispatches : HoldReconcile(d)
    PROVE  KnownInv'
<1> USE DEF RoleOK, store, codex
<1>1. ASSUME NEW d \in Dispatches, HoldReconcile(d), Current PROVE KnownInv'
  <2>1. d \in Pending
    BY <1>1 DEF HoldReconcile, IsNext, KnownInv, Handled
  <2>2. RowMoves(d)
    <3>1. tick.snap.error \in Errors
      BY DEF TickOK, TickRow, RoleRow
    <3>2. /\ Store(Reconciled(d, tick.snap.error, tick.snap.error, tick.snap.error))
          /\ UNCHANGED <<turn, carries>>
      BY <1>1 DEF HoldReconcile
    <3> QED
      BY <2>1, <3>1, <3>2, ReconciledMoves DEF KnownInv
  <2>3. Rows' /\ Pending \ {d} \subseteq Pending'
    BY <2>1, <2>2, RowsAfterMove DEF KnownInv
  <2>4. tick'.todo = tick.todo \ {d} /\ tick'.pc \notin Launching
    BY <1>1 DEF HoldReconcile, TickOK, TickRow, Launching
  <2> QED
    BY <2>3, <2>4, HandsFree DEF KnownInv, Handled
<1>2. CASE ~\E d \in Dispatches : HoldReconcile(d) /\ Current
  <2>1. dispatch' = dispatch /\ carries' = carries
    BY <1>2 DEF Hold, HoldPause, HoldTurns, HoldNoTurn, HoldInterrupt, HoldSettled,
                HoldReconcile
  <2>2. role'.active = role.active
    BY <1>2 DEF Hold, HoldPause, HoldTurns, HoldNoTurn, HoldInterrupt, HoldSettled,
                HoldReconcile, DutyTypeOK, RoleRow
  <2>3. turn' = turn \/ \E t : Interrupted(t)
    BY <1>2 DEF Hold, HoldPause, HoldTurns, HoldNoTurn, HoldInterrupt, HoldSettled,
                HoldReconcile
  <2>4. Rows' /\ Pending' = Pending
    BY <2>1, <2>2, <2>3, TurnsRest, RowsStay DEF KnownInv
  <2>5. tick'.pc \notin Launching /\ tick'.todo \subseteq Pending
    <3>1. tick.todo \subseteq Pending
      BY DEF KnownInv, Handled
    <3>2. {"holdPause", "holdTurns", "holdNoTurn"} \subseteq Steps \ Launching
      BY DEF Steps, HoldSteps, Launching
    <3>3. CASE Hold \/ HoldPause \/ HoldSettled
      BY <3>1, <3>2, <3>3, KnownMoves DEF Hold, HoldPause, HoldSettled
    <3>4. CASE HoldTurns
      BY <3>1, <3>4, KnownMoves DEF HoldTurns, TickOK, TickRow, Launching
    <3>5. CASE HoldNoTurn
      BY <3>1, <3>5, KnownMoves DEF HoldNoTurn, TickOK, TickRow, Launching
    <3>6. CASE HoldInterrupt
      BY <3>1, <3>6, KnownMoves DEF HoldInterrupt, TickOK, TickRow, Launching
    <3>7. CASE \E d \in Dispatches : HoldReconcile(d)
      BY <1>2, <3>7, KnownMoves DEF HoldReconcile
    <3> QED
      BY <3>3, <3>4, <3>5, <3>6, <3>7
  <2> QED
    BY <2>4, <2>5, HandsFree
<1> QED
  BY <1>1, <1>2

\* A new row is pending and has been sent to nobody.
LEMMA KnownPrepare ==
    ASSUME RoleOK, KnownInv, NEW d \in Dispatches, Prepare(d)
    PROVE  KnownInv'
<1> USE DEF RoleOK, store, codex
<1>1. turn' = turn /\ carries' = carries /\ d \notin Pending /\ carries[d] = None
  BY DEF Prepare, Pending, Unsettled, KnownInv, Rows, Carrying
<1>2. CASE Attention("other") /\ End /\ UNCHANGED dispatch
  <2>1. role'.active = role.active
    BY <1>2 DEF Attention, DutyTypeOK, RoleRow
  <2>2. Rows'
    BY <1>1, <1>2, <2>1, RowsStay DEF KnownInv
  <2> QED
    BY <1>2, <2>2, KnownMoves, HandsFree
<1>3. CASE ~(Attention("other") /\ End /\ UNCHANGED dispatch)
  <2> DEFINE steer == tick.live # None
             new == [status |-> "starting", item |-> tick.item, steer |-> steer, turn |-> None]
             pc == IF steer THEN "launch" ELSE "prepared"
  <2>1. /\ dispatch' = [dispatch EXCEPT ![d] = new]
        /\ role' = IF steer THEN role ELSE [role EXCEPT !.active = d, !.state = "running"]
        /\ tick' = [tick EXCEPT !.pc = pc, !.d = d, !.item = None]
        /\ ~steer => role.active = None
        /\ steer => \E e \in Pending : dispatch[e].turn = tick.live
    BY <1>3 DEF Prepare
  <2>2. /\ \A e \in Dispatches \ {d} : dispatch'[e] = dispatch[e]
        /\ dispatch'[d].status = "starting" /\ dispatch'[d].steer = steer
        /\ dispatch'[d].turn = None
    BY <2>1 DEF DutyTypeOK
  <2>3. role'.active = IF steer THEN role.active ELSE d
    BY <2>1 DEF DutyTypeOK, RoleRow
  <2>4. /\ tick'.pc \in {"launch", "prepared"} /\ tick'.d = d /\ tick'.todo = tick.todo
        /\ tick'.live = tick.live
    BY <2>1 DEF TickOK, TickRow
  <2>5. Pending' = Pending \cup {d}
    BY <2>2 DEF Pending, Unsettled, Dispatches
  <2> HIDE DEF new, pc
  <2>6. TurnsAreKnown'
    BY <1>1, <2>5 DEF KnownInv, Rows, TurnsAreKnown, Live
  <2>7. ActiveStands'
    <3> SUFFICES ASSUME NEW e \in Dispatches
                 PROVE  role'.active = e <=> e \in Pending' /\ ~dispatch'[e].steer
      BY DEF ActiveStands, Dispatches
    <3>1. role.active = e <=> e \in Pending /\ ~dispatch[e].steer
      BY DEF KnownInv, Rows, ActiveStands
    <3>2. role.active # d
      BY <1>1 DEF KnownInv, Rows, ActiveStands
    <3>3. ~steer => role.active # e
      BY <2>1, NoneIsNone
    <3>4. CASE e = d
      BY <2>2, <2>3, <2>5, <3>2, <3>4
    <3>5. CASE e # d
      BY <2>2, <2>3, <2>5, <3>1, <3>3, <3>5
    <3> QED
      BY <3>4, <3>5
  <2>8. Carrying'
    BY <1>1, <2>2 DEF KnownInv, Rows, Carrying
  <2>9. steer => tick.live \in Dispatches /\ carries[tick.live] = tick.live
    BY <2>1 DEF KnownInv, Rows, Carrying, Pending
  <2> QED
    BY <1>1, <2>2, <2>4, <2>5, <2>6, <2>7, <2>8, <2>9 DEF KnownInv, Rows, Handled
<1> QED
  BY <1>2, <1>3

\* Codex carries a pending message for the first time.
LEMMA KnownLaunch ==
    ASSUME RoleOK, KnownInv, Launch
    PROVE  KnownInv'
<1> USE DEF RoleOK, store, codex
<1> DEFINE d == tick.d
<1>1. /\ tick.pc = "launch" /\ d \in Dispatches /\ d \in Pending /\ carries[d] = None
      /\ dispatch' = dispatch /\ role' = role
  BY DEF Launch, KnownInv, Handled, TickOK, Launching
<1>2. tick'.pc \in {"launched", "refused", "lost"} /\ tick' = [tick EXCEPT !.pc = tick'.pc]
  BY DEF Launch, GoTo, TickOK, TickRow
<1>3. /\ tick'.d = d /\ tick'.todo = tick.todo /\ tick'.live = tick.live
  BY <1>2 DEF TickOK, TickRow
<1>4. Pending' = Pending
  BY <1>1 DEF Pending, Dispatches
<1>5. tick'.pc = "refused" => UNCHANGED <<turn, carries>>
  BY DEF Launch, GoTo, TickOK, TickRow
<1>6. CASE UNCHANGED <<turn, carries>>
  <2>1. Rows'
    BY <1>1, <1>6, RowsStay DEF KnownInv
  <2> QED
    BY <1>1, <1>2, <1>3, <1>4, <1>6, <2>1 DEF KnownInv, Handled, Launching
<1>7. CASE Carried(d)
  <2> DEFINE t == IF dispatch[d].steer THEN tick.live ELSE d
  <2>1. /\ t \in Dispatches /\ (t = d \/ (carries[t] = t /\ turn[t] = "inProgress"))
    BY <1>1, <1>7 DEF Carried, Accepts, Live, KnownInv, Handled, Launching
  <2>2. /\ carries'[d] = t /\ \A e \in Dispatches \ {d} : carries'[e] = carries[e]
        /\ turn'[t] = "inProgress" /\ \A u \in Turns \ {t} : turn'[u] = turn[u]
        /\ carries' = [carries EXCEPT ![d] = t]
    BY <1>1, <1>7, <2>1 DEF Carried, DutyTypeOK, Turns
  <2> HIDE DEF t
  <2>3. carries'[t] = t /\ t # None
    BY <1>1, <2>1, <2>2, NoneIsNone
  <2>4. \A e \in Dispatches \ {d} : carries[e] # None => carries[e] # d
    BY <1>1, NoneIsNone DEF KnownInv, Rows, Carrying
  <2>5. TurnsAreKnown'
    <3> SUFFICES ASSUME NEW e \in Dispatches, carries'[e] \in Live' PROVE e \in Pending'
      BY DEF TurnsAreKnown, Dispatches
    <3>1. CASE e = d
      BY <1>1, <1>4, <3>1
    <3>2. CASE e # d
      <4>1. carries[e] \in Turns /\ turn'[carries[e]] = "inProgress"
        BY <2>2, <3>2 DEF Live, Turns, Dispatches
      <4>2. carries[e] # d
        BY <2>4, <3>2, <4>1, NoneIsNone
      <4>3. turn[carries[e]] = "inProgress"
        BY <2>1, <2>2, <4>1, <4>2
      <4> QED
        BY <1>4, <4>1, <4>3 DEF KnownInv, Rows, TurnsAreKnown, Live
    <3> QED
      BY <3>1, <3>2
  <2>6. ActiveStands'
    BY <1>1, <1>4 DEF KnownInv, Rows, ActiveStands
  <2>7. Carrying'
    <3>1. ASSUME NEW e \in Dispatches, carries'[e] # None
          PROVE  /\ carries'[e] \in Dispatches /\ carries'[carries'[e]] = carries'[e]
                 /\ turn'[carries'[e]] # "none"
      <4>1. CASE e = d
        BY <2>1, <2>2, <2>3, <4>1
      <4>2. CASE e # d
        <5>1. /\ carries'[e] = carries[e] /\ carries[e] \in Dispatches
              /\ carries[carries[e]] = carries[e] /\ turn[carries[e]] # "none"
              /\ carries[e] # d
          BY <2>2, <2>4, <3>1, <4>2 DEF KnownInv, Rows, Carrying
        <5>2. turn'[carries[e]] # "none"
          BY <2>2, <5>1 DEF Turns
        <5> QED
          BY <2>2, <5>1, <5>2
      <4> QED
        BY <4>1, <4>2
    <3>2. \A e \in Dispatches : dispatch[e].turn # None => dispatch[e].turn = carries'[e]
      BY <1>1, <2>2 DEF KnownInv, Rows, Carrying
    <3>3. \A e \in Dispatches : dispatch[e].status = "none" => carries'[e] = None
      BY <1>1, <2>2 DEF KnownInv, Rows, Carrying, Pending, Unsettled
    <3> QED
      BY <1>1, <3>1, <3>2, <3>3 DEF Carrying, Dispatches
  <2>8. dispatch[d].steer => tick.live \in Dispatches /\ carries'[tick.live] = tick.live
    BY <1>1, <2>1, <2>2, <2>3 DEF t, KnownInv, Handled, Launching
  <2>9. tick'.pc # "refused"
    BY <1>1, <1>5, <2>2, <2>3
  <2> QED
    BY <1>1, <1>2, <1>3, <1>4, <2>5, <2>6, <2>7, <2>8, <2>9
       DEF KnownInv, Rows, Handled, Launching
<1> QED
  BY <1>6, <1>7 DEF Launch

\* What became of a launch.
LEMMA KnownOutcome ==
    ASSUME RoleOK, KnownInv, Outcome \/ FailDispatch
    PROVE  KnownInv'
<1> USE DEF RoleOK, store, codex
<1> DEFINE d == tick.d
<1>1. d \in Dispatches /\ d \in Pending /\ UNCHANGED <<turn, carries>>
  BY DEF Outcome, FailDispatch, KnownInv, Handled, TickOK, Launching
<1>2. tick.pc \in {"refused", "failing"} => carries[d] \notin Live
  BY NoneIsNone DEF KnownInv, Handled, Live
<1>3. RowMoves(d)
  <2>1. CASE Outcome
    <3>1. CASE tick.pc = "launched" /\ Store(Marked(Tables, d, "running", carries[d], "none"))
      BY <1>1, <3>1, MarkMoves
    <3>2. CASE tick.pc = "refused" /\ Store(Marked(Tables, d, "failed", None, "rejected"))
      BY <1>1, <1>2, <3>2, SettleMoves
    <3>3. CASE tick.pc = "lost" /\ Store(Marked(Tables, d, "unknown", None, "launch_unknown"))
      BY <1>1, <3>3, MarkMoves
    <3> QED
      BY <2>1, <3>1, <3>2, <3>3 DEF Outcome
  <2>2. CASE FailDispatch
    <3> DEFINE failed == Marked(Tables, d, "failed", None, "instruction")
    <3>1. /\ Tables.role = role /\ Tables.dispatch = dispatch
          /\ Tables.role \in RoleRow /\ Tables.dispatch \in [Dispatches -> DispatchRow]
          /\ Tables.item \in [Items -> ItemStates]
      BY DEF Tables, DutyTypeOK
    <3>2. failed.role \in RoleRow
      BY <1>1, <3>1, MarkedType DEF Marks, Errors
    <3>3. /\ \A e \in Dispatches \ {d} : failed.dispatch[e] = dispatch[e]
          /\ failed.dispatch[d].status = "failed"
          /\ failed.dispatch[d].steer = dispatch[d].steer
          /\ failed.dispatch[d].turn = dispatch[d].turn
          /\ failed.role.active = IF role.active = d THEN None ELSE role.active
      BY <1>1, SettledFacts
    <3>4. /\ role' = [failed.role EXCEPT !.state = "attention", !.error = "instruction"]
          /\ dispatch' = failed.dispatch
      BY <2>2 DEF FailDispatch, Store, Marked
    <3>5. tick.pc = "failing"
      BY <2>2 DEF FailDispatch
    <3> HIDE DEF failed
    <3>6. role'.active = failed.role.active
      BY <3>2, <3>4 DEF RoleRow
    <3> QED
      BY <1>1, <1>2, <3>3, <3>4, <3>5, <3>6 DEF RowMoves, Unsettled
  <2> QED
    BY <2>1, <2>2
<1>4. Rows'
  BY <1>1, <1>3, RowsAfterMove DEF KnownInv
<1>5. tick'.todo = {} /\ tick'.pc \notin Launching
  <2>1. \/ End
        \/ tick' = [NoTick EXCEPT !.pc = "goal", !.snap = Seen', !.activate = TRUE]
        \/ tick' = [NoTick EXCEPT !.pc = "hold", !.snap = role']
    BY DEF Outcome, FailDispatch
  <2>2. NoTick \in TickRow /\ NoTick.todo = {} /\ NoTick.pc = "idle"
    BY NoTickType DEF NoTick
  <2> QED
    BY <2>1, <2>2 DEF End, TickRow, Launching
<1> QED
  BY <1>4, <1>5, HandsFree

LEMMA KnownSteps ==
    ASSUME RoleOK, KnownInv,
           \/ NotNow \/ Inject \/ InjectFails \/ Launch \/ Outcome \/ FailDispatch
           \/ \E d \in Dispatches : Prepare(d)
    PROVE  KnownInv'
<1>1. CASE NotNow
  <2>1. Rows'
    BY <1>1, RowsStay DEF NotNow, store, codex, KnownInv
  <2> QED
    BY <1>1, <2>1, KnownMoves, HandsFree DEF NotNow, RoleOK
<1>2. CASE Inject \/ InjectFails
  <2>1. /\ dispatch' = dispatch /\ role' = role /\ turn' = turn /\ carries' = carries
        /\ tick.pc = "prepared"
    BY <1>2 DEF Inject, InjectFails, store, codex
  <2>2. Rows' /\ Pending' = Pending
    BY <2>1, RowsStay DEF KnownInv
  <2>3. /\ tick'.pc \in {"launch", "failing"} /\ tick'.d = tick.d /\ tick'.todo = tick.todo
        /\ tick'.live = tick.live
    BY <1>2 DEF Inject, InjectFails, RoleOK, TickOK, TickRow
  <2> QED
    BY <2>1, <2>2, <2>3 DEF KnownInv, Handled, Launching
<1> QED
  BY <1>1, <1>2, KnownPrepare, KnownLaunch, KnownOutcome

LEMMA KnownAlways == DutySpec => []KnownInv
<1>1. DutyInit => KnownInv
  <2> SUFFICES ASSUME DutyInit PROVE KnownInv
    OBVIOUS
  <2>1. /\ Pending = {} /\ Live = {} /\ tick.pc = "idle" /\ tick.todo = {}
        /\ role.active = None /\ \A d \in Dispatches : carries[d] = None
        /\ \A d \in Dispatches : dispatch[d].turn = None
    BY DEF DutyInit, Pending, Unsettled, Live, NoTick, OffDuty
  <2> QED
    BY <2>1, NoneIsNone
       DEF KnownInv, Rows, TurnsAreKnown, ActiveStands, Carrying, Handled, Launching
<1>2. RoleOK /\ KnownInv /\ [DutyNext]_dutyVars => KnownInv'
  <2> SUFFICES ASSUME RoleOK, KnownInv, [DutyNext]_dutyVars PROVE KnownInv'
    OBVIOUS
  <2>1. CASE Commands \/ Codex
    BY <2>1, KnownOutside
  <2>2. CASE Pass
    BY <2>2, KnownPass, KnownSteps, KnownHold DEF Pass
  <2>3. CASE Faults
    BY <2>3, KnownFaults
  <2>4. CASE UNCHANGED dutyVars
    <3>1. Rows' /\ Pending' = Pending
      BY <2>4, RowsStay DEF dutyVars, KnownInv
    <3> QED
      BY <2>4, <3>1 DEF dutyVars, KnownInv, Handled
  <2> QED
    BY <2>1, <2>2, <2>3, <2>4 DEF DutyNext
<1> QED
  BY <1>1, <1>2, DutyTypeCorrect, PTL DEF DutySpec

\* The agent works on no message that the role has forgotten: an answer may be
\* lost, and a pass be cut off, anywhere between prepare_dispatch and mark_dispatch.
THEOREM TurnsStayKnown == DutySpec => []TurnsAreKnown
<1>1. KnownInv => TurnsAreKnown
  BY DEF KnownInv, Rows
<1> QED
  BY <1>1, KnownAlways, PTL

\* The role points to the one launch that may be under way, and to no other row.
THEOREM LaunchStands == DutySpec => []ActiveStands
<1>1. KnownInv => ActiveStands
  BY DEF KnownInv, Rows
<1> QED
  BY <1>1, KnownAlways, PTL

-----------------------------------------------------------------------------
(* What the receipts tell *)

\* An event is in one row at most, and its receipt says of it what the row says; a row is
\* settled as its turn ended.
Told ==
    /\ \A d, e \in Dispatches :
          dispatch[d].item # None /\ dispatch[d].item = dispatch[e].item => d = e
    /\ \A d \in Dispatches : dispatch[d].item # None =>
          /\ item[dispatch[d].item] \notin {"none", "queued"}
          /\ item[dispatch[d].item] = "completed" <=> dispatch[d].status = "completed"
          /\ item[dispatch[d].item] = "failed" <=> dispatch[d].status = "failed"
    /\ \A i \in Items : item[i] \notin {"none", "queued"} =>
          \E d \in Dispatches : dispatch[d].item = i
    /\ \A d \in Dispatches : dispatch[d].status = "none" => dispatch[d].item = None
    /\ \A d \in Dispatches :
          /\ dispatch[d].status = "completed" =>
                carries[d] # None /\ turn[carries[d]] = "completed"
          /\ dispatch[d].status = "failed" /\ carries[d] # None =>
                turn[carries[d]] = "failed"

\* The event a pass is about to send waits for it.
Chosen == tick.item # None => item[tick.item] = "queued"
ToldInv == Told /\ Chosen

\* The row and the receipt move on together.
ReceiptMoves(d) ==
    /\ \A e \in Dispatches \ {d} : dispatch'[e] = dispatch[e]
    /\ dispatch'[d].item = dispatch[d].item
    /\ dispatch'[d].status \in Marks \ {"none"}
    /\ item' = IF dispatch[d].item = None THEN item
               ELSE [item EXCEPT ![dispatch[d].item] = dispatch'[d].status]
    /\ dispatch'[d].status = "completed" =>
          carries[d] # None /\ turn[carries[d]] = "completed"
    /\ dispatch'[d].status = "failed" /\ carries[d] # None => turn[carries[d]] = "failed"
    /\ UNCHANGED <<turn, carries>>

LEMMA ToldAfterMove ==
    ASSUME RoleOK, ToldInv, NEW d \in Pending, ReceiptMoves(d), tick'.item \in {tick.item, None}
    PROVE  ToldInv'
<1>1. /\ d \in Dispatches /\ dispatch[d].status \in Unsettled
      /\ item \in [Items -> ItemStates] /\ dispatch \in [Dispatches -> DispatchRow]
      /\ \A e \in Dispatches : dispatch[e].item \in Items \cup {None}
      /\ tick.item \in Items \cup {None}
  BY DEF Pending, RoleOK, DutyTypeOK, DispatchRow, TickRow
<1>2. \A e \in Dispatches : dispatch'[e].item = dispatch[e].item
  BY <1>1 DEF ReceiptMoves
<1>3. \A i \in Items : i # dispatch[d].item => item'[i] = item[i]
  BY <1>1 DEF ReceiptMoves
<1>4. dispatch[d].item # None => item'[dispatch[d].item] = dispatch'[d].status
  BY <1>1 DEF ReceiptMoves
<1>5. dispatch'[d].status \notin {"none", "queued"}
  BY DEF ReceiptMoves, Marks
<1>6. ASSUME NEW e \in Dispatches, dispatch[e].item # None
      PROVE  /\ item'[dispatch[e].item] \notin {"none", "queued"}
             /\ item'[dispatch[e].item] = "completed" <=> dispatch'[e].status = "completed"
             /\ item'[dispatch[e].item] = "failed" <=> dispatch'[e].status = "failed"
  <2>1. CASE e = d
    BY <1>4, <1>5, <1>6, <2>1
  <2>2. CASE e # d
    <3>1. dispatch[e].item # dispatch[d].item
      BY <1>1, <1>6, <2>2 DEF ToldInv, Told
    <3>2. item'[dispatch[e].item] = item[dispatch[e].item] /\ dispatch'[e] = dispatch[e]
      BY <1>1, <1>3, <1>6, <2>2, <3>1 DEF ReceiptMoves
    <3> QED
      BY <1>6, <3>2 DEF ToldInv, Told
  <2> QED
    BY <2>1, <2>2
<1>7. ASSUME NEW i \in Items, item'[i] \notin {"none", "queued"}
      PROVE  \E e \in Dispatches : dispatch'[e].item = i
  <2>1. CASE i = dispatch[d].item
    BY <1>1, <1>2, <2>1
  <2>2. CASE i # dispatch[d].item
    BY <1>2, <1>3, <1>7, <2>2 DEF ToldInv, Told
  <2> QED
    BY <2>1, <2>2
<1>8. \A e \in Dispatches : dispatch'[e].status = "none" => dispatch'[e].item = None
  BY <1>2, <1>5 DEF ToldInv, Told, ReceiptMoves
<1>9. \A e \in Dispatches :
          /\ dispatch'[e].status = "completed" =>
                carries'[e] # None /\ turn'[carries'[e]] = "completed"
          /\ dispatch'[e].status = "failed" /\ carries'[e] # None =>
                turn'[carries'[e]] = "failed"
  BY DEF ToldInv, Told, ReceiptMoves
<1>10. Told'
  <2>1. \A e, f \in Dispatches :
          dispatch'[e].item # None /\ dispatch'[e].item = dispatch'[f].item => e = f
    BY <1>2 DEF ToldInv, Told
  <2> QED
    BY <1>2, <1>6, <1>7, <1>8, <1>9, <2>1 DEF Told, Dispatches, Items
<1>11. Chosen'
  <2>1. tick.item # None => tick.item # dispatch[d].item
    BY <1>1 DEF ToldInv, Told, Chosen
  <2> QED
    BY <1>1, <1>3, <2>1 DEF ToldInv, Chosen
<1> QED
  BY <1>10, <1>11 DEF ToldInv

\* A step that leaves rows and receipts alone and takes no ended turn up again.
LEMMA ToldStays ==
    ASSUME ToldInv, RoleOK, Carrying, dispatch' = dispatch, item' = item, carries' = carries,
           \A t \in Dispatches : turn[t] \in {"completed", "failed"} => turn'[t] = turn[t],
           tick'.item # None => tick'.item = tick.item \/ item[tick'.item] = "queued"
    PROVE  ToldInv'
<1>1. Told'
  <2>1. \A d \in Dispatches : carries[d] # None => carries[d] \in Dispatches
    BY DEF Carrying
  <2> QED
    BY <2>1 DEF ToldInv, Told
<1> QED
  BY <1>1 DEF ToldInv, Chosen

\* Settled rows are told as they are.
LEMMA ToldReceipts == Told /\ RoleOK => ReceiptIsTrue
<1> SUFFICES ASSUME Told, RoleOK, NEW i \in Items PROVE
      LET sent == {d \in Dispatches : dispatch[d].item = i /\ carries[d] # None} IN
      /\ Cardinality(sent) <= 1
      /\ item[i] \in {"none", "queued"} => sent = {}
      /\ item[i] = "completed" => \E d \in sent : turn[carries[d]] = "completed"
      /\ item[i] = "failed" => \A d \in sent : turn[carries[d]] = "failed"
  BY DEF ReceiptIsTrue
<1> DEFINE sent == {d \in Dispatches : dispatch[d].item = i /\ carries[d] # None}
<1>1. i # None
  BY RoleConstants DEF Items
<1>2. Cardinality(sent) <= 1
  <2>1. CASE sent = {}
    BY <2>1, FS_EmptySet
  <2>2. CASE sent # {}
    <3>1. PICK d \in sent : TRUE
      BY <2>2
    <3>2. sent = {d}
      BY <1>1, <3>1 DEF Told
    <3>3. Cardinality(sent) = 1
      BY <3>2, FS_Singleton, Zenon
    <3> QED
      BY <3>3
  <2> QED
    BY <2>1, <2>2
<1>3. item[i] \in {"none", "queued"} => sent = {}
  BY <1>1 DEF Told
<1>4. item[i] = "completed" => \E d \in sent : turn[carries[d]] = "completed"
  <2> SUFFICES ASSUME item[i] = "completed" PROVE \E d \in sent : turn[carries[d]] = "completed"
    OBVIOUS
  <2>1. PICK d \in Dispatches : dispatch[d].item = i
    BY DEF Told
  <2>2. dispatch[d].status = "completed"
    BY <1>1, <2>1 DEF Told
  <2>3. carries[d] # None /\ turn[carries[d]] = "completed"
    BY <2>1, <2>2 DEF Told
  <2> QED
    BY <2>1, <2>3
<1>5. item[i] = "failed" => \A d \in sent : turn[carries[d]] = "failed"
  BY <1>1 DEF Told
<1> QED
  BY <1>2, <1>3, <1>4, <1>5

LEMMA MarkReceipt ==
    ASSUME DutyTypeOK, NEW d \in Dispatches, NEW status \in Marks \ {"none"},
           NEW t \in Turns \cup {None}, NEW error,
           dispatch' = Marked(Tables, d, status, t, error).dispatch,
           item' = Marked(Tables, d, status, t, error).item, UNCHANGED <<turn, carries>>,
           status = "completed" => carries[d] # None /\ turn[carries[d]] = "completed",
           status = "failed" /\ carries[d] # None => turn[carries[d]] = "failed"
    PROVE  ReceiptMoves(d)
<1>1. dispatch \in [Dispatches -> DispatchRow] /\ dispatch[d] \in DispatchRow
  BY DEF DutyTypeOK
<1>2. dispatch' = [dispatch EXCEPT ![d].status = status, ![d].turn = IF t = None THEN @ ELSE t]
  BY DEF Marked, Tables
<1>3. item' = IF dispatch[d].item = None THEN item
              ELSE [item EXCEPT ![dispatch[d].item] = status]
  BY DEF Marked, Tables
<1>4. /\ \A e \in Dispatches \ {d} : dispatch'[e] = dispatch[e]
      /\ dispatch'[d].item = dispatch[d].item /\ dispatch'[d].status = status
  BY <1>1, <1>2 DEF DispatchRow
<1> QED
  BY <1>3, <1>4 DEF ReceiptMoves

\* A row found again is judged by its turn.
LEMMA ReconciledReceipt ==
    ASSUME RoleOK, Rows, NEW d \in Pending, NEW ok \in Errors, NEW bad \in Errors,
           NEW lost \in Errors, Store(Reconciled(d, ok, bad, lost)), UNCHANGED <<turn, carries>>
    PROVE  ReceiptMoves(d) \/ (dispatch' = dispatch /\ item' = item)
<1>1. /\ d \in Dispatches /\ DutyTypeOK /\ None \in Turns \cup {None}
      /\ carries[d] \in Turns \cup {None}
      /\ {"completed", "failed", "unknown", "running"} \subseteq Marks \ {"none"}
  BY DEF Pending, RoleOK, DutyTypeOK, Marks
<1>2. carries[d] # None => turn[carries[d]] \in {"inProgress", "completed", "failed"}
  BY <1>1 DEF Rows, Carrying, DutyTypeOK
<1>3. CASE dispatch[d].turn # None
  <2> DEFINE t == dispatch[d].turn
  <2>1. Store(Judged(Tables, d, t, ok, bad)) /\ t = carries[d]
    BY <1>1, <1>3 DEF Reconciled, Rows, Carrying
  <2>2. CASE Store(Tables)
    BY <2>2 DEF Store, Tables
  <2>3. CASE turn[t] = "completed" /\ Store(Marked(Tables, d, "completed", None, ok))
    <3>1. /\ dispatch' = Marked(Tables, d, "completed", None, ok).dispatch
          /\ item' = Marked(Tables, d, "completed", None, ok).item
      BY <2>3 DEF Store
    <3> QED
      BY <1>1, <1>3, <2>1, <2>3, <3>1, MarkReceipt
  <2>4. CASE /\ turn[t] \notin {"completed", "inProgress"}
             /\ Store(Marked(Tables, d, "failed", None, bad))
    <3>1. /\ dispatch' = Marked(Tables, d, "failed", None, bad).dispatch
          /\ item' = Marked(Tables, d, "failed", None, bad).item
      BY <2>4 DEF Store
    <3>2. turn[carries[d]] = "failed"
      BY <1>2, <1>3, <2>1, <2>4
    <3> QED
      BY <1>1, <3>1, <3>2, MarkReceipt
  <2> QED
    BY <2>1, <2>2, <2>3, <2>4 DEF Judged
<1>4. CASE dispatch[d].turn = None /\ carries[d] = None
  <2>1. /\ dispatch' = Marked(Tables, d, "unknown", None, lost).dispatch
        /\ item' = Marked(Tables, d, "unknown", None, lost).item
    BY <1>4 DEF Reconciled, Store
  <2> QED
    BY <1>1, <2>1, MarkReceipt
<1>5. CASE dispatch[d].turn = None /\ carries[d] # None
  <2> DEFINE found == Marked(Tables, d, "running", carries[d], ok)
             end == turn[carries[d]]
  <2>1. CASE end = "inProgress"
    <3>1. dispatch' = found.dispatch /\ item' = found.item
      BY <1>5, <2>1 DEF Reconciled, Store
    <3> QED
      BY <1>1, <3>1, MarkReceipt
  <2>2. CASE end # "inProgress"
    <3> DEFINE error == IF end = "completed" THEN ok ELSE bad
    <3>1. /\ dispatch' = Marked(found, d, end, None, error).dispatch
          /\ item' = Marked(found, d, end, None, error).item
      BY <1>5, <2>2 DEF Reconciled, Store
    <3>2. /\ dispatch \in [Dispatches -> DispatchRow] /\ dispatch[d] \in DispatchRow
          /\ item \in [Items -> ItemStates]
      BY <1>1 DEF DutyTypeOK
    <3>3. found.dispatch =
            [dispatch EXCEPT ![d].status = "running",
                             ![d].turn = IF carries[d] = None THEN @ ELSE carries[d]]
      BY DEF Marked, Tables
    <3>4. found.item = IF dispatch[d].item = None THEN item
                       ELSE [item EXCEPT ![dispatch[d].item] = "running"]
      BY DEF Marked, Tables
    <3> HIDE DEF found, end, error
    <3>5. dispatch' = [found.dispatch EXCEPT ![d].status = end,
                                             ![d].turn = IF None = None THEN @ ELSE None]
      BY <3>1 DEF Marked
    <3>6. item' = IF found.dispatch[d].item = None THEN found.item
                  ELSE [found.item EXCEPT ![found.dispatch[d].item] = end]
      BY <3>1 DEF Marked
    <3>7. /\ found.dispatch \in [Dispatches -> DispatchRow]
          /\ found.dispatch[d] \in DispatchRow /\ found.dispatch[d].item = dispatch[d].item
          /\ \A e \in Dispatches \ {d} : found.dispatch[e] = dispatch[e]
      <4>1. [dispatch[d] EXCEPT !.status = "running",
                                !.turn = IF carries[d] = None THEN @ ELSE carries[d]]
              \in DispatchRow
        BY <1>1, <3>2 DEF DispatchRow, Unsettled
      <4> QED
        BY <1>1, <3>2, <3>3, <4>1 DEF DispatchRow
    <3>8. /\ \A e \in Dispatches \ {d} : dispatch'[e] = dispatch[e]
          /\ dispatch'[d].item = dispatch[d].item /\ dispatch'[d].status = end
      BY <1>1, <3>5, <3>7 DEF DispatchRow
    <3>9. item' = IF dispatch[d].item = None THEN item
                  ELSE [item EXCEPT ![dispatch[d].item] = end]
      BY <3>2, <3>4, <3>6, <3>7
    <3>10. end \in {"completed", "failed"} /\ end = turn[carries[d]]
      BY <1>2, <1>5, <2>2 DEF end
    <3> QED
      BY <1>5, <3>8, <3>9, <3>10 DEF ReceiptMoves, Marks
  <2> QED
    BY <2>1, <2>2
<1> QED
  BY <1>3, <1>4, <1>5

LEMMA ItemMoves ==
    ASSUME TickOK
    PROVE  /\ \A pc : GoTo(pc) => tick'.item = tick.item
           /\ End => tick'.item = None
           /\ \A launches, activate : Choose(launches, activate) => tick'.item \in {tick.item, None}
<1>1. ASSUME NEW pc, GoTo(pc) PROVE tick'.item = tick.item
  BY <1>1 DEF GoTo, TickOK, TickRow
<1>2. ASSUME End PROVE tick'.item = None
  BY <1>2 DEF End, NoTick
<1>3. ASSUME NEW activate, Goes(activate) PROVE tick'.item = tick.item
  BY <1>3 DEF Goes, NoTick
<1> QED
  BY <1>1, <1>2, <1>3 DEF Choose

LEMMA EndedStays ==
    ASSUME RoleOK,
           \/ turn' = turn \/ (\E t \in Turns : TurnEnds(t)) \/ Continue
           \/ \E t : Interrupted(t)
    PROVE  \A t \in Dispatches : turn[t] \in {"completed", "failed"} => turn'[t] = turn[t]
<1>1. /\ Dispatches \subseteq Turns
      /\ turn \in [Turns -> {"none", "inProgress", "completed", "failed"}]
  BY DEF Turns, RoleOK, DutyTypeOK
<1>2. ASSUME NEW t \in Turns, TurnEnds(t)
      PROVE  \A u \in Dispatches : turn[u] \in {"completed", "failed"} => turn'[u] = turn[u]
  BY <1>1, <1>2 DEF TurnEnds
<1>3. CASE Continue
  BY <1>1, <1>3, NoneIsNone DEF Continue
<1>4. ASSUME NEW t, Interrupted(t)
      PROVE  \A u \in Dispatches : turn[u] \in {"completed", "failed"} => turn'[u] = turn[u]
  BY <1>1, <1>4 DEF Interrupted
<1> QED
  BY <1>2, <1>3, <1>4

LEMMA ToldOutside == RoleOK /\ KnownInv /\ ToldInv /\ (Commands \/ Codex) => ToldInv'
<1> SUFFICES ASSUME RoleOK, KnownInv, ToldInv, Commands \/ Codex PROVE ToldInv'
  OBVIOUS
<1>1. tick'.item = tick.item
  BY OutsideLeaves
<1>2. ASSUME NEW d \in Dispatches, ReconcileTurn(d) PROVE ToldInv'
  <2>1. /\ dispatch[d].status = "unknown" /\ UNCHANGED <<item, turn, carries>>
        /\ dispatch' = [dispatch EXCEPT ![d].status = "running", ![d].turn = carries[d]]
        /\ dispatch \in [Dispatches -> DispatchRow] /\ dispatch[d] \in DispatchRow
    BY <1>2 DEF ReconcileTurn, codex, RoleOK, DutyTypeOK
  <2>2. /\ \A e \in Dispatches : dispatch'[e].item = dispatch[e].item
        /\ dispatch'[d].status = "running"
        /\ \A e \in Dispatches \ {d} : dispatch'[e].status = dispatch[e].status
    BY <2>1 DEF DispatchRow
  <2>3. Told'
    BY <2>1, <2>2 DEF ToldInv, Told
  <2> QED
    BY <1>1, <2>1, <2>3 DEF ToldInv, Chosen
<1>3. ASSUME NEW i \in Items, Submit(i) PROVE ToldInv'
  <2>1. /\ item[i] = "none" /\ UNCHANGED <<dispatch, turn, carries>>
        /\ item' = [item EXCEPT ![i] = "queued"] /\ item \in [Items -> ItemStates]
        /\ \A d \in Dispatches : dispatch[d].item \in Items \cup {None}
        /\ tick.item \in Items \cup {None}
    BY <1>3 DEF Submit, codex, RoleOK, DutyTypeOK, DispatchRow, TickRow
  <2>2. \A d \in Dispatches : dispatch[d].item # None =>
            item'[dispatch[d].item] = item[dispatch[d].item]
    BY <2>1 DEF ToldInv, Told
  <2>3. \A j \in Items : item'[j] \notin {"none", "queued"} => item'[j] = item[j]
    BY <2>1
  <2>4. Told'
    BY <2>1, <2>2, <2>3 DEF ToldInv, Told
  <2>5. Chosen'
    BY <1>1, <2>1 DEF ToldInv, Chosen
  <2> QED
    BY <2>4, <2>5 DEF ToldInv
<1>4. CASE /\ ~\E d \in Dispatches : ReconcileTurn(d)
           /\ ~\E i \in Items : Submit(i)
  <2>1. dispatch' = dispatch /\ item' = item /\ carries' = carries
    BY <1>4 DEF Commands, Codex, Start, Stop, Sleep, Checkpoint, WakeTime, SetHold,
         Continue, PausedByHand, Limited, TurnEnds, store, codex
  <2>2. turn' = turn \/ (\E t \in Turns : TurnEnds(t)) \/ Continue
    BY <1>4 DEF Commands, Codex, Start, Stop, Sleep, Checkpoint, WakeTime, SetHold,
         PausedByHand, Limited, codex
  <2> QED
    BY <1>1, <2>1, <2>2, EndedStays, ToldStays DEF KnownInv, Rows
<1> QED
  BY <1>2, <1>3, <1>4

LEMMA ToldFaults == RoleOK /\ KnownInv /\ ToldInv /\ Faults => ToldInv'
<1> SUFFICES ASSUME RoleOK, KnownInv, ToldInv, Faults PROVE ToldInv'
  OBVIOUS
<1>1. tick'.item = None
  BY ItemMoves DEF Faults, Crash, ReadFails, HoldReadFails, BundleIsBad, SetFails,
                   DispatchFails, LosesAnswer, IsRejected, RoleOK
<1>2. dispatch' = dispatch /\ item' = item /\ carries' = carries /\ turn' = turn
  BY DEF Faults, Crash, ReadFails, HoldReadFails, BundleIsBad, SetFails, DispatchFails,
         store, codex
<1> QED
  BY <1>1, <1>2, ToldStays DEF KnownInv, Rows

LEMMA ToldReconcile ==
    ASSUME RoleOK, KnownInv, ToldInv, NEW d \in Dispatches,
           Reconcile(d) \/ (HoldReconcile(d) /\ Current)
    PROVE  ToldInv'
<1>1. d \in Pending
  BY DEF Reconcile, HoldReconcile, IsNext, KnownInv, Handled
<1>2. tick'.item = tick.item
  BY DEF Reconcile, HoldReconcile, RoleOK, TickOK, TickRow
<1>3. tick.snap.error \in Errors /\ {"none", "other", "launch_unknown"} \subseteq Errors
  BY DEF RoleOK, TickOK, TickRow, RoleRow, Errors
<1>4. ReceiptMoves(d) \/ (dispatch' = dispatch /\ item' = item)
  <2>1. CASE Reconcile(d)
    <3>1. Store(Reconciled(d, "none", "other", "launch_unknown")) /\ UNCHANGED <<turn, carries>>
      BY <2>1 DEF Reconcile, codex
    <3> QED
      BY <1>1, <1>3, <3>1, ReconciledReceipt DEF KnownInv
  <2>2. CASE HoldReconcile(d) /\ Current
    <3>1. /\ Store(Reconciled(d, tick.snap.error, tick.snap.error, tick.snap.error))
          /\ UNCHANGED <<turn, carries>>
      BY <2>2 DEF HoldReconcile, codex
    <3> QED
      BY <1>1, <1>3, <3>1, ReconciledReceipt DEF KnownInv
  <2> QED
    BY <2>1, <2>2
<1>5. turn' = turn /\ carries' = carries
  BY DEF Reconcile, HoldReconcile, codex
<1>6. CASE ReceiptMoves(d)
  BY <1>1, <1>2, <1>6, ToldAfterMove
<1>7. CASE dispatch' = dispatch /\ item' = item
  BY <1>2, <1>5, <1>7, ToldStays DEF KnownInv, Rows
<1> QED
  BY <1>4, <1>6, <1>7

\* The pass before a launch, and a hold.
LEMMA ToldPass ==
    ASSUME RoleOK, KnownInv, ToldInv,
           \/ Look \/ Consult \/ GoalStands \/ GoalWaits \/ ClaimGoal \/ SetGoal \/ SetDone
           \/ Unset \/ Interrupt \/ NotNow \/ Inject \/ InjectFails
           \/ Hold \/ HoldPause \/ HoldTurns \/ HoldNoTurn \/ HoldInterrupt \/ HoldSettled
           \/ \E d \in Dispatches : HoldReconcile(d) /\ ~Current
    PROVE  ToldInv'
<1> USE DEF RoleOK, store, codex
<1>1. dispatch' = dispatch /\ item' = item /\ carries' = carries
  BY DEF Look, Consult, GoalStands, GoalWaits, ClaimGoal, SetGoal, SetDone, Unset, Interrupt,
         NotNow, Inject, InjectFails, Hold, HoldPause, HoldTurns, HoldNoTurn, HoldInterrupt,
         HoldSettled, HoldReconcile
<1>2. turn' = turn \/ \E t : Interrupted(t)
  BY DEF Look, Consult, GoalStands, GoalWaits, ClaimGoal, SetGoal, SetDone, Unset, Interrupt,
         NotNow, Inject, InjectFails, Hold, HoldPause, HoldTurns, HoldNoTurn, HoldInterrupt,
         HoldSettled, HoldReconcile
<1>3. tick'.item # None => tick'.item = tick.item \/ item[tick'.item] = "queued"
  <2>1. CASE Look
    BY <2>1 DEF Look, NoTick
  <2>2. CASE Consult
    <3>1. PICK i \in IF NextItems = {} THEN {None} ELSE NextItems :
            \/ tick' = [NoTick EXCEPT !.pc = "hold", !.snap = role]
            \/ tick' = [tick EXCEPT !.pc = "goal", !.snap = Seen, !.item = i,
                                    !.d = role.active]
      BY <2>2 DEF Consult
    <3>2. tick'.item \in {None, i}
      BY <3>1 DEF NoTick, TickOK, TickRow
    <3>3. i # None => item[i] = "queued"
      BY <3>1 DEF NextItems, Queued
    <3> QED
      BY <3>2, <3>3
  <2>3. CASE GoalStands \/ GoalWaits
    BY <2>3, ItemMoves DEF GoalStands, GoalWaits, Ready, NotReady
  <2>4. CASE ClaimGoal \/ SetGoal \/ Inject \/ InjectFails
    BY <2>4, ItemMoves DEF ClaimGoal, SetGoal, Inject, InjectFails, TickOK, TickRow
  <2>5. CASE SetDone
    <3>1. CASE Ready
      BY <3>1, ItemMoves DEF Ready
    <3>2. CASE tick' = [tick EXCEPT !.pc = "unset", !.same = "all"]
      BY <3>2 DEF TickOK, TickRow
    <3> QED
      BY <2>5, <3>1, <3>2 DEF SetDone
  <2>6. CASE Unset \/ Interrupt \/ NotNow
    BY <2>6, ItemMoves DEF Unset, Interrupt, NotNow, LosesAnswer, IsRejected
  <2>7. CASE Hold \/ HoldPause \/ HoldSettled
    BY <2>7, ItemMoves DEF Hold, HoldPause, HoldSettled
  <2>8. CASE HoldTurns \/ HoldNoTurn \/ HoldInterrupt
    BY <2>8, ItemMoves DEF HoldTurns, HoldNoTurn, HoldInterrupt, TickOK, TickRow
  <2>9. CASE \E d \in Dispatches : HoldReconcile(d) /\ ~Current
    BY <2>9, ItemMoves DEF HoldReconcile
  <2> QED
    BY <2>1, <2>2, <2>3, <2>4, <2>5, <2>6, <2>7, <2>8, <2>9
<1> QED
  BY <1>1, <1>2, <1>3, EndedStays, ToldStays DEF KnownInv, Rows

LEMMA ToldPrepare ==
    ASSUME RoleOK, KnownInv, ToldInv, NEW d \in Dispatches, Prepare(d)
    PROVE  ToldInv'
<1> USE DEF RoleOK, store, codex
<1>1. /\ turn' = turn /\ carries' = carries /\ carries[d] = None
      /\ dispatch[d].status = "none" /\ dispatch[d].item = None
  BY DEF Prepare, KnownInv, Rows, Carrying, ToldInv, Told
<1>2. CASE End /\ UNCHANGED <<dispatch, item>>
  BY <1>1, <1>2, ItemMoves, ToldStays DEF KnownInv, Rows
<1>3. CASE ~(End /\ UNCHANGED <<dispatch, item>>)
  <2> DEFINE i == tick.item
             new == [status |-> "starting", item |-> i, steer |-> tick.live # None,
                     turn |-> None]
  <2>1. /\ dispatch' = [dispatch EXCEPT ![d] = new]
        /\ item' = IF i = None THEN item ELSE [item EXCEPT ![i] = "running"]
        /\ tick' = [tick EXCEPT !.pc = IF tick.live # None THEN "launch" ELSE "prepared",
                                !.d = d, !.item = None]
    BY <1>3 DEF Prepare
  <2>2. /\ \A e \in Dispatches \ {d} : dispatch'[e] = dispatch[e]
        /\ dispatch'[d].status = "starting" /\ dispatch'[d].item = i
        /\ i \in Items \cup {None} /\ item \in [Items -> ItemStates]
        /\ \A e \in Dispatches : dispatch[e].item \in Items \cup {None}
    BY <2>1 DEF DutyTypeOK, DispatchRow, TickRow
  <2>3. tick'.item = None
    BY <2>1 DEF TickOK, TickRow
  <2> HIDE DEF new
  <2>4. i # None => item'[i] = "running" /\ item[i] = "queued"
    BY <2>1, <2>2 DEF ToldInv, Chosen
  <2>5. \A j \in Items : j # i => item'[j] = item[j]
    BY <2>1, <2>2
  <2>6. \A e \in Dispatches : dispatch[e].item # None => dispatch[e].item # i
    BY <2>4 DEF ToldInv, Told
  <2> HIDE DEF i
  <2>7. ASSUME NEW e \in Dispatches, dispatch'[e].item # None
        PROVE  /\ item'[dispatch'[e].item] \notin {"none", "queued"}
               /\ item'[dispatch'[e].item] = "completed" <=> dispatch'[e].status = "completed"
               /\ item'[dispatch'[e].item] = "failed" <=> dispatch'[e].status = "failed"
    <3>1. CASE e = d
      BY <2>2, <2>4, <2>7, <3>1
    <3>2. CASE e # d
      <4>1. /\ dispatch'[e] = dispatch[e] /\ dispatch[e].item # i
            /\ item'[dispatch[e].item] = item[dispatch[e].item]
        BY <2>2, <2>5, <2>6, <2>7, <3>2
      <4> QED
        BY <2>7, <4>1 DEF ToldInv, Told
    <3> QED
      BY <3>1, <3>2
  <2>8. ASSUME NEW e \in Dispatches, NEW f \in Dispatches,
               dispatch'[e].item # None, dispatch'[e].item = dispatch'[f].item
        PROVE  e = f
    BY <2>2, <2>6, <2>8 DEF ToldInv, Told
  <2>9. ASSUME NEW j \in Items, item'[j] \notin {"none", "queued"}
        PROVE  \E e \in Dispatches : dispatch'[e].item = j
    <3>1. CASE j = i
      BY <2>2, <3>1
    <3>2. CASE j # i
      <4>1. PICK e \in Dispatches : dispatch[e].item = j
        BY <2>5, <2>9, <3>2 DEF ToldInv, Told
      <4>2. e # d
        BY <1>1, <2>9, <4>1, RoleConstants DEF Items
      <4> QED
        BY <2>2, <4>1, <4>2
    <3> QED
      BY <3>1, <3>2
  <2>10. /\ \A e \in Dispatches : dispatch'[e].status = "none" => dispatch'[e].item = None
         /\ \A e \in Dispatches :
              /\ dispatch'[e].status = "completed" =>
                    carries'[e] # None /\ turn'[carries'[e]] = "completed"
              /\ dispatch'[e].status = "failed" /\ carries'[e] # None =>
                    turn'[carries'[e]] = "failed"
    BY <1>1, <2>2 DEF ToldInv, Told
  <2>11. Told'
    BY <2>7, <2>8, <2>9, <2>10 DEF Told, Dispatches, Items
  <2> QED
    BY <2>3, <2>11 DEF ToldInv, Chosen
<1> QED
  BY <1>2, <1>3

LEMMA ToldLaunch ==
    ASSUME RoleOK, KnownInv, ToldInv, Launch
    PROVE  ToldInv'
<1> USE DEF RoleOK, store, codex
<1> DEFINE d == tick.d
<1>1. /\ d \in Dispatches /\ d \in Pending /\ carries[d] = None
      /\ dispatch' = dispatch /\ item' = item /\ tick'.item = tick.item
  BY ItemMoves DEF Launch, KnownInv, Handled, TickOK, Launching
<1>2. CASE UNCHANGED <<turn, carries>>
  BY <1>1, <1>2, ToldStays DEF KnownInv, Rows
<1>3. CASE Carried(d)
  <2> DEFINE t == IF dispatch[d].steer THEN tick.live ELSE d
  <2>1. t = d \/ turn[t] = "inProgress"
    BY <1>3 DEF Carried, Accepts, Live
  <2>2. /\ \A e \in Dispatches \ {d} : carries'[e] = carries[e]
        /\ turn' = [turn EXCEPT ![t] = "inProgress"]
    BY <1>1, <1>3 DEF Carried, DutyTypeOK
  <2>3. \A u \in Turns : u # t => turn'[u] = turn[u]
    BY <2>2 DEF DutyTypeOK
  <2> HIDE DEF t
  <2>4. dispatch[d].status \notin {"completed", "failed", "none"}
    BY <1>1 DEF Pending, Unsettled
  <2>5. ASSUME NEW e \in Dispatches \ {d}, carries[e] # None,
               turn[carries[e]] \in {"completed", "failed"}
        PROVE  carries'[e] = carries[e] /\ turn'[carries'[e]] = turn[carries[e]]
    <3>1. carries[e] # d /\ carries[e] \in Turns
      BY <1>1, <2>5, NoneIsNone DEF KnownInv, Rows, Carrying, Turns
    <3>2. carries[e] # t
      BY <2>1, <2>5, <3>1
    <3> QED
      BY <2>2, <2>3, <3>1, <3>2
  <2>6. \A e \in Dispatches :
          /\ dispatch[e].status = "completed" =>
                carries'[e] # None /\ turn'[carries'[e]] = "completed"
          /\ dispatch[e].status = "failed" /\ carries'[e] # None =>
                turn'[carries'[e]] = "failed"
    BY <2>2, <2>4, <2>5 DEF ToldInv, Told
  <2>7. Told'
    BY <1>1, <2>6 DEF ToldInv, Told, Dispatches, Items
  <2> QED
    BY <1>1, <2>7 DEF ToldInv, Chosen
<1> QED
  BY <1>2, <1>3 DEF Launch

LEMMA ToldOutcome ==
    ASSUME RoleOK, KnownInv, ToldInv, Outcome \/ FailDispatch
    PROVE  ToldInv'
<1> USE DEF RoleOK, store, codex
<1> DEFINE d == tick.d
<1>1. /\ d \in Dispatches /\ d \in Pending /\ UNCHANGED <<turn, carries>>
      /\ None \in Turns \cup {None} /\ carries[d] \in Turns \cup {None}
      /\ {"failed", "unknown", "running"} \subseteq Marks \ {"none"}
  BY DEF Outcome, FailDispatch, KnownInv, Handled, TickOK, Launching, DutyTypeOK, Marks
<1>2. tick.pc \in {"refused", "failing"} => carries[d] = None
  BY DEF KnownInv, Handled
<1>3. ReceiptMoves(d)
  <2>1. CASE /\ tick.pc = "launched"
             /\ Store(Marked(Tables, d, "running", carries[d], "none"))
    <3>1. /\ dispatch' = Marked(Tables, d, "running", carries[d], "none").dispatch
          /\ item' = Marked(Tables, d, "running", carries[d], "none").item
      BY <2>1 DEF Store
    <3> QED
      BY <1>1, <3>1, MarkReceipt
  <2>2. CASE tick.pc = "refused" /\ Store(Marked(Tables, d, "failed", None, "rejected"))
    <3>1. /\ dispatch' = Marked(Tables, d, "failed", None, "rejected").dispatch
          /\ item' = Marked(Tables, d, "failed", None, "rejected").item
      BY <2>2 DEF Store
    <3> QED
      BY <1>1, <1>2, <2>2, <3>1, MarkReceipt
  <2>3. CASE tick.pc = "lost" /\ Store(Marked(Tables, d, "unknown", None, "launch_unknown"))
    <3>1. /\ dispatch' = Marked(Tables, d, "unknown", None, "launch_unknown").dispatch
          /\ item' = Marked(Tables, d, "unknown", None, "launch_unknown").item
      BY <2>3 DEF Store
    <3> QED
      BY <1>1, <3>1, MarkReceipt
  <2>4. CASE FailDispatch
    <3>1. /\ dispatch' = Marked(Tables, d, "failed", None, "instruction").dispatch
          /\ item' = Marked(Tables, d, "failed", None, "instruction").item
          /\ tick.pc = "failing"
      BY <2>4 DEF FailDispatch, Store, Marked
    <3> QED
      BY <1>1, <1>2, <3>1, MarkReceipt
  <2> QED
    BY <2>1, <2>2, <2>3, <2>4 DEF Outcome
<1>4. tick'.item = None
  <2>1. \/ End
        \/ tick' = [NoTick EXCEPT !.pc = "goal", !.snap = Seen', !.activate = TRUE]
        \/ tick' = [NoTick EXCEPT !.pc = "hold", !.snap = role']
    BY DEF Outcome, FailDispatch
  <2>2. NoTick \in TickRow /\ NoTick.item = None
    BY NoTickType DEF NoTick
  <2> QED
    BY <2>1, <2>2 DEF End, TickRow
<1> QED
  BY <1>1, <1>3, <1>4, ToldAfterMove

\* What the receipt of an owner event says came to pass, through lost answers and
\* passes that were cut off: no event is sent twice, and a receipt of completion
\* names a turn that completed.
THEOREM ReceiptsAreTrue == DutySpec => []ReceiptIsTrue
<1>1. DutyInit => ToldInv
  <2> SUFFICES ASSUME DutyInit PROVE ToldInv
    OBVIOUS
  <2>1. /\ \A i \in Items : item[i] = "none"
        /\ \A d \in Dispatches : dispatch[d].item = None /\ dispatch[d].status = "none"
        /\ tick.item = None
    BY DEF DutyInit, NoTick
  <2> QED
    BY <2>1 DEF ToldInv, Told, Chosen
<1>2. RoleOK /\ KnownInv /\ ToldInv /\ [DutyNext]_dutyVars => ToldInv'
  <2> SUFFICES ASSUME RoleOK, KnownInv, ToldInv, [DutyNext]_dutyVars PROVE ToldInv'
    OBVIOUS
  <2>1. CASE Commands \/ Codex
    BY <2>1, ToldOutside
  <2>2. CASE Pass
    BY <2>2, ToldPass, ToldReconcile, ToldPrepare, ToldLaunch, ToldOutcome DEF Pass
  <2>3. CASE Faults
    BY <2>3, ToldFaults
  <2>4. CASE UNCHANGED dutyVars
    BY <2>4, ToldStays DEF dutyVars, KnownInv, Rows
  <2> QED
    BY <2>1, <2>2, <2>3, <2>4 DEF DutyNext
<1>3. RoleOK /\ ToldInv => ReceiptIsTrue
  BY ToldReceipts DEF ToldInv
<1> QED
  BY <1>1, <1>2, <1>3, DutyTypeCorrect, KnownAlways, PTL DEF DutySpec

=============================================================================
