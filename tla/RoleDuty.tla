------------------------------ MODULE RoleDuty ------------------------------
(***************************************************************************)
(* One duty agent (M1 or M2): its rows in RoleStore (role_coordination.py) *)
(* and the pass RoleExecutor.tick makes over them (role_executor.py),      *)
(* which starts, finds again and stops turns and the goal of one Codex     *)
(* thread (external).  A pass is split at its RPCs; passes exclude each    *)
(* other by a file lock.  The owner, the agent and the operator change the *)
(* rows between any two steps of it.                                       *)
(*                                                                         *)
(* The thread is bound, on this host, with the right model.  Codex serves  *)
(* requests in the order they reach it: one whose answer was lost has been *)
(* carried out before the next pass asks, or never will be.                *)
(***************************************************************************)
EXTENDS Naturals, FiniteSets

CONSTANTS OwnerEvents, Notices, None, Native,
    MaxDispatches,  \* bound on role_dispatches
    MaxTroubles     \* bound on lost RPCs, refusals, crashes, holds, pauses by hand
                    \* and changes of the revision while the duty goes on

ASSUME RoleConstants ==
    /\ MaxDispatches \in Nat \ {0} /\ MaxTroubles \in Nat
    /\ None \notin OwnerEvents \cup Notices \cup 1..MaxDispatches \cup {Native}
    /\ Native \notin 1..MaxDispatches

VARIABLES
    role,       \* role_state of the agent
    dispatch,   \* role_dispatches
    item,       \* role_items: status of owner events and task notices
    held,       \* the global hold of the automation center
    goal,       \* Codex: the goal of the thread
    turn,       \* Codex: the turns of the thread, named by the dispatch that
                \* began it, or Native for a continuation of the goal
    carries,    \* Codex: the turn that got the message of a dispatch
    tick,       \* the pass of the executor
    refused,    \* what Codex has refused since the last command
    troubles

store == <<role, dispatch, item>>
codex == <<goal, turn, carries>>
people == <<held, refused>>
dutyVars == <<role, dispatch, item, held, goal, turn, carries, tick, refused, troubles>>

Items == OwnerEvents \cup Notices
Dispatches == 1..MaxDispatches
Turns == Dispatches \cup {Native}
Unsettled == {"starting", "running", "unknown"}

\* Paused or complete; "stopped" by hand, which Codex shows in the same way.
Goals == {"none", "active", "paused", "stopped", "limited"}
GoalShown == IF goal = "stopped" THEN "paused" ELSE goal

\* last_error, as far as it decides anything.
Errors == {"none", "instruction", "rejected", "launch_unknown", "manually_stopped", "other"}

RoleRow == [desired : {"off", "on"}, state : {"off", "idle", "running", "waiting", "attention"},
            asleep : BOOLEAN, active : Dispatches \cup {None}, owned : BOOLEAN,
            applied : {"none", "active", "paused"}, error : Errors]
DispatchRow == [status : {"none", "completed", "failed"} \cup Unsettled,
                item : Items \cup {None}, steer : BOOLEAN, turn : Turns \cup {None}]

OffDuty == [desired |-> "off", state |-> "off", asleep |-> FALSE, active |-> None,
            owned |-> FALSE, applied |-> "none", error |-> "none"]

\* snap: role_state as the pass read it; same: what commands have left of it,
\* everything, the generation or nothing; live: the turn it saw in progress.
NoTick == [pc |-> "idle", snap |-> OffDuty, same |-> "all", live |-> None, todo |-> {},
           item |-> None, d |-> None, want |-> "paused", activate |-> FALSE]

NormalSteps == {"reconcile", "goal", "set", "setDone", "unset", "interrupt",
                "dispatch", "prepared", "launch", "launched", "refused", "lost"}
HoldSteps == {"hold", "holdPause", "holdTurns", "holdNoTurn", "holdInterrupt", "holdReconcile"}
\* Where a pass has not read the role yet, or looks at its revision no more.
Unaware == {"idle", "reconcile", "launch", "launched", "refused", "lost", "failing", "unset"}
Steps == {"idle", "failing"} \cup NormalSteps \cup HoldSteps

ItemStates == {"none", "queued", "completed", "failed", "running", "unknown"}
TickRow == [pc : Steps, snap : RoleRow, same : {"all", "generation", "nothing"},
            live : Turns \cup {None}, todo : SUBSET Dispatches, item : Items \cup {None},
            d : Dispatches \cup {None}, want : {"active", "paused"}, activate : BOOLEAN]

DutyTypeOK ==
    /\ role \in RoleRow
    /\ dispatch \in [Dispatches -> DispatchRow]
    /\ item \in [Items -> ItemStates]
    /\ held \in BOOLEAN /\ goal \in Goals
    /\ turn \in [Turns -> {"none", "inProgress", "completed", "failed"}]
    /\ carries \in [Dispatches -> Turns \cup {None}]
    /\ tick \in TickRow
    /\ refused \subseteq {"pause", "interrupt"}
    /\ troubles \in 0..MaxTroubles

DutyInit ==
    /\ role = OffDuty
    /\ dispatch = [d \in Dispatches |-> [status |-> "none", item |-> None, steer |-> FALSE,
                                         turn |-> None]]
    /\ item = [i \in Items |-> "none"]
    /\ held = FALSE /\ goal = "none"
    /\ turn = [t \in Turns |-> "none"]
    /\ carries = [d \in Dispatches |-> None]
    /\ tick = NoTick /\ refused = {} /\ troubles = 0

-----------------------------------------------------------------------------
(* The store *)

Pending == {d \in Dispatches : dispatch[d].status \in Unsettled}
Queued == {i \in Items : item[i] = "queued"}

\* dispatch_state: owner events first, task notices only on duty.
NextItems == IF Queued \cap OwnerEvents # {} THEN Queued \cap OwnerEvents
             ELSE IF role.desired = "on" THEN Queued ELSE {}

Live == {t \in Turns : turn[t] = "inProgress"}
LiveTurn == IF Live = {} THEN None ELSE CHOOSE t \in Live : TRUE

Trouble == troubles < MaxTroubles /\ troubles' = troubles + 1

Tables == [role |-> role, dispatch |-> dispatch, item |-> item]
Store(s) == role' = s.role /\ dispatch' = s.dispatch /\ item' = s.item

RoleMarked_Any(r, d, was, status, error) ==
    IF status \in {"completed", "failed"}
    THEN [r EXCEPT !.active = None, !.error = error,
                   !.state = IF r.desired = "on" THEN "idle" ELSE "off"]
    ELSE IF status = "unknown" THEN [r EXCEPT !.state = "attention", !.error = error]
    ELSE r

\* What mark_dispatch makes of the state of the role.
RoleMarked(r, d, was, status, error) ==
    IF status \in {"completed", "failed"}
    THEN IF r.active # d THEN r
         ELSE [r EXCEPT !.active = None, !.error = error,
                        !.state = IF @ = "waiting" THEN @
                                  ELSE IF r.desired = "on" THEN "idle" ELSE "off"]
    ELSE IF status = "unknown"
    THEN [r EXCEPT !.state = "attention",
                   !.error = IF error = "none" THEN "launch_unknown" ELSE error]
    ELSE IF was = "unknown" /\ r.state = "attention" /\ r.error = "launch_unknown"
    THEN [r EXCEPT !.state = "running", !.error = "none"]
    ELSE r

Marked(s, d, status, t, error) ==
    [role |-> RoleMarked(s.role, d, s.dispatch[d].status, status, error),
     dispatch |-> [s.dispatch EXCEPT ![d].status = status, ![d].turn = IF t = None THEN @ ELSE t],
     item |-> IF s.dispatch[d].item = None THEN s.item
              ELSE [s.item EXCEPT ![s.dispatch[d].item] = status]]

Attention(error) == role' = [role EXCEPT !.state = "attention", !.error = error]

-----------------------------------------------------------------------------
(* Commands *)

\* Every command counts up the revision, start and stop the generation too.
Behind(same) == tick' = IF tick.pc \in Unaware THEN tick ELSE [tick EXCEPT !.same = same]

\* The owner's start also takes back that he stopped the goal by hand.
Start ==
    /\ IF role.desired = "on" THEN Trouble ELSE UNCHANGED troubles
    /\ goal' = GoalShown
    /\ role' = [role EXCEPT !.desired = "on", !.state = "idle", !.asleep = FALSE,
                            !.error = "none", !.applied = "none"]
    /\ Behind("nothing") /\ refused' = {}
    /\ UNCHANGED <<dispatch, item, held, turn, carries>>

Stop ==
    /\ IF role.desired = "off" THEN Trouble ELSE UNCHANGED troubles
    /\ role' = [role EXCEPT !.desired = "off", !.state = "off", !.asleep = FALSE]
    /\ Behind("nothing") /\ refused' = {}
    /\ UNCHANGED <<dispatch, item, held, codex>>

Minor == IF tick.same = "all" THEN "generation" ELSE tick.same

Sleep ==
    /\ Trouble /\ role.desired = "on"
    /\ role' = [role EXCEPT !.state = "waiting", !.asleep = TRUE]
    /\ Behind(Minor) /\ refused' = {}
    /\ UNCHANGED <<dispatch, item, held, codex>>

Checkpoint ==
    /\ Trouble /\ Behind(Minor) /\ refused' = {}
    /\ UNCHANGED <<store, held, codex>>

\* The owner has looked into the thread and names the turn of a lost launch.
ReconcileTurn(d) ==
    /\ dispatch[d].status = "unknown" /\ carries[d] # None
    /\ dispatch' = [dispatch EXCEPT ![d].status = "running", ![d].turn = carries[d]]
    /\ Behind(Minor) /\ refused' = {}
    /\ UNCHANGED <<role, item, held, codex, troubles>>

\* submit_owner_event, or a task that concerns the role.
Submit(i) ==
    /\ item[i] = "none" /\ item' = [item EXCEPT ![i] = "queued"]
    /\ UNCHANGED <<role, dispatch, people, codex, tick, troubles>>

WakeTime ==
    /\ role.asleep \/ tick.snap.asleep
    /\ role' = [role EXCEPT !.asleep = FALSE] /\ tick' = [tick EXCEPT !.snap.asleep = FALSE]
    /\ UNCHANGED <<dispatch, item, people, codex, troubles>>

SetHold ==
    /\ Trouble /\ held' = ~held
    /\ UNCHANGED <<store, refused, codex, tick>>

-----------------------------------------------------------------------------
(* Codex: the agent works, and the owner may pause its goal by hand *)

TurnEnds(t) ==
    /\ turn[t] = "inProgress"
    /\ \E how \in IF t = Native THEN {"none"} ELSE {"completed", "failed"} :
          turn' = [turn EXCEPT ![t] = how]
    /\ UNCHANGED <<store, people, goal, carries, tick, troubles>>

\* An interrupt that comes too late changes nothing.
Interrupted(t) ==
    turn' = [turn EXCEPT ![t] = IF @ # "inProgress" THEN @ ELSE IF t = Native THEN "none"
                                ELSE "failed"]

Continue ==
    /\ goal = "active" /\ Live = {}
    /\ turn' = [turn EXCEPT ![Native] = "inProgress"]
    /\ UNCHANGED <<store, people, goal, carries, tick, troubles>>

PausedByHand ==
    /\ Trouble /\ goal = "active"
    /\ goal' = "stopped"
    /\ UNCHANGED <<store, people, turn, carries, tick>>

Limited ==
    /\ Trouble /\ goal = "active" /\ goal' = "limited"
    /\ UNCHANGED <<store, people, turn, carries, tick>>

-----------------------------------------------------------------------------
(* How a pass ends *)

GoTo(pc) == tick' = [tick EXCEPT !.pc = pc]
End == tick' = NoTick

\* An RPC fails: its answer is lost (carried out or not), or it is refused.
LosesAnswer == Trouble /\ role' = [role EXCEPT !.error = "other"] /\ End
IsRejected == Trouble /\ Attention("rejected") /\ End

\* The executor dies; it forgets what was refused.
Crash ==
    /\ Trouble /\ tick.pc # "idle" /\ End
    /\ refused' = {}
    /\ UNCHANGED <<store, held, codex>>

\* A request that is not one of the launch, the goal or an interrupt has no effect.
ReadFails ==
    /\ tick.pc \in {"reconcile", "goal", "dispatch"}
    /\ LosesAnswer \/ IsRejected
    /\ UNCHANGED <<dispatch, item, people, codex>>

HoldReadFails ==
    /\ tick.pc \in {"hold", "holdTurns", "holdNoTurn"}
    /\ Trouble /\ End
    /\ UNCHANGED <<store, people, codex>>

-----------------------------------------------------------------------------
(* _role_tick *)

Needed ==
    \/ role.desired = "on" \/ role.owned \/ role.active # None
    \/ NextItems # {} \/ Pending # {}

MustHold == role.error = "instruction" \/ (role.desired = "off" /\ role.error = "rejected")

\* The list of turns comes with the first look at the role: commands and Codex do
\* not touch the same things, so nothing tells the two apart.
Look ==
    /\ tick.pc = "idle" /\ Needed
    /\ role.error = "rejected" => MustHold
    /\ tick' = IF MustHold
               THEN [NoTick EXCEPT !.pc = "hold", !.snap = role]
               ELSE [NoTick EXCEPT !.pc = "reconcile", !.live = LiveTurn, !.todo = Pending]
    /\ UNCHANGED <<store, codex, people, troubles>>

Judged_Read(s, d, t, ok, bad) ==
    IF t = tick.live \/ turn[t] = "inProgress" THEN s
    ELSE Marked(s, d, "completed", None, ok)

\* One dispatch of _reconcile, oldest first.  A known turn is judged by the list,
\* another one is searched by clientUserMessageId in a list of its own.
Judged(s, d, t, ok, bad) ==
    IF t = tick.live \/ turn[t] = "inProgress" THEN s
    ELSE IF turn[t] = "completed" THEN Marked(s, d, "completed", None, ok)
    ELSE Marked(s, d, "failed", None, bad)

Reconciled(d, ok, bad, lost) ==
    IF dispatch[d].turn # None THEN Judged(Tables, d, dispatch[d].turn, ok, bad)
    ELSE IF carries[d] # None
    THEN LET found == Marked(Tables, d, "running", carries[d], ok)
             end == turn[carries[d]]
         IN IF end = "inProgress" THEN found
            ELSE Marked(found, d, end, None, IF end = "completed" THEN ok ELSE bad)
    ELSE Marked(Tables, d, "unknown", None, lost)

IsNext(d) == d \in tick.todo /\ \A e \in tick.todo : d <= e

Reconcile(d) ==
    /\ tick.pc = "reconcile" /\ IsNext(d)
    /\ Store(Reconciled(d, "none", "other", "launch_unknown"))
    /\ tick' = [tick EXCEPT !.todo = @ \ {d}]
    /\ UNCHANGED <<codex, people, troubles>>

\* What the rest of a pass uses of the row it has read.
Seen == [role EXCEPT !.error = "none", !.active = None,
                     !.state = IF @ = "waiting" THEN @ ELSE "idle"]

Consult_NoHold ==
    /\ tick.pc = "reconcile" /\ tick.todo = {}
    /\ \E i \in IF NextItems = {} THEN {None} ELSE NextItems :
          tick' = [tick EXCEPT !.pc = "goal", !.snap = Seen, !.item = i, !.d = role.active]
    /\ UNCHANGED <<store, codex, people, troubles>>

\* dispatch_state once more; from here on commands are noticed by the revision.
Consult ==
    /\ tick.pc = "reconcile" /\ tick.todo = {}
    /\ \E i \in IF NextItems = {} THEN {None} ELSE NextItems :
          tick' = IF role.desired = "off" /\ role.owned
                  THEN [NoTick EXCEPT !.pc = "hold", !.snap = role]
                  ELSE [tick EXCEPT !.pc = "goal", !.snap = Seen, !.item = i, !.d = role.active]
    /\ UNCHANGED <<store, codex, people, troubles>>

-----------------------------------------------------------------------------
(* _sync_goal: before a launch only to pause, after it to activate *)

Sleeping == held \/ (tick.snap.state = "waiting" /\ tick.snap.asleep)
Wanted == IF tick.snap.desired = "on" /\ ~Sleeping THEN "active" ELSE "paused"
MayCreate == tick.activate \/ tick.d # None

Applied(want) ==
    role' = [role EXCEPT !.owned = tick.snap.desired = "on" \/ tick.snap.owned, !.applied = want]

\* What _role_tick does next; after a launch there is nothing left to do.
Starting == {d \in Dispatches : dispatch[d].status \in {"starting", "unknown"}}
Room == \E d \in Dispatches : dispatch[d].status = "none"

\* A turn of the duty that outlived it, where no goal is owned.
StopsDuty ==
    /\ tick.snap.desired = "off" /\ tick.d # None /\ tick.live # None
    /\ dispatch[tick.d].item = None

IsErrand == tick.item # None
IsDuty ==
    /\ ~IsErrand /\ tick.snap.desired = "on" /\ tick.live = None /\ tick.d = None
    /\ ~(tick.snap.state = "waiting" /\ tick.snap.asleep)

Goes(activate) ==
    tick' = [NoTick EXCEPT !.pc = "dispatch", !.same = tick.same, !.item = tick.item,
                           !.live = tick.live, !.activate = activate]

Choose(launches, activate) ==
    IF tick.activate THEN End
    ELSE IF StopsDuty THEN GoTo("interrupt")
    ELSE IF launches /\ Room THEN Goes(activate)
    ELSE End

Ready == Choose(~held /\ Starting = {} /\ (IsErrand \/ IsDuty), tick.snap.desired = "on")

\* An owner's errand goes to the agent also while its goal is stopped by hand.
NotReady == Choose(IsErrand /\ role'.error = "manually_stopped", FALSE)

\* The goal, as Codex shows it, leaves nothing to set.
GoalStands ==
    /\ tick.pc = "goal"
    /\ \/ goal = "limited" /\ Attention("other") /\ NotReady
       \/ /\ goal = "none" /\ (~MayCreate \/ tick.snap.desired = "off")
          /\ UNCHANGED role /\ Ready
       \/ /\ GoalShown = "paused" /\ tick.snap.applied = "active"
          /\ Attention("manually_stopped") /\ NotReady
       \/ /\ GoalShown = Wanted /\ (Wanted = "paused" => tick.snap.applied # "active")
          /\ Applied(Wanted) /\ Ready
    /\ UNCHANGED <<dispatch, item, codex, people, troubles>>

GoalDiffers ==
    /\ tick.pc = "goal" /\ GoalShown \notin {"limited", Wanted}
    /\ goal = "none" => MayCreate /\ tick.snap.desired = "on"
    /\ GoalShown = "paused" => tick.snap.applied # "active"

BundleIsBad ==
    /\ GoalDiffers /\ Wanted = "active"
    /\ Trouble /\ Attention("instruction") /\ End
    /\ UNCHANGED <<dispatch, item, people, codex>>

\* A new goal, or one to be resumed, waits for the launch; stop must own it.
GoalWaits ==
    /\ GoalDiffers
    /\ \/ tick.same # "all" /\ UNCHANGED role /\ NotReady
       \/ /\ tick.same = "all" /\ Wanted = "active" /\ ~tick.activate
          /\ role' = IF goal = "none" THEN role ELSE [role EXCEPT !.owned = TRUE]
          /\ Ready
    /\ UNCHANGED <<dispatch, item, codex, people, troubles>>

ClaimGoal_Late ==
    /\ GoalDiffers /\ tick.same = "all" /\ (Wanted = "active" => tick.activate)
    /\ UNCHANGED role
    /\ tick' = [tick EXCEPT !.pc = "set", !.want = Wanted]
    /\ UNCHANGED <<dispatch, item, codex, people, troubles>>

\* Ownership is written before the goal is.
ClaimGoal ==
    /\ GoalDiffers /\ tick.same = "all" /\ (Wanted = "active" => tick.activate)
    /\ role' = IF Wanted = "active" THEN [role EXCEPT !.owned = TRUE] ELSE role
    /\ tick' = [tick EXCEPT !.pc = "set", !.want = Wanted]
    /\ UNCHANGED <<dispatch, item, codex, people, troubles>>

SetGoal ==
    /\ tick.pc = "set" /\ goal' = tick.want /\ GoTo("setDone")
    /\ UNCHANGED <<store, turn, carries, people, troubles>>

\* The same for the request that takes the goal back.
SetFails ==
    /\ tick.pc \in {"set", "unset"}
    /\ \/ LosesAnswer /\ goal' \in {goal, IF tick.pc = "set" THEN tick.want ELSE "paused"}
       \/ IsRejected /\ UNCHANGED goal
    /\ UNCHANGED <<dispatch, item, turn, carries, people>>

\* A stop or a new start that came meanwhile takes an activated goal back.
SetDone ==
    /\ tick.pc = "setDone"
    /\ IF tick.want = "active" /\ (tick.same = "nothing" \/ role.desired = "off")
       THEN tick' = [tick EXCEPT !.pc = "unset", !.same = "all"] /\ UNCHANGED role
       ELSE Applied(tick.want) /\ Ready
    /\ UNCHANGED <<dispatch, item, codex, people, troubles>>

Unset ==
    /\ tick.pc = "unset" /\ goal' = "paused" /\ End
    /\ UNCHANGED <<store, turn, carries, people, troubles>>

Interrupt ==
    /\ tick.pc = "interrupt"
    /\ \/ Interrupted(tick.live) /\ End /\ UNCHANGED <<role, troubles>>
       \/ (LosesAnswer \/ IsRejected) /\ UNCHANGED turn
    /\ UNCHANGED <<dispatch, item, goal, carries, people>>

-----------------------------------------------------------------------------
(* _dispatch *)

DispatchFails ==
    /\ tick.pc = "dispatch"
    /\ Trouble /\ Attention("instruction") /\ End
    /\ UNCHANGED <<dispatch, item, people, codex>>

\* A message joins only a turn that the executor knows as its own; a new turn asks
\* for an idle thread.
NotNow ==
    /\ tick.pc = "dispatch"
    /\ IF tick.live # None THEN \A d \in Pending : dispatch[d].turn # tick.live ELSE Live # {}
    /\ End
    /\ UNCHANGED <<store, codex, people, troubles>>

\* prepare_dispatch
Prepare(d) ==
    LET steer == tick.live # None IN
    /\ tick.pc = "dispatch"
    /\ IF steer THEN \E e \in Pending : dispatch[e].turn = tick.live ELSE Live = {}
    /\ dispatch[d].status = "none" /\ \A e \in Dispatches : e < d => dispatch[e].status # "none"
    /\ IF tick.same # "all" \/ (role.active # None /\ ~steer)
       THEN Attention("other") /\ End /\ UNCHANGED <<dispatch, item>>
       ELSE /\ dispatch' = [dispatch EXCEPT ![d] = [status |-> "starting", item |-> tick.item,
                                                    steer |-> steer, turn |-> None]]
            /\ item' = IF tick.item = None THEN item ELSE [item EXCEPT ![tick.item] = "running"]
            /\ role' = IF steer THEN role ELSE [role EXCEPT !.active = d, !.state = "running"]
            /\ tick' = [tick EXCEPT !.pc = IF steer THEN "launch" ELSE "prepared", !.d = d,
                                    !.item = None]
    /\ UNCHANGED <<codex, people, troubles>>

\* thread/read, the injected instructions and a last look at the revision: a
\* launch that fails here has certainly not been sent.
Inject ==
    /\ tick.pc = "prepared" /\ Live = {}
    /\ tick' = [tick EXCEPT !.pc = IF tick.same = "all" /\ ~held THEN "launch" ELSE "failing",
                            !.same = "all"]
    /\ UNCHANGED <<store, codex, people, troubles>>

InjectFails ==
    /\ tick.pc = "prepared"
    /\ \/ Live # {} /\ UNCHANGED troubles
       \/ Trouble
    /\ tick' = [tick EXCEPT !.pc = "failing", !.same = "all"]
    /\ UNCHANGED <<store, codex, people>>

\* turn/start and turn/steer, as Codex carries them out, or has to refuse them.
Accepts(d) == IF dispatch[d].steer THEN tick.live \in Live ELSE Live = {}

Carried(d) ==
    LET t == IF dispatch[d].steer THEN tick.live ELSE d IN
    /\ Accepts(d)
    /\ turn' = [turn EXCEPT ![t] = "inProgress"]
    /\ carries' = [carries EXCEPT ![d] = t]

Launch ==
    /\ tick.pc = "launch"
    /\ \/ Carried(tick.d) /\ GoTo("launched") /\ UNCHANGED troubles
       \/ ~Accepts(tick.d) /\ GoTo("refused") /\ UNCHANGED <<turn, carries, troubles>>
       \/ Trouble /\ GoTo("refused") /\ UNCHANGED <<turn, carries>>
       \/ Trouble /\ GoTo("lost") /\ (Carried(tick.d) \/ UNCHANGED <<turn, carries>>)
    /\ UNCHANGED <<store, goal, people>>

Outcome_Failed ==
    /\ \/ /\ tick.pc = "launched"
          /\ Store(Marked(Tables, tick.d, "running", carries[tick.d], "none"))
          /\ IF tick.activate
             THEN tick' = [NoTick EXCEPT !.pc = "goal", !.snap = Seen', !.activate = TRUE]
             ELSE End
       \/ /\ tick.pc = "refused"
          /\ Store(Marked(Tables, tick.d, "failed", None, "rejected")) /\ End
       \/ /\ tick.pc = "lost"
          /\ Store(Marked(Tables, tick.d, "failed", None, "rejected")) /\ End
    /\ UNCHANGED <<codex, people, troubles>>

\* The goal of the duty is set by the role as it is after the launch.
Outcome ==
    /\ \/ /\ tick.pc = "launched"
          /\ Store(Marked(Tables, tick.d, "running", carries[tick.d], "none"))
          /\ IF tick.activate
             THEN tick' = [NoTick EXCEPT !.pc = "goal", !.snap = Seen', !.activate = TRUE]
             ELSE End
       \/ /\ tick.pc = "refused"
          /\ Store(Marked(Tables, tick.d, "failed", None, "rejected")) /\ End
       \/ /\ tick.pc = "lost"
          /\ Store(Marked(Tables, tick.d, "unknown", None, "launch_unknown")) /\ End
    /\ UNCHANGED <<codex, people, troubles>>

\* _instruction_failure: what was prepared is closed and the role is held.
FailDispatch ==
    /\ tick.pc = "failing"
    /\ LET failed == Marked(Tables, tick.d, "failed", None, "instruction") IN
       Store([failed EXCEPT !.role.state = "attention", !.role.error = "instruction"])
    /\ tick' = [NoTick EXCEPT !.pc = "hold", !.snap = role']
    /\ UNCHANGED <<codex, people, troubles>>

-----------------------------------------------------------------------------
(* _reconcile_instruction_hold, and _reconcile_dispatch_hold without a goal *)

\* _instruction_hold_current
Current ==
    /\ tick.same = "all" /\ role.error = tick.snap.error
    /\ role.error = "instruction" \/ role.desired = "off"

\* The dispatch the role may stop without owning a goal.
OwnTurn ==
    LET d == tick.snap.active IN
    IF d # None /\ d \in Pending /\ dispatch[d].item = None THEN dispatch[d].turn ELSE None

Hold ==
    /\ tick.pc = "hold"
    /\ IF ~Current \/ (~tick.snap.owned /\ OwnTurn = None) THEN End
       ELSE IF ~tick.snap.owned \/ GoalShown = "paused" THEN GoTo("holdTurns")
       ELSE IF goal = "none" THEN GoTo("holdNoTurn")
       ELSE IF "pause" \in refused THEN End ELSE GoTo("holdPause")
    /\ refused' = IF tick.snap.owned /\ GoalShown = "paused" /\ Current
                  THEN refused \ {"pause"} ELSE refused
    /\ UNCHANGED <<store, codex, held, troubles>>

HoldPause ==
    /\ tick.pc = "holdPause"
    /\ \/ /\ goal' = "paused" /\ refused' = refused \ {"pause"} /\ GoTo("holdTurns")
          /\ UNCHANGED troubles
       \/ Trouble /\ End /\ refused' = refused \cup {"pause"} /\ UNCHANGED goal
       \/ Trouble /\ End /\ goal' \in {goal, "paused"} /\ UNCHANGED refused
    /\ UNCHANGED <<store, turn, carries, held>>

\* The turn to stop: any one under an owned goal, otherwise only the duty's own.
Stoppable == IF tick.snap.owned THEN LiveTurn ELSE IF OwnTurn \in Live THEN OwnTurn ELSE None

HoldTurns ==
    /\ tick.pc = "holdTurns"
    /\ IF ~Current THEN End
       ELSE IF Stoppable = None
       THEN tick' = [tick EXCEPT !.pc = "holdReconcile", !.live = LiveTurn, !.todo = Pending]
       ELSE IF ~tick.snap.owned /\ "interrupt" \in refused THEN End
       ELSE tick' = [tick EXCEPT !.pc = "holdInterrupt", !.live = Stoppable]
    /\ UNCHANGED <<store, codex, people, troubles>>

\* No goal, so none to pause: it is remembered as wanted, to be given up below.
HoldNoTurn ==
    /\ tick.pc = "holdNoTurn"
    /\ IF ~Current \/ Live # {} THEN End
       ELSE tick' = [tick EXCEPT !.pc = "holdReconcile", !.want = "active", !.todo = Pending]
    /\ UNCHANGED <<store, codex, people, troubles>>

\* After an interrupt the turns are listed again: one that still goes on is left
\* to the next pass.  Only a refusal without a goal is remembered.
HoldInterrupt ==
    /\ tick.pc = "holdInterrupt"
    /\ \/ /\ Interrupted(tick.live)
          /\ tick' = [tick EXCEPT !.pc = "holdReconcile", !.live = None, !.todo = Pending]
          /\ refused' = IF tick.snap.owned THEN refused ELSE refused \ {"interrupt"}
          /\ UNCHANGED troubles
       \/ /\ Trouble /\ End /\ UNCHANGED turn
          /\ refused' \in {refused, IF tick.snap.owned THEN refused ELSE refused \cup {"interrupt"}}
    /\ UNCHANGED <<store, goal, carries, held>>

HoldReconcile(d) ==
    /\ tick.pc = "holdReconcile" /\ IsNext(d)
    /\ IF Current
       THEN /\ LET error == tick.snap.error IN Store(Reconciled(d, error, error, error))
            /\ tick' = [tick EXCEPT !.todo = @ \ {d}]
       ELSE End /\ UNCHANGED store
    /\ UNCHANGED <<codex, people, troubles>>

\* The goal is released only when it and every turn have stopped, or when there is none.
HoldSettled ==
    /\ tick.pc = "holdReconcile" /\ tick.todo = {}
    /\ role' = IF tick.snap.owned /\ Current
               THEN [role EXCEPT !.state = tick.snap.state, !.applied = "paused",
                                 !.owned = tick.want = "paused" /\ tick.snap.desired = "on"]
               ELSE role
    /\ End
    /\ UNCHANGED <<dispatch, item, codex, people, troubles>>

-----------------------------------------------------------------------------
Commands ==
    \/ Start \/ Stop \/ Sleep \/ Checkpoint \/ WakeTime \/ SetHold
    \/ \E d \in Dispatches : ReconcileTurn(d)
    \/ \E i \in Items : Submit(i)

Codex == Continue \/ PausedByHand \/ Limited \/ \E t \in Turns : TurnEnds(t)

Pass ==
    \/ Look \/ Consult
    \/ GoalStands \/ GoalWaits \/ ClaimGoal \/ SetGoal \/ SetDone \/ Unset
    \/ Interrupt \/ NotNow \/ Inject \/ InjectFails \/ Launch \/ Outcome \/ FailDispatch
    \/ Hold \/ HoldPause \/ HoldTurns \/ HoldNoTurn \/ HoldInterrupt \/ HoldSettled
    \/ \E d \in Dispatches : Reconcile(d) \/ Prepare(d) \/ HoldReconcile(d)

Faults == Crash \/ ReadFails \/ HoldReadFails \/ BundleIsBad \/ SetFails \/ DispatchFails

DutyNext == Commands \/ Codex \/ Pass \/ Faults

\* The daemon makes a pass every few seconds.
DutySpec == DutyInit /\ [][DutyNext]_dutyVars /\ WF_dutyVars(Pass)

-----------------------------------------------------------------------------
(* Safety *)

\* The agent that works on a message is known to work on it, also when the answer
\* of the launch was lost, so nothing is started beside it.
TurnsAreKnown == \A d \in Dispatches : carries[d] \in Live => d \in Pending

\* The role points to the one launch that may still be under way, through lost
\* answers, refusals, failures and crashes: messages that joined its turn do not count.
ActiveStands ==
    \A d \in Dispatches : role.active = d <=> d \in Pending /\ ~dispatch[d].steer

\* What the receipt of an owner event says came to pass: a completed one was read
\* in one turn that completed, a failed one in none that completed, or is waiting.
ReceiptIsTrue ==
    \A i \in Items :
        LET sent == {d \in Dispatches : dispatch[d].item = i /\ carries[d] # None} IN
        /\ Cardinality(sent) <= 1
        /\ item[i] \in {"none", "queued"} => sent = {}
        /\ item[i] = "completed" => \E d \in sent : turn[carries[d]] = "completed"
        /\ item[i] = "failed" => \A d \in sent : turn[carries[d]] = "failed"

\* A goal that Codex pursues is one the role has to pause when it is stopped,
\* wherever a pass was cut off.
GoalIsOwned == goal = "active" => role.owned

(* Liveness *)

DutyTurns == {t \in Live : t = Native \/ dispatch[t].item = None}

\* Once the owner has stopped the duty its goal stops, and its turns if it had one,
\* unless Codex refuses to.
StopEnds ==
    role.desired = "off" ~>
        \/ role.desired = "on" \/ refused # {}
        \/ goal # "active" /\ (goal = "none" \/ DutyTurns = {})
=============================================================================
