------------------------------- MODULE Supervision -------------------------------
(***************************************************************************)
(* How one bot watches its connection and repairs it: the PUSH stream       *)
(* (PushStream), the readiness machine (readiness/state.ts), the worker's   *)
(* monitor (worker/worker.ts), the alert evaluator (monitoring/alerts.ts),  *)
(* which GET /api/alerts evaluates too (observability/server.ts), the       *)
(* recovery ladder (monitoring/recovery.ts), its executor                   *)
(* (worker/recovery-executor.ts), and the restart that replaces all of them *)
(* (bots/connect.ts, bots/bot-host.ts).                                     *)
(*                                                                         *)
(* Time passes in ticks of the monitor.  What the metrics and the lanes say *)
(* at an evaluation is left open: any set of the watched conditions.        *)
(* MaxTrouble bounds how often LINE, the network, the process or the        *)
(* operator interferes; once they have done so for the last time it is      *)
(* Calm.                                                                    *)
(***************************************************************************)
EXTENDS PushStream

CONSTANTS
  Watched,       (* alert kinds that may fire besides the loss of readiness *)
  LossTicks,     (* readinessLossMs                                         *)
  DurationTicks, (* minDurationMs                                           *)
  CooldownTicks, (* cooldownMs                                              *)
  ClearAfter,    (* clearAfterCleanChecks                                   *)
  MaxTrouble     (* bound on the interferences                              *)

Loss == "readiness-loss"
Budget == "line-trigger-reply-budget"
Kinds == Watched \union {Loss}

(* Kinds whose first rung restarts the connection.                          *)
Grave == Kinds \intersect {Loss, "missed-events"}

ASSUME SupervisionAssumption ==
  /\ Watched \subseteq {"missed-events", Budget, "failure-rate", "no-lane-available"}
  /\ LossTicks \in Nat \ {0} /\ DurationTicks \in Nat \ {0}
  /\ CooldownTicks \in Nat \ {0} /\ ClearAfter \in Nat \ {0}
  /\ MaxTrouble \in Nat

(* RECOVERY_RUNGS, by their index.  No kind that can fire enters at         *)
(* avoid-lane: a regression needs a baseline, which the worker never sets.  *)
NoRung == 0
AvoidLane == 1
ReconnectLane == 2
RearmPoll == 3
ReconnectSession == 4
RestartWorker == 5
Rungs == NoRung..RestartWorker

VARIABLES
  phase,     (* the connection of BotHost                                   *)
  restart,   (* a restart is asked for; "due" is after one more tick        *)
  readiness, (* ReadinessFsm #state; its checks follow from phase and this  *)
  pending,   (* AlertEvaluator #pending: how many ticks each kind has held  *)
  ladder,    (* RecoveryPlanner: #rung, time on it, #cleanChecks            *)
  trouble,   (* how much interference is still to come, at most               *)
  held,      (* history: for how many ticks in a row each of Grave has held *)
  since      (* history: ticks of this worker                               *)

watchVars == <<readiness, pending, ladder>>
hostVars == <<phase, restart>>
history == <<held, since>>
vars == <<pushVars, watchVars, hostVars, trouble, history>>

(* A kind that is not pending, and one an /api/alerts request has found     *)
(* since the last tick.                                                     *)
Off == -2
Found == -1

Need(k) == IF k = Loss THEN LossTicks ELSE DurationTicks
Longest == DurationTicks + CooldownTicks + 1

TypeOK ==
  /\ PushTypeOK
  /\ phase \in {"connecting", "starting", "up", "off"}
  /\ restart \in {"no", "asked", "due"}
  /\ readiness \in {"starting", "authenticated", "syncing", "warming", "armed"}
  /\ pending \in [Kinds -> {Off, Found} \union Nat]
  /\ ladder \in [rung: Rungs, on: 0..CooldownTicks, clean: 0..(ClearAfter - 1)]
  /\ trouble \in 0..MaxTrouble
  /\ held \in [Grave -> Nat] /\ since \in 0..Longest

Calm == trouble = 0
Interferes == trouble > 0 /\ trouble' = trouble - 1

Bottom == [rung |-> NoRung, on |-> 0, clean |-> 0]

Capped(n, top) == IF n < top THEN n + 1 ELSE top

------------------------------------------------------------------------------
(* ReadinessFsm.  The worker calls set alone, so degraded and repair are    *)
(* not reached, and #advanceToward goes all the way in one call.            *)

LadderState(sessionValid, receiver, drained, loadedAndReady) ==
  IF ~sessionValid THEN "starting"
  ELSE IF ~receiver \/ ~drained THEN "syncing"
  ELSE IF ~loadedAndReady THEN "warming"
  ELSE "armed"

------------------------------------------------------------------------------
(* AlertEvaluator.                                                          *)

(* Mutant of Evaluated: a condition that does not hold stays pending.       *)
EvaluatedKeeping(holding, ages, new) ==
  [k \in Kinds |-> IF k \in holding /\ ages[k] = Off THEN new ELSE ages[k]]

(* evaluate's effect on #pending, where new is the age of what it finds     *)
(* first now.                                                               *)
Evaluated(holding, ages, new) ==
  [k \in Kinds |-> IF k \notin holding THEN Off
                   ELSE IF ages[k] = Off THEN new ELSE ages[k]]

(* The alerts: what has held long enough.                                   *)
Firing(ages) == {k \in Kinds : ages[k] >= Need(k)}

(* The clock since the last tick.                                           *)
Aged(ages) ==
  [k \in Kinds |-> IF ages[k] = Off THEN Off ELSE Capped(ages[k], Need(k))]

------------------------------------------------------------------------------
(* RecoveryPlanner.                                                         *)

(* ENTRY_RUNG                                                               *)
EntryRung(k) ==
  CASE k = Loss -> ReconnectSession
    [] k = "missed-events" -> RearmPoll
    [] k \in {"failure-rate", "no-lane-available"} -> ReconnectLane
    [] OTHER -> AvoidLane

(* The entry rung of the worst alert, for a set that is not empty.          *)
Worst(alerts) ==
  CHOOSE r \in Rungs : /\ \E k \in alerts : EntryRung(k) = r
                       /\ \A k \in alerts : EntryRung(k) <= r

Enter(rung) == [rung |-> rung, on |-> 0, clean |-> 0]

(* #observeClean                                                            *)
ObserveClean(l) ==
  IF l.rung = NoRung THEN l
  ELSE IF l.clean + 1 < ClearAfter THEN [l EXCEPT !.clean = @ + 1]
  ELSE Bottom

(* Mutant of NextRung: a rung gets no time to work.                         *)
NextRungAtOnce(l, firing) ==
  LET actionable == firing \ {Budget}
      waiting == [l EXCEPT !.clean = 0]
  IN IF firing = {} THEN ObserveClean(l)
     ELSE IF actionable = {} THEN waiting
     ELSE IF l.rung = NoRung \/ Worst(actionable) > l.rung THEN Enter(Worst(actionable))
     ELSE IF l.rung < RestartWorker THEN Enter(l.rung + 1)
     ELSE waiting

(* Mutant of NextRung: after the cooldown it climbs only for the problem it *)
(* entered with, and a more serious one waits for the rung to be left.      *)
NextRungWithoutJump(l, firing) ==
  LET actionable == firing \ {Budget}
      waiting == [l EXCEPT !.clean = 0]
  IN IF firing = {} THEN ObserveClean(l)
     ELSE IF actionable = {} THEN waiting
     ELSE IF l.rung = NoRung THEN Enter(Worst(actionable))
     ELSE waiting

(* next                                                                     *)
NextRung(l, firing) ==
  LET actionable == firing \ {Budget}
      waiting == [l EXCEPT !.clean = 0]
  IN IF firing = {} THEN ObserveClean(l)
     ELSE IF actionable = {} THEN waiting
     ELSE IF l.rung = NoRung THEN Enter(Worst(actionable))
     ELSE IF l.on < CooldownTicks THEN waiting
     ELSE IF Worst(actionable) > l.rung THEN Enter(Worst(actionable))
     ELSE IF l.rung < RestartWorker THEN Enter(l.rung + 1)
     ELSE waiting

(* Mutant of Restarts: the lane rungs are wired to a restart too.           *)
RestartsForLanes(before, after) == after.rung # before.rung /\ after.rung # NoRung

(* RecoveryExecutor with the hooks of connectToLine: the upper three rungs  *)
(* restart the bot's connection, the lower two only log.                    *)
Restarts(before, after) == after.rung # before.rung /\ after.rung >= RearmPoll

------------------------------------------------------------------------------
(* BotHost and connectToLine.                                               *)

Init ==
  /\ PushInit
  /\ phase = "connecting" /\ restart = "no"
  /\ readiness = "starting"
  /\ pending = [k \in Kinds |-> Off]
  /\ ladder = Bottom
  /\ trouble = MaxTrouble
  /\ held = [k \in Grave |-> 0] /\ since = 0

(* The connect ends with a Worker, and Worker.run starts the adapter, which *)
(* listens.                                                                 *)
Connected ==
  /\ phase = "connecting"
  /\ phase' = "starting"
  /\ pusher' = "sleeping"
  /\ readiness' = LadderState(TRUE, FALSE, FALSE, TRUE)
  /\ UNCHANGED <<restart, pending, ladder, clientVars, sidecarVars, current, trouble, history>>

(* The connect fails: its clients are closed and the bot is left            *)
(* disconnected, without a worker and without a monitor.                    *)
ConnectFails ==
  /\ phase = "connecting" /\ Interferes
  /\ phase' = "off"
  /\ UNCHANGED <<restart, watchVars, pushVars, history>>

(* adapter.start returns after the drain window; the monitor starts.        *)
Started ==
  /\ phase = "starting"
  /\ phase' = "up"
  /\ readiness' = LadderState(TRUE, health, TRUE, TRUE)
  /\ UNCHANGED <<restart, pending, ladder, pushVars, trouble, history>>

(* A restart of the bot that is not the ladder's: the worker's loop ended,  *)
(* a login succeeded, or a logout.                                          *)
OtherRestart ==
  /\ phase \in {"starting", "up", "off"} /\ restart = "no" /\ Interferes
  /\ restart' = "asked"
  /\ UNCHANGED <<phase, watchVars, pushVars, history>>

(* #teardown, with the release of the sidecar, and the next connect: all    *)
(* that watched the old connection is made anew.                            *)
Restart ==
  /\ restart # "no" /\ phase \in {"starting", "up", "off"}
  /\ restart' = "no" /\ phase' = "connecting"
  /\ readiness' = "starting"
  /\ pending' = [k \in Kinds |-> Off]
  /\ ladder' = Bottom
  /\ held' = [k \in Grave |-> 0] /\ since' = 0
  /\ Replaced
  /\ UNCHANGED trouble

------------------------------------------------------------------------------
(* The monitor.                                                             *)

(* What an evaluation may find.                                             *)
Conditions == IF Calm THEN {{}} ELSE SUBSET Watched
Observed(found, state) == IF state = "armed" THEN found ELSE found \union {Loss}

(* monitorTick.  A restart asked for takes less than two ticks to stop the  *)
(* monitor, and one that is under way is not asked for again.  Once it is   *)
(* calm PUSH settles within a tick, which is much longer than LINEJS's      *)
(* sleep and a request.                                                     *)
Tick(found) ==
  /\ phase = "up" /\ restart # "due" /\ (Calm => ~InMotion)
  /\ readiness' = LadderState(TRUE, health, TRUE, TRUE)
  /\ LET holding == Observed(found, readiness')
     IN /\ pending' = Evaluated(holding, Aged(pending), 0)
        /\ held' = [k \in Grave |-> IF k \in holding THEN Capped(held[k], Need(k) + 1) ELSE 0]
  /\ ladder' = NextRung([ladder EXCEPT !.on = Capped(@, CooldownTicks)], Firing(pending'))
  /\ since' = Capped(since, Longest)
  /\ restart' = IF restart = "asked" THEN "due"
                ELSE IF Restarts(ladder, ladder') THEN "asked" ELSE restart
  /\ UNCHANGED <<phase, pushVars, trouble>>

(* GET /api/alerts: the worker's own evaluator, without the planner.        *)
AlertsAsked(found) ==
  /\ phase \in {"starting", "up"}
  /\ pending' = Evaluated(Observed(found, readiness), pending, Found)
  /\ UNCHANGED <<readiness, ladder, hostVars, pushVars, trouble, history>>

------------------------------------------------------------------------------
(* The connection is held, or still listens while it is torn down.          *)
Listening == phase \in {"starting", "up"}

(* Steps of the PUSH stream that go on whatever happens ...                 *)
PushRuns ==
  /\ \/ EnsureStarted
     \/ NoticeExit
     \/ \E i \in Ids : \/ OpenPush(i) \/ ReadHeaders(i) \/ ReadRefusal(i) \/ ReadEnd(i)
                       \/ ReadError(i) \/ TakeStart(i) \/ TakeCancel(i) \/ SessionOpens(i)
                       \/ Respond(i, "headers")
  /\ Listening
  /\ UNCHANGED <<watchVars, hostVars, trouble, history>>

(* ... and those that disturb it.                                           *)
PushSuffers ==
  /\ \/ AbortPush \/ CancelPush \/ ChildExits \/ GiveUp
     \/ \E i \in Ids : \/ PumpFails(i) \/ Respond(i, "refused")
                       \/ \E how \in Final : StreamEnds(i, how)
  /\ Listening /\ Interferes
  /\ UNCHANGED <<watchVars, hostVars, history>>

Next ==
  \/ Connected \/ ConnectFails \/ Started \/ OtherRestart \/ Restart
  \/ \E found \in Conditions : Tick(found) \/ AlertsAsked(found)
  \/ PushRuns \/ PushSuffers

Spec == Init /\ [][Next]_vars

(* Timers, the connect and the restart get on, lines are read, and once     *)
(* nothing interferes LINE answers and the process works.                   *)
Fairness ==
  /\ WF_vars(Connected) /\ WF_vars(Started) /\ WF_vars(Restart)
  /\ WF_vars(\E found \in Conditions : Tick(found))
  /\ WF_vars(PushRuns)

FairSpec == Spec /\ Fairness

------------------------------------------------------------------------------
(* Safety.                                                                  *)

(* Something about request i is still to come.                              *)
ToCome(i) ==
  \/ child = "exited"
  \/ wire[i] # <<>> /\ Head(wire[i]) = "start"
  \/ stream[i] \in {"opening", "open", "answered", "refused"}
  \/ lines[i] # <<>>

(* The health that readiness rests on is never left standing by a stream    *)
(* that is gone: while PUSH is called ready, some accepted stream is open,  *)
(* or its end is on the way; and what LINEJS waits for or reads will settle. *)
ReadyHasStream ==
  /\ health => \E i \in Ids : entry[i] = "accepted"
  /\ \A i \in Ids : entry[i] = "accepted" => ToCome(i)
  /\ pusher = "connecting" => entry[current] = "waiting" /\ ToCome(current)
  /\ pusher = "reading" => entry[current] = "accepted"

(* Streams of the process nobody owns and nobody is closing.                *)
Orphans ==
  {i \in Ids : /\ stream[i] # "none" /\ entry[i] = "none"
               /\ ~\E n \in DOMAIN wire[i] : wire[i][n] = "cancel"}

(* A stream of the process that has lost its owner is being cancelled, in   *)
(* all cases but two: the cancel came before its session was there, which   *)
(* the process forgets, or LINE refused it, where the client drops the      *)
(* request without a cancel and leaves the end to LINE.                     *)
NoOrphanStream == \A i \in Orphans : i \in deaf \/ stream[i] = "refused"

(* A single spike never restarts a connection: the ladder asks for it only  *)
(* when the readiness was lost, or events were missed, at every tick for as *)
(* long as the alert needs, or when the worker is old enough to have had an *)
(* alert and the cooldown of the rung it entered.                           *)
RestartIsEarned ==
  [][ restart = "no" /\ restart' = "asked" /\ ladder' # ladder /\ phase' = "up"
      => \/ \E k \in Grave : held'[k] >= Need(k) + 1
         \/ since' >= Longest ]_vars

(* restart-worker is not reached: every rung from which it could be climbed *)
(* restarts the bot and with it the ladder, before the cooldown is over.    *)
TopRungUnreached ==
  /\ ladder.rung # RestartWorker
  /\ ladder.rung >= RearmPoll => restart # "no"

(* Liveness.                                                                *)

(* A loss of PUSH does not last: it comes back or the bot is restarted.     *)
LossIsRepaired == (phase = "up" /\ ~health) ~> (health \/ restart # "no")

(* Once LINE and the network leave the bot alone it ends up armed for good, *)
(* whatever is left of earlier streams, unless a connect had failed.        *)
CalmIsArmed == Calm ~> [](phase = "off") \/ <>[](phase = "up" /\ readiness = "armed" /\ health)
==============================================================================
