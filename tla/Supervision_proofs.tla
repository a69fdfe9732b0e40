--------------------------- MODULE Supervision_proofs ---------------------------
(***************************************************************************)
(* Proofs about Supervision: type correctness, that a PUSH stream the       *)
(* health rests on is there or its end is on the way, that the process has  *)
(* no stream without an owner, that the last rung of the recovery ladder is *)
(* not reached, and that the ladder restarts nothing for a single spike.    *)
(***************************************************************************)
EXTENDS Supervision, SequenceTheorems, TLAPS

------------------------------------------------------------------------------
(* Lines on their way.                                                      *)

(* Appending to a line of messages keeps its head and sets its last one.    *)
LEMMA AppendFacts ==
  ASSUME NEW S, NEW s \in Seq(S), NEW e \in S
  PROVE  /\ Append(s, e) \in Seq(S)
         /\ Append(s, e) # <<>>
         /\ Append(s, e)[Len(Append(s, e))] = e
         /\ Head(Append(s, e)) = IF s = <<>> THEN e ELSE Head(s)
  OBVIOUS

(* Taking the first message keeps the last one, if there is one left.       *)
LEMMA TailFacts ==
  ASSUME NEW S, NEW s \in Seq(S), s # <<>>
  PROVE  /\ Head(s) \in S
         /\ Tail(s) \in Seq(S)
         /\ Tail(s) # <<>> => Tail(s)[Len(Tail(s))] = s[Len(s)]
         /\ Tail(s) = <<>> => Head(s) = s[Len(s)]
<1>1. Len(s) \in Nat /\ Len(s) # 0 /\ s \in [1..Len(s) -> S]
  OBVIOUS
<1>2. Head(s) \in S /\ Head(s) = s[1]
  BY <1>1
<1>3. Tail(s) \in Seq(S) /\ Len(Tail(s)) = Len(s) - 1
  OBVIOUS
<1>4. ASSUME Tail(s) # <<>> PROVE Tail(s)[Len(Tail(s))] = s[Len(s)]
  <2>1. Len(Tail(s)) \in Nat \ {0}
    BY <1>3, <1>4
  <2>2. \A n \in 1..Len(Tail(s)) : Tail(s)[n] = s[n + 1]
    OBVIOUS
  <2> QED
    BY <2>1, <2>2, <1>1, <1>3
<1>5. ASSUME Tail(s) = <<>> PROVE Head(s) = s[Len(s)]
  <2>1. Len(Tail(s)) = 0
    BY <1>3, <1>5, EmptySeq
  <2> QED
    BY <2>1, <1>1, <1>2, <1>3
<1> QED
  BY <1>2, <1>3, <1>4, <1>5

------------------------------------------------------------------------------
(* Type correctness, a part of the state at a time.                         *)

Messages == {"headers", "refused"} \union Final
Commands == {"start", "cancel"}

(* A step of the PUSH stream keeps its variables in their types.            *)
LEMMA PushTypes ==
  ASSUME PushTypeOK,
         \/ EnsureStarted \/ NoticeExit \/ AbortPush \/ CancelPush \/ ChildExits \/ GiveUp
         \/ \E i \in Ids : \/ OpenPush(i) \/ PumpFails(i) \/ ReadHeaders(i) \/ ReadRefusal(i) \/ ReadEnd(i)
                           \/ ReadError(i) \/ TakeStart(i) \/ TakeCancel(i) \/ SessionOpens(i)
                           \/ Respond(i, "headers") \/ Respond(i, "refused")
                           \/ \E how \in Final : StreamEnds(i, how)
  PROVE  PushTypeOK'
<1> USE DEF PushTypeOK, pushVars, clientVars, sidecarVars, pusherVars, Final
<1>1. CASE EnsureStarted
  BY <1>1 DEF EnsureStarted
<1>2. CASE NoticeExit
  BY <1>2 DEF NoticeExit, FailAll
<1>3. CASE AbortPush
  BY <1>3, AppendFacts DEF AbortPush, Write, FinishPushError, Settled
<1>4. CASE CancelPush
  BY <1>4, AppendFacts DEF CancelPush, Write
<1>5. CASE ChildExits
  BY <1>5 DEF ChildExits
<1>6. CASE GiveUp
  BY <1>6 DEF GiveUp
<1>7. ASSUME NEW i \in Ids, OpenPush(i) PROVE PushTypeOK'
  BY <1>7, AppendFacts DEF OpenPush, Write
<1>8. ASSUME NEW i \in Ids, ReadHeaders(i) PROVE PushTypeOK'
  BY <1>8, TailFacts DEF ReadHeaders, Took
<1>9. ASSUME NEW i \in Ids, ReadRefusal(i) PROVE PushTypeOK'
  BY <1>9, TailFacts DEF ReadRefusal, Took, FinishPushError, Settled
<1>10. ASSUME NEW i \in Ids, ReadEnd(i) PROVE PushTypeOK'
  BY <1>10, TailFacts DEF ReadEnd, Took, Settled
<1>11. ASSUME NEW i \in Ids, ReadError(i) PROVE PushTypeOK'
  BY <1>11, TailFacts DEF ReadError, Took, FinishPushError, Settled
<1>12. ASSUME NEW i \in Ids, TakeStart(i) PROVE PushTypeOK'
  BY <1>12, TailFacts DEF TakeStart
<1>13. ASSUME NEW i \in Ids, TakeCancel(i) PROVE PushTypeOK'
  <2>1. wire' \in [Ids -> Seq(Commands)]
    BY <1>13, TailFacts DEF TakeCancel, Commands
  <2>2. lines' \in [Ids -> Seq(Messages)]
    <3>1. lines \in [Ids -> Seq(Messages)] /\ "error" \in Messages
      BY DEF Messages
    <3>2. lines' = lines \/ lines' = [lines EXCEPT ![i] = Append(@, "error")]
      BY <1>13 DEF TakeCancel, Emit
    <3>3. Append(lines[i], "error") \in Seq(Messages)
      BY <3>1, AppendFacts
    <3> QED
      BY <3>1, <3>2, <3>3
  <2>3. /\ deaf' \in SUBSET Ids
        /\ stream' \in [Ids -> {"none", "opening", "open", "answered", "refused"}]
        /\ health' = health /\ entry' = entry /\ pusher' = pusher
        /\ current' = current /\ child' = child
    BY <1>13 DEF TakeCancel
  <2> QED
    BY <2>1, <2>2, <2>3 DEF Commands, Messages
<1>14. ASSUME NEW i \in Ids, SessionOpens(i) PROVE PushTypeOK'
  BY <1>14 DEF SessionOpens
<1>15. ASSUME NEW i \in Ids, NEW status \in {"headers", "refused"}, Respond(i, status)
       PROVE PushTypeOK'
  BY <1>15, AppendFacts DEF Respond, Emit
<1>16. ASSUME NEW i \in Ids, NEW how \in Final, StreamEnds(i, how) PROVE PushTypeOK'
  BY <1>16, AppendFacts DEF StreamEnds, Emit
<1>17. ASSUME NEW i \in Ids, PumpFails(i) PROVE PushTypeOK'
  BY <1>17, AppendFacts DEF PumpFails, Write, FinishPushError, Settled
<1> QED
  BY <1>1, <1>2, <1>3, <1>4, <1>5, <1>6, <1>7, <1>8, <1>9, <1>10, <1>11, <1>12, <1>13, <1>14,
     <1>15, <1>16, <1>17

(* The readiness is one of the machine's states.                            *)
LEMMA LadderStateType ==
  ASSUME NEW a, NEW b, NEW c, NEW d
  PROVE  LadderState(a, b, c, d) \in {"starting", "authenticated", "syncing", "warming", "armed"}
  BY DEF LadderState

(* Every kind enters the ladder below its last rung.                        *)
LEMMA EntryRungs ==
  ASSUME NEW k
  PROVE  EntryRung(k) \in AvoidLane..ReconnectSession
  BY DEF EntryRung, AvoidLane, ReconnectLane, RearmPoll, ReconnectSession

(* So does the worst of some alerts.                                        *)
LEMMA WorstIsAnEntry ==
  ASSUME NEW alerts, alerts # {}
  PROVE  /\ Worst(alerts) \in AvoidLane..ReconnectSession
         /\ \E k \in alerts : EntryRung(k) = Worst(alerts)
<1> DEFINE IsWorst(r) == /\ \E k \in alerts : EntryRung(k) = r
                         /\ \A k \in alerts : EntryRung(k) <= r
<1>1. \A k \in alerts : EntryRung(k) \in AvoidLane..ReconnectSession
  BY EntryRungs
<1>2. \E r \in AvoidLane..ReconnectSession : IsWorst(r)
  <2> USE DEF AvoidLane, ReconnectSession
  <2>1. CASE \E k \in alerts : EntryRung(k) = 4
    BY <1>1, <2>1
  <2>2. CASE (\A k \in alerts : EntryRung(k) # 4) /\ \E k \in alerts : EntryRung(k) = 3
    BY <1>1, <2>2
  <2>3. CASE (\A k \in alerts : EntryRung(k) \notin {3, 4}) /\ \E k \in alerts : EntryRung(k) = 2
    BY <1>1, <2>3
  <2>4. CASE \A k \in alerts : EntryRung(k) \notin {2, 3, 4}
    <3>1. \A k \in alerts : EntryRung(k) = 1
      BY <1>1, <2>4
    <3> QED
      BY <3>1
  <2> QED
    BY <2>1, <2>2, <2>3, <2>4
<1>3. \E r \in Rungs : IsWorst(r)
  BY <1>2 DEF Rungs, NoRung, AvoidLane, ReconnectSession, RestartWorker
<1>4. IsWorst(CHOOSE r \in Rungs : IsWorst(r))
  BY <1>3
<1>5. IsWorst(Worst(alerts))
  BY <1>4 DEF Worst
<1> QED
  BY <1>1, <1>5

Ladders == [rung: Rungs, on: 0..CooldownTicks, clean: 0..(ClearAfter - 1)]

(* A check of the ladder: it stays, forgets, or enters a rung; it climbs by *)
(* one, and only from a rung whose cooldown is over, or enters below the    *)
(* last.                                                                    *)
LEMMA LadderStep ==
  ASSUME NEW l \in Ladders, NEW firing, SupervisionAssumption
  PROVE  /\ NextRung(l, firing) \in Ladders
         /\ \/ NextRung(l, firing).rung = l.rung
            \/ NextRung(l, firing) = Bottom
            \/ \E r \in Rungs : /\ NextRung(l, firing) = Enter(r)
                               /\ \/ l.rung = NoRung /\ r <= ReconnectSession
                                  \/ l.on >= CooldownTicks /\ r <= ReconnectSession
                                  \/ l.on >= CooldownTicks /\ r = l.rung + 1
<1> USE DEF Ladders, Rungs, NoRung, RestartWorker, ReconnectSession, AvoidLane,
        SupervisionAssumption
<1> DEFINE actionable == firing \ {Budget}
           waiting == [l EXCEPT !.clean = 0]
<1>1. waiting \in Ladders /\ waiting.rung = l.rung
  OBVIOUS
<1>2. \A r \in Rungs : Enter(r) \in Ladders
  BY DEF Enter
<1>3. CASE firing = {}
  <2>1. NextRung(l, firing) = ObserveClean(l)
    BY <1>3 DEF NextRung
  <2>2. ObserveClean(l) \in Ladders
    BY DEF ObserveClean, Bottom
  <2>3. ObserveClean(l).rung = l.rung \/ ObserveClean(l) = Bottom
    BY DEF ObserveClean
  <2> QED
    BY <2>1, <2>2, <2>3
<1>4. CASE firing # {} /\ actionable = {}
  BY <1>1, <1>4 DEF NextRung
<1>5. CASE firing # {} /\ actionable # {}
  <2>1. Worst(actionable) \in AvoidLane..ReconnectSession
    BY <1>5, WorstIsAnEntry
  <2>2. CASE l.rung = NoRung
    <3>1. NextRung(l, firing) = Enter(Worst(actionable))
      BY <1>5, <2>2 DEF NextRung
    <3> QED
      BY <1>2, <2>1, <2>2, <3>1
  <2>3. CASE l.rung # NoRung /\ l.on < CooldownTicks
    <3>1. NextRung(l, firing) = waiting
      BY <1>5, <2>3 DEF NextRung
    <3> QED
      BY <1>1, <3>1
  <2>4. CASE l.rung # NoRung /\ l.on >= CooldownTicks
    <3>1. \/ NextRung(l, firing) = Enter(Worst(actionable))
          \/ NextRung(l, firing) = Enter(l.rung + 1) /\ l.rung < RestartWorker
          \/ NextRung(l, firing) = waiting
      BY <1>5, <2>4 DEF NextRung
    <3> QED
      BY <1>1, <1>2, <2>1, <2>4, <3>1
  <2> QED
    BY <2>2, <2>3, <2>4
<1> QED
  BY <1>3, <1>4, <1>5

(* The types hold initially.                                                *)
LEMMA InitTypes ==
  ASSUME Init
  PROVE  TypeOK
<1>1. PushTypeOK
  BY PushAssumption, EmptySeq DEF Init, PushInit, PushTypeOK
<1>2. ladder \in Ladders
  BY SupervisionAssumption
     DEF Init, Bottom, Ladders, Rungs, NoRung, RestartWorker
<1>3. since \in 0..Longest
  BY SupervisionAssumption DEF Init, Longest
<1> QED
  BY <1>1, <1>2, <1>3, SupervisionAssumption DEF Init, TypeOK, Ladders

(* A tick of the monitor keeps the types.                                   *)
LEMMA TickTypes ==
  ASSUME TypeOK, NEW found \in Conditions, Tick(found)
  PROVE  TypeOK'
<1>1. PushTypeOK'
  BY DEF TypeOK, PushTypeOK, Tick, pushVars, clientVars, sidecarVars, pusherVars
<1>2. pending' \in [Kinds -> {Off, Found} \union Nat]
  <2>1. Aged(pending) \in [Kinds -> {Off, Found} \union Nat]
    <3>1. \A k \in Kinds : Need(k) \in Nat
      BY SupervisionAssumption DEF Need
    <3> QED
      BY <3>1, SupervisionAssumption DEF TypeOK, Aged, Capped, Off, Found
  <2>2. \A holding : Evaluated(holding, Aged(pending), 0) \in [Kinds -> {Off, Found} \union Nat]
    BY <2>1 DEF Evaluated
  <2> QED
    BY <2>2 DEF Tick
<1>3. ladder' \in Ladders
  <2>1. [ladder EXCEPT !.on = Capped(@, CooldownTicks)] \in Ladders
    BY SupervisionAssumption DEF TypeOK, Ladders, Capped
  <2> QED
    BY <2>1, LadderStep, SupervisionAssumption DEF Tick
<1>4. readiness' \in {"starting", "authenticated", "syncing", "warming", "armed"}
  BY LadderStateType DEF Tick
<1>5. held' \in [Grave -> Nat]
  <2>1. \A k \in Kinds : Need(k) \in Nat
    BY SupervisionAssumption DEF Need
  <2> QED
    <3>1. PICK holding : held' = [k \in Grave |-> IF k \in holding
                                                 THEN Capped(held[k], Need(k) + 1) ELSE 0]
      BY DEF Tick
    <3>2. \A k \in Grave : Need(k) + 1 \in Nat /\ held[k] \in Nat
      BY <2>1 DEF TypeOK, Grave
    <3>3. \A k \in Grave : Capped(held[k], Need(k) + 1) \in Nat
      BY <3>2 DEF Capped
    <3> QED
      BY <3>1, <3>3
<1>6. since' \in 0..Longest
  BY SupervisionAssumption DEF Tick, TypeOK, Capped, Longest
<1>7. /\ restart' \in {"no", "asked", "due"}
      /\ phase' = phase /\ trouble' = trouble
  BY DEF Tick, TypeOK
<1> QED
  BY <1>1, <1>2, <1>3, <1>4, <1>5, <1>6, <1>7 DEF TypeOK, Ladders

(* Every step keeps the types.                                              *)
LEMMA NextTypes ==
  ASSUME TypeOK, [Next]_vars
  PROVE  TypeOK'
<1> USE DEF TypeOK
<1>0. ASSUME UNCHANGED pushVars PROVE PushTypeOK'
  BY <1>0 DEF PushTypeOK, pushVars, clientVars, sidecarVars, pusherVars
<1>1. CASE Connected
  BY <1>1, LadderStateType DEF Connected, PushTypeOK, clientVars, sidecarVars, history
<1>2. CASE ConnectFails
  BY <1>0, <1>2, SupervisionAssumption DEF ConnectFails, Interferes, watchVars, history
<1>3. CASE Started
  BY <1>0, <1>3, LadderStateType DEF Started, history
<1>4. CASE OtherRestart
  BY <1>0, <1>4, SupervisionAssumption DEF OtherRestart, Interferes, watchVars, history
<1>5. CASE Restart
  <2>1. PushTypeOK'
    BY <1>5, EmptySeq DEF Restart, Replaced, PushTypeOK
  <2>2. ladder' \in [rung: Rungs, on: 0..CooldownTicks, clean: 0..(ClearAfter - 1)]
    BY <1>5, SupervisionAssumption DEF Restart, Bottom, Rungs, NoRung, RestartWorker
  <2>3. since' \in 0..Longest
    BY <1>5, SupervisionAssumption DEF Restart, Longest
  <2> QED
    BY <1>5, <2>1, <2>2, <2>3 DEF Restart
<1>6. ASSUME NEW found \in Conditions, Tick(found) PROVE TypeOK'
  BY <1>6, TickTypes
<1>7. ASSUME NEW found \in Conditions, AlertsAsked(found) PROVE TypeOK'
  BY <1>0, <1>7 DEF AlertsAsked, Evaluated, hostVars, history
<1>8. CASE PushRuns
  <2>1. PushTypeOK'
    BY <1>8, PushTypes DEF PushRuns
  <2> QED
    BY <1>8, <2>1 DEF PushRuns, watchVars, hostVars, history
<1>9. CASE PushSuffers
  <2>1. PushTypeOK'
    BY <1>9, PushTypes DEF PushSuffers
  <2> QED
    BY <1>9, <2>1, SupervisionAssumption DEF PushSuffers, Interferes, watchVars, hostVars, history
<1>10. CASE UNCHANGED vars
  BY <1>0, <1>10 DEF vars, watchVars, hostVars, history
<1> QED
  BY <1>1, <1>2, <1>3, <1>4, <1>5, <1>6, <1>7, <1>8, <1>9, <1>10 DEF Next

(* Type correctness.                                                        *)
THEOREM TypeCorrect == Spec => []TypeOK
<1>1. Init => TypeOK
  BY InitTypes
<1>2. TypeOK /\ [Next]_vars => TypeOK'
  BY NextTypes
<1> QED
  BY <1>1, <1>2, PTL DEF Spec

------------------------------------------------------------------------------
(* The ladder.                                                              *)

(* A rung that restarts the connection has asked for it, at once.           *)
LadderSafe ==
  /\ ladder.rung # RestartWorker
  /\ ladder.rung >= RearmPoll => restart = "due" \/ (restart = "asked" /\ ladder.on = 0)

(* As long as the cooldown is longer than a tick of the monitor the ladder's*)
(* last rung, restart-worker, is never reached, and the rungs below that    *)
(* restart the connection are only left by that restart.                    *)
THEOREM TopRungIsUnreached ==
  ASSUME CooldownTicks > 1
  PROVE  Spec => []TopRungUnreached
<1> USE DEF Rungs, NoRung, AvoidLane, RearmPoll, ReconnectSession, RestartWorker
<1>1. Init => LadderSafe
  BY DEF Init, LadderSafe, Bottom
<1>2. ASSUME TypeOK, LadderSafe, [Next]_vars PROVE LadderSafe'
  <2>1. ASSUME NEW found \in Conditions, Tick(found) PROVE LadderSafe'
    <3> DEFINE older == [ladder EXCEPT !.on = Capped(@, CooldownTicks)]
    <3>1. /\ ladder \in Ladders /\ older \in Ladders
          /\ older.rung = ladder.rung
          /\ ladder.on = 0 => older.on < CooldownTicks
      BY <1>2, SupervisionAssumption DEF TypeOK, Ladders, Capped
    <3>2. ladder' = NextRung(older, Firing(pending'))
      BY <2>1 DEF Tick
    <3>3. /\ ladder' \in Ladders
          /\ \/ ladder'.rung = older.rung
             \/ ladder' = Bottom
             \/ \E r \in Rungs : /\ ladder' = Enter(r)
                                 /\ \/ older.rung = NoRung /\ r <= ReconnectSession
                                    \/ older.on >= CooldownTicks /\ r <= ReconnectSession
                                    \/ older.on >= CooldownTicks /\ r = older.rung + 1
      BY <3>1, <3>2, LadderStep, SupervisionAssumption
    <3>4. /\ restart \in {"no", "asked"}
          /\ restart' = IF restart = "asked" THEN "due"
                        ELSE IF Restarts(ladder, ladder') THEN "asked" ELSE restart
      BY <1>2, <2>1 DEF Tick, TypeOK
    <3>5. CASE ladder.rung >= RearmPoll
      <4>1. restart = "asked" /\ ladder.on = 0 /\ ladder.rung # RestartWorker
        BY <1>2, <3>4, <3>5 DEF LadderSafe
      <4>2. ladder'.rung = ladder.rung \/ ladder' = Bottom
        <5>1. older.rung # NoRung /\ ~(older.on >= CooldownTicks)
          BY <3>1, <3>5, <4>1, SupervisionAssumption DEF Ladders
        <5> HIDE DEF older
        <5> QED
          BY <3>1, <3>3, <5>1
      <4>3. restart' = "due"
        BY <3>4, <4>1
      <4>4. ladder'.rung # RestartWorker
        BY <4>1, <4>2 DEF Bottom
      <4> HIDE DEF older
      <4> QED
        BY <3>3, <4>3, <4>4 DEF LadderSafe, Ladders
    <3>6. CASE ladder.rung < RearmPoll
      <4>1. ladder'.rung <= ReconnectSession
        BY <3>1, <3>3, <3>6 DEF Ladders, Bottom, Enter
      <4>2. ladder'.rung >= RearmPoll => Restarts(ladder, ladder') /\ ladder'.on = 0
        BY <3>1, <3>3, <3>6 DEF Ladders, Bottom, Enter, Restarts
      <4> QED
        BY <3>3, <3>4, <4>1, <4>2 DEF LadderSafe, Ladders
    <3> QED
      BY <3>1, <3>5, <3>6 DEF Ladders
  <2>2. CASE Restart
    BY <2>2 DEF Restart, LadderSafe, Bottom
  <2>3. CASE OtherRestart
    BY <1>2, <2>3 DEF OtherRestart, LadderSafe, watchVars
  <2>4. CASE Connected \/ ConnectFails \/ Started \/ PushRuns \/ PushSuffers \/ UNCHANGED vars
    <3>1. UNCHANGED <<ladder, restart>>
      BY <2>4 DEF Connected, ConnectFails, Started, PushRuns, PushSuffers, vars, watchVars, hostVars
    <3> QED
      BY <1>2, <3>1 DEF LadderSafe
  <2>5. ASSUME NEW found \in Conditions, AlertsAsked(found) PROVE LadderSafe'
    BY <1>2, <2>5 DEF AlertsAsked, LadderSafe, hostVars
  <2> QED
    BY <1>2, <2>1, <2>2, <2>3, <2>4, <2>5 DEF Next
<1>3. LadderSafe => TopRungUnreached
  BY DEF LadderSafe, TopRungUnreached
<1> QED
  BY <1>1, <1>2, <1>3, TypeCorrect, PTL DEF Spec

------------------------------------------------------------------------------
(* The PUSH stream.                                                         *)

(* What LINEJS waits for or reads is a request, and a request that is known *)
(* and whose last line is not its end has a stream, or the process is gone. *)
Attended ==
  /\ pusher \in {"connecting", "reading"} => current \in Ids
  /\ \A i \in Ids :
       entry[i] # "none" /\ lines[i] # <<>> /\ lines[i][Len(lines[i])] \notin Final
         => stream[i] # "none" \/ child = "exited"

(* Steps that take a line, or the process's end, from what is on the way.   *)
LEMMA ReadingKeepsStream ==
  ASSUME PushTypeOK, ReadyHasStream, Attended, NEW i \in Ids,
         ReadHeaders(i) \/ ReadRefusal(i) \/ ReadEnd(i) \/ ReadError(i)
  PROVE  ReadyHasStream' /\ Attended'
<1>1. lines[i] \in Seq(Messages) /\ lines[i] # <<>>
  BY DEF PushTypeOK, Messages, ReadHeaders, ReadRefusal, ReadEnd, ReadError
<1>2. /\ lines' = [lines EXCEPT ![i] = Tail(@)]
      /\ UNCHANGED <<child, wire, stream, current>>
  BY DEF ReadHeaders, ReadRefusal, ReadEnd, ReadError, Took, FinishPushError, Settled, pusherVars
<1>3. /\ Tail(lines[i]) # <<>> => Tail(lines[i])[Len(Tail(lines[i]))] = lines[i][Len(lines[i])]
      /\ Tail(lines[i]) = <<>> => Head(lines[i]) = lines[i][Len(lines[i])]
  BY <1>1, TailFacts
<1>4. lines \in [Ids -> Seq(Messages)]
  BY DEF PushTypeOK, Messages
<1>5. ASSUME entry'[i] = "none",
             entry' = entry \/ entry' = [entry EXCEPT ![i] = "none"],
             health' => health /\ entry' = entry,
             pusher' = IF current = i /\ pusher \in {"connecting", "reading"} THEN "sleeping" ELSE pusher
      PROVE  ReadyHasStream' /\ Attended'
  <2>1. \A j \in Ids \ {i} : entry'[j] = entry[j] /\ lines'[j] = lines[j]
    BY <1>2, <1>4, <1>5 DEF PushTypeOK
  <2>2. \A j \in Ids \ {i} : ToCome(j) => ToCome(j)'
    BY <1>2, <2>1 DEF ToCome
  <2>3. Attended'
    BY <1>2, <1>5, <2>1 DEF Attended
  <2>4. \A j \in Ids : entry'[j] # "none" => j # i
    BY <1>5
  <2> QED
    BY <1>2, <1>5, <2>1, <2>2, <2>3, <2>4 DEF ReadyHasStream, Attended
<1>6. CASE ReadEnd(i)
  <2>1. entry' = [entry EXCEPT ![i] = "none"] /\ (health' => health /\ entry' = entry)
    BY <1>6 DEF ReadEnd, PushTypeOK
  <2> QED
    BY <1>5, <1>6, <2>1 DEF ReadEnd, Settled, PushTypeOK
<1>7. CASE ReadError(i)
  BY <1>5, <1>7 DEF ReadError, FinishPushError, Settled, PushTypeOK
<1>8. CASE ReadRefusal(i)
  <2>1. CASE entry[i] = "none"
    <3>1. UNCHANGED <<health, entry, pusher>>
      BY <1>8, <2>1 DEF ReadRefusal, clientVars, pusherVars
    <3>2. ~(current = i /\ pusher \in {"connecting", "reading"})
      BY <2>1 DEF ReadyHasStream
    <3> QED
      BY <1>5, <2>1, <3>1, <3>2
  <2>2. CASE entry[i] # "none"
    BY <1>5, <1>8, <2>2 DEF ReadRefusal, FinishPushError, Settled, PushTypeOK
  <2> QED
    BY <2>1, <2>2
<1>9. CASE ReadHeaders(i)
  <2>1. CASE entry[i] = "none"
    <3>1. UNCHANGED <<health, entry, pusher>>
      BY <1>9, <2>1 DEF ReadHeaders, clientVars
    <3>2. ~(current = i /\ pusher \in {"connecting", "reading"})
      BY <2>1 DEF ReadyHasStream
    <3> QED
      BY <1>5, <2>1, <3>1, <3>2
  <2>2. CASE entry[i] # "none"
    <3>1. /\ entry' = [entry EXCEPT ![i] = "accepted"]
          /\ pusher' = IF current = i /\ pusher = "connecting" THEN "reading" ELSE pusher
          /\ Head(lines[i]) = "headers"
      BY <1>9, <2>2 DEF ReadHeaders
    <3>2. ToCome(i)'
      <4>1. CASE Tail(lines[i]) # <<>>
        BY <1>2, <1>4, <4>1 DEF ToCome
      <4>2. CASE Tail(lines[i]) = <<>>
        <5>1. stream[i] # "none" \/ child = "exited"
          BY <1>1, <1>3, <2>2, <3>1, <4>2 DEF Attended, Final
        <5> QED
          BY <1>2, <5>1 DEF ToCome, PushTypeOK
      <4> QED
        BY <4>1, <4>2
    <3>3. \A j \in Ids \ {i} : entry'[j] = entry[j] /\ lines'[j] = lines[j]
      BY <1>2, <1>4, <3>1 DEF PushTypeOK
    <3>4. \A j \in Ids \ {i} : ToCome(j) => ToCome(j)'
      BY <1>2, <3>3 DEF ToCome
    <3>5. entry'[i] = "accepted"
      BY <3>1 DEF PushTypeOK
    <3>6. lines'[i] # <<>> => lines'[i][Len(lines'[i])] = lines[i][Len(lines[i])]
      BY <1>2, <1>3, <1>4
    <3>7. Attended'
      BY <1>1, <1>2, <2>2, <3>1, <3>3, <3>6 DEF Attended
    <3> QED
      BY <1>2, <3>1, <3>2, <3>3, <3>4, <3>5, <3>7 DEF ReadyHasStream, Attended
  <2> QED
    BY <2>1, <2>2
<1> QED
  BY <1>6, <1>7, <1>8, <1>9

(* The client's own steps.                                                  *)
LEMMA ClientKeepsStream ==
  ASSUME PushTypeOK, ReadyHasStream, Attended,
         \/ EnsureStarted \/ NoticeExit \/ AbortPush \/ CancelPush \/ GiveUp
         \/ \E i \in Ids : OpenPush(i) \/ PumpFails(i)
  PROVE  ReadyHasStream' /\ Attended'
<1>1. CASE EnsureStarted
  <2>1. \A i \in Ids : ToCome(i) => ToCome(i)'
    BY <1>1 DEF EnsureStarted, ToCome
  <2> QED
    BY <1>1, <2>1 DEF EnsureStarted, ReadyHasStream, Attended, clientVars
<1>2. CASE GiveUp
  <2>1. \A i \in Ids : ToCome(i) => ToCome(i)'
    BY <1>2 DEF GiveUp, ToCome, sidecarVars
  <2> QED
    BY <1>2, <2>1 DEF GiveUp, ReadyHasStream, Attended, clientVars, sidecarVars
<1>3. CASE NoticeExit
  <2>1. \A i \in Ids : entry'[i] = "none"
    BY <1>3 DEF NoticeExit, FailAll
  <2>2. ~health'
    BY <1>3 DEF NoticeExit, FailAll, ReadyHasStream
  <2>3. pusher' \notin {"connecting", "reading"}
    BY <1>3 DEF NoticeExit, FailAll, ReadyHasStream, Attended
  <2> QED
    BY <1>3, <2>1, <2>2, <2>3 DEF NoticeExit, FailAll, ReadyHasStream, Attended
<1>4. ASSUME NEW i \in Ids, entry' = [entry EXCEPT ![i] = "none"], ~health',
             wire' = wire \/ wire' = [wire EXCEPT ![i] = Append(@, "cancel")],
             IF i = current THEN pusher' \notin {"connecting", "reading"} ELSE pusher' = pusher,
             UNCHANGED <<child, stream, lines, current>>
      PROVE  ReadyHasStream' /\ Attended'
  <2>1. \A j \in Ids \ {i} : entry'[j] = entry[j] /\ wire'[j] = wire[j]
    BY <1>4 DEF PushTypeOK
  <2>2. \A j \in Ids \ {i} : ToCome(j) => ToCome(j)'
    BY <1>4, <2>1 DEF ToCome
  <2>3. entry'[i] = "none"
    BY <1>4 DEF PushTypeOK
  <2>4. Attended'
    BY <1>4, <2>1, <2>3 DEF Attended
  <2>5. current \in Ids \/ pusher' \notin {"connecting", "reading"}
    BY <1>4 DEF Attended
  <2> QED
    BY <1>4, <2>1, <2>2, <2>3, <2>4, <2>5 DEF ReadyHasStream
<1>5. CASE AbortPush
  <2>1. current \in Ids
    BY <1>5 DEF AbortPush, PushTypeOK
  <2>2. pusher' \notin {"connecting", "reading"}
    BY <1>5 DEF AbortPush, FinishPushError, Settled
  <2> QED
    BY <1>4, <1>5, <2>1, <2>2 DEF AbortPush, Write, FinishPushError, Settled
<1>6. CASE CancelPush
  <2>1. current \in Ids
    BY <1>6 DEF CancelPush, Attended
  <2> QED
    BY <1>4, <1>6, <2>1 DEF CancelPush, Write
<1>7. ASSUME NEW i \in Ids, OpenPush(i) PROVE ReadyHasStream' /\ Attended'
  <2>1. /\ entry' = [entry EXCEPT ![i] = "waiting"] /\ ~health' /\ current' = i
        /\ lines[i] = <<>> /\ wire[i] = <<>>
        /\ UNCHANGED <<child, stream, lines>>
    BY <1>7 DEF OpenPush, Fresh
  <2>2. wire' = IF child = "up" THEN [wire EXCEPT ![i] = Append(@, "start")] ELSE wire
    BY <1>7 DEF OpenPush, Write
  <2>3. \A j \in Ids \ {i} : entry'[j] = entry[j] /\ wire'[j] = wire[j]
    BY <2>1, <2>2 DEF PushTypeOK
  <2>4. \A j \in Ids \ {i} : ToCome(j) => ToCome(j)'
    BY <2>1, <2>3 DEF ToCome
  <2>5. entry'[i] = "waiting"
    BY <2>1 DEF PushTypeOK
  <2>6. pusher' = IF child = "up" THEN "connecting" ELSE "sleeping"
    BY <1>7 DEF OpenPush
  <2>7. child = "up" => ToCome(i)'
    <3>1. Append(<<>>, "start") # <<>> /\ Head(Append(<<>>, "start")) = "start"
      OBVIOUS
    <3> QED
      BY <2>1, <2>2, <3>1 DEF ToCome, PushTypeOK
  <2>8. Attended'
    BY <2>1, <2>3, <2>5, <2>6 DEF Attended
  <2> QED
    BY <2>1, <2>3, <2>4, <2>5, <2>6, <2>7, <2>8 DEF ReadyHasStream
<1>8. ASSUME NEW i \in Ids, PumpFails(i) PROVE ReadyHasStream' /\ Attended'
  BY <1>4, <1>8 DEF PumpFails, Write, FinishPushError, Settled
<1> QED
  BY <1>1, <1>2, <1>3, <1>5, <1>6, <1>7, <1>8

(* The steps of the process.                                                *)
LEMMA SidecarKeepsStream ==
  ASSUME PushTypeOK, ReadyHasStream, Attended,
         \/ ChildExits
         \/ \E i \in Ids : \/ TakeStart(i) \/ TakeCancel(i) \/ SessionOpens(i)
                           \/ Respond(i, "headers") \/ Respond(i, "refused")
                           \/ \E how \in Final : StreamEnds(i, how)
  PROVE  ReadyHasStream' /\ Attended'
<1>0. lines \in [Ids -> Seq(Messages)] /\ Final \subseteq Messages
  BY DEF PushTypeOK, Messages
<1>1. ASSUME UNCHANGED <<health, entry, pusher, current>>,
             \A i \in Ids : ToCome(i) => ToCome(i)',
             \A i \in Ids : \/ lines'[i] # <<>> /\ lines'[i][Len(lines'[i])] \in Final
                            \/ stream'[i] # "none" \/ child' = "exited"
                            \/ UNCHANGED <<lines[i], stream[i], child>>
      PROVE  ReadyHasStream' /\ Attended'
  BY <1>1 DEF ReadyHasStream, Attended
<1>2. CASE ChildExits
  BY <1>1, <1>2 DEF ChildExits, ToCome, clientVars, pusherVars
<1>3. ASSUME NEW i \in Ids, TakeStart(i) PROVE ReadyHasStream' /\ Attended'
  BY <1>1, <1>3 DEF TakeStart, ToCome, clientVars, pusherVars, PushTypeOK
<1>4. ASSUME NEW i \in Ids, SessionOpens(i) PROVE ReadyHasStream' /\ Attended'
  BY <1>1, <1>4 DEF SessionOpens, ToCome, clientVars, pusherVars, PushTypeOK
<1>5. ASSUME NEW i \in Ids, NEW status \in {"headers", "refused"}, Respond(i, status)
      PROVE  ReadyHasStream' /\ Attended'
  <2>1. Append(lines[i], status) # <<>>
    BY <1>0, AppendFacts DEF Messages
  <2> QED
    BY <1>0, <1>1, <1>5, <2>1 DEF Respond, Emit, ToCome, clientVars, pusherVars, PushTypeOK
<1>6. ASSUME NEW i \in Ids, NEW e \in Final, stream' = [stream EXCEPT ![i] = "none"],
             lines' = [lines EXCEPT ![i] = Append(@, e)],
             UNCHANGED <<health, entry, pusher, current, child>>,
             \A j \in Ids \ {i} : wire'[j] = wire[j]
      PROVE  ReadyHasStream' /\ Attended'
  <2>1. lines'[i] # <<>> /\ lines'[i][Len(lines'[i])] = e
    BY <1>0, <1>6, AppendFacts
  <2>2. \A j \in Ids \ {i} : lines'[j] = lines[j] /\ stream'[j] = stream[j]
    BY <1>0, <1>6 DEF PushTypeOK
  <2>3. \A j \in Ids : ToCome(j) => ToCome(j)'
    BY <1>6, <2>1, <2>2 DEF ToCome
  <2> QED
    BY <1>1, <1>6, <2>1, <2>2, <2>3
<1>7. ASSUME NEW i \in Ids, NEW how \in Final, StreamEnds(i, how)
      PROVE  ReadyHasStream' /\ Attended'
  BY <1>6, <1>7 DEF StreamEnds, Emit, clientVars, pusherVars
<1>8. ASSUME NEW i \in Ids, TakeCancel(i) PROVE ReadyHasStream' /\ Attended'
  <2>1. /\ wire' = [wire EXCEPT ![i] = Tail(@)] /\ Head(wire[i]) = "cancel"
        /\ UNCHANGED <<health, entry, pusher, current, child>>
    BY <1>8 DEF TakeCancel, clientVars, pusherVars
  <2>2. CASE stream[i] \in {"open", "answered", "refused"}
    <3>1. "error" \in Final
      BY DEF Final
    <3>2. stream' = [stream EXCEPT ![i] = "none"] /\ lines' = [lines EXCEPT ![i] = Append(@, "error")]
      BY <1>8, <2>2 DEF TakeCancel, Emit
    <3>3. \A j \in Ids \ {i} : wire'[j] = wire[j]
      BY <2>1 DEF PushTypeOK
    <3> QED
      BY <1>6, <2>1, <3>1, <3>2, <3>3
  <2>3. CASE stream[i] \notin {"open", "answered", "refused"}
    <3>1. UNCHANGED <<stream, lines>>
      BY <1>8, <2>3 DEF TakeCancel
    <3>2. \A j \in Ids : ToCome(j) => ToCome(j)'
      BY <2>1, <3>1 DEF ToCome, PushTypeOK
    <3> QED
      BY <1>1, <2>1, <3>1, <3>2
  <2> QED
    BY <2>2, <2>3
<1> QED
  BY <1>2, <1>3, <1>4, <1>5, <1>7, <1>8

(* The stream invariant always holds.                                       *)
LEMMA StreamsAttended == Spec => [](ReadyHasStream /\ Attended)
<1>1. Init => ReadyHasStream /\ Attended
  BY DEF Init, PushInit, ReadyHasStream, Attended
<1>2. ASSUME TypeOK, ReadyHasStream, Attended, [Next]_vars
      PROVE  ReadyHasStream' /\ Attended'
  <2>0. PushTypeOK
    BY <1>2 DEF TypeOK
  <2>1. CASE PushRuns
    BY <1>2, <2>0, <2>1, ReadingKeepsStream, ClientKeepsStream, SidecarKeepsStream DEF PushRuns
  <2>2. CASE PushSuffers
    BY <1>2, <2>0, <2>2, ClientKeepsStream, SidecarKeepsStream DEF PushSuffers
  <2>3. CASE Connected
    <3>1. \A i \in Ids : ToCome(i) => ToCome(i)'
      BY <2>3 DEF Connected, ToCome, sidecarVars
    <3> QED
      BY <1>2, <2>3, <3>1 DEF Connected, ReadyHasStream, Attended, clientVars, sidecarVars
  <2>4. CASE Restart
    BY <2>4 DEF Restart, Replaced, ReadyHasStream, Attended
  <2>5. CASE UNCHANGED pushVars
    <3>1. \A i \in Ids : ToCome(i) => ToCome(i)'
      BY <2>5 DEF ToCome, pushVars, sidecarVars
    <3> QED
      BY <1>2, <2>5, <3>1
         DEF ReadyHasStream, Attended, pushVars, clientVars, sidecarVars, pusherVars
  <2> QED
    BY <1>2, <2>1, <2>2, <2>3, <2>4, <2>5
       DEF Next, ConnectFails, Started, OtherRestart, Tick, AlertsAsked, vars
<1> QED
  BY <1>1, <1>2, TypeCorrect, PTL DEF Spec

(* Whatever requests, ends, exits and restarts coincide, and however many   *)
(* requests there are: while PUSH counts as ready an accepted request has a *)
(* stream or its end is on the way, and so has what LINEJS waits for.       *)
THEOREM ReadyStreamIsThere == Spec => []ReadyHasStream
BY StreamsAttended, PTL

------------------------------------------------------------------------------
(* Streams and their owners.                                                *)

(* A request is started once at most, and whatever follows cancels it.      *)
Wires == {w \in Seq(Commands) : \A n \in DOMAIN w : n # 1 => w[n] = "cancel"}
Cancelling == {w \in Wires : \E n \in DOMAIN w : w[n] = "cancel"}
Starting == {w \in Wires : w # <<>> /\ w[1] = "start"}
Live == {"opening", "open", "answered"}

(* Every stream, and every request for one that is on its way, has an entry *)
(* or a cancel that will find it, and nothing has been said of its end.     *)
Traced(i) ==
  /\ wire[i] \in Wires
  /\ wire[i] \in Cancelling => entry[i] = "none"
  /\ wire[i] \in Starting => stream[i] = "none" /\ lines[i] = <<>>
  /\ child # "up" => stream[i] = "none" /\ wire[i] = <<>>
  /\ stream[i] \in Live => \A n \in DOMAIN lines[i] : lines[i][n] = "headers"
  /\ stream[i] \in Live \/ wire[i] \in Starting =>
       entry[i] # "none" \/ i \in deaf \/ wire[i] \in Cancelling

Traces == \A i \in Ids : Traced(i)

(* What is on the way to the process: appended to ...                       *)
LEMMA WireGrows ==
  ASSUME NEW w \in Wires
  PROVE  /\ Append(w, "cancel") \in Cancelling
         /\ Append(w, "cancel") \in Starting => w \in Starting \/ w = <<>>
         /\ Append(w, "cancel") \in Starting => w # <<>>
<1> DEFINE v == Append(w, "cancel")
<1>1. w \in Seq(Commands) /\ "cancel" \in Commands
  BY DEF Wires, Commands
<1>2. /\ v \in Seq(Commands) /\ Len(v) = Len(w) + 1 /\ Len(w) \in Nat /\ v[Len(v)] = "cancel"
      /\ \A n \in 1..Len(w) : v[n] = w[n]
      /\ DOMAIN v = 1..(Len(w) + 1) /\ DOMAIN w = 1..Len(w)
  BY <1>1
<1> HIDE DEF v
<1>3. \A n \in DOMAIN v : n # 1 => v[n] = "cancel"
  BY <1>2 DEF Wires
<1>4. v \in Cancelling
  BY <1>2, <1>3 DEF Wires, Cancelling
<1>5. ASSUME v \in Starting PROVE w \in Starting /\ w # <<>>
  <2>1. v[1] = "start"
    BY <1>5 DEF Starting
  <2>2. Len(w) # 0
    BY <1>2, <2>1
  <2>3. w[1] = "start" /\ w # <<>>
    BY <1>1, <1>2, <2>1, <2>2
  <2> QED
    BY <2>3 DEF Starting
<1> QED
  BY <1>4, <1>5 DEF v

(* ... and taken from.                                                      *)
LEMMA WireShrinks ==
  ASSUME NEW w \in Wires, w # <<>>
  PROVE  /\ Tail(w) \in Wires \ Starting
         /\ Tail(w) \in Cancelling => w \in Cancelling
         /\ Head(w) = "start" => w \in Starting /\ (w \in Cancelling => Tail(w) \in Cancelling)
         /\ Head(w) = "cancel" => w \in Cancelling \ Starting
<1> DEFINE v == Tail(w)
<1>1. w \in Seq(Commands) /\ Len(w) \in Nat \ {0} /\ DOMAIN w = 1..Len(w) /\ Head(w) = w[1]
  BY DEF Wires
<1>2. /\ v \in Seq(Commands) /\ Len(v) = Len(w) - 1 /\ DOMAIN v = 1..(Len(w) - 1)
      /\ \A n \in 1..(Len(w) - 1) : v[n] = w[n + 1]
  BY <1>1
<1> HIDE DEF v
<1>3. \A n \in DOMAIN v : v[n] = "cancel"
  <2> SUFFICES ASSUME NEW n \in 1..(Len(w) - 1) PROVE v[n] = "cancel"
    BY <1>2
  <2>1. n + 1 \in DOMAIN w /\ n + 1 # 1 /\ v[n] = w[n + 1]
    BY <1>1, <1>2
  <2> QED
    BY <2>1 DEF Wires
<1>4. v \in Wires
  BY <1>2, <1>3 DEF Wires
<1>5. v \notin Starting
  <2>1. v # <<>> => 1 \in DOMAIN v
    BY <1>2
  <2> QED
    BY <1>3, <2>1 DEF Starting
<1>6. v \in Cancelling => w \in Cancelling
  BY <1>1, <1>2 DEF Cancelling
<1>7. ASSUME Head(w) = "start", w \in Cancelling PROVE v \in Cancelling
  <2>1. PICK n \in DOMAIN w : w[n] = "cancel"
    BY <1>7 DEF Cancelling
  <2>2. n - 1 \in DOMAIN v
    BY <1>1, <1>2, <1>7, <2>1
  <2> QED
    BY <1>3, <1>4, <2>2 DEF Cancelling
<1>8. Head(w) = "start" => w \in Starting
  BY <1>1 DEF Starting
<1>9. Head(w) = "cancel" => w \in Cancelling \ Starting
  BY <1>1 DEF Cancelling, Starting
<1> QED
  BY <1>4, <1>5, <1>6, <1>7, <1>8, <1>9 DEF v

(* A pipe without a line, and one with the start.                           *)
LEMMA WireStarts ==
  /\ <<>> \in Wires /\ <<>> \notin Starting \union Cancelling
  /\ Append(<<>>, "start") \in Starting \ Cancelling
<1>1. <<>> \in Wires /\ <<>> \notin Starting \union Cancelling
  BY DEF Wires, Starting, Cancelling
<1> DEFINE v == Append(<<>>, "start")
<1>2. v \in Seq(Commands) /\ Len(v) = 1 /\ v[1] = "start" /\ DOMAIN v = 1..1 /\ v # <<>>
  BY DEF Commands
<1> HIDE DEF v
<1>3. v \in Starting \ Cancelling
  BY <1>2 DEF Wires, Starting, Cancelling
<1> QED
  BY <1>1, <1>3 DEF v

(* The messages that are left, and the one that is added.                   *)
LEMMA HeadersStay ==
  ASSUME NEW s \in Seq(Messages)
  PROVE  /\ s # <<>> => \A n \in DOMAIN Tail(s) : n + 1 \in DOMAIN s /\ Tail(s)[n] = s[n + 1]
         /\ s # <<>> => 1 \in DOMAIN s /\ Head(s) = s[1]
         /\ \A e \in Messages : \A n \in DOMAIN Append(s, e) :
              Append(s, e)[n] = e \/ (n \in DOMAIN s /\ Append(s, e)[n] = s[n])
<1>1. ASSUME s # <<>>
      PROVE  \A n \in DOMAIN Tail(s) : n + 1 \in DOMAIN s /\ Tail(s)[n] = s[n + 1]
  <2>1. Tail(s) \in Seq(Messages) /\ Len(Tail(s)) = Len(s) - 1 /\ Len(s) \in Nat
    BY <1>1
  <2>2. DOMAIN Tail(s) = 1..(Len(s) - 1) /\ DOMAIN s = 1..Len(s)
    BY <2>1
  <2>3. \A n \in 1..(Len(s) - 1) : Tail(s)[n] = s[n + 1]
    BY <1>1
  <2> QED
    BY <2>1, <2>2, <2>3
<1>2. s # <<>> => 1 \in DOMAIN s /\ Head(s) = s[1]
  OBVIOUS
<1>3. ASSUME NEW e \in Messages, NEW n \in DOMAIN Append(s, e)
      PROVE  Append(s, e)[n] = e \/ (n \in DOMAIN s /\ Append(s, e)[n] = s[n])
  OBVIOUS
<1> QED
  BY <1>1, <1>2, <1>3

(* A step of one request leaves the others' as they are.                    *)
LEMMA OthersTraced ==
  ASSUME NEW j \in Ids, Traced(j),
         UNCHANGED <<wire[j], stream[j], lines[j], entry[j]>>,
         child' = child \/ child' = "up" \/ (stream[j] = "none" /\ wire[j] = <<>>),
         j \in deaf => j \in deaf'
  PROVE  Traced(j)'
BY DEF Traced

(* LINEJS's and the client's steps.                                         *)
LEMMA ClientTraces ==
  ASSUME PushTypeOK, ReadyHasStream, Attended, Traces,
         \/ EnsureStarted \/ NoticeExit \/ AbortPush \/ CancelPush \/ GiveUp
         \/ \E i \in Ids : \/ OpenPush(i) \/ PumpFails(i) \/ ReadHeaders(i) \/ ReadRefusal(i) \/ ReadEnd(i)
                           \/ ReadError(i)
  PROVE  Traces'
<1>1. CASE EnsureStarted \/ GiveUp
  BY <1>1, OthersTraced DEF EnsureStarted, GiveUp, clientVars, sidecarVars, Traces
<1>2. CASE NoticeExit
  <2>1. /\ child = "exited" /\ child' = "none" /\ UNCHANGED <<wire, stream, lines, deaf>>
        /\ \A i \in Ids : entry'[i] = "none"
    BY <1>2 DEF NoticeExit, FailAll
  <2>2. \A i \in Ids : stream[i] = "none" /\ wire[i] = <<>>
    BY <2>1 DEF Traces, Traced
  <2> QED
    BY <2>1, <2>2, WireStarts DEF Traces, Traced, Live
<1>3. ASSUME NEW i \in Ids, entry' = [entry EXCEPT ![i] = "none"],
             Write(i, "cancel"), UNCHANGED <<child, stream, lines, deaf>>
      PROVE  Traces'
  <2>1. \A j \in Ids \ {i} : entry'[j] = entry[j] /\ wire'[j] = wire[j]
    BY <1>3 DEF PushTypeOK, Write
  <2>2. \A j \in Ids \ {i} : Traced(j)'
    BY <1>3, <2>1, OthersTraced DEF Traces
  <2>3. wire[i] \in Wires /\ entry'[i] = "none"
    BY <1>3 DEF Traces, Traced, PushTypeOK
  <2>4. CASE child = "up"
    <3>1. wire'[i] = Append(wire[i], "cancel")
      BY <1>3, <2>4 DEF Write, PushTypeOK
    <3>2. /\ wire'[i] \in Cancelling /\ wire'[i] \in Wires
          /\ wire'[i] \in Starting => wire[i] \in Starting
      BY <2>3, <3>1, WireGrows DEF Cancelling
    <3> QED
      BY <1>3, <2>2, <2>3, <2>4, <3>2 DEF Traces, Traced
  <2>5. CASE child # "up"
    <3>1. wire' = wire /\ stream[i] = "none" /\ wire[i] = <<>>
      BY <1>3, <2>5 DEF Write, Traces, Traced
    <3> QED
      BY <1>3, <2>2, <2>3, <3>1, WireStarts DEF Traces, Traced, Live
  <2> QED
    BY <2>4, <2>5
<1>4. CASE AbortPush
  <2>1. current \in Ids
    BY <1>4 DEF AbortPush, PushTypeOK
  <2> QED
    BY <1>3, <1>4, <2>1 DEF AbortPush, FinishPushError
<1>5. CASE CancelPush
  <2>1. current \in Ids
    BY <1>5 DEF CancelPush, Attended
  <2> QED
    BY <1>3, <1>5, <2>1 DEF CancelPush
<1>6. ASSUME NEW i \in Ids, OpenPush(i)
      PROVE  Traces'
  <2>1. /\ entry' = [entry EXCEPT ![i] = "waiting"] /\ deaf' = deaf \ {i}
        /\ lines[i] = <<>> /\ wire[i] = <<>> /\ stream[i] = "none"
        /\ UNCHANGED <<child, stream, lines>>
        /\ wire' = IF child = "up" THEN [wire EXCEPT ![i] = Append(@, "start")] ELSE wire
    BY <1>6 DEF OpenPush, Fresh, Write
  <2>2. \A j \in Ids \ {i} : entry'[j] = entry[j] /\ wire'[j] = wire[j]
    BY <2>1 DEF PushTypeOK
  <2>3. \A j \in Ids \ {i} : Traced(j)'
    BY <2>1, <2>2, OthersTraced DEF Traces
  <2>4. IF child = "up" THEN wire'[i] \in Starting \ Cancelling ELSE wire'[i] = <<>>
    BY <2>1, WireStarts DEF PushTypeOK
  <2>5. entry'[i] = "waiting"
    BY <2>1 DEF PushTypeOK
  <2>6. Traced(i)'
    BY <2>1, <2>4, <2>5, WireStarts DEF Traced, Starting, Live
  <2> QED
    BY <2>3, <2>6 DEF Traces
<1>7. ASSUME NEW i \in Ids, ReadHeaders(i) \/ ReadRefusal(i) \/ ReadEnd(i) \/ ReadError(i)
      PROVE  Traces'
  <2>1. lines[i] \in Seq(Messages) /\ lines[i] # <<>>
    BY <1>7 DEF PushTypeOK, Messages, ReadHeaders, ReadRefusal, ReadEnd, ReadError
  <2>2. /\ lines' = [lines EXCEPT ![i] = Tail(@)]
        /\ UNCHANGED <<child, wire, stream, deaf>>
        /\ \/ entry' = entry
           \/ Head(lines[i]) = "headers" /\ entry[i] # "none" /\ entry' = [entry EXCEPT ![i] = "accepted"]
           \/ Head(lines[i]) # "headers" /\ entry' = [entry EXCEPT ![i] = "none"]
    BY <1>7 DEF ReadHeaders, ReadRefusal, ReadEnd, ReadError, Took, FinishPushError, clientVars, Final
  <2>3. \A j \in Ids \ {i} : entry'[j] = entry[j] /\ lines'[j] = lines[j]
    BY <2>2 DEF PushTypeOK
  <2>4. \A j \in Ids \ {i} : Traced(j)'
    BY <2>2, <2>3, OthersTraced DEF Traces
  <2>5. /\ 1 \in DOMAIN lines[i] /\ Head(lines[i]) = lines[i][1]
        /\ \A n \in DOMAIN lines'[i] : n + 1 \in DOMAIN lines[i] /\ lines'[i][n] = lines[i][n + 1]
    BY <2>1, <2>2, HeadersStay DEF PushTypeOK
  <2>6. wire[i] \notin Starting /\ Traced(i)
    BY <2>1 DEF Traces, Traced
  <2>7. entry'[i] # entry[i] =>
          \/ entry[i] # "none" /\ entry'[i] = "accepted"
          \/ stream[i] \notin Live /\ entry'[i] = "none"
    BY <2>2, <2>5, <2>6 DEF Traced, PushTypeOK
  <2>8. Traced(i)'
    BY <2>2, <2>5, <2>6, <2>7 DEF Traced
  <2> QED
    BY <2>4, <2>8 DEF Traces
<1>8. ASSUME NEW i \in Ids, PumpFails(i) PROVE Traces'
  BY <1>3, <1>8 DEF PumpFails, FinishPushError
<1> QED
  BY <1>1, <1>2, <1>4, <1>5, <1>6, <1>7, <1>8

(* The process's steps.                                                     *)
LEMMA SidecarTraces ==
  ASSUME PushTypeOK, Traces,
         \/ ChildExits
         \/ \E i \in Ids : \/ TakeStart(i) \/ TakeCancel(i) \/ SessionOpens(i)
                           \/ Respond(i, "headers") \/ Respond(i, "refused")
                           \/ \E how \in Final : StreamEnds(i, how)
  PROVE  Traces'
<1>1. CASE ChildExits
  BY <1>1, WireStarts DEF ChildExits, clientVars, Traces, Traced, Live
<1>2. SUFFICES ASSUME NEW i \in Ids,
                      \/ TakeStart(i) \/ TakeCancel(i) \/ SessionOpens(i)
                      \/ Respond(i, "headers") \/ Respond(i, "refused")
                      \/ \E how \in Final : StreamEnds(i, how)
               PROVE  Traces'
  BY <1>1
<1>3. Traced(i) /\ lines[i] \in Seq(Messages) /\ Final \subseteq Messages
  BY DEF Traces, PushTypeOK, Messages
<1>4. /\ UNCHANGED <<entry, child>> /\ deaf \subseteq deaf'
      /\ \A j \in Ids \ {i} : UNCHANGED <<wire[j], stream[j], lines[j]>>
  BY <1>2 DEF TakeStart, TakeCancel, SessionOpens, Respond, StreamEnds, Emit, clientVars, PushTypeOK
<1>5. \A j \in Ids \ {i} : Traced(j)'
  BY <1>4, OthersTraced DEF Traces
<1>6. CASE TakeStart(i)
  <2>1. /\ child = "up" /\ wire[i] \in Starting /\ stream'[i] = "opening"
        /\ wire'[i] = Tail(wire[i]) /\ UNCHANGED <<lines, deaf>>
    BY <1>3, <1>6, WireShrinks DEF TakeStart, Traced, PushTypeOK
  <2>2. /\ wire'[i] \in Wires /\ wire'[i] \notin Starting
        /\ wire'[i] \in Cancelling <=> wire[i] \in Cancelling
    BY <1>3, <1>6, <2>1, WireShrinks DEF TakeStart, Traced
  <2>3. DOMAIN lines[i] = {}
    BY <1>3, <2>1 DEF Traced
  <2> QED
    BY <1>3, <1>4, <1>5, <2>1, <2>2, <2>3 DEF Traces, Traced, Live
<1>7. CASE TakeCancel(i)
  <2>1. child = "up" /\ wire[i] \in Cancelling /\ wire'[i] = Tail(wire[i]) /\ wire[i] # <<>>
    BY <1>3, <1>7, WireShrinks DEF TakeCancel, Traced, PushTypeOK
  <2>2. wire'[i] \in Wires \ Starting /\ entry[i] = "none"
    BY <1>3, <2>1, WireShrinks DEF Traced
  <2>3. CASE stream[i] \in {"open", "answered", "refused"}
    <3>1. stream'[i] = "none"
      BY <1>7, <2>3 DEF TakeCancel, PushTypeOK
    <3> QED
      BY <1>4, <1>5, <2>1, <2>2, <3>1 DEF Traces, Traced, Live
  <2>4. CASE stream[i] \notin {"open", "answered", "refused"}
    <3>1. UNCHANGED <<stream, lines>> /\ (stream[i] = "opening" => i \in deaf')
      BY <1>7, <2>4 DEF TakeCancel
    <3> QED
      BY <1>3, <1>4, <1>5, <2>1, <2>2, <2>4, <3>1 DEF Traces, Traced, Live
  <2> QED
    BY <2>3, <2>4
<1>8. CASE SessionOpens(i)
  <2>1. stream[i] = "opening" /\ stream'[i] = "open" /\ UNCHANGED <<wire, lines, deaf>>
    BY <1>8 DEF SessionOpens, PushTypeOK
  <2> QED
    BY <1>3, <1>4, <1>5, <2>1 DEF Traces, Traced, Live
<1>9. ASSUME NEW status \in {"headers", "refused"}, Respond(i, status)
      PROVE  Traces'
  <2>1. /\ stream[i] = "open" /\ UNCHANGED <<wire, deaf>>
        /\ stream'[i] = IF status = "headers" THEN "answered" ELSE "refused"
        /\ lines'[i] = Append(lines[i], status) /\ status \in Messages
    BY <1>9 DEF Respond, Emit, PushTypeOK, Messages
  <2>2. \A n \in DOMAIN lines'[i] : lines'[i][n] = status \/ lines'[i][n] = "headers"
    BY <1>3, <2>1, HeadersStay DEF Traced, Live
  <2> QED
    BY <1>3, <1>4, <1>5, <2>1, <2>2 DEF Traces, Traced, Live
<1>10. ASSUME NEW how \in Final, StreamEnds(i, how)
       PROVE  Traces'
  <2>1. stream[i] # "none" /\ stream'[i] = "none" /\ UNCHANGED <<wire, deaf>>
    BY <1>10 DEF StreamEnds, PushTypeOK
  <2> QED
    BY <1>3, <1>4, <1>5, <2>1 DEF Traces, Traced, Live
<1> QED
  BY <1>2, <1>6, <1>7, <1>8, <1>9, <1>10

(* A stream of the process has an owner (NoOrphanStream, h2-sidecar.mjs and *)
(* #pushes): whatever aborts, cancels, failures, exits, ends and restarts   *)
(* cross on the pipe, and however many requests there are, it has an entry, *)
(* or a cancel is on the way that finds it, unless the cancel came before   *)
(* its session or LINE has refused the request.                             *)
THEOREM StreamsAreOwned == Spec => []NoOrphanStream
<1>1. Init => Traces
  BY WireStarts DEF Init, PushInit, Traces, Traced, Live
<1>2. ASSUME TypeOK, ReadyHasStream, Attended, Traces, [Next]_vars
      PROVE  Traces'
  <2>0. PushTypeOK
    BY <1>2 DEF TypeOK
  <2>1. CASE PushRuns
    BY <1>2, <2>0, <2>1, ClientTraces, SidecarTraces DEF PushRuns
  <2>2. CASE PushSuffers
    BY <1>2, <2>0, <2>2, ClientTraces, SidecarTraces DEF PushSuffers
  <2>3. CASE Restart
    BY <2>3, WireStarts DEF Restart, Replaced, Traces, Traced, Live
  <2>4. CASE UNCHANGED <<clientVars, sidecarVars>>
    BY <1>2, <2>4, OthersTraced DEF clientVars, sidecarVars, Traces
  <2> QED
    BY <1>2, <2>1, <2>2, <2>3, <2>4
       DEF Next, Connected, ConnectFails, Started, OtherRestart, Tick, AlertsAsked, vars, pushVars
<1>3. ASSUME TypeOK, Traces PROVE NoOrphanStream
  <2> SUFFICES ASSUME NEW i \in Orphans PROVE i \in deaf \/ stream[i] = "refused"
    BY DEF NoOrphanStream
  <2>1. i \in Ids /\ stream[i] # "none" /\ entry[i] = "none" /\ wire[i] \notin Cancelling
    BY DEF Orphans, Cancelling
  <2> QED
    BY <1>3, <2>1 DEF Traces, Traced, Live, TypeOK, PushTypeOK
<1> QED
  BY <1>1, <1>2, <1>3, TypeCorrect, StreamsAttended, PTL DEF Spec

------------------------------------------------------------------------------
(* How long a problem has been there.                                       *)

(* A check of the ladder either stays on its rung, forgets, enters for its  *)
(* worst alert, or climbs by one, and the last two only from the bottom or  *)
(* after the cooldown.                                                      *)
LEMMA LadderEnters ==
  ASSUME NEW l \in Ladders, NEW firing
  PROVE  \/ NextRung(l, firing).rung = l.rung /\ NextRung(l, firing).on = l.on
         \/ NextRung(l, firing) = Bottom
         \/ /\ firing \ {Budget} # {}
            /\ NextRung(l, firing) = Enter(Worst(firing \ {Budget}))
            /\ l.rung = NoRung \/ (l.on >= CooldownTicks /\ Worst(firing \ {Budget}) > l.rung)
         \/ /\ l.rung # NoRung /\ l.on >= CooldownTicks
            /\ NextRung(l, firing) = Enter(l.rung + 1)
<1> DEFINE actionable == firing \ {Budget}
           waiting == [l EXCEPT !.clean = 0]
<1>1. waiting.rung = l.rung /\ waiting.on = l.on
  BY DEF Ladders
<1>2. CASE firing = {}
  BY <1>2 DEF NextRung, ObserveClean, Ladders
<1>3. CASE firing # {} /\ actionable = {}
  BY <1>1, <1>3 DEF NextRung
<1>4. CASE firing # {} /\ actionable # {}
  <2>1. l.on < CooldownTicks \/ l.on >= CooldownTicks
    BY SupervisionAssumption DEF Ladders
  <2> QED
    BY <1>1, <1>4, <2>1 DEF NextRung
<1> QED
  BY <1>2, <1>3, <1>4

(* Each alert of the ladder's is no older than its problem and its worker,  *)
(* and a lane rung no younger than an alert and its time on it.             *)
Timed ==
  /\ \A k \in Grave : pending[k] >= 0 => held[k] > pending[k]
  /\ \A k \in Kinds \ {Loss} : pending[k] >= 0 => since > pending[k]
  /\ ladder.rung \in {AvoidLane, ReconnectLane} => since >= ladder.on + DurationTicks + 1
  /\ ladder.rung >= RearmPoll => restart # "no"

(* What a tick of the monitor does to ages and ladder.                      *)
LEMMA TickTimed ==
  ASSUME TypeOK, Timed, NEW found \in Conditions, Tick(found)
  PROVE  /\ Timed'
         /\ restart = "no" /\ restart' = "asked" =>
              (\E k \in Grave : held'[k] >= Need(k) + 1) \/ since' >= Longest
<1> DEFINE holding == Observed(found, readiness')
           older == [ladder EXCEPT !.on = Capped(@, CooldownTicks)]
           actionable == Firing(pending') \ {Budget}
<1>0. /\ pending' = Evaluated(holding, Aged(pending), 0)
      /\ held' = [k \in Grave |-> IF k \in holding THEN Capped(held[k], Need(k) + 1) ELSE 0]
      /\ ladder' = NextRung(older, Firing(pending'))
      /\ since' = Capped(since, Longest)
      /\ restart' = IF restart = "asked" THEN "due"
                    ELSE IF Restarts(ladder, ladder') THEN "asked" ELSE restart
      /\ restart \in {"no", "asked"}
  BY DEF Tick, TypeOK
<1>1. /\ \A k \in Kinds : Need(k) \in Nat /\ (k # Loss => Need(k) = DurationTicks)
      /\ DurationTicks \in Nat /\ CooldownTicks \in Nat \ {0}
      /\ Longest = DurationTicks + CooldownTicks + 1
      /\ Grave \subseteq Kinds
  BY SupervisionAssumption DEF Need, Longest, Grave
<1>2. /\ pending \in [Kinds -> {-2, -1} \union Nat] /\ held \in [Grave -> Nat]
      /\ since \in 0..Longest /\ ladder \in Ladders
      /\ TypeOK'
  BY TickTypes DEF TypeOK, Ladders, Off, Found
<1>3. /\ older \in Ladders /\ older.rung = ladder.rung
      /\ older.on \in Nat /\ older.on <= ladder.on + 1
  BY <1>1, <1>2 DEF Ladders, Capped
<1> HIDE DEF holding, older
<1>4. since' \in Nat /\ (since' = since + 1 \/ since' = Longest)
  BY <1>0, <1>1, <1>2 DEF Capped
<1>5. ASSUME NEW k \in Kinds
      PROVE  /\ pending'[k] >= 0 => /\ k \in holding
                                    /\ \/ pending'[k] = 0
                                       \/ pending[k] >= 0 /\ pending'[k] <= pending[k] + 1
                                    /\ pending'[k] <= Need(k)
             /\ pending'[k] \in {-2, -1} \union Nat
  <2>1. Aged(pending)[k] = IF pending[k] = -2 THEN -2 ELSE Capped(pending[k], Need(k))
    BY DEF Aged, Off
  <2>2. pending'[k] = IF k \notin holding THEN -2
                      ELSE IF Aged(pending)[k] = -2 THEN 0 ELSE Aged(pending)[k]
    BY <1>0 DEF Evaluated, Off
  <2>3. Need(k) \in Nat /\ pending[k] \in {-2, -1} \union Nat
    BY <1>1, <1>2
  <2> QED
    BY <2>1, <2>2, <2>3 DEF Capped
<1>6. ASSUME NEW k \in Grave, pending'[k] >= 0
      PROVE  held'[k] > pending'[k]
  <2>1. /\ held'[k] = Capped(held[k], Need(k) + 1) /\ held[k] \in Nat /\ Need(k) \in Nat
        /\ pending[k] \in {-2, -1} \union Nat /\ pending'[k] \in {-2, -1} \union Nat
        /\ pending'[k] <= Need(k)
        /\ pending'[k] = 0 \/ (pending[k] >= 0 /\ pending'[k] <= pending[k] + 1)
    BY <1>0, <1>1, <1>2, <1>5, <1>6
  <2>2. pending[k] >= 0 => held[k] > pending[k]
    BY DEF Timed
  <2> QED
    BY <2>1, <2>2 DEF Capped
<1>7. ASSUME NEW k \in Kinds \ {Loss}, pending'[k] >= 0
      PROVE  since' > pending'[k]
  <2>1. /\ pending[k] \in {-2, -1} \union Nat /\ pending'[k] \in {-2, -1} \union Nat
        /\ pending'[k] <= DurationTicks
        /\ pending'[k] = 0 \/ (pending[k] >= 0 /\ pending'[k] <= pending[k] + 1)
    BY <1>1, <1>2, <1>5, <1>7
  <2>2. pending[k] >= 0 => since > pending[k]
    BY DEF Timed
  <2> QED
    BY <1>1, <1>2, <1>4, <2>1, <2>2
<1>8. \A k \in Firing(pending') : k \in Kinds /\ pending'[k] >= Need(k)
  BY DEF Firing
<1>9. ASSUME NEW k \in Firing(pending'), k # Loss
      PROVE  since' >= DurationTicks + 1
  BY <1>1, <1>4, <1>5, <1>7, <1>8, <1>9
<1>10. ASSUME NEW k \in Grave, k \in Firing(pending')
       PROVE  held'[k] >= Need(k) + 1
  <2>1. held'[k] \in Nat /\ Need(k) \in Nat /\ pending'[k] \in {-2, -1} \union Nat
    BY <1>1, <1>2, <1>5 DEF TypeOK
  <2> QED
    BY <1>6, <1>8, <1>10, <2>1
<1>11. \/ ladder'.rung = ladder.rung /\ ladder'.on = older.on
       \/ ladder' = Bottom
       \/ /\ actionable # {} /\ ladder' = Enter(Worst(actionable))
          /\ ladder.rung = NoRung \/ (older.on >= CooldownTicks /\ Worst(actionable) > ladder.rung)
       \/ /\ ladder.rung # NoRung /\ older.on >= CooldownTicks
          /\ ladder' = Enter(ladder.rung + 1)
  BY <1>0, <1>3, LadderEnters
<1>12. actionable # {} =>
         /\ Worst(actionable) \in AvoidLane..ReconnectSession
         /\ \E k \in actionable : EntryRung(k) = Worst(actionable)
  BY WorstIsAnEntry
<1>13. ASSUME NEW k \in Kinds, EntryRung(k) >= RearmPoll
       PROVE  k \in Grave
  BY <1>13 DEF Grave, EntryRung, AvoidLane, ReconnectLane, RearmPoll
<1> HIDE DEF actionable
<1>14. ladder.rung \in {AvoidLane, ReconnectLane} /\ older.on >= CooldownTicks => since' >= Longest
  BY <1>1, <1>2, <1>3, <1>4 DEF Timed, Ladders
<1>15. CASE ladder'.rung = ladder.rung /\ ladder'.on = older.on
  <2>1. ladder'.rung \in {AvoidLane, ReconnectLane} => since' >= ladder'.on + DurationTicks + 1
    BY <1>1, <1>2, <1>3, <1>4, <1>15 DEF Timed, Ladders
  <2>2. restart' # "no" \/ restart = "no"
    BY <1>0
  <2> QED
    BY <1>0, <1>6, <1>7, <1>15, <2>1, <2>2 DEF Timed, Restarts
<1>16. CASE ladder' = Bottom
  BY <1>0, <1>6, <1>7, <1>16
  DEF Timed, Restarts, Bottom, NoRung, RearmPoll, AvoidLane, ReconnectLane
<1>17. ASSUME NEW r, ladder' = Enter(r), r > ladder.rung,
              \/ since' >= Longest
              \/ r >= RearmPoll /\ \E k \in Grave : held'[k] >= Need(k) + 1
              \/ r < RearmPoll /\ since' >= DurationTicks + 1
              \/ ladder.rung >= RearmPoll
       PROVE  /\ Timed'
              /\ restart = "no" /\ restart' = "asked" =>
                   (\E k \in Grave : held'[k] >= Need(k) + 1) \/ since' >= Longest
  <2> USE DEF NoRung, AvoidLane, ReconnectLane, RearmPoll, RestartWorker
  <2>1. ladder'.rung = r /\ ladder'.on = 0 /\ r \in 0..5 /\ ladder.rung \in 0..5
    BY <1>2, <1>17 DEF Enter, Ladders, Rungs, TypeOK
  <2>2. ladder'.rung >= RearmPoll => restart' # "no"
    BY <1>0, <1>17, <2>1 DEF Restarts
  <2>3. ladder'.rung \in {AvoidLane, ReconnectLane} => since' >= ladder'.on + DurationTicks + 1
    BY <1>1, <1>4, <1>17, <2>1
  <2>4. Timed'
    BY <1>6, <1>7, <2>2, <2>3 DEF Timed
  <2>5. ASSUME restart = "no", restart' = "asked"
        PROVE  (\E k \in Grave : held'[k] >= Need(k) + 1) \/ since' >= Longest
    <3>1. r >= RearmPoll
      BY <1>0, <2>1, <2>5 DEF Restarts
    <3>2. ~(ladder.rung >= RearmPoll)
      BY <2>5 DEF Timed
    <3> QED
      BY <1>17, <2>1, <3>1, <3>2
  <2> QED
    BY <2>4, <2>5
<1>18. CASE /\ actionable # {} /\ ladder' = Enter(Worst(actionable))
            /\ ladder.rung = NoRung \/ (older.on >= CooldownTicks /\ Worst(actionable) > ladder.rung)
  <2> DEFINE r == Worst(actionable)
  <2>1. r > ladder.rung /\ r \in 1..4
    BY <1>2, <1>12, <1>18 DEF Ladders, Rungs, NoRung, AvoidLane, ReconnectSession
  <2>2. PICK k \in actionable : EntryRung(k) = r
    BY <1>12, <1>18
  <2>3. k \in Firing(pending') /\ k \in Kinds
    BY <1>8 DEF actionable
  <2>4. r >= RearmPoll => k \in Grave /\ held'[k] >= Need(k) + 1
    BY <1>10, <1>13, <2>2, <2>3
  <2>5. r < RearmPoll => since' >= DurationTicks + 1
    <3>1. EntryRung(Loss) = ReconnectSession
      BY DEF EntryRung, Loss
    <3> QED
      BY <1>9, <2>2, <2>3, <3>1 DEF RearmPoll, ReconnectSession
  <2> HIDE DEF r
  <2>6. r < RearmPoll \/ r >= RearmPoll
    BY <2>1 DEF RearmPoll
  <2> QED
    BY <1>17, <1>18, <2>1, <2>4, <2>5, <2>6 DEF r
<1>19. CASE ladder.rung # NoRung /\ older.on >= CooldownTicks /\ ladder' = Enter(ladder.rung + 1)
  <2>1. ladder.rung \in 1..5 /\ ladder.rung + 1 > ladder.rung
    BY <1>2, <1>19 DEF Ladders, Rungs, NoRung, RestartWorker
  <2>2. ladder.rung \in {AvoidLane, ReconnectLane} \/ ladder.rung >= RearmPoll
    BY <2>1 DEF AvoidLane, ReconnectLane, RearmPoll
  <2> QED
    BY <1>14, <1>17, <1>19, <2>1, <2>2
<1> QED
  BY <1>11, <1>15, <1>16, <1>18, <1>19

(* A request for the alerts finds problems, and forgets some.               *)
LEMMA AlertsTimed ==
  ASSUME TypeOK, Timed, NEW found \in Conditions, AlertsAsked(found)
  PROVE  Timed'
<1>1. \A k \in Kinds : pending'[k] >= 0 => pending'[k] = pending[k]
  BY DEF AlertsAsked, Evaluated, Off, Found
<1>2. UNCHANGED <<ladder, restart, held, since>> /\ Grave \subseteq Kinds
  BY DEF AlertsAsked, hostVars, history, Grave
<1> QED
  BY <1>1, <1>2 DEF Timed

(* A single spike never restarts a connection (RestartIsEarned,             *)
(* AlertEvaluator with RecoveryPlanner.next): for every threshold, and      *)
(* however /api/alerts is asked in between, the ladder asks for a restart   *)
(* only when a grave problem has held at every tick for as long as its      *)
(* alert needs, or when the worker is older than an alert and a cooldown.   *)
THEOREM RestartsAreEarned == Spec => RestartIsEarned
<1> DEFINE Earned == restart = "no" /\ restart' = "asked" /\ ladder' # ladder /\ phase' = "up"
                     => \/ \E k \in Grave : held'[k] >= Need(k) + 1
                        \/ since' >= Longest
<1>1. Init => Timed
  BY DEF Init, Timed, Bottom, Off, NoRung, AvoidLane, ReconnectLane, RearmPoll, Grave
<1>2. ASSUME TypeOK, Timed, [Next]_vars
      PROVE  Timed' /\ Earned
  <2>1. ASSUME NEW found \in Conditions, Tick(found) PROVE Timed' /\ Earned
    BY <1>2, <2>1, TickTimed
  <2>2. ASSUME NEW found \in Conditions, AlertsAsked(found) PROVE Timed' /\ Earned
    BY <1>2, <2>2, AlertsTimed DEF AlertsAsked
  <2>3. CASE Restart
    BY <2>3 DEF Restart, Timed, Bottom, Off, NoRung, AvoidLane, ReconnectLane, RearmPoll, Grave
  <2>4. CASE OtherRestart
    <3>1. UNCHANGED <<pending, ladder, held, since>> /\ restart' = "asked"
      BY <2>4 DEF OtherRestart, watchVars, history
    <3> QED
      BY <1>2, <3>1 DEF Timed
  <2>5. CASE Connected \/ ConnectFails \/ Started \/ PushRuns \/ PushSuffers \/ UNCHANGED vars
    <3>1. UNCHANGED <<pending, ladder, held, since, restart>>
      BY <2>5 DEF Connected, ConnectFails, Started, PushRuns, PushSuffers, vars, watchVars,
                  hostVars, history
    <3> QED
      BY <1>2, <3>1 DEF Timed
  <2> QED
    BY <1>2, <2>1, <2>2, <2>3, <2>4, <2>5 DEF Next
<1>3. TypeOK /\ Timed /\ [Next]_vars => [Earned]_vars
  BY <1>2
<1> QED
  BY <1>1, <1>2, <1>3, TypeCorrect, PTL DEF Spec, RestartIsEarned
==============================================================================
