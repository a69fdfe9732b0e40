-------------------------------- MODULE LanePool --------------------------------
(***************************************************************************)
(* The pool of HTTP/2 lanes that carries a bot's requests to LINE           *)
(* (transport/lane-pool.ts, transport/lane.ts).  Low lane ids are reserved  *)
(* for replies, the last of those are spares, the rest receives.  Replies   *)
(* stay on a pinned lane while it is fast; a slow reply makes the pool look *)
(* elsewhere for a while; a failure replaces the lane's transport at once;  *)
(* an old receive lane is replaced in the background and hidden until its   *)
(* first request is through.                                                *)
(*                                                                         *)
(* Times are classes of round-trip times, timers expire at any moment, and  *)
(* choices between lanes that only a poll's or a probe's timing tells apart *)
(* are free.  A lane that is draining is replaced in the same step, so that *)
(* lanes are ready until the pool is closed.                                *)
(***************************************************************************)
EXTENDS Integers, Sequences, SequencesExt, FiniteSetsExt

CONSTANTS
  LaneCount,    (* lanes of the pool                                        *)
  Reserved,     (* sendReservedLanes                                        *)
  Spares,       (* sendSpareLanes, of the reserved                          *)
  NoLane,       (* no lane is pinned                                        *)
  RoundTrips,   (* round-trip times of replies, in ms                       *)
  Fast,         (* fastRouteThresholdMs                                     *)
  Slow,         (* slowThresholdMs                                          *)
  TailLimit,    (* maxSendTailMs                                            *)
  Window,       (* sampleWindow                                             *)
  SlowSamples,  (* slowSamplesBeforeCooldown                                *)
  PollCap,      (* maxPollInFlightPerLane                                   *)
  MaxRequests,  (* bound on the requests under way                          *)
  MaxReplies    (* bound on the replies of a run                            *)

ASSUME PoolAssumption ==
  /\ LaneCount \in Nat \ {0} /\ Reserved \in 0..(LaneCount - 1)
  /\ Spares \in Nat /\ Spares < IF Reserved = 0 THEN 1 ELSE Reserved
  /\ NoLane \notin Nat
  /\ RoundTrips \subseteq Nat /\ {Fast, Slow, TailLimit} \subseteq Nat
  /\ {Window, SlowSamples, PollCap, MaxRequests, MaxReplies} \subseteq Nat \ {0}

Lane == 0..(LaneCount - 1)

(* A reply starts alone on its lane or joins other requests there.          *)
ReplyKind == {"alone", "joined"}
Kind == ReplyKind \union {"receive", "probe", "maintain"}

VARIABLES
  flight,    (* how many requests of each kind are under way on each lane    *)
  samples,   (* the send profile: the last round trips of replies            *)
  streak,    (* #slowSendStreak                                              *)
  bypass,    (* #fastBypassUntil has not passed                              *)
  cooldown,  (* #cooldownUntil: passed or not set, running, or infinite      *)
  pin,       (* #currentSendLaneId                                           *)
  closed,    (* #closed, and with it every lane dead                         *)
  replies    (* replies sent so far                                          *)

evidence == <<samples, streak, bypass>>
routing == <<cooldown, pin>>
vars == <<flight, evidence, routing, closed, replies>>

InFlight(l) ==
  flight[l]["alone"] + flight[l]["joined"] + flight[l]["receive"]
    + flight[l]["probe"] + flight[l]["maintain"]
UnderWay == MapThenSumSet(InFlight, Lane)

TypeOK ==
  /\ flight \in [Lane -> [Kind -> Nat]]
  /\ samples \in [Lane -> Seq(RoundTrips)]
  /\ \A l \in Lane : Len(samples[l]) <= Window
  /\ streak \in [Lane -> 0..SlowSamples]
  /\ bypass \in [Lane -> BOOLEAN]
  /\ cooldown \in [Lane -> {"none", "running", "infinite"}]
  /\ pin \in Lane \union {NoLane}
  /\ closed \in BOOLEAN /\ replies \in 0..MaxReplies

Init ==
  /\ flight = [l \in Lane |-> [k \in Kind |-> 0]]
  /\ samples = [l \in Lane |-> <<>>]
  /\ streak = [l \in Lane |-> 0]
  /\ bypass = [l \in Lane |-> FALSE]
  /\ cooldown = [l \in Lane |-> "none"]
  /\ pin = NoLane
  /\ closed = FALSE /\ replies = 0

------------------------------------------------------------------------------
(* Lane: what its replies say of its route.                                 *)

Timed(l) == samples[l] # <<>>
Ascending(s) == SortSeq(s, <)
Median(l) == Ascending(samples[l])[(Len(samples[l]) \div 2) + 1]

(* The nearest rank of 95% is the largest sample of a window of up to 20.   *)
TailOf(s) == Max(ToSet(s))
TailSafe(l) == Timed(l) => TailOf(samples[l]) <= TailLimit

(* p50 plus 35% of the way to p95, in hundredths of a millisecond.          *)
Predicted(l) == 65 * Median(l) + 35 * TailOf(samples[l])

IsFast(l) == Timed(l) /\ Predicted(l) <= 100 * Fast /\ TailSafe(l) /\ ~bypass[l]

------------------------------------------------------------------------------
(* Where a request may go.                                                  *)
Usable == {l \in Lane : cooldown[l] = "none"}
Routable == IF Usable # {} THEN Usable ELSE Lane

ReplyBand == IF Reserved = 0 THEN Lane ELSE {l \in Lane : l < Reserved}
ReceiveBand == {l \in Lane : l >= Reserved}

(* A band without a routable lane borrows all the others.                   *)
Pool(band) == IF Routable \intersect band # {} THEN Routable \intersect band ELSE Routable

(* Without a primary lane the spares are primary.                           *)
FirstSpare == Reserved - Spares
Split == Spares > 0 /\ \E l \in Pool(ReplyBand) : l < FirstSpare
AllPrimary == {l \in Pool(ReplyBand) : Split => l < FirstSpare}
Spare == Pool(ReplyBand) \ AllPrimary

(* Both filters fail open.                                                  *)
Unbypassed ==
  LET kept == {l \in AllPrimary : ~bypass[l]} IN IF kept # {} THEN kept ELSE AllPrimary
Primary ==
  LET safe == {l \in Unbypassed : TailSafe(l)} IN IF safe # {} THEN safe ELSE Unbypassed

Idling(lanes) == {l \in lanes : InFlight(l) = 0}
TimedOf(lanes) == {l \in lanes : Timed(l)}
FastPrimary == {l \in Primary : IsFast(l)}

(* #bestSend; replies' times differ by more than the switch margin or not at *)
(* all, and equals are told apart by score and load.                        *)
BestSend(lanes) == {l \in lanes : \A m \in lanes : Predicted(l) <= Predicted(m)}
BestKnown(lanes) == IF TimedOf(lanes) # {} THEN BestSend(TimedOf(lanes)) ELSE lanes

------------------------------------------------------------------------------
(* Lane.send, until the transport answers.                                  *)
Accepts == ~closed /\ UnderWay < MaxRequests
Sent(l, kind) == flight' = [flight EXCEPT ![l][kind] = @ + 1]

Reply(l) ==
  /\ Sent(l, IF InFlight(l) > 0 THEN "joined" ELSE "alone")
  /\ replies' = replies + 1
  /\ UNCHANGED <<evidence, cooldown, closed>>

(* Mutant of Take: working around a queue moves the pin.                    *)
TakeAlways(l) == pin' = l

(* A reply that goes around the pinned lane's queue leaves the pin alone.   *)
Take(l) == pin' = IF pin \in FastPrimary THEN pin ELSE l

(* The branches of #pickSend.                                               *)
ReplyOnPin ==
  /\ pin \in Idling(FastPrimary)
  /\ Reply(pin)
  /\ UNCHANGED pin

ReplyOnFast ==
  /\ pin \notin Idling(FastPrimary)
  /\ \E l \in BestSend(Idling(FastPrimary)) : Reply(l) /\ Take(l)

ReplyOnSpare ==
  /\ Idling(Primary) = {}
  /\ \E l \in BestKnown(Idling(Spare)) : Reply(l)
  /\ UNCHANGED pin

ReplyOnMeasured ==
  /\ Idling(FastPrimary) = {}
  /\ \E l \in BestSend(TimedOf(Idling(Primary))) : Reply(l) /\ Take(l)

ReplyOnUntried ==
  /\ TimedOf(Idling(Primary)) = {}
  /\ \E l \in Idling(Primary) : Reply(l) /\ Take(l)

(* Mutant of ReplyOnBusy: a reply queues although a spare is free.          *)
ReplyOnBusyFirst ==
  /\ Idling(Primary) = {}
  /\ \E l \in BestKnown(Primary) : Reply(l) /\ Take(l)

ReplyOnBusy ==
  /\ Idling(Primary) = {} /\ Idling(Spare) = {}
  /\ \E l \in BestKnown(Primary) : Reply(l) /\ Take(l)

PickSend ==
  /\ Accepts /\ replies < MaxReplies
  /\ \/ ReplyOnPin \/ ReplyOnFast \/ ReplyOnSpare
     \/ ReplyOnMeasured \/ ReplyOnUntried \/ ReplyOnBusy

(* Mutant of UnderCap: the cap decides before the bands do.                 *)
UnderCapAnywhere ==
  LET free == {l \in Pool(ReceiveBand) : InFlight(l) < PollCap}
  IN IF free # {} THEN free ELSE Routable

(* The cap is soft: saturated receive lanes are multiplexed.                *)
UnderCap ==
  LET free == {l \in Pool(ReceiveBand) : InFlight(l) < PollCap}
  IN IF free # {} THEN free ELSE Pool(ReceiveBand)

Receive ==
  /\ Accepts
  /\ \E l \in UnderCap : Sent(l, "receive")
  /\ UNCHANGED <<evidence, routing, closed, replies>>

(* A warm probe of a reply lane, or a preflight that names its lane; before *)
(* the first reply every reply lane gets both.                              *)
Probe ==
  /\ Accepts
  /\ \E l \in Pool(ReplyBand) : Sent(l, "probe")
  /\ UNCHANGED <<evidence, routing, closed, replies>>

------------------------------------------------------------------------------
(* Lane.recycle, by #afterFailure.                                          *)
Unpin(l) == pin' = IF pin = l THEN NoLane ELSE pin

(* maintain: an old receive lane gets a new transport, and is hidden while  *)
(* that one is tried out.  Its slow streak stays.                           *)
Maintain ==
  /\ Accepts /\ LaneCount > 1
  /\ \E l \in Idling(ReceiveBand) :
       /\ ~(l = pin /\ IsFast(l))
       /\ Unpin(l)
       /\ samples' = [samples EXCEPT ![l] = <<>>]
       /\ bypass' = [bypass EXCEPT ![l] = FALSE]
       /\ cooldown' = [cooldown EXCEPT ![l] = "infinite"]
       /\ Sent(l, "maintain")
  /\ UNCHANGED <<streak, closed, replies>>

------------------------------------------------------------------------------
(* How requests end.                                                        *)
Ended(l, kind) ==
  /\ flight[l][kind] > 0
  /\ flight' = [flight EXCEPT ![l][kind] = @ - 1]

(* A reply that met another request at either end says nothing of the route. *)
Contended(l, kind) == kind = "joined" \/ InFlight(l) > 1

Recorded(l, rtt) ==
  LET all == Append(samples[l], rtt)
  IN IF Len(all) > Window THEN Tail(all) ELSE all

(* A lane is parked when it is slow again and again, but for the last one.  *)
Slower(l) == IF streak[l] < SlowSamples THEN streak[l] + 1 ELSE SlowSamples
Parked(l, rtt) == rtt > Slow /\ Slower(l) = SlowSamples /\ LaneCount > 1 /\ ~closed

(* #afterSend's last part.                                                  *)
Parks(l, rtt) ==
  /\ streak' = [streak EXCEPT ![l] = IF rtt <= Slow \/ Parked(l, rtt) THEN 0 ELSE Slower(l)]
  /\ cooldown' = IF Parked(l, rtt) THEN [cooldown EXCEPT ![l] = "running"] ELSE cooldown

(* Lane.#record and #afterSend.                                             *)
ReplyEnds(l, kind, rtt) ==
  LET after == Recorded(l, rtt)
      tailBreach == TailOf(after) > TailLimit
      breach == rtt > Fast + 3 \/ tailBreach
      contended == Contended(l, kind)
  IN /\ Ended(l, kind)
     /\ samples' = [samples EXCEPT ![l] = after]
     /\ bypass' = IF breach /\ contended THEN bypass ELSE [bypass EXCEPT ![l] = breach]
     /\ IF ~contended /\ (rtt > Fast \/ tailBreach \/ Parked(l, rtt))
        THEN Unpin(l) ELSE UNCHANGED pin
     /\ IF contended THEN UNCHANGED <<streak, cooldown>> ELSE Parks(l, rtt)
     /\ UNCHANGED <<closed, replies>>

OtherEnds(l, kind) ==
  /\ Ended(l, kind)
  /\ UNCHANGED <<evidence, routing, closed, replies>>

(* maintain returns.  The lane's own inFlight falls with the response; the  *)
(* cancel of its body, the hiding's end and, in Rejected and Broken,        *)
(* #afterFailure follow some microtasks later and are one step with it.     *)
MaintainEnds(l) ==
  /\ Ended(l, "maintain")
  /\ cooldown' = [cooldown EXCEPT ![l] = "none"]
  /\ UNCHANGED <<evidence, pin, closed, replies>>

(* Mutant of Shown: a maintain that fails hides the lane for good.          *)
ShownOnSuccess(l, kind) == cooldown

(* maintain ends the hiding of its lane also when its request fails.        *)
Shown(l, kind) ==
  IF kind = "maintain" THEN [cooldown EXCEPT ![l] = "none"] ELSE cooldown

(* #afterFailure of an error that is not about the connection.              *)
Rejected(l, kind) ==
  /\ Ended(l, kind)
  /\ cooldown' = Shown(l, kind)
  /\ UNCHANGED <<evidence, pin, closed, replies>>

(* #afterFailure of a GOAWAY or a transient error: a new transport, also for *)
(* a request of a transport that was replaced before.                       *)
Broken(l, kind) ==
  /\ Ended(l, kind) /\ ~closed
  /\ Unpin(l)
  /\ cooldown' = [cooldown EXCEPT ![l] = "none"]
  /\ samples' = [samples EXCEPT ![l] = <<>>]
  /\ bypass' = [bypass EXCEPT ![l] = FALSE]
  /\ streak' = [streak EXCEPT ![l] = 0]
  /\ UNCHANGED <<closed, replies>>

(* The same once the pool is closed: the lane stays dead.                   *)
BrokenAfterClose(l, kind) ==
  /\ Ended(l, kind) /\ closed
  /\ Unpin(l)
  /\ cooldown' = Shown(l, kind)
  /\ UNCHANGED <<evidence, closed, replies>>

------------------------------------------------------------------------------
BypassExpires(l) ==
  /\ bypass[l]
  /\ bypass' = [bypass EXCEPT ![l] = FALSE]
  /\ UNCHANGED <<flight, samples, streak, routing, closed, replies>>

CooldownExpires(l) ==
  /\ cooldown[l] = "running"
  /\ cooldown' = [cooldown EXCEPT ![l] = "none"]
  /\ UNCHANGED <<flight, evidence, pin, closed, replies>>

Close ==
  /\ ~closed
  /\ closed' = TRUE
  /\ UNCHANGED <<flight, evidence, routing, replies>>

Next ==
  \/ PickSend \/ Receive \/ Probe \/ Maintain \/ Close
  \/ \E l \in Lane :
       \/ \E kind \in ReplyKind, rtt \in RoundTrips : ReplyEnds(l, kind, rtt)
       \/ \E kind \in {"receive", "probe"} : OtherEnds(l, kind)
       \/ MaintainEnds(l)
       \/ \E kind \in Kind : Rejected(l, kind) \/ Broken(l, kind) \/ BrokenAfterClose(l, kind)
       \/ BypassExpires(l) \/ CooldownExpires(l)

Spec == Init /\ [][Next]_vars

------------------------------------------------------------------------------
(* maintain hides a lane without a deadline: whatever happens to its first  *)
(* request and to other requests of the lane, the hiding ends with it.      *)
HiddenLaneIsTriedOut ==
  \A l \in Lane : cooldown[l] = "infinite" =>
    flight[l]["maintain"] > 0

(* "working around a queue is not a change of preference" (#pickSend): only  *)
(* the end of one of its own requests takes the pin from a lane that replies *)
(* may use and that is fast; no choice made for another reply does.         *)
PinKept ==
  [][\A l \in Lane :
       (pin = l /\ pin' # l /\ l \in FastPrimary) => InFlight(l)' < InFlight(l)]_vars

Starts(l, kinds) == \E kind \in kinds : flight'[l][kind] > flight[l][kind]

Unobjectionable(l) == ~bypass[l] /\ TailSafe(l)

(* "Answering on a free spare beats queueing behind a reply already in      *)
(* flight", "Ordinary replies never touch them".                            *)
QueuesLast(l) ==
  Starts(l, ReplyKind) =>
    /\ InFlight(l) > 0 =>
         \A m \in Pool(ReplyBand) : Unobjectionable(m) => InFlight(m) > 0
    /\ l \in Spare =>
         \A m \in AllPrimary : Unobjectionable(m) => InFlight(m) > 0

ReceiveKeepsOff(l) ==
  (Starts(l, {"receive"}) /\ l \in ReplyBand \ ReceiveBand) =>
    Usable \intersect ReceiveBand = {}

(* Overload of one side is not paid by the other: a reply queues behind     *)
(* another request, or takes a spare while a primary lane is usable, only   *)
(* when every lane that nothing speaks against is busy; continuous receive  *)
(* traffic keeps off the reply lanes however many of its own are saturated, *)
(* as long as one of them is in use at all.                                 *)
OverloadKeepsBands ==
  [][\A l \in Lane : QueuesLast(l) /\ ReceiveKeepsOff(l)]_vars
================================================================================
