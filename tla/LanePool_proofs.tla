---------------------------- MODULE LanePool_proofs ----------------------------
(***************************************************************************)
(* The lane pool for any number of lanes, requests and replies, any         *)
(* thresholds and any window of samples.                                    *)
(***************************************************************************)
EXTENDS LanePool, SequenceTheorems, TLAPS

(* The facts about the constants that the proofs use.                       *)
LEMMA Sizes ==
  /\ LaneCount \in Nat \ {0} /\ Reserved \in Nat
  /\ Window \in Nat \ {0} /\ SlowSamples \in Nat \ {0}
  /\ MaxReplies \in Nat \ {0} /\ NoLane \notin Lane
PROOF
  BY PoolAssumption DEF PoolAssumption, Lane

(* A window that takes a round trip in and lets the oldest one go.          *)
LEMMA RecordedTypes ==
  ASSUME TypeOK, NEW l \in Lane, NEW rtt \in RoundTrips
  PROVE  /\ Recorded(l, rtt) \in Seq(RoundTrips)
         /\ Len(Recorded(l, rtt)) <= Window
PROOF
<1> DEFINE all == Append(samples[l], rtt)
<1>1. samples[l] \in Seq(RoundTrips) /\ Len(samples[l]) <= Window
  BY DEF TypeOK
<1>2. all \in Seq(RoundTrips) /\ all # <<>> /\ Len(all) = Len(samples[l]) + 1
  BY <1>1, AppendProperties
<1>3. Tail(all) \in Seq(RoundTrips) /\ Len(Tail(all)) = Len(all) - 1
  BY <1>2, HeadTailProperties
<1>4. Len(samples[l]) \in Nat
  BY <1>1, LenProperties
<1> HIDE DEF all
<1>5. Recorded(l, rtt) = IF Len(all) > Window THEN Tail(all) ELSE all
  BY DEF Recorded, all
<1> QED
  BY <1>1, <1>2, <1>3, <1>4, <1>5, Sizes

(* One request starts: no count falls, and none but its own grows.          *)
LEMMA SentTypes ==
  ASSUME TypeOK, NEW l \in Lane, NEW kind \in Kind, Sent(l, kind)
  PROVE  /\ flight' \in [Lane -> [Kind -> Nat]]
         /\ flight'[l][kind] > 0
         /\ \A m \in Lane, k \in Kind : flight'[m][k] >= flight[m][k]
PROOF
  BY DEF TypeOK, Sent

(* One request ends: the load of its lane falls.                            *)
LEMMA EndedTypes ==
  ASSUME TypeOK, NEW l \in Lane, NEW kind \in Kind, Ended(l, kind)
  PROVE  /\ flight' \in [Lane -> [Kind -> Nat]]
         /\ InFlight(l)' < InFlight(l)
         /\ \A m \in Lane, k \in Kind : m # l \/ k # kind => flight'[m][k] = flight[m][k]
PROOF
<1>1. flight[l] \in [Kind -> Nat] /\ flight[l][kind] > 0
  BY DEF TypeOK, Ended
<1>2. flight' = [flight EXCEPT ![l] = [flight[l] EXCEPT ![kind] = flight[l][kind] - 1]]
  BY <1>1 DEF Ended
<1>3. flight' \in [Lane -> [Kind -> Nat]]
  BY <1>1, <1>2 DEF TypeOK
<1>4. flight'[l] = [flight[l] EXCEPT ![kind] = flight[l][kind] - 1]
  BY <1>2 DEF TypeOK
<1>5. \A m \in Lane, k \in Kind : m # l \/ k # kind => flight'[m][k] = flight[m][k]
  BY <1>1, <1>2 DEF TypeOK
<1>6. InFlight(l)' < InFlight(l)
  BY <1>1, <1>4 DEF InFlight, Kind, ReplyKind
<1> QED
  BY <1>3, <1>5, <1>6

(* Where a reply goes is a lane of the pool.                                *)
LEMMA BandsAreLanes ==
  /\ Primary \subseteq Lane /\ Spare \subseteq Lane
  /\ Pool(ReplyBand) \subseteq Lane /\ UnderCap \subseteq Lane
PROOF
<1>1. Routable \subseteq Lane
  BY DEF Routable, Usable
<1>2. \A band : Pool(band) \subseteq Lane
  BY <1>1 DEF Pool
<1>3. AllPrimary \subseteq Lane
  BY <1>2 DEF AllPrimary
<1>4. Unbypassed \subseteq Lane
  BY <1>3 DEF Unbypassed
<1>5. Primary \subseteq Lane
  BY <1>4 DEF Primary
<1> QED
  BY <1>2, <1>5 DEF Spare, UnderCap

(* A reply starts on a lane of the pool and adds to its load; the pin is    *)
(* left alone, taken by that lane or kept where it was.                     *)
LEMMA PickSendSends ==
  ASSUME TypeOK, PickSend
  PROVE  \E l \in Lane : Reply(l) /\ (pin' = pin \/ Take(l))
PROOF
<1>1. CASE ReplyOnPin
  <2>1. pin \in Lane
    BY <1>1, BandsAreLanes DEF ReplyOnPin, Idling, FastPrimary
  <2> QED
    BY <1>1, <2>1 DEF ReplyOnPin
<1>2. CASE ReplyOnFast
  BY <1>2, BandsAreLanes DEF ReplyOnFast, BestSend, Idling, FastPrimary
<1>3. CASE ReplyOnSpare
  BY <1>3, BandsAreLanes DEF ReplyOnSpare, BestKnown, BestSend, TimedOf, Idling
<1>4. CASE ReplyOnMeasured
  BY <1>4, BandsAreLanes DEF ReplyOnMeasured, BestSend, TimedOf, Idling
<1>5. CASE ReplyOnUntried
  BY <1>5, BandsAreLanes DEF ReplyOnUntried, Idling
<1>6. CASE ReplyOnBusy
  BY <1>6, BandsAreLanes DEF ReplyOnBusy, BestKnown, BestSend, TimedOf
<1> QED
  BY <1>1, <1>2, <1>3, <1>4, <1>5, <1>6 DEF PickSend

(* The inductive invariant: the types, and that no lane is left hidden       *)
(* without its first request.                                               *)
IInv == TypeOK /\ HiddenLaneIsTriedOut

(* A pool starts with nothing hidden.                                       *)
LEMMA InitIInv == Init => IInv
PROOF
<1> SUFFICES ASSUME Init PROVE IInv
  OBVIOUS
<1>1. TypeOK
  <2>1. <<>> \in Seq(RoundTrips) /\ Len(<<>>) = 0
    OBVIOUS
  <2>2. samples = [l \in Lane |-> <<>>]
    BY DEF Init
  <2>3. /\ samples \in [Lane -> Seq(RoundTrips)]
        /\ \A l \in Lane : Len(samples[l]) <= Window
    BY <2>1, <2>2, Sizes
  <2>4. 0 \in 0..SlowSamples /\ 0 \in 0..MaxReplies
    BY Sizes
  <2>5. /\ flight \in [Lane -> [Kind -> Nat]]
        /\ bypass \in [Lane -> BOOLEAN]
        /\ cooldown \in [Lane -> {"none", "running", "infinite"}]
        /\ pin \in Lane \union {NoLane} /\ closed \in BOOLEAN
    BY DEF Init
  <2> QED
    BY <2>3, <2>4, <2>5 DEF Init, TypeOK
<1>2. HiddenLaneIsTriedOut
  BY DEF Init, HiddenLaneIsTriedOut
<1> QED
  BY <1>1, <1>2 DEF IInv

(* A request that starts hides no lane and ends no other request.           *)
LEMMA StartStep ==
  ASSUME IInv, NEW l \in Lane, NEW kind \in Kind, Sent(l, kind),
         UNCHANGED <<evidence, cooldown, closed>>,
         pin' \in Lane \union {NoLane}, replies' \in 0..MaxReplies
  PROVE  IInv'
PROOF
<1>1. flight' \in [Lane -> [Kind -> Nat]] /\ \A m \in Lane, k \in Kind : flight'[m][k] >= flight[m][k]
  BY SentTypes DEF IInv
<1>2. TypeOK'
  BY <1>1 DEF IInv, TypeOK, evidence
<1>3. HiddenLaneIsTriedOut'
  <2> SUFFICES ASSUME NEW m \in Lane, cooldown'[m] = "infinite"
               PROVE  flight'[m]["maintain"] > 0
    BY DEF HiddenLaneIsTriedOut
  <2>1. flight[m]["maintain"] > 0
    BY DEF IInv, HiddenLaneIsTriedOut
  <2>0. "maintain" \in Kind
    BY DEF Kind
  <2>2. flight'[m]["maintain"] >= flight[m]["maintain"]
    BY <1>1, <2>0
  <2>3. flight[m]["maintain"] \in Nat /\ flight'[m]["maintain"] \in Nat
    <3>1. flight \in [Lane -> [Kind -> Nat]]
      BY DEF IInv, TypeOK
    <3> QED
      BY <1>1, <2>0, <3>1
  <2> QED
    BY <2>1, <2>2, <2>3
<1> QED
  BY <1>2, <1>3 DEF IInv

(* A request that ends leaves no lane hidden whose first request it was.    *)
LEMMA EndStep ==
  ASSUME IInv, NEW l \in Lane, NEW kind \in Kind, Ended(l, kind),
         samples' \in [Lane -> Seq(RoundTrips)],
         \A m \in Lane : Len(samples'[m]) <= Window,
         streak' \in [Lane -> 0..SlowSamples], bypass' \in [Lane -> BOOLEAN],
         cooldown' \in [Lane -> {"none", "running", "infinite"}],
         \A m \in Lane : cooldown'[m] = "infinite" => cooldown[m] = "infinite",
         kind = "maintain" => cooldown'[l] # "infinite",
         pin' \in Lane \union {NoLane}, UNCHANGED <<closed, replies>>
  PROVE  IInv'
PROOF
<1>1. /\ flight' \in [Lane -> [Kind -> Nat]]
      /\ \A m \in Lane, k \in Kind : m # l \/ k # kind => flight'[m][k] = flight[m][k]
  BY EndedTypes DEF IInv
<1>2. TypeOK'
  BY <1>1 DEF IInv, TypeOK
<1>3. HiddenLaneIsTriedOut'
  <2> SUFFICES ASSUME NEW m \in Lane, cooldown'[m] = "infinite"
               PROVE  flight'[m]["maintain"] > 0
    BY DEF HiddenLaneIsTriedOut
  <2>1. flight[m]["maintain"] > 0
    BY DEF IInv, HiddenLaneIsTriedOut
  <2>2. m # l \/ "maintain" # kind
    OBVIOUS
  <2> QED
    BY <1>1, <2>1, <2>2 DEF Kind
<1> QED
  BY <1>2, <1>3 DEF IInv

(* How each end of a request, timer and replacement keeps it.               *)
LEMMA ReplyEndsStep ==
  ASSUME IInv, NEW l \in Lane, NEW kind \in ReplyKind, NEW rtt \in RoundTrips,
         ReplyEnds(l, kind, rtt)
  PROVE  IInv'
PROOF
<1>1. Ended(l, kind) /\ UNCHANGED <<closed, replies>>
  BY DEF ReplyEnds
<1>2. /\ samples' \in [Lane -> Seq(RoundTrips)]
      /\ \A m \in Lane : Len(samples'[m]) <= Window
  BY RecordedTypes DEF ReplyEnds, IInv, TypeOK
<1>3. bypass' \in [Lane -> BOOLEAN]
  <2>1. PICK breach \in BOOLEAN : bypass' = bypass \/ bypass' = [bypass EXCEPT ![l] = breach]
    BY DEF ReplyEnds
  <2> QED
    BY <2>1 DEF IInv, TypeOK
<1>4. pin' \in Lane \union {NoLane}
  BY DEF ReplyEnds, Unpin, IInv, TypeOK
<1>5. UNCHANGED <<streak, cooldown>> \/ Parks(l, rtt)
  BY DEF ReplyEnds
<1>6. /\ streak' \in [Lane -> 0..SlowSamples]
      /\ cooldown' = cooldown \/ cooldown' = [cooldown EXCEPT ![l] = "running"]
  <2>1. streak[l] \in 0..SlowSamples
    BY DEF IInv, TypeOK
  <2>2. Slower(l) \in 0..SlowSamples /\ 0 \in 0..SlowSamples
    BY <2>1, Sizes DEF Slower
  <2>3. \A s \in 0..SlowSamples : [streak EXCEPT ![l] = s] \in [Lane -> 0..SlowSamples]
    BY DEF IInv, TypeOK
  <2>4. CASE UNCHANGED <<streak, cooldown>>
    BY <2>4 DEF IInv, TypeOK
  <2>5. CASE Parks(l, rtt)
    BY <2>2, <2>3, <2>5 DEF Parks
  <2> QED
    BY <1>5, <2>4, <2>5
<1>7. /\ cooldown' \in [Lane -> {"none", "running", "infinite"}]
      /\ \A m \in Lane : cooldown'[m] = "infinite" => cooldown[m] = "infinite"
  BY <1>6 DEF IInv, TypeOK
<1>8. kind \in Kind /\ kind # "maintain"
  BY DEF Kind, ReplyKind
<1> QED
  BY <1>1, <1>2, <1>3, <1>4, <1>6, <1>7, <1>8, EndStep

(* The other ends of a request.                                             *)
LEMMA RequestEndsStep ==
  ASSUME IInv, NEW l \in Lane, NEW kind \in Kind,
         \/ kind \in {"receive", "probe"} /\ OtherEnds(l, kind)
         \/ kind = "maintain" /\ MaintainEnds(l)
         \/ Rejected(l, kind) \/ Broken(l, kind) \/ BrokenAfterClose(l, kind)
  PROVE  IInv'
PROOF
<1>1. Ended(l, kind) /\ UNCHANGED <<closed, replies>>
  BY DEF OtherEnds, MaintainEnds, Rejected, Broken, BrokenAfterClose, evidence, routing
<1>2. /\ samples' = samples \/ samples' = [samples EXCEPT ![l] = <<>>]
      /\ streak' = streak \/ streak' = [streak EXCEPT ![l] = 0]
      /\ bypass' = bypass \/ bypass' = [bypass EXCEPT ![l] = FALSE]
      /\ pin' = pin \/ pin' = NoLane
  BY DEF OtherEnds, MaintainEnds, Rejected, Broken, BrokenAfterClose, evidence, routing, Unpin
<1>3. \/ kind # "maintain" /\ cooldown' = cooldown
      \/ cooldown' = [cooldown EXCEPT ![l] = "none"]
  BY DEF OtherEnds, MaintainEnds, Rejected, Broken, BrokenAfterClose, routing, Shown
<1>4. /\ samples' \in [Lane -> Seq(RoundTrips)]
      /\ \A m \in Lane : Len(samples'[m]) <= Window
  <2>1. <<>> \in Seq(RoundTrips) /\ Len(<<>>) = 0 /\ 0 <= Window
    BY Sizes
  <2>2. /\ samples \in [Lane -> Seq(RoundTrips)]
        /\ \A m \in Lane : Len(samples[m]) <= Window
    BY DEF IInv, TypeOK
  <2>3. CASE samples' = [samples EXCEPT ![l] = <<>>]
    BY <2>1, <2>2, <2>3
  <2> QED
    BY <1>2, <2>2, <2>3
<1>5. streak' \in [Lane -> 0..SlowSamples] /\ bypass' \in [Lane -> BOOLEAN]
  <2>1. 0 \in 0..SlowSamples
    BY Sizes
  <2> QED
    BY <1>2, <2>1 DEF IInv, TypeOK
<1>6. pin' \in Lane \union {NoLane}
  BY <1>2 DEF IInv, TypeOK
<1>7. /\ cooldown' \in [Lane -> {"none", "running", "infinite"}]
      /\ \A m \in Lane : cooldown'[m] = "infinite" => cooldown[m] = "infinite"
      /\ kind = "maintain" => cooldown'[l] # "infinite"
  BY <1>3 DEF IInv, TypeOK
<1> QED
  BY <1>1, <1>4, <1>5, <1>6, <1>7, EndStep

(* maintain hides its lane and starts the request that shows it again.      *)
LEMMA MaintainStep ==
  ASSUME IInv, Maintain
  PROVE  IInv'
PROOF
<1>1. PICK l \in Lane :
        /\ pin' = pin \/ pin' = NoLane
        /\ samples' = [samples EXCEPT ![l] = <<>>]
        /\ bypass' = [bypass EXCEPT ![l] = FALSE]
        /\ cooldown' = [cooldown EXCEPT ![l] = "infinite"]
        /\ Sent(l, "maintain")
  BY DEF Maintain, Idling, ReceiveBand, Unpin
<1>2. UNCHANGED <<streak, closed, replies>>
  BY DEF Maintain
<1>3. /\ flight' \in [Lane -> [Kind -> Nat]] /\ flight'[l]["maintain"] > 0
      /\ \A m \in Lane, k \in Kind : flight'[m][k] >= flight[m][k]
  BY <1>1, SentTypes DEF IInv, Kind
<1>4. /\ samples' \in [Lane -> Seq(RoundTrips)]
      /\ \A m \in Lane : Len(samples'[m]) <= Window
  <2>1. <<>> \in Seq(RoundTrips) /\ Len(<<>>) = 0
    OBVIOUS
  <2> QED
    BY <1>1, <2>1, Sizes DEF IInv, TypeOK
<1>5. TypeOK'
  <2>1. /\ bypass' \in [Lane -> BOOLEAN]
        /\ cooldown' \in [Lane -> {"none", "running", "infinite"}]
        /\ pin' \in Lane \union {NoLane}
    BY <1>1 DEF IInv, TypeOK
  <2>2. streak' \in [Lane -> 0..SlowSamples] /\ closed' \in BOOLEAN /\ replies' \in 0..MaxReplies
    BY <1>2 DEF IInv, TypeOK
  <2> QED
    BY <1>3, <1>4, <2>1, <2>2 DEF TypeOK
<1>6. HiddenLaneIsTriedOut'
  <2> SUFFICES ASSUME NEW m \in Lane, cooldown'[m] = "infinite"
               PROVE  flight'[m]["maintain"] > 0
    BY DEF HiddenLaneIsTriedOut
  <2>1. CASE m = l
    BY <1>3, <2>1
  <2>2. CASE m # l
    <3>1. flight[m]["maintain"] > 0
      BY <1>1, <2>2 DEF IInv, TypeOK, HiddenLaneIsTriedOut
    <3>2. flight'[m]["maintain"] >= flight[m]["maintain"]
      BY <1>3 DEF Kind
    <3>3. flight[m]["maintain"] \in Nat /\ flight'[m]["maintain"] \in Nat
      BY <1>3 DEF IInv, TypeOK, Kind
    <3> QED
      BY <3>1, <3>2, <3>3
  <2> QED
    BY <2>1, <2>2
<1> QED
  BY <1>5, <1>6 DEF IInv

(* Every step of the pool keeps it.                                         *)
LEMMA NextIInv == IInv /\ [Next]_vars => IInv'
PROOF
<1> SUFFICES ASSUME IInv, [Next]_vars PROVE IInv'
  OBVIOUS
<1>1. CASE PickSend
  <2>1. PICK l \in Lane : Reply(l) /\ (pin' = pin \/ Take(l))
    BY <1>1, PickSendSends DEF IInv
  <2>2. PICK kind \in Kind : Sent(l, kind)
    BY <2>1 DEF Reply, Kind, ReplyKind
  <2>3. pin' \in Lane \union {NoLane}
    BY <2>1 DEF Take, IInv, TypeOK
  <2>4. replies' \in 0..MaxReplies
    BY <1>1, <2>1, Sizes DEF PickSend, Reply, IInv, TypeOK
  <2>5. UNCHANGED <<evidence, cooldown, closed>>
    BY <2>1 DEF Reply
  <2> QED
    BY <2>2, <2>3, <2>4, <2>5, StartStep
<1>2. CASE Receive
  BY <1>2, BandsAreLanes, StartStep DEF Receive, Kind, routing, IInv, TypeOK
<1>3. CASE Probe
  BY <1>3, BandsAreLanes, StartStep DEF Probe, Kind, routing, IInv, TypeOK
<1>4. CASE Maintain
  BY <1>4, MaintainStep
<1>5. CASE Close
  BY <1>5 DEF Close, IInv, TypeOK, HiddenLaneIsTriedOut, evidence, routing
<1>6. ASSUME NEW l \in Lane, NEW kind \in ReplyKind, NEW rtt \in RoundTrips, ReplyEnds(l, kind, rtt)
      PROVE  IInv'
  BY <1>6, ReplyEndsStep
<1>7. ASSUME NEW l \in Lane, NEW kind \in {"receive", "probe"}, OtherEnds(l, kind)
      PROVE  IInv'
  BY <1>7, RequestEndsStep DEF Kind
<1>8. ASSUME NEW l \in Lane, MaintainEnds(l)
      PROVE  IInv'
  BY <1>8, RequestEndsStep DEF Kind
<1>9. ASSUME NEW l \in Lane, NEW kind \in Kind,
             Rejected(l, kind) \/ Broken(l, kind) \/ BrokenAfterClose(l, kind)
      PROVE  IInv'
  BY <1>9, RequestEndsStep
<1>10. ASSUME NEW l \in Lane, BypassExpires(l)
       PROVE  IInv'
  BY <1>10 DEF BypassExpires, IInv, TypeOK, HiddenLaneIsTriedOut, routing
<1>11. ASSUME NEW l \in Lane, CooldownExpires(l)
       PROVE  IInv'
  BY <1>11 DEF CooldownExpires, IInv, TypeOK, HiddenLaneIsTriedOut, evidence
<1>12. CASE UNCHANGED vars
  BY <1>12 DEF vars, IInv, TypeOK, HiddenLaneIsTriedOut, evidence, routing
<1> QED
  BY <1>1, <1>2, <1>3, <1>4, <1>5, <1>6, <1>7, <1>8, <1>9, <1>10, <1>11, <1>12 DEF Next

(* The types, and every hidden lane's first request, hold at all times.     *)
THEOREM InductiveInvariant == Spec => []IInv
PROOF
<1> QED
  BY InitIInv, NextIInv, PTL DEF Spec

(* Type correctness of the pool.                                            *)
THEOREM TypeCorrect == Spec => []TypeOK
PROOF
<1>1. IInv => TypeOK
  BY DEF IInv
<1> QED
  BY <1>1, InductiveInvariant, PTL

(* A lane that maintain hides is hidden no longer than its first request is *)
(* under way, in pools of any size.                                         *)
THEOREM HiddenLanesAreTriedOut == Spec => []HiddenLaneIsTriedOut
PROOF
<1>1. IInv => HiddenLaneIsTriedOut
  BY DEF IInv
<1> QED
  BY <1>1, InductiveInvariant, PTL

(* The step of PinKept: a fast lane that replies may use loses the pin only *)
(* when one of its own requests ends.                                       *)
LEMMA PinStep ==
  ASSUME TypeOK, [Next]_vars, NEW l \in FastPrimary, pin = l, pin' # l
  PROVE  InFlight(l)' < InFlight(l)
PROOF
<1>0. l \in Lane /\ IsFast(l) /\ l # NoLane
  BY BandsAreLanes, Sizes DEF FastPrimary
<1>1. ASSUME NEW m \in Lane, NEW kind \in Kind, Ended(m, kind), Unpin(m)
      PROVE  InFlight(l)' < InFlight(l)
  <2>1. m = l
    BY <1>1 DEF Unpin
  <2> QED
    BY <1>1, <2>1, EndedTypes
<1>2. CASE PickSend
  BY <1>2, PickSendSends DEF Take
<1>3. CASE Maintain
  BY <1>0, <1>3 DEF Maintain, Unpin
<1>4. CASE Receive \/ Probe \/ Close
  BY <1>4 DEF Receive, Probe, Close, routing
<1>5. ASSUME NEW m \in Lane, NEW kind \in ReplyKind, NEW rtt \in RoundTrips, ReplyEnds(m, kind, rtt)
      PROVE  InFlight(l)' < InFlight(l)
  BY <1>1, <1>5 DEF ReplyEnds, Kind
<1>6. ASSUME NEW m \in Lane, NEW kind \in Kind,
             Rejected(m, kind) \/ Broken(m, kind) \/ BrokenAfterClose(m, kind)
      PROVE  InFlight(l)' < InFlight(l)
  BY <1>1, <1>6 DEF Rejected, Broken, BrokenAfterClose
<1>7. ASSUME NEW m \in Lane,
             \/ \E kind \in {"receive", "probe"} : OtherEnds(m, kind)
             \/ MaintainEnds(m) \/ BypassExpires(m) \/ CooldownExpires(m)
      PROVE  InFlight(l)' < InFlight(l)
  BY <1>7 DEF OtherEnds, MaintainEnds, BypassExpires, CooldownExpires, routing
<1>8. CASE UNCHANGED vars
  BY <1>8 DEF vars, routing
<1> QED
  BY <1>2, <1>3, <1>4, <1>5, <1>6, <1>7, <1>8 DEF Next

(* No choice made for another reply takes the pin from a fast lane, in pools *)
(* of any size and with any number of requests under way.                   *)
THEOREM PinIsKept == Spec => PinKept
PROOF
<1>1. TypeOK /\ [Next]_vars =>
        [\A l \in Lane :
           (pin = l /\ pin' # l /\ l \in FastPrimary) => InFlight(l)' < InFlight(l)]_vars
  BY PinStep
<1> QED
  BY <1>1, TypeCorrect, PTL DEF Spec, PinKept
(* A request that starts adds to no other count.                            *)
LEMMA SentAlone ==
  ASSUME TypeOK, NEW m \in Lane, NEW sent \in Kind, Sent(m, sent),
         NEW l \in Lane, NEW kind \in Kind, flight'[l][kind] > flight[l][kind]
  PROVE  l = m /\ kind = sent
PROOF
<1>1. /\ flight \in [Lane -> [Kind -> Nat]]
      /\ flight' = [flight EXCEPT ![m] = [flight[m] EXCEPT ![sent] = flight[m][sent] + 1]]
  BY DEF TypeOK, Sent
<1>2. l # m => flight'[l] = flight[l]
  BY <1>1
<1>3. l = m => flight'[l] = [flight[m] EXCEPT ![sent] = flight[m][sent] + 1]
  BY <1>1
<1>4. flight[l][kind] \in Nat
  BY <1>1
<1> QED
  BY <1>1, <1>2, <1>3, <1>4

(* A lane that nothing speaks against passes both filters of the primaries. *)
LEMMA UnobjectionableIsPrimary ==
  ASSUME NEW l \in AllPrimary, Unobjectionable(l)
  PROVE  l \in Primary
PROOF
<1>1. l \in Unbypassed
  BY DEF Unbypassed, Unobjectionable
<1> QED
  BY <1>1 DEF Primary, Unobjectionable

(* The lane #pickSend settles on is busy, or a spare, only for want of a     *)
(* better one.                                                              *)
LEMMA PickSendBands ==
  ASSUME TypeOK, PickSend
  PROVE  \E l \in Lane :
           /\ \E kind \in ReplyKind : Sent(l, kind)
           /\ InFlight(l) > 0 =>
                \A m \in Pool(ReplyBand) : Unobjectionable(m) => InFlight(m) > 0
           /\ l \in Spare =>
                \A m \in AllPrimary : Unobjectionable(m) => InFlight(m) > 0
PROOF
<1> DEFINE Good(l) ==
      /\ InFlight(l) > 0 => \A m \in Pool(ReplyBand) : Unobjectionable(m) => InFlight(m) > 0
      /\ l \in Spare => \A m \in AllPrimary : Unobjectionable(m) => InFlight(m) > 0
<1>1. Primary \subseteq AllPrimary /\ Primary \intersect Spare = {}
  BY DEF Primary, Unbypassed, Spare
<1>2. \A m \in Lane : InFlight(m) \in Nat
  <2>1. \A m \in Lane, k \in Kind : flight[m][k] \in Nat
    BY DEF TypeOK
  <2> QED
    BY <2>1 DEF InFlight, Kind, ReplyKind
<1>3. ASSUME NEW l \in Primary, InFlight(l) = 0
      PROVE  Good(l)
  BY <1>1, <1>3
<1>4. ASSUME Idling(Primary) = {}, NEW m \in AllPrimary, Unobjectionable(m)
      PROVE  InFlight(m) > 0
  <2>1. m \in Primary
    BY <1>4, UnobjectionableIsPrimary
  <2>2. InFlight(m) # 0
    BY <1>4, <2>1 DEF Idling
  <2> QED
    BY <1>2, <2>1, <2>2, BandsAreLanes
<1>5. ASSUME NEW l \in Lane, Reply(l), Good(l)
      PROVE  \E m \in Lane : (\E kind \in ReplyKind : Sent(m, kind)) /\ Good(m)
  BY <1>5 DEF Reply, ReplyKind
<1>6. CASE ReplyOnPin
  <2>1. pin \in Primary /\ InFlight(pin) = 0 /\ Reply(pin)
    BY <1>6 DEF ReplyOnPin, Idling, FastPrimary
  <2> QED
    BY <1>3, <1>5, <2>1, BandsAreLanes
<1>7. CASE ReplyOnFast
  <2>1. PICK l \in Primary : InFlight(l) = 0 /\ Reply(l)
    BY <1>7 DEF ReplyOnFast, BestSend, Idling, FastPrimary
  <2> QED
    BY <1>3, <1>5, <2>1, BandsAreLanes
<1>8. CASE ReplyOnSpare
  <2>1. PICK l \in Spare : InFlight(l) = 0 /\ Reply(l)
    BY <1>8 DEF ReplyOnSpare, BestKnown, BestSend, TimedOf, Idling
  <2>2. Good(l)
    BY <1>4, <1>8, <2>1 DEF ReplyOnSpare
  <2> QED
    BY <1>5, <2>1, <2>2, BandsAreLanes
<1>9. CASE ReplyOnMeasured
  <2>1. PICK l \in Primary : InFlight(l) = 0 /\ Reply(l)
    BY <1>9 DEF ReplyOnMeasured, BestSend, TimedOf, Idling
  <2> QED
    BY <1>3, <1>5, <2>1, BandsAreLanes
<1>10. CASE ReplyOnUntried
  <2>1. PICK l \in Primary : InFlight(l) = 0 /\ Reply(l)
    BY <1>10 DEF ReplyOnUntried, Idling
  <2> QED
    BY <1>3, <1>5, <2>1, BandsAreLanes
<1>11. CASE ReplyOnBusy
  <2>1. PICK l \in Primary : Reply(l)
    BY <1>11 DEF ReplyOnBusy, BestKnown, BestSend, TimedOf
  <2>2. ASSUME NEW m \in Pool(ReplyBand), Unobjectionable(m)
        PROVE  InFlight(m) > 0
    <3>1. CASE m \in AllPrimary
      BY <1>4, <1>11, <2>2, <3>1 DEF ReplyOnBusy
    <3>2. CASE m \notin AllPrimary
      <4>1. m \in Spare
        BY <3>2 DEF Spare
      <4>2. InFlight(m) # 0
        BY <1>11, <4>1 DEF ReplyOnBusy, Idling
      <4> QED
        BY <1>2, <4>1, <4>2, BandsAreLanes
    <3> QED
      BY <3>1, <3>2
  <2>3. Good(l)
    BY <1>1, <2>2
  <2> QED
    BY <1>5, <2>1, <2>3, BandsAreLanes
<1> QED
  BY <1>6, <1>7, <1>8, <1>9, <1>10, <1>11 DEF PickSend

(* The lanes that receive are borrowed from the replies only when none of   *)
(* their own is usable.                                                     *)
LEMMA ReceiveBands ==
  ASSUME NEW l \in UnderCap, l \notin ReceiveBand
  PROVE  Usable \intersect ReceiveBand = {}
PROOF
<1>1. l \in Pool(ReceiveBand)
  BY DEF UnderCap
<1>2. Routable \intersect ReceiveBand = {}
  BY <1>1 DEF Pool
<1> QED
  BY <1>2 DEF Routable

(* A request starts in the choice of a reply, a receive, a probe or a        *)
(* maintain, and is then of that kind.                                      *)
LEMMA StartedBy ==
  ASSUME TypeOK, [Next]_vars, NEW l \in Lane, NEW kind \in ReplyKind \union {"receive"},
         flight'[l][kind] > flight[l][kind]
  PROVE  (kind \in ReplyKind /\ PickSend) \/ (kind = "receive" /\ Receive)
PROOF
<1>1. kind \in Kind /\ flight[l][kind] \in Nat
  BY DEF Kind, TypeOK
<1>2. ASSUME NEW m \in Lane, NEW sent \in Kind, Sent(m, sent)
      PROVE  kind = sent
  BY <1>1, <1>2, SentAlone
<1>3. ASSUME NEW m \in Lane, NEW ended \in Kind, Ended(m, ended)
      PROVE  FALSE
  <2>1. flight \in [Lane -> [Kind -> Nat]]
        /\ flight' = [flight EXCEPT ![m] = [flight[m] EXCEPT ![ended] = flight[m][ended] - 1]]
    BY <1>3 DEF TypeOK, Ended
  <2>2. flight'[l][kind] = flight[l][kind] \/ flight'[l][kind] = flight[l][kind] - 1
    BY <1>1, <2>1
  <2> QED
    BY <1>1, <2>2
<1>4. CASE PickSend
  <2>1. PICK m \in Lane, sent \in ReplyKind : Sent(m, sent)
    BY <1>4, PickSendBands
  <2> QED
    BY <1>2, <1>4, <2>1 DEF Kind
<1>5. CASE Receive
  BY <1>2, <1>5, BandsAreLanes DEF Receive, Kind
<1>6. CASE Probe \/ Maintain
  <2>1. \E m \in Lane : Sent(m, "probe") \/ Sent(m, "maintain")
    BY <1>6, BandsAreLanes DEF Probe, Maintain, Idling, ReceiveBand
  <2> QED
    BY <1>2, <2>1 DEF Kind, ReplyKind
<1>7. ASSUME NEW m \in Lane, NEW ended \in ReplyKind, NEW rtt \in RoundTrips,
             ReplyEnds(m, ended, rtt)
      PROVE  FALSE
  BY <1>3, <1>7 DEF ReplyEnds, Kind
<1>8. ASSUME NEW m \in Lane, NEW ended \in Kind,
             \/ OtherEnds(m, ended) \/ Rejected(m, ended)
             \/ Broken(m, ended) \/ BrokenAfterClose(m, ended)
      PROVE  FALSE
  BY <1>3, <1>8 DEF OtherEnds, Rejected, Broken, BrokenAfterClose
<1>9. ASSUME NEW m \in Lane, MaintainEnds(m)
      PROVE  FALSE
  BY <1>3, <1>9 DEF MaintainEnds, Kind
<1>10. CASE \/ Close \/ UNCHANGED vars
            \/ \E m \in Lane : BypassExpires(m) \/ CooldownExpires(m)
  <2>1. flight' = flight
    BY <1>10 DEF Close, vars, BypassExpires, CooldownExpires
  <2> QED
    BY <1>1, <2>1
<1>11. {"receive", "probe"} \subseteq Kind
  BY DEF Kind
<1> QED
  BY <1>4, <1>5, <1>6, <1>7, <1>8, <1>9, <1>10, <1>11 DEF Next

LEMMA BandStep ==
  ASSUME TypeOK, [Next]_vars, NEW l \in Lane
  PROVE  QueuesLast(l) /\ ReceiveKeepsOff(l)
PROOF
<1>1. QueuesLast(l)
  <2> SUFFICES ASSUME NEW kind \in ReplyKind, flight'[l][kind] > flight[l][kind]
               PROVE  /\ InFlight(l) > 0 =>
                           \A m \in Pool(ReplyBand) : Unobjectionable(m) => InFlight(m) > 0
                      /\ l \in Spare =>
                           \A m \in AllPrimary : Unobjectionable(m) => InFlight(m) > 0
    BY DEF QueuesLast, Starts
  <2>1. PickSend
    BY StartedBy DEF ReplyKind
  <2>2. PICK m \in Lane :
          /\ \E sent \in ReplyKind : Sent(m, sent)
          /\ InFlight(m) > 0 =>
               \A n \in Pool(ReplyBand) : Unobjectionable(n) => InFlight(n) > 0
          /\ m \in Spare =>
               \A n \in AllPrimary : Unobjectionable(n) => InFlight(n) > 0
    BY <2>1, PickSendBands
  <2>3. l = m
    BY <2>2, SentAlone DEF Kind
  <2> QED
    BY <2>2, <2>3
<1>2. ReceiveKeepsOff(l)
  <2> SUFFICES ASSUME flight'[l]["receive"] > flight[l]["receive"], l \notin ReceiveBand
               PROVE  Usable \intersect ReceiveBand = {}
    BY DEF ReceiveKeepsOff, Starts
  <2>1. Receive
    BY StartedBy DEF ReplyKind
  <2>2. PICK m \in UnderCap : Sent(m, "receive")
    BY <2>1 DEF Receive
  <2>3. l = m
    BY <2>2, BandsAreLanes, SentAlone DEF Kind
  <2> QED
    BY <2>2, <2>3, ReceiveBands
<1> QED
  BY <1>1, <1>2

(* Overload of one side is not paid by the other, in pools of any size and  *)
(* with any load: a reply queues behind another request, or takes a spare   *)
(* while a primary lane is usable, only when every lane that nothing speaks *)
(* against is busy, and receive traffic keeps off the reply lanes as long   *)
(* as one of its own is in use at all.                                      *)
THEOREM OverloadIsKeptApart == Spec => OverloadKeepsBands
PROOF
<1>1. TypeOK /\ [Next]_vars => [\A l \in Lane : QueuesLast(l) /\ ReceiveKeepsOff(l)]_vars
  BY BandStep
<1> QED
  BY <1>1, TypeCorrect, PTL DEF Spec, OverloadKeepsBands
================================================================================
