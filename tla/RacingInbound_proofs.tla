------------------------ MODULE RacingInbound_proofs ------------------------
(***************************************************************************)
(* The racer's accounting, for any number of rooms, polls and overlapping   *)
(* setRooms calls: as long as setRooms is not called before start has       *)
(* resolved, #liveChildren is exact, and so the output stays open while the *)
(* push stream lives and every accepted message reaches the worker.  With   *)
(* one switch at a time the polls keep to the budget at each of its steps.  *)
(***************************************************************************)
EXTENDS RacingInbound, FiniteSetTheorems, TLAPS

(* What each phase knows about the pumps.                                   *)
NotRunning ==
  phase # "running" =>
    /\ \A c \in Child : pumps[c] = 0
    /\ \A k \in Callers : ~call[k].busy

BeforeStart ==
  phase = "idle" =>
    /\ outOpen /\ ~aborted
    /\ \A c \in Child : life[c] # "live"

(* A call that is adding a poll is the only one to add it, and nobody reads *)
(* the poll yet.                                                            *)
AddingAlone ==
  \A k \in Callers : call[k].adding # NoPoll =>
    /\ call[k].busy
    /\ pumps[call[k].adding] = 0
    /\ \A l \in Callers : call[l].adding = call[k].adding => l = k

PushIsRead ==
  /\ Push \in children
  /\ phase = "running" /\ life[Push] = "live" => pumps[Push] > 0

IInv ==
  /\ TypeOK
  /\ NotRunning
  /\ BeforeStart
  /\ AddingAlone
  /\ PushIsRead
  /\ LiveCountExact
  /\ OutputOpenWhilePushLives

------------------------------------------------------------------------------
(* Every set of children, and of calls, is finite.                          *)
LEMMA FiniteChild ==
  /\ \A S \in SUBSET Child : IsFiniteSet(S) /\ Cardinality(S) \in Nat
  /\ \A S \in SUBSET Callers : IsFiniteSet(S) /\ Cardinality(S) \in Nat
PROOF
<1>1. IsFiniteSet(Child)
  BY RacingAssumption, FS_AddElement DEF Child, RacingAssumption
<1>2. \A S \in SUBSET Child : IsFiniteSet(S) /\ Cardinality(S) \in Nat
  BY <1>1, FS_Subset, FS_CardinalityType
<1>3. \A S \in SUBSET Callers : IsFiniteSet(S) /\ Cardinality(S) \in Nat
  BY RacingAssumption, FS_Subset, FS_CardinalityType DEF RacingAssumption
<1> QED
  BY <1>2, <1>3

(* A fresh poll object is one that no set of the adapter mentions.          *)
LEMMA FreshPoll ==
  ASSUME Fresh # {}
  PROVE  LET p == CHOOSE p \in Fresh : TRUE IN
           /\ p \in PollIds /\ p \in Child /\ p # Push /\ p # NoPoll
           /\ p \notin children /\ pumps[p] = 0
           /\ \A k \in Callers : call[k].adding # p
PROOF
<1>1. (CHOOSE p \in Fresh : TRUE) \in Fresh
  OBVIOUS
<1> QED
  BY <1>1, RacingAssumption DEF Fresh, Child, RacingAssumption

LEMMA InitIInv == Init => IInv
PROOF
<1> SUFFICES ASSUME Init
             PROVE  IInv
  OBVIOUS
<1>1. TypeOK
  <2>1. PICK initial \in Sliced(InitialRooms) :
          \E make \in [initial -> PollIds] :
            /\ polls = [r \in Rooms |-> IF r \in initial THEN make[r] ELSE NoPoll]
            /\ children = {Push} \union {make[r] : r \in initial}
            /\ pollRoom \in [PollIds -> Rooms]
    BY DEF Init
  <2>2. PICK make \in [initial -> PollIds] :
            /\ polls = [r \in Rooms |-> IF r \in initial THEN make[r] ELSE NoPoll]
            /\ children = {Push} \union {make[r] : r \in initial}
            /\ pollRoom \in [PollIds -> Rooms]
    BY <2>1
  <2>3. polls \in [Rooms -> PollIds \union {NoPoll}] /\ children \in SUBSET Child
    BY <2>2 DEF Child
  <2>4. call \in [Callers -> CallType]
    BY DEF Init, Idle, CallType
  <2>5. /\ life \in [Child -> {"none", "made", "live", "ended"}]
        /\ children \in SUBSET Child
        /\ pumps \in [Child -> Nat] /\ handled \in [Msgs -> Nat]
    BY <2>3 DEF Init
  <2>6. /\ phase \in {"idle", "starting", "running"}
        /\ worker \in {"idle", "serving", "ended"}
        /\ outOpen \in BOOLEAN /\ aborted \in BOOLEAN /\ stopped \in BOOLEAN
        /\ seenIds \in SUBSET Msgs
    BY Zenon DEF Init
  <2>7. liveChildren \in Int /\ pollRoom \in [PollIds -> Rooms]
    BY <2>2 DEF Init
  <2> QED
    BY <2>3, <2>4, <2>5, <2>6, <2>7 DEF TypeOK
<1>2. NotRunning /\ BeforeStart /\ AddingAlone
  BY DEF Init, NotRunning, BeforeStart, AddingAlone, Idle
<1>3. PushIsRead
  BY DEF Init, PushIsRead
<1>4. LiveCountExact
  BY DEF Init, LiveCountExact
<1>5. OutputOpenWhilePushLives
  BY DEF Init, OutputOpenWhilePushLives
<1> QED
  BY <1>1, <1>2, <1>3, <1>4, <1>5 DEF IInv

------------------------------------------------------------------------------
LEMMA TypeStep ==
  ASSUME TypeOK, [Next]_vars
  PROVE  TypeOK'
PROOF
<1> USE DEF TypeOK
<1>1. CASE Start
  BY <1>1, FiniteChild DEF Start, roomVars, msgVars
<1>2. CASE StartResolves
  BY <1>2 DEF StartResolves, roomVars, workerVars, msgVars
<1>3. ASSUME NEW c \in Child, PumpEnds(c)
      PROVE  TypeOK'
  BY <1>3 DEF PumpEnds, roomVars, workerVars, msgVars
<1>4. ASSUME NEW k \in Callers, SetRooms(k)
      PROVE  TypeOK'
  <2>1. call' \in [Callers -> CallType]
    <3>1. PICK rooms \in SUBSET Rooms : \E next \in Sliced(rooms) :
            call' = [call EXCEPT ![k] =
              [busy |-> TRUE, want |-> next, remove |-> Polled \ next,
               add |-> next \ Polled, adding |-> NoPoll]]
      BY <1>4 DEF SetRooms
    <3>2. PICK next \in SUBSET Rooms :
            call' = [call EXCEPT ![k] =
              [busy |-> TRUE, want |-> next, remove |-> Polled \ next,
               add |-> next \ Polled, adding |-> NoPoll]]
      BY <3>1 DEF Sliced
    <3> QED
      BY <3>2 DEF CallType, Polled
  <2> QED
    BY <1>4, <2>1 DEF SetRooms, racerVars, workerVars, msgVars
<1>5. ASSUME NEW k \in Callers, NEW r \in Rooms, RemoveRoom(k, r)
      PROVE  TypeOK'
  <2>1. call' \in [Callers -> CallType]
    BY <1>5 DEF RemoveRoom, CallType
  <2>2. life' \in [Child -> {"none", "made", "live", "ended"}]
    BY <1>5 DEF RemoveRoom, StopAll
  <2>3. pollRoom' \in [PollIds -> Rooms]
    BY <1>5 DEF RemoveRoom, AnyRoom
  <2> QED
    BY <1>5, <2>1, <2>2, <2>3 DEF RemoveRoom, workerVars, msgVars
<1>6. ASSUME NEW k \in Callers, NEW r \in Rooms, AddRoom(k, r)
      PROVE  TypeOK'
  <2> DEFINE p == CHOOSE p \in Fresh : TRUE
  <2>1. p \in PollIds /\ p \in Child
    BY <1>6, FreshPoll DEF AddRoom
  <2> HIDE DEF p
  <2>2. call' = [call EXCEPT ![k].add = @ \ {r}, ![k].adding = p]
    BY <1>6 DEF AddRoom, p
  <2>3. call' \in [Callers -> CallType]
    <3>1. [call[k] EXCEPT !.add = @ \ {r}, !.adding = p] \in CallType
      BY <2>1 DEF CallType
    <3>2. call' = [call EXCEPT ![k] = [call[k] EXCEPT !.add = @ \ {r}, !.adding = p]]
      BY <2>2 DEF CallType
    <3> QED
      BY <3>1, <3>2
  <2>4. /\ polls' = [polls EXCEPT ![r] = p]
        /\ pollRoom' = [pollRoom EXCEPT ![p] = r]
        /\ children' = children \union {p}
        /\ life' = [life EXCEPT ![p] = "live"]
    BY <1>6 DEF AddRoom, p
  <2>5. /\ liveChildren' = liveChildren + 1
        /\ UNCHANGED <<phase, pumps, outOpen, workerVars, msgVars>>
    BY <1>6 DEF AddRoom
  <2> QED
    BY <2>1, <2>3, <2>4, <2>5 DEF workerVars, msgVars
<1>7. ASSUME NEW k \in Callers, PumpAdded(k)
      PROVE  TypeOK'
  <2>1. call' \in [Callers -> CallType]
    BY <1>7 DEF PumpAdded, CallType
  <2>2. call[k].adding \in Child
    BY <1>7 DEF PumpAdded, CallType, Child
  <2>3. pumps' \in [Child -> Nat]
    BY <1>7, <2>2 DEF PumpAdded
  <2> QED
    BY <1>7, <2>1, <2>3 DEF PumpAdded, workerVars, msgVars
<1>8. ASSUME NEW k \in Callers, SetRoomsReturns(k)
      PROVE  TypeOK'
  <2>1. call' \in [Callers -> CallType]
    BY <1>8 DEF SetRoomsReturns, CallType, Idle
  <2> QED
    BY <1>8, <2>1 DEF SetRoomsReturns, racerVars, workerVars, msgVars
<1>9. ASSUME NEW c \in Child, NEW m \in Msgs, Offer(c, m)
      PROVE  TypeOK'
  BY <1>9 DEF Offer, racerVars, roomVars, workerVars
<1>10. CASE Abort
  BY <1>10 DEF Abort, StopAll, roomVars, msgVars
<1>11. CASE StopAdapter
  BY <1>11 DEF StopAdapter, StopAll, roomVars, msgVars
<1>12. CASE WorkerEnds
  BY <1>12 DEF WorkerEnds, racerVars, roomVars, msgVars
<1>13. CASE UNCHANGED vars
  BY <1>13 DEF vars, racerVars, roomVars, workerVars, msgVars
<1> QED
  BY <1>1, <1>2, <1>3, <1>4, <1>5, <1>6, <1>7, <1>8, <1>9, <1>10, <1>11, <1>12, <1>13
  DEF Next

------------------------------------------------------------------------------
(* A call in progress is one of a racer that runs.                          *)
LEMMA BusyRuns ==
  ASSUME IInv, NEW k \in Callers, call[k].busy
  PROVE  phase = "running"
BY DEF IInv, TypeOK, NotRunning

(* The parts of IInv that only depend on what such a step leaves alone.     *)
LEMMA Frame ==
  ASSUME IInv, TypeOK',
         UNCHANGED <<phase, children, pumps, liveChildren, call>>,
         phase = "idle" => outOpen' /\ ~aborted',
         \A c \in Child : life'[c] = "live" => life[c] = "live",
         OutputOpenWhilePushLives'
  PROVE  IInv'
PROOF
<1>1. NotRunning' /\ AddingAlone'
  BY DEF IInv, NotRunning, AddingAlone
<1>2. Push \in Child
  BY DEF Child
<1>3. BeforeStart' /\ PushIsRead'
  BY <1>2 DEF IInv, BeforeStart, PushIsRead
<1>4. LiveCountExact'
  BY DEF IInv, LiveCountExact, Pumping, Adding
<1> QED
  BY <1>1, <1>3, <1>4 DEF IInv

LEMMA StartStep ==
  ASSUME IInv, TypeOK', Start
  PROVE  IInv'
PROOF
<1>1. NotRunning' /\ AddingAlone' /\ BeforeStart' /\ PushIsRead'
  BY DEF Start, roomVars, IInv, NotRunning, AddingAlone, BeforeStart, PushIsRead
<1>2. LiveCountExact'
  BY DEF Start, IInv, LiveCountExact
<1>3. OutputOpenWhilePushLives'
  BY DEF Start, IInv, BeforeStart, OutputOpenWhilePushLives
<1> QED
  BY <1>1, <1>2, <1>3 DEF IInv

LEMMA StartResolvesStep ==
  ASSUME IInv, TypeOK', StartResolves
  PROVE  IInv'
PROOF
<1> USE DEF IInv
<1>1. \A c \in Child : pumps'[c] = IF c \in children THEN 1 ELSE 0
  BY DEF StartResolves, NotRunning, TypeOK
<1>2. \A k \in Callers : call'[k].adding = NoPoll /\ call' = call
  BY DEF StartResolves, roomVars, NotRunning, AddingAlone
<1>3. NotRunning' /\ BeforeStart' /\ AddingAlone'
  BY <1>2 DEF StartResolves, NotRunning, BeforeStart, AddingAlone
<1>4. PushIsRead'
  BY <1>1 DEF StartResolves, PushIsRead, Child
<1>5. LiveCountExact'
  <2>1. Pumping' = children /\ Adding' = {}
    BY <1>1, <1>2 DEF Pumping, Adding, TypeOK
  <2>2. liveChildren' = Cardinality(children) /\ phase' = "running"
    BY DEF StartResolves, LiveCountExact
  <2>3. Cardinality(children) \in Nat
    BY FiniteChild DEF TypeOK
  <2>4. liveChildren' = Cardinality(Pumping') + Cardinality(Adding')
    BY <2>1, <2>2, <2>3, FS_EmptySet
  <2> QED
    BY <1>1, <2>2, <2>4 DEF LiveCountExact, Pumping, Adding
<1>6. OutputOpenWhilePushLives'
  BY DEF StartResolves, workerVars, OutputOpenWhilePushLives
<1> QED
  BY <1>3, <1>4, <1>5, <1>6

(* The pump that ends is not the push stream's if that is alive; the output *)
(* is then kept open by the push stream's own pump.                         *)
LEMMA PumpEndsStep ==
  ASSUME IInv, TypeOK', NEW c \in Child, PumpEnds(c)
  PROVE  IInv'
PROOF
<1> USE DEF IInv
<1>1. phase = "running" /\ phase' = "running" /\ pumps[c] = 1
  <2>1. phase = "running"
    BY DEF PumpEnds, NotRunning, TypeOK
  <2> QED
    BY <2>1 DEF PumpEnds, LiveCountExact, TypeOK
<1>2. call' = call /\ children' = children /\ life' = life
  BY DEF PumpEnds, roomVars
<1>3. pumps' = [pumps EXCEPT ![c] = 0]
  BY <1>1 DEF PumpEnds, TypeOK
<1>4. NotRunning' /\ BeforeStart'
  BY <1>1 DEF NotRunning, BeforeStart
<1>5. AddingAlone'
  BY <1>2, <1>3 DEF AddingAlone, TypeOK, CallType, Child
<1>6. PushIsRead'
  BY <1>1, <1>2, <1>3 DEF PumpEnds, PushIsRead, TypeOK, Child
<1>7. Pumping' = Pumping \ {c} /\ c \in Pumping /\ Adding' = Adding
  BY <1>1, <1>2, <1>3 DEF Pumping, Adding, TypeOK
<1>8. /\ IsFiniteSet(Pumping) /\ Cardinality(Pumping) \in Nat
      /\ Cardinality(Adding) \in Nat
  BY FiniteChild DEF Pumping, Adding
<1>9. LiveCountExact'
  <2>1. Cardinality(Pumping') = Cardinality(Pumping) - 1
    BY <1>7, <1>8, FS_RemoveElement
  <2>2. liveChildren' = Cardinality(Pumping') + Cardinality(Adding')
    BY <1>1, <1>7, <1>8, <2>1 DEF PumpEnds, LiveCountExact
  <2>3. \A d \in Child : pumps'[d] <= 1
    BY <1>3 DEF LiveCountExact, TypeOK
  <2> QED
    BY <1>1, <2>2, <2>3 DEF LiveCountExact
<1>10. OutputOpenWhilePushLives'
  <2>1. SUFFICES ASSUME life[Push] = "live", ~stopped
                 PROVE  outOpen'
    BY <1>2 DEF PumpEnds, workerVars, OutputOpenWhilePushLives
  <2>2. Push \in Pumping \ {c}
    BY <1>1, <2>1 DEF PumpEnds, PushIsRead, Pumping, Child
  <2>3. Cardinality(Pumping') \in Nat /\ Cardinality(Pumping') # 0
    <3>1. IsFiniteSet(Pumping') /\ Cardinality(Pumping') \in Nat
      BY <1>7, <1>8, FS_RemoveElement, FS_CardinalityType
    <3> QED
      BY <1>7, <2>2, <3>1, FS_EmptySet
  <2>4. liveChildren' > 0
    <3>1. liveChildren' = Cardinality(Pumping') + Cardinality(Adding')
      BY <1>1, <1>9 DEF LiveCountExact
    <3>2. Cardinality(Adding') \in Nat
      BY <1>7, <1>8
    <3> QED
      BY <2>3, <3>1, <3>2
  <2>5. outOpen
    BY <2>1 DEF OutputOpenWhilePushLives
  <2>6. outOpen' = (outOpen /\ liveChildren' > 0)
    BY DEF PumpEnds
  <2> QED
    BY Zenon, <2>4, <2>5, <2>6
<1> QED
  BY <1>4, <1>5, <1>6, <1>9, <1>10

(* A call that starts only fills in its own plan.                           *)
LEMMA SetRoomsStep ==
  ASSUME IInv, TypeOK', NEW k \in Callers, SetRooms(k), ~AdmitDuringStart
  PROVE  IInv'
PROOF
<1> USE DEF IInv
<1>1. phase = "running"
  BY DEF SetRooms, CallAdmitted
<1>2. UNCHANGED <<phase, children, life, pumps, liveChildren, outOpen, stopped>>
  BY DEF SetRooms, racerVars, workerVars
<1>3. /\ call'[k].busy /\ call'[k].adding = NoPoll
      /\ \A l \in Callers \ {k} : call'[l] = call[l]
  <2>1. PICK rooms \in SUBSET Rooms : \E next \in Sliced(rooms) :
          call' = [call EXCEPT ![k] =
            [busy |-> TRUE, want |-> next, remove |-> Polled \ next,
             add |-> next \ Polled, adding |-> NoPoll]]
    BY DEF SetRooms
  <2>2. PICK next \in Sliced(rooms) :
          call' = [call EXCEPT ![k] =
            [busy |-> TRUE, want |-> next, remove |-> Polled \ next,
             add |-> next \ Polled, adding |-> NoPoll]]
    BY <2>1
  <2> QED
    BY <2>2 DEF TypeOK
<1>4. \A l \in Callers : call'[l].adding = call[l].adding
  BY <1>3 DEF SetRooms, AddingAlone
<1>5. NotRunning' /\ BeforeStart' /\ PushIsRead'
  BY <1>1, <1>2 DEF NotRunning, BeforeStart, PushIsRead
<1>6. AddingAlone'
  BY <1>2, <1>3, <1>4 DEF AddingAlone
<1>7. LiveCountExact'
  BY <1>2, <1>4 DEF LiveCountExact, Pumping, Adding
<1>8. OutputOpenWhilePushLives'
  BY <1>2 DEF OutputOpenWhilePushLives
<1> QED
  BY <1>5, <1>6, <1>7, <1>8

LEMMA RemoveRoomStep ==
  ASSUME IInv, TypeOK', NEW k \in Callers, NEW r \in Rooms, RemoveRoom(k, r)
  PROVE  IInv'
PROOF
<1> USE DEF IInv
<1>1. phase = "running"
  BY BusyRuns DEF RemoveRoom
<1>2. UNCHANGED <<phase, pumps, liveChildren, outOpen, stopped>>
  BY DEF RemoveRoom, workerVars
<1>3. polls[r] # Push
  BY RacingAssumption DEF RacingAssumption, TypeOK
<1>4. /\ \A l \in Callers : call'[l].adding = call[l].adding /\ call'[l].busy = call[l].busy
      /\ \A c \in Child : life'[c] = "live" => life[c] = "live"
  BY DEF RemoveRoom, TypeOK, CallType, StopAll
<1>5. Push \in children' /\ Push \in Child
  BY <1>3 DEF RemoveRoom, PushIsRead, Child
<1>6. NotRunning' /\ BeforeStart' /\ PushIsRead'
  BY <1>1, <1>2, <1>4, <1>5 DEF NotRunning, BeforeStart, PushIsRead
<1>7. AddingAlone'
  BY <1>2, <1>4 DEF AddingAlone
<1>8. LiveCountExact'
  BY <1>1, <1>2, <1>4 DEF LiveCountExact, Pumping, Adding
<1>9. OutputOpenWhilePushLives'
  BY <1>2, <1>4, <1>5 DEF OutputOpenWhilePushLives
<1> QED
  BY <1>6, <1>7, <1>8, <1>9

(* The new child is counted at once: its pump starts after the await.       *)
LEMMA AddRoomStep ==
  ASSUME IInv, TypeOK', NEW k \in Callers, NEW r \in Rooms, AddRoom(k, r)
  PROVE  IInv'
PROOF
<1> USE DEF IInv
<1> DEFINE p == CHOOSE p \in Fresh : TRUE
<1>1. phase = "running"
  BY BusyRuns DEF AddRoom
<1>2. /\ p \in PollIds /\ p # Push /\ p # NoPoll /\ p \in Child
      /\ p \notin children /\ pumps[p] = 0
      /\ \A l \in Callers : call[l].adding # p
  BY FreshPoll DEF AddRoom
<1>3. /\ call' = [call EXCEPT ![k].add = @ \ {r}, ![k].adding = p]
      /\ children' = children \union {p}
      /\ life' = [life EXCEPT ![p] = "live"]
  BY DEF AddRoom
<1> HIDE DEF p
<1>4. UNCHANGED <<phase, pumps, outOpen, stopped>> /\ liveChildren' = liveChildren + 1
  BY DEF AddRoom, workerVars
<1>5. /\ call'[k].adding = p /\ call'[k].busy = call[k].busy
      /\ \A l \in Callers \ {k} : call'[l] = call[l]
  BY <1>3 DEF TypeOK, CallType
<1>6. call[k].busy /\ call[k].adding = NoPoll
  BY DEF AddRoom
<1>7. NotRunning' /\ BeforeStart'
  BY <1>1, <1>4 DEF NotRunning, BeforeStart
<1>8. PushIsRead'
  BY <1>2, <1>3, <1>4 DEF PushIsRead, TypeOK, Child
<1>9. AddingAlone'
  <2>1. SUFFICES ASSUME NEW l \in Callers, call'[l].adding # NoPoll
                 PROVE  /\ call'[l].busy
                        /\ pumps[call'[l].adding] = 0
                        /\ \A j \in Callers : call'[j].adding = call'[l].adding => j = l
    BY <1>4 DEF AddingAlone
  <2>2. CASE l = k
    BY <1>2, <1>5, <1>6, <2>2
  <2>3. CASE l # k
    <3>1. call'[l] = call[l] /\ call'[l].adding # p
      BY <1>2, <1>5, <2>3
    <3> QED
      BY <1>5, <2>1, <3>1 DEF AddingAlone
  <2> QED
    BY <2>2, <2>3
<1>10. LiveCountExact'
  <2>1. Adding' = Adding \union {k} /\ k \notin Adding
    BY <1>2, <1>5, <1>6 DEF Adding
  <2>2. IsFiniteSet(Adding) /\ Cardinality(Adding) \in Nat
    BY FiniteChild DEF Adding
  <2>3. Cardinality(Adding') = Cardinality(Adding) + 1
    BY <2>1, <2>2, FS_AddElement
  <2>4. Pumping' = Pumping /\ Cardinality(Pumping) \in Nat
    BY <1>4, FiniteChild DEF Pumping
  <2> QED
    BY <1>1, <1>4, <2>2, <2>3, <2>4 DEF LiveCountExact, TypeOK
<1>11. OutputOpenWhilePushLives'
  BY <1>2, <1>3, <1>4 DEF OutputOpenWhilePushLives, TypeOK, Child
<1> QED
  BY <1>7, <1>8, <1>9, <1>10, <1>11

(* The poll that was being added is now being pumped: one count moves from  *)
(* one set to the other.                                                    *)
LEMMA PumpAddedStep ==
  ASSUME IInv, TypeOK', NEW k \in Callers, PumpAdded(k)
  PROVE  IInv'
PROOF
<1> USE DEF IInv
<1> DEFINE p == call[k].adding
<1>1. p # NoPoll /\ call[k].busy /\ p \in PollIds /\ p \in Child /\ pumps[p] = 0
  BY DEF PumpAdded, AddingAlone, TypeOK, CallType, Child
<1>2. pumps' = [pumps EXCEPT ![p] = 1]
  BY <1>1 DEF PumpAdded
<1>3. UNCHANGED <<phase, children, life, liveChildren, outOpen, stopped>>
  BY DEF PumpAdded, workerVars
<1>4. phase = "running"
  BY <1>1, BusyRuns
<1>5. /\ call'[k].adding = NoPoll
      /\ \A l \in Callers \ {k} : call'[l] = call[l]
  BY DEF PumpAdded, TypeOK, CallType
<1>6. \A l \in Callers \ {k} : call[l].adding # p
  BY <1>1 DEF AddingAlone
<1> HIDE DEF p
<1>7. NotRunning' /\ BeforeStart'
  BY <1>3, <1>4 DEF NotRunning, BeforeStart
<1>8. PushIsRead'
  BY <1>1, <1>2, <1>3, <1>4 DEF PushIsRead, TypeOK, Child
<1>9. AddingAlone'
  <2>1. SUFFICES ASSUME NEW l \in Callers, call'[l].adding # NoPoll
                 PROVE  /\ call'[l].busy
                        /\ pumps'[call'[l].adding] = 0
                        /\ \A j \in Callers : call'[j].adding = call'[l].adding => j = l
    BY DEF AddingAlone
  <2>2. l # k /\ call'[l] = call[l] /\ call[l].adding # p
    BY <1>5, <1>6, <2>1
  <2>3. pumps[call[l].adding] = 0 /\ call[l].adding \in Child
    BY <2>1, <2>2 DEF AddingAlone, TypeOK, CallType, Child
  <2>4. pumps'[call'[l].adding] = 0
    BY <1>2, <2>2, <2>3 DEF TypeOK
  <2> QED
    BY <1>5, <2>1, <2>2, <2>4 DEF AddingAlone
<1>10. LiveCountExact'
  <2>1. Adding' = Adding \ {k} /\ k \in Adding
    BY <1>1, <1>5 DEF Adding, p
  <2>2. Pumping' = Pumping \union {p} /\ p \notin Pumping
    BY <1>1, <1>2 DEF Pumping, TypeOK
  <2>3. /\ IsFiniteSet(Adding) /\ Cardinality(Adding) \in Nat
        /\ IsFiniteSet(Pumping) /\ Cardinality(Pumping) \in Nat
    BY FiniteChild DEF Adding, Pumping
  <2>4. Cardinality(Adding') = Cardinality(Adding) - 1
    BY <2>1, <2>3, FS_RemoveElement
  <2>5. Cardinality(Pumping') = Cardinality(Pumping) + 1
    BY <2>2, <2>3, FS_AddElement
  <2>6. \A c \in Child : pumps'[c] <= 1
    BY <1>1, <1>2 DEF LiveCountExact, TypeOK
  <2>7. liveChildren' = Cardinality(Pumping') + Cardinality(Adding')
    BY <1>3, <1>4, <2>3, <2>4, <2>5 DEF LiveCountExact
  <2> QED
    BY <1>3, <1>4, <2>6, <2>7 DEF LiveCountExact
<1>11. OutputOpenWhilePushLives'
  BY <1>3 DEF OutputOpenWhilePushLives
<1> QED
  BY <1>7, <1>8, <1>9, <1>10, <1>11

LEMMA SetRoomsReturnsStep ==
  ASSUME IInv, TypeOK', NEW k \in Callers, SetRoomsReturns(k)
  PROVE  IInv'
PROOF
<1> USE DEF IInv
<1>1. UNCHANGED <<phase, children, life, pumps, liveChildren, outOpen, stopped>>
  BY DEF SetRoomsReturns, racerVars, workerVars
<1>2. phase = "running"
  BY BusyRuns DEF SetRoomsReturns
<1>3. /\ \A l \in Callers : call'[l].adding = call[l].adding
      /\ \A l \in Callers : call[l].adding # NoPoll => call'[l].busy
  BY DEF SetRoomsReturns, Idle, TypeOK, AddingAlone
<1>4. NotRunning' /\ BeforeStart' /\ PushIsRead'
  BY <1>1, <1>2 DEF NotRunning, BeforeStart, PushIsRead
<1>5. AddingAlone'
  BY <1>1, <1>3 DEF AddingAlone
<1>6. LiveCountExact'
  BY <1>1, <1>3 DEF LiveCountExact, Pumping, Adding
<1>7. OutputOpenWhilePushLives'
  BY <1>1 DEF OutputOpenWhilePushLives
<1> QED
  BY <1>4, <1>5, <1>6, <1>7

(* The steps that leave the racer's accounting alone.                       *)
LEMMA QuietStep ==
  ASSUME IInv, TypeOK',
         \/ \E c \in Child, m \in Msgs : Offer(c, m)
         \/ Abort \/ StopAdapter \/ WorkerEnds \/ UNCHANGED vars
  PROVE  IInv'
PROOF
<1> USE DEF IInv
<1> DEFINE Unmoved == UNCHANGED <<phase, children, pumps, liveChildren, call>>
<1>1. ASSUME NEW c \in Child, NEW m \in Msgs, Offer(c, m)
      PROVE  IInv'
  <2>1. Unmoved /\ UNCHANGED <<life, outOpen, aborted, stopped>>
    BY <1>1 DEF Offer, racerVars, roomVars, workerVars
  <2> QED
    BY <2>1, Frame DEF BeforeStart, OutputOpenWhilePushLives
<1>2. CASE Abort
  <2>1. Unmoved /\ UNCHANGED <<outOpen, stopped>> /\ phase # "idle"
    BY <1>2 DEF Abort, roomVars
  <2>2. \A c \in Child : life'[c] = "live" => life[c] = "live"
    BY <1>2 DEF Abort, StopAll
  <2>3. OutputOpenWhilePushLives'
    BY <2>1, <2>2 DEF OutputOpenWhilePushLives, Child
  <2> QED
    BY <2>1, <2>2, <2>3, Frame
<1>3. CASE StopAdapter
  <2>1. Unmoved /\ stopped' /\ aborted
    BY <1>3 DEF StopAdapter, roomVars
  <2>2. \A c \in Child : life'[c] = "live" => life[c] = "live"
    BY <1>3 DEF StopAdapter, StopAll
  <2>3. phase # "idle"
    BY <2>1 DEF BeforeStart
  <2>4. OutputOpenWhilePushLives'
    BY <2>1 DEF OutputOpenWhilePushLives
  <2> QED
    BY <2>1, <2>2, <2>3, <2>4, Frame
<1>4. CASE WorkerEnds
  <2>1. Unmoved /\ UNCHANGED <<life, outOpen, aborted, stopped>>
    BY <1>4 DEF WorkerEnds, racerVars, roomVars
  <2> QED
    BY <2>1, Frame DEF BeforeStart, OutputOpenWhilePushLives
<1>5. CASE UNCHANGED vars
  <2>1. Unmoved /\ UNCHANGED <<life, outOpen, aborted, stopped>>
    BY <1>5 DEF vars, racerVars, roomVars, workerVars
  <2> QED
    BY <2>1, Frame DEF BeforeStart, OutputOpenWhilePushLives
<1> QED
  BY <1>1, <1>2, <1>3, <1>4, <1>5

(* The inductive step: no action of the racer, of a switch or of the worker *)
(* disturbs IInv.                                                           *)
LEMMA NextIInv ==
  ASSUME ~AdmitDuringStart, IInv, [Next]_vars
  PROVE  IInv'
PROOF
<1>1. TypeOK'
  BY TypeStep DEF IInv
<1> QED
  BY <1>1, StartStep, StartResolvesStep, PumpEndsStep, SetRoomsStep, RemoveRoomStep,
     AddRoomStep, PumpAddedStep, SetRoomsReturnsStep, QuietStep DEF Next

------------------------------------------------------------------------------
(* Type correctness of the inbound stack, for every number of rooms, polls  *)
(* and callers, whether or not a switch can overlap the start.              *)
THEOREM TypeCorrect == Spec => []TypeOK
PROOF
<1>1. Init => TypeOK
  BY InitIInv DEF IInv
<1>2. TypeOK /\ [Next]_vars => TypeOK'
  BY TypeStep
<1> QED
  BY <1>1, <1>2, PTL DEF Spec

(* The strengthened invariant holds in every run in which no switch         *)
(* overlaps the start.                                                      *)
THEOREM InductiveInvariant == Spec /\ ~AdmitDuringStart => []IInv
PROOF
<1> SUFFICES ASSUME ~AdmitDuringStart
             PROVE  Spec => []IInv
  OBVIOUS
<1>1. Init => IInv
  BY InitIInv
<1>2. IInv /\ [Next]_vars => IInv'
  BY NextIInv
<1> QED
  BY <1>1, <1>2, PTL DEF Spec

(* #liveChildren of adapters/racing.ts is exact.                            *)
THEOREM LiveCountIsExact == Spec /\ ~AdmitDuringStart => []LiveCountExact
PROOF
<1>1. IInv => LiveCountExact
  BY DEF IInv
<1> QED
  BY <1>1, InductiveInvariant, PTL

(* removeChild and the pumps never close the racer's output under a push    *)
(* stream that is alive.                                                    *)
THEOREM OutputStaysOpen == Spec /\ ~AdmitDuringStart => []OutputOpenWhilePushLives
PROOF
<1>1. IInv => OutputOpenWhilePushLives
  BY DEF IInv
<1> QED
  BY <1>1, InductiveInvariant, PTL

------------------------------------------------------------------------------
(* What the race accepts reaches the worker.                                *)

(* Until the abort nobody stops the adapter, the push stream lives and so   *)
(* the output stays open, and the worker has its sink.                      *)
Delivering ==
  /\ stopped => aborted
  /\ phase # "idle" /\ ~aborted => life[Push] = "live" /\ worker = "serving"
  /\ AcceptedReachesWorkerOnce

LEMMA DeliveringStep ==
  ASSUME IInv, Delivering, [Next]_vars
  PROVE  Delivering'
PROOF
<1> USE DEF Delivering
<1>1. Push \in Child /\ Push \notin PollIds
  BY RacingAssumption DEF Child, RacingAssumption
<1>2. TypeOK /\ Push \in children
  BY DEF IInv, PushIsRead
<1>3. CASE Start
  <2>1. UNCHANGED <<aborted, stopped, msgVars>> /\ worker' = "serving" /\ life'[Push] = "live"
    BY <1>1, <1>2, <1>3 DEF Start, TypeOK
  <2> QED
    BY <2>1 DEF AcceptedReachesWorkerOnce, msgVars
<1>4. ASSUME StartResolves \/ \E c \in Child : PumpEnds(c)
      PROVE  Delivering'
  <2>1. UNCHANGED <<life, workerVars, msgVars>> /\ (phase' # "idle" => phase # "idle")
    BY <1>4 DEF StartResolves, PumpEnds
  <2> QED
    BY <2>1 DEF AcceptedReachesWorkerOnce, msgVars, workerVars
<1>5. ASSUME NEW k \in Callers,
             \/ SetRooms(k) \/ PumpAdded(k) \/ SetRoomsReturns(k)
             \/ \E r \in Rooms : RemoveRoom(k, r) \/ AddRoom(k, r)
      PROVE  Delivering'
  <2>1. UNCHANGED <<phase, workerVars, msgVars>>
    BY <1>5 DEF SetRooms, PumpAdded, SetRoomsReturns, RemoveRoom, AddRoom, racerVars
  <2>2. life'[Push] = life[Push]
    <3>1. ASSUME NEW r \in Rooms, RemoveRoom(k, r)
          PROVE  life'[Push] = life[Push]
      <4>1. polls[r] # Push
        BY <1>1, <1>2, RacingAssumption DEF RacingAssumption, TypeOK
      <4> QED
        BY <1>1, <3>1, <4>1 DEF RemoveRoom, StopAll
    <3>2. ASSUME NEW r \in Rooms, AddRoom(k, r)
          PROVE  life'[Push] = life[Push]
      <4>1. (CHOOSE p \in Fresh : TRUE) # Push
        BY <3>2, FreshPoll DEF AddRoom
      <4> QED
        BY <1>1, <1>2, <3>2, <4>1 DEF AddRoom, TypeOK
    <3> QED
      BY <1>5, <3>1, <3>2 DEF SetRooms, PumpAdded, SetRoomsReturns, racerVars
  <2> QED
    BY <2>1, <2>2 DEF AcceptedReachesWorkerOnce, msgVars, workerVars
<1>6. ASSUME NEW c \in Child, NEW m \in Msgs, Offer(c, m)
      PROVE  Delivering'
  <2>1. UNCHANGED <<phase, life, workerVars>>
    BY <1>6 DEF Offer, racerVars
  <2>2. AcceptedReachesWorkerOnce'
    <3>1. SUFFICES ASSUME ~aborted', NEW n \in Msgs
                   PROVE  handled'[n] = IF n \in seenIds' THEN 1 ELSE 0
      BY DEF AcceptedReachesWorkerOnce
    <3>2. ~aborted /\ worker = "serving"
      <4>1. phase # "idle"
        BY <1>6 DEF Offer, Speaks, IInv, BeforeStart
      <4> QED
        BY <2>1, <3>1, <4>1 DEF workerVars
    <3>3. handled[m] = 0 /\ seenIds' = seenIds \union {m}
      BY <1>6, <3>2 DEF Offer, AcceptedReachesWorkerOnce
    <3>4. handled' = [handled EXCEPT ![m] = 1]
      BY <1>6, <3>2, <3>3 DEF Offer
    <3> QED
      BY <1>2, <3>2, <3>3, <3>4 DEF AcceptedReachesWorkerOnce, TypeOK
  <2> QED
    BY <2>1, <2>2 DEF workerVars
<1>7. CASE Abort \/ StopAdapter
  BY <1>7 DEF Abort, StopAdapter, AcceptedReachesWorkerOnce
<1>8. CASE WorkerEnds
  <2>1. ~outOpen /\ phase = "running" /\ UNCHANGED <<racerVars, aborted, stopped, msgVars>>
    BY <1>8 DEF WorkerEnds
  <2>2. aborted
    BY <2>1 DEF IInv, OutputOpenWhilePushLives
  <2> QED
    BY <2>1, <2>2 DEF AcceptedReachesWorkerOnce, msgVars
<1>9. CASE UNCHANGED vars
  BY <1>9 DEF vars, racerVars, workerVars, msgVars, AcceptedReachesWorkerOnce
<1> QED
  BY <1>3, <1>4, <1>5, <1>6, <1>7, <1>8, <1>9 DEF Next

(* A message the race has accepted has reached the worker exactly once      *)
(* unless the run was aborted (#offer and the sink of Worker.run), however  *)
(* switches, streams that end and copies of the message interleave.         *)
THEOREM AcceptedIsHandled == Spec /\ ~AdmitDuringStart => []AcceptedReachesWorkerOnce
PROOF
<1>1. Init => Delivering
  BY DEF Init, Delivering, AcceptedReachesWorkerOnce
<1>2. IInv /\ Delivering /\ [Next]_vars => Delivering'
  BY DeliveringStep
<1>3. Delivering => AcceptedReachesWorkerOnce
  BY DEF Delivering
<1> QED
  BY <1>1, <1>2, <1>3, InductiveInvariant, PTL DEF Spec

------------------------------------------------------------------------------
(* One switch at a time keeps to the budget.                                *)

OneSwitch == \A k, l \in Callers : k = l

(* The polls map and the rooms the poll objects were made for agree on      *)
(* every poll that the racer holds or that runs, and what is polled runs.   *)
Mapped ==
  /\ \A p \in PollIds : p \in children \/ life[p] = "live" => polls[pollRoom[p]] = p
  /\ \A r \in Polled : pollRoom[polls[r]] = r /\ polls[r] \in children
  /\ phase # "idle" /\ ~aborted => \A r \in Polled : life[polls[r]] = "live"

(* A switch stays within the budget at each of its steps: what is polled is *)
(* wanted or about to be removed, and nothing is added before the removals. *)
Planned ==
  /\ Cardinality(Polled) <= Budget
  /\ \A k \in Callers : call[k].busy =>
       /\ phase # "idle"
       /\ Cardinality(call[k].want) <= Budget
       /\ Polled \subseteq call[k].want \union call[k].remove
       /\ call[k].remove \intersect call[k].want = {}
       /\ call[k].add = call[k].want \ Polled

(* Sets of rooms are finite, and slice leaves no more than the budget.      *)
LEMMA SlicedFits ==
  /\ \A S \in SUBSET Rooms : IsFiniteSet(S) /\ Cardinality(S) \in Nat
  /\ \A S, T \in SUBSET Rooms : S \subseteq T => Cardinality(S) <= Cardinality(T)
  /\ \A S \in SUBSET Rooms : \A next \in Sliced(S) : next \subseteq Rooms /\ Cardinality(next) <= Budget
PROOF
<1>1. \A S \in SUBSET Rooms : IsFiniteSet(S) /\ Cardinality(S) \in Nat
  BY RacingAssumption, FS_Subset, FS_CardinalityType DEF RacingAssumption
<1>2. \A S, T \in SUBSET Rooms : S \subseteq T => Cardinality(S) <= Cardinality(T)
  BY <1>1, FS_Subset
<1>3. \A S \in SUBSET Rooms : \A next \in Sliced(S) : next \subseteq Rooms /\ Cardinality(next) <= Budget
  BY <1>1, RacingAssumption DEF Sliced, RacingAssumption
<1> QED
  BY <1>1, <1>2, <1>3

(* The polls that run are no more than the rooms polled.                    *)
LEMMA MappedFits ==
  ASSUME TypeOK, Mapped, Planned
  PROVE  SlotBudget
PROOF
<1> DEFINE running == {p \in PollIds : life[p] = "live"}
           room == [p \in running |-> pollRoom[p]]
<1>1. \A p \in running : polls[pollRoom[p]] = p /\ p # NoPoll /\ pollRoom[p] \in Rooms
  BY RacingAssumption DEF Mapped, TypeOK, RacingAssumption
<1>2. \A p \in running : pollRoom[p] \in Polled
  BY <1>1 DEF Polled
<1>3. room \in Injection(running, Polled)
  <2>1. room \in [running -> Polled]
    BY <1>2
  <2>2. \A p, q \in running : room[p] = room[q] => p = q
    BY <1>1
  <2> QED
    BY <2>1, <2>2 DEF Injection, IsInjective
<1>4. IsFiniteSet(Polled) /\ Cardinality(Polled) \in Nat /\ Polled \subseteq Rooms
  BY SlicedFits DEF Polled
<1>5. IsFiniteSet(running) /\ Cardinality(running) <= Cardinality(Polled)
  BY <1>3, <1>4, FS_Injection
<1>6. Cardinality(running) <= Budget
  BY <1>4, <1>5, FS_CardinalityType, RacingAssumption DEF Planned, RacingAssumption
<1> QED
  BY <1>1, <1>6 DEF SlotBudget

LEMMA InitMapped == Init => Mapped /\ Planned
PROOF
<1> SUFFICES ASSUME Init
             PROVE  Mapped /\ Planned
  OBVIOUS
<1>1. PICK initial \in Sliced(InitialRooms) :
        \E make \in [initial -> PollIds] :
          /\ polls = [r \in Rooms |-> IF r \in initial THEN make[r] ELSE NoPoll]
          /\ children = {Push} \union {make[r] : r \in initial}
          /\ \A r, s \in initial : make[r] = make[s] => r = s
          /\ \A p \in PollIds : p \in children => polls[pollRoom[p]] = p
  BY DEF Init
<1>2. PICK make \in [initial -> PollIds] :
          /\ polls = [r \in Rooms |-> IF r \in initial THEN make[r] ELSE NoPoll]
          /\ children = {Push} \union {make[r] : r \in initial}
          /\ \A r, s \in initial : make[r] = make[s] => r = s
          /\ \A p \in PollIds : p \in children => polls[pollRoom[p]] = p
  BY <1>1
<1>3. initial \subseteq Rooms /\ Cardinality(initial) <= Budget
  BY SlicedFits, RacingAssumption DEF RacingAssumption
<1>4. Polled = initial /\ \A r \in Polled : polls[r] = make[r] /\ polls[r] \in PollIds
  BY <1>2, <1>3, RacingAssumption DEF Polled, RacingAssumption
<1>5. /\ phase = "idle"
      /\ \A c \in Child : life[c] # "live"
      /\ \A k \in Callers : ~call[k].busy
  BY DEF Init, Idle
<1>6. \A p \in PollIds : p \in children => polls[pollRoom[p]] = p /\ pollRoom[p] \in Rooms
  BY <1>2, InitIInv DEF IInv, TypeOK
<1>7. \A r \in Polled : pollRoom[polls[r]] = r /\ polls[r] \in children
  <2>1. SUFFICES ASSUME NEW r \in Polled
                 PROVE  pollRoom[polls[r]] = r /\ polls[r] \in children
    OBVIOUS
  <2>2. polls[r] \in children /\ polls[r] = make[r] /\ polls[r] \in PollIds
    BY <1>2, <1>4
  <2> DEFINE s == pollRoom[make[r]]
  <2>3. polls[s] = make[r] /\ s \in Rooms
    BY <1>6, <2>2
  <2>4. s \in initial
    BY <1>4, <2>2, <2>3, RacingAssumption DEF Polled, RacingAssumption
  <2> QED
    BY <1>2, <1>4, <2>2, <2>3, <2>4
<1>8. Mapped
  BY <1>2, <1>5, <1>7 DEF Mapped, Child
<1>9. Planned
  BY <1>3, <1>4, <1>5 DEF Planned
<1> QED
  BY <1>8, <1>9

(* A removal takes out of the map a room that no call wants.                *)
LEMMA RemoveMapped ==
  ASSUME TypeOK, TypeOK', OneSwitch, Mapped, Planned,
         NEW k \in Callers, NEW r \in Rooms, RemoveRoom(k, r)
  PROVE  Mapped' /\ Planned'
PROOF
<1> DEFINE p == polls[r]
<1>1. /\ polls' = [polls EXCEPT ![r] = NoPoll]
      /\ children' = children \ {p}
      /\ life' = StopAll({p})
      /\ pollRoom' = [q \in PollIds |-> IF q = p THEN AnyRoom ELSE pollRoom[q]]
      /\ UNCHANGED <<phase, aborted>>
  BY DEF RemoveRoom, workerVars
<1>2. /\ \A q \in PollIds : life'[q] = IF q = p /\ life[q] # "none" THEN "ended" ELSE life[q]
      /\ \A q \in PollIds \ {p} : pollRoom'[q] = pollRoom[q]
  BY <1>1 DEF StopAll, Child
<1>3. \A s \in Rooms : polls'[s] = IF s = r THEN NoPoll ELSE polls[s]
  BY <1>1 DEF TypeOK
<1>4. Polled' = Polled \ {r}
  BY <1>3 DEF Polled
<1>5. \A q \in PollIds : q \in children' \/ life'[q] = "live" => polls'[pollRoom'[q]] = q
  <2>1. SUFFICES ASSUME NEW q \in PollIds, q \in children' \/ life'[q] = "live"
                 PROVE  polls'[pollRoom'[q]] = q
    OBVIOUS
  <2>2. q # p /\ (q \in children \/ life[q] = "live")
    BY <1>1, <1>2, <2>1
  <2>3. polls[pollRoom[q]] = q /\ pollRoom[q] \in Rooms
    BY <2>2 DEF Mapped, TypeOK
  <2> QED
    BY <1>2, <1>3, <2>2, <2>3
<1>6. \A s \in Polled' : /\ s \in Polled /\ polls'[s] = polls[s]
                         /\ polls[s] \in PollIds /\ polls[s] # p
  <2>1. SUFFICES ASSUME NEW s \in Polled \ {r}
                 PROVE  polls'[s] = polls[s] /\ polls[s] \in PollIds /\ polls[s] # p
    BY <1>4
  <2>2. polls'[s] = polls[s] /\ polls[s] \in PollIds /\ polls[s] # NoPoll
    BY <1>3 DEF Polled, TypeOK
  <2>3. ASSUME polls[s] = p
        PROVE  FALSE
    <3>1. r \in Polled
      BY <2>2, <2>3 DEF Polled
    <3> QED
      BY <2>3, <3>1 DEF Mapped
  <2> QED
    BY <2>2, <2>3
<1>7. Mapped'
  <2>1. \A s \in Polled' : pollRoom'[polls'[s]] = s /\ polls'[s] \in children'
    BY <1>1, <1>2, <1>6 DEF Mapped
  <2>2. phase' # "idle" /\ ~aborted' => \A s \in Polled' : life'[polls'[s]] = "live"
    BY <1>1, <1>2, <1>6 DEF Mapped
  <2> QED
    BY <1>5, <2>1, <2>2 DEF Mapped
<1>8. /\ call'[k].busy = call[k].busy /\ call'[k].want = call[k].want
      /\ call'[k].add = call[k].add /\ call'[k].remove = call[k].remove \ {r}
  <2>1. call' = [call EXCEPT ![k].remove = @ \ {r}] /\ call \in [Callers -> CallType]
    BY DEF RemoveRoom, TypeOK
  <2> QED
    BY <2>1 DEF CallType
<1>9. call[k].busy /\ r \in call[k].remove
  BY DEF RemoveRoom
<1>10. Cardinality(Polled') <= Cardinality(Polled)
  BY <1>4, SlicedFits DEF Polled
<1>11. Cardinality(Polled') <= Budget
  BY <1>4, <1>10, SlicedFits, RacingAssumption DEF Planned, RacingAssumption, Polled
<1>12. \A l \in Callers : l = k
  BY DEF OneSwitch
<1>13. /\ Polled' \subseteq call'[k].want \union call'[k].remove
       /\ call'[k].remove \intersect call'[k].want = {}
       /\ call'[k].add = call'[k].want \ Polled'
  BY <1>4, <1>8, <1>9 DEF Planned
<1>14. Planned'
  BY <1>1, <1>8, <1>9, <1>11, <1>12, <1>13 DEF Planned
<1> QED
  BY <1>7, <1>14

(* An addition happens when nothing is polled that is not wanted, so what   *)
(* is polled then is still a part of the selection.                         *)
LEMMA AddMapped ==
  ASSUME TypeOK, TypeOK', OneSwitch, Mapped, Planned,
         NEW k \in Callers, NEW r \in Rooms, AddRoom(k, r)
  PROVE  Mapped' /\ Planned'
PROOF
<1> DEFINE p == CHOOSE p \in Fresh : TRUE
<1>1. p \in Fresh
  BY DEF AddRoom
<1>2. p \in PollIds /\ p # NoPoll /\ p \notin children /\ \A s \in Rooms : polls[s] # p
  BY <1>1, RacingAssumption DEF Fresh, RacingAssumption
<1>3. /\ polls' = [polls EXCEPT ![r] = p]
      /\ pollRoom' = [pollRoom EXCEPT ![p] = r]
      /\ children' = children \union {p}
      /\ life' = [life EXCEPT ![p] = "live"]
      /\ call' = [call EXCEPT ![k].add = @ \ {r}, ![k].adding = p]
      /\ UNCHANGED <<phase, aborted>>
  BY DEF AddRoom, workerVars
<1>4. call[k].busy /\ call[k].remove = {} /\ r \in call[k].add
  BY DEF AddRoom
<1> HIDE DEF p
<1>5. \A l \in Callers : l = k
  BY DEF OneSwitch
<1>6. /\ Polled \subseteq call[k].want /\ r \in call[k].want \ Polled
      /\ call[k].add = call[k].want \ Polled
  BY <1>4 DEF Planned
<1>7. polls[r] = NoPoll /\ Polled' = Polled \union {r}
  BY <1>2, <1>3, <1>6 DEF Polled, TypeOK
<1>8. \A q \in PollIds : q \in children' \/ life'[q] = "live" => polls'[pollRoom'[q]] = q
  <2>1. SUFFICES ASSUME NEW q \in PollIds, q \in children' \/ life'[q] = "live"
                 PROVE  polls'[pollRoom'[q]] = q
    OBVIOUS
  <2>2. CASE q = p
    BY <1>2, <1>3, <2>2 DEF TypeOK
  <2>3. CASE q # p
    <3>1. q \in children \/ life[q] = "live"
      BY <1>3, <2>1, <2>3 DEF TypeOK, Child
    <3>2. /\ polls[pollRoom[q]] = q /\ pollRoom[q] \in Rooms
          /\ pollRoom'[q] = pollRoom[q] /\ q # NoPoll
      BY <1>3, <2>3, <3>1, RacingAssumption DEF Mapped, TypeOK, RacingAssumption
    <3> QED
      BY <1>3, <1>7, <3>2 DEF TypeOK
  <2> QED
    BY <2>2, <2>3
<1>9. \A s \in Polled : s # r /\ polls'[s] = polls[s] /\ polls[s] # p /\ polls[s] \in PollIds
  BY <1>2, <1>3, <1>6 DEF Polled, TypeOK
<1>10. Mapped'
  <2>1. polls'[r] = p /\ pollRoom'[p] = r /\ p \in children' /\ life'[p] = "live"
    BY <1>2, <1>3 DEF TypeOK, Child
  <2>2. \A s \in Polled : pollRoom'[polls'[s]] = s /\ polls'[s] \in children'
    BY <1>3, <1>9 DEF Mapped, TypeOK
  <2>3. phase' # "idle" /\ ~aborted' => \A s \in Polled : life'[polls'[s]] = "live"
    BY <1>3, <1>9 DEF Mapped, TypeOK, Child
  <2> QED
    BY <1>7, <1>8, <2>1, <2>2, <2>3 DEF Mapped
<1>11. /\ call'[k].busy = call[k].busy /\ call'[k].want = call[k].want
       /\ call'[k].remove = call[k].remove /\ call'[k].add = call[k].add \ {r}
  BY <1>3 DEF TypeOK, CallType
<1>12. Polled' \subseteq call[k].want /\ call[k].want \in SUBSET Rooms
  BY <1>6, <1>7 DEF TypeOK, CallType
<1>13. /\ Cardinality(Polled') <= Cardinality(call[k].want)
       /\ Cardinality(Polled') \in Nat /\ Cardinality(call[k].want) \in Nat
  <2>1. Polled' \in SUBSET Rooms
    BY DEF Polled
  <2> QED
    BY <1>12, <2>1, SlicedFits
<1>14. Cardinality(Polled') <= Budget
  BY <1>4, <1>13, RacingAssumption DEF Planned, RacingAssumption
<1>15. /\ Polled' \subseteq call'[k].want \union call'[k].remove
       /\ call'[k].remove \intersect call'[k].want = {}
       /\ call'[k].add = call'[k].want \ Polled'
  BY <1>4, <1>6, <1>7, <1>11, <1>12
<1>16. Planned'
  BY <1>3, <1>4, <1>5, <1>11, <1>14, <1>15 DEF Planned
<1> QED
  BY <1>10, <1>16

(* A call that starts takes the diff of its selection against the map.      *)
LEMMA SetRoomsMapped ==
  ASSUME TypeOK, OneSwitch, Mapped, Planned, NEW k \in Callers, SetRooms(k)
  PROVE  Mapped' /\ Planned'
PROOF
<1>1. PICK rooms \in SUBSET Rooms : \E next \in Sliced(rooms) :
        call' = [call EXCEPT ![k] =
          [busy |-> TRUE, want |-> next, remove |-> Polled \ next,
           add |-> next \ Polled, adding |-> NoPoll]]
  BY DEF SetRooms
<1>2. PICK next \in Sliced(rooms) :
        call' = [call EXCEPT ![k] =
          [busy |-> TRUE, want |-> next, remove |-> Polled \ next,
           add |-> next \ Polled, adding |-> NoPoll]]
  BY <1>1
<1>3. Cardinality(next) <= Budget
  BY SlicedFits
<1>4. /\ call'[k].want = next /\ call'[k].remove = Polled \ next
      /\ call'[k].add = next \ Polled
  BY <1>2 DEF TypeOK
<1>5. UNCHANGED <<racerVars, polls, pollRoom, aborted>> /\ phase # "idle"
  BY DEF SetRooms, workerVars, CallAdmitted
<1>6. Polled' = Polled /\ \A l \in Callers : l = k
  BY <1>5 DEF Polled, OneSwitch
<1>7. Mapped'
  BY <1>5, <1>6 DEF Mapped, racerVars
<1>8. Planned'
  BY <1>3, <1>4, <1>5, <1>6 DEF Planned, racerVars
<1> QED
  BY <1>7, <1>8

(* The steps that touch neither the map nor a plan, and start no child but  *)
(* those the racer holds.                                                   *)
LEMMA LeaveMapped ==
  ASSUME TypeOK, Mapped, Planned,
         UNCHANGED <<children, polls, pollRoom>>,
         phase' = "idle" => phase = "idle",
         \A k \in Callers : call'[k].busy =>
           /\ call[k].busy
           /\ call'[k].want = call[k].want
           /\ call'[k].remove = call[k].remove
           /\ call'[k].add = call[k].add,
         \A p \in PollIds : life'[p] = "live" => life[p] = "live" \/ p \in children,
         ~aborted' /\ phase' # "idle" =>
            \A p \in children : life'[p] = "live" \/ (~aborted /\ phase # "idle" /\ life'[p] = life[p])
  PROVE  Mapped' /\ Planned'
PROOF
<1>1. Polled' = Polled
  BY DEF Polled
<1>2. Mapped'
  BY <1>1 DEF Mapped
<1>3. Planned'
  BY <1>1 DEF Planned
<1> QED
  BY <1>2, <1>3

LEMMA MappedStep ==
  ASSUME TypeOK, OneSwitch, Mapped, Planned, [Next]_vars
  PROVE  Mapped' /\ Planned'
PROOF
<1>1. TypeOK'
  BY TypeStep
<1>2. CASE Start
  <2>1. /\ UNCHANGED <<children, polls, pollRoom, call, aborted>> /\ phase' = "starting"
        /\ \A c \in Child : life'[c] = IF c \in children THEN "live" ELSE life[c]
    BY <1>2 DEF Start, roomVars
  <2> QED
    BY <2>1, LeaveMapped DEF Child, TypeOK
<1>3. ASSUME \/ StartResolves \/ \E c \in Child : PumpEnds(c)
             \/ \E c \in Child, m \in Msgs : Offer(c, m)
             \/ WorkerEnds \/ UNCHANGED vars
      PROVE  Mapped' /\ Planned'
  <2>1. /\ UNCHANGED <<children, polls, pollRoom, call, aborted, life>>
        /\ phase' = "idle" <=> phase = "idle"
    BY <1>3 DEF StartResolves, PumpEnds, Offer, WorkerEnds, vars, racerVars, roomVars, workerVars
  <2> QED
    BY <2>1, LeaveMapped
<1>4. CASE Abort \/ StopAdapter
  <2>1. /\ UNCHANGED <<children, polls, pollRoom, call, phase>> /\ aborted'
        /\ \A c \in Child : life'[c] = "live" => life[c] = "live"
    BY <1>4 DEF Abort, StopAdapter, StopAll, roomVars
  <2> QED
    BY <2>1, LeaveMapped DEF Child
<1>5. ASSUME NEW k \in Callers, PumpAdded(k) \/ SetRoomsReturns(k)
      PROVE  Mapped' /\ Planned'
  <2>1. UNCHANGED <<children, polls, pollRoom, aborted, life, phase>>
    BY <1>5 DEF PumpAdded, SetRoomsReturns, racerVars, workerVars
  <2>2. \A l \in Callers : call'[l].busy =>
           /\ call[l].busy
           /\ call'[l].want = call[l].want
           /\ call'[l].remove = call[l].remove
           /\ call'[l].add = call[l].add
    BY <1>5 DEF PumpAdded, SetRoomsReturns, Idle, TypeOK, CallType
  <2> QED
    BY <2>1, <2>2, LeaveMapped
<1> QED
  BY <1>1, <1>2, <1>3, <1>4, <1>5, SetRoomsMapped, RemoveMapped, AddMapped DEF Next

(* With one setRooms call in progress at a time (racing-inbound.ts), no     *)
(* state of a switch, before, during or after its awaits, runs more room    *)
(* polls than slotBudget, and the map names every poll that runs.           *)
THEOREM BudgetHolds == Spec /\ OneSwitch => []SlotBudget
PROOF
<1> SUFFICES ASSUME OneSwitch
             PROVE  Spec => []SlotBudget
  OBVIOUS
<1>1. Init => Mapped /\ Planned
  BY InitMapped
<1>2. TypeOK /\ Mapped /\ Planned /\ [Next]_vars => (Mapped /\ Planned)'
  BY MappedStep
<1>3. TypeOK /\ Mapped /\ Planned => SlotBudget
  BY MappedFits
<1> QED
  BY <1>1, <1>2, <1>3, TypeCorrect, PTL DEF Spec

(* setRooms leaves the poll of a room that is in the old and in the new     *)
(* selection alone: no step of the switch, of the racer or of a message     *)
(* replaces or ends it.                                                     *)
THEOREM KeptPollSurvives == Spec /\ OneSwitch => KeptRoomKeepsItsPoll
PROOF
<1> SUFFICES ASSUME OneSwitch
             PROVE  Spec => KeptRoomKeepsItsPoll
  OBVIOUS
<1> DEFINE Keeps == \A k \in Callers : \A r \in Rooms :
              call[k].busy /\ r \in call[k].want /\ r \notin call[k].add /\ ~aborted'
                => polls'[r] = polls[r] /\ life'[polls[r]] = "live"
<1>1. Init => Mapped /\ Planned
  BY InitMapped
<1>2. TypeOK /\ Mapped /\ Planned /\ [Next]_vars => (Mapped /\ Planned)'
  BY MappedStep
<1>3. ASSUME TypeOK, Mapped, Planned, [Next]_vars
      PROVE  [Keeps]_vars
  <2> SUFFICES ASSUME NEW k \in Callers, NEW r \in Rooms, ~aborted',
                      call[k].busy, r \in call[k].want, r \notin call[k].add
               PROVE  polls'[r] = polls[r] /\ life'[polls[r]] = "live"
    OBVIOUS
  <2>1. Mapped' /\ r \in Polled /\ phase # "idle"
    BY <1>3, MappedStep DEF Planned
  <2>2. polls'[r] = polls[r] /\ phase' # "idle"
    <3>1. ASSUME NEW l \in Callers, NEW s \in Rooms, RemoveRoom(l, s) \/ AddRoom(l, s)
          PROVE  polls'[r] = polls[r] /\ phase' = phase
      <4>1. l = k
        BY DEF OneSwitch
      <4>2. s # r
        BY <1>3, <3>1, <4>1 DEF RemoveRoom, AddRoom, Planned
      <4> QED
        BY <1>3, <3>1, <4>2 DEF RemoveRoom, AddRoom, TypeOK
    <3>2. UNCHANGED <<polls, phase>> \/ \E l \in Callers, s \in Rooms : RemoveRoom(l, s) \/ AddRoom(l, s)
          \/ (UNCHANGED polls /\ phase' # "idle")
      BY <1>3 DEF Next, Start, StartResolves, PumpEnds, SetRooms, PumpAdded, SetRoomsReturns,
         Offer, Abort, StopAdapter, WorkerEnds, vars, racerVars, roomVars
    <3> QED
      BY <2>1, <3>1, <3>2
  <2>3. r \in Polled'
    BY <2>1, <2>2 DEF Polled
  <2>4. life'[polls'[r]] = "live"
    BY <2>1, <2>2, <2>3 DEF Mapped
  <2> QED
    BY <2>2, <2>4
<1> QED
  BY <1>1, <1>2, <1>3, TypeCorrect, PTL DEF Spec, KeptRoomKeepsItsPoll
=============================================================================
