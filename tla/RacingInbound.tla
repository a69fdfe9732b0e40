---------------------------- MODULE RacingInbound ----------------------------
(***************************************************************************)
(* The inbound stack of one bot: the account-wide push stream raced        *)
(* against a bounded number of dedicated room polls                        *)
(* (adapters/racing.ts), the live room switch built on top of it           *)
(* (adapters/linejs/racing-inbound.ts, setRooms), and the part of the      *)
(* worker that consumes it (worker/worker.ts, run).                        *)
(*                                                                         *)
(* An atomic step is the code between two awaits.  A child is an adapter   *)
(* object; a poll id stands for one SquarePollAdapter, and an id whose     *)
(* object is unreachable stands for the next object (Fresh).  What a poll  *)
(* does between start and stop is module SquarePoll.                       *)
(***************************************************************************)
EXTENDS Integers, FiniteSets

CONSTANTS
  Rooms,            (* rooms a dedicated poll can watch                     *)
  PollIds,          (* the SquarePollAdapter objects alive at one time      *)
  Push,             (* the LinejsInboundAdapter, covering every room        *)
  NoPoll,           (* no entry in the polls map                            *)
  InitialRooms,     (* dedicatedRooms of the configuration                  *)
  Budget,           (* slotBudget                                           *)
  Callers,          (* setRooms calls that may be in progress at once       *)
  AdmitDuringStart, (* whether setRooms may be called before start resolves *)
  Msgs,             (* message ids, fewer than maxDedupeEntries             *)
  MsgRoom           (* the room each message is posted in                   *)

Child == PollIds \union {Push}

ASSUME RacingAssumption ==
  /\ IsFiniteSet(Rooms) /\ IsFiniteSet(PollIds) /\ IsFiniteSet(Callers)
  /\ Push \notin PollIds /\ NoPoll \notin PollIds /\ Push # NoPoll
  /\ Budget \in Nat
  /\ InitialRooms \subseteq Rooms
  /\ AdmitDuringStart \in BOOLEAN
  /\ MsgRoom \in [Msgs -> Rooms]

VARIABLES
  phase,        (* of RacingInboundAdapter.start                            *)
  children,     (* #children                                                *)
  life,         (* of each child: made, streaming, or its stream has ended  *)
  pumps,        (* #pump loops reading each child's stream                  *)
  liveChildren, (* #liveChildren                                            *)
  outOpen,      (* the racer's own output queue is not closed               *)
  polls,        (* setRooms' map from a room to its poll                    *)
  pollRoom,     (* the room each poll object was made for                   *)
  call,         (* the setRooms calls in progress                           *)
  worker,       (* Worker.run; its synchronous sink is installed while it   *)
                (* is serving                                               *)
  aborted,      (* the run's AbortSignal                                    *)
  stopped,      (* adapter.stop() was called                                *)
  seenIds,      (* message ids #offer has forwarded                         *)
  handled       (* how often Worker.#handle received each message           *)

racerVars == <<phase, children, life, pumps, liveChildren, outOpen>>
roomVars == <<polls, pollRoom, call>>
workerVars == <<worker, aborted, stopped>>
msgVars == <<seenIds, handled>>
vars == <<racerVars, roomVars, workerVars, msgVars>>

Idle == [busy |-> FALSE, want |-> {}, remove |-> {}, add |-> {}, adding |-> NoPoll]

CallType ==
  [busy: BOOLEAN, want: SUBSET Rooms, remove: SUBSET Rooms, add: SUBSET Rooms,
   adding: PollIds \union {NoPoll}]

TypeOK ==
  /\ phase \in {"idle", "starting", "running"}
  /\ children \in SUBSET Child
  /\ life \in [Child -> {"none", "made", "live", "ended"}]
  /\ pumps \in [Child -> Nat]
  /\ liveChildren \in Int
  /\ outOpen \in BOOLEAN
  /\ polls \in [Rooms -> PollIds \union {NoPoll}]
  /\ pollRoom \in [PollIds -> Rooms]
  /\ call \in [Callers -> CallType]
  /\ worker \in {"idle", "serving", "ended"}
  /\ aborted \in BOOLEAN /\ stopped \in BOOLEAN
  /\ seenIds \in SUBSET Msgs
  /\ handled \in [Msgs -> Nat]

Polled == {r \in Rooms : polls[r] # NoPoll}

(* The room of a poll object that is not running: it no longer matters.     *)
AnyRoom == CHOOSE r \in Rooms : TRUE

(* Mutant of Sliced: the selection is not cut to the budget.                *)
Unsliced(rooms) == {rooms}

(* The selections `slice(0, budget)` can leave of a list of these rooms.    *)
Sliced(rooms) ==
  {s \in SUBSET rooms : Cardinality(s) = IF Cardinality(rooms) <= Budget
                                         THEN Cardinality(rooms) ELSE Budget}

(* Poll objects nothing refers to any more, or that were never made.        *)
Fresh ==
  {p \in PollIds : /\ life[p] \in {"none", "ended"}
                   /\ p \notin children
                   /\ pumps[p] = 0
                   /\ \A r \in Rooms : polls[r] # p
                   /\ \A k \in Callers : call[k].adding # p}

(* Stopping a started child ends its stream; stop() is idempotent.          *)
StopAll(set) == [c \in Child |-> IF c \in set /\ life[c] # "none" THEN "ended" ELSE life[c]]

------------------------------------------------------------------------------
(* createRacingInbound makes the push adapter and the polls of the first    *)
(* slotBudget configured rooms.                                             *)
Init ==
  /\ phase = "idle" /\ worker = "idle"
  /\ \E initial \in Sliced(InitialRooms) :
       \E make \in [initial -> PollIds] :
         /\ \A r, s \in initial : make[r] = make[s] => r = s
         /\ polls = [r \in Rooms |-> IF r \in initial THEN make[r] ELSE NoPoll]
         /\ children = {Push} \union {make[r] : r \in initial}
         /\ pollRoom \in [PollIds -> Rooms]
         /\ \A p \in PollIds : IF p \in children THEN polls[pollRoom[p]] = p
                               ELSE pollRoom[p] = AnyRoom
  /\ life = [c \in Child |-> IF c \in children THEN "made" ELSE "none"]
  /\ pumps = [c \in Child |-> 0]
  /\ liveChildren = 0
  /\ outOpen = TRUE
  /\ call = [k \in Callers |-> Idle]
  /\ aborted = FALSE /\ stopped = FALSE
  /\ seenIds = {} /\ handled = [m \in Msgs |-> 0]

(* Worker.run installs the sink and calls the racer's start, which counts   *)
(* its children and starts each of them before its first await.             *)
Start ==
  /\ phase = "idle" /\ ~aborted
  /\ phase' = "starting"
  /\ worker' = "serving"
  /\ liveChildren' = Cardinality(children)
  /\ life' = [c \in Child |-> IF c \in children THEN "live" ELSE life[c]]
  /\ UNCHANGED <<children, pumps, outOpen, roomVars, aborted, stopped, msgVars>>

(* The push adapter's drain window is over: start pumps every child the     *)
(* racer holds by then.                                                     *)
StartResolves ==
  /\ phase = "starting"
  /\ phase' = "running"
  /\ pumps' = [c \in Child |-> IF c \in children THEN pumps[c] + 1 ELSE pumps[c]]
  /\ UNCHANGED <<children, life, liveChildren, outOpen, roomVars, workerVars, msgVars>>

(* Mutant of PumpEnds: the output closes one pump early.                    *)
PumpEndsOneEarly(c) ==
  /\ pumps[c] > 0 /\ life[c] = "ended"
  /\ pumps' = [pumps EXCEPT ![c] = @ - 1]
  /\ liveChildren' = liveChildren - 1
  /\ outOpen' = (outOpen /\ liveChildren' > 1)
  /\ UNCHANGED <<phase, children, life, roomVars, workerVars, msgVars>>

(* #pump's finally: the stream of a stopped child ends.                     *)
PumpEnds(c) ==
  /\ pumps[c] > 0 /\ life[c] = "ended"
  /\ pumps' = [pumps EXCEPT ![c] = @ - 1]
  /\ liveChildren' = liveChildren - 1
  /\ outOpen' = (outOpen /\ liveChildren' > 0)
  /\ UNCHANGED <<phase, children, life, roomVars, workerVars, msgVars>>

------------------------------------------------------------------------------
(* setRooms, one step per await.                                            *)

(* The host publishes setRooms with the connected runtime and runs the      *)
(* worker at once, so a call meets a racer that is starting or running.     *)
CallAdmitted == phase = "running" \/ (AdmitDuringStart /\ phase = "starting")

(* Mutant of SetRooms: every poll is stopped, not only those that fell out. *)
SetRoomsStoppingAll(k) ==
  /\ CallAdmitted /\ ~aborted
  /\ ~call[k].busy
  /\ \E rooms \in SUBSET Rooms : \E next \in Sliced(rooms) :
       call' = [call EXCEPT ![k] =
                 [busy |-> TRUE, want |-> next, remove |-> Polled,
                  add |-> next \ Polled, adding |-> NoPoll]]
  /\ UNCHANGED <<racerVars, polls, pollRoom, workerVars, msgVars>>

(* The diff of the sliced selection against the polls map.                  *)
SetRooms(k) ==
  /\ CallAdmitted /\ ~aborted
  /\ ~call[k].busy
  /\ \E rooms \in SUBSET Rooms : \E next \in Sliced(rooms) :
       call' = [call EXCEPT ![k] =
                 [busy |-> TRUE, want |-> next, remove |-> Polled \ next,
                  add |-> next \ Polled, adding |-> NoPoll]]
  /\ UNCHANGED <<racerVars, polls, pollRoom, workerVars, msgVars>>

(* Mutant of RemoveRoom: the poll is forgotten and not stopped.             *)
RemoveWithoutStop(k, r) ==
  /\ call[k].busy /\ call[k].adding = NoPoll /\ r \in call[k].remove
  /\ call' = [call EXCEPT ![k].remove = @ \ {r}]
  /\ polls' = [polls EXCEPT ![r] = NoPoll]
  /\ children' = children \ {polls[r]}
  /\ UNCHANGED <<phase, life, pumps, liveChildren, outOpen, pollRoom, workerVars, msgVars>>

(* polls.delete and removeChild, up to the await of child.stop(); a call    *)
(* that overlapped may have removed the room's poll already.                *)
RemoveRoom(k, r) ==
  /\ call[k].busy /\ call[k].adding = NoPoll /\ r \in call[k].remove
  /\ call' = [call EXCEPT ![k].remove = @ \ {r}]
  /\ polls' = [polls EXCEPT ![r] = NoPoll]
  /\ children' = children \ {polls[r]}
  /\ life' = StopAll({polls[r]})
  /\ pollRoom' = [p \in PollIds |-> IF p = polls[r] THEN AnyRoom ELSE pollRoom[p]]
  /\ UNCHANGED <<phase, pumps, liveChildren, outOpen, workerVars, msgVars>>

(* Mutant of AddRoom: the new child is not counted.                         *)
AddRoomUncounted(k, r) ==
  /\ call[k].busy /\ call[k].adding = NoPoll
  /\ call[k].remove = {} /\ r \in call[k].add /\ Fresh # {}
  /\ LET p == CHOOSE p \in Fresh : TRUE IN
       /\ call' = [call EXCEPT ![k].add = @ \ {r}, ![k].adding = p]
       /\ polls' = [polls EXCEPT ![r] = p]
       /\ pollRoom' = [pollRoom EXCEPT ![p] = r]
       /\ children' = children \union {p}
       /\ life' = [life EXCEPT ![p] = "live"]
  /\ UNCHANGED <<phase, pumps, liveChildren, outOpen, workerVars, msgVars>>

(* makePoll, polls.set and addChild, up to the await of child.start().  A   *)
(* poll started under an aborted signal never hears of the abort.           *)
AddRoom(k, r) ==
  /\ call[k].busy /\ call[k].adding = NoPoll
  /\ call[k].remove = {} /\ r \in call[k].add /\ Fresh # {}
  /\ LET p == CHOOSE p \in Fresh : TRUE IN
       /\ call' = [call EXCEPT ![k].add = @ \ {r}, ![k].adding = p]
       /\ polls' = [polls EXCEPT ![r] = p]
       /\ pollRoom' = [pollRoom EXCEPT ![p] = r]
       /\ children' = children \union {p}
       /\ life' = [life EXCEPT ![p] = "live"]
  /\ liveChildren' = liveChildren + 1
  /\ UNCHANGED <<phase, pumps, outOpen, workerVars, msgVars>>

(* Mutant of PumpAdded: the child is started and never read.                *)
AddedNeverPumped(k) ==
  /\ call[k].adding # NoPoll
  /\ call' = [call EXCEPT ![k].adding = NoPoll]
  /\ UNCHANGED <<racerVars, polls, pollRoom, workerVars, msgVars>>

(* addChild after the await of child.start().                               *)
PumpAdded(k) ==
  /\ call[k].adding # NoPoll
  /\ pumps' = [pumps EXCEPT ![call[k].adding] = @ + 1]
  /\ call' = [call EXCEPT ![k].adding = NoPoll]
  /\ UNCHANGED <<phase, children, life, liveChildren, outOpen, polls, pollRoom,
                 workerVars, msgVars>>

SetRoomsReturns(k) ==
  /\ call[k].busy /\ call[k].adding = NoPoll
  /\ call[k].remove = {} /\ call[k].add = {}
  /\ call' = [call EXCEPT ![k] = Idle]
  /\ UNCHANGED <<racerVars, polls, pollRoom, workerVars, msgVars>>

------------------------------------------------------------------------------
(* Messages.                                                                *)

Covers(c, m) == IF c = Push THEN phase = "running" ELSE pollRoom[c] = MsgRoom[m]

(* A stopped poll may still offer the page it had in hand (SquarePoll).     *)
Speaks(c) ==
  \/ life[c] = "live"
  \/ c # Push /\ life[c] = "ended" /\ phase # "idle"

(* Mutant of Offer: no look at the ids that were seen.                      *)
OfferUnfiltered(c, m) ==
  /\ Speaks(c) /\ Covers(c, m)
  /\ handled[m] < 2
  /\ seenIds' = seenIds \union {m}
  /\ handled' = IF worker = "serving" /\ ~aborted
                THEN [handled EXCEPT ![m] = @ + 1] ELSE handled
  /\ UNCHANGED <<racerVars, roomVars, workerVars>>

(* A child hands a message to #offer.  The push adapter discards what       *)
(* arrives in its drain window.  Without a sink the event goes to the       *)
(* output queue, which nobody reads once the worker's loop has ended.       *)
Offer(c, m) ==
  /\ Speaks(c) /\ Covers(c, m)
  /\ m \notin seenIds
  /\ seenIds' = seenIds \union {m}
  /\ handled' = IF worker = "serving" /\ ~aborted
                THEN [handled EXCEPT ![m] = @ + 1] ELSE handled
  /\ UNCHANGED <<racerVars, roomVars, workerVars>>

------------------------------------------------------------------------------
(* Teardown: the host aborts the signal, which stops every started child    *)
(* through its abort listener, then stops the adapter.                      *)
Abort ==
  /\ phase # "idle" /\ ~aborted
  /\ aborted' = TRUE
  /\ life' = StopAll({c \in Child : life[c] = "live"})
  /\ UNCHANGED <<phase, children, pumps, liveChildren, outOpen, roomVars,
                 worker, stopped, msgVars>>

(* Mutant of StopAdapter: stop leaves closing the output to the pumps.      *)
StopWithoutClosing ==
  /\ aborted /\ ~stopped
  /\ stopped' = TRUE
  /\ life' = StopAll(children)
  /\ UNCHANGED <<phase, children, pumps, liveChildren, outOpen, roomVars, worker, aborted, msgVars>>

(* stop() of the racer.                                                     *)
StopAdapter ==
  /\ aborted /\ ~stopped
  /\ stopped' = TRUE
  /\ life' = StopAll(children)
  /\ outOpen' = FALSE
  /\ UNCHANGED <<phase, children, pumps, liveChildren, roomVars, worker, aborted, msgVars>>

(* The read loop of Worker.run ends with the output queue; its finally      *)
(* removes the sink.                                                        *)
WorkerEnds ==
  /\ worker = "serving" /\ phase = "running" /\ ~outOpen
  /\ worker' = "ended"
  /\ UNCHANGED <<racerVars, roomVars, aborted, stopped, msgVars>>

Next ==
  \/ Start \/ StartResolves
  \/ \E c \in Child : PumpEnds(c)
  \/ \E k \in Callers :
       \/ SetRooms(k) \/ PumpAdded(k) \/ SetRoomsReturns(k)
       \/ \E r \in Rooms : RemoveRoom(k, r) \/ AddRoom(k, r)
  \/ \E c \in Child, m \in Msgs : Offer(c, m)
  \/ Abort \/ StopAdapter \/ WorkerEnds

(* The event loop runs every continuation that is ready, a timer that was   *)
(* set fires, and the host's teardown calls stop right after the abort.     *)
Fairness ==
  /\ WF_vars(StartResolves) /\ WF_vars(StopAdapter) /\ WF_vars(WorkerEnds)
  /\ \A c \in Child : WF_vars(PumpEnds(c))
  /\ \A k \in Callers :
       /\ WF_vars(PumpAdded(k)) /\ WF_vars(SetRoomsReturns(k))
       /\ \A r \in Rooms : WF_vars(RemoveRoom(k, r)) /\ WF_vars(AddRoom(k, r))

Spec == Init /\ [][Next]_vars
FairSpec == Spec /\ Fairness

------------------------------------------------------------------------------
(* #liveChildren counts the pumps that still run and the children whose     *)
(* pump is about to start, and nothing else.                                *)
Pumping == {c \in Child : pumps[c] > 0}
Adding == {k \in Callers : call[k].adding # NoPoll}

LiveCountExact ==
  /\ \A c \in Child : pumps[c] <= 1
  /\ phase = "starting" => liveChildren = Cardinality(children)
  /\ phase = "running" => liveChildren = Cardinality(Pumping) + Cardinality(Adding)

(* "removing one room poll among several never stops the racer as a whole"  *)
(* (removeChild, adapters/racing.ts): while the push stream is alive and    *)
(* nobody stopped the adapter, the racer's output stays open.               *)
OutputOpenWhilePushLives == life[Push] = "live" /\ ~stopped => outOpen

(* setRooms never runs more dedicated polls than slotBudget, not even       *)
(* between two steps of a switch, and every running poll is the one its     *)
(* room's map entry names, so that a later call can still stop it.          *)
SlotBudget ==
  LET running == {p \in PollIds : life[p] = "live"} IN
    /\ Cardinality(running) <= Budget
    /\ \A p \in running : polls[pollRoom[p]] = p

(* A message the race accepted has reached the worker exactly once, unless  *)
(* the run was aborted: the first copy is never handed to a worker that     *)
(* already left, and no later copy gets through.                            *)
AcceptedReachesWorkerOnce ==
  ~aborted => \A m \in Msgs : handled[m] = IF m \in seenIds THEN 1 ELSE 0

(* A room that is both in the old and in the new selection keeps the very   *)
(* poll it had, running, through the whole switch.                          *)
KeptRoomKeepsItsPoll ==
  [][\A k \in Callers : \A r \in Rooms :
       call[k].busy /\ r \in call[k].want /\ r \notin call[k].add /\ ~aborted'
         => polls'[r] = polls[r] /\ life'[polls[r]] = "live"]_vars

(* A switch ends, and in between nothing else: with the wanted rooms and no *)
(* others polled, each poll read by a pump, unless the run was aborted.     *)
SwitchTakesEffect ==
  \A k \in Callers : \A want \in SUBSET Rooms :
    (call[k].busy /\ call[k].want = want)
      ~> (aborted \/ (Polled = want /\ \A r \in want : pumps[polls[r]] = 1))

(* After a teardown the worker's read loop ends and its sink is gone.       *)
TeardownEndsWorker == aborted ~> worker = "ended"
=============================================================================
