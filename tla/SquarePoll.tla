------------------------------ MODULE SquarePoll ------------------------------
(***************************************************************************)
(* The dedicated poll of one room (adapters/linejs/square-poll.ts): drain   *)
(* the history, then fetch page after page, either in rounds of racing      *)
(* fetches or with staggered fetches that overlap.  The room itself is a    *)
(* log of events at LINE; a sync token is a position in that log.           *)
(*                                                                         *)
(* Launch times are compared, never measured: fetches are kept in launch    *)
(* order, and a fetch is fresh while no later one has been adopted.  Sleeps *)
(* last an arbitrary time.  A call that is answered in time waits a few     *)
(* microtasks (withTimeout, firstFulfilled, two awaits) until its page is   *)
(* taken; what else may happen in between is over-approximated.             *)
(***************************************************************************)
EXTENDS Integers, Sequences, SequencesExt

CONSTANTS
  Options,      (* the pollStagger and pollRaceWidth a poll may be made with *)
  Limit,        (* events in one page                                        *)
  Backlog,      (* events in the room when the poll starts                   *)
  MaxLog,       (* bound on the events of the room                           *)
  MaxFaults,    (* bound on the fetches that fail, time out or bring no token *)
  SeenMax       (* SEEN_MESSAGE_IDS_MAX                                      *)

ASSUME PollAssumption ==
  /\ \A o \in Options : o.stagger \in Nat \ {0} /\ o.width \in Nat \ {0}
  /\ Limit \in Nat \ {0} /\ SeenMax \in Nat \ {0}
  /\ Backlog \in Nat /\ MaxLog \in Nat /\ Backlog <= MaxLog
  /\ MaxFaults \in Nat

VARIABLES
  opts,      (* the options of this poll                                     *)
  log,       (* the room at LINE: each event is a message or something else  *)
  stage,     (* where the loop stands                                        *)
  hold,      (* the loop sleeps: interval, reply quiet window or backoff     *)
  cursor,    (* #syncToken; 0 before the first page                          *)
  drained,   (* #drained                                                     *)
  inFlight,  (* fetches whose call has not settled or whose page has not     *)
             (* been taken, in launch order                                  *)
  seen,      (* #seenOrder, the keys of #seenIds                             *)
  emitted,   (* the messages given to #emit, in order                        *)
  drainedAt, (* history: the end of the page that set #drained, 0 before     *)
  unmoved,   (* history: the emissions of rounds whose page had no token     *)
  aborted,   (* stop() or the run's signal aborted #controller               *)
  faults     (* the faults so far                                            *)

loopVars == <<opts, stage, hold>>
cursorVars == <<cursor, drained, drainedAt>>
outVars == <<seen, emitted, unmoved>>
vars == <<loopVars, log, cursorVars, inFlight, outVars, aborted, faults>>

Kinds == {"message", "other"}
Stages == {"ready", "racing", "won", "settling", "staggered", "ended"}
Fetch == [from: 0..MaxLog, sent: 0..MaxLog, late: BOOLEAN, fresh: BOOLEAN,
          got: BOOLEAN, to: 0..MaxLog, token: BOOLEAN]

TypeOK ==
  /\ opts \in Options
  /\ log \in Seq(Kinds) /\ Len(log) <= MaxLog
  /\ stage \in Stages /\ hold \in BOOLEAN
  /\ cursor \in 0..Len(log) /\ drainedAt \in 0..Len(log)
  /\ drained \in BOOLEAN /\ aborted \in BOOLEAN
  /\ inFlight \in Seq(Fetch)
  /\ seen \in Seq(1..MaxLog) /\ Len(seen) <= SeenMax
  /\ emitted \in Seq(1..MaxLog) /\ unmoved \subseteq DOMAIN emitted
  /\ faults \in 0..MaxFaults

Smaller(a, b) == IF a < b THEN a ELSE b

(* A call sent now; LINE reads the log some time before it answers.         *)
Request == [from |-> cursor, sent |-> Len(log), late |-> FALSE, fresh |-> TRUE,
            got |-> FALSE, to |-> cursor, token |-> TRUE]

(* The positions a page may reach when LINE answers fetch f.                *)
PageEnds(f) == {Smaller(f.from + Limit, sample) : sample \in f.sent..Len(log)}

(* makeLinejsSquareFetcher keeps the message events of the page, in order.  *)
Messages(from, to) ==
  LET kept == {p \in (from + 1)..to : log[p] = "message"} IN
    CHOOSE page \in [1..Cardinality(kept) -> kept] :
      \A i, j \in DOMAIN page : i < j => page[i] < page[j]

(* The calls waited for, and those whose page has come and is not taken.    *)
Awaited == {i \in DOMAIN inFlight : ~inFlight[i].late /\ ~inFlight[i].got}
InHand == {i \in DOMAIN inFlight : inFlight[i].got}

(* Every call not answered by now is given up.                              *)
AllLate(fs) == [i \in DOMAIN fs |-> [fs[i] EXCEPT !.late = @ \/ ~fs[i].got]]

Paged(f, to, token) == [f EXCEPT !.got = TRUE, !.to = to, !.token = token]

Fault == faults < MaxFaults /\ faults' = faults + 1

------------------------------------------------------------------------------
(* The constructor refuses to stagger and race at once.                     *)
Init ==
  /\ opts \in {o \in Options : ~(o.stagger > 1 /\ o.width > 1)}
  /\ log \in [1..Backlog -> Kinds]
  /\ stage = "ready" /\ hold = FALSE
  /\ cursor = 0 /\ drained = FALSE /\ drainedAt = 0
  /\ inFlight = <<>>
  /\ seen = <<>> /\ emitted = <<>> /\ unmoved = {}
  /\ aborted = FALSE /\ faults = 0

(* Somebody posts, joins, reacts, ... in the room.                          *)
Post(kind) ==
  /\ Len(log) < MaxLog
  /\ log' = Append(log, kind)
  /\ UNCHANGED <<loopVars, cursorVars, inFlight, outVars, aborted, faults>>

(* A sleep is over, by its timer or because the signal was aborted.         *)
Wake ==
  /\ hold
  /\ hold' = FALSE
  /\ UNCHANGED <<opts, stage, log, cursorVars, inFlight, outVars, aborted, faults>>

(* A call is answered in time, with a sync token or without one.  The first *)
(* racer answered wins its round: nobody waits for the others any more.     *)
Answer(i) ==
  /\ i \in Awaited
  /\ \E to \in PageEnds(inFlight[i]), token \in BOOLEAN :
       /\ IF token THEN UNCHANGED faults ELSE Fault
       /\ LET paged == [inFlight EXCEPT ![i] = Paged(@, to, token)] IN
          inFlight' = IF stage = "racing" THEN AllLate(paged) ELSE paged
  /\ stage' = IF stage = "racing" THEN "won" ELSE stage
  /\ UNCHANGED <<opts, hold, log, cursorVars, outVars, aborted>>

------------------------------------------------------------------------------
(* Rounds: #loop and #round.                                                *)

BeginRound ==
  /\ stage = "ready" /\ ~hold /\ ~aborted
  /\ ~(drained /\ opts.stagger > 1)
  /\ stage' = "racing"
  /\ inFlight' = [i \in 1..opts.width |-> Request]
  /\ UNCHANGED <<opts, hold, log, cursorVars, outVars, aborted, faults>>

(* Mutant of Win: the page that ends the drain is the first one.            *)
WinDrainingOnce(i) ==
  /\ stage = "won" /\ i \in InHand
  /\ LET f == inFlight[i]
         page == Messages(f.from, f.to) IN
       /\ cursor' = IF f.token THEN f.to ELSE cursor
       /\ drained' = TRUE
       /\ drainedAt' = IF drained THEN drainedAt ELSE f.to
       /\ emitted' = IF drained THEN emitted \o page ELSE emitted
       /\ unmoved' = unmoved
  /\ stage' = "settling"
  /\ inFlight' = AllLate(RemoveAt(inFlight, i))
  /\ UNCHANGED <<opts, hold, log, seen, aborted, faults>>

(* The round goes on with the page that won, without another look at the    *)
(* signal, and aborts the losers last.  A page without a token leaves the   *)
(* cursor where it is.  While draining, a page without a message ends the   *)
(* drain.                                                                   *)
Win(i) ==
  /\ stage = "won" /\ i \in InHand
  /\ LET f == inFlight[i]
         page == Messages(f.from, f.to) IN
       /\ cursor' = IF f.token THEN f.to ELSE cursor
       /\ drained' = (drained \/ page = <<>>)
       /\ drainedAt' = IF ~drained /\ page = <<>> THEN f.to ELSE drainedAt
       /\ emitted' = IF drained THEN emitted \o page ELSE emitted
       /\ unmoved' = IF f.token THEN unmoved
                     ELSE unmoved \union (DOMAIN emitted' \ DOMAIN emitted)
  /\ stage' = "settling"
  /\ inFlight' = AllLate(RemoveAt(inFlight, i))
  /\ UNCHANGED <<opts, hold, log, seen, aborted, faults>>

(* A racer fails; firstFulfilled rejects with the last one.                 *)
RacerFails(i) ==
  /\ stage = "racing" /\ i \in Awaited /\ Fault
  /\ inFlight' = RemoveAt(inFlight, i)
  /\ stage' = IF Awaited = {i} THEN "settling" ELSE stage
  /\ UNCHANGED <<opts, hold, log, cursorVars, outVars, aborted>>

(* A racer times out.  Its real call goes on.                               *)
RacerTimesOut(i) ==
  /\ stage = "racing" /\ i \in Awaited /\ Fault
  /\ inFlight' = [inFlight EXCEPT ![i].late = TRUE]
  /\ stage' = IF Awaited = {i} THEN "settling" ELSE stage
  /\ UNCHANGED <<opts, hold, log, cursorVars, outVars, aborted>>

(* settleStragglers has seen every call of the round settle.                *)
RoundEnds ==
  /\ stage = "settling" /\ inFlight = <<>>
  /\ stage' = "ready"
  /\ hold' = ~aborted
  /\ UNCHANGED <<opts, log, cursorVars, inFlight, outVars, aborted, faults>>

EnterStagger ==
  /\ stage = "ready" /\ ~hold /\ ~aborted
  /\ drained /\ opts.stagger > 1
  /\ stage' = "staggered"
  /\ UNCHANGED <<opts, hold, log, cursorVars, inFlight, outVars, aborted, faults>>

------------------------------------------------------------------------------
(* Staggered fetches: #staggeredLoop and #staggeredFetch.                   *)

(* Mutant of Launch: only fetches still waited for are counted.             *)
LaunchPastLate ==
  /\ stage = "staggered" /\ ~hold /\ ~aborted
  /\ Cardinality(Awaited) < opts.stagger /\ Len(inFlight) < 4
  /\ inFlight' = Append(inFlight, Request)
  /\ UNCHANGED <<loopVars, log, cursorVars, outVars, aborted, faults>>

Launch ==
  /\ stage = "staggered" /\ ~hold /\ ~aborted
  /\ Len(inFlight) < opts.stagger
  /\ inFlight' = Append(inFlight, Request)
  /\ UNCHANGED <<loopVars, log, cursorVars, outVars, aborted, faults>>

(* Mutant of FirstSighting: every message is remembered, none is filtered.  *)
EverySighting(out, p) ==
  [seen |-> LET s == Append(out.seen, p) IN IF Len(s) > SeenMax THEN Tail(s) ELSE s,
   emitted |-> Append(out.emitted, p)]

(* #firstSighting, and #emit of the message if it is one.                   *)
FirstSighting(out, p) ==
  IF Contains(out.seen, p) THEN out
  ELSE [seen |-> LET s == Append(out.seen, p) IN IF Len(s) > SeenMax THEN Tail(s) ELSE s,
        emitted |-> Append(out.emitted, p)]

(* The fetches left when page i is adopted: those launched before it are    *)
(* not adopted any more.                                                    *)
Adopted(i) ==
  [j \in 1..(Len(inFlight) - 1) |->
     IF j < i THEN [inFlight[j] EXCEPT !.fresh = @ /\ ~inFlight[i].fresh]
     ELSE inFlight[j + 1]]

(* Mutant of Deliver: once a later fetch is out, the messages of an earlier *)
(* one are left to it.                                                      *)
DeliverLatestOnly(i) ==
  /\ stage = "staggered" /\ i \in InHand
  /\ LET f == inFlight[i]
         base == [seen |-> seen, emitted |-> emitted]
         out == IF Len(inFlight) > i THEN base
                ELSE FoldLeft(FirstSighting, base, Messages(f.from, f.to)) IN
       /\ cursor' = IF f.fresh /\ f.token THEN f.to ELSE cursor
       /\ seen' = out.seen /\ emitted' = out.emitted
       /\ hold' = hold
  /\ inFlight' = Adopted(i)
  /\ UNCHANGED <<opts, stage, log, drained, drainedAt, unmoved, aborted, faults>>

(* The page of a staggered fetch is taken, without another look at the      *)
(* signal.  Its token, if it has one, is adopted unless a later launch has  *)
(* been adopted already; its messages are emitted either way.  After a hit  *)
(* the loop may hold for the reply it has just started.                     *)
Deliver(i) ==
  /\ stage = "staggered" /\ i \in InHand
  /\ LET f == inFlight[i]
         out == FoldLeft(FirstSighting, [seen |-> seen, emitted |-> emitted],
                         Messages(f.from, f.to)) IN
       /\ cursor' = IF f.fresh /\ f.token THEN f.to ELSE cursor
       /\ seen' = out.seen /\ emitted' = out.emitted
       /\ hold' \in IF out.emitted # emitted /\ ~aborted THEN {hold, TRUE} ELSE {hold}
  /\ inFlight' = Adopted(i)
  /\ UNCHANGED <<opts, stage, log, drained, drainedAt, unmoved, aborted, faults>>

(* The real call rejects: back off.                                         *)
FetchFails(i) ==
  /\ stage = "staggered" /\ i \in Awaited /\ Fault
  /\ inFlight' = RemoveAt(inFlight, i)
  /\ hold' = TRUE
  /\ UNCHANGED <<opts, stage, log, cursorVars, outVars, aborted>>

(* The timeout fires first: the slot stays taken until the call settles.    *)
FetchTimesOut(i) ==
  /\ stage = "staggered" /\ i \in Awaited /\ Fault
  /\ inFlight' = [inFlight EXCEPT ![i].late = TRUE]
  /\ UNCHANGED <<loopVars, log, cursorVars, outVars, aborted>>

------------------------------------------------------------------------------
(* Mutant of LateSettles: a timed-out staggered fetch never gives back its  *)
(* slot.                                                                    *)
LateSettlesInRounds(i) ==
  /\ i \in DOMAIN inFlight /\ inFlight[i].late /\ stage = "settling"
  /\ inFlight' = RemoveAt(inFlight, i)
  /\ UNCHANGED <<loopVars, log, cursorVars, outVars, aborted, faults>>

(* A call nobody waits for settles; its page, if it has one, is dropped.    *)
(* The staggered loop backs off only now, unless it is being stopped.       *)
LateSettles(i) ==
  /\ i \in DOMAIN inFlight /\ inFlight[i].late
  /\ inFlight' = RemoveAt(inFlight, i)
  /\ hold' = (hold \/ (stage = "staggered" /\ ~aborted))
  /\ UNCHANGED <<opts, stage, log, cursorVars, outVars, aborted, faults>>

(* Mutant of Stop: the calls in flight are not told.                        *)
StopWithoutAbort ==
  /\ ~aborted
  /\ aborted' = TRUE
  /\ hold' = FALSE
  /\ UNCHANGED <<opts, stage, log, cursorVars, inFlight, outVars, faults>>

(* stop(): every call not answered by now rejects at once, every sleep      *)
(* returns.                                                                 *)
Stop ==
  /\ ~aborted
  /\ aborted' = TRUE
  /\ hold' = FALSE
  /\ inFlight' = AllLate(inFlight)
  /\ stage' = IF stage = "racing" THEN "settling" ELSE stage
  /\ UNCHANGED <<opts, log, cursorVars, outVars, faults>>

(* Mutant of LoopEnds: the staggered loop does not look at the signal.      *)
RoundsEnd ==
  /\ aborted /\ stage = "ready" /\ inFlight = <<>>
  /\ stage' = "ended"
  /\ UNCHANGED <<opts, hold, log, cursorVars, inFlight, outVars, aborted, faults>>

(* The loop leaves once the calls in flight have settled.                   *)
LoopEnds ==
  /\ aborted /\ stage \in {"ready", "staggered"} /\ inFlight = <<>>
  /\ stage' = "ended"
  /\ UNCHANGED <<opts, hold, log, cursorVars, inFlight, outVars, aborted, faults>>

Next ==
  \/ \E kind \in Kinds : Post(kind)
  \/ Wake \/ BeginRound \/ RoundEnds \/ EnterStagger \/ Launch
  \/ \E i \in DOMAIN inFlight :
       \/ Answer(i) \/ Win(i) \/ RacerFails(i) \/ RacerTimesOut(i)
       \/ Deliver(i) \/ FetchFails(i) \/ FetchTimesOut(i)
       \/ LateSettles(i)
  \/ Stop \/ LoopEnds

(* Timers fire, ready continuations run and every real call settles, with a *)
(* page and a token once the faults are over.  Nobody has to post or to     *)
(* stop the poll.                                                           *)
Settles ==
  \E i \in DOMAIN inFlight : Answer(i) \/ Win(i) \/ Deliver(i) \/ LateSettles(i)

Fairness ==
  /\ WF_vars(Wake) /\ WF_vars(BeginRound) /\ WF_vars(RoundEnds)
  /\ WF_vars(EnterStagger) /\ WF_vars(LoopEnds)
  /\ WF_vars(Launch) /\ WF_vars(Settles)

Spec == Init /\ [][Next]_vars
FairSpec == Spec /\ Fairness

------------------------------------------------------------------------------
IsMessage(p) == p \in DOMAIN log /\ log[p] = "message"

(* The cursor never passes a live message that was not emitted: whatever    *)
(* fetch moves it, in whatever order pages arrive, fail and time out.       *)
NoLiveMessageSkipped ==
  drained => \A p \in (drainedAt + 1)..cursor : IsMessage(p) => Contains(emitted, p)

(* "overlapping staggered fetches emit each once": a message comes out      *)
(* again only after SEEN_MESSAGE_IDS_MAX others have.  In rounds, which     *)
(* filter nothing, it does so only if it came in a page without a token,    *)
(* after which the next round asks for the same page.                       *)
EmittedOnce ==
  \A i, j \in DOMAIN emitted :
    i < j /\ emitted[i] = emitted[j] =>
      IF opts.stagger > 1 THEN j - i > SeenMax ELSE i \in unmoved

(* "rounds never overlap"; "a timed-out fetch keeps its slot until the real *)
(* call settles": the calls at LINE are never more than the configured      *)
(* width, and those of one round ask for the same page.                     *)
CallsBounded ==
  /\ Len(inFlight) <= IF stage = "staggered" THEN opts.stagger ELSE opts.width
  /\ stage = "ready" => inFlight = <<>>
  /\ stage \in {"racing", "won"} => \A i \in DOMAIN inFlight : inFlight[i].from = cursor

(* The startup drain passes every message that was in the room before the   *)
(* poll started, so that old keywords are not answered.                     *)
HistoryNeverAnswered == \A p \in DOMAIN emitted : emitted[p] > Backlog

(* History is answered in one case only: the drain ended at a full page     *)
(* without a single message in it.                                          *)
HistoryOnlyPastSilentPage ==
  HistoryNeverAnswered
    \/ (drainedAt >= Limit /\ \A p \in (drainedAt - Limit + 1)..drainedAt : log[p] = "other")

(* After stop() no call is answered any more: only the pages that had come  *)
(* before it and were not yet taken are emitted, each once.                 *)
PagesInHand == Cardinality(InHand)

OnlyPagesInHandAfterStop ==
  [][aborted => IF emitted' = emitted THEN PagesInHand' <= PagesInHand
                ELSE PagesInHand' = PagesInHand - 1]_vars

(* A message posted after the drain is emitted, whatever fetches failed or  *)
(* timed out on the way, unless the poll is stopped.                        *)
LiveMessageEmitted ==
  \A p \in 1..MaxLog :
    (drained /\ p > drainedAt /\ IsMessage(p)) ~> (Contains(emitted, p) \/ aborted)

(* A stopped poll ends.                                                     *)
StopEndsLoop == aborted ~> stage = "ended"
===============================================================================
