---------------------------- MODULE ReplyPipeline ----------------------------
(***************************************************************************)
(* The reply path of one bot: Worker.#handle (worker/worker.ts) runs every  *)
(* inbound event through the gates of processInbound                        *)
(* (pipeline/process-inbound.ts) on the correctness core the Worker was     *)
(* made with (core/core.ts): three claim stores, the job registry and the   *)
(* rate limiter.  The core lives as long as its Worker; the rules and the   *)
(* selected rooms are swapped while it runs.                                *)
(*                                                                         *)
(* Gates and the start of the send are one synchronous step.  A bounded TTL *)
(* map (lib/bounded-ttl-map.ts) whose entries all have one TTL is a         *)
(* function from keys to the time of insertion, 0 meaning no entry: the     *)
(* insertion order JavaScript keeps is the order of these times, and which  *)
(* of several entries of the same millisecond came first is left open.      *)
(***************************************************************************)
EXTENDS Integers, Sequences, FiniteSets

CONSTANTS
  Msgs, Rooms, RoomOf,    (* messages LINE may deliver, and their rooms      *)
  Allowed,                (* messages whose sender the allowlist admits      *)
  Rules, NoRule,
  RuleSets,               (* rule sets: the rule each message matches        *)
  Incoming, Reply, Room, Jobs, (* ttlMs and maxEntries of the four maps      *)
  Capacity, Unit, Refill, (* a token is Unit; Refill is gained per tick      *)
  IdleTtl,                (* idleTtlMs of the rate limiter                   *)
  MaxTime                 (* bound on the clock                              *)

Keys == Msgs \X Rules
Time == 0..MaxTime
Full == Capacity * Unit

IsLimits(c) == c.ttl \in Nat \ {0} /\ c.max \in Nat \ {0}

ASSUME PipelineAssumption ==
  /\ IsFiniteSet(Msgs) /\ IsFiniteSet(Rooms) /\ IsFiniteSet(Rules)
  /\ RoomOf \in [Msgs -> Rooms] /\ Allowed \subseteq Msgs
  /\ NoRule \notin Rules
  /\ RuleSets \subseteq [Msgs -> Rules \union {NoRule}]
  /\ IsLimits(Incoming) /\ IsLimits(Reply) /\ IsLimits(Room) /\ IsLimits(Jobs)
  /\ Capacity \in Nat \ {0} /\ Unit \in Nat \ {0} /\ Refill \in Nat \ {0}
  /\ MaxTime \in Nat \ {0}

(* A bucket may only be forgotten when it would be full again anyway, and   *)
(* the bot is in fewer rooms than the limiter tracks (maxRooms).            *)
ASSUME IdleAssumption == IdleTtl \in Nat /\ IdleTtl * Refill >= Full

VARIABLES
  now,        (* Clock.now(), not moved back                                 *)
  rules,      (* deps.rules                                                  *)
  selected,   (* #selectedRooms                                              *)
  incoming, reply, roomAnswer, (* Claims                                     *)
  jobs,       (* JobRegistry; every record in it is dispatched               *)
  buckets,    (* RateLimiter: tokens and the time of the last look           *)
  waiting,    (* #inFlight tasks that wait for the send of each message      *)
  phase,      (* Worker.run                                                  *)
  aborted,    (* the run's AbortSignal                                       *)
  threw,      (* history: processInbound has rejected, a "pipeline error"    *)
  decided,    (* history: when a reply was last sent or dropped by the limit *)
  sent,       (* history: when each job was last dispatched                  *)
  admits      (* history: the times at which each room spent a token         *)

claimVars == <<incoming, reply, roomAnswer>>
coreVars == <<claimVars, jobs, buckets>>
history == <<decided, sent, admits>>
runVars == <<phase, aborted>>
vars == <<now, rules, selected, coreVars, waiting, runVars, threw, history>>

(* BoundedTtlMap.                                                           *)

Entries(map) == {k \in DOMAIN map : map[k] # 0}
Has(map, k, c) == map[k] # 0 /\ map[k] + c.ttl > now

TypeOK ==
  /\ now \in Time \ {0}
  /\ rules \in RuleSets /\ selected \in SUBSET Rooms
  /\ incoming \in [Msgs -> Time] /\ reply \in [Keys -> Time]
  /\ roomAnswer \in [Msgs -> Time] /\ jobs \in [Keys -> Time]
  /\ Cardinality(Entries(incoming)) <= Incoming.max
  /\ Cardinality(Entries(reply)) <= Reply.max
  /\ Cardinality(Entries(roomAnswer)) <= Room.max
  /\ Cardinality(Entries(jobs)) <= Jobs.max
  /\ buckets \in [Rooms -> [tokens: 0..Full, at: Time]]
  /\ waiting \in [Msgs -> Nat]
  /\ phase \in {"running", "draining", "returned"} /\ aborted \in BOOLEAN
  /\ threw \in BOOLEAN
  /\ decided \in [Msgs -> Time] /\ sent \in [Keys -> Time]
  /\ admits \in [Rooms -> Seq(Time)]

------------------------------------------------------------------------------
(* A key the insertion of k pushes out of a map that is too large.          *)
Evictable(map, k) ==
  {o \in Entries(map) \ {k} : \A p \in Entries(map) : map[o] <= map[p]}

(* BoundedTtlMap.set.                                                       *)
Sets(map, k, c) ==
  LET added == [map EXCEPT ![k] = now] IN
    IF Cardinality(Entries(added)) <= c.max THEN {added}
    ELSE {[added EXCEPT ![o] = 0] : o \in Evictable(added, k)}

(* Mutant of TryClaim: a claim is good for one tick less than its TTL.      *)
TryClaimEarly(map, k, c) == ~(map[k] # 0 /\ map[k] + c.ttl > now + 1)

(* ClaimStore.tryClaim succeeds.                                            *)
TryClaim(map, k, c) == ~Has(map, k, c)

(* Mutant of Refilled: any look after a pause gains a whole token.          *)
RefilledRoundingUp(b) ==
  IF b.at = 0 \/ b.at + IdleTtl <= now THEN Full
  ELSE LET t == IF b.at = now THEN b.tokens ELSE b.tokens + Unit IN
         IF t < Full THEN t ELSE Full

(* RateLimiter.#refill; a bucket that was idle too long is a new one.       *)
Refilled(b) ==
  IF b.at = 0 \/ b.at + IdleTtl <= now THEN Full
  ELSE LET t == b.tokens + (now - b.at) * Refill IN IF t < Full THEN t ELSE Full

------------------------------------------------------------------------------
Empty(S) == [k \in S |-> 0]

NoBuckets == [r \in Rooms |-> [tokens |-> 0, at |-> 0]]

(* A Worker is made with an empty core.                                     *)
Init ==
  /\ now = 1
  /\ rules \in RuleSets /\ selected = Rooms
  /\ incoming = Empty(Msgs) /\ reply = Empty(Keys) /\ roomAnswer = Empty(Msgs)
  /\ jobs = Empty(Keys) /\ buckets = NoBuckets
  /\ decided = Empty(Msgs) /\ sent = Empty(Keys) /\ admits = [r \in Rooms |-> <<>>]
  /\ waiting = Empty(Msgs)
  /\ phase = "running" /\ aborted = FALSE
  /\ threw = FALSE

Tick ==
  /\ now < MaxTime
  /\ now' = now + 1
  /\ UNCHANGED <<rules, selected, coreVars, waiting, runVars, threw, history>>

SetRules ==
  /\ phase = "running"
  /\ rules' \in RuleSets
  /\ UNCHANGED <<now, selected, coreVars, waiting, runVars, threw, history>>

SetSelectedRooms ==
  /\ phase = "running"
  /\ selected' \in SUBSET Rooms
  /\ UNCHANGED <<now, rules, coreVars, waiting, runVars, threw, history>>

------------------------------------------------------------------------------
(* #handle and processInbound, one action per way through the gates.        *)

(* The adapter delivers message m, once more or for the first time.         *)
Delivered(m) == phase = "running" /\ ~aborted

(* The event goes no further than a gate.                                   *)
Suppressed == UNCHANGED <<now, rules, selected, waiting, runVars, threw, history>>

RoomNotSelected(m) ==
  /\ Delivered(m) /\ RoomOf[m] \notin selected
  /\ Suppressed
  /\ UNCHANGED coreVars

Handled(m) == Delivered(m) /\ RoomOf[m] \in selected

SenderNotAllowed(m) ==
  /\ Handled(m) /\ m \notin Allowed
  /\ Suppressed
  /\ UNCHANGED coreVars

DedupedIncoming(m) ==
  /\ Handled(m) /\ m \in Allowed
  /\ ~TryClaim(incoming, m, Incoming)
  /\ Suppressed
  /\ UNCHANGED coreVars

ClaimsIncoming(m) ==
  /\ Handled(m) /\ m \in Allowed
  /\ TryClaim(incoming, m, Incoming)
  /\ incoming' \in Sets(incoming, m, Incoming)

NoRuleMatches(m) ==
  /\ ClaimsIncoming(m)
  /\ rules[m] = NoRule
  /\ Suppressed
  /\ UNCHANGED <<reply, roomAnswer, jobs, buckets>>

(* Looking the job up drops its record if it has expired.                   *)
Job(m) == <<m, rules[m]>>
JobsRead(m) == IF Has(jobs, Job(m), Jobs) THEN jobs ELSE [jobs EXCEPT ![Job(m)] = 0]

Matches(m) == ClaimsIncoming(m) /\ rules[m] # NoRule

DedupedReply(m) ==
  /\ Matches(m)
  /\ ~TryClaim(reply, Job(m), Reply)
  /\ jobs' = JobsRead(m)
  /\ Suppressed
  /\ UNCHANGED <<reply, roomAnswer, buckets>>

ClaimsReply(m) ==
  /\ Matches(m)
  /\ TryClaim(reply, Job(m), Reply)
  /\ reply' \in Sets(reply, Job(m), Reply)

DedupedRoom(m) ==
  /\ ClaimsReply(m)
  /\ ~TryClaim(roomAnswer, m, Room)
  /\ jobs' = JobsRead(m)
  /\ Suppressed
  /\ UNCHANGED <<roomAnswer, buckets>>

ClaimsRoom(m) ==
  /\ ClaimsReply(m)
  /\ TryClaim(roomAnswer, m, Room)
  /\ roomAnswer' \in Sets(roomAnswer, m, Room)
  /\ decided' = [decided EXCEPT ![m] = now]

Tokens(m) == Refilled(buckets[RoomOf[m]])
Bucket(m, tokens) ==
  buckets' = [buckets EXCEPT ![RoomOf[m]] = [tokens |-> tokens, at |-> now]]

RateLimited(m) ==
  /\ ClaimsRoom(m)
  /\ Tokens(m) < Unit
  /\ Bucket(m, Tokens(m))
  /\ jobs' = JobsRead(m)
  /\ UNCHANGED <<now, rules, selected, waiting, runVars, threw, sent, admits>>

Admitted(m) ==
  /\ ClaimsRoom(m)
  /\ Tokens(m) >= Unit
  /\ Bucket(m, Tokens(m) - Unit)
  /\ admits' = [admits EXCEPT ![RoomOf[m]] = Append(@, now)]

(* markEligible throws on a job that was dispatched before.                 *)
Throws(m) ==
  /\ Admitted(m)
  /\ Has(jobs, Job(m), Jobs)
  /\ threw' = TRUE
  /\ UNCHANGED <<now, rules, selected, jobs, waiting, runVars, sent>>

(* Mutant of Sends: the job is registered when the send is acknowledged.    *)
SendsUnregistered(m) ==
  /\ Admitted(m)
  /\ ~Has(jobs, Job(m), Jobs)
  /\ jobs' = JobsRead(m)
  /\ sent' = [sent EXCEPT ![Job(m)] = now]
  /\ waiting' = [waiting EXCEPT ![m] = @ + 1]
  /\ UNCHANGED <<now, rules, selected, runVars, threw>>

(* Otherwise the job is dispatched and the send starts.                     *)
Sends(m) ==
  /\ Admitted(m)
  /\ ~Has(jobs, Job(m), Jobs)
  /\ jobs' \in Sets(JobsRead(m), Job(m), Jobs)
  /\ sent' = [sent EXCEPT ![Job(m)] = now]
  /\ waiting' = [waiting EXCEPT ![m] = @ + 1]
  /\ UNCHANGED <<now, rules, selected, runVars, threw>>

------------------------------------------------------------------------------
(* Mutant of Settles: the deadline is the run's, and ends with it.          *)
SettlesWhileRunning(m) ==
  /\ waiting[m] > 0 /\ phase = "running"
  /\ waiting' = [waiting EXCEPT ![m] = @ - 1]
  /\ UNCHANGED <<now, rules, selected, coreVars, runVars, threw, history>>

(* The send is acknowledged, fails, or is given up after opTimeoutMs; the   *)
(* request itself is never withdrawn and never repeated.                    *)
Settles(m) ==
  /\ waiting[m] > 0
  /\ waiting' = [waiting EXCEPT ![m] = @ - 1]
  /\ UNCHANGED <<now, rules, selected, coreVars, runVars, threw, history>>

(* The deadline of every send trips with the run's signal.                  *)
Abort ==
  /\ phase = "running" /\ ~aborted
  /\ aborted' = TRUE
  /\ waiting' = Empty(Msgs)
  /\ UNCHANGED <<now, rules, selected, coreVars, phase, threw, history>>

(* The adapter's stream ends: after a stop, or because it died.             *)
StreamEnds ==
  /\ phase = "running"
  /\ phase' = "draining"
  /\ UNCHANGED <<now, rules, selected, coreVars, waiting, aborted, threw, history>>

(* Worker.drain has seen every task settle.                                 *)
RunReturns ==
  /\ phase = "draining" /\ \A m \in Msgs : waiting[m] = 0
  /\ phase' = "returned"
  /\ UNCHANGED <<now, rules, selected, coreVars, waiting, aborted, threw, history>>

(* BotHost reconnects with a new Worker.                                    *)
Restart ==
  /\ phase = "returned"
  /\ phase' = "running" /\ aborted' = FALSE
  /\ incoming' = Empty(Msgs) /\ reply' = Empty(Keys) /\ roomAnswer' = Empty(Msgs)
  /\ jobs' = Empty(Keys) /\ buckets' = NoBuckets
  /\ decided' = Empty(Msgs) /\ sent' = Empty(Keys) /\ admits' = [r \in Rooms |-> <<>>]
  /\ threw' = FALSE
  /\ UNCHANGED <<now, rules, selected, waiting>>

Receive(m) ==
  \/ RoomNotSelected(m) \/ SenderNotAllowed(m) \/ DedupedIncoming(m)
  \/ NoRuleMatches(m) \/ DedupedReply(m) \/ DedupedRoom(m)
  \/ RateLimited(m) \/ Throws(m) \/ Sends(m)

Next ==
  \/ Tick \/ SetRules \/ SetSelectedRooms
  \/ \E m \in Msgs : Receive(m) \/ Settles(m)
  \/ Abort \/ StreamEnds \/ RunReturns \/ Restart

(* A send settles at the latest by its deadline, and a stopped adapter ends *)
(* its stream.                                                              *)
Fairness ==
  /\ \A m \in Msgs : WF_vars(Settles(m))
  /\ WF_vars(aborted /\ StreamEnds) /\ WF_vars(RunReturns)

Spec == Init /\ [][Next]_vars
FairSpec == Spec /\ Fairness

------------------------------------------------------------------------------
Starts(m) == waiting'[m] > waiting[m]

(* Of the entries of a map with these insertion times, enough are as new as *)
(* the one of k to have pushed it out.                                      *)
Crowded(times, k, c) ==
  Cardinality({o \in DOMAIN times \ {k} : times[o] >= times[k]}) >= c.max

(* Once a message was answered, or dropped by the rate limit, it is not     *)
(* answered again by this worker until roomAnswer's TTL has run out or      *)
(* maxEntries other messages have been decided on: not on a redelivery from *)
(* another source, not under a rule set loaded in between, not because the  *)
(* first send failed or timed out.                                          *)
AnsweredOnce ==
  [][\A m \in Msgs : Starts(m) /\ decided[m] # 0
       => now >= decided[m] + Room.ttl \/ Crowded(decided, m, Room)]_vars

(* Within the registry's TTL one job is not dispatched twice, although the  *)
(* claims before it lapse much earlier.                                     *)
JobDispatchedOnce ==
  [][\A m \in Msgs : Starts(m) /\ sent[Job(m)] # 0
       => now >= sent[Job(m)] + Jobs.ttl \/ Crowded(sent, Job(m), Jobs)]_vars

(* No window of time sees more admissions in a room than the burst and what *)
(* is refilled in that window, however the looks at the bucket fall.        *)
RateBound ==
  \A r \in Rooms : \A i, j \in DOMAIN admits[r] :
    i <= j => (j - i + 1) * Unit <= Full + (admits[r][j] - admits[r][i]) * Refill

(* "Never throws on normal control flow" (processInbound).                  *)
NeverThrows == ~threw

(* Worker.run returns after its stream has ended, whatever sends are in     *)
(* flight.                                                                  *)
DrainTerminates == phase = "draining" ~> phase = "returned"
===============================================================================
