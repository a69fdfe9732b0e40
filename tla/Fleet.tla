---------------------------------- MODULE Fleet ----------------------------------
(***************************************************************************)
(* One process that serves several people (serve --multi-bot): the console  *)
(* requests (admin/server.ts, bots/tenant-routes.ts) and the restore of all *)
(* bots at the start (BotRegistry.startOwned) find, assign and make bots    *)
(* through BotRegistry (bots/bot-registry.ts), the accounts are in          *)
(* UsersStore, connections are made behind the warm-up gate                 *)
(* (bots/connection-warmup-gate.ts), and cli/serve.ts starts and stops it   *)
(* all.  A BotHost is seen from outside: what its ready promise waits for   *)
(* and how it closes; BotHost.tla has its inside.                           *)
(*                                                                         *)
(* Requests, restores and host ids are bounded sets, whose members are used *)
(* again.  MaxRequests bounds the requests let in, MaxTroubles the file     *)
(* operations that fail and the further starts of the process.              *)
(***************************************************************************)
EXTENDS UsersStore, Sequences

CONSTANTS
  Reqs,         (* requests at a time; the other Procs are startOwned's workers *)
  Stored,       (* what the accounts file may hold at the first start       *)
  Spent,        (* what is already spent of the bounds then, for each of them *)
  PrimaryOwner, (* --primary-owner, or None                                 *)
  Limit,        (* limit of the warm-up gate                                *)
  MaxHosts, MaxRequests, MaxTroubles

Hosts == 1..MaxHosts
Restorers == Procs \ Reqs

(* Accounts as this code writes them: an admin, and nobody with another's   *)
(* bot.                                                                     *)
Proper(f) ==
  /\ \E u \in Users : f[u] # None /\ f[u].role = "admin"
  /\ \A u \in Users : f[u] # None =>
       /\ f[u].bot \in {None, Primary, u}
       /\ \A v \in Users \ {u} : f[v] # None /\ f[v].bot = Primary => f[u].bot # Primary

ASSUME FleetAssumption ==
  /\ Reqs \subseteq Procs /\ Reqs # Procs /\ None \notin Procs
  /\ Stored \subseteq {f \in Files : f = NobodyYet \/ Proper(f)}
  /\ PrimaryOwner \in Users \union {None}
  /\ Limit \in Nat \ {0} /\ MaxHosts \in Nat \ {0}
  /\ MaxRequests \in Nat /\ MaxTroubles \in Nat
  /\ Spent \in [Stored -> [requests: 0..MaxRequests, troubles: 0..MaxTroubles]]

VARIABLES
  phase,   (* main: new, down, starting, serving, closing (closeAll), draining *)
  awaited, (* the hosts closeAll waits for                                  *)
  call,    (* each request and each worker of startOwned                    *)
  owned,   (* startOwned's list: the records not yet taken                  *)
  turn,    (* who #assigning has let in                                     *)
  mapped,  (* #hosts                                                        *)
  host,    (* the BotHosts there are                                        *)
  pending, (* the warm-up gate's #pending                                   *)
  astray,  (* history: removed people's bots that release could not catch   *)
  unlucky, (* history: whose bot could not be listed, found or made         *)
  used     (* the bounds spent                                              *)

mainVars == <<phase, awaited>>
hostVars == <<mapped, host, pending>>
history == <<astray, unlucky>>
fleetVars == <<mainVars, call, owned, turn, hostVars, history, used>>
vars == <<storeVars, fleetVars>>

NoHost == [bot |-> None, at |-> "none", closing |-> FALSE]
Idle == [at |-> "idle", user |-> None, snap |-> None, bot |-> None, host |-> 0,
         kind |-> "none", on |-> None, role |-> "user", target |-> None]

Kinds == {"none", "create", "put", "remove"}
TurnSteps == {"assign", "bind", "binding", "config"}
Steps == {"idle", "turn", "await", "act", "role", "remove", "write",
          "release", "closing", "dead"} \union TurnSteps

TypeOK ==
  /\ StoreTypeOK
  /\ phase \in {"new", "down", "starting", "serving", "closing", "draining"}
  /\ awaited \in SUBSET Hosts
  /\ call \in [Procs -> [at: Steps, user: Users \union {None}, snap: Records \union {None},
                         bot: Bots \union {None}, host: Hosts \union {0}, kind: Kinds,
                         on: Users \union {None}, role: Roles, target: Records \union {None}]]
  /\ owned \in Files
  /\ turn \in Procs \union {None}
  /\ mapped \in [Bots -> Hosts \union {0}]
  /\ host \in [Hosts -> [bot: Bots \union {None}, closing: BOOLEAN,
                         at: {"none", "queued", "connecting", "ready"}]]
  /\ pending \in Seq(Hosts)
  /\ astray \in SUBSET Users /\ unlucky \in SUBSET Users
  /\ used \in [requests: 0..MaxRequests, troubles: 0..MaxTroubles]

Spend(what, max) == used[what] < max /\ used' = [used EXCEPT ![what] = @ + 1]

------------------------------------------------------------------------------
(* BoundedConnectionWarmupGate.  Connecting is the gate's work.             *)

Active(hs) == Cardinality({h \in Hosts : hs[h].at = "connecting"})

(* How many of the queue fit.                                               *)
Granted(hs, queue, limit) ==
  LET room == IF Active(hs) < limit THEN limit - Active(hs) ELSE 0
  IN IF room < Len(queue) THEN room ELSE Len(queue)

LetIn(hs, queue, n) ==
  /\ host' = [h \in Hosts |-> IF h \in {queue[i] : i \in 1..n}
                             THEN [hs[h] EXCEPT !.at = "connecting"] ELSE hs[h]]
  /\ pending' = SubSeq(queue, n + 1, Len(queue))

(* Mutant of Drained: #active < #limit is off by one.                       *)
DrainedTooFew(hs, queue) == LetIn(hs, queue, Granted(hs, queue, Limit - 1))

(* #drain                                                                   *)
Drained(hs, queue) == LetIn(hs, queue, Granted(hs, queue, Limit))

(* run: host h waits and #drain lets in as many as fit.                     *)
Submit(hs, h) == Drained(hs, Append(pending, h))

------------------------------------------------------------------------------
(* What waits for host h goes on: hostFor and startOwned when its ready     *)
(* settles, release when it is closed.                                      *)
Onward(c) == [c EXCEPT !.at = IF @ = "await" THEN "act" ELSE "idle", !.host = 0]

Settled(waits, h) ==
  call' = [p \in Procs |-> IF call[p].host = h /\ call[p].at \in waits
                           THEN IF p \in Reqs THEN Onward(call[p]) ELSE Idle
                           ELSE call[p]]

(* #connect has ended, with a connection or without.                        *)
HostReady(h) ==
  /\ host[h].at = "connecting"
  /\ Drained([host EXCEPT ![h].at = "ready"], pending)
  /\ Settled({"await"}, h)
  /\ UNCHANGED <<storeVars, mainVars, owned, turn, mapped, history, used>>

(* close ends: a host that waits for the gate connects first.               *)
HostCloses(h) ==
  /\ host[h].closing /\ host[h].at = "ready"
  /\ host' = [host EXCEPT ![h] = NoHost]
  /\ Settled({"await", "closing"}, h)
  /\ awaited' = awaited \ {h}
  /\ UNCHANGED <<storeVars, phase, owned, turn, mapped, pending, history, used>>

------------------------------------------------------------------------------
(* BotRegistry.                                                             *)

(* The caller's request fails, or its worker of startOwned ends with it.    *)
Failed(p) ==
  IF p \in Reqs THEN Idle ELSE [Idle EXCEPT !.at = "dead", !.user = call[p].user]

(* Mutant of TurnFree: assignments are not serialised.                      *)
TurnFreeAlways == TRUE

(* #serialised: nobody's #resolve is under way.                             *)
TurnFree == turn = None

(* Mutant of TurnFails: a rejected assignment keeps the others out.         *)
TurnFailsForGood(p) ==
  /\ call' = [call EXCEPT ![p] = Failed(p)]
  /\ unlucky' = unlucky \union {call[p].user}
  /\ UNCHANGED turn

(* #resolve rejects.                                                        *)
TurnFails(p) ==
  /\ call' = [call EXCEPT ![p] = Failed(p)]
  /\ unlucky' = unlucky \union {call[p].user}
  /\ turn' = None

(* The end of #resolve once bot b is known: its host, or its config next.   *)
LookUp(p, b) ==
  LET h == mapped[b]
  IN IF h = 0
     THEN /\ call' = [call EXCEPT ![p].at = "config", ![p].bot = b]
          /\ turn' = p
     ELSE /\ call' = [call EXCEPT ![p] =
               IF host[h].at # "ready" THEN [@ EXCEPT !.at = "await", !.bot = b, !.host = h]
               ELSE IF p \in Reqs THEN [@ EXCEPT !.at = "act", !.bot = b] ELSE Idle]
          /\ turn' = None

(* #resolve: findById ?? user.                                              *)
Resolve(p) ==
  /\ call[p].at = "turn" /\ TurnFree
  /\ ReadStore
  /\ LET u == call[p].user
         current == IF Contents[u] # None THEN Contents[u] ELSE call[p].snap
     IN IF current.bot # None THEN LookUp(p, current.bot)
        ELSE /\ call' = [call EXCEPT ![p].at = "assign", ![p].snap = current]
             /\ turn' = p
  /\ UNCHANGED <<mainVars, owned, hostVars, history, used>>

MayClaimPrimary(u, record) ==
  IF PrimaryOwner = None THEN record.role = "admin" ELSE u = PrimaryOwner

(* #assign up to setBotId.                                                  *)
Assign(p) ==
  /\ call[p].at = "assign"
  /\ ReadStore
  /\ LET u == call[p].user
         taken == \E v \in Users : Contents[v] # None /\ Contents[v].bot = Primary
         b == IF ~taken /\ MayClaimPrimary(u, call[p].snap) THEN Primary ELSE u
     IN call' = [call EXCEPT ![p].at = "bind", ![p].bot = b]
  /\ UNCHANGED <<mainVars, owned, turn, hostVars, history, used>>

(* setBotId, which refuses an account that is gone or a bot that is taken.  *)
Bind(p) ==
  /\ call[p].at = "bind"
  /\ LET u == call[p].user
         b == call[p].bot
     IN \/ /\ SetBotId(p, u, b)
           /\ call' = [call EXCEPT ![p].at = "binding"]
           /\ UNCHANGED <<turn, unlucky>>
        \/ ReadStore /\ ~MaySetBotId(u, b) /\ TurnFails(p)
  /\ UNCHANGED <<mainVars, owned, hostVars, astray, used>>

Bound(p) ==
  /\ call[p].at = "binding"
  /\ \/ Written(p) /\ LookUp(p, call[p].bot) /\ UNCHANGED <<unlucky, used>>
     \/ NotWritten(p) /\ TurnFails(p) /\ Spend("troubles", MaxTroubles)
  /\ UNCHANGED <<mainVars, owned, hostVars, astray>>

(* #ensureConfig, createHost and start.                                     *)
MakeHost(p) ==
  /\ call[p].at = "config"
  /\ LET b == call[p].bot
     IN \E h \in Hosts :
          /\ host[h].at = "none" /\ \A i \in Hosts : i < h => host[i].at # "none"
          /\ mapped' = [mapped EXCEPT ![b] = h]
          /\ Submit([host EXCEPT ![h] = [bot |-> b, at |-> "queued", closing |-> FALSE]], h)
          /\ call' = [call EXCEPT ![p].at = "await", ![p].host = h]
          /\ astray' = IF b \in Users /\ Contents[b] = None THEN astray \union {b} ELSE astray
  /\ turn' = None
  /\ UNCHANGED <<storeVars, mainVars, owned, unlucky, used>>

(* A file cannot be read or written in #resolve: by findById, by #assign,   *)
(* whose setBotId reads before it writes, or by #ensureConfig.              *)
ResolveFails(p) ==
  /\ \/ call[p].at \in {"assign", "bind", "config"}
     \/ call[p].at = "turn" /\ TurnFree
  /\ TurnFails(p)
  /\ Spend("troubles", MaxTroubles)
  /\ UNCHANGED <<storeVars, mainVars, owned, hostVars, astray>>

Closing(hs, these) == [h \in Hosts |-> IF h \in these THEN [hs[h] EXCEPT !.closing = TRUE] ELSE hs[h]]

(* Mutant of Release: nothing is told of the removal, as for one bot.       *)
ReleaseNothing(r) ==
  /\ call[r].at = "release"
  /\ call' = [call EXCEPT ![r] = Idle]
  /\ UNCHANGED <<storeVars, mainVars, owned, turn, hostVars, history, used>>

(* release of the removed person, as the DELETE request has found them      *)
(* before it removed them.                                                  *)
Release(r) ==
  /\ call[r].at = "release"
  /\ LET u == call[r].on
         b == call[r].target.bot
     IN /\ IF b \in {None, Primary} \/ mapped[b] = 0
           THEN call' = [call EXCEPT ![r] = Idle] /\ UNCHANGED hostVars
           ELSE /\ mapped' = [mapped EXCEPT ![b] = 0]
                /\ host' = Closing(host, {mapped[b]})
                /\ call' = [call EXCEPT ![r].at = "closing", ![r].host = mapped[b]]
                /\ UNCHANGED pending
        /\ astray' = IF b = None THEN astray \union {u} ELSE astray
  /\ UNCHANGED <<storeVars, mainVars, owned, turn, unlucky, used>>

(* A worker of startOwned takes the next account.                           *)
Restore(w) ==
  /\ phase \notin {"new", "down"} /\ call[w].at = "idle"
  /\ \E u \in Users :
       /\ owned[u] # None
       /\ call' = [call EXCEPT ![w] = [Idle EXCEPT !.at = "turn", !.user = u, !.snap = owned[u]]]
       /\ owned' = [owned EXCEPT ![u] = None]
  /\ UNCHANGED <<storeVars, mainVars, turn, hostVars, history, used>>

------------------------------------------------------------------------------
(* Requests.                                                                *)

(* isAdminOnlyPath, of the requests that change accounts.                   *)
AdminOnly(kind) == kind # "none"

(* Whom a request may be about.                                             *)
On(kind) ==
  CASE kind = "none" -> {None}
    [] kind = "create" -> Users \ issued
    [] OTHER -> issued

(* createCombinedHandler lets a request in: of someone whose cookie is valid*)
(* and who has an account, with the role the request needs.  The others     *)
(* change nothing.  The server is shut down only after closeAll.  It does   *)
(* not matter which r it is.                                                *)
Enter(r) ==
  /\ phase \in {"serving", "closing"}
  /\ \E q \in Reqs : call[q].at = "idle"
  /\ r = CHOOSE q \in Reqs : call[q].at = "idle"
  /\ ReadStore
  /\ \E u \in issued, kind \in Kinds :
       /\ Contents[u] # None
       /\ AdminOnly(kind) => Contents[u].role = "admin"
       /\ \E v \in On(kind), role \in IF kind \in {"create", "put"} THEN Roles ELSE {"user"} :
            call' = [call EXCEPT ![r] = [Idle EXCEPT !.at = "turn", !.user = u, !.snap = Contents[u],
                                                     !.kind = kind, !.on = v, !.role = role]]
  /\ Spend("requests", MaxRequests)
  /\ UNCHANGED <<mainVars, owned, turn, hostVars, history>>

Answered(r) == call' = [call EXCEPT ![r] = Idle]
At(r, step) == call' = [call EXCEPT ![r].at = step]

(* The handler once the caller's bot is ready, up to the first change.      *)
Act(r) ==
  /\ call[r].at = "act"
  /\ LET u == call[r].on
     IN \/ call[r].kind = "none" /\ Answered(r) /\ UNCHANGED storeVars
        \/ call[r].kind = "create" /\ Create(r, u, call[r].role) /\ At(r, "write")
        \/ call[r].kind = "create" /\ ReadStore /\ Answered(r)
        \/ call[r].kind = "put" /\ At(r, "role") /\ UNCHANGED storeVars
        \/ /\ call[r].kind = "remove" /\ ReadStore
           /\ call' = [call EXCEPT ![r].at = "remove", ![r].target = Contents[u]]
  /\ UNCHANGED <<mainVars, owned, turn, hostVars, history, used>>

(* setRole and remove, which follow another call of the store.              *)
Change(r) ==
  /\ LET u == call[r].on
     IN \/ call[r].at = "role" /\ SetRole(r, u, call[r].role) /\ At(r, "write")
        \/ call[r].at = "role" /\ ReadStore /\ ~MaySetRole(u, call[r].role) /\ Answered(r)
        \/ call[r].at = "remove" /\ Remove(r, u) /\ At(r, "write")
        \/ call[r].at = "remove" /\ ReadStore /\ ~MayRemove(u) /\ Answered(r)
  /\ UNCHANGED <<mainVars, owned, turn, hostVars, history, used>>

(* The write of a change ends, or fails.                                    *)
Changed(r) ==
  /\ call[r].at = "write"
  /\ \/ /\ Written(r) /\ UNCHANGED used
        /\ IF call[r].kind = "remove" /\ call[r].target # None THEN At(r, "release") ELSE Answered(r)
     \/ /\ NotWritten(r) /\ Answered(r) /\ Spend("troubles", MaxTroubles)
  /\ UNCHANGED <<mainVars, owned, turn, hostVars, history>>

------------------------------------------------------------------------------
(* main of cli/serve.ts.                                                    *)

Init ==
  /\ file \in Stored
  /\ draft = [p \in Procs |-> None]
  /\ issued = {u \in Users : file[u] # None} \union {First}
  /\ phase = "new" /\ awaited = {}
  /\ call = [p \in Procs |-> Idle]
  /\ owned = NobodyYet /\ turn = None
  /\ mapped = [b \in Bots |-> 0]
  /\ host = [h \in Hosts |-> NoHost] /\ pending = <<>>
  /\ astray = {} /\ unlucky = {}
  /\ used = Spent[file]

(* primary.start, and the registry with it.                                 *)
Boot ==
  /\ \/ phase = "new" /\ UNCHANGED used
     \/ phase = "down" /\ Spend("troubles", MaxTroubles)
  /\ phase' = "starting"
  /\ mapped' = [mapped EXCEPT ![Primary] = 1]
  /\ Submit([host EXCEPT ![1] = [bot |-> Primary, at |-> "queued", closing |-> FALSE]], 1)
  /\ UNCHANGED <<storeVars, awaited, call, owned, turn, history>>

(* The accounts that own a bot.                                             *)
OwnedNow == [u \in Users |-> IF Contents[u] # None /\ Contents[u].bot # None
                             THEN Contents[u] ELSE None]

(* Mutant of Serve: the owned bots are left to their owners' next request.  *)
ServeOnly ==
  /\ phase = "starting" /\ host[mapped[Primary]].at = "ready"
  /\ phase' = "serving"
  /\ ReadStore
  /\ UNCHANGED <<awaited, call, owned, turn, hostVars, history, used>>

(* The primary is ready: startOwned lists the accounts before any request   *)
(* can reach the store.                                                     *)
Serve ==
  /\ phase = "starting" /\ host[mapped[Primary]].at = "ready"
  /\ phase' = "serving"
  /\ ReadStore
  /\ owned' = OwnedNow
  /\ UNCHANGED <<awaited, call, turn, hostVars, history, used>>

(* The list cannot be read: startOwned rejects, which is logged, and no bot *)
(* but the primary is restored.                                             *)
ServeUnlisted ==
  /\ phase = "starting" /\ host[mapped[Primary]].at = "ready"
  /\ phase' = "serving"
  /\ unlucky' = unlucky \union {u \in Users : OwnedNow[u] # None}
  /\ Spend("troubles", MaxTroubles)
  /\ UNCHANGED <<storeVars, awaited, call, owned, turn, hostVars, astray>>

(* A signal: closeAll takes what is in the map now.                         *)
Stop ==
  /\ phase = "serving" /\ phase' = "closing"
  /\ awaited' = {mapped[b] : b \in Bots} \ {0}
  /\ host' = Closing(host, awaited')
  /\ mapped' = [b \in Bots |-> 0]
  /\ UNCHANGED <<storeVars, call, owned, turn, pending, history, used>>

(* server.shutdown takes no more requests and waits for those there are.    *)
AllClosed ==
  /\ phase = "closing" /\ awaited = {}
  /\ phase' = "draining"
  /\ UNCHANGED <<storeVars, awaited, call, owned, turn, hostVars, history, used>>

(* The process is gone and with it all that it held in memory.              *)
Gone ==
  /\ phase' = "down" /\ awaited' = {}
  /\ call' = [p \in Procs |-> Idle]
  /\ owned' = NobodyYet /\ turn' = None
  /\ mapped' = [b \in Bots |-> 0]
  /\ host' = [h \in Hosts |-> NoHost] /\ pending' = <<>>
  /\ draft' = [p \in Procs |-> None]
  /\ astray' = {} /\ unlucky' = {}
  /\ UNCHANGED <<file, issued, used>>

Exit == phase = "draining" /\ (\A r \in Reqs : call[r].at = "idle") /\ Gone

Crash == phase \notin {"new", "down"} /\ Gone

HostSteps == \E h \in Hosts : HostReady(h) \/ HostCloses(h)
TurnStep(p) == Resolve(p) \/ Assign(p) \/ Bind(p) \/ Bound(p) \/ MakeHost(p)
RequestStep(r) == Act(r) \/ Change(r) \/ Changed(r) \/ Release(r)
MainStep == Serve \/ AllClosed \/ Exit

(* What the process has begun goes on: files are read and written at last,  *)
(* connects end, promises are settled.  A request, a signal, a crash and a  *)
(* restart need not come.  All else is bounded, so fairness of the whole is *)
(* fairness of each.                                                        *)
GoesOn ==
  \/ HostSteps \/ MainStep
  \/ \E p \in Procs : TurnStep(p)
  \/ \E r \in Reqs : RequestStep(r)
  \/ \E w \in Restorers : Restore(w)

Next ==
  \/ GoesOn \/ Boot \/ Stop \/ Crash
  \/ ServeUnlisted
  \/ \E p \in Procs : ResolveFails(p)
  \/ \E r \in Reqs : Enter(r)

Spec == Init /\ [][Next]_vars

Fairness == WF_vars(GoesOn)

FairSpec == Spec /\ Fairness

------------------------------------------------------------------------------
(* Safety.                                                                  *)

A == INSTANCE Accounts WITH accounts <- Contents

(* The accounts, as the file has them, change as Accounts says: no request  *)
(* overwrites another's change, the last admin stays, and a bot is given    *)
(* once and to one person.                                                  *)
AccountsAreAtomic == A!Spec

(* A person's requests and the restore never make two hosts of one bot: a   *)
(* host that is not closing is the one the registry routes to, and two      *)
(* people who sign in for the first time never reach for the same bot.      *)
OneHostPerBot ==
  /\ \A h \in Hosts : host[h].at # "none" /\ ~host[h].closing => mapped[host[h].bot] = h
  /\ \A p \in Procs : call[p].at = "bind" =>
       \A u \in Users \ {call[p].user} : Contents[u] # None => Contents[u].bot # call[p].bot

(* A removed person's bot is stopped, or the request that removed them is   *)
(* about to: except for the bots that were made, or owned, too late for it. *)
RemovedBotStops ==
  \A u \in Users :
    mapped[u] # 0 /\ Contents[u] = None /\ u \notin astray =>
      \E r \in Reqs : call[r].at = "release" /\ call[r].on = u

(* Somebody's own attempt to find or make the bot has failed, or is going   *)
(* on, or the bot is there.                                                 *)
SeenTo(u) ==
  \/ mapped[Contents[u].bot] # 0
  \/ u \in unlucky
  \/ \E p \in Procs : call[p].user = u /\ call[p].at \in {"turn"} \union TurnSteps

BotOwners == {u \in Users : Contents[u] # None /\ Contents[u].bot # None}

(* "Starts every bot that already has an owner, so a restart of the process *)
(* brings everyone's connection back" (startOwned): whose bot is not seen to*)
(* will have a turn, as a worker is left to take it.                        *)
OwnedBotsComeBack ==
  phase = "serving" =>
    \A u \in BotOwners :
      SeenTo(u) \/ (owned[u] # None /\ \E w \in Restorers : call[w].at # "dead")

(* Every worker of startOwned has failed, each with somebody else's bot.    *)
GivenUp ==
  \A w \in Restorers :
    /\ call[w].at = "dead" /\ call[w].user \in unlucky
    /\ \A v \in Restorers \ {w} : call[v].user # call[w].user

(* The same with the one case left out that breaks it: a bot that fails ends*)
(* the worker that restores it, and when as many bots have failed as there  *)
(* are workers, the rest of the list is left where it is.                   *)
OwnedBotsRun ==
  phase = "serving" =>
    \A u \in BotOwners :
      \/ SeenTo(u)
      \/ owned[u] # None /\ (GivenUp \/ \E w \in Restorers : call[w].at # "dead")

(* The warm-up gate does not let anyone wait while there is room.           *)
GateKeepsBusy == pending # <<>> => Active(host) = Limit

(* Liveness.                                                                *)

(* Nobody waits for ever, neither for the store, the turn, a host and the   *)
(* gate behind it, nor the process that stops for its hosts and requests:   *)
(* it is quiet time and again.  The restore may end before its list does    *)
(* only with all its workers.                                               *)
Quiet ==
  \/ phase \in {"new", "down"}
  \/ /\ phase = "serving"
     /\ \A r \in Reqs : call[r].at = "idle"
     /\ \/ owned = NobodyYet /\ \A w \in Restorers : call[w].at \in {"idle", "dead"}
        \/ \A w \in Restorers : call[w].at = "dead"

NobodyWaitsForever == []<>Quiet
==============================================================================
