-------------------------------- MODULE Console --------------------------------
(***************************************************************************)
(* The console of one bot: the requests that edit its rules and select its  *)
(* rooms (admin/server.ts over admin/rules-store.ts), the file they edit,   *)
(* and the worker they push the change to, while the bot's host restarts it *)
(* from that file.  An edit reads the whole file, changes it, validates it  *)
(* and replaces it, under no lock; then it updates the worker its handler   *)
(* was built over, which a restart may have replaced meanwhile.             *)
(***************************************************************************)
EXTENDS BotConfig

CONSTANTS
  Requests,
  Tasks,     (* what a request may ask                                       *)
  Reports,   (* what LINE may tell loadJoinedGroups                          *)
  Messages,  (* the texts a bot receives                                     *)
  Files,     (* the configurations a bot may start on                        *)
  None

Ops == {"add", "update", "remove", "groups"}
AllTasks == [op: Ops, id: Texts, rule: RuleSpecs, rooms: Selections]
AllReports ==
  [listed: SUBSET Rooms, heard: SUBSET Rooms, opens: SUBSET Rooms,
   members: SUBSET Rooms, contacts: SUBSET Rooms]

VARIABLES
  file,        (* the configuration on disk                                  *)
  host,        (* of the host: what start, restart and connect are about     *)
  boot,        (* the configuration connect has read, or None                *)
  live,        (* the configuration the worker acts on, or None              *)
  cache,       (* of the compiled rules: the decisions remembered            *)
  pc,          (* of a request: what it does next                            *)
  task,        (* of a request: what it asks                                 *)
  worker,      (* of a request: is its handler's worker the live one?        *)
  seen,        (* of a request: the configuration it has read, or None       *)
  draft,       (* of a request: the configuration it writes, or None         *)
  disturbed    (* history: since the last start a request has overlapped     *)
               (* another or a restart, or has failed after its write        *)

hostVars == <<host, boot, live, cache>>
requestVars == <<pc, task, worker, seen, draft>>
vars == <<file, hostVars, requestVars, disturbed>>

Steps == {"idle", "read", "directory", "again", "write", "list", "apply"}
HostStates == {"up", "down", "restarting", "reading", "connecting"}

Active(r) == pc[r] # "idle"
Quiet == \A r \in Requests : ~ Active(r)

(* What the proofs assume of the constants.                                 *)
ConsoleAssumption ==
  /\ Tasks \subseteq AllTasks /\ Reports \subseteq AllReports
  /\ Files \subseteq {c \in Configs : Parses(c) /\ PollsWhatItAnswers(c)}
  /\ Messages \subseteq Texts
  /\ None \notin Configs \union Tasks /\ All \notin Selections
  /\ Norm \in [Texts -> Texts] /\ KindOf \in [Rooms -> RoomKinds]
  /\ NotNumber \notin Int /\ Unknown \notin Kinds /\ CacheMax \in Nat \ {0}

(* The process starts.                                                      *)
Init ==
  /\ file \in Files
  /\ host = "reading" /\ boot = None /\ live = None /\ cache = <<>>
  /\ pc = [r \in Requests |-> "idle"]
  /\ task = [r \in Requests |-> None]
  /\ worker = [r \in Requests |-> "none"]
  /\ seen = [r \in Requests |-> None] /\ draft = [r \in Requests |-> None]
  /\ disturbed = FALSE

(* A request is answered, and what it held is forgotten.                    *)
Answered(r) ==
  /\ pc' = [pc EXCEPT ![r] = "idle"]
  /\ task' = [task EXCEPT ![r] = None]
  /\ worker' = [worker EXCEPT ![r] = "none"]
  /\ seen' = [seen EXCEPT ![r] = None] /\ draft' = [draft EXCEPT ![r] = None]

(* It goes on.                                                              *)
GoesTo(r, step) == pc' = [pc EXCEPT ![r] = step] /\ UNCHANGED <<task, worker>>

(* ---------------------------------------------------------------------- *)
(* Requests.                                                                *)

(* The gate waits for host.ready and builds the handler over the runtime of *)
(* that moment.  A selection needs a client, and a room.                    *)
Route(r, t) ==
  /\ ~ Active(r) /\ host \in {"up", "down"}
  /\ t.op = "groups" => live # None /\ t.rooms # <<>>
  /\ pc' = [pc EXCEPT ![r] = "read"]
  /\ task' = [task EXCEPT ![r] = t]
  /\ worker' = [worker EXCEPT ![r] = IF live = None THEN "none" ELSE "live"]
  /\ disturbed' = (disturbed \/ ~ Quiet)
  /\ UNCHANGED <<file, hostVars, seen, draft>>

Named(rules, id) == {i \in DOMAIN rules : rules[i].id = id}

(* The ids of a file that parses differ: one rule at most goes.             *)
Without(rules, id) ==
  LET at == CHOOSE i \in Named(rules, id) : TRUE
  IN  [n \in 1 .. Len(rules) - 1 |-> IF n < at THEN rules[n] ELSE rules[n + 1]]

(* The route names the rule that is updated, whatever id the body has.      *)
Replaced(rules, t) ==
  LET at == CHOOSE i \in Named(rules, t.id) : TRUE
  IN  [rules EXCEPT ![at] = [t.rule EXCEPT !.id = t.id]]

(* add refuses an id that exists, update and remove one that does not.      *)
Refused(rules, t) ==
  \/ t.op = "add" /\ Named(rules, t.rule.id) # {}
  \/ t.op \in {"update", "remove"} /\ Named(rules, t.id) = {}

(* The rules RulesStore.add, update and remove write.                       *)
Edited(rules, t) ==
  CASE t.op = "add" -> Append(rules, t.rule)
    [] t.op = "update" -> Replaced(rules, t)
    [] t.op = "remove" -> Without(rules, t.id)

(* #writeValidated parses the draft before it writes.                       *)
Drafts(r, next) ==
  IF Parses(next)
  THEN /\ draft' = [draft EXCEPT ![r] = next]
       /\ GoesTo(r, "write") /\ UNCHANGED seen
  ELSE Answered(r)

ReadRules(r) ==
  /\ pc[r] = "read" /\ task[r].op # "groups"
  /\ IF Refused(file.rules, task[r]) THEN Answered(r)
     ELSE Drafts(r, [file EXCEPT !.rules = Edited(file.rules, task[r])])
  /\ UNCHANGED <<file, hostVars, disturbed>>

(* rulesStore.config() of a selection; a list (applyRules) reads the same   *)
(* way.                                                                     *)
ReadConfig(r) ==
  /\ \/ pc[r] = "read" /\ task[r].op = "groups"
     \/ pc[r] = "list"
  /\ IF Parses(file)
     THEN /\ seen' = [seen EXCEPT ![r] = file]
          /\ GoesTo(r, IF pc[r] = "list" THEN "apply" ELSE "directory")
          /\ UNCHANGED draft
     ELSE Answered(r)
  /\ UNCHANGED <<file, hostVars, disturbed>>

(* What the three loaders make of LINE's replies.  A room heard of in the   *)
(* recent events counts while it opens; one that fails has nothing to say.  *)
OpenChats(told) ==
  {room \in told.listed \union (told.heard \intersect told.opens) : KindOf[room] = "openchat"}
TalkChats(told) == {room \in told.members : KindOf[room] = "talk"}
OfficialAccounts(told) == {room \in told.contacts : KindOf[room] = "oa"}

(* loadJoinedGroups: with them, the configured OpenChats that open.         *)
JoinedGroups(told, c) ==
  OpenChats(told) \union TalkChats(told) \union OfficialAccounts(told)
  \union {room \in told.opens : /\ KindOf[room] = "openchat"
                                /\ \/ room \in c.dedicated
                                   \/ c.selected # All /\ room \in Chosen(c.selected)}

(* The first slotBudget OpenChats of a selection.                           *)
Dedicated(rooms, budget) ==
  LET Open == {i \in DOMAIN rooms : KindOf[rooms[i]] = "openchat"}
  IN  {rooms[i] : i \in {i \in Open : Cardinality({j \in Open : j <= i}) <= budget}}

WantsTalk(rooms) == \E room \in Chosen(rooms) : KindOf[room] \in {"talk", "oa"}
WantsSquare(rooms) == \E room \in Chosen(rooms) : KindOf[room] = "openchat"

(* The configuration c with a selection that was planned over s.            *)
Regrouped(c, s, rooms) ==
  [c EXCEPT !.selected = rooms, !.dedicated = Dedicated(rooms, s.slotBudget),
            !.talk = WantsTalk(rooms), !.square = WantsSquare(rooms)]

SurfacesChanged(s, rooms) == s.talk # WantsTalk(rooms) \/ s.square # WantsSquare(rooms)

(* A selection of rooms the account has not joined is refused, and one that *)
(* changes nothing is answered at once.                                     *)
Directory(r, told) ==
  /\ pc[r] = "directory"
  /\ IF /\ Chosen(task[r].rooms) \subseteq JoinedGroups(told, seen[r])
        /\ Regrouped(seen[r], seen[r], task[r].rooms) # seen[r]
     THEN GoesTo(r, "again") /\ UNCHANGED <<seen, draft>>
     ELSE Answered(r)
  /\ UNCHANGED <<file, hostVars, disturbed>>

(* setSelectedRooms reads the file once more.                               *)
ReadAgain(r) ==
  /\ pc[r] = "again"
  /\ Drafts(r, Regrouped(file, seen[r], task[r].rooms))
  /\ UNCHANGED <<file, hostVars, disturbed>>

(* The temporary file is renamed over the file, or removed.                 *)
Write(r) ==
  /\ pc[r] = "write"
  /\ file' = draft[r]
  /\ draft' = [draft EXCEPT ![r] = None]
  /\ GoesTo(r, IF task[r].op = "groups" THEN "apply" ELSE "list")
  /\ UNCHANGED <<hostVars, seen, disturbed>>

(* A read or a write fails, or a body or an answer cannot be made.          *)
Fails(r) ==
  /\ Active(r) /\ pc[r] # "apply"
  /\ Answered(r)
  /\ disturbed' = (disturbed \/ pc[r] = "list")
  /\ UNCHANGED <<file, hostVars>>

(* Worker.setRules: the new set comes with an empty cache.  A worker that   *)
(* was torn down no longer matters.                                         *)
ApplyRules(r) ==
  /\ pc[r] = "apply" /\ task[r].op # "groups"
  /\ IF worker[r] = "live"
     THEN live' = [live EXCEPT !.rules = seen[r].rules] /\ cache' = <<>>
     ELSE UNCHANGED <<live, cache>>
  /\ Answered(r)
  /\ UNCHANGED <<file, host, boot, disturbed>>

(* BotHost.restart: one that is under way is joined.                        *)
RestartAsked == host' = IF host \in {"up", "down"} THEN "restarting" ELSE host

(* A selection that needs other surfaces restarts the host; any other goes  *)
(* to the worker, its filter and its polls in one turn.                     *)
ApplyRooms(r) ==
  /\ pc[r] = "apply" /\ task[r].op = "groups"
  /\ IF SurfacesChanged(seen[r], task[r].rooms) \/ worker[r] = "none"
     THEN RestartAsked /\ UNCHANGED live
     ELSE /\ UNCHANGED host
          /\ live' = IF worker[r] = "live"
                     THEN [live EXCEPT !.selected = task[r].rooms,
                                       !.dedicated = Dedicated(task[r].rooms, seen[r].slotBudget)]
                     ELSE live
  /\ Answered(r)
  /\ UNCHANGED <<file, boot, cache, disturbed>>

(* ---------------------------------------------------------------------- *)
(* The host.                                                                *)

(* A restart the console does not ask for through a selection: recovery, a  *)
(* login, a logout, the restart button, a worker that ended.                *)
Restart ==
  /\ host \in {"up", "down"} /\ RestartAsked
  /\ disturbed' = (disturbed \/ ~ Quiet)
  /\ UNCHANGED <<file, boot, live, cache, requestVars>>

TearDown ==
  /\ host = "restarting" /\ host' = "reading"
  /\ live' = None /\ cache' = <<>>
  /\ worker' = [r \in Requests |-> IF worker[r] = "live" THEN "gone" ELSE worker[r]]
  /\ UNCHANGED <<file, boot, pc, task, seen, draft, disturbed>>

(* connect reads the configuration ...                                      *)
ReadBoot ==
  /\ host = "reading"
  /\ IF Parses(file) THEN host' = "connecting" /\ boot' = file
                     ELSE host' = "down" /\ boot' = None
  /\ disturbed' = ~ Quiet
  /\ UNCHANGED <<file, live, cache, requestVars>>

(* ... and, much later, the worker runs on it.                              *)
Connects ==
  /\ host = "connecting" /\ host' = "up"
  /\ live' = boot /\ boot' = None /\ cache' = <<>>
  /\ UNCHANGED <<file, requestVars, disturbed>>

ConnectFails ==
  /\ host = "connecting" /\ host' = "down"
  /\ boot' = None
  /\ UNCHANGED <<file, live, cache, requestVars, disturbed>>

(* The worker matches a message.                                            *)
Receive(raw) ==
  /\ live # None
  /\ cache' = Cached(live.rules, cache, raw)
  /\ UNCHANGED <<file, host, boot, live, requestVars, disturbed>>

(* The process ends, and its supervisor starts it again.                    *)
Crash ==
  /\ host' = "reading" /\ boot' = None /\ live' = None /\ cache' = <<>>
  /\ pc' = [r \in Requests |-> "idle"]
  /\ task' = [r \in Requests |-> None]
  /\ worker' = [r \in Requests |-> "none"]
  /\ seen' = [r \in Requests |-> None] /\ draft' = [r \in Requests |-> None]
  /\ disturbed' = FALSE
  /\ UNCHANGED file

RequestStep(r) ==
  \/ \E t \in Tasks : Route(r, t)
  \/ ReadRules(r)
  \/ ReadConfig(r)
  \/ \E told \in Reports : Directory(r, told)
  \/ ReadAgain(r)
  \/ Write(r)
  \/ Fails(r)
  \/ ApplyRules(r)
  \/ ApplyRooms(r)

Next ==
  \/ \E r \in Requests : RequestStep(r)
  \/ Restart
  \/ TearDown
  \/ ReadBoot
  \/ Connects
  \/ ConnectFails
  \/ \E raw \in Messages : Receive(raw)
  \/ Crash

Spec == Init /\ [][Next]_vars

(* ---------------------------------------------------------------------- *)
(* Properties.                                                              *)

TypeOK ==
  /\ file \in Configs
  /\ host \in HostStates
  /\ boot \in Configs \union {None} /\ live \in Configs \union {None}
  /\ cache \in Seq([text: Texts, rule: Nat])
  /\ pc \in [Requests -> Steps]
  /\ task \in [Requests -> Tasks \union {None}]
  /\ worker \in [Requests -> {"none", "live", "gone"}]
  /\ seen \in [Requests -> Configs \union {None}]
  /\ draft \in [Requests -> Configs \union {None}]
  /\ disturbed \in BOOLEAN

(* However edits overlap, the file is one the worker loads: no edit leaves  *)
(* a bot that cannot start (rules-store.ts:116-117).                        *)
FileLoads == Parses(file)

(* The worker polls no room it does not answer.                             *)
PolledAreAnswered == live # None => PollsWhatItAnswers(live)

(* A remembered decision is the one the rules in force make: a rule edit    *)
(* leaves no answer of the old rules behind, and the cache stays bounded.   *)
DecisionsAreCurrent ==
  /\ Len(cache) <= CacheMax
  /\ \A i \in DOMAIN cache : live # None /\ cache[i].rule = Winner(live.rules, cache[i].text)

(* Unless, since the last start, a request has overlapped another or a      *)
(* restart, or has failed after its write, the worker acts on what the file *)
(* says once all are answered.                                              *)
WorkerRunsFile == host = "up" /\ Quiet /\ ~ disturbed => live = file
================================================================================
