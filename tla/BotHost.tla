-------------------------------- MODULE BotHost --------------------------------
(***************************************************************************)
(* One bot's life in the process: connect, run, teardown, restart and close *)
(* (bots/bot-host.ts), the QR logins of its admin page (admin/login-flow.ts *)
(* and loginToLine in adapters/linejs/login.ts), the logout route           *)
(* (admin/server.ts), and the two files they share: the stored session      *)
(* (session/store.ts) and the LINEJS key/value file, which every client     *)
(* reads once and then writes from a cache of its own, on a debounce timer  *)
(* (adapters/linejs/buffered-storage.ts).                                   *)
(*                                                                         *)
(* A client is a LINEJS client with its BufferedFileStorage, made by a      *)
(* connect or by a login; one that nothing holds and whose storage has      *)
(* nothing left to write stands for the next client (Fresh).  The pusher    *)
(* loop LINEJS runs for a client (base/polling/mod.ts) outlives it: it      *)
(* touches no state of this module, but goes on asking for PUSH, through a  *)
(* sidecar it spawns anew if need be, beside the next client and after      *)
(* close.  It is not counted here.                                          *)
(***************************************************************************)
EXTENDS Integers, Sequences, FiniteSets

CONSTANTS
  Clients,    (* the LINEJS clients alive at one time                        *)
  NoClient,   (* the current LoginFlow has no login in flight                *)
  NoFlow,     (* no LoginFlow was made yet                                   *)
  MaxTokens,  (* bound on the logins LINE confirms                           *)
  MaxSeq      (* bound on the request sequence numbers                       *)

ASSUME HostAssumption ==
  /\ IsFiniteSet(Clients)
  /\ NoClient \notin Clients /\ NoFlow \notin Clients /\ NoClient # NoFlow
  /\ MaxTokens \in Nat \ {0} /\ MaxSeq \in Nat

(* Tokens are numbered in the order LINE issues them; 0 is none.            *)
Token == 0..MaxTokens

(* What is kept of the key/value file: the next request sequence number and *)
(* the refresh token.  A missing file reads as Blank.                       *)
Store == [seq: 0..MaxSeq, refresh: Token]
Blank == [seq |-> 0, refresh |-> 0]

VARIABLES
  job,      (* where the chain of start, teardown and connect (#ready) is    *)
  restart,  (* #restartInFlight: none, waiting for #ready, or run by job     *)
  closing,  (* BotHost.close; #closed is closing # "no"                      *)
  flow,     (* #loginFlow: the client of its login in flight, if there is one*)
  status,   (* what each client is used for                                  *)
  token,    (* the token each client authenticates with                      *)
  cache,    (* #cache of each client's storage                               *)
  timer,    (* whether its debounce timer is set, which is #dirty too        *)
  writes,   (* snapshots on the way to the file, #writeSettled               *)
  up,       (* Worker.run of the connection has not ended by itself          *)
  session,  (* the token in the session store                                *)
  file,     (* the key/value file                                            *)
  logout,   (* the logout route has removed the session, not yet the file    *)
  owed,     (* clients whose writes a restart's settle time lets finish      *)
  issued,   (* history: tokens LINE has issued                               *)
  high,     (* history: the sequence number that is next for LINE            *)
  doubled,  (* history: a login and somebody else have had the file at once  *)
  folded,   (* history: a restart was folded into one whose connect had read *)
            (* the session already                                           *)
  removed   (* history: the tokens a logout has removed                      *)

hostVars == <<job, restart, closing, up>>
loginVars == <<flow, logout, issued>>
clientVars == <<status, token>>
storageVars == <<cache, timer, writes>>
diskVars == <<session, file>>
history == <<high, doubled, folded, removed>>
vars == <<hostVars, loginVars, clientVars, storageVars, diskVars, owed, history>>

TypeOK ==
  /\ job \in {"fresh", "settled", "stopping", "flushing", "removing", "torn",
              "configuring", "resuming", "connecting"}
  /\ restart \in {"none", "queued", "running"}
  /\ closing \in {"no", "waiting", "running", "done"}
  /\ up \in BOOLEAN /\ logout \in BOOLEAN
  /\ flow \in Clients \union {NoClient, NoFlow}
  /\ status \in [Clients -> {"free", "connecting", "running", "leaving", "pairing", "paired"}]
  /\ token \in [Clients -> Token]
  /\ cache \in [Clients -> Store]
  /\ timer \in [Clients -> BOOLEAN]
  /\ writes \in [Clients -> Seq(Store)]
  /\ session \in Token /\ file \in Store /\ issued \in Token
  /\ owed \in SUBSET Clients
  /\ job = "connecting" <=> \E c \in Clients : status[c] = "connecting"
  /\ high \in 0..MaxSeq
  /\ doubled \in BOOLEAN /\ folded \in BOOLEAN /\ removed \in SUBSET Token

Closed == closing # "no"
Pending(c) == timer[c] \/ writes[c] # <<>>

(* The client of #runtime, and all clients the host holds: from the connect *)
(* to the end of their teardown.                                            *)
Running == {c \in Clients : status[c] = "running"}
Open == {c \in Clients : status[c] \in {"connecting", "running", "leaving"}}

(* Clients that may still write the file.                                   *)
Alive == {c \in Clients : status[c] # "free" \/ Pending(c)}
Fresh == Clients \ Alive

------------------------------------------------------------------------------
(* A bot that has a session from an earlier process, or none.               *)
Init ==
  /\ job = "fresh" /\ restart = "none" /\ closing = "no" /\ up = FALSE
  /\ flow = NoFlow /\ logout = FALSE
  /\ status = [c \in Clients |-> "free"]
  /\ token = [c \in Clients |-> 0]
  /\ cache = [c \in Clients |-> Blank]
  /\ timer = [c \in Clients |-> FALSE]
  /\ writes = [c \in Clients |-> <<>>]
  /\ session \in {0, 1} /\ issued = session
  /\ file = [seq |-> 0, refresh |-> session]
  /\ owed = {}
  /\ high = 0 /\ doubled = FALSE /\ folded = FALSE
  /\ removed = {}

------------------------------------------------------------------------------
(* BufferedFileStorage.                                                     *)

(* The host holds the client no more; its storage lives on for a write, and *)
(* its pusher loop for good.                                                *)
Dropped(c) ==
  /\ status' = [status EXCEPT ![c] = "free"]
  /\ token' = [token EXCEPT ![c] = 0]
  /\ cache' = IF timer[c] THEN cache ELSE [cache EXCEPT ![c] = Blank]

(* set: the cache at once, the file when the timer fires.                   *)
StorageSets(c, contents) ==
  /\ cache' = [cache EXCEPT ![c] = contents]
  /\ timer' = [timer EXCEPT ![c] = TRUE]

(* #writeNow, by the timer.                                                 *)
TimerFires(c) ==
  /\ timer[c]
  /\ timer' = [timer EXCEPT ![c] = FALSE]
  /\ writes' = [writes EXCEPT ![c] = Append(@, cache[c])]
  /\ cache' = IF status[c] = "free" THEN [cache EXCEPT ![c] = Blank] ELSE cache
  /\ UNCHANGED <<hostVars, loginVars, clientVars, diskVars, owed, history>>

(* One writeFile is done; the writes of one storage are chained.            *)
WriteDone(c) ==
  /\ writes[c] # <<>>
  /\ file' = Head(writes[c])
  /\ writes' = [writes EXCEPT ![c] = Tail(@)]
  /\ owed' = IF Len(writes[c]) = 1 /\ ~timer[c] THEN owed \ {c} ELSE owed
  /\ UNCHANGED <<hostVars, loginVars, clientVars, cache, timer, session, history>>

------------------------------------------------------------------------------
(* BotHost.                                                                 *)

Start ==
  /\ job = "fresh" /\ ~Closed
  /\ job' = "configuring"
  /\ UNCHANGED <<restart, closing, up, loginVars, clientVars, storageVars, diskVars,
                 owed, history>>

(* restart(): folded into the one in flight, or queued behind #ready.       *)
RestartRequested ==
  IF Closed THEN UNCHANGED <<restart, owed, folded>>
  ELSE IF restart # "none"
  THEN /\ folded' = (folded \/ (restart = "running" /\ job = "connecting"))
       /\ UNCHANGED <<restart, owed>>
  ELSE /\ restart' = "queued"
       /\ owed' = {c \in Clients \ Open : Pending(c)}
       /\ UNCHANGED folded

(* An operator, the recovery ladder or a change of settings asks for one.   *)
RequestRestart ==
  /\ job # "fresh"
  /\ RestartRequested
  /\ UNCHANGED <<job, closing, up, loginVars, clientVars, storageVars, diskVars,
                 high, doubled, removed>>

(* The run loop of the connection ends by itself.                           *)
WorkerDies ==
  /\ up /\ Running # {}
  /\ up' = FALSE
  /\ UNCHANGED <<job, restart, closing, loginVars, clientVars, storageVars, diskVars,
                 owed, history>>

(* #run, after respawnDelayMs, if the connection is still the same.         *)
Respawn ==
  /\ ~up /\ Running # {} /\ ~Closed
  /\ RestartRequested
  /\ UNCHANGED <<job, closing, up, loginVars, clientVars, storageVars, diskVars,
                 high, doubled, removed>>

(* #teardown gives up the runtime, if there is one, and aborts its run.     *)
BeginTeardown ==
  /\ job' = IF Running = {} THEN "torn" ELSE "stopping"
  /\ status' = [c \in Clients |-> IF c \in Running THEN "leaving" ELSE status[c]]
  /\ up' = FALSE

(* Mutant of RestartSettles: what is under way is not waited for.           *)
RestartSettlesAtOnce ==
  /\ restart = "queued" /\ owed = {}
  /\ restart' = "running"
  /\ BeginTeardown
  /\ UNCHANGED <<closing, loginVars, token, storageVars, diskVars, owed, history>>

(* #ready has settled and the restart's settle time is over.  It is as long *)
(* as the debounce: a client that had something to write when the restart   *)
(* was asked for has written it.                                            *)
RestartSettles ==
  /\ restart = "queued" /\ job = "settled" /\ owed = {}
  /\ restart' = "running"
  /\ BeginTeardown
  /\ UNCHANGED <<closing, loginVars, token, storageVars, diskVars, owed, history>>

Close ==
  /\ closing = "no"
  /\ closing' = "waiting"
  /\ UNCHANGED <<job, restart, up, loginVars, clientVars, storageVars, diskVars,
                 owed, history>>

CloseProceeds ==
  /\ closing = "waiting" /\ job \in {"fresh", "settled"} /\ restart = "none"
  /\ closing' = "running"
  /\ BeginTeardown
  /\ UNCHANGED <<restart, loginVars, token, storageVars, diskVars, owed, history>>

Leaving(c) == status[c] = "leaving"

(* Mutant of Flush: the timer is cancelled and nothing is written.          *)
FlushCancelled(c) ==
  /\ job = "stopping" /\ Leaving(c)
  /\ job' = "flushing"
  /\ timer' = [timer EXCEPT ![c] = FALSE]
  /\ UNCHANGED <<restart, closing, up, loginVars, clientVars, cache, writes, diskVars,
                 owed, history>>

(* The adapter has stopped and the run has ended: flushNow.                 *)
Flush(c) ==
  /\ job = "stopping" /\ Leaving(c)
  /\ job' = "flushing"
  /\ timer' = [timer EXCEPT ![c] = FALSE]
  /\ writes' = IF timer[c] THEN [writes EXCEPT ![c] = Append(@, cache[c])] ELSE writes
  /\ UNCHANGED <<restart, closing, up, loginVars, clientVars, cache, diskVars,
                 owed, history>>

(* Mutant of Flushed: the flushed file stays after a logout.                *)
FlushedAndKept(c) ==
  /\ job = "flushing" /\ Leaving(c) /\ writes[c] = <<>>
  /\ Dropped(c)
  /\ job' = "torn"
  /\ UNCHANGED <<restart, closing, up, loginVars, timer, writes, diskVars, owed, history>>

(* #writeSettled; #discardStorageIfLoggedOut looks at the stored session.   *)
Flushed(c) ==
  /\ job = "flushing" /\ Leaving(c) /\ writes[c] = <<>>
  /\ Dropped(c)
  /\ job' = IF session = 0 THEN "removing" ELSE "torn"
  /\ UNCHANGED <<restart, closing, up, loginVars, timer, writes, diskVars, owed, history>>

FileRemoved == file' = Blank /\ high' = 0

DiscardStorage ==
  /\ job = "removing"
  /\ job' = "torn"
  /\ FileRemoved
  /\ doubled' = (doubled \/ Alive # {})
  /\ UNCHANGED <<restart, closing, up, loginVars, clientVars, storageVars, session,
                 owed, folded, removed>>

(* Mutant of TornDown: a restart only tears down.                           *)
TornDownForGood ==
  /\ job = "torn"
  /\ job' = "settled"
  /\ restart' = "none"
  /\ closing' = IF closing = "running" THEN "done" ELSE closing
  /\ UNCHANGED <<up, loginVars, clientVars, storageVars, diskVars, owed, history>>

(* Mutant of TornDown: close is not looked at after the teardown.           *)
TornDownHeedless ==
  /\ job = "torn"
  /\ job' = IF restart = "running" THEN "configuring" ELSE "settled"
  /\ closing' = IF closing = "running" THEN "done" ELSE closing
  /\ UNCHANGED <<restart, up, loginVars, clientVars, storageVars, diskVars, owed, history>>

(* The restart goes on to #connect, unless the host was closed meanwhile.   *)
TornDown ==
  /\ job = "torn"
  /\ job' = IF restart = "running" /\ ~Closed THEN "configuring" ELSE "settled"
  /\ restart' = IF Closed THEN "none" ELSE restart
  /\ closing' = IF closing = "running" THEN "done" ELSE closing
  /\ UNCHANGED <<up, loginVars, clientVars, storageVars, diskVars, owed, history>>

(* #connect: a new LoginFlow, even if a login of the old one is in flight.  *)
Configure ==
  /\ job = "configuring"
  /\ job' = "resuming"
  /\ flow' = NoClient
  /\ UNCHANGED <<restart, closing, up, logout, issued, clientVars, storageVars, diskVars,
                 owed, history>>

(* A login that succeeded in this flow waited for the restart to end.       *)
FlowSettles ==
  flow' = IF restart = "running" /\ flow \in Clients
             /\ status[flow] \notin {"pairing", "paired"}
          THEN NoClient ELSE flow

(* Mutant of ConnectEnds: #restartInFlight is not cleared.                  *)
ConnectEndsInFlight ==
  /\ job' = "settled"
  /\ restart' = restart
  /\ FlowSettles

ConnectEnds ==
  /\ job' = "settled"
  /\ restart' = IF restart = "running" THEN "none" ELSE restart
  /\ FlowSettles

(* resumeStoredSession finds no session: disconnected mode.                 *)
NoSession ==
  /\ job = "resuming" /\ session = 0
  /\ ConnectEnds
  /\ UNCHANGED <<closing, up, logout, issued, clientVars, storageVars, diskVars, owed,
                 history>>

(* Otherwise it makes a client, whose storage reads the file.               *)
Resume ==
  /\ job = "resuming" /\ session # 0 /\ Fresh # {}
  /\ job' = "connecting"
  /\ LET c == CHOOSE c \in Fresh : TRUE IN
       /\ status' = [status EXCEPT ![c] = "connecting"]
       /\ token' = [token EXCEPT ![c] = session]
       /\ cache' = [cache EXCEPT ![c] = file]
  /\ doubled' = (doubled \/ Alive # {})
  /\ UNCHANGED <<restart, closing, up, loginVars, timer, writes, diskVars,
                 owed, high, folded, removed>>

(* LINE rejects the token, or does not answer.                              *)
ConnectFails(c) ==
  /\ job = "connecting" /\ status[c] = "connecting"
  /\ ConnectEnds
  /\ Dropped(c)
  /\ UNCHANGED <<closing, up, logout, issued, timer, writes, diskVars, owed, history>>

Connected(c) ==
  /\ job = "connecting" /\ status[c] = "connecting"
  /\ ConnectEnds
  /\ status' = [status EXCEPT ![c] = "running"]
  /\ up' = TRUE
  /\ UNCHANGED <<closing, logout, issued, token, storageVars, diskVars, owed, history>>

(* A reply: getReqseq takes the next number and stores its successor.       *)
Send(c) ==
  /\ status[c] = "running" /\ up
  /\ cache[c].seq < MaxSeq
  /\ StorageSets(c, [cache[c] EXCEPT !.seq = @ + 1])
  /\ high' = IF cache[c].seq < high THEN high ELSE cache[c].seq + 1
  /\ UNCHANGED <<hostVars, loginVars, clientVars, writes, diskVars, owed, doubled, folded, removed>>

------------------------------------------------------------------------------
(* The admin page's login and logout.                                       *)

(* LoginFlow.start; a host without a connection is left a client for one.   *)
LoginStarts ==
  /\ flow = NoClient /\ Fresh # {}
  /\ Open = {} => Cardinality(Fresh) > 1
  /\ LET c == CHOOSE c \in Fresh : TRUE IN
       /\ flow' = c
       /\ status' = [status EXCEPT ![c] = "pairing"]
       /\ cache' = [cache EXCEPT ![c] = file]
  /\ doubled' = (doubled \/ Alive # {} \/ logout \/ job = "removing")
  /\ UNCHANGED <<hostVars, logout, issued, token, timer, writes, diskVars, owed,
                 high, folded, removed>>

(* The QR code was scanned: LINE issues a token, LINEJS stores its refresh  *)
(* token.                                                                   *)
LoginPairs(c) ==
  /\ status[c] = "pairing" /\ issued < MaxTokens
  /\ issued' = issued + 1
  /\ status' = [status EXCEPT ![c] = "paired"]
  /\ token' = [token EXCEPT ![c] = issued + 1]
  /\ StorageSets(c, [cache[c] EXCEPT !.refresh = issued + 1])
  /\ UNCHANGED <<hostVars, flow, logout, writes, diskVars, owed, history>>

(* Mutant of LoginSucceeds: nobody hears of the new session.                *)
LoginSucceedsSilently(c) ==
  /\ status[c] = "paired"
  /\ Dropped(c)
  /\ session' = token[c]
  /\ UNCHANGED <<job, restart, closing, up, loginVars, timer, writes, file, owed, history>>

(* persist, and onSuccess.                                                  *)
LoginSucceeds(c) ==
  /\ status[c] = "paired"
  /\ Dropped(c)
  /\ session' = token[c]
  /\ RestartRequested
  /\ UNCHANGED <<job, closing, up, loginVars, timer, writes, file, high, doubled, removed>>

LoginFails(c) ==
  /\ status[c] \in {"pairing", "paired"}
  /\ Dropped(c)
  /\ flow' = IF flow = c THEN NoClient ELSE flow
  /\ UNCHANGED <<hostVars, logout, issued, timer, writes, diskVars, owed, history>>

Logout ==
  /\ ~logout /\ job # "fresh"
  /\ logout' = TRUE
  /\ session' = 0
  /\ removed' = removed \union ({session} \ {0})
  /\ doubled' = (doubled \/ Alive # Open)
  /\ UNCHANGED <<hostVars, flow, issued, clientVars, storageVars, file, owed,
                 high, folded>>

(* The route removes the key/value file and asks for a restart.             *)
LogoutRestarts ==
  /\ logout
  /\ logout' = FALSE
  /\ FileRemoved
  /\ RestartRequested
  /\ UNCHANGED <<job, closing, up, flow, issued, clientVars, storageVars, session,
                 doubled, removed>>

Teardown(c) == Flush(c) \/ Flushed(c)
Connect(c) == ConnectFails(c) \/ Connected(c)

Next ==
  \/ Start \/ RequestRestart \/ WorkerDies \/ Respawn \/ RestartSettles
  \/ Close \/ CloseProceeds \/ DiscardStorage \/ TornDown
  \/ Configure \/ NoSession \/ Resume
  \/ LoginStarts \/ Logout \/ LogoutRestarts
  \/ \E c \in Clients :
       \/ TimerFires(c) \/ WriteDone(c) \/ Teardown(c) \/ Connect(c)
       \/ Send(c) \/ LoginPairs(c) \/ LoginSucceeds(c) \/ LoginFails(c)

(* Timers fire, files get written, and a connect attempt ends one way or    *)
(* the other; that a stopped adapter ends its run is TeardownEndsWorker of  *)
(* RacingInbound with DrainTerminates of ReplyPipeline.                     *)
Fairness ==
  /\ WF_vars(Respawn) /\ WF_vars(RestartSettles) /\ WF_vars(CloseProceeds)
  /\ WF_vars(DiscardStorage) /\ WF_vars(TornDown)
  /\ WF_vars(Configure) /\ WF_vars(NoSession) /\ WF_vars(Resume)
  /\ \A c \in Clients : /\ WF_vars(TimerFires(c)) /\ WF_vars(WriteDone(c))
                        /\ WF_vars(Teardown(c)) /\ WF_vars(Connect(c))

Spec == Init /\ [][Next]_vars
FairSpec == Spec /\ Fairness

------------------------------------------------------------------------------
Settled == job = "settled" /\ restart = "none" /\ ~Closed

(* Whatever starts, restarts, respawns, logins and closes coincide, the     *)
(* host never holds two clients, and none once it is closed: a connect waits*)
(* for the teardown before it.  This says nothing of what a client that was *)
(* torn down still opens at LINE by its pusher loop.                        *)
OneClientHeld ==
  /\ Cardinality(Open) <= 1
  /\ closing = "done" => Open = {}

(* "Tears the connection down and reconnects with whatever session is now   *)
(* stored" (restart, bots/bot-host.ts): once no restart is under way, the   *)
(* bot runs on the session in the store.                                    *)
RunsOnStoredSession ==
  Settled /\ ~logout => \A c \in Running : token[c] = session

(* The same with the one case left out that breaks it, a restart that was   *)
(* folded into a connect which had read the session before.                 *)
RunsOnStoredUnlessFolded == folded \/ RunsOnStoredSession

(* A graceful restart never makes LINE see a request sequence number twice: *)
(* "this only bites on an unclean kill" (adapters/linejs/buffered-storage.ts*)
(* and the comment of BotHost.#teardown).                                   *)
SequenceNeverReused == \A c \in Running : cache[c].seq >= high

(* The host as its users see it.  A closed host is off from its teardown on;*)
(* what a client that leaves still has is nobody's session any more.        *)
Link ==
  IF closing \in {"running", "done"} THEN "off"
  ELSE IF job = "fresh" THEN "fresh"
  ELSE IF job \in {"stopping", "flushing", "removing", "torn"} THEN "leaving"
  ELSE IF job # "settled" THEN "connecting"
  ELSE IF Running = {} THEN "off" ELSE "up"

Holding == {c \in Clients : status[c] \in {"connecting", "running"}}
Using == IF Holding = {} THEN 0 ELSE token[CHOOSE c \in Holding : TRUE]

Asked == IF restart = "queued" THEN "asked" ELSE "no"

C == INSTANCE Connection
       WITH Sessions <- 1..MaxTokens, NoSession <- 0,
            link <- Link, restart <- Asked, stored <- session, using <- Using

(* Await by await, whatever starts, restarts, logins, logouts and closes    *)
(* coincide, the host does what Connection says: a restart that was asked   *)
(* for is never dropped nor begun in the middle of a connect, a connect     *)
(* runs on the session it found, a new session asks for a restart, and no   *)
(* connect begins once close has been called.                               *)
HostIsConnection == C!Spec

(* As long as no two clients had the key/value file open at once, a         *)
(* connection continues the sequence numbers and has a refresh token at     *)
(* least as new as the session it runs on, across every teardown, restart   *)
(* and login.                                                               *)
SoleClientContinues ==
  ~doubled => /\ SequenceNeverReused
              /\ \A c \in Running : cache[c].refresh >= token[c]

(* "that write would resurrect the very token it just removed"              *)
(* (#discardStorageIfLoggedOut): once a logout has run its course, its token *)
(* is not in the key/value file.                                            *)
LogoutSticks ==
  ~doubled /\ Settled /\ ~logout /\ Alive = {} => file.refresh \notin removed

(* A restart that was asked for leads to a new connect, and so does a run   *)
(* loop that died, unless the host is closed.                               *)
RestartReconnects ==
  (restart = "queued" \/ (Running # {} /\ ~up)) ~> (job = "resuming" \/ Closed)

(* close() ends, whatever is under way when it is called.                   *)
CloseEnds == closing = "waiting" ~> closing = "done"
================================================================================
