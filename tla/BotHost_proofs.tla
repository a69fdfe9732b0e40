---------------------------- MODULE BotHost_proofs ----------------------------
(***************************************************************************)
(* The host, its logins and its files, for any number of LINE clients,      *)
(* logins and sequence numbers.  The control comes first: the chain of      *)
(* promises behind #ready is all that keeps two clients apart, and what     *)
(* each stage of it knows about the clients is the invariant.  Then the     *)
(* files: a restart is on its way wherever the stored session was changed   *)
(* under a connection, and what the only client holds, has on its way to    *)
(* the disk or has left in the file continues the session.  Both are used   *)
(* for the refinement of Connection at the end.                             *)
(***************************************************************************)
EXTENDS BotHost, SequenceTheorems, FiniteSetTheorems, TLAPS

ControlTypes ==
  /\ job \in {"fresh", "settled", "stopping", "flushing", "removing", "torn",
              "configuring", "resuming", "connecting"}
  /\ restart \in {"none", "queued", "running"}
  /\ closing \in {"no", "waiting", "running", "done"}
  /\ status \in [Clients -> {"free", "connecting", "running", "leaving", "pairing", "paired"}]
  /\ job = "connecting" <=> \E c \in Clients : status[c] = "connecting"

FlagTypes ==
  /\ up \in BOOLEAN /\ logout \in BOOLEAN
  /\ flow \in Clients \union {NoClient, NoFlow}
  /\ owed \in SUBSET Clients
  /\ doubled \in BOOLEAN /\ folded \in BOOLEAN /\ removed \in SUBSET Token

StorageTypes ==
  /\ token \in [Clients -> Token]
  /\ cache \in [Clients -> Store]
  /\ timer \in [Clients -> BOOLEAN]
  /\ writes \in [Clients -> Seq(Store)]
  /\ session \in Token /\ file \in Store /\ issued \in Token
  /\ high \in 0..MaxSeq

(* A runtime is published only while nothing is under way, and torn down    *)
(* only in the stages of a teardown.                                        *)
StageOfClient ==
  \A c \in Clients :
    /\ status[c] = "running" => job = "settled"
    /\ status[c] = "leaving" => job \in {"stopping", "flushing"}

OneOpen ==
  \A c, d \in Clients :
    /\ status[c] \in {"connecting", "running", "leaving"}
    /\ status[d] \in {"connecting", "running", "leaving"}
    => c = d

(* close() begins when no restart is under way, and none begins after.      *)
StageOfClose ==
  /\ closing \in {"running", "done"} => restart = "none"
  /\ closing = "running" => job \in {"stopping", "flushing", "removing", "torn"}
  /\ closing = "done" => job = "settled" /\ \A c \in Clients : status[c] # "running"

IInv == TypeOK /\ StageOfClient /\ OneOpen /\ StageOfClose

------------------------------------------------------------------------------
(* The type invariant falls into the three parts that the steps disturb.    *)
LEMMA TypeParts == TypeOK <=> ControlTypes /\ FlagTypes /\ StorageTypes
PROOF
  BY DEF TypeOK, ControlTypes, FlagTypes, StorageTypes

(* A bot starts with no client, so that every stage's knowledge holds.       *)
LEMMA InitIInv == Init => IInv
PROOF
<1> SUFFICES ASSUME Init
             PROVE  IInv
  OBVIOUS
<1>1. Blank \in Store /\ 0 \in Token /\ 1 \in Token
  BY HostAssumption DEF HostAssumption, Blank, Store, Token
<1>2. ControlTypes
  BY DEF Init, ControlTypes
<1>3. FlagTypes
  BY Zenon DEF Init, FlagTypes
<1>4. StorageTypes
  <2>1. session \in Token /\ issued \in Token
    BY <1>1 DEF Init
  <2>2. file \in Store
    BY <2>1, HostAssumption DEF Init, Store, HostAssumption
  <2>3. writes \in [Clients -> Seq(Store)]
    BY EmptySeq DEF Init
  <2>4. high \in 0..MaxSeq
    BY HostAssumption DEF Init, HostAssumption
  <2> QED
    BY <1>1, <2>1, <2>2, <2>3, <2>4 DEF Init, StorageTypes
<1>5. StageOfClient /\ OneOpen /\ StageOfClose
  BY DEF Init, StageOfClient, OneOpen, StageOfClose
<1> QED
  BY <1>2, <1>3, <1>4, <1>5, TypeParts DEF IInv

Control == ControlTypes /\ StageOfClient /\ OneOpen /\ StageOfClose

(* No start, restart, respawn, login or close takes a second connection      *)
(* beside the one that is open, connects, or is being torn down.            *)
LEMMA ControlStep ==
  ASSUME Control, [Next]_vars
  PROVE  Control'
PROOF
<1> USE DEF Control, ControlTypes, StageOfClient, OneOpen, StageOfClose
<1>1. CASE Start
  BY <1>1 DEF Start, Closed, clientVars
<1>2. CASE RequestRestart
  BY <1>2 DEF RequestRestart, RestartRequested, Closed, clientVars
<1>3. CASE WorkerDies
  BY <1>3 DEF WorkerDies, clientVars
<1>4. CASE Respawn
  BY <1>4 DEF Respawn, RestartRequested, Closed, clientVars
<1>5. CASE RestartSettles
  BY <1>5 DEF RestartSettles, BeginTeardown, Running
<1>6. CASE Close
  BY <1>6 DEF Close, clientVars
<1>7. CASE CloseProceeds
  BY <1>7 DEF CloseProceeds, BeginTeardown, Running
<1>8. CASE DiscardStorage
  BY <1>8 DEF DiscardStorage, clientVars
<1>9. CASE TornDown
  BY <1>9 DEF TornDown, Closed, clientVars
<1>10. CASE Configure
  BY <1>10 DEF Configure, clientVars
<1>11. CASE NoSession
  BY <1>11 DEF NoSession, ConnectEnds, clientVars
<1>12. CASE Resume
  <2>1. PICK c \in Clients : status' = [status EXCEPT ![c] = "connecting"]
    BY <1>12 DEF Resume, Fresh
  <2> QED
    BY <1>12, <2>1 DEF Resume
<1>13. CASE LoginStarts
  <2>1. PICK c \in Clients : status[c] = "free" /\ status' = [status EXCEPT ![c] = "pairing"]
    BY <1>13 DEF LoginStarts, Fresh, Alive
  <2> QED
    BY <1>13, <2>1 DEF LoginStarts, hostVars
<1>14. CASE Logout
  BY <1>14 DEF Logout, hostVars, clientVars
<1>15. CASE LogoutRestarts
  BY <1>15 DEF LogoutRestarts, RestartRequested, Closed, clientVars
<1>16. ASSUME NEW c \in Clients, TimerFires(c)
       PROVE  Control'
  BY <1>16 DEF TimerFires, hostVars, clientVars
<1>17. ASSUME NEW c \in Clients, WriteDone(c)
       PROVE  Control'
  BY <1>17 DEF WriteDone, hostVars, clientVars
<1>18. ASSUME NEW c \in Clients, Flush(c)
       PROVE  Control'
  BY <1>18 DEF Flush, clientVars
<1>19. ASSUME NEW c \in Clients, Flushed(c)
       PROVE  Control'
  BY <1>19 DEF Flushed, Dropped, Leaving
<1>20. ASSUME NEW c \in Clients, ConnectFails(c)
       PROVE  Control'
  BY <1>20 DEF ConnectFails, ConnectEnds, Dropped
<1>21. ASSUME NEW c \in Clients, Connected(c)
       PROVE  Control'
  BY <1>21 DEF Connected, ConnectEnds
<1>22. ASSUME NEW c \in Clients, Send(c)
       PROVE  Control'
  BY <1>22 DEF Send, hostVars, clientVars
<1>23. ASSUME NEW c \in Clients, LoginPairs(c)
       PROVE  Control'
  BY <1>23 DEF LoginPairs, hostVars
<1>24. ASSUME NEW c \in Clients, LoginSucceeds(c)
       PROVE  Control'
  BY <1>24 DEF LoginSucceeds, RestartRequested, Closed, Dropped
<1>25. ASSUME NEW c \in Clients, LoginFails(c)
       PROVE  Control'
  BY <1>25 DEF LoginFails, hostVars, Dropped
<1>26. CASE UNCHANGED vars
  BY <1>26 DEF vars, hostVars, clientVars
<1> QED
  BY <1>1, <1>2, <1>3, <1>4, <1>5, <1>6, <1>7, <1>8, <1>9, <1>10, <1>11, <1>12,
     <1>13, <1>14, <1>15, <1>16, <1>17, <1>18, <1>19, <1>20, <1>21, <1>22, <1>23,
     <1>24, <1>25, <1>26 DEF Next, Teardown, Connect

------------------------------------------------------------------------------
(* A client that is let go of leaves well-typed tokens and caches.          *)
LEMMA DroppedTypes ==
  ASSUME HostAssumption, StorageTypes, NEW c \in Clients, Dropped(c)
  PROVE  token' \in [Clients -> Token] /\ cache' \in [Clients -> Store]
PROOF
<1>1. 0 \in Token /\ Blank \in Store
  BY HostAssumption DEF HostAssumption, Token, Store, Blank
<1> QED
  BY <1>1 DEF Dropped, StorageTypes

(* A restart request reaches only #restartInFlight and what is owed to it.  *)
LEMMA FlagStep ==
  ASSUME TypeOK, [Next]_vars
  PROVE  FlagTypes'
PROOF
<1> ControlTypes /\ FlagTypes /\ StorageTypes
  BY TypeParts
<1> USE DEF FlagTypes
<1>1. CASE RequestRestart \/ Respawn
  BY <1>1, ZenonT(30) DEF RequestRestart, Respawn, RestartRequested, loginVars
<1>2. CASE RestartSettles \/ CloseProceeds
  BY <1>2 DEF RestartSettles, CloseProceeds, BeginTeardown, loginVars, history
<1>3. CASE Start \/ Close \/ TornDown \/ WorkerDies
  BY <1>3 DEF Start, Close, TornDown, WorkerDies, loginVars, history
<1>4. CASE DiscardStorage
  BY <1>4 DEF DiscardStorage, loginVars
<1>5. CASE Configure
  BY <1>5 DEF Configure, history
<1>6. CASE NoSession
  <2>1. flow' \in Clients \union {NoClient, NoFlow}
    BY <1>6 DEF NoSession, ConnectEnds, FlowSettles
  <2> QED
    BY <1>6, <2>1 DEF NoSession, history
<1>7. CASE Resume
  BY <1>7 DEF Resume, loginVars
<1>8. CASE LoginStarts
  <2>1. PICK c \in Clients : flow' = c
    BY <1>8 DEF LoginStarts, Fresh
  <2> QED
    BY <1>8, <2>1 DEF LoginStarts, hostVars
<1>9. CASE Logout
  <2>1. removed' \in SUBSET Token
    BY <1>9 DEF Logout, StorageTypes
  <2> QED
    BY <1>9, <2>1 DEF Logout, hostVars
<1>10. CASE LogoutRestarts
  BY <1>10, ZenonT(30) DEF LogoutRestarts, RestartRequested
<1>11. ASSUME NEW c \in Clients,
              TimerFires(c) \/ Flush(c) \/ Send(c) \/ LoginPairs(c)
       PROVE  FlagTypes'
  BY <1>11 DEF TimerFires, Flush, Send, LoginPairs, hostVars, loginVars, history
<1>12. ASSUME NEW c \in Clients, WriteDone(c)
       PROVE  FlagTypes'
  BY <1>12 DEF WriteDone, hostVars, loginVars, history
<1>13. ASSUME NEW c \in Clients, Flushed(c)
       PROVE  FlagTypes'
  BY <1>13 DEF Flushed, loginVars, history
<1>14. ASSUME NEW c \in Clients, ConnectFails(c) \/ Connected(c)
       PROVE  FlagTypes'
  <2>1. flow' \in Clients \union {NoClient, NoFlow}
    BY <1>14 DEF ConnectFails, Connected, ConnectEnds, FlowSettles
  <2>2. up' \in BOOLEAN
    BY <1>14 DEF ConnectFails, Connected
  <2> QED
    BY <1>14, <2>1, <2>2 DEF ConnectFails, Connected, history
<1>15. ASSUME NEW c \in Clients, LoginSucceeds(c)
       PROVE  FlagTypes'
  BY <1>15, ZenonT(30) DEF LoginSucceeds, RestartRequested, loginVars
<1>16. ASSUME NEW c \in Clients, LoginFails(c)
       PROVE  FlagTypes'
  BY <1>16 DEF LoginFails, hostVars, history
<1>17. CASE UNCHANGED vars
  BY <1>17 DEF vars, hostVars, loginVars, history
<1> QED
  BY <1>1, <1>2, <1>3, <1>4, <1>5, <1>7, <1>8, <1>9, <1>10, <1>11, <1>12, <1>13,
     <1>15, <1>16, <1>17, <1>6, <1>14 DEF Next, Teardown, Connect

------------------------------------------------------------------------------
(* Setting a value in a client's cache leaves every cache well typed.       *)
LEMMA SetTypes ==
  ASSUME StorageTypes, NEW c \in Clients, NEW contents \in Store,
         StorageSets(c, contents)
  PROVE  cache' \in [Clients -> Store] /\ timer' \in [Clients -> BOOLEAN]
PROOF
  BY DEF StorageSets, StorageTypes

(* What reaches a cache, a snapshot, the file or the session store is always *)
(* a bounded sequence number and a token that LINE has issued.              *)
LEMMA StorageStep ==
  ASSUME HostAssumption, TypeOK, [Next]_vars
  PROVE  StorageTypes'
PROOF
<1> ControlTypes /\ FlagTypes /\ StorageTypes
  BY TypeParts
<1> USE DEF StorageTypes, storageVars, diskVars, history, clientVars, loginVars
<1>1. CASE \/ Start \/ RequestRestart \/ WorkerDies \/ Respawn \/ RestartSettles
           \/ Close \/ CloseProceeds \/ TornDown \/ Configure \/ NoSession
  <2>1. UNCHANGED <<token, cache, timer, writes, session, file, issued, high>>
    BY <1>1 DEF Start, RequestRestart, WorkerDies, Respawn, RestartSettles, Close,
                CloseProceeds, TornDown, Configure, NoSession
  <2> QED
    BY <2>1
<1>2. CASE DiscardStorage \/ LogoutRestarts
  <2>1. file' \in Store /\ high' \in 0..MaxSeq
    BY <1>2, HostAssumption
    DEF DiscardStorage, LogoutRestarts, FileRemoved, HostAssumption, Blank, Store, Token
  <2>2. UNCHANGED <<token, cache, timer, writes, session, issued>>
    BY <1>2 DEF DiscardStorage, LogoutRestarts
  <2> QED
    BY <2>1, <2>2
<1>3. CASE Resume
  <2>1. PICK c \in Clients : /\ token' = [token EXCEPT ![c] = session]
                             /\ cache' = [cache EXCEPT ![c] = file]
    BY <1>3 DEF Resume, Fresh
  <2>2. UNCHANGED <<timer, writes, session, file, issued, high>>
    BY <1>3 DEF Resume
  <2> QED
    BY <2>1, <2>2
<1>4. CASE LoginStarts
  <2>1. PICK c \in Clients : cache' = [cache EXCEPT ![c] = file]
    BY <1>4 DEF LoginStarts, Fresh
  <2> QED
    BY <1>4, <2>1 DEF LoginStarts
<1>5. CASE Logout
  BY <1>5, HostAssumption DEF Logout, Token, HostAssumption
<1>6. ASSUME NEW c \in Clients, TimerFires(c)
      PROVE  StorageTypes'
  <2>1. Append(writes[c], cache[c]) \in Seq(Store)
    BY AppendProperties
  <2>2. writes' \in [Clients -> Seq(Store)]
    BY <1>6, <2>1 DEF TimerFires
  <2>3. Blank \in Store
    BY HostAssumption DEF HostAssumption, Token, Store, Blank
  <2>4. cache' \in [Clients -> Store] /\ timer' \in [Clients -> BOOLEAN]
    BY <1>6, <2>3 DEF TimerFires
  <2> QED
    BY <1>6, <2>2, <2>4 DEF TimerFires
<1>7. ASSUME NEW c \in Clients, WriteDone(c)
      PROVE  StorageTypes'
  <2>1. Head(writes[c]) \in Store /\ Tail(writes[c]) \in Seq(Store)
    BY <1>7, HeadTailProperties DEF WriteDone
  <2> QED
    BY <1>7, <2>1 DEF WriteDone
<1>8. ASSUME NEW c \in Clients, Flush(c)
      PROVE  StorageTypes'
  <2>1. Append(writes[c], cache[c]) \in Seq(Store)
    BY AppendProperties
  <2> QED
    BY <1>8, <2>1 DEF Flush
<1>9. ASSUME NEW c \in Clients, Flushed(c) \/ ConnectFails(c) \/ LoginFails(c)
      PROVE  StorageTypes'
  <2>1. Dropped(c)
    BY <1>9 DEF Flushed, ConnectFails, LoginFails
  <2>2. UNCHANGED <<timer, writes, session, file, issued, high>>
    BY <1>9 DEF Flushed, ConnectFails, LoginFails
  <2> QED
    BY <2>1, <2>2, DroppedTypes
<1>10. ASSUME NEW c \in Clients, Connected(c)
       PROVE  StorageTypes'
  BY <1>10 DEF Connected
<1>11. ASSUME NEW c \in Clients, Send(c)
       PROVE  StorageTypes'
  <2> DEFINE next == [cache[c] EXCEPT !.seq = @ + 1]
  <2>1. cache[c] \in Store /\ cache[c].seq \in 0..MaxSeq /\ cache[c].seq < MaxSeq
    BY <1>11 DEF Send, Store
  <2>2. cache[c].seq + 1 \in 0..MaxSeq
    BY <2>1, HostAssumption DEF HostAssumption
  <2>3. next \in Store /\ high' \in 0..MaxSeq
    BY <1>11, <2>1, <2>2 DEF Send, Store
  <2>4. StorageSets(c, next)
    BY <1>11 DEF Send
  <2>5. cache' \in [Clients -> Store] /\ timer' \in [Clients -> BOOLEAN]
    BY <2>3, <2>4, SetTypes
  <2> QED
    BY <1>11, <2>3, <2>5 DEF Send
<1>12. ASSUME NEW c \in Clients, LoginPairs(c)
       PROVE  StorageTypes'
  <2> DEFINE next == [cache[c] EXCEPT !.refresh = issued + 1]
  <2>1. issued + 1 \in Token
    BY <1>12, HostAssumption DEF LoginPairs, HostAssumption, Token
  <2>2. next \in Store
    BY <2>1 DEF Store
  <2>3. StorageSets(c, next)
    BY <1>12 DEF LoginPairs
  <2>4. cache' \in [Clients -> Store] /\ timer' \in [Clients -> BOOLEAN]
    BY <2>2, <2>3, SetTypes
  <2> QED
    BY <1>12, <2>1, <2>4 DEF LoginPairs
<1>13. ASSUME NEW c \in Clients, LoginSucceeds(c)
       PROVE  StorageTypes'
  <2>1. Dropped(c) /\ session' \in Token
    BY <1>13 DEF LoginSucceeds
  <2> QED
    BY <1>13, <2>1, DroppedTypes DEF LoginSucceeds
<1>14. CASE UNCHANGED vars
  BY <1>14 DEF vars
<1> QED
  BY <1>1, <1>2, <1>3, <1>4, <1>5, <1>6, <1>7, <1>8, <1>9, <1>10, <1>11, <1>12,
     <1>13, <1>14 DEF Next, Teardown, Connect

------------------------------------------------------------------------------
(* The invariant is inductive.                                              *)
LEMMA NextIInv == ASSUME HostAssumption, IInv, [Next]_vars PROVE IInv'
PROOF
<1>1. Control
  BY TypeParts DEF IInv, Control
<1>2. Control'
  BY <1>1, ControlStep
<1>3. FlagTypes' /\ StorageTypes'
  BY FlagStep, StorageStep DEF IInv
<1>4. TypeOK'
  BY <1>2, <1>3, TypeParts, PTL DEF Control
<1> QED
  BY <1>2, <1>4 DEF IInv, Control

(* In every reachable state each stage of #ready knows what it relies on.   *)
THEOREM InductiveInvariant == Spec => []IInv
PROOF
  BY InitIInv, NextIInv, HostAssumption, PTL DEF Spec

(* The variables of the host, of its logins and of their storages keep their *)
(* types, and a connect attempt always has exactly the client it made.      *)
THEOREM TypeCorrect == Spec => []TypeOK
PROOF
<1>1. IInv => TypeOK
  BY DEF IInv
<1> QED
  BY <1>1, InductiveInvariant, PTL

(* Whatever starts, restarts, respawns, logins and closes coincide, the host *)
(* never holds two clients, and none once it is closed.                     *)
THEOREM OneClientIsHeld == Spec => []OneClientHeld
PROOF
<1>1. ASSUME IInv PROVE OneClientHeld
  <2>1. Cardinality(Open) <= 1
    <3>1. CASE Open = {}
      BY <3>1, FS_EmptySet
    <3>2. ASSUME NEW c \in Open PROVE Cardinality(Open) <= 1
      <4>1. Open = {c}
        BY <1>1 DEF IInv, OneOpen, Open
      <4> QED
        BY <4>1, FS_Singleton
    <3> QED
      BY <3>1, <3>2
  <2>2. closing = "done" => Open = {}
    BY <1>1 DEF IInv, TypeOK, StageOfClient, StageOfClose, Open
  <2> QED
    BY <2>1, <2>2 DEF OneClientHeld
<1> QED
  BY <1>1, InductiveInvariant, PTL
------------------------------------------------------------------------------
(* The session and its files.                                               *)

(* A restart that runs leaves no connection; one that was asked for, before *)
(* the session was read, reads it.                                          *)
Current ==
  /\ restart = "running" => job \notin {"fresh", "settled"}
  /\ ~folded /\ ~Closed /\ ~logout =>
       \A c \in Clients : status[c] \in {"connecting", "running"} =>
         token[c] = session \/ restart = "queued"

(* Tokens are numbered as they are issued, and a client has none before it  *)
(* is given one.                                                            *)
Numbered ==
  /\ session <= issued
  /\ \A c \in Clients : /\ token[c] <= issued
                        /\ status[c] \in {"free", "pairing"} => token[c] = 0
  /\ removed \subseteq 1..issued

(* What the key/value file will hold once client c has written.             *)
Latest(c) ==
  IF timer[c] THEN cache[c]
  ELSE IF writes[c] # <<>> THEN writes[c][Len(writes[c])]
  ELSE file

Newer(x) == x.seq >= high /\ x.refresh >= session
Gone(x) == x.refresh \in removed

(* What the only client leaves behind continues the session.                *)
Holds(c) ==
  /\ Newer(Latest(c))
  /\ status[c] # "free" => cache[c].seq >= high /\ cache[c].refresh >= token[c]
  /\ c \in Open \/ status[c] = "paired" => session <= token[c]
  /\ status[c] = "paired" => Latest(c).refresh >= token[c]
  /\ status[c] = "connecting" => ~Pending(c)
  /\ status[c] = "leaving" /\ job = "flushing" => ~timer[c]

(* ... and brings no token back that a logout has removed.                  *)
Clean(c) ==
  /\ c \notin Open \/ session # 0 => ~Gone(Latest(c)) /\ (status[c] # "free" => ~Gone(cache[c]))
  /\ status[c] = "connecting" /\ ~logout => ~Gone(file)

Single ==
  /\ \A c, d \in Alive : c = d
  /\ logout => session = 0 /\ Alive \subseteq Open
  /\ job = "removing" => session = 0 /\ Alive = {}
  /\ Alive = {} => Newer(file) /\ (~logout /\ job # "removing" => ~Gone(file))
  /\ \A c \in Alive : Holds(c) /\ Clean(c)

Sound == Current /\ Numbered /\ (doubled \/ Single)

(* Every number of the host is a natural number.                            *)
LEMMA Numbers ==
  ASSUME HostAssumption, StorageTypes
  PROVE  /\ session \in Nat /\ issued \in Nat /\ high \in Nat
         /\ \A c \in Clients : token[c] \in Nat
         /\ \A x \in Store : x.seq \in Nat /\ x.refresh \in Nat
         /\ \A c \in Clients : Latest(c) \in Store /\ cache[c] \in Store
         /\ file \in Store /\ Blank \in Store /\ Token \subseteq Nat
<1>1. Token \subseteq Nat /\ 0..MaxSeq \subseteq Nat /\ Blank \in Store
  BY DEF HostAssumption, Token, Blank, Store
<1>2. \A x \in Store : x.seq \in Nat /\ x.refresh \in Nat
  BY <1>1 DEF Store
<1>3. ASSUME NEW c \in Clients
      PROVE  Latest(c) \in Store
  <2>1. writes[c] \in Seq(Store)
    BY DEF StorageTypes
  <2>2. writes[c] # <<>> => writes[c][Len(writes[c])] \in Store
    BY <2>1
  <2> QED
    BY <2>2 DEF StorageTypes, Latest
<1> QED
  BY <1>1, <1>2, <1>3 DEF StorageTypes

(* What a client leaves to be written: a set changes it, a write does not.  *)
LEMMA LatestSet ==
  ASSUME StorageTypes, NEW c \in Clients, NEW x, StorageSets(c, x)
  PROVE  Latest(c)' = x /\ cache'[c] = x
BY DEF StorageSets, Latest, StorageTypes

LEMMA LatestWritten ==
  ASSUME StorageTypes, NEW c \in Clients,
         \/ timer[c] /\ timer' = [timer EXCEPT ![c] = FALSE]
                     /\ writes' = [writes EXCEPT ![c] = Append(@, cache[c])]
                     /\ UNCHANGED file
         \/ ~timer[c] /\ timer' = [timer EXCEPT ![c] = FALSE] /\ UNCHANGED <<writes, file>>
         \/ WriteDone(c)
         \/ (timer[c] => cache'[c] = cache[c]) /\ UNCHANGED <<timer, writes, file>>
  PROVE  Latest(c)' = Latest(c)
<1>1. writes[c] \in Seq(Store) /\ cache[c] \in Store
  BY DEF StorageTypes
<1>2. CASE /\ timer[c] /\ timer' = [timer EXCEPT ![c] = FALSE]
           /\ writes' = [writes EXCEPT ![c] = Append(@, cache[c])]
  <2>1. writes'[c] = Append(writes[c], cache[c]) /\ ~timer'[c]
    BY <1>2 DEF StorageTypes
  <2>2. writes'[c] # <<>> /\ writes'[c][Len(writes'[c])] = cache[c]
    BY <1>1, <2>1, AppendProperties
  <2> QED
    BY <1>2, <2>1, <2>2 DEF Latest
<1>3. CASE ~timer[c] /\ timer' = [timer EXCEPT ![c] = FALSE] /\ UNCHANGED <<writes, file>>
  BY <1>3 DEF Latest, StorageTypes
<1>4. CASE WriteDone(c)
  <2>1. /\ writes[c] # <<>> /\ file' = Head(writes[c]) /\ writes'[c] = Tail(writes[c])
        /\ UNCHANGED <<timer, cache>>
    BY <1>4 DEF WriteDone, StorageTypes
  <2>2. /\ Tail(writes[c]) # <<>> => Tail(writes[c])[Len(Tail(writes[c]))] = writes[c][Len(writes[c])]
        /\ Tail(writes[c]) = <<>> => Head(writes[c]) = writes[c][Len(writes[c])]
    <3>1. Len(writes[c]) \in Nat \ {0} /\ Len(Tail(writes[c])) = Len(writes[c]) - 1
          /\ Tail(writes[c]) \in Seq(Store)
      BY <1>1, <2>1
    <3>2. \A n \in 1..Len(writes[c]) - 1 : Tail(writes[c])[n] = writes[c][n + 1]
      BY <1>1, <2>1
    <3>3. Tail(writes[c]) = <<>> <=> Len(Tail(writes[c])) = 0
      BY <3>1, EmptySeq
    <3>4. CASE Tail(writes[c]) = <<>>
      <4>1. Len(writes[c]) = 1
        BY <3>1, <3>4, <3>3
      <4> QED
        BY <1>1, <2>1, <3>4, <4>1
    <3>5. CASE Tail(writes[c]) # <<>>
      <4>1. Len(Tail(writes[c])) # 0
        BY <3>5, <3>3
      <4> QED
        BY <3>1, <3>2, <3>5, <4>1
    <3> QED
      BY <3>4, <3>5
  <2> QED
    BY <2>1, <2>2 DEF Latest
<1>5. CASE (timer[c] => cache'[c] = cache[c]) /\ UNCHANGED <<timer, writes, file>>
  BY <1>5 DEF Latest
<1> QED
  BY <1>2, <1>3, <1>4, <1>5

(* What is left to show when at most client c is alive after a step.        *)
LEMMA SingleOf ==
  ASSUME NEW c \in Clients, Alive' \subseteq {c},
         logout' => session' = 0 /\ (c \in Alive' => c \in Open'),
         job' = "removing" => session' = 0 /\ c \notin Alive',
         c \notin Alive' => Newer(file)' /\ (~logout' /\ job' # "removing" => ~Gone(file)'),
         c \in Alive' => Holds(c)' /\ Clean(c)'
  PROVE  Single'
BY DEF Single

(* The control goes on without the clients.                                 *)
LEMMA SingleAside ==
  ASSUME Single, UNCHANGED <<status, token, cache, timer, writes, session, file, logout, high, removed>>,
         job' = job \/ {job, job'} \intersect {"removing", "flushing"} = {}
  PROVE  Single'
<1>1. Alive' = Alive /\ Open' = Open
  BY DEF Alive, Open, Pending
<1>2. \A c \in Clients : Latest(c)' = Latest(c)
  BY DEF Latest
<1>3. \A c \in Clients : Holds(c) => Holds(c)'
  BY <1>1, <1>2 DEF Holds, Newer, Pending
<1>4. \A c \in Clients : Clean(c) => Clean(c)'
  BY <1>1, <1>2 DEF Clean, Gone
<1>5. Alive \subseteq Clients
  BY DEF Alive
<1> QED
  BY <1>1, <1>3, <1>4, <1>5 DEF Single, Newer, Gone

(* The steps of the only client.                                            *)
LEMMA SingleClient ==
  ASSUME HostAssumption, IInv, Numbered, Single, NEW c \in Clients, c \in Alive,
         \/ TimerFires(c) \/ WriteDone(c) \/ Flush(c) \/ Flushed(c) \/ ConnectFails(c)
         \/ Connected(c) \/ Send(c) \/ LoginPairs(c) \/ LoginSucceeds(c) \/ LoginFails(c)
  PROVE  Single'
<1> DEFINE s == status[c]
           x == Latest(c)
<1>1. ControlTypes /\ StorageTypes /\ StageOfClient /\ StorageTypes'
  <2>1. [Next]_vars
    BY DEF Next, Teardown, Connect
  <2> QED
    BY <2>1, TypeParts, StorageStep DEF IInv
<1>2. /\ session \in Nat /\ issued \in Nat /\ high \in Nat /\ token[c] \in Nat
      /\ x.seq \in Nat /\ x.refresh \in Nat /\ cache[c].seq \in Nat /\ cache[c].refresh \in Nat
      /\ cache[c] \in Store
  BY <1>1, Numbers
<1>3. Alive = {c} /\ Holds(c) /\ Clean(c)
  BY DEF Single, Alive
<1>4. c \in Open <=> s \in {"connecting", "running", "leaving"}
  BY DEF Open
<1>5. logout => session = 0 /\ c \in Open
  BY <1>3 DEF Single
<1>6. job # "removing"
  BY DEF Single
<1>7. /\ Newer(x)
      /\ s # "free" => cache[c].seq >= high /\ cache[c].refresh >= token[c]
      /\ c \in Open \/ s = "paired" => session <= token[c]
      /\ s = "paired" => x.refresh >= token[c]
      /\ s = "connecting" => ~Pending(c)
      /\ s = "leaving" /\ job = "flushing" => ~timer[c]
      /\ c \notin Open \/ session # 0 => ~Gone(x) /\ (s # "free" => ~Gone(cache[c]))
      /\ s = "connecting" /\ ~logout => ~Gone(file)
  BY <1>3 DEF Holds, Clean
<1>8. ASSUME \A d \in Clients \ {c} :
               status'[d] = status[d] /\ timer'[d] = timer[d] /\ writes'[d] = writes[d]
      PROVE  Alive' \subseteq {c}
  BY <1>3, <1>8 DEF Alive, Pending
<1>9. c \in Alive' <=> status'[c] # "free" \/ timer'[c] \/ writes'[c] # <<>>
  BY DEF Alive, Pending
<1>10. c \in Open' <=> status'[c] \in {"connecting", "running", "leaving"}
  BY DEF Open
<1>11. c \notin Alive' => Latest(c)' = file'
  BY <1>9 DEF Latest
<1> HIDE DEF x
<1>12. CASE TimerFires(c) \/ Flush(c)
  <2>1. /\ UNCHANGED <<status, token, session, file, logout, high, removed>>
        /\ ~timer'[c]
        /\ \A d \in Clients \ {c} : timer'[d] = timer[d] /\ writes'[d] = writes[d]
        /\ s # "free" => cache'[c] = cache[c]
        /\ job' = job \/ (job' = "flushing" /\ s = "leaving")
        /\ (Pending(c) /\ Pending(c)') \/ s = "leaving"
    <3>1. writes[c] \in Seq(Store) /\ cache[c] \in Store
      BY <1>1 DEF StorageTypes
    <3>2. Append(writes[c], cache[c]) # <<>>
      BY <3>1, AppendProperties
    <3> QED
      BY <1>1, <1>12, <3>2 DEF TimerFires, Flush, Leaving, StorageTypes, Pending, hostVars,
         loginVars, clientVars, diskVars, history
  <2>2. Latest(c)' = x
    BY <1>1, <1>12, LatestWritten DEF TimerFires, Flush, diskVars, x
  <2>3. Holds(c)'
    BY <1>7, <1>10, <1>4, <2>1, <2>2 DEF Holds, Newer
  <2>4. Clean(c)'
    BY <1>7, <1>10, <1>4, <2>1, <2>2 DEF Clean, Gone
  <2>5. c \in Alive'
    BY <1>9, <2>1 DEF Pending
  <2> QED
    BY <1>5, <1>6, <1>8, <1>4, <1>10, <2>1, <2>3, <2>4, <2>5, SingleOf
<1>13. CASE WriteDone(c)
  <2>1. /\ UNCHANGED <<job, status, token, cache, timer, session, logout, high, removed>>
        /\ \A d \in Clients \ {c} : writes'[d] = writes[d]
        /\ writes[c] # <<>>
    BY <1>1, <1>13 DEF WriteDone, StorageTypes, hostVars, loginVars, clientVars, history
  <2>2. Latest(c)' = x
    BY <1>1, <1>13, LatestWritten DEF x
  <2>3. s # "connecting" /\ ~(s = "free" /\ logout)
    BY <1>4, <1>5, <1>7, <2>1 DEF Pending
  <2>4. Holds(c)' /\ Clean(c)'
    BY <1>7, <1>10, <1>4, <2>1, <2>2, <2>3 DEF Holds, Clean, Newer, Gone
  <2>5. c \notin Alive' => s = "free" /\ Newer(file)' /\ ~Gone(file)'
    BY <1>4, <1>7, <1>9, <1>11, <2>1, <2>2 DEF Newer, Gone
  <2> QED
    BY <1>5, <1>6, <1>8, <1>4, <1>10, <2>1, <2>3, <2>4, <2>5, SingleOf
<1>14. ASSUME Dropped(c), UNCHANGED <<timer, writes, file, high, removed, logout>>
       PROVE  /\ Latest(c)' = x /\ status'[c] = "free" /\ Alive' \subseteq {c}
              /\ c \in Alive' <=> Pending(c)
              /\ c \notin Open'
  <2>1. status'[c] = "free" /\ (timer[c] => cache'[c] = cache[c])
        /\ \A d \in Clients \ {c} : status'[d] = status[d]
    BY <1>1, <1>14 DEF Dropped, ControlTypes
  <2>2. Latest(c)' = x
    BY <1>1, <1>14, <2>1, LatestWritten DEF x
  <2> QED
    BY <1>8, <1>9, <1>10, <1>14, <2>1, <2>2 DEF Pending
<1>15. CASE Flushed(c)
  <2>1. /\ s = "leaving" /\ job = "flushing" /\ writes[c] = <<>> /\ Dropped(c)
        /\ job' = IF session = 0 THEN "removing" ELSE "torn"
        /\ UNCHANGED <<timer, writes, file, session, high, removed, logout>>
    BY <1>15 DEF Flushed, Leaving, loginVars, diskVars, history
  <2>2. ~Pending(c)
    BY <1>7, <2>1 DEF Pending
  <2>3. Newer(file)' /\ (session # 0 => ~Gone(file)')
    BY <1>7, <1>11, <1>14, <2>1, <2>2 DEF Newer, Gone
  <2> QED
    BY <1>5, <1>14, <2>1, <2>2, <2>3, SingleOf
<1>16. CASE ConnectFails(c)
  <2>1. /\ s = "connecting" /\ Dropped(c) /\ job' = "settled"
        /\ UNCHANGED <<timer, writes, file, session, high, removed, logout>>
    BY <1>16 DEF ConnectFails, ConnectEnds, diskVars, history
  <2>2. ~Pending(c)
    BY <1>7, <2>1
  <2>3. Newer(file)' /\ (~logout => ~Gone(file)')
    BY <1>7, <1>11, <1>14, <2>1, <2>2 DEF Newer, Gone
  <2> QED
    BY <1>5, <1>14, <2>1, <2>2, <2>3, SingleOf
<1>17. CASE Connected(c)
  <2>1. /\ s = "connecting" /\ status' = [status EXCEPT ![c] = "running"] /\ job' = "settled"
        /\ UNCHANGED <<token, cache, timer, writes, file, session, high, removed, logout>>
    BY <1>17 DEF Connected, ConnectEnds, storageVars, diskVars, history
  <2>2. status'[c] = "running" /\ Latest(c)' = x
    BY <1>1, <2>1, LatestWritten DEF ControlTypes, x
  <2>3. Holds(c)' /\ Clean(c)'
    BY <1>4, <1>7, <1>10, <2>1, <2>2 DEF Holds, Clean, Newer, Gone
  <2>4. Alive' \subseteq {c}
    BY <1>1, <1>8, <2>1 DEF ControlTypes
  <2> QED
    BY <1>5, <1>9, <1>10, <2>1, <2>2, <2>3, <2>4, SingleOf
<1>18. CASE Send(c)
  <2> DEFINE y == [cache[c] EXCEPT !.seq = @ + 1]
  <2>1. /\ s = "running" /\ StorageSets(c, y)
        /\ high' = IF cache[c].seq < high THEN high ELSE cache[c].seq + 1
        /\ UNCHANGED <<job, status, token, writes, file, session, removed, logout>>
    BY <1>18 DEF Send, hostVars, loginVars, clientVars, diskVars
  <2>2. y.seq = cache[c].seq + 1 /\ y.refresh = cache[c].refresh
    BY <1>2 DEF Store
  <2>3. Latest(c)' = y /\ cache'[c] = y
    BY <1>1, <2>1, LatestSet
  <2> HIDE DEF y
  <2>4. Holds(c)' /\ Clean(c)'
    <3>1. y.seq >= high' /\ y.refresh >= session /\ y.refresh >= token[c]
      BY <1>2, <1>4, <1>7, <2>1, <2>2
    <3> QED
      BY <1>4, <1>7, <1>10, <2>1, <2>2, <2>3, <3>1 DEF Holds, Clean, Newer, Gone
  <2>5. Alive' \subseteq {c}
    BY <1>1, <1>8, <2>1 DEF StorageSets, StorageTypes
  <2> QED
    BY <1>5, <1>6, <1>9, <1>10, <2>1, <2>4, <2>5, SingleOf
<1>19. CASE LoginPairs(c)
  <2> DEFINE y == [cache[c] EXCEPT !.refresh = issued + 1]
  <2>1. /\ s = "pairing" /\ StorageSets(c, y)
        /\ status' = [status EXCEPT ![c] = "paired"] /\ token' = [token EXCEPT ![c] = issued + 1]
        /\ UNCHANGED <<job, writes, file, session, removed, logout, high>>
    BY <1>19 DEF LoginPairs, hostVars, diskVars, history
  <2>2. y.seq = cache[c].seq /\ y.refresh = issued + 1
    BY <1>2 DEF Store
  <2>3. Latest(c)' = y /\ cache'[c] = y /\ status'[c] = "paired" /\ token'[c] = issued + 1
    BY <1>1, <2>1, LatestSet DEF ControlTypes, StorageTypes
  <2>4. issued + 1 \notin removed /\ session <= issued + 1
    BY <1>2 DEF Numbered
  <2> HIDE DEF y
  <2>5. Holds(c)' /\ Clean(c)'
    <3>1. y.seq >= high /\ y.refresh >= session /\ y.refresh \notin removed
      BY <1>2, <1>7, <2>1, <2>2, <2>4
    <3> QED
      BY <1>2, <1>10, <2>1, <2>2, <2>3, <2>4, <3>1 DEF Holds, Clean, Newer, Gone
  <2>6. Alive' \subseteq {c}
    BY <1>1, <1>8, <2>1 DEF StorageSets, StorageTypes, ControlTypes
  <2> QED
    BY <1>4, <1>5, <1>6, <1>9, <1>10, <2>1, <2>3, <2>5, <2>6, SingleOf
<1>20. CASE LoginSucceeds(c) \/ LoginFails(c)
  <2>1. /\ s \in {"pairing", "paired"} /\ Dropped(c)
        /\ session' = session \/ (s = "paired" /\ session' = token[c])
        /\ UNCHANGED <<job, timer, writes, file, high, removed, logout>>
    <3>1. CASE LoginSucceeds(c)
      BY <3>1 DEF LoginSucceeds, loginVars
    <3>2. CASE LoginFails(c)
      BY <3>2 DEF LoginFails, hostVars, diskVars, history
    <3> QED
      BY <1>20, <3>1, <3>2
  <2>2. /\ Latest(c)' = x /\ status'[c] = "free" /\ Alive' \subseteq {c} /\ c \notin Open'
        /\ c \in Alive' <=> Pending(c)
    BY <1>14, <2>1
  <2>3. ~logout
    BY <1>4, <1>5, <2>1
  <2>4. Newer(x)' /\ ~Gone(x)'
    <3>1. x' = x
      BY <2>2 DEF x
    <3> QED
      BY <1>2, <1>4, <1>7, <2>1, <3>1 DEF Newer, Gone
  <2>5. Holds(c)' /\ Clean(c)'
    BY <2>2, <2>4 DEF Holds, Clean, x
  <2>6. c \notin Alive' => Newer(file)' /\ ~Gone(file)'
    BY <1>11, <2>2, <2>4 DEF x
  <2> QED
    BY <1>6, <2>1, <2>2, <2>3, <2>5, <2>6, SingleOf
<1> QED
  BY <1>12, <1>13, <1>15, <1>16, <1>17, <1>18, <1>19, <1>20

(* A restart that is asked for reconnects, or is folded into one that does.  *)
LEMMA RequestedCurrent ==
  ASSUME IInv, Current, RestartRequested, UNCHANGED <<job, closing>>,
         \A c \in Clients : status'[c] \in {"connecting", "running"} =>
                              status[c] \in {"connecting", "running"}
  PROVE  Current'
<1>1. CASE Closed
  BY <1>1 DEF RestartRequested, Current, Closed
<1>2. CASE ~Closed /\ restart = "none"
  BY <1>2 DEF RestartRequested, Current
<1>3. CASE ~Closed /\ restart = "queued"
  BY <1>3 DEF RestartRequested, Current
<1>4. CASE ~Closed /\ restart = "running"
  <2>1. restart' = restart /\ (job = "connecting" => folded')
    BY <1>4 DEF RestartRequested
  <2>2. job # "connecting" => \A c \in Clients : status[c] \notin {"connecting", "running"}
    BY <1>4 DEF Current, IInv, StageOfClient, TypeOK
  <2> QED
    BY <1>4, <2>1, <2>2 DEF Current
<1> QED
  BY <1>1, <1>2, <1>3, <1>4 DEF IInv, TypeOK

(* Every connect reads the session in the store, and whoever changes that   *)
(* session asks for a restart.                                              *)
LEMMA CurrentStep ==
  ASSUME IInv, Current, [Next]_vars
  PROVE  Current'
<1>1. ControlTypes /\ StorageTypes /\ StageOfClient /\ folded \in BOOLEAN
  BY TypeParts DEF IInv, FlagTypes
<1>2. CASE \/ RequestRestart \/ Respawn \/ LogoutRestarts
           \/ \E c \in Clients : LoginSucceeds(c)
  <2>1. RestartRequested /\ UNCHANGED <<job, closing>>
    BY <1>2 DEF RequestRestart, Respawn, LogoutRestarts, LoginSucceeds
  <2>2. \A c \in Clients : status'[c] \in {"connecting", "running"} =>
                             status[c] \in {"connecting", "running"}
    BY <1>1, <1>2 DEF RequestRestart, Respawn, LogoutRestarts, LoginSucceeds, clientVars,
       Dropped, ControlTypes
  <2> QED
    BY <2>1, <2>2, RequestedCurrent
<1>3. CASE Start \/ DiscardStorage \/ Configure
  BY <1>3 DEF Start, DiscardStorage, Configure, clientVars, loginVars, diskVars, history,
     Current, Closed
<1>4. CASE WorkerDies
  BY <1>4 DEF WorkerDies, clientVars, loginVars, diskVars, history, Current, Closed
<1>5. CASE Close \/ CloseProceeds
  <2>1. Closed'
    BY <1>5 DEF Close, CloseProceeds, Closed
  <2>2. restart' = "running" => job' \notin {"fresh", "settled"}
    BY <1>5 DEF Close, CloseProceeds, Current
  <2> QED
    BY <2>1, <2>2 DEF Current
<1>6. CASE RestartSettles
  <2>1. job' \notin {"fresh", "settled"}
    BY <1>6 DEF RestartSettles, BeginTeardown
  <2>2. \A c \in Clients : status'[c] \notin {"connecting", "running"}
    BY <1>1, <1>6 DEF RestartSettles, BeginTeardown, Running, ControlTypes
  <2> QED
    BY <2>1, <2>2 DEF Current
<1>7. CASE TornDown
  <2>1. restart' = "running" => job' \notin {"fresh", "settled"}
    BY <1>7 DEF TornDown
  <2>2. ~Closed' => ~Closed /\ restart' = restart
    BY <1>7 DEF TornDown, Closed
  <2> QED
    BY <1>7, <2>1, <2>2 DEF TornDown, clientVars, loginVars, diskVars, history, Current
<1>8. CASE NoSession
  <2>1. \A c \in Clients : status'[c] \notin {"connecting", "running"}
    BY <1>1, <1>8 DEF NoSession, clientVars, ControlTypes, StageOfClient
  <2>2. restart' # "running"
    BY <1>8 DEF NoSession, ConnectEnds
  <2> QED
    BY <2>1, <2>2 DEF Current
<1>9. CASE Resume
  <2>1. PICK c \in Clients : /\ status' = [status EXCEPT ![c] = "connecting"]
                             /\ token' = [token EXCEPT ![c] = session]
    BY <1>9 DEF Resume, Fresh
  <2>2. UNCHANGED <<restart, closing, logout, session, folded>> /\ job' = "connecting"
    BY <1>9 DEF Resume, loginVars, diskVars
  <2> QED
    BY <1>1, <2>1, <2>2 DEF Current, Closed, ControlTypes, StorageTypes
<1>10. CASE LoginStarts
  <2>1. PICK c \in Clients : status' = [status EXCEPT ![c] = "pairing"]
    BY <1>10 DEF LoginStarts, Fresh
  <2> QED
    BY <1>1, <1>10, <2>1 DEF LoginStarts, hostVars, diskVars, Current, Closed, ControlTypes
<1>11. CASE Logout
  BY <1>11 DEF Logout, hostVars, Current
<1>12. ASSUME NEW c \in Clients,
              TimerFires(c) \/ WriteDone(c) \/ Flush(c) \/ Send(c)
       PROVE  Current'
  BY <1>12 DEF TimerFires, WriteDone, Flush, Send, hostVars, clientVars, loginVars,
     diskVars, history, Current, Closed
<1>13. ASSUME NEW c \in Clients, Flushed(c)
       PROVE  Current'
  BY <1>1, <1>13 DEF Flushed, Dropped, loginVars, diskVars, history, Current, Closed,
     ControlTypes, StorageTypes
<1>14. ASSUME NEW c \in Clients, ConnectFails(c) \/ Connected(c)
       PROVE  Current'
  <2>1. restart' # "running" /\ (restart = "queued" => restart' = "queued")
        /\ UNCHANGED <<closing, logout, session, folded>>
    BY <1>14 DEF ConnectFails, Connected, ConnectEnds, diskVars, history
  <2>2. \A d \in Clients : status'[d] \in {"connecting", "running"} =>
          token'[d] = token[d] /\ status[d] \in {"connecting", "running"}
    BY <1>1, <1>14 DEF ConnectFails, Connected, Dropped, ControlTypes, StorageTypes
  <2> QED
    BY <2>1, <2>2 DEF Current, Closed
<1>15. ASSUME NEW c \in Clients, LoginPairs(c) \/ LoginFails(c)
       PROVE  Current'
  <2>1. UNCHANGED <<job, restart, closing, logout, session, folded>>
    BY <1>15 DEF LoginPairs, LoginFails, hostVars, diskVars, history
  <2>2. \A d \in Clients : status'[d] \in {"connecting", "running"} =>
          token'[d] = token[d] /\ status[d] \in {"connecting", "running"}
    BY <1>1, <1>15 DEF LoginPairs, LoginFails, Dropped, ControlTypes, StorageTypes
  <2> QED
    BY <2>1, <2>2 DEF Current, Closed
<1>16. CASE UNCHANGED vars
  BY <1>16 DEF vars, hostVars, clientVars, loginVars, diskVars, history, Current, Closed
<1> QED
  BY <1>2, <1>3, <1>4, <1>5, <1>6, <1>7, <1>8, <1>9, <1>10, <1>11, <1>12, <1>13, <1>14,
     <1>15, <1>16 DEF Next, Teardown, Connect

(* A token comes from the last login, or from none.                         *)
LEMMA NumberedStep ==
  ASSUME HostAssumption, IInv, Numbered, [Next]_vars
  PROVE  Numbered'
<1>1. ControlTypes /\ StorageTypes
  BY TypeParts DEF IInv
<1>2. /\ session \in Nat /\ issued \in Nat
      /\ \A c \in Clients : token[c] \in Nat
  BY <1>1, Numbers
<1>3. ASSUME UNCHANGED <<session, issued, removed, token, status>>
      PROVE  Numbered'
  BY <1>3 DEF Numbered
<1>4. CASE \/ Start \/ RequestRestart \/ WorkerDies \/ Respawn \/ Close \/ DiscardStorage
           \/ TornDown \/ Configure \/ NoSession \/ LogoutRestarts \/ UNCHANGED vars
  BY <1>3, <1>4 DEF Start, RequestRestart, WorkerDies, Respawn, Close, DiscardStorage,
     TornDown, Configure, NoSession, LogoutRestarts, vars, loginVars, clientVars, diskVars,
     history
<1>5. CASE RestartSettles \/ CloseProceeds
  <2>1. UNCHANGED <<session, issued, removed, token>>
    BY <1>5 DEF RestartSettles, CloseProceeds, loginVars, diskVars, history
  <2>2. \A c \in Clients : status'[c] \in {"free", "pairing"} => status[c] \in {"free", "pairing"}
    BY <1>1, <1>5 DEF RestartSettles, CloseProceeds, BeginTeardown, ControlTypes
  <2> QED
    BY <2>1, <2>2 DEF Numbered
<1>6. CASE Resume
  <2>1. PICK c \in Clients : /\ status' = [status EXCEPT ![c] = "connecting"]
                             /\ token' = [token EXCEPT ![c] = session]
    BY <1>6 DEF Resume, Fresh
  <2>2. UNCHANGED <<session, issued, removed>>
    BY <1>6 DEF Resume, loginVars, diskVars
  <2> QED
    BY <1>1, <2>1, <2>2 DEF Numbered, ControlTypes, StorageTypes
<1>7. CASE LoginStarts
  <2>1. PICK c \in Clients : status[c] = "free" /\ status' = [status EXCEPT ![c] = "pairing"]
    BY <1>7 DEF LoginStarts, Fresh, Alive
  <2>2. UNCHANGED <<session, issued, removed, token>>
    BY <1>7 DEF LoginStarts, diskVars
  <2> QED
    BY <1>1, <2>1, <2>2 DEF Numbered, ControlTypes
<1>8. CASE Logout
  <2>1. UNCHANGED <<issued, token, status>> /\ session' = 0
        /\ removed' = removed \union ({session} \ {0})
    BY <1>8 DEF Logout, clientVars
  <2> QED
    BY <1>2, <2>1 DEF Numbered
<1>9. ASSUME NEW c \in Clients, TimerFires(c) \/ WriteDone(c) \/ Flush(c) \/ Send(c)
      PROVE  Numbered'
  BY <1>3, <1>9 DEF TimerFires, WriteDone, Flush, Send, loginVars, clientVars, diskVars,
     history
<1>10. ASSUME NEW c \in Clients,
              Flushed(c) \/ ConnectFails(c) \/ LoginFails(c) \/ LoginSucceeds(c)
       PROVE  Numbered'
  <2>1. Dropped(c) /\ UNCHANGED <<issued, removed>> /\ session' \in {session, token[c]}
    BY <1>10 DEF Flushed, ConnectFails, LoginFails, LoginSucceeds, loginVars, diskVars, history
  <2>2. \A d \in Clients : IF d = c THEN status'[d] = "free" /\ token'[d] = 0
                                    ELSE status'[d] = status[d] /\ token'[d] = token[d]
    BY <1>1, <2>1 DEF Dropped, ControlTypes, StorageTypes
  <2>3. session' <= issued' /\ removed' \subseteq 1..issued'
    BY <1>2, <2>1 DEF Numbered
  <2>4. ASSUME NEW d \in Clients
        PROVE  token'[d] <= issued' /\ (status'[d] \in {"free", "pairing"} => token'[d] = 0)
    <3>1. CASE d = c
      BY <1>2, <2>1, <2>2, <3>1
    <3>2. CASE d # c
      BY <2>1, <2>2, <3>2 DEF Numbered
    <3> QED
      BY <3>1, <3>2
  <2> QED
    BY <2>3, <2>4 DEF Numbered
<1>11. ASSUME NEW c \in Clients, Connected(c)
       PROVE  Numbered'
  <2>1. UNCHANGED <<session, issued, removed, token>>
        /\ status' = [status EXCEPT ![c] = "running"]
    BY <1>11 DEF Connected, diskVars, history
  <2> QED
    BY <1>1, <2>1 DEF Numbered, ControlTypes
<1>12. ASSUME NEW c \in Clients, LoginPairs(c)
       PROVE  Numbered'
  <2>1. /\ issued' = issued + 1 /\ UNCHANGED <<session, removed>>
        /\ status' = [status EXCEPT ![c] = "paired"]
        /\ token' = [token EXCEPT ![c] = issued + 1]
    BY <1>12 DEF LoginPairs, diskVars, history
  <2>2. \A d \in Clients : IF d = c THEN status'[d] = "paired" /\ token'[d] = issued + 1
                                    ELSE status'[d] = status[d] /\ token'[d] = token[d]
    BY <1>1, <2>1 DEF ControlTypes, StorageTypes
  <2>3. session' <= issued' /\ removed' \subseteq 1..issued'
    BY <1>2, <2>1 DEF Numbered
  <2>4. ASSUME NEW d \in Clients
        PROVE  token'[d] <= issued' /\ (status'[d] \in {"free", "pairing"} => token'[d] = 0)
    <3>1. CASE d = c
      BY <1>2, <2>1, <2>2, <3>1
    <3>2. CASE d # c
      <4>1. /\ token[d] \in Nat /\ token[d] <= issued
            /\ status[d] \in {"free", "pairing"} => token[d] = 0
        BY <1>2 DEF Numbered
      <4> QED
        BY <1>2, <2>1, <2>2, <3>2, <4>1
    <3> QED
      BY <3>1, <3>2
  <2> QED
    BY <2>3, <2>4 DEF Numbered
<1> QED
  BY <1>4, <1>5, <1>6, <1>7, <1>8, <1>9, <1>10, <1>11, <1>12 DEF Next, Teardown, Connect

(* Once two clients have had the file at once, that stays on record.        *)
LEMMA DoubledStays ==
  ASSUME IInv, [Next]_vars, doubled
  PROVE  doubled'
<1> USE DEF history
<1>1. CASE \/ Start \/ RequestRestart \/ WorkerDies \/ Respawn \/ Close \/ TornDown
           \/ Configure \/ NoSession \/ LogoutRestarts \/ UNCHANGED vars
           \/ RestartSettles \/ CloseProceeds
  BY <1>1 DEF Start, RequestRestart, WorkerDies, Respawn, Close, TornDown, Configure,
     NoSession, LogoutRestarts, vars, RestartSettles, CloseProceeds
<1>2. CASE DiscardStorage \/ Resume \/ LoginStarts \/ Logout
  BY <1>2 DEF DiscardStorage, Resume, LoginStarts, Logout
<1>3. ASSUME NEW c \in Clients,
             \/ TimerFires(c) \/ WriteDone(c) \/ Flush(c) \/ Flushed(c) \/ ConnectFails(c)
             \/ Connected(c) \/ Send(c) \/ LoginPairs(c) \/ LoginSucceeds(c) \/ LoginFails(c)
      PROVE  doubled'
  BY <1>3 DEF TimerFires, WriteDone, Flush, Flushed, ConnectFails, Connected, Send,
     LoginPairs, LoginSucceeds, LoginFails
<1> QED
  BY <1>1, <1>2, <1>3 DEF Next, Teardown, Connect

(* A connection that is given up leaves behind what it had.                 *)
LEMMA SingleGivenUp ==
  ASSUME IInv, Single, BeginTeardown, job \notin {"removing", "flushing"},
         UNCHANGED <<token, cache, timer, writes, session, file, logout, high, removed>>
  PROVE  Single'
<1>1. \A c \in Clients : \/ status'[c] = status[c]
                         \/ status[c] = "running" /\ status'[c] = "leaving"
  BY TypeParts DEF IInv, BeginTeardown, Running, ControlTypes
<1>2. job' \notin {"removing", "flushing"}
  BY DEF BeginTeardown
<1>3. Alive' = Alive /\ Open' = Open
  BY <1>1 DEF Alive, Open, Pending
<1>4. \A c \in Clients : Latest(c)' = Latest(c)
  BY DEF Latest
<1>5. \A c \in Clients : Holds(c) => Holds(c)'
  BY <1>1, <1>2, <1>3, <1>4 DEF Holds, Newer, Pending
<1>6. \A c \in Clients : Clean(c) => Clean(c)'
  BY <1>1, <1>3, <1>4 DEF Clean, Gone
<1> QED
  BY <1>2, <1>3, <1>5, <1>6 DEF Single, Newer, Gone, Alive

(* A client that nobody is beside reads what the last one left.             *)
LEMMA SingleResumes ==
  ASSUME HostAssumption, IInv, Single, Resume, ~doubled'
  PROVE  Single'
<1>1. ControlTypes /\ StorageTypes
  BY TypeParts DEF IInv
<1>2. PICK c \in Fresh : /\ status' = [status EXCEPT ![c] = "connecting"]
                         /\ token' = [token EXCEPT ![c] = session]
                         /\ cache' = [cache EXCEPT ![c] = file]
  BY DEF Resume
<1>3. /\ Alive = {} /\ session # 0 /\ job' = "connecting" /\ c \in Clients
      /\ UNCHANGED <<timer, writes, session, file, logout, high, removed>>
  BY DEF Resume, loginVars, diskVars, Fresh
<1>4. ~logout /\ Newer(file) /\ ~Gone(file)
  BY <1>3 DEF Single, Resume
<1>5. status'[c] = "connecting" /\ token'[c] = session /\ cache'[c] = file
      /\ ~Pending(c)' /\ Latest(c)' = file
  BY <1>1, <1>2, <1>3 DEF ControlTypes, StorageTypes, Alive, Pending, Latest
<1>6. Alive' \subseteq {c} /\ c \in Open'
  BY <1>1, <1>2, <1>3, <1>5 DEF Alive, Pending, ControlTypes, Open
<1>7. session \in Nat /\ file.seq \in Nat /\ file.refresh \in Nat
  BY <1>1, Numbers
<1>8. Holds(c)' /\ Clean(c)'
  BY <1>3, <1>4, <1>5, <1>7 DEF Holds, Clean, Newer, Gone
<1>9. c \in Alive'
  BY <1>3, <1>5 DEF Alive
<1> QED
  BY <1>3, <1>4, <1>6, <1>8, <1>9, SingleOf

LEMMA SinglePairs ==
  ASSUME HostAssumption, IInv, Numbered, Single, LoginStarts, ~doubled'
  PROVE  Single'
<1>1. ControlTypes /\ StorageTypes
  BY TypeParts DEF IInv
<1>2. PICK c \in Fresh : /\ status' = [status EXCEPT ![c] = "pairing"]
                         /\ cache' = [cache EXCEPT ![c] = file]
  BY DEF LoginStarts
<1>3. /\ Alive = {} /\ ~logout /\ job # "removing" /\ c \in Clients
      /\ UNCHANGED <<job, token, timer, writes, session, file, logout, high, removed>>
  BY DEF LoginStarts, hostVars, diskVars, Fresh
<1>4. Newer(file) /\ ~Gone(file)
  BY <1>3 DEF Single
<1>5. status'[c] = "pairing" /\ token'[c] = 0 /\ cache'[c] = file
      /\ ~Pending(c)' /\ Latest(c)' = file
  <2>1. status[c] = "free" /\ ~Pending(c)
    BY <1>3 DEF Alive
  <2>2. token[c] = 0
    BY <1>3, <2>1 DEF Numbered
  <2> QED
    BY <1>1, <1>2, <1>3, <2>1, <2>2 DEF ControlTypes, StorageTypes, Pending, Latest
<1>6. Alive' \subseteq {c} /\ c \notin Open'
  BY <1>1, <1>2, <1>3, <1>5 DEF Alive, Pending, ControlTypes, Open
<1>7. session \in Nat /\ file.seq \in Nat /\ file.refresh \in Nat
  BY <1>1, Numbers
<1>8. Holds(c)' /\ Clean(c)'
  BY <1>3, <1>4, <1>5, <1>6, <1>7 DEF Holds, Clean, Newer, Gone
<1>9. c \in Alive'
  BY <1>3, <1>5 DEF Alive
<1> QED
  BY <1>3, <1>4, <1>6, <1>8, <1>9, SingleOf

(* The two halves of a logout, and the removal of what a teardown flushed.  *)
LEMMA SingleLoggedOut ==
  ASSUME HostAssumption, IInv, Numbered, Single, ~doubled',
         Logout \/ LogoutRestarts \/ DiscardStorage
  PROVE  Single'
<1>1. ControlTypes /\ StorageTypes
  BY TypeParts DEF IInv
<1>2. /\ \A c \in Clients : Latest(c).seq \in Nat /\ Latest(c).refresh \in Nat
                            /\ token[c] \in Nat /\ cache[c].seq \in Nat
      /\ file.seq \in Nat /\ file.refresh \in Nat /\ session \in Nat
  BY <1>1, Numbers
<1>3. UNCHANGED <<status, token, cache, timer, writes>>
  BY DEF Logout, LogoutRestarts, DiscardStorage, clientVars, storageVars
<1>4. Alive' = Alive /\ Open' = Open /\ \A c \in Clients : Pending(c)' = Pending(c)
  BY <1>3 DEF Alive, Open, Pending
<1>5. Alive \subseteq Clients
  BY DEF Alive
<1>6. CASE Logout
  <2>1. /\ Alive = Open /\ logout' /\ session' = 0 /\ UNCHANGED <<job, file, high>>
    BY <1>6 DEF Logout, hostVars
  <2>2. \A c \in Clients : Latest(c)' = Latest(c)
    BY <1>3, <2>1 DEF Latest
  <2>3. \A c \in Alive : Holds(c)' /\ Clean(c)'
    BY <1>2, <1>3, <1>4, <1>5, <2>1, <2>2 DEF Single, Holds, Clean, Newer
  <2> QED
    BY <1>2, <1>4, <2>1, <2>3 DEF Single, Newer
<1>7. CASE LogoutRestarts
  <2>1. /\ session = 0 /\ Alive \subseteq Open /\ ~logout'
        /\ file' = Blank /\ high' = 0 /\ UNCHANGED <<job, session, removed>>
    BY <1>7 DEF LogoutRestarts, FileRemoved, Single
  <2>2. \A c \in Alive : Latest(c)' \in Store
    <3>1. Blank \in Store
      BY <1>1, Numbers
    <3>2. ASSUME NEW c \in Alive
          PROVE  Latest(c)' = Latest(c) \/ Latest(c)' = Blank
      BY <1>3, <2>1 DEF Latest
    <3> QED
      BY <1>1, <1>5, <3>1, <3>2, Numbers
  <2>3. \A c \in Alive : Latest(c)'.seq \in Nat /\ Latest(c)'.refresh \in Nat
    BY <1>1, <2>2, Numbers
  <2>4. Newer(file)' /\ ~Gone(file)'
    BY <2>1 DEF Newer, Gone, Blank, Numbered
  <2>5. \A c \in Alive : Holds(c)' /\ Clean(c)'
    <3> SUFFICES ASSUME NEW c \in Alive
                 PROVE  Holds(c)' /\ Clean(c)'
      OBVIOUS
    <3>1. c \in Clients /\ Holds(c) /\ c \in Open /\ status[c] # "paired"
      BY <1>5, <2>1 DEF Single, Open
    <3>2. Holds(c)'
      BY <1>2, <1>3, <1>4, <2>1, <2>3, <3>1 DEF Holds, Newer
    <3>3. Clean(c)'
      BY <1>4, <2>1, <2>4, <3>1 DEF Clean
    <3> QED
      BY <3>2, <3>3
  <2> QED
    BY <1>4, <2>1, <2>4, <2>5 DEF Single
<1>8. CASE DiscardStorage
  <2>1. /\ session = 0 /\ Alive = {} /\ job' = "torn"
        /\ file' = Blank /\ high' = 0 /\ UNCHANGED <<logout, session, removed>>
    BY <1>8 DEF DiscardStorage, FileRemoved, Single, loginVars
  <2>2. Newer(file)' /\ ~Gone(file)'
    BY <2>1 DEF Newer, Gone, Blank, Numbered
  <2> QED
    BY <1>4, <2>1, <2>2 DEF Single
<1> QED
  BY <1>6, <1>7, <1>8

LEMMA SingleStep ==
  ASSUME HostAssumption, IInv, Numbered, Single, [Next]_vars, ~doubled'
  PROVE  Single'
<1>1. CASE \/ Start \/ RequestRestart \/ WorkerDies \/ Respawn \/ Close \/ TornDown
           \/ Configure \/ NoSession \/ UNCHANGED vars
  <2>1. UNCHANGED <<status, token, cache, timer, writes, session, file, logout, high, removed>>
    BY <1>1 DEF Start, RequestRestart, WorkerDies, Respawn, Close, TornDown, Configure,
       NoSession, vars, loginVars, clientVars, storageVars, diskVars, history
  <2>2. job' = job \/ {job, job'} \intersect {"removing", "flushing"} = {}
    BY <1>1 DEF Start, RequestRestart, WorkerDies, Respawn, Close, TornDown, Configure,
       NoSession, ConnectEnds, vars, hostVars
  <2> QED
    BY <2>1, <2>2, SingleAside
<1>2. CASE RestartSettles \/ CloseProceeds
  BY <1>2, SingleGivenUp DEF RestartSettles, CloseProceeds, loginVars, storageVars, diskVars,
     history
<1>3. CASE Resume \/ LoginStarts \/ Logout \/ LogoutRestarts \/ DiscardStorage
  BY <1>3, SingleResumes, SinglePairs, SingleLoggedOut
<1>4. ASSUME NEW c \in Clients,
             \/ TimerFires(c) \/ WriteDone(c) \/ Flush(c) \/ Flushed(c) \/ ConnectFails(c)
             \/ Connected(c) \/ Send(c) \/ LoginPairs(c) \/ LoginSucceeds(c) \/ LoginFails(c)
      PROVE  Single'
  <2>1. c \in Alive
    BY <1>4 DEF TimerFires, WriteDone, Flush, Flushed, Leaving, ConnectFails, Connected, Send,
       LoginPairs, LoginSucceeds, LoginFails, Alive, Pending
  <2> QED
    BY <1>4, <2>1, SingleClient
<1> QED
  BY <1>1, <1>2, <1>3, <1>4 DEF Next, Teardown, Connect

LEMMA InitSound == Init => Sound
<1> SUFFICES ASSUME Init
             PROVE  Sound
  OBVIOUS
<1>1. Alive = {} /\ \A c \in Clients : token[c] = 0
  BY DEF Init, Alive, Pending
<1>2. session \in 0..1 /\ issued = session /\ removed = {} /\ high = 0 /\ ~logout
      /\ job = "fresh" /\ restart = "none" /\ file.seq = 0 /\ file.refresh = session
      /\ \A c \in Clients : status[c] = "free"
  BY DEF Init
<1>3. Current /\ Numbered
  BY <1>1, <1>2 DEF Current, Numbered
<1>4. Single
  BY <1>1, <1>2 DEF Single, Newer, Gone
<1> QED
  BY <1>3, <1>4 DEF Sound

LEMMA SoundStep ==
  ASSUME HostAssumption, IInv, Sound, [Next]_vars
  PROVE  Sound'
<1>1. Current' /\ Numbered'
  BY CurrentStep, NumberedStep DEF Sound
<1>2. ~doubled' => Single'
  BY DoubledStays, SingleStep DEF Sound
<1> QED
  BY <1>1, <1>2 DEF Sound

THEOREM SoundHolds == Spec => []Sound
  BY InductiveInvariant, InitSound, SoundStep, HostAssumption, PTL DEF Spec

(* "Tears the connection down and reconnects with whatever session is now   *)
(* stored" (restart, bots/bot-host.ts): whatever restarts, logins, logouts  *)
(* and closes coincide, a bot that is settled runs on the stored session,   *)
(* unless a restart was folded into a connect that had read the one before. *)
THEOREM RunsOnStored == Spec => []RunsOnStoredUnlessFolded
<1>1. ASSUME IInv, Sound
      PROVE  RunsOnStoredUnlessFolded
  <2> SUFFICES ASSUME ~folded, Settled, ~logout, NEW c \in Running
               PROVE  token[c] = session
    BY DEF RunsOnStoredUnlessFolded, RunsOnStoredSession
  <2> QED
    BY <1>1 DEF Sound, Current, Settled, Running
<1> QED
  BY <1>1, InductiveInvariant, SoundHolds, PTL

(* Unless two clients had the key/value file open at once, every connection *)
(* continues the request sequence numbers where the last one stopped, and   *)
(* its refresh token is at least as new as its session: what a teardown     *)
(* flushes, the next connect reads.                                         *)
THEOREM SoleContinues == Spec => []SoleClientContinues
<1>1. ASSUME Sound
      PROVE  SoleClientContinues
  <2> SUFFICES ASSUME ~doubled, NEW c \in Running
               PROVE  cache[c].seq >= high /\ cache[c].refresh >= token[c]
    BY DEF SoleClientContinues, SequenceNeverReused
  <2>1. c \in Alive /\ status[c] # "free"
    BY DEF Alive, Running
  <2> QED
    BY <1>1, <2>1 DEF Sound, Single, Holds
<1> QED
  BY <1>1, SoundHolds, PTL

(* "that write would resurrect the very token it just removed"              *)
(* (#discardStorageIfLoggedOut): once a logout has run its course, nothing  *)
(* that was still on its way to the key/value file has brought its token    *)
(* back, unless a login was under way beside it.                            *)
THEOREM LogoutHolds == Spec => []LogoutSticks
<1>1. Sound => LogoutSticks
  BY DEF Sound, Single, Settled, Gone, LogoutSticks
<1> QED
  BY <1>1, SoundHolds, PTL
------------------------------------------------------------------------------
(* The host as its users see it.                                            *)

Teardowns == {"stopping", "flushing", "removing", "torn"}

(* Before the start nothing has happened, a teardown is a restart's or the  *)
(* close's, and nobody has a session that is none.                          *)
Used ==
  /\ job = "fresh" => /\ restart = "none" /\ flow = NoFlow /\ ~logout
                      /\ \A c \in Clients : status[c] = "free"
  /\ job \in Teardowns => restart = "running" \/ closing = "running"
  /\ \A c \in Clients : status[c] \in {"connecting", "running", "paired"} => token[c] # 0

LEMMA RestartFacts ==
  ASSUME RestartRequested
  PROVE  /\ Closed => restart' = restart
         /\ ~Closed => restart' = IF restart = "none" THEN "queued" ELSE restart
BY DEF RestartRequested

LEMMA DroppedFacts ==
  ASSUME ControlTypes, StorageTypes, NEW c \in Clients, Dropped(c)
  PROVE  /\ status'[c] = "free"
         /\ \A d \in Clients \ {c} : status'[d] = status[d] /\ token'[d] = token[d]
BY DEF Dropped, ControlTypes, StorageTypes

LEMMA InitUsed == Init => Used
<1> SUFFICES ASSUME Init
             PROVE  Used
  OBVIOUS
<1> QED
  BY DEF Init, Used, Teardowns

LEMMA UsedStep ==
  ASSUME HostAssumption, IInv, Used, [Next]_vars
  PROVE  Used'
<1> USE DEF Used, Teardowns
<1>0. ControlTypes /\ FlagTypes /\ StorageTypes
  BY TypeParts DEF IInv
<1>1. CASE Start \/ CloseProceeds \/ RestartSettles
  BY <1>0, <1>1 DEF Start, CloseProceeds, RestartSettles, BeginTeardown, Running, clientVars,
                    ControlTypes
<1>2. CASE RequestRestart \/ Respawn
  <2>1. job # "fresh"
    BY <1>2, <1>0 DEF RequestRestart, Respawn, IInv, StageOfClient, Running
  <2> QED
    BY <1>2, <2>1 DEF RequestRestart, Respawn, RestartRequested, clientVars
<1>3. CASE WorkerDies \/ Close \/ DiscardStorage \/ TornDown \/ Configure
  BY <1>0, <1>3 DEF WorkerDies, Close, DiscardStorage, TornDown, IInv, StageOfClose, Configure, clientVars, loginVars
<1>4. CASE NoSession
  BY <1>4 DEF NoSession, ConnectEnds, clientVars
<1>5. CASE Resume
  <2>1. PICK c \in Clients :
          /\ status' = [status EXCEPT ![c] = "connecting"]
          /\ token' = [token EXCEPT ![c] = session]
    BY <1>5 DEF Resume, Fresh
  <2> QED
    BY <1>0, <1>5, <2>1 DEF Resume, ControlTypes, StorageTypes
<1>6. CASE LoginStarts
  <2>1. job # "fresh" /\ UNCHANGED <<job, restart, closing>>
    BY <1>6, HostAssumption DEF LoginStarts, hostVars, HostAssumption
  <2>2. PICK c \in Clients : status' = [status EXCEPT ![c] = "pairing"] /\ token' = token
    BY <1>6 DEF LoginStarts, Fresh
  <2> QED
    BY <1>0, <2>1, <2>2 DEF ControlTypes
<1>7. CASE Logout \/ LogoutRestarts
  BY <1>7 DEF Logout, LogoutRestarts, RestartRequested, clientVars, hostVars
<1>8. ASSUME NEW c \in Clients, TimerFires(c) \/ WriteDone(c) \/ Send(c)
      PROVE  Used'
  BY <1>8 DEF TimerFires, WriteDone, Send, hostVars, loginVars, clientVars
<1>9. ASSUME NEW c \in Clients, Flush(c)
      PROVE  Used'
  BY <1>9 DEF Flush, clientVars
<1>10. ASSUME NEW c \in Clients, Flushed(c) \/ ConnectFails(c) \/ LoginSucceeds(c) \/ LoginFails(c)
       PROVE  Used'
  <2>1. Dropped(c) /\ job' # "fresh"
    BY <1>10 DEF Flushed, ConnectFails, ConnectEnds, LoginSucceeds, LoginFails, hostVars
  <2>2. job' \in Teardowns => restart' = "running" \/ closing' = "running"
    BY <1>10 DEF Flushed, ConnectFails, ConnectEnds, LoginSucceeds, RestartRequested, LoginFails, hostVars
  <2> QED
    BY <1>0, <2>1, <2>2, DroppedFacts
<1>11. ASSUME NEW c \in Clients, Connected(c)
       PROVE  Used'
  BY <1>0, <1>11 DEF Connected, ConnectEnds, ControlTypes
<1>12. ASSUME NEW c \in Clients, LoginPairs(c)
       PROVE  Used'
  <2>1. issued + 1 # 0
    BY <1>0, HostAssumption DEF StorageTypes, Token, HostAssumption
  <2> QED
    BY <1>0, <1>12, <2>1 DEF LoginPairs, hostVars, ControlTypes, StorageTypes
<1>13. CASE UNCHANGED vars
  BY <1>13 DEF vars, hostVars, loginVars, clientVars
<1> QED
  BY <1>1, <1>2, <1>3, <1>4, <1>5, <1>6, <1>7, <1>8, <1>9, <1>10, <1>11, <1>12, <1>13
  DEF Next, Teardown, Connect

(* The session of the host is that of the one client which connects or runs. *)
LEMMA UsingIs == OneOpen => /\ Holding = {} => Using = 0
                            /\ \A c \in Holding : Using = token[c]
<1> SUFFICES ASSUME OneOpen
             PROVE  /\ Holding = {} => Using = 0
                    /\ \A c \in Holding : Using = token[c]
  OBVIOUS
<1>1. ASSUME NEW c \in Holding
      PROVE  Using = token[c]
  <2>1. PICK d \in Holding : d = (CHOOSE e \in Holding : TRUE)
    BY <1>1
  <2>2. c = d
    BY <1>1, <2>1 DEF OneOpen, Holding
  <2> QED
    BY <1>1, <2>1, <2>2 DEF Using
<1> QED
  BY <1>1 DEF Using

LEMMA UsingSame ==
  ASSUME IInv, IInv',
         \A c \in Clients : \/ status'[c] = status[c] /\ token'[c] = token[c]
                            \/ c \notin Holding /\ c \notin Holding'
                            \/ c \in Holding /\ c \in Holding' /\ token'[c] = token[c]
  PROVE  Using' = Using
<1>0. OneOpen'
  BY DEF IInv
<1>1. (/\ Holding = {} => Using = 0
       /\ \A c \in Holding : Using = token[c])'
  BY <1>0, UsingIs, PTL
<1>2. /\ Holding = {} => Using = 0
      /\ \A c \in Holding : Using = token[c]
  BY UsingIs DEF IInv
<1>3. \A c \in Clients : (c \in Holding <=> c \in Holding') /\ (c \in Holding => token'[c] = token[c])
  BY DEF Holding
<1>4. Holding \subseteq Clients /\ Holding' \subseteq Clients
  BY DEF Holding
<1> QED
  BY <1>1, <1>2, <1>3, <1>4

LEMMA LinkSame ==
  ASSUME job' = job, closing' = closing, Running' = Running
  PROVE  Link' = Link
BY DEF Link

(* What a request for a restart does to those who wait for one.             *)
LEMMA RequestAsks ==
  ASSUME ControlTypes, Current, RestartRequested, job # "fresh"
  PROVE  /\ Asked' \in {Asked, "asked"}
         /\ closing # "no" => Asked' = Asked
         /\ closing = "no" => Link \in {"leaving", "connecting"} \/ Asked' = "asked"
<1>1. CASE Closed
  BY <1>1, RestartFacts DEF Closed, Asked
<1>2. CASE ~Closed /\ restart = "running"
  BY <1>2, RestartFacts DEF Closed, Asked, ControlTypes, Current, Link
<1>3. CASE ~Closed /\ restart # "running"
  BY <1>3, RestartFacts DEF Closed, Asked, ControlTypes
<1> QED
  BY <1>1, <1>2, <1>3

(* Each step of the host, its logins and its storages is one of its users'  *)
(* view, or nothing there.                                                  *)
LEMMA HostStep ==
  ASSUME HostAssumption, IInv, IInv', Current, Used, [Next]_vars
  PROVE  C!Next \/ UNCHANGED C!vars
<1>0. ControlTypes /\ FlagTypes /\ StorageTypes
  BY TypeParts DEF IInv
<1>a. Running \subseteq Clients /\ Holding \subseteq Clients /\ Running' \subseteq Clients
  BY DEF Running, Holding
<1>b. /\ Holding = {} => Using = 0
      /\ \A c \in Holding : Using = token[c]
  BY UsingIs DEF IInv
<1>c. OneOpen'
  BY DEF IInv
<1>d. (/\ Holding = {} => Using = 0
       /\ \A c \in Holding : Using = token[c])'
  BY <1>c, UsingIs, PTL
<1>e. UNCHANGED <<status, token>> => UNCHANGED <<Running, Using>>
  BY UsingSame DEF Running
<1>1. CASE Start
  <2>1. Link = "fresh" /\ Link' = "connecting" /\ UNCHANGED <<Asked, closing, session, Using>>
    BY <1>1, <1>e DEF Start, Closed, Link, Asked, clientVars, diskVars
  <2> QED
    BY <1>1, <2>1 DEF Start, Closed, C!Next, C!Start
<1>2. CASE RequestRestart \/ Respawn
  <2>1. job # "fresh" /\ RestartRequested /\ UNCHANGED <<job, closing, session, Running, Using>>
    BY <1>2, <1>e, <1>a DEF RequestRestart, Respawn, clientVars, diskVars, IInv, StageOfClient, Running
  <2>2. Link' = Link /\ Link # "fresh"
    BY <2>1, LinkSame DEF Link
  <2>3. Asked' \in {Asked, "asked"} /\ (closing # "no" => Asked' = Asked)
    BY <1>0, <2>1, RequestAsks
  <2> QED
    BY <2>1, <2>2, <2>3 DEF C!Next, C!Ask, C!vars
<1>3. CASE \/ WorkerDies \/ LoginStarts
           \/ \E c \in Clients : TimerFires(c) \/ WriteDone(c) \/ Send(c) \/ LoginPairs(c) \/ LoginFails(c)
  <2>1. UNCHANGED <<job, restart, closing, session, Running, Using>>
    <3>1. CASE WorkerDies
      BY <3>1, <1>e DEF WorkerDies, clientVars, diskVars
    <3>2. CASE LoginStarts
      <4>1. PICK c \in Clients : status[c] = "free" /\ status' = [status EXCEPT ![c] = "pairing"] /\ token' = token
        BY <3>2 DEF LoginStarts, Fresh, Alive
      <4>2. Running' = Running
        BY <4>1, <1>0 DEF Running, ControlTypes
      <4>3. Using' = Using
        BY <4>1, <1>0, UsingSame DEF Holding, ControlTypes
      <4> QED
        BY <3>2, <4>2, <4>3 DEF LoginStarts, hostVars, diskVars
    <3>3. ASSUME NEW c \in Clients, TimerFires(c) \/ WriteDone(c) \/ Send(c)
          PROVE  UNCHANGED <<job, restart, closing, session, Running, Using>>
      BY <3>3, <1>e DEF TimerFires, WriteDone, Send, hostVars, clientVars, diskVars
    <3>4. ASSUME NEW c \in Clients, LoginPairs(c)
          PROVE  UNCHANGED <<job, restart, closing, session, Running, Using>>
      <4>1. /\ status[c] = "pairing" /\ status' = [status EXCEPT ![c] = "paired"]
            /\ \A d \in Clients \ {c} : token'[d] = token[d]
        BY <3>4, <1>0 DEF LoginPairs, StorageTypes
      <4>2. Running' = Running
        BY <4>1, <1>0 DEF Running, ControlTypes
      <4>3. Using' = Using
        BY <4>1, <1>0, UsingSame DEF Holding, ControlTypes
      <4> QED
        BY <3>4, <4>2, <4>3 DEF LoginPairs, hostVars, diskVars
    <3>5. ASSUME NEW c \in Clients, LoginFails(c)
          PROVE  UNCHANGED <<job, restart, closing, session, Running, Using>>
      <4>1. status[c] \in {"pairing", "paired"} /\ Dropped(c)
        BY <3>5 DEF LoginFails
      <4>2. Running' = Running
        BY <4>1, <1>0, DroppedFacts DEF Running
      <4>3. Using' = Using
        BY <4>1, <1>0, DroppedFacts, UsingSame DEF Holding
      <4> QED
        BY <3>5, <4>2, <4>3 DEF LoginFails, hostVars, diskVars
    <3> QED
      BY <1>3, <3>1, <3>2, <3>3, <3>4, <3>5
  <2> QED
    BY <2>1, LinkSame DEF C!vars, Asked
<1>4. CASE RestartSettles
  <2>1. job \notin {"fresh"} /\ job' \in Teardowns
    BY <1>4 DEF RestartSettles, BeginTeardown, Teardowns
  <2>2. Using' = 0
    BY <1>d, <2>1 DEF IInv, TypeOK, StageOfClient, Holding, Teardowns
  <2>3. Link \in {"off", "up"} /\ Link' = "leaving"
    BY <1>4, <2>1 DEF RestartSettles, Link, IInv, StageOfClose, Teardowns
  <2> QED
    BY <1>4, <2>2, <2>3 DEF RestartSettles, Asked, diskVars, C!Next, C!Restart
<1>5. CASE TornDown
  <2>1. Running = {} /\ UNCHANGED <<session, Running, Using>>
    BY <1>5, <1>e DEF TornDown, IInv, StageOfClient, Running, clientVars, diskVars
  <2>2. CASE closing = "running"
    <3>1. closing' = "done" /\ Link = "off" /\ Link' = "off" /\ Asked' = Asked
      BY <1>5, <2>2 DEF TornDown, Link, Asked, Closed, IInv, StageOfClose
    <3> QED
      BY <2>1, <2>2, <3>1 DEF C!Next, C!Closed
  <2>3. CASE closing # "running"
    <3>1. restart = "running" /\ closing \in {"no", "waiting"} /\ closing' = closing
      BY <1>0, <1>5, <2>3 DEF TornDown, Used, Teardowns, ControlTypes, IInv, StageOfClose
    <3>2. Link = "leaving" /\ Link' = (IF closing = "no" THEN "connecting" ELSE "off") /\ Asked' = Asked
      BY <1>5, <2>1, <3>1 DEF TornDown, Link, Asked, Closed
    <3> QED
      BY <2>1, <3>1, <3>2 DEF C!Next, C!Left
  <2> QED
    BY <2>2, <2>3
<1>6. CASE Configure \/ DiscardStorage \/ \E c \in Clients : Flush(c) \/ Flushed(c)
  <2>1. UNCHANGED <<Running, Using>>
    <3>1. CASE Configure \/ DiscardStorage \/ \E c \in Clients : Flush(c)
      BY <3>1, <1>e DEF Configure, DiscardStorage, Flush, clientVars
    <3>2. ASSUME NEW c \in Clients, Flushed(c)
          PROVE  UNCHANGED <<Running, Using>>
      <4>1. status[c] = "leaving" /\ Dropped(c)
        BY <3>2 DEF Flushed, Leaving
      <4>2. Running' = Running
        BY <4>1, <1>0, DroppedFacts DEF Running
      <4>3. Using' = Using
        BY <4>1, <1>0, DroppedFacts, UsingSame DEF Holding
      <4> QED
        BY <4>2, <4>3
    <3> QED
      BY <1>6, <3>1, <3>2
  <2>2. UNCHANGED <<restart, closing, session>> /\ job # "fresh" /\ job' # "fresh"
        /\ (job \in Teardowns <=> job' \in Teardowns) /\ job # "settled" /\ job' # "settled"
    BY <1>6 DEF Configure, DiscardStorage, Flush, Flushed, Teardowns, diskVars
  <2>3. Link' = Link
    BY <2>2 DEF Link, Teardowns
  <2> QED
    BY <2>1, <2>2, <2>3 DEF C!vars, Asked
<1>7. CASE NoSession
  <2>1. Holding = {} /\ Running = {} /\ UNCHANGED <<Running, Using>>
    BY <1>7, <1>e DEF NoSession, IInv, TypeOK, StageOfClient, Running, Holding, clientVars
  <2>2. Link = "connecting" /\ Link' = "off" /\ Asked' = Asked
    BY <1>7, <2>1 DEF NoSession, ConnectEnds, Link, Asked, IInv, StageOfClose
  <2> QED
    BY <1>7, <1>b, <2>1, <2>2 DEF NoSession, diskVars, C!Next, C!Fail
<1>8. CASE Resume
  <2>1. PICK c \in Clients : /\ status[c] = "free"
                            /\ status' = [status EXCEPT ![c] = "connecting"]
                            /\ token' = [token EXCEPT ![c] = session]
    BY <1>8 DEF Resume, Fresh, Alive
  <2>2. Holding = {} /\ Running = {} /\ Running' = {}
    BY <1>0, <1>8, <2>1 DEF Resume, IInv, TypeOK, StageOfClient, Running, Holding, ControlTypes
  <2>3. Using = 0 /\ Using' = session
    <3>1. c \in Holding' /\ token'[c] = session
      BY <1>0, <2>1 DEF Holding, ControlTypes, StorageTypes
    <3> QED
      BY <1>b, <1>d, <2>2, <3>1
  <2>4. Link = "connecting" /\ Link' = Link /\ Asked' = Asked
    BY <1>8 DEF Resume, Link, Asked, IInv, StageOfClose
  <2> QED
    BY <1>8, <2>3, <2>4 DEF Resume, diskVars, C!Next, C!Read
<1>9. ASSUME NEW c \in Clients, ConnectFails(c)
      PROVE  C!Next
  <2>1. status[c] = "connecting" /\ job = "connecting" /\ Dropped(c)
    BY <1>9 DEF ConnectFails
  <2>2. Holding' = {} /\ Running' = {}
    BY <1>0, <2>1, DroppedFacts DEF IInv, OneOpen, Holding, Running
  <2>3. Link = "connecting" /\ Link' = "off" /\ Asked' = Asked
    BY <1>9, <2>1, <2>2 DEF ConnectFails, ConnectEnds, Link, Asked, IInv, StageOfClose
  <2> QED
    BY <1>9, <1>d, <2>2, <2>3 DEF ConnectFails, diskVars, C!Next, C!Fail
<1>10. ASSUME NEW c \in Clients, Connected(c)
       PROVE  C!Next
  <2>1. /\ status[c] = "connecting" /\ job = "connecting"
        /\ status' = [status EXCEPT ![c] = "running"] /\ token' = token
    BY <1>10 DEF Connected
  <2>2. Using' = Using
    BY <1>0, <2>1, UsingSame DEF Holding, ControlTypes
  <2>3. Using # 0
    BY <1>b, <2>1 DEF Holding, Used
  <2>4. Running' # {}
    BY <1>0, <2>1 DEF Running, ControlTypes
  <2>5. Link = "connecting" /\ Link' = "up" /\ Asked' = Asked
    BY <1>10, <2>1, <2>4 DEF Connected, ConnectEnds, Link, Asked, IInv, StageOfClose
  <2> QED
    BY <1>10, <2>2, <2>3, <2>5 DEF Connected, diskVars, C!Next, C!Succeed
<1>11. CASE Close
  <2>1. UNCHANGED <<job, restart, session, Running, Using>> /\ closing = "no" /\ closing' = "waiting"
    BY <1>11, <1>e DEF Close, clientVars, diskVars
  <2>2. Link' = Link /\ Asked' = Asked
    BY <2>1 DEF Link, Asked
  <2> QED
    BY <2>1, <2>2 DEF C!Next, C!Close
<1>12. CASE CloseProceeds
  <2>1. job' \in Teardowns
    BY <1>12 DEF CloseProceeds, BeginTeardown, Teardowns
  <2>2. Using' = 0
    BY <1>d, <2>1 DEF IInv, TypeOK, StageOfClient, Holding, Teardowns
  <2>3. Link \in {"fresh", "off", "up"} /\ Link' = "off" /\ Asked = "no" /\ Asked' = "no"
    BY <1>12 DEF CloseProceeds, Link, Asked
  <2> QED
    BY <1>12, <2>2, <2>3 DEF CloseProceeds, diskVars, C!Next, C!Disconnect
<1>13. ASSUME NEW c \in Clients, LoginSucceeds(c)
       PROVE  C!Next
  <2>1. /\ status[c] = "paired" /\ Dropped(c) /\ RestartRequested
        /\ session' = token[c] /\ UNCHANGED <<job, closing>>
    BY <1>13 DEF LoginSucceeds
  <2>2. job # "fresh" /\ token[c] \in 1..MaxTokens
    BY <1>0, <2>1, HostAssumption DEF Used, StorageTypes, Token, HostAssumption
  <2>3. Running' = Running
    BY <2>1, <1>0, DroppedFacts DEF Running
  <2>4. Using' = Using
    BY <2>1, <1>0, DroppedFacts, UsingSame DEF Holding
  <2>5. Link' = Link /\ Link # "fresh"
    BY <2>1, <2>2, <2>3, LinkSame DEF Link
  <2>6. /\ Asked' \in {Asked, "asked"}
        /\ closing # "no" => Asked' = Asked
        /\ closing = "no" => Link \in {"leaving", "connecting"} \/ Asked' = "asked"
    BY <1>0, <2>1, <2>2, RequestAsks
  <2>7. C!Login(token[c])
    BY <2>1, <2>4, <2>5, <2>6 DEF C!Login
  <2> QED
    BY <2>2, <2>7 DEF C!Next
<1>14. CASE Logout
  <2>1. UNCHANGED <<job, restart, closing, Running, Using>> /\ session' = 0 /\ job # "fresh"
    BY <1>14, <1>e DEF Logout, hostVars, clientVars
  <2>2. Link' = Link /\ Link # "fresh" /\ Asked' = Asked
    BY <2>1, LinkSame DEF Link, Asked
  <2> QED
    BY <2>1, <2>2 DEF C!Next, C!Logout
<1>15. CASE LogoutRestarts
  <2>1. job # "fresh" /\ RestartRequested /\ UNCHANGED <<job, closing, session, Running, Using>>
    BY <1>15, <1>e DEF LogoutRestarts, Used, clientVars
  <2>2. Link' = Link /\ Link # "fresh"
    BY <2>1, LinkSame DEF Link
  <2>3. Asked' \in {Asked, "asked"} /\ (closing # "no" => Asked' = Asked)
    BY <1>0, <2>1, RequestAsks
  <2> QED
    BY <2>1, <2>2, <2>3 DEF C!Next, C!Ask, C!vars
<1>16. CASE UNCHANGED vars
  <2>1. UNCHANGED <<job, restart, closing, session, Running, Using>>
    BY <1>16, <1>e DEF vars, hostVars, clientVars, diskVars
  <2> QED
    BY <2>1, LinkSame DEF C!vars, Asked
<1> QED
  BY <1>1, <1>2, <1>3, <1>4, <1>5, <1>6, <1>7, <1>8, <1>9, <1>10, <1>11, <1>12, <1>13, <1>14,
     <1>15, <1>16 DEF Next, Teardown, Connect

(* The host implements Connection (HostIsConnection): whatever starts,      *)
(* restarts, respawns, logins, logouts and closes coincide, a restart that  *)
(* was asked for begins when what is under way has ended and is never       *)
(* dropped, a connect runs on the session it found stored, a new session    *)
(* asks for a restart, and no connect begins once close has been called.    *)
THEOREM HostImplements == Spec => HostIsConnection
<1>1. Init => C!Init
  <2> SUFFICES ASSUME Init
               PROVE  C!Init
    OBVIOUS
  <2>1. Link = "fresh" /\ Asked = "no"
    BY DEF Init, Link, Asked
  <2>2. Using = 0
    BY DEF Init, Using, Holding
  <2>3. session \in (1..MaxTokens) \union {0}
    BY HostAssumption DEF Init, HostAssumption
  <2> QED
    BY <2>1, <2>2, <2>3 DEF Init, C!Init
<1>2. IInv /\ IInv' /\ Sound /\ Used /\ [Next]_vars => [C!Next]_C!vars
  BY HostStep, HostAssumption DEF Sound
<1>3. Spec => []Used
  BY InitUsed, UsedStep, InductiveInvariant, HostAssumption, PTL DEF Spec
<1> QED
  BY <1>1, <1>2, <1>3, InductiveInvariant, SoundHolds, PTL DEF Spec, HostIsConnection, C!Spec
===============================================================================
