------------------------------ MODULE Fleet_proofs ------------------------------
(***************************************************************************)
(* Proofs about Fleet: type correctness, that the accounts in the file      *)
(* implement Accounts, that a bot never has two hosts, that the warm-up     *)
(* gate is full whenever somebody waits, that a removed person's bot stops  *)
(* and that no owned bot is forgotten.                                      *)
(***************************************************************************)
EXTENDS Fleet, FiniteSetTheorems, SequenceTheorems, TLAPS

------------------------------------------------------------------------------
(* The accounts.                                                            *)

(* A record is an account, and so is what a new account is made of.         *)
LEMMA RecordsAreAccounts ==
  /\ None \notin Records /\ None \notin Bots /\ NobodyYet \in Files
  /\ [role |-> "admin", bot |-> None] \in Records
BY StoreAssumption DEF NobodyYet, Records, Roles, Files

(* #read gives accounts, and seeding them again changes nothing.            *)
LEMMA ContentsFacts ==
  ASSUME file \in Files
  PROVE  /\ Contents \in Files
         /\ Contents # NobodyYet
         /\ file # NobodyYet => Contents = file
<1>1. CASE file = NobodyYet
  <2>1. Contents = [file EXCEPT ![First] = [role |-> "admin", bot |-> None]]
    BY <1>1 DEF Contents
  <2>2. Contents \in Files /\ Contents[First] = [role |-> "admin", bot |-> None]
    BY <2>1, RecordsAreAccounts, StoreAssumption DEF Files
  <2>3. NobodyYet[First] = None
    BY StoreAssumption DEF NobodyYet
  <2> QED
    BY <1>1, <2>2, <2>3, RecordsAreAccounts
<1>2. CASE file # NobodyYet
  BY <1>2 DEF Contents
<1> QED
  BY <1>1, <1>2

(* Whoever reads the file leaves its contents as they are.                  *)
LEMMA ReadingKeepsContents ==
  ASSUME file \in Files, file' = Contents
  PROVE  Contents' = Contents /\ file' \in Files
BY ContentsFacts DEF Contents

(* One change of the accounts, as Accounts has it.                          *)
Allowed(f, g) ==
  \E u \in Users :
    \/ \E role \in Roles : /\ f[u] = None
                           /\ g = [f EXCEPT ![u] = [role |-> role, bot |-> None]]
    \/ \E role \in Roles : /\ f[u] # None
                           /\ g = [f EXCEPT ![u] = [role |-> role, bot |-> f[u].bot]]
    \/ \E b \in {Primary, u} :
         /\ f[u] # None /\ f[u].bot = None
         /\ \A v \in Users : f[v] # None => f[v].bot # b
         /\ g = [f EXCEPT ![u] = [role |-> f[u].role, bot |-> b]]
    \/ f[u] # None /\ g = [f EXCEPT ![u] = None]

(* A change that gives nobody a bot they did not have.                      *)
KeepsBots(f, g) ==
  \A u \in Users : g[u] # None => g[u].bot = IF f[u] = None THEN None ELSE f[u].bot

(* What a mutate may be about to write.                                     *)
Becomes(f, g) == g \in Files /\ Proper(g) /\ Allowed(f, g)

(* A new account leaves the accounts proper and gives nobody a bot.         *)
LEMMA CreateIsProper ==
  ASSUME NEW f \in Files, Proper(f), NEW u \in Users, NEW role \in Roles, f[u] = None
  PROVE  LET g == [f EXCEPT ![u] = [role |-> role, bot |-> None]]
         IN Becomes(f, g) /\ KeepsBots(f, g)
<1> DEFINE g == [f EXCEPT ![u] = [role |-> role, bot |-> None]]
<1>1. g \in Files /\ g[u] = [role |-> role, bot |-> None] /\ \A v \in Users \ {u} : g[v] = f[v]
  BY DEF Files, Records, Roles
<1>2. None # Primary
  BY StoreAssumption DEF Bots
<1>3. Proper(g) /\ KeepsBots(f, g)
  <2> HIDE DEF g
  <2> QED
    BY <1>1, <1>2, RecordsAreAccounts DEF Proper, KeepsBots
<1>4. Allowed(f, g)
  BY DEF Allowed
<1> QED
  BY <1>1, <1>3, <1>4 DEF Becomes

(* A new role leaves the accounts proper, as another admin is asked for.    *)
LEMMA SetRoleIsProper ==
  ASSUME NEW f \in Files, Proper(f), NEW u \in Users, NEW role \in Roles, f[u] # None,
         f[u].role = "admin" /\ role # "admin" => AnotherAdmin(f, u)
  PROVE  LET g == [f EXCEPT ![u] = [role |-> role, bot |-> f[u].bot]]
         IN Becomes(f, g) /\ KeepsBots(f, g)
<1> DEFINE g == [f EXCEPT ![u] = [role |-> role, bot |-> f[u].bot]]
<1>1. /\ f[u] \in Records
      /\ [role |-> role, bot |-> f[u].bot] \in Records
  BY DEF Files, Records
<1>2. /\ g \in Files /\ g[u] = [role |-> role, bot |-> f[u].bot]
      /\ \A v \in Users \ {u} : g[v] = f[v]
      /\ g[u] # None /\ g[u].role = role /\ g[u].bot = f[u].bot
  BY <1>1, RecordsAreAccounts DEF Files
<1>3. Proper(g) /\ KeepsBots(f, g)
  <2> HIDE DEF g
  <2>1. \E v \in Users : g[v] # None /\ g[v].role = "admin"
    BY <1>2 DEF Proper, AnotherAdmin
  <2>2. \A v \in Users : /\ (g[v] # None) = (f[v] # None)
                         /\ g[v].bot = f[v].bot
    BY <1>2
  <2> QED
    BY <2>1, <2>2 DEF Proper, KeepsBots
<1>4. Allowed(f, g)
  BY DEF Allowed
<1> QED
  BY <1>2, <1>3, <1>4 DEF Becomes

(* So does a first bot that nobody has.                                     *)
LEMMA SetBotIdIsProper ==
  ASSUME NEW f \in Files, Proper(f), NEW u \in Users, f[u] # None, f[u].bot = None,
         NEW b \in {Primary, u}, \A v \in Users \ {u} : f[v] # None => f[v].bot # b
  PROVE  Becomes(f, [f EXCEPT ![u] = [role |-> f[u].role, bot |-> b]])
<1> DEFINE g == [f EXCEPT ![u] = [role |-> f[u].role, bot |-> b]]
<1>1. /\ f[u] \in Records
      /\ [role |-> f[u].role, bot |-> b] \in Records
  BY DEF Files, Records, Bots
<1>2. /\ g \in Files /\ g[u] = [role |-> f[u].role, bot |-> b]
      /\ \A v \in Users \ {u} : g[v] = f[v]
      /\ g[u] # None /\ g[u].role = f[u].role /\ g[u].bot = b
  BY <1>1, RecordsAreAccounts DEF Files
<1>3. Proper(g)
  <2> HIDE DEF g
  <2>1. \E v \in Users : g[v] # None /\ g[v].role = "admin"
    BY <1>2 DEF Proper
  <2>2. \A v \in Users : g[v] # None => g[v].bot \in {None, Primary, v}
    BY <1>2 DEF Proper
  <2>3. \A v \in Users : g[v] # None /\ g[v].bot = Primary /\ v # u => b # Primary
    BY <1>2
  <2>4. \A v \in Users \ {u} : g[v] # None <=> f[v] # None
    BY <1>2
  <2>5. ASSUME NEW v \in Users, NEW w \in Users \ {v}, g[v] # None, g[w] # None, g[w].bot = Primary
        PROVE  g[v].bot # Primary
    <3>1. CASE v = u
      BY <1>2, <2>3, <2>5, <3>1
    <3>2. CASE w = u
      BY <1>2, <2>5, <3>2
    <3>3. CASE v # u /\ w # u
      BY <1>2, <2>5, <3>3 DEF Proper
    <3> QED
      BY <3>1, <3>2, <3>3
  <2> QED
    BY <2>1, <2>2, <2>5 DEF Proper
<1>4. Allowed(f, g)
  <2>1. \A v \in Users : f[v] # None => f[v].bot # b
    BY StoreAssumption DEF Bots
  <2> QED
    BY <2>1 DEF Allowed
<1> QED
  BY <1>2, <1>3, <1>4 DEF Becomes

(* So does a removal, as another admin is asked for.                        *)
LEMMA RemoveIsProper ==
  ASSUME NEW f \in Files, Proper(f), NEW u \in Users, f[u] # None,
         f[u].role = "admin" => AnotherAdmin(f, u)
  PROVE  LET g == [f EXCEPT ![u] = None]
         IN Becomes(f, g) /\ KeepsBots(f, g)
<1> DEFINE g == [f EXCEPT ![u] = None]
<1>1. g \in Files /\ g[u] = None /\ \A v \in Users \ {u} : g[v] = f[v]
  BY DEF Files
<1>2. Proper(g) /\ KeepsBots(f, g)
  <2> HIDE DEF g
  <2>1. \E v \in Users : g[v] # None /\ g[v].role = "admin"
    BY <1>1 DEF Proper, AnotherAdmin
  <2> QED
    BY <1>1, <2>1 DEF Proper, KeepsBots
<1>3. Allowed(f, g)
  BY DEF Allowed
<1> QED
  BY <1>1, <1>2, <1>3 DEF Becomes

------------------------------------------------------------------------------
(* Type correctness.                                                        *)

Calls == [at: Steps, user: Users \union {None}, snap: Records \union {None},
          bot: Bots \union {None}, host: Hosts \union {0}, kind: Kinds,
          on: Users \union {None}, role: Roles, target: Records \union {None}]
HostStates == [bot: Bots \union {None}, closing: BOOLEAN,
               at: {"none", "queued", "connecting", "ready"}]

(* Where somebody's bot is sought.                                          *)
InTurn == {"turn"} \union TurnSteps

(* What a call that is somewhere has.                                       *)
Placed(c) ==
  /\ c.at \notin {"idle", "dead"} => c.user \in Users /\ c.snap \in Records
  /\ c.at \in {"role", "remove", "write", "release"} => c.kind # "none"
  /\ c.kind # "none" => c.on \in Users
  /\ c.at \in {"bind", "binding", "config"} => c.bot \in Bots
  /\ c.at = "release" => c.target \in Records
  /\ c.at \in {"write", "release"} => c.user # None

(* Idle calls, and a worker's end.                                          *)
LEMMA IdleCalls ==
  /\ Idle \in Calls /\ Placed(Idle) /\ Idle.at = "idle"
  /\ \A p : Failed(p).at \in {"idle", "dead"}
  /\ \A p : call[p].user \in Users => Failed(p) \in Calls /\ Placed(Failed(p))
BY DEF Idle, Calls, Steps, TurnSteps, Kinds, Roles, Placed, Failed

(* Number of hosts that connect.                                            *)
LEMMA ActiveIsNatural ==
  ASSUME NEW hs
  PROVE  Active(hs) \in Nat
<1>1. IsFiniteSet(Hosts)
  BY FS_Interval, FleetAssumption DEF Hosts
<1>2. IsFiniteSet({h \in Hosts : hs[h].at = "connecting"})
  BY <1>1, FS_Subset
<1> QED
  BY <1>2, FS_CardinalityType DEF Active

(* The queue is a queue of hosts that wait, each once.                      *)
Queueing(hs, queue) ==
  /\ queue \in Seq(Hosts)
  /\ \A i \in 1..Len(queue) : hs[queue[i]].at = "queued"
  /\ \A i, j \in 1..Len(queue) : i # j => queue[i] # queue[j]

(* #drain lets some of them connect, and the others go on waiting.          *)
LEMMA DrainedFacts ==
  ASSUME NEW hs \in [Hosts -> HostStates], NEW queue, Queueing(hs, queue), Drained(hs, queue)
  PROVE  /\ host' \in [Hosts -> HostStates] /\ Queueing(host', pending')
         /\ \A h \in Hosts : /\ host'[h].bot = hs[h].bot /\ host'[h].closing = hs[h].closing
                             /\ (host'[h].at = "none") = (hs[h].at = "none")
<1>1. Granted(hs, queue, Limit) \in 0..Len(queue)
  <2>1. Active(hs) \in Nat /\ Limit \in Nat /\ Len(queue) \in Nat
    BY ActiveIsNatural, FleetAssumption DEF Queueing
  <2> QED
    BY <2>1 DEF Granted
<1>2. PICK n \in 0..Len(queue) : LetIn(hs, queue, n)
  BY <1>1 DEF Drained
<1>3. /\ host' = [h \in Hosts |-> IF h \in {queue[i] : i \in 1..n}
                               THEN [hs[h] EXCEPT !.at = "connecting"] ELSE hs[h]]
      /\ pending' = SubSeq(queue, n + 1, Len(queue))
  BY <1>2 DEF LetIn
<1>4. \A i \in 1..Len(queue) : queue[i] \in Hosts /\ hs[queue[i]].at = "queued"
  BY DEF Queueing
<1>5. /\ host' \in [Hosts -> HostStates]
      /\ \A h \in Hosts : /\ host'[h].bot = hs[h].bot /\ host'[h].closing = hs[h].closing
                          /\ (host'[h].at = "none") = (hs[h].at = "none")
  <2> DEFINE on(h) == [hs[h] EXCEPT !.at = "connecting"]
  <2>1. \A h \in Hosts : /\ on(h) \in HostStates /\ on(h).at = "connecting"
                          /\ on(h).bot = hs[h].bot /\ on(h).closing = hs[h].closing
    BY DEF HostStates
  <2>2. \A h \in Hosts : \/ host'[h] = hs[h]
                         \/ host'[h] = on(h) /\ hs[h].at = "queued"
    BY <1>3, <1>4, <1>2
  <2>3. host' \in [Hosts -> HostStates]
    <3>1. \A h \in Hosts : (IF h \in {queue[i] : i \in 1..n} THEN on(h) ELSE hs[h]) \in HostStates
      BY <2>1
    <3> QED
      BY <1>3, <3>1
  <2> HIDE DEF on
  <2> QED
    BY <2>1, <2>2, <2>3
<1>6. Len(queue) \in Nat /\ queue \in [1..Len(queue) -> Hosts]
  BY DEF Queueing
<1>7. /\ pending' \in Seq(Hosts) /\ Len(pending') = Len(queue) - n
      /\ \A i \in 1..Len(pending') : pending'[i] = queue[i + n]
  <2> DEFINE rest == SubSeq(queue, n + 1, Len(queue))
  <2>0. n \in Nat /\ Len(queue) \in Nat /\ n <= Len(queue)
    <3>1. Len(queue) \in Nat
      BY <1>6
    <3> QED
      BY <3>1
  <2>1. \A i \in n + 1..Len(queue) : queue[i] \in Hosts
    BY <1>4, <1>6
  <2>2. /\ rest \in Seq(Hosts)
        /\ Len(rest) = IF n + 1 <= Len(queue) THEN Len(queue) - (n + 1) + 1 ELSE 0
        /\ \A i \in 1..Len(queue) - (n + 1) + 1 : rest[i] = queue[(n + 1) + i - 1]
    BY <1>6, <2>1, SubSeqProperties
  <2>3. pending' = rest
    BY <1>3
  <2> HIDE DEF rest
  <2>4. Len(rest) = Len(queue) - n
    <3>1. CASE n + 1 <= Len(queue)
      BY <1>6, <2>2, <3>1
    <3>2. CASE n = Len(queue)
      BY <1>6, <2>2, <3>2
    <3> QED
      BY <2>0, <3>1, <3>2
  <2>5. \A i \in 1..Len(rest) : rest[i] = queue[i + n]
    BY <2>0, <2>2, <2>4
  <2> QED
    BY <2>2, <2>3, <2>4, <2>5
<1>8. \A i \in 1..Len(pending') : i + n \in 1..Len(queue) /\ i + n \notin 1..n
  BY <1>6, <1>7
<1>9. \A i \in 1..Len(pending') : host'[pending'[i]].at = "queued"
  <2>1. \A i \in 1..Len(pending') : queue[i + n] \notin {queue[j] : j \in 1..n}
    <3>1. \A j \in 1..n : j \in 1..Len(queue)
      BY <1>6
    <3>2. \A i \in 1..Len(pending'), j \in 1..n : i + n # j
      BY <1>8
    <3> QED
      BY <1>8, <3>1, <3>2 DEF Queueing
  <2> QED
    BY <1>3, <1>4, <1>7, <1>8, <2>1
<1>10. \A i, j \in 1..Len(pending') : i # j => pending'[i] # pending'[j]
  <2>1. \A i, j \in 1..Len(pending') : i # j => i + n # j + n
    BY <1>7
  <2> QED
    BY <1>7, <1>8, <2>1 DEF Queueing
<1> QED
  BY <1>5, <1>7, <1>9, <1>10 DEF Queueing

(* A host that comes to the gate queues behind the others.                  *)
LEMMA SubmitFacts ==
  ASSUME NEW h \in Hosts, Queueing(host, pending), host[h].at = "none",
         NEW hs \in [Hosts -> HostStates], hs[h].at = "queued",
         \A i \in Hosts \ {h} : hs[i] = host[i]
  PROVE  Queueing(hs, Append(pending, h))
<1> DEFINE queue == Append(pending, h)
<1>1. /\ pending \in Seq(Hosts) /\ Len(pending) \in Nat
      /\ queue \in Seq(Hosts) /\ Len(queue) = Len(pending) + 1 /\ queue[Len(pending) + 1] = h
      /\ \A i \in 1..Len(pending) : queue[i] = pending[i]
  BY DEF Queueing
<1>2. \A i \in 1..Len(pending) : pending[i] \in Hosts \ {h}
  BY <1>1 DEF Queueing
<1> HIDE DEF queue
<1>3. \A i \in 1..Len(queue) : hs[queue[i]].at = "queued"
  <2>1. \A i \in 1..Len(queue) : i \in 1..Len(pending) \/ i = Len(pending) + 1
    BY <1>1
  <2> QED
    BY <1>1, <1>2, <2>1 DEF Queueing
<1>4. ASSUME NEW i \in 1..Len(queue), NEW j \in 1..Len(queue), i # j PROVE queue[i] # queue[j]
  <2>1. i \in 1..Len(pending) \/ i = Len(pending) + 1
    BY <1>1
  <2>2. j \in 1..Len(pending) \/ j = Len(pending) + 1
    BY <1>1
  <2> QED
    BY <1>1, <1>2, <1>4, <2>1, <2>2 DEF Queueing
<1> QED
  BY <1>1, <1>3, <1>4 DEF Queueing, queue

(* Types of the calls and of the store, which most steps leave alone.       *)
CallTypes == call \in [Procs -> Calls] /\ \A p \in Procs : Placed(call[p])
HostTypes == /\ host \in [Hosts -> HostStates] /\ mapped \in [Bots -> Hosts \union {0}]
             /\ Queueing(host, pending)
MainTypes == /\ phase \in {"new", "down", "starting", "serving", "closing", "draining"}
             /\ awaited \in SUBSET Hosts /\ owned \in Files /\ turn \in Procs \union {None}
             /\ astray \in SUBSET Users /\ unlucky \in SUBSET Users
             /\ used \in [requests: 0..MaxRequests, troubles: 0..MaxTroubles]

Types == StoreTypeOK /\ CallTypes /\ HostTypes /\ MainTypes

(* Together they are the types of Fleet.                                    *)
LEMMA TypesAreTypes == Types => TypeOK
BY DEF Types, CallTypes, HostTypes, MainTypes, TypeOK, Calls, HostStates, Queueing

(* What a step spends it had.                                               *)
LEMMA SpendTypes ==
  ASSUME MainTypes, Spend("requests", MaxRequests) \/ Spend("troubles", MaxTroubles)
  PROVE  used' \in [requests: 0..MaxRequests, troubles: 0..MaxTroubles]
BY FleetAssumption DEF MainTypes, Spend

(* What waits for a host goes on with its types.                            *)
LEMMA SettledTypes ==
  ASSUME CallTypes, NEW waits \in SUBSET {"await", "closing"}, NEW h, Settled(waits, h)
  PROVE  CallTypes'
<1>1. \A p \in Procs : \/ call'[p] = call[p]
                       \/ call'[p] = Idle
                       \/ call'[p] = Onward(call[p]) /\ call[p].at \in waits
  BY DEF Settled
<1>2. ASSUME NEW c \in Calls, Placed(c), c.at \in {"await", "closing"}
      PROVE  Onward(c) \in Calls /\ Placed(Onward(c))
  BY <1>2 DEF Calls, Placed, Onward, Steps
<1>3. \A p \in Procs : call'[p] \in Calls /\ Placed(call'[p])
  BY <1>1, <1>2, IdleCalls DEF CallTypes
<1>4. call' = [p \in Procs |-> call'[p]]
  BY DEF Settled
<1> QED
  BY <1>3, <1>4 DEF CallTypes

(* One call changes.                                                        *)
LEMMA OneCall ==
  ASSUME CallTypes, NEW p \in Procs, NEW c \in Calls, Placed(c), call' = [call EXCEPT ![p] = c]
  PROVE  CallTypes' /\ call'[p] = c /\ \A q \in Procs \ {p} : call'[q] = call[q]
BY DEF CallTypes

(* The store's operations keep its types.                                   *)
LEMMA StoreTypes ==
  ASSUME StoreTypeOK, NEW p \in Procs
  PROVE  /\ ReadStore => StoreTypeOK' /\ Contents' = Contents /\ draft' = draft
         /\ \A new \in Files :
              Mutate(p, new) /\ issued' \in SUBSET Users =>
                /\ StoreTypeOK' /\ Contents' = Contents /\ Exclusive
                /\ draft' = [draft EXCEPT ![p] = new]
         /\ Written(p) /\ draft[p] \in Files =>
              StoreTypeOK' /\ file' = draft[p] /\ draft' = [draft EXCEPT ![p] = None]
         /\ NotWritten(p) =>
              StoreTypeOK' /\ Contents' = Contents /\ draft' = [draft EXCEPT ![p] = None]
<1>1. Contents \in Files
  BY ContentsFacts DEF StoreTypeOK
<1>2. ReadStore => StoreTypeOK' /\ Contents' = Contents /\ draft' = draft
  BY <1>1, ReadingKeepsContents DEF ReadStore, StoreTypeOK
<1>3. ASSUME NEW new \in Files, Mutate(p, new), issued' \in SUBSET Users
      PROVE  /\ StoreTypeOK' /\ Contents' = Contents /\ Exclusive
             /\ draft' = [draft EXCEPT ![p] = new]
  BY <1>1, <1>3, ReadingKeepsContents DEF Mutate, StoreTypeOK
<1>4. Written(p) /\ draft[p] \in Files =>
        StoreTypeOK' /\ file' = draft[p] /\ draft' = [draft EXCEPT ![p] = None]
  BY DEF Written, StoreTypeOK
<1>5. NotWritten(p) => StoreTypeOK' /\ Contents' = Contents /\ draft' = [draft EXCEPT ![p] = None]
  BY DEF NotWritten, StoreTypeOK, Contents
<1> QED
  BY <1>2, <1>3, <1>4, <1>5

(* The end of #resolve.                                                     *)
LEMMA LookUpTypes ==
  ASSUME CallTypes, HostTypes, NEW p \in Procs, NEW b \in Bots, LookUp(p, b),
         call[p].at \notin {"idle", "dead"}
  PROVE  CallTypes' /\ turn' \in Procs \union {None}
<1> DEFINE c == call[p]
           away == [[c EXCEPT !.at = "config"] EXCEPT !.bot = b]
           waiting == [c EXCEPT !.at = "await", !.bot = b, !.host = mapped[b]]
           acting == [c EXCEPT !.at = "act", !.bot = b]
<1>1. c \in Calls /\ Placed(c) /\ mapped[b] \in Hosts \union {0}
  BY DEF CallTypes, HostTypes
<1>2. /\ away \in Calls /\ Placed(away)
      /\ waiting \in Calls /\ Placed(waiting)
      /\ acting \in Calls /\ Placed(acting)
  <2> USE DEF Calls, Steps, TurnSteps
  <2>2. away \in Calls /\ Placed(away)
    BY <1>1 DEF Placed
  <2>3. waiting \in Calls /\ Placed(waiting)
    <3>1. ASSUME NEW h \in Hosts \union {0}, NEW d, d = [c EXCEPT !.at = "await", !.bot = b, !.host = h]
          PROVE  d \in Calls /\ Placed(d)
      <4>1. /\ d \in Calls /\ d.at = "await" /\ d.user = c.user /\ d.snap = c.snap
            /\ d.kind = c.kind /\ d.on = c.on
        BY <1>1, <3>1
      <4>2. c.user \in Users /\ c.snap \in Records /\ (c.kind # "none" => c.on \in Users)
        BY <1>1 DEF Placed
      <4> QED
        BY <4>1, <4>2 DEF Placed
    <3> QED
      BY <1>1, <3>1
  <2>4. acting \in Calls /\ Placed(acting)
    <3>1. /\ acting \in Calls /\ acting.at = "act" /\ acting.user = c.user
          /\ acting.snap = c.snap /\ acting.kind = c.kind /\ acting.on = c.on
      BY <1>1
    <3>2. c.user \in Users /\ c.snap \in Records /\ (c.kind # "none" => c.on \in Users)
      BY <1>1 DEF Placed
    <3> HIDE DEF acting
    <3> QED
      BY <3>1, <3>2 DEF Placed
  <2> QED
    BY <2>2, <2>3, <2>4
<1>3. \E d \in {away, waiting, acting, Idle} : call' = [call EXCEPT ![p] = d]
  BY DEF LookUp, CallTypes
<1> HIDE DEF away, waiting, acting
<1>4. PICK d \in {away, waiting, acting, Idle} : call' = [call EXCEPT ![p] = d]
  BY <1>3
<1>5. d \in Calls /\ Placed(d)
  BY <1>2, <1>4, IdleCalls
<1> QED
  BY <1>4, <1>5, OneCall DEF LookUp

(* #resolve rejects.                                                        *)
LEMMA TurnFailsTypes ==
  ASSUME CallTypes, MainTypes, NEW p \in Procs, TurnFails(p), call[p].at \notin {"idle", "dead"}
  PROVE  CallTypes' /\ turn' \in Procs \union {None} /\ unlucky' \in SUBSET Users
<1>1. call[p].user \in Users
  BY DEF CallTypes, Placed
<1>2. CallTypes'
  BY <1>1, IdleCalls, OneCall DEF TurnFails
<1> QED
  BY <1>1, <1>2 DEF TurnFails, MainTypes

(* A call that goes on to work on bot b, or on its own.                     *)
LEMMA Moved ==
  ASSUME NEW c \in Calls, Placed(c), c.at \notin {"idle", "dead"}, NEW b \in Bots,
         NEW record \in Records
  PROVE  /\ LET d == [c EXCEPT !.at = "assign", !.snap = record] IN d \in Calls /\ Placed(d)
         /\ LET d == [c EXCEPT !.at = "bind", !.bot = b] IN d \in Calls /\ Placed(d)
         /\ c.at \in {"bind", "binding", "config"} =>
              LET d == [c EXCEPT !.at = "binding"] IN d \in Calls /\ Placed(d)
         /\ \A h \in Hosts :
              LET d == [[c EXCEPT !.at = "await"] EXCEPT !.host = h] IN d \in Calls /\ Placed(d)
         /\ c.kind # "none" =>
              \A at \in {"role", "remove", "write"} :
                LET d == [c EXCEPT !.at = at] IN d \in Calls /\ Placed(d)
         /\ c.kind # "none" =>
              \A t \in Records \union {None} :
                LET d == [c EXCEPT !.at = "remove", !.target = t] IN d \in Calls /\ Placed(d)
         /\ c.kind # "none" /\ c.target \in Records =>
              LET d == [c EXCEPT !.at = "release"] IN d \in Calls /\ Placed(d)
         /\ \A h \in Hosts :
              LET d == [[c EXCEPT !.at = "closing"] EXCEPT !.host = h] IN d \in Calls /\ Placed(d)
<1> USE DEF Calls, Steps, TurnSteps
<1>1. c.user \in Users /\ c.snap \in Records /\ c.user # None
  BY StoreAssumption DEF Placed, Bots
<1>2. /\ c.kind # "none" => c.on \in Users
      /\ c.at \in {"bind", "binding", "config"} => c.bot \in Bots
  BY DEF Placed
<1>3. ASSUME NEW d \in Calls, d.user = c.user, d.snap \in Records, d.kind = c.kind, d.on = c.on,
             d.at \in {"role", "remove", "write", "release"} => c.kind # "none",
             d.at \in {"bind", "binding", "config"} => d.bot \in Bots,
             d.at = "release" => d.target \in Records
      PROVE  Placed(d)
  BY <1>1, <1>2, <1>3 DEF Placed
<1>4. LET d == [c EXCEPT !.at = "assign", !.snap = record] IN d \in Calls /\ Placed(d)
  BY <1>3, <1>1
<1>5. LET d == [c EXCEPT !.at = "bind", !.bot = b] IN d \in Calls /\ Placed(d)
  BY <1>3, <1>1
<1>6. c.at \in {"bind", "binding", "config"} =>
        LET d == [c EXCEPT !.at = "binding"] IN d \in Calls /\ Placed(d)
  BY <1>3, <1>1, <1>2
<1>7. ASSUME NEW h \in Hosts
      PROVE  LET d == [[c EXCEPT !.at = "await"] EXCEPT !.host = h] IN d \in Calls /\ Placed(d)
  BY <1>3, <1>1
<1>8. ASSUME c.kind # "none", NEW at \in {"role", "remove", "write"}
      PROVE  LET d == [c EXCEPT !.at = at] IN d \in Calls /\ Placed(d)
  BY <1>3, <1>1, <1>8
<1>9. ASSUME c.kind # "none", NEW t \in Records \union {None}
      PROVE  LET d == [c EXCEPT !.at = "remove", !.target = t] IN d \in Calls /\ Placed(d)
  BY <1>3, <1>1, <1>9
<1>10. ASSUME c.kind # "none", c.target \in Records
       PROVE  LET d == [c EXCEPT !.at = "release"] IN d \in Calls /\ Placed(d)
  BY <1>3, <1>1, <1>10
<1>11. ASSUME NEW h \in Hosts
       PROVE  LET d == [[c EXCEPT !.at = "closing"] EXCEPT !.host = h] IN d \in Calls /\ Placed(d)
  BY <1>3, <1>1
<1> QED
  BY <1>4, <1>5, <1>6, <1>7, <1>8, <1>9, <1>10, <1>11

(* Parts that a step leaves alone.                                          *)
LEMMA Still ==
  /\ StoreTypeOK /\ UNCHANGED storeVars => StoreTypeOK' /\ Contents' = Contents
  /\ HostTypes /\ UNCHANGED hostVars => HostTypes'
  /\ CallTypes /\ UNCHANGED call => CallTypes'
<1>1. StoreTypeOK /\ UNCHANGED storeVars => StoreTypeOK' /\ Contents' = Contents
  BY DEF storeVars, StoreTypeOK, Contents
<1>2. HostTypes /\ UNCHANGED hostVars => HostTypes'
  BY DEF hostVars, HostTypes, Queueing
<1>3. CallTypes /\ UNCHANGED call => CallTypes'
  BY DEF CallTypes
<1> QED
  BY <1>1, <1>2, <1>3

(* The steps of a host.                                                     *)
LEMMA HostTypesKept ==
  ASSUME Types, NEW h \in Hosts, HostReady(h) \/ HostCloses(h)
  PROVE  /\ Types' /\ Contents' = Contents
         /\ \A i \in Hosts : /\ host'[i].at # "none" => host[i].at # "none"
                             /\ host'[i].at # "none" => /\ host'[i].bot = host[i].bot
                                                        /\ host'[i].closing = host[i].closing
<1> USE DEF Types
<1>1. CASE HostReady(h)
  <2> DEFINE hs == [host EXCEPT ![h].at = "ready"]
  <2>1. hs \in [Hosts -> HostStates] /\ host[h].at = "connecting"
    BY <1>1 DEF HostTypes, HostStates, HostReady
  <2>2. \A i \in Hosts : /\ hs[i].bot = host[i].bot /\ hs[i].closing = host[i].closing
                         /\ (hs[i].at = "none") = (host[i].at = "none")
                         /\ host[i].at = "queued" => hs[i].at = "queued"
    BY <2>1 DEF HostTypes, HostStates
  <2>3. Drained(hs, pending) /\ Settled({"await"}, h)
        /\ UNCHANGED <<storeVars, mainVars, owned, turn, mapped, history, used>>
    BY <1>1 DEF HostReady
  <2>4. Queueing(hs, pending)
    <3>1. \A i \in 1..Len(pending) : pending[i] \in Hosts
      BY DEF HostTypes, Queueing
    <3> HIDE DEF hs
    <3> QED
      BY <2>2, <3>1 DEF HostTypes, Queueing
  <2> HIDE DEF hs
  <2>5. /\ host' \in [Hosts -> HostStates] /\ Queueing(host', pending')
        /\ \A i \in Hosts : /\ host'[i].bot = hs[i].bot /\ host'[i].closing = hs[i].closing
                            /\ (host'[i].at = "none") = (hs[i].at = "none")
    BY <2>1, <2>3, <2>4, DrainedFacts
  <2>6. HostTypes'
    BY <2>3, <2>5 DEF HostTypes
  <2>7. CallTypes'
    BY <2>3, SettledTypes
  <2>8. MainTypes'
    BY <2>3 DEF MainTypes, mainVars, history
  <2> QED
    BY <2>2, <2>3, <2>5, <2>6, <2>7, <2>8, Still
<1>2. CASE HostCloses(h)
  <2>1. /\ host' = [host EXCEPT ![h] = NoHost] /\ host[h].at = "ready"
        /\ UNCHANGED <<storeVars, phase, owned, turn, mapped, pending, history, used>>
        /\ Settled({"await", "closing"}, h) /\ awaited' = awaited \ {h}
    BY <1>2 DEF HostCloses
  <2>2. NoHost \in HostStates /\ NoHost.at = "none"
    BY DEF NoHost, HostStates
  <2>3. /\ host' \in [Hosts -> HostStates] /\ host'[h] = NoHost
        /\ \A i \in Hosts \ {h} : host'[i] = host[i]
    BY <2>1, <2>2 DEF HostTypes
  <2>4. Queueing(host', pending')
    <3>1. \A i \in 1..Len(pending) : pending[i] \in Hosts \ {h}
      BY <2>1 DEF HostTypes, Queueing
    <3> QED
      BY <2>1, <2>3, <3>1 DEF HostTypes, Queueing
  <2>5. HostTypes'
    BY <2>1, <2>3, <2>4 DEF HostTypes
  <2>6. CallTypes'
    BY <2>1, SettledTypes
  <2>7. MainTypes'
    BY <2>1 DEF MainTypes, history
  <2> QED
    BY <2>1, <2>2, <2>3, <2>5, <2>6, <2>7, Still
<1> QED
  BY <1>1, <1>2

(* The steps of #assigning.                                                 *)
LEMMA TurnTypes ==
  ASSUME Types, NEW p \in Procs,
         Resolve(p) \/ Assign(p) \/ Bind(p) \/ Bound(p) \/ MakeHost(p) \/ ResolveFails(p),
         call[p].at = "binding" => draft[p] \in Files
  PROVE  Types'
<1> USE DEF Types
<1>1. StoreTypeOK /\ CallTypes /\ HostTypes /\ MainTypes /\ call[p] \in Calls /\ Placed(call[p])
  BY DEF CallTypes
<1>2. call[p].at \notin {"idle", "dead"} => call[p].user \in Users /\ call[p].snap \in Records
  BY <1>1 DEF Placed
<1>3. call[p].at \in {"bind", "binding", "config"} => call[p].bot \in Bots
  BY <1>1 DEF Placed
<1>4. CASE Resolve(p)
  <2> DEFINE current == IF Contents[call[p].user] # None THEN Contents[call[p].user] ELSE call[p].snap
  <2>1. /\ call[p].at = "turn" /\ ReadStore
        /\ UNCHANGED <<mainVars, owned, hostVars, history, used>>
        /\ IF current.bot # None THEN LookUp(p, current.bot)
           ELSE /\ call' = [call EXCEPT ![p].at = "assign", ![p].snap = current]
                /\ turn' = p
    BY <1>4 DEF Resolve
  <2>2. current \in Records
    BY <1>2, <2>1, ContentsFacts DEF StoreTypeOK, Files
  <2>3. CallTypes' /\ turn' \in Procs \union {None}
    <3>1. CASE current.bot # None
      <4>1. current.bot \in Bots
        BY <2>2, <3>1 DEF Records
      <4> QED
        BY <2>1, <3>1, <4>1, LookUpTypes
    <3>2. CASE current.bot = None
      <4>1. call' = [call EXCEPT ![p] = [call[p] EXCEPT !.at = "assign", !.snap = current]]
        BY <2>1, <3>2 DEF CallTypes
      <4>2. turn' = p /\ call[p].at \notin {"idle", "dead"} /\ Primary \in Bots
        BY <2>1, <3>2 DEF Bots
      <4> HIDE DEF current
      <4>3. LET d == [call[p] EXCEPT !.at = "assign", !.snap = current] IN d \in Calls /\ Placed(d)
        BY <1>1, <2>2, <4>2, Moved
      <4> QED
        BY <4>1, <4>2, <4>3, OneCall
    <3> QED
      BY <3>1, <3>2
  <2>4. StoreTypeOK'
    BY <2>1, StoreTypes
  <2>5. HostTypes'
    BY <2>1, Still
  <2>6. MainTypes'
    BY <2>1, <2>3 DEF MainTypes, mainVars, history
  <2> QED
    BY <2>3, <2>4, <2>5, <2>6
<1>5. CASE Assign(p)
  <2>1. /\ call[p].at = "assign" /\ ReadStore
        /\ UNCHANGED <<mainVars, owned, turn, hostVars, history, used>>
        /\ \E b \in {Primary, call[p].user} : call' = [call EXCEPT ![p].at = "bind", ![p].bot = b]
    BY <1>5 DEF Assign
  <2>2. PICK b \in Bots : call' = [call EXCEPT ![p] = [call[p] EXCEPT !.at = "bind", !.bot = b]]
    BY <1>2, <2>1 DEF Bots, CallTypes
  <2>3. LET d == [call[p] EXCEPT !.at = "bind", !.bot = b] IN d \in Calls /\ Placed(d)
    BY <1>1, <1>2, <2>1, Moved
  <2>4. CallTypes'
    BY <2>2, <2>3, OneCall
  <2>5. MainTypes'
    BY <2>1 DEF MainTypes, mainVars, history
  <2> QED
    BY <2>1, <2>4, <2>5, StoreTypes, Still
<1>6. CASE Bind(p)
  <2>1. call[p].at = "bind" /\ UNCHANGED <<mainVars, owned, hostVars, astray, used>>
    BY <1>6 DEF Bind
  <2>2. CASE /\ SetBotId(p, call[p].user, call[p].bot)
             /\ call' = [call EXCEPT ![p].at = "binding"]
             /\ UNCHANGED <<turn, unlucky>>
    <3>1. LET d == [call[p] EXCEPT !.at = "binding"] IN d \in Calls /\ Placed(d)
      BY <1>1, <1>2, <1>3, <2>1, Moved
    <3>2. CallTypes'
      BY <2>2, <3>1, OneCall DEF CallTypes
    <3>3. [Contents EXCEPT ![call[p].user] = [role |-> Contents[call[p].user].role, bot |-> call[p].bot]]
            \in Files
      BY <1>2, <1>3, <2>1, <2>2, ContentsFacts DEF StoreTypeOK, Files, Records, SetBotId, MaySetBotId
    <3>4. StoreTypeOK'
      BY <2>2, <3>3, StoreTypes DEF SetBotId, StoreTypeOK
    <3>5. MainTypes'
      BY <2>1, <2>2 DEF MainTypes, mainVars
    <3> QED
      BY <2>1, <3>2, <3>4, <3>5, Still
  <2>3. CASE ReadStore /\ TurnFails(p)
    <3>1. CallTypes' /\ turn' \in Procs \union {None} /\ unlucky' \in SUBSET Users
      BY <2>1, <2>3, TurnFailsTypes
    <3>2. MainTypes'
      BY <2>1, <3>1 DEF MainTypes, mainVars
    <3> QED
      BY <2>1, <2>3, <3>1, <3>2, StoreTypes, Still
  <2> QED
    BY <1>6, <2>2, <2>3 DEF Bind
<1>7. CASE Bound(p)
  <2>1. call[p].at = "binding" /\ UNCHANGED <<mainVars, owned, hostVars, astray>>
    BY <1>7 DEF Bound
  <2>2. CASE Written(p) /\ LookUp(p, call[p].bot) /\ UNCHANGED <<unlucky, used>>
    <3>1. CallTypes' /\ turn' \in Procs \union {None}
      BY <1>3, <2>1, <2>2, LookUpTypes
    <3>2. StoreTypeOK'
      BY <2>1, <2>2, StoreTypes
    <3>3. MainTypes'
      BY <2>1, <2>2, <3>1 DEF MainTypes, mainVars
    <3> QED
      BY <2>1, <3>1, <3>2, <3>3, Still
  <2>3. CASE NotWritten(p) /\ TurnFails(p) /\ Spend("troubles", MaxTroubles)
    <3>1. CallTypes' /\ turn' \in Procs \union {None} /\ unlucky' \in SUBSET Users
      BY <2>1, <2>3, TurnFailsTypes
    <3>2. MainTypes'
      BY <2>1, <2>3, <3>1, SpendTypes DEF MainTypes, mainVars
    <3> QED
      BY <2>1, <2>3, <3>1, <3>2, StoreTypes, Still
  <2> QED
    BY <1>7, <2>2, <2>3 DEF Bound
<1>8. CASE MakeHost(p)
  <2>1. call[p].at = "config" /\ turn' = None /\ UNCHANGED <<storeVars, mainVars, owned, unlucky, used>>
    BY <1>8 DEF MakeHost
  <2>2. PICK h \in Hosts :
          /\ host[h].at = "none"
          /\ mapped' = [mapped EXCEPT ![call[p].bot] = h]
          /\ Submit([host EXCEPT ![h] = [bot |-> call[p].bot, at |-> "queued", closing |-> FALSE]], h)
          /\ call' = [call EXCEPT ![p].at = "await", ![p].host = h]
          /\ astray' = IF call[p].bot \in Users /\ Contents[call[p].bot] = None
                       THEN astray \union {call[p].bot} ELSE astray
    BY <1>8 DEF MakeHost
  <2> DEFINE hs == [host EXCEPT ![h] = [bot |-> call[p].bot, at |-> "queued", closing |-> FALSE]]
  <2>3. /\ hs \in [Hosts -> HostStates] /\ hs[h].at = "queued"
        /\ \A i \in Hosts \ {h} : hs[i] = host[i]
    BY <1>3, <2>1 DEF HostTypes, HostStates
  <2>4. Drained(hs, Append(pending, h))
    BY <2>2 DEF Submit
  <2> HIDE DEF hs
  <2>5. Queueing(hs, Append(pending, h))
    BY <2>2, <2>3, SubmitFacts DEF HostTypes
  <2>6. host' \in [Hosts -> HostStates] /\ Queueing(host', pending')
    BY <2>3, <2>4, <2>5, DrainedFacts
  <2>7. HostTypes'
    BY <1>3, <2>1, <2>2, <2>6 DEF HostTypes
  <2>8. LET d == [[call[p] EXCEPT !.at = "await"] EXCEPT !.host = h] IN d \in Calls /\ Placed(d)
    BY <1>1, <1>2, <1>3, <2>1, Moved
  <2>9. call' = [call EXCEPT ![p] = [[call[p] EXCEPT !.at = "await"] EXCEPT !.host = h]]
    BY <2>2 DEF CallTypes
  <2>10. CallTypes'
    BY <2>8, <2>9, OneCall
  <2>11. MainTypes'
    BY <2>1, <2>2 DEF MainTypes, mainVars
  <2> QED
    BY <2>1, <2>7, <2>10, <2>11, Still
<1>9. CASE ResolveFails(p)
  <2>1. /\ call[p].at \in InTurn /\ TurnFails(p) /\ Spend("troubles", MaxTroubles)
        /\ UNCHANGED <<storeVars, mainVars, owned, hostVars, astray>>
    BY <1>9 DEF ResolveFails, InTurn, TurnSteps
  <2>2. CallTypes' /\ turn' \in Procs \union {None} /\ unlucky' \in SUBSET Users
    BY <2>1, TurnFailsTypes DEF InTurn, TurnSteps
  <2>3. MainTypes'
    BY <2>1, <2>2, SpendTypes DEF MainTypes, mainVars
  <2> QED
    BY <2>1, <2>2, <2>3, Still
<1> QED
  BY <1>4, <1>5, <1>6, <1>7, <1>8, <1>9

(* The steps of a request, and of the restore.                              *)
LEMMA RequestTypes ==
  ASSUME Types, NEW r \in Procs,
         Enter(r) \/ Act(r) \/ Change(r) \/ Changed(r) \/ Release(r) \/ Restore(r),
         call[r].at = "write" => draft[r] \in Files
  PROVE  Types'
<1>1. StoreTypeOK /\ CallTypes /\ HostTypes /\ MainTypes /\ call[r] \in Calls /\ Placed(call[r])
  BY DEF CallTypes, Types
<1>2. call[r].at \notin {"idle", "dead"} => call[r].user \in Users /\ call[r].snap \in Records
  BY <1>1 DEF Placed
<1>3. /\ call[r].at \in {"role", "remove", "write", "release"} => call[r].kind # "none"
      /\ call[r].kind # "none" => call[r].on \in Users
      /\ call[r].at = "release" => call[r].target \in Records
  BY <1>1 DEF Placed
<1>4. Contents \in Files /\ None \notin Records /\ Primary \in Bots
  BY <1>1, ContentsFacts, RecordsAreAccounts DEF StoreTypeOK, Bots
<1>5. ASSUME Answered(r) PROVE CallTypes'
  BY <1>1, <1>5, IdleCalls, OneCall DEF Answered
<1>6. ASSUME NEW at \in {"role", "remove", "write"}, At(r, at), call[r].kind # "none",
             call[r].at \notin {"idle", "dead"}
      PROVE  CallTypes'
  <2>1. LET d == [call[r] EXCEPT !.at = at] IN d \in Calls /\ Placed(d)
    BY <1>1, <1>2, <1>4, <1>6, Moved
  <2> QED
    BY <1>1, <1>6, <2>1, OneCall DEF At, CallTypes
<1>7. ASSUME UNCHANGED <<mainVars, owned, turn, hostVars, history>>,
             StoreTypeOK', CallTypes',
             used' \in [requests: 0..MaxRequests, troubles: 0..MaxTroubles]
      PROVE  Types'
  <2>1. MainTypes'
    BY <1>1, <1>7 DEF MainTypes, mainVars, history
  <2> QED
    BY <1>1, <1>7, <2>1, Still DEF Types
<1>8. CASE Enter(r)
  <2>1. ReadStore /\ Spend("requests", MaxRequests)
        /\ UNCHANGED <<mainVars, owned, turn, hostVars, history>>
    BY <1>8 DEF Enter
  <2>2. PICK u \in issued, kind \in Kinds :
          /\ Contents[u] # None
          /\ \E v \in On(kind), role \in IF kind \in {"create", "put"} THEN Roles ELSE {"user"} :
               call' = [call EXCEPT ![r] = [Idle EXCEPT !.at = "turn", !.user = u, !.snap = Contents[u],
                                                        !.kind = kind, !.on = v, !.role = role]]
    BY <1>8 DEF Enter
  <2>a. (IF kind \in {"create", "put"} THEN Roles ELSE {"user"}) \subseteq Roles
    BY DEF Roles
  <2>b. PICK v \in On(kind), role \in Roles :
          call' = [call EXCEPT ![r] = [Idle EXCEPT !.at = "turn", !.user = u, !.snap = Contents[u],
                                                   !.kind = kind, !.on = v, !.role = role]]
    BY <2>2, <2>a
  <2> DEFINE c == [Idle EXCEPT !.at = "turn", !.user = u, !.snap = Contents[u],
                               !.kind = kind, !.on = v, !.role = role]
  <2>3. u \in Users /\ Contents[u] \in Records
    BY <1>1, <1>4, <2>2 DEF StoreTypeOK, Files
  <2>4. v \in Users \union {None} /\ (kind # "none" => v \in Users)
    BY <1>1, <2>b DEF On, Kinds, StoreTypeOK
  <2>5. /\ c \in Calls /\ c.at = "turn" /\ c.user = u /\ c.snap = Contents[u]
        /\ c.kind = kind /\ c.on = v
    BY <2>2, <2>3, <2>4, IdleCalls DEF Calls, Steps, TurnSteps
  <2>6. Placed(c)
    <3> HIDE DEF c
    <3> QED
      BY <2>3, <2>4, <2>5 DEF Placed
  <2>7. CallTypes'
    BY <1>1, <2>b, <2>5, <2>6, OneCall
  <2> QED
    BY <1>1, <1>7, <2>1, <2>7, StoreTypes, SpendTypes
<1>9. CASE Act(r)
  <2>1. call[r].at = "act" /\ UNCHANGED <<mainVars, owned, turn, hostVars, history, used>>
    BY <1>9 DEF Act
  <2>2. used' \in [requests: 0..MaxRequests, troubles: 0..MaxTroubles]
    BY <1>1, <2>1 DEF MainTypes
  <2>3. CASE call[r].kind = "none" /\ Answered(r) /\ UNCHANGED storeVars
    BY <1>1, <1>5, <1>7, <2>1, <2>2, <2>3, Still
  <2>4. CASE call[r].kind = "create" /\ Create(r, call[r].on, call[r].role) /\ At(r, "write")
    <3>1. call[r].on \in Users /\ call[r].role \in Roles
      BY <1>1, <1>3, <2>4 DEF Calls
    <3>2. [Contents EXCEPT ![call[r].on] = [role |-> call[r].role, bot |-> None]] \in Files
      BY <1>4, <3>1 DEF Files, Records
    <3>3. StoreTypeOK'
      BY <1>1, <2>4, <3>1, <3>2, StoreTypes DEF Create, StoreTypeOK
    <3> QED
      BY <1>6, <1>7, <2>1, <2>2, <2>4, <3>3
  <2>5. CASE call[r].kind = "create" /\ ReadStore /\ Answered(r)
    BY <1>1, <1>5, <1>7, <2>1, <2>2, <2>5, StoreTypes
  <2>6. CASE call[r].kind = "put" /\ At(r, "role") /\ UNCHANGED storeVars
    BY <1>1, <1>6, <1>7, <2>1, <2>2, <2>6, Still
  <2>7. CASE /\ call[r].kind = "remove" /\ ReadStore
             /\ call' = [call EXCEPT ![r].at = "remove", ![r].target = Contents[call[r].on]]
    <3>1. Contents[call[r].on] \in Records \union {None}
      BY <1>3, <1>4, <2>7 DEF Files
    <3>2. LET d == [call[r] EXCEPT !.at = "remove", !.target = Contents[call[r].on]]
          IN d \in Calls /\ Placed(d)
      BY <1>1, <1>2, <1>4, <2>1, <2>7, <3>1, Moved
    <3>3. call' = [call EXCEPT ![r] = [call[r] EXCEPT !.at = "remove", !.target = Contents[call[r].on]]]
      BY <2>7 DEF CallTypes
    <3>4. CallTypes'
      BY <1>1, <3>2, <3>3, OneCall
    <3> QED
      BY <1>1, <1>7, <2>1, <2>2, <2>7, <3>4, StoreTypes
  <2> QED
    BY <1>9, <2>3, <2>4, <2>5, <2>6, <2>7 DEF Act
<1>10. CASE Change(r)
  <2>1. UNCHANGED <<mainVars, owned, turn, hostVars, history, used>>
    BY <1>10 DEF Change
  <2>2. used' \in [requests: 0..MaxRequests, troubles: 0..MaxTroubles]
    BY <1>1, <2>1 DEF MainTypes
  <2>3. CASE call[r].at = "role" /\ SetRole(r, call[r].on, call[r].role) /\ At(r, "write")
    <3>1. call[r].on \in Users /\ call[r].role \in Roles
      BY <1>1, <1>3, <2>3 DEF Calls
    <3>2. [Contents EXCEPT ![call[r].on] = [role |-> call[r].role, bot |-> Contents[call[r].on].bot]]
            \in Files
      BY <1>4, <2>3, <3>1 DEF Files, Records, SetRole, MaySetRole
    <3>3. StoreTypeOK'
      BY <1>1, <2>3, <3>2, StoreTypes DEF SetRole, StoreTypeOK
    <3> QED
      BY <1>3, <1>6, <1>7, <2>1, <2>2, <2>3, <3>3
  <2>4. CASE ReadStore /\ Answered(r)
    BY <1>1, <1>5, <1>7, <2>1, <2>2, <2>4, StoreTypes
  <2>5. CASE call[r].at = "remove" /\ Remove(r, call[r].on) /\ At(r, "write")
    <3>1. [Contents EXCEPT ![call[r].on] = None] \in Files
      BY <1>4 DEF Files
    <3>2. StoreTypeOK'
      BY <1>1, <2>5, <3>1, StoreTypes DEF Remove, StoreTypeOK
    <3> QED
      BY <1>3, <1>6, <1>7, <2>1, <2>2, <2>5, <3>2
  <2> QED
    BY <1>10, <2>3, <2>4, <2>5 DEF Change
<1>11. CASE Changed(r)
  <2>1. call[r].at = "write" /\ UNCHANGED <<mainVars, owned, turn, hostVars, history>>
    BY <1>11 DEF Changed
  <2>2. CASE /\ Written(r) /\ UNCHANGED used
             /\ IF call[r].kind = "remove" /\ call[r].target # None THEN At(r, "release") ELSE Answered(r)
    <3>1. CallTypes'
      <4>1. CASE At(r, "release") /\ call[r].target # None
        <5>1. call[r].target \in Records
          BY <1>1, <4>1 DEF Calls
        <5>2. LET d == [call[r] EXCEPT !.at = "release"] IN d \in Calls /\ Placed(d)
          BY <1>1, <1>2, <1>3, <1>4, <2>1, <5>1, Moved
        <5> QED
          BY <1>1, <4>1, <5>2, OneCall DEF At, CallTypes
      <4> QED
        BY <1>5, <2>2, <4>1
    <3>2. StoreTypeOK' /\ used' \in [requests: 0..MaxRequests, troubles: 0..MaxTroubles]
      BY <1>1, <2>1, <2>2, StoreTypes DEF MainTypes
    <3> QED
      BY <1>7, <2>1, <3>1, <3>2
  <2>3. CASE NotWritten(r) /\ Answered(r) /\ Spend("troubles", MaxTroubles)
    BY <1>1, <1>5, <1>7, <2>1, <2>3, StoreTypes, SpendTypes
  <2> QED
    BY <1>11, <2>2, <2>3 DEF Changed
<1>12. CASE Release(r)
  <2> DEFINE b == call[r].target.bot
  <2>1. /\ call[r].at = "release"
        /\ UNCHANGED <<storeVars, mainVars, owned, turn, unlucky, used>>
        /\ astray' \in SUBSET Users
    BY <1>1, <1>3, <1>12 DEF Release, MainTypes
  <2>2. b \in Bots \union {None}
    BY <1>3, <2>1 DEF Records
  <2>3. MainTypes'
    BY <1>1, <2>1 DEF MainTypes, mainVars
  <2>4. CASE call' = [call EXCEPT ![r] = Idle] /\ UNCHANGED hostVars
    BY <1>1, <2>1, <2>3, <2>4, IdleCalls, OneCall, Still DEF Types
  <2>5. CASE /\ b \in Bots /\ mapped[b] # 0
             /\ mapped' = [mapped EXCEPT ![b] = 0]
             /\ host' = Closing(host, {mapped[b]})
             /\ call' = [call EXCEPT ![r].at = "closing", ![r].host = mapped[b]]
             /\ UNCHANGED pending
    <3>1. mapped[b] \in Hosts
      BY <1>1, <2>5 DEF HostTypes
    <3>2. /\ host' \in [Hosts -> HostStates]
          /\ \A i \in Hosts : host'[i].at = host[i].at
      BY <1>1, <2>5 DEF HostTypes, HostStates, Closing
    <3>3. Queueing(host', pending')
      <4>1. \A i \in 1..Len(pending) : pending[i] \in Hosts
        BY <1>1 DEF HostTypes, Queueing
      <4> QED
        BY <1>1, <2>5, <3>2, <4>1 DEF HostTypes, Queueing
    <3>4. HostTypes'
      BY <1>1, <2>5, <3>2, <3>3 DEF HostTypes
    <3>5. LET d == [[call[r] EXCEPT !.at = "closing"] EXCEPT !.host = mapped[b]]
          IN d \in Calls /\ Placed(d)
      BY <1>1, <1>2, <1>3, <1>4, <2>1, <3>1, Moved
    <3>6. call' = [call EXCEPT ![r] = [[call[r] EXCEPT !.at = "closing"] EXCEPT !.host = mapped[b]]]
      BY <2>5 DEF CallTypes
    <3>7. CallTypes'
      BY <1>1, <3>5, <3>6, OneCall
    <3> QED
      BY <1>1, <2>1, <2>3, <3>4, <3>7, Still DEF Types
  <2> QED
    BY <1>12, <2>2, <2>4, <2>5 DEF Release
<1>13. CASE Restore(r)
  <2>1. UNCHANGED <<storeVars, mainVars, turn, hostVars, history, used>>
    BY <1>13 DEF Restore
  <2>2. PICK u \in Users :
          /\ owned[u] # None
          /\ call' = [call EXCEPT ![r] = [Idle EXCEPT !.at = "turn", !.user = u, !.snap = owned[u]]]
          /\ owned' = [owned EXCEPT ![u] = None]
    BY <1>13 DEF Restore
  <2> DEFINE c == [Idle EXCEPT !.at = "turn", !.user = u, !.snap = owned[u]]
  <2>3. owned[u] \in Records /\ owned' \in Files
    BY <1>1, <2>2 DEF MainTypes, Files
  <2>4. /\ c \in Calls /\ c.at = "turn" /\ c.user = u /\ c.snap = owned[u] /\ c.kind = "none"
    BY <2>3, IdleCalls DEF Calls, Steps, TurnSteps, Idle
  <2>5. Placed(c)
    <3> HIDE DEF c
    <3> QED
      BY <2>3, <2>4 DEF Placed
  <2>6. CallTypes'
    BY <1>1, <2>2, <2>4, <2>5, OneCall
  <2>7. MainTypes'
    BY <1>1, <2>1, <2>3 DEF MainTypes, mainVars, history
  <2> QED
    BY <1>1, <2>1, <2>6, <2>7, Still DEF Types
<1> QED
  BY <1>8, <1>9, <1>10, <1>11, <1>12, <1>13

(* The steps of main.                                                       *)
LEMMA MainTypesKept ==
  ASSUME Types, Boot \/ Serve \/ ServeUnlisted \/ Stop \/ AllClosed \/ Exit \/ Crash,
         phase \in {"new", "down"} => pending = <<>> /\ \A h \in Hosts : host[h].at = "none"
  PROVE  Types' /\ Contents' = Contents
<1>1. StoreTypeOK /\ CallTypes /\ HostTypes /\ MainTypes
  BY DEF Types
<1>2. NobodyYet \in Files /\ Contents \in Files
  BY <1>1, ContentsFacts, RecordsAreAccounts DEF StoreTypeOK
<1>3. CASE Boot
  <2> DEFINE hs == [host EXCEPT ![1] = [bot |-> Primary, at |-> "queued", closing |-> FALSE]]
  <2>1. /\ phase \in {"new", "down"} /\ phase' = "starting"
        /\ mapped' = [mapped EXCEPT ![Primary] = 1]
        /\ Drained(hs, Append(pending, 1))
        /\ UNCHANGED <<storeVars, awaited, call, owned, turn, history>>
        /\ UNCHANGED used \/ Spend("troubles", MaxTroubles)
    BY <1>3 DEF Boot, Submit
  <2>2. 1 \in Hosts /\ Primary \in Bots
    BY FleetAssumption DEF Hosts, Bots
  <2>3. /\ hs \in [Hosts -> HostStates] /\ hs[1].at = "queued"
        /\ \A i \in Hosts \ {1} : hs[i] = host[i]
    BY <1>1, <2>2 DEF HostTypes, HostStates
  <2> HIDE DEF hs
  <2>4. Queueing(hs, Append(pending, 1))
    BY <1>1, <2>1, <2>2, <2>3, SubmitFacts DEF HostTypes
  <2>5. host' \in [Hosts -> HostStates] /\ Queueing(host', pending')
    BY <2>1, <2>3, <2>4, DrainedFacts
  <2>6. HostTypes'
    BY <1>1, <2>1, <2>2, <2>5 DEF HostTypes
  <2>7. MainTypes'
    BY <1>1, <2>1, SpendTypes DEF MainTypes, history
  <2> QED
    BY <1>1, <2>1, <2>6, <2>7, Still DEF Types
<1>4. CASE Serve
  <2>1. /\ ReadStore /\ phase' = "serving"
        /\ UNCHANGED <<awaited, call, turn, hostVars, history, used>>
        /\ owned' = OwnedNow
    BY <1>4 DEF Serve
  <2>2. owned' \in Files
    BY <1>2, <2>1 DEF Files, OwnedNow
  <2>3. MainTypes'
    BY <1>1, <2>1, <2>2 DEF MainTypes, history
  <2> QED
    <3>1. StoreTypeOK' /\ Contents' = Contents
      BY <1>1, <2>1, ReadingKeepsContents DEF ReadStore, StoreTypeOK
    <3> QED
      BY <1>1, <2>1, <2>3, <3>1, Still DEF Types
<1>5. CASE Stop
  <2>1. /\ phase' = "closing" /\ awaited' = {mapped[b] : b \in Bots} \ {0}
        /\ host' = Closing(host, awaited') /\ mapped' = [b \in Bots |-> 0]
        /\ UNCHANGED <<storeVars, call, owned, turn, pending, history, used>>
    BY <1>5 DEF Stop
  <2>2. awaited' \in SUBSET Hosts
    BY <1>1, <2>1 DEF HostTypes
  <2>3. /\ host' \in [Hosts -> HostStates]
        /\ \A i \in Hosts : host'[i].at = host[i].at
    BY <1>1, <2>1 DEF HostTypes, HostStates, Closing
  <2>4. Queueing(host', pending')
    <3>1. \A i \in 1..Len(pending) : pending[i] \in Hosts
      BY <1>1 DEF HostTypes, Queueing
    <3> QED
      BY <1>1, <2>1, <2>3, <3>1 DEF HostTypes, Queueing
  <2>5. HostTypes'
    BY <2>1, <2>3, <2>4 DEF HostTypes
  <2>6. MainTypes'
    BY <1>1, <2>1, <2>2 DEF MainTypes, history
  <2> QED
    BY <1>1, <2>1, <2>5, <2>6, Still DEF Types
<1>6. CASE ServeUnlisted
  <2>1. /\ phase' = "serving" /\ unlucky' \in SUBSET Users
        /\ UNCHANGED <<storeVars, awaited, call, owned, turn, hostVars, astray>>
        /\ Spend("troubles", MaxTroubles)
    BY <1>1, <1>6 DEF ServeUnlisted, MainTypes
  <2>2. MainTypes'
    BY <1>1, <2>1, SpendTypes DEF MainTypes
  <2> QED
    BY <1>1, <2>1, <2>2, Still DEF Types
<1>7. CASE AllClosed
  <2>1. phase' = "draining" /\ UNCHANGED <<storeVars, awaited, call, owned, turn, hostVars, history, used>>
    BY <1>7 DEF AllClosed
  <2>2. MainTypes'
    BY <1>1, <2>1 DEF MainTypes, history
  <2> QED
    BY <1>1, <2>1, <2>2, Still DEF Types
<1>8. CASE Gone
  <2>1. CallTypes'
    BY <1>8, IdleCalls DEF Gone, CallTypes
  <2>2. StoreTypeOK' /\ Contents' = Contents
    BY <1>1, <1>8 DEF Gone, StoreTypeOK, Contents
  <2>3. HostTypes'
    <3>1. NoHost \in HostStates
      BY DEF NoHost, HostStates
    <3>2. Queueing(host', <<>>)
      BY EmptySeq DEF Queueing
    <3> QED
      BY <1>8, <3>1, <3>2 DEF Gone, HostTypes
  <2>4. MainTypes'
    BY <1>1, <1>2, <1>8 DEF Gone, MainTypes
  <2> QED
    BY <2>1, <2>2, <2>3, <2>4 DEF Types
<1> QED
  BY <1>3, <1>4, <1>5, <1>6, <1>7, <1>8 DEF Exit, Crash

------------------------------------------------------------------------------
(* The inductive invariant.                                                 *)

(* Only who #assigning has let in is in #resolve.                           *)
Turned == \A p \in Procs : call[p].at \in TurnSteps => turn = p

(* One mutate at a time, between its read and its write.                    *)
Drafting ==
  /\ \A p \in Procs : draft[p] = None <=> call[p].at \notin {"write", "binding"}
  /\ \A p, q \in Procs : draft[p] # None /\ draft[q] # None => p = q

(* Who is being assigned bot b has none, and nobody else has b.             *)
Assigned(p) ==
  /\ call[p].at \in {"assign", "bind"} =>
       Contents[call[p].user] = None \/ Contents[call[p].user].bot = None
  /\ call[p].at = "bind" =>
       /\ call[p].bot \in {Primary, call[p].user}
       /\ \A v \in Users \ {call[p].user} : Contents[v] # None => Contents[v].bot # call[p].bot

(* The accounts are proper, and what a mutate is about to write is a change *)
(* of them as Accounts has it.                                              *)
Accounted ==
  /\ Proper(Contents) /\ First \in issued
  /\ \A u \in Users : Contents[u] # None => u \in issued
  /\ \A p \in Procs : draft[p] # None =>
       /\ Becomes(Contents, draft[p])
       /\ \A u \in Users : draft[p][u] # None => u \in issued
       /\ call[p].at = "write" => KeepsBots(Contents, draft[p])
  /\ \A p \in Procs : Assigned(p)

(* The registry routes to every host that does not close.                   *)
Hosted ==
  /\ \A h \in Hosts : host[h].at # "none" =>
       host[h].bot \in Bots /\ (~host[h].closing => mapped[host[h].bot] = h)
  /\ \A p \in Procs : call[p].at = "config" => mapped[call[p].bot] = 0
  /\ phase \in {"new", "down"} =>
       /\ pending = <<>> /\ \A h \in Hosts : host[h].at = "none"
       /\ \A p \in Procs : call[p].at = "idle"

Inv == Types /\ Turned /\ Drafting /\ Accounted /\ Hosted

(* A step that leaves the accounts and the mutates alone, and brings nobody *)
(* to a mutate or an assignment.                                            *)
LEMMA Aside ==
  ASSUME Drafting, Accounted, Contents' = Contents, UNCHANGED <<draft, issued>>,
         \A p \in Procs : \/ call'[p] = call[p]
                          \/ /\ call[p].at \notin {"write", "binding"}
                             /\ call'[p].at \notin {"write", "binding", "assign", "bind"}
  PROVE  Drafting' /\ Accounted'
<1>1. Drafting'
  BY DEF Drafting
<1>2. \A p \in Procs : Assigned(p)'
  BY DEF Accounted, Assigned
<1>3. \A p \in Procs : call'[p].at = "write" => call[p].at = "write"
  OBVIOUS
<1> QED
  BY <1>1, <1>2, <1>3 DEF Accounted

(* A mutate begins.                                                         *)
LEMMA Begins ==
  ASSUME StoreTypeOK, Drafting, Accounted, NEW p \in Procs, NEW new \in Files, Exclusive,
         Contents' = Contents, draft' = [draft EXCEPT ![p] = new], issued \subseteq issued',
         call'[p].at \in {"write", "binding"}, \A q \in Procs \ {p} : call'[q] = call[q],
         Becomes(Contents, new), \A u \in Users : new[u] # None => u \in issued',
         call'[p].at = "write" => KeepsBots(Contents, new)
  PROVE  Drafting' /\ Accounted'
<1>1. new # None
  BY StoreAssumption
<1>2. draft'[p] = new /\ \A q \in Procs \ {p} : draft'[q] = None /\ draft[q] = None
  BY DEF StoreTypeOK, Exclusive
<1>3. Drafting'
  BY <1>1, <1>2 DEF Drafting
<1>4. \A q \in Procs : Assigned(q)'
  <2>1. Assigned(p)'
    BY DEF Assigned
  <2>2. \A q \in Procs \ {p} : Assigned(q)'
    BY DEF Accounted, Assigned
  <2> QED
    BY <2>1, <2>2
<1>5. ASSUME NEW q \in Procs, draft'[q] # None
      PROVE  /\ Becomes(Contents', draft'[q])
             /\ \A u \in Users : draft'[q][u] # None => u \in issued'
             /\ call'[q].at = "write" => KeepsBots(Contents', draft'[q])
  BY <1>2, <1>5
<1>6. /\ Proper(Contents)' /\ (First \in issued)'
      /\ \A u \in Users : Contents'[u] # None => u \in issued'
  BY DEF Accounted, Proper
<1> QED
  BY <1>3, <1>4, <1>5, <1>6 DEF Accounted, Becomes, KeepsBots, Allowed, Proper

(* A mutate ends, with its write or without.                                *)
LEMMA Ends ==
  ASSUME StoreTypeOK, CallTypes, Turned, Drafting, Accounted, NEW p \in Procs,
         call[p].at \in {"write", "binding"}, draft' = [draft EXCEPT ![p] = None],
         Contents' = Contents \/ Contents' = draft[p], UNCHANGED issued,
         call'[p].at \notin {"write", "binding", "assign", "bind"},
         \A q \in Procs \ {p} : call'[q] = call[q]
  PROVE  Drafting' /\ Accounted'
<1>1. draft[p] # None /\ \A q \in Procs \ {p} : draft[q] = None /\ draft'[q] = None
  BY DEF Drafting, StoreTypeOK
<1>2. draft'[p] = None
  BY DEF StoreTypeOK
<1>3. Drafting'
  BY <1>1, <1>2 DEF Drafting
<1>4. /\ Becomes(Contents, draft[p])
      /\ \A u \in Users : draft[p][u] # None => u \in issued
      /\ call[p].at = "write" => KeepsBots(Contents, draft[p])
  BY <1>1 DEF Accounted
<1>5. /\ Proper(Contents') /\ First \in issued'
      /\ \A u \in Users : Contents'[u] # None => u \in issued'
  BY <1>4 DEF Accounted, Becomes
<1>6. ASSUME NEW q \in Procs \ {p} PROVE Assigned(q)'
  <2>1. Assigned(q) /\ call'[q] = call[q]
    BY DEF Accounted
  <2>2. CASE Contents' = Contents
    BY <2>1, <2>2 DEF Assigned
  <2>3. CASE Contents' = draft[p] /\ call[p].at = "write"
    <3>1. \A u \in Users : Contents'[u] # None =>
            Contents'[u].bot = IF Contents[u] = None THEN None ELSE Contents[u].bot
      BY <1>4, <2>3 DEF KeepsBots
    <3>2. call[q].at \in {"assign", "bind"} => call[q].user \in Users
      BY DEF CallTypes, Placed
    <3>3. call[q].at = "bind" => call[q].bot # None
      BY RecordsAreAccounts DEF CallTypes, Placed
    <3> QED
      BY <2>1, <3>1, <3>2, <3>3 DEF Assigned
  <2>4. CASE call[p].at = "binding"
    <3>1. call[q].at \notin {"assign", "bind"}
      BY <2>4 DEF Turned, TurnSteps
    <3> QED
      BY <2>1, <3>1 DEF Assigned
  <2> QED
    BY <2>2, <2>3, <2>4
<1>7. Assigned(p)'
  BY DEF Assigned
<1>8. \A q \in Procs : draft'[q] = None
  BY <1>1, <1>2
<1> QED
  BY <1>3, <1>5, <1>6, <1>7, <1>8 DEF Accounted

(* A step that moves no host keeps them routed to.                          *)
LEMMA HostsStay ==
  ASSUME Hosted, UNCHANGED hostVars,
         \A p \in Procs : call'[p].at = "config" => \/ call'[p] = call[p]
                                                    \/ mapped[call'[p].bot] = 0,
         phase' \in {"new", "down"} => phase' = phase,
         phase \in {"new", "down"} => \A p \in Procs : call'[p].at = "idle"
  PROVE  Hosted'
BY DEF Hosted, hostVars

(* What has been written is what is read next.                              *)
LEMMA WrittenIsRead ==
  ASSUME NEW new \in Files, Proper(new), file' = new
  PROVE  Contents' = new
<1>1. new # NobodyYet
  BY DEF Proper, NobodyYet
<1> QED
  BY <1>1 DEF Contents

(* The accounts stay, or change as Accounts has it.                         *)
Changes == Contents' = Contents \/ Becomes(Contents, Contents')

(* The steps of a host keep the invariant.                                  *)
LEMMA HostKeeps ==
  ASSUME Inv, NEW h \in Hosts, HostReady(h) \/ HostCloses(h)
  PROVE  Inv' /\ Changes
<1>1. Types' /\ Contents' = Contents
  BY HostTypesKept DEF Inv
<1>2. \A i \in Hosts : /\ host'[i].at # "none" => host[i].at # "none"
                       /\ host'[i].at # "none" => /\ host'[i].bot = host[i].bot
                                                  /\ host'[i].closing = host[i].closing
  BY HostTypesKept DEF Inv
<1>3. /\ UNCHANGED <<draft, issued, turn, mapped, phase>>
      /\ host[h].at # "none"
  BY DEF HostReady, HostCloses, storeVars, mainVars
<1>4. \A p \in Procs : \/ call'[p] = call[p]
                       \/ /\ call[p].at \in {"await", "closing"}
                          /\ call'[p].at \in {"idle", "act"}
  <2>1. PICK waits \in SUBSET {"await", "closing"} : Settled(waits, h)
    BY DEF HostReady, HostCloses
  <2>2. \A p \in Procs : call[p] \in Calls
    BY DEF Inv, Types, CallTypes
  <2>3. \A p \in Procs : \/ call'[p] = call[p]
                         \/ call[p].at \in waits /\ call'[p] \in {Onward(call[p]), Idle}
    BY <2>1 DEF Settled
  <2>4. \A c \in Calls : Onward(c).at \in {"idle", "act"}
    BY DEF Onward, Calls
  <2> QED
    BY <2>2, <2>3, <2>4, IdleCalls
<1>5. Turned'
  BY <1>3, <1>4 DEF Inv, Turned, TurnSteps
<1>6. Drafting' /\ Accounted'
  <2>1. \A p \in Procs : \/ call'[p] = call[p]
                         \/ /\ call[p].at \notin {"write", "binding"}
                            /\ call'[p].at \notin {"write", "binding", "assign", "bind"}
    BY <1>4
  <2> QED
    BY <1>1, <1>3, <2>1, Aside DEF Inv
<1>7. Hosted'
  <2>1. phase \notin {"new", "down"}
    BY <1>3 DEF Inv, Hosted
  <2> QED
    BY <1>2, <1>3, <1>4, <2>1 DEF Inv, Hosted
<1> QED
  BY <1>1, <1>5, <1>6, <1>7 DEF Inv, Changes

(* Where #resolve ends, and where it fails.                                 *)
LEMMA LookUpMoves ==
  ASSUME CallTypes, HostTypes, NEW p \in Procs, NEW b \in Bots, LookUp(p, b)
  PROVE  /\ \A q \in Procs \ {p} : call'[q] = call[q]
         /\ call'[p].at \in {"config", "await", "act", "idle"}
         /\ call'[p].at = "config" => mapped[call'[p].bot] = 0 /\ turn' = p
         /\ call'[p].at # "config" => turn' = None
<1>1. call \in [Procs -> Calls] /\ call[p] \in Calls
  BY DEF CallTypes
<1>2. CASE mapped[b] = 0
  <2>1. call' = [call EXCEPT ![p].at = "config", ![p].bot = b] /\ turn' = p
    BY <1>2 DEF LookUp
  <2>2. call'[p].at = "config" /\ call'[p].bot = b
    BY <1>1, <2>1 DEF Calls
  <2> QED
    BY <1>1, <1>2, <2>1, <2>2
<1>3. CASE mapped[b] # 0
  <2>1. /\ turn' = None
        /\ \/ call' = [call EXCEPT ![p] = [@ EXCEPT !.at = "await", !.bot = b, !.host = mapped[b]]]
           \/ call' = [call EXCEPT ![p] = [@ EXCEPT !.at = "act", !.bot = b]]
           \/ call' = [call EXCEPT ![p] = Idle]
    BY <1>3 DEF LookUp
  <2>2. CASE call' = [call EXCEPT ![p] = [@ EXCEPT !.at = "await", !.bot = b, !.host = mapped[b]]]
    <3>1. call'[p] = [call[p] EXCEPT !.at = "await", !.bot = b, !.host = mapped[b]]
      BY <1>1, <2>2
    <3>2. call'[p].at = "await"
      BY <1>1, <3>1 DEF Calls
    <3> QED
      BY <1>1, <2>1, <2>2, <3>2
  <2>3. CASE call' = [call EXCEPT ![p] = [@ EXCEPT !.at = "act", !.bot = b]]
    <3>1. call'[p] = [call[p] EXCEPT !.at = "act", !.bot = b]
      BY <1>1, <2>3
    <3>2. call'[p].at = "act"
      BY <1>1, <3>1 DEF Calls
    <3> QED
      BY <1>1, <2>1, <2>3, <3>2
  <2>4. CASE call' = [call EXCEPT ![p] = Idle]
    BY <1>1, <2>1, <2>4, IdleCalls
  <2> QED
    BY <2>1, <2>2, <2>3, <2>4
<1> QED
  BY <1>2, <1>3

(* The end of a failed #resolve.                                            *)
LEMMA FailsMoves ==
  ASSUME CallTypes, NEW p \in Procs, TurnFails(p)
  PROVE  /\ \A q \in Procs \ {p} : call'[q] = call[q]
         /\ call'[p].at \in {"idle", "dead"} /\ turn' = None
BY IdleCalls DEF CallTypes, TurnFails

(* The steps of #assigning keep the invariant.                              *)
LEMMA TurnKeeps ==
  ASSUME Inv, NEW p \in Procs,
         Resolve(p) \/ Assign(p) \/ Bind(p) \/ Bound(p) \/ MakeHost(p) \/ ResolveFails(p)
  PROVE  Inv' /\ Changes
<1>1. StoreTypeOK /\ CallTypes /\ HostTypes /\ MainTypes /\ call[p] \in Calls /\ Placed(call[p])
  BY DEF Inv, Types, CallTypes
<1>2. Turned /\ Drafting /\ Accounted /\ Hosted /\ Contents \in Files
  BY <1>1, ContentsFacts DEF Inv, StoreTypeOK
<1>3. call[p].at \in {"write", "binding"} =>
        /\ draft[p] # None /\ draft[p] \in Files /\ Becomes(Contents, draft[p])
  BY <1>2 DEF Drafting, Accounted, Becomes
<1>4. Types'
  BY <1>3, TurnTypes DEF Inv
<1>5. call[p].at \notin {"idle", "dead"} => call[p].user \in Users
  BY <1>1 DEF Placed
<1>6. phase \notin {"new", "down"} /\ phase' = phase
  <2>1. call[p].at # "idle"
    BY DEF Resolve, Assign, Bind, Bound, MakeHost, ResolveFails
  <2> QED
    BY <1>2, <2>1 DEF Hosted, Resolve, Assign, Bind, Bound, MakeHost, ResolveFails, mainVars
<1>7. CASE Resolve(p)
  <2> DEFINE current == IF Contents[call[p].user] # None THEN Contents[call[p].user] ELSE call[p].snap
  <2>1. /\ call[p].at = "turn" /\ turn = None /\ ReadStore /\ UNCHANGED hostVars
        /\ IF current.bot # None THEN LookUp(p, current.bot)
           ELSE /\ call' = [call EXCEPT ![p].at = "assign", ![p].snap = current]
                /\ turn' = p
    BY <1>7 DEF Resolve, TurnFree
  <2>2. Contents' = Contents /\ UNCHANGED <<draft, issued>>
    BY <1>1, <2>1, StoreTypes DEF ReadStore
  <2>3. \A q \in Procs : call[q].at \notin TurnSteps
    BY <1>2, <2>1, FleetAssumption DEF Turned
  <2>4. CASE current.bot # None
    <3>1. current.bot \in Bots
      BY <1>1, <1>2, <1>5, <2>1, <2>4 DEF Files, Records, Placed
    <3>2. /\ \A q \in Procs \ {p} : call'[q] = call[q]
          /\ call'[p].at \in {"config", "await", "act", "idle"}
          /\ call'[p].at = "config" => mapped[call'[p].bot] = 0 /\ turn' = p
          /\ call'[p].at # "config" => turn' = None
      BY <1>1, <2>1, <2>4, <3>1, LookUpMoves
    <3>3. Turned'
      BY <2>3, <3>2 DEF Turned, TurnSteps
    <3>4. Drafting' /\ Accounted'
      BY <1>2, <2>1, <2>2, <3>2, Aside
    <3>5. Hosted'
      BY <1>2, <1>6, <2>1, <3>2, HostsStay
    <3> QED
      BY <1>4, <2>2, <3>3, <3>4, <3>5 DEF Inv, Changes
  <2>5. CASE current.bot = None
    <3>1. /\ \A q \in Procs \ {p} : call'[q] = call[q]
          /\ call'[p].at = "assign" /\ call'[p].user = call[p].user /\ turn' = p
      <4>1. call' = [call EXCEPT ![p] = [call[p] EXCEPT !.at = "assign", !.snap = current]]
        BY <2>1, <2>5 DEF CallTypes
      <4> HIDE DEF current
      <4>2. turn' = p
        BY <2>1, <2>5
      <4> QED
        BY <1>1, <4>1, <4>2 DEF CallTypes, Calls
    <3>2. Turned'
      BY <2>3, <3>1 DEF Turned
    <3>3. Drafting'
      BY <1>2, <2>1, <2>2, <3>1 DEF Drafting
    <3>4. Contents[call[p].user] = None \/ Contents[call[p].user].bot = None
      BY <2>5
    <3>5. Accounted'
      <4>1. Assigned(p)'
        BY <2>2, <3>1, <3>4 DEF Assigned
      <4>2. \A q \in Procs \ {p} : Assigned(q)'
        BY <1>2, <2>2, <3>1 DEF Assigned, Accounted
      <4>3. \A q \in Procs : call'[q].at = "write" => call[q].at = "write"
        BY <3>1
      <4> QED
        BY <1>2, <2>2, <4>1, <4>2, <4>3 DEF Accounted
    <3>6. Hosted'
      BY <1>2, <1>6, <2>1, <3>1, HostsStay
    <3> QED
      BY <1>4, <2>2, <3>2, <3>3, <3>5, <3>6 DEF Inv, Changes
  <2> QED
    BY <2>4, <2>5
<1>8. CASE Assign(p)
  <2> DEFINE taken == \E v \in Users : Contents[v] # None /\ Contents[v].bot = Primary
             b == IF ~taken /\ MayClaimPrimary(call[p].user, call[p].snap)
                  THEN Primary ELSE call[p].user
  <2>1. /\ call[p].at = "assign" /\ ReadStore
        /\ UNCHANGED <<mainVars, owned, turn, hostVars, history, used>>
        /\ call' = [call EXCEPT ![p].at = "bind", ![p].bot = b]
    BY <1>8 DEF Assign
  <2>2. Contents' = Contents /\ UNCHANGED <<draft, issued>>
    BY <1>1, <2>1, StoreTypes DEF ReadStore
  <2>3. /\ \A q \in Procs \ {p} : call'[q] = call[q]
        /\ call'[p].at = "bind" /\ call'[p].user = call[p].user /\ call'[p].bot = b
    BY <1>1, <2>1 DEF CallTypes, Calls
  <2>4. /\ b \in {Primary, call[p].user} /\ call[p].user \in Users
        /\ b = Primary => ~taken
    BY <1>5, <2>1, StoreAssumption DEF Bots
  <2>5. \A v \in Users \ {call[p].user} : Contents[v] # None => Contents[v].bot # b
    <3>1. CASE b = Primary
      BY <2>4, <3>1
    <3>2. CASE b = call[p].user
      <4>1. \A v \in Users : Contents[v] # None => Contents[v].bot \in {None, Primary, v}
        BY <1>2 DEF Accounted, Proper
      <4> QED
        BY <2>4, <3>2, <4>1, StoreAssumption DEF Bots
    <3> HIDE DEF b
    <3> QED
      BY <2>4, <3>1, <3>2
  <2> HIDE DEF b
  <2>6. Turned'
    BY <1>2, <2>1, <2>3 DEF Turned, TurnSteps
  <2>7. Drafting'
    BY <1>2, <2>1, <2>2, <2>3 DEF Drafting
  <2>8. Accounted'
    <3>1. Assigned(p)'
      BY <1>2, <2>1, <2>2, <2>3, <2>4, <2>5 DEF Assigned, Accounted
    <3>2. \A q \in Procs \ {p} : Assigned(q)'
      BY <1>2, <2>2, <2>3 DEF Assigned, Accounted
    <3>3. \A q \in Procs : call'[q].at = "write" => call[q].at = "write"
      BY <2>3
    <3> QED
      BY <1>2, <2>2, <3>1, <3>2, <3>3 DEF Accounted
  <2>9. Hosted'
    BY <1>2, <1>6, <2>1, <2>3, HostsStay
  <2> QED
    BY <1>4, <2>2, <2>6, <2>7, <2>8, <2>9 DEF Inv, Changes
<1>9. CASE Bind(p)
  <2>1. call[p].at = "bind" /\ UNCHANGED hostVars
    BY <1>9 DEF Bind
  <2>2. CASE /\ SetBotId(p, call[p].user, call[p].bot)
             /\ call' = [call EXCEPT ![p].at = "binding"]
             /\ UNCHANGED turn
    <3> DEFINE new == [Contents EXCEPT ![call[p].user] =
                         [role |-> Contents[call[p].user].role, bot |-> call[p].bot]]
    <3>1. /\ \A q \in Procs \ {p} : call'[q] = call[q]
          /\ call'[p].at = "binding"
      BY <1>1, <2>2 DEF CallTypes, Calls
    <3>2. /\ Contents[call[p].user] # None /\ Contents[call[p].user].bot = None
          /\ call[p].bot \in {Primary, call[p].user}
          /\ \A v \in Users \ {call[p].user} : Contents[v] # None => Contents[v].bot # call[p].bot
      BY <1>2, <2>1, <2>2 DEF SetBotId, MaySetBotId, Accounted, Assigned
    <3>3. Becomes(Contents, new)
      BY <1>2, <1>5, <2>1, <3>2, SetBotIdIsProper DEF Accounted
    <3>4. new \in Files /\ \A u \in Users : new[u] # None => u \in issued
      <4>1. \A u \in Users : new[u] # None => Contents[u] # None
        BY <1>2, <3>2 DEF Files
      <4> QED
        BY <1>2, <3>3, <4>1 DEF Becomes, Accounted
    <3>5. Mutate(p, new) /\ UNCHANGED issued
      BY <2>2 DEF SetBotId
    <3> HIDE DEF new
    <3>6. Exclusive /\ Contents' = Contents /\ draft' = [draft EXCEPT ![p] = new]
      BY <1>1, <3>4, <3>5, StoreTypes DEF StoreTypeOK
    <3>7. Drafting' /\ Accounted'
      BY <1>1, <1>2, <3>1, <3>3, <3>4, <3>5, <3>6, Begins
    <3>8. Turned'
      BY <1>2, <2>1, <2>2, <3>1 DEF Turned, TurnSteps
    <3>9. Hosted'
      BY <1>2, <1>6, <2>1, <3>1, HostsStay
    <3> QED
      BY <1>4, <3>6, <3>7, <3>8, <3>9 DEF Inv, Changes
  <2>3. CASE ReadStore /\ TurnFails(p)
    <3>1. /\ \A q \in Procs \ {p} : call'[q] = call[q]
          /\ call'[p].at \in {"idle", "dead"} /\ turn' = None
      BY <1>1, <2>3, FailsMoves
    <3>2. Contents' = Contents /\ UNCHANGED <<draft, issued>>
      BY <1>1, <2>3, StoreTypes DEF ReadStore
    <3>3. Drafting' /\ Accounted'
      BY <1>2, <2>1, <3>1, <3>2, Aside
    <3>4. Turned'
      BY <1>2, <2>1, <3>1 DEF Turned, TurnSteps
    <3>5. Hosted'
      BY <1>2, <1>6, <2>1, <3>1, HostsStay
    <3> QED
      BY <1>4, <3>2, <3>3, <3>4, <3>5 DEF Inv, Changes
  <2> QED
    BY <1>9, <2>2, <2>3 DEF Bind
<1>10. CASE Bound(p)
  <2>1. call[p].at = "binding" /\ UNCHANGED hostVars /\ call[p].bot \in Bots
    BY <1>1, <1>10 DEF Bound, Placed
  <2>2. CASE Written(p) /\ LookUp(p, call[p].bot)
    <3>1. /\ \A q \in Procs \ {p} : call'[q] = call[q]
          /\ call'[p].at \in {"config", "await", "act", "idle"}
          /\ call'[p].at = "config" => mapped[call'[p].bot] = 0 /\ turn' = p
          /\ call'[p].at # "config" => turn' = None
      BY <1>1, <2>1, <2>2, LookUpMoves
    <3>2. file' = draft[p] /\ draft' = [draft EXCEPT ![p] = None] /\ UNCHANGED issued
      BY <2>2 DEF Written
    <3>3. Contents' = draft[p]
      BY <1>3, <2>1, <3>2, WrittenIsRead DEF Becomes
    <3>4. Drafting' /\ Accounted'
      BY <1>1, <1>2, <2>1, <3>1, <3>2, <3>3, Ends
    <3>5. Turned'
      BY <1>2, <2>1, <3>1 DEF Turned, TurnSteps
    <3>6. Hosted'
      BY <1>2, <1>6, <2>1, <3>1, HostsStay
    <3> QED
      BY <1>3, <1>4, <2>1, <3>3, <3>4, <3>5, <3>6 DEF Inv, Changes
  <2>3. CASE NotWritten(p) /\ TurnFails(p)
    <3>1. /\ \A q \in Procs \ {p} : call'[q] = call[q]
          /\ call'[p].at \in {"idle", "dead"} /\ turn' = None
      BY <1>1, <2>3, FailsMoves
    <3>2. Contents' = Contents /\ draft' = [draft EXCEPT ![p] = None] /\ UNCHANGED issued
      BY <1>1, <2>3, StoreTypes DEF NotWritten
    <3>3. Drafting' /\ Accounted'
      BY <1>1, <1>2, <2>1, <3>1, <3>2, Ends
    <3>4. Turned'
      BY <1>2, <2>1, <3>1 DEF Turned, TurnSteps
    <3>5. Hosted'
      BY <1>2, <1>6, <2>1, <3>1, HostsStay
    <3> QED
      BY <1>4, <3>2, <3>3, <3>4, <3>5 DEF Inv, Changes
  <2> QED
    BY <1>10, <2>2, <2>3 DEF Bound
<1>11. CASE MakeHost(p)
  <2>1. /\ call[p].at = "config" /\ turn' = None /\ UNCHANGED storeVars
        /\ call[p].bot \in Bots
    BY <1>1, <1>11 DEF MakeHost, Placed
  <2>2. PICK h \in Hosts :
          /\ host[h].at = "none"
          /\ mapped' = [mapped EXCEPT ![call[p].bot] = h]
          /\ Submit([host EXCEPT ![h] = [bot |-> call[p].bot, at |-> "queued", closing |-> FALSE]], h)
          /\ call' = [call EXCEPT ![p].at = "await", ![p].host = h]
    BY <1>11 DEF MakeHost
  <2> DEFINE hs == [host EXCEPT ![h] = [bot |-> call[p].bot, at |-> "queued", closing |-> FALSE]]
  <2>3. /\ hs \in [Hosts -> HostStates] /\ hs[h].at = "queued" /\ hs[h].bot = call[p].bot
        /\ \A i \in Hosts \ {h} : hs[i] = host[i]
    BY <1>1, <2>1 DEF HostTypes, HostStates
  <2>4. Drained(hs, Append(pending, h))
    BY <2>2 DEF Submit
  <2> HIDE DEF hs
  <2>5. \A i \in Hosts : /\ host'[i].bot = hs[i].bot /\ host'[i].closing = hs[i].closing
                         /\ (host'[i].at = "none") = (hs[i].at = "none")
    BY <1>1, <2>2, <2>3, <2>4, SubmitFacts, DrainedFacts DEF HostTypes
  <2>6. /\ \A q \in Procs \ {p} : call'[q] = call[q]
        /\ call'[p].at = "await"
    BY <1>1, <2>2 DEF CallTypes, Calls
  <2>7. mapped[call[p].bot] = 0
    BY <1>2, <2>1 DEF Hosted
  <2>8. \A q \in Procs \ {p} : call[q].at \notin TurnSteps
    BY <1>2, <2>1 DEF Turned, TurnSteps
  <2>9. Hosted'
    <3>1. mapped'[call[p].bot] = h /\ \A b \in Bots \ {call[p].bot} : mapped'[b] = mapped[b]
      BY <1>1, <2>1, <2>2 DEF HostTypes
    <3>2. ASSUME NEW i \in Hosts, host'[i].at # "none"
          PROVE  host'[i].bot \in Bots /\ (~host'[i].closing => mapped'[host'[i].bot] = i)
      <4>1. CASE i = h
        BY <2>1, <2>3, <2>5, <3>1, <4>1
      <4>2. CASE i # h
        <5>1. /\ host[i].at # "none" /\ host'[i].bot = host[i].bot
              /\ host'[i].closing = host[i].closing
          BY <2>3, <2>5, <3>2, <4>2
        <5>2. ~host[i].closing => mapped[host[i].bot] = i /\ i # 0
          BY <1>2, <5>1 DEF Hosted, Hosts
        <5> QED
          BY <1>2, <2>7, <3>1, <5>1, <5>2 DEF Hosted
      <4> QED
        BY <4>1, <4>2
    <3>3. \A q \in Procs : call'[q].at # "config"
      BY <2>6, <2>8 DEF TurnSteps
    <3> QED
      BY <1>6, <3>2, <3>3 DEF Hosted
  <2>10. Turned'
    BY <2>6, <2>8 DEF Turned, TurnSteps
  <2>11. Contents' = Contents /\ UNCHANGED <<draft, issued>>
    BY <1>1, <2>1, Still DEF storeVars
  <2>12. Drafting' /\ Accounted'
    BY <1>2, <2>1, <2>6, <2>11, Aside
  <2> QED
    BY <1>4, <2>9, <2>10, <2>11, <2>12 DEF Inv, Changes
<1>12. CASE ResolveFails(p)
  <2>1. /\ call[p].at \in {"turn", "assign", "bind", "config"}
        /\ call[p].at = "turn" => turn = None
        /\ TurnFails(p) /\ UNCHANGED storeVars /\ UNCHANGED hostVars
    BY <1>12 DEF ResolveFails, TurnFree
  <2>2. /\ \A q \in Procs \ {p} : call'[q] = call[q]
        /\ call'[p].at \in {"idle", "dead"} /\ turn' = None
    BY <1>1, <2>1, FailsMoves
  <2>3. Contents' = Contents /\ UNCHANGED <<draft, issued>>
    BY <1>1, <2>1, Still DEF storeVars
  <2>4. Drafting' /\ Accounted'
    BY <1>2, <2>1, <2>2, <2>3, Aside
  <2>5. Turned'
    BY <1>2, <2>1, <2>2 DEF Turned, TurnSteps
  <2>6. Hosted'
    BY <1>2, <1>6, <2>1, <2>2, HostsStay
  <2> QED
    BY <1>4, <2>3, <2>4, <2>5, <2>6 DEF Inv, Changes
<1> QED
  BY <1>7, <1>8, <1>9, <1>10, <1>11, <1>12

(* The steps of a request, and of the restore, keep the invariant.          *)
LEMMA RequestKeeps ==
  ASSUME Inv, NEW r \in Procs,
         Enter(r) \/ Act(r) \/ Change(r) \/ Changed(r) \/ Release(r) \/ Restore(r)
  PROVE  Inv' /\ Changes
<1>1. StoreTypeOK /\ CallTypes /\ HostTypes /\ MainTypes /\ call[r] \in Calls /\ Placed(call[r])
  BY DEF Inv, Types, CallTypes
<1>2. Turned /\ Drafting /\ Accounted /\ Hosted /\ Contents \in Files
  BY <1>1, ContentsFacts DEF Inv, StoreTypeOK
<1>3. call[r].at = "write" =>
        /\ draft[r] # None /\ draft[r] \in Files /\ Becomes(Contents, draft[r])
  BY <1>2 DEF Drafting, Accounted, Becomes
<1>4. Types'
  BY <1>3, RequestTypes DEF Inv
<1>5. /\ call[r].at \in {"role", "remove", "write", "release"} => call[r].kind # "none"
      /\ call[r].kind # "none" => call[r].on \in Users
      /\ call[r].role \in Roles
  BY <1>1 DEF Placed, Calls
<1>6. /\ phase \notin {"new", "down"} /\ phase' = phase
      /\ call[r].at \in {"idle", "act", "role", "remove", "write", "release"}
      /\ UNCHANGED turn
  <2>1. CASE Enter(r)
    BY <2>1 DEF Enter, mainVars
  <2>2. CASE Restore(r)
    BY <2>2 DEF Restore, mainVars
  <2>3. CASE Act(r) \/ Change(r) \/ Changed(r) \/ Release(r)
    BY <1>2, <2>3 DEF Act, Change, Changed, Release, Hosted, mainVars
  <2> QED
    BY <2>1, <2>2, <2>3
<1>7. ASSUME call'[r].at \in {"idle", "turn", "role", "remove", "release", "closing"},
             \A q \in Procs \ {r} : call'[q] = call[q]
      PROVE  Turned' /\ (UNCHANGED hostVars => Hosted')
  BY <1>2, <1>6, <1>7, HostsStay DEF Turned, TurnSteps
<1>8. ASSUME call[r].at # "write", Contents' = Contents, UNCHANGED <<draft, issued>>,
             UNCHANGED hostVars,
             call'[r].at \in {"idle", "turn", "role", "remove"},
             \A q \in Procs \ {r} : call'[q] = call[q]
      PROVE  Inv' /\ Changes
  <2>1. Drafting' /\ Accounted'
    BY <1>2, <1>6, <1>8, Aside
  <2> QED
    BY <1>4, <1>7, <1>8, <2>1 DEF Inv, Changes
<1>9. ASSUME NEW new \in Files, call[r].at # "write", Mutate(r, new), At(r, "write"),
             issued' \in SUBSET Users, issued \subseteq issued', UNCHANGED hostVars,
             Becomes(Contents, new), KeepsBots(Contents, new),
             \A u \in Users : new[u] # None => u \in issued'
      PROVE  Inv' /\ Changes
  <2>1. call'[r].at = "write" /\ \A q \in Procs \ {r} : call'[q] = call[q]
    BY <1>1, <1>9 DEF At, CallTypes, Calls
  <2>2. Contents' = Contents /\ Exclusive /\ draft' = [draft EXCEPT ![r] = new]
    BY <1>1, <1>9, StoreTypes
  <2>3. Drafting' /\ Accounted'
    BY <1>1, <1>2, <1>9, <2>1, <2>2, Begins
  <2>4. Turned'
    BY <1>2, <1>6, <2>1 DEF Turned, TurnSteps
  <2>5. Hosted'
    BY <1>2, <1>6, <1>9, <2>1, HostsStay
  <2> QED
    BY <1>4, <2>2, <2>3, <2>4, <2>5 DEF Inv, Changes
<1>10. ASSUME Answered(r)
       PROVE  call'[r].at = "idle" /\ \A q \in Procs \ {r} : call'[q] = call[q]
  BY <1>1, <1>10, IdleCalls DEF Answered, CallTypes
<1>11. ASSUME NEW at \in Steps, At(r, at)
       PROVE  call'[r].at = at /\ \A q \in Procs \ {r} : call'[q] = call[q]
  BY <1>1, <1>11 DEF At, CallTypes, Calls
<1>12. ReadStore => Contents' = Contents /\ UNCHANGED <<draft, issued>>
  BY <1>1, StoreTypes DEF ReadStore
<1>13. UNCHANGED storeVars => Contents' = Contents /\ UNCHANGED <<draft, issued>>
  BY <1>1, Still DEF storeVars
<1>14. {"write", "role", "remove", "release"} \subseteq Steps
  BY DEF Steps
<1>15. CASE Enter(r)
  <2>1. ReadStore /\ UNCHANGED hostVars /\ call[r].at = "idle"
    BY <1>15 DEF Enter
  <2>2. call'[r].at = "turn" /\ \A q \in Procs \ {r} : call'[q] = call[q]
    <3>1. PICK u \in issued, kind \in Kinds :
            \E v \in On(kind), role \in IF kind \in {"create", "put"} THEN Roles ELSE {"user"} :
              call' = [call EXCEPT ![r] = [Idle EXCEPT !.at = "turn", !.user = u, !.snap = Contents[u],
                                                       !.kind = kind, !.on = v, !.role = role]]
      BY <1>15 DEF Enter
    <3>2. PICK v \in On(kind) :
            \E role \in IF kind \in {"create", "put"} THEN Roles ELSE {"user"} :
              call' = [call EXCEPT ![r] = [Idle EXCEPT !.at = "turn", !.user = u, !.snap = Contents[u],
                                                       !.kind = kind, !.on = v, !.role = role]]
      BY <3>1
    <3> QED
      BY <1>1, <3>2 DEF CallTypes, Idle
  <2> QED
    BY <1>8, <1>12, <2>1, <2>2
<1>16. CASE Restore(r)
  <2>1. UNCHANGED storeVars /\ UNCHANGED hostVars /\ call[r].at = "idle"
    BY <1>16 DEF Restore
  <2>2. PICK u \in Users :
          call' = [call EXCEPT ![r] = [Idle EXCEPT !.at = "turn", !.user = u, !.snap = owned[u]]]
    BY <1>16 DEF Restore
  <2>3. call'[r].at = "turn" /\ \A q \in Procs \ {r} : call'[q] = call[q]
    BY <1>1, <2>2 DEF CallTypes, Idle
  <2> QED
    BY <1>8, <1>13, <2>1, <2>3
<1>17. CASE Act(r)
  <2>1. call[r].at = "act" /\ UNCHANGED hostVars
    BY <1>17 DEF Act
  <2>2. CASE call[r].kind = "none" /\ Answered(r) /\ UNCHANGED storeVars
    BY <1>8, <1>10, <1>13, <2>1, <2>2
  <2>3. CASE call[r].kind = "create" /\ Create(r, call[r].on, call[r].role) /\ At(r, "write")
    <3> DEFINE new == [Contents EXCEPT ![call[r].on] = [role |-> call[r].role, bot |-> None]]
    <3>1. /\ call[r].on \in Users /\ call[r].on \notin issued
          /\ issued' = issued \union {call[r].on} /\ Mutate(r, new)
      BY <1>5, <2>3 DEF Create
    <3>2. Contents[call[r].on] = None
      BY <1>2, <3>1 DEF Accounted
    <3>3. Becomes(Contents, new) /\ KeepsBots(Contents, new)
      BY <1>2, <1>5, <3>1, <3>2, CreateIsProper DEF Accounted
    <3>4. \A u \in Users : new[u] # None => u \in issued'
      BY <1>2, <3>1 DEF Accounted, Files
    <3>5. issued' \in SUBSET Users /\ issued \subseteq issued'
      BY <1>1, <3>1 DEF StoreTypeOK
    <3> HIDE DEF new
    <3>6. new \in Files
      BY <3>3 DEF Becomes
    <3> QED
      BY <1>9, <2>1, <2>3, <3>1, <3>3, <3>4, <3>5, <3>6
  <2>4. CASE ReadStore /\ Answered(r)
    BY <1>8, <1>10, <1>12, <2>1, <2>4
  <2>5. CASE At(r, "role") /\ UNCHANGED storeVars
    BY <1>8, <1>11, <1>13, <1>14, <2>1, <2>5
  <2>6. CASE /\ ReadStore
             /\ call' = [call EXCEPT ![r].at = "remove", ![r].target = Contents[call[r].on]]
    <3>1. call'[r].at = "remove" /\ \A q \in Procs \ {r} : call'[q] = call[q]
      BY <1>1, <2>6 DEF CallTypes, Calls
    <3> QED
      BY <1>8, <1>12, <2>1, <2>6, <3>1
  <2> QED
    BY <1>17, <2>2, <2>3, <2>4, <2>5, <2>6 DEF Act
<1>18. CASE Change(r)
  <2>1. call[r].at \in {"role", "remove"} /\ UNCHANGED hostVars
    BY <1>18 DEF Change
  <2>2. CASE SetRole(r, call[r].on, call[r].role) /\ At(r, "write")
    <3> DEFINE new == [Contents EXCEPT ![call[r].on] =
                         [role |-> call[r].role, bot |-> Contents[call[r].on].bot]]
    <3>1. /\ call[r].on \in Users /\ Contents[call[r].on] # None
          /\ UNCHANGED issued /\ Mutate(r, new)
      BY <1>5, <2>1, <2>2 DEF SetRole, MaySetRole
    <3>2. Becomes(Contents, new) /\ KeepsBots(Contents, new)
      BY <1>2, <1>5, <2>2, <3>1, SetRoleIsProper DEF Accounted, SetRole, MaySetRole
    <3>3. \A u \in Users : new[u] # None => u \in issued'
      BY <1>2, <3>1 DEF Accounted, Files
    <3> HIDE DEF new
    <3>4. new \in Files
      BY <3>2 DEF Becomes
    <3> QED
      BY <1>1, <1>9, <2>1, <2>2, <3>1, <3>2, <3>3, <3>4 DEF StoreTypeOK
  <2>3. CASE ReadStore /\ Answered(r)
    BY <1>8, <1>10, <1>12, <2>1, <2>3
  <2>4. CASE Remove(r, call[r].on) /\ At(r, "write")
    <3> DEFINE new == [Contents EXCEPT ![call[r].on] = None]
    <3>1. /\ call[r].on \in Users /\ Contents[call[r].on] # None
          /\ UNCHANGED issued /\ Mutate(r, new)
      BY <1>5, <2>1, <2>4 DEF Remove, MayRemove
    <3>2. Becomes(Contents, new) /\ KeepsBots(Contents, new)
      BY <1>2, <2>4, <3>1, RemoveIsProper DEF Accounted, Remove, MayRemove
    <3>3. \A u \in Users : new[u] # None => u \in issued'
      BY <1>2, <3>1 DEF Accounted, Files
    <3> HIDE DEF new
    <3>4. new \in Files
      BY <3>2 DEF Becomes
    <3> QED
      BY <1>1, <1>9, <2>1, <2>4, <3>1, <3>2, <3>3, <3>4 DEF StoreTypeOK
  <2> QED
    BY <1>18, <2>2, <2>3, <2>4 DEF Change
<1>19. CASE Changed(r)
  <2>1. call[r].at = "write" /\ UNCHANGED hostVars
    BY <1>19 DEF Changed
  <2>2. /\ call'[r].at \in {"idle", "release"} /\ \A q \in Procs \ {r} : call'[q] = call[q]
    BY <1>10, <1>11, <1>14, <1>19 DEF Changed
  <2>3. /\ draft' = [draft EXCEPT ![r] = None] /\ UNCHANGED issued
        /\ Contents' = Contents \/ Contents' = draft[r]
    <3>1. CASE Written(r)
      BY <1>3, <2>1, <3>1, WrittenIsRead DEF Written, Becomes
    <3>2. CASE NotWritten(r)
      BY <1>1, <3>2, StoreTypes DEF NotWritten
    <3> QED
      BY <1>19, <3>1, <3>2 DEF Changed
  <2>4. Drafting' /\ Accounted'
    BY <1>1, <1>2, <2>1, <2>2, <2>3, Ends
  <2>5. Turned' /\ Hosted'
    BY <1>7, <2>1, <2>2
  <2> QED
    BY <1>3, <1>4, <2>1, <2>3, <2>4, <2>5 DEF Inv, Changes
<1>20. CASE Release(r)
  <2> DEFINE b == call[r].target.bot
  <2>1. call[r].at = "release" /\ UNCHANGED storeVars
    BY <1>20 DEF Release
  <2>2. CASE call' = [call EXCEPT ![r] = Idle] /\ UNCHANGED hostVars
    BY <1>8, <1>10, <1>13, <2>1, <2>2 DEF Answered
  <2>3. CASE /\ mapped' = [mapped EXCEPT ![b] = 0]
             /\ host' = Closing(host, {mapped[b]})
             /\ call' = [call EXCEPT ![r].at = "closing", ![r].host = mapped[b]]
    <3>1. call'[r].at = "closing" /\ \A q \in Procs \ {r} : call'[q] = call[q]
      BY <1>1, <2>3 DEF CallTypes, Calls
    <3>2. Drafting' /\ Accounted'
      BY <1>2, <1>13, <2>1, <3>1, Aside
    <3>3. Turned'
      BY <1>7, <3>1
    <3>4. b \in Bots \union {None}
      BY <1>1, <2>1 DEF Placed, Records
    <3> HIDE DEF b
    <3>5. Hosted'
      <4>1. \A h \in Hosts : /\ host'[h].at = host[h].at /\ host'[h].bot = host[h].bot
                             /\ ~host'[h].closing => ~host[h].closing /\ h # mapped[b]
        BY <1>1, <2>3 DEF HostTypes, HostStates, Closing
      <4>2. \A c \in Bots : mapped'[c] = IF c = b THEN 0 ELSE mapped[c]
        BY <1>1, <2>3 DEF HostTypes
      <4>3. ASSUME NEW h \in Hosts, host'[h].at # "none"
            PROVE  host'[h].bot \in Bots /\ (~host'[h].closing => mapped'[host'[h].bot] = h)
        BY <1>2, <4>1, <4>2, <4>3 DEF Hosted
      <4>4. ASSUME NEW p \in Procs, call'[p].at = "config" PROVE mapped'[call'[p].bot] = 0
        <5>1. p # r /\ call'[p] = call[p]
          BY <3>1, <4>4
        <5>2. call[p].bot \in Bots
          BY <1>1, <4>4, <5>1 DEF CallTypes, Placed
        <5> QED
          BY <1>2, <4>2, <4>4, <5>1, <5>2 DEF Hosted
      <4> QED
        BY <1>6, <4>3, <4>4 DEF Hosted
    <3> QED
      BY <1>4, <1>13, <2>1, <3>2, <3>3, <3>5 DEF Inv, Changes
  <2> QED
    BY <1>20, <2>2, <2>3 DEF Release
<1> QED
  BY <1>15, <1>16, <1>17, <1>18, <1>19, <1>20

(* The steps of main keep the invariant.                                    *)
LEMMA MainKeeps ==
  ASSUME Inv, Boot \/ Serve \/ ServeUnlisted \/ Stop \/ AllClosed \/ Exit \/ Crash
  PROVE  Inv' /\ Changes
<1>1. StoreTypeOK /\ CallTypes /\ HostTypes /\ MainTypes
  BY DEF Inv, Types
<1>2. Turned /\ Drafting /\ Accounted /\ Hosted
  BY DEF Inv
<1>3. Types' /\ Contents' = Contents
  BY <1>2, MainTypesKept DEF Inv, Hosted
<1>4. ASSUME UNCHANGED <<call, turn, draft, issued>>
      PROVE  Turned' /\ Drafting' /\ Accounted'
  BY <1>2, <1>3, <1>4, Aside DEF Turned
<1>5. CASE Boot
  <2> DEFINE hs == [host EXCEPT ![1] = [bot |-> Primary, at |-> "queued", closing |-> FALSE]]
  <2>1. /\ phase \in {"new", "down"} /\ phase' = "starting"
        /\ mapped' = [mapped EXCEPT ![Primary] = 1]
        /\ Drained(hs, Append(pending, 1))
        /\ UNCHANGED <<call, turn, draft, issued>>
    BY <1>5 DEF Boot, Submit, storeVars
  <2>2. 1 \in Hosts /\ Primary \in Bots
    BY FleetAssumption DEF Hosts, Bots
  <2>3. /\ hs \in [Hosts -> HostStates] /\ hs[1].at = "queued" /\ hs[1].bot = Primary
        /\ \A i \in Hosts \ {1} : hs[i] = host[i]
    BY <1>1, <2>2 DEF HostTypes, HostStates, Bots
  <2> HIDE DEF hs
  <2>4. \A h \in Hosts : host[h].at = "none"
    BY <1>2, <2>1 DEF Hosted
  <2>5. \A i \in Hosts : /\ host'[i].bot = hs[i].bot
                         /\ (host'[i].at = "none") = (hs[i].at = "none")
    BY <1>1, <2>1, <2>2, <2>3, <2>4, SubmitFacts, DrainedFacts DEF HostTypes
  <2>6. \A i \in Hosts : host'[i].at # "none" => i = 1
    BY <2>3, <2>4, <2>5
  <2>7. mapped'[Primary] = 1
    BY <1>1, <2>1, <2>2 DEF HostTypes
  <2>8. \A p \in Procs : call'[p].at = "idle"
    BY <1>2, <2>1 DEF Hosted
  <2>9. Hosted'
    BY <2>1, <2>2, <2>3, <2>5, <2>6, <2>7, <2>8 DEF Hosted
  <2> QED
    BY <1>3, <1>4, <2>1, <2>9 DEF Inv, Changes
<1>6. CASE Serve \/ ServeUnlisted \/ AllClosed
  <2>1. /\ UNCHANGED <<call, turn, draft, issued>> /\ UNCHANGED hostVars
        /\ phase' \notin {"new", "down"} /\ phase \notin {"new", "down"}
    BY <1>6 DEF Serve, ServeUnlisted, AllClosed, ReadStore, storeVars
  <2>2. Hosted'
    BY <1>2, <2>1, HostsStay
  <2> QED
    BY <1>3, <1>4, <2>1, <2>2 DEF Inv, Changes
<1>7. CASE Stop
  <2>1. /\ UNCHANGED <<call, turn, draft, issued>> /\ phase' = "closing"
        /\ awaited' = {mapped[b] : b \in Bots} \ {0}
        /\ host' = Closing(host, awaited') /\ mapped' = [b \in Bots |-> 0]
    BY <1>7 DEF Stop, storeVars
  <2>2. \A h \in Hosts : /\ host'[h].at = host[h].at /\ host'[h].bot = host[h].bot
                         /\ ~host'[h].closing => ~host[h].closing /\ h \notin awaited'
    BY <1>1, <2>1 DEF HostTypes, HostStates, Closing
  <2>3. ASSUME NEW h \in Hosts, host'[h].at # "none"
        PROVE  host'[h].bot \in Bots /\ host'[h].closing
    <3>1. host[h].at # "none" /\ host[h].bot \in Bots
      BY <1>2, <2>2, <2>3 DEF Hosted
    <3>2. h # 0
      BY DEF Hosts
    <3>3. ~host[h].closing => h \in awaited'
      BY <1>2, <2>1, <3>1, <3>2 DEF Hosted
    <3>4. host'[h].closing \in BOOLEAN
      BY <1>3 DEF Types, HostTypes, HostStates
    <3> QED
      BY <2>2, <3>1, <3>3, <3>4
  <2>4. \A p \in Procs : call[p].at = "config" => call[p].bot \in Bots
    BY <1>1 DEF CallTypes, Placed
  <2>5. Hosted'
    BY <2>1, <2>3, <2>4 DEF Hosted
  <2> QED
    BY <1>3, <1>4, <2>1, <2>5 DEF Inv, Changes
<1>8. CASE Gone
  <2>1. /\ phase' = "down" /\ call' = [p \in Procs |-> Idle] /\ mapped' = [b \in Bots |-> 0]
        /\ host' = [h \in Hosts |-> NoHost] /\ pending' = <<>>
        /\ draft' = [p \in Procs |-> None] /\ UNCHANGED issued
    BY <1>8 DEF Gone
  <2>2. \A p \in Procs : call'[p].at = "idle" /\ draft'[p] = None
    BY <2>1 DEF Idle
  <2>3. \A h \in Hosts : host'[h].at = "none"
    BY <2>1 DEF NoHost
  <2>4. Turned' /\ Drafting'
    BY <2>2 DEF Turned, TurnSteps, Drafting
  <2>5. \A p \in Procs : Assigned(p)'
    BY <2>2 DEF Assigned
  <2>6. Accounted'
    BY <1>2, <1>3, <2>1, <2>2, <2>5 DEF Accounted
  <2>7. Hosted'
    BY <2>1, <2>2, <2>3 DEF Hosted
  <2> QED
    BY <1>3, <2>4, <2>6, <2>7 DEF Inv, Changes
<1> QED
  BY <1>5, <1>6, <1>7, <1>8 DEF Exit, Crash

(* The process starts with accounts as it writes them, or with none.        *)
LEMMA InitInv == Init => Inv
<1> SUFFICES ASSUME Init PROVE Inv
  OBVIOUS
<1>1. file \in Files /\ (file = NobodyYet \/ Proper(file))
  BY FleetAssumption DEF Init
<1>2. Contents \in Files /\ Contents # NobodyYet
  BY <1>1, ContentsFacts
<1>3. Proper(Contents) /\ \A u \in Users : Contents[u] # None => u \in issued
  <2>1. CASE file = NobodyYet
    <3>1. /\ Contents[First] = [role |-> "admin", bot |-> None]
          /\ \A u \in Users \ {First} : Contents[u] = None
      BY <1>1, <2>1, StoreAssumption DEF Contents, Files, NobodyYet
    <3>2. None # Primary /\ First \in Users /\ Contents[First] # None
      BY <1>2, <3>1, StoreAssumption, RecordsAreAccounts DEF Bots
    <3> QED
      BY <3>1, <3>2 DEF Proper, Init
  <2>2. CASE file # NobodyYet
    BY <1>1, <2>2 DEF Contents, Init
  <2> QED
    BY <2>1, <2>2
<1>4. Types
  <2>1. StoreTypeOK
    BY <1>1, StoreAssumption DEF Init, StoreTypeOK
  <2>2. CallTypes
    BY IdleCalls DEF Init, CallTypes
  <2>3. HostTypes
    <3>1. NoHost \in HostStates
      BY DEF NoHost, HostStates
    <3>2. Queueing(host, <<>>)
      BY EmptySeq DEF Queueing
    <3> QED
      BY <3>1, <3>2 DEF Init, HostTypes
  <2>4. MainTypes
    BY RecordsAreAccounts, FleetAssumption DEF Init, MainTypes
  <2> QED
    BY <2>1, <2>2, <2>3, <2>4 DEF Types
<1>5. \A p \in Procs : call[p].at = "idle" /\ draft[p] = None
  BY DEF Init, Idle
<1>6. Turned /\ Drafting
  BY <1>5 DEF Turned, TurnSteps, Drafting
<1>7. Accounted
  BY <1>3, <1>5 DEF Accounted, Assigned, Init
<1>8. Hosted
  BY <1>5 DEF Hosted, Init, NoHost
<1> QED
  BY <1>4, <1>6, <1>7, <1>8 DEF Inv

(* Every step keeps the invariant, and changes at most one account, as      *)
(* Accounts has it.                                                         *)
LEMMA NextInv == Inv /\ [Next]_vars => Inv' /\ Changes
<1> SUFFICES ASSUME Inv, [Next]_vars PROVE Inv' /\ Changes
  OBVIOUS
<1>1. CASE HostSteps
  BY <1>1, HostKeeps DEF HostSteps
<1>2. CASE \E p \in Procs : TurnStep(p) \/ ResolveFails(p)
  BY <1>2, TurnKeeps DEF TurnStep
<1>3. CASE \E r \in Procs : RequestStep(r) \/ Enter(r) \/ Restore(r)
  BY <1>3, RequestKeeps DEF RequestStep
<1>4. CASE MainStep \/ ServeUnlisted \/ Boot \/ Stop \/ Crash
  BY <1>4, MainKeeps DEF MainStep
<1>5. CASE UNCHANGED vars
  <2>1. Types' /\ Contents' = Contents
    BY <1>5, Still DEF Inv, Types, MainTypes, vars, fleetVars, storeVars, mainVars, hostVars, history
  <2>2. UNCHANGED <<call, turn, draft, issued, mapped, host, pending, phase>>
    BY <1>5 DEF vars, fleetVars, storeVars, mainVars, hostVars
  <2>3. Drafting' /\ Accounted'
    BY <2>1, <2>2, Aside DEF Inv
  <2> QED
    BY <2>1, <2>2, <2>3 DEF Inv, Turned, Hosted, Changes
<1>6. Reqs \subseteq Procs /\ Restorers \subseteq Procs
  BY FleetAssumption DEF Restorers
<1> QED
  BY <1>1, <1>2, <1>3, <1>4, <1>5, <1>6 DEF Next, GoesOn

(* The invariant always holds.                                              *)
LEMMA InvAlways == Spec => []Inv
BY InitInv, NextInv, PTL DEF Spec

------------------------------------------------------------------------------
(* Theorems.                                                                *)

(* Every variable keeps its type: the queue of the gate, the calls on their *)
(* way and the accounts, for any number of people, requests and restarts.   *)
THEOREM TypeCorrect == Spec => []TypeOK
BY InvAlways, TypesAreTypes, PTL DEF Inv

(* What a mutate does to the file is a step of Accounts.                    *)
LEMMA ChangesAreSteps == Inv /\ Inv' /\ Changes => [A!Next]_Contents
<1> SUFFICES ASSUME Inv', Becomes(Contents, Contents') PROVE A!Next
  BY DEF Changes
<1>1. Contents' \in Files /\ Proper(Contents') /\ Allowed(Contents, Contents')
  BY DEF Becomes
<1>2. A!Administered(Contents')
  BY <1>1 DEF Proper, A!Administered
<1>3. A!Roles = Roles
  BY DEF A!Roles, Roles
<1> QED
  BY <1>1, <1>2, <1>3 DEF Allowed, A!Next, A!Create, A!SetRole, A!Own, A!Remove

(* The accounts in the file implement Accounts (AccountsAreAtomic): however *)
(* requests, first sign-ins, restores, failed writes, crashes and restarts  *)
(* interleave, no change of an account is lost, nobody's bot is given to    *)
(* another or taken away, and an admin is left.                             *)
THEOREM AccountsAreImplemented == Spec => AccountsAreAtomic
<1>1. Init => A!Init
  <2>1. A!Records = Records
    BY DEF A!Records, A!Roles, Records, Roles, Bots
  <2>2. Inv => A!Init
    <3>1. Inv => Contents \in Files
      BY ContentsFacts DEF Inv, Types, StoreTypeOK
    <3> QED
      BY <2>1, <3>1 DEF Inv, Accounted, Proper, Files, A!Init, A!Administered
  <2> QED
    BY <2>2, InitInv
<1>2. Inv /\ [Next]_vars => [A!Next]_Contents
  BY NextInv, ChangesAreSteps
<1> QED
  BY <1>1, <1>2, InvAlways, PTL DEF Spec, AccountsAreAtomic, A!Spec

(* A bot never has two hosts (OneHostPerBot): a host that is not closing is *)
(* the one the registry routes to, and who is being assigned a bot is the   *)
(* only one it could be given to.                                           *)
THEOREM OneHost == Spec => []OneHostPerBot
<1>1. Inv => OneHostPerBot
  BY DEF Inv, Hosted, Accounted, Assigned, OneHostPerBot
<1> QED
  BY <1>1, InvAlways, PTL

------------------------------------------------------------------------------
(* The warm-up gate.                                                        *)

(* No more connect than the limit allows, and as many if somebody waits.    *)
Filled == Active(host) <= Limit /\ GateKeepsBusy

Connecting(hs) == {h \in Hosts : hs[h].at = "connecting"}

(* Whoever #drain lets in connects, each of them once.                      *)
LEMMA LetInCounts ==
  ASSUME NEW hs \in [Hosts -> HostStates], NEW queue, Queueing(hs, queue),
         NEW n \in Nat, n <= Len(queue), LetIn(hs, queue, n)
  PROVE  Active(host') = Active(hs) + n
<1> DEFINE front == {queue[i] : i \in 1..n}
           place == [i \in 1..n |-> queue[i]]
<1>1. /\ Len(queue) \in Nat /\ 1..n \subseteq 1..Len(queue)
      /\ \A i \in 1..Len(queue) : queue[i] \in Hosts /\ hs[queue[i]].at = "queued"
  BY DEF Queueing
<1>2. place \in Bijection(1..n, front)
  <2>1. place \in [1..n -> front] /\ \A h \in front : \E i \in 1..n : place[i] = h
    OBVIOUS
  <2>2. \A i, j \in 1..n : place[i] = place[j] => i = j
    BY <1>1 DEF Queueing
  <2> QED
    BY <2>1, <2>2 DEF Bijection, Injection, Surjection, IsInjective
<1>3. IsFiniteSet(front) /\ Cardinality(front) = n
  <2>1. IsFiniteSet(1..n) /\ Cardinality(1..n) = n
    BY FS_Interval
  <2>2. ExistsBijection(1..n, front)
    BY <1>2 DEF ExistsBijection
  <2> QED
    BY <2>1, <2>2, FS_Bijection
<1>4. \A h \in front : h \in Hosts /\ hs[h].at = "queued"
  BY <1>1
<1>5. host' = [h \in Hosts |-> IF h \in front THEN [hs[h] EXCEPT !.at = "connecting"] ELSE hs[h]]
  BY DEF LetIn
<1>6. \A h \in Hosts : [hs[h] EXCEPT !.at = "connecting"].at = "connecting"
  BY DEF HostStates
<1> HIDE DEF front
<1>7. Connecting(host') = Connecting(hs) \union front
  BY <1>4, <1>5, <1>6 DEF Connecting
<1>8. Connecting(hs) \intersect front = {} /\ IsFiniteSet(Connecting(hs))
  <2>1. IsFiniteSet(Hosts)
    BY FS_Interval, FleetAssumption DEF Hosts
  <2> QED
    BY <1>4, <2>1, FS_Subset DEF Connecting
<1>9. Cardinality(Connecting(hs) \union front) = Cardinality(Connecting(hs)) + n
  <2>1. Cardinality(Connecting(hs)) \in Nat
    BY <1>8, FS_CardinalityType
  <2>2. Cardinality(Connecting(hs) \union front) = Cardinality(Connecting(hs)) + n - Cardinality({})
    BY <1>3, <1>8, FS_Union
  <2>3. Cardinality({}) = 0
    BY FS_EmptySet
  <2> QED
    BY <2>1, <2>2, <2>3
<1> QED
  BY <1>7, <1>9 DEF Active, Connecting

(* #drain leaves somebody waiting only when the limit is reached.           *)
LEMMA DrainedFills ==
  ASSUME NEW hs \in [Hosts -> HostStates], NEW queue, Queueing(hs, queue),
         Active(hs) <= Limit, Drained(hs, queue)
  PROVE  Filled'
<1>1. Active(hs) \in Nat /\ Limit \in Nat /\ Len(queue) \in Nat /\ queue \in Seq(Hosts)
  BY ActiveIsNatural, FleetAssumption DEF Queueing
<1> DEFINE n == Granted(hs, queue, Limit)
<1>2. /\ n \in Nat /\ n <= Len(queue) /\ n <= Limit - Active(hs)
      /\ n = Len(queue) \/ n = Limit - Active(hs)
  BY <1>1 DEF Granted
<1>3. LetIn(hs, queue, n)
  BY DEF Drained
<1> HIDE DEF n
<1>4. Active(host') = Active(hs) + n
  BY <1>2, <1>3, LetInCounts
<1>5. pending' = SubSeq(queue, n + 1, Len(queue))
  BY <1>3 DEF LetIn
<1>6. n = Len(queue) => pending' = <<>>
  <2>1. SUFFICES ASSUME n = Len(queue)
                 PROVE  pending' = <<>>
    OBVIOUS
  <2>2. \A i \in n + 1..Len(queue) : queue[i] \in Hosts
    BY <1>1, <2>1
  <2>3. pending' \in Seq(Hosts) /\ Len(pending') = 0
    BY <1>1, <1>5, <2>1, <2>2, SubSeqProperties
  <2> QED
    BY <2>3, EmptySeq
<1>7. Active(host') <= Limit
  BY <1>1, <1>2, <1>4
<1>8. pending' # <<>> => Active(host') = Limit
  BY <1>1, <1>2, <1>4, <1>6
<1>9. Active(host)' = Active(host')
  BY DEF Active
<1> QED
  BY <1>7, <1>8, <1>9 DEF Filled, GateKeepsBusy

(* Nobody starts or ends to connect.                                        *)
LEMMA FilledStays ==
  ASSUME Filled, UNCHANGED pending,
         \A h \in Hosts : (host'[h].at = "connecting") = (host[h].at = "connecting")
  PROVE  Filled'
<1>1. Connecting(host') = Connecting(host)
  BY DEF Connecting
<1> QED
  BY <1>1 DEF Filled, GateKeepsBusy, Active, Connecting

(* A host that queues does not connect yet, nor does one that has.          *)
LEMMA ActiveWithOne ==
  ASSUME NEW h \in Hosts, NEW hs \in [Hosts -> HostStates], hs[h].at # "connecting",
         \A i \in Hosts \ {h} : hs[i] = host[i]
  PROVE  Active(hs) <= Active(host)
<1>1. IsFiniteSet(Connecting(host))
  BY FS_Interval, FS_Subset, FleetAssumption DEF Hosts, Connecting
<1>2. Connecting(hs) \subseteq Connecting(host)
  BY DEF Connecting
<1> QED
  BY <1>1, <1>2, FS_Subset DEF Active, Connecting

LEMMA FilledStep == Inv /\ Filled /\ [Next]_vars => Filled'
<1> SUFFICES ASSUME Inv, Filled, [Next]_vars PROVE Filled'
  OBVIOUS
<1>1. host \in [Hosts -> HostStates] /\ mapped \in [Bots -> Hosts \union {0}]
      /\ Queueing(host, pending) /\ Active(host) \in Nat /\ Limit \in Nat
  BY ActiveIsNatural, FleetAssumption DEF Inv, Types, HostTypes
<1>2. ASSUME NEW h \in Hosts, host[h].at = "none", NEW b \in Bots,
             Submit([host EXCEPT ![h] = [bot |-> b, at |-> "queued", closing |-> FALSE]], h)
      PROVE  Filled'
  <2> DEFINE hs == [host EXCEPT ![h] = [bot |-> b, at |-> "queued", closing |-> FALSE]]
  <2>1. /\ hs \in [Hosts -> HostStates] /\ hs[h].at = "queued"
        /\ \A i \in Hosts \ {h} : hs[i] = host[i]
    BY <1>1 DEF HostStates
  <2>2. Drained(hs, Append(pending, h))
    BY <1>2 DEF Submit
  <2> HIDE DEF hs
  <2>3. Active(hs) <= Limit
    <3>1. Active(hs) \in Nat /\ Active(hs) <= Active(host)
      BY <2>1, ActiveIsNatural, ActiveWithOne
    <3> QED
      BY <1>1, <3>1 DEF Filled
  <2> QED
    BY <1>1, <1>2, <2>1, <2>2, <2>3, SubmitFacts, DrainedFills
<1>3. ASSUME NEW h \in Hosts, HostReady(h)
      PROVE  Filled'
  <2> DEFINE hs == [host EXCEPT ![h].at = "ready"]
  <2>1. /\ hs \in [Hosts -> HostStates] /\ hs[h].at = "ready"
        /\ \A i \in Hosts \ {h} : hs[i] = host[i]
    BY <1>1 DEF HostStates
  <2>2. Drained(hs, pending) /\ host[h].at = "connecting"
    BY <1>3 DEF HostReady
  <2> HIDE DEF hs
  <2>3. Queueing(hs, pending)
    <3>1. \A i \in 1..Len(pending) : pending[i] \in Hosts /\ hs[pending[i]].at = "queued"
      BY <1>1, <2>1, <2>2 DEF Queueing
    <3> QED
      BY <1>1, <3>1 DEF Queueing
  <2>4. Active(hs) <= Limit
    <3>1. Active(hs) \in Nat /\ Active(hs) <= Active(host)
      BY <2>1, ActiveIsNatural, ActiveWithOne
    <3> QED
      BY <1>1, <3>1 DEF Filled
  <2> QED
    BY <2>1, <2>2, <2>3, <2>4, DrainedFills
<1>4. ASSUME NEW h \in Hosts, HostCloses(h)
      PROVE  Filled'
  <2>1. host' = [host EXCEPT ![h] = NoHost] /\ host[h].at = "ready" /\ UNCHANGED pending
    BY <1>4 DEF HostCloses
  <2>2. \A i \in Hosts : (host'[i].at = "connecting") = (host[i].at = "connecting")
    BY <1>1, <2>1 DEF NoHost
  <2> QED
    BY <2>1, <2>2, FilledStays
<1>5. ASSUME NEW p \in Procs, MakeHost(p)
      PROVE  Filled'
  <2>1. call[p].bot \in Bots
    BY <1>5 DEF MakeHost, Inv, Types, CallTypes, Placed
  <2> QED
    BY <1>2, <1>5, <2>1 DEF MakeHost
<1>6. CASE Boot
  <2>1. 1 \in Hosts /\ Primary \in Bots /\ host[1].at = "none"
    BY <1>6, FleetAssumption DEF Boot, Hosts, Bots, Inv, Hosted
  <2> QED
    BY <1>2, <1>6, <2>1 DEF Boot
<1>7. ASSUME NEW these, host' = Closing(host, these), UNCHANGED pending
      PROVE  Filled'
  <2>1. \A h \in Hosts : host'[h].at = host[h].at
    BY <1>1, <1>7 DEF Closing, HostStates
  <2> QED
    BY <1>7, <2>1, FilledStays
<1>8. ASSUME UNCHANGED hostVars
      PROVE  Filled'
  BY <1>8, FilledStays DEF hostVars
<1>9. CASE Gone
  <2>1. pending' = <<>> /\ \A h \in Hosts : host'[h].at = "none"
    BY <1>9 DEF Gone, NoHost
  <2>2. Connecting(host') = {}
    BY <2>1 DEF Connecting
  <2>3. Active(host)' = 0
    BY <2>2, FS_EmptySet DEF Active, Connecting
  <2> QED
    BY <1>1, <2>1, <2>3 DEF Filled, GateKeepsBusy
<1>10. ASSUME NEW p \in Procs, Resolve(p) \/ Assign(p) \/ Bind(p) \/ Bound(p) \/ ResolveFails(p)
       PROVE  Filled'
  BY <1>8, <1>10 DEF Resolve, Assign, Bind, Bound, ResolveFails
<1>11. ASSUME NEW r \in Procs, Act(r) \/ Change(r) \/ Changed(r) \/ Enter(r) \/ Restore(r)
       PROVE  Filled'
  BY <1>8, <1>11 DEF Act, Change, Changed, Enter, Restore
<1>12. ASSUME NEW r \in Procs, Release(r)
       PROVE  Filled'
  BY <1>7, <1>8, <1>12 DEF Release
<1>13. CASE Stop
  BY <1>7, <1>13 DEF Stop
<1>14. CASE Serve \/ ServeUnlisted \/ AllClosed \/ UNCHANGED vars
  BY <1>8, <1>14 DEF Serve, ServeUnlisted, AllClosed, vars, fleetVars
<1>15. Reqs \subseteq Procs /\ Restorers \subseteq Procs
  BY FleetAssumption DEF Restorers
<1> QED
  BY <1>3, <1>4, <1>5, <1>6, <1>9, <1>10, <1>11, <1>12, <1>13, <1>14, <1>15
  DEF Next, GoesOn, HostSteps, TurnStep, RequestStep, MainStep, Exit, Crash

(* The warm-up gate is full whenever somebody waits (#drain of              *)
(* connection-warmup-gate.ts), for every limit, whichever hosts connect,    *)
(* close or are given up meanwhile.                                         *)
THEOREM GateIsFull == Spec => []GateKeepsBusy
<1>1. Init => Filled
  <2> SUFFICES ASSUME Init PROVE Filled
    OBVIOUS
  <2>1. Connecting(host) = {} /\ pending = <<>>
    BY DEF Init, NoHost, Connecting
  <2>2. Active(host) = 0
    BY <2>1, FS_EmptySet DEF Active, Connecting
  <2> QED
    BY <2>1, <2>2, FleetAssumption DEF Filled, GateKeepsBusy
<1>2. Filled => GateKeepsBusy
  BY DEF Filled
<1> QED
  BY <1>1, <1>2, FilledStep, InvAlways, PTL DEF Spec

------------------------------------------------------------------------------
(* Whose bot is whose.                                                      *)

Owning == [Users -> Bots \union {None}]

(* A call knows no bot of a person but the one they were ever given, and a  *)
(* removal is of somebody who had an account.                               *)
KnownTo(c, own) ==
  /\ c.at \notin {"idle", "dead"} => c.snap.bot \in {None, own[c.user]}
  /\ c.at = "config" => c.bot = own[c.user]
  /\ c.kind = "remove" =>
       /\ c.on \in issued
       /\ c.target # None => c.target.bot \in {None, own[c.on]}
  /\ c.at = "role" => c.kind = "put"
  /\ c.at = "remove" => c.kind = "remove" /\ (c.target = None => Contents[c.on] = None)
  /\ c.at = "release" => c.kind = "remove" /\ Contents[c.on] = None

(* Nobody is about to find that account u is gone, or has.                  *)
Unsought(u) == \A q \in Procs : call[q].at \in {"remove", "release"} => call[q].on # u

(* What a mutate writes: a first bot, or an account that is new, changed or *)
(* removed by who will release its bot.                                     *)
Drafted(p, own) ==
  /\ call[p].at = "binding" =>
       LET u == call[p].user
       IN /\ Contents[u] # None /\ Contents[u].bot = None
          /\ call[p].bot \in {Primary, u}
          /\ draft[p] = [Contents EXCEPT ![u] = [role |-> Contents[u].role, bot |-> call[p].bot]]
  /\ call[p].at = "write" =>
       /\ \A u \in Users : Contents[u] # None /\ draft[p][u] = None =>
            call[p].kind = "remove" /\ u = call[p].on
       /\ call[p].kind = "remove" => call[p].target # None /\ draft[p][call[p].on] = None
       /\ \A u \in Users : Contents[u] = None /\ draft[p][u] # None => own[u] = None /\ Unsought(u)

(* own has the bot each person was ever given: their account, the restore's *)
(* list, the registry and the calls agree with it.                          *)
Known(own) ==
  /\ \A u \in Users : own[u] # None => u \in issued /\ own[u] \in {Primary, u}
  /\ \A u \in Users : Contents[u] # None => Contents[u].bot = own[u]
  /\ \A u \in Users : owned[u] # None => own[u] # None /\ owned[u].bot = own[u]
  /\ \A u \in Users : mapped[u] # 0 => own[u] = u
  /\ \A p \in Procs : KnownTo(call[p], own) /\ Drafted(p, own)

(* Every owned bot is there, listed, being made, or its attempt has failed. *)
Remembered ==
  \A u \in Users :
    phase = "serving" /\ Contents[u] # None /\ Contents[u].bot # None =>
      \/ mapped[Contents[u].bot] # 0
      \/ owned[u] # None \/ u \in unlucky
      \/ \E p \in Procs : call[p].user = u /\ call[p].at \in InTurn

Kept(own) == Known(own) /\ RemovedBotStops /\ Remembered

(* A call that goes on elsewhere with what it knows.                        *)
LEMMA GoesOnKnowing ==
  ASSUME NEW own \in Owning, NEW c \in Calls, KnownTo(c, own), c.at \notin {"idle", "dead"},
         NEW d \in Calls, d.user = c.user, d.snap = c.snap \/ d.snap.bot \in {None, own[c.user]},
         d.kind = c.kind, d.on = c.on, d.target = c.target,
         d.at \notin {"config", "role", "remove", "release"}
  PROVE  KnownTo(d, own)
BY DEF KnownTo

(* A call that has ended knows nothing.                                     *)
LEMMA EndsKnowing ==
  ASSUME NEW own
  PROVE  KnownTo(Idle, own) /\ \A p : KnownTo(Failed(p), own)
BY DEF KnownTo, Idle, Failed

(* Steps that leave the accounts, the mutates and the registry alone.       *)
Fine(q, own) ==
  \/ call'[q] = call[q]
  \/ /\ KnownTo(call'[q], own)
     /\ call[q].at \notin {"write", "binding", "release"}
     /\ call'[q].at \notin {"write", "binding"}
     /\ call'[q].at \in {"remove", "release"} => Exclusive
     /\ call[q].at \in InTurn =>
          LET u == call[q].user
          IN \/ call'[q].at \in InTurn /\ call'[q].user = u
             \/ u \in unlucky'
             \/ Contents[u] # None /\ Contents[u].bot # None => mapped[Contents[u].bot] # 0

LEMMA Quietly ==
  ASSUME Inv, NEW own \in Owning, Kept(own),
         Contents' = Contents, UNCHANGED <<draft, issued, mapped, phase, astray>>,
         \A u \in Users : \/ owned'[u] = owned[u]
                          \/ /\ owned'[u] = None
                             /\ \E p \in Procs : call'[p].user = u /\ call'[p].at \in InTurn,
         unlucky \subseteq unlucky', \A q \in Procs : Fine(q, own)
  PROVE  Kept(own)'
<1>1. Drafting /\ StoreTypeOK
  BY DEF Inv, Types
<1>2. \A q \in Procs : KnownTo(call[q], own)' 
  BY DEF Kept, Known, Fine, KnownTo
<1>3. ASSUME NEW p \in Procs PROVE Drafted(p, own)'
  <2>1. SUFFICES ASSUME call'[p].at \in {"write", "binding"}
                 PROVE  Drafted(p, own)'
    BY DEF Drafted
  <2>2. call'[p] = call[p] /\ draft[p] # None
    BY <1>1, <2>1 DEF Fine, Drafting
  <2>3. ASSUME NEW q \in Procs, call'[q].at \in {"remove", "release"}
        PROVE  call'[q] = call[q]
    BY <2>2, <2>3 DEF Fine, Exclusive
  <2>4. \A u \in Users : Unsought(u) => Unsought(u)'
    BY <2>3 DEF Unsought
  <2> QED
    BY <2>2, <2>4 DEF Kept, Known, Drafted
<1>4. Known(own)'
  BY <1>2, <1>3 DEF Kept, Known
<1>5. RemovedBotStops'
  <2>1. \A q \in Procs : call[q].at = "release" => call'[q] = call[q]
    BY DEF Fine
  <2>2. Reqs \subseteq Procs
    BY FleetAssumption
  <2> QED
    BY <2>1, <2>2 DEF Kept, RemovedBotStops
<1>6. Remembered'
  <2>1. SUFFICES ASSUME NEW u \in Users, phase = "serving", Contents[u] # None, Contents[u].bot # None
                 PROVE  \/ mapped[Contents[u].bot] # 0
                        \/ owned'[u] # None \/ u \in unlucky'
                        \/ \E p \in Procs : call'[p].user = u /\ call'[p].at \in InTurn
    BY DEF Remembered, InTurn
  <2>2. CASE mapped[Contents[u].bot] # 0 \/ owned[u] # None \/ u \in unlucky
    BY <2>2
  <2>3. CASE \E p \in Procs : call[p].user = u /\ call[p].at \in InTurn
    <3>1. PICK p \in Procs : call[p].user = u /\ call[p].at \in InTurn
      BY <2>3
    <3> QED
      BY <2>1, <3>1 DEF Fine
  <2> QED
    BY <2>1, <2>2, <2>3 DEF Kept, Remembered, InTurn
<1> QED
  BY <1>4, <1>5, <1>6 DEF Kept

(* A mutate begins.                                                         *)
LEMMA KeptBegins ==
  ASSUME Inv, NEW own \in Owning, Kept(own), NEW p \in Procs, Exclusive, Contents' = Contents,
         \A q \in Procs \ {p} : call'[q] = call[q], issued \subseteq issued',
         UNCHANGED <<mapped, owned, phase, astray, unlucky>>,
         call[p].at # "release", call'[p].at \in {"write", "binding"},
         call[p].at \in InTurn => call'[p].at \in InTurn /\ call'[p].user = call[p].user,
         KnownTo(call'[p], own), Drafted(p, own)'
  PROVE  Kept(own)'
<1>1. Drafting /\ StoreTypeOK
  BY DEF Inv, Types
<1>2. \A q \in Procs : KnownTo(call[q], own)'
  BY DEF Kept, Known, KnownTo
<1>3. \A q \in Procs \ {p} : Drafted(q, own)'
  BY <1>1 DEF Drafted, Drafting, Exclusive
<1>4. Known(own)'
  BY <1>2, <1>3 DEF Kept, Known
<1>5. RemovedBotStops'
  BY FleetAssumption DEF Kept, RemovedBotStops
<1>6. Remembered'
  BY DEF Kept, Remembered, InTurn
<1> QED
  BY <1>4, <1>5, <1>6 DEF Kept

(* Where #resolve ends, with the person's own bot.                          *)
LEMMA LookUpKnows ==
  ASSUME CallTypes, HostTypes, NEW own \in Owning, NEW p \in Procs, NEW b \in Bots, LookUp(p, b),
         call[p].at \notin {"idle", "dead", "role", "remove", "release"},
         KnownTo(call[p], own), b = own[call[p].user]
  PROVE  /\ KnownTo(call'[p], own)
         /\ call'[p].at \in {"config", "await", "act", "idle"}
         /\ call'[p].at = "config" => call'[p].user = call[p].user
         /\ call'[p].at # "config" => mapped[b] # 0
<1>1. call \in [Procs -> Calls] /\ call[p] \in Calls
  BY DEF CallTypes
<1>2. CASE mapped[b] = 0
  <2> DEFINE d == [[call[p] EXCEPT !.at = "config"] EXCEPT !.bot = b]
  <2>1. call'[p] = d
    BY <1>1, <1>2 DEF LookUp
  <2>2. /\ d.at = "config" /\ d.bot = b /\ d.user = call[p].user /\ d.snap = call[p].snap
        /\ d.kind = call[p].kind /\ d.on = call[p].on /\ d.target = call[p].target
    BY <1>1 DEF Calls
  <2> HIDE DEF d
  <2> QED
    BY <2>1, <2>2 DEF KnownTo
<1>3. CASE mapped[b] # 0
  <2> DEFINE waiting == [call[p] EXCEPT !.at = "await", !.bot = b, !.host = mapped[b]]
             acting == [call[p] EXCEPT !.at = "act", !.bot = b]
  <2>1. call'[p] \in {waiting, acting, Idle}
    BY <1>1, <1>3 DEF LookUp
  <2>2. \A d \in {waiting, acting} :
          /\ d.at \in {"await", "act"} /\ d.user = call[p].user /\ d.snap = call[p].snap
          /\ d.kind = call[p].kind /\ d.on = call[p].on /\ d.target = call[p].target
    BY <1>1 DEF Calls
  <2> HIDE DEF waiting, acting
  <2>3. \A d \in {waiting, acting} : KnownTo(d, own)
    BY <2>2 DEF KnownTo
  <2> QED
    BY <1>3, <2>1, <2>2, <2>3, EndsKnowing, IdleCalls
<1> QED
  BY <1>2, <1>3

(* A #resolve that fails.                                                   *)
LEMMA FailsKnowing ==
  ASSUME CallTypes, NEW own \in Owning, NEW p \in Procs, TurnFails(p)
  PROVE  /\ KnownTo(call'[p], own) /\ call'[p].at \in {"idle", "dead"}
         /\ call[p].user \in unlucky' /\ unlucky \subseteq unlucky'
BY EndsKnowing, IdleCalls DEF TurnFails, CallTypes

(* #assigning keeps to the one bot a person has.                            *)
LEMMA TurnKept ==
  ASSUME Inv, NEW own \in Owning, Kept(own), NEW p \in Procs,
         Resolve(p) \/ Assign(p) \/ Bind(p) \/ MakeHost(p) \/ ResolveFails(p)
  PROVE  Kept(own)'
<1>1. StoreTypeOK /\ CallTypes /\ HostTypes /\ MainTypes /\ call[p] \in Calls /\ Placed(call[p])
  BY DEF Inv, Types, CallTypes
<1>2. Turned /\ Drafting /\ Accounted /\ Hosted /\ Contents \in Files
  BY <1>1, ContentsFacts DEF Inv, StoreTypeOK
<1>3. Known(own) /\ KnownTo(call[p], own)
  BY DEF Kept, Known
<1>4. call[p].at \in InTurn /\ call[p].user \in Users /\ call[p].snap \in Records
  BY <1>1 DEF Resolve, Assign, Bind, MakeHost, ResolveFails, InTurn, TurnSteps, Placed
<1>5. CASE Resolve(p)
  <2> DEFINE current == IF Contents[call[p].user] # None THEN Contents[call[p].user] ELSE call[p].snap
  <2>1. /\ call[p].at = "turn" /\ ReadStore
        /\ UNCHANGED <<mainVars, owned, hostVars, history, used>>
        /\ IF current.bot # None THEN LookUp(p, current.bot)
           ELSE call' = [call EXCEPT ![p].at = "assign", ![p].snap = current]
    BY <1>5 DEF Resolve
  <2>2. Contents' = Contents /\ UNCHANGED <<draft, issued>>
    BY <1>1, <2>1, StoreTypes DEF ReadStore
  <2>3. current \in Records /\ current.bot \in {None, own[call[p].user]}
    BY <1>2, <1>3, <1>4, <2>1 DEF Files, Known, KnownTo
  <2>4. CASE current.bot # None
    <3> DEFINE b == current.bot
    <3>1. b \in Bots /\ b = own[call[p].user] /\ LookUp(p, b)
      BY <2>1, <2>3, <2>4 DEF Records
    <3>2. Contents[call[p].user] # None => Contents[call[p].user].bot = b
      OBVIOUS
    <3> HIDE DEF b, current
    <3>3. \A q \in Procs \ {p} : call'[q] = call[q]
      BY <1>1, <3>1, LookUpMoves
    <3>4. /\ KnownTo(call'[p], own)
          /\ call'[p].at \in {"config", "await", "act", "idle"}
          /\ call'[p].at = "config" => call'[p].user = call[p].user
          /\ call'[p].at # "config" => mapped[b] # 0
      BY <1>1, <1>3, <2>1, <3>1, LookUpKnows
    <3>5. \A q \in Procs : Fine(q, own)
      BY <2>1, <3>2, <3>3, <3>4 DEF Fine, InTurn, TurnSteps
    <3> QED
      BY <2>1, <2>2, <3>5, Quietly DEF mainVars, hostVars, history
  <2>5. CASE current.bot = None
    <3> DEFINE d == [[call[p] EXCEPT !.at = "assign"] EXCEPT !.snap = current]
    <3>1. call' = [call EXCEPT ![p] = d]
      BY <1>1, <2>1, <2>5 DEF CallTypes
    <3> HIDE DEF current
    <3>2. /\ d \in Calls /\ d.at = "assign" /\ d.user = call[p].user /\ d.snap = current
          /\ d.kind = call[p].kind /\ d.on = call[p].on /\ d.target = call[p].target
      BY <1>1, <2>3 DEF Calls, Steps, TurnSteps
    <3> HIDE DEF d
    <3>3. KnownTo(d, own)
      BY <1>1, <1>3, <2>1, <2>3, <3>2, GoesOnKnowing
    <3>4. \A q \in Procs : Fine(q, own)
      BY <1>1, <2>1, <3>1, <3>2, <3>3 DEF Fine, InTurn, TurnSteps, CallTypes
    <3> QED
      BY <2>1, <2>2, <3>4, Quietly DEF mainVars, hostVars, history
  <2> QED
    BY <2>4, <2>5
<1>6. CASE Assign(p)
  <2>1. /\ call[p].at = "assign" /\ ReadStore
        /\ UNCHANGED <<mainVars, owned, turn, hostVars, history, used>>
    BY <1>6 DEF Assign
  <2>2. PICK b : call' = [call EXCEPT ![p].at = "bind", ![p].bot = b]
    BY <1>6 DEF Assign
  <2>3. Contents' = Contents /\ UNCHANGED <<draft, issued>>
    BY <1>1, <2>1, StoreTypes DEF ReadStore
  <2> DEFINE d == call'[p]
  <2>4. /\ \A q \in Procs \ {p} : call'[q] = call[q]
        /\ d.at = "bind" /\ d.user = call[p].user /\ d.snap = call[p].snap
        /\ d.kind = call[p].kind /\ d.on = call[p].on /\ d.target = call[p].target
    BY <1>1, <2>2 DEF CallTypes, Calls
  <2> HIDE DEF d
  <2>5. KnownTo(d, own)
    BY <1>3, <2>1, <2>4 DEF KnownTo
  <2>6. \A q \in Procs : Fine(q, own)
    BY <2>1, <2>4, <2>5 DEF Fine, InTurn, TurnSteps, d
  <2> QED
    BY <2>1, <2>3, <2>6, Quietly DEF mainVars, hostVars, history
<1>7. CASE Bind(p)
  <2>1. /\ call[p].at = "bind" /\ UNCHANGED <<mainVars, owned, hostVars, astray, used>>
    BY <1>7 DEF Bind
  <2>2. CASE /\ SetBotId(p, call[p].user, call[p].bot)
             /\ call' = [call EXCEPT ![p].at = "binding"]
             /\ UNCHANGED <<turn, unlucky>>
    <3> DEFINE new == [Contents EXCEPT ![call[p].user] =
                         [role |-> Contents[call[p].user].role, bot |-> call[p].bot]]
               d == call'[p]
    <3>1. /\ \A q \in Procs \ {p} : call'[q] = call[q]
          /\ d.at = "binding" /\ d.user = call[p].user /\ d.snap = call[p].snap
          /\ d.kind = call[p].kind /\ d.on = call[p].on /\ d.target = call[p].target
          /\ d.bot = call[p].bot
      BY <1>1, <2>2 DEF CallTypes, Calls
    <3>2. /\ Contents[call[p].user] # None /\ Contents[call[p].user].bot = None
          /\ call[p].bot \in {Primary, call[p].user}
      BY <1>2, <2>1, <2>2 DEF SetBotId, MaySetBotId, Accounted, Assigned
    <3>3. Mutate(p, new) /\ UNCHANGED issued
      BY <2>2 DEF SetBotId
    <3>4. Exclusive /\ Contents' = Contents /\ draft'[p] = new
      <4>1. new \in Files
        <5>1. [role |-> Contents[call[p].user].role, bot |-> call[p].bot] \in Records
          BY <1>1, <1>2, <1>4, <2>1, <3>2 DEF Files, Records, Placed
        <5> QED
          BY <1>2, <5>1 DEF Files
      <4> HIDE DEF new
      <4> QED
        BY <1>1, <3>3, <4>1, StoreTypes DEF StoreTypeOK
    <3> HIDE DEF d
    <3>5. KnownTo(d, own)
      BY <1>3, <2>1, <3>1 DEF KnownTo
    <3>6. Drafted(p, own)'
      BY <3>1, <3>2, <3>4 DEF Drafted, d
    <3> QED
      BY <2>1, <2>2, <3>1, <3>3, <3>4, <3>5, <3>6, KeptBegins
      DEF d, mainVars, hostVars, InTurn, TurnSteps
  <2>3. CASE ReadStore /\ TurnFails(p)
    <3>1. /\ \A q \in Procs \ {p} : call'[q] = call[q]
          /\ KnownTo(call'[p], own) /\ call'[p].at \in {"idle", "dead"}
          /\ call[p].user \in unlucky' /\ unlucky \subseteq unlucky'
      BY <1>1, <2>3, FailsMoves, FailsKnowing
    <3>2. Contents' = Contents /\ UNCHANGED <<draft, issued>>
      BY <1>1, <2>3, StoreTypes DEF ReadStore
    <3>3. \A q \in Procs : Fine(q, own)
      BY <2>1, <3>1 DEF Fine
    <3> QED
      BY <2>1, <3>1, <3>2, <3>3, Quietly DEF mainVars, hostVars
  <2> QED
    BY <1>7, <2>2, <2>3 DEF Bind
<1>8. CASE ResolveFails(p)
  <2>1. /\ call[p].at \in {"turn", "assign", "bind", "config"} /\ TurnFails(p)
        /\ UNCHANGED <<storeVars, mainVars, owned, hostVars, astray>>
    BY <1>8 DEF ResolveFails
  <2>2. /\ \A q \in Procs \ {p} : call'[q] = call[q]
        /\ KnownTo(call'[p], own) /\ call'[p].at \in {"idle", "dead"}
        /\ call[p].user \in unlucky' /\ unlucky \subseteq unlucky'
    BY <1>1, <2>1, FailsMoves, FailsKnowing
  <2>3. Contents' = Contents /\ UNCHANGED <<draft, issued>>
    BY <1>1, <2>1, Still DEF storeVars
  <2>4. \A q \in Procs : Fine(q, own)
    BY <2>1, <2>2 DEF Fine
  <2> QED
    BY <2>1, <2>2, <2>3, <2>4, Quietly DEF mainVars, hostVars
<1>9. CASE MakeHost(p)
  <2> DEFINE b == call[p].bot
  <2>1. /\ call[p].at = "config" /\ b \in Bots /\ UNCHANGED <<storeVars, mainVars, owned, unlucky, used>>
        /\ astray' = IF b \in Users /\ Contents[b] = None THEN astray \union {b} ELSE astray
    BY <1>1, <1>9 DEF MakeHost, Placed
  <2>2. PICK h \in Hosts :
          /\ mapped' = [mapped EXCEPT ![b] = h]
          /\ call' = [call EXCEPT ![p].at = "await", ![p].host = h]
    BY <1>9 DEF MakeHost
  <2> DEFINE d == call'[p]
  <2>3. /\ \A q \in Procs \ {p} : call'[q] = call[q]
        /\ d.at = "await" /\ d.user = call[p].user /\ d.snap = call[p].snap
        /\ d.kind = call[p].kind /\ d.on = call[p].on /\ d.target = call[p].target
    BY <1>1, <2>2 DEF CallTypes, Calls
  <2>4. Contents' = Contents /\ UNCHANGED <<draft, issued>>
    BY <1>1, <2>1, Still DEF storeVars
  <2>5. b = own[call[p].user] /\ b \in {Primary, call[p].user}
    BY <1>3, <1>4, <2>1, RecordsAreAccounts DEF KnownTo, Known
  <2>6. mapped'[b] = h /\ h # 0 /\ \A c \in Bots \ {b} : mapped'[c] = mapped[c]
    BY <1>1, <2>1, <2>2 DEF HostTypes, Hosts
  <2> HIDE DEF b, d
  <2>7. Known(own)'
    <3>1. KnownTo(d, own)
      BY <1>3, <2>1, <2>3 DEF KnownTo
    <3>2. \A q \in Procs : KnownTo(call[q], own)'
      BY <1>3, <2>3, <2>4, <3>1 DEF Known, KnownTo, d
    <3>3. \A u \in Users : Unsought(u) => Unsought(u)'
      BY <2>3 DEF Unsought, d
    <3>4. \A q \in Procs : Drafted(q, own)'
      BY <1>3, <2>3, <2>4, <3>3 DEF Known, Drafted, d
    <3>5. \A u \in Users : mapped'[u] # 0 => own[u] = u
      BY <1>3, <1>4, <2>5, <2>6, StoreAssumption DEF Known, Bots
    <3> QED
      BY <1>3, <2>1, <2>4, <3>2, <3>4, <3>5 DEF Known
  <2>8. RemovedBotStops'
    <3>1. SUFFICES ASSUME NEW u \in Users, mapped'[u] # 0, Contents[u] = None, u \notin astray'
                   PROVE  \E r \in Reqs : call'[r].at = "release" /\ call'[r].on = u
      BY <2>4 DEF RemovedBotStops
    <3>2. u # b /\ mapped[u] # 0 /\ u \notin astray
      BY <2>1, <2>6, <3>1 DEF Bots
    <3>3. PICK r \in Reqs : call[r].at = "release" /\ call[r].on = u
      BY <3>1, <3>2 DEF Kept, RemovedBotStops
    <3> QED
      BY <2>1, <2>3, <3>3, FleetAssumption
  <2>9. Remembered'
    <3>1. SUFFICES ASSUME NEW u \in Users, phase = "serving", Contents[u] # None, Contents[u].bot # None
                   PROVE  \/ mapped'[Contents[u].bot] # 0
                          \/ owned[u] # None \/ u \in unlucky
                          \/ \E q \in Procs : call'[q].user = u /\ call'[q].at \in InTurn
      BY <2>1, <2>4 DEF Remembered, InTurn, mainVars
    <3>2. Contents[u].bot \in Bots
      BY <1>2, <3>1 DEF Files, Records
    <3>3. CASE mapped[Contents[u].bot] # 0
      BY <2>6, <3>2, <3>3
    <3>4. CASE owned[u] # None \/ u \in unlucky
      BY <3>4
    <3>5. CASE \E q \in Procs : call[q].user = u /\ call[q].at \in InTurn
      <4>1. PICK q \in Procs : call[q].user = u /\ call[q].at \in InTurn
        BY <3>5
      <4>2. CASE q = p
        BY <1>3, <2>5, <2>6, <3>1, <4>1, <4>2 DEF Known
      <4> QED
        BY <2>3, <4>1, <4>2
    <3> QED
      BY <3>1, <3>3, <3>4, <3>5 DEF Kept, Remembered, InTurn
  <2> QED
    BY <2>7, <2>8, <2>9 DEF Kept
<1> QED
  BY <1>5, <1>6, <1>7, <1>8, <1>9

(* A mutate ends: nothing is left to be written.                            *)
LEMMA KnownEnds ==
  ASSUME Inv, NEW own \in Owning, NEW p \in Procs, call[p].at \in {"write", "binding"},
         call'[p].at \notin {"write", "binding"}, \A q \in Procs \ {p} : call'[q] = call[q],
         \A u \in Users : own[u] # None => u \in issued /\ own[u] \in {Primary, u},
         \A u \in Users : Contents'[u] # None => Contents'[u].bot = own[u],
         \A u \in Users : owned[u] # None => own[u] # None /\ owned[u].bot = own[u],
         \A u \in Users : mapped[u] # 0 => own[u] = u,
         \A q \in Procs : KnownTo(call[q], own)',
         UNCHANGED <<issued, owned, mapped>>
  PROVE  Known(own)'
<1>1. \A q \in Procs : Drafted(q, own)'
  BY DEF Inv, Drafting, Drafted
<1> QED
  BY <1>1 DEF Known

(* A first bot is the person's from then on.                                *)
LEMMA BoundKept ==
  ASSUME Inv, NEW own \in Owning, Kept(own), NEW p \in Procs, Bound(p)
  PROVE  \E new \in Owning : Kept(new)'
<1>1. StoreTypeOK /\ CallTypes /\ HostTypes /\ MainTypes /\ call[p] \in Calls /\ Placed(call[p])
  BY DEF Inv, Types, CallTypes
<1>2. Turned /\ Drafting /\ Accounted /\ Hosted /\ Contents \in Files
  BY <1>1, ContentsFacts DEF Inv, StoreTypeOK
<1>3. Known(own) /\ KnownTo(call[p], own) /\ Drafted(p, own)
  BY DEF Kept, Known
<1> DEFINE u == call[p].user
           b == call[p].bot
<1>4. /\ call[p].at = "binding" /\ u \in Users /\ b \in Bots
      /\ UNCHANGED <<mainVars, owned, hostVars, astray>>
  BY <1>1 DEF Bound, Placed
<1>5. /\ Contents[u] # None /\ Contents[u].bot = None /\ b \in {Primary, u} /\ own[u] = None
      /\ draft[p] = [Contents EXCEPT ![u] = [role |-> Contents[u].role, bot |-> b]]
  BY <1>3, <1>4 DEF Drafted, Known
<1>6. /\ draft[p] # None /\ draft[p] \in Files /\ Proper(draft[p])
  BY <1>2, <1>4 DEF Drafting, Accounted, Becomes
<1>7. Reqs \subseteq Procs
  BY FleetAssumption
<1>8. CASE Written(p) /\ LookUp(p, b) /\ UNCHANGED unlucky
  <2>14. [own EXCEPT ![u] = b] \in Owning
    BY <1>4 DEF Owning
  <2>15. PICK new \in Owning : new = [own EXCEPT ![u] = b]
    BY <2>14
  <2>1. /\ \A q \in Procs \ {p} : call'[q] = call[q]
        /\ new[u] = b
        /\ \A v \in Users \ {u} : new[v] = own[v]
    BY <1>1, <1>4, <1>8, <2>15, LookUpMoves DEF Owning
  <2>2. Contents' = draft[p] /\ UNCHANGED issued
    BY <1>6, <1>8, WrittenIsRead DEF Written
  <2>3. /\ Contents'[u] = [role |-> Contents[u].role, bot |-> b]
        /\ \A v \in Users \ {u} : Contents'[v] = Contents[v]
    BY <1>2, <1>4, <1>5, <2>2 DEF Files
  <2>4. b # None
    BY <1>4, RecordsAreAccounts
  <2> HIDE DEF b
  <2>5. KnownTo(call[p], new)
    <3>1. call[p].kind = "remove" => call[p].on \in Users
      BY <1>1 DEF Placed
    <3> QED
      BY <1>3, <1>4, <1>5, <2>1, <3>1 DEF KnownTo
  <2>6. /\ KnownTo(call'[p], new)
        /\ call'[p].at \in {"config", "await", "act", "idle"}
        /\ call'[p].at = "config" => call'[p].user = u
        /\ call'[p].at # "config" => mapped[b] # 0
    BY <1>1, <1>4, <1>8, <2>1, <2>5, LookUpKnows
  <2>7. ASSUME NEW q \in Procs PROVE KnownTo(call[q], new)'
    <3>1. CASE q = p
      BY <2>2, <2>6, <3>1 DEF KnownTo
    <3>2. CASE q # p
      <4>1. call[q] \in Calls /\ Placed(call[q]) /\ KnownTo(call[q], own)
        BY <1>1, <1>3 DEF CallTypes, Known
      <4>2. call[q].at # "config"
        BY <1>2, <1>4, <3>2 DEF Turned, TurnSteps
      <4>3. /\ call[q].at \notin {"idle", "dead"} => call[q].user \in Users
            /\ call[q].kind = "remove" => call[q].on \in Users
        BY <4>1 DEF Placed
      <4>4. /\ call[q].at \notin {"idle", "dead"} => call[q].snap.bot \in {None, new[call[q].user]}
            /\ call[q].kind = "remove" /\ call[q].target # None =>
                 call[q].target.bot \in {None, new[call[q].on]}
        BY <1>5, <2>1, <4>1, <4>3 DEF KnownTo
      <4>5. \A v \in Users : Contents[v] = None => Contents'[v] = None
        BY <1>5, <2>3
      <4>6. call[q].at \in {"remove", "release"} => call[q].kind = "remove"
        BY <4>1 DEF KnownTo
      <4> QED
        BY <2>1, <2>2, <3>2, <4>1, <4>2, <4>3, <4>4, <4>5, <4>6 DEF KnownTo
    <3> QED
      BY <3>1, <3>2
  <2>8. Known(new)'
    <3>1. \A v \in Users : new[v] # None => v \in issued /\ new[v] \in {Primary, v}
      BY <1>2, <1>3, <1>5, <2>1 DEF Known, Accounted
    <3>2. \A v \in Users : Contents'[v] # None => Contents'[v].bot = new[v]
      BY <1>3, <2>1, <2>3 DEF Known
    <3>3. \A v \in Users : owned[v] # None => new[v] # None /\ owned[v].bot = new[v]
      BY <1>3, <1>5, <2>1 DEF Known
    <3>4. \A v \in Users : mapped[v] # 0 => new[v] = v
      BY <1>3, <1>5, <2>1, RecordsAreAccounts DEF Known, Bots
    <3> QED
      BY <1>4, <2>1, <2>2, <2>6, <2>7, <3>1, <3>2, <3>3, <3>4, KnownEnds DEF hostVars
  <2>9. RemovedBotStops'
    <3>1. \A v \in Users : Contents'[v] = None => Contents[v] = None
      <4>1. Contents'[u] \in Records
        BY <1>2, <1>4, <1>5, <2>3 DEF Files, Records
      <4> QED
        BY <2>3, <4>1, RecordsAreAccounts
    <3>2. \A q \in Procs : call[q].at = "release" => call'[q] = call[q]
      BY <1>4, <2>1
    <3> QED
      BY <1>4, <1>7, <3>1, <3>2 DEF Kept, RemovedBotStops, hostVars
  <2>10. Remembered'
    <3>1. SUFFICES ASSUME NEW v \in Users, phase = "serving", Contents'[v] # None, Contents'[v].bot # None
                   PROVE  \/ mapped[Contents'[v].bot] # 0
                          \/ owned[v] # None \/ v \in unlucky'
                          \/ \E q \in Procs : call'[q].user = v /\ call'[q].at \in InTurn
      BY <1>4 DEF Remembered, InTurn, mainVars, hostVars
    <3>2. CASE v = u
      <4>1. Contents'[v].bot = b
        BY <2>3, <3>2
      <4> QED
        BY <2>6, <3>2, <4>1 DEF InTurn, TurnSteps
    <3>3. CASE v # u
      <4>1. Contents'[v] = Contents[v]
        BY <2>3, <3>3
      <4>2. unlucky' = unlucky
        BY <1>8
      <4>3. \A q \in Procs : call[q].user = v => call'[q] = call[q]
        BY <2>1, <3>3
      <4> QED
        BY <3>1, <4>1, <4>2, <4>3 DEF Kept, Remembered, InTurn
    <3> QED
      BY <3>2, <3>3
  <2> QED
    BY <2>1, <2>8, <2>9, <2>10 DEF Kept
<1>9. CASE NotWritten(p) /\ TurnFails(p)
  <2>1. /\ \A q \in Procs \ {p} : call'[q] = call[q]
        /\ KnownTo(call'[p], own) /\ call'[p].at \in {"idle", "dead"}
        /\ u \in unlucky' /\ unlucky \subseteq unlucky'
    BY <1>1, <1>9, FailsMoves, FailsKnowing
  <2>2. Contents' = Contents /\ UNCHANGED issued
    BY <1>1, <1>9, StoreTypes DEF NotWritten
  <2>3. \A q \in Procs : KnownTo(call[q], own)'
    BY <1>3, <2>1, <2>2 DEF Known, KnownTo
  <2>4. Known(own)'
    BY <1>3, <1>4, <2>1, <2>2, <2>3, KnownEnds DEF Known, hostVars
  <2>5. RemovedBotStops'
    <3>1. \A q \in Procs : call[q].at = "release" => call'[q] = call[q]
      BY <1>4, <2>1
    <3> QED
      BY <1>4, <1>7, <2>2, <3>1 DEF Kept, RemovedBotStops, hostVars
  <2>6. Remembered'
    BY <1>4, <2>1, <2>2 DEF Kept, Remembered, hostVars, mainVars
  <2> QED
    BY <2>4, <2>5, <2>6 DEF Kept
<1> QED
  BY <1>8, <1>9 DEF Bound

(* Requests and the restore.                                                *)
LEMMA RequestKept ==
  ASSUME Inv, NEW own \in Owning, Kept(own), NEW r \in Procs,
         \/ Enter(r) \/ Restore(r)
         \/ r \in Reqs /\ RequestStep(r)
  PROVE  Kept(own)'
<1>1. StoreTypeOK /\ CallTypes /\ HostTypes /\ MainTypes /\ call[r] \in Calls /\ Placed(call[r])
  BY DEF Inv, Types, CallTypes
<1>2. Turned /\ Drafting /\ Accounted /\ Hosted /\ Contents \in Files
  BY <1>1, ContentsFacts DEF Inv, StoreTypeOK
<1>3. Known(own) /\ KnownTo(call[r], own) /\ Drafted(r, own)
  BY DEF Kept, Known
<1>4. Reqs \subseteq Procs
  BY FleetAssumption
<1> DEFINE u == call[r].on
           d == call'[r]
           Elsewhere == \A q \in Procs \ {r} : call'[q] = call[q]
<1>5. /\ call[r].at \in {"role", "remove", "write", "release"} => call[r].kind # "none"
      /\ call[r].kind # "none" => u \in Users
      /\ call[r].at \in {"act", "role", "remove", "write", "release"} => call[r].user \in Users
  BY <1>1 DEF Placed
<1>6. Answered(r) => Elsewhere /\ KnownTo(d, own) /\ d.at = "idle"
  BY <1>1, EndsKnowing, IdleCalls DEF Answered, CallTypes
<1>7. \A at \in Steps : At(r, at) =>
        /\ Elsewhere /\ d.at = at /\ d.user = call[r].user /\ d.snap = call[r].snap
        /\ d.kind = call[r].kind /\ d.on = u /\ d.target = call[r].target
  BY <1>1 DEF At, CallTypes, Calls
<1>8. ReadStore => Contents' = Contents /\ UNCHANGED <<draft, issued>> /\ Exclusive
  BY <1>1, StoreTypes DEF ReadStore
<1>9. UNCHANGED storeVars => Contents' = Contents /\ UNCHANGED <<draft, issued>>
  BY <1>1, Still DEF storeVars
<1>10. ASSUME NEW new \in Files, Mutate(r, new), issued' \in SUBSET Users
       PROVE  Contents' = Contents /\ Exclusive /\ draft'[r] = new
  BY <1>1, <1>10, StoreTypes DEF StoreTypeOK
<1> HIDE DEF d
<1>11. CASE Enter(r)
  <2>1. /\ ReadStore /\ UNCHANGED <<mainVars, owned, turn, hostVars, history>>
        /\ call[r].at = "idle"
    BY <1>11 DEF Enter
  <2>2. PICK v \in issued, kind \in Kinds :
          /\ Contents[v] # None
          /\ \E w \in On(kind), role \in IF kind \in {"create", "put"} THEN Roles ELSE {"user"} :
               call' = [call EXCEPT ![r] = [Idle EXCEPT !.at = "turn", !.user = v, !.snap = Contents[v],
                                                        !.kind = kind, !.on = w, !.role = role]]
    BY <1>11 DEF Enter
  <2>3. PICK w \in On(kind), role \in Roles :
          call' = [call EXCEPT ![r] = [Idle EXCEPT !.at = "turn", !.user = v, !.snap = Contents[v],
                                                   !.kind = kind, !.on = w, !.role = role]]
    BY <2>2 DEF Roles
  <2>4. /\ Elsewhere /\ d.at = "turn" /\ d.user = v /\ d.snap = Contents[v]
        /\ d.kind = kind /\ d.on = w /\ d.target = None
    BY <1>1, <2>3 DEF Idle, CallTypes, d
  <2>5. v \in Users /\ Contents[v].bot = own[v] /\ (kind = "remove" => w \in issued)
    BY <1>1, <1>3, <2>2, <2>3 DEF StoreTypeOK, Known, On
  <2>6. KnownTo(d, own)
    BY <2>4, <2>5 DEF KnownTo
  <2>7. \A q \in Procs : Fine(q, own)
    BY <2>1, <2>4, <2>6 DEF Fine, InTurn, TurnSteps, d
  <2> QED
    BY <1>8, <2>1, <2>7, Quietly DEF mainVars, hostVars, history
<1>12. CASE Restore(r)
  <2>1. /\ UNCHANGED storeVars /\ UNCHANGED <<mainVars, turn, hostVars, history, used>>
        /\ call[r].at = "idle"
    BY <1>12 DEF Restore
  <2>2. PICK v \in Users :
          /\ owned[v] # None
          /\ call' = [call EXCEPT ![r] = [Idle EXCEPT !.at = "turn", !.user = v, !.snap = owned[v]]]
          /\ owned' = [owned EXCEPT ![v] = None]
    BY <1>12 DEF Restore
  <2>3. Elsewhere /\ d.at = "turn" /\ d.user = v /\ d.snap = owned[v] /\ d.kind = "none"
    BY <1>1, <2>2 DEF Idle, CallTypes, d
  <2>4. KnownTo(d, own)
    BY <1>3, <2>2, <2>3 DEF KnownTo, Known
  <2>5. \A q \in Procs : Fine(q, own)
    BY <2>1, <2>3, <2>4 DEF Fine, InTurn, TurnSteps, d
  <2>6. \A w \in Users : \/ owned'[w] = owned[w]
                         \/ /\ owned'[w] = None
                            /\ \E p \in Procs : call'[p].user = w /\ call'[p].at \in InTurn
    BY <1>1, <2>2, <2>3 DEF MainTypes, Files, InTurn, d
  <2> QED
    BY <1>9, <2>1, <2>5, <2>6, Quietly DEF mainVars, hostVars, history
<1>13. CASE r \in Reqs /\ Act(r)
  <2>1. /\ call[r].at = "act" /\ UNCHANGED <<mainVars, owned, turn, hostVars, history, used>>
    BY <1>13 DEF Act
  <2>2. CASE Answered(r) /\ (UNCHANGED storeVars \/ ReadStore)
    <3>1. \A q \in Procs : Fine(q, own)
      BY <1>6, <2>1, <2>2 DEF Fine, InTurn, TurnSteps, d
    <3> QED
      BY <1>8, <1>9, <2>1, <2>2, <3>1, Quietly DEF mainVars, hostVars, history
  <2>3. CASE call[r].kind = "create" /\ Create(r, u, call[r].role) /\ At(r, "write")
    <3> DEFINE new == [Contents EXCEPT ![u] = [role |-> call[r].role, bot |-> None]]
    <3>1. /\ u \in Users /\ u \notin issued /\ issued' = issued \union {u} /\ Mutate(r, new)
      BY <1>5, <2>3 DEF Create
    <3>2. new \in Files /\ issued' \in SUBSET Users
      <4>1. [role |-> call[r].role, bot |-> None] \in Records
        BY <1>1 DEF Calls, Records
      <4> QED
        BY <1>1, <1>2, <3>1, <4>1 DEF Files, StoreTypeOK
    <3>3. /\ Elsewhere /\ d.at = "write" /\ d.user = call[r].user /\ d.snap = call[r].snap
          /\ d.kind = "create" /\ d.on = u
      BY <1>7, <2>3 DEF Steps
    <3>4. \A v \in Users : new[v] = IF v = u THEN [role |-> call[r].role, bot |-> None] ELSE Contents[v]
      BY <1>2 DEF Files
    <3>5. /\ Contents[u] = None /\ own[u] = None
      BY <1>2, <1>3, <3>1 DEF Accounted, Known
    <3> HIDE DEF new
    <3>6. Contents' = Contents /\ Exclusive /\ draft'[r] = new
      BY <1>10, <3>1, <3>2
    <3>7. KnownTo(d, own)
      BY <1>3, <2>1, <3>3 DEF KnownTo
    <3>8. Unsought(u)'
      <4>1. \A q \in Procs : call[q].at \in {"remove", "release"} => call[q].on \in issued
        BY <1>3 DEF Known, KnownTo
      <4> QED
        BY <3>1, <3>3, <4>1 DEF Unsought, d
    <3>9. Drafted(r, own)'
      <4>1. ASSUME NEW v \in Users, Contents[v] # None
            PROVE  new[v] # None
        BY <3>4, <3>5, <4>1
      <4>2. ASSUME NEW v \in Users, Contents[v] = None, new[v] # None
            PROVE  v = u
        BY <3>4, <4>2
      <4> QED
        BY <3>3, <3>5, <3>6, <3>8, <4>1, <4>2 DEF Drafted, d
    <3> QED
      BY <2>1, <3>1, <3>3, <3>6, <3>7, <3>9, KeptBegins DEF mainVars, hostVars, history, InTurn, TurnSteps, d
  <2>4. CASE call[r].kind = "put" /\ At(r, "role") /\ UNCHANGED storeVars
    <3>1. /\ Elsewhere /\ d.at = "role" /\ d.user = call[r].user /\ d.snap = call[r].snap
          /\ d.kind = "put"
      BY <1>7, <2>4 DEF Steps
    <3>2. KnownTo(d, own)
      BY <1>3, <2>1, <3>1 DEF KnownTo
    <3>3. \A q \in Procs : Fine(q, own)
      BY <2>1, <3>1, <3>2 DEF Fine, InTurn, TurnSteps, d
    <3> QED
      BY <1>9, <2>1, <2>4, <3>3, Quietly DEF mainVars, hostVars, history
  <2>5. CASE /\ call[r].kind = "remove" /\ ReadStore
             /\ call' = [call EXCEPT ![r].at = "remove", ![r].target = Contents[u]]
    <3>1. /\ Elsewhere /\ d.at = "remove" /\ d.user = call[r].user /\ d.snap = call[r].snap
          /\ d.kind = "remove" /\ d.on = u /\ d.target = Contents[u]
      BY <1>1, <2>5 DEF CallTypes, Calls, d
    <3>2. Contents[u] # None => Contents[u].bot = own[u]
      BY <1>3, <1>5, <2>5 DEF Known
    <3>3. KnownTo(d, own)
      BY <1>3, <2>1, <2>5, <3>1, <3>2 DEF KnownTo
    <3>4. \A q \in Procs : Fine(q, own)
      BY <1>8, <2>1, <2>5, <3>1, <3>3 DEF Fine, InTurn, TurnSteps, d
    <3> QED
      BY <1>8, <2>1, <2>5, <3>4, Quietly DEF mainVars, hostVars, history
  <2> QED
    BY <1>13, <2>2, <2>3, <2>4, <2>5 DEF Act
<1>14. CASE r \in Reqs /\ Change(r)
  <2>1. /\ call[r].at \in {"role", "remove"} /\ u \in Users
        /\ UNCHANGED <<mainVars, owned, turn, hostVars, history, used>>
    BY <1>5, <1>14 DEF Change
  <2>2. CASE ReadStore /\ Answered(r)
    <3>1. \A q \in Procs : Fine(q, own)
      BY <1>6, <2>1, <2>2 DEF Fine, InTurn, TurnSteps, d
    <3> QED
      BY <1>8, <2>1, <2>2, <3>1, Quietly DEF mainVars, hostVars, history
  <2>3. ASSUME At(r, "write"), Contents[u] # None, UNCHANGED issued,
               NEW x \in Records \union {None},
               Mutate(r, [Contents EXCEPT ![u] = x]),
               x = None <=> call[r].kind = "remove"
        PROVE  Kept(own)'
    <3> DEFINE new == [Contents EXCEPT ![u] = x]
    <3>1. /\ Elsewhere /\ d.at = "write" /\ d.user = call[r].user /\ d.snap = call[r].snap
          /\ d.kind = call[r].kind /\ d.on = u /\ d.target = call[r].target
      BY <1>7, <2>3 DEF Steps
    <3>2. new \in Files /\ \A v \in Users : new[v] = IF v = u THEN x ELSE Contents[v]
      BY <1>2 DEF Files
    <3> HIDE DEF new
    <3>3. Contents' = Contents /\ Exclusive /\ draft'[r] = new
      BY <1>1, <1>10, <2>3, <3>2 DEF new, StoreTypeOK
    <3>4. KnownTo(d, own)
      BY <1>3, <2>1, <3>1 DEF KnownTo
    <3>5. call[r].kind = "remove" => call[r].target # None
      BY <1>3, <2>1, <2>3 DEF KnownTo
    <3>6. Drafted(r, own)'
      BY <2>1, <2>3, <3>1, <3>2, <3>3, <3>5 DEF Drafted, d
    <3> QED
      BY <2>1, <2>3, <3>1, <3>3, <3>4, <3>6, KeptBegins DEF mainVars, hostVars, history, InTurn, TurnSteps, d
  <2>4. CASE call[r].at = "role" /\ SetRole(r, u, call[r].role) /\ At(r, "write")
    <3>1. /\ Contents[u] # None /\ UNCHANGED issued
          /\ Mutate(r, [Contents EXCEPT ![u] = [role |-> call[r].role, bot |-> Contents[u].bot]])
      BY <2>4 DEF SetRole, MaySetRole
    <3>2. [role |-> call[r].role, bot |-> Contents[u].bot] \in Records
      BY <1>1, <1>2, <2>1, <3>1 DEF Files, Records, Calls
    <3>3. call[r].kind = "put"
      BY <1>3, <2>4 DEF KnownTo
    <3> QED
      BY <2>3, <2>4, <3>1, <3>2, <3>3, RecordsAreAccounts
  <2>5. CASE call[r].at = "remove" /\ Remove(r, u) /\ At(r, "write")
    <3>1. /\ Contents[u] # None /\ UNCHANGED issued /\ Mutate(r, [Contents EXCEPT ![u] = None])
      BY <2>5 DEF Remove, MayRemove
    <3>2. call[r].kind = "remove"
      BY <1>3, <2>5 DEF KnownTo
    <3> QED
      BY <2>3, <2>5, <3>1, <3>2
  <2> QED
    BY <1>14, <2>2, <2>4, <2>5 DEF Change
<1>15. CASE r \in Reqs /\ Changed(r)
  <2>1. /\ call[r].at = "write" /\ UNCHANGED <<mainVars, owned, turn, hostVars, history>>
        /\ draft[r] # None /\ draft[r] \in Files /\ Proper(draft[r])
    BY <1>2, <1>15 DEF Changed, Drafting, Accounted, Becomes
  <2>2. CASE Written(r) /\ IF call[r].kind = "remove" /\ call[r].target # None
                           THEN At(r, "release") ELSE Answered(r)
    <3>1. Contents' = draft[r] /\ UNCHANGED issued
      BY <2>1, <2>2, WrittenIsRead DEF Written
    <3>2. \A v \in Users :
            /\ Contents[v] # None /\ Contents'[v] = None => call[r].kind = "remove" /\ v = u
            /\ Contents[v] = None /\ Contents'[v] # None => own[v] = None /\ Unsought(v)
            /\ Contents'[v] # None => Contents'[v].bot = own[v]
      <4>1. KeepsBots(Contents, draft[r])
        BY <1>2, <2>1 DEF Accounted
      <4> QED
        BY <1>3, <2>1, <3>1, <4>1 DEF Drafted, Known, KeepsBots
    <3>3. call[r].kind = "remove" => call[r].target # None /\ Contents'[u] = None
      BY <1>3, <2>1, <3>1 DEF Drafted
    <3>4. /\ Elsewhere /\ d.at \in {"idle", "release"}
          /\ call[r].kind = "remove" => d.at = "release" /\ d.on = u
          /\ d.at = "release" => /\ call[r].kind = "remove" /\ d.kind = "remove"
                                 /\ d.snap = call[r].snap /\ d.user = call[r].user
                                 /\ d.on = u /\ d.target = call[r].target
      BY <1>6, <1>7, <2>2, <3>3 DEF Steps
    <3>5. KnownTo(call[r], own)'
      <4>1. CASE d.at = "release"
        BY <1>3, <2>1, <3>1, <3>3, <3>4, <4>1 DEF KnownTo, d
      <4>2. CASE Answered(r)
        <5>1. d = Idle
          BY <1>1, <4>2 DEF Answered, CallTypes, d
        <5> QED
          BY <5>1 DEF d, KnownTo, Idle
      <4> QED
        BY <1>7, <2>2, <4>1, <4>2 DEF Steps
    <3>6. ASSUME NEW q \in Procs \ {r} PROVE KnownTo(call[q], own)'
      <4>1. call[q] \in Calls /\ Placed(call[q]) /\ KnownTo(call[q], own)
        BY <1>1, <1>3 DEF CallTypes, Known
      <4>2. call[q].at \in {"remove", "release"} => call[q].on \in Users /\ call[q].kind = "remove"
        BY <4>1 DEF Placed, KnownTo
      <4>3. call[q].at \in {"remove", "release"} /\ Contents[call[q].on] = None =>
              Contents'[call[q].on] = None
        BY <3>2, <4>2 DEF Unsought
      <4> QED
        BY <3>1, <3>4, <4>1, <4>2, <4>3 DEF KnownTo
    <3>7. Known(own)'
      BY <1>3, <2>1, <3>1, <3>2, <3>4, <3>5, <3>6, KnownEnds DEF Known, hostVars, d
    <3>8. RemovedBotStops'
      <4>1. SUFFICES ASSUME NEW v \in Users, mapped[v] # 0, Contents'[v] = None, v \notin astray
                     PROVE  \E q \in Reqs : call'[q].at = "release" /\ call'[q].on = v
        BY <2>1 DEF RemovedBotStops, hostVars, history
      <4>2. CASE Contents[v] # None
        BY <1>15, <3>2, <3>4, <4>1, <4>2 DEF d
      <4>3. CASE Contents[v] = None
        <5>1. PICK q \in Reqs : call[q].at = "release" /\ call[q].on = v
          BY <4>1, <4>3 DEF Kept, RemovedBotStops
        <5> QED
          BY <1>4, <2>1, <3>4, <5>1
      <4> QED
        BY <4>2, <4>3
    <3>9. Remembered'
      <4>1. SUFFICES ASSUME NEW v \in Users, phase = "serving", Contents'[v] # None, Contents'[v].bot # None
                     PROVE  \/ mapped[Contents'[v].bot] # 0
                            \/ owned[v] # None \/ v \in unlucky
                            \/ \E q \in Procs : call'[q].user = v /\ call'[q].at \in InTurn
        BY <2>1 DEF Remembered, InTurn, mainVars, hostVars, history
      <4>2. Contents[v] # None /\ Contents[v].bot = Contents'[v].bot
        BY <1>3, <3>2, <4>1 DEF Known
      <4>3. \A q \in Procs : call[q].at \in InTurn => call'[q] = call[q]
        BY <2>1, <3>4 DEF InTurn, TurnSteps
      <4> QED
        BY <4>1, <4>2, <4>3 DEF Kept, Remembered, InTurn
    <3> QED
      BY <3>7, <3>8, <3>9 DEF Kept
  <2>3. CASE NotWritten(r) /\ Answered(r)
    <3>1. Contents' = Contents /\ UNCHANGED issued
      BY <1>1, <2>3, StoreTypes DEF NotWritten
    <3>2. Elsewhere /\ KnownTo(d, own) /\ d.at = "idle"
      BY <1>6, <2>3
    <3>3. \A q \in Procs : KnownTo(call[q], own)'
      BY <1>3, <3>1, <3>2 DEF Known, KnownTo, d
    <3>4. Known(own)'
      BY <1>3, <2>1, <3>1, <3>2, <3>3, KnownEnds DEF Known, hostVars, d
    <3>5. RemovedBotStops'
      <4>1. \A q \in Procs : call[q].at = "release" => call'[q] = call[q]
        BY <2>1, <3>2
      <4> QED
        BY <1>4, <2>1, <3>1, <4>1 DEF Kept, RemovedBotStops, hostVars, history
    <3>6. Remembered'
      <4>1. \A q \in Procs : call[q].at \in InTurn => call'[q] = call[q]
        BY <2>1, <3>2 DEF InTurn, TurnSteps
      <4> QED
        BY <2>1, <3>1, <4>1 DEF Kept, Remembered, hostVars, history, mainVars, InTurn
    <3> QED
      BY <3>4, <3>5, <3>6 DEF Kept
  <2> QED
    BY <1>15, <2>2, <2>3 DEF Changed
<1>16. CASE r \in Reqs /\ Release(r)
  <2> DEFINE b == call[r].target.bot
  <2>1. /\ call[r].at = "release" /\ UNCHANGED <<storeVars, mainVars, owned, turn, unlucky, used>>
        /\ astray' = IF b = None THEN astray \union {u} ELSE astray
        /\ call[r].kind = "remove" /\ u \in Users /\ Contents[u] = None
        /\ call[r].target # None
    BY <1>1, <1>3, <1>5, <1>16, RecordsAreAccounts DEF Release, Placed, KnownTo
  <2>2. b \in {None, own[u]} /\ b \in {None, Primary, u}
    BY <1>3, <2>1 DEF KnownTo, Known
  <2>3. Contents' = Contents /\ UNCHANGED <<draft, issued>>
    BY <1>9, <2>1 DEF storeVars
  <2>4. /\ Elsewhere /\ d.at \in {"idle", "closing"} /\ KnownTo(d, own)
        /\ mapped' = mapped \/ (b \in Bots \ {Primary} /\ mapped' = [mapped EXCEPT ![b] = 0])
        /\ b \in {None, Primary} \/ mapped'[b] = 0
    <3>1. CASE call' = [call EXCEPT ![r] = Idle] /\ UNCHANGED hostVars
               /\ (b \in {None, Primary} \/ mapped[b] = 0)
      BY <1>6, <3>1 DEF Answered, hostVars
    <3>2. CASE /\ b \notin {None, Primary} /\ mapped' = [mapped EXCEPT ![b] = 0]
               /\ call' = [call EXCEPT ![r].at = "closing", ![r].host = mapped[b]]
      <4>1. /\ Elsewhere /\ d.at = "closing" /\ d.user = call[r].user /\ d.snap = call[r].snap
            /\ d.kind = call[r].kind /\ d.on = u /\ d.target = call[r].target
        BY <1>1, <3>2 DEF CallTypes, Calls, d
      <4>2. KnownTo(d, own)
        BY <1>3, <2>1, <4>1 DEF KnownTo
      <4>3. b \in Bots
        BY <2>1, <2>2, <3>2 DEF Bots
      <4> QED
        BY <1>1, <3>2, <4>1, <4>2, <4>3 DEF HostTypes
    <3> QED
      BY <1>16, <3>1, <3>2 DEF Release
  <2> HIDE DEF b
  <2>5. \A c \in Bots : mapped'[c] # 0 => mapped[c] # 0
    BY <1>1, <2>4 DEF HostTypes
  <2>6. Known(own)'
    <3>1. \A q \in Procs : KnownTo(call[q], own)'
      BY <1>3, <2>3, <2>4 DEF Known, KnownTo, d
    <3>2. \A v \in Users : Unsought(v) => Unsought(v)'
      BY <2>4 DEF Unsought, d
    <3>3. ASSUME NEW q \in Procs PROVE Drafted(q, own)'
      <4>1. CASE q = r
        BY <2>4, <4>1 DEF Drafted, d
      <4>2. CASE q # r
        <5>1. call'[q] = call[q] /\ Drafted(q, own)
          BY <1>3, <2>4, <4>2 DEF Known
        <5> QED
          BY <2>3, <3>2, <5>1 DEF Drafted
      <4> QED
        BY <4>1, <4>2
    <3> QED
      BY <1>3, <2>1, <2>3, <2>5, <3>1, <3>3 DEF Known, Bots
  <2>7. RemovedBotStops'
    <3>1. SUFFICES ASSUME NEW v \in Users, mapped'[v] # 0, Contents[v] = None, v \notin astray'
                   PROVE  \E q \in Reqs : call'[q].at = "release" /\ call'[q].on = v
      BY <2>3 DEF RemovedBotStops
    <3>2. mapped[v] # 0 /\ v \notin astray /\ own[v] = v
      BY <1>3, <2>1, <2>5, <3>1 DEF Known, Bots
    <3>3. PICK q \in Reqs : call[q].at = "release" /\ call[q].on = v
      BY <3>1, <3>2 DEF Kept, RemovedBotStops
    <3>4. q # r
      <4>1. ASSUME q = r PROVE FALSE
        <5>1. v = u /\ b # None
          BY <2>1, <3>1, <3>3, <4>1
        <5>2. b = v
          BY <2>2, <3>2, <5>1
        <5> QED
          BY <2>4, <3>1, <5>2, RecordsAreAccounts, StoreAssumption DEF Bots
      <4> QED
        BY <4>1
    <3> QED
      BY <1>4, <2>4, <3>3, <3>4
  <2>8. Remembered'
    <3>1. SUFFICES ASSUME NEW v \in Users, phase = "serving", Contents[v] # None, Contents[v].bot # None
                   PROVE  \/ mapped'[Contents[v].bot] # 0
                          \/ owned[v] # None \/ v \in unlucky
                          \/ \E q \in Procs : call'[q].user = v /\ call'[q].at \in InTurn
      BY <2>1, <2>3 DEF Remembered, InTurn, mainVars
    <3>2. Contents[v].bot \in Bots /\ Contents[v].bot \in {Primary, v} /\ v # u
      BY <1>2, <1>3, <2>1, <3>1 DEF Files, Records, Known
    <3>3. mapped'[Contents[v].bot] = mapped[Contents[v].bot]
      <4>1. CASE mapped' = mapped
        BY <4>1
      <4>2. CASE b \in Bots \ {Primary} /\ mapped' = [mapped EXCEPT ![b] = 0]
        <5>1. b # Contents[v].bot
          BY <2>2, <3>2, <4>2, RecordsAreAccounts, StoreAssumption DEF Bots
        <5> QED
          BY <1>1, <3>2, <4>2, <5>1 DEF HostTypes
      <4> QED
        BY <2>4, <4>1, <4>2
    <3>4. \A q \in Procs : call[q].at \in InTurn => call'[q] = call[q]
      BY <2>1, <2>4 DEF InTurn, TurnSteps
    <3> QED
      BY <3>1, <3>3, <3>4 DEF Kept, Remembered, InTurn
  <2> QED
    BY <2>6, <2>7, <2>8 DEF Kept
<1> QED
  BY <1>11, <1>12, <1>13, <1>14, <1>15, <1>16 DEF RequestStep

(* The end of a connect or of a close lets who waits for it go on with what *)
(* they know.                                                               *)
LEMMA HostKept ==
  ASSUME Inv, NEW own \in Owning, Kept(own), NEW h \in Hosts, HostReady(h) \/ HostCloses(h)
  PROVE  Kept(own)'
<1>1. StoreTypeOK /\ CallTypes
  BY DEF Inv, Types
<1>2. PICK waits \in SUBSET {"await", "closing"} : Settled(waits, h)
  BY DEF HostReady, HostCloses
<1>3. UNCHANGED <<file, draft, issued, phase, owned, mapped, astray, unlucky>>
  BY DEF HostReady, HostCloses, storeVars, mainVars, history
<1>4. Contents' = Contents
  BY <1>3 DEF Contents
<1>5. ASSUME NEW q \in Procs PROVE Fine(q, own)
  <2>1. call[q] \in Calls /\ KnownTo(call[q], own)
    BY <1>1 DEF CallTypes, Kept, Known
  <2>2. CASE call'[q] = call[q]
    BY <2>2 DEF Fine
  <2>3. CASE /\ call'[q] \in {Idle, Onward(call[q])}
             /\ call[q].at \in {"await", "closing"}
    <3> DEFINE c == call[q]
               d == Onward(call[q])
    <3>1. /\ d.at = IF c.at = "await" THEN "act" ELSE "idle"
          /\ d.user = c.user /\ d.snap = c.snap /\ d.kind = c.kind /\ d.on = c.on
          /\ d.target = c.target
      BY <2>1 DEF Onward, Calls
    <3> HIDE DEF d
    <3>2. KnownTo(d, own)
      BY <2>1, <2>3, <3>1 DEF KnownTo
    <3>3. KnownTo(call'[q], own) /\ call'[q].at \in {"idle", "act"}
      BY <2>3, <3>1, <3>2, EndsKnowing, IdleCalls DEF d
    <3> QED
      BY <2>3, <3>3 DEF Fine, InTurn, TurnSteps
  <2> QED
    BY <1>2, <2>2, <2>3 DEF Settled
<1> QED
  BY <1>3, <1>4, <1>5, Quietly

(* The process starts, lists the accounts, closes and ends.                 *)
LEMMA MainKept ==
  ASSUME Inv, NEW own \in Owning, Kept(own),
         Boot \/ Serve \/ ServeUnlisted \/ Stop \/ AllClosed \/ Gone
  PROVE  Kept(own)'
<1>1. StoreTypeOK /\ CallTypes /\ HostTypes /\ MainTypes /\ Contents \in Files
  BY ContentsFacts DEF Inv, Types, StoreTypeOK
<1>2. Known(own)
  BY DEF Kept
<1>3. UNCHANGED issued /\ Contents' = Contents
  BY <1>1, StoreTypes DEF Boot, Serve, ServeUnlisted, Stop, AllClosed, Gone, ReadStore, storeVars, Contents
<1>4. \A u \in Users : u # Primary
  BY StoreAssumption
<1>5. \A u \in Users : mapped'[u] # 0 => mapped[u] # 0
  <2>1. CASE Boot
    BY <1>1, <1>4, <2>1 DEF Boot, HostTypes, Bots
  <2>2. CASE Stop \/ Gone
    BY <2>2 DEF Stop, Gone, Bots
  <2>3. CASE Serve \/ ServeUnlisted \/ AllClosed
    BY <2>3 DEF Serve, ServeUnlisted, AllClosed, hostVars
  <2> QED
    BY <2>1, <2>2, <2>3
<1>6. \A u \in Users : owned'[u] # None => own[u] # None /\ owned'[u].bot = own[u]
  <2>1. CASE Serve
    BY <1>2, <2>1 DEF Serve, OwnedNow, Known
  <2>2. CASE Gone
    BY <2>2 DEF Gone, NobodyYet
  <2>3. CASE Boot \/ ServeUnlisted \/ Stop \/ AllClosed
    BY <1>2, <2>3 DEF Boot, ServeUnlisted, Stop, AllClosed, Known
  <2> QED
    BY <2>1, <2>2, <2>3
<1>7. CASE Gone
  <2>1. \A p \in Procs : call'[p] = Idle
    BY <1>7 DEF Gone
  <2>2. \A p \in Procs : KnownTo(call[p], own)' /\ Drafted(p, own)'
    BY <2>1 DEF KnownTo, Drafted, Idle
  <2>3. Known(own)'
    BY <1>2, <1>3, <1>5, <1>6, <2>2 DEF Known
  <2>4. RemovedBotStops' /\ Remembered'
    BY <1>7 DEF Gone, RemovedBotStops, Remembered, Bots
  <2> QED
    BY <2>3, <2>4 DEF Kept
<1>8. CASE Boot \/ Serve \/ ServeUnlisted \/ Stop \/ AllClosed
  <2>1. UNCHANGED <<call, draft, astray>>
    BY <1>8 DEF Boot, Serve, ServeUnlisted, Stop, AllClosed, ReadStore, storeVars, history
  <2>2. \A p \in Procs : KnownTo(call[p], own)' /\ Drafted(p, own)'
    BY <1>2, <1>3, <2>1 DEF Known, KnownTo, Drafted, Unsought
  <2>3. Known(own)'
    BY <1>2, <1>3, <1>5, <1>6, <2>2 DEF Known
  <2>4. RemovedBotStops'
    BY <1>3, <1>5, <2>1 DEF Kept, RemovedBotStops
  <2>5. Remembered'
    <3>1. CASE Serve
      <4>1. \A u \in Users : Contents[u] # None /\ Contents[u].bot # None => owned'[u] # None
        BY <3>1 DEF Serve, OwnedNow
      <4> QED
        BY <1>3, <4>1 DEF Remembered
    <3>2. CASE Boot \/ Stop \/ AllClosed
      BY <3>2 DEF Boot, Stop, AllClosed, Remembered
    <3>3. CASE ServeUnlisted
      <4>1. \A u \in Users : Contents[u] # None /\ Contents[u].bot # None => OwnedNow[u] # None
        BY DEF OwnedNow
      <4>2. unlucky' = unlucky \union {u \in Users : OwnedNow[u] # None}
        BY <3>3 DEF ServeUnlisted
      <4> QED
        BY <1>3, <4>1, <4>2 DEF Remembered
    <3> QED
      BY <1>8, <3>1, <3>2, <3>3
  <2> QED
    BY <2>3, <2>4, <2>5 DEF Kept
<1> QED
  BY <1>7, <1>8

(* At the start a person was given the bot that their account has.          *)
LEMMA InitKept == Init => \E own \in Owning : Kept(own)
<1> SUFFICES ASSUME Init PROVE \E own \in Owning : Kept(own)
  OBVIOUS
<1>1. Inv /\ Contents \in Files
  BY InitInv, ContentsFacts DEF Inv, Types, StoreTypeOK
<1> DEFINE own == [u \in Users |-> IF Contents[u] # None THEN Contents[u].bot ELSE None]
<1>2. own \in Owning
  BY <1>1 DEF Owning, Files, Records
<1>3. \A u \in Users : own[u] # None => u \in issued /\ own[u] \in {Primary, u}
  BY <1>1 DEF Inv, Accounted, Proper
<1>4. \A u \in Users : Contents[u] # None => Contents[u].bot = own[u]
  OBVIOUS
<1> HIDE DEF own
<1>5. \A p \in Procs : call[p] = Idle /\ KnownTo(call[p], own) /\ Drafted(p, own)
  BY DEF Init, Idle, KnownTo, Drafted
<1>6. Known(own)
  BY <1>3, <1>4, <1>5 DEF Known, Init, NobodyYet, Bots
<1>7. RemovedBotStops /\ Remembered
  BY DEF Init, RemovedBotStops, Remembered, Bots
<1> QED
  BY <1>2, <1>6, <1>7 DEF Kept

(* Every step keeps whose bot is whose, or gives somebody their first.      *)
LEMMA NextKept ==
  Inv /\ (\E own \in Owning : Kept(own)) /\ [Next]_vars => (\E own \in Owning : Kept(own))'
<1> SUFFICES ASSUME Inv, NEW own \in Owning, Kept(own), [Next]_vars
             PROVE  \E new \in Owning : Kept(new)'
  BY DEF Owning, Bots
<1>1. CASE HostSteps
  BY <1>1, HostKept DEF HostSteps
<1>2. CASE \E p \in Procs : TurnStep(p) \/ ResolveFails(p)
  BY <1>2, TurnKept, BoundKept DEF TurnStep
<1>3. CASE \E r \in Reqs : RequestStep(r) \/ Enter(r)
  BY <1>3, RequestKept, FleetAssumption
<1>4. CASE \E w \in Restorers : Restore(w)
  BY <1>4, RequestKept DEF Restorers
<1>5. CASE MainStep \/ ServeUnlisted \/ Boot \/ Stop \/ Crash
  BY <1>5, MainKept DEF MainStep, Exit, Crash
<1>6. CASE UNCHANGED vars
  <2>1. UNCHANGED <<file, draft, issued, phase, owned, mapped, astray, unlucky, call>>
    BY <1>6 DEF vars, fleetVars, storeVars, mainVars, hostVars, history
  <2>2. Contents' = Contents /\ \A q \in Procs : Fine(q, own)
    BY <2>1 DEF Contents, Fine
  <2> QED
    BY <2>1, <2>2, Quietly
<1> QED
  BY <1>1, <1>2, <1>3, <1>4, <1>5, <1>6 DEF Next, GoesOn

LEMMA KeptAlways == Spec => [](\E own \in Owning : Kept(own))
BY InitKept, NextKept, InvAlways, PTL DEF Spec

(* A removed person's bot stops (RemovedBotStops, release of                *)
(* bot-registry.ts): whatever sign-ins, restores, failed writes, signals    *)
(* and crashes come between, a bot whose owner is gone is about to be       *)
(* closed by who removed them, unless it was owned or made too late for     *)
(* that request to know of it.                                              *)
THEOREM RemovedStop == Spec => []RemovedBotStops
<1>1. (\E own \in Owning : Kept(own)) => RemovedBotStops
  BY DEF Kept
<1> QED
  BY <1>1, KeptAlways, PTL

------------------------------------------------------------------------------
(* The restore.                                                             *)

(* Each worker of startOwned has taken somebody else off the list, and one  *)
(* that has ended early failed with theirs; none works before the list.     *)
Restoring ==
  /\ phase \in {"new", "down", "starting"} =>
       owned = NobodyYet /\ \A w \in Restorers : call[w].at = "idle"
  /\ \A w \in Restorers :
       /\ call[w].at # "idle" => call[w].user \in Users /\ owned[call[w].user] = None
       /\ call[w].at = "dead" => call[w].user \in unlucky
       /\ \A v \in Restorers \ {w} :
            call[v].at # "idle" /\ call[w].at # "idle" => call[v].user # call[w].user

(* A step after which every worker still has whom it had, or nobody.        *)
LEMMA RestoringStays ==
  ASSUME Restoring, UNCHANGED owned, unlucky \subseteq unlucky',
         phase' = phase \/ phase' \notin {"new", "down", "starting"},
         \A w \in Restorers : \/ call'[w] = call[w]
                              \/ call'[w].at = "idle"
                              \/ /\ call'[w].user = call[w].user /\ call[w].at # "idle"
                                 /\ call'[w].at = "dead" => call[w].user \in unlucky'
  PROVE  Restoring'
BY DEF Restoring

(* One call of #resolve moves.                                              *)
LEMMA TurnRestores ==
  ASSUME Inv, Restoring, NEW p \in Procs, TurnStep(p) \/ ResolveFails(p)
  PROVE  Restoring'
<1>1. call \in [Procs -> Calls] /\ call[p] \in Calls
  BY DEF Inv, Types, CallTypes
<1>2. UNCHANGED owned /\ UNCHANGED phase /\ call[p].at # "idle"
  BY DEF TurnStep, Resolve, Assign, Bind, Bound, MakeHost, ResolveFails, mainVars
<1>3. ASSUME TurnFails(p)
      PROVE  /\ call' = [call EXCEPT ![p] = Failed(p)] /\ unlucky \subseteq unlucky'
             /\ \/ Failed(p).at = "idle"
                \/ Failed(p).user = call[p].user /\ call[p].user \in unlucky'
  BY <1>3 DEF TurnFails, Failed, Idle
<1>4. ASSUME NEW b, LookUp(p, b)
      PROVE  \E c : /\ call' = [call EXCEPT ![p] = c]
                    /\ \/ c.at = "idle"
                       \/ c.user = call[p].user /\ c.at # "dead"
  <2> DEFINE config == [[call[p] EXCEPT !.at = "config"] EXCEPT !.bot = b]
             waiting == [call[p] EXCEPT !.at = "await", !.bot = b, !.host = mapped[b]]
             acting == [call[p] EXCEPT !.at = "act", !.bot = b]
  <2>1. \E c \in {config, waiting, acting, Idle} : call' = [call EXCEPT ![p] = c]
    BY <1>1, <1>4 DEF LookUp
  <2>2. /\ \A c \in {config, waiting, acting} : c.user = call[p].user /\ c.at # "dead"
        /\ Idle.at = "idle"
    BY <1>1 DEF Calls, Idle
  <2> HIDE DEF config, waiting, acting
  <2> QED
    BY <2>1, <2>2
<1>5. /\ unlucky \subseteq unlucky'
      /\ \E c : /\ call' = [call EXCEPT ![p] = c]
                /\ \/ c.at = "idle"
                   \/ c.user = call[p].user /\ (c.at = "dead" => call[p].user \in unlucky')
  <2>1. CASE Resolve(p)
    <3>1. UNCHANGED unlucky
      BY <2>1 DEF Resolve, history
    <3>2. \/ \E b : LookUp(p, b)
          \/ \E r : call' = [call EXCEPT ![p].at = "assign", ![p].snap = r]
      BY <2>1 DEF Resolve
    <3>3. \A r : LET d == [[call[p] EXCEPT !.at = "assign"] EXCEPT !.snap = r]
                IN d.user = call[p].user /\ d.at = "assign"
      BY <1>1 DEF Calls
    <3>4. \A r : call' = [call EXCEPT ![p].at = "assign", ![p].snap = r] =>
                   call' = [call EXCEPT ![p] = [[call[p] EXCEPT !.at = "assign"] EXCEPT !.snap = r]]
      BY <1>1
    <3> QED
      BY <1>4, <3>1, <3>2, <3>3, <3>4
  <2>2. CASE Assign(p)
    <3>1. /\ UNCHANGED unlucky
          /\ \E b : call' = [call EXCEPT ![p].at = "bind", ![p].bot = b]
      BY <2>2 DEF Assign, history
    <3>2. PICK b : call' = [call EXCEPT ![p] = [[call[p] EXCEPT !.at = "bind"] EXCEPT !.bot = b]]
      BY <1>1, <3>1
    <3>3. LET d == [[call[p] EXCEPT !.at = "bind"] EXCEPT !.bot = b]
          IN d.user = call[p].user /\ d.at = "bind"
      BY <1>1 DEF Calls
    <3> QED
      BY <3>1, <3>2, <3>3
  <2>3. CASE Bind(p)
    <3>1. LET d == [call[p] EXCEPT !.at = "binding"] IN d.user = call[p].user /\ d.at = "binding"
      BY <1>1 DEF Calls
    <3> QED
      BY <1>3, <2>3, <3>1 DEF Bind
  <2>4. CASE Bound(p)
    BY <1>3, <1>4, <2>4 DEF Bound
  <2>5. CASE MakeHost(p)
    <3>1. PICK h : call' = [call EXCEPT ![p].at = "await", ![p].host = h]
      BY <2>5 DEF MakeHost
    <3>2. call' = [call EXCEPT ![p] = [[call[p] EXCEPT !.at = "await"] EXCEPT !.host = h]]
      BY <1>1, <3>1
    <3>3. LET d == [[call[p] EXCEPT !.at = "await"] EXCEPT !.host = h]
          IN d.user = call[p].user /\ d.at = "await"
      BY <1>1 DEF Calls
    <3> QED
      BY <2>5, <3>2, <3>3 DEF MakeHost
  <2>6. CASE ResolveFails(p)
    BY <1>3, <2>6 DEF ResolveFails
  <2> QED
    BY <2>1, <2>2, <2>3, <2>4, <2>5, <2>6 DEF TurnStep
<1>6. PICK c : /\ call' = [call EXCEPT ![p] = c]
               /\ \/ c.at = "idle"
                  \/ c.user = call[p].user /\ (c.at = "dead" => call[p].user \in unlucky')
  BY <1>5
<1>7. call'[p] = c /\ \A q \in Procs \ {p} : call'[q] = call[q]
  BY <1>1, <1>6
<1> QED
  BY <1>2, <1>5, <1>6, <1>7, RestoringStays DEF Restorers

(* Every step keeps the workers to different people.                        *)
LEMMA RestoringStep == Inv /\ Restoring /\ [Next]_vars => Restoring'
<1> SUFFICES ASSUME Inv, Restoring, [Next]_vars PROVE Restoring'
  OBVIOUS
<1>1. /\ call \in [Procs -> Calls] /\ owned \in Files /\ Hosted
      /\ Restorers \subseteq Procs /\ Restorers \intersect Reqs = {}
  BY DEF Inv, Types, CallTypes, MainTypes, Restorers
<1>2. CASE HostSteps
  <2>1. PICK h, waits : Settled(waits, h)
    BY <1>2 DEF HostSteps, HostReady, HostCloses
  <2>2. UNCHANGED <<owned, phase, unlucky>>
    BY <1>2 DEF HostSteps, HostReady, HostCloses, mainVars, history
  <2>3. \A w \in Restorers : call'[w] = call[w] \/ call'[w].at = "idle"
    BY <1>1, <2>1 DEF Settled, Idle
  <2> QED
    BY <2>2, <2>3, RestoringStays
<1>3. CASE \E p \in Procs : TurnStep(p) \/ ResolveFails(p)
  BY <1>3, TurnRestores
<1>4. CASE \E r \in Reqs : RequestStep(r) \/ Enter(r)
  <2>1. PICK r \in Reqs : RequestStep(r) \/ Enter(r)
    BY <1>4
  <2>2. UNCHANGED <<owned, phase, unlucky>>
    BY <2>1 DEF RequestStep, Act, Change, Changed, Release, Enter, mainVars, history
  <2>3. \E c : call' = [call EXCEPT ![r] = c]
    <3>1. \A at : At(r, at) => call' = [call EXCEPT ![r] = [call[r] EXCEPT !.at = at]]
      BY <1>1 DEF At
    <3>2. Answered(r) => \E c : call' = [call EXCEPT ![r] = c]
      BY DEF Answered
    <3>3. Act(r) \/ Change(r) \/ Changed(r) => \E c : call' = [call EXCEPT ![r] = c]
      BY <1>1, <3>1, <3>2 DEF Act, Change, Changed
    <3>4. Release(r) => \E c : call' = [call EXCEPT ![r] = c]
      BY <1>1 DEF Release
    <3>5. Enter(r) => \E c : call' = [call EXCEPT ![r] = c]
      BY DEF Enter
    <3> QED
      BY <2>1, <3>3, <3>4, <3>5 DEF RequestStep
  <2>4. \A w \in Restorers : call'[w] = call[w]
    BY <1>1, <2>3
  <2> QED
    BY <2>2, <2>4, RestoringStays
<1>5. ASSUME NEW w \in Restorers, Restore(w)
      PROVE  Restoring'
  <2>1. PICK u \in Users :
          /\ owned[u] # None
          /\ call' = [call EXCEPT ![w] = [Idle EXCEPT !.at = "turn", !.user = u, !.snap = owned[u]]]
          /\ owned' = [owned EXCEPT ![u] = None]
    BY <1>5 DEF Restore
  <2>2. call[w].at = "idle" /\ UNCHANGED <<phase, unlucky>>
    BY <1>5 DEF Restore, mainVars, history
  <2>3. /\ call'[w].at = "turn" /\ call'[w].user = u
        /\ \A v \in Restorers \ {w} : call'[v] = call[v]
    BY <1>1, <2>1 DEF Idle
  <2>4. owned'[u] = None /\ \A v \in Users \ {u} : owned'[v] = owned[v]
    BY <1>1, <2>1 DEF Files
  <2>5. phase \notin {"new", "down", "starting"}
    BY <2>1 DEF Restoring, NobodyYet
  <2>6. \A v \in Restorers : call[v].at # "idle" => call[v].user # u
    BY <2>1 DEF Restoring
  <2> QED
    BY <2>1, <2>2, <2>3, <2>4, <2>5, <2>6 DEF Restoring
<1>6. CASE Serve
  <2>1. phase = "starting" /\ phase' = "serving" /\ UNCHANGED <<call, unlucky>>
    BY <1>6 DEF Serve, history
  <2> QED
    BY <2>1 DEF Restoring
<1>7. CASE ServeUnlisted \/ AllClosed \/ Stop
  <2>1. /\ UNCHANGED <<call, owned>> /\ unlucky \subseteq unlucky'
        /\ phase' \notin {"new", "down", "starting"}
    BY <1>7 DEF ServeUnlisted, AllClosed, Stop, history
  <2> QED
    BY <2>1, RestoringStays
<1>8. CASE Boot
  <2>1. phase \in {"new", "down"} /\ UNCHANGED <<call, owned, unlucky>>
    BY <1>8 DEF Boot, history
  <2> QED
    BY <2>1 DEF Restoring
<1>9. CASE Gone
  <2>1. owned' = NobodyYet /\ \A w \in Restorers : call'[w].at = "idle"
    BY <1>1, <1>9 DEF Gone, Idle
  <2> QED
    BY <2>1 DEF Restoring
<1>10. CASE UNCHANGED vars
  <2>1. UNCHANGED <<call, owned, phase, unlucky>>
    BY <1>10 DEF vars, fleetVars, mainVars, history
  <2> QED
    BY <2>1, RestoringStays
<1> QED
  BY <1>2, <1>3, <1>4, <1>5, <1>6, <1>7, <1>8, <1>9, <1>10
  DEF Next, GoesOn, MainStep, Exit, Crash

(* The restore forgets no owned bot (OwnedBotsRun, startOwned and hostFor): *)
(* while the process serves, every bot with an owner is in the registry, is *)
(* being found or made, has failed itself or could not be listed, or is on  *)
(* the list with a worker left to take it.  The list is abandoned only when *)
(* every worker has failed, each with a different person's bot: no crash,   *)
(* restart, removal or request of another's loses a bot otherwise.          *)
THEOREM OwnedRun == Spec => []OwnedBotsRun
<1>1. Init => Restoring
  BY DEF Init, Restoring, Idle, Restorers
<1>2. (\E own \in Owning : Kept(own)) => Remembered
  BY DEF Kept
<1>3. Remembered /\ Restoring => OwnedBotsRun
  <2> SUFFICES ASSUME Remembered, Restoring, phase = "serving", NEW u \in BotOwners, ~SeenTo(u)
               PROVE  owned[u] # None /\ (GivenUp \/ \E w \in Restorers : call[w].at # "dead")
    BY DEF OwnedBotsRun
  <2>1. owned[u] # None
    BY DEF Remembered, BotOwners, SeenTo, InTurn
  <2>2. (\A w \in Restorers : call[w].at = "dead") => GivenUp
    BY DEF Restoring, GivenUp
  <2> QED
    BY <2>1, <2>2
<1>4. Spec => []Restoring
  BY <1>1, RestoringStep, InvAlways, PTL DEF Spec
<1> QED
  BY <1>2, <1>3, <1>4, KeptAlways, PTL
=============================================================================
