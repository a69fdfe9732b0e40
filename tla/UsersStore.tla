------------------------------- MODULE UsersStore -------------------------------
(***************************************************************************)
(* UsersStore (admin/users-store.ts): the accounts in one JSON file, which  *)
(* a request reads, changes and replaces under #exclusive.  Who waits for   *)
(* #exclusive gets it in any order here, a superset of the code's queue.    *)
(* Names, passwords and times are left out, and setPassword with them: it   *)
(* writes back the accounts it has read, under the same lock.  The file is  *)
(* missing while nobody has an account.                                     *)
(***************************************************************************)
EXTENDS Integers, FiniteSets

CONSTANTS
  Users,    (* user ids; botIdForUser gives a user's own bot the user's name *)
  First,    (* the seeded admin                                             *)
  Procs,    (* who uses the store: requests and restores                    *)
  Primary,  (* the bot the process was started with                         *)
  None

VARIABLES
  file,    (* the accounts on disk; None for an id that has no account      *)
  draft,   (* what a mutate that holds #exclusive is about to write         *)
  issued   (* history: the ids given so far; a random UUID is not given twice *)

storeVars == <<file, draft, issued>>

Bots == Users \union {Primary}
Roles == {"admin", "user"}
Records == [role: Roles, bot: Bots \union {None}]
NobodyYet == [u \in Users |-> None]

Files == [Users -> Records \union {None}]

ASSUME StoreAssumption ==
  /\ First \in Users /\ Primary \notin Users
  /\ None \notin Bots \union Records \union Files

StoreTypeOK ==
  /\ file \in Files
  /\ draft \in [Procs -> Files \union {None}]
  /\ issued \in SUBSET Users

(* #read, with #seed.                                                       *)
Contents ==
  IF file = NobodyYet
  THEN [file EXCEPT ![First] = [role |-> "admin", bot |-> None]]
  ELSE file

(* Mutant of Exclusive: transactions are not serialised.                    *)
ExclusiveNever == TRUE

(* #exclusive: no mutate is between its read and its write.                 *)
Exclusive == \A q \in Procs : draft[q] = None

(* A method that only reads.                                                *)
ReadStore == Exclusive /\ file' = Contents /\ UNCHANGED <<draft, issued>>

(* #mutate up to the write.                                                 *)
Mutate(p, new) ==
  /\ Exclusive
  /\ draft' = [draft EXCEPT ![p] = new]
  /\ file' = Contents

(* #write: the temporary file replaces the accounts ...                     *)
Written(p) ==
  /\ file' = draft[p]
  /\ draft' = [draft EXCEPT ![p] = None]
  /\ UNCHANGED issued

(* ... or is given up.                                                      *)
NotWritten(p) ==
  /\ draft' = [draft EXCEPT ![p] = None]
  /\ UNCHANGED <<file, issued>>

(* #assertAnotherAdminExists                                                *)
AnotherAdmin(f, u) == \E v \in Users \ {u} : f[v] # None /\ f[v].role = "admin"

(* create, setRole, setBotId and remove: what they refuse, and what they    *)
(* write.                                                                   *)
Create(p, u, role) ==
  /\ u \notin issued
  /\ issued' = issued \union {u}
  /\ Mutate(p, [Contents EXCEPT ![u] = [role |-> role, bot |-> None]])

MaySetRole(u, role) ==
  /\ Contents[u] # None
  /\ Contents[u].role = "admin" /\ role # "admin" => AnotherAdmin(Contents, u)

SetRole(p, u, role) ==
  /\ MaySetRole(u, role)
  /\ Mutate(p, [Contents EXCEPT ![u] = [role |-> role, bot |-> Contents[u].bot]])
  /\ UNCHANGED issued

MaySetBotId(u, b) ==
  /\ Contents[u] # None
  /\ \A v \in Users \ {u} : Contents[v] # None => Contents[v].bot # b

SetBotId(p, u, b) ==
  /\ MaySetBotId(u, b)
  /\ Mutate(p, [Contents EXCEPT ![u] = [role |-> Contents[u].role, bot |-> b]])
  /\ UNCHANGED issued

MayRemove(u) ==
  /\ Contents[u] # None
  /\ Contents[u].role = "admin" => AnotherAdmin(Contents, u)

Remove(p, u) ==
  /\ MayRemove(u)
  /\ Mutate(p, [Contents EXCEPT ![u] = None])
  /\ UNCHANGED issued
==============================================================================
