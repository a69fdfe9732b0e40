-------------------------------- MODULE Accounts --------------------------------
(***************************************************************************)
(* What the console promises about the people who sign in, whatever        *)
(* requests, first sign-ins and restores of bots do at the same time: each  *)
(* change of an account happens at once and as a whole, somebody can always *)
(* administer the system, and a bot is one person's for as long as they     *)
(* have an account.                                                         *)
(***************************************************************************)
CONSTANTS
  Users,    (* user ids; a user's own bot has the user's name               *)
  Primary,  (* the bot the process is started with                          *)
  None      (* no account, no bot                                           *)

VARIABLE accounts

Roles == {"admin", "user"}
Records == [role: Roles, bot: Users \union {Primary, None}]

(* Somebody can administer the system.                                      *)
Administered(f) == \E u \in Users : f[u] # None /\ f[u].role = "admin"

Init == accounts \in [Users -> Records \union {None}] /\ Administered(accounts)

Create(u, role) ==
  /\ accounts[u] = None
  /\ accounts' = [accounts EXCEPT ![u] = [role |-> role, bot |-> None]]

SetRole(u, role) ==
  /\ accounts[u] # None
  /\ accounts' = [accounts EXCEPT ![u] = [role |-> role, bot |-> accounts[u].bot]]
  /\ Administered(accounts')

(* A person's first bot, which nobody else has, and their only one.         *)
Own(u, b) ==
  /\ accounts[u] # None /\ accounts[u].bot = None
  /\ b \in {Primary, u}
  /\ \A v \in Users : accounts[v] # None => accounts[v].bot # b
  /\ accounts' = [accounts EXCEPT ![u] = [role |-> accounts[u].role, bot |-> b]]

Remove(u) ==
  /\ accounts[u] # None
  /\ accounts' = [accounts EXCEPT ![u] = None]
  /\ Administered(accounts')

Next ==
  \E u \in Users :
    \/ \E role \in Roles : Create(u, role) \/ SetRole(u, role)
    \/ \E b \in {Primary, u} : Own(u, b)
    \/ Remove(u)

Spec == Init /\ [][Next]_accounts
==============================================================================
