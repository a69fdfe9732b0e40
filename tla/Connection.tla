------------------------------- MODULE Connection -------------------------------
(***************************************************************************)
(* What a bot's host promises to those who use it, the console, the monitor *)
(* and the registry: it holds one connection or none, a connect runs on the *)
(* session it has found stored, a restart that is asked for begins when what*)
(* is under way has ended, and is not forgotten, a new session is never     *)
(* stored without one, and no connect begins once close has been called.    *)
(***************************************************************************)
CONSTANTS
  Sessions,  (* what a login may store                                      *)
  NoSession  (* nobody is logged in                                         *)

VARIABLES
  link,      (* the connection: "fresh" before the start, "leaving" while   *)
             (* the last one is torn down, "connecting", "up" or "off"      *)
  restart,   (* whether a restart is asked for and has not begun            *)
  closing,   (* how far close has got                                       *)
  stored,    (* the session that is stored                                  *)
  using      (* the session of the connection, or of the connect            *)

vars == <<link, restart, closing, stored, using>>

Init ==
  /\ link = "fresh" /\ restart = "no" /\ closing = "no"
  /\ stored \in Sessions \union {NoSession} /\ using = NoSession

Start ==
  /\ link = "fresh" /\ closing = "no"
  /\ link' = "connecting"
  /\ UNCHANGED <<restart, closing, stored, using>>

Ask ==
  /\ link # "fresh" /\ closing = "no"
  /\ restart' = "asked"
  /\ UNCHANGED <<link, closing, stored, using>>

(* The connection goes, if there is one ...                                 *)
Restart ==
  /\ restart = "asked" /\ link \in {"off", "up"}
  /\ restart' = "no" /\ link' = "leaving" /\ using' = NoSession
  /\ UNCHANGED <<closing, stored>>

(* ... and the next connect begins, unless the host is being closed.        *)
Left ==
  /\ link = "leaving"
  /\ link' = IF closing = "no" THEN "connecting" ELSE "off"
  /\ UNCHANGED <<restart, closing, stored, using>>

Read ==
  /\ link = "connecting" /\ using = NoSession /\ stored # NoSession
  /\ using' = stored
  /\ UNCHANGED <<link, restart, closing, stored>>

Succeed ==
  /\ link = "connecting" /\ using # NoSession
  /\ link' = "up"
  /\ UNCHANGED <<restart, closing, stored, using>>

(* The session is refused, or there is none.                                *)
Fail ==
  /\ link = "connecting"
  /\ link' = "off" /\ using' = NoSession
  /\ UNCHANGED <<restart, closing, stored>>

(* A new session asks for a restart, unless one is under way, which may     *)
(* find it still, or close has been called.                                 *)
Login(s) ==
  /\ link # "fresh"
  /\ stored' = s
  /\ restart' \in {restart, "asked"}
  /\ IF closing = "no"
     THEN link \in {"leaving", "connecting"} \/ restart' = "asked"
     ELSE restart' = restart
  /\ UNCHANGED <<link, closing, using>>

Logout ==
  /\ link # "fresh"
  /\ stored' = NoSession
  /\ UNCHANGED <<link, restart, closing, using>>

Close ==
  /\ closing = "no"
  /\ closing' = "waiting"
  /\ UNCHANGED <<link, restart, stored, using>>

(* It waits for the connect and the restart that are under way.             *)
Disconnect ==
  /\ closing = "waiting" /\ restart = "no" /\ link \in {"fresh", "off", "up"}
  /\ closing' = "running" /\ link' = "off" /\ using' = NoSession
  /\ UNCHANGED <<restart, stored>>

Closed ==
  /\ closing = "running"
  /\ closing' = "done"
  /\ UNCHANGED <<link, restart, stored, using>>

Next ==
  \/ Start \/ Ask \/ Restart \/ Left \/ Read \/ Succeed \/ Fail
  \/ \E s \in Sessions : Login(s)
  \/ Logout \/ Close \/ Disconnect \/ Closed

Spec == Init /\ [][Next]_vars
===============================================================================
