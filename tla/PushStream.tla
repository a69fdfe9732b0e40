-------------------------------- MODULE PushStream --------------------------------
(***************************************************************************)
(* The long-lived PUSH request of one LINE connection: the client side of   *)
(* it, NodeH2Sidecar (transport/h2-transport.ts), the Node process that     *)
(* owns the HTTP/2 sessions (transport/node-h2-sidecar.mjs), and LINEJS's   *)
(* pusher loop, which opens the request and reopens it (polling/mod.ts and  *)
(* push/conn.ts).                                                           *)
(*                                                                         *)
(* The two ends talk in lines over the process's stdin and stdout.  Lines   *)
(* about one request keep their order; lines about different requests are   *)
(* read in any order.  An id stands for one request as long as anything     *)
(* about it is left; after that a later request uses it again.              *)
(***************************************************************************)
EXTENDS Integers, Sequences, FiniteSets

CONSTANTS
  Ids,   (* bound on the PUSH requests something is left of                 *)
  None   (* LINEJS has made no request yet                                  *)

ASSUME PushAssumption == IsFiniteSet(Ids) /\ None \notin Ids

VARIABLES
  health,   (* #pushHealth.ready                                            *)
  entry,    (* #pushes: no entry, a response awaited, or a response given   *)
  child,    (* the process, which may have exited before its end is noticed *)
  wire,     (* lines on the way to the process                              *)
  stream,   (* the HTTP/2 stream of the process                             *)
  lines,    (* lines on the way back                                        *)
  pusher,   (* where LINEJS's loop is                                       *)
  current,  (* the request of conns[0], LINEJS's latest                     *)
  deaf      (* history: streams whose cancel came before activeStreams.set  *)

clientVars == <<health, entry>>
sidecarVars == <<child, wire, stream, lines, deaf>>
pusherVars == <<pusher, current>>
pushVars == <<clientVars, sidecarVars, pusherVars>>

Final == {"end", "error"}

PushTypeOK ==
  /\ health \in BOOLEAN
  /\ entry \in [Ids -> {"none", "waiting", "accepted"}]
  /\ child \in {"none", "up", "exited"}
  /\ wire \in [Ids -> Seq({"start", "cancel"})]
  /\ stream \in [Ids -> {"none", "opening", "open", "answered", "refused"}]
  /\ lines \in [Ids -> Seq({"headers", "refused"} \union Final)]
  /\ pusher \in {"idle", "ensuring", "connecting", "reading", "sleeping"}
  /\ current \in Ids \union {None}
  /\ deaf \in SUBSET Ids

(* A connection that has not listened yet.                                  *)
PushInit ==
  /\ health = FALSE /\ child = "none"
  /\ entry = [i \in Ids |-> "none"]
  /\ wire = [i \in Ids |-> <<>>]
  /\ stream = [i \in Ids |-> "none"]
  /\ lines = [i \in Ids |-> <<>>]
  /\ pusher = "idle" /\ current = None
  /\ deaf = {}

(* release, and the sidecar of the next connection.  The old client's loop  *)
(* goes on, on the old transport, and is not followed any further.          *)
Replaced ==
  /\ health' = FALSE /\ child' = "none"
  /\ entry' = [i \in Ids |-> "none"]
  /\ wire' = [i \in Ids |-> <<>>]
  /\ stream' = [i \in Ids |-> "none"]
  /\ lines' = [i \in Ids |-> <<>>]
  /\ pusher' = "idle" /\ current' = None
  /\ deaf' = {}

(* Nothing of an earlier request that used the id is left.                  *)
Fresh(i) ==
  /\ entry[i] = "none" /\ stream[i] = "none"
  /\ wire[i] = <<>> /\ lines[i] = <<>>

------------------------------------------------------------------------------
(* NodeH2Sidecar.                                                           *)

(* #write: the line is lost when the process has exited.                    *)
Write(i, line) ==
  wire' = IF child = "up" THEN [wire EXCEPT ![i] = Append(@, line)] ELSE wire

(* What the end of request i, with or without an error, does to LINEJS: the *)
(* loop that awaits its response or reads it fails and sleeps.              *)
Settled(i) ==
  /\ pusher' = IF current = i /\ pusher \in {"connecting", "reading"} THEN "sleeping" ELSE pusher
  /\ UNCHANGED current

(* #finishPushError: the health is cleared before the entry is looked up.   *)
FinishPushError(i) ==
  /\ health' = FALSE
  /\ entry' = [entry EXCEPT ![i] = "none"]
  /\ Settled(i)

(* #failAll                                                                 *)
FailAll ==
  /\ health' = IF \E i \in Ids : entry[i] # "none" THEN FALSE ELSE health
  /\ entry' = [i \in Ids |-> "none"]
  /\ pusher' = IF pusher \in {"connecting", "reading"} /\ entry[current] # "none"
               THEN "sleeping" ELSE pusher
  /\ UNCHANGED current

(* fetchPush up to #ensureStarted, which starts a process when it has no    *)
(* writer.                                                                  *)
EnsureStarted ==
  /\ pusher = "sleeping"
  /\ pusher' = "ensuring"
  /\ child' = IF child = "none" THEN "up" ELSE child
  /\ UNCHANGED <<clientVars, wire, stream, lines, deaf, current>>

(* fetchPush from there: the entry is made before push-start is written, and*)
(* stays when the write fails, where LINEJS gets no response and sleeps.    *)
OpenPush(i) ==
  /\ pusher = "ensuring" /\ Fresh(i)
  /\ health' = FALSE
  /\ entry' = [entry EXCEPT ![i] = "waiting"]
  /\ Write(i, "start")
  /\ current' = i
  /\ pusher' = IF child = "up" THEN "connecting" ELSE "sleeping"
  /\ deaf' = deaf \ {i}
  /\ UNCHANGED <<child, stream, lines>>

(* Mutant of AbortPush: the process is not told.                            *)
AbortPushQuietly ==
  /\ current # None /\ entry[current] = "waiting"
  /\ pusher \in {"connecting", "sleeping"}
  /\ FinishPushError(current)
  /\ UNCHANGED <<sidecarVars>>

(* onAbort, as long as there is no response.                                *)
AbortPush ==
  /\ current # None /\ entry[current] = "waiting"
  /\ pusher \in {"connecting", "sleeping"}
  /\ Write(current, "cancel")
  /\ FinishPushError(current)
  /\ UNCHANGED <<child, stream, lines, deaf>>

(* The catch of #pumpPushBody: the body of a request cannot be read or its  *)
(* bytes cannot be written, before the response or after it.                *)
PumpFails(i) ==
  /\ current # None
  /\ Write(i, "cancel")
  /\ FinishPushError(i)
  /\ UNCHANGED <<child, stream, lines, deaf>>

(* The response body's cancel: LINEJS cannot read a frame and stops.        *)
CancelPush ==
  /\ pusher = "reading"
  /\ Write(current, "cancel")
  /\ entry' = [entry EXCEPT ![current] = "none"]
  /\ health' = FALSE
  /\ pusher' = "sleeping"
  /\ UNCHANGED <<child, stream, lines, deaf, current>>

Took(i) == lines' = [lines EXCEPT ![i] = Tail(@)]

(* Mutant of ReadHeaders: a request that is gone makes PUSH ready too.      *)
ReadHeadersOfAny(i) ==
  /\ lines[i] # <<>> /\ Head(lines[i]) = "headers"
  /\ Took(i)
  /\ health' = TRUE
  /\ entry' = [entry EXCEPT ![i] = IF @ = "none" THEN "none" ELSE "accepted"]
  /\ pusher' = IF current = i /\ pusher = "connecting" THEN "reading" ELSE pusher
  /\ UNCHANGED <<child, wire, stream, deaf, current>>

(* #read, push-headers with a 2xx status.                                   *)
ReadHeaders(i) ==
  /\ lines[i] # <<>> /\ Head(lines[i]) = "headers"
  /\ Took(i)
  /\ IF entry[i] = "none"
     THEN UNCHANGED <<clientVars, pusher>>
     ELSE /\ health' = TRUE
          /\ entry' = [entry EXCEPT ![i] = "accepted"]
          /\ pusher' = IF current = i /\ pusher = "connecting" THEN "reading" ELSE pusher
  /\ UNCHANGED <<child, wire, stream, deaf, current>>

(* #read, push-headers with another status.                                 *)
ReadRefusal(i) ==
  /\ lines[i] # <<>> /\ Head(lines[i]) = "refused"
  /\ Took(i)
  /\ IF entry[i] = "none" THEN UNCHANGED <<clientVars, pusherVars>> ELSE FinishPushError(i)
  /\ UNCHANGED <<child, wire, stream, deaf>>

(* #read, push-end: only the end of a known stream clears the health.       *)
ReadEnd(i) ==
  /\ lines[i] # <<>> /\ Head(lines[i]) = "end"
  /\ Took(i)
  /\ health' = IF entry[i] = "none" THEN health ELSE FALSE
  /\ entry' = [entry EXCEPT ![i] = "none"]
  /\ Settled(i)
  /\ UNCHANGED <<child, wire, stream, deaf>>

(* #read, push-error.                                                       *)
ReadError(i) ==
  /\ lines[i] # <<>> /\ Head(lines[i]) = "error"
  /\ Took(i)
  /\ FinishPushError(i)
  /\ UNCHANGED <<child, wire, stream, deaf>>

(* The child.status handler of #ensureStarted.                              *)
NoticeExit ==
  /\ child = "exited"
  /\ child' = "none"
  /\ FailAll
  /\ UNCHANGED <<wire, stream, lines, deaf>>

------------------------------------------------------------------------------
(* The sidecar process.                                                     *)

Emit(i, line) == lines' = [lines EXCEPT ![i] = Append(@, line)]

(* input.on line, push-start: handlePushStart up to sessionFor.             *)
TakeStart(i) ==
  /\ child = "up" /\ wire[i] # <<>> /\ Head(wire[i]) = "start"
  /\ wire' = [wire EXCEPT ![i] = Tail(@)]
  /\ stream' = [stream EXCEPT ![i] = "opening"]
  /\ UNCHANGED <<clientVars, pusherVars, child, lines, deaf>>

(* input.on line, cancel: only a stream in activeStreams is closed, which   *)
(* then ends with push-error.                                               *)
TakeCancel(i) ==
  /\ child = "up" /\ wire[i] # <<>> /\ Head(wire[i]) = "cancel"
  /\ wire' = [wire EXCEPT ![i] = Tail(@)]
  /\ IF stream[i] \in {"open", "answered", "refused"}
     THEN /\ stream' = [stream EXCEPT ![i] = "none"]
          /\ Emit(i, "error")
          /\ UNCHANGED deaf
     ELSE /\ deaf' = IF stream[i] = "opening" THEN deaf \union {i} ELSE deaf
          /\ UNCHANGED <<stream, lines>>
  /\ UNCHANGED <<clientVars, pusherVars, child>>

(* handlePushStart after sessionFor: session.request and activeStreams.set. *)
SessionOpens(i) ==
  /\ stream[i] = "opening"
  /\ stream' = [stream EXCEPT ![i] = "open"]
  /\ UNCHANGED <<clientVars, pusherVars, child, wire, lines, deaf>>

(* The response event.                                                      *)
Respond(i, status) ==
  /\ stream[i] = "open"
  /\ stream' = [stream EXCEPT ![i] = IF status = "headers" THEN "answered" ELSE "refused"]
  /\ Emit(i, status)
  /\ UNCHANGED <<clientVars, pusherVars, child, wire, deaf>>

(* finish, on end, error, aborted or close, and the catch of                *)
(* handlePushStart.                                                         *)
StreamEnds(i, how) ==
  /\ stream[i] # "none" /\ how \in Final
  /\ how = "end" => stream[i] \in {"answered", "refused"}
  /\ stream' = [stream EXCEPT ![i] = "none"]
  /\ Emit(i, how)
  /\ UNCHANGED <<clientVars, pusherVars, child, wire, deaf>>

(* The process dies; what it has written is still read.                     *)
ChildExits ==
  /\ child = "up"
  /\ child' = "exited"
  /\ wire' = [i \in Ids |-> <<>>]
  /\ stream' = [i \in Ids |-> "none"]
  /\ UNCHANGED <<clientVars, pusherVars, lines, deaf>>

------------------------------------------------------------------------------
(* LINEJS's pusher loop.                                                    *)

(* Something about a request will move on by itself.                        *)
InMotion ==
  \/ pusher = "sleeping" \/ child = "exited"
  \/ pusher = "ensuring" /\ \E i \in Ids : Fresh(i)
  \/ \E i \in Ids : \/ wire[i] # <<>> \/ lines[i] # <<>>
                    \/ stream[i] \in {"opening", "open"}

(* Conn.new and Conn.read give up on a response after 800 ms, without       *)
(* aborting the request.                                                    *)
GiveUp ==
  /\ pusher = "connecting"
  /\ pusher' = "sleeping"
  /\ UNCHANGED <<clientVars, sidecarVars, current>>
==============================================================================
