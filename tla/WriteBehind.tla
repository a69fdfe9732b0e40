------------------------------ MODULE WriteBehind ------------------------------
(***************************************************************************)
(* The queue that keeps database writes off the reply path                  *)
(* (persistence/write-behind.ts).  Records leave it in the order they came  *)
(* and nothing looks at them: the model counts them.                        *)
(***************************************************************************)
EXTENDS Integers

CONSTANTS
  BatchSize,
  MaxQueued,
  MaxRecords   (* bound: records offered in a run of TLC                     *)

VARIABLES
  queued,      (* #queue.length                                              *)
  batch,       (* records of the flush in flight                             *)
  flushing,    (* #flushing                                                  *)
  armed,       (* #handle is set                                             *)
  closed,      (* #closed                                                    *)
  closer,      (* where close is; before is its local                        *)
  stats,       (* #stats, and the records of failed batches                  *)
  accepted,    (* history: records enqueue has taken                         *)
  overtaken    (* history: close met a flush that was not its own            *)

flushVars == <<queued, batch, flushing>>
vars == <<flushVars, armed, closed, closer, stats, accepted, overtaken>>

WriteBehindAssumption ==
  /\ BatchSize \in Nat \ {0}
  /\ MaxQueued \in Nat /\ MaxQueued >= BatchSize

Init ==
  /\ queued = 0 /\ batch = 0 /\ flushing = FALSE
  /\ armed = FALSE /\ closed = FALSE
  /\ closer = [at |-> "none", before |-> 0]
  /\ stats = [written |-> 0, dropped |-> 0, lost |-> 0]
  /\ accepted = 0 /\ overtaken = FALSE

(* What flushNow takes of n records.                                        *)
Spliced(n) == IF n < BatchSize THEN n ELSE BatchSize

(* flushNow, called with n records queued: one at a time.                   *)
FlushNow(n) ==
  IF flushing \/ n = 0
  THEN queued' = n /\ UNCHANGED <<batch, flushing>>
  ELSE /\ batch' = Spliced(n) /\ queued' = n - Spliced(n)
       /\ flushing' = TRUE

(* #arm: one timer, and none once closed.                                   *)
Arm == armed' = (armed \/ ~ closed)

(* enqueue: at the limit the oldest record goes.  A full batch is flushed.  *)
Enqueue ==
  /\ ~ closed /\ accepted < MaxRecords
  /\ accepted' = accepted + 1
  /\ LET over == queued + 1 > MaxQueued
         n == IF over THEN queued ELSE queued + 1
     IN /\ stats' = [stats EXCEPT !.dropped = IF over THEN @ + 1 ELSE @]
        /\ IF n >= BatchSize
           THEN FlushNow(n) /\ UNCHANGED armed
           ELSE queued' = n /\ Arm /\ UNCHANGED <<batch, flushing>>
  /\ UNCHANGED <<closed, closer, overtaken>>

TimerFires ==
  /\ armed /\ armed' = FALSE
  /\ FlushNow(queued)
  /\ UNCHANGED <<closed, closer, stats, accepted, overtaken>>

(* Somebody else asks for a flush.                                          *)
FlushAsked ==
  /\ FlushNow(queued)
  /\ UNCHANGED <<armed, closed, closer, stats, accepted, overtaken>>

(* The end of a flush; a close that awaits it goes on.                      *)
FlushEnds ==
  /\ flushing /\ flushing' = FALSE
  /\ \/ stats' = [stats EXCEPT !.written = @ + batch]
     \/ stats' = [stats EXCEPT !.lost = @ + batch]
  /\ batch' = 0
  /\ IF queued > 0 THEN Arm ELSE UNCHANGED armed
  /\ closer' = IF closer.at = "flush" THEN [closer EXCEPT !.at = "check"] ELSE closer
  /\ UNCHANGED <<queued, closed, accepted, overtaken>>

(* The head of the loop of close, up to its next await: a flush of its own, *)
(* or flushNow returns because one is under way.                            *)
CloseLoop ==
  /\ closer' = [at |-> IF queued = 0 THEN "done" ELSE IF flushing THEN "check" ELSE "flush",
                before |-> queued]
  /\ overtaken' = (overtaken \/ (queued > 0 /\ flushing))
  /\ FlushNow(queued)

Close ==
  /\ ~ closed /\ closed' = TRUE
  /\ armed' = FALSE
  /\ CloseLoop
  /\ UNCHANGED <<stats, accepted>>

(* The queue must have become shorter, or close gives up.                   *)
CloseChecks ==
  /\ closer.at = "check"
  /\ IF queued >= closer.before
     THEN closer' = [closer EXCEPT !.at = "done"] /\ UNCHANGED <<flushVars, overtaken>>
     ELSE CloseLoop
  /\ UNCHANGED <<armed, closed, stats, accepted>>

Next ==
  \/ Enqueue
  \/ TimerFires
  \/ FlushAsked
  \/ FlushEnds
  \/ Close
  \/ CloseChecks

Spec == Init /\ [][Next]_vars

(* ---------------------------------------------------------------------- *)
(* Properties.                                                              *)

TypeOK ==
  /\ queued \in 0 .. MaxQueued /\ batch \in 0 .. BatchSize
  /\ flushing \in BOOLEAN /\ armed \in BOOLEAN /\ closed \in BOOLEAN
  /\ closer \in [at: {"none", "flush", "check", "done"}, before: Nat]
  /\ stats \in [written: Nat, dropped: Nat, lost: Nat]
  /\ accepted \in Nat /\ overtaken \in BOOLEAN

(* Every record taken is queued, being written, written, dropped at the     *)
(* limit or lost with a batch that failed, and only one of these, however   *)
(* flushes, the timer and close interleave.                                 *)
RecordsAreAccounted ==
  accepted = queued + batch + stats.written + stats.dropped + stats.lost

(* A queue that is not closed never waits with nothing to wake it: a timer  *)
(* is set or the end of a flush will set it.                                *)
WaitingIsScheduled == queued > 0 /\ ~ closed => armed \/ flushing

(* close returns with an empty queue unless it met a flush that was not its *)
(* own.                                                                     *)
CloseLeavesNothing == closer.at = "done" /\ ~ overtaken => queued = 0

(* What the comment of close promises (write-behind.ts:113); it does not    *)
(* hold when a flush is in flight.                                          *)
CloseFlushesEverything == closer.at = "done" => queued = 0
================================================================================
