------------------------------- MODULE BotConfig -------------------------------
(***************************************************************************)
(* A bot's configuration file (config/bot-config.ts): the fields the        *)
(* console edits, and those that only the operator's editor changes, which  *)
(* parseBotConfig checks all the same.  Fields it gives a default, and the  *)
(* allowlist, are left out.  A missing selectedRooms is All.                *)
(***************************************************************************)
EXTENDS RuleMatch, FiniteSets

CONSTANTS
  Rooms,
  KindOf,   (* of a room: "openchat", "talk" or "oa"                         *)
  All       (* no selection: every room is answered                          *)

RoomKinds == {"openchat", "talk", "oa"}

(* A selection of rooms, in the order given, without repetition             *)
(* (readGroupSelection).                                                    *)
Selections == {s \in Seq(Rooms) : \A i, j \in DOMAIN s : s[i] = s[j] => i = j}
Chosen(selection) == {selection[i] : i \in DOMAIN selection}

(* lanes, sendReservedLanes, sendSpareLanes, pollQuietMs,                   *)
(* squarePollRaceWidth, squarePollStagger                                   *)
Tunings == [lanes: Nat, reserved: Nat, spare: Nat, quiet: Nat, race: Nat, stagger: Nat]

Configs ==
  [rules: Seq(RuleSpecs), selected: Selections \union {All}, dedicated: SUBSET Rooms,
   talk: BOOLEAN, square: BOOLEAN, slotBudget: Nat, tuning: Tunings]

LowestPriority == -1000000

(* readRule reports no problem of the rule.                                 *)
ReadsAsRule(rule) == ValidSpec(rule) /\ rule.priority >= LowestPriority

(* The knobs parseBotConfig relates to each other.                          *)
Tuned(t) ==
  /\ t.reserved # 0 => t.reserved < t.lanes
  /\ t.spare > 0 => t.spare < t.reserved
  /\ t.quiet <= 40
  /\ t.race \in 1 .. 4 /\ t.stagger \in 1 .. 4
  /\ t.race = 1 \/ t.stagger = 1

(* parseBotConfig accepts the file.                                         *)
Parses(c) ==
  /\ c.rules # <<>> /\ UniqueIds(c.rules)
  /\ \A i \in DOMAIN c.rules : ReadsAsRule(c.rules[i])
  /\ c.talk \/ c.square
  /\ Tuned(c.tuning)

(* A dedicated poll only where the bot answers.                             *)
PollsWhatItAnswers(c) == c.selected = All \/ c.dedicated \subseteq Chosen(c.selected)
================================================================================
