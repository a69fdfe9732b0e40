------------------------------- MODULE MCConsole -------------------------------
(* Two requests over two rules and two rooms, an OpenChat and a group.      *)
EXTENDS Console, TLC

Symmetry == Permutations(Requests)

MCNorm == [t \in Texts |-> IF t = "HI" THEN "hi" ELSE t]
MCPrefix == {<<"hi", "hi">>, <<"hi", "hi there">>}
MCWithin == {<<"hi", "hi">>, <<"hi", "hi there">>}
MCKindOf == [room \in Rooms |-> IF room = "m1" THEN "openchat" ELSE "talk"]

Rule(id, priority, kind) ==
  [id |-> id, priority |-> priority, kind |-> kind, pattern |-> "HI", reply |-> "hi"]
Task(op, id, rule, rooms) == [op |-> op, id |-> id, rule |-> rule, rooms |-> rooms]

MCTasks ==
  {Task("add", "a", Rule("a", 2, "prefix"), <<>>),
   Task("update", "b", Rule("b", NotNumber, "exact"), <<>>),
   Task("remove", "b", Rule("b", 0, "exact"), <<>>),
   Task("groups", "a", Rule("a", 1, "exact"), <<"m1">>),
   Task("groups", "a", Rule("a", 1, "exact"), <<"m1", "c1">>)}

MCReports ==
  {[listed |-> l, heard |-> {}, opens |-> {}, members |-> m, contacts |-> {}] :
     l \in {{"m1"}}, m \in {{}, {"c1"}}}

File(rules, selected) ==
  [rules |-> rules, selected |-> selected, dedicated |-> {}, talk |-> FALSE, square |-> TRUE,
   slotBudget |-> 1,
   tuning |-> [lanes |-> 2, reserved |-> 1, spare |-> 0, quiet |-> 0, race |-> 1, stagger |-> 1]]

MCFiles == {File(<<Rule("b", 1, "exact")>>, All)}

================================================================================
