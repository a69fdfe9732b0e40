---------------------------- MODULE Services_proofs ----------------------------
(***************************************************************************)
(* Theorems about three components that stand beside the path of a message  *)
(* and share nothing with each other: the console, the write-behind queue   *)
(* and the experiment registry.                                             *)
(***************************************************************************)
EXTENDS Console, FiniteSetTheorems, SequenceTheorems, WellFoundedInduction, TLAPS

CONSTANTS
  BatchSize, MaxQueued, MaxRecords,                          (* WriteBehind  *)
  Ids, Definition, MaxConcurrent, MaxSamples                 (* Experiments  *)

VARIABLES
  queued, batch, flushing, armed, closed, closer, stats, accepted, overtaken,
  state, evidence, leapt

WB == INSTANCE WriteBehind
EX == INSTANCE Experiments

------------------------------------------------------------------------------
(* The console for any rules, texts, rooms, requests and replies of LINE.   *)
(* The first part is about what a compiled rule set decides, the second     *)
(* about the file, the worker and the requests between them.                *)

(* ---------------------------------------------------------------------- *)
(* What a rule set decides.                                                 *)

(* A set of natural numbers has a least member.                             *)
LEMMA Least ==
  ASSUME NEW S \in SUBSET Nat, S # {}
  PROVE  \E m \in S : \A k \in S : m <= k
PROOF
<1> DEFINE Below == OpToRel(<, Nat)
<1>1. IsWellFoundedOn(Below, Nat)
  BY NatLessThanWellFounded
<1>2. \A x, y \in Nat : <<y, x>> \in Below <=> y < x
  BY DEF OpToRel
<1> HIDE DEF Below
<1>3. \E x \in S : \A y \in S : ~ (<<y, x>> \in Below)
  <2>1. S \subseteq Nat /\ S # {}
    OBVIOUS
  <2> QED
    BY <1>1, <2>1, WFMin, Zenon
<1>4. PICK x \in S : \A y \in S : ~ (<<y, x>> \in Below)
  BY <1>3
<1>5. \A k \in S : x \in Nat /\ k \in Nat /\ ~ (k < x)
  BY <1>2, <1>4
<1>6. \A k \in S : x <= k
  BY <1>5
<1> QED
  BY <1>4, <1>6

(* Of some rules one beats the others: its priority is the highest, and of  *)
(* those with that priority it comes first.                                 *)
Champion(rules, S, i) == i \in S /\ \A j \in S \ {i} : Beats(rules, i, j)

(* There is one in every set of rules, by induction on the length of the    *)
(* part of the list that is looked at.                                      *)
LEMMA ChampionExists ==
  ASSUME NEW rules \in Seq(RuleSpecs), \A i \in DOMAIN rules : ValidSpec(rules[i]),
         NEW S \in SUBSET DOMAIN rules, S # {}
  PROVE  \E i \in S : Champion(rules, S, i)
PROOF
<1> DEFINE Upto(n) == {i \in S : i <= n}
           Bad == {n \in Nat : Upto(n) # {} /\ \A i \in Upto(n) : ~ Champion(rules, Upto(n), i)}
<1>1. DOMAIN rules = 1 .. Len(rules) /\ Len(rules) \in Nat
  BY LenProperties
<1>2. \A i \in S : i \in Nat /\ i >= 1 /\ i <= Len(rules) /\ rules[i].priority \in Int
  BY <1>1 DEF ValidSpec
<1>3. Bad = {}
  <2> SUFFICES ASSUME Bad # {} PROVE FALSE
    OBVIOUS
  <2>1. Bad \in SUBSET Nat
    OBVIOUS
  <2> HIDE DEF Bad
  <2>2. PICK n \in Bad : \A k \in Bad : n <= k
    BY <2>1, Least
  <2> USE DEF Bad
  <2>3. n \in Nat /\ Upto(n) # {} /\ \A i \in Upto(n) : ~ Champion(rules, Upto(n), i)
    OBVIOUS
  <2>4. n # 0 /\ n - 1 \in Nat
    BY <1>2, <2>3
  <2>5. n - 1 \notin Bad
    <3>1. \A k \in Bad : n <= k
      BY <2>2
    <3> HIDE DEF Bad
    <3> QED
      BY <2>3, <2>4, <3>1
  <2>6. Upto(n) = Upto(n - 1) \union (S \intersect {n})
    BY <1>2, <2>3
  <2>7. CASE Upto(n - 1) = {}
    <3>1. Upto(n) = {n}
      BY <2>3, <2>6, <2>7
    <3> QED
      BY <2>3, <3>1 DEF Champion
  <2>8. CASE Upto(n - 1) # {}
    <3>1. PICK c \in Upto(n - 1) : Champion(rules, Upto(n - 1), c)
      BY <2>4, <2>5, <2>8
    <3>2. c \in S /\ c <= n - 1 /\ c \in Nat /\ c \in Upto(n)
      BY <1>2, <2>3, <3>1
    <3>3. \A j \in Upto(n) : j \in Upto(n - 1) \/ j = n
      BY <2>6
    <3>4. \A j \in Upto(n - 1) : j # c => Beats(rules, c, j)
      BY <3>1 DEF Champion
    <3> HIDE DEF Upto, Bad
    <3>5. CASE n \notin Upto(n)
      <4>1. Champion(rules, Upto(n), c)
        BY <3>2, <3>3, <3>4, <3>5 DEF Champion
      <4> QED
        BY <2>3, <3>2, <4>1
    <3>6. CASE n \in Upto(n) /\ rules[n].priority > rules[c].priority
      <4>1. \A j \in Upto(n) \ {n} : Beats(rules, n, j)
        <5> SUFFICES ASSUME NEW j \in Upto(n) \ {n} PROVE Beats(rules, n, j)
          OBVIOUS
        <5>1. j \in S /\ n \in S
          BY <3>6 DEF Upto
        <5>2. rules[j].priority \in Int /\ rules[n].priority \in Int /\ rules[c].priority \in Int
          BY <1>2, <3>2, <5>1
        <5>3. j = c \/ Beats(rules, c, j)
          BY <3>3, <3>4
        <5> QED
          BY <3>6, <5>2, <5>3 DEF Beats
      <4> QED
        BY <2>3, <3>6, <4>1 DEF Champion
    <3>7. CASE n \in Upto(n) /\ ~ (rules[n].priority > rules[c].priority)
      <4>1. n \in S
        BY <3>7 DEF Upto
      <4>2. rules[n].priority \in Int /\ rules[c].priority \in Int
        BY <1>2, <3>2, <4>1
      <4>3. Beats(rules, c, n)
        BY <2>3, <3>2, <3>7, <4>2 DEF Beats
      <4>4. Champion(rules, Upto(n), c)
        BY <3>2, <3>3, <3>4, <4>3 DEF Champion
      <4> QED
        BY <2>3, <3>2, <4>4
    <3> QED
      BY <3>5, <3>6, <3>7
  <2> QED
    BY <2>7, <2>8
<1>4. Upto(Len(rules)) = S
  BY <1>2
<1>5. Len(rules) \notin Bad /\ Len(rules) \in Nat
  BY <1>1, <1>3
<1> QED
  BY <1>4, <1>5

(* selectBest returns it, and there is only one.                            *)
LEMMA BestIsChampion ==
  ASSUME NEW rules \in Seq(RuleSpecs), \A i \in DOMAIN rules : ValidSpec(rules[i]),
         NEW S \in SUBSET DOMAIN rules, S # {}
  PROVE  /\ Champion(rules, S, Best(rules, S))
         /\ \A i \in S : Champion(rules, S, i) => i = Best(rules, S)
PROOF
<1>1. \E i \in S : Champion(rules, S, i)
  BY ChampionExists
<1>2. \E i \in S : \A j \in S \ {i} : Beats(rules, i, j)
  BY <1>1 DEF Champion
<1>3. Champion(rules, S, Best(rules, S))
  BY <1>2 DEF Best, Champion
<1>4. \A i \in S : i \in Nat /\ rules[i].priority \in Int
  BY LenProperties DEF ValidSpec
<1>5. ASSUME NEW i \in S, Champion(rules, S, i), NEW k \in S, Champion(rules, S, k) PROVE i = k
  <2> SUFFICES ASSUME i # k PROVE FALSE
    OBVIOUS
  <2>1. Beats(rules, i, k) /\ Beats(rules, k, i)
    BY <1>5 DEF Champion
  <2>2. i \in Nat /\ k \in Nat /\ rules[i].priority \in Int /\ rules[k].priority \in Int
    BY <1>4
  <2> QED
    BY <2>1, <2>2 DEF Beats
<1>6. Best(rules, S) \in S
  BY <1>3 DEF Champion
<1> QED
  BY <1>3, <1>5, <1>6

(* The index of exact rules and the scan of the others find the rule that   *)
(* beats every other rule that matches (compileRules), for any list that    *)
(* compiles and any text.                                                   *)
THEOREM MatchIsBest ==
  ASSUME NEW rules \in Seq(RuleSpecs), \A i \in DOMAIN rules : ValidSpec(rules[i]),
         NEW text \in Texts
  PROVE  /\ Decision(rules, text) = Winner(rules, text)
         /\ Decision(rules, text) \in {0} \union DOMAIN rules
PROOF
<1> DEFINE Hits == {i \in DOMAIN rules : Test(rules[i], text)}
           Scan == {i \in DOMAIN rules : rules[i].kind # "exact" /\ Test(rules[i], text)}
           Exact == ExactRules(rules, text)
           Found == Candidates(rules, text)
<1>1. Hits = Exact \union Scan /\ Exact \subseteq DOMAIN rules /\ Scan \subseteq DOMAIN rules
  <2>1. ASSUME NEW i \in DOMAIN rules, rules[i].kind = "exact"
        PROVE  Test(rules[i], text) <=> Norm[rules[i].pattern] = text
    BY <2>1 DEF Test
  <2> QED
    BY <2>1 DEF ExactRules
<1>2. Found = ({Best(rules, Exact)} \ {0}) \union Scan
  BY DEF Candidates
<1>3. 0 \notin DOMAIN rules
  BY LenProperties
<1> HIDE DEF Hits, Scan, Exact, Found
<1>4. Decision(rules, text) = Best(rules, Found) /\ Winner(rules, text) = Best(rules, Hits)
  BY DEF Decision, Winner, Found, Hits
<1>5. CASE Exact = {}
  <2>1. Best(rules, Exact) = 0
    BY <1>5 DEF Best
  <2>2. Found = Hits
    BY <1>1, <1>2, <1>5, <2>1
  <2>3. Hits # {} => Champion(rules, Hits, Best(rules, Hits))
    BY <1>1, BestIsChampion
  <2>4. Best(rules, Hits) \in {0} \union DOMAIN rules
    BY <1>1, <2>3 DEF Best, Champion
  <2> QED
    BY <1>4, <2>2, <2>4
<1>6. CASE Exact # {}
  <2> DEFINE e == Best(rules, Exact)
             h == Best(rules, Hits)
  <2>1. Champion(rules, Exact, e)
    BY <1>1, <1>6, BestIsChampion
  <2>2. e \in Exact /\ e # 0 /\ Found = {e} \union Scan
    BY <1>1, <1>2, <1>3, <2>1 DEF Champion
  <2>3. Hits # {} /\ Hits \subseteq DOMAIN rules /\ Found # {} /\ Found \subseteq Hits
    BY <1>1, <1>6, <2>2
  <2>4. Champion(rules, Hits, h)
    BY <2>3, BestIsChampion
  <2>5. h \in Hits /\ \A j \in Hits \ {h} : Beats(rules, h, j)
    BY <2>4 DEF Champion
  <2>6. h \in Found
    <3>1. CASE h \in Scan
      BY <2>2, <3>1
    <3>2. CASE h \in Exact
      <4>1. Champion(rules, Exact, h)
        BY <1>1, <2>5, <3>2 DEF Champion
      <4>2. h = e
        BY <1>1, <1>6, <3>2, <4>1, BestIsChampion
      <4> QED
        BY <2>2, <4>2
    <3> QED
      BY <1>1, <2>5, <3>1, <3>2
  <2>7. Champion(rules, Found, h)
    BY <2>3, <2>5, <2>6 DEF Champion
  <2>8. h = Best(rules, Found)
    <3> HIDE DEF h
    <3>1. Found \in SUBSET DOMAIN rules
      BY <2>3
    <3> QED
      BY <2>3, <2>6, <2>7, <3>1, BestIsChampion
  <2> QED
    BY <1>4, <2>3, <2>5, <2>8
<1> QED
  BY <1>5, <1>6

(* ---------------------------------------------------------------------- *)
(* The inductive invariant.                                                 *)

(* A configuration that loads, and polls what it answers.                   *)
Good == {c \in Configs : Parses(c) /\ PollsWhatItAnswers(c)}

(* The file, and what the host has made of it.                              *)
Loaded ==
  /\ file \in Good
  /\ host \in HostStates
  /\ boot \in Good \union {None} /\ live \in Good \union {None}
  /\ host = "connecting" => boot # None
  /\ host = "up" => live # None
  /\ host \in {"reading", "connecting", "down"} => live = None
  /\ disturbed \in BOOLEAN

(* The requests, each as far as it has come.                                *)
Serving ==
  /\ pc \in [Requests -> Steps]
  /\ task \in [Requests -> Tasks \union {None}]
  /\ worker \in [Requests -> {"none", "live", "gone"}]
  /\ seen \in [Requests -> Good \union {None}]
  /\ draft \in [Requests -> Good \union {None}]

Held ==
  \A r \in Requests :
    /\ Active(r) => task[r] \in Tasks
    /\ pc[r] \in {"directory", "again", "apply"} => seen[r] # None
    /\ pc[r] = "write" /\ task[r].op = "groups" => seen[r] # None
    /\ pc[r] = "write" => draft[r] # None
    /\ pc[r] \in {"directory", "again"} => task[r].op = "groups"
    /\ pc[r] = "list" => task[r].op # "groups"
    /\ worker[r] = "live" => live # None

Remembering ==
  /\ cache \in Seq([text: Texts, rule: Nat])
  /\ DecisionsAreCurrent

(* What a request that nothing disturbs knows.                              *)
InStepAt(r) ==
  /\ worker[r] = IF live = None THEN "none" ELSE "live"
  /\ pc[r] \in {"directory", "again"} => seen[r] = file
  /\ pc[r] = "write" =>
       IF task[r].op = "groups"
       THEN seen[r] = file /\ draft[r] = Regrouped(file, file, task[r].rooms)
       ELSE draft[r] = [file EXCEPT !.rules = draft[r].rules]
  /\ pc[r] = "apply" /\ task[r].op # "groups" => seen[r] = file
  /\ host = "up" =>
       /\ pc[r] \in {"read", "directory", "again", "write"} => live = file
       /\ pc[r] = "list" \/ (pc[r] = "apply" /\ task[r].op # "groups")
            => live = [file EXCEPT !.rules = live.rules]
       /\ pc[r] = "apply" /\ task[r].op = "groups"
            => seen[r] = live /\ file = Regrouped(live, live, task[r].rooms)

(* Nothing has been disturbed: one request at a time, none while the host   *)
(* starts or restarts, and each of them knows where it is.                  *)
InStep ==
  ~ disturbed =>
    /\ \A r, q \in Requests : Active(r) /\ Active(q) => r = q
    /\ host \notin {"up", "down"} => Quiet
    /\ host = "connecting" => boot = file
    /\ host = "up" /\ Quiet => live = file
    /\ \A r \in Requests : Active(r) => InStepAt(r)

Inv == Loaded /\ Serving /\ Held /\ Remembering /\ InStep

(* The decisions remembered stay those of the rules when one more is taken  *)
(* in and the oldest is let go.                                             *)
LEMMA CachedIsCurrent ==
  ASSUME ConsoleAssumption, Remembering, live \in Good, NEW raw \in Texts
  PROVE  /\ Cached(live.rules, cache, raw) \in Seq([text: Texts, rule: Nat])
         /\ Len(Cached(live.rules, cache, raw)) <= CacheMax
         /\ \A i \in DOMAIN Cached(live.rules, cache, raw) :
              Cached(live.rules, cache, raw)[i].rule
                = Winner(live.rules, Cached(live.rules, cache, raw)[i].text)
PROOF
<1> DEFINE Entries == [text: Texts, rule: Nat]
           kept == IF Len(cache) >= CacheMax /\ cache # <<>> THEN Tail(cache) ELSE cache
           entry == [text |-> Norm[raw], rule |-> Decision(live.rules, Norm[raw])]
           new == Cached(live.rules, cache, raw)
<1>1. /\ cache \in Seq(Entries) /\ Len(cache) <= CacheMax
      /\ CacheMax \in Nat \ {0}
      /\ \A i \in DOMAIN cache : cache[i].rule = Winner(live.rules, cache[i].text)
  BY DEF Remembering, DecisionsAreCurrent, ConsoleAssumption
<1>2. /\ live.rules \in Seq(RuleSpecs)
      /\ \A i \in DOMAIN live.rules : ValidSpec(live.rules[i])
  BY DEF Good, Configs, Parses, ReadsAsRule
<1>3. Norm[raw] \in Texts
  BY DEF ConsoleAssumption
<1>4. /\ Decision(live.rules, Norm[raw]) = Winner(live.rules, Norm[raw])
      /\ Decision(live.rules, Norm[raw]) \in {0} \union DOMAIN live.rules
  BY <1>2, <1>3, MatchIsBest
<1>5. Decision(live.rules, Norm[raw]) \in Nat
  BY <1>2, <1>4, LenProperties
<1>6. entry \in Entries /\ entry.rule = Winner(live.rules, entry.text)
  BY <1>3, <1>4, <1>5
<1>7. /\ kept \in Seq(Entries) /\ Len(kept) <= CacheMax - 1
      /\ \A i \in DOMAIN kept : kept[i].rule = Winner(live.rules, kept[i].text)
  <2>1. CASE Len(cache) >= CacheMax /\ cache # <<>>
    <3>1. /\ Tail(cache) \in Seq(Entries) /\ Len(Tail(cache)) = Len(cache) - 1
          /\ \A i \in 1 .. Len(Tail(cache)) : Tail(cache)[i] = cache[i + 1]
      BY <1>1, <2>1, HeadTailProperties
    <3>2. Len(cache) \in Nat /\ DOMAIN cache = 1 .. Len(cache)
          /\ DOMAIN Tail(cache) = 1 .. Len(Tail(cache))
      BY <1>1, <3>1, LenProperties
    <3> QED
      BY <1>1, <2>1, <3>1, <3>2
  <2>2. CASE ~ (Len(cache) >= CacheMax /\ cache # <<>>)
    <3>1. Len(cache) \in Nat
      BY <1>1, LenProperties
    <3>2. cache = <<>> => Len(cache) = 0
      BY <1>1, EmptySeq
    <3> QED
      BY <1>1, <2>2, <3>1, <3>2
  <2> QED
    BY <2>1, <2>2
<1> HIDE DEF kept, entry, Entries
<1>8. /\ Append(kept, entry) \in Seq(Entries) /\ Len(Append(kept, entry)) = Len(kept) + 1
      /\ \A i \in 1 .. Len(kept) : Append(kept, entry)[i] = kept[i]
      /\ Append(kept, entry)[Len(kept) + 1] = entry
  BY <1>6, <1>7, AppendProperties
<1>9. Len(kept) \in Nat /\ DOMAIN kept = 1 .. Len(kept)
      /\ DOMAIN Append(kept, entry) = 1 .. Len(Append(kept, entry))
  BY <1>7, <1>8, LenProperties
<1>10. new = cache \/ new = Append(kept, entry)
  BY DEF Cached, kept, entry
<1> HIDE DEF new
<1>11. \A i \in DOMAIN Append(kept, entry) :
         Append(kept, entry)[i].rule = Winner(live.rules, Append(kept, entry)[i].text)
  <2> SUFFICES ASSUME NEW i \in DOMAIN Append(kept, entry)
               PROVE  Append(kept, entry)[i].rule = Winner(live.rules, Append(kept, entry)[i].text)
    OBVIOUS
  <2>1. i \in 1 .. Len(kept) \/ i = Len(kept) + 1
    BY <1>8, <1>9
  <2>2. CASE i \in 1 .. Len(kept)
    BY <1>7, <1>8, <1>9, <2>2
  <2>3. CASE i = Len(kept) + 1
    BY <1>6, <1>8, <2>3
  <2> QED
    BY <2>1, <2>2, <2>3
<1>12. new \in Seq(Entries) /\ Len(new) <= CacheMax
       /\ \A i \in DOMAIN new : new[i].rule = Winner(live.rules, new[i].text)
  <2>1. CASE new = cache
    BY <1>1, <2>1
  <2>2. CASE new = Append(kept, entry)
    <3>1. Len(kept) + 1 <= CacheMax
      BY <1>1, <1>7, <1>9
    <3> QED
      BY <1>8, <1>11, <2>2, <3>1
  <2> QED
    BY <1>10, <2>1, <2>2
<1> QED
  BY <1>12 DEF new, Entries

(* An empty cache remembers nothing wrong.                                  *)
LEMMA EmptyIsCurrent ==
  ASSUME ConsoleAssumption
  PROVE  /\ <<>> \in Seq([text: Texts, rule: Nat]) /\ Len(<<>>) <= CacheMax
         /\ DOMAIN <<>> = {}
PROOF
<1>1. <<>> \in Seq([text: Texts, rule: Nat]) /\ Len(<<>>) = 0
  BY EmptySeq
<1> QED
  BY <1>1, LenProperties DEF ConsoleAssumption

(* A rule edit that is not refused makes a list of rules.                   *)
LEMMA EditedTypes ==
  ASSUME ConsoleAssumption, NEW c \in Configs, NEW t \in Tasks, t.op # "groups",
         ~ Refused(c.rules, t)
  PROVE  Edited(c.rules, t) \in Seq(RuleSpecs)
PROOF
<1>1. /\ c.rules \in Seq(RuleSpecs) /\ t \in AllTasks
      /\ DOMAIN c.rules = 1 .. Len(c.rules) /\ Len(c.rules) \in Nat
  BY LenProperties DEF Configs, ConsoleAssumption
<1>2. t.id \in Texts /\ t.rule \in RuleSpecs /\ t.op \in {"add", "update", "remove"}
  BY <1>1 DEF AllTasks, Ops
<1>3. CASE t.op = "add"
  BY <1>1, <1>2, <1>3, AppendProperties DEF Edited
<1>4. CASE t.op = "update"
  <2> DEFINE at == CHOOSE i \in Named(c.rules, t.id) : TRUE
             new == [t.rule EXCEPT !.id = t.id]
  <2>1. at \in 1 .. Len(c.rules)
    BY <1>1, <1>4 DEF Refused, Named
  <2>2. new \in RuleSpecs
    BY <1>2 DEF RuleSpecs
  <2>3. Edited(c.rules, t) = [c.rules EXCEPT ![at] = new]
    BY <1>4 DEF Edited, Replaced
  <2> HIDE DEF at, new
  <2> QED
    BY <1>1, <2>1, <2>2, <2>3, ExceptSeq
<1>5. CASE t.op = "remove"
  <2> DEFINE at == CHOOSE i \in Named(c.rules, t.id) : TRUE
             Nth(n) == IF n < at THEN c.rules[n] ELSE c.rules[n + 1]
  <2>1. at \in 1 .. Len(c.rules)
    BY <1>1, <1>5 DEF Refused, Named
  <2>2. Edited(c.rules, t) = [n \in 1 .. Len(c.rules) - 1 |-> Nth(n)]
    BY <1>5 DEF Edited, Without
  <2> HIDE DEF at
  <2>3. \A n \in 1 .. Len(c.rules) - 1 : Nth(n) \in RuleSpecs
    BY <1>1, <2>1, ElementOfSeq
  <2>4. Len(c.rules) - 1 \in Nat
    BY <1>1, <2>1
  <2> HIDE DEF Nth
  <2>5. [n \in 1 .. Len(c.rules) - 1 |-> Nth(n)] \in Seq(RuleSpecs)
    BY <2>3, <2>4, IsASeq
  <2> QED
    BY <2>2, <2>5
<1> QED
  BY <1>2, <1>3, <1>4, <1>5

(* A configuration with other rules, or regrouped, is one; a regrouped one  *)
(* polls only rooms that are chosen.                                        *)
LEMMA ChangedConfigs ==
  ASSUME ConsoleAssumption, NEW c \in Configs, NEW s \in Configs
  PROVE  /\ \A rules \in Seq(RuleSpecs) :
              /\ [c EXCEPT !.rules = rules] \in Configs
              /\ PollsWhatItAnswers(c) => PollsWhatItAnswers([c EXCEPT !.rules = rules])
         /\ \A rooms \in Selections :
              /\ Regrouped(c, s, rooms) \in Configs
              /\ PollsWhatItAnswers(Regrouped(c, s, rooms))
PROOF
<1>1. \A rooms \in Selections : Dedicated(rooms, s.slotBudget) \subseteq Chosen(rooms)
  BY DEF Dedicated, Chosen
<1>2. \A rooms \in Selections : Chosen(rooms) \subseteq Rooms
  <2> SUFFICES ASSUME NEW rooms \in Selections, NEW i \in DOMAIN rooms PROVE rooms[i] \in Rooms
    BY DEF Chosen
  <2>1. rooms \in Seq(Rooms)
    BY DEF Selections
  <2> QED
    BY <2>1, ElementOfSeq, LenProperties
<1>3. \A rules \in Seq(RuleSpecs) :
        /\ [c EXCEPT !.rules = rules] \in Configs
        /\ PollsWhatItAnswers(c) => PollsWhatItAnswers([c EXCEPT !.rules = rules])
  BY DEF Configs, PollsWhatItAnswers
<1>4. ASSUME NEW rooms \in Selections
      PROVE  /\ Regrouped(c, s, rooms) \in Configs
             /\ PollsWhatItAnswers(Regrouped(c, s, rooms))
  <2>1. WantsTalk(rooms) \in BOOLEAN /\ WantsSquare(rooms) \in BOOLEAN
    BY DEF WantsTalk, WantsSquare
  <2>2. Dedicated(rooms, s.slotBudget) \in SUBSET Rooms
    BY <1>1, <1>2
  <2>3. Regrouped(c, s, rooms) \in Configs
    BY <2>1, <2>2 DEF Regrouped, Configs
  <2>4. /\ Regrouped(c, s, rooms).selected = rooms
        /\ Regrouped(c, s, rooms).dedicated = Dedicated(rooms, s.slotBudget)
    BY DEF Regrouped, Configs
  <2> QED
    BY <1>1, <2>3, <2>4 DEF PollsWhatItAnswers
<1> QED
  BY <1>3, <1>4

(* ---------------------------------------------------------------------- *)
(* Every step keeps it.                                                     *)

(* The fields of a configuration.                                           *)
LEMMA Fields ==
  ASSUME NEW c \in Configs
  PROVE  c = [rules |-> c.rules, selected |-> c.selected, dedicated |-> c.dedicated,
              talk |-> c.talk, square |-> c.square, slotBudget |-> c.slotBudget,
              tuning |-> c.tuning]
PROOF
  BY DEF Configs

(* The invariant holds at the start.                                        *)
LEMMA InitInv ==
  ASSUME ConsoleAssumption, Init
  PROVE  Inv
PROOF
<1>1. Loaded
  BY DEF Init, Loaded, ConsoleAssumption, Good, HostStates
<1>2. Serving /\ Held
  BY DEF Init, Serving, Held, Steps, Active
<1>3. Remembering
  BY EmptyIsCurrent DEF Init, Remembering, DecisionsAreCurrent
<1>4. InStep
  BY DEF Init, InStep, Active, Quiet
<1> QED
  BY <1>1, <1>2, <1>3, <1>4 DEF Inv

(* A request that is answered takes nothing with it.                        *)
LEMMA AnsweredServes ==
  ASSUME Serving, Held, NEW r \in Requests, Answered(r), live' = live
  PROVE  /\ Serving' /\ Held'
         /\ \A q \in Requests \ {r} :
              /\ pc'[q] = pc[q] /\ task'[q] = task[q] /\ worker'[q] = worker[q]
              /\ seen'[q] = seen[q] /\ draft'[q] = draft[q]
         /\ pc'[r] = "idle"
PROOF
<1>1. /\ pc'[r] = "idle" /\ task'[r] = None /\ worker'[r] = "none"
      /\ seen'[r] = None /\ draft'[r] = None
      /\ \A q \in Requests \ {r} :
           /\ pc'[q] = pc[q] /\ task'[q] = task[q] /\ worker'[q] = worker[q]
           /\ seen'[q] = seen[q] /\ draft'[q] = draft[q]
  BY DEF Serving, Answered
<1>2. Serving'
  BY DEF Serving, Answered, Steps
<1>3. Held'
  BY <1>1 DEF Held, Active
<1> QED
  BY <1>1, <1>2, <1>3

(* After it nothing is left undisturbed but a file the worker runs.         *)
LEMMA AnsweredInStep ==
  ASSUME Inv, NEW r \in Requests, Active(r), Answered(r), ~ disturbed' => ~ disturbed,
         file' = file, boot' = boot, host' \in {host, "restarting"},
         host' = "up" /\ ~ disturbed' => live' = file
  PROVE  InStep'
PROOF
<1> SUFFICES ASSUME ~ disturbed'
             PROVE  /\ Quiet'
                    /\ host' = "connecting" => boot' = file'
                    /\ host' = "up" => live' = file'
  BY DEF InStep, Quiet, Active
<1>1. InStep /\ Serving /\ ~ disturbed
  BY DEF Inv
<1>2. \A q \in Requests : Active(q) => q = r
  BY <1>1 DEF InStep
<1>3. Quiet'
  BY <1>1, <1>2 DEF Quiet, Active, Answered, Serving
<1>4. host' = "connecting" => boot' = file'
  BY <1>1 DEF InStep
<1> QED
  BY <1>3, <1>4

(* The file, the host and the requests after each step of a request.        *)
LEMMA RequestKeepsShape ==
  ASSUME ConsoleAssumption, Inv, NEW r \in Requests, RequestStep(r)
  PROVE  Loaded' /\ Serving' /\ Held'
PROOF
<1>1. Loaded /\ Serving /\ Held
  BY DEF Inv
<1>2. None \notin Good /\ None \notin Tasks
  BY DEF ConsoleAssumption, Good
<1>3. file \in Configs /\ Parses(file) /\ PollsWhatItAnswers(file)
  BY <1>1 DEF Loaded, Good
<1>4. ASSUME NEW next, next \in Configs, PollsWhatItAnswers(next), Drafts(r, next),
             pc[r] = "again" \/ (pc[r] = "read" /\ task[r].op # "groups"),
             UNCHANGED <<file, hostVars, disturbed>>
      PROVE  Loaded' /\ Serving' /\ Held'
  <2>1. Loaded'
    BY <1>1, <1>4 DEF Loaded, hostVars
  <2>2. CASE Parses(next)
    <3>1. next \in Good
      BY <1>4, <2>2 DEF Good
    <3>2. draft' = [draft EXCEPT ![r] = next] /\ pc' = [pc EXCEPT ![r] = "write"]
          /\ UNCHANGED <<task, worker, seen>>
      BY <1>4, <2>2 DEF Drafts, GoesTo
    <3>3. Serving'
      BY <1>1, <3>1, <3>2 DEF Serving, Steps
    <3>4. Held'
      BY <1>1, <1>2, <1>4, <3>1, <3>2 DEF Held, Serving, Active, hostVars
    <3> QED
      BY <2>1, <3>3, <3>4
  <2>3. CASE ~ Parses(next)
    <3>1. Answered(r) /\ live' = live
      BY <1>4, <2>3 DEF Drafts, hostVars
    <3> QED
      BY <1>1, <2>1, <3>1, AnsweredServes
  <2> QED
    BY <2>2, <2>3
<1>5. CASE \E t \in Tasks : Route(r, t)
  <2>1. PICK t \in Tasks : Route(r, t)
    BY <1>5
  <2>2. Loaded'
    <3>1. disturbed' \in BOOLEAN
      BY <2>1 DEF Route
    <3> QED
      BY <1>1, <2>1, <3>1 DEF Loaded, Route, hostVars
  <2>3. Serving'
    BY <1>1, <2>1 DEF Serving, Route, Steps
  <2>4. Held'
    BY <1>1, <2>1 DEF Held, Serving, Route, Active, hostVars
  <2> QED
    BY <2>2, <2>3, <2>4
<1>6. CASE ReadRules(r)
  <2>1. CASE Refused(file.rules, task[r])
    <3>1. Answered(r) /\ live' = live
      BY <1>6, <2>1 DEF ReadRules, hostVars
    <3>2. Loaded'
      BY <1>1, <1>6 DEF Loaded, ReadRules, hostVars
    <3> QED
      BY <1>1, <3>1, <3>2, AnsweredServes
  <2>2. CASE ~ Refused(file.rules, task[r])
    <3> DEFINE next == [file EXCEPT !.rules = Edited(file.rules, task[r])]
    <3>1. task[r] \in Tasks /\ task[r].op # "groups"
      BY <1>1, <1>6 DEF Held, Active, ReadRules
    <3>2. Edited(file.rules, task[r]) \in Seq(RuleSpecs)
      BY <1>3, <2>2, <3>1, EditedTypes
    <3>3. next \in Configs /\ PollsWhatItAnswers(next)
      BY <1>3, <3>2, ChangedConfigs
    <3>4. Drafts(r, next) /\ pc[r] = "read" /\ UNCHANGED <<file, hostVars, disturbed>>
      BY <1>6, <2>2 DEF ReadRules
    <3> HIDE DEF next
    <3> QED
      BY <1>4, <3>1, <3>3, <3>4
  <2> QED
    BY <2>1, <2>2
<1>7. CASE ReadConfig(r)
  <2>1. Loaded'
    BY <1>1, <1>7 DEF Loaded, ReadConfig, hostVars
  <2>2. /\ seen' = [seen EXCEPT ![r] = file]
        /\ GoesTo(r, IF pc[r] = "list" THEN "apply" ELSE "directory")
        /\ draft' = draft /\ live' = live
    BY <1>3, <1>7 DEF ReadConfig, hostVars
  <2>3. file \in Good
    BY <1>1 DEF Loaded
  <2>4. Serving'
    BY <1>1, <2>2, <2>3 DEF Serving, GoesTo, Steps
  <2>5. pc[r] = "list" \/ (pc[r] = "read" /\ task[r].op = "groups")
    BY <1>7 DEF ReadConfig
  <2>6. Held'
    BY <1>1, <1>2, <2>2, <2>3, <2>5 DEF Held, Serving, GoesTo, Active
  <2> QED
    BY <2>1, <2>4, <2>6
<1>8. CASE \E told \in Reports : Directory(r, told)
  <2>1. UNCHANGED <<file, hostVars, disturbed>> /\ pc[r] = "directory"
    BY <1>8 DEF Directory
  <2>2. Loaded'
    BY <1>1, <2>1 DEF Loaded, hostVars
  <2>3. Answered(r) \/ (GoesTo(r, "again") /\ UNCHANGED <<seen, draft>>)
    BY <1>8 DEF Directory
  <2>4. CASE Answered(r)
    BY <1>1, <2>1, <2>2, <2>4, AnsweredServes DEF hostVars
  <2>5. CASE GoesTo(r, "again") /\ UNCHANGED <<seen, draft>>
    <3>1. Serving'
      BY <1>1, <2>5 DEF Serving, GoesTo, Steps
    <3>2. Held'
      BY <1>1, <2>1, <2>5 DEF Held, Serving, GoesTo, Active, hostVars
    <3> QED
      BY <2>2, <3>1, <3>2
  <2> QED
    BY <2>3, <2>4, <2>5
<1>9. CASE ReadAgain(r)
  <2> DEFINE next == Regrouped(file, seen[r], task[r].rooms)
  <2>1. /\ pc[r] = "again" /\ Drafts(r, next)
        /\ UNCHANGED <<file, hostVars, disturbed>>
    BY <1>9 DEF ReadAgain
  <2>2. seen[r] \in Configs
    BY <1>1, <2>1 DEF Held, Serving, Good
  <2>3. task[r].rooms \in Selections
    BY <1>1, <2>1 DEF Held, Active, ConsoleAssumption, AllTasks
  <2>4. next \in Configs /\ PollsWhatItAnswers(next)
    BY <1>3, <2>2, <2>3, ChangedConfigs
  <2> HIDE DEF next
  <2> QED
    BY <1>4, <2>1, <2>4
<1>10. CASE Write(r)
  <2>1. /\ pc[r] = "write" /\ file' = draft[r] /\ UNCHANGED <<hostVars, seen, disturbed>>
        /\ draft' = [draft EXCEPT ![r] = None]
        /\ GoesTo(r, IF task[r].op = "groups" THEN "apply" ELSE "list")
    BY <1>10 DEF Write
  <2>2. draft[r] \in Good
    BY <1>1, <2>1 DEF Held, Serving
  <2>3. Loaded'
    BY <1>1, <2>1, <2>2 DEF Loaded, hostVars
  <2>4. Serving'
    BY <1>1, <2>1 DEF Serving, GoesTo, Steps
  <2>5. Held'
    BY <1>1, <2>1 DEF Held, Serving, GoesTo, Active, hostVars
  <2> QED
    BY <2>3, <2>4, <2>5
<1>11. CASE Fails(r)
  <2>1. Answered(r) /\ disturbed' \in BOOLEAN /\ UNCHANGED <<file, hostVars>>
    BY <1>11 DEF Fails
  <2>2. Loaded'
    BY <1>1, <2>1 DEF Loaded, hostVars
  <2> QED
    BY <1>1, <2>1, <2>2, AnsweredServes DEF hostVars
<1>12. CASE ApplyRules(r)
  <2>1. pc[r] = "apply" /\ Answered(r) /\ UNCHANGED <<file, host, boot, disturbed>>
    BY <1>12 DEF ApplyRules
  <2>2. CASE worker[r] = "live"
    <3>1. seen[r] \in Good /\ live \in Good
      BY <1>1, <2>1, <2>2 DEF Held, Serving, Loaded
    <3>2. live' = [live EXCEPT !.rules = seen[r].rules]
      BY <1>12, <2>2 DEF ApplyRules
    <3>3. live' \in Configs /\ PollsWhatItAnswers(live')
      BY <3>1, <3>2, ChangedConfigs DEF Good, Configs
    <3>4. Parses(live')
      BY <3>1, <3>2 DEF Good, Parses, Configs
    <3>5. live' \in Good
      BY <3>3, <3>4 DEF Good
    <3>6. Loaded'
      <4>1. host \notin {"reading", "connecting", "down"}
        BY <1>1, <1>2, <3>1 DEF Loaded
      <4> QED
        BY <1>1, <1>2, <2>1, <3>5, <4>1 DEF Loaded
    <3>7. Serving'
      BY <1>1, <2>1 DEF Serving, Answered, Steps
    <3>8. Held'
      BY <1>1, <1>2, <2>1, <3>5 DEF Held, Serving, Answered, Active
    <3> QED
      BY <3>6, <3>7, <3>8
  <2>3. CASE worker[r] # "live"
    <3>1. live' = live
      BY <1>12, <2>3 DEF ApplyRules
    <3>2. Loaded'
      BY <1>1, <2>1, <3>1 DEF Loaded
    <3> QED
      BY <1>1, <2>1, <3>1, <3>2, AnsweredServes
  <2> QED
    BY <2>2, <2>3
<1>13. CASE ApplyRooms(r)
  <2>1. pc[r] = "apply" /\ Answered(r) /\ UNCHANGED <<file, boot, disturbed>>
    BY <1>13 DEF ApplyRooms
  <2>2. CASE live' = live
    <3>1. host' \in {host, "restarting"}
      BY <1>13 DEF ApplyRooms, RestartAsked
    <3>2. Loaded'
      BY <1>1, <2>1, <2>2, <3>1 DEF Loaded, HostStates
    <3> QED
      BY <1>1, <2>1, <2>2, <3>2, AnsweredServes
  <2>3. CASE live' # live
    <3> DEFINE rooms == task[r].rooms
    <3>1. /\ worker[r] = "live" /\ host' = host
          /\ live' = [live EXCEPT !.selected = rooms,
                                  !.dedicated = Dedicated(rooms, seen[r].slotBudget)]
      BY <1>13, <2>3 DEF ApplyRooms
    <3>2. seen[r] \in Good /\ live \in Good /\ live # None
      BY <1>1, <1>2, <2>1, <3>1 DEF Held, Serving, Loaded
    <3>3. rooms \in Selections
      BY <1>1, <2>1 DEF Held, Active, ConsoleAssumption, AllTasks
    <3> HIDE DEF rooms
    <3>4. /\ Regrouped(live, seen[r], rooms) \in Configs
          /\ PollsWhatItAnswers(Regrouped(live, seen[r], rooms))
      BY <3>2, <3>3, ChangedConfigs DEF Good
    <3>5. /\ live' \in Configs
          /\ live'.selected = Regrouped(live, seen[r], rooms).selected
          /\ live'.dedicated = Regrouped(live, seen[r], rooms).dedicated
      BY <3>1, <3>2, <3>4 DEF Good, Configs, Regrouped
    <3>6. PollsWhatItAnswers(live')
      BY <3>4, <3>5 DEF PollsWhatItAnswers
    <3>7. Parses(live')
      BY <3>1, <3>2 DEF Good, Parses, Configs
    <3>8. live' \in Good
      BY <3>5, <3>6, <3>7 DEF Good
    <3>9. Loaded'
      <4>1. host \notin {"reading", "connecting", "down"}
        BY <1>1, <3>2 DEF Loaded
      <4> QED
        BY <1>1, <1>2, <2>1, <3>1, <3>8, <4>1 DEF Loaded
    <3>10. Serving'
      BY <1>1, <2>1 DEF Serving, Answered, Steps
    <3>11. Held'
      BY <1>1, <1>2, <2>1, <3>8 DEF Held, Serving, Answered, Active
    <3> QED
      BY <3>9, <3>10, <3>11
  <2> QED
    BY <2>2, <2>3
<1> QED
  BY <1>5, <1>6, <1>7, <1>8, <1>9, <1>10, <1>11, <1>12, <1>13 DEF RequestStep

(* A step that touches neither the worker nor its cache.                    *)
LEMMA SameMemory ==
  ASSUME Remembering, live' = live, cache' = cache
  PROVE  Remembering'
PROOF
  BY DEF Remembering, DecisionsAreCurrent

(* The decisions remembered after each step of a request.                   *)
LEMMA RequestKeepsMemory ==
  ASSUME ConsoleAssumption, Inv, NEW r \in Requests, RequestStep(r)
  PROVE  Remembering'
PROOF
<1>1. Remembering /\ Loaded /\ Serving /\ Held
  BY DEF Inv
<1>2. CASE UNCHANGED hostVars
  BY <1>1, <1>2, SameMemory DEF hostVars
<1>3. CASE ApplyRules(r)
  <2>1. CASE worker[r] = "live"
    BY <1>3, <2>1, EmptyIsCurrent DEF ApplyRules, Remembering, DecisionsAreCurrent
  <2>2. CASE worker[r] # "live"
    BY <1>1, <1>3, <2>2, SameMemory DEF ApplyRules
  <2> QED
    BY <2>1, <2>2
<1>4. CASE ApplyRooms(r)
  <2>1. cache' = cache
    BY <1>4 DEF ApplyRooms
  <2>2. CASE live' = live
    BY <1>1, <2>1, <2>2, SameMemory
  <2>3. CASE live' # live
    <3>1. live # None
      BY <1>1, <1>4, <2>3 DEF ApplyRooms, Held
    <3>2. live' # None /\ live'.rules = live.rules
      <4>1. live \in Configs /\ None \notin Configs
        BY <1>1, <3>1 DEF Loaded, Good, ConsoleAssumption
      <4>2. live'.rules = live.rules
        BY <1>4, <2>3, <4>1 DEF ApplyRooms, Configs
      <4>3. live' # None
        <5>1. Loaded' /\ Serving' /\ Held'
          BY RequestKeepsShape
        <5>2. task[r] \in AllTasks /\ seen[r] \in Configs
          BY <1>1, <1>4 DEF ApplyRooms, Held, Active, Serving, Good, ConsoleAssumption
        <5>3. Regrouped(live, seen[r], task[r].rooms) \in Configs
          BY <4>1, <5>2, ChangedConfigs DEF AllTasks
        <5>4. live' \in Configs
          BY <1>4, <2>3, <4>1, <5>3 DEF ApplyRooms, Configs, Regrouped
        <5> QED
          BY <4>1, <5>4
      <4> QED
        BY <4>2, <4>3
    <3> QED
      BY <1>1, <2>1, <3>1, <3>2 DEF Remembering, DecisionsAreCurrent
  <2> QED
    BY <2>2, <2>3
<1>5. CASE \E t \in Tasks : Route(r, t)
  BY <1>2, <1>5 DEF Route
<1>6. CASE ReadRules(r) \/ ReadConfig(r) \/ ReadAgain(r)
  BY <1>2, <1>6 DEF ReadRules, ReadConfig, ReadAgain
<1>7. CASE \E told \in Reports : Directory(r, told)
  BY <1>2, <1>7 DEF Directory
<1>8. CASE Write(r) \/ Fails(r)
  BY <1>2, <1>8 DEF Write, Fails
<1> QED
  BY <1>3, <1>4, <1>5, <1>6, <1>7, <1>8 DEF RequestStep

(* Undisturbed requests stay in step with the file and the worker.          *)
LEMMA RequestStaysInStep ==
  ASSUME ConsoleAssumption, Inv, NEW r \in Requests, RequestStep(r)
  PROVE  InStep'
PROOF
<1> SUFFICES ASSUME ~ disturbed' PROVE InStep'
  BY DEF InStep
<1>1. Loaded /\ Serving /\ Held /\ Remembering /\ InStep
  BY DEF Inv
<1>2. None \notin Good /\ None \notin Tasks /\ Good \subseteq Configs
  BY DEF ConsoleAssumption, Good
<1>3. file \in Configs /\ Parses(file)
  BY <1>1 DEF Loaded, Good
<1>4. Loaded' /\ Serving' /\ Held'
  BY RequestKeepsShape
<1>5. ASSUME Active(r), ~ disturbed, UNCHANGED <<host, boot, live, disturbed>>,
             \A q \in Requests \ {r} : pc'[q] = pc[q],
             pc'[r] # "idle", InStepAt(r)', host = "up" => ~ Quiet'
      PROVE  InStep'
  <2>1. \A q \in Requests : Active(q) => q = r
    BY <1>1, <1>5 DEF InStep
  <2>2. \A q \in Requests : Active(q)' => q = r
    BY <1>5, <2>1 DEF Active
  <2>3. host \in {"up", "down"}
    BY <1>1, <1>5 DEF InStep, Quiet
  <2> QED
    BY <1>5, <2>2, <2>3 DEF InStep
<1>6. CASE \E t \in Tasks : Route(r, t)
  <2>1. PICK t \in Tasks : Route(r, t)
    BY <1>6
  <2>2. ~ disturbed /\ Quiet /\ host \in {"up", "down"} /\ UNCHANGED <<file, host, boot, live>>
    BY <2>1 DEF Route, hostVars
  <2>3. \A q \in Requests : Active(q)' => q = r
    BY <1>1, <2>1, <2>2 DEF Route, Active, Quiet, Serving
  <2>4. /\ pc'[r] = "read"
        /\ worker'[r] = IF live = None THEN "none" ELSE "live"
    BY <1>1, <2>1 DEF Route, Serving
  <2>5. host = "up" => live = file
    BY <1>1, <2>2 DEF InStep
  <2>6. InStepAt(r)'
    BY <2>2, <2>4, <2>5 DEF InStepAt
  <2>7. ~ Quiet'
    BY <2>4 DEF Quiet, Active
  <2> QED
    BY <1>1, <2>2, <2>3, <2>6, <2>7 DEF InStep
<1>7. CASE Active(r) /\ pc[r] # "apply" /\ Answered(r) /\ UNCHANGED <<file, hostVars>>
           /\ (disturbed => disturbed')
           /\ pc[r] # "list"
  <2>1. ~ disturbed /\ UNCHANGED <<file, host, boot, live>>
    BY <1>7 DEF hostVars
  <2>2. InStepAt(r) /\ pc[r] \in {"read", "directory", "again", "write"}
    BY <1>1, <1>7, <2>1 DEF InStep, Active, Serving, Steps
  <2>3. host = "up" => live = file
    BY <2>2 DEF InStepAt
  <2> QED
    BY <1>7, <2>1, <2>3, AnsweredInStep
<1>8. ASSUME Active(r), ~ disturbed, ~ disturbed'
      PROVE  /\ InStepAt(r) /\ task[r] \in Tasks /\ host \in {"up", "down"}
             /\ worker[r] = IF live = None THEN "none" ELSE "live"
             /\ host = "down" => live = None
    BY <1>1, <1>8 DEF InStep, InStepAt, Held, Quiet, Loaded
<1>9. CASE ReadRules(r)
  <2>1. Active(r) /\ ~ disturbed /\ UNCHANGED <<file, hostVars, disturbed>> /\ pc[r] = "read"
        /\ task[r].op # "groups"
    BY <1>9 DEF ReadRules, Active
  <2>2. CASE Answered(r)
    BY <1>7, <2>1, <2>2
  <2>3. CASE ~ Answered(r)
    <3> DEFINE next == [file EXCEPT !.rules = Edited(file.rules, task[r])]
    <3>1. draft' = [draft EXCEPT ![r] = next] /\ GoesTo(r, "write") /\ UNCHANGED seen
      BY <1>9, <2>3 DEF ReadRules, Drafts
    <3>2. /\ pc'[r] = "write" /\ draft'[r] = next /\ task' = task /\ worker' = worker
          /\ \A q \in Requests \ {r} : pc'[q] = pc[q]
      BY <1>1, <3>1 DEF Serving, GoesTo
    <3>3. next = [file EXCEPT !.rules = next.rules]
      BY <1>3 DEF Configs
    <3>4. ~ Quiet'
      BY <3>2 DEF Quiet, Active
    <3>5. InStepAt(r) /\ UNCHANGED <<file, host, boot, live>>
      BY <1>8, <2>1 DEF hostVars
    <3> HIDE DEF next
    <3>6. InStepAt(r)'
      BY <2>1, <3>2, <3>3, <3>5 DEF InStepAt
    <3> QED
      BY <1>5, <2>1, <3>2, <3>4, <3>5, <3>6
  <2> QED
    BY <2>2, <2>3
<1>10. CASE ReadConfig(r)
  <2>1. /\ Active(r) /\ ~ disturbed /\ UNCHANGED <<file, host, boot, live, disturbed>>
        /\ pc[r] = "list" \/ (pc[r] = "read" /\ task[r].op = "groups")
        /\ seen' = [seen EXCEPT ![r] = file]
        /\ GoesTo(r, IF pc[r] = "list" THEN "apply" ELSE "directory")
        /\ draft' = draft
    BY <1>3, <1>10 DEF ReadConfig, Active, hostVars
  <2>2. /\ pc'[r] = (IF pc[r] = "list" THEN "apply" ELSE "directory")
        /\ seen'[r] = file /\ task' = task /\ worker' = worker
        /\ \A q \in Requests \ {r} : pc'[q] = pc[q]
    BY <1>1, <2>1 DEF Serving, GoesTo
  <2>3. InStepAt(r) /\ (pc[r] = "list" => task[r].op # "groups")
    BY <1>1, <1>8, <2>1 DEF Held
  <2>4. ~ Quiet'
    BY <2>2 DEF Quiet, Active
  <2>5. InStepAt(r)'
    BY <2>1, <2>2, <2>3 DEF InStepAt
  <2> QED
    BY <1>5, <2>1, <2>2, <2>4, <2>5
<1>11. CASE \E told \in Reports : Directory(r, told)
  <2>1. Active(r) /\ ~ disturbed /\ UNCHANGED <<file, hostVars, disturbed>>
        /\ pc[r] = "directory"
    BY <1>11 DEF Directory, Active
  <2>2. Answered(r) \/ (GoesTo(r, "again") /\ UNCHANGED <<seen, draft>>)
    BY <1>11 DEF Directory
  <2>3. CASE Answered(r)
    BY <1>7, <2>1, <2>3
  <2>4. CASE GoesTo(r, "again") /\ UNCHANGED <<seen, draft>>
    <3>1. /\ pc'[r] = "again" /\ task' = task /\ worker' = worker
          /\ \A q \in Requests \ {r} : pc'[q] = pc[q]
      BY <1>1, <2>4 DEF Serving, GoesTo
    <3>2. ~ Quiet'
      BY <3>1 DEF Quiet, Active
    <3>3. InStepAt(r) /\ UNCHANGED <<file, host, boot, live>>
      BY <1>8, <2>1 DEF hostVars
    <3>4. InStepAt(r)'
      BY <2>1, <2>4, <3>1, <3>3 DEF InStepAt
    <3> QED
      BY <1>5, <2>1, <3>1, <3>2, <3>3, <3>4
  <2> QED
    BY <2>2, <2>3, <2>4
<1>12. CASE ReadAgain(r)
  <2>1. Active(r) /\ ~ disturbed /\ UNCHANGED <<file, hostVars, disturbed>> /\ pc[r] = "again"
        /\ task[r].op = "groups"
    BY <1>1, <1>12 DEF ReadAgain, Active, Held
  <2>2. CASE Answered(r)
    BY <1>7, <2>1, <2>2
  <2>3. CASE ~ Answered(r)
    <3> DEFINE next == Regrouped(file, seen[r], task[r].rooms)
    <3>1. draft' = [draft EXCEPT ![r] = next] /\ GoesTo(r, "write") /\ UNCHANGED seen
      BY <1>12, <2>3 DEF ReadAgain, Drafts
    <3>2. /\ pc'[r] = "write" /\ draft'[r] = next /\ task' = task /\ worker' = worker
          /\ \A q \in Requests \ {r} : pc'[q] = pc[q]
      BY <1>1, <3>1 DEF Serving, GoesTo
    <3>3. ~ Quiet'
      BY <3>2 DEF Quiet, Active
    <3>4. InStepAt(r) /\ UNCHANGED <<file, host, boot, live>>
      BY <1>8, <2>1 DEF hostVars
    <3>5. seen[r] = file /\ seen'[r] = file /\ draft'[r] = Regrouped(file, file, task[r].rooms)
      BY <2>1, <3>1, <3>2, <3>4 DEF InStepAt
    <3> HIDE DEF next
    <3>6. InStepAt(r)'
      BY <2>1, <3>2, <3>4, <3>5 DEF InStepAt
    <3> QED
      BY <1>5, <2>1, <3>2, <3>3, <3>4, <3>6
  <2> QED
    BY <2>2, <2>3
<1>13. CASE Write(r)
  <2>1. /\ Active(r) /\ pc[r] = "write" /\ ~ disturbed
        /\ UNCHANGED <<host, boot, live, disturbed>>
        /\ file' = draft[r] /\ seen' = seen
        /\ GoesTo(r, IF task[r].op = "groups" THEN "apply" ELSE "list")
    BY <1>13 DEF Write, Active, hostVars
  <2>2. /\ pc'[r] = (IF task[r].op = "groups" THEN "apply" ELSE "list")
        /\ task' = task /\ worker' = worker
        /\ \A q \in Requests \ {r} : pc'[q] = pc[q]
    BY <1>1, <2>1 DEF Serving, GoesTo
  <2>3. InStepAt(r)
    BY <1>8, <2>1
  <2>4. ~ Quiet'
    BY <2>2 DEF Quiet, Active
  <2>5. InStepAt(r)'
    <3>1. CASE task[r].op = "groups"
      <4>1. seen[r] = file /\ file' = Regrouped(file, file, task[r].rooms)
        BY <2>1, <2>3, <3>1 DEF InStepAt
      <4>2. host = "up" => live = file
        BY <2>1, <2>3 DEF InStepAt
      <4>3. worker[r] = IF live = None THEN "none" ELSE "live"
        BY <2>3 DEF InStepAt
      <4> QED
        BY <2>1, <2>2, <3>1, <4>1, <4>2, <4>3 DEF InStepAt
    <3>2. CASE task[r].op # "groups"
      <4>1. file' = [file EXCEPT !.rules = file'.rules]
        BY <2>1, <2>3, <3>2 DEF InStepAt
      <4>2. file = [[file EXCEPT !.rules = file'.rules] EXCEPT !.rules = file.rules]
        BY <1>3 DEF Configs
      <4>3. host = "up" => live = [file' EXCEPT !.rules = live.rules]
        <5>1. host = "up" => live = file
          BY <2>1, <2>3 DEF InStepAt
        <5> QED
          BY <4>1, <4>2, <5>1
      <4>4. worker[r] = IF live = None THEN "none" ELSE "live"
        BY <2>3 DEF InStepAt
      <4> QED
        BY <2>1, <2>2, <3>2, <4>3, <4>4 DEF InStepAt
    <3> QED
      BY <3>1, <3>2
  <2> QED
    BY <1>5, <2>1, <2>2, <2>4, <2>5
<1>14. CASE Fails(r)
  <2>1. /\ Active(r) /\ pc[r] # "apply" /\ Answered(r) /\ UNCHANGED <<file, hostVars>>
        /\ disturbed' = (disturbed \/ pc[r] = "list")
    BY <1>14 DEF Fails
  <2>2. pc[r] # "list"
    BY <2>1
  <2> QED
    BY <1>7, <2>1, <2>2
<1>15. CASE ApplyRules(r)
  <2>1. /\ Active(r) /\ pc[r] = "apply" /\ task[r].op # "groups" /\ ~ disturbed
        /\ Answered(r) /\ UNCHANGED <<file, host, boot, disturbed>>
    BY <1>15 DEF ApplyRules, Active
  <2>2. InStepAt(r)
    BY <1>8, <2>1
  <2>3. host = "up" => live' = file
    <3> SUFFICES ASSUME host = "up" PROVE live' = file
      OBVIOUS
    <3>1. live = [file EXCEPT !.rules = live.rules] /\ seen[r] = file /\ worker[r] = "live"
      BY <1>1, <2>1, <2>2 DEF InStepAt, Loaded
    <3>2. live' = [live EXCEPT !.rules = file.rules]
      BY <1>15, <3>1 DEF ApplyRules
    <3>3. [[file EXCEPT !.rules = live.rules] EXCEPT !.rules = file.rules] = file
      BY <1>3 DEF Configs
    <3> QED
      BY <3>1, <3>2, <3>3
  <2> QED
    BY <2>1, <2>3, AnsweredInStep
<1>16. CASE ApplyRooms(r)
  <2> DEFINE rooms == task[r].rooms
  <2>1. /\ Active(r) /\ pc[r] = "apply" /\ task[r].op = "groups" /\ ~ disturbed
        /\ Answered(r) /\ UNCHANGED <<file, boot, disturbed>>
    BY <1>16 DEF ApplyRooms, Active
  <2>2. InStepAt(r)
    BY <1>8, <2>1
  <2>3. host' \in {host, "restarting"}
    BY <1>16 DEF ApplyRooms, RestartAsked
  <2>4. host' = "up" => live' = file
    <3> SUFFICES ASSUME host' = "up" PROVE live' = file
      OBVIOUS
    <3>1. /\ host = "up" /\ ~ SurfacesChanged(seen[r], rooms)
      BY <1>16 DEF ApplyRooms, RestartAsked
    <3>2. seen[r] = live /\ file = Regrouped(live, live, rooms) /\ worker[r] = "live"
      BY <1>1, <2>1, <2>2, <3>1 DEF InStepAt, Loaded
    <3>3. live' = [live EXCEPT !.selected = rooms,
                               !.dedicated = Dedicated(rooms, live.slotBudget)]
      BY <1>16, <3>1, <3>2 DEF ApplyRooms
    <3>4. live.talk = WantsTalk(rooms) /\ live.square = WantsSquare(rooms)
      BY <3>1, <3>2 DEF SurfacesChanged
    <3>5. live \in Configs
      BY <1>1, <1>2, <3>1 DEF Loaded
    <3> HIDE DEF rooms
    <3>6. Regrouped(live, live, rooms)
            = [live EXCEPT !.selected = rooms,
                           !.dedicated = Dedicated(rooms, live.slotBudget)]
      BY <3>4, <3>5 DEF Regrouped, Configs
    <3> QED
      BY <3>2, <3>3, <3>6
  <2> QED
    BY <2>1, <2>3, <2>4, AnsweredInStep
<1> QED
  BY <1>6, <1>9, <1>10, <1>11, <1>12, <1>13, <1>14, <1>15, <1>16 DEF RequestStep

(* The host's own steps, the worker's, and the end of the process.          *)
LEMMA HostKeepsInv ==
  ASSUME ConsoleAssumption, Inv,
         \/ Restart \/ TearDown \/ ReadBoot \/ Connects \/ ConnectFails
         \/ (\E raw \in Messages : Receive(raw)) \/ Crash
  PROVE  Inv'
PROOF
<1>1. Loaded /\ Serving /\ Held /\ Remembering /\ InStep
  BY DEF Inv
<1>2. None \notin Good
  BY DEF ConsoleAssumption, Good
<1>3. ASSUME UNCHANGED requestVars, live' = live PROVE Serving' /\ Held'
  <2>1. UNCHANGED <<pc, task, worker, seen, draft>>
    BY <1>3 DEF requestVars
  <2> QED
    BY <1>1, <1>3, <2>1 DEF Serving, Held, Active
<1>4. ASSUME UNCHANGED requestVars PROVE Quiet' <=> Quiet
  BY <1>4 DEF requestVars, Quiet, Active
<1>5. ASSUME Quiet', ~ disturbed', host' = "connecting" => boot' = file',
             host' = "up" => live' = file'
      PROVE  InStep'
  BY <1>5 DEF InStep, Quiet, Active
<1>6. CASE Restart
  <2>1. /\ host \in {"up", "down"} /\ host' = "restarting"
        /\ disturbed' = (disturbed \/ ~ Quiet)
        /\ UNCHANGED <<file, boot, live, cache, requestVars>>
    BY <1>6 DEF Restart, RestartAsked
  <2>2. disturbed' \in BOOLEAN
    BY <2>1
  <2>3. Loaded'
    BY <1>1, <2>1, <2>2 DEF Loaded, HostStates
  <2>4. Serving' /\ Held' /\ Remembering'
    BY <1>1, <1>3, <2>1, SameMemory
  <2>5. InStep'
    <3> SUFFICES ASSUME ~ disturbed' PROVE InStep'
      BY DEF InStep
    <3>1. Quiet'
      BY <1>4, <2>1
    <3> QED
      BY <1>5, <2>1, <3>1
  <2> QED
    BY <2>3, <2>4, <2>5 DEF Inv
<1>7. CASE TearDown
  <2>1. /\ host = "restarting" /\ host' = "reading" /\ live' = None /\ cache' = <<>>
        /\ worker' = [r \in Requests |-> IF worker[r] = "live" THEN "gone" ELSE worker[r]]
        /\ UNCHANGED <<file, boot, pc, task, seen, draft, disturbed>>
    BY <1>7 DEF TearDown
  <2>2. Loaded'
    BY <1>1, <2>1 DEF Loaded, HostStates
  <2>3. Serving'
    BY <1>1, <2>1 DEF Serving
  <2>4. Held'
    BY <1>1, <2>1 DEF Held, Serving, Active
  <2>5. Remembering'
    BY <2>1, EmptyIsCurrent DEF Remembering, DecisionsAreCurrent
  <2>6. InStep'
    <3> SUFFICES ASSUME ~ disturbed' PROVE InStep'
      BY DEF InStep
    <3>1. Quiet'
      BY <1>1, <2>1 DEF InStep, Quiet, Active
    <3> QED
      BY <1>5, <2>1, <3>1
  <2> QED
    BY <2>2, <2>3, <2>4, <2>5, <2>6 DEF Inv
<1>8. CASE ReadBoot
  <2>1. /\ host = "reading" /\ disturbed' = ~ Quiet
        /\ host' = "connecting" /\ boot' = file
        /\ UNCHANGED <<file, live, cache, requestVars>>
    BY <1>1, <1>8 DEF ReadBoot, Loaded, Good
  <2>2. disturbed' \in BOOLEAN
    BY <2>1
  <2>3. Loaded'
    BY <1>1, <1>2, <2>1, <2>2 DEF Loaded, HostStates
  <2>4. Serving' /\ Held' /\ Remembering'
    BY <1>1, <1>3, <2>1, SameMemory
  <2>5. InStep'
    <3> SUFFICES ASSUME ~ disturbed' PROVE InStep'
      BY DEF InStep
    <3>1. Quiet'
      BY <1>4, <2>1
    <3> QED
      BY <1>5, <2>1, <3>1
  <2> QED
    BY <2>3, <2>4, <2>5 DEF Inv
<1>9. CASE Connects
  <2>1. /\ host = "connecting" /\ host' = "up" /\ live' = boot /\ boot' = None
        /\ cache' = <<>> /\ UNCHANGED <<file, requestVars, disturbed>>
    BY <1>9 DEF Connects
  <2>2. boot \in Good /\ boot # None
    BY <1>1, <2>1 DEF Loaded
  <2>3. Loaded'
    BY <1>1, <2>1, <2>2 DEF Loaded, HostStates
  <2>4. UNCHANGED <<pc, task, worker, seen, draft>>
    BY <2>1 DEF requestVars
  <2>5. Serving'
    BY <1>1, <2>4 DEF Serving
  <2>6. Held'
    BY <1>1, <2>1, <2>2, <2>4 DEF Held, Active
  <2>7. Remembering'
    BY <2>1, EmptyIsCurrent DEF Remembering, DecisionsAreCurrent
  <2>8. InStep'
    <3> SUFFICES ASSUME ~ disturbed' PROVE InStep'
      BY DEF InStep
    <3>1. Quiet /\ boot = file
      BY <1>1, <2>1 DEF InStep
    <3>2. Quiet'
      BY <1>4, <2>1, <3>1
    <3> QED
      BY <1>5, <2>1, <3>1, <3>2
  <2> QED
    BY <2>3, <2>5, <2>6, <2>7, <2>8 DEF Inv
<1>10. CASE ConnectFails
  <2>1. /\ host = "connecting" /\ host' = "down" /\ boot' = None
        /\ UNCHANGED <<file, live, cache, requestVars, disturbed>>
    BY <1>10 DEF ConnectFails
  <2>2. Loaded'
    BY <1>1, <2>1 DEF Loaded, HostStates
  <2>3. Serving' /\ Held' /\ Remembering'
    BY <1>1, <1>3, <2>1, SameMemory
  <2>4. InStep'
    <3> SUFFICES ASSUME ~ disturbed' PROVE InStep'
      BY DEF InStep
    <3>1. Quiet'
      BY <1>1, <1>4, <2>1 DEF InStep
    <3> QED
      BY <1>5, <2>1, <3>1
  <2> QED
    BY <2>2, <2>3, <2>4 DEF Inv
<1>11. CASE \E raw \in Messages : Receive(raw)
  <2>1. PICK raw \in Messages : Receive(raw)
    BY <1>11
  <2>2. /\ live # None /\ cache' = Cached(live.rules, cache, raw)
        /\ UNCHANGED <<file, host, boot, live, requestVars, disturbed>>
    BY <2>1 DEF Receive
  <2>3. live \in Good /\ raw \in Texts
    BY <1>1, <2>2 DEF Loaded, ConsoleAssumption
  <2>4. Loaded'
    BY <1>1, <2>2 DEF Loaded
  <2>5. Serving' /\ Held'
    BY <1>3, <2>2
  <2>6. Remembering'
    BY <1>1, <2>2, <2>3, CachedIsCurrent DEF Remembering, DecisionsAreCurrent
  <2>7. InStep'
    <3>1. UNCHANGED <<pc, task, worker, seen, draft>>
      BY <2>2 DEF requestVars
    <3> QED
      BY <1>1, <2>2, <3>1 DEF InStep, InStepAt, Quiet, Active
  <2> QED
    BY <2>4, <2>5, <2>6, <2>7 DEF Inv
<1>12. CASE Crash
  <2>1. Loaded'
    BY <1>1, <1>12 DEF Crash, Loaded, HostStates
  <2>2. Serving' /\ Held'
    BY <1>12 DEF Crash, Serving, Held, Active, Steps
  <2>3. Remembering'
    BY <1>12, EmptyIsCurrent DEF Crash, Remembering, DecisionsAreCurrent
  <2>4. InStep'
    BY <1>5, <1>12 DEF Crash, Quiet, Active
  <2> QED
    BY <2>1, <2>2, <2>3, <2>4 DEF Inv
<1> QED
  BY <1>6, <1>7, <1>8, <1>9, <1>10, <1>11, <1>12

(* A step that changes nothing.                                             *)
LEMMA StutterKeepsInv ==
  ASSUME Inv, UNCHANGED vars
  PROVE  Inv'
PROOF
<1>1. /\ UNCHANGED <<file, host, boot, live, cache, disturbed>>
      /\ UNCHANGED <<pc, task, worker, seen, draft>>
  BY DEF vars, hostVars, requestVars
<1>2. Loaded' /\ Serving' /\ Held'
  BY <1>1 DEF Inv, Loaded, Serving, Held, Active
<1>3. Remembering'
  BY <1>1, SameMemory DEF Inv
<1>4. InStep'
  BY <1>1 DEF Inv, InStep, InStepAt, Quiet, Active
<1> QED
  BY <1>2, <1>3, <1>4 DEF Inv

(* The invariant holds in every state.                                      *)
LEMMA Invariance ==
  ASSUME ConsoleAssumption
  PROVE  Spec => []Inv
PROOF
<1>1. Init => Inv
  BY InitInv
<1>2. Inv /\ [Next]_vars => Inv'
  <2> SUFFICES ASSUME Inv, [Next]_vars PROVE Inv'
    OBVIOUS
  <2>1. CASE \E r \in Requests : RequestStep(r)
    BY <2>1, RequestKeepsShape, RequestKeepsMemory, RequestStaysInStep DEF Inv
  <2>2. CASE \/ Restart \/ TearDown \/ ReadBoot \/ Connects \/ ConnectFails
             \/ (\E raw \in Messages : Receive(raw)) \/ Crash
    BY <2>2, HostKeepsInv
  <2>3. CASE UNCHANGED vars
    BY <2>3, StutterKeepsInv
  <2> QED
    BY <2>1, <2>2, <2>3 DEF Next
<1> QED
  BY <1>1, <1>2, PTL DEF Spec

(* ---------------------------------------------------------------------- *)
(* The theorems.                                                            *)

(* The variables keep their types, for any constants.                       *)
THEOREM TypeCorrect ==
  ASSUME ConsoleAssumption
  PROVE  Spec => []TypeOK
PROOF
<1>1. Inv => TypeOK
  BY DEF Inv, Loaded, Serving, Remembering, Good, TypeOK
<1> QED
  BY <1>1, Invariance, PTL

(* However the edits of any number of requests overlap each other, restarts *)
(* and crashes, the file is one a worker loads.                             *)
THEOREM FileAlwaysLoads ==
  ASSUME ConsoleAssumption
  PROVE  Spec => []FileLoads
PROOF
<1>1. Inv => FileLoads
  BY DEF Inv, Loaded, Good, FileLoads
<1> QED
  BY <1>1, Invariance, PTL

(* No worker polls a room it does not answer, whichever selections overlap. *)
THEOREM PolledIsAnswered ==
  ASSUME ConsoleAssumption
  PROVE  Spec => []PolledAreAnswered
PROOF
<1>1. Inv => PolledAreAnswered
  BY DEF Inv, Loaded, Good, PolledAreAnswered
<1> QED
  BY <1>1, Invariance, PTL

(* Every decision a worker remembers is the one its present rules make, by  *)
(* MatchIsBest the rule that beats all others that match.                   *)
THEOREM DecisionsStayCurrent ==
  ASSUME ConsoleAssumption
  PROVE  Spec => []DecisionsAreCurrent
PROOF
<1>1. Inv => DecisionsAreCurrent
  BY DEF Inv, Remembering
<1> QED
  BY <1>1, Invariance, PTL

(* What is saved is what runs, when requests come one at a time.            *)
THEOREM WorkerFollowsFile ==
  ASSUME ConsoleAssumption
  PROVE  Spec => []WorkerRunsFile
PROOF
<1>1. Inv => WorkerRunsFile
  BY DEF Inv, InStep, WorkerRunsFile
<1> QED
  BY <1>1, Invariance, PTL

------------------------------------------------------------------------------
(* The write-behind queue for any batch size and limit.  The invariant says *)
(* what a close knows of the queue while it waits: its own flush has made   *)
(* the queue shorter, and nothing can make it longer again.                 *)

Closing ==
  /\ closed <=> closer.at # "none"
  /\ closer.at = "flush" => flushing
  /\ closer.at = "flush" \/ (closer.at = "check" /\ ~ overtaken) => queued < closer.before
  /\ WB!CloseLeavesNothing

WritesInv ==
  /\ WB!TypeOK
  /\ ~ flushing => batch = 0
  /\ WB!RecordsAreAccounted
  /\ WB!WaitingIsScheduled
  /\ Closing

(* flushNow keeps the types and the number of records, and takes at least   *)
(* one unless a flush is under way (write-behind.ts:92-97).                 *)
LEMMA FlushTakes ==
  ASSUME WB!WriteBehindAssumption, WB!TypeOK, ~ flushing => batch = 0,
         NEW n \in 0 .. MaxQueued, WB!FlushNow(n)
  PROVE  /\ queued' \in 0 .. MaxQueued /\ batch' \in 0 .. BatchSize /\ flushing' \in BOOLEAN
         /\ queued' + batch' = n + batch
         /\ ~ flushing' => batch' = 0
         /\ queued' <= n
         /\ n > 0 => flushing'
         /\ flushing => flushing' /\ queued' = n
         /\ n > 0 /\ ~ flushing => queued' < n
  <1>1. CASE flushing \/ n = 0
    BY <1>1 DEF WB!FlushNow, WB!TypeOK
  <1>2. CASE ~ (flushing \/ n = 0)
    <2>1. WB!Spliced(n) \in 1 .. BatchSize /\ WB!Spliced(n) <= n
      BY <1>2 DEF WB!Spliced, WB!WriteBehindAssumption
    <2>2. batch' = WB!Spliced(n) /\ queued' = n - WB!Spliced(n) /\ flushing' = TRUE
      BY <1>2 DEF WB!FlushNow
    <2> QED
      BY <1>2, <2>1, <2>2 DEF WB!TypeOK, WB!WriteBehindAssumption
  <1> QED
    BY <1>1, <1>2

(* The queue is empty to begin with (write-behind.ts:48-52).                *)
LEMMA WritesInitInv == ASSUME WB!WriteBehindAssumption, WB!Init PROVE WritesInv
  <1>1. WB!TypeOK
    <2>1. queued \in 0 .. MaxQueued /\ batch \in 0 .. BatchSize /\ accepted \in Nat
      BY DEF WB!Init, WB!WriteBehindAssumption
    <2>2. closer \in [at: {"none", "flush", "check", "done"}, before: Nat]
      BY DEF WB!Init
    <2>3. stats \in [written: Nat, dropped: Nat, lost: Nat]
      BY DEF WB!Init
    <2>4. {flushing, armed, closed, overtaken} \subseteq BOOLEAN
      BY DEF WB!Init
    <2> QED
      BY <2>1, <2>2, <2>3, <2>4 DEF WB!TypeOK
  <1>2. batch = 0 /\ WB!RecordsAreAccounted /\ WB!WaitingIsScheduled
    BY DEF WB!Init, WB!RecordsAreAccounted, WB!WaitingIsScheduled
  <1>3. closer.at = "none" /\ closed = FALSE
    BY DEF WB!Init
  <1>4. Closing
    BY <1>3 DEF Closing, WB!CloseLeavesNothing
  <1> QED
    BY <1>1, <1>2, <1>4 DEF WritesInv

(* enqueue keeps the invariant (write-behind.ts:76-88).                     *)
LEMMA EnqueueInv ==
  ASSUME WB!WriteBehindAssumption, WritesInv, WB!Enqueue
  PROVE  WritesInv'
  <1> DEFINE over == queued + 1 > MaxQueued
             n == IF over THEN queued ELSE queued + 1
  <1>1. /\ ~ closed /\ accepted' = accepted + 1
        /\ stats' = [stats EXCEPT !.dropped = IF over THEN @ + 1 ELSE @]
        /\ closed' = closed /\ closer' = closer /\ overtaken' = overtaken
    BY DEF WB!Enqueue
  <1>2. n \in 0 .. MaxQueued /\ n > 0
    BY DEF WritesInv, WB!TypeOK, WB!WriteBehindAssumption
  <1>3. /\ stats' \in [written: Nat, dropped: Nat, lost: Nat] /\ accepted' \in Nat
        /\ stats'.written = stats.written /\ stats'.lost = stats.lost
        /\ stats'.dropped + n = stats.dropped + queued + 1
    BY <1>1 DEF WritesInv, WB!TypeOK
  <1>4. closer.at = "none" /\ closer'.at = "none"
    BY <1>1 DEF WritesInv, Closing
  <1>5a. Closing'
    BY <1>1, <1>4 DEF Closing, WB!CloseLeavesNothing
  <1>5. CASE n >= BatchSize
    <2>1. WB!FlushNow(n) /\ armed' = armed
      BY <1>5 DEF WB!Enqueue
    <2>2. /\ queued' \in 0 .. MaxQueued /\ batch' \in 0 .. BatchSize /\ flushing' \in BOOLEAN
          /\ queued' + batch' = n + batch
          /\ ~ flushing' => batch' = 0
          /\ flushing'
      BY <1>2, <2>1, FlushTakes DEF WritesInv
    <2>3. WB!TypeOK' /\ WB!RecordsAreAccounted'
      BY <1>1, <1>2, <1>3, <2>1, <2>2 DEF WritesInv, WB!TypeOK, WB!RecordsAreAccounted
    <2>4. WB!WaitingIsScheduled'
      BY <2>2 DEF WB!WaitingIsScheduled
    <2> QED
      BY <1>5a, <2>2, <2>3, <2>4 DEF WritesInv
  <1>6. CASE ~ (n >= BatchSize)
    <2>1. queued' = n /\ WB!Arm /\ batch' = batch /\ flushing' = flushing
      BY <1>6 DEF WB!Enqueue
    <2>2. armed' \in BOOLEAN /\ armed'
      BY <1>1, <2>1 DEF WB!Arm, WritesInv, WB!TypeOK
    <2>3. WB!TypeOK' /\ WB!RecordsAreAccounted'
      BY <1>1, <1>2, <1>3, <2>1, <2>2 DEF WritesInv, WB!TypeOK, WB!RecordsAreAccounted
    <2>4. WB!WaitingIsScheduled'
      BY <2>2 DEF WB!WaitingIsScheduled
    <2> QED
      BY <1>5a, <2>1, <2>3, <2>4 DEF WritesInv
  <1> QED
    BY <1>5, <1>6

(* A flush that the timer or somebody starts keeps it                       *)
(* (write-behind.ts:92-97, 126-129).                                        *)
LEMMA FlushInv ==
  ASSUME WB!WriteBehindAssumption, WritesInv, WB!TimerFires \/ WB!FlushAsked
  PROVE  WritesInv'
  <1>1. /\ WB!FlushNow(queued) /\ armed' \in BOOLEAN
        /\ UNCHANGED <<closed, closer, stats, accepted, overtaken>>
    BY DEF WB!TimerFires, WB!FlushAsked, WritesInv, WB!TypeOK
  <1>2. queued \in 0 .. MaxQueued
    BY DEF WritesInv, WB!TypeOK
  <1>3. /\ queued' \in 0 .. MaxQueued /\ batch' \in 0 .. BatchSize /\ flushing' \in BOOLEAN
        /\ queued' + batch' = queued + batch
        /\ ~ flushing' => batch' = 0
        /\ queued' <= queued
        /\ queued > 0 => flushing'
        /\ flushing => flushing' /\ queued' = queued
    BY <1>1, <1>2, FlushTakes DEF WritesInv
  <1>4. WB!TypeOK' /\ WB!RecordsAreAccounted'
    BY <1>1, <1>2, <1>3 DEF WritesInv, WB!TypeOK, WB!RecordsAreAccounted
  <1>5. WB!WaitingIsScheduled'
    BY <1>1, <1>2, <1>3 DEF WritesInv, WB!WaitingIsScheduled
  <1>6. Closing'
    <2>1. closer.before \in Nat
      BY DEF WritesInv, WB!TypeOK
    <2>2. closer.at = "flush" => flushing'
      BY <1>3 DEF WritesInv, Closing
    <2>3. closer.at = "flush" \/ (closer.at = "check" /\ ~ overtaken) => queued' < closer.before
      BY <1>2, <1>3, <2>1 DEF WritesInv, Closing
    <2>4. closer.at = "done" /\ ~ overtaken => queued' = 0
      BY <1>2, <1>3 DEF WritesInv, Closing, WB!CloseLeavesNothing
    <2> QED
      BY <1>1, <2>2, <2>3, <2>4 DEF WritesInv, Closing, WB!CloseLeavesNothing
  <1> QED
    BY <1>3, <1>4, <1>5, <1>6 DEF WritesInv

(* The end of a flush arms the timer when records wait                      *)
(* (write-behind.ts:98-110).                                                *)
LEMMA FlushEndsInv ==
  ASSUME WB!WriteBehindAssumption, WritesInv, WB!FlushEnds
  PROVE  WritesInv'
  <1>1. /\ flushing /\ flushing' = FALSE /\ batch' = 0
        /\ closer' = IF closer.at = "flush" THEN [closer EXCEPT !.at = "check"] ELSE closer
        /\ UNCHANGED <<queued, closed, accepted, overtaken>>
    BY DEF WB!FlushEnds
  <1>2. /\ stats' \in [written: Nat, dropped: Nat, lost: Nat]
        /\ stats'.written + stats'.dropped + stats'.lost
             = stats.written + stats.dropped + stats.lost + batch
    BY DEF WB!FlushEnds, WritesInv, WB!TypeOK, WB!WriteBehindAssumption
  <1>3. armed' \in BOOLEAN /\ (queued > 0 /\ ~ closed => armed')
    BY DEF WB!FlushEnds, WB!Arm, WritesInv, WB!TypeOK
  <1>4. /\ closer' \in [at: {"none", "flush", "check", "done"}, before: Nat]
        /\ closer'.before = closer.before
        /\ closer'.at = IF closer.at = "flush" THEN "check" ELSE closer.at
    BY <1>1 DEF WritesInv, WB!TypeOK
  <1>5. WB!TypeOK'
    <2>1. /\ queued' \in 0 .. MaxQueued /\ batch' \in 0 .. BatchSize
          /\ accepted' \in Nat /\ overtaken' \in BOOLEAN /\ closed' \in BOOLEAN
      BY <1>1 DEF WritesInv, WB!TypeOK, WB!WriteBehindAssumption
    <2>2. stats' \in [written: Nat, dropped: Nat, lost: Nat]
      BY <1>2
    <2> QED
      BY <1>1, <1>3, <1>4, <2>1, <2>2 DEF WB!TypeOK
  <1>6. WB!RecordsAreAccounted' /\ WB!WaitingIsScheduled'
    <2>1. WB!RecordsAreAccounted'
      <3>1. /\ queued \in Nat /\ batch \in Nat
            /\ accepted' = accepted /\ queued' = queued /\ batch' = 0
        BY <1>1 DEF WritesInv, WB!TypeOK, WB!WriteBehindAssumption
      <3>2. /\ stats.written \in Nat /\ stats.dropped \in Nat /\ stats.lost \in Nat
            /\ stats'.written \in Nat /\ stats'.dropped \in Nat /\ stats'.lost \in Nat
        BY <1>2 DEF WritesInv, WB!TypeOK
      <3>3. stats'.written + stats'.dropped + stats'.lost
              = stats.written + stats.dropped + stats.lost + batch
        BY <1>2
      <3>4. accepted = queued + batch + stats.written + stats.dropped + stats.lost
        BY DEF WritesInv, WB!RecordsAreAccounted
      <3> QED
        BY <3>1, <3>2, <3>3, <3>4 DEF WB!RecordsAreAccounted
    <2> QED
      BY <1>1, <1>3, <2>1 DEF WB!WaitingIsScheduled
  <1>7. Closing'
    BY <1>1, <1>4 DEF WritesInv, WB!TypeOK, Closing, WB!CloseLeavesNothing
  <1> QED
    BY <1>1, <1>5, <1>6, <1>7 DEF WritesInv

(* A round of close's loop keeps what close knows (write-behind.ts:117-121).*)
LEMMA CloseLoopInv ==
  ASSUME WB!WriteBehindAssumption, WritesInv, WB!CloseLoop, closed', armed' \in BOOLEAN,
         closer.at \in {"none", "check"}, UNCHANGED <<stats, accepted>>
  PROVE  WritesInv'
  <1>1. queued \in 0 .. MaxQueued /\ WB!FlushNow(queued)
    BY DEF WritesInv, WB!TypeOK, WB!CloseLoop
  <1>2. /\ queued' \in 0 .. MaxQueued /\ batch' \in 0 .. BatchSize /\ flushing' \in BOOLEAN
        /\ queued' + batch' = queued + batch
        /\ ~ flushing' => batch' = 0
        /\ queued' <= queued
        /\ queued > 0 => flushing'
        /\ flushing => flushing' /\ queued' = queued
        /\ queued > 0 /\ ~ flushing => queued' < queued
    BY <1>1, FlushTakes DEF WritesInv
  <1>3. /\ closer' = [at |-> IF queued = 0 THEN "done" ELSE IF flushing THEN "check" ELSE "flush",
                      before |-> queued]
        /\ overtaken' = (overtaken \/ (queued > 0 /\ flushing))
    BY DEF WB!CloseLoop
  <1>4. overtaken' \in BOOLEAN
    BY <1>3
  <1>5. WB!TypeOK'
    BY <1>1, <1>2, <1>3, <1>4 DEF WritesInv, WB!TypeOK
  <1>6. WB!RecordsAreAccounted' /\ WB!WaitingIsScheduled'
    BY <1>1, <1>2 DEF WritesInv, WB!TypeOK, WB!RecordsAreAccounted, WB!WaitingIsScheduled
  <1>7. Closing'
    <2>1. CASE queued = 0
      <3>1. closer'.at = "done" /\ queued' = 0
        BY <1>1, <1>2, <1>3, <2>1
      <3> QED
        BY <3>1 DEF Closing, WB!CloseLeavesNothing
    <2>2. CASE queued # 0 /\ flushing
      <3>1. closer'.at = "check"
        BY <1>3, <2>2
      <3>2. queued > 0
        BY <1>1, <2>2
      <3>3. overtaken'
        BY <1>3, <2>2, <3>2, Zenon
      <3> QED
        BY <3>1, <3>3 DEF Closing, WB!CloseLeavesNothing
    <2>3. CASE queued # 0 /\ ~ flushing
      <3>1. closer'.at = "flush" /\ closer'.before = queued /\ queued' < queued /\ flushing'
        BY <1>1, <1>2, <1>3, <2>3
      <3>2. ~ (closer'.at = "check") /\ ~ (closer'.at = "done") /\ closer'.at # "none"
        BY <3>1
      <3> QED
        BY <3>1, <3>2 DEF Closing, WB!CloseLeavesNothing
    <2> QED
      BY <2>1, <2>2, <2>3
  <1> QED
    BY <1>2, <1>5, <1>6, <1>7 DEF WritesInv

(* close keeps it (write-behind.ts:114-122).                                *)
LEMMA CloseInv ==
  ASSUME WB!WriteBehindAssumption, WritesInv, WB!Close \/ WB!CloseChecks
  PROVE  WritesInv'
  <1>1. CASE WB!Close
    <2>1. closer.at = "none"
      BY <1>1 DEF WB!Close, WritesInv, Closing
    <2> QED
      BY <1>1, <2>1, CloseLoopInv DEF WB!Close
  <1>2. CASE WB!CloseChecks /\ queued >= closer.before
    <2>1. /\ closer.at = "check" /\ closer' = [closer EXCEPT !.at = "done"]
          /\ UNCHANGED <<WB!flushVars, overtaken, armed, closed, stats, accepted>>
      BY <1>2 DEF WB!CloseChecks
    <2>2. overtaken
      BY <1>2, <2>1 DEF WritesInv, Closing, WB!TypeOK
    <2>3. closer' \in [at: {"none", "flush", "check", "done"}, before: Nat] /\ closer'.at = "done"
      BY <2>1 DEF WritesInv, WB!TypeOK
    <2> QED
      BY <2>1, <2>2, <2>3
      DEF WritesInv, WB!TypeOK, Closing, WB!RecordsAreAccounted, WB!WaitingIsScheduled,
          WB!CloseLeavesNothing, WB!flushVars
  <1>3. CASE WB!CloseChecks /\ ~ (queued >= closer.before)
    <2>1. closer.at = "check" /\ WB!CloseLoop /\ UNCHANGED <<armed, closed, stats, accepted>>
      BY <1>3 DEF WB!CloseChecks
    <2>2. closed' /\ armed' \in BOOLEAN
      BY <2>1 DEF WritesInv, Closing, WB!TypeOK
    <2> QED
      BY <2>1, <2>2, CloseLoopInv
  <1> QED
    BY <1>1, <1>2, <1>3

(* Every step keeps the invariant.                                          *)
LEMMA WritesNextInv ==
  ASSUME WB!WriteBehindAssumption, WritesInv, [WB!Next]_WB!vars
  PROVE  WritesInv'
  <1>1. CASE UNCHANGED WB!vars
    BY <1>1 DEF WB!vars, WB!flushVars, WritesInv, WB!TypeOK, Closing,
                WB!RecordsAreAccounted, WB!WaitingIsScheduled, WB!CloseLeavesNothing
  <1> QED
    BY <1>1, EnqueueInv, FlushInv, FlushEndsInv, CloseInv DEF WB!Next

(* The invariant holds throughout.                                          *)
LEMMA WritesInvHolds == ASSUME WB!WriteBehindAssumption PROVE WB!Spec => []WritesInv
  BY WritesInitInv, WritesNextInv, PTL DEF WB!Spec

(* The queue keeps to its limit, whatever the batch size                    *)
(* (write-behind.ts:79-82).                                                 *)
THEOREM WritesTypeCorrect ==
  ASSUME WB!WriteBehindAssumption
  PROVE  WB!Spec => []WB!TypeOK
  <1>1. WritesInv => WB!TypeOK
    BY DEF WritesInv
  <1> QED
    BY <1>1, WritesInvHolds, PTL

(* No record is forgotten or counted twice, however flushes that succeed or *)
(* fail, the timer, the limit and close interleave (write-behind.ts:76-122).*)
THEOREM RecordsStayAccounted ==
  ASSUME WB!WriteBehindAssumption
  PROVE  WB!Spec => []WB!RecordsAreAccounted
  <1>1. WritesInv => WB!RecordsAreAccounted
    BY DEF WritesInv
  <1> QED
    BY <1>1, WritesInvHolds, PTL

(* Records that wait are written sooner or later without another enqueue:   *)
(* a timer or a flush that arms one is always there (write-behind.ts:109).  *)
THEOREM WaitingStaysScheduled ==
  ASSUME WB!WriteBehindAssumption
  PROVE  WB!Spec => []WB!WaitingIsScheduled
  <1>1. WritesInv => WB!WaitingIsScheduled
    BY DEF WritesInv
  <1> QED
    BY <1>1, WritesInvHolds, PTL

(* close leaves the queue empty unless it met somebody else's flush, also   *)
(* when its own flushes fail (write-behind.ts:114-122).                     *)
THEOREM CloseEmpties ==
  ASSUME WB!WriteBehindAssumption
  PROVE  WB!Spec => []WB!CloseLeavesNothing
  <1>1. WritesInv => WB!CloseLeavesNothing
    BY DEF WritesInv, Closing
  <1> QED
    BY <1>1, WritesInvHolds, PTL

------------------------------------------------------------------------------
(* The experiment registry for any finite set of definitions and any        *)
(* ceiling.  What is on and was started is the set the invariant follows:   *)
(* only a start adds to it, and a start looks at all that is on.            *)

RegistryInv ==
  /\ EX!TypeOK
  /\ EX!NoConflictOn
  /\ EX!CeilingKept
  /\ EX!AdoptedHasEvidence

(* An instance has its own copy of what FiniteSets defines.                 *)
LEMMA SameSets ==
  /\ \A S : EX!Cardinality(S) = Cardinality(S)
  /\ \A S : EX!IsFiniteSet(S) <=> IsFiniteSet(S)
  BY DEF EX!Cardinality, Cardinality, EX!IsFiniteSet, IsFiniteSet

(* A step that adds nothing to what is on and was started adds no conflict  *)
(* and keeps the ceiling (registry.ts:99-146).                              *)
LEMMA ShrinkingKeeps ==
  ASSUME EX!ExperimentsAssumption, EX!TypeOK, EX!NoConflictOn, EX!CeilingKept,
         EX!Started' \subseteq EX!Started
  PROVE  EX!NoConflictOn' /\ EX!CeilingKept'
  <1>1. EX!NoConflictOn'
    BY DEF EX!NoConflictOn, EX!Conflict
  <1>2. IsFiniteSet(EX!Started) /\ Cardinality(EX!Started) \in Nat
    <2>1. EX!Started \subseteq Ids
      BY DEF EX!Started, EX!Active
    <2> QED
      BY <2>1, FS_Subset, FS_CardinalityType, SameSets
      DEF EX!ExperimentsAssumption
  <1>3. Cardinality(EX!Started') <= Cardinality(EX!Started) /\ Cardinality(EX!Started') \in Nat
    BY <1>2, FS_Subset, FS_CardinalityType
  <1>4. EX!CeilingKept'
    BY <1>2, <1>3, SameSets DEF EX!CeilingKept, EX!ExperimentsAssumption
  <1> QED
    BY <1>1, <1>4

(* start keeps the invariant (registry.ts:61-97).                           *)
LEMMA StartInv ==
  ASSUME EX!ExperimentsAssumption, RegistryInv, NEW id \in Ids, NEW confirmed \in BOOLEAN,
         EX!Start(id, confirmed)
  PROVE  RegistryInv'
  <1>1. /\ ~ EX!IsOn(id) /\ ~ EX!ConflictOn(id) /\ Cardinality(EX!Active) < MaxConcurrent
        /\ state' = [state EXCEPT ![id] = "running"]
        /\ evidence' = evidence /\ leapt' = leapt
    BY SameSets DEF EX!Start
  <1>2. EX!TypeOK'
    BY <1>1 DEF RegistryInv, EX!TypeOK, EX!States
  <1>3. EX!Started' \subseteq EX!Started \union {id}
    BY <1>1 DEF RegistryInv, EX!TypeOK, EX!Started, EX!Active, EX!IsOn
  <1>4. EX!Started \subseteq EX!Active /\ EX!Active \subseteq Ids
    BY DEF EX!Started, EX!Active
  <1>5. EX!NoConflictOn'
    <2> SUFFICES ASSUME NEW a \in EX!Started', NEW b \in EX!Started', a # b, EX!Conflict(a, b)
                 PROVE  FALSE
      BY DEF EX!NoConflictOn, EX!Conflict
    <2>1. CASE a # id /\ b # id
      BY <2>1, <1>3 DEF RegistryInv, EX!NoConflictOn
    <2>2. CASE a = id
      <3>1. b \in EX!Active
        BY <2>2, <1>3, <1>4
      <3> QED
        BY <3>1, <2>2, <1>1 DEF EX!ConflictOn
    <2>3. CASE b = id
      <3>1. a \in EX!Active
        BY <2>3, <1>3, <1>4
      <3>2. EX!Conflict(id, a)
        BY <2>3 DEF EX!Conflict
      <3> QED
        BY <3>1, <3>2, <1>1 DEF EX!ConflictOn
    <2> QED
      BY <2>1, <2>2, <2>3
  <1>6. EX!CeilingKept'
    <2>1. IsFiniteSet(EX!Active) /\ Cardinality(EX!Active) \in Nat
      BY <1>4, FS_Subset, FS_CardinalityType, SameSets
      DEF EX!ExperimentsAssumption
    <2>2. /\ IsFiniteSet(EX!Started) /\ Cardinality(EX!Started) \in Nat
          /\ Cardinality(EX!Started) <= Cardinality(EX!Active)
      BY <2>1, <1>4, FS_Subset, FS_CardinalityType
    <2>3. id \notin EX!Started
      BY <1>1, <1>4 DEF EX!Active
    <2>4. /\ IsFiniteSet(EX!Started \union {id})
          /\ Cardinality(EX!Started \union {id}) = Cardinality(EX!Started) + 1
      BY <2>2, <2>3, FS_AddElement
    <2>5. /\ Cardinality(EX!Started') <= Cardinality(EX!Started) + 1
          /\ Cardinality(EX!Started') \in Nat
      BY <2>4, <1>3, FS_Subset, FS_CardinalityType
    <2> QED
      BY <2>1, <2>2, <2>5, <1>1, SameSets DEF EX!CeilingKept, EX!ExperimentsAssumption
  <1>7. EX!AdoptedHasEvidence'
    BY <1>1 DEF RegistryInv, EX!TypeOK, EX!AdoptedHasEvidence
  <1> QED
    BY <1>2, <1>5, <1>6, <1>7 DEF RegistryInv

(* An adoption keeps the invariant: it puts nothing on that it does not     *)
(* name as leapt (registry.ts:99-126).                                      *)
LEMMA AdoptInv ==
  ASSUME EX!ExperimentsAssumption, RegistryInv, NEW id \in Ids, NEW kind \in EX!EvidenceKinds,
         NEW samples \in 0 .. MaxSamples, EX!Adopt(id, kind, samples)
  PROVE  RegistryInv'
  <1>1. /\ kind # "none"
        /\ state' = [state EXCEPT ![id] = "adopted"]
        /\ evidence' = [evidence EXCEPT ![id] = kind]
        /\ leapt' = IF EX!IsOn(id) THEN leapt ELSE leapt \union {id}
    BY DEF EX!Adopt
  <1>2. EX!TypeOK'
    BY <1>1 DEF RegistryInv, EX!TypeOK, EX!States
  <1>3. EX!Started' \subseteq EX!Started
    BY <1>1 DEF RegistryInv, EX!TypeOK, EX!Started, EX!Active, EX!IsOn
  <1>4. EX!AdoptedHasEvidence'
    BY <1>1 DEF RegistryInv, EX!TypeOK, EX!AdoptedHasEvidence
  <1> QED
    BY <1>2, <1>3, <1>4, ShrinkingKeeps DEF RegistryInv

(* A rejection, a rollback and a block take an entry off                    *)
(* (registry.ts:122-146).                                                   *)
LEMMA TakenOffInv ==
  ASSUME EX!ExperimentsAssumption, RegistryInv, NEW id \in Ids,
         (\E kind \in EX!EvidenceKinds : EX!Reject(id, kind)) \/ EX!Rollback(id) \/ EX!Block(id)
  PROVE  RegistryInv'
  <1>1. PICK s \in {"rejected", "blocked"}, kind \in EX!EvidenceKinds :
           /\ state' = [state EXCEPT ![id] = s]
           /\ evidence' = [evidence EXCEPT ![id] = kind]
           /\ leapt' = leapt \ {id}
    <2>1. evidence[id] \in EX!EvidenceKinds /\ evidence = [evidence EXCEPT ![id] = evidence[id]]
      BY DEF RegistryInv, EX!TypeOK
    <2> QED
      BY <2>1 DEF EX!Reject, EX!Rollback, EX!Block
  <1>2. EX!TypeOK'
    BY <1>1 DEF RegistryInv, EX!TypeOK, EX!States
  <1>3. EX!Started' \subseteq EX!Started
    BY <1>1 DEF RegistryInv, EX!TypeOK, EX!Started, EX!Active, EX!IsOn
  <1>4. EX!AdoptedHasEvidence'
    BY <1>1 DEF RegistryInv, EX!TypeOK, EX!AdoptedHasEvidence
  <1> QED
    BY <1>2, <1>3, <1>4, ShrinkingKeeps DEF RegistryInv

(* Nothing is on to begin with (registry.ts:148-166).                       *)
LEMMA RegistryInitInv == ASSUME EX!ExperimentsAssumption, EX!Init PROVE RegistryInv
  <1>1. EX!TypeOK
    BY DEF EX!Init, EX!TypeOK, EX!States, EX!EvidenceKinds
  <1>2. EX!Started = {}
    BY DEF EX!Init, EX!Started, EX!Active, EX!IsOn
  <1>3. EX!NoConflictOn /\ EX!AdoptedHasEvidence
    BY <1>2 DEF EX!Init, EX!NoConflictOn, EX!AdoptedHasEvidence
  <1>4. EX!CeilingKept
    BY <1>2, FS_EmptySet, SameSets DEF EX!CeilingKept, EX!ExperimentsAssumption
  <1> QED
    BY <1>1, <1>3, <1>4 DEF RegistryInv

(* Every operation of the registry keeps the invariant.                     *)
LEMMA RegistryInvHolds == ASSUME EX!ExperimentsAssumption PROVE EX!Spec => []RegistryInv
  <1>1. EX!Init => RegistryInv
    BY RegistryInitInv
  <1>2. RegistryInv /\ [EX!Next]_EX!vars => RegistryInv'
    <2> SUFFICES ASSUME RegistryInv, [EX!Next]_EX!vars PROVE RegistryInv'
      OBVIOUS
    <2>1. CASE UNCHANGED EX!vars
      <3>1. EX!Started' = EX!Started /\ EX!TypeOK' /\ EX!AdoptedHasEvidence'
        BY <2>1 DEF RegistryInv, EX!vars, EX!TypeOK, EX!AdoptedHasEvidence,
           EX!Started, EX!Active, EX!IsOn
      <3> QED
        BY <3>1, ShrinkingKeeps DEF RegistryInv
    <2>2. ASSUME NEW id \in Ids, NEW confirmed \in BOOLEAN, EX!Start(id, confirmed)
          PROVE  RegistryInv'
      BY <2>2, StartInv
    <2>3. ASSUME NEW id \in Ids, EX!Conclude(id) PROVE RegistryInv'
      BY <2>3, AdoptInv, TakenOffInv DEF EX!Conclude
    <2>4. ASSUME NEW id \in Ids, EX!Rollback(id) \/ EX!Block(id) PROVE RegistryInv'
      BY <2>4, TakenOffInv
    <2> QED
      BY <2>1, <2>2, <2>3, <2>4 DEF EX!Next
  <1> QED
    BY <1>1, <1>2, PTL DEF EX!Spec

(* The state of every experiment is one of the five, and its evidence of a  *)
(* known kind (types.ts:15-30), whatever is asked of the registry.          *)
THEOREM RegistryTypeCorrect ==
  ASSUME EX!ExperimentsAssumption
  PROVE  EX!Spec => []EX!TypeOK
  <1>1. RegistryInv => EX!TypeOK
    BY DEF RegistryInv
  <1> QED
    BY <1>1, RegistryInvHolds, PTL

(* Techniques that interact are on together only through an adoption        *)
(* without a start (registry.ts:75-78, 184-190).                            *)
THEOREM ConflictsStayApart ==
  ASSUME EX!ExperimentsAssumption
  PROVE  EX!Spec => []EX!NoConflictOn
  <1>1. RegistryInv => EX!NoConflictOn
    BY DEF RegistryInv
  <1> QED
    BY <1>1, RegistryInvHolds, PTL

(* The ceiling holds for all that were started (registry.ts:80-88).         *)
THEOREM CeilingHolds ==
  ASSUME EX!ExperimentsAssumption
  PROVE  EX!Spec => []EX!CeilingKept
  <1>1. RegistryInv => EX!CeilingKept
    BY DEF RegistryInv
  <1> QED
    BY <1>1, RegistryInvHolds, PTL

(* No sequence of verdicts, starts and rollbacks leaves an experiment       *)
(* adopted on no evidence (registry.ts:106-108).                            *)
THEOREM AdoptionsAreMeasured ==
  ASSUME EX!ExperimentsAssumption
  PROVE  EX!Spec => []EX!AdoptedHasEvidence
  <1>1. RegistryInv => EX!AdoptedHasEvidence
    BY DEF RegistryInv
  <1> QED
    BY <1>1, RegistryInvHolds, PTL
================================================================================
