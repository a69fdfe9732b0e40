------------------------------- MODULE RuleMatch -------------------------------
(***************************************************************************)
(* The rules of a bot (core/rules): what compileRules accepts, how a        *)
(* compiled set picks the rule that answers a text, and the cache of its    *)
(* decisions.  A rule of a set is named by its configIndex, its place in    *)
(* the list.  Texts are values and normalizeText is a function on them: the *)
(* relations Prefix and Within say which normalised needle begins or occurs *)
(* in which normalised text.                                                *)
(***************************************************************************)
EXTENDS Integers, Sequences

CONSTANTS
  Texts,      (* ids, patterns, replies and messages                         *)
  NoText,     (* the empty one                                               *)
  Norm,       (* normalizeText                                               *)
  Prefix,     (* <<needle, text>>: text.startsWith(needle)                   *)
  Within,     (* <<needle, text>>: text.includes(needle)                     *)
  NotNumber,  (* a priority that is no number                                *)
  Unknown,    (* a match kind that is none of MATCH_KINDS                    *)
  CacheMax    (* MATCH_CACHE_MAX_ENTRIES                                     *)

Kinds == {"exact", "prefix", "contains"}

(* What a caller may send as a rule, valid or not.                          *)
RuleSpecs ==
  [id: Texts, priority: Int \union {NotNumber}, kind: Kinds \union {Unknown},
   pattern: Texts, reply: Texts]

(* assertValidSpec                                                          *)
ValidSpec(rule) ==
  /\ rule.id # NoText /\ rule.pattern # NoText /\ rule.reply # NoText
  /\ rule.kind \in Kinds
  /\ rule.priority \in Int

(* assertUniqueId                                                           *)
UniqueIds(rules) ==
  \A i, j \in DOMAIN rules : rules[i].id = rules[j].id => i = j

(* compileRules throws on any other list.                                   *)
Compiles(rules) ==
  UniqueIds(rules) /\ \A i \in DOMAIN rules : ValidSpec(rules[i])

(* buildTest: does the rule's pattern match a normalised text?              *)
Test(rule, text) ==
  LET needle == Norm[rule.pattern] IN
  \/ rule.kind = "exact" /\ needle = text
  \/ rule.kind = "prefix" /\ <<needle, text>> \in Prefix
  \/ rule.kind = "contains" /\ <<needle, text>> \in Within

(* beats: the higher priority, then the earlier in the list.                *)
Beats(rules, i, j) ==
  \/ rules[i].priority > rules[j].priority
  \/ rules[i].priority = rules[j].priority /\ i < j

(* selectBest: the member of S that beats the others; 0 is the code's null. *)
Best(rules, S) ==
  IF S = {} THEN 0
  ELSE CHOOSE i \in S : \A j \in S \ {i} : Beats(rules, i, j)

(* indexExact: for each text only the best of its exact rules is kept.      *)
ExactRules(rules, text) ==
  {i \in DOMAIN rules : rules[i].kind = "exact" /\ Norm[rules[i].pattern] = text}

(* collectCandidates: the exact rule of the index, and a scan of the others.*)
Candidates(rules, text) ==
  ({Best(rules, ExactRules(rules, text))} \ {0})
  \union {i \in DOMAIN rules : rules[i].kind # "exact" /\ Test(rules[i], text)}

(* What match decides when its cache does not know the text.                *)
Decision(rules, text) == Best(rules, Candidates(rules, text))

(* The meaning of a rule list, without index or cache: of all the rules     *)
(* that match, the one that beats the others.                               *)
Winner(rules, text) == Best(rules, {i \in DOMAIN rules : Test(rules[i], text)})

(* The decision the cache remembers for a text, null included.              *)
Remembers(cache, text) == \E i \in DOMAIN cache : cache[i].text = text
Remembered(cache, text) == cache[CHOOSE i \in DOMAIN cache : cache[i].text = text].rule

(* match: what it answers ...                                               *)
Match(rules, cache, raw) ==
  IF Remembers(cache, Norm[raw]) THEN Remembered(cache, Norm[raw])
  ELSE Decision(rules, Norm[raw])

(* ... and rememberMatch, which lets the oldest entry go at the cap.        *)
Cached(rules, cache, raw) ==
  LET kept == IF Len(cache) >= CacheMax /\ cache # <<>> THEN Tail(cache) ELSE cache IN
  IF Remembers(cache, Norm[raw]) THEN cache
  ELSE Append(kept, [text |-> Norm[raw], rule |-> Decision(rules, Norm[raw])])
================================================================================
