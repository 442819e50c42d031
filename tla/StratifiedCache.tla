--------------------------- MODULE StratifiedCache ---------------------------
(***************************************************************************)
(* StratifiedCache: a map whose keys are also listed by level, so that one *)
(* level can be forgotten at a time.  The stored value is a function of    *)
(* the key (the density of a list of variables), so only the keys are kept *)
(* here: exists(key) is key \in c.keys.                                    *)
(***************************************************************************)
EXTENDS Naturals

\* cache_ and stratified_keys_ (levels 0 .. MaxLevel, longer than any list).
EmptyCache(maxLevel) == [keys |-> {}, strata |-> [n \in 0..maxLevel |-> {}]]

\* set: a key that exists keeps its value and its level.
CacheSet(c, level, key) ==
  IF key \in c.keys THEN c
  ELSE [keys |-> c.keys \cup {key}, strata |-> [c.strata EXCEPT ![level] = @ \cup {key}]]

\* Mutant: the keys of the level are unlisted but stay in the map.
ClearLevelUnlists(c, level) ==
  IF level \notin DOMAIN c.strata THEN c
  ELSE [c EXCEPT !.strata[level] = {}]

\* clearLevel
ClearLevel(c, level) ==
  IF level \notin DOMAIN c.strata THEN c
  ELSE [keys |-> c.keys \ c.strata[level], strata |-> [c.strata EXCEPT ![level] = {}]]
=============================================================================
