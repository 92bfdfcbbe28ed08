----------------------------- MODULE PartialMaps -----------------------------
(***************************************************************************)
(* std::unordered_map as a function on the keys it holds.                  *)
(***************************************************************************)
EXTENDS Functions

EmptyMap == [x \in {} |-> {}]

\* map[key] = value
Put(map, key, value) ==
    [x \in DOMAIN map \cup {key} |-> IF x = key THEN value ELSE map[x]]

\* map.emplace(key, value): an entry already there stays as it is
Emplace(map, key, value) ==
    [x \in DOMAIN map \cup {key} |-> IF x \in DOMAIN map THEN map[x] ELSE value]

\* map.erase(key) for every key of the set
Without(map, keys) == Restrict(map, DOMAIN map \ keys)
=============================================================================
