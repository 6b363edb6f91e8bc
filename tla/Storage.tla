------------------------------ MODULE Storage ------------------------------
(***************************************************************************)
(* The key/value maps of cw_storage_plus that the contracts keep their     *)
(* state in.  A map is a function whose domain is the set of keys stored.  *)
(* External code, modelled from its use in the contracts:                  *)
(* Map::save overwrites, Map::remove of a missing key does nothing,        *)
(* Map::may_load gives None outside the domain.                            *)
(***************************************************************************)

\* Map::save(key, value)
Save(map, key, value) ==
  [k \in DOMAIN map \cup {key} |-> IF k = key THEN value ELSE map[k]]

\* Map::remove(key)
Delete(map, key) == [k \in DOMAIN map \ {key} |-> map[k]]

\* The map of a contract that has stored nothing yet.
EmptyMap == [k \in {} |-> k]
============================================================================
