------------------------------- MODULE JsMap -------------------------------
(***************************************************************************)
(* JavaScript's Map as the library uses it: a function whose domain is the *)
(* set of keys present.  `get` is application, `has` is membership of the  *)
(* domain, `size` is the cardinality of the domain.                        *)
(***************************************************************************)

EmptyMap == [k \in {} |-> k]

\* map.set(k, v): inserts the key, or replaces the value it has.
MapSet(map, k, v) ==
  [x \in DOMAIN map \cup {k} |-> IF x = k THEN v ELSE map[x]]

\* map.delete(k) for every k of ks; deleting an absent key does nothing.
MapDelete(map, ks) == [x \in DOMAIN map \ ks |-> map[x]]

MapValues(map) == {map[k] : k \in DOMAIN map}
=============================================================================
