------------------------------- MODULE MCHub --------------------------------
(* Small instances of Hub: one attribute, and the filters of its clients. *)
EXTENDS Hub, TLC

CONSTANTS c1, c2, e1, e2, s1, s2, a, b

(* Every change, and only the changes to value 1. *)
AnyChange == [watched |-> {}, matches |-> Docs]
TurnsOn == [watched |-> {a}, matches |-> {d \in Docs : d[a] = 1}]

OneFilter == {AnyChange}
TwoFilters == {AnyChange, TurnsOn}

Symmetric == Permutations(Conns)

=============================================================================
