----------------------------- MODULE Admission ------------------------------
(***************************************************************************)
(* What the admission layer promises, without its semaphores: a request is *)
(* admitted, made a slow read or ended in one step, and only while every   *)
(* share it counts against has room.  A request may always be refused.     *)
(***************************************************************************)
EXTENDS Naturals, FiniteSets

CONSTANTS
    Requests,
    SameCaller(_, _),   \* whether two requests count against one caller
    Anonymous,          \* the requests without a token
    Readers,            \* the reads and the anonymous requests
    Share(_),           \* the caller's share a request is held to
    Limit(_),           \* the limit of "total", "reads", "anonymous", "slow", "anonymous_slow"
    SlowWeight

VARIABLES admitted, slow

Load(r, S, L) ==
    Cardinality({q \in S : SameCaller(q, r)})
      + (SlowWeight - 1) * Cardinality({q \in L : SameCaller(q, r)})

Init == admitted = {} /\ slow = {}

Admit(r) ==
    /\ r \notin admitted
    /\ admitted' = admitted \cup {r}
    /\ Cardinality(admitted') <= Limit("total")
    /\ r \in Readers => Cardinality(admitted' \cap Readers) <= Limit("reads")
    /\ r \in Anonymous => Cardinality(admitted' \cap Anonymous) <= Limit("anonymous")
    /\ Load(r, admitted', slow) <= Share(r)
    /\ UNCHANGED slow

MakeSlow(r) ==
    /\ r \in admitted \ slow
    /\ slow' = slow \cup {r}
    /\ SlowWeight * Cardinality(slow') <= Limit("slow")
    /\ r \in Anonymous =>
         SlowWeight * Cardinality(slow' \cap Anonymous) <= Limit("anonymous_slow")
    /\ Load(r, admitted, slow') <= Share(r)
    /\ UNCHANGED admitted

End(r) ==
    /\ r \in admitted
    /\ admitted' = admitted \ {r}
    /\ slow' = slow \ {r}

Next == \E r \in Requests : Admit(r) \/ MakeSlow(r) \/ End(r)

Spec == Init /\ [][Next]_<<admitted, slow>>

=============================================================================
