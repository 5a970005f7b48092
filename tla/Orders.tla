------------------------------- MODULE Orders -------------------------------
(* What the orders of hubs and sessions are made from: sequences, of which   *)
(* members are taken out.                                                    *)
EXTENDS Naturals, Sequences

(* The order s without e, which it names once at most. *)
Without(s, e) ==
    IF \E i \in DOMAIN s : s[i] = e
    THEN LET k == CHOOSE i \in DOMAIN s : s[i] = e
         IN [i \in 1..(Len(s) - 1) |-> IF i < k THEN s[i] ELSE s[i + 1]]
    ELSE s

(* The members of s at the places of I, in their order. *)
Picked(s, I) ==
    LET upTo[n \in 0..Len(s)] ==
          IF n = 0 THEN <<>>
          ELSE IF n \in I THEN Append(upTo[n - 1], s[n]) ELSE upTo[n - 1]
    IN upTo[Len(s)]

=============================================================================
