-------------------------------- MODULE Feed --------------------------------
(***************************************************************************)
(* What a hub promises of its upstream, without sockets: from the change   *)
(* it goes live after, the changes of the view reach it in their order,    *)
(* each at most once, and none is skipped unless the clients were told of  *)
(* a gap (or were sent away) since the last change that reached them.      *)
(***************************************************************************)
EXTENDS Naturals

VARIABLES
    log,    \* how many changes the view has seen
    pos,    \* the last change that reached the hub
    told    \* the clients know that they may have missed changes

Init == log = 0 /\ pos = 0 /\ told = TRUE

Change == log' = log + 1 /\ UNCHANGED <<pos, told>>

GoLive ==
    /\ told
    /\ pos' \in pos .. log
    /\ told' \in BOOLEAN
    /\ UNCHANGED log

Deliver ==
    /\ \E n \in pos + 1 .. log :
         /\ n = pos + 1 \/ told
         /\ pos' = n
    /\ told' = FALSE
    /\ UNCHANGED log

Tell == told' = TRUE /\ UNCHANGED <<log, pos>>

Next == Change \/ GoLive \/ Deliver \/ Tell

Spec == Init /\ [][Next]_<<log, pos, told>>

=============================================================================
