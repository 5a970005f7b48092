------------------------------ MODULE Creates ------------------------------
(***************************************************************************)
(* The daily creates of a public form, creates.rs, and the create that     *)
(* reserves one of them, handlers/ngsi_ld.rs: send_reserved.               *)
(*                                                                         *)
(* A create reads the clock, reserves a slot of that day, asks the broker, *)
(* and gives the slot back unless the broker answered with success: also   *)
(* when it made the entity, and its answer was lost or an error.  The day  *)
(* it names is the one it read: midnight may pass before it comes to   *)
(* the lock, and before the broker answers.                                *)
(***************************************************************************)
EXTENDS Integers, FiniteSets

CONSTANTS
    Creates,        \* bound: the creates
    Forms,          \* the slugs of the Endpoints with `creates.perDay`
    Senders,        \* who a create is keyed by
    PerDay,         \* the creates a form takes in a day
    MAX_CALLERS,    \* the entries of `callers` before older days are dropped
    Days,           \* bound: the days
    NoOne           \* neither a form nor a sender

ASSUME CreatesAssumption ==
    /\ PerDay \in [Forms -> Nat \ {0}]
    /\ MAX_CALLERS \in Nat \ {0}
    /\ Days \in Nat \ {0}
    /\ NoOne \notin Forms \cup Senders

VARIABLES
    today,      \* the day of the clock
    create,     \* the creates: where, for which form, by whom, the day they read
    counts,     \* per slug: the day and the creates taken on it, day 0 for no entry
    callers,    \* per slug and caller: the same
    latest,     \* history: the latest day a reservation was judged on
    overtook    \* history: the reservations judged after one of a later day

reserved == <<counts, callers, latest, overtook>>
createsVars == <<today, create, reserved>>

NoCount == [day |-> 0, n |-> 0]

CreatesInit ==
    /\ today = 1
    /\ create = [c \in Creates |-> [at |-> "idle", form |-> NoOne, sender |-> NoOne, day |-> 0]]
    /\ counts = [f \in Forms |-> NoCount]
    /\ callers = [k \in Forms \X Senders |-> NoCount]
    /\ latest = 0
    /\ overtook = 0

(* One caller's tenth of a day, rounded up. *)
share(per_day) == (per_day + 9) \div 10

Key(c) == <<create[c].form, create[c].sender>>

Entries(m) == {k \in DOMAIN m : m[k] # NoCount}

(* What an entry counts on `day`. *)
On(entry, day) == IF entry.day = day THEN entry.n ELSE 0

Moves(c, at) == create' = [create EXCEPT ![c].at = at]

-----------------------------------------------------------------------------

Midnight ==
    /\ today < Days
    /\ today' = today + 1
    /\ UNCHANGED <<create, reserved>>

ReadClock(c) ==
    /\ create[c].at = "idle"
    /\ \E f \in Forms, s \in Senders :
         create' = [create EXCEPT ![c] = [at |-> "read", form |-> f, sender |-> s, day |-> today]]
    /\ UNCHANGED <<today, reserved>>

(* reserve(), under both locks.  A map that is full first drops the entries  *)
(* of other days.                                                            *)
Swept(day) ==
    IF Cardinality(Entries(callers)) >= MAX_CALLERS
    THEN [k \in DOMAIN callers |-> IF callers[k].day = day THEN callers[k] ELSE NoCount]
    ELSE callers

HasRoom(m, k) == Cardinality(Entries(m)) < MAX_CALLERS \/ k \in Entries(m)

(* A reservation that comes after one of a later day is one that overtook. *)
Judged(c) ==
    /\ latest' = IF latest > create[c].day THEN latest ELSE create[c].day
    /\ overtook' = IF latest > create[c].day THEN overtook + 1 ELSE overtook

WithinShare(c) ==
    On(callers[Key(c)], create[c].day) < share(PerDay[create[c].form])

RefuseCaller(c) ==
    /\ create[c].at = "read"
    /\ ~WithinShare(c)
    /\ Moves(c, "refused")
    /\ UNCHANGED <<today, reserved>>

RefuseForm(c) ==
    /\ create[c].at = "read"
    /\ WithinShare(c)
    /\ LET f == create[c].form  day == create[c].day  m == Swept(day)
       IN /\ \/ ~HasRoom(m, Key(c)) /\ UNCHANGED counts
             \/ /\ HasRoom(m, Key(c)) /\ On(counts[f], day) >= PerDay[f]
                /\ UNCHANGED counts
          /\ callers' = m
    /\ Judged(c)
    /\ Moves(c, "refused")
    /\ UNCHANGED today

Reserve(c) ==
    /\ create[c].at = "read"
    /\ WithinShare(c)
    /\ LET f == create[c].form  day == create[c].day  m == Swept(day)
       IN /\ HasRoom(m, Key(c))
          /\ On(counts[f], day) < PerDay[f]
          /\ counts' = [counts EXCEPT ![f] = [day |-> day, n |-> On(@, day) + 1]]
          /\ callers' = [m EXCEPT ![Key(c)] = [day |-> day, n |-> On(@, day) + 1]]
    /\ Judged(c)
    /\ Moves(c, "sent")
    /\ UNCHANGED today

-----------------------------------------------------------------------------
(* The broker's answer.                                                      *)

(* The broker makes the entity, which the gateway does not see.              *)
Makes(c) ==
    /\ create[c].at = "sent"
    /\ Moves(c, "made")
    /\ UNCHANGED <<today, reserved>>

(* It said so, or the caller left while it was asked: nothing gives the slot *)
(* back.                                                                     *)
Keeps(c) ==
    /\ create[c].at \in {"sent", "made"}
    /\ Moves(c, "kept")
    /\ UNCHANGED <<today, reserved>>

(* Mutant: a slot is given back whatever day is counted. *)
LessAnyDay(entry, day) == IF entry.n > 0 THEN [entry EXCEPT !.n = @ - 1] ELSE entry

(* A slot of `day` given back. *)
Less(entry, day) ==
    IF entry.day = day /\ entry.n > 0 THEN [entry EXCEPT !.n = @ - 1] ELSE entry

(* Any other answer, or none.  A request that was on its way may be taken    *)
(* after its slot is free again.                                             *)
Release(c) ==
    /\ create[c].at \in {"sent", "made"}
    /\ counts' = [counts EXCEPT ![create[c].form] = Less(@, create[c].day)]
    /\ callers' = [callers EXCEPT ![Key(c)] = Less(@, create[c].day)]
    /\ \/ create[c].at = "sent" /\ Moves(c, "released")
       \/ Moves(c, "doubted")
    /\ UNCHANGED <<today, latest, overtook>>

CreateStep(c) ==
    \/ ReadClock(c) \/ RefuseCaller(c) \/ RefuseForm(c) \/ Reserve(c)
    \/ Makes(c) \/ Keeps(c) \/ Release(c)

CreatesNext == Midnight \/ \E c \in Creates : CreateStep(c)

CreatesSpec == CreatesInit /\ [][CreatesNext]_createsVars

-----------------------------------------------------------------------------

CreatesTypeOK ==
    /\ today \in 1..Days
    /\ \A c \in Creates : create[c].day \in 0..today
    /\ counts \in [Forms -> [day : 0..Days, n : Nat]]
    /\ callers \in [Forms \X Senders -> [day : 0..Days, n : Nat]]
    /\ Cardinality(Entries(callers)) <= MAX_CALLERS

(* The creates of a day that hold their slot, and those the broker made, or   *)
(* may make yet, although they gave it back.                                 *)
Taken(day) == {c \in Creates : create[c].day = day /\ create[c].at \in {"sent", "made", "kept"}}

Doubted(day) == {c \in Creates : create[c].day = day /\ create[c].at = "doubted"}

(* creates.rs, DailyCreates::reserve and release: a form makes no more than  *)
(* its `perDay` on a day, and no caller more than a tenth of it, however     *)
(* creates, failures and midnight interleave; a reservation that comes after *)
(* one of a later day costs the days one more `perDay` and no more than      *)
(* that, and a create the broker made without an answer of success one       *)
(* create.                                                                   *)
DayIsCapped ==
    \A d \in 1..Days, f \in Forms :
        LET made == Taken(d) \cup Doubted(d)
        IN /\ Cardinality({c \in made : create[c].form = f})
                  <= (1 + overtook) * PerDay[f] + Cardinality({c \in Doubted(d) : create[c].form = f})
           /\ \A s \in Senders :
                Cardinality({c \in made : Key(c) = <<f, s>>})
                  <= (1 + overtook) * share(PerDay[f]) + Cardinality({c \in Doubted(d) : Key(c) = <<f, s>>})

=============================================================================
