------------------------------- MODULE Counts -------------------------------
(***************************************************************************)
(* The two tallies a gateway posts: usage.rs counts the answered calls of  *)
(* an Endpoint for the Portal, activity.rs the tool calls of a caller for  *)
(* the collector.  Each is a bounded map under a mutex; its poster takes   *)
(* what was counted and posts it while more is counted.  What a post did   *)
(* not deliver, usage puts back and activity drops.                        *)
(*                                                                         *)
(* The two share nothing: a behaviour is one of one of them.  A row stands *)
(* for all a count names: Endpoint, surface and caller of the one, caller, *)
(* tool, Endpoint and outcome of the other.                                *)
(***************************************************************************)
EXTENDS Naturals, FiniteSets

CONSTANTS
    Rows,               \* the rows that are counted
    ANONYMOUS,          \* the row of anonymous callers
    ANONYMOUS_EVERY,    \* activity.rs posts it every so many posts
    MAX_KEYS,           \* how many rows a tally holds
    MaxCalls            \* bound: the calls of a row

ASSUME CountsAssumption ==
    /\ ANONYMOUS \in Rows /\ IsFiniteSet(Rows)
    /\ ANONYMOUS_EVERY \in Nat \ {0} /\ MAX_KEYS \in Nat \ {0} /\ MaxCalls \in Nat

VARIABLES
    tally_of,   \* whose tally it is
    tally,      \* the count it holds of each row, 0 for no entry
    posting,    \* the counts of the post under way
    post_no,    \* activity.rs: the posts so far, modulo ANONYMOUS_EVERY
    received,   \* what the Portal or the collector added up
    called,     \* history: what there was to count
    doubted,    \* history: a post was taken, but not answered
    lost        \* history: the tally was full, was dropped, or its gateway stopped

countsVars == <<tally_of, tally, posting, post_no, received, called, doubted, lost>>

NoCounts == [r \in Rows |-> 0]

Entered(held) == {r \in Rows : held[r] > 0}

CountsInit ==
    /\ tally_of \in {"usage", "activity"}
    /\ tally = NoCounts
    /\ posting = NoCounts
    /\ post_no = 0
    /\ received = NoCounts
    /\ called = NoCounts
    /\ doubted = FALSE
    /\ lost = FALSE

Plus(a, b) == [r \in Rows |-> a[r] + b[r]]

(* count() and note(): a row that is held counts on, a new one is entered    *)
(* while there is room.                                                      *)
CountCall(r) ==
    /\ called[r] < MaxCalls
    /\ called' = [called EXCEPT ![r] = @ + 1]
    /\ LET added == tally[r] > 0 \/ Cardinality(Entered(tally)) < MAX_KEYS
       IN /\ tally' = IF added THEN [tally EXCEPT ![r] = @ + 1] ELSE tally
          /\ lost' = (lost \/ ~added)
    /\ UNCHANGED <<tally_of, posting, post_no, received, doubted>>

(* take(): activity.rs leaves the anonymous rows but every so many posts.    *)
Leaves == IF tally_of = "activity" /\ post_no' # 0
          THEN [NoCounts EXCEPT ![ANONYMOUS] = tally[ANONYMOUS]] ELSE NoCounts

TakeCounts ==
    /\ posting = NoCounts
    /\ post_no' = IF tally_of = "activity" THEN (post_no + 1) % ANONYMOUS_EVERY ELSE post_no
    /\ tally' = Leaves
    /\ posting' = [r \in Rows |-> tally[r] - Leaves[r]]
    /\ UNCHANGED <<tally_of, received, called, doubted, lost>>

(* The post is taken and answered. *)
Delivered ==
    /\ posting # NoCounts
    /\ received' = Plus(received, posting)
    /\ posting' = NoCounts
    /\ UNCHANGED <<tally_of, tally, post_no, called, doubted, lost>>

(* Mutant: what is put back replaces what was counted meanwhile. *)
RestoredOver(kept) == posting

(* restore(): the rows that are held count on, new ones are entered while    *)
(* there is room.                                                            *)
Restored(kept) ==
    [r \in Rows |-> tally[r] + IF r \in kept \cup Entered(tally) THEN posting[r] ELSE 0]

Restore ==
    \E kept \in SUBSET (Entered(posting) \ Entered(tally)) :
      /\ Cardinality(kept \cup Entered(tally)) <= MAX_KEYS
      /\ \/ kept \cup Entered(tally) = Entered(posting) \cup Entered(tally)
         \/ Cardinality(kept \cup Entered(tally)) = MAX_KEYS
      /\ tally' = Restored(kept)
      /\ lost' = (lost \/ kept \cup Entered(tally) # Entered(posting) \cup Entered(tally))

(* The post is refused, does not arrive, or its answer does not (bound: one  *)
(* post of a behaviour).                                                     *)
NotDelivered ==
    /\ posting # NoCounts
    /\ \/ UNCHANGED <<received, doubted>>
       \/ ~doubted /\ received' = Plus(received, posting) /\ doubted' = TRUE
    /\ \/ tally_of = "usage" /\ Restore
       \/ tally_of = "activity" /\ lost' = TRUE /\ UNCHANGED tally
    /\ posting' = NoCounts
    /\ UNCHANGED <<tally_of, post_no, called>>

(* The gateway stops, whatever it held, and starts with an empty tally. *)
CountsRestart ==
    /\ tally # NoCounts \/ posting # NoCounts
    /\ tally' = NoCounts
    /\ posting' = NoCounts
    /\ post_no' = 0
    /\ lost' = TRUE
    /\ UNCHANGED <<tally_of, received, called, doubted>>

CountsNext ==
    \/ TakeCounts \/ Delivered \/ NotDelivered \/ CountsRestart
    \/ \E r \in Rows : CountCall(r)

CountsSpec == CountsInit /\ [][CountsNext]_countsVars

-----------------------------------------------------------------------------

CountsTypeOK ==
    /\ Cardinality(Entered(tally)) <= MAX_KEYS
    /\ post_no \in 0..(ANONYMOUS_EVERY - 1)
    /\ post_no # 0 => posting[ANONYMOUS] = 0 \/ tally_of = "usage"

(* usage.rs:6 "so any number of replicas add up to the right total": a count  *)
(* arrives at most once, unless a post of usage was taken but not answered,   *)
(* and is held, under way or received unless the tally was full, its gateway  *)
(* stopped, or activity dropped it.                                           *)
CountsAddUp ==
    \A r \in Rows :
        LET known == received[r] + posting[r] + tally[r]
        IN /\ tally_of = "activity" \/ ~doubted => known <= called[r]
           /\ ~lost => known >= called[r]

=============================================================================
