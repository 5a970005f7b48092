----------------------------- MODULE RunBudgets ----------------------------
(***************************************************************************)
(* What one agent run may use through the proxy: the counts of             *)
(* agent-proxy/src/limits.rs, as the routes llm.rs and fetch.rs check and  *)
(* charge them and packages.rs does not, and the run's record that runs.rs *)
(* caches.                                                                 *)
(*                                                                         *)
(* Each check and each charge is one critical section; between them a call *)
(* asks the model or the internet, so the calls of one run check together  *)
(* and charge later.  The Portal ends the run at any time.  Its day's      *)
(* budgets and its requests per minute are left out.                       *)
(***************************************************************************)
EXTENDS Integers, FiniteSets

CONSTANTS
    Calls,          \* the calls the run makes at once
    steps_per_run,
    max_tokens,
    Prompt,         \* bound: what a call's prompt counts
    Largest,        \* bound: what a call is counted for that its body did not cap
    max_egress_bytes_per_run,
    max_response_bytes

ASSUME BudgetsAssumption ==
    /\ steps_per_run \in Nat \ {0}  /\ max_tokens \in Nat /\ Prompt \in Nat
    /\ Largest \in Nat
    /\ max_egress_bytes_per_run \in Nat /\ max_response_bytes \in Nat \ {0}
    /\ IsFiniteSet(Calls) /\ Calls # {}

VARIABLES
    run,        \* the run at the Portal: "active" or "ended"
    cached,     \* the resolver's record of it is fresh, and active
    counted,    \* the run has an entry in LimitManager.runs
    usage,      \* the entry
    call,       \* the calls
    ending,     \* end_finished(): where it is
    used,       \* history: what the run used while it was active
    past        \* history: the tokens counted past what their call had left to ask for

history == <<used, past>>
budgetsVars == <<run, cached, counted, usage, call, ending, history>>

NoUse == [steps |-> 0, tokens |-> 0, egress |-> 0]

BudgetsInit ==
    /\ run = "active"
    /\ cached = FALSE
    /\ counted = FALSE
    /\ usage = NoUse
    /\ call = [c \in Calls |-> [at |-> "idle", left |-> 0]]
    /\ ending = "idle"
    /\ used = NoUse
    /\ past = 0

Goes(c, at) == call' = [call EXCEPT ![c] = [at |-> at, left |-> 0]]

(* The Portal and the time. *)
RunEnds ==
    /\ run = "active"
    /\ run' = "ended"
    /\ UNCHANGED <<cached, counted, usage, call, ending, history>>

CacheExpires ==
    /\ cached
    /\ cached' = FALSE
    /\ UNCHANGED <<run, counted, usage, call, ending, history>>

-----------------------------------------------------------------------------

(* authenticate(): the cached record, else the Portal's; a run that ended is *)
(* refused once it is no longer cached.                                      *)
Authenticate(c) ==
    /\ call[c].at = "idle"
    /\ cached \/ run = "active"
    /\ cached' = TRUE
    /\ \E route \in {"steps", "egress", "packages"} : Goes(c, route)
    /\ UNCHANGED <<run, counted, usage, ending, history>>

(* An entry is made where a count is checked and counted at once. *)
Count(new) ==
    /\ counted' = TRUE
    /\ usage' = new

(* What the history adds while the run is active. *)
Uses(field, n) == used' = IF run = "active" THEN [used EXCEPT ![field] = @ + n] ELSE used

CheckSteps(c) ==
    /\ call[c].at = "steps"
    /\ IF usage.steps >= steps_per_run
       THEN Count(usage) /\ Goes(c, "idle") /\ UNCHANGED used
       ELSE /\ Count([usage EXCEPT !.steps = @ + 1])
            /\ Uses("steps", 1)
            /\ Goes(c, "tokens")
    /\ UNCHANGED <<run, cached, ending, past>>

tokens_left == IF usage.tokens >= max_tokens THEN 0 ELSE max_tokens - usage.tokens

CheckTokens(c) ==
    /\ call[c].at = "tokens"
    /\ Goes(c, IF tokens_left = 0 THEN "idle" ELSE "budget")
    /\ UNCHANGED <<run, cached, counted, usage, ending, history>>

(* within_budget(): the call asks for no more output than is left, as far as *)
(* its body can be told so.                                                  *)
Sends(c) ==
    /\ call[c].at = "budget"
    /\ call' = [call EXCEPT ![c] = [at |-> "asking", left |-> tokens_left]]
    /\ UNCHANGED <<run, cached, counted, usage, ending, history>>

(* What a call is counted for when its body holds it to what was left. *)
HeldTo(c) == call[c].left + Prompt

(* Not every body does: one that is not JSON is sent as it is, one of        *)
(* several choices has the limit for each, and a stream that reports no      *)
(* usage stands for its `max_tokens`, for 8192 where it names none.          *)
Charges(c) == 1..HeldTo(c) \cup 1..Largest

(* record_usage(): what the provider counted, or what a stream that its      *)
(* caller left is counted for; a call of no tokens records nothing.          *)
Recorded(c) ==
    /\ call[c].at = "asking"
    /\ \E n \in Charges(c) :
         /\ Count([usage EXCEPT !.tokens = @ + n])
         /\ Uses("tokens", n)
         /\ past' = IF run = "active" /\ n > HeldTo(c) THEN past + n - HeldTo(c) ELSE past
    /\ Goes(c, "idle")
    /\ UNCHANGED <<run, cached, ending>>

(* The provider cannot be reached, or the caller of a call that is not a     *)
(* stream goes away.                                                         *)
Unanswered(c) ==
    /\ call[c].at \in {"asking", "fetching"}
    /\ Goes(c, "idle")
    /\ UNCHANGED <<run, cached, counted, usage, ending, history>>

EgressRemaining(c) ==
    /\ call[c].at = "egress"
    /\ Goes(c, IF usage.egress >= max_egress_bytes_per_run THEN "idle" ELSE "fetching")
    /\ UNCHANGED <<run, cached, counted, usage, ending, history>>

RecordEgress(c) ==
    /\ call[c].at = "fetching"
    /\ \E n \in 0..max_response_bytes :
         /\ Count([usage EXCEPT !.egress = @ + n])
         /\ Uses("egress", n)
    /\ Goes(c, "idle")
    /\ UNCHANGED <<run, cached, ending, past>>

(* packages.rs: a package is read from the same hosts, of at most as many    *)
(* bytes, and neither checked nor counted.                                   *)
Package(c) ==
    /\ call[c].at = "packages"
    /\ Goes(c, "idle")
    /\ UNCHANGED <<run, cached, counted, usage, ending, history>>

Call(c) ==
    \/ Authenticate(c) \/ CheckSteps(c) \/ CheckTokens(c) \/ Sends(c) \/ Recorded(c)
    \/ Unanswered(c) \/ EgressRemaining(c) \/ RecordEgress(c) \/ Package(c)

-----------------------------------------------------------------------------
(* end_finished(), once a minute.                                            *)

EndFinished ==
    /\ ending = "idle" /\ counted
    /\ ending' = "asking"
    /\ UNCHANGED <<run, cached, counted, usage, call, history>>

(* Mutant: a run the Portal cannot be asked about is dropped too. *)
DropsUnasked ==
    /\ ending = "asking"
    /\ ending' \in {"idle", "dropping"}
    /\ ending' = "idle" => run = "active"
    /\ UNCHANGED <<run, cached, counted, usage, call, history>>

(* resolve_fresh(): the Portal holds the run as active, which the cache      *)
(* takes, or as ended, which leaves the cache; or it cannot be reached.      *)
ResolveFresh ==
    /\ ending = "asking"
    /\ \/ run = "active" /\ cached' = TRUE /\ ending' = "idle"
       \/ run = "ended" /\ ending' = "dropping" /\ UNCHANGED cached
       \/ ending' = "idle" /\ UNCHANGED cached
    /\ UNCHANGED <<run, counted, usage, call, history>>

Drop ==
    /\ ending = "dropping"
    /\ counted' = FALSE
    /\ usage' = NoUse
    /\ ending' = "idle"
    /\ UNCHANGED <<run, cached, call, history>>

BudgetsNext ==
    \/ RunEnds \/ CacheExpires \/ EndFinished \/ ResolveFresh \/ Drop
    \/ \E c \in Calls : Call(c)

BudgetsSpec == BudgetsInit /\ [][BudgetsNext]_budgetsVars

-----------------------------------------------------------------------------

BudgetsTypeOK ==
    /\ run \in {"active", "ended"} /\ cached \in BOOLEAN /\ counted \in BOOLEAN
    /\ usage.steps \in 0..steps_per_run
    /\ ~counted => usage = NoUse
    /\ ending \in {"idle", "asking", "dropping"}

(* limits.rs: while a run is active its budgets hold over its whole life,    *)
(* whatever its calls, the cache and the removal of finished runs do: the    *)
(* steps exactly, and the tokens and the bytes fetched but for one answer of *)
(* every call that was under way when the budget was crossed.  What a call   *)
(* is counted for past what it was to ask for comes on top, once for each.   *)
LiveRunWithinBudgets ==
    /\ used.steps <= steps_per_run
    /\ used.tokens <= Cardinality(Calls) * (max_tokens + Prompt) + past
    /\ past <= Cardinality(Calls) * Largest
    /\ used.egress < max_egress_bytes_per_run + Cardinality(Calls) * max_response_bytes

=============================================================================
