----------------------------- MODULE Downloads -----------------------------
(***************************************************************************)
(* The file.csv downloads of anonymous callers, handlers/files.rs, and the *)
(* answers handlers/download_cache.rs keeps of them.                       *)
(*                                                                         *)
(* A caller is admitted on the Endpoint table, makes its key from the      *)
(* table as it is then, and takes the entry of the key or adds one.  One   *)
(* caller of an entry builds, the others wait for its cell; when the build *)
(* fails or its caller goes away, the next of them builds.  An entry is    *)
(* named by the caller that added it.  Every caller asks one Endpoint for  *)
(* one query, so a key is a table.                                         *)
(***************************************************************************)
EXTENDS Integers, FiniteSets

CONSTANTS
    Callers,        \* bound: the downloads
    Tables,         \* bound: the Endpoint table is replaced until it is this one
    FRESH_FOR,
    ABANDONED_AFTER,
    MAX_HELD,
    LastTick,       \* bound: ticks of the clock
    NoCaller

ASSUME DownloadsAssumption ==
    /\ NoCaller \notin Callers
    /\ Tables \in Nat \ {0}
    /\ FRESH_FOR \in Nat \ {0} /\ ABANDONED_AFTER \in Nat \ {0} /\ MAX_HELD \in Nat
    /\ LastTick \in Nat

VARIABLES
    instant,    \* the clock
    table,      \* the Endpoint table of the resolver
    kept,       \* Downloads.held: the entry kept under a table's key, NoCaller for none
    entry,      \* the entries: when they were added, who builds, what is built
    down,       \* the downloads
    excused     \* history: why a table's answer may be built twice at once

downloadsVars == <<instant, table, kept, entry, down, excused>>

Nothing == [at |-> -1, table |-> 0, big |-> FALSE]

Absent == [born |-> -1, builder |-> NoCaller, built |-> Nothing]

Unasked ==
    [at |-> "idle", table |-> 0, key |-> 0, entry |-> NoCaller, asked |-> 0, got |-> Nothing]

DownloadsInit ==
    /\ instant = 0
    /\ table = 1
    /\ kept = [t \in 1..Tables |-> NoCaller]
    /\ entry = [c \in Callers |-> Absent]
    /\ down = [c \in Callers |-> Unasked]
    /\ excused = {}

TimePasses ==
    /\ instant < LastTick
    /\ instant' = instant + 1
    /\ UNCHANGED <<table, kept, entry, down, excused>>

(* The reaper replaces the Endpoint table. *)
Replaced ==
    /\ table < Tables
    /\ table' = table + 1
    /\ UNCHANGED <<instant, kept, entry, down, excused>>

-----------------------------------------------------------------------------
(* file_csv. *)

Admit(c) ==
    /\ down[c].at = "idle"
    /\ down' = [down EXCEPT ![c].at = "admitted", ![c].table = table]
    /\ UNCHANGED <<instant, table, kept, entry, excused>>

(* Mutant: an answer is fresh for as long as a build may take. *)
FreshTooLong(e) ==
    IF entry[e].built # Nothing
    THEN instant - entry[e].built.at < ABANDONED_AFTER
    ELSE instant - entry[e].born < ABANDONED_AFTER

(* Entry::fresh. *)
Fresh(e) ==
    IF entry[e].built # Nothing
    THEN instant - entry[e].built.at < FRESH_FOR
    ELSE instant - entry[e].born < ABANDONED_AFTER

Retained == [t \in 1..Tables |-> IF kept[t] # NoCaller /\ Fresh(kept[t]) THEN kept[t] ELSE NoCaller]

Held(m) == {t \in 1..Tables : m[t] # NoCaller}

(* Key::of reads the table once more; entry() drops what is not fresh and    *)
(* takes the key's entry, or adds one when there is room.                    *)
Ask(c) ==
    /\ down[c].at = "admitted"
    /\ LET found == Retained[table]
           e     == IF found # NoCaller THEN found ELSE c
           room  == Cardinality(Held(Retained)) < MAX_HELD
           abandoned == kept[table] # NoCaller /\ entry[kept[table]].built = Nothing
                          /\ instant - entry[kept[table]].born >= ABANDONED_AFTER
       IN /\ down' = [down EXCEPT ![c] =
                [@ EXCEPT !.at = "waiting", !.key = table, !.entry = e, !.asked = instant]]
          /\ entry' = IF found # NoCaller THEN entry ELSE [entry EXCEPT ![c].born = instant]
          /\ kept' = IF found = NoCaller /\ room THEN [Retained EXCEPT ![table] = c] ELSE Retained
          /\ excused' = IF abandoned \/ (found = NoCaller /\ ~room)
                        THEN excused \cup {table} ELSE excused
    /\ UNCHANGED <<instant, table>>

(* OnceCell::get_or_try_init: one caller builds, the others wait.            *)
Build(c) ==
    /\ down[c].at = "waiting"
    /\ entry[down[c].entry].builder = NoCaller /\ entry[down[c].entry].built = Nothing
    /\ entry' = [entry EXCEPT ![down[c].entry].builder = c]
    /\ down' = [down EXCEPT ![c].at = "building"]
    /\ UNCHANGED <<instant, table, kept, excused>>

(* The rows are read under the view of the Endpoint the caller was admitted  *)
(* on, and the cell is set.                                                  *)
Built(c) ==
    /\ down[c].at = "building"
    /\ \E big \in BOOLEAN :
         LET answer == [at |-> instant, table |-> down[c].table, big |-> big]
         IN /\ entry' = [entry EXCEPT ![down[c].entry].builder = NoCaller,
                                      ![down[c].entry].built = answer]
            /\ down' = [down EXCEPT ![c].at = "made", ![c].got = answer]
    /\ UNCHANGED <<instant, table, kept, excused>>

(* The build fails: its caller alone is answered that. *)
BuildFails(c) ==
    /\ down[c].at = "building"
    /\ entry' = [entry EXCEPT ![down[c].entry].builder = NoCaller]
    /\ down' = [down EXCEPT ![c].at = "made"]
    /\ UNCHANGED <<instant, table, kept, excused>>

(* The cell is set: every other caller of it takes its answer. *)
Take(c) ==
    /\ down[c].at = "waiting" /\ entry[down[c].entry].built # Nothing
    /\ down' = [down EXCEPT ![c].at = "made", ![c].got = entry[down[c].entry].built]
    /\ UNCHANGED <<instant, table, kept, entry, excused>>

(* forget(): the entry goes if it is still the one kept under its key.       *)
Forgotten(c) ==
    IF kept[down[c].key] = down[c].entry THEN [kept EXCEPT ![down[c].key] = NoCaller] ELSE kept

(* What failed or is too large to keep is forgotten, and the caller answered. *)
Answered(c) ==
    /\ down[c].at = "made"
    /\ IF down[c].got = Nothing \/ down[c].got.big
       THEN kept' = Forgotten(c) /\ excused' = excused \cup {down[c].key}
       ELSE UNCHANGED <<kept, excused>>
    /\ down' = [down EXCEPT ![c].at = IF down[c].got = Nothing THEN "failed" ELSE "served"]
    /\ UNCHANGED <<instant, table, entry>>

(* A caller goes away while it waits or builds: its build is dropped. *)
GoesAway(c) ==
    /\ down[c].at \in {"waiting", "building"}
    /\ entry' = IF entry[down[c].entry].builder = c
                THEN [entry EXCEPT ![down[c].entry].builder = NoCaller] ELSE entry
    /\ down' = [down EXCEPT ![c] = [Unasked EXCEPT !.at = "gone"]]
    /\ UNCHANGED <<instant, table, kept, excused>>

Download(c) ==
    \/ Admit(c) \/ Ask(c) \/ Build(c) \/ Built(c) \/ BuildFails(c) \/ Take(c)
    \/ Answered(c) \/ GoesAway(c)

DownloadsNext == TimePasses \/ Replaced \/ \E c \in Callers : Download(c)

DownloadsSpec == DownloadsInit /\ [][DownloadsNext]_downloadsVars

-----------------------------------------------------------------------------

DownloadsTypeOK ==
    /\ instant \in 0..LastTick /\ table \in 1..Tables
    /\ kept \in [1..Tables -> Callers \cup {NoCaller}]
    /\ \A t \in Held(kept) : entry[kept[t]].born # -1
    /\ Cardinality(Held(kept)) <= MAX_HELD

Slipped(c) == down[c].key # down[c].table

ServedIsFresh ==
    \A c \in Callers :
        down[c].at = "served" =>
            /\ down[c].asked - down[c].got.at < FRESH_FOR
            /\ \/ down[c].got.table = down[c].table
               \/ \E b \in Callers : Slipped(b) /\ down[b].key = down[c].key

BuiltOnce ==
    \A t \in (1..Tables) \ excused :
        Cardinality({c \in Callers : down[c].at = "building" /\ down[c].key = t}) <= 1

(* download_cache.rs, FRESH_FOR, and files.rs, file_csv: what a caller is    *)
(* served was finished at most FRESH_FOR before it asked, and was built      *)
(* under the Endpoint table the caller was admitted on, except when the      *)
(* table was replaced between the admission and the key of a caller of it.   *)
(* download_cache.rs, Downloads: the answer is built once however many ask   *)
(* at the same time, unless a build of its key failed, was too large to      *)
(* keep, outlasted ABANDONED_AFTER or found the cache full.                  *)
OneFreshAnswer == ServedIsFresh /\ BuiltOnce

=============================================================================
