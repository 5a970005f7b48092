------------------------------ MODULE Filters ------------------------------
(***************************************************************************)
(* The filter index of one Endpoint's fan-out, context-gateway/src/        *)
(* fanout.rs: a filter is compiled to the one term it is indexed by, and a *)
(* changed entity is tried on the candidates the index names, instead of   *)
(* on every filter.                                                        *)
(*                                                                         *)
(* The index never decides a match: the matcher does, which is external.   *)
(* It is taken to hold a filter to its types, its comparisons and its      *)
(* area; what else it asks (ids, patterns, other terms) is `also`, any set *)
(* of documents.                                                           *)
(***************************************************************************)
EXTENDS Integers, FiniteSets

CONSTANTS
    FilterIds,
    EntityTypes,
    Names,          \* of attributes
    Documents,      \* the entities as they may change
    Subscriptions,  \* what a client may subscribe to
    NoSubscription,
    NoArea,         \* no bounded area of `location`
    CELL,           \* the edge of a cell of the grid
    MAX_CELLS

(* Numbers, and what is compared for equality alone. *)
Scalar == [number : BOOLEAN, n : Int]

Interval == [lo : Int, hi : Int]

(* bounds(): what a geometry spans. *)
Extent == [lon : Interval, lat : Interval]

IsExtent(e) == e.lon.lo <= e.lon.hi /\ e.lat.lo <= e.lat.hi

(* An entity: its types, the values of its attributes that a term is compared *)
(* with, and the extents of its location's instances.                        *)
Document == [types : SUBSET EntityTypes, has : [Names -> SUBSET Scalar], where : SUBSET Extent]

Term == [attr : Names, op : {"==", ">", ">=", "<", "<="}, value : Scalar]

(* A subscription: its plain types, none when a selector is an expression or  *)
(* there is no selector; the terms of its `q`, none unless it is a            *)
(* conjunction; whether values are expanded or read as JSON before they are   *)
(* compared; and its area, with the distances `near` allows.  The terms are a *)
(* set: their order decides which of them is the first, and is left open.     *)
Subscription == [types : SUBSET EntityTypes, terms : SUBSET Term, coerced : BOOLEAN,
                 area : Extent \cup {NoArea}, dlon : Nat, dlat : Nat, also : SUBSET Documents]

ASSUME FiltersAssumption ==
    /\ Documents \subseteq Document
    /\ \A doc \in Documents : \A x \in doc.where : IsExtent(x)
    /\ Subscriptions \subseteq Subscription
    /\ \A s \in Subscriptions : s.area # NoArea => IsExtent(s.area)
    /\ NoSubscription \notin Subscriptions
    /\ CELL \in Nat \ {0} /\ MAX_CELLS \in Nat \ {0}

VARIABLES
    subs,       \* Index.filters: the subscription of a filter
    keys,       \* the entries it was indexed under
    index       \* the entries of the maps, each with a filter

filtersVars == <<subs, keys, index>>

-----------------------------------------------------------------------------
(* Compilation *)

(* An entry of a map: the map, and what is looked up in it. *)
AnyEntry == <<"any", "", "">>
TypeEntry(type) == <<"by_type", type, "">>
EqEntry(t) == <<"eq", t.attr, t.value>>
BoundEntry(t) == <<IF t.op \in {">", ">="} THEN "lower" ELSE "upper", t.attr, t.value.n>>
CellEntry(x) == <<"grid", "", x>>
OnGrid == <<"on_grid", "", "">>

(* cells(): nothing when there are too many of them. *)
Steps(i) == (i.lo \div CELL) .. (i.hi \div CELL)
cells(e) == Steps(e.lon) \X Steps(e.lat)

Breadth(i) == (i.hi \div CELL) - (i.lo \div CELL) + 1
TooWide(e) == Breadth(e.lon) * Breadth(e.lat) > MAX_CELLS

(* Mutant: the distance of `near` is not added. *)
ReachedUnwidened(s) == s.area

Widened(i, by) == [lo |-> i.lo - by, hi |-> i.hi + by]
Reached(s) == [lon |-> Widened(s.area.lon, s.dlon), lat |-> Widened(s.area.lat, s.dlat)]

(* q_key(): an equality before a numeric bound. *)
Equalities(s) == {t \in s.terms : ~s.coerced /\ t.op = "=="}
Bounds(s) == {t \in s.terms : ~s.coerced /\ t.op # "==" /\ t.value.number}

OfGeo(s) == s.area # NoArea /\ ~TooWide(Reached(s))

(* compile(): the entries a filter goes under, for each order of its terms. *)
KeysOf(s) ==
    IF Equalities(s) # {} THEN {{EqEntry(t)} : t \in Equalities(s)}
    ELSE IF Bounds(s) # {} THEN {{BoundEntry(t)} : t \in Bounds(s)}
    ELSE IF OfGeo(s) THEN {{CellEntry(x) : x \in cells(Reached(s))} \cup {OnGrid}}
    ELSE IF s.types # {} THEN {{TypeEntry(type) : type \in s.types}}
    ELSE {{AnyEntry}}

-----------------------------------------------------------------------------
(* The index *)

FiltersInit ==
    /\ subs = [id \in FilterIds |-> NoSubscription]
    /\ keys = [id \in FilterIds |-> {}]
    /\ index = {}

(* remove(): the entries that the filter's own key names. *)
IndexWithout(id) == index \ (keys[id] \X {id})

(* insert(), of a filter that is new (x-subscribe) or replaced (x-update). *)
Insert(id) ==
    \E s \in Subscriptions : \E key \in KeysOf(s) :
        /\ index' = IndexWithout(id) \cup (key \X {id})
        /\ subs' = [subs EXCEPT ![id] = s]
        /\ keys' = [keys EXCEPT ![id] = key]

Remove(id) ==
    /\ subs[id] # NoSubscription
    /\ index' = IndexWithout(id)
    /\ subs' = [subs EXCEPT ![id] = NoSubscription]
    /\ keys' = [keys EXCEPT ![id] = {}]

FiltersNext == \E id \in FilterIds : Insert(id) \/ Remove(id)

FiltersSpec == FiltersInit /\ [][FiltersNext]_filtersVars

(* entity_cells(): nothing when one of its extents covers too many. *)
OffGrid(doc) == \E x \in doc.where : TooWide(x)

(* candidates(): whether an entry is among those looked up for a document. *)
Probed(doc, e) ==
    \/ e[1] = "any"
    \/ e[1] = "by_type" /\ e[2] \in doc.types
    \/ e[1] = "eq" /\ e[3] \in doc.has[e[2]]
    \/ e[1] = "lower" /\ \E v \in doc.has[e[2]] : v.number /\ e[3] <= v.n
    \/ e[1] = "upper" /\ \E v \in doc.has[e[2]] : v.number /\ v.n <= e[3]
    \/ e[1] = "grid" /\ ~OffGrid(doc) /\ \E x \in doc.where : e[3] \in cells(x)
    \/ e[1] = "on_grid" /\ OffGrid(doc)

Candidates(doc) == {p[2] : p \in {p \in index : Probed(doc, p[1])}}

-----------------------------------------------------------------------------
(* The matcher *)

Satisfies(t, doc) ==
    \E v \in doc.has[t.attr] :
        \/ t.op = "==" /\ v = t.value
        \/ t.op # "==" /\ ~t.value.number
        \/ /\ v.number /\ t.value.number
           /\ \/ t.op = ">" /\ v.n > t.value.n
              \/ t.op = ">=" /\ v.n >= t.value.n
              \/ t.op = "<" /\ v.n < t.value.n
              \/ t.op = "<=" /\ v.n <= t.value.n

(* Every relation but `disjoint` has a location within what the area reaches. *)
Overlap(i, j) == i.lo <= j.hi /\ j.lo <= i.hi
Near(x, s) ==
    /\ Overlap(x.lon, Widened(s.area.lon, s.dlon))
    /\ Overlap(x.lat, Widened(s.area.lat, s.dlat))

Matches(s, doc) ==
    /\ doc \in s.also
    /\ s.types # {} => s.types \cap doc.types # {}
    /\ ~s.coerced => \A t \in s.terms : Satisfies(t, doc)
    /\ s.area # NoArea => \E x \in doc.where : Near(x, s)

-----------------------------------------------------------------------------

FiltersTypeOK ==
    /\ subs \in [FilterIds -> Subscriptions \cup {NoSubscription}]
    /\ index = UNION {keys[id] \X {id} : id \in FilterIds}

(* fanout.rs, Index::candidates: "every filter that could match is among      *)
(* them", after any subscribes, updates and removals, for any document; and a *)
(* filter that was removed leaves no entry, by which a later change would     *)
(* be tried on it.                                                            *)
IndexIsAFullScan ==
    /\ \A id \in FilterIds : subs[id] # NoSubscription =>
         \A doc \in Documents : Matches(subs[id], doc) => id \in Candidates(doc)
    /\ \A p \in index : subs[p[2]] # NoSubscription

=============================================================================
