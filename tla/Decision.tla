------------------------------ MODULE Decision ------------------------------
(***************************************************************************)
(* The policy decision point, pdp/evaluator.rs and pdp/mod.rs: from the    *)
(* policies that apply to a caller's operation, its request, and what the  *)
(* Endpoint hides and projects, to a refusal or the constraints of a       *)
(* rewrite; with the reads that pdp/grants.rs splits a rewrite into.       *)
(*                                                                         *)
(* In every one of these sets the empty set is "no narrowing", so each     *)
(* intersection that comes out empty has to be told apart from it.  Types  *)
(* and attributes are kept; ids, filters, areas and periods are left out.  *)
(* `id` and `type`, which every class keeps, are one name.                 *)
(*                                                                         *)
(* The sets of a rewrite are unions over the grants: by themselves they    *)
(* pair the type of one grant with the attribute of another.  What keeps   *)
(* such pairs apart is the view of each grant that the rewrite carries,    *)
(* and the one that the read of a grant carries; an entity is judged by    *)
(* them in the broker, outside of this repository.                         *)
(***************************************************************************)
CONSTANTS
    Types,
    Attrs,
    Identity,       \* `id` and `type`
    PolicySets,     \* the policies that may apply
    Questions,      \* what may be asked
    Endpoints       \* what an Endpoint hides, and the classes and slots it projects to

Entry == [types : SUBSET Types, attrs : SUBSET Attrs]

Policy == [prohibits : BOOLEAN, entries : SUBSET Entry]

Question == [write : BOOLEAN, types : SUBSET Types, attrs : SUBSET Attrs,
             referenced : SUBSET Attrs]

(* A projection has at least one class; no class stands for no projection. *)
Publication == [hidden : SUBSET Attrs, classes : SUBSET Types, slots : [Types -> SUBSET Attrs]]

ASSUME DecisionAssumption ==
    /\ Identity \notin Attrs
    /\ PolicySets \subseteq SUBSET Policy
    /\ Questions \subseteq Question
    /\ Endpoints \subseteq Publication

VARIABLES
    policies,   \* the policies of the Endpoint that apply
    request,
    endpoint,
    verdict     \* none yet, a refusal, or a rewrite and its constraints

decisionVars == <<policies, request, endpoint, verdict>>

NoMap == [t \in {} |-> {}]

NoConstraints ==
    [types |-> {}, attrs |-> {}, by_type |-> NoMap, served |-> {}, hidden |-> {},
     empty |-> FALSE, restricted |-> FALSE, dropped |-> {}, grants |-> {}]

-----------------------------------------------------------------------------
(* evaluator.rs *)

narrow(requested, granted) ==
    IF granted = {} THEN requested
    ELSE IF requested = {} THEN granted ELSE requested \cap granted

narrow_to_identity(requested, granted) ==
    IF requested # {} /\ granted # {} /\ requested \cap granted = {}
    THEN {Identity} ELSE narrow(requested, granted)

granted_types(policy) == UNION {e.types : e \in policy.entries}
granted_attrs(policy) == UNION {e.attrs : e \in policy.entries}

(* grants.rs: a policy's own types and attributes, and nobody else's. *)
GrantView(policy) == [types |-> granted_types(policy), attrs |-> granted_attrs(policy)]

(* withheld_by(): an entry of a prohibition that speaks about the request    *)
(* takes back the attributes it names, or, naming none, refuses it whole.    *)
Speaks(entry, q) == entry.types = {} \/ q.types = {} \/ entry.types \cap q.types # {}

Refused(ps, q) ==
    \E p \in ps : /\ p.prohibits
                  /\ \/ p.entries = {}
                     \/ \E e \in p.entries : Speaks(e, q) /\ e.attrs = {}

Withheld(ps, q) ==
    {a \in Attrs : \E p \in ps : p.prohibits /\ \E e \in p.entries : Speaks(e, q) /\ a \in e.attrs}

Grants(ps) == {p \in ps : ~p.prohibits}

TypesGranted(ps) == UNION {granted_types(g) : g \in Grants(ps)}

(* A grant that names no attribute is one over the whole entity. *)
AttrsGranted(ps) ==
    IF \E g \in Grants(ps) : granted_attrs(g) = {} THEN {}
    ELSE UNION {granted_attrs(g) : g \in Grants(ps)}

(* Mutant: nothing left of what was asked is not told from no narrowing. *)
IntersectOnly(ps, q) ==
    LET types == narrow(q.types, TypesGranted(ps))
        attrs == IF q.write THEN AttrsGranted(ps) ELSE narrow(q.attrs, AttrsGranted(ps))
    IN [NoConstraints EXCEPT !.types = types, !.attrs = attrs, !.served = AttrsGranted(ps),
                             !.grants = {GrantView(g) : g \in Grants(ps)},
                             !.restricted = \/ ~(q.types \subseteq types)
                                            \/ ~(q.attrs \subseteq attrs)
                                            \/ AttrsGranted(ps) # {}]

(* intersect(): a write is not narrowed by attributes it asks for. *)
Intersect(ps, q) ==
    LET types == narrow(q.types, TypesGranted(ps))
        attrs == IF q.write THEN AttrsGranted(ps) ELSE narrow(q.attrs, AttrsGranted(ps))
        no_type_left == q.types # {} /\ TypesGranted(ps) # {} /\ types = {}
        no_attr_left == q.attrs # {} /\ AttrsGranted(ps) # {} /\ attrs = {}
    IN [NoConstraints EXCEPT
          !.types = types, !.attrs = attrs, !.served = AttrsGranted(ps),
          !.grants = {GrantView(g) : g \in Grants(ps)},
          !.empty = no_type_left \/ no_attr_left,
          !.restricted = \/ ~(q.types \subseteq types) \/ ~(q.attrs \subseteq attrs)
                         \/ AttrsGranted(ps) # {}]

(* withhold(): nothing left of the grants' attributes is a refusal. *)
Exhausted(c, withheld) == c.served # {} /\ c.served \subseteq withheld

Withhold(c, q, withheld) ==
    IF withheld = {} THEN c
    ELSE [c EXCEPT !.served = @ \ withheld, !.attrs = @ \ withheld, !.hidden = withheld,
                   !.empty = @ \/ (~q.write /\ q.attrs # {} /\ c.attrs \subseteq withheld),
                   !.restricted = TRUE]

-----------------------------------------------------------------------------
(* mod.rs *)

Hide(c, ep) ==
    IF ep.hidden = {} THEN c
    ELSE [c EXCEPT !.hidden = @ \cup ep.hidden, !.restricted = TRUE]

attributes_of(ep, class) == ep.slots[class] \cup {Identity}

(* project_constraints(): a type outside the projection is a refusal. *)
Unprojected(c, ep) == ep.classes # {} /\ narrow(c.types, ep.classes) = {}

Project(c, ep) ==
    IF ep.classes = {} THEN c
    ELSE LET types == narrow(c.types, ep.classes)
         IN [c EXCEPT
               !.types = types,
               !.attrs = narrow_to_identity(@, UNION {attributes_of(ep, t) : t \in types}),
               !.by_type = [t \in types |-> narrow_to_identity(c.attrs, attributes_of(ep, t))],
               !.restricted = TRUE]

(* drop_types_that_may_not_be_filtered() *)
Filterable(c, q) == {t \in DOMAIN c.by_type : q.referenced \subseteq c.by_type[t]}

DropTypes(c, q) ==
    LET kept == Filterable(c, q)
        all  == DOMAIN c.by_type
    IN IF q.referenced = {} THEN c
       ELSE IF \/ q.referenced \cap c.hidden # {}
               \/ all = {} /\ c.served # {} /\ ~(q.referenced \subseteq c.served)
            THEN [c EXCEPT !.empty = TRUE, !.restricted = TRUE]
       ELSE IF all = {} THEN c
       ELSE IF kept = {} THEN [c EXCEPT !.empty = TRUE, !.restricted = TRUE, !.dropped = all]
       ELSE [c EXCEPT !.types = kept, !.by_type = [t \in kept |-> c.by_type[t]],
                      !.restricted = @ \/ kept # all, !.dropped = all \ kept]

Denies(ps, q, ep) ==
    \/ Refused(ps, q)
    \/ Grants(ps) = {}
    \/ Exhausted(Intersect(ps, q), Withheld(ps, q))
    \/ Unprojected(Intersect(ps, q), ep)

Rewrites(ps, q, ep) ==
    DropTypes(Project(Hide(Withhold(Intersect(ps, q), q, Withheld(ps, q)), ep), ep), q)

(* per_grant(): a read for each grant, of its own types and with its view    *)
(* alone; a grant whose types the rewrite does not consider has none.        *)
TypesOfRead(c, view) ==
    IF view.types = {} THEN c.types
    ELSE IF c.types = {} THEN view.types ELSE view.types \cap c.types

HasRead(c, view) == TypesOfRead(c, view) # {} \/ (view.types = {} /\ c.types = {})

per_grant(c) == {[c EXCEPT !.types = TypesOfRead(c, view), !.grants = {view}] :
                   view \in {v \in c.grants : HasRead(c, v)}}

-----------------------------------------------------------------------------

DecisionInit ==
    /\ policies = {}
    /\ request = [write |-> FALSE, types |-> {}, attrs |-> {}, referenced |-> {}]
    /\ endpoint = [hidden |-> {}, classes |-> {}, slots |-> [t \in Types |-> {}]]
    /\ verdict = [is |-> "none", c |-> NoConstraints]

(* PolicyPdp::decide() (bound: one request of a behaviour). *)
Decide ==
    /\ verdict.is = "none"
    /\ policies' \in PolicySets /\ request' \in Questions /\ endpoint' \in Endpoints
    /\ verdict' = IF Denies(policies', request', endpoint')
                  THEN [is |-> "deny", c |-> NoConstraints]
                  ELSE [is |-> "rewrite", c |-> Rewrites(policies', request', endpoint')]

DecisionNext == Decide

DecisionSpec == DecisionInit /\ [][DecisionNext]_decisionVars

-----------------------------------------------------------------------------

DecisionTypeOK ==
    verdict.is = "rewrite" =>
        /\ verdict.c.types \subseteq Types
        /\ verdict.c.attrs \subseteq Attrs \cup {Identity}
        /\ DOMAIN verdict.c.by_type = IF endpoint.classes = {} THEN {} ELSE verdict.c.types

(* What a rewrite lets through: the types it considers, and of them the      *)
(* attributes that an answer keeps, or a write may touch.                    *)
Considers(c, t) == ~c.empty /\ (c.types = {} \/ t \in c.types)

Shown(c, q, t) == IF ~q.write /\ DOMAIN c.by_type # {} THEN c.by_type[t] ELSE c.attrs

LetsThrough(c, q, t, a) ==
    Considers(c, t) /\ a \notin c.hidden /\ (Shown(c, q, t) = {} \/ a \in Shown(c, q, t))

(* What a set of constraints serves when an entity shows only what the views *)
(* that match it show (evaluator.rs:152).                                    *)
NamesType(view, t) == view.types = {} \/ t \in view.types

MayServe(c, q, t, a) ==
    LetsThrough(c, q, t, a) /\ \E view \in c.grants : NamesType(view, t)
                                                   /\ (view.attrs = {} \/ a \in view.attrs)

Prohibited(ps, t, a) ==
    \E p \in ps : /\ p.prohibits
                  /\ \/ p.entries = {}
                     \/ \E e \in p.entries : /\ e.types = {} \/ t \in e.types
                                             /\ e.attrs = {} \/ a \in e.attrs

(* A slot of the type; of a write, a slot of some type that it may be of.    *)
SlotOf(ps, q, ep, t, a) ==
    \E u \in ep.classes : /\ a \in ep.slots[u]
                          /\ q.types = {} \/ u \in q.types
                          /\ \E g \in Grants(ps) : NamesType(GrantView(g), u)
                          /\ u = t \/ q.write

(* Asked, not taken back by a prohibition, not hidden, and projected.        *)
Permits(ps, q, ep, t, a) ==
    /\ q.types = {} \/ t \in q.types
    /\ ~Prohibited(ps, t, a)
    /\ a \notin ep.hidden
    /\ ep.classes # {} => t \in ep.classes /\ SlotOf(ps, q, ep, t, a)

(* What the policies and the Endpoint allow: one grant gives the type and,    *)
(* of it, the attribute.                                                      *)
May(ps, q, ep, t, a) ==
    /\ Permits(ps, q, ep, t, a)
    /\ \E g \in Grants(ps) : /\ NamesType(GrantView(g), t)
                             /\ granted_attrs(g) = {} \/ a \in granted_attrs(g)

(* The weaker claim that a union of the grants can keep: a grant gives the    *)
(* type, and a grant, it may be another one, gives the attribute.             *)
MayApart(ps, q, ep, t, a) ==
    /\ Permits(ps, q, ep, t, a)
    /\ \E g \in Grants(ps) : NamesType(GrantView(g), t)
    /\ \E g \in Grants(ps) : granted_attrs(g) = {} \/ a \in granted_attrs(g)

Asked(q, a) == q.write \/ q.attrs = {} \/ a \in q.attrs

(* evaluator.rs, evaluate, and mod.rs, decide: the sets of a rewrite let no   *)
(* type and no attribute through that no grant gives, that was taken back,    *)
(* hidden, not projected or not asked, and select on no such attribute,       *)
(* although the empty set is "everything" wherever it goes next.              *)
NothingUngranted ==
    LET c == verdict.c  q == request
    IN \A t \in Types :
         /\ \A a \in Attrs :
              LetsThrough(c, q, t, a) => MayApart(policies, q, endpoint, t, a) /\ Asked(q, a)
         /\ \A a \in q.referenced :
              Considers(c, t) => MayApart(policies, [q EXCEPT !.write = FALSE], endpoint, t, a)

(* Of a type it considers, a rewrite lets everything through that is granted, *)
(* asked and not taken back; one that is not `restricted` narrows nothing.    *)
NothingWithoutReason ==
    LET c == verdict.c  q == request
    IN /\ \A t \in Types, a \in Attrs \ Withheld(policies, q) :
            /\ Considers(c, t) /\ Asked(q, a)
            /\ MayApart(policies, [q EXCEPT !.write = FALSE], endpoint, t, a)
            => LetsThrough(c, q, t, a)
       /\ ~c.restricted =>
            /\ \A t \in q.types : Considers(c, t)
            /\ \A t \in Types, a \in Attrs :
                 Considers(c, t) /\ Asked(q, a) => LetsThrough(c, q, t, a)

(* grants.rs, per_grant (F-PLT2-004, EP-16): the read of a grant finds the    *)
(* types the grant gives and the rewrite considers; and what the reads serve  *)
(* together is exactly what single grants give, each of its own types, so     *)
(* that no type of one is paired with an attribute of another.                *)
ReadsAreTheGrants ==
    LET c == verdict.c  q == request
    IN ~q.write => \A t \in Types :
         /\ \A view \in c.grants :
              (\E one \in per_grant(c) : one.grants = {view} /\ Considers(one, t))
                <=> Considers(c, t) /\ NamesType(view, t)
         /\ \A a \in Attrs :
              (\E one \in per_grant(c) : MayServe(one, q, t, a))
                => May(policies, q, endpoint, t, a) /\ Asked(q, a)
         /\ \A a \in Attrs \ Withheld(policies, q) :
              Considers(c, t) /\ Asked(q, a) /\ May(policies, q, endpoint, t, a)
                => \E one \in per_grant(c) : MayServe(one, q, t, a)

(* evaluator.rs:62, "a filter is an oracle", :490, "an empty `types` set      *)
(* means no type filter downstream", and grants.rs:65, "the union read pairs  *)
(* one grant's types with another's": the sets of a rewrite keep to what the  *)
(* grants give type by type and attribute by attribute, and the reads of the  *)
(* grants to what each of them gives.                                         *)
KeepsToGrants ==
    verdict.is = "rewrite" => NothingUngranted /\ NothingWithoutReason /\ ReadsAreTheGrants

=============================================================================
