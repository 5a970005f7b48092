------------------------------ MODULE MCParts -------------------------------
(***************************************************************************)
(* Small instances of the parts that share no state: the buckets, the      *)
(* daily creates, the downloads, the counts, the pollers, the reloads, the *)
(* policy decision and the filters of the gateway, the budgets of an agent *)
(* run and the grants of two, a crawl of the assistant and the jobs of the *)
(* WASM host.  A behaviour is one of one part, the others stay as they     *)
(* start: their states add up instead of multiplying.                      *)
(***************************************************************************)
EXTENDS RateLimiter, Creates, Downloads, Counts, Pollers, Reload, RunBudgets, Grants,
        MCCrawlSite, Jobs, Decision, Filters, TLC

CONSTANTS c1, c2, c3, k1, k2, fast, slow, form, person

VARIABLE part

(* RateLimiter: two keys of one shard, of slugs with different limits. *)
MCSlugOf == k1 :> slow @@ k2 :> fast
MCShardOf == k1 :> 1 @@ k2 :> 1
MCRate == slow :> 2 @@ fast :> 3
MCBurst == slow :> 2 @@ fast :> 1

(* Creates: a form of two a day, of which a caller may make one. *)
MCPerDay == form :> 2

(* Grants: two runs of one person. *)
MCCreatedBy == [r \in RunIds |-> person]
MCPersonOf == [s \in Sessions |-> person]

(* Decision: one or two grants, and none or one prohibition; what they, the  *)
(* request and the Endpoint name of two types with two attributes.           *)
Information(types, attrs) == [types |-> types, attrs |-> attrs]

MCGrants == {[prohibits |-> FALSE, entries |-> es] :
               es \in {{}} \cup {{Information(ts, as)} : ts \in {{}, {"X"}, {"Y"}},
                                                     as \in {{}, {"a"}, {"b"}}}}

MCProhibitions == {[prohibits |-> TRUE, entries |-> es] :
               es \in {{}, {Information({}, {"a"})}, {Information({"X"}, {"a"})},
                       {Information({"X"}, {})},
                       {Information({"X"}, {"a"}), Information({"Y"}, {})}}}

MCPolicySets == {{g, h} \cup ps : g \in MCGrants, h \in MCGrants,
                                 ps \in {{}} \cup {{p} : p \in MCProhibitions}}

MCQuestions == [write : BOOLEAN, types : {{}, {"X"}, {"X", "Y"}},
                attrs : {{}, {"a"}, {"a", "b"}}, referenced : {{}, {"b"}}]

MCEndpoints ==
    [hidden : {{}, {"b"}}, classes : {{}}, slots : {[t \in {"X", "Y"} |-> {}]}]
    \cup [hidden : {{}}, classes : {{"X"}, {"X", "Y"}},
          slots : {[t \in {"X", "Y"} |-> IF t = "X" THEN {"a"} ELSE {"a", "b"}]}]

(* Filters: entities at a place, at two and over nine cells, and a speed of  *)
(* 1, 2, none or a list; filters of up to two comparisons, of an area that   *)
(* is wide, bare or reaches a cell further, and of types.                    *)
Num(n) == [number |-> TRUE, n |-> n]
Word(n) == [number |-> FALSE, n |-> n]
Square(lo, hi) == [lon |-> [lo |-> lo, hi |-> hi], lat |-> [lo |-> lo, hi |-> hi]]
Compares(op, v) == [attr |-> "speed", op |-> op, value |-> v]

MCDocuments == [types : {{"X"}},
                has : [{"speed"} -> {{}, {Num(2)}, {Num(1), Word(1)}}],
                where : {{}, {Square(2, 2)}, {Square(0, 0), Square(4, 4)}, {Square(0, 5)}}]

MCTerms == {{}, {Compares(">", Num(1))}, {Compares("<=", Num(1))}, {Compares("==", Num(1))},
            {Compares("<", Num(2)), Compares("==", Word(1))}}

MCAreas == {[area |-> NoArea, reach |-> 0], [area |-> Square(1, 1), reach |-> 0],
            [area |-> Square(1, 1), reach |-> 1], [area |-> Square(0, 9), reach |-> 0]}

MCSubscriptions ==
    {[types |-> c[1], terms |-> c[2], coerced |-> c[3], area |-> a.area,
      dlon |-> a.reach, dlat |-> a.reach, also |-> MCDocuments] :
        c \in ({{}} \X MCTerms \X {FALSE})
              \cup {<<{"X", "Y"}, {}, FALSE>>, <<{}, {Compares("==", Num(1))}, TRUE>>},
        a \in MCAreas}

gatewayVars == <<vars, createsVars, downloadsVars, countsVars, pollersVars, reloadVars,
                 decisionVars, filtersVars>>
otherVars == <<budgetsVars, grantsVars, siteVars, jobsVars>>
partsVars == <<part, gatewayVars, otherVars>>

PartsInit ==
    /\ Init /\ CreatesInit /\ DownloadsInit /\ CountsInit /\ PollersInit /\ ReloadInit
    /\ DecisionInit /\ FiltersInit /\ BudgetsInit /\ GrantsInit /\ SiteInit /\ JobsInit
    /\ part \in {"buckets", "creates", "downloads", "counts", "pollers", "reload",
                "decision", "filters", "budgets", "grants", "site", "jobs"}
    /\ part # "counts" => tally_of = "usage"
    /\ part # "pollers" => poller = "gate" /\ portal = Verified
    /\ part # "reload" => listed = NoPreview /\ repository.linked

OfGateway ==
    \/ part = "buckets" /\ Next
       /\ UNCHANGED <<createsVars, downloadsVars, countsVars, pollersVars, reloadVars,
                      decisionVars, filtersVars>>
    \/ part = "creates" /\ CreatesNext
       /\ UNCHANGED <<vars, downloadsVars, countsVars, pollersVars, reloadVars, decisionVars,
                      filtersVars>>
    \/ part = "downloads" /\ DownloadsNext
       /\ UNCHANGED <<vars, createsVars, countsVars, pollersVars, reloadVars, decisionVars,
                      filtersVars>>
    \/ part = "counts" /\ CountsNext
       /\ UNCHANGED <<vars, createsVars, downloadsVars, pollersVars, reloadVars, decisionVars,
                      filtersVars>>
    \/ part = "pollers" /\ PollersNext
       /\ UNCHANGED <<vars, createsVars, downloadsVars, countsVars, reloadVars, decisionVars,
                      filtersVars>>
    \/ part = "reload" /\ ReloadNext
       /\ UNCHANGED <<vars, createsVars, downloadsVars, countsVars, pollersVars, decisionVars,
                      filtersVars>>
    \/ part = "decision" /\ DecisionNext
       /\ UNCHANGED <<vars, createsVars, downloadsVars, countsVars, pollersVars, reloadVars,
                      filtersVars>>
    \/ part = "filters" /\ FiltersNext
       /\ UNCHANGED <<vars, createsVars, downloadsVars, countsVars, pollersVars, reloadVars,
                      decisionVars>>

OfOthers ==
    \/ part = "budgets" /\ BudgetsNext /\ UNCHANGED <<grantsVars, siteVars, jobsVars>>
    \/ part = "grants" /\ GrantsNext /\ UNCHANGED <<budgetsVars, siteVars, jobsVars>>
    \/ part = "site" /\ SiteNext /\ UNCHANGED <<budgetsVars, grantsVars, jobsVars>>
    \/ part = "jobs" /\ JobsNext /\ UNCHANGED <<budgetsVars, grantsVars, siteVars>>

PartsNext ==
    /\ UNCHANGED part
    /\ \/ OfGateway /\ UNCHANGED otherVars
       \/ OfOthers /\ UNCHANGED gatewayVars

PartsSpec == PartsInit /\ [][PartsNext]_partsVars

(* Each part's variables keep their types, and the bounds its code sets:     *)
(* what a shard, the callers of a day and the cache may hold.                *)
PartsTypeOK ==
    CASE part = "buckets" -> TypeOK /\ MapIsBounded
      [] part = "creates" -> CreatesTypeOK
      [] part = "downloads" -> DownloadsTypeOK
      [] part = "counts" -> CountsTypeOK
      [] part = "pollers" -> PollersTypeOK
      [] part = "reload" -> ReloadTypeOK
      [] part = "decision" -> DecisionTypeOK
      [] part = "filters" -> FiltersTypeOK
      [] part = "budgets" -> BudgetsTypeOK
      [] part = "grants" -> GrantsTypeOK
      [] part = "site" -> SiteTypeOK
      [] part = "jobs" -> JobsTypeOK

=============================================================================
