---------------------------- MODULE PartsProofs ----------------------------
(***************************************************************************)
(* A behaviour of the parts is a behaviour of each of them: a step of one  *)
(* leaves the variables of the others alone (EachSteps).  So what is       *)
(* proved of every part for itself is proved of the parts.                 *)
(***************************************************************************)
EXTENDS MCParts, GatewayProofs, WorkersProofs

LEMMA EachSteps ==
    [PartsNext]_partsVars =>
        /\ part' = part
        /\ [Next]_vars
        /\ [CreatesNext]_createsVars
        /\ [DownloadsNext]_downloadsVars
        /\ [CountsNext]_countsVars
        /\ [PollersNext]_pollersVars
        /\ [ReloadNext]_reloadVars
        /\ [DecisionNext]_decisionVars
        /\ [FiltersNext]_filtersVars
        /\ [BudgetsNext]_budgetsVars
        /\ [GrantsNext]_grantsVars
        /\ [SiteNext]_siteVars
        /\ [JobsNext]_jobsVars
<1>1. CASE OfGateway /\ UNCHANGED part /\ UNCHANGED otherVars
  BY <1>1 DEF OfGateway, otherVars
<1>2. CASE OfOthers /\ UNCHANGED part /\ UNCHANGED gatewayVars
  BY <1>2 DEF OfOthers, gatewayVars
<1>3. CASE UNCHANGED partsVars
  BY <1>3 DEF partsVars, gatewayVars, otherVars
<1> QED BY <1>1, <1>2, <1>3 DEF PartsNext

(* Every part runs as it does alone: the run of the parts checks each of them. *)
THEOREM PartsRunAlone ==
    PartsSpec =>
        /\ Spec
        /\ CreatesSpec
        /\ DownloadsSpec
        /\ CountsSpec
        /\ PollersSpec
        /\ ReloadSpec
        /\ DecisionSpec
        /\ FiltersSpec
        /\ BudgetsSpec
        /\ GrantsSpec
        /\ SiteSpec
        /\ JobsSpec
<1>1. PartsInit =>
        /\ Init
        /\ CreatesInit
        /\ DownloadsInit
        /\ CountsInit
        /\ PollersInit
        /\ ReloadInit
        /\ DecisionInit
        /\ FiltersInit
        /\ BudgetsInit
        /\ GrantsInit
        /\ SiteInit
        /\ JobsInit
  BY DEF PartsInit
<1> QED BY <1>1, EachSteps, PTL
        DEF PartsSpec, Spec, CreatesSpec, DownloadsSpec, CountsSpec, PollersSpec,
            ReloadSpec, DecisionSpec, FiltersSpec, BudgetsSpec,
            GrantsSpec, SiteSpec, JobsSpec

(* The variables of every part keep their types, and what it holds stays in   *)
(* the bounds its code sets, whatever these are: SHARD_CAP keys of a shard,   *)
(* MAX_CALLERS of a day, MAX_HELD answers, MAX_KEYS rows.                     *)
THEOREM PartsAreTyped == PartsSpec => []PartsTypeOK
<1> DEFINE PartNames == {"buckets", "creates", "downloads", "counts", "pollers", "reload",
                         "decision", "filters", "budgets", "grants", "site", "jobs"}
<1>1. PartsInit => part \in PartNames
  BY DEF PartsInit
<1>2. part \in PartNames /\ [PartsNext]_partsVars => (part \in PartNames)'
  BY EachSteps
<1>3. /\ part \in PartNames
      /\ TypeOK /\ MapIsBounded
      /\ CreatesTypeOK
      /\ DownloadsTypeOK
      /\ CountsTypeOK
      /\ PollersTypeOK
      /\ ReloadTypeOK
      /\ DecisionTypeOK
      /\ FiltersTypeOK
      /\ BudgetsTypeOK
      /\ GrantsTypeOK
      /\ SiteTypeOK
      /\ JobsTypeOK
      => PartsTypeOK
  BY DEF PartsTypeOK
<1> QED BY <1>1, <1>2, <1>3, PartsRunAlone, TypeCorrect, MapStaysBounded,
           CallersAreBounded, HeldIsBounded, CountsTyped, PollersTyped, ReloadTyped,
           DecisionTyped, FiltersTyped, BudgetsTyped, GrantsType, SiteIsTyped, JobsTyped,
           PTL DEF PartsSpec

(* Whatever the values of the constants are, the parts have every property the *)
(* run of them checks on a small instance.                                     *)
THEOREM PartsAreSafe ==
    PartsSpec =>
        /\ [](WithinRate /\ NotShortchanged /\ WaitIsEnough)
        /\ [](DayIsCapped /\ OneFreshAnswer /\ CountsAddUp)
        /\ [](PortalIsFollowed /\ QuietIsServed)
        /\ [](KeepsToGrants /\ IndexIsAFullScan)
        /\ [](LiveRunWithinBudgets /\ LastRevokesAll /\ HeldIsLive)
        /\ [](FailuresInARow /\ IndexedUnlessBehind) /\ KeptUntilGone
  BY PartsRunAlone, RateIsKept, NothingIsLost, WaitingIsEnough, DaysAreCapped,
     OneAnswerIsServed, CountsAreConserved, PollersFollowPortal, QuietServesWhatIsThere,
     DecisionKeepsToGrants, IndexNamesEveryMatch, RunsKeepTheirBudgets, TheLastRevokes,
     HeldGrantsLive, JobsCountFailures, HashesAreIndexed, PagesAreKept, PTL

=============================================================================
