------------------------------- MODULE Grants -------------------------------
(***************************************************************************)
(* The grants of agent-proxy/src/delegation.rs: for each run the token of  *)
(* the person who started it, exchanged at the realm when the Portal hands *)
(* the person's own token over (routes/identity.rs), refreshed when a call *)
(* finds it about to expire, and revoked when the run ends (main.rs).      *)
(*                                                                         *)
(* The map of the grants and each grant have a lock of their own; neither  *)
(* is held while the realm is asked, but for a refresh, which holds its    *)
(* grant.  A hand-over, a data call and the minute's sweep therefore       *)
(* interleave at every question they ask.                                  *)
(*                                                                         *)
(* The realm is external: it ends every grant of this client in a session  *)
(* when one is revoked or the person signs out, and refuses to refresh a   *)
(* grant that has ended.                                                   *)
(***************************************************************************)
EXTENDS Integers

CONSTANTS
    RunIds,
    CreatedBy,      \* the person who started each run
    Sessions,       \* the sessions of the realm
    PersonOf,       \* the person of each
    Named,          \* the sessions the realm names in its answers
    HandOvers,      \* the hand-overs under way at once
    ReadCalls,      \* the data calls under way at once
    Sweep,          \* the loop that ends what finished runs hold
    MaxGrants,      \* bound: the exchanges the realm makes
    NoRunId, NoSession

ASSUME GrantsAssumption ==
    /\ CreatedBy \in [RunIds -> {PersonOf[s] : s \in Sessions}]
    /\ Named \subseteq Sessions
    /\ Sweep \notin HandOvers
    /\ MaxGrants \in Nat
    /\ NoRunId \notin RunIds /\ NoSession \notin Sessions

Tasks == HandOvers \cup {Sweep}
GrantIds == 1 .. MaxGrants
NoGrant == 0

VARIABLES
    active,         \* the runs the Portal holds as active
    signed_in,      \* the sessions that are open at the realm
    alive,          \* the grants the realm would refresh
    session_of,     \* the session of each grant the realm made
    unexpired,      \* the grants whose access token is not about to expire
    grant_of,       \* Grants.held: the grant of each run
    task,           \* the hand-overs and the sweep
    todo,           \* the runs the sweep has still to ask about
    reading,        \* the data calls that want their run's token
    unrevoked,      \* history: the sessions of which a grant was given up unrevoked
    overtaken       \* history: the grants made while their session was being revoked

realmVars == <<signed_in, alive, session_of>>
historyVars == <<unrevoked, overtaken>>
grantsVars == <<active, realmVars, unexpired, grant_of, task, todo, reading, historyVars>>

IdleTask == [at |-> "idle", run |-> NoRunId, session |-> NoSession, grant |-> NoGrant]
IdleRead == [at |-> "idle", run |-> NoRunId, grant |-> NoGrant]

GrantsInit ==
    /\ active = RunIds
    /\ signed_in = Sessions
    /\ alive = {}
    /\ session_of = [g \in GrantIds |-> NoSession]
    /\ unexpired = {}
    /\ grant_of = [r \in RunIds |-> NoGrant]
    /\ task = [t \in Tasks |-> IdleTask]
    /\ todo = {}
    /\ reading = [c \in ReadCalls |-> IdleRead]
    /\ unrevoked = {}
    /\ overtaken = {}

IsNext(g) == session_of[g] = NoSession /\ \A h \in 1 .. g - 1 : session_of[h] # NoSession

GrantsOf(s) == {g \in GrantIds : session_of[g] = s}

(* A retirement that found no other grant of its session in the map. *)
BeingRevoked(s) ==
    \E t \in Tasks : task[t].at \in {"lock", "revoke"} /\ session_of[task[t].grant] = s

GoesTo(t, at) == task' = [task EXCEPT ![t].at = at]
TaskEnds(t) == task' = [task EXCEPT ![t] = IdleTask]

(* What came out of the map, if anything did, is retired next. *)
Retire(t, g) ==
    task' = [task EXCEPT ![t] = IF g = NoGrant THEN IdleTask
                                ELSE [at |-> "retire", run |-> NoRunId, session |-> NoSession,
                                      grant |-> g]]

-----------------------------------------------------------------------------

(* The Portal, the persons and the time. *)
RunFinishes(r) ==
    /\ r \in active
    /\ active' = active \ {r}
    /\ UNCHANGED <<realmVars, unexpired, grant_of, task, todo, reading, historyVars>>

SignsOut(s) ==
    /\ s \in signed_in
    /\ signed_in' = signed_in \ {s}
    /\ alive' = alive \ GrantsOf(s)
    /\ UNCHANGED <<active, session_of, unexpired, grant_of, task, todo, reading, historyVars>>

AccessExpires(g) ==
    /\ g \in unexpired
    /\ unexpired' = unexpired \ {g}
    /\ UNCHANGED <<active, realmVars, grant_of, task, todo, reading, historyVars>>

-----------------------------------------------------------------------------

(* handler(): the Portal hands over a person's token for a run that is still *)
(* active when the Portal is asked.                                          *)
HandOver(b, r, s) ==
    /\ task[b].at = "idle"
    /\ r \in active
    /\ task' = [task EXCEPT ![b] = [at |-> "resolved", run |-> r, session |-> s,
                                    grant |-> NoGrant]]
    /\ UNCHANGED <<active, realmVars, unexpired, grant_of, todo, reading, historyVars>>

(* bind(): the token must be active and name the run's own person. *)
IsTheirs(r, s) == s \in signed_in /\ PersonOf[s] = CreatedBy[r]

Introspect(b) ==
    /\ task[b].at = "resolved"
    /\ IsTheirs(task[b].run, task[b].session)
    /\ GoesTo(b, "checked")
    /\ UNCHANGED <<active, realmVars, unexpired, grant_of, todo, reading, historyVars>>

(* bind(): the realm makes a grant; its answer may not arrive. *)
Exchange(b) ==
    LET s == task[b].session IN
    /\ task[b].at = "checked"
    /\ s \in signed_in
    /\ \E g \in GrantIds :
         /\ IsNext(g)
         /\ session_of' = [session_of EXCEPT ![g] = s]
         /\ alive' = alive \cup {g}
         /\ \/ /\ task' = [task EXCEPT ![b].at = "exchanged", ![b].grant = g]
               /\ unexpired' = unexpired \cup {g}
               /\ overtaken' = IF BeingRevoked(s) THEN overtaken \cup {g} ELSE overtaken
               /\ UNCHANGED unrevoked
            \/ /\ TaskEnds(b)
               /\ unrevoked' = unrevoked \cup {s}
               /\ UNCHANGED <<unexpired, overtaken>>
    /\ UNCHANGED <<active, signed_in, grant_of, todo, reading>>

(* The realm refuses, is out of reach, or the Portal goes away: what the     *)
(* hand-over had in hand is given up.                                        *)
Abandon(b) ==
    /\ task[b].at # "idle"
    /\ TaskEnds(b)
    /\ unrevoked' = IF task[b].grant = NoGrant THEN unrevoked
                    ELSE unrevoked \cup {session_of[task[b].grant]}
    /\ UNCHANGED <<active, realmVars, unexpired, grant_of, todo, reading, overtaken>>

(* bind(): the grant is held, and the one it replaces is retired.            *)
Hold(b) ==
    LET r == task[b].run IN
    /\ task[b].at = "exchanged"
    /\ grant_of' = [grant_of EXCEPT ![r] = task[b].grant]
    /\ Retire(b, grant_of[r])
    /\ UNCHANGED <<active, realmVars, unexpired, todo, reading, historyVars>>

-----------------------------------------------------------------------------

(* Mutant: another grant of the session is never looked for. *)
NeverShared(s) == FALSE

(* Mutant: a hand-over that is about to make a grant of the session is enough. *)
SharedByHandOver(s) ==
    \/ \E r \in RunIds : grant_of[r] # NoGrant /\ session_of[grant_of[r]] = s
    \/ \E b \in HandOvers : task[b].at = "checked" /\ task[b].session = s

(* retire(): a grant out of the map is dropped when one in it shares its     *)
(* session, as far as the realm names the session.                           *)
Shared(s) ==
    /\ s \in Named
    /\ \E r \in RunIds : grant_of[r] # NoGrant /\ session_of[grant_of[r]] = s

HandedOver(s) == {task[b].grant : b \in {x \in HandOvers : task[x].at = "exchanged"
                                                         /\ task[x].session = s}}

RetireLooks(t) ==
    LET s == session_of[task[t].grant] IN
    /\ task[t].at = "retire"
    /\ IF Shared(s) THEN TaskEnds(t) /\ UNCHANGED overtaken
       ELSE /\ GoesTo(t, "lock")
            /\ overtaken' = overtaken \cup HandedOver(s)
    /\ UNCHANGED <<active, realmVars, unexpired, grant_of, todo, reading, unrevoked>>

(* retire(): the refresh token is read once no call refreshes the grant. *)
RetireLocks(t) ==
    /\ task[t].at = "lock"
    /\ \A c \in ReadCalls : ~(reading[c].at = "refresh" /\ reading[c].grant = task[t].grant)
    /\ GoesTo(t, "revoke")
    /\ UNCHANGED <<active, realmVars, unexpired, grant_of, todo, reading, historyVars>>

(* revoke(): the realm ends every grant of the session, or does not get to   *)
(* it; the code only logs which.                                             *)
Revoke(t) ==
    LET s == session_of[task[t].grant] IN
    /\ task[t].at = "revoke"
    /\ TaskEnds(t)
    /\ \/ alive' = alive \ GrantsOf(s) /\ UNCHANGED unrevoked
       \/ unrevoked' = unrevoked \cup {s} /\ UNCHANGED alive
    /\ UNCHANGED <<active, signed_in, session_of, unexpired, grant_of, todo, reading, overtaken>>

-----------------------------------------------------------------------------

(* end_finished(): once a minute the runs that hold a grant, ... *)
SweepStarts ==
    /\ task[Sweep].at = "idle" /\ todo = {}
    /\ todo' = {r \in RunIds : grant_of[r] # NoGrant}
    /\ UNCHANGED <<active, realmVars, unexpired, grant_of, task, reading, historyVars>>

(* ... one after the other: one that is active or cannot be asked about      *)
(* keeps its grant, ...                                                      *)
SweepPasses(r) ==
    /\ task[Sweep].at = "idle" /\ r \in todo
    /\ todo' = todo \ {r}
    /\ UNCHANGED <<active, realmVars, unexpired, grant_of, task, reading, historyVars>>

(* ... one that finished loses what it holds when end() looks. *)
SweepEnds(r) ==
    /\ task[Sweep].at = "idle" /\ r \in todo
    /\ r \notin active
    /\ todo' = todo \ {r}
    /\ task' = [task EXCEPT ![Sweep] = [at |-> "ending", run |-> r, session |-> NoSession,
                                        grant |-> NoGrant]]
    /\ UNCHANGED <<active, realmVars, unexpired, grant_of, reading, historyVars>>

End ==
    LET r == task[Sweep].run IN
    /\ task[Sweep].at = "ending"
    /\ grant_of' = [grant_of EXCEPT ![r] = NoGrant]
    /\ Retire(Sweep, grant_of[r])
    /\ UNCHANGED <<active, realmVars, unexpired, todo, reading, historyVars>>

-----------------------------------------------------------------------------

(* token(): the call takes the run's grant out of the map's lock, ... *)
TakeGrant(c, r) ==
    /\ reading[c].at = "idle"
    /\ grant_of[r] # NoGrant
    /\ reading' = [reading EXCEPT ![c] = [at |-> "wait", run |-> r, grant |-> grant_of[r]]]
    /\ UNCHANGED <<active, realmVars, unexpired, grant_of, task, todo, historyVars>>

(* ... waits for the grant's own, and answers a token that is good, ... *)
LockGrant(c) ==
    LET g == reading[c].grant IN
    /\ reading[c].at = "wait"
    /\ \A d \in ReadCalls : ~(reading[d].at = "refresh" /\ reading[d].grant = g)
    /\ reading' = IF g \in unexpired THEN [reading EXCEPT ![c] = IdleRead]
                  ELSE [reading EXCEPT ![c].at = "refresh"]
    /\ UNCHANGED <<active, realmVars, unexpired, grant_of, task, todo, historyVars>>

(* ... or refreshes it under the lock, ... *)
RefreshAnswers(c) ==
    LET g == reading[c].grant IN
    /\ reading[c].at = "refresh"
    /\ \/ /\ g \in alive
          /\ unexpired' = unexpired \cup {g}
          /\ reading' = [reading EXCEPT ![c] = IdleRead]
       \/ /\ g \notin alive
          /\ reading' = [reading EXCEPT ![c].at = "refused"]
          /\ UNCHANGED unexpired
    /\ UNCHANGED <<active, realmVars, grant_of, task, todo, historyVars>>

(* ... and a refusal drops what the run holds once the grant is unlocked. *)
DropRefused(c) ==
    LET r == reading[c].run IN
    /\ reading[c].at = "refused"
    /\ grant_of' = [grant_of EXCEPT ![r] = NoGrant]
    /\ unrevoked' = IF grant_of[r] = NoGrant THEN unrevoked
                    ELSE unrevoked \cup {session_of[grant_of[r]]}
    /\ reading' = [reading EXCEPT ![c] = IdleRead]
    /\ UNCHANGED <<active, realmVars, unexpired, task, todo, overtaken>>

(* The realm is out of reach, or the run's call goes away. *)
CallEnds(c) ==
    /\ reading[c].at # "idle"
    /\ reading' = [reading EXCEPT ![c] = IdleRead]
    /\ UNCHANGED <<active, realmVars, unexpired, grant_of, task, todo, historyVars>>

-----------------------------------------------------------------------------

Binds(b) ==
    \/ \E r \in RunIds, s \in Sessions : HandOver(b, r, s)
    \/ Introspect(b) \/ Exchange(b) \/ Hold(b) \/ Abandon(b)

Retires(t) == RetireLooks(t) \/ RetireLocks(t) \/ Revoke(t)

Sweeps == SweepStarts \/ End \/ \E r \in RunIds : SweepPasses(r) \/ SweepEnds(r)

ReadsData(c) ==
    \/ \E r \in RunIds : TakeGrant(c, r)
    \/ LockGrant(c) \/ RefreshAnswers(c) \/ DropRefused(c) \/ CallEnds(c)

GrantsNext ==
    \/ \E r \in RunIds : RunFinishes(r)
    \/ \E s \in Sessions : SignsOut(s)
    \/ \E g \in GrantIds : AccessExpires(g)
    \/ \E b \in HandOvers : Binds(b)
    \/ \E t \in Tasks : Retires(t)
    \/ Sweeps
    \/ \E c \in ReadCalls : ReadsData(c)

GrantsSpec == GrantsInit /\ [][GrantsNext]_grantsVars

-----------------------------------------------------------------------------

TaskType ==
    [at : {"idle", "resolved", "checked", "exchanged", "ending", "retire", "lock", "revoke"},
     run : RunIds \cup {NoRunId}, session : Sessions \cup {NoSession},
     grant : GrantIds \cup {NoGrant}]

ReadType == [at : {"idle", "wait", "refresh", "refused"}, run : RunIds \cup {NoRunId},
             grant : GrantIds \cup {NoGrant}]

(* What a run holds was made for it, of a session of the person who started  *)
(* it (bind()), and a hand-over that got so far is of such a session.        *)
OwnPerson(r, g) == session_of[g] \in Sessions /\ PersonOf[session_of[g]] = CreatedBy[r]

GrantsTypeOK ==
    /\ active \subseteq RunIds /\ signed_in \subseteq Sessions
    /\ session_of \in [GrantIds -> Sessions \cup {NoSession}]
    /\ alive \subseteq GrantIds /\ unexpired \subseteq GrantIds /\ overtaken \subseteq GrantIds
    /\ unrevoked \subseteq Sessions /\ todo \subseteq RunIds
    /\ task \in [Tasks -> TaskType] /\ reading \in [ReadCalls -> ReadType]
    /\ grant_of \in [RunIds -> GrantIds \cup {NoGrant}]
    /\ \A r \in RunIds : grant_of[r] # NoGrant => OwnPerson(r, grant_of[r])

(* The last grant of a session revokes them all (delegation.rs:9-12): a      *)
(* grant the realm would still refresh is of a session of which some run     *)
(* holds a grant, or one is being handed over or retired, unless a request   *)
(* failed, its caller went away, or a refresh was refused.                   *)
LastRevokesAll ==
    \A g \in alive :
      \/ session_of[g] \in unrevoked
      \/ \E r \in RunIds : grant_of[r] # NoGrant /\ session_of[grant_of[r]] = session_of[g]
      \/ \E t \in Tasks : /\ task[t].at \in {"exchanged", "retire", "lock", "revoke"}
                          /\ session_of[task[t].grant] = session_of[g]

(* A revocation ends the grants of no other run (T-6483): what a run holds   *)
(* of a session that is open can be refreshed, unless it was handed over     *)
(* while its session was being revoked.                                      *)
HeldIsLive ==
    \A r \in RunIds :
      grant_of[r] # NoGrant /\ session_of[grant_of[r]] \in signed_in \cap Named
        => grant_of[r] \in alive \cup overtaken

=============================================================================
