------------------------------ MODULE Pollers -------------------------------
(***************************************************************************)
(* Two lists of the Portal that a gateway decides with and polls:          *)
(* revocations.rs, the subjects whose tokens are refused, and              *)
(* domain_gate.rs, whether the Organization's domain is verified.  A poll  *)
(* names the tag of the list that is held, and the Portal answers it, the  *)
(* list, or neither.  When the Portal cannot be asked, revoked subjects    *)
(* stay refused, and the domain is unknown after MAX_AGE.                  *)
(*                                                                         *)
(* The pollers share nothing: a behaviour is one of one of them.  A list   *)
(* is a model value, and its tag the list itself; the gate's list is one   *)
(* that has the domain verified, or not.  Time passes in ticks.            *)
(***************************************************************************)
EXTENDS Naturals

CONSTANTS
    Lists,      \* what the Portal may list
    Verified,   \* the list in which the domain is verified
    NoList,     \* none yet
    MAX_AGE,    \* how old the gate's list may be
    TIMEOUT,    \* how long a poll takes at most
    MaxNow      \* bound: the ticks of a behaviour

ASSUME PollersAssumption ==
    /\ Verified \in Lists /\ NoList \notin Lists
    /\ MAX_AGE \in Nat /\ TIMEOUT \in Nat /\ MaxNow \in Nat

VARIABLES
    poller,     \* whose poller it is
    now,
    portal,     \* the Portal's list
    holding,    \* the verifier's marks, or the gate's list
    held_at,    \* when the gate's list was confirmed
    etag,       \* the tag of the next poll
    poll,       \* the poll under way: when and with which tag it was sent, and its answer
    confirmed,  \* history: the Portal's list when it gave the last answer that was taken
    verified_at \* history: the last time the domain was verified at the Portal

pollersVars == <<poller, now, portal, holding, held_at, etag, poll, confirmed, verified_at>>

NoPoll == [at |-> "idle", sent |-> 0, tag |-> NoList, list |-> NoList]

PollersInit ==
    /\ poller \in {"revocations", "gate"}
    /\ now = 0
    /\ portal \in Lists
    /\ holding = NoList
    /\ held_at = 0
    /\ etag = NoList
    /\ poll = NoPoll
    /\ confirmed = NoList
    /\ verified_at = 0

(* The Portal, the time and the network. *)
ListChanges ==
    /\ portal' \in Lists \ {portal}
    /\ verified_at' = IF portal = Verified THEN now ELSE verified_at
    /\ UNCHANGED <<poller, now, holding, held_at, etag, poll, confirmed>>

NowPasses ==
    /\ now < MaxNow
    /\ poll.at # "idle" => now < poll.sent + TIMEOUT
    /\ now' = now + 1
    /\ UNCHANGED <<poller, portal, holding, held_at, etag, poll, confirmed, verified_at>>

PortalAnswers ==
    /\ poll.at = "sent"
    /\ poll' = [poll EXCEPT !.at = IF poll.tag = portal THEN "unchanged" ELSE "listed",
                            !.list = portal]
    /\ UNCHANGED <<poller, now, portal, holding, held_at, etag, confirmed, verified_at>>

-----------------------------------------------------------------------------

(* A tick of follow(): a poll without a token is not sent. *)
SendPoll ==
    /\ poll.at = "idle"
    /\ poll' = [at |-> "sent", sent |-> now, tag |-> etag, list |-> NoList]
    /\ UNCHANGED <<poller, now, portal, holding, held_at, etag, confirmed, verified_at>>

Replace(list) == holding' = list /\ held_at' = now

(* 304: the list stands, and the gate's is confirmed. *)
PollUnchanged ==
    /\ poll.at = "unchanged"
    /\ held_at' = IF poller = "gate" /\ holding # NoList THEN now ELSE held_at
    /\ confirmed' = poll.list
    /\ poll' = NoPoll
    /\ UNCHANGED <<poller, now, portal, holding, etag, verified_at>>

PollListed ==
    /\ poll.at = "listed"
    /\ Replace(poll.list)
    /\ etag' = poll.list
    /\ confirmed' = poll.list
    /\ poll' = NoPoll
    /\ UNCHANGED <<poller, now, portal, verified_at>>

(* Mutant: the tag is taken from the headers whatever becomes of the body. *)
UnreadableTagged ==
    /\ poll.at = "listed"
    /\ etag' = poll.list
    /\ poll' = NoPoll
    /\ UNCHANGED <<poller, now, portal, holding, held_at, confirmed, verified_at>>

(* The body cannot be read. *)
PollUnreadable ==
    /\ poll.at = "listed"
    /\ etag' = NoList
    /\ poll' = NoPoll
    /\ UNCHANGED <<poller, now, portal, holding, held_at, confirmed, verified_at>>

(* The Portal refuses, or cannot be reached within the timeout: the pollers  *)
(* forget the tag, but for one that revocations.rs could not send.           *)
PollFails ==
    /\ poll.at # "idle"
    /\ etag' \in {NoList} \cup IF poller = "revocations" THEN {etag} ELSE {}
    /\ poll' = NoPoll
    /\ UNCHANGED <<poller, now, portal, holding, held_at, confirmed, verified_at>>

PollersNext ==
    \/ ListChanges \/ NowPasses \/ PortalAnswers
    \/ SendPoll \/ PollUnchanged \/ PollListed \/ PollUnreadable \/ PollFails

PollersSpec == PollersInit /\ [][PollersNext]_pollersVars

(* DomainGate::refusal_at(), under enforce: whether a write goes on. *)
Allowed == holding = Verified /\ now - held_at <= MAX_AGE

-----------------------------------------------------------------------------

PollersTypeOK ==
    /\ holding \in Lists \cup {NoList}
    /\ held_at \in 0..now
    /\ etag \in {NoList, holding}
    /\ poll.at # "idle" => now \in poll.sent .. poll.sent + TIMEOUT

(* revocations.rs:12, domain_gate.rs:8: the list that decides is the one the  *)
(* Portal held when it last answered, whatever polls failed or were not       *)
(* readable since; and a write goes on only if the domain was verified at     *)
(* the Portal within the list's age and the time a poll takes.                *)
PortalIsFollowed ==
    /\ holding = confirmed
    /\ poller = "gate" /\ Allowed /\ portal # Verified => now - verified_at <= MAX_AGE + TIMEOUT

=============================================================================
