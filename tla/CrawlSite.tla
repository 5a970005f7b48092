----------------------------- MODULE CrawlSite ------------------------------
(***************************************************************************)
(* What crawls of one website write to the assistant's store: crawl,       *)
(* visit, read_page, revisit and handle_document of crawl/mod.rs, the      *)
(* Indexer they hand changed text to (extract.rs), and the administrator's *)
(* inclusion of a page (chat/admin.rs).                                    *)
(*                                                                         *)
(* Every transaction is a step, because pods are killed and statements     *)
(* fail between them, and a job that two pods queued is crawled twice at   *)
(* once.  The website is external: it serves an address, fails or says it  *)
(* is gone.  A content is its version; an address's hash and validators    *)
(* are the version they were taken of, 0 for NULL.                         *)
(***************************************************************************)
EXTENDS Naturals, FiniteSets

CONSTANTS
    Items,              \* the addresses of the site
    Docs,               \* those that name a document
    Start,              \* the start address
    Serves(_),          \* the versions an address may be served in, 0 when it is gone
    LinksIn(_, _),      \* what a version of an address links
    Patterned,          \* the addresses that some version of the manifest leaves out
    Crawlers,           \* the crawls that may run at once
    GONE_AFTER_RUNS,
    Faults,             \* "cut": a crawl may end between two transactions; "index":
                        \* an address may fail to be indexed
    Admin               \* bound: the addresses an administrator includes and excludes

ASSUME SiteAssumption ==
    /\ Docs \subseteq Items /\ Start \in Items \ Docs /\ Patterned \subseteq Items
    /\ GONE_AFTER_RUNS \in Nat \ {0}
    /\ Faults \subseteq {"cut", "index"} /\ Admin \subseteq Items
    /\ \A i \in Items : /\ Serves(i) \subseteq Nat /\ \E v \in Serves(i) : v # 0
                       /\ \A v \in Serves(i) : LinksIn(i, v) \subseteq Items

VARIABLES
    served,     \* what the site serves at an address
    row,        \* the pages and documents rows
    passages,   \* the version a row's chunks were made of, 0 for none
    links,      \* the links rows of a page
    walk,       \* the crawls
    holds,      \* the crawls whose row id for their address still names a row
    missed,     \* history: the runs in a row that could not read or reach an address
    behind      \* history: the addresses whose text a step left out of the index

siteVars == <<served, row, passages, links, walk, holds, missed, behind>>

-----------------------------------------------------------------------------

NoRow == [held |-> FALSE, hash |-> 0, failed_runs |-> 0, excluded |-> FALSE]

Idle == [at |-> "idle", frontier |-> {}, queued |-> {}, item |-> Start, stored |-> 0, got |-> 0,
         answered |-> FALSE, complete |-> FALSE, blind |-> FALSE, sitemap_only |-> FALSE,
         missed |-> {}, omits |-> {}]

SiteInit ==
    /\ served = [i \in Items |-> CHOOSE v \in Serves(i) : v # 0]
    /\ row = [i \in Items |-> NoRow]
    /\ passages = [i \in Items |-> 0]
    /\ links = [i \in Items |-> {}]
    /\ walk = [w \in Crawlers |-> Idle]
    /\ holds = {}
    /\ missed = [i \in Items |-> 0]
    /\ behind = {}

(* The website is edited. *)
SiteChanges(i) ==
    /\ served' \in {[served EXCEPT ![i] = v] : v \in Serves(i) \ {served[i]}}
    /\ UNCHANGED <<row, passages, links, walk, holds, missed, behind>>

-----------------------------------------------------------------------------
(* Rows. *)

Known == {i \in Items : row[i].held}

(* Deleting rows takes their passages and links with them; the crawl that    *)
(* deletes is through with its address.                                      *)
Delete(w, S) ==
    /\ passages' = [i \in Items |-> IF i \in S THEN 0 ELSE passages[i]]
    /\ links' = [i \in Items |-> IF i \in S THEN {} ELSE links[i]]
    /\ holds' = {v \in holds \ {w} : walk[v].item \notin S}
    /\ behind' = behind \ S

(* The rows with `runs` as their failed_runs, the spent ones deleted. *)
Spent(runs) == {i \in Items : runs[i] >= GONE_AFTER_RUNS}

Aged(runs) == [i \in Items |-> IF i \in Spent(runs) THEN NoRow
                               ELSE [row[i] EXCEPT !.failed_runs = runs[i]]]

(* Frontier::push: each address is queued once. *)
Pushed(wk, S) == [wk EXCEPT !.frontier = @ \cup (S \ wk.queued), !.queued = @ \cup S]

(* The links a crawl follows; a sitemap check reads only the documents. *)
Followed(wk, S) == IF wk.sitemap_only THEN S \cap Docs ELSE S

Walks(w, wk) == walk' = [walk EXCEPT ![w] = wk]

(* The crawl is through with its address. *)
Done(wk) == [wk EXCEPT !.at = "walk", !.item = Start, !.stored = 0, !.got = 0,
                     !.omits = {}]

-----------------------------------------------------------------------------
(* crawl(). *)

(* A full crawl starts from the start address and what the sitemap lists; a  *)
(* sitemap check from the listed addresses it never read and from those      *)
(* whose date says they changed since.                                       *)
BeginCrawl(w) ==
    /\ walk[w].at = "idle"
    /\ \E listed \in SUBSET (Items \ Docs), blind, only \in BOOLEAN :
         \E dated \in IF only THEN SUBSET {i \in listed : row[i].hash # 0} ELSE {{}} :
             LET from == IF only THEN dated \cup {i \in listed : row[i].hash = 0}
                         ELSE {Start} \cup listed
             IN Walks(w, [Idle EXCEPT !.at = "walk", !.frontier = from, !.queued = from,
                                      !.complete = ~only, !.blind = blind,
                                      !.sitemap_only = only])
    /\ UNCHANGED <<served, row, passages, links, holds, missed, behind>>

(* maxPages answers were counted (of pages or of documents): what is queued  *)
(* is left, and the run says nothing of what it did not reach.               *)
CapReached(w) ==
    /\ walk[w].at = "walk" /\ walk[w].frontier # {} /\ walk[w].answered
    /\ Walks(w, [walk[w] EXCEPT !.frontier = {}, !.complete = FALSE])
    /\ UNCHANGED <<served, row, passages, links, holds, missed, behind>>

(* visit, handle_document: the next address, and what is stored of it.  The  *)
(* patterns and document rules of the manifest, that of the pod's snapshot,  *)
(* may leave it out; such a document is not read, such a page is.  A crawl   *)
(* visits an address once, so this is where it matters what they say.        *)
Visit(w, i) ==
    /\ walk[w].at = "walk" /\ i \in walk[w].frontier
    /\ \E omits \in SUBSET (Patterned \cap {i}) :
         Walks(w, [walk[w] EXCEPT !.frontier = @ \ {i}, !.item = i, !.stored = row[i].hash,
                                  !.omits = omits,
                                  !.at = IF walk[w].blind \/ i \in Docs \cap omits
                                         THEN "skip" ELSE "fetch"])
    /\ holds' = IF i \in Known THEN holds \cup {w} ELSE holds \ {w}
    /\ UNCHANGED <<served, row, passages, links, missed, behind>>

(* record_skipped_page, record_skipped_doc: refused, disallowed, left out,    *)
(* too large, or a page that redirects off the site.                          *)
Skipped(w) ==
    /\ walk[w].at \in {"skip", "fetch"}
    /\ LET i == walk[w].item
       IN /\ row' = [row EXCEPT ![i].held = TRUE, ![i].failed_runs = 0]
          /\ missed' = [missed EXCEPT ![i] = 0]
    /\ Walks(w, Done(walk[w]))
    /\ holds' = holds \ {w}
    /\ UNCHANGED <<served, passages, links, behind>>

(* A miss of this run, counted once, and no further than matters. *)
Missed(w, S) ==
    missed' = [i \in Items |-> IF i \in S \ walk[w].missed /\ missed[i] < GONE_AFTER_RUNS
                               THEN missed[i] + 1 ELSE missed[i]]

(* record_failed_page, record_failed_doc: a network error, another status, or *)
(* a document that redirects off the site; the row goes with its last run.    *)
FetchFails(w) ==
    /\ walk[w].at = "fetch"
    /\ LET i == walk[w].item
           runs == [k \in Items |-> row[k].failed_runs + IF k = i THEN 1 ELSE 0]
       IN /\ row' = [row EXCEPT ![i] = IF i \in Spent(runs) THEN NoRow
                                       ELSE [@ EXCEPT !.held = TRUE, !.failed_runs = runs[i]]]
          /\ Delete(w, {i} \cap Spent(runs))
          /\ Missed(w, {i})
          /\ Walks(w, Done([walk[w] EXCEPT !.missed = @ \cup {i}]))
    /\ UNCHANGED served

(* 404 or 410: forget. *)
Gone(w) ==
    /\ walk[w].at = "fetch" /\ served[walk[w].item] = 0
    /\ row' = [row EXCEPT ![walk[w].item] = NoRow]
    /\ Delete(w, {walk[w].item})
    /\ Walks(w, Done(walk[w]))
    /\ UNCHANGED <<served, missed>>

(* 304: the row's run is good (mark_page_not_modified, mark_doc_not_modified) *)
(* and revisit follows the stored links.                                      *)
NotModified(w) ==
    /\ walk[w].at = "fetch" /\ walk[w].stored # 0 /\ served[walk[w].item] = walk[w].stored
    /\ LET i == walk[w].item
           found == IF w \in holds THEN Followed(walk[w], links[i]) ELSE {}
       IN /\ IF w \in holds
             THEN row' = [row EXCEPT ![i].failed_runs = 0] /\ missed' = [missed EXCEPT ![i] = 0]
             ELSE UNCHANGED <<row, missed>>
          /\ Walks(w, Pushed(Done([walk[w] EXCEPT !.answered = TRUE]), found))
    /\ holds' = holds \ {w}
    /\ UNCHANGED <<served, passages, links, behind>>

Success(w) ==
    /\ walk[w].at = "fetch" /\ served[walk[w].item] # 0
    /\ Walks(w, [walk[w] EXCEPT !.at = "upsert", !.got = served[walk[w].item]])
    /\ UNCHANGED <<served, row, passages, links, holds, missed, behind>>

(* upsert_page_fetched, upsert_doc_fetched: hash and validators are stored    *)
(* before the text is indexed; text whose hash was stored is not handed on,   *)
(* nor is a page that the manifest leaves out.                                *)
Upsert(w) ==
    /\ walk[w].at = "upsert"
    /\ LET i == walk[w].item
           got == walk[w].got
           kept == walk[w].stored = got \/ i \in walk[w].omits
       IN /\ row' = [row EXCEPT ![i].held = TRUE, ![i].hash = got, ![i].failed_runs = 0]
          /\ missed' = [missed EXCEPT ![i] = 0]
          /\ behind' = IF kept /\ row[i].hash # got THEN behind \cup {i} ELSE behind
          /\ Walks(w, [walk[w] EXCEPT !.at = IF kept THEN "links" ELSE "index",
                                      !.answered = TRUE])
    /\ holds' = holds \cup {w}
    /\ UNCHANGED <<served, passages, links>>

-----------------------------------------------------------------------------
(* Indexer::index. *)

(* An excluded page is not indexed; nor is one whose question failed. *)
Excluded(w) ==
    /\ walk[w].at = "index"
    /\ w \in holds /\ row[walk[w].item].excluded
    /\ Walks(w, [walk[w] EXCEPT !.at = "links"])
    /\ UNCHANGED <<served, row, passages, links, holds, missed, behind>>

Extract(w) ==
    /\ walk[w].at = "index"
    /\ w \in holds => ~row[walk[w].item].excluded
    /\ Walks(w, [walk[w] EXCEPT !.at = "store"])
    /\ UNCHANGED <<served, row, passages, links, holds, missed, behind>>

(* store(): the passages are replaced in one transaction, while the row is    *)
(* there for them to refer to.                                                *)
Store(w) ==
    /\ walk[w].at = "store" /\ w \in holds
    /\ LET i == walk[w].item
       IN /\ passages' = [passages EXCEPT ![i] = walk[w].got]
          /\ behind' = IF row[i].hash = walk[w].got THEN behind \ {i} ELSE behind \cup {i}
    /\ Walks(w, [walk[w] EXCEPT !.at = "links"])
    /\ UNCHANGED <<served, row, links, holds, missed>>

(* Extraction or storage fails: the crawl goes on. *)
IndexFails(w) ==
    /\ \/ walk[w].at = "store" /\ w \notin holds
       \/ walk[w].at \in {"index", "store"} /\ "index" \in Faults
    /\ Walks(w, [walk[w] EXCEPT !.at = "links"])
    /\ behind' = behind \cup {walk[w].item}
    /\ UNCHANGED <<served, row, passages, links, holds, missed>>

-----------------------------------------------------------------------------

(* record_links adds, and the rest of read_page queues what the text links. *)
RecordLinks(w) ==
    /\ walk[w].at = "links"
    /\ LET i == walk[w].item
           found == LinksIn(i, walk[w].got)
       IN /\ w \in holds \/ found = {}
          /\ links' = [links EXCEPT ![i] = @ \cup found]
          /\ Walks(w, Pushed(Done(walk[w]), Followed(walk[w], found)))
    /\ holds' = holds \ {w}
    /\ UNCHANGED <<served, row, passages, missed, behind>>

(* Mutant: what was reached and failed is aged as well. *)
UnreachedOrFailed(w) == Known \ (walk[w].queued \ walk[w].missed)

(* The rows the walk did not come to. *)
Unreached(w) == Known \ walk[w].queued

(* The frontier is empty: a whole, answered walk under a readable robots.txt *)
(* ages what it did not reach, and deletes what is spent.                    *)
EndCrawl(w) ==
    /\ walk[w].at = "walk" /\ walk[w].frontier = {}
    /\ IF walk[w].complete /\ walk[w].answered /\ ~walk[w].blind
       THEN LET runs == [i \in Items |-> row[i].failed_runs
                                         + IF i \in Unreached(w) THEN 1 ELSE 0]
            IN /\ row' = Aged(runs)
               /\ Delete(w, Spent(runs))
               /\ Missed(w, Unreached(w))
       ELSE UNCHANGED <<row, passages, links, holds, missed, behind>>
    /\ Walks(w, Idle)
    /\ UNCHANGED served

(* The pod is killed, or a statement fails: the crawl ends where it is. *)
CutOff(w) ==
    /\ \/ "cut" \in Faults /\ walk[w].at # "idle"
       \/ walk[w].at = "links" /\ w \notin holds
    /\ Walks(w, Idle)
    /\ behind' = IF walk[w].at \in {"index", "store"} THEN behind \cup {walk[w].item} ELSE behind
    /\ holds' = holds \ {w}
    /\ UNCHANGED <<served, row, passages, links, missed>>

-----------------------------------------------------------------------------
(* apply_inclusion. *)

(* Excluding takes the passages of the page away. *)
Exclude(i) ==
    /\ i \in Admin /\ i \in Known
    /\ row' = [row EXCEPT ![i].excluded = TRUE]
    /\ passages' = [passages EXCEPT ![i] = 0]
    /\ UNCHANGED <<served, links, walk, holds, missed, behind>>

(* Mutant: including a page leaves its hash. *)
IncludeOnly(i) ==
    /\ i \in Admin /\ i \in Known
    /\ row' = [row EXCEPT ![i].excluded = FALSE]
    /\ UNCHANGED <<served, passages, links, walk, holds, missed, behind>>

(* Including clears the validators, so that the next crawl indexes the page. *)
Include(i) ==
    /\ i \in Admin /\ i \in Known
    /\ row' = [row EXCEPT ![i].excluded = FALSE, ![i].hash = 0]
    /\ UNCHANGED <<served, passages, links, walk, holds, missed, behind>>

-----------------------------------------------------------------------------

CrawlStep(w) ==
    \/ BeginCrawl(w) \/ CapReached(w) \/ \E i \in Items : Visit(w, i)
    \/ Skipped(w) \/ FetchFails(w) \/ Gone(w) \/ NotModified(w) \/ Success(w) \/ Upsert(w)
    \/ Excluded(w) \/ Extract(w) \/ Store(w) \/ IndexFails(w)
    \/ RecordLinks(w) \/ EndCrawl(w) \/ CutOff(w)

SiteNext ==
    \/ \E i \in Items : SiteChanges(i) \/ Exclude(i) \/ Include(i)
    \/ \E w \in Crawlers : CrawlStep(w)

SiteSpec == SiteInit /\ [][SiteNext]_siteVars

-----------------------------------------------------------------------------

(* The state has its types. *)
SiteTypeOK ==
    /\ served \in [Items -> Nat] /\ passages \in [Items -> Nat] /\ missed \in [Items -> Nat]
    /\ row \in [Items -> [held : BOOLEAN, hash : Nat, failed_runs : 0 .. GONE_AFTER_RUNS - 1,
                          excluded : BOOLEAN]]
    /\ links \in [Items -> SUBSET Items]
    /\ walk \in [Crawlers -> [at : {"idle", "walk", "skip", "fetch", "upsert", "index", "store", "links"},
                              frontier : SUBSET Items, queued : SUBSET Items, item : Items,
                              stored : Nat, got : Nat, answered : BOOLEAN, complete : BOOLEAN,
                              blind : BOOLEAN, sitemap_only : BOOLEAN, missed : SUBSET Items,
                              omits : SUBSET Items]]
    /\ holds \subseteq Crawlers /\ behind \subseteq Items

(* A page is taken out of the knowledge only when the site says it is gone,  *)
(* or when GONE_AFTER_RUNS runs in a row could neither read nor reach it:    *)
(* no run counts twice, and an answer in between starts the count again      *)
(* (record_failed_page, age_unreached, mark_page_not_modified).              *)
KeptUntilGone ==
    [][\A i \in Items : row[i].held /\ ~row'[i].held
                          => served[i] = 0 \/ missed'[i] >= GONE_AFTER_RUNS]_siteVars

(* Whatever order crawls, edits and an administrator's decisions come in, a  *)
(* page whose hash is stored and that is not excluded is indexed as of that  *)
(* hash, or a crawl is about to index it, or the step that stored the hash   *)
(* left the text out: a cut between the two transactions, a failed Indexer,  *)
(* a crawl that crossed another, or a manifest that left the page out, which *)
(* a manifest that takes it in again does not make good.                     *)
IndexedUnlessBehind ==
    \A i \in Items : row[i].hash # 0 /\ ~row[i].excluded
        => \/ passages[i] = row[i].hash \/ i \in behind
           \/ \E w \in Crawlers : walk[w].item = i /\ walk[w].at \in {"index", "store"}

(* A page the crawl takes for unchanged, so that its text is not handed on,  *)
(* has been indexed as it is (Sink, mod.rs 117: "Invoked for an included     *)
(* page whose content is new or changed").                                   *)
UnchangedIsIndexed ==
    [][\A w \in holds :
          (NotModified(w) \/ (Upsert(w) /\ walk[w].stored = walk[w].got)) /\ ~row[walk[w].item].excluded
          => passages[walk[w].item] = walk[w].stored]_siteVars

=============================================================================
