---------------------------- MODULE MCCrawlSite ----------------------------
EXTENDS CrawlSite

(* A start page that links a document in its first version and nothing in    *)
(* its second; the document may go away.                                     *)
MCServes(i) == IF i = "home" THEN {1, 2} ELSE {0, 1}

MCLinksIn(i, v) == IF i = "home" /\ v = 1 THEN {"doc"} ELSE {}

=============================================================================
