---------------------------- MODULE MCCrawlQueue ---------------------------
EXTENDS CrawlQueue

MCVersions(s) == {0, 1, 2}

=============================================================================
