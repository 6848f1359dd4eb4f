---------------------------- MODULE MCCrawlOpen ----------------------------
(*
Two small sites for TLC.  In the first an AMP page is the seed and
links to its home page, which links back to it and to itself; the scope
may lose the seed when the run is resumed.  In the second there are
more seeds than max_urls, and every page links to one page more.
*)
EXTENDS CrawlOpen, TLC

CONSTANTS home, page, amp, deep

AmpLinks == (amp :> {home}) @@ (home :> {amp, home})
AmpScopes == {{home, amp}, {home}}

SiteLinks == [u \in {home, page, amp, deep} |-> {home, deep}]
SiteScopes == {{home, page, amp, deep}}

=============================================================================
