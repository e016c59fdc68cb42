--------------------------- MODULE MCUpstreamCrawl ---------------------------
EXTENDS UpstreamCrawl, TLC
CONSTANTS t1, t2, f1

MCOwner == (1 :> t1) @@ (2 :> t1)
==============================================================================
