------------------------------- MODULE MCHost -------------------------------
EXTENDS Host, TLC

CONSTANTS d1, d2, d3, d4, fa, fb, fc, k1, k2, kbad

MCEntry(n, r, k, e) ==
  [name |-> n, route |-> r, content |-> k, enabled |-> e, wellFormed |-> TRUE]

\* d1 deploys two functions and leaves one out; d2 redeploys one with a content
\* that d1 stores too; d3's manifest repeats a route; d4's module is no Wasm.
MCManifest == [d \in Deployers |->
  CASE d = d1 -> <<MCEntry(fa, None, k1, TRUE), MCEntry(fc, None, k1, FALSE), MCEntry(fb, None, k2, TRUE)>>
    [] d = d2 -> <<MCEntry(fa, fb, k2, TRUE)>>
    [] d = d3 -> <<MCEntry(fc, fa, k2, TRUE), MCEntry(fa, None, k2, TRUE)>>
    [] d = d4 -> <<MCEntry(fb, None, kbad, TRUE)>>]
MCWanted == (1 :> fb) @@ (2 :> fa) @@ (3 :> fb)
=============================================================================
