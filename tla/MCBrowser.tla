----------------------------- MODULE MCBrowser -----------------------------
(* Browser on small instances.                                             *)
EXTENDS Browser, FiniteSets, TLC

\* Bounds: two calls under way, of one tab or of two; four refresh tokens.
TwoCalls   == Cardinality({tc \in Tab \X Call : call[tc[1]][tc[2]].pc # "idle"}) <= 2
FourTokens == minted <= 4

Alike == Permutations(Session) \cup Permutations(Tab) \cup Permutations(Call)
=============================================================================
