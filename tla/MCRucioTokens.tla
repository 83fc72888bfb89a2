----------------------------- MODULE MCRucioTokens -----------------------------
(* RucioTokens on small instances: token strings and sessions are          *)
(* interchangeable.                                                        *)
EXTENDS RucioTokens, TLC

Symmetry == Permutations(Token) \cup Permutations(Session)
=============================================================================
