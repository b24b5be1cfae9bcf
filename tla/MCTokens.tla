------------------------------ MODULE MCTokens ------------------------------
(***************************************************************************)
(* A finite instance of Tokens.                                            *)
(***************************************************************************)
EXTENDS Tokens, TLC

CONSTANTS r1, r2, h1, h3

\* One request in each replica.
Placed == [h \in Handlers |-> IF h = h3 THEN r2 ELSE r1]
=============================================================================
