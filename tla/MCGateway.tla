------------------------------ MODULE MCGateway ------------------------------
(* Two offers of one user: a first one, and one that replaces it.          *)
EXTENDS Gateway
=============================================================================
