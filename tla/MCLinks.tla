------------------------------- MODULE MCLinks --------------------------------
(* One retry of an occupied slot; two offers of one user.                   *)
EXTENDS Links
=============================================================================
