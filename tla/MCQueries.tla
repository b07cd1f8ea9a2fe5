----------------------------- MODULE MCQueries -----------------------------
(* Every query the resolvers can ask for, one at a time.                   *)
EXTENDS Queries
=============================================================================
