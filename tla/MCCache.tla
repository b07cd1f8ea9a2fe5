------------------------------ MODULE MCCache ------------------------------
(* The instance of Cache for TLC: its cfg gives every constant.            *)
EXTENDS Cache
============================================================================
