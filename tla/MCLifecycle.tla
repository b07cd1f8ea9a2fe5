----------------------------- MODULE MCLifecycle -----------------------------
(* Instances of Lifecycle for TLC.                                         *)
EXTENDS Lifecycle

CONSTANTS counts, ratings, badge

MCEventOrder == <<counts, ratings, badge>>
=============================================================================
