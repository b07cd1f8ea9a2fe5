--------------------------- MODULE MCEventRegistry ---------------------------
(* Instances of EventRegistry for TLC.                                     *)
EXTENDS EventRegistry

CONSTANTS e1, e2, e3, w1, w2

\* Two events of one name with two handlers (CreateService has the issue
\* match handler and the authorization handler), one with a single handler.
MCNameOf == [e \in Events |-> IF e = e3 THEN "CreateUser" ELSE "CreateService"]

MCSubscriptions ==
    << [name |-> "CreateService", handler |-> "OnServiceCreate"],
       [name |-> "CreateUser", handler |-> "OnUserCreateAuthz"],
       [name |-> "CreateService", handler |-> "OnServiceCreateAuthz"] >>
=============================================================================
