--------------------------- MODULE MCRemediations ---------------------------
(* Two requests at a time, inputs that meet every check of the handlers.   *)
EXTENDS Remediations

CONSTANTS c1, c2, u1

New(c, t, u, e, by) == [component |-> c, type |-> t, url |-> u, expires |-> e, by |-> by]
Change(c, t, u, e) == [component |-> c, type |-> t, url |-> u, expires |-> e]

MCInputs ==
    {New(c1, "mitigation", None, e, None) : e \in {Never, 1, 2}}
      \cup {New(c2, "mitigation", None, 2, None), New(c1, "risk_accepted", None, 2, u1),
             New(c1, "risk_accepted", "invalid", Never, None), New(c1, None, "valid", 1, None),
             New(c2, "risk_accepted", "valid", Never, u1)}

MCChanges ==
    {Change(None, None, None, 2), Change(c2, None, "invalid", None),
     Change(None, "risk_accepted", None, None), Change(None, "risk_accepted", "valid", None),
     Change(None, "mitigation", None, 1)}

\* For the lists it matters only that something is written.
ListInputs == {New(c1, "mitigation", None, Never, None), New(c2, "risk_accepted", "valid", Never, u1)}
ListChanges == {Change(None, "mitigation", None, 1)}
ListContents ==
    LET given == {Content(input) : input \in ListInputs}
    IN  given \cup {[c EXCEPT !.type = "mitigation", !.expires = 1] : c \in given}

NoList == \A l \in Lists : entry[l] = None /\ loading[l] = None

FewWrites ==
    /\ now = 0
    /\ \A r \in DOMAIN rows : was[r] \subseteq ListContents
    /\ \A q \in Requests :
          /\ req[q].at \in {"check", "insert"} => req[q].new \in ListContents
          /\ req[q].at \in {"look", "update"} => req[q].input \in ListChanges

\* Lists are followed with few inputs and no date that passes.
MCSpec == Init /\ [][Next /\ (NoList \/ FewWrites)']_vars
=============================================================================
