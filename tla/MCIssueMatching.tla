-------------------------- MODULE MCIssueMatching --------------------------
(* Two instances, two issues, two workers.  The variants of an issue       *)
(* disagree about its severity, across priorities or within one.           *)
EXTENDS IssueMatching, TLC

CONSTANTS x1, x2

Row(p, s) == [priority |-> p, score |-> s]
MCIssues == {x1, x2}
MCCatalogues ==
  { (x1 :> <<Row(1, 4), Row(2, 1)>>) @@ (x2 :> rows) :
      rows \in {<<>>, <<Row(1, 1), Row(1, 3), Row(1, 2)>>} }
=============================================================================
