------------------------------ MODULE MCK8sScan ------------------------------
(* Instances of K8sScan for TLC.                                           *)
EXTENDS K8sScan

CONSTANTS n1, n2, n3, g1

\* The first group runs in the first namespace, the others in the second; a
\* third namespace is empty.
MCNamespaceOf == [g \in Groups |-> IF g = g1 THEN n1 ELSE n2]
=============================================================================
