----------------------------- MODULE MCAutopatch -----------------------------
(* Instances of Autopatch for TLC.                                         *)
EXTENDS Autopatch, TLC

CONSTANTS a1, a2, s1, v1, v2, c1, c2

\* The goroutines that serve completeScannerRun are alike.
Retries == Permutations({a1, a2})

\* Every instance belongs to one service.
MCServiceOf == [i \in Instances |-> s1]

\* Instance 1 may be upgraded from v1 to v2, in place; unless it is, instances
\* 1 and 3 run v1 and instance 2 runs v2.
MCDeployedAs == [i \in Instances |->
    CASE i = 1 -> {v1, v2} [] i = 2 -> {v2} [] OTHER -> {v1}]

MCComponentOf == [v \in Versions |-> IF v = v1 THEN c1 ELSE c2]

\* What is followed: alone, one call at a time and all the instances; disturbed,
\* an instance that is upgraded or two that are not; once two calls overlap, one
\* instance that keeps its version.
Followed ==
    /\ alone => ~overlapped
    /\ ~alone => instVersion[1] = v1 \/ inst[2] = "absent"
    /\ overlapped => instVersion[1] = v1 /\ inst[2] = "absent" /\ vanished[<<s1, v2>>] = 0

MCSpec == Init /\ [][Next /\ Followed']_vars
=============================================================================
