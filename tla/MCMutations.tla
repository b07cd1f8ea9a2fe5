---------------------------- MODULE MCMutations ----------------------------
(* Two services of one support group member, everything connected once. *)
EXTENDS Mutations, TLC

CONSTANTS u1, u2, g1, g2, s1, s2, s3, c1, c2, v1, v2, v3, i1, i2, x1, x2, w1, r1, r2, m1, m2,
          a, b, d

MCSeed == (u1 :> a) @@ (g1 :> a) @@ (s1 :> a) @@ (s2 :> b) @@ (c1 :> a) @@ (v1 :> a) @@ (v2 :> b)
          @@ (i1 :> a) @@ (x1 :> a) @@ (r1 :> d) @@ (m1 :> Nobody)
MCSeedLinks == {Tuple(u1, "owner", s1), Tuple(u1, "member", g1), Tuple(g1, "support_group", s1),
                Tuple(s1, "related_service", i1), Tuple(i1, "component_instance", v1),
                Tuple(v1, "component_version", c1), Tuple(v2, "component_version", c1),
                Tuple(i1, "component_instance", m1), Tuple(x1, "match", m1), Tuple(v1, "issue", x1),
                Tuple(r1, "issue_repository", s1), Tuple(r1, "issue_repository", s2)}
=============================================================================
