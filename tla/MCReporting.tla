---------------------------- MODULE MCReporting ----------------------------
(* Two pod groups that share a side car, overlapping runs over one of them,  *)
(* a group in a rolling update, Keppel with two workers, NVD, SIEM alerts.   *)
EXTENDS Reporting

MCGroupOf == [p1 |-> "g1", p2 |-> "g2", p3 |-> "g1", p4 |-> "g4"]
MCServiceOf == [g1 |-> "s1", g2 |-> "s2", g4 |-> "s1"]
MCSupportGroupOf == [g1 |-> "t1", g2 |-> "t1", g4 |-> "t1"]
MCContainersOf == [g1 |-> {"c1"}, g2 |-> {"c2"}, g4 |-> {"c4", "c5"}]
MCInstanceOf == [c1 |-> "i1", c2 |-> "i2", c4 |-> "i4", c5 |-> "i4"]
MCComponentOf == [c1 |-> "k1", c2 |-> "k1", c4 |-> "k1", c5 |-> "k1"]
MCVersionOf == [c1 |-> "v1", c2 |-> "v1", c4 |-> "v1", c5 |-> "v2"]
MCSideCar == [c1 |-> <<"mesh", "t2">>, c2 |-> <<"mesh", "t2">>, c4 |-> NoName, c5 |-> NoName]
MCReportOf == [v1 |-> {"cve1", "ghsa"}, v2 |-> {"cve1"}]
MCAlert(instance, url) == [service |-> "s1", group |-> "t1", instance |-> instance,
                           name |-> "cve1", url |-> url, source |-> "siem"]
MCAlertOf == [a1 |-> MCAlert("x1", "u"), a2 |-> MCAlert("x2", "u"),
              a3 |-> [MCAlert("x3", NoName) EXCEPT !.group = NoName]]
MCRepositoryOf == [keppel |-> "nvd", nvd |-> "nvd"]

Empty == [k \in Kinds |-> <<>>]
Known == [Empty EXCEPT !["component"] = <<Row("k1", 0), Row("k2", 0)>>,
                       !["version"] = <<Row(<<1, "v1">>, 0), Row(<<2, "v2">>, 0)>>]
\* Ids of services and groups differ.
Grown == [Empty EXCEPT !["service"] = <<Row("s0", 0), Row("s1", 0)>>,
                       !["group"] = <<Row("t1", 0), Row("t2", 0)>>]
Scene(who, table, faulty) == [active |-> who, rows |-> table, limit |-> faulty]
MCScenes == {Scene({"p1", "p2"}, Empty, 0), Scene({"p1", "p3"}, Known, 0),
             Scene({"keppel", "w1", "w2"}, Known, 0), Scene({"keppel", "w1", "nvd"}, Known, 1),
             Scene({"p4", "keppel", "w1"}, Empty, 1), Scene({"a1", "keppel", "w1"}, Known, 0),
             Scene({"a1", "a2"}, Grown, 1), Scene({"a1", "a3"}, Empty, 0),
             Scene({"p1", "a1"}, Grown, 1)}
=============================================================================
