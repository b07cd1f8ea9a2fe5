----------------------------- MODULE Reporting -----------------------------
(***************************************************************************)
(* The clients that fill the catalogue: goroutines of the Kubernetes asset *)
(* scanner (one per group of pod replicas), the workers of the Keppel      *)
(* scanner, the NVD scanner and the SIEM alerts of the API.  Each of them  *)
(* looks an object up by its unique name and creates it when there is      *)
(* none, one request at a time and without any lock, next to all others.   *)
(*                                                                         *)
(* A client is a program of calls.  A call lists rows, inserts a row,      *)
(* updates an instance or relates two rows, and names the calls that       *)
(* follow when it succeeds, finds nothing or fails; a row whose unique     *)
(* name is taken, or that refers to no row, fails.  A request may also     *)
(* fail before it has had an effect, fail after it (the answer is lost),   *)
(* or be the last one of a client that stops.                              *)
(***************************************************************************)
EXTENDS Naturals, Sequences, FiniteSets

CONSTANTS
  Goroutines, GroupOf,   \* k8s goroutines and the pod group each one reports
  ServiceOf, SupportGroupOf, ContainersOf,      \* of a pod group
  InstanceOf, ComponentOf, VersionOf,           \* of a container
  SideCar,               \* configured <<service, group>> of a container, or NoName
  Keppel, Workers, ReportOf,   \* issue names in the report of a version
  Nvd, NvdCves, CveNames,      \* CveNames: the names that begin with "cve"
  Alerts, AlertOf,       \* SIEM alerts: service, group, instance, name, url, source
  RepositoryOf,          \* configured repository name of Keppel and Nvd
  Scenes,                \* processes, first rows and bound on faults of a behaviour
  NoName

Kinds == {"service", "group", "component", "version", "instance",
          "repository", "issue", "variant"}
Registers == {"pod", "service", "group", "component", "version",
              "instance", "repository", "issue", "variant"}
Processes == Goroutines \cup Workers \cup Alerts \cup {Keppel, Nvd}

ASSUME ReportingAssumption ==
  /\ GroupOf \in [Goroutines -> DOMAIN ServiceOf]
  /\ \A g \in DOMAIN ServiceOf : ContainersOf[g] \subseteq DOMAIN InstanceOf \cap DOMAIN SideCar
  /\ \A c \in DOMAIN SideCar : SideCar[c] = NoName \/ SideCar[c] = <<SideCar[c][1], SideCar[c][2]>>

ASSUME ProcessesApart ==
  /\ Goroutines \cap Workers = {} /\ Goroutines \cap Alerts = {} /\ Workers \cap Alerts = {}
  /\ Keppel # Nvd /\ {Keppel, Nvd} \cap (Goroutines \cup Workers \cup Alerts) = {}

\* The names of instances are built differently by the scanner and for an alert.
ASSUME AlertsApart == \A p \in Alerts, c \in DOMAIN InstanceOf : AlertOf[p].instance # InstanceOf[c]

\* Workers belong to a process of Keppel; no instance or issue has been reported yet.
ASSUME ScenesAssumption ==
  \A s \in Scenes :
    /\ s.active \subseteq Processes /\ s.limit \in Nat
    /\ Workers \cap s.active # {} => Keppel \in s.active
    /\ s.rows = [k \in Kinds |-> s.rows[k]]
    /\ \A k \in Kinds : s.rows[k] \in Seq({s.rows[k][i] : i \in DOMAIN s.rows[k]})
    /\ s.rows["instance"] = <<>> /\ s.rows["issue"] = <<>> /\ s.rows["variant"] = <<>>

VARIABLES
  active, limit,   \* the processes of this behaviour, and how many faults they meet
  rows,      \* rows[kind]: the table, a row's position is its id
  links, attached, matches,   \* SupportGroupService, ComponentVersionIssue, IssueMatch
  at,        \* at[p] = <<function, call>>: the request p makes next
  reg,       \* local variables of p: ids, 0 when unset
  left,      \* containers or issue names p has still to report
  item,      \* the one p reports now
  versions,  \* versions of the component a worker has taken
  queue,     \* Keppel's channel of components
  faults

vars == <<active, limit, rows, links, attached, matches, at, reg, left, item, versions, queue, faults>>
database == <<rows, links, attached, matches>>
local == <<left, item, versions, queue>>

Idle == <<"end", "idle">>
Done == <<"end", "done">>
Failed == <<"end", "failed">>
Ended(p) == at[p][1] = "end"

NoRegisters == [r \in Registers |-> 0]

Init ==
  /\ \E s \in Scenes : active = s.active /\ limit = s.limit /\ rows = s.rows
  /\ links = {} /\ attached = {} /\ matches = {}
  /\ at = [p \in active |-> Idle]
  /\ reg = [p \in active |-> NoRegisters]
  /\ left = [p \in active |-> {}]
  /\ item = [p \in active |-> NoName]
  /\ versions = [w \in Workers \cap active |-> <<>>]
  /\ queue = <<>>
  /\ faults = 0

-----------------------------------------------------------------------------
(* The calls.                                                              *)

Named(kind, key) == {i \in DOMAIN rows[kind] : rows[kind][i].key = key}
WithCcrn(ccrn) == {i \in DOMAIN rows["instance"] : rows["instance"][i].key[1] = ccrn}
First(ids) == CHOOSE i \in ids : \A k \in ids : i <= k
Row(key, ref) == [key |-> key, ref |-> ref]

List(ids, into, hit, miss, err) ==
  [do |-> "list", ids |-> ids, into |-> into, ok |-> hit, miss |-> miss, err |-> err]
Insert(kind, row, valid, into, ok, err) ==
  [do |-> "insert", kind |-> kind, row |-> row, valid |-> valid, into |-> into,
   ok |-> ok, err |-> err]
Update(id, row, ok, err) ==
  [do |-> "update", id |-> id, row |-> row, ok |-> ok, err |-> err]
Relate(table, pair, valid, ok, err) ==
  [do |-> table, pair |-> pair, valid |-> valid, ok |-> ok, err |-> err]

-----------------------------------------------------------------------------
(* The Kubernetes asset scanner.                                           *)

\* Mutant: the group of a service that exists is taken for granted.
ServiceFoundLinked(phase, ok) == ok

ServiceFound(phase, ok) == <<phase, "getSupportGroup">>

\* A lookup that fails is taken for one that finds nothing, a link that fails
\* is only logged, and whoever loses the race for a name gives up.
ProcessService(p, step, svc, grp, phase, ok, err) ==
  CASE step = "getService" ->
         List(Named("service", svc), "service", ServiceFound(phase, ok),
              <<phase, "createService">>, <<phase, "createService">>)
    [] step = "createService" ->
         Insert("service", Row(svc, 0), TRUE, "service", <<phase, "getSupportGroup">>, err)
    [] step = "getSupportGroup" ->
         List(Named("group", grp), "group", <<phase, "addService">>,
              <<phase, "createSupportGroup">>, <<phase, "createSupportGroup">>)
    [] step = "createSupportGroup" ->
         Insert("group", Row(grp, 0), TRUE, "group", <<phase, "addService">>, err)
    [] step = "addService" ->
         Relate("link", <<reg[p]["service"], reg[p]["group"]>>, TRUE, ok, ok)

\* serviceID: that of the side car, if it is known, or the one of the pod.
OwnerId(p) == IF at[p][1] = "sidecarContainer" THEN reg[p]["service"] ELSE reg[p]["pod"]

\* Mutant: an instance stays with the service it was created for.
KeptServiceOld(p) == rows["instance"][reg[p]["instance"]].key[2]

\* An update leaves a service id of 0 out.
KeptService(p) ==
  IF OwnerId(p) = 0 THEN rows["instance"][reg[p]["instance"]].key[2] ELSE OwnerId(p)

CannotCreate == Failed

ProcessContainer(p, phase, step) ==
  LET c == item[p]
      next == <<"group", "next">>
  IN CASE step = "getComponent" ->
            List(Named("component", ComponentOf[c]), "component", <<phase, "getVersion">>,
                 <<phase, "createComponent">>, <<phase, "createComponent">>)
       [] step = "createComponent" ->
            Insert("component", Row(ComponentOf[c], 0), TRUE, "component",
                   <<phase, "getVersion">>, Failed)
       [] step = "getVersion" ->
            List(Named("version", <<reg[p]["component"], VersionOf[c]>>), "version",
                 <<phase, "getInstance">>, <<phase, "createVersion">>,
                 <<phase, "createVersion">>)
       [] step = "createVersion" ->
            Insert("version", Row(<<reg[p]["component"], VersionOf[c]>>, 0), TRUE, "version",
                   <<phase, "getInstance">>, Failed)
       [] step = "getInstance" ->
            List(WithCcrn(InstanceOf[c]), "instance", <<phase, "updateInstance">>,
                 <<phase, "createInstance">>, <<phase, "createInstance">>)
       [] step = "updateInstance" ->
            Update(reg[p]["instance"], Row(<<InstanceOf[c], KeptService(p)>>, reg[p]["version"]),
                   next, Failed)
       [] step = "createInstance" ->
            Insert("instance", Row(<<InstanceOf[c], OwnerId(p)>>, reg[p]["version"]),
                   OwnerId(p) # 0, "instance", next, CannotCreate)

K8sCall(p) ==
  LET g == GroupOf[p]
  IN CASE at[p][1] = "service" ->
            ProcessService(p, at[p][2], ServiceOf[g], SupportGroupOf[g], "service",
                           <<"group", "first">>, <<"group", "next">>)
       [] at[p][1] = "sidecar" ->
            ProcessService(p, at[p][2], SideCar[item[p]][1], SideCar[item[p]][2], "sidecar",
                           <<"sidecarContainer", "getComponent">>, <<"container", "getComponent">>)
       [] OTHER -> ProcessContainer(p, at[p][1], at[p][2])

\* processNamespace keeps the id that ProcessService returned, if it did.
PodService(p) == IF at[p] = <<"group", "first">> THEN reg[p]["service"] ELSE reg[p]["pod"]

\* ProcessPodReplicaSet: the containers come out of a map, in any order; the
\* first error ends the loop.  Without a service the loop runs all the same.
NextContainer(p) ==
  /\ at[p] \in {<<"group", "first">>, <<"group", "next">>}
  /\ \/ \E c \in left[p] :
          /\ item' = [item EXCEPT ![p] = c]
          /\ left' = [left EXCEPT ![p] = @ \ {c}]
          /\ reg' = [reg EXCEPT ![p] = [NoRegisters EXCEPT !["pod"] = PodService(p)]]
          /\ at' = [at EXCEPT ![p] = IF SideCar[c] = NoName THEN <<"container", "getComponent">>
                                     ELSE <<"sidecar", "getService">>]
     \/ /\ left[p] = {}
        /\ at' = [at EXCEPT ![p] = Done]
        /\ reg' = [reg EXCEPT ![p] = NoRegisters]
        /\ UNCHANGED <<item, left>>
  /\ UNCHANGED <<active, limit, database, versions, queue, faults>>

-----------------------------------------------------------------------------
(* The Keppel and the NVD scanner.                                         *)

\* Setup.  A failed lookup is logged by main, which goes on without an id;
\* after a failed creation the answer is used and the process panics.
Setup(p, step, ok) ==
  CASE step = "getRepository" ->
         List(Named("repository", RepositoryOf[p]), "repository", ok, <<"setup", "createRepository">>, ok)
    [] step = "createRepository" ->
         Insert("repository", Row(RepositoryOf[p], 0), TRUE, "repository", ok, Failed)

\* Mutant: an issue that exists is not attached again.
KnownIssueSkipped == <<"report", "next">>

KnownIssue == <<"report", "attach">>

\* Mutant: the variant is left to the NVD scanner.
NewIssueAttached == <<"report", "attach">>

NewIssue == <<"report", "createIssueVariant">>

\* Any error means that this issue is left to the next run; a variant is
\* created only together with its issue.
ProcessReport(w, step) ==
  LET nextCve == <<"report", "next">>
  IN CASE step = "getIssue" ->
            List(Named("issue", item[w]), "issue", KnownIssue,
                 IF item[w] \in CveNames THEN <<"report", "createIssue">> ELSE nextCve, nextCve)
       [] step = "createIssue" ->
            Insert("issue", Row(item[w], Keppel), TRUE, "issue", NewIssue, nextCve)
       [] step = "createIssueVariant" ->
            Insert("variant", Row(item[w], <<reg[w]["issue"], "details">>),
                   reg[Keppel]["repository"] # 0, "variant", <<"report", "attach">>, nextCve)
       [] step = "attach" ->
            Relate("attach", <<Head(versions[w]), reg[w]["issue"]>>, TRUE, nextCve, nextCve)

\* GetAllComponents: the components with their versions, as of now.
GetAllComponents ==
  /\ at[Keppel] = <<"main", "components">>
  /\ queue' = [c \in DOMAIN rows["component"] |->
                 SelectSeq([v \in DOMAIN rows["version"] |-> v],
                           LAMBDA v : rows["version"][v].key[1] = c)]
  /\ at' = [at EXCEPT ![Keppel] = <<"main", "wait">>]
  /\ UNCHANGED <<active, limit, database, reg, left, item, versions, faults>>

\* processConcurrently: a worker receives a component ...
TakeComponent(w) ==
  /\ at[Keppel] = <<"main", "wait">>
  /\ Ended(w) /\ queue # <<>>
  /\ queue' = Tail(queue)
  /\ versions' = [versions EXCEPT ![w] = Head(queue)]
  /\ at' = [at EXCEPT ![w] = <<"component", "next">>]
  /\ UNCHANGED <<active, limit, database, reg, left, item, faults>>

\* ... and gets the report of its next version.  An error of the version's own
\* manifest ends the component, one of a child manifest is ignored.
HandleImageManifests(w) ==
  /\ at[w] = <<"component", "next">>
  /\ \/ /\ versions[w] = <<>>
        /\ at' = [at EXCEPT ![w] = Idle]
        /\ UNCHANGED <<left, versions, faults>>
     \/ /\ versions[w] # <<>>
        /\ left' = [left EXCEPT ![w] = ReportOf[rows["version"][Head(versions[w])].key[2]]]
        /\ at' = [at EXCEPT ![w] = <<"report", "next">>]
        /\ UNCHANGED <<versions, faults>>
     \/ /\ versions[w] # <<>> /\ faults < limit
        /\ faults' = faults + 1
        /\ \E rest \in {<<>>, Tail(versions[w])} : versions' = [versions EXCEPT ![w] = rest]
        /\ UNCHANGED <<left, at>>
  /\ UNCHANGED <<active, limit, database, reg, item, queue>>

NextVulnerability(w) ==
  /\ at[w] = <<"report", "next">>
  /\ \/ \E n \in left[w] :
          /\ item' = [item EXCEPT ![w] = n]
          /\ left' = [left EXCEPT ![w] = @ \ {n}]
          /\ at' = [at EXCEPT ![w] = <<"report", "getIssue">>]
          /\ UNCHANGED versions
     \/ /\ left[w] = {}
        /\ versions' = [versions EXCEPT ![w] = Tail(@)]
        /\ item' = [item EXCEPT ![w] = NoName]
        /\ at' = [at EXCEPT ![w] = <<"component", "next">>]
        /\ UNCHANGED left
  /\ reg' = [reg EXCEPT ![w] = NoRegisters]
  /\ UNCHANGED <<active, limit, database, queue, faults>>

\* wg.Wait: the run is completed whatever the workers met.
KeppelDone ==
  /\ at[Keppel] = <<"main", "wait">>
  /\ queue = <<>> /\ \A w \in Workers \cap active : Ended(w)
  /\ at' = [at EXCEPT ![Keppel] = Done]
  /\ UNCHANGED <<active, limit, database, reg, local, faults>>

\* Process: no lookup, an issue that exists is an error.  The goroutines of a run
\* have different names and share the repository, which they only read: what they
\* do one after the other is what they do at once, but for a crash, which cuts one
\* of them here and up to GOMAXPROCS of them there.  The slots of nvd/main.go:98 are
\* left out; after their two hours nobody gives them any more and those who wait for
\* one do so for ever, which to the catalogue is Crash.
Process(step) ==
  CASE step = "createIssue" ->
         Insert("issue", Row(item[Nvd], Nvd), TRUE, "issue", <<"process", "createIssueVariant">>,
                <<"main", "next">>)
    [] step = "createIssueVariant" ->
         Insert("variant", Row(item[Nvd], <<reg[Nvd]["issue"], "details">>),
                reg[Nvd]["repository"] # 0, "variant", <<"main", "next">>, <<"main", "next">>)

NextCve ==
  /\ at[Nvd] = <<"main", "next">>
  /\ \/ \E n \in left[Nvd] :
          /\ item' = [item EXCEPT ![Nvd] = n]
          /\ left' = [left EXCEPT ![Nvd] = @ \ {n}]
          /\ at' = [at EXCEPT ![Nvd] = <<"process", "createIssue">>]
     \/ /\ left[Nvd] = {}
        /\ at' = [at EXCEPT ![Nvd] = Done]
        /\ UNCHANGED <<item, left>>
  /\ reg' = [reg EXCEPT ![Nvd] = [NoRegisters EXCEPT !["repository"] = reg[Nvd]["repository"]]]
  /\ UNCHANGED <<active, limit, database, versions, queue, faults>>

-----------------------------------------------------------------------------
(* SIEM alerts.                                                            *)

HasVariant(i) == \E v \in DOMAIN rows["variant"] : rows["variant"][v].ref[1] = i

\* Mutant: nothing more to do when the alert's variant is known.
AfterKnownVariantDone == Done

AfterKnownVariant == <<"alert", "createIssueMatch">>

To(step) == <<"alert", step>>

\* Every object is listed and created, or created and listed when that fails:
\* whoever loses a race finds the row of the winner.
GetOrCreateService(a, step) ==
  LET next == IF a.group = NoName THEN To("createInstance") ELSE To("getSupportGroup")
  IN CASE step = "getService" ->
            List(Named("service", a.service), "service", next, To("createService"), Failed)
       [] step = "createService" ->
            Insert("service", Row(a.service, 0), TRUE, "service", next, To("listServices"))
       [] step = "listServices" ->
            List(Named("service", a.service), "service", next, Failed, Failed)

GetOrCreateSupportGroup(a, step) ==
  LET next == To("addService")
  IN CASE step = "getSupportGroup" ->
            List(Named("group", a.group), "group", next, To("createSupportGroup"), Failed)
       [] step = "createSupportGroup" ->
            Insert("group", Row(a.group, 0), TRUE, "group", next, To("listSupportGroups"))
       [] step = "listSupportGroups" ->
            List(Named("group", a.group), "group", next, Failed, Failed)

GetOrCreateComponentInstance(a, step, r) ==
  LET next == IF a.url = NoName THEN To("createIssue") ELSE To("listVariants")
  IN CASE step = "createInstance" ->
            Insert("instance", Row(<<a.instance, r["service"]>>, 0), TRUE, "instance",
                   next, To("listInstances"))
       [] step = "listInstances" ->
            List(WithCcrn(a.instance), "instance", next, Failed, Failed)

\* Not so the repository and the variant: there the loser gives up.  The name of a
\* variant is unique among those that are not deleted, so that the first page of
\* listVariants has all that a name selects.
GetOrCreateIssueAndVariant(a, step, r, creator) ==
  CASE step = "listVariants" ->
         List({v \in Named("variant", a.name) : rows["variant"][v].ref[2] = a.url}, "variant",
              To("getIssue"), To("createIssue"), To("createIssue"))
    [] step = "getIssue" ->
         List({rows["variant"][r["variant"]].ref[1]}, "issue", AfterKnownVariant, Failed, Failed)
    [] step = "createIssue" ->
         Insert("issue", Row(a.name, creator), TRUE, "issue", To("getRepository"), To("listIssues"))
    [] step = "listIssues" ->
         List(Named("issue", a.name), "issue", To("getRepository"), Failed, Failed)
    [] step = "getRepository" ->
         List(Named("repository", a.source), "repository", To("createVariant"),
              To("createRepository"), To("createRepository"))
    [] step = "createRepository" ->
         Insert("repository", Row(a.source, 0), TRUE, "repository", To("createVariant"), Failed)
    [] step = "createVariant" ->
         Insert("variant", Row(a.name, <<r["issue"], a.url>>), TRUE, "variant",
                To("createIssueMatch"), Failed)

\* A match takes over a severity: without a variant the call panics.
CreateIssueMatchIfCI(r) ==
  Relate("match", <<r["instance"], r["issue"]>>, HasVariant(r["issue"]), Done, Failed)

\* CreateSIEMAlert.  AddServiceToSupportGroup gets the two ids in the wrong order.
AlertCall(p) ==
  LET a == AlertOf[p]
      r == reg[p]
      step == at[p][2]
  IN CASE step \in {"getService", "createService", "listServices"} -> GetOrCreateService(a, step)
       [] step \in {"getSupportGroup", "createSupportGroup", "listSupportGroups"} ->
            GetOrCreateSupportGroup(a, step)
       [] step = "addService" ->
            Relate("link", <<r["group"], r["service"]>>,
                   r["group"] \in DOMAIN rows["service"] /\ r["service"] \in DOMAIN rows["group"],
                   To("createInstance"), Failed)
       [] step \in {"createInstance", "listInstances"} -> GetOrCreateComponentInstance(a, step, r)
       [] step = "createIssueMatch" -> CreateIssueMatchIfCI(r)
       [] OTHER -> GetOrCreateIssueAndVariant(a, step, r, p)

-----------------------------------------------------------------------------
(* Making a call.                                                          *)

Calling(p) ==
  /\ at[p][1] \in {"service", "sidecar", "container", "sidecarContainer", "setup", "report", "process", "alert"}
  /\ at[p] # <<"report", "next">>

CallOf(p) ==
  CASE p \in Goroutines -> K8sCall(p)
    [] p \in Workers -> ProcessReport(p, at[p][2])
    [] p \in Alerts -> AlertCall(p)
    [] p = Keppel -> Setup(p, at[p][2], <<"main", "components">>)
    [] p = Nvd /\ at[p][1] = "setup" -> Setup(p, at[p][2], <<"main", "next">>)
    [] OTHER -> Process(at[p][2])

Taken(kind, key, self) == Named(kind, key) \ {self} # {}

\* The local variables end with the function that has them.
Returning(p, next, r) == IF next[1] = "end" THEN [r EXCEPT ![p] = NoRegisters] ELSE r

DoList(p, c) ==
  /\ c.do = "list"
  /\ LET next == IF c.ids = {} THEN c.miss ELSE c.ok
         id == IF c.ids = {} THEN 0 ELSE First(c.ids)
     IN /\ at' = [at EXCEPT ![p] = next]
        /\ reg' = Returning(p, next, [reg EXCEPT ![p][c.into] = id])
  /\ UNCHANGED database

\* Create: the unique indexes and the foreign keys of the table decide.
DoInsert(p, c) ==
  /\ c.do = "insert"
  /\ LET fits == c.valid /\ ~Taken(c.kind, c.row.key, 0)
     IN /\ rows' = IF fits THEN [rows EXCEPT ![c.kind] = Append(@, c.row)] ELSE rows
        /\ reg' = IF fits THEN Returning(p, c.ok, [reg EXCEPT ![p][c.into] = Len(rows[c.kind]) + 1])
                  ELSE Returning(p, c.err, reg)
        /\ at' = [at EXCEPT ![p] = IF fits THEN c.ok ELSE c.err]
  /\ UNCHANGED <<links, attached, matches>>

DoUpdate(p, c) ==
  /\ c.do = "update"
  /\ LET fits == ~Taken("instance", c.row.key, c.id)
     IN /\ rows' = IF fits THEN [rows EXCEPT !["instance"][c.id] = c.row] ELSE rows
        /\ at' = [at EXCEPT ![p] = IF fits THEN c.ok ELSE c.err]
        /\ reg' = Returning(p, IF fits THEN c.ok ELSE c.err, reg)
  /\ UNCHANGED <<links, attached, matches>>

\* AssociateId: a pair that is there already is no error.
DoRelate(p, c) ==
  /\ c.do \in {"link", "attach", "match"}
  /\ links' = IF c.do = "link" /\ c.valid THEN links \cup {c.pair} ELSE links
  /\ attached' = IF c.do = "attach" /\ c.valid THEN attached \cup {c.pair} ELSE attached
  /\ matches' = IF c.do = "match" /\ c.valid THEN matches \cup {c.pair} ELSE matches
  /\ at' = [at EXCEPT ![p] = IF c.valid THEN c.ok ELSE c.err]
  /\ reg' = Returning(p, IF c.valid THEN c.ok ELSE c.err, reg)
  /\ UNCHANGED rows

Answer(p) ==
  /\ Calling(p)
  /\ LET c == CallOf(p) IN DoList(p, c) \/ DoInsert(p, c) \/ DoUpdate(p, c) \/ DoRelate(p, c)
  /\ UNCHANGED <<active, limit, local, faults>>

\* The request fails before it has an effect ...
Fault(p) ==
  /\ Calling(p) /\ faults < limit
  /\ faults' = faults + 1
  /\ at' = [at EXCEPT ![p] = CallOf(p).err]
  /\ reg' = Returning(p, CallOf(p).err, reg)
  /\ UNCHANGED <<active, limit, database, local>>

\* ... or after it: a row is there, and its client does not know.
LostAnswer(p) ==
  /\ Calling(p) /\ faults < limit
  /\ LET c == CallOf(p)
     IN /\ c.do = "insert" /\ c.valid /\ ~Taken(c.kind, c.row.key, 0)
        /\ rows' = [rows EXCEPT ![c.kind] = Append(@, c.row)]
        /\ at' = [at EXCEPT ![p] = c.err]
        /\ reg' = Returning(p, c.err, reg)
  /\ faults' = faults + 1
  /\ UNCHANGED <<active, limit, links, attached, matches, local>>

\* A client stops; Keppel's workers stop with it.
Crash(p) ==
  /\ ~Ended(p) /\ faults < limit
  /\ p \notin Workers
  /\ LET stopped == {p} \cup (IF p = Keppel THEN DOMAIN versions ELSE {})
     IN /\ at' = [q \in active |-> IF q \in stopped THEN Failed ELSE at[q]]
        /\ reg' = [q \in active |-> IF q \in stopped THEN NoRegisters ELSE reg[q]]
        /\ left' = [q \in active |-> IF q \in stopped THEN {} ELSE left[q]]
        /\ item' = [q \in active |-> IF q \in stopped THEN NoName ELSE item[q]]
        /\ versions' = [w \in DOMAIN versions |-> IF p = Keppel THEN <<>> ELSE versions[w]]
        /\ queue' = IF p = Keppel THEN <<>> ELSE queue
  /\ faults' = faults + 1
  /\ UNCHANGED <<active, limit, database>>

\* A run of the CronJob, or an alert; each may come again.
Start(p) ==
  /\ p \notin Workers
  /\ Ended(p)
  /\ reg' = [reg EXCEPT ![p] = NoRegisters]
  /\ left' = [left EXCEPT ![p] = CASE p \in Goroutines -> ContainersOf[GroupOf[p]]
                                   [] p = Nvd -> NvdCves
                                   [] OTHER -> {}]
  /\ item' = [item EXCEPT ![p] = NoName]
  /\ at' = [at EXCEPT ![p] = CASE p \in Goroutines -> <<"service", "getService">>
                               [] p \in Alerts -> <<"alert", "getService">>
                               [] OTHER -> <<"setup", "getRepository">>]
  /\ UNCHANGED <<active, limit, database, versions, queue, faults>>

Progress(p) ==
  \/ Answer(p)
  \/ p \in Goroutines /\ NextContainer(p)
  \/ p \in Workers /\ (HandleImageManifests(p) \/ NextVulnerability(p))
  \/ p = Keppel /\ (GetAllComponents \/ KeppelDone)
  \/ p = Nvd /\ NextCve

Go(p) ==
  /\ p \in active
  /\ Progress(p) \/ Start(p) \/ (p \in Workers /\ TakeComponent(p))

Next == \E p \in active : Go(p) \/ Fault(p) \/ LostAnswer(p) \/ Crash(p)

\* Requests are answered, and the scanners are run again and again; an alert or
\* the two days of the NVD scanner need not come again.
Fairness == \A p \in Goroutines \cup Workers \cup {Keppel} : WF_vars(Go(p))

Spec == Init /\ [][Next]_vars /\ Fairness

-----------------------------------------------------------------------------
(* Properties.                                                             *)

CreatingVariant(i) ==
  \E p \in active \cap (Workers \cup {Nvd}) : at[p][2] = "createIssueVariant" /\ reg[p]["issue"] = i

\* An issue that the Keppel or the NVD scanner brings in gets a variant, however
\* the two, several workers and alerts of the same name interleave, unless a
\* request fails: without a variant an issue has no severity and is never
\* matched, and no later run makes up for it.
VariantFollowsIssue ==
  faults = 0 =>
    \A i \in DOMAIN rows["issue"] :
      rows["issue"][i].ref \in {Keppel, Nvd} => HasVariant(i) \/ CreatingVariant(i)

ReportedOwners == {<<ServiceOf[g], SupportGroupOf[g]>> : g \in DOMAIN ServiceOf}
                    \cup ({SideCar[c] : c \in DOMAIN SideCar} \ {NoName})

Deployed(c) ==
  \E i \in WithCcrn(InstanceOf[c]), v \in DOMAIN rows["version"] :
    /\ rows["instance"][i].ref = v
    /\ \E d \in DOMAIN InstanceOf :
         /\ InstanceOf[d] = InstanceOf[c]
         /\ rows["version"][v].key[2] = VersionOf[d]
         /\ rows["component"][rows["version"][v].key[1]].key = ComponentOf[d]

\* A goroutine that ends without an error has entered every container of its
\* group with an image the group runs, and no container is entered under a
\* service that is not linked to its support group, even when two goroutines
\* race for the names and one of them falls back to another service.
ContainersPlaced ==
  /\ \A p \in Goroutines \cap active :
       at[p] = Done => \A c \in ContainersOf[GroupOf[p]] : Deployed(c)
  /\ faults = 0 =>
       \A c \in DOMAIN InstanceOf : \A i \in WithCcrn(InstanceOf[c]) :
         \E l \in links :
           /\ l[1] = rows["instance"][i].key[2]
           /\ <<rows["service"][l[1]].key, rows["group"][l[2]].key>> \in ReportedOwners

\* An alert that is answered is matched to its instance, under an issue of its
\* name that has the alert's variant, whoever else created parts of it.
AlertRecorded ==
  \A p \in Alerts \cap active :
    at[p] = Done =>
      \E m \in matches, v \in Named("variant", AlertOf[p].name) :
        /\ rows["instance"][m[1]].key[1] = AlertOf[p].instance
        /\ rows["issue"][m[2]].key = AlertOf[p].name
        /\ rows["variant"][v].ref[1] = m[2]
        /\ AlertOf[p].url # NoName => rows["variant"][v].ref[2] = AlertOf[p].url

HasVersion(name) == \E v \in DOMAIN rows["version"] : rows["version"][v].key[2] = name
IsAttached(name, issue) ==
  \E l \in attached : rows["version"][l[1]].key[2] = name /\ rows["issue"][l[2]].key = issue

\* What the report of a known version lists is attached to it in the end: lost
\* races, failed requests and crashes of one run are made up for by a later one.
EventuallyAttached ==
  \A name \in DOMAIN ReportOf : \A issue \in ReportOf[name] \cap CveNames :
    (Keppel \in active /\ HasVersion(name)) ~> IsAttached(name, issue)

Owner(p, c) == IF SideCar[c] = NoName THEN ServiceOf[GroupOf[p]] ELSE SideCar[c][1]
Alone(p) == p \in active /\ \A q \in (Goroutines \cap active) \ {p} : GroupOf[q] # GroupOf[p]
Settled(p) ==
  \A c \in ContainersOf[GroupOf[p]] :
    /\ Deployed(c)
    /\ \A i \in WithCcrn(InstanceOf[c]) :
         rows["service"][rows["instance"][i].key[2]].key = Owner(p, c)

\* If no request fails and runs do not overlap, every container ends up, once,
\* with the service that owns it: a fallback after a lost race does not last.
EventuallyOwned ==
  \A p \in Goroutines : (Alone(p) /\ [](faults = 0)) => <>[]Settled(p)
-----------------------------------------------------------------------------
(* The inductive invariant behind the three invariants above: what the     *)
(* calls a client has made establish, and no other client takes back.      *)

Is(kind, id, key) == id \in DOMAIN rows[kind] /\ rows[kind][id].key = key

\* An id of a service stands for an owner and is linked to its support group.
Linked(id, owner) ==
  \E l \in links : l[1] = id /\ Is("service", l[1], owner[1]) /\ Is("group", l[2], owner[2])

IsTable(t) == t \in Seq({t[i] : i \in DOMAIN t})

\* A variant belongs to the issue of its name, and a name to one issue.
TablesOK ==
  /\ DOMAIN rows = Kinds /\ rows = [k \in Kinds |-> rows[k]]
  /\ \A k \in Kinds : IsTable(rows[k])
  /\ \A i, j \in DOMAIN rows["issue"] : rows["issue"][i].key = rows["issue"][j].key => i = j
  /\ \A v \in DOMAIN rows["variant"] :
       Is("issue", rows["variant"][v].ref[1], rows["variant"][v].key)

\* The instances of containers have the owners that were reported.
OwnersOK ==
  faults = 0 =>
    \A c \in DOMAIN InstanceOf : \A i \in WithCcrn(InstanceOf[c]) :
      \E owner \in ReportedOwners : Linked(rows["instance"][i].key[2], owner)

\* Deployed, with the version and the component among the rows.
RunsImage(c) ==
  \E i \in WithCcrn(InstanceOf[c]), d \in DOMAIN InstanceOf, k \in DOMAIN rows["component"] :
    /\ InstanceOf[d] = InstanceOf[c]
    /\ Is("version", rows["instance"][i].ref, <<k, VersionOf[d]>>)
    /\ rows["component"][k].key = ComponentOf[d]

ServiceSteps == {"getService", "createService", "getSupportGroup", "createSupportGroup", "addService"}
ContainerSteps == {"getComponent", "createComponent", "getVersion", "createVersion",
                   "getInstance", "updateInstance", "createInstance"}
InContainer == {"container", "sidecarContainer"}
Ends == {Idle, Done, Failed}

PodOwner(p) == <<ServiceOf[GroupOf[p]], SupportGroupOf[GroupOf[p]]>>
OwnerSought(p) == IF at[p][1] = "service" THEN PodOwner(p) ELSE SideCar[item[p]]

\* What a goroutine has found or created, by the place of its next request ...
ServiceKnown(p) ==
  at[p][1] \in {"service", "sidecar"} =>
    /\ at[p][2] \in {"getSupportGroup", "createSupportGroup", "addService"} =>
         Is("service", reg[p]["service"], OwnerSought(p)[1])
    /\ at[p][2] = "addService" => Is("group", reg[p]["group"], OwnerSought(p)[2])

ImageKnown(p) ==
  at[p][1] \in InContainer =>
    /\ at[p][2] \notin {"getComponent", "createComponent"} =>
         Is("component", reg[p]["component"], ComponentOf[item[p]])
    /\ at[p][2] \in {"getInstance", "updateInstance", "createInstance"} =>
         Is("version", reg[p]["version"], <<reg[p]["component"], VersionOf[item[p]]>>)
    /\ at[p][2] = "updateInstance" => reg[p]["instance"] \in WithCcrn(InstanceOf[item[p]])

\* ... which services it may enter containers under ...
OwnerKnown(p) ==
  /\ at[p][1] = "service" => reg[p]["pod"] = 0
  /\ faults = 0 =>
       /\ at[p] = <<"group", "first">> => Linked(reg[p]["service"], PodOwner(p))
       /\ at[p][1] \in InContainer \cup {"sidecar"} \/ at[p] = <<"group", "next">> =>
            reg[p]["pod"] = 0 \/ Linked(reg[p]["pod"], PodOwner(p))
       /\ at[p][1] = "sidecarContainer" => Linked(reg[p]["service"], SideCar[item[p]])

\* ... and which containers it has entered.
Entered(p) ==
  LET all == ContainersOf[GroupOf[p]]
  IN /\ at[p][1] = "service" => left[p] = all
     /\ left[p] \subseteq all
     /\ at[p][1] = "group" => \A c \in all \ left[p] : RunsImage(c)
     /\ at[p][1] \in InContainer \cup {"sidecar"} =>
          item[p] \in all /\ \A c \in all \ (left[p] \cup {item[p]}) : RunsImage(c)
     /\ at[p][1] \in {"sidecar", "sidecarContainer"} => SideCar[item[p]] # NoName
     /\ at[p] = Done => \A c \in all : RunsImage(c)

K8sOK(p) ==
  /\ at[p] \in Ends \cup ({"group"} \X {"first", "next"}) \cup ({"service", "sidecar"} \X ServiceSteps)
                    \cup (InContainer \X ContainerSteps)
  /\ ServiceKnown(p) /\ ImageKnown(p) /\ OwnerKnown(p) /\ Entered(p)

\* A worker that reports knows its issue, and Keppel waits with its repository.
IssueKnown(p) == at[p][2] = "createIssueVariant" => Is("issue", reg[p]["issue"], item[p])

WorkerOK(w) ==
  /\ at[w] \in Ends \cup {<<"component", "next">>}
               \cup ({"report"} \X {"next", "getIssue", "createIssue", "createIssueVariant", "attach"})
  /\ IssueKnown(w)
  /\ faults = 0 /\ ~Ended(w) => Keppel \in active /\ at[Keppel] = <<"main", "wait">>

KeppelOK ==
  /\ at[Keppel] \in Ends \cup ({"setup"} \X {"getRepository", "createRepository"})
                    \cup ({"main"} \X {"components", "wait"})
  /\ faults = 0 /\ at[Keppel][1] = "main" => reg[Keppel]["repository"] # 0

NvdOK ==
  /\ at[Nvd] \in Ends \cup ({"setup"} \X {"getRepository", "createRepository"})
                 \cup {<<"main", "next">>} \cup ({"process"} \X {"createIssue", "createIssueVariant"})
  /\ IssueKnown(Nvd)
  /\ faults = 0 /\ at[Nvd][1] \in {"main", "process"} => reg[Nvd]["repository"] # 0

\* An alert has the instance before the issue, and the variant before the match.
OwnVariant(p, v, i) ==
  /\ Is("variant", v, AlertOf[p].name)
  /\ rows["variant"][v].ref[1] = i
  /\ AlertOf[p].url # NoName => rows["variant"][v].ref[2] = AlertOf[p].url

AlertOwnerSteps == {"getService", "createService", "listServices", "getSupportGroup",
                    "createSupportGroup", "listSupportGroups", "addService"}
AlertInstanceSteps == {"createInstance", "listInstances"}
AlertIssueSteps == {"listVariants", "getIssue", "createIssue", "listIssues"}
AlertVariantSteps == {"getRepository", "createRepository", "createVariant"}

AlertOK(p) ==
  /\ at[p] \in Ends \cup ({"alert"} \X (AlertOwnerSteps \cup AlertInstanceSteps \cup AlertIssueSteps
                                         \cup AlertVariantSteps \cup {"createIssueMatch"}))
  /\ at[p][2] \in AlertIssueSteps \cup AlertVariantSteps \cup {"createIssueMatch"} =>
       reg[p]["instance"] \in WithCcrn(AlertOf[p].instance)
  /\ at[p][2] = "getIssue" => 
       /\ Is("variant", reg[p]["variant"], AlertOf[p].name)
       /\ rows["variant"][reg[p]["variant"]].ref[2] = AlertOf[p].url
  /\ at[p][2] \in AlertVariantSteps => Is("issue", reg[p]["issue"], AlertOf[p].name)
  /\ at[p][2] = "createIssueMatch" => \E v \in DOMAIN rows["variant"] : OwnVariant(p, v, reg[p]["issue"])
  /\ at[p] = Done => \E m \in matches : /\ m[1] \in WithCcrn(AlertOf[p].instance)
                                        /\ \E v \in DOMAIN rows["variant"] : OwnVariant(p, v, m[2])

\* The variables have their shapes: local variables of the processes under way.
LocalsOK ==
  /\ active \subseteq Processes /\ faults \in Nat
  /\ Workers \cap active # {} => Keppel \in active
  /\ at = [p \in active |-> at[p]]
  /\ reg \in [active -> [Registers -> Nat]]
  /\ left = [p \in active |-> left[p]]
  /\ item = [p \in active |-> item[p]]

ClientOK(p) ==
  /\ p \in Goroutines => K8sOK(p)
  /\ p \in Workers => WorkerOK(p)
  /\ p \in Alerts => AlertOK(p)
  /\ p = Keppel => KeppelOK
  /\ p = Nvd => NvdOK

ReportingInv ==
  /\ LocalsOK /\ TablesOK /\ OwnersOK
  /\ \A p \in active : ClientOK(p)
  /\ VariantFollowsIssue
=============================================================================
