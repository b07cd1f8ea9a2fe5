----------------------------- MODULE Catalogue -----------------------------
(***************************************************************************)
(* The catalogue behind the mutations of the API: users, support groups,   *)
(* services, components with their versions and instances, issues, issue   *)
(* variants, issue repositories and issue matches; the links between them  *)
(* in the database; and the tuples of the OpenFGA store that event         *)
(* handlers write after a request has changed the database.                *)
(*                                                                         *)
(* A relation <<a, relation, b>> is a row of a link table, a foreign key   *)
(* or a tuple, always in the direction of the store's model (user, then    *)
(* relation, then object).  A request changes the database and leaves one  *)
(* event behind; a worker of the event registry runs the handlers of the   *)
(* event, one call of the store at a time.  Because a request may be       *)
(* delayed between its write and PushEvent, and a worker before the first  *)
(* call, the events of several requests are handled in any order, and as   *)
(* the registry has four workers any bounded number of them interleave.    *)
(* The registry itself is the subject of EventRegistry, the matches that   *)
(* two of the handlers create are the subject of IssueMatching.            *)
(***************************************************************************)
EXTENDS Naturals, Sequences, FiniteSets

CONSTANTS Users, SupportGroups, Services, Components, ComponentVersions,
          ComponentInstances, Issues, IssueVariants, IssueRepositories,
          IssueMatches,
          Names,               \* values of the unique columns
          DefaultRepositoryName,   \* configured
          Nobody,              \* id 0: an optional reference that is not given
          Seed, SeedLinks,     \* the named objects and the links Init starts with
          PageSize,            \* what one read answers: 50 tuples, 1000 rows
          MaxOps, MaxFailures  \* bounds on requests; on failures, restarts and cut reads

Kinds == {Users, SupportGroups, Services, Components, ComponentVersions,
          ComponentInstances, Issues, IssueVariants, IssueRepositories, IssueMatches}
Objects == UNION Kinds
KindOf(o) == CHOOSE k \in Kinds : o \in k

ASSUME SeedAssumption == /\ DOMAIN Seed \subseteq Objects
                         /\ Nobody \notin Objects
                         /\ DefaultRepositoryName \in Names
                         /\ PageSize \in Nat \ {0}
                         /\ MaxOps \in Nat /\ MaxFailures \in Nat

\* An object is of one kind.
ASSUME KindsDisjoint ==
  LET kind == <<Users, SupportGroups, Services, Components, ComponentVersions,
                ComponentInstances, Issues, IssueVariants, IssueRepositories, IssueMatches>>
  IN \A k, m \in 1..10 : k # m => kind[k] \cap kind[m] = {}

\* The events of the requests that made the catalogue of Init are handled.
ASSUME SeedLinked ==
  \A r \in DOMAIN Seed \cap IssueRepositories, s \in DOMAIN Seed \cap Services :
    Seed[r] = DefaultRepositoryName => <<r, "issue_repository", s>> \in SeedLinks

VARIABLES
  live,       \* rows that are not deleted
  gone,       \* rows with deleted_at set
  name,       \* the unique columns of a row
  links,      \* link tables and foreign keys
  past,       \* every link the database ever held
  was,        \* for an instance, the foreign keys <<service, version>> it ever had
  tuples,     \* the OpenFGA store
  tasks,      \* events in flight, each with the next call of its handlers
  cacheOn,    \* whether listings go through the cache
  disturbed,  \* objects whose events overlapped, were lost, met an error or a cut read
  unlinked,   \* repository links that were removed on request
  ops, failures

vars == <<live, gone, name, links, past, was, tuples, tasks, cacheOn, disturbed,
          unlinked, ops, failures>>

rows == live \cup gone
Role == "role"        \* the role of the creating user, role:<id>
Tuple(a, relation, b) == <<a, relation, b>>

\* The relations of openfga/model/model.fga that the handlers write between two objects.
RelationNames == {"owner", "member", "support_group", "related_service", "component_instance",
                  "component_version"}
Relations ==
  (Users \X {"owner"} \X Services) \cup (Users \X {"member"} \X SupportGroups)
    \cup (SupportGroups \X {"support_group"} \X Services)
    \cup (Services \X {"related_service"} \X ComponentInstances)
    \cup (ComponentInstances \X {"component_instance"} \X (ComponentVersions \cup IssueMatches))
    \cup (ComponentVersions \X {"component_version"} \X Components)

\* The rows of Init: a link is between rows of its kinds, an instance has its one service
\* and at most one version; a role is none of the objects and id 0 no name of a relation.
ASSUME SeedRelations ==
  /\ Role \notin Objects /\ Nobody \notin RelationNames
  /\ \A l \in SeedLinks : l[2] \in RelationNames => l \in Relations /\ {l[1], l[3]} \subseteq DOMAIN Seed
  /\ \A i \in DOMAIN Seed \cap ComponentInstances :
       /\ \E s \in Services : Tuple(s, "related_service", i) \in SeedLinks
       /\ \A s, z \in Services : {Tuple(s, "related_service", i), Tuple(z, "related_service", i)}
                                   \subseteq SeedLinks => s = z
       /\ \A v, z \in ComponentVersions : {Tuple(i, "component_instance", v), Tuple(i, "component_instance", z)}
                                            \subseteq SeedLinks => v = z

-----------------------------------------------------------------------------
(***************************************************************************)
(* The calls of the store's client.  A handler is a sequence of steps; on  *)
(* an error the next "lost" steps are left out and the handler goes on.    *)
(***************************************************************************)
Step(do, of, skip, lost) == [do |-> do, of |-> of, skip |-> skip, lost |-> lost]

\* The tuples that a filter selects; the read of them may be cut (CutRead).
ListRelations(user, relation, object, kind) ==
  {t \in tuples : /\ user # Nobody => t[1] = user
                  /\ relation # Nobody => t[2] = relation
                  /\ object # Nobody => t[3] = object
                  /\ t[3] \in kind \cup {Nobody}}

AddRelation(t) == <<Step("add", {t}, 0, 0)>>
AddRelationBulk(ts) == <<Step("add", ts, 0, 0)>>
RemoveRelation(t) == <<Step("find", tuples \cap {t}, 0, 1), Step("drop", {}, 0, 0)>>
RemoveRelationBulk(ts) == <<Step("find", ts, 0, 1), Step("drop", {}, 0, 0)>>
UpdateRelation(t, ts) == <<Step("find", ts, 0, 2), Step("drop", {}, 0, 1)>> \o AddRelation(t)
\* ListRelations first, and the following steps only if the tuple is missing.
UnlessHeld(t, steps, after) ==
  <<Step("unless", {t}, Len(steps), Len(steps) + after)>> \o steps

Created(o) == AddRelationBulk({Tuple(Role, "role", o)})
AsObject(o) == ListRelations(Nobody, Nobody, o, KindOf(o))
AsUser(o, kind) == ListRelations(o, Nobody, Nobody, kind)

-----------------------------------------------------------------------------
(* The handlers; e.on holds the objects of the event. *)

OnServiceCreate(e) ==
  <<Step("list", {r \in live \cap IssueRepositories : name[r] = DefaultRepositoryName}, 0, 1),
    Step("link", {e.on[1]}, 0, 0)>>
OnServiceCreateAuthz(e) == Created(e.on[1])
\* Mutant of OnServiceDeleteAuthz.
OnServiceDeleteAuthzObjectOnly(e) == RemoveRelationBulk(AsObject(e.on[1]))
OnServiceDeleteAuthz(e) ==
  RemoveRelationBulk(AsObject(e.on[1]) \cup AsUser(e.on[1], ComponentInstances))
OnAddOwnerToService(e) == AddRelationBulk({Tuple(e.on[2], "owner", e.on[1])})
OnRemoveOwnerFromService(e) == RemoveRelation(Tuple(e.on[2], "owner", e.on[1]))

OnSupportGroupCreateAuthz(e) == Created(e.on[1])
OnSupportGroupDeleteAuthz(e) ==
  RemoveRelation(Tuple(e.on[1], "support_group", e.on[1]))
    \o RemoveRelationBulk(AsObject(e.on[1]) \cup AsUser(e.on[1], Services)
                                           \cup AsUser(e.on[1], SupportGroups))
\* Mutant of OnAddServiceToSupportGroup.
OnAddServiceToSupportGroupSwapped(e) == AddRelationBulk({Tuple(e.on[2], "support_group", e.on[1])})
OnAddServiceToSupportGroup(e) == AddRelationBulk({Tuple(e.on[1], "support_group", e.on[2])})
OnRemoveServiceFromSupportGroup(e) == RemoveRelation(Tuple(e.on[1], "support_group", e.on[2]))
OnAddUserToSupportGroup(e) == AddRelationBulk({Tuple(e.on[2], "member", e.on[1])})
OnRemoveUserFromSupportGroup(e) == RemoveRelation(Tuple(e.on[2], "member", e.on[1]))

OnUserDeleteAuthz(e) ==
  RemoveRelationBulk(AsObject(e.on[1]) \cup UNION {AsUser(e.on[1], k) : k \in
    {Services, Components, ComponentVersions, ComponentInstances, IssueMatches, SupportGroups}})

OnComponentCreateAuthz(e) == Created(e.on[1])
OnComponentDeleteAuthz(e) == RemoveRelationBulk(AsObject(e.on[1]))

OnComponentVersionCreateAuthz(e) == Created(e.on[1])
OnComponentVersionUpdateAuthz(e) ==
  UpdateRelation(Tuple(e.on[1], "component_version", e.on[2]),
                 ListRelations(e.on[1], "component_version", Nobody, Components))
OnComponentVersionDeleteAuthz(e) ==
  RemoveRelationBulk(AsObject(e.on[1]) \cup AsUser(e.on[1], Components))

OnComponentInstanceCreateAuthz(e) ==
  AddRelationBulk({Tuple(Role, "role", e.on[1]),
                   Tuple(e.on[2], "related_service", e.on[1]),
                   Tuple(e.on[1], "component_instance", e.on[3])})
\* Each relation is looked up first and replaced only if it is not there yet.
OnComponentInstanceUpdateAuthz(e) ==
  LET service == Tuple(e.on[2], "related_service", e.on[1])
      version == Tuple(e.on[1], "component_instance", e.on[3])
      second  == IF e.on[3] = Nobody THEN <<>>
                 ELSE UnlessHeld(version, UpdateRelation(version,
                        ListRelations(e.on[1], "component_instance", Nobody, ComponentVersions)), 0)
  IN UnlessHeld(service, UpdateRelation(service,
       ListRelations(Nobody, "related_service", e.on[1], ComponentInstances)), Len(second)) \o second
OnComponentInstanceDeleteAuthz(e) ==
  RemoveRelationBulk(AsObject(e.on[1]) \cup AsUser(e.on[1], ComponentVersions)
                                      \cup AsUser(e.on[1], IssueMatches))

OnIssueMatchCreateAuthz(e) == Created(e.on[1])
\* Not UpdateRelation: the new tuple is added even when the removal failed.
OnIssueMatchUpdateAuthz(e) ==
  RemoveRelationBulk(ListRelations(Nobody, "component_instance", e.on[1], IssueMatches))
    \o AddRelationBulk({Tuple(e.on[2], "component_instance", e.on[1])})
OnIssueMatchDeleteAuthz(e) == RemoveRelationBulk(AsObject(e.on[1]))

\* Mutant of OnIssueRepositoryCreate.
OnIssueRepositoryCreateNothing(e) == <<>>
\* The services are rows of one listing, of which CutRead may see the first page only.
OnIssueRepositoryCreate(e) == <<Step("list", live \cap Services, 0, 1),
                                Step("link", {e.on[1]}, 0, 0)>>

SubscribeHandlers(e) ==
  CASE e.name = "CreateService" -> OnServiceCreate(e)
    [] e.name = "CreateIssueRepository" -> OnIssueRepositoryCreate(e)
    [] OTHER -> <<>>

SubscribeAuthzHandlers(e) ==
  CASE e.name = "CreateService" -> OnServiceCreateAuthz(e)
    [] e.name = "CreateComponentInstance" -> OnComponentInstanceCreateAuthz(e)
    [] e.name = "CreateComponentVersion" -> OnComponentVersionCreateAuthz(e)
    [] e.name = "CreateSupportGroup" -> OnSupportGroupCreateAuthz(e)
    [] e.name = "CreateComponent" -> OnComponentCreateAuthz(e)
    [] e.name = "CreateIssueMatch" -> OnIssueMatchCreateAuthz(e)
    [] e.name = "DeleteUser" -> OnUserDeleteAuthz(e)
    [] e.name = "DeleteService" -> OnServiceDeleteAuthz(e)
    [] e.name = "DeleteComponentInstance" -> OnComponentInstanceDeleteAuthz(e)
    [] e.name = "DeleteComponentVersion" -> OnComponentVersionDeleteAuthz(e)
    [] e.name = "DeleteSupportGroup" -> OnSupportGroupDeleteAuthz(e)
    [] e.name = "DeleteComponent" -> OnComponentDeleteAuthz(e)
    [] e.name = "DeleteIssueMatch" -> OnIssueMatchDeleteAuthz(e)
    [] e.name = "UpdateComponentVersion" -> OnComponentVersionUpdateAuthz(e)
    [] e.name = "UpdateIssueMatch" -> OnIssueMatchUpdateAuthz(e)
    [] e.name = "UpdateComponentInstance" -> OnComponentInstanceUpdateAuthz(e)
    [] e.name = "AddServiceToSupportGroup" -> OnAddServiceToSupportGroup(e)
    [] e.name = "RemoveServiceFromSupportGroup" -> OnRemoveServiceFromSupportGroup(e)
    [] e.name = "AddUserToSupportGroup" -> OnAddUserToSupportGroup(e)
    [] e.name = "RemoveUserFromSupportGroup" -> OnRemoveUserFromSupportGroup(e)
    [] e.name = "AddOwnerToService" -> OnAddOwnerToService(e)
    [] e.name = "RemoveOwnerFromService" -> OnRemoveOwnerFromService(e)
    [] OTHER -> <<>>

Handlers(e) == SubscribeHandlers(e) \o SubscribeAuthzHandlers(e)

Touched(e) == {e.on[k] : k \in DOMAIN e.on} \ {Nobody}
InFlight == UNION {Touched(tasks[k].event) : k \in DOMAIN tasks}

-----------------------------------------------------------------------------
(***************************************************************************)
(* Requests.  Push leaves the event behind; an event nobody subscribed to  *)
(* has no effect and is not kept.  An event that meets another one in      *)
(* flight on the same object, that mentions a deleted object or that lies  *)
(* about the database disturbs the objects it touches.                     *)
(***************************************************************************)
Request == ops < MaxOps /\ ops' = ops + 1 /\ UNCHANGED <<tuples, cacheOn, failures>>

Overlapping(e) == {tasks[k].event : k \in {j \in DOMAIN tasks :
                     Touched(tasks[j].event) \cap Touched(e) # {}}}

PushEvent(event, on, faithful) ==
  LET e == [name |-> event, on |-> on]
  IN IF Handlers(e) = <<>> THEN UNCHANGED <<tasks, disturbed>>
     ELSE /\ tasks' = Append(tasks, [event |-> e, pc |-> 1, found |-> {}])
          /\ disturbed' = disturbed \cup
               (IF Overlapping(e) # {} \/ ~faithful \/ Touched(e) \cap gone # {}
                THEN Touched(e) \cup UNION {Touched(f) : f \in Overlapping(e)} ELSE {})

NoEvent(on) == tasks' = tasks /\ disturbed' = disturbed \cup on

\* The unique columns: generated columns that are NULL for deleted rows, but
\* for support groups the plain name.
Holders(k, n) == {p \in k \cap (IF k = SupportGroups THEN rows ELSE live) :
                    n # Nobody /\ name[p] = n}

\* Create of db_object.go: the row, its unique columns and its foreign keys.
Insert(o, n, keys) ==
  /\ o \notin rows /\ Holders(KindOf(o), n) = {}
  /\ live' = live \cup {o} /\ name' = [name EXCEPT ![o] = n]
  /\ links' = links \cup keys /\ past' = past \cup keys /\ UNCHANGED gone

\* Update of db_object.go: a column whose new value is 0 keeps its value.
SetKeys(old, new) == /\ links' = IF new = {} THEN links ELSE (links \ old) \cup new
                     /\ past' = past \cup new /\ UNCHANGED <<live, gone, name>>

\* Delete of db_object.go sets deleted_at; links to the row stay.
SoftDelete(o) == /\ o \in rows
                 /\ live' = live \ {o} /\ gone' = gone \cup {o}
                 /\ UNCHANGED <<name, links, past>>

\* AssociateId, where a duplicate is no error, and DissociateId.
AssociateId(l) == /\ links' = links \cup {l} /\ past' = past \cup {l}
                  /\ UNCHANGED <<live, gone, name>>
DissociateId(l) == links' = links \ {l} /\ UNCHANGED <<live, gone, name, past>>

\* The shapes of the handlers.  A create lists by name first, but that list is
\* scoped to what the caller may see and may come from the cache, so it may
\* be empty whatever the table holds: the unique columns decide.
Create(event, o, n, keys) ==
  /\ Request /\ Insert(o, n, keys) /\ PushEvent(event, <<o>>, TRUE)
  /\ UNCHANGED <<was, unlinked>>

\* An update of unique columns.  Nobody subscribes to its event, so a
\* repository renamed to the default name is not linked to the services.
Rename(o, n) == /\ Request /\ o \in live /\ n # name[o]
                /\ Holders(KindOf(o), n) = {}
                /\ name' = [name EXCEPT ![o] = n]
                /\ disturbed' = disturbed \cup ({o} \cap IssueRepositories)
                /\ UNCHANGED <<live, gone, links, past, was, tasks, unlinked>>

Delete(event, o) == /\ Request /\ SoftDelete(o) /\ PushEvent(event, <<o>>, TRUE)
                    /\ UNCHANGED <<was, unlinked>>

Link(event, l, on) == /\ Request /\ {l[1], l[3]} \subseteq rows
                     /\ AssociateId(l) /\ PushEvent(event, on, TRUE) /\ UNCHANGED <<was, unlinked>>
Unlink(event, l, on) == /\ Request /\ {l[1], l[3]} \subseteq rows
                       /\ DissociateId(l) /\ PushEvent(event, on, TRUE) /\ UNCHANGED was
                       /\ unlinked' = unlinked \cup {l}

-----------------------------------------------------------------------------
(* The handlers of the application, entity by entity. *)

CreateUser(u, n) == Create("CreateUser", u, n, {})
UpdateUser(u, n) == Rename(u, n)
DeleteUser(u) == Delete("DeleteUser", u)

CreateSupportGroup(g, n) == Create("CreateSupportGroup", g, n, {})
UpdateSupportGroup(g, n) == Rename(g, n)
DeleteSupportGroup(g) == Delete("DeleteSupportGroup", g)
AddServiceToSupportGroup(g, s) ==
  Link("AddServiceToSupportGroup", Tuple(g, "support_group", s), <<g, s>>)
RemoveServiceFromSupportGroup(g, s) ==
  Unlink("RemoveServiceFromSupportGroup", Tuple(g, "support_group", s), <<g, s>>)
AddUserToSupportGroup(g, u) ==
  Link("AddUserToSupportGroup", Tuple(u, "member", g), <<g, u>>)
RemoveUserFromSupportGroup(g, u) ==
  Unlink("RemoveUserFromSupportGroup", Tuple(u, "member", g), <<g, u>>)

CreateService(s, n) == Create("CreateService", s, n, {})
UpdateService(s, n) == Rename(s, n)
DeleteService(s) == Delete("DeleteService", s)
AddOwnerToService(s, u) == Link("AddOwnerToService", Tuple(u, "owner", s), <<s, u>>)
RemoveOwnerFromService(s, u) == Unlink("RemoveOwnerFromService", Tuple(u, "owner", s), <<s, u>>)
AddIssueRepositoryToService(s, r) ==
  Link("AddIssueRepositoryToService", Tuple(r, "issue_repository", s), <<s, r>>)
RemoveIssueRepositoryFromService(s, r) ==
  Unlink("RemoveIssueRepositoryFromService", Tuple(r, "issue_repository", s), <<s, r>>)

CreateComponent(c, n) == Create("CreateComponent", c, n, {})
UpdateComponent(c, n) == Rename(c, n)
DeleteComponent(c) == Delete("DeleteComponent", c)

\* No list first: a duplicate is the error of the insert.
CreateComponentVersion(v, n, c) ==
  /\ c \in rows
  /\ Create("CreateComponentVersion", v, n, {Tuple(v, "component_version", c)})

\* The event carries the input, where the component may be missing; it is
\* pushed only if a list by id, scoped to what the caller may see, finds the row.
UpdateComponentVersion(v, c, found) ==
  LET old == {l \in links : l[1] = v /\ l[2] = "component_version"}
  IN /\ Request /\ v \in live /\ c \in rows \cup {Nobody}
     /\ SetKeys(old, {Tuple(v, "component_version", c)} \ {Tuple(v, "component_version", Nobody)})
     /\ IF found THEN PushEvent("UpdateComponentVersion", <<v, c>>, TRUE) ELSE NoEvent({v})
     /\ UNCHANGED <<was, unlinked>>
DeleteComponentVersion(v) == Delete("DeleteComponentVersion", v)

ServiceKey(i) == CHOOSE s \in Services : Tuple(s, "related_service", i) \in links
VersionKey(i) == IF \E v \in ComponentVersions : Tuple(i, "component_instance", v) \in links
                 THEN CHOOSE v \in ComponentVersions : Tuple(i, "component_instance", v) \in links
                 ELSE Nobody
InstanceKeys(i, s, v) ==
  {Tuple(s, "related_service", i)} \cup (IF v = Nobody THEN {} ELSE {Tuple(i, "component_instance", v)})

CreateComponentInstance(i, n, s, v) ==
  /\ Request /\ s \in rows /\ v \in rows \cup {Nobody}
  /\ Insert(i, n, InstanceKeys(i, s, v))
  /\ PushEvent("CreateComponentInstance", <<i, s, v>>, TRUE)
  /\ was' = [was EXCEPT ![i] = @ \cup {<<s, v>>}] /\ UNCHANGED unlinked

\* The row is read back through the cache, and the event carries what was
\* read: with the cache, foreign keys from before the update.  Without a
\* row in the scope of the caller there is no event at all.
UpdateComponentInstance(i, s, v, found) ==
  LET keys == <<IF s = Nobody THEN ServiceKey(i) ELSE s, IF v = Nobody THEN VersionKey(i) ELSE v>>
      seen == {keys} \cup (IF cacheOn THEN was[i] ELSE {})
  IN /\ Request /\ i \in live /\ {s, v} \subseteq rows \cup {Nobody}
     /\ SetKeys(InstanceKeys(i, ServiceKey(i), VersionKey(i)), InstanceKeys(i, keys[1], keys[2]))
     /\ was' = [was EXCEPT ![i] = @ \cup {keys}]
     /\ IF found THEN \E k \in seen : PushEvent("UpdateComponentInstance", <<i, k[1], k[2]>>, k = keys)
                 ELSE NoEvent({i})
     /\ UNCHANGED unlinked
DeleteComponentInstance(i) == Delete("DeleteComponentInstance", i)

CreateIssue(x, n) == Create("CreateIssue", x, n, {})
UpdateIssue(x, n) == Rename(x, n)
DeleteIssue(x) == Delete("DeleteIssue", x)
AddComponentVersionToIssue(x, v) ==
  Link("AddComponentVersionToIssue", Tuple(v, "issue", x), <<x, v>>)
RemoveComponentVersionFromIssue(x, v) ==
  Unlink("RemoveComponentVersionFromIssue", Tuple(v, "issue", x), <<x, v>>)

CreateIssueVariant(w, n, x, r) ==
  /\ {x, r} \subseteq rows
  /\ Create("CreateIssueVariant", w, n, {Tuple(x, "variant", w), Tuple(r, "variant", w)})
UpdateIssueVariant(w, n) == Rename(w, n)
DeleteIssueVariant(w) == Delete("DeleteIssueVariant", w)

CreateIssueRepository(r, n) == Create("CreateIssueRepository", r, n, {})
UpdateIssueRepository(r, n) == Rename(r, n)
DeleteIssueRepository(r) == Delete("DeleteIssueRepository", r)

\* Matches have no unique columns.
CreateIssueMatch(m, i, x) ==
  /\ {i, x} \subseteq rows
  /\ Create("CreateIssueMatch", m, Nobody, {Tuple(i, "component_instance", m), Tuple(x, "match", m)})
\* The event carries the input, before the row is read back.
UpdateIssueMatch(m, i) ==
  LET old == {l \in links : l[3] = m /\ l[2] = "component_instance"}
  IN /\ Request /\ m \in live /\ i \in rows \cup {Nobody}
     /\ SetKeys(old, {Tuple(i, "component_instance", m)} \ {Tuple(Nobody, "component_instance", m)})
     /\ PushEvent("UpdateIssueMatch", <<m, i>>, TRUE)
     /\ UNCHANGED <<was, unlinked>>
DeleteIssueMatch(m) == Delete("DeleteIssueMatch", m)

-----------------------------------------------------------------------------
(* The workers: one step of the handlers of an event, its failure, a restart. *)

Advance(k, n, found) ==
  LET t == tasks[k]
  IN tasks' = IF t.pc + n > Len(Handlers(t.event))
              THEN SubSeq(tasks, 1, k - 1) \o SubSeq(tasks, k + 1, Len(tasks))
              ELSE [tasks EXCEPT ![k] = [t EXCEPT !.pc = @ + n, !.found = found]]

Linked(objects) == {Tuple(r, "issue_repository", s) :
                      r \in objects \cap IssueRepositories, s \in objects \cap Services}

Current(k) == Handlers(tasks[k].event)[tasks[k].pc]

Write(added, dropped, linked) ==
  /\ tuples' = (tuples \ dropped) \cup added
  /\ links' = links \cup linked /\ past' = past \cup linked
  /\ UNCHANGED <<live, gone, name, was, cacheOn, unlinked, ops>>

AddStep(k) == /\ Current(k).do = "add" /\ Write(Current(k).of, {}, {}) /\ Advance(k, 1, {})
ReadStep(k) == /\ Current(k).do \in {"find", "list"}
               /\ Write({}, {}, {}) /\ Advance(k, 1, Current(k).of)
DropStep(k) == /\ Current(k).do = "drop" /\ Write({}, tasks[k].found, {}) /\ Advance(k, 1, {})
UnlessStep(k) == /\ Current(k).do = "unless" /\ Write({}, {}, {})
                 /\ Advance(k, IF Current(k).of \subseteq tuples THEN 1 + Current(k).skip ELSE 1, {})
LinkStep(k) == /\ Current(k).do = "link"
               /\ Write({}, {}, Linked(Current(k).of \cup tasks[k].found)) /\ Advance(k, 1, {})

\* Nobody asks for a second page: the continuation token of the store and the
\* rest of a listing are dropped, so what is found is part of what there is, with
\* several filters a page of each.  Nothing is logged, and the handlers go on
\* with it.
CutRead(k) ==
  /\ failures < MaxFailures /\ failures' = failures + 1
  /\ Current(k).do \in {"find", "list"}
  /\ \E page \in SUBSET Current(k).of :
       /\ Cardinality(page) >= PageSize /\ page # Current(k).of
       /\ Advance(k, 1, page)
  /\ Write({}, {}, {})
  /\ disturbed' = disturbed \cup Touched(tasks[k].event)

HandleEvent(k) ==
  /\ AddStep(k) \/ ReadStep(k) \/ DropStep(k) \/ UnlessStep(k) \/ LinkStep(k)
  /\ UNCHANGED <<disturbed, failures>>

\* An error is logged and the handlers go on behind it; of several links
\* some may have been written.
HandlerFails(k) ==
  /\ failures < MaxFailures /\ failures' = failures + 1
  /\ \E part \in SUBSET tasks[k].found :
       /\ part # {} => Current(k).do = "link"
       /\ Write({}, {}, IF part = {} THEN {} ELSE Linked(Current(k).of \cup part))
  /\ Advance(k, 1 + Current(k).lost, {})
  /\ disturbed' = disturbed \cup Touched(tasks[k].event)

\* Events live in memory only: a restart loses them.
Restart ==
  /\ failures < MaxFailures /\ failures' = failures + 1
  /\ tasks # <<>> /\ tasks' = <<>> /\ disturbed' = disturbed \cup InFlight
  /\ UNCHANGED <<live, gone, name, links, past, was, tuples, cacheOn, unlinked, ops>>

-----------------------------------------------------------------------------
(* What a user gets to see. *)

\* can_view of openfga/model/model.fga, over the relations R.  Left out are what no
\* handler writes: users as direct viewers, groups within groups, and the users of a
\* role, to whom every object of it is visible.
MemberOf(R, u) == {g \in SupportGroups : Tuple(u, "member", g) \in R}
ServicesOf(R, u) == {s \in Services : \/ Tuple(u, "owner", s) \in R
                                      \/ \E g \in MemberOf(R, u) : Tuple(g, "support_group", s) \in R}
InstancesOf(R, u) == {i \in ComponentInstances : \E s \in ServicesOf(R, u) : Tuple(s, "related_service", i) \in R}
VersionsOf(R, u) == {v \in ComponentVersions : \E i \in InstancesOf(R, u) : Tuple(i, "component_instance", v) \in R}
ComponentsOf(R, u) == {c \in Components : \E v \in VersionsOf(R, u) : Tuple(v, "component_version", c) \in R}

\* An empty answer of the store becomes the id -1, which no row has ...
ListAccessibleResources(objects) == IF objects = {} THEN {Nobody} ELSE objects
\* ... and ids that do not parse are left out.
GetListOfAccessibleObjectIds(objects) == ListAccessibleResources(objects)
\* Mutant of CombineFilterWithAccessibleIds.
CombineWithoutEmpty(filterIds, accessible) ==
  CASE accessible = {Nobody} -> accessible
    [] accessible = {} -> filterIds
    [] filterIds = {} -> accessible
    [] OTHER -> filterIds \cap accessible
\* An empty set of ids is no filter at all, so an empty intersection is -1 too.
CombineFilterWithAccessibleIds(filterIds, accessible) ==
  CASE accessible = {Nobody} -> accessible
    [] accessible = {} -> filterIds
    [] filterIds = {} -> accessible
    [] filterIds \cap accessible = {} -> {Nobody}
    [] OTHER -> filterIds \cap accessible
\* NoAuthz answers with the empty set.
Passes(o, ids) == ids = {} \/ o \in ids
Scope(objects, filterIds) == CombineFilterWithAccessibleIds(filterIds, GetListOfAccessibleObjectIds(objects))

\* The lists a user u gets, f being the ids the request itself asks for.
ListServices(u, f) ==
  LET ids == Scope(MemberOf(tuples, u), f)
  IN {s \in live \cap Services : ids = {} \/ \E g \in ids : Tuple(g, "support_group", s) \in links}
ListSupportGroups(u, f) ==
  {g \in live \cap SupportGroups : Passes(g, Scope(MemberOf(tuples, u), f))}
ListUsers(u, f) ==
  LET ids == Scope(MemberOf(tuples, u), f)
  IN {w \in live \cap Users : ids = {} \/ \E g \in ids : Tuple(w, "member", g) \in links}
ListComponentInstances(u, f) ==
  {i \in live \cap ComponentInstances : Passes(ServiceKey(i), Scope(ServicesOf(tuples, u), f))}
ListComponents(u, f) ==
  {c \in live \cap Components : Passes(c, Scope(ComponentsOf(tuples, u), f))}
ListComponentVersions(u, f) ==
  LET ids == Scope(ComponentsOf(tuples, u), f)
  IN {v \in live \cap ComponentVersions : \E c \in Components :
        Tuple(v, "component_version", c) \in links /\ Passes(c, ids)}
ListIssueMatches(u, f) ==
  LET ids == Scope(InstancesOf(tuples, u), f)
  IN {m \in live \cap IssueMatches : \E i \in ComponentInstances :
        Tuple(i, "component_instance", m) \in links /\ Passes(i, ids)}

-----------------------------------------------------------------------------
\* The store after the requests that made the catalogue of Init: nothing is
\* written for the component of a version and the instance of a match until
\* they are updated.
CreatedTuples(objects, ls) ==
  {Tuple(Role, "role", o) : o \in objects \cap UNION {SupportGroups, Services, Components,
       ComponentVersions, ComponentInstances, IssueMatches}}
  \cup {l \in ls : \/ l[2] \in {"owner", "support_group", "member", "related_service"}
                   \/ l[2] = "component_instance" /\ l[3] \in ComponentVersions}

Init ==
  /\ live = DOMAIN Seed /\ gone = {}
  /\ name = [o \in Objects |-> IF o \in DOMAIN Seed THEN Seed[o] ELSE Nobody]
  /\ links = SeedLinks /\ past = SeedLinks
  /\ was = [i \in ComponentInstances |->
              {k \in Services \X ComponentVersions : InstanceKeys(i, k[1], k[2]) \subseteq SeedLinks}]
  /\ tuples = CreatedTuples(DOMAIN Seed, SeedLinks)
  /\ tasks = <<>> /\ cacheOn \in BOOLEAN
  /\ disturbed = {} /\ unlinked = {} /\ ops = 0 /\ failures = 0

-----------------------------------------------------------------------------
Settled == tasks = <<>>
Calm(t) == {t[1], t[3]} \cap (disturbed \cup {Nobody, Role}) = {}
Mirrored(t) == \/ t[2] \in {"owner", "support_group", "member", "related_service"}
               \/ t[2] = "component_instance" /\ t[3] \in ComponentVersions

\* Once all events are handled, the tuples that mention only objects whose
\* events did not overlap, get lost, meet an error or a read that was cut say what the database
\* says about live objects: a removed link or a deleted object leaves no
\* grant behind, a link has its grant (handlers of *_handler_events.go).
GrantsSettle ==
  Settled => \A t \in tuples \cup links : Calm(t) =>
    /\ t \in tuples => t \in links /\ {t[1], t[3]} \subseteq live
    /\ Mirrored(t) /\ t \in links /\ {t[1], t[3]} \subseteq live => t \in tuples

\* Whatever overlaps, fails, is stale or gets lost, no handler ever grants a
\* relation between two objects that the database never held.
NeverInvented ==
  \A t \in tuples : t[1] = Role \/ Nobody \in {t[1], t[3]} \/ t \in past

\* Once all events are handled and none was disturbed, a user's lists hold
\* only what the database connects to the user, also when the request asks
\* for ids of its own (CombineFilterWithAccessibleIds).
ListsOnlyOwn ==
  LET own == {l \in links : {l[1], l[3]} \subseteq live}
  IN Settled /\ disturbed = {} => \A u \in live \cap Users :
       /\ \A f \in {{}} \cup {{g} : g \in SupportGroups} :
            /\ ListServices(u, f) \subseteq ServicesOf(own, u)
            /\ ListSupportGroups(u, f) \subseteq MemberOf(own, u)
            /\ \A w \in ListUsers(u, f) : MemberOf(own, u) \cap MemberOf(own, w) # {}
       /\ \A f \in {{}} \cup {{s} : s \in Services} :
            ListComponentInstances(u, f) \subseteq InstancesOf(own, u)
       /\ \A f \in {{}} \cup {{c} : c \in Components} :
            ListComponents(u, f) \subseteq ComponentsOf(own, u)
       /\ \A f \in {{}} \cup {{i} : i \in ComponentInstances} : \A m \in ListIssueMatches(u, f) :
            \E i \in InstancesOf(own, u) : Tuple(i, "component_instance", m) \in own

\* A live service has the default repository, whichever of the two was
\* created first and however their events interleave, unless a request took
\* it away (OnServiceCreate, OnIssueRepositoryCreate).
DefaultRepositoryLinked ==
  Settled => \A r \in (live \cap IssueRepositories) \ disturbed, s \in (live \cap Services) \ disturbed :
    name[r] = DefaultRepositoryName => Tuple(r, "issue_repository", s) \in links \cup unlinked

=============================================================================
