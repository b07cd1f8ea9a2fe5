--------------------------- MODULE MutationsProofs ---------------------------
(***************************************************************************)
(* Theorems about Catalogue and Mutations, for any objects, names, numbers *)
(* of requests, failures and restarts.                                     *)
(*                                                                         *)
(* The argument: what the handlers of an event may add to the store is     *)
(* fixed when the event is pushed, whatever they read later, and so is the *)
(* number of their calls.  A request pushes its event after the write that *)
(* put the relation into the database, and what an instance was read back  *)
(* with, from the database or from the cache, is a pair of foreign keys it *)
(* once had.  The set of relations the database ever held only grows.      *)
(*                                                                         *)
(* For the grants the calls are read one by one: a call adds what AddsAt   *)
(* says and looks for what SweepsAt says, and an event in flight will      *)
(* still add or drop what the calls it has ahead do.  GrantsInv says of    *)
(* the objects whose events did not overlap, fail or get lost that all     *)
(* that is wrong in the store has such an event ahead, and nothing that is *)
(* right is undone by one.  Each request then owes the store an event for  *)
(* what it changes (Answered), and each call keeps the account (Effect).   *)
(***************************************************************************)
EXTENDS Mutations, Integers, SequenceTheorems, TLAPS

-----------------------------------------------------------------------------
(* Sequences of steps.                                                     *)

\* A step that adds nothing outside a set of tuples; whatever happens, the handlers go on
\* behind it.
StepOK(step, granted) ==
    /\ step.skip \in Nat /\ step.lost \in Nat
    /\ step.do = "add" => step.of \subseteq granted

\* A handler of a given number of such steps.
AddsOnly(steps, length, granted) ==
    /\ \E S : steps \in Seq(S)
    /\ Len(steps) = length
    /\ \A n \in 1..length : StepOK(steps[n], granted)

\* No handler: nothing is added.
LEMMA AddsOnlyEmpty == \A granted : AddsOnly(<<>>, 0, granted)
<1>1. <<>> \in Seq({}) /\ Len(<<>>) = 0
  OBVIOUS
<1> QED
  BY <1>1 DEF AddsOnly

\* One call of the store.
LEMMA AddsOnlyOne ==
    ASSUME NEW step, NEW granted, StepOK(step, granted)
    PROVE  AddsOnly(<<step>>, 1, granted)
<1> DEFINE q == <<step>>
<1>1. q \in Seq({step}) /\ Len(q) = 1 /\ q[1] = step
  OBVIOUS
<1>2. \A n \in 1..1 : StepOK(q[n], granted)
  BY <1>1
<1> QED
  BY <1>1, <1>2 DEF AddsOnly

\* Two calls of the store.
LEMMA AddsOnlyTwo ==
    ASSUME NEW first, NEW second, NEW granted,
           StepOK(first, granted), StepOK(second, granted)
    PROVE  AddsOnly(<<first, second>>, 2, granted)
<1> DEFINE q == <<first, second>>
<1>1. q \in Seq({first, second}) /\ Len(q) = 2 /\ q[1] = first /\ q[2] = second
  OBVIOUS
<1>2. \A n \in 1..2 : StepOK(q[n], granted)
  BY <1>1
<1> QED
  BY <1>1, <1>2 DEF AddsOnly

\* One handler after another.
LEMMA AddsOnlyBoth ==
    ASSUME NEW p, NEW q, NEW m \in Nat, NEW n \in Nat, NEW granted,
           AddsOnly(p, m, granted), AddsOnly(q, n, granted)
    PROVE  AddsOnly(p \o q, m + n, granted)
<1>1. PICK S : p \in Seq(S)
  BY DEF AddsOnly
<1>2. PICK T : q \in Seq(T)
  BY DEF AddsOnly
<1>3. p \in Seq(S \cup T) /\ q \in Seq(S \cup T)
  BY <1>1, <1>2
<1>4. Len(p) = m /\ Len(q) = n
  BY DEF AddsOnly
<1>5. p \o q \in Seq(S \cup T) /\ Len(p \o q) = m + n
  BY <1>3, <1>4
<1>6. ASSUME NEW k \in 1..(m + n)
      PROVE  StepOK((p \o q)[k], granted)
  <2>1. CASE k \in 1..m
    <3>1. (p \o q)[k] = p[k]
      BY <1>3, <1>4, <2>1
    <3> QED
      BY <2>1, <3>1 DEF AddsOnly
  <2>2. CASE k \notin 1..m
    <3>1. PICK j \in 1..n : j = k - m
      BY <2>2
    <3>2. (p \o q)[k] = q[j]
      BY <1>3, <1>4, <2>2, <3>1
    <3>3. StepOK(q[j], granted)
      BY DEF AddsOnly
    <3> QED
      BY <3>2, <3>3
  <2> QED
    BY <2>1, <2>2
<1> QED
  BY <1>5, <1>6 DEF AddsOnly

\* A larger set of tuples is granted as well.
LEMMA AddsOnlyMore ==
    ASSUME NEW q, NEW n, NEW granted, NEW more, granted \subseteq more, AddsOnly(q, n, granted)
    PROVE  AddsOnly(q, n, more)
BY DEF AddsOnly, StepOK

-----------------------------------------------------------------------------
(* The calls of the store's client.                                        *)

\* AddRelationBulk adds its tuples in one call.
LEMMA AddRelationBulkAdds == \A ts : AddsOnly(AddRelationBulk(ts), 1, ts)
BY AddsOnlyOne DEF AddRelationBulk, StepOK, Step

\* AddRelation adds one tuple.
LEMMA AddRelationAdds == \A t : AddsOnly(AddRelation(t), 1, {t})
BY AddsOnlyOne DEF AddRelation, StepOK, Step

\* The removals add nothing.
LEMMA RemovalsAddNothing ==
    \A ts, granted : AddsOnly(RemoveRelationBulk(ts), 2, granted) /\ AddsOnly(RemoveRelation(ts), 2, granted)
BY AddsOnlyTwo DEF RemoveRelationBulk, RemoveRelation, StepOK, Step

\* An update adds its one relation.
LEMMA UpdateRelationAdds == \A t, ts : AddsOnly(UpdateRelation(t, ts), 3, {t})
<1> TAKE t, ts
<1>1. AddsOnly(<<Step("find", ts, 0, 2), Step("drop", {}, 0, 1)>>, 2, {t})
  BY AddsOnlyTwo DEF StepOK, Step
<1> QED
  BY <1>1, AddRelationAdds, AddsOnlyBoth DEF UpdateRelation

\* Looking at the store first adds one call and grants nothing.
LEMMA UnlessHeldAdds ==
    ASSUME NEW t, NEW steps, NEW after \in Nat, NEW n \in Nat, NEW granted, AddsOnly(steps, n, granted)
    PROVE  AddsOnly(UnlessHeld(t, steps, after), 1 + n, granted)
<1>1. Len(steps) = n
  BY DEF AddsOnly
<1>2. AddsOnly(<<Step("unless", {t}, Len(steps), Len(steps) + after)>>, 1, granted)
  BY <1>1, AddsOnlyOne DEF StepOK, Step
<1> QED
  BY <1>2, AddsOnlyBoth DEF UnlessHeld

-----------------------------------------------------------------------------
(* The handlers.                                                           *)

\* What the handlers of an event may add beside the roles.
Grants(e) ==
    CASE e.name = "AddServiceToSupportGroup" -> {Tuple(e.on[1], "support_group", e.on[2])}
      [] e.name = "AddUserToSupportGroup" -> {Tuple(e.on[2], "member", e.on[1])}
      [] e.name = "AddOwnerToService" -> {Tuple(e.on[2], "owner", e.on[1])}
      [] e.name = "UpdateComponentVersion" -> {Tuple(e.on[1], "component_version", e.on[2])}
      [] e.name = "UpdateIssueMatch" -> {Tuple(e.on[2], "component_instance", e.on[1])}
      [] e.name \in {"CreateComponentInstance", "UpdateComponentInstance"} ->
           {Tuple(e.on[2], "related_service", e.on[1]), Tuple(e.on[1], "component_instance", e.on[3])}
      [] OTHER -> {}

\* How many calls they make; it depends on the event only, not on what they read.
Calls(e) ==
    CASE e.name \in {"AddServiceToSupportGroup", "AddUserToSupportGroup", "AddOwnerToService",
                     "CreateComponentInstance", "CreateComponentVersion", "CreateSupportGroup",
                     "CreateComponent", "CreateIssueMatch"} -> 1
      [] e.name \in {"CreateIssueRepository", "DeleteUser", "DeleteService", "DeleteComponentInstance",
                     "DeleteComponentVersion", "DeleteComponent", "DeleteIssueMatch",
                     "RemoveServiceFromSupportGroup", "RemoveUserFromSupportGroup",
                     "RemoveOwnerFromService"} -> 2
      [] e.name \in {"CreateService", "UpdateComponentVersion", "UpdateIssueMatch"} -> 3
      [] e.name = "DeleteSupportGroup" -> 4
      [] e.name = "UpdateComponentInstance" -> IF e.on[3] = Nobody THEN 4 ELSE 8
      [] OTHER -> 0

Allowed(e) == Grants(e) \cup {Tuple(Role, "role", e.on[1])}

\* The number of calls is one.
LEMMA CallsType == \A e : Calls(e) \in Nat
BY DEF Calls

\* SubscribeHandlers: the catalogue's own handlers do not touch the store.
LEMMA SubscribedAddNothing ==
    ASSUME NEW e, NEW granted
    PROVE  /\ e.name = "CreateService" => AddsOnly(SubscribeHandlers(e), 2, granted)
           /\ e.name = "CreateIssueRepository" => AddsOnly(SubscribeHandlers(e), 2, granted)
           /\ e.name \notin {"CreateService", "CreateIssueRepository"} => AddsOnly(SubscribeHandlers(e), 0, granted)
<1>1. CASE e.name = "CreateService"
  <2>1. AddsOnly(OnServiceCreate(e), 2, granted)
    BY AddsOnlyTwo DEF OnServiceCreate, StepOK, Step
  <2> QED
    BY <1>1, <2>1 DEF SubscribeHandlers
<1>2. CASE e.name = "CreateIssueRepository"
  <2>1. AddsOnly(OnIssueRepositoryCreate(e), 2, granted)
    BY AddsOnlyTwo DEF OnIssueRepositoryCreate, StepOK, Step
  <2> QED
    BY <1>2, <2>1 DEF SubscribeHandlers
<1>3. CASE e.name \notin {"CreateService", "CreateIssueRepository"}
  BY <1>3, AddsOnlyEmpty DEF SubscribeHandlers
<1> QED
  BY <1>1, <1>2, <1>3

\* UpdateComponentInstance: the two relations of the event, each after a look at the store.
LEMMA ComponentInstanceUpdateAdds ==
    ASSUME NEW e
    PROVE  AddsOnly(OnComponentInstanceUpdateAuthz(e), IF e.on[3] = Nobody THEN 4 ELSE 8,
                    {Tuple(e.on[2], "related_service", e.on[1]),
                     Tuple(e.on[1], "component_instance", e.on[3])})
<1> DEFINE service == Tuple(e.on[2], "related_service", e.on[1])
           version == Tuple(e.on[1], "component_instance", e.on[3])
           granted == {service, version}
           oldV == ListRelations(e.on[1], "component_instance", Nobody, ComponentVersions)
           oldS == ListRelations(Nobody, "related_service", e.on[1], ComponentInstances)
           second == IF e.on[3] = Nobody THEN <<>>
                     ELSE UnlessHeld(version, UpdateRelation(version, oldV), 0)
           first == UnlessHeld(service, UpdateRelation(service, oldS), Len(second))
<1>1. OnComponentInstanceUpdateAuthz(e) = first \o second
  BY DEF OnComponentInstanceUpdateAuthz
<1>2. AddsOnly(UpdateRelation(version, oldV), 3, granted)
  <2> HIDE DEF service, version
  <2>1. AddsOnly(UpdateRelation(version, oldV), 3, {version})
    BY UpdateRelationAdds
  <2>2. {version} \subseteq granted
    OBVIOUS
  <2> QED
    BY <2>1, <2>2, AddsOnlyMore
<1>3. AddsOnly(UpdateRelation(service, oldS), 3, granted)
  <2> HIDE DEF service, version
  <2>1. AddsOnly(UpdateRelation(service, oldS), 3, {service})
    BY UpdateRelationAdds
  <2>2. {service} \subseteq granted
    OBVIOUS
  <2> QED
    BY <2>1, <2>2, AddsOnlyMore
<1>4. AddsOnly(second, IF e.on[3] = Nobody THEN 0 ELSE 4, granted)
  <2>1. CASE e.on[3] = Nobody
    BY <2>1, AddsOnlyEmpty
  <2>2. CASE e.on[3] # Nobody
    <3>1. AddsOnly(UnlessHeld(version, UpdateRelation(version, oldV), 0), 1 + 3, granted)
      BY <1>2, UnlessHeldAdds
    <3> QED
      BY <2>2, <3>1
  <2> QED
    BY <2>1, <2>2
<1>5. AddsOnly(first, 1 + 3, granted)
  <2> HIDE DEF second
  <2>1. Len(second) \in Nat
    BY <1>4 DEF AddsOnly
  <2> QED
    BY <1>3, <2>1, UnlessHeldAdds
<1> HIDE DEF first, second, granted
<1>6. AddsOnly(first \o second, 4 + (IF e.on[3] = Nobody THEN 0 ELSE 4), granted)
  BY <1>4, <1>5, AddsOnlyBoth
<1>7. 4 + (IF e.on[3] = Nobody THEN 0 ELSE 4) = IF e.on[3] = Nobody THEN 4 ELSE 8
  OBVIOUS
<1> QED
  BY <1>1, <1>6, <1>7 DEF granted

\* The handlers that write the role of a created object.
LEMMA CreatesAdd ==
    ASSUME NEW e, e.name \in {"CreateService", "CreateComponentVersion", "CreateSupportGroup",
                              "CreateComponent", "CreateIssueMatch"}
    PROVE  AddsOnly(SubscribeAuthzHandlers(e), 1, Allowed(e))
<1>1. SubscribeAuthzHandlers(e) = AddRelationBulk({Tuple(Role, "role", e.on[1])})
  BY DEF SubscribeAuthzHandlers, OnServiceCreateAuthz, OnComponentVersionCreateAuthz,
     OnSupportGroupCreateAuthz, OnComponentCreateAuthz, OnIssueMatchCreateAuthz, Created
<1>2. {Tuple(Role, "role", e.on[1])} \subseteq Allowed(e)
  BY DEF Allowed
<1> HIDE DEF Allowed
<1> QED
  BY <1>1, <1>2, AddRelationBulkAdds, AddsOnlyMore

\* The handlers that write one relation in one call.
LEMMA LinksAdd ==
    ASSUME NEW e, e.name \in {"AddServiceToSupportGroup", "AddUserToSupportGroup",
                              "AddOwnerToService", "CreateComponentInstance"}
    PROVE  AddsOnly(SubscribeAuthzHandlers(e), 1, Allowed(e))
<1>1. PICK ts \in SUBSET Allowed(e) : SubscribeAuthzHandlers(e) = AddRelationBulk(ts)
  <2>1. CASE e.name = "AddServiceToSupportGroup"
    BY <2>1 DEF SubscribeAuthzHandlers, OnAddServiceToSupportGroup, Allowed, Grants
  <2>2. CASE e.name = "AddUserToSupportGroup"
    BY <2>2 DEF SubscribeAuthzHandlers, OnAddUserToSupportGroup, Allowed, Grants
  <2>3. CASE e.name = "AddOwnerToService"
    BY <2>3 DEF SubscribeAuthzHandlers, OnAddOwnerToService, Allowed, Grants
  <2>4. CASE e.name = "CreateComponentInstance"
    BY <2>4 DEF SubscribeAuthzHandlers, OnComponentInstanceCreateAuthz, Allowed, Grants
  <2> QED
    BY <2>1, <2>2, <2>3, <2>4
<1> QED
  BY <1>1, AddRelationBulkAdds, AddsOnlyMore

\* The handlers that only remove.
LEMMA RemovesAddNothing ==
    ASSUME NEW e, e.name \in {"DeleteUser", "DeleteService", "DeleteComponentInstance",
                              "DeleteComponentVersion", "DeleteComponent", "DeleteIssueMatch",
                              "RemoveServiceFromSupportGroup", "RemoveUserFromSupportGroup",
                              "RemoveOwnerFromService"}
    PROVE  AddsOnly(SubscribeAuthzHandlers(e), 2, Allowed(e))
<1>1. \E ts : SubscribeAuthzHandlers(e) \in {RemoveRelationBulk(ts), RemoveRelation(ts)}
  <2>1. CASE e.name \in {"DeleteUser", "DeleteService", "DeleteComponentInstance"}
    BY <2>1 DEF SubscribeAuthzHandlers, OnUserDeleteAuthz, OnServiceDeleteAuthz,
       OnComponentInstanceDeleteAuthz
  <2>2. CASE e.name \in {"DeleteComponentVersion", "DeleteComponent", "DeleteIssueMatch"}
    BY <2>2 DEF SubscribeAuthzHandlers, OnComponentVersionDeleteAuthz, OnComponentDeleteAuthz,
       OnIssueMatchDeleteAuthz
  <2>3. CASE e.name \in {"RemoveServiceFromSupportGroup", "RemoveUserFromSupportGroup",
                         "RemoveOwnerFromService"}
    BY <2>3 DEF SubscribeAuthzHandlers, OnRemoveServiceFromSupportGroup,
       OnRemoveUserFromSupportGroup, OnRemoveOwnerFromService
  <2> QED
    BY <2>1, <2>2, <2>3
<1> QED
  BY <1>1, RemovalsAddNothing

\* OnSupportGroupDeleteAuthz removes in two rounds.
LEMMA SupportGroupDeleteAddsNothing ==
    ASSUME NEW e, e.name = "DeleteSupportGroup"
    PROVE  AddsOnly(SubscribeAuthzHandlers(e), 4, Allowed(e))
<1>1. PICK t, ts : SubscribeAuthzHandlers(e) = RemoveRelation(t) \o RemoveRelationBulk(ts)
  BY DEF SubscribeAuthzHandlers, OnSupportGroupDeleteAuthz
<1>2. AddsOnly(RemoveRelation(t), 2, Allowed(e)) /\ AddsOnly(RemoveRelationBulk(ts), 2, Allowed(e))
  BY RemovalsAddNothing
<1>3. AddsOnly(RemoveRelation(t) \o RemoveRelationBulk(ts), 2 + 2, Allowed(e))
  BY <1>2, AddsOnlyBoth
<1> QED
  BY <1>1, <1>3

\* OnComponentVersionUpdateAuthz adds the component of the event.
LEMMA ComponentVersionUpdateAdds ==
    ASSUME NEW e, e.name = "UpdateComponentVersion"
    PROVE  AddsOnly(SubscribeAuthzHandlers(e), 3, Allowed(e))
<1> DEFINE t == Tuple(e.on[1], "component_version", e.on[2])
<1>1. PICK ts : SubscribeAuthzHandlers(e) = UpdateRelation(t, ts)
  BY DEF SubscribeAuthzHandlers, OnComponentVersionUpdateAuthz
<1>2. {t} \subseteq Allowed(e)
  BY DEF Allowed, Grants
<1> HIDE DEF t
<1> QED
  BY <1>1, <1>2, UpdateRelationAdds, AddsOnlyMore

\* OnIssueMatchUpdateAuthz removes what it lists and adds the instance of the event.
LEMMA IssueMatchUpdateAdds ==
    ASSUME NEW e, e.name = "UpdateIssueMatch"
    PROVE  AddsOnly(SubscribeAuthzHandlers(e), 3, Allowed(e))
<1> DEFINE t == Tuple(e.on[2], "component_instance", e.on[1])
<1>1. PICK ts : SubscribeAuthzHandlers(e) = RemoveRelationBulk(ts) \o AddRelationBulk({t})
  BY DEF SubscribeAuthzHandlers, OnIssueMatchUpdateAuthz
<1>2. {t} \subseteq Allowed(e)
  BY DEF Allowed, Grants
<1> HIDE DEF t
<1>3. AddsOnly(AddRelationBulk({t}), 1, Allowed(e))
  BY <1>2, AddRelationBulkAdds, AddsOnlyMore
<1>4. AddsOnly(RemoveRelationBulk(ts) \o AddRelationBulk({t}), 2 + 1, Allowed(e))
  BY <1>3, RemovalsAddNothing, AddsOnlyBoth
<1> QED
  BY <1>1, <1>4

\* SubscribeAuthzHandlers: the handlers that write to the store.
LEMMA SubscribedAuthzAdd ==
    ASSUME NEW e
    PROVE  IF e.name = "CreateIssueRepository" THEN AddsOnly(SubscribeAuthzHandlers(e), 0, Allowed(e))
           ELSE IF e.name = "CreateService" THEN AddsOnly(SubscribeAuthzHandlers(e), 1, Allowed(e))
           ELSE AddsOnly(SubscribeAuthzHandlers(e), Calls(e), Allowed(e))
<1>1. CASE e.name = "UpdateComponentInstance"
  <2> DEFINE granted == {Tuple(e.on[2], "related_service", e.on[1]),
                         Tuple(e.on[1], "component_instance", e.on[3])}
  <2>1. SubscribeAuthzHandlers(e) = OnComponentInstanceUpdateAuthz(e)
    BY <1>1 DEF SubscribeAuthzHandlers
  <2>2. granted \subseteq Allowed(e)
    BY <1>1 DEF Allowed, Grants
  <2>3. AddsOnly(OnComponentInstanceUpdateAuthz(e), IF e.on[3] = Nobody THEN 4 ELSE 8, granted)
    BY ComponentInstanceUpdateAdds
  <2> HIDE DEF granted
  <2>4. Calls(e) = IF e.on[3] = Nobody THEN 4 ELSE 8
    BY <1>1 DEF Calls
  <2> QED
    BY <1>1, <2>1, <2>2, <2>3, <2>4, AddsOnlyMore
<1>2. CASE e.name \in {"AddServiceToSupportGroup", "AddUserToSupportGroup", "AddOwnerToService",
                       "CreateComponentInstance", "CreateService", "CreateComponentVersion",
                       "CreateSupportGroup", "CreateComponent", "CreateIssueMatch"}
  <2>1. AddsOnly(SubscribeAuthzHandlers(e), 1, Allowed(e))
    BY <1>2, CreatesAdd, LinksAdd
  <2>2. e.name # "CreateService" => Calls(e) = 1
    BY <1>2 DEF Calls
  <2> QED
    BY <1>2, <2>1, <2>2
<1>3. CASE e.name \in {"DeleteUser", "DeleteService", "DeleteComponentInstance",
                       "DeleteComponentVersion", "DeleteComponent", "DeleteIssueMatch",
                       "RemoveServiceFromSupportGroup", "RemoveUserFromSupportGroup",
                       "RemoveOwnerFromService"}
  <2>1. Calls(e) = 2
    BY <1>3 DEF Calls
  <2> QED
    BY <1>3, <2>1, RemovesAddNothing
<1>4. CASE e.name \in {"UpdateComponentVersion", "UpdateIssueMatch", "DeleteSupportGroup"}
  <2>1. Calls(e) = IF e.name = "DeleteSupportGroup" THEN 4 ELSE 3
    BY <1>4 DEF Calls
  <2> QED
    BY <1>4, <2>1, ComponentVersionUpdateAdds, IssueMatchUpdateAdds, SupportGroupDeleteAddsNothing
<1>5. CASE /\ e.name # "UpdateComponentInstance"
           /\ e.name \notin {"AddServiceToSupportGroup", "AddUserToSupportGroup", "AddOwnerToService",
                       "CreateComponentInstance", "CreateService", "CreateComponentVersion",
                       "CreateSupportGroup", "CreateComponent", "CreateIssueMatch"}
           /\ e.name \notin {"DeleteUser", "DeleteService", "DeleteComponentInstance",
                       "DeleteComponentVersion", "DeleteComponent", "DeleteIssueMatch",
                       "RemoveServiceFromSupportGroup", "RemoveUserFromSupportGroup",
                       "RemoveOwnerFromService"}
           /\ e.name \notin {"UpdateComponentVersion", "UpdateIssueMatch", "DeleteSupportGroup"}
  <2>1. SubscribeAuthzHandlers(e) = <<>>
    BY <1>5 DEF SubscribeAuthzHandlers
  <2>2. e.name # "CreateIssueRepository" => Calls(e) = 0
    BY <1>5 DEF Calls
  <2> QED
    BY <2>1, <2>2, <1>5, AddsOnlyEmpty
<1> QED
  BY <1>1, <1>2, <1>3, <1>4, <1>5

\* All handlers of an event, one after the other.
LEMMA HandlersAdd == \A e : AddsOnly(Handlers(e), Calls(e), Allowed(e))
<1> TAKE e
<1>1. CASE e.name = "CreateService"
  <2>1. AddsOnly(SubscribeHandlers(e) \o SubscribeAuthzHandlers(e), 2 + 1, Allowed(e))
    BY <1>1, SubscribedAddNothing, SubscribedAuthzAdd, AddsOnlyBoth
  <2>2. Calls(e) = 3
    BY <1>1 DEF Calls
  <2> QED
    BY <2>1, <2>2 DEF Handlers
<1>2. CASE e.name = "CreateIssueRepository"
  <2>1. AddsOnly(SubscribeHandlers(e) \o SubscribeAuthzHandlers(e), 2 + 0, Allowed(e))
    BY <1>2, SubscribedAddNothing, SubscribedAuthzAdd, AddsOnlyBoth
  <2>2. Calls(e) = 2
    BY <1>2 DEF Calls
  <2> QED
    BY <2>1, <2>2 DEF Handlers
<1>3. CASE e.name \notin {"CreateService", "CreateIssueRepository"}
  <2>1. AddsOnly(SubscribeHandlers(e) \o SubscribeAuthzHandlers(e), 0 + Calls(e), Allowed(e))
    BY <1>3, SubscribedAddNothing, SubscribedAuthzAdd, AddsOnlyBoth, CallsType
  <2>2. 0 + Calls(e) = Calls(e)
    BY CallsType
  <2> QED
    BY <2>1, <2>2 DEF Handlers
<1> QED
  BY <1>1, <1>2, <1>3

-----------------------------------------------------------------------------
(* The invariant.                                                          *)

\* A relation the database once held, a role, or one with an id 0 that no row has.
Held(t) == t[1] = Role \/ Nobody \in {t[1], t[3]} \/ t \in past

\* An event in flight: its next call exists, and what its handlers may add is held.
TaskOK(task) ==
    /\ task = [event |-> task.event, pc |-> task.pc, found |-> task.found]
    /\ task.pc \in 1..Calls(task.event)
    /\ \A t \in Grants(task.event) : Held(t)

TasksOK ==
    /\ \E S : tasks \in Seq(S)
    /\ \A k \in 1..Len(tasks) : TaskOK(tasks[k])

\* The foreign keys an instance is said to have had were in the database.
KeysOK ==
    /\ was = [i \in ComponentInstances |-> was[i]]
    /\ \A i \in ComponentInstances : \A k \in was[i] : InstanceKeys(i, k[1], k[2]) \subseteq past

StoreInv == TasksOK /\ KeysOK /\ NeverInvented

\* NeverInvented says that every tuple of the store is held.
LEMMA NeverInventedHeld == NeverInvented <=> \A t \in tuples : Held(t)
BY DEF NeverInvented, Held

\* What is held stays held, as the past only grows; so do the parts of the invariant.
LEMMA HeldGrows ==
    ASSUME past \subseteq past', NEW t, Held(t)
    PROVE  Held(t)'
BY DEF Held

LEMMA TaskGrows ==
    ASSUME past \subseteq past', NEW task, TaskOK(task)
    PROVE  TaskOK(task)'
BY HeldGrows DEF TaskOK, Grants, Calls

LEMMA KeysGrow ==
    ASSUME past \subseteq past', KeysOK, was' = was
    PROVE  KeysOK'
BY DEF KeysOK, InstanceKeys, Tuple

LEMMA TasksGrow ==
    ASSUME past \subseteq past', TasksOK, tasks' = tasks
    PROVE  TasksOK'
BY TaskGrows DEF TasksOK

LEMMA TuplesGrow ==
    ASSUME past \subseteq past', NeverInvented, tuples' = tuples
    PROVE  NeverInvented'
BY DEF NeverInvented

\* PushEvent: the event waits for its first call.
LEMMA PushKeepsTasks ==
    ASSUME TasksOK, past \subseteq past', NEW event, NEW on, NEW faithful,
           PushEvent(event, on, faithful),
           \A t \in Grants([name |-> event, on |-> on]) : Held(t)'
    PROVE  TasksOK'
<1> DEFINE e == [name |-> event, on |-> on]
           task == [event |-> e, pc |-> 1, found |-> {}]
<1>1. CASE Handlers(e) = <<>>
  BY <1>1, TasksGrow DEF PushEvent
<1>2. CASE Handlers(e) # <<>>
  <2>1. tasks' = Append(tasks, task)
    BY <1>2 DEF PushEvent
  <2>2. Calls(e) # 0
    <3>1. PICK S : Handlers(e) \in Seq(S)
      BY HandlersAdd DEF AddsOnly
    <3>2. Len(Handlers(e)) # 0
      BY <1>2, <3>1, EmptySeq
    <3> QED
      BY <3>2, HandlersAdd DEF AddsOnly
  <2>3. TaskOK(task)'
    <3>1. task = [event |-> task.event, pc |-> task.pc, found |-> task.found] /\ task.event = e
      OBVIOUS
    <3>2. task.pc \in 1..Calls(e)
      BY <2>2, CallsType
    <3>3. \A t \in Grants(e) : Held(t)'
      OBVIOUS
    <3> HIDE DEF task, e
    <3> QED
      BY <3>1, <3>2, <3>3 DEF TaskOK, Grants, Calls
  <2>4. PICK S : tasks \in Seq(S)
    BY DEF TasksOK
  <2> HIDE DEF task
  <2>5. tasks \in Seq(S \cup {task})
    BY <2>4
  <2>6. /\ tasks' \in Seq(S \cup {task}) /\ Len(tasks') = Len(tasks) + 1
        /\ tasks'[Len(tasks) + 1] = task
        /\ \A k \in 1..Len(tasks) : tasks'[k] = tasks[k]
    BY <2>1, <2>5
  <2>7. ASSUME NEW k \in 1..Len(tasks')
        PROVE  TaskOK(tasks[k])'
    <3>1. CASE k \in 1..Len(tasks)
      BY <2>6, <3>1, TaskGrows DEF TasksOK
    <3>2. CASE k = Len(tasks) + 1
      BY <2>3, <2>6, <3>2
    <3> QED
      BY <2>5, <2>6, <3>1, <3>2
  <2> QED
    BY <2>6, <2>7 DEF TasksOK
<1> QED
  BY <1>1, <1>2

-----------------------------------------------------------------------------
(* The workers.                                                            *)

\* The record of an event that moved on.
LEMMA Moved ==
    ASSUME NEW t, NEW n, NEW new, t = [event |-> t.event, pc |-> t.pc, found |-> t.found]
    PROVE  [t EXCEPT !.pc = @ + n, !.found = new] = [event |-> t.event, pc |-> t.pc + n, found |-> new]
<1> DEFINE event == t.event
           pc == t.pc
           old == t.found
<1>1. t = [event |-> event, pc |-> pc, found |-> old] /\ t.pc = pc
  OBVIOUS
<1>2. t.event = event
  OBVIOUS
<1> HIDE DEF event, pc, old
<1>3. [t EXCEPT !.pc = pc + n] = [event |-> event, pc |-> pc + n, found |-> old]
  BY <1>1
<1>4. [[event |-> event, pc |-> pc + n, found |-> old] EXCEPT !.found = new]
        = [event |-> event, pc |-> pc + n, found |-> new]
  OBVIOUS
<1>5. [t EXCEPT !.pc = @ + n, !.found = new] = [[t EXCEPT !.pc = pc + n] EXCEPT !.found = new]
  BY <1>1
<1> QED
  BY <1>1, <1>2, <1>3, <1>4, <1>5

\* The length of two sequences, one after the other.
LEMMA Concatenation ==
    ASSUME NEW S, NEW p \in Seq(S), NEW q \in Seq(S)
    PROVE  p \o q \in Seq(S) /\ Len(p \o q) = Len(p) + Len(q)
OBVIOUS

\* An event moves on to a later call or is done; the others stay what they were.
LEMMA AdvanceKeepsTasks ==
    ASSUME TasksOK, past \subseteq past', NEW k \in 1..Len(tasks), NEW n \in Nat, NEW found,
           Advance(k, n, found)
    PROVE  TasksOK'
<1> DEFINE t == tasks[k]
           e == t.event
           before == SubSeq(tasks, 1, k - 1)
           after == SubSeq(tasks, k + 1, Len(tasks))
           done == before \o after
           moved == [t EXCEPT !.pc = @ + n, !.found = found]
<1>1. PICK S : tasks \in Seq(S)
  BY DEF TasksOK
<1>2. TaskOK(t)
  BY DEF TasksOK
<1>3. Len(Handlers(e)) = Calls(e) /\ Calls(e) \in Nat
  BY HandlersAdd, CallsType DEF AddsOnly
<1>4. CASE t.pc + n > Len(Handlers(e))
  <2>1. tasks' = done
    BY <1>4 DEF Advance
  <2>2. Len(tasks) \in Nat /\ k \in 1..Len(tasks)
    BY <1>1
  <2>3. /\ before \in Seq(S) /\ Len(before) = k - 1
        /\ \A j \in 1..(k - 1) : before[j] = tasks[j]
    BY <1>1, <2>2
  <2>4. /\ after \in Seq(S) /\ Len(after) = Len(tasks) - k
        /\ \A j \in 1..(Len(tasks) - k) : after[j] = tasks[k + j]
    BY <1>1, <2>2
  <2> HIDE DEF before, after
  <2>5. done \in Seq(S) /\ Len(done) = Len(tasks) - 1
    <3>1. done \in Seq(S) /\ Len(done) = Len(before) + Len(after)
      BY <2>3, <2>4, Concatenation
    <3> HIDE DEF done
    <3> QED
      BY <2>2, <2>3, <2>4, <3>1
  <2>6. ASSUME NEW j \in 1..Len(done)
        PROVE  \E i \in 1..Len(tasks) : done[j] = tasks[i]
    <3>1. CASE j \in 1..(k - 1)
      <4>1. done[j] = before[j]
        BY <2>2, <2>3, <2>4, <3>1
      <4> QED
        BY <2>2, <2>3, <3>1, <4>1
    <3>2. CASE j \notin 1..(k - 1)
      <4> DEFINE i == j - (k - 1)
      <4>1. i \in 1..(Len(tasks) - k) /\ k + i = j + 1 /\ k + i \in 1..Len(tasks)
        BY <2>2, <2>5, <3>2
      <4>2. done[j] = after[j - Len(before)]
        BY <2>2, <2>3, <2>4, <2>5, <3>2
      <4>3. done[j] = after[i]
        BY <2>3, <4>2
      <4> HIDE DEF i
      <4> QED
        BY <2>4, <4>1, <4>3
    <3> QED
      BY <3>1, <3>2
  <2> HIDE DEF done
  <2>7. \A j \in 1..Len(done) : TaskOK(done[j])
    BY <2>6 DEF TasksOK
  <2> QED
    BY <2>1, <2>5, <2>7, TaskGrows DEF TasksOK
<1>5. CASE ~(t.pc + n > Len(Handlers(e)))
  <2>1. tasks' = [tasks EXCEPT ![k] = moved]
    BY <1>5 DEF Advance
  <2>2. moved = [event |-> e, pc |-> t.pc + n, found |-> found]
    <3>1. t = [event |-> e, pc |-> t.pc, found |-> t.found]
      BY <1>2 DEF TaskOK
    <3> HIDE DEF t
    <3> QED
      BY <3>1, Moved
  <2>3. t.pc + n \in 1..Calls(e)
    BY <1>2, <1>3, <1>5 DEF TaskOK
  <2>4. TaskOK(moved)
    <3>1. moved.event = e /\ moved.pc = t.pc + n /\ moved.found = found
      BY <2>2
    <3> HIDE DEF moved
    <3> QED
      BY <1>2, <2>2, <2>3, <3>1 DEF TaskOK
  <2> HIDE DEF moved
  <2>5. tasks \in Seq(S \cup {moved})
    BY <1>1
  <2>6. tasks' \in Seq(S \cup {moved}) /\ Len(tasks') = Len(tasks)
    BY <2>1, <2>5
  <2>7. \A j \in 1..Len(tasks) : tasks'[j] = IF j = k THEN moved ELSE tasks[j]
    BY <2>1, <2>5
  <2>8. \A j \in 1..Len(tasks) : TaskOK(tasks[j])
    BY DEF TasksOK
  <2> QED
    BY <2>4, <2>6, <2>7, <2>8, TaskGrows DEF TasksOK
<1> QED
  BY <1>4, <1>5

\* What a call may do, at the place its event has reached.
LEMMA CurrentOK ==
    ASSUME TasksOK, NEW k \in 1..Len(tasks)
    PROVE  /\ Current(k).skip \in Nat /\ Current(k).lost \in Nat
           /\ Current(k).do = "add" => \A t \in Current(k).of : Held(t)
<1> DEFINE e == tasks[k].event
<1>1. TaskOK(tasks[k])
  BY DEF TasksOK
<1>2. StepOK(Current(k), Allowed(e))
  BY <1>1, HandlersAdd DEF AddsOnly, TaskOK, Current
<1>3. \A t \in Allowed(e) : Held(t)
  <2>1. Held(Tuple(Role, "role", e.on[1]))
    BY DEF Held, Tuple
  <2> QED
    BY <1>1, <2>1 DEF Allowed, TaskOK
<1> QED
  BY <1>2, <1>3 DEF StepOK

\* Write: the store and the links change, and the past grows by the links.
LEMMA WriteKeepsStore ==
    ASSUME KeysOK, NeverInvented, NEW added, NEW dropped, NEW linked,
           Write(added, dropped, linked), \A t \in added : Held(t)
    PROVE  past \subseteq past' /\ KeysOK' /\ NeverInvented'
<1>1. past \subseteq past' /\ was' = was /\ tuples' = (tuples \ dropped) \cup added
  BY DEF Write
<1>2. KeysOK'
  BY <1>1, KeysGrow
<1>3. \A t \in tuples' : Held(t)
  BY <1>1, NeverInventedHeld
<1>4. NeverInvented'
  BY <1>1, <1>3 DEF NeverInvented, Held
<1> QED
  BY <1>1, <1>2, <1>4

\* One call of an event, done or failed.
LEMMA CallKeepsStore ==
    ASSUME StoreInv, NEW k \in 1..Len(tasks), NEW added, NEW dropped, NEW linked, NEW n \in Nat,
           NEW found, Write(added, dropped, linked), Advance(k, n, found),
           \A t \in added : Held(t)
    PROVE  StoreInv'
<1>1. past \subseteq past' /\ KeysOK' /\ NeverInvented'
  BY WriteKeepsStore DEF StoreInv
<1>2. TasksOK'
  BY <1>1, AdvanceKeepsTasks DEF StoreInv
<1> QED
  BY <1>1, <1>2 DEF StoreInv

\* HandleEvent: a call adds what its event was granted.
LEMMA HandleEventKeepsStore ==
    ASSUME StoreInv, NEW k \in 1..Len(tasks), HandleEvent(k)
    PROVE  StoreInv'
<1>1. Current(k).skip \in Nat /\ (Current(k).do = "add" => \A t \in Current(k).of : Held(t))
  BY CurrentOK DEF StoreInv
<1>2. \A t \in {} : Held(t)
  OBVIOUS
<1>3. CASE AddStep(k)
  <2>1. Write(Current(k).of, {}, {}) /\ Advance(k, 1, {}) /\ \A t \in Current(k).of : Held(t)
    BY <1>1, <1>3 DEF AddStep
  <2> QED
    BY <2>1, CallKeepsStore
<1>4. CASE ReadStep(k)
  <2>1. Write({}, {}, {}) /\ Advance(k, 1, Current(k).of)
    BY <1>4 DEF ReadStep
  <2> QED
    BY <1>2, <2>1, CallKeepsStore
<1>5. CASE DropStep(k)
  <2>1. Write({}, tasks[k].found, {}) /\ Advance(k, 1, {})
    BY <1>5 DEF DropStep
  <2> QED
    BY <1>2, <2>1, CallKeepsStore
<1>6. CASE UnlessStep(k)
  <2> DEFINE n == IF Current(k).of \subseteq tuples THEN 1 + Current(k).skip ELSE 1
  <2>1. Write({}, {}, {}) /\ Advance(k, n, {})
    BY <1>6 DEF UnlessStep
  <2>2. n \in Nat
    BY <1>1
  <2> HIDE DEF n
  <2> QED
    BY <1>2, <2>1, <2>2, CallKeepsStore
<1>7. CASE LinkStep(k)
  <2>1. Write({}, {}, Linked(Current(k).of \cup tasks[k].found)) /\ Advance(k, 1, {})
    BY <1>7 DEF LinkStep
  <2> QED
    BY <1>2, <2>1, CallKeepsStore
<1> QED
  BY <1>3, <1>4, <1>5, <1>6, <1>7 DEF HandleEvent

\* HandlerFails: nothing is added, and the handlers go on behind the failed call.
LEMMA HandlerFailsKeepsStore ==
    ASSUME StoreInv, NEW k \in 1..Len(tasks), HandlerFails(k)
    PROVE  StoreInv'
<1> DEFINE n == 1 + Current(k).lost
<1>1. n \in Nat
  BY CurrentOK DEF StoreInv
<1>2. PICK linked : Write({}, {}, linked)
  BY DEF HandlerFails
<1>3. Advance(k, n, {})
  BY DEF HandlerFails
<1>4. \A t \in {} : Held(t)
  OBVIOUS
<1> HIDE DEF n
<1> QED
  BY <1>1, <1>2, <1>3, <1>4, CallKeepsStore

\* CutRead: nothing is written.
LEMMA CutReadKeepsStore ==
    ASSUME StoreInv, NEW k \in 1..Len(tasks), CutRead(k)
    PROVE  StoreInv'
<1>1. PICK found : Write({}, {}, {}) /\ Advance(k, 1, found)
  BY DEF CutRead
<1>2. \A t \in {} : Held(t)
  OBVIOUS
<1> QED
  BY <1>1, <1>2, CallKeepsStore

\* The workers of the registry.
LEMMA WorkerKeepsStore ==
    ASSUME StoreInv, Worker
    PROVE  StoreInv'
<1>1. DOMAIN tasks = 1..Len(tasks)
  BY DEF StoreInv, TasksOK
<1> QED
  BY <1>1, HandleEventKeepsStore, CutReadKeepsStore, HandlerFailsKeepsStore DEF Worker

\* A restart forgets the events.
LEMMA RestartKeepsStore ==
    ASSUME StoreInv, Restart
    PROVE  StoreInv'
<1>1. tasks' = <<>> /\ past' = past /\ was' = was /\ tuples' = tuples
  BY DEF Restart
<1>2. <<>> \in Seq({}) /\ Len(<<>>) = 0
  OBVIOUS
<1>3. TasksOK'
  BY <1>1, <1>2 DEF TasksOK
<1> QED
  BY <1>1, <1>3, KeysGrow, TuplesGrow DEF StoreInv

-----------------------------------------------------------------------------
(* The requests.                                                           *)

\* A request that leaves the store alone, adds to the past, and pushes its event, if any,
\* with relations that are in the past by then.
LEMMA RequestKeepsStore ==
    ASSUME StoreInv, past \subseteq past', tuples' = tuples, KeysOK', NEW event, NEW on, NEW faithful,
           tasks' = tasks \/ PushEvent(event, on, faithful),
           \A t \in Grants([name |-> event, on |-> on]) : Held(t)'
    PROVE  StoreInv'
<1>1. TasksOK'
  BY TasksGrow, PushKeepsTasks DEF StoreInv
<1> QED
  BY <1>1, TuplesGrow DEF StoreInv

\* The events of creates and deletes grant nothing.
LEMMA CreateKeepsStore ==
    ASSUME StoreInv, NEW event, NEW o, NEW n, NEW keys, Create(event, o, n, keys),
           Grants([name |-> event, on |-> <<o>>]) = {}
    PROVE  StoreInv'
<1>1. past \subseteq past' /\ tuples' = tuples /\ was' = was /\ PushEvent(event, <<o>>, TRUE)
  BY DEF Create, Request, Insert
<1>2. KeysOK'
  BY <1>1, KeysGrow DEF StoreInv
<1> QED
  BY <1>1, <1>2, RequestKeepsStore

\* A delete takes nothing from the past.
LEMMA DeleteKeepsStore ==
    ASSUME StoreInv, NEW event, NEW o, Delete(event, o), Grants([name |-> event, on |-> <<o>>]) = {}
    PROVE  StoreInv'
<1>1. past \subseteq past' /\ tuples' = tuples /\ was' = was /\ PushEvent(event, <<o>>, TRUE)
  BY DEF Delete, Request, SoftDelete
<1>2. KeysOK'
  BY <1>1, KeysGrow DEF StoreInv
<1> QED
  BY <1>1, <1>2, RequestKeepsStore

\* A rename of a row pushes no event.
LEMMA RenameKeepsStore ==
    ASSUME StoreInv, NEW o, NEW n, Rename(o, n)
    PROVE  StoreInv'
<1>1. past' = past /\ tuples' = tuples /\ was' = was /\ tasks' = tasks
  BY DEF Rename, Request
<1> QED
  BY <1>1, KeysGrow, TasksGrow, TuplesGrow DEF StoreInv

\* A link is written before its event is pushed, and grants nothing else.
LEMMA LinkKeepsStore ==
    ASSUME StoreInv, NEW event, NEW l, NEW on, Link(event, l, on),
           Grants([name |-> event, on |-> on]) \subseteq {l}
    PROVE  StoreInv'
<1>1. past' = past \cup {l} /\ tuples' = tuples /\ was' = was /\ PushEvent(event, on, TRUE)
  BY DEF Link, Request, AssociateId
<1>2. KeysOK'
  BY <1>1, KeysGrow DEF StoreInv
<1>3. \A t \in Grants([name |-> event, on |-> on]) : t = l /\ t \in past'
  BY <1>1
<1>4. \A t \in Grants([name |-> event, on |-> on]) : Held(t)'
  BY <1>3 DEF Held
<1> QED
  BY <1>1, <1>2, <1>4, RequestKeepsStore

\* The relation that is removed stays in the past.
LEMMA UnlinkKeepsStore ==
    ASSUME StoreInv, NEW event, NEW l, NEW on, Unlink(event, l, on),
           Grants([name |-> event, on |-> on]) = {}
    PROVE  StoreInv'
<1>1. past' = past /\ tuples' = tuples /\ was' = was /\ PushEvent(event, on, TRUE)
  BY DEF Unlink, Request, DissociateId
<1>2. KeysOK'
  BY <1>1, KeysGrow DEF StoreInv
<1> QED
  BY <1>1, <1>2, RequestKeepsStore

\* The events that grant nothing.
LEMMA GrantsNothing ==
    ASSUME NEW on, NEW event \in
      {"CreateUser", "CreateSupportGroup", "CreateComponent", "CreateService",
       "CreateIssueRepository", "CreateIssue", "CreateIssueVariant", "CreateComponentVersion",
       "CreateIssueMatch", "DeleteUser", "DeleteSupportGroup", "DeleteComponent", "DeleteService",
       "DeleteIssueRepository", "DeleteIssue", "DeleteIssueVariant", "DeleteComponentVersion",
       "DeleteComponentInstance", "DeleteIssueMatch", "RemoveServiceFromSupportGroup",
       "RemoveUserFromSupportGroup", "RemoveOwnerFromService",
       "AddIssueRepositoryToService", "RemoveIssueRepositoryFromService",
       "AddComponentVersionToIssue", "RemoveComponentVersionFromIssue"}
    PROVE  Grants([name |-> event, on |-> on]) = {}
BY DEF Grants

CreateMutation ==
    \/ CreateUserMutation \/ CreateSupportGroupMutation \/ CreateComponentMutation
    \/ CreateServiceMutation \/ CreateIssueRepositoryMutation \/ CreateIssueMutation
    \/ CreateIssueVariantMutation \/ CreateComponentVersionMutation \/ CreateIssueMatchMutation

UpdateMutation ==
    \/ UpdateUserMutation \/ UpdateSupportGroupMutation \/ UpdateComponentMutation
    \/ UpdateServiceMutation \/ UpdateIssueRepositoryMutation \/ UpdateIssueMutation
    \/ UpdateIssueVariantMutation

DeleteMutation ==
    \/ DeleteUserMutation \/ DeleteSupportGroupMutation \/ DeleteComponentMutation
    \/ DeleteServiceMutation \/ DeleteIssueRepositoryMutation \/ DeleteIssueMutation
    \/ DeleteIssueVariantMutation \/ DeleteComponentVersionMutation
    \/ DeleteComponentInstanceMutation \/ DeleteIssueMatchMutation

LinkMutation ==
    \/ AddServiceToSupportGroupMutation \/ AddUserToSupportGroupMutation
    \/ AddOwnerToServiceMutation \/ AddIssueRepositoryToServiceMutation
    \/ AddComponentVersionToIssueMutation

UnlinkMutation ==
    \/ RemoveServiceFromSupportGroupMutation \/ RemoveUserFromSupportGroupMutation
    \/ RemoveOwnerFromServiceMutation \/ RemoveIssueRepositoryFromServiceMutation
    \/ RemoveComponentVersionFromIssueMutation

\* The requests of mutation.go, shape by shape.
LEMMA CreateMutationKeepsStore == ASSUME StoreInv, CreateMutation PROVE StoreInv'
<1>1. PICK o, n, keys, event :
        /\ event \in {"CreateUser", "CreateSupportGroup", "CreateComponent",
                      "CreateService", "CreateIssueRepository",
                      "CreateIssue", "CreateIssueVariant",
                      "CreateComponentVersion", "CreateIssueMatch"}
        /\ Create(event, o, n, keys)
  <2>1. CASE CreateUserMutation \/ CreateSupportGroupMutation \/ CreateComponentMutation
    BY <2>1 DEF CreateUserMutation, CreateSupportGroupMutation, CreateComponentMutation,
       CreateUser, CreateSupportGroup, CreateComponent
  <2>2. CASE CreateServiceMutation \/ CreateIssueRepositoryMutation \/ CreateIssueMutation
    BY <2>2 DEF CreateServiceMutation, CreateIssueRepositoryMutation, CreateIssueMutation,
       CreateService, CreateIssueRepository, CreateIssue
  <2>3. CASE CreateIssueVariantMutation \/ CreateComponentVersionMutation \/ CreateIssueMatchMutation
    BY <2>3 DEF CreateIssueVariantMutation, CreateComponentVersionMutation,
       CreateIssueMatchMutation, CreateIssueVariant, CreateComponentVersion, CreateIssueMatch
  <2> QED
    BY <2>1, <2>2, <2>3 DEF CreateMutation
<1> QED
  BY <1>1, GrantsNothing, CreateKeepsStore

LEMMA UpdateMutationKeepsStore == ASSUME StoreInv, UpdateMutation PROVE StoreInv'
<1>1. PICK o, n : Rename(o, n)
  BY DEF UpdateMutation, UpdateUserMutation, UpdateSupportGroupMutation, UpdateComponentMutation,
     UpdateServiceMutation, UpdateIssueRepositoryMutation, UpdateIssueMutation,
     UpdateIssueVariantMutation, UpdateUser, UpdateSupportGroup, UpdateComponent, UpdateService,
     UpdateIssueRepository, UpdateIssue, UpdateIssueVariant
<1> QED
  BY <1>1, RenameKeepsStore

LEMMA DeleteMutationKeepsStore == ASSUME StoreInv, DeleteMutation PROVE StoreInv'
<1>1. PICK o, event :
        /\ event \in {"DeleteUser", "DeleteSupportGroup", "DeleteComponent",
                      "DeleteService", "DeleteIssueRepository",
                      "DeleteIssue", "DeleteIssueVariant",
                      "DeleteComponentVersion", "DeleteComponentInstance",
                      "DeleteIssueMatch"}
        /\ Delete(event, o)
  BY DEF DeleteMutation, DeleteUserMutation, DeleteSupportGroupMutation, DeleteComponentMutation,
     DeleteServiceMutation, DeleteIssueRepositoryMutation, DeleteIssueMutation,
     DeleteIssueVariantMutation, DeleteComponentVersionMutation, DeleteComponentInstanceMutation,
     DeleteIssueMatchMutation, DeleteUser, DeleteSupportGroup, DeleteComponent, DeleteService,
     DeleteIssueRepository, DeleteIssue, DeleteIssueVariant, DeleteComponentVersion,
     DeleteComponentInstance, DeleteIssueMatch
<1> QED
  BY <1>1, GrantsNothing, DeleteKeepsStore

LEMMA UnlinkMutationKeepsStore == ASSUME StoreInv, UnlinkMutation PROVE StoreInv'
<1>1. PICK l, on, event :
        /\ event \in {"RemoveServiceFromSupportGroup",
                      "RemoveUserFromSupportGroup",
                      "RemoveOwnerFromService",
                      "RemoveIssueRepositoryFromService",
                      "RemoveComponentVersionFromIssue"}
        /\ Unlink(event, l, on)
  BY DEF UnlinkMutation, RemoveServiceFromSupportGroupMutation,
     RemoveUserFromSupportGroupMutation, RemoveOwnerFromServiceMutation,
     RemoveIssueRepositoryFromServiceMutation, RemoveComponentVersionFromIssueMutation,
     RemoveServiceFromSupportGroup, RemoveUserFromSupportGroup, RemoveOwnerFromService,
     RemoveIssueRepositoryFromService, RemoveComponentVersionFromIssue
<1> QED
  BY <1>1, GrantsNothing, UnlinkKeepsStore

LEMMA LinkMutationKeepsStore == ASSUME StoreInv, LinkMutation PROVE StoreInv'
<1>1. PICK l, on, event : Link(event, l, on) /\ Grants([name |-> event, on |-> on]) \subseteq {l}
  <2>1. CASE AddServiceToSupportGroupMutation
    <3>1. PICK g, s : Link("AddServiceToSupportGroup", Tuple(g, "support_group", s), <<g, s>>)
      BY <2>1 DEF AddServiceToSupportGroupMutation, AddServiceToSupportGroup
    <3> QED
      BY <3>1 DEF Grants
  <2>2. CASE AddUserToSupportGroupMutation
    <3>1. PICK g, u : Link("AddUserToSupportGroup", Tuple(u, "member", g), <<g, u>>)
      BY <2>2 DEF AddUserToSupportGroupMutation, AddUserToSupportGroup
    <3> QED
      BY <3>1 DEF Grants
  <2>3. CASE AddOwnerToServiceMutation
    <3>1. PICK s, u : Link("AddOwnerToService", Tuple(u, "owner", s), <<s, u>>)
      BY <2>3 DEF AddOwnerToServiceMutation, AddOwnerToService
    <3> QED
      BY <3>1 DEF Grants
  <2>4. CASE AddIssueRepositoryToServiceMutation \/ AddComponentVersionToIssueMutation
    <3>1. PICK l, on, event :
            /\ event \in {"AddIssueRepositoryToService", "AddComponentVersionToIssue"}
            /\ Link(event, l, on)
      BY <2>4 DEF AddIssueRepositoryToServiceMutation, AddComponentVersionToIssueMutation,
         AddIssueRepositoryToService, AddComponentVersionToIssue
    <3>2. Grants([name |-> event, on |-> on]) = {}
      BY <3>1, GrantsNothing
    <3> QED
      BY <3>1, <3>2
  <2> QED
    BY <2>1, <2>2, <2>3, <2>4 DEF LinkMutation
<1> QED
  BY <1>1, LinkKeepsStore

\* UpdateComponentVersion: the event carries the input, which is in the database unless it is
\* missing.
LEMMA UpdateComponentVersionKeepsStore ==
    ASSUME StoreInv, NEW v, NEW c, NEW found, UpdateComponentVersion(v, c, found)
    PROVE  StoreInv'
<1> DEFINE t == Tuple(v, "component_version", c)
           e == [name |-> "UpdateComponentVersion", on |-> <<v, c>>]
<1>1. tuples' = tuples /\ was' = was
  BY DEF UpdateComponentVersion, Request
<1>2. past' = past \cup ({t} \ {Tuple(v, "component_version", Nobody)})
  BY DEF UpdateComponentVersion, SetKeys
<1>3. tasks' = tasks \/ PushEvent("UpdateComponentVersion", <<v, c>>, TRUE)
  BY DEF UpdateComponentVersion, NoEvent
<1>4. Held(t)'
  <2>1. CASE c = Nobody
    BY <2>1 DEF Held, Tuple
  <2>2. CASE c # Nobody
    <3>1. t # Tuple(v, "component_version", Nobody)
      BY <2>2 DEF Tuple
    <3> QED
      BY <1>2, <3>1 DEF Held
  <2> QED
    BY <2>1, <2>2
<1>5. Grants(e) = {t}
  BY DEF Grants
<1>6. KeysOK'
  BY <1>1, <1>2, KeysGrow DEF StoreInv
<1> HIDE DEF t
<1>7. \A g \in Grants(e) : Held(g)'
  BY <1>4, <1>5
<1> QED
  BY <1>1, <1>2, <1>3, <1>6, <1>7, RequestKeepsStore

\* UpdateIssueMatch: likewise.
LEMMA UpdateIssueMatchKeepsStore ==
    ASSUME StoreInv, NEW m, NEW i, UpdateIssueMatch(m, i)
    PROVE  StoreInv'
<1> DEFINE t == Tuple(i, "component_instance", m)
           e == [name |-> "UpdateIssueMatch", on |-> <<m, i>>]
<1>1. tuples' = tuples /\ was' = was /\ PushEvent("UpdateIssueMatch", <<m, i>>, TRUE)
  BY DEF UpdateIssueMatch, Request
<1>2. past' = past \cup ({t} \ {Tuple(Nobody, "component_instance", m)})
  BY DEF UpdateIssueMatch, SetKeys
<1>3. Held(t)'
  <2>1. CASE i = Nobody
    BY <2>1 DEF Held, Tuple
  <2>2. CASE i # Nobody
    <3>1. t # Tuple(Nobody, "component_instance", m)
      BY <2>2 DEF Tuple
    <3> QED
      BY <1>2, <3>1 DEF Held
  <2> QED
    BY <2>1, <2>2
<1>4. Grants(e) = {t}
  BY DEF Grants
<1>5. KeysOK'
  BY <1>1, <1>2, KeysGrow DEF StoreInv
<1> HIDE DEF t
<1>6. \A g \in Grants(e) : Held(g)'
  BY <1>3, <1>4
<1> QED
  BY <1>1, <1>2, <1>5, <1>6, RequestKeepsStore

\* The foreign keys of an instance in the past are all its event may grant.
LEMMA InstanceGrants ==
    ASSUME NEW i, NEW s, NEW v, NEW event \in {"CreateComponentInstance", "UpdateComponentInstance"},
           InstanceKeys(i, s, v) \subseteq past'
    PROVE  \A t \in Grants([name |-> event, on |-> <<i, s, v>>]) : Held(t)'
<1> DEFINE service == Tuple(s, "related_service", i)
           version == Tuple(i, "component_instance", v)
<1>1. Grants([name |-> event, on |-> <<i, s, v>>]) = {service, version}
  BY DEF Grants
<1>2. Held(service)'
  BY DEF InstanceKeys, Held
<1>3. Held(version)'
  <2>1. CASE v = Nobody
    BY <2>1 DEF Held, Tuple
  <2>2. CASE v # Nobody
    BY <2>2 DEF InstanceKeys, Held
  <2> QED
    BY <2>1, <2>2
<1> HIDE DEF service, version
<1> QED
  BY <1>1, <1>2, <1>3

\* The keys an instance gets are remembered as keys it had.
LEMMA NewKeysOK ==
    ASSUME KeysOK, past \subseteq past', NEW i, NEW keys, was' = [was EXCEPT ![i] = @ \cup {keys}],
           InstanceKeys(i, keys[1], keys[2]) \subseteq past'
    PROVE  KeysOK'
<1>1. was' = [j \in ComponentInstances |-> was'[j]]
  BY DEF KeysOK
<1>2. ASSUME NEW j \in ComponentInstances, NEW k \in was'[j]
      PROVE  InstanceKeys(j, k[1], k[2]) \subseteq past'
  <2>1. CASE k \in was[j]
    BY <2>1 DEF KeysOK
  <2>2. CASE k \notin was[j]
    <3>1. j = i /\ k = keys
      BY <2>2 DEF KeysOK
    <3> QED
      BY <3>1
  <2> QED
    BY <2>1, <2>2
<1> QED
  BY <1>1, <1>2 DEF KeysOK, InstanceKeys, Tuple

\* CreateComponentInstance: both foreign keys are inserted before the event is pushed.
LEMMA CreateComponentInstanceKeepsStore ==
    ASSUME StoreInv, NEW i, NEW n, NEW s, NEW v, CreateComponentInstance(i, n, s, v)
    PROVE  StoreInv'
<1>1. /\ past' = past \cup InstanceKeys(i, s, v) /\ tuples' = tuples
      /\ was' = [was EXCEPT ![i] = @ \cup {<<s, v>>}]
      /\ PushEvent("CreateComponentInstance", <<i, s, v>>, TRUE)
  BY DEF CreateComponentInstance, Request, Insert
<1>2. KeysOK'
  <2> DEFINE keys == <<s, v>>
  <2>1. keys[1] = s /\ keys[2] = v
    OBVIOUS
  <2> HIDE DEF keys
  <2>2. was' = [was EXCEPT ![i] = @ \cup {keys}]
    BY <1>1 DEF keys
  <2> QED
    BY <1>1, <2>1, <2>2, NewKeysOK DEF StoreInv
<1>3. \A t \in Grants([name |-> "CreateComponentInstance", on |-> <<i, s, v>>]) : Held(t)'
  BY <1>1, InstanceGrants
<1> QED
  BY <1>1, <1>2, <1>3, RequestKeepsStore

\* UpdateComponentInstance: what is read back, from the database or the cache, are keys the
\* instance has or had.
LEMMA UpdateComponentInstanceKeepsStore ==
    ASSUME StoreInv, NEW i \in ComponentInstances, NEW s, NEW v, NEW found,
           UpdateComponentInstance(i, s, v, found)
    PROVE  StoreInv'
<1> DEFINE keys == <<IF s = Nobody THEN ServiceKey(i) ELSE s, IF v = Nobody THEN VersionKey(i) ELSE v>>
           seen == {keys} \cup (IF cacheOn THEN was[i] ELSE {})
<1>1. /\ past' = past \cup InstanceKeys(i, keys[1], keys[2]) /\ tuples' = tuples
      /\ was' = [was EXCEPT ![i] = @ \cup {keys}]
  BY DEF UpdateComponentInstance, Request, SetKeys
<1>2. \/ tasks' = tasks
      \/ \E k \in seen : PushEvent("UpdateComponentInstance", <<i, k[1], k[2]>>, k = keys)
  BY DEF UpdateComponentInstance, NoEvent
<1> HIDE DEF keys
<1>3. KeysOK'
  BY <1>1, NewKeysOK DEF StoreInv
<1>4. CASE tasks' = tasks
  BY <1>1, <1>3, <1>4, TasksGrow, TuplesGrow DEF StoreInv
<1>5. ASSUME NEW k \in seen, PushEvent("UpdateComponentInstance", <<i, k[1], k[2]>>, k = keys)
      PROVE  StoreInv'
  <2>1. InstanceKeys(i, k[1], k[2]) \subseteq past'
    BY <1>1 DEF StoreInv, KeysOK
  <2>2. \A t \in Grants([name |-> "UpdateComponentInstance", on |-> <<i, k[1], k[2]>>]) : Held(t)'
    BY <2>1, InstanceGrants
  <2> QED
    BY <1>1, <1>3, <1>5, <2>2, RequestKeepsStore
<1> QED
  BY <1>2, <1>4, <1>5

-----------------------------------------------------------------------------
(* The theorem.                                                            *)

\* The store of Init mirrors the links it starts with.
LEMMA InitStore == Init => StoreInv
<1> SUFFICES ASSUME Init
             PROVE  StoreInv
  OBVIOUS
<1>1. <<>> \in Seq({}) /\ Len(<<>>) = 0
  OBVIOUS
<1>2. TasksOK
  BY <1>1 DEF Init, TasksOK
<1>3. KeysOK
  BY DEF Init, KeysOK
<1>4. NeverInvented
  BY DEF Init, NeverInvented, CreatedTuples, Tuple
<1> QED
  BY <1>2, <1>3, <1>4 DEF StoreInv

\* Every step keeps the invariant.
LEMMA NextKeepsStore == StoreInv /\ [Next]_vars => StoreInv'
<1> SUFFICES ASSUME StoreInv, [Next]_vars
             PROVE  StoreInv'
  OBVIOUS
<1>1. CASE UNCHANGED vars
  BY <1>1, KeysGrow, TasksGrow, TuplesGrow DEF vars, StoreInv
<1>2. CASE Mutation
  <2>1. CASE CreateMutation \/ UpdateMutation \/ DeleteMutation \/ LinkMutation \/ UnlinkMutation
    BY <2>1, CreateMutationKeepsStore, UpdateMutationKeepsStore, DeleteMutationKeepsStore,
       LinkMutationKeepsStore, UnlinkMutationKeepsStore
  <2>2. CASE UpdateComponentVersionMutation \/ UpdateIssueMatchMutation
    BY <2>2, UpdateComponentVersionKeepsStore, UpdateIssueMatchKeepsStore
       DEF UpdateComponentVersionMutation, UpdateIssueMatchMutation
  <2>3. CASE CreateComponentInstanceMutation \/ UpdateComponentInstanceMutation
    BY <2>3, CreateComponentInstanceKeepsStore, UpdateComponentInstanceKeepsStore
       DEF CreateComponentInstanceMutation, UpdateComponentInstanceMutation
  <2> QED
    BY <1>2, <2>1, <2>2, <2>3 DEF Mutation, CreateMutation, UpdateMutation, DeleteMutation,
       LinkMutation, UnlinkMutation
<1> QED
  BY <1>1, <1>2, WorkerKeepsStore, RestartKeepsStore DEF Next

\* StoreInv: when an event is pushed, what its handlers may add to the store is a relation
\* the database held by then, and stays one.
THEOREM StoreInvariant == Spec => []StoreInv
BY InitStore, NextKeepsStore, PTL DEF Spec

\* NeverInvented: whatever handlers interleave, fail, are lost or act on stale reads, no
\* tuple relates two objects that the database never related.
THEOREM StoreInventsNothing == Spec => []NeverInvented
<1>1. StoreInv => NeverInvented
  BY DEF StoreInv
<1> QED
  BY <1>1, StoreInvariant, PTL
-----------------------------------------------------------------------------
(* The default repository: a service and a repository that are not linked  *)
(* are ahead of the handler of one of them.                                *)

\* Event t will still link the two: it has yet to list, or has listed the other one.
WillLink(t, r, s) ==
    \/ /\ t.event = [name |-> "CreateService", on |-> <<s>>]
       /\ t.pc = 1 \/ (t.pc = 2 /\ r \in t.found)
    \/ /\ t.event = [name |-> "CreateIssueRepository", on |-> <<r>>]
       /\ t.pc = 1 \/ (t.pc = 2 /\ s \in t.found)

Repository(r) == r \in (live \cap IssueRepositories) \ disturbed /\ name[r] = DefaultRepositoryName
Service(s) == s \in (live \cap Services) \ disturbed
Joined(r, s) == Tuple(r, "issue_repository", s) \in links \cup unlinked

LinkAhead ==
    \A r, s : Repository(r) /\ Service(s) =>
        Joined(r, s) \/ \E k \in 1..Len(tasks) : WillLink(tasks[k], r, s)

RepositoryInv == name = [o \in Objects |-> name[o]] /\ LinkAhead

\* The first two calls of an event.
LEMMA FirstCalls ==
    ASSUME NEW S, NEW q \in Seq(S), NEW T, NEW p \in Seq(T), Len(q) = 2
    PROVE  (q \o p)[1] = q[1] /\ (q \o p)[2] = q[2]
<1>1. q \in Seq(S \cup T) /\ p \in Seq(S \cup T)
  OBVIOUS
<1>2. \A k \in 1..(Len(q) + Len(p)) : (q \o p)[k] = IF k <= Len(q) THEN q[k] ELSE p[k - Len(q)]
  BY <1>1, ConcatProperties
<1>3. 1 \in 1..(Len(q) + Len(p)) /\ 2 \in 1..(Len(q) + Len(p)) /\ 1 <= Len(q) /\ 2 <= Len(q)
  BY <1>1
<1> QED
  BY <1>2, <1>3

\* OnServiceCreate lists the repositories and links them.
LEMMA ServiceCalls ==
    ASSUME NEW s, NEW e, e = [name |-> "CreateService", on |-> <<s>>]
    PROVE  /\ Calls(e) = 3
           /\ Handlers(e)[1] = Step("list", {r \in live \cap IssueRepositories :
                                                name[r] = DefaultRepositoryName}, 0, 1)
           /\ Handlers(e)[2] = Step("link", {s}, 0, 0)
           /\ Touched(e) = {s} \ {Nobody}
<1>1. e.name = "CreateService" /\ e.on = <<s>> /\ e.on[1] = s /\ DOMAIN e.on = {1}
  OBVIOUS
<1> DEFINE first == Step("list", {r \in live \cap IssueRepositories :
                                     name[r] = DefaultRepositoryName}, 0, 1)
           second == Step("link", {s}, 0, 0)
           q == <<first, second>>
<1>2. SubscribeHandlers(e) = q
  BY <1>1 DEF SubscribeHandlers, OnServiceCreate
<1> HIDE DEF first, second
<1>3. q \in Seq({first, second}) /\ Len(q) = 2 /\ q[1] = first /\ q[2] = second
  OBVIOUS
<1>4. PICK T : SubscribeAuthzHandlers(e) \in Seq(T)
  BY SubscribedAuthzAdd DEF AddsOnly
<1>5. Calls(e) = 3
  BY <1>1 DEF Calls
<1>6. Touched(e) = {s} \ {Nobody}
  BY <1>1 DEF Touched
<1> HIDE DEF q
<1>7. Handlers(e)[1] = first /\ Handlers(e)[2] = second
  BY <1>2, <1>3, <1>4, FirstCalls DEF Handlers
<1> QED
  BY <1>5, <1>6, <1>7 DEF first, second

\* OnIssueRepositoryCreate lists the services and links them.
LEMMA RepositoryCalls ==
    ASSUME NEW r, NEW e, e = [name |-> "CreateIssueRepository", on |-> <<r>>]
    PROVE  /\ Calls(e) = 2
           /\ Handlers(e)[1] = Step("list", live \cap Services, 0, 1)
           /\ Handlers(e)[2] = Step("link", {r}, 0, 0)
           /\ Touched(e) = {r} \ {Nobody}
<1>1. e.name = "CreateIssueRepository" /\ e.on = <<r>> /\ e.on[1] = r /\ DOMAIN e.on = {1}
  OBVIOUS
<1> DEFINE first == Step("list", live \cap Services, 0, 1)
           second == Step("link", {r}, 0, 0)
           q == <<first, second>>
<1>2. SubscribeHandlers(e) = q
  BY <1>1 DEF SubscribeHandlers, OnIssueRepositoryCreate
<1> HIDE DEF first, second
<1>3. q \in Seq({first, second}) /\ Len(q) = 2 /\ q[1] = first /\ q[2] = second
  OBVIOUS
<1>4. PICK T : SubscribeAuthzHandlers(e) \in Seq(T)
  BY SubscribedAuthzAdd DEF AddsOnly
<1>5. Calls(e) = 2
  BY <1>1 DEF Calls
<1>6. Touched(e) = {r} \ {Nobody}
  BY <1>1 DEF Touched
<1> HIDE DEF q
<1>7. Handlers(e)[1] = first /\ Handlers(e)[2] = second
  BY <1>2, <1>3, <1>4, FirstCalls DEF Handlers
<1> QED
  BY <1>5, <1>6, <1>7 DEF first, second

\* Advance: the other events stay, and the event itself unless it is done.
LEMMA AdvanceOthers ==
    ASSUME TasksOK, NEW k \in 1..Len(tasks), NEW n \in Nat, NEW found, Advance(k, n, found)
    PROVE  /\ \A j \in 1..Len(tasks) : j # k => \E i \in 1..Len(tasks') : tasks'[i] = tasks[j]
           /\ tasks[k].pc + n <= Calls(tasks[k].event) =>
                \E i \in 1..Len(tasks') : tasks'[i] =
                    [event |-> tasks[k].event, pc |-> tasks[k].pc + n, found |-> found]
<1> DEFINE t == tasks[k]
           e == t.event
           before == SubSeq(tasks, 1, k - 1)
           after == SubSeq(tasks, k + 1, Len(tasks))
           done == before \o after
           moved == [t EXCEPT !.pc = @ + n, !.found = found]
<1>1. PICK S : tasks \in Seq(S)
  BY DEF TasksOK
<1>2. TaskOK(t)
  BY DEF TasksOK
<1>3. Len(Handlers(e)) = Calls(e) /\ Calls(e) \in Nat /\ t.pc \in Nat
  BY <1>2, HandlersAdd, CallsType DEF AddsOnly, TaskOK
<1>4. CASE t.pc + n > Len(Handlers(e))
  <2>1. tasks' = done
    BY <1>4 DEF Advance
  <2>2. Len(tasks) \in Nat /\ k \in 1..Len(tasks)
    BY <1>1
  <2>3. /\ before \in Seq(S) /\ Len(before) = k - 1
        /\ \A j \in 1..(k - 1) : before[j] = tasks[j]
    BY <1>1, <2>2
  <2>4. /\ after \in Seq(S) /\ Len(after) = Len(tasks) - k
        /\ \A j \in 1..(Len(tasks) - k) : after[j] = tasks[k + j]
    BY <1>1, <2>2
  <2> HIDE DEF before, after
  <2>5. done \in Seq(S) /\ Len(done) = Len(before) + Len(after)
    BY <2>3, <2>4, Concatenation
  <2>6. ASSUME NEW j \in 1..Len(tasks), j # k
        PROVE  \E i \in 1..Len(done) : done[i] = tasks[j]
    <3>1. CASE j < k
      <4>1. j \in 1..(k - 1)
        BY <2>2, <3>1
      <4>2. done[j] = before[j] /\ j \in 1..Len(done)
        <5>1. j \in 1..(Len(before) + Len(after))
          BY <2>2, <2>3, <2>4, <4>1
        <5> QED
          BY <2>2, <2>3, <2>4, <2>5, <4>1, <5>1
      <4> QED
        BY <2>3, <4>1, <4>2
    <3>2. CASE j > k
      <4> DEFINE i == j - 1
                 m == j - k
      <4>1. /\ i \in 1..(Len(before) + Len(after)) /\ m \in 1..(Len(tasks) - k)
            /\ k + m = j /\ i - Len(before) = m /\ i \notin 1..Len(before)
        BY <2>2, <2>3, <2>4, <3>2
      <4>2. done[i] = after[i - Len(before)]
        <5>1. i > Len(before) /\ i <= Len(before) + Len(after)
          BY <2>2, <2>3, <2>4, <3>2
        <5> HIDE DEF i
        <5> QED
          BY <2>3, <2>4, <4>1, <5>1
      <4>3. done[i] = after[m] /\ after[m] = tasks[j]
        BY <2>4, <4>1, <4>2
      <4> HIDE DEF i, m, done
      <4> QED
        BY <2>5, <4>1, <4>3
    <3> QED
      BY <2>2, <2>6, <3>1, <3>2
  <2> HIDE DEF done
  <2> QED
    BY <1>3, <1>4, <2>1, <2>6
<1>5. CASE ~(t.pc + n > Len(Handlers(e)))
  <2>1. tasks' = [tasks EXCEPT ![k] = moved]
    BY <1>5 DEF Advance
  <2>2. moved = [event |-> e, pc |-> t.pc + n, found |-> found]
    <3>1. t = [event |-> e, pc |-> t.pc, found |-> t.found]
      BY <1>2 DEF TaskOK
    <3> HIDE DEF t
    <3> QED
      BY <3>1, Moved
  <2> HIDE DEF moved
  <2>3. tasks \in Seq(S \cup {moved})
    BY <1>1
  <2>4. tasks' \in Seq(S \cup {moved}) /\ Len(tasks') = Len(tasks)
    BY <2>1, <2>3
  <2>5. \A j \in 1..Len(tasks) : tasks'[j] = IF j = k THEN moved ELSE tasks[j]
    BY <2>1, <2>3
  <2> QED
    BY <2>2, <2>4, <2>5
<1> QED
  BY <1>4, <1>5

\* The kinds that matter here are disjoint from the others.
LEMMA OfOneKind ==
    /\ Services \cap IssueRepositories = {}
    /\ \A k \in {Users, SupportGroups, Components, ComponentVersions, ComponentInstances,
                 Issues, IssueVariants, IssueMatches} :
          k \cap Services = {} /\ k \cap IssueRepositories = {}
<1> DEFINE kind == <<Users, SupportGroups, Services, Components, ComponentVersions,
                     ComponentInstances, Issues, IssueVariants, IssueRepositories, IssueMatches>>
<1>1. \A k, m \in 1..10 : k # m => kind[k] \cap kind[m] = {}
  BY KindsDisjoint
<1>2. /\ kind[1] = Users /\ kind[2] = SupportGroups /\ kind[3] = Services
      /\ kind[4] = Components /\ kind[5] = ComponentVersions /\ kind[6] = ComponentInstances
      /\ kind[7] = Issues /\ kind[8] = IssueVariants /\ kind[9] = IssueRepositories
      /\ kind[10] = IssueMatches
  OBVIOUS
<1> HIDE DEF kind
<1>3. \A k \in 1..10 : /\ k # 3 => kind[k] \cap Services = {}
                       /\ k # 9 => kind[k] \cap IssueRepositories = {}
  BY <1>1, <1>2
<1> QED
  BY <1>2, <1>3

\* An object whose creation is still to be handled from the start.
Announced(o) ==
    \E k \in 1..Len(tasks) : tasks[k] =
        [event |-> [name |-> IF o \in Services THEN "CreateService" ELSE "CreateIssueRepository",
                    on |-> <<o>>], pc |-> 1, found |-> {}]

\* A request that keeps links and events and announces what it creates.
LEMMA RequestKeepsLinks ==
    ASSUME RepositoryInv, name' = [o \in Objects |-> name'[o]],
           disturbed \subseteq disturbed',
           \A r, s : Joined(r, s) => Joined(r, s)',
           Len(tasks) \in Nat, Len(tasks') \in Nat, Len(tasks) <= Len(tasks'),
           \A k \in 1..Len(tasks) : tasks'[k] = tasks[k],
           \A o \in (live' \cap (Services \cup IssueRepositories)) \ disturbed' :
              \/ o \in live /\ (o \in IssueRepositories => name'[o] = name[o])
              \/ Announced(o)'
    PROVE  RepositoryInv'
<1> SUFFICES ASSUME NEW r, NEW s, Repository(r)', Service(s)'
             PROVE  Joined(r, s)' \/ \E k \in 1..Len(tasks') : WillLink(tasks'[k], r, s)
  BY DEF RepositoryInv, LinkAhead
<1>0. /\ r \in (live' \cap IssueRepositories) \ disturbed' /\ name'[r] = DefaultRepositoryName
      /\ s \in (live' \cap Services) \ disturbed'
  BY DEF Repository, Service
<1>1. CASE Announced(s)'
  <2>1. PICK k \in 1..Len(tasks') :
          tasks'[k] = [event |-> [name |-> "CreateService", on |-> <<s>>], pc |-> 1, found |-> {}]
    BY <1>0, <1>1 DEF Announced
  <2> QED
    BY <2>1 DEF WillLink
<1>2. CASE Announced(r)'
  <2>1. PICK k \in 1..Len(tasks') :
          tasks'[k] = [event |-> [name |-> "CreateIssueRepository", on |-> <<r>>], pc |-> 1, found |-> {}]
    BY <1>0, <1>2, OfOneKind DEF Announced
  <2> QED
    BY <2>1 DEF WillLink
<1>3. CASE r \in live /\ name'[r] = name[r] /\ s \in live
  <2>1. Repository(r) /\ Service(s)
    BY <1>0, <1>3 DEF Repository, Service
  <2>2. Joined(r, s) \/ \E k \in 1..Len(tasks) : WillLink(tasks[k], r, s)
    BY <2>1 DEF RepositoryInv, LinkAhead
  <2>3. ASSUME NEW k \in 1..Len(tasks), WillLink(tasks[k], r, s)
        PROVE  k \in 1..Len(tasks') /\ WillLink(tasks'[k], r, s)
    BY <2>3
  <2> QED
    BY <2>2, <2>3
<1> QED
  BY <1>0, <1>1, <1>2, <1>3

\* PushEvent keeps the events in flight, and the ones of services and repositories are kept too.
LEMMA PushAppends ==
    ASSUME TasksOK, NEW event, NEW on, NEW faithful, PushEvent(event, on, faithful)
    PROVE  /\ disturbed \subseteq disturbed'
           /\ Len(tasks) \in Nat /\ Len(tasks') \in Nat /\ Len(tasks) <= Len(tasks')
           /\ \A k \in 1..Len(tasks) : tasks'[k] = tasks[k]
           /\ event \in {"CreateService", "CreateIssueRepository"} =>
                \E k \in 1..Len(tasks') :
                   tasks'[k] = [event |-> [name |-> event, on |-> on], pc |-> 1, found |-> {}]
<1> DEFINE e == [name |-> event, on |-> on]
           task == [event |-> e, pc |-> 1, found |-> {}]
<1>1. PICK S : tasks \in Seq(S)
  BY DEF TasksOK
<1>2. disturbed \subseteq disturbed'
  BY DEF PushEvent
<1>3. CASE Handlers(e) = <<>>
  <2>1. tasks' = tasks
    BY <1>3 DEF PushEvent
  <2>2. Calls(e) = 0
    BY <1>3, HandlersAdd DEF AddsOnly
  <2>3. event \notin {"CreateService", "CreateIssueRepository"}
    BY <2>2 DEF Calls
  <2> QED
    BY <1>1, <1>2, <2>1, <2>3
<1>4. CASE Handlers(e) # <<>>
  <2>1. tasks' = Append(tasks, task)
    BY <1>4 DEF PushEvent
  <2> HIDE DEF task
  <2>2. tasks \in Seq(S \cup {task}) /\ Len(tasks) \in Nat
    BY <1>1
  <2>3. /\ Len(tasks') = Len(tasks) + 1
        /\ tasks'[Len(tasks) + 1] = task
        /\ \A k \in 1..Len(tasks) : tasks'[k] = tasks[k]
    BY <2>1, <2>2
  <2>4. Len(tasks) + 1 \in 1..Len(tasks') /\ Len(tasks') \in Nat /\ Len(tasks) <= Len(tasks')
    BY <2>2, <2>3
  <2> QED
    BY <1>2, <2>2, <2>3, <2>4 DEF task
<1> QED
  BY <1>3, <1>4

\* A request that creates and renames nothing.
LEMMA EventKeepsLinks ==
    ASSUME TasksOK, RepositoryInv, name' = name, live' \subseteq live,
           \A r, s : Joined(r, s) => Joined(r, s)',
           \/ \E event, on, faithful : PushEvent(event, on, faithful)
           \/ \E on : NoEvent(on)
    PROVE  RepositoryInv'
<1>1. CASE \E event, on, faithful : PushEvent(event, on, faithful)
  <2>1. /\ disturbed \subseteq disturbed'
        /\ Len(tasks) \in Nat /\ Len(tasks') \in Nat /\ Len(tasks) <= Len(tasks')
        /\ \A k \in 1..Len(tasks) : tasks'[k] = tasks[k]
    BY <1>1, PushAppends
  <2> QED
    BY <2>1, RequestKeepsLinks DEF RepositoryInv
<1>2. CASE \E on : NoEvent(on)
  <2>1. disturbed \subseteq disturbed' /\ tasks' = tasks
    BY <1>2 DEF NoEvent
  <2>2. Len(tasks) \in Nat
    BY DEF TasksOK
  <2> QED
    BY <2>1, <2>2, RequestKeepsLinks DEF RepositoryInv
<1> QED
  BY <1>1, <1>2

\* The row of a create, with its event if it is a service or a repository.
LEMMA InsertKeepsLinks ==
    ASSUME TasksOK, RepositoryInv, NEW o, NEW n, NEW keys, Insert(o, n, keys), unlinked' = unlinked,
           NEW event, NEW on, PushEvent(event, on, TRUE),
           o \in Services => event = "CreateService" /\ on = <<o>>,
           o \in IssueRepositories => event = "CreateIssueRepository" /\ on = <<o>>
    PROVE  RepositoryInv'
<1>1. /\ live' = live \cup {o} /\ name' = [name EXCEPT ![o] = n] /\ links' = links \cup keys
      /\ o \notin live
  BY DEF Insert, rows
<1>2. name = [p \in Objects |-> name[p]]
  BY DEF RepositoryInv
<1>3. /\ name' = [p \in Objects |-> name'[p]]
      /\ \A p \in Objects : p # o => name'[p] = name[p]
  BY <1>1, <1>2
<1>4. \A r, s : Joined(r, s) => Joined(r, s)'
  BY <1>1 DEF Joined
<1>5. ASSUME o \in Services \cup IssueRepositories
      PROVE  Announced(o)'
  <2> DEFINE called == IF o \in Services THEN "CreateService" ELSE "CreateIssueRepository"
  <2>1. event = called /\ on = <<o>> /\ event \in {"CreateService", "CreateIssueRepository"}
    BY <1>5
  <2>2. PICK k \in 1..Len(tasks') :
          tasks'[k] = [event |-> [name |-> event, on |-> on], pc |-> 1, found |-> {}]
    BY <2>1, PushAppends
  <2> QED
    BY <2>1, <2>2 DEF Announced
<1>6. IssueRepositories \subseteq Objects
  BY DEF Objects, Kinds
<1>7. \A p \in (live' \cap (Services \cup IssueRepositories)) \ disturbed' :
              \/ p \in live /\ (p \in IssueRepositories => name'[p] = name[p])
              \/ Announced(p)'
  BY <1>1, <1>3, <1>5, <1>6
<1> QED
  BY <1>3, <1>4, <1>7, PushAppends, RequestKeepsLinks

\* Creates, shape by shape: only services and repositories come with their events.
LEMMA CreateMutationKeepsLinks ==
    ASSUME TasksOK, RepositoryInv, CreateMutation
    PROVE  RepositoryInv'
<1>1. PICK o, n, keys, event :
        /\ Create(event, o, n, keys)
        /\ o \in Services => event = "CreateService"
        /\ o \in IssueRepositories => event = "CreateIssueRepository"
  <2>1. CASE CreateUserMutation
    BY <2>1, OfOneKind DEF CreateUserMutation, CreateUser
  <2>2. CASE CreateSupportGroupMutation
    BY <2>2, OfOneKind DEF CreateSupportGroupMutation, CreateSupportGroup
  <2>3. CASE CreateComponentMutation
    BY <2>3, OfOneKind DEF CreateComponentMutation, CreateComponent
  <2>4. CASE CreateServiceMutation
    BY <2>4, OfOneKind DEF CreateServiceMutation, CreateService
  <2>5. CASE CreateIssueRepositoryMutation
    BY <2>5, OfOneKind DEF CreateIssueRepositoryMutation, CreateIssueRepository
  <2>6. CASE CreateIssueMutation
    BY <2>6, OfOneKind DEF CreateIssueMutation, CreateIssue
  <2>7. CASE CreateIssueVariantMutation
    BY <2>7, OfOneKind DEF CreateIssueVariantMutation, CreateIssueVariant
  <2>8. CASE CreateComponentVersionMutation
    BY <2>8, OfOneKind DEF CreateComponentVersionMutation, CreateComponentVersion
  <2>9. CASE CreateIssueMatchMutation
    BY <2>9, OfOneKind DEF CreateIssueMatchMutation, CreateIssueMatch
  <2> QED
    BY <2>1, <2>2, <2>3, <2>4, <2>5, <2>6, <2>7, <2>8, <2>9 DEF CreateMutation
<1> QED
  BY <1>1, InsertKeepsLinks DEF Create

LEMMA UpdateMutationKeepsLinks ==
    ASSUME TasksOK, RepositoryInv, UpdateMutation
    PROVE  RepositoryInv'
<1>1. PICK o, n : Rename(o, n)
  BY DEF UpdateMutation, UpdateUserMutation, UpdateSupportGroupMutation, UpdateComponentMutation,
     UpdateServiceMutation, UpdateIssueRepositoryMutation, UpdateIssueMutation,
     UpdateIssueVariantMutation, UpdateUser, UpdateSupportGroup, UpdateComponent, UpdateService,
     UpdateIssueRepository, UpdateIssue, UpdateIssueVariant
<1>2. /\ name' = [name EXCEPT ![o] = n] /\ UNCHANGED <<live, links, unlinked, tasks>>
      /\ disturbed' = disturbed \cup ({o} \cap IssueRepositories)
  BY <1>1 DEF Rename
<1>3. name = [p \in Objects |-> name[p]] /\ Len(tasks) \in Nat
  BY DEF RepositoryInv, TasksOK
<1>4. name' = [p \in Objects |-> name'[p]] /\ \A p \in Objects : p # o => name'[p] = name[p]
  BY <1>2, <1>3
<1>5. IssueRepositories \subseteq Objects
  BY DEF Objects, Kinds
<1>6. \A r, s : Joined(r, s) => Joined(r, s)'
  BY <1>2 DEF Joined
<1> QED
  BY <1>2, <1>3, <1>4, <1>5, <1>6, RequestKeepsLinks

LEMMA DeleteMutationKeepsLinks ==
    ASSUME TasksOK, RepositoryInv, DeleteMutation
    PROVE  RepositoryInv'
<1>1. PICK o, event : Delete(event, o)
  BY DEF DeleteMutation, DeleteUserMutation, DeleteSupportGroupMutation, DeleteComponentMutation,
     DeleteServiceMutation, DeleteIssueRepositoryMutation, DeleteIssueMutation,
     DeleteIssueVariantMutation, DeleteComponentVersionMutation, DeleteComponentInstanceMutation,
     DeleteIssueMatchMutation, DeleteUser, DeleteSupportGroup, DeleteComponent, DeleteService,
     DeleteIssueRepository, DeleteIssue, DeleteIssueVariant, DeleteComponentVersion,
     DeleteComponentInstance, DeleteIssueMatch
<1>2. /\ name' = name /\ live' \subseteq live /\ UNCHANGED <<links, unlinked>>
      /\ PushEvent(event, <<o>>, TRUE)
  BY <1>1 DEF Delete, SoftDelete
<1> QED
  BY <1>2, EventKeepsLinks DEF Joined

LEMMA LinkMutationKeepsLinks ==
    ASSUME TasksOK, RepositoryInv, LinkMutation \/ UnlinkMutation
    PROVE  RepositoryInv'
<1>1. PICK l, on, event : Link(event, l, on) \/ Unlink(event, l, on)
  <2>1. CASE LinkMutation
    BY <2>1 DEF LinkMutation, AddServiceToSupportGroupMutation, AddUserToSupportGroupMutation,
       AddOwnerToServiceMutation, AddIssueRepositoryToServiceMutation,
       AddComponentVersionToIssueMutation, AddServiceToSupportGroup, AddUserToSupportGroup,
       AddOwnerToService, AddIssueRepositoryToService, AddComponentVersionToIssue
  <2>2. CASE UnlinkMutation
    BY <2>2 DEF UnlinkMutation, RemoveServiceFromSupportGroupMutation,
       RemoveUserFromSupportGroupMutation, RemoveOwnerFromServiceMutation,
       RemoveIssueRepositoryFromServiceMutation, RemoveComponentVersionFromIssueMutation,
       RemoveServiceFromSupportGroup, RemoveUserFromSupportGroup, RemoveOwnerFromService,
       RemoveIssueRepositoryFromService, RemoveComponentVersionFromIssue
  <2> QED
    BY <2>1, <2>2
<1>2. /\ name' = name /\ live' = live /\ PushEvent(event, on, TRUE)
      /\ \/ links' = links \cup {l} /\ unlinked' = unlinked
         \/ links' = links \ {l} /\ unlinked' = unlinked \cup {l}
  BY <1>1 DEF Link, Unlink, AssociateId, DissociateId
<1>3. \A r, s : Joined(r, s) => Joined(r, s)'
  BY <1>2 DEF Joined
<1> QED
  BY <1>2, <1>3, EventKeepsLinks

\* The foreign keys that updates replace link no repository.
LEMMA KeysKeepLinks ==
    ASSUME TasksOK, RepositoryInv, NEW old, NEW new, SetKeys(old, new), unlinked' = unlinked,
           \A l \in old : l[2] # "issue_repository",
           \/ \E event, on, faithful : PushEvent(event, on, faithful)
           \/ \E on : NoEvent(on)
    PROVE  RepositoryInv'
<1>1. name' = name /\ live' = live /\ links \ old \subseteq links'
  BY DEF SetKeys
<1>2. \A r, s : Tuple(r, "issue_repository", s) \notin old
  BY DEF Tuple
<1>3. \A r, s : Joined(r, s) => Joined(r, s)'
  BY <1>1, <1>2 DEF Joined
<1> QED
  BY <1>1, <1>3, EventKeepsLinks

LEMMA OtherMutationKeepsLinks ==
    ASSUME TasksOK, RepositoryInv,
           \/ UpdateComponentVersionMutation \/ UpdateIssueMatchMutation
           \/ CreateComponentInstanceMutation \/ UpdateComponentInstanceMutation
    PROVE  RepositoryInv'
<1>1. ASSUME NEW v, NEW c, NEW found, UpdateComponentVersion(v, c, found)
      PROVE  RepositoryInv'
  <2> DEFINE old == {l \in links : l[1] = v /\ l[2] = "component_version"}
             new == {Tuple(v, "component_version", c)} \ {Tuple(v, "component_version", Nobody)}
  <2>1. /\ SetKeys(old, new) /\ unlinked' = unlinked
        /\ \/ PushEvent("UpdateComponentVersion", <<v, c>>, TRUE)
           \/ NoEvent({v})
    BY <1>1 DEF UpdateComponentVersion
  <2>2. \A l \in old : l[2] # "issue_repository"
    OBVIOUS
  <2> HIDE DEF old, new
  <2> QED
    BY <2>1, <2>2, KeysKeepLinks
<1>2. ASSUME NEW m, NEW i, UpdateIssueMatch(m, i)
      PROVE  RepositoryInv'
  <2> DEFINE old == {l \in links : l[3] = m /\ l[2] = "component_instance"}
             new == {Tuple(i, "component_instance", m)} \ {Tuple(Nobody, "component_instance", m)}
  <2>1. /\ SetKeys(old, new) /\ unlinked' = unlinked
        /\ PushEvent("UpdateIssueMatch", <<m, i>>, TRUE)
    BY <1>2 DEF UpdateIssueMatch
  <2>2. \A l \in old : l[2] # "issue_repository"
    OBVIOUS
  <2> HIDE DEF old, new
  <2> QED
    BY <2>1, <2>2, KeysKeepLinks
<1>3. ASSUME NEW i \in ComponentInstances, NEW n, NEW s, NEW v, CreateComponentInstance(i, n, s, v)
      PROVE  RepositoryInv'
  BY <1>3, InsertKeepsLinks, OfOneKind DEF CreateComponentInstance
<1>4. ASSUME NEW i, NEW s, NEW v, NEW found, UpdateComponentInstance(i, s, v, found)
      PROVE  RepositoryInv'
  <2>1. \A x, y : \A l \in InstanceKeys(i, x, y) : l[2] # "issue_repository"
    BY DEF InstanceKeys, Tuple
  <2>2. PICK new : SetKeys(InstanceKeys(i, ServiceKey(i), VersionKey(i)), new)
    BY <1>4 DEF UpdateComponentInstance
  <2>3. /\ unlinked' = unlinked
        /\ \/ \E event, on, faithful : PushEvent(event, on, faithful)
           \/ \E on : NoEvent(on)
    BY <1>4 DEF UpdateComponentInstance
  <2> QED
    BY <2>1, <2>2, <2>3, KeysKeepLinks
<1> QED
  BY <1>1, <1>2, <1>3, <1>4 DEF UpdateComponentVersionMutation, UpdateIssueMatchMutation,
     CreateComponentInstanceMutation, UpdateComponentInstanceMutation

\* What a worker leaves alone.
LEMMA WorkerKeepsRows ==
    ASSUME NEW k, HandleEvent(k) \/ CutRead(k) \/ HandlerFails(k)
    PROVE  /\ UNCHANGED <<live, name, unlinked>> /\ links \subseteq links'
           /\ disturbed \subseteq disturbed'
  BY DEF HandleEvent, CutRead, HandlerFails, AddStep, ReadStep, DropStep, UnlessStep, LinkStep, Write

\* A worker that does not touch the event keeps it in flight.
LEMMA WorkerKeepsOthers ==
    ASSUME TasksOK, NEW k \in 1..Len(tasks), HandleEvent(k) \/ CutRead(k) \/ HandlerFails(k),
           NEW j \in 1..Len(tasks), j # k
    PROVE  \E i \in 1..Len(tasks') : tasks'[i] = tasks[j]
<1>1. Current(k).skip \in Nat /\ Current(k).lost \in Nat
  BY CurrentOK
<1>2. PICK n \in Nat : \E found : Advance(k, n, found)
  <2>1. CASE HandleEvent(k)
    BY <1>1, <2>1 DEF HandleEvent, AddStep, ReadStep, DropStep, UnlessStep, LinkStep
  <2>2. CASE HandlerFails(k)
    BY <1>1, <2>2 DEF HandlerFails
  <2>3. CASE CutRead(k)
    BY <2>3 DEF CutRead
  <2> QED
    BY <2>1, <2>2, <2>3
<1> QED
  BY <1>2, AdvanceOthers

LEMMA StepFields ==
    ASSUME NEW do, NEW of, NEW skip, NEW lost
    PROVE  Step(do, of, skip, lost).do = do /\ Step(do, of, skip, lost).of = of
  BY DEF Step

\* The handler that is ahead lists the other one, then links it.
LEMMA HandlerLinks ==
    ASSUME TasksOK, NEW k \in 1..Len(tasks), HandleEvent(k), NEW r, NEW s,
           Repository(r), Service(s), WillLink(tasks[k], r, s)
    PROVE  \/ Tuple(r, "issue_repository", s) \in links'
           \/ \E i \in 1..Len(tasks') : WillLink(tasks'[i], r, s)
<1> DEFINE t == tasks[k]
           other == IF t.event = [name |-> "CreateService", on |-> <<s>>] THEN r ELSE s
           one == IF t.event = [name |-> "CreateService", on |-> <<s>>] THEN s ELSE r
<1>1. /\ Calls(t.event) >= 2
      /\ Handlers(t.event)[1].do = "list" /\ other \in Handlers(t.event)[1].of
      /\ Handlers(t.event)[2].do = "link" /\ Handlers(t.event)[2].of = {one}
  <2>1. CASE t.event = [name |-> "CreateService", on |-> <<s>>]
    <3>1. /\ Calls(t.event) = 3
          /\ Handlers(t.event)[1] = Step("list", {q \in live \cap IssueRepositories :
                                                     name[q] = DefaultRepositoryName}, 0, 1)
          /\ Handlers(t.event)[2] = Step("link", {s}, 0, 0)
      BY <2>1, ServiceCalls
    <3>2. r \in {q \in live \cap IssueRepositories : name[q] = DefaultRepositoryName}
      BY DEF Repository
    <3> QED
      BY <2>1, <3>1, <3>2, StepFields
  <2>2. CASE t.event # [name |-> "CreateService", on |-> <<s>>]
    <3>1. t.event = [name |-> "CreateIssueRepository", on |-> <<r>>]
      BY <2>2 DEF WillLink
    <3>2. /\ Calls(t.event) = 2
          /\ Handlers(t.event)[1] = Step("list", live \cap Services, 0, 1)
          /\ Handlers(t.event)[2] = Step("link", {r}, 0, 0)
      BY <3>1, RepositoryCalls
    <3>3. s \in live \cap Services
      BY DEF Service
    <3> QED
      BY <2>2, <3>2, <3>3, StepFields
  <2> QED
    BY <2>1, <2>2
<1>2. t.pc = 1 \/ (t.pc = 2 /\ other \in t.found)
  BY DEF WillLink
<1>3. CASE t.pc = 1
  <2>1. Current(k) = Handlers(t.event)[1]
    BY <1>3 DEF Current
  <2>2. Advance(k, 1, Current(k).of)
    BY <1>1, <2>1 DEF HandleEvent, AddStep, ReadStep, DropStep, UnlessStep, LinkStep
  <2>3. t.pc + 1 <= Calls(t.event)
    BY <1>1, <1>3, CallsType
  <2>4. PICK i \in 1..Len(tasks') :
           tasks'[i] = [event |-> t.event, pc |-> t.pc + 1, found |-> Current(k).of]
    BY <2>2, <2>3, AdvanceOthers
  <2>5. tasks'[i].event = t.event /\ tasks'[i].pc = 2 /\ other \in tasks'[i].found
    BY <1>1, <1>3, <2>1, <2>4
  <2>6. WillLink(tasks'[i], r, s)
    BY <2>5 DEF WillLink
  <2> QED
    BY <2>6
<1>4. CASE t.pc = 2 /\ other \in t.found
  <2>1. Current(k) = Handlers(t.event)[2]
    BY <1>4 DEF Current
  <2>2. Write({}, {}, Linked(Current(k).of \cup t.found))
    BY <1>1, <2>1 DEF HandleEvent, AddStep, ReadStep, DropStep, UnlessStep, LinkStep
  <2>3. r \in Current(k).of \cup t.found /\ s \in Current(k).of \cup t.found
    BY <1>1, <1>4, <2>1
  <2>4. Tuple(r, "issue_repository", s) \in Linked(Current(k).of \cup t.found)
    BY <2>3 DEF Linked, Repository, Service
  <2> QED
    BY <2>2, <2>4 DEF Write
<1> QED
  BY <1>2, <1>3, <1>4

\* An event that fails or is lost disturbs the object it announced.
LEMMA LostDisturbs ==
    ASSUME NEW r, NEW s, NEW t, Repository(r), Service(s), WillLink(t, r, s),
           Touched(t.event) \subseteq disturbed'
    PROVE  ~(Repository(r)' /\ Service(s)')
<1>1. r # Nobody /\ s # Nobody
  BY SeedAssumption DEF Objects, Kinds, Repository, Service
<1>2. Touched(t.event) = {s} \/ Touched(t.event) = {r}
  <2>1. CASE t.event = [name |-> "CreateService", on |-> <<s>>]
    <3>1. Touched(t.event) = {s} \ {Nobody}
      BY <2>1, ServiceCalls
    <3> QED
      BY <1>1, <3>1
  <2>2. CASE t.event = [name |-> "CreateIssueRepository", on |-> <<r>>]
    <3>1. Touched(t.event) = {r} \ {Nobody}
      BY <2>2, RepositoryCalls
    <3> QED
      BY <1>1, <3>1
  <2> QED
    BY <2>1, <2>2 DEF WillLink
<1> QED
  BY <1>2 DEF Repository, Service

LEMMA WorkerKeepsLinks ==
    ASSUME TasksOK, RepositoryInv, Worker
    PROVE  RepositoryInv'
<1>1. DOMAIN tasks = 1..Len(tasks)
  BY DEF TasksOK
<1>2. PICK k \in 1..Len(tasks) : HandleEvent(k) \/ CutRead(k) \/ HandlerFails(k)
  BY <1>1 DEF Worker
<1>3. /\ UNCHANGED <<live, name, unlinked>> /\ links \subseteq links'
      /\ disturbed \subseteq disturbed'
  BY <1>2, WorkerKeepsRows
<1>4. ASSUME NEW r, NEW s, Repository(r)', Service(s)'
      PROVE  Joined(r, s)' \/ \E i \in 1..Len(tasks') : WillLink(tasks'[i], r, s)
  <2>1. Repository(r) /\ Service(s)
    BY <1>3, <1>4 DEF Repository, Service
  <2>2. CASE Joined(r, s)
    BY <1>3, <2>2 DEF Joined
  <2>3. ASSUME NEW j \in 1..Len(tasks), WillLink(tasks[j], r, s)
        PROVE  Joined(r, s)' \/ \E i \in 1..Len(tasks') : WillLink(tasks'[i], r, s)
    <3>1. CASE j # k
      BY <1>2, <2>3, <3>1, WorkerKeepsOthers
    <3>2. CASE j = k /\ HandleEvent(k)
      BY <2>1, <2>3, <3>2, HandlerLinks DEF Joined
    <3>3. CASE j = k /\ (CutRead(k) \/ HandlerFails(k))
      <4>1. Touched(tasks[j].event) \subseteq disturbed'
        BY <3>3 DEF CutRead, HandlerFails
      <4> QED
        BY <1>4, <2>1, <2>3, <4>1, LostDisturbs
    <3> QED
      BY <1>2, <3>1, <3>2, <3>3
  <2> QED
    BY <2>1, <2>2, <2>3 DEF RepositoryInv, LinkAhead
<1> QED
  BY <1>3, <1>4 DEF RepositoryInv, LinkAhead

LEMMA RestartKeepsLinks ==
    ASSUME TasksOK, RepositoryInv, Restart
    PROVE  RepositoryInv'
<1>1. /\ UNCHANGED <<live, name, links, unlinked>>
      /\ disturbed' = disturbed \cup InFlight
  BY DEF Restart
<1>2. \A k \in 1..Len(tasks) : Touched(tasks[k].event) \subseteq disturbed'
  BY <1>1 DEF InFlight, TasksOK
<1>3. ASSUME NEW r, NEW s, Repository(r)', Service(s)'
      PROVE  Joined(r, s)'
  <2>1. Repository(r) /\ Service(s)
    BY <1>1, <1>3 DEF Repository, Service
  <2>2. ~(\E k \in 1..Len(tasks) : WillLink(tasks[k], r, s))
    BY <1>2, <1>3, <2>1, LostDisturbs
  <2> QED
    BY <1>1, <2>1, <2>2 DEF RepositoryInv, LinkAhead, Joined
<1> QED
  BY <1>1, <1>3 DEF RepositoryInv, LinkAhead

\* The catalogue of Init is linked.
LEMMA InitLinked == Init => RepositoryInv
<1> SUFFICES ASSUME Init PROVE RepositoryInv
  OBVIOUS
<1>1. name = [o \in Objects |-> name[o]]
  BY DEF Init
<1>2. ASSUME NEW r, NEW s, Repository(r), Service(s)
      PROVE  Joined(r, s)
  <2>1. /\ r \in DOMAIN Seed \cap IssueRepositories /\ s \in DOMAIN Seed \cap Services
        /\ name[r] = DefaultRepositoryName
    BY <1>2 DEF Init, Repository, Service
  <2>2. Seed[r] = DefaultRepositoryName
    BY <2>1, SeedAssumption DEF Init
  <2> QED
    BY <2>1, <2>2, SeedLinked DEF Init, Joined, Tuple
<1> QED
  BY <1>1, <1>2 DEF RepositoryInv, LinkAhead

LEMMA NextKeepsLinks == StoreInv /\ RepositoryInv /\ [Next]_vars => RepositoryInv'
<1> SUFFICES ASSUME TasksOK, RepositoryInv, [Next]_vars
             PROVE  RepositoryInv'
  BY DEF StoreInv
<1>1. CASE UNCHANGED vars
  <2>1. UNCHANGED <<live, name, links, tasks, disturbed, unlinked>>
    BY <1>1 DEF vars
  <2> QED
    BY <2>1 DEF RepositoryInv, LinkAhead, Repository, Service, Joined
<1>2. CASE Mutation
  <2>1. CASE CreateMutation \/ UpdateMutation \/ DeleteMutation \/ LinkMutation \/ UnlinkMutation
    BY <2>1, CreateMutationKeepsLinks, UpdateMutationKeepsLinks, DeleteMutationKeepsLinks,
       LinkMutationKeepsLinks
  <2>2. CASE \/ UpdateComponentVersionMutation \/ UpdateIssueMatchMutation
             \/ CreateComponentInstanceMutation \/ UpdateComponentInstanceMutation
    BY <2>2, OtherMutationKeepsLinks
  <2> QED
    BY <1>2, <2>1, <2>2 DEF Mutation, CreateMutation, UpdateMutation, DeleteMutation,
       LinkMutation, UnlinkMutation
<1> QED
  BY <1>1, <1>2, WorkerKeepsLinks, RestartKeepsLinks DEF Next

\* DefaultRepositoryLinked: however the handlers of services and repositories interleave,
\* each pair is linked by one of them, unless its event fails or is lost or a request takes
\* the link away.
THEOREM EveryServiceHasDefault == Spec => []DefaultRepositoryLinked
<1>1. StoreInv /\ RepositoryInv => DefaultRepositoryLinked
  <2> SUFFICES ASSUME RepositoryInv, tasks = <<>>,
                      NEW r \in (live \cap IssueRepositories) \ disturbed,
                      NEW s \in (live \cap Services) \ disturbed,
                      name[r] = DefaultRepositoryName
               PROVE  Tuple(r, "issue_repository", s) \in links \cup unlinked
    BY DEF DefaultRepositoryLinked, Settled
  <2>1. Repository(r) /\ Service(s)
    BY DEF Repository, Service
  <2>2. ~(\E k \in 1..Len(tasks) : WillLink(tasks[k], r, s))
    OBVIOUS
  <2> QED
    BY <2>1, <2>2 DEF RepositoryInv, LinkAhead, Joined
<1> QED
  BY <1>1, InitLinked, NextKeepsLinks, StoreInvariant, PTL DEF Spec
-----------------------------------------------------------------------------
(* The grants settle: a tuple that does not say what the database says is  *)
(* ahead of an event that drops it, a link without its tuple is ahead of   *)
(* an event that adds it.                                                  *)

Ends(t) == {t[1], t[3]}

Deletes == {"DeleteUser", "DeleteService", "DeleteComponentInstance", "DeleteComponentVersion",
            "DeleteComponent", "DeleteIssueMatch"}
Removes == {"RemoveServiceFromSupportGroup", "RemoveUserFromSupportGroup", "RemoveOwnerFromService"}
Adds == {"AddServiceToSupportGroup", "AddUserToSupportGroup", "AddOwnerToService"}
Roles == {"CreateComponentVersion", "CreateSupportGroup", "CreateComponent", "CreateIssueMatch"}

\* The kinds of the calls of an event's handlers; they depend on the event only.
Shape(e) ==
    CASE e.name \in Adds \cup Roles \cup {"CreateComponentInstance"} -> <<"add">>
      [] e.name = "CreateIssueRepository" -> <<"list", "link">>
      [] e.name = "CreateService" -> <<"list", "link", "add">>
      [] e.name \in Deletes \cup Removes -> <<"find", "drop">>
      [] e.name = "DeleteSupportGroup" -> <<"find", "drop", "find", "drop">>
      [] e.name \in {"UpdateComponentVersion", "UpdateIssueMatch"} -> <<"find", "drop", "add">>
      [] e.name = "UpdateComponentInstance" ->
           IF e.on[3] = Nobody THEN <<"unless", "find", "drop", "add">>
           ELSE <<"unless", "find", "drop", "add", "unless", "find", "drop", "add">>
      [] OTHER -> <<>>

\* What call n adds beside a role.
AddsAt(e, n) ==
    CASE e.name = "UpdateComponentInstance" ->
           (CASE n = 4 -> {Tuple(e.on[2], "related_service", e.on[1])}
              [] n = 8 -> {Tuple(e.on[1], "component_instance", e.on[3])}
              [] OTHER -> {})
      [] e.name \in {"UpdateComponentVersion", "UpdateIssueMatch"} -> IF n = 3 THEN Grants(e) ELSE {}
      [] OTHER -> IF n = 1 THEN Grants(e) ELSE {}

\* The relation that a request removed.
Removed(e) ==
    CASE e.name = "RemoveServiceFromSupportGroup" -> Tuple(e.on[1], "support_group", e.on[2])
      [] e.name = "RemoveUserFromSupportGroup" -> Tuple(e.on[2], "member", e.on[1])
      [] OTHER -> Tuple(e.on[2], "owner", e.on[1])

\* The relations that call n looks for to drop them.
SweepsAt(e, n, t) ==
    \/ e.name \in Deletes /\ n = 1 /\ e.on[1] \in Ends(t)
    \/ e.name = "DeleteSupportGroup" /\ n = 3 /\ e.on[1] \in Ends(t)
    \/ e.name \in Removes /\ n = 1 /\ t = Removed(e)
    \/ e.name = "UpdateComponentVersion" /\ n = 1 /\ t[1] = e.on[1] /\ t[2] = "component_version"
    \/ e.name = "UpdateIssueMatch" /\ n = 1 /\ t[3] = e.on[1] /\ t[2] = "component_instance"
    \/ e.name = "UpdateComponentInstance" /\ n = 2 /\ t[2] = "related_service" /\ t[3] = e.on[1]
    \/ /\ e.name = "UpdateComponentInstance" /\ n = 6 /\ e.on[3] # Nobody
       /\ t[2] = "component_instance" /\ t[1] = e.on[1] /\ t[3] \in ComponentVersions

\* The objects of an event are of the kinds its handlers take them for.
Subject(e) ==
    CASE e.name \in {"CreateService", "DeleteService", "AddOwnerToService", "RemoveOwnerFromService"} -> Services
      [] e.name \in {"CreateSupportGroup", "DeleteSupportGroup", "AddServiceToSupportGroup",
                     "RemoveServiceFromSupportGroup", "AddUserToSupportGroup",
                     "RemoveUserFromSupportGroup"} -> SupportGroups
      [] e.name \in {"CreateComponentInstance", "UpdateComponentInstance", "DeleteComponentInstance"} ->
           ComponentInstances
      [] e.name \in {"CreateComponentVersion", "UpdateComponentVersion", "DeleteComponentVersion"} ->
           ComponentVersions
      [] e.name \in {"CreateIssueMatch", "UpdateIssueMatch", "DeleteIssueMatch"} -> IssueMatches
      [] e.name \in {"CreateComponent", "DeleteComponent"} -> Components
      [] e.name = "DeleteUser" -> Users
      [] OTHER -> IssueRepositories

EventOK(e) ==
    /\ e.on[1] \in Subject(e) /\ 1 \in DOMAIN e.on
    /\ e.name \in Removes \cup Adds \cup {"UpdateComponentVersion", "UpdateIssueMatch", "CreateComponentInstance",
                                       "UpdateComponentInstance"} => 2 \in DOMAIN e.on
    /\ e.name \in {"CreateComponentInstance", "UpdateComponentInstance"} => 3 \in DOMAIN e.on
    /\ \A t \in Grants(e) : t \in Relations \/ Nobody \in Ends(t)
    /\ e.name = "UpdateComponentInstance" => e.on[2] # Nobody

-----------------------------------------------------------------------------
(* What the calls of an event mean.                                        *)

\* A relation of the store, component by component.
LEMMA RelationShape ==
    ASSUME NEW t
    PROVE  t \in Relations <=>
             /\ t = <<t[1], t[2], t[3]>>
             /\ \/ t[1] \in Users /\ t[2] = "owner" /\ t[3] \in Services
                \/ t[1] \in Users /\ t[2] = "member" /\ t[3] \in SupportGroups
                \/ t[1] \in SupportGroups /\ t[2] = "support_group" /\ t[3] \in Services
                \/ t[1] \in Services /\ t[2] = "related_service" /\ t[3] \in ComponentInstances
                \/ t[1] \in ComponentInstances /\ t[2] = "component_instance"
                     /\ t[3] \in ComponentVersions \cup IssueMatches
                \/ t[1] \in ComponentVersions /\ t[2] = "component_version" /\ t[3] \in Components
BY DEF Relations

\* Objects of different kinds differ, and none is id 0 or the role.
LEMMA KindsApart ==
    /\ Users \cap SupportGroups = {} /\ Users \cap Services = {} /\ Users \cap Components = {}
    /\ Users \cap ComponentVersions = {} /\ Users \cap ComponentInstances = {} /\ Users \cap IssueMatches = {}
    /\ SupportGroups \cap Services = {} /\ SupportGroups \cap Components = {}
    /\ SupportGroups \cap ComponentVersions = {} /\ SupportGroups \cap ComponentInstances = {}
    /\ SupportGroups \cap IssueMatches = {}
    /\ Services \cap Components = {} /\ Services \cap ComponentVersions = {}
    /\ Services \cap ComponentInstances = {} /\ Services \cap IssueMatches = {}
    /\ Components \cap ComponentVersions = {} /\ Components \cap ComponentInstances = {}
    /\ Components \cap IssueMatches = {}
    /\ ComponentVersions \cap ComponentInstances = {} /\ ComponentVersions \cap IssueMatches = {}
    /\ ComponentInstances \cap IssueMatches = {}
<1> DEFINE kind == <<Users, SupportGroups, Services, Components, ComponentVersions,
                     ComponentInstances, Issues, IssueVariants, IssueRepositories, IssueMatches>>
<1>1. \A k, m \in 1..10 : k # m => kind[k] \cap kind[m] = {}
  BY KindsDisjoint
<1>2. /\ kind[1] = Users /\ kind[2] = SupportGroups /\ kind[3] = Services /\ kind[4] = Components
      /\ kind[5] = ComponentVersions /\ kind[6] = ComponentInstances /\ kind[10] = IssueMatches
  OBVIOUS
<1>3. /\ 1 \in 1..10 /\ 2 \in 1..10 /\ 3 \in 1..10 /\ 4 \in 1..10 /\ 5 \in 1..10 /\ 6 \in 1..10
      /\ 10 \in 1..10
  OBVIOUS
<1> HIDE DEF kind
<1>4. /\ kind[1] \cap kind[2] = {} /\ kind[1] \cap kind[3] = {} /\ kind[1] \cap kind[4] = {}
      /\ kind[1] \cap kind[5] = {} /\ kind[1] \cap kind[6] = {} /\ kind[1] \cap kind[10] = {}
      /\ kind[2] \cap kind[3] = {} /\ kind[2] \cap kind[4] = {} /\ kind[2] \cap kind[5] = {}
      /\ kind[2] \cap kind[6] = {} /\ kind[2] \cap kind[10] = {}
  BY <1>1, <1>3
<1>5. /\ kind[3] \cap kind[4] = {} /\ kind[3] \cap kind[5] = {} /\ kind[3] \cap kind[6] = {}
      /\ kind[3] \cap kind[10] = {} /\ kind[4] \cap kind[5] = {} /\ kind[4] \cap kind[6] = {}
      /\ kind[4] \cap kind[10] = {} /\ kind[5] \cap kind[6] = {} /\ kind[5] \cap kind[10] = {}
      /\ kind[6] \cap kind[10] = {}
  BY <1>1, <1>3
<1> QED
  BY <1>2, <1>4, <1>5

LEMMA KindsOfObjects ==
    /\ Users \subseteq Objects /\ SupportGroups \subseteq Objects /\ Services \subseteq Objects
    /\ Components \subseteq Objects /\ ComponentVersions \subseteq Objects
    /\ ComponentInstances \subseteq Objects /\ IssueMatches \subseteq Objects
    /\ IssueRepositories \subseteq Objects
    /\ Nobody \notin Objects /\ Role \notin Objects
BY SeedAssumption, SeedRelations DEF Objects, Kinds

\* Both ends of a relation are objects.
LEMMA EndsAreObjects ==
    ASSUME NEW t \in Relations
    PROVE  t[1] \in Objects /\ t[3] \in Objects /\ t[1] # Nobody /\ t[3] # Nobody
BY RelationShape, KindsOfObjects

LEMMA KindOfObject == \A o \in Objects : o \in KindOf(o)
BY DEF Objects, KindOf

\* The subject of an event is an object, which the event touches.
LEMMA SubjectTouched ==
    ASSUME NEW e, EventOK(e)
    PROVE  e.on[1] \in Objects /\ e.on[1] # Nobody /\ e.on[1] \in Touched(e)
<1>1. Subject(e) \subseteq Objects
  BY KindsOfObjects DEF Subject
<1> QED
  BY <1>1, KindsOfObjects DEF EventOK, Touched

\* A relation that an event adds is between objects it touches.
LEMMA AddsTouch ==
    ASSUME NEW e, EventOK(e), NEW n, NEW t \in AddsAt(e, n), t \in Relations
    PROVE  Ends(t) \subseteq Touched(e)
<1>1. t[1] # Nobody /\ t[3] # Nobody
  BY EndsAreObjects
<1>2. CASE e.name = "UpdateComponentInstance"
  <2>1. {e.on[1], e.on[2], e.on[3]} \ {Nobody} \subseteq Touched(e)
    BY <1>2 DEF EventOK, Touched
  <2>2. \/ t = Tuple(e.on[2], "related_service", e.on[1])
        \/ t = Tuple(e.on[1], "component_instance", e.on[3])
    BY <1>2 DEF AddsAt
  <2> QED
    BY <1>1, <2>1, <2>2 DEF Ends, Tuple
<1>3. CASE e.name # "UpdateComponentInstance"
  <2>1. t \in Grants(e)
    BY <1>3 DEF AddsAt
  <2>2. CASE e.name = "CreateComponentInstance"
    <3>1. {e.on[1], e.on[2], e.on[3]} \ {Nobody} \subseteq Touched(e)
      BY <2>2 DEF EventOK, Touched
    <3>2. \/ t = Tuple(e.on[2], "related_service", e.on[1])
          \/ t = Tuple(e.on[1], "component_instance", e.on[3])
      BY <2>1, <2>2 DEF Grants
    <3> QED
      BY <1>1, <3>1, <3>2 DEF Ends, Tuple
  <2>3. CASE e.name # "CreateComponentInstance"
    <3>1. /\ e.name \in Adds \cup {"UpdateComponentVersion", "UpdateIssueMatch"}
          /\ {t[1], t[3]} = {e.on[1], e.on[2]}
      BY <1>3, <2>1, <2>3 DEF Grants, Adds, Tuple
    <3>2. {e.on[1], e.on[2]} \ {Nobody} \subseteq Touched(e)
      BY <3>1 DEF EventOK, Touched
    <3> QED
      BY <1>1, <3>1, <3>2 DEF Ends
  <2> QED
    BY <2>2, <2>3
<1> QED
  BY <1>2, <1>3

\* A relation that an event looks for mentions the subject of the event.
LEMMA SweepsTouch ==
    ASSUME NEW e, EventOK(e), NEW n, NEW t, SweepsAt(e, n, t)
    PROVE  e.on[1] \in Ends(t) /\ e.on[1] \in Touched(e)
BY SubjectTouched DEF SweepsAt, Ends, Removed, Tuple

\* What call n of an event does, said of the tables above.
Means(e, n, step) ==
    /\ step.do = Shape(e)[n]
    /\ step.do = "add" => AddsAt(e, n) \subseteq step.of
    /\ step.do = "add" => step.of \subseteq AddsAt(e, n) \cup {Tuple(Role, "role", e.on[1])}
    /\ step.do # "add" => AddsAt(e, n) = {}
    /\ step.do = "find" => \A t \in Relations : t \in step.of <=> t \in tuples /\ SweepsAt(e, n, t)
    /\ step.do # "find" => \A t \in Relations : ~SweepsAt(e, n, t)
    /\ step.do = "unless" => step.skip = 3 /\ step.of = AddsAt(e, n + 3)

\* The calls of two handlers, one after the other.
LEMMA CallsOfBoth ==
    ASSUME NEW S, NEW q \in Seq(S), NEW T, NEW p \in Seq(T), NEW k \in 1..(Len(q) + Len(p))
    PROVE  (q \o p)[k] = IF k <= Len(q) THEN q[k] ELSE p[k - Len(q)]
<1>1. q \in Seq(S \cup T) /\ p \in Seq(S \cup T)
  OBVIOUS
<1> QED
  BY <1>1, ConcatProperties

\* An event without handlers of the catalogue's own runs those of the store alone.
LEMMA HandlersOfStore ==
    ASSUME NEW e, e.name \notin {"CreateService", "CreateIssueRepository"}
    PROVE  Handlers(e) = SubscribeAuthzHandlers(e)
<1>1. SubscribeHandlers(e) = <<>>
  BY DEF SubscribeHandlers
<1>2. PICK T : SubscribeAuthzHandlers(e) \in Seq(T)
  BY SubscribedAuthzAdd DEF AddsOnly
<1>3. <<>> \o SubscribeAuthzHandlers(e) = SubscribeAuthzHandlers(e)
  BY <1>2, ConcatEmptySeq
<1> QED
  BY <1>1, <1>3 DEF Handlers

\* The fields of a step.
LEMMA StepRecord ==
    ASSUME NEW do, NEW of, NEW skip, NEW lost
    PROVE  /\ Step(do, of, skip, lost).do = do /\ Step(do, of, skip, lost).of = of
           /\ Step(do, of, skip, lost).skip = skip
BY DEF Step

\* One call that adds.
LEMMA AddsMean ==
    ASSUME NEW e, e.name \in Adds \cup Roles \cup {"CreateComponentInstance"}
    PROVE  Calls(e) = 1 /\ Means(e, 1, Handlers(e)[1])
<1> DEFINE role == Tuple(Role, "role", e.on[1])
<1>1. Handlers(e) = SubscribeAuthzHandlers(e)
  BY HandlersOfStore DEF Adds, Roles
<1>2. PICK ts : /\ SubscribeAuthzHandlers(e) = AddRelationBulk(ts)
                /\ Grants(e) \subseteq ts /\ ts \subseteq Grants(e) \cup {role}
  <2>1. CASE e.name \in Roles
    BY <2>1 DEF SubscribeAuthzHandlers, OnComponentVersionCreateAuthz, OnSupportGroupCreateAuthz,
       OnComponentCreateAuthz, OnIssueMatchCreateAuthz, Created, Roles, Grants
  <2>2. CASE e.name = "AddServiceToSupportGroup"
    BY <2>2 DEF SubscribeAuthzHandlers, OnAddServiceToSupportGroup, Grants
  <2>3. CASE e.name = "AddUserToSupportGroup"
    BY <2>3 DEF SubscribeAuthzHandlers, OnAddUserToSupportGroup, Grants
  <2>4. CASE e.name = "AddOwnerToService"
    BY <2>4 DEF SubscribeAuthzHandlers, OnAddOwnerToService, Grants
  <2>5. CASE e.name = "CreateComponentInstance"
    BY <2>5 DEF SubscribeAuthzHandlers, OnComponentInstanceCreateAuthz, Grants
  <2> QED
    BY <2>1, <2>2, <2>3, <2>4, <2>5 DEF Adds
<1>3. Handlers(e)[1] = Step("add", ts, 0, 0)
  BY <1>1, <1>2 DEF AddRelationBulk
<1>4. Calls(e) = 1
  BY DEF Calls, Adds, Roles
<1>5. Shape(e)[1] = "add"
  BY DEF Shape, Adds, Roles, Deletes, Removes
<1>6. AddsAt(e, 1) = Grants(e)
  BY DEF AddsAt, Adds, Roles
<1>7. \A t : ~SweepsAt(e, 1, t)
  BY DEF SweepsAt, Adds, Roles, Deletes, Removes
<1> HIDE DEF role
<1> QED
  BY <1>2, <1>3, <1>4, <1>5, <1>6, <1>7, StepRecord DEF Means, role

\* OnServiceCreate before OnServiceCreateAuthz, and OnIssueRepositoryCreate.
LEMMA CreatesMean ==
    ASSUME NEW e, e.name \in {"CreateService", "CreateIssueRepository"}
    PROVE  \A n \in 1..Calls(e) : Means(e, n, Handlers(e)[n])
<1>1. PICK a, b : SubscribeHandlers(e) = <<Step("list", a, 0, 1), Step("link", b, 0, 0)>>
  BY DEF SubscribeHandlers, OnServiceCreate, OnIssueRepositoryCreate
<1> DEFINE first == Step("list", a, 0, 1)
           second == Step("link", b, 0, 0)
           role == Tuple(Role, "role", e.on[1])
           q == <<first, second>>
<1>2. first.do = "list" /\ second.do = "link"
  BY StepRecord
<1> HIDE DEF first, second
<1>3. q \in Seq({first, second}) /\ Len(q) = 2 /\ q[1] = first /\ q[2] = second
  OBVIOUS
<1>4. PICK T : SubscribeAuthzHandlers(e) \in Seq(T)
  BY SubscribedAuthzAdd DEF AddsOnly
<1>5. SubscribeHandlers(e) = q
  BY <1>1 DEF first, second
<1> HIDE DEF q
<1>6. /\ Handlers(e)[1] = first /\ Handlers(e)[2] = second
      /\ 1 \in 1..Len(SubscribeAuthzHandlers(e)) => Handlers(e)[3] = SubscribeAuthzHandlers(e)[1]
  <2> DEFINE p == SubscribeAuthzHandlers(e)
  <2>1. Handlers(e) = q \o p /\ p \in Seq(T)
    BY <1>4, <1>5 DEF Handlers
  <2> HIDE DEF p
  <2>2. (q \o p)[1] = first /\ (q \o p)[2] = second
    BY <1>3, <2>1, FirstCalls
  <2>3. 1 \in 1..Len(p) => (q \o p)[3] = p[1]
    <3> SUFFICES ASSUME 1 \in 1..Len(p) PROVE (q \o p)[3] = p[1]
      OBVIOUS
    <3>1. 3 \in 1..(Len(q) + Len(p)) /\ Len(q) = 2
      BY <1>3, <2>1
    <3>2. q \in Seq({first, second})
      BY <1>3
    <3>3. (q \o p)[3] = IF 3 <= Len(q) THEN q[3] ELSE p[3 - Len(q)]
      BY <2>1, <3>1, <3>2, CallsOfBoth
    <3> QED
      BY <3>1, <3>3
  <2> QED
    BY <1>3, <2>1, <2>2, <2>3 DEF p
<1>7. \A n : AddsAt(e, n) = {}
  BY DEF AddsAt, Grants
<1>8. \A n, t : ~SweepsAt(e, n, t)
  BY DEF SweepsAt, Deletes, Removes
<1>9. Shape(e)[1] = "list" /\ Shape(e)[2] = "link"
  BY DEF Shape, Adds, Roles, Deletes, Removes
<1>10. Means(e, 1, Handlers(e)[1]) /\ Means(e, 2, Handlers(e)[2])
  BY <1>2, <1>6, <1>7, <1>8, <1>9 DEF Means
<1>11. CASE e.name = "CreateIssueRepository"
  <2>1. Calls(e) = 2
    BY <1>11 DEF Calls
  <2> QED
    BY <1>10, <2>1
<1>12. CASE e.name = "CreateService"
  <2>1. Calls(e) = 3 /\ Shape(e)[3] = "add"
    BY <1>12 DEF Calls, Shape, Adds, Roles, Deletes, Removes
  <2>2. SubscribeAuthzHandlers(e) = <<Step("add", {role}, 0, 0)>>
    BY <1>12 DEF SubscribeAuthzHandlers, OnServiceCreateAuthz, Created, AddRelationBulk
  <2> HIDE DEF role
  <2>3. Len(SubscribeAuthzHandlers(e)) = 1 /\ SubscribeAuthzHandlers(e)[1] = Step("add", {role}, 0, 0)
    BY <2>2
  <2>4. Handlers(e)[3] = Step("add", {role}, 0, 0)
    <3>1. 1 \in 1..Len(SubscribeAuthzHandlers(e))
      BY <2>3
    <3> QED
      BY <1>6, <2>3, <3>1
  <2>5. Means(e, 3, Handlers(e)[3])
    BY <1>7, <1>8, <2>1, <2>4, StepRecord DEF Means, role
  <2>6. \A n \in 1..3 : n = 1 \/ n = 2 \/ n = 3
    OBVIOUS
  <2> QED
    BY <1>10, <2>1, <2>5, <2>6
<1> QED
  BY <1>11, <1>12

\* Two sequences, one after the other, are a third one if its elements are theirs.
LEMMA SameCalls ==
    ASSUME NEW S, NEW q \in Seq(S), NEW p \in Seq(S), NEW w \in Seq(S), Len(w) = Len(q) + Len(p),
           \A k \in 1..Len(w) : w[k] = IF k <= Len(q) THEN q[k] ELSE p[k - Len(q)]
    PROVE  q \o p = w
<1>1. /\ q \o p \in Seq(S) /\ Len(q \o p) = Len(q) + Len(p)
      /\ \A k \in 1..(Len(q) + Len(p)) : (q \o p)[k] = IF k <= Len(q) THEN q[k] ELSE p[k - Len(q)]
  BY ConcatProperties
<1> DEFINE c == q \o p
<1>2. c \in Seq(S) /\ Len(c) = Len(w) /\ \A k \in 1..Len(w) : c[k] = w[k]
  BY <1>1
<1> HIDE DEF c
<1>3. c = w
  BY <1>2, SeqEqual
<1> QED
  BY <1>3 DEF c

LEMMA TwoAndOne == \A a, b, c : <<a, b>> \o <<c>> = <<a, b, c>>
<1> TAKE a, b, c
<1> DEFINE S == {a, b, c}
           q == <<a, b>>
           p == <<c>>
           w == <<a, b, c>>
<1>1. /\ q \in Seq(S) /\ Len(q) = 2 /\ q[1] = a /\ q[2] = b
      /\ p \in Seq(S) /\ Len(p) = 1 /\ p[1] = c
      /\ w \in Seq(S) /\ Len(w) = 3 /\ w[1] = a /\ w[2] = b /\ w[3] = c
  OBVIOUS
<1> HIDE DEF S, q, p, w
<1>2. \A k \in 1..Len(w) : w[k] = IF k <= Len(q) THEN q[k] ELSE p[k - Len(q)]
  BY <1>1
<1>3. q \in Seq(S) /\ p \in Seq(S) /\ w \in Seq(S) /\ Len(w) = Len(q) + Len(p)
  BY <1>1
<1>4. q \o p = w
  BY <1>2, <1>3, SameCalls
<1> QED
  BY <1>4 DEF q, p, w

LEMMA TwoAndTwo == \A a, b, c, d : <<a, b>> \o <<c, d>> = <<a, b, c, d>>
<1> TAKE a, b, c, d
<1> DEFINE S == {a, b, c, d}
           q == <<a, b>>
           p == <<c, d>>
           w == <<a, b, c, d>>
<1>1. /\ q \in Seq(S) /\ Len(q) = 2 /\ q[1] = a /\ q[2] = b
      /\ p \in Seq(S) /\ Len(p) = 2 /\ p[1] = c /\ p[2] = d
      /\ w \in Seq(S) /\ Len(w) = 4 /\ w[1] = a /\ w[2] = b /\ w[3] = c /\ w[4] = d
  OBVIOUS
<1> HIDE DEF S, q, p, w
<1>2. \A k \in 1..Len(w) : w[k] = IF k <= Len(q) THEN q[k] ELSE p[k - Len(q)]
  BY <1>1
<1>3. q \in Seq(S) /\ p \in Seq(S) /\ w \in Seq(S) /\ Len(w) = Len(q) + Len(p)
  BY <1>1
<1>4. q \o p = w
  BY <1>2, <1>3, SameCalls
<1> QED
  BY <1>4 DEF q, p, w

LEMMA OneAndThree == \A a, b, c, d : <<a>> \o <<b, c, d>> = <<a, b, c, d>>
<1> TAKE a, b, c, d
<1> DEFINE S == {a, b, c, d}
           q == <<a>>
           p == <<b, c, d>>
           w == <<a, b, c, d>>
<1>1. /\ q \in Seq(S) /\ Len(q) = 1 /\ q[1] = a
      /\ p \in Seq(S) /\ Len(p) = 3 /\ p[1] = b /\ p[2] = c /\ p[3] = d
      /\ w \in Seq(S) /\ Len(w) = 4 /\ w[1] = a /\ w[2] = b /\ w[3] = c /\ w[4] = d
  OBVIOUS
<1> HIDE DEF S, q, p, w
<1>2. \A k \in 1..Len(w) : w[k] = IF k <= Len(q) THEN q[k] ELSE p[k - Len(q)]
  BY <1>1
<1>3. q \in Seq(S) /\ p \in Seq(S) /\ w \in Seq(S) /\ Len(w) = Len(q) + Len(p)
  BY <1>1
<1>4. q \o p = w
  BY <1>2, <1>3, SameCalls
<1> QED
  BY <1>4 DEF q, p, w

LEMMA FourAndFour ==
    \A a, b, c, d, f, g, h, i : <<a, b, c, d>> \o <<f, g, h, i>> = <<a, b, c, d, f, g, h, i>>
<1> TAKE a, b, c, d, f, g, h, i
<1> DEFINE S == {a, b, c, d, f, g, h, i}
           q == <<a, b, c, d>>
           p == <<f, g, h, i>>
           w == <<a, b, c, d, f, g, h, i>>
<1>1. /\ q \in Seq(S) /\ Len(q) = 4 /\ q[1] = a /\ q[2] = b /\ q[3] = c /\ q[4] = d
      /\ p \in Seq(S) /\ Len(p) = 4 /\ p[1] = f /\ p[2] = g /\ p[3] = h /\ p[4] = i
      /\ w \in Seq(S) /\ Len(w) = 8 /\ w[1] = a /\ w[2] = b /\ w[3] = c /\ w[4] = d
      /\ w[5] = f /\ w[6] = g /\ w[7] = h /\ w[8] = i
  OBVIOUS
<1> HIDE DEF S, q, p, w
<1>2. \A k \in 1..Len(w) : w[k] = IF k <= Len(q) THEN q[k] ELSE p[k - Len(q)]
  BY <1>1
<1>3. q \in Seq(S) /\ p \in Seq(S) /\ w \in Seq(S) /\ Len(w) = Len(q) + Len(p)
  BY <1>1
<1>4. q \o p = w
  BY <1>2, <1>3, SameCalls
<1> QED
  BY <1>4 DEF q, p, w

\* No relation has the name of id 0.
LEMMA NamesNobody ==
    "component_version" # Nobody /\ "component_instance" # Nobody /\ "related_service" # Nobody
BY SeedRelations DEF RelationNames

\* The relations that the handler of a delete finds are those of the deleted object.
LEMMA DeleteFinds ==
    ASSUME NEW e, EventOK(e), e.name \in Deletes
    PROVE  \E ts : /\ SubscribeAuthzHandlers(e) = RemoveRelationBulk(ts)
                   /\ \A t \in Relations : t \in ts <=> t \in tuples /\ e.on[1] \in Ends(t)
<1> DEFINE o == e.on[1]
<1>1. o \in Objects /\ o # Nobody /\ o \in KindOf(o)
  BY SubjectTouched, KindOfObject
<1>2. \A t \in Relations : t \in AsObject(o) <=> t \in tuples /\ t[3] = o
  BY <1>1 DEF AsObject, ListRelations
<1>3. \A t \in Relations : \A kind : t \in AsUser(o, kind) <=> t \in tuples /\ t[1] = o /\ t[3] \in kind
  BY <1>1, EndsAreObjects DEF AsUser, ListRelations
<1>4. o \in Subject(e)
  BY DEF EventOK
<1> HIDE DEF o
<1>5. CASE e.name = "DeleteUser"
  <2> DEFINE ts == AsObject(o) \cup UNION {AsUser(o, k) : k \in
                     {Services, Components, ComponentVersions, ComponentInstances, IssueMatches, SupportGroups}}
  <2>1. SubscribeAuthzHandlers(e) = RemoveRelationBulk(ts)
    BY <1>5 DEF SubscribeAuthzHandlers, OnUserDeleteAuthz, o
  <2>2. o \in Users
    BY <1>4, <1>5 DEF Subject
  <2>3. ASSUME NEW t \in Relations
        PROVE  t \in ts <=> t \in tuples /\ o \in Ends(t)
    <3>1. t[1] = o => t[3] \in Services \cup SupportGroups
      BY <2>2, RelationShape, KindsApart
    <3>2. t \in ts <=> t \in AsObject(o) \/ \E k \in
             {Services, Components, ComponentVersions, ComponentInstances, IssueMatches, SupportGroups} :
                t \in AsUser(o, k)
      OBVIOUS
    <3> HIDE DEF ts
    <3> QED
      BY <1>2, <1>3, <3>1, <3>2 DEF Ends
  <2> HIDE DEF ts
  <2> QED
    BY <2>1, <2>3 DEF o
<1>6. CASE e.name = "DeleteService"
  <2> DEFINE ts == AsObject(o) \cup AsUser(o, ComponentInstances)
  <2>1. SubscribeAuthzHandlers(e) = RemoveRelationBulk(ts)
    BY <1>6 DEF SubscribeAuthzHandlers, OnServiceDeleteAuthz, o
  <2>2. o \in Services
    BY <1>4, <1>6 DEF Subject
  <2>3. ASSUME NEW t \in Relations
        PROVE  t \in ts <=> t \in tuples /\ o \in Ends(t)
    <3>1. t[1] = o => t[3] \in ComponentInstances
      BY <2>2, RelationShape, KindsApart
    <3> QED
      BY <1>2, <1>3, <3>1 DEF Ends
  <2> HIDE DEF ts
  <2> QED
    BY <2>1, <2>3 DEF o
<1>7. CASE e.name = "DeleteComponentInstance"
  <2> DEFINE ts == AsObject(o) \cup AsUser(o, ComponentVersions) \cup AsUser(o, IssueMatches)
  <2>1. SubscribeAuthzHandlers(e) = RemoveRelationBulk(ts)
    BY <1>7 DEF SubscribeAuthzHandlers, OnComponentInstanceDeleteAuthz, o
  <2>2. o \in ComponentInstances
    BY <1>4, <1>7 DEF Subject
  <2>3. ASSUME NEW t \in Relations
        PROVE  t \in ts <=> t \in tuples /\ o \in Ends(t)
    <3>1. t[1] = o => t[3] \in ComponentVersions \cup IssueMatches
      BY <2>2, RelationShape, KindsApart
    <3> QED
      BY <1>2, <1>3, <3>1 DEF Ends
  <2> HIDE DEF ts
  <2> QED
    BY <2>1, <2>3 DEF o
<1>8. CASE e.name = "DeleteComponentVersion"
  <2> DEFINE ts == AsObject(o) \cup AsUser(o, Components)
  <2>1. SubscribeAuthzHandlers(e) = RemoveRelationBulk(ts)
    BY <1>8 DEF SubscribeAuthzHandlers, OnComponentVersionDeleteAuthz, o
  <2>2. o \in ComponentVersions
    BY <1>4, <1>8 DEF Subject
  <2>3. ASSUME NEW t \in Relations
        PROVE  t \in ts <=> t \in tuples /\ o \in Ends(t)
    <3>1. t[1] = o => t[3] \in Components
      BY <2>2, RelationShape, KindsApart
    <3> QED
      BY <1>2, <1>3, <3>1 DEF Ends
  <2> HIDE DEF ts
  <2> QED
    BY <2>1, <2>3 DEF o
<1>9. CASE e.name \in {"DeleteComponent", "DeleteIssueMatch"}
  <2> DEFINE ts == AsObject(o)
  <2>1. SubscribeAuthzHandlers(e) = RemoveRelationBulk(ts)
    BY <1>9 DEF SubscribeAuthzHandlers, OnComponentDeleteAuthz, OnIssueMatchDeleteAuthz, o
  <2>2. o \in Components \/ o \in IssueMatches
    BY <1>4, <1>9 DEF Subject
  <2>3. ASSUME NEW t \in Relations
        PROVE  t \in ts <=> t \in tuples /\ o \in Ends(t)
    <3>1. t[1] # o
      BY <2>2, RelationShape, KindsApart
    <3> QED
      BY <1>2, <3>1 DEF Ends
  <2> HIDE DEF ts
  <2> QED
    BY <2>1, <2>3 DEF o
<1> QED
  BY <1>5, <1>6, <1>7, <1>8, <1>9 DEF Deletes

\* A call that finds, before one that drops.
LEMMA FindMeans ==
    ASSUME NEW e, NEW n, NEW ts, NEW lost, Shape(e)[n] = "find", AddsAt(e, n) = {},
           \A t \in Relations : t \in ts <=> t \in tuples /\ SweepsAt(e, n, t)
    PROVE  Means(e, n, Step("find", ts, 0, lost))
BY StepRecord DEF Means

LEMMA DropMeans ==
    ASSUME NEW e, NEW n, NEW lost, Shape(e)[n] = "drop", AddsAt(e, n) = {},
           \A t \in Relations : ~SweepsAt(e, n, t)
    PROVE  Means(e, n, Step("drop", {}, 0, lost))
BY StepRecord DEF Means

LEMMA AddMeans ==
    ASSUME NEW e, NEW n, NEW t, Shape(e)[n] = "add", AddsAt(e, n) = {t},
           \A r \in Relations : ~SweepsAt(e, n, r)
    PROVE  Means(e, n, Step("add", {t}, 0, 0))
BY StepRecord DEF Means

LEMMA UnlessMeans ==
    ASSUME NEW e, NEW n, NEW t, NEW lost, Shape(e)[n] = "unless", AddsAt(e, n) = {},
           AddsAt(e, n + 3) = {t}, \A r \in Relations : ~SweepsAt(e, n, r)
    PROVE  Means(e, n, Step("unless", {t}, 3, lost))
<1> DEFINE step == Step("unless", {t}, 3, lost)
<1>1. step.do = "unless" /\ step.of = {t} /\ step.skip = 3
  BY StepRecord
<1> HIDE DEF step
<1>2. Means(e, n, step)
  BY <1>1 DEF Means
<1> QED
  BY <1>2 DEF step

\* The handlers that only remove.
LEMMA RemovalsMean ==
    ASSUME NEW e, EventOK(e), e.name \in Deletes \cup Removes
    PROVE  \A n \in 1..Calls(e) : Means(e, n, Handlers(e)[n])
<1>1. Handlers(e) = SubscribeAuthzHandlers(e)
  BY HandlersOfStore DEF Deletes, Removes
<1>2. PICK ts : /\ SubscribeAuthzHandlers(e) = <<Step("find", ts, 0, 1), Step("drop", {}, 0, 0)>>
                /\ \A t \in Relations : t \in ts <=> t \in tuples /\ SweepsAt(e, 1, t)
  <2>1. CASE e.name \in Deletes
    <3>1. \A t : SweepsAt(e, 1, t) <=> e.on[1] \in Ends(t)
      BY <2>1 DEF SweepsAt, Deletes, Removes
    <3> QED
      BY <2>1, <3>1, DeleteFinds DEF RemoveRelationBulk
  <2>2. CASE e.name \in Removes
    <3>1. SubscribeAuthzHandlers(e) = RemoveRelation(Removed(e))
      BY <2>2 DEF SubscribeAuthzHandlers, OnRemoveServiceFromSupportGroup, Removes, Removed,
         OnRemoveUserFromSupportGroup, OnRemoveOwnerFromService
    <3>2. \A t : SweepsAt(e, 1, t) <=> t = Removed(e)
      BY <2>2 DEF SweepsAt, Deletes, Removes
    <3> QED
      BY <3>1, <3>2 DEF RemoveRelation
  <2> QED
    BY <2>1, <2>2
<1>3. Calls(e) = 2
  BY DEF Calls, Deletes, Removes
<1>4. Shape(e)[1] = "find" /\ Shape(e)[2] = "drop"
  BY DEF Shape, Adds, Roles, Deletes, Removes
<1>5. \A n : AddsAt(e, n) = {}
  BY DEF AddsAt, Grants, Deletes, Removes
<1>6. \A t : ~SweepsAt(e, 2, t)
  BY DEF SweepsAt, Deletes, Removes
<1>7. Means(e, 1, Step("find", ts, 0, 1)) /\ Means(e, 2, Step("drop", {}, 0, 0))
  BY <1>2, <1>4, <1>5, <1>6, FindMeans, DropMeans
<1>8. Handlers(e)[1] = Step("find", ts, 0, 1) /\ Handlers(e)[2] = Step("drop", {}, 0, 0)
  BY <1>1, <1>2
<1>9. \A n \in 1..2 : n = 1 \/ n = 2
  OBVIOUS
<1> QED
  BY <1>3, <1>7, <1>8, <1>9

\* OnSupportGroupDeleteAuthz: the first round looks for a relation of the group with itself.
LEMMA SupportGroupDeleteMeans ==
    ASSUME NEW e, EventOK(e), e.name = "DeleteSupportGroup"
    PROVE  \A n \in 1..Calls(e) : Means(e, n, Handlers(e)[n])
<1> DEFINE o == e.on[1]
           self == Tuple(o, "support_group", o)
           ts == AsObject(o) \cup AsUser(o, Services) \cup AsUser(o, SupportGroups)
           first == Step("find", tuples \cap {self}, 0, 1)
           second == Step("find", ts, 0, 1)
           drop == Step("drop", {}, 0, 0)
<1>1. Handlers(e) = SubscribeAuthzHandlers(e)
  BY HandlersOfStore
<1>2. SubscribeAuthzHandlers(e) = RemoveRelation(self) \o RemoveRelationBulk(ts)
  BY DEF SubscribeAuthzHandlers, OnSupportGroupDeleteAuthz
<1>3. RemoveRelation(self) = <<first, drop>> /\ RemoveRelationBulk(ts) = <<second, drop>>
  BY DEF RemoveRelation, RemoveRelationBulk
<1>4. o \in SupportGroups /\ o \in Objects /\ o # Nobody /\ o \in KindOf(o)
  BY SubjectTouched, KindOfObject DEF EventOK, Subject
<1>5. ASSUME NEW t \in Relations
      PROVE  t \in ts <=> t \in tuples /\ o \in Ends(t)
  <2>1. t[3] # Nobody /\ (t[1] = o => t[3] \in Services)
    BY <1>4, RelationShape, KindsApart, EndsAreObjects
  <2>2. t \in AsObject(o) <=> t \in tuples /\ t[3] = o
    BY <1>4 DEF AsObject, ListRelations
  <2>3. t \in AsUser(o, Services) <=> t \in tuples /\ t[1] = o /\ t[3] \in Services
    BY <1>4, <2>1 DEF AsUser, ListRelations
  <2>4. t \in AsUser(o, SupportGroups) <=> t \in tuples /\ t[1] = o /\ t[3] \in SupportGroups
    BY <1>4, <2>1 DEF AsUser, ListRelations
  <2> QED
    BY <2>1, <2>2, <2>3, <2>4 DEF Ends
<1>6. self \notin Relations
  BY <1>4, RelationShape, KindsApart DEF Tuple
<1> HIDE DEF first, second, drop, self, ts
<1>7. Handlers(e) = <<first, drop, second, drop>>
  BY <1>1, <1>2, <1>3, TwoAndTwo
<1>8. Handlers(e)[1] = first /\ Handlers(e)[2] = drop /\ Handlers(e)[3] = second /\ Handlers(e)[4] = drop
  BY <1>7
<1>9. Calls(e) = 4
  BY DEF Calls
<1>10. /\ Shape(e)[1] = "find" /\ Shape(e)[2] = "drop" /\ Shape(e)[3] = "find" /\ Shape(e)[4] = "drop"
  BY DEF Shape, Adds, Roles, Deletes, Removes
<1>11. \A n : AddsAt(e, n) = {}
  BY DEF AddsAt, Grants
<1>12. \A n, t : SweepsAt(e, n, t) <=> n = 3 /\ o \in Ends(t)
  BY DEF SweepsAt, Deletes, Removes
<1>13. Means(e, 1, first)
  BY <1>6, <1>10, <1>11, <1>12, FindMeans DEF first
<1>14. Means(e, 2, drop) /\ Means(e, 4, drop)
  BY <1>10, <1>11, <1>12, DropMeans DEF drop
<1>15. Means(e, 3, second)
  BY <1>5, <1>10, <1>11, <1>12, FindMeans DEF second
<1>16. \A n \in 1..4 : n = 1 \/ n = 2 \/ n = 3 \/ n = 4
  OBVIOUS
<1> QED
  BY <1>8, <1>9, <1>13, <1>14, <1>15, <1>16

\* OnComponentVersionUpdateAuthz and OnIssueMatchUpdateAuthz: find, drop and add.
LEMMA UpdatesMean ==
    ASSUME NEW e, EventOK(e), e.name \in {"UpdateComponentVersion", "UpdateIssueMatch"}
    PROVE  \A n \in 1..Calls(e) : Means(e, n, Handlers(e)[n])
<1>1. Handlers(e) = SubscribeAuthzHandlers(e)
  BY HandlersOfStore
<1>2. e.on[1] # Nobody
  BY SubjectTouched
<1>3. PICK t, ts, a, b :
        /\ SubscribeAuthzHandlers(e) = <<Step("find", ts, 0, a), Step("drop", {}, 0, b)>>
                                         \o <<Step("add", {t}, 0, 0)>>
        /\ Grants(e) = {t}
        /\ \A r \in Relations : r \in ts <=> r \in tuples /\ SweepsAt(e, 1, r)
  <2>1. CASE e.name = "UpdateComponentVersion"
    <3> DEFINE t == Tuple(e.on[1], "component_version", e.on[2])
               ts == ListRelations(e.on[1], "component_version", Nobody, Components)
    <3>1. SubscribeAuthzHandlers(e) = <<Step("find", ts, 0, 2), Step("drop", {}, 0, 1)>>
                                         \o <<Step("add", {t}, 0, 0)>>
      BY <2>1 DEF SubscribeAuthzHandlers, OnComponentVersionUpdateAuthz, UpdateRelation, AddRelation
    <3>2. Grants(e) = {t}
      BY <2>1 DEF Grants
    <3>3. ASSUME NEW r \in Relations
          PROVE  r \in ts <=> r \in tuples /\ SweepsAt(e, 1, r)
      <4>1. SweepsAt(e, 1, r) <=> r[1] = e.on[1] /\ r[2] = "component_version"
        BY <2>1 DEF SweepsAt, Deletes, Removes
      <4>2. r[2] = "component_version" => r[3] \in Components
        BY RelationShape
      <4>3. Nobody # "component_version" => (r \in ts <=> r \in tuples /\ r[1] = e.on[1] /\ r[2] = "component_version")
        BY <1>2, <4>2 DEF ListRelations
      <4> QED
        BY <4>1, <4>3, NamesNobody
    <3> HIDE DEF t, ts
    <3> QED
      BY <3>1, <3>2, <3>3
  <2>2. CASE e.name = "UpdateIssueMatch"
    <3> DEFINE t == Tuple(e.on[2], "component_instance", e.on[1])
               ts == ListRelations(Nobody, "component_instance", e.on[1], IssueMatches)
    <3>1. SubscribeAuthzHandlers(e) = <<Step("find", ts, 0, 1), Step("drop", {}, 0, 0)>>
                                         \o <<Step("add", {t}, 0, 0)>>
      BY <2>2 DEF SubscribeAuthzHandlers, OnIssueMatchUpdateAuthz, RemoveRelationBulk, AddRelationBulk
    <3>2. Grants(e) = {t}
      BY <2>2 DEF Grants
    <3>3. ASSUME NEW r \in Relations
          PROVE  r \in ts <=> r \in tuples /\ SweepsAt(e, 1, r)
      <4>1. SweepsAt(e, 1, r) <=> r[3] = e.on[1] /\ r[2] = "component_instance"
        BY <2>2 DEF SweepsAt, Deletes, Removes
      <4>2. e.on[1] \in IssueMatches
        BY <2>2 DEF EventOK, Subject
      <4>3. r \in ts <=> r \in tuples /\ r[3] = e.on[1] /\ r[2] = "component_instance"
        BY <1>2, <4>2, NamesNobody DEF ListRelations
      <4> QED
        BY <4>1, <4>3
    <3> HIDE DEF t, ts
    <3> QED
      BY <3>1, <3>2, <3>3
  <2> QED
    BY <2>1, <2>2
<1> DEFINE first == Step("find", ts, 0, a)
           second == Step("drop", {}, 0, b)
           third == Step("add", {t}, 0, 0)
<1> HIDE DEF first, second, third
<1>4. Handlers(e) = <<first, second, third>>
  BY <1>1, <1>3, TwoAndOne DEF first, second, third
<1>5. Handlers(e)[1] = first /\ Handlers(e)[2] = second /\ Handlers(e)[3] = third
  BY <1>4
<1>6. Calls(e) = 3
  BY DEF Calls
<1>7. Shape(e)[1] = "find" /\ Shape(e)[2] = "drop" /\ Shape(e)[3] = "add"
  BY DEF Shape, Adds, Roles, Deletes, Removes
<1>8. AddsAt(e, 1) = {} /\ AddsAt(e, 2) = {} /\ AddsAt(e, 3) = {t}
  BY <1>3 DEF AddsAt
<1>9. \A r : ~SweepsAt(e, 2, r) /\ ~SweepsAt(e, 3, r)
  BY DEF SweepsAt, Deletes, Removes
<1>10. Means(e, 1, first) /\ Means(e, 2, second) /\ Means(e, 3, third)
  BY <1>3, <1>7, <1>8, <1>9, FindMeans, DropMeans, AddMeans DEF first, second, third
<1>11. \A n \in 1..3 : n = 1 \/ n = 2 \/ n = 3
  OBVIOUS
<1> QED
  BY <1>5, <1>6, <1>10, <1>11

\* OnComponentInstanceUpdateAuthz: the service, then the version if there is one; each after
\* a look at the store.
LEMMA ComponentInstanceUpdateMeans ==
    ASSUME NEW e, EventOK(e), e.name = "UpdateComponentInstance"
    PROVE  \A n \in 1..Calls(e) : Means(e, n, Handlers(e)[n])
<1> DEFINE i == e.on[1]
           service == Tuple(e.on[2], "related_service", i)
           version == Tuple(i, "component_instance", e.on[3])
           oldS == ListRelations(Nobody, "related_service", i, ComponentInstances)
           oldV == ListRelations(i, "component_instance", Nobody, ComponentVersions)
           second == IF e.on[3] = Nobody THEN <<>>
                     ELSE UnlessHeld(version, UpdateRelation(version, oldV), 0)
           after == Len(second)
           s1 == Step("unless", {service}, 3, 3 + after)
           s2 == Step("find", oldS, 0, 2)
           s3 == Step("drop", {}, 0, 1)
           s4 == Step("add", {service}, 0, 0)
           s5 == Step("unless", {version}, 3, 3 + 0)
           s6 == Step("find", oldV, 0, 2)
           s7 == Step("drop", {}, 0, 1)
           s8 == Step("add", {version}, 0, 0)
<1>1. Handlers(e) = SubscribeAuthzHandlers(e)
  BY HandlersOfStore
<1>2. SubscribeAuthzHandlers(e) = UnlessHeld(service, UpdateRelation(service, oldS), after) \o second
  BY DEF SubscribeAuthzHandlers, OnComponentInstanceUpdateAuthz
<1>3. i \in ComponentInstances /\ i # Nobody
  BY SubjectTouched DEF EventOK, Subject
<1>4. ASSUME NEW r \in Relations
      PROVE  /\ r \in oldS <=> r \in tuples /\ r[2] = "related_service" /\ r[3] = i
             /\ r \in oldV <=> r \in tuples /\ r[2] = "component_instance" /\ r[1] = i /\ r[3] \in ComponentVersions
  <2>1. r[3] # Nobody
    BY EndsAreObjects
  <2> QED
    BY <1>3, <2>1, NamesNobody DEF ListRelations
<1>5. UpdateRelation(service, oldS) = <<s2, s3, s4>> /\ UpdateRelation(version, oldV) = <<s6, s7, s8>>
  <2> HIDE DEF service, version, oldS, oldV
  <2>1. UpdateRelation(service, oldS) = <<s2, s3>> \o <<s4>>
    BY DEF UpdateRelation, AddRelation
  <2>2. UpdateRelation(version, oldV) = <<s6, s7>> \o <<s8>>
    BY DEF UpdateRelation, AddRelation
  <2> HIDE DEF s2, s3, s4, s6, s7, s8
  <2> QED
    BY <2>1, <2>2, TwoAndOne
<1> HIDE DEF service, version, oldS, oldV, s2, s3, s4, s6, s7, s8, second
<1>6. UnlessHeld(service, UpdateRelation(service, oldS), after) = <<s1, s2, s3, s4>>
  <2>1. Len(<<s2, s3, s4>>) = 3
    OBVIOUS
  <2>2. UnlessHeld(service, UpdateRelation(service, oldS), after) = <<s1>> \o <<s2, s3, s4>>
    BY <1>5, <2>1 DEF UnlessHeld
  <2> HIDE DEF s1
  <2> QED
    BY <2>2, OneAndThree
<1>7. UnlessHeld(version, UpdateRelation(version, oldV), 0) = <<s5, s6, s7, s8>>
  <2>1. Len(<<s6, s7, s8>>) = 3
    OBVIOUS
  <2>2. UnlessHeld(version, UpdateRelation(version, oldV), 0) = <<s5>> \o <<s6, s7, s8>>
    BY <1>5, <2>1 DEF UnlessHeld
  <2> HIDE DEF s5
  <2> QED
    BY <2>2, OneAndThree
<1>8. \A n, r : ~SweepsAt(e, n, r) \/ n = 2 \/ (n = 6 /\ e.on[3] # Nobody)
  BY DEF SweepsAt, Deletes, Removes
<1>9. \A r : SweepsAt(e, 2, r) <=> r[2] = "related_service" /\ r[3] = i
  BY DEF SweepsAt, Deletes, Removes
<1>10. /\ AddsAt(e, 1) = {} /\ AddsAt(e, 2) = {} /\ AddsAt(e, 3) = {} /\ AddsAt(e, 4) = {service}
       /\ AddsAt(e, 5) = {} /\ AddsAt(e, 6) = {} /\ AddsAt(e, 7) = {} /\ AddsAt(e, 8) = {version}
       /\ AddsAt(e, 1 + 3) = {service} /\ AddsAt(e, 5 + 3) = {version}
  BY DEF AddsAt, service, version
<1>11. /\ Shape(e)[1] = "unless" /\ Shape(e)[2] = "find" /\ Shape(e)[3] = "drop" /\ Shape(e)[4] = "add"
  BY DEF Shape, Adds, Roles, Deletes, Removes
<1>12. /\ Means(e, 1, s1) /\ Means(e, 2, s2) /\ Means(e, 3, s3) /\ Means(e, 4, s4)
  <2>1. Means(e, 1, s1)
    <3>1. \A r \in Relations : ~SweepsAt(e, 1, r)
      BY <1>8
    <3> QED
      BY <1>10, <1>11, <3>1, UnlessMeans DEF s1
  <2>2. Means(e, 2, s2)
    BY <1>4, <1>9, <1>10, <1>11, FindMeans DEF s2
  <2>3. Means(e, 3, s3)
    <3>1. \A r \in Relations : ~SweepsAt(e, 3, r)
      BY <1>8
    <3> QED
      BY <1>10, <1>11, <3>1, DropMeans DEF s3
  <2>4. Means(e, 4, s4)
    <3>1. \A r \in Relations : ~SweepsAt(e, 4, r)
      BY <1>8
    <3> QED
      BY <1>10, <1>11, <3>1, AddMeans DEF s4
  <2> QED
    BY <2>1, <2>2, <2>3, <2>4
<1> HIDE DEF s1, s5
<1>13. CASE e.on[3] = Nobody
  <2>1. Calls(e) = 4
    BY <1>13 DEF Calls
  <2>2. second = <<>>
    BY <1>13 DEF second
  <2>3. Handlers(e) = <<s1, s2, s3, s4>>
    <3> DEFINE q == <<s1, s2, s3, s4>>
    <3>1. q \in Seq({s1, s2, s3, s4})
      OBVIOUS
    <3>2. Handlers(e) = q \o <<>>
      BY <1>1, <1>2, <1>6, <2>2
    <3> HIDE DEF q
    <3>3. Handlers(e) = q
      BY <3>1, <3>2, ConcatEmptySeq
    <3> QED
      BY <3>3 DEF q
  <2>4. Handlers(e)[1] = s1 /\ Handlers(e)[2] = s2 /\ Handlers(e)[3] = s3 /\ Handlers(e)[4] = s4
    BY <2>3
  <2>5. \A n \in 1..4 : n = 1 \/ n = 2 \/ n = 3 \/ n = 4
    OBVIOUS
  <2> QED
    BY <1>12, <2>1, <2>4, <2>5
<1>14. CASE e.on[3] # Nobody
  <2>1. Calls(e) = 8
    BY <1>14 DEF Calls
  <2>2. second = <<s5, s6, s7, s8>>
    BY <1>7, <1>14 DEF second
  <2>3. Handlers(e) = <<s1, s2, s3, s4, s5, s6, s7, s8>>
    BY <1>1, <1>2, <1>6, <2>2, FourAndFour
  <2>4. /\ Handlers(e)[1] = s1 /\ Handlers(e)[2] = s2 /\ Handlers(e)[3] = s3 /\ Handlers(e)[4] = s4
        /\ Handlers(e)[5] = s5 /\ Handlers(e)[6] = s6 /\ Handlers(e)[7] = s7 /\ Handlers(e)[8] = s8
    BY <2>3
  <2>5. /\ Shape(e)[5] = "unless" /\ Shape(e)[6] = "find" /\ Shape(e)[7] = "drop" /\ Shape(e)[8] = "add"
    BY <1>14 DEF Shape, Adds, Roles, Deletes, Removes
  <2>6. Means(e, 5, s5)
    <3>1. \A r \in Relations : ~SweepsAt(e, 5, r)
      BY <1>8
    <3> QED
      BY <1>10, <2>5, <3>1, UnlessMeans DEF s5
  <2>7. Means(e, 6, s6)
    <3>1. \A r : SweepsAt(e, 6, r) <=> r[2] = "component_instance" /\ r[1] = i /\ r[3] \in ComponentVersions
      BY <1>14 DEF SweepsAt, Deletes, Removes
    <3> QED
      BY <1>4, <1>10, <2>5, <3>1, FindMeans DEF s6
  <2>8. Means(e, 7, s7)
    <3>1. \A r \in Relations : ~SweepsAt(e, 7, r)
      BY <1>8
    <3> QED
      BY <1>10, <2>5, <3>1, DropMeans DEF s7
  <2>9. Means(e, 8, s8)
    <3>1. \A r \in Relations : ~SweepsAt(e, 8, r)
      BY <1>8
    <3> QED
      BY <1>10, <2>5, <3>1, AddMeans DEF s8
  <2>10. \A n \in 1..8 : n = 1 \/ n = 2 \/ n = 3 \/ n = 4 \/ n = 5 \/ n = 6 \/ n = 7 \/ n = 8
    OBVIOUS
  <2> QED
    BY <1>12, <2>1, <2>4, <2>6, <2>7, <2>8, <2>9, <2>10
<1> QED
  BY <1>13, <1>14

\* Every call of an event means what the tables say.
LEMMA HandlersMean ==
    ASSUME NEW e, EventOK(e), NEW n \in 1..Calls(e)
    PROVE  Means(e, n, Handlers(e)[n])
<1>1. CASE e.name \in Adds \cup Roles \cup {"CreateComponentInstance"}
  <2>1. n = 1
    BY <1>1, AddsMean
  <2> QED
    BY <1>1, <2>1, AddsMean
<1>2. CASE e.name \in {"CreateService", "CreateIssueRepository"}
  BY <1>2, CreatesMean
<1>3. CASE e.name \in Deletes \cup Removes
  BY <1>3, RemovalsMean
<1>4. CASE e.name = "DeleteSupportGroup"
  BY <1>4, SupportGroupDeleteMeans
<1>5. CASE e.name \in {"UpdateComponentVersion", "UpdateIssueMatch"}
  BY <1>5, UpdatesMean
<1>6. CASE e.name = "UpdateComponentInstance"
  BY <1>6, ComponentInstanceUpdateMeans
<1>7. CASE ~\/ e.name \in Adds \cup Roles \cup {"CreateComponentInstance", "CreateService", "CreateIssueRepository"}
            \/ e.name \in Deletes \cup Removes
            \/ e.name \in {"DeleteSupportGroup", "UpdateComponentVersion", "UpdateIssueMatch",
                           "UpdateComponentInstance"}
  <2>1. Calls(e) = 0
    BY <1>7 DEF Calls, Adds, Roles, Deletes, Removes
  <2> QED
    BY <2>1
<1> QED
  BY <1>1, <1>2, <1>3, <1>4, <1>5, <1>6, <1>7

\* What the tables say of the order of the calls.
LEMMA FindBeforeDrop ==
    ASSUME NEW e, NEW n \in 1..Calls(e), Shape(e)[n] \in {"find", "list"}
    PROVE  /\ n + 1 \in 1..Calls(e)
           /\ Shape(e)[n] = "find" => Shape(e)[n + 1] = "drop"
           /\ Shape(e)[n] = "list" => Shape(e)[n + 1] = "link"
<1>1. CASE e.name \in Adds \cup Roles \cup {"CreateComponentInstance"}
  <2>1. Calls(e) = 1 /\ Shape(e)[1] = "add"
    BY <1>1 DEF Calls, Shape, Adds, Roles, Deletes, Removes
  <2> QED
    BY <2>1
<1>2. CASE e.name = "CreateIssueRepository"
  <2>1. Calls(e) = 2 /\ Shape(e)[1] = "list" /\ Shape(e)[2] = "link"
    BY <1>2 DEF Calls, Shape, Adds, Roles, Deletes, Removes
  <2> QED
    BY <2>1
<1>3. CASE e.name = "CreateService"
  <2>1. Calls(e) = 3 /\ Shape(e)[1] = "list" /\ Shape(e)[2] = "link" /\ Shape(e)[3] = "add"
    BY <1>3 DEF Calls, Shape, Adds, Roles, Deletes, Removes
  <2> QED
    BY <2>1
<1>4. CASE e.name \in Deletes \cup Removes
  <2>1. Calls(e) = 2 /\ Shape(e)[1] = "find" /\ Shape(e)[2] = "drop"
    BY <1>4 DEF Calls, Shape, Adds, Roles, Deletes, Removes
  <2> QED
    BY <2>1
<1>5. CASE e.name = "DeleteSupportGroup"
  <2>1. /\ Calls(e) = 4 /\ Shape(e)[1] = "find" /\ Shape(e)[2] = "drop" /\ Shape(e)[3] = "find"
        /\ Shape(e)[4] = "drop"
    BY <1>5 DEF Calls, Shape, Adds, Roles, Deletes, Removes
  <2> QED
    BY <2>1
<1>6. CASE e.name \in {"UpdateComponentVersion", "UpdateIssueMatch"}
  <2>1. Calls(e) = 3 /\ Shape(e)[1] = "find" /\ Shape(e)[2] = "drop" /\ Shape(e)[3] = "add"
    BY <1>6 DEF Calls, Shape, Adds, Roles, Deletes, Removes
  <2> QED
    BY <2>1
<1>7. CASE e.name = "UpdateComponentInstance" /\ e.on[3] = Nobody
  <2>1. /\ Calls(e) = 4 /\ Shape(e)[1] = "unless" /\ Shape(e)[2] = "find" /\ Shape(e)[3] = "drop"
        /\ Shape(e)[4] = "add"
    BY <1>7 DEF Calls, Shape, Adds, Roles, Deletes, Removes
  <2> QED
    BY <2>1
<1>8. CASE e.name = "UpdateComponentInstance" /\ e.on[3] # Nobody
  <2>1. /\ Calls(e) = 8 /\ Shape(e)[1] = "unless" /\ Shape(e)[2] = "find" /\ Shape(e)[3] = "drop"
        /\ Shape(e)[4] = "add" /\ Shape(e)[5] = "unless" /\ Shape(e)[6] = "find"
        /\ Shape(e)[7] = "drop" /\ Shape(e)[8] = "add"
    BY <1>8 DEF Calls, Shape, Adds, Roles, Deletes, Removes
  <2> QED
    BY <2>1
<1>9. CASE ~\/ e.name \in Adds \cup Roles \cup {"CreateComponentInstance", "CreateService", "CreateIssueRepository"}
            \/ e.name \in Deletes \cup Removes
            \/ e.name \in {"DeleteSupportGroup", "UpdateComponentVersion", "UpdateIssueMatch",
                           "UpdateComponentInstance"}
  <2>1. Calls(e) = 0
    BY <1>9 DEF Calls, Adds, Roles, Deletes, Removes
  <2> QED
    BY <2>1
<1> QED
  BY <1>1, <1>2, <1>3, <1>4, <1>5, <1>6, <1>7, <1>8, <1>9

\* An instance has one service and at most one version, in links and in the store.
IsKey(t) == t[2] = "related_service" \/ (t[2] = "component_instance" /\ t[3] \in ComponentVersions)
Instance(t) == IF t[2] = "related_service" THEN t[3] ELSE t[1]

\* A look at the store comes before the search, the removal and the addition of one foreign
\* key of an instance.
LEMMA UnlessBefore ==
    ASSUME NEW e, NEW n \in 1..Calls(e), Shape(e)[n] = "unless"
    PROVE  /\ e.name = "UpdateComponentInstance" /\ n + 3 \in 1..Calls(e)
           /\ n = 1 \/ (n = 5 /\ e.on[3] # Nobody)
           /\ \A m \in n..(n + 2) : AddsAt(e, m) = {}
           /\ \A m \in n..(n + 3) : \A t : SweepsAt(e, m, t) => m = n + 1
           /\ \A t : SweepsAt(e, n + 1, t) => IsKey(t) /\ Instance(t) = e.on[1]
           /\ \A m \in 1..n : AddsAt(e, m) \cap AddsAt(e, n + 3) = {}
           /\ \A m \in 1..n : \A t \in AddsAt(e, m) : ~SweepsAt(e, n + 1, t)
<1>1. e.name = "UpdateComponentInstance"
  <2>1. SUFFICES ASSUME e.name # "UpdateComponentInstance" PROVE FALSE
    OBVIOUS
  <2>2. CASE e.name \in Adds \cup Roles \cup {"CreateComponentInstance"}
    <3>1. Calls(e) = 1 /\ Shape(e)[1] = "add"
      BY <2>2 DEF Calls, Shape, Adds, Roles, Deletes, Removes
    <3> QED
      BY <3>1
  <2>3. CASE e.name \in {"CreateIssueRepository", "CreateService"}
    <3>1. /\ Calls(e) = 2 \/ (Calls(e) = 3 /\ Shape(e)[3] = "add")
          /\ Shape(e)[1] = "list" /\ Shape(e)[2] = "link"
      BY <2>3 DEF Calls, Shape, Adds, Roles, Deletes, Removes
    <3> QED
      BY <3>1
  <2>4. CASE e.name \in Deletes \cup Removes
    <3>1. Calls(e) = 2 /\ Shape(e)[1] = "find" /\ Shape(e)[2] = "drop"
      BY <2>4 DEF Calls, Shape, Adds, Roles, Deletes, Removes
    <3> QED
      BY <3>1
  <2>5. CASE e.name = "DeleteSupportGroup"
    <3>1. /\ Calls(e) = 4 /\ Shape(e)[1] = "find" /\ Shape(e)[2] = "drop" /\ Shape(e)[3] = "find"
          /\ Shape(e)[4] = "drop"
      BY <2>5 DEF Calls, Shape, Adds, Roles, Deletes, Removes
    <3> QED
      BY <3>1
  <2>6. CASE e.name \in {"UpdateComponentVersion", "UpdateIssueMatch"}
    <3>1. Calls(e) = 3 /\ Shape(e)[1] = "find" /\ Shape(e)[2] = "drop" /\ Shape(e)[3] = "add"
      BY <2>6 DEF Calls, Shape, Adds, Roles, Deletes, Removes
    <3> QED
      BY <3>1
  <2>7. CASE ~\/ e.name \in Adds \cup Roles \cup {"CreateComponentInstance", "CreateService", "CreateIssueRepository"}
              \/ e.name \in Deletes \cup Removes
              \/ e.name \in {"DeleteSupportGroup", "UpdateComponentVersion", "UpdateIssueMatch",
                             "UpdateComponentInstance"}
    <3>1. Calls(e) = 0
      BY <2>7 DEF Calls, Adds, Roles, Deletes, Removes
    <3> QED
      BY <3>1
  <2> QED
    BY <2>1, <2>2, <2>3, <2>4, <2>5, <2>6, <2>7
<1>2. n + 3 \in 1..Calls(e) /\ (n = 1 \/ (n = 5 /\ e.on[3] # Nobody))
  <2>1. CASE e.on[3] = Nobody
    <3>1. /\ Calls(e) = 4 /\ Shape(e)[2] = "find" /\ Shape(e)[3] = "drop" /\ Shape(e)[4] = "add"
      BY <1>1, <2>1 DEF Calls, Shape, Adds, Roles, Deletes, Removes
    <3> QED
      BY <3>1
  <2>2. CASE e.on[3] # Nobody
    <3>1. /\ Calls(e) = 8 /\ Shape(e)[2] = "find" /\ Shape(e)[3] = "drop" /\ Shape(e)[4] = "add"
          /\ Shape(e)[6] = "find" /\ Shape(e)[7] = "drop" /\ Shape(e)[8] = "add"
      BY <1>1, <2>2 DEF Calls, Shape, Adds, Roles, Deletes, Removes
    <3> QED
      BY <2>2, <3>1
  <2> QED
    BY <2>1, <2>2
<1>3. \A m : AddsAt(e, m) = IF m = 4 THEN {Tuple(e.on[2], "related_service", e.on[1])}
                            ELSE IF m = 8 THEN {Tuple(e.on[1], "component_instance", e.on[3])} ELSE {}
  BY <1>1 DEF AddsAt
<1>4. \A m, t : SweepsAt(e, m, t) <=>
        \/ m = 2 /\ t[2] = "related_service" /\ t[3] = e.on[1]
        \/ /\ m = 6 /\ e.on[3] # Nobody
           /\ t[2] = "component_instance" /\ t[1] = e.on[1] /\ t[3] \in ComponentVersions
  BY <1>1 DEF SweepsAt, Deletes, Removes
<1>5. \A m \in n..(n + 2) : AddsAt(e, m) = {}
  BY <1>2, <1>3
<1>6. \A m \in n..(n + 3) : \A t : SweepsAt(e, m, t) => m = n + 1
  BY <1>2, <1>4
<1>7. \A t : SweepsAt(e, n + 1, t) => IsKey(t) /\ Instance(t) = e.on[1]
  BY <1>2, <1>4 DEF IsKey, Instance
<1>8. CASE n = 1
  <2>1. \A m \in 1..1 : m = 1
    OBVIOUS
  <2>2. AddsAt(e, 1) = {}
    BY <1>3
  <2> QED
    BY <1>1, <1>2, <1>5, <1>6, <1>7, <1>8, <2>1, <2>2
<1>9. CASE n = 5
  <2>1. AddsAt(e, n + 3) = {Tuple(e.on[1], "component_instance", e.on[3])}
    BY <1>3, <1>9
  <2>2. ASSUME NEW m \in 1..5, NEW t \in AddsAt(e, m)
        PROVE  t[2] = "related_service"
    <3>1. t = Tuple(e.on[2], "related_service", e.on[1])
      BY <1>3, <2>2
    <3> QED
      BY <3>1 DEF Tuple
  <2>3. \A t \in AddsAt(e, n + 3) : t[2] # "related_service"
    BY <2>1 DEF Tuple
  <2>4. \A m \in 1..n : AddsAt(e, m) \cap AddsAt(e, n + 3) = {}
    BY <1>9, <2>2, <2>3
  <2>5. \A t : SweepsAt(e, n + 1, t) => t[2] = "component_instance"
    BY <1>4, <1>9
  <2>6. \A m \in 1..n : \A t \in AddsAt(e, m) : ~SweepsAt(e, n + 1, t)
    BY <1>9, <2>2, <2>5
  <2> QED
    BY <1>1, <1>2, <1>5, <1>6, <1>7, <2>4, <2>6
<1> QED
  BY <1>2, <1>8, <1>9

\* What a handler adds it does not drop afterwards.
LEMMA SweptBeforeAdded ==
    ASSUME NEW e, NEW n \in Nat, NEW m \in Nat, NEW t \in AddsAt(e, n), SweepsAt(e, m, t)
    PROVE  m < n
<1>1. CASE e.name = "UpdateComponentInstance"
  <2>1. \/ n = 4 /\ t = Tuple(e.on[2], "related_service", e.on[1])
        \/ n = 8 /\ t = Tuple(e.on[1], "component_instance", e.on[3])
    BY <1>1 DEF AddsAt
  <2>2. (m = 2 /\ t[2] = "related_service") \/ (m = 6 /\ t[2] = "component_instance")
    BY <1>1 DEF SweepsAt, Deletes, Removes
  <2> QED
    BY <2>1, <2>2 DEF Tuple
<1>2. CASE e.name \in {"UpdateComponentVersion", "UpdateIssueMatch"}
  <2>1. n = 3
    BY <1>2 DEF AddsAt
  <2>2. m = 1
    BY <1>2 DEF SweepsAt, Deletes, Removes
  <2> QED
    BY <2>1, <2>2
<1>3. CASE e.name \notin {"UpdateComponentInstance", "UpdateComponentVersion", "UpdateIssueMatch"}
  <2>1. t \in Grants(e)
    BY <1>3 DEF AddsAt
  <2>2. e.name \in Adds \cup {"CreateComponentInstance"}
    BY <1>3, <2>1 DEF Grants, Adds
  <2>3. ~SweepsAt(e, m, t)
    BY <2>2 DEF SweepsAt, Adds, Deletes, Removes
  <2> QED
    BY <2>3
<1> QED
  BY <1>1, <1>2, <1>3
-----------------------------------------------------------------------------
(* The invariant of the grants.                                            *)

\* An event in flight will still add t, will still drop t.
WillAdd(task, t) == \E n \in task.pc..Calls(task.event) : t \in AddsAt(task.event, n)
WillDrop(task, t) ==
    \/ \E n \in task.pc..Calls(task.event) : SweepsAt(task.event, n, t)
    \/ task.pc \in 1..Calls(task.event) /\ Shape(task.event)[task.pc] = "drop" /\ t \in task.found

\* The invariant speaks of a relation through both of its ends, and of a foreign key of an
\* instance also through the instance alone; none of these objects is disturbed.
Watched(t, T) ==
    T \cap disturbed = {} /\ (T = Ends(t) \/ (IsKey(t) /\ T = {Instance(t)}))

\* The database holds the relation, and seen through both ends, both ends are live.
Right(t, T) == t \in links /\ (T = Ends(t) => Ends(t) \subseteq live)

\* What a handler found is what its event has to drop.
FoundOK(task) ==
    task.pc \in 1..Calls(task.event) /\ Shape(task.event)[task.pc] = "drop" =>
        \A t \in task.found \cap Relations : SweepsAt(task.event, task.pc - 1, t)

EventsOK == \A k \in 1..Len(tasks) : EventOK(tasks[k].event) /\ FoundOK(tasks[k])

\* Two events that touch the same object disturb all of theirs.
Apart ==
    \A j, k \in 1..Len(tasks) :
        j # k /\ Touched(tasks[j].event) \cap Touched(tasks[k].event) # {}
          => Touched(tasks[j].event) \cup Touched(tasks[k].event) \subseteq disturbed

\* A tuple that is not right is ahead of an event that drops it.
WrongLeaves ==
    \A t \in Relations : \A T : t \in tuples /\ Watched(t, T) /\ ~Right(t, T) =>
        \E k \in 1..Len(tasks) : Touched(tasks[k].event) \cap T # {} /\ WillDrop(tasks[k], t)

\* A relation of live objects without its tuple is ahead of an event that adds it.
MissingComes ==
    \A t \in Relations :
        Watched(t, Ends(t)) /\ Mirrored(t) /\ Right(t, Ends(t)) /\ t \notin tuples =>
            \E k \in 1..Len(tasks) : WillAdd(tasks[k], t)

\* An event adds only what is right, and adds again what is right and it drops.
AddsRight ==
    \A t \in Relations : \A T : \A k \in 1..Len(tasks) :
        Watched(t, T) /\ WillAdd(tasks[k], t) => Right(t, T)
DropsReturn ==
    \A t \in Relations : \A k \in 1..Len(tasks) :
        Watched(t, Ends(t)) /\ Mirrored(t) /\ Right(t, Ends(t)) /\ WillDrop(tasks[k], t)
          => WillAdd(tasks[k], t)

\* If the new foreign key is in the store when an update looks, there is no other to replace.
HeldAlone(task) ==
    \A n \in task.pc..Calls(task.event) : Shape(task.event)[n] = "unless" =>
        \A u \in AddsAt(task.event, n + 3) \cap tuples : \A t \in tuples \cap Relations :
            SweepsAt(task.event, n + 1, t) => t = u
KeysAlone ==
    \A k \in 1..Len(tasks) : tasks[k].event.on[1] \notin disturbed => HeldAlone(tasks[k])

\* Links are between rows of their kinds; an instance has one service and at most one version.
LinksTyped == \A l \in links : l[2] \in RelationNames => l \in Relations /\ Ends(l) \subseteq rows
KeysUnique ==
    \A i \in rows \cap ComponentInstances :
        /\ \E s \in Services : Tuple(s, "related_service", i) \in links
        /\ \A l, m \in links : IsKey(l) /\ IsKey(m) /\ l[2] = m[2] /\ Instance(l) = i /\ Instance(m) = i
             => l = m
StoreTyped == \A t \in tuples : t \in Relations \/ t[1] = Role \/ Nobody \in Ends(t)
WasTyped == \A i \in ComponentInstances : was[i] \subseteq Services \X (ComponentVersions \cup {Nobody})

GrantsInv ==
    /\ EventsOK /\ Apart /\ WrongLeaves /\ MissingComes /\ AddsRight /\ DropsReturn /\ KeysAlone
    /\ LinksTyped /\ KeysUnique /\ StoreTyped /\ WasTyped

-----------------------------------------------------------------------------
(* The workers: what one call does to a relation.                          *)

\* An event adds and drops relations of objects it touches.
LEMMA WillAddTouches ==
    ASSUME NEW task, EventOK(task.event), NEW t \in Relations, WillAdd(task, t)
    PROVE  Ends(t) \subseteq Touched(task.event)
<1>1. PICK n \in task.pc..Calls(task.event) : t \in AddsAt(task.event, n)
  BY DEF WillAdd
<1> QED
  BY <1>1, AddsTouch

LEMMA WillDropTouches ==
    ASSUME NEW task, EventOK(task.event), FoundOK(task), NEW t \in Relations, WillDrop(task, t)
    PROVE  task.event.on[1] \in Ends(t) /\ task.event.on[1] \in Touched(task.event)
<1>1. PICK n : SweepsAt(task.event, n, t)
  BY DEF WillDrop, FoundOK
<1> QED
  BY <1>1, SweepsTouch

\* What an event adds is of a kind of the store, or mentions id 0.
LEMMA AddsGranted ==
    ASSUME NEW e, EventOK(e), NEW n, NEW t \in AddsAt(e, n)
    PROVE  t \in Relations \/ Nobody \in Ends(t)
<1>1. t \in Grants(e)
  <2>1. CASE e.name = "UpdateComponentInstance"
    <3>1. \/ t = Tuple(e.on[2], "related_service", e.on[1])
          \/ t = Tuple(e.on[1], "component_instance", e.on[3])
      BY <2>1 DEF AddsAt
    <3> QED
      BY <2>1, <3>1 DEF Grants
  <2>2. CASE e.name # "UpdateComponentInstance"
    BY <2>2 DEF AddsAt
  <2> QED
    BY <2>1, <2>2
<1> QED
  BY <1>1 DEF EventOK

\* The foreign key an update looks for is of a kind of the store.
LEMMA HeldIsRelation ==
    ASSUME NEW e, EventOK(e), NEW n \in 1..Calls(e), Shape(e)[n] = "unless", NEW u \in AddsAt(e, n + 3)
    PROVE  u \in Relations /\ e.on[1] \in Ends(u) /\ u[2] # "role"
<1>1. e.name = "UpdateComponentInstance" /\ (n = 1 \/ (n = 5 /\ e.on[3] # Nobody))
  BY UnlessBefore
<1>2. e.on[2] # Nobody /\ e.on[1] # Nobody
  BY <1>1, SubjectTouched DEF EventOK
<1>3. \/ u = Tuple(e.on[2], "related_service", e.on[1])
      \/ u = Tuple(e.on[1], "component_instance", e.on[3]) /\ e.on[3] # Nobody
  BY <1>1 DEF AddsAt
<1>4. Nobody \notin Ends(u) /\ e.on[1] \in Ends(u) /\ u[2] # "role"
  BY <1>2, <1>3 DEF Ends, Tuple
<1> QED
  BY <1>4, AddsGranted

\* The event after n calls more; beyond the last one it is done.
After(task, n, found) == [event |-> task.event, pc |-> task.pc + n, found |-> found]

LEMMA AfterFields ==
    ASSUME NEW task, NEW n, NEW found
    PROVE  /\ After(task, n, found).event = task.event /\ After(task, n, found).pc = task.pc + n
           /\ After(task, n, found).found = found
BY DEF After

\* What one call of an event may do to a relation of the store.
Effect(task, next, t) ==
    /\ t \in tuples' => t \in tuples \/ t \in AddsAt(task.event, task.pc)
    /\ t \in tuples /\ t \notin tuples' => WillDrop(task, t)
    /\ WillDrop(next, t) => WillDrop(task, t)
    /\ WillAdd(next, t) => WillAdd(task, t)
    /\ t \in tuples /\ t \in tuples' /\ WillDrop(task, t) =>
         WillDrop(next, t) \/ WillAdd(task, t) \/ (IsKey(t) /\ Instance(t) \in disturbed)
    /\ WillAdd(task, t) => WillAdd(next, t) \/ t \in tuples'
    /\ WillDrop(next, t) /\ WillAdd(task, t) => WillAdd(next, t)

\* Whatever the call was, an event that went on adds nothing new, and does not drop what it
\* has added.
LEMMA WentOn ==
    ASSUME NEW task, NEW n \in Nat, n > 0, NEW found, FoundOK(After(task, n, found)),
           task.pc \in 1..Calls(task.event), NEW t \in Relations
    PROVE  /\ WillAdd(After(task, n, found), t) => WillAdd(task, t)
           /\ WillDrop(After(task, n, found), t) /\ WillAdd(task, t) => WillAdd(After(task, n, found), t)
<1> DEFINE next == After(task, n, found)
           e == task.event
           p == task.pc
           c == Calls(e)
<1>1. next.event = e /\ next.pc = p + n /\ next.found = found
  BY AfterFields
<1>2. c \in Nat /\ p \in Nat /\ p >= 1
  BY CallsType
<1> HIDE DEF next
<1>3. WillAdd(next, t) => WillAdd(task, t)
  <2>1. \A m \in (p + n)..c : m \in p..c
    BY <1>2
  <2> QED
    BY <1>1, <2>1 DEF WillAdd
<1>4. ASSUME WillDrop(next, t), WillAdd(task, t)
      PROVE  WillAdd(next, t)
  <2>1. PICK m \in p..c : t \in AddsAt(e, m)
    BY <1>4 DEF WillAdd
  <2>2. PICK s \in Nat : SweepsAt(e, s, t) /\ s >= p + n - 1
    <3>1. CASE \E s \in (p + n)..c : SweepsAt(e, s, t)
      <4>1. PICK s \in (p + n)..c : SweepsAt(e, s, t)
        BY <3>1
      <4> QED
        BY <1>2, <4>1
    <3>2. CASE p + n \in 1..c /\ Shape(e)[p + n] = "drop" /\ t \in found
      <4>1. SweepsAt(e, p + n - 1, t)
        BY <1>1, <3>2 DEF FoundOK, next
      <4> QED
        BY <1>2, <4>1
    <3> QED
      BY <1>1, <1>4, <3>1, <3>2 DEF WillDrop
  <2>3. s < m
    BY <1>2, <2>1, <2>2, SweptBeforeAdded
  <2>4. m \in (p + n)..c
    BY <1>2, <2>1, <2>2, <2>3
  <2> QED
    BY <1>1, <2>1, <2>4 DEF WillAdd
<1> QED
  BY <1>3, <1>4 DEF next

LEMMA WentOnOne ==
    ASSUME NEW task, NEW found, FoundOK(After(task, 1, found)),
           task.pc \in 1..Calls(task.event), NEW t \in Relations
    PROVE  /\ WillAdd(After(task, 1, found), t) => WillAdd(task, t)
           /\ WillDrop(After(task, 1, found), t) /\ WillAdd(task, t) => WillAdd(After(task, 1, found), t)
<1>1. PICK n \in Nat : n = 1 /\ n > 0
  OBVIOUS
<1> QED
  BY <1>1, WentOn

\* Without the call it has reached, an event drops and adds what it did.
LEMMA RestOf ==
    ASSUME NEW task, NEW found, task.pc \in 1..Calls(task.event), NEW t
    PROVE  /\ WillAdd(task, t) <=> t \in AddsAt(task.event, task.pc) \/ WillAdd(After(task, 1, found), t)
           /\ WillDrop(task, t) <=>
                \/ SweepsAt(task.event, task.pc, t)
                \/ Shape(task.event)[task.pc] = "drop" /\ t \in task.found
                \/ \E n \in (task.pc + 1)..Calls(task.event) : SweepsAt(task.event, n, t)
           /\ WillDrop(After(task, 1, found), t) <=>
                \/ \E n \in (task.pc + 1)..Calls(task.event) : SweepsAt(task.event, n, t)
                \/ /\ task.pc + 1 \in 1..Calls(task.event) /\ Shape(task.event)[task.pc + 1] = "drop"
                   /\ t \in found
<1> DEFINE next == After(task, 1, found)
           e == task.event
           p == task.pc
           c == Calls(e)
<1>1. next.event = e /\ next.pc = p + 1 /\ next.found = found
  BY AfterFields
<1>2. c \in Nat /\ p \in Nat
  BY CallsType
<1>3. \A n : n \in p..c <=> n = p \/ n \in (p + 1)..c
  BY <1>2
<1> HIDE DEF next
<1>4. WillAdd(task, t) <=> t \in AddsAt(e, p) \/ WillAdd(next, t)
  BY <1>1, <1>3 DEF WillAdd
<1>5. WillDrop(task, t) <=> \/ SweepsAt(e, p, t) \/ (Shape(e)[p] = "drop" /\ t \in task.found)
                            \/ \E n \in (p + 1)..c : SweepsAt(e, n, t)
  BY <1>3 DEF WillDrop
<1>6. WillDrop(next, t) <=> \/ \E n \in (p + 1)..c : SweepsAt(e, n, t)
                            \/ p + 1 \in 1..c /\ Shape(e)[p + 1] = "drop" /\ t \in found
  BY <1>1 DEF WillDrop
<1> QED
  BY <1>4, <1>5, <1>6 DEF next

\* The call an event has reached.
LEMMA CurrentMeans ==
    ASSUME TasksOK, EventsOK, NEW k \in 1..Len(tasks)
    PROVE  /\ tasks[k].pc \in 1..Calls(tasks[k].event) /\ EventOK(tasks[k].event) /\ FoundOK(tasks[k])
           /\ Means(tasks[k].event, tasks[k].pc, Current(k))
<1>1. tasks[k].pc \in 1..Calls(tasks[k].event) /\ EventOK(tasks[k].event) /\ FoundOK(tasks[k])
  BY DEF TasksOK, TaskOK, EventsOK
<1> QED
  BY <1>1, HandlersMean DEF Current

\* Nothing found, nothing to be wrong about.
LEMMA FoundNothing ==
    ASSUME NEW task, NEW n
    PROVE  FoundOK(After(task, n, {}))
BY AfterFields DEF FoundOK

\* The role of a creating user is no relation between objects.
LEMMA RoleApart ==
    ASSUME NEW o
    PROVE  Tuple(Role, "role", o) \notin Relations /\ Tuple(Role, "role", o)[1] = Role
<1>1. Tuple(Role, "role", o)[1] = Role
  BY DEF Tuple
<1> QED
  BY <1>1, EndsAreObjects, KindsOfObjects

\* AddRelation.
LEMMA AddEffect ==
    ASSUME TasksOK, EventsOK, NEW k \in 1..Len(tasks), AddStep(k)
    PROVE  /\ \A t \in Relations : Effect(tasks[k], After(tasks[k], 1, {}), t)
           /\ \A t \in tuples' : t \in tuples \/ t \in AddsAt(tasks[k].event, tasks[k].pc) \/ t[1] = Role
<1> DEFINE task == tasks[k]
           e == task.event
           p == task.pc
           next == After(task, 1, {})
           role == Tuple(Role, "role", e.on[1])
<1>1. p \in 1..Calls(e) /\ EventOK(e) /\ Means(e, p, Current(k))
  BY CurrentMeans
<1>2. /\ Shape(e)[p] = "add" /\ AddsAt(e, p) \subseteq Current(k).of
      /\ Current(k).of \subseteq AddsAt(e, p) \cup {role} /\ \A t \in Relations : ~SweepsAt(e, p, t)
  BY <1>1 DEF AddStep, Means
<1>3. tuples' = tuples \cup Current(k).of
  BY DEF AddStep, Write
<1>4. role \notin Relations /\ role[1] = Role
  BY RoleApart
<1>5. FoundOK(next)
  BY FoundNothing
<1> HIDE DEF role
<1>6. ASSUME NEW t \in Relations
      PROVE  Effect(task, next, t)
  <2>1. /\ WillAdd(next, t) => WillAdd(task, t)
        /\ WillDrop(next, t) /\ WillAdd(task, t) => WillAdd(next, t)
    BY <1>1, <1>5, WentOnOne
  <2>2. WillAdd(task, t) => t \in AddsAt(e, p) \/ WillAdd(next, t)
    BY <1>1, RestOf
  <2>3. WillDrop(task, t) <=> WillDrop(next, t)
    BY <1>1, <1>2, RestOf
  <2> HIDE DEF next, task
  <2> QED
    BY <1>2, <1>3, <1>4, <2>1, <2>2, <2>3 DEF Effect, task
<1>7. \A t \in tuples' : t \in tuples \/ t \in AddsAt(e, p) \/ t[1] = Role
  BY <1>2, <1>3, <1>4
<1> QED
  BY <1>6, <1>7

\* ListRelations and the listings of OnServiceCreate and OnIssueRepositoryCreate.
LEMMA ReadEffect ==
    ASSUME TasksOK, EventsOK, NEW k \in 1..Len(tasks), ReadStep(k)
    PROVE  /\ \A t \in Relations : Effect(tasks[k], After(tasks[k], 1, Current(k).of), t)
           /\ FoundOK(After(tasks[k], 1, Current(k).of)) /\ tuples' = tuples
<1> DEFINE task == tasks[k]
           e == task.event
           p == task.pc
<1>0. PICK found : found = Current(k).of
  OBVIOUS
<1> DEFINE next == After(task, 1, found)
<1>1. p \in 1..Calls(e) /\ EventOK(e) /\ Means(e, p, Current(k))
  BY CurrentMeans
<1>2. Shape(e)[p] \in {"find", "list"} /\ AddsAt(e, p) = {}
  BY <1>1 DEF ReadStep, Means
<1>3. Shape(e)[p] = "find" => \A t \in Relations : t \in found <=> t \in tuples /\ SweepsAt(e, p, t)
  BY <1>0, <1>1 DEF Means
<1>4. Shape(e)[p] = "list" => \A t \in Relations : ~SweepsAt(e, p, t)
  BY <1>1 DEF Means
<1>5. /\ p + 1 \in 1..Calls(e)
      /\ Shape(e)[p] = "find" => Shape(e)[p + 1] = "drop"
      /\ Shape(e)[p] = "list" => Shape(e)[p + 1] = "link"
  BY <1>1, <1>2, FindBeforeDrop
<1>6. tuples' = tuples
  BY DEF ReadStep, Write
<1>7. FoundOK(next)
  <2>1. next.event = e /\ next.pc = p + 1 /\ next.found = found
    BY AfterFields
  <2>2. next.pc - 1 = p
    BY <1>1, <2>1, CallsType
  <2>3. Shape(e)[p + 1] = "drop" => \A t \in found \cap Relations : SweepsAt(e, p, t)
    BY <1>2, <1>3, <1>5
  <2> HIDE DEF next
  <2>4. \A t \in next.found \cap Relations :
          Shape(next.event)[next.pc] = "drop" => SweepsAt(next.event, next.pc - 1, t)
    BY <2>1, <2>2, <2>3
  <2> QED
    BY <2>4 DEF FoundOK
<1>8. ASSUME NEW t \in Relations
      PROVE  Effect(task, next, t)
  <2>1. /\ WillAdd(next, t) => WillAdd(task, t)
        /\ WillDrop(next, t) /\ WillAdd(task, t) => WillAdd(next, t)
    BY <1>1, <1>7, WentOnOne
  <2>2. WillAdd(task, t) => WillAdd(next, t)
    BY <1>1, <1>2, RestOf
  <2> DEFINE later == \E n \in (p + 1)..Calls(e) : SweepsAt(e, n, t)
  <2>3. WillDrop(task, t) <=> SweepsAt(e, p, t) \/ later
    BY <1>1, <1>2, RestOf
  <2>4. WillDrop(next, t) <=> later \/ (p + 1 \in 1..Calls(e) /\ Shape(e)[p + 1] = "drop" /\ t \in found)
    BY <1>1, RestOf
  <2> HIDE DEF next, task, later
  <2> QED
    BY <1>2, <1>3, <1>4, <1>5, <1>6, <2>1, <2>2, <2>3, <2>4 DEF Effect
<1> QED
  BY <1>0, <1>6, <1>7, <1>8

\* The removal of what was found.
LEMMA DropEffect ==
    ASSUME TasksOK, EventsOK, NEW k \in 1..Len(tasks), DropStep(k)
    PROVE  /\ \A t \in Relations : Effect(tasks[k], After(tasks[k], 1, {}), t)
           /\ tuples' \subseteq tuples
<1> DEFINE task == tasks[k]
           e == task.event
           p == task.pc
           next == After(task, 1, {})
<1>1. p \in 1..Calls(e) /\ EventOK(e) /\ Means(e, p, Current(k))
  BY CurrentMeans
<1>2. Shape(e)[p] = "drop" /\ AddsAt(e, p) = {} /\ \A t \in Relations : ~SweepsAt(e, p, t)
  BY <1>1 DEF DropStep, Means
<1>3. tuples' = tuples \ task.found
  BY DEF DropStep, Write
<1>4. FoundOK(next)
  BY FoundNothing
<1>5. ASSUME NEW t \in Relations
      PROVE  Effect(task, next, t)
  <2>1. /\ WillAdd(next, t) => WillAdd(task, t)
        /\ WillDrop(next, t) /\ WillAdd(task, t) => WillAdd(next, t)
    BY <1>1, <1>4, WentOnOne
  <2>2. WillAdd(task, t) => WillAdd(next, t)
    BY <1>1, <1>2, RestOf
  <2>3. WillDrop(task, t) <=> t \in task.found \/ WillDrop(next, t)
    BY <1>1, <1>2, RestOf
  <2> HIDE DEF next, task
  <2> QED
    BY <1>3, <2>1, <2>2, <2>3 DEF Effect
<1> QED
  BY <1>3, <1>5

\* The links of OnServiceCreate and OnIssueRepositoryCreate.
LEMMA LinkEffect ==
    ASSUME TasksOK, EventsOK, NEW k \in 1..Len(tasks), LinkStep(k)
    PROVE  /\ \A t \in Relations : Effect(tasks[k], After(tasks[k], 1, {}), t)
           /\ tuples' = tuples
<1> DEFINE task == tasks[k]
           e == task.event
           p == task.pc
           next == After(task, 1, {})
<1>1. p \in 1..Calls(e) /\ EventOK(e) /\ Means(e, p, Current(k))
  BY CurrentMeans
<1>2. Shape(e)[p] = "link" /\ AddsAt(e, p) = {} /\ \A t \in Relations : ~SweepsAt(e, p, t)
  BY <1>1 DEF LinkStep, Means
<1>3. tuples' = tuples
  BY DEF LinkStep, Write
<1>4. FoundOK(next)
  BY FoundNothing
<1>5. ASSUME NEW t \in Relations
      PROVE  Effect(task, next, t)
  <2>1. /\ WillAdd(next, t) => WillAdd(task, t)
        /\ WillDrop(next, t) /\ WillAdd(task, t) => WillAdd(next, t)
    BY <1>1, <1>4, WentOnOne
  <2>2. WillAdd(task, t) => WillAdd(next, t)
    BY <1>1, <1>2, RestOf
  <2>3. WillDrop(task, t) <=> WillDrop(next, t)
    BY <1>1, <1>2, RestOf
  <2> HIDE DEF next, task
  <2> QED
    BY <1>3, <2>1, <2>2, <2>3 DEF Effect
<1> QED
  BY <1>3, <1>5

\* The look before the replacement of a foreign key: if the new one is there, the
\* replacement is left out.
LEMMA UnlessEffect ==
    ASSUME TasksOK, EventsOK, KeysAlone, NEW k \in 1..Len(tasks), UnlessStep(k)
    PROVE  /\ tuples' = tuples
           /\ \E n \in {1, 4} : /\ Advance(k, n, {})
                                /\ \A t \in Relations : Effect(tasks[k], After(tasks[k], n, {}), t)
<1> DEFINE task == tasks[k]
           e == task.event
           p == task.pc
           c == Calls(e)
<1>1. p \in 1..c /\ EventOK(e) /\ Means(e, p, Current(k))
  BY CurrentMeans
<1>2. /\ Shape(e)[p] = "unless" /\ AddsAt(e, p) = {} /\ \A t \in Relations : ~SweepsAt(e, p, t)
      /\ Current(k).skip = 3 /\ Current(k).of = AddsAt(e, p + 3)
  BY <1>1 DEF UnlessStep, Means
<1>3. tuples' = tuples
  BY DEF UnlessStep, Write
<1>4. Advance(k, IF Current(k).of \subseteq tuples THEN 1 + Current(k).skip ELSE 1, {})
  BY DEF UnlessStep
<1>5. CASE ~(Current(k).of \subseteq tuples)
  <2> DEFINE next == After(task, 1, {})
  <2>1. Advance(k, 1, {})
    BY <1>4, <1>5
  <2>2. FoundOK(next)
    BY FoundNothing
  <2>3. ASSUME NEW t \in Relations
        PROVE  Effect(task, next, t)
    <3>1. /\ WillAdd(next, t) => WillAdd(task, t)
          /\ WillDrop(next, t) /\ WillAdd(task, t) => WillAdd(next, t)
      BY <1>1, <2>2, WentOnOne
    <3>2. WillAdd(task, t) => WillAdd(next, t)
      BY <1>1, <1>2, RestOf
    <3>3. WillDrop(task, t) <=> WillDrop(next, t)
      BY <1>1, <1>2, RestOf
    <3> HIDE DEF next, task
    <3> QED
      BY <1>3, <3>1, <3>2, <3>3 DEF Effect
  <2> QED
    BY <1>3, <2>1, <2>3
<1>6. CASE Current(k).of \subseteq tuples
  <2> DEFINE next == After(task, 4, {})
  <2>1. Advance(k, 4, {})
    BY <1>2, <1>4, <1>6
  <2>2. FoundOK(next)
    BY FoundNothing
  <2>3. next.event = e /\ next.pc = p + 4 /\ next.found = {}
    BY AfterFields
  <2>4. /\ e.name = "UpdateComponentInstance" /\ p + 3 \in 1..c
        /\ \A m \in p..(p + 2) : AddsAt(e, m) = {}
        /\ \A m \in p..(p + 3) : \A t : SweepsAt(e, m, t) => m = p + 1
        /\ \A t : SweepsAt(e, p + 1, t) => IsKey(t) /\ Instance(t) = e.on[1]
    BY <1>1, <1>2, UnlessBefore
  <2>5. c \in Nat /\ p \in Nat /\ p >= 1 /\ p \in p..c
    BY <1>1, CallsType
  <2>6. PICK u : AddsAt(e, p + 3) = {u}
    <3>1. p = 1 \/ p = 5
      BY <1>1, <1>2, UnlessBefore
    <3>2. p = 1 => AddsAt(e, p + 3) = {Tuple(e.on[2], "related_service", e.on[1])}
      BY <2>4 DEF AddsAt
    <3>3. p = 5 => AddsAt(e, p + 3) = {Tuple(e.on[1], "component_instance", e.on[3])}
      BY <2>4 DEF AddsAt
    <3> QED
      BY <3>1, <3>2, <3>3
  <2>7. u \in tuples
    BY <1>2, <1>6, <2>6
  <2>8. ASSUME NEW t \in Relations
        PROVE  Effect(task, next, t)
    <3>1. /\ WillAdd(next, t) => WillAdd(task, t)
          /\ WillDrop(next, t) /\ WillAdd(task, t) => WillAdd(next, t)
      BY <1>1, <2>2, WentOn
    <3>2. WillAdd(task, t) => WillAdd(next, t) \/ t \in tuples
      <4>1. SUFFICES ASSUME NEW m \in p..c, t \in AddsAt(e, m)
                     PROVE  WillAdd(next, t) \/ t \in tuples
        BY DEF WillAdd
      <4>2. CASE m \in (p + 4)..c
        BY <2>3, <4>1, <4>2 DEF WillAdd
      <4>3. CASE m = p + 3
        BY <2>6, <2>7, <4>1, <4>3
      <4>4. CASE m \in p..(p + 2)
        BY <2>4, <4>1, <4>4
      <4> QED
        BY <2>5, <4>2, <4>3, <4>4
    <3>3. WillDrop(next, t) => WillDrop(task, t)
      <4>1. \A m \in (p + 4)..c : m \in p..c
        BY <2>5
      <4> QED
        BY <2>3, <4>1 DEF WillDrop
    <3>4. ASSUME t \in tuples, WillDrop(task, t)
          PROVE  WillDrop(next, t) \/ WillAdd(task, t) \/ (IsKey(t) /\ Instance(t) \in disturbed)
      <4>1. PICK m \in p..c : SweepsAt(e, m, t)
        BY <1>2, <3>4 DEF WillDrop
      <4>2. CASE m \in (p + 4)..c
        BY <2>3, <4>1, <4>2 DEF WillDrop
      <4>3. CASE m \in p..(p + 3)
        <5>1. m = p + 1
          BY <2>4, <4>1, <4>3
        <5>2. IsKey(t) /\ Instance(t) = e.on[1]
          BY <2>4, <4>1, <5>1
        <5>3. ASSUME e.on[1] \notin disturbed
              PROVE  WillAdd(task, t)
          <6>1. HeldAlone(task)
            BY <5>3 DEF KeysAlone
          <6>2. u \in AddsAt(e, p + 3) \cap tuples /\ t \in tuples \cap Relations /\ SweepsAt(e, p + 1, t)
            BY <2>6, <2>7, <3>4, <4>1, <5>1
          <6>3. t = u
            BY <1>2, <2>5, <6>1, <6>2 DEF HeldAlone
          <6>4. p + 3 \in p..c
            BY <2>4, <2>5
          <6> QED
            BY <6>2, <6>3, <6>4 DEF WillAdd
        <5> QED
          BY <5>2, <5>3
      <4> QED
        BY <2>5, <4>2, <4>3
    <3> HIDE DEF next, task
    <3> QED
      BY <1>3, <3>1, <3>2, <3>3, <3>4 DEF Effect
  <2> QED
    BY <1>3, <2>1, <2>8
<1> QED
  BY <1>5, <1>6

\* HandleEvent, whatever the call.
LEMMA CallEffect ==
    ASSUME TasksOK, EventsOK, KeysAlone, NEW k \in 1..Len(tasks), HandleEvent(k)
    PROVE  /\ \A t \in tuples' : t \in tuples \/ t \in AddsAt(tasks[k].event, tasks[k].pc) \/ t[1] = Role
           /\ \E n \in Nat : \E found :
                /\ n > 0 /\ Advance(k, n, found) /\ FoundOK(After(tasks[k], n, found))
                /\ \A t \in Relations : Effect(tasks[k], After(tasks[k], n, found), t)
<1>1. CASE AddStep(k)
  <2>1. Advance(k, 1, {}) /\ 1 \in Nat /\ 1 > 0
    BY <1>1 DEF AddStep
  <2> QED
    BY <1>1, <2>1, AddEffect, FoundNothing
<1>2. CASE ReadStep(k)
  <2>1. Advance(k, 1, Current(k).of) /\ 1 \in Nat /\ 1 > 0
    BY <1>2 DEF ReadStep
  <2>2. /\ \A t \in Relations : Effect(tasks[k], After(tasks[k], 1, Current(k).of), t)
        /\ FoundOK(After(tasks[k], 1, Current(k).of)) /\ tuples' = tuples
    BY <1>2, ReadEffect
  <2> QED
    BY <2>1, <2>2
<1>3. CASE DropStep(k)
  <2>1. Advance(k, 1, {}) /\ 1 \in Nat /\ 1 > 0
    BY <1>3 DEF DropStep
  <2> QED
    BY <1>3, <2>1, DropEffect, FoundNothing
<1>4. CASE UnlessStep(k)
  <2>1. PICK n \in {1, 4} : Advance(k, n, {}) /\ \A t \in Relations : Effect(tasks[k], After(tasks[k], n, {}), t)
    BY <1>4, UnlessEffect
  <2>2. tuples' = tuples /\ n \in Nat /\ n > 0
    BY <1>4, UnlessEffect
  <2> QED
    BY <2>1, <2>2, FoundNothing
<1>5. CASE LinkStep(k)
  <2>1. Advance(k, 1, {}) /\ 1 \in Nat /\ 1 > 0
    BY <1>5 DEF LinkStep
  <2> QED
    BY <1>5, <2>1, LinkEffect, FoundNothing
<1> QED
  BY <1>1, <1>2, <1>3, <1>4, <1>5 DEF HandleEvent

\* Where the events in flight after a call come from: each from one of its own.
LEMMA AdvanceSource ==
    ASSUME TasksOK, NEW k \in 1..Len(tasks), NEW n \in Nat, NEW found, Advance(k, n, found)
    PROVE  \E src :
             /\ \A j \in 1..Len(tasks') :
                  /\ src[j] \in 1..Len(tasks)
                  /\ src[j] = k => tasks'[j] = After(tasks[k], n, found)
                  /\ src[j] # k => tasks'[j] = tasks[src[j]]
             /\ \A i, j \in 1..Len(tasks') : src[i] = src[j] => i = j
<1> DEFINE t == tasks[k]
           e == t.event
           before == SubSeq(tasks, 1, k - 1)
           after == SubSeq(tasks, k + 1, Len(tasks))
           done == before \o after
           moved == [t EXCEPT !.pc = @ + n, !.found = found]
<1>1. PICK S : tasks \in Seq(S)
  BY DEF TasksOK
<1>2. TaskOK(t)
  BY DEF TasksOK
<1>3. Len(tasks) \in Nat
  BY <1>1
<1>4. CASE t.pc + n > Len(Handlers(e))
  <2>1. tasks' = done
    BY <1>4 DEF Advance
  <2>3. /\ before \in Seq(S) /\ Len(before) = k - 1
        /\ \A j \in 1..(k - 1) : before[j] = tasks[j]
    BY <1>1, <1>3
  <2>4. /\ after \in Seq(S) /\ Len(after) = Len(tasks) - k
        /\ \A j \in 1..(Len(tasks) - k) : after[j] = tasks[k + j]
    BY <1>1, <1>3
  <2> HIDE DEF before, after
  <2>5. done \in Seq(S) /\ Len(done) = Len(tasks) - 1
    <3>1. done \in Seq(S) /\ Len(done) = Len(before) + Len(after)
      BY <2>3, <2>4, Concatenation
    <3> HIDE DEF done
    <3> QED
      BY <1>3, <2>3, <2>4, <3>1
  <2> DEFINE src == [j \in 1..Len(done) |-> IF j < k THEN j ELSE j + 1]
  <2>6. ASSUME NEW j \in 1..Len(done)
        PROVE  src[j] \in 1..Len(tasks) /\ src[j] # k /\ done[j] = tasks[src[j]]
    <3>1. CASE j < k
      <4>1. j \in 1..(k - 1)
        BY <1>3, <2>5, <3>1
      <4>2. done[j] = before[j]
        BY <1>3, <2>3, <2>4, <4>1
      <4>3. src[j] = j
        BY <3>1
      <4> HIDE DEF done, src
      <4> QED
        BY <1>3, <2>3, <2>5, <3>1, <4>1, <4>2, <4>3
    <3>2. CASE ~(j < k)
      <4> DEFINE i == j - (k - 1)
      <4>1. i \in 1..(Len(tasks) - k) /\ k + i = j + 1 /\ j + 1 \in 1..Len(tasks) /\ j + 1 # k
        BY <1>3, <2>5, <3>2
      <4>2. done[j] = after[j - Len(before)]
        BY <1>3, <2>3, <2>4, <2>5, <3>2
      <4>3. done[j] = after[i]
        BY <2>3, <4>2
      <4>4. src[j] = j + 1
        BY <3>2
      <4> HIDE DEF i, done, src
      <4>5. after[i] = tasks[j + 1]
        BY <2>4, <4>1
      <4> QED
        BY <4>1, <4>3, <4>4, <4>5
    <3> QED
      BY <3>1, <3>2
  <2>7. ASSUME NEW i \in 1..Len(done), NEW j \in 1..Len(done), src[i] = src[j]
        PROVE  i = j
    <3>1. i \in Int /\ j \in Int /\ k \in Int
      BY <1>3, <2>5
    <3>2. src[i] = (IF i < k THEN i ELSE i + 1) /\ src[j] = (IF j < k THEN j ELSE j + 1)
      OBVIOUS
    <3>3. (IF i < k THEN i ELSE i + 1) = (IF j < k THEN j ELSE j + 1)
      BY <2>7, <3>2
    <3> HIDE DEF src, done
    <3> QED
      BY <3>1, <3>3
  <2> HIDE DEF src, done
  <2> QED
    BY <2>1, <2>6, <2>7
<1>5. CASE ~(t.pc + n > Len(Handlers(e)))
  <2>1. tasks' = [tasks EXCEPT ![k] = moved]
    BY <1>5 DEF Advance
  <2>2. moved = After(t, n, found)
    <3>1. t = [event |-> e, pc |-> t.pc, found |-> t.found]
      BY <1>2 DEF TaskOK
    <3> HIDE DEF t
    <3> QED
      BY <3>1, Moved DEF After
  <2> HIDE DEF moved
  <2>3. tasks \in Seq(S \cup {moved})
    BY <1>1
  <2>4. tasks' \in Seq(S \cup {moved}) /\ Len(tasks') = Len(tasks)
    BY <2>1, <2>3
  <2>5. \A j \in 1..Len(tasks) : tasks'[j] = IF j = k THEN moved ELSE tasks[j]
    BY <2>1, <2>3
  <2> DEFINE src == [j \in 1..Len(tasks) |-> j]
  <2>6. \A j \in 1..Len(tasks') : src[j] = j
    BY <2>4
  <2> HIDE DEF src
  <2> QED
    BY <2>2, <2>4, <2>5, <2>6
<1> QED
  BY <1>4, <1>5

\* The links a handler adds are not of the store.
LEMMA HandlerKeepsRelations ==
    ASSUME NEW k, HandleEvent(k) \/ CutRead(k) \/ HandlerFails(k)
    PROVE  /\ \A l : l[2] \in RelationNames => (l \in links' <=> l \in links)
           /\ \A t \in Relations : t \in links' <=> t \in links
           /\ live' = live /\ gone' = gone /\ was' = was /\ disturbed \subseteq disturbed'
<1>1. PICK linked : /\ links' = links \cup Linked(linked) \/ links' = links
                    /\ UNCHANGED <<live, gone, was>> /\ disturbed \subseteq disturbed'
  <2>1. CASE HandleEvent(k)
    BY <2>1 DEF HandleEvent, AddStep, ReadStep, DropStep, UnlessStep, LinkStep, Write
  <2>2. CASE HandlerFails(k)
    BY <2>2 DEF HandlerFails, Write
  <2>3. CASE CutRead(k)
    BY <2>3 DEF CutRead, Write
  <2> QED
    BY <2>1, <2>2, <2>3
<1>2. \A l \in Linked(linked) : l[2] = "issue_repository"
  BY DEF Linked, Tuple
<1>3. \A l \in Linked(linked) : l[2] \notin RelationNames
  BY <1>2 DEF RelationNames
<1>4. \A t \in Relations : t[2] \in RelationNames
  BY RelationShape DEF RelationNames
<1> QED
  BY <1>1, <1>3, <1>4

\* What the workers do to rows and links keeps them typed.
LEMMA WorkerKeepsTypes ==
    ASSUME LinksTyped, KeysUnique, WasTyped, NEW k, HandleEvent(k) \/ CutRead(k) \/ HandlerFails(k)
    PROVE  LinksTyped' /\ KeysUnique' /\ WasTyped'
<1>1. /\ \A l : l[2] \in RelationNames => (l \in links' <=> l \in links)
      /\ rows' = rows /\ was' = was
  BY HandlerKeepsRelations DEF rows
<1>2. LinksTyped'
  BY <1>1 DEF LinksTyped
<1>3. \A l : IsKey(l) => l[2] \in RelationNames
  BY DEF IsKey, RelationNames
<1>4. ASSUME NEW i \in rows \cap ComponentInstances
      PROVE  /\ \E s \in Services : Tuple(s, "related_service", i) \in links'
             /\ \A l, m \in links' : IsKey(l) /\ IsKey(m) /\ l[2] = m[2] /\ Instance(l) = i /\ Instance(m) = i
                  => l = m
  <2>1. PICK s \in Services : Tuple(s, "related_service", i) \in links
    BY DEF KeysUnique
  <2>2. Tuple(s, "related_service", i)[2] \in RelationNames
    BY DEF Tuple, RelationNames
  <2>3. Tuple(s, "related_service", i) \in links'
    BY <1>1, <2>1, <2>2
  <2> QED
    BY <1>1, <1>3, <2>3 DEF KeysUnique
<1> QED
  BY <1>1, <1>2, <1>4 DEF KeysUnique, WasTyped

\* An object of T is an end of t, and the instance of a key is one of its ends.
LEMMA WatchedEnds ==
    ASSUME NEW t \in Relations, NEW T, Watched(t, T)
    PROVE  /\ T \subseteq Ends(t) /\ T \cap disturbed = {} /\ T # {}
           /\ IsKey(t) => Instance(t) \in T
BY RelationShape DEF Watched, Ends, IsKey, Instance

\* One call of an event, done.
LEMMA HandleEventKeepsGrants ==
    ASSUME TasksOK, GrantsInv, NEW k \in 1..Len(tasks), HandleEvent(k)
    PROVE  GrantsInv'
<1> USE DEF GrantsInv
<1>1. /\ \A t \in Relations : t \in links' <=> t \in links
      /\ live' = live /\ disturbed' = disturbed
  BY HandlerKeepsRelations DEF HandleEvent
<1>2. LinksTyped' /\ KeysUnique' /\ WasTyped'
  BY WorkerKeepsTypes
<1>3. /\ \A t \in Relations : \A T : (Watched(t, T)' <=> Watched(t, T)) /\ (Right(t, T)' <=> Right(t, T))
      /\ \A t : Mirrored(t)' <=> Mirrored(t)
  BY <1>1 DEF Watched, Right, Mirrored
<1> DEFINE task == tasks[k]
           e == task.event
<1>4. task.pc \in 1..Calls(e) /\ EventOK(e) /\ FoundOK(task)
  BY CurrentMeans
<1>5. \A t \in tuples' : t \in tuples \/ t \in AddsAt(e, task.pc) \/ t[1] = Role
  BY CallEffect
<1>6. PICK n \in Nat : \E found :
        /\ n > 0 /\ Advance(k, n, found) /\ FoundOK(After(task, n, found))
        /\ \A t \in Relations : Effect(task, After(task, n, found), t)
  BY CallEffect
<1>call. PICK found :
        /\ n > 0 /\ Advance(k, n, found) /\ FoundOK(After(task, n, found))
        /\ \A t \in Relations : Effect(task, After(task, n, found), t)
  BY <1>6
<1> DEFINE next == After(task, n, found)
<1>7. PICK src :
        /\ \A j \in 1..Len(tasks') :
             /\ src[j] \in 1..Len(tasks)
             /\ src[j] = k => tasks'[j] = next
             /\ src[j] # k => tasks'[j] = tasks[src[j]]
        /\ \A i, j \in 1..Len(tasks') : src[i] = src[j] => i = j
  BY <1>call, AdvanceSource
<1>8. /\ \A j \in 1..Len(tasks) : j # k => \E i \in 1..Len(tasks') : tasks'[i] = tasks[j]
      /\ task.pc + n <= Calls(e) => \E i \in 1..Len(tasks') : tasks'[i] = next
  BY <1>call, AdvanceOthers DEF After
<1>9. next.event = e /\ next.pc = task.pc + n /\ next.found = found
  BY AfterFields
<1>10. \A t \in Relations :
         /\ t \in tuples' => t \in tuples \/ t \in AddsAt(e, task.pc)
         /\ t \in tuples /\ t \notin tuples' => WillDrop(task, t)
         /\ WillDrop(next, t) => WillDrop(task, t)
         /\ WillAdd(next, t) => WillAdd(task, t)
         /\ t \in tuples /\ t \in tuples' /\ WillDrop(task, t) =>
              WillDrop(next, t) \/ WillAdd(task, t) \/ (IsKey(t) /\ Instance(t) \in disturbed)
         /\ WillAdd(task, t) => WillAdd(next, t) \/ t \in tuples'
         /\ WillDrop(next, t) /\ WillAdd(task, t) => WillAdd(next, t)
  BY <1>call DEF Effect
<1>11. \A t : t \in AddsAt(e, task.pc) => WillAdd(task, t)
  BY <1>4, CallsType DEF WillAdd
<1>12. \A t : WillAdd(next, t) \/ WillDrop(next, t) => task.pc + n <= Calls(e)
  BY <1>4, <1>9, CallsType DEF WillAdd, WillDrop
<1> HIDE DEF next
<1>13. EventsOK'
  <2>1. \A j \in 1..Len(tasks') : EventOK(tasks'[j].event) /\ FoundOK(tasks'[j])
    BY <1>4, <1>call, <1>7, <1>9 DEF EventsOK, next
  <2> QED
    BY <2>1 DEF EventsOK
<1>14. Apart'
  <2>1. \A j \in 1..Len(tasks') : src[j] \in 1..Len(tasks) /\ tasks'[j].event = tasks[src[j]].event
    BY <1>7, <1>9
  <2>2. ASSUME NEW i \in 1..Len(tasks'), NEW j \in 1..Len(tasks'), i # j,
               Touched(tasks'[i].event) \cap Touched(tasks'[j].event) # {}
        PROVE  Touched(tasks'[i].event) \cup Touched(tasks'[j].event) \subseteq disturbed'
    <3>1. src[i] # src[j]
      BY <1>7, <2>2
    <3> QED
      BY <1>1, <2>1, <2>2, <3>1 DEF Apart
  <2> QED
    BY <2>2 DEF Apart, Touched
<1>15. WrongLeaves'
  <2> SUFFICES ASSUME NEW t \in Relations, NEW T, t \in tuples', Watched(t, T), ~Right(t, T)
               PROVE  \E j \in 1..Len(tasks') : Touched(tasks'[j].event) \cap T # {} /\ WillDrop(tasks'[j], t)
    BY <1>3 DEF WrongLeaves
  <2>1. ~WillAdd(task, t)
    BY DEF AddsRight
  <2>2. t \in tuples
    BY <1>10, <1>11, <2>1
  <2>3. PICK j \in 1..Len(tasks) : Touched(tasks[j].event) \cap T # {} /\ WillDrop(tasks[j], t)
    BY <2>2 DEF WrongLeaves
  <2>4. CASE j # k
    BY <1>8, <2>3, <2>4
  <2>5. CASE j = k
    <3>1. WillDrop(next, t)
      BY <1>10, <2>1, <2>2, <2>3, <2>5, WatchedEnds
    <3> QED
      BY <1>8, <1>9, <1>12, <2>3, <2>5, <3>1
  <2> QED
    BY <2>4, <2>5
<1>16. MissingComes'
  <2> SUFFICES ASSUME NEW t \in Relations, Watched(t, Ends(t)), Mirrored(t), Right(t, Ends(t)), t \notin tuples'
               PROVE  \E j \in 1..Len(tasks') : WillAdd(tasks'[j], t)
    BY <1>3 DEF MissingComes, Ends
  <2>1. PICK j \in 1..Len(tasks) : WillAdd(tasks[j], t)
    <3>1. CASE t \notin tuples
      BY <3>1 DEF MissingComes
    <3>2. CASE t \in tuples
      BY <1>10, <3>2 DEF DropsReturn
    <3> QED
      BY <3>1, <3>2
  <2>2. CASE j # k
    BY <1>8, <2>1, <2>2
  <2>3. CASE j = k
    <3>1. WillAdd(next, t)
      BY <1>10, <2>1, <2>3
    <3> QED
      BY <1>8, <1>12, <3>1
  <2> QED
    BY <2>2, <2>3
<1>17. AddsRight'
  <2> SUFFICES ASSUME NEW t \in Relations, NEW T, NEW j \in 1..Len(tasks'), Watched(t, T), WillAdd(tasks'[j], t)
               PROVE  Right(t, T)
    BY <1>3 DEF AddsRight
  <2>1. src[j] \in 1..Len(tasks) /\ WillAdd(tasks[src[j]], t)
    BY <1>7, <1>10
  <2> QED
    BY <2>1 DEF AddsRight
<1>18. DropsReturn'
  <2> SUFFICES ASSUME NEW t \in Relations, NEW j \in 1..Len(tasks'), Watched(t, Ends(t)), Mirrored(t),
                      Right(t, Ends(t)), WillDrop(tasks'[j], t)
               PROVE  WillAdd(tasks'[j], t)
    BY <1>3 DEF DropsReturn, Ends
  <2>1. CASE src[j] # k
    <3>1. src[j] \in 1..Len(tasks) /\ tasks'[j] = tasks[src[j]]
      BY <1>7, <2>1
    <3> QED
      BY <3>1 DEF DropsReturn
  <2>2. CASE src[j] = k
    <3>1. tasks'[j] = next
      BY <1>7, <2>2
    <3>2. WillAdd(task, t)
      BY <1>10, <3>1 DEF DropsReturn
    <3> QED
      BY <1>10, <3>1, <3>2
  <2> QED
    BY <2>1, <2>2
<1>19. StoreTyped'
  <2>1. \A t \in tuples' : t \in Relations \/ t[1] = Role \/ Nobody \in Ends(t)
    BY <1>4, <1>5, AddsGranted DEF StoreTyped
  <2> QED
    BY <2>1 DEF StoreTyped, Ends
<1>20. KeysAlone'
  <2> SUFFICES ASSUME NEW j \in 1..Len(tasks'), tasks'[j].event.on[1] \notin disturbed,
                      NEW m \in tasks'[j].pc..Calls(tasks'[j].event), Shape(tasks'[j].event)[m] = "unless",
                      NEW u \in AddsAt(tasks'[j].event, m + 3) \cap tuples', NEW t \in tuples' \cap Relations,
                      SweepsAt(tasks'[j].event, m + 1, t)
               PROVE  t = u
    BY <1>1 DEF KeysAlone, HeldAlone
  <2> DEFINE i == src[j]
             f == tasks[i].event
  <2>1. i \in 1..Len(tasks) /\ tasks'[j].event = f
    BY <1>7, <1>9
  <2>2. EventOK(f) /\ tasks[i].pc \in 1..Calls(f)
    BY <2>1, CurrentMeans
  <2>3. m \in tasks[i].pc..Calls(f) /\ m \in 1..Calls(f) /\ (i = k => task.pc \in 1..m)
    <3>1. CASE i # k
      BY <1>7, <2>2, <3>1, CallsType
    <3>2. CASE i = k
      <4>1. tasks'[j] = next
        BY <1>7, <3>2
      <4>2. m \in (task.pc + n)..Calls(e)
        BY <1>9, <4>1
      <4> HIDE DEF task
      <4> QED
        BY <1>4, <3>2, <4>2, CallsType DEF task
    <3> QED
      BY <3>1, <3>2
  <2> HIDE DEF i
  <2>4. u \in Relations /\ f.on[1] \in Ends(u)
    BY <2>1, <2>2, <2>3, HeldIsRelation
  <2>5. f.on[1] \in Ends(t) /\ f.on[1] \in Touched(f)
    BY <2>1, <2>2, SweepsTouch
  <2>6. ASSUME NEW x \in {t, u}
        PROVE  x \in tuples
    <3>1. SUFFICES ASSUME x \in AddsAt(e, task.pc)
                   PROVE  FALSE
      BY <1>10, <2>4, <2>6
    <3>2. CASE i # k
      <4>1. f.on[1] \in Touched(e)
        BY <1>4, <2>4, <2>5, <2>6, <3>1, AddsTouch
      <4> QED
        BY <2>1, <2>5, <3>2, <4>1 DEF Apart
    <3>3. CASE i = k
      <4>1. /\ AddsAt(e, task.pc) \cap AddsAt(e, m + 3) = {}
            /\ \A y \in AddsAt(e, task.pc) : ~SweepsAt(e, m + 1, y)
        BY <2>1, <2>3, <3>3, UnlessBefore
      <4> QED
        BY <2>1, <2>6, <3>1, <3>3, <4>1
    <3> QED
      BY <3>2, <3>3
  <2>7. HeldAlone(tasks[i])
    BY <2>1 DEF KeysAlone
  <2>8. u \in AddsAt(f, m + 3) \cap tuples /\ t \in tuples \cap Relations
    BY <2>1, <2>6
  <2> QED
    BY <2>1, <2>3, <2>7, <2>8 DEF HeldAlone
<1> QED
  BY <1>2, <1>13, <1>14, <1>15, <1>16, <1>17, <1>18, <1>19, <1>20

\* What a read that was cut has found is swept by the removal that follows.
LEMMA CutReadFinds ==
    ASSUME TasksOK, EventsOK, NEW k \in 1..Len(tasks), NEW page, page \subseteq Current(k).of,
           Current(k).do \in {"find", "list"}
    PROVE  FoundOK(After(tasks[k], 1, page))
<1> DEFINE e == tasks[k].event
           p == tasks[k].pc
           next == After(tasks[k], 1, page)
<1>1. p \in 1..Calls(e) /\ EventOK(e) /\ Means(e, p, Current(k))
  BY CurrentMeans
<1>2. /\ Shape(e)[p] \in {"find", "list"}
      /\ Shape(e)[p] = "find" => \A t \in page \cap Relations : SweepsAt(e, p, t)
  BY <1>1 DEF Means
<1>3. Shape(e)[p] = "list" => Shape(e)[p + 1] = "link"
  BY <1>1, <1>2, FindBeforeDrop
<1>4. next.event = e /\ next.pc = p + 1 /\ next.found = page
  BY AfterFields
<1>5. next.pc - 1 = p
  BY <1>1, <1>4, CallsType
<1>6. Shape(e)[p + 1] = "drop" => \A t \in page \cap Relations : SweepsAt(e, p, t)
  BY <1>2, <1>3
<1> HIDE DEF next
<1>7. \A t \in next.found \cap Relations :
        Shape(next.event)[next.pc] = "drop" => SweepsAt(next.event, next.pc - 1, t)
  BY <1>4, <1>5, <1>6
<1>8. FoundOK(next)
  BY <1>7 DEF FoundOK
<1> QED
  BY <1>8 DEF next

\* One call of an event, failed or cut: the event's objects are disturbed, the store stays.
LEMMA DisturbedKeepsGrants ==
    ASSUME TasksOK, GrantsInv, NEW k \in 1..Len(tasks), CutRead(k) \/ HandlerFails(k)
    PROVE  GrantsInv'
<1> USE DEF GrantsInv
<1> DEFINE task == tasks[k]
           e == task.event
<1>0. PICK n \in Nat : n > 0 /\ \E found : Advance(k, n, found) /\ FoundOK(After(task, n, found))
  <2>1. CASE HandlerFails(k)
    <3>1. 1 + Current(k).lost \in Nat /\ 1 + Current(k).lost > 0
      BY CurrentOK
    <3>2. Advance(k, 1 + Current(k).lost, {})
      BY <2>1 DEF HandlerFails
    <3>3. FoundOK(After(task, 1 + Current(k).lost, {}))
      BY FoundNothing
    <3> QED
      BY <3>1, <3>2, <3>3
  <2>2. CASE CutRead(k)
    <3>1. PICK page \in SUBSET Current(k).of : Advance(k, 1, page)
      BY <2>2 DEF CutRead
    <3>2. FoundOK(After(task, 1, page))
      BY <2>2, <3>1, CutReadFinds DEF CutRead
    <3>3. 1 \in Nat /\ 1 > 0
      OBVIOUS
    <3> QED
      BY <3>1, <3>2, <3>3
  <2> QED
    BY <2>1, <2>2
<1>call. PICK none : Advance(k, n, none) /\ FoundOK(After(task, n, none))
  BY <1>0
<1> DEFINE next == After(task, n, none)
<1>1. /\ \A t \in Relations : t \in links' <=> t \in links
      /\ live' = live /\ tuples' = tuples /\ disturbed' = disturbed \cup Touched(e)
  BY HandlerKeepsRelations DEF CutRead, HandlerFails, Write
<1>2. LinksTyped' /\ KeysUnique' /\ WasTyped'
  BY WorkerKeepsTypes
<1>3. /\ \A t \in Relations : \A T : /\ Watched(t, T)' => Watched(t, T) /\ T \cap Touched(e) = {}
                                     /\ Right(t, T)' <=> Right(t, T)
      /\ \A t : Mirrored(t)' <=> Mirrored(t)
  BY <1>1 DEF Watched, Right, Mirrored
<1>4. task.pc \in 1..Calls(e) /\ EventOK(e) /\ FoundOK(task) /\ FoundOK(next)
  BY <1>call, CurrentMeans
<1>6. PICK src :
        /\ \A j \in 1..Len(tasks') :
             /\ src[j] \in 1..Len(tasks)
             /\ src[j] = k => tasks'[j] = next
             /\ src[j] # k => tasks'[j] = tasks[src[j]]
        /\ \A i, j \in 1..Len(tasks') : src[i] = src[j] => i = j
  BY <1>call, AdvanceSource
<1>7. \A j \in 1..Len(tasks) : j # k => \E i \in 1..Len(tasks') : tasks'[i] = tasks[j]
  BY <1>call, AdvanceOthers
<1>8. next.event = e
  BY AfterFields
<1>9. \A t \in Relations : WillAdd(next, t) => WillAdd(task, t)
  BY <1>0, <1>4, WentOn
<1>10. \A t \in Relations : /\ WillAdd(task, t) => Ends(t) \subseteq Touched(e)
                            /\ WillDrop(next, t) => Ends(t) \cap Touched(e) # {}
  BY <1>4, <1>8, WillAddTouches, WillDropTouches
<1> HIDE DEF next
<1>11. EventsOK'
  <2>1. \A j \in 1..Len(tasks') : EventOK(tasks'[j].event) /\ FoundOK(tasks'[j])
    BY <1>4, <1>6, <1>8 DEF EventsOK
  <2> QED
    BY <2>1 DEF EventsOK
<1>12. Apart'
  <2>1. \A j \in 1..Len(tasks') : src[j] \in 1..Len(tasks) /\ tasks'[j].event = tasks[src[j]].event
    BY <1>6, <1>8
  <2>2. ASSUME NEW i \in 1..Len(tasks'), NEW j \in 1..Len(tasks'), i # j,
               Touched(tasks'[i].event) \cap Touched(tasks'[j].event) # {}
        PROVE  Touched(tasks'[i].event) \cup Touched(tasks'[j].event) \subseteq disturbed'
    <3>1. src[i] # src[j]
      BY <1>6, <2>2
    <3>2. Touched(tasks'[i].event) \cup Touched(tasks'[j].event) \subseteq disturbed
      BY <2>1, <2>2, <3>1 DEF Apart
    <3> QED
      BY <1>1, <3>2
  <2> QED
    BY <2>2 DEF Apart, Touched
<1>13. WrongLeaves'
  <2> SUFFICES ASSUME NEW t \in Relations, NEW T, t \in tuples', Watched(t, T)', ~Right(t, T)'
               PROVE  \E j \in 1..Len(tasks') : Touched(tasks'[j].event) \cap T # {} /\ WillDrop(tasks'[j], t)
    BY DEF WrongLeaves
  <2>0. t \in tuples /\ Watched(t, T) /\ T \cap Touched(e) = {} /\ ~Right(t, T)
    BY <1>1, <1>3
  <2>1. PICK j \in 1..Len(tasks) : Touched(tasks[j].event) \cap T # {} /\ WillDrop(tasks[j], t)
    BY <2>0 DEF WrongLeaves
  <2>2. j # k
    BY <2>0, <2>1
  <2> QED
    BY <1>7, <2>1, <2>2
<1>14. MissingComes'
  <2> SUFFICES ASSUME NEW t \in Relations, Watched(t, Ends(t))', Mirrored(t)', Right(t, Ends(t))', t \notin tuples'
               PROVE  \E j \in 1..Len(tasks') : WillAdd(tasks'[j], t)
    BY DEF MissingComes
  <2>0. /\ Watched(t, Ends(t)) /\ Ends(t) \cap Touched(e) = {} /\ Mirrored(t) /\ Right(t, Ends(t))
        /\ t \notin tuples
    BY <1>1, <1>3 DEF Ends
  <2>1. PICK j \in 1..Len(tasks) : WillAdd(tasks[j], t)
    BY <2>0 DEF MissingComes
  <2>2. j # k
    BY <1>10, <2>0, <2>1, WatchedEnds
  <2> QED
    BY <1>7, <2>1, <2>2
<1>15. AddsRight'
  <2> SUFFICES ASSUME NEW t \in Relations, NEW T, NEW j \in 1..Len(tasks'), Watched(t, T)', WillAdd(tasks'[j], t)
               PROVE  Right(t, T)'
    BY DEF AddsRight
  <2>1. src[j] \in 1..Len(tasks) /\ WillAdd(tasks[src[j]], t)
    BY <1>6, <1>9
  <2>2. Right(t, T)
    BY <1>3, <2>1 DEF AddsRight
  <2> QED
    BY <1>3, <2>2
<1>16. DropsReturn'
  <2> SUFFICES ASSUME NEW t \in Relations, NEW j \in 1..Len(tasks'), Watched(t, Ends(t))', Mirrored(t)',
                      Right(t, Ends(t))', WillDrop(tasks'[j], t)
               PROVE  WillAdd(tasks'[j], t)
    BY DEF DropsReturn
  <2>0. Watched(t, Ends(t)) /\ Ends(t) \cap Touched(e) = {} /\ Mirrored(t) /\ Right(t, Ends(t))
    BY <1>3 DEF Ends
  <2>1. src[j] \in 1..Len(tasks) /\ tasks'[j] = tasks[src[j]]
    BY <1>6, <1>10, <2>0
  <2> QED
    BY <2>0, <2>1 DEF DropsReturn
<1>17. StoreTyped'
  BY <1>1 DEF StoreTyped, Ends
<1>18. KeysAlone'
  <2>1. ASSUME NEW j \in 1..Len(tasks'), tasks'[j].event.on[1] \notin disturbed'
        PROVE  HeldAlone(tasks'[j])
    <3>1. src[j] # k
      BY <1>1, <1>4, <1>6, <1>8, <2>1, SubjectTouched
    <3>2. src[j] \in 1..Len(tasks) /\ tasks'[j] = tasks[src[j]]
      BY <1>6, <3>1
    <3> QED
      BY <1>1, <2>1, <3>2 DEF KeysAlone
  <2> QED
    BY <1>1, <2>1 DEF KeysAlone, HeldAlone
<1> QED
  BY <1>2, <1>11, <1>12, <1>13, <1>14, <1>15, <1>16, <1>17, <1>18

LEMMA WorkerKeepsGrants ==
    ASSUME TasksOK, GrantsInv, Worker
    PROVE  GrantsInv'
<1>1. DOMAIN tasks = 1..Len(tasks)
  BY DEF TasksOK
<1> QED
  BY <1>1, HandleEventKeepsGrants, DisturbedKeepsGrants DEF Worker

\* A restart disturbs the objects of all events that it loses.
LEMMA RestartKeepsGrants ==
    ASSUME TasksOK, GrantsInv, Restart
    PROVE  GrantsInv'
<1> USE DEF GrantsInv
<1>1. /\ UNCHANGED <<live, gone, links, tuples, was>> /\ tasks' = <<>>
      /\ disturbed' = disturbed \cup InFlight
  BY DEF Restart
<1>2. \A k \in 1..Len(tasks) : Touched(tasks[k].event) \subseteq disturbed'
  BY <1>1 DEF InFlight, TasksOK
<1>3. 1..Len(tasks') = {}
  BY <1>1
<1>4. /\ \A t \in Relations : \A T : /\ Watched(t, T)' => Watched(t, T) /\ T \cap disturbed' = {}
                                     /\ Right(t, T)' <=> Right(t, T)
      /\ \A t : Mirrored(t)' <=> Mirrored(t)
  BY <1>1 DEF Watched, Right, Mirrored
<1>5. WrongLeaves'
  <2> SUFFICES ASSUME NEW t \in Relations, NEW T, t \in tuples', Watched(t, T)', ~Right(t, T)'
               PROVE  FALSE
    BY DEF WrongLeaves
  <2>0. t \in tuples /\ Watched(t, T) /\ T \cap disturbed' = {} /\ ~Right(t, T)
    BY <1>1, <1>4
  <2>1. PICK j \in 1..Len(tasks) : Touched(tasks[j].event) \cap T # {}
    BY <2>0 DEF WrongLeaves
  <2> QED
    BY <1>2, <2>0, <2>1
<1>6. MissingComes'
  <2> SUFFICES ASSUME NEW t \in Relations, Watched(t, Ends(t))', Mirrored(t)', Right(t, Ends(t))', t \notin tuples'
               PROVE  FALSE
    BY DEF MissingComes
  <2>0. /\ Watched(t, Ends(t)) /\ Ends(t) \cap disturbed' = {} /\ Mirrored(t) /\ Right(t, Ends(t))
        /\ t \notin tuples
    BY <1>1, <1>4 DEF Ends
  <2>1. PICK j \in 1..Len(tasks) : WillAdd(tasks[j], t)
    BY <2>0 DEF MissingComes
  <2>2. Ends(t) \subseteq Touched(tasks[j].event)
    BY <2>1, WillAddTouches DEF EventsOK
  <2> QED
    BY <1>2, <2>0, <2>2, WatchedEnds
<1>7. /\ EventsOK' /\ Apart' /\ AddsRight' /\ DropsReturn' /\ KeysAlone'
  BY <1>3 DEF EventsOK, Apart, AddsRight, DropsReturn, KeysAlone
<1>8. LinksTyped' /\ KeysUnique' /\ StoreTyped' /\ WasTyped'
  BY <1>1 DEF LinksTyped, KeysUnique, StoreTyped, WasTyped, rows, Ends
<1> QED
  BY <1>5, <1>6, <1>7, <1>8
-----------------------------------------------------------------------------
(* The requests: what the event a request pushes owes to the store.        *)

New(e) == [event |-> e, pc |-> 1, found |-> {}]

\* Event e is pushed; if it touches what an event in flight touches, all of that is disturbed.
Pushed(e) ==
    /\ Len(tasks) \in Nat /\ Len(tasks') = Len(tasks) + 1 /\ tasks'[Len(tasks) + 1] = New(e)
    /\ \A k \in 1..Len(tasks) : tasks'[k] = tasks[k]
    /\ \A k \in 1..Len(tasks) : Touched(tasks[k].event) \cap Touched(e) # {} =>
         Touched(e) \cup Touched(tasks[k].event) \subseteq disturbed'

\* What was right and is no longer will be dropped; what is missing and became right will be
\* added; what is added is right; what is dropped and right is added again.
Answered(e, t, T) ==
    /\ Right(t, T) /\ ~Right(t, T)' => Pushed(e) /\ T \cap Touched(e) # {} /\ WillDrop(New(e), t)
    /\ T = Ends(t) /\ Mirrored(t) /\ ~Right(t, T) /\ Right(t, T)' => Pushed(e) /\ WillAdd(New(e), t)
    /\ Pushed(e) /\ WillAdd(New(e), t) => Right(t, T)'
    /\ Pushed(e) /\ T = Ends(t) /\ Mirrored(t) /\ Right(t, T)' /\ WillDrop(New(e), t) => WillAdd(New(e), t)

\* PushEvent, the event e having handlers or not.
LEMMA PushFacts ==
    ASSUME TasksOK, NEW event, NEW on, NEW faithful, PushEvent(event, on, faithful), NEW e,
           e = [name |-> event, on |-> on]
    PROVE  /\ disturbed \subseteq disturbed'
           /\ Calls(e) = 0 => tasks' = tasks
           /\ Calls(e) # 0 => Pushed(e) /\ (~faithful \/ Touched(e) \cap gone # {} => Touched(e) \subseteq disturbed')
<1>1. PICK S : tasks \in Seq(S)
  BY DEF TasksOK
<1>2. disturbed \subseteq disturbed'
  BY DEF PushEvent
<1>3. Handlers(e) = <<>> <=> Calls(e) = 0
  <2>1. PICK R : Handlers(e) \in Seq(R)
    BY HandlersAdd DEF AddsOnly
  <2>2. Len(Handlers(e)) = Calls(e)
    BY HandlersAdd DEF AddsOnly
  <2> QED
    BY <2>1, <2>2, EmptySeq
<1>4. CASE Calls(e) = 0
  BY <1>2, <1>3, <1>4 DEF PushEvent
<1>5. CASE Calls(e) # 0
  <2>1. /\ tasks' = Append(tasks, New(e))
        /\ disturbed' = disturbed \cup
               (IF Overlapping(e) # {} \/ ~faithful \/ Touched(e) \cap gone # {}
                THEN Touched(e) \cup UNION {Touched(f) : f \in Overlapping(e)} ELSE {})
    BY <1>3, <1>5 DEF PushEvent, New
  <2>2. tasks \in Seq(S \cup {New(e)}) /\ Len(tasks) \in Nat /\ DOMAIN tasks = 1..Len(tasks)
    BY <1>1
  <2>3. /\ Len(tasks') = Len(tasks) + 1
        /\ tasks'[Len(tasks) + 1] = New(e)
        /\ \A k \in 1..Len(tasks) : tasks'[k] = tasks[k]
    BY <2>1, <2>2
  <2>4. ASSUME NEW k \in 1..Len(tasks), Touched(tasks[k].event) \cap Touched(e) # {}
        PROVE  Touched(e) \cup Touched(tasks[k].event) \subseteq disturbed'
    <3>1. tasks[k].event \in Overlapping(e)
      BY <2>2, <2>4 DEF Overlapping
    <3> QED
      BY <2>1, <3>1
  <2>5. ~faithful \/ Touched(e) \cap gone # {} => Touched(e) \subseteq disturbed'
    BY <2>1
  <2> QED
    BY <1>2, <1>5, <2>2, <2>3, <2>4, <2>5 DEF Pushed
<1> QED
  BY <1>4, <1>5

LEMMA NewFields ==
    ASSUME NEW e
    PROVE  New(e).event = e /\ New(e).pc = 1 /\ New(e).found = {} /\ FoundOK(New(e))
<1>1. New(e).event = e /\ New(e).pc = 1 /\ New(e).found = {}
  BY DEF New
<1> QED
  BY <1>1 DEF FoundOK

\* What a new event adds and drops.
LEMMA NewWill ==
    ASSUME NEW e, NEW t
    PROVE  /\ WillAdd(New(e), t) <=> \E n \in 1..Calls(e) : t \in AddsAt(e, n)
           /\ WillDrop(New(e), t) <=> \E n \in 1..Calls(e) : SweepsAt(e, n, t)
BY NewFields DEF WillAdd, WillDrop

\* A request that leaves the store alone and answers for what it changes.
LEMMA RequestKeepsGrants ==
    ASSUME TasksOK, GrantsInv, tuples' = tuples, disturbed \subseteq disturbed',
           LinksTyped', KeysUnique', WasTyped', NEW e,
           tasks' = tasks \/ (Pushed(e) /\ EventOK(e)),
           \A t \in Relations : \A T : Watched(t, T)' => Answered(e, t, T),
           Pushed(e) /\ e.on[1] \notin disturbed' => HeldAlone(New(e))
    PROVE  GrantsInv'
<1> USE DEF GrantsInv
<1>1. /\ \A t \in Relations : \A T : Watched(t, T)' => Watched(t, T) /\ T \cap disturbed' = {}
      /\ \A t : Mirrored(t)' <=> Mirrored(t)
  BY DEF Watched, Mirrored
<1>2. Len(tasks) \in Nat /\ (tasks' = tasks => ~Pushed(e))
  BY DEF TasksOK, Pushed
<1>3. /\ \A k \in 1..Len(tasks) : k \in 1..Len(tasks') /\ tasks'[k] = tasks[k]
      /\ Pushed(e) => Len(tasks) + 1 \in 1..Len(tasks') /\ tasks'[Len(tasks) + 1] = New(e)
      /\ \A k \in 1..Len(tasks') : k \in 1..Len(tasks) \/ (Pushed(e) /\ k = Len(tasks) + 1)
  <2>1. CASE tasks' = tasks
    BY <1>2, <2>1
  <2>2. CASE Pushed(e)
    BY <1>2, <2>2 DEF Pushed
  <2> QED
    BY <2>1, <2>2
<1>4. \A k \in 1..Len(tasks) : Pushed(e) /\ Touched(tasks[k].event) \cap Touched(e) # {} =>
        Touched(e) \cup Touched(tasks[k].event) \subseteq disturbed'
  BY DEF Pushed
<1>5. New(e).event = e /\ New(e).pc = 1 /\ New(e).found = {} /\ FoundOK(New(e))
  BY NewFields
<1>6. Pushed(e) => EventOK(e)
  BY <1>2
<1>7. EventsOK'
  <2>1. \A k \in 1..Len(tasks') : EventOK(tasks'[k].event) /\ FoundOK(tasks'[k])
    BY <1>3, <1>5, <1>6 DEF EventsOK
  <2> QED
    BY <2>1 DEF EventsOK
<1>8. Apart'
  <2>1. ASSUME NEW i \in 1..Len(tasks'), NEW j \in 1..Len(tasks'), i # j,
               Touched(tasks'[i].event) \cap Touched(tasks'[j].event) # {}
        PROVE  Touched(tasks'[i].event) \cup Touched(tasks'[j].event) \subseteq disturbed'
    <3>1. CASE i \in 1..Len(tasks) /\ j \in 1..Len(tasks)
      <4>1. Touched(tasks[i].event) \cup Touched(tasks[j].event) \subseteq disturbed
        BY <1>3, <2>1, <3>1 DEF Apart
      <4> QED
        BY <1>3, <3>1, <4>1
    <3>2. CASE i \in 1..Len(tasks) /\ j \notin 1..Len(tasks)
      BY <1>3, <1>4, <1>5, <2>1, <3>2
    <3>3. CASE i \notin 1..Len(tasks) /\ j \in 1..Len(tasks)
      BY <1>3, <1>4, <1>5, <2>1, <3>3
    <3> QED
      BY <1>3, <2>1, <3>1, <3>2, <3>3
  <2> QED
    BY <2>1 DEF Apart, Touched
<1>9. WrongLeaves'
  <2> SUFFICES ASSUME NEW t \in Relations, NEW T, t \in tuples', Watched(t, T)', ~Right(t, T)'
               PROVE  \E j \in 1..Len(tasks') : Touched(tasks'[j].event) \cap T # {} /\ WillDrop(tasks'[j], t)
    BY DEF WrongLeaves
  <2>1. t \in tuples /\ Watched(t, T) /\ Answered(e, t, T)
    BY <1>1
  <2>2. CASE ~Right(t, T)
    <3>1. PICK j \in 1..Len(tasks) : Touched(tasks[j].event) \cap T # {} /\ WillDrop(tasks[j], t)
      BY <2>1, <2>2 DEF WrongLeaves
    <3> QED
      BY <1>3, <3>1
  <2>3. CASE Right(t, T)
    <3>1. Pushed(e) /\ T \cap Touched(e) # {} /\ WillDrop(New(e), t)
      BY <2>1, <2>3 DEF Answered
    <3> QED
      BY <1>3, <1>5, <3>1
  <2> QED
    BY <2>2, <2>3
<1>10. MissingComes'
  <2> SUFFICES ASSUME NEW t \in Relations, Watched(t, Ends(t))', Mirrored(t)', Right(t, Ends(t))', t \notin tuples'
               PROVE  \E j \in 1..Len(tasks') : WillAdd(tasks'[j], t)
    BY DEF MissingComes
  <2>1. t \notin tuples /\ Watched(t, Ends(t)) /\ Mirrored(t) /\ Answered(e, t, Ends(t))
    BY <1>1 DEF Ends
  <2>2. CASE Right(t, Ends(t))
    <3>1. PICK j \in 1..Len(tasks) : WillAdd(tasks[j], t)
      BY <2>1, <2>2 DEF MissingComes
    <3> QED
      BY <1>3, <3>1
  <2>3. CASE ~Right(t, Ends(t))
    <3>1. Pushed(e) /\ WillAdd(New(e), t)
      BY <2>1, <2>3 DEF Answered, Ends
    <3> QED
      BY <1>3, <3>1
  <2> QED
    BY <2>2, <2>3
<1>11. AddsRight'
  <2> SUFFICES ASSUME NEW t \in Relations, NEW T, NEW j \in 1..Len(tasks'), Watched(t, T)',
                      WillAdd(tasks'[j], t), ~Right(t, T)'
               PROVE  FALSE
    BY DEF AddsRight
  <2>1. Watched(t, T) /\ Answered(e, t, T) /\ T \cap disturbed' = {}
    BY <1>1
  <2>2. j \in 1..Len(tasks) /\ WillAdd(tasks[j], t)
    BY <1>3, <2>1 DEF Answered
  <2>3. Right(t, T)
    BY <2>1, <2>2 DEF AddsRight
  <2>4. Pushed(e) /\ T \cap Touched(e) # {}
    BY <2>1, <2>3 DEF Answered
  <2>5. T \subseteq Touched(tasks[j].event)
    <3>1. Ends(t) \subseteq Touched(tasks[j].event)
      BY <2>2, WillAddTouches DEF EventsOK
    <3> QED
      BY <2>1, <3>1, WatchedEnds
  <2> QED
    BY <1>4, <2>1, <2>2, <2>4, <2>5
<1>12. DropsReturn'
  <2> SUFFICES ASSUME NEW t \in Relations, NEW j \in 1..Len(tasks'), Watched(t, Ends(t))', Mirrored(t)',
                      Right(t, Ends(t))', WillDrop(tasks'[j], t)
               PROVE  WillAdd(tasks'[j], t)
    BY DEF DropsReturn
  <2>1. Watched(t, Ends(t)) /\ Mirrored(t) /\ Answered(e, t, Ends(t)) /\ Ends(t) \cap disturbed' = {}
    BY <1>1 DEF Ends
  <2>2. Right(t, Ends(t))'
    OBVIOUS
  <2>3. CASE j \notin 1..Len(tasks)
    <3>1. Pushed(e) /\ tasks'[j] = New(e)
      BY <1>3, <2>3
    <3> QED
      BY <2>1, <2>2, <3>1 DEF Answered, Ends
  <2>4. CASE j \in 1..Len(tasks)
    <3>1. tasks'[j] = tasks[j]
      BY <1>3, <2>4
    <3>2. Right(t, Ends(t))
      <4>1. SUFFICES ASSUME ~Right(t, Ends(t)) PROVE FALSE
        OBVIOUS
      <4>2. Pushed(e) /\ WillAdd(New(e), t)
        BY <2>1, <2>2, <4>1 DEF Answered, Ends
      <4>3. Ends(t) \subseteq Touched(e)
        BY <1>5, <1>6, <4>2, WillAddTouches
      <4>4. tasks[j].event.on[1] \in Ends(t) /\ tasks[j].event.on[1] \in Touched(tasks[j].event)
        BY <2>4, <3>1, WillDropTouches DEF EventsOK
      <4> QED
        BY <1>4, <2>1, <2>4, <4>2, <4>3, <4>4
    <3> QED
      BY <2>1, <2>4, <3>1, <3>2 DEF DropsReturn
  <2> QED
    BY <2>3, <2>4
<1>13. StoreTyped'
  BY DEF StoreTyped, Ends
<1>14. KeysAlone'
  <2>1. ASSUME NEW j \in 1..Len(tasks'), tasks'[j].event.on[1] \notin disturbed'
        PROVE  HeldAlone(tasks'[j])
    BY <1>3, <1>5, <2>1 DEF KeysAlone
  <2> QED
    BY <2>1 DEF KeysAlone, HeldAlone
<1> QED
  BY <1>7, <1>8, <1>9, <1>10, <1>11, <1>12, <1>13, <1>14

\* Issues, variants and repositories are in no relation of the store.
LEMMA KindsOfStore ==
    ASSUME NEW t \in Relations
    PROVE  Ends(t) \cap (Issues \cup IssueVariants \cup IssueRepositories) = {}
<1> DEFINE kind == <<Users, SupportGroups, Services, Components, ComponentVersions,
                     ComponentInstances, Issues, IssueVariants, IssueRepositories, IssueMatches>>
<1>1. \A k, m \in 1..10 : k # m => kind[k] \cap kind[m] = {}
  BY KindsDisjoint
<1>2. /\ kind[1] = Users /\ kind[2] = SupportGroups /\ kind[3] = Services
      /\ kind[4] = Components /\ kind[5] = ComponentVersions /\ kind[6] = ComponentInstances
      /\ kind[7] = Issues /\ kind[8] = IssueVariants /\ kind[9] = IssueRepositories
      /\ kind[10] = IssueMatches
  OBVIOUS
<1> HIDE DEF kind
<1>3. \A k \in 1..10 : /\ k # 7 => kind[k] \cap Issues = {}
                       /\ k # 8 => kind[k] \cap IssueVariants = {}
                       /\ k # 9 => kind[k] \cap IssueRepositories = {}
  BY <1>1, <1>2
<1> DEFINE rest == Issues \cup IssueVariants \cup IssueRepositories
<1>4. \A k \in 1..10 : k \notin {7, 8, 9} => kind[k] \cap rest = {}
  BY <1>3
<1> HIDE DEF rest
<1>5. /\ Users \cap rest = {} /\ SupportGroups \cap rest = {} /\ Services \cap rest = {}
      /\ Components \cap rest = {} /\ ComponentVersions \cap rest = {}
      /\ ComponentInstances \cap rest = {} /\ IssueMatches \cap rest = {}
  BY <1>2, <1>4
<1>6. Ends(t) \cap rest = {}
  BY <1>5, RelationShape DEF Ends
<1> QED
  BY <1>6 DEF rest

\* Only updates of an instance look before they replace.
LEMMA NothingHeld ==
    ASSUME NEW e, e.name # "UpdateComponentInstance"
    PROVE  HeldAlone(New(e))
<1>1. \A n \in 1..Calls(e) : Shape(e)[n] # "unless"
  BY UnlessBefore
<1> QED
  BY <1>1, NewFields DEF HeldAlone

\* Events that grant nothing add nothing, and only some events drop.
LEMMA NewAddsNothing ==
    ASSUME NEW e, e.name # "UpdateComponentInstance", Grants(e) = {}, NEW t
    PROVE  ~WillAdd(New(e), t)
<1>1. \A n : AddsAt(e, n) = {}
  BY DEF AddsAt
<1> QED
  BY <1>1, NewWill

LEMMA NewDropsNothing ==
    ASSUME NEW e, NEW t, e.name \notin Deletes \cup Removes,
           e.name \notin {"DeleteSupportGroup", "UpdateComponentVersion", "UpdateIssueMatch",
                          "UpdateComponentInstance"}
    PROVE  ~WillDrop(New(e), t)
<1>1. \A n : ~SweepsAt(e, n, t)
  BY DEF SweepsAt
<1> QED
  BY <1>1, NewWill

\* A request that leaves the foreign keys of the instances alone.
LEMMA RequestKeepsTypes ==
    ASSUME LinksTyped, KeysUnique, WasTyped, was' = was, rows \subseteq rows',
           rows' \cap ComponentInstances \subseteq rows,
           \A l \in links' : l \notin links /\ l[2] \in RelationNames =>
               l \in Relations /\ Ends(l) \subseteq rows' /\ ~IsKey(l),
           \A l \in links : l \notin links' => ~IsKey(l)
    PROVE  LinksTyped' /\ KeysUnique' /\ WasTyped'
<1>1. \A l : IsKey(l) => l[2] \in RelationNames
  BY DEF IsKey, RelationNames
<1>2. LinksTyped'
  <2>1. \A l \in links' : l[2] \in RelationNames => l \in Relations /\ Ends(l) \subseteq rows'
    BY DEF LinksTyped
  <2> QED
    BY <2>1 DEF LinksTyped, Ends
<1>3. \A l : IsKey(l) => (l \in links' <=> l \in links)
  BY <1>1
<1>4. ASSUME NEW i \in rows' \cap ComponentInstances
      PROVE  /\ \E s \in Services : Tuple(s, "related_service", i) \in links'
             /\ \A l, m \in links' : IsKey(l) /\ IsKey(m) /\ l[2] = m[2] /\ Instance(l) = i /\ Instance(m) = i
                  => l = m
  <2>1. PICK s \in Services : Tuple(s, "related_service", i) \in links
    BY DEF KeysUnique
  <2>2. IsKey(Tuple(s, "related_service", i))
    BY DEF Tuple, IsKey
  <2>3. Tuple(s, "related_service", i) \in links'
    BY <1>3, <2>1, <2>2
  <2>4. i \in rows \cap ComponentInstances
    BY <1>4
  <2>5. \A l, m \in links' : IsKey(l) /\ IsKey(m) /\ l[2] = m[2] /\ Instance(l) = i /\ Instance(m) = i => l = m
    BY <1>3, <2>4 DEF KeysUnique
  <2> QED
    BY <2>3, <2>5
<1>5. KeysUnique'
  BY <1>4 DEF KeysUnique
<1> QED
  BY <1>2, <1>5 DEF WasTyped

\* The keys of an instance are mirrored.
LEMMA KeysMirrored == \A t : IsKey(t) => Mirrored(t)
BY DEF IsKey, Mirrored

\* Create: the new row is in no relation yet, and its foreign keys are not mirrored.
LEMMA CreateKeepsGrants ==
    ASSUME TasksOK, GrantsInv, NEW event, NEW o, NEW n, NEW keys, Create(event, o, n, keys),
           NEW e, e = [name |-> event, on |-> <<o>>], o \notin ComponentInstances,
           event \notin Deletes \cup Removes,
           event \notin {"DeleteSupportGroup", "UpdateComponentVersion", "UpdateIssueMatch",
                         "UpdateComponentInstance"},
           Grants(e) = {}, Calls(e) # 0 => EventOK(e),
           \A l \in keys : l[2] \in RelationNames => l \in Relations /\ Ends(l) \subseteq rows \cup {o} /\ ~Mirrored(l)
    PROVE  GrantsInv'
<1>1. /\ tuples' = tuples /\ was' = was /\ links' = links \cup keys /\ live' = live \cup {o} /\ gone' = gone
      /\ o \notin rows /\ PushEvent(event, <<o>>, TRUE)
  BY DEF Create, Request, Insert
<1>2. disturbed \subseteq disturbed' /\ (tasks' = tasks \/ (Pushed(e) /\ EventOK(e)))
  BY <1>1, PushFacts
<1>3. rows' = rows \cup {o}
  BY <1>1 DEF rows
<1>4. LinksTyped' /\ KeysUnique' /\ WasTyped'
  <2>1. \A l \in links' : l \notin links /\ l[2] \in RelationNames =>
               l \in Relations /\ Ends(l) \subseteq rows' /\ ~IsKey(l)
    BY <1>1, <1>3, KeysMirrored
  <2> QED
    BY <1>1, <1>3, <2>1, RequestKeepsTypes DEF GrantsInv
<1>5. e.name = event
  OBVIOUS
<1>6. ASSUME NEW t \in Relations, NEW T
      PROVE  Answered(e, t, T)
  <2>1. Right(t, T) => Right(t, T)'
    BY <1>1 DEF Right, Ends
  <2>2. t[2] \in RelationNames
    BY RelationShape DEF RelationNames
  <2>3. ASSUME T = Ends(t), Mirrored(t), Right(t, T)'
        PROVE  Right(t, T)
    <3>1. t \in links' /\ Ends(t) \subseteq live'
      BY <2>3 DEF Right, Ends
    <3>2. t \in links
      BY <1>1, <2>2, <2>3, <3>1
    <3>3. Ends(t) \subseteq rows
      BY <2>2, <3>2 DEF GrantsInv, LinksTyped
    <3> QED
      BY <1>1, <3>1, <3>2, <3>3 DEF Right
  <2>4. ~WillAdd(New(e), t) /\ ~WillDrop(New(e), t)
    BY <1>5, NewAddsNothing, NewDropsNothing
  <2> QED
    BY <2>1, <2>3, <2>4 DEF Answered
<1>7. HeldAlone(New(e))
  BY <1>5, NothingHeld
<1> QED
  BY <1>1, <1>2, <1>4, <1>6, <1>7, RequestKeepsGrants

\* Rename: the relations stay what they are.
LEMMA RenameKeepsGrants ==
    ASSUME TasksOK, GrantsInv, NEW o, NEW n, Rename(o, n)
    PROVE  GrantsInv'
<1>1. /\ UNCHANGED <<tuples, was, links, live, gone, tasks>> /\ disturbed \subseteq disturbed'
  BY DEF Rename, Request
<1>2. LinksTyped' /\ KeysUnique' /\ WasTyped'
  BY <1>1, RequestKeepsTypes DEF GrantsInv, rows
<1> DEFINE e == [name |-> "UpdateUser", on |-> <<o>>]
<1>3. ~Pushed(e)
  BY <1>1 DEF TasksOK, Pushed
<1>4. ASSUME NEW t \in Relations, NEW T
      PROVE  Answered(e, t, T)
  <2>1. Right(t, T) <=> Right(t, T)'
    BY <1>1 DEF Right, Ends
  <2> HIDE DEF e
  <2> QED
    BY <1>3, <2>1 DEF Answered
<1> HIDE DEF e
<1> QED
  BY <1>1, <1>2, <1>3, <1>4, RequestKeepsGrants

\* Delete: the event of the deleted object drops all its relations.
LEMMA DeleteKeepsGrants ==
    ASSUME TasksOK, GrantsInv, NEW event, NEW o, Delete(event, o),
           NEW e, e = [name |-> event, on |-> <<o>>],
           \/ event \in Deletes \cup {"DeleteSupportGroup"} /\ o \in Subject(e)
           \/ Calls(e) = 0 /\ o \in Issues \cup IssueVariants \cup IssueRepositories
    PROVE  GrantsInv'
<1>1. /\ tuples' = tuples /\ was' = was /\ links' = links /\ live' = live \ {o} /\ gone' = gone \cup {o}
      /\ o \in rows /\ PushEvent(event, <<o>>, TRUE)
  BY DEF Delete, Request, SoftDelete
<1>2. rows' = rows
  BY <1>1 DEF rows
<1>3. LinksTyped' /\ KeysUnique' /\ WasTyped'
  BY <1>1, <1>2, RequestKeepsTypes DEF GrantsInv
<1>4. \A t \in Relations : \A T : Watched(t, T)' => /\ Right(t, T)' => Right(t, T)
                                                    /\ Right(t, T) /\ ~Right(t, T)' => T = Ends(t) /\ o \in Ends(t)
  BY <1>1 DEF Right, Watched, Ends
<1>5. e.name = event /\ e.on = <<o>> /\ e.on[1] = o /\ DOMAIN e.on = {1}
  OBVIOUS
<1>6. CASE event \in Deletes \cup {"DeleteSupportGroup"} /\ o \in Subject(e)
  <2>1. Grants(e) = {} /\ e.name # "UpdateComponentInstance"
    BY <1>5, <1>6 DEF Grants, Deletes
  <2>2. EventOK(e)
    BY <1>5, <1>6, <2>1 DEF EventOK, Deletes, Removes, Adds
  <2>3. Calls(e) # 0
    BY <1>5, <1>6 DEF Calls, Deletes
  <2>4. disturbed \subseteq disturbed' /\ Pushed(e)
    BY <1>1, <2>3, PushFacts
  <2>5. \A t : WillDrop(New(e), t) <=> o \in Ends(t)
    <3>1. CASE event \in Deletes
      <4>1. \A n : \A t : SweepsAt(e, n, t) <=> n = 1 /\ o \in Ends(t)
        BY <1>5, <3>1 DEF SweepsAt, Deletes, Removes
      <4>2. Calls(e) = 2
        BY <1>5, <3>1 DEF Calls, Deletes
      <4> QED
        BY <4>1, <4>2, NewWill
    <3>2. CASE event = "DeleteSupportGroup"
      <4>1. \A n : \A t : SweepsAt(e, n, t) <=> n = 3 /\ o \in Ends(t)
        BY <1>5, <3>2 DEF SweepsAt, Deletes, Removes
      <4>2. Calls(e) = 4
        BY <1>5, <3>2 DEF Calls
      <4> QED
        BY <4>1, <4>2, NewWill
    <3> QED
      BY <1>6, <3>1, <3>2
  <2>6. o \in Touched(e)
    BY <1>5, <2>2, SubjectTouched
  <2>7. ASSUME NEW t \in Relations, NEW T, Watched(t, T)'
        PROVE  Answered(e, t, T)
    <3>1. ~WillAdd(New(e), t)
      BY <2>1, NewAddsNothing
    <3>2. T = Ends(t) /\ Right(t, T)' => o \notin Ends(t)
      BY <1>1 DEF Right, Ends
    <3> QED
      BY <1>4, <2>4, <2>5, <2>6, <2>7, <3>1, <3>2 DEF Answered
  <2>8. HeldAlone(New(e))
    BY <2>1, NothingHeld
  <2> QED
    BY <1>1, <1>3, <2>2, <2>4, <2>7, <2>8, RequestKeepsGrants
<1>7. CASE Calls(e) = 0 /\ o \in Issues \cup IssueVariants \cup IssueRepositories
  <2>1. disturbed \subseteq disturbed' /\ tasks' = tasks
    BY <1>1, <1>7, PushFacts
  <2>2. ~Pushed(e)
    BY <2>1 DEF TasksOK, Pushed
  <2>3. ASSUME NEW t \in Relations, NEW T, Watched(t, T)'
        PROVE  Answered(e, t, T)
    <3>1. Right(t, T) <=> Right(t, T)'
      BY <1>4, <1>7, <2>3, KindsOfStore
    <3> QED
      BY <2>2, <3>1 DEF Answered
  <2> QED
    BY <1>1, <1>3, <2>1, <2>2, <2>3, RequestKeepsGrants
<1> QED
  BY <1>6, <1>7

\* Of a live or deleted object the event of a link, and of an update, disturbs the deleted.
LEMMA NotGone ==
    ASSUME NEW e, Touched(e) \cap gone # {} => Touched(e) \subseteq disturbed', live \subseteq live',
           NEW t, NEW T, Watched(t, T)', T = Ends(t), Ends(t) \subseteq Touched(e),
           Ends(t) \subseteq rows \cup live'
    PROVE  Ends(t) \subseteq live'
<1>1. Ends(t) \cap disturbed' = {}
  BY DEF Watched
<1>2. t[1] \in Ends(t)
  BY DEF Ends
<1>3. Ends(t) \cap gone = {}
  BY <1>1, <1>2
<1> QED
  BY <1>3 DEF rows

\* Link: the event of a link of the store adds its tuple.
LEMMA LinkKeepsGrants ==
    ASSUME TasksOK, GrantsInv, NEW event, NEW l, NEW on, Link(event, l, on),
           NEW e, e = [name |-> event, on |-> on],
           \/ /\ event \in Adds /\ l \in Relations /\ ~IsKey(l) /\ Grants(e) = {l}
              /\ EventOK(e)
           \/ Calls(e) = 0 /\ l[2] \notin RelationNames
    PROVE  GrantsInv'
<1>1. /\ tuples' = tuples /\ was' = was /\ links' = links \cup {l} /\ live' = live /\ gone' = gone
      /\ Ends(l) \subseteq rows /\ PushEvent(event, on, TRUE)
  BY DEF Link, Request, AssociateId, Ends
<1>2. rows' = rows
  BY <1>1 DEF rows
<1>3. LinksTyped' /\ KeysUnique' /\ WasTyped'
  <2>1. \A m \in links' : m \notin links /\ m[2] \in RelationNames =>
               m \in Relations /\ Ends(m) \subseteq rows' /\ ~IsKey(m)
    BY <1>1, <1>2
  <2> QED
    BY <1>1, <1>2, <2>1, RequestKeepsTypes DEF GrantsInv
<1>4. \A t \in Relations : \A T : /\ Right(t, T) => Right(t, T)'
                                  /\ Right(t, T)' => Right(t, T) \/ t = l
  BY <1>1 DEF Right, Ends
<1>5. e.name = event
  OBVIOUS
<1>6. CASE event \in Adds /\ l \in Relations /\ ~IsKey(l) /\ Grants(e) = {l} /\ EventOK(e)
  <2>1. Calls(e) = 1 /\ \A n : AddsAt(e, n) = IF n = 1 THEN {l} ELSE {}
    BY <1>5, <1>6 DEF Calls, AddsAt, Adds
  <2>2. \A t : WillAdd(New(e), t) <=> t = l
    BY <2>1, NewWill
  <2>3. \A t : ~WillDrop(New(e), t)
    BY <1>5, <1>6, NewDropsNothing DEF Adds, Deletes, Removes
  <2>4. /\ disturbed \subseteq disturbed' /\ Pushed(e)
        /\ Touched(e) \cap gone # {} => Touched(e) \subseteq disturbed'
    <3>1. Calls(e) # 0
      BY <2>1
    <3> QED
      BY <1>1, <3>1, PushFacts
  <2>5. Ends(l) \subseteq Touched(e)
    BY <1>6, <2>1, AddsTouch
  <2>6. ASSUME NEW t \in Relations, NEW T, Watched(t, T)'
        PROVE  Answered(e, t, T)
    <3>1. ASSUME t = l
          PROVE  Right(t, T)'
      <4>1. T = Ends(l)
        BY <1>6, <2>6, <3>1 DEF Watched, Ends
      <4>2. Ends(l) \subseteq live'
        BY <1>1, <2>4, <2>5, <2>6, <3>1, <4>1, NotGone
      <4> QED
        BY <1>1, <3>1, <4>1, <4>2 DEF Right, Ends
    <3> QED
      BY <1>4, <2>2, <2>3, <2>4, <3>1 DEF Answered
  <2>7. HeldAlone(New(e))
    BY <1>5, <1>6, NothingHeld DEF Adds
  <2> QED
    BY <1>1, <1>3, <1>6, <2>4, <2>6, <2>7, RequestKeepsGrants
<1>7. CASE Calls(e) = 0 /\ l[2] \notin RelationNames
  <2>1. disturbed \subseteq disturbed' /\ tasks' = tasks
    BY <1>1, <1>7, PushFacts
  <2>2. ~Pushed(e)
    BY <2>1 DEF TasksOK, Pushed
  <2>3. ASSUME NEW t \in Relations, NEW T
        PROVE  Answered(e, t, T)
    <3>1. t # l
      BY <1>7, RelationShape DEF RelationNames
    <3> QED
      BY <1>4, <2>2, <3>1 DEF Answered
  <2> QED
    BY <1>1, <1>3, <2>1, <2>2, <2>3, RequestKeepsGrants
<1> QED
  BY <1>6, <1>7

\* Unlink: the event of the removal drops the tuple.
LEMMA UnlinkKeepsGrants ==
    ASSUME TasksOK, GrantsInv, NEW event, NEW l, NEW on, Unlink(event, l, on),
           NEW e, e = [name |-> event, on |-> on],
           \/ /\ event \in Removes /\ l \in Relations /\ ~IsKey(l) /\ Removed(e) = l
              /\ EventOK(e)
           \/ Calls(e) = 0 /\ l[2] \notin RelationNames
    PROVE  GrantsInv'
<1>1. /\ tuples' = tuples /\ was' = was /\ links' = links \ {l} /\ live' = live /\ gone' = gone
      /\ PushEvent(event, on, TRUE)
  BY DEF Unlink, Request, DissociateId
<1>2. rows' = rows
  BY <1>1 DEF rows
<1>3. LinksTyped' /\ KeysUnique' /\ WasTyped'
  <2>1. \A m \in links : m \notin links' => ~IsKey(m)
    BY <1>1 DEF IsKey, RelationNames
  <2> QED
    BY <1>1, <1>2, <2>1, RequestKeepsTypes DEF GrantsInv
<1>4. \A t \in Relations : \A T : /\ Right(t, T)' => Right(t, T) /\ t # l
                                  /\ Right(t, T) => Right(t, T)' \/ t = l
  BY <1>1 DEF Right, Ends
<1>5. e.name = event
  OBVIOUS
<1>6. CASE event \in Removes /\ l \in Relations /\ ~IsKey(l) /\ Removed(e) = l /\ EventOK(e)
  <2>1. Calls(e) = 2 /\ \A n : \A t : SweepsAt(e, n, t) <=> n = 1 /\ t = l
    BY <1>5, <1>6 DEF Calls, SweepsAt, Deletes, Removes
  <2>2. \A t : WillDrop(New(e), t) <=> t = l
    BY <2>1, NewWill
  <2>3. Grants(e) = {} /\ e.name # "UpdateComponentInstance"
    BY <1>5, <1>6 DEF Grants, Removes
  <2>4. \A t : ~WillAdd(New(e), t)
    BY <2>3, NewAddsNothing
  <2>5. disturbed \subseteq disturbed' /\ Pushed(e)
    <3>1. Calls(e) # 0
      BY <2>1
    <3> QED
      BY <1>1, <3>1, PushFacts
  <2>6. e.on[1] \in Ends(l) /\ e.on[1] \in Touched(e)
    BY <1>6, <2>1, SweepsTouch
  <2>7. ASSUME NEW t \in Relations, NEW T, Watched(t, T)'
        PROVE  Answered(e, t, T)
    <3>1. t = l => T = Ends(l)
      BY <1>6, <2>7 DEF Watched, Ends
    <3> QED
      BY <1>4, <2>2, <2>4, <2>5, <2>6, <3>1 DEF Answered
  <2>8. HeldAlone(New(e))
    BY <2>3, NothingHeld
  <2> QED
    BY <1>1, <1>3, <1>6, <2>5, <2>7, <2>8, RequestKeepsGrants
<1>7. CASE Calls(e) = 0 /\ l[2] \notin RelationNames
  <2>1. disturbed \subseteq disturbed' /\ tasks' = tasks
    BY <1>1, <1>7, PushFacts
  <2>2. ~Pushed(e)
    BY <2>1 DEF TasksOK, Pushed
  <2>3. ASSUME NEW t \in Relations, NEW T
        PROVE  Answered(e, t, T)
    <3>1. t # l
      BY <1>7, RelationShape DEF RelationNames
    <3> QED
      BY <1>4, <2>2, <3>1 DEF Answered
  <2> QED
    BY <1>1, <1>3, <2>1, <2>2, <2>3, RequestKeepsGrants
<1> QED
  BY <1>6, <1>7

\* An update replaces a foreign key that is not mirrored; its event drops the old tuple and
\* adds the new one, and without its event the object is disturbed.
LEMMA ReplaceKeepsGrants ==
    ASSUME TasksOK, GrantsInv, UNCHANGED <<tuples, was, live, gone>>,
           NEW event \in {"UpdateComponentVersion", "UpdateIssueMatch"}, NEW on, NEW e,
           e = [name |-> event, on |-> on], EventOK(e), NEW new, Grants(e) = {new},
           PushEvent(event, on, TRUE) \/ NoEvent({e.on[1]}),
           \A l \in links : l \notin links' => SweepsAt(e, 1, l),
           \A l \in links' : l \in links \/ (l = new /\ new \in Relations),
           new \in Relations => new \in links' /\ Ends(new) \subseteq rows,
           ~Mirrored(new), \A t : SweepsAt(e, 1, t) => ~Mirrored(t)
    PROVE  GrantsInv'
<1>1. rows' = rows
  BY DEF rows
<1>2. LinksTyped' /\ KeysUnique' /\ WasTyped'
  <2>1. \A m \in links' : m \notin links /\ m[2] \in RelationNames =>
               m \in Relations /\ Ends(m) \subseteq rows' /\ ~IsKey(m)
    BY <1>1, KeysMirrored
  <2>2. \A m \in links : m \notin links' => ~IsKey(m)
    BY KeysMirrored
  <2> QED
    BY <1>1, <2>1, <2>2, RequestKeepsTypes DEF GrantsInv
<1>3. e.name = event /\ e.name # "UpdateComponentInstance"
  OBVIOUS
<1>4. /\ Calls(e) # 0 /\ 1 \in 1..Calls(e) /\ 3 \in 1..Calls(e)
      /\ \A n : AddsAt(e, n) = IF n = 3 THEN {new} ELSE {}
  <2>1. Calls(e) = 3
    BY <1>3 DEF Calls
  <2>2. \A n : AddsAt(e, n) = IF n = 3 THEN {new} ELSE {}
    BY <1>3 DEF AddsAt
  <2> QED
    BY <2>1, <2>2
<1>5. \A n : \A t : SweepsAt(e, n, t) => n = 1
  BY <1>3 DEF SweepsAt, Deletes, Removes
<1>6. \A t : (WillAdd(New(e), t) <=> t = new) /\ (WillDrop(New(e), t) <=> SweepsAt(e, 1, t))
  BY <1>4, <1>5, NewWill
<1>7. ASSUME NEW t \in Relations, NEW T
      PROVE  /\ Right(t, T) /\ ~Right(t, T)' => SweepsAt(e, 1, t)
             /\ ~Right(t, T) /\ Right(t, T)' => t = new
  BY DEF Right, Ends
<1>8. \A t \in Relations : \A T : Watched(t, T)' /\ ~Mirrored(t) => T = Ends(t) /\ T \cap disturbed' = {}
  BY KeysMirrored DEF Watched, Ends
<1>9. \A t : SweepsAt(e, 1, t) => e.on[1] \in Ends(t) /\ e.on[1] \in Touched(e)
  BY SweepsTouch
<1>10. CASE PushEvent(event, on, TRUE)
  <2>1. /\ disturbed \subseteq disturbed' /\ Pushed(e)
        /\ Touched(e) \cap gone # {} => Touched(e) \subseteq disturbed'
    BY <1>4, <1>10, PushFacts
  <2>2. ASSUME NEW t \in Relations, NEW T, Watched(t, T)'
        PROVE  Answered(e, t, T)
    <3>1. ASSUME t = new
          PROVE  Right(t, T)'
      <4>1. T = Ends(new) /\ new \in links' /\ Ends(new) \subseteq rows
        BY <1>8, <2>2, <3>1
      <4>2. Ends(new) \subseteq Touched(e)
        BY <1>4, <3>1, AddsTouch
      <4>3. Ends(new) \subseteq live'
        BY <2>1, <2>2, <3>1, <4>1, <4>2, NotGone
      <4> QED
        BY <3>1, <4>1, <4>3 DEF Right, Ends
    <3>2. Right(t, T) /\ ~Right(t, T)' => SweepsAt(e, 1, t)
      BY <1>7
    <3>3. ~Right(t, T) /\ Right(t, T)' => t = new
      BY <1>7
    <3>4. SweepsAt(e, 1, t) => T \cap Touched(e) # {} /\ ~Mirrored(t)
      BY <1>8, <1>9, <2>2
    <3>5. (WillAdd(New(e), t) <=> t = new) /\ (WillDrop(New(e), t) <=> SweepsAt(e, 1, t))
      BY <1>6
    <3> QED
      BY <2>1, <3>1, <3>2, <3>3, <3>4, <3>5 DEF Answered
  <2>3. HeldAlone(New(e))
    BY <1>3, NothingHeld
  <2> QED
    BY <1>2, <2>1, <2>2, <2>3, RequestKeepsGrants
<1>11. CASE NoEvent({e.on[1]})
  <2>1. disturbed' = disturbed \cup {e.on[1]} /\ tasks' = tasks
    BY <1>11 DEF NoEvent
  <2>2. ~Pushed(e)
    BY <2>1 DEF TasksOK, Pushed
  <2>3. ASSUME NEW t \in Relations, NEW T, Watched(t, T)'
        PROVE  Answered(e, t, T)
    <3>1. ~SweepsAt(e, 1, t)
      BY <1>8, <1>9, <2>1, <2>3
    <3>2. Right(t, T) => Right(t, T)'
      BY <1>7, <3>1
    <3>3. ~Right(t, T) /\ Right(t, T)' => t = new
      BY <1>7
    <3> QED
      BY <2>2, <3>2, <3>3 DEF Answered
  <2>4. disturbed \subseteq disturbed'
    BY <2>1
  <2> QED
    BY <1>2, <2>1, <2>2, <2>3, <2>4, RequestKeepsGrants
<1> QED
  BY <1>10, <1>11

\* UpdateComponentVersion: the event carries the input, also when it is missing.
LEMMA UpdateComponentVersionKeepsGrants ==
    ASSUME TasksOK, GrantsInv, NEW v \in ComponentVersions, NEW c \in Components \cup {Nobody}, NEW found,
           UpdateComponentVersion(v, c, found)
    PROVE  GrantsInv'
<1> DEFINE new == Tuple(v, "component_version", c)
           none == Tuple(v, "component_version", Nobody)
           old == {l \in links : l[1] = v /\ l[2] = "component_version"}
           on == <<v, c>>
           e == [name |-> "UpdateComponentVersion", on |-> on]
<1>1. /\ UNCHANGED <<tuples, was, live, gone>> /\ v \in live /\ c \in rows \cup {Nobody}
      /\ links' = IF {new} \ {none} = {} THEN links ELSE (links \ old) \cup ({new} \ {none})
      /\ PushEvent("UpdateComponentVersion", on, TRUE) \/ NoEvent({v})
  BY DEF UpdateComponentVersion, Request, SetKeys
<1>2. e.name = "UpdateComponentVersion" /\ e.on = on /\ on[1] = v /\ on[2] = c /\ DOMAIN on = {1, 2}
  OBVIOUS
<1>3. new[1] = v /\ new[2] = "component_version" /\ new[3] = c /\ new = <<v, "component_version", c>>
  BY DEF Tuple
<1>4. Grants(e) = {new}
  BY <1>2 DEF Grants
<1>5. c = Nobody <=> new = none
  BY DEF Tuple
<1>6. new \in Relations <=> c # Nobody
  <2>1. c \in Components => new \in Relations
    BY <1>3, RelationShape
  <2>2. Nobody \notin Components
    BY KindsOfObjects
  <2>3. new \in Relations => c # Nobody
    BY <1>3, EndsAreObjects
  <2> QED
    BY <2>1, <2>2, <2>3
<1>7. Ends(new) = {v, c}
  BY <1>3 DEF Ends
<1> HIDE DEF new, none, on, e
<1>8. EventOK(e)
  <2>1. Subject(e) = ComponentVersions
    BY <1>2 DEF Subject
  <2>2. \A t \in Grants(e) : t \in Relations \/ Nobody \in Ends(t)
    BY <1>4, <1>6, <1>7
  <2> QED
    BY <1>2, <2>1, <2>2 DEF EventOK
<1>9. \A t : SweepsAt(e, 1, t) <=> t[1] = v /\ t[2] = "component_version"
  BY <1>2 DEF SweepsAt, Deletes, Removes
<1>10. /\ \A l \in links : l \notin links' => SweepsAt(e, 1, l)
       /\ \A l \in links' : l \in links \/ (l = new /\ new \in Relations)
       /\ new \in Relations => new \in links' /\ Ends(new) \subseteq rows
  BY <1>1, <1>5, <1>6, <1>7, <1>9 DEF rows
<1>11. ~Mirrored(new) /\ \A t : SweepsAt(e, 1, t) => ~Mirrored(t)
  BY <1>3, <1>9 DEF Mirrored
<1>12. PushEvent("UpdateComponentVersion", on, TRUE) \/ NoEvent({e.on[1]})
  BY <1>1, <1>2
<1>13. e = [name |-> "UpdateComponentVersion", on |-> on]
  BY DEF e
<1> QED
  BY <1>1, <1>4, <1>8, <1>10, <1>11, <1>12, <1>13, ReplaceKeepsGrants

\* UpdateIssueMatch: likewise, with an event in any case.
LEMMA UpdateIssueMatchKeepsGrants ==
    ASSUME TasksOK, GrantsInv, NEW m \in IssueMatches, NEW i \in ComponentInstances \cup {Nobody},
           UpdateIssueMatch(m, i)
    PROVE  GrantsInv'
<1> DEFINE new == Tuple(i, "component_instance", m)
           none == Tuple(Nobody, "component_instance", m)
           old == {l \in links : l[3] = m /\ l[2] = "component_instance"}
           on == <<m, i>>
           e == [name |-> "UpdateIssueMatch", on |-> on]
<1>1. /\ UNCHANGED <<tuples, was, live, gone>> /\ m \in live /\ i \in rows \cup {Nobody}
      /\ links' = IF {new} \ {none} = {} THEN links ELSE (links \ old) \cup ({new} \ {none})
      /\ PushEvent("UpdateIssueMatch", on, TRUE)
  BY DEF UpdateIssueMatch, Request, SetKeys
<1>2. e.name = "UpdateIssueMatch" /\ e.on = on /\ on[1] = m /\ on[2] = i /\ DOMAIN on = {1, 2}
  OBVIOUS
<1>3. new[1] = i /\ new[2] = "component_instance" /\ new[3] = m /\ new = <<i, "component_instance", m>>
  BY DEF Tuple
<1>4. Grants(e) = {new}
  BY <1>2 DEF Grants
<1>5. i = Nobody <=> new = none
  BY DEF Tuple
<1>6. new \in Relations <=> i # Nobody
  <2>1. i \in ComponentInstances => new \in Relations
    BY <1>3, RelationShape
  <2>2. Nobody \notin ComponentInstances
    BY KindsOfObjects
  <2>3. new \in Relations => i # Nobody
    BY <1>3, EndsAreObjects
  <2> QED
    BY <2>1, <2>2, <2>3
<1>7. Ends(new) = {m, i}
  BY <1>3 DEF Ends
<1> HIDE DEF new, none, on, e
<1>8. EventOK(e)
  <2>1. Subject(e) = IssueMatches
    BY <1>2 DEF Subject
  <2>2. \A t \in Grants(e) : t \in Relations \/ Nobody \in Ends(t)
    BY <1>4, <1>6, <1>7
  <2> QED
    BY <1>2, <2>1, <2>2 DEF EventOK
<1>9. \A t : SweepsAt(e, 1, t) <=> t[3] = m /\ t[2] = "component_instance"
  BY <1>2 DEF SweepsAt, Deletes, Removes
<1>10. /\ \A l \in links : l \notin links' => SweepsAt(e, 1, l)
       /\ \A l \in links' : l \in links \/ (l = new /\ new \in Relations)
       /\ new \in Relations => new \in links' /\ Ends(new) \subseteq rows
  BY <1>1, <1>5, <1>6, <1>7, <1>9 DEF rows
<1>11. ~Mirrored(new) /\ \A t : SweepsAt(e, 1, t) => ~Mirrored(t)
  <2>1. m \notin ComponentVersions
    BY KindsApart
  <2> QED
    BY <1>3, <1>9, <2>1 DEF Mirrored
<1>12. e = [name |-> "UpdateIssueMatch", on |-> on]
  BY DEF e
<1> QED
  BY <1>1, <1>4, <1>8, <1>10, <1>11, <1>12, ReplaceKeepsGrants

\* The foreign keys of an instance as relations.
LEMMA InstanceKeyFacts ==
    ASSUME NEW i \in ComponentInstances, NEW s \in Services, NEW v \in ComponentVersions \cup {Nobody},
           NEW service, service = Tuple(s, "related_service", i),
           NEW version, version = Tuple(i, "component_instance", v)
    PROVE  /\ service \in Relations /\ IsKey(service) /\ Instance(service) = i
           /\ service[2] = "related_service" /\ Ends(service) = {s, i}
           /\ v # Nobody => version \in Relations /\ IsKey(version) /\ Instance(version) = i
           /\ v = Nobody => version \notin Relations /\ Nobody \in Ends(version)
           /\ version[2] = "component_instance" /\ Ends(version) = {i, v}
           /\ \A l : l \in InstanceKeys(i, s, v) <=> l = service \/ (v # Nobody /\ l = version)
<1>1. service[1] = s /\ service[2] = "related_service" /\ service[3] = i /\ service = <<s, "related_service", i>>
  BY DEF Tuple
<1>2. version[1] = i /\ version[2] = "component_instance" /\ version[3] = v /\ version = <<i, "component_instance", v>>
  BY DEF Tuple
<1>3. /\ service \in Relations /\ IsKey(service) /\ Instance(service) = i /\ Ends(service) = {s, i}
  BY <1>1, RelationShape DEF IsKey, Instance, Ends
<1>4. v # Nobody => version \in Relations /\ IsKey(version) /\ Instance(version) = i
  BY <1>2, RelationShape DEF IsKey, Instance
<1>5. Ends(version) = {i, v} /\ (v = Nobody => version \notin Relations)
  BY <1>2, EndsAreObjects DEF Ends
<1>6. \A l : l \in InstanceKeys(i, s, v) <=> l = service \/ (v # Nobody /\ l = version)
  BY DEF InstanceKeys
<1> QED
  BY <1>1, <1>2, <1>3, <1>4, <1>5, <1>6

\* A relation that is a foreign key of an instance.
LEMMA KeyShape ==
    ASSUME NEW t \in Relations, IsKey(t)
    PROVE  /\ Instance(t) \in ComponentInstances /\ Instance(t) \in Ends(t)
           /\ t[2] = "related_service" => t[1] \in Services /\ t = Tuple(t[1], "related_service", Instance(t))
           /\ t[2] # "related_service" =>
                /\ t[2] = "component_instance" /\ t[3] \in ComponentVersions
                /\ t = Tuple(Instance(t), "component_instance", t[3])
BY RelationShape DEF IsKey, Instance, Ends, Tuple

\* An instance gets its foreign keys.
LEMMA KeysKeepTypes ==
    ASSUME LinksTyped, KeysUnique, WasTyped, KeysOK,
           NEW i \in ComponentInstances, NEW s \in Services, NEW v \in ComponentVersions \cup {Nobody},
           {s, v} \subseteq rows \cup {Nobody}, rows' = rows \cup {i},
           was' = [was EXCEPT ![i] = @ \cup {<<s, v>>}],
           \A l : l[2] \in RelationNames /\ ~(IsKey(l) /\ Instance(l) = i) => (l \in links' <=> l \in links),
           \A l : IsKey(l) /\ Instance(l) = i => (l \in links' <=> l \in InstanceKeys(i, s, v))
    PROVE  LinksTyped' /\ KeysUnique' /\ WasTyped'
<1> DEFINE service == Tuple(s, "related_service", i)
           version == Tuple(i, "component_instance", v)
<1>1. /\ service \in Relations /\ IsKey(service) /\ Instance(service) = i
      /\ service[2] = "related_service" /\ Ends(service) = {s, i}
      /\ v # Nobody => version \in Relations /\ IsKey(version) /\ Instance(version) = i
      /\ version[2] = "component_instance" /\ Ends(version) = {i, v}
      /\ \A l : l \in InstanceKeys(i, s, v) <=> l = service \/ (v # Nobody /\ l = version)
  BY InstanceKeyFacts
<1>2. s # Nobody
  BY KindsOfObjects
<1> HIDE DEF service, version
<1>3. \A l : IsKey(l) => l[2] \in RelationNames
  BY DEF IsKey, RelationNames
<1>4. LinksTyped'
  <2>1. ASSUME NEW l \in links', l[2] \in RelationNames
        PROVE  l \in Relations /\ Ends(l) \subseteq rows'
    <3>1. CASE IsKey(l) /\ Instance(l) = i
      <4>1. l = service \/ (v # Nobody /\ l = version)
        BY <1>1, <3>1
      <4> QED
        BY <1>1, <1>2, <4>1
    <3>2. CASE ~(IsKey(l) /\ Instance(l) = i)
      BY <2>1, <3>2 DEF LinksTyped
    <3> QED
      BY <3>1, <3>2
  <2> QED
    BY <2>1 DEF LinksTyped, Ends
<1>5. ASSUME NEW j \in rows' \cap ComponentInstances
      PROVE  /\ \E z \in Services : Tuple(z, "related_service", j) \in links'
             /\ \A l, m \in links' : IsKey(l) /\ IsKey(m) /\ l[2] = m[2] /\ Instance(l) = j /\ Instance(m) = j
                  => l = m
  <2>1. CASE j = i
    <3>1. service \in links'
      BY <1>1
    <3>2. \A l, m \in links' : IsKey(l) /\ IsKey(m) /\ l[2] = m[2] /\ Instance(l) = j /\ Instance(m) = j => l = m
      BY <1>1, <2>1
    <3> QED
      BY <2>1, <3>1, <3>2 DEF service
  <2>2. CASE j # i
    <3>1. j \in rows \cap ComponentInstances
      BY <1>5, <2>2
    <3>2. PICK z \in Services : Tuple(z, "related_service", j) \in links
      BY <3>1 DEF KeysUnique
    <3>3. /\ IsKey(Tuple(z, "related_service", j)) /\ Instance(Tuple(z, "related_service", j)) = j
      BY DEF IsKey, Instance, Tuple
    <3>4. Tuple(z, "related_service", j) \in links'
      BY <1>3, <2>2, <3>2, <3>3
    <3>5. \A l : IsKey(l) /\ Instance(l) = j => (l \in links' <=> l \in links)
      BY <1>3, <2>2
    <3>6. \A l, m \in links' : IsKey(l) /\ IsKey(m) /\ l[2] = m[2] /\ Instance(l) = j /\ Instance(m) = j => l = m
      BY <3>1, <3>5 DEF KeysUnique
    <3> QED
      BY <3>4, <3>6
  <2> QED
    BY <2>1, <2>2
<1>6. KeysUnique'
  BY <1>5 DEF KeysUnique
<1>7. WasTyped'
  <2>1. <<s, v>> \in Services \X (ComponentVersions \cup {Nobody})
    OBVIOUS
  <2>2. \A j \in ComponentInstances : was'[j] = IF j = i THEN was[j] \cup {<<s, v>>} ELSE was[j]
    BY DEF KeysOK
  <2> QED
    BY <2>1, <2>2 DEF WasTyped
<1> QED
  BY <1>4, <1>6, <1>7

\* CreateComponentInstance: both foreign keys are inserted, and the event adds both.
LEMMA CreateComponentInstanceKeepsGrants ==
    ASSUME TasksOK, KeysOK, GrantsInv, NEW i \in ComponentInstances, NEW n, NEW s \in Services,
           NEW v \in ComponentVersions \cup {Nobody}, CreateComponentInstance(i, n, s, v)
    PROVE  GrantsInv'
<1> DEFINE service == Tuple(s, "related_service", i)
           version == Tuple(i, "component_instance", v)
           on == <<i, s, v>>
           e == [name |-> "CreateComponentInstance", on |-> on]
<1>1. /\ tuples' = tuples /\ live' = live \cup {i} /\ gone' = gone /\ links' = links \cup InstanceKeys(i, s, v)
      /\ was' = [was EXCEPT ![i] = @ \cup {<<s, v>>}] /\ i \notin rows /\ s \in rows /\ v \in rows \cup {Nobody}
      /\ PushEvent("CreateComponentInstance", on, TRUE)
  BY DEF CreateComponentInstance, Request, Insert
<1>2. /\ service \in Relations /\ IsKey(service) /\ Instance(service) = i
      /\ Ends(service) = {s, i}
      /\ v # Nobody => version \in Relations /\ IsKey(version) /\ Instance(version) = i
      /\ v = Nobody => version \notin Relations /\ Nobody \in Ends(version)
      /\ Ends(version) = {i, v}
      /\ \A l : l \in InstanceKeys(i, s, v) <=> l = service \/ (v # Nobody /\ l = version)
  BY InstanceKeyFacts
<1>3. e.name = "CreateComponentInstance" /\ e.on = on /\ on[1] = i /\ on[2] = s /\ on[3] = v /\ DOMAIN on = 1..3
  OBVIOUS
<1>4. Grants(e) = {service, version}
  BY <1>3 DEF Grants
<1> HIDE DEF service, version, on
<1>5. rows' = rows \cup {i}
  BY <1>1 DEF rows
<1>6. \A l \in links : IsKey(l) => Instance(l) # i
  <2>1. ASSUME NEW l \in links, IsKey(l)
        PROVE  Instance(l) # i
    <3>1. l \in Relations /\ Ends(l) \subseteq rows
      BY <2>1 DEF GrantsInv, LinksTyped, IsKey, RelationNames
    <3> QED
      BY <1>1, <2>1, <3>1, KeyShape
  <2> QED
    BY <2>1
<1>7. LinksTyped' /\ KeysUnique' /\ WasTyped'
  <2>1. \A l : l[2] \in RelationNames /\ ~(IsKey(l) /\ Instance(l) = i) => (l \in links' <=> l \in links)
    BY <1>1, <1>2
  <2>2. \A l : IsKey(l) /\ Instance(l) = i => (l \in links' <=> l \in InstanceKeys(i, s, v))
    BY <1>1, <1>6
  <2>3. {s, v} \subseteq rows \cup {Nobody}
    BY <1>1
  <2>4. LinksTyped /\ KeysUnique /\ WasTyped
    BY DEF GrantsInv
  <2>5. was' = [was EXCEPT ![i] = @ \cup {<<s, v>>}]
    BY <1>1
  <2> QED
    BY <1>5, <2>1, <2>2, <2>3, <2>4, <2>5, KeysKeepTypes
<1>8. EventOK(e)
  <2>1. Subject(e) = ComponentInstances
    BY <1>3 DEF Subject
  <2>2. \A t \in Grants(e) : t \in Relations \/ Nobody \in Ends(t)
    BY <1>2, <1>4
  <2> QED
    BY <1>3, <2>1, <2>2 DEF EventOK
<1>9. Calls(e) = 1 /\ AddsAt(e, 1) = {service, version}
  BY <1>3, <1>4 DEF Calls, AddsAt
<1>10. \A t : (WillAdd(New(e), t) <=> t \in {service, version}) /\ ~WillDrop(New(e), t)
  BY <1>3, <1>9, NewWill, NewDropsNothing DEF Deletes, Removes
<1>11. /\ disturbed \subseteq disturbed' /\ Pushed(e)
       /\ Touched(e) \cap gone # {} => Touched(e) \subseteq disturbed'
  <2>1. Calls(e) # 0
    BY <1>9
  <2> QED
    BY <1>1, <2>1, PushFacts
<1> HIDE DEF e
<1>12. ASSUME NEW t \in Relations, NEW T, Watched(t, T)'
       PROVE  Answered(e, t, T)
  <2>1. Right(t, T) => Right(t, T)'
    BY <1>1 DEF Right, Ends
  <2>2. ASSUME T = Ends(t), ~Right(t, T), Right(t, T)'
        PROVE  WillAdd(New(e), t)
    <3>1. t \in links' /\ Ends(t) \subseteq live'
      BY <2>2 DEF Right, Ends
    <3>2. t[2] \in RelationNames
      BY RelationShape DEF RelationNames
    <3>3. t \notin links
      <4>1. SUFFICES ASSUME t \in links PROVE FALSE
        OBVIOUS
      <4>2. Ends(t) \subseteq rows
        BY <3>2, <4>1 DEF GrantsInv, LinksTyped
      <4> QED
        BY <1>1, <2>2, <3>1, <4>1, <4>2 DEF Right
    <3> QED
      BY <1>1, <1>2, <1>10, <3>1, <3>3
  <2>3. ASSUME WillAdd(New(e), t)
        PROVE  Right(t, T)'
    <3>1. t \in AddsAt(e, 1)
      BY <1>9, <1>10, <2>3
    <3>2. Ends(t) \subseteq Touched(e)
      BY <1>8, <3>1, AddsTouch
    <3>3. t \in InstanceKeys(i, s, v)
      BY <1>2, <1>10, <2>3
    <3>4. Ends(t) \subseteq rows \cup live'
      BY <1>1, <1>2, <3>3
    <3>5. T = Ends(t) => Ends(t) \subseteq live'
      BY <1>1, <1>11, <1>12, <3>2, <3>4, NotGone
    <3> QED
      BY <1>1, <3>3, <3>5 DEF Right, Ends
  <2> QED
    BY <1>10, <1>11, <2>1, <2>2, <2>3 DEF Answered
<1>13. HeldAlone(New(e))
  BY <1>3, NothingHeld
<1> QED
  BY <1>1, <1>7, <1>8, <1>11, <1>12, <1>13, RequestKeepsGrants

\* The foreign keys of an instance as the database has them.
LEMMA CurrentKeys ==
    ASSUME LinksTyped, KeysUnique, NEW i \in ComponentInstances, i \in rows
    PROVE  /\ ServiceKey(i) \in Services /\ ServiceKey(i) \in rows
           /\ VersionKey(i) \in ComponentVersions \cup {Nobody} /\ VersionKey(i) \in rows \cup {Nobody}
           /\ \A l \in links : IsKey(l) /\ Instance(l) = i => l \in InstanceKeys(i, ServiceKey(i), VersionKey(i))
           /\ VersionKey(i) = Nobody => \A l \in links : IsKey(l) /\ Instance(l) = i => l[2] = "related_service"
<1>1. PICK s : s = ServiceKey(i)
  OBVIOUS
<1>2. PICK v : v = VersionKey(i)
  OBVIOUS
<1>3. \E z \in Services : Tuple(z, "related_service", i) \in links
  BY DEF KeysUnique
<1>4. s \in Services /\ Tuple(s, "related_service", i) \in links
  BY <1>1, <1>3 DEF ServiceKey
<1>5. \/ v \in ComponentVersions /\ Tuple(i, "component_instance", v) \in links
      \/ v = Nobody /\ \A z \in ComponentVersions : Tuple(i, "component_instance", z) \notin links
  BY <1>2 DEF VersionKey
<1>6. Nobody \notin ComponentVersions
  BY KindsOfObjects
<1>7. v \in ComponentVersions \cup {Nobody}
  BY <1>5
<1> DEFINE service == Tuple(s, "related_service", i)
           version == Tuple(i, "component_instance", v)
<1>8. /\ IsKey(service) /\ Instance(service) = i /\ service[2] = "related_service" /\ Ends(service) = {s, i}
      /\ v # Nobody => IsKey(version) /\ Instance(version) = i
      /\ version[2] = "component_instance" /\ Ends(version) = {i, v}
      /\ \A l : l \in InstanceKeys(i, s, v) <=> l = service \/ (v # Nobody /\ l = version)
  BY <1>4, <1>7, InstanceKeyFacts
<1>9. service \in links /\ (v # Nobody => version \in links)
  BY <1>4, <1>5
<1> HIDE DEF service, version
<1>10. s \in rows /\ v \in rows \cup {Nobody}
  BY <1>8, <1>9 DEF LinksTyped, RelationNames
<1>11. ASSUME NEW l \in links, IsKey(l), Instance(l) = i
       PROVE  l \in InstanceKeys(i, s, v) /\ (v = Nobody => l[2] = "related_service")
  <2>1. l \in Relations
    BY <1>11 DEF LinksTyped, IsKey, RelationNames
  <2>2. \A m \in links : IsKey(m) /\ l[2] = m[2] /\ Instance(m) = i => l = m
    BY <1>11 DEF KeysUnique
  <2>3. CASE l[2] = "related_service"
    BY <1>8, <1>9, <2>2, <2>3
  <2>4. CASE l[2] # "related_service"
    <3>1. l[2] = "component_instance" /\ l[3] \in ComponentVersions /\ l = Tuple(i, "component_instance", l[3])
      BY <1>11, <2>1, <2>4, KeyShape
    <3>2. v # Nobody
      BY <1>5, <1>6, <3>1
    <3> QED
      BY <1>8, <1>9, <2>2, <3>1, <3>2
  <2> QED
    BY <2>3, <2>4
<1> QED
  BY <1>1, <1>2, <1>4, <1>7, <1>10, <1>11

\* What the event of an update of an instance adds and drops.
LEMMA InstanceEvent ==
    ASSUME NEW i \in ComponentInstances, NEW a \in Services, NEW b \in ComponentVersions \cup {Nobody},
           NEW e, e = [name |-> "UpdateComponentInstance", on |-> <<i, a, b>>]
    PROVE  /\ EventOK(e) /\ Calls(e) # 0 /\ Touched(e) = {i, a, b} \ {Nobody} /\ e.on[1] = i
           /\ \A t \in Relations : WillAdd(New(e), t) <=> t \in InstanceKeys(i, a, b)
           /\ \A t \in Relations : WillDrop(New(e), t) <=>
                IsKey(t) /\ Instance(t) = i /\ (t[2] = "related_service" \/ b # Nobody)
           /\ \A n \in 1..Calls(e) : Shape(e)[n] = "unless" =>
                \A u \in AddsAt(e, n + 3) : \A t \in Relations : SweepsAt(e, n + 1, t) =>
                   /\ u \in Relations /\ IsKey(u) /\ Instance(u) = i
                   /\ IsKey(t) /\ Instance(t) = i /\ t[2] = u[2]
<1> DEFINE service == Tuple(a, "related_service", i)
           version == Tuple(i, "component_instance", b)
           on == <<i, a, b>>
<1>1. e.name = "UpdateComponentInstance" /\ e.on = on /\ on[1] = i /\ on[2] = a /\ on[3] = b /\ DOMAIN on = 1..3
  OBVIOUS
<1>2. /\ service \in Relations /\ IsKey(service) /\ Instance(service) = i /\ service[2] = "related_service"
      /\ b # Nobody => version \in Relations /\ IsKey(version) /\ Instance(version) = i
      /\ b = Nobody => version \notin Relations /\ Nobody \in Ends(version)
      /\ version[2] = "component_instance"
      /\ \A l : l \in InstanceKeys(i, a, b) <=> l = service \/ (b # Nobody /\ l = version)
  BY InstanceKeyFacts
<1>3. Grants(e) = {service, version}
  BY <1>1 DEF Grants
<1>4. AddsAt(e, 4) = {service} /\ AddsAt(e, 8) = {version} /\ \A n : n \notin {4, 8} => AddsAt(e, n) = {}
  BY <1>1 DEF AddsAt
<1>5. Touched(e) = {i, a, b} \ {Nobody}
  BY <1>1 DEF Touched
<1>6. a # Nobody
  BY KindsOfObjects
<1>7. Calls(e) = IF b = Nobody THEN 4 ELSE 8
  BY <1>1 DEF Calls
<1> HIDE DEF service, version, on
<1>8. EventOK(e)
  <2>1. Subject(e) = ComponentInstances
    BY <1>1 DEF Subject
  <2>2. \A t \in Grants(e) : t \in Relations \/ Nobody \in Ends(t)
    BY <1>2, <1>3
  <2> QED
    BY <1>1, <1>6, <2>1, <2>2 DEF EventOK
<1>9. \A n, t : SweepsAt(e, n, t) <=>
        \/ n = 2 /\ t[2] = "related_service" /\ t[3] = i
        \/ n = 6 /\ b # Nobody /\ t[2] = "component_instance" /\ t[1] = i /\ t[3] \in ComponentVersions
  BY <1>1 DEF SweepsAt, Deletes, Removes
<1>10. \A t : IsKey(t) /\ Instance(t) = i <=>
         \/ t[2] = "related_service" /\ t[3] = i
         \/ t[2] = "component_instance" /\ t[1] = i /\ t[3] \in ComponentVersions
  BY DEF IsKey, Instance
<1>11. ASSUME NEW t \in Relations
       PROVE  WillAdd(New(e), t) <=> t \in InstanceKeys(i, a, b)
  <2>1. WillAdd(New(e), t) <=> \E n \in 1..Calls(e) : t \in AddsAt(e, n)
    BY NewWill
  <2>2. 4 \in 1..Calls(e) /\ (b # Nobody => 8 \in 1..Calls(e))
    BY <1>7
  <2> QED
    BY <1>2, <1>4, <2>1, <2>2
<1>12. ASSUME NEW t \in Relations
       PROVE  WillDrop(New(e), t) <=> IsKey(t) /\ Instance(t) = i /\ (t[2] = "related_service" \/ b # Nobody)
  <2>1. WillDrop(New(e), t) <=> \E n \in 1..Calls(e) : SweepsAt(e, n, t)
    BY NewWill
  <2>2. 2 \in 1..Calls(e) /\ (b # Nobody => 6 \in 1..Calls(e))
    BY <1>7
  <2> QED
    BY <1>9, <1>10, <2>1, <2>2
<1>13. ASSUME NEW n \in 1..Calls(e), Shape(e)[n] = "unless", NEW u \in AddsAt(e, n + 3), NEW t \in Relations,
              SweepsAt(e, n + 1, t)
       PROVE  /\ u \in Relations /\ IsKey(u) /\ Instance(u) = i
              /\ IsKey(t) /\ Instance(t) = i /\ t[2] = u[2]
  <2>1. n = 1 \/ (n = 5 /\ e.on[3] # Nobody)
    BY <1>13, UnlessBefore
  <2>2. CASE n = 1
    <3>1. u = service /\ t[2] = "related_service" /\ t[3] = i
      BY <1>4, <1>9, <1>13, <2>2
    <3> QED
      BY <1>2, <1>10, <3>1
  <2>3. CASE n = 5 /\ e.on[3] # Nobody
    <3>1. /\ u = version /\ b # Nobody /\ t[2] = "component_instance" /\ t[1] = i
          /\ t[3] \in ComponentVersions
      BY <1>1, <1>4, <1>9, <1>13, <2>3
    <3> QED
      BY <1>2, <1>10, <3>1
  <2> QED
    BY <2>1, <2>2, <2>3
<1> QED
  BY <1>1, <1>5, <1>7, <1>8, <1>11, <1>12, <1>13

\* An instance gets foreign keys, and the event that was pushed for it, if any, carries others
\* only if the instance is disturbed.
LEMMA RekeyKeepsGrants ==
    ASSUME TasksOK, KeysOK, GrantsInv, tuples' = tuples, live' = live, gone' = gone,
           NEW i \in ComponentInstances, i \in live, NEW s \in Services, s \in rows,
           NEW v \in ComponentVersions \cup {Nobody}, v \in rows \cup {Nobody},
           was' = [was EXCEPT ![i] = @ \cup {<<s, v>>}],
           \A l : ~(IsKey(l) /\ Instance(l) = i) => (l \in links' <=> l \in links),
           \A l : IsKey(l) /\ Instance(l) = i => (l \in links' <=> l \in InstanceKeys(i, s, v)),
           v = Nobody => \A l \in links : IsKey(l) /\ Instance(l) = i => l[2] = "related_service",
           NEW a \in Services, NEW b \in ComponentVersions \cup {Nobody},
           NEW e, e = [name |-> "UpdateComponentInstance", on |-> <<i, a, b>>],
           disturbed \subseteq disturbed',
           \/ tasks' = tasks /\ i \in disturbed'
           \/ Pushed(e) /\ (~(a = s /\ b = v) \/ Touched(e) \cap gone # {} => Touched(e) \subseteq disturbed')
    PROVE  GrantsInv'
<1>1. /\ EventOK(e) /\ Touched(e) = {i, a, b} \ {Nobody} /\ e.on[1] = i
      /\ \A t \in Relations : WillAdd(New(e), t) <=> t \in InstanceKeys(i, a, b)
      /\ \A t \in Relations : WillDrop(New(e), t) <=>
           IsKey(t) /\ Instance(t) = i /\ (t[2] = "related_service" \/ b # Nobody)
      /\ \A n \in 1..Calls(e) : Shape(e)[n] = "unless" =>
           \A u \in AddsAt(e, n + 3) : \A t \in Relations : SweepsAt(e, n + 1, t) =>
              /\ u \in Relations /\ IsKey(u) /\ Instance(u) = i
              /\ IsKey(t) /\ Instance(t) = i /\ t[2] = u[2]
  BY InstanceEvent
<1>2. \A l \in InstanceKeys(i, a, b) : IsKey(l) /\ Instance(l) = i
  <2>1. PICK x, y : x = Tuple(a, "related_service", i) /\ y = Tuple(i, "component_instance", b)
    OBVIOUS
  <2>2. /\ IsKey(x) /\ Instance(x) = i /\ (b # Nobody => IsKey(y) /\ Instance(y) = i)
        /\ \A l : l \in InstanceKeys(i, a, b) <=> l = x \/ (b # Nobody /\ l = y)
    BY <2>1, InstanceKeyFacts
  <2> QED
    BY <2>2
<1>3. i # Nobody
  BY KindsOfObjects
<1>4. i \in Touched(e) /\ rows' = rows \cup {i}
  BY <1>1, <1>3 DEF rows
<1>5. LinksTyped' /\ KeysUnique' /\ WasTyped'
  <2>1. LinksTyped /\ KeysUnique /\ WasTyped
    BY DEF GrantsInv
  <2>2. {s, v} \subseteq rows \cup {Nobody}
    OBVIOUS
  <2>3. \A l : l[2] \in RelationNames /\ ~(IsKey(l) /\ Instance(l) = i) => (l \in links' <=> l \in links)
    OBVIOUS
  <2> QED
    BY <1>4, <2>1, <2>2, <2>3, KeysKeepTypes
<1>6. ASSUME NEW t \in Relations, NEW T, Watched(t, T)'
      PROVE  /\ T \cap disturbed' = {} /\ (IsKey(t) /\ Instance(t) = i => i \in T)
             /\ Right(t, T)' <=> t \in links' /\ (T = Ends(t) => Ends(t) \subseteq live)
             /\ ~(IsKey(t) /\ Instance(t) = i) => (Right(t, T)' <=> Right(t, T))
  <2>1. T \cap disturbed' = {} /\ (T = Ends(t) \/ (IsKey(t) /\ T = {Instance(t)}))
    BY <1>6 DEF Watched, Ends, IsKey, Instance
  <2>2. Right(t, T)' <=> t \in links' /\ (T = Ends(t) => Ends(t) \subseteq live)
    BY DEF Right, Ends
  <2> QED
    BY <2>1, <2>2, KeyShape DEF Right
<1>7. CASE i \in disturbed'
  <2>1. ASSUME NEW t \in Relations, NEW T, Watched(t, T)'
        PROVE  Answered(e, t, T)
    <3>1. ~(IsKey(t) /\ Instance(t) = i)
      BY <1>6, <1>7, <2>1
    <3>2. Right(t, T)' <=> Right(t, T)
      BY <1>6, <2>1, <3>1
    <3>3. ~WillAdd(New(e), t) /\ ~WillDrop(New(e), t)
      BY <1>1, <1>2, <3>1
    <3> QED
      BY <3>2, <3>3 DEF Answered
  <2> QED
    BY <1>1, <1>5, <1>7, <2>1, RequestKeepsGrants
<1>8. CASE i \notin disturbed'
  <2>1. Pushed(e) /\ a = s /\ b = v /\ Touched(e) \cap gone = {}
    BY <1>4, <1>8
  <2>2. ASSUME NEW t \in Relations, NEW T, Watched(t, T)'
        PROVE  Answered(e, t, T)
    <3>1. T \cap Touched(e) # {} \/ ~(IsKey(t) /\ Instance(t) = i)
      BY <1>4, <1>6, <2>2
    <3>2. ASSUME Right(t, T), ~Right(t, T)'
          PROVE  Pushed(e) /\ T \cap Touched(e) # {} /\ WillDrop(New(e), t)
      <4>1. IsKey(t) /\ Instance(t) = i /\ t \in links
        BY <1>6, <2>2, <3>2 DEF Right
      <4> QED
        BY <1>1, <2>1, <3>1, <4>1
    <3>3. ASSUME ~Right(t, T), Right(t, T)'
          PROVE  WillAdd(New(e), t)
      <4>1. IsKey(t) /\ Instance(t) = i /\ t \in links'
        BY <1>6, <2>2, <3>3
      <4> QED
        BY <1>1, <2>1, <4>1
    <3>4. ASSUME WillAdd(New(e), t)
          PROVE  Right(t, T)'
      <4>1. t \in InstanceKeys(i, s, v) /\ IsKey(t) /\ Instance(t) = i
        BY <1>1, <1>2, <2>1, <3>4
      <4>2. t \in links'
        BY <4>1
      <4>3. Ends(t) \subseteq Touched(e)
        BY <1>1, <3>4, NewFields, WillAddTouches
      <4>4. Touched(e) \subseteq rows
        BY <1>1, <2>1 DEF rows
      <4>5. Ends(t) \subseteq live
        BY <2>1, <4>3, <4>4 DEF rows
      <4> QED
        BY <1>6, <2>2, <4>2, <4>5
    <3>5. ASSUME Right(t, T)', WillDrop(New(e), t)
          PROVE  WillAdd(New(e), t)
      <4>1. IsKey(t) /\ Instance(t) = i /\ t \in links'
        BY <1>1, <1>6, <2>2, <3>5
      <4> QED
        BY <1>1, <2>1, <4>1
    <3> QED
      BY <2>1, <3>2, <3>3, <3>4, <3>5 DEF Answered
  <2>3. HeldAlone(New(e))
    <3>1. \A k \in 1..Len(tasks) : i \notin Touched(tasks[k].event)
      BY <1>4, <1>8, <2>1 DEF Pushed
    <3>2. ASSUME NEW t \in tuples, t \in Relations, IsKey(t), Instance(t) = i
          PROVE  t \in links
      <4>1. PICK T : T = {i}
        OBVIOUS
      <4>2. Watched(t, T)
        BY <1>8, <3>2, <4>1 DEF Watched
      <4>3. Right(t, T)
        BY <3>1, <3>2, <4>1, <4>2 DEF GrantsInv, WrongLeaves
      <4> QED
        BY <4>3 DEF Right
    <3>3. ASSUME NEW n \in 1..Calls(e), Shape(e)[n] = "unless", NEW u \in AddsAt(e, n + 3) \cap tuples,
                 NEW t \in tuples \cap Relations, SweepsAt(e, n + 1, t)
          PROVE  t = u
      <4>1. /\ u \in Relations /\ IsKey(u) /\ Instance(u) = i
            /\ IsKey(t) /\ Instance(t) = i /\ t[2] = u[2]
        BY <1>1, <3>3
      <4>2. u \in links /\ t \in links
        BY <3>2, <4>1
      <4>3. i \in rows \cap ComponentInstances
        BY DEF rows
      <4> QED
        BY <4>1, <4>2, <4>3 DEF GrantsInv, KeysUnique
    <3> QED
      BY <3>3, NewFields DEF HeldAlone
  <2> QED
    BY <1>1, <1>5, <2>1, <2>2, <2>3, RequestKeepsGrants
<1> QED
  BY <1>7, <1>8

\* UpdateComponentInstance: what is read back is the row of the database, or with the cache
\* the foreign keys it had before.
LEMMA UpdateComponentInstanceKeepsGrants ==
    ASSUME TasksOK, KeysOK, GrantsInv, NEW i \in ComponentInstances, NEW s \in Services \cup {Nobody},
           NEW v \in ComponentVersions \cup {Nobody}, NEW found, UpdateComponentInstance(i, s, v, found)
    PROVE  GrantsInv'
<1> DEFINE k1 == IF s = Nobody THEN ServiceKey(i) ELSE s
           k2 == IF v = Nobody THEN VersionKey(i) ELSE v
           keys == <<k1, k2>>
           seen == {keys} \cup (IF cacheOn THEN was[i] ELSE {})
           old == InstanceKeys(i, ServiceKey(i), VersionKey(i))
           new == InstanceKeys(i, k1, k2)
<1>1. /\ tuples' = tuples /\ live' = live /\ gone' = gone /\ i \in live /\ {s, v} \subseteq rows \cup {Nobody}
      /\ links' = IF new = {} THEN links ELSE (links \ old) \cup new
      /\ was' = [was EXCEPT ![i] = @ \cup {keys}]
      /\ \/ NoEvent({i})
         \/ \E k \in seen : PushEvent("UpdateComponentInstance", <<i, k[1], k[2]>>, k = keys)
  BY DEF UpdateComponentInstance, Request, SetKeys
<1>2. i \in rows
  BY <1>1 DEF rows
<1>3. /\ ServiceKey(i) \in Services /\ ServiceKey(i) \in rows
      /\ VersionKey(i) \in ComponentVersions \cup {Nobody} /\ VersionKey(i) \in rows \cup {Nobody}
      /\ \A l \in links : IsKey(l) /\ Instance(l) = i => l \in old
      /\ VersionKey(i) = Nobody => \A l \in links : IsKey(l) /\ Instance(l) = i => l[2] = "related_service"
  BY <1>2, CurrentKeys DEF GrantsInv
<1>4. Nobody \notin Services
  BY KindsOfObjects
<1>5. /\ k1 \in Services /\ k1 \in rows /\ k2 \in ComponentVersions \cup {Nobody} /\ k2 \in rows \cup {Nobody}
      /\ k2 = Nobody => VersionKey(i) = Nobody
  BY <1>1, <1>3, <1>4
<1>6. \A l \in old \cup new : IsKey(l) /\ Instance(l) = i
  <2>1. ASSUME NEW a \in Services, NEW b \in ComponentVersions \cup {Nobody}
        PROVE  \A l \in InstanceKeys(i, a, b) : IsKey(l) /\ Instance(l) = i
    <3>1. PICK x, y : x = Tuple(a, "related_service", i) /\ y = Tuple(i, "component_instance", b)
      OBVIOUS
    <3>2. /\ IsKey(x) /\ Instance(x) = i /\ (b # Nobody => IsKey(y) /\ Instance(y) = i)
          /\ \A l : l \in InstanceKeys(i, a, b) <=> l = x \/ (b # Nobody /\ l = y)
      BY <3>1, InstanceKeyFacts
    <3> QED
      BY <3>2
  <2> HIDE DEF k1, k2
  <2> QED
    BY <1>3, <1>5, <2>1
<1>7. links' = (links \ old) \cup new
  BY <1>1 DEF InstanceKeys
<1>8. keys \in Services \X (ComponentVersions \cup {Nobody}) /\ keys[1] = k1 /\ keys[2] = k2
  BY <1>5
<1>9. \A k \in seen : k \in Services \X (ComponentVersions \cup {Nobody})
  BY <1>8 DEF GrantsInv, WasTyped
<1>10. PICK a1, a2 : a1 = k1 /\ a2 = k2
  OBVIOUS
<1>11. was' = [was EXCEPT ![i] = @ \cup {<<a1, a2>>}]
  BY <1>1, <1>10
<1> HIDE DEF k1, k2, old, new, seen
<1>12. /\ \A l : ~(IsKey(l) /\ Instance(l) = i) => (l \in links' <=> l \in links)
       /\ \A l : IsKey(l) /\ Instance(l) = i => (l \in links' <=> l \in InstanceKeys(i, a1, a2))
       /\ a2 = Nobody => \A l \in links : IsKey(l) /\ Instance(l) = i => l[2] = "related_service"
  <2>1. new = InstanceKeys(i, a1, a2)
    BY <1>10 DEF new
  <2> QED
    BY <1>3, <1>5, <1>6, <1>7, <1>10, <2>1
<1>13. a1 \in Services /\ a1 \in rows /\ a2 \in ComponentVersions \cup {Nobody} /\ a2 \in rows \cup {Nobody}
  BY <1>5, <1>10
<1>14. CASE NoEvent({i})
  <2>1. PICK e : e = [name |-> "UpdateComponentInstance", on |-> <<i, a1, a2>>]
    OBVIOUS
  <2>2. disturbed \subseteq disturbed' /\ tasks' = tasks /\ i \in disturbed'
    BY <1>14 DEF NoEvent
  <2> QED
    BY <1>1, <1>11, <1>12, <1>13, <2>1, <2>2, RekeyKeepsGrants
<1>15. ASSUME NEW k \in seen, PushEvent("UpdateComponentInstance", <<i, k[1], k[2]>>, k = keys)
       PROVE  GrantsInv'
  <2>1. PICK a \in Services, b \in ComponentVersions \cup {Nobody} : k = <<a, b>> /\ k[1] = a /\ k[2] = b
    BY <1>9, <1>15
  <2>2. PICK e : e = [name |-> "UpdateComponentInstance", on |-> <<i, a, b>>]
    OBVIOUS
  <2>3. PICK faithful : faithful = (k = keys)
    OBVIOUS
  <2>4. PICK on : on = <<i, a, b>>
    OBVIOUS
  <2>5. PushEvent("UpdateComponentInstance", on, faithful)
    BY <1>15, <2>1, <2>3, <2>4
  <2>6. Calls(e) # 0
    BY <2>2, InstanceEvent
  <2>7. /\ disturbed \subseteq disturbed' /\ Pushed(e)
        /\ ~faithful \/ Touched(e) \cap gone # {} => Touched(e) \subseteq disturbed'
    BY <2>2, <2>4, <2>5, <2>6, PushFacts
  <2>8. ~(a = a1 /\ b = a2) => ~faithful
    BY <1>8, <1>10, <2>1, <2>3
  <2>9. ~(a = a1 /\ b = a2) \/ Touched(e) \cap gone # {} => Touched(e) \subseteq disturbed'
    BY <2>7, <2>8
  <2>10. disturbed \subseteq disturbed' /\ Pushed(e)
    BY <2>7
  <2>11. tuples' = tuples /\ live' = live /\ gone' = gone /\ i \in live
    BY <1>1
  <2> QED
    BY <1>11, <1>12, <1>13, <2>2, <2>9, <2>10, <2>11, RekeyKeepsGrants
<1> QED
  BY <1>1, <1>14, <1>15
-----------------------------------------------------------------------------
(* The requests of mutation.go, shape by shape.                            *)

LEMMA KindsOutside == (Issues \cup IssueVariants \cup IssueRepositories) \cap ComponentInstances = {}
<1> DEFINE kind == <<Users, SupportGroups, Services, Components, ComponentVersions,
                     ComponentInstances, Issues, IssueVariants, IssueRepositories, IssueMatches>>
<1>1. \A k, m \in 1..10 : k # m => kind[k] \cap kind[m] = {}
  BY KindsDisjoint
<1>2. /\ kind[6] = ComponentInstances /\ kind[7] = Issues /\ kind[8] = IssueVariants
      /\ kind[9] = IssueRepositories
  OBVIOUS
<1> HIDE DEF kind
<1>3. /\ kind[6] \cap kind[7] = {} /\ kind[6] \cap kind[8] = {} /\ kind[6] \cap kind[9] = {}
  BY <1>1
<1> QED
  BY <1>2, <1>3

\* A request that creates an object of another kind than an instance.
LEMMA CreatedKeepsGrants ==
    ASSUME TasksOK, GrantsInv, NEW event, NEW o, NEW n, NEW keys, Create(event, o, n, keys),
           \/ event = "CreateUser" /\ o \in Users
           \/ event = "CreateSupportGroup" /\ o \in SupportGroups
           \/ event = "CreateComponent" /\ o \in Components
           \/ event = "CreateService" /\ o \in Services
           \/ event = "CreateIssueRepository" /\ o \in IssueRepositories
           \/ event = "CreateIssue" /\ o \in Issues
           \/ event = "CreateIssueVariant" /\ o \in IssueVariants
           \/ event = "CreateComponentVersion" /\ o \in ComponentVersions
           \/ event = "CreateIssueMatch" /\ o \in IssueMatches,
           \A l \in keys : l[2] \in RelationNames =>
               l \in Relations /\ Ends(l) \subseteq rows \cup {o} /\ ~Mirrored(l)
    PROVE  GrantsInv'
<1>1. PICK e : e = [name |-> event, on |-> <<o>>]
  OBVIOUS
<1>2. e.name = event /\ e.on[1] = o /\ 1 \in DOMAIN e.on
  BY <1>1
<1>3. o \notin ComponentInstances
  BY KindsApart, KindsOutside
<1>4. /\ event \notin Deletes \cup Removes
      /\ event \notin {"DeleteSupportGroup", "UpdateComponentVersion", "UpdateIssueMatch",
                       "UpdateComponentInstance"}
  BY DEF Deletes, Removes
<1>5. Grants(e) = {}
  BY <1>1, GrantsNothing
<1>6. Calls(e) # 0 => EventOK(e)
  <2>1. Calls(e) # 0 => e.on[1] \in Subject(e)
    BY <1>2 DEF Calls, Subject
  <2>2. event \notin Removes \cup Adds \cup {"UpdateComponentVersion", "UpdateIssueMatch",
                                            "CreateComponentInstance", "UpdateComponentInstance"}
    BY <1>4 DEF Adds
  <2> QED
    BY <1>2, <1>5, <2>1, <2>2 DEF EventOK
<1> QED
  BY <1>1, <1>3, <1>4, <1>5, <1>6, CreateKeepsGrants

LEMMA CreateMutationKeepsGrants ==
    ASSUME TasksOK, GrantsInv, CreateMutation PROVE GrantsInv'
<1>1. ASSUME NEW event, NEW o, NEW n, Create(event, o, n, {}),
             \/ event = "CreateUser" /\ o \in Users
             \/ event = "CreateSupportGroup" /\ o \in SupportGroups
             \/ event = "CreateComponent" /\ o \in Components
             \/ event = "CreateService" /\ o \in Services
             \/ event = "CreateIssueRepository" /\ o \in IssueRepositories
             \/ event = "CreateIssue" /\ o \in Issues
      PROVE  GrantsInv'
  <2>1. PICK keys : keys = {}
    OBVIOUS
  <2>2. Create(event, o, n, keys)
    BY <1>1, <2>1
  <2> QED
    BY <1>1, <2>1, <2>2, CreatedKeepsGrants
<1>2. CASE CreateUserMutation \/ CreateSupportGroupMutation \/ CreateComponentMutation
  BY <1>1, <1>2 DEF CreateUserMutation, CreateSupportGroupMutation, CreateComponentMutation,
     CreateUser, CreateSupportGroup, CreateComponent
<1>3. CASE CreateServiceMutation \/ CreateIssueRepositoryMutation \/ CreateIssueMutation
  BY <1>1, <1>3 DEF CreateServiceMutation, CreateIssueRepositoryMutation, CreateIssueMutation,
     CreateService, CreateIssueRepository, CreateIssue
<1>4. CASE CreateIssueVariantMutation
  <2>1. PICK w \in IssueVariants, n \in Names, x \in Issues, r \in IssueRepositories :
          Create("CreateIssueVariant", w, n, {Tuple(x, "variant", w), Tuple(r, "variant", w)})
    BY <1>4 DEF CreateIssueVariantMutation, CreateIssueVariant
  <2>2. PICK keys : keys = {Tuple(x, "variant", w), Tuple(r, "variant", w)}
    OBVIOUS
  <2>3. Create("CreateIssueVariant", w, n, keys)
    BY <2>1, <2>2
  <2>4. \A l \in keys : l[2] \notin RelationNames
    BY <2>2 DEF Tuple, RelationNames
  <2> QED
    BY <2>3, <2>4, CreatedKeepsGrants
<1>5. CASE CreateComponentVersionMutation
  <2>1. PICK v \in ComponentVersions, n \in Names, c \in Components :
          c \in rows /\ Create("CreateComponentVersion", v, n, {Tuple(v, "component_version", c)})
    BY <1>5 DEF CreateComponentVersionMutation, CreateComponentVersion
  <2>2. PICK l : l = Tuple(v, "component_version", c)
    OBVIOUS
  <2>3. l[1] = v /\ l[2] = "component_version" /\ l[3] = c /\ l = <<v, "component_version", c>>
    BY <2>2 DEF Tuple
  <2>4. l \in Relations /\ Ends(l) \subseteq rows \cup {v} /\ ~Mirrored(l)
    BY <2>1, <2>3, RelationShape DEF Ends, Mirrored
  <2>5. PICK keys : keys = {l}
    OBVIOUS
  <2>6. Create("CreateComponentVersion", v, n, keys)
    BY <2>1, <2>2, <2>5
  <2> QED
    BY <2>4, <2>5, <2>6, CreatedKeepsGrants
<1>6. CASE CreateIssueMatchMutation
  <2>1. PICK m \in IssueMatches, i \in ComponentInstances, x \in Issues :
          /\ i \in rows
          /\ Create("CreateIssueMatch", m, Nobody, {Tuple(i, "component_instance", m), Tuple(x, "match", m)})
    BY <1>6 DEF CreateIssueMatchMutation, CreateIssueMatch
  <2>2. PICK l, k : l = Tuple(i, "component_instance", m) /\ k = Tuple(x, "match", m)
    OBVIOUS
  <2>3. /\ l[1] = i /\ l[2] = "component_instance" /\ l[3] = m /\ l = <<i, "component_instance", m>>
        /\ k[2] \notin RelationNames
    BY <2>2 DEF Tuple, RelationNames
  <2>4. m \notin ComponentVersions
    BY KindsApart
  <2>5. l \in Relations /\ Ends(l) \subseteq rows \cup {m} /\ ~Mirrored(l)
    BY <2>1, <2>3, <2>4, RelationShape DEF Ends, Mirrored
  <2>6. PICK keys : keys = {l, k}
    OBVIOUS
  <2>7. Create("CreateIssueMatch", m, Nobody, keys)
    BY <2>1, <2>2, <2>6
  <2> QED
    BY <2>3, <2>5, <2>6, <2>7, CreatedKeepsGrants
<1> QED
  BY <1>2, <1>3, <1>4, <1>5, <1>6 DEF CreateMutation

LEMMA UpdateMutationKeepsGrants ==
    ASSUME TasksOK, GrantsInv, UpdateMutation PROVE GrantsInv'
<1>1. PICK o, n : Rename(o, n)
  BY DEF UpdateMutation, UpdateUserMutation, UpdateSupportGroupMutation, UpdateComponentMutation,
     UpdateServiceMutation, UpdateIssueRepositoryMutation, UpdateIssueMutation,
     UpdateIssueVariantMutation, UpdateUser, UpdateSupportGroup, UpdateComponent, UpdateService,
     UpdateIssueRepository, UpdateIssue, UpdateIssueVariant
<1> QED
  BY <1>1, RenameKeepsGrants

LEMMA DeleteMutationKeepsGrants ==
    ASSUME TasksOK, GrantsInv, DeleteMutation PROVE GrantsInv'
<1>1. PICK event, o :
        /\ Delete(event, o)
        /\ \/ event = "DeleteUser" /\ o \in Users
           \/ event = "DeleteSupportGroup" /\ o \in SupportGroups
           \/ event = "DeleteComponent" /\ o \in Components
           \/ event = "DeleteService" /\ o \in Services
           \/ event = "DeleteComponentVersion" /\ o \in ComponentVersions
           \/ event = "DeleteComponentInstance" /\ o \in ComponentInstances
           \/ event = "DeleteIssueMatch" /\ o \in IssueMatches
           \/ event = "DeleteIssueRepository" /\ o \in IssueRepositories
           \/ event = "DeleteIssue" /\ o \in Issues
           \/ event = "DeleteIssueVariant" /\ o \in IssueVariants
  BY DEF DeleteMutation, DeleteUserMutation, DeleteSupportGroupMutation, DeleteComponentMutation,
     DeleteServiceMutation, DeleteIssueRepositoryMutation, DeleteIssueMutation,
     DeleteIssueVariantMutation, DeleteComponentVersionMutation, DeleteComponentInstanceMutation,
     DeleteIssueMatchMutation, DeleteUser, DeleteSupportGroup, DeleteComponent, DeleteService,
     DeleteIssueRepository, DeleteIssue, DeleteIssueVariant, DeleteComponentVersion,
     DeleteComponentInstance, DeleteIssueMatch
<1>2. PICK e : e = [name |-> event, on |-> <<o>>]
  OBVIOUS
<1>3. e.name = event
  BY <1>2
<1>4. \/ event \in Deletes \cup {"DeleteSupportGroup"} /\ o \in Subject(e)
      \/ Calls(e) = 0 /\ o \in Issues \cup IssueVariants \cup IssueRepositories
  BY <1>1, <1>3 DEF Deletes, Subject, Calls
<1> QED
  BY <1>1, <1>2, <1>4, DeleteKeepsGrants

\* The links and what their events carry.
LEMMA LinkMutationKeepsGrants ==
    ASSUME TasksOK, GrantsInv, LinkMutation PROVE GrantsInv'
<1>1. ASSUME NEW event \in Adds, NEW l \in Relations, ~IsKey(l), NEW on, Link(event, l, on),
             NEW e, e = [name |-> event, on |-> on], Grants(e) = {l}, on[1] \in Subject(e), DOMAIN on = {1, 2}
      PROVE  GrantsInv'
  <2>1. e.name = event /\ e.on = on /\ event # "CreateComponentInstance" /\ event # "UpdateComponentInstance"
    BY <1>1 DEF Adds
  <2>2. EventOK(e)
    BY <1>1, <2>1 DEF EventOK
  <2> QED
    BY <1>1, <2>2, LinkKeepsGrants
<1>2. CASE AddServiceToSupportGroupMutation
  <2>1. PICK g \in SupportGroups, s \in Services :
          Link("AddServiceToSupportGroup", Tuple(g, "support_group", s), <<g, s>>)
    BY <1>2 DEF AddServiceToSupportGroupMutation, AddServiceToSupportGroup
  <2>2. PICK l, on : l = Tuple(g, "support_group", s) /\ on = <<g, s>>
    OBVIOUS
  <2>3. PICK e : e = [name |-> "AddServiceToSupportGroup", on |-> on]
    OBVIOUS
  <2>4. e.name = "AddServiceToSupportGroup" /\ e.on[1] = g /\ e.on[2] = s
    BY <2>2, <2>3
  <2>5. Grants(e) = {l} /\ Subject(e) = SupportGroups
    BY <2>2, <2>4 DEF Grants, Subject
  <2>6. l \in Relations /\ ~IsKey(l)
    BY <2>2, RelationShape DEF Tuple, IsKey
  <2>7. on[1] \in Subject(e) /\ DOMAIN on = {1, 2} /\ Link("AddServiceToSupportGroup", l, on)
    BY <2>1, <2>2, <2>5
  <2>8. "AddServiceToSupportGroup" \in Adds
    BY DEF Adds
  <2> QED
    BY <1>1, <2>3, <2>5, <2>6, <2>7, <2>8
<1>3. CASE AddUserToSupportGroupMutation
  <2>1. PICK g \in SupportGroups, u \in Users :
          Link("AddUserToSupportGroup", Tuple(u, "member", g), <<g, u>>)
    BY <1>3 DEF AddUserToSupportGroupMutation, AddUserToSupportGroup
  <2>2. PICK l, on : l = Tuple(u, "member", g) /\ on = <<g, u>>
    OBVIOUS
  <2>3. PICK e : e = [name |-> "AddUserToSupportGroup", on |-> on]
    OBVIOUS
  <2>4. e.name = "AddUserToSupportGroup" /\ e.on[1] = g /\ e.on[2] = u
    BY <2>2, <2>3
  <2>5. Grants(e) = {l} /\ Subject(e) = SupportGroups
    BY <2>2, <2>4 DEF Grants, Subject
  <2>6. l \in Relations /\ ~IsKey(l)
    BY <2>2, RelationShape DEF Tuple, IsKey
  <2>7. on[1] \in Subject(e) /\ DOMAIN on = {1, 2} /\ Link("AddUserToSupportGroup", l, on)
    BY <2>1, <2>2, <2>5
  <2>8. "AddUserToSupportGroup" \in Adds
    BY DEF Adds
  <2> QED
    BY <1>1, <2>3, <2>5, <2>6, <2>7, <2>8
<1>4. CASE AddOwnerToServiceMutation
  <2>1. PICK s \in Services, u \in Users : Link("AddOwnerToService", Tuple(u, "owner", s), <<s, u>>)
    BY <1>4 DEF AddOwnerToServiceMutation, AddOwnerToService
  <2>2. PICK l, on : l = Tuple(u, "owner", s) /\ on = <<s, u>>
    OBVIOUS
  <2>3. PICK e : e = [name |-> "AddOwnerToService", on |-> on]
    OBVIOUS
  <2>4. e.name = "AddOwnerToService" /\ e.on[1] = s /\ e.on[2] = u
    BY <2>2, <2>3
  <2>5. Grants(e) = {l} /\ Subject(e) = Services
    BY <2>2, <2>4 DEF Grants, Subject
  <2>6. l \in Relations /\ ~IsKey(l)
    BY <2>2, RelationShape DEF Tuple, IsKey
  <2>7. on[1] \in Subject(e) /\ DOMAIN on = {1, 2} /\ Link("AddOwnerToService", l, on)
    BY <2>1, <2>2, <2>5
  <2>8. "AddOwnerToService" \in Adds
    BY DEF Adds
  <2> QED
    BY <1>1, <2>3, <2>5, <2>6, <2>7, <2>8
<1>5. ASSUME NEW event \in {"AddIssueRepositoryToService", "AddComponentVersionToIssue"},
             NEW a, NEW relation \in {"issue_repository", "issue"}, NEW b, NEW on,
             Link(event, Tuple(a, relation, b), on)
      PROVE  GrantsInv'
  <2>1. PICK l : l = Tuple(a, relation, b)
    OBVIOUS
  <2>2. l[2] \notin RelationNames
    BY <2>1 DEF Tuple, RelationNames
  <2>3. PICK e : e = [name |-> event, on |-> on]
    OBVIOUS
  <2>4. Calls(e) = 0
    BY <2>3 DEF Calls
  <2>5. Link(event, l, on)
    BY <1>5, <2>1
  <2> QED
    BY <2>2, <2>3, <2>4, <2>5, LinkKeepsGrants
<1>6. CASE AddIssueRepositoryToServiceMutation
  BY <1>5, <1>6 DEF AddIssueRepositoryToServiceMutation, AddIssueRepositoryToService
<1>7. CASE AddComponentVersionToIssueMutation
  BY <1>5, <1>7 DEF AddComponentVersionToIssueMutation, AddComponentVersionToIssue
<1> QED
  BY <1>2, <1>3, <1>4, <1>6, <1>7 DEF LinkMutation

LEMMA UnlinkMutationKeepsGrants ==
    ASSUME TasksOK, GrantsInv, UnlinkMutation PROVE GrantsInv'
<1>1. ASSUME NEW event \in Removes, NEW l \in Relations, ~IsKey(l), NEW on, Unlink(event, l, on),
             NEW e, e = [name |-> event, on |-> on], Removed(e) = l, on[1] \in Subject(e), DOMAIN on = {1, 2}
      PROVE  GrantsInv'
  <2>1. e.name = event /\ e.on = on /\ event # "CreateComponentInstance" /\ event # "UpdateComponentInstance"
    BY <1>1 DEF Removes
  <2>2. Grants(e) = {}
    BY <1>1, GrantsNothing DEF Removes
  <2>3. EventOK(e)
    BY <1>1, <2>1, <2>2 DEF EventOK
  <2> QED
    BY <1>1, <2>3, UnlinkKeepsGrants
<1>2. CASE RemoveServiceFromSupportGroupMutation
  <2>1. PICK g \in SupportGroups, s \in Services :
          Unlink("RemoveServiceFromSupportGroup", Tuple(g, "support_group", s), <<g, s>>)
    BY <1>2 DEF RemoveServiceFromSupportGroupMutation, RemoveServiceFromSupportGroup
  <2>2. PICK l, on : l = Tuple(g, "support_group", s) /\ on = <<g, s>>
    OBVIOUS
  <2>3. PICK e : e = [name |-> "RemoveServiceFromSupportGroup", on |-> on]
    OBVIOUS
  <2>4. e.name = "RemoveServiceFromSupportGroup" /\ e.on[1] = g /\ e.on[2] = s
    BY <2>2, <2>3
  <2>5. Removed(e) = l /\ Subject(e) = SupportGroups
    BY <2>2, <2>4 DEF Removed, Subject
  <2>6. l \in Relations /\ ~IsKey(l)
    BY <2>2, RelationShape DEF Tuple, IsKey
  <2>7. on[1] \in Subject(e) /\ DOMAIN on = {1, 2} /\ Unlink("RemoveServiceFromSupportGroup", l, on)
    BY <2>1, <2>2, <2>5
  <2>8. "RemoveServiceFromSupportGroup" \in Removes
    BY DEF Removes
  <2> QED
    BY <1>1, <2>3, <2>5, <2>6, <2>7, <2>8
<1>3. CASE RemoveUserFromSupportGroupMutation
  <2>1. PICK g \in SupportGroups, u \in Users :
          Unlink("RemoveUserFromSupportGroup", Tuple(u, "member", g), <<g, u>>)
    BY <1>3 DEF RemoveUserFromSupportGroupMutation, RemoveUserFromSupportGroup
  <2>2. PICK l, on : l = Tuple(u, "member", g) /\ on = <<g, u>>
    OBVIOUS
  <2>3. PICK e : e = [name |-> "RemoveUserFromSupportGroup", on |-> on]
    OBVIOUS
  <2>4. e.name = "RemoveUserFromSupportGroup" /\ e.on[1] = g /\ e.on[2] = u
    BY <2>2, <2>3
  <2>5. Removed(e) = l /\ Subject(e) = SupportGroups
    BY <2>2, <2>4 DEF Removed, Subject
  <2>6. l \in Relations /\ ~IsKey(l)
    BY <2>2, RelationShape DEF Tuple, IsKey
  <2>7. on[1] \in Subject(e) /\ DOMAIN on = {1, 2} /\ Unlink("RemoveUserFromSupportGroup", l, on)
    BY <2>1, <2>2, <2>5
  <2>8. "RemoveUserFromSupportGroup" \in Removes
    BY DEF Removes
  <2> QED
    BY <1>1, <2>3, <2>5, <2>6, <2>7, <2>8
<1>4. CASE RemoveOwnerFromServiceMutation
  <2>1. PICK s \in Services, u \in Users : Unlink("RemoveOwnerFromService", Tuple(u, "owner", s), <<s, u>>)
    BY <1>4 DEF RemoveOwnerFromServiceMutation, RemoveOwnerFromService
  <2>2. PICK l, on : l = Tuple(u, "owner", s) /\ on = <<s, u>>
    OBVIOUS
  <2>3. PICK e : e = [name |-> "RemoveOwnerFromService", on |-> on]
    OBVIOUS
  <2>4. e.name = "RemoveOwnerFromService" /\ e.on[1] = s /\ e.on[2] = u
    BY <2>2, <2>3
  <2>5. Removed(e) = l /\ Subject(e) = Services
    BY <2>2, <2>4 DEF Removed, Subject
  <2>6. l \in Relations /\ ~IsKey(l)
    BY <2>2, RelationShape DEF Tuple, IsKey
  <2>7. on[1] \in Subject(e) /\ DOMAIN on = {1, 2} /\ Unlink("RemoveOwnerFromService", l, on)
    BY <2>1, <2>2, <2>5
  <2>8. "RemoveOwnerFromService" \in Removes
    BY DEF Removes
  <2> QED
    BY <1>1, <2>3, <2>5, <2>6, <2>7, <2>8
<1>5. ASSUME NEW event \in {"RemoveIssueRepositoryFromService", "RemoveComponentVersionFromIssue"},
             NEW a, NEW relation \in {"issue_repository", "issue"}, NEW b, NEW on,
             Unlink(event, Tuple(a, relation, b), on)
      PROVE  GrantsInv'
  <2>1. PICK l : l = Tuple(a, relation, b)
    OBVIOUS
  <2>2. l[2] \notin RelationNames
    BY <2>1 DEF Tuple, RelationNames
  <2>3. PICK e : e = [name |-> event, on |-> on]
    OBVIOUS
  <2>4. Calls(e) = 0
    BY <2>3 DEF Calls
  <2>5. Unlink(event, l, on)
    BY <1>5, <2>1
  <2> QED
    BY <2>2, <2>3, <2>4, <2>5, UnlinkKeepsGrants
<1>6. CASE RemoveIssueRepositoryFromServiceMutation
  BY <1>5, <1>6 DEF RemoveIssueRepositoryFromServiceMutation, RemoveIssueRepositoryFromService
<1>7. CASE RemoveComponentVersionFromIssueMutation
  BY <1>5, <1>7 DEF RemoveComponentVersionFromIssueMutation, RemoveComponentVersionFromIssue
<1> QED
  BY <1>2, <1>3, <1>4, <1>6, <1>7 DEF UnlinkMutation

\* The store of Init says what the links it starts with say.
LEMMA InitGrants == Init => GrantsInv
<1> SUFFICES ASSUME Init PROVE GrantsInv
  OBVIOUS
<1>1. /\ tasks = <<>> /\ Len(tasks) = 0 /\ disturbed = {} /\ links = SeedLinks /\ live = DOMAIN Seed
      /\ gone = {} /\ rows = DOMAIN Seed /\ tuples = CreatedTuples(DOMAIN Seed, SeedLinks)
  BY DEF Init, rows
<1>2. LinksTyped
  BY <1>1, SeedRelations DEF LinksTyped, Ends
<1>3. \A t \in tuples : t[1] = Role \/ t \in links
  BY <1>1 DEF CreatedTuples, Tuple
<1>4. \A t \in Relations : t[1] # Role /\ t[2] \in RelationNames
  BY RelationShape, EndsAreObjects, KindsOfObjects DEF RelationNames
<1>5. EventsOK /\ Apart /\ AddsRight /\ DropsReturn /\ KeysAlone
  BY <1>1 DEF EventsOK, Apart, AddsRight, DropsReturn, KeysAlone
<1>6. WrongLeaves
  <2>1. ASSUME NEW t \in Relations, NEW T, t \in tuples
        PROVE  Right(t, T)
    <3>1. t \in links
      BY <1>3, <1>4, <2>1
    <3>2. Ends(t) \subseteq live
      BY <1>1, <1>2, <1>4, <3>1 DEF LinksTyped
    <3> QED
      BY <3>1, <3>2 DEF Right
  <2> QED
    BY <2>1 DEF WrongLeaves
<1>7. MissingComes
  <2>1. ASSUME NEW t \in Relations, Mirrored(t), Right(t, Ends(t))
        PROVE  t \in tuples
    BY <1>1, <2>1 DEF Mirrored, Right, CreatedTuples
  <2> QED
    BY <2>1 DEF MissingComes
<1>8. KeysUnique
  <2>1. ASSUME NEW i \in rows \cap ComponentInstances, NEW l \in links, NEW m \in links,
               IsKey(l), IsKey(m), l[2] = m[2], Instance(l) = i, Instance(m) = i
        PROVE  l = m
    <3>1. l \in Relations /\ m \in Relations
      BY <1>2, <2>1 DEF LinksTyped, IsKey, RelationNames
    <3>2. /\ \A s, z \in Services : {Tuple(s, "related_service", i), Tuple(z, "related_service", i)}
                                      \subseteq links => s = z
          /\ \A v, z \in ComponentVersions : {Tuple(i, "component_instance", v), Tuple(i, "component_instance", z)}
                                               \subseteq links => v = z
      BY <1>1, <2>1, SeedRelations
    <3>3. CASE l[2] = "related_service"
      <4>1. /\ l[1] \in Services /\ l = Tuple(l[1], "related_service", i)
            /\ m[1] \in Services /\ m = Tuple(m[1], "related_service", i)
        BY <2>1, <3>1, <3>3, KeyShape
      <4>2. l[1] = m[1]
        BY <2>1, <3>2, <4>1
      <4> QED
        BY <4>1, <4>2
    <3>4. CASE l[2] # "related_service"
      <4>1. /\ l[3] \in ComponentVersions /\ l = Tuple(i, "component_instance", l[3])
            /\ m[3] \in ComponentVersions /\ m = Tuple(i, "component_instance", m[3])
        BY <2>1, <3>1, <3>4, KeyShape
      <4>2. l[3] = m[3]
        BY <2>1, <3>2, <4>1
      <4> QED
        BY <4>1, <4>2
    <3> QED
      BY <3>3, <3>4
  <2>2. \A i \in rows \cap ComponentInstances : \E s \in Services : Tuple(s, "related_service", i) \in links
    BY <1>1, SeedRelations
  <2> QED
    BY <2>1, <2>2 DEF KeysUnique
<1>9. StoreTyped
  <2>1. ASSUME NEW t \in tuples, t[1] # Role
        PROVE  t \in links /\ t[2] \in RelationNames
    BY <1>1, <2>1 DEF CreatedTuples, Tuple, RelationNames
  <2> QED
    BY <1>2, <2>1 DEF StoreTyped, LinksTyped
<1>10. WasTyped
  BY DEF Init, WasTyped
<1> QED
  BY <1>2, <1>5, <1>6, <1>7, <1>8, <1>9, <1>10 DEF GrantsInv

LEMMA NextKeepsGrants == StoreInv /\ GrantsInv /\ [Next]_vars => GrantsInv'
<1> SUFFICES ASSUME TasksOK, KeysOK, GrantsInv, [Next]_vars
             PROVE  GrantsInv'
  BY DEF StoreInv
<1>1. CASE UNCHANGED vars
  <2>1. UNCHANGED <<live, gone, links, was, tuples, tasks, disturbed>>
    BY <1>1 DEF vars
  <2>2. rows' = rows
    BY <2>1 DEF rows
  <2>3. LinksTyped' /\ KeysUnique' /\ WasTyped'
    BY <2>1, <2>2, RequestKeepsTypes DEF GrantsInv
  <2>4. PICK e : e = [name |-> "UpdateUser", on |-> <<Nobody>>]
    OBVIOUS
  <2>5. ~Pushed(e)
    BY <2>1 DEF TasksOK, Pushed
  <2>6. ASSUME NEW t \in Relations, NEW T
        PROVE  Answered(e, t, T)
    <3>1. Right(t, T) <=> Right(t, T)'
      BY <2>1 DEF Right, Ends
    <3> QED
      BY <2>5, <3>1 DEF Answered
  <2> QED
    BY <2>1, <2>3, <2>5, <2>6, RequestKeepsGrants
<1>2. CASE Mutation
  <2>1. CASE CreateMutation \/ UpdateMutation \/ DeleteMutation \/ LinkMutation \/ UnlinkMutation
    BY <2>1, CreateMutationKeepsGrants, UpdateMutationKeepsGrants, DeleteMutationKeepsGrants,
       LinkMutationKeepsGrants, UnlinkMutationKeepsGrants
  <2>2. CASE UpdateComponentVersionMutation \/ UpdateIssueMatchMutation
    BY <2>2, UpdateComponentVersionKeepsGrants, UpdateIssueMatchKeepsGrants
       DEF UpdateComponentVersionMutation, UpdateIssueMatchMutation
  <2>3. CASE CreateComponentInstanceMutation \/ UpdateComponentInstanceMutation
    BY <2>3, CreateComponentInstanceKeepsGrants, UpdateComponentInstanceKeepsGrants
       DEF CreateComponentInstanceMutation, UpdateComponentInstanceMutation
  <2> QED
    BY <1>2, <2>1, <2>2, <2>3 DEF Mutation, CreateMutation, UpdateMutation, DeleteMutation,
       LinkMutation, UnlinkMutation
<1> QED
  BY <1>1, <1>2, WorkerKeepsGrants, RestartKeepsGrants DEF Next

\* GrantsInv: a tuple between undisturbed objects that the database does not back is ahead of
\* an event that drops it, a link without its tuple is ahead of an event that adds it, and no
\* event in flight undoes what another one settled.
THEOREM GrantsInvariant == Spec => []GrantsInv
BY InitGrants, NextKeepsGrants, StoreInvariant, PTL DEF Spec

\* GrantsSettle: once all events are handled, the tuples between objects whose events did not
\* overlap, get lost or meet an error are the links of the database between live objects.
THEOREM GrantsSettleDown == Spec => []GrantsSettle
<1>1. GrantsInv => GrantsSettle
  <2> SUFFICES ASSUME GrantsInv, tasks = <<>>, NEW t \in tuples \cup links, Calm(t)
               PROVE  /\ t \in tuples => t \in links /\ {t[1], t[3]} \subseteq live
                      /\ Mirrored(t) /\ t \in links /\ {t[1], t[3]} \subseteq live => t \in tuples
    BY DEF GrantsSettle, Settled
  <2>1. Len(tasks) = 0 /\ ~(\E k \in 1..Len(tasks) : TRUE)
    OBVIOUS
  <2>2. PICK T : T = Ends(t)
    OBVIOUS
  <2>3. /\ T \cap disturbed = {} /\ t[1] # Role /\ Nobody \notin Ends(t) /\ Watched(t, T)
    BY <2>2 DEF Calm, Watched, Ends
  <2>4. ASSUME t \in tuples
        PROVE  t \in links /\ {t[1], t[3]} \subseteq live
    <3>1. t \in Relations
      BY <2>3, <2>4 DEF GrantsInv, StoreTyped
    <3>2. Right(t, T)
      BY <2>1, <2>3, <2>4, <3>1 DEF GrantsInv, WrongLeaves
    <3> QED
      BY <2>2, <3>2 DEF Right, Ends
  <2>5. ASSUME Mirrored(t), t \in links, {t[1], t[3]} \subseteq live
        PROVE  t \in tuples
    <3>1. t[2] \in RelationNames
      BY <2>5 DEF Mirrored, RelationNames
    <3>2. t \in Relations
      BY <2>5, <3>1 DEF GrantsInv, LinksTyped
    <3>3. Right(t, Ends(t))
      BY <2>5 DEF Right, Ends
    <3> QED
      BY <2>1, <2>2, <2>3, <2>5, <3>2, <3>3 DEF GrantsInv, MissingComes
  <2> QED
    BY <2>4, <2>5
<1> QED
  BY <1>1, GrantsInvariant, PTL
-----------------------------------------------------------------------------
(* What the lists of a user show.                                          *)

\* The relations the database holds between live objects.
Own == {l \in links : {l[1], l[3]} \subseteq live}

\* CombineFilterWithAccessibleIds: there is always a filter, and it asks for nothing beside
\* what the store allows.
LEMMA ScopeOnly ==
    ASSUME NEW objects, NEW f
    PROVE  Scope(objects, f) # {} /\ Scope(objects, f) \subseteq objects \cup {Nobody}
<1>1. PICK ids : ids = ListAccessibleResources(objects)
  OBVIOUS
<1>2. ids # {} /\ ids \subseteq objects \cup {Nobody}
  BY <1>1 DEF ListAccessibleResources
<1>3. Scope(objects, f) = CombineFilterWithAccessibleIds(f, ids)
  BY <1>1 DEF Scope, GetListOfAccessibleObjectIds
<1> QED
  BY <1>2, <1>3 DEF CombineFilterWithAccessibleIds

\* The relations of the store that can_view follows.
LEMMA ViewRelations ==
    /\ \A u \in Users, g \in SupportGroups : Tuple(u, "member", g) \in Relations
    /\ \A u \in Users, s \in Services : Tuple(u, "owner", s) \in Relations
    /\ \A g \in SupportGroups, s \in Services : Tuple(g, "support_group", s) \in Relations
    /\ \A s \in Services, i \in ComponentInstances : Tuple(s, "related_service", i) \in Relations
    /\ \A i \in ComponentInstances, v \in ComponentVersions : Tuple(i, "component_instance", v) \in Relations
    /\ \A v \in ComponentVersions, c \in Components : Tuple(v, "component_version", c) \in Relations
BY DEF Relations, Tuple

\* can_view grows with the relations of the store.
LEMMA ViewGrows ==
    ASSUME NEW R, NEW Q, R \cap Relations \subseteq Q, NEW u \in Users
    PROVE  /\ MemberOf(R, u) \subseteq MemberOf(Q, u) /\ ServicesOf(R, u) \subseteq ServicesOf(Q, u)
           /\ InstancesOf(R, u) \subseteq InstancesOf(Q, u) /\ ComponentsOf(R, u) \subseteq ComponentsOf(Q, u)
<1>1. MemberOf(R, u) \subseteq MemberOf(Q, u)
  BY ViewRelations DEF MemberOf
<1>2. MemberOf(R, u) \subseteq SupportGroups
  BY DEF MemberOf
<1>3. ServicesOf(R, u) \subseteq ServicesOf(Q, u) /\ ServicesOf(R, u) \subseteq Services
  BY <1>1, <1>2, ViewRelations DEF ServicesOf
<1>4. InstancesOf(R, u) \subseteq InstancesOf(Q, u) /\ InstancesOf(R, u) \subseteq ComponentInstances
  BY <1>3, ViewRelations DEF InstancesOf
<1>5. VersionsOf(R, u) \subseteq VersionsOf(Q, u) /\ VersionsOf(R, u) \subseteq ComponentVersions
  BY <1>4, ViewRelations DEF VersionsOf
<1>6. ComponentsOf(R, u) \subseteq ComponentsOf(Q, u)
  BY <1>5, ViewRelations DEF ComponentsOf
<1> QED
  BY <1>1, <1>3, <1>4, <1>6

\* Who is related in Own is live.
LEMMA OwnIsLive ==
    ASSUME NEW u
    PROVE  /\ MemberOf(Own, u) \subseteq live /\ ServicesOf(Own, u) \subseteq live
           /\ InstancesOf(Own, u) \subseteq live
<1>1. \A a, r, b : Tuple(a, r, b) \in Own => a \in live /\ b \in live
  BY DEF Own, Tuple
<1> QED
  BY <1>1 DEF MemberOf, ServicesOf, InstancesOf

\* ListsOnlyOwn: once all events are handled and none was disturbed, whatever ids a request
\* asks for, the lists of a user show only what the database connects to the user.
THEOREM ListsShowOnlyOwn == Spec => []ListsOnlyOwn
<1>1. GrantsInv => ListsOnlyOwn
  <2> SUFFICES ASSUME GrantsInv, tasks = <<>>, disturbed = {}, NEW u \in live \cap Users
               PROVE  /\ \A f \in {{}} \cup {{g} : g \in SupportGroups} :
                           /\ ListServices(u, f) \subseteq ServicesOf(Own, u)
                           /\ ListSupportGroups(u, f) \subseteq MemberOf(Own, u)
                           /\ \A w \in ListUsers(u, f) : MemberOf(Own, u) \cap MemberOf(Own, w) # {}
                      /\ \A f \in {{}} \cup {{s} : s \in Services} :
                           ListComponentInstances(u, f) \subseteq InstancesOf(Own, u)
                      /\ \A f \in {{}} \cup {{c} : c \in Components} :
                           ListComponents(u, f) \subseteq ComponentsOf(Own, u)
                      /\ \A f \in {{}} \cup {{i} : i \in ComponentInstances} : \A m \in ListIssueMatches(u, f) :
                           \E i \in InstancesOf(Own, u) : Tuple(i, "component_instance", m) \in Own
    BY DEF ListsOnlyOwn, Settled, Own
  <2>1. tuples \cap Relations \subseteq Own
    <3>1. ASSUME NEW t \in tuples, t \in Relations
          PROVE  t \in Own
      <4>1. PICK T : T = Ends(t)
        OBVIOUS
      <4>2. Watched(t, T)
        BY <4>1 DEF Watched
      <4>3. Len(tasks) = 0 /\ ~(\E k \in 1..Len(tasks) : TRUE)
        OBVIOUS
      <4>4. Right(t, T)
        BY <3>1, <4>2, <4>3 DEF GrantsInv, WrongLeaves
      <4> QED
        BY <4>1, <4>4 DEF Right, Own, Ends
    <3> QED
      BY <3>1
  <2>2. /\ MemberOf(tuples, u) \subseteq MemberOf(Own, u) /\ ServicesOf(tuples, u) \subseteq ServicesOf(Own, u)
        /\ InstancesOf(tuples, u) \subseteq InstancesOf(Own, u)
        /\ ComponentsOf(tuples, u) \subseteq ComponentsOf(Own, u)
    BY <2>1, ViewGrows
  <2>3. /\ MemberOf(Own, u) \subseteq live /\ ServicesOf(Own, u) \subseteq live
        /\ InstancesOf(Own, u) \subseteq live
    BY OwnIsLive
  <2>4. \A a, r, b : Tuple(a, r, b) \in links /\ a \in live /\ b \in live => Tuple(a, r, b) \in Own
    BY DEF Own, Tuple
  <2>5. \A b : Tuple(Nobody, "support_group", b) \notin links /\ \A a : Tuple(a, "member", Nobody) \notin links
    <3>1. ASSUME NEW l \in links, l[2] \in RelationNames
          PROVE  l[1] # Nobody /\ l[3] # Nobody
      <4>1. l \in Relations
        BY <3>1 DEF GrantsInv, LinksTyped
      <4> QED
        BY <4>1, EndsAreObjects
    <3> QED
      BY <3>1 DEF Tuple, RelationNames
  <2>6. Nobody \notin SupportGroups /\ Nobody \notin Services /\ Nobody \notin Components /\ Nobody \notin ComponentInstances
    BY KindsOfObjects
  <2>7. ASSUME NEW f
        PROVE  /\ ListServices(u, f) \subseteq ServicesOf(Own, u)
               /\ ListSupportGroups(u, f) \subseteq MemberOf(Own, u)
               /\ \A w \in ListUsers(u, f) : MemberOf(Own, u) \cap MemberOf(Own, w) # {}
    <3>1. PICK ids : ids = Scope(MemberOf(tuples, u), f)
      OBVIOUS
    <3>2. ids # {} /\ \A g \in ids : g = Nobody \/ (g \in MemberOf(Own, u) /\ g \in live /\ g \in SupportGroups)
      <4>1. ids # {} /\ ids \subseteq MemberOf(tuples, u) \cup {Nobody}
        BY <3>1, ScopeOnly
      <4> QED
        BY <2>2, <2>3, <4>1 DEF MemberOf
    <3>3. ASSUME NEW s \in ListServices(u, f)
          PROVE  s \in ServicesOf(Own, u)
      <4>1. PICK g \in ids : s \in live \cap Services /\ Tuple(g, "support_group", s) \in links
        BY <3>1, <3>2, <3>3 DEF ListServices
      <4>2. g \in MemberOf(Own, u) /\ g \in live
        BY <2>5, <3>2, <4>1
      <4> QED
        BY <2>4, <4>1, <4>2 DEF ServicesOf
    <3>4. ListSupportGroups(u, f) \subseteq MemberOf(Own, u)
      BY <2>6, <3>1, <3>2 DEF ListSupportGroups, Passes
    <3>5. ASSUME NEW w \in ListUsers(u, f)
          PROVE  MemberOf(Own, u) \cap MemberOf(Own, w) # {}
      <4>1. PICK g \in ids : w \in live \cap Users /\ Tuple(w, "member", g) \in links
        BY <3>1, <3>2, <3>5 DEF ListUsers
      <4>2. g \in MemberOf(Own, u) /\ g \in live /\ g \in SupportGroups
        BY <2>5, <3>2, <4>1
      <4>3. g \in MemberOf(Own, w)
        BY <2>4, <4>1, <4>2 DEF MemberOf
      <4> QED
        BY <4>2, <4>3
    <3> QED
      BY <3>3, <3>4, <3>5
  <2>8. ASSUME NEW f, NEW i \in ListComponentInstances(u, f)
        PROVE  i \in InstancesOf(Own, u)
    <3>1. PICK ids, s : ids = Scope(ServicesOf(tuples, u), f) /\ s = ServiceKey(i)
      OBVIOUS
    <3>2. ids # {} /\ ids \subseteq ServicesOf(tuples, u) \cup {Nobody}
      BY <3>1, ScopeOnly
    <3>3. i \in live \cap ComponentInstances /\ s \in ids
      BY <2>8, <3>1, <3>2 DEF ListComponentInstances, Passes
    <3>4. \E z \in Services : Tuple(z, "related_service", i) \in links
      BY <3>3 DEF GrantsInv, KeysUnique, rows
    <3>5. s \in Services /\ Tuple(s, "related_service", i) \in links
      BY <3>1, <3>4 DEF ServiceKey
    <3>6. s \in ServicesOf(Own, u) /\ s \in live
      BY <2>2, <2>3, <2>6, <3>2, <3>3, <3>5
    <3> QED
      BY <2>4, <3>3, <3>5, <3>6 DEF InstancesOf
  <2>9. ASSUME NEW f
        PROVE  ListComponents(u, f) \subseteq ComponentsOf(Own, u)
    <3>1. PICK ids : ids = Scope(ComponentsOf(tuples, u), f)
      OBVIOUS
    <3>2. ids # {} /\ ids \subseteq ComponentsOf(tuples, u) \cup {Nobody}
      BY <3>1, ScopeOnly
    <3> QED
      BY <2>2, <2>6, <3>1, <3>2 DEF ListComponents, Passes
  <2>10. ASSUME NEW f, NEW m \in ListIssueMatches(u, f)
         PROVE  \E i \in InstancesOf(Own, u) : Tuple(i, "component_instance", m) \in Own
    <3>1. PICK ids : ids = Scope(InstancesOf(tuples, u), f)
      OBVIOUS
    <3>2. ids # {} /\ ids \subseteq InstancesOf(tuples, u) \cup {Nobody}
      BY <3>1, ScopeOnly
    <3>3. PICK i \in ComponentInstances :
            m \in live /\ Tuple(i, "component_instance", m) \in links /\ i \in ids
      BY <2>10, <3>1, <3>2 DEF ListIssueMatches, Passes
    <3>4. i \in InstancesOf(Own, u) /\ i \in live
      BY <2>2, <2>3, <2>6, <3>2, <3>3
    <3> QED
      BY <2>4, <3>3, <3>4
  <2> QED
    BY <2>7, <2>8, <2>9, <2>10
<1> QED
  BY <1>1, GrantsInvariant, PTL
=============================================================================
