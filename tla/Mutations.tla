----------------------------- MODULE Mutations -----------------------------
(***************************************************************************)
(* The mutations of the GraphQL API (graph/resolver/mutation.go) over the  *)
(* catalogue: each parses the ids of its input (an id that does not parse  *)
(* changes nothing), converts the input to an entity, calls the handler of *)
(* the application and answers with the result or a masked error.  The     *)
(* inputs are chosen from all ids and names.                               *)
(***************************************************************************)
EXTENDS Catalogue

CreateUserMutation == \E u \in Users, n \in Names : CreateUser(u, n)
UpdateUserMutation == \E u \in Users, n \in Names : UpdateUser(u, n)
DeleteUserMutation == \E u \in Users : DeleteUser(u)

CreateSupportGroupMutation == \E g \in SupportGroups, n \in Names : CreateSupportGroup(g, n)
UpdateSupportGroupMutation == \E g \in SupportGroups, n \in Names : UpdateSupportGroup(g, n)
DeleteSupportGroupMutation == \E g \in SupportGroups : DeleteSupportGroup(g)

CreateComponentMutation == \E c \in Components, n \in Names : CreateComponent(c, n)
UpdateComponentMutation == \E c \in Components, n \in Names : UpdateComponent(c, n)
DeleteComponentMutation == \E c \in Components : DeleteComponent(c)

CreateServiceMutation == \E s \in Services, n \in Names : CreateService(s, n)
UpdateServiceMutation == \E s \in Services, n \in Names : UpdateService(s, n)
DeleteServiceMutation == \E s \in Services : DeleteService(s)

CreateIssueRepositoryMutation == \E r \in IssueRepositories, n \in Names : CreateIssueRepository(r, n)
UpdateIssueRepositoryMutation == \E r \in IssueRepositories, n \in Names : UpdateIssueRepository(r, n)
DeleteIssueRepositoryMutation == \E r \in IssueRepositories : DeleteIssueRepository(r)

CreateIssueMutation == \E x \in Issues, n \in Names : CreateIssue(x, n)
UpdateIssueMutation == \E x \in Issues, n \in Names : UpdateIssue(x, n)
DeleteIssueMutation == \E x \in Issues : DeleteIssue(x)

CreateIssueVariantMutation == 
  \E w \in IssueVariants, n \in Names, x \in Issues, r \in IssueRepositories :
    CreateIssueVariant(w, n, x, r)
UpdateIssueVariantMutation == \E w \in IssueVariants, n \in Names : UpdateIssueVariant(w, n)
DeleteIssueVariantMutation == \E w \in IssueVariants : DeleteIssueVariant(w)

CreateComponentVersionMutation == 
  \E v \in ComponentVersions, n \in Names, c \in Components : CreateComponentVersion(v, n, c)
UpdateComponentVersionMutation == 
  \E v \in ComponentVersions, c \in Components \cup {Nobody}, found \in BOOLEAN :
    UpdateComponentVersion(v, c, found)
DeleteComponentVersionMutation == \E v \in ComponentVersions : DeleteComponentVersion(v)

CreateComponentInstanceMutation == 
  \E i \in ComponentInstances, n \in Names, s \in Services, v \in ComponentVersions \cup {Nobody} :
    CreateComponentInstance(i, n, s, v)
UpdateComponentInstanceMutation == 
  \E i \in ComponentInstances, s \in Services \cup {Nobody}, v \in ComponentVersions \cup {Nobody},
     found \in BOOLEAN : UpdateComponentInstance(i, s, v, found)
DeleteComponentInstanceMutation == \E i \in ComponentInstances : DeleteComponentInstance(i)

CreateIssueMatchMutation == 
  \E m \in IssueMatches, i \in ComponentInstances, x \in Issues : CreateIssueMatch(m, i, x)
UpdateIssueMatchMutation == 
  \E m \in IssueMatches, i \in ComponentInstances \cup {Nobody} : UpdateIssueMatch(m, i)
DeleteIssueMatchMutation == \E m \in IssueMatches : DeleteIssueMatch(m)

AddServiceToSupportGroupMutation == 
  \E g \in SupportGroups, s \in Services : AddServiceToSupportGroup(g, s)
RemoveServiceFromSupportGroupMutation == 
  \E g \in SupportGroups, s \in Services : RemoveServiceFromSupportGroup(g, s)
AddUserToSupportGroupMutation == 
  \E g \in SupportGroups, u \in Users : AddUserToSupportGroup(g, u)
RemoveUserFromSupportGroupMutation == 
  \E g \in SupportGroups, u \in Users : RemoveUserFromSupportGroup(g, u)
AddOwnerToServiceMutation == 
  \E s \in Services, u \in Users : AddOwnerToService(s, u)
RemoveOwnerFromServiceMutation == 
  \E s \in Services, u \in Users : RemoveOwnerFromService(s, u)
AddIssueRepositoryToServiceMutation == 
  \E s \in Services, r \in IssueRepositories : AddIssueRepositoryToService(s, r)
RemoveIssueRepositoryFromServiceMutation == 
  \E s \in Services, r \in IssueRepositories : RemoveIssueRepositoryFromService(s, r)
AddComponentVersionToIssueMutation == 
  \E x \in Issues, v \in ComponentVersions : AddComponentVersionToIssue(x, v)
RemoveComponentVersionFromIssueMutation == 
  \E x \in Issues, v \in ComponentVersions : RemoveComponentVersionFromIssue(x, v)

Mutation ==
  \/ CreateUserMutation
  \/ UpdateUserMutation
  \/ DeleteUserMutation
  \/ CreateSupportGroupMutation
  \/ UpdateSupportGroupMutation
  \/ DeleteSupportGroupMutation
  \/ CreateComponentMutation
  \/ UpdateComponentMutation
  \/ DeleteComponentMutation
  \/ CreateServiceMutation
  \/ UpdateServiceMutation
  \/ DeleteServiceMutation
  \/ CreateIssueRepositoryMutation
  \/ UpdateIssueRepositoryMutation
  \/ DeleteIssueRepositoryMutation
  \/ CreateIssueMutation
  \/ UpdateIssueMutation
  \/ DeleteIssueMutation
  \/ CreateIssueVariantMutation
  \/ UpdateIssueVariantMutation
  \/ DeleteIssueVariantMutation
  \/ CreateComponentVersionMutation
  \/ UpdateComponentVersionMutation
  \/ DeleteComponentVersionMutation
  \/ CreateComponentInstanceMutation
  \/ UpdateComponentInstanceMutation
  \/ DeleteComponentInstanceMutation
  \/ CreateIssueMatchMutation
  \/ UpdateIssueMatchMutation
  \/ DeleteIssueMatchMutation
  \/ AddServiceToSupportGroupMutation
  \/ RemoveServiceFromSupportGroupMutation
  \/ AddUserToSupportGroupMutation
  \/ RemoveUserFromSupportGroupMutation
  \/ AddOwnerToServiceMutation
  \/ RemoveOwnerFromServiceMutation
  \/ AddIssueRepositoryToServiceMutation
  \/ RemoveIssueRepositoryFromServiceMutation
  \/ AddComponentVersionToIssueMutation
  \/ RemoveComponentVersionFromIssueMutation

Worker == \E k \in DOMAIN tasks : HandleEvent(k) \/ CutRead(k) \/ HandlerFails(k)

Next == Mutation \/ Worker \/ Restart \/ (Settled /\ ops = MaxOps /\ UNCHANGED vars)

Spec == Init /\ [][Next]_vars
=============================================================================
