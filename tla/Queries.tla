------------------------------ MODULE Queries ------------------------------
(***************************************************************************)
(* From a query of the API to SQL: a base resolver turns its arguments     *)
(* into a filter, the list handler of the application adds the scope of    *)
(* the caller and runs up to three statements over the same filter (the    *)
(* page, all cursors, a count), and the generic database object builds     *)
(* each statement from its filter properties and its join definitions,     *)
(* which depend on each other and on what the filter and the order ask     *)
(* for.  A filter is the set of its non-empty fields, as far as they need  *)
(* more than the table of the entity itself; By... fields stand for the    *)
(* order.                                                                  *)
(***************************************************************************)
EXTENDS Naturals, Sequences, SequencesExt

CONSTANT Gaps  \* combinations of arguments, among KnownGaps, that the code has no table for

KnownGaps == {"SupportGroupOfImage", "CombinedCounts"}
ASSUME GapsAssumption == Gaps \subseteq KnownGaps

VARIABLES request,    \* the query being answered, or NoRequest
          pc,         \* the next statement of the handler
          statements  \* the statements built so far

vars == <<request, pc, statements>>

NoRequest == [entity |-> "none", filter |-> {}, options |-> {}, parent |-> "Query", id |-> {}]

-----------------------------------------------------------------------------
(* Join definitions.  A join that selects rows is an inner or a right one. *)

JoinDef(name, table, alias, on, deps, selects, when) ==
  [name |-> name, table |-> table, alias |-> alias, on |-> on, deps |-> deps,
   selects |-> selects, when |-> when]
LeftJoin(name, alias, on, deps, when) == JoinDef(name, alias, alias, on, deps, FALSE, when)
InnerJoin(name, alias, on, deps, when) == JoinDef(name, alias, alias, on, deps, TRUE, when)
DependentJoin == FALSE

componentJoins(f) ==
  LET mv      == "UseMvComponentService" \in f
      service == "ServiceCCRN" \in f
      counts  == "ByCount" \in f /\ service
  IN << LeftJoin("CV", "CV", {"C"}, <<>>, "ComponentVersionId" \in f),
        LeftJoin("CI", "CI", {"CV"}, <<"CV">>, DependentJoin),
        LeftJoin("S", "S", {"CI"}, <<"CI">>, ~mv /\ service),
        LeftJoin("mvSCBSVC", "CVR", {"C", "S"}, <<"S">>, ~mv /\ counts),
        JoinDef("mvACBSVC", "mvACBSVC", "CVR", {"S"}, <<"S">>, FALSE, FALSE),
        InnerJoin("MCS", "MCS", {"C"}, <<>>, mv /\ service),
        InnerJoin("S via MCS", "S", {"MCS"}, <<"MCS">>, mv /\ service),
        LeftJoin("mvSCBSVC via MCS", "CVR", {"C", "MCS"}, <<"MCS">>, mv /\ counts) >>

componentInstanceJoins(f) ==
  << InnerJoin("IM", "IM", {"CI"}, <<>>, "IssueMatchId" \in f),
     InnerJoin("S", "S", {"CI"}, <<>>, "ServiceCcrn" \in f),
     InnerJoin("CV", "CV", {"CI"}, <<>>, "ComponentVersionVersion" \in f) >>

componentVersionJoins(f) ==
  << LeftJoin("CVI", "CVI", {"CV"}, <<>>, "IssueId" \in f),
     LeftJoin("IV", "IV", {"CVI"}, <<"CVI">>, {"ByCount", "IssueRepositoryId"} \cap f # {}),
     LeftJoin("C", "C", {"CV"}, <<>>, "ComponentCCRN" \in f),
     LeftJoin("CI", "CI", {"CV"}, <<>>, "ServiceId" \in f),
     LeftJoin("S", "S", {"CI"}, <<"CI">>, "ServiceCCRN" \in f) >>

issueJoins(f) ==
  LET mv        == "UseMvVulnerabilityList" \in f
      matches   == "HasIssueMatches" \in f
      all       == "AllServices" \in f
      ccrn      == "ServiceCCRN" \in f
      group     == "SupportGroupCCRN" \in f
      service   == {"ServiceCCRN", "ServiceId"} \cap f # {}
      component == "ComponentId" \in f
      status    == "Status" \in f
  IN << JoinDef("IM_RJ", "IM", "IM", {"I"}, <<>>, TRUE, matches),
        LeftJoin("IM_LJ", "IM", {"I"}, <<>>,
                 {"IssueMatchStatus", "IssueMatchId", "IssueMatchSeverity"} \cap f # {}),
        LeftJoin("CI with IM_RJ", "CI", {"IM"}, <<"IM_RJ">>, DependentJoin),
        LeftJoin("CI with IM_LJ", "CI", {"IM"}, <<"IM_LJ">>, "ServiceId" \in f /\ ~mv),
        LeftJoin("CV with IM_RJ", "CV", {"CI"}, <<"CI with IM_RJ">>, all),
        LeftJoin("CV with IM_LJ", "CV", {"CI"}, <<"CI with IM_LJ">>, ccrn /\ ~mv /\ ~matches),
        LeftJoin("S with IM_RJ", "S", {"CI"}, <<"CI with IM_RJ">>, (matches /\ ccrn) \/ all),
        LeftJoin("S with IM_LJ", "S", {"CI"}, <<"CI with IM_LJ">>, ccrn /\ ~mv /\ ~matches),
        LeftJoin("SGS", "SGS", {"CI"}, <<"CI with IM_LJ">>, DependentJoin),
        LeftJoin("SG", "SG", {"SGS"}, <<"SGS">>, group /\ ~mv),
        LeftJoin("IV", "IV", {"I"}, <<>>,
                 {"IssueVariantId", "IssueRepositoryId", "Search", "ByRating"} \cap f # {}),
        LeftJoin("CVI", "CVI", {"I"}, <<>>, {"ComponentVersionId", "ComponentId"} \cap f # {}),
        LeftJoin("CV using CVI", "CV", {"CVI"}, <<"CVI">>,
                 component /\ (~ccrn \/ matches) /\ ~group /\ ~all),
        LeftJoin("R has S and C", "R", {"I", "CI", "CV"}, <<"CI with IM_LJ", "CV using CVI">>,
                 status /\ service /\ component),
        LeftJoin("R has S", "R", {"I", "CI"}, <<"CI with IM_LJ">>, status /\ service /\ ~component),
        LeftJoin("R has C", "R", {"I", "CV"}, <<"CV using CVI">>, status /\ ~service /\ component),
        LeftJoin("R", "R", {"I"}, <<>>, status /\ ~service /\ ~component),
        InnerJoin("MVL", "MVL", {"I"}, <<>>, mv),
        InnerJoin("MVS", "MVS", {"I"}, <<"MVL">>, mv /\ (service \/ group)),
        InnerJoin("S with MVS", "S", {"MVS"}, <<"MVS">>, mv /\ ccrn),
        InnerJoin("SGS with MVS", "SGS", {"MVS"}, <<"MVS">>, mv /\ group),
        InnerJoin("SG with MVS", "SG", {"SGS"}, <<"SGS with MVS">>, mv /\ group) >>

issueMatchJoins(f) ==
  << LeftJoin("I", "I", {"IM"}, <<>>, {"IssueType", "PrimaryName", "ByIssuePrimaryName"} \cap f # {}),
     LeftJoin("IV", "IV", {"I"}, <<"I">>, "Search" \in f),
     LeftJoin("CI", "CI", {"IM"}, <<>>, {"ByCiCcrn", "ServiceId"} \cap f # {}),
     LeftJoin("CV", "CV", {"CI"}, <<"CI">>, DependentJoin),
     LeftJoin("C", "C", {"CV"}, <<"CV">>, "ComponentCCRN" \in f),
     LeftJoin("S", "S", {"CI"}, <<"CI">>, "ServiceCCRN" \in f),
     LeftJoin("SGS", "SGS", {"S"}, <<"S">>, DependentJoin),
     LeftJoin("SG", "SG", {"SGS"}, <<"SGS">>, "SupportGroupCCRN" \in f),
     LeftJoin("O", "O", {"CI"}, <<"CI">>, DependentJoin),
     LeftJoin("U", "U", {"O"}, <<"O">>, "ServiceOwner" \in f) >>

issueRepositoryJoins(f) ==
  << LeftJoin("IRS", "IRS", {"IR"}, <<>>, "ServiceId" \in f),
     LeftJoin("S", "S", {"IRS"}, <<"IRS">>, "ServiceCCRN" \in f) >>

issueVariantJoins(f) ==
  << InnerJoin("IR", "IR", {"IV"}, <<>>, DependentJoin),
     InnerJoin("IRS", "IRS", {"IR"}, <<"IR">>, "ServiceId" \in f),
     InnerJoin("I", "I", {"IV"}, <<>>, "IssueId" \in f),
     InnerJoin("IM", "IM", {"I"}, <<"I">>, "IssueMatchId" \in f) >>

\* Mutant of serviceJoins.
serviceJoinsInnerCounts(f) ==
  << LeftJoin("O", "O", {"S"}, <<>>, "OwnerId" \in f),
     LeftJoin("U", "U", {"O"}, <<"O">>, "OwnerName" \in f),
     LeftJoin("SGS", "SGS", {"S"}, <<>>, "SupportGroupId" \in f),
     LeftJoin("SG", "SG", {"SGS"}, <<"SGS">>, "SupportGroupCCRN" \in f),
     LeftJoin("CI", "CI", {"S"}, <<>>, "ComponentInstanceId" \in f),
     LeftJoin("IM", "IM", {"CI"}, <<"CI">>, "IssueId" \in f),
     LeftJoin("IRS", "IRS", {"S"}, <<>>, "IssueRepositoryId" \in f),
     InnerJoin("SIC", "SIC", {"S"}, <<>>, "ByCount" \in f) >>
serviceJoins(f) ==
  << LeftJoin("O", "O", {"S"}, <<>>, "OwnerId" \in f),
     LeftJoin("U", "U", {"O"}, <<"O">>, "OwnerName" \in f),
     LeftJoin("SGS", "SGS", {"S"}, <<>>, "SupportGroupId" \in f),
     LeftJoin("SG", "SG", {"SGS"}, <<"SGS">>, "SupportGroupCCRN" \in f),
     LeftJoin("CI", "CI", {"S"}, <<>>, "ComponentInstanceId" \in f),
     LeftJoin("IM", "IM", {"CI"}, <<"CI">>, "IssueId" \in f),
     LeftJoin("IRS", "IRS", {"S"}, <<>>, "IssueRepositoryId" \in f),
     LeftJoin("SIC", "SIC", {"S"}, <<>>, "ByCount" \in f) >>

\* ForceFrom: the rows start from the component instance.
serviceIssueVariantJoins ==
  << InnerJoin("CV", "CV", {"CI"}, <<>>, TRUE),
     InnerJoin("CVI", "CVI", {"CV"}, <<"CV">>, TRUE),
     InnerJoin("I", "I", {"CVI"}, <<"CVI">>, TRUE),
     InnerJoin("S", "S", {"CI"}, <<>>, TRUE),
     InnerJoin("IRS", "IRS", {"S"}, <<"S">>, TRUE),
     InnerJoin("IR", "IR", {"IRS"}, <<"IRS">>, TRUE),
     InnerJoin("IV", "IV", {"I", "IR"}, <<"I", "IR">>, TRUE) >>

supportGroupJoins(f) ==
  << InnerJoin("SGS", "SGS", {"SG"}, <<>>, "ServiceId" \in f),
     InnerJoin("CI", "CI", {"SGS"}, <<"SGS">>, DependentJoin),
     InnerJoin("IM", "IM", {"CI"}, <<"CI">>, "IssueId" \in f),
     InnerJoin("SGU", "SGU", {"SG"}, <<>>, "UserId" \in f) >>

userJoins(f) ==
  << LeftJoin("SGU", "SGU", {"U"}, <<>>, "SupportGroupId" \in f),
     LeftJoin("O", "O", {"U"}, <<>>, "ServiceId" \in f) >>

JoinDefs(entity, f) ==
  CASE entity = "component" -> componentJoins(f)
    [] entity = "componentInstance" -> componentInstanceJoins(f)
    [] entity = "componentVersion" -> componentVersionJoins(f)
    [] entity = "issue" -> issueJoins(f)
    [] entity = "issueMatch" -> issueMatchJoins(f)
    [] entity = "issueRepository" -> issueRepositoryJoins(f)
    [] entity = "issueVariant" -> issueVariantJoins(f)
    [] entity = "service" -> serviceJoins(f)
    [] entity = "serviceIssueVariant" -> serviceIssueVariantJoins
    [] entity = "supportGroup" -> supportGroupJoins(f)
    [] entity = "user" -> userJoins(f)
    [] OTHER -> <<>>

TableKey == [component |-> "C", componentInstance |-> "CI", componentVersion |-> "CV",
             issue |-> "I", issueMatch |-> "IM", issueRepository |-> "IR", issueVariant |-> "IV",
             service |-> "S", serviceIssueVariant |-> "CI", supportGroup |-> "SG", user |-> "U",
             patch |-> "P", remediation |-> "R"]

-----------------------------------------------------------------------------
(* Filter properties and extra columns: the aliases each field mentions,   *)
(* where they are not the table of the entity itself.                      *)

componentColumns == [ComponentVersionId |-> {"CV"}, ServiceCCRN |-> {"S"}, ByCount |-> {"CVR"}]
componentInstanceColumns ==
  [IssueMatchId |-> {"IM"}, ServiceCcrn |-> {"S"}, ComponentVersionVersion |-> {"CV"}]
componentVersionColumns ==
  [IssueId |-> {"CVI"}, ComponentCCRN |-> {"C"}, ServiceCCRN |-> {"S"}, ServiceId |-> {"CI"},
   IssueRepositoryId |-> {"IV"}, ByCount |-> {"IV"}]
issueColumns(f) ==
  [ServiceCCRN |-> {"S"}, ServiceId |-> {"CI"}, SupportGroupCCRN |-> {"SG"},
   IssueMatchStatus |-> {"IM"}, IssueMatchSeverity |-> {"IM"}, IssueMatchId |-> {"IM"},
   HasIssueMatches |-> {"IM"}, MvSeverity |-> {"MVL"}, Status |-> {"R"}, Search |-> {"IV"},
   ComponentVersionId |-> {"CVI"}, ComponentId |-> {"CV"}, IssueVariantId |-> {"IV"},
   IssueRepositoryId |-> {"IV"}, ByRating |-> {"IV"},
   ByDate |-> IF "UseMvVulnerabilityList" \in f THEN {"MVL"} ELSE {"IM"}]
issueMatchColumns ==
  [ServiceCCRN |-> {"S"}, ServiceId |-> {"CI"}, SupportGroupCCRN |-> {"SG"}, PrimaryName |-> {"I"},
   IssueType |-> {"I"}, ComponentCCRN |-> {"C"}, ServiceOwner |-> {"U"}, Search |-> {"I", "IV"},
   ByIssuePrimaryName |-> {"I"}, ByCiCcrn |-> {"CI"}]
issueRepositoryColumns == [ServiceId |-> {"IRS"}, ServiceCCRN |-> {"S"}]
issueVariantColumns == [ServiceId |-> {"IRS"}, IssueMatchId |-> {"IM"}]
serviceColumns ==
  [SupportGroupCCRN |-> {"SG"}, OwnerName |-> {"U"}, IssueId |-> {"IM"}, OwnerId |-> {"O"},
   ComponentInstanceId |-> {"CI"}, IssueRepositoryId |-> {"IRS"}, SupportGroupId |-> {"SGS"},
   ByCount |-> {"SIC"}]
serviceIssueVariantColumns == [IssueId |-> {"I"}, State |-> {"IV"}]
supportGroupColumns == [ServiceId |-> {"SGS"}, UserId |-> {"SGU"}, IssueId |-> {"IM"}]
userColumns == [SupportGroupId |-> {"SGU"}, ServiceId |-> {"O"}]

FilterProperties(entity, f) ==
  CASE entity = "component" -> componentColumns
    [] entity = "componentInstance" -> componentInstanceColumns
    [] entity = "componentVersion" -> componentVersionColumns
    [] entity = "issue" -> issueColumns(f)
    [] entity = "issueMatch" -> issueMatchColumns
    [] entity = "issueRepository" -> issueRepositoryColumns
    [] entity = "issueVariant" -> issueVariantColumns
    [] entity = "service" -> serviceColumns
    [] entity = "serviceIssueVariant" -> serviceIssueVariantColumns
    [] entity = "supportGroup" -> supportGroupColumns
    [] entity = "user" -> userColumns
    [] OTHER -> <<>>

\* AddFilter and the extra columns of the order: the aliases a statement mentions.
AddFilter(entity, f) ==
  LET properties == FilterProperties(entity, f)
  IN UNION {properties[p] : p \in DOMAIN properties \cap f}

-----------------------------------------------------------------------------
(* JoinResolver and the statements of a database object.                   *)

DefOf(defs, name) == CHOOSE d \in Range(defs) : d.name = name
NamesIn(order) == Range(order)

\* Mutant of Require.
RECURSIVE RequireDependenciesLast(_, _, _)
RequireDependenciesLast(defs, name, order) ==
  IF name \in NamesIn(order) THEN order
  ELSE FoldLeft(LAMBDA acc, dep : RequireDependenciesLast(defs, dep, acc),
                Append(order, name), DefOf(defs, name).deps)

\* Dependencies first, each join once.
RECURSIVE Require(_, _, _)
Require(defs, name, order) ==
  IF name \in NamesIn(order) THEN order
  ELSE Append(FoldLeft(LAMBDA acc, dep : Require(defs, dep, acc), order, DefOf(defs, name).deps),
              name)

\* A table that two joins bring in is joined by the first of them only.
Distinct(defs, order) ==
  FoldLeft(LAMBDA acc, name :
             IF \E j \in Range(acc) : j.table = DefOf(defs, name).table THEN acc
             ELSE Append(acc, DefOf(defs, name)),
           <<>>, order)

Build(defs, forced) ==
  LET first == FoldLeft(LAMBDA acc, name : Require(defs, name, acc), <<>>, forced)
      order == FoldLeft(LAMBDA acc, d : IF d.when THEN Require(defs, d.name, acc) ELSE acc,
                        first, defs)
  IN Distinct(defs, order)

OrderFields == {"ByCount", "ByRating", "ByDate", "ByIssuePrimaryName", "ByCiCcrn"}
Unordered(f) == f \ OrderFields

\* The joins of a statement are kept without the flags that selected them.
BuildQuery(entity, f, forced, columns) ==
  LET joins == Build(JoinDefs(entity, f), forced)
  IN [filter |-> Unordered(f),
      from   |-> {TableKey[entity]},
      joins  |-> [i \in DOMAIN joins |-> [alias |-> joins[i].alias, on |-> joins[i].on,
                                          selects |-> joins[i].selects]],
      uses   |-> AddFilter(entity, f) \cup columns]

Get(entity, f) == <<BuildQuery(entity, f, <<>>, {})>>
GetAllCursors(entity, f) == <<BuildQuery(entity, f, <<>>, {})>>
Count(entity, f) == <<BuildQuery(entity, Unordered(f), <<>>, {})>>
CountIssueTypes(f) == <<BuildQuery("issue", Unordered(f), <<>>, {})>>
GetAttr(entity, f) == <<BuildQuery(entity, Unordered(f), <<>>, {})>>

\* One common table expression per aggregation, each with its own forced joins.
GetIssuesWithAggregations(f) ==
  << BuildQuery("issue", f, <<"S with IM_LJ", "CV with IM_LJ", "CVI">>, {"IM", "S", "CVI"}),
     BuildQuery("issue", f, <<"CI with IM_LJ">>, {"CI"}) >>
GetServicesWithAggregations(f) ==
  << BuildQuery("service", f, <<"IM">>, {"IM"}),
     BuildQuery("service", f, <<"CI">>, {"CI"}) >>
GetWithAggregations(entity, f) ==
  IF entity = "issue" THEN GetIssuesWithAggregations(f) ELSE GetServicesWithAggregations(f)

\* Severity counts are read from materialised views, one per combination of arguments.
getCountTable(f) ==
  CASE {"AllServices", "Unique"} \subseteq f -> "UniqueService"
    [] "AllServices" \in f /\ "SupportGroupCCRN" \in f -> "Service"
    [] "AllServices" \in f -> "ServiceWithoutSupportGroup"
    [] "SupportGroupCCRN" \in f /\ {"ServiceCCRN", "ServiceId"} \cap f = {} -> "SupportGroup"
    [] "ComponentVersionId" \in f -> "ComponentVersion"
    [] {"ServiceCCRN", "ServiceId"} \cap f # {} -> "ServiceId"
    [] OTHER -> "Other"
mvCountIssueRatings ==
  [UniqueService |-> {}, Service |-> {"SupportGroupCCRN"}, ServiceWithoutSupportGroup |-> {},
   SupportGroup |-> {"SupportGroupCCRN"}, ServiceId |-> {"ServiceId", "ServiceCCRN"}, Other |-> {},
   ComponentVersion |-> {"ComponentVersionId", "ServiceId", "ServiceCCRN"}]

CountIssueRatings(f) ==
  LET service == {"ServiceId", "ServiceCCRN"} \cap f
  IN << [filter |-> f, from |-> mvCountIssueRatings[getCountTable(f)], joins |-> <<>>,
         uses |-> service \cup (f \cap {"ComponentVersionId"})
                  \cup (IF service = {} THEN f \cap {"SupportGroupCCRN"} ELSE {})] >>

CountComponentVulnerabilities(f) ==
  << [filter |-> f, from |-> {"CVR"} \cup (IF "Id" \in f THEN {"CVR.component_id"} ELSE {}),
      joins |-> IF "ServiceCCRN" \in f
                THEN <<[alias |-> "S", on |-> {"CVR"}, selects |-> TRUE]>> ELSE <<>>,
      uses |-> (IF "ServiceCCRN" \in f THEN {"S"} ELSE {})
               \cup (IF "Id" \in f THEN {"CVR.component_id"} ELSE {})] >>

-----------------------------------------------------------------------------
(* The list handlers: which scope they add and which statements they run.  *)

ListOptions == SUBSET {"ShowPageInfo", "ShowTotalCount"}
ListOptionsWithAggregations == SUBSET {"ShowPageInfo", "ShowTotalCount", "IncludeAggregations"}

Query(entity, f, options) == [entity |-> entity, filter |-> f, options |-> options]

ListServices(f, options) == Query("service", f \cup {"SupportGroupId"}, options)
ListComponents(f, options) == Query("component", f \cup {"Id"}, options)
ListComponentVersions(f, options) == Query("componentVersion", f \cup {"ComponentId"}, options)
ListComponentInstances(f, options) == Query("componentInstance", f \cup {"ServiceId"}, options)
ListIssueMatches(f, options) == Query("issueMatch", f \cup {"ComponentInstanceId"}, options)
ListSupportGroups(f, options) == Query("supportGroup", f \cup {"Id"}, options)
ListUsers(f, options) == Query("user", f \cup {"SupportGroupId"}, options)
ListIssues(f, options) == Query("issue", f, options)
ListIssueVariants(f, options) == Query("issueVariant", f, options)
ListEffectiveIssueVariants(f, options) == Query("issueVariant", f, options)
ListIssueRepositories(f, options) == Query("issueRepository", f, options)
ListPatches(f, options) == Query("patch", f, options)
ListRemediations(f, options) == Query("remediation", f, options)

\* The statement a handler runs at each point, and where it goes from there.
StatementsAt(point, r) ==
  CASE point = "page" -> IF "IncludeAggregations" \in r.options
                         THEN GetWithAggregations(r.entity, r.filter)
                         ELSE Get(r.entity, r.filter)
    [] point = "cursors" -> GetAllCursors(r.entity, r.filter)
    [] point = "count" -> IF r.entity = "issue" THEN CountIssueTypes(r.filter)
                          ELSE Count(r.entity, r.filter)
    [] point = "attr" -> GetAttr(r.entity, r.filter)
    [] point = "ratings" -> IF r.entity = "issue" THEN CountIssueRatings(r.filter)
                            ELSE CountComponentVulnerabilities(r.filter)

\* An empty page has no page information; issues are counted by type as well.
NextPoint(point, r, rows) ==
  CASE point = "page" /\ "ShowPageInfo" \in r.options /\ rows -> "cursors"
    [] point = "page" /\ r.entity # "issue"
         /\ "ShowPageInfo" \notin r.options /\ "ShowTotalCount" \in r.options -> "count"
    [] point = "page" /\ r.entity = "issue" /\ r.options \ {"IncludeAggregations"} # {} -> "count"
    [] point = "cursors" /\ r.entity = "issue" -> "count"
    [] OTHER -> "done"

Init == request = NoRequest /\ pc = "idle" /\ statements = <<>>

Receive(parent, id, r, point) ==
  /\ pc = "idle"
  /\ request' = [entity |-> r.entity, filter |-> r.filter \cup id, options |-> r.options,
                 parent |-> parent, id |-> id]
  /\ pc' = point
  /\ UNCHANGED statements

\* The handler runs its next statement; an error of the database ends the request.
RunStatement ==
  /\ pc \in {"page", "cursors", "count", "attr", "ratings"}
  /\ statements' = statements \o StatementsAt(pc, request)
  /\ \/ \E rows \in BOOLEAN : pc' = NextPoint(pc, request, rows)
     \/ pc' = "done"
  /\ UNCHANGED request

Answer ==
  /\ pc = "done"
  /\ request' = NoRequest
  /\ pc' = "idle"
  /\ statements' = <<>>

-----------------------------------------------------------------------------
(* The resolvers of the nodes: which lists and counts are fields of which  *)
(* node, and under which name the node is handed down as the parent.       *)

Field(child, as) == [child |-> child, as |-> as]
Named(as, children) == {Field(child, as) : child \in children}

queryResolver ==
  {"Issue", "IssueMatch", "Service", "Component", "ComponentVersion", "ComponentInstance",
   "IssueVariant", "IssueRepository", "SupportGroup", "User", "IssueCounts", "Vulnerability",
   "Image", "ImageVersion", "Remediation", "Patch"}
componentResolver == Named("Component", {"ComponentVersion"})
componentInstanceResolver == Named("ComponentInstance", {"IssueMatch"})
componentVersionResolver == Named("ComponentVersion", {"Issue", "ComponentInstance", "IssueCounts"})
imageResolver == Named("Image", {"ComponentVersion", "ComponentIssueCounts", "Vulnerability"})
\* Mutant of imageVersionResolver.
imageVersionResolverOwnName ==
  Named("ImageVersion", {"ComponentInstance", "Vulnerability", "IssueCounts"})
imageVersionResolver ==
  Named("ComponentVersion", {"ComponentInstance"})
    \cup Named("ImageVersion", {"Vulnerability", "IssueCounts"})
issueResolver == Named("Issue", {"IssueVariant", "IssueMatch", "ComponentVersion"})
issueMatchResolver == Named("IssueMatch", {"EffectiveIssueVariant"})
issueRepositoryResolver == Named("IssueRepository", {"IssueVariant", "Service"})
serviceResolver ==
  Named("Service", {"User", "SupportGroup", "IssueRepository", "ComponentInstance", "IssueMatch",
                    "Remediation", "IssueCounts"})
supportGroupResolver == Named("SupportGroup", {"User", "Service"})
userResolver == Named("User", {"SupportGroup", "Service"})
vulnerabilityResolver ==
  Named("Vulnerability", {"IssueMatch", "Service", "SupportGroup"}) \cup Named("Issue", {"IssueVariant"})

NodeFields ==
  componentResolver \cup componentInstanceResolver \cup componentVersionResolver
    \cup imageResolver \cup imageVersionResolver \cup issueResolver \cup issueMatchResolver
    \cup issueRepositoryResolver \cup serviceResolver \cup supportGroupResolver
    \cup userResolver \cup vulnerabilityResolver
Parents(child) ==
  {"Query" : q \in queryResolver \cap {child}}
    \cup {field.as : field \in {x \in NodeFields : x.child = child}}

-----------------------------------------------------------------------------
(* The base resolvers: what each makes of its arguments and of the parent  *)
(* it is a field of.                                                       *)

\* The switch over the name of the parent: a name without a case sets no filter.
Switch(cases, parent) == IF parent \in DOMAIN cases THEN {cases[parent]} ELSE {}

List(parent, id, r) == Receive(parent, id, r, "page")
RootList(r) == List("Query", {}, r)
Attribute(entity, f) == Receive("Query", {}, Query(entity, f, {}), "attr")
Ratings(parent, id, entity, f) == Receive(parent, id, Query(entity, f, {}), "ratings")

ServiceBaseResolver ==
  \E parent \in Parents("Service"), o \in ListOptionsWithAggregations,
     f \in SUBSET {"SupportGroupCCRN", "OwnerName", "ByCount"} :
    List(parent, Switch([IssueRepository |-> "IssueRepositoryId", SupportGroup |-> "SupportGroupId",
                         User |-> "OwnerId", Vulnerability |-> "IssueId"], parent),
         ListServices(f, o))

ComponentBaseResolver == \E o \in ListOptions : RootList(ListComponents({}, o))

\* Images of a service are ordered by their vulnerability counts.
ImageBaseResolver ==
  \E f \in {{}, {"ServiceCCRN", "ByCount"}}, o \in ListOptions :
    RootList(ListComponents(f \cup {"UseMvComponentService"}, o))

ComponentVersionBaseResolver ==
  \E parent \in Parents("ComponentVersion"), o \in ListOptions,
     f \in SUBSET {"ComponentCCRN", "ServiceCCRN", "ServiceId", "IssueRepositoryId", "ByCount"} :
    List(parent, Switch([Issue |-> "IssueId", Component |-> "ComponentId", Image |-> "ComponentId"],
                        parent),
         ListComponentVersions(f, o))

ImageVersionBaseResolver ==
  \E f \in SUBSET {"ComponentCCRN", "ServiceCCRN"}, o \in ListOptions :
    RootList(ListComponentVersions(f \cup {"ByCount"}, o))

ComponentInstanceBaseResolver ==
  \E parent \in Parents("ComponentInstance"), o \in ListOptions,
     f \in SUBSET {"ServiceCcrn", "ComponentVersionVersion"} :
    List(parent, Switch([IssueMatch |-> "IssueMatchId", Service |-> "ServiceId",
                         ComponentVersion |-> "ComponentVersionId"], parent),
         ListComponentInstances(f, o))

NamedByClient == {"NamedComponentInstances"}
\* The component instances that the client names, if any, take the place of the instance that
\* the matches are a field of; to the ids of other parents they are added.
IssueMatchBaseResolver ==
  \E parent \in Parents("IssueMatch"), o \in ListOptions, named \in SUBSET NamedByClient,
     f \in SUBSET {"ServiceCCRN", "SupportGroupCCRN", "Search", "ComponentCCRN", "PrimaryName",
                   "ServiceOwner", "ByIssuePrimaryName", "ByCiCcrn"} :
    LET id == Switch([ComponentInstance |-> "ComponentInstanceId", Issue |-> "IssueId",
                      Vulnerability |-> "IssueId", Service |-> "ServiceId"], parent)
    IN List(parent,
            IF parent = "ComponentInstance" /\ named # {} THEN named ELSE id,
            ListIssueMatches(f \cup named, o))

IssueVariantBaseResolver ==
  \E parent \in Parents("IssueVariant"), o \in ListOptions :
    List(parent, Switch([Issue |-> "IssueId", Vulnerability |-> "IssueId",
                         IssueRepository |-> "IssueRepositoryId"], parent),
         ListIssueVariants({}, o))

EffectiveIssueVariantBaseResolver ==
  \E parent \in Parents("EffectiveIssueVariant"), o \in ListOptions :
    List(parent, Switch([IssueMatch |-> "IssueMatchId"], parent), ListEffectiveIssueVariants({}, o))

IssueRepositoryBaseResolver ==
  \E parent \in Parents("IssueRepository"), f \in SUBSET {"ServiceCCRN"}, o \in ListOptions :
    List(parent, Switch([Service |-> "ServiceId"], parent), ListIssueRepositories(f, o))

SupportGroupBaseResolver ==
  \E parent \in Parents("SupportGroup"), o \in ListOptions :
    List(parent, Switch([Service |-> "ServiceId", User |-> "UserId", Vulnerability |-> "IssueId"],
                        parent),
         ListSupportGroups({}, o))

UserBaseResolver ==
  \E parent \in Parents("User"), o \in ListOptions :
    List(parent, Switch([SupportGroup |-> "SupportGroupId", Service |-> "ServiceId"], parent),
         ListUsers({}, o))

IssueBaseResolver ==
  \E parent \in Parents("Issue"), o \in ListOptionsWithAggregations,
     f \in SUBSET {"ServiceCCRN", "SupportGroupCCRN", "IssueRepositoryId", "Search", "ByRating"} :
    List(parent, Switch([ComponentVersion |-> "ComponentVersionId"], parent), ListIssues(f, o))

\* Vulnerabilities of an image or an image version come from the live matches, all others
\* from the materialised list.
VulnerabilityBaseResolver ==
  \E parent \in Parents("Vulnerability"), o \in ListOptions, severity \in BOOLEAN,
     f \in SUBSET {"SupportGroupCCRN", "ServiceCCRN", "Search", "Status"} :
    LET id   == Switch([Image |-> "ComponentId", ImageVersion |-> "ComponentVersionId"], parent)
        from == IF parent = "Query"
                THEN {"UseMvVulnerabilityList"} \cup {field \in {"MvSeverity"} : severity}
                ELSE {"HasIssueMatches", "IssueMatchStatus"}
                       \cup {field \in {"IssueMatchSeverity"} : severity}
    IN /\ parent = "Image" /\ "SupportGroupCCRN" \in f => "SupportGroupOfImage" \in Gaps
       /\ List(parent, id, ListIssues(f \cup from \cup {"ByRating", "ByDate"}, o))

RemediationBaseResolver ==
  \E parent \in Parents("Remediation"), o \in ListOptions :
    List(parent, Switch([Service |-> "ServiceId"], parent), ListRemediations({}, o))
PatchBaseResolver == \E o \in ListOptions : RootList(ListPatches({}, o))

\* Counts over all services exist per support group or for the whole system only, counts of a
\* support group not by component version.
Combined(f) ==
  \/ "AllServices" \in f /\ f \cap {"ServiceCCRN", "ServiceId", "ComponentVersionId"} # {}
  \/ {"SupportGroupCCRN", "ComponentVersionId"} \subseteq f /\ {"ServiceCCRN", "ServiceId"} \cap f = {}

IssueCountsBaseResolver ==
  \E parent \in Parents("IssueCounts"),
     f \in SUBSET {"ServiceCCRN", "SupportGroupCCRN", "ComponentVersionId", "AllServices"} :
    LET id == Switch([ComponentVersion |-> "ComponentVersionId", ImageVersion |-> "ComponentVersionId",
                      Service |-> "ServiceId"], parent)
    IN /\ Combined(f \cup id) => "CombinedCounts" \in Gaps
       /\ Ratings(parent, id, "issue", f)

\* The counts of a list of vulnerabilities and of a list of services.
VulnerabilityCounts ==
  \E f \in SUBSET {"ServiceCCRN", "SupportGroupCCRN", "ComponentVersionId"} :
    LET g == f \cup {"AllServices"} \cup {u \in {"Unique"} : "SupportGroupCCRN" \notin f}
    IN /\ Combined(g) => "CombinedCounts" \in Gaps
       /\ Ratings("Query", {}, "issue", g)
ServiceCounts ==
  \E f \in SUBSET {"SupportGroupCCRN"}, g \in {"ServiceCCRN", "AllServices"} :
    Ratings("Query", {}, "issue", f \cup {g})

ComponentIssueCountsBaseResolver ==
  \E parent \in Parents("ComponentIssueCounts"), f \in SUBSET {"ServiceCCRN"} :
    Ratings(parent, Switch([Image |-> "Id"], parent), "component", f)

\* The field of a node that is a single other node: a list by its id.
SingleNodeBaseResolver ==
  \E r \in {ListServices({"Id"}, {}), ListComponents({"Id"}, {}), ListComponentVersions({"Id"}, {}),
            ListComponentInstances({"Id"}, {}), ListIssues({"Id"}, {}), ListIssueMatches({"Id"}, {}),
            ListIssueRepositories({"Id"}, {}), ListIssueVariants({"Id"}, {}), ListUsers({"Id"}, {})} :
    RootList(r)

ServiceFilterBaseResolver ==
  \E f \in SUBSET {"SupportGroupCCRN", "OwnerName"} : Attribute("service", f)
ComponentInstanceFilterBaseResolver == Attribute("componentInstance", {})
ComponentCcrnBaseResolver == Attribute("component", {})
UserNameBaseResolver == Attribute("user", {})
SupportGroupCcrnBaseResolver == \E f \in SUBSET {"UserId"} : Attribute("supportGroup", f)
IssueNameBaseResolver ==
  \E f \in SUBSET {"ServiceCCRN", "SupportGroupCCRN", "IssueRepositoryId", "Search"} :
    Attribute("issue", f)

\* The service issue variants of an instance or of an issue, read by the severity rules.
GetServiceIssueVariants ==
  \E f \in SUBSET {"IssueId", "State"} : RootList(Query("serviceIssueVariant", f, {}))

Next ==
  \/ ServiceBaseResolver \/ ComponentBaseResolver \/ ImageBaseResolver
  \/ ComponentVersionBaseResolver \/ ImageVersionBaseResolver \/ ComponentInstanceBaseResolver
  \/ IssueMatchBaseResolver \/ IssueVariantBaseResolver \/ EffectiveIssueVariantBaseResolver
  \/ IssueRepositoryBaseResolver \/ SupportGroupBaseResolver \/ UserBaseResolver
  \/ IssueBaseResolver \/ VulnerabilityBaseResolver \/ RemediationBaseResolver \/ PatchBaseResolver
  \/ IssueCountsBaseResolver \/ VulnerabilityCounts \/ ServiceCounts
  \/ ComponentIssueCountsBaseResolver
  \/ SingleNodeBaseResolver \/ ServiceFilterBaseResolver \/ ComponentInstanceFilterBaseResolver
  \/ ComponentCcrnBaseResolver \/ UserNameBaseResolver \/ SupportGroupCcrnBaseResolver
  \/ IssueNameBaseResolver \/ GetServiceIssueVariants \/ RunStatement \/ Answer

Spec == Init /\ [][Next]_vars

-----------------------------------------------------------------------------
(* Properties.                                                             *)

AliasesOf(s, n) == s.from \cup {s.joins[i].alias : i \in 1..n}

\* Every statement is one the database accepts.  A column that the filter, the order or an
\* aggregation mentions belongs to a table that the statement joins: the conditions of the join
\* definitions (issue.go:97-319 and its siblings) cover every combination of arguments that a
\* base resolver can ask for.  The condition of a join mentions only tables that stand before
\* it, and no alias comes twice, although joins are required from several places, forced joins
\* come first and a join may be left out because another one brought its table in
\* (JoinResolver.require and Build, db_object.go:775-842).  A gap is an SQL error that only one
\* combination of arguments shows.
WellFormed ==
  \A s \in Range(statements) :
    /\ s.uses \subseteq AliasesOf(s, Len(s.joins))
    /\ \A j \in DOMAIN s.joins :
         /\ s.joins[j].on \subseteq AliasesOf(s, j - 1)
         /\ s.joins[j].alias \notin AliasesOf(s, j - 1)

RowsOf(s) == <<s.filter, {s.joins[i].alias : i \in {k \in DOMAIN s.joins : s.joins[k].selects}}>>

\* The page, the list of all cursors and the total count of one answer range over the same
\* rows: they have the same filter, and the joins that drop rows are the same, although the
\* count is built without the order and the aggregations with forced joins
\* (db_object.go:167-360, service.go:173-195, issue.go:392-419).
SameRows ==
  \A i, j \in DOMAIN statements : RowsOf(statements[i]) = RowsOf(statements[j])

\* What a node shows as its field is what belongs to that node: every name under which a node
\* resolver hands itself down has a case in the base resolver it calls, and the id it selects is
\* part of the filter of every statement.  A name without a case lists the whole table
\* (baseResolver/service.go:105-114 and its siblings, resolver/image_version.go:42).  The one
\* field excused is the matches of a component instance (resolver/component_instance.go:37) when
\* the client's filter names component instances: those replace the id of the node
\* (baseResolver/issue_match.go:126-134), and the list is that of the instances named.
NestedInParent ==
  request.parent # "Query" =>
    \/ request.parent = "ComponentInstance" /\ request.id = NamedByClient
    \/ /\ request.id # {} /\ request.id \cap NamedByClient = {}
       /\ \A i \in DOMAIN statements : request.id \subseteq statements[i].filter
=============================================================================
