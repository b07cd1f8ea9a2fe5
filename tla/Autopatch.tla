------------------------------ MODULE Autopatch ------------------------------
(***************************************************************************)
(* Scanner runs and the AutoPatch feature.                                 *)
(*                                                                         *)
(* Scanners create a run, report the component instances they see (which   *)
(* leaves one tracker row per run and instance), and complete or fail the  *)
(* run (internal/app/scanner_run, internal/database/mariadb/scanner_run.go,*)
(* internal/app/component_instance).  Completing a run calls Autopatch     *)
(* (internal/database/mariadb/autopatch.go): for every tag it compares the *)
(* two newest completed runs, takes the instances of the older one that    *)
(* the newer one did not report as gone, deletes them with their issue     *)
(* matches and with the versions and components nobody uses any more, and  *)
(* records a patch per service and version that is no longer deployed.     *)
(*                                                                         *)
(* Autopatch runs outside a transaction.  Each of its queries is a step of *)
(* its own here, so that reports of other scanners, event handlers and     *)
(* other Autopatch calls fall between them; a query may fail, upon which   *)
(* the call returns with what it has done so far.                          *)
(*                                                                         *)
(* In some behaviours (alone) nobody else acts and no query fails while    *)
(* Autopatch runs, and no instance is upgraded in place: what a call       *)
(* achieves, not only what it may never do, is stated of these.            *)
(***************************************************************************)
EXTENDS Integers, FiniteSets

CONSTANTS
    Requests,     \* goroutines serving completeScannerRun
    Tags,         \* scanner tags
    MaxRuns,      \* bound: how many runs are created
    MaxInstance,  \* bound: how many component instances are created
    MaxDisturbed, \* bound: how many of them unless alone
    MaxUpgrades,  \* bound: how often a version vanishes through an upgrade
    Versions, Components, Services, Issues,
    ServiceOf,    \* ServiceOf[i]: the service instance i belongs to
    DeployedAs,   \* DeployedAs[i]: the versions instance i may be reported with
    ComponentOf,  \* ComponentOf[v]: the component of version v
    PageLimit,    \* rows a query without an explicit limit returns (1000)
    NoTag         \* a run that was not created yet

RunIds == 1..MaxRuns
Instances == 1..MaxInstance

ASSUME AutopatchAssumption ==
    /\ MaxRuns \in Nat /\ MaxInstance \in Nat /\ MaxUpgrades \in Nat
    /\ PageLimit \in Nat \ {0}
    /\ NoTag \notin Tags
    /\ ServiceOf \in [Instances -> Services]
    /\ DeployedAs \in [Instances -> (SUBSET Versions) \ {{}}]
    /\ ComponentOf \in [Versions -> Components]

VARIABLES
    alone,        \* nobody acts and nothing fails while Autopatch runs
    nRuns,        \* ScannerRun: how many rows there are; ids are ascending
    runTag,       \* ScannerRun: tag
    completed,    \* ScannerRun: the runs with is_completed
    tracker,      \* ScannerRunComponentInstanceTracker: <<run, instance>>
    inst,         \* ComponentInstance: "absent", "live" or "deleted"
    instVersion,  \* ComponentInstance: version
    liveVersions, \* ComponentVersion: the rows that are not deleted
    liveComponents, \* Component: the rows that are not deleted
    links,        \* ComponentVersionIssue: <<version, issue>>
    matches,      \* IssueMatch: <<instance, issue>>, not deleted
    created,      \* CreateComponentInstance events not handled yet
    patches,      \* Patch: how many rows per service and version
    req,          \* req[a]: the local variables of one Autopatch call
    everCompleted,\* history: the runs that were completed at some time
    overlapped,   \* history: two Autopatch calls were in progress at once
    inTime,       \* history: trackers inserted before the run was completed
    matched,      \* history: the issue matches that were ever created
    vanished      \* history: how often a version vanished from a service

runVars  == <<nRuns, runTag, completed, everCompleted, overlapped>>
repVars  == <<tracker, inTime>>
matchVars == <<matches, matched, created>>
instVars == <<inst, instVersion, vanished>>
catVars  == <<liveVersions, liveComponents, links>>
vars == <<alone, runVars, repVars, instVars, catVars, matchVars, patches, req>>

Pairs == Services \X Versions

Idle == [pc |-> "idle", todo |-> {}, pair |-> <<0, 0>>, seen |-> {}, gone |-> {},
         work |-> {}, rows |-> {}, info |-> {}, vers |-> {}, inner |-> {},
         unused |-> {}, comps |-> {}]

Init ==
    /\ alone \in BOOLEAN
    /\ nRuns = 0
    /\ runTag = [r \in RunIds |-> NoTag]
    /\ completed = {}
    /\ tracker = {}
    /\ inst = [i \in Instances |-> "absent"]
    /\ instVersion = [i \in Instances |-> CHOOSE v \in DeployedAs[i] : TRUE]
    /\ liveVersions = Versions
    /\ liveComponents = Components
    /\ links = IF alone THEN Versions \X Issues ELSE {}
    /\ matches = {}
    /\ created = {}
    /\ patches = [p \in Pairs |-> 0]
    /\ req = [a \in Requests |-> Idle]
    /\ everCompleted = {}
    /\ overlapped = FALSE
    /\ inTime = {}
    /\ matched = {}
    /\ vanished = [p \in Pairs |-> 0]

-----------------------------------------------------------------------------
(* Queries.                                                                *)

\* The default page of a listing query: at most PageLimit rows, lowest id
\* first.
FirstPage(S) == {i \in S : Cardinality({j \in S : j < i}) < PageLimit}

TrackedIn(r) == {i \in Instances : <<r, i>> \in tracker}

LiveInstances == {i \in Instances : inst[i] = "live"}

Deployment(i) == <<ServiceOf[i], instVersion[i]>>

LiveOf(p) == {i \in LiveInstances : Deployment(i) = p}

\* Instance i leaves its service and version: the last one to do so makes the
\* version vanish from the service.
CountVanished(i) ==
    IF LiveOf(Deployment(i)) = {i}
    THEN [vanished EXCEPT ![Deployment(i)] = @ + 1]
    ELSE vanished

\* Mutant: runs that were not completed are compared as well.
NewestTwoAnyRun ==
    {p \in (1..nRuns) \X (1..nRuns) :
        /\ runTag[p[1]] = runTag[p[2]]
        /\ p[2] < p[1]
        /\ \A r \in 1..nRuns :
              runTag[r] = runTag[p[1]] => r = p[1] \/ r <= p[2]}

\* The newest and the second newest completed run of every tag that has two.
NewestTwo ==
    {p \in completed \X completed :
        /\ runTag[p[1]] = runTag[p[2]]
        /\ p[2] < p[1]
        /\ \A r \in completed :
              runTag[r] = runTag[p[1]] => r = p[1] \/ r <= p[2]}

-----------------------------------------------------------------------------
(* The scanners' calls.                                                    *)

\* Scanners and workers may act: always, unless Autopatch runs alone.
Undisturbed == alone => \A a \in Requests : req[a].pc = "idle"

CreateScannerRun(t) ==
    /\ Undisturbed
    /\ nRuns < MaxRuns
    /\ nRuns' = nRuns + 1
    /\ runTag' = [runTag EXCEPT ![nRuns + 1] = t]
    /\ UNCHANGED <<completed, everCompleted, overlapped, repVars, instVars,
                   catVars, matchVars, patches, req>>

\* The tracker row is inserted, or the insert fails and the error is only
\* logged (bound: followed in the behaviours that are alone).
Track(r, i) ==
    \/ /\ tracker' = tracker \cup {<<r, i>>}
       /\ inTime' = IF r \in everCompleted THEN inTime ELSE inTime \cup {<<r, i>>}
    \/ alone /\ UNCHANGED <<tracker, inTime>>

\* What a scanner's lookup just before the call returned.  Unless alone
\* the row may have been deleted since.
Found(rowIsLive) == alone => rowIsLive

CreateComponentInstance(r, i, v) ==
    /\ Undisturbed
    /\ r \in 1..nRuns
    /\ inst[i] = "absent" /\ (alone \/ i <= MaxDisturbed)
    /\ v \in DeployedAs[i] /\ Found(v \in liveVersions)
    /\ inst' = [inst EXCEPT ![i] = "live"]
    /\ instVersion' = [instVersion EXCEPT ![i] = v]
    /\ created' = created \cup {i}
    /\ Track(r, i)
    /\ UNCHANGED <<runVars, vanished, catVars, matches, matched, patches,
                   req>>

\* The UPDATE is by id and does not look at deleted_at, nor does the tracker:
\* a scanner that looked the instance up before it was deleted still reports
\* it.
UpdateComponentInstance(r, i, v) ==
    /\ Undisturbed
    /\ r \in 1..nRuns
    /\ inst[i] # "absent" /\ Found(inst[i] = "live")
    /\ v \in DeployedAs[i] /\ Found(v \in liveVersions)
    /\ instVersion' = [instVersion EXCEPT ![i] = v]
    /\ vanished' = IF v = instVersion[i] THEN vanished ELSE CountVanished(i)
    /\ v # instVersion[i] => ~alone /\ vanished[Deployment(i)] < MaxUpgrades
    /\ Track(r, i)
    /\ UNCHANGED <<runVars, inst, catVars, matchVars, patches, req>>

FailScannerRun(r) ==
    /\ Undisturbed
    /\ r \in 1..nRuns
    /\ completed' = completed \ {r}
    /\ UNCHANGED <<nRuns, runTag, everCompleted, overlapped, repVars, instVars,
                   catVars, matchVars, patches, req>>

\* A worker handles the CreateComponentInstance event: the instance is
\* matched with the issues of its version (IssueMatching has the details).
OnComponentInstanceCreate(i) ==
    /\ Undisturbed
    /\ i \in created
    /\ created' = created \ {i}
    /\ LET new == {<<i, x>> : x \in {y \in Issues : <<instVersion[i], y>> \in links}}
       IN  matches' = matches \cup new /\ matched' = matched \cup new
    /\ UNCHANGED <<runVars, repVars, instVars, catVars, patches, req>>

-----------------------------------------------------------------------------
(* CompleteScannerRun and Autopatch.                                       *)

CompleteScannerRun(a, r) ==
    /\ req[a].pc = "idle"
    /\ r \in 1..nRuns
    /\ completed' = completed \cup {r}
    /\ everCompleted' = everCompleted \cup {r}
    /\ overlapped' = (overlapped \/ \E b \in Requests : req[b].pc # "idle")
    /\ req' = [req EXCEPT ![a].pc = "runs"]
    /\ UNCHANGED <<nRuns, runTag, repVars, instVars, catVars, matchVars,
                   patches>>

fetchCompletedRunsWithNewestFirst(a) ==
    /\ req[a].pc = "runs"
    /\ req' = [req EXCEPT ![a].pc = "tag", ![a].todo = NewestTwo]
    /\ UNCHANGED <<runVars, repVars, instVars, catVars, matchVars, patches>>

\* processAutopatchForSingleTag is left: its locals are gone.
NextTag(a) == [Idle EXCEPT !.pc = "tag", !.todo = req[a].todo]

\* The next tag, in the random order of a Go map ...
processAutopatchOnCompletedRuns(a) ==
    /\ req[a].pc = "tag"
    /\ \E p \in req[a].todo :
          req' = [req EXCEPT ![a].pc = "latest", ![a].pair = p, ![a].todo = @ \ {p}]
    /\ UNCHANGED <<runVars, repVars, instVars, catVars, matchVars, patches>>

\* ... or the end of the call.
AutopatchReturn(a) ==
    /\ req[a].pc = "tag"
    /\ req[a].todo = {}
    /\ req' = [req EXCEPT ![a] = Idle]
    /\ UNCHANGED <<runVars, repVars, instVars, catVars, matchVars, patches>>

fetchLatestInstances(a) ==
    /\ req[a].pc = "latest"
    /\ req' = [req EXCEPT ![a].pc = "second", ![a].seen = TrackedIn(req[a].pair[1])]
    /\ UNCHANGED <<runVars, repVars, instVars, catVars, matchVars, patches>>

getDisappearedInstances(seen, second) == second \ seen

fetchSecondLatestInstances(a) ==
    /\ req[a].pc = "second"
    /\ LET gone == getDisappearedInstances(req[a].seen, TrackedIn(req[a].pair[2]))
       IN  req' = [req EXCEPT ![a] = [NextTag(a) EXCEPT
                      !.pc = IF gone = {} THEN "tag" ELSE "info",
                      !.gone = gone, !.work = gone]]
    /\ UNCHANGED <<runVars, repVars, instVars, catVars, matchVars, patches>>

\* Mutant: instances that are deleted already are patched again.
PatchInfoOfDeleted(i) == {Deployment(i)}

\* fetchServiceAndVersionForInstance joins live rows only; an instance without
\* a row is skipped.
PatchInfo(i) ==
    {d \in {Deployment(i)} : i \in LiveInstances /\ instVersion[i] \in liveVersions}

\* One query per instance that disappeared.
getPatches(a) ==
    /\ req[a].pc = "info"
    /\ \/ \E i \in req[a].work :
             req' = [req EXCEPT ![a].work = @ \ {i}, ![a].info = @ \cup PatchInfo(i)]
       \/ /\ req[a].work = {}
          /\ req' = [req EXCEPT ![a].pc = "unmatch", ![a].work = req[a].gone]
    /\ UNCHANGED <<runVars, repVars, instVars, catVars, matchVars, patches>>

MatchesOf(i) == {m \in matches : m[1] = i}

\* The matches of the next instance that disappeared are listed ...
GetAllIssueMatchIds(a) ==
    /\ req[a].pc = "unmatch"
    /\ \/ \E i \in req[a].work :
             req' = [req EXCEPT ![a].pc = "deleteMatch", ![a].work = @ \ {i},
                                ![a].rows = MatchesOf(i)]
       \/ /\ req[a].work = {}
          /\ req' = [req EXCEPT ![a].pc = "versions"]
    /\ UNCHANGED <<runVars, repVars, instVars, catVars, matchVars, patches>>

\* ... and deleted one by one.
deleteIssueMatchesOfDisappearedInstances(a) ==
    /\ req[a].pc = "deleteMatch"
    /\ \/ \E m \in req[a].rows :
             /\ matches' = matches \ {m}
             /\ req' = [req EXCEPT ![a].rows = @ \ {m}]
       \/ /\ req[a].rows = {}
          /\ req' = [req EXCEPT ![a].pc = "unmatch"]
          /\ UNCHANGED matches
    /\ UNCHANGED <<runVars, repVars, instVars, catVars, matched, created,
                   patches>>

getVersionIdsOfDisappearedInstances(a) ==
    /\ req[a].pc = "versions"
    /\ req' = [req EXCEPT ![a].pc = "delete", ![a].work = req[a].gone,
                          ![a].vers = {instVersion[i] : i \in FirstPage(req[a].gone \cap LiveInstances)}]
    /\ UNCHANGED <<runVars, repVars, instVars, catVars, matchVars, patches>>

DeleteComponentInstance(i) ==
    /\ inst' = [inst EXCEPT ![i] = "deleted"]
    /\ vanished' = CountVanished(i)

deleteDisappearedInstances(a) ==
    /\ req[a].pc = "delete"
    /\ \/ \E i \in req[a].work :
             /\ DeleteComponentInstance(i)
             /\ req' = [req EXCEPT ![a].work = @ \ {i}]
       \/ /\ req[a].work = {}
          /\ req' = [req EXCEPT ![a].pc = "components"]
          /\ UNCHANGED <<inst, vanished>>
    /\ UNCHANGED <<runVars, repVars, instVersion, catVars, matchVars,
                   patches>>

\* An empty list of ids is no filter at all: every live version is returned.
getComponentIdsOfDisappearedInstances(a) ==
    /\ req[a].pc = "components"
    /\ LET rows == IF req[a].vers = {} THEN liveVersions
                   ELSE req[a].vers \cap liveVersions
       IN  req' = [req EXCEPT ![a].pc = "checkVersion", ![a].work = req[a].vers,
                              ![a].comps = {ComponentOf[v] : v \in rows}]
    /\ UNCHANGED <<runVars, repVars, instVars, catVars, matchVars, patches>>

InUse(v) == \E i \in LiveInstances : instVersion[i] = v

\* Is the version still used by an instance?
checkVersionOfDisappearedInstances(a) ==
    /\ req[a].pc = "checkVersion"
    /\ \/ \E v \in req[a].work :
             IF InUse(v) THEN req' = [req EXCEPT ![a].work = @ \ {v}]
             ELSE req' = [req EXCEPT ![a].pc = "unlink", ![a].unused = {v},
                                     ![a].inner = req[a].vers]
       \/ /\ req[a].work = {}
          /\ req' = [req EXCEPT ![a].pc = "checkComponent", ![a].work = req[a].comps]
    /\ UNCHANGED <<runVars, repVars, instVars, catVars, matchVars, patches>>

\* RemoveAllIssuesFromComponentVersion, in the inner loop over all versions of
\* the disappeared instances.
removeIssuesFromVersions(a) ==
    /\ req[a].pc = "unlink"
    /\ \/ \E v \in req[a].inner :
             /\ links' = {l \in links : l[1] # v}
             /\ req' = [req EXCEPT ![a].inner = @ \ {v}]
       \/ /\ req[a].inner = {}
          /\ req' = [req EXCEPT ![a].pc = "dropVersion"]
          /\ UNCHANGED links
    /\ UNCHANGED <<runVars, repVars, instVars, liveVersions, liveComponents,
                   matchVars, patches>>

deleteVersionsOfDisappearedInstances(a) ==
    /\ req[a].pc = "dropVersion"
    /\ liveVersions' = liveVersions \ req[a].unused
    /\ req' = [req EXCEPT ![a].pc = "checkVersion", ![a].work = @ \ req[a].unused,
                          ![a].unused = {}]
    /\ UNCHANGED <<runVars, repVars, instVars, liveComponents, links,
                   matchVars, patches>>

\* Mutant: the component is deleted without a look at its other versions.
ComponentInUseNever(c) == FALSE

ComponentInUse(c) == \E v \in liveVersions : ComponentOf[v] = c

\* Has the component still a version?
checkComponentOfDisappearedInstances(a) ==
    /\ req[a].pc = "checkComponent"
    /\ \/ \E c \in req[a].work :
             IF ComponentInUse(c) THEN req' = [req EXCEPT ![a].work = @ \ {c}]
             ELSE req' = [req EXCEPT ![a].pc = "dropComponent", ![a].unused = {c}]
       \/ /\ req[a].work = {}
          /\ req' = [req EXCEPT ![a].pc = "insert"]
    /\ UNCHANGED <<runVars, repVars, instVars, catVars, matchVars, patches>>

deleteComponentsOfDisappearedInstances(a) ==
    /\ req[a].pc = "dropComponent"
    /\ liveComponents' = liveComponents \ req[a].unused
    /\ req' = [req EXCEPT ![a].pc = "checkComponent", ![a].work = @ \ req[a].unused,
                          ![a].unused = {}]
    /\ UNCHANGED <<runVars, repVars, instVars, liveVersions, links, matchVars,
                   patches>>

\* Mutant: the INSERT joins the version, which is deleted by now.
insertPatchOfLiveVersion(p) ==
    patches' = IF LiveOf(p) = {} /\ p[2] \in liveVersions THEN [patches EXCEPT ![p] = @ + 1]
               ELSE patches

\* INSERT ... SELECT ... WHERE NOT EXISTS: a single statement.
insertPatchIfNoInstanceExists(p) ==
    patches' = IF LiveOf(p) = {} THEN [patches EXCEPT ![p] = @ + 1] ELSE patches

insertPatches(a) ==
    /\ req[a].pc = "insert"
    /\ \/ \E p \in req[a].info :
             /\ insertPatchIfNoInstanceExists(p)
             /\ req' = [req EXCEPT ![a].info = @ \ {p}]
       \/ /\ req[a].info = {}
          /\ req' = [req EXCEPT ![a] = NextTag(a)]
          /\ UNCHANGED patches
    /\ UNCHANGED <<runVars, repVars, instVars, catVars, matchVars>>

\* Any query may fail: Autopatch returns the error, nothing is undone.
AutopatchError(a) ==
    /\ ~alone
    /\ req[a].pc # "idle"
    /\ req' = [req EXCEPT ![a] = Idle]
    /\ UNCHANGED <<runVars, repVars, instVars, catVars, matchVars, patches>>

Autopatch(a) ==
    \/ fetchCompletedRunsWithNewestFirst(a)
    \/ processAutopatchOnCompletedRuns(a)
    \/ AutopatchReturn(a)
    \/ fetchLatestInstances(a)
    \/ fetchSecondLatestInstances(a)
    \/ getPatches(a)
    \/ GetAllIssueMatchIds(a)
    \/ deleteIssueMatchesOfDisappearedInstances(a)
    \/ getVersionIdsOfDisappearedInstances(a)
    \/ deleteDisappearedInstances(a)
    \/ getComponentIdsOfDisappearedInstances(a)
    \/ checkVersionOfDisappearedInstances(a)
    \/ removeIssuesFromVersions(a)
    \/ deleteVersionsOfDisappearedInstances(a)
    \/ checkComponentOfDisappearedInstances(a)
    \/ deleteComponentsOfDisappearedInstances(a)
    \/ insertPatches(a)

-----------------------------------------------------------------------------
Scanner ==
    \/ \E t \in Tags : CreateScannerRun(t)
    \/ \E r \in RunIds, i \in Instances, v \in Versions :
          CreateComponentInstance(r, i, v) \/ UpdateComponentInstance(r, i, v)
    \/ \E r \in RunIds : FailScannerRun(r)

Next ==
    /\ \/ Scanner
       \/ \E i \in Instances : OnComponentInstanceCreate(i)
       \/ \E a \in Requests, r \in RunIds : CompleteScannerRun(a, r)
       \/ \E a \in Requests : Autopatch(a) \/ AutopatchError(a)
    /\ UNCHANGED alone

Spec == Init /\ [][Next]_vars

-----------------------------------------------------------------------------
Phases == {"idle", "runs", "tag", "latest", "second", "info", "unmatch",
           "deleteMatch", "versions", "delete", "components", "checkVersion",
           "unlink", "dropVersion", "checkComponent", "dropComponent", "insert"}

Call == [pc : Phases, todo : SUBSET (RunIds \X RunIds), pair : Nat \X Nat,
         seen : SUBSET Instances, gone : SUBSET Instances,
         work : SUBSET (Instances \cup Versions \cup Components),
         rows : SUBSET (Instances \X Issues), info : SUBSET Pairs,
         vers : SUBSET Versions, inner : SUBSET Versions,
         unused : SUBSET (Versions \cup Components), comps : SUBSET Components]

\* Runs, trackers and what was reported.
RunsType ==
    /\ nRuns \in 0..MaxRuns
    /\ runTag \in [RunIds -> Tags \cup {NoTag}]
    /\ completed \subseteq 1..nRuns
    /\ everCompleted \subseteq 1..nRuns
    /\ tracker \subseteq RunIds \X Instances
    /\ inTime \subseteq tracker
    /\ overlapped \in BOOLEAN

\* Instances, the catalogue, issue matches and patches.
TablesType ==
    /\ inst \in [Instances -> {"absent", "live", "deleted"}]
    /\ instVersion \in [Instances -> Versions]
    /\ liveVersions \subseteq Versions
    /\ liveComponents \subseteq Components
    /\ links \subseteq Versions \X Issues
    /\ matches \subseteq matched /\ matched \subseteq Instances \X Issues
    /\ created \subseteq Instances
    /\ patches \in [Pairs -> Nat] /\ vanished \in [Pairs -> Nat]

\* The tables and the local variables of the calls keep their types: runs are
\* completed only once they exist, and only reported instances are tracked.
TypeOK ==
    /\ RunsType
    /\ TablesType
    /\ req \in [Requests -> Call]

AllIdle == \A a \in Requests : req[a].pc = "idle"

\* Run new followed run old under the same tag, both were completed, the old
\* one tracked the instance and the new one had not when it was completed.
Absent(i, old, new) ==
    /\ old < new
    /\ runTag[old] = runTag[new]
    /\ <<old, i>> \in tracker
    /\ <<new, i>> \notin inTime

Confirmed(i) ==
    \E old, new \in everCompleted : Absent(i, old, new)

\* Whatever reports, failures of runs, retries and errors fall between its
\* queries, Autopatch deletes an instance only if its absence was confirmed
\* by a completed run of a tag that had tracked it in an older completed run.
AbsenceConfirmed == \A i \in Instances : inst[i] = "deleted" => Confirmed(i)

AtMostOnce == \A p \in Pairs : patches[p] <= vanished[p]

\* As long as no two Autopatch calls overlap, retries, repeated completions and
\* interrupted calls do not multiply patches: there is at most one for every
\* time the last instance of a version disappeared from a service.  Calls that
\* overlap do multiply them: two that compare the same runs collect the same
\* patch before either deletes the instance (autopatch.go:108-121), and each
\* inserts it (:396-428).
NoDuplicatePatch == ~overlapped => AtMostOnce

\* Calls that do not overlap and that nobody interferes with leave a patch for
\* every version that is no longer deployed.
PatchPerDisappearance == alone /\ ~overlapped /\ AllIdle => patches = vanished

\* Once such calls are done, a live instance still has its issue matches,
\* versions and components are gone only if nobody uses them, and the version
\* of a deleted instance that nobody uses is gone.
CatalogConsistent ==
    alone /\ ~overlapped /\ AllIdle =>
        /\ \A m \in matched : inst[m[1]] = "live" => m \in matches
        /\ \A v \in Versions \ liveVersions : ~InUse(v)
        /\ \A v \in liveVersions : ComponentOf[v] \in liveComponents
        /\ \A i \in Instances :
              inst[i] = "deleted" /\ ~InUse(instVersion[i]) =>
                  instVersion[i] \notin liveVersions
-----------------------------------------------------------------------------
(* The inductive invariant behind AbsenceConfirmed.                        *)

\* Two completed runs of one tag, the newer one first.
ValidPair(p) ==
    /\ p[1] \in everCompleted /\ p[2] \in everCompleted
    /\ p[2] < p[1]
    /\ runTag[p[1]] = runTag[p[2]]

\* What a call holds is right for the place it has reached.
CallOK(c) ==
    /\ \A p \in c.todo : ValidPair(p)
    /\ c.pc \in {"latest", "second"} => ValidPair(c.pair)
    /\ c.pc = "second" =>
          \A i \in Instances : <<c.pair[1], i>> \in inTime => i \in c.seen
    /\ \A i \in c.gone : Confirmed(i)
    /\ c.pc \in {"info", "unmatch", "deleteMatch", "delete"} => c.work \subseteq c.gone
    /\ \A m \in c.rows : m[1] \in c.gone
    /\ c.pc \in {"checkVersion", "unlink", "dropVersion"} => c.work \subseteq c.vers
    /\ c.pc \in {"checkComponent", "dropComponent"} => c.work \subseteq c.comps

\* Every call rests on confirmed absences only, whatever happened since.
AutopatchInv ==
    /\ TypeOK
    /\ completed \subseteq everCompleted
    /\ \A a \in Requests : CallOK(req[a])
    /\ AbsenceConfirmed
-----------------------------------------------------------------------------
(* What calls that do not overlap achieve.                                 *)

\* At most one Autopatch call is in progress.
Serial ==
    \A a, b \in Requests : req[a].pc # "idle" /\ req[b].pc # "idle" => a = b

\* The history tells when there were more.
SerialInv == ~overlapped => Serial

\* The instances that disappeared fit into one page of the version query.
FitsPage == \A a \in Requests : Cardinality(req[a].gone) <= PageLimit

\* The places of a call from the collection of the patches to the last
\* insertion.
Holding == {"info", "unmatch", "deleteMatch", "versions", "delete", "components",
            "checkVersion", "unlink", "dropVersion", "checkComponent",
            "dropComponent", "insert"}

\* A collected patch whose version has vanished since is still owed.
PatchInv ==
    /\ \A a \in Requests : req[a].pc \notin Holding => req[a].info = {}
    /\ AtMostOnce
    /\ \A a \in Requests : \A p \in req[a].info :
          LiveOf(p) = {} => patches[p] < vanished[p]

Owed(p) == LiveOf(p) = {} /\ \E a \in Requests : p \in req[a].info

\* Alone, a version that vanished has its patch, or is owed it by the call.
OwedExactly ==
    \A p \in Pairs : vanished[p] = patches[p] + (IF Owed(p) THEN 1 ELSE 0)

\* The patches of the instances about to be deleted have been collected.
GoneNoted ==
    \A a \in Requests :
        req[a].pc \in {"info", "unmatch", "deleteMatch", "versions", "delete"} =>
            \A i \in req[a].gone : i \in LiveInstances =>
                \/ Deployment(i) \in req[a].info
                \/ req[a].pc = "info" /\ i \in req[a].work

VersionsLive == \A i \in LiveInstances : instVersion[i] \in liveVersions

UnusedChecked ==
    \A a \in Requests : req[a].pc \in {"unlink", "dropVersion"} =>
        \A v \in req[a].unused : ~InUse(v)

OwedInv == OwedExactly /\ GoneNoted /\ VersionsLive /\ UnusedChecked

\* Call c will still delete instance i, whose matches are gone.
WillDelete(c, i) ==
    \/ c.pc \in {"unmatch", "deleteMatch", "versions"} /\ i \in c.gone
    \/ c.pc = "delete" /\ i \in c.work

\* Call c will still look at version v, which nobody uses.
WillCheck(c, v) ==
    \/ c.pc \in {"delete", "components"} /\ v \in c.vers
    \/ c.pc \in {"checkVersion", "unlink", "dropVersion"} /\ v \in c.work

\* What is tracked, matched or announced exists.
Existing ==
    /\ \A i \in created : inst[i] # "absent"
    /\ \A q \in tracker : inst[q[2]] # "absent"
    /\ \A m \in matched : inst[m[1]] # "absent"

MatchesAhead ==
    \A m \in matched \ matches :
        inst[m[1]] = "live" => \E a \in Requests : WillDelete(req[a], m[1])

ComponentsLive == \A v \in liveVersions : ComponentOf[v] \in liveComponents

ComponentsChecked ==
    \A a \in Requests : req[a].pc = "dropComponent" =>
        \A c \in req[a].unused : ~ComponentInUse(c)

VersionsCollected ==
    \A a \in Requests : req[a].pc = "delete" =>
        \A i \in req[a].gone : i \in LiveInstances => instVersion[i] \in req[a].vers

Orphan(i) ==
    /\ inst[i] = "deleted"
    /\ ~InUse(instVersion[i])
    /\ instVersion[i] \in liveVersions

VersionsAhead ==
    \A i \in Instances :
        Orphan(i) => \E a \in Requests : WillCheck(req[a], instVersion[i])

\* Alone, whatever CatalogConsistent asks for and does not hold yet is still
\* ahead of a call.
CleanupInv ==
    /\ Existing /\ MatchesAhead /\ ComponentsLive /\ ComponentsChecked
    /\ VersionsCollected /\ VersionsAhead
=============================================================================
