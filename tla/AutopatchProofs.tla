--------------------------- MODULE AutopatchProofs ---------------------------
(***************************************************************************)
(* Theorems about Autopatch, for any number of concurrent calls, tags,     *)
(* runs, instances, versions and components, with and without failures.    *)
(*                                                                         *)
(* The argument: once a run is completed, what it tracked in time never    *)
(* changes, so an absence that two completed runs confirm stays confirmed  *)
(* (Grows, ConfirmedStable).  It then suffices that each call collects     *)
(* confirmed absences only and deletes nothing else (CallOK).              *)
(*                                                                         *)
(* What the calls achieve is proved as long as no two have overlapped      *)
(* (SerialInv), scanners and errors falling between their queries:         *)
(* a patch that was collected and whose version vanished since is still    *)
(* missing (PatchInv).  If besides nobody acts while a call runs (alone),  *)
(* the missing patches are exactly the collected ones (OwedInv), and every *)
(* row that is not consistent yet is still ahead of the call (CleanupInv). *)
(***************************************************************************)
EXTENDS Autopatch, FiniteSetTheorems, TLAPS

\* What no step undoes.
Grows ==
    /\ everCompleted \subseteq everCompleted'
    /\ tracker \subseteq tracker'
    /\ \A r \in everCompleted : runTag'[r] = runTag[r]
    /\ \A q \in inTime' : q \in inTime \/ q[1] \notin everCompleted

\* A confirmed absence stays confirmed, whatever is reported later.
LEMMA ConfirmedStable ==
    ASSUME Grows, NEW i, Confirmed(i)
    PROVE  Confirmed(i)'
<1>1. PICK old \in everCompleted, new \in everCompleted : Absent(i, old, new)
  BY DEF Confirmed
<1>2. old \in everCompleted' /\ new \in everCompleted'
  BY DEF Grows
<1>3. Absent(i, old, new)'
  BY <1>1 DEF Grows, Absent
<1> QED
  BY <1>2, <1>3 DEF Confirmed

\* What a call holds stays right while others act.
LEMMA CallStable ==
    ASSUME Grows, NEW c, CallOK(c)
    PROVE  CallOK(c)'
<1>1. \A p : ValidPair(p) => ValidPair(p)'
  BY DEF Grows, ValidPair
<1>2. \A i \in c.gone : Confirmed(i)'
  BY ConfirmedStable DEF CallOK
<1>3. ASSUME c.pc = "second", NEW i \in Instances, <<c.pair[1], i>> \in inTime'
      PROVE  i \in c.seen
  BY <1>3 DEF Grows, CallOK, ValidPair
<1> QED
  BY <1>1, <1>2, <1>3 DEF CallOK

\* A query of call a: the call moves on to d, runs and trackers stay.
LEMMA QueryLemma ==
    ASSUME AutopatchInv, UNCHANGED <<runVars, repVars>>,
           NEW a \in Requests, NEW d \in Call, CallOK(d),
           req' = [req EXCEPT ![a] = d],
           TablesType',
           \A i \in Instances :
              inst'[i] = "deleted" => inst[i] = "deleted" \/ Confirmed(i)
    PROVE  AutopatchInv'
<1>1. Grows
  BY DEF Grows, runVars, repVars
<1>2. RunsType' /\ completed' \subseteq everCompleted'
  BY DEF AutopatchInv, TypeOK, RunsType, runVars, repVars
<1>3. req' \in [Requests -> Call]
  BY DEF AutopatchInv, TypeOK
<1>4. ASSUME NEW b \in Requests
      PROVE  CallOK(req[b])'
  <2>1. CallOK(req'[b])
    BY DEF AutopatchInv, TypeOK
  <2> QED
    BY <1>1, <2>1, CallStable
<1>5. AbsenceConfirmed'
  BY <1>1, ConfirmedStable DEF AutopatchInv, AbsenceConfirmed
<1> QED
  BY <1>2, <1>3, <1>4, <1>5 DEF AutopatchInv, TypeOK

\* A step of a scanner or of a worker: the calls stay as they are.
LEMMA OutsideLemma ==
    ASSUME AutopatchInv, Grows, RunsType', TablesType', UNCHANGED req,
           completed' \subseteq everCompleted',
           \A i \in Instances : inst'[i] = "deleted" => inst[i] = "deleted"
    PROVE  AutopatchInv'
<1>1. ASSUME NEW b \in Requests
      PROVE  CallOK(req[b])'
  <2>1. CallOK(req'[b])
    BY DEF AutopatchInv
  <2> QED
    BY <2>1, CallStable
<1>2. AbsenceConfirmed'
  BY ConfirmedStable DEF AutopatchInv, AbsenceConfirmed
<1> QED
  BY <1>1, <1>2 DEF AutopatchInv, TypeOK

LEMMA InitInv == Init => AutopatchInv
<1> SUFFICES ASSUME Init PROVE AutopatchInv
  OBVIOUS
<1> USE AutopatchAssumption
<1>1. RunsType
  <2>1. overlapped \in BOOLEAN
    BY Zenon DEF Init
  <2>2. /\ nRuns \in 0..MaxRuns /\ runTag \in [RunIds -> Tags \cup {NoTag}]
        /\ completed \subseteq 1..nRuns /\ everCompleted \subseteq 1..nRuns
        /\ tracker \subseteq RunIds \X Instances /\ inTime \subseteq tracker
    BY DEF Init, RunIds
  <2> QED
    BY <2>1, <2>2, Zenon DEF RunsType
<1>2. instVersion \in [Instances -> Versions]
  <2>1. ASSUME NEW i \in Instances
        PROVE  (CHOOSE v \in DeployedAs[i] : TRUE) \in Versions
    <3>1. DeployedAs[i] \subseteq Versions /\ \E v \in DeployedAs[i] : TRUE
      OBVIOUS
    <3> QED
      BY <3>1
  <2> QED
    BY <2>1 DEF Init
<1>3. TablesType
  BY <1>2 DEF Init, TablesType
<1>4. Idle \in Call
  BY DEF Idle, Call, Phases
<1>5. CallOK(Idle)
  BY DEF CallOK, Idle
<1>6. AbsenceConfirmed
  BY DEF Init, AbsenceConfirmed
<1> QED
  BY <1>1, <1>3, <1>4, <1>5, <1>6 DEF Init, AutopatchInv, TypeOK

-----------------------------------------------------------------------------
(* The scanners' calls and the workers.                                    *)

LEMMA VanishedType ==
    ASSUME TypeOK, NEW i \in Instances
    PROVE  CountVanished(i) \in [Pairs -> Nat]
<1>1. Deployment(i) \in Pairs
  BY AutopatchAssumption DEF TypeOK, TablesType, Deployment, Pairs
<1> QED
  BY <1>1 DEF TypeOK, TablesType, CountVanished

LEMMA TrackLemma ==
    ASSUME TypeOK, NEW r \in 1..nRuns, NEW i \in Instances,
           Track(r, i), UNCHANGED runVars, completed \subseteq everCompleted
    PROVE  Grows /\ RunsType' /\ completed' \subseteq everCompleted'
<1>1. r \in RunIds
  BY AutopatchAssumption DEF TypeOK, RunsType, RunIds
<1>2. \/ tracker' = tracker \cup {<<r, i>>} /\ inTime' \in {inTime, inTime \cup {<<r, i>>}}
      \/ UNCHANGED <<tracker, inTime>>
  BY DEF Track
<1>3. tracker \subseteq tracker' /\ inTime' \subseteq tracker' /\ tracker' \subseteq RunIds \X Instances
  BY <1>1, <1>2 DEF TypeOK, RunsType
<1>4. \A q \in inTime' : q \in inTime \/ q[1] \notin everCompleted
  BY DEF Track
<1> QED
  BY <1>3, <1>4 DEF Grows, TypeOK, RunsType, runVars

LEMMA ScannerStep ==
    ASSUME AutopatchInv, Scanner
    PROVE  AutopatchInv'
<1> USE AutopatchAssumption DEF AutopatchInv
<1>1. ASSUME NEW t \in Tags, CreateScannerRun(t)
      PROVE  AutopatchInv'
  <2>1. nRuns + 1 \in RunIds /\ nRuns + 1 \notin 1..nRuns /\ nRuns' = nRuns + 1
    BY <1>1 DEF CreateScannerRun, TypeOK, RunsType, RunIds
  <2>2. Grows
    BY <1>1, <2>1 DEF CreateScannerRun, Grows, repVars, TypeOK, RunsType, RunIds
  <2>3. RunsType'
    BY <1>1, <2>1 DEF CreateScannerRun, repVars, TypeOK, RunsType, RunIds
  <2>4. TablesType' /\ UNCHANGED <<req, inst, completed, everCompleted>>
    BY <1>1 DEF CreateScannerRun, instVars, catVars, matchVars, TypeOK, TablesType
  <2> QED
    BY <2>2, <2>3, <2>4, OutsideLemma
<1>2. ASSUME NEW r \in RunIds, NEW i \in Instances, NEW v \in Versions,
             CreateComponentInstance(r, i, v)
      PROVE  AutopatchInv'
  <2>1. Grows /\ RunsType' /\ completed' \subseteq everCompleted'
    BY <1>2, TrackLemma DEF CreateComponentInstance
  <2>2. TablesType' /\ UNCHANGED req
    BY <1>2 DEF CreateComponentInstance, catVars, TypeOK, TablesType
  <2>3. \A j \in Instances : inst'[j] = "deleted" => inst[j] = "deleted"
    BY <1>2 DEF CreateComponentInstance, TypeOK, TablesType
  <2> QED
    BY <2>1, <2>2, <2>3, OutsideLemma
<1>3. ASSUME NEW r \in RunIds, NEW i \in Instances, NEW v \in Versions,
             UpdateComponentInstance(r, i, v)
      PROVE  AutopatchInv'
  <2>1. Grows /\ RunsType' /\ completed' \subseteq everCompleted'
    BY <1>3, TrackLemma DEF UpdateComponentInstance
  <2>2. TablesType' /\ UNCHANGED <<req, inst>>
    BY <1>3, VanishedType DEF UpdateComponentInstance, catVars, matchVars, TypeOK, TablesType
  <2> QED
    BY <2>1, <2>2, OutsideLemma
<1>4. ASSUME NEW r \in RunIds, FailScannerRun(r)
      PROVE  AutopatchInv'
  <2>1. Grows /\ RunsType' /\ completed' \subseteq everCompleted'
    BY <1>4 DEF FailScannerRun, repVars, TypeOK, RunsType, Grows
  <2>2. TablesType' /\ UNCHANGED <<req, inst>>
    BY <1>4 DEF FailScannerRun, instVars, catVars, matchVars, TypeOK, TablesType
  <2> QED
    BY <2>1, <2>2, OutsideLemma
<1> QED
  BY <1>1, <1>2, <1>3, <1>4 DEF Scanner

LEMMA WorkerStep ==
    ASSUME AutopatchInv, NEW i \in Instances, OnComponentInstanceCreate(i)
    PROVE  AutopatchInv'
<1>1. Grows /\ RunsType' /\ completed' \subseteq everCompleted'
  BY DEF OnComponentInstanceCreate, AutopatchInv, runVars, repVars, TypeOK, RunsType, Grows
<1> DEFINE new == {<<i, x>> : x \in {y \in Issues : <<instVersion[i], y>> \in links}}
<1>2. new \subseteq Instances \X Issues
  <2> SUFFICES ASSUME NEW m \in new PROVE m \in Instances \X Issues
    OBVIOUS
  <2>1. PICK x \in Issues : m = <<i, x>>
    OBVIOUS
  <2> QED
    BY <2>1
<1>3. matches' = matches \cup new /\ matched' = matched \cup new
  BY DEF OnComponentInstanceCreate
<1> HIDE DEF new
<1>4. TablesType' /\ UNCHANGED <<req, inst>>
  BY <1>2, <1>3 DEF OnComponentInstanceCreate, AutopatchInv, instVars, catVars, TypeOK, TablesType
<1> QED
  BY <1>1, <1>4, OutsideLemma

\* Completing a run adds to the completed runs and starts a call.
LEMMA CompleteStep ==
    ASSUME AutopatchInv, NEW a \in Requests, NEW r \in RunIds, CompleteScannerRun(a, r)
    PROVE  AutopatchInv'
<1> DEFINE d == [req[a] EXCEPT !.pc = "runs"]
<1>1. Grows /\ RunsType' /\ completed' \subseteq everCompleted'
  BY DEF CompleteScannerRun, AutopatchInv, repVars, TypeOK, RunsType, Grows
<1>2. TablesType' /\ UNCHANGED inst
  BY DEF CompleteScannerRun, AutopatchInv, instVars, catVars, matchVars, TypeOK, TablesType
<1>3. req[a] \in Call
  BY DEF AutopatchInv, TypeOK
<1>4. d \in Call /\ req' = [req EXCEPT ![a] = d]
  BY <1>3 DEF CompleteScannerRun, AutopatchInv, TypeOK, Call, Phases
<1>5. CallOK(d)
  BY <1>3 DEF CallOK, AutopatchInv, Call
<1>6. ASSUME NEW b \in Requests
      PROVE  CallOK(req[b])'
  <2>1. CallOK(req'[b])
    BY <1>4, <1>5 DEF AutopatchInv, TypeOK
  <2> QED
    BY <1>1, <2>1, CallStable
<1>7. AbsenceConfirmed'
  BY <1>1, <1>2, ConfirmedStable DEF AutopatchInv, AbsenceConfirmed
<1> QED
  BY <1>1, <1>2, <1>4, <1>6, <1>7 DEF AutopatchInv, TypeOK

-----------------------------------------------------------------------------
(* The queries of Autopatch.                                               *)

\* A call that is left, or whose tag is done, holds nothing that is deleted.
LEMMA LeaveLemma ==
    ASSUME AutopatchInv, NEW a \in Requests
    PROVE  /\ req[a] \in Call /\ CallOK(req[a])
           /\ Idle \in Call /\ CallOK(Idle)
           /\ NextTag(a) \in Call /\ CallOK(NextTag(a))
<1>1. req[a] \in Call /\ CallOK(req[a])
  BY DEF AutopatchInv, TypeOK
<1>2. Idle \in Call /\ CallOK(Idle)
  BY DEF Idle, Call, Phases, CallOK
<1>3. NextTag(a) \in Call /\ CallOK(NextTag(a))
  BY <1>1 DEF NextTag, Idle, Call, Phases, CallOK
<1> QED
  BY <1>1, <1>2, <1>3

\* A query that only reads: the tables stay.
LEMMA ReadLemma ==
    ASSUME AutopatchInv, NEW a \in Requests, NEW d \in Call, CallOK(d),
           req' = [req EXCEPT ![a] = d],
           UNCHANGED <<runVars, repVars, instVars, catVars, matchVars, patches>>
    PROVE  AutopatchInv'
<1>1. TablesType' /\ UNCHANGED inst
  BY DEF AutopatchInv, TypeOK, TablesType, instVars, catVars, matchVars
<1> QED
  BY <1>1, QueryLemma

\* The pairs of runs that are compared are completed runs of one tag.
LEMMA RunsStep ==
    ASSUME AutopatchInv, NEW a \in Requests, fetchCompletedRunsWithNewestFirst(a)
    PROVE  AutopatchInv'
<1> DEFINE d == [req[a] EXCEPT !.pc = "tag", !.todo = NewestTwo]
<1>1. req[a] \in Call /\ CallOK(req[a])
  BY LeaveLemma
<1>2. NewestTwo \subseteq RunIds \X RunIds
  <2>1. completed \subseteq RunIds
    BY AutopatchAssumption DEF AutopatchInv, TypeOK, RunsType, RunIds
  <2> QED
    BY <2>1 DEF NewestTwo
<1>3. \A p \in NewestTwo : ValidPair(p)
  BY DEF NewestTwo, ValidPair, AutopatchInv
<1>4. d \in Call
  BY <1>1, <1>2 DEF Call, Phases
<1>5. CallOK(d)
  BY <1>1, <1>3 DEF Call, CallOK
<1>6. req' = [req EXCEPT ![a] = d]
  BY <1>1 DEF fetchCompletedRunsWithNewestFirst, AutopatchInv, TypeOK, Call
<1> QED
  BY <1>4, <1>5, <1>6, ReadLemma DEF fetchCompletedRunsWithNewestFirst

LEMMA TagStep ==
    ASSUME AutopatchInv, NEW a \in Requests, processAutopatchOnCompletedRuns(a)
    PROVE  AutopatchInv'
<1>1. req[a] \in Call /\ CallOK(req[a])
  BY LeaveLemma
<1>2. PICK p \in req[a].todo :
         req' = [req EXCEPT ![a].pc = "latest", ![a].pair = p, ![a].todo = @ \ {p}]
  BY DEF processAutopatchOnCompletedRuns
<1> DEFINE d == [req[a] EXCEPT !.pc = "latest", !.pair = p, !.todo = @ \ {p}]
<1>3. p \in Nat \X Nat
  BY <1>1, AutopatchAssumption DEF Call, RunIds
<1>4. d \in Call
  BY <1>1, <1>3 DEF Call, Phases
<1>5. CallOK(d)
  BY <1>1 DEF Call, CallOK
<1>6. req' = [req EXCEPT ![a] = d]
  BY <1>1, <1>2 DEF AutopatchInv, TypeOK, Call
<1> QED
  BY <1>4, <1>5, <1>6, ReadLemma DEF processAutopatchOnCompletedRuns

\* The newer run's instances include all that were tracked in time.
LEMMA LatestStep ==
    ASSUME AutopatchInv, NEW a \in Requests, fetchLatestInstances(a)
    PROVE  AutopatchInv'
<1> DEFINE seen == TrackedIn(req[a].pair[1])
           d == [req[a] EXCEPT !.pc = "second", !.seen = seen]
<1>1. req[a] \in Call /\ CallOK(req[a])
  BY LeaveLemma
<1>2. /\ seen \subseteq Instances
      /\ \A i \in Instances : <<req[a].pair[1], i>> \in inTime => i \in seen
  BY DEF TrackedIn, AutopatchInv, TypeOK, RunsType
<1>3. req' = [req EXCEPT ![a] = d]
  BY <1>1 DEF fetchLatestInstances, AutopatchInv, TypeOK, Call
<1> HIDE DEF seen
<1>4. d \in Call
  BY <1>1, <1>2 DEF Call, Phases
<1>5. CallOK(d)
  BY <1>1, <1>2 DEF Call, CallOK, fetchLatestInstances
<1> QED
  BY <1>3, <1>4, <1>5, ReadLemma DEF fetchLatestInstances

\* What disappeared between two completed runs is confirmed to be absent.
LEMMA SecondStep ==
    ASSUME AutopatchInv, NEW a \in Requests, fetchSecondLatestInstances(a)
    PROVE  AutopatchInv'
<1> DEFINE gone == getDisappearedInstances(req[a].seen, TrackedIn(req[a].pair[2]))
           d == [NextTag(a) EXCEPT !.pc = IF gone = {} THEN "tag" ELSE "info",
                                   !.gone = gone, !.work = gone]
<1>1. /\ req[a] \in Call /\ CallOK(req[a]) /\ req[a].pc = "second"
      /\ NextTag(a) \in Call /\ CallOK(NextTag(a))
  BY LeaveLemma DEF fetchSecondLatestInstances
<1>2. ASSUME NEW i \in gone
      PROVE  i \in Instances /\ Confirmed(i)
  <2>1. i \in Instances /\ <<req[a].pair[2], i>> \in tracker /\ i \notin req[a].seen
    BY DEF getDisappearedInstances, TrackedIn
  <2>2. Absent(i, req[a].pair[2], req[a].pair[1])
    BY <1>1, <2>1 DEF Absent, CallOK, ValidPair
  <2> QED
    BY <1>1, <2>1, <2>2 DEF Confirmed, CallOK, ValidPair
<1>3. req' = [req EXCEPT ![a] = d]
  BY DEF fetchSecondLatestInstances
<1> HIDE DEF gone
<1>4. d \in Call
  BY <1>1, <1>2 DEF Call, Phases
<1>5. CallOK(d)
  BY <1>1, <1>2 DEF Call, CallOK, NextTag, Idle
<1> QED
  BY <1>3, <1>4, <1>5, ReadLemma DEF fetchSecondLatestInstances

LEMMA PatchInfoType ==
    ASSUME AutopatchInv, NEW i \in Instances
    PROVE  PatchInfo(i) \subseteq Pairs
<1>1. Deployment(i) \in Pairs
  BY AutopatchAssumption DEF AutopatchInv, TypeOK, TablesType, Deployment, Pairs
<1> QED
  BY <1>1 DEF PatchInfo

\* Only instances that are live and whose version is live yield a patch.
LEMMA PatchesStep ==
    ASSUME AutopatchInv, NEW a \in Requests, getPatches(a)
    PROVE  AutopatchInv'
<1>1. req[a] \in Call /\ CallOK(req[a]) /\ req[a].pc = "info"
  BY LeaveLemma DEF getPatches
<1>2. ASSUME NEW i \in req[a].work,
             req' = [req EXCEPT ![a].work = @ \ {i}, ![a].info = @ \cup PatchInfo(i)]
      PROVE  AutopatchInv'
  <2> DEFINE new == PatchInfo(i)
             d == [req[a] EXCEPT !.work = @ \ {i}, !.info = @ \cup new]
  <2>1. i \in Instances
    BY <1>1 DEF Call, CallOK
  <2>2. new \subseteq Pairs
    BY <2>1, PatchInfoType
  <2>3. req' = [req EXCEPT ![a] = d]
    BY <1>1, <1>2 DEF AutopatchInv, TypeOK, Call
  <2> HIDE DEF new
  <2>4. d \in Call
    BY <1>1, <2>2 DEF Call, Phases
  <2>5. CallOK(d)
    BY <1>1 DEF Call, CallOK
  <2> QED
    BY <2>3, <2>4, <2>5, ReadLemma DEF getPatches
<1>3. ASSUME req' = [req EXCEPT ![a].pc = "unmatch", ![a].work = req[a].gone]
      PROVE  AutopatchInv'
  <2> DEFINE d == [req[a] EXCEPT !.pc = "unmatch", !.work = req[a].gone]
  <2>1. d \in Call /\ req' = [req EXCEPT ![a] = d]
    BY <1>1, <1>3 DEF Call, Phases, AutopatchInv, TypeOK
  <2>2. CallOK(d)
    BY <1>1 DEF Call, CallOK
  <2> QED
    BY <2>1, <2>2, ReadLemma DEF getPatches
<1> QED
  BY <1>2, <1>3 DEF getPatches

\* The rows listed belong to an instance that disappeared.
LEMMA ListMatchesStep ==
    ASSUME AutopatchInv, NEW a \in Requests, GetAllIssueMatchIds(a)
    PROVE  AutopatchInv'
<1>1. req[a] \in Call /\ CallOK(req[a]) /\ req[a].pc = "unmatch"
  BY LeaveLemma DEF GetAllIssueMatchIds
<1>2. ASSUME NEW i \in req[a].work,
             req' = [req EXCEPT ![a].pc = "deleteMatch", ![a].work = @ \ {i},
                                ![a].rows = MatchesOf(i)]
      PROVE  AutopatchInv'
  <2> DEFINE rows == MatchesOf(i)
             d == [req[a] EXCEPT !.pc = "deleteMatch", !.work = @ \ {i}, !.rows = rows]
  <2>1. rows \subseteq Instances \X Issues /\ \A m \in rows : m[1] = i
    BY DEF MatchesOf, AutopatchInv, TypeOK, TablesType
  <2>2. i \in req[a].gone
    BY <1>1 DEF CallOK
  <2>3. req' = [req EXCEPT ![a] = d]
    BY <1>1, <1>2 DEF AutopatchInv, TypeOK, Call
  <2> HIDE DEF rows
  <2>4. d \in Call
    BY <1>1, <2>1 DEF Call, Phases
  <2>5. CallOK(d)
    BY <1>1, <2>1, <2>2 DEF Call, CallOK
  <2> QED
    BY <2>3, <2>4, <2>5, ReadLemma DEF GetAllIssueMatchIds
<1>3. ASSUME req' = [req EXCEPT ![a].pc = "versions"]
      PROVE  AutopatchInv'
  <2> DEFINE d == [req[a] EXCEPT !.pc = "versions"]
  <2>1. d \in Call /\ req' = [req EXCEPT ![a] = d]
    BY <1>1, <1>3 DEF Call, Phases, AutopatchInv, TypeOK
  <2>2. CallOK(d)
    BY <1>1 DEF Call, CallOK
  <2> QED
    BY <2>1, <2>2, ReadLemma DEF GetAllIssueMatchIds
<1> QED
  BY <1>2, <1>3 DEF GetAllIssueMatchIds

LEMMA UnmatchStep ==
    ASSUME AutopatchInv, NEW a \in Requests, deleteIssueMatchesOfDisappearedInstances(a)
    PROVE  AutopatchInv'
<1>1. req[a] \in Call /\ CallOK(req[a]) /\ req[a].pc = "deleteMatch"
  BY LeaveLemma DEF deleteIssueMatchesOfDisappearedInstances
<1>2. matches' \subseteq matches
  BY DEF deleteIssueMatchesOfDisappearedInstances
<1>3. UNCHANGED <<runVars, repVars>> /\ TablesType' /\ UNCHANGED inst
  BY <1>2 DEF deleteIssueMatchesOfDisappearedInstances, instVars, catVars, AutopatchInv, TypeOK, TablesType
<1>4. CASE \E m \in req[a].rows : req' = [req EXCEPT ![a].rows = @ \ {m}]
  <2>1. PICK m \in req[a].rows : req' = [req EXCEPT ![a].rows = @ \ {m}]
    BY <1>4
  <2> DEFINE d == [req[a] EXCEPT !.rows = @ \ {m}]
  <2>2. d \in Call /\ req' = [req EXCEPT ![a] = d]
    BY <1>1, <2>1 DEF Call, AutopatchInv, TypeOK
  <2>3. CallOK(d)
    BY <1>1 DEF Call, CallOK
  <2> QED
    BY <1>3, <2>2, <2>3, QueryLemma
<1>5. CASE req' = [req EXCEPT ![a].pc = "unmatch"]
  <2> DEFINE d == [req[a] EXCEPT !.pc = "unmatch"]
  <2>1. d \in Call /\ req' = [req EXCEPT ![a] = d]
    BY <1>1, <1>5 DEF Call, Phases, AutopatchInv, TypeOK
  <2>2. CallOK(d)
    BY <1>1 DEF Call, CallOK
  <2> QED
    BY <1>3, <2>1, <2>2, QueryLemma
<1> QED
  BY <1>4, <1>5 DEF deleteIssueMatchesOfDisappearedInstances

LEMMA VersionsStep ==
    ASSUME AutopatchInv, NEW a \in Requests, getVersionIdsOfDisappearedInstances(a)
    PROVE  AutopatchInv'
<1> DEFINE vers == {instVersion[i] : i \in FirstPage(req[a].gone \cap LiveInstances)}
           d == [req[a] EXCEPT !.pc = "delete", !.work = req[a].gone, !.vers = vers]
<1>1. req[a] \in Call /\ CallOK(req[a])
  BY LeaveLemma
<1>2. vers \subseteq Versions
  <2>1. FirstPage(req[a].gone \cap LiveInstances) \subseteq Instances
    BY <1>1 DEF FirstPage, Call
  <2> QED
    BY <2>1 DEF AutopatchInv, TypeOK, TablesType
<1>3. req' = [req EXCEPT ![a] = d]
  BY <1>1 DEF getVersionIdsOfDisappearedInstances, AutopatchInv, TypeOK, Call
<1> HIDE DEF vers
<1>4. d \in Call
  BY <1>1, <1>2 DEF Call, Phases
<1>5. CallOK(d)
  BY <1>1 DEF Call, CallOK
<1> QED
  BY <1>3, <1>4, <1>5, ReadLemma DEF getVersionIdsOfDisappearedInstances

\* Only instances whose absence is confirmed are deleted.
LEMMA DeleteStep ==
    ASSUME AutopatchInv, NEW a \in Requests, deleteDisappearedInstances(a)
    PROVE  AutopatchInv'
<1>1. req[a] \in Call /\ CallOK(req[a]) /\ req[a].pc = "delete"
  BY LeaveLemma DEF deleteDisappearedInstances
<1>2. UNCHANGED <<runVars, repVars>>
  BY DEF deleteDisappearedInstances
<1>3. ASSUME NEW i \in req[a].work, DeleteComponentInstance(i),
             req' = [req EXCEPT ![a].work = @ \ {i}]
      PROVE  AutopatchInv'
  <2> DEFINE d == [req[a] EXCEPT !.work = @ \ {i}]
  <2>1. i \in Instances /\ Confirmed(i)
    BY <1>1 DEF Call, CallOK
  <2>2. d \in Call /\ req' = [req EXCEPT ![a] = d]
    BY <1>1, <1>3 DEF Call, AutopatchInv, TypeOK
  <2>3. CallOK(d)
    BY <1>1 DEF Call, CallOK
  <2>4. TablesType'
    BY <1>3, <2>1, VanishedType
       DEF deleteDisappearedInstances, DeleteComponentInstance, catVars, matchVars,
           AutopatchInv, TypeOK, TablesType
  <2>5. \A j \in Instances : inst'[j] = "deleted" => inst[j] = "deleted" \/ Confirmed(j)
    BY <1>3, <2>1 DEF DeleteComponentInstance, AutopatchInv, TypeOK, TablesType
  <2> QED
    BY <1>2, <2>2, <2>3, <2>4, <2>5, QueryLemma
<1>4. ASSUME req' = [req EXCEPT ![a].pc = "components"], UNCHANGED <<inst, vanished>>
      PROVE  AutopatchInv'
  <2> DEFINE d == [req[a] EXCEPT !.pc = "components"]
  <2>1. d \in Call /\ req' = [req EXCEPT ![a] = d]
    BY <1>1, <1>4 DEF Call, Phases, AutopatchInv, TypeOK
  <2>2. CallOK(d)
    BY <1>1 DEF Call, CallOK
  <2>3. UNCHANGED <<instVars, catVars, matchVars, patches>>
    BY <1>4 DEF deleteDisappearedInstances, instVars
  <2> QED
    BY <1>2, <2>1, <2>2, <2>3, ReadLemma
<1> QED
  BY <1>3, <1>4 DEF deleteDisappearedInstances

LEMMA ComponentsStep ==
    ASSUME AutopatchInv, NEW a \in Requests, getComponentIdsOfDisappearedInstances(a)
    PROVE  AutopatchInv'
<1> DEFINE rows == IF req[a].vers = {} THEN liveVersions ELSE req[a].vers \cap liveVersions
           comps == {ComponentOf[v] : v \in rows}
           d == [req[a] EXCEPT !.pc = "checkVersion", !.work = req[a].vers, !.comps = comps]
<1>1. req[a] \in Call /\ CallOK(req[a])
  BY LeaveLemma
<1>2. comps \subseteq Components
  BY AutopatchAssumption DEF AutopatchInv, TypeOK, TablesType
<1>3. req' = [req EXCEPT ![a] = d]
  BY <1>1 DEF getComponentIdsOfDisappearedInstances, AutopatchInv, TypeOK, Call
<1> HIDE DEF comps
<1>4. d \in Call
  BY <1>1, <1>2 DEF Call, Phases
<1>5. CallOK(d)
  BY <1>1 DEF Call, CallOK
<1> QED
  BY <1>3, <1>4, <1>5, ReadLemma DEF getComponentIdsOfDisappearedInstances

LEMMA CheckVersionStep ==
    ASSUME AutopatchInv, NEW a \in Requests, checkVersionOfDisappearedInstances(a)
    PROVE  AutopatchInv'
<1>1. req[a] \in Call /\ CallOK(req[a]) /\ req[a].pc = "checkVersion"
  BY LeaveLemma DEF checkVersionOfDisappearedInstances
<1>2. PICK d \in { [req[a] EXCEPT !.work = @ \ {v}] : v \in req[a].work } \cup
                 { [req[a] EXCEPT !.pc = "unlink", !.unused = {v}, !.inner = req[a].vers] :
                      v \in req[a].work } \cup
                 { [req[a] EXCEPT !.pc = "checkComponent", !.work = req[a].comps] } :
         req' = [req EXCEPT ![a] = d]
  <2>1. CASE \E v \in req[a].work : req' = [req EXCEPT ![a].work = @ \ {v}]
    <3>1. PICK v \in req[a].work : req' = [req EXCEPT ![a].work = @ \ {v}]
      BY <2>1
    <3>2. req' = [req EXCEPT ![a] = [req[a] EXCEPT !.work = @ \ {v}]]
      BY <3>1, <1>1 DEF AutopatchInv, TypeOK, Call
    <3> QED
      BY <3>2
  <2>2. CASE \E v \in req[a].work :
                req' = [req EXCEPT ![a].pc = "unlink", ![a].unused = {v}, ![a].inner = req[a].vers]
    <3>1. PICK v \in req[a].work :
             req' = [req EXCEPT ![a].pc = "unlink", ![a].unused = {v}, ![a].inner = req[a].vers]
      BY <2>2
    <3>2. req' = [req EXCEPT ![a] =
                     [req[a] EXCEPT !.pc = "unlink", !.unused = {v}, !.inner = req[a].vers]]
      BY <3>1, <1>1 DEF AutopatchInv, TypeOK, Call
    <3> QED
      BY <3>2
  <2>3. CASE req' = [req EXCEPT ![a].pc = "checkComponent", ![a].work = req[a].comps]
    BY <2>3, <1>1 DEF AutopatchInv, TypeOK, Call
  <2> QED
    BY <2>1, <2>2, <2>3 DEF checkVersionOfDisappearedInstances
<1>3. d \in Call /\ CallOK(d)
  <2>1. ASSUME NEW v \in req[a].work, d = [req[a] EXCEPT !.work = @ \ {v}]
        PROVE  d \in Call /\ CallOK(d)
    BY <1>1, <2>1 DEF Call, CallOK
  <2>2. ASSUME NEW v \in req[a].work,
               d = [req[a] EXCEPT !.pc = "unlink", !.unused = {v}, !.inner = req[a].vers]
        PROVE  d \in Call /\ CallOK(d)
    BY <1>1, <2>2 DEF Call, Phases, CallOK
  <2>3. ASSUME d = [req[a] EXCEPT !.pc = "checkComponent", !.work = req[a].comps]
        PROVE  d \in Call /\ CallOK(d)
    BY <1>1, <2>3 DEF Call, Phases, CallOK
  <2> QED
    BY <1>2, <2>1, <2>2, <2>3
<1> QED
  BY <1>2, <1>3, ReadLemma DEF checkVersionOfDisappearedInstances

LEMMA UnlinkStep ==
    ASSUME AutopatchInv, NEW a \in Requests, removeIssuesFromVersions(a)
    PROVE  AutopatchInv'
<1>1. req[a] \in Call /\ CallOK(req[a]) /\ req[a].pc = "unlink"
  BY LeaveLemma DEF removeIssuesFromVersions
<1>2. TablesType' /\ UNCHANGED <<inst, runVars, repVars>>
  BY DEF removeIssuesFromVersions, instVars, matchVars, AutopatchInv, TypeOK, TablesType
<1>3. CASE \E v \in req[a].inner : req' = [req EXCEPT ![a].inner = @ \ {v}]
  <2>1. PICK v \in req[a].inner : req' = [req EXCEPT ![a].inner = @ \ {v}]
    BY <1>3
  <2> DEFINE d == [req[a] EXCEPT !.inner = @ \ {v}]
  <2>2. d \in Call /\ req' = [req EXCEPT ![a] = d]
    BY <1>1, <2>1 DEF Call, AutopatchInv, TypeOK
  <2>3. CallOK(d)
    BY <1>1 DEF Call, CallOK
  <2> QED
    BY <1>2, <2>2, <2>3, QueryLemma
<1>4. CASE req' = [req EXCEPT ![a].pc = "dropVersion"]
  <2> DEFINE d == [req[a] EXCEPT !.pc = "dropVersion"]
  <2>1. d \in Call /\ req' = [req EXCEPT ![a] = d]
    BY <1>1, <1>4 DEF Call, Phases, AutopatchInv, TypeOK
  <2>2. CallOK(d)
    BY <1>1 DEF Call, CallOK
  <2> QED
    BY <1>2, <2>1, <2>2, QueryLemma
<1> QED
  BY <1>3, <1>4 DEF removeIssuesFromVersions

LEMMA DropVersionStep ==
    ASSUME AutopatchInv, NEW a \in Requests, deleteVersionsOfDisappearedInstances(a)
    PROVE  AutopatchInv'
<1> DEFINE d == [req[a] EXCEPT !.pc = "checkVersion", !.work = @ \ req[a].unused, !.unused = {}]
<1>1. req[a] \in Call /\ CallOK(req[a]) /\ req[a].pc = "dropVersion"
  BY LeaveLemma DEF deleteVersionsOfDisappearedInstances
<1>2. TablesType' /\ UNCHANGED <<inst, runVars, repVars>>
  BY DEF deleteVersionsOfDisappearedInstances, instVars, matchVars, AutopatchInv, TypeOK, TablesType
<1>3. d \in Call /\ req' = [req EXCEPT ![a] = d]
  BY <1>1 DEF deleteVersionsOfDisappearedInstances, Call, Phases, AutopatchInv, TypeOK
<1>4. CallOK(d)
  BY <1>1 DEF Call, CallOK
<1> QED
  BY <1>2, <1>3, <1>4, QueryLemma

LEMMA CheckComponentStep ==
    ASSUME AutopatchInv, NEW a \in Requests, checkComponentOfDisappearedInstances(a)
    PROVE  AutopatchInv'
<1>1. req[a] \in Call /\ CallOK(req[a]) /\ req[a].pc = "checkComponent"
  BY LeaveLemma DEF checkComponentOfDisappearedInstances
<1>2. ASSUME NEW c \in req[a].work, req' = [req EXCEPT ![a].work = @ \ {c}]
      PROVE  AutopatchInv'
  <2> DEFINE d == [req[a] EXCEPT !.work = @ \ {c}]
  <2>1. d \in Call /\ req' = [req EXCEPT ![a] = d]
    BY <1>1, <1>2 DEF Call, AutopatchInv, TypeOK
  <2>2. CallOK(d)
    BY <1>1 DEF Call, CallOK
  <2> QED
    BY <2>1, <2>2, ReadLemma DEF checkComponentOfDisappearedInstances
<1>3. ASSUME NEW c \in req[a].work,
             req' = [req EXCEPT ![a].pc = "dropComponent", ![a].unused = {c}]
      PROVE  AutopatchInv'
  <2> DEFINE d == [req[a] EXCEPT !.pc = "dropComponent", !.unused = {c}]
  <2>1. c \in Components
    BY <1>1 DEF Call, CallOK
  <2>2. d \in Call /\ req' = [req EXCEPT ![a] = d]
    BY <1>1, <1>3, <2>1 DEF Call, Phases, AutopatchInv, TypeOK
  <2>3. CallOK(d)
    BY <1>1 DEF Call, CallOK
  <2> QED
    BY <2>2, <2>3, ReadLemma DEF checkComponentOfDisappearedInstances
<1>4. ASSUME req' = [req EXCEPT ![a].pc = "insert"]
      PROVE  AutopatchInv'
  <2> DEFINE d == [req[a] EXCEPT !.pc = "insert"]
  <2>1. d \in Call /\ req' = [req EXCEPT ![a] = d]
    BY <1>1, <1>4 DEF Call, Phases, AutopatchInv, TypeOK
  <2>2. CallOK(d)
    BY <1>1 DEF Call, CallOK
  <2> QED
    BY <2>1, <2>2, ReadLemma DEF checkComponentOfDisappearedInstances
<1> QED
  BY <1>2, <1>3, <1>4 DEF checkComponentOfDisappearedInstances

LEMMA DropComponentStep ==
    ASSUME AutopatchInv, NEW a \in Requests, deleteComponentsOfDisappearedInstances(a)
    PROVE  AutopatchInv'
<1> DEFINE d == [req[a] EXCEPT !.pc = "checkComponent", !.work = @ \ req[a].unused, !.unused = {}]
<1>1. req[a] \in Call /\ CallOK(req[a]) /\ req[a].pc = "dropComponent"
  BY LeaveLemma DEF deleteComponentsOfDisappearedInstances
<1>2. TablesType' /\ UNCHANGED <<inst, runVars, repVars>>
  BY DEF deleteComponentsOfDisappearedInstances, instVars, matchVars, AutopatchInv, TypeOK, TablesType
<1>3. d \in Call /\ req' = [req EXCEPT ![a] = d]
  BY <1>1 DEF deleteComponentsOfDisappearedInstances, Call, Phases, AutopatchInv, TypeOK
<1>4. CallOK(d)
  BY <1>1 DEF Call, CallOK
<1> QED
  BY <1>2, <1>3, <1>4, QueryLemma

LEMMA InsertStep ==
    ASSUME AutopatchInv, NEW a \in Requests, insertPatches(a)
    PROVE  AutopatchInv'
<1>1. /\ req[a] \in Call /\ CallOK(req[a]) /\ req[a].pc = "insert"
      /\ NextTag(a) \in Call /\ CallOK(NextTag(a))
  BY LeaveLemma DEF insertPatches
<1>2. patches' \in [Pairs -> Nat]
  BY <1>1 DEF insertPatches, insertPatchIfNoInstanceExists, Call, AutopatchInv, TypeOK, TablesType
<1>3. TablesType' /\ UNCHANGED <<inst, runVars, repVars>>
  BY <1>2 DEF insertPatches, instVars, catVars, matchVars, AutopatchInv, TypeOK, TablesType
<1>4. CASE \E p \in req[a].info : req' = [req EXCEPT ![a].info = @ \ {p}]
  <2>1. PICK p \in req[a].info : req' = [req EXCEPT ![a].info = @ \ {p}]
    BY <1>4
  <2> DEFINE d == [req[a] EXCEPT !.info = @ \ {p}]
  <2>2. d \in Call /\ req' = [req EXCEPT ![a] = d]
    BY <1>1, <2>1 DEF Call, AutopatchInv, TypeOK
  <2>3. CallOK(d)
    BY <1>1 DEF Call, CallOK
  <2> QED
    BY <1>3, <2>2, <2>3, QueryLemma
<1>5. CASE req' = [req EXCEPT ![a] = NextTag(a)]
  BY <1>1, <1>3, <1>5, QueryLemma
<1> QED
  BY <1>4, <1>5 DEF insertPatches

\* A call that ends, with or without an error.
LEMMA EndStep ==
    ASSUME AutopatchInv, NEW a \in Requests, AutopatchReturn(a) \/ AutopatchError(a)
    PROVE  AutopatchInv'
<1>1. req' = [req EXCEPT ![a] = Idle]
  BY DEF AutopatchReturn, AutopatchError
<1>2. UNCHANGED <<runVars, repVars, instVars, catVars, matchVars, patches>>
  BY DEF AutopatchReturn, AutopatchError
<1> QED
  BY <1>1, <1>2, LeaveLemma, ReadLemma

LEMMA NextInv == AutopatchInv /\ [Next]_vars => AutopatchInv'
<1> SUFFICES ASSUME AutopatchInv, [Next]_vars PROVE AutopatchInv'
  OBVIOUS
<1>1. CASE Scanner
  BY <1>1, ScannerStep
<1>2. CASE \E i \in Instances : OnComponentInstanceCreate(i)
  BY <1>2, WorkerStep
<1>3. CASE \E a \in Requests, r \in RunIds : CompleteScannerRun(a, r)
  BY <1>3, CompleteStep
<1>4. CASE \E a \in Requests : Autopatch(a) \/ AutopatchError(a)
  BY <1>4, RunsStep, TagStep, LatestStep, SecondStep, PatchesStep, ListMatchesStep, UnmatchStep,
     VersionsStep, DeleteStep, ComponentsStep, CheckVersionStep, UnlinkStep,
     DropVersionStep, CheckComponentStep, DropComponentStep, InsertStep, EndStep DEF Autopatch
<1>5. CASE UNCHANGED vars
  <2>1. /\ UNCHANGED <<nRuns, runTag, completed, everCompleted, overlapped, tracker, inTime>>
        /\ UNCHANGED <<inst, instVersion, vanished, liveVersions, liveComponents, links>>
        /\ UNCHANGED <<matches, matched, created, patches, req>>
    BY <1>5 DEF vars, runVars, repVars, instVars, catVars, matchVars
  <2>2. Grows /\ RunsType' /\ TablesType' /\ completed' \subseteq everCompleted'
    BY <2>1 DEF Grows, AutopatchInv, TypeOK, RunsType, TablesType
  <2> QED
    BY <2>1, <2>2, OutsideLemma
<1> QED
  BY <1>1, <1>2, <1>3, <1>4, <1>5 DEF Next

-----------------------------------------------------------------------------
(* The theorems.                                                           *)

\* The invariant behind the theorems below: at every moment each Autopatch
\* call in progress holds only absences that two completed runs confirm.
THEOREM Invariance == Spec => []AutopatchInv
<1> QED
  BY InitInv, NextInv, PTL DEF Spec

\* The tables and the calls keep their types: no run is completed that does
\* not exist and nothing is tracked that no scanner reported.
THEOREM TypeCorrect == Spec => []TypeOK
<1>1. AutopatchInv => TypeOK
  BY DEF AutopatchInv
<1> QED
  BY <1>1, Invariance, PTL

\* Autopatch deletes an instance only if a completed run confirms its absence,
\* for any number of concurrent completions, late reports, failed runs and
\* calls that stop half way.
THEOREM DeletedOnlyIfAbsent == Spec => []AbsenceConfirmed
<1>1. AutopatchInv => AbsenceConfirmed
  BY DEF AutopatchInv
<1> QED
  BY <1>1, Invariance, PTL
-----------------------------------------------------------------------------
(* What calls that do not overlap achieve.  First, what each query does to *)
(* the locals of its call; the other calls keep theirs.                    *)

Others(a) == \A b \in Requests : b # a => req'[b] = req[b]

\* The tables that the invariants below speak of.
tables == <<tracker, inst, instVersion, vanished, liveVersions, liveComponents,
            matches, matched, created, patches, alone>>

Early == {"idle", "runs", "tag", "latest", "second"}

LEMMA SetCall ==
    ASSUME AutopatchInv, NEW a \in Requests, NEW d, req' = [req EXCEPT ![a] = d]
    PROVE  Others(a) /\ req'[a] = d
  BY DEF AutopatchInv, TypeOK, Others

LEMMA CompleteFields ==
    ASSUME AutopatchInv, NEW a \in Requests, NEW r \in RunIds,
           CompleteScannerRun(a, r), UNCHANGED alone
    PROVE  /\ Others(a) /\ UNCHANGED tables
           /\ req[a].pc \in Early /\ req'[a].pc \in Early
           /\ req'[a].info = req[a].info
<1>1. req[a] \in Call
  BY DEF AutopatchInv, TypeOK
<1>2. req' = [req EXCEPT ![a] = [req[a] EXCEPT !.pc = "runs"]]
  BY DEF CompleteScannerRun
<1>3. Others(a) /\ req'[a] = [req[a] EXCEPT !.pc = "runs"]
  BY <1>2, SetCall
<1> QED
  BY <1>1, <1>3 DEF CompleteScannerRun, Early, Call, tables, repVars, instVars, catVars, matchVars

LEMMA EarlyFields ==
    ASSUME AutopatchInv, NEW a \in Requests, UNCHANGED alone,
           \/ fetchCompletedRunsWithNewestFirst(a)
           \/ processAutopatchOnCompletedRuns(a)
           \/ AutopatchReturn(a)
           \/ fetchLatestInstances(a)
           \/ fetchSecondLatestInstances(a)
    PROVE  /\ Others(a) /\ UNCHANGED tables
           /\ req[a].pc \in Early /\ req'[a].pc \in Early \cup {"info"}
           /\ req'[a].info \in {req[a].info, {}}
           /\ req'[a].pc = "info" => req'[a].work = req'[a].gone
<1>1. req[a] \in Call
  BY DEF AutopatchInv, TypeOK
<1>2. ASSUME NEW d, req' = [req EXCEPT ![a] = d],
             d.pc \in Early \/ (d.pc = "info" /\ d.work = d.gone),
             d.info \in {req[a].info, {}}
      PROVE  /\ Others(a) /\ req'[a].pc \in Early \cup {"info"}
             /\ req'[a].info \in {req[a].info, {}}
             /\ req'[a].pc = "info" => req'[a].work = req'[a].gone
  BY <1>2, SetCall DEF Early
<1>3. CASE fetchCompletedRunsWithNewestFirst(a)
  <2> DEFINE d == [req[a] EXCEPT !.pc = "tag", !.todo = NewestTwo]
  <2>1. req' = [req EXCEPT ![a] = d]
    BY <1>1, <1>3 DEF fetchCompletedRunsWithNewestFirst, AutopatchInv, TypeOK, Call
  <2>2. d.pc \in Early /\ d.info = req[a].info
    BY <1>1 DEF Early, Call
  <2> QED
    BY <1>2, <1>3, <2>1, <2>2
    DEF fetchCompletedRunsWithNewestFirst, Early, tables, repVars, instVars, catVars, matchVars
<1>4. CASE processAutopatchOnCompletedRuns(a)
  <2>0. PICK p \in req[a].todo :
           req' = [req EXCEPT ![a].pc = "latest", ![a].pair = p, ![a].todo = @ \ {p}]
    BY <1>4 DEF processAutopatchOnCompletedRuns
  <2> DEFINE d == [req[a] EXCEPT !.pc = "latest", !.pair = p, !.todo = @ \ {p}]
  <2>1. req' = [req EXCEPT ![a] = d]
    BY <1>1, <2>0 DEF AutopatchInv, TypeOK, Call
  <2>2. d.pc \in Early /\ d.info = req[a].info
    BY <1>1 DEF Early, Call
  <2> QED
    BY <1>2, <1>4, <2>1, <2>2
    DEF processAutopatchOnCompletedRuns, Early, tables, repVars, instVars, catVars, matchVars
<1>5. CASE AutopatchReturn(a)
  <2>1. Idle.pc \in Early /\ Idle.info = {}
    BY DEF Early, Idle
  <2> QED
    BY <1>2, <1>5, <2>1 DEF AutopatchReturn, Early, tables, repVars, instVars, catVars, matchVars
<1>6. CASE fetchLatestInstances(a)
  <2> DEFINE seen == TrackedIn(req[a].pair[1])
             d == [req[a] EXCEPT !.pc = "second", !.seen = seen]
  <2>1. req' = [req EXCEPT ![a] = d]
    BY <1>1, <1>6 DEF fetchLatestInstances, AutopatchInv, TypeOK, Call
  <2> HIDE DEF seen
  <2>2. d.pc \in Early /\ d.info = req[a].info
    BY <1>1 DEF Early, Call
  <2> QED
    BY <1>2, <1>6, <2>1, <2>2
    DEF fetchLatestInstances, Early, tables, repVars, instVars, catVars, matchVars
<1>7. CASE fetchSecondLatestInstances(a)
  <2> DEFINE gone == getDisappearedInstances(req[a].seen, TrackedIn(req[a].pair[2]))
             d == [NextTag(a) EXCEPT !.pc = IF gone = {} THEN "tag" ELSE "info",
                                     !.gone = gone, !.work = gone]
  <2>1. req' = [req EXCEPT ![a] = d]
    BY <1>7 DEF fetchSecondLatestInstances
  <2> HIDE DEF gone
  <2>2. (d.pc \in Early \/ (d.pc = "info" /\ d.work = d.gone)) /\ d.info = {}
    BY DEF Early, NextTag, Idle
  <2> QED
    BY <1>2, <1>7, <2>1, <2>2
    DEF fetchSecondLatestInstances, Early, tables, repVars, instVars, catVars, matchVars
<1> QED
  BY <1>3, <1>4, <1>5, <1>6, <1>7

LEMMA PatchesFields ==
    ASSUME AutopatchInv, NEW a \in Requests, getPatches(a), UNCHANGED alone
    PROVE  /\ req[a].pc = "info" /\ Others(a) /\ UNCHANGED tables
           /\ req'[a].gone = req[a].gone
           /\ \/ \E i \in req[a].work :
                    /\ req'[a].pc = "info" /\ req'[a].work = req[a].work \ {i}
                    /\ req'[a].info = req[a].info \cup PatchInfo(i)
              \/ /\ req[a].work = {} /\ req'[a].pc = "unmatch"
                 /\ req'[a].info = req[a].info
<1>1. req[a] \in Call /\ req[a].pc = "info"
  BY DEF AutopatchInv, TypeOK, getPatches
<1>2. UNCHANGED tables
  BY DEF getPatches, tables, repVars, instVars, catVars, matchVars
<1>3. ASSUME NEW i \in req[a].work,
             req' = [req EXCEPT ![a].work = @ \ {i}, ![a].info = @ \cup PatchInfo(i)]
      PROVE  /\ Others(a) /\ req'[a].gone = req[a].gone
             /\ req'[a].pc = "info" /\ req'[a].work = req[a].work \ {i}
             /\ req'[a].info = req[a].info \cup PatchInfo(i)
  <2> DEFINE new == PatchInfo(i)
             d == [req[a] EXCEPT !.work = @ \ {i}, !.info = @ \cup new]
  <2>1. req' = [req EXCEPT ![a] = d]
    BY <1>1, <1>3 DEF AutopatchInv, TypeOK, Call
  <2> HIDE DEF new
  <2>2. Others(a) /\ req'[a] = d
    BY <2>1, SetCall
  <2>3. d.gone = req[a].gone /\ d.pc = "info" /\ d.work = req[a].work \ {i}
        /\ d.info = req[a].info \cup new
    BY <1>1 DEF Call
  <2> QED
    BY <2>2, <2>3 DEF new
<1>4. ASSUME req' = [req EXCEPT ![a].pc = "unmatch", ![a].work = req[a].gone]
      PROVE  /\ Others(a) /\ req'[a].gone = req[a].gone
             /\ req'[a].pc = "unmatch" /\ req'[a].info = req[a].info
  <2> DEFINE d == [req[a] EXCEPT !.pc = "unmatch", !.work = req[a].gone]
  <2>1. req' = [req EXCEPT ![a] = d]
    BY <1>1, <1>4 DEF AutopatchInv, TypeOK, Call
  <2>2. Others(a) /\ req'[a] = d
    BY <2>1, SetCall
  <2> QED
    BY <1>1, <2>2 DEF Call
<1> QED
  BY <1>1, <1>2, <1>3, <1>4 DEF getPatches

LEMMA ListMatchesFields ==
    ASSUME AutopatchInv, NEW a \in Requests, GetAllIssueMatchIds(a), UNCHANGED alone
    PROVE  /\ req[a].pc = "unmatch" /\ Others(a) /\ UNCHANGED tables
           /\ req'[a].pc \in {"deleteMatch", "versions"}
           /\ req'[a].gone = req[a].gone /\ req'[a].info = req[a].info
<1>1. req[a] \in Call /\ req[a].pc = "unmatch"
  BY DEF AutopatchInv, TypeOK, GetAllIssueMatchIds
<1>2. UNCHANGED tables
  BY DEF GetAllIssueMatchIds, tables, repVars, instVars, catVars, matchVars
<1>3. ASSUME NEW i \in req[a].work,
             req' = [req EXCEPT ![a].pc = "deleteMatch", ![a].work = @ \ {i},
                                ![a].rows = MatchesOf(i)]
      PROVE  /\ Others(a) /\ req'[a].pc = "deleteMatch"
             /\ req'[a].gone = req[a].gone /\ req'[a].info = req[a].info
  <2> DEFINE rows == MatchesOf(i)
             d == [req[a] EXCEPT !.pc = "deleteMatch", !.work = @ \ {i}, !.rows = rows]
  <2>1. req' = [req EXCEPT ![a] = d]
    BY <1>1, <1>3 DEF AutopatchInv, TypeOK, Call
  <2> HIDE DEF rows
  <2>2. Others(a) /\ req'[a] = d
    BY <2>1, SetCall
  <2> QED
    BY <1>1, <2>2 DEF Call
<1>4. ASSUME req' = [req EXCEPT ![a].pc = "versions"]
      PROVE  /\ Others(a) /\ req'[a].pc = "versions"
             /\ req'[a].gone = req[a].gone /\ req'[a].info = req[a].info
  <2> DEFINE d == [req[a] EXCEPT !.pc = "versions"]
  <2>1. req' = [req EXCEPT ![a] = d]
    BY <1>1, <1>4 DEF AutopatchInv, TypeOK, Call
  <2>2. Others(a) /\ req'[a] = d
    BY <2>1, SetCall
  <2> QED
    BY <1>1, <2>2 DEF Call
<1> QED
  BY <1>1, <1>2, <1>3, <1>4 DEF GetAllIssueMatchIds

LEMMA UnmatchFields ==
    ASSUME AutopatchInv, NEW a \in Requests, UNCHANGED alone,
           deleteIssueMatchesOfDisappearedInstances(a)
    PROVE  /\ req[a].pc = "deleteMatch" /\ Others(a)
           /\ UNCHANGED <<tracker, inst, instVersion, vanished, liveVersions,
                          liveComponents, matched, created, patches>>
           /\ req'[a].pc \in {"deleteMatch", "unmatch"}
           /\ req'[a].gone = req[a].gone /\ req'[a].info = req[a].info
           /\ \A m \in matches : m \in matches' \/ m[1] \in req[a].gone
<1>1. req[a] \in Call /\ req[a].pc = "deleteMatch" /\ \A m \in req[a].rows : m[1] \in req[a].gone
  BY DEF AutopatchInv, TypeOK, CallOK, deleteIssueMatchesOfDisappearedInstances
<1>2. UNCHANGED <<tracker, inst, instVersion, vanished, liveVersions,
                  liveComponents, matched, created, patches>>
  BY DEF deleteIssueMatchesOfDisappearedInstances, repVars, instVars, catVars
<1>3. \A m \in matches : m \in matches' \/ m[1] \in req[a].gone
  BY <1>1 DEF deleteIssueMatchesOfDisappearedInstances
<1>4. ASSUME NEW m \in req[a].rows, req' = [req EXCEPT ![a].rows = @ \ {m}]
      PROVE  /\ Others(a) /\ req'[a].gone = req[a].gone
             /\ req'[a].info = req[a].info /\ req'[a].pc = "deleteMatch"
  <2>1. req' = [req EXCEPT ![a] = [req[a] EXCEPT !.rows = @ \ {m}]]
    BY <1>1, <1>4 DEF AutopatchInv, TypeOK, Call
  <2>2. Others(a) /\ req'[a] = [req[a] EXCEPT !.rows = @ \ {m}]
    BY <2>1, SetCall
  <2> QED
    BY <1>1, <2>2 DEF Call
<1>5. ASSUME req' = [req EXCEPT ![a].pc = "unmatch"]
      PROVE  /\ Others(a) /\ req'[a].gone = req[a].gone
             /\ req'[a].info = req[a].info /\ req'[a].pc = "unmatch"
  <2>1. req' = [req EXCEPT ![a] = [req[a] EXCEPT !.pc = "unmatch"]]
    BY <1>1, <1>5 DEF AutopatchInv, TypeOK, Call
  <2>2. Others(a) /\ req'[a] = [req[a] EXCEPT !.pc = "unmatch"]
    BY <2>1, SetCall
  <2> QED
    BY <1>1, <2>2 DEF Call
<1> QED
  BY <1>1, <1>2, <1>3, <1>4, <1>5 DEF deleteIssueMatchesOfDisappearedInstances

LEMMA VersionsFields ==
    ASSUME AutopatchInv, NEW a \in Requests, UNCHANGED alone,
           getVersionIdsOfDisappearedInstances(a)
    PROVE  /\ req[a].pc = "versions" /\ Others(a) /\ UNCHANGED tables
           /\ req'[a].pc = "delete" /\ req'[a].gone = req[a].gone
           /\ req'[a].info = req[a].info /\ req'[a].work = req[a].gone
           /\ req'[a].vers = {instVersion[i] : i \in FirstPage(req[a].gone \cap LiveInstances)}
<1> DEFINE vers == {instVersion[i] : i \in FirstPage(req[a].gone \cap LiveInstances)}
           d == [req[a] EXCEPT !.pc = "delete", !.work = req[a].gone, !.vers = vers]
<1>1. req[a] \in Call
  BY DEF AutopatchInv, TypeOK
<1>2. req' = [req EXCEPT ![a] = d]
  BY <1>1 DEF getVersionIdsOfDisappearedInstances, AutopatchInv, TypeOK, Call
<1>3. Others(a) /\ req'[a] = d
  BY <1>2, SetCall
<1> HIDE DEF vers
<1>4. /\ d.pc = "delete" /\ d.gone = req[a].gone /\ d.info = req[a].info
      /\ d.work = req[a].gone /\ d.vers = vers
  BY <1>1 DEF Call
<1> QED
  BY <1>3, <1>4
  DEF vers, getVersionIdsOfDisappearedInstances, tables, repVars, instVars, catVars, matchVars

LEMMA DeleteFields ==
    ASSUME AutopatchInv, NEW a \in Requests, UNCHANGED alone,
           deleteDisappearedInstances(a)
    PROVE  /\ req[a].pc = "delete" /\ Others(a)
           /\ UNCHANGED <<tracker, instVersion, liveVersions, liveComponents,
                          matches, matched, created, patches>>
           /\ req'[a].gone = req[a].gone /\ req'[a].info = req[a].info
           /\ req'[a].vers = req[a].vers
           /\ \/ \E i \in req[a].work :
                    /\ DeleteComponentInstance(i)
                    /\ req'[a].pc = "delete" /\ req'[a].work = req[a].work \ {i}
              \/ /\ req[a].work = {} /\ UNCHANGED <<inst, vanished>>
                 /\ req'[a].pc = "components"
<1>1. req[a] \in Call
  BY DEF AutopatchInv, TypeOK
<1>2. /\ UNCHANGED <<tracker, instVersion, liveVersions, liveComponents,
                      matches, matched, created, patches>>
      /\ req[a].pc = "delete"
  BY DEF deleteDisappearedInstances, repVars, catVars, matchVars
<1>3. ASSUME NEW i \in req[a].work, req' = [req EXCEPT ![a].work = @ \ {i}]
      PROVE  /\ Others(a) /\ req'[a].gone = req[a].gone
             /\ req'[a].info = req[a].info /\ req'[a].pc = req[a].pc
             /\ req'[a].vers = req[a].vers /\ req'[a].work = req[a].work \ {i}
  <2>1. req' = [req EXCEPT ![a] = [req[a] EXCEPT !.work = @ \ {i}]]
    BY <1>1, <1>3 DEF AutopatchInv, TypeOK, Call
  <2>2. Others(a) /\ req'[a] = [req[a] EXCEPT !.work = @ \ {i}]
    BY <2>1, SetCall
  <2> QED
    BY <1>1, <2>2 DEF Call
<1>4. ASSUME req' = [req EXCEPT ![a].pc = "components"]
      PROVE  /\ Others(a) /\ req'[a].gone = req[a].gone
             /\ req'[a].info = req[a].info /\ req'[a].pc = "components"
             /\ req'[a].vers = req[a].vers
  <2>1. req' = [req EXCEPT ![a] = [req[a] EXCEPT !.pc = "components"]]
    BY <1>1, <1>4 DEF AutopatchInv, TypeOK, Call
  <2>2. Others(a) /\ req'[a] = [req[a] EXCEPT !.pc = "components"]
    BY <2>1, SetCall
  <2> QED
    BY <1>1, <2>2 DEF Call
<1> QED
  BY <1>2, <1>3, <1>4 DEF deleteDisappearedInstances

LEMMA ComponentsFields ==
    ASSUME AutopatchInv, NEW a \in Requests, UNCHANGED alone,
           getComponentIdsOfDisappearedInstances(a)
    PROVE  /\ req[a].pc = "components" /\ Others(a) /\ UNCHANGED tables
           /\ req'[a].pc = "checkVersion" /\ req'[a].work = req[a].vers
           /\ req'[a].info = req[a].info
<1> DEFINE rows == IF req[a].vers = {} THEN liveVersions ELSE req[a].vers \cap liveVersions
           comps == {ComponentOf[v] : v \in rows}
           d == [req[a] EXCEPT !.pc = "checkVersion", !.work = req[a].vers, !.comps = comps]
<1>1. req[a] \in Call
  BY DEF AutopatchInv, TypeOK
<1>2. req' = [req EXCEPT ![a] = d]
  BY <1>1 DEF getComponentIdsOfDisappearedInstances, AutopatchInv, TypeOK, Call
<1>3. Others(a) /\ req'[a] = d
  BY <1>2, SetCall
<1> HIDE DEF comps
<1>4. d.pc = "checkVersion" /\ d.work = req[a].vers /\ d.info = req[a].info
  BY <1>1 DEF Call
<1> QED
  BY <1>3, <1>4
  DEF getComponentIdsOfDisappearedInstances, tables, repVars, instVars, catVars, matchVars

LEMMA CheckVersionFields ==
    ASSUME AutopatchInv, NEW a \in Requests, UNCHANGED alone,
           checkVersionOfDisappearedInstances(a)
    PROVE  /\ req[a].pc = "checkVersion" /\ Others(a) /\ UNCHANGED tables
           /\ req'[a].info = req[a].info
           /\ \/ \E v \in req[a].work :
                    /\ InUse(v) /\ req'[a].pc = "checkVersion"
                    /\ req'[a].work = req[a].work \ {v}
              \/ \E v \in req[a].work :
                    /\ ~InUse(v) /\ req'[a].pc = "unlink"
                    /\ req'[a].unused = {v} /\ req'[a].work = req[a].work
              \/ req[a].work = {} /\ req'[a].pc = "checkComponent"
<1>1. req[a] \in Call /\ req[a].pc = "checkVersion"
  BY DEF AutopatchInv, TypeOK, checkVersionOfDisappearedInstances
<1>2. UNCHANGED tables
  BY DEF checkVersionOfDisappearedInstances, tables, repVars, instVars, catVars, matchVars
<1>3. ASSUME NEW v \in req[a].work, InUse(v), req' = [req EXCEPT ![a].work = @ \ {v}]
      PROVE  /\ Others(a) /\ req'[a].info = req[a].info /\ req'[a].pc = "checkVersion"
             /\ req'[a].work = req[a].work \ {v}
  <2>1. req' = [req EXCEPT ![a] = [req[a] EXCEPT !.work = @ \ {v}]]
    BY <1>1, <1>3 DEF AutopatchInv, TypeOK, Call
  <2>2. Others(a) /\ req'[a] = [req[a] EXCEPT !.work = @ \ {v}]
    BY <2>1, SetCall
  <2> QED
    BY <1>1, <2>2 DEF Call
<1>4. ASSUME NEW v \in req[a].work, ~InUse(v),
             req' = [req EXCEPT ![a].pc = "unlink", ![a].unused = {v},
                                ![a].inner = req[a].vers]
      PROVE  /\ Others(a) /\ req'[a].info = req[a].info /\ req'[a].pc = "unlink"
             /\ req'[a].unused = {v} /\ req'[a].work = req[a].work
  <2> DEFINE d == [req[a] EXCEPT !.pc = "unlink", !.unused = {v}, !.inner = req[a].vers]
  <2>1. req' = [req EXCEPT ![a] = d]
    BY <1>1, <1>4 DEF AutopatchInv, TypeOK, Call
  <2>2. Others(a) /\ req'[a] = d
    BY <2>1, SetCall
  <2> QED
    BY <1>1, <2>2 DEF Call
<1>5. ASSUME req' = [req EXCEPT ![a].pc = "checkComponent", ![a].work = req[a].comps]
      PROVE  Others(a) /\ req'[a].info = req[a].info /\ req'[a].pc = "checkComponent"
  <2> DEFINE d == [req[a] EXCEPT !.pc = "checkComponent", !.work = req[a].comps]
  <2>1. req' = [req EXCEPT ![a] = d]
    BY <1>1, <1>5 DEF AutopatchInv, TypeOK, Call
  <2>2. Others(a) /\ req'[a] = d
    BY <2>1, SetCall
  <2> QED
    BY <1>1, <2>2 DEF Call
<1> QED
  BY <1>1, <1>2, <1>3, <1>4, <1>5 DEF checkVersionOfDisappearedInstances

LEMMA UnlinkFields ==
    ASSUME AutopatchInv, NEW a \in Requests, UNCHANGED alone,
           removeIssuesFromVersions(a)
    PROVE  /\ req[a].pc = "unlink" /\ Others(a) /\ UNCHANGED tables
           /\ req'[a].pc \in {"unlink", "dropVersion"} /\ req'[a].info = req[a].info
           /\ req'[a].work = req[a].work /\ req'[a].unused = req[a].unused
<1>1. req[a] \in Call /\ req[a].pc = "unlink"
  BY DEF AutopatchInv, TypeOK, removeIssuesFromVersions
<1>2. UNCHANGED tables
  BY DEF removeIssuesFromVersions, tables, repVars, instVars, matchVars
<1>3. ASSUME NEW v \in req[a].inner, req' = [req EXCEPT ![a].inner = @ \ {v}]
      PROVE  /\ Others(a) /\ req'[a].pc = "unlink" /\ req'[a].info = req[a].info
             /\ req'[a].work = req[a].work /\ req'[a].unused = req[a].unused
  <2> DEFINE d == [req[a] EXCEPT !.inner = @ \ {v}]
  <2>1. req' = [req EXCEPT ![a] = d]
    BY <1>1, <1>3 DEF AutopatchInv, TypeOK, Call
  <2>2. Others(a) /\ req'[a] = d
    BY <2>1, SetCall
  <2> QED
    BY <1>1, <2>2 DEF Call
<1>4. ASSUME req' = [req EXCEPT ![a].pc = "dropVersion"]
      PROVE  /\ Others(a) /\ req'[a].pc = "dropVersion" /\ req'[a].info = req[a].info
             /\ req'[a].work = req[a].work /\ req'[a].unused = req[a].unused
  <2> DEFINE d == [req[a] EXCEPT !.pc = "dropVersion"]
  <2>1. req' = [req EXCEPT ![a] = d]
    BY <1>1, <1>4 DEF AutopatchInv, TypeOK, Call
  <2>2. Others(a) /\ req'[a] = d
    BY <2>1, SetCall
  <2> QED
    BY <1>1, <2>2 DEF Call
<1> QED
  BY <1>1, <1>2, <1>3, <1>4 DEF removeIssuesFromVersions

LEMMA DropFields ==
    ASSUME AutopatchInv, NEW a \in Requests, UNCHANGED alone,
           deleteVersionsOfDisappearedInstances(a)
    PROVE  /\ req[a].pc = "dropVersion" /\ Others(a)
           /\ UNCHANGED <<tracker, inst, instVersion, vanished, liveComponents,
                          matches, matched, created, patches>>
           /\ liveVersions' = liveVersions \ req[a].unused
           /\ req'[a].pc = "checkVersion" /\ req'[a].info = req[a].info
           /\ req'[a].work = req[a].work \ req[a].unused
<1> DEFINE d == [req[a] EXCEPT !.pc = "checkVersion", !.work = @ \ req[a].unused, !.unused = {}]
<1>1. req[a] \in Call
  BY DEF AutopatchInv, TypeOK
<1>2. req' = [req EXCEPT ![a] = d]
  BY <1>1 DEF deleteVersionsOfDisappearedInstances, AutopatchInv, TypeOK, Call
<1>3. Others(a) /\ req'[a] = d
  BY <1>2, SetCall
<1>4. /\ d.pc = "checkVersion" /\ d.info = req[a].info
      /\ d.work = req[a].work \ req[a].unused
  BY <1>1 DEF Call
<1> QED
  BY <1>3, <1>4 DEF deleteVersionsOfDisappearedInstances, repVars, instVars, matchVars

LEMMA CheckComponentFields ==
    ASSUME AutopatchInv, NEW a \in Requests, UNCHANGED alone,
           checkComponentOfDisappearedInstances(a)
    PROVE  /\ req[a].pc = "checkComponent" /\ Others(a) /\ UNCHANGED tables
           /\ req'[a].info = req[a].info
           /\ \/ req'[a].pc \in {"checkComponent", "insert"}
              \/ \E c \in req[a].work :
                    /\ ~ComponentInUse(c) /\ req'[a].pc = "dropComponent"
                    /\ req'[a].unused = {c}
<1>1. req[a] \in Call /\ req[a].pc = "checkComponent"
  BY DEF AutopatchInv, TypeOK, checkComponentOfDisappearedInstances
<1>2. UNCHANGED tables
  BY DEF checkComponentOfDisappearedInstances, tables, repVars, instVars, catVars, matchVars
<1>3. ASSUME NEW c \in req[a].work, req' = [req EXCEPT ![a].work = @ \ {c}]
      PROVE  Others(a) /\ req'[a].info = req[a].info /\ req'[a].pc = "checkComponent"
  <2>1. req' = [req EXCEPT ![a] = [req[a] EXCEPT !.work = @ \ {c}]]
    BY <1>1, <1>3 DEF AutopatchInv, TypeOK, Call
  <2>2. Others(a) /\ req'[a] = [req[a] EXCEPT !.work = @ \ {c}]
    BY <2>1, SetCall
  <2> QED
    BY <1>1, <2>2 DEF Call
<1>4. ASSUME NEW c \in req[a].work,
             req' = [req EXCEPT ![a].pc = "dropComponent", ![a].unused = {c}]
      PROVE  /\ Others(a) /\ req'[a].info = req[a].info /\ req'[a].pc = "dropComponent"
             /\ req'[a].unused = {c}
  <2> DEFINE d == [req[a] EXCEPT !.pc = "dropComponent", !.unused = {c}]
  <2>1. req' = [req EXCEPT ![a] = d]
    BY <1>1, <1>4 DEF AutopatchInv, TypeOK, Call
  <2>2. Others(a) /\ req'[a] = d
    BY <2>1, SetCall
  <2> QED
    BY <1>1, <2>2 DEF Call
<1>5. ASSUME req' = [req EXCEPT ![a].pc = "insert"]
      PROVE  Others(a) /\ req'[a].info = req[a].info /\ req'[a].pc = "insert"
  <2>1. req' = [req EXCEPT ![a] = [req[a] EXCEPT !.pc = "insert"]]
    BY <1>1, <1>5 DEF AutopatchInv, TypeOK, Call
  <2>2. Others(a) /\ req'[a] = [req[a] EXCEPT !.pc = "insert"]
    BY <2>1, SetCall
  <2> QED
    BY <1>1, <2>2 DEF Call
<1> QED
  BY <1>1, <1>2, <1>3, <1>4, <1>5 DEF checkComponentOfDisappearedInstances

LEMMA DropComponentFields ==
    ASSUME AutopatchInv, NEW a \in Requests, UNCHANGED alone,
           deleteComponentsOfDisappearedInstances(a)
    PROVE  /\ req[a].pc = "dropComponent" /\ Others(a)
           /\ UNCHANGED <<tracker, inst, instVersion, vanished, liveVersions,
                          matches, matched, created, patches>>
           /\ liveComponents' = liveComponents \ req[a].unused
           /\ req'[a].pc = "checkComponent" /\ req'[a].info = req[a].info
<1> DEFINE d == [req[a] EXCEPT !.pc = "checkComponent", !.work = @ \ req[a].unused, !.unused = {}]
<1>1. req[a] \in Call
  BY DEF AutopatchInv, TypeOK
<1>2. req' = [req EXCEPT ![a] = d]
  BY <1>1 DEF deleteComponentsOfDisappearedInstances, AutopatchInv, TypeOK, Call
<1>3. Others(a) /\ req'[a] = d
  BY <1>2, SetCall
<1>4. d.pc = "checkComponent" /\ d.info = req[a].info
  BY <1>1 DEF Call
<1> QED
  BY <1>3, <1>4 DEF deleteComponentsOfDisappearedInstances, repVars, instVars, matchVars

LEMMA InsertFields ==
    ASSUME AutopatchInv, NEW a \in Requests, UNCHANGED alone, insertPatches(a)
    PROVE  /\ req[a].pc = "insert" /\ Others(a)
           /\ UNCHANGED <<tracker, inst, instVersion, vanished, liveVersions,
                          liveComponents, matches, matched, created>>
           /\ \/ \E p \in req[a].info :
                    /\ insertPatchIfNoInstanceExists(p)
                    /\ req'[a].pc = "insert" /\ req'[a].info = req[a].info \ {p}
              \/ /\ req[a].info = {} /\ UNCHANGED patches
                 /\ req'[a].pc = "tag" /\ req'[a].info = {}
<1>1. req[a] \in Call /\ req[a].pc = "insert"
  BY DEF AutopatchInv, TypeOK, insertPatches
<1>2. UNCHANGED <<tracker, inst, instVersion, vanished, liveVersions,
                  liveComponents, matches, matched, created>>
  BY DEF insertPatches, repVars, instVars, catVars, matchVars
<1>3. ASSUME NEW p \in req[a].info, req' = [req EXCEPT ![a].info = @ \ {p}]
      PROVE  Others(a) /\ req'[a].info = req[a].info \ {p} /\ req'[a].pc = "insert"
  <2>1. req' = [req EXCEPT ![a] = [req[a] EXCEPT !.info = @ \ {p}]]
    BY <1>1, <1>3 DEF AutopatchInv, TypeOK, Call
  <2>2. Others(a) /\ req'[a] = [req[a] EXCEPT !.info = @ \ {p}]
    BY <2>1, SetCall
  <2> QED
    BY <1>1, <2>2 DEF Call
<1>4. ASSUME req' = [req EXCEPT ![a] = NextTag(a)]
      PROVE  Others(a) /\ req'[a].info = {} /\ req'[a].pc = "tag"
  <2>1. Others(a) /\ req'[a] = NextTag(a)
    BY <1>4, SetCall
  <2> QED
    BY <2>1 DEF NextTag, Idle
<1> QED
  BY <1>1, <1>2, <1>3, <1>4 DEF insertPatches

LEMMA ErrorFields ==
    ASSUME AutopatchInv, NEW a \in Requests, UNCHANGED alone, AutopatchError(a)
    PROVE  /\ ~alone /\ Others(a) /\ UNCHANGED tables
           /\ req'[a].pc \in Early /\ req'[a].info = {}
<1>1. Others(a) /\ req'[a] = Idle
  BY SetCall DEF AutopatchError
<1> QED
  BY <1>1 DEF AutopatchError, Idle, Early, tables, repVars, instVars, catVars, matchVars

-----------------------------------------------------------------------------
(* Until two calls overlap, at most one is in progress.                    *)

\* A query belongs to a call in progress and leaves the others alone.
LEMMA Acting ==
    ASSUME AutopatchInv, NEW a \in Requests, UNCHANGED alone,
           Autopatch(a) \/ AutopatchError(a)
    PROVE  req[a].pc # "idle" /\ Others(a) /\ UNCHANGED overlapped
<1>1. CASE fetchCompletedRunsWithNewestFirst(a)
  BY <1>1, EarlyFields DEF fetchCompletedRunsWithNewestFirst, runVars
<1>2. CASE processAutopatchOnCompletedRuns(a)
  BY <1>2, EarlyFields DEF processAutopatchOnCompletedRuns, runVars
<1>3. CASE AutopatchReturn(a)
  BY <1>3, EarlyFields DEF AutopatchReturn, runVars
<1>4. CASE fetchLatestInstances(a)
  BY <1>4, EarlyFields DEF fetchLatestInstances, runVars
<1>5. CASE fetchSecondLatestInstances(a)
  BY <1>5, EarlyFields DEF fetchSecondLatestInstances, runVars
<1>6. CASE getPatches(a)
  BY <1>6, PatchesFields DEF getPatches, runVars
<1>7. CASE GetAllIssueMatchIds(a)
  BY <1>7, ListMatchesFields DEF GetAllIssueMatchIds, runVars
<1>8. CASE deleteIssueMatchesOfDisappearedInstances(a)
  BY <1>8, UnmatchFields DEF deleteIssueMatchesOfDisappearedInstances, runVars
<1>9. CASE getVersionIdsOfDisappearedInstances(a)
  BY <1>9, VersionsFields DEF getVersionIdsOfDisappearedInstances, runVars
<1>10. CASE deleteDisappearedInstances(a)
  BY <1>10, DeleteFields DEF deleteDisappearedInstances, runVars
<1>11. CASE getComponentIdsOfDisappearedInstances(a)
  BY <1>11, ComponentsFields DEF getComponentIdsOfDisappearedInstances, runVars
<1>12. CASE checkVersionOfDisappearedInstances(a)
  BY <1>12, CheckVersionFields DEF checkVersionOfDisappearedInstances, runVars
<1>13. CASE removeIssuesFromVersions(a)
  BY <1>13, UnlinkFields DEF removeIssuesFromVersions, runVars
<1>14. CASE deleteVersionsOfDisappearedInstances(a)
  BY <1>14, DropFields DEF deleteVersionsOfDisappearedInstances, runVars
<1>15. CASE checkComponentOfDisappearedInstances(a)
  BY <1>15, CheckComponentFields DEF checkComponentOfDisappearedInstances, runVars
<1>16. CASE deleteComponentsOfDisappearedInstances(a)
  BY <1>16, DropComponentFields DEF deleteComponentsOfDisappearedInstances, runVars
<1>17. CASE insertPatches(a)
  BY <1>17, InsertFields DEF insertPatches, runVars
<1>18. CASE AutopatchError(a)
  BY <1>18, ErrorFields DEF AutopatchError, runVars
<1> QED
  BY <1>1, <1>2, <1>3, <1>4, <1>5, <1>6, <1>7, <1>8, <1>9, <1>10, <1>11, <1>12,
     <1>13, <1>14, <1>15, <1>16, <1>17, <1>18
  DEF Autopatch

\* A call that starts while another is in progress is noted, for good.
LEMMA SerialStep ==
    AutopatchInv /\ SerialInv /\ [Next]_vars
        => SerialInv' /\ (~overlapped' => ~overlapped)
<1> SUFFICES ASSUME AutopatchInv, SerialInv, [Next]_vars
             PROVE  SerialInv' /\ (~overlapped' => ~overlapped)
  OBVIOUS
<1>0. UNCHANGED alone
  BY DEF Next, vars
<1>1. CASE Scanner \/ \E i \in Instances : OnComponentInstanceCreate(i)
  <2>1. UNCHANGED <<req, overlapped>>
    BY <1>1 DEF Scanner, CreateScannerRun, CreateComponentInstance, UpdateComponentInstance,
       FailScannerRun, OnComponentInstanceCreate, runVars
  <2> QED
    BY <2>1 DEF SerialInv, Serial
<1>2. ASSUME NEW a \in Requests, NEW r \in RunIds, CompleteScannerRun(a, r)
      PROVE  SerialInv' /\ (~overlapped' => ~overlapped)
  <2>1. overlapped' <=> overlapped \/ \E b \in Requests : req[b].pc # "idle"
    BY <1>2 DEF CompleteScannerRun
  <2>2. Others(a)
    BY <1>0, <1>2, CompleteFields
  <2> QED
    BY <2>1, <2>2 DEF SerialInv, Serial, Others
<1>3. ASSUME NEW a \in Requests, Autopatch(a) \/ AutopatchError(a)
      PROVE  SerialInv' /\ (~overlapped' => ~overlapped)
  <2>1. req[a].pc # "idle" /\ Others(a) /\ UNCHANGED overlapped
    BY <1>0, <1>3, Acting
  <2> QED
    BY <2>1 DEF SerialInv, Serial, Others
<1>4. CASE UNCHANGED vars
  BY <1>4 DEF vars, runVars, SerialInv, Serial
<1> QED
  BY <1>1, <1>2, <1>3, <1>4 DEF Next

-----------------------------------------------------------------------------
(* vanished counts exactly the times the last instance left.               *)

Vanishes ==
    \A p \in Pairs : vanished'[p] =
        vanished[p] + (IF LiveOf(p) # {} /\ LiveOf(p)' = {} THEN 1 ELSE 0)

LEMMA SameInstances ==
    ASSUME inst' = inst, instVersion' = instVersion
    PROVE  /\ LiveInstances' = LiveInstances
           /\ \A p : LiveOf(p)' = LiveOf(p)
           /\ \A v : InUse(v)' <=> InUse(v)
           /\ \A i : Deployment(i)' = Deployment(i)
<1>1. LiveInstances' = LiveInstances
  BY DEF LiveInstances
<1>2. \A i : Deployment(i)' = Deployment(i)
  BY DEF Deployment
<1>3. \A p : LiveOf(p)' = LiveOf(p)
  BY <1>1, <1>2 DEF LiveOf
<1>4. \A v : InUse(v)' <=> InUse(v)
  BY <1>1 DEF InUse
<1> QED
  BY <1>1, <1>2, <1>3, <1>4

LEMMA VanishedValue ==
    ASSUME TypeOK, NEW i \in Instances
    PROVE  \A p \in Pairs : CountVanished(i)[p] =
              vanished[p] + (IF p = Deployment(i) /\ LiveOf(p) = {i} THEN 1 ELSE 0)
<1>1. vanished \in [Pairs -> Nat]
  BY DEF TypeOK, TablesType
<1> QED
  BY <1>1 DEF CountVanished

\* An instance that leaves its pair empties it only if it was the last one.
LEMMA DeleteVanishes ==
    ASSUME AutopatchInv, NEW i \in Instances, DeleteComponentInstance(i),
           UNCHANGED instVersion
    PROVE  /\ Vanishes
           /\ LiveInstances' = LiveInstances \ {i}
           /\ \A p : LiveOf(p)' = LiveOf(p) \ {i}
<1>1. inst' = [inst EXCEPT ![i] = "deleted"] /\ vanished' = CountVanished(i)
  BY DEF DeleteComponentInstance
<1>2. LiveInstances' = LiveInstances \ {i}
  BY <1>1 DEF LiveInstances, AutopatchInv, TypeOK, TablesType
<1>3. \A j : Deployment(j)' = Deployment(j)
  BY DEF Deployment
<1>4. \A p : LiveOf(p)' = LiveOf(p) \ {i}
  BY <1>2, <1>3 DEF LiveOf
<1>5. \A p : i \in LiveOf(p) => p = Deployment(i)
  BY DEF LiveOf
<1>6. \A p \in Pairs : vanished'[p] =
         vanished[p] + (IF p = Deployment(i) /\ LiveOf(p) = {i} THEN 1 ELSE 0)
  BY <1>1, VanishedValue DEF AutopatchInv
<1>7. \A p \in Pairs : p = Deployment(i) /\ LiveOf(p) = {i}
                          <=> LiveOf(p) # {} /\ LiveOf(p)' = {}
  BY <1>4, <1>5
<1>8. Vanishes
  BY <1>6, <1>7 DEF Vanishes
<1> QED
  BY <1>2, <1>4, <1>8

LEMMA UpdateVanishes ==
    ASSUME AutopatchInv, NEW r \in RunIds, NEW i \in Instances, NEW v \in Versions,
           UpdateComponentInstance(r, i, v)
    PROVE  Vanishes
<1>0. vanished \in [Pairs -> Nat] /\ instVersion \in [Instances -> Versions]
  BY DEF AutopatchInv, TypeOK, TablesType
<1>1. inst' = inst /\ instVersion' = [instVersion EXCEPT ![i] = v]
  BY DEF UpdateComponentInstance
<1>2. CASE v = instVersion[i]
  <2>1. instVersion' = instVersion /\ vanished' = vanished
    BY <1>0, <1>1, <1>2 DEF UpdateComponentInstance
  <2>2. \A p : LiveOf(p)' = LiveOf(p)
    BY <1>1, <2>1, SameInstances
  <2> QED
    BY <1>0, <2>1, <2>2 DEF Vanishes
<1>3. CASE v # instVersion[i]
  <2>1. vanished' = CountVanished(i)
    BY <1>3 DEF UpdateComponentInstance
  <2>2. \A p \in Pairs : vanished'[p] =
           vanished[p] + (IF p = Deployment(i) /\ LiveOf(p) = {i} THEN 1 ELSE 0)
    BY <2>1, VanishedValue DEF AutopatchInv
  <2>3. LiveInstances' = LiveInstances /\ LiveInstances \subseteq Instances
    BY <1>1 DEF LiveInstances
  <2>4. /\ \A j \in Instances : j # i => Deployment(j)' = Deployment(j)
        /\ Deployment(i)' # Deployment(i)
    BY <1>0, <1>1, <1>3 DEF Deployment
  <2>5. \A p : LiveOf(p) \ {i} \subseteq LiveOf(p)'
    BY <2>3, <2>4 DEF LiveOf
  <2>6. \A p : i \in LiveOf(p) => p = Deployment(i) /\ LiveOf(p)' = LiveOf(p) \ {i}
    BY <2>3, <2>4 DEF LiveOf
  <2>7. \A p \in Pairs : p = Deployment(i) /\ LiveOf(p) = {i}
                            <=> LiveOf(p) # {} /\ LiveOf(p)' = {}
    BY <2>5, <2>6
  <2> QED
    BY <2>2, <2>7 DEF Vanishes
<1> QED
  BY <1>2, <1>3

LEMMA CreateLive ==
    ASSUME AutopatchInv, NEW r \in RunIds, NEW i \in Instances, NEW v \in Versions,
           CreateComponentInstance(r, i, v)
    PROVE  /\ LiveInstances' = LiveInstances \cup {i} /\ i \notin LiveInstances
           /\ \A j \in Instances : j # i => instVersion'[j] = instVersion[j]
           /\ instVersion'[i] = v
           /\ \A p : LiveOf(p) \subseteq LiveOf(p)'
           /\ Vanishes
<1>1. /\ inst' = [inst EXCEPT ![i] = "live"] /\ inst[i] = "absent"
      /\ instVersion' = [instVersion EXCEPT ![i] = v] /\ vanished' = vanished
  BY DEF CreateComponentInstance
<1>2. inst \in [Instances -> {"absent", "live", "deleted"}] /\ instVersion \in [Instances -> Versions]
      /\ vanished \in [Pairs -> Nat]
  BY DEF AutopatchInv, TypeOK, TablesType
<1>3. LiveInstances' = LiveInstances \cup {i} /\ i \notin LiveInstances
  BY <1>1, <1>2 DEF LiveInstances
<1>4. /\ \A j \in Instances : j # i => instVersion'[j] = instVersion[j]
      /\ instVersion'[i] = v
  BY <1>1, <1>2
<1>5. \A p : LiveOf(p) \subseteq LiveOf(p)'
  BY <1>3, <1>4 DEF LiveOf, Deployment, LiveInstances
<1>6. Vanishes
  BY <1>1, <1>2, <1>5 DEF Vanishes
<1> QED
  BY <1>3, <1>4, <1>5, <1>6

LEMMA StillVanishes ==
    ASSUME AutopatchInv, inst' = inst, instVersion' = instVersion, vanished' = vanished
    PROVE  Vanishes
<1>1. vanished \in [Pairs -> Nat]
  BY DEF AutopatchInv, TypeOK, TablesType
<1> QED
  BY <1>1, SameInstances DEF Vanishes

-----------------------------------------------------------------------------
(* No patch is recorded twice.                                             *)

\* A step that inserts no patch: what it adds to the patches to come is of
\* a version that is deployed.
LEMMA NoPatchKeeps ==
    ASSUME AutopatchInv, PatchInv, Vanishes, patches' = patches,
           \A a \in Requests : req'[a].pc \notin Holding => req'[a].info = {},
           \A a \in Requests : \A p \in req'[a].info :
              p \in req[a].info \/ LiveOf(p)' # {}
    PROVE  PatchInv'
<1>1. patches \in [Pairs -> Nat] /\ vanished \in [Pairs -> Nat]
  BY DEF AutopatchInv, TypeOK, TablesType
<1>2. \A p \in Pairs : vanished'[p] \in {vanished[p], vanished[p] + 1}
  BY <1>1 DEF Vanishes
<1>3. AtMostOnce'
  BY <1>1, <1>2 DEF PatchInv, AtMostOnce
<1>4. ASSUME NEW a \in Requests, NEW p \in req'[a].info, LiveOf(p)' = {}
      PROVE  patches'[p] < vanished'[p]
  <2>1. p \in req[a].info
    BY <1>4
  <2>2. p \in Pairs
    BY <2>1 DEF AutopatchInv, TypeOK, Call
  <2>3. CASE LiveOf(p) = {}
    BY <1>1, <1>2, <2>1, <2>2, <2>3 DEF PatchInv
  <2>4. CASE LiveOf(p) # {}
    <3>1. vanished'[p] = vanished[p] + 1
      BY <1>4, <2>2, <2>4 DEF Vanishes
    <3> QED
      BY <1>1, <2>2, <3>1 DEF PatchInv, AtMostOnce
  <2> QED
    BY <2>3, <2>4
<1> QED
  BY <1>3, <1>4 DEF PatchInv

\* A query that changes neither instances nor patches.
LEMMA QueryKeepsPatch ==
    ASSUME AutopatchInv, PatchInv, NEW a \in Requests, Others(a),
           UNCHANGED <<inst, instVersion, vanished, patches>>,
           req'[a].pc \notin Holding => req'[a].info = {},
           \A p \in req'[a].info : p \in req[a].info \/ LiveOf(p) # {}
    PROVE  PatchInv'
<1>1. Vanishes
  BY StillVanishes
<1>2. \A p : LiveOf(p)' = LiveOf(p)
  BY SameInstances
<1>3. \A b \in Requests : req'[b].pc \notin Holding => req'[b].info = {}
  BY DEF Others, PatchInv
<1>4. \A b \in Requests : \A p \in req'[b].info : p \in req[b].info \/ LiveOf(p)' # {}
  BY <1>2 DEF Others
<1> QED
  BY <1>1, <1>3, <1>4, NoPatchKeeps

\* Insertion consumes the patch that was collected; nobody else holds it.
LEMMA InsertKeepsPatch ==
    ASSUME AutopatchInv, PatchInv, Serial, NEW a \in Requests, UNCHANGED alone,
           insertPatches(a)
    PROVE  PatchInv'
<1>1. patches \in [Pairs -> Nat] /\ vanished \in [Pairs -> Nat]
  BY DEF AutopatchInv, TypeOK, TablesType
<1>2. \A p : LiveOf(p)' = LiveOf(p)
  BY InsertFields, SameInstances
<1>3. ASSUME NEW p \in req[a].info, insertPatchIfNoInstanceExists(p),
             req'[a].pc = "insert", req'[a].info = req[a].info \ {p}
      PROVE  PatchInv'
  <2>1. p \in Pairs
    BY DEF AutopatchInv, TypeOK, Call
  <2>2. /\ \A q \in Pairs : q # p => patches'[q] = patches[q]
        /\ patches'[p] = IF LiveOf(p) = {} THEN patches[p] + 1 ELSE patches[p]
    BY <1>1, <1>3, <2>1 DEF insertPatchIfNoInstanceExists
  <2>3. vanished' = vanished /\ Others(a) /\ req[a].pc = "insert"
    BY InsertFields
  <2>4. LiveOf(p) = {} => patches[p] < vanished[p]
    BY DEF PatchInv
  <2>5. AtMostOnce'
    BY <1>1, <2>1, <2>2, <2>3, <2>4 DEF PatchInv, AtMostOnce
  <2>6. \A b \in Requests : b # a => req[b].pc = "idle"
    BY <2>3 DEF Serial
  <2>7. \A b \in Requests : b # a => req'[b].info = {}
    BY <2>3, <2>6 DEF PatchInv, Others, Holding
  <2>8. \A q \in req'[a].info : q \in Pairs /\ q # p /\ q \in req[a].info
    BY <1>3 DEF AutopatchInv, TypeOK, Call
  <2>9. \A b \in Requests : \A q \in req'[b].info :
           LiveOf(q)' = {} => patches'[q] < vanished'[q]
    BY <1>2, <2>2, <2>3, <2>7, <2>8 DEF PatchInv
  <2>10. \A b \in Requests : req'[b].pc \notin Holding => req'[b].info = {}
    BY <1>3, <2>7 DEF Holding
  <2> QED
    BY <2>5, <2>9, <2>10 DEF PatchInv
<1>4. ASSUME UNCHANGED patches, req'[a].pc = "tag", req'[a].info = {}
      PROVE  PatchInv'
  BY <1>4, InsertFields, QueryKeepsPatch
<1> QED
  BY <1>3, <1>4, InsertFields

LEMMA CallKeepsPatch ==
    ASSUME AutopatchInv, PatchInv, Serial, UNCHANGED alone, NEW a \in Requests,
           Autopatch(a) \/ AutopatchError(a)
    PROVE  PatchInv'
<1> USE DEF tables
<1>0. req[a].pc \notin Holding => req[a].info = {}
  BY DEF PatchInv
<1>1. ASSUME \/ fetchCompletedRunsWithNewestFirst(a) \/ processAutopatchOnCompletedRuns(a)
             \/ AutopatchReturn(a) \/ fetchLatestInstances(a)
             \/ fetchSecondLatestInstances(a)
      PROVE  PatchInv'
  <2>1. req'[a].info = {}
    BY <1>0, <1>1, EarlyFields DEF Early, Holding
  <2> QED
    BY <1>1, <2>1, EarlyFields, QueryKeepsPatch
<1>2. CASE getPatches(a)
  <2>1. \A i : \A p \in PatchInfo(i) : LiveOf(p) # {}
    BY DEF PatchInfo, LiveOf
  <2>2. /\ Others(a) /\ UNCHANGED <<inst, instVersion, vanished, patches>>
        /\ req'[a].pc \in Holding
        /\ req'[a].info = req[a].info \/ \E i : req'[a].info = req[a].info \cup PatchInfo(i)
    BY <1>2, PatchesFields DEF Holding
  <2> QED
    BY <2>1, <2>2, QueryKeepsPatch
<1>3. CASE GetAllIssueMatchIds(a)
  BY <1>3, ListMatchesFields, QueryKeepsPatch DEF Holding
<1>13. CASE deleteIssueMatchesOfDisappearedInstances(a)
  BY <1>13, UnmatchFields, QueryKeepsPatch DEF Holding
<1>4. CASE getVersionIdsOfDisappearedInstances(a)
  BY <1>4, VersionsFields, QueryKeepsPatch DEF Holding
<1>5. CASE deleteDisappearedInstances(a)
  <2>1. CASE UNCHANGED <<inst, vanished>> /\ req'[a].pc = "components"
    BY <1>5, <2>1, DeleteFields, QueryKeepsPatch DEF Holding
  <2>2. ASSUME NEW i \in req[a].work, DeleteComponentInstance(i), req'[a].pc = "delete"
        PROVE  PatchInv'
    <3>1. req[a].pc = "delete" /\ UNCHANGED <<instVersion, patches>> /\ Others(a)
          /\ req'[a].info = req[a].info
      BY <1>5, DeleteFields
    <3>2. i \in Instances
      BY <2>2, <3>1 DEF AutopatchInv, TypeOK, CallOK, Call
    <3>3. Vanishes
      BY <2>2, <3>1, <3>2, DeleteVanishes
    <3>4. /\ \A b \in Requests : req'[b].pc \notin Holding => req'[b].info = {}
          /\ \A b \in Requests : req'[b].info = req[b].info
      BY <2>2, <3>1 DEF Others, PatchInv, Holding
    <3> QED
      BY <3>1, <3>3, <3>4, NoPatchKeeps
  <2> QED
    BY <1>5, <2>1, <2>2, DeleteFields
<1>6. CASE getComponentIdsOfDisappearedInstances(a)
  BY <1>6, ComponentsFields, QueryKeepsPatch DEF Holding
<1>7. CASE checkVersionOfDisappearedInstances(a)
  BY <1>7, CheckVersionFields, QueryKeepsPatch DEF Holding
<1>8. CASE removeIssuesFromVersions(a)
  BY <1>8, UnlinkFields, QueryKeepsPatch DEF Holding
<1>9. CASE deleteVersionsOfDisappearedInstances(a)
  BY <1>9, DropFields, QueryKeepsPatch DEF Holding
<1>10. CASE checkComponentOfDisappearedInstances(a)
  BY <1>10, CheckComponentFields, QueryKeepsPatch DEF Holding
<1>14. CASE deleteComponentsOfDisappearedInstances(a)
  BY <1>14, DropComponentFields, QueryKeepsPatch DEF Holding
<1>11. CASE insertPatches(a)
  BY <1>11, InsertKeepsPatch
<1>12. CASE AutopatchError(a)
  BY <1>12, ErrorFields, QueryKeepsPatch
<1> QED
  BY <1>1, <1>2, <1>3, <1>4, <1>5, <1>6, <1>7, <1>8, <1>9, <1>10, <1>11, <1>12,
     <1>13, <1>14
  DEF Autopatch

\* Scanners and workers collect and insert nothing.
LEMMA OutsideVanishes ==
    ASSUME AutopatchInv,
           Scanner \/ \E i \in Instances : OnComponentInstanceCreate(i)
    PROVE  Vanishes /\ UNCHANGED <<req, patches>>
<1>1. ASSUME NEW t \in Tags, CreateScannerRun(t)
      PROVE  Vanishes /\ UNCHANGED <<req, patches>>
  BY <1>1, StillVanishes DEF CreateScannerRun, instVars
<1>2. ASSUME NEW r \in RunIds, NEW i \in Instances, NEW v \in Versions,
             CreateComponentInstance(r, i, v)
      PROVE  Vanishes /\ UNCHANGED <<req, patches>>
  BY <1>2, CreateLive DEF CreateComponentInstance
<1>3. ASSUME NEW r \in RunIds, NEW i \in Instances, NEW v \in Versions,
             UpdateComponentInstance(r, i, v)
      PROVE  Vanishes /\ UNCHANGED <<req, patches>>
  BY <1>3, UpdateVanishes DEF UpdateComponentInstance
<1>4. ASSUME NEW r \in RunIds, FailScannerRun(r)
      PROVE  Vanishes /\ UNCHANGED <<req, patches>>
  BY <1>4, StillVanishes DEF FailScannerRun, instVars
<1>5. ASSUME NEW i \in Instances, OnComponentInstanceCreate(i)
      PROVE  Vanishes /\ UNCHANGED <<req, patches>>
  BY <1>5, StillVanishes DEF OnComponentInstanceCreate, instVars
<1> QED
  BY <1>1, <1>2, <1>3, <1>4, <1>5 DEF Scanner

LEMMA PatchStep == AutopatchInv /\ PatchInv /\ Serial /\ [Next]_vars => PatchInv'
<1> SUFFICES ASSUME AutopatchInv, PatchInv, Serial, [Next]_vars PROVE PatchInv'
  OBVIOUS
<1>0. UNCHANGED alone
  BY DEF Next, vars
<1>1. CASE Scanner \/ \E i \in Instances : OnComponentInstanceCreate(i)
  BY <1>1, OutsideVanishes, NoPatchKeeps DEF PatchInv
<1>2. ASSUME NEW a \in Requests, NEW r \in RunIds, CompleteScannerRun(a, r)
      PROVE  PatchInv'
  <2>1. /\ Others(a) /\ UNCHANGED <<inst, instVersion, vanished, patches>>
        /\ req[a].pc \in Early /\ req'[a].info = req[a].info
    BY <1>0, <1>2, CompleteFields DEF tables
  <2>2. req'[a].info = {}
    BY <2>1 DEF PatchInv, Early, Holding
  <2> QED
    BY <2>1, <2>2, QueryKeepsPatch
<1>3. ASSUME NEW a \in Requests, Autopatch(a) \/ AutopatchError(a)
      PROVE  PatchInv'
  BY <1>0, <1>3, CallKeepsPatch
<1>4. CASE UNCHANGED vars
  <2>1. UNCHANGED <<inst, instVersion, vanished, patches, req>>
    BY <1>4 DEF vars, instVars
  <2> QED
    BY <2>1, StillVanishes, NoPatchKeeps DEF PatchInv
<1> QED
  BY <1>1, <1>2, <1>3, <1>4 DEF Next

-----------------------------------------------------------------------------
(* Alone, there is a patch for every disappearance.                        *)

\* A query that leaves instances, versions and patches alone, and what is
\* owed too.
LEMMA QueryKeepsOwed ==
    ASSUME AutopatchInv, OwedInv, NEW a \in Requests, Others(a),
           UNCHANGED <<inst, instVersion, vanished, patches, liveVersions>>,
           \A p : LiveOf(p) = {} => (p \in req'[a].info <=> p \in req[a].info),
           req'[a].pc \in {"info", "unmatch", "deleteMatch", "versions", "delete"} =>
              \A i \in req'[a].gone : i \in LiveInstances =>
                 \/ Deployment(i) \in req'[a].info
                 \/ req'[a].pc = "info" /\ i \in req'[a].work,
           req'[a].pc \in {"unlink", "dropVersion"} =>
              \A v \in req'[a].unused : ~InUse(v)
    PROVE  OwedInv'
<1>0. /\ LiveInstances' = LiveInstances
      /\ \A p : LiveOf(p)' = LiveOf(p)
      /\ \A v : InUse(v)' <=> InUse(v)
      /\ \A i : Deployment(i)' = Deployment(i)
  BY SameInstances
<1>1. \A p : Owed(p)' <=> Owed(p)
  BY <1>0 DEF Owed, Others
<1>2. OwedExactly'
  BY <1>1 DEF OwedInv, OwedExactly
<1>3. GoneNoted'
  BY <1>0 DEF OwedInv, GoneNoted, Others
<1>4. VersionsLive'
  BY <1>0 DEF OwedInv, VersionsLive
<1>5. UnusedChecked'
  BY <1>0 DEF OwedInv, UnusedChecked, Others
<1> QED
  BY <1>2, <1>3, <1>4, <1>5 DEF OwedInv

\* The others hold nothing while call a runs.
LEMMA OthersHoldNothing ==
    ASSUME PatchInv, Serial, NEW a \in Requests, req[a].pc # "idle",
           NEW b \in Requests, b # a
    PROVE  req[b].pc = "idle" /\ req[b].info = {}
  BY DEF PatchInv, Serial, Holding

LEMMA DeleteKeepsOwed ==
    ASSUME AutopatchInv, PatchInv, OwedInv, Serial, NEW a \in Requests,
           UNCHANGED alone, deleteDisappearedInstances(a)
    PROVE  OwedInv'
<1>0. /\ req[a].pc = "delete" /\ Others(a)
      /\ UNCHANGED <<instVersion, liveVersions, patches>>
      /\ req'[a].gone = req[a].gone /\ req'[a].info = req[a].info
  BY DeleteFields
<1>1. CASE UNCHANGED <<inst, vanished>> /\ req'[a].pc = "components"
  BY <1>0, <1>1, QueryKeepsOwed
<1>2. ASSUME NEW i \in req[a].work, DeleteComponentInstance(i), req'[a].pc = "delete"
      PROVE  OwedInv'
  <2>1. i \in Instances /\ i \in req[a].gone
    BY <1>0, <1>2 DEF AutopatchInv, TypeOK, CallOK, Call
  <2>2. /\ Vanishes
        /\ LiveInstances' = LiveInstances \ {i}
        /\ \A p : LiveOf(p)' = LiveOf(p) \ {i}
    BY <1>0, <1>2, <2>1, DeleteVanishes
  <2>3. \A p : i \in LiveOf(p) => p \in req[a].info
    BY <1>0, <2>1 DEF LiveOf, OwedInv, GoneNoted
  <2>4. \A b \in Requests : req'[b].info = req[b].info
    BY <1>0 DEF Others
  <2>5. \A p : Owed(p)' <=> LiveOf(p)' = {} /\ \E b \in Requests : p \in req[b].info
    BY <2>4 DEF Owed
  <2>6. ASSUME NEW p \in Pairs
        PROVE  vanished'[p] = patches'[p] + (IF Owed(p)' THEN 1 ELSE 0)
    <3>0. patches[p] \in Nat /\ vanished[p] \in Nat /\ patches'[p] = patches[p]
      BY <1>0 DEF AutopatchInv, TypeOK, TablesType
    <3>1. CASE LiveOf(p) # {} /\ LiveOf(p)' = {}
      <4>1. i \in LiveOf(p)
        BY <2>2, <3>1
      <4>2. Owed(p)' /\ ~Owed(p)
        BY <2>3, <2>5, <3>1, <4>1 DEF Owed
      <4> QED
        BY <2>2, <3>0, <3>1, <4>2 DEF Vanishes, OwedInv, OwedExactly
    <3>2. CASE ~(LiveOf(p) # {} /\ LiveOf(p)' = {})
      <4>1. Owed(p)' <=> Owed(p)
        BY <2>2, <2>5, <3>2 DEF Owed
      <4> QED
        BY <2>2, <3>0, <3>2, <4>1 DEF Vanishes, OwedInv, OwedExactly
    <3> QED
      BY <3>1, <3>2
  <2>7. \A j : Deployment(j)' = Deployment(j)
    BY <1>0 DEF Deployment
  <2>8. \A b \in Requests : b # a => req'[b].pc = "idle"
    BY <1>0, OthersHoldNothing DEF Others
  <2>9. GoneNoted'
    BY <1>0, <2>2, <2>7, <2>8 DEF OwedInv, GoneNoted
  <2>10. VersionsLive'
    BY <1>0, <2>2 DEF OwedInv, VersionsLive
  <2>11. UnusedChecked'
    BY <1>2, <2>8 DEF UnusedChecked
  <2> QED
    BY <2>6, <2>9, <2>10, <2>11 DEF OwedInv, OwedExactly
<1> QED
  BY <1>1, <1>2, DeleteFields

LEMMA InsertKeepsOwed ==
    ASSUME AutopatchInv, PatchInv, OwedInv, Serial, NEW a \in Requests,
           UNCHANGED alone, insertPatches(a)
    PROVE  OwedInv'
<1>0. /\ req[a].pc = "insert" /\ Others(a)
      /\ UNCHANGED <<inst, instVersion, vanished, liveVersions>>
  BY InsertFields
<1>1. CASE req[a].info = {} /\ UNCHANGED patches /\ req'[a].pc = "tag" /\ req'[a].info = {}
  BY <1>0, <1>1, QueryKeepsOwed
<1>2. ASSUME NEW p \in req[a].info, insertPatchIfNoInstanceExists(p),
             req'[a].pc = "insert", req'[a].info = req[a].info \ {p}
      PROVE  OwedInv'
  <2>1. p \in Pairs /\ patches \in [Pairs -> Nat] /\ vanished \in [Pairs -> Nat]
    BY DEF AutopatchInv, TypeOK, TablesType, Call
  <2>2. /\ \A q \in Pairs : q # p => patches'[q] = patches[q]
        /\ patches'[p] = IF LiveOf(p) = {} THEN patches[p] + 1 ELSE patches[p]
    BY <1>2, <2>1 DEF insertPatchIfNoInstanceExists
  <2>3. /\ LiveInstances' = LiveInstances
        /\ \A q : LiveOf(q)' = LiveOf(q)
    BY <1>0, SameInstances
  <2>4. \A b \in Requests : b # a => req'[b].pc = "idle" /\ req'[b].info = {} /\ req[b].info = {}
    BY <1>0, OthersHoldNothing DEF Others
  <2>5. ~Owed(p)' /\ (Owed(p) <=> LiveOf(p) = {})
    BY <1>2, <2>3, <2>4 DEF Owed
  <2>6. \A q : q # p => (Owed(q)' <=> Owed(q))
    BY <1>2, <2>3, <2>4 DEF Owed
  <2>7. OwedExactly'
    <3> SUFFICES ASSUME NEW q \in Pairs
                 PROVE  vanished'[q] = patches'[q] + (IF Owed(q)' THEN 1 ELSE 0)
      BY DEF OwedExactly
    <3>1. vanished[q] = patches[q] + (IF Owed(q) THEN 1 ELSE 0)
      BY DEF OwedInv, OwedExactly
    <3>2. CASE q = p
      BY <1>0, <2>1, <2>2, <2>5, <3>1, <3>2
    <3>3. CASE q # p
      BY <1>0, <2>1, <2>2, <2>6, <3>1, <3>3
    <3> QED
      BY <3>2, <3>3
  <2>8. GoneNoted' /\ UnusedChecked'
    BY <1>2, <2>4 DEF GoneNoted, UnusedChecked
  <2>9. VersionsLive'
    BY <1>0, <2>3 DEF OwedInv, VersionsLive
  <2> QED
    BY <2>7, <2>8, <2>9 DEF OwedInv
<1> QED
  BY <1>1, <1>2, InsertFields

LEMMA DropKeepsOwed ==
    ASSUME AutopatchInv, PatchInv, OwedInv, Serial, NEW a \in Requests,
           UNCHANGED alone, deleteVersionsOfDisappearedInstances(a)
    PROVE  OwedInv'
<1>0. /\ req[a].pc = "dropVersion" /\ Others(a)
      /\ UNCHANGED <<inst, instVersion, vanished, patches>>
      /\ liveVersions' = liveVersions \ req[a].unused
      /\ req'[a].pc = "checkVersion" /\ req'[a].info = req[a].info
  BY DropFields
<1>1. /\ LiveInstances' = LiveInstances
      /\ \A p : LiveOf(p)' = LiveOf(p)
  BY <1>0, SameInstances
<1>2. \A p : Owed(p)' <=> Owed(p)
  BY <1>0, <1>1 DEF Owed, Others
<1>3. OwedExactly'
  BY <1>0, <1>2 DEF OwedInv, OwedExactly
<1>4. \A b \in Requests : b # a => req'[b].pc = "idle"
  BY <1>0, OthersHoldNothing DEF Others
<1>5. GoneNoted' /\ UnusedChecked'
  BY <1>0, <1>4 DEF GoneNoted, UnusedChecked
<1>6. \A i \in LiveInstances : instVersion[i] \notin req[a].unused
  BY <1>0 DEF OwedInv, UnusedChecked, InUse
<1>7. VersionsLive'
  BY <1>0, <1>1, <1>6 DEF OwedInv, VersionsLive
<1> QED
  BY <1>3, <1>5, <1>7 DEF OwedInv

LEMMA CallKeepsOwed ==
    ASSUME AutopatchInv, PatchInv, OwedInv, Serial, alone, UNCHANGED alone,
           NEW a \in Requests, Autopatch(a) \/ AutopatchError(a)
    PROVE  OwedInv'
<1> USE DEF tables
<1>0. req[a].pc \notin Holding => req[a].info = {}
  BY DEF PatchInv
<1>1. ASSUME \/ fetchCompletedRunsWithNewestFirst(a) \/ processAutopatchOnCompletedRuns(a)
             \/ AutopatchReturn(a) \/ fetchLatestInstances(a)
             \/ fetchSecondLatestInstances(a)
      PROVE  OwedInv'
  <2>1. /\ req[a].info = {} /\ req'[a].info = {} /\ req'[a].pc \in Early \cup {"info"}
        /\ req'[a].pc = "info" => req'[a].work = req'[a].gone
    BY <1>0, <1>1, EarlyFields DEF Early, Holding
  <2> QED
    BY <1>1, <2>1, EarlyFields, QueryKeepsOwed DEF Early
<1>2. CASE getPatches(a)
  <2>0. /\ req[a].pc = "info" /\ Others(a) /\ req'[a].gone = req[a].gone
        /\ UNCHANGED <<inst, instVersion, vanished, patches, liveVersions>>
    BY <1>2, PatchesFields
  <2>1. \A i : \A p \in PatchInfo(i) : LiveOf(p) # {}
    BY DEF PatchInfo, LiveOf
  <2>2. \A i \in LiveInstances : Deployment(i) \in PatchInfo(i)
    BY DEF PatchInfo, OwedInv, VersionsLive
  <2>3. \A i \in req[a].gone : i \in LiveInstances =>
           Deployment(i) \in req[a].info \/ i \in req[a].work
    BY <2>0 DEF OwedInv, GoneNoted
  <2>4. ASSUME NEW j \in req[a].work, req'[a].pc = "info",
               req'[a].work = req[a].work \ {j}, req'[a].info = req[a].info \cup PatchInfo(j)
        PROVE  OwedInv'
    <3>1. \A i \in req'[a].gone : i \in LiveInstances =>
             Deployment(i) \in req'[a].info \/ i \in req'[a].work
      BY <2>0, <2>2, <2>3, <2>4
    <3>2. \A p : LiveOf(p) = {} => (p \in req'[a].info <=> p \in req[a].info)
      BY <2>1, <2>4
    <3> QED
      BY <2>0, <2>4, <3>1, <3>2, QueryKeepsOwed
  <2>5. ASSUME req[a].work = {}, req'[a].pc = "unmatch", req'[a].info = req[a].info
        PROVE  OwedInv'
    <3>1. \A i \in req'[a].gone : i \in LiveInstances => Deployment(i) \in req'[a].info
      BY <2>0, <2>3, <2>5
    <3> QED
      BY <2>0, <2>5, <3>1, QueryKeepsOwed
  <2> QED
    BY <1>2, <2>4, <2>5, PatchesFields
<1>3. CASE GetAllIssueMatchIds(a)
  <2>1. /\ req[a].pc = "unmatch" /\ req'[a].pc \in {"deleteMatch", "versions"}
        /\ UNCHANGED <<inst, instVersion, vanished, patches, liveVersions>> /\ Others(a)
        /\ req'[a].gone = req[a].gone /\ req'[a].info = req[a].info
    BY <1>3, ListMatchesFields
  <2>2. \A i \in req[a].gone : i \in LiveInstances => Deployment(i) \in req[a].info
    BY <2>1 DEF OwedInv, GoneNoted
  <2> QED
    BY <2>1, <2>2, QueryKeepsOwed
<1>13. CASE deleteIssueMatchesOfDisappearedInstances(a)
  <2>1. /\ req[a].pc = "deleteMatch" /\ req'[a].pc \in {"deleteMatch", "unmatch"}
        /\ UNCHANGED <<inst, instVersion, vanished, patches, liveVersions>> /\ Others(a)
        /\ req'[a].gone = req[a].gone /\ req'[a].info = req[a].info
    BY <1>13, UnmatchFields
  <2>2. \A i \in req[a].gone : i \in LiveInstances => Deployment(i) \in req[a].info
    BY <2>1 DEF OwedInv, GoneNoted
  <2> QED
    BY <2>1, <2>2, QueryKeepsOwed
<1>4. CASE getVersionIdsOfDisappearedInstances(a)
  <2>1. \A i \in req[a].gone : i \in LiveInstances => Deployment(i) \in req[a].info
    BY <1>4, VersionsFields DEF OwedInv, GoneNoted
  <2> QED
    BY <1>4, <2>1, VersionsFields, QueryKeepsOwed
<1>5. CASE deleteDisappearedInstances(a)
  BY <1>5, DeleteKeepsOwed
<1>6. CASE getComponentIdsOfDisappearedInstances(a)
  BY <1>6, ComponentsFields, QueryKeepsOwed
<1>7. CASE checkVersionOfDisappearedInstances(a)
  BY <1>7, CheckVersionFields, QueryKeepsOwed
<1>8. CASE removeIssuesFromVersions(a)
  <2>1. \A v \in req[a].unused : ~InUse(v)
    BY <1>8, UnlinkFields DEF OwedInv, UnusedChecked
  <2> QED
    BY <1>8, <2>1, UnlinkFields, QueryKeepsOwed
<1>9. CASE deleteVersionsOfDisappearedInstances(a)
  BY <1>9, DropKeepsOwed
<1>10. CASE checkComponentOfDisappearedInstances(a)
  BY <1>10, CheckComponentFields, QueryKeepsOwed
<1>14. CASE deleteComponentsOfDisappearedInstances(a)
  BY <1>14, DropComponentFields, QueryKeepsOwed
<1>11. CASE insertPatches(a)
  BY <1>11, InsertKeepsOwed
<1>12. CASE AutopatchError(a)
  BY <1>12 DEF AutopatchError
<1> QED
  BY <1>1, <1>2, <1>3, <1>4, <1>5, <1>6, <1>7, <1>8, <1>9, <1>10, <1>11, <1>12,
     <1>13, <1>14
  DEF Autopatch

\* Alone, scanners act only between calls and upgrade nothing in place.
LEMMA OutsideAlone ==
    ASSUME AutopatchInv, alone,
           Scanner \/ \E i \in Instances : OnComponentInstanceCreate(i)
    PROVE  /\ \A a \in Requests : req[a].pc = "idle"
           /\ UNCHANGED <<req, patches, liveVersions, liveComponents>>
           /\ \/ UNCHANGED <<inst, instVersion, vanished>>
              \/ \E r \in RunIds, i \in Instances, v \in Versions :
                    CreateComponentInstance(r, i, v) /\ v \in liveVersions
<1>1. \A i \in Instances : instVersion \in [Instances -> Versions]
  BY DEF AutopatchInv, TypeOK, TablesType
<1>2. ASSUME NEW r \in RunIds, NEW i \in Instances, NEW v \in Versions,
             UpdateComponentInstance(r, i, v)
      PROVE  /\ \A a \in Requests : req[a].pc = "idle"
             /\ UNCHANGED <<req, patches, liveVersions, liveComponents>>
             /\ UNCHANGED <<inst, instVersion, vanished>>
  <2>1. v = instVersion[i]
    BY <1>2 DEF UpdateComponentInstance
  <2> QED
    BY <1>1, <1>2, <2>1 DEF UpdateComponentInstance, Undisturbed, catVars
<1>3. ASSUME NEW r \in RunIds, NEW i \in Instances, NEW v \in Versions,
             CreateComponentInstance(r, i, v)
      PROVE  /\ \A a \in Requests : req[a].pc = "idle"
             /\ UNCHANGED <<req, patches, liveVersions, liveComponents>>
             /\ v \in liveVersions
  BY <1>3 DEF CreateComponentInstance, Undisturbed, Found, catVars
<1>4. ASSUME \/ \E t \in Tags : CreateScannerRun(t)
             \/ \E r \in RunIds : FailScannerRun(r)
             \/ \E i \in Instances : OnComponentInstanceCreate(i)
      PROVE  /\ \A a \in Requests : req[a].pc = "idle"
             /\ UNCHANGED <<req, patches, liveVersions, liveComponents>>
             /\ UNCHANGED <<inst, instVersion, vanished>>
  BY <1>4 DEF CreateScannerRun, FailScannerRun, OnComponentInstanceCreate,
     Undisturbed, instVars, catVars
<1> QED
  BY <1>2, <1>3, <1>4 DEF Scanner

LEMMA OutsideKeepsOwed ==
    ASSUME AutopatchInv, PatchInv, OwedInv, alone,
           Scanner \/ \E i \in Instances : OnComponentInstanceCreate(i)
    PROVE  OwedInv'
<1>0. /\ \A a \in Requests : req[a].pc = "idle"
      /\ UNCHANGED <<req, patches, liveVersions>>
  BY OutsideAlone
<1>1. \A a \in Requests : req[a].info = {} /\ req'[a].info = {} /\ req'[a].pc = "idle"
  BY <1>0 DEF PatchInv, Holding
<1>2. \A p : ~Owed(p) /\ ~Owed(p)'
  BY <1>1 DEF Owed
<1>3. GoneNoted' /\ UnusedChecked'
  BY <1>1 DEF GoneNoted, UnusedChecked
<1>4. CASE UNCHANGED <<inst, instVersion, vanished>>
  <2>1. LiveInstances' = LiveInstances
    BY <1>4, SameInstances
  <2>2. OwedExactly' /\ VersionsLive'
    BY <1>0, <1>2, <1>4, <2>1 DEF OwedInv, OwedExactly, VersionsLive
  <2> QED
    BY <1>3, <2>2 DEF OwedInv
<1>5. ASSUME NEW r \in RunIds, NEW i \in Instances, NEW v \in Versions,
             CreateComponentInstance(r, i, v), v \in liveVersions
      PROVE  OwedInv'
  <2>1. vanished' = vanished
    BY <1>5 DEF CreateComponentInstance
  <2>2. OwedExactly'
    BY <1>0, <1>2, <2>1 DEF OwedInv, OwedExactly
  <2>3. VersionsLive'
    BY <1>0, <1>5, CreateLive DEF OwedInv, VersionsLive, LiveInstances
  <2> QED
    BY <1>3, <2>2, <2>3 DEF OwedInv
<1> QED
  BY <1>4, <1>5, OutsideAlone

LEMMA OwedStep ==
    AutopatchInv /\ PatchInv /\ Serial /\ (alone => OwedInv) /\ [Next]_vars
        => (alone => OwedInv)'
<1> SUFFICES ASSUME AutopatchInv, PatchInv, Serial, alone => OwedInv, [Next]_vars, alone'
             PROVE  OwedInv'
  OBVIOUS
<1>0. UNCHANGED alone
  BY DEF Next, vars
<1>1. alone /\ OwedInv
  BY <1>0
<1>2. CASE Scanner \/ \E i \in Instances : OnComponentInstanceCreate(i)
  BY <1>1, <1>2, OutsideKeepsOwed
<1>3. ASSUME NEW a \in Requests, NEW r \in RunIds, CompleteScannerRun(a, r)
      PROVE  OwedInv'
  BY <1>0, <1>1, <1>3, CompleteFields, QueryKeepsOwed DEF tables, Early
<1>4. ASSUME NEW a \in Requests, Autopatch(a) \/ AutopatchError(a)
      PROVE  OwedInv'
  BY <1>0, <1>1, <1>4, CallKeepsOwed
<1>5. CASE UNCHANGED vars
  <2>1. UNCHANGED <<inst, instVersion, vanished, patches, liveVersions, req>>
    BY <1>5 DEF vars, instVars, catVars
  <2>2. /\ LiveInstances' = LiveInstances
        /\ \A p : LiveOf(p)' = LiveOf(p)
        /\ \A v : InUse(v)' <=> InUse(v)
        /\ \A i : Deployment(i)' = Deployment(i)
    BY <2>1, SameInstances
  <2>3. \A p : Owed(p)' <=> Owed(p)
    BY <2>1, <2>2 DEF Owed
  <2>4. OwedExactly'
    BY <1>1, <2>1, <2>3 DEF OwedInv, OwedExactly
  <2>5. GoneNoted'
    BY <1>1, <2>1, <2>2 DEF OwedInv, GoneNoted
  <2>6. VersionsLive' /\ UnusedChecked'
    BY <1>1, <2>1, <2>2 DEF OwedInv, VersionsLive, UnusedChecked
  <2> QED
    BY <2>4, <2>5, <2>6 DEF OwedInv
<1> QED
  BY <1>2, <1>3, <1>4, <1>5 DEF Next

-----------------------------------------------------------------------------
(* Alone, what a call leaves behind is clean.                              *)

\* The query returns all its rows if they fit into one page.
LEMMA PageFits ==
    ASSUME NEW T \in SUBSET Instances, NEW S \in SUBSET T, Cardinality(T) <= PageLimit
    PROVE  FirstPage(S) = S
<1> SUFFICES ASSUME NEW i \in S
             PROVE  Cardinality({j \in S : j < i}) < PageLimit
  BY DEF FirstPage
<1> DEFINE B == {j \in S : j < i}
<1>0. PageLimit \in Nat /\ MaxInstance \in Nat
  BY AutopatchAssumption
<1>1. IsFiniteSet(Instances)
  BY <1>0, FS_Interval DEF Instances
<1>2. IsFiniteSet(T)
  BY <1>1, FS_Subset
<1>3. /\ IsFiniteSet(T \ {i}) /\ Cardinality(T \ {i}) = Cardinality(T) - 1
      /\ Cardinality(T) \in Nat
  BY <1>2, FS_RemoveElement, FS_CardinalityType
<1>4. B \subseteq T \ {i}
  <2>1. i \in Int /\ ~(i < i)
    BY <1>0 DEF Instances
  <2> QED
    BY <2>1
<1>5. Cardinality(B) <= Cardinality(T \ {i}) /\ Cardinality(B) \in Nat
  BY <1>3, <1>4, FS_Subset, FS_CardinalityType
<1> QED
  BY <1>0, <1>3, <1>5

\* A query that keeps what is ahead of its call.
LEMMA QueryKeepsCleanup ==
    ASSUME CleanupInv, NEW a \in Requests, Others(a),
           UNCHANGED <<tracker, inst, instVersion, matched, created>>,
           liveVersions' \subseteq liveVersions, ComponentsLive',
           \A m \in matches : m \in matches' \/ WillDelete(req'[a], m[1]),
           \A i : WillDelete(req[a], i) => WillDelete(req'[a], i),
           req'[a].pc = "delete" =>
              \A i \in req'[a].gone : i \in LiveInstances => instVersion[i] \in req'[a].vers,
           req'[a].pc = "dropComponent" =>
              \A c \in req'[a].unused : ~ComponentInUse(c),
           \A v : WillCheck(req[a], v) =>
              InUse(v) \/ v \notin liveVersions' \/ WillCheck(req'[a], v)
    PROVE  CleanupInv'
<1>0. /\ LiveInstances' = LiveInstances
      /\ \A v : InUse(v)' <=> InUse(v)
  BY SameInstances
<1>1. Existing'
  BY DEF CleanupInv, Existing
<1>2. MatchesAhead'
  <2> SUFFICES ASSUME NEW m \in matched, m \notin matches', inst[m[1]] = "live"
               PROVE  \E b \in Requests : WillDelete(req'[b], m[1])
    BY DEF MatchesAhead
  <2>1. CASE m \in matches
    BY <2>1
  <2>2. CASE m \notin matches
    <3>1. PICK b \in Requests : WillDelete(req[b], m[1])
      BY <2>2 DEF CleanupInv, MatchesAhead
    <3>2. WillDelete(req'[b], m[1])
      BY <3>1 DEF Others
    <3> QED
      BY <3>2
  <2> QED
    BY <2>1, <2>2
<1>3. VersionsCollected'
  BY <1>0 DEF CleanupInv, VersionsCollected, Others
<1>4. VersionsAhead'
  <2> SUFFICES ASSUME NEW i \in Instances, Orphan(i)'
               PROVE  \E b \in Requests : WillCheck(req'[b], instVersion[i])
    BY DEF VersionsAhead
  <2>1. Orphan(i) /\ ~InUse(instVersion[i]) /\ instVersion[i] \in liveVersions'
    BY <1>0 DEF Orphan
  <2>2. PICK b \in Requests : WillCheck(req[b], instVersion[i])
    BY <2>1 DEF CleanupInv, VersionsAhead
  <2>3. WillCheck(req'[b], instVersion[i])
    BY <2>1, <2>2 DEF Others
  <2> QED
    BY <2>3
<1>5. ComponentsChecked'
  <2>1. \A c : ~ComponentInUse(c) => ~ComponentInUse(c)'
    BY DEF ComponentInUse
  <2> QED
    BY <2>1 DEF CleanupInv, ComponentsChecked, Others
<1> QED
  BY <1>1, <1>2, <1>3, <1>4, <1>5 DEF CleanupInv

\* An instance that disappeared exists.
LEMMA GoneExists ==
    ASSUME AutopatchInv, Existing, NEW a \in Requests, NEW i \in req[a].gone
    PROVE  inst[i] \in {"live", "deleted"}
<1>1. i \in Instances /\ Confirmed(i)
  BY DEF AutopatchInv, CallOK, TypeOK, Call
<1>2. PICK old \in everCompleted : <<old, i>> \in tracker
  BY <1>1 DEF Confirmed, Absent
<1>3. inst[i] # "absent"
  BY <1>2 DEF Existing
<1> QED
  BY <1>1, <1>3 DEF AutopatchInv, TypeOK, TablesType

LEMMA DeleteKeepsCleanup ==
    ASSUME AutopatchInv, CleanupInv, Serial, NEW a \in Requests,
           UNCHANGED alone, deleteDisappearedInstances(a)
    PROVE  CleanupInv'
<1>0. /\ req[a].pc = "delete" /\ Others(a)
      /\ UNCHANGED <<tracker, instVersion, liveVersions, liveComponents,
                     matches, matched, created>>
      /\ req'[a].gone = req[a].gone /\ req'[a].vers = req[a].vers
  BY DeleteFields
<1>1. ComponentsLive'
  BY <1>0 DEF CleanupInv, ComponentsLive
<1>2. CASE req[a].work = {} /\ inst' = inst /\ req'[a].pc = "components"
  <2>1. \A i : ~WillDelete(req[a], i)
    BY <1>0, <1>2 DEF WillDelete
  <2>2. \A v : WillCheck(req[a], v) => WillCheck(req'[a], v)
    BY <1>0, <1>2 DEF WillCheck
  <2> QED
    BY <1>0, <1>1, <1>2, <2>1, <2>2, QueryKeepsCleanup
<1>3. ASSUME NEW i \in req[a].work, DeleteComponentInstance(i),
             req'[a].pc = "delete", req'[a].work = req[a].work \ {i}
      PROVE  CleanupInv'
  <2>1. i \in Instances /\ i \in req[a].gone
    BY <1>0 DEF AutopatchInv, TypeOK, CallOK, Call
  <2>2. inst' = [inst EXCEPT ![i] = "deleted"] /\ inst \in [Instances -> {"absent", "live", "deleted"}]
    BY <1>3 DEF DeleteComponentInstance, AutopatchInv, TypeOK, TablesType
  <2>3. \A j : j \in LiveInstances' <=> j \in LiveInstances /\ j # i
    BY <2>1, <2>2 DEF LiveInstances
  <2>4. inst[i] \in {"live", "deleted"}
    BY <2>1, GoneExists DEF CleanupInv
  <2>5. \A b \in Requests : b # a => req'[b] = req[b] /\ req[b].pc = "idle"
    BY <1>0 DEF Others, Serial
  <2>6. Existing'
    BY <1>0, <2>2 DEF CleanupInv, Existing, AutopatchInv, TypeOK, TablesType, RunsType
  <2>7. MatchesAhead'
    <3> SUFFICES ASSUME NEW m \in matched, m \notin matches, inst'[m[1]] = "live"
                 PROVE  \E b \in Requests : WillDelete(req'[b], m[1])
      BY <1>0 DEF MatchesAhead
    <3>1. m[1] \in Instances
      BY DEF AutopatchInv, TypeOK, TablesType
    <3>2. m[1] # i /\ inst[m[1]] = "live"
      BY <2>1, <2>2, <3>1
    <3>3. PICK b \in Requests : WillDelete(req[b], m[1])
      BY <3>2 DEF CleanupInv, MatchesAhead
    <3>4. b = a
      BY <2>5, <3>3 DEF WillDelete
    <3>5. m[1] \in req[a].work
      BY <1>0, <3>3, <3>4 DEF WillDelete
    <3> QED
      BY <1>3, <3>2, <3>5 DEF WillDelete
  <2>8. VersionsCollected'
    BY <1>0, <2>3, <2>5 DEF CleanupInv, VersionsCollected
  <2>9. VersionsAhead'
    <3> SUFFICES ASSUME NEW j \in Instances, Orphan(j)'
                 PROVE  \E b \in Requests : WillCheck(req'[b], instVersion[j])
      BY <1>0 DEF VersionsAhead
    <3>0. /\ inst'[j] = "deleted" /\ instVersion[j] \in liveVersions
          /\ \A k \in LiveInstances : k # i => instVersion[k] # instVersion[j]
      BY <1>0, <2>3 DEF Orphan, InUse
    <3>1. CASE inst[i] = "live" /\ instVersion[i] = instVersion[j]
      <4>1. instVersion[i] \in req[a].vers
        BY <1>0, <2>1, <3>1 DEF CleanupInv, VersionsCollected, LiveInstances
      <4> QED
        BY <1>0, <1>3, <3>1, <4>1 DEF WillCheck
    <3>2. CASE ~(inst[i] = "live" /\ instVersion[i] = instVersion[j])
      <4>1. inst[j] = "deleted"
        BY <2>1, <2>2, <2>4, <3>0, <3>2
      <4>2. ~InUse(instVersion[j])
        BY <3>0, <3>2 DEF InUse, LiveInstances
      <4>3. PICK b \in Requests : WillCheck(req[b], instVersion[j])
        BY <3>0, <4>1, <4>2 DEF CleanupInv, VersionsAhead, Orphan
      <4>4. b = a
        BY <2>5, <4>3 DEF WillCheck
      <4> QED
        BY <1>0, <1>3, <4>3, <4>4 DEF WillCheck
    <3> QED
      BY <3>1, <3>2
  <2>10. ComponentsChecked'
    BY <1>3, <2>5 DEF ComponentsChecked
  <2> QED
    BY <1>1, <2>6, <2>7, <2>8, <2>9, <2>10 DEF CleanupInv
<1> QED
  BY <1>2, <1>3, DeleteFields

LEMMA CallKeepsCleanup ==
    ASSUME AutopatchInv, OwedInv, CleanupInv, Serial, FitsPage, alone,
           UNCHANGED alone, NEW a \in Requests, Autopatch(a) \/ AutopatchError(a)
    PROVE  CleanupInv'
<1>0. ASSUME UNCHANGED <<liveVersions, liveComponents>>
      PROVE  liveVersions' \subseteq liveVersions /\ ComponentsLive'
  BY <1>0 DEF CleanupInv, ComponentsLive
<1>1. ASSUME \/ fetchCompletedRunsWithNewestFirst(a) \/ processAutopatchOnCompletedRuns(a)
             \/ AutopatchReturn(a) \/ fetchLatestInstances(a)
             \/ fetchSecondLatestInstances(a)
      PROVE  CleanupInv'
  <2>1. /\ Others(a) /\ UNCHANGED tables
        /\ req[a].pc \in Early /\ req'[a].pc \in Early \cup {"info"}
    BY <1>1, EarlyFields
  <2>2. \A x : ~WillDelete(req[a], x) /\ ~WillCheck(req[a], x)
    BY <2>1 DEF WillDelete, WillCheck, Early
  <2>3. req'[a].pc \notin {"delete", "dropComponent"}
    BY <2>1 DEF Early
  <2> QED
    BY <1>0, <2>1, <2>2, <2>3, QueryKeepsCleanup DEF tables
<1>2. CASE getPatches(a)
  <2>1. \A x : ~WillDelete(req[a], x) /\ ~WillCheck(req[a], x)
    BY <1>2, PatchesFields DEF WillDelete, WillCheck
  <2> QED
    BY <1>0, <1>2, <2>1, PatchesFields, QueryKeepsCleanup DEF tables
<1>3. CASE GetAllIssueMatchIds(a)
  <2>1. /\ req[a].pc = "unmatch" /\ req'[a].pc \in {"deleteMatch", "versions"}
        /\ UNCHANGED tables /\ Others(a) /\ req'[a].gone = req[a].gone
    BY <1>3, ListMatchesFields
  <2>2. \A x : (WillDelete(req[a], x) => WillDelete(req'[a], x)) /\ ~WillCheck(req[a], x)
    BY <2>1 DEF WillDelete, WillCheck
  <2> QED
    BY <1>0, <2>1, <2>2, QueryKeepsCleanup DEF tables
<1>13. CASE deleteIssueMatchesOfDisappearedInstances(a)
  <2>1. /\ req[a].pc = "deleteMatch" /\ req'[a].pc \in {"deleteMatch", "unmatch"}
        /\ UNCHANGED <<tracker, inst, instVersion, matched, created, liveVersions,
                       liveComponents>>
        /\ Others(a) /\ req'[a].gone = req[a].gone
        /\ \A m \in matches : m \in matches' \/ m[1] \in req[a].gone
    BY <1>13, UnmatchFields
  <2>2. \A i : (WillDelete(req'[a], i) <=> i \in req[a].gone)
               /\ (WillDelete(req[a], i) <=> i \in req[a].gone) /\ ~WillCheck(req[a], i)
    BY <2>1 DEF WillDelete, WillCheck
  <2> QED
    BY <1>0, <2>1, <2>2, QueryKeepsCleanup
<1>4. CASE getVersionIdsOfDisappearedInstances(a)
  <2>1. /\ req[a].pc = "versions" /\ Others(a) /\ UNCHANGED tables
        /\ req'[a].pc = "delete" /\ req'[a].gone = req[a].gone /\ req'[a].work = req[a].gone
        /\ req'[a].vers = {instVersion[i] : i \in FirstPage(req[a].gone \cap LiveInstances)}
    BY <1>4, VersionsFields
  <2>2. FirstPage(req[a].gone \cap LiveInstances) = req[a].gone \cap LiveInstances
    <3>1. req[a].gone \in SUBSET Instances /\ Cardinality(req[a].gone) <= PageLimit
      BY DEF AutopatchInv, TypeOK, Call, FitsPage
    <3> QED
      BY <3>1, PageFits
  <2>3. \A i \in req'[a].gone : i \in LiveInstances => instVersion[i] \in req'[a].vers
    BY <2>1, <2>2
  <2>4. \A x : (WillDelete(req[a], x) => WillDelete(req'[a], x)) /\ ~WillCheck(req[a], x)
    BY <2>1 DEF WillDelete, WillCheck
  <2> QED
    BY <1>0, <2>1, <2>3, <2>4, QueryKeepsCleanup DEF tables
<1>5. CASE deleteDisappearedInstances(a)
  BY <1>5, DeleteKeepsCleanup
<1>6. CASE getComponentIdsOfDisappearedInstances(a)
  <2>1. \A x : ~WillDelete(req[a], x) /\ (WillCheck(req[a], x) => WillCheck(req'[a], x))
    BY <1>6, ComponentsFields DEF WillDelete, WillCheck
  <2> QED
    BY <1>0, <1>6, <2>1, ComponentsFields, QueryKeepsCleanup DEF tables
<1>7. CASE checkVersionOfDisappearedInstances(a)
  <2>1. /\ req[a].pc = "checkVersion" /\ Others(a) /\ UNCHANGED tables
        /\ req'[a].pc \notin {"delete", "dropComponent"}
    BY <1>7, CheckVersionFields
  <2>2. \A x : ~WillDelete(req[a], x)
    BY <2>1 DEF WillDelete
  <2>3. \A v : WillCheck(req[a], v) => InUse(v) \/ WillCheck(req'[a], v)
    BY <1>7, CheckVersionFields DEF WillCheck
  <2> QED
    BY <1>0, <2>1, <2>2, <2>3, QueryKeepsCleanup DEF tables
<1>8. CASE removeIssuesFromVersions(a)
  <2>1. \A x : ~WillDelete(req[a], x) /\ (WillCheck(req[a], x) => WillCheck(req'[a], x))
    BY <1>8, UnlinkFields DEF WillDelete, WillCheck
  <2> QED
    BY <1>0, <1>8, <2>1, UnlinkFields, QueryKeepsCleanup DEF tables
<1>9. CASE deleteVersionsOfDisappearedInstances(a)
  <2>1. /\ req[a].pc = "dropVersion" /\ Others(a) /\ req'[a].pc = "checkVersion"
        /\ UNCHANGED <<tracker, inst, instVersion, liveComponents, matches, matched, created>>
        /\ liveVersions' = liveVersions \ req[a].unused
        /\ req'[a].work = req[a].work \ req[a].unused
    BY <1>9, DropFields
  <2>2. \A x : ~WillDelete(req[a], x)
    BY <2>1 DEF WillDelete
  <2>3. \A v : WillCheck(req[a], v) => v \notin liveVersions' \/ WillCheck(req'[a], v)
    BY <2>1 DEF WillCheck
  <2>4. ComponentsLive'
    BY <2>1 DEF CleanupInv, ComponentsLive
  <2> QED
    BY <2>1, <2>2, <2>3, <2>4, QueryKeepsCleanup
<1>10. CASE checkComponentOfDisappearedInstances(a)
  <2>1. /\ req[a].pc = "checkComponent" /\ Others(a) /\ UNCHANGED tables
        /\ req'[a].pc # "delete"
        /\ req'[a].pc = "dropComponent" => \A c \in req'[a].unused : ~ComponentInUse(c)
    BY <1>10, CheckComponentFields
  <2>2. \A x : ~WillDelete(req[a], x) /\ ~WillCheck(req[a], x)
    BY <2>1 DEF WillDelete, WillCheck
  <2> QED
    BY <1>0, <2>1, <2>2, QueryKeepsCleanup DEF tables
<1>14. CASE deleteComponentsOfDisappearedInstances(a)
  <2>1. /\ req[a].pc = "dropComponent" /\ Others(a) /\ req'[a].pc = "checkComponent"
        /\ UNCHANGED <<tracker, inst, instVersion, liveVersions, matches, matched, created>>
        /\ liveComponents' = liveComponents \ req[a].unused
    BY <1>14, DropComponentFields
  <2>2. \A x : ~WillDelete(req[a], x) /\ ~WillCheck(req[a], x)
    BY <2>1 DEF WillDelete, WillCheck
  <2>3. \A c \in req[a].unused : ~ComponentInUse(c)
    BY <2>1 DEF CleanupInv, ComponentsChecked
  <2>4. ComponentsLive'
    BY <2>1, <2>3 DEF CleanupInv, ComponentsLive, ComponentInUse
  <2> QED
    BY <2>1, <2>2, <2>4, QueryKeepsCleanup
<1>11. CASE insertPatches(a)
  <2>1. \A x : ~WillDelete(req[a], x) /\ ~WillCheck(req[a], x)
    BY <1>11, InsertFields DEF WillDelete, WillCheck
  <2>2. /\ Others(a) /\ req'[a].pc \in {"insert", "tag"}
        /\ UNCHANGED <<tracker, inst, instVersion, liveVersions, liveComponents,
                       matches, matched, created>>
    BY <1>11, InsertFields
  <2> QED
    BY <1>0, <2>1, <2>2, QueryKeepsCleanup
<1>12. CASE AutopatchError(a)
  BY <1>12 DEF AutopatchError
<1> QED
  BY <1>1, <1>2, <1>3, <1>4, <1>5, <1>6, <1>7, <1>8, <1>9, <1>10, <1>11, <1>12,
     <1>13, <1>14
  DEF Autopatch

\* What scanners and workers leave alone, and what they add, exists.
LEMMA OutsideExists ==
    ASSUME AutopatchInv, Existing, alone,
           Scanner \/ \E i \in Instances : OnComponentInstanceCreate(i)
    PROVE  /\ Existing'
           /\ \A m \in matched' \ matches' : m \in matched \ matches
<1> USE DEF AutopatchInv, TypeOK, RunsType, TablesType
<1>1. ASSUME \/ \E t \in Tags : CreateScannerRun(t)
             \/ \E r \in RunIds : FailScannerRun(r)
      PROVE  UNCHANGED <<inst, tracker, matched, matches, created>>
  BY <1>1 DEF CreateScannerRun, FailScannerRun, repVars, instVars, matchVars
<1>2. ASSUME NEW r \in RunIds, NEW i \in Instances, NEW v \in Versions,
             CreateComponentInstance(r, i, v)
      PROVE  /\ Existing' /\ UNCHANGED <<matched, matches>>
  <2>1. /\ inst' = [inst EXCEPT ![i] = "live"] /\ created' = created \cup {i}
        /\ tracker' \subseteq tracker \cup {<<r, i>>} /\ UNCHANGED <<matched, matches>>
    BY <1>2 DEF CreateComponentInstance, Track
  <2>2. \A j \in Instances : inst[j] # "absent" \/ j = i => inst'[j] # "absent"
    BY <2>1
  <2>3. /\ \A j \in created : j \in Instances
        /\ \A q \in tracker : q[2] \in Instances
        /\ \A m \in matched : m[1] \in Instances
    OBVIOUS
  <2> QED
    BY <2>1, <2>2, <2>3 DEF Existing
<1>3. ASSUME NEW r \in RunIds, NEW i \in Instances, NEW v \in Versions,
             UpdateComponentInstance(r, i, v)
      PROVE  /\ Existing' /\ UNCHANGED <<matched, matches>>
  BY <1>3 DEF UpdateComponentInstance, Track, matchVars, Existing
<1>4. ASSUME NEW i \in Instances, OnComponentInstanceCreate(i)
      PROVE  /\ Existing' /\ \A m \in matched' \ matches' : m \in matched \ matches
  <2> DEFINE new == {<<i, x>> : x \in {y \in Issues : <<instVersion[i], y>> \in links}}
  <2>1. /\ matches' = matches \cup new /\ matched' = matched \cup new
        /\ i \in created /\ created' = created \ {i}
        /\ UNCHANGED <<tracker, inst>>
    BY <1>4 DEF OnComponentInstanceCreate, repVars, instVars
  <2>2. ASSUME NEW m \in new PROVE m[1] = i
    <3>1. PICK x : m = <<i, x>>
      OBVIOUS
    <3> QED
      BY <3>1
  <2> HIDE DEF new
  <2> QED
    BY <2>1, <2>2 DEF Existing
<1> QED
  BY <1>1, <1>2, <1>3, <1>4 DEF Scanner, Existing

LEMMA OutsideKeepsCleanup ==
    ASSUME AutopatchInv, CleanupInv, alone,
           Scanner \/ \E i \in Instances : OnComponentInstanceCreate(i)
    PROVE  CleanupInv'
<1>0. /\ \A a \in Requests : req[a].pc = "idle"
      /\ UNCHANGED <<req, liveVersions, liveComponents>>
  BY OutsideAlone
<1>1. /\ Existing'
      /\ \A m \in matched' \ matches' : m \in matched \ matches
  BY OutsideExists DEF CleanupInv
<1>2. /\ ComponentsLive' /\ ComponentsChecked' /\ VersionsCollected'
      /\ \A a \in Requests : \A x : ~WillDelete(req[a], x) /\ ~WillCheck(req[a], x)
  BY <1>0 DEF CleanupInv, ComponentsLive, ComponentsChecked, VersionsCollected, WillDelete, WillCheck
<1>3. CASE UNCHANGED <<inst, instVersion, vanished>>
  <2>1. \A v : InUse(v)' <=> InUse(v)
    BY <1>3, SameInstances
  <2>2. MatchesAhead'
    BY <1>0, <1>1, <1>3 DEF CleanupInv, MatchesAhead
  <2>3. VersionsAhead'
    BY <1>0, <1>3, <2>1 DEF CleanupInv, VersionsAhead, Orphan
  <2> QED
    BY <1>1, <1>2, <2>2, <2>3 DEF CleanupInv
<1>4. ASSUME NEW r \in RunIds, NEW i \in Instances, NEW v \in Versions,
             CreateComponentInstance(r, i, v)
      PROVE  CleanupInv'
  <2>1. /\ inst' = [inst EXCEPT ![i] = "live"] /\ inst[i] = "absent"
        /\ instVersion' = [instVersion EXCEPT ![i] = v]
        /\ UNCHANGED <<matched, matches>>
        /\ inst \in [Instances -> {"absent", "live", "deleted"}]
        /\ instVersion \in [Instances -> Versions]
    BY <1>4 DEF CreateComponentInstance, AutopatchInv, TypeOK, TablesType
  <2>2. MatchesAhead'
    <3>1. \A m \in matched : m[1] \in Instances /\ m[1] # i
      BY <2>1 DEF CleanupInv, Existing, AutopatchInv, TypeOK, TablesType
    <3> QED
      BY <1>0, <2>1, <3>1 DEF CleanupInv, MatchesAhead
  <2>3. \A w : InUse(w) => InUse(w)'
    BY <2>1 DEF InUse, LiveInstances
  <2>4. VersionsAhead'
    <3> SUFFICES ASSUME NEW j \in Instances, Orphan(j)'
                 PROVE  FALSE
      BY DEF VersionsAhead
    <3>1. j # i /\ Orphan(j)
      BY <1>0, <2>1, <2>3 DEF Orphan
    <3> QED
      BY <1>2, <3>1 DEF CleanupInv, VersionsAhead
  <2> QED
    BY <1>1, <1>2, <2>2, <2>4 DEF CleanupInv
<1> QED
  BY <1>3, <1>4, OutsideAlone

LEMMA CleanupStep ==
    AutopatchInv /\ Serial /\ FitsPage /\ (alone => OwedInv /\ CleanupInv)
        /\ [Next]_vars => (alone => CleanupInv)'
<1> SUFFICES ASSUME AutopatchInv, Serial, FitsPage, alone => OwedInv /\ CleanupInv,
                    [Next]_vars, alone'
             PROVE  CleanupInv'
  OBVIOUS
<1>0. UNCHANGED alone
  BY DEF Next, vars
<1>1. alone /\ OwedInv /\ CleanupInv
  BY <1>0
<1>2. CASE Scanner \/ \E i \in Instances : OnComponentInstanceCreate(i)
  BY <1>1, <1>2, OutsideKeepsCleanup
<1>3. ASSUME NEW a \in Requests, NEW r \in RunIds, CompleteScannerRun(a, r)
      PROVE  CleanupInv'
  <2>1. /\ Others(a) /\ UNCHANGED tables
        /\ req[a].pc \in Early /\ req'[a].pc \in Early
    BY <1>0, <1>3, CompleteFields
  <2>2. \A x : ~WillDelete(req[a], x) /\ ~WillCheck(req[a], x)
    BY <2>1 DEF WillDelete, WillCheck, Early
  <2>3. /\ liveVersions' \subseteq liveVersions /\ ComponentsLive'
        /\ req'[a].pc \notin {"delete", "dropComponent"}
    BY <1>1, <2>1 DEF CleanupInv, ComponentsLive, tables, Early
  <2> QED
    BY <1>1, <2>1, <2>2, <2>3, QueryKeepsCleanup DEF tables
<1>4. ASSUME NEW a \in Requests, Autopatch(a) \/ AutopatchError(a)
      PROVE  CleanupInv'
  BY <1>0, <1>1, <1>4, CallKeepsCleanup
<1>5. CASE UNCHANGED vars
  <2>1. UNCHANGED <<tracker, inst, instVersion, liveVersions, liveComponents,
                    matches, matched, created, req>>
    BY <1>5 DEF vars, repVars, instVars, catVars, matchVars
  <2>2. LiveInstances' = LiveInstances /\ \A v : InUse(v)' <=> InUse(v)
    BY <2>1, SameInstances
  <2>3. Existing' /\ ComponentsLive' /\ ComponentsChecked'
    BY <1>1, <2>1 DEF CleanupInv, Existing, ComponentsLive, ComponentsChecked, ComponentInUse
  <2>4. MatchesAhead'
    BY <1>1, <2>1 DEF CleanupInv, MatchesAhead
  <2>5. VersionsCollected'
    BY <1>1, <2>1, <2>2 DEF CleanupInv, VersionsCollected
  <2>6. VersionsAhead'
    BY <1>1, <2>1, <2>2 DEF CleanupInv, VersionsAhead, Orphan
  <2> QED
    BY <2>3, <2>4, <2>5, <2>6 DEF CleanupInv
<1> QED
  BY <1>2, <1>3, <1>4, <1>5 DEF Next

-----------------------------------------------------------------------------
(* The theorems about calls that do not overlap.                           *)

LEMMA InitPatch == Init => PatchInv
<1> SUFFICES ASSUME Init PROVE PatchInv
  OBVIOUS
<1>1. \A a \in Requests : req[a].info = {}
  BY DEF Init, Idle
<1>2. AtMostOnce
  BY DEF Init, AtMostOnce
<1> QED
  BY <1>1, <1>2 DEF PatchInv

LEMMA InitOwed == Init => OwedInv /\ CleanupInv
<1> SUFFICES ASSUME Init PROVE OwedInv /\ CleanupInv
  OBVIOUS
<1>1. \A a \in Requests : req[a].info = {} /\ req[a].pc = "idle"
  BY DEF Init, Idle
<1>2. /\ LiveInstances = {} /\ \A i \in Instances : inst[i] # "deleted"
      /\ created = {} /\ tracker = {} /\ matched = {}
  BY DEF Init, LiveInstances
<1>3. \A p \in Pairs : vanished[p] = 0 /\ patches[p] = 0
  BY DEF Init
<1>4. \A p : ~Owed(p)
  BY <1>1 DEF Owed
<1>5. OwedExactly
  BY <1>3, <1>4 DEF OwedExactly
<1>6. GoneNoted /\ VersionsLive /\ UnusedChecked
  BY <1>1, <1>2 DEF GoneNoted, VersionsLive, UnusedChecked
<1>7. Existing /\ MatchesAhead /\ ComponentsChecked /\ VersionsCollected /\ VersionsAhead
  BY <1>1, <1>2 DEF Existing, MatchesAhead, ComponentsChecked, VersionsCollected, VersionsAhead,
     Orphan
<1>8. ComponentsLive
  BY AutopatchAssumption DEF Init, ComponentsLive
<1> QED
  BY <1>5, <1>6, <1>7, <1>8 DEF OwedInv, CleanupInv

\* No call is in progress at first.
LEMMA InitSerial == Init => SerialInv
  BY DEF Init, Idle, SerialInv, Serial

\* The patches that are owed, at every moment until two calls overlap.
LEMMA PatchInvariance == Spec => [](AutopatchInv /\ SerialInv /\ (~overlapped => PatchInv))
<1>1. AutopatchInv /\ SerialInv /\ (~overlapped => PatchInv) /\ [Next]_vars
         => (~overlapped => PatchInv)'
  BY SerialStep, PatchStep DEF SerialInv
<1> QED
  BY <1>1, InitSerial, InitPatch, SerialStep, Invariance, PTL DEF Spec

\* As long as no two calls overlap, retries, repeated completions, failing
\* queries and scanners that report between the queries never multiply
\* patches.  (Calls that overlap do: two of them collect the same patch.)
THEOREM PatchedOnce == Spec => []NoDuplicatePatch
<1>1. (~overlapped => PatchInv) => NoDuplicatePatch
  BY DEF PatchInv, NoDuplicatePatch
<1> QED
  BY <1>1, PatchInvariance, PTL

\* Nothing interferes: nobody acts while a call is in progress, and no two
\* calls overlap.
Quiet == alone /\ ~overlapped

LEMMA OwedInvariance == Spec => [](Quiet => OwedInv)
<1>1. Init => (Quiet => OwedInv)
  BY InitOwed
<1>2. AutopatchInv /\ SerialInv /\ (~overlapped => PatchInv) /\ (Quiet => OwedInv)
         /\ [Next]_vars => (Quiet => OwedInv)'
  <2> SUFFICES ASSUME AutopatchInv, SerialInv, ~overlapped => PatchInv, Quiet => OwedInv,
                      [Next]_vars, Quiet'
               PROVE  OwedInv'
    OBVIOUS
  <2>1. ~overlapped
    BY SerialStep DEF Quiet
  <2> QED
    BY <2>1, OwedStep DEF Quiet, SerialInv
<1> QED
  BY <1>1, <1>2, PatchInvariance, PTL DEF Spec

\* When nothing interferes with a call, every disappearance of a version from
\* a service has its patch once the calls are done.
THEOREM PatchedAlways == Spec => []PatchPerDisappearance
<1>1. AutopatchInv /\ (~overlapped => PatchInv) /\ (Quiet => OwedInv) => PatchPerDisappearance
  <2> SUFFICES ASSUME AutopatchInv, PatchInv, OwedInv, AllIdle
               PROVE  patches = vanished
    BY DEF PatchPerDisappearance, Quiet
  <2>1. \A p : ~Owed(p)
    BY DEF Owed, AllIdle, PatchInv, Holding
  <2>2. patches \in [Pairs -> Nat] /\ vanished \in [Pairs -> Nat]
    BY DEF AutopatchInv, TypeOK, TablesType
  <2>3. \A p \in Pairs : patches[p] = vanished[p]
    BY <2>1, <2>2 DEF OwedInv, OwedExactly
  <2> QED
    BY <2>2, <2>3
<1> QED
  BY <1>1, PatchInvariance, OwedInvariance, PTL

\* When nothing interferes with a call and the instances that disappeared fit
\* into one page, the catalogue is consistent once the calls are done: live
\* instances keep their issue matches, no used version or component is
\* deleted, and no version of a deleted instance is left without a user.
THEOREM CatalogCleaned == Spec /\ []FitsPage => []CatalogConsistent
<1>1. AutopatchInv /\ (Quiet => OwedInv) /\ (Quiet => CleanupInv) => CatalogConsistent
  <2> SUFFICES ASSUME AutopatchInv, OwedInv, CleanupInv, AllIdle
               PROVE  /\ \A m \in matched : inst[m[1]] = "live" => m \in matches
                      /\ \A v \in Versions \ liveVersions : ~InUse(v)
                      /\ \A v \in liveVersions : ComponentOf[v] \in liveComponents
                      /\ \A i \in Instances :
                            inst[i] = "deleted" /\ ~InUse(instVersion[i]) =>
                                instVersion[i] \notin liveVersions
    BY DEF CatalogConsistent, Quiet
  <2>1. \A a \in Requests : \A x : ~WillDelete(req[a], x) /\ ~WillCheck(req[a], x)
    BY DEF AllIdle, WillDelete, WillCheck
  <2>2. \A m \in matched : inst[m[1]] = "live" => m \in matches
    BY <2>1 DEF CleanupInv, MatchesAhead
  <2>3. \A v \in Versions \ liveVersions : ~InUse(v)
    BY DEF OwedInv, VersionsLive, InUse
  <2>4. \A v \in liveVersions : ComponentOf[v] \in liveComponents
    BY DEF CleanupInv, ComponentsLive
  <2>5. \A i \in Instances :
           inst[i] = "deleted" /\ ~InUse(instVersion[i]) => instVersion[i] \notin liveVersions
    BY <2>1 DEF CleanupInv, VersionsAhead, Orphan
  <2> QED
    BY <2>2, <2>3, <2>4, <2>5
<1>2. Init => (Quiet => CleanupInv)
  BY InitOwed
<1>3. AutopatchInv /\ SerialInv /\ (Quiet => OwedInv) /\ (Quiet => CleanupInv) /\ FitsPage
         /\ [Next]_vars => (Quiet => CleanupInv)'
  <2> SUFFICES ASSUME AutopatchInv, SerialInv, Quiet => OwedInv, Quiet => CleanupInv, FitsPage,
                      [Next]_vars, Quiet'
               PROVE  CleanupInv'
    OBVIOUS
  <2>1. ~overlapped
    BY SerialStep DEF Quiet
  <2>2. alone
    BY DEF Quiet, Next, vars
  <2> QED
    BY <2>1, <2>2, CleanupStep DEF Quiet, SerialInv
<1> QED
  BY <1>1, <1>2, <1>3, PatchInvariance, OwedInvariance, PTL DEF Spec

=============================================================================
