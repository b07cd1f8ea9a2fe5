---------------------------- MODULE ScannerProofs ----------------------------
(***************************************************************************)
(* Theorems about the scanners: the scan of a cluster (K8sScan), for any   *)
(* number of namespaces, groups and slot producers, and the clients that   *)
(* fill the catalogue (Reporting), for any number of goroutines, workers,  *)
(* alerts and faults.                                                      *)
(***************************************************************************)
EXTENDS Reporting, K8sScan, TLAPS, SequenceTheorems, WellFoundedInduction

-----------------------------------------------------------------------------
(* The scan of a cluster.                                                  *)

LEMMA InitInv == ScanInit => ScanInv
<1> SUFFICES ASSUME ScanInit PROVE ScanInv
  OBVIOUS
<1> QED
  BY DEF ScanInit, ScanInv, TypeOK, NamespaceOK, CollectOK

-----------------------------------------------------------------------------
(* The goroutines of the namespaces.                                       *)

LEMMA SlotStep ==
    ASSUME ScanInv, NEW w \in Producers, NEW n \in Namespaces, TakeSlot(w, n)
    PROVE  ScanInv'
<1>1. TypeOK'
  BY DEF ScanInv, TypeOK, TakeSlot
<1>2. \A m \in Namespaces : NamespaceOK(m)'
  BY DEF ScanInv, TypeOK, TakeSlot, NamespaceOK, GroupsOf
<1>3. CollectOK'
  BY DEF ScanInv, TypeOK, TakeSlot, CollectOK
<1>4. ~closed
  BY DEF ScanInv, TakeSlot
<1> QED
  BY <1>1, <1>2, <1>3, <1>4 DEF ScanInv, TakeSlot

LEMMA ListStep ==
    ASSUME ScanInv, NEW n \in Namespaces, ListPods(n)
    PROVE  ScanInv'
<1>1. TypeOK'
  BY DEF ScanInv, TypeOK, ListPods, GroupsOf
<1>2. \A m \in Namespaces : NamespaceOK(m)'
  BY DEF ScanInv, TypeOK, ListPods, NamespaceOK, GroupsOf
<1>3. CollectOK'
  BY DEF ScanInv, TypeOK, ListPods, CollectOK
<1>4. ~closed
  BY DEF ScanInv, ListPods
<1> QED
  BY <1>1, <1>2, <1>3, <1>4 DEF ScanInv, ListPods

LEMMA GroupStep ==
    ASSUME ScanInv, NEW g \in Groups, ProcessGroup(g)
    PROVE  ScanInv'
<1>1. TypeOK'
  BY DEF ScanInv, TypeOK, ProcessGroup
<1>2. \A m \in Namespaces : NamespaceOK(m)'
  BY DEF ScanInv, TypeOK, ProcessGroup, NamespaceOK, GroupsOf
<1> QED
  BY <1>1, <1>2 DEF ScanInv, ProcessGroup, CollectOK

\* The loop over the groups ends only when none of them is left.
LEMMA EndStep ==
    ASSUME ScanInv, NEW n \in Namespaces, ProcessEnd(n)
    PROVE  ScanInv'
<1>1. TypeOK'
  BY DEF ScanInv, TypeOK, ProcessEnd
<1>2. GroupsOf(n) \subseteq reported \cup lost
  BY DEF ScanInv, ProcessEnd, NamespaceOK
<1>3. \A m \in Namespaces : NamespaceOK(m)'
  BY <1>2 DEF ScanInv, TypeOK, ProcessEnd, NamespaceOK, GroupsOf
<1>4. CollectOK'
  BY DEF ScanInv, TypeOK, ProcessEnd, CollectOK
<1>5. ~closed
  BY DEF ScanInv, ProcessEnd
<1> QED
  BY <1>1, <1>3, <1>4, <1>5 DEF ScanInv, ProcessEnd

\* The result is in the channel before wg.Done is called.
LEMMA SendStep ==
    ASSUME ScanInv, NEW n \in Namespaces, SendResult(n)
    PROVE  ScanInv'
<1>1. TypeOK'
  BY DEF ScanInv, TypeOK, SendResult, AfterSend
<1>2. \A m \in Namespaces : NamespaceOK(m)'
  BY DEF ScanInv, TypeOK, SendResult, AfterSend, NamespaceOK, GroupsOf
<1>3. CollectOK'
  BY DEF ScanInv, TypeOK, SendResult, AfterSend, CollectOK
<1>4. ~closed
  BY DEF ScanInv, SendResult
<1> QED
  BY <1>1, <1>2, <1>3, <1>4 DEF ScanInv, SendResult, Exited

-----------------------------------------------------------------------------
(* The main goroutine, the closing goroutine, the context.                 *)

LEMMA CollectStep ==
    ASSUME ScanInv, NEW n \in Namespaces, Collect(n)
    PROVE  ScanInv'
<1>1. TypeOK'
  BY DEF ScanInv, TypeOK, Collect
<1>2. \A m \in Namespaces : NamespaceOK(m)'
  BY DEF ScanInv, Collect, NamespaceOK, GroupsOf
<1>3. CollectOK'
  BY DEF ScanInv, Collect, CollectOK
<1> QED
  BY <1>1, <1>2, <1>3 DEF ScanInv, Collect

LEMMA MainStep ==
    ASSUME ScanInv, Timeout \/ CloseResults \/ CollectEnd
    PROVE  ScanInv'
<1>1. TypeOK'
  BY DEF ScanInv, TypeOK, Timeout, CloseResults, CollectEnd
<1>2. UNCHANGED <<ns, failed, todo, reported, lost, results, success>>
  BY DEF Timeout, CloseResults, CollectEnd
<1>3. CollectOK' /\ \A m \in Namespaces : NamespaceOK(m)'
  BY <1>2 DEF ScanInv, CollectOK, NamespaceOK, GroupsOf
<1>4. closed' => \A n \in Namespaces : ns'[n] = "done"
  BY <1>2 DEF ScanInv, Timeout, CloseResults, CollectEnd, Waited
<1>5. main' = "completed" => success' /\ closed' /\ results' = {}
  BY DEF ScanInv, Timeout, CloseResults, CollectEnd, Exited
<1> QED
  BY <1>1, <1>3, <1>4, <1>5 DEF ScanInv

LEMMA ProducerStep ==
    ASSUME ScanInv, (\E w \in Producers : ProducerReturn(w)) \/ UNCHANGED ScanVars
    PROVE  ScanInv'
<1>1. /\ UNCHANGED <<ns, failed, todo, results, closed, main, success, timedOut, reported, lost>>
      /\ producers' \subseteq producers
  BY DEF ProducerReturn, ScanVars
<1> QED
  BY <1>1 DEF ScanInv, TypeOK, CollectOK, NamespaceOK, GroupsOf

LEMMA NextInv == ScanInv /\ [ScanNext]_ScanVars => ScanInv'
  BY SlotStep, ListStep, GroupStep, EndStep, SendStep, CollectStep, MainStep,
     ProducerStep DEF ScanNext

-----------------------------------------------------------------------------
\* The inductive invariant holds in every state of processConcurrently.
THEOREM Invariance == ScanSpec => []ScanInv
  BY InitInv, NextInv, PTL DEF ScanSpec

\* The goroutines' places and the channels keep their types.
THEOREM TypeCorrect == ScanSpec => []TypeOK
<1>1. ScanInv => TypeOK
  BY DEF ScanInv
<1> QED
  BY <1>1, Invariance, PTL

\* main calls CompleteScannerRun only when no namespace failed and every group
\* was reported or left an error in the log.
THEOREM CompletedRunsAccountForAll == ScanSpec => []CompletedAccountsForAll
<1>1. ScanInv => CompletedAccountsForAll
  <2> SUFFICES ASSUME ScanInv, main = "completed"
               PROVE  failed = {} /\ reported \cup lost = Groups
    BY DEF CompletedAccountsForAll
  <2>1. failed = {} /\ \A n \in Namespaces : ns[n] = "done"
    BY DEF ScanInv, CollectOK, TypeOK
  <2>2. \A n \in Namespaces : GroupsOf(n) \subseteq reported \cup lost
    BY <2>1 DEF ScanInv, NamespaceOK
  <2>3. \A g \in Groups : NamespaceOf[g] \in Namespaces
    BY K8sAssumption
  <2> QED
    BY <2>1, <2>2, <2>3 DEF GroupsOf, ScanInv, TypeOK
<1> QED
  BY <1>1, Invariance, PTL

-----------------------------------------------------------------------------
(* Tables.                                                                 *)

LEMMA TableAppend ==
  ASSUME NEW t, IsTable(t), NEW e
  PROVE  /\ Len(t) \in Nat /\ DOMAIN t = 1 .. Len(t)
         /\ IsTable(Append(t, e))
         /\ DOMAIN Append(t, e) = 1 .. (Len(t) + 1)
         /\ \A i \in DOMAIN t : Append(t, e)[i] = t[i]
         /\ Append(t, e)[Len(t) + 1] = e
<1> DEFINE S == {t[i] : i \in DOMAIN t} \cup {e}
<1>1. t \in Seq({t[i] : i \in DOMAIN t})
  BY DEF IsTable
<1>2. t \in Seq(S)
  BY <1>1
<1>3. Len(t) \in Nat /\ DOMAIN t = 1 .. Len(t)
  BY <1>2
<1>4. /\ Append(t, e) \in Seq(S) /\ Len(Append(t, e)) = Len(t) + 1
      /\ \A i \in 1 .. Len(t) : Append(t, e)[i] = t[i]
      /\ Append(t, e)[Len(t) + 1] = e
  BY <1>2, AppendProperties
<1>5. DOMAIN Append(t, e) = 1 .. (Len(t) + 1)
  BY <1>4
<1> DEFINE a == Append(t, e)
<1>6. a \in Seq({a[i] : i \in DOMAIN a})
  <2> HIDE DEF a, S
  <2>1. a \in Seq(S)
    BY <1>4 DEF a
  <2>2. Len(a) \in Nat /\ DOMAIN a = 1 .. Len(a) /\ a = [i \in 1 .. Len(a) |-> a[i]]
    BY <2>1
  <2> QED
    BY <2>2, IsASeq, SMT
<1> QED
  BY <1>3, <1>4, <1>5, <1>6 DEF IsTable

LEMMA TableUpdate ==
  ASSUME NEW t, IsTable(t), NEW j \in DOMAIN t, NEW e
  PROVE  /\ IsTable([t EXCEPT ![j] = e])
         /\ DOMAIN [t EXCEPT ![j] = e] = DOMAIN t
<1> DEFINE a == [t EXCEPT ![j] = e]
<1>1. Len(t) \in Nat /\ DOMAIN t = 1 .. Len(t)
  BY DEF IsTable
<1>2. DOMAIN a = 1 .. Len(t) /\ a = [i \in 1 .. Len(t) |-> a[i]]
  BY <1>1
<1>3. a \in Seq({a[i] : i \in DOMAIN a})
  <2> HIDE DEF a
  <2> QED
    BY <1>1, <1>2, IsASeq, SMT
<1> QED
  BY <1>1, <1>2, <1>3 DEF IsTable

-----------------------------------------------------------------------------
(* What a call may do to the database and to the other clients.            *)

\* Rows stay, and only an instance may get another service and version.
Grows ==
  /\ \A k \in Kinds : \A i \in DOMAIN rows[k] :
       /\ i \in DOMAIN rows'[k]
       /\ k # "instance" => rows'[k][i] = rows[k][i]
       /\ k = "instance" => rows'[k][i].key[1] = rows[k][i].key[1]
  /\ links \subseteq links' /\ matches \subseteq matches'
  /\ \A c \in DOMAIN InstanceOf : RunsImage(c) => RunsImage(c)'

\* Only p moves; its containers and names stay.
Moves(p) ==
  /\ active' = active /\ faults' \in Nat /\ (faults' = 0 => faults = 0)
  /\ at' = [q \in active |-> at'[q]]
  /\ reg' \in [active -> [Registers -> Nat]]
  /\ \A q \in active \ {p} : at'[q] = at[q] /\ reg'[q] = reg[q]

\* p goes on at next, with r as its local variables.
Goes(p, next, r) ==
  at'[p] = next /\ reg'[p] = IF next[1] = "end" THEN NoRegisters ELSE r

Call(p) == Answer(p) \/ Fault(p) \/ LostAnswer(p)

LEMMA GrowsIs ==
  ASSUME Grows, NEW k \in Kinds \ {"instance"}, NEW id, NEW key, Is(k, id, key)
  PROVE  Is(k, id, key)'
  BY DEF Grows, Is

LEMMA GrowsLinked ==
  ASSUME Grows, NEW id, NEW owner, Linked(id, owner)
  PROVE  Linked(id, owner)'
<1>1. PICK l \in links : l[1] = id /\ Is("service", l[1], owner[1]) /\ Is("group", l[2], owner[2])
  BY DEF Linked
<1>2. Is("service", l[1], owner[1])' /\ Is("group", l[2], owner[2])'
  BY <1>1, GrowsIs DEF Kinds
<1> QED
  BY <1>1, <1>2 DEF Linked, Grows

LEMMA GrowsCcrn ==
  ASSUME Grows, NEW ccrn, NEW i \in WithCcrn(ccrn)
  PROVE  i \in WithCcrn(ccrn)'
  BY DEF Grows, WithCcrn, Kinds

LEMMA GrowsVariant ==
  ASSUME Grows, NEW p, NEW v \in DOMAIN rows["variant"], NEW i, OwnVariant(p, v, i)
  PROVE  v \in DOMAIN rows'["variant"] /\ OwnVariant(p, v, i)'
  BY DEF Grows, OwnVariant, Is, Kinds

-----------------------------------------------------------------------------
(* What the others have established stays.                                 *)

LEMMA K8sStays ==
  ASSUME ReportingInv, Grows, faults' = 0 => faults = 0, NEW q \in Goroutines, K8sOK(q),
         at'[q] = at[q], reg'[q] = reg[q], left'[q] = left[q], item'[q] = item[q]
  PROVE  K8sOK(q)'
<1>1. ServiceKnown(q)'
  BY GrowsIs DEF K8sOK, ServiceKnown, OwnerSought, PodOwner, Kinds
<1>2. ImageKnown(q)'
  BY GrowsIs, GrowsCcrn DEF K8sOK, ImageKnown, Kinds
<1>3. OwnerKnown(q)'
  BY GrowsLinked DEF K8sOK, OwnerKnown, PodOwner
<1>4. ContainersOf[GroupOf[q]] \subseteq DOMAIN InstanceOf
  BY ReportingAssumption
<1>5. Entered(q)'
  BY <1>4 DEF K8sOK, Entered, Grows
<1> QED
  BY <1>1, <1>2, <1>3, <1>5 DEF K8sOK

LEMMA AlertStays ==
  ASSUME Grows, NEW q \in Alerts, AlertOK(q), at'[q] = at[q], reg'[q] = reg[q]
  PROVE  AlertOK(q)'
<1>1. at[q] = Done => \E m \in matches' : /\ m[1] \in WithCcrn(AlertOf[q].instance)'
                                          /\ \E v \in DOMAIN rows'["variant"] : OwnVariant(q, v, m[2])'
  <2> SUFFICES ASSUME at[q] = Done
               PROVE  \E m \in matches' : /\ m[1] \in WithCcrn(AlertOf[q].instance)'
                                          /\ \E v \in DOMAIN rows'["variant"] : OwnVariant(q, v, m[2])'
    OBVIOUS
  <2>1. PICK m \in matches : /\ m[1] \in WithCcrn(AlertOf[q].instance)
                             /\ \E v \in DOMAIN rows["variant"] : OwnVariant(q, v, m[2])
    BY DEF AlertOK
  <2> QED
    BY <2>1, GrowsCcrn, GrowsVariant DEF Grows
<1>2. at[q][2] = "createIssueMatch" => \E v \in DOMAIN rows'["variant"] : OwnVariant(q, v, reg[q]["issue"])'
  BY GrowsVariant DEF AlertOK
<1>3. at[q][2] = "getIssue" =>
        /\ Is("variant", reg[q]["variant"], AlertOf[q].name)'
        /\ rows'["variant"][reg[q]["variant"]].ref[2] = AlertOf[q].url
  BY DEF AlertOK, Is, Grows, Kinds
<1> QED
  BY <1>1, <1>2, <1>3, GrowsCcrn, GrowsIs DEF AlertOK, Kinds

LEMMA ClientStays ==
  ASSUME ReportingInv, NEW p, NEW q \in active \ {p}, Moves(p), Grows,
         left'[q] = left[q], item'[q] = item[q],
         q \in Workers /\ p = Keppel /\ faults' = 0 =>
           Ended(q) \/ (at'[Keppel] = at[Keppel])
  PROVE  ClientOK(q)'
<1>1. at'[q] = at[q] /\ reg'[q] = reg[q] /\ (faults' = 0 => faults = 0) /\ active' = active
  BY DEF Moves
<1>2. ClientOK(q)
  BY DEF ReportingInv
<1>3. CASE q \in Goroutines
  BY <1>1, <1>2, <1>3, K8sStays, ProcessesApart DEF ClientOK
<1>4. CASE q \in Alerts
  BY <1>1, <1>2, <1>4, AlertStays, ProcessesApart DEF ClientOK
<1>5. CASE q \in Workers
  <2>1. IssueKnown(q)'
    BY <1>1, <1>2, <1>5, GrowsIs DEF ClientOK, WorkerOK, IssueKnown, Kinds
  <2>2. faults' = 0 /\ ~Ended(q) => Keppel \in active /\ at'[Keppel] = <<"main", "wait">>
    BY <1>1, <1>2, <1>5 DEF ClientOK, WorkerOK, Moves
  <2>3. WorkerOK(q)'
    BY <1>1, <1>2, <1>5, <2>1, <2>2 DEF ClientOK, WorkerOK, Ended
  <2> QED
    BY <1>5, <2>3, ProcessesApart DEF ClientOK
<1>6. CASE q = Keppel
  BY <1>1, <1>2, <1>6, ProcessesApart DEF ClientOK, KeppelOK
<1>7. CASE q = Nvd
  BY <1>1, <1>2, <1>7, GrowsIs, ProcessesApart DEF ClientOK, NvdOK, IssueKnown, Kinds
<1> QED
  BY <1>3, <1>4, <1>5, <1>6, <1>7 DEF ReportingInv, LocalsOK, Processes

\* The properties of the tables when one client moves.
LEMMA OwnersStay ==
  ASSUME OwnersOK, Grows, faults' = 0 => faults = 0,
         \A i \in DOMAIN rows'["instance"] : \A c \in DOMAIN InstanceOf :
            rows'["instance"][i].key[1] = InstanceOf[c] /\ faults' = 0 =>
              \/ i \in DOMAIN rows["instance"] /\ rows'["instance"][i] = rows["instance"][i]
              \/ \E owner \in ReportedOwners : Linked(rows["instance"][i].key[2], owner)'
  PROVE  OwnersOK'
<1> SUFFICES ASSUME faults' = 0, NEW c \in DOMAIN InstanceOf, NEW i \in WithCcrn(InstanceOf[c])'
             PROVE  \E owner \in ReportedOwners : Linked(rows["instance"][i].key[2], owner)'
  BY DEF OwnersOK
<1>1. i \in DOMAIN rows'["instance"] /\ rows'["instance"][i].key[1] = InstanceOf[c]
  BY DEF WithCcrn
<1>2. CASE i \in DOMAIN rows["instance"] /\ rows'["instance"][i] = rows["instance"][i]
  <2>1. i \in WithCcrn(InstanceOf[c])
    BY <1>1, <1>2 DEF WithCcrn
  <2>2. PICK owner \in ReportedOwners : Linked(rows["instance"][i].key[2], owner)
    BY <2>1 DEF OwnersOK
  <2> DEFINE s == rows["instance"][i].key[2]
  <2>3. \A t : t = s => Linked(t, owner)'
    <3> HIDE DEF s
    <3> TAKE t
    <3> HAVE t = s
    <3>1. Linked(t, owner)
      BY <2>2 DEF s
    <3> QED
      BY <3>1, GrowsLinked
  <2>4. rows'["instance"][i].key[2] = s
    BY <1>2
  <2>5. Linked(rows["instance"][i].key[2], owner)'
    BY <2>3, <2>4 DEF Linked
  <2> QED
    BY <2>5
<1> QED
  BY <1>1, <1>2

\* Issues of the scanners: new ones are about to get a variant, and whoever was
\* about to create one has done so.
LEMMA VariantsStay ==
  ASSUME ReportingInv, NEW p \in active, Moves(p), Grows,
         \A i \in DOMAIN rows'["issue"] \ DOMAIN rows["issue"] :
            faults' = 0 /\ rows'["issue"][i].ref \in {Keppel, Nvd} => CreatingVariant(i)',
         \A i \in DOMAIN rows["issue"] :
            /\ p \in Workers \cup {Nvd} /\ at[p][2] = "createIssueVariant" /\ reg[p]["issue"] = i
            /\ faults' = 0
            => HasVariant(i)' \/ CreatingVariant(i)'
  PROVE  VariantFollowsIssue'
<1> SUFFICES ASSUME faults' = 0, NEW i \in DOMAIN rows'["issue"],
                    rows'["issue"][i].ref \in {Keppel, Nvd}
             PROVE  HasVariant(i)' \/ CreatingVariant(i)'
  BY DEF VariantFollowsIssue
<1>1. CASE i \in DOMAIN rows["issue"]
  <2>1. rows["issue"][i].ref \in {Keppel, Nvd} /\ faults = 0
    BY <1>1 DEF Grows, Kinds, Moves
  <2>2. HasVariant(i) \/ CreatingVariant(i)
    BY <1>1, <2>1 DEF ReportingInv, VariantFollowsIssue
  <2>3. CASE HasVariant(i)
    BY <2>3 DEF HasVariant, Grows, Kinds
  <2>4. CASE CreatingVariant(i)
    <3>1. PICK q \in active \cap (Workers \cup {Nvd}) :
            at[q][2] = "createIssueVariant" /\ reg[q]["issue"] = i
      BY <2>4 DEF CreatingVariant
    <3>2. CASE q = p
      BY <1>1, <3>1, <3>2
    <3>3. CASE q # p
      BY <3>1, <3>3 DEF CreatingVariant, Moves
    <3> QED
      BY <3>2, <3>3
  <2> QED
    BY <2>2, <2>3, <2>4
<1> QED
  BY <1>1

\* A step of p that keeps what the others rely on, its own place and the tables.
LEMMA StepKeeps ==
  ASSUME ReportingInv, NEW p \in active, Moves(p), Grows,
         left' = [q \in active |-> left'[q]], item' = [q \in active |-> item'[q]],
         \A q \in active \ {p} : left'[q] = left[q] /\ item'[q] = item[q],
         p = Keppel /\ faults' = 0 =>
           (at'[Keppel] = at[Keppel] \/ \A w \in Workers \cap active : Ended(w)),
         TablesOK', OwnersOK', ClientOK(p)', VariantFollowsIssue'
  PROVE  ReportingInv'
<1>1. LocalsOK'
  BY DEF ReportingInv, LocalsOK, Moves
<1>2. \A q \in active' : ClientOK(q)'
  <2> SUFFICES ASSUME NEW q \in active \ {p} PROVE ClientOK(q)'
    BY DEF Moves
  <2> QED
    BY ClientStays
<1> QED
  BY <1>1, <1>2 DEF ReportingInv

-----------------------------------------------------------------------------
(* Calls.                                                                  *)

LEMMA IdsArePositive ==
  ASSUME TablesOK, NEW k \in Kinds, NEW i \in DOMAIN rows[k]
  PROVE  i \in Nat /\ i # 0
<1>1. IsTable(rows[k])
  BY DEF TablesOK
<1>2. Len(rows[k]) \in Nat /\ DOMAIN rows[k] = 1 .. Len(rows[k])
  BY <1>1, TableAppend
<1> QED
  BY <1>2

LEMMA FirstIsOne ==
  ASSUME NEW ids \in SUBSET Nat, ids # {}
  PROVE  First(ids) \in ids
<1>1. \E i \in ids : \A k \in ids : i <= k
  <2> DEFINE R == OpToRel(<, Nat)
  <2>1. IsWellFoundedOn(R, Nat)
    BY NatLessThanWellFounded
  <2>2. PICK i \in ids : \A k \in ids : ~(<<k, i>> \in R)
    <3> HIDE DEF R
    <3> QED
      BY <2>1, WFMin
  <2>3. \A k, j \in Nat : k < j => <<k, j>> \in R
    BY DEF OpToRel
  <2> HIDE DEF R
  <2>4. \A k \in ids : ~(k < i)
    BY <2>2, <2>3
  <2> QED
    BY <2>4
<1> QED
  BY <1>1 DEF First

LEMMA LookedUp ==
  ASSUME ReportingInv, NEW p \in active, Call(p), NEW k \in Kinds,
         NEW ids \in SUBSET DOMAIN rows[k], NEW into \in Registers, NEW hit, NEW miss, NEW err,
         CallOf(p) = List(ids, into, hit, miss, err)
  PROVE  /\ UNCHANGED <<rows, links, matches, left, item>> /\ Moves(p) /\ Grows
         /\ \/ \E id \in ids : Goes(p, hit, [reg[p] EXCEPT ![into] = id])
            \/ ids = {} /\ Goes(p, miss, [reg[p] EXCEPT ![into] = 0])
            \/ faults' # 0 /\ Goes(p, err, reg[p])
<1> DEFINE c == CallOf(p)
<1>1. /\ c.do = "list" /\ c.ids = ids /\ c.into = into /\ c.ok = hit /\ c.miss = miss /\ c.err = err
  BY DEF List
<1>2. at = [q \in active |-> at[q]] /\ reg \in [active -> [Registers -> Nat]] /\ faults \in Nat
  BY DEF ReportingInv, LocalsOK
<1>3. ids \in SUBSET Nat /\ NoRegisters \in [Registers -> Nat]
  BY IdsArePositive DEF ReportingInv, NoRegisters
<1>4. UNCHANGED <<rows, links, matches, left, item, active>>
  BY <1>1 DEF Call, Answer, Fault, LostAnswer, DoList, DoInsert, DoUpdate, DoRelate, database, local
<1>5. Grows
  BY <1>4 DEF Grows, RunsImage, WithCcrn, Is
<1>6. CASE Answer(p)
  <2>1. faults' = faults /\ DoList(p, c)
    BY <1>1, <1>6 DEF Answer, DoInsert, DoUpdate, DoRelate
  <2>2. CASE ids = {}
    <3>1. /\ at' = [at EXCEPT ![p] = miss]
          /\ reg' = Returning(p, miss, [reg EXCEPT ![p][into] = 0])
      BY <1>1, <2>1, <2>2 DEF DoList
    <3>2. Moves(p) /\ Goes(p, miss, [reg[p] EXCEPT ![into] = 0])
      BY <1>2, <1>3, <1>4, <2>1, <3>1 DEF Moves, Goes, Returning
    <3> QED
      BY <1>4, <1>5, <2>2, <3>2
  <2>3. CASE ids # {}
    <3>1. PICK id \in ids : id = First(ids)
      BY <1>3, <2>3, FirstIsOne
    <3>2. /\ at' = [at EXCEPT ![p] = hit]
          /\ reg' = Returning(p, hit, [reg EXCEPT ![p][into] = id])
      BY <1>1, <2>1, <2>3, <3>1 DEF DoList
    <3>3. Moves(p) /\ Goes(p, hit, [reg[p] EXCEPT ![into] = id])
      BY <1>2, <1>3, <1>4, <2>1, <3>1, <3>2 DEF Moves, Goes, Returning
    <3> QED
      BY <1>4, <1>5, <2>3, <3>3
  <2> QED
    BY <2>2, <2>3
<1>7. CASE Fault(p) \/ LostAnswer(p)
  <2>1. faults' = faults + 1 /\ at' = [at EXCEPT ![p] = err] /\ reg' = Returning(p, err, reg)
    BY <1>1, <1>7 DEF Fault, LostAnswer
  <2>2. faults' \in Nat /\ faults' # 0
    BY <1>2, <2>1
  <2>3. Goes(p, err, reg[p])
    BY <1>2, <1>3, <2>1 DEF Goes, Returning
  <2>4. Moves(p)
    BY <1>2, <1>3, <1>4, <2>1, <2>2 DEF Moves, Returning
  <2> QED
    BY <1>4, <1>5, <2>2, <2>3, <2>4
<1> QED
  BY <1>6, <1>7 DEF Call

\* A row is new in its table.
Adds(kind, row, id) ==
  /\ id \in Nat /\ id # 0 /\ id \notin DOMAIN rows[kind]
  /\ DOMAIN rows'[kind] = DOMAIN rows[kind] \cup {id}
  /\ rows'[kind][id] = row
  /\ \A i \in DOMAIN rows[kind] : rows'[kind][i] = rows[kind][i]
  /\ \A k \in Kinds \ {kind} : rows'[k] = rows[k]

LEMMA RowAdded ==
  ASSUME ReportingInv, NEW kind \in Kinds, NEW row, links \subseteq links', matches \subseteq matches',
         rows' = [rows EXCEPT ![kind] = Append(@, row)]
  PROVE  /\ Adds(kind, row, Len(rows[kind]) + 1)
         /\ Grows
         /\ rows' = [k \in Kinds |-> rows'[k]] /\ \A k \in Kinds : IsTable(rows'[k])
<1>1. rows = [k \in Kinds |-> rows[k]] /\ \A k \in Kinds : IsTable(rows[k])
  BY DEF ReportingInv, TablesOK
<1>2. rows' = [k \in Kinds |-> IF k = kind THEN Append(rows[kind], row) ELSE rows[k]]
  BY <1>1
<1>3. /\ Len(rows[kind]) \in Nat /\ DOMAIN rows[kind] = 1 .. Len(rows[kind])
      /\ IsTable(rows'[kind])
      /\ DOMAIN rows'[kind] = 1 .. (Len(rows[kind]) + 1)
      /\ \A i \in DOMAIN rows[kind] : rows'[kind][i] = rows[kind][i]
      /\ rows'[kind][Len(rows[kind]) + 1] = row
  BY <1>1, <1>2, TableAppend
<1>4. \A k \in Kinds \ {kind} : rows'[k] = rows[k]
  BY <1>2
<1>5. Adds(kind, row, Len(rows[kind]) + 1)
  BY <1>3, <1>4 DEF Adds
<1>6. \A k \in Kinds : \A i \in DOMAIN rows[k] : i \in DOMAIN rows'[k] /\ rows'[k][i] = rows[k][i]
  BY <1>3, <1>4
<1>7. \A c \in DOMAIN InstanceOf : RunsImage(c) => RunsImage(c)'
  <2> SUFFICES ASSUME NEW c \in DOMAIN InstanceOf, RunsImage(c) PROVE RunsImage(c)'
    OBVIOUS
  <2>1. PICK i \in WithCcrn(InstanceOf[c]), d \in DOMAIN InstanceOf, k \in DOMAIN rows["component"] :
          /\ InstanceOf[d] = InstanceOf[c]
          /\ Is("version", rows["instance"][i].ref, <<k, VersionOf[d]>>)
          /\ rows["component"][k].key = ComponentOf[d]
    BY DEF RunsImage
  <2>2. i \in WithCcrn(InstanceOf[c])' /\ rows'["instance"][i] = rows["instance"][i]
    BY <1>6 DEF WithCcrn, Kinds
  <2>3. k \in DOMAIN rows'["component"] /\ rows'["component"][k].key = ComponentOf[d]
    BY <1>6, <2>1 DEF Kinds
  <2>4. Is("version", rows["instance"][i].ref, <<k, VersionOf[d]>>)'
    BY <1>6, <2>1, <2>2 DEF Is, Kinds
  <2> QED
    BY <2>1, <2>2, <2>3, <2>4 DEF RunsImage
<1>8. Grows
  BY <1>6, <1>7 DEF Grows
<1> QED
  BY <1>1, <1>2, <1>3, <1>4, <1>5, <1>8

LEMMA Inserted ==
  ASSUME ReportingInv, NEW p \in active, Call(p), NEW kind \in Kinds, NEW row,
         NEW valid, NEW into \in Registers, NEW ok, NEW err,
         CallOf(p) = Insert(kind, row, valid, into, ok, err)
  PROVE  /\ UNCHANGED <<links, matches, left, item>> /\ Moves(p) /\ Grows
         /\ rows' = [k \in Kinds |-> rows'[k]] /\ \A k \in Kinds : IsTable(rows'[k])
         /\ \/ \E id \in Nat :
                 /\ valid /\ Named(kind, row.key) = {} /\ Adds(kind, row, id)
                 /\ \/ Goes(p, ok, [reg[p] EXCEPT ![into] = id])
                    \/ faults' # 0 /\ Goes(p, err, reg[p])
            \/ /\ rows' = rows /\ Goes(p, err, reg[p])
               /\ faults' # 0 \/ ~valid \/ Named(kind, row.key) # {}
<1> DEFINE c == CallOf(p)
           new == Len(rows[kind]) + 1
           fits == valid /\ ~Taken(kind, row.key, 0)
<1>1. /\ c.do = "insert" /\ c.kind = kind /\ c.row = row /\ c.valid = valid /\ c.into = into
      /\ c.ok = ok /\ c.err = err
  BY DEF Insert
<1>2. at = [q \in active |-> at[q]] /\ reg \in [active -> [Registers -> Nat]] /\ faults \in Nat
  BY DEF ReportingInv, LocalsOK
<1>3. NoRegisters \in [Registers -> Nat]
  BY DEF NoRegisters
<1>4. UNCHANGED <<links, matches, left, item, active>>
  BY <1>1 DEF Call, Answer, Fault, LostAnswer, DoList, DoInsert, DoUpdate, DoRelate, database, local
<1>5. Taken(kind, row.key, 0) <=> Named(kind, row.key) # {}
  BY IdsArePositive DEF Taken, Named, ReportingInv
<1>6. ASSUME rows' = [rows EXCEPT ![kind] = Append(@, row)]
      PROVE  /\ Adds(kind, row, new) /\ Grows /\ new \in Nat
             /\ rows' = [k \in Kinds |-> rows'[k]] /\ \A k \in Kinds : IsTable(rows'[k])
  BY <1>4, <1>6, RowAdded DEF Adds
<1>7. ASSUME rows' = rows
      PROVE  Grows /\ rows' = [k \in Kinds |-> rows'[k]] /\ \A k \in Kinds : IsTable(rows'[k])
  <2>1. TablesOK
    BY DEF ReportingInv
  <2>2. Grows
    BY <1>4, <1>7 DEF Grows, RunsImage, WithCcrn, Is
  <2> QED
    BY <1>7, <2>1, <2>2 DEF TablesOK
<1>8. CASE Answer(p) /\ fits
  <2>1. /\ faults' = faults /\ at' = [at EXCEPT ![p] = ok]
        /\ rows' = [rows EXCEPT ![kind] = Append(@, row)]
        /\ reg' = Returning(p, ok, [reg EXCEPT ![p][into] = new])
    BY <1>1, <1>8 DEF Answer, DoList, DoInsert, DoUpdate, DoRelate
  <2>2. new \in Nat
    BY <1>6, <2>1
  <2>3. Goes(p, ok, [reg[p] EXCEPT ![into] = new])
    BY <1>2, <1>3, <2>1 DEF Goes, Returning
  <2>4. Moves(p)
    <3> HIDE DEF new
    <3> QED
      BY <1>2, <1>3, <1>4, <2>1, <2>2 DEF Moves, Returning
  <2> HIDE DEF new
  <2> QED
    BY <1>4, <1>5, <1>6, <1>8, <2>1, <2>2, <2>3, <2>4
<1>9. CASE Answer(p) /\ ~fits
  <2>1. /\ faults' = faults /\ at' = [at EXCEPT ![p] = err]
        /\ rows' = rows
        /\ reg' = Returning(p, err, reg)
    BY <1>1, <1>9 DEF Answer, DoList, DoInsert, DoUpdate, DoRelate
  <2>2. Goes(p, err, reg[p])
    BY <1>2, <1>3, <2>1 DEF Goes, Returning
  <2>3. Moves(p)
    BY <1>2, <1>3, <1>4, <2>1 DEF Moves, Returning
  <2> QED
    BY <1>4, <1>5, <1>7, <1>9, <2>1, <2>2, <2>3
<1>10. CASE Fault(p) \/ LostAnswer(p)
  <2>1. /\ faults' = faults + 1 /\ at' = [at EXCEPT ![p] = err] /\ reg' = Returning(p, err, reg)
        /\ rows' = rows \/ (fits /\ rows' = [rows EXCEPT ![kind] = Append(@, row)])
    BY <1>1, <1>10 DEF Fault, LostAnswer, database
  <2>2. faults' \in Nat /\ faults' # 0
    BY <1>2, <2>1
  <2>3. Goes(p, err, reg[p])
    BY <1>2, <1>3, <2>1 DEF Goes, Returning
  <2>4. Moves(p)
    BY <1>2, <1>3, <1>4, <2>1, <2>2 DEF Moves, Returning
  <2> HIDE DEF new
  <2>5. CASE rows' = rows
    BY <1>4, <1>7, <2>2, <2>3, <2>4, <2>5
  <2>6. CASE fits /\ rows' = [rows EXCEPT ![kind] = Append(@, row)]
    BY <1>4, <1>5, <1>6, <2>2, <2>3, <2>4, <2>6
  <2> QED
    BY <2>1, <2>5, <2>6
<1> QED
  BY <1>8, <1>9, <1>10 DEF Call

LEMMA Related ==
  ASSUME ReportingInv, NEW p \in active, Call(p), NEW table \in {"link", "attach", "match"}, NEW pair,
         NEW valid, NEW ok, NEW err, CallOf(p) = Relate(table, pair, valid, ok, err)
  PROVE  /\ UNCHANGED <<rows, left, item>> /\ Moves(p) /\ Grows
         /\ \/ /\ valid /\ Goes(p, ok, reg[p])
               /\ links' = IF table = "link" THEN links \cup {pair} ELSE links
               /\ matches' = IF table = "match" THEN matches \cup {pair} ELSE matches
            \/ /\ links' = links /\ matches' = matches
               /\ Goes(p, err, reg[p])
               /\ faults' # 0 \/ ~valid
<1> DEFINE c == CallOf(p)
<1>1. c.do = table /\ c.pair = pair /\ c.valid = valid /\ c.ok = ok /\ c.err = err
  BY DEF Relate
<1>2. at = [q \in active |-> at[q]] /\ reg \in [active -> [Registers -> Nat]] /\ faults \in Nat
  BY DEF ReportingInv, LocalsOK
<1>3. NoRegisters \in [Registers -> Nat]
  BY DEF NoRegisters
<1>4. UNCHANGED <<rows, left, item, active>> /\ links \subseteq links' /\ matches \subseteq matches'
  BY <1>1 DEF Call, Answer, Fault, LostAnswer, DoList, DoInsert, DoUpdate, DoRelate, database, local
<1>5. Grows
  BY <1>4 DEF Grows, RunsImage, WithCcrn, Is
<1>6. CASE Answer(p)
  <2>1. faults' = faults /\ DoRelate(p, c)
    BY <1>1, <1>6 DEF Answer, DoInsert, DoUpdate, DoList
  <2>2. CASE valid
    <3>1. /\ at' = [at EXCEPT ![p] = ok] /\ reg' = Returning(p, ok, reg)
          /\ links' = IF table = "link" THEN links \cup {pair} ELSE links
          /\ matches' = IF table = "match" THEN matches \cup {pair} ELSE matches
      BY <1>1, <2>1, <2>2 DEF DoRelate
    <3>2. Goes(p, ok, reg[p])
      BY <1>2, <1>3, <3>1 DEF Goes, Returning
    <3>3. Moves(p)
      BY <1>2, <1>3, <1>4, <2>1, <3>1 DEF Moves, Returning
    <3> QED
      BY <1>4, <1>5, <2>2, <3>1, <3>2, <3>3
  <2>3. CASE ~valid
    <3>1. /\ at' = [at EXCEPT ![p] = err] /\ reg' = Returning(p, err, reg)
          /\ links' = links /\ matches' = matches
      BY <1>1, <2>1, <2>3 DEF DoRelate
    <3>2. Goes(p, err, reg[p])
      BY <1>2, <1>3, <3>1 DEF Goes, Returning
    <3>3. Moves(p)
      BY <1>2, <1>3, <1>4, <2>1, <3>1 DEF Moves, Returning
    <3> QED
      BY <1>4, <1>5, <2>3, <3>1, <3>2, <3>3
  <2> QED
    BY <2>2, <2>3
<1>7. CASE Fault(p) \/ LostAnswer(p)
  <2>1. /\ faults' = faults + 1 /\ at' = [at EXCEPT ![p] = err] /\ reg' = Returning(p, err, reg)
        /\ links' = links /\ matches' = matches
    BY <1>1, <1>7 DEF Fault, LostAnswer, database
  <2>2. faults' \in Nat /\ faults' # 0
    BY <1>2, <2>1
  <2>3. Goes(p, err, reg[p])
    BY <1>2, <1>3, <2>1 DEF Goes, Returning
  <2>4. Moves(p)
    BY <1>2, <1>3, <1>4, <2>1, <2>2 DEF Moves, Returning
  <2> QED
    BY <1>4, <1>5, <2>1, <2>2, <2>3, <2>4
<1> QED
  BY <1>6, <1>7 DEF Call

\* Only an instance is updated; it keeps its name and runs an image of that name.
LEMMA Updated ==
  ASSUME ReportingInv, NEW p \in active, Call(p), NEW id \in DOMAIN rows["instance"], NEW row,
         NEW ok, NEW err, CallOf(p) = Update(id, row, ok, err),
         rows["instance"][id].key[1] = row.key[1],
         NEW d \in DOMAIN InstanceOf, row.key[1] = InstanceOf[d],
         NEW m \in DOMAIN rows["component"], rows["component"][m].key = ComponentOf[d],
         Is("version", row.ref, <<m, VersionOf[d]>>)
  PROVE  /\ UNCHANGED <<links, matches, left, item>> /\ Moves(p) /\ Grows
         /\ rows' = [k \in Kinds |-> rows'[k]] /\ \A k \in Kinds : IsTable(rows'[k])
         /\ \A k \in Kinds \ {"instance"} : rows'[k] = rows[k]
         /\ DOMAIN rows'["instance"] = DOMAIN rows["instance"]
         /\ \A i \in DOMAIN rows["instance"] \ {id} : rows'["instance"][i] = rows["instance"][i]
         /\ \/ rows'["instance"][id] = row /\ RunsImage(d)' /\ Goes(p, ok, reg[p])
            \/ rows' = rows /\ Goes(p, err, reg[p])
<1> DEFINE c == CallOf(p)
           T == [rows["instance"] EXCEPT ![id] = row]
<1>1. c.do = "update" /\ c.id = id /\ c.row = row /\ c.ok = ok /\ c.err = err
  BY DEF Update
<1>2. at = [q \in active |-> at[q]] /\ reg \in [active -> [Registers -> Nat]] /\ faults \in Nat
  BY DEF ReportingInv, LocalsOK
<1>3. NoRegisters \in [Registers -> Nat]
  BY DEF NoRegisters
<1>4. UNCHANGED <<links, matches, left, item, active>>
  BY <1>1 DEF Call, Answer, Fault, LostAnswer, DoList, DoInsert, DoUpdate, DoRelate, database, local
<1>5. rows = [k \in Kinds |-> rows[k]] /\ \A k \in Kinds : IsTable(rows[k])
  BY DEF ReportingInv, TablesOK
<1>6. ASSUME rows' = [rows EXCEPT !["instance"][id] = row]
      PROVE  /\ Grows /\ RunsImage(d)'
             /\ rows' = [k \in Kinds |-> rows'[k]] /\ \A k \in Kinds : IsTable(rows'[k])
             /\ \A k \in Kinds \ {"instance"} : rows'[k] = rows[k]
             /\ DOMAIN rows'["instance"] = DOMAIN rows["instance"]
             /\ \A i \in DOMAIN rows["instance"] \ {id} : rows'["instance"][i] = rows["instance"][i]
             /\ rows'["instance"][id] = row
  <2>1. rows' = [k \in Kinds |-> IF k = "instance" THEN T ELSE rows[k]] /\ "instance" \in Kinds
    BY <1>5, <1>6 DEF Kinds
  <2>2. IsTable(T) /\ DOMAIN T = DOMAIN rows["instance"]
    BY <1>5, <2>1, TableUpdate
  <2>3. /\ T[id] = row /\ \A i \in DOMAIN rows["instance"] \ {id} : T[i] = rows["instance"][i]
    OBVIOUS
  <2> HIDE DEF T
  <2>4. /\ rows' = [k \in Kinds |-> rows'[k]] /\ \A k \in Kinds : IsTable(rows'[k])
        /\ \A k \in Kinds \ {"instance"} : rows'[k] = rows[k]
        /\ rows'["instance"] = T
    BY <1>5, <2>1, <2>2
  <2>5. RunsImage(d)'
    <3>1. id \in WithCcrn(InstanceOf[d])'
      BY <2>2, <2>3, <2>4 DEF WithCcrn
    <3>2. m \in DOMAIN rows'["component"] /\ rows'["component"][m].key = ComponentOf[d]
      BY <2>4 DEF Kinds
    <3>3. Is("version", rows["instance"][id].ref, <<m, VersionOf[d]>>)'
      BY <2>3, <2>4 DEF Is, Kinds
    <3> QED
      BY <3>1, <3>2, <3>3 DEF RunsImage
  <2>6. \A e \in DOMAIN InstanceOf : RunsImage(e) => RunsImage(e)'
    <3> SUFFICES ASSUME NEW e \in DOMAIN InstanceOf, RunsImage(e) PROVE RunsImage(e)'
      OBVIOUS
    <3>1. PICK i \in WithCcrn(InstanceOf[e]), f \in DOMAIN InstanceOf, k \in DOMAIN rows["component"] :
            /\ InstanceOf[f] = InstanceOf[e]
            /\ Is("version", rows["instance"][i].ref, <<k, VersionOf[f]>>)
            /\ rows["component"][k].key = ComponentOf[f]
      BY DEF RunsImage
    <3>2. CASE i = id
      <4>1. InstanceOf[e] = InstanceOf[d]
        BY <3>2 DEF WithCcrn
      <4> QED
        BY <2>5, <4>1 DEF RunsImage
    <3>3. CASE i # id
      <4>1. i \in WithCcrn(InstanceOf[e])' /\ rows'["instance"][i] = rows["instance"][i]
        BY <2>2, <2>3, <2>4, <3>3 DEF WithCcrn
      <4>2. k \in DOMAIN rows'["component"] /\ rows'["component"][k].key = ComponentOf[f]
        BY <2>4, <3>1 DEF Kinds
      <4>3. Is("version", rows["instance"][i].ref, <<k, VersionOf[f]>>)'
        BY <2>4, <3>1, <4>1 DEF Is, Kinds
      <4> QED
        BY <3>1, <4>1, <4>2, <4>3 DEF RunsImage
    <3> QED
      BY <3>2, <3>3
  <2>7. Grows
    BY <1>4, <2>2, <2>3, <2>4, <2>6 DEF Grows
  <2> QED
    BY <2>2, <2>3, <2>4, <2>5, <2>7
<1>7. ASSUME rows' = rows
      PROVE  Grows /\ rows' = [k \in Kinds |-> rows'[k]] /\ \A k \in Kinds : IsTable(rows'[k])
  <2>1. Grows
    BY <1>4, <1>7 DEF Grows, RunsImage, WithCcrn, Is
  <2> QED
    BY <1>5, <1>7, <2>1
<1>8. CASE Answer(p)
  <2>1. /\ faults' = faults
        /\ \/ /\ rows' = [rows EXCEPT !["instance"][id] = row]
              /\ at' = [at EXCEPT ![p] = ok] /\ reg' = Returning(p, ok, reg)
           \/ /\ rows' = rows
              /\ at' = [at EXCEPT ![p] = err] /\ reg' = Returning(p, err, reg)
    BY <1>1, <1>8 DEF Answer, DoList, DoInsert, DoUpdate, DoRelate
  <2>2. Moves(p)
    BY <1>2, <1>3, <1>4, <2>1 DEF Moves, Returning
  <2>3. CASE rows' = [rows EXCEPT !["instance"][id] = row] /\ at' = [at EXCEPT ![p] = ok]
             /\ reg' = Returning(p, ok, reg)
    <3>1. Goes(p, ok, reg[p])
      BY <1>2, <1>3, <2>3 DEF Goes, Returning
    <3> QED
      BY <1>4, <1>6, <2>2, <2>3, <3>1
  <2>4. CASE rows' = rows /\ at' = [at EXCEPT ![p] = err] /\ reg' = Returning(p, err, reg)
    <3>1. Goes(p, err, reg[p])
      BY <1>2, <1>3, <2>4 DEF Goes, Returning
    <3> QED
      BY <1>4, <1>7, <2>2, <2>4, <3>1
  <2> QED
    BY <2>1, <2>3, <2>4
<1>9. CASE Fault(p) \/ LostAnswer(p)
  <2>1. /\ faults' = faults + 1 /\ at' = [at EXCEPT ![p] = err] /\ reg' = Returning(p, err, reg)
        /\ rows' = rows
    BY <1>1, <1>9 DEF Fault, LostAnswer, database
  <2>2. faults' \in Nat /\ faults' # 0
    BY <1>2, <2>1
  <2>3. Goes(p, err, reg[p])
    BY <1>2, <1>3, <2>1 DEF Goes, Returning
  <2>4. Moves(p)
    BY <1>2, <1>3, <1>4, <2>1, <2>2 DEF Moves, Returning
  <2> QED
    BY <1>4, <1>7, <2>1, <2>2, <2>3, <2>4
<1> QED
  BY <1>8, <1>9 DEF Call

-----------------------------------------------------------------------------
(* The tables after a call.                                                *)

LEMMA TablesKept ==
  ASSUME ReportingInv, Grows, rows' = [k \in Kinds |-> rows'[k]], \A k \in Kinds : IsTable(rows'[k]),
         rows'["issue"] = rows["issue"], rows'["variant"] = rows["variant"]
  PROVE  TablesOK'
  BY DEF ReportingInv, TablesOK, Is

LEMMA IssueAdded ==
  ASSUME ReportingInv, Grows, rows' = [k \in Kinds |-> rows'[k]], \A k \in Kinds : IsTable(rows'[k]),
         NEW row, NEW id, Adds("issue", row, id), Named("issue", row.key) = {}
  PROVE  TablesOK'
<1>1. rows'["variant"] = rows["variant"]
  BY DEF Adds, Kinds
<1>2. \A i, j \in DOMAIN rows'["issue"] : rows'["issue"][i].key = rows'["issue"][j].key => i = j
  BY DEF Adds, Named, ReportingInv, TablesOK
<1>3. \A v \in DOMAIN rows["variant"] :
        Is("issue", rows["variant"][v].ref[1], rows["variant"][v].key)
  BY DEF ReportingInv, TablesOK
<1>4. \A v \in DOMAIN rows'["variant"] :
        /\ rows'["variant"][v].ref[1] \in DOMAIN rows'["issue"]
        /\ rows'["issue"][rows'["variant"][v].ref[1]].key = rows'["variant"][v].key
  BY <1>1, <1>3 DEF Is, Adds
<1> QED
  BY <1>2, <1>4 DEF TablesOK, Is

LEMMA VariantAdded ==
  ASSUME ReportingInv, Grows, rows' = [k \in Kinds |-> rows'[k]], \A k \in Kinds : IsTable(rows'[k]),
         NEW row, NEW id, Adds("variant", row, id), Is("issue", row.ref[1], row.key)
  PROVE  TablesOK'
<1>1. rows'["issue"] = rows["issue"]
  BY DEF Adds, Kinds
<1>2. \A v \in DOMAIN rows["variant"] :
        Is("issue", rows["variant"][v].ref[1], rows["variant"][v].key)
  BY DEF ReportingInv, TablesOK
<1>3. \A v \in DOMAIN rows'["variant"] :
        /\ rows'["variant"][v].ref[1] \in DOMAIN rows'["issue"]
        /\ rows'["issue"][rows'["variant"][v].ref[1]].key = rows'["variant"][v].key
  BY <1>1, <1>2 DEF Is, Adds
<1>4. \A i, j \in DOMAIN rows'["issue"] : rows'["issue"][i].key = rows'["issue"][j].key => i = j
  BY <1>1 DEF ReportingInv, TablesOK
<1> QED
  BY <1>3, <1>4 DEF TablesOK, Is

\* A call leaves the workers of Keppel to themselves.
LEMMA CallKeeps ==
  ASSUME ReportingInv, NEW p \in active, Moves(p), Grows, UNCHANGED <<left, item>>,
         p = Keppel => at[Keppel][1] = "setup",
         TablesOK', OwnersOK', ClientOK(p)', VariantFollowsIssue'
  PROVE  ReportingInv'
<1>1. left' = [q \in active |-> left'[q]] /\ item' = [q \in active |-> item'[q]]
  BY DEF ReportingInv, LocalsOK
<1>2. p = Keppel /\ faults' = 0 => \A w \in Workers \cap active : Ended(w)
  <2> SUFFICES ASSUME p = Keppel, faults' = 0, NEW w \in Workers \cap active PROVE Ended(w)
    OBVIOUS
  <2>1. WorkerOK(w) /\ faults = 0
    BY DEF ReportingInv, ClientOK, Moves
  <2> QED
    BY <2>1 DEF WorkerOK
<1> QED
  BY <1>1, <1>2, StepKeeps

-----------------------------------------------------------------------------
(* The goroutines of the Kubernetes scanner.                               *)

After(p) == IF at[p][1] = "service" THEN <<"group", "first">> ELSE <<"sidecarContainer", "getComponent">>
Without(p) == IF at[p][1] = "service" THEN <<"group", "next">> ELSE <<"container", "getComponent">>

LEMMA K8sKeeps ==
  ASSUME ReportingInv, NEW p \in Goroutines \cap active, Moves(p), Grows, UNCHANGED <<left, item>>,
         rows' = [k \in Kinds |-> rows'[k]], \A k \in Kinds : IsTable(rows'[k]),
         rows'["issue"] = rows["issue"], rows'["variant"] = rows["variant"],
         OwnersOK', K8sOK(p)'
  PROVE  ReportingInv'
<1>1. p \notin Workers \cup Alerts \cup {Nvd, Keppel}
  BY ProcessesApart
<1>2. TablesOK'
  BY TablesKept
<1>3. VariantFollowsIssue'
  BY <1>1, VariantsStay
<1>4. ClientOK(p)'
  BY <1>1 DEF ClientOK
<1> QED
  BY <1>1, <1>2, <1>3, <1>4, CallKeeps

LEMMA OwnersUntouched ==
  ASSUME ReportingInv, NEW p, Moves(p), Grows, rows'["instance"] = rows["instance"]
  PROVE  OwnersOK'
  BY OwnersStay DEF ReportingInv, Moves

LEMMA ServiceGoesOn ==
  ASSUME ReportingInv, NEW p \in Goroutines \cap active, at[p][1] \in {"service", "sidecar"},
         Moves(p), Grows, UNCHANGED <<left, item>>, NEW owner, owner = OwnerSought(p),
         NEW step \in ServiceSteps, NEW r, Goes(p, <<at[p][1], step>>, r), r["pod"] = reg[p]["pod"],
         step \in {"getSupportGroup", "createSupportGroup", "addService"} =>
            Is("service", r["service"], owner[1])',
         step = "addService" => Is("group", r["group"], owner[2])'
  PROVE  K8sOK(p)'
<1>1. at'[p] = <<at[p][1], step>> /\ at'[p][1] = at[p][1] /\ at'[p][2] = step /\ reg'[p] = r
  BY DEF Goes
<1>2. K8sOK(p) /\ (faults' = 0 => faults = 0)
  BY DEF ReportingInv, ClientOK, Moves
<1>3. owner = OwnerSought(p)'
  BY <1>1 DEF OwnerSought, PodOwner
<1>4. ServiceKnown(p)'
  BY <1>1, <1>3 DEF ServiceKnown
<1>5. ImageKnown(p)'
  BY <1>1 DEF ImageKnown, InContainer
<1>6. OwnerKnown(p)'
  BY <1>1, <1>2, GrowsLinked DEF K8sOK, OwnerKnown, InContainer, PodOwner
<1>7. ContainersOf[GroupOf[p]] \subseteq DOMAIN InstanceOf
  BY ReportingAssumption
<1>8. Entered(p)'
  BY <1>1, <1>2, <1>7 DEF K8sOK, Entered, InContainer, Grows, Done
<1>9. at'[p] \in {"service", "sidecar"} \X ServiceSteps
  BY <1>1
<1> QED
  BY <1>4, <1>5, <1>6, <1>8, <1>9 DEF K8sOK

\* ProcessService returns the id of a service that is linked, or an error.
LEMMA ServiceReturns ==
  ASSUME ReportingInv, NEW p \in Goroutines \cap active, at[p][1] \in {"service", "sidecar"},
         Moves(p), Grows, UNCHANGED <<left, item>>, NEW owner, owner = OwnerSought(p),
         NEW svc, svc = reg[p]["service"],
         \/ Goes(p, Without(p), reg[p])
         \/ Goes(p, After(p), reg[p]) /\ (faults' = 0 => Linked(svc, owner)')
  PROVE  K8sOK(p)'
<1>1. /\ at'[p] \in {Without(p), After(p)} /\ reg'[p] = reg[p]
      /\ at'[p] = After(p) /\ faults' = 0 => Linked(svc, owner)'
  BY DEF Goes, Without, After
<1>2. K8sOK(p) /\ (faults' = 0 => faults = 0)
  BY DEF ReportingInv, ClientOK, Moves
<1>3. ContainersOf[GroupOf[p]] \subseteq DOMAIN InstanceOf
  BY ReportingAssumption
<1>4. CASE at[p][1] = "service"
  <2>1. at'[p] \in {<<"group", "first">>, <<"group", "next">>}
    BY <1>1, <1>4 DEF Without, After
  <2>2. ServiceKnown(p)' /\ ImageKnown(p)'
    BY <2>1 DEF ServiceKnown, ImageKnown, InContainer
  <2>3. owner = PodOwner(p) /\ reg[p]["pod"] = 0
    BY <1>2, <1>4 DEF OwnerSought, K8sOK, OwnerKnown
  <2>4. at'[p] = <<"group", "first">> /\ faults' = 0 => Linked(svc, owner)'
    BY <1>1, <1>4 DEF After
  <2>5. OwnerKnown(p)'
    BY <1>1, <2>1, <2>3, <2>4 DEF OwnerKnown, InContainer, PodOwner
  <2>6. Entered(p)'
    BY <1>2, <1>4, <2>1 DEF K8sOK, Entered, InContainer, Done
  <2> QED
    BY <2>1, <2>2, <2>5, <2>6 DEF K8sOK
<1>5. CASE at[p][1] = "sidecar"
  <2>1. at'[p] \in {<<"sidecarContainer", "getComponent">>, <<"container", "getComponent">>}
    BY <1>1, <1>5 DEF Without, After
  <2>2. ServiceKnown(p)' /\ ImageKnown(p)'
    BY <2>1 DEF ServiceKnown, ImageKnown, InContainer
  <2>3. owner = SideCar[item[p]]
    BY <1>5 DEF OwnerSought
  <2>4. at'[p][1] = "sidecarContainer" /\ faults' = 0 => Linked(svc, owner)'
    BY <1>1, <1>5, <2>1 DEF After
  <2>5. faults' = 0 => reg[p]["pod"] = 0 \/ Linked(reg[p]["pod"], PodOwner(p))
    BY <1>2, <1>5 DEF K8sOK, OwnerKnown
  <2>6. OwnerKnown(p)'
    BY <1>1, <2>1, <2>3, <2>4, <2>5, GrowsLinked DEF OwnerKnown, InContainer, PodOwner
  <2>7. Entered(p)'
    BY <1>2, <1>3, <1>5, <2>1 DEF K8sOK, Entered, InContainer, Done, Grows
  <2> QED
    BY <2>1, <2>2, <2>6, <2>7 DEF K8sOK, InContainer, ContainerSteps
<1> QED
  BY <1>4, <1>5

LEMMA ServiceCalls ==
  ASSUME ReportingInv, NEW p \in Goroutines \cap active, at[p][1] \in {"service", "sidecar"}
  PROVE  /\ CallOf(p) = ProcessService(p, at[p][2], OwnerSought(p)[1], OwnerSought(p)[2], at[p][1],
                                       After(p), Without(p))
         /\ at[p][2] \in ServiceSteps
<1>1. K8sOK(p)
  BY DEF ReportingInv, ClientOK
<1>2. at[p][2] \in ServiceSteps
  BY <1>1 DEF K8sOK, Ends, Idle, Done, Failed, InContainer
<1>3. CallOf(p) = K8sCall(p)
  BY ProcessesApart DEF CallOf
<1>4. CASE at[p][1] = "service"
  BY <1>2, <1>3, <1>4 DEF K8sCall, OwnerSought, PodOwner, After, Without
<1>5. CASE at[p][1] = "sidecar"
  BY <1>2, <1>3, <1>5 DEF K8sCall, OwnerSought, After, Without
<1> QED
  BY <1>2, <1>4, <1>5

LEMMA ServiceStep ==
  ASSUME ReportingInv, NEW p \in Goroutines \cap active, at[p][1] \in {"service", "sidecar"}, Call(p)
  PROVE  ReportingInv'
<1>1. PICK owner, ph : owner = OwnerSought(p) /\ ph = at[p][1]
  OBVIOUS
<1>2. ServiceKnown(p) /\ reg[p] \in [Registers -> Nat] /\ TablesOK
  BY DEF ReportingInv, ClientOK, K8sOK, LocalsOK
<1>3. /\ CallOf(p) = ProcessService(p, at[p][2], owner[1], owner[2], ph, After(p), Without(p))
      /\ at[p][2] \in ServiceSteps
  BY <1>1, ServiceCalls
<1>4. CASE at[p][2] = "getService"
  <2>1. CallOf(p) = List(Named("service", owner[1]), "service", <<ph, "getSupportGroup">>,
                         <<ph, "createService">>, <<ph, "createService">>)
    BY <1>1, <1>3, <1>4 DEF ProcessService, ServiceFound
  <2>2. /\ Named("service", owner[1]) \in SUBSET DOMAIN rows["service"]
        /\ "service" \in Kinds /\ "service" \in Registers
    BY DEF Named, Kinds, Registers
  <2>3. /\ UNCHANGED <<rows, links, matches, left, item>> /\ Moves(p) /\ Grows
        /\ \/ \E id \in Named("service", owner[1]) :
                Goes(p, <<ph, "getSupportGroup">>, [reg[p] EXCEPT !["service"] = id])
           \/ Goes(p, <<ph, "createService">>, [reg[p] EXCEPT !["service"] = 0])
           \/ Goes(p, <<ph, "createService">>, reg[p])
    BY <2>1, <2>2, LookedUp
  <2>4. K8sOK(p)' => ReportingInv'
    BY <1>2, <2>3, OwnersUntouched, K8sKeeps DEF TablesOK
  <2>5. ASSUME NEW id \in Named("service", owner[1]),
               Goes(p, <<ph, "getSupportGroup">>, [reg[p] EXCEPT !["service"] = id])
        PROVE  K8sOK(p)'
    <3> PICK r : r = [reg[p] EXCEPT !["service"] = id]
      OBVIOUS
    <3>1. Is("service", id, owner[1])'
      BY <2>3 DEF Is, Named
    <3>2. r["service"] = id /\ r["pod"] = reg[p]["pod"] /\ r["service"] = id
      BY <1>2 DEF Registers
    <3> QED
      BY <1>1, <2>3, <2>5, <3>1, <3>2, ServiceGoesOn DEF ServiceSteps
  <2>6. ASSUME NEW r, Goes(p, <<ph, "createService">>, r), r \in {[reg[p] EXCEPT !["service"] = 0], reg[p]}
        PROVE  K8sOK(p)'
    <3>1. r["pod"] = reg[p]["pod"]
      BY <1>2, <2>6 DEF Registers
    <3> QED
      BY <1>1, <2>3, <2>6, <3>1, ServiceGoesOn DEF ServiceSteps
  <2> QED
    BY <2>3, <2>4, <2>5, <2>6
<1>5. CASE at[p][2] = "createService"
  <2>1. CallOf(p) = Insert("service", Row(owner[1], 0), TRUE, "service", <<ph, "getSupportGroup">>, Without(p))
    BY <1>1, <1>3, <1>5 DEF ProcessService
  <2>2. "service" \in Kinds /\ "service" \in Registers
    BY DEF Kinds, Registers
  <2>3. /\ UNCHANGED <<links, matches, left, item>> /\ Moves(p) /\ Grows
        /\ rows' = [k \in Kinds |-> rows'[k]] /\ \A k \in Kinds : IsTable(rows'[k])
        /\ \/ \E id \in Nat :
                /\ Adds("service", Row(owner[1], 0), id)
                /\ \/ Goes(p, <<ph, "getSupportGroup">>, [reg[p] EXCEPT !["service"] = id])
                   \/ Goes(p, Without(p), reg[p])
           \/ rows' = rows /\ Goes(p, Without(p), reg[p])
    BY <2>1, <2>2, Inserted, Zenon
  <2>4. K8sOK(p)' => ReportingInv'
    <3>1. \A k \in Kinds \ {"service"} : rows'[k] = rows[k]
      BY <2>3 DEF Adds
    <3> QED
      BY <2>3, <3>1, OwnersUntouched, K8sKeeps DEF Kinds
  <2>5. ASSUME NEW id \in Nat, Adds("service", Row(owner[1], 0), id),
               Goes(p, <<ph, "getSupportGroup">>, [reg[p] EXCEPT !["service"] = id])
        PROVE  K8sOK(p)'
    <3> PICK r : r = [reg[p] EXCEPT !["service"] = id]
      OBVIOUS
    <3>1. Is("service", id, owner[1])'
      BY <2>5 DEF Is, Adds, Row
    <3>2. r["service"] = id /\ r["pod"] = reg[p]["pod"] /\ r["service"] = id
      BY <1>2 DEF Registers
    <3> QED
      BY <1>1, <2>3, <2>5, <3>1, <3>2, ServiceGoesOn DEF ServiceSteps
  <2>6. ASSUME Goes(p, Without(p), reg[p]) PROVE K8sOK(p)'
    BY <1>1, <2>3, <2>6, ServiceReturns
  <2> QED
    BY <2>3, <2>4, <2>5, <2>6
<1>6. CASE at[p][2] = "getSupportGroup"
  <2>1. CallOf(p) = List(Named("group", owner[2]), "group", <<ph, "addService">>,
                         <<ph, "createSupportGroup">>, <<ph, "createSupportGroup">>)
    BY <1>1, <1>3, <1>6 DEF ProcessService, ServiceFound
  <2>2. /\ Named("group", owner[2]) \in SUBSET DOMAIN rows["group"]
        /\ "group" \in Kinds /\ "group" \in Registers
    BY DEF Named, Kinds, Registers
  <2>3. /\ UNCHANGED <<rows, links, matches, left, item>> /\ Moves(p) /\ Grows
        /\ \/ \E id \in Named("group", owner[2]) :
                Goes(p, <<ph, "addService">>, [reg[p] EXCEPT !["group"] = id])
           \/ Goes(p, <<ph, "createSupportGroup">>, [reg[p] EXCEPT !["group"] = 0])
           \/ Goes(p, <<ph, "createSupportGroup">>, reg[p])
    BY <2>1, <2>2, LookedUp
  <2>4. K8sOK(p)' => ReportingInv'
    BY <1>2, <2>3, OwnersUntouched, K8sKeeps DEF TablesOK
  <2>5. ASSUME NEW id \in Named("group", owner[2]),
               Goes(p, <<ph, "addService">>, [reg[p] EXCEPT !["group"] = id])
        PROVE  K8sOK(p)'
    <3> PICK r : r = [reg[p] EXCEPT !["group"] = id]
      OBVIOUS
    <3>1. Is("group", id, owner[2])'
      BY <2>3 DEF Is, Named
    <3>2. r["group"] = id /\ r["pod"] = reg[p]["pod"] /\ r["service"] = reg[p]["service"]
      BY <1>2 DEF Registers
    <3>3. Is("service", r["service"], owner[1])'
      BY <1>1, <1>2, <1>6, <2>3, <3>2, GrowsIs DEF ServiceKnown, Kinds
    <3> QED
      BY <1>1, <2>3, <2>5, <3>1, <3>2, <3>3, ServiceGoesOn DEF ServiceSteps
  <2>6. ASSUME NEW r, Goes(p, <<ph, "createSupportGroup">>, r), r \in {[reg[p] EXCEPT !["group"] = 0], reg[p]}
        PROVE  K8sOK(p)'
    <3>1. r["pod"] = reg[p]["pod"] /\ r["service"] = reg[p]["service"]
      BY <1>2, <2>6 DEF Registers
    <3>2. Is("service", r["service"], owner[1])'
      BY <1>1, <1>2, <1>6, <2>3, <3>1, GrowsIs DEF ServiceKnown, Kinds
    <3> QED
      BY <1>1, <2>3, <2>6, <3>1, <3>2, ServiceGoesOn DEF ServiceSteps
  <2> QED
    BY <2>3, <2>4, <2>5, <2>6
<1>7. CASE at[p][2] = "createSupportGroup"
  <2>1. CallOf(p) = Insert("group", Row(owner[2], 0), TRUE, "group", <<ph, "addService">>, Without(p))
    BY <1>1, <1>3, <1>7 DEF ProcessService
  <2>2. "group" \in Kinds /\ "group" \in Registers
    BY DEF Kinds, Registers
  <2>3. /\ UNCHANGED <<links, matches, left, item>> /\ Moves(p) /\ Grows
        /\ rows' = [k \in Kinds |-> rows'[k]] /\ \A k \in Kinds : IsTable(rows'[k])
        /\ \/ \E id \in Nat :
                /\ Adds("group", Row(owner[2], 0), id)
                /\ \/ Goes(p, <<ph, "addService">>, [reg[p] EXCEPT !["group"] = id])
                   \/ Goes(p, Without(p), reg[p])
           \/ rows' = rows /\ Goes(p, Without(p), reg[p])
    BY <2>1, <2>2, Inserted, Zenon
  <2>4. K8sOK(p)' => ReportingInv'
    <3>1. \A k \in Kinds \ {"group"} : rows'[k] = rows[k]
      BY <2>3 DEF Adds
    <3> QED
      BY <2>3, <3>1, OwnersUntouched, K8sKeeps DEF Kinds
  <2>5. ASSUME NEW id \in Nat, Adds("group", Row(owner[2], 0), id),
               Goes(p, <<ph, "addService">>, [reg[p] EXCEPT !["group"] = id])
        PROVE  K8sOK(p)'
    <3> PICK r : r = [reg[p] EXCEPT !["group"] = id]
      OBVIOUS
    <3>1. Is("group", id, owner[2])'
      BY <2>5 DEF Is, Adds, Row
    <3>2. r["group"] = id /\ r["pod"] = reg[p]["pod"] /\ r["service"] = reg[p]["service"]
      BY <1>2 DEF Registers
    <3>3. Is("service", r["service"], owner[1])'
      BY <1>1, <1>2, <1>7, <2>3, <3>2, GrowsIs DEF ServiceKnown, Kinds
    <3> QED
      BY <1>1, <2>3, <2>5, <3>1, <3>2, <3>3, ServiceGoesOn DEF ServiceSteps
  <2>6. ASSUME Goes(p, Without(p), reg[p]) PROVE K8sOK(p)'
    BY <1>1, <2>3, <2>6, ServiceReturns
  <2> QED
    BY <2>3, <2>4, <2>5, <2>6
<1>8. CASE at[p][2] = "addService"
  <2> DEFINE pair == <<reg[p]["service"], reg[p]["group"]>>
  <2>1. CallOf(p) = Relate("link", pair, TRUE, After(p), After(p))
    BY <1>3, <1>8 DEF ProcessService
  <2>2. /\ UNCHANGED <<rows, left, item>> /\ Moves(p) /\ Grows
        /\ Goes(p, After(p), reg[p])
        /\ faults' # 0 \/ pair \in links'
    <3>1. "link" \in {"link", "attach", "match"}
      OBVIOUS
    <3> HIDE DEF pair
    <3>2. /\ UNCHANGED <<rows, left, item>> /\ Moves(p) /\ Grows
          /\ \/ /\ TRUE /\ Goes(p, After(p), reg[p])
                /\ links' = IF "link" = "link" THEN links \cup {pair} ELSE links
                /\ matches' = IF "link" = "match" THEN matches \cup {pair} ELSE matches
             \/ /\ links' = links /\ matches' = matches
                /\ Goes(p, After(p), reg[p])
                /\ faults' # 0 \/ ~TRUE
      BY <2>1, <3>1, Related
    <3> QED
      BY <3>2
  <2>3. PICK svc, grp : svc = reg[p]["service"] /\ grp = reg[p]["group"]
    OBVIOUS
  <2>4. Is("service", svc, owner[1])' /\ Is("group", grp, owner[2])'
    BY <1>1, <1>2, <1>8, <2>2, <2>3, GrowsIs DEF ServiceKnown, Kinds
  <2>5. faults' = 0 => Linked(svc, owner)'
    BY <2>2, <2>3, <2>4 DEF Linked
  <2>6. K8sOK(p)'
    BY <1>1, <2>2, <2>3, <2>5, ServiceReturns
  <2> QED
    BY <1>2, <2>2, <2>6, OwnersUntouched, K8sKeeps DEF TablesOK
<1> QED
  BY <1>3, <1>4, <1>5, <1>6, <1>7, <1>8 DEF ServiceSteps

LEMMA ContainerCalls ==
  ASSUME ReportingInv, NEW p \in Goroutines \cap active, at[p][1] \in InContainer
  PROVE  /\ CallOf(p) = ProcessContainer(p, at[p][1], at[p][2])
         /\ at[p][2] \in ContainerSteps
<1>1. K8sOK(p)
  BY DEF ReportingInv, ClientOK
<1>2. at[p][2] \in ContainerSteps
  BY <1>1 DEF K8sOK, Ends, Idle, Done, Failed, InContainer
<1>3. CallOf(p) = K8sCall(p)
  BY ProcessesApart DEF CallOf
<1> QED
  BY <1>2, <1>3 DEF K8sCall, InContainer

LEMMA ContainerGoesOn ==
  ASSUME ReportingInv, NEW p \in Goroutines \cap active, at[p][1] \in InContainer,
         Moves(p), Grows, UNCHANGED <<left, item>>, NEW c, c = item[p],
         NEW step \in ContainerSteps, NEW r, Goes(p, <<at[p][1], step>>, r),
         r["pod"] = reg[p]["pod"], r["service"] = reg[p]["service"],
         step \notin {"getComponent", "createComponent"} => Is("component", r["component"], ComponentOf[c])',
         step \in {"getInstance", "updateInstance", "createInstance"} =>
           Is("version", r["version"], <<r["component"], VersionOf[c]>>)',
         step = "updateInstance" => r["instance"] \in WithCcrn(InstanceOf[c])'
  PROVE  K8sOK(p)'
<1>1. at'[p] = <<at[p][1], step>> /\ at'[p][1] = at[p][1] /\ at'[p][2] = step /\ reg'[p] = r
  BY DEF Goes, InContainer
<1>2. K8sOK(p) /\ (faults' = 0 => faults = 0)
  BY DEF ReportingInv, ClientOK, Moves
<1>3. ServiceKnown(p)'
  BY <1>1 DEF ServiceKnown, InContainer
<1>4. ImageKnown(p)'
  BY <1>1 DEF ImageKnown
<1>5. OwnerKnown(p)'
  BY <1>1, <1>2, GrowsLinked DEF K8sOK, OwnerKnown, InContainer, PodOwner
<1>6. ContainersOf[GroupOf[p]] \subseteq DOMAIN InstanceOf
  BY ReportingAssumption
<1>7. Entered(p)'
  BY <1>1, <1>2, <1>6 DEF K8sOK, Entered, InContainer, Grows, Done
<1>8. at'[p] \in InContainer \X ContainerSteps
  BY <1>1
<1> QED
  BY <1>3, <1>4, <1>5, <1>7, <1>8 DEF K8sOK

\* ProcessContainer returns: an error ends the loop, or the container is entered.
LEMMA ContainerReturns ==
  ASSUME ReportingInv, NEW p \in Goroutines \cap active, at[p][1] \in InContainer,
         Moves(p), Grows, UNCHANGED <<left, item>>, NEW c, c = item[p],
         \/ Goes(p, Failed, reg[p])
         \/ \E r : Goes(p, <<"group", "next">>, r) /\ r["pod"] = reg[p]["pod"] /\ RunsImage(c)'
  PROVE  K8sOK(p)'
<1>1. K8sOK(p) /\ (faults' = 0 => faults = 0)
  BY DEF ReportingInv, ClientOK, Moves
<1>2. ContainersOf[GroupOf[p]] \subseteq DOMAIN InstanceOf
  BY ReportingAssumption
<1>3. CASE at'[p] = Failed
  BY <1>1, <1>3 DEF K8sOK, Ends, Failed, Done, Entered, ServiceKnown, ImageKnown, OwnerKnown, InContainer
<1>4. CASE at'[p] = <<"group", "next">> /\ reg'[p]["pod"] = reg[p]["pod"] /\ RunsImage(c)'
  <2>1. ServiceKnown(p)' /\ ImageKnown(p)'
    BY <1>4 DEF ServiceKnown, ImageKnown, InContainer
  <2>2. OwnerKnown(p)'
    BY <1>1, <1>4, GrowsLinked DEF K8sOK, OwnerKnown, InContainer, PodOwner
  <2>3. \A d \in ContainersOf[GroupOf[p]] \ left[p] : RunsImage(d)'
    BY <1>1, <1>2, <1>4 DEF K8sOK, Entered, Grows
  <2>4. Entered(p)'
    BY <1>1, <1>4, <2>3 DEF K8sOK, Entered, InContainer, Done
  <2> QED
    BY <1>4, <2>1, <2>2, <2>4 DEF K8sOK
<1> QED
  BY <1>3, <1>4 DEF Goes, Failed

LEMMA OwnerIsLinked ==
  ASSUME ReportingInv, NEW p \in Goroutines \cap active, at[p][1] \in InContainer, faults = 0,
         OwnerId(p) # 0
  PROVE  \E owner \in ReportedOwners : Linked(OwnerId(p), owner)
<1>1. K8sOK(p)
  BY DEF ReportingInv, ClientOK
<1>2. item[p] \in ContainersOf[GroupOf[p]] /\ GroupOf[p] \in DOMAIN ServiceOf
  BY <1>1, ReportingAssumption DEF K8sOK, Entered
<1>3. CASE at[p][1] = "sidecarContainer"
  <2>1. Linked(OwnerId(p), SideCar[item[p]])
    BY <1>1, <1>3 DEF K8sOK, OwnerKnown, OwnerId
  <2>2. SideCar[item[p]] # NoName /\ item[p] \in DOMAIN SideCar
    BY <1>1, <1>2, <1>3, ReportingAssumption DEF K8sOK, Entered
  <2> QED
    BY <2>1, <2>2 DEF ReportedOwners
<1>4. CASE at[p][1] # "sidecarContainer"
  <2>1. Linked(OwnerId(p), PodOwner(p))
    BY <1>1, <1>4 DEF K8sOK, OwnerKnown, OwnerId
  <2>2. PodOwner(p) \in ReportedOwners
    BY <1>2 DEF PodOwner, ReportedOwners
  <2> QED
    BY <2>1, <2>2
<1> QED
  BY <1>3, <1>4

LEMMA ContainerStep ==
  ASSUME ReportingInv, NEW p \in Goroutines \cap active, at[p][1] \in InContainer, Call(p)
  PROVE  ReportingInv'
<1>1. PICK c, ph, com : c = item[p] /\ ph = at[p][1] /\ com = reg[p]["component"]
  OBVIOUS
<1>2. ImageKnown(p) /\ reg[p] \in [Registers -> Nat] /\ TablesOK
  BY DEF ReportingInv, ClientOK, K8sOK, LocalsOK
<1>3. CallOf(p) = ProcessContainer(p, ph, at[p][2]) /\ at[p][2] \in ContainerSteps
  BY <1>1, ContainerCalls
<1>4. c \in DOMAIN InstanceOf
  BY <1>1, ReportingAssumption DEF ReportingInv, ClientOK, K8sOK, Entered
<1>5. CASE at[p][2] = "getComponent"
  <2>1. CallOf(p) = List(Named("component", ComponentOf[c]), "component", <<ph, "getVersion">>,
                         <<ph, "createComponent">>, <<ph, "createComponent">>)
    BY <1>1, <1>3, <1>5 DEF ProcessContainer
  <2>2. /\ Named("component", ComponentOf[c]) \in SUBSET DOMAIN rows["component"]
        /\ "component" \in Kinds /\ "component" \in Registers
    BY DEF Named, WithCcrn, Kinds, Registers
  <2>3. /\ UNCHANGED <<rows, links, matches, left, item>> /\ Moves(p) /\ Grows
        /\ \/ \E id \in Named("component", ComponentOf[c]) :
                Goes(p, <<ph, "getVersion">>, [reg[p] EXCEPT !["component"] = id])
           \/ Goes(p, <<ph, "createComponent">>, [reg[p] EXCEPT !["component"] = 0])
           \/ Goes(p, <<ph, "createComponent">>, reg[p])
    BY <2>1, <2>2, LookedUp
  <2>4. K8sOK(p)' => ReportingInv'
    BY <1>2, <2>3, OwnersUntouched, K8sKeeps DEF TablesOK
  <2>5. ASSUME NEW id \in Named("component", ComponentOf[c]),
               Goes(p, <<ph, "getVersion">>, [reg[p] EXCEPT !["component"] = id])
        PROVE  K8sOK(p)'
    <3> PICK r : r = [reg[p] EXCEPT !["component"] = id]
      OBVIOUS
    <3>1. Is("component", id, ComponentOf[c])'
      BY <2>3 DEF Is, Named
    <3>2. r["pod"] = reg[p]["pod"] /\ r["service"] = reg[p]["service"] /\ r["component"] = id
      BY <1>1, <1>2 DEF Registers
    <3> QED
      BY <1>1, <2>3, <2>5, <3>1, <3>2, ContainerGoesOn DEF ContainerSteps
  <2>6. ASSUME NEW r, Goes(p, <<ph, "createComponent">>, r), r \in {[reg[p] EXCEPT !["component"] = 0], reg[p]}
        PROVE  K8sOK(p)'
    <3>2. r["pod"] = reg[p]["pod"] /\ r["service"] = reg[p]["service"]
      BY <1>1, <1>2, <2>6 DEF Registers
    <3> QED
      BY <1>1, <2>3, <2>6, <3>2, ContainerGoesOn DEF ContainerSteps
  <2> QED
    BY <2>3, <2>4, <2>5, <2>6
<1>6. CASE at[p][2] = "createComponent"
  <2>1. CallOf(p) = Insert("component", Row(ComponentOf[c], 0), TRUE, "component", <<ph, "getVersion">>, Failed)
    BY <1>1, <1>3, <1>6 DEF ProcessContainer
  <2>2. "component" \in Kinds /\ "component" \in Registers
    BY DEF Kinds, Registers
  <2>3. /\ UNCHANGED <<links, matches, left, item>> /\ Moves(p) /\ Grows
        /\ rows' = [k \in Kinds |-> rows'[k]] /\ \A k \in Kinds : IsTable(rows'[k])
        /\ \/ \E id \in Nat :
                /\ Adds("component", Row(ComponentOf[c], 0), id)
                /\ \/ Goes(p, <<ph, "getVersion">>, [reg[p] EXCEPT !["component"] = id])
                   \/ Goes(p, Failed, reg[p])
           \/ rows' = rows /\ Goes(p, Failed, reg[p])
    BY <2>1, <2>2, Inserted, Zenon
  <2>4. K8sOK(p)' => ReportingInv'
    <3>1. \A k \in Kinds \ {"component"} : rows'[k] = rows[k]
      BY <2>3 DEF Adds
    <3> QED
      BY <2>3, <3>1, OwnersUntouched, K8sKeeps DEF Kinds
  <2>5. ASSUME NEW id \in Nat, Adds("component", Row(ComponentOf[c], 0), id),
               Goes(p, <<ph, "getVersion">>, [reg[p] EXCEPT !["component"] = id])
        PROVE  K8sOK(p)'
    <3> PICK r : r = [reg[p] EXCEPT !["component"] = id]
      OBVIOUS
    <3>1. Is("component", id, ComponentOf[c])'
      BY <2>5 DEF Is, Adds, Row
    <3>2. r["pod"] = reg[p]["pod"] /\ r["service"] = reg[p]["service"] /\ r["component"] = id
      BY <1>1, <1>2 DEF Registers
    <3> QED
      BY <1>1, <2>3, <2>5, <3>1, <3>2, ContainerGoesOn DEF ContainerSteps
  <2>6. ASSUME Goes(p, Failed, reg[p]) PROVE K8sOK(p)'
    BY <1>1, <2>3, <2>6, ContainerReturns
  <2> QED
    BY <2>3, <2>4, <2>5, <2>6
<1>7. CASE at[p][2] = "getVersion"
  <2>1. CallOf(p) = List(Named("version", <<com, VersionOf[c]>>), "version", <<ph, "getInstance">>,
                         <<ph, "createVersion">>, <<ph, "createVersion">>)
    BY <1>1, <1>3, <1>7 DEF ProcessContainer
  <2>2. /\ Named("version", <<com, VersionOf[c]>>) \in SUBSET DOMAIN rows["version"]
        /\ "version" \in Kinds /\ "version" \in Registers
    BY DEF Named, WithCcrn, Kinds, Registers
  <2>3. /\ UNCHANGED <<rows, links, matches, left, item>> /\ Moves(p) /\ Grows
        /\ \/ \E id \in Named("version", <<com, VersionOf[c]>>) :
                Goes(p, <<ph, "getInstance">>, [reg[p] EXCEPT !["version"] = id])
           \/ Goes(p, <<ph, "createVersion">>, [reg[p] EXCEPT !["version"] = 0])
           \/ Goes(p, <<ph, "createVersion">>, reg[p])
    BY <2>1, <2>2, LookedUp
  <2>4. K8sOK(p)' => ReportingInv'
    BY <1>2, <2>3, OwnersUntouched, K8sKeeps DEF TablesOK
  <2>5. ASSUME NEW id \in Named("version", <<com, VersionOf[c]>>),
               Goes(p, <<ph, "getInstance">>, [reg[p] EXCEPT !["version"] = id])
        PROVE  K8sOK(p)'
    <3> PICK r : r = [reg[p] EXCEPT !["version"] = id]
      OBVIOUS
    <3>1. Is("version", id, <<com, VersionOf[c]>>)'
      BY <2>3 DEF Is, Named
    <3>2. r["pod"] = reg[p]["pod"] /\ r["service"] = reg[p]["service"] /\ r["component"] = com /\ r["version"] = id
      BY <1>1, <1>2 DEF Registers
    <3>3. Is("component", r["component"], ComponentOf[c])'
      BY <1>1, <1>2, <1>7, <2>3, <3>2, GrowsIs DEF ImageKnown, Kinds
    <3> QED
      BY <1>1, <2>3, <2>5, <3>1, <3>2, <3>3, ContainerGoesOn DEF ContainerSteps
  <2>6. ASSUME NEW r, Goes(p, <<ph, "createVersion">>, r), r \in {[reg[p] EXCEPT !["version"] = 0], reg[p]}
        PROVE  K8sOK(p)'
    <3>2. r["pod"] = reg[p]["pod"] /\ r["service"] = reg[p]["service"] /\ r["component"] = com
      BY <1>1, <1>2, <2>6 DEF Registers
    <3>3. Is("component", r["component"], ComponentOf[c])'
      BY <1>1, <1>2, <1>7, <2>3, <3>2, GrowsIs DEF ImageKnown, Kinds
    <3> QED
      BY <1>1, <2>3, <2>6, <3>2, <3>3, ContainerGoesOn DEF ContainerSteps
  <2> QED
    BY <2>3, <2>4, <2>5, <2>6
<1>8. CASE at[p][2] = "createVersion"
  <2>1. CallOf(p) = Insert("version", Row(<<com, VersionOf[c]>>, 0), TRUE, "version", <<ph, "getInstance">>, Failed)
    BY <1>1, <1>3, <1>8 DEF ProcessContainer
  <2>2. "version" \in Kinds /\ "version" \in Registers
    BY DEF Kinds, Registers
  <2>3. /\ UNCHANGED <<links, matches, left, item>> /\ Moves(p) /\ Grows
        /\ rows' = [k \in Kinds |-> rows'[k]] /\ \A k \in Kinds : IsTable(rows'[k])
        /\ \/ \E id \in Nat :
                /\ Adds("version", Row(<<com, VersionOf[c]>>, 0), id)
                /\ \/ Goes(p, <<ph, "getInstance">>, [reg[p] EXCEPT !["version"] = id])
                   \/ Goes(p, Failed, reg[p])
           \/ rows' = rows /\ Goes(p, Failed, reg[p])
    BY <2>1, <2>2, Inserted, Zenon
  <2>4. K8sOK(p)' => ReportingInv'
    <3>1. \A k \in Kinds \ {"version"} : rows'[k] = rows[k]
      BY <2>3 DEF Adds
    <3> QED
      BY <2>3, <3>1, OwnersUntouched, K8sKeeps DEF Kinds
  <2>5. ASSUME NEW id \in Nat, Adds("version", Row(<<com, VersionOf[c]>>, 0), id),
               Goes(p, <<ph, "getInstance">>, [reg[p] EXCEPT !["version"] = id])
        PROVE  K8sOK(p)'
    <3> PICK r : r = [reg[p] EXCEPT !["version"] = id]
      OBVIOUS
    <3>1. Is("version", id, <<com, VersionOf[c]>>)'
      BY <2>5 DEF Is, Adds, Row
    <3>2. r["pod"] = reg[p]["pod"] /\ r["service"] = reg[p]["service"] /\ r["component"] = com /\ r["version"] = id
      BY <1>1, <1>2 DEF Registers
    <3>3. Is("component", r["component"], ComponentOf[c])'
      BY <1>1, <1>2, <1>8, <2>3, <3>2, GrowsIs DEF ImageKnown, Kinds
    <3> QED
      BY <1>1, <2>3, <2>5, <3>1, <3>2, <3>3, ContainerGoesOn DEF ContainerSteps
  <2>6. ASSUME Goes(p, Failed, reg[p]) PROVE K8sOK(p)'
    BY <1>1, <2>3, <2>6, ContainerReturns
  <2> QED
    BY <2>3, <2>4, <2>5, <2>6
<1>9. CASE at[p][2] = "getInstance"
  <2>1. CallOf(p) = List(WithCcrn(InstanceOf[c]), "instance", <<ph, "updateInstance">>,
                         <<ph, "createInstance">>, <<ph, "createInstance">>)
    BY <1>1, <1>3, <1>9 DEF ProcessContainer
  <2>2. WithCcrn(InstanceOf[c]) \in SUBSET DOMAIN rows["instance"] /\ "instance" \in Kinds /\ "instance" \in Registers
    BY DEF Named, WithCcrn, Kinds, Registers
  <2>3. /\ UNCHANGED <<rows, links, matches, left, item>> /\ Moves(p) /\ Grows
        /\ \/ \E id \in WithCcrn(InstanceOf[c]) :
                Goes(p, <<ph, "updateInstance">>, [reg[p] EXCEPT !["instance"] = id])
           \/ Goes(p, <<ph, "createInstance">>, [reg[p] EXCEPT !["instance"] = 0])
           \/ Goes(p, <<ph, "createInstance">>, reg[p])
    BY <2>1, <2>2, LookedUp
  <2>4. K8sOK(p)' => ReportingInv'
    BY <1>2, <2>3, OwnersUntouched, K8sKeeps DEF TablesOK
  <2>5. ASSUME NEW id \in WithCcrn(InstanceOf[c]),
               Goes(p, <<ph, "updateInstance">>, [reg[p] EXCEPT !["instance"] = id])
        PROVE  K8sOK(p)'
    <3> PICK r : r = [reg[p] EXCEPT !["instance"] = id]
      OBVIOUS
    <3>1. id \in WithCcrn(InstanceOf[c])'
      BY <2>3 DEF WithCcrn
    <3>2. /\ r["pod"] = reg[p]["pod"] /\ r["service"] = reg[p]["service"]
          /\ r["component"] = com /\ r["version"] = reg[p]["version"] /\ r["instance"] = id
      BY <1>1, <1>2 DEF Registers
    <3>3. Is("component", r["component"], ComponentOf[c])'
      BY <1>1, <1>2, <1>9, <2>3, <3>2, GrowsIs DEF ImageKnown, Kinds
    <3>4. Is("version", r["version"], <<r["component"], VersionOf[c]>>)'
      BY <1>1, <1>2, <1>9, <2>3, <3>2, GrowsIs DEF ImageKnown, Kinds
    <3> QED
      BY <1>1, <2>3, <2>5, <3>1, <3>2, <3>3, <3>4, ContainerGoesOn DEF ContainerSteps
  <2>6. ASSUME NEW r, Goes(p, <<ph, "createInstance">>, r), r \in {[reg[p] EXCEPT !["instance"] = 0], reg[p]}
        PROVE  K8sOK(p)'
    <3>2. /\ r["pod"] = reg[p]["pod"] /\ r["service"] = reg[p]["service"]
          /\ r["component"] = com /\ r["version"] = reg[p]["version"]
      BY <1>1, <1>2, <2>6 DEF Registers
    <3>3. Is("component", r["component"], ComponentOf[c])'
      BY <1>1, <1>2, <1>9, <2>3, <3>2, GrowsIs DEF ImageKnown, Kinds
    <3>4. Is("version", r["version"], <<r["component"], VersionOf[c]>>)'
      BY <1>1, <1>2, <1>9, <2>3, <3>2, GrowsIs DEF ImageKnown, Kinds
    <3> QED
      BY <1>1, <2>3, <2>6, <3>2, <3>3, <3>4, ContainerGoesOn DEF ContainerSteps
  <2> QED
    BY <2>3, <2>4, <2>5, <2>6
<1>10. ASSUME at[p][2] \in {"updateInstance", "createInstance"}
       PROVE  /\ Is("component", com, ComponentOf[c])
              /\ Is("version", reg[p]["version"], <<com, VersionOf[c]>>)
  BY <1>1, <1>2, <1>10 DEF ImageKnown
<1>11. CASE at[p][2] = "updateInstance"
  <2>1. PICK id, row : id = reg[p]["instance"] /\ row = Row(<<InstanceOf[c], KeptService(p)>>, reg[p]["version"])
    OBVIOUS
  <2>2. CallOf(p) = Update(id, row, <<"group", "next">>, Failed)
    BY <1>1, <1>3, <1>11, <2>1 DEF ProcessContainer
  <2>3. id \in WithCcrn(InstanceOf[c])
    BY <1>1, <1>2, <1>11, <2>1 DEF ImageKnown
  <2>4. /\ id \in DOMAIN rows["instance"] /\ rows["instance"][id].key[1] = row.key[1]
        /\ row.key[1] = InstanceOf[c] /\ row.key[2] = KeptService(p) /\ row.ref = reg[p]["version"]
    BY <2>1, <2>3 DEF WithCcrn, Row
  <2>5. com \in DOMAIN rows["component"] /\ rows["component"][com].key = ComponentOf[c]
        /\ Is("version", row.ref, <<com, VersionOf[c]>>)
    BY <1>10, <1>11, <2>4 DEF Is
  <2>6. /\ UNCHANGED <<links, matches, left, item>> /\ Moves(p) /\ Grows
        /\ rows' = [k \in Kinds |-> rows'[k]] /\ \A k \in Kinds : IsTable(rows'[k])
        /\ \A k \in Kinds \ {"instance"} : rows'[k] = rows[k]
        /\ DOMAIN rows'["instance"] = DOMAIN rows["instance"]
        /\ \A i \in DOMAIN rows["instance"] \ {id} : rows'["instance"][i] = rows["instance"][i]
        /\ \/ rows'["instance"][id] = row /\ RunsImage(c)' /\ Goes(p, <<"group", "next">>, reg[p])
           \/ rows' = rows /\ Goes(p, Failed, reg[p])
    BY <1>4, <2>2, <2>4, <2>5, Updated
  <2>7. K8sOK(p)'
    BY <1>1, <2>6, ContainerReturns
  <2>8. faults = 0 => \E owner \in ReportedOwners : Linked(KeptService(p), owner)
    <3>1. OwnerId(p) = 0 => KeptService(p) = rows["instance"][id].key[2]
      BY <2>1 DEF KeptService
    <3>2. OwnerId(p) # 0 => KeptService(p) = OwnerId(p)
      BY DEF KeptService
    <3> QED
      BY <1>4, <2>3, <3>1, <3>2, OwnerIsLinked DEF ReportingInv, OwnersOK
  <2>9. OwnersOK'
    <3>1. CASE rows' = rows
      BY <2>6, <3>1, OwnersUntouched
    <3>2. CASE rows'["instance"][id] = row
      <4>1. faults' = 0 => \E owner \in ReportedOwners : Linked(rows["instance"][id].key[2], owner)'
        <5>1. PICK s : s = KeptService(p)
          OBVIOUS
        <5>2. faults' = 0 => \E owner \in ReportedOwners : Linked(s, owner)'
          BY <2>6, <2>8, <5>1, GrowsLinked DEF Moves
        <5>3. rows'["instance"][id].key[2] = s
          BY <2>4, <3>2, <5>1
        <5> QED
          BY <5>2, <5>3 DEF Linked
      <4> QED
        BY <2>6, <4>1, OwnersStay DEF ReportingInv, Moves
    <3> QED
      BY <2>6, <3>1, <3>2
  <2> QED
    BY <2>6, <2>7, <2>9, K8sKeeps DEF Kinds
<1>12. CASE at[p][2] = "createInstance"
  <2>1. PICK own, ver, row : /\ own = OwnerId(p) /\ ver = reg[p]["version"]
                             /\ row = Row(<<InstanceOf[c], own>>, ver)
    OBVIOUS
  <2>2. CallOf(p) = Insert("instance", row, own # 0, "instance", <<"group", "next">>, Failed)
    BY <1>1, <1>3, <1>12, <2>1 DEF ProcessContainer, CannotCreate
  <2>3. "instance" \in Kinds /\ "instance" \in Registers
    BY DEF Kinds, Registers
  <2>4. /\ UNCHANGED <<links, matches, left, item>> /\ Moves(p) /\ Grows
        /\ rows' = [k \in Kinds |-> rows'[k]] /\ \A k \in Kinds : IsTable(rows'[k])
        /\ \/ \E id \in Nat :
                /\ own # 0 /\ Adds("instance", row, id)
                /\ \/ Goes(p, <<"group", "next">>, [reg[p] EXCEPT !["instance"] = id])
                   \/ Goes(p, Failed, reg[p])
           \/ rows' = rows /\ Goes(p, Failed, reg[p])
    BY <2>2, <2>3, Inserted, Zenon
  <2>5. CASE rows' = rows /\ Goes(p, Failed, reg[p])
    <3>1. K8sOK(p)'
      BY <1>1, <2>4, <2>5, ContainerReturns
    <3> QED
      BY <2>4, <2>5, <3>1, OwnersUntouched, K8sKeeps
  <2>6. ASSUME NEW id \in Nat, own # 0, Adds("instance", row, id),
               \/ Goes(p, <<"group", "next">>, [reg[p] EXCEPT !["instance"] = id])
               \/ Goes(p, Failed, reg[p])
        PROVE  ReportingInv'
    <3>1. /\ rows'["issue"] = rows["issue"] /\ rows'["variant"] = rows["variant"]
          /\ rows'["component"] = rows["component"] /\ rows'["version"] = rows["version"]
          /\ rows'["instance"][id] = row /\ id \in DOMAIN rows'["instance"]
          /\ row.key[1] = InstanceOf[c] /\ row.key[2] = own /\ row.ref = ver
      BY <2>1, <2>6 DEF Adds, Kinds, Row
    <3>2. RunsImage(c)'
      <4>1. id \in WithCcrn(InstanceOf[c])'
        BY <3>1 DEF WithCcrn
      <4>2. com \in DOMAIN rows'["component"] /\ rows'["component"][com].key = ComponentOf[c]
        BY <1>10, <1>12, <3>1 DEF Is
      <4>3. Is("version", rows["instance"][id].ref, <<com, VersionOf[c]>>)'
        BY <1>10, <1>12, <2>1, <3>1 DEF Is
      <4> QED
        BY <1>4, <4>1, <4>2, <4>3 DEF RunsImage
    <3>3. [reg[p] EXCEPT !["instance"] = id]["pod"] = reg[p]["pod"]
      BY <1>2 DEF Registers
    <3>4. K8sOK(p)'
      BY <1>1, <2>4, <2>6, <3>2, <3>3, ContainerReturns
    <3>5. faults' = 0 => \E owner \in ReportedOwners : Linked(own, owner)'
      BY <2>1, <2>4, <2>6, OwnerIsLinked, GrowsLinked DEF Moves
    <3>6. faults' = 0 => \E owner \in ReportedOwners : Linked(rows["instance"][id].key[2], owner)'
      BY <3>1, <3>5 DEF Linked
    <3>7. \A i \in DOMAIN rows'["instance"] \ {id} :
            i \in DOMAIN rows["instance"] /\ rows'["instance"][i] = rows["instance"][i]
      BY <2>6 DEF Adds
    <3>8. OwnersOK'
      BY <2>4, <3>6, <3>7, OwnersStay DEF ReportingInv, Moves
    <3> QED
      BY <2>4, <3>1, <3>4, <3>8, K8sKeeps
  <2> QED
    BY <2>4, <2>5, <2>6
<1> QED
  BY <1>3, <1>5, <1>6, <1>7, <1>8, <1>9, <1>11, <1>12 DEF ContainerSteps

-----------------------------------------------------------------------------
(* The workers of Keppel and the NVD scanner.                              *)

ReportSteps == {"next", "getIssue", "createIssue", "createIssueVariant", "attach"}

LEMMA WorkerGoesOn ==
  ASSUME ReportingInv, NEW w \in Workers \cap active, at[w][1] = "report",
         Moves(w), Grows, UNCHANGED <<left, item>>, NEW n, n = item[w],
         NEW step \in ReportSteps, NEW r, Goes(w, <<"report", step>>, r),
         step = "createIssueVariant" => Is("issue", r["issue"], n)',
         TablesOK', OwnersOK', VariantFollowsIssue'
  PROVE  ReportingInv'
<1>1. at'[w] = <<"report", step>> /\ at'[w][1] = "report" /\ at'[w][2] = step /\ reg'[w] = r
  BY DEF Goes
<1>2. w \notin Goroutines \cup Alerts \cup {Nvd, Keppel}
  BY ProcessesApart
<1>3. WorkerOK(w) /\ (faults' = 0 => faults = 0) /\ active' = active
  BY DEF ReportingInv, ClientOK, Moves
<1>4. ~Ended(w)
  BY DEF Ended
<1>5. faults' = 0 => Keppel \in active' /\ at'[Keppel] = <<"main", "wait">>
  BY <1>2, <1>3, <1>4 DEF WorkerOK, Moves
<1>6. IssueKnown(w)'
  BY <1>1 DEF IssueKnown
<1>7. WorkerOK(w)'
  BY <1>1, <1>5, <1>6 DEF WorkerOK, ReportSteps
<1>8. ClientOK(w)'
  BY <1>2, <1>7 DEF ClientOK
<1> QED
  BY <1>2, <1>8, CallKeeps

\* A variant whose name is taken is a variant of the same issue.
LEMMA VariantThere ==
  ASSUME TablesOK, NEW i, NEW n, Is("issue", i, n), Named("variant", n) # {}
  PROVE  HasVariant(i)
<1>1. PICK v \in DOMAIN rows["variant"] : rows["variant"][v].key = n
  BY DEF Named
<1>2. Is("issue", rows["variant"][v].ref[1], n)
  BY <1>1 DEF TablesOK
<1>3. rows["variant"][v].ref[1] = i
  BY <1>2 DEF TablesOK, Is
<1> QED
  BY <1>3 DEF HasVariant

\* A variant needs the repository of its scanner q.
LEMMA VariantInserted ==
  ASSUME ReportingInv, NEW p \in active, Call(p), NEW q, NEW row, NEW ok, NEW err,
         CallOf(p) = Insert("variant", row, reg[q]["repository"] # 0, "variant", ok, err)
  PROVE  /\ UNCHANGED <<links, matches, left, item>> /\ Moves(p) /\ Grows
         /\ rows' = [k \in Kinds |-> rows'[k]] /\ \A k \in Kinds : IsTable(rows'[k])
         /\ \/ \E id \in Nat :
                 /\ Adds("variant", row, id)
                 /\ \/ Goes(p, ok, [reg[p] EXCEPT !["variant"] = id])
                    \/ Goes(p, err, reg[p])
            \/ /\ rows' = rows /\ Goes(p, err, reg[p])
               /\ faults' # 0 \/ ~(reg[q]["repository"] # 0) \/ Named("variant", row.key) # {}
<1>1. "variant" \in Kinds /\ "variant" \in Registers
  BY DEF Kinds, Registers
<1> QED
  BY <1>1, Inserted, Zenon

LEMMA WorkerStep ==
  ASSUME ReportingInv, NEW w \in Workers \cap active, Calling(w), Call(w)
  PROVE  ReportingInv'
<1>1. PICK n : n = item[w]
  OBVIOUS
<1>2. WorkerOK(w) /\ reg[w] \in [Registers -> Nat] /\ TablesOK /\ active \subseteq Processes
  BY DEF ReportingInv, ClientOK, LocalsOK
<1>3. at[w][1] = "report" /\ at[w][2] \in ReportSteps \ {"next"} /\ at[w] = <<"report", at[w][2]>>
  BY <1>2 DEF WorkerOK, Calling, ReportSteps, Ends, Idle, Done, Failed
<1>4. CallOf(w) = ProcessReport(w, at[w][2])
  BY ProcessesApart DEF CallOf
<1>5. w \notin Goroutines \cup Alerts \cup {Nvd, Keppel}
  BY ProcessesApart
<1>6. CASE at[w][2] = "getIssue"
  <2>1. PICK miss \in {<<"report", "createIssue">>, <<"report", "next">>} :
          CallOf(w) = List(Named("issue", n), "issue", <<"report", "attach">>, miss, <<"report", "next">>)
    BY <1>1, <1>4, <1>6 DEF ProcessReport, KnownIssue
  <2>2. Named("issue", n) \in SUBSET DOMAIN rows["issue"] /\ "issue" \in Kinds /\ "issue" \in Registers
    BY DEF Named, Kinds, Registers
  <2>3. /\ UNCHANGED <<rows, links, matches, left, item>> /\ Moves(w) /\ Grows
        /\ \/ \E id \in Named("issue", n) : Goes(w, <<"report", "attach">>, [reg[w] EXCEPT !["issue"] = id])
           \/ Goes(w, miss, [reg[w] EXCEPT !["issue"] = 0])
           \/ Goes(w, <<"report", "next">>, reg[w])
    BY <2>1, <2>2, LookedUp
  <2>4. TablesOK' /\ OwnersOK'
    BY <1>2, <2>3, TablesKept, OwnersUntouched DEF TablesOK
  <2>5. VariantFollowsIssue'
    BY <1>6, <2>3, VariantsStay
  <2>6. \E step \in {"attach", "createIssue", "next"} : \E r : Goes(w, <<"report", step>>, r)
    BY <2>1, <2>3
  <2> QED
    BY <1>1, <1>3, <2>3, <2>4, <2>5, <2>6, WorkerGoesOn DEF ReportSteps
<1>7. CASE at[w][2] = "createIssue"
  <2>1. PICK row : row = Row(n, Keppel)
    OBVIOUS
  <2>2. CallOf(w) = Insert("issue", row, TRUE, "issue", <<"report", "createIssueVariant">>, <<"report", "next">>)
    BY <1>1, <1>4, <1>7, <2>1 DEF ProcessReport, NewIssue
  <2>3. "issue" \in Kinds /\ "issue" \in Registers
    BY DEF Kinds, Registers
  <2>4. /\ UNCHANGED <<links, matches, left, item>> /\ Moves(w) /\ Grows
        /\ rows' = [k \in Kinds |-> rows'[k]] /\ \A k \in Kinds : IsTable(rows'[k])
        /\ \/ \E id \in Nat :
                /\ Named("issue", row.key) = {} /\ Adds("issue", row, id)
                /\ \/ Goes(w, <<"report", "createIssueVariant">>, [reg[w] EXCEPT !["issue"] = id])
                   \/ faults' # 0 /\ Goes(w, <<"report", "next">>, reg[w])
           \/ rows' = rows /\ Goes(w, <<"report", "next">>, reg[w])
    BY <2>2, <2>3, Inserted, Zenon
  <2>5. CASE rows' = rows /\ Goes(w, <<"report", "next">>, reg[w])
    <3>1. TablesOK' /\ OwnersOK'
      BY <2>4, <2>5, TablesKept, OwnersUntouched
    <3>2. VariantFollowsIssue'
      BY <1>7, <2>4, <2>5, VariantsStay
    <3> QED
      BY <1>1, <1>3, <2>4, <2>5, <3>1, <3>2, WorkerGoesOn DEF ReportSteps
  <2>6. ASSUME NEW id \in Nat, Named("issue", row.key) = {}, Adds("issue", row, id),
               \/ Goes(w, <<"report", "createIssueVariant">>, [reg[w] EXCEPT !["issue"] = id])
               \/ faults' # 0 /\ Goes(w, <<"report", "next">>, reg[w])
        PROVE  ReportingInv'
    <3>1. TablesOK'
      BY <2>4, <2>6, IssueAdded
    <3>2. rows'["instance"] = rows["instance"] /\ DOMAIN rows'["issue"] \ DOMAIN rows["issue"] \subseteq {id}
      BY <2>6 DEF Adds, Kinds
    <3>3. OwnersOK'
      BY <2>4, <3>2, OwnersUntouched
    <3>4. Is("issue", id, n)'
      BY <2>1, <2>6 DEF Is, Adds, Row
    <3>5. CASE Goes(w, <<"report", "createIssueVariant">>, [reg[w] EXCEPT !["issue"] = id])
      <4>1. PICK r : r = [reg[w] EXCEPT !["issue"] = id]
        OBVIOUS
      <4>2. r["issue"] = id
        BY <1>2, <4>1 DEF Registers
      <4>3. at'[w][2] = "createIssueVariant" /\ reg'[w]["issue"] = id /\ w \in active'
        BY <2>4, <3>5, <4>1, <4>2 DEF Goes, Moves
      <4>4. CreatingVariant(id)'
        BY <4>3 DEF CreatingVariant
      <4>5. VariantFollowsIssue'
        BY <1>7, <2>4, <3>2, <4>4, VariantsStay
      <4> QED
        BY <1>1, <1>3, <2>4, <3>1, <3>3, <3>4, <3>5, <4>1, <4>2, <4>5, WorkerGoesOn DEF ReportSteps
    <3>6. CASE faults' # 0 /\ Goes(w, <<"report", "next">>, reg[w])
      <4>1. VariantFollowsIssue'
        BY <3>6 DEF VariantFollowsIssue
      <4> QED
        BY <1>1, <1>3, <2>4, <3>1, <3>3, <3>6, <4>1, WorkerGoesOn DEF ReportSteps
    <3> QED
      BY <2>6, <3>5, <3>6
  <2> QED
    BY <2>4, <2>5, <2>6
<1>8. CASE at[w][2] = "createIssueVariant"
  <2>1. PICK i, row : i = reg[w]["issue"] /\ row = Row(n, <<i, "details">>)
    OBVIOUS
  <2>2. CallOf(w) = Insert("variant", row, reg[Keppel]["repository"] # 0, "variant", <<"report", "attach">>,
                           <<"report", "next">>)
    BY <1>1, <1>4, <1>8, <2>1 DEF ProcessReport
  <2>3. "variant" \in Kinds /\ "variant" \in Registers /\ row.ref[1] = i /\ row.key = n
    BY <2>1 DEF Kinds, Registers, Row
  <2>4. /\ UNCHANGED <<links, matches, left, item>> /\ Moves(w) /\ Grows
        /\ rows' = [k \in Kinds |-> rows'[k]] /\ \A k \in Kinds : IsTable(rows'[k])
        /\ \/ \E id \in Nat :
                /\ Adds("variant", row, id)
                /\ \/ Goes(w, <<"report", "attach">>, [reg[w] EXCEPT !["variant"] = id])
                   \/ Goes(w, <<"report", "next">>, reg[w])
           \/ /\ rows' = rows /\ Goes(w, <<"report", "next">>, reg[w])
              /\ faults' # 0 \/ ~(reg[Keppel]["repository"] # 0) \/ Named("variant", row.key) # {}
    BY <2>2, VariantInserted, Zenon
  <2>5. Is("issue", i, n)
    BY <1>1, <1>2, <1>8, <2>1 DEF WorkerOK, IssueKnown
  <2>6. faults' = 0 => reg[Keppel]["repository"] # 0
    <3>1. faults' = 0 => faults = 0
      BY <2>4 DEF Moves
    <3>2. ~Ended(w)
      BY <1>3 DEF Ended
    <3>3. faults' = 0 => Keppel \in active /\ at[Keppel] = <<"main", "wait">>
      BY <1>2, <3>1, <3>2 DEF WorkerOK
    <3>4. Keppel \in active => KeppelOK
      BY DEF ReportingInv, ClientOK
    <3> QED
      BY <3>1, <3>3, <3>4 DEF KeppelOK
  <2>7. CASE rows' = rows /\ Goes(w, <<"report", "next">>, reg[w])
              /\ (faults' # 0 \/ ~(reg[Keppel]["repository"] # 0) \/ Named("variant", row.key) # {})
    <3>1. TablesOK' /\ OwnersOK'
      BY <2>4, <2>7, TablesKept, OwnersUntouched
    <3>2. faults' = 0 => HasVariant(i)
      BY <1>2, <2>3, <2>5, <2>6, <2>7, VariantThere
    <3>3. faults' = 0 => HasVariant(i)'
      BY <2>7, <3>2 DEF HasVariant
    <3>4. VariantFollowsIssue'
      BY <2>1, <2>4, <2>7, <3>3, VariantsStay
    <3> QED
      BY <1>1, <1>3, <2>4, <2>7, <3>1, <3>4, WorkerGoesOn DEF ReportSteps
  <2>8. ASSUME NEW id \in Nat, Adds("variant", row, id),
               \/ Goes(w, <<"report", "attach">>, [reg[w] EXCEPT !["variant"] = id])
               \/ Goes(w, <<"report", "next">>, reg[w])
        PROVE  ReportingInv'
    <3>1. TablesOK'
      BY <2>3, <2>4, <2>5, <2>8, VariantAdded
    <3>2. rows'["instance"] = rows["instance"] /\ rows'["issue"] = rows["issue"]
      BY <2>8 DEF Adds, Kinds
    <3>3. OwnersOK'
      BY <2>4, <3>2, OwnersUntouched
    <3>4. HasVariant(i)'
      BY <2>3, <2>8 DEF HasVariant, Adds
    <3>5. VariantFollowsIssue'
      BY <2>1, <2>4, <3>2, <3>4, VariantsStay
    <3>6. \E step \in {"attach", "next"} : \E r : Goes(w, <<"report", step>>, r)
      BY <2>8
    <3> QED
      BY <1>1, <1>3, <2>4, <3>1, <3>3, <3>5, <3>6, WorkerGoesOn DEF ReportSteps
  <2> QED
    BY <2>4, <2>7, <2>8
<1>9. CASE at[w][2] = "attach"
  <2>1. PICK pair : pair = <<Head(versions[w]), reg[w]["issue"]>>
    OBVIOUS
  <2>2. CallOf(w) = Relate("attach", pair, TRUE, <<"report", "next">>, <<"report", "next">>)
    BY <1>4, <1>9, <2>1 DEF ProcessReport
  <2>3. "attach" \in {"link", "attach", "match"}
    OBVIOUS
  <2>4. /\ UNCHANGED <<rows, left, item>> /\ Moves(w) /\ Grows /\ Goes(w, <<"report", "next">>, reg[w])
    BY <2>2, <2>3, Related
  <2>5. TablesOK' /\ OwnersOK'
    BY <1>2, <2>4, TablesKept, OwnersUntouched DEF TablesOK
  <2>6. VariantFollowsIssue'
    BY <1>9, <2>4, VariantsStay
  <2> QED
    BY <1>1, <1>3, <2>4, <2>5, <2>6, WorkerGoesOn DEF ReportSteps
<1> QED
  BY <1>3, <1>6, <1>7, <1>8, <1>9 DEF ReportSteps

SetupSteps == {"getRepository", "createRepository"}

LEMMA KeppelGoesOn ==
  ASSUME ReportingInv, Keppel \in active, at[Keppel][1] = "setup",
         Moves(Keppel), Grows, UNCHANGED <<left, item>>,
         NEW next \in {Failed, <<"setup", "createRepository">>, <<"main", "components">>},
         NEW r, Goes(Keppel, next, r),
         next[1] = "main" /\ faults' = 0 => r["repository"] # 0,
         TablesOK', OwnersOK', VariantFollowsIssue'
  PROVE  ReportingInv'
<1>1. Keppel \notin Goroutines \cup Workers \cup Alerts \cup {Nvd}
  BY ProcessesApart
<1>2. at'[Keppel] = next /\ (next[1] = "main" => reg'[Keppel] = r)
  BY DEF Goes
<1>3. KeppelOK'
  BY <1>2 DEF KeppelOK, Ends, Failed
<1> QED
  BY <1>1, <1>3, CallKeeps DEF ClientOK

LEMMA NvdGoesOn ==
  ASSUME ReportingInv, Nvd \in active, Moves(Nvd), Grows, UNCHANGED <<left, item>>,
         NEW next \in {Failed, <<"setup", "createRepository">>, <<"main", "next">>,
                       <<"process", "createIssueVariant">>},
         NEW r, Goes(Nvd, next, r), NEW n, n = item[Nvd],
         next[1] \in {"main", "process"} /\ faults' = 0 => r["repository"] # 0,
         next[1] = "process" => Is("issue", r["issue"], n)',
         TablesOK', OwnersOK', VariantFollowsIssue'
  PROVE  ReportingInv'
<1>1. Nvd \notin Goroutines \cup Workers \cup Alerts \cup {Keppel}
  BY ProcessesApart
<1>2. at'[Nvd] = next /\ (next[1] \in {"main", "process"} => reg'[Nvd] = r)
  BY DEF Goes
<1>3. IssueKnown(Nvd)'
  BY <1>2 DEF IssueKnown, Failed
<1>4. NvdOK'
  BY <1>2, <1>3 DEF NvdOK, Ends, Failed
<1> QED
  BY <1>1, <1>4, CallKeeps DEF ClientOK

\* The repository is known when Setup returns without a fault.
LEMMA SetupStep ==
  ASSUME ReportingInv, NEW p \in {Keppel, Nvd}, p \in active, at[p][1] = "setup", Call(p)
  PROVE  ReportingInv'
<1> DEFINE onward == IF p = Keppel THEN <<"main", "components">> ELSE <<"main", "next">>
           name == RepositoryOf[p]
<1>1. reg[p] \in [Registers -> Nat] /\ TablesOK
  BY DEF ReportingInv, LocalsOK
<1>2. at[p][2] \in SetupSteps
  BY DEF ReportingInv, ClientOK, KeppelOK, NvdOK, Ends, Idle, Done, Failed, SetupSteps
<1>3. CallOf(p) = Setup(p, at[p][2], onward)
  BY ProcessesApart DEF CallOf
<1>4. ASSUME Moves(p), Grows, UNCHANGED <<left, item>>, TablesOK', OwnersOK', VariantFollowsIssue',
             NEW next \in {Failed, <<"setup", "createRepository">>, onward}, NEW r, Goes(p, next, r),
             next = onward /\ faults' = 0 => r["repository"] # 0
      PROVE  ReportingInv'
  <2>1. CASE p = Keppel
    BY <1>4, <2>1, KeppelGoesOn DEF Failed
  <2>2. CASE p = Nvd
    <3>1. onward = <<"main", "next">>
      BY <2>2, ProcessesApart
    <3>2. next[1] # "process" /\ (next[1] = "main" => next = onward)
      BY <1>4, <3>1 DEF Failed
    <3>3. Moves(Nvd) /\ Goes(Nvd, next, r) /\ Nvd \in active
      BY <1>4, <2>2
    <3>4. next \in {Failed, <<"setup", "createRepository">>, <<"main", "next">>,
                    <<"process", "createIssueVariant">>}
      BY <1>4, <3>1
    <3> QED
      BY <1>4, <3>2, <3>3, <3>4, NvdGoesOn
  <2> QED
    BY <2>1, <2>2
<1>5. CASE at[p][2] = "getRepository"
  <2>1. CallOf(p) = List(Named("repository", name), "repository", onward, <<"setup", "createRepository">>, onward)
    BY <1>3, <1>5 DEF Setup
  <2>2. /\ Named("repository", name) \in SUBSET DOMAIN rows["repository"]
        /\ "repository" \in Kinds /\ "repository" \in Registers
    BY DEF Named, Kinds, Registers
  <2> HIDE DEF onward, name
  <2>3. /\ UNCHANGED <<rows, links, matches, left, item>> /\ Moves(p) /\ Grows
        /\ \/ \E id \in Named("repository", name) : Goes(p, onward, [reg[p] EXCEPT !["repository"] = id])
           \/ Goes(p, <<"setup", "createRepository">>, [reg[p] EXCEPT !["repository"] = 0])
           \/ faults' # 0 /\ Goes(p, onward, reg[p])
    BY <2>1, <2>2, LookedUp
  <2>4. TablesOK' /\ OwnersOK'
    BY <1>1, <2>3, TablesKept, OwnersUntouched DEF TablesOK
  <2>5. VariantFollowsIssue'
    BY <1>5, <2>3, VariantsStay
  <2>6. ASSUME NEW id \in Named("repository", name) PROVE [reg[p] EXCEPT !["repository"] = id]["repository"] # 0
    BY <1>1, <2>2, <2>6, IdsArePositive DEF Registers
  <2>7. onward # <<"setup", "createRepository">>
    BY DEF onward
  <2> QED
    BY <1>4, <2>3, <2>4, <2>5, <2>6, <2>7
<1>6. CASE at[p][2] = "createRepository"
  <2>1. CallOf(p) = Insert("repository", Row(name, 0), TRUE, "repository", onward, Failed)
    BY <1>3, <1>6 DEF Setup
  <2>2. "repository" \in Kinds /\ "repository" \in Registers /\ onward # Failed
    BY DEF Kinds, Registers, Failed
  <2> HIDE DEF onward, name
  <2>3. /\ UNCHANGED <<links, matches, left, item>> /\ Moves(p) /\ Grows
        /\ rows' = [k \in Kinds |-> rows'[k]] /\ \A k \in Kinds : IsTable(rows'[k])
        /\ \/ \E id \in Nat :
                /\ Adds("repository", Row(name, 0), id)
                /\ \/ Goes(p, onward, [reg[p] EXCEPT !["repository"] = id])
                   \/ Goes(p, Failed, reg[p])
           \/ rows' = rows /\ Goes(p, Failed, reg[p])
    BY <2>1, <2>2, Inserted, Zenon
  <2>4. \A k \in Kinds \ {"repository"} : rows'[k] = rows[k]
    BY <2>3 DEF Adds
  <2>5. TablesOK' /\ OwnersOK'
    BY <2>3, <2>4, TablesKept, OwnersUntouched DEF Kinds
  <2>6. VariantFollowsIssue'
    BY <1>6, <2>3, <2>4, VariantsStay DEF Kinds
  <2>7. CASE Goes(p, Failed, reg[p])
    BY <1>4, <2>2, <2>3, <2>5, <2>6, <2>7
  <2>8. ASSUME NEW id \in Nat, Adds("repository", Row(name, 0), id),
               Goes(p, onward, [reg[p] EXCEPT !["repository"] = id])
        PROVE  ReportingInv'
    <3>1. PICK r : r = [reg[p] EXCEPT !["repository"] = id]
      OBVIOUS
    <3>2. r["repository"] # 0
      BY <1>1, <2>8, <3>1 DEF Adds, Registers
    <3> QED
      BY <1>4, <2>3, <2>5, <2>6, <2>8, <3>1, <3>2
  <2> QED
    BY <2>3, <2>7, <2>8
<1> QED
  BY <1>2, <1>5, <1>6 DEF SetupSteps

LEMMA ProcessStep ==
  ASSUME ReportingInv, Nvd \in active, at[Nvd][1] = "process", Call(Nvd)
  PROVE  ReportingInv'
<1>1. PICK n : n = item[Nvd]
  OBVIOUS
<1>2. NvdOK /\ reg[Nvd] \in [Registers -> Nat] /\ TablesOK
  BY DEF ReportingInv, ClientOK, LocalsOK
<1>3. at[Nvd][2] \in {"createIssue", "createIssueVariant"}
  BY <1>2 DEF NvdOK, Ends, Idle, Done, Failed
<1>4. CallOf(Nvd) = Process(at[Nvd][2])
  BY ProcessesApart DEF CallOf
<1>5. CASE at[Nvd][2] = "createIssue"
  <2>1. PICK row : row = Row(n, Nvd)
    OBVIOUS
  <2>2. CallOf(Nvd) = Insert("issue", row, TRUE, "issue", <<"process", "createIssueVariant">>, <<"main", "next">>)
    BY <1>1, <1>4, <1>5, <2>1 DEF Process
  <2>3. "issue" \in Kinds /\ "issue" \in Registers
    BY DEF Kinds, Registers
  <2>4. /\ UNCHANGED <<links, matches, left, item>> /\ Moves(Nvd) /\ Grows
        /\ rows' = [k \in Kinds |-> rows'[k]] /\ \A k \in Kinds : IsTable(rows'[k])
        /\ \/ \E id \in Nat :
                /\ Named("issue", row.key) = {} /\ Adds("issue", row, id)
                /\ \/ Goes(Nvd, <<"process", "createIssueVariant">>, [reg[Nvd] EXCEPT !["issue"] = id])
                   \/ faults' # 0 /\ Goes(Nvd, <<"main", "next">>, reg[Nvd])
           \/ rows' = rows /\ Goes(Nvd, <<"main", "next">>, reg[Nvd])
    BY <2>2, <2>3, Inserted, Zenon
  <2>5. faults' = 0 => reg[Nvd]["repository"] # 0
    BY <1>2, <2>4 DEF NvdOK, Moves
  <2>6. CASE rows' = rows /\ Goes(Nvd, <<"main", "next">>, reg[Nvd])
    <3>1. TablesOK' /\ OwnersOK'
      BY <2>4, <2>6, TablesKept, OwnersUntouched
    <3>2. VariantFollowsIssue'
      BY <1>5, <2>4, <2>6, VariantsStay
    <3> QED
      BY <1>1, <2>4, <2>5, <2>6, <3>1, <3>2, NvdGoesOn
  <2>7. ASSUME NEW id \in Nat, Named("issue", row.key) = {}, Adds("issue", row, id),
               \/ Goes(Nvd, <<"process", "createIssueVariant">>, [reg[Nvd] EXCEPT !["issue"] = id])
               \/ faults' # 0 /\ Goes(Nvd, <<"main", "next">>, reg[Nvd])
        PROVE  ReportingInv'
    <3>1. TablesOK'
      BY <2>4, <2>7, IssueAdded
    <3>2. rows'["instance"] = rows["instance"] /\ DOMAIN rows'["issue"] \ DOMAIN rows["issue"] \subseteq {id}
      BY <2>7 DEF Adds, Kinds
    <3>3. OwnersOK'
      BY <2>4, <3>2, OwnersUntouched
    <3>4. Is("issue", id, n)'
      BY <2>1, <2>7 DEF Is, Adds, Row
    <3>5. CASE Goes(Nvd, <<"process", "createIssueVariant">>, [reg[Nvd] EXCEPT !["issue"] = id])
      <4>1. PICK r : r = [reg[Nvd] EXCEPT !["issue"] = id]
        OBVIOUS
      <4>2. r["issue"] = id /\ r["repository"] = reg[Nvd]["repository"]
        BY <1>2, <4>1 DEF Registers
      <4>3. at'[Nvd][2] = "createIssueVariant" /\ reg'[Nvd]["issue"] = id /\ Nvd \in active'
        BY <2>4, <3>5, <4>1, <4>2 DEF Goes, Moves
      <4>4. CreatingVariant(id)'
        BY <4>3 DEF CreatingVariant
      <4>5. VariantFollowsIssue'
        BY <1>5, <2>4, <3>2, <4>4, VariantsStay
      <4> QED
        BY <1>1, <2>4, <2>5, <3>1, <3>3, <3>4, <3>5, <4>1, <4>2, <4>5, NvdGoesOn
    <3>6. CASE faults' # 0 /\ Goes(Nvd, <<"main", "next">>, reg[Nvd])
      <4>1. VariantFollowsIssue'
        BY <3>6 DEF VariantFollowsIssue
      <4> QED
        BY <1>1, <2>4, <2>5, <3>1, <3>3, <3>6, <4>1, NvdGoesOn
    <3> QED
      BY <2>7, <3>5, <3>6
  <2> QED
    BY <2>4, <2>6, <2>7
<1>6. CASE at[Nvd][2] = "createIssueVariant"
  <2>1. PICK i, row : i = reg[Nvd]["issue"] /\ row = Row(n, <<i, "details">>)
    OBVIOUS
  <2>2. CallOf(Nvd) = Insert("variant", row, reg[Nvd]["repository"] # 0, "variant", <<"main", "next">>,
                             <<"main", "next">>)
    BY <1>1, <1>4, <1>6, <2>1 DEF Process
  <2>3. "variant" \in Kinds /\ "variant" \in Registers /\ row.ref[1] = i /\ row.key = n
    BY <2>1 DEF Kinds, Registers, Row
  <2>4. /\ UNCHANGED <<links, matches, left, item>> /\ Moves(Nvd) /\ Grows
        /\ rows' = [k \in Kinds |-> rows'[k]] /\ \A k \in Kinds : IsTable(rows'[k])
        /\ \/ \E id \in Nat :
                /\ Adds("variant", row, id)
                /\ \/ Goes(Nvd, <<"main", "next">>, [reg[Nvd] EXCEPT !["variant"] = id])
                   \/ Goes(Nvd, <<"main", "next">>, reg[Nvd])
           \/ /\ rows' = rows /\ Goes(Nvd, <<"main", "next">>, reg[Nvd])
              /\ faults' # 0 \/ ~(reg[Nvd]["repository"] # 0) \/ Named("variant", row.key) # {}
    BY <2>2, VariantInserted, Zenon
  <2>5. Is("issue", i, n)
    BY <1>1, <1>2, <1>6, <2>1 DEF NvdOK, IssueKnown
  <2>6. faults' = 0 => reg[Nvd]["repository"] # 0
    BY <1>2, <2>4 DEF NvdOK, Moves
  <2>7. CASE rows' = rows /\ Goes(Nvd, <<"main", "next">>, reg[Nvd])
              /\ (faults' # 0 \/ ~(reg[Nvd]["repository"] # 0) \/ Named("variant", row.key) # {})
    <3>1. TablesOK' /\ OwnersOK'
      BY <2>4, <2>7, TablesKept, OwnersUntouched
    <3>2. faults' = 0 => HasVariant(i)
      BY <1>2, <2>3, <2>5, <2>6, <2>7, VariantThere
    <3>3. faults' = 0 => HasVariant(i)'
      BY <2>7, <3>2 DEF HasVariant
    <3>4. VariantFollowsIssue'
      BY <2>1, <2>4, <2>7, <3>3, VariantsStay
    <3> QED
      BY <1>1, <2>4, <2>6, <2>7, <3>1, <3>4, NvdGoesOn
  <2>8. ASSUME NEW id \in Nat, Adds("variant", row, id),
               \/ Goes(Nvd, <<"main", "next">>, [reg[Nvd] EXCEPT !["variant"] = id])
               \/ Goes(Nvd, <<"main", "next">>, reg[Nvd])
        PROVE  ReportingInv'
    <3>1. TablesOK'
      BY <2>3, <2>4, <2>5, <2>8, VariantAdded
    <3>2. rows'["instance"] = rows["instance"] /\ rows'["issue"] = rows["issue"]
      BY <2>8 DEF Adds, Kinds
    <3>3. OwnersOK'
      BY <2>4, <3>2, OwnersUntouched
    <3>4. HasVariant(i)'
      BY <2>3, <2>8 DEF HasVariant, Adds
    <3>5. VariantFollowsIssue'
      BY <2>1, <2>4, <3>2, <3>4, VariantsStay
    <3>6. [reg[Nvd] EXCEPT !["variant"] = id]["repository"] = reg[Nvd]["repository"]
      BY <1>2 DEF Registers
    <3>7. \E r : Goes(Nvd, <<"main", "next">>, r) /\ r["repository"] = reg[Nvd]["repository"]
      BY <2>8, <3>6
    <3> QED
      BY <1>1, <2>4, <2>6, <3>1, <3>3, <3>5, <3>7, NvdGoesOn
  <2> QED
    BY <2>4, <2>7, <2>8
<1> QED
  BY <1>3, <1>5, <1>6

-----------------------------------------------------------------------------
(* SIEM alerts.                                                            *)

AlertSteps == AlertOwnerSteps \cup AlertInstanceSteps \cup AlertIssueSteps \cup AlertVariantSteps
                \cup {"createIssueMatch"}

\* AlertOK at a step, with r as the local variables.
AlertKnows(p, step, r) ==
  /\ step \in AlertIssueSteps \cup AlertVariantSteps \cup {"createIssueMatch"} =>
       r["instance"] \in WithCcrn(AlertOf[p].instance)
  /\ step = "getIssue" => /\ Is("variant", r["variant"], AlertOf[p].name)
                          /\ rows["variant"][r["variant"]].ref[2] = AlertOf[p].url
  /\ step \in AlertVariantSteps => Is("issue", r["issue"], AlertOf[p].name)
  /\ step = "createIssueMatch" => \E v \in DOMAIN rows["variant"] : OwnVariant(p, v, r["issue"])

LEMMA AlertGoesOn ==
  ASSUME NEW p, NEW step \in AlertSteps, NEW r, Goes(p, To(step), r), AlertKnows(p, step, r)'
  PROVE  AlertOK(p)'
<1>1. at'[p] = <<"alert", step>> /\ reg'[p] = r
  BY DEF Goes, To
<1>2. at'[p] # Done /\ at'[p] \in {"alert"} \X AlertSteps
  BY <1>1 DEF Done
<1> QED
  BY <1>1, <1>2 DEF AlertOK, AlertKnows, AlertSteps

LEMMA AlertFails ==
  ASSUME NEW p, NEW r, Goes(p, Failed, r)
  PROVE  AlertOK(p)'
<1>1. at'[p] = <<"end", "failed">>
  BY DEF Goes, Failed
<1> QED
  BY <1>1 DEF AlertOK, Ends, Failed, Done, AlertIssueSteps, AlertVariantSteps

LEMMA AlertKeeps ==
  ASSUME ReportingInv, NEW p \in Alerts \cap active, Moves(p), Grows, UNCHANGED <<left, item>>,
         TablesOK', OwnersOK', AlertOK(p)',
         \A i \in DOMAIN rows'["issue"] \ DOMAIN rows["issue"] : rows'["issue"][i].ref = p
  PROVE  ReportingInv'
<1>1. p \notin Goroutines \cup Workers \cup {Nvd, Keppel}
  BY ProcessesApart
<1>2. VariantFollowsIssue'
  BY <1>1, VariantsStay
<1>3. ClientOK(p)'
  BY <1>1 DEF ClientOK
<1> QED
  BY <1>1, <1>2, <1>3, CallKeeps

LEMMA AlertLooks ==
  ASSUME ReportingInv, NEW p \in Alerts \cap active, Call(p), NEW k \in Kinds,
         NEW ids \in SUBSET DOMAIN rows[k], NEW into \in Registers, NEW hit, NEW miss, NEW err,
         CallOf(p) = List(ids, into, hit, miss, err)
  PROVE  /\ AlertOK(p)' => ReportingInv'
         /\ rows' = rows
         /\ \/ \E id \in ids : Goes(p, hit, [reg[p] EXCEPT ![into] = id])
            \/ Goes(p, miss, [reg[p] EXCEPT ![into] = 0])
            \/ Goes(p, err, reg[p])
<1>1. /\ UNCHANGED <<rows, links, matches, left, item>> /\ Moves(p) /\ Grows
      /\ \/ \E id \in ids : Goes(p, hit, [reg[p] EXCEPT ![into] = id])
         \/ Goes(p, miss, [reg[p] EXCEPT ![into] = 0])
         \/ Goes(p, err, reg[p])
  BY LookedUp
<1>2. TablesOK
  BY DEF ReportingInv
<1>3. TablesOK' /\ OwnersOK'
  BY <1>1, <1>2, TablesKept, OwnersUntouched DEF TablesOK
<1>4. AlertOK(p)' => ReportingInv'
  BY <1>1, <1>3, AlertKeeps
<1> QED
  BY <1>1, <1>4

LEMMA AlertCreates ==
  ASSUME ReportingInv, NEW p \in Alerts \cap active, Call(p),
         NEW kind \in {"service", "group", "repository"}, NEW row, NEW ok, NEW err,
         CallOf(p) = Insert(kind, row, TRUE, kind, ok, err)
  PROVE  /\ AlertOK(p)' => ReportingInv'
         /\ Grows
         /\ \/ \E id \in Nat : Goes(p, ok, [reg[p] EXCEPT ![kind] = id])
            \/ Goes(p, err, reg[p])
<1>1. kind \in Kinds /\ kind \in Registers
  BY DEF Kinds, Registers
<1>2. /\ UNCHANGED <<links, matches, left, item>> /\ Moves(p) /\ Grows
      /\ rows' = [k \in Kinds |-> rows'[k]] /\ \A k \in Kinds : IsTable(rows'[k])
      /\ \/ \E id \in Nat :
              /\ Adds(kind, row, id)
              /\ \/ Goes(p, ok, [reg[p] EXCEPT ![kind] = id])
                 \/ Goes(p, err, reg[p])
         \/ rows' = rows /\ Goes(p, err, reg[p])
  BY <1>1, Inserted, Zenon
<1>3. \A k \in Kinds \ {kind} : rows'[k] = rows[k]
  BY <1>2 DEF Adds
<1>4. rows'["issue"] = rows["issue"] /\ rows'["variant"] = rows["variant"] /\ rows'["instance"] = rows["instance"]
  BY <1>3 DEF Kinds
<1>5. TablesOK' /\ OwnersOK'
  BY <1>2, <1>4, TablesKept, OwnersUntouched
<1>6. AlertOK(p)' => ReportingInv'
  BY <1>2, <1>4, <1>5, AlertKeeps
<1> QED
  BY <1>2, <1>6

LEMMA AlertOwnerStep ==
  ASSUME ReportingInv, NEW p \in Alerts \cap active, Call(p),
         at[p] = <<"alert", at[p][2]>>, at[p][2] \in AlertOwnerSteps
  PROVE  ReportingInv'
<1>1. PICK a : a = AlertOf[p]
  OBVIOUS
<1>2. CallOf(p) = AlertCall(p)
  BY ProcessesApart DEF CallOf
<1>3. PICK owned \in {To("createInstance"), To("getSupportGroup")} :
        owned = IF a.group = NoName THEN To("createInstance") ELSE To("getSupportGroup")
  OBVIOUS
<1> DEFINE Early == {To(step) : step \in AlertOwnerSteps \cup AlertInstanceSteps} \cup {Failed}
<1>4. ASSUME NEW next \in Early, NEW r, Goes(p, next, r)
      PROVE  AlertOK(p)'
  <2>1. CASE next = Failed
    BY <1>4, <2>1, AlertFails
  <2>2. ASSUME NEW step \in AlertOwnerSteps \cup AlertInstanceSteps, next = To(step)
        PROVE  AlertOK(p)'
    <3>1. AlertKnows(p, step, r)'
      BY <2>2 DEF AlertKnows, AlertOwnerSteps, AlertInstanceSteps, AlertIssueSteps, AlertVariantSteps
    <3> QED
      BY <1>4, <2>2, <3>1, AlertGoesOn DEF AlertSteps
  <2> QED
    BY <1>4, <2>1, <2>2
<1>5. /\ Failed \in Early /\ owned \in Early /\ To("createService") \in Early /\ To("listServices") \in Early
      /\ To("addService") \in Early /\ To("createSupportGroup") \in Early
      /\ To("listSupportGroups") \in Early /\ To("createInstance") \in Early
  BY <1>3 DEF AlertOwnerSteps, AlertInstanceSteps
<1>6. ASSUME NEW kind \in {"service", "group"}, NEW key, NEW hit \in Early, NEW miss \in Early, NEW err \in Early,
             CallOf(p) = List(Named(kind, key), kind, hit, miss, err)
      PROVE  ReportingInv'
  <2>1. kind \in Kinds /\ kind \in Registers /\ Named(kind, key) \in SUBSET DOMAIN rows[kind]
    BY DEF Kinds, Registers, Named
  <2> HIDE DEF Early
  <2>2. /\ AlertOK(p)' => ReportingInv'
        /\ \/ \E id \in Named(kind, key) : Goes(p, hit, [reg[p] EXCEPT ![kind] = id])
           \/ Goes(p, miss, [reg[p] EXCEPT ![kind] = 0])
           \/ Goes(p, err, reg[p])
    BY <1>6, <2>1, AlertLooks
  <2> QED
    BY <1>4, <1>6, <2>2
<1>7. ASSUME NEW kind \in {"service", "group"}, NEW row, NEW ok \in Early, NEW err \in Early,
             CallOf(p) = Insert(kind, row, TRUE, kind, ok, err)
      PROVE  ReportingInv'
  <2> HIDE DEF Early
  <2>1. /\ AlertOK(p)' => ReportingInv'
        /\ \/ \E id \in Nat : Goes(p, ok, [reg[p] EXCEPT ![kind] = id])
           \/ Goes(p, err, reg[p])
    BY <1>7, AlertCreates
  <2> QED
    BY <1>4, <1>7, <2>1
<1> HIDE DEF Early
<1>8. CASE at[p][2] = "getService"
  <2>1. CallOf(p) = List(Named("service", a.service), "service", owned, To("createService"), Failed)
    BY <1>1, <1>2, <1>3, <1>8 DEF AlertCall, GetOrCreateService
  <2> QED
    BY <1>5, <1>6, <2>1
<1>9. CASE at[p][2] = "createService"
  <2>1. CallOf(p) = Insert("service", Row(a.service, 0), TRUE, "service", owned, To("listServices"))
    BY <1>1, <1>2, <1>3, <1>9 DEF AlertCall, GetOrCreateService
  <2> QED
    BY <1>5, <1>7, <2>1
<1>10. CASE at[p][2] = "listServices"
  <2>1. CallOf(p) = List(Named("service", a.service), "service", owned, Failed, Failed)
    BY <1>1, <1>2, <1>3, <1>10 DEF AlertCall, GetOrCreateService
  <2> QED
    BY <1>5, <1>6, <2>1
<1>11. CASE at[p][2] = "getSupportGroup"
  <2>1. CallOf(p) = List(Named("group", a.group), "group", To("addService"), To("createSupportGroup"), Failed)
    BY <1>1, <1>2, <1>11 DEF AlertCall, GetOrCreateSupportGroup
  <2> QED
    BY <1>5, <1>6, <2>1
<1>12. CASE at[p][2] = "createSupportGroup"
  <2>1. CallOf(p) = Insert("group", Row(a.group, 0), TRUE, "group", To("addService"), To("listSupportGroups"))
    BY <1>1, <1>2, <1>12 DEF AlertCall, GetOrCreateSupportGroup
  <2> QED
    BY <1>5, <1>7, <2>1
<1>13. CASE at[p][2] = "listSupportGroups"
  <2>1. CallOf(p) = List(Named("group", a.group), "group", To("addService"), Failed, Failed)
    BY <1>1, <1>2, <1>13 DEF AlertCall, GetOrCreateSupportGroup
  <2> QED
    BY <1>5, <1>6, <2>1
<1>14. CASE at[p][2] = "addService"
  <2>1. PICK pair : pair = <<reg[p]["group"], reg[p]["service"]>>
    OBVIOUS
  <2>2. CallOf(p) = Relate("link", pair,
                           reg[p]["group"] \in DOMAIN rows["service"] /\ reg[p]["service"] \in DOMAIN rows["group"],
                           To("createInstance"), Failed)
    BY <1>2, <1>14, <2>1 DEF AlertCall
  <2>3. "link" \in {"link", "attach", "match"}
    OBVIOUS
  <2>4. /\ UNCHANGED <<rows, left, item>> /\ Moves(p) /\ Grows
        /\ Goes(p, To("createInstance"), reg[p]) \/ Goes(p, Failed, reg[p])
    BY <2>2, <2>3, Related, Zenon
  <2>5. TablesOK
    BY DEF ReportingInv
  <2>6. TablesOK' /\ OwnersOK'
    BY <2>4, <2>5, TablesKept, OwnersUntouched DEF TablesOK
  <2>7. AlertOK(p)'
    BY <1>4, <1>5, <2>4
  <2> QED
    BY <2>4, <2>6, <2>7, AlertKeeps
<1> QED
  BY <1>8, <1>9, <1>10, <1>11, <1>12, <1>13, <1>14 DEF AlertOwnerSteps

LEMMA AlertInstanceStep ==
  ASSUME ReportingInv, NEW p \in Alerts \cap active, Call(p),
         at[p] = <<"alert", at[p][2]>>, at[p][2] \in AlertInstanceSteps
  PROVE  ReportingInv'
<1>1. PICK a : a = AlertOf[p]
  OBVIOUS
<1>2. CallOf(p) = AlertCall(p)
  BY ProcessesApart DEF CallOf
<1>3. PICK step \in {"createIssue", "listVariants"} :
        To(step) = IF a.url = NoName THEN To("createIssue") ELSE To("listVariants")
  OBVIOUS
<1>4. reg[p] \in [Registers -> Nat] /\ "instance" \in Registers /\ "instance" \in Kinds
  BY DEF ReportingInv, LocalsOK, Registers, Kinds
<1>5. ASSUME NEW r, Goes(p, To(step), r), r["instance"] \in WithCcrn(AlertOf[p].instance)'
      PROVE  AlertOK(p)'
  <2>1. AlertKnows(p, step, r)'
    BY <1>5 DEF AlertKnows, AlertVariantSteps
  <2> QED
    BY <1>5, <2>1, AlertGoesOn DEF AlertSteps, AlertIssueSteps
<1>6. CASE at[p][2] = "listInstances"
  <2>1. CallOf(p) = List(WithCcrn(a.instance), "instance", To(step), Failed, Failed)
    BY <1>1, <1>2, <1>3, <1>6 DEF AlertCall, GetOrCreateComponentInstance
  <2>2. WithCcrn(a.instance) \in SUBSET DOMAIN rows["instance"]
    BY DEF WithCcrn
  <2>3. /\ AlertOK(p)' => ReportingInv'
        /\ rows' = rows
        /\ \/ \E id \in WithCcrn(a.instance) : Goes(p, To(step), [reg[p] EXCEPT !["instance"] = id])
           \/ Goes(p, Failed, [reg[p] EXCEPT !["instance"] = 0])
           \/ Goes(p, Failed, reg[p])
    BY <1>4, <2>1, <2>2, AlertLooks
  <2>4. ASSUME NEW id \in WithCcrn(a.instance), Goes(p, To(step), [reg[p] EXCEPT !["instance"] = id])
        PROVE  AlertOK(p)'
    <3>1. PICK r : r = [reg[p] EXCEPT !["instance"] = id]
      OBVIOUS
    <3>2. r["instance"] = id
      BY <1>4, <3>1
    <3>3. r["instance"] \in WithCcrn(AlertOf[p].instance)'
      BY <1>1, <2>3, <2>4, <3>2 DEF WithCcrn
    <3> QED
      BY <1>5, <2>4, <3>1, <3>3
  <2> QED
    BY <2>3, <2>4, AlertFails
<1>7. CASE at[p][2] = "createInstance"
  <2>1. PICK row : row = Row(<<a.instance, reg[p]["service"]>>, 0)
    OBVIOUS
  <2>2. row.key[1] = a.instance
    BY <2>1 DEF Row
  <2>3. CallOf(p) = Insert("instance", row, TRUE, "instance", To(step), To("listInstances"))
    BY <1>1, <1>2, <1>3, <1>7, <2>1 DEF AlertCall, GetOrCreateComponentInstance
  <2>4. /\ UNCHANGED <<links, matches, left, item>> /\ Moves(p) /\ Grows
        /\ rows' = [k \in Kinds |-> rows'[k]] /\ \A k \in Kinds : IsTable(rows'[k])
        /\ \/ \E id \in Nat :
                /\ Adds("instance", row, id)
                /\ \/ Goes(p, To(step), [reg[p] EXCEPT !["instance"] = id])
                   \/ Goes(p, To("listInstances"), reg[p])
           \/ rows' = rows /\ Goes(p, To("listInstances"), reg[p])
    BY <1>4, <2>3, Inserted, Zenon
  <2>5. rows'["issue"] = rows["issue"] /\ rows'["variant"] = rows["variant"]
    BY <2>4 DEF Adds, Kinds
  <2>6. TablesOK'
    BY <2>4, <2>5, TablesKept
  <2>7. OwnersOK'
    <3>1. \A i \in DOMAIN rows'["instance"] :
            \/ i \in DOMAIN rows["instance"] /\ rows'["instance"][i] = rows["instance"][i]
            \/ rows'["instance"][i].key[1] = a.instance
      BY <2>2, <2>4 DEF Adds
    <3>2. \A c \in DOMAIN InstanceOf : a.instance # InstanceOf[c]
      BY <1>1, AlertsApart
    <3>3. OwnersOK /\ (faults' = 0 => faults = 0)
      BY <2>4 DEF ReportingInv, Moves
    <3> QED
      BY <2>4, <3>1, <3>2, <3>3, OwnersStay
  <2>8. AlertOK(p)' => ReportingInv'
    BY <2>4, <2>5, <2>6, <2>7, AlertKeeps
  <2>9. CASE Goes(p, To("listInstances"), reg[p])
    <3>1. PICK r : r = reg[p]
      OBVIOUS
    <3>2. AlertKnows(p, "listInstances", r)'
      BY DEF AlertKnows, AlertIssueSteps, AlertVariantSteps
    <3> QED
      BY <2>8, <2>9, <3>1, <3>2, AlertGoesOn DEF AlertSteps, AlertInstanceSteps
  <2>10. ASSUME NEW id \in Nat, Adds("instance", row, id), Goes(p, To(step), [reg[p] EXCEPT !["instance"] = id])
         PROVE  AlertOK(p)'
    <3>1. PICK r : r = [reg[p] EXCEPT !["instance"] = id]
      OBVIOUS
    <3>2. r["instance"] = id
      BY <1>4, <3>1
    <3>3. r["instance"] \in WithCcrn(AlertOf[p].instance)'
      BY <1>1, <2>2, <2>10, <3>2 DEF WithCcrn, Adds
    <3> QED
      BY <1>5, <2>10, <3>1, <3>3
  <2> QED
    BY <2>4, <2>8, <2>9, <2>10
<1> QED
  BY <1>6, <1>7 DEF AlertInstanceSteps

LEMMA AlertIssueStep ==
  ASSUME ReportingInv, NEW p \in Alerts \cap active, Call(p),
         at[p] = <<"alert", at[p][2]>>, at[p][2] \in AlertIssueSteps
  PROVE  ReportingInv'
<1>1. PICK a : a = AlertOf[p]
  OBVIOUS
<1>2. CallOf(p) = AlertCall(p)
  BY ProcessesApart DEF CallOf
<1>3. /\ reg[p] \in [Registers -> Nat] /\ TablesOK /\ AlertOK(p)
      /\ "variant" \in Registers \cap Kinds /\ "issue" \in Registers \cap Kinds /\ "instance" \in Registers
  BY DEF ReportingInv, ClientOK, LocalsOK, Registers, Kinds
<1>4. reg[p]["instance"] \in WithCcrn(AlertOf[p].instance)
  BY <1>3 DEF AlertOK
<1>5. ASSUME NEW step \in AlertSteps, NEW r, Goes(p, To(step), r), Grows,
             r["instance"] = reg[p]["instance"],
             step = "getIssue" => /\ Is("variant", r["variant"], AlertOf[p].name)'
                                  /\ rows'["variant"][r["variant"]].ref[2] = AlertOf[p].url,
             step \in AlertVariantSteps => Is("issue", r["issue"], AlertOf[p].name)',
             step = "createIssueMatch" => \E v \in DOMAIN rows'["variant"] : OwnVariant(p, v, r["issue"])'
      PROVE  AlertOK(p)'
  <2>1. r["instance"] \in WithCcrn(AlertOf[p].instance)'
    BY <1>4, <1>5, GrowsCcrn
  <2>2. AlertKnows(p, step, r)'
    BY <1>5, <2>1 DEF AlertKnows
  <2> QED
    BY <1>5, <2>2, AlertGoesOn
<1>6. CASE at[p][2] = "listVariants"
  <2> DEFINE own == {v \in Named("variant", a.name) : rows["variant"][v].ref[2] = a.url}
  <2>1. CallOf(p) = List(own, "variant", To("getIssue"), To("createIssue"), To("createIssue"))
    BY <1>1, <1>2, <1>6 DEF AlertCall, GetOrCreateIssueAndVariant
  <2>2. own \in SUBSET DOMAIN rows["variant"]
    BY DEF Named
  <2>3. \A v \in own : /\ v \in DOMAIN rows["variant"] /\ rows["variant"][v].key = a.name
                       /\ rows["variant"][v].ref[2] = a.url
    BY DEF Named
  <2> HIDE DEF own
  <2>4. /\ AlertOK(p)' => ReportingInv'
        /\ rows' = rows
        /\ \/ \E id \in own : Goes(p, To("getIssue"), [reg[p] EXCEPT !["variant"] = id])
           \/ Goes(p, To("createIssue"), [reg[p] EXCEPT !["variant"] = 0])
           \/ Goes(p, To("createIssue"), reg[p])
    BY <1>3, <2>1, <2>2, AlertLooks
  <2>5. Grows
    BY <1>3, <2>1, <2>2, LookedUp
  <2>6. ASSUME NEW id \in own, Goes(p, To("getIssue"), [reg[p] EXCEPT !["variant"] = id])
        PROVE  AlertOK(p)'
    <3>1. PICK r : r = [reg[p] EXCEPT !["variant"] = id]
      OBVIOUS
    <3>2. r["variant"] = id /\ r["instance"] = reg[p]["instance"]
      BY <1>3, <3>1
    <3>3. /\ Is("variant", r["variant"], AlertOf[p].name)'
          /\ rows'["variant"][r["variant"]].ref[2] = AlertOf[p].url
      BY <1>1, <2>3, <2>4, <2>6, <3>2 DEF Is
    <3> QED
      BY <1>5, <2>5, <2>6, <3>1, <3>2, <3>3 DEF AlertSteps, AlertIssueSteps, AlertVariantSteps
  <2>7. CASE \/ Goes(p, To("createIssue"), [reg[p] EXCEPT !["variant"] = 0])
             \/ Goes(p, To("createIssue"), reg[p])
    <3>1. PICK r \in {reg[p], [reg[p] EXCEPT !["variant"] = 0]} : Goes(p, To("createIssue"), r)
      BY <2>7
    <3>2. r["instance"] = reg[p]["instance"]
      BY <1>3, <3>1
    <3> QED
      BY <1>5, <2>4, <2>5, <3>1, <3>2 DEF AlertSteps, AlertIssueSteps, AlertVariantSteps
  <2> QED
    BY <2>4, <2>6, <2>7
<1>7. CASE at[p][2] = "getIssue"
  <2>1. PICK v : v = reg[p]["variant"]
    OBVIOUS
  <2>2. Is("variant", v, a.name) /\ rows["variant"][v].ref[2] = a.url
    BY <1>1, <1>3, <1>7, <2>1 DEF AlertOK
  <2>3. PICK i : i = rows["variant"][v].ref[1]
    OBVIOUS
  <2>4. i \in DOMAIN rows["issue"]
    BY <1>3, <2>2, <2>3 DEF TablesOK, Is
  <2>5. CallOf(p) = List({i}, "issue", To("createIssueMatch"), Failed, Failed)
    BY <1>2, <1>7, <2>1, <2>3 DEF AlertCall, GetOrCreateIssueAndVariant, AfterKnownVariant, To
  <2>6. {i} \in SUBSET DOMAIN rows["issue"]
    BY <2>4
  <2>7. /\ AlertOK(p)' => ReportingInv'
        /\ rows' = rows
        /\ \/ \E id \in {i} : Goes(p, To("createIssueMatch"), [reg[p] EXCEPT !["issue"] = id])
           \/ Goes(p, Failed, [reg[p] EXCEPT !["issue"] = 0])
           \/ Goes(p, Failed, reg[p])
    BY <1>3, <2>5, <2>6, AlertLooks
  <2>8. Grows
    BY <1>3, <2>5, <2>6, LookedUp
  <2>9. CASE Goes(p, To("createIssueMatch"), [reg[p] EXCEPT !["issue"] = i])
    <3>1. PICK r : r = [reg[p] EXCEPT !["issue"] = i]
      OBVIOUS
    <3>2. r["issue"] = i /\ r["instance"] = reg[p]["instance"]
      BY <1>3, <3>1
    <3>3. OwnVariant(p, v, r["issue"])' /\ v \in DOMAIN rows'["variant"]
      BY <1>1, <2>2, <2>3, <2>7, <3>2 DEF OwnVariant, Is
    <3> QED
      BY <1>5, <2>7, <2>8, <2>9, <3>1, <3>2, <3>3 DEF AlertSteps, AlertVariantSteps
  <2> QED
    BY <2>7, <2>9, AlertFails
<1>8. CASE at[p][2] = "listIssues"
  <2>1. CallOf(p) = List(Named("issue", a.name), "issue", To("getRepository"), Failed, Failed)
    BY <1>1, <1>2, <1>8 DEF AlertCall, GetOrCreateIssueAndVariant
  <2>2. Named("issue", a.name) \in SUBSET DOMAIN rows["issue"]
    BY DEF Named
  <2>3. /\ AlertOK(p)' => ReportingInv'
        /\ rows' = rows
        /\ \/ \E id \in Named("issue", a.name) : Goes(p, To("getRepository"), [reg[p] EXCEPT !["issue"] = id])
           \/ Goes(p, Failed, [reg[p] EXCEPT !["issue"] = 0])
           \/ Goes(p, Failed, reg[p])
    BY <1>3, <2>1, <2>2, AlertLooks
  <2>4. Grows
    BY <1>3, <2>1, <2>2, LookedUp
  <2>5. ASSUME NEW id \in Named("issue", a.name), Goes(p, To("getRepository"), [reg[p] EXCEPT !["issue"] = id])
        PROVE  AlertOK(p)'
    <3>1. PICK r : r = [reg[p] EXCEPT !["issue"] = id]
      OBVIOUS
    <3>2. r["issue"] = id /\ r["instance"] = reg[p]["instance"]
      BY <1>3, <3>1
    <3>3. Is("issue", r["issue"], AlertOf[p].name)'
      BY <1>1, <2>3, <2>5, <3>2 DEF Named, Is
    <3> QED
      BY <1>5, <2>4, <2>5, <3>1, <3>2, <3>3 DEF AlertSteps, AlertVariantSteps
  <2> QED
    BY <2>3, <2>5, AlertFails
<1>9. CASE at[p][2] = "createIssue"
  <2>1. PICK row : row = Row(a.name, p)
    OBVIOUS
  <2>2. CallOf(p) = Insert("issue", row, TRUE, "issue", To("getRepository"), To("listIssues"))
    BY <1>1, <1>2, <1>9, <2>1 DEF AlertCall, GetOrCreateIssueAndVariant
  <2>3. /\ UNCHANGED <<links, matches, left, item>> /\ Moves(p) /\ Grows
        /\ rows' = [k \in Kinds |-> rows'[k]] /\ \A k \in Kinds : IsTable(rows'[k])
        /\ \/ \E id \in Nat :
                /\ Named("issue", row.key) = {} /\ Adds("issue", row, id)
                /\ \/ Goes(p, To("getRepository"), [reg[p] EXCEPT !["issue"] = id])
                   \/ Goes(p, To("listIssues"), reg[p])
           \/ rows' = rows /\ Goes(p, To("listIssues"), reg[p])
    BY <1>3, <2>2, Inserted, Zenon
  <2>4. Goes(p, To("listIssues"), reg[p]) => AlertOK(p)'
    BY <1>5, <2>3 DEF AlertSteps, AlertIssueSteps, AlertVariantSteps
  <2>5. CASE rows' = rows /\ Goes(p, To("listIssues"), reg[p])
    <3>1. TablesOK' /\ OwnersOK'
      BY <2>3, <2>5, TablesKept, OwnersUntouched
    <3> QED
      BY <2>3, <2>4, <2>5, <3>1, AlertKeeps
  <2>6. ASSUME NEW id \in Nat, Named("issue", row.key) = {}, Adds("issue", row, id),
               \/ Goes(p, To("getRepository"), [reg[p] EXCEPT !["issue"] = id])
               \/ Goes(p, To("listIssues"), reg[p])
        PROVE  ReportingInv'
    <3>1. TablesOK'
      BY <2>3, <2>6, IssueAdded
    <3>2. rows'["instance"] = rows["instance"] /\ DOMAIN rows'["issue"] \ DOMAIN rows["issue"] \subseteq {id}
      BY <2>6 DEF Adds, Kinds
    <3>3. OwnersOK'
      BY <2>3, <3>2, OwnersUntouched
    <3>4. Is("issue", id, a.name)' /\ rows'["issue"][id].ref = p
      BY <2>1, <2>6 DEF Is, Adds, Row
    <3>5. ASSUME Goes(p, To("getRepository"), [reg[p] EXCEPT !["issue"] = id])
          PROVE  AlertOK(p)'
      <4>1. PICK r : r = [reg[p] EXCEPT !["issue"] = id]
        OBVIOUS
      <4>2. r["issue"] = id /\ r["instance"] = reg[p]["instance"]
        BY <1>3, <4>1
      <4> QED
        BY <1>1, <1>5, <2>3, <3>4, <3>5, <4>1, <4>2 DEF AlertSteps, AlertVariantSteps
    <3>6. AlertOK(p)'
      BY <2>4, <2>6, <3>5
    <3> QED
      BY <2>3, <3>1, <3>2, <3>3, <3>4, <3>6, AlertKeeps
  <2> QED
    BY <2>3, <2>5, <2>6
<1> QED
  BY <1>6, <1>7, <1>8, <1>9 DEF AlertIssueSteps

LEMMA AlertVariantStep ==
  ASSUME ReportingInv, NEW p \in Alerts \cap active, Call(p),
         at[p] = <<"alert", at[p][2]>>, at[p][2] \in AlertVariantSteps
  PROVE  ReportingInv'
<1>1. PICK a : a = AlertOf[p]
  OBVIOUS
<1>2. CallOf(p) = AlertCall(p)
  BY ProcessesApart DEF CallOf
<1>3. /\ reg[p] \in [Registers -> Nat] /\ AlertOK(p)
      /\ "variant" \in Registers \cap Kinds /\ "repository" \in Registers \cap Kinds
      /\ "issue" \in Registers \cap Kinds /\ "instance" \in Registers
  BY DEF ReportingInv, ClientOK, LocalsOK, Registers, Kinds
<1>4. PICK i, s : i = reg[p]["issue"] /\ s = reg[p]["instance"]
  OBVIOUS
<1>5. s \in WithCcrn(AlertOf[p].instance) /\ Is("issue", i, a.name)
  BY <1>1, <1>3, <1>4 DEF AlertOK
<1>6. ASSUME NEW step \in AlertVariantSteps, NEW r, Goes(p, To(step), r), Grows,
             r["instance"] = s, r["issue"] = i
      PROVE  AlertOK(p)'
  <2>1. s \in WithCcrn(AlertOf[p].instance)' /\ Is("issue", i, AlertOf[p].name)'
    BY <1>1, <1>3, <1>5, <1>6, GrowsCcrn, GrowsIs
  <2>2. AlertKnows(p, step, r)'
    BY <1>6, <2>1 DEF AlertKnows, AlertVariantSteps
  <2> QED
    BY <1>6, <2>2, AlertGoesOn DEF AlertSteps
<1>7. CASE at[p][2] = "getRepository"
  <2>1. CallOf(p) = List(Named("repository", a.source), "repository", To("createVariant"),
                         To("createRepository"), To("createRepository"))
    BY <1>1, <1>2, <1>7 DEF AlertCall, GetOrCreateIssueAndVariant
  <2>2. Named("repository", a.source) \in SUBSET DOMAIN rows["repository"]
    BY DEF Named
  <2>3. /\ AlertOK(p)' => ReportingInv'
        /\ \/ \E id \in Named("repository", a.source) :
                Goes(p, To("createVariant"), [reg[p] EXCEPT !["repository"] = id])
           \/ Goes(p, To("createRepository"), [reg[p] EXCEPT !["repository"] = 0])
           \/ Goes(p, To("createRepository"), reg[p])
    BY <1>3, <2>1, <2>2, AlertLooks
  <2>4. Grows
    BY <1>3, <2>1, <2>2, LookedUp
  <2>5. PICK step \in AlertVariantSteps : \E r :
          Goes(p, To(step), r) /\ (r = reg[p] \/ \E id : r = [reg[p] EXCEPT !["repository"] = id])
    BY <2>3 DEF AlertVariantSteps
  <2>6. PICK r : Goes(p, To(step), r) /\ (r = reg[p] \/ \E id : r = [reg[p] EXCEPT !["repository"] = id])
    BY <2>5
  <2>7. r["instance"] = s /\ r["issue"] = i
    BY <1>3, <1>4, <2>6
  <2> QED
    BY <1>6, <2>3, <2>4, <2>6, <2>7
<1>8. CASE at[p][2] = "createRepository"
  <2>1. CallOf(p) = Insert("repository", Row(a.source, 0), TRUE, "repository", To("createVariant"), Failed)
    BY <1>1, <1>2, <1>8 DEF AlertCall, GetOrCreateIssueAndVariant
  <2>2. /\ AlertOK(p)' => ReportingInv'
        /\ Grows
        /\ \/ \E id \in Nat : Goes(p, To("createVariant"), [reg[p] EXCEPT !["repository"] = id])
           \/ Goes(p, Failed, reg[p])
    BY <2>1, AlertCreates
  <2>3. ASSUME NEW id \in Nat, Goes(p, To("createVariant"), [reg[p] EXCEPT !["repository"] = id])
        PROVE  AlertOK(p)'
    <3>1. PICK r : r = [reg[p] EXCEPT !["repository"] = id]
      OBVIOUS
    <3>2. r["instance"] = s /\ r["issue"] = i
      BY <1>3, <1>4, <3>1
    <3> QED
      BY <1>6, <2>2, <2>3, <3>1, <3>2 DEF AlertVariantSteps
  <2> QED
    BY <2>2, <2>3, AlertFails
<1>9. CASE at[p][2] = "createVariant"
  <2>1. PICK row : row = Row(a.name, <<i, a.url>>)
    OBVIOUS
  <2>2. row.key = a.name /\ row.ref[1] = i /\ row.ref[2] = a.url
    BY <2>1 DEF Row
  <2>3. CallOf(p) = Insert("variant", row, TRUE, "variant", To("createIssueMatch"), Failed)
    BY <1>1, <1>2, <1>4, <1>9, <2>1 DEF AlertCall, GetOrCreateIssueAndVariant
  <2>4. /\ UNCHANGED <<links, matches, left, item>> /\ Moves(p) /\ Grows
        /\ rows' = [k \in Kinds |-> rows'[k]] /\ \A k \in Kinds : IsTable(rows'[k])
        /\ \/ \E id \in Nat :
                /\ Adds("variant", row, id)
                /\ \/ Goes(p, To("createIssueMatch"), [reg[p] EXCEPT !["variant"] = id])
                   \/ Goes(p, Failed, reg[p])
           \/ rows' = rows /\ Goes(p, Failed, reg[p])
    BY <1>3, <2>3, Inserted, Zenon
  <2>5. rows'["instance"] = rows["instance"] /\ rows'["issue"] = rows["issue"]
    BY <2>4 DEF Adds, Kinds
  <2>6. OwnersOK'
    BY <2>4, <2>5, OwnersUntouched
  <2>7. CASE rows' = rows /\ Goes(p, Failed, reg[p])
    <3>1. TablesOK'
      BY <2>4, <2>7, TablesKept
    <3> QED
      BY <2>4, <2>5, <2>6, <2>7, <3>1, AlertFails, AlertKeeps
  <2>8. ASSUME NEW id \in Nat, Adds("variant", row, id),
               \/ Goes(p, To("createIssueMatch"), [reg[p] EXCEPT !["variant"] = id])
               \/ Goes(p, Failed, reg[p])
        PROVE  ReportingInv'
    <3>1. TablesOK'
      BY <1>5, <2>2, <2>4, <2>8, VariantAdded
    <3>2. ASSUME Goes(p, To("createIssueMatch"), [reg[p] EXCEPT !["variant"] = id])
          PROVE  AlertOK(p)'
      <4>1. PICK r : r = [reg[p] EXCEPT !["variant"] = id]
        OBVIOUS
      <4>2. r["instance"] = s /\ r["issue"] = i
        BY <1>3, <1>4, <4>1
      <4>3. id \in DOMAIN rows'["variant"] /\ OwnVariant(p, id, i)'
        BY <1>1, <2>2, <2>8 DEF OwnVariant, Is, Adds
      <4>4. s \in WithCcrn(AlertOf[p].instance)'
        BY <1>5, <2>4, GrowsCcrn
      <4>5. AlertKnows(p, "createIssueMatch", r)'
        BY <4>2, <4>3, <4>4 DEF AlertKnows, AlertVariantSteps
      <4> QED
        BY <3>2, <4>1, <4>5, AlertGoesOn DEF AlertSteps
    <3>3. AlertOK(p)'
      BY <2>8, <3>2, AlertFails
    <3> QED
      BY <2>4, <2>5, <2>6, <3>1, <3>3, AlertKeeps
  <2> QED
    BY <2>4, <2>7, <2>8
<1> QED
  BY <1>7, <1>8, <1>9 DEF AlertVariantSteps

LEMMA AlertMatchStep ==
  ASSUME ReportingInv, NEW p \in Alerts \cap active, Call(p), at[p] = <<"alert", "createIssueMatch">>
  PROVE  ReportingInv'
<1>1. PICK i, s : i = reg[p]["issue"] /\ s = reg[p]["instance"]
  OBVIOUS
<1>2. AlertOK(p) /\ TablesOK
  BY DEF ReportingInv, ClientOK
<1>3. s \in WithCcrn(AlertOf[p].instance) /\ \E v \in DOMAIN rows["variant"] : OwnVariant(p, v, i)
  BY <1>1, <1>2 DEF AlertOK
<1>4. PICK v \in DOMAIN rows["variant"] : OwnVariant(p, v, i)
  BY <1>3
<1>5. PICK pair : pair = <<s, i>>
  OBVIOUS
<1>6. CallOf(p) = Relate("match", pair, HasVariant(i), Done, Failed)
  <2>1. CallOf(p) = AlertCall(p)
    BY ProcessesApart DEF CallOf
  <2> QED
    BY <1>1, <1>5, <2>1 DEF AlertCall, CreateIssueMatchIfCI
<1>7. "match" \in {"link", "attach", "match"}
  OBVIOUS
<1>8. /\ UNCHANGED <<rows, left, item>> /\ Moves(p) /\ Grows
      /\ \/ Goes(p, Done, reg[p]) /\ matches' = matches \cup {pair}
         \/ Goes(p, Failed, reg[p])
  BY <1>6, <1>7, Related, Zenon
<1>9. TablesOK' /\ OwnersOK'
  BY <1>2, <1>8, TablesKept, OwnersUntouched DEF TablesOK
<1>10. ASSUME Goes(p, Done, reg[p]), matches' = matches \cup {pair}
       PROVE  AlertOK(p)'
  <2>1. at'[p] = Done /\ at'[p][2] = "done"
    BY <1>10 DEF Goes, Done
  <2>2. pair \in matches' /\ pair[1] = s /\ pair[2] = i
    BY <1>5, <1>10
  <2>3. s \in WithCcrn(AlertOf[p].instance)' /\ v \in DOMAIN rows'["variant"] /\ OwnVariant(p, v, i)'
    BY <1>3, <1>4, <1>8, GrowsCcrn, GrowsVariant
  <2>4. \E m \in matches' : /\ m[1] \in WithCcrn(AlertOf[p].instance)'
                            /\ \E u \in DOMAIN rows'["variant"] : OwnVariant(p, u, m[2])'
    BY <2>2, <2>3
  <2> QED
    BY <2>1, <2>4 DEF AlertOK, Ends, AlertIssueSteps, AlertVariantSteps
<1>11. AlertOK(p)'
  BY <1>8, <1>10, AlertFails
<1> QED
  BY <1>8, <1>9, <1>11, AlertKeeps

LEMMA AlertStep ==
  ASSUME ReportingInv, NEW p \in Alerts \cap active, Calling(p), Call(p)
  PROVE  ReportingInv'
<1>1. AlertOK(p)
  BY DEF ReportingInv, ClientOK
<1>2. at[p] = <<"alert", at[p][2]>> /\ at[p][2] \in AlertSteps
  BY <1>1 DEF AlertOK, Calling, Ends, Idle, Done, Failed, AlertSteps
<1> QED
  BY <1>2, AlertOwnerStep, AlertInstanceStep, AlertIssueStep, AlertVariantStep, AlertMatchStep DEF AlertSteps

-----------------------------------------------------------------------------
(* The steps between the calls.                                            *)

LEMMA Moved ==
  ASSUME ReportingInv, NEW p \in active, NEW next, NEW r \in [Registers -> Nat],
         at' = [at EXCEPT ![p] = next], reg' = [reg EXCEPT ![p] = r], active' = active,
         faults' \in {faults, faults + 1}
  PROVE  Moves(p) /\ at'[p] = next /\ reg'[p] = r
<1>1. at = [q \in active |-> at[q]] /\ reg \in [active -> [Registers -> Nat]] /\ faults \in Nat
  BY DEF ReportingInv, LocalsOK
<1>2. faults' \in Nat /\ (faults' = 0 => faults = 0)
  BY <1>1
<1> QED
  BY <1>1, <1>2 DEF Moves

\* p changes nothing but its place and its local variables.
LEMMA LocalStep ==
  ASSUME ReportingInv, NEW p \in active, Moves(p), UNCHANGED database,
         left' = [q \in active |-> left'[q]], item' = [q \in active |-> item'[q]],
         \A q \in active \ {p} : left'[q] = left[q] /\ item'[q] = item[q],
         p = Keppel /\ faults' = 0 =>
           (at'[Keppel] = at[Keppel] \/ \A w \in Workers \cap active : Ended(w)),
         p \in Workers \cup {Nvd} => at[p][2] # "createIssueVariant",
         Grows => ClientOK(p)'
  PROVE  ReportingInv'
<1>1. rows' = rows /\ links' = links /\ matches' = matches
  BY DEF database
<1>2. Grows
  BY <1>1 DEF Grows, RunsImage, WithCcrn, Is
<1>3. TablesOK
  BY DEF ReportingInv
<1>4. TablesOK' /\ OwnersOK'
  BY <1>1, <1>2, <1>3, TablesKept, OwnersUntouched DEF TablesOK
<1>5. VariantFollowsIssue'
  BY <1>1, <1>2, VariantsStay
<1> QED
  BY <1>2, <1>4, <1>5, StepKeeps

LEMMA NextContainerStep ==
  ASSUME ReportingInv, NEW p \in Goroutines \cap active, NextContainer(p)
  PROVE  ReportingInv'
<1> DEFINE all == ContainersOf[GroupOf[p]]
<1>1. K8sOK(p) /\ reg[p] \in [Registers -> Nat]
  BY DEF ReportingInv, ClientOK, LocalsOK
<1>2. /\ p \notin Workers \cup Alerts \cup {Keppel, Nvd} /\ all \subseteq DOMAIN InstanceOf
      /\ left = [q \in active |-> left[q]] /\ item = [q \in active |-> item[q]]
  BY ProcessesApart, ReportingAssumption DEF ReportingInv, LocalsOK
<1>3. at[p] \in {<<"group", "first">>, <<"group", "next">>} /\ at[p][1] = "group"
  BY DEF NextContainer
<1>4. /\ left[p] \subseteq all /\ \A c \in all \ left[p] : RunsImage(c)
  BY <1>1, <1>3 DEF K8sOK, Entered
<1>5. NoRegisters \in [Registers -> Nat] /\ "pod" \in Registers /\ "service" \in Registers
  BY DEF NoRegisters, Registers
<1>6. UNCHANGED <<database, faults, active>>
  BY DEF NextContainer
<1>7. ASSUME NEW c \in left[p],
             item' = [item EXCEPT ![p] = c], left' = [left EXCEPT ![p] = @ \ {c}],
             reg' = [reg EXCEPT ![p] = [NoRegisters EXCEPT !["pod"] = PodService(p)]],
             at' = [at EXCEPT ![p] = IF SideCar[c] = NoName THEN <<"container", "getComponent">>
                                     ELSE <<"sidecar", "getService">>]
      PROVE  ReportingInv'
  <2>1. PICK next, pod, r :
          /\ next = IF SideCar[c] = NoName THEN <<"container", "getComponent">> ELSE <<"sidecar", "getService">>
          /\ pod = PodService(p) /\ r = [NoRegisters EXCEPT !["pod"] = pod]
    OBVIOUS
  <2>2. pod \in Nat
    BY <1>1, <1>5, <2>1 DEF PodService
  <2>3. r \in [Registers -> Nat] /\ r["pod"] = pod
    BY <1>5, <2>1, <2>2
  <2>4. Moves(p) /\ at'[p] = next /\ reg'[p] = r
    BY <1>6, <1>7, <2>1, <2>3, Moved
  <2>5. /\ left' = [q \in active |-> left'[q]] /\ item' = [q \in active |-> item'[q]]
        /\ \A q \in active \ {p} : left'[q] = left[q] /\ item'[q] = item[q]
        /\ left'[p] = left[p] \ {c} /\ item'[p] = c
    BY <1>2, <1>7
  <2>6. faults = 0 => pod = 0 \/ Linked(pod, PodOwner(p))
    BY <1>1, <1>3, <2>1 DEF K8sOK, OwnerKnown, PodService
  <2>7. ASSUME Grows PROVE K8sOK(p)'
    <3>1. ServiceKnown(p)' /\ ImageKnown(p)'
      BY <2>1, <2>4 DEF ServiceKnown, ImageKnown, InContainer
    <3>2. faults = 0 => pod = 0 \/ Linked(pod, PodOwner(p))'
      BY <2>6, <2>7, GrowsLinked DEF PodOwner
    <3>3. OwnerKnown(p)'
      BY <1>6, <2>1, <2>3, <2>4, <3>2 DEF OwnerKnown, InContainer, PodOwner
    <3>4. \A d \in all \ left[p] : RunsImage(d)'
      BY <1>2, <1>4, <2>7 DEF Grows
    <3>5. Entered(p)'
      BY <1>4, <1>7, <2>1, <2>4, <2>5, <3>4 DEF Entered, InContainer, Done
    <3>6. at'[p] \in {"service", "sidecar"} \X ServiceSteps \/ at'[p] \in InContainer \X ContainerSteps
      BY <2>1, <2>4 DEF ServiceSteps, ContainerSteps, InContainer
    <3> QED
      BY <3>1, <3>3, <3>5, <3>6 DEF K8sOK
  <2> QED
    BY <1>2, <1>6, <2>4, <2>5, <2>7, LocalStep DEF ClientOK
<1>8. ASSUME left[p] = {}, at' = [at EXCEPT ![p] = Done], reg' = [reg EXCEPT ![p] = NoRegisters],
             UNCHANGED <<item, left>>
      PROVE  ReportingInv'
  <2>1. Moves(p) /\ at'[p] = Done /\ reg'[p] = NoRegisters
    BY <1>5, <1>6, <1>8, Moved
  <2>2. ASSUME Grows PROVE K8sOK(p)'
    <3>1. ServiceKnown(p)' /\ ImageKnown(p)' /\ OwnerKnown(p)'
      BY <2>1 DEF ServiceKnown, ImageKnown, OwnerKnown, InContainer, Done
    <3>2. \A d \in all : RunsImage(d)'
      BY <1>2, <1>4, <1>8, <2>2 DEF Grows
    <3>3. Entered(p)'
      BY <1>4, <1>8, <2>1, <3>2 DEF Entered, InContainer, Done
    <3> QED
      BY <2>1, <3>1, <3>3 DEF K8sOK, Ends
  <2> QED
    BY <1>2, <1>6, <1>8, <2>1, <2>2, LocalStep DEF ClientOK
<1> QED
  BY <1>7, <1>8 DEF NextContainer

\* Without a fault, a worker is under way only while Keppel waits for it.
LEMMA WorkersEnded ==
  ASSUME ReportingInv, faults = 0, at[Keppel] # <<"main", "wait">>, NEW w \in Workers \cap active
  PROVE  Ended(w)
  BY DEF ReportingInv, ClientOK, WorkerOK

LEMMA WorkerLocalStep ==
  ASSUME ReportingInv, NEW w \in Workers \cap active,
         TakeComponent(w) \/ HandleImageManifests(w) \/ NextVulnerability(w)
  PROVE  ReportingInv'
<1>1. WorkerOK(w) /\ reg[w] \in [Registers -> Nat]
  BY DEF ReportingInv, ClientOK, LocalsOK
<1>2. /\ w \notin Goroutines \cup Alerts \cup {Keppel, Nvd} /\ Keppel \in active
      /\ left = [q \in active |-> left[q]] /\ item = [q \in active |-> item[q]]
      /\ at = [q \in active |-> at[q]] /\ reg = [q \in active |-> reg[q]]
  BY ProcessesApart DEF ReportingInv, LocalsOK
<1>3. at[w][2] # "createIssueVariant" /\ (faults = 0 => at[Keppel] = <<"main", "wait">>)
  <2>1. CASE TakeComponent(w)
    BY <1>1, <2>1 DEF WorkerOK, TakeComponent, Ended, Ends, Idle, Done, Failed
  <2>2. CASE HandleImageManifests(w) \/ NextVulnerability(w)
    BY <1>1, <2>2 DEF WorkerOK, HandleImageManifests, NextVulnerability, Ended
  <2> QED
    BY <2>1, <2>2
<1>4. NoRegisters \in [Registers -> Nat]
  BY DEF NoRegisters
<1>5. PICK next, r : at' = [at EXCEPT ![w] = next] /\ reg' = [reg EXCEPT ![w] = r]
                     /\ next \in {Idle, <<"component", "next">>, <<"report", "next">>, <<"report", "getIssue">>}
                     /\ r \in {reg[w], NoRegisters}
  <2>1. reg = [reg EXCEPT ![w] = reg[w]] /\ at = [at EXCEPT ![w] = at[w]]
    BY <1>2
  <2>2. CASE TakeComponent(w)
    BY <2>1, <2>2 DEF TakeComponent
  <2>3. CASE HandleImageManifests(w)
    BY <2>1, <2>3 DEF HandleImageManifests
  <2>4. CASE NextVulnerability(w)
    BY <2>1, <2>4 DEF NextVulnerability
  <2> QED
    BY <2>2, <2>3, <2>4
<1>6. /\ left' = [q \in active |-> left'[q]] /\ item' = [q \in active |-> item'[q]]
      /\ \A q \in active \ {w} : left'[q] = left[q] /\ item'[q] = item[q]
      /\ UNCHANGED <<active, database>> /\ faults' \in {faults, faults + 1}
  <2>1. CASE TakeComponent(w)
    BY <1>2, <2>1 DEF TakeComponent
  <2>2. CASE HandleImageManifests(w)
    BY <1>2, <2>2 DEF HandleImageManifests
  <2>3. CASE NextVulnerability(w)
    BY <1>2, <2>3 DEF NextVulnerability
  <2> QED
    BY <2>1, <2>2, <2>3
<1>7. Moves(w) /\ at'[w] = next /\ at'[Keppel] = at[Keppel] /\ (faults' = 0 => faults = 0) /\ active' = active
  <2>1. Moves(w) /\ at'[w] = next
    BY <1>1, <1>4, <1>5, <1>6, Moved
  <2> QED
    BY <1>2, <2>1 DEF Moves
<1>8. IssueKnown(w)'
  BY <1>5, <1>7 DEF IssueKnown, Idle
<1>9. WorkerOK(w)'
  <2>1. at'[w] \in Ends \cup {<<"component", "next">>}
                   \cup ({"report"} \X {"next", "getIssue", "createIssue", "createIssueVariant", "attach"})
    BY <1>5, <1>7 DEF Ends
  <2>2. faults' = 0 => Keppel \in active' /\ at'[Keppel] = <<"main", "wait">>
    BY <1>2, <1>3, <1>7
  <2> QED
    BY <1>8, <2>1, <2>2 DEF WorkerOK
<1> QED
  BY <1>2, <1>3, <1>6, <1>7, <1>9, LocalStep DEF ClientOK

LEMMA KeppelLocalStep ==
  ASSUME ReportingInv, Keppel \in active, GetAllComponents \/ KeppelDone
  PROVE  ReportingInv'
<1>1. KeppelOK /\ reg[Keppel] \in [Registers -> Nat]
  BY DEF ReportingInv, ClientOK, LocalsOK
<1>2. /\ Keppel \notin Goroutines \cup Alerts \cup Workers \cup {Nvd}
      /\ left = [q \in active |-> left[q]] /\ item = [q \in active |-> item[q]]
      /\ reg = [q \in active |-> reg[q]]
  BY ProcessesApart DEF ReportingInv, LocalsOK
<1>3. PICK next \in {<<"main", "wait">>, Done} : at' = [at EXCEPT ![Keppel] = next]
  BY DEF GetAllComponents, KeppelDone
<1>4. UNCHANGED <<active, database, reg, left, item, faults>> /\ at[Keppel][1] = "main"
  <2>1. CASE GetAllComponents
    BY <2>1 DEF GetAllComponents
  <2>2. CASE KeppelDone
    BY <2>2 DEF KeppelDone, local
  <2> QED
    BY <2>1, <2>2
<1>5. reg' = [reg EXCEPT ![Keppel] = reg[Keppel]]
  BY <1>2, <1>4
<1>6. PICK r : r = reg[Keppel]
  OBVIOUS
<1>7. Moves(Keppel) /\ at'[Keppel] = next /\ reg'[Keppel] = r
  BY <1>1, <1>3, <1>4, <1>5, <1>6, Moved
<1>8. KeppelOK'
  BY <1>1, <1>3, <1>4, <1>6, <1>7 DEF KeppelOK, Ends, Done
<1>9. faults' = 0 => \A w \in Workers \cap active : Ended(w)
  <2>1. CASE GetAllComponents
    BY <1>4, <2>1, WorkersEnded DEF GetAllComponents
  <2>2. CASE KeppelDone
    BY <2>2 DEF KeppelDone
  <2> QED
    BY <2>1, <2>2
<1> QED
  BY <1>2, <1>4, <1>7, <1>8, <1>9, LocalStep DEF ClientOK

LEMMA NextCveStep ==
  ASSUME ReportingInv, Nvd \in active, NextCve
  PROVE  ReportingInv'
<1>1. NvdOK /\ reg[Nvd] \in [Registers -> Nat]
  BY DEF ReportingInv, ClientOK, LocalsOK
<1>2. /\ Nvd \notin Goroutines \cup Alerts \cup Workers \cup {Keppel}
      /\ left = [q \in active |-> left[q]] /\ item = [q \in active |-> item[q]]
  BY ProcessesApart DEF ReportingInv, LocalsOK
<1>3. PICK next \in {<<"process", "createIssue">>, Done} : at' = [at EXCEPT ![Nvd] = next]
  BY DEF NextCve
<1>4. /\ left' = [q \in active |-> left'[q]] /\ item' = [q \in active |-> item'[q]]
      /\ \A q \in active \ {Nvd} : left'[q] = left[q] /\ item'[q] = item[q]
      /\ UNCHANGED <<active, database, faults>> /\ at[Nvd] = <<"main", "next">>
  BY <1>2 DEF NextCve
<1>5. PICK n, r : n = reg[Nvd]["repository"] /\ r = [NoRegisters EXCEPT !["repository"] = n]
  OBVIOUS
<1>6. r \in [Registers -> Nat] /\ r["repository"] = n
  BY <1>1, <1>5 DEF NoRegisters, Registers
<1>7. reg' = [reg EXCEPT ![Nvd] = r]
  BY <1>5 DEF NextCve
<1>8. Moves(Nvd) /\ at'[Nvd] = next /\ reg'[Nvd] = r
  BY <1>3, <1>4, <1>6, <1>7, Moved
<1>9. faults = 0 => n # 0
  BY <1>1, <1>4, <1>5 DEF NvdOK
<1>10. IssueKnown(Nvd)'
  BY <1>3, <1>8 DEF IssueKnown, Done
<1>11. NvdOK'
  BY <1>3, <1>4, <1>6, <1>8, <1>9, <1>10 DEF NvdOK, Ends, Done
<1> QED
  BY <1>2, <1>4, <1>8, <1>11, LocalStep DEF ClientOK

LEMMA StartStep ==
  ASSUME ReportingInv, NEW p \in active, Start(p)
  PROVE  ReportingInv'
<1>1. NoRegisters \in [Registers -> Nat] /\ NoRegisters["pod"] = 0
  BY DEF NoRegisters, Registers
<1>2. /\ left = [q \in active |-> left[q]] /\ item = [q \in active |-> item[q]]
      /\ p \in Processes \ Workers /\ at[p][1] = "end"
  BY DEF ReportingInv, LocalsOK, Start, Ended
<1>3. PICK next, all :
        /\ at' = [at EXCEPT ![p] = next] /\ left' = [left EXCEPT ![p] = all]
        /\ p \in Goroutines => next = <<"service", "getService">> /\ all = ContainersOf[GroupOf[p]]
        /\ p \in Alerts => next = To("getService")
        /\ p \in {Keppel, Nvd} => next = <<"setup", "getRepository">>
  <2>1. PICK all : left' = [left EXCEPT ![p] = all] /\ (p \in Goroutines => all = ContainersOf[GroupOf[p]])
    <3>1. CASE p \in Goroutines
      BY <3>1, ProcessesApart DEF Start
    <3>2. CASE p \notin Goroutines
      BY <3>2 DEF Start
    <3> QED
      BY <3>1, <3>2
  <2>2. CASE p \in Goroutines
    BY <2>1, <2>2, ProcessesApart DEF Start
  <2>3. CASE p \in Alerts
    BY <2>1, <2>3, ProcessesApart DEF Start, To
  <2>4. CASE p \in {Keppel, Nvd}
    BY <2>1, <2>4, ProcessesApart DEF Start
  <2> QED
    BY <1>2, <2>2, <2>3, <2>4 DEF Processes
<1>4. /\ left' = [q \in active |-> left'[q]] /\ item' = [q \in active |-> item'[q]]
      /\ \A q \in active \ {p} : left'[q] = left[q] /\ item'[q] = item[q]
      /\ left'[p] = all
      /\ UNCHANGED <<active, database, faults>>
  <2>1. item' = [item EXCEPT ![p] = NoName] /\ UNCHANGED <<active, database, faults>>
    BY DEF Start
  <2> QED
    BY <1>2, <1>3, <2>1
<1>5. Moves(p) /\ at'[p] = next /\ reg'[p] = NoRegisters
  <2>1. reg' = [reg EXCEPT ![p] = NoRegisters]
    BY DEF Start
  <2> QED
    BY <1>1, <1>3, <1>4, <2>1, Moved
<1>6. ClientOK(p)'
  <2>1. CASE p \in Goroutines
    <3>1. next = <<"service", "getService">> /\ all = ContainersOf[GroupOf[p]]
      BY <1>3, <2>1
    <3>2. ServiceKnown(p)' /\ ImageKnown(p)'
      BY <1>5, <3>1 DEF ServiceKnown, ImageKnown, InContainer
    <3>3. OwnerKnown(p)'
      BY <1>1, <1>5, <3>1 DEF OwnerKnown, InContainer
    <3>4. Entered(p)'
      BY <1>4, <1>5, <3>1 DEF Entered, InContainer, Done
    <3>5. at'[p] \in {"service", "sidecar"} \X ServiceSteps
      BY <1>5, <3>1 DEF ServiceSteps
    <3>6. K8sOK(p)'
      BY <3>2, <3>3, <3>4, <3>5 DEF K8sOK
    <3> QED
      BY <2>1, <3>6, ProcessesApart DEF ClientOK
  <2>2. CASE p \in Alerts
    <3>1. at'[p] = To("getService")
      BY <1>3, <1>5, <2>2
    <3>2. AlertKnows(p, "getService", NoRegisters)'
      BY DEF AlertKnows, AlertIssueSteps, AlertVariantSteps
    <3>3. Goes(p, To("getService"), NoRegisters)
      BY <1>5, <3>1 DEF Goes
    <3>4. AlertOK(p)'
      BY <3>2, <3>3, AlertGoesOn DEF AlertSteps, AlertOwnerSteps
    <3> QED
      BY <2>2, <3>4, ProcessesApart DEF ClientOK
  <2>3. CASE p = Keppel
    <3>1. at'[p] = <<"setup", "getRepository">>
      BY <1>3, <1>5, <2>3
    <3> QED
      BY <2>3, <3>1, ProcessesApart DEF ClientOK, KeppelOK
  <2>4. CASE p = Nvd
    <3>1. at'[p] = <<"setup", "getRepository">>
      BY <1>3, <1>5, <2>4
    <3> QED
      BY <2>4, <3>1, ProcessesApart DEF ClientOK, NvdOK, IssueKnown
  <2> QED
    BY <1>2, <2>1, <2>2, <2>3, <2>4 DEF Processes
<1>7. p = Keppel /\ faults' = 0 => \A w \in Workers \cap active : Ended(w)
  BY <1>2, <1>4, WorkersEnded
<1>8. p = Nvd => at[p][2] # "createIssueVariant"
  BY <1>2 DEF ReportingInv, ClientOK, NvdOK, Ends, Idle, Done, Failed
<1> QED
  BY <1>2, <1>4, <1>5, <1>6, <1>7, <1>8, LocalStep

LEMMA CrashStep ==
  ASSUME ReportingInv, NEW p \in active, Crash(p)
  PROVE  ReportingInv'
<1>1. LocalsOK /\ TablesOK
  BY DEF ReportingInv
<1>2. PICK stopped : stopped = {p} \cup (IF p = Keppel THEN DOMAIN versions ELSE {})
  OBVIOUS
<1>3. /\ at' = [q \in active |-> IF q \in stopped THEN Failed ELSE at[q]]
      /\ reg' = [q \in active |-> IF q \in stopped THEN NoRegisters ELSE reg[q]]
      /\ left' = [q \in active |-> IF q \in stopped THEN {} ELSE left[q]]
      /\ item' = [q \in active |-> IF q \in stopped THEN NoName ELSE item[q]]
      /\ faults' = faults + 1
      /\ active' = active /\ rows' = rows /\ links' = links /\ matches' = matches
  BY <1>2 DEF Crash, database
<1>4. faults' \in Nat /\ faults' # 0
  BY <1>1, <1>3 DEF LocalsOK
<1>5. NoRegisters \in [Registers -> Nat]
  BY DEF NoRegisters
<1>6. LocalsOK'
  BY <1>1, <1>3, <1>4, <1>5 DEF LocalsOK
<1>7. Grows
  BY <1>3 DEF Grows, RunsImage, WithCcrn, Is
<1>8. TablesOK'
  BY <1>1, <1>3, <1>7, TablesKept DEF TablesOK
<1>9. OwnersOK' /\ VariantFollowsIssue'
  BY <1>4 DEF OwnersOK, VariantFollowsIssue
<1>10. ASSUME NEW q \in active PROVE ClientOK(q)'
  <2>1. CASE q \in stopped
    <3>1. at'[q] = <<"end", "failed">> /\ left'[q] = {}
      BY <1>3, <2>1 DEF Failed
    <3>2. K8sOK(q)'
      BY <3>1 DEF K8sOK, ServiceKnown, ImageKnown, OwnerKnown, Entered, InContainer, Ends, Failed, Done
    <3>3. IssueKnown(q)'
      BY <3>1 DEF IssueKnown
    <3>4. WorkerOK(q)'
      BY <1>4, <3>1, <3>3 DEF WorkerOK, Ends, Failed
    <3>5. AlertOK(q)'
      BY <3>1 DEF AlertOK, Ends, Failed, Done, AlertIssueSteps, AlertVariantSteps
    <3>6. q = Keppel => KeppelOK'
      BY <1>4, <3>1 DEF KeppelOK, Ends, Failed
    <3>7. q = Nvd => NvdOK'
      BY <1>4, <3>1, <3>3 DEF NvdOK, Ends, Failed
    <3> QED
      BY <3>2, <3>4, <3>5, <3>6, <3>7 DEF ClientOK
  <2>2. CASE q \notin stopped
    <3>1. at'[q] = at[q] /\ reg'[q] = reg[q] /\ left'[q] = left[q] /\ item'[q] = item[q]
      BY <1>3, <2>2
    <3>2. ClientOK(q)
      BY DEF ReportingInv
    <3>3. q \in Goroutines => K8sOK(q)'
      BY <1>4, <1>7, <3>1, <3>2, K8sStays DEF ClientOK
    <3>4. q \in Alerts => AlertOK(q)'
      BY <1>7, <3>1, <3>2, AlertStays DEF ClientOK
    <3>5. IssueKnown(q) => IssueKnown(q)'
      BY <1>3, <3>1 DEF IssueKnown, Is
    <3>6. q \in Workers => WorkerOK(q)'
      BY <1>4, <3>1, <3>2, <3>5 DEF ClientOK, WorkerOK
    <3>7. q = Keppel => KeppelOK'
      BY <1>4, <3>1, <3>2 DEF ClientOK, KeppelOK
    <3>8. q = Nvd => NvdOK'
      BY <1>4, <3>1, <3>2, <3>5 DEF ClientOK, NvdOK
    <3> QED
      BY <3>3, <3>4, <3>6, <3>7, <3>8 DEF ClientOK
  <2> QED
    BY <2>1, <2>2
<1> QED
  BY <1>3, <1>6, <1>8, <1>9, <1>10 DEF ReportingInv

-----------------------------------------------------------------------------
(* The invariant.                                                          *)

LEMMA ReportingInit == Init => ReportingInv
<1> SUFFICES ASSUME Init PROVE ReportingInv
  OBVIOUS
<1>1. PICK s \in Scenes : active = s.active /\ limit = s.limit /\ rows = s.rows
  BY DEF Init
<1>2. /\ rows["instance"] = <<>> /\ rows["issue"] = <<>> /\ rows["variant"] = <<>>
      /\ rows = [k \in Kinds |-> rows[k]] /\ \A k \in Kinds : IsTable(rows[k])
      /\ active \subseteq Processes /\ (Workers \cap active # {} => Keppel \in active)
  BY <1>1, ScenesAssumption DEF IsTable
<1>3. at = [p \in active |-> Idle] /\ reg = [p \in active |-> NoRegisters] /\ faults = 0
      /\ left = [p \in active |-> {}] /\ item = [p \in active |-> NoName]
  BY DEF Init
<1>4. DOMAIN rows["instance"] = {} /\ DOMAIN rows["issue"] = {} /\ DOMAIN rows["variant"] = {}
  BY <1>2
<1>5. NoRegisters \in [Registers -> Nat]
  BY DEF NoRegisters
<1>6. LocalsOK
  BY <1>2, <1>3, <1>5 DEF LocalsOK
<1>7. DOMAIN rows = Kinds
  BY <1>2
<1>8. TablesOK
  BY <1>2, <1>4, <1>7 DEF TablesOK
<1>9. OwnersOK /\ VariantFollowsIssue
  BY <1>4 DEF OwnersOK, WithCcrn, VariantFollowsIssue
<1>10. ASSUME NEW q \in active PROVE ClientOK(q)
  <2>1. at[q] = <<"end", "idle">> /\ left[q] = {}
    BY <1>3 DEF Idle
  <2>2. K8sOK(q)
    BY <2>1 DEF K8sOK, ServiceKnown, ImageKnown, OwnerKnown, Entered, InContainer, Ends, Idle, Done
  <2>3. IssueKnown(q)
    BY <2>1 DEF IssueKnown
  <2>4. WorkerOK(q)
    BY <2>1, <2>3 DEF WorkerOK, Ends, Ended, Idle
  <2>5. AlertOK(q)
    BY <2>1 DEF AlertOK, Ends, Idle, Done, AlertIssueSteps, AlertVariantSteps
  <2>6. q = Keppel => KeppelOK
    BY <2>1 DEF KeppelOK, Ends, Idle
  <2>7. q = Nvd => NvdOK
    BY <2>1, <2>3 DEF NvdOK, Ends, Idle
  <2> QED
    BY <2>2, <2>4, <2>5, <2>6, <2>7 DEF ClientOK
<1> QED
  BY <1>6, <1>8, <1>9, <1>10 DEF ReportingInv

LEMMA GoroutineCallStep ==
  ASSUME ReportingInv, NEW p \in Goroutines \cap active, Calling(p), Call(p)
  PROVE  ReportingInv'
<1>1. K8sOK(p)
  BY DEF ReportingInv, ClientOK
<1>2. at[p][1] \in {"service", "sidecar"} \cup InContainer
  BY <1>1 DEF K8sOK, Calling, Ends, Idle, Done, Failed, InContainer
<1> QED
  BY <1>2, ServiceStep, ContainerStep

LEMMA CallStep ==
  ASSUME ReportingInv, NEW p \in active, Call(p)
  PROVE  ReportingInv'
<1>1. Calling(p)
  BY DEF Call, Answer, Fault, LostAnswer
<1>2. p \in Processes
  BY DEF ReportingInv, LocalsOK
<1>3. CASE p \in Goroutines
  BY <1>1, <1>3, GoroutineCallStep
<1>4. CASE p \in Workers
  BY <1>1, <1>4, WorkerStep
<1>5. CASE p \in Alerts
  BY <1>1, <1>5, AlertStep
<1>6. CASE p = Keppel
  <2>1. KeppelOK
    BY <1>6 DEF ReportingInv, ClientOK
  <2>2. at[p][1] = "setup"
    BY <1>1, <1>6, <2>1 DEF KeppelOK, Calling, Ends, Idle, Done, Failed
  <2> QED
    BY <1>6, <2>2, SetupStep
<1>7. CASE p = Nvd
  <2>1. NvdOK
    BY <1>7 DEF ReportingInv, ClientOK
  <2>2. at[p][1] \in {"setup", "process"}
    BY <1>1, <1>7, <2>1 DEF NvdOK, Calling, Ends, Idle, Done, Failed
  <2> QED
    BY <1>7, <2>2, SetupStep, ProcessStep
<1> QED
  BY <1>2, <1>3, <1>4, <1>5, <1>6, <1>7 DEF Processes

LEMMA ReportingStutter ==
  ASSUME ReportingInv, UNCHANGED vars
  PROVE  ReportingInv'
<1>1. UNCHANGED <<active, rows, links, matches, at, reg, left, item, faults>>
  BY DEF vars
<1>2. LocalsOK'
  BY <1>1 DEF ReportingInv, LocalsOK
<1>3. TablesOK'
  BY <1>1 DEF ReportingInv, TablesOK, Is
<1>4. OwnersOK'
  BY <1>1 DEF ReportingInv, OwnersOK, WithCcrn, Linked, Is
<1>5. VariantFollowsIssue'
  BY <1>1 DEF ReportingInv, VariantFollowsIssue, HasVariant, CreatingVariant
<1>6. Grows
  BY <1>1 DEF Grows, RunsImage, WithCcrn, Is
<1>7. ASSUME NEW q \in active PROVE ClientOK(q)'
  <2>1. ClientOK(q)
    BY DEF ReportingInv
  <2>2. q \in Goroutines => K8sOK(q)'
    BY <1>1, <1>6, <2>1, K8sStays DEF ClientOK
  <2>3. q \in Alerts => AlertOK(q)'
    BY <1>1, <1>6, <2>1, AlertStays DEF ClientOK
  <2> QED
    BY <1>1, <2>1, <2>2, <2>3 DEF ClientOK, WorkerOK, KeppelOK, NvdOK, IssueKnown, Is, Ended
<1> QED
  BY <1>1, <1>2, <1>3, <1>4, <1>5, <1>7 DEF ReportingInv

LEMMA ReportingNext == ReportingInv /\ [Next]_vars => ReportingInv'
<1> SUFFICES ASSUME ReportingInv, [Next]_vars PROVE ReportingInv'
  OBVIOUS
<1>1. CASE UNCHANGED vars
  BY <1>1, ReportingStutter
<1>2. ASSUME NEW p \in active, Go(p) \/ Fault(p) \/ LostAnswer(p) \/ Crash(p)
      PROVE  ReportingInv'
  <2>1. CASE Call(p)
    BY <2>1, CallStep
  <2>2. CASE Start(p) \/ Crash(p)
    BY <2>2, StartStep, CrashStep
  <2>3. CASE p \in Goroutines /\ NextContainer(p)
    BY <2>3, NextContainerStep
  <2>4. CASE p \in Workers /\ (TakeComponent(p) \/ HandleImageManifests(p) \/ NextVulnerability(p))
    BY <2>4, WorkerLocalStep
  <2>5. CASE p = Keppel /\ (GetAllComponents \/ KeppelDone)
    BY <2>5, KeppelLocalStep
  <2>6. CASE p = Nvd /\ NextCve
    BY <2>6, NextCveStep
  <2> QED
    BY <1>2, <2>1, <2>2, <2>3, <2>4, <2>5, <2>6 DEF Go, Progress, Call
<1> QED
  BY <1>1, <1>2 DEF Next

\* What the calls of each client have established holds in every state, however
\* goroutines, workers, the NVD scanner and alerts interleave and whatever
\* requests fail, lose their answer or are the last of a client that stops.
THEOREM ReportingInvariant == Spec => []ReportingInv
  BY ReportingInit, ReportingNext, PTL DEF Spec

\* An issue that ProcessReport of Keppel or Process of the NVD scanner creates
\* has a variant, or its creator is about to request one, unless a request fails.
THEOREM IssuesGetVariants == Spec => []VariantFollowsIssue
<1>1. ReportingInv => VariantFollowsIssue
  BY DEF ReportingInv
<1> QED
  BY <1>1, ReportingInvariant, PTL

\* The invariant speaks of the version's row, the property of what it names.
LEMMA RunsIsDeployed ==
  ASSUME NEW c, RunsImage(c)
  PROVE  Deployed(c)
<1>1. PICK i \in WithCcrn(InstanceOf[c]), d \in DOMAIN InstanceOf, k \in DOMAIN rows["component"] :
        /\ InstanceOf[d] = InstanceOf[c]
        /\ Is("version", rows["instance"][i].ref, <<k, VersionOf[d]>>)
        /\ rows["component"][k].key = ComponentOf[d]
  BY DEF RunsImage
<1>2. PICK v : v = rows["instance"][i].ref
  OBVIOUS
<1>3. v \in DOMAIN rows["version"] /\ rows["version"][v].key = <<k, VersionOf[d]>>
  BY <1>1, <1>2 DEF Is
<1>4. rows["version"][v].key[1] = k /\ rows["version"][v].key[2] = VersionOf[d]
  BY <1>3
<1> QED
  BY <1>1, <1>2, <1>3, <1>4 DEF Deployed

\* ProcessPodReplicaSet returns without an error only when every container of
\* the group is entered with an image; without a failed request, every instance
\* is under a service that ProcessService has linked to its support group.
THEOREM ContainersAreEntered == Spec => []ContainersPlaced
<1>1. ReportingInv => ContainersPlaced
  <2> SUFFICES ASSUME ReportingInv PROVE ContainersPlaced
    OBVIOUS
  <2>1. ASSUME NEW p \in Goroutines \cap active, at[p] = Done, NEW c \in ContainersOf[GroupOf[p]]
        PROVE  Deployed(c)
    <3>1. Entered(p)
      BY DEF ReportingInv, ClientOK, K8sOK
    <3>2. RunsImage(c)
      BY <2>1, <3>1 DEF Entered
    <3> QED
      BY <3>2, RunsIsDeployed
  <2>2. ASSUME faults = 0, NEW c \in DOMAIN InstanceOf, NEW i \in WithCcrn(InstanceOf[c])
        PROVE  \E l \in links :
                 /\ l[1] = rows["instance"][i].key[2]
                 /\ <<rows["service"][l[1]].key, rows["group"][l[2]].key>> \in ReportedOwners
    <3>1. PICK owner \in ReportedOwners : Linked(rows["instance"][i].key[2], owner)
      BY <2>2 DEF ReportingInv, OwnersOK
    <3>2. PICK l \in links : /\ l[1] = rows["instance"][i].key[2]
                             /\ Is("service", l[1], owner[1]) /\ Is("group", l[2], owner[2])
      BY <3>1 DEF Linked
    <3>3. rows["service"][l[1]].key = owner[1] /\ rows["group"][l[2]].key = owner[2]
      BY <3>2 DEF Is
    <3>4. owner = <<owner[1], owner[2]>>
      BY <3>1, ReportingAssumption DEF ReportedOwners
    <3> QED
      BY <3>1, <3>2, <3>3, <3>4
  <2> QED
    BY <2>1, <2>2 DEF ContainersPlaced
<1> QED
  BY <1>1, ReportingInvariant, PTL

\* CreateSIEMAlert answers only when the alert's instance is matched to an issue
\* of its name that has its variant, whoever created the rows it found.
THEOREM AlertsAreRecorded == Spec => []AlertRecorded
<1>1. ReportingInv => AlertRecorded
  <2> SUFFICES ASSUME ReportingInv, NEW p \in Alerts \cap active, at[p] = Done
               PROVE  \E m \in matches, v \in Named("variant", AlertOf[p].name) :
                        /\ rows["instance"][m[1]].key[1] = AlertOf[p].instance
                        /\ rows["issue"][m[2]].key = AlertOf[p].name
                        /\ rows["variant"][v].ref[1] = m[2]
                        /\ AlertOf[p].url # NoName => rows["variant"][v].ref[2] = AlertOf[p].url
    BY DEF AlertRecorded
  <2>1. AlertOK(p) /\ TablesOK
    BY DEF ReportingInv, ClientOK
  <2>2. PICK m \in matches : /\ m[1] \in WithCcrn(AlertOf[p].instance)
                             /\ \E v \in DOMAIN rows["variant"] : OwnVariant(p, v, m[2])
    BY <2>1 DEF AlertOK
  <2>3. PICK v \in DOMAIN rows["variant"] : OwnVariant(p, v, m[2])
    BY <2>2
  <2>4. /\ v \in Named("variant", AlertOf[p].name) /\ rows["variant"][v].ref[1] = m[2]
        /\ AlertOf[p].url # NoName => rows["variant"][v].ref[2] = AlertOf[p].url
        /\ rows["variant"][v].key = AlertOf[p].name
    BY <2>3 DEF OwnVariant, Is, Named
  <2>5. Is("issue", m[2], AlertOf[p].name)
    BY <2>1, <2>4 DEF TablesOK
  <2> QED
    BY <2>2, <2>4, <2>5 DEF WithCcrn, Is
<1> QED
  BY <1>1, ReportingInvariant, PTL
=============================================================================
