------------------------------- MODULE K8sScan -------------------------------
(***************************************************************************)
(* The Kubernetes asset scanner (scanner/k8s-assets/main.go).              *)
(*                                                                         *)
(* One goroutine per namespace waits for a slot, lists the pods, reports   *)
(* every group of pod replicas to Heureka and puts its result into a       *)
(* buffered channel.  Slots are handed out by producer goroutines over an  *)
(* unbuffered channel until the scan's context times out.  The main        *)
(* goroutine collects the results and completes the scanner run when no    *)
(* namespace failed.                                                       *)
(***************************************************************************)
EXTENDS Naturals, FiniteSets

CONSTANTS
    Namespaces,
    Groups,        \* groups of pod replicas that are not excluded
    NamespaceOf,   \* NamespaceOf[g]: where the group runs
    Producers      \* maxConcurrency goroutines

ASSUME K8sAssumption == NamespaceOf \in [Groups -> Namespaces]

VARIABLES
    ns,        \* ns[n]: what the goroutine of namespace n is doing
    failed,    \* namespaces whose result carries an error
    todo,      \* groups the goroutines have still to report
    producers, \* producers that still offer slots
    results,   \* results in the channel
    closed,    \* is the results channel closed?
    main,      \* "collect", "completed" or "fatal"
    success,   \* main's local variable
    timedOut,  \* is the context done?
    reported,  \* groups Heureka knows of
    lost       \* groups whose error was logged and nothing else

ScanVars == <<ns, failed, todo, producers, results, closed, main, success,
              timedOut, reported, lost>>

ScanInit ==
    /\ ns = [n \in Namespaces |-> "waiting"]
    /\ failed = {}
    /\ todo = {}
    /\ producers = Producers
    /\ results = {}
    /\ closed = FALSE
    /\ main = "collect"
    /\ success = TRUE
    /\ timedOut = FALSE
    /\ reported = {}
    /\ lost = {}

Exited == main \in {"completed", "fatal"}

GroupsOf(n) == {g \in Groups : NamespaceOf[g] = n}

-----------------------------------------------------------------------------
(* The goroutines.                                                         *)

Timeout ==
    /\ ~Exited /\ ~timedOut
    /\ timedOut' = TRUE
    /\ UNCHANGED <<ns, failed, todo, producers, results, closed, main, success, reported, lost>>

\* Mutant: the producer's loop is missing, it hands out one slot.
TakeSlotOnce(w, n) ==
    /\ ~Exited
    /\ w \in producers
    /\ ns[n] = "waiting"
    /\ ns' = [ns EXCEPT ![n] = "list"]
    /\ producers' = producers \ {w}
    /\ UNCHANGED <<failed, todo, results, closed, main, success, timedOut,
                   reported, lost>>

\* select: the producer sends on sem, a namespace receives ...
TakeSlot(w, n) ==
    /\ ~Exited
    /\ w \in producers
    /\ ns[n] = "waiting"
    /\ ns' = [ns EXCEPT ![n] = "list"]
    /\ UNCHANGED <<failed, todo, producers, results, closed, main, success,
                   timedOut, reported, lost>>

\* ... or the producer sees that the context is done.
ProducerReturn(w) ==
    /\ ~Exited /\ timedOut
    /\ w \in producers
    /\ producers' = producers \ {w}
    /\ UNCHANGED <<ns, failed, todo, results, closed, main, success, timedOut, reported, lost>>

\* GetPodsByNamespace: an error is the result of the namespace.
ListPods(n) ==
    /\ ~Exited
    /\ ns[n] = "list"
    /\ \/ /\ ns' = [ns EXCEPT ![n] = "process"]
          /\ todo' = todo \cup GroupsOf(n)
          /\ UNCHANGED failed
       \/ /\ ns' = [ns EXCEPT ![n] = "send"]
          /\ failed' = failed \cup {n}
          /\ UNCHANGED todo
    /\ UNCHANGED <<producers, results, closed, main, success, timedOut, reported, lost>>

\* ProcessService and ProcessPodReplicaSet: an error, certain once the context
\* is done, is logged and the loop goes on.
ProcessGroup(g) ==
    /\ ~Exited
    /\ g \in todo
    /\ todo' = todo \ {g}
    /\ \/ ~timedOut /\ reported' = reported \cup {g} /\ UNCHANGED lost
       \/ lost' = lost \cup {g} /\ UNCHANGED reported
    /\ UNCHANGED <<ns, failed, producers, results, closed, main, success, timedOut>>

ProcessEnd(n) ==
    /\ ~Exited
    /\ ns[n] = "process"
    /\ todo \cap GroupsOf(n) = {}
    /\ ns' = [ns EXCEPT ![n] = "send"]
    /\ UNCHANGED <<failed, todo, producers, results, closed, main, success, timedOut, reported, lost>>

AfterSend(n) == "done"

\* The channel has room for all; then wg.Done.
SendResult(n) ==
    /\ ~Exited
    /\ ns[n] = "send"
    /\ results' = results \cup {n}
    /\ ns' = [ns EXCEPT ![n] = AfterSend(n)]
    /\ UNCHANGED <<failed, todo, producers, closed, main, success, timedOut, reported, lost>>

-----------------------------------------------------------------------------
(* The main goroutine and the one that closes the channel.                 *)

\* Mutant: the channel is closed without waiting for all.
WaitedForSome == \E n \in Namespaces : ns[n] = "done"

\* wg.Wait()
Waited == \A n \in Namespaces : ns[n] = "done"

CloseResults ==
    /\ ~Exited /\ ~closed
    /\ Waited
    /\ closed' = TRUE
    /\ UNCHANGED <<ns, failed, todo, producers, results, main, success, timedOut, reported, lost>>

Collect(n) ==
    /\ main = "collect"
    /\ n \in results
    /\ results' = results \ {n}
    /\ success' = (success /\ n \notin failed)
    /\ UNCHANGED <<ns, failed, todo, producers, closed, main, timedOut, reported, lost>>

CollectEnd ==
    /\ main = "collect"
    /\ closed /\ results = {}
    /\ main' = IF success THEN "completed" ELSE "fatal"
    /\ UNCHANGED <<ns, failed, todo, producers, results, closed, success, timedOut, reported, lost>>

ScanNext ==
    \/ Timeout
    \/ \E w \in Producers, n \in Namespaces : TakeSlot(w, n)
    \/ \E w \in Producers : ProducerReturn(w)
    \/ \E n \in Namespaces : ListPods(n) \/ ProcessEnd(n) \/ SendResult(n) \/ Collect(n)
    \/ \E g \in Groups : ProcessGroup(g)
    \/ CloseResults
    \/ CollectEnd

\* Goroutines that can go on do so; a timeout is not certain, and a producer
\* may be chosen for any namespace.
ScanFairness ==
    /\ \A n \in Namespaces :
          WF_ScanVars(ListPods(n) \/ ProcessEnd(n) \/ SendResult(n) \/ Collect(n))
    /\ \A n \in Namespaces : WF_ScanVars(\E w \in Producers : TakeSlot(w, n))
    /\ \A g \in Groups : WF_ScanVars(ProcessGroup(g))
    /\ \A w \in Producers : WF_ScanVars(ProducerReturn(w))
    /\ WF_ScanVars(CloseResults) /\ WF_ScanVars(CollectEnd)

ScanSpec == ScanInit /\ [][ScanNext]_ScanVars /\ ScanFairness

-----------------------------------------------------------------------------
\* Types of the goroutines' places and of the channels.
TypeOK ==
    /\ ns \in [Namespaces -> {"waiting", "list", "process", "send", "done"}]
    /\ failed \subseteq Namespaces
    /\ todo \subseteq Groups /\ reported \subseteq Groups /\ lost \subseteq Groups
    /\ producers \subseteq Producers
    /\ results \subseteq {n \in Namespaces : ns[n] = "done"}
    /\ main \in {"collect", "completed", "fatal"}
    /\ closed \in BOOLEAN /\ success \in BOOLEAN /\ timedOut \in BOOLEAN

\* A run is completed only if no listing failed and every group of every
\* namespace was reported or left an error in the log: no goroutine is
\* overtaken by the end of the collection, whatever the order of results,
\* slots and the timeout.
CompletedAccountsForAll ==
    main = "completed" => failed = {} /\ reported \cup lost = Groups

\* Unless the context times out, the scan ends.
EndsInTime == [](~timedOut) => <>Exited
-----------------------------------------------------------------------------
(* The inductive invariant behind CompletedAccountsForAll.                 *)

\* Nothing of a namespace that was listed is forgotten on the way.
NamespaceOK(n) ==
    /\ ns[n] = "process" => GroupsOf(n) \subseteq todo \cup reported \cup lost
    /\ ns[n] \in {"send", "done"} =>
          n \in failed \/ GroupsOf(n) \subseteq reported \cup lost

\* A namespace that failed is still in the channel, or success was withdrawn.
CollectOK == success => \A n \in failed : ns[n] # "done" \/ n \in results

ScanInv ==
    /\ TypeOK
    /\ \A n \in Namespaces : NamespaceOK(n)
    /\ CollectOK
    /\ closed => \A n \in Namespaces : ns[n] = "done"
    /\ main = "completed" => success /\ closed /\ results = {}
=============================================================================
