--------------------------- MODULE IssueMatching ---------------------------
(***************************************************************************)
(* Issue matches: an issue that is attached to the version of a deployed   *)
(* instance.  Two event handlers create them.  The creation of an instance *)
(* is answered by OnComponentVersionAssignmentToComponentInstance, for all *)
(* issues of its version; the attachment of an issue to a version by       *)
(* OnComponentVersionAttachmentToIssue, for all instances of the version.  *)
(* The workers of the event registry run handlers at the same time, every  *)
(* statement is a step of its own, and the severity of a match is that of  *)
(* a variant of the issue, chosen by the priority of its repository.       *)
(*                                                                         *)
(* Nothing answers an instance whose version is changed by an update, or a *)
(* variant that comes after the attachment: what such steps expose is kept *)
(* in two history variables, moved and late.                               *)
(*                                                                         *)
(* All instances belong to one service, whose repositories give the        *)
(* variants their priority.                                                *)
(***************************************************************************)
EXTENDS Naturals, Sequences, FiniteSets

CONSTANTS Instances,   \* identities of component instances, numbers
          Versions,    \* component versions
          Issues,      \* issues
          Workers,     \* workers of the event registry
          Catalogues,  \* the variants each issue may have, in the order of their ids
          PageSize,    \* how many variants ListEffectiveIssueVariants reads
          MaxRequests, \* bound on requests
          MaxFaults,   \* bound on failing statements and restarts
          None

ASSUME InstancesAssumption == Instances \subseteq Nat
ASSUME VariantsAssumption ==
  \A c \in Catalogues : c \in [Issues -> Seq([priority : Nat, score : Nat])]
ASSUME PageAssumption == PageSize \in Nat
ASSUME NoneAssumption == None \notin Versions \cup Issues

VARIABLES variants,  \* variants[issue]: the rows of IssueVariant, with priorities
          version,   \* version[instance], None before the instance is created
          attached,  \* the table ComponentVersionIssue
          matches,   \* the table IssueMatch, in the order of creation
          events,    \* the events that no worker has taken yet
          task,      \* task[worker]: what the handler is doing
          halted,    \* instances whose handler met a match and stopped
          moved,     \* history: instances and the issues of a version an update gave them
          late,      \* history: attached pairs whose issue got its first variant afterwards
          requests, faults

exposing == <<moved, late>>
MatchVars == <<variants, version, attached, matches, events, task, halted, exposing, requests, faults>>

-----------------------------------------------------------------------------
(* The severity of an issue.                                               *)

\* Mutant of Preferred.
PreferredLast(chosen, row) == row
\* The row that BuildIssueVariantMap keeps of two.
Preferred(chosen, row) ==
  IF chosen.priority < row.priority \/ chosen.score < row.score THEN row ELSE chosen

\* The row that is left when the loop over the rows ends.
Kept(rows) ==
  LET kept[n \in 1 .. Len(rows)] == IF n = 1 THEN rows[1] ELSE Preferred(kept[n - 1], rows[n])
  IN kept[Len(rows)]

\* It, and for the properties the rows it was chosen among.
Choice(rows) == [priority |-> Kept(rows).priority, score |-> Kept(rows).score, among |-> rows]

BuildIssueVariantMap(v, issues) ==
  [x \in {y \in issues : <<v, y>> \in attached /\ variants[y] # <<>>} |-> Choice(variants[x])]

\* ListEffectiveIssueVariants keeps the variants of the repositories with the highest
\* priority; the repositories are read without their services, all with priority 0.
ListEffectiveIssueVariants(rows) ==
  LET page == SubSeq(rows, 1, IF Len(rows) < PageSize THEN Len(rows) ELSE PageSize)
  IN {page[k] : k \in DOMAIN page}

GetSeverity(rows) ==
  LET effective == ListEffectiveIssueVariants(rows)
  IN CHOOSE s \in {r.score : r \in effective} : \A r \in effective : r.score <= s

Match(i, x, score, among) == [instance |-> i, issue |-> x, score |-> score, among |-> among]

-----------------------------------------------------------------------------
(* Requests.                                                               *)

Idle == [at |-> "idle", event |-> None, todo |-> {}, instance |-> None, map |-> <<>>, issue |-> None,
         looked |-> 0]

MatchInit ==
  /\ variants \in Catalogues
  /\ version = [i \in Instances |-> None]
  /\ attached = {}
  /\ matches = <<>>
  /\ events = {}
  /\ task = [w \in Workers |-> Idle]
  /\ halted = {} /\ moved = {} /\ late = {}
  /\ requests = 0 /\ faults = 0

Request == requests < MaxRequests /\ requests' = requests + 1
PushEvent(name, of) == events' = events \cup {[name |-> name, of |-> of, number |-> requests]}

CreateComponentInstance(i, v) ==
  /\ Request
  /\ version[i] = None
  /\ version' = [version EXCEPT ![i] = v]
  /\ PushEvent("CreateComponentInstance", i)
  /\ UNCHANGED <<variants, attached, matches, task, halted, exposing, faults>>

\* The event of an update has no subscriber that matches, not even when the version changes.
UpdateComponentInstance(i, v) ==
  /\ Request
  /\ version[i] \notin {None, v}
  /\ version' = [version EXCEPT ![i] = v]
  /\ moved' = moved \cup ({i} \X {x \in Issues : <<v, x>> \in attached})
  /\ UNCHANGED <<variants, attached, matches, events, task, halted, late, faults>>

AddComponentVersionToIssue(v, x) ==
  /\ Request
  /\ attached' = attached \cup {<<v, x>>}
  /\ PushEvent("AddComponentVersionToIssue", <<v, x>>)
  /\ UNCHANGED <<variants, version, matches, task, halted, exposing, faults>>

RemoveComponentVersionFromIssue(v, x) ==
  /\ Request
  /\ <<v, x>> \in attached
  /\ attached' = attached \ {<<v, x>>}
  /\ UNCHANGED <<variants, version, matches, events, task, halted, exposing, faults>>

\* A variant is created, updated or deleted, or its repository linked to the services or not;
\* nothing matches the issue anew.
ChangeIssueVariants(catalogue) ==
  /\ Request
  /\ catalogue # variants /\ variants' = catalogue
  /\ late' = late \cup {p \in Instances \X Issues :
        <<version[p[1]], p[2]>> \in attached /\ variants[p[2]] = <<>> /\ catalogue[p[2]] # <<>>}
  /\ UNCHANGED <<version, attached, matches, events, task, halted, moved, faults>>

\* CreateIssueMatch of the API, for any instance and issue.  Without a variant there is no
\* severity, and the handler panics before it writes.
CreateIssueMatch(i, x) ==
  /\ Request
  /\ version[i] # None /\ variants[x] # <<>>
  /\ matches' = Append(matches, Match(i, x, GetSeverity(variants[x]), variants[x]))
  /\ UNCHANGED <<variants, version, attached, events, task, halted, exposing, faults>>

-----------------------------------------------------------------------------
(* Handlers.                                                               *)

Fault == faults < MaxFaults /\ faults' = faults + 1
Assigning(w) == task[w].event.name = "CreateComponentInstance"
Become(w, t) == task' = [task EXCEPT ![w] = t]
Loop(w, m) == [task[w] EXCEPT !.at = "look", !.map = m, !.issue = None]

\* After an issue: the next one of the map, the next instance of an attachment, or the end.
Continue(w, m) ==
  CASE DOMAIN m # {}          -> Loop(w, m)
    [] DOMAIN m = {} /\ task[w].todo # {} -> [task[w] EXCEPT !.at = "variants", !.map = <<>>, !.issue = None]
    [] OTHER                  -> Idle
Rest(w) == [y \in DOMAIN task[w].map \ {task[w].issue} |-> task[w].map[y]]

Take(w) ==
  /\ task[w].at = "idle"
  /\ \E e \in events :
       /\ events' = events \ {e}
       /\ Become(w, IF e.name = "CreateComponentInstance"
                    THEN [Idle EXCEPT !.at = "variants", !.event = e, !.todo = {e.of}]
                    ELSE [Idle EXCEPT !.at = "instances", !.event = e])
  /\ UNCHANGED <<variants, version, attached, matches, halted, exposing, requests, faults>>

\* OnComponentVersionAttachmentToIssue lists the instances of the version.
GetComponentInstances(w) ==
  /\ task[w].at = "instances"
  /\ LET found == {i \in Instances : version[i] = task[w].event.of[1]}
     IN Become(w, IF found = {} THEN Idle ELSE [task[w] EXCEPT !.at = "variants", !.todo = found])
  /\ UNCHANGED <<variants, version, attached, matches, events, halted, exposing, requests, faults>>

\* The variants of the next instance, in the order of ids: of all issues of its version, or of
\* the attached issue.  Without a variant the assignment ends and the attachment goes on.
GetServiceIssueVariants(w) ==
  /\ task[w].at = "variants"
  /\ LET i == CHOOSE i \in task[w].todo : \A j \in task[w].todo : i <= j
         m == BuildIssueVariantMap(version[i], IF Assigning(w) THEN Issues ELSE {task[w].event.of[2]})
         t == [task[w] EXCEPT !.instance = i, !.todo = @ \ {i}]
     IN Become(w, IF DOMAIN m # {} THEN [t EXCEPT !.at = "look", !.map = m]
                  ELSE IF t.todo # {} THEN t ELSE Idle)
  /\ UNCHANGED <<variants, version, attached, matches, events, halted, exposing, requests, faults>>

\* Mutant of GetIssueMatches.
GetIssueMatchesUnheeded(w) ==
  /\ task[w].at = "look"
  /\ \E x \in DOMAIN task[w].map :
       Become(w, [task[w] EXCEPT !.at = "insert", !.issue = x, !.looked = Len(matches)])
  /\ UNCHANGED <<variants, version, attached, matches, events, halted, exposing, requests, faults>>
\* Mutant of GetIssueMatches.
GetIssueMatchesAgain(w) ==
  /\ task[w].at = "look"
  /\ \E x \in DOMAIN task[w].map :
       /\ ~\E k \in DOMAIN matches : matches[k].instance = task[w].instance /\ matches[k].issue = x
       /\ Become(w, [task[w] EXCEPT !.at = "insert", !.issue = x, !.looked = Len(matches)])
  /\ UNCHANGED <<variants, version, attached, matches, events, halted, exposing, requests, faults>>
\* The next issue of the map, in any order: is there a match already?  Then the assignment
\* ends, and the attachment goes on.
GetIssueMatches(w) ==
  /\ task[w].at = "look"
  /\ \E x \in DOMAIN task[w].map :
       IF \E k \in DOMAIN matches : matches[k].instance = task[w].instance /\ matches[k].issue = x
       THEN /\ Become(w, IF Assigning(w) THEN Idle
                         ELSE Continue(w, [y \in DOMAIN task[w].map \ {x} |-> task[w].map[y]]))
            /\ halted' = IF Assigning(w) THEN halted \cup {task[w].instance} ELSE halted
       ELSE /\ Become(w, [task[w] EXCEPT !.at = "insert", !.issue = x, !.looked = Len(matches)])
            /\ UNCHANGED halted
  /\ UNCHANGED <<variants, version, attached, matches, events, exposing, requests, faults>>

Insert(w) ==
  /\ task[w].at = "insert"
  /\ LET chosen == task[w].map[task[w].issue]
     IN matches' = Append(matches, Match(task[w].instance, task[w].issue, chosen.score, chosen.among))
  /\ Become(w, Continue(w, Rest(w)))
  /\ UNCHANGED <<variants, version, attached, events, halted, exposing, requests, faults>>

\* A statement fails.  The assignment ends; the attachment ends when the instances cannot be
\* listed, goes on with the next instance without variants, inserts when the matches cannot be
\* read, and skips the issue when the user cannot be found or the insert fails.
StatementFails(w) ==
  /\ task[w].at \in {"instances", "variants", "look", "insert"}
  /\ Fault
  /\ CASE Assigning(w) \/ task[w].at = "instances" -> Become(w, Idle)
       [] ~Assigning(w) /\ task[w].at = "variants" ->
            LET i == CHOOSE i \in task[w].todo : \A j \in task[w].todo : i <= j
            IN Become(w, IF task[w].todo = {i} THEN Idle ELSE [task[w] EXCEPT !.todo = @ \ {i}])
       [] ~Assigning(w) /\ task[w].at = "look" ->
            \E x \in DOMAIN task[w].map :
              Become(w, [task[w] EXCEPT !.at = "insert", !.issue = x, !.looked = 0])
       [] ~Assigning(w) /\ task[w].at = "insert" -> Become(w, Continue(w, Rest(w)))
  /\ UNCHANGED <<variants, version, attached, matches, events, halted, exposing, requests>>

\* The process is restarted: queued events and running handlers are gone.
Restart ==
  /\ Fault
  /\ events' = {} /\ task' = [w \in Workers |-> Idle]
  /\ UNCHANGED <<variants, version, attached, matches, halted, exposing, requests>>

Step(w) ==
  \/ Take(w) \/ GetComponentInstances(w) \/ GetServiceIssueVariants(w) \/ GetIssueMatches(w) \/ Insert(w)

MatchNext ==
  \/ \E i \in Instances, v \in Versions : CreateComponentInstance(i, v)
  \/ \E i \in Instances, v \in Versions : UpdateComponentInstance(i, v)
  \/ \E v \in Versions, x \in Issues : AddComponentVersionToIssue(v, x)
  \/ \E v \in Versions, x \in Issues : RemoveComponentVersionFromIssue(v, x)
  \/ \E c \in Catalogues : ChangeIssueVariants(c)
  \/ \E i \in Instances, x \in Issues : CreateIssueMatch(i, x)
  \/ \E w \in Workers : Step(w)
  \/ \E w \in Workers : StatementFails(w)
  \/ Restart

MatchSpec == MatchInit /\ [][MatchNext]_MatchVars /\ \A w \in Workers : WF_MatchVars(Step(w))

-----------------------------------------------------------------------------
Matched(i, x) == \E k \in DOMAIN matches : matches[k].instance = i /\ matches[k].issue = x
\* An instance is exposed to an issue: a match is to be created.
Exposed(i, x) == version[i] # None /\ <<version[i], x>> \in attached /\ variants[x] # <<>>

\* Some handler, queued or running, is going to look at this instance and issue.
Expected(i, x) ==
  \/ \E e \in events : \/ e.name = "CreateComponentInstance" /\ e.of = i
                       \/ e.name = "AddComponentVersionToIssue" /\ e.of = <<version[i], x>>
  \/ \E w \in Workers :
       \/ task[w].at = "instances" /\ task[w].event.of = <<version[i], x>>
       \/ i \in task[w].todo /\ (Assigning(w) \/ task[w].event.of = <<version[i], x>>)
       \/ task[w].instance = i /\ x \in DOMAIN task[w].map

\* As the comment at issue_match_handler_events.go:183 has it, "For each issue create issue Match
\* if not already exists": while no statement fails and the process is not restarted, an instance
\* that its creation or an attachment has exposed has its match or a handler is still going to
\* look at it.
EveryIssueMatched ==
  faults = 0 => \A i \in Instances, x \in Issues :
    Exposed(i, x) /\ <<i, x>> \notin moved \cup late => Matched(i, x) \/ Expected(i, x)

\* A variant that no other exceeds in priority or in score decides the severity, wherever it
\* stands among the rows that were read (issueVariant.go:57-70); a handler's match is never more
\* severe than a client's own.  Where one variant has the higher priority and another the higher
\* score, the comments at :16-20 and :59-61 give the severity to the priority, while :64 lets the
\* score replace it, depending on the order of the rows: nothing is stated of that case.
BestVariantDecides ==
  \A k \in DOMAIN matches :
    LET rows == {matches[k].among[n] : n \in DOMAIN matches[k].among}
    IN /\ \A r \in rows : (\A q \in rows : q.priority <= r.priority /\ q.score <= r.score)
                             => matches[k].score = r.score
       /\ matches[k].score <= GetSeverity(matches[k].among)

\* A second match is never written by a handler that could have seen the first one: it was
\* inserted after the look, or the look failed (issue_handler_events.go:189-206,
\* issue_match_handler_events.go:192-213).
NoKnownDuplicate ==
  [][\A w \in Workers : task[w].at = "insert" /\ task'[w] # task[w] /\ matches' # matches =>
       \A k \in DOMAIN matches :
         matches[k].instance = task[w].instance /\ matches[k].issue = task[w].issue
           => k > task[w].looked]_MatchVars

\* An instance that its creation or an attachment has exposed to an issue gets its match in the
\* end, while no fault is met and its loop is not ended early (halted).  No handler runs for what
\* an update of its version (moved) or a variant that came afterwards (late) exposes.
EventuallyMatched ==
  \A i \in Instances, x \in Issues :
    Exposed(i, x) ~> \/ Matched(i, x) \/ ~Exposed(i, x)
                     \/ i \in halted \/ <<i, x>> \in moved \cup late \/ faults > 0
-----------------------------------------------------------------------------
(* The invariants behind NoKnownDuplicate and BestVariantDecides.          *)

IsTask(t) ==
  t = [at |-> t.at, event |-> t.event, todo |-> t.todo, instance |-> t.instance, map |-> t.map,
       issue |-> t.issue, looked |-> t.looked]

\* A worker about to insert has seen the first rows of the table, and no match of its own.
HasLooked(w) ==
  task[w].at = "insert" =>
    /\ task[w].looked \in 0 .. Len(matches) /\ task[w].issue \in DOMAIN task[w].map
    /\ \A k \in 1 .. task[w].looked :
         ~(matches[k].instance = task[w].instance /\ matches[k].issue = task[w].issue)

LooksInv ==
  /\ matches \in Seq({matches[k] : k \in DOMAIN matches})
  /\ task = [w \in Workers |-> task[w]]
  /\ \A w \in Workers : IsTask(task[w]) /\ HasLooked(w)

\* The score of one of the rows, and of the one that no other exceeds.
Decided(among, score) ==
  LET rows == {among[n] : n \in DOMAIN among}
  IN /\ \E r \in rows : r.score = score
     /\ \A r \in rows : (\A q \in rows : q.priority <= r.priority /\ q.score <= r.score) => score = r.score

\* What a severity was chosen among were the variants of the issue at some time.
FromVariants(x, among, score) ==
  x \in Issues /\ (\E c \in Catalogues : among = c[x]) /\ Decided(among, score)

\* The variants of an issue fit on the page that ListEffectiveIssueVariants reads.
VariantsFit == \A c \in Catalogues, x \in Issues : Len(c[x]) <= PageSize

VariantsInv ==
  /\ variants \in Catalogues /\ attached \subseteq Versions \X Issues
  /\ \A w \in Workers : \A x \in DOMAIN task[w].map :
        FromVariants(x, task[w].map[x].among, task[w].map[x].score)
  /\ \A k \in DOMAIN matches : FromVariants(matches[k].issue, matches[k].among, matches[k].score)
=============================================================================
