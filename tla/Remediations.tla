---------------------------- MODULE Remediations ----------------------------
(***************************************************************************)
(* The remediations of one issue in one service: createRemediation,        *)
(* updateRemediation and deleteRemediation (graph/resolver/mutation.go,    *)
(* internal/app/remediation/remediation_handler.go,                        *)
(* internal/database/mariadb/remediation.go).                              *)
(*                                                                         *)
(* A create looks at the existing remediations, inserts, and removes cached*)
(* lists, in three steps; an update reads the row, perhaps from the cache, *)
(* completes its input with it and writes.  Nothing is in a transaction, so*)
(* requests, the clock and the cache fall between.                         *)
(*                                                                         *)
(* Only the lists that are read by the issue's id are removed.  The lists  *)
(* of remediations themselves (GetRemediations, GetAllRemediationCursors,  *)
(* CountRemediations) and lists of several issues are among OtherLists:    *)
(* they show a new remediation when they are read again or expire.         *)
(*                                                                         *)
(* The content of a list is the number of writes it has seen.  No event of *)
(* remediations has a subscriber.                                          *)
(***************************************************************************)
EXTENDS Integers, Sequences

CONSTANTS
    Requests,     \* goroutines that serve mutations
    Components,   \* the images a remediation can be for
    Users,        \* unique ids of users, given as remediatedBy
    Inputs,       \* the inputs of createRemediation
    Changes,      \* the inputs of updateRemediation
    IssueLists,   \* cached lists of issues, variants and matches read by the issue's id
    OtherLists,   \* every other cached list that remediations show in
    MaxRequests,  \* bound: how many mutations are sent
    MaxTime,      \* bound: how often a date passes
    None          \* an optional input that is not given, no entry, no call

Types == {"risk_accepted", "mitigation"}
Urls == {"invalid", "valid"}
Never == 0                    \* no expiration date
Dates == 1 .. MaxTime + 1
Lists == IssueLists \cup OtherLists

ASSUME RemediationsAssumption ==
    /\ MaxRequests \in Nat /\ MaxTime \in Nat
    /\ IssueLists \cap OtherLists = {}
    /\ None \notin Types \cup Urls /\ None \notin Dates /\ None \notin Components
    /\ Inputs \subseteq [component : Components, type : Types \cup {None},
          url : Urls \cup {None}, expires : Dates \cup {Never}, by : Users \cup {None}]
    /\ Changes \subseteq [component : Components \cup {None}, type : Types \cup {None},
          url : Urls \cup {None}, expires : Dates \cup {None}]

VARIABLES
    rows,     \* the table; a row also says what its create had looked at
    was,      \* was[r]: every content of row r, which is what a cache may hold
    users,    \* the users that exist
    now,      \* the clock: date n has passed when n < now
    req,      \* req[q]: the mutation that q serves
    sent,     \* how many mutations were sent
    writes,   \* how often the table was changed
    entry,    \* entry[l]: what the cached list l has seen, or None
    loading,  \* loading[l]: a query of list l under way
    promised  \* history: the writes that a create had seen which removed its keys

vars == <<rows, was, users, now, req, sent, writes, entry, loading, promised>>
listVars == <<entry, loading, promised>>

Idle == [at |-> "idle"]

Init ==
    /\ rows = << >> /\ was = << >> /\ users = {}
    /\ now = 0
    /\ req = [q \in Requests |-> Idle]
    /\ sent = 0 /\ writes = 0
    /\ entry = [l \in Lists |-> None] /\ loading = entry
    /\ promised = 0

Begin(q) ==
    /\ req[q].at = "idle"
    /\ sent < MaxRequests /\ sent' = sent + 1

Goto(q, step) == req' = [req EXCEPT ![q] = step]

Content(row) == [component |-> row.component, type |-> row.type, url |-> row.url,
                 expires |-> row.expires]

-----------------------------------------------------------------------------
(* createRemediation.                                                      *)

\* NewRemediationType: no type, like any other text, is "unknown".
NewRemediationType(t) == IF t \in Types THEN t ELSE "unknown"

\* The resolver finds service, issue and component and creates the user, and the
\* handler then refuses a risk that is accepted without a URL.
CreateRemediation(q, input) ==
    /\ Begin(q)
    /\ users' = users \cup ({input.by} \ {None})
    /\ Goto(q, IF input.type = "risk_accepted" /\ input.url = None THEN Idle
               ELSE [at |-> "check",
                     new |-> [Content(input) EXCEPT !.type = NewRemediationType(@)]])
    /\ UNCHANGED <<rows, was, now, writes, listVars>>

IsExpired(row) == row.expires # Never /\ row.expires < now

\* Mutant: the dates are not compared.
InTheWayOpen(row, new) ==
    /\ ~row.deleted /\ row.component = new.component
    /\ ~IsExpired(row)
    /\ row.type = new.type
    /\ row.expires = Never

\* An active remediation of the same kind that the new one does not extend.
InTheWay(row, new) ==
    /\ ~row.deleted /\ row.component = new.component
    /\ ~IsExpired(row)
    /\ row.type = new.type
    /\ row.expires = Never \/ ~(new.expires # Never /\ new.expires > row.expires)

\* GetRemediations, past the cache, and the loop over its rows.
Check(q) ==
    /\ req[q].at = "check"
    /\ Goto(q, IF \E r \in DOMAIN rows : InTheWay(rows[r], req[q].new) THEN Idle
               ELSE [at |-> "insert", new |-> req[q].new, known |-> Len(rows), asOf |-> now])
    /\ UNCHANGED <<rows, was, users, now, sent, writes, listVars>>

NewRow(q) ==
    [component |-> req[q].new.component, type |-> req[q].new.type, url |-> req[q].new.url,
     expires |-> req[q].new.expires, deleted |-> FALSE, edited |-> FALSE,
     known |-> req[q].known, asOf |-> req[q].asOf]

\* The ENUM column has no "unknown".
InEnum(type) == type \in Types

Insert(q) ==
    /\ req[q].at = "insert"
    /\ \/ /\ InEnum(req[q].new.type)
          /\ rows' = Append(rows, NewRow(q))
          /\ was' = Append(was, {req[q].new})
          /\ writes' = writes + 1
          /\ Goto(q, [at |-> "invalidate", wrote |-> writes + 1])
       \/ /\ ~InEnum(req[q].new.type)
          /\ Goto(q, Idle)
          /\ UNCHANGED <<rows, was, writes>>
    /\ UNCHANGED <<users, now, sent, listVars>>

\* Mutant: the keys of the remediations are matched, not those of their issue.
MatchingRemediations == OtherLists

\* The keys with the issue's id and the name of a query of issues, of variants or
\* of matches.
Matching == IssueLists

\* InvalidateByMatch finds the keys and removes them; a query under way goes on.
RemoveKeys ==
    /\ entry' = [l \in Lists |-> IF l \in Matching THEN None ELSE entry[l]]
    /\ loading' = [l \in Lists |->
           IF l \in Matching /\ loading[l] # None THEN [loading[l] EXCEPT !.overtaken = TRUE]
           ELSE loading[l]]

\* An error of the cache ends it after some of the keys.
RemoveSomeKeys ==
    /\ \E gone \in SUBSET Matching :
          entry' = [l \in Lists |-> IF l \in gone THEN None ELSE entry[l]]
    /\ UNCHANGED loading

\* Such an error is logged, and the create succeeds all the same.
Invalidate(q) ==
    /\ req[q].at = "invalidate"
    /\ \/ /\ RemoveKeys
          /\ promised' = IF promised < req[q].wrote THEN req[q].wrote ELSE promised
       \/ RemoveSomeKeys /\ UNCHANGED promised
    /\ Goto(q, Idle)
    /\ UNCHANGED <<rows, was, users, now, sent, writes>>

-----------------------------------------------------------------------------
(* updateRemediation and deleteRemediation.                                *)

UpdateRemediation(q, r, input) ==
    /\ Begin(q)
    /\ Goto(q, [at |-> "look", id |-> r, input |-> input])
    /\ UNCHANGED <<rows, was, users, now, writes, listVars>>

\* The type that is checked.  An input without a type has the type "unknown" by
\* then, not the empty one the handler looks for.
FinalType(input) == NewRemediationType(input.type)

\* An input that is not given leaves what is there.
Given(new, old) == IF new # None THEN new ELSE old

FinalUrl(input, seen) == Given(input.url, seen.url)

\* ListRemediations by id: the row as it is, unless it is deleted, or any earlier
\* content of it from the cache.
Look(q) ==
    /\ req[q].at = "look"
    /\ LET r == req[q].id
           input == req[q].input
       IN  \/ \E seen \in was[r] :
                LET url == FinalUrl(input, seen)
                IN  Goto(q, IF FinalType(input) = "risk_accepted" /\ url # "valid" THEN Idle
                            ELSE [at |-> "update", id |-> r, seen |-> seen, input |-> input,
                                  url |-> url])
           \/ rows[r].deleted /\ Goto(q, Idle)
    /\ UNCHANGED <<rows, was, users, now, sent, writes, listVars>>

\* Mutant: the URL is written even if it is empty.
UpdateRowUrl(row, input, url) ==
    [row EXCEPT !.component = Given(input.component, @), !.type = Given(input.type, @),
                !.url = url, !.expires = Given(input.expires, @), !.edited = TRUE]

\* Update of db_object.go: a column keeps its value when the new one is empty,
\* and a type also when the new one is "unknown".
UpdateRow(row, input, url) ==
    [row EXCEPT !.component = Given(input.component, @), !.type = Given(input.type, @),
                !.url = Given(url, @), !.expires = Given(input.expires, @), !.edited = TRUE]

\* UPDATE by id, which does not look at deleted_at, and the list once more.
Update(q) ==
    /\ req[q].at = "update"
    /\ LET r == req[q].id
           row == UpdateRow(rows[r], req[q].input, req[q].url)
       IN  /\ rows' = [rows EXCEPT ![r] = row]
           /\ was' = [was EXCEPT ![r] = @ \cup {Content(row)}]
    /\ writes' = writes + 1
    /\ Goto(q, Idle)
    /\ UNCHANGED <<users, now, sent, listVars>>

DeleteRemediation(q, r) ==
    /\ Begin(q)
    /\ rows' = [rows EXCEPT ![r].deleted = TRUE]
    /\ writes' = writes + 1
    /\ UNCHANGED <<was, users, now, req, listVars>>

-----------------------------------------------------------------------------
(* The clock and the cache.                                                *)

Tick ==
    /\ now < MaxTime + 1
    /\ now' = now + 1
    /\ UNCHANGED <<rows, was, users, req, sent, writes, listVars>>

\* A miss, or the refresh that follows a hit, reads a list ...
Load(l) ==
    /\ loading[l] = None
    /\ loading' = [loading EXCEPT ![l] = [saw |-> writes, overtaken |-> FALSE]]
    /\ UNCHANGED <<rows, was, users, now, req, sent, writes, entry, promised>>

\* ... and stores it.
Store(l) ==
    /\ loading[l] # None
    /\ entry' = [entry EXCEPT ![l] = loading[l]]
    /\ loading' = [loading EXCEPT ![l] = None]
    /\ UNCHANGED <<rows, was, users, now, req, sent, writes, promised>>

Expire(l) ==
    /\ entry[l] # None
    /\ entry' = [entry EXCEPT ![l] = None]
    /\ UNCHANGED <<rows, was, users, now, req, sent, writes, loading, promised>>

Mutation(q) ==
    \/ \E input \in Inputs : CreateRemediation(q, input)
    \/ Check(q) \/ Insert(q) \/ Invalidate(q)
    \/ \E r \in DOMAIN rows, input \in Changes : UpdateRemediation(q, r, input)
    \/ Look(q) \/ Update(q)
    \/ \E r \in DOMAIN rows : DeleteRemediation(q, r)

Next ==
    \/ \E q \in Requests : Mutation(q)
    \/ Tick
    \/ \E l \in Lists : Load(l) \/ Store(l) \/ Expire(l)

Spec == Init /\ [][Next]_vars

-----------------------------------------------------------------------------
Cached == [saw : Nat, overtaken : BOOLEAN] \cup {None}

Contents == [component : Components, type : Types, url : Urls \cup {None},
             expires : Dates \cup {Never}]

Rows == [component : Components, type : Types, url : Urls \cup {None},
         expires : Dates \cup {Never}, deleted : BOOLEAN, edited : BOOLEAN,
         known : Nat, asOf : Nat]

\* Types.
TypeOK ==
    /\ rows \in Seq(Rows)
    /\ was \in Seq(SUBSET Contents) /\ Len(was) = Len(rows)
    /\ \A r \in DOMAIN rows : rows[r].known < r /\ Content(rows[r]) \in was[r]
    /\ users \subseteq Users /\ now \in 0 .. MaxTime + 1
    /\ DOMAIN req = Requests
    /\ writes \in Nat /\ sent \in 0 .. MaxRequests /\ promised \in 0 .. writes
    /\ entry \in [Lists -> Cached] /\ loading \in [Lists -> Cached]

\* "A remediation of this type is already in progress; the new expiration date
\* must be later than the existing one": of two remediations of one kind that are
\* not deleted, the later one extends the earlier one or came after it expired,
\* unless it was checked before the earlier one was there or an update, which
\* checks nothing of the kind, touched one of them.
LaterOnesExtend ==
    \A r, s \in DOMAIN rows :
        /\ r <= rows[s].known
        /\ ~rows[r].deleted /\ ~rows[s].deleted /\ ~rows[r].edited /\ ~rows[s].edited
        /\ rows[r].component = rows[s].component /\ rows[r].type = rows[s].type
        => /\ rows[r].expires # Never
           /\ rows[r].expires < rows[s].asOf \/ rows[r].expires < rows[s].expires

\* "URL is required for risk accepted remediation": whatever earlier content of a
\* row an update has read from the cache or before another one wrote, no
\* accepted risk is left without a URL.
RiskAcceptedHasURL ==
    \A r \in DOMAIN rows : rows[r].type = "risk_accepted" => rows[r].url # None

\* An update that completes its input with the row as it still is when it writes
\* changes no column its input does not name.  (With what it read from the cache
\* or before another write it sets the URL back.)
UnnamedColumnsKept ==
    [][\A q \in Requests :
         req[q].at = "update" /\ req'[q] # req[q] /\ req[q].seen = Content(rows[req[q].id]) =>
           \A f \in DOMAIN req[q].seen :
             req[q].input[f] = None => rows'[req[q].id][f] = rows[req[q].id][f]]_vars

\* Once a create has removed its keys and returned, every cached list that is read
\* by the id of its issue shows it, unless the query of the list was under way when
\* the handler removed the keys.  (The lists of ListRemediations are not removed,
\* and after an error of the cache none is promised anything.)
CreateVisible ==
    \A l \in IssueLists : entry[l] # None /\ entry[l].saw < promised => entry[l].overtaken
-----------------------------------------------------------------------------
(* The inductive invariant behind the four.                                *)

News == [component : Components, type : Types \cup {"unknown"}, url : Urls \cup {None},
         expires : Dates \cup {Never}]

\* What the check found of the rows it looked at, and nothing takes back.
ExtendsKnown(new, known, asOf) ==
    \A r \in 1 .. known :
        /\ ~rows[r].deleted /\ ~rows[r].edited
        /\ rows[r].component = new.component /\ rows[r].type = new.type
        => /\ rows[r].expires # Never
           /\ rows[r].expires < asOf \/ rows[r].expires < new.expires

\* What a request has established at each place.
RequestOK(q) ==
    /\ req[q].at \in {"idle", "check", "insert", "invalidate", "look", "update"}
    /\ req[q].at \in {"check", "insert"} =>
          /\ req[q].new \in News
          /\ req[q].new.type = "risk_accepted" => req[q].new.url # None
    /\ req[q].at = "insert" =>
          /\ req[q].known \in 0 .. Len(rows) /\ req[q].asOf \in Nat
          /\ ExtendsKnown(req[q].new, req[q].known, req[q].asOf)
    /\ req[q].at = "invalidate" => req[q].wrote \in 0 .. writes
    /\ req[q].at \in {"look", "update"} => req[q].id \in 1 .. Len(rows) /\ req[q].input \in Changes
    /\ req[q].at = "update" =>
          /\ req[q].url \in Urls \cup {None}
          /\ req[q].url = FinalUrl(req[q].input, req[q].seen)
          /\ req[q].input.type = "risk_accepted" => req[q].url = "valid"

\* A list that is older than a create that removed its keys was read before it did.
ListOK(list) == list # None /\ list.saw < promised => list.overtaken

RemediationInv ==
    /\ TypeOK
    /\ \A q \in Requests : RequestOK(q)
    /\ RiskAcceptedHasURL
    /\ LaterOnesExtend
    /\ \A l \in IssueLists : ListOK(entry[l]) /\ ListOK(loading[l])
=============================================================================
