-------------------------- MODULE RemediationsProofs --------------------------
(***************************************************************************)
(* Theorems about Remediations, for any number of requests, rows, inputs   *)
(* and dates.                                                              *)
(*                                                                         *)
(* The argument: what a request has established when it looked is kept     *)
(* until it writes.  A row that was out of the way stays so unless it is   *)
(* edited; an update that sets the type "risk_accepted" holds a valid URL  *)
(* from its look on; and a list of the issue that is stored after the      *)
(* removal of its key, without having seen the create, was marked by it.   *)
(***************************************************************************)
EXTENDS Remediations, TLAPS

LEMMA InitInv == Init => RemediationInv
<1> SUFFICES ASSUME Init PROVE RemediationInv
  OBVIOUS
<1>1. TypeOK
  BY RemediationsAssumption DEF Init, TypeOK, Cached
<1>2. \A q \in Requests : RequestOK(q)
  BY DEF Init, Idle, RequestOK
<1>3. RiskAcceptedHasURL /\ LaterOnesExtend
  BY DEF Init, RiskAcceptedHasURL, LaterOnesExtend
<1>4. \A l \in IssueLists : ListOK(entry[l]) /\ ListOK(loading[l])
  BY DEF Init, Lists, ListOK
<1> QED
  BY <1>1, <1>2, <1>3, <1>4 DEF RemediationInv

\* A step that leaves the table and the lists alone and moves one request.
LEMMA MoveLemma ==
    ASSUME RemediationInv, NEW q \in Requests, NEW step, Goto(q, step),
           UNCHANGED <<rows, was, now, writes, listVars>>,
           users' \subseteq Users, sent' \in 0 .. MaxRequests, RequestOK(q)'
    PROVE  RemediationInv'
<1> USE DEF RemediationInv
<1>1. TypeOK'
  BY DEF TypeOK, Goto, listVars, Content
<1>2. ASSUME NEW p \in Requests PROVE RequestOK(p)'
  <2>1. CASE p = q
    BY <2>1
  <2>2. CASE p # q
    BY <2>2 DEF Goto, RequestOK, ExtendsKnown, FinalUrl, TypeOK
  <2> QED
    BY <2>1, <2>2
<1>3. RiskAcceptedHasURL' /\ LaterOnesExtend'
  BY DEF RiskAcceptedHasURL, LaterOnesExtend
<1>4. \A l \in IssueLists : ListOK(entry[l])' /\ ListOK(loading[l])'
  BY DEF ListOK, listVars
<1> QED
  BY <1>1, <1>2, <1>3, <1>4

LEMMA CreateStep ==
    ASSUME RemediationInv, NEW q \in Requests, NEW input \in Inputs, CreateRemediation(q, input)
    PROVE  RemediationInv'
<1> DEFINE new == [Content(input) EXCEPT !.type = NewRemediationType(@)]
           step == IF input.type = "risk_accepted" /\ input.url = None THEN Idle
                   ELSE [at |-> "check", new |-> new]
<1>1. /\ input.component \in Components /\ input.type \in Types \cup {None}
      /\ input.url \in Urls \cup {None} /\ input.expires \in Dates \cup {Never}
      /\ input.by \in Users \cup {None}
  BY RemediationsAssumption
<1>2. new = [component |-> input.component, type |-> NewRemediationType(input.type),
             url |-> input.url, expires |-> input.expires]
  BY DEF Content
<1>3. new \in News /\ (new.type = "risk_accepted" => input.type = "risk_accepted")
  BY <1>1, <1>2 DEF News, NewRemediationType, Types
<1>4. Goto(q, step) /\ req'[q] = step
  BY DEF CreateRemediation, Goto, RemediationInv, TypeOK
<1>5. new.url = input.url
  BY <1>2
<1> HIDE DEF new
<1>6. RequestOK(q)'
  BY <1>3, <1>4, <1>5 DEF RequestOK, Idle
<1>7. users' \subseteq Users /\ sent' \in 0 .. MaxRequests
  BY <1>1, RemediationsAssumption DEF CreateRemediation, Begin, RemediationInv, TypeOK
<1> HIDE DEF step
<1> QED
  BY <1>4, <1>6, <1>7, MoveLemma DEF CreateRemediation

\* A row that is not in the way is extended, or has expired by now.
LEMMA CheckStep ==
    ASSUME RemediationInv, NEW q \in Requests, Check(q)
    PROVE  RemediationInv'
<1> DEFINE new == req[q].new
           insert == [at |-> "insert", new |-> new, known |-> Len(rows), asOf |-> now]
           step == IF \E r \in DOMAIN rows : InTheWay(rows[r], new) THEN Idle ELSE insert
<1>1. /\ new \in News /\ (new.type = "risk_accepted" => new.url # None)
      /\ rows \in Seq(Rows) /\ now \in Nat /\ Len(rows) \in Nat
  BY DEF Check, RemediationInv, RequestOK, TypeOK
<1>2. Goto(q, step) /\ req'[q] = step /\ UNCHANGED rows
  BY DEF Check, Goto, RemediationInv, TypeOK
<1>3. ASSUME ~\E r \in DOMAIN rows : InTheWay(rows[r], new)
      PROVE  ExtendsKnown(new, Len(rows), now)
  <2> SUFFICES ASSUME NEW r \in 1 .. Len(rows), ~rows[r].deleted,
                      rows[r].component = new.component, rows[r].type = new.type
               PROVE  /\ rows[r].expires # Never
                      /\ rows[r].expires < now \/ rows[r].expires < new.expires
    BY DEF ExtendsKnown
  <2>1. r \in DOMAIN rows /\ rows[r] \in Rows
    BY <1>1
  <2>2. ~InTheWay(rows[r], new)
    BY <1>3, <2>1
  <2>3. rows[r].expires \in Int /\ new.expires \in Int
    BY <1>1, <2>1, RemediationsAssumption DEF Rows, News, Dates, Never
  <2> QED
    BY <1>1, <2>2, <2>3 DEF InTheWay, IsExpired
<1> HIDE DEF new
<1>4. RequestOK(q)'
  <2>1. CASE \E r \in DOMAIN rows : InTheWay(rows[r], new)
    BY <1>2, <2>1 DEF RequestOK, Idle
  <2>2. CASE ~\E r \in DOMAIN rows : InTheWay(rows[r], new)
    <3>1. /\ req'[q].at = "insert" /\ req'[q].new = new /\ req'[q].known = Len(rows)
          /\ req'[q].asOf = now
      BY <1>2, <2>2
    <3>2. ExtendsKnown(req[q].new, req[q].known, req[q].asOf)'
      BY <1>2, <1>3, <2>2, <3>1 DEF ExtendsKnown
    <3>3. req'[q].known \in 0 .. Len(rows') /\ req'[q].asOf \in Nat
      BY <1>1, <1>2, <3>1
    <3> QED
      BY <1>1, <3>1, <3>2, <3>3 DEF RequestOK
  <2> QED
    BY <2>1, <2>2
<1>5. users' \subseteq Users /\ sent' \in 0 .. MaxRequests
  BY DEF Check, RemediationInv, TypeOK
<1> HIDE DEF step
<1> QED
  BY <1>2, <1>4, <1>5, MoveLemma DEF Check

LEMMA UpdateRequestStep ==
    ASSUME RemediationInv, NEW q \in Requests, NEW r \in DOMAIN rows, NEW input \in Changes,
           UpdateRemediation(q, r, input)
    PROVE  RemediationInv'
<1> DEFINE step == [at |-> "look", id |-> r, input |-> input]
<1>1. Goto(q, step) /\ req'[q] = step /\ r \in 1 .. Len(rows) /\ UNCHANGED rows
  BY DEF UpdateRemediation, Goto, RemediationInv, TypeOK
<1>2. RequestOK(q)'
  BY <1>1 DEF RequestOK
<1>3. users' \subseteq Users /\ sent' \in 0 .. MaxRequests
  BY RemediationsAssumption DEF UpdateRemediation, Begin, RemediationInv, TypeOK
<1> HIDE DEF step
<1> QED
  BY <1>1, <1>2, <1>3, MoveLemma DEF UpdateRemediation

\* Whatever content of the row is seen, an update that makes it an accepted risk
\* goes on with a valid URL only.
LEMMA LookStep ==
    ASSUME RemediationInv, NEW q \in Requests, Look(q)
    PROVE  RemediationInv'
<1>1. /\ req[q].at = "look" /\ req[q].id \in 1 .. Len(rows) /\ req[q].input \in Changes
      /\ was \in Seq(SUBSET Contents) /\ Len(was) = Len(rows) /\ DOMAIN req = Requests
  BY DEF Look, RemediationInv, RequestOK, TypeOK
<1>2. users' \subseteq Users /\ sent' \in 0 .. MaxRequests
  BY DEF Look, RemediationInv, TypeOK
<1>3. CASE Goto(q, Idle)
  <2>1. RequestOK(q)'
    BY <1>1, <1>3 DEF Goto, Idle, RequestOK
  <2> QED
    BY <1>2, <1>3, <2>1, MoveLemma DEF Look
<1>4. ASSUME NEW seen \in was[req[q].id],
             ~(FinalType(req[q].input) = "risk_accepted" /\ FinalUrl(req[q].input, seen) # "valid"),
             Goto(q, [at |-> "update", id |-> req[q].id, seen |-> seen, input |-> req[q].input,
                      url |-> FinalUrl(req[q].input, seen)])
      PROVE  RemediationInv'
  <2> DEFINE step == [at |-> "update", id |-> req[q].id, seen |-> seen, input |-> req[q].input,
                      url |-> FinalUrl(req[q].input, seen)]
  <2>1. seen \in Contents
    BY <1>1, <1>4
  <2>2. FinalUrl(req[q].input, seen) \in Urls \cup {None}
    BY <1>1, <2>1, RemediationsAssumption DEF Contents, FinalUrl, Given
  <2>3. req[q].input.type = "risk_accepted" => FinalUrl(req[q].input, seen) = "valid"
    BY <1>4 DEF FinalType, NewRemediationType, Types
  <2>4. /\ req'[q].at = "update" /\ req'[q].id = req[q].id /\ req'[q].seen = seen
        /\ req'[q].input = req[q].input /\ req'[q].url = FinalUrl(req[q].input, seen)
    BY <1>1, <1>4 DEF Goto
  <2>5. FinalUrl(req[q].input, req[q].seen)' = FinalUrl(req[q].input, seen)
    BY <2>4 DEF FinalUrl
  <2>6. RequestOK(q)'
    BY <1>1, <2>2, <2>3, <2>4, <2>5 DEF RequestOK, Look
  <2> QED
    BY <1>2, <1>4, <2>6, MoveLemma DEF Look
<1> QED
  BY <1>3, <1>4 DEF Look

-----------------------------------------------------------------------------
(* The steps that write.                                                   *)

\* A row that a write leaves neither deleted nor edited is as it was.
Kept == /\ Len(rows) <= Len(rows')
        /\ \A r \in 1 .. Len(rows) :
              rows'[r] = rows[r] \/ rows'[r].deleted \/ rows'[r].edited

\* What the other requests know stays true.
LEMMA OthersLemma ==
    ASSUME RemediationInv, Kept, rows' \in Seq(Rows), writes' \in Nat, writes <= writes',
           NEW p \in Requests, req'[p] = req[p]
    PROVE  RequestOK(p)'
<1>1. RequestOK(p) /\ rows \in Seq(Rows) /\ writes \in Nat /\ Len(rows) <= Len(rows')
      /\ Len(rows) \in Nat /\ Len(rows') \in Nat
  BY DEF RemediationInv, TypeOK, Kept
<1>2. req[p].at = "insert" => ExtendsKnown(req[p].new, req[p].known, req[p].asOf)'
  <2> SUFFICES ASSUME req[p].at = "insert", NEW r \in 1 .. req[p].known,
                      ~rows'[r].deleted, ~rows'[r].edited,
                      rows'[r].component = req[p].new.component, rows'[r].type = req[p].new.type
               PROVE  /\ rows'[r].expires # Never
                      /\ rows'[r].expires < req[p].asOf \/ rows'[r].expires < req[p].new.expires
    BY DEF ExtendsKnown
  <2>1. req[p].known \in 0 .. Len(rows) /\ ExtendsKnown(req[p].new, req[p].known, req[p].asOf)
    BY <1>1 DEF RequestOK
  <2>2. rows'[r] = rows[r]
    BY <1>1, <2>1 DEF Kept
  <2> QED
    BY <2>1, <2>2 DEF ExtendsKnown
<1>3. FinalUrl(req[p].input, req[p].seen)' = FinalUrl(req[p].input, req[p].seen)
  BY DEF FinalUrl
<1> QED
  BY <1>1, <1>2, <1>3 DEF RequestOK

\* The rows that were there extend each other as before.
LEMMA ExtendLemma ==
    ASSUME RemediationInv, Kept, rows' \in Seq(Rows),
           NEW r \in 1 .. Len(rows'), NEW s \in 1 .. Len(rows), r <= rows'[s].known,
           ~rows'[r].deleted, ~rows'[s].deleted, ~rows'[r].edited, ~rows'[s].edited,
           rows'[r].component = rows'[s].component, rows'[r].type = rows'[s].type
    PROVE  /\ rows'[r].expires # Never
           /\ rows'[r].expires < rows'[s].asOf \/ rows'[r].expires < rows'[s].expires
<1>1. rows \in Seq(Rows) /\ Len(rows) \in Nat
  BY DEF RemediationInv, TypeOK
<1>2. rows'[s] = rows[s]
  BY DEF Kept
<1>3. s \in DOMAIN rows /\ rows[s].known < s /\ rows[s] \in Rows
  BY <1>1 DEF RemediationInv, TypeOK
<1>4. r \in 1 .. Len(rows) /\ r \in DOMAIN rows
  <2>1. rows[s].known \in Nat /\ Len(rows') \in Nat
    BY <1>3 DEF Rows
  <2>2. r \in 1 .. Len(rows)
    BY <1>1, <1>2, <1>3, <2>1
  <2> QED
    BY <1>1, <2>2
<1>5. rows'[r] = rows[r]
  BY <1>4 DEF Kept
<1> QED
  BY <1>2, <1>3, <1>4, <1>5 DEF RemediationInv, LaterOnesExtend

\* The new row extends what its check had looked at.
LEMMA InsertStep ==
    ASSUME RemediationInv, NEW q \in Requests, Insert(q)
    PROVE  RemediationInv'
<1>1. CASE ~InEnum(req[q].new.type) /\ Goto(q, Idle) /\ UNCHANGED <<rows, was, writes>>
  <2>1. RequestOK(q)' /\ users' \subseteq Users /\ sent' \in 0 .. MaxRequests
    BY <1>1 DEF Insert, Goto, Idle, RequestOK, RemediationInv, TypeOK
  <2> QED
    BY <1>1, <2>1, MoveLemma DEF Insert
<1>2. CASE /\ InEnum(req[q].new.type)
           /\ rows' = Append(rows, NewRow(q))
           /\ was' = Append(was, {req[q].new})
           /\ writes' = writes + 1
           /\ Goto(q, [at |-> "invalidate", wrote |-> writes + 1])
  <2> DEFINE new == req[q].new
             row == NewRow(q)
  <2>1. /\ new \in News /\ (new.type = "risk_accepted" => new.url # None)
        /\ req[q].known \in 0 .. Len(rows) /\ req[q].asOf \in Nat
        /\ ExtendsKnown(new, req[q].known, req[q].asOf)
    BY DEF Insert, RemediationInv, RequestOK
  <2>2. /\ rows \in Seq(Rows) /\ Len(rows) \in Nat /\ writes \in Nat /\ DOMAIN req = Requests
        /\ was \in Seq(SUBSET Contents) /\ Len(was) = Len(rows)
    BY DEF RemediationInv, TypeOK
  <2>3. new \in Contents
    BY <1>2, <2>1 DEF News, Contents, InEnum
  <2>4. /\ row \in Rows /\ Content(row) = new /\ ~row.deleted /\ ~row.edited
        /\ row.component = new.component /\ row.type = new.type /\ row.url = new.url
        /\ row.expires = new.expires /\ row.known = req[q].known /\ row.asOf = req[q].asOf
    BY <2>1, <2>2, <2>3 DEF NewRow, Rows, Contents, Content
  <2> HIDE DEF new, row
  <2>5. /\ rows' \in Seq(Rows) /\ Len(rows') = Len(rows) + 1 /\ rows'[Len(rows) + 1] = row
        /\ \A r \in 1 .. Len(rows) : rows'[r] = rows[r]
    BY <1>2, <2>2, <2>4 DEF row
  <2>6. /\ was' \in Seq(SUBSET Contents) /\ Len(was') = Len(rows')
        /\ was'[Len(rows) + 1] = {new}
        /\ \A r \in 1 .. Len(rows) : was'[r] = was[r]
    BY <1>2, <2>2, <2>3, <2>5 DEF new
  <2>7. Kept
    BY <2>2, <2>5 DEF Kept
  <2>8. TypeOK'
    <3>1. ASSUME NEW r \in 1 .. Len(rows) + 1
          PROVE  rows'[r].known < r /\ Content(rows'[r]) \in was'[r]
      <4>1. CASE r = Len(rows) + 1
        BY <2>1, <2>2, <2>4, <2>5, <2>6, <4>1
      <4>2. CASE r \in 1 .. Len(rows)
        BY <2>2, <2>5, <2>6, <4>2 DEF RemediationInv, TypeOK
      <4> QED
        BY <2>2, <4>1, <4>2
    <3>2. \A r \in DOMAIN rows' : rows'[r].known < r /\ Content(rows[r])' \in was'[r]
      <4>1. DOMAIN rows' = 1 .. Len(rows) + 1
        BY <2>2, <2>5
      <4>2. \A r : Content(rows[r])' = Content(rows'[r])
        BY DEF Content
      <4> QED
        BY <3>1, <4>1, <4>2
    <3>3. DOMAIN req' = Requests /\ writes' \in Nat /\ promised' \in 0 .. writes'
      BY <1>2, <2>2 DEF Goto, Insert, listVars, RemediationInv, TypeOK
    <3> QED
      BY <2>5, <2>6, <3>2, <3>3 DEF TypeOK, Insert, listVars, RemediationInv
  <2>9. ASSUME NEW p \in Requests PROVE RequestOK(p)'
    <3>1. CASE p = q
      BY <1>2, <2>2, <3>1 DEF Goto, RequestOK
    <3>2. CASE p # q
      BY <1>2, <2>2, <2>5, <2>7, <3>2, OthersLemma DEF Goto
    <3> QED
      BY <3>1, <3>2
  <2>10. RiskAcceptedHasURL'
    <3> SUFFICES ASSUME NEW r \in 1 .. Len(rows) + 1, rows'[r].type = "risk_accepted"
                 PROVE  rows'[r].url # None
      BY <2>2, <2>5 DEF RiskAcceptedHasURL
    <3>1. CASE r = Len(rows) + 1
      BY <2>1, <2>4, <2>5, <3>1 DEF new
    <3>2. CASE r \in 1 .. Len(rows)
      BY <2>2, <2>5, <3>2 DEF RemediationInv, RiskAcceptedHasURL
    <3> QED
      BY <2>2, <3>1, <3>2
  <2>11. LaterOnesExtend'
    <3> SUFFICES ASSUME NEW r \in 1 .. Len(rows'), NEW s \in 1 .. Len(rows'), r <= rows'[s].known,
                        ~rows'[r].deleted, ~rows'[s].deleted, ~rows'[r].edited, ~rows'[s].edited,
                        rows'[r].component = rows'[s].component, rows'[r].type = rows'[s].type
                 PROVE  /\ rows'[r].expires # Never
                        /\ rows'[r].expires < rows'[s].asOf \/ rows'[r].expires < rows'[s].expires
      BY <2>5 DEF LaterOnesExtend
    <3>1. CASE s \in 1 .. Len(rows)
      BY <2>5, <2>7, <3>1, ExtendLemma
    <3>2. CASE s = Len(rows) + 1
      <4>1. rows'[s] = row
        BY <2>5, <3>2
      <4>2. r \in 1 .. req[q].known /\ r \in 1 .. Len(rows)
        BY <2>1, <2>2, <2>4, <2>5, <4>1
      <4>3. rows'[r] = rows[r]
        BY <2>5, <4>2
      <4> QED
        BY <2>1, <2>4, <4>1, <4>2, <4>3 DEF ExtendsKnown
    <3> QED
      BY <2>2, <2>5, <3>1, <3>2
  <2>12. \A l \in IssueLists : ListOK(entry[l])' /\ ListOK(loading[l])'
    BY DEF ListOK, Insert, listVars, RemediationInv
  <2> QED
    BY <2>8, <2>9, <2>10, <2>11, <2>12 DEF RemediationInv
<1> QED
  BY <1>1, <1>2 DEF Insert

\* The lists of the issue are gone, and their queries under way are marked; after
\* an error of the cache nothing is promised.
LEMMA InvalidateStep ==
    ASSUME RemediationInv, NEW q \in Requests, Invalidate(q)
    PROVE  RemediationInv'
<1>1. /\ req[q].wrote \in 0 .. writes /\ promised \in 0 .. writes /\ writes \in Nat
      /\ DOMAIN req = Requests /\ entry \in [Lists -> Cached] /\ loading \in [Lists -> Cached]
      /\ UNCHANGED <<rows, was, users, now, sent, writes>> /\ Goto(q, Idle)
  BY DEF Invalidate, RemediationInv, RequestOK, TypeOK
<1>2. promised' \in 0 .. writes
  BY <1>1 DEF Invalidate
<1>3. None \in Cached
  BY DEF Cached
<1>4. ASSUME NEW list \in Cached, list # None
      PROVE  LET marked == [list EXCEPT !.overtaken = TRUE]
             IN  marked \in Cached /\ marked.overtaken
  BY <1>4 DEF Cached
<1>5. ASSUME RemoveKeys
      PROVE  /\ entry' \in [Lists -> Cached] /\ loading' \in [Lists -> Cached]
             /\ \A l \in IssueLists : ListOK(entry[l])' /\ ListOK(loading[l])'
  <2>1. /\ entry' = [l \in Lists |-> IF l \in IssueLists THEN None ELSE entry[l]]
        /\ loading' = [l \in Lists |->
               IF l \in IssueLists /\ loading[l] # None THEN [loading[l] EXCEPT !.overtaken = TRUE]
               ELSE loading[l]]
    BY <1>5 DEF RemoveKeys, Matching
  <2>2. ASSUME NEW l \in Lists PROVE entry'[l] \in Cached /\ loading'[l] \in Cached
    BY <1>1, <1>3, <1>4, <2>1
  <2>3. entry' \in [Lists -> Cached] /\ loading' \in [Lists -> Cached]
    BY <2>1, <2>2
  <2>4. ASSUME NEW l \in IssueLists PROVE ListOK(entry[l])' /\ ListOK(loading[l])'
    <3>1. l \in Lists /\ entry'[l] = None
      BY <2>1 DEF Lists
    <3>2. loading'[l] = None \/ loading'[l].overtaken
      BY <1>1, <1>4, <2>1, <3>1
    <3> QED
      BY <3>1, <3>2 DEF ListOK
  <2> QED
    BY <2>3, <2>4
<1>6. ASSUME RemoveSomeKeys, promised' = promised
      PROVE  /\ entry' \in [Lists -> Cached] /\ loading' \in [Lists -> Cached]
             /\ \A l \in IssueLists : ListOK(entry[l])' /\ ListOK(loading[l])'
  <2> PICK gone : entry' = [l \in Lists |-> IF l \in gone THEN None ELSE entry[l]]
    BY <1>6 DEF RemoveSomeKeys
  <2>1. loading' = loading
    BY <1>6 DEF RemoveSomeKeys
  <2>2. entry' \in [Lists -> Cached] /\ loading' \in [Lists -> Cached]
    BY <1>1, <1>3, <2>1
  <2>3. ASSUME NEW l \in IssueLists PROVE ListOK(entry[l])' /\ ListOK(loading[l])'
    <3>1. entry'[l] \in {None, entry[l]}
      BY DEF Lists
    <3> QED
      BY <1>6, <2>1, <3>1 DEF ListOK, RemediationInv
  <2> QED
    BY <2>2, <2>3
<1>7. /\ entry' \in [Lists -> Cached] /\ loading' \in [Lists -> Cached]
      /\ \A l \in IssueLists : ListOK(entry[l])' /\ ListOK(loading[l])'
  BY <1>5, <1>6 DEF Invalidate
<1>8. TypeOK'
  BY <1>1, <1>2, <1>7 DEF TypeOK, RemediationInv, Goto, Content
<1>9. ASSUME NEW p \in Requests PROVE RequestOK(p)'
  <2>1. CASE p = q
    BY <1>1, <2>1 DEF Goto, Idle, RequestOK
  <2>2. CASE p # q
    BY <1>1, <2>2 DEF Goto, RequestOK, RemediationInv, ExtendsKnown, FinalUrl
  <2> QED
    BY <2>1, <2>2
<1>10. RiskAcceptedHasURL' /\ LaterOnesExtend'
  BY <1>1 DEF RemediationInv, RiskAcceptedHasURL, LaterOnesExtend
<1> QED
  BY <1>7, <1>8, <1>9, <1>10 DEF RemediationInv

\* One row is written over; it is deleted or edited then.
LEMMA WriteLemma ==
    ASSUME RemediationInv, NEW r \in 1 .. Len(rows), NEW row \in Rows, NEW contents,
           row.deleted \/ row.edited,
           row.known = rows[r].known, Content(row) \in contents, contents \in SUBSET Contents,
           row.type = "risk_accepted" => row.url # None,
           rows' = [rows EXCEPT ![r] = row], was' = [was EXCEPT ![r] = contents],
           writes' = writes + 1, UNCHANGED <<users, now, listVars>>,
           sent' \in 0 .. MaxRequests, DOMAIN req' = Requests,
           \A p \in Requests : req'[p] = req[p] \/ req'[p] = Idle
    PROVE  RemediationInv'
<1>1. /\ rows \in Seq(Rows) /\ Len(rows) \in Nat /\ writes \in Nat
      /\ was \in Seq(SUBSET Contents) /\ Len(was) = Len(rows) /\ promised \in 0 .. writes
  BY DEF RemediationInv, TypeOK
<1>2. /\ rows' \in Seq(Rows) /\ Len(rows') = Len(rows) /\ rows'[r] = row
      /\ \A s \in 1 .. Len(rows) : s # r => rows'[s] = rows[s]
  BY <1>1
<1>3. /\ was' \in Seq(SUBSET Contents) /\ Len(was') = Len(rows) /\ was'[r] = contents
      /\ \A s \in 1 .. Len(rows) : s # r => was'[s] = was[s]
  BY <1>1
<1>4. Kept
  BY <1>1, <1>2 DEF Kept
<1>5. DOMAIN rows' = 1 .. Len(rows) /\ DOMAIN rows = 1 .. Len(rows)
  BY <1>1, <1>2
<1>6. TypeOK'
  <2>1. ASSUME NEW s \in 1 .. Len(rows)
        PROVE  rows'[s].known < s /\ Content(rows'[s]) \in was'[s]
    BY <1>2, <1>3, <1>5 DEF RemediationInv, TypeOK
  <2>2. \A s : Content(rows[s])' = Content(rows'[s])
    BY DEF Content
  <2>3. writes' \in Nat /\ promised' \in 0 .. writes'
    BY <1>1 DEF listVars
  <2> QED
    BY <1>2, <1>3, <1>5, <2>1, <2>2, <2>3 DEF TypeOK, listVars, RemediationInv
<1>7. ASSUME NEW p \in Requests PROVE RequestOK(p)'
  <2>1. CASE req'[p] = req[p]
    BY <1>1, <1>2, <1>4, <2>1, OthersLemma
  <2>2. CASE req'[p] = Idle
    BY <2>2 DEF RequestOK, Idle
  <2> QED
    BY <2>1, <2>2
<1>8. RiskAcceptedHasURL'
  BY <1>2, <1>5 DEF RemediationInv, RiskAcceptedHasURL
<1>9. LaterOnesExtend'
  BY <1>2, <1>4, <1>5, ExtendLemma DEF LaterOnesExtend
<1>10. \A l \in IssueLists : ListOK(entry[l])' /\ ListOK(loading[l])'
  BY DEF ListOK, listVars, RemediationInv
<1> QED
  BY <1>6, <1>7, <1>8, <1>9, <1>10 DEF RemediationInv

\* What UpdateRow makes of a row, column by column.
LEMMA RowLemma ==
    ASSUME NEW row \in Rows, NEW input \in Changes, NEW url \in Urls \cup {None}
    PROVE  LET n == UpdateRow(row, input, url)
           IN  /\ n \in Rows /\ n.edited /\ n.known = row.known
               /\ n.component = Given(input.component, row.component)
               /\ n.type = Given(input.type, row.type)
               /\ n.url = Given(url, row.url)
               /\ n.expires = Given(input.expires, row.expires)
<1>1. /\ Given(input.component, row.component) \in Components
      /\ Given(input.type, row.type) \in Types /\ Given(url, row.url) \in Urls \cup {None}
      /\ Given(input.expires, row.expires) \in Dates \cup {Never}
  BY RemediationsAssumption DEF Given, Rows
<1> DEFINE n == UpdateRow(row, input, url)
<1>2. /\ n.component = Given(input.component, row.component)
      /\ n.type = Given(input.type, row.type) /\ n.url = Given(url, row.url)
      /\ n.expires = Given(input.expires, row.expires) /\ n.known = row.known
  BY DEF UpdateRow, Rows
<1>3. n.edited
  BY DEF UpdateRow, Rows
<1>4. n \in Rows
  BY <1>1 DEF UpdateRow, Rows
<1> QED
  BY <1>2, <1>3, <1>4

LEMMA UpdateStep ==
    ASSUME RemediationInv, NEW q \in Requests, Update(q)
    PROVE  RemediationInv'
<1> DEFINE r == req[q].id
           row == UpdateRow(rows[r], req[q].input, req[q].url)
           contents == was[r] \cup {Content(row)}
<1>1. /\ r \in 1 .. Len(rows) /\ req[q].input \in Changes /\ req[q].url \in Urls \cup {None}
      /\ req[q].input.type = "risk_accepted" => req[q].url = "valid"
      /\ rows \in Seq(Rows) /\ was \in Seq(SUBSET Contents) /\ Len(was) = Len(rows)
  BY DEF Update, RemediationInv, RequestOK, TypeOK
<1>2. /\ rows[r] \in Rows /\ was[r] \in SUBSET Contents
      /\ rows[r].type = "risk_accepted" => rows[r].url # None
  BY <1>1 DEF RemediationInv, RiskAcceptedHasURL
<1>3. /\ row \in Rows /\ row.edited /\ row.known = rows[r].known
      /\ row.type = Given(req[q].input.type, rows[r].type)
      /\ row.url = Given(req[q].url, rows[r].url)
  BY <1>1, <1>2, RowLemma
<1>4. row.type = "risk_accepted" => row.url # None
  BY <1>1, <1>2, <1>3, RemediationsAssumption DEF Given, Urls
<1>5. /\ rows' = [rows EXCEPT ![r] = row] /\ was' = [was EXCEPT ![r] = contents]
      /\ writes' = writes + 1 /\ UNCHANGED <<users, now, listVars>>
      /\ sent' \in 0 .. MaxRequests /\ DOMAIN req' = Requests
      /\ \A p \in Requests : req'[p] = req[p] \/ req'[p] = Idle
  BY <1>1 DEF Update, Goto, RemediationInv, TypeOK
<1>6. Content(row) \in contents /\ contents \in SUBSET Contents
  <2>1. Content(row) \in Contents
    BY <1>3 DEF Content, Contents, Rows
  <2> QED
    BY <1>2, <2>1
<1> HIDE DEF row, contents
<1> QED
  BY <1>1, <1>3, <1>4, <1>5, <1>6, WriteLemma

LEMMA DeleteStep ==
    ASSUME RemediationInv, NEW q \in Requests, NEW r \in DOMAIN rows, DeleteRemediation(q, r)
    PROVE  RemediationInv'
<1> DEFINE row == [rows[r] EXCEPT !.deleted = TRUE]
           contents == was[r]
<1>1. /\ rows \in Seq(Rows) /\ r \in 1 .. Len(rows) /\ rows[r] \in Rows
      /\ was \in Seq(SUBSET Contents) /\ Len(was) = Len(rows)
      /\ Content(rows[r]) \in was[r]
  BY DEF RemediationInv, TypeOK
<1>2. row \in Rows /\ row.deleted
  BY <1>1 DEF Rows
<1>3. /\ row.known = rows[r].known /\ row.type = rows[r].type /\ row.url = rows[r].url
      /\ row.component = rows[r].component /\ row.expires = rows[r].expires
  BY <1>1 DEF Rows
<1>4. row.type = "risk_accepted" => row.url # None
  BY <1>1, <1>3 DEF RemediationInv, RiskAcceptedHasURL
<1>5. rows' = [rows EXCEPT ![r] = row] /\ was' = [was EXCEPT ![r] = contents]
  BY <1>1 DEF DeleteRemediation
<1>6. /\ writes' = writes + 1 /\ UNCHANGED <<users, now, listVars>>
      /\ sent' \in 0 .. MaxRequests /\ DOMAIN req' = Requests
      /\ \A p \in Requests : req'[p] = req[p] \/ req'[p] = Idle
  BY RemediationsAssumption DEF DeleteRemediation, Begin, RemediationInv, TypeOK
<1>7. Content(row) = Content(rows[r])
  BY <1>3 DEF Content
<1>8. Content(row) \in contents /\ contents \in SUBSET Contents
  BY <1>1, <1>7
<1> HIDE DEF row, contents
<1> QED
  BY <1>1, <1>2, <1>3, <1>4, <1>5, <1>6, <1>8, WriteLemma

-----------------------------------------------------------------------------
\* A list that is read sees every write so far; what is stored was read before.
LEMMA ListStep ==
    ASSUME RemediationInv, NEW l \in Lists, Load(l) \/ Store(l) \/ Expire(l)
    PROVE  /\ entry' \in [Lists -> Cached] /\ loading' \in [Lists -> Cached]
           /\ \A k \in IssueLists : ListOK(entry[k])' /\ ListOK(loading[k])'
<1>1. /\ entry \in [Lists -> Cached] /\ loading \in [Lists -> Cached]
      /\ writes \in Nat /\ promised \in 0 .. writes /\ promised' = promised
  BY DEF RemediationInv, TypeOK, Load, Store, Expire
<1> DEFINE fresh == [saw |-> writes, overtaken |-> FALSE]
<1>2. fresh \in Cached /\ None \in Cached /\ fresh.saw = writes
  BY <1>1 DEF Cached
<1>3. ASSUME NEW k \in Lists
      PROVE  /\ entry'[k] \in {entry[k], loading[k], None}
             /\ loading'[k] \in {loading[k], None, fresh}
  BY <1>1 DEF Load, Store, Expire
<1> HIDE DEF fresh
<1>4. ASSUME NEW k \in IssueLists PROVE ListOK(entry[k])' /\ ListOK(loading[k])'
  <2>1. k \in Lists /\ ListOK(entry[k]) /\ ListOK(loading[k])
    BY DEF Lists, RemediationInv
  <2> QED
    BY <1>1, <1>2, <1>3, <2>1 DEF ListOK
<1>5. entry' \in [Lists -> Cached] /\ loading' \in [Lists -> Cached]
  <2>1. DOMAIN entry' = Lists /\ entry' = [k \in Lists |-> entry'[k]]
    BY <1>1 DEF Load, Store, Expire
  <2>2. DOMAIN loading' = Lists /\ loading' = [k \in Lists |-> loading'[k]]
    BY <1>1 DEF Load, Store, Expire
  <2>3. ASSUME NEW k \in Lists PROVE entry'[k] \in Cached /\ loading'[k] \in Cached
    BY <1>1, <1>2, <1>3
  <2> QED
    BY <2>1, <2>2, <2>3
<1> QED
  BY <1>4, <1>5

\* The clock and the cache leave the table and the requests alone.
LEMMA OutsideStep ==
    ASSUME RemediationInv,
           Tick \/ (\E l \in Lists : Load(l) \/ Store(l) \/ Expire(l)) \/ UNCHANGED vars
    PROVE  RemediationInv'
<1>1. UNCHANGED <<rows, was, users, req, sent, writes, promised>>
  BY DEF Tick, Load, Store, Expire, listVars, vars
<1>2. now \in 0 .. MaxTime + 1 /\ MaxTime \in Nat /\ writes \in Nat /\ promised \in 0 .. writes
  BY RemediationsAssumption DEF RemediationInv, TypeOK
<1>3. now' \in 0 .. MaxTime + 1
  BY <1>2 DEF Tick, Load, Store, Expire, vars
<1>4. /\ entry' \in [Lists -> Cached] /\ loading' \in [Lists -> Cached]
      /\ \A k \in IssueLists : ListOK(entry[k])' /\ ListOK(loading[k])'
  <2>1. CASE Tick \/ UNCHANGED vars
    <3>1. UNCHANGED listVars
      BY <2>1 DEF Tick, listVars, vars
    <3> QED
      BY <3>1 DEF listVars, ListOK, RemediationInv, TypeOK
  <2>2. CASE \E l \in Lists : Load(l) \/ Store(l) \/ Expire(l)
    BY <2>2, ListStep
  <2> QED
    BY <2>1, <2>2
<1>5. TypeOK'
  BY <1>1, <1>3, <1>4 DEF RemediationInv, TypeOK, Content
<1>6. ASSUME NEW q \in Requests PROVE RequestOK(q)'
  BY <1>1 DEF RemediationInv, RequestOK, ExtendsKnown, FinalUrl
<1>7. RiskAcceptedHasURL' /\ LaterOnesExtend'
  BY <1>1 DEF RemediationInv, RiskAcceptedHasURL, LaterOnesExtend
<1> QED
  BY <1>4, <1>5, <1>6, <1>7 DEF RemediationInv

LEMMA NextInv == RemediationInv /\ [Next]_vars => RemediationInv'
<1> SUFFICES ASSUME RemediationInv, [Next]_vars PROVE RemediationInv'
  OBVIOUS
<1>1. ASSUME NEW q \in Requests, Mutation(q) PROVE RemediationInv'
  BY <1>1, CreateStep, CheckStep, InsertStep, InvalidateStep, UpdateRequestStep, LookStep,
     UpdateStep, DeleteStep DEF Mutation
<1> QED
  BY <1>1, OutsideStep DEF Next

\* The invariant behind the theorems below: what a request established when it
\* looked still holds when it writes.
THEOREM Invariance == Spec => []RemediationInv
<1> QED
  BY InitInv, NextInv, PTL DEF Spec

\* The table, its earlier contents, the requests and the lists keep their types;
\* no row has a type that the ENUM column does not have.
THEOREM TypeCorrect == Spec => []TypeOK
<1>1. RemediationInv => TypeOK
  BY DEF RemediationInv
<1> QED
  BY <1>1, Invariance, PTL

\* CreateRemediation refuses a remediation that does not extend an active one of
\* its kind: rows that neither raced nor were edited extend each other.
THEOREM ExtendsTheEarlier == Spec => []LaterOnesExtend
<1>1. RemediationInv => LaterOnesExtend
  BY DEF RemediationInv
<1> QED
  BY <1>1, Invariance, PTL

\* No accepted risk is left without a URL by any order of creates and updates,
\* whatever contents the updates read from the cache.
THEOREM AcceptedRisksHaveURL == Spec => []RiskAcceptedHasURL
<1>1. RemediationInv => RiskAcceptedHasURL
  BY DEF RemediationInv
<1> QED
  BY <1>1, Invariance, PTL

\* A list read by the id of its issue that misses a create which removed its keys
\* was being read when it did: for any number of lists, requests and writes, and
\* whatever other creates met an error of the cache.
THEOREM CreatesVisible == Spec => []CreateVisible
<1>1. RemediationInv => CreateVisible
  BY DEF RemediationInv, ListOK, CreateVisible
<1> QED
  BY <1>1, Invariance, PTL

\* Only Update moves a request on from "update".
LEMMA LeavesUpdate ==
    ASSUME RemediationInv, [Next]_vars, NEW q \in Requests, req[q].at = "update", req'[q] # req[q]
    PROVE  Update(q)
<1>1. DOMAIN req = Requests
  BY DEF RemediationInv, TypeOK
<1>2. ASSUME NEW p \in Requests, Mutation(p) PROVE Update(q)
  <2>1. CASE p = q
    BY <1>2, <2>1 DEF Mutation, CreateRemediation, Begin, Check, Insert, Invalidate,
       UpdateRemediation, Look, DeleteRemediation
  <2>2. CASE p # q
    <3>1. ASSUME NEW step, Goto(p, step) PROVE FALSE
      BY <1>1, <2>2, <3>1 DEF Goto
    <3> QED
      BY <1>2, <2>2, <3>1 DEF Mutation, CreateRemediation, Check, Insert, Invalidate,
         UpdateRemediation, Look, Update, DeleteRemediation
  <2> QED
    BY <2>1, <2>2
<1> QED
  BY <1>2 DEF Next, Tick, Load, Store, Expire, vars

\* UpdateRemediation keeps every column its input does not name, as long as the
\* row it completed its input with is still the row it writes to.
THEOREM KeepsUnnamedColumns == Spec => UnnamedColumnsKept
<1> DEFINE Keeps(q) ==
      req[q].at = "update" /\ req'[q] # req[q] /\ req[q].seen = Content(rows[req[q].id]) =>
        \A f \in DOMAIN req[q].seen :
          req[q].input[f] = None => rows'[req[q].id][f] = rows[req[q].id][f]
<1>1. RemediationInv /\ [Next]_vars => \A q \in Requests : Keeps(q)
  <2> SUFFICES ASSUME RemediationInv, [Next]_vars, NEW q \in Requests, req[q].at = "update",
                      req'[q] # req[q], req[q].seen = Content(rows[req[q].id]),
                      NEW f \in DOMAIN req[q].seen, req[q].input[f] = None
               PROVE  rows'[req[q].id][f] = rows[req[q].id][f]
    OBVIOUS
  <2> DEFINE r == req[q].id
             row == UpdateRow(rows[r], req[q].input, req[q].url)
  <2>1. /\ r \in 1 .. Len(rows) /\ req[q].input \in Changes /\ req[q].url \in Urls \cup {None}
        /\ req[q].url = FinalUrl(req[q].input, req[q].seen) /\ rows \in Seq(Rows)
    BY DEF RemediationInv, RequestOK, TypeOK
  <2>2. rows'[r] = row
    BY <2>1, LeavesUpdate DEF Update
  <2>3. /\ row.component = Given(req[q].input.component, rows[r].component)
        /\ row.type = Given(req[q].input.type, rows[r].type)
        /\ row.url = Given(req[q].url, rows[r].url)
        /\ row.expires = Given(req[q].input.expires, rows[r].expires)
    BY <2>1, RowLemma
  <2> HIDE DEF row
  <2>4. req[q].seen.url = rows[r].url /\ f \in {"component", "type", "url", "expires"}
    BY DEF Content
  <2> QED
    BY <2>1, <2>2, <2>3, <2>4 DEF Given, FinalUrl
<1>2. RemediationInv /\ [Next]_vars => [\A q \in Requests : Keeps(q)]_vars
  BY <1>1
<1> QED
  BY <1>2, Invariance, PTL DEF Spec, UnnamedColumnsKept
=============================================================================
