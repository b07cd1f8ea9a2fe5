----------------------- MODULE ListingAndMatchingProofs -----------------------
(***************************************************************************)
(* Theorems about Listing, for any rows, values, page sizes and number of  *)
(* writes during the walk, and about IssueMatching, for any instances,     *)
(* issues, variants, workers, requests and faults.                         *)
(*                                                                         *)
(* The walk: the cursor conditions define a strict order on the rows,  *)
(* total where the columns tell rows apart.  A page is a piece of the rows *)
(* beyond the last one shown; what it leaves out is beyond its own last    *)
(* row.  At the end the rows from the first of the last page on are so few *)
(* that the page, which is full if anything was left out, holds them all.  *)
(*                                                                         *)
(* Matching: a worker about to insert has seen a prefix of the table       *)
(* without a match of its own, and the table only grows.  The loop over    *)
(* the variants never leaves the row that no other exceeds, so every map   *)
(* of a worker, and every match, carries the score of that row.            *)
(***************************************************************************)
EXTENDS Listing, IssueMatching, FiniteSetTheorems, SequenceTheorems, WellFoundedInduction, TLAPS

-----------------------------------------------------------------------------
(* The order of the rows.                                                  *)

\* Every list has one to three columns, and an object that compares in HAVING or WHERE.
LEMMA ListsLemma ==
    ASSUME NEW l \in Lists
    PROVE  /\ l.aggregated \in BOOLEAN
           /\ l.order \in Seq(Columns) /\ Len(l.order) \in 1..3
<1>1. \A c \in Columns : <<c>> \in Seq(Columns) /\ Len(<<c>>) \in 1..3
  OBVIOUS
<1>2. \A c, d \in Columns : <<c, d>> \in Seq(Columns) /\ Len(<<c, d>>) \in 1..3
  OBVIOUS
<1>3. \A c, d, e \in Columns : <<c, d, e>> \in Seq(Columns) /\ Len(<<c, d, e>>) \in 1..3
  OBVIOUS
<1> DEFINE orders == {o \in Seq(Columns) : Len(o) \in 1..3}
           right(objects) == \A l2 \in objects : l2.aggregated \in BOOLEAN /\ l2.order \in orders
<1>4. ASSUME NEW aggregated \in BOOLEAN, NEW os, os \subseteq orders
      PROVE  right(Object(aggregated, os))
  BY <1>4 DEF Object
<1>5. /\ <<"id">> \in orders /\ <<"name">> \in orders /\ <<"key">> \in orders
      /\ <<"key", "id">> \in orders /\ <<"key", "key2">> \in orders
      /\ <<"key", "key2", "name">> \in orders
  BY <1>1, <1>2, <1>3 DEF Columns
<1> HIDE DEF orders
<1>6. right(WithService) /\ right(WithIssue) /\ right(WithComponentVersion) /\ right(WithComponent)
  BY <1>4, <1>5 DEF WithService, WithIssue, WithComponentVersion, WithComponent
<1>7. right(WithComponentInstance) /\ right(WithIssueMatch) /\ right(WithRemediation)
      /\ right(WithSupportGroup)
  BY <1>4, <1>5 DEF WithComponentInstance, WithIssueMatch, WithRemediation, WithSupportGroup
<1>8. right(WithUser) /\ right(WithIssueVariant) /\ right(WithIssueRepository)
      /\ right(WithServiceIssueVariant) /\ right(WithPatch)
  BY <1>4, <1>5 DEF WithUser, WithIssueVariant, WithIssueRepository, WithServiceIssueVariant, WithPatch
<1>9. l.aggregated \in BOOLEAN /\ l.order \in orders
  BY <1>6, <1>7, <1>8 DEF Lists
<1> QED
  BY <1>9 DEF orders

\* The value of a row in the n-th column of the order.
Value(row, n) == Column(row, list.order[n])

LEMMA ValueType ==
    ASSUME TypeOK, NEW row \in Rows, NEW n \in 1..Len(list.order)
    PROVE  Value(row, n) \in Int
<1>1. list.order[n] \in Columns
  BY DEF TypeOK
<1>2. key \in [Rows -> Keys]
  BY DEF TypeOK
<1>3. row \in Nat /\ key[row] \in Int
  BY <1>2, RowsAssumption, KeysAssumption
<1> QED
  BY <1>1, <1>3 DEF Value, Column, Columns

LEMMA BeforeLemma ==
    ASSUME TypeOK, NEW a \in Rows, NEW b \in Rows
    PROVE  /\ Before(a, b) <=> \E n \in 1..Len(list.order) :
                                 /\ \A i \in 1..(n - 1) : Value(b, i) = Value(a, i)
                                 /\ Beyond(Value(b, n), Value(a, n))
           /\ CreateCursorQuery(b, EncodeCursor(a)) <=> Before(a, b)
<1>1. DOMAIN list.order = 1..Len(list.order) /\ Len(list.order) \in Nat
  BY DEF TypeOK
<1>2. DOMAIN EncodeCursor(a) = DOMAIN list.order
  BY DEF EncodeCursor
<1>3. ASSUME NEW n \in 1..Len(list.order)
      PROVE  CursorAlternative(b, EncodeCursor(a), n) <=>
               /\ \A i \in 1..(n - 1) : Value(b, i) = Value(a, i)
               /\ Beyond(Value(b, n), Value(a, n))
  <2>1. \A i \in 1..(n - 1) : i \in 1..Len(list.order)
    BY <1>1
  <2>2. \A i \in 1..Len(list.order) : EncodeCursor(a)[i] = Value(a, i)
    BY <1>1 DEF EncodeCursor, Value
  <2> QED
    BY <2>1, <2>2 DEF CursorAlternative, Value
<1> QED
  BY <1>1, <1>2, <1>3 DEF Before, CreateCursorQuery

LEMMA Irreflexive ==
    ASSUME TypeOK, NEW a \in Rows
    PROVE  ~Before(a, a)
BY BeforeLemma, ValueType DEF Beyond

LEMMA Transitive ==
    ASSUME TypeOK, NEW a \in Rows, NEW b \in Rows, NEW c \in Rows, Before(a, b), Before(b, c)
    PROVE  Before(a, c)
<1>1. PICK n \in 1..Len(list.order) : /\ \A i \in 1..(n - 1) : Value(b, i) = Value(a, i)
                                      /\ Beyond(Value(b, n), Value(a, n))
  BY BeforeLemma
<1>2. PICK m \in 1..Len(list.order) : /\ \A i \in 1..(m - 1) : Value(c, i) = Value(b, i)
                                      /\ Beyond(Value(c, m), Value(b, m))
  BY BeforeLemma
<1>3. \A i \in 1..Len(list.order) : Value(a, i) \in Int /\ Value(b, i) \in Int /\ Value(c, i) \in Int
  BY ValueType
<1>4. PICK k \in 1..Len(list.order) : /\ \A i \in 1..(k - 1) : i \in 1..(n - 1) /\ i \in 1..(m - 1)
                                      /\ (k = n /\ k <= m) \/ (k = m /\ k <= n)
  <2>1. CASE n <= m
    BY <2>1
  <2>2. CASE m <= n
    BY <2>2
  <2> QED
    BY <2>1, <2>2 DEF TypeOK
<1>5. \A i \in 1..(k - 1) : Value(c, i) = Value(a, i)
  BY <1>1, <1>2, <1>4
<1>6. Beyond(Value(c, k), Value(a, k))
  <2>1. CASE k = n /\ k = m
    BY <2>1, <1>1, <1>2, <1>3 DEF Beyond
  <2>2. CASE k = n /\ k < m
    BY <2>2, <1>1, <1>2, <1>3 DEF Beyond
  <2>3. CASE k = m /\ k < n
    BY <2>3, <1>1, <1>2, <1>3 DEF Beyond
  <2> QED
    BY <1>4, <2>1, <2>2, <2>3
<1> QED
  BY <1>5, <1>6, BeforeLemma

LEMMA TotalLemma ==
    ASSUME TypeOK, Total(list), NEW a \in Rows, NEW b \in Rows, a # b
    PROVE  /\ Before(a, b) \/ Before(b, a)
           /\ EncodeCursor(a) # EncodeCursor(b)
<1>1. PICK n \in 1..Len(list.order) : Value(a, n) # Value(b, n)
  <2>1. PICK n \in 1..Len(list.order) : list.order[n] \in {"id", "name"}
    BY DEF Total, Range, TypeOK
  <2> QED
    BY <2>1, RowsAssumption DEF Value, Column
<1>2. PICK k \in 1..Len(list.order) :
        Value(a, k) # Value(b, k) /\ \A i \in 1..(k - 1) : Value(a, i) = Value(b, i)
  <2>0. PICK columns \in 1..3 : Len(list.order) = columns
    BY DEF TypeOK
  <2>1. n \in 1..columns /\ n \in 1..3 /\ 1..columns = 1..Len(list.order)
    BY <1>1, <2>0
  <2>2. CASE Value(a, 1) # Value(b, 1)
    BY <2>1, <2>2
  <2>3. CASE Value(a, 1) = Value(b, 1) /\ n >= 2 /\ Value(a, 2) # Value(b, 2)
    BY <2>1, <2>3
  <2>4. CASE Value(a, 1) = Value(b, 1) /\ n = 3 /\ Value(a, 2) = Value(b, 2)
    BY <1>1, <2>1, <2>4
  <2> QED
    BY <1>1, <2>1, <2>2, <2>3, <2>4
<1>3. Value(a, k) \in Int /\ Value(b, k) \in Int
  BY ValueType
<1>4. Beyond(Value(a, k), Value(b, k)) \/ Beyond(Value(b, k), Value(a, k))
  BY <1>2, <1>3 DEF Beyond
<1>5. EncodeCursor(a)[n] = Value(a, n) /\ EncodeCursor(b)[n] = Value(b, n)
  BY DEF EncodeCursor, Value, TypeOK
<1> QED
  BY <1>1, <1>2, <1>4, <1>5, BeforeLemma

-----------------------------------------------------------------------------
(* Sequences of rows.                                                      *)

\* A statement returns every row of its answer once, in order.
LEMMA SortedLemma ==
    ASSUME NEW S, IsFiniteSet(S), NEW s \in Sorted(S)
    PROVE  /\ s \in Seq(S) /\ Range(s) = S /\ Len(s) \in Nat /\ DOMAIN s = 1..Len(s)
           /\ \A i, j \in 1..Len(s) : i # j => s[i] # s[j]
           /\ \A i, j \in 1..Len(s) : i < j => ~Before(s[j], s[i])
<1> DEFINE n == Cardinality(S)
<1>1. n \in Nat
  BY FS_CardinalityType
<1>2. /\ s \in [1..n -> S]
      /\ \A i, j \in 1..n : i # j => s[i] # s[j]
      /\ \A i, j \in DOMAIN s : i < j => ~Before(s[j], s[i])
  BY DEF Sorted, SetToSeqs
<1>3. s \in Seq(S) /\ Len(s) = n
  BY <1>1, <1>2
<1>4. s \in Injection(1..n, S)
  BY <1>2 DEF Injection, IsInjective
<1>5. Cardinality(1..n) = n
  BY <1>1, FS_Interval
<1>6. s \in Surjection(1..n, S)
  <2> HIDE DEF n
  <2>1. Cardinality(1..n) = Cardinality(S) <=> s \in Surjection(1..n, S)
    BY <1>4, FS_Injection
  <2> QED
    BY <2>1, <1>5 DEF n
<1>7. Range(s) = S
  BY <1>2, <1>6 DEF Range, Surjection
<1> QED
  BY <1>1, <1>2, <1>3, <1>7

\* What Limit leaves of a sequence.
LEMMA LimitLemma ==
    ASSUME TypeOK, NEW S, NEW s \in Seq(S)
    PROVE  /\ Limit(s) \in Seq(S) /\ Len(Limit(s)) \in 0..Len(s) /\ Len(Limit(s)) <= list.first
           /\ \A i \in 1..Len(Limit(s)) : Limit(s)[i] = s[i]
           /\ Limit(s) = <<>> => s = <<>>
           /\ Len(s) > Len(Limit(s)) => Len(Limit(s)) = list.first
<1>1. list.first \in Nat \ {0} /\ Len(s) \in Nat
  BY DEF TypeOK
<1>2. CASE Len(s) < list.first
  <2>1. Limit(s) = SubSeq(s, 1, Len(s))
    BY <1>2 DEF Limit
  <2>2. Limit(s) = s
    BY <2>1
  <2> QED
    BY <1>1, <1>2, <2>2
<1>3. CASE ~(Len(s) < list.first)
  <2>1. Limit(s) = SubSeq(s, 1, list.first)
    BY <1>3 DEF Limit
  <2>2. Len(Limit(s)) = list.first /\ Limit(s) \in Seq(S)
    BY <1>1, <1>3, <2>1
  <2>3. \A i \in 1..Len(Limit(s)) : Limit(s)[i] = s[i]
    BY <1>1, <1>3, <2>1, <2>2
  <2> QED
    BY <1>1, <1>3, <2>2, <2>3
<1> QED
  BY <1>2, <1>3

LEMMA RangeLemma ==
    ASSUME NEW S, NEW s \in Seq(S)
    PROVE  /\ \A i \in 1..Len(s) : s[i] \in Range(s)
           /\ \A x \in Range(s) : x \in S /\ \E i \in 1..Len(s) : s[i] = x
BY DEF Range
-----------------------------------------------------------------------------
(* The pages.                                                              *)

\* Every row that stayed and has not been shown is selected by the next statement.
LEMMA SelectedLemma ==
    ASSUME WalkInv, Total(list), pc = "ask", NEW row \in stable \ Range(seen)
    PROVE  row \in AddCursor(after)
<1>1. row \in Rows /\ row \in present /\ row \in matching
  BY DEF WalkInv, TypeOK
<1>2. page = <<>>
  BY DEF WalkInv, PageOK, TypeOK
<1>3. after # <<>> => CreateCursorQuery(row, after)
  BY DEF WalkInv, Consecutive
<1>4. CASE after = <<>>
  BY <1>1, <1>4 DEF AddCursor
<1>5. CASE after # <<>>
  <2>1. PICK n \in DOMAIN after : CursorAlternative(row, after, n)
    BY <1>3, <1>5 DEF CreateCursorQuery
  <2>2. seen # <<>>
    BY <1>5 DEF WalkInv, PageOK
  <2>3. after = EncodeCursor(seen[Len(seen)])
    BY <2>2 DEF WalkInv, PageOK
  <2>4. DOMAIN after = 1..Len(list.order) /\ Len(list.order) \in Nat /\ Len(after) = Len(list.order)
    BY <2>3 DEF EncodeCursor, WalkInv, TypeOK
  <2>5. n = Len(after) \/ n \in 1..(Len(after) - 1)
    BY <2>1, <2>4
  <2> QED
    BY <1>1, <1>3, <1>5, <2>1, <2>5 DEF AddCursor
<1> QED
  BY <1>4, <1>5

LEMMA AddCursorLemma ==
    ASSUME WalkInv, pc = "ask"
    PROVE  /\ AddCursor(after) \subseteq Rows /\ IsFiniteSet(AddCursor(after))
           /\ OneClause(list) => AddCursor(after) \subseteq matching
           /\ seen # <<>> => \A row \in AddCursor(after) : Before(seen[Len(seen)], row)
<1>1. AddCursor(after) \subseteq Rows
  BY DEF AddCursor, WalkInv, TypeOK
<1>2. IsFiniteSet(AddCursor(after))
  BY <1>1, RowsAssumption, FS_Subset
<1>3. CASE after = <<>>
  <2>1. seen = <<>>
    <3>1. SUFFICES ASSUME seen # <<>> PROVE after # <<>>
      BY <1>3
    <3>2. after = EncodeCursor(seen[Len(seen)]) /\ 1 \in DOMAIN list.order
      BY <3>1 DEF WalkInv, PageOK, TypeOK
    <3>3. 1 \in DOMAIN after
      BY <3>2 DEF EncodeCursor
    <3> QED
      BY <3>3
  <2> QED
    BY <1>1, <1>2, <1>3, <2>1 DEF AddCursor
<1>4. CASE after # <<>>
  <2>1. seen # <<>> /\ after = EncodeCursor(seen[Len(seen)])
    BY <1>4 DEF WalkInv, PageOK
  <2>2. seen[Len(seen)] \in Rows
    BY <2>1 DEF WalkInv, TypeOK
  <2>3. PICK columns \in 1..3 :
          DOMAIN after = 1..columns /\ Len(after) = columns /\ Len(list.order) = columns
    BY <2>1 DEF EncodeCursor, WalkInv, TypeOK
  <2>4. ASSUME NEW row \in AddCursor(after) PROVE CreateCursorQuery(row, after)
    <3>1. Len(after) \in DOMAIN after /\ \A n \in 1..(Len(after) - 1) : n \in DOMAIN after
      BY <2>3
    <3> QED
      BY <1>4, <2>4, <3>1 DEF AddCursor, CreateCursorQuery
  <2>5. \A row \in AddCursor(after) : Before(seen[Len(seen)], row)
    BY <1>1, <2>1, <2>2, <2>4, BeforeLemma DEF WalkInv
  <2>6. ASSUME OneClause(list) PROVE AddCursor(after) \subseteq matching
    <3>1. list.aggregated \/ 1..(Len(after) - 1) = {}
      BY <2>3, <2>6 DEF OneClause
    <3> QED
      BY <1>4, <3>1 DEF AddCursor
  <2> QED
    BY <1>1, <1>2, <2>5, <2>6
<1> QED
  BY <1>3, <1>4
LEMMA InitInv == Init => WalkInv
<1> SUFFICES ASSUME Init PROVE WalkInv
  OBVIOUS
<1>1. TypeOK
  <2>1. PICK l \in Lists, d \in {"asc", "desc"}, n \in PageSizes :
          list = [aggregated |-> l.aggregated, order |-> l.order, direction |-> d, first |-> n]
    BY DEF Init
  <2>2. /\ list \in [aggregated : BOOLEAN, order : Seq(Columns), direction : {"asc", "desc"},
                      first : Nat \ {0}]
        /\ Len(list.order) \in 1..3
    BY <2>1, ListsLemma, SizesAssumption
  <2>3. key \in [Rows -> Keys]
    BY DEF Init
  <2>4. matching \subseteq Rows /\ present \subseteq Rows /\ stable \subseteq matching \cap present
    BY DEF Init
  <2>5. /\ page \in Seq(Rows) /\ seen \in Seq(Rows)
        /\ pc \in {"ask", "cursors", "done"} /\ writes \in Nat
    BY DEF Init
  <2>6. lost \in BOOLEAN
    BY DEF Init
  <2> QED
    BY <2>2, <2>3, <2>4, <2>5, <2>6 DEF TypeOK
<1>2. page = <<>> /\ seen = <<>> /\ after = <<>> /\ pc = "ask"
  BY DEF Init
<1>3. Range(seen) = {} /\ Range(page) = {} /\ seen \o page = <<>>
  BY <1>2 DEF Range
<1> QED
  BY <1>1, <1>2, <1>3 DEF WalkInv, PageOK, OnlyMatching, Consecutive, HonestEnd

\* Rows that extend an ordered list stay in order if they are beyond its last row.
LEMMA ExtendLemma ==
    ASSUME TypeOK, NEW s \in Seq(Rows), NEW t \in Seq(Rows),
           \A i, j \in DOMAIN s : i < j => s[i] # s[j] /\ ~Before(s[j], s[i]),
           \A i, j \in DOMAIN t : i < j => t[i] # t[j] /\ ~Before(t[j], t[i]),
           s # <<>> => \A j \in DOMAIN t : Before(s[Len(s)], t[j])
    PROVE  \A i, j \in DOMAIN (s \o t) :
             i < j => (s \o t)[i] # (s \o t)[j] /\ ~Before((s \o t)[j], (s \o t)[i])
<1> SUFFICES ASSUME NEW i \in DOMAIN (s \o t), NEW j \in DOMAIN (s \o t), i < j
             PROVE  (s \o t)[i] # (s \o t)[j] /\ ~Before((s \o t)[j], (s \o t)[i])
  OBVIOUS
<1>1. PICK m \in Nat, n \in Nat : /\ m = Len(s) /\ n = Len(t)
                                 /\ DOMAIN s = 1..m /\ DOMAIN t = 1..n
                                 /\ DOMAIN (s \o t) = 1..(m + n)
  OBVIOUS
<1>2. \A k \in 1..(m + n) : (s \o t)[k] = IF k <= m THEN s[k] ELSE t[k - m]
  BY <1>1
<1>3. i \in 1..(m + n) /\ j \in 1..(m + n)
  BY <1>1
<1>4. CASE j <= m
  BY <1>1, <1>2, <1>3, <1>4
<1>5. CASE i > m
  <2>1. i - m \in DOMAIN t /\ j - m \in DOMAIN t /\ i - m < j - m
    BY <1>1, <1>3, <1>5
  <2>2. (s \o t)[i] = t[i - m] /\ (s \o t)[j] = t[j - m]
    BY <1>1, <1>2, <1>3, <1>5
  <2> QED
    BY <2>1, <2>2
<1>6. CASE i <= m /\ j > m
  <2>1. j - m \in DOMAIN t /\ i \in DOMAIN s /\ m \in DOMAIN s /\ s # <<>>
    BY <1>1, <1>3, <1>6
  <2>2. s[i] \in Rows /\ s[m] \in Rows /\ t[j - m] \in Rows
    BY <2>1
  <2>3. Before(s[m], t[j - m])
    BY <1>1, <2>1
  <2>4. s[i] = s[m] \/ ~Before(s[m], s[i])
    BY <1>6, <2>1, <1>1
  <2>5. s[i] # t[j - m] /\ ~Before(t[j - m], s[i])
    BY <2>2, <2>3, <2>4, Transitive, Irreflexive
  <2>6. (s \o t)[i] = s[i]
    BY <1>2, <1>3, <1>6
  <2>7. (s \o t)[j] = t[j - m]
    BY <1>1, <1>2, <1>3, <1>6
  <2> QED
    BY <2>5, <2>6, <2>7
<1> QED
  BY <1>1, <1>3, <1>4, <1>5, <1>6

LEMMA GetStep == WalkInv /\ Get => WalkInv'
<1> SUFFICES ASSUME WalkInv, Get PROVE WalkInv'
  OBVIOUS
<1>1. pc = "ask" /\ page = <<>> /\ TypeOK
  BY DEF Get, WalkInv, PageOK
<1>2. UNCHANGED <<list, key, matching, present, stable, after, seen, lost, writes>>
  BY DEF Get
<1> DEFINE S == AddCursor(after)
<1>3. PICK s \in Sorted(S) : page' = Limit(s)
  BY DEF Get
<1>4. S \subseteq Rows /\ IsFiniteSet(S)
  BY <1>1, AddCursorLemma
<1> HIDE DEF S
<1>5. /\ s \in Seq(S) /\ Range(s) = S /\ Len(s) \in Nat
      /\ \A i, j \in 1..Len(s) : i # j => s[i] # s[j]
      /\ \A i, j \in 1..Len(s) : i < j => ~Before(s[j], s[i])
  BY <1>4, SortedLemma
<1>6. /\ page' \in Seq(S) /\ Len(page') \in 0..Len(s)
      /\ \A i \in 1..Len(page') : page'[i] = s[i]
      /\ page' = <<>> => s = <<>>
      /\ Len(s) > Len(page') => Len(page') = list.first
  BY <1>1, <1>3, <1>5, LimitLemma
<1>7. page' \in Seq(Rows) /\ Range(page') \subseteq S
  BY <1>4, <1>6, RangeLemma
<1>8. TypeOK'
  BY <1>1, <1>2, <1>7 DEF TypeOK, Get
<1>9. \A a, b : Before(a, b)' <=> Before(a, b)
  BY <1>2 DEF Before, CursorAlternative, EncodeCursor, Column, Beyond
<1>10. ASSUME Total(list), NEW row \in stable \ (Range(seen) \cup Range(page')), page' # <<>>
       PROVE  Len(page') = list.first /\ Before(page'[Len(page')], row)
  <2>1. row \in S
    BY <1>1, <1>10, SelectedLemma DEF S
  <2>2. PICK k \in 1..Len(s) : s[k] = row
    BY <1>5, <2>1, RangeLemma
  <2>3. Len(page') \in Nat \ {0}
    BY <1>6, <1>10
  <2>4. k > Len(page')
    <3>1. CASE k \in 1..Len(page')
      BY <1>6, <1>10, <2>2, <3>1, RangeLemma
    <3> QED
      BY <2>2, <2>3, <3>1
  <2>5. Len(page') \in 1..Len(s) /\ page'[Len(page')] = s[Len(page')]
    BY <1>6, <2>3
  <2>6. ~Before(row, page'[Len(page')]) /\ row # page'[Len(page')]
    BY <1>5, <2>2, <2>3, <2>4, <2>5
  <2>7. row \in Rows /\ page'[Len(page')] \in Rows
    BY <1>4, <1>6, <2>1, <2>3
  <2>8. Before(page'[Len(page')], row)
    BY <1>1, <1>10, <2>6, <2>7, TotalLemma
  <2> QED
    BY <1>5, <1>6, <2>2, <2>4, <2>8
<1>11. PageOK'
  <2>1. (after = IF seen = <<>> THEN <<>> ELSE EncodeCursor(seen[Len(seen)]))'
    BY <1>2 DEF WalkInv, PageOK, EncodeCursor, Column
  <2>2. (pc = "cursors" <=> page # <<>>)'
    BY DEF Get
  <2> QED
    BY <1>2, <1>9, <1>10, <2>1, <2>2 DEF PageOK, Total
<1>12. OnlyMatching'
  BY <1>1, <1>2, <1>7, AddCursorLemma DEF WalkInv, OnlyMatching, OneClause, S
<1>13. Consecutive'
  <2>1. \A i, j \in DOMAIN seen : i < j => seen[i] # seen[j] /\ ~Before(seen[j], seen[i])
    <3>1. seen \o page = seen
      BY <1>1 DEF TypeOK
    <3> QED
      BY <3>1 DEF WalkInv, Consecutive
  <2>2. \A i, j \in DOMAIN page' : i < j => page'[i] # page'[j] /\ ~Before(page'[j], page'[i])
    <3>1. DOMAIN page' = 1..Len(page') /\ \A i \in 1..Len(page') : i \in 1..Len(s)
      BY <1>6
    <3> QED
      BY <1>5, <1>6, <3>1
  <2>3. seen # <<>> => \A j \in DOMAIN page' : Before(seen[Len(seen)], page'[j])
    BY <1>1, <1>6, AddCursorLemma DEF S
  <2>4. seen \in Seq(Rows)
    BY <1>1 DEF TypeOK
  <2>5. \A i, j \in DOMAIN (seen \o page') :
          i < j => /\ (seen \o page')[i] # (seen \o page')[j]
                   /\ ~Before((seen \o page')[j], (seen \o page')[i])
    BY <1>1, <1>7, <2>1, <2>2, <2>3, <2>4, ExtendLemma
  <2>6. \A row : CreateCursorQuery(row, after)' <=> CreateCursorQuery(row, after)
    BY <1>2 DEF CreateCursorQuery, CursorAlternative, Column, Beyond
  <2>7. (Total(list) => \A row \in stable \ Range(seen) :
           after = <<>> \/ CreateCursorQuery(row, after))'
    BY <1>2, <2>6 DEF WalkInv, Consecutive, Total
  <2> QED
    BY <1>2, <1>9, <2>5, <2>7 DEF Consecutive
<1>14. HonestEnd'
  <2>1. SUFFICES ASSUME Total(list), page' = <<>>, NEW row \in stable \ Range(seen) PROVE FALSE
    BY <1>2 DEF Get, HonestEnd, Total
  <2>2. row \in S
    BY <1>1, <2>1, SelectedLemma DEF S
  <2>3. s = <<>>
    BY <1>6, <2>1
  <2>4. Range(s) = {}
    BY <2>3 DEF Range
  <2> QED
    BY <1>5, <2>2, <2>4
<1> QED
  BY <1>8, <1>11, <1>12, <1>13, <1>14 DEF WalkInv
-----------------------------------------------------------------------------
(* The end of the walk.                                                    *)

\* From the first row of the last page on there are no more rows than fit on a page.
LEMMA LastPageLemma ==
    ASSUME NEW first \in Nat \ {0}, NEW rank \in Nat \ {0}, NEW n \in Nat,
           ~((rank - 1) \div first + 1 < (n + first - 1) \div first)
    PROVE  n < rank + first
<1> DEFINE a == (rank - 1) \div first
           b == (n + first - 1) \div first
<1>1. a \in Int /\ first * a <= rank - 1
  OBVIOUS
<1>2. b \in Int /\ n + first - 1 < first * b + first
  OBVIOUS
<1>3. b <= a + 1
  BY <1>1, <1>2
<1> HIDE DEF a, b
<1>4. first * b <= first * (a + 1)
  BY <1>1, <1>2, <1>3
<1>5. first * (a + 1) = first * a + first
  BY <1>1
<1> QED
  BY <1>1, <1>2, <1>4, <1>5
\* A row that was left out, the rows of the full page before it and all of them from the
\* first row of the page on are more than the page information counts on the last page.
LEMMA EndLemma ==
    ASSUME WalkInv, pc = "cursors", Total(list), OneClause(list), Range(page) \subseteq present,
           NEW s \in Sorted(present \cap matching),
           ~HasNextPage([i \in DOMAIN s |-> EncodeCursor(s[i])]),
           NEW row \in stable \ (Range(seen) \cup Range(page))
    PROVE  FALSE
<1> DEFINE S == present \cap matching
           cursors == [i \in DOMAIN s |-> EncodeCursor(s[i])]
           first == list.first
<1>1. TypeOK /\ page # <<>> /\ page \in Seq(Rows) /\ first \in Nat \ {0}
  BY DEF WalkInv, PageOK, TypeOK
<1>2. S \subseteq Rows /\ IsFiniteSet(S) /\ row \in S
  BY <1>1, RowsAssumption, FS_Subset DEF TypeOK
<1>3. Range(page) \subseteq S
  BY DEF WalkInv, OnlyMatching
<1>4. Len(page) = first /\ Before(page[first], row)
  BY <1>1 DEF WalkInv, PageOK
<1> HIDE DEF S
<1>5. /\ s \in Seq(S) /\ Range(s) = S /\ Len(s) \in Nat /\ DOMAIN s = 1..Len(s)
      /\ \A i, j \in 1..Len(s) : i < j => ~Before(s[j], s[i])
  BY <1>2, SortedLemma DEF S
<1>6. \A e \in S : \E i \in 1..Len(s) : s[i] = e
  <2>1. \A e \in Range(s) : \E i \in 1..Len(s) : s[i] = e
    BY <1>5, RangeLemma
  <2> QED
    BY <1>5, <2>1
<1>7. \A j \in 1..first : page[j] \in S /\ page[j] \in Rows
  BY <1>1, <1>2, <1>3, <1>4, RangeLemma
<1>8. \A i, j \in 1..first : i < j => page[i] # page[j] /\ ~Before(page[j], page[i])
  <2>1. SUFFICES ASSUME NEW i \in 1..first, NEW j \in 1..first, i < j
                 PROVE  page[i] # page[j] /\ ~Before(page[j], page[i])
    OBVIOUS
  <2>2. PICK m \in Nat : m = Len(seen) /\ seen \in Seq(Rows)
    BY <1>1 DEF TypeOK
  <2>3. /\ m + i \in DOMAIN (seen \o page) /\ m + j \in DOMAIN (seen \o page) /\ m + i < m + j
        /\ (seen \o page)[m + i] = page[i] /\ (seen \o page)[m + j] = page[j]
    BY <1>1, <1>4, <2>1, <2>2
  <2> QED
    BY <2>3 DEF WalkInv, Consecutive
\* The ranks of the page's rows and of the one left out.
<1>9. PICK rank \in DOMAIN s : /\ cursors[rank] = EncodeCursor(page[1])
                             /\ ~(PageOf(rank) < GetPages(cursors))
  <2>1. PICK i \in 1..Len(s) : s[i] = page[1]
    BY <1>1, <1>6, <1>7
  <2>2. i \in DOMAIN cursors /\ cursors[i] = EncodeCursor(page[1])
    BY <1>5, <2>1
  <2> QED
    BY <2>2 DEF HasNextPage
<1>10. rank \in 1..Len(s) /\ s[rank] = page[1]
  <2>1. rank \in 1..Len(s) /\ EncodeCursor(s[rank]) = EncodeCursor(page[1])
    BY <1>5, <1>9
  <2>2. s[rank] \in Rows /\ page[1] \in Rows
    BY <1>1, <1>2, <1>5, <1>7, <2>1
  <2> QED
    BY <1>1, <2>1, <2>2, TotalLemma
<1>11. Len(s) < rank + first
  <2>1. Len(cursors) = Len(s)
    BY <1>5
  <2>2. ~((rank - 1) \div first + 1 < (Len(s) + first - 1) \div first)
    BY <1>9, <2>1 DEF PageOf, GetPages
  <2>3. rank \in Nat \ {0} /\ Len(s) \in Nat
    BY <1>5, <1>10
  <2> QED
    BY <1>1, <2>2, <2>3, LastPageLemma
<1> DEFINE x(j) == IF j <= first THEN page[j] ELSE row
<1>12. \A j \in 1..(first + 1) : x(j) \in S /\ x(j) \in Rows
  BY <1>1, <1>2, <1>7
<1>13. row \in Rows /\ \A j \in 1..first : row # page[j]
  BY <1>1, <1>2, <1>4, RangeLemma
<1>14. \A i, j \in 1..(first + 1) : i # j => x(i) # x(j)
  BY <1>1, <1>8, <1>13
<1>15. \A j \in 2..(first + 1) : ~Before(x(j), page[1]) /\ x(j) # page[1]
  <2>1. \A j \in 2..first : ~Before(page[j], page[1]) /\ page[j] # page[1]
    BY <1>1, <1>8
  <2>2. ~Before(row, page[1])
    <3>1. SUFFICES ASSUME Before(row, page[1]) PROVE FALSE
      OBVIOUS
    <3>2. Before(page[first], page[1])
      BY <1>1, <1>4, <1>7, <1>13, <3>1, Transitive
    <3>3. first = 1
      BY <1>1, <1>8, <3>2
    <3> QED
      BY <1>1, <1>7, <3>2, <3>3, Irreflexive
  <2> QED
    BY <1>1, <1>13, <2>1, <2>2
<1>16. \A j \in 1..(first + 1) : \E k \in rank..Len(s) : s[k] = x(j)
  <2>1. SUFFICES ASSUME NEW j \in 1..(first + 1) PROVE \E k \in rank..Len(s) : s[k] = x(j)
    OBVIOUS
  <2>2. PICK k \in 1..Len(s) : s[k] = x(j)
    BY <1>6, <1>12
  <2>3. CASE j = 1
    BY <1>1, <1>5, <1>10, <2>3
  <2>4. CASE j # 1
    <3>1. ~Before(x(j), s[rank]) /\ x(j) # s[rank] /\ x(j) \in Rows /\ s[rank] \in Rows
      BY <1>7, <1>1, <1>10, <1>12, <1>15, <2>4
    <3>2. Before(s[rank], s[k])
      BY <1>1, <2>2, <3>1, TotalLemma
    <3>3. ~(k < rank)
      BY <1>5, <1>10, <3>2
    <3> QED
      BY <1>5, <1>10, <2>2, <3>3
  <2> QED
    BY <2>3, <2>4
<1> HIDE DEF x
<1> DEFINE g == [j \in 1..(first + 1) |-> CHOOSE k \in rank..Len(s) : s[k] = x(j)]
<1>17. \A j \in 1..(first + 1) : g[j] \in rank..Len(s) /\ s[g[j]] = x(j)
  BY <1>16
<1>18. g \in [1..(first + 1) -> rank..Len(s)] /\ \A i, j \in 1..(first + 1) : g[i] = g[j] => i = j
  BY <1>14, <1>17
<1>19. g \in Injection(1..(first + 1), rank..Len(s))
  BY <1>18 DEF Injection, IsInjective
<1> HIDE DEF g, first
<1>20. /\ Cardinality(1..(first + 1)) = first + 1
       /\ IsFiniteSet(rank..Len(s)) /\ Cardinality(rank..Len(s)) = Len(s) - rank + 1
  <2>1. rank \in Int /\ Len(s) \in Int /\ rank <= Len(s) /\ first + 1 \in Int /\ 1 <= first + 1
    BY <1>1, <1>5, <1>10
  <2>2. Cardinality(1..(first + 1)) = first + 1
    <3>1. \A last \in Int : 1 <= last => Cardinality(1..last) = last
      BY FS_Interval
    <3> QED
      BY <2>1, <3>1
  <2>3. IsFiniteSet(rank..Len(s)) /\ Cardinality(rank..Len(s)) = Len(s) - rank + 1
    BY <2>1, FS_Interval
  <2> QED
    BY <1>1, <2>2, <2>3
<1>21. Cardinality(1..(first + 1)) <= Cardinality(rank..Len(s))
  BY <1>19, <1>20, FS_Injection
<1> QED
  BY <1>1, <1>5, <1>10, <1>11, <1>20, <1>21

LEMMA GetAllCursorsStep == WalkInv /\ GetAllCursors => WalkInv'
<1> SUFFICES ASSUME WalkInv, GetAllCursors PROVE WalkInv'
  OBVIOUS
<1>1. /\ pc = "cursors" /\ page # <<>> /\ page \in Seq(Rows) /\ seen \in Seq(Rows)
      /\ page' = <<>> /\ seen' = seen \o page
      /\ UNCHANGED <<list, key, matching, present, stable, writes>>
  BY DEF GetAllCursors, WalkInv, PageOK, TypeOK
<1>2. PICK s \in Sorted(present \cap matching) :
        /\ pc' = IF HasNextPage([i \in DOMAIN s |-> EncodeCursor(s[i])]) THEN "ask" ELSE "done"
        /\ lost' = ~(Range(page) \subseteq present)
  BY DEF GetAllCursors
<1>3. seen' \in Seq(Rows) /\ seen' # <<>> /\ Range(seen') = Range(seen) \cup Range(page)
  <2>1. PICK m \in Nat, n \in Nat \ {0} : m = Len(seen) /\ n = Len(page)
    BY <1>1
  <2>2. /\ DOMAIN seen' = 1..(m + n)
        /\ \A k \in 1..(m + n) : seen'[k] = IF k <= m THEN seen[k] ELSE page[k - m]
    BY <1>1, <2>1
  <2>3. Range(seen) \cup Range(page) \subseteq Range(seen')
    <3>1. \A k \in 1..m : k \in 1..(m + n) /\ seen[k] = seen'[k]
      BY <2>2
    <3>2. \A k \in 1..n : m + k \in 1..(m + n) /\ page[k] = seen'[m + k]
      BY <2>2
    <3>3. DOMAIN seen = 1..m /\ DOMAIN page = 1..n
      BY <1>1, <2>1
    <3>4. Range(seen) \subseteq Range(seen')
      BY <2>2, <3>1, <3>3 DEF Range
    <3>5. Range(page) \subseteq Range(seen')
      BY <2>2, <3>2, <3>3 DEF Range
    <3> QED
      BY <3>4, <3>5
  <2>4. Range(seen') \subseteq Range(seen) \cup Range(page)
    <3>1. \A k \in 1..(m + n) : k \in 1..m \/ k - m \in 1..n
      BY <2>1
    <3> QED
      BY <1>1, <2>1, <2>2, <3>1 DEF Range
  <2> QED
    BY <1>1, <2>1, <2>3, <2>4
<1>4. seen'[Len(seen')] = page[Len(page)] /\ page[Len(page)] \in Rows
  BY <1>1
<1>5. after' = EncodeCursor(page[Len(page)])
  BY DEF GetAllCursors, NextPageAfter
<1>6. Range(page') = {} /\ seen' \o page' = seen \o page
  BY <1>1, <1>3 DEF Range
<1>7. TypeOK'
  <2>1. pc' \in {"ask", "cursors", "done"} /\ page' \in Seq(Rows)
    BY <1>1, <1>2
  <2>2. lost' \in BOOLEAN
    BY <1>2
  <2> QED
    BY <1>1, <1>3, <2>1, <2>2 DEF WalkInv, TypeOK
<1>8. PageOK'
  <2>1. \A r : EncodeCursor(r)' = EncodeCursor(r)
    BY <1>1 DEF EncodeCursor, Column
  <2>2. (after = IF seen = <<>> THEN <<>> ELSE EncodeCursor(seen[Len(seen)]))'
    BY <1>3, <1>4, <1>5, <2>1
  <2>3. (pc = "cursors" <=> page # <<>>)'
    BY <1>1, <1>2
  <2> QED
    BY <1>1, <2>2, <2>3 DEF PageOK
<1>9. OnlyMatching'
  BY <1>1, <1>3, <1>6 DEF WalkInv, OnlyMatching, OneClause
<1>10. Consecutive'
  <2>1. \A a, b : Before(a, b)' <=> Before(a, b)
    BY <1>1 DEF Before, CursorAlternative, EncodeCursor, Column, Beyond
  <2>2. ASSUME Total(list), NEW row \in stable \ (Range(seen) \cup Range(page))
        PROVE  CreateCursorQuery(row, after')
    <3>1. Before(page[Len(page)], row) /\ row \in Rows /\ TypeOK
      BY <1>1, <2>2 DEF WalkInv, PageOK, TypeOK
    <3> QED
      BY <1>4, <1>5, <3>1, BeforeLemma
  <2>3. \A row : CreateCursorQuery(row, after)' <=> CreateCursorQuery(row, after')
    BY <1>1 DEF CreateCursorQuery, CursorAlternative, Column, Beyond
  <2>4. Total(list)' <=> Total(list)
    BY <1>1 DEF Total
  <2> QED
    BY <1>1, <1>3, <1>6, <2>1, <2>2, <2>3, <2>4 DEF WalkInv, Consecutive
<1>11. HonestEnd'
  <2>1. SUFFICES ASSUME Total(list), OneClause(list), pc' = "done", ~lost',
                        NEW row \in stable \ (Range(seen) \cup Range(page))
                 PROVE  FALSE
    BY <1>1, <1>3 DEF HonestEnd, Total, OneClause
  <2>2. /\ Range(page) \subseteq present
        /\ ~HasNextPage([i \in DOMAIN s |-> EncodeCursor(s[i])])
    BY <1>2, <2>1
  <2> QED
    BY <1>1, <2>1, <2>2, EndLemma
<1> QED
  BY <1>7, <1>8, <1>9, <1>10, <1>11 DEF WalkInv

LEMMA WriteStep == WalkInv /\ Write => WalkInv'
<1> SUFFICES ASSUME WalkInv, Write PROVE WalkInv'
  OBVIOUS
<1>1. /\ pc # "done" /\ stable' \subseteq stable /\ stable' \subseteq present'
      /\ UNCHANGED <<list, key, matching, after, page, seen, lost, pc>>
  BY DEF Write
<1>2. TypeOK'
  <2>1. writes' \in Nat
    BY DEF Write, WalkInv, TypeOK
  <2>2. present' \subseteq Rows
    BY DEF Write, WalkInv, TypeOK
  <2> QED
    BY <1>1, <2>1, <2>2 DEF WalkInv, TypeOK
<1>3. \A a, b : Before(a, b)' <=> Before(a, b)
  BY <1>1 DEF Before, CursorAlternative, EncodeCursor, Column, Beyond
<1>4. \A a : EncodeCursor(a)' = EncodeCursor(a)
  BY <1>1 DEF EncodeCursor, Column
<1>5. \A row : CreateCursorQuery(row, after)' <=> CreateCursorQuery(row, after)
  BY <1>1 DEF CreateCursorQuery, CursorAlternative, Column, Beyond
<1>6. PageOK'
  BY <1>1, <1>3, <1>4 DEF WalkInv, PageOK, Total
<1>7. OnlyMatching' /\ HonestEnd'
  BY <1>1 DEF WalkInv, OnlyMatching, OneClause, HonestEnd
<1>8. Consecutive'
  BY <1>1, <1>3, <1>5 DEF WalkInv, Consecutive, Total
<1> QED
  BY <1>2, <1>6, <1>7, <1>8 DEF WalkInv

LEMMA StutterStep == WalkInv /\ UNCHANGED vars => WalkInv'
<1> SUFFICES ASSUME WalkInv, UNCHANGED vars PROVE WalkInv'
  OBVIOUS
<1>1. UNCHANGED <<list, key, matching, present, stable, after, page, seen, lost, pc, writes>>
  BY DEF vars
<1>2. TypeOK' /\ OnlyMatching' /\ HonestEnd'
  BY <1>1 DEF WalkInv, TypeOK, OnlyMatching, HonestEnd, Total, OneClause
<1>3. \A a, b : Before(a, b)' <=> Before(a, b)
  BY <1>1 DEF Before, CursorAlternative, EncodeCursor, Column, Beyond
<1>4. \A a : EncodeCursor(a)' = EncodeCursor(a)
  BY <1>1 DEF EncodeCursor, Column
<1>5. \A row : CreateCursorQuery(row, after)' <=> CreateCursorQuery(row, after)
  BY <1>1 DEF CreateCursorQuery, CursorAlternative, Column, Beyond
<1>6. PageOK' /\ Consecutive'
  BY <1>1, <1>3, <1>4, <1>5 DEF WalkInv, PageOK, Consecutive, Total
<1> QED
  BY <1>2, <1>6 DEF WalkInv

-----------------------------------------------------------------------------
\* Every walk keeps the invariant.
THEOREM Invariance == Spec => []WalkInv
<1>1. WalkInv /\ [Next]_vars => WalkInv'
  BY GetStep, GetAllCursorsStep, WriteStep, StutterStep DEF Next, Finished
<1> QED
  BY InitInv, <1>1, PTL DEF Spec

\* Pages are consecutive pieces of the ordered list, for any number of rows, any page size and
\* any writes between the reads: CreateCursorQuery selects what comes after the last row shown.
THEOREM PagesAreConsecutive == Spec => []Consecutive
BY Invariance, PTL DEF WalkInv

\* Where the filter and the cursor restrict the rows together, every row shown satisfies the
\* filter (AddCursor).
THEOREM PagesMatchFilter == Spec => []OnlyMatching
BY Invariance, PTL DEF WalkInv

\* The page information ends a walk only when everything was shown, unless a row of the last
\* page was gone when the cursors were read (GetPages, GetPageInfo).
THEOREM EndIsHonest == Spec => []HonestEnd
BY Invariance, PTL DEF WalkInv

-----------------------------------------------------------------------------
(* Matching: the severity of an issue.                                     *)

\* A row of IssueVariant, with the priority of its repository.
VariantRow == [priority : Nat, score : Nat]

\* A set of numbers has a least one: what holds of the numbers below holds of all.
LEMMA LeastNumber ==
  ASSUME NEW S \in SUBSET Nat, S # {}
  PROVE  \E i \in S : \A k \in S : i <= k
<1> DEFINE R == OpToRel(<, Nat)
<1>1. IsWellFoundedOn(R, Nat)
  BY NatLessThanWellFounded
<1>2. PICK i \in S : \A k \in S : ~(<<k, i>> \in R)
  <2> HIDE DEF R
  <2> QED
    BY <1>1, WFMin
<1>3. \A k, j \in Nat : k < j => <<k, j>> \in R
  BY DEF OpToRel
<1> HIDE DEF R
<1>4. \A k \in S : ~(k < i)
  BY <1>2, <1>3
<1> QED
  BY <1>4

\* What the rows of an issue with variants are.
LEMMA RowsOfVariants ==
  ASSUME NEW rows \in Seq(VariantRow), rows # <<>>
  PROVE  /\ Len(rows) \in Nat /\ Len(rows) # 0 /\ DOMAIN rows = 1 .. Len(rows)
         /\ \A n \in 1 .. Len(rows) : rows[n].priority \in Nat /\ rows[n].score \in Nat
<1>1. Len(rows) \in Nat /\ DOMAIN rows = 1 .. Len(rows) /\ \A n \in 1 .. Len(rows) : rows[n] \in VariantRow
  OBVIOUS
<1>2. Len(rows) # 0
  BY EmptySeq
<1> QED
  BY <1>1, <1>2 DEF VariantRow

\* The rows that the loop of BuildIssueVariantMap holds after each of the first m rows.
Keeps(kept, rows, m) ==
  kept = [n \in 1 .. m |-> IF n = 1 THEN rows[1] ELSE Preferred(kept[n - 1], rows[n])]

\* The recursion of Kept defines a function.
LEMMA KeepsExists ==
  ASSUME NEW rows, NEW m \in Nat
  PROVE  \E kept : Keeps(kept, rows, m)
<1> DEFINE bad == {n \in Nat : ~\E kept : Keeps(kept, rows, n)}
<1>1. SUFFICES ASSUME bad # {} PROVE FALSE
  OBVIOUS
<1>2. PICK i \in bad : \A k \in bad : i <= k
  <2>1. bad \in SUBSET Nat
    OBVIOUS
  <2> HIDE DEF bad
  <2> QED
    BY <1>1, <2>1, LeastNumber
<1>3. CASE i = 0
  <2> DEFINE f == [n \in 1 .. 0 |-> n]
  <2>1. f = [n \in 1 .. 0 |-> IF n = 1 THEN rows[1] ELSE Preferred(f[n - 1], rows[n])]
    OBVIOUS
  <2> QED
    BY <1>3, <2>1 DEF Keeps
<1>4. CASE i # 0
  <2>1. i \in Nat /\ i - 1 \in Nat /\ i - 1 \notin bad
    BY <1>2, <1>4
  <2>2. PICK g : Keeps(g, rows, i - 1)
    BY <2>1
  <2> DEFINE f == [n \in 1 .. i |-> IF n = i THEN (IF n = 1 THEN rows[1] ELSE Preferred(g[n - 1], rows[n]))
                                             ELSE g[n]]
  <2>3. \A n \in 1 .. i - 1 : f[n] = g[n]
    BY <2>1
  <2>4. \A n \in 1 .. i - 1 : g[n] = IF n = 1 THEN rows[1] ELSE Preferred(g[n - 1], rows[n])
    BY <2>2 DEF Keeps
  <2>5. \A n \in 1 .. i : f[n] = IF n = 1 THEN rows[1] ELSE Preferred(f[n - 1], rows[n])
    <3> SUFFICES ASSUME NEW n \in 1 .. i
                 PROVE  f[n] = IF n = 1 THEN rows[1] ELSE Preferred(f[n - 1], rows[n])
      OBVIOUS
    <3>0. f[n] = IF n = i THEN (IF n = 1 THEN rows[1] ELSE Preferred(g[n - 1], rows[n])) ELSE g[n]
      OBVIOUS
    <3>1. n # 1 => n - 1 \in 1 .. i - 1
      BY <2>1
    <3>2. n # 1 => f[n - 1] = g[n - 1]
      BY <2>3, <3>1
    <3>3. n # i => n \in 1 .. i - 1
      BY <2>1
    <3>4. n # i => g[n] = IF n = 1 THEN rows[1] ELSE Preferred(g[n - 1], rows[n])
      BY <2>4, <3>3
    <3> HIDE DEF f
    <3> QED
      BY <3>0, <3>2, <3>4
  <2>6. f = [n \in 1 .. i |-> f[n]]
    OBVIOUS
  <2> HIDE DEF f
  <2>7. Keeps(f, rows, i)
    BY <2>5, <2>6 DEF Keeps
  <2> QED
    BY <1>2, <2>7
<1> QED
  BY <1>3, <1>4

\* Kept is the last value of that function.
LEMMA KeptIs ==
  ASSUME NEW rows, Len(rows) \in Nat
  PROVE  \E kept : Keeps(kept, rows, Len(rows)) /\ Kept(rows) = kept[Len(rows)]
<1> DEFINE f == CHOOSE kept : Keeps(kept, rows, Len(rows))
<1>1. Keeps(f, rows, Len(rows))
  BY KeepsExists
<1>2. Kept(rows) = f[Len(rows)]
  BY DEF Kept, Keeps
<1> HIDE DEF f
<1> QED
  BY <1>1, <1>2

\* No row exceeds the j-th.
Tops(rows, j) ==
  \A n \in 1 .. Len(rows) : rows[n].priority <= rows[j].priority /\ rows[n].score <= rows[j].score

\* The loop keeps one of the rows, and the score of the one that no other exceeds: before it is
\* met, what is kept is a row it replaces or equals, and afterwards no row replaces it.
LEMMA KeptDecides ==
  ASSUME NEW rows \in Seq(VariantRow), rows # <<>>
  PROVE  /\ \E n \in 1 .. Len(rows) : Kept(rows) = rows[n]
         /\ \A j \in 1 .. Len(rows) : Tops(rows, j) => Kept(rows).score = rows[j].score
<1>1. /\ Len(rows) \in Nat /\ Len(rows) # 0 
      /\ \A n \in 1 .. Len(rows) : rows[n].priority \in Nat /\ rows[n].score \in Nat
  BY RowsOfVariants
<1>2. PICK f : Keeps(f, rows, Len(rows)) /\ Kept(rows) = f[Len(rows)]
  BY <1>1, KeptIs
<1>3. \A n \in 1 .. Len(rows) : f[n] = IF n = 1 THEN rows[1] ELSE Preferred(f[n - 1], rows[n])
  BY <1>2 DEF Keeps
<1> DEFINE Right(n) ==
      /\ \E k \in 1 .. n : f[n] = rows[k]
      /\ \A j \in 1 .. n : Tops(rows, j) => f[n].priority = rows[j].priority /\ f[n].score = rows[j].score
           bad == {n \in 1 .. Len(rows) : ~Right(n)}
<1>4. bad = {}
  <2> SUFFICES ASSUME bad # {} PROVE FALSE
    OBVIOUS
  <2>1. PICK i \in bad : \A k \in bad : i <= k
    <3>1. bad \in SUBSET Nat
      OBVIOUS
    <3> HIDE DEF bad
    <3> QED
      BY <3>1, LeastNumber
  <2>2. i \in 1 .. Len(rows) /\ i \in Nat
    OBVIOUS
  <2>3. i # 1
    <3> SUFFICES ASSUME i = 1 PROVE Right(1)
      BY <2>1
    <3>1. f[1] = rows[1]
      BY <1>3, <2>2
    <3> QED
      BY <3>1
  <2>4. i - 1 \in 1 .. Len(rows) /\ Right(i - 1)
    BY <1>1, <2>1, <2>2, <2>3
  <2>5. f[i] = Preferred(f[i - 1], rows[i])
    BY <1>3, <2>2, <2>3
  <2>6. PICK k \in 1 .. i - 1 : f[i - 1] = rows[k]
    BY <2>4
  <2>7. k \in 1 .. Len(rows) /\ k \in 1 .. i /\ i \in 1 .. i
    BY <1>1, <2>2
  <2>8. \E l \in 1 .. i : f[i] = rows[l]
    BY <2>5, <2>6, <2>7 DEF Preferred
  <2>9. ASSUME NEW j \in 1 .. i, Tops(rows, j)
        PROVE  f[i].priority = rows[j].priority /\ f[i].score = rows[j].score
    <3>1. j \in 1 .. Len(rows)
      BY <1>1, <2>2
    <3>2. /\ rows[k].priority <= rows[j].priority /\ rows[k].score <= rows[j].score
          /\ rows[i].priority <= rows[j].priority /\ rows[i].score <= rows[j].score
      BY <2>2, <2>7, <2>9 DEF Tops
    <3>3. CASE j = i
      BY <1>1, <2>2, <2>5, <2>6, <2>7, <3>2, <3>3 DEF Preferred
    <3>4. CASE j # i
      <4>1. j \in 1 .. i - 1
        BY <2>2, <3>4
      <4>2. f[i - 1].priority = rows[j].priority /\ f[i - 1].score = rows[j].score
        BY <2>4, <2>9, <4>1
      <4> QED
        BY <1>1, <2>2, <2>5, <3>1, <3>2, <4>2 DEF Preferred
    <3> QED
      BY <3>3, <3>4
  <2>10. Right(i)
    BY <2>8, <2>9
  <2> QED
    BY <2>1, <2>10
<1>5. Right(Len(rows))
  <2> HIDE DEF Right
  <2> QED
    BY <1>1, <1>4
<1> QED
  BY <1>1, <1>2, <1>5

\* One of the rows has the highest score.
LEMMA HighestScore ==
  ASSUME NEW rows \in Seq(VariantRow), rows # <<>>
  PROVE  \E k \in 1 .. Len(rows) : \A n \in 1 .. Len(rows) : rows[n].score <= rows[k].score
<1>1. /\ Len(rows) \in Nat /\ Len(rows) # 0 
      /\ \A n \in 1 .. Len(rows) : rows[n].score \in Nat
  BY RowsOfVariants
<1> DEFINE Right(m) == \E k \in 1 .. m : \A n \in 1 .. m : rows[n].score <= rows[k].score
           bad == {m \in 1 .. Len(rows) : ~Right(m)}
<1>2. bad = {}
  <2> SUFFICES ASSUME bad # {} PROVE FALSE
    OBVIOUS
  <2>1. PICK i \in bad : \A k \in bad : i <= k
    <3>1. bad \in SUBSET Nat
      OBVIOUS
    <3> HIDE DEF bad
    <3> QED
      BY <3>1, LeastNumber
  <2>2. i \in 1 .. Len(rows) /\ i \in Nat
    OBVIOUS
  <2>3. ~Right(i) /\ \A m \in 1 .. Len(rows) : ~Right(m) => i <= m
    BY <2>1
  <2> HIDE DEF bad
  <2>10. i # 1
    <3>1. rows[1].score <= rows[1].score
      BY <1>1
    <3>2. Right(1)
      BY <3>1
    <3> QED
      BY <2>3, <3>2
  <2> HIDE DEF Right
  <2>4. i - 1 \in 1 .. Len(rows) /\ Right(i - 1)
    BY <1>1, <2>2, <2>3, <2>10
  <2>5. PICK k \in 1 .. i - 1 : \A n \in 1 .. i - 1 : rows[n].score <= rows[k].score
    BY <2>4 DEF Right
  <2>6. k \in 1 .. Len(rows) /\ k \in 1 .. i /\ i \in 1 .. i
    BY <1>1, <2>2
  <2>7. \A n \in 1 .. i : n = i \/ n \in 1 .. i - 1
    BY <2>2
  <2>8. CASE rows[i].score <= rows[k].score
    <3>1. \A n \in 1 .. i : rows[n].score <= rows[k].score
      BY <2>5, <2>7, <2>8
    <3> QED
      BY <2>3, <2>6, <3>1 DEF Right
  <2>9. CASE ~(rows[i].score <= rows[k].score)
    <3>1. \A n \in 1 .. i : rows[n].score <= rows[i].score
      <4> SUFFICES ASSUME NEW n \in 1 .. i PROVE rows[n].score <= rows[i].score
        OBVIOUS
      <4>1. n \in 1 .. Len(rows)
        BY <1>1, <2>2
      <4> QED
        BY <1>1, <2>2, <2>5, <2>6, <2>7, <2>9, <4>1
    <3> QED
      BY <2>3, <2>6, <3>1 DEF Right
  <2> QED
    BY <2>8, <2>9
<1>3. Right(Len(rows))
  <2> HIDE DEF Right
  <2> QED
    BY <1>1, <1>2
<1> QED
  BY <1>3

\* If the variants fit on the page, GetSeverity is the highest of their scores.
LEMMA SeverityIsHighest ==
  ASSUME NEW v \in Seq(VariantRow), v # <<>>, Len(v) <= PageSize
  PROVE  /\ \E n \in 1 .. Len(v) : GetSeverity(v) = v[n].score
         /\ \A n \in 1 .. Len(v) : v[n].score <= GetSeverity(v)
<1> DEFINE listed == SubSeq(v, 1, Len(v))
           rows == {v[n] : n \in 1 .. Len(v)}
<1>1. v \in Seq(VariantRow) /\ Len(v) \in Nat /\ Len(v) # 0 /\ DOMAIN v = 1 .. Len(v)
  BY RowsOfVariants
<1>2. (IF Len(v) < PageSize THEN Len(v) ELSE PageSize) = Len(v)
  <2>1. Len(v) \in Nat /\ PageSize \in Nat /\ Len(v) <= PageSize
    BY <1>1, PageAssumption
  <2>2. ASSUME NEW n \in Nat, NEW m \in Nat, n <= m PROVE (IF n < m THEN n ELSE m) = n
    BY <2>2
  <2> QED
    BY <2>1, <2>2
<1>3. DOMAIN listed = 1 .. Len(v) /\ \A n \in 1 .. Len(v) : listed[n] = v[n]
  BY <1>1
<1>4. ListEffectiveIssueVariants(v) = {listed[k] : k \in DOMAIN listed}
  BY <1>2 DEF ListEffectiveIssueVariants
<1>5. ListEffectiveIssueVariants(v) = rows
  <2> HIDE DEF listed
  <2> QED
    BY <1>3, <1>4
<1>6. GetSeverity(v) = CHOOSE s \in {r.score : r \in rows} : \A r \in rows : r.score <= s
  <2> HIDE DEF rows
  <2> QED
    BY <1>5 DEF GetSeverity
<1>7. PICK k \in 1 .. Len(v) : \A n \in 1 .. Len(v) : v[n].score <= v[k].score
  BY <1>1, HighestScore
<1>8. \E s \in {r.score : r \in rows} : \A r \in rows : r.score <= s
  BY <1>7
<1> DEFINE top == GetSeverity(v)
<1>9. top \in {r.score : r \in rows} /\ \A r \in rows : r.score <= top
  <2> HIDE DEF rows
  <2> QED
    BY <1>6, <1>8
<1> HIDE DEF top
<1>10. /\ \E n \in 1 .. Len(v) : top = v[n].score
       /\ \A n \in 1 .. Len(v) : v[n].score <= top
  BY <1>9
<1> QED
  BY <1>10 DEF top

\* The variants of an issue are rows with a priority and a score.
LEMMA VariantsOfIssue ==
  ASSUME NEW c \in Catalogues, NEW x \in Issues
  PROVE  c[x] \in Seq(VariantRow)
<1>1. c \in [Issues -> Seq(VariantRow)]
  BY VariantsAssumption DEF VariantRow
<1> QED
  BY <1>1

\* The row that BuildIssueVariantMap keeps has the score of the best variant.
LEMMA KeptIsDecided ==
  ASSUME NEW v \in Seq(VariantRow), v # <<>>
  PROVE  Decided(v, Kept(v).score)
<1>1. DOMAIN v = 1 .. Len(v)
  OBVIOUS
<1>2. /\ \E n \in 1 .. Len(v) : Kept(v) = v[n]
      /\ \A j \in 1 .. Len(v) : Tops(v, j) => Kept(v).score = v[j].score
  BY KeptDecides
<1> DEFINE rows == {v[n] : n \in DOMAIN v}
<1>3. \E r \in rows : r.score = Kept(v).score
  BY <1>1, <1>2
<1>4. ASSUME NEW r \in rows, \A q \in rows : q.priority <= r.priority /\ q.score <= r.score
      PROVE  Kept(v).score = r.score
  <2>1. PICK j \in 1 .. Len(v) : r = v[j]
    BY <1>1
  <2>2. Tops(v, j)
    BY <1>1, <1>4, <2>1 DEF Tops
  <2> QED
    BY <1>2, <2>1, <2>2
<1> HIDE DEF rows
<1>5. /\ \E r \in rows : r.score = Kept(v).score
      /\ \A r \in rows : (\A q \in rows : q.priority <= r.priority /\ q.score <= r.score)
                            => Kept(v).score = r.score
  BY <1>3, <1>4
<1> QED
  BY <1>5 DEF Decided, rows

\* So has the severity of a client's match, and no match is more severe.
LEMMA SeverityIsDecided ==
  ASSUME NEW v \in Seq(VariantRow), v # <<>>, Len(v) <= PageSize
  PROVE  /\ Decided(v, GetSeverity(v))
         /\ \A score : Decided(v, score) => score <= GetSeverity(v)
<1> DEFINE top == GetSeverity(v)
<1>1. /\ \E n \in 1 .. Len(v) : top = v[n].score
      /\ \A n \in 1 .. Len(v) : v[n].score <= top
  BY SeverityIsHighest
<1> HIDE DEF top
<1>2. DOMAIN v = 1 .. Len(v) /\ \A n \in 1 .. Len(v) : v[n].score \in Nat
  BY RowsOfVariants
<1> DEFINE rows == {v[n] : n \in DOMAIN v}
<1>3. /\ \E r \in rows : r.score = top
      /\ \A r \in rows : r.score \in Nat /\ r.score <= top
  BY <1>1, <1>2
<1> HIDE DEF rows
<1>4. \A r \in rows : (\A q \in rows : q.priority <= r.priority /\ q.score <= r.score) => top = r.score
  <2> SUFFICES ASSUME NEW r \in rows, \A q \in rows : q.score <= r.score PROVE top = r.score
    OBVIOUS
  <2> QED
    BY <1>3
<1>5. \A score : Decided(v, score) => \E r \in rows : r.score = score
  BY DEF Decided, rows
<1>6. Decided(v, top)
  BY <1>3, <1>4 DEF Decided, rows
<1> QED
  BY <1>3, <1>5, <1>6 DEF top

\* The entries of a map are chosen among the variants of their issues.
LEMMA MapIsDecided ==
  ASSUME variants \in Catalogues, attached \subseteq Versions \X Issues, NEW v, NEW issues,
         NEW x \in DOMAIN BuildIssueVariantMap(v, issues)
  PROVE  LET chosen == BuildIssueVariantMap(v, issues)[x]
         IN FromVariants(x, chosen.among, chosen.score)
<1> DEFINE chosen == BuildIssueVariantMap(v, issues)[x]
<1>1. <<v, x>> \in attached /\ variants[x] # <<>> /\ chosen = Choice(variants[x])
  BY DEF BuildIssueVariantMap
<1>2. x \in Issues /\ variants[x] \in Seq(VariantRow)
  BY <1>1, VariantsOfIssue
<1>3. chosen.among = variants[x] /\ chosen.score = Kept(variants[x]).score
  BY <1>1 DEF Choice
<1> HIDE DEF chosen
<1>4. FromVariants(x, chosen.among, chosen.score)
  BY <1>1, <1>2, <1>3, KeptIsDecided DEF FromVariants
<1> QED
  BY <1>4 DEF chosen

-----------------------------------------------------------------------------
(* Matching: the steps of the handlers.                                    *)

\* A row is appended to the table.
LEMMA MatchesAppend ==
  ASSUME NEW t, t \in Seq({t[k] : k \in DOMAIN t}), NEW e
  PROVE  /\ Len(t) \in Nat /\ DOMAIN t = 1 .. Len(t)
         /\ Append(t, e) \in Seq({Append(t, e)[k] : k \in DOMAIN Append(t, e)})
         /\ Len(Append(t, e)) = Len(t) + 1 /\ DOMAIN Append(t, e) = 1 .. (Len(t) + 1)
         /\ \A k \in DOMAIN t : Append(t, e)[k] = t[k]
         /\ Append(t, e)[Len(t) + 1] = e
<1> DEFINE S == {t[k] : k \in DOMAIN t} \cup {e}
<1>1. t \in Seq(S)
  OBVIOUS
<1>2. Len(t) \in Nat /\ DOMAIN t = 1 .. Len(t)
  BY <1>1
<1> DEFINE a == Append(t, e)
<1>3. /\ a \in Seq(S) /\ Len(a) = Len(t) + 1
      /\ \A k \in 1 .. Len(t) : a[k] = t[k]
      /\ a[Len(t) + 1] = e
  BY <1>1, AppendProperties
<1> HIDE DEF a, S
<1>4. DOMAIN a = 1 .. (Len(t) + 1) /\ Len(a) \in Nat /\ a = [k \in 1 .. Len(a) |-> a[k]]
  BY <1>2, <1>3
<1>5. a \in Seq({a[k] : k \in DOMAIN a})
  BY <1>2, <1>3, <1>4
<1> QED
  BY <1>2, <1>3, <1>4, <1>5 DEF a

\* What a worker does next: its map is a part of what it was, or built anew; before an insert
\* it has seen the first rows of the table, and no match of its own.
Follows(w, t) ==
  /\ IsTask(t)
  /\ t.at = "insert" =>
       /\ t.looked \in 0 .. Len(matches) /\ t.issue \in DOMAIN t.map
       /\ \A k \in 1 .. t.looked : ~(matches[k].instance = t.instance /\ matches[k].issue = t.issue)
  /\ \/ \A x \in DOMAIN t.map : x \in DOMAIN task[w].map /\ t.map[x] = task[w].map[x]
     \/ \E v, issues : t.map = BuildIssueVariantMap(v, issues)

\* A handler may always end.
LEMMA IdleFollows ==
  ASSUME NEW w
  PROVE  Follows(w, Idle)
<1>1. Idle.at = "idle" /\ Idle.map = <<>> /\ IsTask(Idle)
  BY DEF Idle, IsTask
<1>2. DOMAIN <<>> = {}
  OBVIOUS
<1> QED
  BY <1>1, <1>2 DEF Follows

\* After an issue a worker is not about to insert, and has a part of its map.
LEMMA ContinueFollows ==
  ASSUME NEW w, IsTask(task[w]), NEW S, NEW m, m = [y \in DOMAIN task[w].map \ S |-> task[w].map[y]]
  PROVE  Follows(w, Continue(w, m))
<1> DEFINE again == [task[w] EXCEPT !.at = "look", !.map = m, !.issue = None]
           next == [task[w] EXCEPT !.at = "variants", !.map = <<>>, !.issue = None]
<1>1. Continue(w, m) \in {again, next, Idle}
  BY DEF Continue, Loop
<1>2. IsTask(again) /\ again.at = "look" /\ again.map = m
  <2>1. again = [task[w] EXCEPT !.at = "look", !.map = m, !.issue = None]
    OBVIOUS
  <2> HIDE DEF again
  <2> QED
    BY <2>1 DEF IsTask
<1>3. IsTask(next) /\ next.at = "variants" /\ next.map = <<>>
  <2>1. next = [task[w] EXCEPT !.at = "variants", !.map = <<>>, !.issue = None]
    OBVIOUS
  <2> HIDE DEF next
  <2> QED
    BY <2>1 DEF IsTask
<1> HIDE DEF again, next
<1>4. DOMAIN <<>> = {}
  OBVIOUS
<1>5. Follows(w, again)
  BY <1>2 DEF Follows
<1>6. Follows(w, next)
  BY <1>3, <1>4 DEF Follows
<1> QED
  BY <1>1, <1>5, <1>6, IdleFollows

\* The worker goes on; it inserts its match.
Moves(w) == \E t : task' = [task EXCEPT ![w] = t] /\ Follows(w, t)
Inserts(w) ==
  /\ task[w].at = "insert"
  /\ LET chosen == task[w].map[task[w].issue]
     IN matches' = Append(matches, Match(task[w].instance, task[w].issue, chosen.score, chosen.among))

\* Every step of a handler, and the only one that writes.
LEMMA StepMoves ==
  ASSUME LooksInv, NEW w \in Workers, Step(w)
  PROVE  Moves(w) /\ UNCHANGED <<variants, attached>> /\ (UNCHANGED matches \/ Inserts(w))
<1>0. IsTask(Idle) /\ Idle.map = <<>>
  BY DEF Idle, IsTask
<1>1. IsTask(task[w])
  BY DEF LooksInv
<1>2. DOMAIN <<>> = {}
  OBVIOUS
<1>3. CASE Take(w)
  <2>1. PICK e \in events :
          Become(w, IF e.name = "CreateComponentInstance"
                    THEN [Idle EXCEPT !.at = "variants", !.event = e, !.todo = {e.of}]
                    ELSE [Idle EXCEPT !.at = "instances", !.event = e])
    BY <1>3 DEF Take
  <2> DEFINE a == [Idle EXCEPT !.at = "variants", !.event = e, !.todo = {e.of}]
             b == [Idle EXCEPT !.at = "instances", !.event = e]
  <2>2. IsTask(a) /\ a.at = "variants" /\ a.map = <<>>
    <3>1. a = [Idle EXCEPT !.at = "variants", !.event = e, !.todo = {e.of}]
      OBVIOUS
    <3> HIDE DEF a
    <3> QED
      BY <1>0, <3>1 DEF IsTask
  <2>3. IsTask(b) /\ b.at = "instances" /\ b.map = <<>>
    <3>1. b = [Idle EXCEPT !.at = "instances", !.event = e]
      OBVIOUS
    <3> HIDE DEF b
    <3> QED
      BY <1>0, <3>1 DEF IsTask
  <2>4. \E t \in {a, b} : task' = [task EXCEPT ![w] = t]
    BY <2>1 DEF Become
  <2> HIDE DEF a, b
  <2>5. Follows(w, a) /\ Follows(w, b)
    BY <1>2, <2>2, <2>3 DEF Follows
  <2> QED
    BY <1>3, <2>4, <2>5 DEF Take, Moves
<1>4. CASE GetComponentInstances(w)
  <2> DEFINE found == {i \in Instances : version[i] = task[w].event.of[1]}
             a == [task[w] EXCEPT !.at = "variants", !.todo = found]
  <2>1. IsTask(a) /\ a.at = "variants" /\ a.map = task[w].map
    <3> HIDE DEF found
    <3>1. a = [task[w] EXCEPT !.at = "variants", !.todo = found]
      OBVIOUS
    <3> HIDE DEF a
    <3> QED
      BY <1>1, <3>1 DEF IsTask
  <2>2. \E t \in {Idle, a} : task' = [task EXCEPT ![w] = t]
    BY <1>4 DEF GetComponentInstances, Become
  <2> HIDE DEF a
  <2>3. Follows(w, a)
    BY <2>1 DEF Follows
  <2> QED
    BY <1>4, <2>2, <2>3, IdleFollows DEF GetComponentInstances, Moves
<1>5. CASE GetServiceIssueVariants(w)
  <2> DEFINE i == CHOOSE i \in task[w].todo : \A j \in task[w].todo : i <= j
             m == BuildIssueVariantMap(version[i], IF Assigning(w) THEN Issues ELSE {task[w].event.of[2]})
             t == [task[w] EXCEPT !.instance = i, !.todo = @ \ {i}]
             a == [t EXCEPT !.at = "look", !.map = m]
  <2>1. task[w].at = "variants" /\ UNCHANGED <<variants, attached, matches>>
        /\ \E s \in {Idle, t, a} : task' = [task EXCEPT ![w] = s]
    BY <1>5 DEF GetServiceIssueVariants, Become
  <2>2. \E v, issues : m = BuildIssueVariantMap(v, issues)
    OBVIOUS
  <2> HIDE DEF i, m
  <2>3. IsTask(t) /\ t.at = "variants" /\ t.map = task[w].map
    <3>1. t = [task[w] EXCEPT !.instance = i, !.todo = @ \ {i}]
      OBVIOUS
    <3> HIDE DEF t
    <3> QED
      BY <1>1, <2>1, <3>1 DEF IsTask
  <2> HIDE DEF t
  <2>4. IsTask(a) /\ a.at = "look" /\ a.map = m
    <3>1. a = [t EXCEPT !.at = "look", !.map = m]
      OBVIOUS
    <3> HIDE DEF a
    <3> QED
      BY <2>3, <3>1 DEF IsTask
  <2> HIDE DEF a
  <2>5. Follows(w, t)
    BY <2>3 DEF Follows
  <2>6. Follows(w, a)
    BY <2>2, <2>4 DEF Follows
  <2> QED
    BY <2>1, <2>5, <2>6, IdleFollows DEF Moves
<1>6. CASE GetIssueMatches(w)
  <2>1. UNCHANGED <<variants, attached, matches>>
    BY <1>6 DEF GetIssueMatches
  <2>2. PICK x \in DOMAIN task[w].map :
          IF \E k \in DOMAIN matches : matches[k].instance = task[w].instance /\ matches[k].issue = x
          THEN Become(w, IF Assigning(w) THEN Idle
                         ELSE Continue(w, [y \in DOMAIN task[w].map \ {x} |-> task[w].map[y]]))
          ELSE Become(w, [task[w] EXCEPT !.at = "insert", !.issue = x, !.looked = Len(matches)])
    BY <1>6 DEF GetIssueMatches
  <2> DEFINE a == [task[w] EXCEPT !.at = "insert", !.issue = x, !.looked = Len(matches)]
             c == Continue(w, [y \in DOMAIN task[w].map \ {x} |-> task[w].map[y]])
  <2>3. IsTask(a) /\ a.map = task[w].map /\ a.issue = x /\ a.looked = Len(matches)
        /\ a.instance = task[w].instance
    <3>1. a = [task[w] EXCEPT !.at = "insert", !.issue = x, !.looked = Len(matches)]
      OBVIOUS
    <3> HIDE DEF a
    <3> QED
      BY <1>1, <3>1 DEF IsTask
  <2>4. Follows(w, c)
    BY <1>1, ContinueFollows
  <2>5. Len(matches) \in Nat /\ DOMAIN matches = 1 .. Len(matches)
    BY DEF LooksInv
  <2> HIDE DEF a, c
  <2>6. CASE \E k \in DOMAIN matches : matches[k].instance = task[w].instance /\ matches[k].issue = x
    <3>1. task' = [task EXCEPT ![w] = Idle] \/ task' = [task EXCEPT ![w] = c]
      BY <2>2, <2>6 DEF Become, c
    <3> QED
      BY <2>1, <2>4, <3>1, IdleFollows DEF Moves
  <2>7. CASE ~\E k \in DOMAIN matches : matches[k].instance = task[w].instance /\ matches[k].issue = x
    <3>1. task' = [task EXCEPT ![w] = a]
      BY <2>2, <2>7 DEF Become, a
    <3>2. \A k \in 1 .. Len(matches) : ~(matches[k].instance = task[w].instance /\ matches[k].issue = x)
      BY <2>5, <2>7
    <3>3. Len(matches) \in 0 .. Len(matches)
      BY <2>5
    <3>4. Follows(w, a)
      BY <2>3, <3>2, <3>3 DEF Follows
    <3> QED
      BY <2>1, <3>1, <3>4 DEF Moves
  <2> QED
    BY <2>6, <2>7
<1>7. CASE Insert(w)
  <2>1. task' = [task EXCEPT ![w] = Continue(w, Rest(w))] /\ Inserts(w) /\ UNCHANGED <<variants, attached>>
    BY <1>7 DEF Insert, Become, Inserts
  <2>2. Follows(w, Continue(w, Rest(w)))
    BY <1>1, ContinueFollows DEF Rest
  <2> QED
    BY <2>1, <2>2 DEF Moves
<1> QED
  BY <1>3, <1>4, <1>5, <1>6, <1>7 DEF Step

\* A failing statement writes nothing, and what was not read counts as nothing seen.
LEMMA FailureMoves ==
  ASSUME LooksInv, NEW w \in Workers, StatementFails(w)
  PROVE  Moves(w) /\ UNCHANGED <<variants, attached, matches>>
<1>1. IsTask(task[w])
  BY DEF LooksInv
<1>2. UNCHANGED <<variants, attached, matches>> /\ task[w].at \in {"instances", "variants", "look", "insert"}
  BY DEF StatementFails
<1>3. CASE Assigning(w) \/ task[w].at = "instances"
  <2>1. task' = [task EXCEPT ![w] = Idle]
    BY <1>3 DEF StatementFails, Become
  <2> QED
    BY <1>2, <2>1, IdleFollows DEF Moves
<1>4. CASE ~Assigning(w) /\ task[w].at = "variants"
  <2> DEFINE i == CHOOSE i \in task[w].todo : \A j \in task[w].todo : i <= j
             t == [task[w] EXCEPT !.todo = @ \ {i}]
  <2>1. task' = [task EXCEPT ![w] = Idle] \/ task' = [task EXCEPT ![w] = t]
    BY <1>4 DEF StatementFails, Become
  <2> HIDE DEF i
  <2>2. IsTask(t) /\ t.at = "variants" /\ t.map = task[w].map
    BY <1>1, <1>4 DEF IsTask
  <2> HIDE DEF t
  <2>3. Follows(w, t)
    BY <2>2 DEF Follows
  <2> QED
    BY <1>2, <2>1, <2>3, IdleFollows DEF Moves
<1>5. CASE ~Assigning(w) /\ task[w].at = "look"
  <2>1. PICK x \in DOMAIN task[w].map :
          task' = [task EXCEPT ![w] = [task[w] EXCEPT !.at = "insert", !.issue = x, !.looked = 0]]
    BY <1>5 DEF StatementFails, Become
  <2> DEFINE t == [task[w] EXCEPT !.at = "insert", !.issue = x, !.looked = 0]
  <2>2. IsTask(t) /\ t.map = task[w].map /\ t.looked = 0 /\ t.issue = x
    <3>1. t = [task[w] EXCEPT !.at = "insert", !.issue = x, !.looked = 0]
      OBVIOUS
    <3> HIDE DEF t
    <3> QED
      BY <1>1, <3>1 DEF IsTask
  <2>3. Len(matches) \in Nat
    BY DEF LooksInv
  <2> HIDE DEF t
  <2>4. Follows(w, t)
    BY <2>2, <2>3 DEF Follows
  <2> QED
    BY <1>2, <2>1, <2>4 DEF Moves, t
<1>6. CASE ~Assigning(w) /\ task[w].at = "insert"
  <2>1. task' = [task EXCEPT ![w] = Continue(w, Rest(w))]
    BY <1>6 DEF StatementFails, Become
  <2>2. Follows(w, Continue(w, Rest(w)))
    BY <1>1, ContinueFollows DEF Rest
  <2> QED
    BY <1>2, <2>1, <2>2 DEF Moves
<1> QED
  BY <1>2, <1>3, <1>4, <1>5, <1>6

-----------------------------------------------------------------------------
(* Matching: no duplicate that could have been seen.                       *)

\* The table only grows.
Extends ==
  /\ matches' \in Seq({matches'[k] : k \in DOMAIN matches'})
  /\ Len(matches) \in Nat /\ Len(matches') \in Nat /\ Len(matches) <= Len(matches')
  /\ \A k \in 1 .. Len(matches) : matches'[k] = matches[k]

\* An insert, of a worker or of a client, leaves the rows that were there.
LEMMA AppendExtends ==
  ASSUME LooksInv, UNCHANGED matches \/ \E e : matches' = Append(matches, e)
  PROVE  Extends
<1>1. matches \in Seq({matches[k] : k \in DOMAIN matches})
  BY DEF LooksInv
<1>2. CASE UNCHANGED matches
  BY <1>1, <1>2 DEF Extends
<1>3. CASE \E e : matches' = Append(matches, e)
  <2>1. PICK e : matches' = Append(matches, e)
    BY <1>3
  <2>2. /\ Len(matches) \in Nat /\ DOMAIN matches = 1 .. Len(matches)
        /\ matches' \in Seq({matches'[k] : k \in DOMAIN matches'})
        /\ Len(matches') = Len(matches) + 1
        /\ \A k \in DOMAIN matches : matches'[k] = matches[k]
    BY <1>1, <2>1, MatchesAppend
  <2> QED
    BY <2>2 DEF Extends
<1> QED
  BY <1>2, <1>3

\* What a worker has seen without a match stays so, whatever the others insert.
LEMMA LooksStep ==
  ASSUME LooksInv, MatchNext \/ UNCHANGED MatchVars
  PROVE  LooksInv'
<1>1. /\ task = [u \in Workers |-> task[u]]
      /\ \A u \in Workers : IsTask(task[u]) /\ HasLooked(u)
  BY DEF LooksInv
<1>2. ASSUME UNCHANGED task, Extends
      PROVE  LooksInv'
  <2>1. \A u \in Workers : HasLooked(u)'
    BY <1>1, <1>2 DEF HasLooked, Extends
  <2> QED
    BY <1>1, <1>2, <2>1 DEF LooksInv, Extends, IsTask
<1>3. ASSUME NEW w \in Workers, Moves(w), Extends
      PROVE  LooksInv'
  <2>1. PICK t : task' = [task EXCEPT ![w] = t] /\ Follows(w, t)
    BY <1>3 DEF Moves
  <2>2. task' = [u \in Workers |-> task'[u]] /\ task'[w] = t /\ \A u \in Workers \ {w} : task'[u] = task[u]
    BY <1>1, <2>1
  <2>3. HasLooked(w)'
    <3> SUFFICES ASSUME t.at = "insert"
                 PROVE  /\ t.looked \in 0 .. Len(matches') /\ t.issue \in DOMAIN t.map
                        /\ \A k \in 1 .. t.looked :
                             ~(matches'[k].instance = t.instance /\ matches'[k].issue = t.issue)
      BY <2>2 DEF HasLooked
    <3>1. /\ t.looked \in 0 .. Len(matches) /\ t.issue \in DOMAIN t.map
          /\ \A k \in 1 .. t.looked : ~(matches[k].instance = t.instance /\ matches[k].issue = t.issue)
      BY <2>1 DEF Follows
    <3>2. t.looked \in 0 .. Len(matches') /\ \A k \in 1 .. t.looked : matches'[k] = matches[k]
      BY <1>3, <3>1 DEF Extends
    <3> QED
      BY <3>1, <3>2
  <2>4. ASSUME NEW u \in Workers \ {w} PROVE HasLooked(u)'
    <3>1. HasLooked(u) /\ task'[u] = task[u]
      BY <1>1, <2>2
    <3> DEFINE s == task[u]
    <3> SUFFICES ASSUME s.at = "insert"
                 PROVE  /\ s.looked \in 0 .. Len(matches') /\ s.issue \in DOMAIN s.map
                        /\ \A k \in 1 .. s.looked :
                             ~(matches'[k].instance = s.instance /\ matches'[k].issue = s.issue)
      BY <3>1 DEF HasLooked
    <3>2. /\ s.looked \in 0 .. Len(matches) /\ s.issue \in DOMAIN s.map
          /\ \A k \in 1 .. s.looked : ~(matches[k].instance = s.instance /\ matches[k].issue = s.issue)
      BY <3>1 DEF HasLooked
    <3> HIDE DEF s
    <3>3. s.looked \in 0 .. Len(matches') /\ \A k \in 1 .. s.looked : matches'[k] = matches[k]
      BY <1>3, <3>2 DEF Extends
    <3> QED
      BY <3>2, <3>3
  <2>5. \A u \in Workers : IsTask(task[u])'
    BY <1>1, <2>1, <2>2 DEF Follows, IsTask
  <2> QED
    BY <1>3, <2>2, <2>3, <2>4, <2>5 DEF LooksInv, Extends
<1>4. ASSUME NEW w \in Workers, Step(w) PROVE LooksInv'
  <2>1. Moves(w) /\ (UNCHANGED matches \/ Inserts(w))
    BY <1>4, StepMoves
  <2>2. Extends
    BY <2>1, AppendExtends DEF Inserts
  <2> QED
    BY <1>3, <2>1, <2>2
<1>5. ASSUME NEW w \in Workers, StatementFails(w) PROVE LooksInv'
  <2>1. Moves(w) /\ Extends
    BY <1>5, FailureMoves, AppendExtends
  <2> QED
    BY <1>3, <2>1
<1>6. CASE Restart
  <2>1. task' = [u \in Workers |-> Idle] /\ UNCHANGED matches
    BY <1>6 DEF Restart
  <2>2. IsTask(Idle) /\ Idle.at = "idle"
    BY DEF IsTask, Idle
  <2>3. \A u \in Workers : task'[u] = Idle
    BY <2>1
  <2>4. \A u \in Workers : HasLooked(u)' /\ IsTask(task[u])'
    BY <2>2, <2>3 DEF HasLooked, IsTask
  <2> QED
    BY <2>1, <2>3, <2>4 DEF LooksInv
<1>7. ASSUME NEW i, NEW v, CreateComponentInstance(i, v) \/ UpdateComponentInstance(i, v)
      PROVE  LooksInv'
  BY <1>2, <1>7, AppendExtends DEF CreateComponentInstance, UpdateComponentInstance
<1>8. ASSUME NEW v, NEW x, AddComponentVersionToIssue(v, x) \/ RemoveComponentVersionFromIssue(v, x)
      PROVE  LooksInv'
  BY <1>2, <1>8, AppendExtends DEF AddComponentVersionToIssue, RemoveComponentVersionFromIssue
<1>9. ASSUME NEW i, NEW x, CreateIssueMatch(i, x) PROVE LooksInv'
  BY <1>2, <1>9, AppendExtends DEF CreateIssueMatch
<1>10. CASE UNCHANGED MatchVars
  BY <1>2, <1>10, AppendExtends DEF MatchVars
<1>11. ASSUME NEW c, ChangeIssueVariants(c) PROVE LooksInv'
  BY <1>2, <1>11, AppendExtends DEF ChangeIssueVariants
<1> QED
  BY <1>4, <1>5, <1>6, <1>7, <1>8, <1>9, <1>10, <1>11 DEF MatchNext

\* At the beginning no worker is about to insert.
LEMMA LooksInit ==
  ASSUME MatchInit
  PROVE  LooksInv
<1>1. task = [u \in Workers |-> Idle] /\ matches = <<>>
  BY DEF MatchInit
<1>2. IsTask(Idle) /\ Idle.at = "idle"
  BY DEF IsTask, Idle
<1>3. \A u \in Workers : task[u] = Idle
  BY <1>1
<1>4. \A u \in Workers : HasLooked(u) /\ IsTask(task[u])
  BY <1>2, <1>3 DEF HasLooked
<1> QED
  BY <1>1, <1>3, <1>4 DEF LooksInv

\* The inductive invariant of the two matching handlers (issue_handler_events.go,
\* issue_match_handler_events.go): a worker about to insert has found no match of its instance
\* and issue among the rows it looked at, and these are still the first rows of the table.
THEOREM LooksInvariant == MatchSpec => []LooksInv
<1>1. MatchInit => LooksInv
  BY LooksInit
<1>2. LooksInv /\ [MatchNext]_MatchVars => LooksInv'
  BY LooksStep
<1> QED
  BY <1>1, <1>2, PTL DEF MatchSpec

\* A handler never writes a second match that it could have seen: every match of the same instance
\* and issue was inserted after its look, or the look failed (issue_handler_events.go:189-206,
\* issue_match_handler_events.go:192-213).
THEOREM DuplicatesAreUnseen == MatchSpec => NoKnownDuplicate
<1> DEFINE A == \A w \in Workers : task[w].at = "insert" /\ task'[w] # task[w] /\ matches' # matches =>
                  \A k \in DOMAIN matches :
                    matches[k].instance = task[w].instance /\ matches[k].issue = task[w].issue
                      => k > task[w].looked
<1>1. LooksInv => [A]_MatchVars
  <2> SUFFICES ASSUME LooksInv, NEW w \in Workers, task[w].at = "insert", NEW k \in DOMAIN matches,
                      matches[k].instance = task[w].instance, matches[k].issue = task[w].issue
               PROVE  k > task[w].looked
    OBVIOUS
  <2>1. k \in 1 .. Len(matches) /\ Len(matches) \in Nat /\ HasLooked(w)
    BY DEF LooksInv
  <2> QED
    BY <2>1 DEF HasLooked
<1>2. MatchSpec => []LooksInv
  BY LooksInvariant
<1> QED
  BY <1>1, <1>2, PTL DEF MatchSpec, NoKnownDuplicate

-----------------------------------------------------------------------------
(* Matching: the best variant decides.                                     *)

\* Every map is built from the variants, every match from a map or from GetSeverity.
LEMMA VariantsStep ==
  ASSUME LooksInv, VariantsInv, VariantsFit, MatchNext \/ UNCHANGED MatchVars
  PROVE  VariantsInv'
<1>1. /\ variants \in Catalogues /\ attached \subseteq Versions \X Issues
      /\ \A u \in Workers : \A x \in DOMAIN task[u].map :
            FromVariants(x, task[u].map[x].among, task[u].map[x].score)
      /\ \A k \in DOMAIN matches : FromVariants(matches[k].issue, matches[k].among, matches[k].score)
  BY DEF VariantsInv
<1>2. /\ matches \in Seq({matches[k] : k \in DOMAIN matches}) /\ task = [u \in Workers |-> task[u]]
      /\ \A u \in Workers : IsTask(task[u]) /\ HasLooked(u)
  BY DEF LooksInv
<1> DEFINE Maps == \A u \in Workers : \A x \in DOMAIN task'[u].map :
                     FromVariants(x, task'[u].map[x].among, task'[u].map[x].score)
           Table == \A k \in DOMAIN matches' :
                      FromVariants(matches'[k].issue, matches'[k].among, matches'[k].score)
           Tables == attached' \subseteq Versions \X Issues /\ variants' \in Catalogues
<1>3. ASSUME Maps, Table, Tables PROVE VariantsInv'
  BY <1>3 DEF VariantsInv, FromVariants, Decided
<1>4. ASSUME NEW e, matches' = Append(matches, e), FromVariants(e.issue, e.among, e.score)
      PROVE  Table
  <2>1. /\ Len(matches) \in Nat /\ DOMAIN matches = 1 .. Len(matches)
        /\ DOMAIN matches' = 1 .. (Len(matches) + 1)
        /\ \A k \in DOMAIN matches : matches'[k] = matches[k]
        /\ matches'[Len(matches) + 1] = e
    BY <1>2, <1>4, MatchesAppend
  <2> SUFFICES ASSUME NEW k \in DOMAIN matches'
               PROVE  FromVariants(matches'[k].issue, matches'[k].among, matches'[k].score)
    OBVIOUS
  <2>2. CASE k \in DOMAIN matches
    BY <1>1, <2>1, <2>2
  <2>3. CASE k \notin DOMAIN matches
    <3>1. k = Len(matches) + 1
      BY <2>1, <2>3
    <3> QED
      BY <1>4, <2>1, <3>1
  <2> QED
    BY <2>2, <2>3
<1>5. UNCHANGED matches => Table
  BY <1>1
<1>6. UNCHANGED task => Maps
  BY <1>1
<1>7. UNCHANGED <<variants, attached>> => Tables
  BY <1>1
<1>8. ASSUME NEW w \in Workers, Moves(w)
      PROVE  Maps
  <2>1. PICK t : task' = [task EXCEPT ![w] = t] /\ Follows(w, t)
    BY <1>8 DEF Moves
  <2>2. task'[w] = t /\ \A u \in Workers \ {w} : task'[u] = task[u]
    BY <1>2, <2>1
  <2>3. \A x \in DOMAIN t.map : FromVariants(x, t.map[x].among, t.map[x].score)
    <3>1. CASE \A x \in DOMAIN t.map : x \in DOMAIN task[w].map /\ t.map[x] = task[w].map[x]
      BY <1>1, <3>1
    <3>2. ASSUME NEW v, NEW issues, t.map = BuildIssueVariantMap(v, issues)
          PROVE  \A x \in DOMAIN t.map : FromVariants(x, t.map[x].among, t.map[x].score)
      BY <1>1, <3>2, MapIsDecided
    <3> QED
      BY <2>1, <3>1, <3>2 DEF Follows
  <2> QED
    BY <1>1, <2>2, <2>3
<1> HIDE DEF Maps, Table, Tables
<1>9. ASSUME NEW w \in Workers, Step(w) PROVE VariantsInv'
  <2>1. Moves(w) /\ UNCHANGED <<variants, attached>> /\ (UNCHANGED matches \/ Inserts(w))
    BY <1>9, StepMoves
  <2>2. CASE Inserts(w)
    <3> DEFINE chosen == task[w].map[task[w].issue]
               e == Match(task[w].instance, task[w].issue, chosen.score, chosen.among)
    <3>1. matches' = Append(matches, e) /\ task[w].issue \in DOMAIN task[w].map
      BY <1>2, <2>2 DEF Inserts, HasLooked
    <3>2. FromVariants(task[w].issue, chosen.among, chosen.score)
      BY <1>1, <3>1
    <3>3. e.issue = task[w].issue /\ e.score = chosen.score /\ e.among = chosen.among
      BY DEF Match
    <3> HIDE DEF e, chosen
    <3>4. FromVariants(e.issue, e.among, e.score)
      BY <3>2, <3>3
    <3>5. Table
      BY <1>4, <3>1, <3>4
    <3> QED
      BY <1>3, <1>7, <1>8, <2>1, <3>5
  <2> QED
    BY <1>3, <1>5, <1>7, <1>8, <2>1, <2>2
<1>10. ASSUME NEW w \in Workers, StatementFails(w) PROVE VariantsInv'
  <2>1. Moves(w) /\ UNCHANGED <<variants, attached, matches>>
    BY <1>10, FailureMoves
  <2> QED
    BY <1>3, <1>5, <1>7, <1>8, <2>1
<1>11. CASE Restart
  <2>1. task' = [u \in Workers |-> Idle] /\ UNCHANGED <<variants, attached, matches>>
    BY <1>11 DEF Restart
  <2>2. \A u \in Workers : task'[u].map = <<>>
    BY <2>1 DEF Idle
  <2>3. Maps
    BY <2>2 DEF Maps
  <2> QED
    BY <1>3, <1>5, <1>7, <2>1, <2>3
<1>12. ASSUME NEW i, NEW v, CreateComponentInstance(i, v) \/ UpdateComponentInstance(i, v)
       PROVE  VariantsInv'
  BY <1>3, <1>5, <1>6, <1>7, <1>12 DEF CreateComponentInstance, UpdateComponentInstance
<1>13. ASSUME NEW v \in Versions, NEW x \in Issues,
              AddComponentVersionToIssue(v, x) \/ RemoveComponentVersionFromIssue(v, x)
       PROVE  VariantsInv'
  <2>1. attached' \subseteq Versions \X Issues /\ UNCHANGED <<variants, task, matches>>
    BY <1>1, <1>13 DEF AddComponentVersionToIssue, RemoveComponentVersionFromIssue
  <2>2. Tables
    BY <1>1, <2>1 DEF Tables
  <2> QED
    BY <1>3, <1>5, <1>6, <2>1, <2>2
<1>14. ASSUME NEW c \in Catalogues, ChangeIssueVariants(c) PROVE VariantsInv'
  <2>1. variants' = c /\ UNCHANGED <<attached, task, matches>>
    BY <1>14 DEF ChangeIssueVariants
  <2>2. Tables
    BY <1>1, <2>1 DEF Tables
  <2> QED
    BY <1>3, <1>5, <1>6, <2>1, <2>2
<1>15. ASSUME NEW i, NEW x \in Issues, CreateIssueMatch(i, x) PROVE VariantsInv'
  <2> DEFINE v == variants[x]
             e == Match(i, x, GetSeverity(v), v)
  <2>1. matches' = Append(matches, e) /\ v # <<>> /\ UNCHANGED <<variants, attached, task>>
    BY <1>15 DEF CreateIssueMatch
  <2>2. e.issue = x /\ e.score = GetSeverity(v) /\ e.among = v
    BY DEF Match
  <2>3. v \in Seq(VariantRow) /\ Len(v) <= PageSize
    BY <1>1, VariantsOfIssue DEF VariantsFit
  <2>4. Decided(v, GetSeverity(v))
    <3> HIDE DEF v
    <3> QED
      BY <2>1, <2>3, SeverityIsDecided
  <2>5. \E c \in Catalogues : v = c[x]
    BY <1>1
  <2> HIDE DEF e, v
  <2>6. FromVariants(e.issue, e.among, e.score)
    BY <2>2, <2>4, <2>5 DEF FromVariants
  <2> QED
    BY <1>3, <1>4, <1>6, <1>7, <2>1, <2>6
<1>16. CASE UNCHANGED MatchVars
  BY <1>3, <1>5, <1>6, <1>7, <1>16 DEF MatchVars
<1> QED
  BY <1>9, <1>10, <1>11, <1>12, <1>13, <1>14, <1>15, <1>16 DEF MatchNext

\* At the beginning there are no maps and no matches.
LEMMA VariantsInit ==
  ASSUME MatchInit
  PROVE  VariantsInv
<1>1. /\ task = [u \in Workers |-> Idle] /\ matches = <<>> /\ attached = {} /\ variants \in Catalogues
  BY DEF MatchInit
<1>2. \A u \in Workers : DOMAIN task[u].map = {}
  BY <1>1 DEF Idle
<1>3. DOMAIN matches = {}
  BY <1>1
<1> QED
  BY <1>1, <1>2, <1>3 DEF VariantsInv

\* Matches with the score of the best variant are no more severe than GetSeverity.
LEMMA DecidedIsBest ==
  ASSUME VariantsInv, VariantsFit
  PROVE  BestVariantDecides
<1> SUFFICES ASSUME NEW k \in DOMAIN matches
             PROVE  LET rows == {matches[k].among[n] : n \in DOMAIN matches[k].among}
                    IN /\ \A r \in rows : (\A q \in rows : q.priority <= r.priority /\ q.score <= r.score)
                                             => matches[k].score = r.score
                       /\ matches[k].score <= GetSeverity(matches[k].among)
  BY DEF BestVariantDecides
<1> DEFINE x == matches[k].issue
           v == matches[k].among
           score == matches[k].score
           rows == {v[n] : n \in DOMAIN v}
<1>1. x \in Issues /\ (\E c \in Catalogues : v = c[x]) /\ Decided(v, score)
  BY DEF VariantsInv, FromVariants
<1> HIDE DEF x, v, score
<1>2. v \in Seq(VariantRow) /\ Len(v) <= PageSize
  BY <1>1, VariantsOfIssue DEF VariantsFit
<1>3. /\ \E r \in rows : r.score = score
      /\ \A r \in rows : (\A q \in rows : q.priority <= r.priority /\ q.score <= r.score) => score = r.score
  BY <1>1 DEF Decided
<1>4. v # <<>>
  BY <1>3
<1>5. score <= GetSeverity(v)
  BY <1>1, <1>2, <1>4, SeverityIsDecided
<1> QED
  BY <1>3, <1>5 DEF v, score

\* A variant that no other exceeds in priority or score decides the severity of every match, and
\* no match is more severe than GetSeverity (issueVariant.go:57-70, severity_handler.go), however
\* the variants change in between, for catalogues whose issues have no more variants than
\* ListEffectiveIssueVariants reads.
THEOREM BestVariantWins == ASSUME VariantsFit PROVE MatchSpec => []BestVariantDecides
<1>1. MatchInit => VariantsInv
  BY VariantsInit
<1>2. LooksInv /\ VariantsInv /\ [MatchNext]_MatchVars => VariantsInv'
  BY VariantsStep
<1>3. VariantsInv => BestVariantDecides
  BY DecidedIsBest
<1>4. MatchSpec => []LooksInv
  BY LooksInvariant
<1> QED
  BY <1>1, <1>2, <1>3, <1>4, PTL DEF MatchSpec
=============================================================================
