------------------------------ MODULE Listing ------------------------------
(***************************************************************************)
(* A client walks a paginated list to its end.  Every page is two reads of *)
(* the database: the rows after the cursor, at most First of them, and     *)
(* then the cursors of all rows, from which the handler computes the page  *)
(* information; rows come and go in between.  A cursor holds the values of *)
(* the columns the list is ordered by, and the rows after it are selected  *)
(* by comparing those columns.                                             *)
(*                                                                         *)
(* Columns: id; name stands for any other unique column; key and key2 for  *)
(* columns whose values repeat (a severity count, a region, a date).       *)
(***************************************************************************)
EXTENDS Naturals, Integers, Sequences, FiniteSets, SequencesExt

CONSTANTS Rows,       \* the identities of the rows, numbers
          Keys,       \* the values of a column that repeats
          PageSizes,  \* the page sizes clients ask for
          MaxWrites   \* how many rows are inserted or deleted during the walk

ASSUME RowsAssumption == Rows \subseteq Nat /\ IsFiniteSet(Rows)
ASSUME KeysAssumption == Keys \subseteq Int
ASSUME SizesAssumption == PageSizes \subseteq Nat \ {0} /\ MaxWrites \in Nat

VARIABLES list,     \* what is listed: the object, the order, its direction and the page size
          key,      \* key[row]
          matching, \* the rows the filter selects
          present,  \* the rows in the database
          stable,   \* the matching rows that are there during the whole walk
          after,    \* the cursor the client sends, <<>> for none
          page,     \* the rows of the page that was read
          seen,     \* the rows the client has received, in order
          lost,     \* a row of the last page was gone when the cursors were read
          pc, writes

vars == <<list, key, matching, present, stable, after, page, seen, lost, pc, writes>>

-----------------------------------------------------------------------------
(* The listed objects, the orders the resolvers ask for and whether the    *)
(* cursor is compared in HAVING (aggregated) or in WHERE.                  *)

Object(aggregated, orders) == {[aggregated |-> aggregated, order |-> o] : o \in orders}

WithService == Object(TRUE, {<<"id">>, <<"name">>, <<"key", "id">>})
WithIssue == Object(TRUE, {<<"id">>, <<"name">>, <<"key", "id">>, <<"key", "key2", "name">>})
WithComponentVersion == Object(TRUE, {<<"id">>, <<"key">>, <<"key", "id">>, <<"key", "key2">>})
WithComponent == Object(FALSE, {<<"id">>, <<"key">>, <<"key", "key2">>})
WithComponentInstance == Object(FALSE, {<<"id">>, <<"key">>, <<"key", "key2">>})
WithIssueMatch == Object(FALSE, {<<"id">>, <<"key">>, <<"key", "key2">>})
WithRemediation == Object(FALSE, {<<"id">>, <<"key", "id">>})
WithSupportGroup == Object(FALSE, {<<"id">>, <<"name">>})
WithUser == Object(FALSE, {<<"id">>})
WithIssueVariant == Object(FALSE, {<<"id">>})
WithIssueRepository == Object(FALSE, {<<"id">>})
WithServiceIssueVariant == Object(FALSE, {<<"id">>})
WithPatch == Object(FALSE, {<<"id">>})

Lists ==
  WithService \cup WithIssue \cup WithComponentVersion \cup WithComponent
    \cup WithComponentInstance \cup WithIssueMatch \cup WithRemediation \cup WithSupportGroup
    \cup WithUser \cup WithIssueVariant \cup WithIssueRepository \cup WithServiceIssueVariant
    \cup WithPatch

\* The order tells any two rows apart.
Total(l) == {"id", "name"} \cap Range(l.order) # {}

\* The filter and the cursor restrict the rows together.
OneClause(l) == l.aggregated \/ Len(l.order) = 1

-----------------------------------------------------------------------------
(* Cursors and statements.                                                 *)

Column(row, c) == CASE c = "id"   -> row
                    [] c = "name" -> 0 - row
                    [] c = "key"  -> key[row]
                    [] c = "key2" -> row % 2

EncodeCursor(row) == [i \in DOMAIN list.order |-> Column(row, list.order[i])]

Beyond(a, b) == IF list.direction = "asc" THEN a > b ELSE a < b

\* One alternative of the cursor condition: equal in the first columns, beyond in the next.
CursorAlternative(row, cursor, n) ==
  /\ \A i \in 1..(n - 1) : Column(row, list.order[i]) = cursor[i]
  /\ Beyond(Column(row, list.order[n]), cursor[n])

\* Mutant of CreateCursorQuery.
CreateCursorQueryFirstColumn(row, cursor) == CursorAlternative(row, cursor, 1)
CreateCursorQuery(row, cursor) == \E n \in DOMAIN cursor : CursorAlternative(row, cursor, n)

\* Mutant of AddCursor.
AddCursorOnly(cursor) ==
  IF cursor = <<>> THEN present \cap matching
  ELSE {row \in present : CreateCursorQuery(row, cursor)}
\* The rows of a statement with a cursor.  In WHERE the alternatives follow the filter
\* without parentheses, so that the filter restricts the first of them only.
AddCursor(cursor) ==
  IF cursor = <<>> THEN present \cap matching
  ELSE {row \in present :
          IF list.aggregated THEN row \in matching /\ CreateCursorQuery(row, cursor)
          ELSE \/ row \in matching /\ CursorAlternative(row, cursor, Len(cursor))
               \/ \E n \in 1..(Len(cursor) - 1) : CursorAlternative(row, cursor, n)}

Before(a, b) ==
  \E n \in DOMAIN list.order : CursorAlternative(b, EncodeCursor(a), n)

\* The orders in which the database may return a set of rows: ties are left open.
Sorted(rows) ==
  {s \in SetToSeqs(rows) : \A i, j \in DOMAIN s : i < j => ~Before(s[j], s[i])}

Limit(s) == SubSeq(s, 1, IF Len(s) < list.first THEN Len(s) ELSE list.first)

-----------------------------------------------------------------------------
(* GetPages and GetPageInfo, from the cursors of all rows.                 *)

\* Mutant of GetPages.
GetPagesFull(cursors) == Len(cursors) \div list.first
GetPages(cursors) == (Len(cursors) + list.first - 1) \div list.first

PageOf(rank) == (rank - 1) \div list.first + 1

\* The number of the last page that holds the cursor of the first row of this one.
HasNextPage(cursors) ==
  LET ranks == {i \in DOMAIN cursors : cursors[i] = EncodeCursor(page[1])}
  IN /\ ranks # {}
     /\ \A i \in ranks : (\A j \in ranks : j <= i) => PageOf(i) < GetPages(cursors)

NextPageAfter == EncodeCursor(page[Len(page)])

-----------------------------------------------------------------------------
Init ==
  /\ \E l \in Lists, d \in {"asc", "desc"}, n \in PageSizes :
       list = [aggregated |-> l.aggregated, order |-> l.order, direction |-> d, first |-> n]
  /\ key \in [Rows -> Keys]
  /\ \E hidden, absent \in {{}} \cup {{r} : r \in Rows} :
       matching = Rows \ hidden /\ present = Rows \ absent
  /\ stable = matching \cap present
  /\ after = <<>> /\ page = <<>> /\ seen = <<>> /\ lost = FALSE
  /\ pc = "ask" /\ writes = 0

\* Get with the cursor.  An empty page has no page information, and the walk is over.
Get ==
  /\ pc = "ask"
  /\ \E s \in Sorted(AddCursor(after)) : page' = Limit(s)
  /\ pc' = IF page' = <<>> THEN "done" ELSE "cursors"
  /\ UNCHANGED <<list, key, matching, present, stable, after, seen, lost, writes>>

\* GetAllCursors and the answer; the client goes on where the page information says.
GetAllCursors ==
  /\ pc = "cursors"
  /\ \E s \in Sorted(present \cap matching) :
       LET cursors == [i \in DOMAIN s |-> EncodeCursor(s[i])]
       IN /\ pc' = IF HasNextPage(cursors) THEN "ask" ELSE "done"
          /\ lost' = ~(Range(page) \subseteq present)
  /\ after' = NextPageAfter
  /\ seen' = seen \o page
  /\ page' = <<>>
  /\ UNCHANGED <<list, key, matching, present, stable, writes>>

\* Another request creates or deletes a row.
Write ==
  /\ pc # "done"
  /\ writes < MaxWrites
  /\ writes' = writes + 1
  /\ \/ \E row \in Rows \ (present \cup Range(seen) \cup Range(page)) : present' = present \cup {row}
     \/ \E row \in present : present' = present \ {row}
  /\ stable' = stable \cap present'
  /\ UNCHANGED <<list, key, matching, after, page, seen, lost, pc>>

Finished == pc = "done" /\ UNCHANGED vars

Next == Get \/ GetAllCursors \/ Write \/ Finished

Spec == Init /\ [][Next]_vars

-----------------------------------------------------------------------------
\* A page is part of the list that was asked for: its rows satisfy the filter
\* (db_object.go:605-619), unless the cursor has several columns and follows the
\* filter in the WHERE clause, without parentheses.
OnlyMatching == OneClause(list) => Range(seen) \cup Range(page) \subseteq matching

\* The pages are consecutive pieces of one ordered list, whatever is written between them:
\* no row comes twice or before one that was already shown, and one that stays in the list
\* all the time and has not been shown is still to come, unless the order leaves ties
\* (cursor.go:71-103, pagination_helpers.go:85-90).
Consecutive ==
  LET shown == seen \o page
  IN /\ \A i, j \in DOMAIN shown : i < j => shown[i] # shown[j] /\ ~Before(shown[j], shown[i])
     /\ Total(list) =>
          \A row \in stable \ Range(seen) : after = <<>> \/ CreateCursorQuery(row, after)

\* When the page information says that there is no next page, every row that stayed in the
\* list has been shown, unless a row of the last page was deleted before the cursors were
\* read (pagination_helpers.go:23-106).
HonestEnd ==
  Total(list) /\ OneClause(list) /\ pc = "done" /\ ~lost => stable \subseteq Range(seen)

-----------------------------------------------------------------------------
(* The inductive invariant of the walk.                                    *)

Columns == {"id", "name", "key", "key2"}

TypeOK ==
  /\ list \in [aggregated : BOOLEAN, order : Seq(Columns), direction : {"asc", "desc"},
               first : Nat \ {0}]
  /\ Len(list.order) \in 1..3
  /\ key \in [Rows -> Keys]
  /\ matching \subseteq Rows /\ present \subseteq Rows /\ stable \subseteq matching \cap present
  /\ page \in Seq(Rows) /\ seen \in Seq(Rows)
  /\ lost \in BOOLEAN /\ pc \in {"ask", "cursors", "done"} /\ writes \in Nat

\* The cursor is that of the last row shown, and behind a page that has been read and not
\* answered yet a row can only be left if the page is full and ends before the row.
PageOK ==
  /\ after = IF seen = <<>> THEN <<>> ELSE EncodeCursor(seen[Len(seen)])
  /\ pc = "cursors" <=> page # <<>>
  /\ Total(list) /\ page # <<>> =>
       \A row \in stable \ (Range(seen) \cup Range(page)) :
         Len(page) = list.first /\ Before(page[Len(page)], row)

WalkInv == TypeOK /\ PageOK /\ OnlyMatching /\ Consecutive /\ HonestEnd
=============================================================================
