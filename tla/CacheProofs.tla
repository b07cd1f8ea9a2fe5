----------------------------- MODULE CacheProofs -----------------------------
(***************************************************************************)
(* Theorems about Cache, for any number of keys, callers, refreshes and    *)
(* writes, with and without limits.                                        *)
(*                                                                         *)
(* The argument: a key has one flight at a time, so the versions that are  *)
(* stored for it only grow (stored); what is served was stored before, and *)
(* what a call has in hand lies between what was served when it began and  *)
(* what is stored now.                                                     *)
(***************************************************************************)
EXTENDS Cache, FiniteSetTheorems, TLAPS

LEMMA InitInv == Init => CacheInv
<1> SUFFICES ASSUME Init PROVE CacheInv
  OBVIOUS
<1> USE CacheAssumption
<1>1. Idle \in Proc
  BY DEF Idle, Proc, Places, None
<1>2. TypeOK
  BY <1>1 DEF Init, TypeOK, Idle, None, Poison
<1>3. EntryOK
  BY DEF Init, EntryOK
<1>4. FlightOK /\ \A p \in Procs : HandOK(p)
  BY DEF Init, FlightOK, HandOK, Leads, Idle
<1> QED
  BY <1>2, <1>3, <1>4 DEF CacheInv

\* The entry is what was stored last, or nothing usable.
LEMMA GetStep ==
    ASSUME CacheInv, NEW c \in Callers, NEW k \in Keys, Get(c, k)
    PROVE  CacheInv'
<1> USE DEF CacheInv
<1> DEFINE d == proc'[c]
<1>1. c \in Procs
  BY DEF Procs
<1>2. /\ d.key = k /\ d.val = entry[k] /\ d.floor = served[k]
      /\ d.pc \in {"miss", "poison", "hit"}
      /\ d.pc = "hit" => entry[k] = stored[k]
      /\ d \in Proc
      /\ \A q \in Procs : q # c => proc'[q] = proc[q]
      /\ proc' \in [Procs -> Proc]
  BY <1>1 DEF Get, TypeOK, Proc, Places, EntryOK
<1>3. TypeOK'
  BY <1>2 DEF Get, TypeOK
<1>4. EntryOK'
  BY DEF Get, EntryOK
<1>5. FlightOK'
  BY <1>1, <1>2 DEF Get, FlightOK, Leads
<1>6. ASSUME NEW p \in Procs PROVE HandOK(p)'
  <2>1. served[k] \in Nat /\ stored[k] \in Nat /\ served[k] <= stored[k]
    BY DEF TypeOK, EntryOK
  <2>2. CASE p = c
    BY <1>2, <2>1, <2>2 DEF Get, HandOK
  <2>3. CASE p # c
    BY <1>2, <2>3 DEF Get, HandOK
  <2> QED
    BY <2>2, <2>3
<1> QED
  BY <1>3, <1>4, <1>5, <1>6

LEMMA InvalidateStep ==
    ASSUME CacheInv, NEW c \in Callers, Invalidate(c)
    PROVE  CacheInv'
<1> USE DEF CacheInv
<1>1. c \in Procs /\ proc[c] \in Proc /\ proc[c].pc = "poison" /\ proc[c].key \in Keys
  BY DEF Procs, Invalidate, TypeOK
<1>2. /\ proc'[c] = [proc[c] EXCEPT !.pc = "miss"]
      /\ \A q \in Procs : q # c => proc'[q] = proc[q]
      /\ proc' \in [Procs -> Proc]
  BY <1>1 DEF Invalidate, TypeOK, Proc, Places
<1>3. TypeOK'
  BY <1>1, <1>2 DEF Invalidate, TypeOK, Proc
<1>4. EntryOK'
  BY <1>1 DEF Invalidate, EntryOK, TypeOK
<1>5. FlightOK'
  BY <1>1, <1>2 DEF Invalidate, FlightOK, Leads, Proc
<1>6. ASSUME NEW p \in Procs PROVE HandOK(p)'
  BY <1>1, <1>2 DEF Invalidate, HandOK, Proc
<1> QED
  BY <1>3, <1>4, <1>5, <1>6

\* What a call answers was stored before.
LEMMA AnswerLemma ==
    ASSUME CacheInv, NEW c \in Callers, proc[c].pc \in {"hit", "done"}, Answer(c),
           UNCHANGED <<db, entry, stored>>
    PROVE  EntryOK' /\ served' \in [Keys -> Nat]
<1>1. /\ c \in Procs /\ proc[c].key \in Keys
      /\ proc[c].val \in proc[c].floor..stored[proc[c].key]
      /\ proc[c].floor \in Nat
  BY DEF Procs, CacheInv, TypeOK, HandOK, Proc
<1>2. proc[c].val \in Nat /\ proc[c].val <= stored[proc[c].key]
  BY <1>1 DEF CacheInv, TypeOK
<1> QED
  BY <1>1, <1>2 DEF CacheInv, TypeOK, EntryOK, Answer, Later

\* A step after which some processes are idle or start a refresh.
LEMMA MoveLemma ==
    ASSUME CacheInv, UNCHANGED <<db, flying, stored>>, proc' \in [Procs -> Proc],
           EntryOK', served' \in [Keys -> Nat], entry' = entry,
           slots' \in Int, tokens' \in 0..Burst \cup {Unlimited},
           \A q \in Procs :
              \/ proc'[q] = proc[q]
              \/ proc'[q].pc = "idle"
              \/ proc'[q].pc = "miss" /\ proc'[q].key \in Keys /\ proc'[q].floor = 0
    PROVE  CacheInv'
<1> USE DEF CacheInv
<1>1. TypeOK'
  BY DEF TypeOK
<1>2. FlightOK'
  BY DEF FlightOK, Leads
<1>3. ASSUME NEW p \in Procs PROVE HandOK(p)'
  <2>1. CASE proc'[p] = proc[p]
    BY <2>1 DEF HandOK
  <2>2. CASE proc'[p].pc = "idle"
    BY <2>2 DEF HandOK
  <2>3. CASE proc'[p].pc = "miss" /\ proc'[p].key \in Keys /\ proc'[p].floor = 0
    BY <2>3 DEF HandOK, TypeOK
  <2> QED
    BY <2>1, <2>2, <2>3
<1> QED
  BY <1>1, <1>2, <1>3

LEMMA LaunchStep ==
    ASSUME CacheInv, NEW c \in Callers, LaunchRefresh(c)
    PROVE  CacheInv'
<1>1. EntryOK' /\ served' \in [Keys -> Nat]
  BY AnswerLemma DEF LaunchRefresh
<1>2. Idle \in Proc /\ Idle.pc = "idle"
  BY DEF Idle, Proc, Places, None
<1>3. c \in Procs /\ proc[c].key \in Keys /\ proc \in [Procs -> Proc]
  BY DEF LaunchRefresh, CacheInv, TypeOK, Procs
<1>4. UNCHANGED <<db, flying, stored, entry>>
  BY DEF LaunchRefresh
<1>5. ASSUME NEW taken \in {0, 1}, NEW r \in Refreshers, Launch(c, r, taken)
      PROVE  CacheInv'
  <2> DEFINE d == [pc |-> Start, key |-> proc[c].key, val |-> None, floor |-> 0]
  <2>1. d \in Proc /\ d.pc = "miss" /\ d.key \in Keys /\ d.floor = 0
    BY <1>3 DEF Proc, Places, Start, None
  <2>2. proc' = [proc EXCEPT ![c] = Idle, ![r] = d] /\ r \in Procs
    BY <1>5 DEF Launch, Procs
  <2> HIDE DEF d
  <2>3. proc' \in [Procs -> Proc]
    BY <1>2, <1>3, <2>1, <2>2
  <2>4. \A q \in Procs : proc'[q] \in {proc[q], Idle, d}
    BY <1>3, <2>2
  <2>5. slots' \in Int /\ tokens' \in 0..Burst \cup {Unlimited}
    BY <1>5, CacheAssumption DEF Launch, Allow, Throttled, Unlimited, CacheInv, TypeOK
  <2> QED
    BY <1>1, <1>2, <1>4, <2>1, <2>3, <2>4, <2>5, MoveLemma
<1>6. ASSUME slots' \in Int, UNCHANGED tokens, proc' = [proc EXCEPT ![c] = Idle]
      PROVE  CacheInv'
  <2>1. proc' \in [Procs -> Proc] /\ \A q \in Procs : proc'[q] \in {proc[q], Idle}
    BY <1>2, <1>3, <1>6
  <2>2. tokens' \in 0..Burst \cup {Unlimited}
    BY <1>6 DEF CacheInv, TypeOK
  <2> QED
    BY <1>1, <1>2, <1>4, <1>6, <2>1, <2>2, MoveLemma
<1>7. ASSUME NEW taken \in {0, 1}, launchRefreshWithThrottling(c, taken)
      PROVE  CacheInv'
  <2>1. CASE Drop(c, taken)
    BY <1>6, <2>1 DEF Drop, CacheInv, TypeOK
  <2> QED
    BY <1>5, <1>7, <2>1 DEF launchRefreshWithThrottling
<1>8. CASE proc' = [proc EXCEPT ![c] = Idle] /\ UNCHANGED <<slots, tokens>>
  BY <1>6, <1>8 DEF CacheInv, TypeOK
<1> QED
  BY <1>7, <1>8 DEF LaunchRefresh

LEMMA ReturnStep ==
    ASSUME CacheInv, NEW c \in Callers, Return(c)
    PROVE  CacheInv'
<1>1. EntryOK' /\ served' \in [Keys -> Nat]
  BY AnswerLemma DEF Return
<1>2. Idle \in Proc /\ Idle.pc = "idle"
  BY DEF Idle, Proc, Places, None
<1>3. c \in Procs /\ proc \in [Procs -> Proc]
  BY DEF CacheInv, TypeOK, Procs
<1>4. proc' \in [Procs -> Proc] /\ \A q \in Procs : proc'[q] \in {proc[q], Idle}
  BY <1>2, <1>3 DEF Return
<1>5. slots' \in Int /\ tokens' \in 0..Burst \cup {Unlimited}
  BY DEF Return, CacheInv, TypeOK
<1> QED
  BY <1>1, <1>2, <1>4, <1>5, MoveLemma DEF Return

LEMMA ReleaseStep ==
    ASSUME CacheInv, NEW r \in Refreshers, Release(r)
    PROVE  CacheInv'
<1>1. EntryOK' /\ served' \in [Keys -> Nat]
  BY DEF Release, CacheInv, EntryOK, TypeOK
<1>2. Idle \in Proc /\ Idle.pc = "idle"
  BY DEF Idle, Proc, Places, None
<1>3. r \in Procs /\ proc \in [Procs -> Proc]
  BY DEF CacheInv, TypeOK, Procs
<1>4. proc' \in [Procs -> Proc] /\ \A q \in Procs : proc'[q] \in {proc[q], Idle}
  BY <1>2, <1>3 DEF Release
<1>5. slots' \in Int /\ tokens' \in 0..Burst \cup {Unlimited}
  BY DEF Release, SlotsReleased, CacheInv, TypeOK
<1> QED
  BY <1>1, <1>2, <1>4, <1>5, MoveLemma DEF Release

-----------------------------------------------------------------------------
(* The flights.                                                            *)

\* A process joins the flight of its key or leads a new one.
LEMMA DoStep ==
    ASSUME CacheInv, NEW p \in Procs, Do(p)
    PROVE  CacheInv'
<1> USE DEF CacheInv
<1>1. proc[p] \in Proc /\ proc[p].pc = "miss" /\ proc[p].key \in Keys
  BY DEF Do, TypeOK
<1>2. PICK l \in {"wait", "lead"} :
         /\ proc' = [proc EXCEPT ![p].pc = l]
         /\ l = "wait" => flying' = flying
         /\ l = "lead" => proc[p].key \notin flying /\ flying' = flying \cup {proc[p].key}
  BY DEF Do
<1>3. /\ proc'[p] = [proc[p] EXCEPT !.pc = l] /\ proc'[p].pc = l
      /\ proc'[p].key = proc[p].key /\ proc'[p].floor = proc[p].floor
      /\ \A q \in Procs : q # p => proc'[q] = proc[q]
      /\ proc' \in [Procs -> Proc]
  BY <1>1, <1>2 DEF TypeOK, Proc, Places
<1>4. TypeOK'
  BY <1>1, <1>2, <1>3 DEF Do, TypeOK
<1>5. EntryOK'
  BY DEF Do, EntryOK
<1>6. FlightOK'
  BY <1>1, <1>2, <1>3 DEF FlightOK, Leads
<1>7. ASSUME NEW q \in Procs PROVE HandOK(q)'
  BY <1>1, <1>2, <1>3 DEF Do, HandOK
<1> QED
  BY <1>4, <1>5, <1>6, <1>7

\* The query reads a version that is at least the stored one.
LEMMA QueryStep ==
    ASSUME CacheInv, NEW p \in Procs, Query(p)
    PROVE  CacheInv'
<1> USE DEF CacheInv
<1>1. proc[p] \in Proc /\ proc[p].pc = "lead" /\ proc[p].key \in Keys
  BY DEF Query, TypeOK
<1>2. /\ proc'[p].pc = "set" /\ proc'[p].val = db[proc[p].key]
      /\ proc'[p].key = proc[p].key /\ proc'[p].floor = proc[p].floor
      /\ \A q \in Procs : q # p => proc'[q] = proc[q]
      /\ proc' \in [Procs -> Proc]
  BY <1>1 DEF Query, TypeOK, Proc, Places
<1>3. TypeOK'
  BY <1>1, <1>2 DEF Query, TypeOK
<1>4. EntryOK'
  BY DEF Query, EntryOK
<1>5. FlightOK'
  BY <1>1, <1>2 DEF Query, FlightOK, Leads
<1>6. ASSUME NEW q \in Procs PROVE HandOK(q)'
  BY <1>1, <1>2 DEF Query, HandOK, EntryOK, TypeOK
<1> QED
  BY <1>3, <1>4, <1>5, <1>6

\* The leader stores what it read: stored does not decrease, and no other
\* leader of the key has a value in hand.
LEMMA SetStep ==
    ASSUME CacheInv, NEW p \in Procs, Set(p)
    PROVE  CacheInv'
<1> USE DEF CacheInv
<1> DEFINE k == proc[p].key
<1>1. proc[p] \in Proc /\ proc[p].pc = "set" /\ k \in Keys /\ Leads(p)
  BY DEF Set, TypeOK, Leads
<1>2. proc[p].val \in stored[k]..db[k] /\ stored[k] \in Nat /\ db[k] \in Nat
  BY <1>1 DEF HandOK, TypeOK
<1>3. proc[p].val \in Nat /\ stored[k] <= proc[p].val /\ proc[p].val <= db[k]
  BY <1>2
<1>4. /\ stored'[k] = proc[p].val /\ entry'[k] = proc[p].val
      /\ \A j \in Keys : j # k => stored'[j] = stored[j] /\ entry'[j] = entry[j]
      /\ stored' \in [Keys -> Nat]
      /\ entry' \in [Keys -> Nat \cup {None, Poison}]
  BY <1>1, <1>3 DEF Set, TypeOK
<1>5. /\ proc'[p].pc = "end" /\ proc'[p].val = proc[p].val
      /\ proc'[p].key = k /\ proc'[p].floor = proc[p].floor
      /\ \A q \in Procs : q # p => proc'[q] = proc[q]
      /\ proc' \in [Procs -> Proc]
  BY <1>1 DEF Set, TypeOK, Proc, Places
<1>6. UNCHANGED <<db, flying, slots, tokens, served>>
  BY DEF Set
<1> HIDE DEF k
<1>7. TypeOK'
  BY <1>1, <1>4, <1>5, <1>6 DEF TypeOK
<1>8. EntryOK'
  BY <1>3, <1>4, <1>6 DEF EntryOK, TypeOK
<1>9. FlightOK'
  BY <1>1, <1>5, <1>6 DEF FlightOK, Leads, k
<1>10. ASSUME NEW q \in Procs PROVE HandOK(q)'
  <2>1. CASE q = p
    BY <1>1, <1>3, <1>4, <1>5, <2>1 DEF HandOK, TypeOK, Proc, k
  <2>2. CASE q # p /\ proc[q].key # k
    <3>1. proc[q].pc # "idle" => proc[q].key \in Keys
      BY DEF TypeOK
    <3> QED
      BY <1>4, <1>5, <1>6, <2>2, <3>1 DEF HandOK
  <2>3. CASE q # p /\ proc[q].key = k
    <3>1. proc[q].pc \notin {"set", "end"} /\ proc'[q] = proc[q]
      BY <1>1, <1>5, <2>3 DEF FlightOK, Leads, k
    <3>2. proc[q] \in Proc /\ stored[k] <= stored'[k] /\ stored'[k] \in Nat /\ stored[k] \in Nat
      BY <1>1, <1>3, <1>4 DEF TypeOK
    <3>3. HandOK(q)
      OBVIOUS
    <3> QED
      BY <2>3, <3>1, <3>2, <3>3 DEF HandOK, Proc, None, Poison
  <2> QED
    BY <2>1, <2>2, <2>3
<1> QED
  BY <1>7, <1>8, <1>9, <1>10

\* Everybody aboard gets the value that was just stored.
LEMMA EndStep ==
    ASSUME CacheInv, NEW p \in Procs, EndFlight(p)
    PROVE  CacheInv'
<1> USE DEF CacheInv
<1> DEFINE k == proc[p].key
<1>1. proc[p] \in Proc /\ k \in Keys /\ Leads(p) /\ proc[p].val = stored[k] /\ stored[k] \in Nat
  BY DEF EndFlight, TypeOK, Leads, HandOK
<1>2. ASSUME NEW q \in Procs
      PROVE  \/ proc'[q] = proc[q] /\ q \notin Aboard(p)
             \/ /\ q \in Aboard(p) /\ proc[q].key = k
                /\ proc'[q].pc \in {"done", "release"} /\ proc'[q].val = stored[k]
                /\ proc'[q].key = k /\ proc'[q].floor = proc[q].floor
                /\ proc'[q] \in Proc /\ proc[q].pc # "idle"
  <2>1. proc[q] \in Proc
    BY DEF TypeOK
  <2> QED
    BY <1>1, <2>1 DEF EndFlight, Aboard, Proc, Places, Leads
<1>3. proc' \in [Procs -> Proc]
  <2>1. \A q \in Procs : proc'[q] \in Proc
    BY <1>2 DEF TypeOK
  <2> QED
    BY <2>1 DEF EndFlight
<1>4. TypeOK'
  BY <1>1, <1>2, <1>3 DEF EndFlight, TypeOK
<1>5. EntryOK'
  BY DEF EndFlight, EntryOK
<1>6. FlightOK'
  <2>1. \A q \in Procs : Leads(q)' => proc'[q] = proc[q] /\ q \notin Aboard(p) /\ Leads(q)
    BY <1>2 DEF Leads
  <2>2. \A q \in Procs : Leads(q)' => proc[q].key # k
    BY <1>1, <2>1 DEF FlightOK, Aboard
  <2> QED
    BY <2>1, <2>2 DEF FlightOK, EndFlight
<1>7. ASSUME NEW q \in Procs PROVE HandOK(q)'
  <2>1. CASE proc'[q] = proc[q]
    BY <2>1 DEF HandOK, EndFlight
  <2>2. CASE proc'[q] # proc[q]
    <3>1. /\ proc'[q].pc \in {"done", "release"} /\ proc'[q].val = stored[k]
          /\ proc'[q].key = k /\ proc'[q].floor = proc[q].floor
          /\ proc[q].key = k /\ proc[q].pc # "idle"
      BY <1>2, <2>2
    <3>2. proc[q].floor \in Nat /\ proc[q].floor <= stored[k]
      BY <3>1 DEF HandOK, TypeOK, Proc
    <3>3. stored' = stored
      BY DEF EndFlight
    <3> HIDE DEF k
    <3> QED
      BY <1>1, <3>1, <3>2, <3>3 DEF HandOK
  <2> QED
    BY <2>1, <2>2
<1> QED
  BY <1>4, <1>5, <1>6, <1>7

\* A failed flight stores nothing and leaves nobody aboard.
LEMMA FailStep ==
    ASSUME CacheInv, NEW p \in Procs, FailFlight(p)
    PROVE  CacheInv'
<1> USE DEF CacheInv
<1> DEFINE k == proc[p].key
<1>1. proc[p] \in Proc /\ k \in Keys /\ Leads(p)
  BY DEF FailFlight, TypeOK, Leads
<1>2. ASSUME NEW q \in Procs
      PROVE  \/ proc'[q] = proc[q] /\ q \notin Aboard(p)
             \/ proc'[q] = Idle
             \/ /\ proc'[q].pc = "release" /\ proc'[q].key = k /\ proc[q].key = k
                /\ proc'[q].floor = proc[q].floor
                /\ proc'[q] \in Proc /\ proc[q].pc # "idle"
  <2>1. proc[q] \in Proc
    BY DEF TypeOK
  <2> QED
    BY <1>1, <2>1 DEF FailFlight, Aboard, Proc, Places, Leads
<1>3. Idle \in Proc /\ Idle.pc = "idle"
  BY DEF Idle, Proc, Places, None
<1>4. proc' \in [Procs -> Proc]
  <2>1. \A q \in Procs : proc'[q] \in Proc
    BY <1>2, <1>3 DEF TypeOK
  <2> QED
    BY <2>1 DEF FailFlight
<1>5. TypeOK'
  BY <1>1, <1>2, <1>3, <1>4 DEF FailFlight, TypeOK
<1>6. EntryOK'
  BY DEF FailFlight, EntryOK
<1>7. FlightOK'
  <2>1. \A q \in Procs : Leads(q)' => proc'[q] = proc[q] /\ q \notin Aboard(p) /\ Leads(q)
    BY <1>2, <1>3 DEF Leads
  <2>2. \A q \in Procs : Leads(q)' => proc[q].key # k
    BY <1>1, <2>1 DEF FlightOK, Aboard
  <2> QED
    BY <2>1, <2>2 DEF FlightOK, FailFlight
<1>8. ASSUME NEW q \in Procs PROVE HandOK(q)'
  BY <1>2, <1>3 DEF HandOK, FailFlight
<1> QED
  BY <1>5, <1>6, <1>7, <1>8

-----------------------------------------------------------------------------
(* The environment, and the theorems.                                      *)

LEMMA OutsideStep ==
    ASSUME CacheInv, (\E k \in Keys : Write(k) \/ Remove(k)) \/ Interval \/ UNCHANGED vars
    PROVE  CacheInv'
<1> USE DEF CacheInv
<1>1. ASSUME NEW k \in Keys, Write(k)
      PROVE  CacheInv'
  <2>1. db' \in [Keys -> Nat] /\ \A j \in Keys : db[j] <= db'[j]
    BY <1>1 DEF Write, TypeOK
  <2>2. TypeOK'
    BY <1>1, <2>1 DEF Write, TypeOK
  <2>3. EntryOK'
    BY <1>1, <2>1 DEF Write, TypeOK, EntryOK
  <2>4. FlightOK'
    BY <1>1 DEF Write, FlightOK, Leads
  <2>5. ASSUME NEW p \in Procs PROVE HandOK(p)'
    BY <1>1, <2>1 DEF Write, HandOK, TypeOK
  <2> QED
    BY <2>2, <2>3, <2>4, <2>5
<1>2. ASSUME NEW k \in Keys, Remove(k)
      PROVE  CacheInv'
  <2>1. TypeOK' /\ EntryOK'
    BY <1>2 DEF Remove, TypeOK, EntryOK
  <2>2. FlightOK' /\ \A p \in Procs : HandOK(p)'
    BY <1>2 DEF Remove, FlightOK, Leads, HandOK
  <2> QED
    BY <2>1, <2>2
<1>3. CASE Interval
  <2>1. TypeOK' /\ EntryOK'
    BY <1>3, CacheAssumption DEF Interval, Throttled, Unlimited, TypeOK, EntryOK
  <2>2. FlightOK' /\ \A p \in Procs : HandOK(p)'
    BY <1>3 DEF Interval, FlightOK, Leads, HandOK
  <2> QED
    BY <2>1, <2>2
<1>4. CASE UNCHANGED vars
  BY <1>4 DEF vars, TypeOK, EntryOK, FlightOK, Leads, HandOK
<1> QED
  BY <1>1, <1>2, <1>3, <1>4

LEMMA NextInv == CacheInv /\ [Next]_vars => CacheInv'
<1> SUFFICES ASSUME CacheInv, [Next]_vars PROVE CacheInv'
  OBVIOUS
<1>1. CASE \E c \in Callers : CallCached(c)
  BY <1>1, GetStep, InvalidateStep, LaunchStep, ReturnStep DEF CallCached
<1>2. CASE \E p \in Procs : CallFn(p)
  BY <1>2, DoStep, QueryStep, SetStep, EndStep, FailStep DEF CallFn
<1>3. CASE \E r \in Refreshers : Release(r)
  BY <1>3, ReleaseStep
<1> QED
  BY <1>1, <1>2, <1>3, OutsideStep DEF Next

\* The invariant behind the theorem below: one flight per key, and every value
\* in hand lies between what was served before and what is stored.
THEOREM Invariance == Spec => []CacheInv
<1> QED
  BY InitInv, NextInv, PTL DEF Spec

\* Calls of one key never go back in time, whatever hits, misses, refreshes,
\* expiries, failures and writes interleave.
THEOREM ReadsAreMonotonic == Spec => []MonotonicReads
<1>1. CacheInv => MonotonicReads
  <2> SUFFICES ASSUME CacheInv, NEW c \in Callers, proc[c].pc \in {"hit", "done"}
               PROVE  proc[c].val >= proc[c].floor
    BY DEF MonotonicReads
  <2>1. c \in Procs /\ proc[c].key \in Keys /\ proc[c] \in Proc /\ HandOK(c)
    BY DEF CacheInv, TypeOK, Procs
  <2>2. proc[c].val \in proc[c].floor..stored[proc[c].key]
    BY <2>1 DEF HandOK
  <2>3. proc[c].floor \in Nat /\ stored[proc[c].key] \in Nat
    BY <2>1 DEF Proc, CacheInv, TypeOK
  <2> QED
    BY <2>2, <2>3
<1> QED
  BY <1>1, Invariance, PTL
-----------------------------------------------------------------------------
(* The semaphore of the background refreshes.                              *)

LEMMA RunningFinite == IsFiniteSet(Running) /\ Cardinality(Running) \in Nat
<1>1. Running \in SUBSET Refreshers
  BY DEF Running
<1> QED
  BY <1>1, FS_Subset, FS_CardinalityType, CacheAssumption

\* Nothing but a launch and a release changes who runs or what is taken.
LEMMA SameRunning ==
    ASSUME SlotsOK, Running' = Running, slots' = slots, Throttled' = Throttled
    PROVE  SlotsOK'
BY DEF SlotsOK, HasSemaphore

LEMMA SlotsInit == Init => SlotsOK
<1> SUFFICES ASSUME Init PROVE SlotsOK
  OBVIOUS
<1>1. Running = {}
  BY DEF Running, Init, Procs, Idle
<1> QED
  BY <1>1, FS_EmptySet, CacheAssumption DEF Init, SlotsOK, HasSemaphore, Unlimited

\* A launch takes its slot before the goroutine starts; a refusal of the rate
\* limiter takes one for nothing.
LEMMA SlotsLaunch ==
    ASSUME CacheInv, SlotsOK, NEW c \in Callers, LaunchRefresh(c)
    PROVE  SlotsOK'
<1>1. c \notin Refreshers /\ Running' \in SUBSET Refreshers
  BY CacheAssumption DEF Running
<1>2. proc \in [Procs -> Proc] /\ Idle.pc = "idle" /\ Start # "idle"
      /\ tokens \in 0..Burst \cup {Unlimited} /\ Burst \in Nat /\ MaxConcurrent \in Nat
  BY CacheAssumption DEF CacheInv, TypeOK, Idle, Start
<1>3. CASE proc' = [proc EXCEPT ![c] = Idle]
  <2>1. Running' = Running
    BY <1>1, <1>2, <1>3 DEF Running, Procs
  <2>2. ASSUME NEW taken \in {0, 1}, Drop(c, taken),
               taken = 1 => HasSemaphore /\ SlotFree, taken = 0 => ~HasSemaphore
        PROVE  SlotsOK'
    <3>1. Throttled /\ Throttled' /\ slots' = slots + taken
      BY <2>2 DEF Drop, Allow, Throttled
    <3>2. CASE taken = 0
      BY <2>2, <3>1, <3>2 DEF SlotsOK, HasSemaphore, Unlimited
    <3>3. CASE taken = 1
      <4>1. slots \in 0..MaxConcurrent /\ slots < MaxConcurrent /\ Cardinality(Running) <= slots
        BY <2>2, <3>3 DEF SlotsOK, SlotFree
      <4>2. slots' \in 0..MaxConcurrent /\ Cardinality(Running) <= slots'
        BY <1>2, <3>1, <3>3, <4>1, RunningFinite
      <4> QED
        BY <2>1, <3>1, <4>2 DEF SlotsOK
    <3> QED
      BY <3>2, <3>3
  <2>3. CASE UNCHANGED <<slots, tokens>>
    BY <2>1, <2>3, SameRunning DEF Throttled
  <2>4. ASSUME NEW taken, NEW r \in Refreshers, Launch(c, r, taken) PROVE FALSE
    <3>1. r \in Procs /\ r # c /\ proc'[r] = proc[r] /\ proc[r].pc = "idle"
      BY <1>1, <1>2, <1>3, <2>4 DEF Launch, Procs
    <3>2. proc'[r].pc = Start
      BY <1>2, <2>4, <3>1 DEF Launch, Procs
    <3> QED
      BY <1>2, <3>1, <3>2
  <2> QED
    BY <2>2, <2>3, <2>4 DEF LaunchRefresh, launchRefreshWithThrottling
<1>4. ASSUME NEW taken \in {0, 1}, NEW r \in Refreshers, Launch(c, r, taken),
             taken = 1 => HasSemaphore /\ SlotFree, taken = 0 => ~HasSemaphore
      PROVE  SlotsOK'
  <2>1. r # c /\ r \in Procs /\ proc[r].pc = "idle" /\ slots' = slots + taken
    BY <1>1, <1>4 DEF Launch, Procs
  <2>2. Running' = Running \cup {r} /\ r \notin Running
    BY <1>1, <1>2, <1>4, <2>1 DEF Launch, Running, Procs
  <2>3. Cardinality(Running') = Cardinality(Running) + 1
    BY <2>2, RunningFinite, FS_AddElement
  <2>4. Throttled' = Throttled
    BY <1>2, <1>4 DEF Launch, Allow, Throttled, Unlimited
  <2>5. CASE taken = 0
    BY <1>4, <2>1, <2>5 DEF SlotsOK, HasSemaphore, Unlimited
  <2>6. CASE taken = 1
    <3>1. /\ slots \in 0..MaxConcurrent /\ slots < MaxConcurrent /\ Cardinality(Running) <= slots
          /\ ~Throttled => Cardinality(Running) = slots
      BY <1>4, <2>6 DEF SlotsOK, SlotFree
    <3>2. slots' \in 0..MaxConcurrent /\ Cardinality(Running') <= slots'
      BY <1>2, <2>1, <2>3, <2>6, <3>1, RunningFinite
    <3>3. ~Throttled' => Cardinality(Running') = slots'
      BY <2>1, <2>3, <2>4, <2>6, <3>1
    <3> QED
      BY <3>2, <3>3 DEF SlotsOK
  <2> QED
    BY <2>5, <2>6
<1> QED
  BY <1>3, <1>4 DEF LaunchRefresh, launchRefreshWithThrottling, Drop

\* Every goroutine that ends was running, so that there is a slot to give back.
LEMMA SlotsRelease ==
    ASSUME CacheInv, SlotsOK, NEW r \in Refreshers, Release(r)
    PROVE  SlotsOK'
<1>1. proc \in [Procs -> Proc] /\ r \in Procs /\ Idle.pc = "idle" /\ MaxConcurrent \in Nat
  BY CacheAssumption DEF CacheInv, TypeOK, Procs, Idle
<1>2. Running' = Running \ {r} /\ r \in Running
  BY <1>1 DEF Release, Running, Procs
<1>3. Cardinality(Running') = Cardinality(Running) - 1 /\ Cardinality(Running) \in Nat
      /\ Cardinality(Running') \in Nat
  BY <1>2, RunningFinite, FS_RemoveElement, FS_CardinalityType
<1>4. Throttled' = Throttled
  BY DEF Release, Throttled
<1>5. CASE HasSemaphore
  BY <1>1, <1>3, <1>4, <1>5 DEF SlotsOK, Release, SlotsReleased
<1>6. CASE ~HasSemaphore
  BY <1>6 DEF SlotsOK, Release, SlotsReleased, HasSemaphore
<1> QED
  BY <1>5, <1>6

LEMMA SlotsNext == CacheInv /\ SlotsOK /\ [Next]_vars => SlotsOK'
<1> SUFFICES ASSUME CacheInv, SlotsOK, [Next]_vars PROVE SlotsOK'
  OBVIOUS
<1>1. proc \in [Procs -> Proc] /\ Refreshers \subseteq Procs /\ Callers \cap Refreshers = {}
      /\ Callers \subseteq Procs /\ Idle.pc = "idle"
  BY CacheAssumption DEF CacheInv, TypeOK, Procs, Idle
<1>2. ASSUME NEW c \in Callers, (\E k \in Keys : Get(c, k)) \/ Invalidate(c) \/ Return(c)
      PROVE  SlotsOK'
  <2>1. Running' = Running
    BY <1>1, <1>2 DEF Running, Get, Invalidate, Return
  <2> QED
    BY <1>2, <2>1, SameRunning DEF Get, Invalidate, Return, Throttled
<1>3. ASSUME NEW p \in Procs, Do(p) \/ Query(p) \/ Set(p)
      PROVE  SlotsOK'
  <2>1. proc[p] \in Proc /\ proc[p].pc # "idle"
    BY <1>1, <1>3 DEF Do, Query, Set
  <2>2. proc' \in [Procs -> Proc] /\ proc'[p].pc # "idle"
        /\ \A q \in Procs : q # p => proc'[q] = proc[q]
    BY <1>1, <1>3, <2>1, DoStep, QueryStep, SetStep DEF Do, Query, Set, CacheInv, TypeOK, Proc
  <2>3. Running' = Running
    BY <1>1, <2>1, <2>2 DEF Running
  <2> QED
    BY <1>3, <2>3, SameRunning DEF Do, Query, Set, Throttled
<1>4. ASSUME NEW p \in Procs, EndFlight(p) \/ FailFlight(p)
      PROVE  SlotsOK'
  <2>1. ASSUME NEW q \in Refreshers PROVE proc'[q].pc # "idle" <=> proc[q].pc # "idle"
    <3>1. q \in Procs /\ q \notin Callers /\ proc[q] \in Proc
      BY <1>1, <2>1
    <3>2. CASE q \notin Aboard(p)
      BY <1>4, <3>1, <3>2 DEF EndFlight, FailFlight
    <3>3. CASE q \in Aboard(p)
      <4>1. proc[q].pc # "idle"
        BY <1>4, <3>3 DEF Aboard, EndFlight, FailFlight
      <4>2. CASE EndFlight(p)
        <5>1. proc'[q] = [proc[q] EXCEPT !.pc = "release", !.val = proc[p].val]
          BY <3>1, <3>3, <4>2 DEF EndFlight
        <5> QED
          BY <3>1, <4>1, <5>1 DEF Proc
      <4>3. CASE FailFlight(p)
        <5>1. proc'[q] = [proc[q] EXCEPT !.pc = "release"]
          BY <3>1, <3>3, <4>3 DEF FailFlight
        <5> QED
          BY <3>1, <4>1, <5>1 DEF Proc
      <4> QED
        BY <1>4, <4>2, <4>3
    <3> QED
      BY <3>2, <3>3
  <2>2. Running' = Running
    BY <2>1 DEF Running
  <2> QED
    BY <1>4, <2>2, SameRunning DEF EndFlight, FailFlight, Throttled
<1>5. CASE \E k \in Keys : Write(k) \/ Remove(k)
  BY <1>5, SameRunning DEF Write, Remove, Running, Throttled
<1>6. CASE Interval
  <2>1. Throttled' = Throttled
    BY <1>6 DEF Interval, Throttled, Unlimited, CacheInv, TypeOK
  <2> QED
    BY <1>6, <2>1, SameRunning DEF Interval, Running
<1>7. CASE UNCHANGED vars
  BY <1>7, SameRunning DEF vars, Running, Throttled
<1> QED
  BY <1>2, <1>3, <1>4, <1>5, <1>6, <1>7, SlotsLaunch, SlotsRelease
     DEF Next, CallCached, CallFn

\* The semaphore's invariant: every running refresh holds one of its slots, and
\* without a rate limiter nobody else does.
THEOREM SlotsInvariance == Spec => []SlotsOK
<1> QED
  BY Invariance, SlotsInit, SlotsNext, PTL DEF Spec

\* The cache's tables, limiters and processes keep their types.
THEOREM TypeCorrect == Spec => []TypeOK
<1>1. CacheInv => TypeOK
  BY DEF CacheInv
<1> QED
  BY <1>1, Invariance, PTL

\* LaunchRefresh never lets more than MaxConcurrent refreshes run, whatever hits,
\* refusals of the rate limiter, failures and shared flights interleave.
THEOREM RefreshesBounded == Spec => []RefreshBounded
<1>1. SlotsOK => RefreshBounded
  BY RunningFinite, CacheAssumption DEF SlotsOK, RefreshBounded
<1> QED
  BY <1>1, SlotsInvariance, PTL

\* LaunchRefresh discards a refresh for want of a slot only while MaxConcurrent
\* refreshes are running, as long as no rate limiter is configured.
THEOREM NoneDiscardedBelowLimit == Spec => []DiscardedOnlyAtLimit
<1>1. SlotsOK => DiscardedOnlyAtLimit
  BY RunningFinite, CacheAssumption DEF SlotsOK, DiscardedOnlyAtLimit, SlotFree
<1> QED
  BY <1>1, SlotsInvariance, PTL
=============================================================================
