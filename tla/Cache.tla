-------------------------------- MODULE Cache --------------------------------
(***************************************************************************)
(* The cache in front of the database (internal/cache).                    *)
(*                                                                         *)
(* CallCached answers a hit from the cache and launches a refresh in the   *)
(* background, limited by a semaphore and by a rate limiter; a miss runs   *)
(* the query.  Misses and refreshes of one key go through one singleflight *)
(* group: the first runs the query and stores the result, those that come  *)
(* while it runs wait and share its result.                                *)
(*                                                                         *)
(* The database holds a version number per key, so that a newer answer is  *)
(* a larger number.                                                        *)
(***************************************************************************)
EXTENDS Integers, FiniteSets

CONSTANTS
    Keys,
    Callers,       \* goroutines that serve requests
    Refreshers,    \* bound: goroutines of background refreshes
    MaxConcurrent, \* MaxDbConcurrentRefreshes where it is not -1 (unlimited); 0: disabled
    Burst,         \* ThrottlePerInterval
    MaxWrites,     \* bound: writes per key
    QueryFails,    \* may the query fail?
    NoKey

ASSUME CacheAssumption ==
    /\ MaxConcurrent \in Nat
    /\ IsFiniteSet(Refreshers) /\ MaxConcurrent <= Cardinality(Refreshers)
    /\ Callers \cap Refreshers = {}
    /\ QueryFails \in BOOLEAN
    /\ Burst \in Nat /\ MaxWrites \in Nat
    /\ NoKey \notin Keys

VARIABLES
    db,       \* db[k]: the version in the database
    entry,    \* entry[k]: the cached version, None or Poison
    flying,   \* keys with a call in flight in the singleflight group
    proc,     \* proc[p]: place, key, value in hand, floor
    slots,    \* slots taken in concurrentRefreshSemaphore, or Unlimited
    tokens,   \* tokens of refreshLimiter, or Unlimited
    stored,   \* history: the version a flight stored last
    served    \* history: the newest version a finished call returned

vars == <<db, entry, flying, proc, slots, tokens, stored, served>>

None == -1       \* no entry
Poison == -2     \* an entry that decode rejects (stored by another release)

Unlimited == -2  \* no semaphore, or no rate limiter, is configured

Procs == Callers \cup Refreshers

Idle == [pc |-> "idle", key |-> NoKey, val |-> None, floor |-> 0]

Init ==
    /\ db = [k \in Keys |-> 0]
    /\ entry \in [Keys -> {None, Poison}]
    /\ flying = {}
    /\ proc = [p \in Procs |-> Idle]
    /\ slots \in {0, Unlimited}
    /\ tokens \in {Burst, Unlimited}
    /\ stored = [k \in Keys |-> 0]
    /\ served = [k \in Keys |-> 0]

-----------------------------------------------------------------------------
(* CallCached.                                                             *)

\* Get, and decode of what it returned.
Get(c, k) ==
    /\ proc[c].pc = "idle"
    /\ proc' = [proc EXCEPT ![c] =
          [pc |-> CASE entry[k] = None -> "miss"
                    [] entry[k] = Poison -> "poison"
                    [] OTHER -> "hit",
           key |-> k, val |-> entry[k], floor |-> served[k]]]
    /\ UNCHANGED <<db, entry, flying, slots, tokens, stored, served>>

\* The poison-pill protection.
Invalidate(c) ==
    /\ proc[c].pc = "poison"
    /\ entry' = [entry EXCEPT ![proc[c].key] = None]
    /\ proc' = [proc EXCEPT ![c].pc = "miss"]
    /\ UNCHANGED <<db, flying, slots, tokens, stored, served>>

Later(x, y) == IF x < y THEN y ELSE x

\* A call returns the value it has in hand.
Answer(c) ==
    served' = [served EXCEPT ![proc[c].key] = Later(@, proc[c].val)]

-----------------------------------------------------------------------------
(* LaunchRefresh.                                                          *)

HasSemaphore == slots # Unlimited

Throttled == tokens # Unlimited

\* Mutant: the semaphore is not asked.
SlotFreeAlways == TRUE

SlotFree == slots < MaxConcurrent

\* cb.refreshLimiter.Allow()
Allow == ~Throttled \/ tokens > 0

\* Mutant: refreshes do not go through the singleflight group.
StartDirect == "lead"

\* Mutant: the refresh runs in the context of the request, which is over.
StartOver == "release"

\* A goroutine is started for the refresh of k.
Start == "miss"

Launch(c, r, taken) ==
    /\ Allow
    /\ proc[r].pc = "idle"
    /\ tokens' = IF Throttled THEN tokens - 1 ELSE tokens
    /\ slots' = slots + taken
    /\ proc' = [proc EXCEPT ![c] = Idle,
                  ![r] = [pc |-> Start, key |-> proc[c].key, val |-> None, floor |-> 0]]

\* The rate limiter refuses: the refresh is dropped.
Drop(c, taken) ==
    /\ ~Allow
    /\ slots' = slots + taken
    /\ proc' = [proc EXCEPT ![c] = Idle]
    /\ UNCHANGED tokens

launchRefreshWithThrottling(c, taken) ==
    (\E r \in Refreshers : Launch(c, r, taken)) \/ Drop(c, taken)

\* On a hit: launch a refresh, then return the value.
LaunchRefresh(c) ==
    /\ proc[c].pc = "hit"
    /\ Answer(c)
    /\ \/ ~HasSemaphore /\ launchRefreshWithThrottling(c, 0)
       \/ HasSemaphore /\ SlotFree /\ launchRefreshWithThrottling(c, 1)
       \/ /\ HasSemaphore /\ ~SlotFree
          /\ proc' = [proc EXCEPT ![c] = Idle]
          /\ UNCHANGED <<slots, tokens>>
    /\ UNCHANGED <<db, entry, flying, stored>>

\* Mutant: the slot is not given back.
SlotsKept == slots

SlotsReleased == IF HasSemaphore THEN slots - 1 ELSE slots

\* The refresh has finished: its goroutine gives the slot back and ends.
Release(r) ==
    /\ proc[r].pc = "release"
    /\ slots' = SlotsReleased
    /\ proc' = [proc EXCEPT ![r] = Idle]
    /\ UNCHANGED <<db, entry, flying, tokens, stored, served>>

-----------------------------------------------------------------------------
(* callFn, through singleflight.                                           *)

Do(p) ==
    /\ proc[p].pc = "miss"
    /\ IF proc[p].key \in flying
       THEN /\ proc' = [proc EXCEPT ![p].pc = "wait"]
            /\ UNCHANGED flying
       ELSE /\ proc' = [proc EXCEPT ![p].pc = "lead"]
            /\ flying' = flying \cup {proc[p].key}
    /\ UNCHANGED <<db, entry, slots, tokens, stored, served>>

\* v.Call(in): the query.
Query(p) ==
    /\ proc[p].pc = "lead"
    /\ proc' = [proc EXCEPT ![p].pc = "set", ![p].val = db[proc[p].key]]
    /\ UNCHANGED <<db, entry, flying, slots, tokens, stored, served>>

Set(p) ==
    /\ proc[p].pc = "set"
    /\ entry' = [entry EXCEPT ![proc[p].key] = proc[p].val]
    /\ stored' = [stored EXCEPT ![proc[p].key] = proc[p].val]
    /\ proc' = [proc EXCEPT ![p].pc = "end"]
    /\ UNCHANGED <<db, flying, slots, tokens, served>>

\* Those who take part in the flight that p leads.
Aboard(p) == {p} \cup {q \in Procs : proc[q].pc = "wait" /\ proc[q].key = proc[p].key}

\* The flight ends: callers have the result, refreshers are done with it.
EndFlight(p) ==
    /\ proc[p].pc = "end"
    /\ flying' = flying \ {proc[p].key}
    /\ proc' = [q \in Procs |->
          IF q \notin Aboard(p) THEN proc[q]
          ELSE [proc[q] EXCEPT !.pc = IF q \in Callers THEN "done" ELSE "release",
                               !.val = proc[p].val]]
    /\ UNCHANGED <<db, entry, slots, tokens, stored, served>>

\* The query fails: callers return the error, nothing is stored.
FailFlight(p) ==
    /\ QueryFails
    /\ proc[p].pc = "lead"
    /\ flying' = flying \ {proc[p].key}
    /\ proc' = [q \in Procs |->
          IF q \notin Aboard(p) THEN proc[q]
          ELSE IF q \in Callers THEN Idle ELSE [proc[q] EXCEPT !.pc = "release"]]
    /\ UNCHANGED <<db, entry, slots, tokens, stored, served>>

Return(c) ==
    /\ proc[c].pc = "done"
    /\ Answer(c)
    /\ proc' = [proc EXCEPT ![c] = Idle]
    /\ UNCHANGED <<db, entry, flying, slots, tokens, stored>>

-----------------------------------------------------------------------------
(* The environment.                                                        *)

Write(k) ==
    /\ db[k] < MaxWrites
    /\ db' = [db EXCEPT ![k] = @ + 1]
    /\ UNCHANGED <<entry, flying, proc, slots, tokens, stored, served>>

\* The time to live is over, or a handler calls InvalidateByMatch.
Remove(k) ==
    /\ entry[k] # None
    /\ entry' = [entry EXCEPT ![k] = None]
    /\ UNCHANGED <<db, flying, proc, slots, tokens, stored, served>>

\* An interval of the rate limiter has passed.
Interval ==
    /\ Throttled
    /\ tokens < Burst
    /\ tokens' = tokens + 1
    /\ UNCHANGED <<db, entry, flying, proc, slots, stored, served>>

CallFn(p) == Do(p) \/ Query(p) \/ Set(p) \/ EndFlight(p) \/ FailFlight(p)

CallCached(c) ==
    \/ \E k \in Keys : Get(c, k)
    \/ Invalidate(c) \/ LaunchRefresh(c) \/ Return(c)

Next ==
    \/ \E c \in Callers : CallCached(c)
    \/ \E p \in Procs : CallFn(p)
    \/ \E r \in Refreshers : Release(r)
    \/ \E k \in Keys : Write(k) \/ Remove(k)
    \/ Interval

\* Goroutines keep running, requests keep coming.  That a query succeeds, that
\* entries expire or that anybody writes is not assumed.
Fairness ==
    /\ \A c \in Callers : WF_vars(CallCached(c))
    /\ \A p \in Procs : WF_vars(Do(p) \/ Query(p) \/ Set(p) \/ EndFlight(p))
    /\ \A r \in Refreshers : WF_vars(Release(r))
    /\ WF_vars(Interval)

Spec == Init /\ [][Next]_vars

FairSpec == Spec /\ Fairness

-----------------------------------------------------------------------------
Places == {"idle", "hit", "miss", "poison", "lead", "wait", "set", "end",
           "done", "release"}

Proc == [pc : Places, key : Keys \cup {NoKey},
         val : Nat \cup {None, Poison}, floor : Nat]

\* Types; a process that is at work has a key.
TypeOK ==
    /\ db \in [Keys -> Nat] /\ stored \in [Keys -> Nat] /\ served \in [Keys -> Nat]
    /\ entry \in [Keys -> Nat \cup {None, Poison}]
    /\ flying \subseteq Keys
    /\ slots \in Int /\ tokens \in 0..Burst \cup {Unlimited}
    /\ proc \in [Procs -> Proc]
    /\ \A p \in Procs : proc[p].pc # "idle" => proc[p].key \in Keys

Running == {r \in Refreshers : proc[r].pc # "idle"}

\* "Allows up to 5 background refresh jobs at the same time": never more than
\* MaxConcurrent refreshes run, however hits, drops and failures interleave.
RefreshBounded == HasSemaphore => Cardinality(Running) <= MaxConcurrent

\* Only refreshes above the limit are discarded: when the semaphore is full,
\* as many refreshes are really running.  (With a rate limiter as well, slots
\* are lost whenever it refuses.)
DiscardedOnlyAtLimit ==
    HasSemaphore /\ ~Throttled /\ ~SlotFree => Cardinality(Running) = MaxConcurrent

\* Reads of a key are monotonic: a call never answers with a version older
\* than one that was answered before it began, be it a hit, a miss or a
\* shared flight that began before the newest write.
MonotonicReads ==
    \A c \in Callers : proc[c].pc \in {"hit", "done"} => proc[c].val >= proc[c].floor

\* "In the background, a fresh value is fetched": while requests come and the
\* query does not fail for ever, a stale entry is refreshed or removed at last,
\* unless a rate limiter is configured.
EventuallyFresh ==
    <>[][\A p \in Procs : ~FailFlight(p)]_vars =>
    \A k \in Keys : (entry[k] # None) ~> (entry[k] \in {None, db[k]} \/ Throttled)
-----------------------------------------------------------------------------
(* The inductive invariant behind MonotonicReads.                          *)

Leads(p) == proc[p].pc \in {"lead", "set", "end"}

\* What is cached was stored last; what was served is not newer.
EntryOK ==
    \A k \in Keys : /\ entry[k] \in {None, Poison, stored[k]}
                    /\ served[k] <= stored[k] /\ stored[k] <= db[k]

\* One leader per key, and nobody stores anything while it is under way.
FlightOK ==
    \A p \in Procs : Leads(p) =>
        /\ proc[p].key \in flying
        /\ \A q \in Procs : Leads(q) /\ proc[q].key = proc[p].key => q = p

\* The value in hand is between what was served before and what is known.
HandOK(p) ==
    LET k == proc[p].key
    IN  /\ proc[p].pc # "idle" => proc[p].floor <= stored[k]
        /\ proc[p].pc = "set" => proc[p].val \in stored[k]..db[k]
        /\ proc[p].pc = "end" => proc[p].val = stored[k]
        /\ proc[p].pc \in {"hit", "done"} => proc[p].val \in proc[p].floor..stored[k]

CacheInv == TypeOK /\ EntryOK /\ FlightOK /\ \A p \in Procs : HandOK(p)

\* Behind RefreshBounded and DiscardedOnlyAtLimit: every running refresh holds a
\* slot, and without a rate limiter only running refreshes do.
SlotsOK ==
    HasSemaphore =>
        /\ slots \in 0 .. MaxConcurrent
        /\ Cardinality(Running) <= slots
        /\ ~Throttled => Cardinality(Running) = slots
=============================================================================
