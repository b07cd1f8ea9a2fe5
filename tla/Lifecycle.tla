------------------------------ MODULE Lifecycle ------------------------------
(***************************************************************************)
(* A server process from its launch to its end: internal/server/server.go, *)
(* internal/app/heureka.go and pkg/util/server.go, on top of Views.        *)
(*                                                                         *)
(* A request that changes something writes a row, pushes an event and is   *)
(* answered.  A signal cancels the context; from then on the registry's    *)
(* workers end and its channel is closed, while the HTTP server still      *)
(* takes requests until BlockingStop shuts it down.  BlockingStop then     *)
(* waits for the requests, closes the database, and waits for the          *)
(* goroutines in the server's wait group, which are the cache's and not    *)
(* the registry's workers, all within one deadline of two seconds.         *)
(***************************************************************************)
EXTENDS Views

CONSTANTS
    Requests,   \* mutations sent by clients
    NoRequest   \* no request: of an idle worker

ASSUME RequestsAssumption == NoRequest \notin Requests /\ Nobody \notin Servers

VARIABLES
    req,        \* req[r]: the progress of request r
    at,         \* at[r]: the server that accepted it
    queue,      \* queue[s]: the events in the registry's channel
    closed,     \* the servers whose channel was closed
    work,       \* work[s]: the event its worker handles, NoRequest or "ended"
    handled,    \* the requests whose event was handled to its end
    cache       \* cache[s]: its cache's goroutines "run" or have "ended"

serveVars == <<req, at, queue, closed, work, handled, cache>>
vars == <<viewVars, serveVars>>

-----------------------------------------------------------------------------
Init ==
    /\ ViewsInit
    /\ req = [r \in Requests |-> "unsent"]
    /\ at = [r \in Requests |-> Nobody]
    /\ queue = [s \in Servers |-> {}]
    /\ closed = {}
    /\ work = [s \in Servers |-> NoRequest]
    /\ handled = {}
    /\ cache = [s \in Servers |-> "run"]

Cancelled(s) == phase[s] \in {"cancelled", "draining", "closing", "joining"}

DatabaseOpen(s) == phase[s] \in {"booting", "serving", "cancelled", "draining", "closing"}

InFlight(s) == {r \in Requests : at[r] = s /\ req[r] \in {"accepted", "written", "pushed"}}

-----------------------------------------------------------------------------
(* Start.                                                                  *)

\* NewSqlDatabase, NewHeurekaApp with its subscriptions, NonBlockingStart.
StartServing(s) ==
    /\ phase[s] = "booting"
    /\ Enter(s, "serving")
    /\ UNCHANGED <<followed, data, tableVars, startVars, exit, crashes, serveVars>>

-----------------------------------------------------------------------------
(* Requests.                                                               *)

Progress(r, step) == req' = [req EXCEPT ![r] = step]

Accept(r, s) ==
    /\ req[r] = "unsent" /\ followed = NoView
    /\ phase[s] \in {"serving", "cancelled"}
    /\ Progress(r, "accepted")
    /\ at' = [at EXCEPT ![r] = s]
    /\ UNCHANGED <<viewVars, queue, closed, work, handled, cache>>

\* The handler's insert; with the database closed the request is refused.
Write(r) ==
    /\ req[r] = "accepted"
    /\ \/ /\ DatabaseOpen(at[r])
          /\ Progress(r, "written")
       \/ /\ phase[at[r]] = "joining"
          /\ Progress(r, "refused")
    /\ UNCHANGED <<viewVars, at, queue, closed, work, handled, cache>>

\* PushEvent; a send on the closed channel panics, and gin.Recovery turns the
\* panic into an answer with status 500.
Push(r) ==
    /\ req[r] = "written" /\ phase[at[r]] # "gone"
    /\ IF at[r] \in closed
         THEN Progress(r, "failed") /\ UNCHANGED queue
         ELSE /\ Progress(r, "pushed")
              /\ queue' = [queue EXCEPT ![at[r]] = @ \cup {r}]
    /\ UNCHANGED <<viewVars, at, closed, work, handled, cache>>

Answer(r) ==
    /\ req[r] = "pushed" /\ phase[at[r]] # "gone"
    /\ Progress(r, "answered")
    /\ UNCHANGED <<viewVars, at, queue, closed, work, handled, cache>>

-----------------------------------------------------------------------------
(* The registry's goroutines.                                              *)

\* A worker's select takes an event even when the context is cancelled too.
Take(s) ==
    /\ phase[s] # "gone" /\ work[s] = NoRequest
    /\ \E r \in queue[s] :
        /\ work' = [work EXCEPT ![s] = r]
        /\ queue' = [queue EXCEPT ![s] = @ \ {r}]
    /\ UNCHANGED <<viewVars, req, at, closed, handled, cache>>

\* Handlers only log the errors of a database that is closed.
Handle(s) ==
    /\ phase[s] # "gone" /\ work[s] \in Requests
    /\ handled' = IF DatabaseOpen(s) THEN handled \cup {work[s]} ELSE handled
    /\ work' = [work EXCEPT ![s] = NoRequest]
    /\ UNCHANGED <<viewVars, req, at, queue, closed, cache>>

WorkerEnds(s) ==
    /\ Cancelled(s) /\ work[s] = NoRequest
    /\ work' = [work EXCEPT ![s] = "ended"]
    /\ UNCHANGED <<viewVars, req, at, queue, closed, handled, cache>>

CloseChannel(s) ==
    /\ Cancelled(s) /\ s \notin closed
    /\ closed' = closed \cup {s}
    /\ UNCHANGED <<viewVars, req, at, queue, work, handled, cache>>

CacheEnds(s) ==
    /\ Cancelled(s) /\ cache[s] = "run"
    /\ cache' = [cache EXCEPT ![s] = "ended"]
    /\ UNCHANGED <<viewVars, req, at, queue, closed, work, handled>>

-----------------------------------------------------------------------------
(* Stop.                                                                   *)

serverVars == <<followed, data, tableVars, startVars, crashes>>

\* What the process kept in memory goes with it.
Forgotten(s) ==
    /\ queue' = [queue EXCEPT ![s] = {}]
    /\ work' = [work EXCEPT ![s] = "ended"]
    /\ cache' = [cache EXCEPT ![s] = "ended"]
    /\ closed' = closed \cup {s}
    /\ UNCHANGED <<req, at, handled>>

Killed(s) == Crash(s) /\ Forgotten(s)

\* SIGTERM or SIGINT: the signal goroutine cancels the context.
Signal(s) ==
    /\ followed = NoView /\ phase[s] = "serving"
    /\ Enter(s, "cancelled")
    /\ UNCHANGED <<exit, serverVars, serveVars>>

\* Start wakes and calls BlockingStop: http.Server.Shutdown closes the listener.
BlockingStop(s) ==
    /\ phase[s] = "cancelled"
    /\ Enter(s, "draining")
    /\ UNCHANGED <<exit, serverVars, serveVars>>

\* Mutant: http.Server.Close instead of Shutdown.
DrainedAtOnce(s) ==
    /\ phase[s] = "draining"
    /\ Enter(s, "closing")
    /\ UNCHANGED <<exit, serverVars, serveVars>>

\* Shutdown returns when every connection is idle.
Drained(s) ==
    /\ phase[s] = "draining" /\ InFlight(s) = {}
    /\ Enter(s, "closing")
    /\ UNCHANGED <<exit, serverVars, serveVars>>

\* HeurekaApp.Shutdown.
CloseConnection(s) ==
    /\ phase[s] = "closing"
    /\ Enter(s, "joining")
    /\ UNCHANGED <<exit, serverVars, serveVars>>

Joined(s) ==
    /\ phase[s] = "joining" /\ cache[s] = "ended"
    /\ Ends(s, "clean") /\ Forgotten(s)
    /\ UNCHANGED serverVars

\* Mutant: Shutdown gets a context without a deadline.
ExpireLate(s) ==
    /\ phase[s] = "joining"
    /\ Ends(s, "fatal") /\ Forgotten(s)
    /\ UNCHANGED serverVars

\* The two seconds are over: Shutdown returns the error, or the select does.
Expire(s) ==
    /\ phase[s] \in {"draining", "joining"}
    /\ Ends(s, "fatal") /\ Forgotten(s)
    /\ UNCHANGED serverVars

-----------------------------------------------------------------------------
ServerStep(s) ==
    \/ StartServing(s) \/ BlockingStop(s) \/ Drained(s) \/ CloseConnection(s)
    \/ Joined(s) \/ Expire(s)

DatabaseStep ==
    \/ \E c \in Callers : Statement(c)
    \/ Fire
    \/ Change

Next ==
    \/ \E s \in Servers :
        \/ UNCHANGED serveVars /\ (RunMigrations(s) \/ Broken(s))
        \/ Killed(s) \/ Signal(s) \/ ServerStep(s) \/ Take(s) \/ Handle(s) \/ WorkerEnds(s)
        \/ CloseChannel(s) \/ CacheEnds(s)
    \/ UNCHANGED serveVars /\ DatabaseStep
    \/ \E r \in Requests : Write(r) \/ Push(r) \/ Answer(r) \/ \E s \in Servers : Accept(r, s)

Spec == Init /\ [][Next]_vars

\* Every process runs, the timer fires, and the database executes the calls and
\* fires the events.  Nothing is assumed of requests, of the goroutines beside
\* the main one, or of signals and kills.
FairSpec ==
    /\ Spec
    /\ \A s \in Servers : WF_vars((UNCHANGED serveVars /\ RunMigrations(s)) \/ ServerStep(s))
    /\ \A c \in Callers : WF_vars(UNCHANGED serveVars /\ Statement(c))
    /\ WF_vars(UNCHANGED serveVars /\ Fire)

-----------------------------------------------------------------------------
\* As long as a server serves, a change, its event and its answer go together:
\* the client of a saved change is not told of a failure, and its event waits,
\* is handled or has been.  A server that is being stopped may break that, but
\* one that ends cleanly has answered every request it accepted, and none of
\* them met the closed database: BlockingStop drains before it closes.
PromisesKept ==
    /\ \A r \in Requests :
        at[r] # Nobody /\ phase[at[r]] = "serving" =>
            /\ req[r] # "failed"
            /\ req[r] \in {"pushed", "answered"} =>
                 r \in handled \/ r \in queue[at[r]] \/ work[at[r]] = r
    /\ \A s \in Servers : exit[s] = "clean" => InFlight(s) = {}
    /\ \A r \in Requests : req[r] # "refused"

\* A server that was told to stop ends, whatever its requests and goroutines do.
StopEnds == \A s \in Servers : phase[s] = "cancelled" ~> phase[s] = "gone"

\* Servers that start together do not all end of each other's events: one of
\* them serves, unless one was killed.
OneServes == <>(crashes > 0 \/ \E s \in Servers : phase[s] = "serving")

\* When the servers have come and gone and none was killed, the followed view
\* shows the data again and again: the events are left in place, the scheduler
\* is on, and a damaged table is repaired by the next call.  A row that
\* vanished stays for ever in the views whose inactive rows are not deleted.
EventuallyCounted ==
    []<>(\/ crashes > 0 \/ followed = NoView
         \/ view = IF followed \in Flagged /\ data \in Gone THEN << >> ELSE <<data>>
         \/ followed \in NeverPruned /\ data \in Gone)
-----------------------------------------------------------------------------
(* The inductive invariant behind PromisesKept.                            *)

ServeType ==
    /\ phase \in [Servers -> {"new", "migrating", "procedures", "events", "booting", "serving",
                             "cancelled", "draining", "closing", "joining", "gone"}]
    /\ exit \in [Servers -> {"none", "fatal", "crash", "clean"}]
    /\ req \in [Requests -> {"unsent", "accepted", "written", "pushed", "answered", "failed"}]
    /\ at \in [Requests -> Servers \cup {Nobody}]
    /\ queue \in [Servers -> SUBSET Requests]
    /\ work \in [Servers -> Requests \cup {NoRequest, "ended"}]
    /\ closed \subseteq Servers

\* The phases before a server serves.
Early == {"new", "migrating", "procedures", "events", "booting"}

\* A server meets no request before it serves, only one that was told to stop has closed its
\* channel, only one that is gone has ended, and one that has drained has no requests left.
ServerOK(s) ==
    /\ phase[s] \in Early => \A r \in Requests : at[r] # s
    /\ s \in closed => Cancelled(s) \/ phase[s] = "gone"
    /\ exit[s] # "none" => phase[s] = "gone"
    /\ phase[s] \in {"closing", "joining"} \/ exit[s] = "clean" => InFlight(s) = {}

LifecycleInv ==
    /\ ServeType
    /\ \A r \in Requests : req[r] = "unsent" <=> at[r] = Nobody
    /\ \A s \in Servers : ServerOK(s)
    /\ PromisesKept
=============================================================================
