---------------------------- MODULE EventRegistry ----------------------------
(***************************************************************************)
(* The asynchronous event registry, internal/app/event/event_registry.go.  *)
(*                                                                         *)
(* Every request goroutine that changes the database ends with PushEvent;  *)
(* a pool of workers receives the events from the channel er.ch and runs   *)
(* the handlers registered for the event's name.  When the channel is full *)
(* PushEvent replaces it by one of twice the capacity and starts a         *)
(* goroutine that forwards what is left in the old channel to whatever     *)
(* er.ch is when it sends.  On cancellation of the context a further       *)
(* goroutine closes er.ch and waits for the workers.                       *)
(*                                                                         *)
(* er.ch is read without the mutex by PushEvent's fast path, by the        *)
(* workers' select and by the forwarders.  The value of the channel        *)
(* operand is therefore a step of its own, before the send or receive      *)
(* that uses it.  Channels are numbered by generation: channel g + 1       *)
(* replaced channel g.                                                     *)
(***************************************************************************)
EXTENDS Integers, Sequences, FiniteSets

CONSTANTS
    Events,         \* the events pushed, each by its own request goroutine
    Workers,        \* the worker goroutines started by Run
    NameOf,         \* NameOf[e]: the name of event e
    Subscriptions,  \* the calls of RegisterEventHandler, in order
    InitCap,        \* initialBufferSize
    MinCap,         \* the least capacity of a replacement channel
    MaxGen,         \* bound: how often the channel may be replaced
    NoEvent         \* no event at all: an idle worker's or forwarder's

ASSUME EventsAssumption == IsFiniteSet(Events) /\ NoEvent \notin Events

ASSUME CapAssumption == InitCap \in Nat \ {0} /\ MinCap \in Nat \ {0}

ASSUME MaxGenAssumption == MaxGen \in Nat

Names == {NameOf[e] : e \in Events}

HandlerIds == {Subscriptions[i].handler : i \in DOMAIN Subscriptions}

ASSUME SubscriptionsAssumption ==
    /\ NameOf \in [Events -> Names]
    /\ Subscriptions \in Seq([name : Names, handler : HandlerIds])

Gens == 0..MaxGen

\* PushEvent's newCap := max(cap(er.ch)*2, 1024), from the initial buffer.
Capacity[g \in Gens] ==
    IF g = 0 THEN InitCap
    ELSE IF 2 * Capacity[g - 1] >= MinCap THEN 2 * Capacity[g - 1] ELSE MinCap

VARIABLES
    booted,     \* how many of the Subscriptions have been registered
    handlers,   \* er.handlers: name -> sequence of handlers
    cur,        \* er.ch: the generation of the current channel
    buf,        \* buf[g]: the events buffered in channel g
    closed,     \* the channel Run's goroutine closed, as a set
    mu,         \* er.mu: "free", or "held" by a PushEvent
    push,       \* push[e]: the control state of PushEvent(e)
    pushCh,     \* pushCh[e]: the channel its send operates on
    work,       \* work[w]: the control state of worker w
    workCh,     \* workCh[w]: the channel its select receives from
    workEv,     \* workEv[w]: the event it processes
    todo,       \* todo[w]: the handlers still to run for that event
    fwd,        \* fwd[g]: the control state of the goroutine draining g
    fwdCh,      \* fwdCh[g]: the channel it sends to
    fwdEv,      \* fwdEv[g]: the event it holds
    ran,        \* history: the handlers run for each event, in order
    ctx,        \* "live" or "cancelled"
    stop,       \* the shutdown goroutine: "waiting", "closed", "stopped"
    crashed     \* a panic outside a request goroutine ended the process

pushVars == <<push, pushCh>>
workVars == <<work, workCh, workEv, todo>>
fwdVars  == <<fwd, fwdCh, fwdEv>>
ctlVars  == <<ctx, stop, crashed>>
bootVars == <<booted, handlers>>
vars == <<bootVars, cur, buf, closed, mu, pushVars, workVars, fwdVars, ran,
          ctlVars>>

-----------------------------------------------------------------------------
Init ==
    /\ booted = 0
    /\ handlers = [n \in Names |-> << >>]
    /\ cur = 0
    /\ buf = [g \in Gens |-> << >>]
    /\ closed = {}
    /\ mu = "free"
    /\ push = [e \in Events |-> "idle"]
    /\ pushCh = [e \in Events |-> 0]
    /\ work = [w \in Workers |-> "loop"]
    /\ workCh = [w \in Workers |-> 0]
    /\ workEv = [w \in Workers |-> NoEvent]
    /\ todo = [w \in Workers |-> << >>]
    /\ fwd = [g \in Gens |-> "none"]
    /\ fwdCh = [g \in Gens |-> 0]
    /\ fwdEv = [g \in Gens |-> NoEvent]
    /\ ran = [e \in Events |-> << >>]
    /\ ctx = "live"
    /\ stop = "waiting"
    /\ crashed = FALSE

-----------------------------------------------------------------------------
(* RegisterEventHandler: the application subscribes its handlers after     *)
(* Run has started the workers, and before the server takes requests.      *)

RegisterEventHandler ==
    /\ booted < Len(Subscriptions)
    /\ mu = "free"
    /\ LET s == Subscriptions[booted + 1]
       IN  handlers' = [handlers EXCEPT ![s.name] = Append(@, s.handler)]
    /\ booted' = booted + 1
    /\ UNCHANGED <<cur, buf, closed, mu, pushVars, workVars, fwdVars, ran,
                   ctlVars>>

-----------------------------------------------------------------------------
(* PushEvent.                                                              *)

Full(g) == Len(buf[g]) >= Capacity[g]

\* The request goroutine enters PushEvent: the send's operand er.ch is read.
PushBegin(e) ==
    /\ booted = Len(Subscriptions)
    /\ push[e] = "idle"
    /\ push' = [push EXCEPT ![e] = "try"]
    /\ pushCh' = [pushCh EXCEPT ![e] = cur]
    /\ UNCHANGED <<bootVars, cur, buf, closed, mu, workVars, fwdVars, ran,
                   ctlVars>>

\* The non-blocking send without the lock succeeds ...
PushFast(e) ==
    /\ push[e] = "try"
    /\ pushCh[e] \notin closed
    /\ ~Full(pushCh[e])
    /\ buf' = [buf EXCEPT ![pushCh[e]] = Append(@, e)]
    /\ push' = [push EXCEPT ![e] = "ok"]
    /\ UNCHANGED <<bootVars, cur, closed, mu, pushCh, workVars, fwdVars, ran,
                   ctlVars>>

\* ... or takes its default branch, which waits for the lock ...
PushSlow(e) ==
    /\ push[e] = "try"
    /\ pushCh[e] \notin closed
    /\ Full(pushCh[e])
    /\ push' = [push EXCEPT ![e] = "lock"]
    /\ UNCHANGED <<bootVars, cur, buf, closed, mu, pushCh, workVars, fwdVars,
                   ran, ctlVars>>

\* ... or panics: a send on a closed channel.  The panic is recovered by
\* the request goroutine, so the process lives on.
PushPanic(e) ==
    /\ push[e] = "try"
    /\ pushCh[e] \in closed
    /\ push' = [push EXCEPT ![e] = "panic"]
    /\ UNCHANGED <<bootVars, cur, buf, closed, mu, pushCh, workVars, fwdVars,
                   ran, ctlVars>>

PushLock(e) ==
    /\ push[e] = "lock"
    /\ mu = "free"
    /\ mu' = "held"
    /\ push' = [push EXCEPT ![e] = "held"]
    /\ pushCh' = [pushCh EXCEPT ![e] = cur]
    /\ UNCHANGED <<bootVars, cur, buf, closed, workVars, fwdVars, ran,
                   ctlVars>>

\* Try again with the lock held; nobody can replace or close er.ch now.
PushRetry(e) ==
    /\ push[e] = "held"
    /\ pushCh[e] \notin closed
    /\ ~Full(pushCh[e])
    /\ buf' = [buf EXCEPT ![pushCh[e]] = Append(@, e)]
    /\ push' = [push EXCEPT ![e] = "ok"]
    /\ mu' = "free"
    /\ UNCHANGED <<bootVars, cur, closed, pushCh, workVars, fwdVars, ran,
                   ctlVars>>

\* Mutant: the old channel is abandoned without a forwarding goroutine.
PushGrowNoDrain(e) ==
    /\ push[e] = "held"
    /\ pushCh[e] \notin closed
    /\ Full(pushCh[e])
    /\ cur < MaxGen
    /\ buf' = [buf EXCEPT ![cur + 1] = <<e>>]
    /\ cur' = cur + 1
    /\ push' = [push EXCEPT ![e] = "ok"]
    /\ mu' = "free"
    /\ UNCHANGED <<bootVars, closed, pushCh, workVars, fwdVars, ran, ctlVars>>

\* The channel is definitely full: replace it and drain the old one.
PushGrow(e) ==
    /\ push[e] = "held"
    /\ pushCh[e] \notin closed
    /\ Full(pushCh[e])
    /\ cur < MaxGen
    /\ buf' = [buf EXCEPT ![cur + 1] = <<e>>]
    /\ fwd' = [fwd EXCEPT ![cur] = "range"]
    /\ cur' = cur + 1
    /\ push' = [push EXCEPT ![e] = "ok"]
    /\ mu' = "free"
    /\ UNCHANGED <<bootVars, closed, pushCh, workVars, fwdCh, fwdEv, ran,
                   ctlVars>>

\* Mutant: Unlock is not deferred, the panic leaves the mutex locked.
PushRetryPanicLocked(e) ==
    /\ push[e] = "held"
    /\ pushCh[e] \in closed
    /\ push' = [push EXCEPT ![e] = "panic"]
    /\ UNCHANGED <<bootVars, cur, buf, closed, mu, pushCh, workVars, fwdVars,
                   ran, ctlVars>>

\* The channel was closed before the lock was obtained; the deferred Unlock
\* runs while the panic unwinds.
PushRetryPanic(e) ==
    /\ push[e] = "held"
    /\ pushCh[e] \in closed
    /\ push' = [push EXCEPT ![e] = "panic"]
    /\ mu' = "free"
    /\ UNCHANGED <<bootVars, cur, buf, closed, pushCh, workVars, fwdVars, ran,
                   ctlVars>>

-----------------------------------------------------------------------------
(* The forwarding goroutine of a replaced channel: for e := range oldCh    *)
(* { er.ch <- e }.  The old channel is never closed, so it never returns.  *)

FwdReceive(g) ==
    /\ fwd[g] = "range"
    /\ buf[g] # << >>
    /\ fwdEv' = [fwdEv EXCEPT ![g] = Head(buf[g])]
    /\ buf' = [buf EXCEPT ![g] = Tail(@)]
    /\ fwd' = [fwd EXCEPT ![g] = "hold"]
    /\ UNCHANGED <<bootVars, cur, closed, mu, pushVars, workVars, fwdCh, ran,
                   ctlVars>>

FwdEval(g) ==
    /\ fwd[g] = "hold"
    /\ fwdCh' = [fwdCh EXCEPT ![g] = cur]
    /\ fwd' = [fwd EXCEPT ![g] = "send"]
    /\ UNCHANGED <<bootVars, cur, buf, closed, mu, pushVars, workVars, fwdEv,
                   ran, ctlVars>>

\* Mutant: a non-blocking send forwards the event, or drops it.
FwdSendOrDrop(g) ==
    /\ fwd[g] = "send"
    /\ fwdCh[g] \notin closed
    /\ buf' = IF Full(fwdCh[g]) THEN buf
              ELSE [buf EXCEPT ![fwdCh[g]] = Append(@, fwdEv[g])]
    /\ fwdEv' = [fwdEv EXCEPT ![g] = NoEvent]
    /\ fwd' = [fwd EXCEPT ![g] = "range"]
    /\ UNCHANGED <<bootVars, cur, closed, mu, pushVars, workVars, fwdCh, ran,
                   ctlVars>>

FwdSend(g) ==
    /\ fwd[g] = "send"
    /\ fwdCh[g] \notin closed
    /\ ~Full(fwdCh[g])
    /\ buf' = [buf EXCEPT ![fwdCh[g]] = Append(@, fwdEv[g])]
    /\ fwdEv' = [fwdEv EXCEPT ![g] = NoEvent]
    /\ fwd' = [fwd EXCEPT ![g] = "range"]
    /\ UNCHANGED <<bootVars, cur, closed, mu, pushVars, workVars, fwdCh, ran,
                   ctlVars>>

\* A send on the closed channel in a goroutine that nothing recovers.
FwdPanic(g) ==
    /\ fwd[g] = "send"
    /\ fwdCh[g] \in closed
    /\ crashed' = TRUE
    /\ UNCHANGED <<bootVars, cur, buf, closed, mu, pushVars, workVars,
                   fwdVars, ran, ctx, stop>>

-----------------------------------------------------------------------------
(* worker and processEvent.                                                *)

\* The select statement evaluates er.ch once, before it blocks.
WorkerEval(w) ==
    /\ work[w] = "loop"
    /\ workCh' = [workCh EXCEPT ![w] = cur]
    /\ work' = [work EXCEPT ![w] = "select"]
    /\ UNCHANGED <<bootVars, cur, buf, closed, mu, pushVars, workEv, todo,
                   fwdVars, ran, ctlVars>>

\* Mutant: the worker reads the next event without removing it.
WorkerReceivePeek(w) ==
    /\ work[w] = "select"
    /\ buf[workCh[w]] # << >>
    /\ workEv' = [workEv EXCEPT ![w] = Head(buf[workCh[w]])]
    /\ work' = [work EXCEPT ![w] = "lookup"]
    /\ UNCHANGED <<bootVars, cur, buf, closed, mu, pushVars, workCh, todo,
                   fwdVars, ran, ctlVars>>

WorkerReceive(w) ==
    /\ work[w] = "select"
    /\ buf[workCh[w]] # << >>
    /\ workEv' = [workEv EXCEPT ![w] = Head(buf[workCh[w]])]
    /\ buf' = [buf EXCEPT ![workCh[w]] = Tail(@)]
    /\ work' = [work EXCEPT ![w] = "lookup"]
    /\ UNCHANGED <<bootVars, cur, closed, mu, pushVars, workCh, todo, fwdVars,
                   ran, ctlVars>>

\* ctx.Done() is ready, or the channel is closed and drained.
WorkerExit(w) ==
    /\ work[w] = "select"
    /\ \/ ctx = "cancelled"
       \/ workCh[w] \in closed /\ buf[workCh[w]] = << >>
    /\ work' = [work EXCEPT ![w] = "exited"]
    /\ UNCHANGED <<bootVars, cur, buf, closed, mu, pushVars, workCh, workEv,
                   todo, fwdVars, ran, ctlVars>>

\* processEvent copies the handler list under the lock ...
ProcessLookup(w) ==
    /\ work[w] = "lookup"
    /\ mu = "free"
    /\ todo' = [todo EXCEPT ![w] = handlers[NameOf[workEv[w]]]]
    /\ work' = [work EXCEPT ![w] = "run"]
    /\ UNCHANGED <<bootVars, cur, buf, closed, mu, pushVars, workCh, workEv,
                   fwdVars, ran, ctlVars>>

\* ... and runs the handlers one after the other.
ProcessHandle(w) ==
    /\ work[w] = "run"
    /\ todo[w] # << >>
    /\ ran' = [ran EXCEPT ![workEv[w]] = Append(@, Head(todo[w]))]
    /\ todo' = [todo EXCEPT ![w] = Tail(@)]
    /\ UNCHANGED <<bootVars, cur, buf, closed, mu, pushVars, work, workCh,
                   workEv, fwdVars, ctlVars>>

ProcessReturn(w) ==
    /\ work[w] = "run"
    /\ todo[w] = << >>
    /\ workEv' = [workEv EXCEPT ![w] = NoEvent]
    /\ work' = [work EXCEPT ![w] = "loop"]
    /\ UNCHANGED <<bootVars, cur, buf, closed, mu, pushVars, workCh, todo,
                   fwdVars, ran, ctlVars>>

-----------------------------------------------------------------------------
(* Shutdown: the signal handler cancels the context; Run's goroutine then  *)
(* closes the current channel and waits for the workers.                   *)

Cancel ==
    /\ ctx = "live"
    /\ ctx' = "cancelled"
    /\ UNCHANGED <<bootVars, cur, buf, closed, mu, pushVars, workVars, fwdVars,
                   ran, stop, crashed>>

CloseChannel ==
    /\ stop = "waiting"
    /\ ctx = "cancelled"
    /\ mu = "free"
    /\ closed' = closed \cup {cur}
    /\ stop' = "closed"
    /\ UNCHANGED <<bootVars, cur, buf, mu, pushVars, workVars, fwdVars, ran,
                   ctx, crashed>>

WaitWorkers ==
    /\ stop = "closed"
    /\ \A w \in Workers : work[w] = "exited"
    /\ stop' = "stopped"
    /\ UNCHANGED <<bootVars, cur, buf, closed, mu, pushVars, workVars, fwdVars,
                   ran, ctx, crashed>>

-----------------------------------------------------------------------------
PushEvent(e) ==
    \/ PushBegin(e) \/ PushFast(e) \/ PushSlow(e) \/ PushPanic(e)
    \/ PushLock(e) \/ PushRetry(e) \/ PushGrow(e) \/ PushRetryPanic(e)

Forward(g) == FwdReceive(g) \/ FwdEval(g) \/ FwdSend(g) \/ FwdPanic(g)

Worker(w) ==
    \/ WorkerEval(w) \/ WorkerReceive(w) \/ WorkerExit(w)
    \/ ProcessLookup(w) \/ ProcessHandle(w) \/ ProcessReturn(w)

Shutdown == CloseChannel \/ WaitWorkers

Next ==
    /\ ~crashed
    /\ \/ RegisterEventHandler
       \/ \E e \in Events : PushEvent(e)
       \/ \E g \in Gens : Forward(g)
       \/ \E w \in Workers : Worker(w)
       \/ Cancel
       \/ Shutdown

Spec == Init /\ [][Next]_vars

-----------------------------------------------------------------------------
(* Every goroutine that can run is eventually scheduled, and a handler     *)
(* returns.  No request, and no shutdown, need ever arrive.                *)

FairSpec ==
    /\ Spec
    /\ WF_vars(~crashed /\ RegisterEventHandler)
    /\ \A e \in Events : WF_vars(~crashed /\ PushEvent(e) /\ push[e] # "idle")
    /\ \A g \in Gens : WF_vars(~crashed /\ Forward(g))
    /\ \A w \in Workers : WF_vars(~crashed /\ Worker(w))
    /\ WF_vars(~crashed /\ Shutdown)

-----------------------------------------------------------------------------
(* Where an event is: in a slot of a channel, in the hands of a forwarding  *)
(* goroutine, or in the hands of a worker.                                 *)

Buffered(b) ==
    {e \in Events : \E g \in Gens : \E i \in DOMAIN b[g] : b[g][i] = e}

Forwarded(e) == \E g \in Gens : fwdEv[g] = e

Queued(e) == e \in Buffered(buf) \/ Forwarded(e)

Running(e) == \E w \in Workers : workEv[w] = e

\* The life of an event as EventDelivery tells it.
StatusOf(e) ==
    CASE push[e] = "panic" -> "rejected"
      [] push[e] \notin {"panic", "ok"} -> "new"
      [] push[e] = "ok" /\ Running(e) -> "running"
      [] push[e] = "ok" /\ ~Running(e) /\ Queued(e) -> "accepted"
      [] OTHER -> "done"

Delivery == INSTANCE EventDelivery WITH status <- [e \in Events |-> StatusOf(e)]

-----------------------------------------------------------------------------
PushStates == {"idle", "try", "lock", "held", "ok", "panic"}
WorkStates == {"loop", "select", "lookup", "run", "exited"}
FwdStates  == {"none", "range", "hold", "send"}

\* Types of the registry's fields and of the goroutines' local state.
TypeOK ==
    /\ booted \in 0..Len(Subscriptions)
    /\ handlers \in [Names -> Seq(HandlerIds)]
    /\ cur \in Gens
    /\ buf \in [Gens -> Seq(Events)]
    /\ closed \subseteq Gens
    /\ mu \in {"free", "held"}
    /\ push \in [Events -> PushStates]
    /\ pushCh \in [Events -> Gens]
    /\ work \in [Workers -> WorkStates]
    /\ workCh \in [Workers -> Gens]
    /\ workEv \in [Workers -> Events \cup {NoEvent}]
    /\ todo \in [Workers -> Seq(HandlerIds)]
    /\ fwd \in [Gens -> FwdStates]
    /\ fwdCh \in [Gens -> Gens]
    /\ fwdEv \in [Gens -> Events \cup {NoEvent}]
    /\ ran \in [Events -> Seq(HandlerIds)]
    /\ ctx \in {"live", "cancelled"}
    /\ stop \in {"waiting", "closed", "stopped"}
    /\ crashed \in BOOLEAN

SlotsDistinct(b) ==
    \A g, h \in Gens : \A i \in DOMAIN b[g], j \in DOMAIN b[h] :
        b[g][i] = b[h][j] => g = h /\ i = j

\* However PushEvent, the replacement of the channel, the forwarding of the
\* old channel and the receives of the workers interleave, an event is
\* never in two places, so that it can never be handled twice; and it is
\* nowhere at all before PushEvent succeeded.
NoDuplicate ==
    /\ SlotsDistinct(buf)
    /\ \A g, h \in Gens : fwdEv[g] = fwdEv[h] => g = h \/ fwdEv[g] = NoEvent
    /\ \A v, w \in Workers : workEv[v] = workEv[w] => v = w \/ workEv[v] = NoEvent
    /\ \A e \in Buffered(buf) : ~Forwarded(e) /\ ~Running(e)
    /\ \A e \in Events : ~(Forwarded(e) /\ Running(e))
    /\ \A e \in Events : push[e] # "ok" => ~Queued(e) /\ ~Running(e)

\* The first k subscriptions that are for the name n.
SubscribedTo(n, k) == {i \in 1..k : Subscriptions[i].name = n}

\* The sequence q is the handlers of the subscriptions S, each once and in
\* the order of subscription: f[k] is the subscription that q[k] comes from.
Lists(q, S) ==
    \E f \in [DOMAIN q -> S] :
        /\ \A j, k \in DOMAIN q : j < k => f[j] < f[k]
        /\ \A i \in S : \E k \in DOMAIN q : f[k] = i
        /\ \A k \in DOMAIN q : q[k] = Subscriptions[f[k]].handler

\* An event is never lost while it waits or is forwarded: one that was
\* accepted and is in no place any more has been given to every handler
\* registered for its name, once and in the order of registration.
HandledCompletely ==
    \A e \in Events :
        push[e] = "ok" /\ ~Queued(e) /\ ~Running(e)
            => Lists(ran[e], SubscribedTo(NameOf[e], Len(Subscriptions)))

OneHolder ==
    /\ \A d, e \in Events : push[d] = "held" /\ push[e] = "held" => d = e
    /\ \A e \in Events : push[e] = "held" => mu = "held" /\ pushCh[e] = cur

OldDrained == \A g \in Gens : fwd[g] # "none" <=> g < cur

SendsReach ==
    /\ \A g \in Gens : fwdCh[g] <= cur
    /\ \A e \in Events : pushCh[e] <= cur
    /\ \A g \in Gens : g > cur => buf[g] = << >>

\* Only one goroutine at a time replaces or closes er.ch, so that no
\* channel is abandoned without a forwarding goroutine: every channel but
\* the current one is being drained, and every pending send goes to a
\* channel that is drained or current, never to one that does not exist.
EveryOldChannelDrained == OneHolder /\ OldDrained /\ SendsReach

\* The registry behaves as EventDelivery says: each event is taken up at
\* most once and finished at most once.
Delivers == Delivery!Spec

\* After a cancellation the shutdown goroutine gets its lock, and every
\* worker, even one that waits on a channel that was replaced, leaves.
ShutdownCompletes == (ctx = "cancelled") ~> (stop = "stopped" \/ crashed)

\* A worker waits on a channel that was replaced while it was about to
\* block on it, and that has been drained since.
Stranded(w) ==
    /\ work[w] = "select"
    /\ workCh[w] < cur
    /\ buf[workCh[w]] = << >>

\* While the registry is not shut down, every accepted event is handled,
\* provided that a worker is left that is not stranded.
HandledUnlessStranded ==
    \A e \in Events :
        StatusOf(e) = "accepted" ~>
            \/ StatusOf(e) = "done"
            \/ ctx = "cancelled"
            \/ \A w \in Workers : Stranded(w)
=============================================================================
