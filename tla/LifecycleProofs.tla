--------------------------- MODULE LifecycleProofs ---------------------------
(***************************************************************************)
(* Theorems about Views and Lifecycle, for any number of servers, clients, *)
(* views, changes of the data and kills.                                   *)
(*                                                                         *)
(* The views: as long as no two calls were under way at once, the table a  *)
(* call finds is the one its own earlier statements left; an overlap may   *)
(* damage the view but never removes it.  The servers: only one that was   *)
(* told to stop closes its channel, and a server leaves "draining" for     *)
(* "closing" with no request under way and accepts none afterwards.        *)
(***************************************************************************)
EXTENDS Lifecycle, TLAPS

-----------------------------------------------------------------------------
(* The refresh procedures.                                                 *)

\* A view can be read when it has any content; nothing but its content is at stake.
LEMMA SequencesAreTables ==
    \A content \in Seq(Nat) : content # Missing
BY MissingAssumption

\* The calls never leave their procedure: each statement is one of its kind's.
LEMMA FirstStatementType == FirstStatement \in Statements /\ FirstStatement \in {"deactivate", "dropTmp"}
BY DEF FirstStatement, Statements

\* A call is under way alone as long as none overlapped.
LEMMA Alone ==
    ASSUME ViewsInv, ~overlapped, NEW c \in Callers, call[c] # "idle"
    PROVE  \A d \in Callers : d # c => call[d] = "idle"
BY DEF ViewsInv, AloneOK

\* CALL: the tables stay, and a second call is an overlap.
LEMMA CallKeepsViews ==
    ASSUME ViewsInv, NEW c \in Callers, Call(c),
           UNCHANGED <<followed, data, view, active, tmp, old, counted>>
    PROVE  ViewsInv'
<1>1. call' = [call EXCEPT ![c] = FirstStatement]
  BY DEF Call, Continue
<1>2. ViewsType'
  BY <1>1, FirstStatementType DEF ViewsInv, ViewsType, Call, Statements
<1>3. ASSUME ~overlapped'
      PROVE  ~overlapped /\ \A d \in Callers : call[d] = "idle"
  BY <1>3 DEF Call, ViewsInv, ViewsType
<1>4. ASSUME ~overlapped', NEW d \in Callers
      PROVE  AloneOK(d)'
  BY <1>1, <1>3, <1>4, FirstStatementType DEF AloneOK, ViewsInv, ViewsType
<1>5. DamagedOnlyByOverlap'
  BY <1>1, <1>3, FirstStatementType DEF DamagedOnlyByOverlap, ViewsInv, ViewsType
<1> QED
  BY <1>2, <1>4, <1>5 DEF ViewsInv

\* DROP TABLE IF EXISTS <view>_tmp.
LEMMA DropTmpKeepsViews ==
    ASSUME ViewsInv, NEW c \in Callers, DropTmp(c), UNCHANGED <<followed, data>>
    PROVE  ViewsInv'
<1>1. followed \notin Flagged
  BY DEF ViewsInv, ViewsType, Statements, DropTmp
<1>2. call' = [call EXCEPT ![c] = "dropOld"]
  BY DEF DropTmp, Continue
<1>3. ViewsType'
  BY <1>1, <1>2 DEF ViewsInv, ViewsType, Statements, DropTmp
<1>4. ASSUME ~overlapped', NEW d \in Callers
      PROVE  AloneOK(d)'
  BY <1>2, <1>4, Alone DEF DropTmp, AloneOK, ViewsInv, ViewsType
<1>5. DamagedOnlyByOverlap'
  BY <1>1 DEF DamagedOnlyByOverlap, ViewsInv, DropTmp
<1> QED
  BY <1>3, <1>4, <1>5 DEF ViewsInv

\* DROP TABLE IF EXISTS <view>_old, at the start and at the end.
LEMMA DropOldKeepsViews ==
    ASSUME ViewsInv, NEW c \in Callers, DropOld(c), UNCHANGED <<followed, data>>
    PROVE  ViewsInv'
<1>1. followed \notin Flagged
  BY DEF ViewsInv, ViewsType, Statements, DropOld
<1>2. PICK next \in {"createTmp", "idle"} : call' = [call EXCEPT ![c] = next]
  BY DEF DropOld, Continue
<1>3. ViewsType'
  BY <1>1, <1>2 DEF ViewsInv, ViewsType, Statements, DropOld
<1>4. ASSUME ~overlapped', NEW d \in Callers
      PROVE  AloneOK(d)'
  BY <1>2, <1>4, Alone DEF DropOld, AloneOK, ViewsInv, ViewsType
<1>5. DamagedOnlyByOverlap'
  BY <1>1 DEF DamagedOnlyByOverlap, ViewsInv, DropOld
<1> QED
  BY <1>3, <1>4, <1>5 DEF ViewsInv

\* A statement that fails ends its call and changes nothing.
LEMMA FailsKeepsViews ==
    ASSUME ViewsInv, NEW c \in Callers, Fails(c), followed \notin Flagged,
           UNCHANGED <<followed, data>>
    PROVE  ViewsInv'
<1>1. call' = [call EXCEPT ![c] = "idle"]
  BY DEF Fails, Continue
<1>2. ViewsType'
  BY <1>1 DEF ViewsInv, ViewsType, Statements, Fails
<1>3. ASSUME ~overlapped', NEW d \in Callers
      PROVE  AloneOK(d)'
  BY <1>1, <1>3 DEF Fails, AloneOK, ViewsInv, ViewsType
<1>4. DamagedOnlyByOverlap'
  BY DEF DamagedOnlyByOverlap, ViewsInv, Fails
<1> QED
  BY <1>2, <1>3, <1>4 DEF ViewsInv

\* CREATE TABLE <view>_tmp.
LEMMA CreateTmpKeepsViews ==
    ASSUME ViewsInv, NEW c \in Callers, CreateTmp(c), UNCHANGED <<followed, data>>
    PROVE  ViewsInv'
<1>1. followed \notin Flagged
  BY DEF ViewsInv, ViewsType, Statements, CreateTmp
<1>2. CASE Fails(c)
  BY <1>1, <1>2, FailsKeepsViews
<1>3. CASE ~Fails(c)
  <2>1. /\ tmp' = << >> /\ call' = [call EXCEPT ![c] = "insert"]
        /\ UNCHANGED <<view, active, counted, overlapped>>
    BY <1>3 DEF CreateTmp, Continue
  <2>2. ViewsType'
    BY <1>1, <2>1 DEF ViewsInv, ViewsType, Statements
  <2>3. ASSUME ~overlapped', NEW d \in Callers
        PROVE  AloneOK(d)'
    BY <2>1, <2>3, Alone DEF CreateTmp, AloneOK, ViewsInv, ViewsType
  <2>4. DamagedOnlyByOverlap'
    BY <1>1, <2>1 DEF DamagedOnlyByOverlap, ViewsInv
  <2> QED
    BY <2>2, <2>3, <2>4 DEF ViewsInv
<1> QED
  BY <1>2, <1>3

\* INSERT INTO <view>_tmp SELECT: a call alone inserts into the table it created.
LEMMA InsertTmpKeepsViews ==
    ASSUME ViewsInv, NEW c \in Callers, InsertTmp(c), UNCHANGED <<followed, data>>
    PROVE  ViewsInv'
<1>1. followed \notin Flagged
  BY DEF ViewsInv, ViewsType, Statements, InsertTmp
<1>2. CASE Fails(c)
  BY <1>1, <1>2, FailsKeepsViews
<1>3. CASE ~Fails(c)
  <2>1. /\ tmp' = Append(tmp, data) /\ call' = [call EXCEPT ![c] = "rename"]
        /\ tmp # Missing
        /\ UNCHANGED <<view, active, counted, overlapped>>
    BY <1>3 DEF InsertTmp, Continue
  <2>2. tmp \in Seq(Nat) /\ data \in Nat
    BY <2>1 DEF ViewsInv, ViewsType
  <2>3. tmp' \in Seq(Nat) /\ Len(tmp') = Len(tmp) + 1
    BY <2>1, <2>2
  <2>4. ViewsType'
    BY <1>1, <2>1, <2>3 DEF ViewsInv, ViewsType, Statements
  <2>5. ASSUME ~overlapped', NEW d \in Callers
        PROVE  AloneOK(d)'
    <3>1. call[c] = "insert" /\ tmp = << >>
      BY <2>1, <2>5 DEF InsertTmp, ViewsInv, AloneOK
    <3>2. tmp' # Missing /\ Len(tmp') = 1
      BY <2>3, <3>1, SequencesAreTables
    <3> QED
      BY <2>1, <2>5, <3>1, <3>2, Alone DEF AloneOK, ViewsInv, ViewsType
  <2>6. DamagedOnlyByOverlap'
    BY <1>1, <2>1 DEF DamagedOnlyByOverlap, ViewsInv
  <2> QED
    BY <2>4, <2>5, <2>6 DEF ViewsInv
<1> QED
  BY <1>2, <1>3

\* RENAME TABLE: the view is the table that was built, which was created by then.
LEMMA RenameTmpKeepsViews ==
    ASSUME ViewsInv, NEW c \in Callers, RenameTmp(c), UNCHANGED <<followed, data>>
    PROVE  ViewsInv'
<1>1. followed \notin Flagged
  BY DEF ViewsInv, ViewsType, Statements, RenameTmp
<1>2. CASE Fails(c)
  BY <1>1, <1>2, FailsKeepsViews
<1>3. CASE ~Fails(c)
  <2>1. /\ view' = tmp /\ tmp' = Missing /\ call' = [call EXCEPT ![c] = "dropRenamed"]
        /\ tmp # Missing
        /\ UNCHANGED <<active, counted, overlapped>>
    BY <1>3 DEF RenameTmp, Continue
  <2>2. ViewsType'
    BY <1>1, <2>1 DEF ViewsInv, ViewsType, Statements
  <2>3. ASSUME ~overlapped', NEW d \in Callers
        PROVE  AloneOK(d)'
    BY <2>1, <2>3, Alone DEF RenameTmp, AloneOK, ViewsInv, ViewsType
  <2>4. DamagedOnlyByOverlap'
    BY <1>1, <2>1 DEF DamagedOnlyByOverlap, ViewsInv, RenameTmp, AloneOK
  <2> QED
    BY <2>2, <2>3, <2>4 DEF ViewsInv
<1> QED
  BY <1>2, <1>3

\* UPDATE <view> SET is_active = 0.
LEMMA DeactivateKeepsViews ==
    ASSUME ViewsInv, NEW c \in Callers, Deactivate(c), UNCHANGED <<followed, data>>
    PROVE  ViewsInv'
<1>1. followed \in Flagged
  BY DEF ViewsInv, ViewsType, Statements, Deactivate
<1>2. call' = [call EXCEPT ![c] = "upsert"]
  BY DEF Deactivate, Continue
<1>3. ViewsType'
  BY <1>1, <1>2 DEF ViewsInv, ViewsType, Statements, Deactivate
<1>4. ASSUME ~overlapped', NEW d \in Callers
      PROVE  AloneOK(d)'
  BY <1>2, <1>4, Alone DEF Deactivate, AloneOK, ViewsInv, ViewsType
<1>5. DamagedOnlyByOverlap'
  BY <1>1, <1>2 DEF DamagedOnlyByOverlap, ViewsInv, ViewsType, Deactivate
<1> QED
  BY <1>3, <1>4, <1>5 DEF ViewsInv

\* INSERT ... ON DUPLICATE KEY UPDATE: the counted row, if there is one.
LEMMA UpsertKeepsViews ==
    ASSUME ViewsInv, NEW c \in Callers, Upsert(c), UNCHANGED <<followed, data>>
    PROVE  ViewsInv'
<1>1. followed \in Flagged
  BY DEF ViewsInv, ViewsType, Statements, Upsert
<1>2. PICK next \in {"idle", "prune"} : /\ call' = [call EXCEPT ![c] = next]
                                        /\ next = "idle" => followed \in NeverPruned
  BY DEF Upsert, Continue
<1>3. view' \in Seq(Nat) /\ active' \in BOOLEAN
  <2>1. data \in Nat /\ view \in Seq(Nat) /\ active \in BOOLEAN
    BY DEF ViewsInv, ViewsType
  <2>2. <<data>> \in Seq(Nat)
    BY <2>1
  <2> QED
    BY <2>1, <2>2 DEF Upsert
<1>4. ViewsType'
  BY <1>1, <1>2, <1>3 DEF ViewsInv, ViewsType, Statements, Upsert
<1>5. ASSUME ~overlapped', NEW d \in Callers
      PROVE  AloneOK(d)'
  BY <1>2, <1>5, Alone DEF Upsert, AloneOK, ViewsInv, ViewsType
<1>6. DamagedOnlyByOverlap'
  BY <1>1, <1>2, <1>3, SequencesAreTables DEF DamagedOnlyByOverlap, ViewsInv, ViewsType, Upsert
<1> QED
  BY <1>4, <1>5, <1>6 DEF ViewsInv

\* DELETE FROM <view> WHERE is_active = 0: a call alone deletes what it did not count.
LEMMA PruneKeepsViews ==
    ASSUME ViewsInv, NEW c \in Callers, Prune(c), UNCHANGED <<followed, data>>
    PROVE  ViewsInv'
<1>1. followed \in Flagged
  BY DEF ViewsInv, ViewsType, Statements, Prune
<1>2. call' = [call EXCEPT ![c] = "idle"]
  BY DEF Prune, Continue
<1>3. view' \in Seq(Nat)
  BY DEF ViewsInv, ViewsType, Prune
<1>4. ViewsType'
  BY <1>1, <1>2, <1>3 DEF ViewsInv, ViewsType, Statements, Prune
<1>5. ASSUME ~overlapped', NEW d \in Callers
      PROVE  AloneOK(d)'
  BY <1>2, <1>5, Alone DEF Prune, AloneOK, ViewsInv, ViewsType
<1>6. DamagedOnlyByOverlap'
  BY <1>1, <1>2, <1>3, SequencesAreTables DEF DamagedOnlyByOverlap, ViewsInv, ViewsType, Prune,
     AloneOK
<1> QED
  BY <1>4, <1>5, <1>6 DEF ViewsInv

\* The tables change: what was counted before is no longer current.
LEMMA ChangeKeepsViews ==
    ASSUME ViewsInv, Change
    PROVE  ViewsInv'
<1>1. /\ data' = data + 1 /\ counted' = counted /\ data \in Nat \ {0} /\ counted \in 0 .. data
      /\ UNCHANGED <<followed, view, active, tmp, call, overlapped>>
  BY DEF Change, tableVars, ViewsInv, ViewsType
<1>2. ViewsType'
  BY <1>1 DEF ViewsInv, ViewsType, Statements
<1>3. ASSUME ~overlapped', NEW d \in Callers
      PROVE  AloneOK(d)'
  BY <1>1, <1>3 DEF ViewsInv, AloneOK
<1>4. DamagedOnlyByOverlap'
  BY <1>1 DEF ViewsInv, DamagedOnlyByOverlap
<1> QED
  BY <1>2, <1>3, <1>4 DEF ViewsInv

\* A connection breaks: its call ends between two statements.
LEMMA BrokenKeepsViews ==
    ASSUME ViewsInv, NEW s \in Servers, Broken(s)
    PROVE  ViewsInv'
<1>1. /\ s \in Callers /\ call' = [call EXCEPT ![s] = "idle"] /\ counted' = 0
      /\ UNCHANGED <<followed, data, view, active, tmp, overlapped>>
  BY DEF Broken, Continue, Callers
<1>2. ViewsType'
  BY <1>1 DEF ViewsInv, ViewsType, Statements
<1>3. ASSUME ~overlapped', NEW d \in Callers
      PROVE  AloneOK(d)'
  BY <1>1, <1>3 DEF ViewsInv, ViewsType, AloneOK
<1>4. DamagedOnlyByOverlap'
  BY <1>1 DEF ViewsInv, ViewsType, DamagedOnlyByOverlap
<1> QED
  BY <1>2, <1>3, <1>4 DEF ViewsInv

\* A step that leaves the data, the tables and the calls alone.
LEMMA OthersKeepViews ==
    ASSUME ViewsInv, UNCHANGED <<followed, data, tableVars>>
    PROVE  ViewsInv'
BY DEF tableVars, ViewsInv, ViewsType, Statements, AloneOK, DamagedOnlyByOverlap

-----------------------------------------------------------------------------
(* The servers.                                                            *)

\* Initially one correct table, no call, no request and no server that runs.
LEMMA InitHolds == Init => ViewsInv /\ LifecycleInv
<1> SUFFICES ASSUME Init
             PROVE  ViewsInv /\ LifecycleInv
  OBVIOUS
<1>1. view \in Seq(Nat) /\ Len(view) = 1
  <2>1. \A n \in Nat : <<n>> \in Seq(Nat) /\ Len(<<n>>) = 1
    OBVIOUS
  <2> QED
    BY <2>1 DEF Init, ViewsInit
<1>2. ViewsType
  <2>1. call \in [Callers -> Statements \cup {"idle"}]
    BY DEF Init, ViewsInit
  <2>2. data \in Nat \ {0} /\ counted \in 0 .. data
    BY DEF Init, ViewsInit
  <2>3. tmp = Missing /\ active \in BOOLEAN /\ overlapped \in BOOLEAN
    BY DEF Init, ViewsInit
  <2> QED
    BY <1>1, <2>1, <2>2, <2>3 DEF ViewsType
<1>3. \A c \in Callers : AloneOK(c)
  BY DEF Init, ViewsInit, AloneOK
<1>4. DamagedOnlyByOverlap
  <2>1. view # Missing
    BY <1>1, SequencesAreTables
  <2>2. counted # data
    BY DEF Init, ViewsInit
  <2> QED
    BY <1>1, <2>1, <2>2 DEF DamagedOnlyByOverlap
<1>5. ServeType
  BY DEF Init, ViewsInit, ServeType
<1>6. \A s \in Servers : ServerOK(s)
  BY RequestsAssumption DEF Init, ViewsInit, ServerOK, Cancelled
<1>7. PromisesKept
  BY DEF Init, ViewsInit, PromisesKept
<1>8. \A r \in Requests : req[r] = "unsent" <=> at[r] = Nobody
  BY DEF Init
<1> QED
  BY <1>2, <1>3, <1>4, <1>5, <1>6, <1>7, <1>8 DEF ViewsInv, LifecycleInv

\* Every step of the refresh procedures and of the start keeps ViewsInv.
LEMMA DatabaseKeepsViews ==
    ASSUME ViewsInv, DatabaseStep
    PROVE  ViewsInv'
<1>1. ASSUME NEW c \in Callers, Statement(c)
      PROVE  ViewsInv'
  <2>1. UNCHANGED <<followed, data>>
    BY <1>1 DEF Statement
  <2> QED
    BY <1>1, <2>1, DropTmpKeepsViews, DropOldKeepsViews, CreateTmpKeepsViews, InsertTmpKeepsViews,
       RenameTmpKeepsViews, DeactivateKeepsViews, UpsertKeepsViews, PruneKeepsViews DEF Statement
<1>2. ASSUME Fire
      PROVE  ViewsInv'
  BY <1>2, CallKeepsViews DEF Fire, Callers
<1> QED
  BY <1>1, <1>2, ChangeKeepsViews DEF DatabaseStep

\* A server that starts calls at most one procedure of the followed view.
LEMMA RunMigrationsKeepsViews ==
    ASSUME ViewsInv, NEW s \in Servers, RunMigrations(s)
    PROVE  ViewsInv'
<1>1. CASE runPostMigrations(s)
  <2>1. UNCHANGED <<followed, data, view, active, tmp, old, counted>>
    BY <1>1 DEF runPostMigrations
  <2>2. CASE s \in Background /\ followed \in Registered
    BY <1>1, <2>1, <2>2, CallKeepsViews DEF runPostMigrations, Callers
  <2>3. CASE ~(s \in Background /\ followed \in Registered)
    BY <1>1, <2>1, <2>3, OthersKeepViews DEF runPostMigrations, tableVars
  <2> QED
    BY <2>2, <2>3
<1>2. CASE runUpMigrations(s) \/ MigrationApplied(s) \/ DropEvent(s) \/ CreateEvent(s)
  BY <1>2, OthersKeepViews DEF runUpMigrations, MigrationApplied, DropEvent, CreateEvent
<1> QED
  BY <1>1, <1>2 DEF RunMigrations

\* Every step keeps ViewsInv; the steps of a server that runs do not touch the tables.
LEMMA NextKeepsViews == ViewsInv /\ [Next]_vars => ViewsInv'
<1> SUFFICES ASSUME ViewsInv, [Next]_vars
             PROVE  ViewsInv'
  OBVIOUS
<1>1. ASSUME NEW s \in Servers, RunMigrations(s) \/ Broken(s)
      PROVE  ViewsInv'
  BY <1>1, RunMigrationsKeepsViews, BrokenKeepsViews
<1>2. ASSUME NEW s \in Servers, Killed(s) \/ Signal(s) \/ ServerStep(s)
      PROVE  UNCHANGED <<followed, data, tableVars>>
  BY <1>2 DEF Killed, Crash, Signal, ServerStep, StartServing, BlockingStop, Drained,
     CloseConnection, Joined, Expire, serverVars
<1>3. ASSUME NEW s \in Servers,
             Take(s) \/ Handle(s) \/ WorkerEnds(s) \/ CloseChannel(s) \/ CacheEnds(s)
      PROVE  UNCHANGED <<followed, data, tableVars>>
  BY <1>3 DEF Take, Handle, WorkerEnds, CloseChannel, CacheEnds, viewVars
<1>4. ASSUME NEW r \in Requests, Write(r) \/ Push(r) \/ Answer(r) \/ \E s \in Servers : Accept(r, s)
      PROVE  UNCHANGED <<followed, data, tableVars>>
  BY <1>4 DEF Write, Push, Answer, Accept, viewVars
<1>5. CASE UNCHANGED vars
  BY <1>5, OthersKeepViews DEF vars, viewVars
<1> QED
  BY <1>1, <1>2, <1>3, <1>4, <1>5, OthersKeepViews, DatabaseKeepsViews DEF Next

-----------------------------------------------------------------------------
\* A step of the start moves one server among the early phases, or ends it with an error;
\* no request meets a server that has not begun to serve.
LEMMA StartKeepsPromises ==
    ASSUME LifecycleInv, UNCHANGED serveVars, NEW s \in Servers, RunMigrations(s) \/ Broken(s)
    PROVE  LifecycleInv'
<1>1. \/ UNCHANGED <<phase, exit>>
      \/ \E p \in Early : /\ phase[s] \in Early /\ phase' = [phase EXCEPT ![s] = p]
                          /\ UNCHANGED exit
      \/ Ends(s, "fatal")
  BY DEF RunMigrations, runUpMigrations, MigrationApplied, runPostMigrations, DropEvent,
     CreateEvent,
     Dropping, Creating, Broken, Enter, Early, startVars
<1>2. UNCHANGED <<req, at, queue, closed, work, handled>>
  BY DEF serveVars
<1>3. ServeType'
  BY <1>1, <1>2 DEF LifecycleInv, ServeType, Ends, Enter, Early
<1>4. \A q \in Requests : (req[q] = "unsent" <=> at[q] = Nobody)'
  BY <1>2 DEF LifecycleInv
<1>5. ASSUME NEW t \in Servers
      PROVE  ServerOK(t)'
  BY <1>1, <1>2 DEF LifecycleInv, ServeType, ServerOK, Cancelled, InFlight, Ends, Enter, Early
<1>6. PromisesKept'
  BY <1>1, <1>2 DEF LifecycleInv, ServeType, PromisesKept, InFlight, Ends, Enter, Early
<1> QED
  BY <1>3, <1>4, <1>5, <1>6 DEF LifecycleInv

\* Serving, being told to stop, draining and closing: only the phase moves, and past
\* "draining" only without a request under way.
LEMMA PhasesKeepPromises ==
    ASSUME LifecycleInv, NEW s \in Servers, 
           StartServing(s) \/ Signal(s) \/ BlockingStop(s) \/ Drained(s) \/ CloseConnection(s)
    PROVE  LifecycleInv'
<1>1. ServeType'
  BY DEF LifecycleInv, ServeType, StartServing, Signal, BlockingStop, Drained, CloseConnection,
     Enter, serveVars
<1>2. \A q \in Requests : (req[q] = "unsent" <=> at[q] = Nobody)'
  BY RequestsAssumption DEF LifecycleInv, ServeType, StartServing, Signal, BlockingStop,
     Drained, CloseConnection, Enter, serveVars
<1>3. ASSUME NEW t \in Servers
      PROVE  ServerOK(t)'
  BY DEF LifecycleInv, ServeType, ServerOK, Cancelled, InFlight, Early, StartServing, Signal,
     BlockingStop, Drained, CloseConnection, Enter, serveVars
<1>4. PromisesKept'
  BY DEF LifecycleInv, ServeType, ServerOK, PromisesKept, Cancelled, InFlight, Early,
     StartServing, Signal, BlockingStop, Drained, CloseConnection, Enter, serveVars
<1> QED
  BY <1>1, <1>2, <1>3, <1>4 DEF LifecycleInv

\* A server that ends loses its queue and its worker; only one that joined ends cleanly.
LEMMA EndsKeepPromises ==
    ASSUME LifecycleInv, NEW s \in Servers, Killed(s) \/ Joined(s) \/ Expire(s)
    PROVE  LifecycleInv'
<1>1. ServeType'
  BY DEF LifecycleInv, ServeType, Killed, Joined, Expire, Crash, Forgotten, Ends, Enter
<1>2. \A q \in Requests : (req[q] = "unsent" <=> at[q] = Nobody)'
  BY RequestsAssumption DEF LifecycleInv, ServeType, Killed, Joined, Expire, Crash, Forgotten,
     Ends, Enter
<1>3. ASSUME NEW t \in Servers
      PROVE  ServerOK(t)'
  BY DEF LifecycleInv, ServeType, ServerOK, Cancelled, InFlight, Early, Killed, Joined, Expire,
     Crash, Forgotten, Ends, Enter
<1>4. PromisesKept'
  BY DEF LifecycleInv, ServeType, ServerOK, PromisesKept, Cancelled, InFlight, Early, Killed,
     Joined, Expire, Crash, Forgotten, Ends, Enter
<1> QED
  BY <1>1, <1>2, <1>3, <1>4 DEF LifecycleInv

\* A worker takes an event: it is no longer queued and under way instead.
LEMMA TakeKeepsPromises ==
    ASSUME LifecycleInv, NEW s \in Servers, Take(s)
    PROVE  LifecycleInv'
<1>1. ServeType'
  BY DEF LifecycleInv, ServeType, Take, viewVars
<1>2. \A q \in Requests : (req[q] = "unsent" <=> at[q] = Nobody)'
  BY RequestsAssumption DEF LifecycleInv, ServeType, Take, viewVars
<1>3. ASSUME NEW t \in Servers
      PROVE  ServerOK(t)'
  BY DEF LifecycleInv, ServeType, ServerOK, Cancelled, InFlight, Early, Take, viewVars
<1>4. PromisesKept'
  <2>1. PICK r \in queue[s] : /\ work' = [work EXCEPT ![s] = r]
                              /\ queue' = [queue EXCEPT ![s] = @ \ {r}]
    BY DEF Take
  <2>2. work[s] = NoRequest /\ UNCHANGED <<phase, exit, req, at, handled>>
    BY DEF Take, viewVars
  <2>3. r \in Requests
    BY <2>1 DEF LifecycleInv, ServeType
  <2>4. ASSUME NEW q \in Requests, at[q] # Nobody,
               q \in queue[at[q]] \/ work[at[q]] = q
        PROVE  (q \in queue[at[q]] \/ work[at[q]] = q)'
    BY <2>1, <2>2, <2>3, <2>4, RequestsAssumption DEF LifecycleInv, ServeType
  <2> QED
    BY <2>2, <2>4 DEF LifecycleInv, PromisesKept, InFlight
<1> QED
  BY <1>1, <1>2, <1>3, <1>4 DEF LifecycleInv

\* A worker handles its event; while the server serves its database is open.
LEMMA HandleKeepsPromises ==
    ASSUME LifecycleInv, NEW s \in Servers, Handle(s)
    PROVE  LifecycleInv'
<1>1. ServeType'
  BY DEF LifecycleInv, ServeType, Handle, DatabaseOpen, viewVars
<1>2. \A q \in Requests : (req[q] = "unsent" <=> at[q] = Nobody)'
  BY RequestsAssumption DEF LifecycleInv, ServeType, Handle, DatabaseOpen, viewVars
<1>3. ASSUME NEW t \in Servers
      PROVE  ServerOK(t)'
  BY DEF LifecycleInv, ServeType, ServerOK, Cancelled, InFlight, Early, Handle, DatabaseOpen,
     viewVars
<1>4. PromisesKept'
  BY DEF LifecycleInv, ServeType, ServerOK, PromisesKept, Cancelled, InFlight, Early, Handle,
     DatabaseOpen, viewVars
<1> QED
  BY <1>1, <1>2, <1>3, <1>4 DEF LifecycleInv

\* The workers, the channel and the cache end only after the signal.
LEMMA GoroutinesKeepPromises ==
    ASSUME LifecycleInv, NEW s \in Servers, WorkerEnds(s) \/ CloseChannel(s) \/ CacheEnds(s)
    PROVE  LifecycleInv'
<1>1. ServeType'
  BY DEF LifecycleInv, ServeType, WorkerEnds, CloseChannel, CacheEnds, viewVars
<1>2. \A q \in Requests : (req[q] = "unsent" <=> at[q] = Nobody)'
  BY RequestsAssumption DEF LifecycleInv, ServeType, WorkerEnds, CloseChannel, CacheEnds,
     viewVars
<1>3. ASSUME NEW t \in Servers
      PROVE  ServerOK(t)'
  BY DEF LifecycleInv, ServeType, ServerOK, Cancelled, InFlight, Early, WorkerEnds,
     CloseChannel, CacheEnds, viewVars
<1>4. PromisesKept'
  BY DEF LifecycleInv, ServeType, ServerOK, PromisesKept, Cancelled, InFlight, Early,
     WorkerEnds, CloseChannel, CacheEnds, viewVars
<1> QED
  BY <1>1, <1>2, <1>3, <1>4 DEF LifecycleInv

\* A request is accepted by a server whose listener is open, before it drains.
LEMMA AcceptKeepsPromises ==
    ASSUME LifecycleInv, NEW r \in Requests, NEW s \in Servers, Accept(r, s)
    PROVE  LifecycleInv'
<1>1. ServeType'
  BY DEF LifecycleInv, ServeType, Accept, Progress, viewVars
<1>2. \A q \in Requests : (req[q] = "unsent" <=> at[q] = Nobody)'
  BY RequestsAssumption DEF LifecycleInv, ServeType, Accept, Progress, viewVars
<1>3. ASSUME NEW t \in Servers
      PROVE  ServerOK(t)'
  BY DEF LifecycleInv, ServeType, ServerOK, Cancelled, InFlight, Early, Accept, Progress,
     viewVars
<1>4. PromisesKept'
  BY DEF LifecycleInv, ServeType, ServerOK, PromisesKept, Cancelled, InFlight, Early, Accept,
     Progress, viewVars
<1> QED
  BY <1>1, <1>2, <1>3, <1>4 DEF LifecycleInv

\* A request writes its row: had the database been closed, it would have been drained.
LEMMA WriteKeepsPromises ==
    ASSUME LifecycleInv, NEW r \in Requests, Write(r)
    PROVE  LifecycleInv'
<1>0. /\ Progress(r, "written") /\ req[r] = "accepted"
      /\ UNCHANGED <<viewVars, at, queue, closed, work, handled>>
  BY DEF Write, LifecycleInv, ServeType, ServerOK, InFlight
<1>1. ServeType'
  BY <1>0 DEF LifecycleInv, ServeType, Progress, viewVars
<1>2. \A q \in Requests : (req[q] = "unsent" <=> at[q] = Nobody)'
  BY <1>0, RequestsAssumption DEF LifecycleInv, ServeType, Progress, viewVars
<1>3. ASSUME NEW t \in Servers
      PROVE  ServerOK(t)'
  BY <1>0 DEF LifecycleInv, ServeType, ServerOK, Cancelled, InFlight, Early, Progress, viewVars
<1>4. PromisesKept'
  BY <1>0 DEF LifecycleInv, ServeType, ServerOK, PromisesKept, Cancelled, InFlight, Early,
     Progress, viewVars
<1> QED
  BY <1>1, <1>2, <1>3, <1>4 DEF LifecycleInv

\* A request pushes its event: the channel of a server that serves is open.
LEMMA PushKeepsPromises ==
    ASSUME LifecycleInv, NEW r \in Requests, Push(r)
    PROVE  LifecycleInv'
<1>1. ServeType'
  BY DEF LifecycleInv, ServeType, Push, Progress, viewVars
<1>2. \A q \in Requests : (req[q] = "unsent" <=> at[q] = Nobody)'
  BY RequestsAssumption DEF LifecycleInv, ServeType, Push, Progress, viewVars
<1>3. ASSUME NEW t \in Servers
      PROVE  ServerOK(t)'
  BY DEF LifecycleInv, ServeType, ServerOK, Cancelled, InFlight, Early, Push, Progress, viewVars
<1>4. PromisesKept'
  BY DEF LifecycleInv, ServeType, ServerOK, PromisesKept, Cancelled, InFlight, Early, Push,
     Progress, viewVars
<1> QED
  BY <1>1, <1>2, <1>3, <1>4 DEF LifecycleInv

\* A request that pushed its event is answered.
LEMMA AnswerKeepsPromises ==
    ASSUME LifecycleInv, NEW r \in Requests, Answer(r)
    PROVE  LifecycleInv'
<1>1. ServeType'
  BY DEF LifecycleInv, ServeType, Answer, Progress, viewVars
<1>2. \A q \in Requests : (req[q] = "unsent" <=> at[q] = Nobody)'
  BY RequestsAssumption DEF LifecycleInv, ServeType, Answer, Progress, viewVars
<1>3. ASSUME NEW t \in Servers
      PROVE  ServerOK(t)'
  BY DEF LifecycleInv, ServeType, ServerOK, Cancelled, InFlight, Early, Answer, Progress,
     viewVars
<1>4. PromisesKept'
  BY DEF LifecycleInv, ServeType, ServerOK, PromisesKept, Cancelled, InFlight, Early, Answer,
     Progress, viewVars
<1> QED
  BY <1>1, <1>2, <1>3, <1>4 DEF LifecycleInv

-----------------------------------------------------------------------------
\* Every step keeps LifecycleInv.  The refresh procedures do not touch the servers.
LEMMA NextKeepsPromises == LifecycleInv /\ [Next]_vars => LifecycleInv'
<1> SUFFICES ASSUME LifecycleInv, [Next]_vars
             PROVE  LifecycleInv'
  OBVIOUS
<1>1. CASE UNCHANGED <<phase, exit, serveVars>>
  BY <1>1 DEF serveVars, LifecycleInv, ServeType, ServerOK, PromisesKept, Cancelled, InFlight
<1>2. ASSUME UNCHANGED serveVars, DatabaseStep
      PROVE  UNCHANGED <<phase, exit, serveVars>>
  BY <1>2 DEF DatabaseStep, Statement, Fire, Change
<1>3. CASE UNCHANGED vars
  BY <1>1, <1>3 DEF vars, viewVars
<1>4. ASSUME NEW s \in Servers, ServerStep(s) \/ Signal(s) \/ Killed(s)
      PROVE  LifecycleInv'
  BY <1>4, PhasesKeepPromises, EndsKeepPromises DEF ServerStep
<1>5. ASSUME NEW s \in Servers,
             Take(s) \/ Handle(s) \/ WorkerEnds(s) \/ CloseChannel(s) \/ CacheEnds(s)
      PROVE  LifecycleInv'
  BY <1>5, TakeKeepsPromises, HandleKeepsPromises, GoroutinesKeepPromises
<1>6. ASSUME NEW r \in Requests, Write(r) \/ Push(r) \/ Answer(r) \/ \E s \in Servers : Accept(r, s)
      PROVE  LifecycleInv'
  BY <1>6, WriteKeepsPromises, PushKeepsPromises, AnswerKeepsPromises, AcceptKeepsPromises
<1> QED
  BY <1>1, <1>2, <1>3, <1>4, <1>5, <1>6, StartKeepsPromises DEF Next

-----------------------------------------------------------------------------
(* The theorems.                                                           *)

\* ViewsInv: a call of refresh_<view>_proc that meets no other one finds, at each of
\* its statements, what its earlier statements left.
THEOREM ViewsInvariant == Spec => []ViewsInv
<1>1. Init => ViewsInv
  BY InitHolds
<1> QED
  BY <1>1, NextKeepsViews, PTL DEF Spec

\* DamagedOnlyByOverlap: whatever calls of its refresh procedure run, fail or are cut short,
\* a view can be read, and without an overlap it shows each row once.
THEOREM ViewsSurvive == Spec => []DamagedOnlyByOverlap
<1>1. ViewsInv => DamagedOnlyByOverlap
  BY DEF ViewsInv
<1> QED
  BY <1>1, ViewsInvariant, PTL

\* LifecycleInv: channels close only after the signal, and BlockingStop reaches the
\* closing of the database without a request under way.
THEOREM LifecycleInvariant == Spec => []LifecycleInv
<1>1. Init => LifecycleInv
  BY InitHolds
<1> QED
  BY <1>1, NextKeepsPromises, PTL DEF Spec

\* PromisesKept: while a server serves, PushEvent meets an open channel and its event is
\* queued, in a worker's hands or handled; a clean stop has answered every request.
THEOREM KeepsPromises == Spec => []PromisesKept
<1>1. LifecycleInv => PromisesKept
  BY DEF LifecycleInv
<1> QED
  BY <1>1, LifecycleInvariant, PTL
=============================================================================
