-------------------------------- MODULE Views --------------------------------
(***************************************************************************)
(* The materialised views and the start of a server on the database:       *)
(* RunMigrations of internal/database/mariadb/migration.go and the refresh *)
(* procedures of internal/database/mariadb/migrations.                     *)
(*                                                                         *)
(* A server that starts runs the up migrations under the lock of           *)
(* golang-migrate, launches the registered refresh procedures in the       *)
(* background, turns the scheduler on, and drops and creates the event of  *)
(* every view.  An event calls the procedure of its view at once and then  *)
(* periodically.  Nothing keeps two calls of one procedure apart, and the  *)
(* tables they build have fixed names.                                     *)
(*                                                                         *)
(* There are two kinds of procedure.  One builds <view>_tmp, renames it    *)
(* over the view and drops <view>_old; the other clears is_active in every *)
(* row, writes the rows it counts with is_active set, and (some of them)   *)
(* deletes the rows left inactive.  No reader looks at is_active.          *)
(*                                                                         *)
(* A procedure touches the tables of its own view only.  A behaviour       *)
(* therefore follows one view, or none of them and the servers' clients.   *)
(*                                                                         *)
(* Each statement commits by itself, so a statement is a step.  A table's  *)
(* content is the sequence of the versions of the data that were inserted  *)
(* into it: <<3>> is a correct count, << >> an empty table, <<2, 3>> one   *)
(* with every row twice.                                                   *)
(***************************************************************************)
EXTENDS Integers, Sequences, FiniteSets, Functions

CONSTANTS
    Servers,      \* server processes; a restarted one is another process
    Scheduler,    \* the event scheduler of the database
    EventOrder,   \* the views in the order registerEvents lists their events
    Flagged,      \* the views refreshed in place with is_active
    NeverPruned,  \* those of them whose procedure deletes no inactive row
    Gone,         \* the versions of the data in which the counted row vanished
    Registered,   \* the rows of post_migration_procedure_registry
    Background,   \* bound: the servers whose calls of it are followed
    NoView,       \* no view: the behaviour follows the servers' clients
    MaxData,      \* bound: how often the tables change
    MaxCrashes,   \* bound: how many servers are killed
    Missing,      \* no such table
    Nobody        \* the holder of a lock that is free

Views == Range(EventOrder)

Callers == Background \cup {Scheduler}

ASSUME ViewsAssumption ==
    /\ Background \subseteq Servers
    /\ Scheduler \notin Servers /\ NoView \notin Views
    /\ NeverPruned \subseteq Flagged /\ Flagged \subseteq Views
    /\ Registered \subseteq Views
    /\ MaxData \in Nat /\ MaxCrashes \in Nat

ASSUME MissingAssumption == Missing \notin Seq(Nat)

VARIABLES
    followed,   \* the view this behaviour follows, or NoView
    data,       \* the version of the tables the views are computed from
    view,       \* the content of the followed view
    active,     \* whether its rows have is_active set
    tmp,        \* the content of <view>_tmp, or Missing
    old,        \* the content of <view>_old, or Missing
    call,       \* call[c]: the next statement of the call made by c
    counted,    \* history: the version the last call counted in place, or 0
    overlapped, \* history: two calls were under way at once
    schema,     \* "old", "dirty" (a migration under way or broken), "current"
    lock,       \* the server that holds the migration lock
    scheduler,  \* SET GLOBAL event_scheduler = ON was run
    events,     \* the views whose event exists
    phase,      \* phase[s]: where server s is between launch and end
    statement,  \* statement[s]: the next statement of registerEvents
    exit,       \* exit[s]: how it ended
    crashes     \* how many servers were killed so far

tableVars == <<view, active, tmp, old, call, counted, overlapped>>
startVars == <<schema, lock, scheduler, events, statement>>
viewVars  == <<followed, data, tableVars, startVars, phase, exit, crashes>>

-----------------------------------------------------------------------------
ViewsInit ==
    /\ followed \in Views \cup {NoView}
    /\ data = 1
    /\ view = <<1>>
    /\ active = TRUE
    /\ tmp = Missing
    /\ old = Missing
    /\ call = [c \in Callers |-> "idle"]
    /\ counted = 0
    /\ overlapped = FALSE
    /\ schema = "old"
    /\ lock = Nobody
    /\ scheduler = FALSE
    /\ events = {}
    /\ phase = [s \in Servers |-> "new"]
    /\ statement = [s \in Servers |-> 1]
    /\ exit = [s \in Servers |-> "none"]
    /\ crashes = 0

-----------------------------------------------------------------------------
(* The refresh procedures.                                                 *)

FirstStatement == IF followed \in Flagged THEN "deactivate" ELSE "dropTmp"

Continue(c, next) == call' = [call EXCEPT ![c] = next]

\* CALL refresh_<view>_proc().
Call(c) ==
    /\ call[c] = "idle"
    /\ Continue(c, FirstStatement)
    /\ overlapped' = (overlapped \/ \E d \in Callers : call[d] # "idle")

\* An error ends the procedure: it declares no handler.
Fails(c) ==
    /\ Continue(c, "idle")
    /\ UNCHANGED <<view, active, tmp, old, counted, overlapped>>

\* Mutant: a table left over by a call that failed stays.
DropTmpKept(c) ==
    /\ call[c] = "dropTmp"
    /\ Continue(c, "dropOld")
    /\ UNCHANGED <<view, active, tmp, old, counted, overlapped>>

DropTmp(c) ==
    /\ call[c] = "dropTmp"
    /\ tmp' = Missing
    /\ Continue(c, "dropOld")
    /\ UNCHANGED <<view, active, old, counted, overlapped>>

DropOld(c) ==
    /\ call[c] \in {"dropOld", "dropRenamed"}
    /\ old' = Missing
    /\ Continue(c, IF call[c] = "dropOld" THEN "createTmp" ELSE "idle")
    /\ UNCHANGED <<view, active, tmp, counted, overlapped>>

CreateTmp(c) ==
    /\ call[c] = "createTmp"
    /\ \/ /\ tmp = Missing
          /\ tmp' = << >>
          /\ Continue(c, "insert")
          /\ UNCHANGED <<view, active, old, counted, overlapped>>
       \/ /\ tmp # Missing
          /\ Fails(c)

\* INSERT INTO <view>_tmp SELECT ...; mvServiceIssueCounts has no key, so a
\* second insert into one table adds every row again.
InsertTmp(c) ==
    /\ call[c] = "insert"
    /\ \/ /\ tmp # Missing
          /\ tmp' = Append(tmp, data)
          /\ Continue(c, "rename")
          /\ UNCHANGED <<view, active, old, counted, overlapped>>
       \/ /\ tmp = Missing
          /\ Fails(c)

\* Mutant: the two renames are two statements.
RenameTmpTwice(c) ==
    /\ call[c] = "rename"
    /\ \/ /\ view # Missing
          /\ old' = view /\ view' = Missing
          /\ UNCHANGED <<tmp, call>>
       \/ /\ view = Missing
          /\ view' = tmp /\ tmp' = Missing
          /\ Continue(c, "dropRenamed")
          /\ UNCHANGED old
    /\ UNCHANGED <<active, counted, overlapped>>

\* RENAME TABLE <view> TO <view>_old, <view>_tmp TO <view>: all or nothing.
RenameTmp(c) ==
    /\ call[c] = "rename"
    /\ \/ /\ tmp # Missing /\ old = Missing
          /\ view' = tmp
          /\ old' = view
          /\ tmp' = Missing
          /\ Continue(c, "dropRenamed")
          /\ UNCHANGED <<active, counted, overlapped>>
       \/ /\ tmp = Missing \/ old # Missing
          /\ Fails(c)

\* UPDATE <view> SET is_active = 0.
Deactivate(c) ==
    /\ call[c] = "deactivate"
    /\ active' = FALSE
    /\ Continue(c, "upsert")
    /\ UNCHANGED <<view, tmp, old, counted, overlapped>>

\* INSERT ... ON DUPLICATE KEY UPDATE ..., is_active = 1.
Upsert(c) ==
    /\ call[c] = "upsert"
    /\ counted' = data
    /\ IF data \in Gone
         THEN UNCHANGED <<view, active>>
         ELSE view' = <<data>> /\ active' = TRUE
    /\ Continue(c, IF followed \in NeverPruned THEN "idle" ELSE "prune")
    /\ UNCHANGED <<tmp, old, overlapped>>

\* DELETE FROM <view> WHERE is_active = 0.
Prune(c) ==
    /\ call[c] = "prune"
    /\ view' = IF active THEN view ELSE << >>
    /\ Continue(c, "idle")
    /\ UNCHANGED <<active, tmp, old, counted, overlapped>>

Statement(c) ==
    /\ \/ DropTmp(c) \/ DropOld(c) \/ CreateTmp(c) \/ InsertTmp(c) \/ RenameTmp(c)
       \/ Deactivate(c) \/ Upsert(c) \/ Prune(c)
    /\ UNCHANGED <<followed, data, startVars, phase, exit, crashes>>

\* The event of the view fires: when it is created, and then every period.
Fire ==
    /\ scheduler /\ followed \in events
    /\ Call(Scheduler)
    /\ UNCHANGED <<followed, data, view, active, tmp, old, counted, startVars, phase, exit,
                   crashes>>

\* Someone writes to the tables the view is computed from.
Change ==
    /\ followed \in Views /\ data < MaxData
    /\ data' = data + 1
    /\ UNCHANGED <<followed, tableVars, startVars, phase, exit, crashes>>

\* The connection of a server that is gone breaks between two statements.
Broken(s) ==
    /\ s \in Background /\ phase[s] = "gone" /\ call[s] # "idle"
    /\ Continue(s, "idle")
    /\ counted' = 0
    /\ UNCHANGED <<followed, data, view, active, tmp, old, overlapped, startVars, phase, exit,
                   crashes>>

-----------------------------------------------------------------------------
(* RunMigrations.                                                          *)

Enter(s, p) == phase' = [phase EXCEPT ![s] = p]

\* logrus.Fatalln, log.Fatal or a kill: the process is gone.
Ends(s, how) ==
    /\ Enter(s, "gone")
    /\ exit' = [exit EXCEPT ![s] = how]

\* migrate.Up: takes the lock and marks the version dirty, or finds no change; it
\* fails when the version is dirty or the lock is not to be had in time.
runUpMigrations(s) ==
    /\ phase[s] = "new"
    /\ \/ /\ lock = Nobody /\ schema = "old"
          /\ schema' = "dirty" /\ lock' = s
          /\ Enter(s, "migrating")
          /\ UNCHANGED exit
       \/ /\ lock = Nobody /\ schema = "current"
          /\ Enter(s, "procedures")
          /\ UNCHANGED <<schema, lock, exit>>
       \/ /\ lock # Nobody \/ schema = "dirty"
          /\ Ends(s, "fatal")
          /\ UNCHANGED <<schema, lock>>
    /\ UNCHANGED <<followed, data, tableVars, scheduler, events, statement, crashes>>

MigrationApplied(s) ==
    /\ phase[s] = "migrating"
    /\ schema' = "current" /\ lock' = Nobody
    /\ Enter(s, "procedures")
    /\ UNCHANGED <<followed, data, tableVars, scheduler, events, statement, exit, crashes>>

\* The procedures run in the background; only a log line tells of their errors.
\* enableScheduler follows: no event of this server exists yet.
runPostMigrations(s) ==
    /\ phase[s] = "procedures"
    /\ IF s \in Background /\ followed \in Registered THEN Call(s) ELSE UNCHANGED <<call, overlapped>>
    /\ scheduler' = TRUE
    /\ Enter(s, "events")
    /\ UNCHANGED <<followed, data, view, active, tmp, old, counted, schema, lock, events,
                   statement, exit, crashes>>

\* The statements of registerEvents: DROP and CREATE of each event in turn.
EventOf(s) == EventOrder[(statement[s] + 1) \div 2]

Dropping(s) == phase[s] = "events" /\ statement[s] % 2 = 1

Creating(s) == phase[s] = "events" /\ statement[s] % 2 = 0

\* Mutant: DROP EVENT without IF EXISTS.
DropExistingEvent(s) ==
    /\ Dropping(s)
    /\ events' = events \ {EventOf(s)}
    /\ IF EventOf(s) \in events
         THEN statement' = [statement EXCEPT ![s] = @ + 1] /\ UNCHANGED <<phase, exit>>
         ELSE Ends(s, "fatal") /\ UNCHANGED statement
    /\ UNCHANGED <<followed, data, tableVars, schema, lock, scheduler, crashes>>

DropEvent(s) ==
    /\ Dropping(s)
    /\ events' = events \ {EventOf(s)}
    /\ statement' = [statement EXCEPT ![s] = @ + 1]
    /\ UNCHANGED <<followed, data, tableVars, schema, lock, scheduler, phase, exit, crashes>>

\* CREATE EVENT fails when the event exists: the server ends in Fatalln.
CreateEvent(s) ==
    /\ Creating(s)
    /\ \/ /\ EventOf(s) \notin events
          /\ events' = events \cup {EventOf(s)}
          /\ IF statement[s] = 2 * Len(EventOrder)
               THEN Enter(s, "booting") /\ UNCHANGED statement
               ELSE statement' = [statement EXCEPT ![s] = @ + 1] /\ UNCHANGED phase
          /\ UNCHANGED exit
       \/ /\ EventOf(s) \in events
          /\ Ends(s, "fatal")
          /\ UNCHANGED <<events, statement>>
    /\ UNCHANGED <<followed, data, tableVars, schema, lock, scheduler, crashes>>

RunMigrations(s) ==
    \/ runUpMigrations(s) \/ MigrationApplied(s) \/ runPostMigrations(s)
    \/ DropEvent(s) \/ CreateEvent(s)

\* The process is killed; its session and with it the lock are released.
Crash(s) ==
    /\ phase[s] \notin {"new", "gone"} /\ crashes < MaxCrashes
    /\ crashes' = crashes + 1
    /\ Ends(s, "crash")
    /\ lock' = IF lock = s THEN Nobody ELSE lock
    /\ UNCHANGED <<followed, data, tableVars, schema, scheduler, events, statement>>

-----------------------------------------------------------------------------
(* Properties.                                                             *)

\* Whatever calls of its procedure run, are cut short or fail, a view can be
\* read, and unless two calls overlapped it never shows a row twice, or nothing
\* at all, and a row whose count vanished leaves it with the refresh that no
\* longer counts it.  (Calls do overlap at every start: the event is created
\* while the call in the background runs.)
DamagedOnlyByOverlap ==
    /\ view # Missing
    /\ ~overlapped =>
        IF followed \in Flagged
          THEN followed \notin NeverPruned /\ data \in Gone /\ counted = data
                 /\ (\A c \in Callers : call[c] = "idle") => view = << >>
          ELSE Len(view) = 1

-----------------------------------------------------------------------------
(* The inductive invariant behind DamagedOnlyByOverlap.                    *)

Statements ==
    IF followed \in Flagged THEN {"deactivate", "upsert", "prune"}
    ELSE {"dropTmp", "dropOld", "createTmp", "insert", "rename", "dropRenamed"}

ViewsType ==
    /\ data \in Nat \ {0} /\ counted \in 0 .. data
    /\ view \in Seq(Nat) /\ tmp \in Seq(Nat) \cup {Missing}
    /\ active \in BOOLEAN /\ overlapped \in BOOLEAN
    /\ call \in [Callers -> Statements \cup {"idle"}]

\* A call that meets no other one finds what its earlier statements left.
AloneOK(c) ==
    /\ \A d \in Callers : call[c] # "idle" /\ call[d] # "idle" => c = d
    /\ call[c] = "insert" => tmp = << >>
    /\ call[c] = "rename" => tmp # Missing /\ Len(tmp) = 1
    /\ call[c] = "upsert" => ~active
    /\ call[c] = "prune" /\ data \in Gone /\ counted = data => ~active

ViewsInv ==
    /\ ViewsType
    /\ ~overlapped => \A c \in Callers : AloneOK(c)
    /\ DamagedOnlyByOverlap

=============================================================================
