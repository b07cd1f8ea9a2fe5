# Heureka: a TLA+ verification project

Heureka is a security posture management backend: a GraphQL server over a
MariaDB database that tracks services, the component instances deployed for
them, the issues known for component versions, and the matches, remediations and
patches that follow.  External scanners report what is deployed and which
vulnerabilities exist.  This project models the parts of it in which goroutines,
processes, queries and failures interleave, model-checks them with TLC and proves
central safety properties with TLAPS.

## The system

| component | state | operations | hard behaviour | what makes it correct |
|---|---|---|---|---|
| event registry (`internal/app/event`) | channel, handler table, mutex, workers | RegisterEventHandler, PushEvent, Run, worker, processEvent | the channel is replaced while it is read without the lock; shutdown closes it under the senders | every event handled once by every handler, no channel abandoned, shutdown ends |
| scanner runs, component instances, Autopatch, patches (`internal/database/mariadb/autopatch.go`, `scanner_run.go`, `internal/app/scanner_run`, `component_instance`) | runs, tracker rows, instances, versions, components, issue links, matches, patches | create, complete and fail a run, report an instance, Autopatch | a dozen queries without a transaction; scanners, workers and other completions in between; any of them fails; completions are repeated | only what was really absent is deleted, one patch per disappearance where calls do not overlap, catalogue without dangling rows |
| cache (`internal/cache`) | entries, singleflight group, semaphore, rate limiter | CallCached, background refresh, invalidation, expiry | refreshes race with writes, misses and removals; two limits | reads never go back, limits respected, stale entries refreshed |
| catalogue handlers, mutations (`internal/app/*`, `graph/resolver/mutation.go`) | tables, link tables, foreign keys | create, update, delete, link, unlink for every entity | check then insert, soft deletes, events carry stale input | one live row per name, default repository linked |
| authorisation (`internal/openfga`) | relation tuples | event handlers that add, update and remove relations; accessible ids | events handled in any order, lost or failing half-way | tuples follow the tables, lists show only what is one's own |
| database layer, resolvers (`internal/database/mariadb/db_object.go`, `graph/baseResolver`) | none of their own | statement building, joins, scopes, counts | hundreds of combinations of arguments | every column has its table, the statements of one answer agree |
| cursors and pages (`cursor.go`, `internal/app/common/pagination_helpers.go`) | none | cursors, orders, page information | rows come and go between pages; ties | a walk shows every row once, in order |
| issue matching, variants, severity (`internal/app/issue_match`, `issue`, `shared`, `severity`) | issue matches | two event handlers, CreateIssueMatch | two workers, check then insert, loops that stop early, dependence on row order | what a new instance or an attachment exposes is matched, with the severity of a variant that no other exceeds |
| remediations (`internal/app/remediation`) | remediations, cached lists | create, update, delete | check then insert; invalidation while a query is in flight; update from a stale row | later ones extend earlier ones, accepted risks have a URL, a create that removed its keys is visible |
| migrations, materialised views (`migration.go`, `migrations/`) | views, scheduler events, migration lock | migrate, start procedures, register events, refresh | several servers and the scheduler run the same procedures; a process dies in between | views can be read and are repaired, the servers' events stay |
| server lifecycle (`internal/server`, `internal/app/heureka.go`, `pkg/util/server.go`) | phase, wait group, requests in flight | start, serve, signal, stop | one deadline of two seconds for everything; workers end before the listener | a stop ends and has answered what it accepted |
| k8s scanner (`scanner/k8s-assets`) | goroutines, slot and result channels, context | scan of namespaces, reports, completion of the run | timeout while goroutines wait; two goroutines create the same name | the run is completed only when all was accounted for |
| Keppel and NVD scanners (`scanner/keppel`, `scanner/nvd`), SIEM alerts (`mutation_helpers.go`) | worker queue; none | lookup or create, request by request | lost races, failed requests, lost answers | nothing is entered half, later runs make up for it |
| GraphQL API | none | resolvers, node fields | a node handed down under a wrong name | a nested list is restricted to its node |
| authentication, batch loading, profiler, logging, utilities, mock OIDC | none | — | — | — |

Interaction: resolvers call handlers; handlers read through the cache, write to
the database and push an event; the registry's workers run the handlers of other
components (matching, authorisation) on it, concurrently with new requests.
Scanners are separate processes that use the GraphQL API.  Completing a scanner
run calls Autopatch inside the request.  Servers share one database, whose
scheduler refreshes the views.

`PROJECT.json` lists the hazards with their lines, and the properties on them.

## Modules

| module | models | how state and actions correspond to the code |
|---|---|---|
| `EventRegistry` | `event_registry.go` | `cur`, `buf`, `closed` are `er.ch` and the channels it was; `push`, `work`, `fwd` are program counters of PushEvent, the workers and the forwarders, with the channel operand each has evaluated. `er.ch` is read in a step of its own wherever the code reads it without the lock |
| `EventDelivery` | — | abstract specification: an event is accepted or rejected, taken up once, finished once; `EventRegistry` implements it through `StatusOf` |
| `Autopatch` | `autopatch.go`, `scanner_run.go` and the handlers that feed them | one action per query, also inside the loops over instances, matches, versions and components; `req[a]` holds the local variables of a call; one variable per table. `everCompleted`, `overlapped` (two calls were in progress at once), `inTime`, `matched`, `created` and `vanished` are history |
| `Cache` | `cache.go`, `cache_base.go`, `in_memory_cache.go` | `entry`, `flying`, `slots`, `tokens` are the store, the singleflight group, the semaphore and the limiter. Database contents are version numbers, so that newer is larger |
| `K8sScan` | `scanner/k8s-assets/main.go` | `ns` and `main` are program counters; `lost` records errors the code only logs |
| `Catalogue` | the handlers of `internal/app`, their event handlers, `openfga/authz.go` | rows, unique columns and `links` (link tables and foreign keys alike); `tuples` is the OpenFGA store. A request is one step and leaves an event in `tasks`; an event handler is a sequence of store calls, each a step, with one removal reading all its filters in one; a read may be cut after its first page (`CutRead`) |
| `Mutations` | `mutation.go` over `Catalogue` | each mutation with all the inputs it takes; composes the requests, the workers, failures and restarts |
| `Queries` | base resolvers, list handlers, `db_object.go` and the join definitions of every entity | a request becomes a filter, the filter becomes up to three statements; a statement is its joins in order, the aliases it mentions and the filter |
| `Listing` | `cursor.go`, `order.go`, `pagination_helpers.go` and the cursor of every object | a client's walk: each page is two reads, with writes in between |
| `IssueMatching` | both matching handlers, `issueVariant.go`, `severity_handler.go` | `task[w]` holds the handler a worker runs, statement by statement. `halted`, `moved` and `late` are history: loops that were cut short, and what an update of an instance or a later variant exposed without any handler |
| `Reporting` | the processors of the three scanners and CreateSIEMAlert | `at[p]` is the next request of a client; what a request does to the tables is `DoList`, `DoInsert`, `DoUpdate`, `DoRelate`; requests fail, answers get lost, clients crash |
| `Views` | `migration.go` and the refresh procedures in `migrations/` | one statement per step; a table's content is the sequence of data versions inserted into it |
| `Lifecycle` | `server.go`, `heureka.go`, `pkg/util/server.go` over `Views` | `phase[s]` is where a server's main goroutine is; requests, queue and workers beside it |
| `Remediations` | the remediation resolvers, handler and object | a create is three steps (check, insert, invalidate), an update reads and writes; `entry`/`loading` are the cached lists: `IssueLists`, whose keys a create removes, and `OtherLists`, among them those of `ListRemediations`, whose keys it does not. Removing keys may fail half-way (`RemoveSomeKeys`) |
| `*Proofs` | — | theorems on the module in their name; `ScannerProofs` is about `K8sScan` and `Reporting`, `ListingAndMatchingProofs` about `Listing` and `IssueMatching` |
| `MC*` | — | instances for TLC |

`Mutant` operators stand next to the definitions they vary; the specifications
do not use them.

The registry that carries the events is modelled once, in detail.  `Catalogue`,
`IssueMatching` and `Lifecycle` use what it promises: an event is handled once,
in any order, or is lost with its process.

## Runs

| run | instance | shows |
|---|---|---|
| `event_registry` | 3 events of two names, one with two handlers, 2 workers, capacity 1, 2 replacements, shutdown at any time | nothing dropped, `EventDelivery` implemented (no event taken up twice, none after it was rejected); accepted events are handled unless all workers are stranded; shutdown ends |
| `autopatch` | 2 versions, 2 runs, 2 requests that complete them; disturbed: one instance that is upgraded in place or two that are not, and one while calls overlap; alone: 3 instances, one call at a time | only confirmed absences are deleted, no patch twice before calls overlap; alone: exactly one patch per disappearance, matches of live instances kept, catalogue consistent |
| `cache` | 1 key, 2 callers, 2 refreshes, 2 writes, with and without each limit | reads of a key are monotonic; limit respected, only refreshes above it discarded, stale entries refreshed |
| `k8s_scan` | 3 namespaces, 3 groups, 2 slot producers, failures, timeout | a completed run accounts for everything; without a timeout the scan ends |
| `mutations` | a seeded catalogue of every entity, any two mutations, one failure, cut read or restart, pages of one row, cache on or off | the OpenFGA store settles on what the database says and never invents a grant; lists show only one's own |
| `queries` | every combination of entity, arguments, order, options and parent | tables joined before they are mentioned, once; page and counts range over the same rows; nested lists are those of their node, unless the client names other instances |
| `listing` | 4 rows, two values that repeat, pages of 1 and 2, one write, every list and order of the API | only rows of the filter, order, no repetition, no omission, honest end |
| `issue_matching` | 2 instances, 2 issues of which one may have no variant, 2 workers, 3 requests (instances, their updates, attachments, variants, matches), one failure or restart | duplicates only by overtaking, a variant that no other exceeds decides, what a creation or an attachment exposes is matched in the end unless a loop was cut short |
| `issue_matching_skipped` | the same without failures | *violated*: a match that exists ends the loop over the other issues |
| `reporting` | nine scenes of two or three clients over an empty or a filled database, with up to one fault | variants follow issues, instances owned and linked, alerts recorded, later runs repair |
| `lifecycle` | 2 servers, 3 views of different kinds, 2 changes of the data, one kill, one request | views damaged only by overlapping calls and repaired, vanished rows leave, one server serves, serving and cleanly stopped servers keep their word |
| `remediations` | 3 mutations, 2 at a time, 2 components; either dates that pass, or one list that creates remove and one that they do not, with errors of the cache | extension of active remediations, URL of accepted risks, visibility in the lists of the issue |

The runs check what could go wrong between steps.  Types are not among it: `TypeOK` is part of
every inductive invariant that needs types, and in five modules a theorem (`TypeCorrect`).
`NoDuplicate`, `EveryOldChannelDrained` and `UnnamedColumnsKept` are proved too, and no run
repeats them.

Deadlock checking is off where the system may really stop: the registry and the
workers of `issue_matching` when idle, the scanner that exits, servers that
ended.

### Bounds, and why they are enough

*Registry.*  Two workers and two replacements are what the interesting races
need: one worker is stranded while the other goes on, and a forwarding goroutine
sends to a channel that is itself replaced.  Capacity 1 makes every second push
overflow.  The minimum of 1024 for a replaced channel is the constant `MinCap`.

*Autopatch* looks at two runs; two instances of one version give one that
disappears and one that stays, a third has a version of its own.  `MaxUpgrades`
keeps the counters finite, `PageLimit` stands for the 1000 rows of a listing
without a page size.  Behaviours with `alone` have neither upgrades, query errors
nor reports during a call: a patch per disappearance cannot be expected while
instances come and go underneath.  The others have no such properties stated but
`AbsenceConfirmed` and `NoDuplicatePatch`.  `MCSpec` of `MCAutopatch` follows all of
`Next` as far as `Followed` says: an overlap needs one instance, which both calls find
gone, an upgrade one, a disappearance next to a live instance two, and the catalogue's
consistency three, with two of them on one version.

*Cache.*  The database changes twice, so that a value can be older than the one
before it; two callers and two refreshes can be in one flight or in two that
follow each other.  `Init` chooses which limits are configured.

*K8sScan.*  Three namespaces for two producers is the least number with one left
waiting.

*Mutations.*  Two requests are the least that overlap, and every pair of
mutations occurs: a link and its removal, an update and a deletion of its parent.
The store's page of 50 tuples and the database's of 1000 rows are one row here, so that
every read that finds two can be cut.  The seed has one row of every entity and every link, so that removals and
updates have something to work on, and a free identity for creations.

*Queries* are finite as they are: only fields that need another table than the
entity's own are in a filter.  `Gaps` is empty in the run: combinations for which
the code has no table at all are described under Disagreements.

*Listing.*  A tie of two, a row before it and one after it, and a page that
ends inside the tie.

*IssueMatching.*  An instance, an attachment and a second attachment, a client's
match, an update to the other version or a change of variants are three requests.  Variants disagree across priorities in one
issue and within a priority in the other, or there are none.

*Reporting.*  Races are between two clients for one name; the scenes are the pairs
that share names (pods with a common side car, overlapping runs over one group, a rolling
update, Keppel's workers with one another and with the NVD scanner or an alert,
two alerts), with a fault in those where a retry has to make up for it.

*Lifecycle.*  A behaviour follows one view of each kind, or none and the clients;
one change while a call runs and one after it tell a late result from a lost
one.

*Remediations.*  A check that overlooks a row needs a second request between
check and insert; the third is an update, or a deletion.  For a list it only matters
that something is written, so lists are followed with two inputs and no date.

### Fairness

Weak fairness of goroutines and processes that can run: Go's scheduler is
preemptive and neither its channels nor its mutexes starve a waiter.  Handlers,
queries and calls of other services return, possibly with an error.  Nothing is assumed of
requests, cancellation, signals, kills, writes, expiry, failures or timeouts, with these
exceptions, each part of the property or the specification it serves:

* `cache`: requests for the key keep coming (without them no refresh would be
  launched at all), and `EventuallyFresh` supposes that queries do not fail for ever.
* `reporting`: scanners are run again and again, as CronJobs are; alerts and the NVD
  scanner's two days need not come again.
* `lifecycle`: the scheduler's timer fires and the database executes what it called; the
  goroutines beside the main one may hang for ever (`StopEnds` rests on the deadline).

## Proofs

The theorems hold for every value of the constants that satisfies the `ASSUME`s of
the component's module, bounds included, which may be arbitrarily large.

* **EventRegistryProofs.**  `IInv` joins the types, `NoDuplicate`,
  `EveryOldChannelDrained` and the agreement between what a goroutine holds and
  where it is.  `NoDuplicate` is not inductive alone: that a forwarder's event is in
  no buffer rests on its control state, and that a send reaches a drained channel on
  the mutex.  From it follow `NeverDuplicated`, `NoChannelAbandoned`, `TypeCorrect`
  and `Refinement` (every step is a step of `EventDelivery` or leaves the status of
  all events alone).  `CompletelyHandled` needs `Handling` beside it: events are pushed only
  after the boot, when the list of handlers no longer grows (`PushedAfterBoot`); the list
  holds each subscription once, in order (`HandlersListed`); and what a worker has run and
  what it has still to run make up the list (`RanSoFar`).
* **AutopatchProofs.**  `AutopatchInv` adds to `AbsenceConfirmed` that whatever
  a call holds, at the place it has reached, is right for ever: its pairs of runs
  were completed and are of one tag, the list of the newer run contains all that
  was tracked in time, and all it takes for gone is confirmed.  A confirmed
  absence is stable because trackers and completions only grow and because `inTime`
  gains no row of a run that was completed.  `DeletedOnlyIfAbsent` then holds for any
  number of concurrent completions, with failures anywhere.

  What the calls achieve is stated, and proved, until two calls are in progress at once
  (`~overlapped`).  Nothing in the code ensures that; it is what separates the behaviours in
  which the property holds from those in which it does not: two overlapping completions both
  collect a patch before either deletes, and insert it twice.  `SerialInv` says that until
  then at most one call has left its idle place.  Scanners, workers and errors still fall between
  the queries.  `PatchInv` makes `NoDuplicatePatch` inductive: a collected patch whose
  version has vanished meanwhile is still missing.  In the behaviours that are `alone`,
  `OwedInv` turns this into an equation (what vanished is what was patched plus what the call
  still holds), from which `PatchedAlways` follows, and `CleanupInv` says of every match,
  version and component that is not consistent yet that the call has it still ahead.
  `CatalogCleaned` also assumes `[]FitsPage`, that a call finds at most `PageLimit` (1000)
  instances gone: beyond that the query of their versions is cut off and versions stay.
  `PatchInv` and, alone, `OwedInv` and `CleanupInv` were model-checked on `MCAutopatch` before.
* **CacheProofs.**  `CacheInv`: one leader per key; what is stored lies between
  what was served and what is in the database; the value in a caller's hand lies between
  its floor and what is stored.  The flight is what makes it inductive: while a
  leader is between its query and its store nobody else stores.
  `ReadsAreMonotonic` follows, for any limits.  `SlotsOK` is inductive on top of the types: at least
  as many slots are taken as refreshes run, and exactly as many without a rate limiter.
  `RefreshesBounded` and `NoneDiscardedBelowLimit` follow for any number of
  refreshes; they rest on the finiteness of the set of refreshes and on facts about
  cardinalities.
* **ScannerProofs.**  `ScanInv` follows the groups of a namespace from its
  listing to the end of its goroutine, and a failed namespace from its result in
  the channel to `success`; the channel is closed only when all are done.
  `CompletedRunsAccountForAll` follows: `main` completes the run only if no listing
  failed and no group was forgotten.

  `ReportingInv` says of a client of `Reporting`, at the place of its next request,
  what its earlier requests have established: the ids it holds are those of the names it
  looked for, the service it enters containers under is linked to its support group, the
  containers it is through with run an image of theirs, the issue it creates a variant for
  is that of the variant's name, and Keppel has its repository while a worker is under way.
  Nobody takes any of this back: rows and links only come (`Grows`), and an update of an instance keeps
  its name and gives it an image of that name.  `VariantFollowsIssue` is not inductive
  without it: that a variant whose name is taken belongs to the same issue rests on
  `TablesOK` (a name is that of one issue, a variant belongs to the issue of its name), and
  that the request is not refused on the repository.  A client's calls are taken apart by
  what they do (`LookedUp`, `Inserted`, `Updated`, `Related`), each answered, failed or
  with its answer lost.  `IssuesGetVariants`, `ContainersAreEntered` and `AlertsAreRecorded`
  follow, for any number of goroutines, workers, alerts and faults.  Assumed are
  `ProcessesApart`; `AlertsApart`, that the instances of alerts and of pods have different
  names (the scanner's begin with `ccrn:`, `scanner/k8s-assets/processor/processor.go:82`, an
  alert's are its parts joined by slashes, `mutation_helpers.go:99`); and `ScenesAssumption`,
  that there are no instances, issues or variants before the first run.  `ReportingInv` was
  model-checked on `MCReporting` before.
* **RemediationsProofs.**  `RemediationInv` says of a request at each of its
  places what its checks have established and nothing takes back: a request about to
  insert extends every row it looked at, whatever was deleted or edited since; one about
  to update has a URL if it makes the row an accepted risk; the lists, cached or
  being read by the issue's id, are not older than what was promised by a create that removed
  its keys unless they were overtaken.
  `ExtendsTheEarlier`, `AcceptedRisksHaveURL` and `CreatesVisible` follow, and
  `KeepsUnnamedColumns` for the steps, for any number of requests.
* **ListingAndMatchingProofs.**  Of a walk: the cursor conditions define a strict order on the rows, total
  where the columns tell rows apart (`Transitive`, `TotalLemma`).  `WalkInv`: the cursor is that
  of the last row shown, and behind a page there are rows left only if it is full
  and ends before them.  `PagesAreConsecutive` and `PagesMatchFilter` follow, and
  `EndIsHonest` by counting: the rows from the first of the last page on are so few
  that a full page holds them all.  Sort keys are assumed to be integers
  (`KeysAssumption`).
  Of matching: `LooksInv` says that a worker about to insert found no match of its
  own among the rows it looked at, and that these are still the first rows of the table;
  `DuplicatesAreUnseen` follows, for any workers, requests and faults.  `VariantsInv`: every entry of
  a worker's map and every match has the score of a row of its issue, and of the row that no
  other exceeds if there is one.  The loop that chooses the row is a recursive
  function; that it is defined, and what it returns, is shown by least counterexample
  (`KeepsExists`, `KeptDecides`, from `WFMin`), as an induction theorem with an operator
  parameter cannot be used.  `BestVariantWins` follows, however variants change meanwhile, for catalogues that satisfy
  `VariantsFit`: `ListEffectiveIssueVariants` reads a page of ten
  (`pagination_helpers.go:12`), the handlers read on, so with more variants than that a
  handler's match may be more severe than `GetSeverity`.  The limit of a statement without
  a page (1000 rows, `db_object.go:630`) is not in the model: the handlers read all variants.
* **LifecycleProofs.**  `ViewsInv`: as long as no two calls of a refresh procedure were under
  way at once, a call finds at each statement what its own earlier statements left; an
  overlap may damage the view's content but never removes the view.  `ViewsSurvive` follows, for
  any number of callers, views, changes and kills.  `LifecycleInv`: no request meets a
  server before it serves, a channel is closed only after the signal, and a server that is past
  `Drained` has no request under way and takes none.  `KeepsPromises` follows.
  `MissingAssumption` and `RequestsAssumption` say that the markers for no table, no request and
  no server are none.
* **MutationsProofs.**  What the handlers of an event may add to the store
  (`Grants`) and how many calls they make (`Calls`) is fixed when the event is pushed, whatever
  they read later (`HandlersAdd`, handler by handler).  `StoreInv`: every event in flight may
  add only relations the database held by the time it was pushed; what an instance may be read
  back with from the cache are foreign keys it once had.  `StoreInventsNothing` follows for all
  requests of the API, any number of workers, failures, cut reads and restarts.  `RepositoryInv`: a live
  service and a live default repository that are not linked have a handler ahead of them,
  that of the one created later or one that has already listed the other; `EveryServiceHasDefault`
  follows.  It rests on `KindsDisjoint` (an object is of one kind) and on `SeedLinked` (in the
  catalogue of `Init` the events of earlier requests are handled).

  `GrantsInv` compares the store with the database while events are under way.  Call by call, an
  event's handlers add (`AddsAt`) and drop (`SweepsAt`) tuples; for a relation whose ends no two
  overlapping events touch, a wrong tuple is ahead of an event that will drop it
  (`WrongLeaves`), a missing one ahead of an event that will add it (`MissingComes`), and
  whoever drops a right one adds it again (`DropsReturn`).  This is inductive only because the
  foreign key of an instance is also followed through the instance alone (`Watched`): an update
  finds the old parent's tuple although that parent is disturbed.  A request keeps it because its
  event makes good what the request changed (`Answered`), a worker because its next call does
  part of that (`Effect`).  `GrantsSettleDown` (`GrantsSettle`) follows: once no event is left,
  the store agrees with the database on the objects that overlapping requests left alone.
  `ListsShowOnlyOwn` (`ListsOnlyOwn`) adds that the scope of a list is never the
  empty filter, which would show everything (`ScopeOnly`).  `SeedRelations` says of the first
  rows that links are between rows of their kinds and instances have one service.  `GrantsInv`
  was model-checked on `MCMutations` before.

Only model-checked: liveness (`HandledUnlessStranded`, `ShutdownCompletes`,
`EventuallyFresh`, `EndsInTime`, `EventuallyMatched`, `EventuallyAttached`,
`EventuallyOwned`, `StopEnds`, `OneServes`, `EventuallyCounted`), which is out of the
prover's reach; and `Queries`, whose joins are resolved by recursive operators.  It has no
parameter but `Gaps` and finitely many queries, all of which its run covers.

## Disagreements

Where the code does something else than its documents, tests or comments say, the
properties are stated of what it does, with the exception spelled out in the property.
The run `issue_matching_skipped` shows the first; the others can be seen by
dropping the exception, or with the constants named.

* *Matching stops early.*  `issue_match_handler_events.go:208` returns from the loop at an
  issue that is matched already; the comments at :183 and :206 say that it is ignored.
* *An instance that moves is not matched.*  The comment at `issue_match_handler_events.go:151`
  has the handler run when "a component version is assigned to a component instance".  It
  runs for a creation only: `UpdateComponentInstance`, by which the k8s scanner reports another
  version (`scanner/k8s-assets/processor/processor.go:531`), has no handler that matches
  (`heureka.go:156`), nor has a variant that comes after its issue was attached, or a repository
  that is linked later.  `EventuallyMatched` excepts what `moved` and `late` hold.
* *The priority does not decide.*  The comments at `shared/issueVariant.go:16` and :59 take the
  variant of the highest priority and the score to break ties; the condition at :64 lets a
  row of a lower priority and a higher score replace it, if it comes later.
  `BestVariantDecides` speaks of the rows of which one is exceeded by none.
* *A nested list can be another node's.*  Among the matches of a component instance a filter
  that names instances replaces the id of the node (`baseResolver/issue_match.go:126`); the list is
  that of the instances named.  `NestedInParent` excepts it (`NamedByClient`).
* *Patches are multiplied by overlapping completions*, as a client's retry after a timeout
  makes them: no query of Autopatch sees that another call is under way
  (`scanner_run_handler.go:50`).  `NoDuplicatePatch` excepts it (`overlapped`).
* *Reads stop at their first page.*  `ListRelations` drops the continuation token
  (`openfga/authz.go:512`), so that the removal of more relations than fit on a page leaves the
  rest; a new default repository is linked to one page of services
  (`issue_repository_handler_events.go:77`).  `CutRead` disturbs what it touches.
* *Workers can be stranded.*  A worker that has evaluated `er.ch` at `event_registry.go:130`
  before the channel is replaced waits on the old one until the shutdown; when that
  happens to all, accepted events are not handled (`event_registry_test.go:152` expects
  all to be).  `HandledUnlessStranded` excepts it.
* *A patch can be lost.*  Autopatch deletes before it inserts the patches
  (`autopatch.go:149`); after an error in between the retry finds nothing gone.
  `docs/entity_relationships.md:56` promises a patch whenever a version is no longer deployed.
* *Versions in use lose their issues.*  The inner loop at `autopatch.go:284` removes the
  issues of every version collected so far, used or not; `autopatch_test.go:409` speaks
  of the issues of versions that are not used.
* *An upgrade in place leaves no patch*: no instance disappeared (`autopatch.go:164`).  A
  listing of more than 1000 versions is cut off (`autopatch.go:234`; `PageLimit` below the
  number of versions).
* *A tracker row that is not inserted* is only logged (`component_instance_handler.go:429`), so
  that an instance that was reported is deleted as absent;
  `docs/scannerrun_protocol.md:24` takes absence for detected once the run ended successfully.
* *Slots are lost.*  With both limits configured a slot is taken and not given back when the
  rate limiter refuses (`cache_base.go:164`), until no refresh runs any more;
  `docs/adr/cache_documentation.md:145` describes a limit on those that run.
* *The scan may hang.*  After the timeout nobody offers slots and nobody stops waiting for one
  (`scanner/k8s-assets/main.go:156`; the README at :34 describes a timeout).  The slots do not limit
  concurrency either: a token is handed out again without being given back (:148).
* *A failed lookup is taken for absence* (`scanner/k8s-assets/processor/processor.go:513`):
  creation then fails on the unique name.
* *Issues without variants.*  An issue whose variant could not be created stays without one
  (`keppel/processor/processor.go:209`); a match by a client for it panics on the missing
  severity (`issue_match_handler.go:321`).
* *SIEM alerts swap two ids.*  `mutation.go:1269` hands the service to
  the parameter for the support group and the group to the one for the service.
* *Cursors of several columns follow the filter without parentheses*
  (`db_object.go:615`; `docs/cursor.md:75` shows them without a filter), so that later pages of lists without
  aggregation show rows the filter excludes.  Orders without a unique last column
  skip rows at a tie (`cursor.go:412`).  If the first row of a page is deleted before the cursors are
  read, the walk ends too early (`pagination_helpers.go:95`).
* *Some arguments have no table.*  The views with counts know no combination of all
  services or a support group with a component version, and the vulnerabilities of an image none with a
  support group (`Gaps` in `Queries`).
* *Inactive rows stay in two views*, although the migration 20260618100000 means badge counts
  to match the detail view: their procedures delete none and no reader looks at
  `is_active` (`migration.go:158`).
* *Requests are accepted after the signal* (`server.go:87`): their rows are saved, the push panics
  on the closed channel, and the client is told of a failure.
* *Remediations.*  Two creates that overlap are not kept apart
  (`remediation_handler.go:228`); an update checks neither the type's condition when it
  names no type nor the one about remediations in progress, and sets back a URL that
  another update wrote (:399); updates and deletions do not invalidate the cached
  lists; a create that is rejected leaves the user it created.  A create removes lists of
  issues, variants and matches that are read by its issue's id alone (:287): those of
  `ListRemediations` (:65, :87, :110) and of several issues show their old content for up to twelve
  hours (:25), and so do all when `InvalidateByMatch` fails, which is only logged (:293).

## Not modelled

* Authentication middleware, batch loading, profiler, logging, configuration and the mock
  OIDC provider: no state over which steps could disagree.
* The generated GraphQL server and clients and the conversions between API, application
  and database types: data without control.
* In the store, users as direct viewers, groups within groups and the users of roles: no handler
  writes them (`model.fga`).
* The slots of the NVD scanner, whose goroutines do not share a name: one after the other they
  do to the catalogue what they do at once, except that a crash would cut several of them; the
  end of its two hours (`nvd/main.go:80`), after which they wait for ever, is a crash here.
* SQL text beyond joins, filters and cursors; what the refresh procedures count and
  what the single migrations change.
* Statistics and monitor of the cache, hashing of its keys; ScannerRunError rows and the
  listings of runs.
* The grouping and naming of pods, requests to Keppel, Trivy and the NVD (inputs here), the
  windows of a first NVD import and end-of-life versions in Keppel.
* The web frontend, charts and test tools.
* Descriptive columns throughout: a row is its unique name, its parents and its links.
