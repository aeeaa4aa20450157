# Verification of the subtitle proofreading workbench

TLA+ models of the service in `src/` (Go, SQLite behind `database/sql`, one
HTTP server), the TLC runs that check them on small instances, and TLAPS proofs
of what holds for every instance. Every definition that stands for code names
its lines in `PROJECT.json` under `map`.

## 1. The system

An editor registers a media, its speakers and its lines ("segments"); the
service derives quality findings from the lines; editors correct lines under
optimistic concurrency (each edit names the version it was based on); a
publisher freezes snapshots, withdraws them and compares them.

| part | state | operations | where |
| --- | --- | --- | --- |
| store | eight SQLite tables, one connection | one autocommit statement per call, one transaction (`CreateSegments`) | `internal/store` |
| timeline | none | `Analyze`: a pure function of lines, thresholds, speakers | `internal/timeline`, `internal/config` |
| quality | table `quality_checks` | `Recompute`: list lines, list speakers, delete, insert one by one | `internal/qa`, `internal/speaker` |
| editing | `segments`, `revisions`, `conflicts` | `EditSegment`, `lastActor`, `revision.Patch` | `internal/service`, `internal/revision` |
| publishing | `publish_versions`, `withdrawals`, `media.status` | `Publish`, `Withdraw`, `CompareVersions` | `internal/service`, `internal/publish` |
| intake | `media`, `speakers`, `segments` | `CreateMedia`, `CreateSpeaker`, `ImportSegments`, `RecomputeQuality` | `internal/service` |
| statistics | none | `Counts` | `internal/service` |
| recovery | the findings of every media | `Recover`, at startup and behind `GET /readyz` | `internal/service`, `cmd/subtitleqa` |
| HTTP API | none | routes, decoding, status codes | `internal/httpapi` |
| metrics | six counters in memory | one increment each | `internal/metrics` |
| page | the list as it is shown | load, edit, publish | `internal/webui` |
| smoke test | a throwaway database | a fixed script | `internal/demo` |

**How they interact.** `net/http` runs each request in its own goroutine. A
handler is a sequence of store calls; the only shared state is the database
(and the counters, which only grow). There is no lock, no transaction around a
handler, no condition in an UPDATE but the row id, and no unique constraint but
the primary keys. The pool has one connection (`store.go:29`), so one statement
runs at a time, and any statement of any other request can run between two of a
handler's.

**What is hard.** Everything a handler read may be stale at its next call; a
failing call, or the process dying, leaves the calls before it in place; write
helpers write whole rows; the audit row, the conflict row and the findings are
written by calls after the one they describe; version numbers, indexes and the
withdrawn flag are checked by one call and relied on by a later one; rows and
transactions that are not closed would keep the only connection. `hazards` in
`PROJECT.json` has the list, each entry at its line with the properties that
cover it.

**What makes each part correct.**

- timeline: neighbours in the sorted order are enough to find every overlap and
  every silence among all lines; findings depend on the lines, not on their order.
- quality: with nothing in flight, the stored findings are those of the stored
  lines, each once.
- editing: an accepted edit replaces the version it names and no other; a
  refused one changes no content, was really overtaken and leaves a conflict row
  naming the last writer; every change is in the audit log; a line always ends
  after it starts; an editor who tries again, from a list read after the last
  answer, gets through.
- publishing: versions are an append-only history; numbers grow and are not
  shared; a published media has a version; a withdrawn version has its record; a
  snapshot can be read on its own; a comparison is complete.
- intake: an index is unique in its media, also within a batch; a batch is
  taken as a whole or not at all.
- recovery: what a client was answered survives; the findings are exact when
  the server listens again; startup ends.
- store: a call is atomic, and none waits for ever.
- statistics and metrics: no total counts twice, no counter is ahead of its rows.

## 2. The modules

| module | models | extends |
| --- | --- | --- |
| `Timeline` | `Analyze`, `analyzeOne`, `ReadingSpeedCPS` | |
| `TimelineLines` | any table of lines, built line by line, and what `Analyze` promises about it | `Timeline` |
| `Store` | the tables and the statements | `Timeline` |
| `AtomicCalls` | abstract: a store call happens at one moment or fails | |
| `ConnectionPool` | how `ListSegments`, `UpdateSegmentStatus` and `CreateSegments` use the one connection; instantiates `AtomicCalls` | |
| `Quality` | how a request runs (`pc`, `outcome`, failure); `qa.Recompute` | `Store` |
| `OptimisticCell` | abstract: an edit is one compare and swap | |
| `EditSegment` | `Service.EditSegment`; instantiates `OptimisticCell` | `Quality` |
| `EditSession` | the page and the editor in front of it, against `EditSegment` | `EditSegment` |
| `Publish` | `Service.Publish`, `Service.Withdraw` | `Quality` |
| `Compare` | `Service.CompareVersions`, `publish.Compare` | `Quality` |
| `Intake` | `CreateMedia`, `CreateSpeaker`, `ImportSegments`, `RecomputeQuality` | `Quality` |
| `Stats` | `Service.Counts` | `Quality` |
| `VersionHistory` | abstract: an append-only history of frozen versions with records and flags | |
| `Workbench` | requests of all these kinds side by side over one database, refused bodies, the counters; instantiates `VersionHistory` | the five handlers' modules |
| `Recovery` | the process: start, `Recover`, listen, readiness probes, crash | `Workbench` |
| `*_proofs` | theorems about the module of that name; each extends the proofs it builds on | |
| `MC*` | the instances TLC checks | |

**A request.** `pc[r]` names the next store call of request `r`; one action is
one store call together with the computation up to the next one. Variables
indexed by request are a handler's locals (`row`, `rev`, `conf`, `snap`,
`count`, `batch`, `listed`, `todo`, `first`, `left`, `tally`, `rest`). `Goto`
moves to the next call, `Reply` returns an answer. A call that fails (`Fail`,
only with `Faults`) returns an error and undoes nothing; two errors of
`EditSegment` are dropped by the code (`lastActor`'s query and
`UpdateSegmentStatus`) and are modelled in those actions.

**The store.** A table of rows read or replaced by id is a function from ids to
rows or `None`; a table that is only appended to is a set. A row a request
inserts is named after the request (`NewID` is taken to be collision free).
Titles, labels, notes, actors of publishes, languages, colours, checksums,
`updated_at` and messages are left out: no rule reads them. `Segment` ids are
SQLite rowids and grow in insertion order; they break the ties that the ORDER
BY and the stable sort leave. A store call is one step: `ConnectionPool` is the
reason, checked and proved.

**The connection.** In `ConnectionPool` a goroutine waits for the connection
(`waiting`), keeps it while rows are open (`reading`) or a transaction is
(`inserting`), and returns it on every path, the deferred `rows.Close` and both
rollbacks included. `saved` is the file during a transaction. A SELECT by id
and a COUNT are lists of one row.

**Time.** `created_at` columns hold seconds, so `now` ticks in seconds and many
steps share one; `ORDER BY created_at DESC` leaves rows of one second in any
order (`Newest`).

**Edits.** The request picks a segment (one may be missing), a base version, an
actor (one may be blank) and a change. `Patched` is `revision.Patch`: the given
fields replace, the others are carried from the row as read, version plus one;
`UpdateSegment` then writes all of it, status included, with no condition on the
stored version.

**The page.** No button is ever disabled, and no submission waits for a load
nor a load for another (`webui.go:82-87`, `webui.go:103-109`). `EditSession` has the loads the page asks
for by itself (`asked`: when it is opened and after an accepted edit), those the
editor clicks for (`Click`), the lists on their way, which come in any order
(`arriving`), and the list shown, which is the one that came last, however old.
An editor submits whenever a list is shown, also while others are on their way;
`sent` is the list the base version was taken from. After a 409 the page leaves
the list as it is: the editor may submit from it again, or click first, as
DESIGN.md:36 intends. `read` in a list is a history variable: it says how many
of the editor's submissions were answered when the server read the list. No
action looks at it.

**Speakers in `Workbench`.** A speaker id is random, so a registration takes an
id that no row or request already refers to (`NamedSpeakers`).

**The process.** In `Recovery` a crash may fall between any two store calls. It
loses the requests in flight and every local variable; the tables stay. Counters
are reset when the next process begins to listen. `Recover` at startup runs as
a request `Boot` of its own ahead of all others; an error there ends the
process, which the model takes as a crash.

**The sets a run chooses from.** `Edits`, `Bases`, `Batches`, `Mixes` (which
kinds of requests arrive together) and the seed rows are constants. Seeds are
what an import leaves behind: version 1, status draft, findings recomputed.

## 3. The runs

| run | checks | bounds | states |
| --- | --- | --- | --- |
| `timeline` | `NoOverlapMissed`, `GapsExact`, `OrderIrrelevant` | 3 lines, points in time up to the largest integer, 3 indexes, lines of no duration included | 93k |
| `edit_concurrent` | `TypeOK`, `PositiveDuration`, `ConflictMarkExplained`, `RowAccounted` | 3 edits, 2 segments, 3 changes, a speaker that is missing, bases 1 and 2, any call fails | 1.03M |
| `edit_serial` | `QualityExact`, `CellSpec` | 3 edits one after the other, 2 segments, bases 1 to 3, a clock tick | 432k |
| `workbench` | `WorkbenchTypeOK`, `PositiveDuration`, `PublishedHasVersion`, `WithdrawnRecorded`, `SnapshotClosed`, `IndexUnique`, `OrphansImported`, `AnsweredStored`, `DiffComplete`, `StatsBounded`, `MetricsBacked`, `FreshNumber`, `HistorySpec` | nine mixes of up to 4 requests, eight batches, up to 3 rows, 2 media, any call fails, no two imports of a media meeting | 573k |
| `recovery` | `RecoveryTypeOK`, `ConflictMarkExplained`, `RowAccounted`, `AnsweredStored`, `RecoveredExact`, `StartupEnds`, `RequestsEnd` | 2 mixes of 2 requests and the startup, 2 media with a finding each, 2 crashes, any call fails | 95k |
| `session` | `RefusedOnlyWhenOvertaken`, `RowTraceable`, `AuditTree`, `EveryEditLands` | 2 editors: one who submits once, one who wants 2 edits in 3 tries and clicks once | 249k |
| `pool` | `PoolTypeOK`, `CallsAtomic`, `CallsReturn` | 2 goroutines without end, 2 rows, 2 contents, any statement fails | 25k |

Five runs show that the code does not do what its documents say; each ends with
TLC's counterexample, and `findings` quotes the line that is contradicted.

| run | property | what happens |
| --- | --- | --- |
| `edit_overwrite` | `NoSilentOverwrite` | both edits read version 1, both write version 2, both answer 200 |
| `edit_quality` | `QualityExact` | two recomputations delete, then both insert; or a stale one inserts last |
| `edit_last_writer` | `ConflictNamesLastWriter` | the last write's audit row is not there yet, or shares its second with another |
| `version_number` | `NumbersUnique` | two publishes count the same rows |
| `import_index` | `IndexUnique` | two imports read the indexes before either inserts |

A sixth race of the same kind has no run of its own: two withdrawals of a
version both pass the check and append a record each (`service.go:386`). What
publishing promises (`HistorySpec`) holds nevertheless. Nor has the page's own
race: who submits again before the list loaded after the own accepted edit is
shown, or after an older one has replaced it, is refused by that very edit, alone
at the page too (`webui.go:107-108`). That is why `RefusedOnlyWhenOvertaken` and
`EveryEditLands` promise more only to those whose list was read after all answers
they had got (`Informed`).

**What the passing runs show.** That those races go no further than this.
`edit_concurrent`: an overwritten edit never leaves a line that ends before it
starts, a mark nobody can explain, or a row for which nobody answers.
`session`: the audit log explains every row over racing submissions from lists
of any age; a refusal, which writes to the row too, refuses nobody else; and who
submits from a list read after all answers got is refused by somebody else's
edit only. An editor who does so gets through and comes to see it, though an
older list may come later. `workbench`: whatever is told to a client, counted,
totalled or compared is backed by rows, in any order of the calls, with failures
in between, and the index check is enough as long as no two imports of one media
meet between its reading and the insertion. `recovery`: half-written findings are
repaired before the server listens again, and an answer is never taken back.
`pool`: a store call is one step indeed.

**Why the bounds are enough.** Each of the races needs two requests on one row,
and the third edit of `edit_concurrent` can be stale with respect to either. The
two timing changes are sound each for itself and unsound together, so a write
that mixed two requests' fields would break `PositiveDuration`. In `timeline`
three lines are the smallest table in which a line that is not a neighbour could
be missed, with a line of no duration in between; two lines can tie on start,
and on start and index. In `workbench` a withdrawal can fall before, between and
after both counts of two publishes, a version can be compared with one published
while lines change, and a media can appear while totals are collected; two
imports into a media can find indexes in common or not, the first failing or not,
and the new media can take an import while the old one does. In
`recovery` the second crash can fall into the recovery from the first, and the
second media's findings wait behind the first's. In `session` the editor who
wants two edits can be refused by the other's edit or by the own first one, from a
list loaded before either; three tries are what the three edits wanted need, and
the click is for a list that overtakes, or is overtaken by, those the page loads,
or for a retry that is not hasty. In
`pool` one goroutine waits while the other has rows or a transaction open.
Symmetry is used where requests are interchangeable: among all of them in the
edit runs, between the first two in `workbench` (`MCMixes` has each mix both
ways round). Runs with liveness properties use none.

`RowTraceable` and `AuditTree` are promises of calls that do not fail (a row
whose audit insert failed is in no audit row); with failures and crashes
`RowAccounted` is what remains of them.

Deadlock is checked everywhere. When every request is answered the server waits
for more, which are the stuttering actions `Quiet`, `WorkbenchQuiet`,
`RecoveryQuiet` and `SessionQuiet` (`Full` in `TimelineLines`), so a handler
stuck between two calls would be reported.

**Fairness.** As much as the scheduling justifies, and no more.

- `recovery`: `main` goes on with a startup that has begun, and the Go scheduler
  runs the goroutine of a request that has arrived: weak fairness of `BootStep
  \/ Listen` and of each arrived request's steps. Nobody promises a restart, a
  request or a crash. `RequestsEnd` is not for granted: the number of media and
  findings a recovery goes through moves while it runs.
- `session`: for each editor, weak fairness of the loads the page asked for
  (the SELECT of one, or the coming of a list) and of the editor and the
  handler behind (submitting, giving up, a step of the handler, the answer). A
  `fetch` is sent without anybody's doing and the handler runs in a goroutine of
  its own; an editor who still wants an edit does not leave the page. Nobody
  promises a click, nor which list comes first. `MaxClicks` is finite, so clicks
  cannot keep a load waiting for ever.
- `pool`: weak fairness of a goroutine that has the connection. Of those that
  wait `database/sql` picks one at random, so whoever waits while the connection
  is given back again and again gets it at some time: strong fairness of
  `Enter`. No failure is needed to end a call.

**The abstract specifications.** Each of the three is a PROPERTY of a run and
the statement of a theorem.

- `OptimisticCell` is the contract of `service.go:220-223`: an edit that names
  the stored version replaces the content and is recorded, any other is recorded
  as rejected. `CellSpec` maps the content columns of `segments` (status is not
  content), the audit rows including the one about to be inserted (`Accepted`),
  and the conflict rows. Served one at a time (`SerialSpec`) the handler
  implements it; served concurrently it does not, which `edit_overwrite` shows.
- `VersionHistory` is the contract of `publish.go:1-4`. `HistorySpec` maps the
  version rows without their flag, the withdrawal rows, and the flags. All
  requests side by side, failures included, implement it; that two numbers
  differ is not part of it, as `version_number` shows.
- `AtomicCalls` is what all other modules take for granted of a store call.
  `CallsAtomic` maps the table, during a transaction the one before it, and the
  waiting, reading and inserting of a call to a call that was made.

## 4. What is proved

From the named assumptions on the constants, for any number of requests, rows,
media, speakers, edits, base versions, editors and goroutines. The assumptions
give the constants their types, say that `Media`, `Speaker`, `Segment` and
`Request` are finite (a database is), that `None` is no value of a column, and
that a seed is what an import leaves behind: a positive row of version 1 of a
media that exists. TLC evaluates each of them.

Two theorems of the edit handler, one of `SerialSpec` and two of the page are
about calls that do not fail (`Faults = FALSE`, stated in the theorem), because
they are false otherwise: a row whose audit insert failed has no audit row, and
findings whose recomputation failed stay as they are until the next one. Of the
rest, only `IndexesUnique` has hypotheses of its own: that no two imports of a
media are between the reading of the indexes and the insertion at once
(`ImportsApart`, part of `ApartSpec`; the code does not see to it), and a seed
whose indexes differ (`SeedIndexed`). There may be any number of imports, into
one media one after the other, into different media at the same time. Without
the first hypothesis it is false, as `import_index` shows.

| theorem | statement |
| --- | --- |
| *editing* | |
| `TypeCorrect` | `Spec => []TypeOK` |
| `DurationsPositive` | `Spec => []PositiveDuration` |
| `MarksExplained` | `Spec => []ConflictMarkExplained` |
| `RowsAccounted` | `Spec => []RowAccounted` |
| `RowsTraced`, `AuditConnected` | without failures, `Spec => []RowTraceable`, `Spec => []AuditTree` |
| `FindingsKeptExact` | without failures, `SerialSpec => []QualityExact` |
| `CellImplemented` | without failures, `SerialSpec => CellSpec` |
| `CellIsAChain` | in `OptimisticCell`, `Spec => []Chain`: no two accepted edits of a segment start from one version |
| *the page* | |
| `SessionRunsEdits` | `SessionSpec => Spec`: what is proved of `Spec` holds of sessions |
| `SessionTypeCorrect` | `SessionSpec => []SessionTypeOK` |
| `RefusalsNotSpurious` | without failures, `SessionSpec => []RefusedOnlyWhenOvertaken` |
| `SessionsAudited` | without failures, `SessionSpec => [](RowTraceable /\ AuditTree)` |
| *analysis* | |
| `OverlapsFound`, `GapsReported`, `OrderOfImportIrrelevant` | `Spec => []NoOverlapMissed`, `[]GapsExact`, `[]OrderIrrelevant`: for every finite table |
| *all requests side by side* | |
| `WorkbenchTypeCorrect` | `WorkbenchSpec => []WorkbenchTypeOK` |
| `StoredDurationsPositive`, `MarksStayExplained`, `RowsStayAccounted` | the edit handler's three next to every other: `[]PositiveDuration`, `[]ConflictMarkExplained`, `[]RowAccounted` |
| `NoEditMakesOrphans` | `[]OrphansImported` |
| `AnswersStored` | `[]AnsweredStored` |
| `CountersBacked` | `[]MetricsBacked` |
| `DiffsComplete` | `[]DiffComplete` |
| `SnapshotsClosed` | `[]SnapshotClosed` |
| `IndexesUnique` | `ApartSpec => []IndexUnique` |
| `TotalsBracketed` | `[]StatsBounded` |
| `NumbersFresh` | `WorkbenchSpec => FreshNumber`, an action property |
| `WithdrawalsRecorded`, `PublishedHaveVersions` | `[]WithdrawnRecorded`, `[]PublishedHasVersion` |
| `HistoryImplemented` | `WorkbenchSpec => HistorySpec` |
| `VersionsFrozen`, `FlagsRecorded`, `NumbersWithinCount` | in `VersionHistory`: nothing there is rewritten, flags have records, numbers stay within the count |
| *crashes and restarts* | |
| `RecoveryTypeCorrect` | `RecoverySpec => []RecoveryTypeOK` |
| `RecoveryExact` | `[]RecoveredExact`, for any number of media |
| `AnswersSurvive`, `MarksSurvive`, `AccountsSurvive` | `[]AnsweredStored`, `[]ConflictMarkExplained`, `[]RowAccounted` |
| `TablesSurvive` | `[]WithdrawnRecorded`, `[]PublishedHasVersion`, `[]PositiveDuration`, `[]OrphansImported` |
| `HistorySurvives` | `RecoverySpec => HistorySpec` |
| *the connection* | |
| `PoolTypeCorrect`, `StoreCallsAreAtomic` | `PoolSpec => []PoolTypeOK`, `PoolSpec => CallsAtomic` |

The arguments:

- `TypeOK` is inductive: it says what each local variable holds at the calls
  that use it (`LocalsOK`). One lemma per action.
- `PositiveDuration` is not inductive, because the row is checked in one step
  and written in another. `DurationInv` adds that the row a request holds at
  `get_speaker` and `update_segment` is positive.
- `ConflictMarkExplained` needs `MarkInv`: a row held by a request may carry the
  mark (`HeldMark`), and then a conflict row of that segment exists already;
  conflict rows are never removed.
- `RowTraceable` and `AuditTree` need `AuditInv`: the row a request has read is
  itself the import or the result of an accepted edit (`Traced`), also when the
  stored row has moved on since. The heart is that `Accepted` counts the audit
  row that is about to be inserted, so nothing is untraceable between the two
  calls.
- `RowAccounted` holds with failures because of `AccountInv`: an edit is
  recomputing, and so can be told ok, only once its audit row is in the log.
- `CellImplemented` needs `CellInv`: what the one request in flight read is what
  is stored (nobody else writes), and it has left nothing behind yet (`Left`),
  so that the step of `UpdateSegment` is `Accept`, that of `AddConflict` is
  `Reject`, and all others stutter.
- `FindingsKeptExact` needs `QualityInv`: a media's findings are exact unless
  the one request in flight has written a line of it and not yet recomputed
  (`Behind`); while it inserts, the findings there and those still to come are
  together the due ones and share none (`HeldFindings`). A conflict mark changes
  no finding, because `Analyze` does not read the status (`AnalyzeSame`).
- `CellIsAChain`: the stored version is past every version an accepted edit
  started from (`Past`). Together with `CellImplemented` it is why a comparison
  made by the UPDATE itself would be enough.
- `RefusalsNotSpurious` needs `OvertakenInv`. Of any list an editor may submit
  from (`InSight`: on its way, shown, or submitted and not served) the version
  is the one stored, or an accepted edit wrote the row that is stored instead
  (`Current`); and if the list was read after all answers the editor has got, that
  edit is not the editor's own (`Seen`), because nothing of the editor's is at the
  tables then. A refusal carries this on, through the handler's calls and to the
  conflict row: the edit that overtook it is nobody's it cannot be put down to
  (`HeldRefusal`, `RecordedRefusal`, `Blamed`). It rests on `AuditInv`: an edit
  that was overtaken while it ran still writes the row it explains. The stored
  version may be lower than the one a refused editor had in hand, because an edit
  writes the successor of the version it read, however old; so what holds of the
  version a refusal found is that an accepted edit wrote it, not that it is
  higher.
- The timeline theorems reduce any two lines to neighbours. `Before` is a strict
  order of the rows; among the finitely many lines after (or ahead of) one there
  is a first (a last), found as the line of least rank, the number of lines that
  come before it. Times from 0 to the maximum make every difference exact.
- `PublishInv` carries what a handler has read and what cannot change since: a
  counted number is at most the count (rows are only added), the version a
  withdrawal is about is there and keeps its media, the record is inserted
  before the flag. Steps of the other handlers leave all of it alone (`Aside`).
  Of `HistoryImplemented` the only steps that do not stutter are
  `AddPublishVersion`, `AddWithdrawal` and `MarkWithdrawn`.
- `TypeInv` rests on two facts proved once for every handler: a step touches the
  locals of its own request only (`SameLocals`), and tables only grow: no row
  goes, no version or speaker changes, a row keeps its media and index, published
  stays published (`Grow`). The invariants below need only their own handler's
  steps for the rest.
- `ImagesInv` and `AnswersInv`: the row an edit writes is the one its audit row
  has as `after`, and by the time of the answer every row the answer speaks of is
  in its table, where it stays.
- `MetricsInv` is stronger than `MetricsBacked`: each counter equals the number
  of requests so answered. These map one to one to rows named after them.
- `NumbersFresh`: no number exceeds the count of its media's versions
  (`NumbersCounted`), so the next one is larger than all that are there when the
  count is taken. It says nothing of two publishes that count the same rows.
- `DiffInv`: the lines a comparison has in hand are still those of the version,
  since versions are frozen, and a diff leaves out only lines equal in every
  field compared.
- `OriginsInv`: the speaker a row names comes from the seed, an edit or a batch
  (`Origin`), all of them settled when the request arrives; a registration takes
  an id none of them names. So a speaker that is not registered when the lines
  are listed never will be, and listing the speakers afterwards is enough.
- `IndexInv`: the indexes an import has checked are still free when it inserts,
  because imports alone add rows and one that inserts meanwhile is, by
  `ImportsApart`, an import into another media.
- `StatsInv` bounds each total from both sides while it is collected: what is
  counted so far is at most what the media done have, and together with what the
  media left have (`LinesLeft`, `VersionsLeft`) at least what there was when
  the request arrived. `OwnedInv` (rows and versions are of media that exist)
  makes the sum over media the number of rows.
- `MarksInv` and `AccountsInv` extend the edit handler's invariants by the kinds
  of requests: imports add rows without a mark and of version 1, the others
  write no line.
- `RecoveryInv` is the requests' invariant (`ServiceInv`), which survives a crash
  because what it says of locals is void for a request that is gone; that
  findings are of a media that exists (`SubjectsInv`), which is why going
  through the media is enough; and `StartingInv`: until the server listens
  nobody else is at the tables, and the media `Recover` is through with are
  exact.
- `PoolInv`: what a list has read so far is what the table holds at those rows
  and the rest is still to come (`ReadSoFar`); the table in a transaction is the
  saved one with the rows inserted so far (`InsertedSoFar`). Nobody else changes
  the table meanwhile, since they do not have the connection (`PoolTypeOK`); so
  the whole call can be taken to happen at `CloseRows` or `Commit`.

Each inductive invariant was checked on a run's instance before it was proved.

**Only model-checked:** liveness under fairness (`StartupEnds`, `RequestsEnd`,
`EveryEditLands`, `CallsReturn`), which is out of the prover's reach as are
ENABLED and induction over data. Every invariant and action property of a
passing run is a theorem, of the specification it is checked under or, in
`workbench`, of `WorkbenchSpec`, which `ApartSpec` implies; `IndexUnique` is one of
`ApartSpec` alone.

## 5. What is not modelled

- The smoke test and `POST /api/demo`: a fixed sequential script on a throwaway
  database over operations that are modelled; no operation or state of its own.
- The routes that return one list or one row, and `qa.Summary`: one statement
  after the parent's, no state, nothing combined from two moments.
- Of the page: choosing a media, publishing, and the lists other than that of
  the lines; and a second click on the submit button before the first answer,
  which makes two requests with one base version as two editors do. Typing and
  clicking are one step: the base version is that of the list shown at that
  moment, not one typed under an earlier list or left in the field. A load or a
  submission whose `fetch` fails without an answer is left out.
- A COMMIT that fails and leaves SQLite's transaction open on the connection:
  `TransactionFails` takes a failed commit as rolled back, as `database/sql`
  does when it gives up the transaction.
- Contexts: handlers get one and no store call takes it, so a client that goes
  away stops nothing.
- `revision.OpType`, `Describe`, messages and severities: wording.
  `speaker.Coverage`, `OrphanSegments`, `LabelOf`, `timeline.Summarize`,
  `publish.SnapshotSummary`: nothing calls them.
- The floating-point division of `ReadingSpeedCPS` is compared multiplied out;
  with a threshold of 12 the quotient meets it only at durations that divide
  exactly.
- Media never become `ready` or `archived`, nor segments `proofed` or
  `published`: no operation sets these, the guards on `archived` are modelled.
- Edits with negative times are legal for the code (`service.go:255` checks the
  order only) while imports refuse them; `GapsExact` is about times from 0.

## 6. What is left

1. `SnapshotClosed`, `DiffComplete` and `FreshNumber` across crashes. A restart
   returns `Boot` to `new`, so that `OriginsInv` needs to say that it holds no
   request.
2. `IndexUnique` across crashes with imports apart, and `StatsBounded` there.
3. The counters across crashes: they begin at zero with each process while the
   answers of the last one stay, so each is at most the number of answers.
