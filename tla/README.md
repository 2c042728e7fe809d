# A verification project for the codebase research agent

The program (Django, Channels, LangGraph) answers technical questions about a
repository. A client stores a question as a *session*; a run of the session
executes a four-node agent graph inside the HTTP request; the client polls the
session or follows its events over a WebSocket. This directory holds TLA+
models of the parts whose correctness depends on the order in which things
happen, the TLC configurations that check them, and proofs of the properties
that hold for any number of processes.

## 1. Inventory

| Component | State | Operations | Hard behaviour |
|---|---|---|---|
| Session service (`apps/research/services.py`, `models.py`, `views.py`, `serializers.py`) | `ResearchSession` row: status, answer, references, error, counters, totals, options | start (register, synchronise, create, run), run (with `force`, options), cancel | every request runs in its own worker process, without `ATOMIC_REQUESTS` and without row locks; check-then-act on instances fetched earlier; saves of some or of all columns |
| Agent runner and graph (`apps/agent/runner.py`, `graph.py`, `state.py`) | the instance it holds for the whole run | mark running, invoke, refresh, save totals, fail | the except clause saves an instance older than the whole run; a killed worker leaves the row as it is |
| Graph nodes (`apps/agent/nodes/*`) | graph state: terms, matches, references, answer | load context, plan, search/read/save, write answer | each node emits events and logs tools, every one a read-modify-write of the row; exceptions are caught at three levels |
| Database tools (`apps/agent/tools/database_tools.py`) | `ToolCallLog`, `Finding`, `AgentEvent` rows, `current_step`, token counts | `emit_event`, `execute_logged_tool`, `save_finding`, `increment_token_usage` | log in a `finally` clause; a tool that has half succeeded; lost updates |
| Code tools (`apps/agent/tools/code_tools.py`) | none | `list_files`, `search_code`, `read_file`, `read_around_match` | filters, ranking, windows at boundaries |
| Language model (`apps/agent/llm.py`) | none | provider, model and key selection, token usage | options stored twice, read at three moments of a run; not configured, raises, answers something that is not a plan |
| Realtime (`apps/realtime/*`) | channel-layer groups, consumers' inboxes | publish, connect, history, live events, disconnect | an event is stored and then published, a client joins and then reads history; lossy channel layer |
| Repositories (`apps/repositories/*`) | `Repository` row, clone directory | get or create, sync (clone, fetch, pull) | two syncs of one directory; a clone, a removal or a pull cut off half-way, each of which changes the files one by one |
| Admin, selectors, URLs, settings, deployment files | - | read paths, wiring | - |

How they interact: the views call `ResearchService`, which calls `AgentRunner`
through `AgentExecutionBridge`; the runner invokes the graph, whose nodes reach
the database only through the database tools; these and the service store
`AgentEvent` rows and hand them to `RealtimeEventPublisher`, which sends them to
the group that `ResearchSessionConsumer` instances have joined. A session's run
reads the directory that a repository sync writes.

What makes each part correct:

* session: the status and the columns that explain it belong together; a
  running row has a run that will end it; an answer cites the findings of its own
  run; totals and tokens are those of the audit tables; no stale save brings back
  an old state; a finished session stays finished without `force`.
* evidence: what is cited was found, is cited once, and is shown where what was
  read for it is not cut off; both cuts of the ranking keep the best matches; a run
  fails for reasons outside the files' contents; the researcher works with the plan that was announced.
* stream: a client that is connected has no gap between history and live events,
  learns of no event that is not stored and of no step before an earlier one;
  the stream never holds up the agent.
* repositories: the row never waits for a sync that nobody does, its error and its
  status agree, it describes the clone, and a clone is not lost.
* starting a session: a run that asked for a synchronisation searches its own
  repository, finds it there, and finds no file older than promised.
* options: their two representations agree, and a run asks one provider for what
  its request named.

Two modules compose parts: `ResearchRequest` extends `RepositorySync` with the
requests that start and run sessions, and `ResearchSession` is shown to implement
`SessionLifecycle`. The others meet at named boundaries: `ResearchSession` takes any
outcome of a search (`EvidenceSelection` says which), and emits events whose
delivery is `EventStream`'s subject.

## 2. The session core

### Modules

* `SessionRow` - the columns of a `ResearchSession` row as a record, and the
  assignments that the code makes together (`Running`, `Completed`, `Ended`,
  `Recounted`), each one operator.
* `ResearchSession` - one session, any number of `Runner` and `Canceller`
  processes. Every statement that touches the database, a tool or the model is
  a step: `pc[w]` names the next one, an event's step carries its `event_type`.
  `tmp[w]` is the instance a helper has fetched and is about to save, `own[w]`
  the instance `AgentRunner.run` holds from its first SELECT to its last save.
  `FetchRow` is the SELECT of `get_session`/`refresh_from_db`, the action that
  follows it is the UPDATE made of what was read: lost updates and stale saves
  are in the model because they are in the code.
* `SessionLifecycle` - the abstract promise: phases of requests and the status
  column only, with no snapshots and no statements.
* `MCResearchSession` and the `session_*`, `doc_*` configurations - instances.
* `ResearchSessionProofs`, `SessionRecordProofs`, `SessionLifecycleProofs` - theorems.

### Correspondence

| Model | Code |
|---|---|
| `RunRequest`, `MergeOptions` | the run view and `run_existing_session`; `start_session` with `run_agent` enters the same way with the pending row it just inserted |
| `RunnerGet`, `RunnerMarkRunning` | SELECT and first full `save()` of `AgentRunner.run` |
| `LoadContext`, `Planner`, `Search`, `ReadMatches`, `AnswerWriter` | the four nodes (`researcher_node` is split at its two loops) |
| `CallTool`, `LogToolCall`, `ToolDone`, `ToolRaised` | `execute_logged_tool`: the function, then the `finally` clause, then return or re-raise |
| `SaveFinding`, then the event `finding_saved` | `save_finding`, which emits an event inside the tool |
| `InvokeLlm` | `invoke_text_with_usage`: answers, is not configured, or raises |
| `SaveAnswer` | the refresh, recount and full `save()` of `answer_writer_node` |
| `RunnerRefresh`, `RunnerSaveTotals` | the totals saved after the graph |
| `RunnerFail`, `RunnerFailed` | the runner's except clause: full `save()` of `own[w]`, then its event |
| `ServiceReturn`, `ServiceExcept` | `run_agent_for_session` |
| `CancelRequest`, `Cancel` | the view's SELECT with `is_finished`, and `mark_cancelled` |
| `DbRaise`, `Handler`, `RequestFails` | an exception of a database statement and the clause that catches it, or none |
| `Crash` | a killed worker process |

Abstractions: texts, payloads, timestamps and the event rows themselves are left
out; a column `answer` holds the number of the run that wrote it, `error` who
wrote it; `tokens` counts answered model calls; two completed SELECTs in a row
with nothing between them that anybody could see are one step. `is_finished` in
`RunRequest` and `CancelRequest` is evaluated in the step of the SELECT that
fetched the row, which is what the code does with its instance.

### Runs

| Run | Shows | Bounds |
|---|---|---|
| `session_race` | `RunningHasRun`, `ConsistentRow`, `AnswerCitesItsRun`, whatever interleaves and whichever statement raises | two runners, one canceller, two runs with and without force, one finding each |
| `session_rerun` | type invariant, `AuditTrail`, `TotalsExact`, `TokensRecorded`, `AnswerOnlyAdvances` | one runner, reruns with options, two terms, two findings, a cancel |
| `session_crash` | `NeverPendingAgain`, the refinement of `SessionLifecycle`, and under `FairSpec` `RunningEnds` and `RequestsReturn` | one runner, one canceller, two runs with options, database errors, one killed worker |
| `doc_finished_is_final`, `doc_answer_kept` | what the repository says and the code does not keep, see Findings | smallest instance |

Two runners and two runs are the smallest instance in which one run's stale
instance meets another run's saves; a third runner adds no new pair of
statements (each property relates one row to one process, or two). One canceller
is enough because a cancel neither reads nor leaves anything but the row.
`session_rerun` has one runner: with two, lost updates make `TotalsExact` and
`TokensRecorded` false (see Proofs), so what it shows is that one run's own saves
do not lose each other. Its statements do not fail; that a tool that saves a
finding may raise after it has saved is exercised by `session_race` and `session_crash`.
`RunningHasRun` speaks of workers that live: a killed one leaves its row running
for good, which `orphaned` excuses.

The two runners of `session_race` are
interchangeable, so its states are counted up to their permutation; the run has no
liveness property. `MaxMatches = 2` makes references of one run differ from one another. `MaxRuns`,
`MaxCancels` and `MaxCrashes` bound requests, so the system may stop:
deadlock is not checked. `MaxCount` saturates the step and token counters where
no property of the run looks at them (0) and never bites where one does.

Fairness (`FairSpec`): weak fairness of each process's own steps once it has
accepted a request. The code justifies it: a worker is one thread that executes
statement after statement, the model client gives up after its timeout and two
retries (`llm.py:108-127`), the loops run over finite lists. Requests themselves, crashes
and database errors are not fair.

### Findings

1. `FinishedIsFinal`: "This session is already finished. Pass force=true to
   rerun." (`services.py:830`) - a session cancelled between the runner's SELECT
   and its first save is set back to running, and a cancelled running session is
   completed, both without force.
2. `AnswerKept`: of two overlapping runs the one that fails saves every column
   of the instance from its start (`runner.py:85`) and erases the other's answer.

Read in the code and not checked: `max_steps` is documented as the maximum number
of steps (`README.md:855`, `DECISIONS.md:53`) and no node reads it; the run
endpoint stores values of it that the create endpoint refuses (`serializers.py:47`
against `services.py:838`); the save of finding 2 also drops the tokens that the
failing run spent; `reuse_previous_findings` is documented and read nowhere.

### Proofs

`ResearchSessionProofs` proves, for every number of processes, runs, matches
and terms, whatever the flags, from the assumptions named in the modules
(`BoundsAssumption`, `ProcessAssumption`, `ChoiceAssumption`, `CapAssumption`):

* `TypeCorrect` - `TypeInv` strengthens `TypeOK` by `TaskOK`: inside a run the
  run number is positive, so that the answer it writes is one.
* `RunningAlwaysHasRun`, `RowAlwaysConsistent`, `PendingIsLeftForGood` - from one
  inductive invariant `StatusInv`: the type invariant, both properties, and
  `OwnOK`, which says what the instance a runner holds looks like (status
  running, no error, started) and that the row has been started. Without
  `OwnOK` a stale full save could restore anything; with it a full save restores
  only a running row, which its own runner will end, or a failed one.
* `Implements` - the refinement of `SessionLifecycle`. `GraphEffect` reduces the
  nodes to three facts (stay in the run without touching the status, leave it by
  an exception, complete it); every other action is one step of the abstract
  specification or none. `StatusInv` is needed because the abstract `Begin`
  must set running, which the code does by saving `own[w]`.

`SessionLifecycleProofs` proves `RunningIsServed` of the abstract specification.

`SessionRecordProofs` proves what runs leave in the database:

* `AnswerAlwaysCitesItsRun` - the invariant `AnswerInv` says that every run has a
  number of its own and saves findings under no other (`Numbered`), that a run which
  still collects has cited all it saved but the one it is about to cite (`Collected`,
  `OneAhead`), and that the row and every instance a runner holds are `Settled`: they
  cite all the findings of the run whose answer they have, and that run saves no more.
  The last part is what a full save of an old instance rests on.
* `AuditTrailKept` - for finitely many processes, where no statement raises and no
  worker is killed (the flags of `session_rerun`; with them a call can be lost between
  the tool and its log): each step moves a call, at most one, from not made to pending
  to logged, so `calls` and `tools` differ by the number of pending ones.

The other three theorems are about a session that one runner serves (`Runner = {r}`),
with any number of cancellers, runs and kills. With two runners none of the three
properties holds (TLC refutes each), because a run saves whole instances over the other's row. A
canceller is `Apart`, never inside a run, so each step is the runner's own, or
`Aside` and at most cancels the row.

* `TotalsAlwaysExact`, whatever raises - `TotalsInv`: a runner that still calls tools
  has no completed row, and the instance about to be saved (`tmp` in the answer node,
  `own` in the runner) has counted the tables as they are; no step between its count
  and its save adds to them.
* `AnswerAlwaysAdvances`, where no statement raises - `LastRun`: the instance that the
  runner holds has the answer of the row, so that saving it whole takes back nothing.
  A statement that raises is finding 2's other half: `RunnerFail` would save an
  instance from before the answer.
* `TokensAlwaysRecorded`, where no statement raises - `CallsInv` counts the model calls
  of a run by its place in the graph, `TokensInv` says that the row has the tokens of
  the run's beginning and those of the run, but for the call whose usage is about to
  be added (`Sums`). A run calls the model twice, so the tokens never exceed twice the
  runs; the hypothesis `MaxCount >= 2 * MaxRuns` says no more than that the bound on the
  counter, which the code does not have, is not reached.

Only model-checked: `RunningEnds` and `RequestsReturn`, which are liveness.

## 3. The choice of evidence

### Module and correspondence

`EvidenceSelection` is one run from the plan to the references, for any set of
files. A path is what the tools look at in it (`FileAttributes`), a line the set of
words it contains, and one call of a tool is one step; between two steps the
repository may change (`Change`: a sync that adds, removes or shifts the lines of a
file, or removes the clone).

`search_code` numbers lines as it iterates the open file (`code_tools.py:281`), and
`read_file` numbers what `splitlines` returns (`code_tools.py:347`), which also ends
a line at a form feed and at other separators that do not end a line of the file.
`text[f]` has the lines of `splitlines`; a line that ends in such a separator has the
word `"feed"`. `Number(f, i)` is the number that iterating the file gives the
`i`-th of them, `Lines(f)` are all these numbers, `Pieces(f, n)` the lines of
`splitlines` that the line of number `n` consists of, and `Words(f, n)` what is in it.

| Model | Code |
|---|---|
| `Plans`, `Completed`, `Merged` | a model's plan or `fallback_plan`, and the merge of the terms in `planner_node`: the loop that skips what is already listed keeps the terms at the places where they are used first (`FirstUses`), the slice the first `MaxTerms` of these |
| `HandedOver` | what LangGraph passes on: the keys that `ResearchAgentState` declares |
| `ShouldSkip`, `Searched`, `Number`, `Words`, `Matches`, `ScoreMatch`, `MatchAt` | `should_skip_path`, the filters and the line loop of `search_code`, `score_match` (in twentieths, with its clamp) |
| `Outranks`, `Best` | the stable sorts and the cuts: the first k of a sorted list are the elements that fewer than k others outrank |
| `Location`, `Search` | the first loop of `researcher_node`: a location seen before is not added again |
| `Searchable`, `SearchRaises` | what raises there: `int()` of `max_files_to_read` and `max_file_chars` (`numeric`), a directory that is not there, `normalize_query` of a planned term that is no string (`Unsearchable`) |
| `FirstMatches` | `all_matches[:max_files_to_read]`, which for a negative number drops the last ones |
| `Window`, `ReadFile` | `read_around_match` and `read_file`: the lines asked for as far as `splitlines` has them, whole or cut off |
| `Read`, `Cite` | the second loop; a file that is not there, or that is a link to one outside the repository (`outside`), which `search_code` opens and `read_file` refuses, raises |

A finding and its reference are one record of `cited`, with the match and what was
read for it. Saving them is the session core's subject, and so is every failure of
a statement: a database that is down, or a text that it refuses.

`max_file_chars` is not validated and lines have any length, so `ReadFile` may cut the
content after any number of whole lines, none included (`truncated`). What a client
needs to rely on the evidence is said under the condition that it was not cut.

### Runs

`evidence` explores all repositories of a source file (three lines or none), a
file at the top, a documentation page and a link to a file elsewhere. The source's
lines come from four kinds (nothing; a term in a `def`; two terms with a hint; a term
and a form feed). The plans name two terms, one of them perhaps no string, with and
without fallback; `max_files_to_read` is 1, 2 or -1 or no number; the directory may be
missing, and one change may come at any moment of the research. Two results per search and windows of
one line before and after are smaller than what the files offer, so that every cut
bites: up to four lines match a term. Three lines suffice for a window that
meets the beginning, the end, and neither, and for two form feeds before a match,
which move it out of a window of one line.

* `CitedLineShown`: while the repository stays as it is, a cited line was found for a
  term, and what was read for it shows all of it. Two things that the code does not
  exclude are excepted: content that was cut off, and parts of the line that `splitlines`
  numbers more than `After` lines further down. The window is wide enough (35 lines
  before, 90 after) for the second to need more form feeds than most files have, but the
  code does not bound it.
* `NoLineTwice`: while the repository stays as it is.
* `FirstTermRanked`: for the term the planner puts first, the two cuts lose
  nothing. For later terms this is not so: a line keeps the score of the first
  term that found it, though a later one may score it higher.
* `DocsOnlyIfPlanned`: the researcher's defaults are the strictest settings, so the
  announced ones are kept as well. The run has a documentation page; tests and
  examples are left to the theorem.
* `FailureExplained`: once there is a plan, the causes of a failure are the ones listed
  there, and where in a file a match lies, at its first or its last line, is none.

`doc_planner_decides` refutes `PlannerDecides` ("The planner decides what to
search.", `README.md:1571`): the graph state does not declare `likely_paths`,
`source_first`, `include_docs` and `include_tests`, so they are announced in
`planning_completed` and then lost; the researcher always uses its defaults.

Read in the code and not checked: a planned term that is no string fails the whole
run, although the fallback's terms could be searched; in a file with form feeds the
number that a reference cites need not be the number under which the prompt shows the
line, while the answer is asked to cite "line numbers" (`prompts.py:14`); a link inside
the repository to a file outside makes a run fail when the search ranks it high
enough to be read; the stored `evidence_snippet` is the first 1200
characters of the window and usually ends before the line it is stored for;
`max_files_to_read` counts matches, so one file may be read several times; its
value is not validated; `SOURCE_FIRST_EXCLUDED_DIRS` is used nowhere.

### Proofs

`EvidenceSelectionProofs` proves all five properties and the type invariant for every
set of files, texts with any number of form feeds, plans, limits, window sizes and
places where the content may be cut. The invariant `EvidenceInv` says
that the researcher's settings are the defaults (`StateInv`), that what is found lies in
files that may be searched and was found once (`FoundInv`), and that while nothing
has changed a match is what the file says and what was read for it is what
`ReadFile` may return for it (`FreshInv`); the last part is what makes `CitedLineShown`
inductive, because the window is chosen long after the search. `WindowShowsLine` is the
arithmetic of the window: no line of the open file has a number above that of
`splitlines` (`NumberBounds`), so the window never begins after the line. `SearchResults`
says what a search returns. `PhaseInv` carries `FailureExplained`.
`NeverALineTwice` also needs `ChosenBest` (below): a match is read once, since a second
reading might be cut off elsewhere.

`TypeCorrect` and `NeverATermTwice` rest on `MergedTerms`: for any list of terms the
merge has no term twice, at most `MaxTerms`, and leaves none out while there is room.

`FirstTermAlwaysRanked` needs both cuts to be those of a ranking. `RankTransitive` makes
`Outranks` a strict order; it is total on what is found (`Ranked`) because
no two files have the same place in the walk and a line is found once.
`FewerAbove` shows that what is outranked has strictly more above it, and from this
`BestAreAbove` that at least `k` matches of `Best(matches, k)` are above one that is left
out, and `BestCount` that there are `k` of them, or all. `RankInv` then follows the first
term: all that its search returned has been found (`FirstFound`), what is found is ranked
(`FoundRanked`), and what was chosen for reading is the best of it (`ChosenBest`). If a
line were left out by either cut while one with a lower score is read, at least `limit`
matches would be above the latter, which was then left out as well
(`OutrankedIsLeftOut`).

`AlwaysReadAsLimited` counts what is read for any limit that the options may hold:
as many as a positive one allows, and all but as many as a negative one says.

The counting lemmas need induction on numbers, which `LeastNumber` gives in the form of
the least element, from the well-foundedness of `<`.

## 4. The timeline stream

### Module and correspondence

`EventStream` has any number of `Writer` processes, one of which creates the
session, and `Consumer` connections with an inbox of limited capacity in the channel
layer.

| Model | Code |
|---|---|
| `Stamp`, `Insert` | `AgentEvent.objects.create`: `created_at` is taken in the process, before the INSERT |
| `Publish` | `RealtimeEventPublisher.publish` with `group_send`: each member of the group gets the event unless its inbox is full or the layer fails; exceptions are swallowed |
| `Commit`, `Rollback` | the end of `create_session`, whose event is published inside its transaction |
| `Connect`, `GroupAdd`, `SendHistory` | `connect`: look up the session, join, accept and send the history |
| `AgentEvent`, `ReceiveHistory`, `Disconnect` | the consumer's handlers |
| `Die` | an exception in a handler: the consumer is gone and stays in the group |
| `Crash` | a killed worker |

The channel layer is external: at most once, in order for one channel, with a
capacity, as `channels_redis` behaves and as the code uses it. A writer's events are
numbered; their types and payloads are left out. A connection that comes back is
another consumer.

### Run

`stream` has two writers with two events each, one connection, an inbox of two, a
history of two or of one on request, one killed worker, a channel layer, database
and handlers that may fail. With four events both a full inbox and a history that
is too short happen; connections do not influence each other (a full inbox only
loses its own messages), so one is enough, and two writers are needed for stamps,
inserts and publications in different orders. The bounds end the emission, so
deadlock is not checked.

`NoGap` excepts what the layer has lost (`lost`) and what the history was too
short for (`cut`): nothing in the code repairs either. `NoStepSkipped` excepts
clients that ask for a short history themselves.

Fairness: weak for a writer's step once it emits (a worker executes its
statements; `group_send` returns or raises) and for the dispatch of what waits for
a consumer, which is what the ASGI server's loop does. Nobody has to emit,
connect or disconnect. `EmitReturns` and `Delivered` need no more.

### Proofs

`EventStreamProofs`, for any number of writers, connections, events and any
capacity: `StreamTypeCorrect`, `KnownAlwaysStored` and `NeverAGap`. The
invariant `OrderInv` records the order of operations that the two safety
properties rest on: before the commit nothing is stored and nobody is in the group
(`BeforeCommit`), an event is inserted before it is published (`StoredFirst`),
what is published has been stamped (`PublishedOnce`), and a consumer joins
before it reads (`JoinedFirst`). `ClientInv` adds the two properties themselves.

`StepsNeverSkipped` needs the order of one writer's events everywhere they are
(`TurnInv`): what a writer has stored it has published before it stamps the next
event, unless it was killed or its event is the one being published
(`StoredInTurn`, `PublishedInTurn`), and the events of a writer lie in every inbox in
the order of their numbers (`InboxInTurn`), although some may be missing.
`EarlierIsPublished` follows: the stored events of a writer before a published one are
published too. So when a client takes an event from its inbox, `NoGap` says that the
earlier ones are known, lost, cut off or in the inbox as well, and `InboxInTurn` that
they are not behind it. `EmitReturns` and `Delivered` are model-checked.

## 5. Repository synchronisation

### Module and correspondence

`RepositorySync` is one repository, cloned or local, with any number of `Syncer`
workers, its row, its directory and the remote. At first there is no row. The
directory is absent, `bare` (without `.git`), `partial` (git is cloning it, or
`rmtree` removing it), `torn` (a pull is rewriting it, or has left it half updated) or
`whole` at a commit; it also says which git writes it, which commit that brings, and
whether `.git/index.lock` is there.

| Model | Code |
|---|---|
| `RequestById` | the sync endpoint and the admin action: 404 without a row |
| `GetOrCreate`, `Insert` | the SELECT and the INSERT of `get_or_create_from_input`; that there is one row is what the unique constraint guarantees, and is taken as given |
| `Begin`, `Save`, `Except` | the three saves of `sync`; `located` says that `local_path` is set |
| `Look`, `Check`, `RemoveBegin`, `RemoveEnd` | the tests for `.git` and for the path, and `rmtree`, which is not atomic |
| `Fetch`, `PullUpToDate`, `PullBegin`, `PullEnd`, `PullFails`, `GitFails` | `git fetch` and `git pull --ff-only` (`services.py:246-247`): nothing to do, or the files from the first to the last, or a failure before or among them |
| `CloneBegin`, `CloneFetched`, `CloneEnd`, `CloneFails`, `CloneRefused` | `git clone`: first `HEAD`, then the files |
| `Measure` | branch, commit and count, which swallow git's errors |
| `Push`, `LocalPathChanges` | the remote, and the owner of a local path |
| `Crash`, `GitDies`, `OrphanStep` | a killed worker, whose git dies with it or goes on alone |

Git is external and modelled by what the code meets. A clone refuses a
directory that is not empty and removes what it made when it fails; a killed one
leaves it. A pull takes the lock of the index, rewrites the files one by one and
moves `HEAD` at the end, so that in between, and for good when it fails or is killed,
files are of two commits; a killed one may leave the lock, on which later pulls fail
unless they find nothing to do. In a clone whose checkout was interrupted a pull may move
`HEAD` and does not bring back the files. In a directory without `.git` git works on
the repository around it. One simplification: a git whose directory somebody removes
while it writes fails, or ends before that. Branch names, file counts and URL parsing
are left out.

### Runs

* `sync_race`: two workers with two requests each, both kinds of repository, two
  commits, one kill; every failure of git, `rmtree` and the database. Two workers
  are every pair of steps on one row and one directory; two commits are an old and a
  new one. `SyncingHasSync`, `FailedExplained` and `SavedIsFresh` hold
  throughout. `CloneStaysSafe` says when a clone is safe for good: once it was
  complete and nobody is left who found none (or still clones), nothing removes it,
  takes its `.git` or moves its `HEAD` back. It does not say that the clone stays
  complete: a pull that fails or is killed leaves it half updated, perhaps with a
  lock that nothing in the code removes. `SyncedHasClone`, that
  a synced row describes the clone, is stated for the part of a behaviour in which one
  worker has served every request and was not killed (`Solo`); with two, or a kill,
  it does not hold. `SyncEnds` under `FairSpec`.
* `doc_clone_reused` refutes `CloneKept` with two workers ("Reuse already cloned
  repositories", `README.md:1181`): each finds no `.git`, and the second removes
  what the first has just cloned.

Fairness: weak for each worker's steps. A worker executes its statements and git
commands end; `run_git_command` has no timeout, so a remote that never answers is
outside `SyncEnds` until the worker is killed. Pushes, requests and kills are not fair.

Read in the code and not checked: two syncs may leave the older commit in a synced
row (each measures, then saves); a clone killed in its checkout is reported as
synced by every later sync, with files missing; one worker's pull that finds nothing
to do saves `synced` while another still checks the clone out; after a pull is killed with
its lock no sync brings the clone to a newer commit until somebody removes the lock
by hand, where the README promises "Pull latest changes if already cloned" and "Use
latest available code" (`README.md:751-752`).

### Proofs

`RepositorySyncProofs`, for any number of workers, commits, requests and kills:
`TypeCorrect` (what a kill makes of the directory is the lemma `CrashDirectory`);
`SyncingAlwaysHasSync` and `FailedAlwaysExplained`,
which are inductive together with the type (`RowInv`); `SavedAlwaysFresh`, for which
`FreshInv` adds that the directory a worker is about to measure is as new as its
sync: true because a pull or a clone brings what the remote had since the sync began,
`HEAD` never goes back, and a local directory is always at its newest;
`CloneAlwaysStaysSafe`, action by action: whoever could remove or replace the
directory is at a label that `CloneSafe` excludes, and whatever a pull leaves has a
`HEAD`, either the old one or, by `FreshInv`, a newer one; `SyncedAlwaysHasClone`, whose
invariant (`SoloClone`) says of a solo worker what the directory is at each of its
labels, half-updated after a failed pull included: it is then behind, so that the next
pull cannot take it for up to date.
`CloneKept` does not hold and `SyncEnds` is model-checked.

## 6. Starting a session

### Module and correspondence

`ResearchRequest` extends `RepositorySync`: a worker may also serve
`POST /api/research/sessions/`, which registers the repository, synchronises it if
asked, creates the session and runs it, while other workers synchronise. The
steps of the synchronisation are those of `RepositorySync`, so a sync that a
session starts and one that the endpoint starts are the same code, as in the program.

| Model | Code |
|---|---|
| `StartById`, `StartByInput`, `Resolve` | the serializer's checks and `resolve_repository` of `start_session`; what fails is answered with 400 and leaves no session |
| `CreateSession`, `CreateFails` | `create_session`, and the decision of `run_agent` |
| `RunExisting` | the run endpoint for a session that exists |
| `OpenRepository` | `researcher_node` reads `local_path`; where it is empty, `Path("")` is the directory of the server |
| `Search`, `ReadFile`, `RunFails`, `Complete` | what a run sees of the directory, and its end |
| `RepositoryRequest`, `RepositoryStep` | the repository endpoints |
| `Kill` | a killed worker: its session stays as it is |

A run searches once and reads once (a run with more looks has more moments of the same
kind), and a session is run again by the worker that created it (workers keep
nothing between requests, so any other idle worker would do the same). Observed are
whether the clone was safe when the session was created (`calm`), the newest
commit when its synchronisation began (`asof`), and what the run has seen.

### Run

`requests`: two workers with one request each and one rerun of a session, two
commits, so that one worker's pull can rewrite what the other's run searches, one kill,
git and the database may fail; cloned repositories, as `sync_race` has the local ones.

* `SearchesOwnTree` ("Clone repository if missing"): a run whose request
  synchronised never searches the server's directory. A session of a repository
  that was never synchronised, started with `sync_repository` false, does.
* `FreshResearch` ("Use latest available code"): what such a run sees is not missing
  or partly removed, and no file of it is older than its synchronisation, if the clone was
  safe when the session was created. Without `calm` another first sync may remove the
  clone during the run. It does not say that the files are of one commit: a run that
  searches during another worker's pull sees some files before and some after it, and a
  pull that was killed leaves it at that.
* `ImplementsSync`: with its sessions hidden the module is `RepositorySync`.
* `RequestsAnswered`, with weak fairness for the steps of accepted requests.

### Proofs

`ResearchRequestProofs`, for any number of workers: `RequestsImplementSync`,
which makes every safety theorem of `RepositorySyncProofs` one about this module
(`RequestsKeepRow`, `RequestsKeepClone`); `RequestTypeCorrect`;
`AlwaysSearchesOwnTree` (`SearchInv`: a worker that is about to create a session after a
synchronisation has a located row, and a row is located for good);
`ResearchAlwaysFresh`, which rests on `CloneStaysSafe` and `HeadGrows`: a safe clone keeps
its `.git`, its `HEAD` only grows, and the files of a pull that has not come to its end
are of `HEAD` or of a newer commit, so none is older than `HEAD` (`FreshSessions` says
both of every session, from its creation on). `RequestsAnswered` is model-checked.

## 7. The options of a run

### Module and correspondence

A session's options are stored as a JSON dictionary and as three columns.
`AgentOptions` follows them from requests through overlapping runs to the calls of
the model. A dictionary is a record with `Unset` for absent keys and `Blank` for
the empty string, because `d.get(k, x)` and `d.get(k) or x` treat the two differently.

| Model | Code |
|---|---|
| `Validated`, `NewRow`, `Created` | the create serializer (default and range of `max_steps`), `create_session` |
| `RunRequest`, `Merged`, `MergeOptions` | the run view and the merge of `run_existing_session`, saved with three columns and the dictionary from the view's instance |
| `RunnerGet`, `RunnerMarkRunning`, `AnswerRefresh`, `SaveAnswer`, `RunnerRefresh` | the instances that the runner and the answer node fetch and save whole |
| `LoadContext` | provider and model of the graph state, from the dictionary |
| `Planner`, `AnswerWriter`, `Invoke`, `Client` | which client and model each node asks: the planner completes a model that is not named from the column of a fresh row, the writer from the settings |
| `RunFails` | an exception anywhere, a killed worker, options that `int()` refuses; the except clause saves the runner's old instance, or fails as well |
| `Leave` | a worker that has answered holds nothing of the request |

Provider names are lower case. Without an API key nothing is sent and the node falls
back, which any call may do here.

### Run

`options`: two workers, three requests, five dictionaries that cover absent, blank,
named and unknown values and `max_steps` of nothing, 0 and 50. Two workers are
one old instance against one new row; three requests let a third run read what the
two have left. Workers are interchangeable.

* `ColumnsAgree`: the columns are those of the dictionary, or the defaults; only a
  merged `max_steps` of 0 is in the dictionary alone. Both are always saved from
  one instance, so that even a save that takes back another request's options takes
  them back in both.
* `AskedAsRequested`: a run's calls go to one provider and to the model its
  dictionary named, whatever is stored meanwhile, and a run that nothing overlapped
  asks what its request names.

Read in the code and not checked: an anthropic run without a named model is planned
with the column's default `gpt-4o-mini`, while the answer is written by
`ANTHROPIC_MODEL`; `load_context` always names a provider, so the setting
`LLM_PROVIDER` (`llm.py:31`, `.env.example:23`) is never consulted by a run; a
full save of an overlapping run takes back options that a request has merged.

### Proofs

`AgentOptionsProofs`, for any number of workers, requests, names and dictionaries:
`TypeCorrect`; `ColumnsAlwaysAgree`, whose invariant `AllAgree` extends the
agreement to every instance in memory, because every instance is saved sooner or
later; `AlwaysAskedAsRequested`, whose invariant `Asking` follows the named options
from the dictionary of a lone request through the row and the runner's instance to the
state, label by label.

## 8. What is proved and what is checked

Every invariant, action property and refinement that a passing run checks is also
a theorem, for all values of the constants but the ones its hypotheses name: one
runner in `TotalsAlwaysExact`, `AnswerAlwaysAdvances` and `TokensAlwaysRecorded`, no
failing statement in the last two and in `AuditTrailKept`, which has no kills either
and finitely many processes. Without these conditions the properties do not hold (TLC
refutes each property with two runners, a failing statement or a kill, whichever the
theorem excludes); their run, `session_rerun`, has them too.

Only model-checked, because the prover handles neither fairness nor ENABLED:
`RunningEnds`, `RequestsReturn`, `EmitReturns`, `Delivered`, `SyncEnds` and
`RequestsAnswered`. The properties of the `doc_*` runs do not hold. No theorem is by
induction over sequences or a recursive definition: `Merged` and `Best` are
defined by counting, so that `LeastNumber` and the cardinality theorems suffice.

## 9. Not modelled

* The CRUD endpoints of findings and tool calls (`services.py:600-734`), which no
  agent code uses; `list_files`, which no node calls.
* Token counts in responses (`llm.py`): `tokens` counts answered calls.
* Output serializers, selectors, admin, URLs: conversions and read paths.
* Settings and deployment: the reason for several workers, for kills and for the
  missing transactions, and otherwise configuration.
* `max_steps` as a limit of a run: no code reads it from the state.
* Unused helpers (`citations.py`, `context.py`, `guards.py`, `tools/registry.py`).

## 10. Plan

What is done is described above. In order of importance, what is left:

1. `EvidenceSelection` continued: the prompt's evidence, cut at 70000 characters,
   against the references that are stored; previous findings of other sessions.
   A refinement that maps it to the session's `Search` and `ReadMatches`.
2. A composition of `RepositorySync` and `EvidenceSelection`, in which `Change`
   is the sync's own step; `ResearchRequest` has the interleaving without the lines.
3. Two sessions of one repository: `last_analyzed_at`, previous findings.
4. Proofs: which of the properties of one runner survive for several (a completed row
   has totals that were exact at some moment of its run), and what of the timeline's
   order a client has that asks for a history.
