# TeamAI in TLA+

TeamAI (`src/src/teamai`) runs a team of language-model agents on one goal: a planner
writes a plan, specialists work on its tasks with tools, a critic reviews each artifact,
a finalizer writes the result, and everything that happens is recorded as numbered events
in SQLite. This directory models that program in TLA+, checks the models with TLC, and
proves theorems about them with TLAPS. A run is one asyncio coroutine, so the difficulty
is not preemption but *sequences*: long chains of awaits, each of which may raise, be
refused by a shared budget, be rejected by a human or be cancelled, with a log and a store
that must tell the truth afterwards.

## Inventory

| Part (under `src/src/teamai`) | State it keeps | Operations | Interacts with |
|---|---|---|---|
| `workflows/validation.py` | locals of Kahn's algorithm | `validate_plan`, `topological_task_ids` | called by the workflow with the planner's plan and the specialists' capabilities |
| `core/events.py` | `_sequence` | `emit` | awaited by everybody; appends to the store |
| `core/budgets.py` | `model_calls`, `tool_calls`, `started_at` | `check_runtime`, `check_task_count`, `consume_*` | agents before each attempt, the broker before each tool |
| `agents/base.py`, `providers/audit.py` | locals of a structured call | `_complete_structured`, `complete` | budget, provider, events |
| `tools/broker.py`, `tools/base.py` | none beyond a call | `execute` | budget, approval provider, tool, events |
| `human/*` | none | `request` | human, or a constant answer |
| `workflows/task_execution.py` | revision, tool results, usage | `execute` | specialist, broker, critic, store |
| `workflows/plan_execute_review.py`, `pipeline.py` | order, artifacts by task, usage | `run`, two approvals | all of the above, `core/routing.py` |
| `conductor.py` | result | `run` | workflow, events, store |
| `persistence/sqlite.py` | one connection, three tables | `append_event`, `save_artifact`, `save_run`, queries | shared by all runs of one runtime |
| `runtime.py` | clients, store, tools | enter, exit, `run` | builds a conductor per run |
| `tools/builtin/filesystem.py` | workspace files | list, read, write | called by the broker |
| `config/`, `providers/registry.py` | none | `load_team_config`, validators, client and tool lookup | before a run, and whenever a run looks something up |
| `telemetry/redaction.py` | none | `redact`, `truncate`, approval preview | every payload the broker logs |
| `cli/app.py` | locals of a command | `run`, `validate`, `inspect`, `list` | enters a runtime, or reads the file of another process |
| `providers/openai_compatible.py`, `providers/fake.py`, prompts | none | HTTP, text | behind a model call |

What is hard: a raise at any await unwinds five frames; the conductor's handler uses the
same emitter and store that may have raised; budgets are shared across frames and retries;
approvals sit between a decision and its effect; the executor's locals survive across
revisions; validation promises things the workflow relies on much later. Around one run,
several share a connection whose open transaction survives a failed commit, several
processes share a file, and tools check a workspace that others change. `PROJECT.json`
lists each hazard at its line with the property that would catch it.

## Modules

| Module | Models | Variables |
|---|---|---|
| `RunContext` | emitter, budget, and the exception in flight | `sequence`, `events`, `model_calls`, `tool_calls`, `overtime`, `raised`, `store_faults` |
| `ApprovalGate` | request / decision handshake (written three times in the code) | `approval` |
| `LLMAgent` | one structured model call with retries and audit rows | `call` |
| `ToolBroker` | one tool call | `tool`, `effects` |
| `TaskExecution` | one task: tool loop, artifact, review, revisions | `work`, `artifacts` |
| `PlanValidation` | early checks and topological sort | `plan`, `verdict`, `incoming`, `queue`, `ordered` |
| `TeamRun` | conductor and both workflows, around all of the above | `run`, `row` |
| `RunLifecycle` | abstract: one run as its caller and a later reader see it; `TeamRun` implements it | `milestones`, `status`, `outcome`, `disturbed` |
| `SQLiteStore` | connections, the open transaction, the write lock, the file | `file`, `draft`, `writer`, `open` |
| `TeamRuntime` | processes that enter, run several goals, leave or are killed, and an inspecting process | the store's, and `runtime`, `clients`, `host`, `phase`, `struck`, `inspection` |
| `AuditLog` | abstract: what the file promises over all runs and crashes; `TeamRuntime` implements it | `kept`, `settled` |
| `TeamConfig` | loading and validating a Teamfile, and the lookups that rely on it later | `teamfile`, `step`, `error` |
| `Redaction` | `redact`, `truncate`, markers, the approval preview (operators) | |
| `FilesystemTools` | list, read and write under the workspace root while others change files, directories and links, and what the log shows of them | `disk`, `links`, `call`, `moved`, `edited`, `touched`, `log`, `edits`, `calls` |
| `*Proofs` | theorems and their lemmas | |
| `MC*` | instances for TLC | |

Three groups share nothing but the code they model. The first seven modules are one run:
`ApprovalGate` and `LLMAgent` extend `RunContext`; `ToolBroker` extends `ApprovalGate`;
`TaskExecution` extends `LLMAgent` and `ToolBroker`; `TeamRun` extends `TaskExecution` and
`PlanValidation`, and maps onto `RunLifecycle`. `TeamRuntime` is many runs: it extends
`SQLiteStore`, reduces a workflow to its store traffic (an artifact, or an exception at any
point), and maps onto `AuditLog`. `TeamConfig` and `FilesystemTools` (with `Redaction`)
stand alone.

In the first group a call is modelled by its frame: the caller puts a fresh frame into the
callee's variable (`call' = AskCritic`, `tool' = ToolCall(...)`, `approval' = Asking(...)`)
and continues when that frame says `returned`, `done` or `granted`. Each module also has a
small driver (`CallAgain`, `CallTool`, `AssignTask`) that plays the caller, so it can be
checked and proved alone; the composed module uses the same actions without the driver.

There one action is one stretch of code that ends in an append to the store, so it makes the
append and every assignment around it. Between two appends nothing else can observe the
coroutine. An exception is the value of `raised`; every action but the conductor's needs
`Running`, which is how an exception skips the rest of the frames.

How the data is abstracted: task ids are numbers; a plan's text is left out; a
`WorkProduct` is the sequence of tools it requests; a `Review` is its decision; usage
counts one unit per model response; an event keeps its number, type, task and one word of
its payload; the wall clock is the one bit `overtime`, which may become true at any time.
Rows appended or stored are what the run's own connection sees: an operation that raises
may have failed before its insert or only at the commit, and both are explored. (What a
rollback by SQLite takes away again is `SQLiteStore`'s part, not `RunContext`'s.)

### The store and the runtime

A store method executes one statement and commits, both synchronously, so no coroutine of
the same process runs in between and a second process waits for the lock: a method that
succeeds is one step. A method that raises leaves one of three states: nothing happened;
the row sits in the connection's open transaction, which holds the write lock (a busy
commit); or SQLite rolled that transaction back (disk full). The code neither rolls back
nor retries, so the next commit of that connection, perhaps another run's, makes the row
durable. A consequence the model shows: a `succeeded` row can become durable although the
caller of that run got the store's exception. `ReturnedRunsDurable` and `AuditLog` state
what does hold in spite of this.

How a run may lose its outcome is `UnrecordedOnlyByCause`: a run is over when its call of
`run` has ended, and its outcome is its row together with its terminal event. A cancelled
run never has one, because `except Exception` does not see a `CancelledError`
(`conductor.py:116`). Any other run has one unless a store operation of its own raised, its
store was closed under it, or an operation on another connection raised and left that
connection holding the write lock. A fault that strikes another run of the same connection
is not among the causes, although the two share the open transaction it leaves.

A killed process loses its open transaction; the committed file survives (loss of power is
outside). Readers see committed rows; that a query may also raise "locked", which merely
ends the inspection, and the short exclusive phase of a commit are left out. `--latest`
orders by wall clocks of different processes, so it is any run that has a row.

### Teamfiles

A Teamfile is its text, as far as the loader tells texts apart, and the configuration the
text spells. `Load` makes the field checks and `validate_references`; `EnterRuntime` and
`BuildTeam` are the later code that does its own lookups and would raise `KeyError` or
`ValueError`. Entering may fail for an accepted Teamfile: no validator looks whether
`base_url` is a URL, so `httpx.AsyncClient` may raise, or whether the database and the
workspace can be made. `ValidConfigsBuild` is about the lookups only. The order of the agents
mapping is kept, because `_first_agent` depends on it.

### Files and the log

A location is a sequence of names, a disk maps locations to sizes, and `links` says which
locations are symbolic links and where they lead. A tool call takes a step per system call
(`is_file` with `stat`, and one directory listing, are one step each). Between any two,
another process may create, resize or remove a file or an empty directory (`Edit`), and put a
symbolic link in the place of a file or a directory or take one away (`Relink`). Only the
workspace root and the directories it is in are assumed to stay.

`_resolve` checks a path once and the tools use it by name afterwards
(`tools/builtin/filesystem.py:33`, then 96, 129 and 130), so a link that is changed in between
leads out of the workspace, and the file it leads to is read or written. `SECURITY.md:28-29`
requires that symlink escapes are rejected; the code does so for the links there are when the
path is resolved. `ConfinedUnlessRelinked` states exactly this: a call leaves the root only
if, after its path was resolved, a link changed where the path or a directory on its way
leads (`moved`). That nothing is ever touched outside the root is false of the code, and of the
model.

A value in a log payload is a leaf: its path of keys, where its text came from, and how it is
shown; so truncating or redacting twice is computed, not assumed away. `redact` takes a
string for a marker if it begins with `<redacted `, whoever wrote it
(`telemetry/redaction.py:66`). Contents, as arguments and in files, may begin like that
(`prefixed`): they are then logged as they are, at full length.
`ContentHiddenUnlessPrefixed` states what remains: any other content is replaced, and the
approval preview is replaced always, because it begins with `Path: `. Files are measured in
single-byte characters. A workspace root of `/` refuses everything but itself, as in the
code, where no resolved path starts with `//`.

## Runs

| Run | Checks |
|---|---|
| `plan_validation` | the sort's counters are exact, nothing is scheduled twice, the order respects dependencies, and exactly the cyclic plans are refused |
| `llm_agent` | types, a uniquely numbered log, the model budget, request/outcome rows side by side, no early giving up |
| `tool_broker` | each gated effect directly follows its own approval; effects stay within the budget and are recorded first |
| `task_execution` | artifacts carry exactly the observations of their revision; one artifact per revision; completion needs a pass of the returned artifact; revisions only on request |
| `planned_run` | dependencies complete first, approvals precede readiness, a rejection ends the run, validated plans never fail in routing or lookup, a succeeded run is complete |
| `pipeline_run` | every run ends; outcome, row and log agree |
| `run_faults` | the same agreement with two store faults, so that the failure handler fails too, in a run with tools, retries and revisions; and the run implements `RunLifecycle` |
| `team_runtime` | returned runs are durable, a run that is over without its outcome on file has one of four causes, inspections are not torn, the file is an `AuditLog`, begun runs end |
| `team_config` | the lookups of the registry and the conductor succeed for an accepted Teamfile |
| `filesystem_tools` | tools stay under the root unless a link on the way changed after the check; a read is within the limit unless the file changed under it; content reaches the log only if it begins as a marker; request and approval request show the same for it |
| `runtime_limit` | **violated**: a run over `max_runtime_seconds` is stored as succeeded |
| `teamfile_errors` | **violated**: a Teamfile that cannot be decoded or parsed stops the loader with another exception than the documented one |

The two last runs are disagreements between the code and its own comments.

* `core/errors.py` documents `BudgetExceededError` as "Raised when a run exceeds a
  configured execution limit", but `check_runtime` runs only when a model or tool call
  starts. TLC's counterexample lets the clock pass while the finalizer's answer is awaited:
  nothing looks again, and the run succeeds.
* `config/loader.py` documents `TeamfileValidationError` as "Raised when a Teamfile cannot
  be loaded or validated", but translates only `OSError` and pydantic's `ValidationError`.
  A file that is not UTF-8 or not YAML leaves with `UnicodeDecodeError` or `YAMLError`,
  which the command line does not catch.

### Bounds

* Plans: every plan of three tasks listed out of id order with up to two dependency
  entries each (2197 of them: repeated entries, self-dependencies, cycles of length 1 to
  3), some four-task diamonds with repeated edges, and a plan for each early refusal. The
  sort treats ids and edges uniformly, and the theorems below have no bound at all.
* Whole runs: four plans of at most two tasks (against the listing order with a repeated
  dependency and high risk, independent, unsatisfiable capability, cyclic), two
  specialists with nested capability sets. Two tasks are enough for a wrong order, a
  missing dependency, an approval given to another task and artifacts mixed up.
* `MaxModelCalls` 4 to 7, `MaxToolCalls` 1 to 3, retries 0 to 2, revisions 0 or 1: chosen so
  that each limit is hit exactly and exceeded by one, that a revision can follow a tool
  round, and that a full two-task run with finalization still fits.
* `MaxStoreFaults` bounds how often the store raises: 0 in `planned_run`, one in the
  component runs, two in `run_faults` (the first fault and one in its handler; there is
  no third operation that could still fail).
* `team_runtime`: two runs and two processes, each run on a process chosen freely, so both
  on one connection and one on each are covered; one client that may fail to close, one
  inspection. `Unlucky` names the runs whose store operations may raise, as often and in
  whichever of the three ways: one run, so that what it does to the other is seen; the two
  are alike otherwise. The theorems have no bound.
* `team_config`: about 1500 Teamfiles that differ in one or two places from a sound one.
  The code checks each place separately; the theorems cover every Teamfile.
* `filesystem_tools`: a workspace with a file and a directory, beside it a directory whose
  name begins with the workspace's; a link that leads out, and three sets of links to change
  between, two of them with another link in the place of the directory or of the file;
  relative and absolute paths with `.`, `..` and the link; limits of two or three characters with contents at, below and
  above, one of them `prefixed`; two calls and one change by another process (`MaxCalls`,
  `MaxEdits`). One change between a check and its use is what the check can miss.

### Fairness

`RunEnds` assumes weak fairness of the run's own steps (`RunStep`) only. The event loop
resumes a coroutine whose awaitable is ready; a provider's answer arrives or the HTTP
client's 60 s timeout turns it into an error (`providers/openai_compatible.py:19`); an
approval is answered at once by the two non-interactive providers, and is an assumption
about the person at the terminal otherwise. Cancellation, the clock and faults are not
fair: they may never happen. That the `while True` tool loop ends is not assumed; it
follows from the budgets. The fairness of `RunLifecycle`'s step is not assumed either: TLC
derives it from that of `RunStep`.

`BegunRunsEnd` assumes weak fairness of each run's own step, for the same reason; SQLite
answers or raises within its 5 s busy timeout, so even a database locked for good lets the
run go on, to an exception. Nobody is obliged to start a run, to leave a runtime, to inspect,
or to be killed.

## Proofs

All theorems hold for every value of the constants; their only assumptions are the named
ones of the modules (limits are positive numbers, as `config/models.py` enforces; a
Teamfile is well typed; `NoConnection` is no connection; `SchemasAssumption` and
`RunSchemasAssumption`: the schemas the code asks for exist; `DiskAssumption`,
`RootAssumption`, `ContentsAssumption`: the disk knows every place a path leads to, a
resolved path has no links on its way as long as the links stay - what `Path.resolve`
promises -, the workspace root is an existing directory, and a content is a text, one that
begins as a marker, or no string).

* `PlanValidationProofs`. The inductive invariant `PlanInv` adds three facts to the
  checked ones: a task is scheduled exactly when its dependencies have been ordered
  (`ScheduledIffMet`), each ordered task comes after its dependencies, and no set of
  mutually waiting tasks has a scheduled member (`DeadlockedNeverScheduled`). The counters
  alone are not inductive: that a child is enqueued once needs that a counter passes 0 only
  in the step that orders its last dependency. `CyclesExactlyRefused` uses the converse:
  when the queue is empty and something is unordered, the unordered tasks form such a set.
* `LLMAgentProofs`. First what an emit preserves and counts, whether or not the store raises;
  the basis for all components that emit. `CallInv` (types, numbering, and that no attempt is left over after the
  last retry) carries the rest. The budget needs `EmitCounts`. The audit trail is inductive
  with two facts: while a call waits its request is the last row (`Awaited`), and a
  malformed answer is the last row until it is rejected (`InvalidLast`). Giving up late
  enough needs the positions of the rejections so far, three rows apart
  (`RejectionsLogged`).
* `TaskExecutionProofs`, first about tool calls. An effect is gated by rows, so the invariant
  says what the last rows of the log are in each phase of the call (`Trail`): from the request
  for approval to the execution nothing else is appended. That effects stay within the budget
  needs that each effect belongs to its own executing row and that those rows are as many as
  the budget has counted (`CountInv`, `Underway`).
* Then about the executor. Which revision a row belongs to is found by counting
  `agent.started` rows, and an appended row changes no earlier count (`TaskRowRead`). While
  the run goes on these rows are as many as the executor has begun attempts (`CountedInv`),
  so a new row belongs to the current revision and artifacts of earlier ones keep what they
  carry. The invariant is about one task, `ExecutorInv(id)`, on a log and a store that others
  write as well: to a task each step is its assignment, a step of its executor, the completion
  of a tool it asked for, or nothing it notices (`Moves(id)`). It assumes `ReviewAssumption`: a review is a pass, a request to revise or a failure,
  the `Literal` of `core/domain.py`.
* `TeamRuntimeProofs`. The argument is about the open transaction: every row that is in the
  draft but not yet on file belongs to a run whose store call raised, so a later commit by
  another run can only add to runs that are not settled. From that follow the completeness of
  a settled history and `StoreImplementsAuditLog`, the refinement: the whole of `Spec`
  implies `AuditLog`'s specification under the mapping. `InspectionsAreComplete` adds what
  was read so far. `OutcomesRecordedUnlessCause` adds that a connection holding the lock
  between two steps is that of a run whose store operation raised, so a store refuses a run
  only if it is closed or after a fault on another connection.
* `TeamConfigProofs`. What both validators passed stays true of the file; `_first_agent`
  finds an agent because a non-empty set of positions has a least one.
* `TeamRunProofs`. `FramesInv` says which frames are in use in each phase of the run: only
  the one on top moves, and none is left once the conductor records an outcome. `StoryInv`
  gives, for each phase of the conductor, which milestones the log holds, what the row says
  and what may be raised; `OutcomesStayConsistent` and `RunImplementsLifecycle` (the safety
  part of `KeepsLifecycle`) follow. `RejectionsEndRuns` needs that a rejection is the last
  row until the failure is recorded; `TasksApprovedBeforeReady` that the end of the log is
  known while an approval is awaited (`TrailInv`) and that what was said of an earlier row
  stays true (`ReadyInv`, `LogInv`).
* `TeamRunPlanProofs`. What validation proved of a plan is carried into the run
  (`PlannerInv`); `LoopInv` says that of every task still to do each dependency is accepted or
  listed earlier, which is why the lookup of dependency artifacts cannot fail, and
  `SomebodySelected` that routing has a least eligible specialist. For `SucceededRunsAreComplete`
  the usage of every response is followed as it is handed from the call to the task to the
  run (`UsageInv`). It assumes `PlannerAssumption` (a planner's answer that parses is a plan)
  and `TeamAssumption` (there is a specialist, as `validate_references` requires, and
  capabilities are finitely many).
* The same module carries what the calls guarantee on their own into the whole run
  (`RunEffectsApproved`, `RunEffectsWithinBudget`, `RunModelCallsWithinBudget`,
  `RunAuditTrailComplete`, `RunHistoryIntact`, `RunTypeCorrect`): the budgets are shared by
  all agents and tasks, and the audit trail by all calls. The invariants of a call speak of
  the last rows of the log while it is in progress, so nobody else may append then. Every
  step is one of a model call, of a tool call, or of a caller (`MoveKinds`); a caller
  moves only when its call has answered or when an exception unwinds to it (`CallersTurn`),
  emits rows of other types (`CallerRows`), and a model call and a tool call are never both in
  progress (`OneCallAtATime`). `GivesUpAfterAllRetries` is a statement about calls one after
  another with nothing in between, so it stays with the component.
* Last, what the executor guarantees, for each of a run's tasks (`RunRevisionsOnRequest`,
  `RunArtifactsStaySingle`, `RunCompletionsReviewed`, `RunObservationsInRevision`). Every step
  of a run is one of `Moves(id)` to every task (`RunMoves`). What that needs is that a task
  still to do has left no row and no artifact (`FreshInv`): the counting of `agent.started`
  rows would be off otherwise. It holds because the tasks to do are distinct (`LoopInv`), so
  none is done twice, and because a tool call belongs to the task at work (`ToolOfTask`).
* `FilesystemToolsProofs`. Confinement needs nothing of how paths are written: a location
  that passes the prefix check has the root among its parents. As long as no link moved the
  path, it and each directory on its way are their own places; what a `mkdir` of parents
  creates is below the root because the root and what it is in exist and stay. That a read
  within the limit needs the file unchanged is `ReadsWithinLimit` itself; the invariant
  relates the size `stat` saw to the disk for as long as nobody changes file or link. What is
  kept from the log is kept by the shape of each payload in each phase: redaction replaces the
  keys that hold content, once for the request and once more for the approver, whose entry
  shows the same because a second redaction changes neither a marker nor what looks like one.

Only model-checked: everything about liveness (`RunEnds`, `BegunRunsEnd`, the fairness of
`RunLifecycle`), which is out of the prover's reach, and the `LoadErrorsAreReported` and
`SucceededWithinRuntime` of the two violation runs, which are false.

Definitions with a comment beginning "Mutant" are deliberately broken variants of the
definition that follows them; no specification uses them. They record which slip in the
code each property would catch.

## Not modelled

* HTTP and JSON in `providers/openai_compatible.py`: seen as an answer that parses, one that
  does not, or an error. Prompts, and the plan and texts of the fake client: no property
  depends on their wording, and `planned_run` explores any plan a client may answer with.
* Argument parsing, printing, `init`, `schema` and `list` of the command line: input and
  output around calls that are modelled; `list` differs from `inspect` only in ordering by
  the wall clock.
* The one-time migration of an old database file (`ALTER TABLE` at opening), and the JSON
  schema and example check scripts.
* Loss of power below SQLite's own guarantees.
* `max_parallel_tasks` and most of `RunStatus` and `TaskStatus`: declared in the code but
  never used by it.

## Plan

`ReviewedPlan`, an abstract specification of the workflow (tasks completing in an order
compatible with their dependencies, one at a time), implemented by `TeamRun`.
