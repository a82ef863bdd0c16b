# Spark Control: TLA+ models and proofs

Spark Control is a gateway that shows and operates model servers on a small
GPU cluster. A *recipe* is a model deployment described by the configuration
file: the nodes it uses, its port, its container names and compose project, and
the two scripts that start and stop it. Recipes that want the same port on the
same node exclude each other: they share a *lane*. The gateway runs the scripts
over ssh as asynchronous *jobs*, and a start on a lane that another recipe holds
must be confirmed and becomes a *swap* (stop the holder, then start).

This directory holds TLA+ modules for the gateway's control logic, TLC
configurations that check them on small instances, and proofs checked by the TLA+
proof system. `PROJECT.json` is the index: components, runs, the source lines each
definition stands for, hazards, findings and theorems. File and line numbers
refer to `src/src/sparkcontrol/` unless they say otherwise.

## 1. The system

| component | state | operations | module |
|---|---|---|---|
| Recipe registry (`recipes.py`) | the recipes, read once at boot | `from_config`, `get`, `all`, `conflicting`, `head` | `Recipes` |
| Job runner and ledger (`jobs.py`) | SQLite rows, `_tasks`, the records in memory | `submit`, `_run`, `emit`, `upsert`, `non_terminal`, `reconcile` | `JobLedger`, and its abstraction `JobRunner` |
| Start/stop arbitration (`lifecycle.py`, `ServerControl`) | `op_lock`, handlers' locals | `start`, `stop`, `_wait_job`, `detect_active`, `in_flight_operation` | `ServerControl` |
| Script executor and ssh (`lifecycle.py`, `ssh_adapter.py`) | one coroutine per job | `execute`, `_wait_healthy`, `SubprocessSshClient.run` | `ServerControl` |
| Nodes, containers, scripts | containers (running, paused, restarting), loaded models | the wrapped scripts; crashes | `Cluster` (external) |
| Entrypoint (`__main__.py`) | none | `build_control`, `main` | `Restart`, constants `Durable`, `ReconcileOnBoot` |
| HTTP routes (`routes.py`, `errors.py`, `app.py`) | none | handlers, error mapping | reply kinds and `HttpStatus` of `ServerControl` |
| Server status (`lifecycle.py` 456-553) | a read's locals | `server_status` | `View`, `Dashboard` |
| Dashboard (`ui.py`, `app.py` 74-109) | none | `view_model`, `recipe_catalog`, `GET /api/ui` | `View`, `Dashboard` |
| Shell (`static/app.js`) | last view, pending action, followed job, press timer | refreshing, tap, long press, confirmation | `Shell` |
| Authentication (`auth.py`, `deps.py`, `config.py`; `token()`, `api()` of `static/app.js`) | the gateway's token, the browser's copy | `authorize`, the prompt, the 401 path | `Session` |

### How the parts interact

A `POST .../start` or `.../stop` runs a coroutine of `ServerControl`. It asks the
ledger whether a job is in flight (refusing if so), takes `op_lock`, asks again,
probes the nodes with `docker ps` over ssh, and ends by submitting a job or with
one of a dozen answers. `submit` writes a row and creates a task; the task
writes RUNNING, calls the executor, and writes the verdict. The executor dials
ssh, waits for the script, and for a start polls `/health` until the model
answers or a deadline passes. Meanwhile containers crash, models load, and the
gateway itself may be restarted; the ledger file, the scripts and the containers
outlive it.

`GET /api/ui` reads the nodes, the active recipe, its health and its model one
after the other, then a job, and `view_model` turns them into a view. The shell
asks for a view every five seconds and after every action, renders whichever
answer comes last, and posts starts and stops from the main button (tap to start,
long press to stop) and the recipe list. Every request carries the bearer token the
browser keeps; a 401 removes it and asks the user for another.

### What is hard

* **Interleaving.** Two requests and a job's coroutine run between each
  other's awaits. The in-flight check is made once outside the lock and again
  inside; a swap keeps the lock over a whole stop job; between the stop job's
  verdict and the start's submission no other request may get in.
* **Atomicity over ssh.** The holder of a lane is found by one `docker ps` per
  recipe, so the answer may be stale by the time it is used; the user's
  confirmation is older still.
* **Crash and restart.** The gateway's process dies between any two writes. The
  row stays, the task does not, the script on the node runs on.
* **Writes that fail.** Any SQLite write may raise, at six places with six
  different consequences; a failed commit leaves rows that the process reads and the
  file does not have.
* **Partial failure.** ssh gives up on a script that still runs; a script
  fails after doing its work, or before; a docker probe fails in the middle of
  an arbitration.
* **Stale views.** A view rests on probes of different moments; refreshes
  overtake each other; a button changes its meaning while it is pressed.
* **Liveness.** A request waits for a job that waits for a script that waits
  for a model; every one of these waits must be bounded.

### What makes each component correct

* *Registry*: the conflict relation names every recipe that fights for the lane.
* *Job runner*: a row is in flight exactly while a task works on it, and stays so
  however writes fail; a verdict is final; the output shown is the latest; every job
  ends.
* *Arbitration*: one operation at a time; at most one recipe per lane; nothing
  starts on an occupied lane; a swap has no window; an answer "already up" is true;
  the holder stopped is the holder confirmed; every request is answered.
* *Dashboard*: a view is true enough to act on: the recipe it calls running served
  during the read, Start is not offered while a job runs, a lane in use is not shown
  stopped, the lock is shown where a start would ask.
* *Shell*: a pending action ends with its POST; a stop needs a held press, a start
  a tap; the shell comes to show what is so.
* *Session*: a changed token costs a bounded number of questions, and the browser
  ends up with the right one.
* *Executor*: a start is done only when the model serves; at most one script
  runs, also after a crash.

`PROJECT.json` lists the hazards line by line with the properties that watch
them, including those no property covers yet.

## 2. The modules

`Recipes` → `Cluster` → `ServerControl` (extends), with `JobRunner`
instantiated in `ServerControl` as `Jobs` (`Actions <- Labels`). `JobLedger` is
`jobs.py` in full and is shown to implement `JobRunner`, failing writes included.
`Lane` (extends `Cluster`) is the abstract specification of the gateway:
operations one at a time, starts onto free lanes only, true verdicts.
`LaneRefinement` (extends `ServerControl`) maps the one to the other.
`View` (extends `Recipes`) holds the pure functions behind `GET /api/ui`;
`Dashboard` composes them with `Lane`, `Shell` with an environment that
keeps `Lane`'s order of operations. `Session` stands alone. Each component's
proofs are in a module of their own (section 5); `LaneLemmas` is shared by `LaneProofs`
and `DashboardProofs`, `RecipesProofs` by `LaneLemmas`. The `MC*` modules only give the
constants values. Operators whose comment begins with *Faulty* are plausible slips in the definition that
follows them; they show that the properties notice.

### Recipes

`Registry` is the sequence of recipes in configuration order (the order of
`RecipeRegistry.all()`, and therefore of `detect_active`'s probes). `HeadNode`,
`Host`, `Endpoint`, `SamePort` and `Conflicting` are translations of
`Recipe.head`, `_host`, `health_url` and `conflicting`. `RegistryAssumption`
states what `from_config` guarantees (at least one node, one entry per id).
`FromConfig` is the dict `from_config` builds, entry by entry (`Put`): an id that is
listed twice keeps the place of its first mention and the contents of its last;
`IsDict` says so of a registry and the file it was read from.

### Cluster

External code: the nodes as the probes see them. `up` is the set of deployments
whose containers exist and are not stopped, `ready` those whose server answers,
`paused` those docker calls paused or restarting. A deployment leaves
*marks* on its head node, its container names and its compose label. `Listed` is what
`docker ps` prints for a recipe, and `ContainerState` what `_container_state`
(239-274) makes of it: a listed name counts as running, whatever docker calls its
container; by label, one container must be `running`, else the recipe is `paused`,
which is not running for a start (`Detected`) and not absent for a stop (`Present`).
The recipes whose containers may be found so (`Falters`, `Recovers`) are the constant
`Flaky`. Two recipes may share marks or an address, which is why `Detected`
and `Healthy` are not the same as `up` and `ready`. The scripts' effect is taken
from how the code uses them: a start script brings the containers up, replacing
those with the same marks; a stop script is keyed by the compose project. A
script that fails may or may not have had its effect; **one that exits 0 is assumed to
have had it**. The gateway makes the same assumption: after a swap's stop job is done,
`_start` (363-371) submits the start without probing again. (The swap test,
`tests/test_server_lifecycle.py:324-336`, sees the start submitted while its static fake
still lists the holder.) `LaneExclusive`, `StartsOnFreeLane` and the theorems about them
rest on it. A deployment may die at any time. It is assumed that only the gateway's scripts bring deployments up;
an operator who starts containers by hand is outside the model. The first state
is any set of deployments that do not conflict.

### JobRunner

The abstraction that `ServerControl` is built on: `jobs.py` without the lines of
output, the results and the records. `ledger` is the table as the process reads it,
`disk` what is committed, `task` what the process holds of each job. `Submit`, `Begin`
and `End` are `submit`, the first step of `_run` and its end with the `finally` upsert;
no method awaits between reading and writing the ledger, so each is one step. Each has
its failure: a write that raises (`Loses`) leaves the row unwritten, written but not
committed, or rolled back with all that was not committed. `SubmitRaises` then makes no
task, `BeginRaises` ends it without an executor, `End` leaves the row without its
verdict, and `EmitRaises` is a line of output that fails the job. A write that succeeds
(`Saves`) commits all there is, which is all that `Emit` does. At most `MaxFaults`
writes of one process fail. Reads are taken to succeed. `Restart` loses every task and
opens the store again: the committed rows, or all rows if a cancelled task's `finally`
clause commits them on the way out, when the store is a file (`Durable`), and
reconciled, when the entrypoint calls `reconcile` (`ReconcileOnBoot`). The shipped
entrypoint opens the configured file and does **not** call `reconcile`, so the composed
runs use `Durable = TRUE, ReconcileOnBoot = FALSE`; the run of the ledger alone checks
what `jobs.py` promises to an entrypoint that does.

### JobLedger

The store has one connection, which reads its own uncommitted writes: `rows` is what
the process reads, `disk` what is committed, `record` the Python object a task
works on, which only `upsert` brings to the store. `Upserts` is `upsert` with the
ways it can fail: the statement fails and nothing is written, the commit fails and
leaves the transaction open, or SQLite rolls it back. Each caller takes the
exception as the code does: `Submit` raises without a task; `Begin`, outside
`_run`'s `try`, ends the task; `Emit` is an error of the executor, and the
`finally` clause tries again (`Finish`); if that fails too, the row stays as it is.
A write that succeeds commits whatever an earlier one left open. `Restart` is a crash
(`disk` is found) or a shutdown, which cancels the tasks, so that the `finally`
clause of one that executes writes its record once more. `tail` is the output kept,
as line numbers; `said` is a ghost that counts the lines put out. Timestamps are kept
as the order of creation. `ImplementsRunner` maps a row to its state and action
(`Briefs`) and holds of every step, the failing ones and restarts included.

### ServerControl

A handler is a client's `pc` and `call` (its arguments and locals):

| `pc` | the coroutine waits in |
|---|---|
| `idle` | no request |
| `queued` | `async with op_lock` |
| `probe` | `_container_state` of the recipe itself |
| `health` | `_health_ok` of a recipe whose containers run |
| `scan` | `detect_active`, at the recipe numbered `scan` |
| `holder` | `_stop(holder)`'s `_container_state` in a confirmed swap |
| `swap` | `_wait_job` of the stop job |

`Arrive` is the request up to its first await: the check outside the lock, then
the lock (an `asyncio.Lock` passes to its waiters in order), the second check
and the lookup. `Resume` is a waiter that gets the lock. The other actions
are one per await: `ProbeForStop`, `ProbeForStart`, `CheckHealth`, `Scan` with
`Decide`, `StopHolder`, `SwapPoll`; `ProbeFails` is a `docker ps` that raises,
`SubmitFails` a submission whose write raises into the handler. A
job's executor is `exec[j]`: dialling, waiting for the script, having the exit
code, polling health; `OutputLost` is a line of its output that cannot be saved.
(`ServerControl` has no step for one that can: it changes no row, and whenever an
executor works nothing is uncommitted, which is the first part of `StoreSettled`.)
`strays` are scripts that run on a node with nobody waiting.

**Grain of a step.** A step that waits for a probe includes the probe: the
handler holds `op_lock` meanwhile, and its continuation reads nothing but the
answer, so the probe and the continuation cannot be told apart from one step at
the time the probe was taken. (What the continuation does, submitting a job or
letting go of the lock, commutes with steps of the nodes, and the steps of
requests that queue or are refused while the lock is held.) Two *consecutive*
probes are separate steps, so a holder may die or a model load between them. Death
and reboot of the gateway are one step: nothing of the gateway runs in
between, and the nodes' steps while it is down are the same as after it.

**`_wait_job`.** It polls for 600 s (428-444) and sees the verdict, or gives up and
returns False. A stop job's task is over after 360 s (its `wait_for`, and 300 s for the
ssh call), so the 600 s run out only when the task has ended and its row has no
verdict: RUNNING could not be written, or the final write was lost. Then the row stays
in flight, the call is answered with the same 500 as a failed stop, and every later
request is refused. `SwapPoll` has the timeout in exactly that case; `SwapAttended`
states that it needs a failed write.

**HTTP.** `HttpStatus` is the table of `routes.py` with the statuses of the two
success answers and of exceptions nobody maps. A swap whose stop job fails is answered
with the generic 500 (`STOP_FAILED` is not in the table). So is one whose `submit`
raises: nothing catches that, and a pending row may be left that the process reads
(`jobs.py` 251). `AnswerFitsLane` says what an answer is worth all the same: after 202
exactly the job asked for is in flight, with its task; after any other answer from
inside the lock no task is at work, and a row is in flight only if the answer is a 500
and a write has failed.

**Where outcomes differ from the success path.** `ConnectionError` from a probe
is mapped to `unreachable`; `SubprocessSshClient.run` raises `TimeoutError` when
a probe exceeds its timeout, which nothing catches, hence the reply kind
`internal-error`. The same goes for an exception that `_health_ok` (178-188) does not
list, such as `http.client.HTTPException` (`CheckHealth`; `ReadFails` in `Dashboard`).

### Lane and LaneRefinement

`last` is the newest operation, busy or with its verdict. `Accept` starts one when
none is busy (a start only if nothing running conflicts), `Acts` is the effect
of its script, `Finishes` its verdict: a start is done only when the recipe serves,
a stop only when it is gone. `NewestOp` maps the job ledger to `last`: the newest row,
busy while it is in flight. A restart changes nothing that is visible here,
since the row of the interrupted job stays in flight and the stray script's effect is
still that of a busy operation.

### View and Dashboard

`MatchServedModel`, `StatusState`, `ShownState`, `Button`, `ViewModel` and `Locked`
translate `_match_served_model`, the end of `server_status`, `view_model`
and `recipe_catalog`. `Dashboard` reads one view at a time, one step per
probe: `ProbeNode` for every node, `ScanRecipe` for `detect_active`, `ReadHealth`,
`ReadModel`, and `Answer`, which reads the job and puts the view together (the rest of
`ui_view` does not suspend). Unlike in `ServerControl` nothing is locked, so the
step after a probe is kept apart from it and the lane moves in between. A node's
reachability is not a variable: each probe succeeds, reports
`ConnectionError`, or raises the `TimeoutError` that nothing catches (`ReadFails`).
`LaneStep` is the gateway at work meanwhile, by its abstract specification.
`seen`, `steady` and `still` are ghosts that note what happened during the read.

### Shell

`lastVm` and `drawn` are what `render` last drew (`drawn`: whether an action was
pending then, which is when buttons are disabled); `pendingAction`, `jobId`,
`pressTimer` and `longFired` are the script's own variables; `gets` and `posts`
are the requests in flight, each in a slot, delivered in any order. A slot for
the refresh in a `finally` clause is always kept free, so the bound on slots never
suppresses it. `press` is what each finger pressed. `PointerUp` is a press that ends
(lifted, cancelled, or dragged off the button), `PointerLeaves` a pointer that
leaves without pressing: a mouse, or a finger just after its `pointerup`. The three
DOM events run one handler, `Cancel`. Pointer events are assumed to reach a
disabled button too, as the handlers' own `btn.disabled` checks suggest.
`Agreed` is the confirmation: `window.confirm` blocks the browser, the second
call runs to its `fetch`, and then the first call's `finally` runs, all in one step;
another client's operation may have begun while the question was on the screen.
`DeliverGet` forgets the followed job when it is done, failed or not there; the code
would follow a job in state `unknown` on, but only `reconcile` makes one and nothing
calls it.

The gateway here is a status that changes at any time and operations one at a time;
a POST may be accepted (a new operation), refused for any reason, answered with the
question, or lost.

### Session

`secret` is the token the gateway was started with, `stored` the one in the browser's
`localStorage`, `request` the requests in flight, each with the token it carries.
`Send` is `token()` and the header, `Denied` the 401 path of `api()`, which removes
whatever is stored *then* and asks again, `Over` any other end of a request. `prompt`
blocks the browser, so question, answer and what follows are one step. `Authorize` is
`BearerAuth.authorize` with what `deps.py` and the exception handlers make of it:
`compare_digest` raises on text that is not ASCII, which is answered with 500. `Rotate`
restarts the gateway with another token.

## 3. The runs

The runs of `ServerControl` have a durable ledger that is not reconciled at boot,
as the entrypoint builds it.

| run | instance | what it shows |
|---|---|---|
| `job_ledger` | 2 jobs, 3 lines of output, a tail of 2, 2 failing writes, 2 restarts, reconciling boot, fairness | `LaneHeld`, `OnlyFaultsOrphan`, `TailIsLatest`, `VerdictIsFinal` and that all of it is `JobRunner` (`ImplementsRunner`), whichever writes fail; that jobs end unless one does |
| `lane` | 3 recipes on one lane and one beside it, 2 clients, 2 requests, 1 failing write; A's container may be paused | `OneOperation`, `LaneExclusive`, `StartsOnFreeLane`, `SwapWindowClosed`, `AlreadyUpTruthful`, `DoneMeansServing`, `AnswerFitsLane`, and the inductive invariant `Inv` |
| `crash` | 2 recipes, 2 clients, 3 requests, 1 restart | `AtMostOneScript`, `StraysInv`, `LaneExclusive` when the process dies anywhere, and that all of it implements `Lane` |
| `answered` | 2 recipes, one label-detected and possibly paused, 2 clients, 2 requests, 1 failing write, link faults, fairness | every request is answered, every job ends unless its write failed, and "already stopped" is true |
| `dashboard` | 3 recipes, one with a declared conflict, two that may be paused; 2 operations | `RunningTruthful`, `IdleWhenOffered`, `SteadyNotStopped`, `LockedTruthful` |
| `shell` | 2 recipes, 1 finger, 2 POSTs and 3 refreshes in flight | `PendingTruthful`, `StopHeld` |
| `shell_settles` | 2 operations, fairness | `PendingClears` (enabled again, and drawn so), `ShowsTruth` |
| `session` | 3 requests in flight, 2 tokens and one that is not ASCII, 1 rotation, 2 mistakes, fairness | `PromptsBounded`, `Recovers` |
| `restart_jobs` | 1 client, 1 request, 1 restart, fairness | finding: a job interrupted by a restart never ends |
| `hidden_holder` | a side recipe listed before the lane | finding: two conflicting recipes run |
| `surprise_stop` | 3 recipes, 2 clients, 3 requests | finding: a confirmed swap stops a recipe its user was never shown |
| `shell_hover` | 1 POST | finding: a start without a tap |

Besides, every run of `MCServerControl` first evaluates `FromConfigIsDict`: for every
configuration file of up to three entries, ids repeated or not, the registry is
what a reader of the file expects (`ConfigIsDict` proves it for every file). And
`LanesAreFit`, with `LocksAreFit` in `MCDashboard`: the registries of the runs have what
section 5 asks of a registry, but for those whose purpose is not to.

**Bounds.** `MaxCalls` is the number of requests ever made, `MaxJobs` the number
of job rows; a request submits at most two jobs and
`ServerControlAssumption` has `MaxJobs >= 2 * MaxCalls`, so the second bound never
cuts a behaviour. `MaxRestarts` bounds restarts. Two requests are what a race
needs: the hazards are between a handler that holds the lock (or its swap) and
another that checks, queues or resumes. Three requests are needed after a crash:
one whose job is interrupted and two that meet the row it left, or two before the
crash and one after. Three recipes make the holder found differ from the first
probed and from the recipe started, and let one be detected by its label and
share the port through its second node only; the fourth of `lane` fights nobody and may
be up, or be asked for, at any time. Clients are interchangeable and `lane`
and `crash` use that symmetry; the runs with liveness do not.

One failing write in `lane` and `answered` is enough to lose a submission, the RUNNING
of a job, a verdict or a line of output, and so to make a swap's wait run out; what the
second one adds, losing both the write that failed the executor and the one of the
`finally` clause, is checked in `job_ledger` and proved. In `crash`, `MaxFaults = 0`:
`ImplementsLane` does not hold once writes fail (section 5).

In `JobLedger`, two failing writes per process are what it takes for a job to lose both
the write that failed its executor and the one of its `finally` clause, and for a row
left uncommitted by one failure to be committed by a later success; three lines
overflow a tail of two; the second restart meets rows the first one reconciled. In
`Session`, three requests share one change of the token, and the two mistakes may
both fall on either side of it.

In `Dashboard`, `MaxOps = 2` lets the lane pass from one recipe to another within
one read. In `Shell`, two POST slots let a second action start while a confirmed
one is in flight; two operations let another client's operation be busy while the
shell still follows its own finished job; `MaxChanges` bounds the changes of the
status, which is also what makes the gateway stand still in `ShowsTruth`.
`shell_settles` has no finger on the main button: the press handlers share nothing
with the two liveness properties but the POSTs, which the recipe list sends too.

`CHECK_DEADLOCK FALSE` is set where the system stops once its bounded
requests, jobs or operations are used up. The shell never stops, and there deadlock
is checked.

**Fairness.** `FairSpec` has weak fairness of each handler's step and of each
executor's step. The event loop runs whatever is ready, and every await ends:
ssh calls and `urlopen` have timeouts, `_wait_healthy` a deadline, `_run` a
`wait_for` around the executor. Fairness is per handler and not per action: it
says that the handler takes *some* step, so a probe may fail each time. Nothing
is assumed of scripts, models, or clients: in `answered` a job ends although its
script hangs, because `LinkLost` (the ssh timeout) is among the executor's steps.
An executor's fairness is of the steps in which no write fails, so that no job ends
merely because a line of its output is bound to be lost.
In `JobLedger` the same is said of a task's first step and of its end (`wait_for`).
In `Shell`, `setInterval` keeps firing and every request in flight ends (the gateway
answers, or the browser gives up); strong fairness of a refresh's success says that
the connection is not lost for good, without which nothing can be shown. In `Session`
likewise: requests are sent and end, and a request is answered, and a refusal
received, again and again (strong fairness of `Answer` and `Denied`).

## 4. Findings

Each is a run whose single property, a statement of the repository, TLC refutes
on the model of the code; `PROJECT.json` quotes the statement.

* `restart_jobs`: `reconcile` exists and its docs and tests say interrupted jobs
  become `unknown` at startup, but `__main__.build_control` never calls it. The
  row stays in flight and, since `in_flight_operation` reads the ledger, every
  later start or stop is refused.
* `hidden_holder`: `_start` asks `detect_active` for *the* active recipe, the
  first running one in configuration order, and tests only that one for a
  conflict. A running recipe of another lane, listed first, hides the holder.
* `surprise_stop`: `confirm_swap` is a boolean. The holder is looked up again on the
  confirmed call and may be another than the one in the question, although the
  docstring promises "never a surprise stop".
* `shell_hover`: `pointerleave` runs the handler of `pointerup`, which does not
  ask whether a press began.

More disagreements were met and are kept as definitions, without a run of
their own; each takes a `.cfg` like those listed and the property named:

* `AtMostOneScript` with `LinkFaults = TRUE` (`MCServerControl`): when ssh gives up,
  the job becomes failed while the script runs on; the next request is accepted.
* `AlreadyUpTruthful` and `StartsOnFreeLane` (`MCServerControl`,
  `SharedRegistry`): two recipes with one container name are each detected when
  the other runs, so a start is answered "already up" for the one that does not
  serve, or goes ahead unasked.
* `LaneExclusive` (`MCServerControl`, `ThreeRegistry`, `Flaky = {"C"}`): a
  label-detected recipe whose container is paused is not detected, so a start goes
  ahead on the lane it holds. Whether that is wanted the repository does not say.
* `RunningTruthful` (`MCDashboard`, `TwinRegistry`): with one model configured on
  two nodes, `_match_served_model` names the first recipe that serves it,
  running or not, and the Stop button targets that one.
* `PendingCovers` (`MCShell`): `return doStart(recipeId, true)` inside the `catch`
  runs the outer `finally` while the inner POST is in flight; `pendingAction`, by its
  comment set "while a start/stop POST is in flight", is cleared and a second action
  can be posted.
* `FollowsJob` and, with `Fingers = 2`, `StopHeld` (`MCShell`): the answer of an
  older refresh drops the job just started; a second finger makes the first
  one's timer fire after it was lifted.
* `WrongMeansUnauthorized` and `KeepsValidToken` (`MCSession`): a token that is not
  ASCII is answered with 500 and never forgotten, though `auth.py:31-32` promises
  `INVALID` for any token that does not match; the late 401 of a request that carried
  an old token removes the new one.

Two more are visible in the model without a property: a swap whose stop fails gets a
generic 500, though `lifecycle.py:29` speaks of "explicit states, never generic 500";
and a probe that hangs makes the whole view a 500 (`ReadFails`), though
`routes.py:6` calls unreachable a state.

A remark that follows from the checks: calling `reconcile` at boot, and
nothing else, trades the finding `restart_jobs` for a hazard like that of the lost
link. The row an interrupted job leaves in flight is what keeps the lane for the
script that still runs; the mutant `RestartReconciled` reconciles it and breaks
`AtMostOneScript` and `LaneExclusive` in the run `crash`.

## 5. Proofs

Every theorem holds for every value of the constants within the named assumptions:
`RegistryAssumption` (what parsing enforces), `ServerControlAssumption` (the sorts of
the constants, and `MaxJobs >= 2 * MaxCalls`), `JobLedgerAssumption`,
`DashboardAssumption`, `ShellAssumption`, `SessionAssumption` (sorts, and finite slots).
TLC evaluates each in the runs of its module. Conditions some theorems need besides
stand in their statements, where the reader sees them.

### ServerControlProofs: any registry, any failures

| theorem | statement |
|---|---|
| `Invariance`, `TypeCorrect` | `Spec => []Inv`, `Spec => []TypeOK` |
| `OneOperationHolds` | `Spec => []OneOperation` |
| `SwapWindowHolds` | `Spec => SwapWindowClosed` |
| `AnswersFit` | `Spec => AnswerFitsLane`, whichever writes fail |
| `AlreadyStoppedIsTrue` | `Spec => AlreadyStoppedTruthful` |
| `AtMostOneScriptHolds`, `StraysHold` | `Spec => []AtMostOneScript`, `Spec => []StraysInv`, if `~LinkFaults`, `Durable` and `~ReconcileOnBoot` |

`OneOperation` (at most one job in flight) is not inductive: that
`Decide` submits into an empty ledger depends on the handler having checked
inside the lock, on nobody having submitted since, and on the lock being its own.
`Inv` adds exactly this: `LockHeld` (the lock is held by the handler
past its second check and by no other), `LaneGuarded` (while a handler is inside,
nothing is in flight but, in a swap, its own stop job), `LocalsOK` (the locals
fit the place), `TasksMatch` (executor, task and row agree, so that an
executor's write cannot bring a finished row back), `StoreSettled` (nothing is
uncommitted while a task is there or before a write failed, and what a rollback may
bring back is one row in flight at most), and `SwapAttended` (a swap whose stop job has
no task left follows a failed write). Each action has a lemma that
it preserves `Inv`, with steps for the conjuncts it disturbs;
`SwapWindowHolds` and `AnswersFit` follow from `LaneGuarded` before the step.

`AtMostOneScriptHolds` rests on `StraysInv` besides: a stray script, left by a
restart, has a row in flight, committed, that no task works on, so `Enter` refuses everybody
and no second script can start. The three hypotheses are needed: a lost link
and the mutant `RestartReconciled` are counterexamples
without one of them, and a ledger in memory forgets the row.

### RecipesProofs: any configuration file

| theorem | statement |
|---|---|
| `ConfigIsDict` | for every `raw \in Seq(RecipeType)`: `IsDict(FromConfig(raw), raw, Len(raw))` |
| `ConfigIsRegistry` | if every entry lists a node, `FromConfig(raw)` is what `RegistryAssumption` asks of `Registry` |
| `ConflictsAreMutual` | `a \in Conflicting(b) <=> b \in Conflicting(a)` |

The induction over the file is made by hand, with the least entry that would break the
claim (`Least`, from the well-foundedness of `<`): first that the recursive function
has a value at all (`BuiltExists`), then that it is a dict of what was read so far
(`BuiltIsDict`), one assignment at a time (`PutKeeps`). `ConfigIsRegistry` discharges the
assumption on which the rest of this section stands. `ConflictsAreMutual` is why the
dashboard, which asks whom the active recipe fights, and `_start`, which asks whom the
started one fights, agree.

### LaneLemmas and LaneProofs: what the order of the registry must be

| theorem | statement | if |
|---|---|---|
| `LaneExclusiveHolds` | `Spec => []LaneExclusive` | `FirstLane`, `Attentive` |
| `StartsAreOnFreeLanes` | `Spec => StartsOnFreeLane` | `FirstLane`, `Attentive` |
| `AlreadyUpIsTrue` | `Spec => AlreadyUpTruthful` | those, and `OwnEndpoints` |
| `DoneIsServing` | `Spec => DoneMeansServing` | those, and `OwnEndpoints` |
| `LaneImplemented` | `Spec => ImplementsLane` | those, and `MaxFaults = 0` |

`Attentive` is `~LinkFaults /\ Durable /\ ~ReconcileOnBoot`. The rest depends on the
registry (section 4 shows registries for which the statements fail). `LaneLemmas` has a
condition for each way in which a probe can mislead; `FirstLane` is the first three:

* `OwnMarks`: no two recipes share a container name or a label. Otherwise one is
  detected when the other runs.
* `Noticed`: what may be found paused is detected by its names. Otherwise a start
  does not see it.
* `LaneFirst`: every recipe fights with all that are listed before it, or with nobody.
  `_start` asks only the first running recipe; `FirstTells` shows that this one then
  speaks for all that run. The finding `hidden_holder` has a recipe that fights nobody
  *before* the lane, and nothing else against it.
* `OwnEndpoints`: recipes that answer on one address and port fight for it. Otherwise
  `/health` is answered by another.

Any number of recipes that all fight for one lane is the special case
`OneLaneIsFirst`, and the example configuration of the repository an instance of it.

`LaneInv` strengthens `LaneExclusive` by what the answers of the probes are worth
later. It speaks of tasks and stray scripts, not of rows, since a row may lose its
verdict or come back by a rollback: `Peaceful` (what is up does not fight, and nothing
up fights a start that a task or a stray still works on), `ScriptsOwned` (a handler in
the lock has no script running beside it; a stop script that succeeded left its recipe
gone), and `Seen` (what the handler in the lock has found out is still so: the recipes
already scanned are down, of all that fight the requested one only the holder may be
up, and a swap whose stop is done has none left; models may die, but only a job brings
one up, and there is none). `DoneIsServing` needs `DoneStays` besides: a row
that is done on disk is read as done, so no rollback makes a job done by itself.

These four hold whichever writes fail. `LaneImplemented` alone assumes `MaxFaults = 0`:
a verdict that is merely lost keeps `Lane`'s operation busy, which `Lane` allows, but a
restart takes back a submission or a verdict that was read and not committed, and `Lane`
never goes back. With every write saved (`AllSaved`),
`NewestInFlight` (a row in flight is the newest, on which the refinement mapping rests)
and `StrayOwned` are invariants, and it maps initial states to initial states and every
step to a step of `Lane` or a stutter: a submission to `Accept`, a script's exit (a
stray's too) to `Acts`, the executor's verdict to `Finishes`, the nodes to `Drifts`, all
else to nothing. That what `Lane` promises is enough is `LaneKeepsPeace` below.

### JobLedgerProofs: any boot

| theorem | statement | if |
|---|---|---|
| `TypesHold` | `Spec => []TypeOK` | |
| `LaneIsHeld`, `TailsAreLatest` | `Spec => []LaneHeld`, `Spec => []TailIsLatest` | |
| `VerdictsAreFinal` | `Spec => VerdictIsFinal` | |
| `RunnerImplemented` | `Spec => ImplementsRunner`, failing writes and restarts included | |
| `OrphansAreSwept` | `Spec => [](Swept => OnlyFaultsOrphan)` | |
| `OrphansAreFaults` | `Spec => []OnlyFaultsOrphan` | `ReconcileOnBoot` |

`Swept` is `ReconcileOnBoot \/ restarts = 0`: a boot that does not reconcile, as the
shipped one, leaves rows in flight although no write failed (finding `restart_jobs`).
On everything else the shipped entrypoint may count.

The invariant relates the three copies of a row. `StoreInv`: what the process reads is
what is committed, but for rows that are not over on disk, and only after a failure;
`TaskInv`: a task's record is its row, read *and* committed, with everything said so
far, which is why no other write that fails can take it away; `OrphanInv` and
`TailInv`. `LatestTyped` and `BoundedLatest` are the lemmas about the tail:
appending to the latest lines and cutting at the limit gives the latest lines.

### DashboardProofs

| theorem | statement | if |
|---|---|---|
| `DashboardTyped` | `DashboardSpec => []TypeOK` | |
| `IdleOffered` | `DashboardSpec => IdleWhenOffered` | |
| `SteadyShown` | `DashboardSpec => SteadyNotStopped` | |
| `ModelIsTruthful` | `DashboardSpec => [][Answers /\ view'.model # "" => Served(view'.active, view'.model)]_vars` | |
| `RunningIsTruthful` | `DashboardSpec => RunningTruthful` | no two recipes serve under one name |
| `LocksAreTruthful` | `DashboardSpec => LockedTruthful` | that, `OwnMarks` and `OwnEndpoints` |
| `LaneKeepsPeace` | `Spec => []Peace` (of `Lane`) | `OwnMarks` |

`ReaderMoves` says once what each probe adds to a read. Each property then has an
invariant of its own over the read's place: `SteadyInv` (no recipe already scanned ran
all the time), `SeenInv` (whoever serves now has been seen; the recipe found for a model
serves under that name, as did one that was seen: `Served`), `StillInv` (while nothing
changed, the recipe the read found is the one `_start` would find). The last also needs `AtPeace`: whoever answers on the
active recipe's address is that recipe, and a recipe that is detected itself is not
fought by the active one, so that a start would not answer "already up" where the
catalog shows a lock. It holds for any lanes in any order, and whatever is paused:
`LaneFirst` and `Noticed` are not needed, since the view and a start are misled alike.

### SessionProofs and ShellProofs

| theorem | statement | if |
|---|---|---|
| `SessionTyped` | `Spec => []TypeOK` | |
| `PromptsAreBounded` | `Spec => []PromptsBounded` | |
| `ShellTyped` | `Spec => []TypeOK` | |
| `PendingIsTruthful` | `Spec => []PendingTruthful` | |
| `StopsAreHeld` | `Spec => StopHeld` | `Fingers <= 1` |

`PromptsBounded` is proved with a potential. A request is *doomed* if it has been
refused or carries another token than the gateway's; `ToCome` is the number of
questions the doomed requests and the stored token can still cause; asking trades one
of them for a prompt, and only a rotation or a mistake adds to them, at most one per
slot (`Owed`). `PendingIsTruthful` needs the room kept for refreshes (`RoomFor`) and
the types of all that is in flight; `StopsAreHeld` that with one finger the timer
variable names every timer that runs (with two it does not, see section 4).

### Only model-checked

Liveness (`CallsAnswered`, `JobsEnd`, `PendingClears`, `ShowsTruth`, `Recovers`) is
checked under fairness and is outside the prover's reach, as is `ENABLED` and with it
the absence of deadlocks (`shell`, `session`). Every invariant and every safety property
of steps that a passing run checks is also proved, and each run lies within the
hypotheses of the theorem.

## 6. Not modelled

* The shell's pages, jobs list and markup; labels, banners, monitor links.
* Parsing of values and of settings, beyond what the registry, the token and the job
  store's path decide; logging and formatting; timestamps.
* The read-only routes (status, a job, recent jobs), which pass on what the modelled
  reads return, and `SqliteJobStore`'s queries without effect.
* Writes of the boot itself that fail: the process does not come up. Reads of the job
  store that fail.
* Static assets, packaging and CI: no state.

The hazards without a property are kept with a note each. Of some the repository does
not say what should happen: a swap cut in two by a restart (nothing promises to resume
it), a node probe that hangs (the step is there, `ReadFails`; nothing says what else it
should be), a long press that stops what a refresh made active meanwhile, a start beside
a holder whose container is paused. Of the others section 4 shows that the property
does not hold, so that no passing run can have the hazard: ssh that gives up on a
script, recipes that share a container name, one model on two nodes, the POST after a
confirmed swap, a token that is not ASCII.

## 7. What is left

1. Registries of several lanes on which more than one is fought for: `LaneFirst` is as far
   as asking only the first running recipe carries.
2. The recipe list's counterpart of `StopHeld`, once the repository says what a press
   is meant for.
3. What is left of `AtMostOneScript` and the lane when ssh gives up on a script
   (`LinkFaults`): how many scripts may run, and which of them can still act.
