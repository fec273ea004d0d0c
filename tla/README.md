# ShaderGen: TLA+ models, model checks and proofs

ShaderGen turns an image into a WebGL1 fragment shader.  A POST request is run by a
FastAPI backend, which makes up to three *fresh attempts*; an attempt asks a language
model for a layered shader, compiles and draws it in a headless browser, scores the
picture against the reference, tunes its numeric uniforms by a coordinate search, and
asks the model for single-layer refinements, all under fixed budgets.  The first attempt
that succeeds is published as three write-once files.

This directory models the part of that program whose correctness depends on the order of
steps: budgets and routing of an attempt, the dialogue with the model and what its answers
may change, the browser worker with its resets, retries, timeouts, cancellation, worker
threads, the publication on disk, the locks, progress entries and ledger rows of concurrent
requests, and the page that watches a run.  Paths below are relative to the repository root.

## 1. Inventory

### 1.1 Components, their state and what makes them correct

| component | code | state | operations | correct when | modelled in |
|---|---|---|---|---|---|
| coordinate pattern search | `src/shaderforge/uniform_optimization/{search,flattening,patching,models}.py` | one immutable session: ticks, cursor, phase, counters, stop reason | start, next move, record outcome, record failure | spends its probe budget exactly, is never given a foreign move, stops, claims a local optimum only when it looked at both sides | `CoordinatePattern`, `CoordinateSearch` |
| direct attempt graph | `src/agent/app/graphs/layerplan_glsl_direct.py`, `src/agent/app/nodes/layered_direct/*.py` | LangGraph state: candidate in flight, incumbent, ledgers, search session, refinement state; the program cache of the context | 19 nodes and the routes between them | budgets kept and not starved, best candidate returned, no handle leaked, terminates, truthful stop reason | `DirectAttempt` |
| structured LLM author | `structured_author.py`, `authors.py`, `layer_plan_author.py` | one or two LLM calls, a repair dialogue, call and token ledgers | invoke, parse, repair, normalise failure | at most two calls within the ledger, every call and token booked once, specs signed by the call that wrote them | `AuthorContract`, `LayeredAuthor`; calls and outcomes in `DirectAttempt` |
| layered specs and patches | `src/shaderforge/layered_spec`, `program_spec` | content-hashed specs, patch fingerprints | parse, patch, tune, hash | one layer at a time, whole after every patch, nothing drawn twice | `LayeredAuthor` |
| WebGL1 renderer | `src/shaderforge/rendering/webgl1_renderer.py` | driver, browser, page, prepared handles, programs in the page | start, prepare, render, draw, replay, reset, close | a handle draws its own program, receipts attest it, no driver lost, every call ends | `WebGLRenderer`; as the attempt sees it in `DirectAttempt` |
| parent rollout | `backend/app/services/engine_rollout_graph.py`, `engine_rollout_state.py` | attempt index, attempt refs, selected success | initialise, execute, record, retry, publish, finalise | at most three attempts, stops at the first success, answers only with what it committed | `Rollout`, `ParentRollout` |
| attempt executor | `backend/app/services/engine_rollout_runtime.py` | claimed flag; private attempt directory | claim, run, write success or failure, close | evidence of an attempt belongs to one execution | `ParentRollout` |
| artifact store | `src/shaderforge/store/local_artifacts.py`, `src/agent/app/services/engine_rollout_artifacts.py` | run directories, run index, public `final` directory | write, register, publish, resolve, verify | write-once, committed before indexed | the publishing half, in `ParentRollout` |
| generation use case | `backend/app/services/shader_generation.py` | local flags of one request | one coroutine per POST | every request answered, everything it took released | `GenerationService` |
| project locks | `backend/app/services/shader.py` | set of active projects | hold | held by one request, released by its holder | `GenerationService` |
| run progress registry | `backend/app/services/run_progress.py` | entry per run id: status, events, last render, last touch | begin, publish, finish, read, sweep | running exactly while a request works on it | `GenerationService` (status, owner, TTL), `RunObserver` (events and their window) |
| process ledger | `backend/app/services/agent_process_store.py` | `agent_runs` rows in PostgreSQL, optional | insert, success, failure | settled once, agrees with the answer | `GenerationService` |
| frontend observer | `frontend/src/App.tsx`, `runStages.ts`, `api/*.ts` | active POST, polling observer, live panel, notice | run, stop waiting, poll, merge, choose a file, unmount | never shows an older run, never waits in silence, never takes back a settled status | `RunObserver` |
| validation, evaluation | `src/shaderforge/{validation,evaluation}` | none | validate, score | pure functions | verdicts are free choices |
| LLM gateway, prompts, config, logging, studio, scripts | `src/agent/app/{llms,prompts,messages,config,observability}`, `backend/app/{core,database,middleware}`, `scripts` | none that control depends on | | | not modelled |

`PROJECT.json` lists every component with its status, and every hazard with its line.

### 1.2 How the components interact

```
POST --> GenerationService --(runtime.generate)--> ParentRollout --(executor.execute)--> DirectAttempt
           | begin/publish/finish  | insert/outcome    | to_thread: claim, evidence,        | prepare, draw
           v                       v                   v publish, register                  v
         progress registry      ledger               disk                                WebGLRenderer
           ^                                                                    (and LayeredAuthor,
RunObserver --(GET progress, one at a time)                                  which writes the specs)
```

The calls nest, so each module replaces the inner one by the outcomes it can have:
`GenerationService.GenerateEnds` stands for an execution of `ParentRollout`,
`ParentRollout.RunAttempt` for a run of `DirectAttempt`. `DirectAttempt.PrepareMiss` and `RenderDraw`
for calls of `WebGLRenderer`, and `AuthorCalls` for an invocation of `LayeredAuthor`. What the
outer module relies on is what the inner one establishes: `Succeeded` publishes a bundle nobody
else published because of `OkIsReadable`; `RunAttempt` succeeds or fails because of
`Terminates` and `ScoredCandidateIsKept`; an author costs one or two calls because of
`KeepsContract`; a draw that succeeds shows the prepared program because of
`OpenHandleHasProgram`, and a call of the renderer comes back because of `CallsEnd`.
`RunObserver` has its own small copy of the registry, with the events that `GenerationService`
leaves out and without the owners that only concurrent requests need. The same search
(`CoordinatePattern`) is driven by a small environment in `CoordinateSearch` and by the real
nodes in `DirectAttempt`.

### 1.3 What is hard here

* **Threads outlive coroutines.** `asyncio.to_thread` cannot be cancelled: after a timeout,
  a cancellation or a new execution of the same run id, the old thread still writes.
* **Awaits are the only switch points.** Between them a request is atomic; at them any
  other request, a cancellation or a restart may come.
* **Suppressed failures.** Closing an executor, writing a failure summary and persisting an
  outcome may fail without anybody being told.
* **One run id, several executions.** The progress registry allows a finished id again, and
  the ledger that would refuse it is optional.
* **Shared budgets.** Three consumers draw from one counter, two from the compile counter.
* **Two nested loops with many exits** in the attempt, of which a dozen decide one reported
  stop reason.
* **A worker that resets itself** and silently invalidates the handles others hold; a page
  that comes back numbers its programs from 1 again.
* **A model that may write anything**: texts the parsers do not survive, hashes of an older
  spec, a patch that was tried before.
* **A page whose POST, polls and deadline end independently**, against a server that forgets.

## 2. Modules

| module | what it is |
|---|---|
| `CoordinatePattern` | operators of the search session: start, normalise, next move, record, fail |
| `CoordinatePatternProofs` | lemmas about those operators, which the next two proof modules share |
| `CoordinateSearch` | a session driven by an environment that scores or fails every move |
| `CoordinateSearchProofs` | inductive invariant of a session and three theorems |
| `DirectAttempt` | the attempt graph, one action per node; extends `CoordinatePattern` |
| `DirectAttemptProofs` | inductive invariants of `DirectAttempt` and 14 theorems |
| `Rollout` | the abstract promise of a parent rollout |
| `ParentRollout` | graph, executor and publication in detail; implements `Rollout` |
| `ParentRolloutProofs` | inductive invariant of `ParentRollout`, eight theorems, the refinement among them |
| `GenerationService` | concurrent requests, locks, progress entries, ledger |
| `GenerationServiceProofs` | inductive invariant of `GenerationService`, eight theorems |
| `WebGLRenderer` | driver, browser, page, programs and handles, await by await |
| `WebGLRendererProofs` | inductive invariants of `WebGLRenderer`, five theorems |
| `AuthorContract` | the abstract promise of a structured author |
| `LayeredAuthor` | the structured call, its three authors, the specs and patches they make; implements `AuthorContract` |
| `LayeredAuthorProofs` | the refinement of `AuthorContract`, and the lineage of specs: eight theorems |
| `RunObserver` | the page, its polling loops and the registry's events |
| `RunObserverProofs` | inductive invariant of `RunObserver`, five theorems |
| `MC*` | constants for TLC |

Operators named as *mutants* in a comment are wrong versions of the definition that follows
them, each a bug one could plausibly make there.  Replacing the definition by its mutant
makes TLC refute the property it is paired with in `PROJECT.json`; this is how we know that
a property can fail.  They are not part of any specification.

### 2.1 CoordinatePattern and CoordinateSearch

`search.py` is pure: `start_coordinate_pattern_session`, `next_coordinate_move`,
`record_coordinate_outcome` and `record_coordinate_failure` map sessions to sessions, and
each is an operator of the same meaning.  The loop of `next_coordinate_move`, which skips
positions until one can be probed, is written without recursion: `Ahead` is the set of
positions it may reach, `Before` those it passes, `Normalized` the session it leaves.
`flatten_tunable_components` and `lattice_value` give each component its clamped lattice
(`Movable`, `Lattice`); `Component` is the domain that `FlatTunableComponent` accepts, and
`Orders` the orders of a set of components: the session sorts them by a hash of the base spec
and the path, so it may visit them in any.

`CoordinateSearch` has three actions.  `Propose` is `propose_uniform_candidate`;
`RecordScored` and `RecordFailed` are the two branches of `record_uniform_outcome`, for a
candidate that was scored and for one rejected before it could be.  A candidate may be
selected, and may be material, exactly as the caller allows it.  `scored` holds the value
vectors already seen, so that a repeated vector takes the duplicate path as it does in
`apply_uniform_candidate`.  Nothing happens between proposal and record here; in the attempt,
where they are several nodes apart, `MovesAreOwn` of `DirectAttemptProofs` says that the session
still gets its own move.

Abstraction: values are integers on the component's lattice; float32 rounding is left out.

### 2.2 DirectAttempt

`pc` is the graph node that runs next; every node is an action (or a few, named for the way
it goes: `PrepareHit`, `PrepareDenied`, `PrepareMiss`).  The variables are the fields of
`LayerPlanGlslDirectState` that control anything: the candidate (`cand`, `pending`, `role`),
the incumbent (`best`), `candidates`, the ledger counters, the refinement state, the search
session, the stop reasons.  `cache` is `DirectGraphContext.program_cache`; `live` is the set
of handles that the renderer really holds open.

* A shader is its source and its uniform values: the source is the cache key, and a uniform
  candidate keeps it.
* The parser keeps a start value in its uniform's declared domain, of which the tunable range
  is a part, so a model may author a value outside the range.  `FlatTunableComponent` refuses
  it, and with it the whole search of the source: `DecideStart` then takes the branch of
  `UniformOptimizationError`.  That branch is also open to any other shader, whose numbers
  WebGL may not be able to hold.
* Model answers, compile verdicts, draw outcomes, attestations and scores are free choices.
  Where the code distinguishes failures (a shader error, a renderer failure with or without
  a reset) the model does too.  `Invalid` stands for all refused patches: whether one of them is
  a duplicate or a no-op is open (`Duplicate`, `NoOp`), `LayeredAuthor` has the detail.
* `Reject`, `FailureRoute` and `Proceed` are `reject_candidate`, `candidate_failure_route` and
  the common tail of the pipeline nodes.
* `Cancel` is a `CancelledError` at any await outside a release, or a node that raises; a worker
  reset the node waited for may have closed handles.  `Unwind` is the `finally` of
  `run_layerplan_glsl_direct_graph`, which releases the cache.
* `release_programs` empties the cache first, awaits one close after the other and lets a
  `CancelledError` through.  Uncancelled it is part of one step of its node (`Release`), since
  nobody else uses the attempt's programs meanwhile.  Cancelled (`CancelRelease`) it closes some
  of the handles and leaves the others open, named by no cache, so that the `finally` has nothing
  to close; the attempt is then `"abandoned"`.  `Cut` takes any nonempty set of handles for the
  ones closed, where the code closes in the cache's order: `close` marks a handle closed before it
  awaits, so the first always counts.  `Releasing` are the nodes whose release can wait at all.

### 2.3 Rollout and ParentRollout

`ParentRollout` follows one run id on one disk through up to `Executions` executions, one
after another, as the project lock and the progress registry order them.

* `pc` is where the parent coroutine is.  `create` to `close` are `execute_attempt` with
  `DirectEngineAttemptExecutor.execute` inlined; `record`, `retry`, `publish` and `finalize`
  are the other graph nodes.
* `threads` are the worker threads of `asyncio.to_thread`.  A thread does its disk work
  whether or not a coroutine still waits for it; `Awaited` tells the two cases apart.
* `dirs[i]` is the execution that made the private directory of attempt `i`.  Attempt ids
  are derived from run id and index (`child_attempt_id`), so executions of one run id meet
  in the same directories, and `mkdir` without `exist_ok` decides.
* `evidence` are the manifests and failure summaries inside them; `bundle` and `indexed` the
  public `final` directory and the run index.
* `Written` is `write_bytes`: the file is replaced before the last `fsync`, so a failing
  write may have happened.
* `open` and `abandoned` are executors (browsers): `abandoned` those whose close failed,
  which the code logs and forgets.
* `AttemptTimeout` is the expiry of `asyncio.wait_for`; `Cancel` a cancelled request;
  `Restart` kills threads and browsers and keeps the disk.

`Rollout` is what a caller may rely on: at most `AttemptLimit` tries one after another, none
after a success, `ok` only with the bundle of one's own successful try, and a bundle that is
committed at most once.  It states two things a reader may not expect.  `Commit` may happen
after the execution it belongs to has ended (the orphaned thread), and `RefuseCommitted`
answers with `parent_artifact_publish_failed` although the bundle was committed (a disk error
after the rename).  The refinement mapping is `active <- pc # "idle"`, `tries <- Len(refs)`,
`winners <- won`.

### 2.4 GenerationService

One request passes `new` (not yet begun), `insert` (awaiting the ledger insert), `generate`,
`contract`, `failed`, `succeeded` (awaiting outcome writes) and `answered`.  Everything between
two awaits is one action: `Accept` is `progress.begin` and `locks.hold` together, because the
lock's asyncio guard is never held across a wait; `GenerateEnds` runs from the return of
`runtime.generate` to the next database call.  The order in the code is kept: on success the
lock is released and the run finished *before* the outcome is persisted; a broken response
contract is recorded while the lock is held; other failures are recorded after its release
but before `finish`.

`GoQuiet` marks an entry that nobody touched for `RUN_PROGRESS_TTL_SECONDS`; the sweeps in
`begin` and `read` delete it. A database write may fail, or commit and report failure:
`lostWrites` remembers the requests this happened to. Whether there is a ledger at all
(`recording`) is decided when the process starts. `Cancel` is a cancelled handler, in which
only `finally` blocks run; `orphans` may still publish. `Restart` loses everything in memory; a
database call or a publication that was under way may have committed all the same (`Unseen`,
`Unannounced`). `started` is the flag `run_started`. The 502 and 500 envelopes are one answer,
`"5xx"`; the 503 of a backend that never became ready changes no state and is left out.

### 2.5 WebGLRenderer

One renderer with the attempt that owns it.  `pc` is the await it is suspended at; a *worker*
is a number that stands for a Playwright driver, the browser it launched and that browser's
page, and `drivers`, `browsers`, `pages`, `hosts` say which parts of it exist.  `driver`,
`browser` and `page` are the references Python holds, which need not agree with what exists.
`programs` and `nextId` are the registry inside the current page (`window.__prepareShader`
numbers programs from `"1"`), `open` is `_prepared`.

* `EnsureStarted` to `SetContent` are `_ensure_started`, one action per await; `Evaluate`,
  `SettlePrepare`, `SettleRender` a compile or a one-shot render; `WorkerFails` the `except`
  clauses of `prepare` and `render`, which close everything and replay.
* `TimedOut` is the timer of `asyncio.wait_for`: `_reset_worker_quietly` first lets go of every
  reference and every handle, and only then closes, each stage under its own timer (`Reset`).
* `CloseHandles` to `CloseDriver` are `close`: what fails to close stays referenced.
* `Draw` hands the *id* of a handle to whatever page is current: `DrawTarget` is what is found
  there.  `receipt` records for which handle, and of which source, a draw was attested.
* `Prepare`, `Render`, `Draw`, `RunEnds`, `Release` and `CloseRenderer` are what the attempt
  calls, `release_programs` included; `Hang`, `BrowserDies` and `Cancel` the environment.

`lost` and `mishaps` are history: pages whose browser died by itself, and what may have left a
driver behind.

### 2.6 AuthorContract and LayeredAuthor

`LayeredAuthor` is one attempt as the model sees it: the layer plan, the initial spec, up to
`RefineBudget` patches and the uniform moves in between.  `InvokeOriginal`, `ParseOriginal`,
`InvokeRepair` and `ParseRepair` are the nodes of the structured graph, `AuthorLayerPlan`,
`AuthorInitial` and `AuthorRefinement` its final node together with the author and the attempt
node that use it.

* Equal contents have equal hashes, so the hash of a layer is the layer, and the hash of a spec
  its index in `specs`, the sequence of contents hashed so far.  A layer has a place (`z`), the
  length of its text, its uniforms and their values.  Each uniform counts as one tunable
  against the limit on tunables (`MaxTunables`).
* `Answers` is what may come back from a call: any text of the small sets, with or without an
  identity and a token count; `Garbled` is no JSON, `Unhashable` makes a parser raise.
* `Guards` and `Whole` are the checks of `apply_layer_patch` before and after the replacement,
  `Refused` the duplicate and no-op tests before it, `Fingerprint` a patch without what the
  model merely claims about it.
* `Judge` is the candidate pipeline, reduced to its influence on specs: a candidate may become
  the best, be rejected, or end the attempt because the canvas it declares has another size
  than the reference (`rgb_mae` raises).  `Tune` is a kept uniform move.

`AuthorContract` is what the attempt relies on: an answer costs one or two calls and never more
than the ledger has left, none exactly when nothing is left, and ends in a value or in one
failure code.  It also has `Raise`, because the code has it: `parse_original` catches
`ValueError` only.  `spent` and `outcome` mean the same in both modules.

### 2.7 RunObserver

A page that starts runs one after the other, against the registry.  Of the page it has what
`App.tsx` keeps in refs and state: the POST that is out, the current observer, of each observer
its loop, its `stopped` flag and the highest event number it saw, the panel, the notice, the
result.  A polling loop of an older run may still be suspended in its timer or its request when
a new run begins; `Watched` is the test both ends of every await make.  `Merged` is
`mergeProgressEvents`; an answer is read by the server at one moment (`ServerReads`) and
arrives, or is lost, at another.

The POST, the deadline and the loop end independently: `PostSucceeds`, `PostRefused` (with the
envelope of the application, or a proxy's page that `isAuthoritativeRunFailure` must not
believe), `PostAborted`, `DeadlinePasses`, `PollGivesUp`.  The server publishes events into a
window, finishes, sweeps entries and restarts; what a run publishes after its entry was swept
goes nowhere.  `dropped` and `published` are history: the events the window let go, and how many
events a run published at all.

One guard is an assumption on time and not a test of the page: `DeadlinePasses` waits for the end
of its own POST, whose timer is hours shorter than the deadline.  A wall clock that jumps
(`Date.now()` of a machine that was suspended) could fire the deadline first; that is left out.

## 3. What the runs check

`expect: pass` runs, all exhaustive:

| run | instance | shows |
|---|---|---|
| `CoordinateSearch` | one to four components at, beside and away from their bounds, one whose step overshoots its range and one immovable; 5 probes, cap 3 | `RecordNeverRaises`, `OptimumIsBracketed` |
| `DirectAttempt` | two sources, one with a tunable uniform, which the model may author with two start values in its range and one outside; one refinement, two probes, one mask draw; budgets that cover the work | `DrawsReserved`, `CompilesReserved`, `BestUndominated`, `SessionTracksIncumbent`, `SearchBeforeRefine`, `StopReasonTruthful`, `NoHandleLeak`, `Terminates` |
| `DirectAttemptTwoRefines` | two refinements, a chain of three gains, a compile and a draw budget that do not cover them | `OneSessionPerSource`; `ScoredCandidateIsKept` and `NoWorkAfterBlock` on every way a budget runs out |
| `ParentRollout` | two attempts per execution, two executions | `EvidenceIsOneExecution`, `PublishedIsPersisted`, `ReadableIsCommitted`, `OkIsReadable`, `ExecutorsDoNotOverlap`, `ExecutionEnds`, and the refinement `KeepsPromise` |
| `GenerationService` | three requests: the second names the run of the first, the third its project; with and without ledger | `LockMatchesHolder`, `LedgerMatchesAnswer`, `AnsweredIsSettled`, `SucceededIsReadable`, `ProgressIsOwn`, `SettledIsFinal`, `EveryRequestAnswered` |
| `WebGLRenderer` | two sources, three calls, one replay, two faults, one cancellation at any await | `OpenHandleHasProgram`, `ReceiptsAttestUnlessLost`, `LeaksAreMishaps`, `CallsEnd` |
| `LayeredAuthor` | plans and drafts of two layers that keep or break each rule; ledgers of one and three calls, two refinements, one uniform move | `OneLayerAtATime`, `SpecsStayWhole`, `SignedByItsAuthor`, `TokensCountAnswers`, `PatchesAreNew`, and the refinement `KeepsContract` |
| `RunObserver` | two runs of one page, two events each, a window of one | `PanelIsTrue`, `NeverSilent`, `SettledStays` |

`expect: violation` runs, each a place where the code and what is written about it differ
(`findings` in `PROJECT.json` quotes both):

| run | what TLC finds |
|---|---|
| `DirectAttemptStale` | a renderer that resets itself inside `prepare` and then succeeds leaves dead programs in the attempt's cache; the comments say that a reset evicts them |
| `ParentRolloutSummary` | an attempt that times out after its claim is recorded as failed without `private/failure-summary.json` |
| `GenerationConflict` | after a quiet half hour the entry of a live run is swept, and the same run id is begun again although it is running |
| `WebGLRendererAlias` | after a browser died by itself, the next `prepare` gets id `"1"` in a new page; a handle of the old page then draws that program and is given a receipt for its own source |

### 3.1 Bounds, and why they are enough

* *Components and probes.* The session treats components one by one, in any order, and has only
  one pass (`MaxPasses = 1` is its shipped maximum).  Two neighbours of the component in question,
  both clamps, an overshooting step and an immovable component are all there; five probes
  run out in the middle of the second, third and fourth component.
* *Scores.* `Dominates` compares the excesses over two targets.  The four scores contain
  incomparable pairs, a minor gain, a material gain and the target.
* *Attempt budgets.* One refinement and two probes reach every node with every role; two
  refinements are the least that can leave a source and come back; there the compile budget
  runs out at the second refinement and the draw budget before or during it.  Each proof of
  section 5 removes these bounds for its property.
* *Attempts and executions.* Two attempts have a retry and a last one; two executions meet in
  the same directories.  The shipped limit is three; a third attempt adds another middle one.
* *Requests.* A request can meet another on its run id or on its project; the first request
  meets both, and the other two act between its steps.  A run id is executed again only without
  the ledger, which is why both settings are in one run.

* *Renderer calls.* Three calls are the least in which a handle is prepared, the worker is
  lost, another program gets its id and the old handle is drawn.  Two faults let a replay fail
  as well; one cancellation hits every await.  The proofs remove all three bounds.
* *Authors.* The plan ledger has one call, so it cannot repair; the direct ledger has three, so
  one author may repair and the next may not.  Two refinements let a patch be repeated and be
  based on either of two specs; the texts break each rule of the parsers once.
* *Page.* Two runs, of which the first may end in any way before, while and after the second is
  started; a window of one event out of two loses one.  The server's steps for a run that
  nobody asks about any more are left out (`Asked`), since no page can see them.

No state constraint is used.  `CHECK_DEADLOCK FALSE` is in every cfg because all of these
systems really stop: a session, an attempt, the last execution, the last request, a renderer
that is closed, a page that is gone.

### 3.2 Fairness

* `DirectAttempt`: `WF(Step \/ Unwind)`.  The graph runs nodes until it ends, and every call of
  the model or the renderer in a node has a timeout in `runtime_timeouts.yaml`.  The close of a
  handle has none of its own.  It does not hang by the model (`CallsEnd` below: a hung page has
  been reset before anything is closed in it), and if it did, the attempt's timeout would end a
  release in a node, which is `CancelRelease`.  `Cancel` and `CancelRelease` are not fair.  That
  the `finally` clause ends is the assumption named for `ParentRollout`.
* `ParentRollout`: weak fairness of the coroutine, of the threads (disk calls return or raise)
  and of the attempt's timer.  `RunAttempt` is *not* fair, it may hang: `ExecutionEnds` is then
  owed to `asyncio.wait_for` alone.  One assumption is not the timer's: a cancelled attempt's
  own cleanup must end (see `CallsEnd` below).
* `GenerationService`: weak fairness of each request's own steps: database calls return or
  raise, and `ParentRollout` ends.  New requests, polls, the TTL, cancellation, late threads
  and restarts are not fair.
* `WebGLRenderer`: weak fairness of the call in progress (`Serve`): Playwright calls
  return or raise, and timers fire.  An evaluation in a hung page does *not* return; `Serve` is
  enabled there only if the code has a timer for it.  The close of a handle has none, so
  `CallsEnd` has to show that no call ever comes to close a handle in a hung page: a hang is
  noticed by the timer of the call it happens in, and the reset drops the handles before it
  closes anything.  A *cancelled* call is excluded: the attempt's cleanup then closes its handles
  in a page that may be hung, and nothing in the code ends that wait.
* `CoordinateSearch`, `LayeredAuthor`, `RunObserver`: safety only.  That a session and an attempt
  end is `Terminates` of `DirectAttempt`, where the whole loop is.

## 4. Properties, in words

Properties that only restate a guard, and type invariants, are not listed in any cfg; the type
invariants are proved (section 5) where an inductive invariant needs them.  The others relate
several variables or several steps.  Their comments say which behaviour of the code each is
about.  The ones we would defend first:

* `DrawsReserved`: whatever the draw budget, unless it is zero, no candidate that got as far as
  `render_program` is refused for lack of draws, although masks, probes and refinements share
  one counter.  `draw_budget_exhausted` is thus an answer for `draw_budget` 0 only; the model
  keeps it (`RenderDenied`), and no run with a positive budget reaches it.
* `CompilesReserved`: with the compile budget a preset promises, none is refused for lack of
  compiles.
* `BestUndominated`: of everything scored, nothing dominates what is returned, although each
  candidate was only compared with the incumbent of its time.
* `ScoredCandidateIsKept`: no later failure takes a scored candidate back, neither in the attempt
  nor where its evidence is written: the writer replays all candidates with its own copy of the
  rule and refuses an attempt whose `current_best` is another (`ReplayedBest`).
* `SessionTracksIncumbent`: the search's ticks spell the incumbent's uniforms, across nodes
  that change the one without knowing of the other.
* `OkIsReadable`, `BundleWriteOnce`, `PublishedIsPersisted`: whoever answers `ok` owns the public
  files, which never change and whose private evidence was complete first.
* `LedgerMatchesAnswer`: the row of a run never says other than its own request did, with
  ambiguous writes, reused ids, cancellation and restarts.
* `OpenHandleHasProgram`: through replays, timeouts, resets, closes that fail half way and
  cancellations, a handle that may be drawn from has its own program in the page the draw goes to.
* `OneLayerAtATime` and `SpecsStayWhole`: whatever ids, hashes and texts the model sends, a
  candidate is its parent with one layer replaced in its place, and still a legal spec.
* `PanelIsTrue`: a gap in the events a user sees was made by the registry's window and never by
  a lost, late or foreign answer; what the panel calls settled the backend settled so; and a
  panel that reads `succeeded` has seen its run to the last event it published.
* `NoHandleLeak`: an open handle is one the attempt still names and will close, through resets,
  failing nodes and a cancellation at any await but those of a release.

What the code does *not* do, and the properties therefore do not say:

* a row whose request was cancelled, or whose process died, stays `running`; nothing settles it;
* a parser that raises something else than `ValueError` (`TypeError`, `OverflowError` on an answer
  of an odd shape) ends the attempt without its call being booked (`Raise` of `AuthorContract`);
* a spec that declares another canvas than the reference passes the parsers and ends the attempt
  in `rgb_mae` (`Judge`);
* a patch that was refused for a wrong hash cannot be sent again with the right one: its
  fingerprint, which has no expected hash, is remembered (`Refused`);
* `release_programs` does not always "close every prepared program once"
  (`src/agent/app/states/layerplan_glsl_direct.py:154`), nor does the graph's wrapper always
  "guarantee resource release on exceptions" (`graphs/layerplan_glsl_direct.py:337`): a timeout or
  a cancellation that arrives while a release awaits a close leaves the remaining handles open
  (`CancelRelease`), until the executor closes the renderer.  `NoHandleLeak` says that this is the
  only such case;
* a failed first call, or an answer without a usage, makes the token total unknown for the rest of
  the attempt (`Book`), which is why `TokensCountAnswers` speaks of known totals; a failed repair
  adds nothing and leaves the first answer's total;
* the deadline of a page is only known to come after the POST's own timer while the wall clock
  does not jump (`DeadlinePasses`), on which `NeverSilent` rests;
* before it settles, a panel may go back from `running` to `pending`, after a sweep or a restart
  of the server; `SettledStays` is about settled panels only;
* one start value outside its tunable range, which the parsers accept, costs its source the
  whole search: the reason reported is `no_feasible_components` (`DecideStart`);
* at a lower bound the negative probe that follows an accepted positive one may propose the
  anchor's own value again; it is rejected as a duplicate and costs one probe.

## 5. What is proved

TLAPS checks every theorem below for all values of the constants that the named assumptions
allow; the runs of section 3 check the same formulas on small instances first, the inductive
invariants among them while they were developed.  Every safety invariant and every safety
action property that a passing run checks has such a theorem, and so has every refinement.

### 5.1 DirectAttempt

`DirectAttemptProofs.tla`, checked by TLAPS, for every set of shaders, every score and every
budget.  Assumed are `BudgetAssumption` (budgets are naturals, `MaxPasses` is 0 or 1),
`NoneAssumption` (Python's `None` is no stop reason), `ScoreAssumption` (scores and targets
are integers, the points of a grid) and `ShaderAssumption` (a shader has one integer for every
tunable uniform of its source).  The theorems about the incumbent and the search also state, as
their hypotheses, that `None` is no candidate (`NoneIsNoCandidate`) and no session
(`NoneIsNoSession`), since TLC cannot evaluate these.

| theorem | statement |
|---|---|
| `TypeCorrect` | `[]TypeOK`: no counter exceeds its budget |
| `DrawsAreReserved` | `[]DrawsReserved` |
| `CompilesAreReserved` | `[]CompilesReserved` |
| `RefinementsAreSearched` | `[]SearchBeforeRefine` |
| `HandlesAreClosed` | `[]NoHandleLeak` |
| `BlockStopsWork` | `NoWorkAfterBlock`, an action property |
| `BestIsUndominated` | `[]BestUndominated` |
| `ReasonIsTruthful` | `[]StopReasonTruthful` |
| `ScoredCandidatesAreKept` | `[]ScoredCandidateIsKept` |
| `SearchTracksIncumbent` | `[]SessionTracksIncumbent` |
| `PatchesAreCurrent` | no patch of the search is refused as stale |
| `MovesAreOwn` | the record functions get the move their session proposed |
| `SourcesAreSearchedOnce` | `[]OneSessionPerSource` |
| `Invariance` | `[]IndInv`, on which the others rest |

*Why an inductive invariant is needed.* `draws < DrawBudget` at `render_program` does not follow
from itself: one must know who spent the others.  `DrawLedger` gives each draw one of three
accounts.  Mask and uniform draws are bounded where they are made; the remaining, structural
draws are at most one for the initial candidate and one per refinement.  The mask share is
either nothing or exactly what the other accounts leave (`MaskBudgetValue`), so after the
masks of a refinement a draw is left for it (`MasksLeaveADraw`).  This holds only together with
where the roles can be in the graph (`RolesByNode`) and with the fact that a refinement is
charged before it is drawn.  `CompileLedger` is the same for compiles, and needs
that a uniform candidate finds its program: `ProgramKept` carries the incumbent's program
from its selection to the end of its search, `SourcesKnown` and `SearchOrder` tie candidate,
incumbent and session to one source.  `BlockEnds` says where a hard block can be seen.

`HandlesAreClosed` is inductive with the types alone, but only because every way out was looked at:
a handle enters `live` and `cache` in one step, a reset takes it out of `live` first, a release
out of both, `Cancel` leaves the cache to `Unwind`, and the one step that empties the cache
before the handles, `CancelRelease`, ends in `"abandoned"`, which the property excepts by name.

`BestUndominated` needs `SelectionInv`: there is an incumbent exactly when something was scored.
A new incumbent beats everything before it because domination is transitive
(`DominatesTransitively`).  `StopReasonTruthful` needs `StopInv`: no reason is set before the
attempt turns to its end, an attempt that ends without one never had an incumbent
(`ReasonSettled`), and a refinement is counted before it can spend patience (`PatienceLedger`).

`SessionTracksIncumbent` is about two states that different nodes change: `select_candidate`
the incumbent, `record_uniform_outcome`, a node later, the ticks.  `SearchInv` follows a
candidate between them: its uniforms are the incumbent's but for the pending move (`Probed`), its
move is the one the session awaits, and between selection and record the incumbent is one tick
ahead (`TicksToBe`, in `Tracking`).  `ShadersFit` and `OnSource` say that components address
different uniforms of the source, `SessionOwned` that no session is left over from another one.
`OneSessionPerSource` counts: a new session is only started on a source that is in neither
`completed` nor the session (`SessionsCounted`).  The replay of `ScoredCandidateIsKept` is a
recursive function; `ReplayAppend` shows what one more candidate does to it, so that no induction
is needed but the one over steps.

*Layout.* `IndInvInit`, then `TypeStep`, `DrawLedgerStep` and `AttemptStep` with one step per
action, joined in `IndInvStep`, and the theorems by PTL.  `TypeParts` splits the long type
invariant for the provers.

### 5.2 ParentRollout

`ParentRolloutProofs.tla`, for every attempt limit and every number of executions of a run id.
Assumed is `RolloutAssumption`: the limit is a positive natural, and `None` is neither a number,
nor a pair of numbers, nor the answer `"ok"`.

| theorem | statement |
|---|---|
| `TypeCorrect` | `[]TypeOK` |
| `EvidenceBelongsToOneExecution` | `[]EvidenceIsOneExecution` |
| `PublishedIsComplete` | `[]PublishedIsPersisted` |
| `ReadersFindBundles` | `[]ReadableIsCommitted` |
| `OkMeansReadable` | `[]OkIsReadable` |
| `ExecutorsStaySingle` | `[]ExecutorsDoNotOverlap` |
| `BundleIsWrittenOnce` | `BundleWriteOnce`, an action property |
| `ImplementsPromise` | `KeepsPromise`: `ParentRollout` implements `Rollout` |

*Why an inductive invariant is needed.* None of these follows from itself, because the step that
could break them is a thread's, and the thread may have been started by an attempt, or an
execution, that is long over.  `IndInv` therefore says of every thread at work what the
coroutine that started it knew: a thread that writes evidence owns its directory
(`DirectoriesOwned`), a thread that publishes carries a won attempt whose manifest is on disk, a
thread that registers is the one whose bundle is public (`PublicationOrdered`).  `ThreadOrigins`
says where threads come from, `DirectoriesStay`, `EvidenceGrows`, `WonGrows` and
`PublicationGrows` that what they rely on is never taken back.  `AttemptsCounted` and
`WinnersRecorded` tie the parent state to the history: only the last attempt of an execution can
have won, which is what makes a step of `record` a `Try` of `Rollout` and a step of `finalize` a
`Succeed` or an `Exhaust`.  `ExecutorsFresh` needs that a new attempt's executor is not one of
those whose close failed before.

*Layout.* `WorkerMoves` reduces the six kinds of thread to what they do to the coroutine, so
that each part of `IndInv` needs one step per action of the coroutine and one for all threads.
`PromiseStep` has one step per action; commits, refusals and both at once are in
`PublishKeepsPromise`.  `Rollout` states safety only, so the refinement is proved completely.

### 5.3 GenerationService

`GenerationServiceProofs.tla`, for any requests and any assignment of run ids and projects to
them.  Assumed is `ServiceAssumption`: `None` is no request, answer, entry or row.

| theorem | statement |
|---|---|
| `TypeCorrect` | `[]TypeOK` |
| `LocksAreHeld` | `[]LockMatchesHolder` |
| `LedgerTellsAnswers` | `[]LedgerMatchesAnswer` |
| `RowsSettle` | `[]AnsweredIsSettled` |
| `SuccessIsReadable` | `[]SucceededIsReadable` |
| `ProgressStaysOwn` | `[]ProgressIsOwn` |
| `SettledRowsAreFinal` | `SettledIsFinal`, an action property |
| `Invariance` | `[]IndInv` |

*Why an inductive invariant is needed.* A row and the answer of the request that made it are
written at different awaits, and in between the run id may be used again.  `StartedOwnsRow` is
the fact that decides: a request whose `run_started` flag is set owns the row of its run, for
nobody deletes rows and a second insert is refused; a request without the flag never writes an
outcome.  `RowsTell` then follows for settled rows, `SuccessIsPublished` holds from the success to
the answer, and `EntriesTell` and `EntryKept` are two directions of the tie between an entry and
the request at work on it, of which the sweep breaks only the second.

*Layout.* Three lemmas say what any step may do to one thing: `RequestStep` to a request,
`RowStep` to a row, `BundleStep` to a bundle.  The parts of the invariant that relate these follow
from the three without looking at actions again; locks and entries have a step per action.

### 5.4 RunObserver

`RunObserverProofs.tla`, for any number of runs, any window and any number of events, from
`ObserverAssumption`.

| theorem | statement |
|---|---|
| `TypeCorrect` | `[]TypeOK` |
| `PanelsAreTrue` | `[]PanelIsTrue` |
| `NoPanelIsSilent` | `[]NeverSilent` |
| `SettledPanelsStay` | `SettledStays`, an action property |
| `Invariance` | `[]IndInv` |

*Why an inductive invariant is needed.* What the panel shows was read earlier by the server and
asked for earlier still.  `AnswersTrue` says of each answer on its way that it holds, or the
window dropped, every event after the last one its observer saw, and that a terminal status in
it is the run's; it survives whatever the server does meanwhile because jobs settle once and
dropped events stay dropped (`RegistryGrows`).  `Counted` numbers the events a run published: an
entry has the last of them, an answer no later one, and an answer with a terminal status the
last, because status and tail are read together and nobody publishes after a run has finished.
`PageCoherent` ties POST, observer and panel to one run, which is what `NeverSilent` needs when
polls and POST race.

### 5.5 LayeredAuthor

`LayeredAuthorProofs.tla`, for all budgets, all plans, drafts and replacements, whatever the
model answers.  Assumed are `AuthorAssumption` and `TextAssumption` (plans, drafts and
replacements have the shape their parsers look for, and none of them is `None`); the theorems
about specs also that `None` is no answer and no patch (`NoneIsApart`), as their hypothesis.

| theorem | statement |
|---|---|
| `AuthorsKeepContract` | `KeepsContract`: `LayeredAuthor` implements `AuthorContract` |
| `LayersChangeOneByOne` | `[]OneLayerAtATime` |
| `SpecsAreWhole` | `[]SpecsStayWhole` |
| `SpecsAreSigned` | `[]SignedByItsAuthor` |
| `PatchesAreTriedOnce` | `[]PatchesAreNew` |
| `KnownTokensAreAnswers` | `[]TokensCountAnswers` |
| `Invariance`, `LineageHolds` | the two inductive invariants |

*Why an inductive invariant is needed.* For the contract: `CallBounded` bounds the calls made by
the calls allowed, and these by what the ledger has left, and tells at which node one or two were
made.  `Booked` then shows that the final node of each author is an `Answer` of the contract, and
`OutsideCall` that every other step stutters or raises.

For the specs: a spec is made at one node from an answer given at another, a patch parsed at a
third, and a parent that may be old.  `Sound` says of every spec that its layers are in the
places of the plan and within the limits (`Placed`), that it differs from its parent in one layer
(`Descends`), that the call that signed it said its text (`Authored`), and that the patch which
made it is remembered (`Tried`).  Each part speaks of the plan, of earlier specs, of answers and
of fingerprints, which only grow, so a spec that was sound stays so (`StaysSound`) and a step has
to be looked at for the one spec it adds.  `CallInv` carries what was said from the call to its
final node, through a repair; `PatchInv` and `NewInv` from there to the patch and its candidate.
Two of the limits, on the tunables and on the length of the source, are a fold over the layers
(`Total`), of which only its congruence is used: a tuned spec has the same uniforms and bodies.

For the tokens: totals are added at the end of a call, answers are counted where they come.
`TokenInv` ties them at every node by what the answers in hand are worth (`Here`), and needs that
a total which became unknown stays so.

*Layout.* `Minted` says what a new content becomes; `InitialSound`, `PatchSound` and `TuneSound`
that the three ways to make one are sound; `CallStep`, `SpecsGrow` and `TextsAre` what a step may
do to calls and specs; `PatchIsNew` and `AnsweredMore` the last two properties.

### 5.6 WebGLRenderer

`WebGLRendererProofs.tla`, for any number of calls, faults, cancellations and replays, from
`RendererAssumption`.

| theorem | statement |
|---|---|
| `TypeCorrect` | `[]TypeOK` |
| `OpenHandlesArePrepared` | `[]OpenHandleHasProgram` |
| `ReceiptsAttest` | `[]ReceiptsAttestUnlessLost` |
| `DriversAreLostByMishap` | `[]LeaksAreMishaps` |
| `Invariance` | `[]IndInv` |

*Why an inductive invariant is needed.* A handle is bound to its program by a number that is
unique within a page only.  `Attests` says of a handle that its page is the current one, that its
id was given out there and that no other program has it; `HandlesInv` claims it of every open
handle and of the one being made, unless its page was lost.  It is kept because a page is replaced
only when it is not usable, and every way to that but the death of a browser empties `open` first
(`EndingInv`).  `Bystanders` collects the steps that touch neither pages nor programs, so that
only the others need a step each.  `TypeCorrect` has a proof of its own.

`LeaksAreMishaps` looks at the driver Python refers to, or at the one a reset has taken from it.
`_ensure_started` overwrites that reference whenever the page is not usable, and the old driver
must then have been paid for by a mishap *before*: `LossInv` says so of the nodes that
may lead to a new start (`Served`).  It holds there because a page is only given up by a reset or
a close, which stop the driver or count, by a browser that died, which counts, or by a
cancellation, which does too.  `LinksInv` says which driver a page belongs to, `ClosedInv`
what is left after the end.

### 5.7 The search

`CoordinateSearchProofs.tla` and the lemmas of `CoordinatePatternProofs.tla`, for any number of
components, any ranges, steps, budgets and caps, from `SearchAssumption`.

| theorem | statement |
|---|---|
| `RecordsAreOwn` | `[]RecordNeverRaises` |
| `OptimaAreBracketed` | `[]OptimumIsBracketed` |
| `Invariance` | `[]SearchInv` |

*Why an inductive invariant is needed.* Both properties speak of what the loop of
`next_coordinate_move` skipped.  `FirstAhead` shows that the first feasible position exists and is
unique, `NormalizedResult` that everything before it is infeasible, and `NormalizedIdempotent`
that a stored session is found as it was left, which is what the record functions test.
`SweepInv` then says that each side of every component behind the cursor is done: probed, or not
reachable, or made pointless by a material gain.  A tick may have moved since its side was looked
at; `Fresh` says that components ahead of the cursor stand on their anchors, and the one
at the cursor there or one tick up.  In the latter case the minus side is skipped when it has the
value one tick up; then both sides have the anchor's value, because the lattice is monotone
(`LatticeSandwich`), and there was nothing to look at.

The record of a session has eleven fields and the operators change them one after another;
`SetStop` to `SetScored` say once what each change keeps, so that `AdvanceResult`,
`RecordOutcomeResult` and `RecordFailureResult` read like the code.

### Only model-checked

* Liveness (`Terminates`, `ExecutionEnds`, `EveryRequestAnswered`, `CallsEnd`): TLAPS has no
  support for reasoning about `ENABLED`.  That a session stops is part of `Terminates`.
* What a recursive definition computes.  `SpecsAreWhole` uses of the sums in `Fits` only that
  equal layers have equal sums; `ScoredCandidatesAreKept` of the replay only its recursion.  That
  the first are the number of tunables and the length of the source, and the second what the
  writer's loop computes, is how they are read from the code.
* The four violations of section 3: a counterexample needs no proof.

## 6. Not modelled

Text and numbers: prompts, GLSL text and its static validation, hashes as bit strings, metrics,
rounding.  Whether a shader is any good is a free choice everywhere.  Configuration, logging, the
Studio adapter, benchmarks and scripts.  Of the progress registry the latest render frame; of the
artifact store how a reader resolves a run id: a read compares the same files as a publisher's
`Verified`, and changes nothing.  Of the frontend what it derives from the panel to display.

`register_run` reads the run index and then writes it, and two projects could register one run
id between the two; `ParentRollout` has one project and does not show it.

The modules replace one another at their interfaces (section 1.2) by what the inner one
establishes; no module runs two of them together.

## 7. Plan

1. *Done:* `CoordinatePattern`, `CoordinateSearch`, `DirectAttempt`; `Rollout`, `ParentRollout`;
   `GenerationService`; `WebGLRenderer`; `AuthorContract`, `LayeredAuthor`; `RunObserver`; proofs
   of every safety property the passing runs check.
2. `ArtifactStore`: `register_run` of two projects, `resolve_run`, verified reads beside a
   publisher and a crash at every step.  Properties: a read is the complete committed bundle or
   an error; a run id names one project.
3. Composition: `GenerationService` over `Rollout` as its generation step, so that
   `SuccessIsReadable` rests on `OkMeansReadable` by proof and not by section 1.2.
