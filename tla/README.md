# kaiju in TLA+

kaiju runs language-model agents. A request becomes a *trigger*; the kernel
queues it, a worker plans it into a graph of steps, runs the steps, reviews the
results, plans again if it must, and writes an answer. Around that run stand
the services it needs: conversations that are stored and summarised, a browser
it drives through an extension, plugins it builds into itself, processes it
keeps alive, work it repeats, and a page that follows what it does. This
directory specifies the parts of the system whose correctness depends on order,
concurrency or failure, checks them with TLC on small instances, and proves
central facts about them with TLAPS for every instance.

## 1. The system

```
 channels (cli, web, HTTP API, periodic, triggers)        page (EventSource)
        |  SubmitSync / Submit / Interject / Cancel            ^
        v                                                      | /events
 Kernel ---- event bus <--- heartbeat, executive module        |
        |                                              fan-out of DAG events
   Scheduler (priority queue, worker pool, maps)               |
        |  runJob: one goroutine per run, a hard ceiling       |
        v                                                      |
 RunDAGSync: preflight -> executive (plan) -> batch loop -> aggregator
                                                |    ^
                             fireNode goroutines |    | completions channel
                                                v    |
                      Graph (nodes, batches, budget)
                                                |
          throttle, gate (rate, intent, clearance, scope) -> tools
                                                              |
                     service processes, browser bridge, plugins, files
```

| Component | State it keeps | Operations | What is hard |
|---|---|---|---|
| Job scheduler `agent/job_scheduler.go`, front door `agent/kernel.go` | heap, `queued`/`running` maps, background count, pool sizes, per-job context, result and steering channels | Start, Submit, SubmitSync, Interject, Cancel, SetConcurrency, worker loop, runJob | mutex and condition variable shared by submitters, workers, Stop, resize and shutdown; ceiling against late answers |
| Graph `agent/dag.go` | nodes, their states and dependencies, batches | AddNode, ReadyNodes, SetState, HoldUntil, PruneBranch, CancelByTags, SkipUnfinished | dependency edges rewritten while nodes run |
| Run budget `agent/dag.go` | counters of nodes, model calls and calls per tool | TrySpawnNode, TryObserverCall, ResetBatchCounters | limits taken one after the other without a lock, with rollbacks |
| Batch loop `agent/scheduler.go` with `observer.go`, `group_review.go`, `rca.go`, `reflection.go` | in-flight count, reflection flag, investigation and replan counts | launchReady, one case per kind of completion, injections, quiescence, retry, abort | completions in any order, retries, several ways to extend the graph |
| Planner `agent/executive.go`, `agent/preflight.go` | - | decode, correct, filter and wire a plan's steps | positions, names and two passes all say who a step waits for |
| Dispatcher and gate `agent/dispatcher.go`, `agent/gates/gates.go`, `agent/target_scope.go` | per-service throttles, lockdown, ceiling, rate window | fireNode, executeToolNode, CheckTriad, CheckRateLimit, Update | calls decided on while others are and while policy changes |
| Service tool `tools/service.go` | registry file, fast-crash counters | start, stop, restart, remove, health loop | processes that outlive the agent, pids that are used again |
| Periodic work `periodic/periodic.go` | tasks, wake channels, settings file | Set, RunNow, the loop of a task | runs that outlive their limit, restart |
| Plugins `internal/plugins` | executable on disk, configuration, running host | Converge, plugin_install, Rebuild, ReExec | crash between steps, builds that do not start |
| Browser bridge `internal/browserbridge/bridge.go`, extension `extension/background.js` | devices, sessions, pending calls | pair, revoke, handshake, Do, waitFor | sockets lost at any point, sessions that replace each other |
| Conversation store `internal/db/sessions.go`, `internal/memory` | messages, summaries, traces | append, compact, trace, delete, reconcile | a compaction around a model call, restarts |
| Event stream `agent/agent.go`, `internal/gateway/sse.go`, `web/src/services` | held text, timers, subscribers, the page's state | broadcast, streamChunk, subscribe, resync | timers and broadcasts take the same text; full channels; re-reads |
| Compute and architect grafts `agent/scheduler.go`, `agent/architect_graft.go` | the architect's coders, whether its run nodes were grafted | graft a command, a blueprint, run nodes, checks | what is grafted later must come between what waited already |
| Kernel's event bus and heartbeat `agent/kernel.go` | 64 slots, a snapshot of running jobs | Emit, heartbeat | dropped events |
| Model calls `agent/llm` | the breaker all callers share | Complete, CompleteStreamResp, the one retry, allow, judge | calls judged late and in any order while the provider fails and callers leave |
| Permissions, sandbox, auth, configuration, prompts, other tools, skills, memories, command line, terminal and web interface | configuration, files, static tables | pure functions or single calls to the operating system or to a model | little that depends on order |

Components call each other directly; what crosses a goroutine is the scheduler's
condition variable, a run's completion channel, the steering and event channels,
and the tables of the database. The correctness of each, in one line:

* scheduler: an accepted submission is run at most once, answered exactly once
  and truthfully; the pool never sleeps beside work it could do, never loses
  count of itself, always drains;
* graph and batch loop: a step starts only when everything it depends on is
  over, a run ends only when nothing is in flight, and it does end;
* budget: no limit is overspent, whatever is refused is given back;
* planner: a reference means the step the planner meant;
* dispatcher and gate: no interleaving of calls and policy changes passes a rate
  or a cooldown;
* services: one recorded copy of each, a process nothing records only where the
  registry could not be written, none left dead or restarted for ever;
* periodic work: no doubled run, no lost request, settings survive a restart;
* plugins: what is on disk always starts and carries what was installed;
* bridge: callers are never left waiting on a session that is gone, a click
  lands once, a lost socket does not cost the pairing;
* conversation: traces are on their own answers, restarts close open turns,
  summaries stand for what they were made from;
* event stream: each piece of text once, a watched run closes, a stored answer
  stays;
* compute and architect grafts: what was written is run once, when all of it was
  written, and before whatever waits for it;
* model calls: an outage costs each caller one call per cooldown, and the breaker
  has a way back.

## 2. The modules

| Module | Models | Role |
|---|---|---|
| `RunLifecycle` | what a submitter can rely on | abstract specification |
| `JobScheduler` | `agent/job_scheduler.go`, its callers in `kernel.go` | detailed specification |
| `JobSchedulerProperties` | - | type invariant, safety, action and liveness properties, the refinement, a statement the code does not keep |
| `MCJobScheduler` | - | constants for TLC |
| `JobSchedulerProofs` | - | type correctness, queue soundness, FIFO; what executors and callers observe, and the refinement of `RunLifecycle`; the pool's counts and wakeups; operator messages |
| `RunGraph` | the graph of a run: `agent/dag.go`, `planStepsToNodes` of `agent/executive.go`, `completedGroup` of `agent/group_review.go` | operators from graphs to graphs, no state of its own |
| `BatchLoop` | `runPlanAndSchedule` of `agent/scheduler.go` with `observer.go`, `group_review.go`, `rca.go`, `reflection.go`, `panicguard.go` as far as they change the run | detailed specification, composed of `RunGraph` |
| `BatchLoopProperties`, `MCBatchLoop` | - | properties; the plans TLC explores |
| `BatchLoopProofs` | - | what the graph's operations preserve; type correctness, and that a run's graph is paid for |
| `BatchLoopOrderProofs` | - | what one step of the loop may do to a graph; from it, the loop's count, the order of steps, gates, what reflections read, that nothing is left waiting |
| `PlanWiring` | `agent/executive.go` from a planner's steps to nodes | algorithm in steps, checked over all small plans |
| `RunBudget` | `Budget` of `agent/dag.go` | compare-and-swap loops of any number of callers |
| `RunPartsProofs` | - | the budget: no limit is passed and nothing leaks; the dispatcher: what the gate and the throttle let through; wiring: whom the nodes of a plan wait for; blueprints: in which order what they graft starts; for any callers, calls, limits, plans and blueprints |
| `ToolDispatch` | `fireNode`, `executeToolNode` and the throttle of `agent/dispatcher.go`, `agent/gates/gates.go`, `target_scope.go`, `clearance.go`, `allowtool.go` | calls that run at the same time as policy changes |
| `ServiceManager` | `tools/service.go`, `process_unix.go` | tool calls, health loop and processes |
| `PeriodicTasks` | `periodic/periodic.go` | loops, runs, settings, restarts |
| `PluginSet` | `internal/plugins`, `plugin_install` | builds, handovers and crashes |
| `BrowserBridge` | `internal/browserbridge/bridge.go`, `internal/db/browser.go`, `extension/background.js` | both ends of a socket and the calls across it |
| `Conversation` | `internal/db/sessions.go`, `internal/memory/compact.go`, the API handlers that store | rows of one conversation |
| `EventStream` | coalescing and fan-out in `agent/agent.go`, `internal/gateway/sse.go`, `web/src/services/tools.js`, `chat.js` | from a run's events to one page |
| `ProviderCalls` | `breaker.go`, `client.go`, `recover.go`, `failure.go`, `anthropic.go` of `agent/llm` | calls, retries and the breaker during outages |
| `ArchitectGraft` | the grafts of compute steps in `agent/scheduler.go`, `agent/architect_graft.go`, `AlsoWaitFor` of `agent/dag.go`, `rewriteDependentsMultiExcluding` of `agent/utils.go` | a blueprint and a graph, built on `RunGraph` |
| `StoredStateProofs` | - | what restarts leave: periodic tasks and their requests, the rows of a conversation |
| `ModelReplyProofs` | - | calls to the model and their reply: what an outage costs, and what the page makes of a run |
| `ExtensionProofs` | - | one copy of each service, what an installation leaves on disk, the agreement of bridge, sessions and callers, what a lost socket may cost |
| `MCParts` | - | the eleven modules above from `PlanWiring` on that have state, explored by one run |
| `PartsProofs` | - | that what is proved of a part holds of the run of `MCParts`: the types of all eleven |

`MCParts` is no composition: the eleven parts share no variables. Its initial
states pick a part, and a behaviour is a behaviour of that part alone while the
variables of the others keep their initial values. With one member in `Parts` a
run explores that part only.

### How `JobScheduler` corresponds to the code

One action is one critical section of `Scheduler.mu`, or one step a goroutine
takes outside it.

* `pq` is the heap as a set; `Before` is `jobHeap.Less`, `IsTop` the root. The
  heap's array layout is not modelled: only which job is at the root matters.
* `queued`, `running`, `runningBg`, `closed`, `workers`, `liveWorkers`, `seq`
  are the fields of the same names. `maxBackground` is always recomputed from
  `workers` in the code, so it is the operator `MaxBackground`.
* Worker goroutines are anonymous and interchangeable. `checking` counts those
  about to lock the mutex, `waiting` those in `cond.Wait`; one that holds a job
  is represented by that job's `phase`. `Signal` moves one waiter to `checking`
  and `Broadcast` all of them, as the condition variable does.
* `phase[j]` is a job's program counter: `new`, `refused`, `queued`,
  `superseded` (replaced in the queue), `taken` (first critical section of
  `worker` done), `running` (in `runJob`), `ending` (`runJob` returned),
  `delivering` (second critical section done), `done`.
* Job contexts: `cancelled` holds the jobs whose own cancel function was called
  (superseding, Stop, ceiling, end of the worker's iteration), `gone` those whose
  caller's context ended. `CtxErr` is their union since the job's context is a
  child of the caller's.
* `executing` is the goroutine `runJob` starts. It survives the ceiling: the
  worker moves on and the executor may return later, or never.
* `SubmitSync` is `caller[j]` and `resultCh[j]`: a blocked caller takes either
  branch of its `select`, also when both are ready.
* Stop and steering look a job up in one step and act on it in another.

### How `RunGraph` and `BatchLoop` correspond to the code

The loop is one goroutine that reads completions from a channel, so everything
it does between two reads is one action: the case for the kind of completion,
the grafts and skips it makes, the message from the operator it looks for and
the `launchReady` it ends with. A handler that leaves early with `continue`
ends with `launchReady` only; one that falls through to the bottom of the loop
looks for a message and launches then (`SteerAndLaunch`); and four places launch
first and then fall through to the same lines (`LaunchThenSteer`): a graft of
probes (1516), any answer of the fixer (1612), a reflection that continues and one
that replans (1845). There what became ready has started before the message
gates the rest.

* `graph` is `Graph` as a sequence. `AddNode` numbers nodes in order and
  nothing removes one, so a position is an id.
* `inflight`, `reflectionInflight`, `debuggerInflight`, `investigationCount`,
  `replanCount`, `batchCounter` are the loop's variables of those names.
  `workSinceReflection` is a counter in the code; only whether it is above zero
  is ever asked. `debugGraftIDs` is the set, whose size is `debugGraftPending`.
* `nodesUsed`, `llmUsed`, `observerUsed` are the three counters of `Budget`;
  the loop's calls of `TrySpawnNode` and `TryObserver` are sequential in the
  loop's goroutine, so each is a comparison and an increment. What the counters
  do under several callers is `RunBudget`.
* `phase` is where the loop is: `starting` before the first launch, `looping`,
  one of the endings, `closed` when the answer is written, `died` when the
  process is gone. An ending is the loop's local flag (`reflectionConcluded`, the
  auth abort) or the `break` it took.
* Panics. A goroutine that defers `guardNodeCompletion` itself (a tool's, a
  reflection's, an investigation's, a fixer's) owes and sends one completion, which
  names its node and an error: these are `ToolFailsForGood` and `StageFails`. An
  observer and a review defer a closure that calls the guard (`observer.go:52`,
  `group_review.go:126`), and a `recover` that the deferred function does not
  call itself returns nil. So their panic is not contained: `SidePanics` ends the
  process, whether the node was added or not, and with it the run.
* A node's `jobs` counts the goroutines launched for it whose completion was
  not read, and is not in the code: `inflight` is meant to be its sum.
  `stage` is how far the goroutine of a reflection, an observer or a review has
  got. `read` marks outcomes a reflection was shown.
* `spawning` holds the observers and reviews launched whose goroutine has not
  added its node yet. `SideAdds` and `SideRuns` are two critical sections of
  `Graph.mu` with a window between them; the loop may act in it.
* The environment chooses: what tools answer (`ToolBlocked`, `ToolRetriedBlind`,
  `ToolRetriedTwotime`, `ToolFailsForGood`, `CheckRefuted`, `ToolSucceeds`),
  what models answer (plans from `Plans`, probes from `Probes`, fixes from
  `Fixes`, injections from `Injections`, a reflection's decision, or nothing
  readable), when the operator speaks and when the run's context ends.
* `PlanStepsToNodes` keeps the code's order of payment, dropping and wiring: a
  step is paid for before its tool is looked up, and the wiring pass stops at
  the first step that was dropped.

### How the other parts correspond to the code

* `PlanWiring`. A behaviour takes one plan through its door (the planner's
  `plan()` call, the JSON it wrote as text, or a stage that hands its steps
  over) in the code's order: decoding (`FlexInts`, tags, `stepIndexFor`), the
  corrections a plan is sent back for, renaming of names that earlier rounds
  used, de-duplication, breaking of cycles, the filters, and `planStepsToNodes`
  with its two passes. A step is its tool's kind, its name, what it comes after
  and at most one thing it reads. `agreed` is a history variable: the plan as it
  was accepted.
* `RunBudget`. Each call of `TrySpawnNode` is a member of `Spawners` with a
  program counter in `trying`. A compare-and-swap loop ends in one atomic step,
  its last round; the look at a tool's counter and the addition to it are two,
  as in the code. `nodesGranted`, `llmGranted` are history variables.
* `ToolDispatch`. `place` is where a call is between `fireNode` and the audit
  line; `holders` and `until` are the mutex of a service's throttle and the
  sleep inside it; `lockdown`, `clearance`, `rateLimit`, `invocations` are the
  gate's fields. The policy may change between any two steps of a call.
* `ServiceManager`. `registry` is the file; the tool's mutex makes start, stop,
  remove and one pass of the health loop one step each, restart three, and what
  the health loop found dead (`revive`) is started later without it. `process`,
  `owner` and `serving` are the operating system: a shell may die with its child
  alive, the agent may restart, and after a reboot pids belong to strangers. A
  process is started before it is recorded and killed before its record changes;
  a write of the registry that fails (`service.go:601`), or before which the agent
  dies, is `LosesWrite` in every operation that writes. Either leaves the file as it was
  and the process as it is, and the death is the lost write with `AgentRestarts`
  as the next step. `owner` tells of a running process whether its record was
  written (`noted`).
* `PeriodicTasks`. One loop per task with its timer, wake channel of one slot,
  `runNow` flag and time limit; a run that outlives its limit goes on (`bodies`)
  while the loop continues. `settings` is the file, in whole seconds; durations
  are counted in halves of a second so that truncation shows.
* `PluginSet`. `exe` and `next` are the executable and the file beside it that a
  build writes, with what they carry and whether they start; `cfgFile`,
  `cfgMem`, `args`, `marked` and `wanted` are the five places a set of plugins is
  kept in. Every step of a rebuild is an action, and the process may die before
  each.
* `BrowserBridge`. A `link` is one websocket from dialling to the end of
  `session.run`; `Bridge.mu`, `session.mu` and the database are separate steps.
  `joinedGen` counts how often the `joined` channel was closed and replaced. The
  extension is the service worker with its storage: a change of settings, a
  dial and a close are events it sees late and in any order.
* `Conversation`. `messages` is the table, ids grow, `created_at` is in whole
  seconds. A compaction reads, waits for the model, stores the summary and marks
  rows in separate steps; requests store a question and later an answer and its
  trace; a restart (`ReconcileDanglingTurns`) may come at any time.
* `EventStream`. Each goroutine that broadcasts has a place in
  `broadcastDAGEvent` (`at`); `streamMu` is let go between taking held text and
  delivering it. `ch` and `lost` are the subscription, `page` what the page
  believes, `reads` its requests for the messages, answered by the server in one
  step and shown in another. `whole` is a history variable: the page has been
  subscribed since before the run began.
* `ProviderCalls`. `calling` is where each caller is between `Complete` and
  `judge`: asking the breaker, waiting for the reply, deciding on the retry,
  waiting before it. `EndingOf` is what comes back as the code classifies it,
  which depends on the wire: by type on OpenAI's, by the words of the error on
  Anthropic's and on a stream. `consecutive`, `open`, `lastReason` are the
  breaker's fields and `cooled` the comparison with its clock. `tripped` and
  `passed` are history variables: the breaker opened in this outage, and whom it
  let through since.
* `ArchitectGraft`. `build` is the run's graph, each node with what it is
  (`kind`), who grafted it (`by`, the code's `SpawnedBy`) and for which task,
  command or check (`of`). A completion and all that follows from it is one
  action, as in `BatchLoop`: an architect's answer grafts setup commands and
  coders and rewrites who waited for it; the end of a coder, however it ends,
  looks whether it was the last and grafts what runs and checks the output. A
  blueprint is what the grafts read of it: how many setup commands and checks,
  what each task waits for and runs, and the services by command.

### Faulty variants

A definition that stands just before another with the same parameters, and is
not used, is that definition with a plausible mistake in it. Each property is
known to notice the mistake named for it in `PROJECT.json`; the others listed
break a part of one.

| Module | Faulty variant of | The mistake |
|---|---|---|
| `JobScheduler` | `LastInFirstOut` of `Before` | newest first within a priority |
| | `NoReserve` of `MaxBackground` | background may take every worker |
| | `Unclamped` of `Clamped` | a pool of zero |
| | `SignalMissed`, `BroadcastMissed` of `Signal`, `Broadcast` | nobody is woken |
| | `HeapKeepingOld` of `HeapWith` | the superseded job stays in the heap |
| | `SilentlyReplaced` of `ReplacedTold` | its caller is not told |
| | `QueuedKeepingEntry` of `QueuedWithout` | taking a job leaves it in `queued` |
| | `RunCancelledNotAbandoned` of `RunHitsCeiling` | the ceiling cancels a run and goes on waiting for it |
| | `RoomForOneTooMany` of `HasRoom` | one message more than the buffer |
| `RunGraph` | `SkipAll` of `SkipAllPending` | everything is skipped, finished or not |
| | `GateRoots` of `GatePending` | only steps that wait for nothing are gated |
| | `PaidOneMore` of `Paid` | the budget is compared after the step is admitted |
| | `KeptUnknown` of `Kept` | a step with an unknown tool becomes a node |
| `BatchLoop` | `HoldReflectionFree` of `HoldReflection` | holding a reflection costs no call |
| | `ToolRetriedPending` of `ToolRetriedTwotime` | a step under repair goes back to pending |
| | `ToolFailsUncounted` of `ToolFailsForGood` | a failure is no work to reflect on |
| | `MayReflectMidDebug` of `MayReflectOnBatch` | the guard on a running investigation is dropped |
| | `ReviewReturnsIdle` of `ReviewReturns` | what a review put back is not launched |
| | `FailureKeepsFlag` of `FailedReflection` | a reflection that failed leaves its flag set |
| | `LaunchUngated` of `LaunchThenSteer` | a message taken behind a graft is asked about and gates nothing |
| `PlanWiring` | `RenamedEarlier` of `Renamed` | of two steps with one name the last keeps it, not the first |
| `RunBudget` | `NoCallLeftKeepsNode` of `NoCallLeft` | a refused call does not give its node back |
| `ToolDispatch` | `LocksServiceFreely` of `LocksService` | the throttle's mutex is not held across the wait |
| | `PassesGateAudited` of `PassesGate` | an audit line also for what passes |
| `ServiceManager` | `RemoveRunning` of `Remove` | a record is removed with its process running |
| | `CrashesForgiven` of `CrashesNow` | the count of fast crashes starts again each time |
| `PeriodicTasks` | `LimitClearsFlag` of `LimitPasses` | a run past its limit counts as over |
| | `TimerAnswersRunNow` of `TimerFires` | a run the timer starts uses up the wake of a request |
| `PluginSet` | `SwapsWhatLinks` of `SelfChecks` | an executable is swapped in because it was built |
| | `RecordsUnarmed` of `RecordsAndArms` | an install does not ask for the handover |
| `BrowserBridge` | `JudgesThenReadsJoined` of `JudgesSession` | the channel to wait on is read after the session is judged |
| | `LostTwice` of `Lost` | a command that is not a read is tried again |
| | `ForgottenWhenReplaced` of `Forgotten` | giving way to a newer session costs the pairing |
| `Conversation` | `TracedOnNewestAnswer` of `TracedOn` | a trace goes to the newest answer |
| `EventStream` | `DeliversOrDrops` of `Delivers` | an event that does not fit is passed over |
| | `TakesTextStillArmed` of `TakesText` | a flush leaves the timer's field set |
| `ProviderCalls` | `AllowsAfresh` of `Allow` | the half-open breaker starts counting from nought |
| | `FailedCoolsAgain` of `Failed` | a failure of an open breaker begins its cooldown again |
| `ArchitectGraft` | `ResolvedTaskDepsBackAndForth` of `ResolvedTaskDeps` | of tasks in a circle only two that name each other are noticed |

## 3. What is checked

| Run | Question | Properties |
|---|---|---|
| `JobSchedulerPool` | do the queue, the maps, the counts and the pool stay consistent, whatever submitters, workers, a resize and shutdown do in whatever order? | `TypeOK`, `QueueSound`, `FifoWithinPriority`, `PoolKeepsCount`, `ReserveKept` |
| `JobSchedulerCallers` | what do callers see, with Stop, steering, departures and the ceiling? | `PreemptedNeverRuns`, `ResultKept`, `SteeringSound`, `ImplementsLifecycle` |
| `JobSchedulerLive` | does everything accepted come to an end? | `AcceptedComesToAnEnd`, `DrainCompletes` |
| `BatchLoopSteps` | does a run execute, review and pay for its steps as planned, through replans, investigations, fixes, failed stages, repairs and one operator message? | `TypeOK`, `StepsRunInTurn`, `EndsHavingReadAll`, `GraphIsPaidFor`, `NoReflectionMidCycle`, `GatedStepsWait`, `SettledStays` |
| `BatchLoopSteered` | do operator messages gate a running plan, and is the loop's bookkeeping exact when messages, reviews and observers, which write to the graph from goroutines of their own and may end the process, change it? | `LoopKeepsCount`, `GatedStepsWait` |
| `BatchLoopEnds` | does every run of a live process end, with group reviews, failed stages, probes and refuted fixes? | `QuietMeansSettled`, `RunEnds` |
| `PartsSafety` | what does each of the eleven other parts keep, whatever is interleaved, lost, crashed or reconfigured? | `PartsTypeOK`, and per part: `SessionsAgree`, `LostSocketDoesNoHarm` (bridge); `HistoryIsSettled` (conversation); `ReferencesHold` (wiring); `BudgetHolds` (budget); `RunsAndRequestsKept` (periodic); `DiskIsSound` (plugins); `OneCopyRuns` (services); `LimitsOnCallsHold` (dispatch); `PageFollowsRun` (stream); `OutageCostsOneCallEach` (provider); `BuildIsOrdered` (build) |
| `PartsLiveness` | does what was asked of five of them come about? | `AskedForComesAbout` (periodic), `InstalledBecomesLive` (plugins), `DeadAreDealtWith` (services), `HeldTextGoesOut` (stream), `BreakerGivesWay` (provider) |

Four more runs, `JobSchedulerStop`, `BatchLoopUnreachable`,
`ConversationStoodFor` and `ServicesFollow`, show statements of the repository that the code does not
keep; see section 6.

Some properties are conjunctions of named parts that answer one question:

| Property | Its parts |
|---|---|
| `PoolKeepsCount` | `RunningSound` (the `running` map and the background count), `LiveWorkersExact`, `NoLostWakeup`, `SurplusAwake`, `NoJobStranded` |
| `LoopKeepsCount` | `InflightExact`, `FlagTracksReflection`, `OneReflectionUnlessBatched` |
| `StepsRunInTurn` | `DependentsRunAfter`, `OneGoroutinePerNode` |
| `BuildIsOrdered` | `RunsNeedAllCoders`, `GraftedOnce`, `ChecksFollowRuns`, `StepsFollowBuild`, `NothingStranded` |
| `SessionsAgree` | `WaitersAreHeld`, `RejoinNotMissed`, `NewestSessionServes` |
| `LostSocketDoesNoHarm` | `ClicksLandOnce`, `KeepsPairing` |
| `AcceptedComesToAnEnd` | `EveryJobSettles`, `EveryCallerReturns` |
| `HistoryIsSettled` | `TraceOnItsAnswer`, `RestartClosesTurn`, `MarkedOnce` |
| `ReferencesHold` | `WiredAsAgreed`, `NoLiteralHandedOver` |
| `BudgetHolds` | `LimitsHold`, `CountersExact`, `SkillLimitIsSoft` |
| `RunsAndRequestsKept` | `RunsNeverPileUp`, `RequestNotLost` |
| `AskedForComesAbout` | `RequestTakenUp`, `RestartKeepsSettings` |
| `DiskIsSound` | `ExecutableBoots`, `InstalledStaysBuilt` |
| `OneCopyRuns` | `OneRecordedCopy`, `OnePerPort`, `OrphansAreFew` |
| `DeadAreDealtWith` | `CrashLoopEnds`, `BroughtBack` |
| `LimitsOnCallsHold` | `RateHeld`, `CallsSpaced` |
| `PageFollowsRun` | `EachPieceOnce`, `WatchedRunCloses`, `KeepsStoredAnswer` |

`CHECK_DEADLOCK FALSE` is set in every configuration because these systems stop:
a pool that was shut down has no workers left, a run that is closed does nothing
more, and the parts come to rest when their bounds are used up. That nothing
stops where it should not is what `NoJobStranded`, `NoLostWakeup`,
`AcceptedComesToAnEnd`, `DrainCompletes`, `QuietMeansSettled`, `InflightExact`,
`NothingStranded`, `RunEnds`, `WaitersAreHeld`, `RejoinNotMissed`, `RequestNotLost` and the
properties of `PartsLiveness` say.

### Bounds

* *Scheduler.* Jobs `c1`, `c2` are chat queries of one session, `b1` a
  background trigger of that session, `b2` one without a session: the smallest
  set with a rival in the queue, a rival in another lane and two jobs beyond a
  pool of two. `MaxDepth` 2 lets the cap refuse. One resize among 0, 1 and 3
  shrinks, clamps and grows. In `JobSchedulerCallers` the buffer holds one of
  two messages, so a full buffer happens. Each job is submitted once; a session
  with more queries repeats what two do.
* *Batch loop.* Plans of one to three steps: a chain, a join, siblings, a debug
  step, a service with a check, a plan with an unknown tool. Two to seven model
  calls (`MaxLLMCalls`), zero to two observer calls, three to four nodes, one
  replan, two investigations at most, two Holmes iterations, a batch of one. The
  budgets are small enough that each runs out in some behaviour and large
  enough that a whole investigation with its fix and the reflection after it
  fit. `MayX` constants switch off choices of the environment that a run does
  not ask about; between the runs each is on, and every action fires.
  `BatchLoopSteered` has two messages in reflect mode and observers in orchestrator
  mode (`MessageModes`), for a chain and for a join whose steps are of different
  tools, and observers and reviews that panic; what their combination and siblings
  under review break is listed in section 6. `BatchLoopSteps` has one message in
  reflect mode, which may come while a fix is being made: the fix grafts a step
  behind another, so that there is something to gate when the graft is launched.
* *Bridge.* One device, one call and two sockets: a call whose first socket is
  lost has a second to be tried on, and a second session replaces a first. A
  third socket and a second call repeat these.
* *Conversation.* Two requests, one compaction, a threshold of two messages of
  which one is kept, two seconds, one compaction or deletion by hand, one restart: a
  compaction meets messages that arrive, are deleted, or share its second.
* *Wiring.* Every plan of two steps over the shapes of `Shapes` (three kinds of
  tool, a name or none, coming after a position, itself or a name, reading a
  position beyond the plan, a name of its own or of an earlier round), and every
  plan of three over the narrower `Narrow`; a budget with room for one or three;
  one correction.
* *Budget.* Two callers at once, two tools, three nodes, two model calls and one
  call per tool, one reset: each limit is reached with the other caller half-way.
* *Periodic.* One task that runs at start and at stop, with an interval between
  its limits and three that may be set, of which one is out of range and two
  are not in whole seconds; two requests, one restart.
* *Plugins.* One Go plugin, one Python plugin and the bridge, one installer with
  two installs, one crash.
* *Services.* Two services that ask for one port, of which one is to be kept
  alive (in the liveness run one service under two commands, two fast
  crashes), one caller of restart, two pids, which are used again, restarts and
  reboots of the machine without bound: the properties are about pairs of
  processes. One write of the registry is lost (`MaxLostWrites`), by any operation:
  what it leaves behind meets everything else that may happen, and a second
  costs what the first did.
* *Dispatch.* Two calls, one throttled service, two ranks, limits of one and two
  in an hour of two ticks, a cooldown of one; one change of policy.
* *Stream.* One timer goroutine, channels of one slot, one piece of text in the
  safety run and two in the liveness run, two connections of the page (none in
  the liveness run, whose property is about the agent's side).
* *Provider.* Two callers (one in the liveness run) and a threshold of two: fresh,
  one short of open and open are three different counts, and a late judgement
  meets another caller's probe. No caller uses the Anthropic wire,
  where a refused connection counts as nothing (section 6), so the breaker does
  not bound what its callers send; the theorem is about the others among them.

* *Build.* Three tasks in every one of 48 orders, with circles, a task that names
  itself and one that is not there; a blueprint with two setup commands, two
  tasks, services of a task and of the architect and a check, with room for all
  of it and for half; two architects one after the other and side by side; and
  small plans, one of them shallow, that an operator and an observer each change
  once at any point.

The parts are explored one after the other, so the state space is the sum of
theirs, 2 million states. Every run takes two workers and less than four minutes.

### Fairness

* *Scheduler.* `Fairness` is weak fairness of the pool's start, of the workers,
  of the answer to a blocked caller and of the ceiling's timer: goroutines that
  are runnable are run, and the mutex is not held across a wait. Nothing is
  assumed of submitters, of Stop or resize, nor of an executor: a run may never
  return, and the ceiling, where there is one, is what ends it.
* *Batch loop.* `FairSpec` is weak fairness of the loop's goroutine and of the
  goroutines it launched. The latter call models and tools, and each call ends:
  tools have time limits, model calls have theirs, and a panic that is contained
  sends a completion (`agent/panicguard.go`). One that is not ends the process,
  about which `RunEnds` says nothing; `BatchLoopEnds` has none (`MayPanic`). That a completion arrives for a launched
  node is part of `Loop`, for a tool's goroutine does nothing but send it. No
  fairness is assumed of the operator or of the run's clock, so `RunEnds` does
  not rest on the clock.
* *Parts.* `FairPartsSpec` is weak fairness of a task's loop, its wait's limit
  included, and of the poke that follows a request, but not of its timer; of
  the plugin process's own steps, the supervisor that starts it again among
  them, and of a rebuild that was begun (`go build` ends, the handover is a
  system call); of the health loop, which is a ticker, and of
  the restarts it decided on; of each goroutine that broadcasts, timers
  included; and of the clock of the breaker and the steps of a call that are its
  own goroutine's. Nothing is assumed of people, models, crashes, of the time a
  run of a task takes, or of the page and its network. `BreakerGivesWay` assumes
  in its statement that callers go on asking.

## 4. What is proved

TLAPS checks every proof in the modules named `...Proofs`, for all values of the
constants that satisfy the assumption of the module they belong to (shapes of
the constants only: sets of names, natural numbers, plans that are sequences of
steps, at least one mode and one plan; that the ranks of the intents have a
highest one, as `IntentRegistry.MaxRank` has it; that no timer of the stream has
the name of the two goroutines that are named; that `Parts` has names of parts).
Three theorems have a hypothesis on constants besides, which the table names.

| Theorem | Statement | Argument |
|---|---|---|
| `TypeCorrect` | `Spec => []TypeOK` of the scheduler | inductive as it stands, one lemma per group of variables |
| `QueueIsSound` | `Spec => []QueueSound` | inductive with `TypeOK`; `QueueFrame` says which actions leave the queue alone |
| `FifoHolds` | `Spec => []FifoWithinPriority` | needs `SeqSound`: sequence numbers are distinct and below `nextSeq`, so the new job is the youngest |
| `AbandonedRunsAreCancelled` | `Spec => []AbandonedRunsCancelled` | with `ExecSound`: an executor exists only for a job that was taken. It is proved only; no run checks it |
| `ResultIsKept` | `Spec => []ResultKept` | with `CallerSound`: which phases leave a caller blocked and its channel empty |
| `PreemptedJobsNeverRun` | `Spec => []PreemptedNeverRuns` | with `PreemptedSound`: a replaced job is in no other phase again |
| `SchedulerImplementsLifecycle` | `Spec => ImplementsLifecycle` | step simulation under `CallerInv`, `QueueSound` and `DoneSound`, below |
| `PoolCountIsKept` | `~EarlyResize => (Spec => []PoolKeepsCount)` | from `PoolInv`, below |
| `ReserveIsKept` | `~EarlyResize => (Spec => ReserveKept)` | a step property, from `PoolInv` |
| `SteeringIsSound` | `Spec => []SteeringSound` | from `SteerInv`, below |
| `BatchLoopTypeCorrect` | `Spec => []TypeOK` of the batch loop | from `Inv`, below |
| `GraphStaysPaidFor` | `Spec => []GraphIsPaidFor` | from `Inv`, below |
| `NothingIsAbandoned` | `Spec =>` the count is never below what is in flight | from `CountCovers`, below |
| `LoopCountsExactly` | `ComputeReachable => (Spec => []InflightExact)` | from `CountCovers` |
| `LoopKeepsItsCount` | `ComputeReachable => (Spec /\ []ReflectsByFlag => []LoopKeepsCount)` | with `FlagHolds` |
| `StepsRunInTheirTurn` | `Spec /\ []Unwatched => []StepsRunInTurn` | from `TurnsHold` |
| `SettledStepsStay` | `Spec /\ []Unwatched => SettledStays` | a step property, from `TurnsHold` |
| `GatedStepsDoWait` | `Spec /\ []Unwatched => GatedStepsWait` | a step property, from `TurnsHold` and `GateHolds` |
| `RunsEndHavingReadAll` | `Spec /\ [](Unwatched /\ Unsteered) => []EndsHavingReadAll` | from `ReadHolds`, `TurnsHold`, `CountCovers` |
| `QuietIsAlwaysSettled` | `PlansInOrder => (Spec => []QuietMeansSettled)` | from `NothingWaits` and `CountCovers` |
| `ReflectionsAwaitTheFix` | `PlansInOrder => (Spec /\ [](Unwatched /\ dagMode # "nReflect") => NoReflectionMidCycle)` | a step property, from all of these |
| `ServiceTypeCorrect`, `OneCopyAlwaysRuns` | `ServiceInit /\ [][ServiceNext]_serviceVars => []ServiceTypeOK`, `=> []OneCopyRuns` | from `ServiceInv`, below |
| `PluginTypeCorrect` | `PluginInit /\ [][PluginNext]_pluginVars => []PluginTypeOK` | inductive as it stands |
| `DiskStaysSound` | `OneInstaller => (PluginInit /\ [][PluginNext]_pluginVars => []DiskIsSound)` | from `DiskInv`, below |
| `BridgeTypeCorrect` | `BridgeInit /\ [][BridgeNext]_bridgeVars => []BridgeTypeOK` | from `BridgeInv` and `JoinsCounted`, below |
| `SessionsAlwaysAgree` | `BridgeInit /\ [][BridgeNext]_bridgeVars => []SessionsAgree` | from `BridgeInv`, below |
| `LostSocketNeverHarms` | `BridgeInit /\ [][BridgeNext]_bridgeVars => LostSocketDoesNoHarm` | a step property, from `HarmInv`, below |
| `ReferencesAlwaysHold` | `WiringSpec => []ReferencesHold` | from `WiringInv`, below |
| `WiringTypeCorrect` | `ReadsOne => (WiringSpec => []WiringTypeOK)` | from `WiringInv` and `WiringTyped`, below |
| `BuildTypes`, `BuildKeepsItsOrder` | `BuildSpec => []BuildTypeOK`, `=> [](RunsNeedAllCoders /\ GraftedOnce /\ ChecksFollowRuns /\ StepsFollowBuild)` | from `Building`, below |
| `BuildOrdered` | `BuildSpec => [](Untangled(buildPlan) => BuildIsOrdered)` | from `Building`, below |
| `BudgetTypeCorrect` | `BudgetSpec => []BudgetTypeOK` | from `BudgetInv`, below |
| `BudgetIsExact` | `BudgetSpec => []BudgetHolds` | from `BudgetInv`, below |
| `DispatchTypeCorrect`, `LimitsAlwaysHold` | `DispatchInit /\ [][DispatchNext]_dispatchVars => []DispatchTypeOK`, `=> LimitsOnCallsHold` | from `DispatchInv`, below; the second is a step property |
| `HistoryStaysSettled` | `ConversationSpec => HistoryIsSettled` | from `ConversationInv`, below |
| `ConversationTypeCorrect` | `ConversationSpec => []ConversationTypeOK`, for finite `Requests` and `Compactors` | from `ConversationInv`, `RefersBack` and `IdsCounted`, below |
| `StreamTypeCorrect`, `PageAlwaysFollows` | `StreamInit /\ [][StreamNext]_streamVars => []StreamTypeOK`, `=> PageFollowsRun` | from `StreamInv`, below |
| `PeriodicTypeCorrect`, `PeriodicRunsKept` | `PeriodicSpec => []PeriodicTypeOK`, `=> []RunsAndRequestsKept` | the two are inductive together |
| `ProviderTypeCorrect`, `OutageStaysCheap` | `ProviderSpec => []ProviderTypeOK`, `=> []OutageCostsOneCallEach` | from `OutageSound`, below |
| `PartsTypeCorrect` | `PartsSpec => []PartsTypeOK`, under the hypotheses of `WiringTypeCorrect` and `ConversationTypeCorrect` | a behaviour of `MCParts` is one of the part it began with (`BridgeExplored`, `WiringExplored`, ...), so the eleven type theorems apply |

*The refinement.* Every step of the scheduler is a step of `RunLifecycle` under
the mapping of `LifeOf` and `HeardBy`, or leaves both unchanged. `LifeMoves`,
`LifeStays`, `HeardMoves` and `HeardStays` say how a change of one phase or one
caller shows through the mapping. Two facts are not visible in the step itself:
that whom `enqueue` replaces is exactly the pending rival of the abstract step,
which is `QueueSound`; and that a caller which takes its result takes one that
fits the job's end, which is `CallerInv` with `DoneSound` (what is in the channel
of a job that is over is an outcome of a run, or `preempted` if it was replaced).

*The pool's invariant.* `PoolKeepsCount` is not inductive. A submission wakes one
worker, which is enough only if there is one: `PoolSound` says that a pool that
is started and open has at least as many workers as it should. And a worker
that looks at the heap finds a job only if the heap has a top, which takes
`NoTies` and that every non-empty set of naturals has a least member
(`LeastNatural`, `TopExists`). `OneApart` and `FewerThanOneMore` say that one step
changes the number of jobs that could start by at most one for each worker it
wakes; the lemmas named `...Keeps` apply this to each way a worker or a
submitter moves. `~EarlyResize` is needed because the code loses count when a
resize comes before `Start` (section 6).

*Operator messages.* `SteeringSound` speaks of a message's job only. What keeps
it is that `running` names jobs a worker took (`RunningBegun`), that a job which
was taken is never put back, refused or replaced (`BegunStays`), and that one
member joins an inbox at a time, in a step that looked at its size (`InboxesFit`).

*What an outage costs.* `OutageCostsOneCallEach` counts calls let through;
`OutageSound` says why a caller gets no second one. While an outage lasts, either
the breaker is open and nobody was let through since, or it is one failure short
of open, and every call that was let through is `InDoubt`: it is on the wire or
over, its ending is a failure that counts, and judging it opens the breaker.

*The batch loop's invariant.* `Inv` is `TypeOK`, `GraphIsPaidFor` and that
`spawning` is finite. `GraphIsPaidFor` compares a length and a cardinality with
three counters. It is not inductive without the types (the length of what is
not a sequence, the room left in a budget that is overspent), and the size of
`spawning` can only be reasoned about when it is finite. The proof has three
layers.

1. The graph: each operation maps graphs to graphs and only the grafts
   make a graph longer. `GraftType` bounds a graft by what it was charged:
   steps kept are among the steps paid for (`KeptIsPaid`), and numbering the
   steps kept is possible because distinct members of a finite set of positions
   have distinct ranks, hence every rank is taken (`NthIsMember`).
2. What handlers share: `SteerFacts` (a message's reflection), `DispatchFacts`
   (the fixer) and `AfterToolFacts` (the batch reflection, the observer and the
   review after a success) each add exactly as many nodes or goroutines as they
   charge, and never charge beyond the budget they checked.
3. `Charged` and `Marked` say of a step that what it adds is charged and that
   what it writes is of the right type. `InvKept` is the whole inductive
   argument: `Inv`, `Charged` and `Marked` give `Inv'`. Each handler is then
   one short lemma that establishes the two (`ToolFailureKeeps`,
   `ToolSuccessKeeps`, `InvestigationKeeps`, `FixKeeps`, `ReflectionKeeps`,
   `StageFailureKeeps`, `ObserverKeeps`, `StrayKeeps`, `TopKeeps`,
   `SpawnedKeeps`, `SideKeeps`, `OutsideKeeps`), and `NextInv` collects them.

*The budget's invariant.* `BudgetHolds` counts the calls that hold a node or a
model call nobody was granted yet. It is not inductive alone: that a call which
undoes a node held one, and that one which has passed its last limit gives up
exactly one holding, depends on what brought it there. `CallSound` says it: a
call that looks at a tool's counter has a tool, one that takes or returns a model
call pays for one, one that takes a node did not start with the model call.
`BudgetInv` adds it and the types. A step of one call changes the sets of holders
by that call at most (`HoldersStep`, `OneMember`); `CounterMoves` lists the five ways a
step moves a counter, what was granted of it and the holding together, the lemmas
`BeginsSound`, `NodeStepsSound`, `CallStepsSound` and `SkillStepsSound` show that
every step is one of them, and `CountersKept` and `SkillKept` that each keeps the
sums. The tool's counter needs the bound on all callers, since any number may
have passed the check that the next step relies on.

*A whole run of the batch loop.* Every handler of a completion, every way to
launch and the goroutines beside the loop change a graph, and each invariant
has to survive all of them. So `BatchLoopOrderProofs` first says once
what any step may do. Handling a completion of node `i` gives a graph `g` in which
`i` alone is settled (`Settles`: it is over, or pending for its one blind retry, or
failed with its rewritten command still to report), and from `g` the graph `Moves`:
nodes that were pending are launched, skipped or gated, others are left alone, and
nodes are added that are in order when they run (`Fresh`). `Reacts` adds what
happens to the count, the flags and the side stages, and `HandleReacts` proves it
of every handler. `Sound` collects what nodes and launched side stages always
are. The invariants are then argued from the summary:

* `CountCovers`: every launch and every completion is in the count. It is an
  inequality, because `dispatchMicroplannerWithRCA` reports a launch that was none
  when compute is out of reach (section 6), and an equation if
  `ComputeReachable`.
* `FlagHolds`: the flag stands for the one reflection in flight, of which there is
  never a second, and in reflect mode nothing else is in flight then. `ReflectsByFlag` excludes the two ways the
  code loses the flag: `injectBatchReflection` starts without it, and the answer
  to a message in another mode than reflect clears it.
* `TurnsHold`: a step has one goroutine while it runs or its failed command is
  rewritten, and runs when all it depends on is over. `Unwatched`, no observer or
  review was launched so far, is needed: a review puts finished steps back to
  pending under dependents that run, and `launchReady` may fire the pending node of
  an observer a second time (section 6, Divergences).
* `GateHolds`: what was pending when a message was taken depends on its node. A
  step that a review puts back later does not; hence `Unwatched`.
* `ReadHolds`: in reflect mode, with nothing counted as work since, there is no
  outcome a reflection was not shown. The answer to a message clears the count of
  work done since it read the graph; hence `Unsteered`, no message was sent.
* `NothingWaits`: what is ready has been launched, or a review's completion is to
  come. A side stage that runs has a goroutine whose completion is to come (`Sound`),
  so with the count at zero none runs. With the count at zero the least pending node would be ready
  (well-founded induction on positions), so none is pending. `PlansInOrder`, plans
  depend on earlier steps only, is needed because `planStepsToNodes` wires later
  steps too and nothing checks steps of a fix, a probe or an injection for cycles.

A condition on the run (`[]Unwatched` and the like) is about what has happened
and not about settings: the theorem covers every run up to the first observer,
review or message, whatever is allowed.

*Services.* `OneCopyRuns` is inductive with `ShellsRecorded` (a process whose record
was written and whose shell runs is the one on record, with the port on record),
`RestartsSound` (what a restart read outside the mutex is something a start can be
asked for) and the types. A start kills the recorded process and the holder of
the port before it spawns, and a stop kills before it writes, all under the mutex.
So a record that a lost write leaves in the file is one of a process that is gone,
which later calls and the health loop treat as any dead one; only the write after
a spawn, when it is lost, leaves a process behind (`OneOrphanMore`), and no
other step does (`NoOrphanMore`). Nothing is claimed of such a process but that
there are no more of them than lost writes: see `RetryIsSafe` in section 6.

*Plugins.* `DiskIsSound` is about the executable; a build goes through the
file beside it. `DiskInv` adds that what is recorded is configured and wanted by
every build in progress (`RecordIsWanted`), that a build of the start and one of an
installer exclude each other (`BuildersInTurn`), and that what a build has checked
or swapped in is still what lies there (`BuildsAreSound`). The last fails with two
installers, which share the `.next` file; hence `OneInstaller`.

*Bridge.* `WaitersAreHeld`, `RejoinNotMissed` and `NewestSessionServes` need each
other and five more facts: types; `LinkSound` (a server's side that is closed set
the flag that says so, a session does not replace itself); `CallsServed` (a call's
session is one that was registered); `SessionSound` (`sessionOf` names registered
sessions of that device); `GensPast` and `JudgesCurrent` (a `joined` channel is
never newer than the bridge's, and a session that is judged is current unless
somebody joined since, in which case the channel is closed already). The steps are
summarised first, as for the loop: `LinkMove`, `CallMove` and `HeldMove` say how one
link, one call and one pending entry may change, and each fact follows from those.

`LostSocketDoesNoHarm` adds two groups of facts. What lands (`ClickInv`): the
requests of a call still on their way and those carried out are together no more
than the call has written (`CallCounts`), one socket at most carries an attempt
(`Carries`), and whatever came back was carried out (`AnswersEarned`); a second
attempt is made only by a call that may be repeated (`TriesAgain`). What is paired
(`PairInv`): a fresh code has paired nothing and a revoked device stays revoked, so
a socket closed as revoked, or refused with a secret, is one of a revoked device
(`PairedTo`). With several codes a socket dialled with settings read before a change
may be refused, or welcomed, for a device that is not the stored one; that is the
last case of `KeepsPairing`, which the run with one code does not reach.

The types of the bridge are part of `BridgeInv` but for one bound: the `joined`
channel is replaced at most once a socket. `JoinsCounted` compares the count with the
sockets that have joined (`HaveJoined`): `register` is passed once by each socket, and a
socket that joined has joined whatever becomes of it later.

*Wiring.* `WiringInv` says what a plan that came by the call is in each phase: steps
that carry their own position, and from the acceptance on the agreed plan, renamed,
then filtered, then wired. The rest is algebra. The renaming moves no reference,
because the first step with a name keeps it and `stepIndexFor` takes the first
(`RenamedSame`, `RenamedMeans`). A plan whose nodes cover every agreed step lost
none, by counting: as many steps survived the filter, and as many nodes were made, as
there were positions (`NothingLost`); so both are the identity there (`OnlyAll`), and
the second pass reaches every step. What an accepted plan refers to exists, is another
step, or is finished (`PointsAt`), so each reference becomes the one node it meant
(`WiredIsAgreed`). Nothing is claimed of a plan that lost a step: there the positions
are off (section 6, Divergences).

`WiringTyped` is about every door and about plans that lose steps. A plan is `TypedPlan`:
a sequence of steps that can be told apart by the position they were written at. What
the passes leave is a selection of these in their order (`OnlyIsFrom`), which is a
sequence because each of its places is taken (`PlacesAre`), and breaking cycles
changes only what a step comes after, so it does not matter which edges the
recursive walk removes (`BrokenIsWritten`). A node never waits for itself because
`planStepsToNodes` leaves a step's own position out. `ReadsOne`, a step as it is
written refers to one other at most, is the model's abstraction of parameters:
`deduplicateParamRefSteps` goes by a step's first placeholder, and a set has a first
one only when it has no second.

*Blueprints.* None of the parts of `BuildIsOrdered` is inductive. `Building` says that
nothing ready is left unlaunched, and `Good` what the graph keeps to besides: each
node was grafted by one that is over, of the kind that grafts such nodes (`Child`);
blueprints are those of architects with a coder (`IsAnswered`); what runs the output
is there only when every coder is through (`Complete`); nothing is grafted twice
(`Once`); a node begins after what it waits for (`InTurn`); and a step planned after
another waits for it while it has grafted nothing, and from then on for all it has
grafted (`AllCovered`). The grafts are lists, so what each appends is a lemma of its own
(`UpFrontIs`, `RunNodesAre`, built task by task with `StepByStep`). The steps of the
proof are summarised twice. `GraphMovesKeep` is about nodes that begin and end.
`GraftKeeps` is about any graft: new nodes of one grafter that is over, dependencies
of the old ones that only grow or exchange the grafter for what it grafted, and new
nodes that wait for each other in no circle. Each handler is then one of the
two, or one after the other (`ArchitectStep`, `CoderStep`, `ServiceStep`,
`ComputeStep`, `MessageStep`, `PlainStep`, ...).

That nothing is stranded is `Loose`: of any pending nodes one waits for none of the
others. It needs that the tasks of a blueprint wait for each other in no circle,
whatever they name: `resolveTaskDeps` adds the edges of one task at a time, none of
which leads back to it (`NoNewCircle`, `ResolvedUncircled`). It also needs that the steps
the plan starts with do not go in a circle (`Untangled`), which is about the plan's
author and not about the grafts; the code does not exclude it (`TextPlanIsAcyclic`,
section 6), and then those steps are stranded before anything is grafted. The other
four parts hold for such plans too (`BuildKeepsItsOrder`).

*Dispatcher.* `LimitsOnCallsHold` is about the step in which a call leaves the
throttle or passes the gate. `DispatchInv` adds to the types what that step relies
on: a line is written when a call is over, and once (`LinesSound`); who holds a
service's throttle holds it alone and waits until its gap has passed since the last
call (`ThrottleSound`); and each call that was let through in the last hour is in
the gate's window (`WindowSound`), whoever else looks and whatever ages out. Most
steps only move one call from place to place; `PlainMove` says so once for all of
them.

*Conversation.* `RowsSound` says that rows differ in their ids and are no younger
than the last id and the clock, `AnswersSound` that the id a request keeps for its
trace names no row but its own answer, and `CompactionsSound` that no summary is
dated after the clock. `RowsMove` and `KeptAs` say how a step may change the rows.
That a restart leaves no question last, and what a summary is dated by, take that
the rows in reading order have an oldest and a last one: `SomethingIsLast` shows it
by counting the rows that come before.

Two facts are added for the types. `RefersBack`: what a row is summarised by and what
a summary was made from are ids already given out, through a compaction's wait for the
model. `IdsCounted`: the ids given out, with those of the summaries still to come, are
no more than one a question, two a reply (it may make a summary due), one a
summary asked for by hand and one a restart. It counts requests and compactors, which
are therefore finite; the autoincrement column of the code has no such bound, `MaxId`
is there for TLC, and the theorem says that it is no restriction.

*Stream.* The pieces of a reply pass from the text held back through a goroutine and
the channel to the page. `Apart` says that these places share no piece and have none
twice; each handover keeps it (`ApartTaken`, `ApartSent`, `ApartRead`, ...),
because the text is taken and emptied in one critical section. That a watched run
closes needs `EndIsToCome`: "start" is sent before the run can end, "done" comes
behind it in the channel or is lost together with the signal, and the page has what
is gone from the channel. That an answer stays needs `AnswerIsKnown`: the only read
that can take it off is the one "done" asks for, a page that sent for itself asks for
it only after its own answer came, and by then the store has been tried.

## 5. What is only model-checked

* Liveness (`AcceptedComesToAnEnd`, `DrainCompletes`, `RunEnds`, and all of
  `PartsLiveness`): the prover has no reasoning about
  fairness and `ENABLED`.
* The pool's properties with a resize before `Start`, and the properties of the
  batch loop outside the conditions above where the runs happen to keep them
  (`GatedStepsWait` with observers and reviews over the plans of
  `BatchLoopSteered`).
* `TextPlanIsAcyclic`, which the code does not keep, and what the walk in depth
  of `breakCycles` (`AfterTheWalks`) computes: nothing can be shown of it without
  induction over data. That it leaves a plan well formed is shown without
  knowing what it computes.
* `NothingStranded` for a plan whose own steps wait for each other in a circle, which
  is false; the plans of `PartsSafety` have none.

## 6. Where the code and its words differ

Four runs each show a statement of the repository that the code does not keep;
each is a finding in `PROJECT.json`.

| Run | The statement | What happens |
|---|---|---|
| `JobSchedulerStop` | Stop cancels the running query of a session (`agent/job_scheduler.go:236`) | when two runs of a session overlap, the second overwrites the first in `running` and removes the entry when it ends; Stop then finds nothing while the first goes on |
| `BatchLoopUnreachable` | a run that cannot reach compute concludes on Holmes' analysis (`agent/rca.go:253`) | the fixer is counted in flight and never launched: the loop waits for its wall clock |
| `ConversationStoodFor` | compacted messages are stood for by the summary (`internal/db/sessions.go:367`) | what is marked is found by position after the model's answer, and a message that came meanwhile shifts the cut |
| `ServicesFollow` | a service names the tasks it requires before starting, or it starts before its dependencies are installed (`agent/prompts.go:363`) | nothing reads a service's `depends_on_tasks`: when the last coder ends, services and the commands of tasks are grafted side by side |

### Further refuted statements

These are defined in the modules with the statement they quote, and TLC refutes
them when they are added to the configuration named; no run is spent on them.

| Definition | Where | What happens |
|---|---|---|
| `GatedStepsWait` | `BatchLoopSteered.cfg` with `Plans <- Siblings` | a sibling that a review puts back while a message waits for its answer is not gated |
| `OneReflectionAtATime` | `BatchLoopSteps.cfg` | `injectBatchReflection` asks for `reflectionInflight` and never sets it (`scheduler.go:887-943`) |
| `PanicsAreContained` | `BatchLoopSteered.cfg` | "A goroutine that panics must not take the process with it" (`panicguard_test.go:10`), and an observer that panics "before the node is added still owes a completion" (`observer.go:49`): the closures that are deferred in `fireObserver` and in the review call a guard whose `recover` then recovers nothing. The test looks for the guard's name in the function |
| `OneReviewPerGroup` | `BatchLoopEnds.cfg` with `Plans <- SiblingsAndDebug`, `Fixes <- One1`, `MaxNodes = 5` | only what a review re-runs is marked, and only once it answers (`group_review.go:86`, 214): a call a fix adds to the round, or one that stays failed while its command is rewritten (`scheduler.go:754`), completes the group again, and two reviews rule on the same calls at once |
| `HoldIsForSomething` | `BatchLoopEnds.cfg` | pruned steps of a fix never leave `debugGraftIDs`: the loop charges a call each time round and holds until the budget is spent (1005-1018, 1905) |
| `LiveWorkersExact` | `JobSchedulerPool.cfg` with `EarlyResize = TRUE` | a resize before `Start` spawns workers, and `Start` assigns the count instead of adding to it (`job_scheduler.go:188`, `agent.go:735`) |
| `RetryIsSafe` | `PartsSafety.cfg`, `services` | a start whose write of the registry fails answers with an error and leaves its process running unrecorded (`tools/service.go:574`, 601); the retry finds no record and starts a second copy, against `docs/service.md`, Idempotency |
| `StopHolds` | `PartsSafety.cfg`, `services` | the health loop found a service dead, `stop` marks it stopped, the health loop starts it (`tools/service.go:241`) |
| `TextPlanIsAcyclic` | `PartsSafety.cfg`, `wiring` | cycles are broken before the references add edges (`executive.go:2545`) |
| `TextBeforeDone` | `PartsSafety.cfg`, `stream`, with `ChannelSize = 2` | a timer took the text, and "done" overtakes it between the unlock and the send (`agent.go:1194`) |
| `VerdictLands` | `PartsSafety.cfg`, `stream` | the page reads the messages back on "done", the server answers before the answer is stored, and nothing reads again (`tools.js:204-257`) |
| `InstallKeepsPlugins` | `PartsSafety.cfg`, `plugins` | an install wants what the configuration names, which leaves out what `--plugins` gave |
| `OneState` | `PartsSafety.cfg`, `plugins` | a plugin that an older executable carries and the configuration no longer names is compiled in and not live |
| `EveryRefusalLogged` | `PartsSafety.cfg`, `dispatch` | a call for another target that is out of scope is refused before the gate, without an audit line (`dispatcher.go:365-395`) |
| `QuestionHasRun` | `PartsSafety.cfg`, `conversation` | an unknown mode is refused with the question stored, and an empty reply is not stored (`internal/api/api.go:529`) |
| `OneRequestDecides` | `PartsSafety.cfg`, `provider` | past the cooldown `allow` closes the breaker for everybody who asks before the first reply is judged (`breaker.go:77-94`) |
| `CancelledCallsDoNotCount` | `PartsSafety.cfg`, `provider` | on the OpenAI wire a call whose caller left is a transport failure before anything looks at its context (`breaker.go:22`, `failure.go:125`) |
| `NothingIsSentWhileOpen` | `PartsSafety.cfg`, `provider` | streams do not ask the breaker (`client.go:682`, 913) |
| `RefusalsDoNotCount` | `PartsSafety.cfg`, `provider` | the text of a refusal quotes the failure that opened the breaker and is classified by its words, so it counts as another (`breaker.go:29`) |
| `StoodFor`, two more ways | `ConversationStoodFor.cfg` with a deletion or two compactions | the summary has the larger id and is deleted with later messages; two compactions mark each other's summaries |

### Divergences

Met while modelling; the models have them as the code does.

*Job scheduler.* A dropped connection cancels the job, queued or running, since
its context is derived from the request's (`job_scheduler.go:323`,
`internal/api/api.go:390`), while `job_scheduler.go:237-239` and
`docs/scheduling.md:148` say the worker keeps running it. A steering message
that finds the buffer full is dropped and reported as delivered
(`job_scheduler.go:230-233`), while `agent/agent.go:1057` promises false.

*Batch loop.*

* In nReflect and orchestrator mode a reflection runs beside steps, and its
  answer clears the count of work done since it read the graph
  (`scheduler.go:1616`), so a run can end with outcomes nobody read. The answer to an operator message
  does the same in every mode. A replan
  that stops ends the run with steps still running (1734-1736), where a
  conclusion waits for them (1852-1855).
* An observer's and a review's node is pending between `AddNode` and `SetState`
  (`observer.go:113-114`, `group_review.go:130-131`). The loop may launch it
  then: two completions for one node, against `panicguard.go:36`.
* A sibling that a review puts back to pending holds only the dependents that
  did not start yet; `group_review.go:111-113` says every dependent. The review
  starts in the same step that launches them (`scheduler.go:2290-2306`).
* A panic of an observer or of a group review ends the process
  (`PanicsAreContained` above), and with it every run, every job that is queued and
  every blocked caller.
* A group whose last call failed is never reviewed: the handler of a failure
  leaves before the review is considered. A group may be reviewed again, also
  while its first review runs (`OneReviewPerGroup` above), and the second review
  may put back a call that the first one put back and that runs by now.
* An observer's reflection asks for none of the conditions on an investigation
  (`scheduler.go:1142`), which the comment at 781-783 takes for guaranteed. An
  operator message's answer clears `reflectionInflight` while such a reflection
  runs (1615).
* Steps of a fix, a probe or an injection are not checked for cycles
  (`scheduler.go:1541`, against `executive.go:2521`): they stay pending.
* The steps of a new round, of a fix and the probes of an investigation are launched
  before a waiting operator message is read (1845, 1612 and 1516, against
  2302-2304).

*Compute and architect grafts.* The worklog's line that nothing will be run
(`scheduler.go:1334-1336`) is written when a coder's own completion is the last; when
the last coder was cancelled or skipped nobody writes it. Comments say that
services are grafted outside the node budget (`architect_graft.go:85`, 250), but
they are charged and left out when it is spent. Of two top-level services with
one name both get a node: only those of tasks are compared. What waits for a
service does not wait for its health check.

*Planner.* The wiring pass of `planStepsToNodes` takes a dropped step for the
end of what the budget admitted (`executive.go:2773`) and gives the steps after
it no dependencies. Filtering debug steps out of a fix moves later steps without
renumbering what depends on them (`scheduler.go:1526-1537`), and
`validatePlanSteps` drops steps the same way. What a step comes after by name is
the last step with the name, what it reads the first. A step with an unknown tool
is paid for. Plans handed over by a stage are not validated at all.

*Dispatch.* `docs/authorization.md:58` says the declared intent decides;
`ResolveToolIntent` takes the lower of two. Lockdown is read twice in one call,
so a change between the two reads is seen by one of them.

*Services.* restart reads the record outside the mutex and does not pass
`auto_restart` on; a failed automatic restart drops the record; a registry that
cannot be written after the spawn, or an agent that dies between the two, leaves a
process unrecorded (`SpawnsUnrecorded`, and `RetryIsSafe` above), and one that cannot
be written at a stop says "running" of a process that was killed; nothing verifies
that a pid on record is still the process it was; a shell that died with its
child alive counts as dead. The fast-crash counter is not reset by a start of the
user's. `docs/service.md` describes log and port handling the code does otherwise.

*Periodic work.* Settings lose parts of seconds when saved. A change whose save
failed stays in force until a restart. The last run of an `AtStop` task is skipped
while an earlier run has not returned.

*Plugins.* Two installers share the `.next` file. The drain for a handover can be
overtaken by the handover's own timer. A host that is up keeps the plugins it was
started with. The mark `KAIJU_CONVERGED` stays in the environment of every later
handover. `SetPluginsPersisted` is not atomic.

*Bridge.* A welcome that is lost after the code was claimed leaves a device
nobody has the secret of. A revocation between the handshake's look at the store
and its registration shuts no session.

*Conversation.* `MessageCount` counts compacted rows, so every turn past the
threshold compacts; `GetMessages` returns the oldest 1000.

*Event stream.* A node event delivered late after "done" sets the page loading
again. Text may arrive out of order from two flushers. The headers of `/events`
go out before the subscription. `graph.emit` drops facts about nodes without a
signal. An answer to an older read of the messages may come after a resync.

*Model calls.* `KindTimeout` never arises on the OpenAI wire: a call's own
deadline is a transport failure, against `llm/recover.go:14`. On the Anthropic wire a
refused connection has no kind, where `llm/failure.go` has `KindTransport`, so it is
neither retried nor counted. A stream takes a 200 whose body is an error for an
empty reply, which resets the breaker. When the breaker refuses the second attempt
of a call, the first attempt's failure is not counted.

## 7. What is not modelled

* *Within the batch loop*: compute and architect nodes (their grafts are in
  `ArchitectGraft`), the validators grafted again after a fix, superseded failures (`SupersedeFailuresIfDebugSucceeded`),
  actuators, the wording of what reflections are shown, the worklog and events.
* *Within the grafts of a build*: the group reviews of a build's commands, and their
  repair and retries; `BatchLoop` has both for the steps of plans.
* *Within the graph*: node bodies, results and lineage, which only models read.
* *Within the parts*: what blueprints say and how they are read; `TryObserverCall` and the totals per tool; resolution of a
  call's parameters, privileged programs and the cut of long results; service
  logs and status; protocol versions, the pause and forget buttons of the
  extension, and reuse of a used code; editing, titles, creation and deletion of
  conversations; stop, abort, regenerate, failed posts and several pages in the
  event stream; two installers at once. `ResetBatchCounters` goes over its map
  key by key in the code and is one step here.
* *Whole components*: the kernel's event bus (a channel of 64 that drops) and the
  heartbeat that walks a snapshot of the running jobs.
* *Left out for good*: prompts, parsing, the bodies of model calls, token accounting, the
  other tools, skills, permissions and configuration are pure functions or single
  calls to something outside; the command line, the terminal and the other views
  of the web interface hold no protocol of their own. Message contents are
  model values throughout, because no property tells them apart.

The map therefore covers a small share of the repository's lines. Most of the
rest is text: prompts, schemas, parsing, rendering, tools that make one call.

## 8. Plan

1. *Done*: job scheduler, run graph, batch loop; the eleven parts around them; their
   runs; theorems on the scheduler (its refinement included), the batch loop (its
   count, flag, order, gates and reading), the budget, the dispatcher, periodic
   work, the breaker, services, plugins, the bridge, the conversation, the stream and
   the wiring of plans, and blueprints.
2. *Done*: the types of all eleven parts, and of `MCParts` as a whole.
3. *Models.* `ArchitectGraft` composed under `BatchLoop` with the validators
   grafted again after a fix; `RunBudget` composed under it; the event bus and the
   heartbeat composed with `JobScheduler`.
