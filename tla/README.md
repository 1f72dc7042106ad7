# agent-primitives in TLA+

agent-primitives is a boilerplate for systems of several LLM agents: an orchestrator
that fans a lead agent's work out over subagents, an agent loop, a harness through
which every tool call goes, providers for the models, tracing, and an A2A server. The
repository holds it twice, in Python (`src/python/src/multiagent_boilerplate`, below
`P/`) and in TypeScript (`src/typescript/src`, below `T/`), meant to behave alike. Both
runtimes are concurrent: agents are coroutines (promises) of one event loop and share
one harness, one token budget and one checkpoint directory.

The modules here model the parts where that concurrency, a failure or a crash decides
what happens. One model stands for both runtimes; where they differ a constant or a
variable says which one is meant (`Python`, `Atomic`, `python`, `runtime`), and `PROJECT.json`
maps definitions to the one or the other source.

## Inventory

| component | source | state | operations |
|---|---|---|---|
| Harness | `P/harness/__init__.py`, `T/harness/index.ts` | its breaker, cache, audit sink | `execute`: scope, registry, breaker, approval, cached execution, sanitizer, audit entry |
| Idempotency cache | `harness/idempotency` | `_in_flight`: task of each key | `run` |
| Circuit breaker | `harness/circuit_breaker` | per tool: failure times, `opened_at` | `is_open`, `record_success`, `record_failure` |
| Approvals | `harness/approvals` | none | `requires_approval`, `decide` |
| Scope, errors, audit | `harness/scope`, `errors`, `audit` | the audit log | `assert_tool_allowed`, `record` |
| Budgets | `harness/budget` | tokens consumed, tool calls used | `consume`, `record`, `is_exhausted`, depth and count caps |
| Rate limiter | `harness/rate_limit` | per caller: hit times | `try_acquire` |
| Agent loop | `agents/run_agent` | messages, turn, errors, findings | turns, model call, tool calls, `finish` |
| Review flags | `agents/review` | none | `derive_review_flags` |
| Orchestrator | `orchestrator/orchestrator` | children of a call | `spawn_subagents`, restore, retry, checkpoint |
| Checkpoint store | `orchestrator/checkpoint` | one file per task | `save`, `load` |
| Subagent, lead and citation agents | `agents/subagent`, `lead_agent`, `citation_agent` | none | `run_agent` in their roles |
| Compaction | `agents/compaction` | none; it replaces the message list | `maybe_compact` |
| Resilient model | `providers/resilient` | none between calls | retry, timeout, backoff, failover |
| Replay model | `providers/replay` | cassette, in memory and on disk | `complete` in three modes |
| Provider adapters | `providers/*` | none | `resolve_provider`; conversion to and from SDK types, call ids, stop reasons; the mock's script |
| Tracer | `tracing/tracer` | spans, listeners | `start_span`, `end_span`, `on_end` |
| Dashboard server | `tracing/dashboard_server` | clients and their streams | backlog, live events |
| A2A server, client | `a2a/server`, `a2a/client` | limiter, handler | request handling, delegation depth |
| Evals | `evals/run_eval`, `evals/judge` | the records of the seeds | seeds one after the other: lead, subagents, judge, flags |
| Tools | `tools/registry`, `tools/builtin/*` | none | `spawn_subagents`, `search_web`, `write_artifact`, ... |
| MCP adapters, artifacts, plans, cost, config, schemas, entry points | rest of `P/`, `T/` | files, or nothing | thin, sequential |

### How they interact

    lead agent --spawn_subagents--> Orchestrator --run--> agent loop (one per subagent)
                                        |                    |        |
                                   Checkpoint store     RunBudget   Harness  (shared by all)
                                                             |      /   |   \
                                                    resilient model  cache breaker approvals

All agents of a run call one `Harness` object. Its state is therefore shared state
among coroutines that interleave wherever one of them awaits something. The orchestrator
awaits all its children at once. The A2A server goes further: in Python each request
has a *thread* (`ThreadingHTTPServer`) with a loop of its own, over the same harness
and limiter.

### What is hard, and what must hold

* **Harness**: several calls of one key, failing and retried; a breaker that changes
  while an approval is awaited; a sanitizer, an audit sink or an approval provider that
  raises; early returns that must still audit. It must run a key once, report the execution
  of the call's own key, keep no failure cached, account for every call, and return.
* **Breaker**: pruned and cleared lists against what "too many failures in the window"
  means over the whole history.
* **Agent loop**: token checks before and charges after overlapping model calls; tool
  budgets over several turns; call ids of providers used as keys of the shared cache;
  flags that depend on the whole run.
* **Orchestrator and checkpoints**: retries, crashes in the middle of a write, failing
  writes, children left running, torn files met at a resume.
* **Rate limiter**: window edges, and threads between a read and a write.
* **Resilient model**: nested retries and failover, and timeouts that in TypeScript leave
  the call running beside its retry. The result must be that of the last try, tries must
  be made in order, and a provider that never answers must not hold a request for ever.
* **Replay model**: equal requests in flight at once, a cassette that lives in memory and
  is written whole over its only copy, saves that fail, ends of the process. What was recorded
  last must be on disk, and must be what replay answers, unless one of these cost it.
* **Tracer and dashboard**: spans that end between a browser's backlog and its
  registration, backlogs sent again after a lost connection, and connections at close.
* **A2A server**: handlers that pass the limiter and then overtake each other, agents that
  delegate to agents, callers that wait in turn or give up, or that state depths of their own
  making. Windows must stay within the limit, chains within what the cap leaves, and every
  request must be answered.
* **Conversation**: a history that is cut again and again and must stay one that each
  provider can follow: every call with its results behind it, in four forms; a failover
  between vendors in mid-conversation; ids and stop reasons that some vendors do not send.
* **Evals**: seeds, leads and subagents over one harness that outlives each of them, and
  orphans of a fan-out that run on while later seeds do. What is judged must have been
  found for its seed, and nothing left behind may go without a flag.

`PROJECT.json` lists these as hazards, each at its line, with the properties that cover
it or the reason why none does.

## Modules

| module | models | composes |
|---|---|---|
| `CircuitBreaker` | the breaker of one tool, as operators on a record | |
| `BreakerHistory` | one breaker with the ghost history of all it was told | `CircuitBreaker` |
| `IdempotentKeys` | abstract: what an idempotency key promises | |
| `Harness` | `Harness.execute` of concurrent calls | `CircuitBreaker`; refines `IdempotentKeys` |
| `AgentLoop` | `run_agent` of several agents over one harness and one `RunBudget` | `Harness` |
| `Orchestrator` | `spawn_subagents`, checkpoints, crashes, restarts | |
| `RateLimiter` | `try_acquire` for one caller | |
| `A2AServer` | the handler of `POST /tasks`, and agents that delegate to agents | `RateLimiter` |
| `ResilientModel` | `ResilientChatModel.complete` of requests, and the calls of providers | |
| `ReplayModel` | `ReplayChatModel`: cassette, file, record and replay, ends of the process | `ResilientModel` |
| `Conversation` | `run_agent`'s history, the compactor, a chain of providers and what each is sent | `ResilientModel` |
| `EvalSuite` | `run_eval`: seeds, lead, subagents and judge over one harness | `IdempotentKeys` |
| `LiveTrace` | a run's tracer, the dashboard server, and a browser's page | |
| `MC...` | instances for TLC | each the module of its name |
| `...Proofs` | theorems and proofs | each the module of its name |

### CircuitBreaker and BreakerHistory

The record `[failures, openedAt]` is `ToolState`; a failure is a pair of its time and of
who reported it, because two failures of one instant are two entries of the list.
`IsOpen` is what `is_open` returns and `AfterIsOpen` what it leaves (at the end of the
cooldown it clears the state). `BreakerHistory` adds the list of every call ever made
and states when the breaker *ought* to be open: `OpensExactlyOnBursts`.

### Harness

`execute` gives way at two awaits only, the approval and the task of the key, so a call is
at most three steps: `Submit` (scope, registry, breaker, then a refusal, the approval, or
the cache), `Decide`, and `Resume`. `TaskEnds` is the tool, and `Tick` the clock. `pc`,
`awaits` and `outcome` are the coroutine's own state; `inFlight` and `task` are
`_in_flight` and the tasks in it; `audit` is the log. The order in `Resume` is the
code's: the owner of a failed task pops its key, waiters do not, all of them report to
the breaker; on success the breaker is told before the sanitizer may raise.

`MayRaise` names which of the three injected parts can raise, and `faults` remembers which
did in each call. A sanitizer that raises turns the outcome into an error
(`OutcomesAreOfExecutions` says of every outcome which execution it stands on). No `try` is around
`decide` or the sink: what they raise leaves `execute`, in the first case before the audit
record (`DecisionRaises`), in the second in place of it (`Record`). `AuditMissesOnlyFaults` is
about all calls, these included.

`KeepsIdempotencyPromise` is the refinement: with the running and the successful task of
each key read off `inFlight` and `task`, every behaviour of `Harness` is one of
`IdempotentKeys`, where a key has one execution at a time, none after a success, and
every ok answer is that execution's.

### AgentLoop

One action per part of the loop between awaits: `BeginTurn` (caps), `ModelAnswers` or
`ModelRaises`, `CallTool` (counts against `ToolCallBudget`, then submits to the harness
or refuses), `ToolReturns`, `EndTurn`. The harness is an `INSTANCE` of `Harness` whose
calls are the pairs (agent, number of the call). `CallId` is what providers put in a
tool call: unique with Anthropic and OpenAI (`UniqueIds`), the position in the response
with Gemini. `Status`, `FailedCalls` and `ReviewFlags` compute what `finish` and
`derive_review_flags` would.

### Orchestrator

Children go through `Load` (restore or start), `AttemptEnds` (retry, give up or go on to
the checkpoint), `BeginSave` and `EndSave` (a write truncates, then fills), `Gather`. A
`Crash` takes memory and leaves the files as they are; `Resume` starts the process over.
`runtime` is a variable that no action changes, so one run covers both runtimes. In Python
writes and reads block the loop (`LoopIsFree`), `load` raises on a torn file, and a failing
child makes `gather` raise while its siblings go on; in TypeScript `load` takes a torn file
for an absent one. `StoreFailsIn` names the runtimes whose disk may fail. `CompleteIsDurable` looks
at the files themselves through all later calls: what a complete call returned is there, or a call
has raised since and left an orphan that writes over it. `WorkersAreBounded` counts what such
orphans add to the cap.

### RateLimiter

`Read` filters the caller's hits, `Decide` allows (appends) or rejects, and both write
what was read. `Atomic` says whether another call can come in between: not in
TypeScript, nor from one Python thread; between threads of the Python A2A server it can.

### A2AServer

`stage` is where the handler of each request is: `received` (token, limiter), `reading`,
`running`, `answered`, or `dropped`: `runtime`, which no action changes, says which server it is, and
Python's raises on a body that is no object (`NoObject`). `TryAcquire` and `Limited` are `Read` and `Decide` of the limiter
with what the handler makes of the answer; `ReadBody` is the body, the depth and the
validation, `AgentEnds` the response. The requests are those of one caller key, which is
the token where there is one, so an agent's delegations count against the same limit.
`Post` comes from outside with one of `StatedDepths`, a set of any integers, as neither server looks at
more than whether the field is a number; `Delegate` comes from a running agent with its own depth,
`GiveUp` ends a client's wait without telling the server. The same `A2AServer` stands for
several servers with one cap: chains, and rings, of them are chains of requests.

### ResilientModel

`complete` is two nested loops; `try` holds the loop variables of each request, (model,
attempt). A request is `calling` while it awaits a try and in `backoff` while it sleeps.
`call` is the state of the model call of every try, those of earlier tries included, as a
timeout leaves them running in TypeScript and cancels them in Python. `FailsTransiently`,
`FailsForGood` and `TimesOut` are the ways through the `except`, and `NextTry` is what
follows a transient failure: pause, next model, or raise. `Request` is a set because
`ReplayModel` has concurrent requests.

### ReplayModel

The base of the replay model is a resilient model, as the documents suggest to compose
them. `Complete` is `complete` up to the base call: a hit is served at once, a miss goes
to `Begin` of the base. `Record` is the rest, in one step, as neither runtime gives way
between the base's answer and the end of the write. The answer goes into memory first; then the
write is done (`Saves`) or raises (`SaveRaises`), with the file as it was or cut off, and the process
lives on. `StopBetweenWrites` and `StopInWrite`
are the ends of the process; `Start` loads the file in recording or in replay mode. An
answer is named by the request that the base answered, so that two answers to equal
requests differ. `served` and `replayed` are what each request got, first while
recording and then in replay. Three history variables say what ought to be found: `latest`, the last
answer recorded for each key, `unsaved`, the keys whose answer only memory may have after a save
that raised, and `lost`, those that an end of the process has then cost, or a cut-off write.

### Conversation

One agent's side of `run_agent`, turn by turn: `BeginTurn` (with the compaction, which
happens or not, as the estimate of tokens is not modelled), the request to the chain (turn
n is request n of `ResilientModel`), `ModelAnswers` or `ModelRaises`, `ToolsRun`, and
`OutOfTurns`. `Init` chooses which keys the environment has, so `Resolve` turns any provider
of the chain into the mock. What an adapter makes of a response is `CallIds` and `StopReason`;
what it makes of the history is `ToAnthropic`, `ToOpenAI`, `ToGemini`, put together in `Wire`.
A call is known by who made its id up, its tool, and a number that is new, the position in
the response (Gemini) or always the same (mock). `transcript` is everything ever said, against
which `TranscriptIsKept` holds the history. Tool outcomes are those of `AgentLoop`; here each
call gets its block, as in the code, be it an output or an error. `ToolNames` are the tools of
the registry; the mock's script names three that it must have.

### EvalSuite

`main` goes from `ask` to `answer` to `judge` for each seed (`LeadFansOut`, `LeadAnswers`,
`Judge`), or ends where a model or a verdict raises. The tool calls, one `spawn` of each lead
and those of `Script` of each subagent, go through `IdempotentKeys`, the abstract
specification that `Harness` is shown to implement: `Submit` answers a call from a settled key,
begins an execution, or waits. `KeyOf` is the id: with `UniqueIds` the call's own, without it
the mock's, which only depends on the tool. An execution of `spawn` starts the children
(`FanOut`) and ends in `Gather`, with the first that raises or with all of them; a child that is
left behind goes on (`Subagent`, `SaveCheckpoint`) while later seeds do. `Flagged` is what
`derive_review_flags` makes of the lead's run, and a record is flagged by it or by the verdict.

### LiveTrace

`StartSpan`, `EndSpan` and `CallListeners` are the tracer, `RunIsDone` and `Close` the
server as the run uses it, `Connect`, `WriteBacklog` and `Register` the handler of
`/events`, and `Receive` the page. `python` is a variable that no action changes:
one run covers both runtimes. The names of its specification begin with `Trace`, so that
`ServerProofs` can extend both servers. `RunMayAct` and `HandlerMayAct` say who can act
between the steps of whom: threads in Python, whole handlers in TypeScript. `stream` stands
for queue, socket and EventSource of a connection; `gap` remembers which spans were
broadcast while the browser's handler was between its copy and the registration.

## Runs

| run | instance | shows |
|---|---|---|
| `breaker_history` | threshold 3, window 3, cooldown 2, clock to 6 | the pruned list opens the breaker exactly on bursts of the history |
| `harness` | 3 calls, 4 keys, 3 tools, threshold 2, clock to 2; provider, sanitizer and sink may raise | the safety of the harness, its liveness, and the refinement; findings: errors of the sanitizer, calls without an audit entry |
| `agents` | 2 agents, a gated tool, 2 turns, 2 calls per turn, budget 2, ceiling 2, repeated ids | token overshoot, tool budgets, clean unflagged results; every agent ends |
| `orchestrator` | both runtimes, 2 tasks, 2 spawns, 2 crashes, failing writes in Python | only ok is stored, in TypeScript once and for good; what is complete stays on disk but for orphans of raised calls, which do not add up; calls end |
| `torn_checkpoint` | Python, a crash | finding: a torn file fails the whole resumed call |
| `a2a` | both runtimes, 3 requests, stated depths -1 and 1, limit 1, cap 2, clock to 4 | windows and chains within their bounds, rejections only at the limit; every request is answered or dropped; findings: negative depths, dropped requests |
| `rate_threads` | 5 requests, limit 2, interleaved | finding: two threads, one request too many |
| `replay` | 3 requests, 2 keys, 1 retry, failing saves, 2 ends of the process, TypeScript | tries in order, the last one's result, no stray calls but those that timed out; cassette and file have the last answers, and these are what is replayed; finding: of two answers one is |
| `live_trace` | both runtimes, 3 spans, 1 browser, 1 lost connection | nothing left out but in the Python gap, pages never go back, ends are shown, connections end |
| `conversation` | 2 chains of 2 vendors, any keys, 4 turns, 2 roles, keep 1 or 2 messages | the history stays whole but for its middle, every request is well formed, ids and truncation are known but where the vendor hides them; the agent ends |
| `evals` | 2 seeds, 2 subagents, 1 tool, unique ids | answers rest on their own seed's work, orphans are flagged; the suite ends |
| `call_ids` | 2 seeds, 2 subagents, 2 tools, the mock's ids | finding: findings cross subagents and seeds |

### Bounds

* Three calls are the least at which an owner fails, a waiter resumes before it, and a
  third starts anew; two keys of one tool make a mix-up of keys and tools visible. The
  proofs cover all sets of calls and keys.
* The clock runs past the window and past the cooldown, so failures age out and the
  breaker half-opens. `MaxTime` is the bound.
* Agents: two are needed to share, two turns with two calls each exceed the tool budget
  of 2 in mid-turn and across turns; a ceiling of 2 is overshot by two calls of usage 1.
  `MaxCallsPerTurn` and `MaxUsage` are the bounds.
* Orchestrator: two tasks with two spawns have one done and one torn or not begun at a
  crash; two crashes tear a file twice. `MaxSpawns` and `MaxCrashes` are the bounds; the
  safety of the run is proved for all of them.
* A2A: three requests are a chain one longer than the cap of 2, as a stated depth of -1 allows, or
  one request for each of three windows of 2 within `MaxTime`; with a limit of 1 two requests
  compete for every window. Under a stated depth of 1 the first agent may run and its delegate
  is too deep. Python's threads are in the run as far as their calls of the limiter do not overlap
  (`Atomic`); that they can is the subject of `rate_threads`. Larger limits, windows and caps, and
  all depths, are covered by the proofs.
* Replay: requests share nothing but the cassette, and with one retry a late call of a try
  overlaps the next; more models and retries are left to the proofs. Three
  requests are two of one key in flight at once and one of another key (or a third of the
  same); two ends of the process (`MaxStops`) are one while recording and
  one after a restart.
* Conversation: four turns are what it takes to compact a history that was compacted before,
  at both parities of the cut; the two chains have every vendor in them, and the mock for each whose
  key is missing.
  `Asks` bounds an answer to two calls, of which the second may be the one that is lost.
  Requests try each model once, since retries change nothing of the history.
* Evals: the second seed is the one that may be answered with the first one's work, and runs
  beside its orphans. One tool call of each subagent is enough for that; the proofs cover any
  number of seeds, subagents and calls.
* Live trace: one browser, since browsers share only the tracer; three spans are one that
  ended before, one open during, and one that starts after the connection. `MaxLosses` of
  1 gives a second backlog over a page that has spans already.
* Symmetry is used in runs without liveness only, over callers or requests.

Deadlock checking is off in runs whose system rightly stops: all calls returned, all
agents ended, all requests decided.

### Fairness

Fairness is weak and of each coroutine, as an event loop gives it: what can go on is
eventually run. Three things are assumed and not given by the code: that approval
providers decide, that tools end (the harness has no time limit for either), and that
model calls end (`AgentEnds` of `Conversation` shows that the resilient model sees to
this last one: it assumes that its timers run and nothing of the providers). In `EvalSuite`
fairness is of all of `Next`, as every step of the suite uses something up. In `A2AServer`
handlers go on, bodies arrive or their connection breaks, and an agent ends once it has the answers it
waits for; whether anybody posts, delegates or gives up is open. In `LiveTrace` connections
deliver, handlers run and browsers reconnect, but nobody need call `done` or `close`.
Nothing makes anyone restart a crashed
process or make another request, so these steps have no fairness, and the liveness
properties speak of calls that were made and not of processes that died.

## Proofs

Proved by TLAPS for every value of the constants, under the named assumptions in the
modules that declare them (`HarnessAssumption`, ...):

* `BreakerProofs`: `BreakerOpensOnBursts`. `IInv` says that the pruned list is the part
  of the history since the last clearing that is still in the window; without it nothing
  links the list to the past.
* `HarnessProofs`: `IInv` is inductive. Its parts say how far a call has come by what it
  has written (`NotYetInCache`, `NotYetReturned`, `HasKey`), that a call awaits a task of
  its own key, that a live task is the one in the cache (`OwnsItsTask`) and that
  what is in the cache is live (`CachedTaskIsLive`). `OneExecutionPerKey` follows: two
  live tasks of one key would both be the cache's one entry. Type correctness, the
  audit, outcomes, the cache and the refinement of
  `IdempotentKeys` (initial states, and every action to a step or a stutter) all rest on it.
* `ServerProofs`, the limiter: for atomic calls, `HitsAreTheWindow`: the list holds exactly the
  allowed requests still in the window. Limits and rejections follow by cardinality.
* `ServerProofs`, the A2A server: every step of the server is a step of the limiter or leaves it alone
  (`ServerUsesLimiter`), so the limiter's invariant holds within it; with it, `ServerInv`
  says that whoever runs was admitted and that a delegation is as deep as its caller.
  `ServesWithinLimit` compares two sets of requests. `BoundedChains` is about chains of
  any length, so it needs more than one step of reasoning back along the chain: in place of
  an induction it takes the first agent whose depth is not that of its place in the chain
  (`LeastNumber`), whose caller is then one before it whose depth is. Nothing is assumed of the
  depth that the first one was given but that it is an integer.
* `ServerProofs`, the dashboard: `TraceInv` says of each browser what its stream holds, in order. No
  start of a span stands behind its end (`NothingStale`), no event of a span behind `done`
  (`DoneIsLast`), only ended spans are told or shown as ended (`OnlyTheEndedIsTold`), and each
  end is on the page, in the stream, in a backlog that is about to be written, or in Python's gap
  (`NothingIsForgotten`). `NothingIsLeftOut` is the last for a connected browser, and
  `PageNeverGoesBack` needs the first: an event taken from the head of the stream does not reopen
  a span, since its end would have had to come before.
* `AgentLoopProofs`: `TokenCeiling`. The strengthening adds to the tokens consumed the
  `MaxUsage` of each agent that is at the model: the sum stays under the ceiling plus
  one call for each agent that has passed the check. The second part is about the tool calls.
  `HarnessProofs` is instantiated for the agents' harness (`Proved`), which is shown to be the same
  (`SameHarness`), so its `IInv` is part of `LoopInv`; the rest says that the calls that have left
  `idle` are those the agent has counted, and that only the last of them can be under way
  (`CallsInHarness`). The step from a call's outcome to its audit entry is the harness's invariant.
  `AgentsUseHarness` makes every other theorem about the harness one about the agents' harness,
  the refinement of `IdempotentKeys` first (`AgentsKeepPromise`).
* `ConversationProofs`: `Inv` is about the transcript, which only grows: after the task, message 2k
  is the answer of turn k and what follows it are its results (`Alternates`, `Grown`). The
  history is the transcript or its end behind task and summary (`Kept`), cut at a message whose
  parity is that of `keep_recent`, which decides whether a turn is cut in two. A call's number
  tells its turn, or that the mock sees all its answers (`Numbered`). From these
  follow, message by message, that calls and results stand next to each other
  (`PairsSurviveCompaction`). For `CallsAreAnswered` this is carried to the wire: `FormOf` says
  what any adapter makes of one message, `LaidOut` where its entries are in `FlattenSeq`, and the
  results behind an entry are then those of the next message. `FlattenSeq` is a recursive function;
  what is needed of it is proved with `LeastNumber` in place of an induction. `TurnsAreRequests`:
  every step of the conversation is one of `ResilientModel` or leaves it alone. So what
  `ResilientProofs` proves of the chain holds of each turn (`TurnsGetTheLastTry`), again through an
  instance of that module.
* `OrchestratorProofs`: `StageInv` ties the stage of each child to its file and its
  result, through crashes; type correctness and two more theorems follow from it. For
  `DurableCompletion` `Lasting` says that the file of a child that ended ok is whole or being
  written over (`Overwritten`), and that while no call has raised nobody is there to do so: only
  children of the call in hand are at work (`InHand`), and each has its task for itself (`LeftAlone`).
  For `BoundedWorkers` `WorkInv` counts the workers of the call in hand apart from those that raised
  calls left behind: at most `MaxSubagents`, and at most that many for each raised call. For
  `WorkIsDoneOnce` `OnceInv` adds, where loads and saves do not raise, that only children of
  the current call are at work: the one that may complete a task's checkpoint is then the
  only one, and it began because there was none to restore.
* `ResilientProofs`: `ModelInv` tells for each request what is true of the tries before
  the current one (`Past`), of those after it (`Future`), of the current one by the stage
  (`Present`), and of what may run (`Runs`). A step of a request gives its current try up
  (`GivenUp`) and goes on to the one that `Follows`; every other request is untouched.
  `ReplayInv` has `ModelInv` in it, since the steps of `ReplayModel` are the model's or start
  it afresh, and says of the cassette and the file that their entries are answers given to requests
  of their key (`OfItsKey`), that the cassette has the last answer of every key that is not lost, and
  the file that of every key that is not unsaved either (`CassetteInv`). `AnswersReplayed` needs
  besides that whoever was answered has a key with a last answer (`ServedIsKnown`).
* `EvalSuiteProofs`: for `OwnFindings` the invariant follows an answer back to its execution:
  with unique ids a key is one call's alone, so what a key settles on, and what a call is
  answered with, is that call. For `OrphansAreFlagged` it says that a child at
  work has its fan-out in progress or ended in an error (`WorkHasACause`), and that a lead
  whose fan-out did is flagged before it is judged and ever after. `SuiteKeepsPromise`: with either
  kind of ids, the suite's steps leave the keys alone or are steps of `IdempotentKeys`.

Every safety invariant and action property that a passing run checks is proved, for every value
of the constants. Model-checked only is liveness (`EveryCallReturns`, `AgentsEnd`, `SpawnReturns`,
`EndsAreShown`, `ConnectionsEnd`, `RequestsAreAnswered`, `AgentEnds`, `SuiteEnds`): it needs
fairness and `ENABLED`, which are out of the prover's reach. Of `NeverOverLimit` and
`RejectedOnlyAtTheLimit` only the atomic limiter is proved, as the interleaved one breaks the
first; that `OwnFindings` is proved for unique ids only is a finding too. Proved only, and in
no run: `OneExecutionPerKey` (which the refinement in `harness` implies), `AttemptsAreBounded`,
`TurnsStayWhole`, and the types of `Harness`, `Orchestrator`, `ReplayModel`, `EvalSuite` and the
A2A server. The inductive invariants of `Conversation` (with `keep_recent` from 0 to 3) and of `LiveTrace` were
model-checked before they were proved.

## Findings

* **Call ids** (`call_ids`). The mock, the default provider, gives each fan-out and each
  search the same id, and the id is the key of the cache of the one harness that the eval
  suite has: both subagents report the first one's search, and of the later seeds the leads are
  answered with the first seed's fan-out, with no subagent run at all. Gemini's adapter, which
  numbers the calls of a response, makes ids that come back in the same way. With unique ids
  `OwnFindings` is proved, and checked in `evals`.
* **Torn checkpoints** (`torn_checkpoint`). Python's `load` raises on a truncated file
  and `gather` on the exception, at every resume; TypeScript's `load` does not.
* **Rate limiter and threads** (`rate_threads`). The read, filter and write of the hits
  have no lock.
* **Errors of tools that succeeded** (`harness`). A sanitizer that raises makes an `error` of a
  successful execution, where `P/harness/errors.py:27` says that the tool failed; the breaker is
  told of both. `OutcomesAreOfExecutions` holds because it names this case as the only one.
* **Calls without an audit entry** (`harness`). An approval provider or an audit sink that raises
  takes the exception out of `execute`, past the log, where
  `src/docs/src/content/docs/tracing.md:64-65` speaks of every call and `reliability.md:35-36` of a
  harness that never throws. `AuditMissesOnlyFaults` holds because it names these.
* **Replays that differ** (`replay`). Two equal requests in flight at once are answered twice and
  recorded once, and what a save that raised left in memory is served but not kept:
  `src/docs/src/content/docs/extending.md:69-70` speaks of replaying the run that was captured.
  `AnswersReproduce` says which of the answers is replayed, and what may be missing.
* **Negative depths** (`a2a`). A caller may state one, and its chain is longer than the cap by as
  much, where `src/docs/src/content/docs/a2a.md:62-63` says that it cannot get around the cap.
  `ChainsAreBounded` bounds the chain by what was stated.
* **Requests without an answer** (`a2a`). A body that is JSON and no object ends Python's handler
  with no response; TypeScript answers 400. `RequestsAreAnswered` excepts only these.

The last five are findings of passing runs: the behaviour is in the model, and the property says
what is true beside it.

Met on the way and modelled as they are, without a run of their own: a gated call that
passed the breaker starts its tool after the approval though the breaker has opened
since; a call over the tool budget is refused outside the harness and not audited; an error
that a later call recovered from still flags the result.

And around the models of the eval suite and the conversation:

* An odd `keep_recent` cuts a turn in two: the results go out without their call.
  `P/../../tests/test_compaction.py` uses 3.
* The mock counts the assistant messages in the history to know its turn
  (`P/providers/mock.py:6-8` calls this accurate); a compaction sets it back.
* Gemini's finish reason is not read, so a truncated answer of it is not flagged; a result is
  named there by the call's id, where the vendor's field is the function's name. OpenAI's form
  drops `is_error`.
* A fallback provider without its key becomes the mock without a word, and answers after a
  failover. Cost and model are booked on the first model of the chain, whichever answered.
* The judge is said to be triggered by the flags (`src/README.md:84`, `P/agents/review.py:3-4`);
  `run_eval` judges every seed. Only the lead's flags reach a record: what a subagent flagged of
  itself (`src/docs/src/content/docs/profiler.md:77-79` speaks of runs that truncated) is lost.
* One verdict that is not JSON loses the records of all seeds before it.
* A browser that connects after `done` is never told so, and its page stays live.
* All waiters of one failed task report a failure each, so that a single failed execution can
  open the breaker; and `Date.now` can step back, which the TypeScript windows do not expect.

## Abstractions

* A call that awaits a task which has already ended goes on in a step of its own, where
  Python goes on at once; an agent likewise takes up its outcome in a step after the
  harness returned. The models have more interleavings than the code.
* Cancellation is not modelled: nothing in the repository cancels a tool call.
* Clocks do not step back (they do not in Python; `Date.now` can).
* Text, token prices, message classification and error types are left out; tool_use
  answers have at least one call; a call's task ids are distinct; `empty_response`,
  which depends on a text's length, is not among the flags.
* In `Conversation` a model's answer is its tool calls and whether it was cut off; a cut-off
  answer ends the turn even with calls in it, as the stop reason says. System prompts and tool
  definitions are left out.
* In `EvalSuite` a subagent's attempts are its last one (`Orchestrator` has the others), review
  of the subagents' own flags is left out since it reaches nothing, and the dashboards are.
  Checkpoints have no part: every seed has a run id of its own.
* In `Harness` only `decide` of an approval provider may raise; `requires_approval` is a
  predicate of the tool.
* In `AgentLoop` the approval provider, the sanitizer and the sink do not raise and the breaker's
  clock stands still; `Harness` covers these alone.
* In `A2AServer` a depth is an integer, added to exactly, where JSON has fractions too and doubles
  lose the 1 in numbers beyond 2^53 (Python counts a fraction as 0, as both do what is no number). `GET`
  and unknown paths are left out; they touch no state. Time limits of HTTP clients are the
  free `GiveUp`. Agents delegate as `src/docs/src/content/docs/a2a.md` shows; `src` itself
  only offers them the client. Subagents that a task might spawn locally are not chained:
  the server runs tasks in the role of subagent, which may not spawn.
* Backoff delays have no length and a model error is transient or not. A provider's
  answer and the timeout that races it come in either order.
* In `LiveTrace` evals are left out, which are kept and sent as spans are; so are the
  `meta` event, the reload of a page, and a validation or `on_span_end` that raises
  inside `end_span`. The server is started before the run and closed after it.
* Bounded by constants: calls, agents, tasks, turns, time, crashes, spans, requests.

## Plan

1. *Done*: harness, breaker, cache; agent loop; orchestrator and checkpoints; rate limiter.
2. *Done*: `ResilientModel`, and `ReplayModel` over it.
3. *Done*: `LiveTrace`, the tracer with the dashboard's backlog and stream.
4. *Done*: `A2AServer` over `RateLimiter`.
5. *Done*: `Conversation`, the history with compaction, failover and the wire.
6. *Done*: `EvalSuite` over `IdempotentKeys`.
7. *Done*: proofs of the orchestrator's work done once, of `ReplayModel` and of `EvalSuite`.
8. *Done*: proofs of tool budgets and unflagged results, of `Conversation` down to the wire, and of
   `LiveTrace`.
9. Cancellation of tool calls, and the harness under the A2A server's threads.
10. Proofs: what the harness under the threads still keeps.

## Not modelled

The static dashboards, the OTLP export, the price table, the ledger and the parity check format
or add up finished spans. The MCP adapters hand calls on to a library. The artifact store writes
a file under a new name, plans are saved and never loaded by anything in the repository.
Configuration, schemas and entry points are read or run once. The citation agent is `run_agent`
once more, over the findings, when all others are done. None of them has an order of steps that could go wrong.
