# TLA+ models of Flow

Flow is a work-management application (React web client, Go API) with built-in
agents. This project models the parts of it in which several actors share state
and messages can be lost, repeated or late:

* the control plane of *coding sessions* (an agent works on an issue in a
  sandbox and opens a pull request),
* the delivery of *runner events* from that sandbox to the API,
* the queue of *agent runs* with its worker processes,
* the *issue write queue* of the web client with the API's version check,
* the *realtime stream* that the tabs of a person share.

Paths below are relative to the repository root.

## The system

| Part | State | Operations | Hard behaviour |
|---|---|---|---|
| Phase tables (`api/internal/coding/phases.go`) | none | policies, `CanTransition`, `TerminalState` | consulted by tests only |
| State machine (`coding/machine.go`) | session document, sandbox rows it read | `Step`, `Enter`, `finish`, `Fail`, `startFailed`, `requeue`, `AfterProvision`, `AfterPublish` | eleven phases, retries, deadlines, stop wins |
| Session reconciler (`coding/reconcile.go`, `executor.go`) | a lease, the copy of the pass | lease, step, provision, publish, actions, commit | actions run before the CAS; crash between stages; lease outlived |
| Store (`store/coding_sessions.go`) | session, inbox, rows, tokens, commits | CAS, enqueue, stamp, desired state, revoke | delivered stamps and CAS are separate writes |
| Service (`coding/service.go`, `turn_scope_pending.go`) | none | Start, Prompt, Stop, Restart, StartOver, Approve, Archive, FailSession, CreatePullRequest | check on a copy, touch the inbox, update later |
| Webhooks (`coding/webhooks.go`) | none | merged, closed, comments, CI | end or archive a session beside `Enter` |
| Runner API (`coding/runtime.go`, `events.go`) | event claims | Bootstrap, Inbox, Heartbeat, Events, CompleteTurn | overlapping retries, late calls of old sandboxes |
| Runner (`sandbox-runner/src/session.ts`) | turn, queue, cursor, stop | three loops | lost answers, stop in any stage |
| Event buffer (`sandbox-runner/src/event-buffer.ts`) | queue, request, timer | push, evict, flush, retry | overflow beside a request, events pushed as a run ends |
| Sandbox reconciler and provider (`api/internal/sandbox`) | desired and observed phase, tokens | start, stop, observe, bill | sandboxes that die or never start |
| Agent run queue (`store/agent_runs.go`, `cmd/server/agent_runtime_api.go`, `agent_run_tokens.go`) | row with lease, tokens | claim, heartbeat, finish, cancel, release, mark a write | statements that interleave; leases that expire under a worker |
| Agent worker (`agent-worker/src/queue-worker.ts`, `runtime-client.ts`, `worker.ts`) | executions, sessions, stops | execute, heartbeat, watch, complete | own run claimed again, lost answers, process end |
| Issue write queue (`web/src/lib/issue-mutation-queue.ts`) | tails, own versions, conflicts, waiting edit | single, merged and batch writes | merging at the moment of sending; side effects on other issues |
| Issue writes of the API (`store/issue_field_history.go`, `issue_record_mutation.go`) | version, field history | check, store | an older version is good for untouched fields |
| Shared realtime (`web/src/lib/shared-realtime.ts`, `realtime-event-queue.ts`, `hooks/use-workspace-realtime.ts`) | role, cursor, replay, queue | election, stream, rebroadcast, drain | leaders that leave, throttled tabs, two leaders |
| Realtime hub (`api/cmd/server/realtime.go`) | ring, channels | publish, subscribe since | cursor outside the ring, slow channels |
| GC, warm pool, snapshots, metering, triggers, coordination locks | | | see *Not modelled* |

Interactions: a reconcile pass and a service call meet only in the store. A
runner learns of stops through heartbeats, inbox items and refused calls. The
sandbox reconciler sees only the desired state that actions write; the session
sees only the observed state it writes back. An agent worker and the API meet
in the run's row, the tabs of a person in a broadcast channel and in the
browser's storage.

What must hold: a stop request is not lost and ends the session; an ended
session wants no sandbox; turns are delivered in order, one at a time, and
completed once; a session that runs names its sandbox; there is one wanted
sandbox; no phase lasts for ever; the document shown to people is coherent. An
event takes effect once. A run that wrote is not silently repeated, and an end
is an end. A person's edits are stored in order and do not conflict with each
other. No tab misses an event without a reload, and one tab holds the stream.

## Modules

    Phases  <-  SessionMachine  <-  SessionStore  <-  SessionReconciler  \
                     ^                            <-  SessionService      > CodingSessions <- MCCodingSessions
                     |                            <-  RunnerRuntime      /        ^
                     |                                                     SessionInvariant
                     |                                                            ^
                     +-----------------------------------------------  SessionMachineProofs

    SessionMachineProofs  <-  CodingSessionsProofs  \
                          <-  DocumentProofs         >  OverlapProofs
                          <-  SandboxProofs         /

    EventBuffer  <-  RunnerEvents  <-  RunnerEventsProofs          IssueWrites  <-  MCIssueWrites
                          |  INSTANCE                                   ^-------  IssueWritesProofs
                     EventDelivery
                                                                   AgentRuns  <-  AgentRunsProofs
    SharedRealtime

* **Phases** — the tables. Durations are not modelled: a phase has a deadline or
  it has none.
* **SessionMachine** — the pure decisions. A session is a record with the fields
  that control flow reads (the comment at its head gives the correspondence); a
  decision is the session to write with the set of actions to run first. Error
  codes are abstracted to none, the two that `CreatePullRequest` clears, and the
  others.
* **SessionStore** — the variables. `session` is the document, `rows` the
  sandbox rows with their token, `inbox` the inbox, `recorded` whether commits
  are recorded, `runner` the runner processes, `op` the calls in flight. A call
  that reads, works and writes is a process with a program counter `op[p].pc`.
  The version is abstracted to `fresh[p]`: no write since `p` read. A call that
  is a single `UpdateCodingSession`, whose CAS the store retries, is one action.
* **SessionReconciler** — a pass: `Lease`, `StepOnce` with one observed fact,
  `provision` or `publish`, `RunSandboxActions`, `CommitPass`.
* **SessionService** — calls of people, webhooks and metering.
* **RunnerRuntime** — the runner API with its client. Every loop of the runner is
  a set of actions; an answer may be lost and a call repeated. The sandbox
  reconciler appears as `SandboxUp`, `SandboxDown`, `ObserveEnd`; the provider's
  own failures (`SandboxKilled`) are external.
* **CodingSessions** — the composition, `Spec`, and the properties.
* **EventDelivery** — what a producer of events may rely on: an event that was
  accepted takes effect once or is given up, and only one whose application was
  cut off or refused may do so twice or without a reason.
* **EventBuffer** — the runner's outbox. A step is what JavaScript runs between
  two awaits. Sizes are one unit per event; events are numbered in the order of
  their creation.
* **RunnerEvents** — the buffer with the API's `Events` handler: `Receive`,
  `Claim`, `applyEvent`, `CompleteRunnerEvent`, `Update`, `Answer`. A handler goes
  on when its client has given up, so two may serve the same batch. `CutOff` is
  the end of a replica or a lost database, `ActivityRefused` an activity that
  `anchorActivity` only logs. `doubtful` is a record of these for the properties.
* **IssueWrites** — the write queue of one tab with the API. A call is a record
  with a program counter; `lineages`, `conflicts`, `waiting` and `tails` are the
  maps of the source. A body maps a field to the call that set it. `others`,
  `known` and `strayed` are records for the properties: the versions of other
  sessions, those the tab could tell to be its own, and side effects of its own
  writes that it heard of out of order. `MCIssueWrites` holds the families of
  issues and writes of the runs.
* **SharedRealtime** — tabs, channel, hub. Time is abstracted: a timer that is
  set may fire; that one fires although the message it waits for is on its way
  counts as a fault.
* **AgentRuns** — one run. A claim opens an attempt, and `exec[e]` is what a worker
  does for attempt `e`; every SQL statement is a step. `landed` and `slow` are
  records for the properties.
* **SessionInvariant** — the invariants that the proofs about coding sessions share,
  and the form of every step.
* **...Proofs** — theorems.
* Operators whose comment begins *A slip:* are variants of the definition below
  them with a plausible mistake. No specification uses them; they show that each
  property would notice the mistake.

In the coding session modules the constant `Ops` names the calls and faults that
the environment may produce (`"stop"`, `"prompt"`, `"crash"`, `"lost"`, `"retry"`,
`"faults"`, ...), so that a run can combine the ones its question needs. `"retry"`
lets a client overlap its own calls, `"faults"` lets single sandbox actions fail,
`"kill"` lets sandboxes die or never start.

## Runs

Turns, requests and reconcilers are model values, symmetric in the runs without
liveness. `CHECK_DEADLOCK` is off because each of these systems may rest: a
session that ended or waits for a person, an empty queue, a finished run.

| Run | Instance | Shows |
|---|---|---|
| `lifecycle` | 2 sandboxes, 1 turn; stop, kill, crashes in every stage; one start retry | `TypeOK`, `Coherent`, `SandboxNamed`, `EndedUnwanted`, `OneSandbox`, `StopKept` |
| `turns` | 2 requests, 2 turns; prompts, lost answers, failing turns | `CurrentTurnDelivered`, `NoTurnReopened`, `RunnerOnCurrentTurn` |
| `questions` | 3 turns; questions, pending scopes, read-only turns, lost answers | `DeliveredInOrder`, `CompletionOfCurrent` |
| `continued` | 2 turns; restart, start over, fail, approval, selection, snapshot, archive, prompts, publish retries, Create PR, webhooks | `QueuedClean`, `Coherent`, `EndedForGood` |
| `progress` | fair passes only | `NeverStuck`, `StopEnds` |
| `drain` | fair passes, providers and heartbeats; archive, fail, failing actions | `DoneDrains` |
| `runner_events` | 3 events, 2 turns, 2 handlers, room for 2 events, one fault | `Scheduled`, `LossExplained`, `AtMostOnce`, `IgnoredOnlyLate`, `Bounded`, `Drains`, refinement `DeliveryKept` |
| `issue_writes` | a parent and its sub-issue, 3 calls out of single edits, a document edit, a reaction and a batch; another session | `CalledOrder`, `FulfilledSent`, `ConflictsExpire`, `OwnWritesChain`, `AllSettle` |
| `realtime` | 2 tabs, 2 events, one fault, with and without locks | `NoHole`, `Converges`, `OneLeader` |
| `agent_runs` | 2 attempts, 1 worker, 1 reconciler, 1 cancel, one write call at a time | `WriteMarked`, `WritesOnce`, `EndedForGood`, `LetGo` |

Each of the last four also checks its `TypeOK`.

The bounds are small and chosen per question.

* Coding sessions: two sandboxes suffice for an old and a new one; a third
  behaves as the second. Two turns give one that is open and one that waits;
  order needs three. Two requests in flight give every pairwise race. Retries of
  0 or 1 reach both sides of each limit. `MaxInbox` bounds the inbox; a full inbox
  behaves like a failed enqueue, which callers report or log.
* Runner events: three events with room for two force an eviction beside a
  request; each has another class (thought, ephemeral, neither), one belongs to no
  turn and one changes the document. Two handlers are one that the client gave up
  and the one that repeats it.
* Issue writes: three calls give one that is sent, one that waits and one that
  merges or follows; two issues give batches and side effects.
* Realtime: two tabs give every election; `MaxQueue = 1` and two events fill the
  queue. Only tab 1 may lag in applying.
* Agent runs: two attempts of one worker are the hard case, because the API tells
  callers apart by worker id only. Two workers are a weaker case of it for the
  maps of the worker, and the proofs cover any number.

`RunnerOnCurrentTurn` is checked without questions to the user and without failing
sandbox actions; with them the code departs from it (below). `QueuedClean` is
checked with one request at a time: an answer to the repository selection re-checks
only the phase. `EndedUnwanted` is checked without `FailSession`: it reads the rows
once, and a pass may create one more before the end is written. `DoneDrains` is what
remains true then: the runner of such a sandbox hears that its session ended.
`OneLeader` and `NoHole` are checked with tabs that do not close in the middle of an
election (`Abrupt`). `OwnWritesChain` excludes side effects that a tab hears of out
of order: before the answer to a write of the same issue, or after a later version.
`WritesOnce` excludes leases that expire under an execution that goes on.

### Where code and documentation differ

Each of these runs checks what a comment says and ends in a counterexample;
`PROJECT.json` quotes the lines.

| Run | What happens |
|---|---|
| `doc_lost_update` | the answer to an edit spans a version of another session; the queue takes it for its own, and a queued edit overwrites the other session's change |
| `doc_leaderless` | without Web Locks, a tab that closes within its claim leaves the others without a stream for good |

Other differences met while modelling. The model has the behaviour of the code;
no run is kept for them.

Coding sessions:

* The retry of a timed-out start reuses the sandbox that the same pass then stops
  (`coding/executor.go:164`; `machine.go:415`: "retries a failed sandbox start with a
  new sandbox id").
* With a question open, the follow-up is delivered as a second turn and its
  completion refused (`coding/runtime.go:299`; line 256: "While a turn is open, the
  next turn is held back").
* A turn held back at bootstrap because its scope is pending is not accepted in
  `setup` (`runtime.go:299`; `turn_scope_pending.go:23`: "a turn is never stuck").
* A completion after the end is refused with the revoked token, so its commits are
  not recorded (`runtime.go:383`: "keep its commits").
* An ended session can be revived by an inbox call that overlaps another:
  the update checks only the sandbox and the stop request (`runtime.go:338`), and a
  completion that conflicted checks only the turn (`runtime.go:412`);
  `docs/coding-sessions-design.md:168`. The runs have no such overlap: with two
  requests in flight `EndedForGood` and `Coherent` do not hold for every `Ops`.
  With one they do (`EndsForGood`, `AlwaysCoherent`).
* A turn that ends before the first heartbeat leaves `setup` for `idle`, which
  `CanTransition` lacks; only tests call it, while
  `docs/coding-sessions-design.md:171` says it "enforces this".
* A stop enqueued while no sandbox was named passes the filter of
  `coding/runtime.go:313` and reaches the runner of a later sandbox.
* Overlapping bootstraps of one sandbox may return different turns
  (`coding/runtime.go:64`: "repeated calls return the same turn").
* A bootstrap that is repeated after the session left `starting` without a turn hands
  out the oldest undelivered turn and does not make it current (`coding/runtime.go:102`;
  line 131: "which becomes current"); its completion is refused.
* A follow-up that reads the recorded commits before a racing completion clears
  `ExistingBranch` although the branch was published (`coding/service.go:823`).
* `Archive` and the pull request webhooks assign `done` without `Enter` and keep
  the deadline of `idle` (`coding/machine.go:134`: "Every phase change goes
  through it").

Runner events: a retry is idempotent (`event-buffer.ts:11`) except that an event
whose handler was cut off is lost, or applied again once its claim is stale, and
that an activity the anchor refuses is lost although its event is marked done
(`coding/service.go:642`).

Agent runs:

* A lease that expires under a living execution lets a second attempt write too:
  the token stays good while anybody holds the run, and its revocation is a
  statement of its own (`docs/agent-runtime-design.md:365`).
* A cancel is lost when a release was decided before it, or when the run is claimed
  between its two statements (`store/agent_runs.go:588`).
* A stop before the turn has its `AbortController` does nothing
  (`agent-worker/src/worker.ts:276`), and the watcher tells of it once; the next
  heartbeat repeats it.
* One failed heartbeat stops the session, which is then reported canceled.
* A token that cannot be had ends the process with all its runs
  (`queue-worker.ts:55`).
* A completion whose answer is lost is repeated as `failed`, and refused.

Issue writes: answers that arrive out of order shorten the run of own versions, so
that a side effect of one's own can answer 409; a lost answer leaves one's own
version unknown; an edit may share a conflict although its base is newer; a batch
that raises an issue twice is recorded as one version.

Realtime: a tab that has no cursor yet can miss events without a resync
(`shared-realtime.ts:17-20`); a leader that closes in a contested election can leave
a hole; the stored cursor may be newer than the first load of a fresh tab; a leader
by lock that steps down for one by heartbeat keeps its lock.

## Fairness

* **Coding sessions.** `PassFairness` is what the API guarantees while a replica
  runs: leases are taken again and again (the reconcile interval), a call that
  began goes on (weak fairness of its stages), and a phase that does not end is
  seen past its deadline at last (strong fairness of a pass that observes "late":
  the pass recurs, time only advances, and deadlines are fixed when the phase is
  entered). The liveness runs have no crashes: a replica that dies for ever does
  nothing. `RunnerFairness` adds that providers start and observe sandboxes, that
  a living runner sends heartbeats and hears the answer, and that a runner asked
  to stop leaves its turn (its harness is killed after the stop grace).
  `NeverStuck` and `StopEnds` need only the first.
* **Runner events.** The event loop runs timers and continuations that are due;
  a replica serves what it received. Requests fail only `MaxFaults` times, which
  stands for a network that works at last. Nothing makes the session go on.
* **Issue writes.** Requests end, with an answer or an error, and promise
  reactions run. The user need not ask for anything.
* **Realtime.** Timers fire, a free lock is granted, an open stream delivers, a tab
  handles its messages and works off its queue, a leader beats. Tabs need not
  start, leave or fail.
* **Agent runs.** An execution goes on until its turn runs, a turn that was
  stopped ends, results are reported, heartbeats are sent; a lease nobody renews
  runs out and a reconciler looks. A turn may last for ever, and no worker need
  claim. The heartbeat reaches the API or fails, and either stops a cancelled turn.

## Proofs

Every theorem holds for all values of the constants: any number of sandboxes,
turns, reconcilers, requests, events, handlers, calls, issues, workers and
attempts, and any bound on faults. The assumptions on constants are the named
`ASSUME`s: model values are no ids, bounds are natural numbers, ids that are
compared are natural numbers, requests are not reconcilers.

Some theorems have a hypothesis on which calls overlap; it is stated with them.

**Coding sessions** (`SessionMachineProofs`, `CodingSessionsProofs`), for every `Ops`, thus with crashes, lost answers, overlapping
retries and failing actions together.

* `TypeCorrect`, `SandboxAlwaysNamed`, `CurrentTurnAlwaysDelivered`. The content of
  the first is `starts <= StartRetries`.
* `StepFollows`: whatever a pass observes, `Step` keeps a stop request, completes
  no turn and opens none, and is in `starting`, `setup` or `running` only with
  the sandbox the session had. Of the decisions around it, only a provision
  outcome may place a session elsewhere (`AfterProvisionKeeps`).
* `StopAlwaysKept`, `OnlyCurrentCompletes`.

The properties are not inductive. A write puts back a copy that was read earlier,
so what holds of the document must hold of the copy of every call in flight. And
a copy may be old, so what it names must not vanish. `IInv` therefore says of the
document and of all copies alike: a placed session names a row that exists, and
its turn is delivered. It survives staleness because rows, turns and stamps only
accumulate (`Grows`), which is one lemma for sessions and one for calls. A call
that picked a turn must still find it in the inbox when it stamps it, and holds
a stamped one afterwards. There is one lemma for each action; most of them show
that the action's new session, call or runner is good and cite the frame lemmas
for the rest.

The last two theorems are about what an old copy may *not* do. `FreshTracks` says
that a call whose copy is fresh agrees with the document on the stop request and
the last turn, whatever it decided on the copy since. Every write makes the other
copies stale, and only a fresh copy is written.

**Overlapping calls** (`DocumentProofs`, `SandboxProofs`, `OverlapProofs`). `Form` describes what any
step does to the document, the calls in flight and their versions: a call reads, or
decides on its copy, or goes to its next stage, or ends, or writes its copy if it is
fresh; `RowsCool` and `CursorsKept` say the same of sandbox rows and runners.
`DocumentProofs` shows that every action is such a step (`NextForm`) and, with
`SandboxProofs`, that such steps keep the invariants below; `OverlapProofs` draws the
conclusions.

* `AlwaysDeliveredInOrder`, for every `Ops`. `InOrder`: the turn that a call has
  picked but not stamped, the turns of an answer and the turns up to a runner's
  cursor all come before every turn that is not delivered.
* `AlwaysCoherent`, `NeverTurnReopened`, `EndsForGood`, for any number of passes when
  requests come one at a time (`OneRequest`). `DocsOK`: the document and all copies
  are documents that may be stored (`Doc`), a fresh copy differs from the document
  only by what its call decided, and a call on its way knows the turn it is about.
  With two requests the theorems do not hold. An inbox call with a copy in
  `awaitingUser` can deliver a turn into a session that meanwhile is publishing. The
  session is idle with a turn, is archived or merged, and a completion of that turn
  which conflicted with the end looks again and acts on the ended document.
* `NeverTwoSandboxes`, for any number of requests when passes come one at a time
  (`OneLoop`). `SandboxesSeen`: a pass about to provision has read every sandbox that
  is wanted and alive, those of a pass that crashed included. Two passes that overlap
  (one outlived its lease) may each create one.
* `EndsWithoutSandboxes` (`EndedUnwanted`), with `EndsByPass`: one pass at a time, and
  no call that ends a session beside it (`fail`, `startOver`, `archive`, `webhook`, a
  turn that ends with an error) and no failing action. `EndsOK`: a call that will
  write the end has a stop for every row that is wanted and a revocation for every
  valid token, or has carried them out; no other call holds a fresh copy with which
  it could still create a sandbox; and an ended session has neither. The other calls
  read the rows on their own, and a pass with an older copy may create a sandbox
  after that, before it loses its CAS; a stop that fails is only logged. An ended
  session is not leased again (`reconcile.go:137`), so no pass comes back to it.
* `QueuedStaysClean` (`QueuedClean`), for any number of passes when requests come one
  at a time (`OneRequest`), whatever else fails. A session is queued again without its
  sandbox while an inbox call of that sandbox may still be on its way, and that call
  checks the sandbox only. It could deliver its turn to a session that is queued, if
  the session took the same sandbox over again. `CleanOK` says why it does not: the
  session is still with a sandbox for which a turn may be handed over (`Accepted`), or
  nobody can use that sandbox again. A pass lets the sandbox of a later phase go only
  when its row says that it is not wanted or not alive, also when it then fails to
  stop it, and such a row stays so (`Settled`). The rest is about copies, as before:
  the sandbox and the turn of a copy fit its phase (`CleanDoc`), and what a fresh
  copy lacks of the document is known (`PassClean`). With two requests the theorem
  does not hold: the second of two answers to the repository selection finds the
  session in another `awaitingUser`, with a sandbox, and queues it as it is.

**Runner events** (`RunnerEventsProofs`): `RunnerTypeCorrect`, `NeverLeftBehind`,
`NoSilentLoss`, `EffectAtMostOnce`, `QueueBounded`, `IgnoredOnlyAfterTimeout`, and
`ImplementsDelivery`, the refinement. The
invariant ties together where an event is: its claim, its handler and its effect
(`EventsOK`: unless in doubt, an event that took effect is claimed, no two handlers
hold it, and one that is claimed is held or had its effect), what an answer of the
API says about the batch (`ServerOK`), and that a run or a timer waits for the queue
(`TimerOK`). In the refinement an event is `waiting` while it is in the queue or
before a handler and had no effect; applying is `Apply`, and leaving the queue
without effect is `GiveUp`.

**Issue writes** (`IssueWritesProofs`): `WritesTypeCorrect`, `WritesInOrder`,
`FulfilledWasSent`, `ConflictsAlwaysExpire`, `OwnWritesNeverConflict`. The invariant describes the queue as a
graph: every call that is not first for an issue waits for an earlier call of that
issue (`OrderOK`), the tail is the last of them (`TailsOK`), a waiting edit is not
sent and nothing is behind it (`WaitingOK`), merged edits point to the call that
carries them (`MergedOK`) and are in its body (`BodyOK`).

The last theorem (`OwnWritesChain`) needs a second invariant, `ChainOK`, about a `Run`
of an issue: the versions after `b` up to the last known one are known, and none
after that is lost to the tab. If an edit based on `b` can still be sent, the
remembered lineage covers the run and ends with it (`Chained`); an edit on its way
was sent with the end of the run from its base, and with no version inside another
(`SentOK`). A lineage is extended by the answer to a write; because requests of one
issue do not overlap (`OrderOK`), a served request is not overtaken by anything
known (`ServedOK`), and a refused one leaves no run that an edit could start from.

**Agent runs** (`AgentRunsProofs`): `RunTypeCorrect`, `WritesAlwaysMarked`,
`NoSilentRepeat`, `RunEndedForGood`. While no lease expired under a working
execution (`Calm`), at most the last attempt works, and a reconciler that decided to
queue the run again has read that it did not write.

Only model-checked:

* all liveness, which is out of the prover's reach;
* `RunnerOnCurrentTurn` of sessions: it holds for the calls of its run and not for
  every `Ops`. With lost answers and crashes together, of the API or of a sandbox
  that starts, a session may start without a turn (its only one was stamped by a
  bootstrap that came to nothing) and the answer be lost; the repeated bootstrap
  then hands out a turn that does not become current. When stopping the sandbox of
  an ended session fails, the session that is queued for a new turn takes that
  sandbox over with its runner, which still has its old turn;
* `NoHole` and `TypeOK` of `SharedRealtime`. `NoHole` is about two tabs, as in the run,
  and a replay window no smaller than the events. A tab that steps down having missed
  more events than the window gets only the last of them, and with three tabs one that
  has heard no event yet resumes from the cursor that another has stored.

## Not modelled

* GC and warm pool, the stages of a sandbox start, billing, snapshots, triggers
  and approval deadlines, spend, coordination locks. These have state of their
  own, mostly over several sessions; one session is modelled.
* Concurrency limits across sessions and across runs, lanes, retry delays, the
  expiry of tokens; the second write of an issue by triage intelligence; delivery
  between API replicas; events of the own client; the drop of a batch that the
  API refuses as malformed.
* The turn of an agent run: model, tools, guard and transcript are an outcome; a
  turn that is started again after a transient error keeps its place.
* The cursor is taken to be stored once the messages posted with it were handled
  (the code waits 300 ms).
* Providers, Git, the harness, the LLM proxy, credentials, signing, artifacts:
  I/O or data that no transition reads.
* The rest of the work-management API (projects, cycles, documents, chat,
  administration): each request is one transaction over a database.
* The user interface and the SDK. They make up nearly all of the repository's
  TypeScript; components that render state, forms, tables, styles and generated
  types have no transitions to check. The mapped code is therefore a small share
  of the repository's lines, although it holds most of its concurrency.
