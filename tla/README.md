# Babo: models, model checks and proofs

Babo is a server for long-lived AI agents. A Python process keeps every agent
alive on one asyncio event loop: a *consciousness scheduler* decides which
agents have a running inner loop, a *sleep scheduler* consolidates what they
learned, chat sockets and channel workers run turns with them, and REST routes
pause, load and evict them. A NestJS backend relays channel messages to the
server and meters inference; a desktop application supervises the server.

This directory holds TLA+ models of that program, the TLC configurations that
check them and the proofs that TLAPS checks. Every definition is translated from
the code; `PROJECT.json` maps each to its file and lines.

## 1. Inventory

| component | state it keeps | operations | interacts with | what is hard | what makes it correct |
|---|---|---|---|---|---|
| Consciousness scheduler `server/services/consciousness_scheduler.py` | one entry per agent (state, loop, pause and warning flags), the wake requests | tick: wake requests, preemption, free slots, stopped loops; messages begin and end; pause, unpause; register, unregister | starts and stops inner loops; enqueues and withdraws sleep jobs; called by sockets, channels, routes, agent manager, sleep worker | every method is a handler on the shared event loop: what it read before a broadcast may be stale after it | state and loop agree; a paused loop is resumed; a wake request is served; nobody sleeps for ever; capacity |
| Sleep scheduler `sleep_scheduler.py`, `consolidation_sleep.py` | FIFO queue, current job, registered runtimes; the agents' autonomic state | enqueue, dequeue, worker, cycles | calls `on_sleep_complete`; posts to the cloud | withdrawal races the worker; a cycle that raises; eviction during a job | one job per agent, no starvation, no agent left asleep |
| Inner loop `nls/engine/inner_loop.py` | running, paused, stop reason; queued dispatches; a pending negotiation | beat, breath, interrupt, resume, stop, confirm and deny sleep | consciousness scheduler, ANS, event queue, connections | a breath spans many awaits while messages interrupt it | stop reasons reach the scheduler; an answer races its timeout |
| Execution slots, event queue `nls/engine/execution_slots.py`, `events.py`, `thalamic_router.py`; surface inbox `nls/runtime/surface_inbox.py` | deep slot and one per parallel session, priority queue with the ids processed, legacy list of wakes, background queue, stashed channel events, inbox rows on disk | push, drain, route, defer, re-inject, stash, replay | inner loop, turns, channels | six containers pass an event on; a drain spans whole turns; stop and restart in the middle | an event is in one place; a message gets one turn; whatever is queued is taken |
| Chat and channel turns `server/routes/chat/ws_handler.py`, `nls/skills/channel_processing.py` | one turn per socket or worker | receive, wait until ready, run, complete, break off | schedulers, runtime | the agent sleeps, is preempted or evicted during the turn | every begun message is completed, or the next one finds the loop it left |
| Agent manager and routes `agent_manager.py`, `routes/agents.py`, `routes/admin.py` | loaded runtimes, `agent_meta.json` | load, evict, pause, unpause, force sleep, auto-load | both schedulers | awaits between steps of one route | loaded agents are registered with both schedulers |
| Drowsy negotiation `routes/chat/sleep_negotiation.py` and the inner loop | the pending reason and its time | ask, yes, no, timeout | ANS, sockets | a late answer | an agent told "no" does not sleep for that request |
| Delegates `nls/agentic/delegate_manager.py`, parts of `executor.py`, `delegate_batch_hooks.py` | a table of delegates by number, batches with a count of completions and their results, a task per run, check-back jobs, `delegates.json` | spawn, cancel, rewake, run, count, save, load | teams, event queue, job scheduler | completions are only counted while cancels and rewakes come at any moment; a task cancelled before its first step; restarts | a batch is announced once, when all its delegates are over, with the results of all; no slot and no run is leaked; check-backs end |
| Teams and waves `team_manager.py`, `wave_coordination.py`, `orchestration_policy.py`, the team tool, `routes/teams.py` | teams with members, status and a reported flag, in memory and on disk; the steps of the plan | create, launch, advance, complete, close, reconcile, pause, resume, disband, skip, terminate, rewake, accept partial | delegates, plan store | on_delegate_complete awaits twice while other completions, routes and tools close the team; a closing copies member statuses over step statuses | dependencies are kept, a completed wave leaves its steps done, no run works for a closed team, a reported wave is final, teams land |
| Questions of delegates `loop.py` (waits), `executor.py` (help), `team_manager.py` (escalations, reviews), `team_hint_policy.py`, the team tool | one `hint_queue` per delegate, pending reviews, escalation counters, the gate of hints | ask, auto-extend, remind, answer, hint, time out | delegates, teams, the orchestrator's turn | questions and answers have no name; answers come late, twice, unasked or never; delegate and orchestrator wait for each other | an answer answers its question; a completion is accepted only if it was reviewed or nobody answered; nobody waits for ever |
| Plans, goals, squads, job trust `nls/agentic/plan_store.py`, `goals.py`, `squad_*.py`, `nls/runtime/job_trust.py` | step status, squad phases | advance, check back | teams, inner loop | long protocols over several turns | status only moves forward |
| Channel relay `backend/src/channels`, `backend/src/main.ts`, `nls/runtime/channels.py`, the email adapter | the registered socket of each agent, a table of pending messages, the connections and drains in progress | webhook, push, queue, connect, drain, poll, deliver to the local webhook, replace, drop | server, third-party channels | sockets that replace each other, pushes to dying sockets, two drains and a poll of the same rows, retries after a late answer | no message vanishes or is repeated but in the ways named; the newest connection or none is registered; what arrives is drained and handled |
| Cloud billing `backend/src/babo-cloud` | credits, subscriptions | webhook, reserve, charge | relay of inference | webhooks twice or out of order | no charge without budget |
| Ledger, domain database `nls/ledger` | Merkle tree, chain | append, prove, verify | sleep | pure algorithms | a proof verifies exactly for its leaf |
| Registries `connection_manager.py`, `generation_abort.py`, `channel_send_dedup.py` | sets of sockets, abort flags, sent keys | add, drop, check | turns | concurrent use across awaits | no duplicate sends |
| What an iteration of the agentic loop does, tools, skills, brain, model servers, terminals, front ends, accounts | | | | driven by models, I/O or floating-point dynamics | not protocols |

`PROJECT.json` lists all of them with their status, and under "hazards" the
places where this code can go wrong in ways a test would hardly reach.

## 2. Modules

| module | models |
|---|---|
| `SleepQueue` | what the sleep scheduler promises: at most one job per agent, one in training, only waiting jobs are withdrawn, no job starves |
| `SleepScheduler` | the queue, the worker and the consolidation cycle |
| `ConsciousnessScheduler` | EXTENDS `SleepScheduler`: entries, tick loop, inner loops, turns, sleep sources, pause, load, eviction, restart |
| `MCConsciousnessScheduler` | the symmetry set of the small instances |
| `EventDispatch` | how the events of one agent reach a turn: queue, drain, routing, deferral, deep slot, legacy wakes, channel stash and inbox |
| `BatchPromise` | what the delegate manager promises for a batch: open until nobody is owed, then announced; a rewake opens it again |
| `DelegateBatches` | batches, runs, cancellations, rewakes, counting, persistence and check-back jobs; implements `BatchPromise` |
| `TeamWaves`, `MCTeamWaves` | the teams of one plan and its steps, with everything the orchestrator, the user and the routes may do to them; the second gives the plan of the small instances |
| `DelegateReviews` | the questions of delegates to their orchestrator, its answers and hints, the pending reviews and the gate of hints |
| `ChannelRelay` | the way of a channel message from its webhook to the desktop |
| `SleepScheduler_proofs`, `ConsciousnessScheduler_proofs`, `EventDispatch_proofs`, `DelegateBatches_proofs`, `TeamWaves_proofs`, `DelegateReviews_proofs`, `ChannelRelay_proofs` | theorems about the seven |
| `Ranks_proofs` | lemmas on the places of the members of a finite ordered set, for the drains of `EventDispatch` and `ChannelRelay` |

`DelegateBatches`, `TeamWaves` and `DelegateReviews` are three views of the same
delegates, each with the others' part left open: in `DelegateBatches` who spawns,
cancels and rewakes is free; in `TeamWaves` a run starts and ends and its completion
is told in the three steps that `on_delegate_complete` has between its awaits; in
`DelegateReviews` a run asks and waits, and its end is one step.

### How the models correspond to the code

*Granularity.* All modelled code runs on one event loop, so an action is the
code between two awaits that may suspend. `await enqueue(...)` and
`await on_user_message(...)` run to their first real suspension in the caller's
step; a broadcast, an HTTP post, a model call and a sleep suspend.

*Sleep scheduler.* `queue` is `_queue`, `current` is `_current_job`, `pending` the
coroutines that `enqueue_sync` scheduled and that have not run. `_worker` is
`TakeJob`, `BeginSleep`, `WakeAns`, `NextCycle`,
`SleepDone`, `FinishSync`, with `SkipCycle` when the agent has no runtime and
`ConsolidationRaises` when a call outside every `try` raises.
- `TakeJob` is `asyncio.wait_for(queue.get())` of Python 3.12, which CI and the
  desktop build run: `get()` is awaited in the worker's own task. Python 3.10 and
  3.11, which pyproject.toml also admits, wrap it in a task, and for one loop pass a
  job is neither queued nor current; that is not modelled, and `NoDuplicateJobs`
  is not claimed there.
- `pending` is a set although one agent may have several coroutines scheduled:
  they run back to back and all but the first find its job.
- The reason of a request and the signals in the buffer decide the number of
  cycles; any number from one to `MaxCycles` is possible, and an agent whose
  `max_cycles` is 0 is taken as one that runs none of the properties below
  differently (it reaches `SleepDone` as through `SkipCycle`).
- `register_runtime` is the load of a fresh runtime, whose ANS is awake.
  `get_sleep_event` and its events have no caller and are left out.

*Consciousness scheduler.* `state` and `loop` are the entry's fields; `loop` also says
how a loop that ended was stopped, which is what the tick looks at. `orphaned`
has the agents with a loop task that runs although its entry does not refer to
it; several such tasks of one agent are not counted. `wakeReqs` is
`_wake_requests`, which the tick drains. `sched` is where `_run` is: draining
(`wake`), between the freeze of a victim and the wake of its target (`preempt`),
filling free slots (`assign`). The one-second sleep between ticks is not a
state: every action may happen at the start of a tick.
- `_priority` combines hormones, drives and waiting time; which agent is woken or
  preempted is any candidate.
- `_make_conscious` without a runtime warns once and wakes nobody.
- `LoopSleeps` and `LoopEnds` are the ways a loop stops by itself; that it
  negotiates before, and what it does in a breath, is not modelled. A loop may
  stop although it is paused, since a breath in progress is not interrupted.
- A turn (`turn`) is idle, `waking` (between `_make_conscious` and the interrupt
  of `on_user_message`), `waiting` (polling until the agent is ready, at most 150
  times), or `running`. Channel turns do not wait. What a turn does is not modelled,
  but for how it ends: it completes its message, or it breaks off (`TurnBreaksOff`),
  because the stream raises while the socket stays open (ws_handler.py:1007, :2144) or
  the socket closes (:2242), and nobody calls `on_user_message_complete`. A loop whose
  last turn broke off is `left`: paused, until another message for its agent ends.
- Pause, eviction and load have their suspension points: `pausing`, `evicting`.
  `savedPaused` is the flag in `agent_meta.json`. `Restart` is a crash or a stop at
  any moment, followed by `auto_load_all`.
- `Ops` chooses which operations of the environment a run allows. An operation
  that is not in `Ops` does not happen; nothing else depends on it.

*Event dispatch.* `EventDispatch` stands beside the schedulers: of the life of the
inner loop it knows only that it starts, is paused by a Home message, resumed at
the end of a Home or direct turn, or left paused by a Home turn that breaks off
(`HomeBreaksOff`; the loop is then `left`), and stopped. Three tasks run turns: `loop`, the
inner loop; `home`, the turn of a chat socket; `direct`, a channel turn that finds
no loop. `at` and `cur` say where each is and for which event.
- `queue` is `AgentEventQueue`, a set ordered by `Before`, which holds `QueueLimit`
  events (256 in the code, events.py:205) and drops what is pushed beyond them (`Push`);
  `processed` the ids of
  `_processed_event_ids`; `pending` is `_pending_dispatches`, whose entries are
  mirrored into `queue`: each wake is in both. `batch`, `deferred` and `deepBusy` are
  the locals of `_dispatch_from_event_queue`, which live while it awaits a turn.
  `background` is `BackgroundQueue`, `stash` the agent's
  `_pending_channel_events`, `inbox` its unhandled inbox rows, the only part on disk.
- `line` has the tasks waiting for the lock of the deep slot, which is fair:
  `HandOver` gives it to the first. A channel turn the loop starts while the slot is
  held runs in a slot of its session (`route = "own"`). `fg` is the foreground source
  that every turn overwrites and only the last to end clears; `UserBusy` reads it.
- `Breath` is one breath up to its first turn or reply. `MicroReplied` and
  `QueueTurnCloses` go on with the drain where it was left, and a `FOCUS` or `DEEP`
  turn ends it. `Legacy` is the older path behind it, one pending wake per breath.
- Kinds: `message` and `query` are channel messages (a query is answered by micro
  inference when the agent is busy), `batch`, `timer` and `checkback` are wakes, `ws` is the
  event that a Home turn pushes for itself and removes by its id.
- All channel messages share one session. Whether an orchestration is active,
  and whether a reply could be delivered, are free choices.
- Left out: wakes with a staleness test and their exemption from the user-busy
  guard (completion review, escalation); the dispatches of drives, DMN and proactive
  thoughts; suppression by `job_background`; the age and number limits of the inbox and
  steering of a running turn; replies that fail inside a turn of the loop or of a channel
  (such a turn is one that ends: the loop catches what it raises, and a channel turn
  completes its message in a `finally`); two events of one clock tick.

*Delegates.* A delegate is a batch and a number, for a number may be given again
(plain delegates are numbered by their turn): `table` is what `_delegates` knows. A
run is an asyncio task: created, working, closing (returned or cancelled, not yet
counted), over. `cancelling` has the runs with a `CancelledError` to come; one that was
`created` never enters `_run_one` (`NeverStarts`), and one that works may swallow it
(loop.py:3302 awaits a helper task it has cancelled itself). `Count` is the end of
`_run_one`: the counter, the callback, the announcement of the batch. `Restart` loads
the last `Save`; the delegates that ran are interrupted. `results` has the list of a batch
as the number of results of each delegate, since only who is in it matters. `void` has the batches that
lost their promise: those a restart found open, those that spawned nobody, those a
rewake reached before the run before was counted, and those with a task that never started.
In those the counter and the announcement of the code are wrong or never come, which is
what these hazards are; of the slots and of the runs a void batch is asked what every other
is, but that the run of a rewake may have been marked as ended by the one before
(`LiveRunsAreSeen`).

*Teams.* A member is its step; all steps are delegatable and the dependencies have no
cycle. `team` and `disk` are the teams in memory and in `team_*.json`; which operations
save is kept, since several do not. A completion goes through `Tell` (status and sync,
until the first broadcast), `SpawnNext` (the next pending member, until its await) and
`Finish`. Closing a wave writes the statuses of its members onto the steps, over what
they were (`Synced`). `late` has the delegates that were spawned for a pending member
after the launch: they are not in the batch that reconciliation looks in. `astray` has
those whose run began when their team was over already. The numbers of delegates begin at
0 (delegate_manager.py:125) and reconciliation passes over that number
(team_manager.py:1523): `zero` has the delegates that got it, and `numbered` says that
the next number is another. `skipped` has the waves that were skipped, `reopened` the
steps that were done and are opened again.
`advancing` is the suspension of `advance_team` before it creates the next wave, which it
does if the outcome it took before the suspension was "completed".
Not modelled: file ownership, kanban, wake messages and their deduplication, and, after
`delegates.json` was lost, numbers that are given again to other delegates.

*Questions of delegates.* `phase` is where the run of a delegate is: working; telling
(`on_member_escalation` is at its broadcast); waiting on `hint_queue`; closing; over.
The queue is read nowhere else: detached delegates get no steering hook
(executor.py:2173), so that what is sent to a working delegate waits for its next
question. `Expire` is the end of the three waits: a review is accepted after ten
minutes, a limit ends the run, a request for help is given up after two minutes. `told`
are the questions that the orchestrator knows of and has not answered; it answers what
it was told of in any order, late or never, and may approve any of them, since the tool
takes an approval for every running member. An answer carries the question that it is
for, which the code does not have: `left` are the questions a run went on from without
their answer, `taken` is the question whose approval ended the run, and a verdict is
`mistaken` when a hint for another question sent a completion back. `unprompted` counts what it sends without
being asked, also `grant_paths`, which sends a hint to whoever it names. `guided`,
`episode` and `unseen` are the gate of `team_hint_policy`: the last hint, the escalation
episode, and the counters that the progress monitor copies every ten seconds. The
guards on inspection, on the 75 seconds after a hint and on repeated texts are left
out: the orchestrator can inspect, wait and rephrase. Also left out: questions of
members whose team has closed (they are not passed on and time out), and the wakes that
tell the orchestrator.

*Channel relay.* `registered` is the agent's entry of `relaySockets`; `server` and
`linked` are the two ends of each connection, `held` the connections a client is on,
`wire` what is on its way. A webhook tries
the push, then writes the row with the status the push left (`Webhook`, `Insert`): a
drain may read the table in between. A row that cannot be written is an answered webhook
of the generic route; the email route, and a lookup of the agent that fails outside the
`try` (channels.controller.ts:116), fail as a whole, and the provider calls again
(`RouteFails`). A drain reads pending rows, sends them and marks
them, in three steps; the poll of the email adapter reads and marks in two and passes
over what is not an email. `Deliver` is the local webhook; it may answer after the
client's timeout and is then called again. `lost` and `repeated` are set by the steps
that lose or copy a message: a send on a dead socket, a row that cannot be written, a
poll whose answer is lost or that takes a foreign message, six failed deliveries; two
readers of the same rows, a webhook that the provider repeats.
Not modelled: chat requests, HTTP calls and broadcasts over the same socket, the
Discord gateway, aliases, and sending; and `GET pending/:agentId`
(channels.controller.ts:255), a third reader that drains the rows of an agent and marks
them delivered for its caller, whoever that is: nothing in the repository calls it.

## 3. Runs

| run | instance | shows |
|---|---|---|
| `sleep_queue` | 3 agents, 2 cycles, consolidation may raise, posts to the cloud | one job per agent, refinement of `SleepQueue` with its liveness |
| `turns` | 2 agents, 1 slot, 2 clients; chat, turns that break off, `/sleep`, admin (754,000 states) | only a turn that breaks off leaves a loop paused; second loops and overcommitted slots arise only in the ways named |
| `lifecycle` | 1 agent, 1 client; everything but the admin route | types; state and loop agree; no agent is left asleep |
| `liveness` | 2 agents, 1 slot, 1 client, 2 wake requests; chat and channel messages; consolidation may raise, posts to the cloud; fairness | sleepers are forgotten only in the three ways named, all others wake; wake requests are served |
| `dispatch` | 3 events, a queue of 2, drain 2, replay 1, 2 defers; Home turns that break off, crashes; fairness (81,260 states) | an event is in one place; one turn per message; messages vanish only behind a turn or before a full queue; queued events are taken, but behind a loop that is left paused |
| `batches` | 2 numbers, 2 batches, 2 runs per delegate, 3 in all, 1 save; fairness (320,310 states) | batches are counted right, announced in full and keep `BatchPromise`; table and tasks agree; check-backs end |
| `teams` | a plan of 3 steps in 2 waves, 2 teams, 1 slot; no interventions; fairness (41,783 states) | steps start after what they need; teams land |
| `meddled_teams` | the same plan, 1 team launched up to twice, runs that fail, 2 interventions or restarts (1,419,090 states) | no run works for a closed team; completed waves leave their steps done; a reported wave is final; types |
| `reviews` | 1 delegate, 2 questions, 1 unasked answer, 1 rewake; fairness (145,930 states) | answers meet their questions or ones that were left; completions are reviewed; pending reviews are of those who wait; nobody waits for ever |
| `relay` | 2 messages, one of them an email, 2 clients, 2 connections, 1 fault; fairness (155,963 states) | no message vanishes or is repeated but as named; the registered socket is the newest; drains and deliveries finish |
| `rejections` | 1 delegate, 3 questions, nothing unasked, no rewake | a completion that cannot be sent back |
| `replaced` | as `relay`, without faults | a live connection that is not registered |

*Bounds.* `MaxWakeRequests` bounds how many wake requests are queued at once: a
message for a frozen agent waits in its socket when it is reached. Two are enough
for a request to be overtaken, duplicated, or served while its agent is being
preempted. `MaxCycles` = 2 distinguishes a first cycle, a later one and the last.
Three agents in `sleep_queue` give a job in training, one at the head and one
behind it. With one slot and two agents every wake is a preemption; with two
clients turns of one agent overlap. `lifecycle` needs one agent because what it
checks relates the entry, the worker and the routes of one agent, and every
interference of another agent on them (a preemption, a stolen slot) acts like one
of the steps it has; `turns` and the proofs cover several. `turns` posts nothing to the
cloud and no consolidation of it raises, since none of its three properties is about how
a job ends; `liveness`, whose properties are, has both.
In `dispatch` three events are the least that defer and re-inject one (a Home turn, a
query that keeps the drain going, a timer) and let a drain leave one behind; its
limits are scaled with them, so that a queue of two is full when the third comes. An event expires after `MaxDefers` drains, each of which
needs another event, so three events do not reach expiry, of which no property
speaks. The safety properties were also explored with four events (1,055,343 states).
In `batches` a rewake of one delegate of a pair, while a second batch takes a number of
the first, needs three runs; a second save adds states and no case. In `teams` one slot for
a wave of two members makes one wait for the completion of the other, and two teams let
one wait for the other's; `meddled_teams` has one team because each of its
properties is about one, and two interventions, since the bad cases of one operation are
those where another came between its steps. Two teams with two interventions exceed
what TLC does in the time of a run; one intervention was explored. In `reviews` delegates are
independent of each other but for the table of reviews, whose entries are; two
questions let an answer be late for one and meet the next, in the same run or after the
rewake. The safety properties were also explored with three (1.74 million states).
`rejections` needs three: a hint, progress, and a review. In `relay` the limits of the drain and the poll are scaled to the two
messages; its safety was also explored with three connections.
The theorems have none of these bounds.

*Fairness.* Weak fairness of the tick, of the worker, of every scheduled coroutine,
of the end of a broadcast in `on_user_message`, and of the awaits of the routes:
the event loop runs what is ready, and those awaits are on HTTP posts and
shutdowns that end. A consolidation cycle is assumed to end. No fairness on users,
admins, the clock or the loops: no liveness property of the schedulers relies on a
turn that ends, a loop that goes to sleep or a user who answers.
In `EventDispatch` the three tasks and the lock are weakly fair and nothing else is:
`EventsAreTaken` does rely on turns that end: the agentic loop bounds its iterations
and its total time (nls/agentic/evaluator.py:780), and its waits for a user have
timeouts; a model call that hangs for ever is outside the property. A loop that stops
for ever takes nothing, but it forgets its queue, so the property asks nothing of it. It
excepts a loop that a Home turn left paused: nothing makes the user write again.
In `DelegateBatches`, `TeamWaves` and `DelegateReviews` the tasks of runs are weakly
fair: a run ends, since its iterations are bounded, its time is, and so are its
waits. In `DelegateReviews` the limit of a run's time is assumed of its work only, so that
`NobodyWaitsForEver` rests on the timeouts of the waits, and nothing is assumed of the
orchestrator. In `ChannelRelay` drains and deliveries are weakly fair, and webhooks,
providers, polls and connections are not; no run assumes that a desktop comes back.
`WakeRequestServed` is checked without `/sleep`, admin and triggers: with them
agents can keep falling asleep and waking during the broadcasts of
`_assign_free_workers`, whose loop then finds a free slot and a candidate again and
again, and the tick never ends. It needs infinitely many external requests in
step with the broadcasts and is not listed as a finding.

## 4. Findings

Two are runs that TLC refutes, and entries of "findings".
- **rejections**: the message of a completion review asks the orchestrator to reject with
  a hint. A review opens no escalation episode, so `team_hint_policy` refuses the hint
  for any delegate that was hinted before and has called tools since. The delegate
  waits on, and after ten minutes its completion is accepted.
- **replaced**: the close event of a replaced relay socket comes after its successor
  was registered and removes the entry of the successor, which stays connected
  and is taken for offline.

Others were found in the same way, by a property that TLC refutes. Those whose property is
named are stated in the modules, under "what the documentation and the comments
say", and the counterexamples can be had with a configuration that checks it:
- an admin's forced sleep enqueues a conscious agent and leaves its loop; when the
  job ends `on_sleep_complete` drops the reference to the loop without stopping it
  (`NoLoopUnlessConscious`; the ways there are in `LoopsAreNotDoubledOtherwise`);
- a consolidation that raises skips `on_sleep_done`: the agent sleeps until somebody
  writes to it (`JobRaises`; the other ways to be forgotten are beside it);
- a stream that raises, with its socket open, and a socket that closes during a turn never
  complete the message: the inner loop stays paused until another message completes, and
  does not take what is queued (`TurnBreaksOff`, `HomeBreaksOff`);
- a channel message that finds the event queue full is dropped with a warning and without
  a turn (`Dropped`);
- reconciliation passes over the number 0, and so over the first member of the first
  launch: when its completion is lost its team never lands (team_manager.py:1523);
- `evict_agent` unregisters after an await, whatever was loaded since
  (`LoadedIsRegistered`);
- a drain takes up to eight events and stops after the first full turn; the messages
  behind it are neither routed nor put back (`MessagesAreKept`);
- a wake is in the event queue and in the legacy list; each copy runs a turn
  (`WakesRunOnce`);
- when a batch completes, the chained callbacks remove the check-back jobs of all
  batches, also of those that still run (`CheckbackLastsAsLongAsItsBatch`;
  executor.py:3382 says "when the batch finishes on its own");
- closing a wave again is not idempotent, as its docstrings say (team_manager.py:735,
  :2020): it copies the statuses of the members over steps that were accepted or
  done again meanwhile (`ClosingIsIdempotent`);
- the email poller drains the pending messages of every channel, which are marked
  delivered, and drops those that are not emails (`DeliveredArrives`).

Seen while modelling and not stated as properties: agents taken out of the
sleep queue are woken beyond `max_conscious` (docs/architecture/consciousness-scheduler.md:84);
a turn of a frozen agent starts before its loop exists and the loop then runs
through the turn (:35); a message wakes a paused agent (a wake request does not
look at `user_paused`); a pause of an agent whose runtime is not loaded is not
saved (consciousness_scheduler.py:377); an agent that is put back to sleep while
its last job posts to the cloud is skipped as a duplicate and then has no job
(sleep_scheduler.py:73, :359; `SkippedWhileSyncing`).
In the event dispatch: the background queue gets no path (agent_runtime.py:284 reads
`_agent_dir`, which nothing assigns), so deferred events do not survive a restart,
although docs/architecture/channels-and-webhooks.md:107 says they persist; a
deferred event comes back only at the end of a later dispatch; after a Home turn that
overlaps a channel turn the foreground is that of whichever began last; one
delivered reply marks all inbox rows of its session handled, answered or not, and a
micro reply marks none; a batch event supersedes the check-backs in the legacy list
but not their copies in the event queue.
In the questions of delegates: a reminder of a review counts as an escalation, so that
the first real limit after it is not extended (team_manager.py:2456 says that
reviews do not count); the answer to a request for help that was given up
answers the next question, whatever it is, and an "approve" that is late becomes a
termination, or accepts a completion that nobody reviewed (`Stray` in `DoneIsAccepted`); `extend` leaves the review it answers pending, which keeps the
orchestrator from waiting until the delegate ends; counters that arrive late can close the
episode that a request for help has just opened; loop.py:838 says that a silence is
never an approval and loop.py:849 that it is, after ten minutes;
docs/architecture/orchestration-and-delegation.md says that a hint reaches the next
iteration, and it waits for the next question.

## 5. Theorems

Assumptions: `SleepAssumption` (the empty agent is not an agent, the bounds are
positive, the switches Boolean) and what each theorem names. Clients,
capacity, cycles and `Ops` are arbitrary, and so are the agents, finitely many where
`CapacityIsKept` counts them (`SchedulerAssumption`); `MaxWakeRequests` only guards actions.
The theorems about `EventDispatch`, `DelegateBatches` and `ChannelRelay` assume
`DispatchAssumption`, `BatchesAssumption` and `RelayAssumption`: bounds are numbers, limits
are positive, the delegates of a batch are finitely many. Those about `TeamWaves` assume
`WavesAssumption`, for any finite plan, and `WavesAreNumbered`, that a step's wave is a
number above those of the steps it needs. This is what a plan without a cycle has; that
it follows from there being no cycle is induction over data, so it is stated of `WaveOf`,
and TLC evaluates it for the plan of the runs.
The theorems about `DelegateReviews` assume `ReviewsAssumption` (its bounds are numbers)
and hold for any set of delegates, although the run has one: a delegate is not touched by
what happens to another (`OthersAside`), so each action is followed for its own delegate
only. `AnswersMatch`, `CompletionsAreAccepted` and `PendingReviewsAreAwaited` are three
readings of one inductive invariant, `IInv`. They need each other: that a stray approval
comes only from nobody's asking or from a question that was left follows from what the
queue may hold. They hold of every delegate; what the code cannot tell apart is in their
statements as exceptions for single answers (`left`, `mistaken`).

| theorem | says | argument |
|---|---|---|
| `SleepTypeCorrect`, `TypeCorrect` | types | `Typed` adds that a preemption has a target, a job an agent and a turn an agent: without it `MakeConscious(sched.target)` is not about an agent |
| `OneJobPerAgent` | `NoDuplicateJobs` | the queue is injective and disjoint from the current job; lemmas on `Append`, `Tail` and `RemoveAt` of injective sequences |
| `QueueImplementsPromise` | every step of the queue and the worker is a step of `SleepQueue` or a stutter | the same invariant gives what `Range(queue)` becomes |
| `LoopsAreOfConsciousAgents` | `LoopIffConscious` | inductive with the types |
| `LoopsAreRarelyDoubled` | the action property `LoopsAreNotDoubledOtherwise` | whoever is woken while not conscious had no live loop |
| `CapacityIsKept` | the action property `OnlyQueuedSleepersOvercommit`: only a message that withdraws a sleep job takes the loops beyond `max_conscious` | a step with a free slot adds one agent to `Committed`, a preemption replaces one by one, and the wake after it takes the slot that was kept for its target (`TickCommits`); every other step only shrinks `Conscious`. `Agents` is finite by `SchedulerAssumption` |
| `PausedLoopsAreResumed` | `PausedHasTurn`: a paused loop has a turn that will resume it, or it is `left` by one that broke off; under every operation | inductive with the types: who pauses is a turn that starts waiting or running, and who ends a turn resumes its agent or, breaking off as the last one, leaves it |
| `SleepersAreRemembered` | the action property `SleepersAreNotForgottenOtherwise`, under every operation and fault: who sleeps loses its last job or request only when its consolidation raises, when its job is skipped beside the one being posted, or when it is woken without a runtime | `WakerInv`: the tick is at one thing at a time. Each action keeps, moves or redeems every job and request, or is one of the three (`Remembered`) |
| `ReviewTypes` | types of `DelegateReviews` | who asks has a question and a kind |
| `AnswersMatch` | `AnswersMatchQuestions` | `Open`: what the orchestrator still has to answer is the question the delegate waits with, or one that it left; `Answered`: an answered question is not open, so it is answered once |
| `CompletionsAreAccepted` | `DoneIsAccepted` | `Accepted`: an approval that is read is for the question asked or a stray one, by `Answered`; a review is asked for once, and who was reviewed before has a verdict |
| `PendingReviewsAreAwaited` | `ReviewsAreOfWaiters` | `Settled`: a hint in the queue for the review that is asked has removed it, and nothing is pending of who is over; a hint for another question makes the verdict `mistaken` |
| `NewestIsRegisteredAlways` | `NewestIsRegistered`: pushes and calls go to the agent's newest relay connection or to none | inductive by itself: a registration comes with the connection that it is about, and every other step leaves both alone or removes the entry |
| `RelayTypesAlways` | types of `ChannelRelay` | `RowsInv`: a row is written when its webhook is over, and drains and polls read nothing but rows; the rows they read are those of lowest rank, which `Ranks_proofs` shows to exist |
| `NothingEverVanishes` | `NothingVanishes`: a message whose webhook was answered is pending, on its way, handled or in `lost` | `SentArrives`: what was pushed, or sent by a drain, arrived or was lost before its row is marked. The lemma under it, `AccountedStays`: no step at all makes such a message vanish |
| `RepeatsAreAlwaysKnown` | `RepeatsAreKnown`: two copies only of what a provider, a delivery or two readers repeated | `OneSource`: any other message comes from its webhook, or its row, or the one drain or poll that has read its row, and has no copy as long as it may still be sent |
| `DispatchTypesAlways` | types of `EventDispatch` | with `LoopShape`: where the loop is tells what it has in hand |
| `EventsAlwaysAreInOnePlace` | `EventsAreInOnePlace`: an event is in one container, once, and in none when it counts as processed | `DispatchInv`: births tell events apart in all containers (`PlacesInv`), what is to be born is nowhere (`NotYetBorn`), a Home message is in no container before its turn begins, who waits for the lock waits once. A drain is a set of lowest ranks, what it hands on is followed through the routing by `Moved` |
| `TurnsAreBoundedPerOrigin` | `TurnsPerOrigin`: one turn for a message that no inbox row replays, two for a wake with two copies | `TurnsInv`: the turns an origin had and those it may still get, one from the queue and one beside it, are two at most, and one if it is a message (`Weight`). A step begins a turn by using up one of these (`Lighter`); a new event has an origin that nothing else has; only a replayed row has an origin that is not its own birth |
| `MessagesAlwaysLeaveBehindATurn` | the action property `MessagesLeaveOnlyBehindATurn`, for any size of the queue: without a turn a message goes only with its loop, behind a turn that closes, or before a full queue | `LeaveInv`: no message is deferred, a loop that is not there has no queue, and a turn under way was counted. `Kept`: what a drain does not engage is left in the queue or in the batch, since every message behind the first that engages comes after it |
| `BatchesTypes` | types of `DelegateBatches` | the invariant of the next two |
| `SlotsAlwaysAreRuns` | `SlotsAreRuns`: no slot without a run, in any batch; and no run that the table does not know, unless a later batch uses its number or it is a rewake's in a void batch | the latest run of a delegate is the one that goes on, and the table in memory and on disk is of batches that have the delegate |
| `CompletedAlwaysIsWhoIsOver`, `AlwaysAnnouncedInFull` | `CompletedIsWhoIsOver`, `AnnouncedInFull`, of the batches that are not void | a delegate that a batch owes has one uncounted run; the results of a batch hold the others once. Lemmas on what one more counted run does to a cardinality |
| `ManagerKeepsPromise` | every step of `DelegateBatches` is a step of `BatchPromise` or a stutter | the same invariant: who is owed is who has an uncounted run |
| `WavesTypes` | types of `TeamWaves` | `WavesInv`, of which the next four are readings as well |
| `CompletedAlwaysMeansStepsDone` | `CompletedMeansStepsDone`: a completed wave leaves its steps done, after rewakes, terminations and restarts too, unless it was skipped or the step reopened | a team lands when all its members have ended, and closing writes their statuses over the steps; the file has the same members as the memory, so a restart changes nothing of it |
| `ClosedTeamsNeverHaveRuns` | `ClosedTeamsHaveNoRuns`: but of an earlier launch, or `astray` | a run of the current launch that is not astray is of a member that runs, in a team that is open |
| `DelegatesStartAfterTheirNeeds` | the action property `StartsAfterItsNeeds` | what the members of a team need was not pending when the team was created (a member of an earlier wave would block it), and comes back only as `reopened` |
| `ReportedWavesAreFinal` | the action property `ReportedIsFinal` | a landed wave that is not yet reported has only members that ended, so closing it again does not change its outcome |
| `NobodyIsLeftAsleep` | `OnlyTraineeAsleep`, if consolidation does not raise | inductive with the types: the worker wakes the ANS it put to sleep before it gives the job up |

The exceptions are needed: section 4 has the steps that break the properties without them.
`NobodyIsLeftAsleep` alone has a condition on a constant (`~ConsolidationMayRaise`).

Two steps of these proofs showed something of the code: a delegate's step never becomes
`skipped` by closing its wave, although `_sync_plan_steps_from_team` has that case
(`NoStepIsSkipped`: nobody closes a wave with a member that has not ended); and a message
that a drain or a poll has in hand needs no clause of its own in `NothingVanishes`, since
its row stays pending until the marks are written.

Only model-checked: liveness (`WakeRequestServed`, `SleepersWake`, the starvation
freedom of `SleepQueue`, `EventsAreTaken`, `CheckbacksEnd`, `TeamsLand`,
`NobodyWaitsForEver`, `ConnectingDrains`, `ReceivedIsHandled`, and the fairness that
`KeepsPromise` adds to `ManagerKeepsPromise`), which is beyond the prover.

## 6. Plan

1. *(done)* schedulers, turns, lifecycle; their safety theorems.
2. *(done)* `EventDispatch`: event queue, slots, deferral, stash and inbox.
3. *(done)* `DelegateBatches` with `BatchPromise`, `TeamWaves`, `DelegateReviews`.
4. *(done)* `ChannelRelay` and its first theorem; the safety of `DelegateReviews`.
5. *(done)* the safety of `DelegateBatches` with its promise, of `TeamWaves` and of
   `ChannelRelay`; the safety of `EventDispatch`.
6. *(done)* the capacity of the scheduler, `CapacityIsKept`: every invariant and action
   property of the passing runs is a theorem. What is left for TLC is liveness.

### Not modelled, and why

The map covers a small share of the code, because most of it has no protocol: what
language models are asked and what their answers are turned into (`loop.py`,
`executor.py` and `agent_runtime.py` for the most part, `bridge.py`, prompts and
policies), the numeric models of hormones, drives and memory (`nls/brain`), adapters to
shells, browsers, model servers and third parties, create-read-update-delete over a
database (accounts, billing, administration) and user interfaces.
Components with some control that are left out: the drowsy negotiation (one pending
request with a timeout, whose outcome is the stop reason that
`ConsciousnessScheduler` has; the cooldown of a "no" ends with the loop that holds it, and
a timeout does not look at the guards that a new request does); squads, whose waiting
for each other is that of the teams; the editing and repair of plans; billing, whose
rows are updated by one statement each; the session routing, a pure lookup; the supervision of
the Python process by the desktop application.
