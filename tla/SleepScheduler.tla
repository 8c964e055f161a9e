--------------------------- MODULE SleepScheduler ---------------------------
(***************************************************************************)
(* server/services/sleep_scheduler.py: the FIFO queue of consolidation     *)
(* jobs and the one worker that runs them, with the consolidation cycle of *)
(* server/services/consolidation_sleep.py.  Everything runs on one asyncio *)
(* event loop, so an action is the code between two awaits.                *)
(*                                                                         *)
(* A job is the agent it is for.  The reason and the signal count of a     *)
(* SleepRequest only choose how many cycles a job runs: any number from 1  *)
(* to MaxCycles.                                                           *)
(***************************************************************************)
EXTENDS Naturals, SequencesExt

CONSTANTS
  Agents, NoAgent,
  MaxCycles,            \* max_cycles of the longest kind of sleep
  ConsolidationMayRaise,\* a call of the cycle that no try encloses raises
  AutoSyncSoul          \* NESTJS_URL is set: the worker posts the soul
                        \* package before it gives the job up

ASSUME SleepAssumption ==
  /\ NoAgent \notin Agents
  /\ MaxCycles \in Nat \ {0}
  /\ ConsolidationMayRaise \in BOOLEAN
  /\ AutoSyncSoul \in BOOLEAN

VARIABLES
  queue,       \* _queue: the jobs that wait, oldest first
  current,     \* _current_job
  phase,       \* where _process_sleep is in the current job
  cycle,       \* the consolidation cycle the current job is in
  pending,     \* enqueue_sync: coroutines scheduled and not yet run
  runtimes,    \* _runtimes: the agents with a registered runtime
  ansAsleep    \* the agents whose autonomic nervous system is SLEEPING

sleepVars == <<queue, current, phase, cycle, pending, runtimes, ansAsleep>>
jobVars == <<current, phase, cycle>>

Phases == {"idle", "started", "asleep", "woken", "syncing"}

SleepTypeOK ==
  /\ queue \in Seq(Agents)
  /\ current \in Agents \cup {NoAgent}
  /\ phase \in Phases
  /\ cycle \in 0..MaxCycles
  /\ pending \in SUBSET Agents
  /\ runtimes \in SUBSET Agents
  /\ ansAsleep \in SUBSET Agents

SleepInit ==
  /\ queue = <<>>
  /\ current = NoAgent
  /\ phase = "idle"
  /\ cycle = 0
  /\ pending = {}
  /\ runtimes = Agents
  /\ ansAsleep = {}

-----------------------------------------------------------------------------
(* The queue                                                               *)

InQueue(a) == a \in Range(queue)
IsTraining(a) == current = a

(* A defect: only the queue is searched for a duplicate. *)
IsQueuedForgetsTraining(a) == InQueue(a)

IsQueued(a) == IsTraining(a) \/ InQueue(a)

(* A defect: the newest job goes first. *)
EnqueueFront(a) == queue' = IF IsQueued(a) THEN queue ELSE <<a>> \o queue

(* The body of enqueue, which never suspends: the queue is unbounded. *)
Enqueue(a) == queue' = IF IsQueued(a) THEN queue ELSE Append(queue, a)

(* enqueue_sync schedules enqueue on the event loop.  Two coroutines in    *)
(* flight for one agent run back to back, and the second finds the job of  *)
(* the first in the queue: the set of agents says it all.                  *)
EnqueueSync(S) == pending' = pending \cup S

EnqueueRuns(a) ==
  /\ a \in pending
  /\ pending' = pending \ {a}
  /\ Enqueue(a)
  /\ UNCHANGED <<jobVars, runtimes, ansAsleep>>

(* dequeue: TRUE exactly when Dequeueable, and then the oldest job of the  *)
(* agent is gone.                                                          *)
Dequeueable(a) == ~IsTraining(a) /\ InQueue(a)

FirstJob(a, i) == queue[i] = a /\ \A j \in 1..(i-1) : queue[j] # a

Dequeue(a) ==
  /\ Dequeueable(a)
  /\ \E i \in DOMAIN queue : FirstJob(a, i) /\ queue' = RemoveAt(queue, i)

-----------------------------------------------------------------------------
(* The worker                                                              *)

StartJob(a) ==
  /\ current' = a
  /\ phase' = "started"
  /\ cycle' = 1

(* From Python 3.12 on, queue.get() runs in the worker's own task: the job *)
(* leaves the queue and becomes the current one with no await in between.  *)
TakeJob ==
  /\ current = NoAgent
  /\ queue # <<>>
  /\ StartJob(Head(queue))
  /\ queue' = Tail(queue)
  /\ UNCHANGED <<pending, runtimes, ansAsleep>>

(* run_consolidation_cycle: begin_sleep, whatever the state of the ANS. *)
BeginSleep ==
  /\ phase = "started"
  /\ current \in runtimes
  /\ phase' = "asleep"
  /\ ansAsleep' = ansAsleep \cup {current}
  /\ UNCHANGED <<queue, current, cycle, pending, runtimes>>

(* _consolidate_async finds no runtime: nothing is consolidated. *)
SkipCycle ==
  /\ phase = "started"
  /\ current \notin runtimes
  /\ phase' = "woken"
  /\ UNCHANGED <<queue, current, cycle, pending, runtimes, ansAsleep>>

(* A defect: the ANS to wake is looked up again after the awaits. *)
AnsWokenByLookup == IF current \in runtimes THEN ansAsleep \ {current} ELSE ansAsleep

AnsWoken == ansAsleep \ {current}

WakeAns ==
  /\ phase = "asleep"
  /\ phase' = "woken"
  /\ ansAsleep' = AnsWoken
  /\ UNCHANGED <<queue, current, cycle, pending, runtimes>>

(* A defect: one cycle too many. *)
CyclesLeftOffByOne == cycle <= MaxCycles

CyclesLeft == cycle < MaxCycles

(* Signals remain and the job has cycles left. *)
NextCycle ==
  /\ phase = "woken"
  /\ current \in runtimes
  /\ CyclesLeft
  /\ cycle' = cycle + 1
  /\ phase' = "started"
  /\ UNCHANGED <<queue, current, pending, runtimes, ansAsleep>>

GiveUpJob ==
  /\ current' = NoAgent
  /\ phase' = "idle"
  /\ cycle' = 0

(* The step that calls on_sleep_done; with no NESTJS_URL _auto_sync_soul   *)
(* returns without suspending and the job ends in the same step.           *)
SleepDone ==
  /\ phase = "woken"
  /\ IF AutoSyncSoul
     THEN phase' = "syncing" /\ UNCHANGED <<current, cycle>>
     ELSE GiveUpJob
  /\ UNCHANGED <<queue, pending, runtimes, ansAsleep>>

FinishSync ==
  /\ phase = "syncing"
  /\ GiveUpJob
  /\ UNCHANGED <<queue, pending, runtimes, ansAsleep>>

(* _worker logs the exception and drops the job: neither on_sleep_done nor *)
(* the wake of the ANS runs.                                               *)
ConsolidationRaises ==
  /\ ConsolidationMayRaise
  /\ phase = "asleep"
  /\ GiveUpJob
  /\ UNCHANGED <<queue, pending, runtimes, ansAsleep>>

Worker == \/ TakeJob
          \/ BeginSleep \/ SkipCycle \/ WakeAns \/ NextCycle
          \/ FinishSync \/ ConsolidationRaises

-----------------------------------------------------------------------------
(* The sleep scheduler by itself, under every call the server can make.    *)

Request(a) ==
  \/ Enqueue(a) /\ UNCHANGED <<jobVars, pending, runtimes, ansAsleep>>
  \/ EnqueueSync({a}) /\ UNCHANGED <<queue, jobVars, runtimes, ansAsleep>>

WakeOnMessage(a) ==
  /\ Dequeue(a)
  /\ UNCHANGED <<jobVars, pending, runtimes, ansAsleep>>

RegisterRuntime(a) ==
  /\ a \notin runtimes
  /\ runtimes' = runtimes \cup {a}
  /\ ansAsleep' = ansAsleep \ {a}
  /\ UNCHANGED <<queue, jobVars, pending>>

UnregisterRuntime(a) ==
  /\ a \in runtimes
  /\ runtimes' = runtimes \ {a}
  /\ UNCHANGED <<queue, jobVars, pending, ansAsleep>>

SleepNext ==
  \/ Worker
  \/ SleepDone
  \/ \E a \in Agents : \/ EnqueueRuns(a)
                       \/ Request(a)
                       \/ WakeOnMessage(a)
                       \/ RegisterRuntime(a)
                       \/ UnregisterRuntime(a)

(* The event loop runs every callback and task that is ready. *)
SleepFairness ==
  /\ WF_sleepVars(Worker \/ SleepDone)
  /\ \A a \in Agents : WF_sleepVars(EnqueueRuns(a))

SleepSpec == SleepInit /\ [][SleepNext]_sleepVars /\ SleepFairness

-----------------------------------------------------------------------------
(* An agent never has two consolidation jobs, wherever they are: the two   *)
(* places enqueue looks at (_is_queued) are all the places a job can be.   *)
NoDuplicateJobs ==
  /\ IsInjective(queue)
  /\ current \notin Range(queue)

(* An agent whose ANS sleeps is the one in consolidation: no cycle leaves  *)
(* an agent asleep behind it.                                              *)
OnlyTraineeAsleep ==
  ansAsleep \subseteq (IF phase = "asleep" THEN {current} ELSE {})

(* The queue and the worker implement the promise of SleepQueue. *)
Promise == INSTANCE SleepQueue
             WITH waiting <- Range(queue),
                  training <- current

ImplementsSleepQueue == Promise!Spec
=============================================================================
