----------------------- MODULE ConsciousnessScheduler -----------------------
(***************************************************************************)
(* server/services/consciousness_scheduler.py composed with the sleep      *)
(* scheduler and with the tasks that call them: the tick loop _run, the    *)
(* inner loops, chat and channel turns, the /sleep command, the admin      *)
(* routes, pause and unpause, agent load and eviction, a server restart.   *)
(*                                                                         *)
(* All of it runs on one asyncio event loop: an action is the code between *)
(* two awaits that may suspend.  The priority that chooses who is woken or *)
(* preempted is a nondeterministic choice.                                 *)
(***************************************************************************)
EXTENDS SleepScheduler, FiniteSets

CONSTANTS
  Clients,          \* the chat sockets and channel workers that run turns
  MaxConscious,     \* max_conscious
  MaxWakeRequests,  \* bound: wake requests queued at once
  Ops               \* the operations of the environment that may happen

OpNames == {"chat", "channel", "breakoff", "sleepCommand", "admin",
            "trigger", "pause", "evict", "restart", "night"}

ASSUME SchedulerAssumption ==
  /\ IsFiniteSet(Agents)
  /\ MaxConscious \in Nat \ {0}
  /\ MaxWakeRequests \in Nat \ {0}
  /\ Ops \subseteq OpNames

VARIABLES
  state,       \* AgentEntry.state; "unregistered" when there is no entry
  loop,        \* AgentEntry.inner_loop: its task, or how the task ended
  orphaned,    \* agents with a live loop task that no entry refers to
  warned,      \* agents with _no_runtime_warned set
  userPaused,  \* agents with AgentEntry.user_paused set
  savedPaused, \* agents with user_paused in agent_meta.json
  loaded,      \* AgentManager._runtimes
  resting,     \* agents whose circadian clock says it is sleep hours
  wakeReqs,    \* _wake_requests
  sched,       \* where _run is: [at |-> ..., target |-> the agent to wake]
  turn,        \* of each client: [at |-> ..., agent |-> ..., kind |-> ...]
  pausing,     \* where the pause route of an agent is
  evicting     \* agents whose eviction waits for the runtime's shutdown

entryVars == <<state, loop, orphaned, warned>>
pauseVars == <<userPaused, savedPaused, pausing>>
hostVars  == <<loaded, evicting, resting>>
vars == <<sleepVars, entryVars, pauseVars, hostVars, wakeReqs, sched, turn>>

States == {"unregistered", "frozen", "conscious", "sleeping"}

(* "left" is paused as well, and marks for the properties that the last    *)
(* turn of the agent to end broke off and that no message came since.      *)
LoopStates == {"none", "running", "paused", "left", "sleepStop", "otherStop"}

Turn(at, a, kind) == [at |-> at, agent |-> a, kind |-> kind]
NoTurn == Turn("idle", NoAgent, "none")
Turns == [at : {"idle", "waking", "waiting", "running"},
          agent : Agents \cup {NoAgent},
          kind : {"none", "chat", "channel"}]

TypeOK ==
  /\ SleepTypeOK
  /\ state \in [Agents -> States]
  /\ loop \in [Agents -> LoopStates]
  /\ orphaned \in SUBSET Agents
  /\ warned \in SUBSET Agents
  /\ userPaused \in SUBSET Agents
  /\ savedPaused \in SUBSET Agents
  /\ loaded \in SUBSET Agents
  /\ resting \in SUBSET Agents
  /\ wakeReqs \in Seq(Agents)
  /\ sched \in [at : {"wake", "preempt", "assign"}, target : Agents \cup {NoAgent}]
  /\ turn \in [Clients -> Turns]
  /\ pausing \in [Agents -> {"no", "freezing", "stopping"}]
  /\ evicting \in SUBSET Agents

Init ==
  /\ SleepInit
  /\ state = [a \in Agents |-> "frozen"]
  /\ loop = [a \in Agents |-> "none"]
  /\ orphaned = {} /\ warned = {}
  /\ userPaused = {} /\ savedPaused = {}
  /\ loaded = Agents /\ resting = {}
  /\ wakeReqs = <<>>
  /\ sched = [at |-> "wake", target |-> NoAgent]
  /\ turn = [c \in Clients |-> NoTurn]
  /\ pausing = [a \in Agents |-> "no"]
  /\ evicting = {}

-----------------------------------------------------------------------------
(* Entries and loops                                                       *)

Conscious == {a \in Agents : state[a] = "conscious"}

(* A defect: an off-by-one in the comparison. *)
HasCapacityOffByOne == Cardinality(Conscious) <= MaxConscious

HasCapacity == Cardinality(Conscious) < MaxConscious
Live(a) == loop[a] \in {"running", "paused", "left"}
AnsAwake(a) == a \notin ansAsleep

(* A loop task that loses its entry's reference goes on by itself. *)
Abandon(a) == orphaned' = IF Live(a) THEN orphaned \cup {a} ELSE orphaned

(* _make_conscious up to its broadcast: a new loop replaces whatever the   *)
(* entry held.  Without an entry or a runtime nobody wakes.                *)
MakeConscious(a) ==
  IF state[a] = "unregistered" THEN UNCHANGED entryVars
  ELSE IF a \notin loaded
       THEN warned' = warned \cup {a} /\ UNCHANGED <<state, loop, orphaned>>
       ELSE /\ state' = [state EXCEPT ![a] = "conscious"]
            /\ loop' = [loop EXCEPT ![a] = "running"]
            /\ Abandon(a)
            /\ UNCHANGED warned

(* A defect: the entry keeps the loop that was stopped. *)
FreezeKeepsLoop(a) ==
  /\ state' = [state EXCEPT ![a] = "frozen"]
  /\ loop' = [loop EXCEPT ![a] = "otherStop"]
  /\ UNCHANGED <<orphaned, warned>>

(* _freeze up to its broadcast; stop() ends the loop task. *)
Freeze(a) ==
  /\ state' = [state EXCEPT ![a] = "frozen"]
  /\ loop' = [loop EXCEPT ![a] = "none"]
  /\ UNCHANGED <<orphaned, warned>>

(* register_agent: a new entry restores the saved flag, which only a       *)
(* loaded runtime (its agent_dir) lets it read.                            *)
Register(a, runtimes_loaded) ==
  IF state[a] = "unregistered"
  THEN /\ state' = [state EXCEPT ![a] = "frozen"]
       /\ userPaused' = IF a \in savedPaused \cap runtimes_loaded
                        THEN userPaused \cup {a} ELSE userPaused \ {a}
       /\ warned' = warned \ {a}
  ELSE /\ warned' = warned \ {a}
       /\ UNCHANGED <<state, userPaused>>

(* unregister_agent *)
Unregister(a) ==
  /\ state' = [state EXCEPT ![a] = "unregistered"]
  /\ loop' = [loop EXCEPT ![a] = "none"]
  /\ warned' = warned \ {a}
  /\ userPaused' = userPaused \ {a}

Interrupted(l) == IF l \in {"running", "left"} THEN "paused" ELSE l
Resumed(l) == IF l \in {"paused", "left"} THEN "running" ELSE l
Left(l) == IF l = "paused" THEN "left" ELSE l

-----------------------------------------------------------------------------
(* The tick loop _run                                                      *)

(* One round of _handle_wake_requests. *)
HandleWakeRequest ==
  /\ sched.at = "wake"
  /\ wakeReqs # <<>>
  /\ wakeReqs' = Tail(wakeReqs)
  /\ LET a == Head(wakeReqs) IN
     \/ /\ state[a] \in {"unregistered", "conscious"}
        /\ UNCHANGED <<entryVars, sched>>
     \/ /\ state[a] \notin {"unregistered", "conscious"}
        /\ HasCapacity
        /\ MakeConscious(a)
        /\ UNCHANGED sched
     \/ /\ state[a] \notin {"unregistered", "conscious"}
        /\ ~HasCapacity
        /\ \E victim \in Conscious :
             /\ Freeze(victim)
             /\ sched' = [at |-> "preempt", target |-> a]
  /\ UNCHANGED <<sleepVars, pauseVars, hostVars, turn>>

(* A defect: a target that is not frozen is skipped. *)
WakeTargetIfFrozen ==
  IF state[sched.target] = "frozen" THEN MakeConscious(sched.target)
                                    ELSE UNCHANGED entryVars

WakeTarget == MakeConscious(sched.target)

(* The victim's freeze was announced; the target is woken as it was chosen *)
(* before that await.                                                      *)
WakePreempting ==
  /\ sched.at = "preempt"
  /\ WakeTarget
  /\ sched' = [at |-> "wake", target |-> NoAgent]
  /\ UNCHANGED <<sleepVars, pauseVars, hostVars, wakeReqs, turn>>

(* _pick_next_agent's candidates *)
Assignable == {a \in Agents : /\ state[a] = "frozen"
                              /\ a \notin userPaused
                              /\ a \notin resting
                              /\ a \notin warned}

(* The wake requests are drained before the first assignment of a tick and *)
(* not looked at again in that tick.                                       *)
PastWakeRequests == \/ sched.at = "wake" /\ wakeReqs = <<>>
                    \/ sched.at = "assign"

AssignFreeWorker ==
  /\ PastWakeRequests
  /\ HasCapacity
  /\ \E a \in Assignable : MakeConscious(a)
  /\ sched' = [at |-> "assign", target |-> NoAgent]
  /\ UNCHANGED <<sleepVars, pauseVars, hostVars, wakeReqs, turn>>

(* _handle_stopped_loops, which closes the tick. *)
HandleStoppedLoops ==
  /\ PastWakeRequests
  /\ ~HasCapacity \/ Assignable = {}
  /\ LET asleep == {a \in Conscious : loop[a] = "sleepStop"}
         ended  == {a \in Conscious : loop[a] = "otherStop"}
     IN /\ state' = [a \in Agents |-> IF a \in asleep THEN "sleeping"
                                      ELSE IF a \in ended THEN "frozen"
                                      ELSE state[a]]
        /\ loop' = [a \in Agents |-> IF a \in asleep \cup ended THEN "none"
                                     ELSE loop[a]]
        /\ EnqueueSync(asleep)
  /\ sched' = [at |-> "wake", target |-> NoAgent]
  /\ UNCHANGED <<queue, jobVars, runtimes, ansAsleep, orphaned, warned,
                 pauseVars, hostVars, wakeReqs, turn>>

Tick == HandleWakeRequest \/ WakePreempting \/ AssignFreeWorker \/ HandleStoppedLoops

-----------------------------------------------------------------------------
(* Inner loops                                                             *)

(* stop("sleep:..."): the ANS sleeps already, asks for sleep, or the user  *)
(* agrees to it.  A breath that began before an interrupt still gets here. *)
LoopSleeps(a) ==
  /\ Live(a)
  /\ loop' = [loop EXCEPT ![a] = "sleepStop"]
  /\ UNCHANGED <<sleepVars, state, orphaned, warned, pauseVars, hostVars,
                 wakeReqs, sched, turn>>

(* The loop crashes or its task is cancelled: no sleep reason. *)
LoopEnds(a) ==
  /\ Live(a)
  /\ loop' = [loop EXCEPT ![a] = "otherStop"]
  /\ UNCHANGED <<sleepVars, state, orphaned, warned, pauseVars, hostVars,
                 wakeReqs, sched, turn>>

OrphanEnds(a) ==
  /\ a \in orphaned
  /\ orphaned' = orphaned \ {a}
  /\ UNCHANGED <<sleepVars, state, loop, warned, pauseVars, hostVars, wakeReqs,
                 sched, turn>>

-----------------------------------------------------------------------------
(* Turns                                                                   *)

(* What a chat turn polls for: is_agent_ready and an ANS that is awake. *)
Ready(a) == a \in Conscious /\ AnsAwake(a)

(* The agentic channel path goes on at once, a chat turn only when ready. *)
Arrive(c, a, kind) ==
  turn' = [turn EXCEPT ![c] =
             Turn(IF kind = "channel" \/ Ready(a) THEN "running" ELSE "waiting", a, kind)]

(* on_user_message, of a conscious agent *)
MessageConscious(c, a, kind) ==
  /\ state[a] = "conscious"
  /\ loop' = [loop EXCEPT ![a] = Interrupted(@)]
  /\ Arrive(c, a, kind)
  /\ UNCHANGED <<sleepVars, state, orphaned, warned, userPaused, wakeReqs>>

(* A defect: the queue is searched before the state is looked at. *)
WithdrawsJobInAnyState(a) == Dequeueable(a)

WithdrawsJob(a) == state[a] = "sleeping" /\ Dequeueable(a)

(* on_user_message, of an agent whose job still waits: it is withdrawn and *)
(* the agent woken.  The interrupt comes after the broadcast.              *)
MessageQueued(c, a, kind) ==
  /\ WithdrawsJob(a)
  /\ Dequeue(a)
  /\ MakeConscious(a)
  /\ turn' = [turn EXCEPT ![c] = Turn("waking", a, kind)]
  /\ UNCHANGED <<jobVars, pending, runtimes, ansAsleep, userPaused, wakeReqs>>

(* on_user_message, of an agent in training: nothing but waiting. *)
MessageTraining(c, a, kind) ==
  /\ state[a] = "sleeping"
  /\ ~Dequeueable(a)
  /\ Arrive(c, a, kind)
  /\ UNCHANGED <<sleepVars, entryVars, userPaused, wakeReqs>>

(* on_user_message, of a frozen or unknown agent: a wake request. *)
MessageFrozen(c, a, kind) ==
  /\ state[a] \in {"frozen", "unregistered"}
  /\ Len(wakeReqs) < MaxWakeRequests
  /\ IF state[a] = "unregistered" THEN Register(a, loaded)
     ELSE UNCHANGED <<state, warned, userPaused>>
  /\ wakeReqs' = Append(wakeReqs, a)
  /\ turn' = [turn EXCEPT ![c] =
                Turn(IF kind = "channel" THEN "running" ELSE "waiting", a, kind)]
  /\ UNCHANGED <<sleepVars, loop, orphaned>>

UserMessage(c, a, kind) ==
  /\ kind \in Ops
  /\ turn[c].at = "idle"
  /\ \/ MessageConscious(c, a, kind)
     \/ MessageQueued(c, a, kind)
     \/ MessageTraining(c, a, kind)
     \/ MessageFrozen(c, a, kind)
  /\ UNCHANGED <<savedPaused, pausing, hostVars, sched>>

WakeInterrupts(c) ==
  LET a == turn[c].agent IN
  /\ turn[c].at = "waking"
  /\ loop' = [loop EXCEPT ![a] = Interrupted(@)]
  /\ Arrive(c, a, turn[c].kind)
  /\ UNCHANGED <<sleepVars, state, orphaned, warned, pauseVars, hostVars,
                 wakeReqs, sched>>

Proceed(c) ==
  /\ turn[c].at = "waiting"
  /\ turn' = [turn EXCEPT ![c] = Turn("running", @.agent, @.kind)]
  /\ UNCHANGED <<sleepVars, entryVars, pauseVars, hostVars, wakeReqs, sched>>

(* A poll of the waiting turn sees the agent ready. *)
TurnReady(c) == Ready(turn[c].agent) /\ Proceed(c)

(* 150 polls saw it unready: "proceeding anyway". *)
TurnTimesOut(c) == ~Ready(turn[c].agent) /\ Proceed(c)

(* A defect: a loop whose ANS sleeps is not resumed. *)
CompleteMessageIfReady(a) ==
  loop' = IF Ready(a) THEN [loop EXCEPT ![a] = Resumed(@)] ELSE loop

(* on_user_message_complete *)
CompleteMessage(a) == loop' = [loop EXCEPT ![a] = Resumed(@)]

TurnCompletes(c) ==
  /\ turn[c].at = "running"
  /\ turn' = [turn EXCEPT ![c] = NoTurn]
  /\ CompleteMessage(turn[c].agent)
  /\ UNCHANGED <<sleepVars, state, orphaned, warned, pauseVars, hostVars,
                 wakeReqs, sched>>

(* A chat turn ends without completing its message: the stream raises and  *)
(* the handler goes on to the socket's next message, or the socket closes  *)
(* and the handler leaves its loop.                                        *)
TurnBreaksOff(c) ==
  /\ "breakoff" \in Ops
  /\ turn[c].at \in {"waiting", "running"}
  /\ turn[c].kind = "chat"
  /\ turn' = [turn EXCEPT ![c] = NoTurn]
  /\ loop' = [loop EXCEPT ![turn[c].agent] = Left(@)]
  /\ UNCHANGED <<sleepVars, state, orphaned, warned, pauseVars, hostVars,
                 wakeReqs, sched>>

(* preempt_background: a channel message for an agent that is not          *)
(* conscious.  Of a conscious one it only cancels dreams.                  *)
ChannelMessage(a) ==
  /\ "channel" \in Ops
  /\ Len(wakeReqs) < MaxWakeRequests
  /\ \/ /\ state[a] = "sleeping"
        /\ Dequeue(a)
        /\ UNCHANGED <<state, warned, userPaused>>
     \/ /\ state[a] = "frozen"
        /\ UNCHANGED <<queue, state, warned, userPaused>>
     \/ /\ state[a] = "unregistered"
        /\ Register(a, loaded)
        /\ UNCHANGED queue
  /\ wakeReqs' = Append(wakeReqs, a)
  /\ UNCHANGED <<jobVars, pending, runtimes, ansAsleep, loop, orphaned,
                 savedPaused, pausing, hostVars, sched, turn>>

-----------------------------------------------------------------------------
(* The other sources of sleep jobs, and their end                          *)

(* The /sleep chat command stops the loop and enqueues; the entry is left  *)
(* to the next tick.                                                       *)
SleepCommand(a) ==
  /\ "sleepCommand" \in Ops
  /\ a \in loaded
  /\ loop' = [loop EXCEPT ![a] = IF @ = "none" THEN @ ELSE "sleepStop"]
  /\ Enqueue(a)
  /\ UNCHANGED <<jobVars, pending, runtimes, ansAsleep, state, orphaned,
                 warned, pauseVars, hostVars, wakeReqs, sched, turn>>

(* POST /agents/{id}/sleep enqueues and touches nothing else. *)
AdminSleep(a) ==
  /\ "admin" \in Ops
  /\ a \in loaded
  /\ Enqueue(a)
  /\ UNCHANGED <<jobVars, pending, runtimes, ansAsleep, entryVars,
                 pauseVars, hostVars, wakeReqs, sched, turn>>

(* The runtime asks for sleep after a turn or a dream. *)
SleepTrigger(a) ==
  /\ "trigger" \in Ops
  /\ a \in loaded
  /\ EnqueueSync({a})
  /\ UNCHANGED <<queue, jobVars, runtimes, ansAsleep, entryVars,
                 pauseVars, hostVars, wakeReqs, sched, turn>>

(* on_sleep_complete, called by the worker *)
OnSleepComplete(a) ==
  IF state[a] = "unregistered" THEN UNCHANGED entryVars
  ELSE /\ state' = [state EXCEPT ![a] = "frozen"]
       /\ loop' = [loop EXCEPT ![a] = "none"]
       /\ Abandon(a)
       /\ UNCHANGED warned

SleepCompletes ==
  /\ SleepDone
  /\ OnSleepComplete(current)
  /\ UNCHANGED <<pauseVars, hostVars, wakeReqs, sched, turn>>

WorkerStep ==
  /\ Worker
  /\ UNCHANGED <<entryVars, pauseVars, hostVars, wakeReqs, sched, turn>>

EnqueueStep(a) ==
  /\ EnqueueRuns(a)
  /\ UNCHANGED <<entryVars, pauseVars, hostVars, wakeReqs, sched, turn>>

-----------------------------------------------------------------------------
(* Pause, load, evict, restart                                             *)

Persist(paused, a) ==
  savedPaused' = IF a \notin loaded THEN savedPaused
                 ELSE IF paused THEN savedPaused \cup {a} ELSE savedPaused \ {a}

(* The pause route goes on to offload a loaded runtime. *)
AfterPersist(a) == IF a \in loaded THEN "stopping" ELSE "no"

PauseBegins(a) ==
  /\ "pause" \in Ops
  /\ pausing[a] = "no"
  /\ state[a] # "unregistered"
  /\ userPaused' = userPaused \cup {a}
  /\ IF state[a] = "conscious"
     THEN /\ Freeze(a)
          /\ pausing' = [pausing EXCEPT ![a] = "freezing"]
          /\ UNCHANGED savedPaused
     ELSE /\ Persist(TRUE, a)
          /\ pausing' = [pausing EXCEPT ![a] = AfterPersist(a)]
          /\ UNCHANGED entryVars
  /\ UNCHANGED <<sleepVars, hostVars, wakeReqs, sched, turn>>

PausePersists(a) ==
  /\ pausing[a] = "freezing"
  /\ Persist(TRUE, a)
  /\ pausing' = [pausing EXCEPT ![a] = AfterPersist(a)]
  /\ UNCHANGED <<sleepVars, entryVars, userPaused, hostVars, wakeReqs, sched, turn>>

(* The runtime is shut down and dropped from the agent manager only. *)
PauseOffloads(a) ==
  /\ pausing[a] = "stopping"
  /\ pausing' = [pausing EXCEPT ![a] = "no"]
  /\ loaded' = loaded \ {a}
  /\ UNCHANGED <<sleepVars, entryVars, userPaused, savedPaused, evicting, resting,
                 wakeReqs, sched, turn>>

(* load_agent: a fresh runtime, registered with both schedulers. *)
LoadAgent(a) ==
  /\ loaded' = loaded \cup {a}
  /\ runtimes' = runtimes \cup {a}
  /\ ansAsleep' = ansAsleep \ {a}
  /\ UNCHANGED <<queue, jobVars, pending>>

(* A chat is opened or a message arrives: the runtime is loaded on demand. *)
OpenAgent(a) ==
  /\ a \notin loaded
  /\ LoadAgent(a)
  /\ Register(a, loaded \cup {a})
  /\ UNCHANGED <<loop, orphaned, savedPaused, pausing, evicting, resting,
                 wakeReqs, sched, turn>>

(* The unpause route of an agent that is loaded; else it opens it first. *)
Unpause(a) ==
  /\ a \in loaded
  /\ state[a] # "unregistered"
  /\ a \in userPaused
  /\ userPaused' = userPaused \ {a}
  /\ Persist(FALSE, a)
  /\ UNCHANGED <<sleepVars, entryVars, pausing, hostVars, wakeReqs, sched, turn>>

EvictBegins(a) ==
  /\ "evict" \in Ops
  /\ a \in loaded
  /\ a \notin evicting
  /\ loaded' = loaded \ {a}
  /\ evicting' = evicting \cup {a}
  /\ UNCHANGED <<sleepVars, entryVars, pauseVars, resting, wakeReqs, sched, turn>>

EvictEnds(a) ==
  /\ a \in evicting
  /\ evicting' = evicting \ {a}
  /\ runtimes' = runtimes \ {a}
  /\ Unregister(a)
  /\ UNCHANGED <<queue, jobVars, pending, ansAsleep, orphaned,
                 savedPaused, pausing, loaded, resting, wakeReqs, sched, turn>>

Circadian ==
  /\ "night" \in Ops
  /\ resting' \in SUBSET Agents
  /\ UNCHANGED <<sleepVars, entryVars, pauseVars, loaded, evicting, wakeReqs,
                 sched, turn>>

(* stop() and a new process: only agent_meta.json survives, and an agent   *)
(* saved as paused is not loaded.                                          *)
Restart ==
  /\ "restart" \in Ops
  /\ loaded' = Agents \ savedPaused
  /\ state' = [a \in Agents |-> IF a \in savedPaused THEN "unregistered"
                                                     ELSE "frozen"]
  /\ loop' = [a \in Agents |-> "none"]
  /\ orphaned' = {} /\ warned' = {} /\ userPaused' = {} /\ evicting' = {}
  /\ wakeReqs' = <<>>
  /\ sched' = [at |-> "wake", target |-> NoAgent]
  /\ turn' = [c \in Clients |-> NoTurn]
  /\ pausing' = [a \in Agents |-> "no"]
  /\ queue' = <<>> /\ GiveUpJob
  /\ pending' = {} /\ ansAsleep' = {} /\ runtimes' = Agents \ savedPaused
  /\ UNCHANGED <<savedPaused, resting>>

-----------------------------------------------------------------------------
(* The specification                                                       *)

TurnStep(c) ==
  \/ \E a \in Agents, kind \in {"chat", "channel"} : UserMessage(c, a, kind)
  \/ WakeInterrupts(c)
  \/ TurnReady(c)
  \/ TurnTimesOut(c)
  \/ TurnCompletes(c)
  \/ TurnBreaksOff(c)

LoopStep(a) == LoopSleeps(a) \/ LoopEnds(a) \/ OrphanEnds(a)

SleepSource(a) == SleepCommand(a) \/ AdminSleep(a) \/ SleepTrigger(a)

RouteStep(a) ==
  \/ PauseBegins(a) \/ PausePersists(a) \/ PauseOffloads(a) \/ Unpause(a)
  \/ OpenAgent(a) \/ EvictBegins(a) \/ EvictEnds(a)

Next ==
  \/ Tick
  \/ WorkerStep
  \/ SleepCompletes
  \/ \E a \in Agents : EnqueueStep(a)
  \/ \E c \in Clients : TurnStep(c)
  \/ \E a \in Agents : LoopStep(a) \/ ChannelMessage(a) \/ SleepSource(a) \/ RouteStep(a)
  \/ Circadian
  \/ Restart

(* The event loop runs the tick loop, the worker and every scheduled       *)
(* coroutine again and again, and the awaits of the routes and turns end.  *)
(* No fairness on what users, admins, the clock and the loops decide.      *)
Fairness ==
  /\ WF_vars(Tick)
  /\ WF_vars(WorkerStep \/ SleepCompletes)
  /\ \A c \in Clients : WF_vars(WakeInterrupts(c))
  /\ \A a \in Agents : WF_vars(EnqueueStep(a))
  /\ \A a \in Agents : WF_vars(PausePersists(a) \/ PauseOffloads(a) \/ EvictEnds(a))

SafeSpec == Init /\ [][Next]_vars
Spec == SafeSpec /\ Fairness

-----------------------------------------------------------------------------
(* Properties                                                              *)

(* An entry holds a loop exactly while its state is CONSCIOUS, although    *)
(* the tick loop, the sleep worker, two routes and every turn write both.  *)
LoopIffConscious ==
  \A a \in Agents : loop[a] # "none" <=> state[a] = "conscious"

(* A paused loop has a turn that will resume it, unless the last turn of   *)
(* its agent to end broke off and no message came since (it is "left"): no *)
(* sequence of wakes, preemptions and completions leaves a conscious agent *)
(* paused with nobody to call on_user_message_complete, only a failed      *)
(* stream or a closed socket does.                                         *)
PausedHasTurn ==
  \A a \in Agents : loop[a] = "paused" =>
    \E c \in Clients : turn[c].agent = a /\ turn[c].at \in {"waiting", "running"}

(* Who can still take a SLEEPING agent out of that state: a job that will  *)
(* reach on_sleep_done, or a wake request on its way.                      *)
WakeRequested(a) == a \in Range(wakeReqs) \/ sched.target = a
HasJob(a) == \/ a \in pending \/ InQueue(a)
             \/ current = a /\ phase # "syncing"

Forgotten(a) == state[a] = "sleeping" /\ ~HasJob(a) /\ ~WakeRequested(a)

(* The three ways the code has to forget a sleeper.  Its consolidation     *)
(* raises, and the worker drops the job without on_sleep_done.  A second   *)
(* job is skipped as a duplicate of the one whose package is being posted, *)
(* after that one's on_sleep_done.  It is to be woken while it has no      *)
(* runtime, which only sets its warning.                                   *)
JobRaises(a) == phase = "asleep" /\ current = a /\ current' # a
SkippedWhileSyncing(a) == phase = "syncing" /\ current = a /\ a \in pending \ pending'
WokenWithoutRuntime(a) == a \notin loaded /\ a \in warned'

(* No step forgets a SLEEPING agent in any other way: neither a withdrawn  *)
(* job, a preemption, a wake request that found no capacity, a route nor a *)
(* job that ends leaves one with nobody to wake it.                        *)
SleepersAreNotForgottenOtherwise ==
  [][\A a \in Agents : Forgotten(a)' =>
        Forgotten(a) \/ JobRaises(a) \/ SkippedWhileSyncing(a) \/ WokenWithoutRuntime(a)]_vars

(* A second loop of an agent comes only from on_sleep_complete, which      *)
(* drops the loop of the agent in training, or from a preemption whose     *)
(* target woke up while its victim was announced.                          *)
LoopsAreNotDoubledOtherwise ==
  [][orphaned' \subseteq orphaned \cup {current, sched.target}]_vars

(* The loops that run, and the one a preemption has made room for. *)
Committed ==
  Conscious \cup {a \in Agents : sched.at = "preempt" /\ sched.target = a}

(* max_conscious is only ever exceeded by a message that takes an agent    *)
(* out of the sleep queue, and preemption does not add to the excess.      *)
OnlyQueuedSleepersOvercommit ==
  [][ \/ Cardinality(Committed') <= MaxConscious
      \/ Cardinality(Committed') <= Cardinality(Committed)
      \/ \E c \in Clients : turn[c].at = "idle" /\ turn'[c].at = "waking" ]_vars

(* "User messages always win": the agent of a wake request becomes         *)
(* conscious, whoever holds the slots.                                     *)
WakeRequestServed ==
  \A a \in Agents : WakeRequested(a) ~> state[a] = "conscious"

-----------------------------------------------------------------------------
(* What the documentation, the comments and the docstrings say.            *)

(* docs/architecture/inner-loop.md: a FROZEN agent has no loop, the loop   *)
(* of a SLEEPING one is stopped.                                           *)
NoLoopUnlessConscious ==
  \A a \in Agents : state[a] # "conscious" => a \notin orphaned

(* docs/architecture/consciousness-scheduler.md: out of Sleeping leads a   *)
(* transition to Conscious and one to Frozen, and every sleeper takes one  *)
(* unless it is forgotten in one of the three ways above.                  *)
SleepersWake ==
  \A a \in Agents : state[a] = "sleeping" ~> state[a] # "sleeping" \/ Forgotten(a)

(* load_agent: a loaded agent is registered with the sleep scheduler and   *)
(* with the consciousness scheduler.                                       *)
LoadedIsRegistered ==
  \A a \in loaded : a \in runtimes /\ state[a] # "unregistered"

=============================================================================
