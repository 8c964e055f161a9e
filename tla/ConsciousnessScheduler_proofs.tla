-------------------- MODULE ConsciousnessScheduler_proofs --------------------
(* What TLAPS proves of the consciousness scheduler, for any number of     *)
(* agents and clients, any capacity and any set of operations.             *)
EXTENDS ConsciousnessScheduler, SleepScheduler_proofs, FiniteSetTheorems

-----------------------------------------------------------------------------
(* Types.  TypeOK is inductive once the agent that a step is about is      *)
(* known to be one: the target of a preemption, the agent of a job, the    *)
(* agent of a turn.                                                        *)

StepsHaveAgents ==
  /\ sched.at = "preempt" => sched.target \in Agents
  /\ phase # "idle" => current \in Agents
  /\ \A c \in Clients : turn[c].at # "idle" => turn[c].agent \in Agents

Typed == TypeOK /\ StepsHaveAgents

(* _make_conscious keeps the types of the entries. *)
LEMMA MakeConsciousType ==
  ASSUME TypeOK, NEW a \in Agents, MakeConscious(a)
  PROVE  /\ state' \in [Agents -> States]
         /\ loop' \in [Agents -> LoopStates]
         /\ orphaned' \in SUBSET Agents
         /\ warned' \in SUBSET Agents
<1>1. CASE UNCHANGED entryVars
  BY <1>1 DEF TypeOK, entryVars
<1>2. CASE warned' = warned \cup {a} /\ UNCHANGED <<state, loop, orphaned>>
  BY <1>2 DEF TypeOK
<1>3. CASE /\ state' = [state EXCEPT ![a] = "conscious"]
           /\ loop' = [loop EXCEPT ![a] = "running"]
           /\ Abandon(a) /\ UNCHANGED warned
  <2>1. "conscious" \in States /\ "running" \in LoopStates
    BY DEF States, LoopStates
  <2> QED BY <1>3, <2>1 DEF TypeOK, Abandon
<1> QED BY <1>1, <1>2, <1>3 DEF MakeConscious

(* _freeze, too. *)
LEMMA FreezeType ==
  ASSUME TypeOK, NEW a \in Agents, Freeze(a)
  PROVE  /\ state' \in [Agents -> States]
         /\ loop' \in [Agents -> LoopStates]
         /\ orphaned' \in SUBSET Agents
         /\ warned' \in SUBSET Agents
  BY DEF Freeze, TypeOK, States, LoopStates

(* The tick loop keeps the types. *)
LEMMA TickType ==
  ASSUME Typed, Tick
  PROVE  Typed'
<1> USE DEF Typed, StepsHaveAgents
<1>1. CASE HandleWakeRequest
  <2> DEFINE a == Head(wakeReqs)
  <2>1. a \in Agents /\ wakeReqs' \in Seq(Agents)
    BY <1>1, TailElements DEF HandleWakeRequest, TypeOK
  <2>2. CASE UNCHANGED <<entryVars, sched>>
    BY <1>1, <2>1, <2>2 DEF HandleWakeRequest, TypeOK, SleepTypeOK, entryVars, sleepVars,
       jobVars, pauseVars, hostVars
  <2>3. CASE MakeConscious(a) /\ UNCHANGED sched
    BY <1>1, <2>1, <2>3, MakeConsciousType DEF HandleWakeRequest, TypeOK, SleepTypeOK,
       sleepVars, jobVars, pauseVars, hostVars
  <2>4. ASSUME NEW victim \in Conscious, Freeze(victim),
               sched' = [at |-> "preempt", target |-> a]
        PROVE  Typed'
    <3>1. victim \in Agents
      BY DEF Conscious
    <3> QED BY <1>1, <2>1, <2>4, <3>1, FreezeType DEF HandleWakeRequest, TypeOK,
        SleepTypeOK, sleepVars, jobVars, pauseVars, hostVars
  <2> QED BY <1>1, <2>2, <2>3, <2>4 DEF HandleWakeRequest
<1>2. CASE WakePreempting
  BY <1>2, MakeConsciousType DEF WakePreempting, WakeTarget, TypeOK, SleepTypeOK, sleepVars,
     jobVars, pauseVars, hostVars
<1>3. CASE AssignFreeWorker
  BY <1>3, MakeConsciousType DEF AssignFreeWorker, Assignable, TypeOK, SleepTypeOK,
     sleepVars, jobVars, pauseVars, hostVars
<1>4. CASE HandleStoppedLoops
  BY <1>4 DEF HandleStoppedLoops, EnqueueSync, Conscious, TypeOK, SleepTypeOK, States,
     LoopStates, jobVars, pauseVars, hostVars
<1> QED BY <1>1, <1>2, <1>3, <1>4 DEF Tick

(* The inner loops keep the types. *)
LEMMA LoopStepType ==
  ASSUME Typed, NEW a \in Agents, LoopStep(a)
  PROVE  Typed'
  BY DEF LoopStep, LoopSleeps, LoopEnds, OrphanEnds, Typed, StepsHaveAgents, TypeOK,
     SleepTypeOK, LoopStates, Live, sleepVars, jobVars, pauseVars, hostVars

(* A turn of an agent is one. *)
LEMMA TurnType ==
  ASSUME Typed, NEW c \in Clients, NEW a \in Agents, NEW kind \in {"none", "chat", "channel"},
         NEW at \in {"waking", "waiting", "running"},
         turn' = [turn EXCEPT ![c] = Turn(at, a, kind)]
  PROVE  /\ turn' \in [Clients -> Turns]
         /\ \A d \in Clients : turn'[d].at # "idle" => turn'[d].agent \in Agents
<1>1. Turn(at, a, kind) \in Turns /\ Turn(at, a, kind).agent = a
  BY DEF Turn, Turns
<1> QED BY <1>1 DEF Typed, TypeOK, StepsHaveAgents

(* A message of an agent leads to one. *)
LEMMA ArriveType ==
  ASSUME Typed, NEW c \in Clients, NEW a \in Agents, NEW kind \in {"none", "chat", "channel"},
         Arrive(c, a, kind)
  PROVE  /\ turn' \in [Clients -> Turns]
         /\ \A d \in Clients : turn'[d].at # "idle" => turn'[d].agent \in Agents
  BY TurnType DEF Arrive

(* A message keeps the types. *)
LEMMA MessageType ==
  ASSUME Typed, NEW c \in Clients, NEW a \in Agents, NEW kind \in {"chat", "channel"},
         UserMessage(c, a, kind)
  PROVE  Typed'
<1> USE DEF Typed, StepsHaveAgents, UserMessage, hostVars
<1>1. CASE MessageConscious(c, a, kind)
  <2>1. loop' \in [Agents -> LoopStates]
    BY <1>1 DEF MessageConscious, TypeOK, LoopStates, Interrupted
  <2> QED BY <1>1, <2>1, ArriveType DEF MessageConscious, TypeOK, SleepTypeOK, sleepVars, jobVars
<1>2. CASE MessageQueued(c, a, kind)
  <2>1. queue' \in Seq(Agents)
    BY <1>2, DequeueRemoves DEF MessageQueued, TypeOK, SleepTypeOK
  <2> QED BY <1>2, <2>1, MakeConsciousType, TurnType DEF MessageQueued, TypeOK,
      SleepTypeOK, jobVars
<1>3. CASE MessageTraining(c, a, kind)
  BY <1>3, ArriveType DEF MessageTraining, TypeOK, SleepTypeOK, sleepVars, jobVars, entryVars
<1>4. CASE MessageFrozen(c, a, kind)
  <2>1. wakeReqs' \in Seq(Agents)
    BY <1>4, AppendElements DEF MessageFrozen, TypeOK
  <2>2. /\ state' \in [Agents -> States] /\ warned' \in SUBSET Agents
        /\ userPaused' \in SUBSET Agents
    BY <1>4 DEF MessageFrozen, Register, TypeOK, States
  <2> QED BY <1>4, <2>1, <2>2, TurnType DEF MessageFrozen, TypeOK, SleepTypeOK,
      sleepVars, jobVars
<1> QED BY <1>1, <1>2, <1>3, <1>4

(* The steps of a turn keep the types. *)
LEMMA TurnStepType ==
  ASSUME Typed, NEW c \in Clients, TurnStep(c)
  PROVE  Typed'
<1> USE DEF Typed, StepsHaveAgents
<1>1. ASSUME NEW a \in Agents, NEW kind \in {"chat", "channel"}, UserMessage(c, a, kind)
      PROVE  Typed'
  BY <1>1, MessageType
<1>2. CASE WakeInterrupts(c)
  <2>1. turn[c].agent \in Agents /\ turn[c].kind \in {"chat", "channel", "none"}
    BY <1>2 DEF WakeInterrupts, TypeOK, Turns
  <2>2. /\ turn' \in [Clients -> Turns]
        /\ \A d \in Clients : turn'[d].at # "idle" => turn'[d].agent \in Agents
    BY <1>2, <2>1, ArriveType DEF WakeInterrupts
  <2>3. loop' \in [Agents -> LoopStates]
    BY <1>2 DEF WakeInterrupts, TypeOK, LoopStates, Interrupted
  <2> QED BY <1>2, <2>2, <2>3 DEF WakeInterrupts, TypeOK, SleepTypeOK, sleepVars, jobVars,
      pauseVars, hostVars
<1>3. CASE TurnReady(c) \/ TurnTimesOut(c)
  <2>1. /\ turn' \in [Clients -> Turns]
        /\ \A d \in Clients : turn'[d].at # "idle" => turn'[d].agent \in Agents
    <3>1. turn[c].agent \in Agents /\ turn[c].kind \in {"none", "chat", "channel"}
      BY <1>3 DEF TurnReady, TurnTimesOut, Proceed, TypeOK, Turns
    <3>2. turn' = [turn EXCEPT ![c] = Turn("running", turn[c].agent, turn[c].kind)]
      BY <1>3 DEF TurnReady, TurnTimesOut, Proceed
    <3> QED BY <3>1, <3>2, TurnType
  <2> QED BY <1>3, <2>1 DEF TurnReady, TurnTimesOut, Proceed, TypeOK, SleepTypeOK,
      sleepVars, jobVars, entryVars, pauseVars, hostVars
<1>4. NoTurn \in Turns /\ NoTurn.at = "idle"
  BY DEF NoTurn, Turn, Turns
<1>5. CASE TurnCompletes(c)
  <2>1. loop' \in [Agents -> LoopStates]
    BY <1>5 DEF TurnCompletes, CompleteMessage, TypeOK, LoopStates, Resumed
  <2> QED BY <1>4, <1>5, <2>1 DEF TurnCompletes, TypeOK, SleepTypeOK, sleepVars, jobVars,
      pauseVars, hostVars
<1>6. CASE TurnBreaksOff(c)
  <2>1. loop' \in [Agents -> LoopStates]
    BY <1>6 DEF TurnBreaksOff, TypeOK, LoopStates, Left
  <2> QED BY <1>4, <1>6, <2>1 DEF TurnBreaksOff, TypeOK, SleepTypeOK, sleepVars, jobVars,
      pauseVars, hostVars
<1> QED BY <1>1, <1>2, <1>3, <1>5, <1>6 DEF TurnStep

(* A channel message keeps the types. *)
LEMMA ChannelMessageType ==
  ASSUME Typed, NEW a \in Agents, ChannelMessage(a)
  PROVE  Typed'
<1> USE DEF Typed, StepsHaveAgents
<1>1. wakeReqs' \in Seq(Agents)
  BY AppendElements DEF ChannelMessage, TypeOK
<1>2. queue' \in Seq(Agents)
  BY DequeueRemoves DEF ChannelMessage, TypeOK, SleepTypeOK
<1>3. /\ state' \in [Agents -> States] /\ warned' \in SUBSET Agents
      /\ userPaused' \in SUBSET Agents
  BY DEF ChannelMessage, Register, TypeOK, States
<1> QED BY <1>1, <1>2, <1>3 DEF ChannelMessage, TypeOK, SleepTypeOK, jobVars, hostVars

(* So do the sources of sleep jobs. *)
LEMMA SleepSourceType ==
  ASSUME Typed, NEW a \in Agents, SleepSource(a)
  PROVE  Typed'
<1> USE DEF Typed, StepsHaveAgents, jobVars, pauseVars, hostVars
<1>1. CASE SleepCommand(a)
  BY <1>1, EnqueueType DEF SleepCommand, TypeOK, SleepTypeOK, LoopStates
<1>2. CASE AdminSleep(a)
  BY <1>2, EnqueueType DEF AdminSleep, TypeOK, SleepTypeOK, entryVars
<1>3. CASE SleepTrigger(a)
  BY <1>3 DEF SleepTrigger, EnqueueSync, TypeOK, SleepTypeOK, entryVars
<1> QED BY <1>1, <1>2, <1>3 DEF SleepSource

(* So does the sleep scheduler. *)
LEMMA SleepStepType ==
  ASSUME Typed, \/ WorkerStep \/ SleepCompletes
                \/ \E a \in Agents : EnqueueStep(a)
  PROVE  Typed'
<1> USE DEF Typed, StepsHaveAgents, jobVars, pauseVars, hostVars
<1>1. CASE WorkerStep
  <2>1. SleepTypeOK'
    BY <1>1, WorkerKeepsType DEF WorkerStep, TypeOK
  <2>2. phase' # "idle" => current' \in Agents
    BY <1>1, TailElements DEF WorkerStep, Worker, TakeJob, StartJob,
       BeginSleep, SkipCycle, WakeAns, NextCycle, FinishSync, ConsolidationRaises, GiveUpJob,
       TypeOK, SleepTypeOK, Phases
  <2> QED BY <1>1, <2>1, <2>2 DEF WorkerStep, TypeOK, entryVars
<1>2. CASE SleepCompletes
  <2>1. current \in Agents
    BY <1>2 DEF SleepCompletes, SleepDone
  <2>2. SleepTypeOK'
    BY <1>2, SleepDoneKeepsType DEF SleepCompletes, TypeOK
  <2>3. phase' # "idle" => current' \in Agents
    BY <1>2, <2>1 DEF SleepCompletes, SleepDone, GiveUpJob
  <2>4. /\ state' \in [Agents -> States] /\ loop' \in [Agents -> LoopStates]
        /\ orphaned' \in SUBSET Agents /\ warned' \in SUBSET Agents
    <3>1. CASE state[current] = "unregistered"
      BY <1>2, <3>1 DEF SleepCompletes, OnSleepComplete, TypeOK, entryVars
    <3>2. CASE state[current] # "unregistered"
      <4>1. /\ state' = [state EXCEPT ![current] = "frozen"]
            /\ loop' = [loop EXCEPT ![current] = "none"]
            /\ warned' = warned
            /\ orphaned' \in {orphaned, orphaned \cup {current}}
        BY <1>2, <3>2 DEF SleepCompletes, OnSleepComplete, Abandon
      <4> QED BY <2>1, <4>1 DEF TypeOK, States, LoopStates
    <3> QED BY <3>1, <3>2
  <2> QED BY <1>2, <2>2, <2>3, <2>4 DEF SleepCompletes, TypeOK
<1>3. ASSUME NEW a \in Agents, EnqueueStep(a) PROVE Typed'
  BY <1>3, EnqueueType DEF EnqueueStep, EnqueueRuns, TypeOK, SleepTypeOK, entryVars
<1> QED BY <1>1, <1>2, <1>3

(* So do the routes, the clock and a restart. *)
LEMMA RouteStepType ==
  ASSUME Typed, (\E a \in Agents : RouteStep(a)) \/ Circadian \/ Restart
  PROVE  Typed'
<1> USE SleepAssumption DEF Typed, StepsHaveAgents, jobVars, sleepVars, pauseVars, hostVars, entryVars
<1>1. ASSUME NEW a \in Agents, PauseBegins(a) PROVE Typed'
  <2>1. savedPaused' \in SUBSET Agents
    BY <1>1 DEF PauseBegins, Persist, TypeOK
  <2>2. pausing' \in [Agents -> {"no", "freezing", "stopping"}]
    <3>1. \E v \in {"no", "freezing", "stopping"} : pausing' = [pausing EXCEPT ![a] = v]
      BY <1>1 DEF PauseBegins, AfterPersist
    <3> QED BY <3>1 DEF TypeOK
  <2>3. /\ state' \in [Agents -> States] /\ loop' \in [Agents -> LoopStates]
        /\ orphaned' \in SUBSET Agents /\ warned' \in SUBSET Agents
    <3>1. Freeze(a) \/ UNCHANGED entryVars
      BY <1>1 DEF PauseBegins
    <3>2. CASE Freeze(a)
      BY <3>2, FreezeType
    <3>3. CASE UNCHANGED entryVars
      BY <3>3 DEF TypeOK
    <3> QED BY <3>1, <3>2, <3>3
  <2>4. userPaused' \in SUBSET Agents /\ UNCHANGED <<sleepVars, hostVars, wakeReqs, sched, turn>>
    BY <1>1 DEF PauseBegins, TypeOK
  <2> QED BY <2>1, <2>2, <2>3, <2>4 DEF TypeOK, SleepTypeOK
<1>2. ASSUME NEW a \in Agents, PausePersists(a) \/ PauseOffloads(a) \/ Unpause(a)
      PROVE  Typed'
  <2>1. CASE PausePersists(a)
    <3>1. savedPaused' \in SUBSET Agents
      BY <2>1 DEF PausePersists, Persist, TypeOK
    <3>2. pausing' \in [Agents -> {"no", "freezing", "stopping"}]
      BY <2>1 DEF PausePersists, AfterPersist, TypeOK
    <3> QED BY <2>1, <3>1, <3>2 DEF PausePersists, TypeOK, SleepTypeOK
  <2>2. CASE PauseOffloads(a)
    BY <2>2 DEF PauseOffloads, TypeOK, SleepTypeOK
  <2>3. CASE Unpause(a)
    BY <2>3 DEF Unpause, Persist, TypeOK, SleepTypeOK
  <2> QED BY <1>2, <2>1, <2>2, <2>3
<1>3. ASSUME NEW a \in Agents, OpenAgent(a) PROVE Typed'
  <2>1. /\ state' \in [Agents -> States] /\ warned' \in SUBSET Agents
        /\ userPaused' \in SUBSET Agents
    BY <1>3 DEF OpenAgent, Register, TypeOK, States
  <2> QED BY <1>3, <2>1 DEF OpenAgent, LoadAgent, TypeOK, SleepTypeOK
<1>4. ASSUME NEW a \in Agents, EvictBegins(a) \/ EvictEnds(a) PROVE Typed'
  <2>1. CASE EvictBegins(a)
    BY <1>4, <2>1 DEF EvictBegins, TypeOK, SleepTypeOK
  <2>2. CASE EvictEnds(a)
    BY <1>4, <2>2 DEF EvictEnds, Unregister, TypeOK, SleepTypeOK, States, LoopStates
  <2> QED BY <1>4, <2>1, <2>2
<1>5. CASE Circadian
  BY <1>5 DEF Circadian, TypeOK, SleepTypeOK
<1>6. CASE Restart
  <2>1. NoTurn \in Turns /\ NoTurn.at = "idle"
    BY DEF NoTurn, Turn, Turns
  <2>2. SleepTypeOK' /\ phase' = "idle"
    BY <1>6, EmptySeq DEF Restart, GiveUpJob, TypeOK, SleepTypeOK, Phases
  <2>3. wakeReqs' \in Seq(Agents)
    BY <1>6, EmptySeq DEF Restart
  <2> QED BY <1>6, <2>1, <2>2, <2>3 DEF Restart, TypeOK, States, LoopStates
<1> QED BY <1>1, <1>2, <1>3, <1>4, <1>5, <1>6 DEF RouteStep

(* Every step keeps the types. *)
LEMMA TypedStep ==
  ASSUME Typed, [Next]_vars
  PROVE  Typed'
<1>1. CASE Tick
  BY <1>1, TickType
<1>2. ASSUME NEW c \in Clients, TurnStep(c) PROVE Typed'
  BY <1>2, TurnStepType
<1>3. ASSUME NEW a \in Agents, LoopStep(a) PROVE Typed'
  BY <1>3, LoopStepType
<1>4. ASSUME NEW a \in Agents, ChannelMessage(a) PROVE Typed'
  BY <1>4, ChannelMessageType
<1>5. ASSUME NEW a \in Agents, SleepSource(a) PROVE Typed'
  BY <1>5, SleepSourceType
<1>6. CASE UNCHANGED vars
  BY <1>6 DEF vars, sleepVars, entryVars, pauseVars, hostVars, Typed, StepsHaveAgents,
     TypeOK, SleepTypeOK
<1> QED BY <1>1, <1>2, <1>3, <1>4, <1>5, <1>6, SleepStepType, RouteStepType DEF Next

(* Every initial state is typed. *)
LEMMA TypedInit ==
  ASSUME Init
  PROVE  Typed
<1>1. SleepTypeOK /\ phase = "idle"
  BY SleepAssumption, EmptySeq DEF Init, SleepInit, SleepTypeOK, Phases
<1>2. NoTurn \in Turns /\ NoTurn.at = "idle"
  BY DEF NoTurn, Turn, Turns
<1> QED BY <1>1, <1>2, EmptySeq DEF Init, Typed, TypeOK, StepsHaveAgents, States, LoopStates

(* Every variable of the server keeps its type, whichever operations and   *)
(* faults are allowed.                                                     *)
THEOREM TypeCorrect == SafeSpec => []TypeOK
<1>1. Init => Typed
  BY TypedInit
<1>2. Typed /\ [Next]_vars => Typed'
  BY TypedStep
<1>3. Typed => TypeOK
  BY DEF Typed
<1> QED BY <1>1, <1>2, <1>3, PTL DEF SafeSpec

-----------------------------------------------------------------------------
(* An entry holds a loop exactly while it is CONSCIOUS.                    *)

LoopInv == Typed /\ LoopIffConscious

(* _make_conscious changes state and loop together, of its agent only. *)
LEMMA MakeConsciousLoops ==
  ASSUME LoopInv, NEW a \in Agents, MakeConscious(a)
  PROVE  LoopIffConscious'
<1> USE DEF LoopInv, Typed, TypeOK, LoopIffConscious
<1>1. CASE UNCHANGED <<state, loop>>
  BY <1>1
<1>2. CASE /\ state' = [state EXCEPT ![a] = "conscious"]
           /\ loop' = [loop EXCEPT ![a] = "running"]
  BY <1>2
<1> QED BY <1>1, <1>2 DEF MakeConscious, entryVars

(* _freeze, too. *)
LEMMA FreezeLoops ==
  ASSUME LoopInv, NEW a \in Agents, Freeze(a)
  PROVE  LoopIffConscious'
  BY DEF Freeze, LoopInv, Typed, TypeOK, LoopIffConscious

(* A new entry is not conscious, and neither was the unregistered agent. *)
LEMMA RegisterLoops ==
  ASSUME LoopInv, NEW a \in Agents, NEW R, Register(a, R), loop' = loop
  PROVE  LoopIffConscious'
  BY DEF Register, LoopInv, Typed, TypeOK, LoopIffConscious

(* Every step keeps state and loop in agreement. *)
LEMMA LoopInvStep ==
  ASSUME LoopInv, Typed', [Next]_vars
  PROVE  LoopInv'
<1> SUFFICES LoopIffConscious'
  BY DEF LoopInv
<1> USE DEF LoopInv
<1>0. ASSUME UNCHANGED <<state, loop>> PROVE LoopIffConscious'
  BY <1>0 DEF LoopIffConscious
<1>1. CASE HandleWakeRequest
  <2>1. Head(wakeReqs) \in Agents
    BY <1>1, TailElements DEF HandleWakeRequest, Typed, TypeOK
  <2>2. ASSUME NEW victim \in Conscious, Freeze(victim) PROVE LoopIffConscious'
    BY <2>2, FreezeLoops DEF Conscious
  <2> QED BY <1>0, <1>1, <2>1, <2>2, MakeConsciousLoops DEF HandleWakeRequest, entryVars
<1>2. CASE WakePreempting
  BY <1>2, MakeConsciousLoops DEF WakePreempting, WakeTarget, Typed, StepsHaveAgents
<1>3. CASE AssignFreeWorker
  BY <1>3, MakeConsciousLoops DEF AssignFreeWorker, Assignable
<1>4. CASE HandleStoppedLoops
  BY <1>4 DEF HandleStoppedLoops, Conscious, LoopIffConscious, Typed, TypeOK
<1>5. ASSUME NEW a \in Agents, LoopStep(a) PROVE LoopIffConscious'
  BY <1>5 DEF LoopStep, LoopSleeps, LoopEnds, OrphanEnds, Live, LoopIffConscious, Typed, TypeOK
<1>6. ASSUME NEW a \in Agents, loop' = [loop EXCEPT ![a] = Interrupted(@)], state' = state
      PROVE  LoopIffConscious'
  BY <1>6 DEF Interrupted, LoopIffConscious, Typed, TypeOK
<1>7. ASSUME NEW a \in Agents, loop' = [loop EXCEPT ![a] = Resumed(@)], state' = state
      PROVE  LoopIffConscious'
  BY <1>7 DEF Resumed, LoopIffConscious, Typed, TypeOK
<1>8. ASSUME NEW c \in Clients, NEW a \in Agents, NEW kind \in {"chat", "channel"},
             UserMessage(c, a, kind)
      PROVE  LoopIffConscious'
  <2>1. CASE MessageConscious(c, a, kind)
    BY <1>6, <2>1 DEF MessageConscious
  <2>2. CASE MessageQueued(c, a, kind)
    BY <2>2, MakeConsciousLoops DEF MessageQueued
  <2>3. CASE MessageTraining(c, a, kind)
    BY <1>0, <2>3 DEF MessageTraining, entryVars
  <2>4. CASE MessageFrozen(c, a, kind)
    BY <1>0, <2>4, RegisterLoops DEF MessageFrozen
  <2> QED BY <1>8, <2>1, <2>2, <2>3, <2>4 DEF UserMessage
<1>9. ASSUME NEW c \in Clients, TurnStep(c) PROVE LoopIffConscious'
  <2>1. CASE WakeInterrupts(c)
    BY <1>6, <2>1 DEF WakeInterrupts, Typed, StepsHaveAgents
  <2>2. CASE TurnCompletes(c)
    BY <1>7, <2>2 DEF TurnCompletes, CompleteMessage, Typed, StepsHaveAgents
  <2>3. CASE TurnReady(c) \/ TurnTimesOut(c)
    BY <1>0, <2>3 DEF TurnReady, TurnTimesOut, Proceed, entryVars
  <2>4. CASE TurnBreaksOff(c)
    BY <2>4 DEF TurnBreaksOff, Left, LoopIffConscious, Typed, TypeOK, StepsHaveAgents
  <2> QED BY <1>8, <1>9, <2>1, <2>2, <2>3, <2>4 DEF TurnStep
<1>10. ASSUME NEW a \in Agents, ChannelMessage(a) PROVE LoopIffConscious'
  BY <1>0, <1>10, RegisterLoops DEF ChannelMessage
<1>11. ASSUME NEW a \in Agents, SleepSource(a) PROVE LoopIffConscious'
  <2>1. CASE SleepCommand(a)
    BY <2>1 DEF SleepCommand, LoopIffConscious, Typed, TypeOK
  <2> QED BY <1>0, <1>11, <2>1 DEF SleepSource, AdminSleep, SleepTrigger, entryVars
<1>12. CASE SleepCompletes
  <2>1. current \in Agents
    BY <1>12 DEF SleepCompletes, SleepDone, Typed, StepsHaveAgents
  <2>2. CASE state[current] = "unregistered"
    BY <1>0, <1>12, <2>2 DEF SleepCompletes, OnSleepComplete, entryVars
  <2>3. CASE state[current] # "unregistered"
    BY <1>12, <2>1, <2>3 DEF SleepCompletes, OnSleepComplete, LoopIffConscious, Typed, TypeOK
  <2> QED BY <2>2, <2>3
<1>13. CASE WorkerStep \/ (\E a \in Agents : EnqueueStep(a)) \/ Circadian
  BY <1>0, <1>13 DEF WorkerStep, EnqueueStep, Circadian, entryVars
<1>14. ASSUME NEW a \in Agents, RouteStep(a) PROVE LoopIffConscious'
  <2>1. CASE PauseBegins(a)
    BY <1>0, <2>1, FreezeLoops DEF PauseBegins, entryVars
  <2>2. CASE PausePersists(a) \/ PauseOffloads(a) \/ Unpause(a) \/ EvictBegins(a)
    BY <1>0, <2>2 DEF PausePersists, PauseOffloads, Unpause, EvictBegins, entryVars
  <2>3. CASE OpenAgent(a)
    BY <2>3, RegisterLoops DEF OpenAgent
  <2>4. CASE EvictEnds(a)
    BY <2>4 DEF EvictEnds, Unregister, LoopIffConscious, Typed, TypeOK
  <2> QED BY <1>14, <2>1, <2>2, <2>3, <2>4 DEF RouteStep
<1>15. CASE Restart
  BY <1>15 DEF Restart, LoopIffConscious
<1>16. CASE UNCHANGED vars
  BY <1>0, <1>16 DEF vars, entryVars
<1> QED BY <1>1, <1>2, <1>3, <1>4, <1>5, <1>9, <1>10, <1>11, <1>12, <1>13, <1>14, <1>15,
           <1>16 DEF Next, Tick

(* The invariant, of every reachable state. *)
LEMMA LoopInvAlways == SafeSpec => []LoopInv
<1>1. Init => LoopInv
  BY TypedInit DEF Init, LoopInv, LoopIffConscious
<1>2. LoopInv /\ [Next]_vars => LoopInv'
  BY LoopInvStep, TypedStep DEF LoopInv
<1> QED BY <1>1, <1>2, PTL DEF SafeSpec

(* Whatever the tick loop, the worker, the routes and the turns do to an   *)
(* entry between each other's awaits, it holds a loop exactly while it is  *)
(* CONSCIOUS.                                                              *)
THEOREM LoopsAreOfConsciousAgents == SafeSpec => []LoopIffConscious
<1>1. LoopInv => LoopIffConscious
  BY DEF LoopInv
<1> QED BY <1>1, LoopInvAlways, PTL

(* An agent that held no live loop loses none by waking. *)
LEMMA WakingOrphansNobody ==
  ASSUME LoopInv, NEW a \in Agents, MakeConscious(a), state[a] # "conscious"
  PROVE  orphaned' = orphaned
<1>1. ~Live(a)
  BY DEF LoopInv, LoopIffConscious, Live
<1> QED BY <1>1 DEF MakeConscious, Abandon, entryVars

(* Where orphaned loops come from: the end of a sleep job, of the agent in *)
(* training, or a preemption whose target woke up in the meantime.         *)
THEOREM LoopsAreRarelyDoubled == SafeSpec => LoopsAreNotDoubledOtherwise
<1> DEFINE Step == orphaned' \subseteq orphaned \cup {current, sched.target}
<1>1. ASSUME LoopInv, [Next]_vars PROVE Step
  <2> USE <1>1
  <2>0. ASSUME orphaned' = orphaned PROVE Step
    BY <2>0
  <2>1. CASE HandleWakeRequest
    <3>1. Head(wakeReqs) \in Agents
      BY <2>1, TailElements DEF HandleWakeRequest, LoopInv, Typed, TypeOK
    <3> QED BY <2>0, <2>1, <3>1, WakingOrphansNobody DEF HandleWakeRequest, Freeze, entryVars
  <2>2. CASE WakePreempting
    BY <2>2 DEF WakePreempting, WakeTarget, MakeConscious, Abandon, entryVars
  <2>3. CASE AssignFreeWorker
    BY <2>0, <2>3, WakingOrphansNobody DEF AssignFreeWorker, Assignable
  <2>4. CASE HandleStoppedLoops
    BY <2>0, <2>4 DEF HandleStoppedLoops
  <2>5. ASSUME NEW c \in Clients, TurnStep(c) PROVE Step
    <3>1. ASSUME NEW a \in Agents, NEW kind \in {"chat", "channel"}, UserMessage(c, a, kind)
          PROVE  orphaned' = orphaned
      <4>1. CASE MessageQueued(c, a, kind)
        BY <4>1, WakingOrphansNobody DEF MessageQueued, WithdrawsJob
      <4> QED BY <3>1, <4>1 DEF UserMessage, MessageConscious, MessageTraining, MessageFrozen,
          entryVars
    <3> QED BY <2>0, <2>5, <3>1 DEF TurnStep, WakeInterrupts, TurnReady, TurnTimesOut, Proceed,
        TurnCompletes, TurnBreaksOff, entryVars
  <2>6. ASSUME NEW a \in Agents, LoopStep(a) PROVE Step
    BY <2>6 DEF LoopStep, LoopSleeps, LoopEnds, OrphanEnds
  <2>7. ASSUME NEW a \in Agents, ChannelMessage(a) \/ SleepSource(a) PROVE Step
    BY <2>0, <2>7 DEF ChannelMessage, SleepSource, SleepCommand, AdminSleep, SleepTrigger, entryVars
  <2>8. CASE SleepCompletes
    BY <2>8 DEF SleepCompletes, OnSleepComplete, Abandon, entryVars
  <2>9. CASE WorkerStep \/ (\E a \in Agents : EnqueueStep(a)) \/ Circadian \/ Restart
    BY <2>9 DEF WorkerStep, EnqueueStep, Circadian, Restart, entryVars
  <2>10. ASSUME NEW a \in Agents, RouteStep(a) PROVE Step
    BY <2>0, <2>10 DEF RouteStep, PauseBegins, Freeze, PausePersists, PauseOffloads, Unpause, OpenAgent,
       EvictBegins, EvictEnds, entryVars
  <2>11. CASE UNCHANGED vars
    BY <2>0, <2>11 DEF vars, entryVars
  <2> QED BY <2>1, <2>2, <2>3, <2>4, <2>5, <2>6, <2>7, <2>8, <2>9, <2>10, <2>11 DEF Next, Tick
<1>2. LoopInv /\ [Next]_vars => [Step]_vars
  BY <1>1
<1> QED BY <1>2, LoopInvAlways, PTL DEF SafeSpec, LoopsAreNotDoubledOtherwise

-----------------------------------------------------------------------------
(* Who pauses a loop resumes it, or breaks off.                            *)

PauseInv == Typed /\ PausedHasTurn

(* A step that pauses no loop and ends no turn. *)
LEMMA NoPauseNoEnd ==
  ASSUME PauseInv,
         \A a \in Agents : loop'[a] = "paused" => loop[a] = "paused",
         turn' = turn
  PROVE  PausedHasTurn'
  BY DEF PauseInv, PausedHasTurn

(* A turn that is idle or waking is nobody's resumer. *)
LEMMA TurnReplaces ==
  ASSUME PauseInv, NEW c \in Clients, turn[c].at \in {"idle", "waking"},
         NEW t, turn' = [turn EXCEPT ![c] = t],
         \A a \in Agents : loop'[a] = "paused" =>
            loop[a] = "paused" \/ (t.agent = a /\ t.at \in {"waiting", "running"})
  PROVE  PausedHasTurn'
<1> SUFFICES ASSUME NEW a \in Agents, loop'[a] = "paused"
             PROVE  \E d \in Clients : turn'[d].agent = a /\ turn'[d].at \in {"waiting", "running"}
  BY DEF PausedHasTurn
<1>1. CASE loop[a] = "paused"
  <2>1. PICK d \in Clients : turn[d].agent = a /\ turn[d].at \in {"waiting", "running"}
    BY <1>1 DEF PauseInv, PausedHasTurn
  <2> QED BY <2>1 DEF PauseInv, Typed, TypeOK
<1>2. CASE t.agent = a /\ t.at \in {"waiting", "running"}
  BY <1>2 DEF PauseInv, Typed, TypeOK
<1> QED BY <1>1, <1>2

(* _make_conscious starts a loop that is not paused. *)
LEMMA MakeConsciousNoPause ==
  ASSUME Typed, NEW a \in Agents, MakeConscious(a)
  PROVE  \A b \in Agents : loop'[b] = "paused" => loop[b] = "paused"
<1> USE DEF Typed, TypeOK
<1>1. loop' = loop \/ loop' = [loop EXCEPT ![a] = "running"]
  BY DEF MakeConscious, entryVars
<1> QED BY <1>1

(* The messages keep it. *)
LEMMA MessagePauses ==
  ASSUME PauseInv, NEW c \in Clients, NEW a \in Agents, NEW kind \in {"chat", "channel"},
         UserMessage(c, a, kind)
  PROVE  PausedHasTurn'
<1> USE DEF PauseInv, UserMessage
<1>1. CASE MessageConscious(c, a, kind)
  <2>1. PICK at \in {"waiting", "running"} : turn' = [turn EXCEPT ![c] = Turn(at, a, kind)]
    BY <1>1 DEF MessageConscious, Arrive
  <2>2. \A b \in Agents : loop'[b] = "paused" => loop[b] = "paused" \/ b = a
    BY <1>1 DEF MessageConscious, Typed, TypeOK
  <2> DEFINE t == Turn(at, a, kind)
  <2>3. t.agent = a /\ t.at \in {"waiting", "running"}
    BY DEF Turn
  <2> HIDE DEF t
  <2> QED BY <1>1, <2>1, <2>2, <2>3, TurnReplaces DEF t
<1>2. CASE MessageQueued(c, a, kind)
  BY <1>2, MakeConsciousNoPause, TurnReplaces DEF MessageQueued
<1>3. CASE MessageTraining(c, a, kind)
  BY <1>3, TurnReplaces DEF MessageTraining, Arrive, entryVars
<1>4. CASE MessageFrozen(c, a, kind)
  BY <1>4, TurnReplaces DEF MessageFrozen
<1> QED BY <1>1, <1>2, <1>3, <1>4

(* The steps of a turn keep it. *)
LEMMA TurnStepPauses ==
  ASSUME PauseInv, NEW c \in Clients, TurnStep(c)
  PROVE  PausedHasTurn'
<1> USE DEF PauseInv
<1>1. CASE WakeInterrupts(c)
  <2> DEFINE a == turn[c].agent
  <2>1. PICK at \in {"waiting", "running"} :
          turn' = [turn EXCEPT ![c] = Turn(at, a, turn[c].kind)]
    BY <1>1 DEF WakeInterrupts, Arrive
  <2>2. \A b \in Agents : loop'[b] = "paused" => loop[b] = "paused" \/ b = a
    BY <1>1 DEF WakeInterrupts, Typed, TypeOK
  <2>3. turn[c].at = "waking"
    BY <1>1 DEF WakeInterrupts
  <2> DEFINE t == Turn(at, a, turn[c].kind)
  <2>4. t.agent = a /\ t.at \in {"waiting", "running"}
    BY DEF Turn
  <2> HIDE DEF t
  <2> QED BY <2>1, <2>2, <2>3, <2>4, TurnReplaces DEF t
<1>2. CASE TurnReady(c) \/ TurnTimesOut(c)
  <2>1. /\ loop' = loop
        /\ turn' = [turn EXCEPT ![c] = Turn("running", turn[c].agent, turn[c].kind)]
    BY <1>2 DEF TurnReady, TurnTimesOut, Proceed, entryVars
  <2>2. \A d \in Clients : /\ turn'[d].agent = turn[d].agent
                           /\ turn[d].at \in {"waiting", "running"} =>
                                turn'[d].at \in {"waiting", "running"}
    BY <2>1 DEF Turn, Typed, TypeOK
  <2>3. ASSUME NEW a \in Agents, loop'[a] = "paused"
        PROVE  \E d \in Clients : turn'[d].agent = a /\ turn'[d].at \in {"waiting", "running"}
    <3>1. PICK d \in Clients : turn[d].agent = a /\ turn[d].at \in {"waiting", "running"}
      BY <2>1, <2>3 DEF PausedHasTurn
    <3> QED BY <2>2, <3>1
  <2> QED BY <2>3 DEF PausedHasTurn
<1>3. CASE TurnCompletes(c)
  <2> DEFINE a == turn[c].agent
  <2>1. a \in Agents /\ turn' = [turn EXCEPT ![c] = NoTurn]
    BY <1>3 DEF TurnCompletes, Typed, StepsHaveAgents
  <2>2. \A b \in Agents : loop'[b] = "paused" => loop[b] = "paused" /\ b # a
    BY <1>3, <2>1 DEF TurnCompletes, CompleteMessage, Resumed, Typed, TypeOK
  <2>3. ASSUME NEW b \in Agents, loop[b] = "paused", b # a
        PROVE  \E d \in Clients : turn'[d].agent = b /\ turn'[d].at \in {"waiting", "running"}
    <3>1. PICK d \in Clients : turn[d].agent = b /\ turn[d].at \in {"waiting", "running"}
      BY <2>3 DEF PausedHasTurn
    <3> QED BY <2>1, <2>3, <3>1 DEF Typed, TypeOK
  <2> QED BY <2>2, <2>3 DEF PausedHasTurn
<1>4. CASE TurnBreaksOff(c)
  <2> DEFINE a == turn[c].agent
  <2>1. a \in Agents /\ turn' = [turn EXCEPT ![c] = NoTurn]
    BY <1>4 DEF TurnBreaksOff, Typed, StepsHaveAgents
  <2>2. \A b \in Agents : loop'[b] = "paused" => loop[b] = "paused" /\ b # a
    BY <1>4, <2>1 DEF TurnBreaksOff, Left, Typed, TypeOK
  <2>3. ASSUME NEW b \in Agents, loop[b] = "paused", b # a
        PROVE  \E d \in Clients : turn'[d].agent = b /\ turn'[d].at \in {"waiting", "running"}
    <3>1. PICK d \in Clients : turn[d].agent = b /\ turn[d].at \in {"waiting", "running"}
      BY <2>3 DEF PausedHasTurn
    <3> QED BY <2>1, <2>3, <3>1 DEF Typed, TypeOK
  <2> QED BY <2>2, <2>3 DEF PausedHasTurn
<1> QED BY <1>1, <1>2, <1>3, <1>4, MessagePauses DEF TurnStep

(* Every step keeps it. *)
LEMMA PauseInvStep ==
  ASSUME PauseInv, [Next]_vars
  PROVE  PausedHasTurn'
<1> USE DEF PauseInv
<1>0. ASSUME turn' = turn, loop' = loop PROVE PausedHasTurn'
  BY <1>0, NoPauseNoEnd
<1>1. CASE HandleWakeRequest
  <2>1. Head(wakeReqs) \in Agents
    BY <1>1, TailElements DEF HandleWakeRequest, Typed, TypeOK
  <2>2. ASSUME NEW victim \in Conscious, Freeze(victim)
        PROVE  \A b \in Agents : loop'[b] = "paused" => loop[b] = "paused"
    BY <2>2 DEF Freeze, Conscious, Typed, TypeOK
  <2> QED BY <1>1, <2>1, <2>2, MakeConsciousNoPause, NoPauseNoEnd DEF HandleWakeRequest, entryVars
<1>2. CASE WakePreempting
  BY <1>2, MakeConsciousNoPause, NoPauseNoEnd DEF WakePreempting, WakeTarget, Typed, StepsHaveAgents
<1>3. CASE AssignFreeWorker
  BY <1>3, MakeConsciousNoPause, NoPauseNoEnd DEF AssignFreeWorker, Assignable
<1>4. CASE HandleStoppedLoops
  BY <1>4, NoPauseNoEnd DEF HandleStoppedLoops, Typed, TypeOK
<1>5. ASSUME NEW a \in Agents, LoopStep(a) PROVE PausedHasTurn'
  BY <1>5, NoPauseNoEnd DEF LoopStep, LoopSleeps, LoopEnds, OrphanEnds, Typed, TypeOK
<1>6. ASSUME NEW a \in Agents, ChannelMessage(a) \/ SleepSource(a) PROVE PausedHasTurn'
  <2>1. CASE SleepCommand(a)
    BY <2>1, NoPauseNoEnd DEF SleepCommand, Typed, TypeOK
  <2> QED BY <1>0, <1>6, <2>1 DEF ChannelMessage, SleepSource, AdminSleep, SleepTrigger, entryVars
<1>7. CASE SleepCompletes
  <2>1. current \in Agents
    BY <1>7 DEF SleepCompletes, SleepDone, Typed, StepsHaveAgents
  <2>2. turn' = turn /\ (loop' = loop \/ loop' = [loop EXCEPT ![current] = "none"])
    BY <1>7 DEF SleepCompletes, OnSleepComplete, entryVars
  <2> QED BY <2>1, <2>2, NoPauseNoEnd DEF Typed, TypeOK
<1>8. CASE WorkerStep \/ (\E a \in Agents : EnqueueStep(a)) \/ Circadian
  BY <1>0, <1>8 DEF WorkerStep, EnqueueStep, Circadian, entryVars
<1>9. ASSUME NEW a \in Agents, RouteStep(a) PROVE PausedHasTurn'
  <2>1. turn' = turn /\ (loop' = loop \/ loop' = [loop EXCEPT ![a] = "none"])
    BY <1>9 DEF RouteStep, PauseBegins, Freeze, PausePersists, PauseOffloads, Unpause, OpenAgent,
       EvictBegins, EvictEnds, Unregister, entryVars
  <2> QED BY <2>1, NoPauseNoEnd DEF Typed, TypeOK
<1>10. CASE Restart
  BY <1>10 DEF Restart, PausedHasTurn
<1>11. CASE UNCHANGED vars
  BY <1>0, <1>11 DEF vars, entryVars
<1> QED BY <1>1, <1>2, <1>3, <1>4, <1>5, <1>6, <1>7, <1>8, <1>9, <1>10, <1>11, TurnStepPauses
        DEF Next, Tick

(* A paused loop belongs to a turn that will resume it, or the last turn   *)
(* of its agent to end broke off, whatever wakes, preempts, puts to sleep, *)
(* pauses, evicts or restarts the agent meanwhile.                         *)
THEOREM PausedLoopsAreResumed == SafeSpec => []PausedHasTurn
<1>1. Init => PauseInv
  BY TypedInit DEF Init, PauseInv, PausedHasTurn
<1>2. PauseInv /\ [Next]_vars => PauseInv'
  BY PauseInvStep, TypedStep DEF PauseInv
<1>3. PauseInv => PausedHasTurn
  BY DEF PauseInv
<1> QED BY <1>1, <1>2, <1>3, PTL DEF SafeSpec

-----------------------------------------------------------------------------
(* No sleeping agent is forgotten but in the three ways the property       *)
(* names.                                                                  *)

(* A target of the tick loop is set to be woken. *)
TargetIsWoken == sched.at # "preempt" => sched.target = NoAgent

WakerInv == Typed /\ TargetIsWoken

(* After the step the agent has a waker, or is forgotten in a known way. *)
Remembered(a) ==
  \/ HasJob(a)' \/ WakeRequested(a)'
  \/ JobRaises(a) \/ SkippedWhileSyncing(a) \/ WokenWithoutRuntime(a)

(* The tick loop is at one thing at a time. *)
LEMMA TargetIsWokenStep ==
  ASSUME TargetIsWoken, [Next]_vars
  PROVE  TargetIsWoken'
<1> USE DEF TargetIsWoken
<1>1. ASSUME sched' = sched PROVE TargetIsWoken'
  BY <1>1
<1>2. CASE Tick
  BY <1>2 DEF Tick, HandleWakeRequest, WakePreempting, AssignFreeWorker, HandleStoppedLoops
<1>3. CASE WorkerStep \/ SleepCompletes \/ Circadian \/ Restart
  BY <1>3 DEF WorkerStep, SleepCompletes, Circadian, Restart
<1>4. ASSUME NEW c \in Clients, TurnStep(c) PROVE TargetIsWoken'
  BY <1>1, <1>4 DEF TurnStep, UserMessage, WakeInterrupts, TurnReady, TurnTimesOut, Proceed,
     TurnCompletes, TurnBreaksOff
<1>5. ASSUME NEW a \in Agents,
             EnqueueStep(a) \/ LoopStep(a) \/ ChannelMessage(a) \/ SleepSource(a)
      PROVE  TargetIsWoken'
  BY <1>1, <1>5 DEF EnqueueStep, LoopStep, LoopSleeps, LoopEnds, OrphanEnds, ChannelMessage,
     SleepSource, SleepCommand, AdminSleep, SleepTrigger
<1>6. ASSUME NEW a \in Agents, RouteStep(a) PROVE TargetIsWoken'
  BY <1>1, <1>6 DEF RouteStep, PauseBegins, PausePersists, PauseOffloads, OpenAgent, EvictBegins,
     EvictEnds, Unpause
<1>7. CASE UNCHANGED vars
  BY <1>1, <1>7 DEF vars
<1> QED BY <1>2, <1>3, <1>4, <1>5, <1>6, <1>7 DEF Next

(* What keeps the jobs and the wake requests of a sleeper keeps it         *)
(* remembered.                                                             *)
LEMMA WakerStays ==
  ASSUME NEW a \in Agents, ~Forgotten(a), state[a] = "sleeping",
         HasJob(a) => HasJob(a)', WakeRequested(a) => WakeRequested(a)'
  PROVE  Remembered(a)
  BY DEF Forgotten, Remembered

(* Who is woken with a runtime does not sleep any more, and nobody else    *)
(* falls asleep.                                                           *)
LEMMA WakingWakes ==
  ASSUME WakerInv, NEW a \in Agents, MakeConscious(a)
  PROVE  /\ state'[a] = "sleeping" => WokenWithoutRuntime(a)
         /\ \A b \in Agents \ {a} : state'[b] = state[b]
  BY DEF WakerInv, Typed, TypeOK, MakeConscious, WokenWithoutRuntime, entryVars

(* A job of another agent stays when one is withdrawn. *)
LEMMA DequeueKeepsJobs ==
  ASSUME WakerInv, NEW a \in Agents, Dequeue(a),
         UNCHANGED <<current, phase, pending>>,
         NEW b \in Agents, b # a, HasJob(b)
  PROVE  HasJob(b)'
<1>1. CASE InQueue(b)
  <2>1. PICK i \in 1..Len(queue) : queue[i] = a /\ queue' = RemoveAt(queue, i)
    BY DequeueRemoves DEF WakerInv, Typed, TypeOK, SleepTypeOK
  <2>2. queue \in Seq(Agents)
    BY DEF WakerInv, Typed, TypeOK, SleepTypeOK
  <2> QED BY <1>1, <2>1, <2>2, RemoveAtKeepsOthers DEF InQueue, HasJob
<1> QED BY <1>1 DEF HasJob

(* enqueue loses no job, and leaves its agent with one unless it is skipped *)
(* as a duplicate of a job that is about to end.                            *)
LEMMA EnqueueKeepsJobs ==
  ASSUME WakerInv, NEW a \in Agents, Enqueue(a), UNCHANGED <<current, phase>>
  PROVE  /\ HasJob(a)' \/ (current = a /\ phase = "syncing")
         /\ \A b \in Agents : InQueue(b) => InQueue(b)'
<1>1. queue \in Seq(Agents)
  BY DEF WakerInv, Typed, TypeOK, SleepTypeOK
<1>2. CASE IsQueued(a)
  BY <1>1, <1>2 DEF Enqueue, IsQueued, IsTraining, InQueue, HasJob
<1>3. CASE ~IsQueued(a)
  BY <1>1, <1>3, AppendRange DEF Enqueue, InQueue, HasJob
<1> QED BY <1>2, <1>3

(* The worker moves jobs and ends none but through on_sleep_done, unless   *)
(* consolidation raises.                                                   *)
LEMMA WorkerKeepsEveryJob ==
  ASSUME WakerInv, Worker, NEW a \in Agents, HasJob(a)
  PROVE  HasJob(a)' \/ JobRaises(a)
<1> USE SleepAssumption DEF WakerInv, HasJob
<1>1. queue \in Seq(Agents)
  BY DEF Typed, TypeOK, SleepTypeOK
<1>2. CASE TakeJob
  <2>1. queue # <<>> /\ queue' = Tail(queue) /\ pending' = pending /\ current = NoAgent
    BY <1>2 DEF TakeJob
  <2>3. ASSUME a = Head(queue) PROVE HasJob(a)'
    BY <1>2, <2>3 DEF TakeJob, StartJob
  <2>4. ASSUME a \in Range(queue), a # Head(queue) PROVE HasJob(a)'
    BY <1>1, <2>1, <2>4, TailKeepsOthers DEF InQueue
  <2> QED BY <2>1, <2>3, <2>4 DEF InQueue
<1>3. CASE BeginSleep \/ SkipCycle \/ WakeAns \/ NextCycle
  BY <1>3 DEF BeginSleep, SkipCycle, WakeAns, NextCycle, InQueue
<1>4. CASE FinishSync
  BY <1>4 DEF FinishSync, InQueue
<1>5. CASE ConsolidationRaises
  BY <1>5 DEF ConsolidationRaises, GiveUpJob, JobRaises, InQueue
<1> QED BY <1>2, <1>3, <1>4, <1>5 DEF Worker

(* The tick loop forgets nobody who has a runtime: who is chosen is woken, *)
(* or is the target of the preemption that makes room for it.              *)
LEMMA TickWaker ==
  ASSUME WakerInv, Tick, NEW a \in Agents, state'[a] = "sleeping", ~Forgotten(a)
  PROVE  Remembered(a)
<1> USE SleepAssumption
<1>0. WokenWithoutRuntime(a) => Remembered(a)
  BY DEF Remembered
<1>1. CASE HandleWakeRequest
  <2> DEFINE h == Head(wakeReqs)
  <2>1. /\ wakeReqs \in Seq(Agents) /\ wakeReqs # <<>> /\ h \in Agents
        /\ wakeReqs' = Tail(wakeReqs) /\ sched.target = NoAgent
    BY <1>1, TailElements DEF HandleWakeRequest, WakerInv, TargetIsWoken, Typed, TypeOK
  <2>2. HasJob(a) => HasJob(a)'
    BY <1>1 DEF HandleWakeRequest, HasJob, InQueue, sleepVars
  <2>3. ASSUME a # h, state[a] = "sleeping" PROVE Remembered(a)
    <3>1. WakeRequested(a) => WakeRequested(a)'
      BY <2>1, <2>3, TailKeepsOthers DEF WakeRequested
    <3> QED BY <2>2, <2>3, <3>1, WakerStays
  <2>4. CASE state[h] \in {"unregistered", "conscious"} /\ UNCHANGED <<entryVars, sched>>
    BY <2>3, <2>4 DEF entryVars
  <2>5. CASE MakeConscious(h)
    BY <1>0, <2>1, <2>3, <2>5, WakingWakes
  <2>6. ASSUME NEW victim \in Conscious, Freeze(victim),
               sched' = [at |-> "preempt", target |-> h]
        PROVE  Remembered(a)
    <3>1. a = h => Remembered(a)
      BY <2>6 DEF WakeRequested, Remembered
    <3>2. state[a] = "sleeping"
      BY <2>6 DEF Freeze, Conscious, WakerInv, Typed, TypeOK
    <3> QED BY <2>3, <3>1, <3>2
  <2> QED BY <1>1, <2>4, <2>5, <2>6 DEF HandleWakeRequest
<1>2. CASE WakePreempting
  <2>1. sched.target \in Agents /\ MakeConscious(sched.target)
    BY <1>2 DEF WakePreempting, WakeTarget, WakerInv, Typed, StepsHaveAgents
  <2>2. ASSUME a # sched.target PROVE Remembered(a)
    <3>1. state[a] = "sleeping"
      BY <2>1, <2>2, WakingWakes
    <3>2. HasJob(a) => HasJob(a)'
      BY <1>2 DEF WakePreempting, HasJob, InQueue, sleepVars
    <3>3. WakeRequested(a) => WakeRequested(a)'
      BY <1>2, <2>2 DEF WakePreempting, WakeRequested
    <3> QED BY <3>1, <3>2, <3>3, WakerStays
  <2> QED BY <1>0, <2>1, <2>2, WakingWakes
<1>3. CASE AssignFreeWorker
  <2>1. PICK b \in Assignable : MakeConscious(b)
    BY <1>3 DEF AssignFreeWorker
  <2>2. b \in Agents
    BY DEF Assignable
  <2>3. ASSUME state[a] = "sleeping" PROVE Remembered(a)
    <3>1. HasJob(a) => HasJob(a)'
      BY <1>3 DEF AssignFreeWorker, HasJob, InQueue, sleepVars
    <3>2. WakeRequested(a) => WakeRequested(a)'
      BY <1>3 DEF AssignFreeWorker, PastWakeRequests, WakeRequested, WakerInv, TargetIsWoken
    <3> QED BY <2>3, <3>1, <3>2, WakerStays
  <2> QED BY <1>0, <2>1, <2>2, <2>3, WakingWakes
<1>4. CASE HandleStoppedLoops
  <2>1. a \in pending' \/ state[a] = "sleeping"
    BY <1>4 DEF HandleStoppedLoops, EnqueueSync
  <2>2. HasJob(a) => HasJob(a)'
    BY <1>4 DEF HandleStoppedLoops, EnqueueSync, HasJob, InQueue, jobVars
  <2>3. WakeRequested(a) => WakeRequested(a)'
    BY <1>4 DEF HandleStoppedLoops, PastWakeRequests, WakeRequested, WakerInv, TargetIsWoken
  <2>4. a \in pending' => Remembered(a)
    BY DEF HasJob, Remembered
  <2> QED BY <2>1, <2>2, <2>3, <2>4, WakerStays
<1> QED BY <1>1, <1>2, <1>3, <1>4 DEF Tick

(* A message forgets nobody who has a runtime: whose job it withdraws, it  *)
(* wakes.                                                                  *)
LEMMA MessageWaker ==
  ASSUME WakerInv, NEW c \in Clients, NEW b \in Agents,
         NEW kind \in {"chat", "channel"}, UserMessage(c, b, kind),
         NEW a \in Agents, state'[a] = "sleeping", ~Forgotten(a)
  PROVE  Remembered(a)
<1>1. CASE MessageQueued(c, b, kind)
  <2>1. MakeConscious(b) /\ Dequeue(b) /\ UNCHANGED <<current, phase, pending>>
    BY <1>1 DEF MessageQueued, jobVars
  <2>2. ASSUME a # b PROVE Remembered(a)
    <3>1. state[a] = "sleeping"
      BY <2>1, <2>2, WakingWakes
    <3>2. HasJob(a) => HasJob(a)'
      BY <2>1, <2>2, DequeueKeepsJobs
    <3>3. WakeRequested(a) => WakeRequested(a)'
      BY <1>1 DEF UserMessage, MessageQueued, WakeRequested
    <3> QED BY <3>1, <3>2, <3>3, WakerStays
  <2>3. ASSUME a = b PROVE Remembered(a)
    BY <2>1, <2>3, WakingWakes DEF Remembered
  <2> QED BY <2>2, <2>3
<1>2. CASE MessageFrozen(c, b, kind)
  <2>1. state[a] = "sleeping"
    BY <1>2 DEF MessageFrozen, Register, WakerInv, Typed, TypeOK
  <2>2. HasJob(a) => HasJob(a)'
    BY <1>2 DEF MessageFrozen, HasJob, InQueue, sleepVars
  <2>3. WakeRequested(a) => WakeRequested(a)'
    BY <1>2, AppendRange DEF UserMessage, MessageFrozen, WakeRequested, WakerInv, Typed, TypeOK
  <2> QED BY <2>1, <2>2, <2>3, WakerStays
<1>3. CASE MessageConscious(c, b, kind) \/ MessageTraining(c, b, kind)
  <2>1. UNCHANGED <<sleepVars, state, wakeReqs, sched>>
    BY <1>3 DEF UserMessage, MessageConscious, MessageTraining, entryVars
  <2>2. HasJob(a) => HasJob(a)'
    BY <2>1 DEF HasJob, InQueue, sleepVars
  <2>3. WakeRequested(a) => WakeRequested(a)'
    BY <2>1 DEF WakeRequested
  <2> QED BY <2>1, <2>2, <2>3, WakerStays
<1> QED BY <1>1, <1>2, <1>3 DEF UserMessage

(* A channel message forgets nobody: it leaves a wake request for the      *)
(* agent whose job it withdraws.                                           *)
LEMMA ChannelWaker ==
  ASSUME WakerInv, NEW b \in Agents, ChannelMessage(b),
         NEW a \in Agents, state'[a] = "sleeping", ~Forgotten(a)
  PROVE  Remembered(a)
<1>1. wakeReqs \in Seq(Agents) /\ wakeReqs' = Append(wakeReqs, b)
  BY DEF ChannelMessage, WakerInv, Typed, TypeOK
<1>2. CASE a = b
  BY <1>1, <1>2, AppendRange DEF WakeRequested, Remembered
<1>3. CASE a # b
  <2>1. state[a] = "sleeping"
    BY <1>3 DEF ChannelMessage, Register, WakerInv, Typed, TypeOK
  <2>2. HasJob(a) => HasJob(a)'
    <3>1. UNCHANGED <<current, phase, pending>> /\ (Dequeue(b) \/ queue' = queue)
      BY DEF ChannelMessage, jobVars
    <3> QED BY <1>3, <3>1, DequeueKeepsJobs DEF HasJob, InQueue
  <2>3. WakeRequested(a) => WakeRequested(a)'
    BY <1>1, AppendRange DEF ChannelMessage, WakeRequested
  <2> QED BY <2>1, <2>2, <2>3, WakerStays
<1> QED BY <1>2, <1>3

(* The end of a job wakes its agent and ends no other job. *)
LEMMA CompletionWaker ==
  ASSUME WakerInv, SleepCompletes, NEW a \in Agents, state'[a] = "sleeping", ~Forgotten(a)
  PROVE  Remembered(a)
<1>1. current \in Agents /\ OnSleepComplete(current)
  BY DEF SleepCompletes, SleepDone, WakerInv, Typed, StepsHaveAgents
<1>2. a # current /\ state[a] = "sleeping"
  BY <1>1 DEF OnSleepComplete, entryVars, WakerInv, Typed, TypeOK
<1>3. HasJob(a) => HasJob(a)'
  BY <1>2 DEF SleepCompletes, SleepDone, HasJob, InQueue
<1>4. WakeRequested(a) => WakeRequested(a)'
  BY DEF SleepCompletes, WakeRequested
<1> QED BY <1>2, <1>3, <1>4, WakerStays

(* A job that is enqueued is not lost unless it is skipped. *)
LEMMA EnqueueWaker ==
  ASSUME WakerInv, NEW b \in Agents, EnqueueStep(b) \/ SleepSource(b),
         NEW a \in Agents, state'[a] = "sleeping", ~Forgotten(a)
  PROVE  Remembered(a)
<1>1. /\ state' = state /\ (WakeRequested(a) => WakeRequested(a)')
      /\ UNCHANGED <<current, phase>>
  BY DEF EnqueueStep, EnqueueRuns, SleepSource, SleepCommand, AdminSleep, SleepTrigger,
     entryVars, jobVars, WakeRequested
<1>2. \/ Enqueue(b) /\ pending' = pending
      \/ Enqueue(b) /\ b \in pending /\ pending' = pending \ {b}
      \/ queue' = queue /\ pending' = pending \cup {b}
  BY DEF EnqueueStep, EnqueueRuns, SleepSource, SleepCommand, AdminSleep, SleepTrigger,
     EnqueueSync
<1>3. CASE Enqueue(b) /\ pending' = pending
  <2>1. HasJob(a) => HasJob(a)'
    BY <1>1, <1>3, EnqueueKeepsJobs DEF HasJob
  <2> QED BY <1>1, <2>1, WakerStays
<1>4. CASE Enqueue(b) /\ b \in pending /\ pending' = pending \ {b}
  <2>1. HasJob(b)' \/ (current = b /\ phase = "syncing")
    BY <1>1, <1>4, EnqueueKeepsJobs
  <2>2. CASE a = b
    BY <1>4, <2>1, <2>2 DEF Remembered, SkippedWhileSyncing
  <2>3. CASE a # b
    <3>1. HasJob(a) => HasJob(a)'
      BY <1>1, <1>4, <2>3, EnqueueKeepsJobs DEF HasJob
    <3> QED BY <1>1, <3>1, WakerStays
  <2> QED BY <2>2, <2>3
<1>5. CASE queue' = queue /\ pending' = pending \cup {b}
  <2>1. HasJob(a) => HasJob(a)'
    BY <1>1, <1>5 DEF HasJob, InQueue
  <2> QED BY <1>1, <2>1, WakerStays
<1> QED BY <1>2, <1>3, <1>4, <1>5

(* Every step keeps somebody to wake each sleeper, or forgets it in a      *)
(* known way.                                                              *)
LEMMA WakerStep ==
  ASSUME WakerInv, [Next]_vars, NEW a \in Agents, state'[a] = "sleeping", ~Forgotten(a)
  PROVE  Remembered(a)
<1>0. ASSUME state[a] = "sleeping", UNCHANGED <<queue, current, phase, pending, wakeReqs, sched>>
      PROVE  Remembered(a)
  BY <1>0, WakerStays DEF HasJob, InQueue, WakeRequested
<1>1. CASE Tick
  BY <1>1, TickWaker
<1>2. CASE WorkerStep
  <2>1. Worker /\ state' = state /\ (WakeRequested(a) => WakeRequested(a)')
    BY <1>2 DEF WorkerStep, entryVars, WakeRequested
  <2>2. JobRaises(a) => Remembered(a)
    BY DEF Remembered
  <2> QED BY <2>1, <2>2, WorkerKeepsEveryJob, WakerStays
<1>3. CASE SleepCompletes
  BY <1>3, CompletionWaker
<1>4. ASSUME NEW b \in Agents, EnqueueStep(b) \/ SleepSource(b) PROVE Remembered(a)
  BY <1>4, EnqueueWaker
<1>5. ASSUME NEW c \in Clients, TurnStep(c) PROVE Remembered(a)
  <2>1. ASSUME NEW b \in Agents, NEW kind \in {"chat", "channel"}, UserMessage(c, b, kind)
        PROVE  Remembered(a)
    BY <2>1, MessageWaker
  <2>2. CASE WakeInterrupts(c) \/ TurnReady(c) \/ TurnTimesOut(c) \/ TurnCompletes(c) \/ TurnBreaksOff(c)
    BY <1>0, <2>2 DEF WakeInterrupts, TurnReady, TurnTimesOut, Proceed, TurnCompletes, TurnBreaksOff,
       entryVars, sleepVars
  <2> QED BY <1>5, <2>1, <2>2 DEF TurnStep
<1>6. ASSUME NEW b \in Agents, LoopStep(b) PROVE Remembered(a)
  BY <1>0, <1>6 DEF LoopStep, LoopSleeps, LoopEnds, OrphanEnds, sleepVars
<1>7. ASSUME NEW b \in Agents, RouteStep(b) PROVE Remembered(a)
  <2>1. UNCHANGED <<queue, current, phase, pending, wakeReqs, sched>>
    BY <1>7 DEF RouteStep, PauseBegins, PausePersists, PauseOffloads, Unpause, OpenAgent, LoadAgent,
       EvictBegins, EvictEnds, sleepVars, jobVars
  <2>2. state' = state \/ \E v \in States \ {"sleeping"} : state' = [state EXCEPT ![b] = v]
    BY <1>7 DEF RouteStep, PauseBegins, Freeze, PausePersists, PauseOffloads, Unpause, OpenAgent,
       Register, EvictBegins, EvictEnds, Unregister, entryVars, States
  <2>3. state[a] = "sleeping"
    BY <2>2 DEF WakerInv, Typed, TypeOK
  <2> QED BY <1>0, <2>1, <2>3
<1>8. CASE Circadian
  BY <1>0, <1>8 DEF Circadian, entryVars, sleepVars
<1>9. CASE Restart
  BY <1>9 DEF Restart
<1>10. CASE UNCHANGED vars
  BY <1>0, <1>10 DEF vars, entryVars, sleepVars
<1>11. ASSUME NEW b \in Agents, ChannelMessage(b) PROVE Remembered(a)
  BY <1>11, ChannelWaker
<1> QED BY <1>1, <1>2, <1>3, <1>4, <1>5, <1>6, <1>7, <1>8, <1>9, <1>10, <1>11 DEF Next

(* A sleeping agent keeps a job that will reach on_sleep_done or a wake    *)
(* request on its way, whatever is withdrawn, skipped, preempted, paused   *)
(* or evicted: only a consolidation that raises, a job skipped while the   *)
(* last one is posted, and a wake without a runtime forget it.             *)
THEOREM SleepersAreRemembered == SafeSpec => SleepersAreNotForgottenOtherwise
<1> DEFINE Step == \A a \in Agents : Forgotten(a)' =>
              Forgotten(a) \/ JobRaises(a) \/ SkippedWhileSyncing(a) \/ WokenWithoutRuntime(a)
<1>1. Init => WakerInv
  BY TypedInit DEF Init, WakerInv, TargetIsWoken
<1>2. WakerInv /\ [Next]_vars => WakerInv'
  BY TypedStep, TargetIsWokenStep DEF WakerInv
<1>3. ASSUME WakerInv, [Next]_vars PROVE Step
  <2>1. SUFFICES ASSUME NEW a \in Agents, Forgotten(a)', ~Forgotten(a)
                 PROVE  JobRaises(a) \/ SkippedWhileSyncing(a) \/ WokenWithoutRuntime(a)
    OBVIOUS
  <2>2. state'[a] = "sleeping" /\ ~HasJob(a)' /\ ~WakeRequested(a)'
    BY <2>1 DEF Forgotten
  <2>3. Remembered(a)
    BY <1>3, <2>1, <2>2, WakerStep
  <2> QED BY <2>2, <2>3 DEF Remembered
<1>4. WakerInv /\ [Next]_vars => [Step]_vars
  BY <1>3
<1> QED BY <1>1, <1>2, <1>4, PTL DEF SafeSpec, SleepersAreNotForgottenOtherwise

-----------------------------------------------------------------------------
(* Consolidation leaves no ANS asleep behind it, unless it raises.         *)

TraineeInv == Typed /\ OnlyTraineeAsleep

(* The worker wakes the ANS it put to sleep before it gives the job up. *)
LEMMA WorkerWakesAns ==
  ASSUME ~ConsolidationMayRaise, TraineeInv, Worker \/ SleepDone
  PROVE  OnlyTraineeAsleep'
<1> USE SleepAssumption DEF TraineeInv, OnlyTraineeAsleep, jobVars
<1>1. phase # "idle" => current \in Agents
  BY DEF Typed, StepsHaveAgents
<1>2. CASE TakeJob
  BY <1>1, <1>2 DEF TakeJob, StartJob, Typed, TypeOK, SleepTypeOK
<1>3. CASE BeginSleep \/ SkipCycle \/ WakeAns \/ NextCycle
  BY <1>1, <1>3 DEF BeginSleep, SkipCycle, WakeAns, AnsWoken, NextCycle
<1>4. CASE SleepDone \/ FinishSync
  BY <1>1, <1>4 DEF SleepDone, FinishSync, GiveUpJob
<1> QED BY <1>2, <1>3, <1>4 DEF Worker, ConsolidationRaises

(* Everything else leaves the job alone, but for a load, which brings an   *)
(* ANS that is awake, and a restart.                                       *)
LEMMA TraineeInvStep ==
  ASSUME ~ConsolidationMayRaise, TraineeInv, [Next]_vars
  PROVE  OnlyTraineeAsleep'
<1>0. ASSUME UNCHANGED jobVars, ansAsleep' \subseteq ansAsleep PROVE OnlyTraineeAsleep'
  BY <1>0 DEF TraineeInv, OnlyTraineeAsleep, jobVars
<1>1. CASE Tick
  BY <1>0, <1>1 DEF Tick, HandleWakeRequest, WakePreempting, AssignFreeWorker, HandleStoppedLoops,
     sleepVars, jobVars
<1>2. CASE WorkerStep \/ SleepCompletes
  BY <1>2, WorkerWakesAns DEF WorkerStep, SleepCompletes
<1>3. ASSUME NEW c \in Clients, TurnStep(c) PROVE OnlyTraineeAsleep'
  BY <1>0, <1>3 DEF TurnStep, UserMessage, MessageConscious, MessageQueued, MessageTraining,
     MessageFrozen, WakeInterrupts, TurnReady, TurnTimesOut, Proceed, TurnCompletes,
     TurnBreaksOff, sleepVars, jobVars
<1>4. ASSUME NEW a \in Agents,
             EnqueueStep(a) \/ LoopStep(a) \/ ChannelMessage(a) \/ SleepSource(a)
      PROVE  OnlyTraineeAsleep'
  BY <1>0, <1>4 DEF EnqueueStep, EnqueueRuns, LoopStep, LoopSleeps, LoopEnds, OrphanEnds,
     ChannelMessage, SleepSource, SleepCommand, AdminSleep, SleepTrigger, sleepVars, jobVars
<1>5. ASSUME NEW a \in Agents, RouteStep(a) PROVE OnlyTraineeAsleep'
  BY <1>0, <1>5 DEF RouteStep, PauseBegins, PausePersists, PauseOffloads, OpenAgent, LoadAgent,
     EvictBegins, EvictEnds, Unpause, sleepVars, jobVars
<1>6. CASE Circadian \/ UNCHANGED vars
  BY <1>0, <1>6 DEF Circadian, vars, sleepVars, jobVars
<1>7. CASE Restart
  BY <1>7 DEF Restart, OnlyTraineeAsleep
<1> QED BY <1>1, <1>2, <1>3, <1>4, <1>5, <1>6, <1>7 DEF Next

(* If consolidation does not raise, an agent whose ANS sleeps is the one   *)
(* in consolidation: evicting or loading it again meanwhile, or starting a *)
(* further cycle, leaves no agent asleep behind it.                        *)
THEOREM NobodyIsLeftAsleep ==
  ~ConsolidationMayRaise => (SafeSpec => []OnlyTraineeAsleep)
<1> SUFFICES ASSUME ~ConsolidationMayRaise PROVE SafeSpec => []OnlyTraineeAsleep
  OBVIOUS
<1>1. Init => TraineeInv
  BY TypedInit DEF Init, SleepInit, TraineeInv, OnlyTraineeAsleep
<1>2. TraineeInv /\ [Next]_vars => TraineeInv'
  BY TypedStep, TraineeInvStep DEF TraineeInv
<1>3. TraineeInv => OnlyTraineeAsleep
  BY DEF TraineeInv
<1> QED BY <1>1, <1>2, <1>3, PTL DEF SafeSpec

-----------------------------------------------------------------------------
(* Capacity.  Every step but a message that withdraws a sleep job leaves   *)
(* as many loops committed as there were, or no more than max_conscious.   *)

(* The sets whose sizes are compared are finite. *)
LEMMA CommittedIsFinite ==
  ASSUME NEW S \in SUBSET Agents
  PROVE  IsFiniteSet(S) /\ Cardinality(S) \in Nat
  BY SchedulerAssumption, FS_Subset, FS_CardinalityType

(* A smaller set of agents has no more members. *)
LEMMA FewerCommitted ==
  ASSUME NEW T \in SUBSET Agents, NEW S \in SUBSET T
  PROVE  Cardinality(S) <= Cardinality(T)
  BY CommittedIsFinite, FS_Subset

(* One agent more fits while a slot is free. *)
LEMMA OneMoreFits ==
  ASSUME NEW T \in SUBSET Agents, Cardinality(T) < MaxConscious,
         NEW a \in Agents, NEW S \in SUBSET (T \cup {a})
  PROVE  Cardinality(S) <= MaxConscious
<1>1. Cardinality(T \cup {a}) <= Cardinality(T) + 1
  BY CommittedIsFinite, FS_AddElement
<1>2. Cardinality(S) <= Cardinality(T \cup {a})
  BY FewerCommitted
<1>3. /\ Cardinality(T) \in Nat /\ Cardinality(T \cup {a}) \in Nat
      /\ Cardinality(S) \in Nat /\ MaxConscious \in Nat
  BY CommittedIsFinite, SchedulerAssumption
<1> QED BY <1>1, <1>2, <1>3

(* Who takes the place of a member adds nothing. *)
LEMMA ReplacingAddsNone ==
  ASSUME NEW T \in SUBSET Agents, NEW v \in T, NEW a \in Agents,
         NEW S \in SUBSET ((T \ {v}) \cup {a})
  PROVE  Cardinality(S) <= Cardinality(T)
<1>1. Cardinality(T \ {v}) = Cardinality(T) - 1
  BY CommittedIsFinite, FS_RemoveElement
<1>2. Cardinality((T \ {v}) \cup {a}) <= Cardinality(T \ {v}) + 1
  BY CommittedIsFinite, FS_AddElement
<1>3. Cardinality(S) <= Cardinality((T \ {v}) \cup {a})
  BY FewerCommitted
<1>4. /\ Cardinality(T) \in Nat /\ Cardinality(T \ {v}) \in Nat
      /\ Cardinality((T \ {v}) \cup {a}) \in Nat /\ Cardinality(S) \in Nat
  BY CommittedIsFinite
<1> QED BY <1>1, <1>2, <1>3, <1>4

(* Nobody but the agent that is woken becomes conscious. *)
LEMMA WakingAddsOne ==
  ASSUME Typed, NEW a \in Agents, MakeConscious(a)
  PROVE  Conscious' \subseteq Conscious \cup {a}
  BY DEF MakeConscious, entryVars, Conscious, Typed, TypeOK

(* A freeze takes its victim out. *)
LEMMA FreezingTakesOut ==
  ASSUME Typed, NEW a \in Agents, Freeze(a)
  PROVE  Conscious' \subseteq Conscious \ {a}
  BY DEF Freeze, Conscious, Typed, TypeOK

(* A new entry begins frozen. *)
LEMMA RegisteringAddsNone ==
  ASSUME Typed, NEW a \in Agents, NEW R, Register(a, R)
  PROVE  Conscious' \subseteq Conscious
  BY DEF Register, Conscious, Typed, TypeOK

(* The tick loop: a free slot is filled, or a victim makes room. *)
LEMMA TickCommits ==
  ASSUME Typed, Tick
  PROVE  \/ Cardinality(Committed') <= MaxConscious
         \/ Cardinality(Committed') <= Cardinality(Committed)
<1>0. ASSUME Committed' \subseteq Committed
      PROVE  Cardinality(Committed') <= Cardinality(Committed)
  BY <1>0, FewerCommitted DEF Committed, Conscious
<1>1. ASSUME NEW a \in Agents, MakeConscious(a), HasCapacity, sched'.at # "preempt"
      PROVE  Cardinality(Committed') <= MaxConscious
  <2>1. Committed' \subseteq Conscious \cup {a}
    BY <1>1, WakingAddsOne DEF Committed
  <2> QED BY <1>1, <2>1, OneMoreFits DEF HasCapacity, Conscious
<1>2. CASE HandleWakeRequest
  <2> DEFINE h == Head(wakeReqs)
  <2>1. sched.at = "wake" /\ h \in Agents
    BY <1>2, TailElements DEF HandleWakeRequest, Typed, TypeOK
  <2>2. CASE UNCHANGED <<entryVars, sched>>
    BY <1>0, <2>2 DEF entryVars, Committed, Conscious
  <2>3. CASE HasCapacity /\ MakeConscious(h) /\ UNCHANGED sched
    BY <1>1, <2>1, <2>3
  <2>4. ASSUME NEW victim \in Conscious, Freeze(victim),
               sched' = [at |-> "preempt", target |-> h]
        PROVE  Cardinality(Committed') <= Cardinality(Committed)
    <3>1. Committed = Conscious /\ Conscious \subseteq Agents
      BY <2>1 DEF Committed, Conscious
    <3>2. Conscious' \subseteq Conscious \ {victim}
      BY <2>4, <3>1, FreezingTakesOut
    <3>3. Committed' \subseteq (Conscious \ {victim}) \cup {h}
      BY <2>4, <3>2 DEF Committed
    <3> QED BY <2>1, <3>1, <3>3, ReplacingAddsNone
  <2> QED BY <1>2, <2>2, <2>3, <2>4 DEF HandleWakeRequest
<1>3. CASE WakePreempting
  <2>1. /\ sched.at = "preempt" /\ sched.target \in Agents /\ MakeConscious(sched.target)
        /\ sched'.at = "wake"
    BY <1>3 DEF WakePreempting, WakeTarget, Typed, StepsHaveAgents
  <2>2. Committed = Conscious \cup {sched.target}
    BY <2>1 DEF Committed
  <2>3. Committed' = Conscious'
    BY <2>1 DEF Committed
  <2> QED BY <1>0, <2>1, <2>2, <2>3, WakingAddsOne
<1>4. CASE AssignFreeWorker
  BY <1>1, <1>4 DEF AssignFreeWorker, Assignable
<1>5. CASE HandleStoppedLoops
  <2>1. Conscious' \subseteq Conscious /\ sched'.at = "wake"
    BY <1>5 DEF HandleStoppedLoops, Conscious, Typed, TypeOK
  <2> QED BY <1>0, <2>1 DEF Committed
<1> QED BY <1>2, <1>3, <1>4, <1>5 DEF Tick

(* max_conscious is only ever exceeded by a message that takes an agent    *)
(* out of the sleep queue: assignments and wake requests respect it, and a *)
(* preemption, whose target waits through an await for the slot its victim *)
(* left, never adds to an excess.                                          *)
THEOREM CapacityIsKept == SafeSpec => OnlyQueuedSleepersOvercommit
<1> DEFINE Step == \/ Cardinality(Committed') <= MaxConscious
                   \/ Cardinality(Committed') <= Cardinality(Committed)
                   \/ \E c \in Clients : turn[c].at = "idle" /\ turn'[c].at = "waking"
<1>1. ASSUME Typed, [Next]_vars PROVE Step
  <2> USE <1>1
  <2>0. ASSUME Conscious' \subseteq Conscious, sched' = sched PROVE Step
    <3>1. Committed' \subseteq Committed /\ Committed \subseteq Agents
      BY <2>0 DEF Committed, Conscious
    <3> QED BY <3>1, FewerCommitted
  <2>1. ASSUME UNCHANGED <<state, sched>> PROVE Step
    BY <2>0, <2>1 DEF Conscious
  <2>2. CASE Tick
    BY <2>2, TickCommits
  <2>3. CASE WorkerStep \/ (\E a \in Agents : EnqueueStep(a) \/ LoopStep(a) \/ SleepSource(a))
             \/ Circadian
    BY <2>1, <2>3 DEF WorkerStep, EnqueueStep, LoopStep, LoopSleeps, LoopEnds, OrphanEnds,
       SleepSource, SleepCommand, AdminSleep, SleepTrigger, Circadian, entryVars
  <2>4. CASE SleepCompletes
    <3>1. current \in Agents /\ OnSleepComplete(current) /\ sched' = sched
      BY <2>4 DEF SleepCompletes, SleepDone, Typed, StepsHaveAgents
    <3>2. Conscious' \subseteq Conscious
      BY <3>1 DEF OnSleepComplete, entryVars, Conscious, Typed, TypeOK
    <3> QED BY <2>0, <3>1, <3>2
  <2>5. ASSUME NEW c \in Clients, NEW a \in Agents, NEW kind \in {"chat", "channel"},
               UserMessage(c, a, kind)
        PROVE  Step
    <3>1. CASE MessageConscious(c, a, kind) \/ MessageTraining(c, a, kind)
      BY <2>1, <2>5, <3>1 DEF UserMessage, MessageConscious, MessageTraining, entryVars
    <3>2. CASE MessageQueued(c, a, kind)
      <4>1. turn[c].at = "idle" /\ turn'[c].at = "waking"
        BY <2>5, <3>2 DEF UserMessage, MessageQueued, Turn, Typed, TypeOK
      <4> QED BY <4>1
    <3>3. CASE MessageFrozen(c, a, kind)
      <4>1. sched' = sched /\ (Register(a, loaded) \/ state' = state)
        BY <2>5, <3>3 DEF UserMessage, MessageFrozen
      <4> QED BY <2>0, <2>1, <4>1, RegisteringAddsNone
    <3> QED BY <2>5, <3>1, <3>2, <3>3 DEF UserMessage
  <2>6. ASSUME NEW c \in Clients, TurnStep(c) PROVE Step
    <3>1. CASE \E a \in Agents, kind \in {"chat", "channel"} : UserMessage(c, a, kind)
      BY <2>5, <3>1
    <3>2. CASE \/ WakeInterrupts(c) \/ TurnReady(c) \/ TurnTimesOut(c) \/ TurnCompletes(c)
               \/ TurnBreaksOff(c)
      BY <2>1, <3>2 DEF WakeInterrupts, TurnReady, TurnTimesOut, Proceed, TurnCompletes,
         TurnBreaksOff, entryVars
    <3> QED BY <2>6, <3>1, <3>2 DEF TurnStep
  <2>7. ASSUME NEW a \in Agents, ChannelMessage(a) PROVE Step
    <3>1. sched' = sched /\ (Register(a, loaded) \/ state' = state)
      BY <2>7 DEF ChannelMessage
    <3> QED BY <2>0, <2>1, <3>1, RegisteringAddsNone
  <2>8. ASSUME NEW a \in Agents, RouteStep(a) PROVE Step
    <3>1. CASE PauseBegins(a)
      <4>1. sched' = sched /\ (Freeze(a) \/ state' = state)
        BY <3>1 DEF PauseBegins, entryVars
      <4> QED BY <2>0, <2>1, <4>1, FreezingTakesOut
    <3>2. CASE PausePersists(a) \/ PauseOffloads(a) \/ Unpause(a) \/ EvictBegins(a)
      BY <2>1, <3>2 DEF PausePersists, PauseOffloads, Unpause, EvictBegins, entryVars
    <3>3. CASE OpenAgent(a)
      BY <2>0, <3>3, RegisteringAddsNone DEF OpenAgent
    <3>4. CASE EvictEnds(a)
      <4>1. Conscious' \subseteq Conscious /\ sched' = sched
        BY <3>4 DEF EvictEnds, Unregister, Conscious, Typed, TypeOK
      <4> QED BY <2>0, <4>1
    <3> QED BY <2>8, <3>1, <3>2, <3>3, <3>4 DEF RouteStep
  <2>9. CASE Restart
    <3>1. Committed' = {}
      BY <2>9 DEF Restart, Committed, Conscious
    <3> QED BY <3>1, FewerCommitted DEF Committed, Conscious
  <2>10. CASE UNCHANGED vars
    BY <2>1, <2>10 DEF vars, entryVars
  <2> QED BY <2>2, <2>3, <2>4, <2>6, <2>7, <2>8, <2>9, <2>10 DEF Next
<1>2. Init => Typed
  BY TypedInit
<1>3. Typed /\ [Next]_vars => Typed'
  BY TypedStep
<1>4. ASSUME Typed, [Next]_vars PROVE [Step]_vars
  BY <1>1, <1>4
<1> QED BY <1>2, <1>3, <1>4, PTL DEF SafeSpec, OnlyQueuedSleepersOvercommit
=============================================================================
