------------------------ MODULE SleepScheduler_proofs ------------------------
(* What TLAPS proves of the sleep scheduler, for any number of agents.     *)
EXTENDS SleepScheduler, SequenceTheorems, TLAPS

-----------------------------------------------------------------------------
(* What the operations on the queue do to a sequence                       *)

(* Append adds one element, at the end. *)
LEMMA AppendElements ==
  ASSUME NEW S, NEW s \in Seq(S), NEW e \in S
  PROVE  /\ Append(s, e) \in Seq(S)
         /\ DOMAIN Append(s, e) = 1..(Len(s) + 1)
         /\ \A j \in 1..Len(s) : Append(s, e)[j] = s[j]
         /\ Append(s, e)[Len(s) + 1] = e
  OBVIOUS

(* Tail shifts the elements by one. *)
LEMMA TailElements ==
  ASSUME NEW S, NEW s \in Seq(S), s # <<>>
  PROVE  /\ Head(s) = s[1] /\ Head(s) \in S
         /\ Tail(s) \in Seq(S)
         /\ Len(s) \in Nat \ {0}
         /\ DOMAIN Tail(s) = 1..(Len(s) - 1)
         /\ \A j \in 1..(Len(s) - 1) : Tail(s)[j] = s[j + 1]
  OBVIOUS

(* RemoveAt closes the gap that the removed element leaves. *)
LEMMA RemoveAtElements ==
  ASSUME NEW S, NEW s \in Seq(S), NEW i \in 1..Len(s)
  PROVE  /\ RemoveAt(s, i) \in Seq(S)
         /\ Len(RemoveAt(s, i)) = Len(s) - 1
         /\ DOMAIN RemoveAt(s, i) = 1..(Len(s) - 1)
         /\ \A j \in 1..(Len(s) - 1) :
              RemoveAt(s, i)[j] = IF j < i THEN s[j] ELSE s[j + 1]
<1> DEFINE p == SubSeq(s, 1, i - 1)
           q == SubSeq(s, i + 1, Len(s))
<1>1. /\ p \in Seq(S) /\ Len(p) = i - 1
      /\ \A j \in 1..(i - 1) : p[j] = s[j]
  BY SubSeqProperties, ElementOfSeq
<1>2. /\ q \in Seq(S) /\ Len(q) = Len(s) - i
      /\ \A j \in 1..(Len(s) - i) : q[j] = s[i + j]
  BY SubSeqProperties, ElementOfSeq
<1>3. /\ p \o q \in Seq(S)
      /\ Len(p \o q) = Len(p) + Len(q)
      /\ \A j \in 1..(Len(p) + Len(q)) :
           (p \o q)[j] = IF j <= Len(p) THEN p[j] ELSE q[j - Len(p)]
  <2> HIDE DEF p, q
  <2> QED BY <1>1, <1>2, ConcatProperties
<1> Len(s) \in Nat
  OBVIOUS
<1>4. DOMAIN (p \o q) = 1..(Len(s) - 1)
  <2> HIDE DEF p, q
  <2> QED BY <1>1, <1>2, <1>3, LenProperties
<1>5. \A j \in 1..(Len(s) - 1) :
        (p \o q)[j] = IF j < i THEN s[j] ELSE s[j + 1]
  <2> HIDE DEF p, q
  <2> QED BY <1>1, <1>2, <1>3
<1>6. Len(p \o q) = Len(s) - 1
  <2> HIDE DEF p, q
  <2> QED BY <1>1, <1>2, <1>3
<1> QED BY <1>3, <1>6, <1>4, <1>5 DEF RemoveAt

(* Appending an element keeps the others. *)
LEMMA AppendRange ==
  ASSUME NEW S, NEW s \in Seq(S), NEW e \in S
  PROVE  Range(Append(s, e)) = Range(s) \cup {e}
<1>1. DOMAIN s = 1..Len(s) /\ Len(s) \in Nat
  BY LenProperties
<1> QED BY <1>1, AppendElements DEF Range

(* A new element keeps a queue free of duplicates. *)
LEMMA AppendOfNew ==
  ASSUME NEW S, NEW s \in Seq(S), NEW e \in S, IsInjective(s), e \notin Range(s)
  PROVE  IsInjective(Append(s, e))
<1>1. DOMAIN s = 1..Len(s) /\ Len(s) \in Nat
  BY LenProperties
<1>2. \A j \in 1..Len(s) : s[j] # e
  BY <1>1 DEF Range
<1> QED BY <1>1, <1>2, AppendElements DEF IsInjective

(* Taking the head keeps the others. *)
LEMMA TailKeepsOthers ==
  ASSUME NEW S, NEW s \in Seq(S), s # <<>>, NEW x \in Range(s), x # Head(s)
  PROVE  x \in Range(Tail(s))
<1>1. DOMAIN s = 1..Len(s) /\ Len(s) \in Nat \ {0}
  BY LenProperties, TailElements
<1>2. PICK j \in 1..Len(s) : x = s[j]
  BY <1>1 DEF Range
<1>3. j - 1 \in 1..(Len(s) - 1) /\ (j - 1) + 1 = j
  BY <1>1, <1>2, TailElements
<1>4. x = Tail(s)[j - 1] /\ j - 1 \in DOMAIN Tail(s)
  BY <1>2, <1>3, TailElements
<1> QED BY <1>4 DEF Range

(* Taking one element out of the middle keeps the others. *)
LEMMA RemoveAtKeepsOthers ==
  ASSUME NEW S, NEW s \in Seq(S), NEW i \in 1..Len(s), NEW x \in Range(s), x # s[i]
  PROVE  x \in Range(RemoveAt(s, i))
<1> DEFINE r == RemoveAt(s, i)
<1>1. DOMAIN s = 1..Len(s) /\ Len(s) \in Nat
  BY LenProperties
<1>2. /\ DOMAIN r = 1..(Len(s) - 1)
      /\ \A j \in 1..(Len(s) - 1) : r[j] = IF j < i THEN s[j] ELSE s[j + 1]
  BY RemoveAtElements
<1> HIDE DEF r
<1>3. PICK k \in 1..Len(s) : x = s[k] /\ k # i
  BY <1>1 DEF Range
<1>4. PICK j \in 1..(Len(s) - 1) : x = r[j]
  <2>1. CASE k < i
    <3>1. k \in 1..(Len(s) - 1) /\ r[k] = s[k]
      BY <2>1, <1>1, <1>2
    <3> QED BY <3>1, <1>3
  <2>2. CASE k > i
    <3>1. k - 1 \in 1..(Len(s) - 1) /\ r[k - 1] = s[(k - 1) + 1]
      BY <2>2, <1>1, <1>2
    <3> QED BY <3>1, <1>3
  <2> QED BY <2>1, <2>2, <1>3, <1>1
<1> QED BY <1>4, <1>2 DEF Range, r

(* The head of a queue without duplicates is not in its tail. *)
LEMMA TailOfDistinct ==
  ASSUME NEW S, NEW s \in Seq(S), s # <<>>, IsInjective(s)
  PROVE  /\ IsInjective(Tail(s))
         /\ Head(s) \in Range(s)
         /\ Range(Tail(s)) = Range(s) \ {Head(s)}
<1>1. DOMAIN s = 1..Len(s) /\ Len(s) \in Nat \ {0}
  BY LenProperties, TailElements
<1>2. IsInjective(Tail(s))
  BY <1>1, TailElements DEF IsInjective
<1>3. Head(s) \in Range(s)
  BY <1>1, TailElements DEF Range
<1>4. ASSUME NEW x \in Range(Tail(s)) PROVE x \in Range(s) \ {Head(s)}
  <2>1. PICK j \in 1..(Len(s) - 1) : x = Tail(s)[j]
    BY TailElements DEF Range
  <2>2. x = s[j + 1] /\ j + 1 \in DOMAIN s /\ 1 \in DOMAIN s /\ j + 1 # 1
    BY <2>1, <1>1, TailElements
  <2> QED BY <2>2, TailElements DEF IsInjective, Range
<1>5. \A x \in Range(s) \ {Head(s)} : x \in Range(Tail(s))
  BY TailKeepsOthers
<1> QED BY <1>2, <1>3, <1>4, <1>5

(* What is taken out of a queue without duplicates is gone, and only that. *)
LEMMA RemoveAtOfDistinct ==
  ASSUME NEW S, NEW s \in Seq(S), NEW i \in 1..Len(s), IsInjective(s)
  PROVE  /\ IsInjective(RemoveAt(s, i))
         /\ Range(RemoveAt(s, i)) = Range(s) \ {s[i]}
<1> DEFINE r == RemoveAt(s, i)
<1>1. DOMAIN s = 1..Len(s) /\ Len(s) \in Nat
  BY LenProperties
<1>2. /\ DOMAIN r = 1..(Len(s) - 1)
      /\ \A j \in 1..(Len(s) - 1) : r[j] = IF j < i THEN s[j] ELSE s[j + 1]
  BY RemoveAtElements
<1> HIDE DEF r
<1>3. IsInjective(r)
  <2> SUFFICES ASSUME NEW j \in 1..(Len(s) - 1), NEW k \in 1..(Len(s) - 1),
                      r[j] = r[k]
               PROVE  j = k
    BY <1>2 DEF IsInjective
  <2> DEFINE old(n) == IF n < i THEN n ELSE n + 1
  <2>1. /\ old(j) \in 1..Len(s) /\ r[j] = s[old(j)]
        /\ old(k) \in 1..Len(s) /\ r[k] = s[old(k)]
    BY <1>1, <1>2
  <2>2. old(j) = old(k)
    BY <2>1, <1>1 DEF IsInjective
  <2> QED BY <2>2, <1>1
<1>4. ASSUME NEW x \in Range(r) PROVE x \in Range(s) \ {s[i]}
  <2>1. PICK j \in 1..(Len(s) - 1) : x = r[j]
    BY <1>2 DEF Range
  <2>2. PICK k \in 1..Len(s) : x = s[k] /\ k # i
    BY <2>1, <1>1, <1>2
  <2> QED BY <2>2, <1>1 DEF IsInjective, Range
<1>5. \A x \in Range(s) \ {s[i]} : x \in Range(r)
  BY RemoveAtKeepsOthers DEF r
<1> QED BY <1>3, <1>4, <1>5 DEF r

-----------------------------------------------------------------------------
(* Every variable keeps its type, with any combination of the faults.      *)

(* The type invariant, preserved by the actions of the worker. *)
LEMMA WorkerKeepsType ==
  ASSUME SleepTypeOK, Worker
  PROVE  SleepTypeOK'
<1> USE SleepAssumption
<1> QED
  <2>1. CASE TakeJob
    BY <2>1, TailElements DEF TakeJob, StartJob, SleepTypeOK, Phases
  <2>4. CASE BeginSleep \/ SkipCycle \/ WakeAns
    BY <2>4 DEF BeginSleep, SkipCycle, WakeAns, AnsWoken, SleepTypeOK, Phases
  <2>5. CASE NextCycle
    BY <2>5 DEF NextCycle, CyclesLeft, SleepTypeOK, Phases
  <2>6. CASE FinishSync \/ ConsolidationRaises
    BY <2>6 DEF FinishSync, ConsolidationRaises, GiveUpJob, SleepTypeOK, Phases
  <2> QED BY <2>1, <2>4, <2>5, <2>6 DEF Worker

(* The same, of the step that ends a job. *)
LEMMA SleepDoneKeepsType ==
  ASSUME SleepTypeOK, SleepDone
  PROVE  SleepTypeOK'
  BY SleepAssumption DEF SleepDone, GiveUpJob, SleepTypeOK, Phases

(* The body of enqueue leaves a queue of agents. *)
LEMMA EnqueueType ==
  ASSUME queue \in Seq(Agents), NEW a \in Agents, Enqueue(a)
  PROVE  queue' \in Seq(Agents)
  BY AppendElements DEF Enqueue

(* dequeue takes the agent out, from a place in the queue. *)
LEMMA DequeueRemoves ==
  ASSUME queue \in Seq(Agents), NEW a \in Agents, Dequeue(a)
  PROVE  /\ a \in Range(queue) /\ current # a
         /\ queue' \in Seq(Agents)
         /\ \E i \in 1..Len(queue) : queue[i] = a /\ queue' = RemoveAt(queue, i)
<1>1. DOMAIN queue = 1..Len(queue)
  BY LenProperties
<1>2. PICK i \in 1..Len(queue) : queue[i] = a /\ queue' = RemoveAt(queue, i)
  BY <1>1 DEF Dequeue, FirstJob
<1>3. queue' \in Seq(Agents)
  BY <1>2, RemoveAtElements
<1>4. a \in Range(queue) /\ current # a
  BY DEF Dequeue, Dequeueable, InQueue, IsTraining
<1> QED BY <1>2, <1>3, <1>4

(* Every variable of the sleep scheduler keeps its type, whatever fails. *)
THEOREM SleepTypeCorrect == SleepSpec => []SleepTypeOK
<1>1. SleepInit => SleepTypeOK
  BY SleepAssumption, EmptySeq DEF SleepInit, SleepTypeOK, Phases
<1>2. SleepTypeOK /\ [SleepNext]_sleepVars => SleepTypeOK'
  <2> SUFFICES ASSUME SleepTypeOK, [SleepNext]_sleepVars PROVE SleepTypeOK'
    OBVIOUS
  <2>1. CASE Worker
    BY <2>1, WorkerKeepsType
  <2>2. CASE SleepDone
    BY <2>2, SleepDoneKeepsType
  <2>3. ASSUME NEW a \in Agents, EnqueueRuns(a) PROVE SleepTypeOK'
    BY <2>3, EnqueueType DEF EnqueueRuns, SleepTypeOK, jobVars
  <2>4. ASSUME NEW a \in Agents, Request(a) PROVE SleepTypeOK'
    BY <2>4, EnqueueType DEF Request, EnqueueSync, SleepTypeOK, jobVars
  <2>5. ASSUME NEW a \in Agents, WakeOnMessage(a) PROVE SleepTypeOK'
    BY <2>5, DequeueRemoves DEF WakeOnMessage, SleepTypeOK, jobVars
  <2>6. ASSUME NEW a \in Agents, RegisterRuntime(a) \/ UnregisterRuntime(a)
        PROVE SleepTypeOK'
    BY <2>6 DEF RegisterRuntime, UnregisterRuntime, SleepTypeOK, jobVars
  <2>7. CASE UNCHANGED sleepVars
    BY <2>7 DEF sleepVars, SleepTypeOK
  <2> QED BY <2>1, <2>2, <2>3, <2>4, <2>5, <2>6, <2>7 DEF SleepNext
<1> QED BY <1>1, <1>2, PTL DEF SleepSpec

-----------------------------------------------------------------------------
(* One job per agent.                                                      *)

JobInv == SleepTypeOK /\ NoDuplicateJobs

(* The body of enqueue adds a job for the agent when it has none. *)
LEMMA EnqueueAdds ==
  ASSUME queue \in Seq(Agents), IsInjective(queue), NEW a \in Agents, Enqueue(a)
  PROVE  /\ IsInjective(queue')
         /\ Range(queue') = IF IsQueued(a) THEN Range(queue) ELSE Range(queue) \cup {a}
<1>1. CASE IsQueued(a)
  BY <1>1 DEF Enqueue
<1>2. CASE ~IsQueued(a)
  <2>1. queue' = Append(queue, a) /\ a \notin Range(queue)
    BY <1>2 DEF Enqueue, IsQueued, InQueue
  <2> QED BY <1>2, <2>1, AppendOfNew, AppendRange
<1> QED BY <1>1, <1>2

(* dequeue leaves no other job of the agent behind. *)
LEMMA DequeueClears ==
  ASSUME queue \in Seq(Agents), IsInjective(queue), NEW a \in Agents, Dequeue(a)
  PROVE  IsInjective(queue') /\ Range(queue') = Range(queue) \ {a}
  BY DequeueRemoves, RemoveAtOfDistinct

(* The worker moves a job from the queue to _current_job, or ends it. *)
LEMMA WorkerKeepsJobs ==
  ASSUME JobInv, Worker \/ SleepDone
  PROVE  /\ IsInjective(queue')
         /\ \/ queue' = queue /\ current' \in {current, NoAgent}
            \/ /\ current = NoAgent
               /\ current' \in Range(queue)
               /\ Range(queue') = Range(queue) \ {current'}
<1> USE SleepAssumption DEF JobInv
<1>1. CASE TakeJob
  <2>1. queue \in Seq(Agents) /\ queue # <<>> /\ IsInjective(queue)
    BY <1>1 DEF TakeJob, SleepTypeOK, NoDuplicateJobs
  <2> QED BY <1>1, <2>1, TailOfDistinct DEF TakeJob, StartJob
<1>3. CASE ~TakeJob
  BY <1>3
     DEF Worker, BeginSleep, SkipCycle, WakeAns, NextCycle, SleepDone,
         FinishSync, ConsolidationRaises, GiveUpJob, NoDuplicateJobs
<1> QED BY <1>1, <1>3

(* The queue and the current job stay free of duplicates. *)
LEMMA JobInvStep ==
  ASSUME JobInv, SleepTypeOK', [SleepNext]_sleepVars
  PROVE  JobInv'
<1> USE SleepAssumption DEF JobInv
<1>0. /\ queue \in Seq(Agents) /\ IsInjective(queue)
      /\ NoAgent \notin Range(queue) /\ current \notin Range(queue)
  <2>1. \A i \in DOMAIN queue : queue[i] \in Agents
    BY LenProperties, ElementOfSeq DEF SleepTypeOK
  <2> QED BY <2>1 DEF SleepTypeOK, NoDuplicateJobs, Range
<1>1. CASE Worker \/ SleepDone
  <2>1. /\ IsInjective(queue')
        /\ current' \notin Range(queue') /\ NoAgent \notin Range(queue')
    BY <1>0, <1>1, WorkerKeepsJobs
  <2> QED BY <2>1 DEF NoDuplicateJobs
<1>2. ASSUME NEW a \in Agents, Enqueue(a), current' = current
      PROVE JobInv'
  <2>1. /\ IsInjective(queue')
        /\ current \notin Range(queue') /\ NoAgent \notin Range(queue')
    BY <1>0, <1>2, EnqueueAdds DEF IsQueued, IsTraining
  <2> QED BY <2>1, <1>2, <1>0 DEF NoDuplicateJobs
<1>3. ASSUME NEW a \in Agents, EnqueueRuns(a) PROVE JobInv'
  BY <1>2, <1>3 DEF EnqueueRuns, jobVars
<1>4. ASSUME UNCHANGED <<queue, current>> PROVE JobInv'
  BY <1>4 DEF NoDuplicateJobs
<1>5. ASSUME NEW a \in Agents, Request(a) PROVE JobInv'
  BY <1>2, <1>4, <1>5 DEF Request, jobVars
<1>6. ASSUME NEW a \in Agents, WakeOnMessage(a) PROVE JobInv'
  <2>1. /\ IsInjective(queue') /\ current' = current
        /\ Range(queue') = Range(queue) \ {a}
    BY <1>0, <1>6, DequeueClears DEF WakeOnMessage, jobVars
  <2> QED BY <2>1, <1>0 DEF NoDuplicateJobs
<1>7. ASSUME NEW a \in Agents, RegisterRuntime(a) \/ UnregisterRuntime(a)
      PROVE JobInv'
  BY <1>4, <1>7 DEF RegisterRuntime, UnregisterRuntime, jobVars
<1>8. CASE UNCHANGED sleepVars
  BY <1>4, <1>8 DEF sleepVars
<1> QED BY <1>1, <1>3, <1>5, <1>6, <1>7, <1>8 DEF SleepNext

(* No interleaving of triggers, withdrawals and the worker gives an agent  *)
(* two consolidation jobs: _is_queued looks everywhere a job can be.       *)
THEOREM OneJobPerAgent == SleepSpec => []NoDuplicateJobs
<1>1. SleepInit /\ SleepTypeOK => JobInv
  BY SleepAssumption DEF SleepInit, JobInv, NoDuplicateJobs,
     IsInjective, Range
<1>2. JobInv /\ SleepTypeOK' /\ [SleepNext]_sleepVars => JobInv'
  BY JobInvStep
<1>3. JobInv => NoDuplicateJobs
  BY DEF JobInv
<1> QED BY <1>1, <1>2, <1>3, SleepTypeCorrect, PTL DEF SleepSpec

-----------------------------------------------------------------------------
(* The queue and the worker implement the safety part of SleepQueue.       *)

(* A step of the detailed queue is a step of the promise, or a stutter. *)
LEMMA StepImplements ==
  ASSUME JobInv, JobInv', [SleepNext]_sleepVars
  PROVE  [Promise!Next]_(Promise!qvars)
<1> USE SleepAssumption DEF JobInv
<1> DEFINE waiting == Range(queue)
<1>0. /\ queue \in Seq(Agents) /\ IsInjective(queue)
      /\ waiting = Range(queue) /\ waiting' = Range(queue')
      /\ Range(queue) \subseteq Agents
  <2>1. \A i \in DOMAIN queue : queue[i] \in Agents
    BY LenProperties, ElementOfSeq DEF SleepTypeOK
  <2> QED BY <2>1 DEF SleepTypeOK, NoDuplicateJobs, Range
<1>1. ASSUME NEW a \in Range(queue), current = NoAgent, current' = a,
             Range(queue') = Range(queue) \ {a}
      PROVE  Promise!Next
  BY <1>0, <1>1 DEF Promise!Next, Promise!Train
<1>2. ASSUME NEW a \in Agents, current' = current,
             a \in Range(queue), Range(queue') = Range(queue) \ {a}
      PROVE  Promise!Next
  BY <1>0, <1>2 DEF Promise!Next, Promise!Withdraw
<1>3. ASSUME UNCHANGED <<queue, current>> PROVE UNCHANGED Promise!qvars
  BY <1>0, <1>3 DEF Promise!qvars
<1>4. ASSUME queue' = queue, current' \in {current, NoAgent}
      PROVE  [Promise!Next]_(Promise!qvars)
  <2>1. CASE current' = current
    BY <1>3, <1>4, <2>1
  <2>2. CASE current # NoAgent /\ current' = NoAgent
    BY <1>0, <1>4, <2>2 DEF Promise!Next, Promise!Finish
  <2> QED BY <1>4, <2>1, <2>2
<1>5. CASE Worker \/ SleepDone
  BY <1>1, <1>4, <1>5, WorkerKeepsJobs
<1>6. ASSUME NEW a \in Agents, Enqueue(a), current' = current
      PROVE  [Promise!Next]_(Promise!qvars)
  <2>1. CASE IsQueued(a)
    BY <1>3, <1>6, <2>1 DEF Enqueue
  <2>2. CASE ~IsQueued(a)
    <3>1. Range(queue') = Range(queue) \cup {a}
      BY <1>0, <1>6, <2>2, EnqueueAdds
    <3>2. a \notin Range(queue) /\ a # current
      BY <2>2 DEF IsQueued, IsTraining, InQueue
    <3> QED BY <1>0, <1>6, <3>1, <3>2 DEF Promise!Next, Promise!Request
  <2> QED BY <2>1, <2>2
<1>7. ASSUME NEW a \in Agents, EnqueueRuns(a) \/ Request(a)
      PROVE  [Promise!Next]_(Promise!qvars)
  BY <1>3, <1>6, <1>7 DEF EnqueueRuns, Request, jobVars
<1>8. ASSUME NEW a \in Agents, WakeOnMessage(a) PROVE Promise!Next
  <2>1. current' = current /\ a \in Range(queue) /\ Range(queue') = Range(queue) \ {a}
    BY <1>0, <1>8, DequeueClears, DequeueRemoves DEF WakeOnMessage, jobVars
  <2> QED BY <1>2, <2>1
<1>9. ASSUME NEW a \in Agents, RegisterRuntime(a) \/ UnregisterRuntime(a)
      PROVE  UNCHANGED Promise!qvars
  BY <1>3, <1>9 DEF RegisterRuntime, UnregisterRuntime, jobVars
<1>10. CASE UNCHANGED sleepVars
  BY <1>3, <1>10 DEF sleepVars
<1> QED BY <1>5, <1>7, <1>8, <1>9, <1>10 DEF SleepNext

(* Whatever the environment does, every step of the queue and the worker   *)
(* is one that SleepQueue allows.                                          *)
THEOREM QueueImplementsPromise == SleepSpec => Promise!SafeSpec
<1>1. SleepInit => Promise!Init
  BY DEF SleepInit, Promise!Init, Range
<1>2. SleepInit /\ SleepTypeOK => JobInv
  BY SleepAssumption DEF SleepInit, JobInv, NoDuplicateJobs,
     IsInjective, Range
<1>3. JobInv /\ SleepTypeOK' /\ [SleepNext]_sleepVars => JobInv'
  BY JobInvStep
<1>4. JobInv /\ JobInv' /\ [SleepNext]_sleepVars => [Promise!Next]_(Promise!qvars)
  BY StepImplements
<1> QED BY <1>1, <1>2, <1>3, <1>4, SleepTypeCorrect, PTL
        DEF SleepSpec, Promise!SafeSpec
=============================================================================
