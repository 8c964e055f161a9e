--------------------------- MODULE DelegateBatches ---------------------------
(***************************************************************************)
(* The background sub-agents of one agent:                                 *)
(* nls/agentic/delegate_manager.py (spawn_batch, cancel, rewake, _run_one, *)
(* save_state, load_state), their check-back jobs in                       *)
(* nls/agentic/executor.py and server/services/delegate_batch_hooks.py.    *)
(*                                                                         *)
(* A delegate is a pair of a batch and a number: a later batch may use a   *)
(* number again, and then the table knows only the later one.  Each run of *)
(* a delegate is an asyncio task of its own; a step of a run is the code   *)
(* between two awaits that may suspend.  What a sub-agent does, and which  *)
(* requested delegates the dedup guard rejects, are left open.             *)
(***************************************************************************)
EXTENDS Naturals, FiniteSets, FiniteSetsExt

CONSTANTS
  Numbers,      \* delegate numbers
  MaxBatches,   \* bound: batches spawned
  MaxRuns,      \* bound: runs of one delegate, the first one and its rewakes
  MaxStarts,    \* bound: runs of all delegates
  MaxSaves,     \* bound: saves
  MaxConcurrent \* _max_concurrent; 5 in the code

ASSUME BatchesAssumption ==
  /\ IsFiniteSet(Numbers)
  /\ MaxBatches \in Nat \ {0}
  /\ MaxRuns \in Nat \ {0}
  /\ MaxStarts \in Nat /\ MaxSaves \in Nat
  /\ MaxConcurrent \in Nat

Batches == 1..MaxBatches
Runs == Batches \X Numbers \X (1..MaxRuns)
NoBatch == 0

VARIABLES
  opened,     \* how many batches were spawned
  table,      \* DelegateManager._delegates: the batch of each number's delegate
  state,      \* _DelegateState.state
  spawned,    \* the batches of this process, whose delegates have a _run_fn
  completed,  \* _BatchState.completed
  results,    \* _BatchState.results: how often each delegate is in the list
  at,         \* where each run is
  cancelling, \* the runs that have a cancellation to come
  jobs,       \* the batches with a check-back job in the scheduler
  cancellers, \* the batches whose job is in the chain of _on_batch_complete
  saved,      \* delegates.json
  saves,      \* how often it was written
  announced,  \* history: the batches announced and not opened again
  void        \* history: the batches that lost their promise

managerVars == <<opened, table, state, spawned, completed, results>>
disk == <<saved, saves>>
vars == <<managerVars, at, cancelling, jobs, cancellers, disk, announced, void>>

(* "ended" is done, error, cancelled or interrupted. *)
States == {"none", "running", "ended"}
Snapshots == [table : [Numbers -> 0..MaxBatches],
              state : [Batches -> [Numbers -> States]],
              completed : [Batches -> Nat]]

Nobody == [b \in Batches |-> [n \in Numbers |-> "none"]]
Unsaved == [table |-> [n \in Numbers |-> NoBatch], state |-> Nobody,
            completed |-> [b \in Batches |-> 0]]
NoResults == [b \in Batches |-> [n \in Numbers |-> 0]]

TypeOK ==
  /\ opened \in 0..MaxBatches
  /\ table \in [Numbers -> 0..MaxBatches]
  /\ state \in [Batches -> [Numbers -> States]]
  /\ spawned \in SUBSET Batches
  /\ completed \in [Batches -> Nat]
  /\ results \in [Batches -> [Numbers -> Nat]]
  /\ at \in [Runs -> {"none", "created", "working", "closing", "over"}]
  /\ cancelling \in SUBSET Runs
  /\ jobs \in SUBSET Batches
  /\ cancellers \in SUBSET Batches
  /\ saved \in Snapshots /\ saves \in 0..MaxSaves
  /\ announced \in SUBSET Batches
  /\ void \in SUBSET Batches

Init ==
  /\ opened = 0
  /\ table = Unsaved.table /\ state = Nobody /\ spawned = {}
  /\ completed = Unsaved.completed
  /\ results = NoResults
  /\ at = [r \in Runs |-> "none"] /\ cancelling = {}
  /\ jobs = {} /\ cancellers = {}
  /\ saved = Unsaved /\ saves = 0
  /\ announced = {} /\ void = {}

-----------------------------------------------------------------------------
(* Delegates and their runs                                                *)

Members(b) == {n \in Numbers : state[b][n] # "none"}

(* The numbers that spawn_batch counts against its limit. *)
Running == {n \in Numbers : table[n] # NoBatch /\ state[table[n]][n] = "running"}

Started(b, n) == {g \in 1..MaxRuns : at[<<b, n, g>>] # "none"}

(* The run that asyncio_task holds. *)
Latest(b, n) == <<b, n, Max(Started(b, n))>>

Starts == Cardinality({r \in Runs : at[r] # "none"})

Live(r) == at[r] \in {"created", "working"}
Uncounted(r) == Live(r) \/ at[r] = "closing"
Busy(b, n) == \E g \in Started(b, n) : Uncounted(<<b, n, g>>)

Batch(r) == r[1]
Number(r) == r[2]
IsFirst(r) == r[3] = 1

-----------------------------------------------------------------------------
(* The operations of the orchestrator                                      *)

RoomFor(S) == Cardinality(Running) + Cardinality(S) <= MaxConcurrent

(* spawn_batch: a team that finds no free slot spawns no delegate.  The    *)
(* batch of plain delegate calls gets a check-back job, and a callback     *)
(* that removes it.                                                        *)
Spawn(S, plain) ==
  LET b == opened + 1 IN
  /\ b \in Batches
  /\ Starts + Cardinality(S) <= MaxStarts
  /\ RoomFor(S)
  /\ plain => S # {}
  /\ opened' = b
  /\ table' = [n \in Numbers |-> IF n \in S THEN b ELSE table[n]]
  /\ state' = [state EXCEPT ![b] = [n \in Numbers |-> IF n \in S THEN "running" ELSE "none"]]
  /\ spawned' = spawned \cup {b}
  /\ at' = [r \in Runs |-> IF r \in {b} \X S \X {1} THEN "created" ELSE at[r]]
  /\ jobs' = IF plain THEN jobs \cup {b} ELSE jobs
  /\ cancellers' = IF plain THEN cancellers \cup {b} ELSE cancellers
  /\ void' = IF S = {} THEN void \cup {b} ELSE void
  /\ UNCHANGED <<completed, results, cancelling, disk, announced>>

CancelTask(r) == cancelling \cup {r}

Cancel(n) ==
  LET b == table[n] IN
  /\ n \in Running
  /\ state' = [state EXCEPT ![b][n] = "ended"]
  /\ cancelling' = CancelTask(Latest(b, n))
  /\ UNCHANGED <<opened, table, spawned, completed, results, at, jobs,
                 cancellers, disk, announced, void>>

(* A defect: a completion is taken back although none was counted. *)
UncountAlways(b, n) ==
  /\ completed' = [completed EXCEPT ![b] = @ - 1]
  /\ results' = [results EXCEPT ![b][n] = 0]

(* A defect: the earlier completion is not taken back. *)
UncountNothing(b, n) == UNCHANGED <<completed, results>>

Uncount(b, n) ==
  IF completed[b] > 0
  THEN /\ completed' = [completed EXCEPT ![b] = @ - 1]
       /\ results' = [results EXCEPT ![b][n] = 0]
  ELSE UNCHANGED <<completed, results>>

(* rewake: any delegate that is not "running", although an earlier run of  *)
(* it may not be over; then the promise of its batch is lost.              *)
Rewake(n) ==
  LET b == table[n] IN
  /\ b \in spawned
  /\ n \notin Running
  /\ MaxRuns \notin Started(b, n) /\ Starts < MaxStarts
  /\ Uncount(b, n)
  /\ state' = [state EXCEPT ![b][n] = "running"]
  /\ at' = [at EXCEPT ![<<b, n, Max(Started(b, n)) + 1>>] = "created"]
  /\ announced' = announced \ {b}
  /\ void' = IF Busy(b, n) THEN void \cup {b} ELSE void
  /\ UNCHANGED <<opened, table, spawned, cancelling, jobs, cancellers, disk>>

-----------------------------------------------------------------------------
(* _run_one                                                                *)

RunStarts(r) ==
  /\ at[r] = "created"
  /\ r \notin cancelling
  /\ at' = [at EXCEPT ![r] = "working"]
  /\ UNCHANGED <<managerVars, cancelling, jobs, cancellers, disk, announced, void>>

(* A task cancelled before its first step never enters _run_one.           *)
NeverStarts(r) ==
  /\ at[r] = "created"
  /\ r \in cancelling
  /\ at' = [at EXCEPT ![r] = "over"]
  /\ cancelling' = cancelling \ {r}
  /\ void' = void \cup {Batch(r)}
  /\ UNCHANGED <<managerVars, jobs, cancellers, disk, announced>>

(* A defect: an exception of the sub-agent leaves the state as it was. *)
EndsUnlessError(s) == {s, "ended"}

(* The run returned, raised or was cancelled; a cancellation that comes    *)
(* while it waits for a helper task it cancelled itself is swallowed, and  *)
(* the run ends later.                                                     *)
Ends(s) == {"ended"}

RunEnds(r) ==
  /\ at[r] = "working"
  /\ \E s \in Ends(state[Batch(r)][Number(r)]) :
       state' = [state EXCEPT ![Batch(r)][Number(r)] = s]
  /\ at' = [at EXCEPT ![r] = "closing"]
  /\ cancelling' = cancelling \ {r}
  /\ UNCHANGED <<opened, table, spawned, completed, results, jobs, cancellers,
                 disk, announced, void>>

Total(b) == Cardinality(Members(b))

(* A defect: the batch is complete with its last but one delegate. *)
CompleteEarly(b) == completed'[b] + 1 >= Total(b)

Complete(b) == completed'[b] >= Total(b)

(* A defect: the callbacks keep the jobs. *)
JobsKept(b) == jobs

(* The chain of _on_batch_complete removes the job of every batch that is  *)
(* in it; the runtime's handler removes the batch's own.                   *)
JobsWithout(b) == jobs \ (cancellers \cup {b})

(* After on_delegate_complete the run is counted. *)
Count(r) ==
  LET b == Batch(r) IN
  /\ at[r] = "closing"
  /\ at' = [at EXCEPT ![r] = "over"]
  /\ completed' = [completed EXCEPT ![b] = @ + 1]
  /\ results' = [results EXCEPT ![b][Number(r)] = @ + 1]
  /\ \/ /\ Complete(b)
        /\ announced' = announced \cup {b}
        /\ jobs' = JobsWithout(b)
     \/ /\ ~Complete(b)
        /\ UNCHANGED <<announced, jobs>>
  /\ UNCHANGED <<opened, table, state, spawned, cancelling, cancellers, disk, void>>

-----------------------------------------------------------------------------
(* save_state and load_state                                               *)

Save ==
  /\ saves < MaxSaves
  /\ saves' = saves + 1
  /\ saved' = [table |-> table, state |-> state, completed |-> completed]
  /\ UNCHANGED <<managerVars, at, cancelling, jobs, cancellers, announced, void>>

Loaded(s) == IF s = "running" THEN "ended" ELSE s

(* The server restarts: no run survives, and no delegate that is loaded    *)
(* can run again.  The scheduler's jobs are on disk.                       *)
Restart ==
  /\ table' = saved.table
  /\ state' = [b \in Batches |-> [n \in Numbers |-> Loaded(saved.state[b][n])]]
  /\ completed' = saved.completed
  /\ results' = NoResults
  /\ spawned' = {}
  /\ at' = [r \in Runs |-> "none"]
  /\ cancelling' = {} /\ cancellers' = {}
  /\ void' = void \cup (1..opened \ announced)
  /\ UNCHANGED <<opened, jobs, disk, announced>>

Next ==
  \/ \E S \in SUBSET Numbers, plain \in BOOLEAN : Spawn(S, plain)
  \/ \E n \in Numbers : Cancel(n) \/ Rewake(n)
  \/ \E r \in Runs : RunStarts(r) \/ NeverStarts(r) \/ RunEnds(r) \/ Count(r)
  \/ Save \/ Restart

(* The tasks keep being scheduled, and a sub-agent's loop ends: its        *)
(* iterations are bounded, and a wait_for bounds its time.                 *)
Fairness ==
  \A r \in Runs : WF_vars(RunStarts(r) \/ NeverStarts(r) \/ RunEnds(r) \/ Count(r))

Spec == Init /\ [][Next]_vars /\ Fairness

-----------------------------------------------------------------------------
(* Properties                                                              *)

(* Although completions are only counted, and rewakes take them back from  *)
(* whoever was counted, the counter stays the number of delegates that are *)
(* over, unless a delegate was rewoken before its earlier run was counted, *)
(* cancelled before its first step, or lost in a restart.                  *)
CompletedIsWhoIsOver ==
  \A b \in spawned \ void :
    completed[b] = Cardinality({n \in Members(b) : ~Busy(b, n)})

(* The results that go out with an announced batch name each of its        *)
(* delegates exactly once, although rewakes take results back: unless one  *)
(* of them was rewoken before its earlier run was counted or cancelled     *)
(* before its first step, after which the counter is wrong, or the batch   *)
(* was lost in a restart.                                                  *)
AnnouncedInFull ==
  \A b \in (announced \cap spawned) \ void :
    results[b] = [n \in Numbers |-> IF n \in Members(b) THEN 1 ELSE 0]

(* A delegate that counts against the limit has a run that will end, also  *)
(* after cancels, rewakes and a restart: slots are not leaked.             *)
RunningHasARun ==
  \A n \in Running : Live(Latest(table[n], n))

(* A run that nobody asked to stop can be found and stopped: its delegate  *)
(* is "running" in the table, unless a later batch uses its number, or it  *)
(* is the run of a rewake in a batch that lost its promise: the run before *)
(* may still be on its way out, and mark the delegate as ended.            *)
LiveRunsAreSeen ==
  \A r \in Runs : Live(r) /\ r \notin cancelling =>
    \/ Number(r) \in Running
    \/ table[Number(r)] > Batch(r)
    \/ ~IsFirst(r) /\ Batch(r) \in void

(* The table and the tasks agree: no slot without a run, and no run that   *)
(* nothing knows of but for the two cases that LiveRunsAreSeen names.      *)
SlotsAreRuns == RunningHasARun /\ LiveRunsAreSeen

Owed(b) == IF b \in void THEN {} ELSE {n \in Numbers : Busy(b, n)}

Status(b) == CASE b \in void -> "void"
               [] b \in announced \ void -> "announced"
               [] b \notin void \cup announced /\ b <= opened -> "open"
               [] OTHER -> "unused"

(* The detailed manager keeps the promise of every batch that is not void. *)
Promise == INSTANCE BatchPromise WITH
  owed <- [b \in Batches |-> Owed(b)], status <- [b \in Batches |-> Status(b)]

KeepsPromise == Promise!Spec

(* The orchestrator is not called back for ever: a check-back job goes, or *)
(* its batch has lost its promise.                                         *)
CheckbacksEnd ==
  \A b \in Batches : b \in jobs ~> b \notin jobs \/ b \in void

-----------------------------------------------------------------------------
(* What the documentation and the comments say.                            *)

(* delegate_manager.py, DelegateManager: the periodic job is removed "when *)
(* the batch finishes"; the orchestrator is kept aware of the others.      *)
CheckbackLastsAsLongAsItsBatch ==
  [][\A b \in jobs \ jobs' : b \in announced']_vars

=============================================================================
