------------------------ MODULE DelegateBatches_proofs ------------------------
(***************************************************************************)
(* Theorems about DelegateBatches: the manager keeps its types, its slots  *)
(* are runs, its counter is who is over, what it announces is complete,    *)
(* and every step of it keeps the promise of BatchPromise.                 *)
(*                                                                         *)
(* The inductive invariant is a conjunction for one batch, BatchInv(b):    *)
(* a step touches one batch (Restart: all of them), and lemma OthersAside  *)
(* is why the others keep theirs.                                          *)
(***************************************************************************)
EXTENDS DelegateBatches, FiniteSetTheorems, TLAPS

-----------------------------------------------------------------------------
(* The inductive invariant                                                 *)

(* The runs of a delegate are numbered from 1; who is in no batch of this  *)
(* process has none.                                                       *)
RunsAreNumbered(b) ==
  \A n \in Numbers : \E k \in 0..MaxRuns :
    /\ Started(b, n) = 1..k
    /\ k > 0 <=> b \in spawned /\ n \in Members(b)

(* A running delegate's last run goes on, and nobody has cancelled it.     *)
RunningGoesOn(b) ==
  \A n \in Numbers : state[b][n] = "running" =>
    /\ b \in spawned
    /\ Live(Latest(b, n)) /\ Latest(b, n) \notin cancelling

CancelledIsLive(b) ==
  \A n \in Numbers, g \in 1..MaxRuns : <<b, n, g>> \in cancelling => Live(<<b, n, g>>)

(* Only the last run of a delegate can still be counted.                   *)
EarlierRunsAreOver(b) ==
  b \notin void =>
    \A n \in Numbers, g, h \in 1..MaxRuns :
      g < h /\ at[<<b, n, h>>] # "none" => ~Uncounted(<<b, n, g>>)

LiveIsRunning(b) ==
  b \notin void =>
    \A n \in Numbers, g \in 1..MaxRuns :
      Live(<<b, n, g>>) /\ <<b, n, g>> \notin cancelling => state[b][n] = "running"

(* Who is rewoken is not running, so a first run that nobody stopped is    *)
(* the only one of its delegate, whatever became of its batch.             *)
FirstIsRunning(b) ==
  \A n \in Numbers : Live(<<b, n, 1>>) /\ <<b, n, 1>> \notin cancelling =>
    /\ state[b][n] = "running"
    /\ \A h \in 1..MaxRuns : h # 1 => at[<<b, n, h>>] = "none"

Over(b) == {n \in Members(b) : ~Busy(b, n)}

OverIsCounted(b) ==
  b \in spawned \ void =>
    /\ completed[b] = Cardinality(Over(b))
    /\ results[b] = [n \in Numbers |-> IF n \in Over(b) THEN 1 ELSE 0]

AnnouncedIsOver(b) ==
  b \in announced \ void => \A n \in Numbers : ~Busy(b, n)

(* A batch that was not spawned left no trace, on disk either.             *)
UnopenedIsNew(b) ==
  b > opened =>
    /\ b \notin spawned \cup announced \cup void
    /\ \A n \in Numbers : state[b][n] = "none" /\ saved.state[b][n] = "none"
    /\ completed[b] = 0 /\ saved.completed[b] = 0
    /\ results[b] = NoResults[b]

BatchInv(b) ==
  /\ RunsAreNumbered(b) /\ RunningGoesOn(b) /\ CancelledIsLive(b)
  /\ EarlierRunsAreOver(b) /\ LiveIsRunning(b) /\ FirstIsRunning(b)
  /\ OverIsCounted(b) /\ AnnouncedIsOver(b)
  /\ UnopenedIsNew(b)

(* The delegates of a table are members of their batches.                  *)
TableIsOf(tab, st) ==
  \A n \in Numbers : tab[n] # NoBatch => tab[n] <= opened /\ st[tab[n]][n] # "none"

(* Numbers are given again, not taken back, while a run goes on.           *)
TableCoversRuns ==
  \A b \in Batches, n \in Numbers, g \in 1..MaxRuns :
    at[<<b, n, g>>] # "none" => table[n] >= b

BatchesInv ==
  /\ TypeOK /\ TableCoversRuns
  /\ TableIsOf(table, state) /\ TableIsOf(saved.table, saved.state)
  /\ \A b \in Batches : BatchInv(b)

-----------------------------------------------------------------------------
(* Runs, their numbers and what a step leaves alone                        *)

LEMMA MaxOfInterval == ASSUME NEW k \in Nat \ {0} PROVE Max(1..k) = k
<1>1. k \in 1..k /\ \A y \in 1..k : k >= y
  OBVIOUS
<1>2. ASSUME NEW x \in 1..k, \A y \in 1..k : x >= y PROVE x = k
  BY <1>1, <1>2
<1>3. QED BY <1>1, <1>2 DEF Max

LEMMA LatestIs ==
  ASSUME NEW b, NEW n, NEW k \in Nat \ {0}, Started(b, n) = 1..k
  PROVE  Latest(b, n) = <<b, n, k>>
BY MaxOfInterval DEF Latest

LEMMA RunIs ==
  ASSUME NEW r \in Runs
  PROVE  /\ Batch(r) \in Batches /\ Number(r) \in Numbers
         /\ \E g \in 1..MaxRuns : r = <<Batch(r), Number(r), g>>
BY DEF Runs, Batch, Number

LEMMA ConstantTypes ==
  /\ MaxBatches \in Nat \ {0} /\ MaxRuns \in Nat \ {0}
  /\ IsFiniteSet(Numbers)
  /\ Batches \subseteq Nat \ {0}
BY BatchesAssumption DEF Batches

LEMMA MembersAreFinite ==
  ASSUME NEW b PROVE IsFiniteSet(Members(b)) /\ Over(b) \subseteq Members(b)
BY FS_Subset, ConstantTypes DEF Members, Over

(* What a batch loses nothing of in a step. *)
Aside(b) ==
  /\ state'[b] = state[b] /\ completed'[b] = completed[b] /\ results'[b] = results[b]
  /\ \/ b <= opened
     \/ saved'.state[b] = saved.state[b] /\ saved'.completed[b] = saved.completed[b]
     \/ saved'.state[b] = state[b] /\ saved'.completed[b] = completed[b]
  /\ b \in spawned' <=> b \in spawned
  /\ b \in announced' <=> b \in announced
  /\ b \in void' <=> b \in void
  /\ \A n \in Numbers, g \in 1..MaxRuns :
       /\ at'[<<b, n, g>>] = at[<<b, n, g>>]
       /\ <<b, n, g>> \in cancelling' <=> <<b, n, g>> \in cancelling
  /\ opened' >= opened

LEMMA AsideRuns ==
  ASSUME NEW b \in Batches, Aside(b), NEW n \in Numbers
  PROVE  /\ Started(b, n)' = Started(b, n)
         /\ Latest(b, n)' = Latest(b, n)
         /\ Busy(b, n)' = Busy(b, n)
         /\ Members(b)' = Members(b)
<1>1. Started(b, n)' = Started(b, n)
  BY DEF Aside, Started
<1>2. Started(b, n) \subseteq 1..MaxRuns
  BY DEF Started
<1>3. \A g \in 1..MaxRuns : Uncounted(<<b, n, g>>)' = Uncounted(<<b, n, g>>)
  BY DEF Aside, Uncounted, Live
<1>4. Busy(b, n)' = Busy(b, n)
  BY <1>1, <1>2, <1>3 DEF Busy
<1>5. Members(b)' = Members(b)
  BY DEF Aside, Members
<1> QED BY <1>1, <1>4, <1>5 DEF Latest

LEMMA OthersAside ==
  ASSUME NEW b \in Batches, BatchInv(b), Aside(b), opened \in Nat, opened' \in Nat
  PROVE  BatchInv(b)'
<1>0. \A n \in Numbers : /\ Started(b, n)' = Started(b, n)
                         /\ Latest(b, n)' = Latest(b, n)
                         /\ Busy(b, n)' = Busy(b, n)
  BY AsideRuns
<1>1. Members(b)' = Members(b)
  BY DEF Aside, Members
<1>2. Over(b)' = Over(b)
  <2>1. Members(b) \subseteq Numbers
    BY DEF Members
  <2> QED BY <1>0, <1>1, <2>1 DEF Over
<1>3. RunsAreNumbered(b)'
  BY <1>0, <1>1 DEF BatchInv, RunsAreNumbered, Aside
<1>4. ASSUME NEW n \in Numbers, NEW g \in 1..MaxRuns
      PROVE  /\ Live(<<b, n, g>>)' = Live(<<b, n, g>>)
             /\ Uncounted(<<b, n, g>>)' = Uncounted(<<b, n, g>>)
  BY DEF Aside, Uncounted, Live
<1>5. RunningGoesOn(b)'
  <2>1. SUFFICES ASSUME NEW n \in Numbers, state'[b][n] = "running"
                 PROVE  b \in spawned' /\ Live(Latest(b, n))' /\ Latest(b, n)' \notin cancelling'
    BY DEF RunningGoesOn
  <2>2. b \in spawned /\ Live(Latest(b, n)) /\ Latest(b, n) \notin cancelling
    BY <2>1 DEF BatchInv, RunningGoesOn, Aside
  <2>3. PICK k \in 0..MaxRuns : Started(b, n) = 1..k /\ (k > 0 <=> b \in spawned /\ n \in Members(b))
    BY DEF BatchInv, RunsAreNumbered
  <2>4. n \in Members(b)
    BY <2>1 DEF Members, Aside
  <2>5. k \in 1..MaxRuns /\ Latest(b, n) = <<b, n, k>>
    BY <2>2, <2>3, <2>4, LatestIs, ConstantTypes
  <2> QED BY <1>0, <1>4, <2>2, <2>5 DEF Aside, Live
<1>6. CancelledIsLive(b)'
  BY <1>4 DEF BatchInv, CancelledIsLive, Aside
<1>7. EarlierRunsAreOver(b)'
  BY <1>4 DEF BatchInv, EarlierRunsAreOver, Aside
<1>8. LiveIsRunning(b)'
  BY <1>4 DEF BatchInv, LiveIsRunning, Aside
<1>f. FirstIsRunning(b)'
  <2>1. 1 \in 1..MaxRuns
    BY ConstantTypes
  <2> QED BY <1>4, <2>1 DEF BatchInv, FirstIsRunning, Aside
<1>9. OverIsCounted(b)'
  BY <1>2 DEF BatchInv, OverIsCounted, Aside
<1>10. AnnouncedIsOver(b)'
  BY <1>0 DEF BatchInv, AnnouncedIsOver, Aside
<1>11. UnopenedIsNew(b)'
  <2>1. NoResults' = NoResults
    BY DEF NoResults
  <2> QED BY <2>1, ConstantTypes DEF BatchInv, UnopenedIsNew, Aside
<1> QED BY <1>3, <1>5, <1>6, <1>7, <1>8, <1>f, <1>9, <1>10, <1>11 DEF BatchInv

-----------------------------------------------------------------------------
(* Types                                                                   *)

LEMMA InitTypes == Init => TypeOK
<1>1. Init => saved \in Snapshots
  BY ConstantTypes DEF Init, Unsaved, Snapshots, Nobody, States, NoBatch
<1>2. SUFFICES ASSUME Init PROVE TypeOK
  OBVIOUS
<1>3. /\ table \in [Numbers -> 0..MaxBatches] /\ state \in [Batches -> [Numbers -> States]]
      /\ completed \in [Batches -> Nat] /\ results \in [Batches -> [Numbers -> Nat]]
  BY <1>2, ConstantTypes DEF Init, Unsaved, Nobody, NoResults, States, NoBatch
<1> QED BY <1>1, <1>2, <1>3, ConstantTypes, BatchesAssumption DEF Init, TypeOK

(* Where the runs of a delegate in the table are. *)
LEMMA LatestOfMember ==
  ASSUME TypeOK, NEW b \in Batches, BatchInv(b), NEW n \in Numbers,
         b \in spawned, n \in Members(b)
  PROVE  \E k \in 1..MaxRuns : Started(b, n) = 1..k /\ Latest(b, n) = <<b, n, k>>
                               /\ <<b, n, k>> \in Runs /\ Max(Started(b, n)) = k
<1>1. PICK k \in 0..MaxRuns : Started(b, n) = 1..k /\ k > 0
  BY DEF BatchInv, RunsAreNumbered
<1>2. k \in 1..MaxRuns /\ Latest(b, n) = <<b, n, k>> /\ Max(Started(b, n)) = k
  BY <1>1, LatestIs, MaxOfInterval, ConstantTypes
<1>3. <<b, n, k>> \in Runs
  BY <1>2 DEF Runs
<1> QED BY <1>1, <1>2, <1>3

(* A number in the table is one of a batch that was spawned. *)
LEMMA InTable ==
  ASSUME BatchesInv, NEW n \in Numbers, table[n] # NoBatch
  PROVE  table[n] \in Batches /\ table[n] <= opened /\ n \in Members(table[n])
BY ConstantTypes DEF BatchesInv, TypeOK, TableIsOf, Members, Batches, NoBatch

LEMMA CancelFacts ==
  ASSUME BatchesInv, NEW n \in Numbers, Cancel(n)
  PROVE  \E b \in Batches, k \in 1..MaxRuns :
           /\ b = table[n] /\ b \in spawned /\ state[b][n] = "running"
           /\ Started(b, n) = 1..k
           /\ <<b, n, k>> \in Runs /\ Live(<<b, n, k>>)
           /\ state' = [state EXCEPT ![b][n] = "ended"]
           /\ cancelling' = cancelling \cup {<<b, n, k>>}
<1>1. table[n] # NoBatch /\ state[table[n]][n] = "running"
  BY DEF Cancel, Running
<1>2. PICK b \in Batches : b = table[n] /\ n \in Members(b)
  BY <1>1, InTable
<1>3. BatchInv(b) /\ TypeOK
  BY DEF BatchesInv
<1>4. b \in spawned /\ Live(Latest(b, n))
  BY <1>1, <1>2, <1>3 DEF BatchInv, RunningGoesOn
<1>5. PICK k \in 1..MaxRuns :
        Started(b, n) = 1..k /\ Latest(b, n) = <<b, n, k>> /\ <<b, n, k>> \in Runs
  BY <1>2, <1>3, <1>4, LatestOfMember
<1> QED BY <1>1, <1>2, <1>4, <1>5 DEF Cancel, CancelTask

LEMMA RewakeFacts ==
  ASSUME BatchesInv, NEW n \in Numbers, Rewake(n)
  PROVE  \E b \in Batches, k \in 1..MaxRuns :
           /\ b = table[n] /\ b \in spawned /\ b <= opened /\ n \in Members(b)
           /\ state[b][n] # "running"
           /\ k + 1 \in 1..MaxRuns /\ Started(b, n) = 1..k
           /\ <<b, n, k + 1>> \in Runs /\ at[<<b, n, k + 1>>] = "none"
           /\ at' = [at EXCEPT ![<<b, n, k + 1>>] = "created"]
           /\ state' = [state EXCEPT ![b][n] = "running"]
           /\ announced' = announced \ {b}
           /\ void' = IF Busy(b, n) THEN void \cup {b} ELSE void
           /\ Uncount(b, n)
<1>1. PICK b \in Batches : b = table[n] /\ b \in spawned
  BY DEF Rewake, BatchesInv, TypeOK
<1>2. b # NoBatch
  BY ConstantTypes DEF NoBatch
<1>3. n \in Members(b) /\ b <= opened /\ state[b][n] # "running"
  BY <1>1, <1>2, InTable DEF Rewake, Running
<1>4. BatchInv(b) /\ TypeOK
  BY DEF BatchesInv
<1>5. PICK k \in 1..MaxRuns : Started(b, n) = 1..k /\ Max(Started(b, n)) = k
  BY <1>1, <1>3, <1>4, LatestOfMember
<1>6. MaxRuns \notin 1..k
  BY <1>1, <1>5 DEF Rewake
<1>7. k + 1 \in 1..MaxRuns /\ <<b, n, k + 1>> \in Runs
  BY <1>6, ConstantTypes DEF Runs
<1>8. at[<<b, n, k + 1>>] = "none"
  BY <1>5, <1>7 DEF Started
<1> QED BY <1>1, <1>3, <1>5, <1>7, <1>8 DEF Rewake

LEMMA UncountTypes ==
  ASSUME TypeOK, NEW b \in Batches, NEW n \in Numbers, Uncount(b, n)
  PROVE  completed' \in [Batches -> Nat] /\ results' \in [Batches -> [Numbers -> Nat]]
<1>0. completed \in [Batches -> Nat] /\ results \in [Batches -> [Numbers -> Nat]]
  BY DEF TypeOK
<1>1. CASE completed[b] > 0
  <2>1. /\ completed' = [completed EXCEPT ![b] = @ - 1]
        /\ results' = [results EXCEPT ![b][n] = 0]
    BY <1>1 DEF Uncount
  <2>2. completed[b] - 1 \in Nat
    BY <1>0, <1>1
  <2> QED BY <1>0, <2>1, <2>2
<1>2. CASE ~(completed[b] > 0)
  BY <1>0, <1>2 DEF Uncount
<1> QED BY <1>1, <1>2

LEMMA StateTypes ==
  ASSUME TypeOK, NEW b \in Batches, NEW n \in Numbers, NEW s \in States,
         state' = [state EXCEPT ![b][n] = s]
  PROVE  state' \in [Batches -> [Numbers -> States]]
BY DEF TypeOK

LEMMA TypesKept == ASSUME BatchesInv, Next PROVE TypeOK'
<1>0. TypeOK /\ 0 \in Nat
  BY DEF BatchesInv
<1>1. ASSUME NEW S \in SUBSET Numbers, NEW plain \in BOOLEAN, Spawn(S, plain) PROVE TypeOK'
  <2> DEFINE b == opened + 1
  <2>1. b \in Batches /\ opened' = b /\ opened' \in 0..MaxBatches
    BY <1>0, <1>1, ConstantTypes DEF Spawn, TypeOK, Batches
  <2>2. table' \in [Numbers -> 0..MaxBatches]
    BY <1>0, <1>1, <2>1, ConstantTypes DEF Spawn, TypeOK, Batches
  <2>3. state' \in [Batches -> [Numbers -> States]]
    BY <1>0, <1>1, <2>1 DEF Spawn, TypeOK, States
  <2>4. at' \in [Runs -> {"none", "created", "working", "closing", "over"}]
    BY <1>0, <1>1 DEF Spawn, TypeOK
  <2>5. /\ jobs' \in SUBSET Batches /\ cancellers' \in SUBSET Batches
        /\ spawned' \in SUBSET Batches /\ void' \in SUBSET Batches
    BY <1>0, <1>1, <2>1 DEF Spawn, TypeOK
  <2> QED BY <1>0, <1>1, <2>1, <2>2, <2>3, <2>4, <2>5 DEF Spawn, TypeOK, disk
<1>2. ASSUME NEW n \in Numbers, Cancel(n) PROVE TypeOK'
  <2>1. PICK b \in Batches, k \in 1..MaxRuns :
          /\ <<b, n, k>> \in Runs /\ state' = [state EXCEPT ![b][n] = "ended"]
          /\ cancelling' = cancelling \cup {<<b, n, k>>}
    BY <1>2, CancelFacts
  <2>2. state' \in [Batches -> [Numbers -> States]]
    BY <1>0, <2>1, StateTypes DEF States
  <2>3. cancelling' \in SUBSET Runs
    BY <1>0, <2>1 DEF TypeOK
  <2> QED BY <1>0, <1>2, <2>2, <2>3 DEF Cancel, TypeOK, disk
<1>3. ASSUME NEW n \in Numbers, Rewake(n) PROVE TypeOK'
  <2>1. PICK b \in Batches, k \in 1..MaxRuns :
          /\ at' = [at EXCEPT ![<<b, n, k + 1>>] = "created"]
          /\ state' = [state EXCEPT ![b][n] = "running"]
          /\ announced' = announced \ {b}
          /\ void' = IF Busy(b, n) THEN void \cup {b} ELSE void
          /\ Uncount(b, n)
    BY <1>3, RewakeFacts
  <2>2. state' \in [Batches -> [Numbers -> States]]
    BY <1>0, <2>1, StateTypes DEF States
  <2>3. completed' \in [Batches -> Nat] /\ results' \in [Batches -> [Numbers -> Nat]]
    BY <1>0, <2>1, UncountTypes
  <2>4. at' \in [Runs -> {"none", "created", "working", "closing", "over"}]
    BY <1>0, <2>1 DEF TypeOK
  <2>5. announced' \in SUBSET Batches /\ void' \in SUBSET Batches
    BY <1>0, <2>1 DEF TypeOK
  <2> QED BY <1>0, <1>3, <2>2, <2>3, <2>4, <2>5 DEF Rewake, TypeOK, disk
<1>4. ASSUME NEW r \in Runs, RunStarts(r) PROVE TypeOK'
  BY <1>0, <1>4 DEF RunStarts, TypeOK, managerVars, disk
<1>5. ASSUME NEW r \in Runs, NeverStarts(r) PROVE TypeOK'
  BY <1>0, <1>5, RunIs DEF NeverStarts, TypeOK, managerVars, disk
<1>6. ASSUME NEW r \in Runs, RunEnds(r) PROVE TypeOK'
  <2>1. state' \in [Batches -> [Numbers -> States]]
    BY <1>0, <1>6, RunIs, StateTypes DEF RunEnds, Ends, States
  <2> QED BY <1>0, <1>6, <2>1 DEF RunEnds, TypeOK, disk
<1>7. ASSUME NEW r \in Runs, Count(r) PROVE TypeOK'
  <2>0. Batch(r) \in Batches /\ Number(r) \in Numbers
    BY RunIs
  <2>1. completed' \in [Batches -> Nat]
    BY <1>0, <1>7, <2>0 DEF Count, TypeOK
  <2>2. results' \in [Batches -> [Numbers -> Nat]]
    BY <1>0, <1>7, <2>0 DEF Count, TypeOK
  <2>3. announced' \in SUBSET Batches /\ jobs' \in SUBSET Batches
    BY <1>0, <1>7, <2>0 DEF Count, TypeOK, JobsWithout
  <2>4. at' \in [Runs -> {"none", "created", "working", "closing", "over"}]
    BY <1>0, <1>7 DEF Count, TypeOK
  <2> QED BY <1>0, <1>7, <2>1, <2>2, <2>3, <2>4 DEF Count, TypeOK, disk
<1>8. ASSUME Save PROVE TypeOK'
  <2>1. saved' \in Snapshots
    BY <1>0, <1>8 DEF Save, TypeOK, Snapshots
  <2> QED BY <1>0, <1>8, <2>1, BatchesAssumption DEF Save, TypeOK, managerVars
<1>9. ASSUME Restart PROVE TypeOK'
  <2>1. /\ saved.table \in [Numbers -> 0..MaxBatches]
        /\ saved.state \in [Batches -> [Numbers -> States]]
        /\ saved.completed \in [Batches -> Nat]
    BY <1>0 DEF TypeOK, Snapshots
  <2>2. state' \in [Batches -> [Numbers -> States]]
    BY <1>9, <2>1 DEF Restart, Loaded, States
  <2>3. results' \in [Batches -> [Numbers -> Nat]]
    BY <1>9, <1>0 DEF Restart, NoResults
  <2>4. void' \in SUBSET Batches
    BY <1>0, <1>9, ConstantTypes DEF Restart, TypeOK, Batches
  <2> QED BY <1>0, <1>9, <2>1, <2>2, <2>3, <2>4 DEF Restart, TypeOK, disk
<1> QED BY <1>1, <1>2, <1>3, <1>4, <1>5, <1>6, <1>7, <1>8, <1>9 DEF Next

-----------------------------------------------------------------------------
(* Every step keeps the invariant of every batch                           *)

LEMMA BusyMeans ==
  ASSUME NEW b, NEW n
  PROVE  Busy(b, n) <=> \E g \in 1..MaxRuns : Uncounted(<<b, n, g>>)
<1>1. ASSUME NEW g \in 1..MaxRuns, Uncounted(<<b, n, g>>) PROVE at[<<b, n, g>>] # "none"
  BY <1>1 DEF Uncounted, Live
<1> QED BY <1>1 DEF Busy, Started

(* A run that goes on, or ends, leaves the numbering of runs alone. *)
LEMMA RunMoves ==
  ASSUME TypeOK, NEW r \in Runs, NEW v, v # "none", at[r] # "none",
         at' = [at EXCEPT ![r] = v]
  PROVE  \A b \in Batches, n \in Numbers : Started(b, n)' = Started(b, n)
<1>1. \A q \in Runs : at'[q] # "none" <=> at[q] # "none"
  BY DEF TypeOK
<1>2. \A b \in Batches, n \in Numbers, g \in 1..MaxRuns : <<b, n, g>> \in Runs
  BY DEF Runs
<1> QED BY <1>1, <1>2 DEF Started

LEMMA InitKeeps == ASSUME Init, NEW b \in Batches PROVE BatchInv(b)
<1>1. \A n \in Numbers, g \in 1..MaxRuns : at[<<b, n, g>>] = "none"
  BY DEF Init, Runs
<1>2. \A n \in Numbers : Started(b, n) = {} /\ ~Busy(b, n)
  BY <1>1 DEF Started, Busy
<1>3. \A n \in Numbers : state[b][n] = "none" /\ saved.state[b][n] = "none"
  BY DEF Init, Nobody, Unsaved
<1>4. completed[b] = 0 /\ saved.completed[b] = 0 /\ results[b] = NoResults[b]
  BY DEF Init, Unsaved
<1>5. RunsAreNumbered(b)
  <2>1. 0 \in 0..MaxRuns /\ 1..0 = {}
    BY ConstantTypes
  <2>2. b \notin spawned
    BY DEF Init
  <2> QED BY <1>2, <2>1, <2>2 DEF RunsAreNumbered
<1>6. RunningGoesOn(b)
  BY <1>3 DEF RunningGoesOn
<1>7. CancelledIsLive(b) /\ EarlierRunsAreOver(b) /\ LiveIsRunning(b)
  BY <1>1 DEF CancelledIsLive, EarlierRunsAreOver, LiveIsRunning, Init, Live
<1>f. FirstIsRunning(b)
  <2>1. 1 \in 1..MaxRuns
    BY ConstantTypes
  <2> QED BY <1>1, <2>1 DEF FirstIsRunning, Live
<1>8. OverIsCounted(b) /\ AnnouncedIsOver(b)
  BY <1>2 DEF OverIsCounted, AnnouncedIsOver, Init
<1>9. UnopenedIsNew(b)
  BY <1>3, <1>4 DEF UnopenedIsNew, Init
<1> QED BY <1>5, <1>6, <1>7, <1>f, <1>8, <1>9 DEF BatchInv

(* The batch that Spawn opens, with the delegates S. *)
NewBatch(b, S) ==
  /\ b = opened + 1 /\ opened' = b /\ b > opened
  /\ \A n \in Numbers : state'[b][n] = IF n \in S THEN "running" ELSE "none"
  /\ \A n \in Numbers : Started(b, n) = {}
  /\ \A n \in Numbers, g \in 1..MaxRuns :
       at'[<<b, n, g>>] = IF n \in S /\ g = 1 THEN "created" ELSE "none"
  /\ \A n \in Numbers, g \in 1..MaxRuns : <<b, n, g>> \notin cancelling
  /\ b \notin announced
  /\ completed[b] = 0 /\ results[b] = NoResults[b]
  /\ \A n \in Numbers : saved.state[b][n] = "none"
  /\ \A c \in Batches \ {b} : Aside(c)

LEMMA SpawnFacts ==
  ASSUME BatchesInv, NEW S \in SUBSET Numbers, NEW plain \in BOOLEAN, Spawn(S, plain)
  PROVE  \E b \in Batches : NewBatch(b, S)
<1> DEFINE b == opened + 1
<1>0. TypeOK /\ opened \in Nat
  BY ConstantTypes DEF BatchesInv, TypeOK
<1>1. b \in Batches /\ opened' = b /\ b > opened
  BY <1>0, ConstantTypes DEF Spawn
<1>2. UnopenedIsNew(b) /\ RunsAreNumbered(b) /\ CancelledIsLive(b)
  BY <1>1 DEF BatchesInv, BatchInv
<1>3. /\ b \notin spawned \cup announced \cup void
      /\ completed[b] = 0 /\ results[b] = NoResults[b]
      /\ \A n \in Numbers : saved.state[b][n] = "none"
  BY <1>1, <1>2 DEF UnopenedIsNew
<1>4. \A n \in Numbers : Started(b, n) = {}
  <2>1. ASSUME NEW n \in Numbers PROVE Started(b, n) = {}
    <3>1. PICK k \in 0..MaxRuns : Started(b, n) = 1..k /\ (k > 0 <=> b \in spawned /\ n \in Members(b))
      BY <1>2 DEF RunsAreNumbered
    <3>2. k = 0
      BY <1>3, <3>1, ConstantTypes
    <3> QED BY <3>1, <3>2
  <2> QED BY <2>1
<1>5. \A n \in Numbers, g \in 1..MaxRuns : at[<<b, n, g>>] = "none"
  BY <1>4 DEF Started
<1>6. \A n \in Numbers, g \in 1..MaxRuns : <<b, n, g>> \notin cancelling
  BY <1>2, <1>5 DEF CancelledIsLive, Live
<1>7. \A n \in Numbers : state'[b][n] = IF n \in S THEN "running" ELSE "none"
  BY <1>0, <1>1 DEF Spawn, TypeOK
<1>8. ASSUME NEW c \in Batches, NEW n \in Numbers, NEW g \in 1..MaxRuns
      PROVE  /\ <<c, n, g>> \in Runs
             /\ at'[<<c, n, g>>] = IF c = b /\ n \in S /\ g = 1 THEN "created" ELSE at[<<c, n, g>>]
  <2>1. <<c, n, g>> \in Runs
    BY DEF Runs
  <2>2. <<c, n, g>> \in {b} \X S \X {1} <=> c = b /\ n \in S /\ g = 1
    OBVIOUS
  <2>3. at' = [r \in Runs |-> IF r \in {b} \X S \X {1} THEN "created" ELSE at[r]]
    BY DEF Spawn
  <2> QED BY <2>1, <2>2, <2>3
<1>9. ASSUME NEW c \in Batches \ {b} PROVE Aside(c)
  <2>1. state'[c] = state[c]
    BY <1>0, <1>1 DEF Spawn, TypeOK
  <2>2. /\ c \in spawned' <=> c \in spawned
        /\ c \in announced' <=> c \in announced
        /\ c \in void' <=> c \in void
        /\ completed' = completed /\ results' = results /\ saved' = saved
        /\ cancelling' = cancelling
    BY DEF Spawn, disk
  <2>3. opened' >= opened
    BY <1>0, <1>1
  <2> QED BY <1>8, <2>1, <2>2, <2>3 DEF Aside
<1>10. \A n \in Numbers, g \in 1..MaxRuns :
         at'[<<b, n, g>>] = IF n \in S /\ g = 1 THEN "created" ELSE "none"
  BY <1>1, <1>5, <1>8
<1> QED BY <1>1, <1>3, <1>4, <1>6, <1>7, <1>9, <1>10 DEF NewBatch

LEMMA SpawnKeeps ==
  ASSUME BatchesInv, NEW S \in SUBSET Numbers, NEW plain \in BOOLEAN, Spawn(S, plain),
         NEW c \in Batches
  PROVE  BatchInv(c)'
<1>0. TypeOK /\ TypeOK' /\ opened \in Nat /\ opened' \in Nat /\ BatchInv(c)
  <2>1. TypeOK'
    BY TypesKept DEF Next
  <2> QED BY <2>1, ConstantTypes DEF BatchesInv, TypeOK
<1>a. PICK b \in Batches : NewBatch(b, S)
  BY SpawnFacts
<1>1. /\ b = opened + 1 /\ opened' = b /\ b > opened
      /\ \A n \in Numbers : state'[b][n] = IF n \in S THEN "running" ELSE "none"
      /\ \A n \in Numbers : Started(b, n) = {}
      /\ \A n \in Numbers, g \in 1..MaxRuns :
           at'[<<b, n, g>>] = IF n \in S /\ g = 1 THEN "created" ELSE "none"
      /\ \A n \in Numbers, g \in 1..MaxRuns : <<b, n, g>> \notin cancelling
      /\ b \notin announced
      /\ completed[b] = 0 /\ results[b] = NoResults[b]
      /\ \A n \in Numbers : saved.state[b][n] = "none"
      /\ \A d \in Batches \ {b} : Aside(d)
  BY <1>a DEF NewBatch
<1>2. CASE c # b
  BY <1>0, <1>1, <1>2, OthersAside
<1>3. CASE c = b
  <2>0. /\ b \in spawned' /\ cancelling' = cancelling /\ announced' = announced
        /\ completed' = completed /\ results' = results
    BY <1>1 DEF Spawn, disk
  <2>1. \A n \in Numbers : n \in Members(b)' <=> n \in S
    BY <1>1 DEF Members
  <2>2. 1 \in 1..MaxRuns
    BY ConstantTypes
  <2>3. \A n \in Numbers : Started(b, n)' = IF n \in S THEN {1} ELSE {}
    BY <1>1, <2>2 DEF Started
  <2>4. RunsAreNumbered(b)'
    <3>1. /\ 1..0 = {} /\ 1..1 = {1} /\ 0 \in 0..MaxRuns /\ 1 \in 0..MaxRuns
          /\ ~(0 > 0) /\ 1 > 0
      BY ConstantTypes
    <3>2. SUFFICES ASSUME NEW n \in Numbers
                   PROVE  \E k \in 0..MaxRuns :
                            /\ Started(b, n)' = 1..k
                            /\ k > 0 <=> b \in spawned' /\ n \in Members(b)'
      BY DEF RunsAreNumbered
    <3>3. CASE n \in S
      BY <2>0, <2>1, <2>3, <3>1, <3>3
    <3>4. CASE n \notin S
      BY <2>0, <2>1, <2>3, <3>1, <3>4
    <3> QED BY <3>3, <3>4
  <2>5. ASSUME NEW n \in Numbers, NEW g \in 1..MaxRuns
        PROVE  /\ Live(<<b, n, g>>)' <=> n \in S /\ g = 1
               /\ Uncounted(<<b, n, g>>)' <=> n \in S /\ g = 1
    BY <1>1 DEF Live, Uncounted
  <2>6. RunningGoesOn(b)'
    <3>1. SUFFICES ASSUME NEW n \in Numbers, n \in S
                   PROVE  Live(Latest(b, n))' /\ Latest(b, n)' \notin cancelling'
      BY <1>1, <2>0 DEF RunningGoesOn
    <3>2. Max(1..1) = 1
      <4>1. 1 \in Nat \ {0}
        OBVIOUS
      <4> QED BY <4>1, MaxOfInterval
    <3>3. 1..1 = {1}
      OBVIOUS
    <3>4. Started(b, n)' = 1..1
      BY <2>3, <3>1, <3>3
    <3>5. Latest(b, n)' = <<b, n, 1>>
      BY <3>2, <3>4 DEF Latest
    <3> QED BY <1>1, <2>0, <2>2, <2>5, <3>1, <3>5 DEF Live
  <2>7. CancelledIsLive(b)'
    BY <1>1, <2>0 DEF CancelledIsLive
  <2>8. EarlierRunsAreOver(b)'
    BY <1>1, <2>5 DEF EarlierRunsAreOver
  <2>9. LiveIsRunning(b)'
    BY <1>1, <2>5 DEF LiveIsRunning
  <2>f. FirstIsRunning(b)'
    <3>1. 1 \in 1..MaxRuns
      BY ConstantTypes
    <3>2. \A n \in Numbers, h \in 1..MaxRuns : h # 1 => at'[<<b, n, h>>] = "none"
      BY <1>1
    <3>3. \A n \in Numbers : Live(<<b, n, 1>>)' => state'[b][n] = "running"
      BY <1>1, <2>5, <3>1
    <3> QED BY <3>2, <3>3 DEF FirstIsRunning
  <2>10. \A n \in S : Busy(b, n)'
    <3>1. ASSUME NEW n \in S PROVE Busy(b, n)'
      <4>1. Uncounted(<<b, n, 1>>)'
        BY <2>2, <2>5
      <4> QED BY <2>3, <4>1 DEF Busy
    <3> QED BY <3>1
  <2>11. Over(b)' = {}
    <3>1. Members(b)' \subseteq S
      BY <2>1 DEF Members
    <3> QED BY <2>10, <3>1 DEF Over
  <2>12. OverIsCounted(b)'
    BY <1>1, <2>0, <2>11, FS_EmptySet DEF OverIsCounted, NoResults
  <2>13. AnnouncedIsOver(b)' /\ UnopenedIsNew(b)'
    BY <1>0, <1>1, <2>0 DEF AnnouncedIsOver, UnopenedIsNew
  <2> QED BY <1>3, <2>4, <2>6, <2>7, <2>8, <2>9, <2>f, <2>12, <2>13 DEF BatchInv
<1> QED BY <1>2, <1>3

(* A step of one run, which touches its own batch alone. *)
Goes(b, n, g, place) == at' = [at EXCEPT ![<<b, n, g>>] = place]

LEMMA SpawnedIsOpened ==
  ASSUME NEW b \in Batches, BatchInv(b), opened \in Nat, b \in spawned
  PROVE  b <= opened
BY ConstantTypes DEF BatchInv, UnopenedIsNew

LEMMA RunOfMember ==
  ASSUME NEW b \in Batches, BatchInv(b), NEW n \in Numbers, NEW g \in 1..MaxRuns,
         at[<<b, n, g>>] # "none"
  PROVE  b \in spawned /\ n \in Members(b)
<1>1. PICK k \in 0..MaxRuns : Started(b, n) = 1..k /\ (k > 0 <=> b \in spawned /\ n \in Members(b))
  BY DEF BatchInv, RunsAreNumbered
<1>2. g \in 1..k
  BY <1>1 DEF Started
<1> QED BY <1>1, <1>2, ConstantTypes

LEMMA CancelKeeps ==
  ASSUME BatchesInv, NEW n \in Numbers, Cancel(n), NEW c \in Batches
  PROVE  BatchInv(c)'
<1>0. /\ TypeOK /\ opened \in Nat /\ BatchInv(c)
      /\ opened' = opened /\ spawned' = spawned /\ announced' = announced /\ void' = void
      /\ completed' = completed /\ results' = results /\ saved' = saved /\ at' = at
  BY ConstantTypes DEF BatchesInv, TypeOK, Cancel, disk
<1>1. PICK b \in Batches, k \in 1..MaxRuns :
        /\ b = table[n] /\ b \in spawned /\ state[b][n] = "running"
        /\ Started(b, n) = 1..k
        /\ <<b, n, k>> \in Runs /\ Live(<<b, n, k>>)
        /\ state' = [state EXCEPT ![b][n] = "ended"]
        /\ cancelling' = cancelling \cup {<<b, n, k>>}
  BY CancelFacts
<1>2. CASE c # b
  <2>1. Aside(c)
    <3>1. state'[c] = state[c]
      BY <1>0, <1>1, <1>2 DEF TypeOK
    <3>2. \A m \in Numbers, g \in 1..MaxRuns :
            <<c, m, g>> \in cancelling' <=> <<c, m, g>> \in cancelling
      BY <1>1, <1>2
    <3> QED BY <1>0, <3>1, <3>2 DEF Aside
  <2> QED BY <1>0, <2>1, OthersAside
<1>3. CASE c = b
  <2>0. BatchInv(b)
    BY <1>0, <1>3
  <2>1. \A m \in Numbers : state'[b][m] = IF m = n THEN "ended" ELSE state[b][m]
    BY <1>0, <1>1 DEF TypeOK
  <2>2. Members(b)' = Members(b)
    BY <1>1, <2>1 DEF Members
  <2>3. \A m \in Numbers : Started(b, m)' = Started(b, m) /\ Latest(b, m)' = Latest(b, m)
    BY <1>0 DEF Started, Latest
  <2>4. \A m \in Numbers, g \in 1..MaxRuns :
          /\ Live(<<b, m, g>>)' <=> Live(<<b, m, g>>)
          /\ Uncounted(<<b, m, g>>)' <=> Uncounted(<<b, m, g>>)
    BY <1>0 DEF Live, Uncounted
  <2>5. \A m \in Numbers : Busy(b, m)' <=> Busy(b, m)
    BY <2>4, BusyMeans DEF Busy, Started, Uncounted, Live
  <2>6. Over(b)' = Over(b)
    BY <2>2, <2>5 DEF Over, Members
  <2>7. RunsAreNumbered(b)'
    BY <1>0, <2>0, <2>2, <2>3 DEF BatchInv, RunsAreNumbered
  <2>8. RunningGoesOn(b)'
    <3>1. SUFFICES ASSUME NEW m \in Numbers, state'[b][m] = "running"
                   PROVE  b \in spawned' /\ Live(Latest(b, m))' /\ Latest(b, m)' \notin cancelling'
      BY DEF RunningGoesOn
    <3>2. m # n /\ state[b][m] = "running"
      BY <2>1, <3>1
    <3>3. Live(Latest(b, m)) /\ Latest(b, m) \notin cancelling
      BY <2>0, <3>2 DEF BatchInv, RunningGoesOn
    <3>4. Latest(b, m) # <<b, n, k>>
      BY <3>2 DEF Latest
    <3>5. Live(Latest(b, m))'
      BY <1>0, <2>3, <3>3 DEF Live
    <3> QED BY <1>0, <1>1, <2>3, <3>3, <3>4, <3>5
  <2>9. CancelledIsLive(b)'
    BY <1>1, <2>0, <2>4 DEF BatchInv, CancelledIsLive
  <2>10. EarlierRunsAreOver(b)'
    BY <1>0, <2>0, <2>4 DEF BatchInv, EarlierRunsAreOver
  <2>11. LiveIsRunning(b)'
    <3>1. SUFFICES ASSUME b \notin void, NEW m \in Numbers, NEW g \in 1..MaxRuns,
                          Live(<<b, m, g>>), <<b, m, g>> \notin cancelling'
                   PROVE  state'[b][m] = "running"
      BY <1>0, <2>4 DEF LiveIsRunning
    <3>2. state[b][m] = "running"
      BY <1>1, <2>0, <3>1 DEF BatchInv, LiveIsRunning
    <3>3. CASE m = n
      <4>1. g \in Started(b, n) /\ g # k
        BY <1>1, <3>1, <3>3 DEF Started, Live
      <4>2. g < k
        BY <1>1, <4>1, ConstantTypes
      <4>3. ~Uncounted(<<b, m, g>>)
        BY <1>1, <2>0, <3>1, <3>3, <4>2 DEF BatchInv, EarlierRunsAreOver, Live
      <4> QED BY <3>1, <4>3 DEF Uncounted
    <3> QED BY <2>1, <3>2, <3>3
  <2>f. FirstIsRunning(b)'
    <3>1. SUFFICES ASSUME NEW m \in Numbers, Live(<<b, m, 1>>), <<b, m, 1>> \notin cancelling'
                   PROVE  /\ state'[b][m] = "running"
                          /\ \A h \in 1..MaxRuns : h # 1 => at[<<b, m, h>>] = "none"
      BY <1>0, <2>4, ConstantTypes DEF FirstIsRunning
    <3>2. /\ state[b][m] = "running"
          /\ \A h \in 1..MaxRuns : h # 1 => at[<<b, m, h>>] = "none"
      BY <1>1, <2>0, <3>1 DEF BatchInv, FirstIsRunning
    <3>3. m # n
      <4>1. SUFFICES ASSUME m = n PROVE FALSE
        OBVIOUS
      <4>2. k # 1
        BY <1>1, <3>1, <4>1
      <4>3. k \in Started(b, n)
        BY <1>1, ConstantTypes
      <4> QED BY <3>2, <4>1, <4>2, <4>3 DEF Started
    <3> QED BY <2>1, <3>2, <3>3
  <2>12. OverIsCounted(b)'
    BY <1>0, <2>0, <2>6 DEF BatchInv, OverIsCounted
  <2>13. AnnouncedIsOver(b)'
    BY <1>0, <2>0, <2>5 DEF BatchInv, AnnouncedIsOver
  <2>14. UnopenedIsNew(b)'
    BY <1>0, <1>1, <2>0, SpawnedIsOpened, ConstantTypes DEF UnopenedIsNew
  <2> QED BY <1>3, <2>7, <2>8, <2>9, <2>10, <2>11, <2>f, <2>12, <2>13, <2>14 DEF BatchInv
<1> QED BY <1>2, <1>3

LEMMA RewakeKeeps ==
  ASSUME BatchesInv, NEW n \in Numbers, Rewake(n), NEW c \in Batches
  PROVE  BatchInv(c)'
<1>0. /\ TypeOK /\ opened \in Nat /\ BatchInv(c)
      /\ opened' = opened /\ spawned' = spawned /\ saved' = saved
      /\ cancelling' = cancelling
  BY ConstantTypes DEF BatchesInv, TypeOK, Rewake, disk
<1>1. PICK b \in Batches, k \in 1..MaxRuns :
           /\ b = table[n] /\ b \in spawned /\ b <= opened /\ n \in Members(b)
           /\ state[b][n] # "running"
           /\ k + 1 \in 1..MaxRuns /\ Started(b, n) = 1..k
           /\ <<b, n, k + 1>> \in Runs /\ at[<<b, n, k + 1>>] = "none"
           /\ at' = [at EXCEPT ![<<b, n, k + 1>>] = "created"]
           /\ state' = [state EXCEPT ![b][n] = "running"]
           /\ announced' = announced \ {b}
           /\ void' = IF Busy(b, n) THEN void \cup {b} ELSE void
           /\ Uncount(b, n)
  BY RewakeFacts
<1>2. \A d \in Batches, m \in Numbers, h \in 1..MaxRuns :
        at'[<<d, m, h>>] = IF d = b /\ m = n /\ h = k + 1 THEN "created" ELSE at[<<d, m, h>>]
  <2>1. PICK g \in 1..MaxRuns : g = k + 1 /\ Goes(b, n, g, "created")
    BY <1>1 DEF Goes
  <2>2. TypeOK
    BY <1>0
  <2>3. \A d \in Batches, m \in Numbers, h \in 1..MaxRuns :
          at'[<<d, m, h>>] = IF d = b /\ m = n /\ h = g THEN "created" ELSE at[<<d, m, h>>]
    <3>1. \A d \in Batches, m \in Numbers, h \in 1..MaxRuns : <<d, m, h>> \in Runs
      BY DEF Runs
    <3> QED BY <2>1, <2>2, <3>1 DEF Goes, TypeOK
  <2> QED BY <2>1, <2>3
<1>3. CASE c # b
  <2>1. state'[c] = state[c]
    BY <1>0, <1>1, <1>3 DEF TypeOK
  <2>2. completed'[c] = completed[c] /\ results'[c] = results[c]
    BY <1>0, <1>1, <1>3 DEF TypeOK, Uncount
  <2>3. Aside(c)
    BY <1>0, <1>1, <1>2, <1>3, <2>1, <2>2 DEF Aside
  <2> QED BY <1>0, <2>3, OthersAside
<1>4. CASE c = b
  <2>0. BatchInv(b)
    BY <1>0, <1>4
  <2>1. \A m \in Numbers : state'[b][m] = IF m = n THEN "running" ELSE state[b][m]
    BY <1>0, <1>1 DEF TypeOK
  <2>2. Members(b)' = Members(b)
    BY <1>1, <2>1 DEF Members
  <2>3. \A m \in Numbers : m # n => /\ Started(b, m)' = Started(b, m)
                                    /\ Latest(b, m)' = Latest(b, m)
    BY <1>2 DEF Started, Latest
  <2>4. Started(b, n)' = 1..(k + 1)
    <3>1. \A h \in 1..MaxRuns : at[<<b, n, h>>] # "none" <=> h \in 1..k
      BY <1>1 DEF Started
    <3>2. \A h \in 1..MaxRuns : at'[<<b, n, h>>] # "none" <=> h \in 1..k \/ h = k + 1
      BY <1>2, <3>1
    <3>3. \A h \in 1..MaxRuns : h \in 1..k \/ h = k + 1 <=> h \in 1..(k + 1)
      BY ConstantTypes
    <3>4. 1..(k + 1) \subseteq 1..MaxRuns
      BY <1>1, ConstantTypes
    <3> QED BY <3>2, <3>3, <3>4 DEF Started
  <2>5. Latest(b, n)' = <<b, n, k + 1>>
    <3>1. Max(1..(k + 1)) = k + 1
      BY <1>1, MaxOfInterval, ConstantTypes
    <3> QED BY <2>4, <3>1 DEF Latest
  <2>6. ASSUME NEW m \in Numbers, NEW g \in 1..MaxRuns
        PROVE  /\ Live(<<b, m, g>>)' <=> Live(<<b, m, g>>) \/ (m = n /\ g = k + 1)
               /\ Uncounted(<<b, m, g>>)' <=> Uncounted(<<b, m, g>>) \/ (m = n /\ g = k + 1)
    BY <1>1, <1>2 DEF Live, Uncounted
  <2>7. /\ \A m \in Numbers : m # n => (Busy(b, m)' <=> Busy(b, m))
        /\ Busy(b, n)'
    <3>1. \A m \in Numbers : Busy(b, m)' <=> \E g \in 1..MaxRuns : Uncounted(<<b, m, g>>)'
      BY BusyMeans DEF Busy, Started, Uncounted, Live
    <3>2. \A m \in Numbers : Busy(b, m) <=> \E g \in 1..MaxRuns : Uncounted(<<b, m, g>>)
      BY BusyMeans
    <3> QED BY <1>1, <2>6, <3>1, <3>2
  <2>8. Over(b)' = Over(b) \ {n}
    BY <2>2, <2>7 DEF Over, Members
  <2>9. RunsAreNumbered(b)'
    <3>1. SUFFICES ASSUME NEW m \in Numbers
                   PROVE  \E j \in 0..MaxRuns :
                            /\ Started(b, m)' = 1..j
                            /\ j > 0 <=> b \in spawned' /\ m \in Members(b)'
      BY DEF RunsAreNumbered
    <3>2. CASE m = n
      BY <1>0, <1>1, <2>2, <2>4, <3>2, ConstantTypes
    <3>3. CASE m # n
      BY <1>0, <2>0, <2>2, <2>3, <3>3 DEF BatchInv, RunsAreNumbered
    <3> QED BY <3>2, <3>3
  <2>10. \A g \in 1..MaxRuns : g = k + 1 => <<b, n, g>> \notin cancelling
    BY <1>1, <2>0 DEF BatchInv, CancelledIsLive, Live
  <2>11. RunningGoesOn(b)'
    <3>1. SUFFICES ASSUME NEW m \in Numbers, state'[b][m] = "running"
                   PROVE  b \in spawned' /\ Live(Latest(b, m))' /\ Latest(b, m)' \notin cancelling'
      BY DEF RunningGoesOn
    <3>2. CASE m = n
      <4>1. at'[<<b, n, k + 1>>] = "created"
        BY <1>1, <1>2
      <4> QED BY <1>0, <1>1, <2>5, <2>10, <3>2, <4>1 DEF Live
    <3>3. CASE m # n
      <4>1. Live(Latest(b, m)) /\ Latest(b, m) \notin cancelling
        BY <2>0, <2>1, <3>1, <3>3 DEF BatchInv, RunningGoesOn
      <4>2. Latest(b, m) # <<b, n, k + 1>>
        BY <3>3 DEF Latest
      <4>3. at'[Latest(b, m)] = at[Latest(b, m)]
        BY <1>0, <1>1, <4>2 DEF TypeOK
      <4> QED BY <1>0, <1>1, <2>3, <3>3, <4>1, <4>3 DEF Live
    <3> QED BY <3>2, <3>3
  <2>12. CancelledIsLive(b)'
    BY <1>0, <2>0, <2>6 DEF BatchInv, CancelledIsLive
  <2>13. b \notin void' => b \notin void /\ ~Busy(b, n)
    BY <1>1
  <2>14. EarlierRunsAreOver(b)'
    <3>1. SUFFICES ASSUME b \notin void', NEW m \in Numbers, NEW g \in 1..MaxRuns,
                          NEW h \in 1..MaxRuns, g < h, at'[<<b, m, h>>] # "none"
                   PROVE  ~Uncounted(<<b, m, g>>)'
      BY DEF EarlierRunsAreOver
    <3>2. CASE m = n
      <4>1. ~Uncounted(<<b, n, g>>)
        BY <2>13, <3>1, BusyMeans
      <4>2. h \in 1..(k + 1)
        BY <2>4, <3>1, <3>2 DEF Started
      <4>3. g # k + 1
        BY <3>1, <4>2, ConstantTypes
      <4> QED BY <2>6, <3>2, <4>1, <4>3
    <3>3. CASE m # n
      <4>1. at[<<b, m, h>>] # "none"
        BY <1>2, <3>1, <3>3
      <4>2. ~Uncounted(<<b, m, g>>)
        BY <2>0, <2>13, <3>1, <4>1 DEF BatchInv, EarlierRunsAreOver
      <4> QED BY <2>6, <3>3, <4>2
    <3> QED BY <3>2, <3>3
  <2>15. LiveIsRunning(b)'
    BY <1>0, <2>0, <2>1, <2>6, <2>13 DEF BatchInv, LiveIsRunning
  <2>f. FirstIsRunning(b)'
    <3>1. SUFFICES ASSUME NEW m \in Numbers, Live(<<b, m, 1>>)', <<b, m, 1>> \notin cancelling
                   PROVE  /\ state'[b][m] = "running"
                          /\ \A h \in 1..MaxRuns : h # 1 => at'[<<b, m, h>>] = "none"
      BY <1>0 DEF FirstIsRunning
    <3>2. k + 1 # 1 /\ 1 \in 1..MaxRuns
      BY <1>1, ConstantTypes
    <3>3. Live(<<b, m, 1>>)
      BY <2>6, <3>1, <3>2
    <3>4. /\ state[b][m] = "running"
          /\ \A h \in 1..MaxRuns : h # 1 => at[<<b, m, h>>] = "none"
      BY <2>0, <3>1, <3>3 DEF BatchInv, FirstIsRunning
    <3>5. m # n
      BY <1>1, <3>4
    <3> QED BY <1>2, <2>1, <3>4, <3>5
  <2>16. OverIsCounted(b)'
    <3>1. SUFFICES ASSUME b \notin void'
                   PROVE  /\ completed'[b] = Cardinality(Over(b)')
                          /\ results'[b] = [m \in Numbers |-> IF m \in Over(b)' THEN 1 ELSE 0]
      BY DEF OverIsCounted
    <3>2. n \in Over(b) /\ IsFiniteSet(Over(b))
      BY <1>1, <2>13, <3>1, MembersAreFinite, FS_Subset DEF Over
    <3>3. Cardinality(Over(b)) \in Nat /\ Cardinality(Over(b)) # 0
      BY <3>2, FS_CardinalityType, FS_EmptySet
    <3>4. Cardinality(Over(b)') = Cardinality(Over(b)) - 1
      BY <2>8, <3>2, FS_RemoveElement
    <3>5. /\ completed[b] = Cardinality(Over(b))
          /\ results[b] = [m \in Numbers |-> IF m \in Over(b) THEN 1 ELSE 0]
      BY <1>1, <2>0, <2>13, <3>1 DEF BatchInv, OverIsCounted
    <3>6. /\ completed' = [completed EXCEPT ![b] = @ - 1]
          /\ results' = [results EXCEPT ![b][n] = 0]
      BY <1>1, <3>3, <3>5 DEF Uncount
    <3>7. completed'[b] = Cardinality(Over(b)')
      BY <1>0, <3>4, <3>5, <3>6 DEF TypeOK
    <3>8. results'[b] = [m \in Numbers |-> IF m \in Over(b)' THEN 1 ELSE 0]
      <4>1. results'[b] = [results[b] EXCEPT ![n] = 0]
        BY <1>0, <3>6 DEF TypeOK
      <4> QED BY <2>8, <3>5, <4>1
    <3> QED BY <3>7, <3>8
  <2>17. AnnouncedIsOver(b)' /\ UnopenedIsNew(b)'
    BY <1>0, <1>1, ConstantTypes DEF AnnouncedIsOver, UnopenedIsNew
  <2> QED BY <1>4, <2>9, <2>11, <2>12, <2>14, <2>15, <2>f, <2>16, <2>17 DEF BatchInv
<1> QED BY <1>3, <1>4

(* What the four steps of a run have in common: the run was started, it    *)
(* stays started, and the other batches do not notice.                     *)
LEMMA RunStep ==
  ASSUME BatchesInv, NEW b \in Batches, NEW n \in Numbers, NEW g \in 1..MaxRuns,
         NEW v, v # "none", at[<<b, n, g>>] # "none",
         Goes(b, n, g, v),
         \A c \in Batches \ {b} :
           /\ state'[c] = state[c] /\ completed'[c] = completed[c] /\ results'[c] = results[c]
           /\ c \in announced' <=> c \in announced
           /\ c \in void' <=> c \in void,
         cancelling' \in {cancelling, cancelling \ {<<b, n, g>>}},
         opened' = opened, spawned' = spawned, saved' = saved
  PROVE  /\ \A c \in Batches \ {b} : BatchInv(c)'
         /\ \A m \in Numbers : Started(b, m)' = Started(b, m) /\ Latest(b, m)' = Latest(b, m)
         /\ \A m \in Numbers, h \in 1..MaxRuns :
              at'[<<b, m, h>>] = IF m = n /\ h = g THEN v ELSE at[<<b, m, h>>]
         /\ b \in spawned /\ b <= opened /\ n \in Members(b)
<1>0. TypeOK /\ opened \in Nat /\ \A c \in Batches : BatchInv(c)
  BY ConstantTypes DEF BatchesInv, TypeOK
<1>1. \A c \in Batches, m \in Numbers, h \in 1..MaxRuns :
        at'[<<c, m, h>>] = IF c = b /\ m = n /\ h = g THEN v ELSE at[<<c, m, h>>]
  <2>1. \A c \in Batches, m \in Numbers, h \in 1..MaxRuns : <<c, m, h>> \in Runs
    BY DEF Runs
  <2> QED BY <1>0, <2>1 DEF TypeOK, Goes
<1>2. ASSUME NEW c \in Batches \ {b} PROVE BatchInv(c)'
  <2>1. \A m \in Numbers, h \in 1..MaxRuns :
          /\ at'[<<c, m, h>>] = at[<<c, m, h>>]
          /\ <<c, m, h>> \in cancelling' <=> <<c, m, h>> \in cancelling
    BY <1>1
  <2>2. Aside(c)
    BY <1>0, <2>1 DEF Aside
  <2> QED BY <1>0, <2>2, OthersAside
<1>3. \A m \in Numbers : Started(b, m)' = Started(b, m)
  BY <1>1 DEF Started
<1>4. \A m \in Numbers : Latest(b, m)' = Latest(b, m)
  BY <1>3 DEF Latest
<1>5. b \in spawned /\ n \in Members(b)
  BY <1>0, RunOfMember
<1>6. b <= opened
  BY <1>0, <1>5, SpawnedIsOpened
<1> QED BY <1>1, <1>2, <1>3, <1>4, <1>5, <1>6

(* A step of a run that changes neither who is live nor the batch. *)
LEMMA RunStartsKeeps ==
  ASSUME BatchesInv, NEW b \in Batches, NEW n \in Numbers, NEW g \in 1..MaxRuns,
         RunStarts(<<b, n, g>>), NEW c \in Batches
  PROVE  BatchInv(c)'
<1>0. /\ TypeOK /\ opened \in Nat /\ BatchInv(b)
      /\ opened' = opened /\ spawned' = spawned /\ saved' = saved /\ state' = state
      /\ completed' = completed /\ results' = results
      /\ announced' = announced /\ void' = void /\ cancelling' = cancelling
      /\ at[<<b, n, g>>] = "created" /\ at' = [at EXCEPT ![<<b, n, g>>] = "working"]
      /\ Goes(b, n, g, "working")
  BY ConstantTypes DEF BatchesInv, TypeOK, RunStarts, managerVars, disk, Goes
<1>1. /\ \A d \in Batches \ {b} : BatchInv(d)'
      /\ \A m \in Numbers : Started(b, m)' = Started(b, m) /\ Latest(b, m)' = Latest(b, m)
      /\ \A m \in Numbers, h \in 1..MaxRuns :
           at'[<<b, m, h>>] = IF m = n /\ h = g THEN "working" ELSE at[<<b, m, h>>]
  BY <1>0, RunStep
<1>2. CASE c = b
  <2>1. \A m \in Numbers, h \in 1..MaxRuns :
          /\ Live(<<b, m, h>>)' <=> Live(<<b, m, h>>)
          /\ Uncounted(<<b, m, h>>)' <=> Uncounted(<<b, m, h>>)
          /\ at'[<<b, m, h>>] # "none" <=> at[<<b, m, h>>] # "none"
    BY <1>0, <1>1 DEF Live, Uncounted
  <2>2. Members(b)' = Members(b)
    BY <1>0 DEF Members
  <2>3. \A m \in Numbers : Busy(b, m)' <=> Busy(b, m)
    BY <1>1, <2>1 DEF Busy, Started
  <2>4. Over(b)' = Over(b)
    BY <2>2, <2>3 DEF Over, Members
  <2>5. RunsAreNumbered(b)'
    BY <1>0, <1>1, <2>2 DEF BatchInv, RunsAreNumbered
  <2>6. RunningGoesOn(b)'
    <3>1. SUFFICES ASSUME NEW m \in Numbers, state[b][m] = "running"
                   PROVE  b \in spawned' /\ Live(Latest(b, m))' /\ Latest(b, m)' \notin cancelling'
      BY <1>0 DEF RunningGoesOn
    <3>2. b \in spawned /\ Live(Latest(b, m)) /\ Latest(b, m) \notin cancelling
      BY <1>0, <3>1 DEF BatchInv, RunningGoesOn
    <3>3. at'[Latest(b, m)] \in {"working", at[Latest(b, m)]}
      BY <1>0 DEF TypeOK
    <3> QED BY <1>0, <1>1, <3>2, <3>3 DEF Live
  <2>7. CancelledIsLive(b)' /\ EarlierRunsAreOver(b)' /\ LiveIsRunning(b)'
    BY <1>0, <2>1 DEF BatchInv, CancelledIsLive, EarlierRunsAreOver, LiveIsRunning
  <2>f. FirstIsRunning(b)'
    <3>1. 1 \in 1..MaxRuns
      BY ConstantTypes
    <3> QED BY <1>0, <2>1, <3>1 DEF BatchInv, FirstIsRunning
  <2>8. OverIsCounted(b)' /\ AnnouncedIsOver(b)' /\ UnopenedIsNew(b)'
    BY <1>0, <2>3, <2>4 DEF BatchInv, OverIsCounted, AnnouncedIsOver, UnopenedIsNew, NoResults
  <2> QED BY <1>2, <2>5, <2>6, <2>7, <2>f, <2>8 DEF BatchInv
<1> QED BY <1>1, <1>2

LEMMA NeverStartsKeeps ==
  ASSUME BatchesInv, NEW b \in Batches, NEW n \in Numbers, NEW g \in 1..MaxRuns,
         NeverStarts(<<b, n, g>>), NEW c \in Batches
  PROVE  BatchInv(c)'
<1>0. /\ TypeOK /\ opened \in Nat /\ BatchInv(b)
      /\ opened' = opened /\ spawned' = spawned /\ saved' = saved /\ state' = state
      /\ completed' = completed /\ results' = results
      /\ announced' = announced /\ void' = void \cup {b}
      /\ <<b, n, g>> \in cancelling /\ cancelling' = cancelling \ {<<b, n, g>>}
      /\ at[<<b, n, g>>] = "created" /\ at' = [at EXCEPT ![<<b, n, g>>] = "over"]
      /\ Goes(b, n, g, "over")
  BY ConstantTypes DEF BatchesInv, TypeOK, NeverStarts, managerVars, disk, Batch, Goes
<1>1. /\ \A d \in Batches \ {b} : BatchInv(d)'
      /\ \A m \in Numbers : Started(b, m)' = Started(b, m) /\ Latest(b, m)' = Latest(b, m)
      /\ \A m \in Numbers, h \in 1..MaxRuns :
           at'[<<b, m, h>>] = IF m = n /\ h = g THEN "over" ELSE at[<<b, m, h>>]
      /\ b <= opened
  BY <1>0, RunStep
<1>2. CASE c = b
  <2>1. Members(b)' = Members(b)
    BY <1>0 DEF Members
  <2>2. RunsAreNumbered(b)'
    BY <1>0, <1>1, <2>1 DEF BatchInv, RunsAreNumbered
  <2>3. RunningGoesOn(b)'
    <3>1. SUFFICES ASSUME NEW m \in Numbers, state[b][m] = "running"
                   PROVE  b \in spawned' /\ Live(Latest(b, m))' /\ Latest(b, m)' \notin cancelling'
      BY <1>0 DEF RunningGoesOn
    <3>2. b \in spawned /\ Live(Latest(b, m)) /\ Latest(b, m) \notin cancelling
      BY <1>0, <3>1 DEF BatchInv, RunningGoesOn
    <3>3. at'[Latest(b, m)] = at[Latest(b, m)]
      <4>1. Latest(b, m) # <<b, n, g>>
        BY <1>0, <3>2
      <4>2. at \in [Runs -> {"none", "created", "working", "closing", "over"}]
        BY <1>0 DEF TypeOK
      <4> QED BY <1>0, <4>1, <4>2
    <3> QED BY <1>0, <1>1, <3>2, <3>3 DEF Live
  <2>4. CancelledIsLive(b)'
    BY <1>0, <1>1 DEF BatchInv, CancelledIsLive, Live
  <2>5. EarlierRunsAreOver(b)' /\ LiveIsRunning(b)' /\ OverIsCounted(b)' /\ AnnouncedIsOver(b)'
    BY <1>0 DEF EarlierRunsAreOver, LiveIsRunning, OverIsCounted, AnnouncedIsOver
  <2>f. FirstIsRunning(b)'
    <3>1. 1 \in 1..MaxRuns
      BY ConstantTypes
    <3>2. \A m \in Numbers, h \in 1..MaxRuns :
            /\ Live(<<b, m, h>>)' => Live(<<b, m, h>>) /\ ~(m = n /\ h = g)
            /\ at[<<b, m, h>>] = "none" => at'[<<b, m, h>>] = "none"
      BY <1>0, <1>1 DEF Live
    <3> QED BY <1>0, <3>1, <3>2 DEF BatchInv, FirstIsRunning
  <2>6. UnopenedIsNew(b)'
    BY <1>0, <1>1, ConstantTypes DEF UnopenedIsNew
  <2> QED BY <1>2, <2>2, <2>3, <2>4, <2>5, <2>f, <2>6 DEF BatchInv
<1> QED BY <1>1, <1>2

LEMMA RunEndsKeeps ==
  ASSUME BatchesInv, NEW b \in Batches, NEW n \in Numbers, NEW g \in 1..MaxRuns,
         RunEnds(<<b, n, g>>), NEW c \in Batches
  PROVE  BatchInv(c)'
<1>0. /\ TypeOK /\ opened \in Nat /\ BatchInv(b)
      /\ opened' = opened /\ spawned' = spawned /\ saved' = saved
      /\ completed' = completed /\ results' = results
      /\ announced' = announced /\ void' = void
      /\ cancelling' = cancelling \ {<<b, n, g>>}
      /\ state' = [state EXCEPT ![b][n] = "ended"]
      /\ at[<<b, n, g>>] = "working" /\ Goes(b, n, g, "closing")
  BY ConstantTypes DEF BatchesInv, TypeOK, RunEnds, Ends, disk, Batch, Number, Goes
<1>1. /\ \A d \in Batches : state'[d] = IF d = b THEN [state[b] EXCEPT ![n] = "ended"] ELSE state[d]
      /\ \A m \in Numbers : state'[b][m] = IF m = n THEN "ended" ELSE state[b][m]
  BY <1>0 DEF TypeOK
<1>2. /\ \A d \in Batches \ {b} : BatchInv(d)'
      /\ \A m \in Numbers : Started(b, m)' = Started(b, m) /\ Latest(b, m)' = Latest(b, m)
      /\ \A m \in Numbers, h \in 1..MaxRuns :
           at'[<<b, m, h>>] = IF m = n /\ h = g THEN "closing" ELSE at[<<b, m, h>>]
      /\ b \in spawned /\ b <= opened /\ n \in Members(b)
  BY <1>0, <1>1, RunStep
<1>3. CASE c = b
  <2>1. \A m \in Numbers, h \in 1..MaxRuns :
          /\ Live(<<b, m, h>>)' <=> Live(<<b, m, h>>) /\ ~(m = n /\ h = g)
          /\ Uncounted(<<b, m, h>>)' <=> Uncounted(<<b, m, h>>)
          /\ at'[<<b, m, h>>] # "none" <=> at[<<b, m, h>>] # "none"
    BY <1>0, <1>2 DEF Live, Uncounted
  <2>2. Members(b)' = Members(b)
    BY <1>1, <1>2 DEF Members
  <2>3. \A m \in Numbers : Busy(b, m)' <=> Busy(b, m)
    BY <1>2, <2>1 DEF Busy, Started
  <2>4. Over(b)' = Over(b)
    BY <2>2, <2>3 DEF Over, Members
  <2>5. RunsAreNumbered(b)'
    BY <1>0, <1>2, <2>2 DEF BatchInv, RunsAreNumbered
  <2>6. RunningGoesOn(b)'
    <3>1. SUFFICES ASSUME NEW m \in Numbers, state'[b][m] = "running"
                   PROVE  b \in spawned' /\ Live(Latest(b, m))' /\ Latest(b, m)' \notin cancelling'
      BY DEF RunningGoesOn
    <3>2. m # n /\ state[b][m] = "running"
      BY <1>1, <3>1
    <3>3. b \in spawned /\ Live(Latest(b, m)) /\ Latest(b, m) \notin cancelling
      BY <1>0, <3>2 DEF BatchInv, RunningGoesOn
    <3>4. at'[Latest(b, m)] = at[Latest(b, m)]
      <4>1. Latest(b, m) # <<b, n, g>>
        BY <3>2 DEF Latest
      <4> QED BY <1>0, <4>1 DEF TypeOK, Goes
    <3> QED BY <1>0, <1>2, <3>3, <3>4 DEF Live
  <2>7. CancelledIsLive(b)'
    BY <1>0, <2>1 DEF BatchInv, CancelledIsLive
  <2>8. EarlierRunsAreOver(b)'
    BY <1>0, <2>1 DEF BatchInv, EarlierRunsAreOver
  <2>9. LiveIsRunning(b)'
    <3>1. SUFFICES ASSUME b \notin void, NEW m \in Numbers, NEW h \in 1..MaxRuns,
                          Live(<<b, m, h>>), ~(m = n /\ h = g), <<b, m, h>> \notin cancelling'
                   PROVE  state'[b][m] = "running"
      BY <1>0, <2>1 DEF LiveIsRunning
    <3>2. <<b, m, h>> \notin cancelling
      BY <1>0, <3>1
    <3>3. state[b][m] = "running"
      BY <1>0, <3>1, <3>2 DEF BatchInv, LiveIsRunning
    <3>4. m # n
      <4>1. SUFFICES ASSUME m = n PROVE FALSE
        OBVIOUS
      <4>2. h < g \/ g < h
        BY <3>1, <4>1, ConstantTypes
      <4>3. /\ Uncounted(<<b, n, h>>) /\ Uncounted(<<b, n, g>>)
            /\ at[<<b, n, h>>] # "none" /\ at[<<b, n, g>>] # "none"
        BY <1>0, <3>1, <4>1 DEF Uncounted, Live
      <4> QED BY <1>0, <3>1, <4>2, <4>3 DEF BatchInv, EarlierRunsAreOver
    <3> QED BY <1>1, <3>3, <3>4
  <2>f. FirstIsRunning(b)'
    <3>1. SUFFICES ASSUME NEW m \in Numbers, Live(<<b, m, 1>>)', <<b, m, 1>> \notin cancelling'
                   PROVE  /\ state'[b][m] = "running"
                          /\ \A h \in 1..MaxRuns : h # 1 => at'[<<b, m, h>>] = "none"
      BY DEF FirstIsRunning
    <3>2. 1 \in 1..MaxRuns
      BY ConstantTypes
    <3>3. Live(<<b, m, 1>>) /\ ~(m = n /\ g = 1) /\ <<b, m, 1>> \notin cancelling
      BY <1>0, <2>1, <3>1, <3>2
    <3>4. /\ state[b][m] = "running"
          /\ \A h \in 1..MaxRuns : h # 1 => at[<<b, m, h>>] = "none"
      BY <1>0, <3>3 DEF BatchInv, FirstIsRunning
    <3>5. m # n
      BY <1>0, <3>3, <3>4
    <3> QED BY <1>1, <2>1, <3>4, <3>5
  <2>10. OverIsCounted(b)' /\ AnnouncedIsOver(b)'
    BY <1>0, <2>3, <2>4 DEF BatchInv, OverIsCounted, AnnouncedIsOver
  <2>11. UnopenedIsNew(b)'
    BY <1>0, <1>2, ConstantTypes DEF UnopenedIsNew
  <2> QED BY <1>3, <2>5, <2>6, <2>7, <2>8, <2>9, <2>f, <2>10, <2>11 DEF BatchInv
<1> QED BY <1>2, <1>3

(* Who counts a run of a batch that is not void counts the delegate that   *)
(* ends its last run: one more is over.                                    *)
LEMMA CountIsOneMore ==
  ASSUME NEW b \in Batches, BatchInv(b), NEW n \in Numbers, NEW g \in 1..MaxRuns,
         at[<<b, n, g>>] = "closing", b \notin void, state'[b] = state[b],
         \A m \in Numbers, h \in 1..MaxRuns :
           at'[<<b, m, h>>] = IF m = n /\ h = g THEN "over" ELSE at[<<b, m, h>>]
  PROVE  /\ Busy(b, n) /\ ~Busy(b, n)'
         /\ \A m \in Numbers : m # n => (Busy(b, m)' <=> Busy(b, m))
         /\ Members(b)' = Members(b) /\ n \in Members(b)
         /\ n \notin Over(b) /\ Over(b)' = Over(b) \cup {n}
         /\ completed[b] + 1 = Cardinality(Over(b)')
         /\ results[b] = [m \in Numbers |-> IF m \in Over(b) THEN 1 ELSE 0]
<1>1. b \in spawned /\ n \in Members(b)
  BY RunOfMember
<1>2. ASSUME NEW h \in 1..MaxRuns, Uncounted(<<b, n, h>>) PROVE h = g
  <2>1. Uncounted(<<b, n, g>>) /\ at[<<b, n, g>>] # "none" /\ at[<<b, n, h>>] # "none"
    BY <1>2 DEF Uncounted, Live
  <2>2. ~(g < h) /\ ~(h < g)
    BY <1>2, <2>1 DEF BatchInv, EarlierRunsAreOver
  <2> QED BY <2>2, ConstantTypes
<1>3. \A m \in Numbers, h \in 1..MaxRuns :
        Uncounted(<<b, m, h>>)' <=> Uncounted(<<b, m, h>>) /\ ~(m = n /\ h = g)
  BY DEF Uncounted, Live
<1>4. \A m \in Numbers : /\ Busy(b, m)' <=> \E h \in 1..MaxRuns : Uncounted(<<b, m, h>>)'
                         /\ Busy(b, m) <=> \E h \in 1..MaxRuns : Uncounted(<<b, m, h>>)
  BY BusyMeans DEF Busy, Started, Uncounted, Live
<1>5. Busy(b, n) /\ ~Busy(b, n)'
  BY <1>2, <1>3, <1>4 DEF Uncounted
<1>6. \A m \in Numbers : m # n => (Busy(b, m)' <=> Busy(b, m))
  BY <1>3, <1>4
<1>7. Members(b)' = Members(b)
  BY DEF Members
<1>8. n \notin Over(b) /\ Over(b)' = Over(b) \cup {n}
  BY <1>1, <1>5, <1>6, <1>7 DEF Over, Members
<1>9. IsFiniteSet(Over(b))
  BY MembersAreFinite, FS_Subset
<1>10. Cardinality(Over(b)') = Cardinality(Over(b)) + 1
  BY <1>8, <1>9, FS_AddElement
<1>11. /\ completed[b] = Cardinality(Over(b))
       /\ results[b] = [m \in Numbers |-> IF m \in Over(b) THEN 1 ELSE 0]
  BY <1>1 DEF BatchInv, OverIsCounted
<1> QED BY <1>1, <1>5, <1>6, <1>7, <1>8, <1>10, <1>11

LEMMA CountKeeps ==
  ASSUME BatchesInv, NEW b \in Batches, NEW n \in Numbers, NEW g \in 1..MaxRuns,
         Count(<<b, n, g>>), NEW c \in Batches
  PROVE  BatchInv(c)'
<1>0. /\ TypeOK /\ opened \in Nat /\ BatchInv(b)
      /\ opened' = opened /\ spawned' = spawned /\ saved' = saved
      /\ cancelling' = cancelling /\ void' = void /\ state' = state
      /\ completed' = [completed EXCEPT ![b] = @ + 1]
      /\ results' = [results EXCEPT ![b][n] = @ + 1]
      /\ \/ Complete(b) /\ announced' = announced \cup {b}
         \/ ~Complete(b) /\ announced' = announced
      /\ at[<<b, n, g>>] = "closing" /\ Goes(b, n, g, "over")
  BY ConstantTypes DEF BatchesInv, TypeOK, Count, disk, Batch, Number, Goes
<1>1. /\ completed'[b] = completed[b] + 1
      /\ results'[b] = [results[b] EXCEPT ![n] = @ + 1]
      /\ \A d \in Batches \ {b} : completed'[d] = completed[d] /\ results'[d] = results[d]
  BY <1>0 DEF TypeOK
<1>2. /\ \A d \in Batches \ {b} : BatchInv(d)'
      /\ \A m \in Numbers : Started(b, m)' = Started(b, m) /\ Latest(b, m)' = Latest(b, m)
      /\ \A m \in Numbers, h \in 1..MaxRuns :
           at'[<<b, m, h>>] = IF m = n /\ h = g THEN "over" ELSE at[<<b, m, h>>]
      /\ b \in spawned /\ b <= opened /\ n \in Members(b)
  BY <1>0, <1>1, RunStep
<1>3. CASE c = b
  <2>1. \A m \in Numbers, h \in 1..MaxRuns :
          /\ Live(<<b, m, h>>)' <=> Live(<<b, m, h>>)
          /\ Uncounted(<<b, m, h>>)' => Uncounted(<<b, m, h>>)
          /\ at'[<<b, m, h>>] # "none" <=> at[<<b, m, h>>] # "none"
    BY <1>0, <1>2 DEF Live, Uncounted
  <2>2. Members(b)' = Members(b)
    BY <1>0 DEF Members
  <2>3. RunsAreNumbered(b)'
    BY <1>0, <1>2, <2>2 DEF BatchInv, RunsAreNumbered
  <2>4. RunningGoesOn(b)'
    <3>1. SUFFICES ASSUME NEW m \in Numbers, state[b][m] = "running"
                   PROVE  b \in spawned' /\ Live(Latest(b, m))' /\ Latest(b, m)' \notin cancelling'
      BY <1>0 DEF RunningGoesOn
    <3>2. b \in spawned /\ Live(Latest(b, m)) /\ Latest(b, m) \notin cancelling
      BY <1>0, <3>1 DEF BatchInv, RunningGoesOn
    <3>3. at'[Latest(b, m)] = at[Latest(b, m)]
      <4>1. Latest(b, m) # <<b, n, g>>
        BY <1>0, <3>2 DEF Live
      <4> QED BY <1>0, <4>1 DEF TypeOK, Goes
    <3> QED BY <1>0, <1>2, <3>2, <3>3 DEF Live
  <2>5. CancelledIsLive(b)' /\ EarlierRunsAreOver(b)' /\ LiveIsRunning(b)'
    BY <1>0, <2>1 DEF BatchInv, CancelledIsLive, EarlierRunsAreOver, LiveIsRunning
  <2>f. FirstIsRunning(b)'
    <3>1. 1 \in 1..MaxRuns
      BY ConstantTypes
    <3> QED BY <1>0, <2>1, <3>1 DEF BatchInv, FirstIsRunning
  <2>6. ASSUME b \notin void
        PROVE  /\ Busy(b, n) /\ ~Busy(b, n)'
               /\ \A m \in Numbers : m # n => (Busy(b, m)' <=> Busy(b, m))
               /\ n \notin Over(b) /\ Over(b)' = Over(b) \cup {n}
               /\ completed[b] + 1 = Cardinality(Over(b)')
               /\ results[b] = [m \in Numbers |-> IF m \in Over(b) THEN 1 ELSE 0]
    BY <1>0, <1>2, <2>6, CountIsOneMore
  <2>7. OverIsCounted(b)'
    <3>1. SUFFICES ASSUME b \notin void
                   PROVE  /\ completed'[b] = Cardinality(Over(b)')
                          /\ results'[b] = [m \in Numbers |-> IF m \in Over(b)' THEN 1 ELSE 0]
      BY <1>0 DEF OverIsCounted
    <3>2. results'[b] = [m \in Numbers |-> IF m \in Over(b)' THEN 1 ELSE 0]
      BY <1>1, <2>6, <3>1
    <3> QED BY <1>1, <2>6, <3>1, <3>2
  <2>8. AnnouncedIsOver(b)'
    <3>1. SUFFICES ASSUME b \notin void, b \in announced', NEW m \in Numbers, Busy(b, m)'
                   PROVE  FALSE
      BY <1>0 DEF AnnouncedIsOver
    <3>2. b \notin announced
      BY <1>0, <2>6, <3>1 DEF BatchInv, AnnouncedIsOver
    <3>3. completed'[b] >= Cardinality(Members(b))
      BY <1>0, <3>1, <3>2 DEF Complete, Total
    <3>4. Over(b)' \subseteq Members(b) /\ IsFiniteSet(Members(b))
      BY <2>2, MembersAreFinite DEF Over
    <3>5. Cardinality(Over(b)') >= Cardinality(Members(b))
      BY <1>1, <2>6, <3>1, <3>3
    <3>6. Over(b)' = Members(b)
      <4>1. /\ Cardinality(Over(b)') <= Cardinality(Members(b))
            /\ Cardinality(Members(b)) = Cardinality(Over(b)') => Members(b) = Over(b)'
        BY <3>4, FS_Subset
      <4>2. IsFiniteSet(Over(b)')
        BY <3>4, FS_Subset
      <4>3. Cardinality(Over(b)') \in Nat /\ Cardinality(Members(b)) \in Nat
        BY <3>4, <4>2, FS_CardinalityType
      <4> QED BY <3>5, <4>1, <4>3
    <3>7. m \in Members(b)
      <4>1. Busy(b, m)
        BY <2>6, <3>1
      <4>2. PICK h \in 1..MaxRuns : at[<<b, m, h>>] # "none"
        BY <4>1 DEF Busy, Started
      <4> QED BY <1>0, <4>2, RunOfMember
    <3> QED BY <3>1, <3>6, <3>7 DEF Over
  <2>9. UnopenedIsNew(b)'
    BY <1>0, <1>2, ConstantTypes DEF UnopenedIsNew
  <2> QED BY <1>3, <2>3, <2>4, <2>5, <2>f, <2>7, <2>8, <2>9 DEF BatchInv
<1> QED BY <1>2, <1>3

LEMMA SaveKeeps == ASSUME BatchesInv, Save, NEW b \in Batches PROVE BatchInv(b)'
<1>1. TypeOK /\ opened \in Nat /\ BatchInv(b)
  BY ConstantTypes DEF BatchesInv, TypeOK
<1>2. /\ opened' = opened /\ state' = state /\ spawned' = spawned
      /\ completed' = completed /\ results' = results /\ at' = at
      /\ cancelling' = cancelling /\ announced' = announced /\ void' = void
      /\ saved'.state = state /\ saved'.completed = completed
  BY DEF Save, managerVars
<1>3. Aside(b)
  BY <1>1, <1>2 DEF Aside
<1> QED BY <1>1, <1>2, <1>3, OthersAside

LEMMA RestartKeeps == ASSUME BatchesInv, Restart, NEW b \in Batches PROVE BatchInv(b)'
<1>0. TypeOK /\ opened \in Nat /\ BatchInv(b)
  BY ConstantTypes DEF BatchesInv, TypeOK
<1>1. /\ opened' = opened /\ spawned' = {} /\ cancelling' = {} /\ saved' = saved
      /\ announced' = announced /\ void' = void \cup (1..opened \ announced)
      /\ completed' = saved.completed /\ results' = NoResults
      /\ \A n \in Numbers : state'[b][n] = Loaded(saved.state[b][n])
      /\ \A n \in Numbers, g \in 1..MaxRuns : at'[<<b, n, g>>] = "none"
  BY DEF Restart, disk, Runs
<1>2. \A n \in Numbers : Started(b, n)' = {} /\ ~Busy(b, n)'
  BY <1>1 DEF Started, Busy
<1>3. RunsAreNumbered(b)'
  <2>1. 1..0 = {} /\ 0 \in 0..MaxRuns /\ b \notin spawned'
    BY <1>1, ConstantTypes
  <2> QED BY <1>2, <2>1 DEF RunsAreNumbered
<1>4. RunningGoesOn(b)'
  BY <1>1 DEF RunningGoesOn, Loaded
<1>5. CancelledIsLive(b)' /\ EarlierRunsAreOver(b)' /\ LiveIsRunning(b)'
  BY <1>1 DEF CancelledIsLive, EarlierRunsAreOver, LiveIsRunning, Live
<1>f. FirstIsRunning(b)'
  <2>1. 1 \in 1..MaxRuns
    BY ConstantTypes
  <2> QED BY <1>1, <2>1 DEF FirstIsRunning, Live
<1>6. OverIsCounted(b)' /\ AnnouncedIsOver(b)'
  BY <1>1, <1>2 DEF OverIsCounted, AnnouncedIsOver
<1>7. UnopenedIsNew(b)'
  <2>1. SUFFICES ASSUME b > opened
                 PROVE  /\ b \notin spawned' \cup announced' \cup void'
                        /\ \A n \in Numbers : state'[b][n] = "none" /\ saved'.state[b][n] = "none"
                        /\ completed'[b] = 0 /\ saved'.completed[b] = 0
                        /\ results'[b] = NoResults'[b]
    BY <1>1 DEF UnopenedIsNew
  <2>2. /\ b \notin announced \cup void
        /\ \A n \in Numbers : saved.state[b][n] = "none"
        /\ saved.completed[b] = 0
    BY <1>0, <2>1 DEF BatchInv, UnopenedIsNew
  <2>3. b \notin 1..opened
    BY <1>0, <2>1, ConstantTypes
  <2> QED BY <1>1, <2>2, <2>3 DEF Loaded, NoResults
<1> QED BY <1>3, <1>4, <1>5, <1>f, <1>6, <1>7 DEF BatchInv

(* What the table names stays a delegate of its batch. *)
LEMMA TablesKept ==
  ASSUME BatchesInv, Next
  PROVE  TableIsOf(table, state)' /\ TableIsOf(saved.table, saved.state)'
<1>0. /\ TypeOK /\ opened \in Nat
      /\ TableIsOf(table, state) /\ TableIsOf(saved.table, saved.state)
      /\ \A n \in Numbers : table[n] # NoBatch => table[n] \in Batches
  BY ConstantTypes, InTable DEF BatchesInv, TypeOK
<1>1. ASSUME NEW S \in SUBSET Numbers, NEW plain \in BOOLEAN, Spawn(S, plain)
      PROVE  TableIsOf(table, state)' /\ TableIsOf(saved.table, saved.state)'
  <2>1. PICK b \in Batches : NewBatch(b, S)
    BY <1>1, SpawnFacts
  <2>2. /\ b = opened + 1 /\ opened' = b
        /\ \A n \in Numbers : state'[b][n] = IF n \in S THEN "running" ELSE "none"
        /\ \A c \in Batches \ {b} : state'[c] = state[c]
    BY <2>1 DEF NewBatch, Aside
  <2>3. \A n \in Numbers : table'[n] = IF n \in S THEN b ELSE table[n]
    BY <1>1, <2>2 DEF Spawn
  <2>4. saved' = saved
    BY <1>1 DEF Spawn, disk
  <2>5. TableIsOf(table, state)'
    <3>1. SUFFICES ASSUME NEW n \in Numbers, table'[n] # NoBatch
                   PROVE  table'[n] <= opened' /\ state'[table'[n]][n] # "none"
      BY DEF TableIsOf
    <3>2. CASE n \in S
      BY <1>0, <2>2, <2>3, <3>2
    <3>3. CASE n \notin S
      <4>1. /\ table'[n] = table[n] /\ table[n] \in Batches
            /\ table[n] <= opened /\ state[table[n]][n] # "none"
        BY <1>0, <2>3, <3>1, <3>3 DEF TableIsOf
      <4>2. table[n] # b /\ table[n] <= b
        <5>1. table[n] \in Nat /\ opened \in Nat
          BY <1>0, <4>1, ConstantTypes
        <5> QED BY <2>2, <4>1, <5>1
      <4>3. state'[table[n]] = state[table[n]]
        BY <2>2, <4>1, <4>2
      <4>4. state'[table'[n]][n] # "none"
        BY <4>1, <4>3
      <4> QED BY <2>2, <4>1, <4>2, <4>4
    <3> QED BY <3>2, <3>3
  <2>6. TableIsOf(saved.table, saved.state)'
    <3>1. \A n \in Numbers : saved.table[n] \in Nat
      BY <1>0, ConstantTypes DEF TypeOK, Snapshots
    <3> QED BY <1>0, <2>2, <2>4, <3>1 DEF TableIsOf
  <2> QED BY <2>5, <2>6
<1>2. ASSUME table' = table, opened' = opened, saved' = saved,
             \A b \in Batches, n \in Numbers : state[b][n] # "none" => state'[b][n] # "none"
      PROVE  TableIsOf(table, state)' /\ TableIsOf(saved.table, saved.state)'
  BY <1>0, <1>2 DEF TableIsOf
<1>3. ASSUME NEW n \in Numbers, Cancel(n)
      PROVE  TableIsOf(table, state)' /\ TableIsOf(saved.table, saved.state)'
  BY <1>0, <1>2, <1>3, CancelFacts DEF Cancel, disk, TypeOK
<1>4. ASSUME NEW n \in Numbers, Rewake(n)
      PROVE  TableIsOf(table, state)' /\ TableIsOf(saved.table, saved.state)'
  BY <1>0, <1>2, <1>4, RewakeFacts DEF Rewake, disk, TypeOK
<1>5. ASSUME NEW r \in Runs, RunStarts(r) \/ NeverStarts(r) \/ Count(r)
      PROVE  TableIsOf(table, state)' /\ TableIsOf(saved.table, saved.state)'
  BY <1>2, <1>5 DEF RunStarts, NeverStarts, Count, managerVars, disk
<1>6. ASSUME NEW r \in Runs, RunEnds(r)
      PROVE  TableIsOf(table, state)' /\ TableIsOf(saved.table, saved.state)'
  <2>1. state' = [state EXCEPT ![Batch(r)][Number(r)] = "ended"]
    BY <1>6 DEF RunEnds, Ends
  <2>2. \A b \in Batches, n \in Numbers : state[b][n] # "none" => state'[b][n] # "none"
    BY <1>0, <2>1 DEF TypeOK
  <2> QED BY <1>2, <1>6, <2>2 DEF RunEnds, disk
<1>7. CASE Save
  BY <1>0, <1>7 DEF Save, managerVars, TableIsOf
<1>8. CASE Restart
  <2>1. /\ table' = saved.table /\ saved' = saved /\ opened' = opened
        /\ \A b \in Batches, n \in Numbers : state'[b][n] = Loaded(saved.state[b][n])
    BY <1>8 DEF Restart, disk
  <2>2. \A n \in Numbers : saved.table[n] # NoBatch => saved.table[n] \in Batches
    BY <1>0, ConstantTypes DEF TypeOK, Snapshots, Batches, NoBatch
  <2> QED BY <1>0, <2>1, <2>2 DEF TableIsOf, Loaded
<1> QED BY <1>1, <1>3, <1>4, <1>5, <1>6, <1>7, <1>8 DEF Next

LEMMA TableCoversKept == ASSUME BatchesInv, Next PROVE TableCoversRuns'
<1>0. TypeOK /\ opened \in Nat /\ TableCoversRuns
  BY ConstantTypes DEF BatchesInv, TypeOK
<1>1. ASSUME table' = table,
             \A b \in Batches, n \in Numbers, g \in 1..MaxRuns :
               at'[<<b, n, g>>] # "none" => at[<<b, n, g>>] # "none" \/ table[n] = b
      PROVE  TableCoversRuns'
  <2>1. \A b \in Batches : b >= b
    BY ConstantTypes
  <2> QED BY <1>0, <1>1, <2>1 DEF TableCoversRuns
<1>2. \A b \in Batches, n \in Numbers, g \in 1..MaxRuns : <<b, n, g>> \in Runs
  BY DEF Runs
<1>3. ASSUME NEW S \in SUBSET Numbers, NEW plain \in BOOLEAN, Spawn(S, plain)
      PROVE  TableCoversRuns'
  <2>1. SUFFICES ASSUME NEW b \in Batches, NEW n \in Numbers, NEW g \in 1..MaxRuns,
                        at'[<<b, n, g>>] # "none"
                 PROVE  table'[n] >= b
    BY DEF TableCoversRuns
  <2>2. PICK c \in Batches :
          /\ c = opened + 1
          /\ table'[n] = IF n \in S THEN c ELSE table[n]
          /\ at'[<<b, n, g>>] = IF b = c /\ n \in S /\ g = 1 THEN "created" ELSE at[<<b, n, g>>]
    BY <1>2, <1>3 DEF Spawn
  <2>3. b \in Nat /\ c \in Nat
    BY ConstantTypes
  <2>4. CASE b = c /\ n \in S
    BY <2>2, <2>3, <2>4
  <2>5. CASE ~(b = c /\ n \in S)
    <3>1. at[<<b, n, g>>] # "none" /\ table[n] >= b
      BY <1>0, <2>1, <2>2, <2>5 DEF TableCoversRuns
    <3>2. BatchInv(b)
      BY DEF BatchesInv
    <3>3. b <= opened
      BY <1>0, <3>1, <3>2, RunOfMember, SpawnedIsOpened
    <3> QED BY <1>0, <2>2, <2>3, <3>1, <3>3
  <2> QED BY <2>4, <2>5
<1>4. ASSUME NEW n \in Numbers, Cancel(n) PROVE TableCoversRuns'
  BY <1>1, <1>4 DEF Cancel
<1>5. ASSUME NEW n \in Numbers, Rewake(n) PROVE TableCoversRuns'
  <2>1. PICK b \in Batches, k \in 1..MaxRuns :
          b = table[n] /\ at' = [at EXCEPT ![<<b, n, k + 1>>] = "created"]
    BY <1>5, RewakeFacts
  <2>2. table' = table
    BY <1>5 DEF Rewake
  <2>3. ASSUME NEW c \in Batches, NEW m \in Numbers, NEW g \in 1..MaxRuns,
               at'[<<c, m, g>>] # "none"
        PROVE  at[<<c, m, g>>] # "none" \/ table[m] = c
    <3>1. CASE <<c, m, g>> = <<b, n, k + 1>>
      BY <2>1, <3>1
    <3>2. CASE <<c, m, g>> # <<b, n, k + 1>>
      BY <1>0, <1>2, <2>1, <2>3, <3>2 DEF TypeOK
    <3> QED BY <3>1, <3>2
  <2> QED BY <1>1, <2>2, <2>3
<1>6. ASSUME NEW x \in Runs, RunStarts(x) \/ NeverStarts(x) \/ RunEnds(x) \/ Count(x)
      PROVE  TableCoversRuns'
  <2>1. table' = table /\ at[x] # "none" /\ \E v : at' = [at EXCEPT ![x] = v]
    BY <1>6 DEF RunStarts, NeverStarts, RunEnds, Count, managerVars
  <2> QED BY <1>0, <1>1, <1>2, <2>1 DEF TypeOK
<1>7. CASE Save
  BY <1>1, <1>7 DEF Save, managerVars
<1>8. CASE Restart
  BY <1>2, <1>8 DEF Restart, TableCoversRuns
<1> QED BY <1>3, <1>4, <1>5, <1>6, <1>7, <1>8 DEF Next

LEMMA BatchKept == ASSUME BatchesInv, Next, NEW c \in Batches PROVE BatchInv(c)'
<1>1. ASSUME NEW r \in Runs, RunStarts(r) \/ NeverStarts(r) \/ RunEnds(r) \/ Count(r)
      PROVE  BatchInv(c)'
  <2>1. PICK b \in Batches, n \in Numbers, g \in 1..MaxRuns : r = <<b, n, g>>
    BY DEF Runs
  <2> QED BY <1>1, <2>1, RunStartsKeeps, NeverStartsKeeps, RunEndsKeeps, CountKeeps
<1> QED BY <1>1, SpawnKeeps, CancelKeeps, RewakeKeeps, SaveKeeps, RestartKeeps DEF Next

(* The invariant holds at first, every step keeps it. *)
THEOREM BatchesInvariant == Spec => []BatchesInv
<1>1. Init => BatchesInv
  <2>1. Init => TableIsOf(table, state) /\ TableIsOf(saved.table, saved.state)
    BY DEF Init, Unsaved, TableIsOf
  <2>2. Init => TableCoversRuns
    BY DEF Init, TableCoversRuns, Runs
  <2> QED BY <2>1, <2>2, InitTypes, InitKeeps DEF BatchesInv
<1>2. BatchesInv /\ [Next]_vars => BatchesInv'
  <2>1. ASSUME BatchesInv, Next PROVE BatchesInv'
    BY <2>1, TypesKept, TablesKept, TableCoversKept, BatchKept DEF BatchesInv
  <2>2. ASSUME BatchesInv, UNCHANGED vars PROVE BatchesInv'
    <3>1. /\ opened' = opened /\ state' = state /\ spawned' = spawned /\ table' = table
          /\ completed' = completed /\ results' = results /\ at' = at
          /\ cancelling' = cancelling /\ announced' = announced /\ void' = void
          /\ saved' = saved /\ saves' = saves /\ jobs' = jobs /\ cancellers' = cancellers
      BY <2>2 DEF vars, managerVars, disk
    <3>2. TypeOK /\ opened \in Nat /\ \A b \in Batches : BatchInv(b)
      BY <2>2, ConstantTypes DEF BatchesInv, TypeOK
    <3>3. \A b \in Batches : BatchInv(b)'
      <4>1. \A b \in Batches : Aside(b)
        BY <3>1, <3>2 DEF Aside
      <4> QED BY <3>1, <3>2, <4>1, OthersAside
    <3> QED BY <2>2, <3>1, <3>3 DEF BatchesInv, TypeOK, TableIsOf, TableCoversRuns
  <2> QED BY <2>1, <2>2
<1> QED BY <1>1, <1>2, PTL DEF Spec

-----------------------------------------------------------------------------
(* The theorems                                                            *)

(* Every variable of the manager keeps its type; no run but a real one is  *)
(* ever cancelled (delegate_manager.py, cancel).                           *)
THEOREM BatchesTypes == Spec => []TypeOK
<1>1. BatchesInv => TypeOK
  BY DEF BatchesInv
<1> QED BY <1>1, BatchesInvariant, PTL

(* A delegate that counts against the limit of spawn_batch has a run that  *)
(* goes on, and a run that goes on, and that nobody asked to stop, is of a *)
(* delegate that is running in the table, unless a later batch uses its    *)
(* number or it is a rewoken run of a batch that lost its promise.         *)
THEOREM SlotsAlwaysAreRuns == Spec => []SlotsAreRuns
<1>1. ASSUME BatchesInv PROVE RunningHasARun
  <2>1. SUFFICES ASSUME NEW n \in Running PROVE Live(Latest(table[n], n))
    BY DEF RunningHasARun
  <2>2. n \in Numbers /\ table[n] # NoBatch /\ state[table[n]][n] = "running"
    BY DEF Running
  <2>3. table[n] \in Batches
    BY <1>1, <2>2, InTable
  <2> QED BY <1>1, <2>2, <2>3 DEF BatchesInv, BatchInv, RunningGoesOn
<1>2. ASSUME BatchesInv PROVE LiveRunsAreSeen
  <2>1. SUFFICES ASSUME NEW r \in Runs, Live(r), r \notin cancelling,
                        ~(table[Number(r)] > Batch(r)), IsFirst(r) \/ Batch(r) \notin void
                 PROVE  Number(r) \in Running
    BY DEF LiveRunsAreSeen
  <2>2. PICK b \in Batches, n \in Numbers, g \in 1..MaxRuns :
          /\ r = <<b, n, g>> /\ Batch(r) = b /\ Number(r) = n
          /\ IsFirst(r) <=> g = 1
    BY DEF Runs, Batch, Number, IsFirst
  <2>3. at[<<b, n, g>>] # "none"
    BY <2>1, <2>2 DEF Live
  <2>4. table[n] = b
    <3>1. table[n] >= b
      BY <1>2, <2>3 DEF BatchesInv, TableCoversRuns
    <3>2. table[n] \in Nat /\ b \in Nat
      BY <1>2, ConstantTypes DEF BatchesInv, TypeOK
    <3> QED BY <2>1, <2>2, <3>1, <3>2
  <2>5. LiveIsRunning(b) /\ FirstIsRunning(b)
    BY <1>2 DEF BatchesInv, BatchInv
  <2>6. state[b][n] = "running" /\ b # NoBatch
    BY <2>1, <2>2, <2>5, ConstantTypes DEF LiveIsRunning, FirstIsRunning, NoBatch
  <2> QED BY <2>2, <2>4, <2>6 DEF Running
<1>3. BatchesInv => SlotsAreRuns
  BY <1>1, <1>2 DEF SlotsAreRuns
<1> QED BY <1>3, BatchesInvariant, PTL

(* The counter of a batch is the number of its delegates that are over,    *)
(* although _run_one only adds to it and rewake takes back from it, until  *)
(* one of them is rewoken before its earlier run was counted or cancelled  *)
(* before its first step, or the server restarts.                          *)
THEOREM CompletedAlwaysIsWhoIsOver == Spec => []CompletedIsWhoIsOver
<1>1. ASSUME BatchesInv PROVE CompletedIsWhoIsOver
  <2>1. SUFFICES ASSUME NEW b \in spawned \ void
                 PROVE  completed[b] = Cardinality({n \in Members(b) : ~Busy(b, n)})
    BY DEF CompletedIsWhoIsOver
  <2>2. b \in Batches
    BY <1>1 DEF BatchesInv, TypeOK
  <2> QED BY <1>1, <2>2 DEF BatchesInv, BatchInv, OverIsCounted, Over
<1> QED BY <1>1, BatchesInvariant, PTL

(* The results that on_batch_complete gets name each delegate of the batch *)
(* once, and nobody else, if the batch kept its promise: no delegate of it *)
(* was rewoken before its earlier run was counted, cancelled before its    *)
(* first step, or lost in a restart.                                       *)
THEOREM AlwaysAnnouncedInFull == Spec => []AnnouncedInFull
<1>1. ASSUME BatchesInv PROVE AnnouncedInFull
  <2>1. SUFFICES ASSUME NEW b \in (announced \cap spawned) \ void
                 PROVE  results[b] = [n \in Numbers |-> IF n \in Members(b) THEN 1 ELSE 0]
    BY DEF AnnouncedInFull
  <2>2. b \in Batches
    BY <1>1 DEF BatchesInv, TypeOK
  <2>3. \A n \in Numbers : ~Busy(b, n)
    BY <1>1, <2>2 DEF BatchesInv, BatchInv, AnnouncedIsOver
  <2>4. Over(b) = Members(b)
    BY <2>3 DEF Over, Members
  <2>5. results[b] = [n \in Numbers |-> IF n \in Over(b) THEN 1 ELSE 0]
    BY <1>1, <2>2 DEF BatchesInv, BatchInv, OverIsCounted
  <2> QED BY <2>4, <2>5
<1> QED BY <1>1, BatchesInvariant, PTL

-----------------------------------------------------------------------------
(* Every step keeps the promise of BatchPromise                            *)

(* What the abstract batch sees of a step that is not its own: nothing.    *)
Unseen(b) == Owed(b)' = Owed(b) /\ Status(b)' = Status(b)

LEMMA SameIsUnseen ==
  ASSUME NEW b,
         \A n \in Numbers : Busy(b, n)' <=> Busy(b, n),
         b \in void' <=> b \in void, b \in announced' <=> b \in announced,
         b <= opened' <=> b <= opened
  PROVE  Unseen(b)
<1>1. Owed(b)' = Owed(b)
  BY DEF Owed
<1>2. Status(b)' = Status(b)
  BY DEF Status
<1> QED BY <1>1, <1>2 DEF Unseen

LEMMA StutterOfPromise ==
  ASSUME \A b \in Batches : Unseen(b) PROVE UNCHANGED Promise!vars
<1>1. [b \in Batches |-> Owed(b)'] = [b \in Batches |-> Owed(b)]
  BY DEF Unseen
<1>2. [b \in Batches |-> Status(b)'] = [b \in Batches |-> Status(b)]
  BY DEF Unseen
<1> QED BY <1>1, <1>2 DEF Promise!vars

LEMMA GivesUp ==
  ASSUME NEW S \in SUBSET Batches,
         \A b \in S : b \in void',
         \A b \in Batches \ S : Unseen(b)
  PROVE  Promise!Next
<1>1. \A b \in S : Owed(b)' = {} /\ Status(b)' = "void"
  BY DEF Owed, Status
<1>2. \A b \in Batches : Owed(b)' = IF b \in S THEN {} ELSE Owed(b)
  BY <1>1 DEF Unseen
<1>3. \A b \in Batches : Status(b)' = IF b \in S THEN "void" ELSE Status(b)
  BY <1>1 DEF Unseen
<1>4. Promise!GiveUp(S)
  BY <1>2, <1>3 DEF Promise!GiveUp
<1> QED BY <1>4 DEF Promise!Next

(* Steps that leave the batches and who is still to be counted alone. *)
LEMMA QuietStep ==
  ASSUME void' = void, announced' = announced, opened' = opened,
         \A b \in Batches, n \in Numbers, g \in 1..MaxRuns :
           Uncounted(<<b, n, g>>)' <=> Uncounted(<<b, n, g>>)
  PROVE  UNCHANGED Promise!vars
<1>1. \A b \in Batches, n \in Numbers :
        /\ Busy(b, n)' <=> \E g \in 1..MaxRuns : Uncounted(<<b, n, g>>)'
        /\ Busy(b, n) <=> \E g \in 1..MaxRuns : Uncounted(<<b, n, g>>)
  BY BusyMeans DEF Busy, Started, Uncounted, Live
<1>2. \A b \in Batches, n \in Numbers : Busy(b, n)' <=> Busy(b, n)
  BY <1>1
<1>3. \A b \in Batches : Unseen(b)
  BY <1>2, SameIsUnseen
<1> QED BY <1>3, StutterOfPromise

LEMMA InitOfPromise == Init => Promise!Init
<1>1. SUFFICES ASSUME Init PROVE Promise!Init
  OBVIOUS
<1>2. ASSUME NEW b \in Batches PROVE Owed(b) = {} /\ Status(b) = "unused"
  <2>1. \A n \in Numbers, g \in 1..MaxRuns : at[<<b, n, g>>] = "none"
    BY <1>1 DEF Init, Runs
  <2>2. \A n \in Numbers : ~Busy(b, n)
    BY <2>1 DEF Busy, Started
  <2>3. ~(b <= opened) /\ b \notin void /\ b \notin announced
    BY <1>1, ConstantTypes DEF Init
  <2> QED BY <2>2, <2>3 DEF Owed, Status
<1> QED BY <1>2 DEF Promise!Init

LEMMA SpawnKeepsPromise ==
  ASSUME BatchesInv, NEW S \in SUBSET Numbers, NEW plain \in BOOLEAN, Spawn(S, plain)
  PROVE  Promise!Next
<1>0. TypeOK /\ opened \in Nat
  BY ConstantTypes DEF BatchesInv, TypeOK
<1>1. PICK b \in Batches : NewBatch(b, S)
  BY SpawnFacts
<1>2. /\ b = opened + 1 /\ opened' = b /\ b \notin announced
      /\ \A n \in Numbers, g \in 1..MaxRuns :
           at'[<<b, n, g>>] = IF n \in S /\ g = 1 THEN "created" ELSE "none"
      /\ \A c \in Batches \ {b} : Aside(c)
  BY <1>1 DEF NewBatch
<1>3. ASSUME NEW c \in Batches \ {b} PROVE Unseen(c)
  <2>1. \A n \in Numbers : Busy(c, n)' <=> Busy(c, n)
    BY <1>2, AsideRuns
  <2>2. c <= opened' <=> c <= opened
    BY <1>0, <1>2, ConstantTypes
  <2> QED BY <1>2, <2>1, <2>2, SameIsUnseen DEF Aside
<1>4. CASE S = {}
  <2>1. b \in void'
    BY <1>2, <1>4 DEF Spawn
  <2>2. /\ {b} \in SUBSET Batches /\ \A c \in {b} : c \in void'
        /\ \A c \in Batches \ {b} : Unseen(c)
    BY <1>3, <2>1
  <2> QED BY ONLY <2>2, GivesUp
<1>5. CASE S # {}
  <2>1. b \notin void /\ ~(b <= opened)
    BY <1>0, <1>2 DEF BatchesInv, BatchInv, UnopenedIsNew
  <2>2. Status(b) = "unused"
    BY <1>2, <2>1 DEF Status
  <2>3. void' = void /\ announced' = announced
    BY <1>5 DEF Spawn
  <2>4. Status(b)' = "open"
    BY <1>0, <1>2, <2>1, <2>3 DEF Status
  <2>5. 1 \in 1..MaxRuns
    BY ConstantTypes
  <2>6. \A n \in Numbers : Busy(b, n)' <=> n \in S
    BY <1>2, <2>5 DEF Busy, Started, Uncounted, Live
  <2>7. Owed(b)' = S
    BY <2>1, <2>3, <2>6 DEF Owed
  <2>8. [c \in Batches |-> Owed(c)'] = [[c \in Batches |-> Owed(c)] EXCEPT ![b] = S]
    BY <1>3, <2>7 DEF Unseen
  <2>9. [c \in Batches |-> Status(c)'] = [[c \in Batches |-> Status(c)] EXCEPT ![b] = "open"]
    BY <1>3, <2>4 DEF Unseen
  <2>10. \E T \in (SUBSET Numbers) \ {{}} :
           [c \in Batches |-> Owed(c)'] = [[c \in Batches |-> Owed(c)] EXCEPT ![b] = T]
    <3>1. S \in (SUBSET Numbers) \ {{}}
      BY <1>5
    <3>2. WITNESS S \in (SUBSET Numbers) \ {{}}
    <3> QED BY <2>8
  <2>11. [c \in Batches |-> Status(c)][b] = "unused"
    BY <2>2
  <2>12. Promise!Open(b)
    BY ONLY <2>9, <2>10, <2>11 DEF Promise!Open
  <2> QED BY <2>12 DEF Promise!Next
<1> QED BY <1>4, <1>5

LEMMA RewakeKeepsPromise == ASSUME BatchesInv, NEW n \in Numbers, Rewake(n) PROVE Promise!Next
<1>0. TypeOK /\ opened' = opened
  BY DEF BatchesInv, Rewake
<1>1. PICK b \in Batches, k \in 1..MaxRuns :
           /\ b <= opened /\ k + 1 \in 1..MaxRuns
           /\ at' = [at EXCEPT ![<<b, n, k + 1>>] = "created"]
           /\ announced' = announced \ {b}
           /\ void' = IF Busy(b, n) THEN void \cup {b} ELSE void
  BY RewakeFacts
<1>2. \A d \in Batches, m \in Numbers, h \in 1..MaxRuns : <<d, m, h>> \in Runs
  BY DEF Runs
<1>3. \A d \in Batches, m \in Numbers, h \in 1..MaxRuns :
        at'[<<d, m, h>>] = IF d = b /\ m = n /\ h = k + 1 THEN "created" ELSE at[<<d, m, h>>]
  BY <1>0, <1>1, <1>2 DEF TypeOK
<1>4. \A d \in Batches, m \in Numbers :
        /\ Busy(d, m)' <=> \E g \in 1..MaxRuns : Uncounted(<<d, m, g>>)'
        /\ Busy(d, m) <=> \E g \in 1..MaxRuns : Uncounted(<<d, m, g>>)
  BY BusyMeans DEF Busy, Started, Uncounted, Live
<1>5. \A d \in Batches, m \in Numbers : d # b \/ m # n => (Busy(d, m)' <=> Busy(d, m))
  BY <1>3, <1>4 DEF Uncounted, Live
<1>6. Busy(b, n)'
  BY <1>1, <1>3, <1>4 DEF Uncounted, Live
<1>7. \A d \in Batches \ {b} : Unseen(d)
  BY <1>0, <1>1, <1>5, SameIsUnseen
<1>8. CASE b \in void \/ Busy(b, n)
  <2>1. b \in void'
    BY <1>1, <1>8
  <2>2. /\ {b} \in SUBSET Batches /\ \A c \in {b} : c \in void'
        /\ \A c \in Batches \ {b} : Unseen(c)
    BY <1>7, <2>1
  <2> QED BY ONLY <2>2, GivesUp
<1>9. CASE b \notin void /\ ~Busy(b, n)
  <2>1. void' = void /\ b \notin announced'
    BY <1>1, <1>9
  <2>2. Status(b) \in {"open", "announced"} /\ Status(b)' = "open"
    BY <1>0, <1>1, <1>9, <2>1 DEF Status
  <2>3. n \notin Owed(b) /\ Owed(b)' = Owed(b) \cup {n}
    BY <1>5, <1>6, <1>9, <2>1 DEF Owed
  <2>4. [c \in Batches |-> Owed(c)'] = [[c \in Batches |-> Owed(c)] EXCEPT ![b] = @ \cup {n}]
    BY <1>7, <2>3 DEF Unseen
  <2>5. [c \in Batches |-> Status(c)'] = [[c \in Batches |-> Status(c)] EXCEPT ![b] = "open"]
    BY <1>7, <2>2 DEF Unseen
  <2>6. Promise!Reopen(b)
    BY <2>2, <2>3, <2>4, <2>5 DEF Promise!Reopen
  <2> QED BY <2>6 DEF Promise!Next
<1> QED BY <1>8, <1>9

LEMMA NeverStartsKeepsPromise ==
  ASSUME BatchesInv, NEW r \in Runs, NeverStarts(r) PROVE Promise!Next
<1>0. TypeOK /\ opened' = opened /\ announced' = announced
  BY DEF BatchesInv, NeverStarts, managerVars
<1>1. PICK b \in Batches, n \in Numbers, g \in 1..MaxRuns : r = <<b, n, g>> /\ Batch(r) = b
  BY DEF Runs, Batch
<1>2. void' = void \cup {b} /\ at' = [at EXCEPT ![<<b, n, g>>] = "over"]
  BY <1>1 DEF NeverStarts
<1>3. \A c \in Batches, m \in Numbers, h \in 1..MaxRuns : <<c, m, h>> \in Runs
  BY DEF Runs
<1>4. \A c \in Batches \ {b}, m \in Numbers, h \in 1..MaxRuns : at'[<<c, m, h>>] = at[<<c, m, h>>]
  BY <1>0, <1>2, <1>3 DEF TypeOK
<1>5. ASSUME NEW c \in Batches \ {b} PROVE Unseen(c)
  <2>1. \A m \in Numbers : Busy(c, m)' <=> Busy(c, m)
    BY <1>4 DEF Busy, Started, Uncounted, Live
  <2> QED BY <1>0, <1>2, <2>1, SameIsUnseen
<1>6. /\ {b} \in SUBSET Batches /\ \A c \in {b} : c \in void'
      /\ \A c \in Batches \ {b} : Unseen(c)
  BY <1>2, <1>5
<1> QED BY ONLY <1>6, GivesUp

LEMMA CountKeepsPromise ==
  ASSUME BatchesInv, NEW r \in Runs, Count(r)
  PROVE  [Promise!Next]_(Promise!vars)
<1>0. TypeOK /\ opened \in Nat /\ opened' = opened /\ void' = void /\ state' = state
  BY ConstantTypes DEF BatchesInv, TypeOK, Count
<1>1. PICK b \in Batches, n \in Numbers, g \in 1..MaxRuns :
        r = <<b, n, g>> /\ Batch(r) = b /\ Number(r) = n
  BY DEF Runs, Batch, Number
<1>2. /\ at[<<b, n, g>>] = "closing"
      /\ Goes(b, n, g, "over")
      /\ completed' = [completed EXCEPT ![b] = @ + 1]
      /\ results' = [results EXCEPT ![b][n] = @ + 1]
      /\ \/ Complete(b) /\ announced' = announced \cup {b}
         \/ ~Complete(b) /\ announced' = announced
  BY <1>1 DEF Count, Goes
<1>3. \A c \in Batches, m \in Numbers, h \in 1..MaxRuns : <<c, m, h>> \in Runs
  BY DEF Runs
<1>4. \A c \in Batches, m \in Numbers, h \in 1..MaxRuns :
        at'[<<c, m, h>>] = IF c = b /\ m = n /\ h = g THEN "over" ELSE at[<<c, m, h>>]
  BY <1>0, <1>2, <1>3 DEF TypeOK, Goes
<1>5. ASSUME NEW c \in Batches, c # b \/ b \in void PROVE Unseen(c)
  <2>1. CASE c # b
    <3>1. \A m \in Numbers : Busy(c, m)' <=> Busy(c, m)
      BY <1>4, <2>1 DEF Busy, Started, Uncounted, Live
    <3> QED BY <1>0, <1>2, <2>1, <3>1, SameIsUnseen
  <2>2. CASE c = b
    BY <1>0, <1>5, <2>2 DEF Unseen, Owed, Status
  <2> QED BY <2>1, <2>2
<1>6. CASE b \in void
  BY <1>5, <1>6, StutterOfPromise
<1>7. CASE b \notin void
  <2>0. BatchInv(b) /\ BatchInv(b)'
    BY BatchKept DEF BatchesInv, Next
  <2>1. \A m \in Numbers : Started(b, m)' = Started(b, m)
    BY <1>2, <1>4 DEF Started
  <2>2. /\ Busy(b, n) /\ ~Busy(b, n)'
        /\ \A m \in Numbers : m # n => (Busy(b, m)' <=> Busy(b, m))
        /\ Members(b)' = Members(b) /\ n \in Members(b)
        /\ n \notin Over(b) /\ Over(b)' = Over(b) \cup {n}
        /\ completed[b] + 1 = Cardinality(Over(b)')
        /\ results[b] = [m \in Numbers |-> IF m \in Over(b) THEN 1 ELSE 0]
    <3>1. \A m \in Numbers, h \in 1..MaxRuns :
            at'[<<b, m, h>>] = IF m = n /\ h = g THEN "over" ELSE at[<<b, m, h>>]
      BY <1>4
    <3>2. at[<<b, n, g>>] = "closing" /\ state'[b] = state[b]
      BY <1>0, <1>2
    <3> QED BY ONLY <1>7, <2>0, <3>1, <3>2, CountIsOneMore
  <2>3. b \notin announced /\ b <= opened
    <3>1. b \notin announced
      BY <1>7, <2>0, <2>2 DEF BatchInv, AnnouncedIsOver
    <3>2. b \in spawned
      BY <1>2, <2>0, RunOfMember
    <3> QED BY <1>0, <2>0, <3>1, <3>2, SpawnedIsOpened
  <2>4. n \in Owed(b) /\ Owed(b)' = Owed(b) \ {n}
    BY <1>0, <1>7, <2>2 DEF Owed
  <2>5. Owed(b)' = {} => Complete(b)
    <3>1. SUFFICES ASSUME Owed(b)' = {} PROVE Complete(b)
      OBVIOUS
    <3>2. Over(b)' = Members(b)
      BY <1>0, <1>7, <2>2, <3>1 DEF Owed, Over, Members
    <3>3. completed'[b] = Cardinality(Members(b))
      BY <1>0, <1>2, <2>2, <3>2 DEF TypeOK
    <3>4. Cardinality(Members(b)) \in Nat
      BY MembersAreFinite, FS_CardinalityType
    <3> QED BY <3>3, <3>4 DEF Complete, Total
  <2>6. Complete(b) => Owed(b)' = {}
    BY <1>0, <1>2, <1>7, <2>0 DEF BatchInv, AnnouncedIsOver, Owed
  <2>7. Status(b) = "open"
    BY <1>7, <2>3 DEF Status
  <2>8. Status(b)' = IF Owed(b)' = {} THEN "announced" ELSE "open"
    BY <1>0, <1>2, <1>7, <2>3, <2>5, <2>6 DEF Status
  <2>9. [c \in Batches |-> Owed(c)'] = [[c \in Batches |-> Owed(c)] EXCEPT ![b] = @ \ {n}]
    BY <1>5, <2>4 DEF Unseen
  <2>10. [c \in Batches |-> Status(c)'] =
           [[c \in Batches |-> Status(c)] EXCEPT ![b] = IF Owed(b)' = {} THEN "announced" ELSE "open"]
    BY <1>5, <2>8 DEF Unseen
  <2>11. \E m \in [c \in Batches |-> Owed(c)][b] :
           [c \in Batches |-> Owed(c)'] = [[c \in Batches |-> Owed(c)] EXCEPT ![b] = @ \ {m}]
    BY <2>4, <2>9
  <2>12. [c \in Batches |-> Status(c)][b] = "open"
    BY <2>7
  <2>13. [c \in Batches |-> Owed(c)'][b] = Owed(b)'
    OBVIOUS
  <2>14. Promise!Finish(b)
    BY ONLY <2>10, <2>11, <2>12, <2>13 DEF Promise!Finish
  <2> QED BY <2>14 DEF Promise!Next
<1> QED BY <1>6, <1>7

LEMMA RestartKeepsPromise == ASSUME BatchesInv, Restart PROVE Promise!Next
<1> DEFINE S == (1..opened \ announced) \cap Batches
<1>0. TypeOK /\ opened' = opened /\ announced' = announced
      /\ void' = void \cup (1..opened \ announced)
  BY DEF BatchesInv, Restart
<1>1. \A b \in Batches, n \in Numbers, g \in 1..MaxRuns : at'[<<b, n, g>>] = "none"
  BY DEF Restart, Runs
<1>2. \A b \in Batches, n \in Numbers : ~Busy(b, n)'
  BY <1>1 DEF Busy, Started
<1>3. ASSUME NEW b \in Batches \ S PROVE Unseen(b)
  <2>1. b \in void' <=> b \in void
    BY <1>0
  <2>2. CASE b \in void
    BY <1>0, <2>1, <2>2 DEF Unseen, Owed, Status
  <2>3. CASE b \notin void
    <3>1. \A n \in Numbers : ~Busy(b, n)
      <4>1. CASE b \in announced
        BY <2>3, <4>1 DEF BatchesInv, BatchInv, AnnouncedIsOver
      <4>2. CASE b \notin announced
        <5>1. opened \in Nat /\ b \in Nat \ {0}
          BY <1>0, ConstantTypes DEF TypeOK
        <5>2. b > opened
          BY <1>3, <4>2, <5>1
        <5>3. b \notin spawned
          BY <5>2 DEF BatchesInv, BatchInv, UnopenedIsNew
        <5>4. \A n \in Numbers, g \in 1..MaxRuns : at[<<b, n, g>>] = "none"
          BY <5>3, RunOfMember DEF BatchesInv
        <5> QED BY <5>4 DEF Busy, Started
      <4> QED BY <4>1, <4>2
    <3> QED BY <1>0, <1>2, <2>1, <3>1, SameIsUnseen
  <2> QED BY <2>2, <2>3
<1>4. \A b \in S : b \in void'
  BY <1>0
<1>5. S \in SUBSET Batches
  OBVIOUS
<1> HIDE DEF S
<1> QED BY ONLY <1>3, <1>4, <1>5, GivesUp

(* Every step of the manager is a step of BatchPromise, or none: a batch   *)
(* is announced with its last delegate, opened again by a rewake, or its   *)
(* promise is given up (class DelegateManager).                            *)
THEOREM ManagerKeepsPromise == Spec => Promise!SafeSpec
<1>1. ASSUME BatchesInv, Next PROVE [Promise!Next]_(Promise!vars)
  <2>1. ASSUME NEW r \in Runs, RunStarts(r) \/ RunEnds(r)
        PROVE  [Promise!Next]_(Promise!vars)
    <3>1. TypeOK
      BY <1>1 DEF BatchesInv
    <3>2. void' = void /\ announced' = announced /\ opened' = opened
      BY <2>1 DEF RunStarts, RunEnds, managerVars
    <3>3. \A b \in Batches, n \in Numbers, g \in 1..MaxRuns : <<b, n, g>> \in Runs
      BY DEF Runs
    <3>4. \A b \in Batches, n \in Numbers, g \in 1..MaxRuns :
            Uncounted(<<b, n, g>>)' <=> Uncounted(<<b, n, g>>)
      BY <2>1, <3>1, <3>3 DEF RunStarts, RunEnds, TypeOK, Uncounted, Live
    <3> QED BY <3>2, <3>4, QuietStep
  <2>2. ASSUME NEW n \in Numbers, Cancel(n) PROVE [Promise!Next]_(Promise!vars)
    BY <2>2, QuietStep DEF Cancel, Uncounted, Live
  <2>3. ASSUME Save PROVE [Promise!Next]_(Promise!vars)
    BY <2>3, QuietStep DEF Save, managerVars, Uncounted, Live
  <2> QED BY <1>1, <2>1, <2>2, <2>3, SpawnKeepsPromise, RewakeKeepsPromise,
             NeverStartsKeepsPromise, CountKeepsPromise, RestartKeepsPromise DEF Next
<1>2. ASSUME UNCHANGED vars PROVE UNCHANGED Promise!vars
  BY <1>2, QuietStep DEF vars, managerVars, Uncounted, Live
<1>3. BatchesInv /\ [Next]_vars => [Promise!Next]_(Promise!vars)
  BY <1>1, <1>2
<1> QED BY <1>3, InitOfPromise, BatchesInvariant, PTL DEF Spec, Promise!SafeSpec

=============================================================================
