--------------------------- MODULE TeamWaves_proofs ---------------------------
(***************************************************************************)
(* Theorems about TeamWaves: the teams keep their types, a team that is    *)
(* over has no runs, a reported wave is final, a completed wave leaves its *)
(* steps done, and no delegate starts before what it needs.                *)
(*                                                                         *)
(* The one assumption on the plan is that its dependencies have no cycle.  *)
(* It is stated of WaveOf, which is recursive: that the waves of a plan    *)
(* without a cycle are numbered is induction over data.                    *)
(***************************************************************************)
EXTENDS TeamWaves, FiniteSetTheorems, WellFoundedInduction, TLAPS

-----------------------------------------------------------------------------
(* The inductive invariant                                                 *)

(* A team that was not created has no trace. *)
UnusedIsNoTeam(t) == team[t].status = "none" => team[t] = NoTeam

(* What is on disk lags behind rewakes only: it has the same members and   *)
(* launches.                                                               *)
DiskFollows(t) ==
  /\ Members(disk[t]) = Members(team[t])
  /\ disk[t].launches = team[t].launches
  /\ disk[t].status = "none" <=> team[t].status = "none"
  /\ disk[t].status = "none" => disk[t] = NoTeam

(* What CompletedMeansStepsDone says of a record of a team. *)
StepsDoneBy(t, r) ==
  r.status = "completed" /\ t \notin skipped =>
    \A s \in Members(r) : step[s] = "done" \/ s \in reopened

LandedHasEnded(r) == r.status \in Terminal /\ ~r.reported => AllEnded(r)

TeamInv(t) ==
  /\ UnusedIsNoTeam(t) /\ DiskFollows(t)
  /\ LandedHasEnded(team[t]) /\ LandedHasEnded(disk[t])
  /\ StepsDoneBy(t, disk[t])

(* Nobody closes a wave with a member that has not ended. *)
NoStepIsSkipped == \A s \in Steps : step[s] # "skipped"

(* Whoever runs was launched as a member of its team; a run of the current *)
(* launch is of a running member, unless the team was over at its spawn.   *)
RunsAreOfMembers(d) ==
  LET t == TeamOf(d) IN
  /\ at[d] # "none" => /\ StepOf(d) \in Members(team[t])
                       /\ LaunchOf(d) <= team[t].launches
  /\ ds[d] = "running" => at[d] = "working"
  /\ ds[d] = "running" /\ d \notin astray /\ Current(d) =>
       /\ team[t].member[StepOf(d)] = "running"
       /\ team[t].status \notin Terminal

(* What the members of a team need is not pending, since the team was      *)
(* created, unless it was done and was opened again.                       *)
NeedsAreMet(t) ==
  \A s \in Members(team[t]) : \A n \in Needs[s] : step[n] # "pending" \/ n \in reopened

WavesInv ==
  /\ TypeOK
  /\ \A t \in Teams : TeamInv(t) /\ NeedsAreMet(t)
  /\ NoStepIsSkipped
  /\ \A d \in Delegates : RunsAreOfMembers(d)
  /\ CompletedMeansStepsDone

-----------------------------------------------------------------------------
(* The least of a finite set of numbers                                    *)

(* Induction over the subsets of a finite set, with a set of sets in place *)
(* of a predicate.                                                         *)
LEMMA FiniteSetIn ==
  ASSUME NEW S, IsFiniteSet(S), NEW F, {} \in F,
         \A T \in SUBSET S : \A x \in S : T \in F => T \cup {x} \in F
  PROVE  S \in F
<1> DEFINE G == {T \in SUBSET S : S \ T \in F}
<1>1. G \subseteq FiniteSubsetsOf(S) /\ S \in G
  BY FS_FiniteSubsetsOfFinite
<1>2. PICK T \in G : \A y \in G : ~(<<y, T>> \in StrictSubsetOrdering(S))
  BY <1>1, WFMin, FS_StrictSubsetOrderingWellFounded
<1>3. T = {}
  <2>1. SUFFICES ASSUME NEW x \in T PROVE FALSE
    OBVIOUS
  <2>2. T \ {x} \in G
    <3>1. S \ (T \ {x}) = (S \ T) \cup {x}
      OBVIOUS
    <3> QED BY <3>1
  <2> QED BY <1>2, <2>2 DEF StrictSubsetOrdering
<1> QED BY <1>3

LEMMA MinOfFinite ==
  ASSUME NEW S \in SUBSET Nat, IsFiniteSet(S), S # {}
  PROVE  Min(S) \in S /\ \A x \in S : Min(S) <= x
<1> DEFINE F == {T \in SUBSET S : T = {} \/ \E m \in T : \A x \in T : m <= x}
<1>1. {} \in F
  OBVIOUS
<1>2. ASSUME NEW T \in SUBSET S, NEW x \in S, T \in F PROVE T \cup {x} \in F
  <2>1. CASE T = {}
    BY <2>1
  <2>2. CASE T # {}
    <3>1. PICK m \in T : \A y \in T : m <= y
      BY <1>2, <2>2
    <3>2. CASE m <= x
      BY <3>1, <3>2
    <3>3. CASE ~(m <= x)
      <4>1. \A y \in T \cup {x} : x <= y
        BY <3>1, <3>3
      <4> QED BY <4>1
    <3> QED BY <3>2, <3>3
  <2> QED BY <2>1, <2>2
<1> HIDE DEF F
<1>3. S \in F
  BY <1>1, <1>2, FiniteSetIn
<1>4. PICK m \in S : \A x \in S : m <= x
  BY <1>3 DEF F
<1> QED BY <1>4 DEF Min

-----------------------------------------------------------------------------
(* Records of teams                                                        *)

LEMMA PlanTypes ==
  /\ IsFiniteSet(Steps) /\ MaxTeams \in Nat /\ MaxLaunches \in Nat /\ MaxMeddling \in Nat
  /\ \A s \in Steps : Needs[s] \subseteq Steps /\ WaveOf[s] \in Nat
BY WavesAssumption, WavesAreNumbered

LEMMA UnusedMin == ASSUME Unused # {} PROVE Min(Unused) \in Unused
<1>1. IsFiniteSet(Teams) /\ Teams \subseteq Nat
  BY PlanTypes, FS_Interval DEF Teams
<1>2. Unused \in SUBSET Nat /\ IsFiniteSet(Unused)
  BY <1>1, FS_Subset DEF Unused
<1> QED BY <1>2, MinOfFinite

LEMMA DelegateIs ==
  ASSUME NEW d \in Delegates
  PROVE  /\ TeamOf(d) \in Teams /\ StepOf(d) \in Steps /\ LaunchOf(d) \in 1..MaxLaunches
         /\ d = <<TeamOf(d), StepOf(d), LaunchOf(d)>>
BY DEF Delegates, TeamOf, StepOf, LaunchOf

LEMMA DelegateOf ==
  ASSUME NEW t \in Teams, NEW s \in Steps, NEW g \in 1..MaxLaunches
  PROVE  /\ <<t, s, g>> \in Delegates
         /\ TeamOf(<<t, s, g>>) = t /\ StepOf(<<t, s, g>>) = s /\ LaunchOf(<<t, s, g>>) = g
BY DEF Delegates, TeamOf, StepOf, LaunchOf

LEMMA StoreOnly ==
  ASSUME TypeOK, NEW t \in Teams, NEW r, Store(Only(t, r))
  PROVE  /\ \A u \in Teams : team'[u] = IF u = t THEN r ELSE team[u]
         /\ \A u \in Teams : disk'[u] = IF u = t THEN r ELSE disk[u]
         /\ r \in TeamRecords => /\ team' \in [Teams -> TeamRecords]
                                 /\ disk' \in [Teams -> TeamRecords]
<1>1. DOMAIN Only(t, r) = {t} /\ Only(t, r)[t] = r
  BY DEF Only
<1>2. /\ team' = [u \in Teams |-> IF u = t THEN r ELSE team[u]]
      /\ disk' = [u \in Teams |-> IF u = t THEN r ELSE disk[u]]
  <2>1. \A u \in Teams : (IF u \in DOMAIN Only(t, r) THEN Only(t, r)[u] ELSE team[u])
                         = IF u = t THEN r ELSE team[u]
    BY <1>1
  <2>2. \A u \in Teams : (IF u \in DOMAIN Only(t, r) THEN Only(t, r)[u] ELSE disk[u])
                         = IF u = t THEN r ELSE disk[u]
    BY <1>1
  <2> QED BY <2>1, <2>2 DEF Store
<1> QED BY <1>2 DEF TypeOK

LEMMA RecordOf ==
  ASSUME TypeOK, NEW t \in Teams
  PROVE  /\ team[t] \in TeamRecords /\ disk[t] \in TeamRecords
         /\ team[t].status \in Open \cup Terminal \cup {"none"} /\ team[t].wave \in Nat
         /\ team[t].member \in [Steps -> Ended \cup {"none", "pending", "running"}]
         /\ team[t].launches \in 0..MaxLaunches /\ team[t].reported \in BOOLEAN
BY DEF TypeOK, TeamRecords

LEMMA EveryoneEnded ==
  ASSUME NEW r
  PROVE  AllEnded(r) <=> \A s \in Members(r) : r.member[s] \in Ended
BY DEF AllEnded, Members, With, Ended

LEMMA NewTeamIs ==
  ASSUME NEW w \in Nat, NEW st
  PROVE  /\ NewTeam(w, st) \in TeamRecords
         /\ NewTeam(w, st).status = "created" /\ NewTeam(w, st).launches = 0
         /\ NewTeam(w, st).reported = FALSE
         /\ Members(NewTeam(w, st)) = PendingIn(w, st)
<1> DEFINE none == [s \in Steps |-> "none"]
           m == [s \in Steps |-> IF s \in PendingIn(w, st) THEN "pending" ELSE "none"]
<1>5. NewTeam(w, st) = [[status |-> "none", wave |-> 0, member |-> none, launches |-> 0,
                         reported |-> FALSE] EXCEPT !.status = "created", !.wave = w,
                                                    !.member = m]
  BY DEF NewTeam, NoTeam
<1>6. /\ m \in [Steps -> Ended \cup {"none", "pending", "running"}]
      /\ {s \in Steps : m[s] # "none"} = PendingIn(w, st)
  BY DEF PendingIn
<1> HIDE DEF none, m
<1>1. NewTeam(w, st) = [status |-> "created", wave |-> w, member |-> m,
                        launches |-> 0, reported |-> FALSE]
  BY <1>5
<1>2. 0 \in 0..MaxLaunches
  BY PlanTypes
<1>3. NewTeam(w, st) \in TeamRecords
  BY <1>1, <1>2, <1>6 DEF TeamRecords, Open
<1>4. Members(NewTeam(w, st)) = PendingIn(w, st)
  BY <1>1, <1>6 DEF Members
<1> QED BY <1>1, <1>3, <1>4

(* Reconciling changes the state of members, nothing else of a team. *)
LEMMA ReconciledIs ==
  ASSUME TypeOK, NEW t \in Teams
  PROVE  /\ Reconciled(t) \in TeamRecords
         /\ Reconciled(t).status = team[t].status /\ Reconciled(t).launches = team[t].launches
         /\ Reconciled(t).reported = team[t].reported
         /\ Members(Reconciled(t)) = Members(team[t])
         /\ \A s \in Steps : Reconciled(t).member[s] =
              IF team[t].status \in Open THEN ReconciledMember(t, s) ELSE team[t].member[s]
<1>1. ASSUME NEW s \in Steps
      PROVE  /\ ReconciledMember(t, s) \in Ended \cup {"none", "pending", "running"}
             /\ ReconciledMember(t, s) = "none" <=> team[t].member[s] = "none"
  <2>1. team[t].member[s] \in Ended \cup {"none", "pending", "running"}
    BY RecordOf
  <2>2. CASE team[t].member[s] \notin {"running", "pending"} \/ team[t].launches = 0
    <3>1. ReconciledMember(t, s) = team[t].member[s]
      BY <2>2 DEF ReconciledMember
    <3> QED BY ONLY <2>1, <3>1
  <2>3. CASE ~(team[t].member[s] \notin {"running", "pending"} \/ team[t].launches = 0)
    <3>1. team[t].launches \in 1..MaxLaunches
      BY <2>3, RecordOf, PlanTypes
    <3>2. <<t, s, team[t].launches>> \in Delegates
      BY <3>1, DelegateOf
    <3>3. ds[<<t, s, team[t].launches>>] \in
            {"none", "running", "done", "partial", "error", "cancelled"}
      BY <3>2 DEF TypeOK
    <3>4. ReconciledMember(t, s) \in {"failed", "done", "running", "cancelled", team[t].member[s]}
      BY <2>3, <3>3 DEF ReconciledMember
    <3> QED BY <2>1, <2>3, <3>4 DEF Ended
  <2> QED BY <2>2, <2>3
<1>2. CASE team[t].status \in Open
  <2> DEFINE m == [s \in Steps |-> ReconciledMember(t, s)]
  <2>1. Reconciled(t) = [team[t] EXCEPT !.member = m]
    BY <1>2 DEF Reconciled
  <2>2. m \in [Steps -> Ended \cup {"none", "pending", "running"}]
    BY <1>1
  <2>3. \A s \in Steps : m[s] = ReconciledMember(t, s)
    OBVIOUS
  <2> HIDE DEF m
  <2>4. /\ Reconciled(t) \in TeamRecords /\ Reconciled(t).member = m
        /\ Reconciled(t).status = team[t].status /\ Reconciled(t).launches = team[t].launches
        /\ Reconciled(t).reported = team[t].reported
    BY <2>1, <2>2, RecordOf DEF TeamRecords
  <2>5. Members(Reconciled(t)) = Members(team[t])
    BY <1>1, <2>3, <2>4 DEF Members
  <2> QED BY <1>2, <2>3, <2>4, <2>5
<1>3. CASE team[t].status \notin Open
  BY <1>3, RecordOf DEF Reconciled
<1> QED BY <1>2, <1>3

-----------------------------------------------------------------------------
(* What a step does to the plan and to a team                              *)

(* A step that was done stays done, or is remembered as opened again.      *)
StepsKept ==
  /\ reopened \subseteq reopened'
  /\ \A s \in Steps : step[s] = "done" => step'[s] = "done" \/ s \in reopened'

StepsTyped ==
  /\ step' \in [Steps -> {"pending", "done"}]
  /\ reopened' \in SUBSET Steps

TeamsTyped == team' \in [Teams -> TeamRecords] /\ disk' \in [Teams -> TeamRecords]

TeamsGood == \A t \in Teams : TeamInv(t) /\ NeedsAreMet(t)

(* A completed team that was not skipped has done its steps. *)
StepsOf(t) ==
  team[t].status = "completed" /\ t \notin skipped =>
    \A s \in Members(team[t]) : step[s] = "done" \/ s \in reopened

LEMMA StepIs ==
  ASSUME TypeOK, NoStepIsSkipped
  PROVE  step \in [Steps -> {"pending", "done"}]
BY DEF TypeOK, NoStepIsSkipped

LEMMA SameSteps ==
  ASSUME TypeOK, NoStepIsSkipped, UNCHANGED <<step, reopened>>
  PROVE  StepsKept /\ StepsTyped
BY StepIs DEF TypeOK, StepsKept, StepsTyped

LEMMA SetStepsKeeps ==
  ASSUME TypeOK, NoStepIsSkipped, NEW st \in [Steps -> {"pending", "done"}], SetSteps(st)
  PROVE  StepsKept /\ StepsTyped /\ step' = st
BY DEF SetSteps, TypeOK, StepsKept, StepsTyped

LEMMA SyncedIs ==
  ASSUME TypeOK, NoStepIsSkipped, NEW r \in TeamRecords, AllEnded(r)
  PROVE  /\ Synced(r) \in [Steps -> {"pending", "done"}]
         /\ \A s \in Steps : r.member[s] = "done" => Synced(r)[s] = "done"
<1>1. r.member \in [Steps -> Ended \cup {"none", "pending", "running"}]
  BY DEF TeamRecords
<1>2. ASSUME NEW s \in Steps PROVE r.member[s] \in {"none", "done", "failed", "cancelled"}
  <2>1. CASE s \in Members(r)
    BY <2>1 DEF AllEnded, With, Ended
  <2>2. CASE s \notin Members(r)
    BY <2>2 DEF Members
  <2> QED BY <2>1, <2>2
<1>3. step \in [Steps -> {"pending", "done"}]
  BY StepIs
<1>4. ASSUME NEW s \in Steps
      PROVE  /\ Synced(r)[s] \in {"pending", "done"}
             /\ r.member[s] = "done" => Synced(r)[s] = "done"
  <2>1. Synced(r)[s] = CASE r.member[s] = "none" -> step[s]
                         [] r.member[s] = "done" -> "done"
                         [] r.member[s] \in {"failed", "cancelled"} -> "pending"
                         [] OTHER -> "skipped"
    BY DEF Synced
  <2> QED BY <1>2, <1>3, <2>1
<1>5. Synced(r) = [s \in Steps |-> Synced(r)[s]]
  BY DEF Synced
<1> QED BY <1>4, <1>5

LEMMA OutcomeIs ==
  ASSUME NEW r \in TeamRecords
  PROVE  /\ Outcome(r) \in Terminal
         /\ Outcome(r) = "completed" => \A s \in Members(r) : r.member[s] = "done"
BY DEF Outcome, Terminal, With

(* A completed team stays what it was, or is newly completed by its steps. *)
LEMMA CompletedKept ==
  ASSUME CompletedMeansStepsDone, StepsKept, skipped \subseteq skipped',
         \A t \in Teams : \/ /\ team'[t].status = team[t].status
                             /\ Members(team'[t]) = Members(team[t])
                          \/ StepsOf(t)'
  PROVE  CompletedMeansStepsDone'
<1>1. SUFFICES ASSUME NEW t \in Teams PROVE StepsOf(t)'
  BY DEF CompletedMeansStepsDone, StepsOf
<1>2. CASE team'[t].status = team[t].status /\ Members(team'[t]) = Members(team[t])
  <2>1. StepsOf(t)
    BY DEF CompletedMeansStepsDone, StepsOf
  <2>2. Members(team[t]) \subseteq Steps
    BY DEF Members
  <2> QED BY <1>2, <2>1, <2>2 DEF StepsOf, StepsKept
<1> QED BY <1>2

-----------------------------------------------------------------------------
(* How the steps of the specification change a team and the runs           *)

LeftAlone(t) == team'[t] = team[t] /\ disk'[t] = disk[t]

(* Whoever still runs is a running member of a team that is not over. *)
OwnRuns(t) ==
  \A d \in Delegates :
    TeamOf(d) = t /\ ds'[d] = "running" /\ d \notin astray' /\ Current(d)' =>
      team'[t].member[StepOf(d)] = "running" /\ team'[t].status \notin Terminal

(* A team keeps its members, lands when they have ended, and is completed  *)
(* when its steps are done; what is not saved is no launch.                *)
Updated(t) ==
  /\ team'[t] \in TeamRecords
  /\ \/ disk'[t] = team'[t]
     \/ disk'[t] = disk[t] /\ team'[t].launches = team[t].launches
  /\ team[t].status # "none" /\ team'[t].status # "none"
  /\ Members(team'[t]) = Members(team[t]) /\ team[t].launches <= team'[t].launches
  /\ LandedHasEnded(team[t])'
  /\ team'[t].status = team[t].status \/ StepsOf(t)'
  /\ OwnRuns(t)

Opened(t) ==
  /\ disk'[t] = team'[t] /\ team'[t] \in TeamRecords
  /\ team[t].status = "none" /\ team'[t].status = "created" /\ team'[t].launches = 0
  /\ NeedsAreMet(t)'

TeamStep(t) == LeftAlone(t) \/ Updated(t) \/ Opened(t)

TeamSteps ==
  /\ team' = [t \in Teams |-> team'[t]] /\ disk' = [t \in Teams |-> disk'[t]]
  /\ \A t \in Teams : TeamStep(t)

RunsStep ==
  \A d \in Delegates :
    /\ at'[d] # "none" => \/ at[d] # "none"
                          \/ /\ StepOf(d) \in Members(team'[TeamOf(d)])
                             /\ LaunchOf(d) <= team'[TeamOf(d)].launches
    /\ ds'[d] = "running" => at'[d] = "working"
    /\ ds'[d] = "running" /\ d \notin astray' =>
         (ds[d] = "running" /\ d \notin astray) \/ Updated(TeamOf(d))

SpawnsTyped == late' \in SUBSET Delegates /\ astray' \in SUBSET Delegates

LaunchingTyped ==
  launchable' \in SUBSET Teams /\ numbered' \in BOOLEAN /\ zero' \in SUBSET Delegates

RestTyped ==
  /\ LaunchingTyped /\ advancing' \in SUBSET Teams /\ SpawnsTyped
  /\ ds' \in [Delegates -> {"none", "running", "done", "partial", "error", "cancelled"}]
  /\ at' \in [Delegates -> {"none", "working", "ended", "told", "spawned", "over"}]
  /\ meddling' \in 0..MaxMeddling
  /\ skipped' \in SUBSET Teams /\ skipped \subseteq skipped'

LEMMA DiskKept ==
  ASSUME WavesInv, StepsKept, skipped \subseteq skipped', NEW t \in Teams, TeamStep(t)
  PROVE  StepsDoneBy(t, disk[t])'
<1>1. /\ StepsDoneBy(t, disk[t]) /\ StepsOf(t)
      /\ Members(disk[t]) \subseteq Steps /\ Members(team[t]) \subseteq Steps
  BY DEF WavesInv, TeamInv, CompletedMeansStepsDone, StepsOf, Members
<1>2. CASE disk'[t] = disk[t]
  BY <1>1, <1>2 DEF StepsDoneBy, StepsKept
<1>3. CASE Updated(t) /\ disk'[t] = team'[t]
  <2>1. CASE StepsOf(t)'
    BY <1>3, <2>1 DEF StepsOf, StepsDoneBy
  <2>2. CASE team'[t].status = team[t].status
    <3>1. Members(team'[t]) = Members(team[t])
      BY <1>3 DEF Updated
    <3> QED BY <1>1, <1>3, <2>2, <3>1 DEF StepsOf, StepsDoneBy, StepsKept
  <2> QED BY <1>3, <2>1, <2>2 DEF Updated
<1>4. CASE Opened(t)
  BY <1>4 DEF Opened, StepsDoneBy
<1> QED BY <1>2, <1>3, <1>4 DEF TeamStep, LeftAlone, Updated

LEMMA TeamsKept ==
  ASSUME WavesInv, TeamSteps, StepsKept, skipped \subseteq skipped'
  PROVE  TeamsTyped /\ TeamsGood' /\ CompletedMeansStepsDone'
<1>1. ASSUME NEW t \in Teams PROVE team'[t] \in TeamRecords /\ disk'[t] \in TeamRecords
  BY RecordOf DEF WavesInv, TeamSteps, TeamStep, LeftAlone, Updated, Opened
<1>2. TeamsTyped
  BY <1>1 DEF TeamSteps, TeamsTyped
<1>3. ASSUME NEW t \in Teams PROVE TeamInv(t)'
  <2>0. TeamStep(t)
    BY DEF TeamSteps
  <2>4. StepsDoneBy(t, disk[t])'
    BY <2>0, DiskKept
  <2>1. CASE LeftAlone(t)
    BY <2>1, <2>4 DEF WavesInv, LeftAlone, TeamInv, UnusedIsNoTeam, DiskFollows
  <2>2. CASE Updated(t)
    BY <2>2, <2>4 DEF WavesInv, Updated, TeamInv, UnusedIsNoTeam, DiskFollows
  <2>3. CASE Opened(t)
    BY <2>3, <2>4 DEF Opened, TeamInv, UnusedIsNoTeam, DiskFollows, LandedHasEnded, Terminal
  <2> QED BY <2>0, <2>1, <2>2, <2>3 DEF TeamStep
<1>4. ASSUME NEW t \in Teams PROVE NeedsAreMet(t)'
  <2>0. TeamStep(t)
    BY DEF TeamSteps
  <2>1. CASE Opened(t)
    BY <2>1 DEF Opened
  <2>2. CASE LeftAlone(t) \/ Updated(t)
    <3>1. Members(team'[t]) = Members(team[t])
      BY <2>2 DEF LeftAlone, Updated
    <3>2. SUFFICES ASSUME NEW s \in Members(team'[t]), NEW n \in Needs[s]
                   PROVE  step'[n] # "pending" \/ n \in reopened'
      BY DEF NeedsAreMet
    <3>3. s \in Steps /\ n \in Steps
      BY PlanTypes DEF Members
    <3>4. step[n] # "pending" \/ n \in reopened
      BY <3>1, <3>2 DEF WavesInv, NeedsAreMet
    <3>5. step[n] \in {"pending", "done"}
      BY <3>3, StepIs DEF WavesInv
    <3> QED BY <3>3, <3>4, <3>5 DEF StepsKept
  <2> QED BY <2>0, <2>1, <2>2 DEF TeamStep
<1>5. CompletedMeansStepsDone'
  <2>1. ASSUME NEW t \in Teams
        PROVE  \/ /\ team'[t].status = team[t].status
                  /\ Members(team'[t]) = Members(team[t])
               \/ StepsOf(t)'
    BY DEF TeamSteps, TeamStep, LeftAlone, Updated, Opened, StepsOf
  <2> QED BY <2>1, CompletedKept DEF WavesInv
<1> QED BY <1>2, <1>3, <1>4, <1>5 DEF TeamsGood

LEMMA RunsKept ==
  ASSUME WavesInv, TeamSteps, RunsStep, NEW d \in Delegates
  PROVE  RunsAreOfMembers(d)'
<1> DEFINE t == TeamOf(d)
<1>1. /\ t \in Teams /\ StepOf(d) \in Steps /\ LaunchOf(d) \in Nat /\ LaunchOf(d) > 0
      /\ TeamStep(t) /\ RunsAreOfMembers(d) /\ UnusedIsNoTeam(t)
  BY DelegateIs, PlanTypes DEF TeamSteps, WavesInv, TeamInv
<1>2. team[t].launches \in Nat
  BY <1>1, RecordOf, PlanTypes DEF WavesInv
<1>3. CASE Opened(t)
  <2>1. Members(team[t]) = {} /\ team[t].launches = 0
    BY <1>1, <1>3 DEF Opened, UnusedIsNoTeam, NoTeam, Members
  <2>2. at[d] = "none" /\ team'[t].launches = 0
    BY <1>1, <1>3, <2>1 DEF Opened, RunsAreOfMembers
  <2>3. at'[d] = "none"
    BY <1>1, <2>2 DEF RunsStep
  <2> QED BY <2>3 DEF RunsAreOfMembers, RunsStep
<1>4. CASE LeftAlone(t) \/ Updated(t)
  <2>1. /\ Members(team'[t]) = Members(team[t]) /\ team[t].launches <= team'[t].launches
        /\ team'[t].launches \in Nat
    BY <1>2, <1>4, PlanTypes DEF LeftAlone, Updated, TeamRecords
  <2>2. at'[d] # "none" => /\ StepOf(d) \in Members(team'[t])
                           /\ LaunchOf(d) <= team'[t].launches
    BY <1>1, <1>2, <2>1 DEF RunsStep, RunsAreOfMembers
  <2>3. ASSUME ds'[d] = "running", d \notin astray', Current(d)'
        PROVE  team'[t].member[StepOf(d)] = "running" /\ team'[t].status \notin Terminal
    <3>1. CASE Updated(t)
      BY <1>1, <2>3, <3>1 DEF Updated, OwnRuns
    <3>2. CASE ~Updated(t)
      <4>1. LeftAlone(t) /\ ds[d] = "running" /\ d \notin astray
        BY <1>4, <2>3, <3>2 DEF RunsStep
      <4>2. Current(d)
        BY <2>3, <4>1 DEF LeftAlone, Current
      <4> QED BY <1>1, <4>1, <4>2 DEF LeftAlone, RunsAreOfMembers
    <3> QED BY <3>1, <3>2
  <2>4. ds'[d] = "running" => at'[d] = "working"
    BY DEF RunsStep
  <2> QED BY <2>2, <2>3, <2>4 DEF RunsAreOfMembers
<1> QED BY <1>1, <1>3, <1>4 DEF TeamStep

(* Whoever starts is a member of a team that was there before, so what it  *)
(* needs is met.                                                           *)
NeedsOfStarts ==
  \A d \in Delegates : Starts(d) =>
    \A n \in Needs[StepOf(d)] : step[n] # "pending" \/ n \in reopened

WavesKept == WavesInv' /\ NeedsOfStarts

LEMMA StartsKept ==
  ASSUME WavesInv, TeamSteps, \A d \in Delegates : RunsAreOfMembers(d)', NEW d \in Delegates,
         Starts(d), NEW n \in Needs[StepOf(d)]
  PROVE  step[n] # "pending" \/ n \in reopened
<1> DEFINE t == TeamOf(d)
<1>1. t \in Teams /\ LaunchOf(d) \in Nat /\ LaunchOf(d) > 0 /\ TeamStep(t) /\ NeedsAreMet(t)
  BY DelegateIs, PlanTypes DEF TeamSteps, WavesInv
<1>2. StepOf(d) \in Members(team'[t]) /\ LaunchOf(d) <= team'[t].launches
  BY DEF Starts, RunsAreOfMembers
<1>3. ~Opened(t)
  BY <1>1, <1>2 DEF Opened
<1>4. Members(team'[t]) = Members(team[t])
  BY <1>1, <1>3 DEF TeamStep, LeftAlone, Updated
<1> QED BY <1>1, <1>2, <1>4 DEF NeedsAreMet

LEMMA StepKeeps ==
  ASSUME WavesInv, TeamSteps, StepsKept, StepsTyped, RestTyped, RunsStep
  PROVE  WavesKept
<1>1. TeamsTyped /\ TeamsGood' /\ CompletedMeansStepsDone'
  BY TeamsKept DEF RestTyped
<1>2. \A d \in Delegates : RunsAreOfMembers(d)'
  BY RunsKept
<1>3. TypeOK'
  BY <1>1 DEF TypeOK, TeamsTyped, StepsTyped, RestTyped, SpawnsTyped, LaunchingTyped
<1>4. NoStepIsSkipped'
  BY DEF NoStepIsSkipped, StepsTyped
<1>5. NeedsOfStarts
  BY <1>2, StartsKept DEF NeedsOfStarts
<1> QED BY <1>1, <1>2, <1>3, <1>4, <1>5 DEF WavesKept, WavesInv, TeamsGood

LEMMA OneTeam ==
  ASSUME WavesInv, NEW t \in Teams, NEW r, Store(Only(t, r))
  PROVE  /\ team'[t] = r /\ disk'[t] = r
         /\ (Updated(t) \/ Opened(t)) => TeamSteps
<1>1. TypeOK
  BY DEF WavesInv
<1>2. /\ \A u \in Teams : team'[u] = IF u = t THEN r ELSE team[u]
      /\ \A u \in Teams : disk'[u] = IF u = t THEN r ELSE disk[u]
  BY <1>1, StoreOnly
<1>3. team' = [u \in Teams |-> team'[u]] /\ disk' = [u \in Teams |-> disk'[u]]
  BY DEF Store
<1>4. \A u \in Teams : u # t => TeamStep(u)
  BY <1>2 DEF TeamStep, LeftAlone
<1> QED BY <1>2, <1>3, <1>4 DEF TeamStep, TeamSteps

LEMMA NoTeamSteps ==
  ASSUME WavesInv, UNCHANGED <<team, disk>>
  PROVE  TeamSteps
BY DEF WavesInv, TypeOK, TeamSteps, TeamStep, LeftAlone

LEMMA SameRuns ==
  ASSUME WavesInv, UNCHANGED run
  PROVE  /\ RunsStep /\ SpawnsTyped
         /\ ds' \in [Delegates -> {"none", "running", "done", "partial", "error", "cancelled"}]
         /\ at' \in [Delegates -> {"none", "working", "ended", "told", "spawned", "over"}]
         /\ \A d \in Delegates : /\ ds'[d] = "running" <=> ds[d] = "running"
                                 /\ d \in astray' <=> d \in astray
BY DEF WavesInv, TypeOK, RunsStep, RunsAreOfMembers, run, spawns, SpawnsTyped

(* A current run that was not spawned too late keeps its team from landing. *)
LEMMA RunningMember ==
  ASSUME WavesInv, NEW d \in Delegates, ds[d] = "running", d \notin astray, Current(d)
  PROVE  /\ team[TeamOf(d)].member[StepOf(d)] = "running"
         /\ team[TeamOf(d)].status \notin Terminal
         /\ Reconciled(TeamOf(d)).member[StepOf(d)] = "running"
         /\ ~AllEnded(team[TeamOf(d)]) /\ ~AllEnded(Reconciled(TeamOf(d)))
<1> DEFINE t == TeamOf(d)
           s == StepOf(d)
<1>1. t \in Teams /\ s \in Steps /\ LaunchOf(d) # 0
  BY DelegateIs, PlanTypes
<1>2. d = <<t, s, team[t].launches>> /\ team[t].launches # 0
  BY <1>1, DelegateIs DEF Current
<1>3. team[t].member[s] = "running" /\ team[t].status \notin Terminal
  BY DEF WavesInv, RunsAreOfMembers
<1>4. ReconciledMember(t, s) = "running"
  BY <1>2, <1>3 DEF ReconciledMember
<1>5. Reconciled(t).member[s] = "running"
  BY <1>1, <1>3, <1>4, ReconciledIs DEF WavesInv
<1>6. \A r : r.member[s] = "running" => ~AllEnded(r)
  BY <1>1 DEF AllEnded, Members, With, Ended
<1> QED BY <1>3, <1>5, <1>6

LEMMA CreatedIs ==
  ASSUME WavesInv, NEW t \in Teams, team[t].status \in Open \cup Terminal \/ t \in Created
  PROVE  team[t].status # "none"
BY DEF Open, Terminal, Created

LEMMA LaunchesAre ==
  ASSUME WavesInv, NEW t \in Teams
  PROVE  team[t].launches \in Nat /\ team[t].launches <= team[t].launches
BY RecordOf, PlanTypes DEF WavesInv

(* What the other variables are, where nothing happens to them. *)
LEMMA SameRest ==
  ASSUME WavesInv
  PROVE  /\ UNCHANGED launching => LaunchingTyped
         /\ UNCHANGED spawns => SpawnsTyped
         /\ advancing' = advancing => advancing' \in SUBSET Teams
         /\ meddling' = meddling => meddling' \in 0..MaxMeddling
         /\ skipped' = skipped => skipped' \in SUBSET Teams /\ skipped \subseteq skipped'
         /\ UNCHANGED <<step, reopened>> => StepsKept /\ StepsTyped
BY SameSteps DEF WavesInv, TypeOK, launching, spawns, LaunchingTyped, SpawnsTyped

LEMMA Meddled ==
  ASSUME WavesInv, Meddle
  PROVE  meddling' \in 0..MaxMeddling /\ meddling' # meddling
BY PlanTypes DEF Meddle, WavesInv, TypeOK

-----------------------------------------------------------------------------
(* Closing a wave                                                          *)

LEMMA ReconcileKeeps ==
  ASSUME WavesInv, NEW t \in Teams, Reconcile(t)
  PROVE  WavesKept
<1>1. team[t].status \in Open
  BY DEF Reconcile, Reconciled
<1>2. /\ Reconciled(t) \in TeamRecords
      /\ Reconciled(t).status = team[t].status /\ Reconciled(t).launches = team[t].launches
      /\ Members(Reconciled(t)) = Members(team[t])
  BY ReconciledIs DEF WavesInv
<1>3. Store(Only(t, Reconciled(t))) /\ UNCHANGED run /\ UNCHANGED <<step, reopened>>
      /\ UNCHANGED <<launching, advancing, meddling, skipped>>
  BY DEF Reconcile, history
<1>4. team'[t] = Reconciled(t) /\ disk'[t] = Reconciled(t)
  BY <1>3, OneTeam
<1>5. OwnRuns(t)
  BY <1>2, <1>3, <1>4, SameRuns, RunningMember DEF OwnRuns, Current
<1>6. Updated(t)
  BY <1>1, <1>2, <1>4, <1>5, CreatedIs, LaunchesAre DEF Updated, LandedHasEnded, Open, Terminal
<1>7. TeamSteps
  BY <1>3, <1>6, OneTeam
<1> QED BY <1>3, <1>7, SameRest, SameRuns, StepKeeps DEF RestTyped

LEMMA AdvanceKeeps ==
  ASSUME WavesInv, NEW t \in Teams, Advance(t)
  PROVE  WavesKept
<1> DEFINE r == Reconciled(t)
           closed == [r EXCEPT !.status = Outcome(r), !.reported = TRUE]
<1>1. /\ r \in TeamRecords
      /\ r.launches = team[t].launches /\ Members(r) = Members(team[t])
  BY ReconciledIs DEF WavesInv
<1>2. Outcome(r) \in Terminal /\ (Outcome(r) = "completed" =>
                                    \A s \in Members(r) : r.member[s] = "done")
  BY <1>1, OutcomeIs
<1>3. Advanceable(t) /\ Store(Only(t, closed)) /\ SetSteps(Synced(closed))
      /\ advancing' \subseteq advancing \cup {t} /\ UNCHANGED run
      /\ UNCHANGED <<launching, meddling, skipped>>
  BY DEF Advance
<1>4. AllEnded(r) /\ team[t].status \in Open
  BY <1>3 DEF Advanceable
<1> HIDE DEF r
<1>5. /\ closed \in TeamRecords /\ closed.member = r.member /\ closed.launches = r.launches
      /\ closed.status = Outcome(r) /\ closed.reported
  BY <1>1, <1>2 DEF TeamRecords
<1> HIDE DEF closed
<1>6. Members(closed) = Members(r) /\ AllEnded(closed)
  BY <1>4, <1>5 DEF Members, AllEnded, With
<1>7. /\ Synced(closed) \in [Steps -> {"pending", "done"}]
      /\ \A s \in Steps : closed.member[s] = "done" => Synced(closed)[s] = "done"
  BY <1>5, <1>6, SyncedIs DEF WavesInv
<1>8. StepsKept /\ StepsTyped /\ step' = Synced(closed)
  BY <1>3, <1>7, SetStepsKeeps DEF WavesInv
<1>9. team'[t] = closed /\ disk'[t] = closed
  BY <1>3, OneTeam
<1>10. OwnRuns(t)
  BY <1>1, <1>3, <1>4, <1>5, <1>9, SameRuns, RunningMember DEF OwnRuns, r, Current
<1>11. StepsOf(t)'
  BY <1>2, <1>5, <1>6, <1>7, <1>8, <1>9 DEF StepsOf, Members
<1>12. closed.status # "none"
  BY <1>2, <1>5 DEF Terminal
<1>13. Updated(t)
  BY <1>1, <1>4, <1>5, <1>6, <1>9, <1>10, <1>11, <1>12, CreatedIs, LaunchesAre
     DEF Updated, LandedHasEnded
<1>14. TeamSteps
  BY <1>3, <1>13, OneTeam
<1>15. advancing' \in SUBSET Teams
  BY <1>3 DEF WavesInv, TypeOK
<1> QED BY <1>3, <1>8, <1>14, <1>15, SameRest, SameRuns, StepKeeps DEF RestTyped

(* A new team takes an unused place, for a wave that none is open before. *)
LEMMA NewTeamOpens ==
  ASSUME WavesInv, NEW u \in Unused, NEW w \in Nat, EarlierPending(w, step') = {},
         NoStepIsSkipped', team'[u] = NewTeam(w, step'), disk'[u] = team'[u]
  PROVE  Opened(u)
<1>1. u \in Teams /\ team[u].status = "none"
  BY DEF Unused, Created
<1>2. /\ team'[u] \in TeamRecords /\ team'[u].status = "created" /\ team'[u].launches = 0
      /\ Members(team'[u]) = PendingIn(w, step')
  BY NewTeamIs
<1>3. ASSUME NEW s \in Members(team'[u]), NEW n \in Needs[s] PROVE step'[n] # "pending"
  <2>1. s \in Steps /\ WaveOf[s] = w
    BY <1>2, <1>3 DEF PendingIn
  <2>2. n \in Steps /\ WaveOf[n] < w
    BY <2>1, PlanTypes, WavesAreNumbered
  <2> QED BY <2>2 DEF EarlierPending
<1>4. NeedsAreMet(u)'
  BY <1>3 DEF NeedsAreMet
<1> QED BY <1>1, <1>2, <1>4 DEF Opened

LEMMA CreateKeeps ==
  ASSUME WavesInv, NEW w \in Nat, Create(w)
  PROVE  WavesKept
<1> DEFINE u == Min(Unused)
<1>1. u \in Unused /\ u \in Teams
  BY UnusedMin DEF Create, Unused
<1>2. /\ Store(Only(u, NewTeam(w, step))) /\ UNCHANGED run /\ UNCHANGED <<step, reopened>>
      /\ UNCHANGED <<launching, advancing, meddling, skipped>>
      /\ EarlierPending(w, step) = {}
  BY DEF Create, history, Creatable
<1> HIDE DEF u
<1>3. team'[u] = NewTeam(w, step) /\ disk'[u] = NewTeam(w, step)
  BY <1>1, <1>2, OneTeam
<1>4. Opened(u)
  BY <1>1, <1>2, <1>3, NewTeamOpens DEF WavesInv, NoStepIsSkipped
<1>5. TeamSteps
  BY <1>1, <1>2, <1>4, OneTeam
<1> QED BY <1>2, <1>5, SameRest, SameRuns, StepKeeps DEF RestTyped

LEMMA NextWaveIs ==
  ASSUME WavesInv, NEW t \in Teams, NEW st
  PROVE  \/ NextWave(t, st) = NoWave
         \/ /\ Unused # {}
            /\ \E w \in Nat : /\ NextWave(t, st) = Only(Min(Unused), NewTeam(w, st))
                              /\ EarlierPending(w, st) = {}
<1> DEFINE open == {w \in {WaveOf[s] : s \in Steps} : PendingIn(w, st) # {}}
<1>1. SUFFICES ASSUME NextWave(t, st) # NoWave
               PROVE  /\ Unused # {} /\ Min(open) \in Nat
                      /\ NextWave(t, st) = Only(Min(Unused), NewTeam(Min(open), st))
                      /\ EarlierPending(Min(open), st) = {}
  OBVIOUS
<1>2. /\ open # {} /\ Unused # {}
      /\ NextWave(t, st) = Only(Min(Unused), NewTeam(Min(open), st))
  BY <1>1 DEF NextWave
<1>3. open \in SUBSET Nat /\ IsFiniteSet(open)
  <2>1. IsFiniteSet({WaveOf[s] : s \in Steps})
    <3> DEFINE S == {WaveOf[s] : s \in Steps}
               f == [s \in Steps |-> WaveOf[s]]
    <3>1. f \in Surjection(Steps, S)
      BY DEF Surjection
    <3> HIDE DEF S, f
    <3>2. IsFiniteSet(S)
      BY <3>1, PlanTypes, FS_Surjection
    <3> QED BY <3>2 DEF S
  <2>2. {WaveOf[s] : s \in Steps} \subseteq Nat
    BY PlanTypes
  <2>3. open \in SUBSET {WaveOf[s] : s \in Steps}
    OBVIOUS
  <2> HIDE DEF open
  <2>4. IsFiniteSet(open)
    BY <2>1, <2>3, FS_Subset
  <2> QED BY <2>2, <2>3, <2>4
<1> HIDE DEF open
<1>4. Min(open) \in open /\ \A x \in open : Min(open) <= x
  BY <1>2, <1>3, MinOfFinite
<1>5. ASSUME NEW s \in EarlierPending(Min(open), st) PROVE FALSE
  <2>1. s \in Steps /\ WaveOf[s] < Min(open) /\ st[s] = "pending"
    BY DEF EarlierPending
  <2>2. WaveOf[s] \in open
    BY <2>1 DEF open, PendingIn
  <2>3. Min(open) \in Nat /\ WaveOf[s] \in Nat /\ Min(open) <= WaveOf[s]
    BY <1>3, <1>4, <2>2
  <2> QED BY <2>1, <2>3
<1>6. Min(open) \in Nat /\ EarlierPending(Min(open), st) = {}
  BY <1>3, <1>4, <1>5
<1> QED BY <1>2, <1>6

LEMMA AdvanceCreatesKeeps ==
  ASSUME WavesInv, NEW t \in Teams, AdvanceCreates(t)
  PROVE  WavesKept
<1>1. /\ Store(NextWave(t, step)) /\ UNCHANGED run /\ UNCHANGED <<step, reopened>>
      /\ UNCHANGED <<launching, meddling, skipped>> /\ advancing' = advancing \ {t}
  BY DEF AdvanceCreates, history
<1>2. advancing' \in SUBSET Teams
  BY <1>1 DEF WavesInv, TypeOK
<1>3. CASE NextWave(t, step) = NoWave
  <2>1. Store(NoWave)
    BY <1>1, <1>3
  <2>2. UNCHANGED <<team, disk>>
    BY <2>1 DEF Store, NoWave, WavesInv, TypeOK
  <2>3. TeamSteps
    BY <2>2, NoTeamSteps
  <2> QED BY <1>1, <1>2, <2>3, SameRest, SameRuns, StepKeeps DEF RestTyped
<1>4. CASE NextWave(t, step) # NoWave
  <2> DEFINE u == Min(Unused)
  <2>1. u \in Unused /\ u \in Teams
    BY <1>4, NextWaveIs, UnusedMin DEF Unused
  <2>2. PICK w \in Nat : NextWave(t, step) = Only(u, NewTeam(w, step))
                         /\ EarlierPending(w, step) = {}
    BY <1>4, NextWaveIs
  <2>3. Store(Only(u, NewTeam(w, step)))
    BY <1>1, <2>2
  <2> HIDE DEF u
  <2>4. team'[u] = NewTeam(w, step) /\ disk'[u] = NewTeam(w, step)
    BY <2>1, <2>3, OneTeam
  <2>5. Opened(u)
    BY <1>1, <2>1, <2>2, <2>4, NewTeamOpens DEF WavesInv, NoStepIsSkipped
  <2>6. TeamSteps
    BY <2>1, <2>3, <2>5, OneTeam
  <2> QED BY <1>1, <1>2, <2>6, SameRest, SameRuns, StepKeeps DEF RestTyped
<1> QED BY <1>3, <1>4

LEMMA CloseKeeps ==
  ASSUME WavesInv, NEW t \in Teams, Close(t)
  PROVE  WavesKept
<1> DEFINE next == IF team[t].status = "completed" THEN NextWave(t, step') ELSE NoWave
           closed == [team[t] EXCEPT !.reported = TRUE]
           new == [u \in {t} \cup DOMAIN next |-> IF u = t THEN closed ELSE next[u]]
<1>1. /\ team[t].status \in Terminal /\ Store(new)
      /\ UNCHANGED run /\ UNCHANGED <<launching, advancing, meddling, skipped>>
  BY DEF Close
<1>2. StepsKept /\ StepsTyped
  <2>1. CASE ~team[t].reported /\ SetSteps(Synced(team[t]))
    <3>1. AllEnded(team[t]) /\ team[t] \in TeamRecords
      BY <1>1, <2>1, RecordOf DEF WavesInv, TeamInv, LandedHasEnded
    <3>2. Synced(team[t]) \in [Steps -> {"pending", "done"}]
      BY <3>1, SyncedIs DEF WavesInv
    <3> QED BY <2>1, <3>2, SetStepsKeeps DEF WavesInv
  <2>2. CASE UNCHANGED <<step, reopened>>
    BY <2>2, SameRest
  <2> QED BY <2>1, <2>2 DEF Close
<1>3. /\ \A u \in Teams : u \in DOMAIN new => team'[u] = new[u] /\ disk'[u] = new[u]
      /\ \A u \in Teams : u \notin DOMAIN new => LeftAlone(u)
      /\ team' = [u \in Teams |-> team'[u]] /\ disk' = [u \in Teams |-> disk'[u]]
  BY <1>1 DEF Store, LeftAlone
<1>4. Updated(t)
  <2>1. team'[t] = closed /\ disk'[t] = closed
    BY <1>3
  <2>2. /\ closed \in TeamRecords /\ closed.member = team[t].member
        /\ closed.launches = team[t].launches /\ closed.status = team[t].status
        /\ closed.reported
    BY RecordOf DEF WavesInv, TeamRecords
  <2> HIDE DEF closed
  <2>3. OwnRuns(t)
    BY <1>1, <2>1, <2>2, SameRuns, RunningMember DEF OwnRuns, Current
  <2> QED BY <1>1, <2>1, <2>2, <2>3, CreatedIs, LaunchesAre DEF Updated, LandedHasEnded, Members
<1>5. \A u \in Teams : TeamStep(u)
  <2>1. CASE next = NoWave
    <3>1. DOMAIN new = {t}
      BY <2>1 DEF NoWave
    <3> QED BY <1>3, <1>4, <3>1 DEF TeamStep
  <2>2. CASE next # NoWave
    <3> DEFINE v == Min(Unused)
    <3>1. v \in Unused /\ v \in Teams /\ v # t
      BY <1>1, <2>2, NextWaveIs, UnusedMin, CreatedIs DEF Unused, Created
    <3>2. PICK w \in Nat : next = Only(v, NewTeam(w, step')) /\ EarlierPending(w, step') = {}
      BY <2>2, NextWaveIs
    <3> HIDE DEF v, next
    <3>3. DOMAIN new = {t, v} /\ new[v] = NewTeam(w, step')
      BY <3>1, <3>2 DEF Only
    <3>4. team'[v] = NewTeam(w, step') /\ disk'[v] = team'[v]
      BY <1>3, <3>1, <3>3
    <3>5. NoStepIsSkipped'
      BY <1>2 DEF StepsTyped, NoStepIsSkipped
    <3>6. Opened(v)
      BY <3>1, <3>2, <3>4, <3>5, NewTeamOpens
    <3> QED BY <1>3, <1>4, <3>3, <3>6 DEF TeamStep
  <2> QED BY <2>1, <2>2
<1>6. TeamSteps
  BY <1>3, <1>5 DEF TeamSteps
<1> QED BY <1>1, <1>2, <1>6, SameRest, SameRuns, StepKeeps DEF RestTyped

-----------------------------------------------------------------------------
(* Interventions                                                           *)

(* A team that is paused or resumed. *)
LEMMA OpenKeeps ==
  ASSUME WavesInv, NEW t \in Teams, NEW to \in Open, team[t].status \in Open,
         Store(Only(t, [team[t] EXCEPT !.status = to])),
         UNCHANGED run, StepsKept, StepsTyped, RestTyped
  PROVE  WavesKept
<1> DEFINE r == [team[t] EXCEPT !.status = to]
<1>1. /\ r \in TeamRecords /\ r.member = team[t].member /\ r.launches = team[t].launches
      /\ r.status = to
  BY RecordOf DEF WavesInv, TeamRecords
<1> HIDE DEF r
<1>2. team'[t] = r /\ disk'[t] = r
  BY OneTeam DEF r
<1>3. to \notin Terminal /\ to # "none" /\ to # "completed"
  BY DEF Open, Terminal
<1>4. OwnRuns(t)
  BY <1>1, <1>2, <1>3, SameRuns, RunningMember DEF OwnRuns, Current
<1>5. Updated(t)
  BY <1>1, <1>2, <1>3, <1>4, CreatedIs, LaunchesAre DEF Updated, LandedHasEnded, Members, StepsOf
<1>6. TeamSteps
  BY <1>5, OneTeam DEF r
<1> QED BY <1>6, SameRuns, StepKeeps

LEMMA PauseKeeps ==
  ASSUME WavesInv, NEW t \in Teams, Pause(t)
  PROVE  WavesKept
<1>1. /\ Meddle /\ team[t].status \in Open /\ "paused" \in Open
      /\ Store(Only(t, [team[t] EXCEPT !.status = "paused"]))
      /\ UNCHANGED <<launching, step, run, advancing, skipped, reopened>>
  BY DEF Pause, Open, history
<1>2. RestTyped /\ StepsKept /\ StepsTyped
  BY <1>1, Meddled, SameRest, SameRuns DEF RestTyped
<1> QED BY <1>1, <1>2, OpenKeeps

LEMMA ResumeKeeps ==
  ASSUME WavesInv, NEW t \in Teams, Resume(t)
  PROVE  WavesKept
<1>1. /\ team[t].status \in Open /\ "active" \in Open
      /\ Store(Only(t, [team[t] EXCEPT !.status = "active"]))
      /\ UNCHANGED <<launching, step, run, advancing, meddling, skipped, reopened>>
  BY DEF Resume, Open, history
<1>2. RestTyped /\ StepsKept /\ StepsTyped
  BY <1>1, SameRest, SameRuns DEF RestTyped
<1> QED BY <1>1, <1>2, OpenKeeps

(* Cancelling ends the current runs of the members that are named. *)
LEMMA CancelledIs ==
  ASSUME WavesInv, NEW t \in Teams, NEW S \in SUBSET Steps, ds' = Cancelled(t, S),
         UNCHANGED <<spawns, at>>
  PROVE  /\ RunsStep /\ SpawnsTyped
         /\ ds' \in [Delegates -> {"none", "running", "done", "partial", "error", "cancelled"}]
         /\ at' \in [Delegates -> {"none", "working", "ended", "told", "spawned", "over"}]
         /\ \A d \in Delegates : ds'[d] = "running" =>
              ds[d] = "running" /\ ~(TeamOf(d) = t /\ StepOf(d) \in S /\ Current(d))
<1>1. ASSUME NEW d \in Delegates
      PROVE  /\ ds'[d] \in {ds[d], "cancelled"}
             /\ ds'[d] = "running" =>
                  ds[d] = "running" /\ ~(TeamOf(d) = t /\ StepOf(d) \in S /\ Current(d))
  <2>1. ds'[d] = IF d \in {t} \X S \X {team[t].launches} /\ ds[d] = "running"
                 THEN "cancelled" ELSE ds[d]
    BY DEF Cancelled
  <2>2. ASSUME TeamOf(d) = t, StepOf(d) \in S, Current(d)
        PROVE  d \in {t} \X S \X {team[t].launches}
    BY <2>2, DelegateIs DEF Current
  <2> QED BY <2>1, <2>2
<1>2. ds' \in [Delegates -> {"none", "running", "done", "partial", "error", "cancelled"}]
  <2>1. ds' = [d \in Delegates |-> ds'[d]]
    BY DEF Cancelled
  <2> QED BY <1>1, <2>1 DEF WavesInv, TypeOK
<1>3. RunsStep
  BY <1>1 DEF RunsStep, WavesInv, RunsAreOfMembers, spawns
<1> QED BY <1>1, <1>2, <1>3, SameRest DEF WavesInv, TypeOK

LEMMA MarkedIs ==
  ASSUME WavesInv, NEW t \in Teams, NEW S \in SUBSET Members(team[t])
  PROVE  /\ Marked(t, S) \in [Steps -> Ended \cup {"none", "pending", "running"}]
         /\ \A s \in Steps : Marked(t, S)[s] = IF s \in S THEN "cancelled" ELSE team[t].member[s]
         /\ {s \in Steps : Marked(t, S)[s] # "none"} = Members(team[t])
BY RecordOf DEF WavesInv, Marked, Ended, Members

(* A team that is closed over its running members. *)
LEMMA StoppedKeeps ==
  ASSUME WavesInv, NEW t \in Teams, team[t].status # "none",
         NEW S \in SUBSET Members(team[t]), With(team[t], {"running"}) \subseteq S,
         NEW r \in TeamRecords, Store(Only(t, r)),
         r.member = Marked(t, S), r.launches = team[t].launches, r.status # "none",
         LandedHasEnded(r), r.status = "completed" => t \in skipped',
         ds' = Cancelled(t, With(team[t], {"running"})), UNCHANGED <<spawns, at>>,
         StepsKept, StepsTyped, RestTyped
  PROVE  WavesKept
<1>1. team'[t] = r /\ disk'[t] = r
  BY OneTeam
<1>2. With(team[t], {"running"}) \in SUBSET Steps
  BY DEF With
<1>3. OwnRuns(t)
  <2>1. SUFFICES ASSUME NEW d \in Delegates, TeamOf(d) = t, ds'[d] = "running",
                        d \notin astray', Current(d)'
                 PROVE  FALSE
    BY DEF OwnRuns
  <2>2. /\ ds[d] = "running" /\ d \notin astray /\ Current(d)
        /\ StepOf(d) \notin With(team[t], {"running"})
    BY <1>1, <1>2, <2>1, CancelledIs DEF Current, spawns
  <2> QED BY <2>1, <2>2, RunningMember, DelegateIs DEF With
<1>4. Members(r) = Members(team[t])
  BY MarkedIs DEF Members
<1>5. Updated(t)
  BY <1>1, <1>3, <1>4, LaunchesAre DEF Updated, StepsOf
<1>6. TeamSteps
  BY <1>5, OneTeam
<1> QED BY <1>2, <1>6, CancelledIs, StepKeeps

LEMMA DisbandKeeps ==
  ASSUME WavesInv, NEW t \in Teams, Disband(t)
  PROVE  WavesKept
<1> DEFINE S == With(team[t], {"running"})
           never == team[t].launches = 0
                    /\ With(team[t], {"pending", "cancelled"}) = Members(team[t])
           r == [team[t] EXCEPT !.member = Marked(t, S), !.reported = TRUE,
                                !.status = IF never THEN "cancelled" ELSE "failed"]
<1>1. /\ Meddle /\ team[t].status \in Open /\ Store(Only(t, r)) /\ ds' = Cancelled(t, S)
      /\ UNCHANGED <<launching, step, spawns, at, advancing, skipped, reopened>>
  BY DEF Disband, history
<1>2. S \in SUBSET Members(team[t]) /\ S \in SUBSET Steps
  BY DEF With, Members
<1>3. Marked(t, S) \in [Steps -> Ended \cup {"none", "pending", "running"}]
  BY <1>2, MarkedIs
<1>4. (IF never THEN "cancelled" ELSE "failed") \in Terminal \ {"completed"}
  BY DEF Terminal
<1> HIDE DEF never
<1>5. /\ r \in TeamRecords /\ r.member = Marked(t, S) /\ r.launches = team[t].launches
      /\ r.status \in Terminal \ {"completed"} /\ r.reported
  BY <1>3, <1>4, RecordOf DEF WavesInv, TeamRecords
<1> HIDE DEF r
<1>6. r.status # "none" /\ LandedHasEnded(r) /\ team[t].status # "none"
  BY <1>1, <1>5, CreatedIs DEF LandedHasEnded, Terminal
<1>7. RestTyped /\ StepsKept /\ StepsTyped
  BY <1>1, <1>2, Meddled, SameRest, CancelledIs DEF RestTyped
<1> QED BY <1>1, <1>2, <1>5, <1>6, <1>7, StoppedKeeps

LEMMA SkipKeeps ==
  ASSUME WavesInv, NEW t \in Teams, Skip(t)
  PROVE  WavesKept
<1> DEFINE S == With(team[t], {"pending", "running"})
           r == [team[t] EXCEPT !.status = "completed", !.member = Marked(t, S)]
<1>1. /\ Meddle /\ t \in Created /\ Store(Only(t, r))
      /\ ds' = Cancelled(t, With(team[t], {"running"}))
      /\ skipped' = skipped \cup {t}
      /\ UNCHANGED <<launching, step, spawns, at, advancing, reopened>>
  BY DEF Skip
<1>2. /\ S \in SUBSET Members(team[t]) /\ S \in SUBSET Steps
      /\ With(team[t], {"running"}) \subseteq S
      /\ With(team[t], {"running"}) \in SUBSET Steps
  BY DEF With, Members
<1>3. /\ Marked(t, S) \in [Steps -> Ended \cup {"none", "pending", "running"}]
      /\ \A s \in Steps : Marked(t, S)[s] = IF s \in S THEN "cancelled" ELSE team[t].member[s]
  BY <1>2, MarkedIs
<1>4. /\ r \in TeamRecords /\ r.member = Marked(t, S) /\ r.launches = team[t].launches
      /\ r.status = "completed"
  <2>1. team[t] \in TeamRecords
    BY RecordOf DEF WavesInv
  <2>2. "completed" \in Open \cup Terminal \cup {"none"}
    BY DEF Terminal
  <2> HIDE DEF S
  <2> QED BY <1>3, <2>1, <2>2 DEF TeamRecords
<1> HIDE DEF r
<1>5. AllEnded(r)
  <2>1. ASSUME NEW s \in Steps PROVE r.member[s] \in Ended \cup {"none"}
    BY <1>3, <1>4, RecordOf DEF WavesInv, With, Ended
  <2> QED BY <2>1 DEF AllEnded, Members, With, Ended
<1>6. LandedHasEnded(r) /\ team[t].status # "none"
  BY <1>1, <1>5, CreatedIs DEF LandedHasEnded
<1>7. RestTyped /\ StepsKept /\ StepsTyped /\ t \in skipped'
  <2>1. skipped' \in SUBSET Teams /\ skipped \subseteq skipped' /\ t \in skipped'
    BY <1>1 DEF WavesInv, TypeOK
  <2> QED BY <1>1, <1>2, <2>1, Meddled, SameRest, CancelledIs DEF RestTyped
<1> QED BY <1>1, <1>2, <1>4, <1>6, <1>7, StoppedKeeps

LEMMA TerminateKeeps ==
  ASSUME WavesInv, NEW t \in Teams, NEW s \in Steps, Terminate(t, s)
  PROVE  WavesKept
<1> DEFINE rec == Reconciled(t)
           r == [rec EXCEPT !.member[s] = "cancelled"]
<1>1. /\ Meddle /\ team[t].launches > 0 /\ rec.member[s] \in {"running", "pending"}
      /\ ds' = Cancelled(t, {s}) /\ Store(Only(t, r))
      /\ UNCHANGED <<launching, step, spawns, at, advancing, skipped, reopened>>
  BY DEF Terminate, history
<1>2. /\ rec \in TeamRecords /\ rec.status = team[t].status
      /\ rec.launches = team[t].launches /\ rec.reported = team[t].reported
      /\ Members(rec) = Members(team[t])
      /\ team[t].status \notin Open => rec.member = team[t].member
  BY ReconciledIs DEF WavesInv, Reconciled
<1>3. team[t].status # "none"
  <2>1. team[t].launches # 0
    BY <1>1, LaunchesAre
  <2> QED BY <2>1 DEF WavesInv, TeamInv, UnusedIsNoTeam, NoTeam
<1> HIDE DEF rec
<1>4. /\ r \in TeamRecords /\ r.status = rec.status /\ r.launches = rec.launches
      /\ r.reported = rec.reported /\ r.member \in [Steps -> Ended \cup {"none", "pending", "running"}]
      /\ \A e \in Steps : r.member[e] = IF e = s THEN "cancelled" ELSE rec.member[e]
  BY <1>2 DEF TeamRecords, Ended
<1> HIDE DEF r
<1>5. Members(r) = Members(team[t])
  BY <1>1, <1>2, <1>4 DEF Members
<1>6. LandedHasEnded(r)
  <2>1. SUFFICES ASSUME team[t].status \in Terminal, ~team[t].reported PROVE FALSE
    BY <1>2, <1>4 DEF LandedHasEnded
  <2>2. AllEnded(team[t]) /\ team[t].status \notin Open
    BY <2>1 DEF WavesInv, TeamInv, LandedHasEnded, Open, Terminal
  <2>3. team[t].member[s] \in {"running", "pending"}
    BY <1>1, <1>2, <2>2
  <2> QED BY <2>2, <2>3 DEF AllEnded, Members, With, Ended
<1>7. team'[t] = r /\ disk'[t] = r
  BY <1>1, OneTeam
<1>8. OwnRuns(t)
  <2>1. SUFFICES ASSUME NEW d \in Delegates, TeamOf(d) = t, ds'[d] = "running",
                        d \notin astray', Current(d)'
                 PROVE  r.member[StepOf(d)] = "running" /\ r.status \notin Terminal
    BY <1>7 DEF OwnRuns
  <2>2. ds[d] = "running" /\ d \notin astray /\ Current(d) /\ StepOf(d) # s
    <3>1. Current(d) /\ d \notin astray
      BY <1>1, <1>2, <1>4, <1>7, <2>1 DEF Current, spawns
    <3>2. ds[d] = "running" /\ ~(TeamOf(d) = t /\ StepOf(d) \in {s} /\ Current(d))
      <4>1. {s} \in SUBSET Steps
        OBVIOUS
      <4> QED BY <1>1, <2>1, <4>1, CancelledIs
    <3> QED BY <2>1, <3>1, <3>2
  <2>3. Reconciled(t).member[StepOf(d)] = "running" /\ team[t].status \notin Terminal
    BY <2>1, <2>2, RunningMember
  <2>4. rec.member[StepOf(d)] = "running" /\ StepOf(d) \in Steps
    BY <2>3, DelegateIs DEF rec
  <2> QED BY <1>2, <1>4, <2>2, <2>3, <2>4
<1>9. Updated(t)
  BY <1>2, <1>3, <1>4, <1>5, <1>6, <1>7, <1>8, LaunchesAre DEF Updated
<1>10. TeamSteps
  BY <1>1, <1>9, OneTeam
<1>11. RestTyped /\ StepsKept /\ StepsTyped /\ RunsStep
  BY <1>1, Meddled, SameRest, CancelledIs DEF RestTyped
<1> QED BY <1>10, <1>11, StepKeeps

LEMMA AcceptPartialKeeps ==
  ASSUME WavesInv, NEW s \in Steps, AcceptPartial(s)
  PROVE  WavesKept
<1> DEFINE failed == {t \in Created : team[t].member[s] \in {"failed", "cancelled"}}
           accepted == [t \in Teams |-> IF t \in failed
                                        THEN [team[t] EXCEPT !.member[s] = "done"] ELSE team[t]]
<1>1. /\ Meddle /\ step' = [step EXCEPT ![s] = "done"]
      /\ team' = accepted
      /\ disk' = [t \in Teams |-> IF t \in failed THEN accepted[t] ELSE disk[t]]
      /\ UNCHANGED <<launching, run, advancing, skipped, reopened>>
  BY DEF AcceptPartial, history
<1>2. StepsKept /\ StepsTyped
  <2>1. step \in [Steps -> {"pending", "done"}] /\ reopened \in SUBSET Steps
    BY StepIs DEF WavesInv, TypeOK
  <2> QED BY <1>1, <2>1 DEF StepsKept, StepsTyped
<1>3. ASSUME NEW t \in failed PROVE Updated(t)
  <2>1. t \in Teams /\ t \in Created /\ team[t].member[s] \in {"failed", "cancelled"}
    BY DEF Created
  <2> DEFINE r == [team[t] EXCEPT !.member[s] = "done"]
  <2>2. team'[t] = r /\ disk'[t] = r
    BY <1>1, <2>1
  <2>3. /\ r \in TeamRecords /\ r.status = team[t].status /\ r.launches = team[t].launches
        /\ r.reported = team[t].reported
        /\ \A e \in Steps : r.member[e] = IF e = s THEN "done" ELSE team[t].member[e]
    BY <2>1, RecordOf DEF WavesInv, TeamRecords, Ended
  <2> HIDE DEF r, failed
  <2>4. Members(r) = Members(team[t])
    BY <2>1, <2>3 DEF Members
  <2>5. LandedHasEnded(r)
    <3>1. AllEnded(team[t]) => AllEnded(r)
      BY <2>3, <2>4, EveryoneEnded DEF Ended, Members
    <3> QED BY <2>1, <2>3, <3>1 DEF WavesInv, TeamInv, LandedHasEnded
  <2>6. OwnRuns(t)
    <3>1. SUFFICES ASSUME NEW d \in Delegates, TeamOf(d) = t, ds'[d] = "running",
                          d \notin astray', Current(d)'
                   PROVE  r.member[StepOf(d)] = "running" /\ r.status \notin Terminal
      BY <2>2 DEF OwnRuns
    <3>2. ds[d] = "running" /\ d \notin astray /\ Current(d)
      BY <1>1, <2>2, <2>3, <3>1, SameRuns DEF Current
    <3> QED BY <2>1, <2>3, <3>1, <3>2, RunningMember, DelegateIs
  <2> QED BY <2>1, <2>2, <2>3, <2>4, <2>5, <2>6, CreatedIs, LaunchesAre DEF Updated
<1>4. ASSUME NEW t \in Teams, t \notin failed PROVE LeftAlone(t)
  BY <1>1, <1>4 DEF LeftAlone
<1>5. team' = [t \in Teams |-> team'[t]] /\ disk' = [t \in Teams |-> disk'[t]]
  BY <1>1
<1>6. TeamSteps
  BY <1>3, <1>4, <1>5 DEF TeamSteps, TeamStep
<1>7. RestTyped /\ RunsStep
  BY <1>1, Meddled, SameRest, SameRuns DEF RestTyped
<1> QED BY <1>2, <1>6, <1>7, StepKeeps

LEMMA RewakeKeeps ==
  ASSUME WavesInv, NEW t \in Teams, NEW s \in Steps, Rewake(t, s)
  PROVE  WavesKept
<1> DEFINE d == <<t, s, team[t].launches>>
<1>1. /\ Meddle /\ team[t].launches > 0 /\ at[d] = "over" /\ ds[d] # "running"
      /\ ds' = [ds EXCEPT ![d] = "running"] /\ at' = [at EXCEPT ![d] = "working"]
      /\ astray' = astray \ {d}
      /\ UNCHANGED <<disk, launching, step, late, advancing, skipped, reopened>>
  BY DEF Rewake, history
<1>2. /\ d \in Delegates /\ TeamOf(d) = t /\ StepOf(d) = s
      /\ LaunchOf(d) = team[t].launches
  <2>1. team[t].launches \in 1..MaxLaunches
    BY <1>1, RecordOf, PlanTypes DEF WavesInv
  <2> QED BY <2>1, DelegateOf
<1>3. team[t].status # "none"
  <2>1. team[t].launches # 0
    BY <1>1, LaunchesAre
  <2> QED BY <2>1 DEF WavesInv, TeamInv, UnusedIsNoTeam, NoTeam
<1>4. s \in Members(team[t])
  BY <1>1, <1>2 DEF WavesInv, RunsAreOfMembers
<1>5. PICK r : /\ team' = [team EXCEPT ![t] = r] /\ r \in TeamRecords
               /\ \/ r.status = "active"
                  \/ r.status = team[t].status /\ team[t].status \notin Terminal
               /\ r.launches = team[t].launches
               /\ \A e \in Steps : r.member[e] = IF e = s THEN "running" ELSE team[t].member[e]
  <2> DEFINE r1 == [team[t] EXCEPT !.member[s] = "running", !.status = "active",
                                   !.reported = FALSE]
             r2 == [team[t] EXCEPT !.member[s] = "running"]
  <2>1. CASE /\ team[t].status \in Terminal
             /\ team' = [team EXCEPT ![t].member[s] = "running", ![t].status = "active",
                                     ![t].reported = FALSE]
    <3>1. team' = [team EXCEPT ![t] = r1]
      BY <2>1 DEF WavesInv, TypeOK
    <3>2. /\ r1 \in TeamRecords /\ r1.status = "active" /\ r1.launches = team[t].launches
          /\ \A e \in Steps : r1.member[e] = IF e = s THEN "running" ELSE team[t].member[e]
      BY RecordOf DEF WavesInv, TeamRecords, Open
    <3> QED BY <3>1, <3>2
  <2>2. CASE /\ team[t].status \notin Terminal
             /\ team' = [team EXCEPT ![t].member[s] = "running"]
    <3>1. team' = [team EXCEPT ![t] = r2]
      BY <2>2 DEF WavesInv, TypeOK
    <3>2. /\ r2 \in TeamRecords /\ r2.status = team[t].status /\ r2.launches = team[t].launches
          /\ \A e \in Steps : r2.member[e] = IF e = s THEN "running" ELSE team[t].member[e]
      BY RecordOf DEF WavesInv, TeamRecords
    <3> QED BY <2>2, <3>1, <3>2
  <2> QED BY <2>1, <2>2 DEF Rewake
<1>6. /\ team'[t] = r /\ disk'[t] = disk[t] /\ \A u \in Teams : u # t => LeftAlone(u)
      /\ team' = [u \in Teams |-> team'[u]] /\ disk' = [u \in Teams |-> disk'[u]]
  BY <1>1, <1>5 DEF LeftAlone, WavesInv, TypeOK
<1>7. Members(r) = Members(team[t])
  BY <1>4, <1>5 DEF Members
<1>8. r.status \notin Terminal /\ r.status # "none"
  BY <1>3, <1>5 DEF Terminal
<1>9. \A e \in Delegates : /\ ds'[e] = IF e = d THEN "running" ELSE ds[e]
                           /\ at'[e] = IF e = d THEN "working" ELSE at[e]
  BY <1>1, <1>2 DEF WavesInv, TypeOK
<1> HIDE DEF d
<1>10. OwnRuns(t)
  <2>1. SUFFICES ASSUME NEW e \in Delegates, TeamOf(e) = t, ds'[e] = "running",
                        e \notin astray', Current(e)'
                 PROVE  r.member[StepOf(e)] = "running"
    BY <1>6, <1>8 DEF OwnRuns
  <2>2. CASE e = d
    BY <1>2, <1>5, <2>2
  <2>3. CASE e # d
    BY <1>1, <1>5, <1>6, <1>9, <2>1, <2>3, RunningMember, DelegateIs DEF Current
  <2> QED BY <2>2, <2>3
<1>12. Updated(t)
  BY <1>3, <1>5, <1>6, <1>7, <1>8, <1>10, LaunchesAre
     DEF Updated, LandedHasEnded, StepsOf
<1>13. TeamSteps
  BY <1>6, <1>12 DEF TeamSteps, TeamStep
<1>14. RunsStep
  BY <1>1, <1>2, <1>9, <1>12 DEF RunsStep, WavesInv, RunsAreOfMembers
<1>15. RestTyped /\ StepsKept /\ StepsTyped
  <2>1. ds' \in [Delegates -> {"none", "running", "done", "partial", "error", "cancelled"}]
        /\ at' \in [Delegates -> {"none", "working", "ended", "told", "spawned", "over"}]
    BY <1>1 DEF WavesInv, TypeOK
  <2>2. SpawnsTyped
    BY <1>1 DEF WavesInv, TypeOK, SpawnsTyped
  <2> QED BY <1>1, <2>1, <2>2, Meddled, SameRest DEF RestTyped
<1> QED BY <1>13, <1>14, <1>15, StepKeeps

LEMMA RestartKeeps ==
  ASSUME WavesInv, Restart
  PROVE  WavesKept
<1>1. /\ Meddle /\ team' = disk /\ launchable' = {} /\ advancing' = {}
      /\ at' = [d \in Delegates |-> "none"]
      /\ UNCHANGED <<disk, zero, step, spawns, skipped, reopened>>
  BY DEF Restart, history
<1>2. /\ ds' \in [Delegates -> {"none", "running", "done", "partial", "error", "cancelled"}]
      /\ \A d \in Delegates : ds'[d] # "running"
  BY DEF Restart, WavesInv, TypeOK
<1>3. /\ team' = [t \in Teams |-> team'[t]] /\ disk' = [t \in Teams |-> disk'[t]]
      /\ \A t \in Teams : team'[t] = disk[t] /\ disk'[t] = disk[t]
  BY <1>1 DEF WavesInv, TypeOK
<1>4. numbered' \in BOOLEAN
  BY DEF Restart, WavesInv, TypeOK
<1>5. ASSUME NEW t \in Teams PROVE TeamStep(t)
  <2>1. /\ UnusedIsNoTeam(t) /\ DiskFollows(t) /\ LandedHasEnded(disk[t])
        /\ disk[t] \in TeamRecords /\ StepsDoneBy(t, disk[t])
    BY RecordOf DEF WavesInv, TeamInv
  <2>2. CASE team[t].status = "none"
    <3>1. LeftAlone(t)
      BY <1>3, <2>1, <2>2 DEF UnusedIsNoTeam, DiskFollows, LeftAlone
    <3> QED BY <3>1 DEF TeamStep
  <2>3. CASE team[t].status # "none"
    <3>1. StepsOf(t)'
      BY <1>1, <1>3, <2>1 DEF StepsOf, StepsDoneBy
    <3>2. Updated(t)
      BY <1>2, <1>3, <2>1, <2>3, <3>1, LaunchesAre
         DEF Updated, DiskFollows, LandedHasEnded, OwnRuns
    <3> QED BY <3>2 DEF TeamStep
  <2> QED BY <2>2, <2>3
<1>6. TeamSteps
  BY <1>3, <1>5 DEF TeamSteps
<1>7. RunsStep
  BY <1>1, <1>2 DEF RunsStep
<1>8. RestTyped /\ StepsKept /\ StepsTyped
  <2>1. LaunchingTyped
    BY <1>1, <1>4 DEF WavesInv, TypeOK, LaunchingTyped
  <2>3. at' \in [Delegates -> {"none", "working", "ended", "told", "spawned", "over"}]
    BY <1>1
  <2> QED BY <1>1, <1>2, <2>1, <2>3, Meddled, SameRest DEF RestTyped
<1> QED BY <1>6, <1>7, <1>8, StepKeeps

-----------------------------------------------------------------------------
(* Runs and completions                                                    *)

(* Who has a run was launched as a member of a team that was created. *)
LEMMA RunIs ==
  ASSUME WavesInv, NEW d \in Delegates, at[d] # "none"
  PROVE  /\ TeamOf(d) \in Teams /\ StepOf(d) \in Members(team[TeamOf(d)])
         /\ StepOf(d) \in Steps
         /\ team[TeamOf(d)].status # "none"
         /\ team[TeamOf(d)].launches \in 1..MaxLaunches
<1>1. TeamOf(d) \in Teams /\ StepOf(d) \in Steps /\ LaunchOf(d) \in 1..MaxLaunches
  BY DelegateIs
<1>2. /\ StepOf(d) \in Members(team[TeamOf(d)])
      /\ LaunchOf(d) <= team[TeamOf(d)].launches
  BY DEF WavesInv, RunsAreOfMembers
<1>3. team[TeamOf(d)].launches \in 0..MaxLaunches
  BY <1>1, RecordOf DEF WavesInv
<1>4. team[TeamOf(d)].launches \in 1..MaxLaunches
  BY <1>1, <1>2, <1>3, PlanTypes
<1>5. team[TeamOf(d)].status # "none"
  BY <1>1, <1>2 DEF WavesInv, TeamInv, UnusedIsNoTeam, NoTeam, Members
<1> QED BY <1>1, <1>2, <1>4, <1>5

LEMMA RunEndsKeeps ==
  ASSUME WavesInv, NEW d \in Delegates, RunEnds(d)
  PROVE  WavesKept
<1>1. PICK o \in Exits \cup {"cancelled"} : ds' = [ds EXCEPT ![d] = o]
  BY DEF RunEnds
<1>2. /\ at[d] = "working" /\ at' = [at EXCEPT ![d] = "ended"]
      /\ UNCHANGED <<team, disk, launching, step, spawns, advancing, meddling, skipped, reopened>>
  BY DEF RunEnds, history
<1>3. o \in {"done", "partial", "error", "cancelled"}
  BY <1>1, WavesAssumption
<1>4. \A e \in Delegates : /\ ds'[e] = IF e = d THEN o ELSE ds[e]
                           /\ at'[e] = IF e = d THEN "ended" ELSE at[e]
  BY <1>1, <1>2 DEF WavesInv, TypeOK
<1>5. RunsStep
  BY <1>2, <1>3, <1>4 DEF RunsStep, WavesInv, RunsAreOfMembers, spawns
<1>6. /\ ds' \in [Delegates -> {"none", "running", "done", "partial", "error", "cancelled"}]
      /\ at' \in [Delegates -> {"none", "working", "ended", "told", "spawned", "over"}]
      /\ SpawnsTyped
  BY <1>1, <1>2, <1>3, SameRest DEF WavesInv, TypeOK
<1> QED BY <1>2, <1>5, <1>6, NoTeamSteps, SameRest, StepKeeps DEF RestTyped

(* A completion goes on to its next await. *)
LEMMA CompletionRuns ==
  ASSUME WavesInv, NEW d \in Delegates, at[d] \notin {"none", "working"},
         NEW p \in {"told", "over"}, at' = [at EXCEPT ![d] = p], UNCHANGED <<ds, spawns>>
  PROVE  /\ RunsStep /\ SpawnsTyped
         /\ ds' \in [Delegates -> {"none", "running", "done", "partial", "error", "cancelled"}]
         /\ at' \in [Delegates -> {"none", "working", "ended", "told", "spawned", "over"}]
<1>1. \A e \in Delegates : at'[e] = IF e = d THEN p ELSE at[e]
  BY DEF WavesInv, TypeOK
<1>2. RunsStep
  BY <1>1 DEF RunsStep, WavesInv, RunsAreOfMembers, spawns
<1> QED BY <1>2, SameRest DEF WavesInv, TypeOK

LEMMA TellKeeps ==
  ASSUME WavesInv, NEW d \in Delegates, Tell(d)
  PROVE  WavesKept
<1> DEFINE t == TeamOf(d)
           s == StepOf(d)
           ok == ds[d] = "done"
           r == [team[t] EXCEPT !.member[s] = IF ok THEN "done" ELSE "failed"]
<1>1. /\ at[d] = "ended" /\ UNCHANGED <<launching, ds, spawns, advancing, meddling>>
      /\ UNCHANGED <<skipped, reopened>>
  BY DEF Tell, history
<1>2. /\ t \in Teams /\ s \in Members(team[t]) /\ s \in Steps /\ team[t].status # "none"
      /\ team[t].launches \in 1..MaxLaunches
  BY <1>1, RunIs
<1>3. CASE /\ team[t].status = "active" /\ Current(d) /\ Store(Only(t, r))
           /\ step' = IF step[s] = "done" THEN step
                      ELSE [step EXCEPT ![s] = IF ok THEN "done" ELSE "pending"]
           /\ at' = [at EXCEPT ![d] = "told"]
  <2>1. /\ r \in TeamRecords /\ r.status = "active" /\ r.launches = team[t].launches
        /\ \A e \in Steps : e # s => r.member[e] = team[t].member[e]
        /\ r.member[s] # "none"
    BY <1>2, <1>3, RecordOf DEF WavesInv, TeamRecords, Ended
  <2>2. team'[t] = r /\ disk'[t] = r
    BY <1>2, <1>3, OneTeam
  <2> HIDE DEF r
  <2>3. Members(r) = Members(team[t])
    BY <1>2, <2>1 DEF Members
  <2>4. ASSUME NEW e \in Delegates, TeamOf(e) = t, ds'[e] = "running", e \notin astray',
               Current(e)'
        PROVE  r.member[StepOf(e)] = "running"
    <3>1. ds[e] = "running" /\ e \notin astray /\ Current(e)
      BY <1>1, <2>1, <2>2, <2>4 DEF Current, spawns
    <3>2. e # d
      BY <1>1, <3>1 DEF WavesInv, RunsAreOfMembers
    <3>3. StepOf(e) # s
      BY <1>3, <2>4, <3>1, <3>2, DelegateIs DEF Current
    <3> QED BY <2>1, <2>4, <3>1, <3>3, DelegateIs, RunningMember
  <2>5. OwnRuns(t)
    BY <2>1, <2>2, <2>4 DEF OwnRuns, Terminal
  <2>6. Updated(t)
    BY <1>2, <1>3, <2>1, <2>2, <2>3, <2>5, LaunchesAre
       DEF Updated, LandedHasEnded, StepsOf, Terminal
  <2>7. TeamSteps
    BY <1>2, <1>3, <2>6, OneTeam DEF r
  <2>8. StepsKept /\ StepsTyped
    <3>1. step \in [Steps -> {"pending", "done"}] /\ reopened \in SUBSET Steps
      BY StepIs DEF WavesInv, TypeOK
    <3> QED BY <1>1, <1>2, <1>3, <3>1 DEF StepsKept, StepsTyped
  <2> QED BY <1>1, <1>3, <2>7, <2>8, CompletionRuns, SameRest, StepKeeps DEF RestTyped
<1>4. CASE at' = [at EXCEPT ![d] = "over"] /\ UNCHANGED <<team, disk, step>>
  BY <1>1, <1>4, CompletionRuns, NoTeamSteps, SameRest, StepKeeps DEF RestTyped
<1> QED BY <1>3, <1>4 DEF Tell

LEMMA FinishKeeps ==
  ASSUME WavesInv, NEW d \in Delegates, at[d] \in {"told", "spawned"}, Finish(d)
  PROVE  WavesKept
<1> DEFINE t == TeamOf(d)
           r == [team[t] EXCEPT !.status = Outcome(team[t])]
<1>1. /\ at' = [at EXCEPT ![d] = "over"]
      /\ UNCHANGED <<launching, ds, spawns, advancing, meddling, skipped>>
  BY DEF Finish
<1>2. t \in Teams /\ team[t].status # "none" /\ team[t] \in TeamRecords
  BY RunIs, RecordOf DEF WavesInv
<1>3. CASE AllEnded(team[t]) /\ Store(Only(t, r)) /\ SetSteps(Synced(r))
  <2>1. Outcome(team[t]) \in Terminal /\ (Outcome(team[t]) = "completed" =>
                                    \A s \in Members(team[t]) : team[t].member[s] = "done")
    BY <1>2, OutcomeIs
  <2>2. /\ r \in TeamRecords /\ r.member = team[t].member /\ r.launches = team[t].launches
        /\ r.status = Outcome(team[t])
    BY <1>2, <2>1 DEF TeamRecords
  <2> HIDE DEF r
  <2>3. Members(r) = Members(team[t]) /\ AllEnded(r)
    BY <1>3, <2>2 DEF Members, AllEnded, With
  <2>4. /\ Synced(r) \in [Steps -> {"pending", "done"}]
        /\ \A s \in Steps : r.member[s] = "done" => Synced(r)[s] = "done"
    BY <2>2, <2>3, SyncedIs DEF WavesInv
  <2>5. StepsKept /\ StepsTyped /\ step' = Synced(r)
    BY <1>3, <2>4, SetStepsKeeps DEF WavesInv
  <2>6. team'[t] = r /\ disk'[t] = r
    BY <1>2, <1>3, OneTeam
  <2>7. OwnRuns(t)
    BY <1>1, <1>3, <2>2, <2>6, RunningMember DEF OwnRuns, Current, spawns
  <2>8. StepsOf(t)'
    BY <2>1, <2>2, <2>3, <2>4, <2>5, <2>6 DEF StepsOf, Members
  <2>9. r.status # "none"
    BY <2>1, <2>2 DEF Terminal
  <2>10. Updated(t)
    BY <1>2, <2>2, <2>3, <2>6, <2>7, <2>8, <2>9, LaunchesAre DEF Updated, LandedHasEnded
  <2>11. TeamSteps
    BY <1>2, <1>3, <2>10, OneTeam
  <2> QED BY <1>1, <2>5, <2>11, CompletionRuns, SameRest, StepKeeps DEF RestTyped
<1>4. CASE UNCHANGED <<team, disk, step, reopened>>
  BY <1>1, <1>4, CompletionRuns, NoTeamSteps, SameRest, StepKeeps DEF RestTyped
<1> QED BY <1>3, <1>4 DEF Finish, Lands

LEMMA SpawnNextKeeps ==
  ASSUME WavesInv, NEW d \in Delegates, SpawnNext(d)
  PROVE  WavesKept
<1> DEFINE t == TeamOf(d)
           waiting == With(team[t], {"pending"})
<1>1. at[d] = "told"
  BY DEF SpawnNext
<1>2. CASE Finish(d)
  BY <1>1, <1>2, FinishKeeps
<1>3. ASSUME NEW s \in waiting, ~Finish(d),
             Store(Only(t, [team[t] EXCEPT !.member[s] = "running"])),
             ds' = [ds EXCEPT ![<<t, s, team[t].launches>>] = "running"],
             late' = late \cup {<<t, s, team[t].launches>>},
             astray' = IF team[t].status \in Terminal
                       THEN astray \cup {<<t, s, team[t].launches>>} ELSE astray,
             at' = [at EXCEPT ![d] = "spawned", ![<<t, s, team[t].launches>>] = "working"],
             UNCHANGED <<launching, step, advancing, meddling, history>>
      PROVE  WavesKept
  <2> DEFINE next == <<t, s, team[t].launches>>
             r == [team[t] EXCEPT !.member[s] = "running"]
  <2>1. /\ t \in Teams /\ team[t].status # "none" /\ team[t].launches \in 1..MaxLaunches
        /\ s \in Steps /\ team[t].member[s] = "pending"
    BY <1>1, RunIs DEF With
  <2>2. /\ next \in Delegates /\ TeamOf(next) = t /\ StepOf(next) = s
        /\ LaunchOf(next) = team[t].launches
    BY <2>1, DelegateOf
  <2>3. /\ r \in TeamRecords /\ r.status = team[t].status /\ r.launches = team[t].launches
        /\ r.reported = team[t].reported
        /\ \A e \in Steps : r.member[e] = IF e = s THEN "running" ELSE team[t].member[e]
    BY <2>1, RecordOf DEF WavesInv, TeamRecords
  <2>4. team'[t] = r /\ disk'[t] = r
    BY <1>3, <2>1, OneTeam
  <2>5. /\ \A e \in Delegates : /\ ds'[e] = IF e = next THEN "running" ELSE ds[e]
                                /\ at'[e] = IF e = next THEN "working"
                                            ELSE IF e = d THEN "spawned" ELSE at[e]
                                /\ e \in astray' <=>
                                     e \in astray \/ (e = next /\ team[t].status \in Terminal)
    BY <1>3, <2>2 DEF WavesInv, TypeOK
  <2>6. /\ ds' \in [Delegates -> {"none", "running", "done", "partial", "error", "cancelled"}]
        /\ at' \in [Delegates -> {"none", "working", "ended", "told", "spawned", "over"}]
        /\ SpawnsTyped
    BY <1>3, <2>2 DEF WavesInv, TypeOK, SpawnsTyped
  <2> HIDE DEF r, next, waiting
  <2>7. Members(r) = Members(team[t])
    BY <2>1, <2>3 DEF Members
  <2>8. LandedHasEnded(r)
    BY <2>1, <2>3, EveryoneEnded DEF WavesInv, TeamInv, LandedHasEnded, Members, Ended
  <2>9. OwnRuns(t)
    <3>1. SUFFICES ASSUME NEW e \in Delegates, TeamOf(e) = t, ds'[e] = "running",
                          e \notin astray', Current(e)'
                   PROVE  r.member[StepOf(e)] = "running" /\ r.status \notin Terminal
      BY <2>4 DEF OwnRuns
    <3>2. e \notin astray /\ Current(e)
      BY <2>3, <2>4, <2>5, <3>1 DEF Current
    <3>3. CASE e = next
      BY <2>1, <2>2, <2>3, <2>5, <3>1, <3>3
    <3>4. CASE e # next
      <4>1. ds[e] = "running"
        BY <2>5, <3>1, <3>4
      <4> QED BY <2>3, <3>1, <3>2, <4>1, RunningMember, DelegateIs
    <3> QED BY <3>3, <3>4
  <2>10. Updated(t)
    BY <2>1, <2>3, <2>4, <2>7, <2>8, <2>9, LaunchesAre DEF Updated
  <2>11. TeamSteps
    BY <1>3, <2>1, <2>10, OneTeam DEF r
  <2>12. RunsStep
    <3>1. s \in Members(team'[t]) /\ LaunchOf(next) <= team'[t].launches
      BY <2>1, <2>2, <2>3, <2>4, PlanTypes DEF Members
    <3>2. ASSUME NEW e \in Delegates, ds[e] = "running" PROVE at[e] = "working" /\ e # d
      BY <1>1, <3>2 DEF WavesInv, RunsAreOfMembers
    <3> QED BY <1>1, <2>2, <2>5, <2>10, <3>1, <3>2 DEF RunsStep
  <2> QED BY <1>3, <2>6, <2>11, <2>12, SameRest, StepKeeps DEF RestTyped, history
<1> QED BY <1>2, <1>3 DEF SpawnNext

LEMMA LaunchKeeps ==
  ASSUME WavesInv, NEW t \in Teams, Launch(t)
  PROVE  WavesKept
<1> DEFINE g == team[t].launches + 1
           M == Members(team[t])
           m(S) == [s \in Steps |-> CASE s \in S -> "running"
                                      [] s \in M \ S -> "pending"
                                      [] OTHER -> "none"]
           r(S) == [team[t] EXCEPT !.status = "active", !.launches = g, !.member = m(S)]
<1>1. PICK S \in SUBSET M, first \in M :
        /\ zero' = IF numbered THEN zero ELSE zero \cup {<<t, first, g>>}
        /\ Store(Only(t, r(S)))
        /\ ds' = [d \in Delegates |-> IF d \in {t} \X S \X {g} THEN "running" ELSE ds[d]]
        /\ at' = [d \in Delegates |-> IF d \in {t} \X S \X {g} THEN "working" ELSE at[d]]
  BY DEF Launch
<1>2. /\ team[t].status # "none" /\ g <= MaxLaunches /\ launchable' = launchable \cup {t}
      /\ numbered' = TRUE
      /\ UNCHANGED <<spawns, step, advancing, meddling, skipped, reopened>>
  BY DEF Launch, MayLaunch, history
<1>3. g \in 1..MaxLaunches /\ team[t].launches <= g /\ team[t].launches \in Nat
  BY <1>2, LaunchesAre, PlanTypes
<1>4. /\ m(S) \in [Steps -> Ended \cup {"none", "pending", "running"}]
      /\ \A s \in Steps : m(S)[s] = IF s \in S THEN "running"
                                    ELSE IF s \in M THEN "pending" ELSE "none"
  <2>1. ASSUME NEW s \in Steps
        PROVE  (CASE s \in S -> "running" [] s \in M \ S -> "pending" [] OTHER -> "none")
               = IF s \in S THEN "running" ELSE IF s \in M THEN "pending" ELSE "none"
    OBVIOUS
  <2>2. m(S) = [s \in Steps |-> IF s \in S THEN "running"
                                ELSE IF s \in M THEN "pending" ELSE "none"]
    BY <2>1
  <2> HIDE DEF m
  <2> QED BY <2>2
<1> HIDE DEF m
<1>5. /\ r(S) \in TeamRecords /\ r(S).status = "active" /\ r(S).launches = g
      /\ r(S).member = m(S)
  <2>1. \A mem \in [Steps -> Ended \cup {"none", "pending", "running"}] :
          LET new == [team[t] EXCEPT !.status = "active", !.launches = g, !.member = mem]
          IN  /\ new \in TeamRecords /\ new.status = "active" /\ new.launches = g
              /\ new.member = mem
    <3>1. g \in 0..MaxLaunches
      BY <1>3
    <3> HIDE DEF g
    <3> QED BY <3>1, RecordOf DEF WavesInv, TeamRecords, Open
  <2> QED BY <1>4, <2>1
<1>6. team'[t] = r(S) /\ disk'[t] = r(S)
  BY <1>1, OneTeam
<1> HIDE DEF r, g
<1>7. Members(r(S)) = M
  BY <1>4, <1>5 DEF Members
<1>8. ASSUME NEW d \in Delegates
      PROVE  /\ ds'[d] = IF d \in {t} \X S \X {g} THEN "running" ELSE ds[d]
             /\ at'[d] = IF d \in {t} \X S \X {g} THEN "working" ELSE at[d]
             /\ d \in {t} \X S \X {g} <=> TeamOf(d) = t /\ StepOf(d) \in S /\ LaunchOf(d) = g
             /\ TeamOf(d) = t /\ LaunchOf(d) = g => ds[d] # "running"
  <2>1. d \in {t} \X S \X {g} <=> TeamOf(d) = t /\ StepOf(d) \in S /\ LaunchOf(d) = g
    BY DelegateIs DEF TeamOf, StepOf, LaunchOf
  <2>2. ASSUME TeamOf(d) = t, LaunchOf(d) = g PROVE ds[d] # "running"
    <3>1. ~(LaunchOf(d) <= team[t].launches)
      BY <1>3, <2>2 DEF g
    <3> QED BY <2>2, <3>1 DEF WavesInv, RunsAreOfMembers
  <2> QED BY <1>1, <2>1, <2>2
<1>9. OwnRuns(t)
  <2>1. SUFFICES ASSUME NEW d \in Delegates, TeamOf(d) = t, ds'[d] = "running", Current(d)'
                 PROVE  r(S).member[StepOf(d)] = "running" /\ r(S).status \notin Terminal
    BY <1>6 DEF OwnRuns
  <2>2. LaunchOf(d) = g
    BY <1>5, <1>6, <2>1 DEF Current
  <2>3. StepOf(d) \in S
    BY <1>8, <2>1, <2>2
  <2> QED BY <1>4, <1>5, <2>3, DelegateIs DEF Terminal
<1>10. Updated(t)
  BY <1>2, <1>3, <1>5, <1>6, <1>7, <1>9 DEF Updated, LandedHasEnded, StepsOf, Terminal
<1>11. TeamSteps
  BY <1>1, <1>10, OneTeam
<1>12. RunsStep
  <2>1. SUFFICES ASSUME NEW d \in Delegates
                 PROVE  /\ at'[d] # "none" => \/ at[d] # "none"
                                              \/ /\ StepOf(d) \in Members(team'[TeamOf(d)])
                                                 /\ LaunchOf(d) <= team'[TeamOf(d)].launches
                        /\ ds'[d] = "running" => at'[d] = "working"
                        /\ ds'[d] = "running" /\ d \notin astray' =>
                             (ds[d] = "running" /\ d \notin astray) \/ Updated(TeamOf(d))
    BY DEF RunsStep
  <2>2. CASE d \in {t} \X S \X {g}
    <3>1. TeamOf(d) = t /\ StepOf(d) \in S /\ LaunchOf(d) = g
      BY <1>8, <2>2
    <3>2. g <= g
      BY <1>3
    <3> QED BY <1>5, <1>6, <1>7, <1>8, <1>10, <2>2, <3>1, <3>2
  <2>3. CASE d \notin {t} \X S \X {g}
    BY <1>2, <1>8, <2>3 DEF WavesInv, RunsAreOfMembers, spawns
  <2> QED BY <2>2, <2>3
<1>13. /\ ds' \in [Delegates -> {"none", "running", "done", "partial", "error", "cancelled"}]
       /\ at' \in [Delegates -> {"none", "working", "ended", "told", "spawned", "over"}]
       /\ SpawnsTyped
  BY <1>1, <1>2, SameRest DEF WavesInv, TypeOK
<1>14. LaunchingTyped
  <2>1. <<t, first, g>> \in Delegates
    BY <1>3, DelegateOf DEF Members
  <2> QED BY <1>1, <1>2, <2>1 DEF WavesInv, TypeOK, LaunchingTyped
<1> QED BY <1>2, <1>11, <1>12, <1>13, <1>14, SameRest, StepKeeps DEF RestTyped

-----------------------------------------------------------------------------
(* The invariant                                                           *)

LEMMA InitInv == Init => WavesInv
<1> SUFFICES ASSUME Init PROVE WavesInv
  OBVIOUS
<1>1. NoTeam \in TeamRecords /\ NoTeam.status = "none" /\ NoTeam.launches = 0
      /\ Members(NoTeam) = {}
  <2> DEFINE none == [s \in Steps |-> "none"]
  <2>1. /\ NoTeam = [status |-> "none", wave |-> 0, member |-> none,
                     launches |-> 0, reported |-> FALSE]
        /\ none \in [Steps -> Ended \cup {"none", "pending", "running"}]
        /\ {s \in Steps : none[s] # "none"} = {}
    BY DEF NoTeam
  <2>2. 0 \in 0..MaxLaunches
    BY PlanTypes
  <2> HIDE DEF none
  <2> QED BY <2>1, <2>2 DEF TeamRecords, Members
<1>2. \A t \in Teams : team[t] = NoTeam /\ disk[t] = NoTeam
  BY DEF Init
<1>3. TypeOK
  <2>1. team \in [Teams -> TeamRecords] /\ disk \in [Teams -> TeamRecords]
    BY <1>1 DEF Init
  <2>2. 0 \in 0..MaxMeddling
    BY PlanTypes
  <2> QED BY <2>1, <2>2 DEF Init, TypeOK
<1>4. \A t \in Teams : TeamInv(t) /\ NeedsAreMet(t)
  BY <1>1, <1>2
     DEF TeamInv, UnusedIsNoTeam, DiskFollows, LandedHasEnded, StepsDoneBy, NeedsAreMet, Terminal
<1>5. NoStepIsSkipped /\ \A d \in Delegates : RunsAreOfMembers(d)
  BY DEF Init, NoStepIsSkipped, RunsAreOfMembers
<1>6. CompletedMeansStepsDone
  BY <1>1, <1>2 DEF CompletedMeansStepsDone
<1> QED BY <1>3, <1>4, <1>5, <1>6 DEF WavesInv

LEMMA NextKeeps == WavesInv /\ Next => WavesKept
<1> SUFFICES ASSUME WavesInv, Next PROVE WavesKept
  OBVIOUS
<1>1. ASSUME NEW s \in Steps, Create(WaveOf[s]) PROVE WavesKept
  <2>1. WaveOf[s] \in Nat
    BY PlanTypes
  <2> QED BY <1>1, <2>1, CreateKeeps
<1>2. ASSUME NEW s \in Steps, AcceptPartial(s) PROVE WavesKept
  BY <1>2, AcceptPartialKeeps
<1>3. ASSUME NEW t \in Teams, Launch(t) PROVE WavesKept
  BY <1>3, LaunchKeeps
<1>4. ASSUME NEW t \in Teams,
             Reconcile(t) \/ Advance(t) \/ AdvanceCreates(t) \/ Close(t)
      PROVE  WavesKept
  BY <1>4, ReconcileKeeps, AdvanceKeeps, AdvanceCreatesKeeps, CloseKeeps
<1>5. ASSUME NEW t \in Teams, Pause(t) \/ Resume(t) \/ Disband(t) \/ Skip(t)
      PROVE  WavesKept
  BY <1>5, PauseKeeps, ResumeKeeps, DisbandKeeps, SkipKeeps
<1>6. ASSUME NEW t \in Teams, NEW s \in Steps, Terminate(t, s) \/ Rewake(t, s)
      PROVE  WavesKept
  BY <1>6, TerminateKeeps, RewakeKeeps
<1>7. ASSUME NEW d \in Delegates, RunEnds(d) \/ Tell(d) \/ SpawnNext(d)
      PROVE  WavesKept
  BY <1>7, RunEndsKeeps, TellKeeps, SpawnNextKeeps
<1>8. ASSUME NEW d \in Delegates, FinishAfterSpawn(d) PROVE WavesKept
  <2>1. at[d] \in {"told", "spawned"} /\ Finish(d)
    BY <1>8 DEF FinishAfterSpawn
  <2> QED BY <2>1, FinishKeeps
<1>9. CASE Restart
  BY <1>9, RestartKeeps
<1> QED BY <1>1, <1>2, <1>3, <1>4, <1>5, <1>6, <1>7, <1>8, <1>9 DEF Next

LEMMA StutterKeeps == WavesInv /\ UNCHANGED vars => WavesKept
<1> SUFFICES ASSUME WavesInv, UNCHANGED vars PROVE WavesKept
  OBVIOUS
<1>1. UNCHANGED run /\ UNCHANGED <<team, disk, launching, step, advancing, meddling, skipped,
                                   reopened>>
  BY DEF vars, history
<1> QED BY <1>1, NoTeamSteps, SameRest, SameRuns, StepKeeps DEF RestTyped

(* The invariant holds in every state, however the operations, the runs    *)
(* and the restarts interleave.                                            *)
THEOREM WavesInvariant == Spec => []WavesInv
<1>1. Init => WavesInv
  BY InitInv
<1>2. WavesInv /\ [Next]_vars => WavesInv'
  BY NextKeeps, StutterKeeps DEF WavesKept
<1> QED BY <1>1, <1>2, PTL DEF Spec

(* Every variable keeps its type. *)
THEOREM WavesTypes == Spec => []TypeOK
<1>1. WavesInv => TypeOK
  BY DEF WavesInv
<1> QED BY <1>1, WavesInvariant, PTL

(* A completed wave that nobody skipped leaves its steps done, whatever    *)
(* the plan, also after rewakes, terminations, overlapping completions and *)
(* restarts; unless a step of it, once done, was opened again.             *)
THEOREM CompletedAlwaysMeansStepsDone == Spec => []CompletedMeansStepsDone
<1>1. WavesInv => CompletedMeansStepsDone
  BY DEF WavesInv
<1> QED BY <1>1, WavesInvariant, PTL

(* No sub-agent of the current launch works for a team that is over, but   *)
(* one that a completion spawned for it when it was over already.          *)
THEOREM ClosedTeamsNeverHaveRuns == Spec => []ClosedTeamsHaveNoRuns
<1>1. WavesInv => ClosedTeamsHaveNoRuns
  BY DEF WavesInv, RunsAreOfMembers, ClosedTeamsHaveNoRuns
<1> QED BY <1>1, WavesInvariant, PTL

(* No delegate starts on a step while a step that it depends on is open,   *)
(* at any launch, rewake or spawn of a waiting member; unless that step    *)
(* was done once and was opened again.                                     *)
THEOREM DelegatesStartAfterTheirNeeds == Spec => StartsAfterItsNeeds
<1>1. WavesInv /\ [Next]_vars =>
        [\A d \in Delegates : Starts(d) =>
           \A n \in Needs[StepOf(d)] : step[n] # "pending" \/ n \in reopened]_vars
  BY NextKeeps, StutterKeeps DEF WavesKept, NeedsOfStarts
<1> QED BY <1>1, WavesInvariant, PTL DEF Spec, StartsAfterItsNeeds

-----------------------------------------------------------------------------
(* Reported waves are final                                                *)

(* What happens to a reported wave. *)
StaysOrIsTouched(t) ==
  team[t].reported /\ team[t].status \in Terminal =>
    \/ team'[t].status = team[t].status
    \/ meddling' # meddling
    \/ \E d \in Delegates : TeamOf(d) = t /\ at[d] \in {"told", "spawned"}

LEMMA StoredIsFinal ==
  ASSUME WavesInv, NEW u \in Teams, NEW r, Store(Only(u, r)),
         team[u].status \notin Terminal \/ r.status = team[u].status
  PROVE  \A t \in Teams : StaysOrIsTouched(t)
<1>1. \A t \in Teams : team'[t] = IF t = u THEN r ELSE team[t]
  BY StoreOnly DEF WavesInv
<1> QED BY <1>1 DEF StaysOrIsTouched

LEMMA MeddledIsFinal ==
  ASSUME WavesInv, Meddle
  PROVE  \A t \in Teams : StaysOrIsTouched(t)
BY Meddled DEF StaysOrIsTouched

LEMMA FinishIsFinal ==
  ASSUME WavesInv, NEW d \in Delegates, at[d] \in {"told", "spawned"}, Finish(d)
  PROVE  \A t \in Teams : StaysOrIsTouched(t)
<1> DEFINE u == TeamOf(d)
           r == [team[u] EXCEPT !.status = Outcome(team[u])]
<1>1. u \in Teams
  BY DelegateIs
<1>2. StaysOrIsTouched(u)
  BY DEF StaysOrIsTouched
<1>3. CASE Store(Only(u, r))
  <2> HIDE DEF r
  <2>1. \A t \in Teams : team'[t] = IF t = u THEN r ELSE team[t]
    BY <1>1, <1>3, StoreOnly DEF WavesInv
  <2> QED BY <1>2, <2>1 DEF StaysOrIsTouched
<1>4. CASE UNCHANGED team
  BY <1>4 DEF StaysOrIsTouched
<1> QED BY <1>3, <1>4 DEF Finish

LEMMA NextWaveIsUnused ==
  ASSUME WavesInv, NEW t \in Teams, NEW st
  PROVE  DOMAIN NextWave(t, st) \subseteq Unused
<1>1. CASE NextWave(t, st) = NoWave
  BY <1>1 DEF NoWave
<1>2. CASE NextWave(t, st) # NoWave
  <2>1. PICK w \in Nat : NextWave(t, st) = Only(Min(Unused), NewTeam(w, st))
    BY <1>2, NextWaveIs
  <2>2. Unused # {}
    BY <1>2, NextWaveIs
  <2>3. DOMAIN NextWave(t, st) = {Min(Unused)}
    BY <2>1 DEF Only
  <2> QED BY <2>2, <2>3, UnusedMin
<1> QED BY <1>1, <1>2

LEMMA NextIsFinal ==
  ASSUME WavesInv, Next
  PROVE  \A t \in Teams : StaysOrIsTouched(t)
<1>1. ASSUME NEW s \in Steps, Create(WaveOf[s])
      PROVE  \A t \in Teams : StaysOrIsTouched(t)
  <2> DEFINE u == Min(Unused)
  <2>1. u \in Unused
    BY <1>1, UnusedMin DEF Create
  <2>2. u \in Teams /\ team[u].status \notin Terminal
    BY <2>1 DEF Unused, Created, Terminal
  <2>3. Store(Only(u, NewTeam(WaveOf[s], step)))
    BY <1>1 DEF Create
  <2> HIDE DEF u
  <2> QED BY <2>2, <2>3, StoredIsFinal
<1>2. ASSUME NEW s \in Steps, AcceptPartial(s)
      PROVE  \A t \in Teams : StaysOrIsTouched(t)
  <2>1. Meddle
    BY <1>2 DEF AcceptPartial
  <2> QED BY <2>1, MeddledIsFinal
<1>3. ASSUME NEW u \in Teams, Pause(u) \/ Disband(u) \/ Skip(u)
      PROVE  \A t \in Teams : StaysOrIsTouched(t)
  <2>1. Meddle
    BY <1>3 DEF Pause, Disband, Skip
  <2> QED BY <2>1, MeddledIsFinal
<1>4. ASSUME NEW u \in Teams, NEW s \in Steps, Terminate(u, s) \/ Rewake(u, s)
      PROVE  \A t \in Teams : StaysOrIsTouched(t)
  <2>1. Meddle
    BY <1>4 DEF Terminate, Rewake
  <2> QED BY <2>1, MeddledIsFinal
<1>5. ASSUME Restart PROVE \A t \in Teams : StaysOrIsTouched(t)
  <2>1. Meddle
    BY <1>5 DEF Restart
  <2> QED BY <2>1, MeddledIsFinal
<1>6. ASSUME NEW u \in Teams, Launch(u) \/ Advance(u) \/ Resume(u)
      PROVE  \A t \in Teams : StaysOrIsTouched(t)
  <2>1. \E r : Store(Only(u, r))
    BY <1>6 DEF Launch, Advance, Resume
  <2>2. team[u].status \notin Terminal
    BY <1>6 DEF Launch, MayLaunch, Advance, Advanceable, Resume, Open, Terminal
  <2> QED BY <2>1, <2>2, StoredIsFinal
<1>7. ASSUME NEW u \in Teams, Reconcile(u)
      PROVE  \A t \in Teams : StaysOrIsTouched(t)
  <2>1. Store(Only(u, Reconciled(u))) /\ Reconciled(u).status = team[u].status
    BY <1>7, ReconciledIs DEF Reconcile, WavesInv
  <2> QED BY <2>1, StoredIsFinal
<1>8. ASSUME NEW u \in Teams, AdvanceCreates(u)
      PROVE  \A t \in Teams : StaysOrIsTouched(t)
  <2>1. \A t \in Teams : t \in Unused \/ team'[t] = team[t]
    BY <1>8, NextWaveIsUnused DEF AdvanceCreates, Store
  <2> QED BY <2>1 DEF StaysOrIsTouched, Unused, Created, Terminal
<1>9. ASSUME NEW u \in Teams, Close(u)
      PROVE  \A t \in Teams : StaysOrIsTouched(t)
  <2> DEFINE next == IF team[u].status = "completed" THEN NextWave(u, step') ELSE NoWave
             closed == [team[u] EXCEPT !.reported = TRUE]
             new == [v \in {u} \cup DOMAIN next |-> IF v = u THEN closed ELSE next[v]]
  <2>1. Store(new) /\ DOMAIN next \subseteq Unused
    BY <1>9, NextWaveIsUnused DEF Close, NoWave
  <2>2. \A t \in Teams : t \in Unused \/ team'[t] = team[t] \/ (t = u /\ team'[t] = closed)
    BY <2>1 DEF Store
  <2>3. closed.status = team[u].status
    BY RecordOf DEF WavesInv, TeamRecords
  <2> HIDE DEF closed
  <2> QED BY <2>2, <2>3 DEF StaysOrIsTouched, Unused, Created, Terminal
<1>10. ASSUME NEW d \in Delegates, RunEnds(d)
       PROVE  \A t \in Teams : StaysOrIsTouched(t)
  BY <1>10 DEF RunEnds, StaysOrIsTouched
<1>11. ASSUME NEW d \in Delegates, Tell(d)
       PROVE  \A t \in Teams : StaysOrIsTouched(t)
  <2>1. CASE UNCHANGED team
    BY <2>1 DEF StaysOrIsTouched
  <2>2. CASE team[TeamOf(d)].status = "active" /\ \E r : Store(Only(TeamOf(d), r))
    <3>1. TeamOf(d) \in Teams /\ team[TeamOf(d)].status \notin Terminal
      BY <2>2, DelegateIs DEF Terminal
    <3> QED BY <2>2, <3>1, StoredIsFinal
  <2> QED BY <1>11, <2>1, <2>2 DEF Tell
<1>12. ASSUME NEW d \in Delegates, SpawnNext(d)
       PROVE  \A t \in Teams : StaysOrIsTouched(t)
  <2>1. at[d] = "told"
    BY <1>12 DEF SpawnNext
  <2>2. CASE Finish(d)
    BY <2>1, <2>2, FinishIsFinal
  <2>3. CASE \E s \in Steps :
               Store(Only(TeamOf(d), [team[TeamOf(d)] EXCEPT !.member[s] = "running"]))
    <3>1. PICK s \in Steps :
               Store(Only(TeamOf(d), [team[TeamOf(d)] EXCEPT !.member[s] = "running"]))
      BY <2>3
    <3> DEFINE r == [team[TeamOf(d)] EXCEPT !.member[s] = "running"]
    <3>2. TeamOf(d) \in Teams /\ r.status = team[TeamOf(d)].status
      BY DelegateIs, RecordOf DEF WavesInv, TeamRecords
    <3> HIDE DEF r
    <3>3. Store(Only(TeamOf(d), r))
      BY <3>1 DEF r
    <3> QED BY <3>2, <3>3, StoredIsFinal
  <2> QED BY <1>12, <2>2, <2>3 DEF SpawnNext, With
<1>13. ASSUME NEW d \in Delegates, FinishAfterSpawn(d)
       PROVE  \A t \in Teams : StaysOrIsTouched(t)
  <2>1. at[d] \in {"told", "spawned"} /\ Finish(d)
    BY <1>13 DEF FinishAfterSpawn
  <2> QED BY <2>1, FinishIsFinal
<1> QED BY <1>1, <1>2, <1>3, <1>4, <1>5, <1>6, <1>7, <1>8, <1>9, <1>10, <1>11, <1>12, <1>13
     DEF Next

(* A wave that was reported is final: its outcome changes only when a      *)
(* member is rewoken, when it is skipped, or when a completion was in      *)
(* progress as it was closed.                                              *)
THEOREM ReportedWavesAreFinal == Spec => ReportedIsFinal
<1>1. WavesInv /\ [Next]_vars => [\A t \in Teams : StaysOrIsTouched(t)]_vars
  BY NextIsFinal
<1>2. (\A t \in Teams : StaysOrIsTouched(t)) <=>
      (\A t \in Teams : team[t].reported /\ team[t].status \in Terminal =>
         \/ team'[t].status = team[t].status
         \/ meddling' # meddling
         \/ \E d \in Delegates : TeamOf(d) = t /\ at[d] \in {"told", "spawned"})
  BY DEF StaysOrIsTouched
<1>3. WavesInv /\ [Next]_vars =>
        [\A t \in Teams : team[t].reported /\ team[t].status \in Terminal =>
           \/ team'[t].status = team[t].status
           \/ meddling' # meddling
           \/ \E d \in Delegates : TeamOf(d) = t /\ at[d] \in {"told", "spawned"}]_vars
  BY <1>1, <1>2
<1> QED BY <1>3, WavesInvariant, PTL DEF Spec, ReportedIsFinal

=============================================================================
