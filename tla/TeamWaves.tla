------------------------------ MODULE TeamWaves ------------------------------
(***************************************************************************)
(* The teams that carry out one plan, wave by wave:                        *)
(* nls/agentic/team_manager.py with the team tool                          *)
(* (nls/tools/agent_tools/team.py), plan(accept_partial)                   *)
(* (nls/tools/agent_tools/plan.py), the waves of nls/agentic/plan_store.py *)
(* and the routes of server/routes/teams.py.                               *)
(*                                                                         *)
(* A member is the step it works on.  Every launch of a team gives all its *)
(* members new delegate numbers, so a delegate is a team, a step and the   *)
(* number of the launch; DelegateBatches has the runs in detail.  All      *)
(* steps are delegatable.  The orchestrator and the user may call any      *)
(* operation at any time; how it decides to is left open.  Numbers that    *)
(* are given again to other delegates, after delegates.json was lost, are  *)
(* not modelled.                                                           *)
(***************************************************************************)
EXTENDS Naturals, FiniteSets, FiniteSetsExt

CONSTANTS
  Steps,        \* the steps of the plan
  Needs,        \* depends_on
  Exits,        \* bound: how a run may end by itself, of "done", "partial", "error"
  MaxConcurrent,\* _max_concurrent; 5 in the code
  MaxTeams,     \* bound: teams created
  MaxLaunches,  \* bound: launches of one team
  MaxMeddling   \* bound: interventions, skips, acceptances and restarts

ASSUME WavesAssumption ==
  /\ IsFiniteSet(Steps)
  /\ Needs \in [Steps -> SUBSET Steps]
  /\ Exits \in SUBSET {"done", "partial", "error"}
  /\ MaxConcurrent \in Nat /\ MaxTeams \in Nat
  /\ MaxLaunches \in Nat /\ MaxMeddling \in Nat

Teams == 1..MaxTeams
Delegates == Teams \X Steps \X (1..MaxLaunches)
TeamOf(d) == d[1]
StepOf(d) == d[2]
LaunchOf(d) == d[3]

VARIABLES
  team,       \* TeamManager._teams
  disk,       \* teams/team_*.json
  launchable, \* the teams with a _launch_fn
  numbered,   \* _next_delegate_number > 0
  zero,       \* the delegates that have the number 0
  step,       \* the status of each step of the plan, on disk
  ds,         \* _DelegateState.state; "partial" is done without task_complete
  late,       \* the delegates that are not in their team's batch_id
  astray,     \* history: those whose run was spawned for a team that was over
  at,         \* where the run of each delegate is
  advancing,  \* the completed teams whose advance has yet to create the next wave
  meddling,   \* how many interventions there were
  skipped,    \* history: the teams whose wave was skipped
  reopened    \* history: the steps that were done and are not any more

launching == <<launchable, numbered, zero>>
spawns == <<late, astray>>
run == <<ds, spawns, at>>
history == <<skipped, reopened>>
vars == <<team, disk, launching, step, run, advancing, meddling, history>>

Open == {"created", "active", "paused"}
Terminal == {"completed", "partial", "failed", "cancelled"}
Ended == {"done", "failed", "cancelled"}

NoTeam == [status |-> "none", wave |-> 0, member |-> [s \in Steps |-> "none"],
           launches |-> 0, reported |-> FALSE]

TeamRecords ==
  [status : Open \cup Terminal \cup {"none"}, wave : Nat,
   member : [Steps -> Ended \cup {"none", "pending", "running"}],
   launches : 0..MaxLaunches, reported : BOOLEAN]

TypeOK ==
  /\ team \in [Teams -> TeamRecords]
  /\ disk \in [Teams -> TeamRecords]
  /\ launchable \in SUBSET Teams
  /\ numbered \in BOOLEAN /\ zero \in SUBSET Delegates
  /\ step \in [Steps -> {"pending", "done", "skipped"}]
  /\ ds \in [Delegates -> {"none", "running", "done", "partial", "error", "cancelled"}]
  /\ late \in SUBSET Delegates /\ astray \in SUBSET Delegates
  /\ at \in [Delegates -> {"none", "working", "ended", "told", "spawned", "over"}]
  /\ advancing \in SUBSET Teams
  /\ meddling \in 0..MaxMeddling
  /\ skipped \in SUBSET Teams /\ reopened \in SUBSET Steps

Init ==
  /\ team = [t \in Teams |-> NoTeam] /\ disk = team
  /\ launchable = {} /\ numbered = FALSE /\ zero = {}
  /\ step = [s \in Steps |-> "pending"]
  /\ ds = [d \in Delegates |-> "none"] /\ late = {} /\ astray = {}
  /\ at = [d \in Delegates |-> "none"]
  /\ advancing = {} /\ meddling = 0
  /\ skipped = {} /\ reopened = {}

-----------------------------------------------------------------------------
(* Waves, members and outcomes                                             *)

(* get_delegation_waves, where the dependencies have no cycle. *)
WaveOf[s \in Steps] ==
  IF Needs[s] = {} THEN 0 ELSE 1 + Max({WaveOf[n] : n \in Needs[s]})

(* The dependencies have no cycle. *)
ASSUME WavesAreNumbered ==
  /\ WaveOf \in [Steps -> Nat]
  /\ \A s \in Steps : \A n \in Needs[s] : WaveOf[n] < WaveOf[s]

PendingIn(w, st) == {s \in Steps : WaveOf[s] = w /\ st[s] = "pending"}

EarlierPending(w, st) == {s \in Steps : WaveOf[s] < w /\ st[s] = "pending"}

Created == {t \in Teams : team[t].status # "none"}
Members(r) == {s \in Steps : r.member[s] # "none"}
With(r, S) == {s \in Steps : r.member[s] \in S}
AllEnded(r) == Members(r) = With(r, Ended)

(* A defect: a wave is complete when most of its members succeeded. *)
OutcomeOfMost(r) ==
  IF 2 * Cardinality(With(r, {"done"})) >= Cardinality(Members(r))
  THEN "completed" ELSE "failed"

(* compute_outcome, once every member has ended. *)
Outcome(r) ==
  LET done == With(r, {"done"}) IN
  CASE done = Members(r) -> "completed"
    [] 2 * Cardinality(done) < Cardinality(Members(r)) -> "failed"
    [] OTHER -> "partial"

(* _sync_plan_steps_from_team; a failed step is pending work. *)
Synced(r) == [s \in Steps |-> CASE r.member[s] = "none" -> step[s]
                                [] r.member[s] = "done" -> "done"
                                [] r.member[s] \in {"failed", "cancelled"} -> "pending"
                                [] OTHER -> "skipped"]

(* save(team) for each of the new records. *)
Store(new) ==
  /\ team' = [t \in Teams |-> IF t \in DOMAIN new THEN new[t] ELSE team[t]]
  /\ disk' = [t \in Teams |-> IF t \in DOMAIN new THEN new[t] ELSE disk[t]]

Only(t, r) == [u \in {t} |-> r]

SetSteps(st) ==
  /\ step' = st
  /\ reopened' = reopened \cup {s \in Steps : step[s] = "done" /\ st[s] # "done"}

NewTeam(w, st) ==
  [NoTeam EXCEPT !.status = "created", !.wave = w,
     !.member = [s \in Steps |-> IF s \in PendingIn(w, st) THEN "pending" ELSE "none"]]

Unused == Teams \ Created

-----------------------------------------------------------------------------
(* Creating and launching                                                  *)

(* A defect: earlier waves are not looked at. *)
CreatableAny(w) == PendingIn(w, step) # {}

Creatable(w) == PendingIn(w, step) # {} /\ EarlierPending(w, step) = {}

(* create_team, as the route calls it; the team tool has further guards.   *)
Create(w) ==
  /\ Unused # {}
  /\ Creatable(w)
  /\ Store(Only(Min(Unused), NewTeam(w, step)))
  /\ UNCHANGED <<launching, step, run, advancing, meddling, history>>

NoWave == [u \in {} |-> NoTeam]

(* _try_create_next_wave: only a wave that never had a team. *)
NextWave(t, st) ==
  LET open == {w \in {WaveOf[s] : s \in Steps} : PendingIn(w, st) # {}}
      w == Min(open) IN
  IF /\ open # {}
     /\ w > team[t].wave
     /\ \A u \in Created : team[u].wave # w
     /\ Unused # {}
  THEN Only(Min(Unused), NewTeam(w, st))
  ELSE NoWave

Running == {d \in Delegates : ds[d] = "running"}
FreeSlots == IF Cardinality(Running) < MaxConcurrent
             THEN MaxConcurrent - Cardinality(Running) ELSE 0

(* The dependency check of team(launch); should_auto_launch_next_wave does *)
(* not look at the steps.                                                  *)
MayLaunch(t) ==
  \/ /\ team[t].status \in {"created", "paused"}
     /\ \A s \in Members(team[t]) : \A n \in Needs[s] : step[n] # "pending"
  \/ /\ team[t].status = "created"
     /\ Running = {}
     /\ \A u \in Teams \ {t} : team[u].status # "active"

(* launch_team_async: every member gets a new number, the first of them    *)
(* the next one; as many as there are free slots start, from the first on, *)
(* and the others stay pending.                                            *)
Launch(t) ==
  LET g == team[t].launches + 1
      M == Members(team[t]) IN
  /\ MayLaunch(t)
  /\ g <= MaxLaunches
  /\ \E S \in SUBSET M, first \in M :
       /\ Cardinality(S) = Min({FreeSlots, Cardinality(M)})
       /\ S # {} => first \in S
       /\ zero' = IF numbered THEN zero ELSE zero \cup {<<t, first, g>>}
       /\ Store(Only(t, [team[t] EXCEPT !.status = "active", !.launches = g,
            !.member = [s \in Steps |-> CASE s \in S -> "running"
                                          [] s \in M \ S -> "pending"
                                          [] OTHER -> "none"]]))
       /\ ds' = [d \in Delegates |-> IF d \in {t} \X S \X {g} THEN "running" ELSE ds[d]]
       /\ at' = [d \in Delegates |-> IF d \in {t} \X S \X {g} THEN "working" ELSE at[d]]
  /\ launchable' = launchable \cup {t}
  /\ numbered' = TRUE
  /\ UNCHANGED <<spawns, step, advancing, meddling, history>>

-----------------------------------------------------------------------------
(* on_delegate_complete                                                    *)

Current(d) == LaunchOf(d) = team[TeamOf(d)].launches

(* A cancelled run may swallow the cancellation and end like any other. *)
RunEnds(d) ==
  /\ at[d] = "working"
  /\ \E o \in Exits \cup {"cancelled"} :
       /\ o = "cancelled" => ds[d] = "cancelled"
       /\ ds' = [ds EXCEPT ![d] = o]
  /\ at' = [at EXCEPT ![d] = "ended"]
  /\ UNCHANGED <<team, disk, launching, step, spawns, advancing, meddling, history>>

(* Until the member's end is broadcast. *)
Tell(d) ==
  LET t == TeamOf(d)
      s == StepOf(d)
      ok == ds[d] = "done" IN
  /\ at[d] = "ended"
  /\ \/ /\ team[t].status = "active" /\ Current(d)
        /\ Store(Only(t, [team[t] EXCEPT !.member[s] = IF ok THEN "done" ELSE "failed"]))
        /\ step' = IF step[s] = "done" THEN step
                   ELSE [step EXCEPT ![s] = IF ok THEN "done" ELSE "pending"]
        /\ at' = [at EXCEPT ![d] = "told"]
     \/ /\ ~(team[t].status = "active" /\ Current(d))
        /\ at' = [at EXCEPT ![d] = "over"]
        /\ UNCHANGED <<team, disk, step>>
  /\ UNCHANGED <<launching, ds, spawns, advancing, meddling, history>>

(* A defect: a team with a failed member does not land. *)
LandsDone(r) == With(r, {"done"}) = Members(r)

Lands(r) == AllEnded(r)

Finish(d) ==
  LET t == TeamOf(d)
      landed == [team[t] EXCEPT !.status = Outcome(team[t])] IN
  /\ at' = [at EXCEPT ![d] = "over"]
  /\ \/ /\ Lands(team[t])
        /\ Store(Only(t, landed))
        /\ SetSteps(Synced(landed))
     \/ /\ ~Lands(team[t])
        /\ UNCHANGED <<team, disk, step, reopened>>
  /\ UNCHANGED <<launching, ds, spawns, advancing, meddling, skipped>>

(* _spawn_next_pending, which does not look at the status of the team;     *)
(* where it spawns nobody it does not suspend.                             *)
SpawnNext(d) ==
  LET t == TeamOf(d)
      waiting == With(team[t], {"pending"})
      can == waiting # {} /\ FreeSlots > 0 /\ t \in launchable IN
  /\ at[d] = "told"
  /\ \/ /\ can
        /\ \E s \in waiting :
             LET next == <<t, s, team[t].launches>> IN
             /\ Store(Only(t, [team[t] EXCEPT !.member[s] = "running"]))
             /\ ds' = [ds EXCEPT ![next] = "running"]
             /\ late' = late \cup {next}
             /\ astray' = IF team[t].status \in Terminal THEN astray \cup {next} ELSE astray
             /\ at' = [at EXCEPT ![d] = "spawned", ![next] = "working"]
        /\ UNCHANGED <<launching, step, advancing, meddling, history>>
     \/ /\ ~can
        /\ Finish(d)

FinishAfterSpawn(d) ==
  /\ at[d] = "spawned"
  /\ Finish(d)

-----------------------------------------------------------------------------
(* Closing a wave                                                          *)

(* A defect: a member takes over the delegate's state as it is. *)
ReconciledRaw(t, s) ==
  LET d == <<t, s, team[t].launches>> IN
  IF team[t].member[s] = "running" /\ d \notin late THEN ds[d] ELSE team[t].member[s]

(* reconcile_with_delegates: what one member becomes.  It passes over the  *)
(* number 0, which the first member of the first launch has.               *)
ReconciledMember(t, s) ==
  LET r == team[t]
      d == <<t, s, r.launches>>
      kept == \/ r.member[s] \notin {"running", "pending"} \/ r.launches = 0
              \/ d \in zero
              \/ d \in late /\ ds[d] # "none" IN
  IF kept THEN r.member[s]
  ELSE CASE ds[d] = "none" -> IF r.member[s] = "running" THEN "failed" ELSE r.member[s]
         [] ds[d] \in {"done", "partial"} -> "done"
         [] ds[d] = "error" -> "failed"
         [] OTHER -> ds[d]

Reconciled(t) ==
  IF team[t].status \in Open
  THEN [team[t] EXCEPT !.member = [s \in Steps |-> ReconciledMember(t, s)]]
  ELSE team[t]

Reconcile(t) ==
  /\ Reconciled(t) # team[t]
  /\ Store(Only(t, Reconciled(t)))
  /\ UNCHANGED <<launching, step, run, advancing, meddling, history>>

(* A defect: a team that is over can be advanced again. *)
AdvanceableAgain(t) ==
  /\ t \in Created
  /\ \A u \in Teams \ {t} : team[u].status \notin Open
  /\ AllEnded(Reconciled(t))

Advanceable(t) ==
  /\ team[t].status \in Open
  /\ \A u \in Teams \ {t} : team[u].status \notin Open
  /\ AllEnded(Reconciled(t))

(* advance_team, until the broadcast; what comes after depends on the      *)
(* outcome it had here.                                                    *)
Advance(t) ==
  LET r == Reconciled(t)
      closed == [r EXCEPT !.status = Outcome(r), !.reported = TRUE] IN
  /\ Advanceable(t)
  /\ Store(Only(t, closed))
  /\ SetSteps(Synced(closed))
  /\ advancing' = IF Outcome(r) = "completed" THEN advancing \cup {t} ELSE advancing
  /\ UNCHANGED <<launching, run, meddling, skipped>>

AdvanceCreates(t) ==
  /\ t \in advancing
  /\ Store(NextWave(t, step))
  /\ advancing' = advancing \ {t}
  /\ UNCHANGED <<launching, step, run, meddling, history>>

(* reconcile_terminal_team, and _finalize_unreported_wave_sync when the    *)
(* review of a landed wave has become stale.                               *)
Close(t) ==
  LET next == IF team[t].status = "completed" THEN NextWave(t, step') ELSE NoWave
      closed == [team[t] EXCEPT !.reported = TRUE] IN
  /\ team[t].status \in Terminal
  /\ \/ /\ ~team[t].reported
        /\ SetSteps(Synced(team[t]))
     \/ /\ team[t].reported
        /\ UNCHANGED <<step, reopened>>
  /\ Store([u \in {t} \cup DOMAIN next |-> IF u = t THEN closed ELSE next[u]])
  /\ UNCHANGED <<launching, run, advancing, meddling, skipped>>

-----------------------------------------------------------------------------
(* What the orchestrator and the user do in between                        *)

Meddle ==
  /\ meddling < MaxMeddling
  /\ meddling' = meddling + 1

Pause(t) ==
  /\ Meddle
  /\ team[t].status = "active"
  /\ Store(Only(t, [team[t] EXCEPT !.status = "paused"]))
  /\ UNCHANGED <<launching, step, run, advancing, history>>

(* resume_team; launching a paused team starts all its members again. *)
Resume(t) ==
  /\ team[t].status = "paused"
  /\ Store(Only(t, [team[t] EXCEPT !.status = "active"]))
  /\ UNCHANGED <<launching, step, run, advancing, meddling, history>>

(* A defect: no delegate is cancelled. *)
CancelledNone(t, S) == ds

(* DelegateManager.cancel for members of a team. *)
Cancelled(t, S) ==
  [d \in Delegates |-> IF d \in {t} \X S \X {team[t].launches} /\ ds[d] = "running"
                       THEN "cancelled" ELSE ds[d]]

Marked(t, S) == [s \in Steps |-> IF s \in S THEN "cancelled" ELSE team[t].member[s]]

(* disband_team: members that are pending stay pending. *)
Disband(t) ==
  LET S == With(team[t], {"running"})
      never == team[t].launches = 0
               /\ With(team[t], {"pending", "cancelled"}) = Members(team[t]) IN
  /\ Meddle
  /\ team[t].status \in Open
  /\ ds' = Cancelled(t, S)
  /\ Store(Only(t, [team[t] EXCEPT !.member = Marked(t, S), !.reported = TRUE,
              !.status = IF never THEN "cancelled" ELSE "failed"]))
  /\ UNCHANGED <<launching, step, spawns, at, advancing, history>>

(* skip_wave, whatever the status of the team is. *)
Skip(t) ==
  /\ Meddle
  /\ t \in Created
  /\ ds' = Cancelled(t, With(team[t], {"running"}))
  /\ Store(Only(t, [team[t] EXCEPT !.status = "completed",
              !.member = Marked(t, With(team[t], {"pending", "running"}))]))
  /\ skipped' = skipped \cup {t}
  /\ UNCHANGED <<launching, step, spawns, at, advancing, reopened>>

(* team(intervene, terminate) *)
Terminate(t, s) ==
  /\ Meddle
  /\ team[t].launches > 0
  /\ Reconciled(t).member[s] \in {"running", "pending"}
  /\ ds[<<t, s, team[t].launches>>] = "running"
  /\ ds' = Cancelled(t, {s})
  /\ Store(Only(t, [Reconciled(t) EXCEPT !.member[s] = "cancelled"]))
  /\ UNCHANGED <<launching, step, spawns, at, advancing, history>>

(* team(rewake), which is not saved.  The run before it is over here;      *)
(* DelegateBatches has the case in which it is not.                        *)
Rewake(t, s) ==
  LET d == <<t, s, team[t].launches>> IN
  /\ Meddle
  /\ team[t].launches > 0
  /\ at[d] = "over" /\ ds[d] # "running"
  /\ ds' = [ds EXCEPT ![d] = "running"]
  /\ at' = [at EXCEPT ![d] = "working"]
  /\ astray' = astray \ {d}
  /\ \/ /\ team[t].status \in Terminal
        /\ team' = [team EXCEPT ![t].member[s] = "running", ![t].status = "active",
                                ![t].reported = FALSE]
     \/ /\ team[t].status \notin Terminal
        /\ team' = [team EXCEPT ![t].member[s] = "running"]
  /\ UNCHANGED <<disk, launching, step, late, advancing, history>>

(* plan(accept_partial) for a step that failed, or whose files were found  *)
(* on disk while no delegate had done it.                                  *)
AcceptPartial(s) ==
  LET failed == {t \in Created : team[t].member[s] \in {"failed", "cancelled"}}
      tried == {t \in Created : team[t].member[s] # "none"}
      accepted == [t \in Teams |-> IF t \in failed
                                   THEN [team[t] EXCEPT !.member[s] = "done"] ELSE team[t]] IN
  /\ Meddle
  /\ step[s] # "done"
  /\ \/ \E t \in failed : team[t].status \in {"failed", "partial"}
     \/ tried = {}
     \/ \E t \in tried : team[t].member[s] # "done" /\ \A u \in tried : u <= t
  /\ step' = [step EXCEPT ![s] = "done"]
  /\ team' = accepted
  /\ disk' = [t \in Teams |-> IF t \in failed THEN accepted[t] ELSE disk[t]]
  /\ UNCHANGED <<launching, run, advancing, history>>

(* The server restarts.  delegates.json was written at the end, and the    *)
(* delegates that ran are "interrupted", or it was never written, and the  *)
(* numbers begin at 0 again.                                               *)
Restart ==
  /\ Meddle
  /\ team' = disk
  /\ launchable' = {} /\ advancing' = {}
  /\ at' = [d \in Delegates |-> "none"]
  /\ \/ /\ ds' = [d \in Delegates |-> IF ds[d] = "running" THEN "error" ELSE ds[d]]
        /\ UNCHANGED numbered
     \/ /\ ds' = [d \in Delegates |-> "none"]
        /\ numbered' = FALSE
  /\ UNCHANGED <<disk, zero, step, spawns, history>>

Next ==
  \/ \E s \in Steps : Create(WaveOf[s]) \/ AcceptPartial(s)
  \/ \E t \in Teams :
       \/ Launch(t) \/ Reconcile(t) \/ Advance(t) \/ AdvanceCreates(t) \/ Close(t)
       \/ Pause(t) \/ Resume(t) \/ Disband(t) \/ Skip(t)
       \/ \E s \in Steps : Terminate(t, s) \/ Rewake(t, s)
  \/ \E d \in Delegates : RunEnds(d) \/ Tell(d) \/ SpawnNext(d) \/ FinishAfterSpawn(d)
  \/ Restart

(* Tasks are scheduled and sub-agents end; nobody has to intervene. *)
Fairness ==
  /\ \A d \in Delegates : WF_vars(RunEnds(d) \/ Tell(d) \/ SpawnNext(d) \/ FinishAfterSpawn(d))
  /\ \A t \in Teams : WF_vars(AdvanceCreates(t))

Spec == Init /\ [][Next]_vars /\ Fairness

-----------------------------------------------------------------------------
(* Properties                                                              *)

Starts(d) == ds[d] # "running" /\ ds'[d] = "running"

InProgress(t) == {d \in Delegates : /\ TeamOf(d) = t /\ Current(d)
                                    /\ at[d] \notin {"none", "over"}}

(* No delegate starts on a step while a step that it depends on is open,   *)
(* although only create_team and the tool's launch look at dependencies;   *)
(* unless that step was done once and was opened again.                    *)
StartsAfterItsNeeds ==
  [][\A d \in Delegates : Starts(d) =>
       \A n \in Needs[StepOf(d)] : step[n] # "pending" \/ n \in reopened]_vars

(* A completed wave that nobody skipped leaves its steps done, also after  *)
(* rewakes, terminations, overlapping completions and restarts; unless a   *)
(* step of it, once done, was opened again: closing a wave copies its      *)
(* failures over what another attempt did.                                 *)
CompletedMeansStepsDone ==
  \A t \in Teams : team[t].status = "completed" /\ t \notin skipped =>
    \A s \in Members(team[t]) : step[s] = "done" \/ s \in reopened

(* No sub-agent works for a team that is over, but one that a completion   *)
(* spawned for it when it was over already, or one of an earlier launch.   *)
ClosedTeamsHaveNoRuns ==
  \A d \in Delegates :
    ds[d] = "running" /\ team[TeamOf(d)].status \in Terminal => d \in astray \/ ~Current(d)

(* A wave that was reported is final: its outcome changes only when a      *)
(* member is rewoken, when it is skipped, or when a completion was in      *)
(* progress as it was closed.                                              *)
ReportedIsFinal ==
  [][\A t \in Teams : team[t].reported /\ team[t].status \in Terminal =>
       \/ team'[t].status = team[t].status
       \/ meddling' # meddling
       \/ \E d \in Delegates : TeamOf(d) = t /\ at[d] \in {"told", "spawned"}]_vars

(* All members of an active team end and the team lands, although members  *)
(* wait for slots that others may take; unless somebody intervened, or the *)
(* team starved: no completion of its own is left to start its next member.*)
Starved(t) == With(team[t], {"pending"}) # {} /\ InProgress(t) = {}

TeamsLand ==
  \A t \in Teams : team[t].status = "active" ~>
    \/ team[t].status \in Terminal \/ meddling > 0 \/ Starved(t)

-----------------------------------------------------------------------------
(* What the documentation and the comments say.                            *)

(* _finalize_unreported_wave_sync is an "idempotent wave closure": to      *)
(* close a wave that landed before changes no step that is done.           *)
ClosingIsIdempotent ==
  [][\A t \in Teams :
       team[t].status \in Terminal /\ ~team[t].reported /\ team'[t].reported =>
         \A s \in Steps : step[s] = "done" => step'[s] = "done"]_vars

=============================================================================
