--------------------------- MODULE DelegateReviews ---------------------------
(***************************************************************************)
(* The questions that the delegates of a running team put to their         *)
(* orchestrator and wait for: the review of a completion, a limit that     *)
(* they hit, a request for help.  _try_escalate and                        *)
(* _await_completion_review (nls/agentic/loop.py),                         *)
(* _await_orchestrator_escalation and run_delegate_detached (executor.py), *)
(* on_member_escalation and the pending reviews (team_manager.py),         *)
(* intervene, hint, cancel and rewake (delegate_manager.py) and            *)
(* team(intervene) (tools/agent_tools/team.py).                            *)
(*                                                                         *)
(* Every answer comes through the one hint_queue of its delegate, which    *)
(* reads it only while it waits.  Time is left open: a wait may end        *)
(* whenever nothing is queued.  DelegateBatches has the cancellation that  *)
(* a run swallows, and a rewake while the run before is not over.          *)
(***************************************************************************)
EXTENDS Naturals, Sequences

CONSTANTS
  Delegates,     \* the members of the team
  MaxQuestions,  \* bound: questions of one delegate
  MaxUnprompted, \* bound: decisions and hints nobody asked for
  MaxRewakes     \* bound: rewakes

ASSUME ReviewsAssumption ==
  /\ MaxQuestions \in Nat \ {0}
  /\ MaxUnprompted \in Nat /\ MaxRewakes \in Nat

VARIABLES
  phase,     \* where the run of each delegate is
  kind,      \* what it asks
  asked,     \* the number of its last question
  hints,     \* hint_queue
  reviewed,  \* LoopState._completion_reviewed
  escalated, \* whether _escalation_counts is above 0
  state,     \* _DelegateState.state
  exit,      \* its exit_reason
  cancelling,\* the delegates whose task was cancelled and has not noticed
  reviews,   \* TeamManager._pending_completion_reviews
  told,      \* the questions the orchestrator knows of and has not answered
  guided,    \* whether it was ever hinted (last_hint_at), and whether it has
             \* called tools since (last_progress_at)
  episode,   \* escalation_opened_at and hints_for_escalation
  unseen,    \* whether it has made progress that its team does not know of
  unprompted,\* how many decisions and hints nobody asked for
  rewakes,   \* how many rewakes
  verdict,   \* history: how the review of each run ended
  taken,     \* history: the question that the approval that ended its run was for
  left       \* history: the questions it went on from without their answer

runVars == <<phase, kind, asked, reviewed, exit>>
gate == <<guided, episode, unseen>>
bounds == <<unprompted, rewakes>>
history == <<verdict, taken, left>>
vars == <<runVars, hints, escalated, state, cancelling, reviews, told, gate, bounds,
          history>>

Kinds == {"review", "limit", "help"}
Decisions == {"approve", "extend", "hint", "terminate"}
Questions == 1..MaxQuestions
NoQuestion == 0

(* What a delegate finds in its queue, and what it was sent for.           *)
Answers == [act : {"extend", "hint", "terminate", "chat"}, to : Questions \cup {NoQuestion}]

TypeOK ==
  /\ phase \in [Delegates -> {"working", "telling", "waiting", "closing", "over"}]
  /\ kind \in [Delegates -> Kinds \cup {"none"}]
  /\ asked \in [Delegates -> 0..MaxQuestions]
  /\ hints \in [Delegates -> Seq(Answers)]
  /\ reviewed \in [Delegates -> BOOLEAN]
  /\ escalated \in [Delegates -> BOOLEAN]
  /\ state \in [Delegates -> {"running", "done", "cancelled"}]
  /\ exit \in [Delegates -> {"none", "task_complete", "orchestrator_terminated",
                             "limit", "cancelled"}]
  /\ cancelling \in SUBSET Delegates
  /\ reviews \in SUBSET Delegates
  /\ told \in SUBSET (Delegates \X Questions)
  /\ guided \in [Delegates -> {"never", "sent", "heeded"}]
  /\ episode \in [Delegates -> {"closed", "open", "hinted"}]
  /\ unseen \in [Delegates -> BOOLEAN]
  /\ unprompted \in 0..MaxUnprompted /\ rewakes \in 0..MaxRewakes
  /\ verdict \in [Delegates -> {"none", "approved", "rejected", "mistaken", "extended",
                                "unanswered"}]
  /\ taken \in [Delegates -> 0..MaxQuestions]
  /\ left \in SUBSET (Delegates \X Questions)

Init ==
  /\ phase = [d \in Delegates |-> "working"]
  /\ kind = [d \in Delegates |-> "none"]
  /\ asked = [d \in Delegates |-> NoQuestion]
  /\ hints = [d \in Delegates |-> <<>>]
  /\ reviewed = [d \in Delegates |-> FALSE]
  /\ escalated = [d \in Delegates |-> FALSE]
  /\ state = [d \in Delegates |-> "running"]
  /\ exit = [d \in Delegates |-> "none"]
  /\ cancelling = {} /\ reviews = {} /\ told = {}
  /\ guided = [d \in Delegates |-> "never"]
  /\ episode = [d \in Delegates |-> "closed"]
  /\ unseen = [d \in Delegates |-> FALSE]
  /\ unprompted = 0 /\ rewakes = 0
  /\ verdict = [d \in Delegates |-> "none"]
  /\ taken = [d \in Delegates |-> NoQuestion]
  /\ left = {}

-----------------------------------------------------------------------------
(* A delegate asks                                                         *)

(* A cancelled task does not go on. *)
Runs(d, p) == phase[d] = p /\ d \notin cancelling

Question(d) == <<d, asked[d]>>

(* A defect: a completion is taken as it is. *)
MustReviewNever(d) == FALSE

(* One review per run. *)
MustReview(d) == ~reviewed[d]

(* An iteration, which ends in a question: on_member_escalation until its  *)
(* broadcast.                                                              *)
Ask(d, k) ==
  /\ Runs(d, "working") /\ asked[d] < MaxQuestions
  /\ k = "review" => MustReview(d)
  /\ phase' = [phase EXCEPT ![d] = "telling"]
  /\ kind' = [kind EXCEPT ![d] = k]
  /\ asked' = [asked EXCEPT ![d] = @ + 1]
  /\ unseen' = [unseen EXCEPT ![d] = TRUE]
  /\ reviewed' = [reviewed EXCEPT ![d] = @ \/ k = "review"]
  /\ UNCHANGED <<exit, hints, escalated, state, cancelling, reviews, told, guided, episode, bounds,
                 history>>

(* _progress_monitor and reconcile_with_delegates, which tell of the calls  *)
(* and iterations of a run up to ten seconds late.                         *)
Sync(d) ==
  /\ unseen[d]
  /\ unseen' = [unseen EXCEPT ![d] = FALSE]
  /\ \/ guided' = [guided EXCEPT ![d] = IF @ = "sent" THEN "heeded" ELSE @]
     \/ UNCHANGED guided
  /\ episode' = [episode EXCEPT ![d] = "closed"]
  /\ UNCHANGED <<runVars, hints, escalated, state, cancelling, reviews, told, bounds,
                 history>>

Enqueue(d, act, n) == hints' = [hints EXCEPT ![d] = Append(@, [act |-> act, to |-> n])]

Automatic(d) == kind[d] = "limit" /\ ~escalated[d]

Reaches(d) ==
  /\ escalated' = [escalated EXCEPT ![d] = @ \/ kind[d] # "review"]
  /\ told' = told \cup {Question(d)}
  /\ reviews' = IF kind[d] = "review" THEN reviews \cup {d} ELSE reviews \ {d}
  /\ episode' = [episode EXCEPT ![d] = IF kind[d] = "review" THEN @ ELSE "open"]
  /\ UNCHANGED hints

(* The rest of it: the first limit is extended on the spot, a request for  *)
(* files that are assigned already gets a hint, which does not count as an *)
(* escalation, and any other question reaches the orchestrator.            *)
Tell(d) ==
  /\ Runs(d, "telling")
  /\ phase' = [phase EXCEPT ![d] = "waiting"]
  /\ \/ /\ Automatic(d)
        /\ Enqueue(d, "extend", asked[d])
        /\ escalated' = [escalated EXCEPT ![d] = TRUE]
        /\ UNCHANGED <<reviews, told, episode>>
     \/ /\ kind[d] = "help"
        /\ Enqueue(d, "hint", asked[d])
        /\ UNCHANGED <<escalated, reviews, told, episode>>
     \/ ~Automatic(d) /\ Reaches(d)
  /\ UNCHANGED <<kind, asked, reviewed, exit, state, cancelling, guided, unseen, bounds,
                 history>>

(* completion_review_reminder, which counts as an escalation. *)
Remind(d) ==
  /\ Runs(d, "waiting") /\ kind[d] = "review" /\ hints[d] = <<>>
  /\ escalated' = [escalated EXCEPT ![d] = TRUE]
  /\ told' = told \cup {Question(d)}
  /\ UNCHANGED <<runVars, hints, state, cancelling, reviews, gate, bounds, history>>

-----------------------------------------------------------------------------
(* and goes on                                                             *)

GoesOn(d) ==
  /\ phase' = [phase EXCEPT ![d] = "working"]
  /\ kind' = [kind EXCEPT ![d] = "none"]
  /\ UNCHANGED <<exit, state>>

(* _run_one gets the result of the run. *)
Closes(d, reason) ==
  /\ phase' = [phase EXCEPT ![d] = "closing"]
  /\ kind' = [kind EXCEPT ![d] = "none"]
  /\ exit' = [exit EXCEPT ![d] = reason]
  /\ state' = [state EXCEPT ![d] = "done"]

Judged(d, v) == verdict' = [verdict EXCEPT ![d] = v]

Own(d, answer) == answer.to = asked[d]

(* _await_completion_review: whatever is not a rejection approves. *)
Reviewed(d, answer) ==
  CASE answer.act = "hint" ->
         GoesOn(d) /\ Judged(d, IF Own(d, answer) THEN "rejected" ELSE "mistaken")
    [] answer.act = "extend" -> GoesOn(d) /\ Judged(d, "extended")
    [] answer.act = "terminate" -> Closes(d, "task_complete") /\ Judged(d, "approved")
    [] answer.act = "chat" -> UNCHANGED <<phase, kind, exit, state, verdict>>

(* _try_escalate passes over hints, and _await_orchestrator_escalation     *)
(* takes whatever comes for the answer.                                    *)
Escalated(d, answer) ==
  /\ CASE answer.act = "terminate" -> Closes(d, "orchestrator_terminated")
       [] answer.act = "chat" /\ kind[d] = "limit" -> UNCHANGED <<phase, kind, exit, state>>
       [] OTHER -> GoesOn(d)
  /\ UNCHANGED verdict

StaysAfter(d, answer) == answer.act = "chat" /\ kind[d] # "help"

Take(d) ==
  /\ Runs(d, "waiting") /\ hints[d] # <<>>
  /\ hints' = [hints EXCEPT ![d] = Tail(@)]
  /\ IF kind[d] = "review" THEN Reviewed(d, Head(hints[d])) ELSE Escalated(d, Head(hints[d]))
  /\ taken' = [taken EXCEPT ![d] = IF Head(hints[d]).act = "terminate" THEN Head(hints[d]).to
                                  ELSE @]
  /\ left' = IF Own(d, Head(hints[d])) \/ StaysAfter(d, Head(hints[d])) THEN left
             ELSE left \cup {Question(d)}
  /\ UNCHANGED <<asked, reviewed, escalated, cancelling, reviews, told, gate, bounds>>

(* A defect: a review that nobody answers waits for ever. *)
GivesUpUnlessReview(d) == kind[d] # "review"

GivesUp(d) == hints[d] = <<>>

(* The orchestrator may still answer a question that nobody waits with.    *)
Leaves(d) == left' = IF Question(d) \in told THEN left \cup {Question(d)} ELSE left

(* Nobody answers: after ten minutes a completion is accepted, a limit     *)
(* ends the run, and after two minutes a delegate goes on without help.    *)
Expire(d) ==
  /\ Runs(d, "waiting") /\ GivesUp(d)
  /\ CASE kind[d] = "review" -> Closes(d, "task_complete") /\ Judged(d, "unanswered")
       [] kind[d] = "limit" -> Closes(d, "limit") /\ UNCHANGED verdict
       [] kind[d] = "help" -> GoesOn(d) /\ UNCHANGED verdict
  /\ Leaves(d)
  /\ UNCHANGED <<asked, reviewed, hints, escalated, cancelling, reviews, told, gate, bounds,
                 taken>>

Complete(d) ==
  /\ Runs(d, "working") /\ ~MustReview(d)
  /\ Closes(d, "task_complete")
  /\ UNCHANGED <<asked, reviewed, hints, escalated, cancelling, reviews, told,
                 gate, bounds, history>>

(* A guard that is not escalated, or the wait_for around the whole run. *)
Stop(d) ==
  /\ \E p \in {"working", "telling", "waiting"} : Runs(d, p)
  /\ Closes(d, "limit")
  /\ Leaves(d)
  /\ UNCHANGED <<asked, reviewed, hints, escalated, cancelling, reviews, told,
                 gate, bounds, verdict, taken>>

NoticeCancel(d) ==
  /\ d \in cancelling
  /\ phase' = [phase EXCEPT ![d] = "closing"]
  /\ kind' = [kind EXCEPT ![d] = "none"]
  /\ exit' = [exit EXCEPT ![d] = "cancelled"]
  /\ cancelling' = cancelling \ {d}
  /\ Leaves(d)
  /\ UNCHANGED <<asked, reviewed, hints, escalated, state, reviews, told, gate, bounds,
                 verdict, taken>>

ReviewsWithout(d) == reviews \ {d}

(* on_delegate_complete. *)
Over(d) ==
  /\ phase[d] = "closing"
  /\ phase' = [phase EXCEPT ![d] = "over"]
  /\ reviews' = ReviewsWithout(d)
  /\ UNCHANGED <<kind, asked, reviewed, exit, hints, escalated, state, cancelling, told,
                 gate, bounds, history>>

-----------------------------------------------------------------------------
(* The orchestrator                                                        *)

(* A defect: a hint leaves the review registered. *)
SettlesUnlessHint(decision) == decision \in {"approve", "terminate"}

Settles(decision) == decision \in {"approve", "hint", "terminate"}

(* A defect: an approval is sent as it is. *)
SentAsItIs(decision) == decision

Sent(decision) == IF decision = "approve" THEN "terminate" ELSE decision

(* should_block_orchestrator_hint: one hint for an escalation, and, until   *)
(* the next one, none once the delegate has gone on since the last.  What   *)
(* else it asks for, an inspection and some time, the orchestrator can do.  *)
HintBlocked(d) ==
  \/ episode[d] = "hinted"
  \/ episode[d] = "closed" /\ guided[d] = "heeded"

(* record_hint_delivery. *)
Recorded(d) ==
  /\ guided' = [guided EXCEPT ![d] = "sent"]
  /\ episode' = [episode EXCEPT ![d] = IF @ = "open" THEN "hinted" ELSE @]
  /\ UNCHANGED unseen

(* team(intervene) for the question n, of a delegate that runs: a          *)
(* termination cancels its task and is not sent, and an extension may come *)
(* without a message.                                                      *)
Intervene(d, decision, n) ==
  /\ reviews' = IF Settles(decision) THEN reviews \ {d} ELSE reviews
  /\ \/ /\ decision = "terminate"
        /\ state' = [state EXCEPT ![d] = "cancelled"]
        /\ cancelling' = cancelling \cup {d}
        /\ UNCHANGED <<hints, gate>>
     \/ /\ decision # "terminate"
        /\ Enqueue(d, Sent(decision), n)
        /\ UNCHANGED <<state, cancelling>>
        /\ \/ decision = "hint" /\ ~HintBlocked(d) /\ Recorded(d)
           \/ decision = "extend" /\ Recorded(d)
           \/ decision # "hint" /\ UNCHANGED gate

(* An orchestrator that was told of a question decides, as often as it was *)
(* told.                                                                   *)
Answer(d, n, decision) ==
  /\ <<d, n>> \in told
  /\ told' = told \ {<<d, n>>}
  /\ IF state[d] = "running" THEN Intervene(d, decision, n)
     ELSE UNCHANGED <<hints, state, cancelling, reviews, gate>>
  /\ UNCHANGED <<runVars, escalated, bounds, history>>

Unasked(d) ==
  /\ unprompted < MaxUnprompted
  /\ unprompted' = unprompted + 1
  /\ state[d] = "running"

(* A decision that nobody asked for, or a second one; *)
Meddle(d, decision) ==
  /\ Unasked(d)
  /\ Intervene(d, decision, NoQuestion)
  /\ UNCHANGED <<runVars, escalated, told, rewakes, history>>

(* team(hint), into the conversation or into the memory of the delegate    *)
(* only,                                                                   *)
Hint(d) ==
  /\ Unasked(d) /\ ~HintBlocked(d)
  /\ Recorded(d)
  /\ Enqueue(d, "chat", NoQuestion) \/ UNCHANGED hints
  /\ UNCHANGED <<runVars, escalated, state, cancelling, reviews, told, rewakes, history>>

(* A defect: the queue of the run before goes on. *)
HintsKept(d) == hints[d]

FreshHints(d) == <<>>

(* and team(rewake). *)
Rewake(d) ==
  /\ phase[d] = "over" /\ rewakes < MaxRewakes
  /\ rewakes' = rewakes + 1
  /\ phase' = [phase EXCEPT ![d] = "working"]
  /\ hints' = [hints EXCEPT ![d] = FreshHints(d)]
  /\ reviewed' = [reviewed EXCEPT ![d] = FALSE]
  /\ state' = [state EXCEPT ![d] = "running"]
  /\ exit' = [exit EXCEPT ![d] = "none"]
  /\ Judged(d, "none")
  /\ taken' = [taken EXCEPT ![d] = NoQuestion]
  /\ UNCHANGED <<kind, asked, escalated, cancelling, reviews, told, gate, unprompted, left>>

-----------------------------------------------------------------------------

Next ==
  \E d \in Delegates :
    \/ \E k \in Kinds : Ask(d, k)
    \/ Sync(d) \/ Tell(d) \/ Remind(d) \/ Take(d) \/ Expire(d)
    \/ Complete(d) \/ Stop(d) \/ NoticeCancel(d) \/ Over(d)
    \/ \E n \in Questions, decision \in Decisions : Answer(d, n, decision)
    \/ \E decision \in Decisions : Meddle(d, decision)
    \/ Hint(d) \/ Rewake(d)

(* Tasks are scheduled, waits have timeouts and runs a limit of time,      *)
(* which is assumed only of their work: a wait has to end by itself.       *)
(* Nothing is assumed of the orchestrator.                                 *)
Fairness ==
  \A d \in Delegates :
    /\ WF_vars(Tell(d) \/ NoticeCancel(d) \/ Over(d))
    /\ WF_vars(Take(d) \/ Expire(d))
    /\ WF_vars(phase[d] = "working" /\ Stop(d))

Spec == Init /\ [][Next]_vars /\ Fairness

-----------------------------------------------------------------------------
(* Properties                                                              *)

Stray(d, n) == n = NoQuestion \/ <<d, n>> \in left

(* What lies in the queue of a running delegate answers the question it    *)
(* waits with, one it left before the orchestrator had answered (its wait  *)
(* ran out, its run ended, or a stray answer was taken for the right one), *)
(* or none: and no question is answered twice, although questions and      *)
(* answers carry no name and share the queue with what an earlier run, an  *)
(* automatic extension and reminders leave.  A queue has a stray answer    *)
(* only after something unasked or such a question.                        *)
AnswersMatchQuestions ==
  \A d \in Delegates :
    /\ phase[d] \in {"working", "telling", "waiting"} =>
         \A i \in DOMAIN hints[d] :
           \/ phase[d] = "waiting" /\ Own(d, hints[d][i])
           \/ Stray(d, hints[d][i].to)
    /\ \A i, j \in DOMAIN hints[d] :
         hints[d][i].to = hints[d][j].to /\ hints[d][i].to # NoQuestion => i = j

(* A delegate counts as done only if its completion was put to the         *)
(* orchestrator and approved, sent back before with a hint or with more    *)
(* budget, or left unanswered.  An approval accepts a completion, or ends  *)
(* a run at another question, only if it was given to that very question,  *)
(* unless nobody asked for it or it is the late answer to a question that  *)
(* the delegate had left.                                                  *)
DoneIsAccepted ==
  \A d \in Delegates :
    /\ exit[d] = "task_complete" => verdict[d] # "none"
    /\ exit[d] = "orchestrator_terminated" \/ verdict[d] = "approved" =>
         taken[d] = asked[d] \/ Stray(d, taken[d])

(* The pending reviews, which keep the orchestrator from waiting for its   *)
(* delegates, are of delegates that wait for it, that are about to be      *)
(* over, or that were sent back with more budget instead of a hint or by a *)
(* hint that was not given to the review.                                  *)
ReviewsAreOfWaiters ==
  \A d \in reviews :
    \/ phase[d] = "waiting" /\ kind[d] = "review" /\ verdict[d] = "none"
    \/ phase[d] = "closing"
    \/ verdict[d] \in {"extended", "mistaken"}

(* A completion that waits for its review can be sent back with a hint, as *)
(* the message of the review asks for; but a review opens no episode, and  *)
(* for a delegate that was hinted and has gone on since the hint is        *)
(* blocked until its next escalation.                                      *)
ReviewsCanBeRejected ==
  \A d \in Delegates :
    phase[d] = "waiting" /\ kind[d] = "review" /\ Question(d) \in told /\ ~unseen[d] =>
      ~HintBlocked(d)

(* No pending review blocks the orchestrator for ever, whatever becomes of *)
(* the delegate.                                                           *)
ReviewsClear == \A d \in Delegates : d \in reviews ~> d \notin reviews

(* No delegate waits for ever for an answer, whether or not the            *)
(* orchestrator gives one: the two never wait for each other.              *)
WaitsEnd ==
  \A d \in Delegates, n \in Questions :
    (phase[d] = "waiting" /\ asked[d] = n) ~> ~(phase[d] = "waiting" /\ asked[d] = n)

(* Neither of the two waits for the other for ever. *)
NobodyWaitsForEver == ReviewsClear /\ WaitsEnd

=============================================================================
