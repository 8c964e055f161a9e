----------------------- MODULE DelegateReviews_proofs -----------------------
(***************************************************************************)
(* Questions, answers and reviews of delegates, for any number of          *)
(* delegates, questions, rewakes and unprompted decisions.                 *)
(***************************************************************************)
EXTENDS DelegateReviews, SequenceTheorems, TLAPS

(* What the orchestrator still has to answer is the question a delegate    *)
(* waits with, or one that it left; no new question was left, told or      *)
(* answered before.                                                        *)
Open(d) ==
  /\ \A n \in Questions : <<d, n>> \in told \cup left => n <= asked[d]
  /\ \A n \in Questions : <<d, n>> \in told =>
       <<d, n>> \in left \/ (n = asked[d] /\ phase[d] = "waiting")
  /\ phase[d] = "telling" => Question(d) \notin left

(* An answered question is not open, and is answered once. *)
Answered(d) ==
  /\ \A i \in 1..Len(hints[d]) : hints[d][i].to # NoQuestion =>
       /\ hints[d][i].to <= asked[d]
       /\ <<d, hints[d][i].to>> \notin told
       /\ phase[d] \in {"working", "telling", "waiting"} =>
            \/ <<d, hints[d][i].to>> \in left
            \/ phase[d] = "waiting" /\ hints[d][i].to = asked[d]
  /\ \A i, j \in 1..Len(hints[d]) :
       hints[d][i].to = hints[d][j].to /\ hints[d][i].to # NoQuestion => i = j

(* A review is asked for once; who has asked for it waits, has a verdict   *)
(* or is past it without having completed.  What approves is an answer to  *)
(* the question it ends, or a stray one.                                   *)
Accepted(d) ==
  /\ verdict[d] # "none" => reviewed[d]
  /\ kind[d] = "review" => reviewed[d] /\ verdict[d] = "none"
  /\ reviewed[d] /\ verdict[d] = "none" =>
       \/ kind[d] = "review" /\ phase[d] \in {"telling", "waiting"}
       \/ phase[d] \in {"closing", "over"}
  /\ exit[d] = "task_complete" => verdict[d] # "none"
  /\ exit[d] = "orchestrator_terminated" \/ verdict[d] = "approved" =>
       /\ phase[d] \in {"closing", "over"}
       /\ taken[d] = asked[d] \/ Stray(d, taken[d])

(* A hint that rejects a completion has removed the review, and nothing is *)
(* left of the run that is over.                                           *)
Settled(d) ==
  /\ phase[d] = "waiting" /\ kind[d] = "review" =>
       \A i \in 1..Len(hints[d]) :
         hints[d][i].act = "hint" /\ hints[d][i].to = asked[d] => d \notin reviews
  /\ d \in reviews =>
       \/ phase[d] = "waiting" /\ kind[d] = "review"
       \/ phase[d] = "closing"
       \/ verdict[d] \in {"extended", "mistaken"}
  /\ phase[d] = "over" => d \notin reviews
  /\ kind[d] # "none" => phase[d] \in {"telling", "waiting"}

(* Who asks has a question. *)
Typed ==
  /\ TypeOK
  /\ \A d \in Delegates :
       phase[d] \in {"telling", "waiting"} => asked[d] \in Questions /\ kind[d] \in Kinds

Sound(d) == Open(d) /\ Answered(d) /\ Accepted(d) /\ Settled(d)

IInv == Typed /\ \A d \in Delegates : Sound(d)

-----------------------------------------------------------------------------
(* Queues                                                                  *)

LEMMA QueueTypes ==
  ASSUME NEW S, NEW s \in Seq(S), NEW e \in S
  PROVE  /\ Append(s, e) \in Seq(S)
         /\ s # <<>> => Tail(s) \in Seq(S) /\ Head(s) \in S
  OBVIOUS

LEMMA Appended ==
  ASSUME NEW S, NEW s \in Seq(S), NEW e \in S, NEW i \in 1..Len(Append(s, e))
  PROVE  \/ i \in 1..Len(s) /\ Append(s, e)[i] = s[i]
         \/ i = Len(s) + 1 /\ Append(s, e)[i] = e
  OBVIOUS

LEMMA Behead ==
  ASSUME NEW S, NEW s \in Seq(S), s # <<>>
  PROVE  /\ 1 \in 1..Len(s) /\ Head(s) = s[1] /\ Len(s) \in Nat
         /\ \A i \in 1..Len(Tail(s)) :
              i + 1 \in 1..Len(s) /\ i + 1 # 1 /\ Tail(s)[i] = s[i + 1]
<1>1. Len(s) \in Nat /\ Len(s) >= 1 /\ Head(s) = s[1]
  BY EmptySeq
<1>2. Len(Tail(s)) = Len(s) - 1 /\ \A i \in 1..Len(Tail(s)) : Tail(s)[i] = s[i + 1]
  BY HeadTailProperties
<1> QED
  BY <1>1, <1>2

-----------------------------------------------------------------------------
(* Types                                                                   *)

LEMMA TypesInit == Init => Typed
  BY ReviewsAssumption DEF Init, Typed, TypeOK, Questions, NoQuestion

LEMMA HintsTyped ==
  ASSUME TypeOK, NEW d \in Delegates, NEW act \in {"extend", "hint", "terminate", "chat"},
         NEW n \in Questions \cup {NoQuestion}, Enqueue(d, act, n)
  PROVE  hints' \in [Delegates -> Seq(Answers)]
<1>1. hints \in [Delegates -> Seq(Answers)]
  BY DEF TypeOK
<1>2. [act |-> act, to |-> n] \in Answers
  BY DEF Answers
<1>3. Append(hints[d], [act |-> act, to |-> n]) \in Seq(Answers)
  BY <1>1, <1>2, QueueTypes
<1> QED
  BY <1>1, <1>3 DEF Enqueue

LEMMA RecordedTypes ==
  ASSUME TypeOK, NEW d \in Delegates, Recorded(d)
  PROVE  /\ guided' \in [Delegates -> {"never", "sent", "heeded"}]
         /\ episode' \in [Delegates -> {"closed", "open", "hinted"}]
         /\ unseen' \in [Delegates -> BOOLEAN]
<1>1. guided' \in [Delegates -> {"never", "sent", "heeded"}]
  BY DEF Recorded, TypeOK
<1>2. episode' \in [Delegates -> {"closed", "open", "hinted"}]
  BY DEF Recorded, TypeOK
<1> QED
  BY <1>1, <1>2 DEF Recorded, TypeOK

LEMMA InterveneTypes ==
  ASSUME TypeOK, NEW d \in Delegates, NEW decision \in Decisions,
         NEW n \in Questions \cup {NoQuestion}, Intervene(d, decision, n)
  PROVE  /\ hints' \in [Delegates -> Seq(Answers)]
         /\ state' \in [Delegates -> {"running", "done", "cancelled"}]
         /\ cancelling' \in SUBSET Delegates
         /\ reviews' \in SUBSET Delegates
         /\ guided' \in [Delegates -> {"never", "sent", "heeded"}]
         /\ episode' \in [Delegates -> {"closed", "open", "hinted"}]
         /\ unseen' \in [Delegates -> BOOLEAN]
<1>1. CASE decision = "terminate"
  <2>1. /\ state' = [state EXCEPT ![d] = "cancelled"] /\ cancelling' = cancelling \cup {d}
        /\ UNCHANGED <<hints, guided, episode, unseen>>
        /\ reviews' = reviews \/ reviews' = reviews \ {d}
    BY <1>1 DEF Intervene, gate
  <2> QED
    BY <2>1 DEF TypeOK
<1>2. CASE decision # "terminate"
  <2>1. Sent(decision) \in {"extend", "hint", "terminate", "chat"}
    BY <1>2 DEF Sent, Decisions
  <2>2. hints' \in [Delegates -> Seq(Answers)]
    BY <1>2, <2>1, HintsTyped DEF Intervene
  <2>3. /\ UNCHANGED <<state, cancelling>>
        /\ reviews' = reviews \/ reviews' = reviews \ {d}
        /\ Recorded(d) \/ UNCHANGED <<guided, episode, unseen>>
    BY <1>2 DEF Intervene, gate
  <2>4. /\ guided' \in [Delegates -> {"never", "sent", "heeded"}]
        /\ episode' \in [Delegates -> {"closed", "open", "hinted"}]
        /\ unseen' \in [Delegates -> BOOLEAN]
    <3>1. CASE Recorded(d)
      BY <3>1, RecordedTypes
    <3>2. CASE UNCHANGED <<guided, episode, unseen>>
      BY <3>2 DEF TypeOK
    <3> QED
      BY <2>3, <3>1, <3>2
  <2>5. state' \in [Delegates -> {"running", "done", "cancelled"}] /\ cancelling' \in SUBSET Delegates
    BY <2>3 DEF TypeOK
  <2>6. reviews' \in SUBSET Delegates
    BY <2>3 DEF TypeOK
  <2> QED
    BY <2>2, <2>4, <2>5, <2>6
<1> QED
  BY <1>1, <1>2

(* What the end of a wait leaves. *)
RunTyped ==
  /\ phase \in [Delegates -> {"working", "telling", "waiting", "closing", "over"}]
  /\ kind \in [Delegates -> Kinds \cup {"none"}]
  /\ exit \in [Delegates -> {"none", "task_complete", "orchestrator_terminated",
                             "limit", "cancelled"}]
  /\ state \in [Delegates -> {"running", "done", "cancelled"}]

NobodyElseAsks ==
  \A x \in Delegates : phase'[x] \in {"telling", "waiting"} =>
    phase'[x] = phase[x] /\ kind'[x] = kind[x]

LEMMA GoesOnTypes ==
  ASSUME TypeOK, NEW d \in Delegates, GoesOn(d)
  PROVE  RunTyped' /\ NobodyElseAsks
  BY DEF TypeOK, RunTyped, NobodyElseAsks, GoesOn

LEMMA ClosesTypes ==
  ASSUME TypeOK, NEW d \in Delegates,
         NEW reason \in {"task_complete", "orchestrator_terminated", "limit"},
         Closes(d, reason)
  PROVE  RunTyped' /\ NobodyElseAsks
  BY DEF TypeOK, RunTyped, NobodyElseAsks, Closes

LEMMA JudgedTypes ==
  ASSUME TypeOK, NEW d \in Delegates,
         NEW v \in {"none", "approved", "rejected", "mistaken", "extended",
                          "unanswered"},
         Judged(d, v) \/ UNCHANGED verdict
  PROVE  verdict' \in [Delegates ->
                         {"none", "approved", "rejected", "mistaken", "extended",
                          "unanswered"}]
  BY DEF TypeOK, Judged

LEMMA TypesNext ==
  ASSUME Typed, [Next]_vars
  PROVE  Typed'
<1> USE DEF Typed, TypeOK
<1>1. ASSUME NEW d \in Delegates, NEW k \in Kinds, Ask(d, k) PROVE Typed'
  <2>1. /\ asked' \in [Delegates -> 0..MaxQuestions]
        /\ \A x \in Delegates : x # d => asked'[x] = asked[x]
        /\ asked'[d] \in Questions
    BY <1>1, ReviewsAssumption DEF Ask, Questions
  <2>2. /\ reviewed' \in [Delegates -> BOOLEAN] /\ unseen' \in [Delegates -> BOOLEAN]
        /\ phase' \in [Delegates -> {"working", "telling", "waiting", "closing", "over"}]
        /\ kind' \in [Delegates -> Kinds \cup {"none"}]
    BY <1>1 DEF Ask
  <2>3. \A x \in Delegates : phase'[x] \in {"telling", "waiting"} =>
          asked'[x] \in Questions /\ kind'[x] \in Kinds
    BY <1>1, <2>1 DEF Ask
  <2> QED
    BY <1>1, <2>1, <2>2, <2>3 DEF Ask, bounds, history
<1>2. ASSUME NEW d \in Delegates, Sync(d) PROVE Typed'
  BY <1>2 DEF Sync, runVars, bounds, history
<1>3. ASSUME NEW d \in Delegates, Tell(d) PROVE Typed'
  <2>1. asked[d] \in Questions
    BY <1>3 DEF Tell, Runs
  <2>2. hints' \in [Delegates -> Seq(Answers)]
    <3>1. CASE UNCHANGED hints
      BY <3>1
    <3>2. CASE Enqueue(d, "extend", asked[d]) \/ Enqueue(d, "hint", asked[d])
      BY <3>2, <2>1, HintsTyped
    <3> QED
      BY <1>3, <3>1, <3>2 DEF Tell, Reaches
  <2>3. Question(d) \in Delegates \X Questions
    BY <2>1 DEF Question
  <2>4. /\ escalated' \in [Delegates -> BOOLEAN]
        /\ reviews' \in SUBSET Delegates
        /\ told' \in SUBSET (Delegates \X Questions)
        /\ episode' \in [Delegates -> {"closed", "open", "hinted"}]
    <3>1. CASE Reaches(d)
      BY <2>3, <3>1 DEF Reaches
    <3>2. CASE escalated' = [escalated EXCEPT ![d] = TRUE] /\ UNCHANGED <<reviews, told, episode>>
      BY <3>2
    <3>3. CASE UNCHANGED <<escalated, reviews, told, episode>>
      BY <3>3
    <3> QED
      BY <1>3, <3>1, <3>2, <3>3 DEF Tell
  <2>5. /\ phase' = [phase EXCEPT ![d] = "waiting"] /\ phase[d] = "telling"
        /\ UNCHANGED <<kind, asked, reviewed, exit, state, cancelling, guided, unseen,
                      unprompted, rewakes, verdict, taken, left>>
    BY <1>3 DEF Tell, Runs, bounds, history
  <2>6. phase' \in [Delegates -> {"working", "telling", "waiting", "closing", "over"}]
    BY <2>5
  <2>7. \A x \in Delegates : phase'[x] \in {"telling", "waiting"} =>
          phase[x] \in {"telling", "waiting"} /\ asked'[x] = asked[x] /\ kind'[x] = kind[x]
    BY <2>5
  <2>8. \A x \in Delegates : phase'[x] \in {"telling", "waiting"} =>
          asked'[x] \in Questions /\ kind'[x] \in Kinds
    BY <2>7
  <2>9. TypeOK'
    BY <2>2, <2>4, <2>5, <2>6
  <2> QED
    BY <2>8, <2>9
<1>4. ASSUME NEW d \in Delegates, Remind(d) PROVE Typed'
  <2>1. Question(d) \in Delegates \X Questions
    BY <1>4 DEF Remind, Runs, Question
  <2>2. /\ escalated' = [escalated EXCEPT ![d] = TRUE] /\ told' = told \cup {Question(d)}
        /\ UNCHANGED <<phase, kind, asked, reviewed, exit, hints, state, cancelling, reviews,
                      guided, episode, unseen, unprompted, rewakes, verdict, taken, left>>
    BY <1>4 DEF Remind, runVars, gate, bounds, history
  <2> QED
    BY <2>1, <2>2
<1>5. ASSUME NEW d \in Delegates, Take(d) PROVE Typed'
  <2>1. Tail(hints[d]) \in Seq(Answers) /\ Head(hints[d]) \in Answers
    BY <1>5, QueueTypes DEF Take
  <2>2. hints' \in [Delegates -> Seq(Answers)]
    BY <1>5, <2>1 DEF Take
  <2>3. PICK answer \in Answers :
          IF kind[d] = "review" THEN Reviewed(d, answer) ELSE Escalated(d, answer)
    BY <1>5, <2>1 DEF Take
  <2>h. /\ taken' \in [Delegates -> 0..MaxQuestions]
        /\ left' \in SUBSET (Delegates \X Questions)
    <3>1. Head(hints[d]).to \in 0..MaxQuestions
      BY <2>1, ReviewsAssumption DEF Answers, Questions, NoQuestion
    <3>2. Question(d) \in Delegates \X Questions
      BY <1>5 DEF Take, Runs, Question
    <3> QED
      BY <1>5, <3>1, <3>2 DEF Take
  <2>4. CASE kind[d] = "review"
    <3>1. \/ GoesOn(d) /\ \E v \in {"rejected", "mistaken", "extended"} : Judged(d, v)
          \/ Closes(d, "task_complete") /\ Judged(d, "approved")
          \/ UNCHANGED <<phase, kind, exit, state, verdict>>
      <4>1. answer.act \in {"extend", "hint", "terminate", "chat"}
        BY DEF Answers
      <4> QED
        BY <2>3, <2>4, <4>1 DEF Reviewed
    <3>2. RunTyped' /\ NobodyElseAsks
      <4>1. CASE GoesOn(d)
        BY <4>1, GoesOnTypes
      <4>2. CASE Closes(d, "task_complete")
        BY <4>2, ClosesTypes
      <4>3. CASE UNCHANGED <<phase, kind, exit, state>>
        BY <4>3 DEF RunTyped, NobodyElseAsks
      <4> QED
        BY <3>1, <4>1, <4>2, <4>3
    <3>3. verdict' \in [Delegates ->
                          {"none", "approved", "rejected", "mistaken", "extended",
                          "unanswered"}]
      <4>1. CASE \E v \in {"rejected", "mistaken", "extended"} : Judged(d, v)
        <5>1. PICK v \in {"rejected", "mistaken", "extended"} : Judged(d, v)
          BY <4>1
        <5>2. v \in {"none", "approved", "rejected", "mistaken", "extended", "unanswered"}
          BY <5>1
        <5> QED
          BY <5>1, <5>2, JudgedTypes
      <4>2. CASE Judged(d, "approved")
        BY <4>2, JudgedTypes
      <4>3. CASE UNCHANGED verdict
        BY <4>3
      <4> QED
        BY <3>1, <4>1, <4>2, <4>3
    <3>4. UNCHANGED <<asked, reviewed, escalated, cancelling, reviews, told, guided, episode,
                      unseen, unprompted, rewakes>>
      BY <1>5 DEF Take, gate, bounds
    <3>5. \A x \in Delegates : phase'[x] \in {"telling", "waiting"} =>
            asked'[x] \in Questions /\ kind'[x] \in Kinds
      BY <3>2, <3>4 DEF NobodyElseAsks
    <3>6. TypeOK'
      BY <2>2, <2>h, <3>2, <3>3, <3>4 DEF RunTyped
    <3> QED
      BY <3>5, <3>6
  <2>5. CASE kind[d] # "review"
    <3>1. /\ \/ Closes(d, "orchestrator_terminated")
             \/ GoesOn(d)
             \/ UNCHANGED <<phase, kind, exit, state>>
          /\ UNCHANGED verdict
      BY <2>3, <2>5 DEF Escalated
    <3>2. RunTyped' /\ NobodyElseAsks
      <4>1. CASE GoesOn(d)
        BY <4>1, GoesOnTypes
      <4>2. CASE Closes(d, "orchestrator_terminated")
        BY <4>2, ClosesTypes
      <4>3. CASE UNCHANGED <<phase, kind, exit, state>>
        BY <4>3 DEF RunTyped, NobodyElseAsks
      <4> QED
        BY <3>1, <4>1, <4>2, <4>3
    <3> QED
      BY <1>5, <2>2, <2>h, <3>1, <3>2 DEF Take, RunTyped, NobodyElseAsks, gate, bounds
  <2> QED
    BY <2>4, <2>5
<1>6. ASSUME NEW d \in Delegates, Expire(d) PROVE Typed'
  <2>1. /\ \/ Closes(d, "task_complete") /\ Judged(d, "unanswered")
           \/ Closes(d, "limit") /\ UNCHANGED verdict
           \/ GoesOn(d) /\ UNCHANGED verdict
        /\ left' \in SUBSET (Delegates \X Questions)
    <3>1. kind[d] \in Kinds
      BY <1>6 DEF Expire, Runs
    <3>2. \/ Closes(d, "task_complete") /\ Judged(d, "unanswered")
          \/ Closes(d, "limit") /\ UNCHANGED verdict
          \/ GoesOn(d) /\ UNCHANGED verdict
      BY <1>6, <3>1 DEF Expire, Kinds
    <3> QED
      BY <1>6, <3>2 DEF Expire, Leaves
  <2>2. RunTyped' /\ NobodyElseAsks
    BY <2>1, GoesOnTypes, ClosesTypes
  <2>3. verdict' \in [Delegates ->
                        {"none", "approved", "rejected", "mistaken", "extended",
                          "unanswered"}]
    BY <2>1, JudgedTypes
  <2>4. UNCHANGED <<asked, reviewed, hints, escalated, cancelling, reviews, told, guided,
                    episode, unseen, unprompted, rewakes, taken>>
    BY <1>6 DEF Expire, gate, bounds
  <2> QED
    BY <2>1, <2>2, <2>3, <2>4 DEF RunTyped, NobodyElseAsks
<1>7. ASSUME NEW d \in Delegates, Complete(d) PROVE Typed'
  BY <1>7 DEF Complete, Closes, gate, bounds, history
<1>8. ASSUME NEW d \in Delegates, Stop(d) PROVE Typed'
  BY <1>8 DEF Stop, Closes, Leaves, gate, bounds
<1>9. ASSUME NEW d \in Delegates, NoticeCancel(d) PROVE Typed'
  BY <1>9 DEF NoticeCancel, Leaves, gate, bounds
<1>10. ASSUME NEW d \in Delegates, Over(d) PROVE Typed'
  BY <1>10 DEF Over, ReviewsWithout, gate, bounds, history
<1>11. ASSUME NEW d \in Delegates, NEW n \in Questions, NEW decision \in Decisions,
              Answer(d, n, decision)
       PROVE  Typed'
  <2>1. CASE Intervene(d, decision, n)
    BY <1>11, <2>1, InterveneTypes DEF Answer, runVars, bounds, history
  <2>2. CASE UNCHANGED <<hints, state, cancelling, reviews, gate>>
    BY <1>11, <2>2 DEF Answer, runVars, bounds, gate, history
  <2> QED
    BY <1>11, <2>1, <2>2 DEF Answer
<1>12. ASSUME NEW d \in Delegates, NEW decision \in Decisions, Meddle(d, decision)
       PROVE  Typed'
  <2>1. unprompted' \in 0..MaxUnprompted
    BY <1>12, ReviewsAssumption DEF Meddle, Unasked
  <2>2. /\ Intervene(d, decision, NoQuestion)
        /\ UNCHANGED <<phase, kind, asked, reviewed, exit, escalated, told, rewakes, verdict,
                      taken, left>>
    BY <1>12 DEF Meddle, runVars, history
  <2> QED
    BY <2>1, <2>2, InterveneTypes
<1>13. ASSUME NEW d \in Delegates, Hint(d) PROVE Typed'
  <2>1. hints' \in [Delegates -> Seq(Answers)]
    <3>1. CASE UNCHANGED hints
      BY <3>1
    <3>2. CASE Enqueue(d, "chat", NoQuestion)
      BY <3>2, HintsTyped
    <3> QED
      BY <1>13, <3>1, <3>2 DEF Hint
  <2>2. unprompted' \in 0..MaxUnprompted
    BY <1>13, ReviewsAssumption DEF Hint, Unasked
  <2>3. /\ guided' \in [Delegates -> {"never", "sent", "heeded"}]
        /\ episode' \in [Delegates -> {"closed", "open", "hinted"}]
        /\ unseen' \in [Delegates -> BOOLEAN]
    BY <1>13, RecordedTypes DEF Hint
  <2> QED
    BY <1>13, <2>1, <2>2, <2>3 DEF Hint, Unasked, runVars, history
<1>14. ASSUME NEW d \in Delegates, Rewake(d) PROVE Typed'
  <2>1. hints' \in [Delegates -> Seq(Answers)]
    BY <1>14 DEF Rewake, FreshHints
  <2> QED
    <3>1. rewakes' \in 0..MaxRewakes
      BY <1>14, ReviewsAssumption DEF Rewake
    <3>2. taken' \in [Delegates -> 0..MaxQuestions]
      BY <1>14, ReviewsAssumption DEF Rewake, NoQuestion
    <3>3. /\ phase' = [phase EXCEPT ![d] = "working"]
          /\ reviewed' = [reviewed EXCEPT ![d] = FALSE]
          /\ state' = [state EXCEPT ![d] = "running"]
          /\ exit' = [exit EXCEPT ![d] = "none"]
          /\ verdict' = [verdict EXCEPT ![d] = "none"]
          /\ UNCHANGED <<kind, asked, escalated, cancelling, reviews, told, guided, episode,
                        unseen, unprompted, left>>
      BY <1>14 DEF Rewake, Judged, gate
    <3> QED
      BY <2>1, <3>1, <3>2, <3>3
<1>15. CASE UNCHANGED vars
  BY <1>15 DEF vars, runVars, gate, bounds, history
<1> QED
  BY <1>1, <1>2, <1>3, <1>4, <1>5, <1>6, <1>7, <1>8, <1>9, <1>10, <1>11, <1>12, <1>13, <1>14,
     <1>15
  DEF Next

(* The variables keep their types, whatever delegates, their team and the  *)
(* orchestrator do (loop.py, executor.py, delegate_manager.py).            *)
THEOREM ReviewTypes == Spec => []TypeOK
<1>1. Init => Typed
  BY TypesInit
<1>2. Typed /\ [Next]_vars => Typed'
  BY TypesNext
<1>3. Typed => TypeOK
  BY DEF Typed
<1> QED
  BY <1>1, <1>2, <1>3, PTL DEF Spec

-----------------------------------------------------------------------------
(* Answers and reviews                                                     *)

LEMMA SoundInit == Init => \A d \in Delegates : Sound(d)
<1> SUFFICES ASSUME Init, NEW d \in Delegates PROVE Sound(d)
  OBVIOUS
<1>1. /\ phase[d] = "working" /\ kind[d] = "none" /\ Len(hints[d]) = 0 /\ ~reviewed[d]
      /\ exit[d] = "none" /\ verdict[d] = "none" /\ d \notin reviews
      /\ \A n \in Questions : <<d, n>> \notin told \cup left
  BY DEF Init
<1> QED
  BY <1>1 DEF Sound, Open, Answered, Accepted, Settled

(* A step that leaves the run of a delegate and its queue alone, and at    *)
(* most answers a question of it or settles its review.                    *)
Aside(d) ==
  /\ phase'[d] = phase[d] /\ kind'[d] = kind[d] /\ asked'[d] = asked[d]
  /\ hints'[d] = hints[d] /\ reviewed'[d] = reviewed[d]
  /\ exit'[d] = exit[d] /\ verdict'[d] = verdict[d] /\ taken'[d] = taken[d]
  /\ d \in reviews' => d \in reviews
  /\ \A n : <<d, n>> \in told' => <<d, n>> \in told
  /\ \A n : <<d, n>> \in left' <=> <<d, n>> \in left

LEMMA AsideSound ==
  ASSUME NEW d \in Delegates, Aside(d), Sound(d)
  PROVE  Sound(d)'
<1>1. Open(d)'
  BY DEF Aside, Sound, Open, Question
<1>2. Answered(d)'
  BY DEF Aside, Sound, Answered
<1>3. Accepted(d)'
  BY DEF Aside, Sound, Accepted, Stray
<1>4. Settled(d)'
  BY DEF Aside, Sound, Settled
<1> QED
  BY <1>1, <1>2, <1>3, <1>4 DEF Sound

(* What may be put into a queue: an answer to a question that is open and  *)
(* has none, or something that nobody asked for.                           *)
Queueable(d, e) ==
  \/ e.to = NoQuestion
  \/ /\ e.to \in Questions /\ e.to <= asked[d]
     /\ <<d, e.to>> \notin told'
     /\ \A i \in 1..Len(hints[d]) : hints[d][i].to # e.to
     /\ phase'[d] \in {"working", "telling", "waiting"} =>
          <<d, e.to>> \in left \/ (phase'[d] = "waiting" /\ e.to = asked[d])

LEMMA QueuedAnswered ==
  ASSUME Typed, NEW d \in Delegates, Answered(d), NEW e \in Answers, Queueable(d, e),
         hints'[d] = Append(hints[d], e), asked' = asked, left' = left,
         \A n : <<d, n>> \in told' => <<d, n>> \in told,
         phase'[d] = phase[d] \/ (phase[d] = "telling" /\ phase'[d] = "waiting")
  PROVE  Answered(d)'
<1> DEFINE q == hints[d]
           r == hints'[d]
<1>1. q \in Seq(Answers) /\ Len(q) \in Nat
  BY DEF Typed, TypeOK
<1>2. \A i \in 1..Len(r) : \/ i \in 1..Len(q) /\ r[i] = q[i]
                           \/ i = Len(q) + 1 /\ r[i] = e
  BY <1>1, Appended
<1>3. ASSUME NEW i \in 1..Len(r), r[i].to # NoQuestion
      PROVE  /\ r[i].to <= asked'[d] /\ <<d, r[i].to>> \notin told'
             /\ phase'[d] \in {"working", "telling", "waiting"} =>
                  \/ <<d, r[i].to>> \in left'
                  \/ phase'[d] = "waiting" /\ r[i].to = asked'[d]
  <2>1. CASE i \in 1..Len(q) /\ r[i] = q[i]
    BY <1>3, <2>1 DEF Answered
  <2>2. CASE i = Len(q) + 1 /\ r[i] = e
    BY <1>3, <2>2 DEF Queueable
  <2> QED
    BY <1>2, <2>1, <2>2
<1>4. ASSUME NEW i \in 1..Len(r), NEW j \in 1..Len(r), r[i].to = r[j].to,
             r[i].to # NoQuestion
      PROVE  i = j
  <2>1. CASE i \in 1..Len(q) /\ r[i] = q[i] /\ j \in 1..Len(q) /\ r[j] = q[j]
    BY <1>4, <2>1 DEF Answered
  <2>2. CASE i = Len(q) + 1 /\ j = Len(q) + 1
    BY <2>2
  <2>3. CASE \/ i \in 1..Len(q) /\ r[i] = q[i] /\ r[j] = e
             \/ j \in 1..Len(q) /\ r[j] = q[j] /\ r[i] = e
    BY <1>4, <2>3 DEF Queueable
  <2> QED
    BY <1>2, <2>1, <2>2, <2>3
<1> QED
  BY <1>3, <1>4 DEF Answered

(* A decision, for an open question or for none.                           *)
LEMMA InterveneSound ==
  ASSUME Typed, NEW d \in Delegates, Sound(d), NEW decision \in Decisions,
         NEW n \in Questions \cup {NoQuestion}, Intervene(d, decision, n),
         UNCHANGED <<phase, kind, asked, reviewed, exit, verdict, taken, left>>,
         told' = told \ {<<d, n>>}, n = NoQuestion \/ <<d, n>> \in told
  PROVE  Sound(d)'
<1> USE DEF Typed, TypeOK
<1>1. CASE decision = "terminate"
  <2>1. hints' = hints /\ (d \in reviews' => d \in reviews)
    BY <1>1 DEF Intervene
  <2> QED
    BY <2>1, AsideSound DEF Aside
<1>2. CASE decision # "terminate"
  <2> DEFINE e == [act |-> Sent(decision), to |-> n]
  <2>1. /\ e \in Answers /\ e.to = n
        /\ e.act = "hint" => decision = "hint"
    BY <1>2 DEF Answers, Sent, Decisions
  <2>2. hints'[d] = Append(hints[d], e)
    BY <1>2 DEF Intervene, Enqueue
  <2>3. /\ d \in reviews' => d \in reviews
        /\ decision = "hint" => d \notin reviews'
    BY <1>2 DEF Intervene, Settles
  <2> HIDE DEF e
  <2>4. Open(d)'
    BY DEF Sound, Open, Question
  <2>5. Queueable(d, e)
    <3>1. CASE n = NoQuestion
      BY <2>1, <3>1 DEF Queueable
    <3>2. CASE n \in Questions /\ <<d, n>> \in told
      <4>1. n <= asked[d] /\ (<<d, n>> \in left \/ (n = asked[d] /\ phase[d] = "waiting"))
        BY <3>2 DEF Sound, Open
      <4>2. n # NoQuestion
        BY <3>2 DEF Questions, NoQuestion
      <4>3. \A i \in 1..Len(hints[d]) : hints[d][i].to # n
        BY <3>2, <4>2 DEF Sound, Answered
      <4> QED
        BY <2>1, <3>2, <4>1, <4>3 DEF Queueable
    <3> QED
      BY <3>1, <3>2
  <2>6. Answered(d)'
    BY <2>1, <2>2, <2>5, QueuedAnswered DEF Sound
  <2>7. Accepted(d)'
    BY DEF Sound, Accepted, Stray
  <2>8. Settled(d)'
    <3>1. hints[d] \in Seq(Answers)
      OBVIOUS
    <3>2. \A i \in 1..Len(hints'[d]) : \/ i \in 1..Len(hints[d]) /\ hints'[d][i] = hints[d][i]
                                       \/ hints'[d][i] = e
      BY <2>1, <2>2, <3>1, Appended
    <3>3. ASSUME phase[d] = "waiting", kind[d] = "review", NEW i \in 1..Len(hints'[d]),
                 hints'[d][i].act = "hint", hints'[d][i].to = asked[d]
          PROVE  d \notin reviews'
      BY <2>1, <2>3, <3>2, <3>3 DEF Sound, Settled
    <3> QED
      BY <2>3, <3>3 DEF Sound, Settled
  <2> QED
    BY <2>4, <2>6, <2>7, <2>8 DEF Sound
<1> QED
  BY <1>1, <1>2

LEMMA AnswerSound ==
  ASSUME Typed, NEW d \in Delegates, Sound(d), NEW n \in Questions, NEW decision \in Decisions,
         Answer(d, n, decision)
  PROVE  Sound(d)'
<1>1. /\ UNCHANGED <<phase, kind, asked, reviewed, exit, verdict, taken, left>>
      /\ told' = told \ {<<d, n>>} /\ <<d, n>> \in told
      /\ Intervene(d, decision, n) \/ UNCHANGED <<hints, reviews>>
  BY DEF Answer, runVars, history
<1>2. CASE UNCHANGED <<hints, reviews>>
  BY <1>1, <1>2, AsideSound DEF Aside
<1>3. CASE Intervene(d, decision, n)
  BY <1>1, <1>3, InterveneSound
<1> QED
  BY <1>1, <1>2, <1>3

(* What nobody asked for. *)
LEMMA UnaskedSound ==
  ASSUME Typed, NEW d \in Delegates, Sound(d),
         Hint(d) \/ \E decision \in Decisions : Meddle(d, decision)
  PROVE  Sound(d)'
<1> USE DEF Typed, TypeOK
<1>1. UNCHANGED <<phase, kind, asked, reviewed, exit, verdict, taken, left, told>>
  BY DEF Hint, Meddle, runVars, history
<1>2. ASSUME NEW decision \in Decisions, Meddle(d, decision) PROVE Sound(d)'
  <2>1. Intervene(d, decision, NoQuestion)
    BY <1>2 DEF Meddle
  <2>2. told' = told \ {<<d, NoQuestion>>}
    BY <1>1 DEF Questions, NoQuestion
  <2> QED
    BY <1>1, <2>1, <2>2, InterveneSound
<1>3. CASE Hint(d)
  <2>1. reviews' = reviews /\ (UNCHANGED hints \/ Enqueue(d, "chat", NoQuestion))
    BY <1>3 DEF Hint
  <2>2. CASE UNCHANGED hints
    BY <1>1, <2>1, <2>2, AsideSound DEF Aside
  <2>3. CASE Enqueue(d, "chat", NoQuestion)
    <3> DEFINE e == [act |-> "chat", to |-> NoQuestion]
    <3>1. e \in Answers /\ e.act = "chat" /\ e.to = NoQuestion
      BY DEF Answers
    <3>2. hints'[d] = Append(hints[d], e)
      BY <2>3 DEF Enqueue
    <3> HIDE DEF e
    <3>3. Answered(d)'
      BY <1>1, <3>1, <3>2, QueuedAnswered DEF Sound, Queueable
    <3>4. Open(d)' /\ Accepted(d)'
      BY <1>1 DEF Sound, Open, Accepted, Stray, Question
    <3>5. hints[d] \in Seq(Answers)
      OBVIOUS
    <3>6. \A i \in 1..Len(hints'[d]) : \/ i \in 1..Len(hints[d]) /\ hints'[d][i] = hints[d][i]
                                       \/ hints'[d][i] = e
      BY <3>1, <3>2, <3>5, Appended
    <3>7. Settled(d)'
      <4>1. \A i \in 1..Len(hints'[d]) : hints'[d][i].act = "hint" =>
              i \in 1..Len(hints[d]) /\ hints'[d][i] = hints[d][i]
        BY <3>1, <3>6
      <4> QED
        BY <1>1, <2>1, <4>1 DEF Sound, Settled
    <3> QED
      BY <3>3, <3>4, <3>7 DEF Sound
  <2> QED
    BY <2>1, <2>2, <2>3
<1> QED
  BY <1>2, <1>3

(* A question that is told, extended or hinted at was neither told nor     *)
(* answered before.                                                        *)
LEMMA TellSound ==
  ASSUME Typed, NEW d \in Delegates, Sound(d), Tell(d)
  PROVE  Sound(d)'
<1> USE DEF Typed, TypeOK
<1>1. /\ phase[d] = "telling" /\ phase'[d] = "waiting" /\ kind' = kind /\ asked' = asked
      /\ reviewed' = reviewed /\ exit' = exit /\ verdict' = verdict /\ taken' = taken
      /\ left' = left /\ asked[d] \in Questions
  BY DEF Tell, Runs, history
<1>2. <<d, asked[d]>> \notin told /\ <<d, asked[d]>> \notin left
  BY <1>1 DEF Sound, Open, Question
<1>3. asked[d] # NoQuestion
  BY <1>1 DEF Questions, NoQuestion
<1>4. \A i \in 1..Len(hints[d]) : hints[d][i].to # asked[d]
  BY <1>1, <1>2, <1>3 DEF Sound, Answered
<1>5. CASE Reaches(d)
  <2>1. /\ hints' = hints /\ told' = told \cup {<<d, asked[d]>>}
        /\ d \in reviews' => kind[d] = "review"
    BY <1>5 DEF Reaches, Question
  <2>2. Open(d)'
    BY <1>1, <2>1 DEF Sound, Open
  <2>3. Answered(d)'
    BY <1>1, <1>4, <2>1 DEF Sound, Answered
  <2>4. Accepted(d)'
    BY <1>1 DEF Sound, Accepted
  <2>5. Settled(d)'
    BY <1>1, <1>4, <2>1 DEF Sound, Settled
  <2> QED
    BY <2>2, <2>3, <2>4, <2>5 DEF Sound
<1>6. ASSUME NEW act \in {"extend", "hint"}, Enqueue(d, act, asked[d]),
             kind[d] # "review", UNCHANGED <<reviews, told>>
      PROVE  Sound(d)'
  <2> DEFINE e == [act |-> act, to |-> asked[d]]
  <2>1. e \in Answers /\ e.act = act /\ e.to = asked[d]
    BY <1>1 DEF Answers
  <2>2. hints'[d] = Append(hints[d], e)
    BY <1>6 DEF Enqueue
  <2> HIDE DEF e
  <2>3. Queueable(d, e)
    BY <1>1, <1>2, <1>4, <1>6, <2>1 DEF Queueable
  <2>4. Answered(d)'
    BY <1>1, <1>6, <2>1, <2>2, <2>3, QueuedAnswered DEF Sound
  <2>5. Open(d)'
    BY <1>1, <1>6 DEF Sound, Open
  <2>6. Accepted(d)'
    BY <1>1 DEF Sound, Accepted
  <2>7. Settled(d)'
    BY <1>1, <1>6 DEF Sound, Settled
  <2> QED
    BY <2>4, <2>5, <2>6, <2>7 DEF Sound
<1> QED
  BY <1>5, <1>6 DEF Tell, Automatic

(* An answer that is taken is to the question that waits, or astray; then  *)
(* the question is left.                                                   *)
LEMMA TakeSound ==
  ASSUME Typed, NEW d \in Delegates, Sound(d), Take(d)
  PROVE  Sound(d)'
<1> USE DEF Typed, TypeOK
<1> DEFINE a == hints[d][1]
           q == hints'[d]
<1>1. /\ phase[d] = "waiting" /\ hints[d] # <<>> /\ q = Tail(hints[d])
      /\ asked' = asked /\ reviewed' = reviewed /\ reviews' = reviews /\ told' = told
      /\ asked[d] \in Questions
  BY DEF Take, Runs
<1>2. /\ 1 \in 1..Len(hints[d]) /\ Head(hints[d]) = a
      /\ \A i \in 1..Len(q) : i + 1 \in 1..Len(hints[d]) /\ i + 1 # 1 /\ q[i] = hints[d][i + 1]
  BY <1>1, Behead
<1>3. a \in Answers /\ a.act \in {"extend", "hint", "terminate", "chat"}
  <2>1. a \in Answers
    BY <1>1, <1>2, QueueTypes
  <2> QED
    BY <2>1 DEF Answers
<1>4. /\ taken'[d] = IF a.act = "terminate" THEN a.to ELSE taken[d]
      /\ left' = IF Own(d, a) \/ StaysAfter(d, a) THEN left ELSE left \cup {<<d, asked[d]>>}
  BY <1>2 DEF Take, Question
<1>h. HIDE DEF q
<1>5. \/ /\ kind[d] = "review" /\ a.act = "hint"
         /\ phase'[d] = "working" /\ kind'[d] = "none" /\ exit'[d] = exit[d]
         /\ verdict'[d] \in {"rejected", "mistaken"}
         /\ a.to # asked[d] => verdict'[d] = "mistaken"
      \/ /\ kind[d] = "review" /\ a.act = "extend"
         /\ phase'[d] = "working" /\ kind'[d] = "none" /\ exit'[d] = exit[d]
         /\ verdict'[d] = "extended"
      \/ /\ kind[d] = "review" /\ a.act = "terminate"
         /\ phase'[d] = "closing" /\ kind'[d] = "none" /\ exit'[d] = "task_complete"
         /\ verdict'[d] = "approved"
      \/ /\ kind[d] # "review" /\ a.act = "terminate"
         /\ phase'[d] = "closing" /\ kind'[d] = "none" /\ exit'[d] = "orchestrator_terminated"
         /\ verdict'[d] = verdict[d]
      \/ /\ kind[d] # "review" /\ a.act # "terminate" /\ ~StaysAfter(d, a)
         /\ phase'[d] = "working" /\ kind'[d] = "none" /\ exit'[d] = exit[d]
         /\ verdict'[d] = verdict[d]
      \/ /\ StaysAfter(d, a) /\ a.act # "terminate"
         /\ phase'[d] = phase[d] /\ kind'[d] = kind[d] /\ exit'[d] = exit[d]
         /\ verdict'[d] = verdict[d]
  <2>1. CASE kind[d] = "review"
    <3>1. Reviewed(d, a)
      BY <1>2, <2>1 DEF Take
    <3>2. \/ /\ a.act = "hint" /\ GoesOn(d)
             /\ Judged(d, IF Own(d, a) THEN "rejected" ELSE "mistaken")
          \/ a.act = "extend" /\ GoesOn(d) /\ Judged(d, "extended")
          \/ a.act = "terminate" /\ Closes(d, "task_complete") /\ Judged(d, "approved")
          \/ a.act = "chat" /\ UNCHANGED <<phase, kind, exit, verdict>>
      BY <1>3, <3>1 DEF Reviewed
    <3> QED
      BY <2>1, <3>2 DEF GoesOn, Closes, Judged, Own, StaysAfter
  <2>2. CASE kind[d] # "review"
    <3>1. Escalated(d, a)
      BY <1>2, <2>2 DEF Take
    <3>2. kind[d] \in {"limit", "help"}
      BY <1>1, <2>2 DEF Kinds
    <3> QED
      BY <2>2, <3>1, <3>2 DEF Escalated, GoesOn, Closes, StaysAfter
  <2> QED
    BY <2>1, <2>2
<1>6. a.to = asked[d] \/ Stray(d, a.to)
  BY <1>1, <1>2 DEF Sound, Answered, Stray
<1>7. \/ phase'[d] = "waiting" /\ left' = left
      \/ phase'[d] \in {"working", "closing"} /\ a.to = asked[d] /\ left' = left
      \/ phase'[d] \in {"working", "closing"} /\ left' = left \cup {<<d, asked[d]>>}
  BY <1>1, <1>4, <1>5 DEF Own, StaysAfter
<1>8. asked[d] # NoQuestion
  BY <1>1 DEF Questions, NoQuestion
<1>9. Open(d)'
  <2>1. a.to = asked[d] => <<d, asked[d]>> \notin told
    BY <1>2, <1>8 DEF Sound, Answered
  <2>2. asked[d] <= asked[d]
    BY <1>1 DEF Questions
  <2>3. \A n \in Questions : <<d, n>> \in left' => <<d, n>> \in left \/ n = asked[d]
    BY <1>7
  <2>4. \A n \in Questions : <<d, n>> \in left => <<d, n>> \in left'
    BY <1>7
  <2>5. <<d, asked[d]>> \in told => phase'[d] = "waiting" \/ <<d, asked[d]>> \in left'
    BY <1>7, <2>1
  <2>6. phase'[d] # "telling"
    BY <1>7
  <2>7. \A n \in Questions : <<d, n>> \in told' \cup left' => n <= asked'[d]
    BY <1>1, <2>2, <2>3 DEF Sound, Open
  <2>8. \A n \in Questions : <<d, n>> \in told' =>
          <<d, n>> \in left' \/ (n = asked'[d] /\ phase'[d] = "waiting")
    BY <1>1, <2>4, <2>5 DEF Sound, Open
  <2> QED
    BY <2>6, <2>7, <2>8 DEF Open
<1>10. Answered(d)'
  <2>1. ASSUME NEW i \in 1..Len(q), q[i].to # NoQuestion
        PROVE  /\ q[i].to <= asked[d] /\ <<d, q[i].to>> \notin told
               /\ \/ <<d, q[i].to>> \in left'
                  \/ phase'[d] = "waiting" /\ q[i].to = asked[d]
                  \/ phase'[d] \notin {"working", "telling", "waiting"}
    <3>1. /\ q[i].to <= asked[d] /\ <<d, q[i].to>> \notin told
          /\ <<d, q[i].to>> \in left \/ q[i].to = asked[d]
          /\ a.to # q[i].to
      BY <1>1, <1>2, <2>1 DEF Sound, Answered
    <3> QED
      BY <1>7, <3>1
  <2>2. ASSUME NEW i \in 1..Len(q), NEW j \in 1..Len(q), q[i].to = q[j].to,
               q[i].to # NoQuestion
        PROVE  i = j
    <3>1. /\ i + 1 \in 1..Len(hints[d]) /\ j + 1 \in 1..Len(hints[d])
          /\ q[i] = hints[d][i + 1] /\ q[j] = hints[d][j + 1]
      BY <1>2
    <3>2. i + 1 = j + 1
      BY <2>2, <3>1 DEF Sound, Answered
    <3> QED
      BY <3>2
  <2> QED
    BY <1>1, <2>1, <2>2 DEF Answered, q
<1>11. Accepted(d)'
  <2>1. a.act = "terminate" =>
          taken'[d] \in {asked[d], NoQuestion} \/ <<d, taken'[d]>> \in left'
    <3>1. \A n : <<d, n>> \in left => <<d, n>> \in left'
      BY <1>7
    <3> QED
      BY <1>4, <1>6, <3>1 DEF Stray
  <2>2. /\ exit[d] # "orchestrator_terminated" /\ verdict[d] # "approved"
    BY <1>1 DEF Sound, Accepted
  <2>3. /\ verdict[d] # "none" => reviewed[d]
        /\ kind[d] = "review" => reviewed[d] /\ verdict[d] = "none"
        /\ reviewed[d] /\ verdict[d] = "none" => kind[d] = "review"
        /\ exit[d] = "task_complete" => verdict[d] # "none"
    BY <1>1 DEF Sound, Accepted
  <2>4. a.act = "terminate" =>
          taken'[d] \in {asked'[d], NoQuestion} \/ <<d, taken'[d]>> \in left'
    BY <1>1, <2>1
  <2>5. reviewed'[d] = reviewed[d]
    BY <1>1
  <2> QED
    BY <1>1, <1>5, <2>2, <2>3, <2>4, <2>5 DEF Accepted, Stray
<1>12. Settled(d)'
  <2>1. kind[d] = "review" /\ a.act = "hint" /\ a.to = asked[d] => d \notin reviews
    BY <1>1, <1>2 DEF Sound, Settled
  <2>2. phase'[d] = "waiting" /\ kind'[d] = "review" =>
          \A i \in 1..Len(q) : q[i].act = "hint" /\ q[i].to = asked[d] => d \notin reviews
    <3>1. phase'[d] = "waiting" => kind'[d] = kind[d]
      BY <1>5
    <3> QED
      BY <1>1, <1>2, <3>1 DEF Sound, Settled
  <2> QED
    BY <1>1, <1>5, <2>1, <2>2 DEF Sound, Settled, q
<1> QED
  BY <1>9, <1>10, <1>11, <1>12 DEF Sound

(* A run that goes on or ends without an answer leaves its question to the *)
(* orchestrator.                                                           *)
LEMMA LeavesSound ==
  ASSUME Typed, NEW d \in Delegates, Open(d), Answered(d), Leaves(d),
         hints' = hints, asked' = asked, told' = told,
         phase'[d] = "closing" \/ (phase'[d] = "working" /\ hints[d] = <<>>)
  PROVE  /\ Open(d)' /\ Answered(d)'
         /\ \A n : <<d, n>> \in left => <<d, n>> \in left'
<1> USE DEF Typed, TypeOK
<1>1. /\ left' = left \/ left' = left \cup {<<d, asked[d]>>}
      /\ <<d, asked[d]>> \in told => <<d, asked[d]>> \in left'
      /\ <<d, asked[d]>> \in left' => <<d, asked[d]>> \in told \cup left
  BY DEF Leaves, Question
<1>2. Open(d)'
  BY <1>1 DEF Open
<1>3. Answered(d)'
  <2>1. CASE phase'[d] = "closing"
    BY <2>1 DEF Answered
  <2>2. CASE hints[d] = <<>>
    <3>1. Len(hints'[d]) = 0
      BY <2>2
    <3> QED
      BY <3>1 DEF Answered
  <2> QED
    BY <2>1, <2>2
<1> QED
  BY <1>1, <1>2, <1>3

(* The other steps. *)
LEMMA SoundStep ==
  ASSUME Typed, NEW d \in Delegates, Sound(d),
         \/ \E k \in Kinds : Ask(d, k)
         \/ Sync(d) \/ Remind(d) \/ Expire(d) \/ Complete(d) \/ Stop(d)
         \/ NoticeCancel(d) \/ Over(d) \/ Rewake(d)
  PROVE  Sound(d)'
<1> USE DEF Typed, TypeOK
<1>1. ASSUME NEW k \in Kinds, Ask(d, k) PROVE Sound(d)'
  <2>1. /\ phase[d] = "working" /\ phase'[d] = "telling" /\ kind'[d] = k
        /\ k = "review" => ~reviewed[d]
        /\ asked'[d] = asked[d] + 1
        /\ hints' = hints /\ exit' = exit /\ verdict' = verdict /\ taken' = taken
        /\ left' = left /\ reviews' = reviews /\ told' = told
    BY <1>1 DEF Ask, Runs, MustReview, history
  <2>2. reviewed'[d] <=> reviewed[d] \/ k = "review"
    BY <1>1 DEF Ask
  <2>3. asked[d] \in Nat
    OBVIOUS
  <2>4. Open(d)'
    <3>1. \A n \in Questions : n \in Nat
      BY DEF Questions
    <3> QED
      BY <2>1, <2>3, <3>1 DEF Sound, Open, Question
  <2>5. Answered(d)'
    <3>1. \A i \in 1..Len(hints[d]) : hints[d][i].to \in Nat
      <4>1. \A i \in 1..Len(hints[d]) : hints[d][i] \in Answers
        <5>1. hints[d] \in Seq(Answers)
          OBVIOUS
        <5> QED
          BY <5>1
      <4>2. \A e \in Answers : e.to \in Nat
        BY DEF Answers, Questions, NoQuestion
      <4> QED
        BY <4>1, <4>2
    <3>2. \A i \in 1..Len(hints[d]) : hints[d][i].to # NoQuestion =>
            /\ hints[d][i].to <= asked'[d]
            /\ <<d, hints[d][i].to>> \notin told'
            /\ <<d, hints[d][i].to>> \in left'
      <4>1. ASSUME NEW i \in 1..Len(hints[d]), hints[d][i].to # NoQuestion
            PROVE  /\ hints[d][i].to <= asked[d] /\ <<d, hints[d][i].to>> \notin told
                   /\ <<d, hints[d][i].to>> \in left
        BY <2>1, <4>1 DEF Sound, Answered
      <4>2. \A n \in Nat : n <= asked[d] => n <= asked'[d]
        BY <2>1, <2>3
      <4> QED
        BY <2>1, <3>1, <4>1, <4>2
    <3> QED
      BY <2>1, <3>2 DEF Sound, Answered
  <2>6. Accepted(d)'
    BY <2>1, <2>2 DEF Sound, Accepted
  <2>7. Settled(d)'
    BY <2>1 DEF Sound, Settled
  <2> QED
    BY <2>4, <2>5, <2>6, <2>7 DEF Sound
<1>2. CASE Sync(d)
  BY <1>2, AsideSound DEF Sync, runVars, history, Aside
<1>3. CASE Remind(d)
  <2>1. /\ phase[d] = "waiting" /\ told' = told \cup {<<d, asked[d]>>} /\ Len(hints[d]) = 0
        /\ UNCHANGED <<phase, kind, asked, reviewed, exit, hints, reviews, verdict, taken, left>>
    BY <1>3 DEF Remind, Runs, runVars, history, Question
  <2>2. Open(d)'
    BY <2>1 DEF Sound, Open, Question
  <2>3. Answered(d)'
    BY <2>1 DEF Answered
  <2>s. Settled(d)'
    BY <2>1 DEF Sound, Settled
  <2>4. Accepted(d)'
    BY <2>1 DEF Sound, Accepted, Stray
  <2> QED
    BY <2>2, <2>3, <2>s, <2>4 DEF Sound
<1>4. CASE Expire(d)
  <2>1. /\ phase[d] = "waiting" /\ hints[d] = <<>> /\ hints' = hints /\ Leaves(d)
        /\ kind[d] \in Kinds
        /\ UNCHANGED <<asked, reviewed, reviews, told, taken>>
    BY <1>4 DEF Expire, Runs, GivesUp
  <2>2. /\ kind'[d] = "none"
        /\ \/ /\ kind[d] = "review" /\ phase'[d] = "closing" /\ exit'[d] = "task_complete"
              /\ verdict'[d] = "unanswered"
           \/ /\ kind[d] = "limit" /\ phase'[d] = "closing" /\ exit'[d] = "limit"
              /\ verdict'[d] = verdict[d]
           \/ /\ kind[d] = "help" /\ phase'[d] = "working" /\ exit'[d] = exit[d]
              /\ verdict'[d] = verdict[d]
    <3>1. CASE kind[d] = "review"
      BY <1>4, <3>1 DEF Expire, Closes, Judged
    <3>2. CASE kind[d] = "limit"
      BY <1>4, <3>2 DEF Expire, Closes
    <3>3. CASE kind[d] = "help"
      BY <1>4, <3>3 DEF Expire, GoesOn
    <3> QED
      BY <2>1, <3>1, <3>2, <3>3 DEF Kinds
  <2>3. Open(d)' /\ Answered(d)'
    BY <2>1, <2>2, LeavesSound DEF Sound
  <2>4. Accepted(d)'
    BY <2>1, <2>2 DEF Sound, Accepted
  <2>5. Settled(d)'
    BY <2>1, <2>2 DEF Sound, Settled
  <2> QED
    BY <2>3, <2>4, <2>5 DEF Sound
<1>5. CASE Complete(d)
  <2>1. /\ phase[d] = "working" /\ reviewed[d]
        /\ phase'[d] = "closing" /\ kind'[d] = "none" /\ exit'[d] = "task_complete"
        /\ UNCHANGED <<hints, asked, reviewed, told, reviews, verdict, taken, left>>
    BY <1>5 DEF Complete, Closes, Runs, MustReview, history
  <2>2. Open(d)'
    BY <2>1 DEF Sound, Open
  <2>3. Answered(d)'
    BY <2>1 DEF Sound, Answered
  <2>4. Accepted(d)'
    BY <2>1 DEF Sound, Accepted
  <2>5. Settled(d)'
    BY <2>1 DEF Sound, Settled
  <2> QED
    BY <2>2, <2>3, <2>4, <2>5 DEF Sound
<1>6. CASE Stop(d) \/ NoticeCancel(d)
  <2>1. /\ phase'[d] = "closing" /\ kind'[d] = "none" /\ exit'[d] \in {"limit", "cancelled"}
        /\ UNCHANGED <<hints, asked, reviewed, told, reviews, verdict, taken>> /\ Leaves(d)
    <3>1. CASE Stop(d)
      BY <3>1 DEF Stop, Closes
    <3>2. CASE NoticeCancel(d)
      BY <3>2 DEF NoticeCancel
    <3> QED
      BY <1>6, <3>1, <3>2
  <2>2. Open(d)' /\ Answered(d)' /\ \A n : <<d, n>> \in left => <<d, n>> \in left'
    BY <2>1, LeavesSound DEF Sound
  <2>3. Accepted(d)'
    BY <2>1, <2>2 DEF Sound, Accepted, Stray
  <2>4. Settled(d)'
    BY <2>1 DEF Sound, Settled
  <2> QED
    BY <2>2, <2>3, <2>4 DEF Sound
<1>7. CASE Over(d)
  <2>1. /\ phase[d] = "closing" /\ phase'[d] = "over" /\ d \notin reviews'
        /\ UNCHANGED <<kind, hints, asked, reviewed, exit, told, verdict, taken, left>>
    BY <1>7 DEF Over, ReviewsWithout, history
  <2>2. Open(d)'
    BY <2>1 DEF Sound, Open
  <2>3. Answered(d)'
    BY <2>1 DEF Sound, Answered
  <2>4. Accepted(d)'
    BY <2>1 DEF Sound, Accepted, Stray
  <2>5. Settled(d)'
    BY <2>1 DEF Sound, Settled
  <2> QED
    BY <2>2, <2>3, <2>4, <2>5 DEF Sound
<1>8. CASE Rewake(d)
  <2>1. /\ phase[d] = "over" /\ phase'[d] = "working" /\ Len(hints'[d]) = 0 /\ ~reviewed'[d]
        /\ exit'[d] = "none" /\ verdict'[d] = "none"
        /\ UNCHANGED <<kind, asked, reviews, told, left>>
    BY <1>8 DEF Rewake, FreshHints, Judged
  <2>2. d \notin reviews /\ kind[d] = "none"
    BY <2>1 DEF Sound, Settled
  <2>3. Open(d)'
    BY <2>1 DEF Sound, Open
  <2>4. Answered(d)'
    BY <2>1 DEF Answered
  <2>5. Accepted(d)' /\ Settled(d)'
    BY <2>1, <2>2 DEF Accepted, Settled
  <2> QED
    BY <2>3, <2>4, <2>5 DEF Sound
<1> QED
  BY <1>1, <1>2, <1>3, <1>4, <1>5, <1>6, <1>7, <1>8

Step(d) ==
  \/ \E k \in Kinds : Ask(d, k)
  \/ Sync(d) \/ Tell(d) \/ Remind(d) \/ Take(d) \/ Expire(d)
  \/ Complete(d) \/ Stop(d) \/ NoticeCancel(d) \/ Over(d)
  \/ \E n \in Questions, decision \in Decisions : Answer(d, n, decision)
  \/ \E decision \in Decisions : Meddle(d, decision)
  \/ Hint(d) \/ Rewake(d)

(* A delegate is not touched by what happens to another. *)
LEMMA OthersAside ==
  ASSUME Typed, NEW d \in Delegates, NEW x \in Delegates \ {d}, Step(d)
  PROVE  Aside(x)
<1> USE DEF Typed, TypeOK
<1>1. ASSUME NEW reason, Closes(d, reason)
      PROVE  phase'[x] = phase[x] /\ kind'[x] = kind[x] /\ exit'[x] = exit[x]
  BY <1>1 DEF Closes
<1>2. ASSUME GoesOn(d)
      PROVE  phase'[x] = phase[x] /\ kind'[x] = kind[x] /\ exit'[x] = exit[x]
  BY <1>2 DEF GoesOn
<1>3. ASSUME NEW v, Judged(d, v) PROVE verdict'[x] = verdict[x]
  BY <1>3 DEF Judged
<1>4. ASSUME NEW act, NEW n, Enqueue(d, act, n) PROVE hints'[x] = hints[x]
  BY <1>4 DEF Enqueue
<1>5. ASSUME NEW decision, NEW n, Intervene(d, decision, n)
      PROVE  hints'[x] = hints[x] /\ (x \in reviews' => x \in reviews)
  BY <1>5, <1>4 DEF Intervene
<1>6. ASSUME NEW k \in Kinds, Ask(d, k) PROVE Aside(x)
  BY <1>6 DEF Ask, Aside, history
<1>7. CASE Sync(d)
  BY <1>7 DEF Sync, Aside, runVars, history
<1>8. CASE Tell(d)
  <2>1. /\ hints'[x] = hints[x]
        /\ x \in reviews' => x \in reviews
        /\ \A n : <<x, n>> \in told' => <<x, n>> \in told
    BY <1>8, <1>4 DEF Tell, Reaches, Question
  <2> QED
    BY <1>8, <2>1 DEF Tell, Aside, history
<1>9. CASE Remind(d)
  BY <1>9 DEF Remind, Aside, Question, runVars, history
<1>10. CASE Take(d)
  <2>1. /\ hints'[x] = hints[x] /\ taken'[x] = taken[x]
        /\ \A n : <<x, n>> \in left' <=> <<x, n>> \in left
        /\ UNCHANGED <<asked, reviewed, reviews, told>>
    BY <1>10 DEF Take, Question
  <2>2. CASE kind[d] = "review"
    <3>1. PICK answer \in Answers : Reviewed(d, answer)
      BY <1>10, <2>2, QueueTypes DEF Take
    <3>2. answer.act \in {"extend", "hint", "terminate", "chat"}
      BY DEF Answers
    <3>3. \/ GoesOn(d) /\ \E v : Judged(d, v)
          \/ Closes(d, "task_complete") /\ Judged(d, "approved")
          \/ UNCHANGED <<phase, kind, exit, verdict>>
      BY <3>1, <3>2 DEF Reviewed
    <3> QED
      BY <1>1, <1>2, <1>3, <2>1, <3>3 DEF Aside
  <2>3. CASE kind[d] # "review"
    <3>1. /\ GoesOn(d) \/ Closes(d, "orchestrator_terminated") \/ UNCHANGED <<phase, kind, exit>>
          /\ UNCHANGED verdict
      BY <1>10, <2>3 DEF Take, Escalated
    <3> QED
      BY <1>1, <1>2, <2>1, <3>1 DEF Aside
  <2> QED
    BY <2>2, <2>3
<1>11. CASE Expire(d)
  <2>1. kind[d] \in Kinds
    BY <1>11 DEF Expire, Runs
  <2>2. /\ GoesOn(d) \/ Closes(d, "task_complete") \/ Closes(d, "limit")
        /\ Judged(d, "unanswered") \/ UNCHANGED verdict
    BY <1>11, <2>1 DEF Expire, Kinds
  <2>3. \A n : <<x, n>> \in left' <=> <<x, n>> \in left
    BY <1>11 DEF Expire, Leaves, Question
  <2> QED
    BY <1>11, <1>1, <1>2, <1>3, <2>2, <2>3 DEF Expire, Aside
<1>12. CASE Complete(d) \/ Stop(d)
  BY <1>12, <1>1 DEF Complete, Stop, Leaves, Question, Aside, history
<1>13. CASE NoticeCancel(d)
  BY <1>13 DEF NoticeCancel, Leaves, Question, Aside
<1>14. CASE Over(d)
  BY <1>14 DEF Over, ReviewsWithout, Aside, history
<1>15. ASSUME NEW n \in Questions, NEW decision \in Decisions, Answer(d, n, decision)
       PROVE  Aside(x)
  BY <1>15, <1>5 DEF Answer, Aside, runVars, history
<1>16. ASSUME NEW decision \in Decisions, Meddle(d, decision) PROVE Aside(x)
  BY <1>16, <1>5 DEF Meddle, Unasked, Aside, runVars, history
<1>17. CASE Hint(d)
  BY <1>17, <1>4 DEF Hint, Unasked, Aside, runVars, history
<1>18. CASE Rewake(d)
  BY <1>18, <1>3 DEF Rewake, Aside
<1> QED
  BY <1>6, <1>7, <1>8, <1>9, <1>10, <1>11, <1>12, <1>13, <1>14, <1>15, <1>16, <1>17, <1>18
  DEF Step

LEMMA IInvInit == Init => IInv
  BY TypesInit, SoundInit DEF IInv

LEMMA IInvNext ==
  ASSUME IInv, [Next]_vars
  PROVE  IInv'
<1>1. Typed'
  BY TypesNext DEF IInv
<1>2. ASSUME NEW d \in Delegates, Step(d), NEW x \in Delegates PROVE Sound(x)'
  <2>1. CASE x # d
    BY <1>2, <2>1, OthersAside, AsideSound DEF IInv
  <2>2. CASE x = d
    BY <1>2, <2>2, SoundStep, TellSound, TakeSound, AnswerSound, UnaskedSound DEF IInv, Step
  <2> QED
    BY <2>1, <2>2
<1>3. ASSUME UNCHANGED vars, NEW x \in Delegates PROVE Sound(x)'
  <2>1. Aside(x)
    BY <1>3 DEF vars, runVars, history, Aside
  <2> QED
    BY <2>1, AsideSound DEF IInv
<1> QED
  BY <1>1, <1>2, <1>3 DEF IInv, Next, Step

LEMMA IInvAlways == Spec => []IInv
<1>1. Init => IInv
  BY IInvInit
<1>2. IInv /\ [Next]_vars => IInv'
  BY IInvNext
<1> QED
  BY <1>1, <1>2, PTL DEF Spec

(* What lies in the queue of a running delegate answers the question that  *)
(* it waits with or one that it left unanswered, each once, or was not     *)
(* asked for (_await_orchestrator_escalation, on_member_escalation,        *)
(* intervene).                                                             *)
THEOREM AnswersMatch == Spec => []AnswersMatchQuestions
<1>1. IInv => AnswersMatchQuestions
  <2> SUFFICES ASSUME IInv, NEW d \in Delegates
               PROVE  /\ phase[d] \in {"working", "telling", "waiting"} =>
                           \A i \in DOMAIN hints[d] :
                             \/ phase[d] = "waiting" /\ Own(d, hints[d][i])
                             \/ Stray(d, hints[d][i].to)
                      /\ \A i, j \in DOMAIN hints[d] :
                           hints[d][i].to = hints[d][j].to /\ hints[d][i].to # NoQuestion
                             => i = j
    BY DEF AnswersMatchQuestions
  <2>1. DOMAIN hints[d] = 1..Len(hints[d])
    BY DEF IInv, Typed, TypeOK
  <2> QED
    BY <2>1 DEF IInv, Sound, Answered, Stray, Own
<1> QED
  BY <1>1, IInvAlways, PTL

(* No delegate counts as done whose completion nobody was asked about, and *)
(* what approves a completion or ends a run at a question was given to it, *)
(* was not asked for, or answers a question left before                    *)
(* (_await_completion_review, _try_escalate).                              *)
THEOREM CompletionsAreAccepted == Spec => []DoneIsAccepted
<1>1. IInv => DoneIsAccepted
  BY DEF IInv, Sound, Accepted, DoneIsAccepted
<1> QED
  BY <1>1, IInvAlways, PTL

(* What keeps the orchestrator from waiting for its delegates is a review  *)
(* that somebody waits for, unless the delegate was sent back with more    *)
(* budget or by a hint for something else (on_member_escalation,           *)
(* team(intervene)).                                                       *)
THEOREM PendingReviewsAreAwaited == Spec => []ReviewsAreOfWaiters
<1>1. IInv => ReviewsAreOfWaiters
  BY DEF IInv, Typed, TypeOK, Sound, Accepted, Settled, ReviewsAreOfWaiters
<1> QED
  BY <1>1, IInvAlways, PTL

=============================================================================
