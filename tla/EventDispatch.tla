---------------------------- MODULE EventDispatch ----------------------------
(***************************************************************************)
(* How the events of one agent reach a turn: nls/engine/inner_loop.py      *)
(* (breath, event queue, pending dispatches), nls/engine/events.py,        *)
(* thalamic_router.py, execution_slots.py, the inbound side of             *)
(* nls/skills/channel_processing.py and the surface inbox.                 *)
(*                                                                         *)
(* Three tasks run turns: the inner loop, a turn of the Home chat, and a   *)
(* channel turn that found no inner loop ("direct").  An action is the     *)
(* code between two awaits that may suspend.  Channel messages share one   *)
(* session.  Whether an orchestration is active, and whether a reply is    *)
(* delivered, are nondeterministic choices.                                *)
(***************************************************************************)
EXTENDS Naturals, Sequences, SequencesExt, FiniteSets

CONSTANTS
  MaxEvents,   \* bound: events created
  QueueLimit,  \* AgentEventQueue's maxsize; 256 in the code
  DrainLimit,  \* events drained per breath; 8 in the code
  ReplayLimit, \* inbox rows replayed per loop start; 8 in the code
  MaxDefers    \* AgentEvent.MAX_DEFERS; 5 in the code

ASSUME DispatchAssumption ==
  /\ MaxEvents \in Nat \ {0}
  /\ QueueLimit \in Nat \ {0}
  /\ DrainLimit \in Nat \ {0}
  /\ ReplayLimit \in Nat \ {0}
  /\ MaxDefers \in Nat \ {0}

VARIABLES
  loop,       \* the entry's inner loop
  queue,      \* InnerLoop.event_queue
  processed,  \* InnerLoop._processed_event_ids
  pending,    \* InnerLoop._pending_dispatches
  batch,      \* the drained events _dispatch_from_event_queue still has to route
  deferred,   \* its list _deferred
  deepBusy,   \* its local _deep_busy
  route,      \* how the loop's turn came and where it runs
  background, \* BackgroundQueue._items
  stash,      \* _pending_channel_events of the agent
  inbox,      \* unhandled rows of surface_inbox.json
  replayDue,  \* _replay_pending_channel_inbox sleeps
  at,         \* where each task is
  cur,        \* the event of each task's turn
  line,       \* the tasks waiting for the primary deep slot's lock
  fg,         \* _foreground_source and _foreground_session_key
  born,       \* how many events were created
  recorded,   \* history: the messages that ever had an inbox row
  turns       \* history: the turns begun for each event's origin

loopVars == <<loop, queue, processed, pending, batch, deferred, deepBusy, route>>
holdVars == <<background, stash, inbox, replayDue>>
turnVars == <<at, cur, line, fg>>
histVars == <<born, recorded, turns>>
vars == <<loopVars, holdVars, turnVars, histVars>>

Wakes == {"batch", "timer", "checkback"}
Channel == {"message", "query"} \* a query is answered by micro inference when busy
Kinds == Wakes \cup Channel \cup {"ws"}
Tasks == {"loop", "home", "direct"}

(* "left" is paused as well: by a turn of Home that broke off and did not  *)
(* resume it.                                                              *)
LoopStates == {"none", "running", "paused", "left"}

(* An event's birth is its event_id and its timestamp; "of" is the first   *)
(* event of the same message.                                              *)
Event(kind, birth, of) == [kind |-> kind, born |-> birth, of |-> of, defers |-> 0]
Events == [kind : Kinds, born : 1..MaxEvents, of : 1..MaxEvents, defers : 0..MaxDefers]
NoEvent == [kind |-> "none", born |-> 0, of |-> 0, defers |-> 0]

TypeOK ==
  /\ loop \in LoopStates
  /\ queue \in SUBSET Events
  /\ processed \in SUBSET (1..MaxEvents)
  /\ pending \in SUBSET Events
  /\ batch \in SUBSET Events
  /\ deferred \in SUBSET Events
  /\ deepBusy \in BOOLEAN
  /\ route \in {"none", "queue", "own", "pending"}
  /\ background \in Seq(Events)
  /\ stash \in SUBSET Events
  /\ inbox \in SUBSET Events
  /\ replayDue \in BOOLEAN
  /\ at \in [Tasks -> {"idle", "arrived", "micro", "announcing", "waiting", "running", "closing"}]
  /\ cur \in [Tasks -> Events \cup {NoEvent}]
  /\ line \in Seq(Tasks)
  /\ fg \in {"none", "home", "channel", "wake"}
  /\ born \in 0..MaxEvents
  /\ recorded \in SUBSET (1..MaxEvents)
  /\ turns \in [1..MaxEvents -> Nat]

Init ==
  /\ loop = "none" /\ queue = {} /\ processed = {} /\ pending = {}
  /\ batch = {} /\ deferred = {} /\ deepBusy = FALSE /\ route = "none"
  /\ background = <<>> /\ stash = {} /\ inbox = {} /\ replayDue = FALSE
  /\ at = [t \in Tasks |-> "idle"] /\ cur = [t \in Tasks |-> NoEvent]
  /\ line = <<>> /\ fg = "none"
  /\ born = 0 /\ recorded = {} /\ turns = [e \in 1..MaxEvents |-> 0]

-----------------------------------------------------------------------------
(* Slots and busyness                                                      *)

Running == {t \in Tasks : at[t] = "running"}
Busy == Running # {}
UserBusy == Busy /\ fg \in {"home", "channel"}

(* A channel turn beside Home holds a slot of its session, not this one. *)
DeepBusy == \E t \in Running : t = "loop" => route # "own"

Foreground(e) == IF e.kind \in Wakes THEN "wake"
                 ELSE IF e.kind \in Channel THEN "channel" ELSE "home"

Counted(e) == turns' = [turns EXCEPT ![e.of] = @ + 1]

(* _run_agentic_locked begins: the last turn to begin is the foreground. *)
Begin(t, e) ==
  /\ at' = [at EXCEPT ![t] = "running"]
  /\ fg' = Foreground(e)
  /\ Counted(e)

(* What _run_agentic_locked leaves when t ends: only the last one clears it. *)
ForegroundWithout(t) == IF Running \subseteq {t} THEN "none" ELSE fg

(* The lock is fair: it is taken at once only when nobody waits. *)
AcquireDeep(t, e) ==
  IF ~DeepBusy /\ line = <<>>
  THEN Begin(t, e) /\ UNCHANGED line
  ELSE /\ at' = [at EXCEPT ![t] = "waiting"]
       /\ line' = Append(line, t)
       /\ UNCHANGED <<fg, turns>>

HandOver ==
  /\ ~DeepBusy
  /\ line # <<>>
  /\ Begin(Head(line), cur[Head(line)])
  /\ line' = Tail(line)
  /\ UNCHANGED <<loopVars, holdVars, cur, born, recorded>>

-----------------------------------------------------------------------------
(* Order, drain and routing                                                *)

Priority == [ws |-> 10, batch |-> 20, message |-> 30, query |-> 30,
             timer |-> 40, checkback |-> 50]

Before(e, f) == \/ Priority[e.kind] < Priority[f.kind]
                \/ Priority[e.kind] = Priority[f.kind] /\ e.born < f.born

First(S) == CHOOSE e \in S : \A f \in S \ {e} : Before(e, f)

(* The events of S by priority and age: the order in which they are routed. *)
InOrder(S) == [i \in 1..Cardinality(S) |->
                 CHOOSE e \in S : Cardinality({f \in S : Before(f, e)}) = i - 1]

(* A defect: a full queue makes room by dropping its oldest. *)
PushEvicts(q, S) ==
  {e \in q \cup S : Cardinality({f \in q \cup S : f.born > e.born}) < QueueLimit}

(* push, of the events of S from the oldest to the newest: what finds the  *)
(* queue full is dropped.                                                  *)
Push(q, S) == q \cup {e \in S : Cardinality(q)
                         + Cardinality({f \in S : f.born < e.born}) < QueueLimit}

(* drain(max_events) *)
Drained(q) == {e \in q : Cardinality({f \in q : Before(f, e)}) < DrainLimit}

(* ThalamicRouter.route; "full" is FOCUS and DEEP, which are run alike. *)
Depth(e, busy, orchestrating) ==
  CASE e.kind = "ws" -> "drop"
    [] e.kind = "message" -> "full"
    [] e.kind = "query" -> IF busy \/ orchestrating THEN "micro" ELSE "full"
    [] e.kind = "batch" -> IF busy THEN "drop" ELSE "full"
    [] OTHER -> IF busy THEN "defer" ELSE "full"

(* _can_dispatch_event_queue *)
CanDispatch(q) == /\ q # {}
                  /\ ~UserBusy \/ \E e \in q : e.kind \in Channel

WakePriority == [batch |-> 15, timer |-> 50, checkback |-> 80]
BestPending == CHOOSE e \in pending :
                 \A f \in pending : WakePriority[e.kind] <= WakePriority[f.kind]

-----------------------------------------------------------------------------
(* The breath                                                              *)

LoopAt(place, e, r) ==
  /\ at' = [at EXCEPT !["loop"] = place]
  /\ cur' = [cur EXCEPT !["loop"] = e]
  /\ route' = r

(* The end of a dispatch, and the legacy path when nothing was dispatched. *)
Legacy(q, dispatched) ==
  /\ queue' = q
  /\ batch' = {} /\ deferred' = {} /\ deepBusy' = FALSE
  /\ IF ~dispatched /\ pending # {} /\ ~UserBusy
     THEN pending' = pending \ {BestPending} /\ LoopAt("announcing", BestPending, "pending")
     ELSE LoopAt("idle", NoEvent, "none") /\ UNCHANGED pending
  /\ UNCHANGED <<line, fg, turns>>

(* A defect: the event stays in the background queue. *)
EndDispatchPeeks(q, held, dispatched) ==
  LET items == background \o InOrder(held)
  IN /\ background' = items
     /\ Legacy(IF ~DeepBusy /\ items # <<>> THEN Push(q, {Head(items)}) ELSE q, dispatched)

(* The tail of _dispatch_from_event_queue: deferred events go to the       *)
(* background queue, and one comes back if the deep slot is free.          *)
EndDispatch(q, held, dispatched) ==
  LET aged == {[e EXCEPT !.defers = @ + 1] : e \in held}
      kept == {e \in aged : e.defers < MaxDefers}
      items == background \o InOrder(kept)
  IN IF ~DeepBusy /\ items # <<>>
     THEN background' = Tail(items) /\ Legacy(Push(q, {Head(items)}), dispatched)
     ELSE background' = items /\ Legacy(q, dispatched)

(* The turn, or the micro reply, that a routed event gets. *)
Engage(e, depth) ==
  LET own == e.kind \in Channel /\ DeepBusy IN
  /\ cur' = [cur EXCEPT !["loop"] = e]
  /\ route' = IF depth = "full" /\ own THEN "own" ELSE "queue"
  /\ \/ /\ depth = "micro"
        /\ at' = [at EXCEPT !["loop"] = "micro"]
        /\ Counted(e)
        /\ UNCHANGED <<line, fg>>
     \/ /\ depth = "full" /\ e.kind \in Wakes
        /\ at' = [at EXCEPT !["loop"] = "announcing"]
        /\ UNCHANGED <<line, fg, turns>>
     \/ /\ depth = "full" /\ own
        /\ Begin("loop", e)
        /\ UNCHANGED line
     \/ /\ depth = "full" /\ e.kind \in Channel /\ ~own
        /\ AcquireDeep("loop", e)

(* A defect: the engaged event stays in the batch. *)
RemainingWithEngaged(rest, e) == {f \in rest : ~Before(f, e)}

Remaining(rest, e) == {f \in rest : Before(e, f)}

(* Route the rest of the batch up to the first event that takes the loop   *)
(* away.                                                                   *)
Continue(q, rest, held, dispatched, busy) ==
  \E orchestrating \in BOOLEAN :
    LET depth(e) == Depth(e, busy, orchestrating)
        engaging == {e \in rest : depth(e) \in {"micro", "full"}}
        defers(S) == {e \in S : depth(e) = "defer"}
    IN \/ /\ engaging = {}
          /\ EndDispatch(q, held \cup defers(rest), dispatched)
       \/ /\ engaging # {}
          /\ LET e == First(engaging) IN
             /\ Engage(e, depth(e))
             /\ batch' = Remaining(rest, e)
             /\ deferred' = held \cup defers({f \in rest : Before(f, e)})
          /\ queue' = q /\ deepBusy' = busy
          /\ UNCHANGED <<pending, background>>

DrainAndContinue(q) ==
  LET fresh == {e \in Drained(q) : e.born \notin processed}
      left  == q \ Drained(q)
  IN IF fresh = {} THEN Legacy(left, FALSE) /\ UNCHANGED background
     ELSE Continue(left, fresh, {}, FALSE, DeepBusy)

Breath ==
  /\ loop = "running"
  /\ at["loop"] = "idle"
  /\ stash' = IF Busy THEN stash ELSE {}
  /\ LET q == IF Busy THEN queue ELSE Push(queue, stash) IN
     \/ CanDispatch(q) /\ DrainAndContinue(q)
     \/ ~CanDispatch(q) /\ Legacy(q, FALSE) /\ UNCHANGED background
  /\ UNCHANGED <<loop, processed, inbox, replayDue, born, recorded>>

(* A micro reply was sent; the drain goes on. *)
MicroReplied ==
  /\ at["loop"] = "micro"
  /\ processed' = processed \cup {cur["loop"].born}
  /\ Continue(queue, batch, deferred, TRUE, deepBusy)
  /\ UNCHANGED <<loop, stash, inbox, replayDue, born, recorded>>

(* agentic_start was broadcast. *)
WakeEnters ==
  /\ at["loop"] = "announcing"
  /\ AcquireDeep("loop", cur["loop"])
  /\ UNCHANGED <<loopVars, holdVars, cur, born, recorded>>

LoopTurnEnds ==
  /\ at["loop"] = "running"
  /\ at' = [at EXCEPT !["loop"] = "closing"]
  /\ fg' = ForegroundWithout("loop")
  /\ UNCHANGED <<loopVars, holdVars, cur, line, histVars>>

(* The reply of a channel turn was sent or failed, the wake's result was   *)
(* announced: one full dispatch per breath.                                *)
QueueTurnCloses ==
  /\ at["loop"] = "closing"
  /\ route # "pending"
  /\ processed' = processed \cup {cur["loop"].born}
  /\ \/ UNCHANGED inbox
     \/ cur["loop"].kind \in Channel /\ inbox' = {}
  /\ EndDispatch(queue, deferred, TRUE)
  /\ UNCHANGED <<loop, stash, replayDue, born, recorded>>

PendingTurnCloses ==
  /\ at["loop"] = "closing"
  /\ route = "pending"
  /\ LoopAt("idle", NoEvent, "none")
  /\ UNCHANGED <<loop, queue, processed, pending, batch, deferred, deepBusy,
                 holdVars, line, fg, histVars>>

-----------------------------------------------------------------------------
(* Who creates events                                                      *)

KnownSource(kind) == \E e \in pending : e.kind = kind

(* enqueue_autonomous_dispatch and its mirror in the event queue *)
EnqueueWake(kind) ==
  /\ born < MaxEvents
  /\ loop # "none" /\ ~UserBusy /\ ~KnownSource(kind)
  /\ LET e == Event(kind, born + 1, born + 1) IN
     /\ pending' = (IF kind = "batch" THEN {p \in pending : p.kind # "checkback"}
                                      ELSE pending) \cup {e}
     /\ queue' = Push(queue, {e})
  /\ born' = born + 1
  /\ UNCHANGED <<loop, processed, batch, deferred, deepBusy, route, holdVars,
                 turnVars, recorded, turns>>

(* process_channel_message: recorded when another surface is in front,     *)
(* then pushed, stashed or run at once.                                    *)
ChannelMessage(kind) ==
  /\ born < MaxEvents
  /\ LET e == Event(kind, born + 1, born + 1)
         crossSurface == Busy /\ fg # "channel"
     IN /\ inbox' = IF crossSurface THEN inbox \cup {e} ELSE inbox
        /\ recorded' = IF crossSurface THEN recorded \cup {e.of} ELSE recorded
        /\ \/ /\ loop # "none"
              /\ queue' = Push(queue, stash \cup {e})
              /\ stash' = {}
              /\ UNCHANGED <<at, cur>>
           \/ /\ loop = "none" /\ crossSurface
              /\ stash' = stash \cup {e}
              /\ UNCHANGED <<queue, at, cur>>
           \/ /\ loop = "none" /\ ~crossSurface
              /\ at["direct"] = "idle"
              /\ at' = [at EXCEPT !["direct"] = "arrived"]
              /\ cur' = [cur EXCEPT !["direct"] = e]
              /\ UNCHANGED <<queue, stash>>
  /\ born' = born + 1
  /\ UNCHANGED <<loop, processed, pending, batch, deferred, deepBusy, route,
                 background, replayDue, line, fg, turns>>

(* _direct_channel_dispatch *)
DirectEnters ==
  /\ at["direct"] = "arrived"
  /\ AcquireDeep("direct", cur["direct"])
  /\ UNCHANGED <<loopVars, holdVars, cur, born, recorded>>

Resumed == IF loop \in {"paused", "left"} THEN "running" ELSE loop
Left == IF loop = "paused" THEN "left" ELSE loop

DirectEnds ==
  /\ at["direct"] = "running"
  /\ at' = [at EXCEPT !["direct"] = "idle"]
  /\ cur' = [cur EXCEPT !["direct"] = NoEvent]
  /\ fg' = ForegroundWithout("direct")
  /\ loop' = Resumed
  /\ UNCHANGED <<queue, processed, pending, batch, deferred, deepBusy, route,
                 holdVars, line, histVars>>

(* A Home message pauses the loop; the turn waits until the agent is ready. *)
HomeArrives ==
  /\ born < MaxEvents
  /\ at["home"] = "idle"
  /\ at' = [at EXCEPT !["home"] = "arrived"]
  /\ cur' = [cur EXCEPT !["home"] = Event("ws", born + 1, born + 1)]
  /\ born' = born + 1
  /\ loop' = IF loop \in {"running", "left"} THEN "paused" ELSE loop
  /\ UNCHANGED <<queue, processed, pending, batch, deferred, deepBusy, route,
                 holdVars, line, fg, recorded, turns>>

HomeEnters ==
  /\ at["home"] = "arrived"
  /\ queue' = IF loop = "none" THEN queue ELSE Push(queue, {cur["home"]})
  /\ AcquireDeep("home", cur["home"])
  /\ UNCHANGED <<loop, processed, pending, batch, deferred, deepBusy, route,
                 holdVars, cur, born, recorded>>

HomeTurnEnds ==
  /\ at["home"] = "running"
  /\ at' = [at EXCEPT !["home"] = "closing"]
  /\ fg' = ForegroundWithout("home")
  /\ UNCHANGED <<loopVars, holdVars, cur, line, histVars>>

(* A defect: a runtime that is still busy keeps the loop paused. *)
ResumedIfQuiet == IF Busy THEN loop ELSE Resumed

HomeResumes == Resumed

HomeLeaves ==
  /\ at' = [at EXCEPT !["home"] = "idle"]
  /\ cur' = [cur EXCEPT !["home"] = NoEvent]

(* Home's own event is removed by its id, unless the turn raised, and the  *)
(* loop resumes.                                                           *)
HomeCloses ==
  /\ at["home"] = "closing"
  /\ queue' \in {queue, queue \ {cur["home"]}}
  /\ loop' = HomeResumes
  /\ HomeLeaves
  /\ UNCHANGED <<processed, pending, batch, deferred, deepBusy, route, holdVars,
                 line, fg, histVars>>

(* A cancelled task leaves the line of the lock. *)
LineWithout(t) ==
  IF \E i \in DOMAIN line : line[i] = t
    THEN RemoveAt(line, CHOOSE i \in DOMAIN line : line[i] = t)
    ELSE line

(* A stream raises before the agentic turn, or the socket closes anywhere  *)
(* in the turn and cancels it: nobody completes the message, and the loop  *)
(* is not resumed.  Home's event is removed only when the turn had ended.  *)
HomeBreaksOff ==
  /\ at["home"] # "idle"
  /\ \/ UNCHANGED queue
     \/ at["home"] = "closing" /\ queue' = queue \ {cur["home"]}
  /\ loop' = Left
  /\ HomeLeaves
  /\ line' = LineWithout("home")
  /\ fg' = ForegroundWithout("home")
  /\ UNCHANGED <<processed, pending, batch, deferred, deepBusy, route, holdVars,
                 histVars>>

-----------------------------------------------------------------------------
(* The life of the loop                                                    *)

(* _make_conscious *)
LoopStarts ==
  /\ loop = "none"
  /\ loop' = "running"
  /\ queue' = Push({}, stash)
  /\ stash' = {}
  /\ replayDue' = TRUE
  /\ UNCHANGED <<processed, pending, batch, deferred, deepBusy, route,
                 background, inbox, turnVars, histVars>>

OlderRows(r) == Cardinality({s \in inbox : s.of < r.of})

(* A defect: numbered by the row, not by its place among the replayed. *)
ReplayBirthByRow(r) == born + 1 + r.of

ReplayBirth(r) == born + 1 + OlderRows(r)

(* The text around a replayed query may hide that it is one. *)
ReplayKind(r, wrapped) == IF r \in wrapped THEN "message" ELSE r.kind

(* Every unhandled row becomes a new event. *)
ReplayInbox ==
  /\ replayDue
  /\ LET rows == {r \in inbox : OlderRows(r) < ReplayLimit}
     IN /\ born + Cardinality(rows) <= MaxEvents
        /\ \E wrapped \in SUBSET rows :
             queue' = Push(queue, {Event(ReplayKind(r, wrapped), ReplayBirth(r), r.of) : r \in rows})
        /\ born' = born + Cardinality(rows)
  /\ replayDue' = FALSE
  /\ UNCHANGED <<loop, processed, pending, batch, deferred, deepBusy, route,
                 background, stash, inbox, turnVars, recorded, turns>>

LoopForgets ==
  /\ loop' = "none"
  /\ queue' = {} /\ processed' = {} /\ pending' = {}
  /\ batch' = {} /\ deferred' = {} /\ deepBusy' = FALSE /\ route' = "none"
  /\ replayDue' = FALSE

(* InnerLoop.stop: the task is cancelled wherever it is. *)
LoopStops ==
  /\ loop # "none"
  /\ LoopForgets
  /\ at' = [at EXCEPT !["loop"] = "idle"]
  /\ cur' = [cur EXCEPT !["loop"] = NoEvent]
  /\ line' = LineWithout("loop")
  /\ fg' = ForegroundWithout("loop")
  /\ UNCHANGED <<background, stash, inbox, histVars>>

(* The server restarts: only the inbox is on disk. *)
Restart ==
  /\ LoopForgets
  /\ background' = <<>> /\ stash' = {}
  /\ at' = [t \in Tasks |-> "idle"] /\ cur' = [t \in Tasks |-> NoEvent]
  /\ line' = <<>> /\ fg' = "none"
  /\ UNCHANGED <<inbox, histVars>>

Loop == \/ Breath \/ MicroReplied \/ WakeEnters \/ LoopTurnEnds
        \/ QueueTurnCloses \/ PendingTurnCloses
Home == HomeEnters \/ HomeTurnEnds \/ HomeCloses
Direct == DirectEnters \/ DirectEnds

Next ==
  \/ Loop \/ Home \/ Direct \/ HandOver
  \/ \E kind \in Wakes : EnqueueWake(kind)
  \/ \E kind \in Channel : ChannelMessage(kind)
  \/ HomeArrives \/ HomeBreaksOff \/ LoopStarts \/ ReplayInbox \/ LoopStops \/ Restart

SafeSpec == Init /\ [][Next]_vars

(* The tasks keep being scheduled, and an agentic turn ends: its           *)
(* iterations are bounded.                                                 *)
Fairness == WF_vars(Loop) /\ WF_vars(Home) /\ WF_vars(Direct) /\ WF_vars(HandOver)

Spec == SafeSpec /\ Fairness

-----------------------------------------------------------------------------
(* Properties                                                              *)

Births(S) == {e.born : e \in S}

(* The loop's own event; a legacy copy is not the queue's event. *)
Engaged == IF route \in {"queue", "own"} THEN {cur["loop"]} ELSE {}

Places == <<queue, batch, Engaged, deferred, Range(background), stash>>

(* An event is queued, drained, in a turn, deferred, put aside or stashed, *)
(* never twice at once and never again after it was processed, although    *)
(* six containers pass it on and two of them outlive the loop.             *)
EventsAreInOnePlace ==
  /\ \A i, j \in DOMAIN Places :
       i # j => Births(Places[i]) \cap Births(Places[j]) = {}
  /\ \A i \in DOMAIN Places : Births(Places[i]) \cap processed = {}

(* A message gets one turn, unless an inbox row lets a restarted loop      *)
(* replay it; a wake at most the two that its copies in the two queues     *)
(* give it.                                                                *)
TurnsPerOrigin ==
  \A m \in 1..MaxEvents : turns[m] > 1 =>
    \/ m \in recorded
    \/ turns[m] = 2 /\ \A t \in Tasks : cur[t].of = m => cur[t].kind \in Wakes

(* A message that somebody still holds, in memory or as an inbox row. *)
Held(m) == \/ \E e \in queue \cup batch \cup deferred \cup stash \cup inbox
                        \cup Range(background) : e.of = m /\ e.kind \in Channel
           \/ \E t \in Tasks : cur[t].of = m /\ cur[t].kind \in Channel

Arrives(m) == m = born + 1 /\ \E kind \in Channel : ChannelMessage(kind)

Lost(m) == (Held(m) \/ Arrives(m)) /\ ~Held(m)' /\ turns'[m] = 0

(* push finds the queue full, for a message that arrives or is flushed     *)
(* from the stash.                                                         *)
Dropped(m) ==
  \/ Arrives(m) /\ Cardinality(queue) + Cardinality(stash) >= QueueLimit
  \/ \E e \in stash \ Push(queue, stash) : e.of = m

(* A message that never got a turn is let go only with its loop, behind a  *)
(* turn that closes (with the rest of its batch, or as one of the rows     *)
(* that the reply to another message of its session marks handled), or     *)
(* because it finds the event queue full on its way in.                    *)
MessagesLeaveOnlyBehindATurn ==
  [][\A m \in 1..MaxEvents : Lost(m) =>
       \/ loop' = "none"
       \/ at["loop"] = "closing" /\ \E e \in batch \cup inbox : e.of = m
       \/ Dropped(m)]_vars

(* Whatever is queued or pending is taken, through pauses, busy slots and  *)
(* turns that overtake it, unless a turn of Home that breaks off leaves    *)
(* the loop paused.                                                        *)
EventsAreTaken ==
  \A b \in 1..MaxEvents : b \in Births(queue \cup pending) ~>
    loop = "left" \/ b \notin Births(queue \cup pending)

-----------------------------------------------------------------------------
(* What the documentation and the comments say.                            *)

(* docs/architecture/channels-and-webhooks.md: the reply to a message in   *)
(* the event queue is sent asynchronously; no loop that lives drops it.    *)
MessagesAreKept ==
  [][\A m \in 1..MaxEvents : Lost(m) => loop' = "none"]_vars

(* inner_loop.py: the mirror into the event queue is "for future use",     *)
(* "additive, no behavior change": a wake is run once.                     *)
WakesRunOnce ==
  \A t \in Tasks : cur[t].kind \in Wakes => turns[cur[t].of] <= 1

=============================================================================
