------------------------ MODULE EventDispatch_proofs ------------------------
(***************************************************************************)
(* For any number of events, any limits of the queue, a drain or a replay  *)
(* and any number of deferrals: the events of an agent are in one place each, an   *)
(* origin has its turns counted, and a message leaves only behind a turn.  *)
(***************************************************************************)
EXTENDS EventDispatch, SequenceTheorems, Ranks_proofs, TLAPS

-----------------------------------------------------------------------------
(* The inductive invariant                                                 *)

Distinct(S) == \A e, f \in S : e.born = f.born => e = f
Apart(S, T) == \A e \in S, f \in T : e.born # f.born

(* Every event of T is, up to its deferrals, one of S. *)
Same(e, f) == e.born = f.born /\ e.of = f.of /\ e.kind = f.kind
Moved(T, S) == \A e \in T : \E f \in S : Same(e, f)

Five(Q, B, E, D, A) ==
  /\ Distinct(Q) /\ Distinct(B) /\ Distinct(E) /\ Distinct(D) /\ Distinct(A)
  /\ Apart(Q, B) /\ Apart(Q, E) /\ Apart(Q, D) /\ Apart(Q, A)
  /\ Apart(B, E) /\ Apart(B, D) /\ Apart(B, A)
  /\ Apart(E, D) /\ Apart(E, A) /\ Apart(D, A)

Aside == Range(background)
LoopEvents == queue \cup batch \cup Engaged \cup deferred \cup Aside
Placed == LoopEvents \cup stash

(* What the loop has in hand fits where it is. *)
LoopShape ==
  /\ at["loop"] # "arrived"
  /\ at["loop"] = "idle" <=> route = "none"
  /\ at["loop"] = "micro" => route = "queue"
  /\ route # "none" => cur["loop"] \in Events
  /\ route \in {"none", "pending"} => batch = {} /\ deferred = {}

LineWaits == IsInjective(line) /\ \A i \in DOMAIN line : at[line[i]] = "waiting"

PendingAreWakes == \A e \in pending : e.kind \in Wakes

OnceIn(s) == \A i, j \in DOMAIN s : s[i].born = s[j].born => i = j
BackgroundIsOnce == OnceIn(background)

(* Nothing has a birth that is still to come, *)
NotYetBorn ==
  /\ \A b \in processed : b <= born
  /\ \A e \in Placed : e.born <= born
  /\ \A r \in inbox : r.of = r.born /\ r.born <= born

(* and a Home message is in no place until its turn has begun. *)
HomeIsApart ==
  at["home"] = "arrived" =>
    /\ cur["home"] \in Events /\ cur["home"].born <= born
    /\ cur["home"].born \notin processed
    /\ Apart({cur["home"]}, Placed)

PlacesInv ==
  /\ Five(queue, batch, Engaged, deferred, Aside)
  /\ Distinct(stash) /\ Apart(stash, LoopEvents)
  /\ \A e \in Placed : e.born \notin processed
  /\ HomeIsApart

DispatchInv ==
  /\ TypeOK /\ LoopShape /\ LineWaits /\ PendingAreWakes
  /\ BackgroundIsOnce /\ Distinct(inbox) /\ NotYetBorn /\ PlacesInv

-----------------------------------------------------------------------------
(* The order of events                                                     *)

LEMMA DispatchTypes ==
  /\ MaxEvents \in Nat \ {0} /\ QueueLimit \in Nat \ {0} /\ DrainLimit \in Nat \ {0}
  /\ ReplayLimit \in Nat \ {0} /\ MaxDefers \in Nat \ {0}
BY DispatchAssumption

LEMMA EventFacts ==
  /\ \A e \in Events : /\ e.born \in 1..MaxEvents /\ e.of \in 1..MaxEvents
                       /\ e.kind \in Kinds /\ e.defers \in 0..MaxDefers
                       /\ e.born \in Nat
  /\ NoEvent \notin Events
  /\ \A k \in Kinds : Priority[k] \in Nat
BY DispatchTypes DEF Events, NoEvent, Priority, Kinds, Wakes, Channel

(* Events of different births are in a strict order. *)
LEMMA BeforeIsOrder ==
  ASSUME NEW S \in SUBSET Events, Distinct(S)
  PROVE  /\ \A e, f \in S : e # f => Before(e, f) \/ Before(f, e)
         /\ \A e, f, g \in S : Before(e, f) /\ Before(f, g) => Before(e, g)
         /\ \A e \in S : ~Before(e, e)
         /\ \A e, f \in S : Before(e, f) => ~Before(f, e)
<1>1. \A e \in S : Priority[e.kind] \in Nat /\ e.born \in Nat
  BY EventFacts
<1> HIDE DEF Priority
<1>2. \A e, f \in S : e # f => e.born # f.born
  BY DEF Distinct
<1> QED BY <1>1, <1>2 DEF Before

LEMMA DistinctIsFinite ==
  ASSUME NEW S \in SUBSET Events, Distinct(S)
  PROVE  IsFiniteSet(S) /\ Cardinality(S) \in Nat
<1> DEFINE f == [e \in S |-> e.born]
<1>1. f \in [S -> 1..MaxEvents]
  BY EventFacts
<1>2. \A e, g \in S : f[e] = f[g] => e = g
  BY DEF Distinct
<1>3. IsFiniteSet(1..MaxEvents)
  BY DispatchTypes, FS_Interval
<1> HIDE DEF f
<1>4. f \in Injection(S, 1..MaxEvents)
  BY <1>1, <1>2 DEF Injection, IsInjective
<1>5. IsFiniteSet(S)
  BY <1>3, <1>4, FS_Injection
<1> QED BY <1>5, FS_CardinalityType

LEMMA RanksOfEvents ==
  ASSUME NEW S \in SUBSET Events, Distinct(S)
  PROVE  /\ \A k \in 1..Cardinality(S) :
              \E e \in S : Cardinality({f \in S : Before(f, e)}) = k - 1
         /\ \A e, g \in S : Cardinality({f \in S : Before(f, e)}) =
                            Cardinality({f \in S : Before(f, g)}) => e = g
         /\ \A e \in S : Cardinality({f \in S : Before(f, e)}) + 1 \in 1..Cardinality(S)
<1> DEFINE R == {p \in S \X S : Before(p[1], p[2])}
<1>1. \A e, f \in S : <<e, f>> \in R <=> Before(e, f)
  OBVIOUS
<1>2. Orders(R, S)
  BY <1>1, BeforeIsOrder DEF Orders
<1>3. ASSUME NEW e \in S PROVE Rank(e, R, S) = Cardinality({f \in S : Before(f, e)})
  <2>1. {f \in S : <<f, e>> \in R} = {f \in S : Before(f, e)}
    BY <1>1
  <2> QED BY <2>1 DEF Rank
<1>4. IsFiniteSet(S) /\ Cardinality(S) \in Nat
  BY DistinctIsFinite
<1> HIDE DEF R
<1>5. /\ \A k \in 1..Cardinality(S) : \E e \in S : Rank(e, R, S) = k - 1
      /\ \A e, g \in S : Rank(e, R, S) = Rank(g, R, S) => e = g
  BY <1>2, <1>4, RanksFill
<1>6. \A e \in S : Rank(e, R, S) \in Nat /\ Rank(e, R, S) < Cardinality(S)
  BY <1>2, <1>4, RankIsBelow
<1>7. \A e \in S : Rank(e, R, S) + 1 \in 1..Cardinality(S)
  BY <1>4, <1>6
<1> QED BY <1>3, <1>5, <1>7

(* The first of a set is there, and every other event is behind it. *)
LEMMA FirstIs ==
  ASSUME NEW S \in SUBSET Events, Distinct(S), S # {}
  PROVE  First(S) \in S /\ \A f \in S \ {First(S)} : Before(First(S), f)
<1>1. IsFiniteSet(S) /\ Cardinality(S) \in Nat
  BY DistinctIsFinite
<1>2. 1 \in 1..Cardinality(S)
  <2>1. Cardinality(S) # 0
    BY <1>1, FS_EmptySet
  <2> QED BY <1>1, <2>1
<1>3. PICK e \in S : Cardinality({f \in S : Before(f, e)}) = 0
  <2>0. \A k \in 1..Cardinality(S) :
          \E e \in S : Cardinality({f \in S : Before(f, e)}) = k - 1
    BY RanksOfEvents
  <2>1. \E e \in S : Cardinality({f \in S : Before(f, e)}) = 1 - 1
    BY ONLY <1>2, <2>0
  <2> QED BY <2>1
<1>4. {f \in S : Before(f, e)} = {}
  <2>1. {f \in S : Before(f, e)} \in SUBSET S
    OBVIOUS
  <2>2. IsFiniteSet({f \in S : Before(f, e)})
    BY <1>1, <2>1, FS_Subset
  <2> QED BY <1>3, <2>2, FS_EmptySet
<1>5. \A f \in S \ {e} : Before(e, f)
  BY <1>4, BeforeIsOrder
<1> QED BY <1>5 DEF First

(* What is put in order is there once and is all there. *)
LEMMA InOrderIs ==
  ASSUME NEW S \in SUBSET Events, Distinct(S)
  PROVE  /\ InOrder(S) \in Seq(S) /\ Range(InOrder(S)) = S
         /\ \A i, j \in DOMAIN InOrder(S) : InOrder(S)[i] = InOrder(S)[j] => i = j
<1> DEFINE n == Cardinality(S)
           rank(e) == Cardinality({f \in S : Before(f, e)})
           at_(i) == CHOOSE e \in S : rank(e) = i - 1
<1>1. InOrder(S) = [i \in 1..n |-> at_(i)]
  BY DEF InOrder
<1>2. n \in Nat
  BY DistinctIsFinite
<1>3. /\ \A i \in 1..n : \E e \in S : rank(e) = i - 1
      /\ \A e, g \in S : rank(e) = rank(g) => e = g
      /\ \A e \in S : rank(e) + 1 \in 1..n
  BY RanksOfEvents
<1>4. \A e \in S : rank(e) \in Nat
  <2>1. IsFiniteSet(S)
    BY DistinctIsFinite
  <2>2. ASSUME NEW e \in S PROVE rank(e) \in Nat
    <3>1. {f \in S : Before(f, e)} \in SUBSET S
      OBVIOUS
    <3> QED BY <2>1, <3>1, FS_Subset, FS_CardinalityType
  <2> QED BY <2>2
<1> HIDE DEF rank, n
<1>5. \A i \in 1..n : at_(i) \in S /\ rank(at_(i)) = i - 1
  BY <1>3
<1> HIDE DEF at_
<1>6. InOrder(S) \in Seq(S) /\ DOMAIN InOrder(S) = 1..n
  BY <1>1, <1>2, <1>5
<1>7. ASSUME NEW e \in S PROVE \E i \in 1..n : InOrder(S)[i] = e
  <2>1. PICK k \in 1..n : k = rank(e) + 1
    BY <1>3
  <2>2. at_(k) \in S /\ rank(at_(k)) = k - 1
    BY <1>5
  <2>3. k - 1 = rank(e)
    BY <1>4, <2>1
  <2>4. at_(k) = e
    BY <1>3, <2>2, <2>3
  <2> QED BY <1>1, <2>4
<1>8. Range(InOrder(S)) = S
  BY <1>1, <1>5, <1>6, <1>7 DEF Range
<1>9. ASSUME NEW i \in 1..n, NEW j \in 1..n, InOrder(S)[i] = InOrder(S)[j] PROVE i = j
  <2>1. rank(at_(i)) = i - 1 /\ rank(at_(j)) = j - 1 /\ at_(i) = at_(j)
    BY <1>1, <1>5, <1>9
  <2>2. i - 1 = j - 1
    BY <2>1
  <2> QED BY <1>2, <2>2
<1> QED BY <1>6, <1>8, <1>9

-----------------------------------------------------------------------------
(* What is pushed                                                          *)

(* A push keeps the queue and adds nothing else. *)
LEMMA PushIs ==
  ASSUME NEW q, NEW S
  PROVE  q \subseteq Push(q, S) /\ Push(q, S) \subseteq q \cup S
BY DEF Push

(* A younger event does not push an older one out. *)
LEMMA PushOlder ==
  ASSUME NEW q, NEW S, NEW e, e.born \in Nat, \A f \in S : f.born \in Nat /\ f.born < e.born
  PROVE  Push(q, S) \subseteq Push(q, S \cup {e})
<1>1. ASSUME NEW g \in S
      PROVE  {f \in S \cup {e} : f.born < g.born} = {f \in S : f.born < g.born}
  OBVIOUS
<1>2. ASSUME NEW g \in S, g \in Push(q, S), g \notin q PROVE g \in Push(q, S \cup {e})
  <2>1. Cardinality(q) + Cardinality({f \in S : f.born < g.born}) < QueueLimit
    BY <1>2 DEF Push
  <2>2. Cardinality(q) + Cardinality({f \in S \cup {e} : f.born < g.born}) < QueueLimit
    BY <1>1, <2>1
  <2> QED BY <2>2 DEF Push
<1> QED BY <1>2, PushIs

(* The youngest is pushed if there is room for all. *)
LEMMA PushYoungest ==
  ASSUME NEW q, NEW S, NEW e, e.born \in Nat, \A f \in S : f.born \in Nat /\ f.born < e.born,
         Cardinality(q) + Cardinality(S) < QueueLimit
  PROVE  e \in Push(q, S \cup {e})
<1>1. {f \in S \cup {e} : f.born < e.born} = S
  OBVIOUS
<1>2. Cardinality(q) + Cardinality({f \in S \cup {e} : f.born < e.born}) < QueueLimit
  BY <1>1
<1> QED BY <1>2 DEF Push

-----------------------------------------------------------------------------
(* The line and the tasks                                                  *)

TaskPlaces == {"idle", "arrived", "micro", "announcing", "waiting", "running", "closing"}

(* A task that does not wait changes its place, and may join the line. *)
LEMMA LineAfter ==
  ASSUME TypeOK, LineWaits, NEW t \in Tasks, at[t] # "waiting",
         NEW place \in TaskPlaces, at' = [at EXCEPT ![t] = place],
         line' = line \/ (line' = Append(line, t) /\ place = "waiting")
  PROVE  /\ LineWaits' /\ line' \in Seq(Tasks) /\ at' \in [Tasks -> TaskPlaces]
         /\ at'[t] = place /\ \A u \in Tasks : u # t => at'[u] = at[u]
<1>1. /\ line \in Seq(Tasks) /\ at \in [Tasks -> TaskPlaces]
      /\ \A i \in DOMAIN line : at[line[i]] = "waiting" /\ line[i] \in Tasks /\ line[i] # t
  BY DEF TypeOK, LineWaits, TaskPlaces
<1>2. /\ at' \in [Tasks -> TaskPlaces]
      /\ at'[t] = place /\ \A u \in Tasks : u # t => at'[u] = at[u]
  BY <1>1
<1>3. CASE line' = line
  BY <1>1, <1>2, <1>3 DEF LineWaits
<1>4. CASE line' = Append(line, t) /\ place = "waiting"
  <2>1. /\ line' \in Seq(Tasks) /\ DOMAIN line' = 1..(Len(line) + 1) /\ Len(line) \in Nat
        /\ DOMAIN line = 1..Len(line) /\ line'[Len(line) + 1] = t
        /\ \A i \in DOMAIN line : line'[i] = line[i]
    BY <1>1, <1>4
  <2>2. \A i \in DOMAIN line' : IF i \in DOMAIN line THEN line'[i] = line[i]
                                ELSE i = Len(line) + 1 /\ line'[i] = t
    BY <2>1
  <2>3. IsInjective(line')
    BY <1>1, <2>2 DEF LineWaits, IsInjective
  <2>4. \A i \in DOMAIN line' : at'[line'[i]] = "waiting"
    BY <1>1, <1>2, <1>4, <2>2
  <2> QED BY <1>2, <2>1, <2>3, <2>4 DEF LineWaits
<1> QED BY <1>2, <1>3, <1>4

LEMMA BestPendingIs ==
  ASSUME pending \in SUBSET Events, PendingAreWakes, pending # {}
  PROVE  BestPending \in pending
<1> DEFINE w(e) == WakePriority[e.kind]
<1>1. \A e \in pending : e.kind \in {"batch", "timer", "checkback"}
  BY DEF PendingAreWakes, Wakes
<1>2. WakePriority["batch"] = 15 /\ WakePriority["timer"] = 50 /\ WakePriority["checkback"] = 80
  BY DEF WakePriority
<1>3. \A e \in pending : w(e) \in {15, 50, 80}
  BY <1>1, <1>2
<1> HIDE DEF w
<1>4. \E e \in pending : \A f \in pending : w(e) <= w(f)
  <2>1. CASE \E e \in pending : w(e) = 15
    BY <1>3, <2>1
  <2>2. CASE (\A e \in pending : w(e) # 15) /\ \E e \in pending : w(e) = 50
    BY <1>3, <2>2
  <2>3. CASE \A e \in pending : w(e) = 80
    BY <2>3
  <2> QED BY <1>3, <2>1, <2>2, <2>3
<1> QED BY <1>4 DEF BestPending, w

-----------------------------------------------------------------------------
(* The end of a dispatch                                                   *)

(* What the loop takes in hand: nothing, a wake of the legacy list, or an  *)
(* event of the batch, whose turn may have begun.                          *)
Taken(rest) ==
  \/ /\ route' = "none" /\ cur'["loop"] = NoEvent
     /\ UNCHANGED <<pending, turns>>
  \/ /\ route' = "pending" /\ at'["loop"] = "announcing"
     /\ cur'["loop"] \in pending /\ pending' = pending \ {cur'["loop"]}
     /\ UNCHANGED turns
  \/ /\ route' \in {"queue", "own"}
     /\ cur'["loop"] \in rest /\ cur'["loop"].kind # "ws"
     /\ \/ at'["loop"] \in {"announcing", "waiting"} /\ UNCHANGED turns
        \/ at'["loop"] \in {"micro", "running"} /\ Counted(cur'["loop"])
     /\ UNCHANGED pending

(* A message of the queue or of the batch is still with the loop, and none *)
(* is deferred or put aside.                                               *)
Kept(q, rest, held) ==
  /\ \A e \in q \cup rest : e.kind \in Channel => \E f \in LoopEvents' : Same(f, e)
  /\ (\A e \in held : e.kind \notin Channel) => \A e \in deferred' : e.kind \notin Channel
  /\ (\A e \in held \cup Aside : e.kind \notin Channel) => \A e \in Aside' : e.kind \notin Channel

(* What a dispatch makes of a queue q, a batch, the deferred events and    *)
(* the ones put aside.                                                     *)
Settled(q, rest, held) ==
  /\ LoopShape' /\ LineWaits' /\ PendingAreWakes' /\ BackgroundIsOnce'
  /\ queue' \in SUBSET Events /\ batch' \in SUBSET Events /\ deferred' \in SUBSET Events
  /\ pending' \in SUBSET Events /\ pending' \subseteq pending
  /\ background' \in Seq(Events)
  /\ deepBusy' \in BOOLEAN /\ route' \in {"none", "queue", "own", "pending"}
  /\ at' \in [Tasks -> TaskPlaces] /\ cur' \in [Tasks -> Events \cup {NoEvent}]
  /\ line' \in Seq(Tasks) /\ fg' \in {"none", "home", "channel", "wake"}
  /\ turns' \in [1..MaxEvents -> Nat]
  /\ \A t \in Tasks : t # "loop" => at'[t] = at[t] /\ cur'[t] = cur[t]
  /\ Five(queue, batch, Engaged, deferred, Aside)'
  /\ Moved(LoopEvents', q \cup rest \cup held \cup Aside)
  /\ Taken(rest)
  /\ Kept(q, rest, held)

LEMMA LegacyIs ==
  ASSUME TypeOK, LineWaits, PendingAreWakes, at["loop"] # "waiting", NEW q, NEW d, Legacy(q, d)
  PROVE  /\ queue' = q /\ batch' = {} /\ deferred' = {} /\ Engaged' = {}
         /\ LoopShape' /\ LineWaits' /\ PendingAreWakes'
         /\ pending' \in SUBSET Events /\ pending' \subseteq pending
         /\ deepBusy' \in BOOLEAN /\ route' \in {"none", "queue", "own", "pending"}
         /\ at' \in [Tasks -> TaskPlaces] /\ cur' \in [Tasks -> Events \cup {NoEvent}]
         /\ line' \in Seq(Tasks) /\ fg' \in {"none", "home", "channel", "wake"}
         /\ turns' \in [1..MaxEvents -> Nat]
         /\ \A t \in Tasks : t # "loop" => at'[t] = at[t] /\ cur'[t] = cur[t]
         /\ \A rest : Taken(rest)
<1>1. /\ queue' = q /\ batch' = {} /\ deferred' = {} /\ deepBusy' = FALSE
      /\ UNCHANGED <<line, fg, turns>>
  BY DEF Legacy
<1>2. pending \in SUBSET Events /\ cur \in [Tasks -> Events \cup {NoEvent}] /\ "loop" \in Tasks
  BY DEF TypeOK, Tasks
<1>3. PICK place, e, r :
        /\ LoopAt(place, e, r)
        /\ \/ /\ place = "announcing" /\ e \in Events /\ r = "pending"
              /\ e \in pending /\ pending' = pending \ {e}
           \/ place = "idle" /\ e = NoEvent /\ r = "none" /\ pending' = pending
        /\ pending' \subseteq pending
  <2>1. CASE ~d /\ pending # {} /\ ~UserBusy
    <3>1. BestPending \in Events /\ BestPending \in pending
      BY <1>2, <2>1, BestPendingIs
    <3> QED BY <2>1, <3>1 DEF Legacy
  <2>2. CASE ~(~d /\ pending # {} /\ ~UserBusy)
    BY <2>2 DEF Legacy
  <2> QED BY <2>1, <2>2
<1>4. at' = [at EXCEPT !["loop"] = place] /\ place \in TaskPlaces
  BY <1>3 DEF LoopAt, TaskPlaces
<1>5. /\ LineWaits' /\ line' \in Seq(Tasks) /\ at' \in [Tasks -> TaskPlaces]
      /\ at'["loop"] = place /\ \A u \in Tasks : u # "loop" => at'[u] = at[u]
  BY <1>1, <1>2, <1>4, LineAfter
<1>6. /\ cur' \in [Tasks -> Events \cup {NoEvent}] /\ cur'["loop"] = e /\ route' = r
      /\ \A u \in Tasks : u # "loop" => cur'[u] = cur[u]
  BY <1>2, <1>3 DEF LoopAt
<1>7. LoopShape'
  BY <1>1, <1>3, <1>5, <1>6 DEF LoopShape
<1>8. Engaged' = {}
  BY <1>3, <1>6 DEF Engaged
<1>9. \A rest : Taken(rest)
  BY <1>1, <1>3, <1>5, <1>6 DEF Taken
<1> QED
  BY <1>1, <1>2, <1>3, <1>5, <1>6, <1>7, <1>8, <1>9 DEF TypeOK, PendingAreWakes

(* A legacy path that keeps what is put aside. *)
LEMMA LegacySettles ==
  ASSUME TypeOK, LineWaits, PendingAreWakes, BackgroundIsOnce, at["loop"] # "waiting",
         NEW q \in SUBSET Events, NEW d,
         Distinct(q), Distinct(Aside), Apart(q, Aside),
         Legacy(q, d), UNCHANGED background
  PROVE  Settled(q, {}, {})
<1>1. Aside' = Aside /\ BackgroundIsOnce' /\ background' \in Seq(Events)
  BY DEF Aside, BackgroundIsOnce, OnceIn, TypeOK
<1>2. queue' = q /\ batch' = {} /\ deferred' = {} /\ Engaged' = {}
  BY LegacyIs
<1>3. Five(queue, batch, Engaged, deferred, Aside)'
  BY <1>1, <1>2 DEF Five, Distinct, Apart
<1>4. Moved(LoopEvents', q \cup {} \cup {} \cup Aside) /\ Kept(q, {}, {})
  BY <1>1, <1>2 DEF Moved, Kept, LoopEvents, Same
<1> QED BY <1>1, <1>2, <1>3, <1>4, LegacyIs DEF Settled

LEMMA OnceJoined ==
  ASSUME NEW a \in Seq(Events), NEW b \in Seq(Events), OnceIn(a), OnceIn(b),
         Apart(Range(a), Range(b))
  PROVE  a \o b \in Seq(Events) /\ OnceIn(a \o b) /\ Range(a \o b) = Range(a) \cup Range(b)
<1> DEFINE c == a \o b
           m == Len(a)
<1>1. /\ c \in Seq(Events) /\ DOMAIN c = 1..(m + Len(b)) /\ m \in Nat /\ Len(b) \in Nat
      /\ DOMAIN a = 1..m /\ DOMAIN b = 1..Len(b)
      /\ \A i \in 1..m : c[i] = a[i]
      /\ \A i \in 1..(m + Len(b)) : i > m => c[i] = b[i - m]
  OBVIOUS
<1>2. \A i \in DOMAIN b : i + m \in DOMAIN c /\ c[i + m] = b[i]
  BY <1>1
<1>3. \A i \in DOMAIN c : \/ i \in DOMAIN a /\ c[i] = a[i]
                          \/ i > m /\ i - m \in DOMAIN b /\ c[i] = b[i - m]
  BY <1>1
<1> HIDE DEF c, m
<1>4. \A i \in DOMAIN a, j \in DOMAIN b : a[i].born # b[j].born
  BY DEF Apart, Range
<1>5. ASSUME NEW i \in DOMAIN c, NEW j \in DOMAIN c, c[i].born = c[j].born PROVE i = j
  <2>1. CASE i \in DOMAIN a /\ c[i] = a[i] /\ j \in DOMAIN a /\ c[j] = a[j]
    BY <1>5, <2>1 DEF OnceIn
  <2>2. CASE i > m /\ i - m \in DOMAIN b /\ c[i] = b[i - m] /\ j > m /\ j - m \in DOMAIN b /\ c[j] = b[j - m]
    <3>1. i - m = j - m
      BY <1>5, <2>2 DEF OnceIn
    <3> QED BY <1>1, <3>1
  <2> QED BY <1>3, <1>4, <1>5, <2>1, <2>2
<1>6. Range(c) = Range(a) \cup Range(b)
  <2>1. \A x \in Range(c) : x \in Range(a) \cup Range(b)
    BY <1>3 DEF Range
  <2>2. \A x \in Range(a) : x \in Range(c)
    BY <1>1 DEF Range
  <2>3. \A x \in Range(b) : x \in Range(c)
    BY <1>2 DEF Range
  <2> QED BY <2>1, <2>2, <2>3
<1> QED BY <1>1, <1>5, <1>6 DEF OnceIn, c

LEMMA OnceTaken ==
  ASSUME NEW a \in Seq(Events), OnceIn(a), a # <<>>
  PROVE  /\ Head(a) \in Events /\ Head(a) \in Range(a)
         /\ Tail(a) \in Seq(Events) /\ OnceIn(Tail(a))
         /\ Range(Tail(a)) \subseteq Range(a)
         /\ \A e \in Range(Tail(a)) : e.born # Head(a).born
         /\ \A e \in Range(a) : e = Head(a) \/ e \in Range(Tail(a))
<1> DEFINE t == Tail(a)
<1>1. /\ DOMAIN a = 1..Len(a) /\ Len(a) \in Nat /\ Len(a) > 0 /\ Head(a) = a[1] /\ a[1] \in Events
      /\ t \in Seq(Events) /\ DOMAIN t = 1..(Len(a) - 1)
      /\ \A i \in DOMAIN t : t[i] = a[i + 1]
  OBVIOUS
<1>2. \A i \in DOMAIN a : i = 1 \/ (i - 1 \in DOMAIN t /\ t[i - 1] = a[i])
  BY <1>1
<1> HIDE DEF t
<1>3. \A i \in DOMAIN t : i + 1 \in DOMAIN a /\ i + 1 # 1 /\ i \in Nat /\ 1 \in DOMAIN a
  BY <1>1
<1>4. ASSUME NEW i \in DOMAIN t, NEW j \in DOMAIN t, t[i].born = t[j].born PROVE i = j
  <2>1. i + 1 = j + 1
    BY <1>1, <1>3, <1>4 DEF OnceIn
  <2> QED BY <1>3, <2>1
<1>5. \A e \in Range(t) : e \in Range(a) /\ e.born # Head(a).born
  BY <1>1, <1>3 DEF Range, OnceIn
<1>6. Head(a) \in Range(a)
  BY <1>1 DEF Range
<1>7. \A e \in Range(a) : e = Head(a) \/ e \in Range(t)
  BY <1>1, <1>2 DEF Range
<1> QED BY <1>1, <1>4, <1>5, <1>6, <1>7 DEF OnceIn, t

(* Events that come back from a turn to be put aside, one deferral older. *)
LEMMA AgedIs ==
  ASSUME NEW held \in SUBSET Events, Distinct(held), NEW kept,
         kept = {e \in {[e EXCEPT !.defers = @ + 1] : e \in held} : e.defers < MaxDefers}
  PROVE  kept \in SUBSET Events /\ Distinct(kept) /\ Moved(kept, held)
<1>1. ASSUME NEW e \in held
      PROVE  LET g == [e EXCEPT !.defers = @ + 1] IN
             /\ Same(g, e) /\ g.defers = e.defers + 1
             /\ g.defers < MaxDefers => g \in Events
  BY DispatchTypes DEF Events, Same
<1>2. \A g \in kept : \E e \in held : g = [e EXCEPT !.defers = @ + 1]
  OBVIOUS
<1>3. kept \in SUBSET Events
  BY <1>1, <1>2
<1> DEFINE old(e) == [e EXCEPT !.defers = @ + 1]
<1>4. ASSUME NEW g \in kept PROVE \E e \in held : g = old(e) /\ Same(g, e)
  <2>1. PICK e \in held : g = [e EXCEPT !.defers = @ + 1]
    BY <1>2
  <2>2. Same([e EXCEPT !.defers = @ + 1], e)
    BY <1>1
  <2> QED BY <2>1, <2>2
<1> HIDE DEF old
<1>5. Distinct(kept)
  BY <1>4 DEF Distinct, Same
<1>6. Moved(kept, held)
  BY <1>4 DEF Moved
<1> QED BY <1>3, <1>5, <1>6

LEMMA EndDispatchIs ==
  ASSUME TypeOK, LineWaits, PendingAreWakes, BackgroundIsOnce, at["loop"] # "waiting",
         NEW q \in SUBSET Events, NEW rest, NEW held \in SUBSET Events, NEW d,
         Distinct(q), Distinct(held), Distinct(Aside),
         Apart(q, held), Apart(q, Aside), Apart(held, Aside),
         \A e \in rest : e.kind \notin Channel,
         EndDispatch(q, held, d)
  PROVE  Settled(q, rest, held)
<1>1. PICK kept : kept = {e \in {[e EXCEPT !.defers = @ + 1] : e \in held} : e.defers < MaxDefers}
  OBVIOUS
<1>2. kept \in SUBSET Events /\ Distinct(kept) /\ Moved(kept, held)
  BY <1>1, AgedIs
<1>3. PICK o : o = InOrder(kept)
  OBVIOUS
<1>4. o \in Seq(Events) /\ Range(o) = kept /\ OnceIn(o)
  <2>1. o \in Seq(kept) /\ Range(o) = kept /\ \A i, j \in DOMAIN o : o[i] = o[j] => i = j
    BY <1>2, <1>3, InOrderIs
  <2>2. o \in Seq(Events)
    BY <1>2, <2>1
  <2>3. \A i \in DOMAIN o : o[i] \in kept
    BY <2>1
  <2>4. OnceIn(o)
    BY <1>2, <2>1, <2>3 DEF OnceIn, Distinct
  <2> QED BY <2>1, <2>2, <2>4
<1>5. PICK items : items = background \o o
  OBVIOUS
<1>6. items \in Seq(Events) /\ OnceIn(items) /\ Range(items) = Aside \cup kept
  <2>1. background \in Seq(Events) /\ OnceIn(background)
    BY DEF TypeOK, BackgroundIsOnce
  <2>2. Apart(Range(background), Range(o))
    BY <1>2, <1>4 DEF Apart, Moved, Aside, Same
  <2> QED BY <1>4, <1>5, <2>1, <2>2, OnceJoined DEF Aside
<1>7. \A e \in Range(items) : \E f \in held \cup Aside : Same(e, f)
  BY <1>2, <1>6 DEF Moved, Same
<1>8. CASE ~DeepBusy /\ items # <<>>
  <2>1. PICK p : p = Push(q, {Head(items)})
    OBVIOUS
  <2>2. PICK h, t : h = Head(items) /\ t = Tail(items)
    OBVIOUS
  <2>3. /\ h \in Events /\ h \in Range(items) /\ t \in Seq(Events) /\ OnceIn(t)
        /\ Range(t) \subseteq Range(items) /\ \A e \in Range(t) : e.born # h.born
    BY <1>6, <1>8, <2>2, OnceTaken
  <2>4. background' = t /\ Legacy(p, d)
    BY <1>1, <1>3, <1>5, <1>8, <2>1, <2>2 DEF EndDispatch
  <2>5. queue' = p /\ batch' = {} /\ deferred' = {} /\ Engaged' = {} /\ Aside' = Range(t)
    BY <2>4, LegacyIs DEF Aside
  <2>6. \A e \in q, f \in Range(items) : e.born # f.born
    BY <1>7 DEF Apart, Same
  <2>7. q \subseteq p /\ \A e \in p : e \in q \/ e = h
    BY <2>1, <2>2, PushIs
  <2>8. Distinct(p) /\ Apart(p, Range(t))
    BY <2>3, <2>6, <2>7 DEF Distinct, Apart
  <2>9. Distinct(Range(t))
    BY <2>3 DEF Distinct, OnceIn, Range
  <2>10. Five(queue, batch, Engaged, deferred, Aside)'
    BY <2>5, <2>8, <2>9 DEF Five, Distinct, Apart
  <2>11. Moved(LoopEvents', q \cup rest \cup held \cup Aside)
    BY <1>7, <2>3, <2>5, <2>7 DEF Moved, LoopEvents, Same
  <2>12. BackgroundIsOnce' /\ background' \in Seq(Events)
    BY <2>3, <2>4 DEF BackgroundIsOnce, OnceIn
  <2>13. queue' \in SUBSET Events
    BY <2>3, <2>5, <2>7
  <2>14. \A e \in Range(t) : \E f \in held \cup Aside : e.kind = f.kind
    BY <1>7, <2>3 DEF Same
  <2>15. Kept(q, rest, held)
    BY <2>5, <2>7, <2>14 DEF Kept, LoopEvents, Same
  <2> QED BY <2>4, <2>5, <2>10, <2>11, <2>12, <2>13, <2>15, LegacyIs DEF Settled
<1>9. CASE ~(~DeepBusy /\ items # <<>>)
  <2>1. background' = items /\ Legacy(q, d)
    BY <1>1, <1>3, <1>5, <1>9 DEF EndDispatch
  <2>2. queue' = q /\ batch' = {} /\ deferred' = {} /\ Engaged' = {} /\ Aside' = Range(items)
    BY <2>1, LegacyIs DEF Aside
  <2>3. Distinct(Range(items))
    BY <1>6 DEF Distinct, OnceIn, Range
  <2>4. Apart(q, Range(items))
    BY <1>7 DEF Apart, Same
  <2>5. Five(queue, batch, Engaged, deferred, Aside)'
    BY <2>2, <2>3, <2>4 DEF Five, Distinct, Apart
  <2>6. Moved(LoopEvents', q \cup rest \cup held \cup Aside)
    BY <1>7, <2>2 DEF Moved, LoopEvents, Same
  <2>7. BackgroundIsOnce' /\ background' \in Seq(Events)
    BY <1>6, <2>1 DEF BackgroundIsOnce, OnceIn
  <2>8. Kept(q, rest, held)
    BY <1>7, <2>2 DEF Kept, LoopEvents, Same
  <2> QED BY <2>1, <2>2, <2>5, <2>6, <2>7, <2>8, LegacyIs DEF Settled
<1> QED BY <1>8, <1>9

-----------------------------------------------------------------------------
(* The events of a batch                                                   *)

LEMMA BeginIs ==
  ASSUME TypeOK, NEW t, NEW e, Begin(t, e)
  PROVE  /\ at' = [at EXCEPT ![t] = "running"] /\ Counted(e) /\ fg' \in {"none", "home", "channel", "wake"}
         /\ turns' \in [1..MaxEvents -> Nat]
<1>1. /\ turns \in [1..MaxEvents -> Nat] /\ turns' = [turns EXCEPT ![e.of] = @ + 1]
      /\ Counted(e)
  BY DEF TypeOK, Begin, Counted
<1>2. turns' \in [1..MaxEvents -> Nat]
  <2>1. CASE e.of \in 1..MaxEvents
    BY <1>1, <2>1
  <2>2. CASE e.of \notin 1..MaxEvents
    BY <1>1, <2>2
  <2> QED BY <2>1, <2>2
<1> QED BY <1>2 DEF Begin, Foreground

LEMMA AcquireIs ==
  ASSUME TypeOK, LineWaits, NEW t \in Tasks, NEW e, at[t] # "waiting", AcquireDeep(t, e)
  PROVE  /\ LineWaits' /\ line' \in Seq(Tasks) /\ at' \in [Tasks -> TaskPlaces]
         /\ \A u \in Tasks : u # t => at'[u] = at[u]
         /\ \/ at'[t] = "waiting" /\ UNCHANGED turns
            \/ at'[t] = "running" /\ Counted(e)
         /\ fg' \in {"none", "home", "channel", "wake"} /\ turns' \in [1..MaxEvents -> Nat]
<1>1. "waiting" \in TaskPlaces /\ "running" \in TaskPlaces
  BY DEF TaskPlaces
<1>2. CASE ~DeepBusy /\ line = <<>>
  <2>1. Begin(t, e) /\ line' = line
    BY <1>2 DEF AcquireDeep
  <2> QED BY <1>1, <2>1, BeginIs, LineAfter
<1>3. CASE ~(~DeepBusy /\ line = <<>>)
  <2>1. at' = [at EXCEPT ![t] = "waiting"] /\ line' = Append(line, t) /\ UNCHANGED <<fg, turns>>
    BY <1>3 DEF AcquireDeep
  <2>2. /\ LineWaits' /\ line' \in Seq(Tasks) /\ at' \in [Tasks -> TaskPlaces]
        /\ at'[t] = "waiting" /\ \A u \in Tasks : u # t => at'[u] = at[u]
    BY <1>1, <2>1, LineAfter
  <2> QED BY <2>1, <2>2 DEF TypeOK
<1> QED BY <1>2, <1>3

LEMMA EngageIs ==
  ASSUME TypeOK, LineWaits, at["loop"] # "waiting", NEW e \in Events, NEW depth, Engage(e, depth)
  PROVE  /\ LineWaits' /\ line' \in Seq(Tasks) /\ at' \in [Tasks -> TaskPlaces]
         /\ \/ at'["loop"] \in {"announcing", "waiting"} /\ UNCHANGED turns
            \/ at'["loop"] \in {"micro", "running"} /\ Counted(e)
         /\ route' \in {"queue", "own"} /\ (at'["loop"] = "micro" => route' = "queue")
         /\ cur' \in [Tasks -> Events \cup {NoEvent}] /\ cur'["loop"] = e
         /\ \A t \in Tasks : t # "loop" => at'[t] = at[t] /\ cur'[t] = cur[t]
         /\ fg' \in {"none", "home", "channel", "wake"} /\ turns' \in [1..MaxEvents -> Nat]
<1>1. "loop" \in Tasks /\ {"micro", "announcing", "waiting", "running"} \subseteq TaskPlaces
  BY DEF Tasks, TaskPlaces
<1>2. /\ cur' = [cur EXCEPT !["loop"] = e] /\ cur \in [Tasks -> Events \cup {NoEvent}]
      /\ route' \in {"queue", "own"} /\ (depth # "full" => route' = "queue")
  BY DEF Engage, TypeOK
<1>3. /\ cur' \in [Tasks -> Events \cup {NoEvent}] /\ cur'["loop"] = e
      /\ \A t \in Tasks : t # "loop" => cur'[t] = cur[t]
  BY <1>1, <1>2
<1>4. CASE /\ depth = "micro" /\ at' = [at EXCEPT !["loop"] = "micro"]
           /\ Counted(e) /\ UNCHANGED <<line, fg>>
  <2>1. turns' \in [1..MaxEvents -> Nat] /\ fg' \in {"none", "home", "channel", "wake"}
    BY <1>4, EventFacts DEF Counted, TypeOK
  <2>2. /\ LineWaits' /\ line' \in Seq(Tasks) /\ at' \in [Tasks -> TaskPlaces]
        /\ at'["loop"] = "micro" /\ \A u \in Tasks : u # "loop" => at'[u] = at[u]
    BY <1>1, <1>4, LineAfter
  <2> QED BY <1>2, <1>3, <1>4, <2>1, <2>2
<1>5. CASE depth = "full" /\ at' = [at EXCEPT !["loop"] = "announcing"] /\ UNCHANGED <<line, fg, turns>>
  <2>1. turns' \in [1..MaxEvents -> Nat] /\ fg' \in {"none", "home", "channel", "wake"}
    BY <1>5 DEF TypeOK
  <2>2. /\ LineWaits' /\ line' \in Seq(Tasks) /\ at' \in [Tasks -> TaskPlaces]
        /\ at'["loop"] = "announcing" /\ \A u \in Tasks : u # "loop" => at'[u] = at[u]
    BY <1>1, <1>5, LineAfter
  <2> QED BY <1>2, <1>3, <1>5, <2>1, <2>2
<1>6. CASE depth = "full" /\ Begin("loop", e) /\ UNCHANGED line
  <2>1. /\ at' = [at EXCEPT !["loop"] = "running"] /\ Counted(e) /\ fg' \in {"none", "home", "channel", "wake"}
        /\ turns' \in [1..MaxEvents -> Nat]
    BY <1>6, BeginIs
  <2>2. /\ LineWaits' /\ line' \in Seq(Tasks) /\ at' \in [Tasks -> TaskPlaces]
        /\ at'["loop"] = "running" /\ \A u \in Tasks : u # "loop" => at'[u] = at[u]
    BY <1>1, <1>6, <2>1, LineAfter
  <2> QED BY <1>2, <1>3, <2>1, <2>2
<1>7. CASE depth = "full" /\ AcquireDeep("loop", e)
  <2>1. /\ LineWaits' /\ line' \in Seq(Tasks) /\ at' \in [Tasks -> TaskPlaces]
        /\ \/ at'["loop"] = "waiting" /\ UNCHANGED turns
           \/ at'["loop"] = "running" /\ Counted(e)
        /\ \A u \in Tasks : u # "loop" => at'[u] = at[u]
        /\ fg' \in {"none", "home", "channel", "wake"} /\ turns' \in [1..MaxEvents -> Nat]
    BY <1>1, <1>7, AcquireIs
  <2> QED BY <1>2, <1>3, <2>1
<1> QED BY <1>4, <1>5, <1>6, <1>7 DEF Engage

LEMMA ContinueIs ==
  ASSUME TypeOK, LineWaits, PendingAreWakes, BackgroundIsOnce, at["loop"] # "waiting",
         NEW q \in SUBSET Events, NEW rest \in SUBSET Events, NEW held \in SUBSET Events,
         NEW d, NEW busy \in BOOLEAN,
         Five(q, rest, {}, held, Aside),
         Continue(q, rest, held, d, busy)
  PROVE  Settled(q, rest, held)
<1>1. PICK o \in BOOLEAN :
        LET depth(e) == Depth(e, busy, o)
            engaging == {e \in rest : depth(e) \in {"micro", "full"}}
            defers(S) == {e \in S : depth(e) = "defer"}
        IN \/ /\ engaging = {}
              /\ EndDispatch(q, held \cup defers(rest), d)
           \/ /\ engaging # {}
              /\ Engage(First(engaging), depth(First(engaging)))
              /\ batch' = Remaining(rest, First(engaging))
              /\ deferred' = held \cup defers({f \in rest : Before(f, First(engaging))})
              /\ queue' = q /\ deepBusy' = busy
              /\ UNCHANGED <<pending, background>>
  BY DEF Continue
<1> DEFINE depth(e) == Depth(e, busy, o)
           engaging == {e \in rest : depth(e) \in {"micro", "full"}}
           defers(S) == {e \in S : depth(e) = "defer"}
<1>2. /\ \A e \in rest : e.kind \in Channel => e \in engaging
      /\ \A S : \A e \in defers(S) : e.kind \notin Channel
  BY DEF Depth, Channel, Wakes
<1>3. CASE engaging = {} /\ EndDispatch(q, held \cup defers(rest), d)
  <2>1. PICK h : h = held \cup defers(rest)
    OBVIOUS
  <2>2. h \in SUBSET Events /\ \A e \in h : e \in held \/ e \in rest
    BY <2>1
  <2>3. /\ Distinct(q) /\ Distinct(h) /\ Distinct(Aside)
        /\ Apart(q, h) /\ Apart(q, Aside) /\ Apart(h, Aside)
    BY <2>2 DEF Five, Distinct, Apart
  <2>4. EndDispatch(q, h, d)
    BY <1>3, <2>1
  <2>5. Settled(q, rest, h)
    <3>1. \A e \in rest : e.kind \notin Channel
      BY <1>3, <1>2
    <3> QED BY <2>2, <2>3, <2>4, <3>1, EndDispatchIs
  <2>6. Moved(LoopEvents', q \cup rest \cup held \cup Aside)
    BY <2>2, <2>5 DEF Settled, Moved
  <2>7. Kept(q, rest, held)
    <3>1. (\A e \in held : e.kind \notin Channel) => \A e \in h : e.kind \notin Channel
      BY <1>2, <2>1
    <3> QED BY <2>5, <3>1 DEF Settled, Kept
  <2> QED BY <2>5, <2>6, <2>7 DEF Settled
<1>4. CASE /\ engaging # {}
           /\ Engage(First(engaging), depth(First(engaging)))
           /\ batch' = Remaining(rest, First(engaging))
           /\ deferred' = held \cup defers({f \in rest : Before(f, First(engaging))})
           /\ queue' = q /\ deepBusy' = busy
           /\ UNCHANGED <<pending, background>>
  <2>1. PICK e : e = First(engaging)
    OBVIOUS
  <2>2. /\ e \in rest /\ e \in Events /\ e.kind # "ws"
        /\ \A f \in rest : f.kind \in Channel => f = e \/ Before(e, f)
    <3>1. engaging \in SUBSET Events /\ Distinct(engaging)
      BY DEF Five, Distinct
    <3>2. engaging # {}
      BY <1>4
    <3> HIDE DEF engaging
    <3>3. e \in engaging /\ \A f \in engaging : f = e \/ Before(e, f)
      BY <2>1, <3>1, <3>2, FirstIs
    <3>4. e \in rest /\ Depth(e, busy, o) \in {"micro", "full"}
      BY <3>3 DEF engaging
    <3>5. \A f \in rest : f.kind \in Channel => f = e \/ Before(e, f)
      BY <1>2, <3>3
    <3> QED BY <3>4, <3>5 DEF Depth
  <2>3. /\ Engage(e, depth(e)) /\ batch' = {f \in rest : Before(e, f)}
        /\ queue' = q /\ deepBusy' = busy /\ UNCHANGED <<pending, background>>
    BY <1>4, <2>1 DEF Remaining
  <2>4. /\ deferred' \in SUBSET Events /\ deferred' \subseteq held \cup {f \in rest : Before(f, e)}
        /\ \A f \in deferred' : f \in held \/ f.kind \notin Channel
    BY <1>4, <1>2, <2>1
  <2> HIDE DEF depth
  <2>5. Distinct(rest) /\ \A f \in rest : /\ Before(e, f) => f.born # e.born /\ ~Before(f, e)
                                          /\ Before(f, e) => f.born # e.born
    BY <2>2, BeforeIsOrder DEF Five, Distinct
  <2>6. /\ LineWaits' /\ line' \in Seq(Tasks) /\ at' \in [Tasks -> TaskPlaces]
        /\ \/ at'["loop"] \in {"announcing", "waiting"} /\ UNCHANGED turns
           \/ at'["loop"] \in {"micro", "running"} /\ Counted(e)
        /\ route' \in {"queue", "own"} /\ (at'["loop"] = "micro" => route' = "queue")
        /\ cur' \in [Tasks -> Events \cup {NoEvent}] /\ cur'["loop"] = e
        /\ \A t \in Tasks : t # "loop" => at'[t] = at[t] /\ cur'[t] = cur[t]
        /\ fg' \in {"none", "home", "channel", "wake"} /\ turns' \in [1..MaxEvents -> Nat]
    BY <2>2, <2>3, EngageIs
  <2>7. Engaged' = {e} /\ Aside' = Aside
    BY <2>3, <2>6 DEF Engaged, Aside
  <2>8. LoopShape' /\ PendingAreWakes' /\ BackgroundIsOnce'
    BY <2>2, <2>3, <2>6 DEF LoopShape, PendingAreWakes, BackgroundIsOnce, OnceIn
  <2>9. Distinct(batch') /\ Apart(q, batch') /\ Apart(batch', {e}) /\ Apart(batch', Aside)
    BY <2>3, <2>5 DEF Five, Distinct, Apart
  <2>10. Distinct(deferred') /\ Apart(q, deferred') /\ Apart({e}, deferred') /\ Apart(deferred', Aside)
    <3>1. \A f \in deferred' : f \in held \/ (f \in rest /\ f.born # e.born)
      BY <2>4, <2>5
    <3> QED BY <2>2, <3>1 DEF Five, Distinct, Apart
  <2>11. Apart(batch', deferred')
    <3>1. \A f \in deferred' : f \in held \/ (f \in rest /\ Before(f, e))
      BY <2>4
    <3>2. \A f \in batch' : f \in rest /\ ~Before(f, e)
      BY <2>3, <2>5
    <3> QED BY <3>1, <3>2 DEF Five, Distinct, Apart
  <2>12. Distinct({e}) /\ Apart(q, {e}) /\ Apart({e}, Aside) /\ Distinct(q) /\ Distinct(Aside) /\ Apart(q, Aside)
    BY <2>2 DEF Five, Distinct, Apart
  <2>13. Five(queue, batch, Engaged, deferred, Aside)'
    BY <2>3, <2>7, <2>9, <2>10, <2>11, <2>12 DEF Five, Distinct, Apart
  <2>14. Moved(LoopEvents', q \cup rest \cup held \cup Aside)
    <3>1. \A f \in LoopEvents' : f \in q \cup rest \cup held \cup Aside
      BY <2>2, <2>3, <2>4, <2>7 DEF LoopEvents
    <3> QED BY <3>1 DEF Moved, Same
  <2>15. /\ queue' \in SUBSET Events /\ batch' \in SUBSET Events
         /\ pending' \in SUBSET Events /\ pending' \subseteq pending
         /\ background' \in Seq(Events) /\ deepBusy' \in BOOLEAN
    BY <2>3 DEF TypeOK
  <2>16. Taken(rest)
    BY <2>2, <2>3, <2>6 DEF Taken, Counted
  <2>17. Kept(q, rest, held)
    BY <2>2, <2>3, <2>4, <2>7 DEF Kept, LoopEvents, Same
  <2> QED BY <2>4, <2>6, <2>8, <2>13, <2>14, <2>15, <2>16, <2>17 DEF Settled
<1> QED BY <1>1, <1>3, <1>4

-----------------------------------------------------------------------------
(* The steps of the loop                                                   *)

(* A dispatch that takes its events from their places, and leaves behind   *)
(* at most the event that the loop had in hand.                            *)
LEMMA SettledKeeps ==
  ASSUME DispatchInv, NEW q, NEW rest, NEW held, Settled(q, rest, held),
         NEW Src, Src = q \cup rest \cup held \cup Aside, Src \subseteq Placed,
         stash' \subseteq stash, Apart(stash', Src),
         \A b \in processed' : b \in processed \/ \E e \in Engaged : e.born = b,
         \A e \in Src \cup stash' : e.born \notin processed',
         inbox' \subseteq inbox, UNCHANGED <<loop, replayDue, born, recorded>>
  PROVE  DispatchInv'
<1>1. /\ processed \in SUBSET (1..MaxEvents) /\ stash \in SUBSET Events /\ inbox \in SUBSET Events
      /\ born \in Nat
  BY DEF DispatchInv, TypeOK
<1>2. \A e \in Engaged : e \in Events /\ e \in Placed
  BY DEF Engaged, Placed, LoopEvents, DispatchInv, LoopShape
<1>3. \A e \in Placed : e.born <= born
  BY DEF DispatchInv, NotYetBorn
<1>4. \A e \in LoopEvents' : \E f \in Src : e.born = f.born
  BY DEF Settled, Moved, Same
<1>5. TypeOK'
  <2>1. \A b \in processed' : b \in 1..MaxEvents
    BY <1>1, <1>2, EventFacts
  <2> QED BY <1>1, <2>1 DEF Settled, DispatchInv, TypeOK, TaskPlaces
<1>6. Distinct(inbox)' /\ \A r \in inbox' : r.of = r.born /\ r.born <= born
  BY DEF DispatchInv, NotYetBorn, Distinct
<1>7. NotYetBorn'
  <2>1. \A b \in processed' : b <= born
    BY <1>2, <1>3 DEF DispatchInv, NotYetBorn
  <2>2. \A e \in Placed' : \E f \in Placed : e.born = f.born
    BY <1>4 DEF Placed
  <2>3. \A e \in Placed' : e.born <= born
    BY <1>3, <2>2
  <2> QED BY <1>6, <2>1, <2>3 DEF NotYetBorn
<1>8. PlacesInv'
  <2>1. Distinct(stash)' /\ Apart(stash, LoopEvents)'
    BY <1>4 DEF DispatchInv, PlacesInv, Distinct, Apart
  <2>2. \A e \in Placed' : e.born \notin processed'
    BY <1>4 DEF Placed
  <2>3. HomeIsApart'
    <3>1. SUFFICES ASSUME at'["home"] = "arrived"
                   PROVE  /\ cur'["home"] \in Events /\ cur'["home"].born <= born'
                          /\ cur'["home"].born \notin processed'
                          /\ Apart({cur'["home"]}, Placed')
      BY DEF HomeIsApart
    <3>2. at["home"] = "arrived" /\ cur'["home"] = cur["home"]
      BY <3>1 DEF Settled, Tasks
    <3>3. /\ cur["home"] \in Events /\ cur["home"].born <= born
          /\ cur["home"].born \notin processed
          /\ \A e \in Placed : e.born # cur["home"].born
      BY <3>2 DEF DispatchInv, PlacesInv, HomeIsApart, Apart
    <3>4. cur["home"].born \notin processed'
      BY <1>2, <3>3
    <3>5. Apart({cur["home"]}, Placed')
      <4>1. \A e \in Placed' : \E f \in Placed : e.born = f.born
        BY <1>4 DEF Placed
      <4> QED BY <3>3, <4>1 DEF Apart
    <3> QED BY <3>2, <3>3, <3>4, <3>5
  <2> QED BY <2>1, <2>2, <2>3 DEF Settled, PlacesInv
<1> QED BY <1>5, <1>6, <1>7, <1>8 DEF DispatchInv, Settled

LEMMA InvTypes ==
  ASSUME DispatchInv
  PROVE  /\ TypeOK /\ LoopShape /\ LineWaits /\ PendingAreWakes /\ BackgroundIsOnce
         /\ queue \in SUBSET Events /\ batch \in SUBSET Events /\ deferred \in SUBSET Events
         /\ stash \in SUBSET Events /\ deepBusy \in BOOLEAN /\ born \in Nat
         /\ Engaged \in SUBSET Events /\ Aside \in SUBSET Events
         /\ cur \in [Tasks -> Events \cup {NoEvent}]
<1>1. Aside \in SUBSET Events
  <2>1. background \in Seq(Events)
    BY DEF DispatchInv, TypeOK
  <2> QED BY <2>1 DEF Aside, Range
<1> QED BY <1>1 DEF DispatchInv, TypeOK, Engaged, LoopShape

(* What a flush of the stash finds no room for. *)
Unpushed == stash \ Push(queue, stash)

(* A breath routes some of the queue and of the stash and leaves some.      *)
LEMMA BreathSettles ==
  ASSUME DispatchInv, Breath
  PROVE  \E q \in SUBSET (queue \cup stash) :
           /\ Apart(stash', q \cup Aside) /\ stash' \subseteq stash
           /\ queue \cup stash \subseteq q \cup stash' \cup Unpushed
           /\ \E rest \in SUBSET q, left \in SUBSET q :
                Settled(left, rest, {}) /\ q \subseteq left \cup rest
<1>1. /\ at["loop"] = "idle" /\ stash' = (IF Busy THEN stash ELSE {})
      /\ UNCHANGED <<loop, processed, inbox, replayDue, born, recorded>>
  BY DEF Breath
<1>2. batch = {} /\ deferred = {} /\ Engaged = {}
  BY <1>1 DEF DispatchInv, LoopShape, Engaged
<1>3. PICK q : q = IF Busy THEN queue ELSE Push(queue, stash)
  OBVIOUS
<1>4. /\ q \in SUBSET Events /\ Distinct(q) /\ Distinct(Aside) /\ Apart(q, Aside)
      /\ q \subseteq Placed /\ Aside \subseteq Placed
      /\ Apart(stash', q \cup Aside) /\ stash' \subseteq stash
  <2>1. /\ Distinct(queue) /\ Distinct(Aside) /\ Apart(queue, Aside) /\ Distinct(stash)
        /\ \A e \in stash, f \in queue \cup Aside : e.born # f.born
    BY DEF DispatchInv, PlacesInv, Five, LoopEvents, Apart
  <2>2. \A e \in q : e \in queue \/ (~Busy /\ e \in stash)
    BY <1>3, PushIs
  <2>3. q \in SUBSET Events /\ q \subseteq Placed /\ Aside \subseteq Placed
    BY <2>2, InvTypes DEF Placed, LoopEvents
  <2>4. CASE Busy
    BY <1>1, <2>1, <2>2, <2>3, <2>4 DEF Apart, Distinct
  <2>5. CASE ~Busy
    BY <1>1, <2>1, <2>2, <2>3, <2>5 DEF Apart, Distinct
  <2> QED BY <2>4, <2>5
<1>5. \E rest \in SUBSET q, left \in SUBSET q :
        Settled(left, rest, {}) /\ q \subseteq left \cup rest
  <2>1. CASE ~CanDispatch(q) /\ Legacy(q, FALSE) /\ UNCHANGED background
    <3>1. Settled(q, {}, {})
      BY <1>1, <1>4, <2>1, InvTypes, LegacySettles
    <3> QED BY <3>1
  <2>2. CASE CanDispatch(q) /\ DrainAndContinue(q)
    <3>1. PICK fresh, left : /\ fresh = {e \in Drained(q) : e.born \notin processed}
                             /\ left = q \ Drained(q)
      OBVIOUS
    <3>2. fresh \in SUBSET q /\ left \in SUBSET q /\ fresh \cap left = {}
      BY <3>1 DEF Drained
    <3>3. q \subseteq left \cup fresh
      <4>1. \A e \in q : e.born \notin processed
        BY <1>4 DEF DispatchInv, PlacesInv
      <4> QED BY <3>1, <4>1
    <3>4. Distinct(left) /\ Apart(left, Aside)
      BY <1>4, <3>2 DEF Distinct, Apart
    <3>5. CASE fresh = {} /\ Legacy(left, FALSE) /\ UNCHANGED background
      <4>1. Settled(left, {}, {})
        BY <1>1, <1>4, <3>2, <3>4, <3>5, InvTypes, LegacySettles
      <4> QED BY <3>2, <3>5, <3>3, <4>1
    <3>6. CASE Continue(left, fresh, {}, FALSE, DeepBusy)
      <4>1. Five(left, fresh, {}, {}, Aside)
        BY <1>4, <3>2 DEF Five, Distinct, Apart
      <4>2. Settled(left, fresh, {})
        BY <1>1, <1>4, <3>2, <3>6, <4>1, InvTypes, ContinueIs DEF DeepBusy
      <4> QED BY <3>2, <3>3, <4>2
    <3> QED BY <2>2, <3>1, <3>5, <3>6 DEF DrainAndContinue
  <2> QED BY <1>3, <2>1, <2>2 DEF Breath
<1>6. q \in SUBSET (queue \cup stash) /\ queue \cup stash \subseteq q \cup stash' \cup Unpushed
  BY <1>1, <1>3, PushIs DEF Unpushed
<1> QED BY <1>4, <1>5, <1>6

LEMMA BreathKeeps ==
  ASSUME DispatchInv, Breath
  PROVE  DispatchInv'
<1>1. UNCHANGED <<loop, processed, inbox, replayDue, born, recorded>>
  BY DEF Breath
<1>2. batch = {} /\ deferred = {} /\ Engaged = {}
  BY DEF Breath, DispatchInv, LoopShape, Engaged
<1>3. PICK q \in SUBSET (queue \cup stash) :
        /\ Apart(stash', q \cup Aside) /\ stash' \subseteq stash
        /\ \E rest \in SUBSET q, left \in SUBSET q : Settled(left, rest, {})
  BY BreathSettles
<1>4. PICK rest \in SUBSET q, left \in SUBSET q : Settled(left, rest, {})
  BY <1>3
<1>5. PICK Src : Src = left \cup rest \cup {} \cup Aside
  OBVIOUS
<1>6. Src \subseteq Placed /\ Apart(stash', Src)
  BY <1>3, <1>4, <1>5 DEF Apart, Placed, LoopEvents
<1>7. \A e \in Src \cup stash' : e.born \notin processed'
  BY <1>1, <1>3, <1>6 DEF DispatchInv, PlacesInv, Placed
<1> QED BY <1>1, <1>3, <1>4, <1>5, <1>6, <1>7, SettledKeeps

(* The event in hand was processed; the dispatch goes on or ends. *)
LEMMA AfterTurnKeeps ==
  ASSUME DispatchInv, NEW rest \in SUBSET batch, Settled(queue, rest, deferred),
         route \in {"queue", "own"}, processed' = processed \cup {cur["loop"].born},
         inbox' \subseteq inbox, UNCHANGED <<loop, stash, replayDue, born, recorded>>
  PROVE  DispatchInv'
<1>1. Engaged = {cur["loop"]}
  BY DEF Engaged
<1>2. PICK Src : Src = queue \cup rest \cup deferred \cup Aside
  OBVIOUS
<1>3. Src \subseteq Placed /\ Src \subseteq LoopEvents
  BY <1>2 DEF Placed, LoopEvents
<1>4. \A e \in Src \cup stash' : e.born # cur["loop"].born
  BY <1>1, <1>2 DEF DispatchInv, PlacesInv, Five, Apart, LoopEvents
<1>5. \A e \in Src \cup stash' : e.born \notin processed'
  BY <1>3, <1>4 DEF DispatchInv, PlacesInv, Placed
<1>6. Apart(stash', Src)
  BY <1>3 DEF DispatchInv, PlacesInv, Apart
<1> QED BY <1>1, <1>2, <1>3, <1>5, <1>6, SettledKeeps

LEMMA TurnSettles ==
  ASSUME DispatchInv, MicroReplied \/ QueueTurnCloses
  PROVE  /\ at["loop"] \in {"micro", "closing"} /\ route \in {"queue", "own"}
         /\ processed' = processed \cup {cur["loop"].born} /\ inbox' \subseteq inbox
         /\ UNCHANGED <<loop, stash, replayDue, born, recorded>>
         /\ \E rest \in SUBSET batch :
              Settled(queue, rest, deferred) /\ (at["loop"] = "micro" => rest = batch)
<1>1. CASE MicroReplied
  <2>1. /\ at["loop"] = "micro" /\ processed' = processed \cup {cur["loop"].born}
        /\ Continue(queue, batch, deferred, TRUE, deepBusy)
        /\ UNCHANGED <<loop, stash, inbox, replayDue, born, recorded>>
    BY <1>1 DEF MicroReplied
  <2>2. route = "queue"
    BY <2>1 DEF DispatchInv, LoopShape
  <2>3. Five(queue, batch, {}, deferred, Aside)
    BY DEF DispatchInv, PlacesInv, Five, Distinct, Apart
  <2>4. Settled(queue, batch, deferred)
    BY <2>1, <2>3, InvTypes, ContinueIs
  <2> QED BY <2>1, <2>2, <2>4
<1>2. CASE QueueTurnCloses
  <2>1. /\ at["loop"] = "closing" /\ route # "pending"
        /\ processed' = processed \cup {cur["loop"].born}
        /\ inbox' \subseteq inbox
        /\ EndDispatch(queue, deferred, TRUE)
        /\ UNCHANGED <<loop, stash, replayDue, born, recorded>>
    BY <1>2 DEF QueueTurnCloses
  <2>2. route \in {"queue", "own"}
    BY <2>1 DEF DispatchInv, LoopShape, TypeOK
  <2>3. /\ Distinct(queue) /\ Distinct(deferred) /\ Distinct(Aside)
        /\ Apart(queue, deferred) /\ Apart(queue, Aside) /\ Apart(deferred, Aside)
    BY DEF DispatchInv, PlacesInv, Five
  <2>4. Settled(queue, {}, deferred)
    BY <2>1, <2>3, InvTypes, EndDispatchIs
  <2> QED BY <2>1, <2>2, <2>4
<1> QED BY <1>1, <1>2

LEMMA TurnSettlesKeeps ==
  ASSUME DispatchInv, MicroReplied \/ QueueTurnCloses
  PROVE  DispatchInv'
BY TurnSettles, AfterTurnKeeps

-----------------------------------------------------------------------------
(* The steps beside a dispatch                                             *)

(* Nothing that is somewhere or was processed has this event's birth. *)
Outside(e) == e.born \notin processed /\ \A f \in Placed : e.born # f.born

LEMMA NewIsOutside ==
  ASSUME DispatchInv, NEW e, e.born \in Nat, e.born > born
  PROVE  Outside(e)
<1>1. born \in Nat /\ processed \in SUBSET (1..MaxEvents) /\ Placed \in SUBSET Events
  BY InvTypes DEF DispatchInv, TypeOK, Placed, LoopEvents
<1>2. \A b \in processed : b <= born
  BY DEF DispatchInv, NotYetBorn
<1>3. \A f \in Placed : f.born <= born
  BY DEF DispatchInv, NotYetBorn
<1>4. ~(e.born <= born)
  BY <1>1
<1> QED BY <1>2, <1>3, <1>4 DEF Outside

(* Events enter the queue or the stash, or go from one to the other. *)
LEMMA PlacesKept ==
  ASSUME DispatchInv,
         batch' = batch, deferred' = deferred, Engaged' = Engaged, background' = background,
         processed' = processed,
         \A e \in queue' : e \in queue \cup stash \/ Outside(e),
         \A e \in stash' : e \in stash \/ Outside(e),
         Distinct(queue'), Distinct(stash'), Apart(stash', queue'),
         \A e \in queue' \cup stash' : e.born <= born',
         \A e \in Placed : e.born <= born',
         HomeIsApart'
  PROVE  /\ PlacesInv' /\ \A e \in Placed' : e.born <= born'
<1> DEFINE rest == batch \cup Engaged \cup deferred \cup Aside
<1>1. Aside' = Aside
  BY DEF Aside
<1>2. /\ Five(queue, batch, Engaged, deferred, Aside)
      /\ Distinct(stash) /\ Apart(stash, LoopEvents)
      /\ \A e \in Placed : e.born \notin processed
  BY DEF DispatchInv, PlacesInv
<1>3. \A e \in queue \cup stash, f \in rest : e.born # f.born
  BY <1>2 DEF Five, Apart, LoopEvents
<1>4. \A e \in queue' \cup stash', f \in rest : e.born # f.born
  BY <1>3 DEF Outside, Placed, LoopEvents
<1>5. Five(queue', batch, Engaged, deferred, Aside)
  BY <1>2, <1>4 DEF Five, Apart
<1>6. Apart(stash', queue' \cup rest)
  BY <1>4 DEF Apart
<1>7. LoopEvents' = queue' \cup rest
  BY <1>1 DEF LoopEvents
<1>8. rest \subseteq Placed /\ Placed' = queue' \cup rest \cup stash'
  BY <1>7 DEF Placed, LoopEvents
<1>9. \A e \in Placed' : e.born \notin processed
  BY <1>2, <1>8 DEF Placed, LoopEvents, Outside
<1>10. \A e \in Placed' : e.born <= born'
  BY <1>8
<1> HIDE DEF rest
<1>11. Five(queue, batch, Engaged, deferred, Aside)'
  BY <1>1, <1>5
<1>12. Distinct(stash)' /\ Apart(stash, LoopEvents)'
  BY <1>6, <1>7
<1> QED BY <1>9, <1>10, <1>11, <1>12 DEF PlacesInv

LEMMA HomeKept ==
  ASSUME DispatchInv, processed' \subseteq processed, born' \in Nat, born <= born',
         at'["home"] = "arrived" => at["home"] = "arrived" /\ cur'["home"] = cur["home"],
         \A e \in Placed' : \/ \E f \in Placed : e.born = f.born
                            \/ e.born \in Nat /\ e.born > born
  PROVE  HomeIsApart'
<1> SUFFICES ASSUME at'["home"] = "arrived"
             PROVE  /\ cur["home"] \in Events /\ cur["home"].born <= born'
                    /\ cur["home"].born \notin processed'
                    /\ Apart({cur["home"]}, Placed')
  BY DEF HomeIsApart
<1>1. /\ cur["home"] \in Events /\ cur["home"].born <= born
      /\ cur["home"].born \notin processed
      /\ \A e \in Placed : cur["home"].born # e.born
  BY DEF DispatchInv, PlacesInv, HomeIsApart, Apart
<1>2. cur["home"].born \in Nat /\ born \in Nat
  BY <1>1, EventFacts, InvTypes
<1>3. \A e \in Placed' : cur["home"].born # e.born
  BY <1>1, <1>2
<1> QED BY <1>1, <1>2, <1>3 DEF Apart

(* No event changes its place. *)
LEMMA QuietKeeps ==
  ASSUME DispatchInv,
         UNCHANGED <<queue, processed, pending, batch, deferred, deepBusy, route, background,
                     stash, inbox, replayDue, born, recorded>>,
         loop' \in LoopStates,
         cur' \in [Tasks -> Events \cup {NoEvent}], fg' \in {"none", "home", "channel", "wake"},
         turns' \in [1..MaxEvents -> Nat],
         LineWaits', line' \in Seq(Tasks), at' \in [Tasks -> TaskPlaces],
         cur'["loop"] = cur["loop"],
         \/ at'["loop"] = at["loop"]
         \/ at["loop"] # "idle" /\ at'["loop"] \in {"waiting", "running", "closing"},
         at'["home"] = "arrived" => at["home"] = "arrived" /\ cur'["home"] = cur["home"]
  PROVE  DispatchInv'
<1>1. Engaged' = Engaged /\ Aside' = Aside /\ born \in Nat
  BY InvTypes DEF Engaged, Aside
<1>2. Placed' = Placed
  BY <1>1 DEF Placed, LoopEvents
<1>3. HomeIsApart'
  BY <1>1, <1>2, HomeKept
<1>4. PlacesInv' /\ \A e \in Placed' : e.born <= born'
  <2>1. /\ \A e \in Placed : e.born <= born
        /\ Distinct(queue) /\ Distinct(stash) /\ Apart(stash, queue)
    BY DEF DispatchInv, NotYetBorn, PlacesInv, Five, Apart, LoopEvents
  <2>2. \A e \in queue \cup stash : e.born <= born
    BY <2>1 DEF Placed, LoopEvents
  <2> QED BY <1>1, <1>3, <2>1, <2>2, PlacesKept
<1>5. LoopShape'
  BY DEF DispatchInv, LoopShape
<1>6. TypeOK'
  BY DEF DispatchInv, TypeOK, TaskPlaces
<1>7. NotYetBorn' /\ Distinct(inbox)' /\ PendingAreWakes' /\ BackgroundIsOnce'
  BY <1>4 DEF DispatchInv, NotYetBorn, Distinct, PendingAreWakes, BackgroundIsOnce, OnceIn
<1> QED BY <1>4, <1>5, <1>6, <1>7 DEF DispatchInv

LEMMA HandOverIs ==
  ASSUME TypeOK, LineWaits, HandOver
  PROVE  \E t \in Tasks :
           /\ t = Head(line) /\ at[t] = "waiting" /\ at' = [at EXCEPT ![t] = "running"]
           /\ LineWaits' /\ line' \in Seq(Tasks) /\ at' \in [Tasks -> TaskPlaces]
           /\ fg' \in {"none", "home", "channel", "wake"} /\ turns' \in [1..MaxEvents -> Nat]
<1> DEFINE t == Head(line)
           r == Tail(line)
<1>1. /\ line \in Seq(Tasks) /\ line # <<>> /\ at \in [Tasks -> TaskPlaces]
      /\ Begin(t, cur[t]) /\ line' = r
  BY DEF HandOver, TypeOK, TaskPlaces
<1>2. /\ DOMAIN line = 1..Len(line) /\ Len(line) \in Nat /\ Len(line) > 0 /\ t = line[1] /\ t \in Tasks
      /\ r \in Seq(Tasks) /\ DOMAIN r = 1..(Len(line) - 1)
      /\ \A i \in DOMAIN r : r[i] = line[i + 1]
  BY <1>1
<1>3. \A i \in DOMAIN r : i \in Nat /\ i + 1 \in DOMAIN line /\ i + 1 # 1 /\ 1 \in DOMAIN line
  BY <1>2
<1>4. \A i, j \in DOMAIN line : line[i] = line[j] => i = j
  BY DEF LineWaits, IsInjective
<1>5. at[t] = "waiting"
  BY <1>2, <1>3 DEF LineWaits
<1>6. /\ at' = [at EXCEPT ![t] = "running"]
      /\ fg' \in {"none", "home", "channel", "wake"} /\ turns' \in [1..MaxEvents -> Nat]
  BY <1>1, BeginIs
<1>7. at' \in [Tasks -> TaskPlaces] /\ \A u \in Tasks : u # t => at'[u] = at[u]
  BY <1>1, <1>2, <1>6 DEF TaskPlaces
<1> HIDE DEF r, t
<1>8. ASSUME NEW i \in DOMAIN r, NEW j \in DOMAIN r, r[i] = r[j] PROVE i = j
  <2>1. i + 1 = j + 1
    BY <1>2, <1>3, <1>4, <1>8
  <2> QED BY <1>3, <2>1
<1>9. ASSUME NEW i \in DOMAIN r PROVE at'[r[i]] = "waiting"
  <2>1. r[i] = line[i + 1] /\ line[i + 1] # t /\ at[line[i + 1]] = "waiting" /\ r[i] \in Tasks
    BY <1>1, <1>2, <1>3, <1>4 DEF LineWaits
  <2> QED BY <1>7, <2>1
<1>10. LineWaits'
  BY <1>1, <1>8, <1>9 DEF LineWaits, IsInjective
<1> QED BY <1>1, <1>2, <1>5, <1>6, <1>7, <1>10 DEF t

LEMMA HandOverKeeps ==
  ASSUME DispatchInv, HandOver
  PROVE  DispatchInv'
<1>1. PICK t \in Tasks :
        /\ t = Head(line) /\ at[t] = "waiting" /\ at' = [at EXCEPT ![t] = "running"]
        /\ LineWaits' /\ line' \in Seq(Tasks) /\ at' \in [Tasks -> TaskPlaces]
        /\ fg' \in {"none", "home", "channel", "wake"} /\ turns' \in [1..MaxEvents -> Nat]
  BY InvTypes, HandOverIs
<1>2. /\ UNCHANGED <<queue, processed, pending, batch, deferred, deepBusy, route, background,
                     stash, inbox, replayDue, born, recorded, loop, cur>>
  BY DEF HandOver, loopVars, holdVars
<1>3. at \in [Tasks -> TaskPlaces] /\ cur \in [Tasks -> Events \cup {NoEvent}]
      /\ loop \in LoopStates
  BY DEF DispatchInv, TypeOK, TaskPlaces
<1>4. /\ at'["loop"] = at["loop"] \/ (at["loop"] # "idle" /\ at'["loop"] \in {"waiting", "running", "closing"})
      /\ at'["home"] = "arrived" => at["home"] = "arrived"
  BY <1>1, <1>3
<1> QED BY <1>1, <1>2, <1>3, <1>4, QuietKeeps

LEMMA LoopTurnKeeps ==
  ASSUME DispatchInv, WakeEnters \/ LoopTurnEnds
  PROVE  DispatchInv'
<1>0. /\ "loop" \in Tasks /\ "home" \in Tasks /\ {"running", "closing"} \subseteq TaskPlaces
      /\ cur \in [Tasks -> Events \cup {NoEvent}] /\ loop \in LoopStates
      /\ turns \in [1..MaxEvents -> Nat]
  BY DEF Tasks, TaskPlaces, DispatchInv, TypeOK
<1>1. CASE WakeEnters
  <2>1. at["loop"] = "announcing" /\ AcquireDeep("loop", cur["loop"])
        /\ UNCHANGED <<queue, processed, pending, batch, deferred, deepBusy, route, background,
                       stash, inbox, replayDue, born, recorded, loop, cur>>
    BY <1>1 DEF WakeEnters, loopVars, holdVars
  <2>2. /\ LineWaits' /\ line' \in Seq(Tasks) /\ at' \in [Tasks -> TaskPlaces]
        /\ at'["loop"] \in {"waiting", "running"} /\ \A u \in Tasks : u # "loop" => at'[u] = at[u]
        /\ fg' \in {"none", "home", "channel", "wake"} /\ turns' \in [1..MaxEvents -> Nat]
    BY <1>0, <2>1, InvTypes, AcquireIs
  <2> QED BY <1>0, <2>1, <2>2, QuietKeeps
<1>2. CASE LoopTurnEnds
  <2>1. /\ at["loop"] = "running" /\ at' = [at EXCEPT !["loop"] = "closing"]
        /\ fg' = ForegroundWithout("loop")
        /\ UNCHANGED <<queue, processed, pending, batch, deferred, deepBusy, route, background,
                       stash, inbox, replayDue, born, recorded, loop, cur, line, turns>>
    BY <1>2 DEF LoopTurnEnds, loopVars, holdVars, histVars
  <2>2. /\ LineWaits' /\ line' \in Seq(Tasks) /\ at' \in [Tasks -> TaskPlaces]
        /\ at'["loop"] = "closing" /\ \A u \in Tasks : u # "loop" => at'[u] = at[u]
    BY <1>0, <2>1, InvTypes, LineAfter
  <2>3. fg' \in {"none", "home", "channel", "wake"}
    BY <2>1 DEF ForegroundWithout, DispatchInv, TypeOK
  <2> QED BY <1>0, <2>1, <2>2, <2>3, QuietKeeps
<1> QED BY <1>1, <1>2

LEMMA DirectKeeps ==
  ASSUME DispatchInv, DirectEnters \/ DirectEnds \/ HomeTurnEnds
  PROVE  DispatchInv'
<1>0. /\ "direct" \in Tasks /\ "home" \in Tasks /\ "loop" \in Tasks
      /\ {"idle", "running", "closing"} \subseteq TaskPlaces
      /\ cur \in [Tasks -> Events \cup {NoEvent}] /\ loop \in LoopStates
      /\ turns \in [1..MaxEvents -> Nat]
  BY DEF Tasks, TaskPlaces, DispatchInv, TypeOK
<1>1. CASE DirectEnters
  <2>1. at["direct"] = "arrived" /\ AcquireDeep("direct", cur["direct"])
        /\ UNCHANGED <<queue, processed, pending, batch, deferred, deepBusy, route, background,
                       stash, inbox, replayDue, born, recorded, loop, cur>>
    BY <1>1 DEF DirectEnters, loopVars, holdVars
  <2>2. /\ LineWaits' /\ line' \in Seq(Tasks) /\ at' \in [Tasks -> TaskPlaces]
        /\ \A u \in Tasks : u # "direct" => at'[u] = at[u]
        /\ fg' \in {"none", "home", "channel", "wake"} /\ turns' \in [1..MaxEvents -> Nat]
    BY <1>0, <2>1, InvTypes, AcquireIs
  <2> QED BY <1>0, <2>1, <2>2, QuietKeeps
<1>2. CASE DirectEnds
  <2>1. /\ at["direct"] = "running" /\ at' = [at EXCEPT !["direct"] = "idle"]
        /\ cur' = [cur EXCEPT !["direct"] = NoEvent]
        /\ fg' = ForegroundWithout("direct") /\ loop' = Resumed
        /\ UNCHANGED <<queue, processed, pending, batch, deferred, deepBusy, route, background,
                       stash, inbox, replayDue, born, recorded, line, turns>>
    BY <1>2 DEF DirectEnds, holdVars, histVars
  <2>2. /\ LineWaits' /\ line' \in Seq(Tasks) /\ at' \in [Tasks -> TaskPlaces]
        /\ at'["direct"] = "idle" /\ \A u \in Tasks : u # "direct" => at'[u] = at[u]
    BY <1>0, <2>1, InvTypes, LineAfter
  <2>3. fg' \in {"none", "home", "channel", "wake"} /\ loop' \in LoopStates
    BY <2>1 DEF ForegroundWithout, Resumed, LoopStates, DispatchInv, TypeOK
  <2>4. cur' \in [Tasks -> Events \cup {NoEvent}] /\ cur'["loop"] = cur["loop"] /\ cur'["home"] = cur["home"]
    BY <1>0, <2>1
  <2> QED BY <1>0, <2>1, <2>2, <2>3, <2>4, QuietKeeps
<1>3. CASE HomeTurnEnds
  <2>1. /\ at["home"] = "running" /\ at' = [at EXCEPT !["home"] = "closing"]
        /\ fg' = ForegroundWithout("home")
        /\ UNCHANGED <<queue, processed, pending, batch, deferred, deepBusy, route, background,
                       stash, inbox, replayDue, born, recorded, line, turns, cur, loop>>
    BY <1>3 DEF HomeTurnEnds, loopVars, holdVars, histVars
  <2>2. /\ LineWaits' /\ line' \in Seq(Tasks) /\ at' \in [Tasks -> TaskPlaces]
        /\ at'["home"] = "closing" /\ \A u \in Tasks : u # "home" => at'[u] = at[u]
    BY <1>0, <2>1, InvTypes, LineAfter
  <2>3. fg' \in {"none", "home", "channel", "wake"}
    BY <2>1 DEF ForegroundWithout, DispatchInv, TypeOK
  <2> QED BY <1>0, <2>1, <2>2, <2>3, QuietKeeps
<1> QED BY <1>1, <1>2, <1>3

LEMMA PendingTurnClosesKeeps ==
  ASSUME DispatchInv, PendingTurnCloses
  PROVE  DispatchInv'
<1>0. /\ "loop" \in Tasks /\ "home" \in Tasks /\ "idle" \in TaskPlaces
      /\ cur \in [Tasks -> Events \cup {NoEvent}]
  BY DEF Tasks, TaskPlaces, DispatchInv, TypeOK
<1>1. /\ at["loop"] = "closing" /\ route = "pending"
      /\ at' = [at EXCEPT !["loop"] = "idle"] /\ cur' = [cur EXCEPT !["loop"] = NoEvent]
      /\ route' = "none"
      /\ UNCHANGED <<loop, queue, processed, pending, batch, deferred, deepBusy, background,
                     stash, inbox, replayDue, line, fg, born, recorded, turns>>
  BY DEF PendingTurnCloses, LoopAt, holdVars, histVars
<1>2. /\ LineWaits' /\ line' \in Seq(Tasks) /\ at' \in [Tasks -> TaskPlaces]
      /\ at'["loop"] = "idle" /\ \A u \in Tasks : u # "loop" => at'[u] = at[u]
  BY <1>0, <1>1, InvTypes, LineAfter
<1>3. cur' \in [Tasks -> Events \cup {NoEvent}] /\ cur'["home"] = cur["home"]
  BY <1>0, <1>1
<1>4. Engaged' = Engaged /\ Aside' = Aside /\ Placed' = Placed /\ born \in Nat
  BY <1>1, InvTypes DEF Engaged, Aside, Placed, LoopEvents
<1>5. HomeIsApart'
  BY <1>0, <1>1, <1>2, <1>3, <1>4, HomeKept
<1>6. PlacesInv' /\ \A e \in Placed' : e.born <= born'
  <2>1. /\ \A e \in Placed : e.born <= born
        /\ Distinct(queue) /\ Distinct(stash) /\ Apart(stash, queue)
    BY DEF DispatchInv, NotYetBorn, PlacesInv, Five, Apart, LoopEvents
  <2>2. \A e \in queue \cup stash : e.born <= born
    BY <2>1 DEF Placed, LoopEvents
  <2> QED BY <1>1, <1>4, <1>5, <2>1, <2>2, PlacesKept
<1>7. LoopShape'
  BY <1>1, <1>2 DEF DispatchInv, LoopShape
<1>8. TypeOK'
  BY <1>1, <1>2, <1>3 DEF DispatchInv, TypeOK, TaskPlaces
<1>9. NotYetBorn' /\ Distinct(inbox)' /\ PendingAreWakes' /\ BackgroundIsOnce'
  BY <1>1, <1>6 DEF DispatchInv, NotYetBorn, Distinct, PendingAreWakes, BackgroundIsOnce, OnceIn
<1> QED BY <1>2, <1>6, <1>7, <1>8, <1>9 DEF DispatchInv

-----------------------------------------------------------------------------
(* The steps of those who create events                                    *)

(* What the loop has in hand stays; the queue, the stash and the inbox may *)
(* get events from outside.                                                *)
LEMMA EntersKeeps ==
  ASSUME DispatchInv, UNCHANGED <<processed, batch, deferred, deepBusy, route, background>>,
         at'["loop"] = at["loop"], cur'["loop"] = cur["loop"],
         loop' \in LoopStates,
         queue' \in SUBSET Events, pending' \in SUBSET Events, stash' \in SUBSET Events,
         inbox' \in SUBSET Events, replayDue' \in BOOLEAN,
         LineWaits', line' \in Seq(Tasks), at' \in [Tasks -> TaskPlaces],
         cur' \in [Tasks -> Events \cup {NoEvent}], fg' \in {"none", "home", "channel", "wake"},
         born' \in 0..MaxEvents, born <= born',
         recorded' \in SUBSET (1..MaxEvents), turns' \in [1..MaxEvents -> Nat],
         PendingAreWakes', Distinct(inbox'), \A r \in inbox' : r.of = r.born /\ r.born <= born',
         \A e \in queue' : e \in queue \cup stash \/ (Outside(e) /\ e.born <= born'),
         \A e \in stash' : e \in stash \/ (Outside(e) /\ e.born <= born'),
         Distinct(queue'), Distinct(stash'), Apart(stash', queue'),
         HomeIsApart'
  PROVE  DispatchInv'
<1>1. born \in Nat /\ born' \in Nat /\ Placed \in SUBSET Events /\ processed \in SUBSET (1..MaxEvents)
  BY InvTypes, DispatchTypes DEF Placed, LoopEvents, DispatchInv, TypeOK
<1>2. \A e \in Placed : e.born <= born /\ e.born \in Nat
  BY <1>1, EventFacts DEF DispatchInv, NotYetBorn
<1>3. \A e \in Placed : e.born <= born'
  BY <1>1, <1>2
<1>4. \A e \in queue' \cup stash' : e.born <= born'
  BY <1>3 DEF Placed, LoopEvents
<1>5. Engaged' = Engaged
  BY DEF Engaged
<1>6. PlacesInv' /\ \A e \in Placed' : e.born <= born'
  BY <1>3, <1>4, <1>5, PlacesKept
<1>7. \A b \in processed' : b <= born'
  BY <1>1 DEF DispatchInv, NotYetBorn
<1>8. NotYetBorn'
  BY <1>6, <1>7 DEF NotYetBorn
<1>9. LoopShape' /\ BackgroundIsOnce'
  BY DEF DispatchInv, LoopShape, BackgroundIsOnce, OnceIn
<1>10. TypeOK'
  BY DEF DispatchInv, TypeOK, TaskPlaces
<1>11. Distinct(inbox)'
  BY DEF Distinct
<1> QED BY <1>6, <1>8, <1>9, <1>10, <1>11 DEF DispatchInv

(* The types of what such a step leaves alone. *)
LEMMA InvMoreTypes ==
  ASSUME DispatchInv
  PROVE  /\ loop \in LoopStates /\ replayDue \in BOOLEAN
         /\ line \in Seq(Tasks) /\ at \in [Tasks -> TaskPlaces]
         /\ cur \in [Tasks -> Events \cup {NoEvent}] /\ fg \in {"none", "home", "channel", "wake"}
         /\ born \in 0..MaxEvents /\ recorded \in SUBSET (1..MaxEvents)
         /\ turns \in [1..MaxEvents -> Nat] /\ inbox \in SUBSET Events /\ pending \in SUBSET Events
         /\ Distinct(inbox) /\ (\A r \in inbox : r.of = r.born /\ r.born <= born)
         /\ Distinct(queue) /\ Distinct(stash) /\ Apart(stash, queue)
         /\ (\A e \in Placed : e.born <= born) /\ Placed \in SUBSET Events
         /\ "loop" \in Tasks /\ "home" \in Tasks /\ "direct" \in Tasks
<1>1. Distinct(queue) /\ Distinct(stash) /\ Apart(stash, queue)
  BY DEF DispatchInv, PlacesInv, Five, Apart, LoopEvents
<1>2. Placed \in SUBSET Events
  BY InvTypes DEF Placed, LoopEvents
<1> QED BY <1>1, <1>2 DEF DispatchInv, TypeOK, TaskPlaces, NotYetBorn, Tasks

(* A new event has a birth of its own. *)
LEMMA NewEvent ==
  ASSUME DispatchInv, born < MaxEvents, NEW kind \in Kinds, NEW e, e = Event(kind, born + 1, born + 1)
  PROVE  /\ e \in Events /\ e.born = born + 1 /\ e.of = born + 1 /\ e.kind = kind
         /\ born + 1 \in 0..MaxEvents /\ born + 1 \in 1..MaxEvents /\ e.born > born
         /\ Outside(e) /\ \A f \in Placed \cup inbox : f.born # e.born
<1>1. born \in 0..MaxEvents /\ born \in Nat
  BY InvTypes, InvMoreTypes
<1>2. born + 1 \in 1..MaxEvents
  BY <1>1, DispatchTypes
<1>3. e \in Events /\ e.born = born + 1 /\ e.of = born + 1 /\ e.kind = kind
  BY <1>2, DispatchTypes DEF Event, Events
<1>4. Outside(e)
  BY <1>1, <1>3, NewIsOutside
<1>5. \A f \in Placed \cup inbox : f.born <= born /\ f.born \in Nat
  BY InvMoreTypes, EventFacts
<1>6. \A f \in Placed \cup inbox : f.born # e.born
  BY <1>1, <1>3, <1>5
<1> QED BY <1>1, <1>2, <1>3, <1>4, <1>6

LEMMA EnqueueWakeKeeps ==
  ASSUME DispatchInv, NEW kind \in Wakes, EnqueueWake(kind)
  PROVE  DispatchInv'
<1>1. PICK e : e = Event(kind, born + 1, born + 1)
  OBVIOUS
<1>2. /\ born < MaxEvents /\ queue \subseteq queue' /\ queue' \subseteq queue \cup {e}
      /\ born' = born + 1 /\ pending' \subseteq pending \cup {e}
      /\ UNCHANGED <<loop, processed, batch, deferred, deepBusy, route, background, stash, inbox,
                     replayDue, at, cur, line, fg, recorded, turns>>
  BY <1>1, PushIs DEF EnqueueWake, holdVars, turnVars
<1>3. kind \in Kinds
  BY DEF Kinds
<1>4. /\ e \in Events /\ e.born = born + 1 /\ e.of = born + 1 /\ e.kind = kind
      /\ born + 1 \in 0..MaxEvents /\ e.born > born /\ Outside(e)
      /\ \A f \in Placed \cup inbox : f.born # e.born
  BY <1>1, <1>2, <1>3, NewEvent
<1>5. born \in Nat /\ born <= born' /\ \A r \in inbox : r.of = r.born /\ r.born <= born'
  <2>1. born \in Nat
    BY InvTypes
  <2>2. \A r \in inbox : r.of = r.born /\ r.born <= born /\ r.born \in Nat
    BY InvMoreTypes, EventFacts
  <2> QED BY <1>2, <2>1, <2>2
<1>6. queue' \in SUBSET Events /\ pending' \in SUBSET Events
  BY <1>2, <1>4, InvTypes, InvMoreTypes
<1>7. PendingAreWakes' /\ LineWaits'
  BY <1>2, <1>4 DEF DispatchInv, PendingAreWakes, LineWaits
<1>8. Distinct(queue') /\ Apart(stash', queue')
  BY <1>2, <1>4, InvMoreTypes DEF Distinct, Apart, Placed, LoopEvents
<1>9. Placed' \subseteq Placed \cup {e}
  BY <1>2 DEF Placed, LoopEvents, Engaged, Aside
<1>10. HomeIsApart'
  <2>1. e.born \in Nat
    BY <1>4, <1>5
  <2>2. \A f \in Placed' : (\E g \in Placed : f.born = g.born) \/ (f.born \in Nat /\ f.born > born)
    BY <1>4, <1>9, <2>1
  <2> QED BY <1>2, <1>5, <2>2, HomeKept
<1>11. e.born <= born'
  BY <1>2, <1>4, <1>5
<1> QED
  BY <1>2, <1>4, <1>5, <1>6, <1>7, <1>8, <1>10, <1>11, InvTypes, InvMoreTypes, EntersKeeps

LEMMA ChannelMessageKeeps ==
  ASSUME DispatchInv, NEW kind \in Channel, ChannelMessage(kind)
  PROVE  DispatchInv'
<1>1. PICK e : e = Event(kind, born + 1, born + 1)
  OBVIOUS
<1>2. /\ born < MaxEvents /\ born' = born + 1
      /\ (inbox' = inbox /\ recorded' = recorded)
         \/ (inbox' = inbox \cup {e} /\ recorded' = recorded \cup {e.of})
      /\ UNCHANGED <<loop, processed, pending, batch, deferred, deepBusy, route,
                     background, replayDue, line, fg, turns>>
  BY <1>1 DEF ChannelMessage
<1>3. \/ queue' \subseteq queue \cup stash \cup {e} /\ stash' = {} /\ UNCHANGED <<at, cur>>
      \/ stash' = stash \cup {e} /\ UNCHANGED <<queue, at, cur>>
      \/ /\ at["direct"] = "idle" /\ at' = [at EXCEPT !["direct"] = "arrived"]
         /\ cur' = [cur EXCEPT !["direct"] = e] /\ UNCHANGED <<queue, stash>>
  BY <1>1, PushIs DEF ChannelMessage
<1>4. kind \in Kinds
  BY DEF Kinds
<1>5. /\ e \in Events /\ e.born = born + 1 /\ e.of = born + 1 /\ e.kind = kind
      /\ born + 1 \in 0..MaxEvents /\ born + 1 \in 1..MaxEvents /\ e.born > born /\ Outside(e)
      /\ \A f \in Placed \cup inbox : f.born # e.born
  BY <1>1, <1>2, <1>4, NewEvent
<1>6. born \in Nat /\ born <= born' /\ \A r \in inbox : r.of = r.born /\ r.born <= born'
  <2>1. born \in Nat
    BY InvTypes
  <2>2. \A r \in inbox : r.of = r.born /\ r.born <= born /\ r.born \in Nat
    BY InvMoreTypes, EventFacts
  <2> QED BY <1>2, <2>1, <2>2
<1>7. e.born <= born' /\ e.born \in Nat
  BY <1>2, <1>5, <1>6
<1>8. /\ inbox' \in SUBSET Events /\ recorded' \in SUBSET (1..MaxEvents)
      /\ Distinct(inbox') /\ \A r \in inbox' : r.of = r.born /\ r.born <= born'
  <2>1. inbox' = inbox \/ inbox' = inbox \cup {e}
    BY <1>2
  <2>2. Distinct(inbox')
    BY <1>5, <2>1, InvMoreTypes DEF Distinct
  <2>3. recorded' \in SUBSET (1..MaxEvents) /\ inbox' \in SUBSET Events
    BY <1>2, <1>5, InvMoreTypes
  <2> QED BY <1>5, <1>6, <1>7, <2>1, <2>2, <2>3
<1>9. /\ LineWaits' /\ at' \in [Tasks -> TaskPlaces] /\ cur' \in [Tasks -> Events \cup {NoEvent}]
      /\ \A t \in Tasks : t # "direct" => at'[t] = at[t] /\ cur'[t] = cur[t]
  <2>1. "arrived" \in TaskPlaces /\ "idle" # "waiting"
    BY DEF TaskPlaces
  <2>2. CASE UNCHANGED <<at, cur>>
    BY <1>2, <2>2, InvMoreTypes DEF DispatchInv, LineWaits
  <2>3. CASE /\ at["direct"] = "idle" /\ at' = [at EXCEPT !["direct"] = "arrived"]
             /\ cur' = [cur EXCEPT !["direct"] = e]
    <3>1. /\ LineWaits' /\ at' \in [Tasks -> TaskPlaces]
          /\ \A u \in Tasks : u # "direct" => at'[u] = at[u]
      BY <1>2, <2>1, <2>3, InvTypes, InvMoreTypes, LineAfter
    <3> QED BY <1>5, <2>3, <3>1, InvMoreTypes
  <2> QED BY <1>3, <2>2, <2>3
<1>10. /\ queue' \in SUBSET Events /\ stash' \in SUBSET Events
       /\ \A f \in queue' : f \in queue \cup stash \/ f = e
       /\ \A f \in stash' : f \in stash \/ f = e
  BY <1>3, <1>5, InvTypes
<1>11. Distinct(queue') /\ Distinct(stash') /\ Apart(stash', queue')
  <2>1. /\ \A f \in queue \cup stash : f.born # e.born
        /\ Distinct(queue) /\ Distinct(stash) /\ Apart(stash, queue)
    BY <1>5, InvMoreTypes DEF Placed, LoopEvents
  <2>2. CASE queue' \subseteq queue \cup stash \cup {e} /\ stash' = {}
    BY <2>1, <2>2 DEF Distinct, Apart
  <2>3. CASE stash' = stash \cup {e} /\ queue' = queue
    BY <2>1, <2>3 DEF Distinct, Apart
  <2> QED BY <1>3, <2>1, <2>2, <2>3
<1>12. PendingAreWakes'
  BY <1>2 DEF DispatchInv, PendingAreWakes
<1>13. HomeIsApart'
  <2>1. Engaged' = Engaged /\ Aside' = Aside
    BY <1>2, <1>9, InvMoreTypes DEF Engaged, Aside
  <2>2. Placed' \subseteq Placed \cup {e}
    BY <1>2, <1>10, <2>1 DEF Placed, LoopEvents
  <2>3. \A f \in Placed' : (\E g \in Placed : f.born = g.born) \/ (f.born \in Nat /\ f.born > born)
    BY <1>5, <1>7, <2>2
  <2> QED BY <1>2, <1>6, <1>9, <2>3, HomeKept, InvMoreTypes
<1> QED
  BY <1>2, <1>5, <1>6, <1>7, <1>8, <1>9, <1>10, <1>11, <1>12, <1>13, InvTypes, InvMoreTypes,
     EntersKeeps

LEMMA HomeArrivesKeeps ==
  ASSUME DispatchInv, HomeArrives
  PROVE  DispatchInv'
<1>1. PICK e : e = Event("ws", born + 1, born + 1)
  OBVIOUS
<1>2. /\ born < MaxEvents /\ born' = born + 1 /\ at["home"] = "idle"
      /\ at' = [at EXCEPT !["home"] = "arrived"] /\ cur' = [cur EXCEPT !["home"] = e]
      /\ loop' = (IF loop \in {"running", "left"} THEN "paused" ELSE loop)
      /\ UNCHANGED <<queue, processed, pending, batch, deferred, deepBusy, route, background,
                     stash, inbox, replayDue, line, fg, recorded, turns>>
  BY <1>1 DEF HomeArrives, holdVars
<1>3. /\ e \in Events /\ e.born = born + 1 /\ born + 1 \in 0..MaxEvents /\ e.born > born
      /\ Outside(e) /\ \A f \in Placed \cup inbox : f.born # e.born
  BY <1>1, <1>2, NewEvent DEF Kinds
<1>4. born \in Nat /\ born <= born' /\ \A r \in inbox : r.of = r.born /\ r.born <= born'
  <2>1. born \in Nat
    BY InvTypes
  <2>2. \A r \in inbox : r.of = r.born /\ r.born <= born /\ r.born \in Nat
    BY InvMoreTypes, EventFacts
  <2> QED BY <1>2, <2>1, <2>2
<1>5. /\ LineWaits' /\ at' \in [Tasks -> TaskPlaces]
      /\ \A u \in Tasks : u # "home" => at'[u] = at[u]
  <2>1. "arrived" \in TaskPlaces
    BY DEF TaskPlaces
  <2> QED BY <1>2, <2>1, InvTypes, InvMoreTypes, LineAfter
<1>6. cur' \in [Tasks -> Events \cup {NoEvent}] /\ cur'["loop"] = cur["loop"] /\ cur'["home"] = e
  BY <1>2, <1>3, InvMoreTypes
<1>7. Placed' = Placed
  BY <1>2, <1>6 DEF Placed, LoopEvents, Engaged, Aside
<1>8. HomeIsApart'
  <2>1. e.born <= born' /\ e.born \notin processed' /\ Apart({e}, Placed')
    BY <1>2, <1>3, <1>4, <1>7 DEF Outside, Apart
  <2> QED BY <1>3, <1>6, <2>1 DEF HomeIsApart
<1>9. PendingAreWakes'
  BY <1>2 DEF DispatchInv, PendingAreWakes
<1>10. loop' \in LoopStates /\ at'["loop"] = at["loop"]
  BY <1>2, <1>5, InvMoreTypes DEF LoopStates
<1> QED
  BY <1>2, <1>3, <1>4, <1>5, <1>6, <1>8, <1>9, <1>10, InvTypes, InvMoreTypes, EntersKeeps

LEMMA HomeEntersKeeps ==
  ASSUME DispatchInv, HomeEnters
  PROVE  DispatchInv'
<1>1. PICK e : e = cur["home"]
  OBVIOUS
<1>2. /\ at["home"] = "arrived" /\ queue' \subseteq queue \cup {e}
      /\ AcquireDeep("home", e)
      /\ UNCHANGED <<loop, processed, pending, batch, deferred, deepBusy, route, background,
                     stash, inbox, replayDue, cur, born, recorded>>
  BY <1>1, PushIs DEF HomeEnters, holdVars
<1>3. e \in Events /\ e.born <= born /\ Outside(e)
  BY <1>1, <1>2 DEF DispatchInv, PlacesInv, HomeIsApart, Apart, Outside
<1>4. /\ LineWaits' /\ line' \in Seq(Tasks) /\ at' \in [Tasks -> TaskPlaces]
      /\ at'["home"] \in {"waiting", "running"} /\ \A u \in Tasks : u # "home" => at'[u] = at[u]
      /\ fg' \in {"none", "home", "channel", "wake"} /\ turns' \in [1..MaxEvents -> Nat]
  BY <1>2, InvTypes, InvMoreTypes, AcquireIs
<1>5. HomeIsApart'
  BY <1>4 DEF HomeIsApart
<1>6. /\ Distinct(queue') /\ Apart(stash', queue') /\ queue' \in SUBSET Events
      /\ \A f \in queue' : f \in queue \/ f = e
  BY <1>2, <1>3, InvTypes, InvMoreTypes DEF Outside, Placed, LoopEvents, Distinct, Apart
<1>7. PendingAreWakes' /\ born <= born'
  BY <1>2, InvTypes DEF PendingAreWakes
<1> QED
  BY <1>2, <1>3, <1>4, <1>5, <1>6, <1>7, InvTypes, InvMoreTypes, EntersKeeps

LEMMA HomeClosesKeeps ==
  ASSUME DispatchInv, HomeCloses
  PROVE  DispatchInv'
<1>1. /\ at["home"] = "closing" /\ queue' \subseteq queue /\ loop' = Resumed
      /\ at' = [at EXCEPT !["home"] = "idle"] /\ cur' = [cur EXCEPT !["home"] = NoEvent]
      /\ UNCHANGED <<processed, pending, batch, deferred, deepBusy, route, background,
                     stash, inbox, replayDue, line, fg, born, recorded, turns>>
  BY DEF HomeCloses, HomeResumes, HomeLeaves, holdVars, histVars
<1>2. /\ LineWaits' /\ at' \in [Tasks -> TaskPlaces] /\ at'["home"] = "idle"
      /\ \A u \in Tasks : u # "home" => at'[u] = at[u]
  <2>1. "idle" \in TaskPlaces
    BY DEF TaskPlaces
  <2> QED BY <1>1, <2>1, InvTypes, InvMoreTypes, LineAfter
<1>3. cur' \in [Tasks -> Events \cup {NoEvent}] /\ cur'["loop"] = cur["loop"]
  BY <1>1, InvMoreTypes
<1>4. HomeIsApart'
  BY <1>2 DEF HomeIsApart
<1>5. Distinct(queue') /\ Apart(stash', queue') /\ queue' \in SUBSET Events
  BY <1>1, InvTypes, InvMoreTypes DEF Distinct, Apart
<1>6. PendingAreWakes' /\ born <= born' /\ loop' \in LoopStates
  BY <1>1, InvTypes, InvMoreTypes DEF PendingAreWakes, Resumed, LoopStates
<1> QED
  BY <1>1, <1>2, <1>3, <1>4, <1>5, <1>6, InvTypes, InvMoreTypes, EntersKeeps

LEMMA LoopStartsKeeps ==
  ASSUME DispatchInv, LoopStarts
  PROVE  DispatchInv'
<1>1. /\ loop' = "running" /\ queue' \subseteq stash /\ stash' = {} /\ replayDue' = TRUE
      /\ UNCHANGED <<processed, pending, batch, deferred, deepBusy, route, background, inbox,
                     at, cur, line, fg, born, recorded, turns>>
  BY PushIs DEF LoopStarts, turnVars, histVars
<1>2. Placed' \subseteq Placed
  BY <1>1 DEF Placed, LoopEvents, Engaged, Aside
<1>3. HomeIsApart'
  BY <1>1, <1>2, InvTypes, HomeKept
<1>4. PendingAreWakes' /\ LineWaits' /\ born <= born'
  BY <1>1, InvTypes DEF PendingAreWakes, LineWaits
<1>5. Distinct(queue') /\ Distinct(stash') /\ Apart(stash', queue') /\ queue' \in SUBSET Events
  BY <1>1, InvTypes, InvMoreTypes DEF Distinct, Apart
<1>6. loop' \in LoopStates
  BY <1>1 DEF LoopStates
<1> QED BY <1>1, <1>3, <1>4, <1>5, <1>6, InvTypes, InvMoreTypes, EntersKeeps

(* The rows that are replayed are numbered without a gap. *)
LEMMA RowsAreNumbered ==
  ASSUME DispatchInv, NEW rows, rows = {r \in inbox : OlderRows(r) < ReplayLimit}
  PROVE  /\ Cardinality(rows) \in Nat
         /\ \A r \in rows : OlderRows(r) \in Nat /\ OlderRows(r) < Cardinality(rows)
         /\ \A r, s \in rows : OlderRows(r) = OlderRows(s) => r = s
<1> DEFINE R == {p \in inbox \X inbox : p[1].of < p[2].of}
<1>1. /\ inbox \in SUBSET Events /\ Distinct(inbox)
      /\ \A r \in inbox : r.of = r.born /\ r.of \in Nat
  BY InvMoreTypes, EventFacts
<1>2. \A r, s \in inbox : <<r, s>> \in R <=> r.of < s.of
  OBVIOUS
<1> HIDE DEF R
<1>3. Orders(R, inbox)
  BY <1>1, <1>2 DEF Orders, Distinct
<1>4. IsFiniteSet(inbox)
  BY <1>1, DistinctIsFinite
<1>5. ASSUME NEW r \in inbox PROVE OlderRows(r) = Rank(r, R, inbox)
  <2>1. {s \in inbox : s.of < r.of} = {s \in inbox : <<s, r>> \in R}
    BY <1>2
  <2> QED BY <2>1 DEF OlderRows, Rank
<1>6. /\ \A r \in inbox : Rank(r, R, inbox) \in Nat
      /\ \A r, s \in inbox : <<s, r>> \in R => Rank(s, R, inbox) < Rank(r, R, inbox)
      /\ \A r, s \in inbox : Rank(r, R, inbox) = Rank(s, R, inbox) => r = s
  BY <1>3, <1>4, RankIsBelow, RanksFill
<1>7. rows \in SUBSET inbox /\ IsFiniteSet(rows) /\ Cardinality(rows) \in Nat
  <2>1. rows \in SUBSET inbox
    OBVIOUS
  <2> QED BY <1>4, <2>1, FS_Subset, FS_CardinalityType
<1>8. Orders(R, rows)
  BY <1>3, <1>7 DEF Orders
<1>9. ASSUME NEW r \in rows PROVE OlderRows(r) < Cardinality(rows)
  <2>1. ASSUME NEW s \in inbox, <<s, r>> \in R PROVE s \in rows
    <3>1. OlderRows(s) < OlderRows(r) /\ OlderRows(r) < ReplayLimit
      BY <1>5, <1>6, <1>7, <2>1
    <3>2. OlderRows(s) \in Nat /\ OlderRows(r) \in Nat /\ ReplayLimit \in Nat
      BY <1>5, <1>6, <1>7, DispatchTypes
    <3> QED BY <3>1, <3>2
  <2>2. {s \in rows : <<s, r>> \in R} = {s \in inbox : <<s, r>> \in R}
    BY <1>7, <2>1
  <2>3. Rank(r, R, rows) = Rank(r, R, inbox)
    BY <2>2 DEF Rank
  <2>4. Rank(r, R, rows) < Cardinality(rows)
    BY <1>7, <1>8, RankIsBelow
  <2> QED BY <1>5, <1>7, <2>3, <2>4
<1> QED BY <1>5, <1>6, <1>7, <1>9

LEMMA ReplayInboxKeeps ==
  ASSUME DispatchInv, ReplayInbox
  PROVE  DispatchInv'
<1>1. PICK rows : rows = {r \in inbox : OlderRows(r) < ReplayLimit}
  OBVIOUS
<1>2. PICK wrapped :
        /\ queue \subseteq queue'
        /\ queue' \subseteq queue \cup {Event(ReplayKind(r, wrapped), ReplayBirth(r), r.of) : r \in rows}
  BY <1>1, PushIs DEF ReplayInbox
<1>3. /\ born + Cardinality(rows) <= MaxEvents /\ born' = born + Cardinality(rows)
      /\ replayDue' = FALSE
      /\ UNCHANGED <<loop, processed, pending, batch, deferred, deepBusy, route, background,
                     stash, inbox, at, cur, line, fg, recorded, turns>>
  BY <1>1 DEF ReplayInbox, turnVars
<1>4. /\ Cardinality(rows) \in Nat /\ rows \subseteq inbox
      /\ \A r \in rows : OlderRows(r) \in Nat /\ OlderRows(r) < Cardinality(rows)
      /\ \A r, s \in rows : OlderRows(r) = OlderRows(s) => r = s
  BY <1>1, RowsAreNumbered
<1>5. born \in Nat /\ MaxEvents \in Nat /\ born' \in 0..MaxEvents /\ born <= born' /\ born' \in Nat
  BY <1>3, <1>4, InvTypes, DispatchTypes
<1> DEFINE new(r) == Event(ReplayKind(r, wrapped), ReplayBirth(r), r.of)
<1>6. ASSUME NEW r \in rows
      PROVE  /\ new(r) \in Events /\ new(r).born = born + 1 + OlderRows(r)
             /\ new(r).born \in Nat /\ new(r).born > born /\ new(r).born <= born'
             /\ Outside(new(r))
  <2>1. r \in Events /\ r.kind \in Kinds /\ r.of \in 1..MaxEvents
    BY <1>4, InvMoreTypes, EventFacts
  <2>2. ReplayKind(r, wrapped) \in Kinds
    BY <2>1 DEF ReplayKind, Kinds, Channel
  <2>3. new(r).born = born + 1 + OlderRows(r)
    BY DEF Event, ReplayBirth
  <2>4. OlderRows(r) \in Nat /\ OlderRows(r) < Cardinality(rows) /\ Cardinality(rows) \in Nat
    BY <1>4
  <2>5. born + 1 + OlderRows(r) \in 1..MaxEvents /\ born + 1 + OlderRows(r) <= born'
        /\ born + 1 + OlderRows(r) > born
    BY <1>3, <1>5, <2>4
  <2>6. new(r) \in Events
    BY <2>1, <2>2, <2>5, DispatchTypes DEF Event, Events, ReplayBirth
  <2>7. Outside(new(r))
    BY <1>5, <2>3, <2>5, NewIsOutside
  <2> QED BY <1>5, <2>3, <2>5, <2>6, <2>7
<1>7. ASSUME NEW r \in rows, NEW s \in rows, new(r).born = new(s).born PROVE r = s
  <2>1. born + 1 + OlderRows(r) = born + 1 + OlderRows(s)
    BY <1>6, <1>7
  <2>2. OlderRows(r) = OlderRows(s)
    BY <1>4, <1>5, <2>1
  <2> QED BY <1>4, <2>2
<1>8. \A e \in queue' : e \in queue \/ \E r \in rows : e = new(r)
  BY <1>2
<1> HIDE DEF new
<1>9. queue' \in SUBSET Events
  BY <1>6, <1>8, InvTypes
<1>10. \A e \in queue' : e \in queue \cup stash \/ (Outside(e) /\ e.born <= born')
  BY <1>6, <1>8
<1>11. Distinct(queue') /\ Apart(stash', queue')
  <2>1. \A r \in rows : \A f \in queue \cup stash : f.born # new(r).born
    BY <1>6 DEF Outside, Placed, LoopEvents
  <2> QED BY <1>3, <1>7, <1>8, <2>1, InvMoreTypes DEF Distinct, Apart
<1>12. HomeIsApart'
  <2>1. Engaged' = Engaged /\ Aside' = Aside
    BY <1>3 DEF Engaged, Aside
  <2>2. \A f \in Placed' : f \in Placed \/ f \in queue'
    BY <1>3, <2>1 DEF Placed, LoopEvents
  <2>3. \A f \in queue' : f \in Placed \/ (f.born \in Nat /\ f.born > born)
    BY <1>6, <1>8 DEF Placed, LoopEvents
  <2>4. \A f \in Placed' : (\E g \in Placed : f.born = g.born) \/ (f.born \in Nat /\ f.born > born)
    BY <2>2, <2>3
  <2> QED BY <1>3, <1>5, <2>4, HomeKept
<1>13. \A r \in inbox : r.of = r.born /\ r.born <= born'
  <2>1. \A r \in inbox : r.of = r.born /\ r.born <= born /\ r.born \in Nat
    BY InvMoreTypes, EventFacts
  <2> QED BY <1>5, <2>1
<1>14. PendingAreWakes' /\ LineWaits'
  BY <1>3, InvTypes DEF PendingAreWakes, LineWaits
<1> QED
  BY <1>3, <1>5, <1>9, <1>10, <1>11, <1>12, <1>13, <1>14, InvTypes, InvMoreTypes, EntersKeeps

-----------------------------------------------------------------------------
(* The ends of a loop                                                      *)

LEMMA LineLeft ==
  ASSUME TypeOK, LineWaits, NEW t \in Tasks, line' = LineWithout(t),
         NEW place \in TaskPlaces, at' = [at EXCEPT ![t] = place]
  PROVE  /\ LineWaits' /\ line' \in Seq(Tasks) /\ at' \in [Tasks -> TaskPlaces]
         /\ at'[t] = place /\ \A u \in Tasks : u # t => at'[u] = at[u]
<1>1. /\ line \in Seq(Tasks) /\ at \in [Tasks -> TaskPlaces]
      /\ \A i \in DOMAIN line : at[line[i]] = "waiting" /\ line[i] \in Tasks
      /\ \A i, j \in DOMAIN line : line[i] = line[j] => i = j
      /\ DOMAIN line = 1..Len(line) /\ Len(line) \in Nat
  BY DEF TypeOK, LineWaits, TaskPlaces, IsInjective
<1>2. /\ at' \in [Tasks -> TaskPlaces]
      /\ at'[t] = place /\ \A u \in Tasks : u # t => at'[u] = at[u]
  BY <1>1
<1>3. CASE ~ \E i \in DOMAIN line : line[i] = t
  <2>1. line' = line
    BY <1>3 DEF LineWithout
  <2> QED BY <1>1, <1>2, <1>3, <2>1 DEF LineWaits, IsInjective
<1>4. CASE \E i \in DOMAIN line : line[i] = t
  <2>1. PICK k \in DOMAIN line : line[k] = t /\ line' = RemoveAt(line, k)
    BY <1>4 DEF LineWithout
  <2>2. \A i \in DOMAIN line : i # k => line[i] # t
    BY <1>1, <2>1
  <2> DEFINE a == SubSeq(line, 1, k - 1)
             b == SubSeq(line, k + 1, Len(line))
             r == a \o b
  <2>3. /\ k \in Nat /\ k >= 1 /\ k <= Len(line)
        /\ a \in Seq(Tasks) /\ Len(a) = k - 1 /\ \A i \in 1..(k - 1) : a[i] = line[i]
        /\ b \in Seq(Tasks) /\ Len(b) = Len(line) - k
        /\ \A i \in 1..(Len(line) - k) : b[i] = line[k + i]
    <3>1. k \in Nat /\ k >= 1 /\ k <= Len(line)
      BY <1>1, <2>1
    <3>2. a \in Seq(Tasks) /\ Len(a) = k - 1 /\ \A i \in 1..(k - 1) : a[i] = line[i]
      BY <1>1, <3>1
    <3>3. b \in Seq(Tasks) /\ Len(b) = Len(line) - k
          /\ \A i \in 1..(Len(line) - k) : b[i] = line[k + i]
      <4>1. \A i \in (k + 1)..Len(line) : line[i] \in Tasks
        BY <1>1, <3>1
      <4>2. /\ b \in Seq(Tasks)
            /\ Len(b) = IF k + 1 <= Len(line) THEN Len(line) - (k + 1) + 1 ELSE 0
            /\ \A i \in 1..(Len(line) - (k + 1) + 1) : b[i] = line[(k + 1) + i - 1]
        BY <1>1, <3>1, <4>1, SubSeqProperties
      <4>3. Len(line) \in Nat
        BY <1>1
      <4>4. ASSUME NEW i \in 1..(Len(line) - k) PROVE b[i] = line[k + i]
        <5>1. i \in 1..(Len(line) - (k + 1) + 1) /\ (k + 1) + i - 1 = k + i
          BY <3>1, <4>3
        <5> HIDE DEF b
        <5> QED BY <4>2, <5>1
      <4>5. Len(b) = Len(line) - k
        <5> HIDE DEF b
        <5> QED BY <3>1, <4>2, <4>3
      <4> QED BY <4>2, <4>4, <4>5
    <3> QED BY <3>1, <3>2, <3>3
  <2> HIDE DEF a, b
  <2>4. /\ r \in Seq(Tasks) /\ DOMAIN r = 1..(Len(line) - 1)
        /\ \A i \in 1..(Len(line) - 1) : r[i] = IF i < k THEN line[i] ELSE line[i + 1]
    <3>1. /\ r \in Seq(Tasks) /\ DOMAIN r = 1..(Len(a) + Len(b))
          /\ \A i \in 1..(Len(a) + Len(b)) : i <= Len(a) => r[i] = a[i]
          /\ \A i \in 1..(Len(a) + Len(b)) : i > Len(a) => r[i] = b[i - Len(a)]
      <4>1. a \in Seq(Tasks) /\ b \in Seq(Tasks)
        BY <2>3
      <4>2. r \in Seq(Tasks) /\ DOMAIN r = 1..(Len(a) + Len(b))
        BY <4>1
      <4>3. \A i \in 1..(Len(a) + Len(b)) : i <= Len(a) => r[i] = a[i]
        BY <4>1
      <4>4. \A i \in 1..(Len(a) + Len(b)) : i > Len(a) => r[i] = b[i - Len(a)]
        BY <4>1
      <4> QED BY <4>2, <4>3, <4>4
    <3>2. Len(a) + Len(b) = Len(line) - 1
      BY <1>1, <2>3
    <3>3. ASSUME NEW i \in 1..(Len(line) - 1) PROVE r[i] = IF i < k THEN line[i] ELSE line[i + 1]
      <4>1. CASE i < k
        <5>1. i \in 1..(k - 1) /\ i <= Len(a)
          BY <1>1, <2>3, <3>3, <4>1
        <5> QED BY <2>3, <3>1, <3>2, <4>1, <5>1
      <4>2. CASE i >= k
        <5>1. i \in Nat /\ i <= Len(line) - 1 /\ Len(a) = k - 1 /\ k \in Nat /\ Len(line) \in Nat
          BY <1>1, <2>3, <3>3
        <5>2. i - Len(a) \in 1..(Len(line) - k) /\ k + (i - Len(a)) = i + 1 /\ i > Len(a)
          BY <4>2, <5>1
        <5>3. r[i] = b[i - Len(a)] /\ b[i - Len(a)] = line[i + 1]
          BY <2>3, <3>1, <3>2, <3>3, <5>2
        <5> QED BY <4>2, <5>1, <5>3
      <4> QED BY <1>1, <2>3, <4>1, <4>2
    <3> QED BY <3>1, <3>2, <3>3
  <2>5. line' = r
    BY <2>1 DEF RemoveAt, a, b
  <2> HIDE DEF r
  <2>6. ASSUME NEW i \in DOMAIN r
        PROVE  \E x \in DOMAIN line : /\ x = (IF i < k THEN i ELSE i + 1) /\ x # k /\ r[i] = line[x]
                                      /\ i \in Nat
    <3>1. i \in Nat /\ i >= 1 /\ i <= Len(line) - 1
      BY <1>1, <2>4
    <3>2. CASE i < k
      BY <1>1, <2>3, <2>4, <3>1, <3>2
    <3>3. CASE i >= k
      BY <1>1, <2>3, <2>4, <3>1, <3>3
    <3> QED BY <2>3, <3>1, <3>2, <3>3
  <2>7. ASSUME NEW i \in DOMAIN r, NEW j \in DOMAIN r, r[i] = r[j] PROVE i = j
    <3>1. PICK x \in DOMAIN line : x = (IF i < k THEN i ELSE i + 1) /\ x # k /\ r[i] = line[x] /\ i \in Nat
      BY <2>6
    <3>2. PICK y \in DOMAIN line : y = (IF j < k THEN j ELSE j + 1) /\ y # k /\ r[j] = line[y] /\ j \in Nat
      BY <2>6
    <3>3. x = y
      BY <1>1, <2>7, <3>1, <3>2
    <3> QED BY <2>3, <3>1, <3>2, <3>3
  <2>8. ASSUME NEW i \in DOMAIN r PROVE at'[r[i]] = "waiting"
    BY <1>1, <1>2, <2>2, <2>6
  <2> QED BY <1>2, <2>4, <2>5, <2>7, <2>8 DEF LineWaits, IsInjective
<1> QED BY <1>3, <1>4

LEMMA LoopStopsKeeps ==
  ASSUME DispatchInv, LoopStops
  PROVE  DispatchInv'
<1>1. /\ loop' = "none" /\ queue' = {} /\ processed' = {} /\ pending' = {}
      /\ batch' = {} /\ deferred' = {} /\ deepBusy' = FALSE /\ route' = "none"
      /\ replayDue' = FALSE /\ at' = [at EXCEPT !["loop"] = "idle"]
      /\ cur' = [cur EXCEPT !["loop"] = NoEvent] /\ line' = LineWithout("loop")
      /\ fg' = ForegroundWithout("loop")
      /\ UNCHANGED <<background, stash, inbox, born, recorded, turns>>
  BY DEF LoopStops, LoopForgets, histVars
<1>2. /\ LineWaits' /\ line' \in Seq(Tasks) /\ at' \in [Tasks -> TaskPlaces]
      /\ at'["loop"] = "idle" /\ \A u \in Tasks : u # "loop" => at'[u] = at[u]
  <2>1. "idle" \in TaskPlaces
    BY DEF TaskPlaces
  <2> QED BY <1>1, <2>1, InvTypes, InvMoreTypes, LineLeft
<1>3. cur' \in [Tasks -> Events \cup {NoEvent}] /\ cur'["home"] = cur["home"]
  BY <1>1, InvMoreTypes
<1>4. fg' \in {"none", "home", "channel", "wake"}
  BY <1>1, InvMoreTypes DEF ForegroundWithout
<1>5. Engaged' = {} /\ Aside' = Aside /\ LoopEvents' = Aside /\ Placed' = Aside \cup stash
  BY <1>1 DEF Engaged, Aside, LoopEvents, Placed
<1>6. Placed' \subseteq Placed
  BY <1>5 DEF Placed, LoopEvents
<1>7. HomeIsApart'
  BY <1>1, <1>2, <1>3, <1>6, InvTypes, InvMoreTypes, HomeKept
<1>8. PlacesInv'
  <2>1. Distinct(Aside) /\ Distinct(stash) /\ Apart(stash, Aside)
    BY DEF DispatchInv, PlacesInv, Five, Apart, LoopEvents
  <2>2. Five(queue, batch, Engaged, deferred, Aside)'
    BY <1>1, <1>5, <2>1 DEF Five, Distinct, Apart
  <2>3. Distinct(stash)' /\ Apart(stash, LoopEvents)'
    BY <1>1, <1>5, <2>1 DEF Distinct, Apart
  <2> QED BY <1>1, <1>7, <2>2, <2>3 DEF PlacesInv
<1>9. NotYetBorn' /\ Distinct(inbox)'
  BY <1>1, <1>6 DEF DispatchInv, NotYetBorn, Distinct
<1>10. LoopShape' /\ PendingAreWakes' /\ BackgroundIsOnce'
  BY <1>1, <1>2 DEF LoopShape, PendingAreWakes, BackgroundIsOnce, OnceIn, DispatchInv
<1>11. TypeOK'
  BY <1>1, <1>2, <1>3, <1>4 DEF DispatchInv, TypeOK, TaskPlaces, LoopStates
<1> QED BY <1>2, <1>8, <1>9, <1>10, <1>11 DEF DispatchInv

(* A turn of Home that breaks off leaves its place, the line and, perhaps, *)
(* the queue.                                                              *)
LEMMA HomeBreaksOffKeeps ==
  ASSUME DispatchInv, HomeBreaksOff
  PROVE  DispatchInv'
<1>1. /\ queue' \subseteq queue /\ loop' = Left
      /\ at' = [at EXCEPT !["home"] = "idle"] /\ cur' = [cur EXCEPT !["home"] = NoEvent]
      /\ line' = LineWithout("home") /\ fg' = ForegroundWithout("home")
      /\ UNCHANGED <<processed, pending, batch, deferred, deepBusy, route, background,
                     stash, inbox, replayDue, born, recorded, turns>>
  BY DEF HomeBreaksOff, HomeLeaves, holdVars, histVars
<1>2. /\ LineWaits' /\ line' \in Seq(Tasks) /\ at' \in [Tasks -> TaskPlaces] /\ at'["home"] = "idle"
      /\ \A u \in Tasks : u # "home" => at'[u] = at[u]
  <2>1. "idle" \in TaskPlaces
    BY DEF TaskPlaces
  <2> QED BY <1>1, <2>1, InvTypes, InvMoreTypes, LineLeft
<1>3. cur' \in [Tasks -> Events \cup {NoEvent}] /\ cur'["loop"] = cur["loop"]
  BY <1>1, InvMoreTypes
<1>4. HomeIsApart'
  BY <1>2 DEF HomeIsApart
<1>5. Distinct(queue') /\ Apart(stash', queue') /\ queue' \in SUBSET Events
  BY <1>1, InvTypes, InvMoreTypes DEF Distinct, Apart
<1>6. PendingAreWakes' /\ born <= born' /\ loop' \in LoopStates
  BY <1>1, InvTypes, InvMoreTypes DEF PendingAreWakes, Left, LoopStates
<1>7. fg' \in {"none", "home", "channel", "wake"}
  BY <1>1, InvMoreTypes DEF ForegroundWithout
<1> QED
  BY <1>1, <1>2, <1>3, <1>4, <1>5, <1>6, <1>7, InvTypes, InvMoreTypes, EntersKeeps

LEMMA EmptyPlaces ==
  /\ Five({}, {}, {}, {}, {}) /\ Distinct({}) /\ Apart({}, {}) /\ OnceIn(<<>>)
  /\ Range(<<>>) = {} /\ IsInjective(<<>>) /\ DOMAIN <<>> = {} /\ <<>> \in Seq(Tasks) /\ <<>> \in Seq(Events)
BY DEF Five, Distinct, Apart, OnceIn, Range, IsInjective

LEMMA RestartKeeps ==
  ASSUME DispatchInv, Restart
  PROVE  DispatchInv'
<1>1. /\ loop' = "none" /\ queue' = {} /\ processed' = {} /\ pending' = {}
      /\ batch' = {} /\ deferred' = {} /\ deepBusy' = FALSE /\ route' = "none"
      /\ replayDue' = FALSE /\ background' = <<>> /\ stash' = {}
      /\ at' = [t \in Tasks |-> "idle"] /\ cur' = [t \in Tasks |-> NoEvent]
      /\ line' = <<>> /\ fg' = "none"
      /\ UNCHANGED <<inbox, born, recorded, turns>>
  BY DEF Restart, LoopForgets, histVars
<1>2. Engaged' = {} /\ Aside' = {} /\ LoopEvents' = {} /\ Placed' = {}
  BY <1>1, EmptyPlaces DEF Engaged, Aside, LoopEvents, Placed
<1>3. PlacesInv'
  BY <1>1, <1>2, EmptyPlaces, InvMoreTypes DEF PlacesInv, HomeIsApart
<1>4. NotYetBorn' /\ Distinct(inbox)'
  BY <1>1, <1>2 DEF DispatchInv, NotYetBorn, Distinct
<1>5. LoopShape' /\ PendingAreWakes' /\ BackgroundIsOnce' /\ LineWaits'
  BY <1>1, EmptyPlaces, InvMoreTypes DEF LoopShape, PendingAreWakes, BackgroundIsOnce, OnceIn, LineWaits
<1>6. TypeOK'
  BY <1>1, EmptyPlaces DEF DispatchInv, TypeOK, LoopStates
<1> QED BY <1>3, <1>4, <1>5, <1>6 DEF DispatchInv

-----------------------------------------------------------------------------
(* Turns                                                                   *)

Queued == queue \cup batch \cup deferred \cup Aside \cup stash
LegacyCur == IF route = "pending" THEN {cur["loop"]} ELSE {}
HomeCur == IF at["home"] = "idle" THEN {} ELSE {cur["home"]}
DirectCur == IF at["direct"] = "idle" THEN {} ELSE {cur["direct"]}
Around == Queued \cup pending \cup Engaged \cup LegacyCur \cup HomeCur \cup DirectCur

Unbegun == {"arrived", "announcing", "waiting"}

(* An event of m may still get its turn from the queue, *)
InQueues(m) == \E e \in Queued : e.of = m /\ e.kind # "ws"
ReadyQueued(m) == InQueues(m) \/ (at["loop"] \in Unbegun /\ \E e \in Engaged : e.of = m)

(* or from the legacy list, the chat socket or the channel worker. *)
ReadyBeside(m) ==
  \/ \E e \in pending : e.of = m
  \/ at["loop"] \in Unbegun /\ \E e \in LegacyCur : e.of = m
  \/ at["home"] \in Unbegun /\ \E e \in HomeCur : e.of = m
  \/ at["direct"] \in Unbegun /\ \E e \in DirectCur : e.of = m

(* The turns that m had and those it may still get. *)
Weight(m) == turns[m] + (IF ReadyQueued(m) THEN 1 ELSE 0) + (IF ReadyBeside(m) THEN 1 ELSE 0)

Bounded(m) ==
  /\ Weight(m) <= 2
  /\ \A e \in Around : e.of = m /\ e.kind \notin Wakes => Weight(m) <= 1

IdleIsEmpty == \A t \in Tasks : at[t] = "idle" => cur[t] = NoEvent

(* Only a replayed row has an origin other than itself. *)
Tracked(e) == /\ e \in Events /\ e.of <= e.born /\ e.born <= born
              /\ e.of = e.born \/ e.of \in recorded

UnbornHasNoTurn == \A m \in 1..MaxEvents : m > born => turns[m] = 0

(* An event has one holder beside the queue. *)
BesideIsApart ==
  /\ Distinct(pending) /\ Apart(pending, LegacyCur)
  /\ Apart(pending \cup LegacyCur, HomeCur)
  /\ Apart(pending \cup LegacyCur \cup HomeCur, DirectCur)

HomeIsWs == \A e \in HomeCur : e.kind = "ws"

TurnsShape ==
  /\ IdleIsEmpty /\ UnbornHasNoTurn /\ BesideIsApart /\ HomeIsWs
  /\ \A e \in Around : Tracked(e)
  /\ \A r \in inbox : r.of \in recorded

Unrecorded == (1..MaxEvents) \ recorded
TurnsInv == TurnsShape /\ \A m \in Unrecorded : Bounded(m)

(* A step takes no more turns than it uses up. *)
Lighter(m) ==
  \/ /\ turns'[m] = turns[m]
     /\ ReadyQueued(m)' => ReadyQueued(m)
     /\ ReadyBeside(m)' => ReadyBeside(m)
  \/ /\ turns'[m] = turns[m] + 1 /\ ReadyQueued(m) /\ ~ReadyQueued(m)'
     /\ ReadyBeside(m)' => ReadyBeside(m)
  \/ /\ turns'[m] = turns[m] + 1 /\ ReadyBeside(m) /\ ~ReadyBeside(m)'
     /\ ReadyQueued(m)' => ReadyQueued(m)

(* The arithmetic of such a step. *)
LEMMA WeighsNoMore ==
  ASSUME NEW p \in Nat, NEW q \in Nat, NEW a \in {0, 1}, NEW b \in {0, 1},
         NEW c \in {0, 1}, NEW d \in {0, 1},
         \/ q = p /\ c <= a /\ d <= b
         \/ q = p + 1 /\ a = 1 /\ c = 0 /\ d <= b
         \/ q = p + 1 /\ b = 1 /\ d = 0 /\ c <= a
  PROVE  p + a + b \in Nat /\ q + c + d \in Nat /\ q + c + d <= p + a + b
  OBVIOUS

(* It keeps the bounds. *)
LEMMA BoundedKept ==
  ASSUME turns \in [1..MaxEvents -> Nat], turns' \in [1..MaxEvents -> Nat],
         NEW m \in 1..MaxEvents, Bounded(m), Lighter(m),
         \A e \in Around' : e.of = m => \E f \in Around : f.of = m /\ f.kind = e.kind
  PROVE  Bounded(m)'
<1>1. turns[m] \in Nat /\ turns'[m] \in Nat
  OBVIOUS
<1>2. PICK a \in {0, 1}, b \in {0, 1} :
        /\ Weight(m) = turns[m] + a + b
        /\ ReadyQueued(m) <=> a = 1
        /\ ReadyBeside(m) <=> b = 1
  BY DEF Weight
<1>3. PICK c \in {0, 1}, d \in {0, 1} :
        /\ Weight(m)' = turns'[m] + c + d
        /\ ReadyQueued(m)' <=> c = 1
        /\ ReadyBeside(m)' <=> d = 1
  BY DEF Weight
<1>4. \/ turns'[m] = turns[m] /\ c <= a /\ d <= b
      \/ turns'[m] = turns[m] + 1 /\ a = 1 /\ c = 0 /\ d <= b
      \/ turns'[m] = turns[m] + 1 /\ b = 1 /\ d = 0 /\ c <= a
  BY <1>2, <1>3 DEF Lighter
<1>5. Weight(m) \in Nat /\ Weight(m)' \in Nat /\ Weight(m)' <= Weight(m)
  <2>1. /\ turns[m] + a + b \in Nat /\ turns'[m] + c + d \in Nat
        /\ turns'[m] + c + d <= turns[m] + a + b
    BY <1>1, <1>4, WeighsNoMore
  <2> QED BY <1>2, <1>3, <2>1
<1>6. Weight(m)' <= 2
  BY <1>5 DEF Bounded
<1>7. ASSUME NEW e \in Around', e.of = m, e.kind \notin Wakes PROVE Weight(m)' <= 1
  BY <1>5, <1>7 DEF Bounded
<1> QED BY <1>6, <1>7 DEF Bounded

(* What the two invariants say of who is where. *)
LEMMA InvTracks ==
  ASSUME DispatchInv, TurnsShape
  PROVE  /\ Queued \in SUBSET Events /\ Placed = Queued \cup Engaged
         /\ \A e \in Engaged : \A f \in Queued : e.born # f.born
         /\ \A m \in Unrecorded : \A e \in Around : e.of = m => e.born = m
         /\ at["loop"] # "idle" => /\ cur["loop"] \in Events
                                   /\ Engaged \cup LegacyCur = {cur["loop"]}
         /\ at["loop"] = "idle" => Engaged = {} /\ LegacyCur = {}
<1>1. /\ queue \in SUBSET Events /\ batch \in SUBSET Events /\ deferred \in SUBSET Events
      /\ stash \in SUBSET Events /\ Aside \in SUBSET Events
  BY InvTypes
<1>2. Queued \in SUBSET Events /\ Placed = Queued \cup Engaged
  BY <1>1 DEF Queued, Placed, LoopEvents
<1>3. \A e \in Engaged : \A f \in Queued : e.born # f.born
  BY DEF DispatchInv, PlacesInv, Five, Apart, Queued, LoopEvents
<1>4. \A m \in Unrecorded : \A e \in Around : e.of = m => e.born = m
  BY DEF Unrecorded, TurnsShape, Tracked
<1>5. at["loop"] = "idle" <=> route = "none"
  BY DEF DispatchInv, LoopShape
<1>6. route \in {"none", "queue", "own", "pending"} /\ (route # "none" => cur["loop"] \in Events)
  BY DEF DispatchInv, LoopShape, TypeOK
<1> QED BY <1>2, <1>3, <1>4, <1>5, <1>6 DEF Engaged, LegacyCur

(* A step that begins no turn and adds nothing.                            *)
LEMMA LessKeeps ==
  ASSUME DispatchInv, TurnsInv, UNCHANGED <<turns, recorded, born>>, inbox' \subseteq inbox,
         Queued' \subseteq Queued, pending' \subseteq pending, Engaged' \subseteq Engaged,
         LegacyCur' \subseteq LegacyCur, HomeCur' \subseteq HomeCur, DirectCur' \subseteq DirectCur,
         \A t \in Tasks : at'[t] \in Unbegun => at[t] \in Unbegun,
         IdleIsEmpty'
  PROVE  TurnsInv'
<1>1. Around' \subseteq Around
  BY DEF Around
<1>2. BesideIsApart'
  BY DEF TurnsInv, TurnsShape, BesideIsApart, Distinct, Apart
<1>3. HomeIsWs' /\ UnbornHasNoTurn'
  BY DEF TurnsInv, TurnsShape, HomeIsWs, UnbornHasNoTurn
<1>4. \A e \in Around' : Tracked(e)'
  BY <1>1 DEF TurnsInv, TurnsShape, Tracked
<1>5. \A r \in inbox' : r.of \in recorded'
  BY DEF TurnsInv, TurnsShape
<1>6. ASSUME NEW m \in Unrecorded' PROVE Bounded(m)'
  <2>1. m \in Unrecorded /\ m \in 1..MaxEvents
    BY DEF Unrecorded
  <2>2. ReadyQueued(m)' => ReadyQueued(m)
    BY DEF ReadyQueued, InQueues, Tasks
  <2>3. ReadyBeside(m)' => ReadyBeside(m)
    BY DEF ReadyBeside, Tasks
  <2>4. Lighter(m)
    BY <2>2, <2>3 DEF Lighter
  <2>5. \A e \in Around' : e.of = m => \E f \in Around : f.of = m /\ f.kind = e.kind
    BY <1>1
  <2>6. turns \in [1..MaxEvents -> Nat] /\ turns' \in [1..MaxEvents -> Nat]
    BY DEF DispatchInv, TypeOK
  <2>7. Bounded(m)
    BY <2>1 DEF TurnsInv
  <2> QED BY <2>1, <2>4, <2>5, <2>6, <2>7, BoundedKept
<1> QED BY <1>2, <1>3, <1>4, <1>5, <1>6 DEF TurnsInv, TurnsShape

(* A task waits for the lock or begins its turn.                           *)
LEMMA AdvanceKeeps ==
  ASSUME DispatchInv, DispatchInv', TurnsInv, NEW t \in Tasks,
         at[t] \in Unbegun, \A u \in Tasks : u # t => at'[u] = at[u],
         \/ at'[t] = "waiting" /\ UNCHANGED turns
         \/ at'[t] = "running" /\ Counted(cur[t]),
         UNCHANGED <<cur, route, pending, batch, deferred, background, stash, recorded, born, inbox>>,
         \A e \in queue' : e \in queue \cup HomeCur
  PROVE  TurnsInv'
<1>0. "loop" \in Tasks /\ "home" \in Tasks /\ "direct" \in Tasks /\ t \in {"loop", "home", "direct"}
  BY DEF Tasks
<1>1. \A u \in Tasks : at'[u] = "idle" <=> at[u] = "idle"
  BY DEF Unbegun
<1>2. /\ Engaged' = Engaged /\ LegacyCur' = LegacyCur /\ HomeCur' = HomeCur
      /\ DirectCur' = DirectCur /\ Aside' = Aside
  BY <1>0, <1>1 DEF Engaged, LegacyCur, HomeCur, DirectCur, Aside
<1>3. \A e \in Queued' : e \in Queued \/ (e \in HomeCur /\ e.kind = "ws")
  BY <1>2 DEF Queued, TurnsInv, TurnsShape, HomeIsWs
<1>4. \A e \in Around' : e \in Around
  BY <1>2, <1>3 DEF Around
<1>5. \A u \in Tasks : at'[u] \in Unbegun => at[u] \in Unbegun
  BY DEF Unbegun
<1>6. \A m : InQueues(m)' => InQueues(m)
  BY <1>3 DEF InQueues
<1>7. \A m : (ReadyQueued(m)' => ReadyQueued(m)) /\ (ReadyBeside(m)' => ReadyBeside(m))
  BY <1>0, <1>2, <1>5, <1>6 DEF ReadyQueued, ReadyBeside
<1>8. /\ cur[t] \in Around
      /\ t = "loop" => cur[t] \in Engaged \cup LegacyCur
      /\ t = "home" => cur[t] \in HomeCur
      /\ t = "direct" => cur[t] \in DirectCur
  <2>1. at[t] # "idle"
    BY DEF Unbegun
  <2> QED BY <1>0, <2>1, InvTracks DEF TurnsInv, HomeCur, DirectCur, Around
<1>9. /\ cur[t].of \in 1..MaxEvents /\ turns \in [1..MaxEvents -> Nat] /\ turns' \in [1..MaxEvents -> Nat]
      /\ cur[t].of <= born /\ born \in Nat
  <2>1. cur[t] \in Events /\ cur[t].of <= cur[t].born /\ cur[t].born <= born
    BY <1>8 DEF TurnsInv, TurnsShape, Tracked
  <2>2. cur[t].of \in 1..MaxEvents /\ cur[t].born \in Nat
    BY <2>1, EventFacts
  <2>3. turns \in [1..MaxEvents -> Nat] /\ turns' \in [1..MaxEvents -> Nat] /\ born \in Nat
    BY InvTypes DEF DispatchInv, TypeOK
  <2>4. cur[t].of <= born
    BY <2>1, <2>2, <2>3
  <2> QED BY <2>2, <2>3, <2>4
<1>10. \A m \in 1..MaxEvents : m # cur[t].of => turns'[m] = turns[m]
  BY <1>9 DEF Counted
<1>11. ASSUME NEW m \in Unrecorded PROVE Lighter(m)
  <2>1. CASE turns'[m] = turns[m]
    BY <1>7, <2>1 DEF Lighter
  <2>2. CASE turns'[m] # turns[m]
    <3>1. m \in 1..MaxEvents /\ m = cur[t].of
      BY <1>10, <2>2 DEF Unrecorded
    <3>2. at'[t] = "running" /\ turns'[m] = turns[m] + 1
      BY <1>9, <2>2, <3>1 DEF Counted
    <3>3. at'[t] \notin Unbegun
      BY <3>2 DEF Unbegun
    <3>4. \A e \in Around : e.of = m => e.born = m
      BY InvTracks DEF TurnsInv
    <3>5. cur[t].born = m
      BY <1>8, <3>1, <3>4
    <3>6. CASE t = "loop" /\ cur[t] \in Engaged
      <4>1. ReadyQueued(m)
        BY <3>1, <3>6 DEF ReadyQueued
      <4>2. \A e \in Queued : e.of # m
        <5>1. \A e \in Queued : e.born # cur[t].born
          BY <3>6, InvTracks DEF TurnsInv
        <5> QED BY <3>4, <3>5, <5>1 DEF Around
      <4>3. ~InQueues(m)
        BY <4>2 DEF InQueues
      <4>4. ~ReadyQueued(m)'
        BY <1>6, <3>3, <3>6, <4>3 DEF ReadyQueued
      <4> QED BY <1>7, <3>2, <4>1, <4>4 DEF Lighter
    <3>7. CASE \/ t = "loop" /\ cur[t] \in LegacyCur
               \/ t = "home" \/ t = "direct"
      <4>1. ReadyBeside(m)
        BY <1>8, <3>1, <3>7 DEF ReadyBeside
      <4>2. \A e \in pending : e.of # m
        <5>1. \A e \in pending : e.born # cur[t].born
          BY <1>8, <3>7 DEF TurnsInv, TurnsShape, BesideIsApart, Apart
        <5> QED BY <3>4, <3>5, <5>1 DEF Around
      <4>3. /\ t # "loop" => \A e \in LegacyCur : e.of # m
            /\ t # "home" => \A e \in HomeCur : e.of # m
            /\ t # "direct" => \A e \in DirectCur : e.of # m
        <5>1. /\ t # "loop" => \A e \in LegacyCur : e.born # cur[t].born
              /\ t # "home" => \A e \in HomeCur : e.born # cur[t].born
              /\ t # "direct" => \A e \in DirectCur : e.born # cur[t].born
          BY <1>0, <1>8, <3>7 DEF TurnsInv, TurnsShape, BesideIsApart, Apart
        <5> QED BY <3>4, <3>5, <5>1 DEF Around
      <4>4. ~ReadyBeside(m)'
        BY <1>2, <3>3, <4>2, <4>3 DEF ReadyBeside
      <4> QED BY <1>7, <3>2, <4>1, <4>4 DEF Lighter
    <3> QED BY <1>0, <1>8, <3>6, <3>7
  <2> QED BY <2>1, <2>2
<1>12. ASSUME NEW m \in Unrecorded' PROVE Bounded(m)'
  <2>1. m \in Unrecorded /\ m \in 1..MaxEvents
    BY DEF Unrecorded
  <2>2. Bounded(m) /\ Lighter(m)
    BY <1>11, <2>1 DEF TurnsInv
  <2> QED BY <1>4, <1>9, <2>1, <2>2, BoundedKept
<1>13. BesideIsApart' /\ HomeIsWs'
  BY <1>2 DEF TurnsInv, TurnsShape, BesideIsApart, HomeIsWs
<1>14. UnbornHasNoTurn'
  <2>1. \A m \in 1..MaxEvents : m > born => m # cur[t].of
    BY <1>9
  <2> QED BY <1>10, <2>1 DEF TurnsInv, TurnsShape, UnbornHasNoTurn
<1>15. IdleIsEmpty'
  BY <1>1 DEF TurnsInv, TurnsShape, IdleIsEmpty
<1>16. (\A e \in Around' : Tracked(e)') /\ \A r \in inbox' : r.of \in recorded'
  BY <1>4 DEF TurnsInv, TurnsShape, Tracked
<1> QED BY <1>12, <1>13, <1>14, <1>15, <1>16 DEF TurnsInv, TurnsShape

LEMMA PlacedNext ==
  ASSUME DispatchInv'
  PROVE  Placed' \in SUBSET Events
<1>1. background' \in Seq(Events) /\ queue' \in SUBSET Events /\ batch' \in SUBSET Events
      /\ deferred' \in SUBSET Events /\ stash' \in SUBSET Events
  BY DEF DispatchInv, TypeOK
<1>2. Aside' \in SUBSET Events
  BY <1>1 DEF Aside, Range
<1>3. Engaged' \in SUBSET Events
  BY DEF DispatchInv, LoopShape, Engaged
<1> QED BY <1>1, <1>2, <1>3 DEF Placed, LoopEvents

(* The loop takes its next event, or none.                                 *)
LEMMA TakenKeeps ==
  ASSUME DispatchInv, DispatchInv', TurnsInv, NEW q, NEW rest, NEW held, Settled(q, rest, held),
         q \cup rest \cup held \cup Aside \subseteq Queued, stash' \subseteq stash,
         at["loop"] \notin Unbegun, UNCHANGED <<recorded, born>>, inbox' \subseteq inbox
  PROVE  TurnsInv'
<1>1. /\ \A t \in Tasks : t # "loop" => at'[t] = at[t] /\ cur'[t] = cur[t]
      /\ Taken(rest) /\ pending' \subseteq pending
      /\ \A e \in LoopEvents' : \E f \in Queued : Same(e, f)
  BY DEF Settled, Moved
<1>2. /\ HomeCur' = HomeCur /\ DirectCur' = DirectCur
      /\ at'["home"] = at["home"] /\ at'["direct"] = at["direct"]
  BY <1>1 DEF HomeCur, DirectCur, Tasks
<1>3. \A e \in Queued' \cup Engaged' : \E f \in Queued : Same(e, f)
  BY <1>1 DEF Queued, LoopEvents, Same
<1>4. \A e \in LegacyCur' : e \in pending /\ e \notin pending'
  BY <1>1 DEF Taken, LegacyCur
<1>5. \A e \in Around' : \E f \in Around : Same(e, f)
  BY <1>1, <1>2, <1>3, <1>4 DEF Around, Same
<1>6. \A e \in Around' : Tracked(e)'
  <2>1. \A e \in Placed' : e \in Events
    BY PlacedNext
  <2>1a. /\ Queued' \cup Engaged' \subseteq Placed'
    BY DEF Queued, Placed, LoopEvents
  <2>2. \A e \in Around' : e \in Events
    <3>1. \A e \in pending \cup HomeCur \cup DirectCur : e \in Events
      BY DEF TurnsInv, TurnsShape, Tracked, Around
    <3> QED BY <1>1, <1>2, <1>4, <2>1, <2>1a, <3>1 DEF Around, DispatchInv, TypeOK
  <2>3. \A e \in Around' : e.of <= e.born /\ e.born <= born /\ (e.of = e.born \/ e.of \in recorded)
    BY <1>5 DEF TurnsInv, TurnsShape, Tracked, Same
  <2> QED BY <2>2, <2>3 DEF Tracked
<1>7. BesideIsApart'
  <2>1. /\ Distinct(pending) /\ Apart(pending, HomeCur) /\ Apart(pending, DirectCur)
        /\ Apart(HomeCur, DirectCur)
    BY DEF TurnsInv, TurnsShape, BesideIsApart, Apart
  <2>2. Distinct(pending') /\ Apart(pending', LegacyCur')
    BY <1>1, <1>4, <2>1 DEF Distinct, Apart
  <2>3. Apart(pending' \cup LegacyCur', HomeCur) /\ Apart(pending' \cup LegacyCur' \cup HomeCur, DirectCur)
    BY <1>1, <1>4, <2>1 DEF Apart
  <2> QED BY <1>2, <2>2, <2>3 DEF BesideIsApart
<1>8. HomeIsWs' /\ IdleIsEmpty'
  <2>1. at'["loop"] = "idle" => cur'["loop"] = NoEvent
    <3>1. at'["loop"] = "idle" => route' = "none"
      BY DEF DispatchInv, LoopShape
    <3> QED BY <1>1, <3>1 DEF Taken
  <2> QED BY <1>1, <1>2, <2>1 DEF TurnsInv, TurnsShape, HomeIsWs, IdleIsEmpty
<1>9. turns \in [1..MaxEvents -> Nat] /\ turns' \in [1..MaxEvents -> Nat] /\ born \in Nat
  BY InvTypes DEF DispatchInv, TypeOK
<1>10. \A m : InQueues(m)' => InQueues(m)
  BY <1>3 DEF InQueues, Same
<1>11. \A m : ReadyQueued(m)' => ReadyQueued(m)
  <2>1. \A e \in Engaged' : e \in Queued /\ e.kind # "ws"
    BY <1>1 DEF Taken, Engaged
  <2> QED BY <1>10, <2>1 DEF ReadyQueued, InQueues
<1>12. \A m : ReadyBeside(m)' => ReadyBeside(m)
  BY <1>1, <1>2, <1>4 DEF ReadyBeside
<1>13. CASE UNCHANGED turns
  <2>1. ASSUME NEW m \in Unrecorded' PROVE Bounded(m)'
    <3>1. m \in Unrecorded /\ m \in 1..MaxEvents
      BY DEF Unrecorded
    <3>2. Bounded(m) /\ Lighter(m)
      BY <1>11, <1>12, <1>13, <3>1 DEF TurnsInv, Lighter
    <3> QED BY <1>5, <1>9, <3>1, <3>2, BoundedKept DEF Same
  <2>2. UnbornHasNoTurn'
    BY <1>13 DEF TurnsInv, TurnsShape, UnbornHasNoTurn
  <2> QED BY <1>6, <1>7, <1>8, <2>1, <2>2 DEF TurnsInv, TurnsShape
<1>14. CASE /\ route' \in {"queue", "own"} /\ cur'["loop"] \in rest /\ cur'["loop"].kind # "ws"
            /\ at'["loop"] \in {"micro", "running"} /\ Counted(cur'["loop"])
  <2>1. PICK e : e = cur'["loop"]
    OBVIOUS
  <2>2. /\ e \in Queued /\ e.kind # "ws" /\ e \in Events /\ e.of <= born /\ e.of \in 1..MaxEvents
        /\ Engaged' = {e} /\ turns' = [turns EXCEPT ![e.of] = @ + 1]
    <3>1. e \in Queued /\ e.kind # "ws" /\ Engaged' = {e} /\ turns' = [turns EXCEPT ![e.of] = @ + 1]
      BY <1>14, <2>1 DEF Engaged, Counted
    <3>2. Tracked(e)
      BY <3>1 DEF TurnsInv, TurnsShape, Around
    <3>3. e.of \in 1..MaxEvents /\ e.born \in Nat /\ e \in Events
      BY <3>2, EventFacts DEF Tracked
    <3>4. e.of <= born
      BY <1>9, <3>2, <3>3 DEF Tracked
    <3> QED BY <3>1, <3>3, <3>4
  <2>3. \A m \in 1..MaxEvents : m # e.of => turns'[m] = turns[m]
    BY <1>9, <2>2
  <2>4. ASSUME NEW m \in Unrecorded PROVE Lighter(m)
    <3>1. CASE m # e.of
      BY <1>11, <1>12, <2>3, <3>1 DEF Lighter, Unrecorded
    <3>2. CASE m = e.of
      <4>1. turns'[m] = turns[m] + 1
        BY <1>9, <2>2, <3>2
      <4>2. ReadyQueued(m)
        BY <2>2, <3>2 DEF ReadyQueued, InQueues
      <4>3. \A f \in Queued' : f.born # e.born
        BY <2>2 DEF DispatchInv, PlacesInv, Five, Apart, Queued, LoopEvents
      <4>4. e.born = m /\ \A f \in Queued' : f.of = m => f.born = m
        <5>1. \A f \in Around : f.of = m => f.born = m
          BY InvTracks DEF TurnsInv
        <5>2. \A f \in Queued' : f.of = m => f.born = m
          BY <1>5, <5>1 DEF Around, Same
        <5> QED BY <2>2, <3>2, <5>1, <5>2 DEF Around
      <4>5. ~InQueues(m)'
        BY <4>3, <4>4 DEF InQueues
      <4>6. ~ReadyQueued(m)'
        BY <1>14, <4>5 DEF ReadyQueued, Unbegun
      <4> QED BY <1>12, <4>1, <4>2, <4>6 DEF Lighter
    <3> QED BY <3>1, <3>2
  <2>5. ASSUME NEW m \in Unrecorded' PROVE Bounded(m)'
    <3>1. m \in Unrecorded /\ m \in 1..MaxEvents
      BY DEF Unrecorded
    <3>2. Bounded(m) /\ Lighter(m)
      BY <2>4, <3>1 DEF TurnsInv
    <3> QED BY <1>5, <1>9, <3>1, <3>2, BoundedKept DEF Same
  <2>6. UnbornHasNoTurn'
    <3>1. \A m \in 1..MaxEvents : m > born => m # e.of
      BY <1>9, <2>2
    <3> QED BY <2>3, <3>1 DEF TurnsInv, TurnsShape, UnbornHasNoTurn
  <2> QED BY <1>6, <1>7, <1>8, <2>5, <2>6 DEF TurnsInv, TurnsShape
<1> QED BY <1>1, <1>13, <1>14 DEF Taken

LEMMA LoopTakesKeeps ==
  ASSUME DispatchInv, DispatchInv', TurnsInv, Breath \/ MicroReplied \/ QueueTurnCloses
  PROVE  TurnsInv'
<1>1. CASE Breath
  <2>1. at["loop"] \notin Unbegun /\ UNCHANGED <<recorded, born, inbox>>
    BY <1>1 DEF Breath, Unbegun
  <2>2. PICK q \in SUBSET (queue \cup stash) :
          /\ stash' \subseteq stash
          /\ \E rest \in SUBSET q, left \in SUBSET q : Settled(left, rest, {})
    BY <1>1, BreathSettles
  <2>3. PICK rest \in SUBSET q, left \in SUBSET q : Settled(left, rest, {})
    BY <2>2
  <2>4. left \cup rest \cup {} \cup Aside \subseteq Queued
    BY <2>2, <2>3 DEF Queued
  <2> QED BY <2>1, <2>2, <2>3, <2>4, TakenKeeps
<1>2. CASE MicroReplied \/ QueueTurnCloses
  <2>1. /\ at["loop"] \notin Unbegun /\ inbox' \subseteq inbox
        /\ UNCHANGED <<stash, recorded, born>>
    BY <1>2, TurnSettles DEF Unbegun
  <2>2. PICK rest \in SUBSET batch : Settled(queue, rest, deferred)
    BY <1>2, TurnSettles
  <2>3. queue \cup rest \cup deferred \cup Aside \subseteq Queued
    BY <2>2 DEF Queued
  <2> QED BY <2>1, <2>2, <2>3, TakenKeeps
<1> QED BY <1>1, <1>2

(* The steps at which a task begins its turn or waits for it.              *)
LEMMA TurnStartsKeep ==
  ASSUME DispatchInv, DispatchInv', TurnsInv,
         HandOver \/ WakeEnters \/ DirectEnters \/ HomeEnters
  PROVE  TurnsInv'
<1>1. CASE HandOver
  <2>1. PICK t : t = Head(line)
    OBVIOUS
  <2>2. /\ t \in Tasks /\ at[t] = "waiting"
        /\ at' = [at EXCEPT ![t] = "running"] /\ Counted(cur[t])
        /\ UNCHANGED <<cur, route, queue, pending, batch, deferred, background, stash, recorded,
                       born, inbox>>
    <3>1. line \in Seq(Tasks) /\ line # <<>>
      BY <1>1, InvMoreTypes DEF HandOver
    <3>2. 1 \in DOMAIN line /\ Head(line) = line[1] /\ line[1] \in Tasks
      BY <3>1
    <3> QED BY <1>1, <2>1, <3>2, InvTypes DEF HandOver, Begin, loopVars, holdVars, LineWaits
  <2>3. at'[t] = "running" /\ \A u \in Tasks : u # t => at'[u] = at[u]
    BY <2>2, InvMoreTypes
  <2> QED BY <2>2, <2>3, AdvanceKeeps DEF Unbegun
<1>2. ASSUME NEW t \in Tasks, at[t] \in {"arrived", "announcing"}, AcquireDeep(t, cur[t]),
             UNCHANGED <<cur, route, pending, batch, deferred, background, stash, recorded, born, inbox>>,
             \A e \in queue' : e \in queue \cup HomeCur
      PROVE  TurnsInv'
  <2>1. PICK place \in {"waiting", "running"} :
          /\ at' = [at EXCEPT ![t] = place]
          /\ \/ place = "waiting" /\ UNCHANGED turns
             \/ place = "running" /\ Counted(cur[t])
    BY <1>2 DEF AcquireDeep, Begin
  <2>2. at'[t] = place /\ \A u \in Tasks : u # t => at'[u] = at[u]
    BY <2>1, InvMoreTypes
  <2>3. at[t] \in Unbegun
    BY <1>2 DEF Unbegun
  <2> QED BY <1>2, <2>1, <2>2, <2>3, AdvanceKeeps
<1>3. CASE WakeEnters
  BY <1>2, <1>3, InvMoreTypes DEF WakeEnters, loopVars, holdVars
<1>4. CASE DirectEnters
  BY <1>2, <1>4, InvMoreTypes DEF DirectEnters, loopVars, holdVars
<1>5. CASE HomeEnters
  <2>1. \A e \in queue' : e \in queue \cup HomeCur
    BY <1>5, PushIs DEF HomeEnters, HomeCur
  <2> QED BY <1>2, <1>5, <2>1, InvMoreTypes DEF HomeEnters, holdVars
<1> QED BY <1>1, <1>3, <1>4, <1>5

(* The steps that begin no turn and bring nothing.                         *)
LEMMA TurnEndsKeep ==
  ASSUME DispatchInv, TurnsInv,
         \/ LoopTurnEnds \/ PendingTurnCloses \/ HomeTurnEnds \/ HomeCloses \/ HomeBreaksOff
         \/ DirectEnds \/ LoopStarts \/ LoopStops \/ Restart \/ UNCHANGED vars
  PROVE  TurnsInv'
<1>1. /\ at \in [Tasks -> TaskPlaces] /\ cur \in [Tasks -> Events \cup {NoEvent}]
      /\ "loop" \in Tasks /\ "home" \in Tasks /\ "direct" \in Tasks
      /\ IdleIsEmpty
  BY InvMoreTypes DEF TurnsInv, TurnsShape
<1>2. CASE LoopTurnEnds \/ HomeTurnEnds
  <2>1. PICK t \in {"loop", "home"} : at[t] = "running" /\ at' = [at EXCEPT ![t] = "closing"]
    BY <1>2 DEF LoopTurnEnds, HomeTurnEnds
  <2>2. /\ UNCHANGED <<turns, recorded, born, inbox, queue, batch, deferred, background, stash, pending,
                       route, cur>>
    BY <1>2 DEF LoopTurnEnds, HomeTurnEnds, loopVars, holdVars, histVars
  <2>3. at'[t] = "closing" /\ \A u \in Tasks : u # t => at'[u] = at[u]
    BY <1>1, <2>1
  <2>4. /\ Queued' = Queued /\ Engaged' = Engaged /\ LegacyCur' = LegacyCur
        /\ HomeCur' = HomeCur /\ DirectCur' = DirectCur
    BY <1>1, <2>1, <2>2, <2>3 DEF Queued, Aside, Engaged, LegacyCur, HomeCur, DirectCur
  <2>5. IdleIsEmpty' /\ \A u \in Tasks : at'[u] \in Unbegun => at[u] \in Unbegun
    BY <1>1, <2>2, <2>3 DEF IdleIsEmpty, Unbegun
  <2> QED BY <2>2, <2>4, <2>5, LessKeeps
<1>3. CASE UNCHANGED vars
  <2>1. /\ UNCHANGED <<turns, recorded, born, inbox, queue, batch, deferred, background, stash, pending,
                       route, cur, at>>
    BY <1>3 DEF vars, loopVars, holdVars, turnVars, histVars
  <2>2. /\ Queued' = Queued /\ Engaged' = Engaged /\ LegacyCur' = LegacyCur
        /\ HomeCur' = HomeCur /\ DirectCur' = DirectCur /\ IdleIsEmpty'
    BY <1>1, <2>1 DEF Queued, Aside, Engaged, LegacyCur, HomeCur, DirectCur, IdleIsEmpty
  <2> QED BY <2>1, <2>2, LessKeeps
<1>4. ASSUME NEW t \in Tasks, at' = [at EXCEPT ![t] = "idle"], cur' = [cur EXCEPT ![t] = NoEvent],
             UNCHANGED <<turns, recorded, born, inbox>>, Queued' \subseteq Queued,
             pending' \subseteq pending, IF t = "loop" THEN route' = "none" ELSE UNCHANGED route
      PROVE  TurnsInv'
  <2>1. /\ at'[t] = "idle" /\ cur'[t] = NoEvent
        /\ \A u \in Tasks : u # t => at'[u] = at[u] /\ cur'[u] = cur[u]
    BY <1>1, <1>4
  <2>2. /\ Engaged' \subseteq Engaged /\ LegacyCur' \subseteq LegacyCur
        /\ HomeCur' \subseteq HomeCur /\ DirectCur' \subseteq DirectCur
    BY <1>1, <1>4, <2>1 DEF Engaged, LegacyCur, HomeCur, DirectCur
  <2>3. IdleIsEmpty' /\ \A u \in Tasks : at'[u] \in Unbegun => at[u] \in Unbegun
    BY <1>1, <2>1 DEF IdleIsEmpty, Unbegun
  <2> QED BY <1>4, <2>2, <2>3, LessKeeps
<1>5. CASE PendingTurnCloses
  <2>1. Queued' = Queued
    BY <1>5 DEF PendingTurnCloses, holdVars, Queued, Aside
  <2> QED BY <1>1, <1>4, <1>5, <2>1 DEF PendingTurnCloses, LoopAt, holdVars, histVars
<1>6. CASE HomeCloses \/ HomeBreaksOff
  <2>1. Queued' \subseteq Queued
    BY <1>6 DEF HomeCloses, HomeBreaksOff, holdVars, Queued, Aside
  <2> QED BY <1>1, <1>4, <1>6, <2>1 DEF HomeCloses, HomeBreaksOff, HomeLeaves, holdVars, histVars
<1>7. CASE DirectEnds
  <2>1. Queued' = Queued
    BY <1>7 DEF DirectEnds, holdVars, Queued, Aside
  <2> QED BY <1>1, <1>4, <1>7, <2>1 DEF DirectEnds, holdVars, histVars
<1>8. CASE LoopStarts
  <2>1. /\ UNCHANGED <<turns, recorded, born, inbox, batch, deferred, background, pending, route, cur, at>>
        /\ queue' \subseteq stash /\ stash' = {}
    BY <1>8, PushIs DEF LoopStarts, turnVars, histVars
  <2>2. /\ Queued' \subseteq Queued /\ Engaged' = Engaged /\ LegacyCur' = LegacyCur
        /\ HomeCur' = HomeCur /\ DirectCur' = DirectCur /\ IdleIsEmpty'
    BY <1>1, <2>1 DEF Queued, Aside, Engaged, LegacyCur, HomeCur, DirectCur, IdleIsEmpty
  <2> QED BY <2>1, <2>2, LessKeeps
<1>9. CASE LoopStops
  <2>1. Queued' \subseteq Queued
    BY <1>9 DEF LoopStops, LoopForgets, Queued, Aside
  <2> QED BY <1>1, <1>4, <1>9, <2>1 DEF LoopStops, LoopForgets, histVars
<1>10. CASE Restart
  <2>1. /\ UNCHANGED <<turns, recorded, born, inbox>> /\ pending' = {} /\ route' = "none"
        /\ queue' = {} /\ batch' = {} /\ deferred' = {} /\ stash' = {} /\ background' = <<>>
        /\ \A t \in Tasks : at'[t] = "idle" /\ cur'[t] = NoEvent
    BY <1>10 DEF Restart, LoopForgets, histVars
  <2>2. /\ Queued' = {} /\ Engaged' = {} /\ LegacyCur' = {} /\ HomeCur' = {} /\ DirectCur' = {}
    BY <1>1, <2>1, EmptyPlaces DEF Queued, Aside, Engaged, LegacyCur, HomeCur, DirectCur
  <2>3. IdleIsEmpty' /\ \A t \in Tasks : at'[t] \in Unbegun => at[t] \in Unbegun
    BY <2>1 DEF IdleIsEmpty, Unbegun
  <2> QED BY <2>1, <2>2, <2>3, LessKeeps
<1> QED BY <1>2, <1>3, <1>5, <1>6, <1>7, <1>8, <1>9, <1>10

-----------------------------------------------------------------------------
(* New events and their turns                                              *)

LEMMA AroundFacts ==
  ASSUME DispatchInv, TurnsInv
  PROVE  /\ born \in Nat
         /\ \A e \in Around : e.born \in Nat /\ e.of \in Nat /\ e.born <= born /\ e.of <= born
<1>1. born \in Nat
  BY InvTypes
<1>2. ASSUME NEW e \in Around
      PROVE  e.born \in Nat /\ e.of \in Nat /\ e.born <= born /\ e.of <= e.born
  <2>1. Tracked(e)
    BY DEF TurnsInv, TurnsShape
  <2>2. e \in Events /\ e.of <= e.born /\ e.born <= born
    BY <2>1 DEF Tracked
  <2>3. e.of \in 1..MaxEvents
    BY <2>2, EventFacts
  <2> QED BY <2>2, <2>3, EventFacts
<1> QED BY <1>1, <1>2

(* New events, of births to come, enter the queues (NQ) or go beside (NB). *)
LEMMA CreationKeeps ==
  ASSUME DispatchInv, DispatchInv', TurnsInv, NEW NQ, NEW NB,
         UNCHANGED turns, born <= born', recorded \subseteq recorded',
         \A e \in Around' : e \in Around \cup NQ \cup NB,
         \A e \in NQ \cup NB : Tracked(e)' /\ e.born > born,
         \A m : ReadyQueued(m)' => ReadyQueued(m) \/ \E e \in NQ : e.of = m,
         \A m : ReadyBeside(m)' => ReadyBeside(m) \/ \E e \in NB : e.of = m,
         NQ = {} \/ NB = {} \/ \A e \in NQ \cup NB : e.kind \in Wakes,
         BesideIsApart', HomeIsWs', IdleIsEmpty',
         \A r \in inbox' : r.of \in recorded'
  PROVE  TurnsInv'
<1>1. /\ born \in Nat /\ born' \in Nat /\ turns \in [1..MaxEvents -> Nat]
      /\ turns' \in [1..MaxEvents -> Nat] /\ MaxEvents \in Nat
  BY DispatchTypes DEF DispatchInv, TypeOK
<1>2. \A e \in Around : /\ e.born \in Nat /\ e.of \in Nat /\ e.born <= born /\ e.of <= born
  BY AroundFacts
<1>3. \A e \in Around' : Tracked(e)'
  <2>1. ASSUME NEW e \in Around PROVE Tracked(e)'
    <3>1. Tracked(e)
      BY DEF TurnsInv, TurnsShape
    <3>2. e.born <= born'
      BY <1>1, <1>2
    <3> QED BY <3>1, <3>2 DEF Tracked
  <2> QED BY <2>1
<1>4. UnbornHasNoTurn'
  BY <1>1 DEF TurnsInv, TurnsShape, UnbornHasNoTurn
<1>5. ASSUME NEW m \in Unrecorded' PROVE Bounded(m)'
  <2>1. m \in Unrecorded /\ m \in 1..MaxEvents
    BY DEF Unrecorded
  <2>2. CASE \E e \in NQ \cup NB : e.of = m
    <3>1. PICK e \in NQ \cup NB : e.of = m
      BY <2>2
    <3>2. e.born = m /\ m > born
      BY <3>1 DEF Tracked, Unrecorded
    <3>3. \A f \in Around : f.of # m
      BY <1>1, <1>2, <2>1, <3>2
    <3>4. ~ReadyQueued(m) /\ ~ReadyBeside(m)
      BY <3>3 DEF ReadyQueued, ReadyBeside, InQueues, Around
    <3>5. turns'[m] = 0
      BY <2>1, <3>2 DEF TurnsInv, TurnsShape, UnbornHasNoTurn
    <3>6. Weight(m)' <= 2
      BY <3>5 DEF Weight
    <3>7. ASSUME NEW f \in Around', f.of = m, f.kind \notin Wakes PROVE Weight(m)' <= 1
      <4>1. f \in NQ \cup NB
        BY <3>3, <3>7
      <4>2. NQ = {} \/ NB = {}
        BY <3>7, <4>1
      <4>3. ~ReadyQueued(m)' \/ ~ReadyBeside(m)'
        BY <3>4, <4>2
      <4> QED BY <3>5, <4>3 DEF Weight
    <3> QED BY <3>6, <3>7 DEF Bounded
  <2>3. CASE \A e \in NQ \cup NB : e.of # m
    <3>1. Lighter(m)
      BY <2>3 DEF Lighter
    <3>2. \A e \in Around' : e.of = m => \E f \in Around : f.of = m /\ f.kind = e.kind
      BY <2>3
    <3>3. Bounded(m)
      BY <2>1 DEF TurnsInv
    <3> QED BY <1>1, <2>1, <3>1, <3>2, <3>3, BoundedKept
  <2> QED BY <2>2, <2>3
<1> QED BY <1>3, <1>4, <1>5 DEF TurnsInv, TurnsShape

LEMMA EnqueueWakeTurns ==
  ASSUME DispatchInv, DispatchInv', TurnsInv, NEW kind \in Wakes, EnqueueWake(kind)
  PROVE  TurnsInv'
<1>1. PICK e : e = Event(kind, born + 1, born + 1)
  OBVIOUS
<1>2. /\ born < MaxEvents /\ queue \subseteq queue' /\ queue' \subseteq queue \cup {e}
      /\ born' = born + 1 /\ pending' \subseteq pending \cup {e}
      /\ UNCHANGED <<batch, deferred, route, background, stash, inbox, at, cur, recorded, turns>>
  BY <1>1, PushIs DEF EnqueueWake, holdVars, turnVars
<1>3. e \in Events /\ e.born = born + 1 /\ e.of = born + 1 /\ e.kind = kind
  BY <1>1, <1>2, NewEvent DEF Kinds
<1>4. born \in Nat /\ \A f \in Around : f.born \in Nat /\ f.born <= born
  BY AroundFacts
<1>5. /\ Queued' \subseteq Queued \cup {e} /\ Engaged' = Engaged /\ LegacyCur' = LegacyCur
      /\ HomeCur' = HomeCur /\ DirectCur' = DirectCur
  BY <1>2 DEF Queued, Aside, Engaged, LegacyCur, HomeCur, DirectCur
<1>6. Tracked(e)' /\ e.born > born /\ born <= born'
  BY <1>2, <1>3, <1>4 DEF Tracked
<1>7. \A f \in Around : f.born # e.born
  BY <1>3, <1>4
<1>8. BesideIsApart' /\ HomeIsWs' /\ IdleIsEmpty'
  <2>1. BesideIsApart
    BY DEF TurnsInv, TurnsShape
  <2>2. Distinct(pending') /\ Apart(pending', LegacyCur)
    BY <1>2, <1>7, <2>1 DEF BesideIsApart, Distinct, Apart, Around
  <2>3. Apart(pending' \cup LegacyCur, HomeCur) /\ Apart(pending' \cup LegacyCur \cup HomeCur, DirectCur)
    BY <1>2, <1>7, <2>1 DEF BesideIsApart, Apart, Around
  <2> QED BY <1>2, <1>5, <2>2, <2>3 DEF BesideIsApart, TurnsInv, TurnsShape, HomeIsWs, IdleIsEmpty
<1>9. \A m : ReadyQueued(m)' => ReadyQueued(m) \/ e.of = m
  BY <1>2, <1>5 DEF ReadyQueued, InQueues
<1>10. \A m : ReadyBeside(m)' => ReadyBeside(m) \/ e.of = m
  BY <1>2, <1>5 DEF ReadyBeside
<1>11. \A f \in Around' : f \in Around \cup {e}
  BY <1>2, <1>5 DEF Around
<1>12. \A r \in inbox' : r.of \in recorded'
  BY <1>2 DEF TurnsInv, TurnsShape
<1>13. PICK N : N = {e}
  OBVIOUS
<1>14. /\ \A f \in Around' : f \in Around \cup N \cup N
       /\ \A f \in N \cup N : Tracked(f)' /\ f.born > born
       /\ \A m : ReadyQueued(m)' => ReadyQueued(m) \/ \E f \in N : f.of = m
       /\ \A m : ReadyBeside(m)' => ReadyBeside(m) \/ \E f \in N : f.of = m
       /\ \A f \in N \cup N : f.kind \in Wakes
  BY <1>3, <1>6, <1>9, <1>10, <1>11, <1>13
<1> QED BY <1>2, <1>6, <1>8, <1>12, <1>14, CreationKeeps

(* A message that reaches the queue or the stash, *)
LEMMA ChannelQueuedTurns ==
  ASSUME DispatchInv, DispatchInv', TurnsInv, NEW e, Tracked(e)', e.born > born, born <= born',
         Queued' \subseteq Queued \cup {e}, recorded \subseteq recorded',
         \A r \in inbox' : r.of \in recorded',
         UNCHANGED <<pending, route, at, cur, turns>>
  PROVE  TurnsInv'
<1>1. /\ Engaged' = Engaged /\ LegacyCur' = LegacyCur
      /\ HomeCur' = HomeCur /\ DirectCur' = DirectCur
  BY DEF Engaged, LegacyCur, HomeCur, DirectCur
<1>2. BesideIsApart' /\ HomeIsWs' /\ IdleIsEmpty'
  BY <1>1 DEF BesideIsApart, TurnsInv, TurnsShape, HomeIsWs, IdleIsEmpty
<1>3. \A m : ReadyQueued(m)' => ReadyQueued(m) \/ e.of = m
  BY <1>1 DEF ReadyQueued, InQueues
<1>4. \A m : ReadyBeside(m)' => ReadyBeside(m)
  BY <1>1 DEF ReadyBeside
<1>5. \A f \in Around' : f \in Around \cup {e}
  BY <1>1 DEF Around
<1>6. PICK N, None : N = {e} /\ None = {}
  OBVIOUS
<1>7. /\ \A f \in Around' : f \in Around \cup N \cup None
      /\ \A f \in N \cup None : Tracked(f)' /\ f.born > born
      /\ \A m : ReadyQueued(m)' => ReadyQueued(m) \/ \E f \in N : f.of = m
      /\ \A m : ReadyBeside(m)' => ReadyBeside(m) \/ \E f \in None : f.of = m
  BY <1>3, <1>4, <1>5, <1>6
<1>8. turns' = turns /\ (N = {} \/ None = {} \/ \A f \in N \cup None : f.kind \in Wakes)
  BY <1>6
<1> QED BY <1>2, <1>7, <1>8, CreationKeeps

(* or a task that was idle. *)
LEMMA ArrivalTurns ==
  ASSUME DispatchInv, DispatchInv', TurnsInv, NEW e, Tracked(e)', e.born > born, born <= born',
         NEW t \in {"home", "direct"}, at[t] = "idle", t = "home" => e.kind = "ws",
         at'[t] = "arrived", cur'[t] = e,
         \A u \in Tasks : u # t => at'[u] = at[u] /\ cur'[u] = cur[u],
         recorded \subseteq recorded', \A r \in inbox' : r.of \in recorded',
         UNCHANGED <<queue, batch, deferred, background, stash, pending, route, turns>>
  PROVE  TurnsInv'
<1>1. /\ at \in [Tasks -> TaskPlaces] /\ cur \in [Tasks -> Events \cup {NoEvent}]
      /\ "loop" \in Tasks /\ "home" \in Tasks /\ "direct" \in Tasks
  BY InvMoreTypes
<1>2. /\ at'[t] = "arrived" /\ cur'[t] = e
      /\ \A u \in Tasks : u # t => at'[u] = at[u] /\ cur'[u] = cur[u]
  OBVIOUS
<1>3. /\ Queued' = Queued /\ Engaged' = Engaged /\ LegacyCur' = LegacyCur
      /\ IF t = "home" THEN HomeCur = {} /\ HomeCur' = {e} /\ DirectCur' = DirectCur
                       ELSE DirectCur = {} /\ DirectCur' = {e} /\ HomeCur' = HomeCur
  BY <1>1, <1>2 DEF Queued, Aside, Engaged, LegacyCur, HomeCur, DirectCur
<1>4. \A f \in Around : f.born # e.born
  <2>1. born \in Nat /\ \A f \in Around : f.born \in Nat /\ f.born <= born
    BY AroundFacts
  <2> QED BY <2>1
<1>5. BesideIsApart'
  <2>1. BesideIsApart
    BY DEF TurnsInv, TurnsShape
  <2>2. Apart(pending \cup LegacyCur, HomeCur')
    BY <1>3, <1>4, <2>1 DEF BesideIsApart, Apart, Around
  <2>3. Apart(pending \cup LegacyCur \cup HomeCur', DirectCur')
    BY <1>3, <1>4, <2>1 DEF BesideIsApart, Apart, Around
  <2> QED BY <1>3, <2>1, <2>2, <2>3 DEF BesideIsApart
<1>6. HomeIsWs' /\ IdleIsEmpty'
  BY <1>2, <1>3 DEF TurnsInv, TurnsShape, HomeIsWs, IdleIsEmpty
<1>7. \A m : ReadyQueued(m)' => ReadyQueued(m)
  BY <1>1, <1>2, <1>3 DEF ReadyQueued, InQueues
<1>8. \A m : ReadyBeside(m)' => ReadyBeside(m) \/ e.of = m
  BY <1>1, <1>2, <1>3 DEF ReadyBeside
<1>9. \A f \in Around' : f \in Around \cup {e}
  BY <1>3 DEF Around
<1>10. PICK N, None : N = {e} /\ None = {}
  OBVIOUS
<1>11. /\ \A f \in Around' : f \in Around \cup None \cup N
       /\ \A f \in None \cup N : Tracked(f)' /\ f.born > born
       /\ \A m : ReadyQueued(m)' => ReadyQueued(m) \/ \E f \in None : f.of = m
       /\ \A m : ReadyBeside(m)' => ReadyBeside(m) \/ \E f \in N : f.of = m
  BY <1>7, <1>8, <1>9, <1>10
<1>12. turns' = turns /\ None = {}
  BY <1>10
<1> QED BY <1>5, <1>6, <1>11, <1>12, CreationKeeps

LEMMA MessagesTurns ==
  ASSUME DispatchInv, DispatchInv', TurnsInv,
         HomeArrives \/ \E kind \in Channel : ChannelMessage(kind)
  PROVE  TurnsInv'
<1>1. \A r \in inbox : r.of \in recorded
  BY DEF TurnsInv, TurnsShape
<1>2. ASSUME NEW kind \in Kinds, NEW e, e = Event(kind, born + 1, born + 1),
             born < MaxEvents, born' = born + 1
      PROVE  Tracked(e)' /\ e.born > born /\ born <= born' /\ e.kind = kind /\ e.of = born + 1
  <2>1. born \in Nat
    BY InvTypes
  <2>2. e \in Events /\ e.born = born + 1 /\ e.of = born + 1 /\ e.kind = kind
    BY <1>2, NewEvent
  <2> QED BY <1>2, <2>1, <2>2 DEF Tracked
<1>3. CASE HomeArrives
  <2>1. PICK e : e = Event("ws", born + 1, born + 1)
    OBVIOUS
  <2>2. /\ born < MaxEvents /\ born' = born + 1 /\ at["home"] = "idle"
        /\ at' = [at EXCEPT !["home"] = "arrived"] /\ cur' = [cur EXCEPT !["home"] = e]
        /\ UNCHANGED <<queue, pending, batch, deferred, route, background, stash, inbox, recorded, turns>>
    BY <1>3, <2>1 DEF HomeArrives, holdVars
  <2>3. Tracked(e)' /\ e.born > born /\ born <= born' /\ e.kind = "ws"
    BY <1>2, <2>1, <2>2 DEF Kinds
  <2>4. /\ at'["home"] = "arrived" /\ cur'["home"] = e
        /\ \A u \in Tasks : u # "home" => at'[u] = at[u] /\ cur'[u] = cur[u]
    BY <2>2, InvMoreTypes
  <2> QED BY <1>1, <2>2, <2>3, <2>4, ArrivalTurns
<1>4. ASSUME NEW kind \in Channel, ChannelMessage(kind) PROVE TurnsInv'
  <2>1. PICK e : e = Event(kind, born + 1, born + 1)
    OBVIOUS
  <2>2. /\ born < MaxEvents /\ born' = born + 1
        /\ UNCHANGED <<pending, batch, deferred, route, background, turns>>
        /\ \/ inbox' = inbox /\ recorded' = recorded
           \/ inbox' = inbox \cup {e} /\ recorded' = recorded \cup {e.of}
        /\ \/ /\ queue' \cup stash' \subseteq queue \cup stash \cup {e}
              /\ UNCHANGED <<at, cur>>
           \/ /\ at["direct"] = "idle"
              /\ at' = [at EXCEPT !["direct"] = "arrived"]
              /\ cur' = [cur EXCEPT !["direct"] = e]
              /\ UNCHANGED <<queue, stash>>
    BY <1>4, <2>1, PushIs DEF ChannelMessage
  <2>3. Tracked(e)' /\ e.born > born /\ born <= born'
    BY <1>2, <2>1, <2>2 DEF Kinds
  <2>4. recorded \subseteq recorded' /\ \A r \in inbox' : r.of \in recorded'
    BY <1>1, <2>2
  <2>5. CASE queue' \cup stash' \subseteq queue \cup stash \cup {e} /\ UNCHANGED <<at, cur>>
    <3>1. Queued' \subseteq Queued \cup {e}
      BY <2>2, <2>5 DEF Queued, Aside
    <3> QED BY <2>2, <2>3, <2>4, <2>5, <3>1, ChannelQueuedTurns
  <2>6. CASE /\ at["direct"] = "idle" /\ at' = [at EXCEPT !["direct"] = "arrived"]
             /\ cur' = [cur EXCEPT !["direct"] = e] /\ UNCHANGED <<queue, stash>>
    <3>1. /\ at'["direct"] = "arrived" /\ cur'["direct"] = e
          /\ \A u \in Tasks : u # "direct" => at'[u] = at[u] /\ cur'[u] = cur[u]
      BY <2>6, InvMoreTypes
    <3> QED BY <2>2, <2>3, <2>4, <2>6, <3>1, ArrivalTurns
  <2> QED BY <2>2, <2>5, <2>6
<1> QED BY <1>3, <1>4

(* A replayed row has an origin that was recorded.                         *)
LEMMA ReplayInboxTurns ==
  ASSUME DispatchInv, DispatchInv', TurnsInv, ReplayInbox
  PROVE  TurnsInv'
<1>1. PICK rows : rows = {r \in inbox : OlderRows(r) < ReplayLimit}
  OBVIOUS
<1>2. PICK wrapped :
        /\ queue \subseteq queue'
        /\ queue' \subseteq queue \cup {Event(ReplayKind(r, wrapped), ReplayBirth(r), r.of) : r \in rows}
  BY <1>1, PushIs DEF ReplayInbox
<1>3. /\ born' = born + Cardinality(rows)
      /\ UNCHANGED <<pending, batch, deferred, route, background, stash, inbox, at, cur, recorded, turns>>
  BY <1>1 DEF ReplayInbox, turnVars
<1>4. /\ Cardinality(rows) \in Nat /\ rows \subseteq inbox
      /\ \A r \in rows : OlderRows(r) \in Nat /\ OlderRows(r) < Cardinality(rows)
  BY <1>1, RowsAreNumbered
<1>5. born \in Nat /\ born <= born' /\ born' \in Nat
  BY <1>3, <1>4, InvTypes
<1> DEFINE NQ == {e \in queue' : \E r \in rows : e = Event(ReplayKind(r, wrapped), ReplayBirth(r), r.of)}
<1>6. ASSUME NEW e \in NQ PROVE Tracked(e)' /\ e.born > born /\ e.of \in recorded'
  <2>1. PICK r \in rows : e = Event(ReplayKind(r, wrapped), ReplayBirth(r), r.of)
    OBVIOUS
  <2>2. e.born = born + 1 + OlderRows(r) /\ e.of = r.of
    BY <2>1 DEF Event, ReplayBirth
  <2>3. r \in inbox /\ r.of \in recorded'
    BY <1>3, <1>4 DEF TurnsInv, TurnsShape
  <2>4. r.of <= born /\ r.of \in Nat
    BY <2>3, InvMoreTypes, EventFacts
  <2>5. OlderRows(r) \in Nat /\ OlderRows(r) < Cardinality(rows) /\ Cardinality(rows) \in Nat
    BY <1>4
  <2>6. e.born > born /\ e.born <= born' /\ e.of <= e.born
    BY <1>3, <1>5, <2>2, <2>4, <2>5
  <2>7. e \in Events
    BY DEF DispatchInv, TypeOK
  <2> QED BY <2>2, <2>3, <2>6, <2>7 DEF Tracked
<1>7. queue' \subseteq queue \cup NQ
  BY <1>2
<1> HIDE DEF NQ
<1>8. /\ Queued' \subseteq Queued \cup NQ /\ Engaged' = Engaged /\ LegacyCur' = LegacyCur
      /\ HomeCur' = HomeCur /\ DirectCur' = DirectCur
  BY <1>3, <1>7 DEF Queued, Aside, Engaged, LegacyCur, HomeCur, DirectCur
<1>9. BesideIsApart' /\ HomeIsWs' /\ IdleIsEmpty'
  BY <1>3, <1>8 DEF BesideIsApart, TurnsInv, TurnsShape, HomeIsWs, IdleIsEmpty
<1>10. \A m : ReadyQueued(m)' => ReadyQueued(m) \/ \E e \in NQ : e.of = m
  BY <1>3, <1>8 DEF ReadyQueued, InQueues
<1>11. \A m : ReadyBeside(m)' => ReadyBeside(m)
  BY <1>3, <1>8 DEF ReadyBeside
<1>12. \A e \in Around' : e \in Around \cup NQ
  BY <1>3, <1>8 DEF Around
<1>13. \A r \in inbox' : r.of \in recorded'
  BY <1>3 DEF TurnsInv, TurnsShape
<1>14. PICK None : None = {}
  OBVIOUS
<1>15. /\ \A f \in Around' : f \in Around \cup NQ \cup None
       /\ \A f \in NQ \cup None : Tracked(f)' /\ f.born > born
       /\ \A m : ReadyBeside(m)' => ReadyBeside(m) \/ \E f \in None : f.of = m
  BY <1>6, <1>11, <1>12, <1>14
<1> QED BY <1>3, <1>5, <1>9, <1>10, <1>13, <1>14, <1>15, CreationKeeps

-----------------------------------------------------------------------------
(* Messages that leave                                                     *)

BegunPlaces == {"micro", "running", "closing"}

NoLoopNoQueue == loop = "none" => queue = {} /\ ~replayDue /\ at["loop"] = "idle"
DeferredAreWakes == \A e \in deferred : e.kind \notin Channel
TurnsHaveBegun == \A t \in Tasks : at[t] \in BegunPlaces => turns[cur[t].of] > 0
LegacyAreWakes == \A e \in LegacyCur : e.kind \in Wakes
AsideAreWakes == \A e \in Aside : e.kind \notin Channel

LeaveInv == /\ NoLoopNoQueue /\ DeferredAreWakes /\ TurnsHaveBegun /\ LegacyAreWakes
            /\ AsideAreWakes

LEMMA CurIsAround ==
  ASSUME DispatchInv, TurnsInv, NEW t \in Tasks, at[t] # "idle"
  PROVE  cur[t] \in Around /\ cur[t].of \in 1..MaxEvents
<1>1. cur[t] \in Around
  BY InvTracks DEF TurnsInv, Around, HomeCur, DirectCur, Tasks
<1>2. Tracked(cur[t])
  BY <1>1 DEF TurnsInv, TurnsShape
<1> QED BY <1>1, <1>2, EventFacts DEF Tracked

LEMMA CountedGrows ==
  ASSUME DispatchInv, NEW e, e.of \in 1..MaxEvents, Counted(e)
  PROVE  turns'[e.of] > 0 /\ \A m \in 1..MaxEvents : turns[m] > 0 => turns'[m] > 0
<1>1. turns \in [1..MaxEvents -> Nat]
  BY InvMoreTypes
<1> QED BY <1>1 DEF Counted

(* A step in which tasks move and nothing is deferred.                     *)
LEMMA LeaveKept ==
  ASSUME DispatchInv, TurnsInv, LeaveInv, deferred' \subseteq deferred, LegacyCur' \subseteq LegacyCur,
         Aside' \subseteq Aside,
         \A m \in 1..MaxEvents : turns[m] > 0 => turns'[m] > 0,
         \A t \in Tasks : at'[t] \in BegunPlaces =>
           \/ at[t] \in BegunPlaces /\ cur'[t] = cur[t]
           \/ turns'[cur'[t].of] > 0,
         NoLoopNoQueue'
  PROVE  LeaveInv'
<1>1. DeferredAreWakes' /\ LegacyAreWakes' /\ AsideAreWakes'
  BY DEF LeaveInv, DeferredAreWakes, LegacyAreWakes, AsideAreWakes
<1>2. ASSUME NEW t \in Tasks, at'[t] \in BegunPlaces PROVE turns'[cur'[t].of] > 0
  <2>1. CASE at[t] \in BegunPlaces /\ cur'[t] = cur[t]
    <3>1. cur[t].of \in 1..MaxEvents
      BY <2>1, CurIsAround DEF BegunPlaces
    <3> QED BY <2>1, <3>1 DEF LeaveInv, TurnsHaveBegun
  <2> QED BY <1>2, <2>1
<1>3. TurnsHaveBegun'
  BY <1>2 DEF TurnsHaveBegun
<1> QED BY <1>1, <1>3 DEF LeaveInv

(* What a task's own step leaves of the events that somebody holds.        *)
Holders == queue \cup batch \cup deferred \cup stash \cup inbox \cup Aside \cup {cur[t] : t \in Tasks}
StillHeld(e) == \/ \E f \in Holders' : f.of = e.of /\ f.kind = e.kind
                \/ turns'[e.of] > 0
MessagesStay(S) == \A e \in S : e.kind \in Channel => StillHeld(e)

LEMMA StaysKept ==
  ASSUME \A e \in (queue \cup stash) \ Unpushed : e.kind \in Channel => e \in queue' \cup stash',
         batch \subseteq batch', deferred \subseteq deferred', Aside \subseteq Aside',
         inbox \subseteq inbox',
         \A t \in Tasks : cur[t].kind \in Channel => cur'[t] = cur[t] \/ turns'[cur[t].of] > 0
  PROVE  MessagesStay(Holders \ Unpushed)
<1>1. ASSUME NEW e \in Holders \ Unpushed, e.kind \in Channel, e \notin {cur[t] : t \in Tasks} PROVE StillHeld(e)
  <2>1. e \in Holders'
    BY <1>1 DEF Holders
  <2> QED BY <2>1 DEF StillHeld
<1>2. ASSUME NEW t \in Tasks, cur[t].kind \in Channel PROVE StillHeld(cur[t])
  <2>1. cur'[t] = cur[t] => cur[t] \in Holders'
    BY DEF Holders
  <2> QED BY <1>2, <2>1 DEF StillHeld
<1> QED BY <1>1, <1>2 DEF MessagesStay

(* A dispatch defers no message and holds on to those it does not begin.   *)
LEMMA TakenLeaves ==
  ASSUME DispatchInv, DispatchInv', TurnsInv, LeaveInv, NEW q, NEW rest, NEW held,
         Settled(q, rest, held), held \subseteq deferred, q \cup rest \subseteq Queued,
         loop # "none", loop' = loop
  PROVE  /\ LeaveInv'
         /\ MessagesStay(q \cup rest \cup Aside)
         /\ \A m \in 1..MaxEvents : turns[m] > 0 => turns'[m] > 0
<1>1. /\ \A t \in Tasks : t # "loop" => at'[t] = at[t] /\ cur'[t] = cur[t]
      /\ Taken(rest) /\ Kept(q, rest, held) /\ LoopShape'
  BY DEF Settled
<1>2. /\ UNCHANGED turns \/ Counted(cur'["loop"])
      /\ cur'["loop"].of \in 1..MaxEvents \/ UNCHANGED turns
  <2>1. \A e \in rest : e.of \in 1..MaxEvents
    <3>1. \A e \in rest : e \in Events
      BY InvTracks DEF TurnsInv
    <3> QED BY <3>1, EventFacts
  <2> QED BY <1>1, <2>1 DEF Taken
<1>3. \A m \in 1..MaxEvents : turns[m] > 0 => turns'[m] > 0
  BY <1>2, CountedGrows
<1>4. at'["loop"] \in BegunPlaces => turns'[cur'["loop"].of] > 0
  <2>1. at'["loop"] \in BegunPlaces => at'["loop"] # "idle" /\ at'["loop"] \notin {"announcing", "waiting"}
    BY DEF BegunPlaces
  <2>2. at'["loop"] \in BegunPlaces => Counted(cur'["loop"]) /\ cur'["loop"] \in rest
    BY <1>1, <2>1 DEF Taken, LoopShape
  <2>3. \A e \in rest : e.of \in 1..MaxEvents
    <3>1. \A e \in rest : e \in Events
      BY InvTracks DEF TurnsInv
    <3> QED BY <3>1, EventFacts
  <2> QED BY <2>2, <2>3, CountedGrows
<1>5. TurnsHaveBegun'
  <2>1. ASSUME NEW t \in Tasks, t # "loop", at'[t] \in BegunPlaces PROVE turns'[cur'[t].of] > 0
    <3>1. at[t] \in BegunPlaces /\ cur'[t] = cur[t] /\ turns[cur[t].of] > 0
      BY <1>1, <2>1 DEF LeaveInv, TurnsHaveBegun
    <3>2. cur[t].of \in 1..MaxEvents
      BY <3>1, CurIsAround DEF BegunPlaces
    <3> QED BY <1>3, <3>1, <3>2
  <2> QED BY <1>4, <2>1 DEF TurnsHaveBegun
<1>6. DeferredAreWakes' /\ AsideAreWakes'
  BY <1>1 DEF Kept, LeaveInv, DeferredAreWakes, AsideAreWakes
<1>7. LegacyAreWakes'
  <2>1. \A e \in pending : e.kind \in Wakes
    BY DEF DispatchInv, PendingAreWakes
  <2> QED BY <1>1, <2>1 DEF Taken, LegacyAreWakes, LegacyCur
<1>8. NoLoopNoQueue'
  BY DEF NoLoopNoQueue
<1>9. MessagesStay(q \cup rest \cup Aside)
  <2>1. ASSUME NEW e \in q \cup rest \cup Aside, e.kind \in Channel PROVE StillHeld(e)
    <3>1. PICK f \in LoopEvents' : Same(f, e)
      BY <1>1, <2>1 DEF Kept, LeaveInv, AsideAreWakes
    <3>2. f \in Holders'
      BY DEF LoopEvents, Holders, Engaged, Tasks
    <3> QED BY <3>1, <3>2 DEF Same, StillHeld
  <2> QED BY <2>1 DEF MessagesStay
<1> QED BY <1>3, <1>5, <1>6, <1>7, <1>8, <1>9 DEF LeaveInv

LEMMA BreathLeaves ==
  ASSUME DispatchInv, DispatchInv', TurnsInv, LeaveInv, Breath
  PROVE  LeaveInv' /\ MessagesStay(Holders \ Unpushed)
<1>1. /\ at["loop"] = "idle" /\ loop = "running" /\ UNCHANGED <<loop, inbox>>
  BY DEF Breath
<1>2. batch = {} /\ deferred = {} /\ cur["loop"] = NoEvent
  BY <1>1 DEF DispatchInv, LoopShape, TurnsInv, TurnsShape, IdleIsEmpty, Tasks
<1>3. PICK q \in SUBSET (queue \cup stash) :
        /\ queue \cup stash \subseteq q \cup stash' \cup Unpushed
        /\ \E rest \in SUBSET q, left \in SUBSET q :
             Settled(left, rest, {}) /\ q \subseteq left \cup rest
  BY BreathSettles
<1>4. PICK rest \in SUBSET q, left \in SUBSET q : Settled(left, rest, {}) /\ q \subseteq left \cup rest
  BY <1>3
<1>5. LeaveInv' /\ MessagesStay(left \cup rest \cup Aside)
  <2>1. left \cup rest \subseteq Queued
    BY <1>3, <1>4 DEF Queued
  <2> QED BY <1>1, <1>4, <2>1, TakenLeaves
<1>6. \A t \in Tasks : cur'[t] = cur[t] \/ cur[t].kind \notin Channel
  BY <1>2, <1>4 DEF Settled, NoEvent, Channel
<1>7. ASSUME NEW e \in Holders \ Unpushed, e.kind \in Channel PROVE StillHeld(e)
  <2>1. CASE e \in left \cup rest \cup Aside
    BY <1>5, <1>7, <2>1 DEF MessagesStay
  <2>2. CASE e \in stash' \cup inbox \cup {cur[t] : t \in Tasks}
    <3>1. e \in Holders'
      BY <1>1, <1>6, <1>7, <2>2 DEF Holders
    <3> QED BY <3>1 DEF StillHeld
  <2> QED BY <1>2, <1>3, <1>4, <2>1, <2>2 DEF Holders
<1> QED BY <1>5, <1>7 DEF MessagesStay

(* Behind a turn that closes, its batch and its session's rows may go.     *)
LEMMA TurnLeaves ==
  ASSUME DispatchInv, DispatchInv', TurnsInv, LeaveInv, MicroReplied \/ QueueTurnCloses
  PROVE  /\ LeaveInv'
         /\ MessagesStay(IF at["loop"] = "closing" THEN Holders \ (batch \cup inbox) ELSE Holders)
<1>1. /\ at["loop"] \in {"micro", "closing"} /\ UNCHANGED <<loop, stash>>
      /\ at["loop"] = "closing" \/ inbox' = inbox
  BY TurnSettles DEF MicroReplied, QueueTurnCloses
<1>2. PICK rest \in SUBSET batch :
        Settled(queue, rest, deferred) /\ (at["loop"] = "micro" => rest = batch)
  BY TurnSettles
<1>3. loop # "none"
  BY <1>1 DEF LeaveInv, NoLoopNoQueue
<1>4. /\ LeaveInv' /\ MessagesStay(queue \cup rest \cup Aside)
      /\ \A m \in 1..MaxEvents : turns[m] > 0 => turns'[m] > 0
  <2>1. queue \cup rest \subseteq Queued
    BY <1>2 DEF Queued
  <2> QED BY <1>1, <1>2, <1>3, <2>1, TakenLeaves
<1>5. "loop" \in Tasks /\ turns'[cur["loop"].of] > 0
  <2>1. cur["loop"].of \in 1..MaxEvents /\ "loop" \in Tasks
    BY <1>1, CurIsAround DEF Tasks
  <2> QED BY <1>1, <1>4, <2>1 DEF LeaveInv, TurnsHaveBegun, BegunPlaces
<1>6. ASSUME NEW e \in Holders, e.kind \in Channel, at["loop"] = "closing" => e \notin batch \cup inbox
      PROVE  StillHeld(e)
  <2>1. CASE e \in queue \cup rest \cup Aside
    BY <1>4, <1>6, <2>1 DEF MessagesStay
  <2>2. CASE e = cur["loop"]
    BY <1>5, <2>2 DEF StillHeld
  <2>3. CASE e \in stash \cup inbox' \cup {cur[t] : t \in Tasks \ {"loop"}}
    <3>1. \A t \in Tasks \ {"loop"} : cur'[t] = cur[t]
      BY <1>2 DEF Settled
    <3>2. e \in Holders'
      BY <1>1, <2>3, <3>1 DEF Holders
    <3> QED BY <3>2 DEF StillHeld
  <2>4. e \notin deferred
    BY <1>6 DEF LeaveInv, DeferredAreWakes
  <2> QED BY <1>1, <1>2, <1>6, <2>1, <2>2, <2>3, <2>4 DEF Holders
<1> QED BY <1>4, <1>6 DEF MessagesStay

(* A task that begins its turn or waits for it, or whose turn has ended,   *)
LEMMA StartsLeave ==
  ASSUME DispatchInv, TurnsInv, LeaveInv,
         \/ HandOver \/ WakeEnters \/ DirectEnters \/ HomeEnters \/ LoopTurnEnds \/ HomeTurnEnds
  PROVE  LeaveInv' /\ MessagesStay(Holders \ Unpushed)
<1>1. /\ at \in [Tasks -> TaskPlaces] /\ "loop" \in Tasks /\ "home" \in Tasks /\ "direct" \in Tasks
  BY InvMoreTypes
<1>2. ASSUME NEW t \in Tasks, at[t] # "idle",
             \/ at' = [at EXCEPT ![t] = "running"] /\ Counted(cur[t])
             \/ at' = [at EXCEPT ![t] = "waiting"] /\ UNCHANGED turns
             \/ at[t] = "running" /\ at' = [at EXCEPT ![t] = "closing"] /\ UNCHANGED turns,
             queue \subseteq queue', loop = "none" => queue' = queue,
             UNCHANGED <<loop, batch, deferred, background, stash, inbox, cur, route, replayDue>>
      PROVE  LeaveInv' /\ MessagesStay(Holders \ Unpushed)
  <2>1. PICK place \in {"running", "waiting", "closing"} : at' = [at EXCEPT ![t] = place]
    BY <1>2
  <2>2. at'[t] = place /\ \A u \in Tasks : u # t => at'[u] = at[u]
    BY <1>1, <2>1
  <2>3. cur[t].of \in 1..MaxEvents
    BY <1>2, CurIsAround
  <2>4. /\ \A m \in 1..MaxEvents : turns[m] > 0 => turns'[m] > 0
        /\ at'[t] = "running" => turns'[cur[t].of] > 0 \/ at[t] = "running"
    <3>1. CASE Counted(cur[t])
      BY <2>3, <3>1, CountedGrows
    <3>2. CASE UNCHANGED turns
      BY <1>1, <1>2, <2>1, <2>3, <3>2, CountedGrows
    <3> QED BY <1>2, <3>1, <3>2
  <2>5. at'[t] = "closing" => at[t] = "running"
    BY <1>1, <1>2
  <2>6. \A u \in Tasks : at'[u] \in BegunPlaces =>
          (at[u] \in BegunPlaces /\ cur'[u] = cur[u]) \/ turns'[cur'[u].of] > 0
    BY <1>2, <2>2, <2>4, <2>5 DEF BegunPlaces
  <2>7. NoLoopNoQueue'
    <3>1. loop = "none" => t # "loop"
      BY <1>2 DEF LeaveInv, NoLoopNoQueue
    <3> QED BY <1>1, <1>2, <2>2, <3>1 DEF LeaveInv, NoLoopNoQueue
  <2>8. LegacyCur' = LegacyCur /\ Aside' = Aside
    BY <1>2 DEF LegacyCur, Aside
  <2>9. LeaveInv'
    BY <1>2, <2>4, <2>6, <2>7, <2>8, LeaveKept
  <2>10. MessagesStay(Holders \ Unpushed)
    BY <1>2, <2>8, StaysKept
  <2> QED BY <2>9, <2>10
<1>3. ASSUME NEW t \in Tasks, AcquireDeep(t, cur[t])
      PROVE  \/ at' = [at EXCEPT ![t] = "running"] /\ Counted(cur[t])
             \/ at' = [at EXCEPT ![t] = "waiting"] /\ UNCHANGED turns
  BY <1>3 DEF AcquireDeep, Begin
<1>4. CASE HandOver
  <2>1. PICK t : t = Head(line)
    OBVIOUS
  <2>2. t \in Tasks /\ at[t] = "waiting"
    <3>1. line \in Seq(Tasks) /\ line # <<>>
      BY <1>4, InvMoreTypes DEF HandOver
    <3>2. 1 \in DOMAIN line /\ Head(line) = line[1] /\ line[1] \in Tasks
      BY <3>1
    <3> QED BY <2>1, <3>2, InvTypes DEF LineWaits
  <2> QED BY <1>2, <1>4, <2>1, <2>2 DEF HandOver, Begin, loopVars, holdVars
<1>5. CASE WakeEnters
  BY <1>1, <1>2, <1>3, <1>5 DEF WakeEnters, loopVars, holdVars
<1>6. CASE DirectEnters
  BY <1>1, <1>2, <1>3, <1>6 DEF DirectEnters, loopVars, holdVars
<1>7. CASE HomeEnters
  <2>1. /\ at["home"] = "arrived" /\ AcquireDeep("home", cur["home"])
        /\ queue \subseteq queue' /\ (loop = "none" => queue' = queue)
        /\ UNCHANGED <<loop, batch, deferred, background, stash, inbox, cur, route, replayDue>>
    BY <1>7, PushIs DEF HomeEnters, holdVars
  <2> QED BY <1>1, <1>2, <1>3, <2>1
<1>8. CASE LoopTurnEnds
  BY <1>1, <1>2, <1>8 DEF LoopTurnEnds, loopVars, holdVars, histVars
<1>9. CASE HomeTurnEnds
  BY <1>1, <1>2, <1>9 DEF HomeTurnEnds, loopVars, holdVars, histVars
<1> QED BY <1>4, <1>5, <1>6, <1>7, <1>8, <1>9

(* one that has nothing left to do,                                        *)
LEMMA EndsLeave ==
  ASSUME DispatchInv, TurnsInv, LeaveInv,
         PendingTurnCloses \/ HomeCloses \/ HomeBreaksOff \/ DirectEnds
  PROVE  LeaveInv' /\ MessagesStay(Holders \ Unpushed)
<1>1. /\ at \in [Tasks -> TaskPlaces] /\ cur \in [Tasks -> Events \cup {NoEvent}]
      /\ "loop" \in Tasks /\ "home" \in Tasks /\ "direct" \in Tasks
  BY InvMoreTypes
<1>2. ASSUME NEW t \in Tasks, at[t] # "idle",
             at' = [at EXCEPT ![t] = "idle"], cur' = [cur EXCEPT ![t] = NoEvent],
             cur[t].kind \in Channel => turns[cur[t].of] > 0,
             queue' \subseteq queue, \A e \in queue : e.kind \in Channel => e \in queue',
             loop' = "none" => loop = "none", LegacyCur' \subseteq LegacyCur,
             UNCHANGED <<batch, deferred, background, stash, inbox, turns, replayDue>>
      PROVE  LeaveInv' /\ MessagesStay(Holders \ Unpushed)
  <2>1. /\ at'[t] = "idle" /\ \A u \in Tasks : u # t => at'[u] = at[u] /\ cur'[u] = cur[u]
    BY <1>1, <1>2
  <2>2. NoLoopNoQueue'
    BY <1>1, <1>2, <2>1 DEF LeaveInv, NoLoopNoQueue
  <2>3. Aside' = Aside
    BY <1>2 DEF Aside
  <2>4. LeaveInv'
    BY <1>2, <2>1, <2>2, <2>3, LeaveKept DEF BegunPlaces
  <2>5. MessagesStay(Holders \ Unpushed)
    BY <1>2, <2>1, <2>3, StaysKept
  <2> QED BY <2>4, <2>5
<1>3. CASE PendingTurnCloses
  <2>1. cur["loop"].kind \in Wakes /\ LegacyCur' = {}
    BY <1>3 DEF PendingTurnCloses, LoopAt, LeaveInv, LegacyAreWakes, LegacyCur
  <2>2. cur["loop"].kind \notin Channel
    BY <2>1 DEF Wakes, Channel
  <2> QED BY <1>1, <1>2, <1>3, <2>1, <2>2 DEF PendingTurnCloses, LoopAt, holdVars, histVars
<1>4. CASE HomeCloses \/ HomeBreaksOff
  <2>1. at["home"] # "idle" /\ cur["home"].kind = "ws"
    BY <1>4 DEF HomeCloses, HomeBreaksOff, TurnsInv, TurnsShape, HomeIsWs, HomeCur
  <2>2. "ws" \notin Channel
    BY DEF Channel
  <2>3. LegacyCur' = LegacyCur
    BY <1>1, <1>4 DEF HomeCloses, HomeBreaksOff, HomeLeaves, LegacyCur
  <2>4. /\ at' = [at EXCEPT !["home"] = "idle"] /\ cur' = [cur EXCEPT !["home"] = NoEvent]
        /\ queue' \subseteq queue /\ \A e \in queue : e.kind \in Channel => e \in queue'
    BY <1>4, <2>1, <2>2 DEF HomeCloses, HomeBreaksOff, HomeLeaves
  <2>5. /\ loop' = "none" => loop = "none"
        /\ UNCHANGED <<batch, deferred, background, stash, inbox, turns, replayDue>>
    BY <1>4 DEF HomeCloses, HomeBreaksOff, HomeResumes, Resumed, Left, holdVars, histVars
  <2> QED BY <1>1, <1>2, <2>1, <2>2, <2>3, <2>4, <2>5
<1>5. CASE DirectEnds
  <2>1. turns[cur["direct"].of] > 0
    BY <1>1, <1>5 DEF DirectEnds, LeaveInv, TurnsHaveBegun, BegunPlaces
  <2>2. LegacyCur' = LegacyCur
    BY <1>1, <1>5 DEF DirectEnds, LegacyCur
  <2> QED BY <1>1, <1>2, <1>5, <2>1, <2>2 DEF DirectEnds, Resumed, holdVars, histVars
<1> QED BY <1>3, <1>4, <1>5

(* A message that arrives is younger than any that is stashed. *)
LEMMA MessageIsYoungest ==
  ASSUME DispatchInv, NEW kind \in Channel, ChannelMessage(kind),
         NEW e, e = Event(kind, born + 1, born + 1)
  PROVE  /\ e.born \in Nat /\ e.of = born + 1 /\ e.kind = kind
         /\ \A f \in stash : f.born \in Nat /\ f.born < e.born
<1>1. born < MaxEvents /\ kind \in Kinds
  BY DEF ChannelMessage, Kinds
<1>2. /\ e.born = born + 1 /\ e.of = born + 1 /\ e.kind = kind /\ born \in Nat
  BY <1>1, NewEvent, InvTypes
<1>3. \A f \in stash : f.born <= born /\ f.born \in Nat
  BY InvMoreTypes, InvTypes, EventFacts DEF Placed
<1> QED BY <1>2, <1>3

(* one that was idle, and whoever creates events or starts the loop.       *)
LEMMA CreatorsLeave ==
  ASSUME DispatchInv, TurnsInv, LeaveInv,
         \/ \E kind \in Wakes : EnqueueWake(kind)
         \/ \E kind \in Channel : ChannelMessage(kind)
         \/ HomeArrives \/ ReplayInbox \/ LoopStarts \/ UNCHANGED vars
  PROVE  LeaveInv' /\ MessagesStay(Holders \ Unpushed)
<1>1. /\ at \in [Tasks -> TaskPlaces] /\ cur \in [Tasks -> Events \cup {NoEvent}]
      /\ "loop" \in Tasks /\ "home" \in Tasks /\ "direct" \in Tasks
      /\ \A t \in Tasks : at[t] = "idle" => cur[t] = NoEvent
  BY InvMoreTypes DEF TurnsInv, TurnsShape, IdleIsEmpty
<1>2. ASSUME \A t \in Tasks : \/ at'[t] = at[t] /\ cur'[t] = cur[t]
                              \/ t # "loop" /\ at[t] = "idle" /\ at'[t] = "arrived",
             \A e \in (queue \cup stash) \ Unpushed : e.kind \in Channel => e \in queue' \cup stash',
             inbox \subseteq inbox', loop' = "none" => queue' = {} /\ ~replayDue' /\ loop = "none",
             UNCHANGED <<batch, deferred, background, turns, route>>
      PROVE  LeaveInv' /\ MessagesStay(Holders \ Unpushed)
  <2>1. LegacyCur' = LegacyCur /\ Aside' = Aside
    BY <1>1, <1>2 DEF LegacyCur, Aside
  <2>2. NoLoopNoQueue'
    BY <1>1, <1>2 DEF LeaveInv, NoLoopNoQueue
  <2>3. LeaveInv'
    BY <1>2, <2>1, <2>2, LeaveKept DEF BegunPlaces
  <2>4. \A t \in Tasks : cur[t].kind \in Channel => cur'[t] = cur[t]
    BY <1>1, <1>2 DEF NoEvent, Channel
  <2>5. MessagesStay(Holders \ Unpushed)
    BY <1>2, <2>1, <2>4, StaysKept
  <2> QED BY <2>3, <2>5
<1>3. ASSUME NEW t \in {"home", "direct"}, at[t] = "idle", NEW e,
             at' = [at EXCEPT ![t] = "arrived"], cur' = [cur EXCEPT ![t] = e]
      PROVE  \A u \in Tasks : \/ at'[u] = at[u] /\ cur'[u] = cur[u]
                              \/ u # "loop" /\ at[u] = "idle" /\ at'[u] = "arrived"
  BY <1>1, <1>3
<1>4. ASSUME NEW kind \in Wakes, EnqueueWake(kind) PROVE LeaveInv' /\ MessagesStay(Holders \ Unpushed)
  <2>1. /\ loop # "none" /\ queue \subseteq queue'
        /\ UNCHANGED <<loop, batch, deferred, background, stash, inbox, turns, route, at, cur>>
    BY <1>4, PushIs DEF EnqueueWake, holdVars, turnVars
  <2> QED BY <1>2, <2>1
<1>5. ASSUME NEW kind \in Channel, ChannelMessage(kind) PROVE LeaveInv' /\ MessagesStay(Holders \ Unpushed)
  <2>1. PICK e : e = Event(kind, born + 1, born + 1)
    OBVIOUS
  <2>2. /\ inbox \subseteq inbox'
        /\ UNCHANGED <<loop, batch, deferred, background, replayDue, turns, route>>
        /\ \/ loop # "none" /\ queue' = Push(queue, stash \cup {e}) /\ UNCHANGED <<at, cur>>
           \/ stash \subseteq stash' /\ UNCHANGED <<queue, at, cur>>
           \/ /\ UNCHANGED <<queue, stash>> /\ at["direct"] = "idle"
              /\ at' = [at EXCEPT !["direct"] = "arrived"] /\ cur' = [cur EXCEPT !["direct"] = e]
    BY <1>5, <2>1 DEF ChannelMessage
  <2>3. \A t \in Tasks : \/ at'[t] = at[t] /\ cur'[t] = cur[t]
                         \/ t # "loop" /\ at[t] = "idle" /\ at'[t] = "arrived"
    BY <1>3, <2>2
  <2>4. loop' = "none" => queue' = {} /\ ~replayDue' /\ loop = "none"
    BY <2>2 DEF LeaveInv, NoLoopNoQueue
  <2>5. \A f \in (queue \cup stash) \ Unpushed : f \in queue' \cup stash'
    <3>1. Push(queue, stash) \subseteq Push(queue, stash \cup {e})
      BY <1>5, <2>1, MessageIsYoungest, PushOlder
    <3>2. \A f \in (queue \cup stash) \ Unpushed : f \in Push(queue, stash)
      BY PushIs DEF Unpushed
    <3>3. CASE queue' = Push(queue, stash \cup {e})
      BY ONLY <3>1, <3>2, <3>3
    <3>4. CASE queue' = queue /\ stash \subseteq stash'
      BY ONLY <3>4
    <3> QED BY ONLY <2>2, <3>3, <3>4
  <2> QED BY <1>2, <2>2, <2>3, <2>4, <2>5
<1>6. CASE HomeArrives
  <2>1. PICK e : e = Event("ws", born + 1, born + 1)
    OBVIOUS
  <2>2. /\ at["home"] = "idle" /\ at' = [at EXCEPT !["home"] = "arrived"]
        /\ cur' = [cur EXCEPT !["home"] = e] /\ (loop' = "none" => loop = "none")
        /\ UNCHANGED <<queue, batch, deferred, background, stash, inbox, replayDue, turns, route>>
    BY <1>6, <2>1 DEF HomeArrives, holdVars
  <2>3. \A t \in Tasks : \/ at'[t] = at[t] /\ cur'[t] = cur[t]
                         \/ t # "loop" /\ at[t] = "idle" /\ at'[t] = "arrived"
    BY <1>3, <2>2
  <2>4. loop' = "none" => queue' = {} /\ ~replayDue' /\ loop = "none"
    BY <2>2 DEF LeaveInv, NoLoopNoQueue
  <2> QED BY <1>2, <2>2, <2>3, <2>4
<1>7. CASE ReplayInbox
  <2>1. /\ replayDue /\ queue \subseteq queue'
        /\ UNCHANGED <<loop, batch, deferred, background, stash, inbox, turns, route, at, cur>>
    BY <1>7, PushIs DEF ReplayInbox, turnVars
  <2>2. loop # "none"
    BY <2>1 DEF LeaveInv, NoLoopNoQueue
  <2> QED BY <1>2, <2>1, <2>2
<1>8. CASE LoopStarts
  <2>1. /\ loop' = "running" /\ queue' = Push(queue, stash) /\ queue = {}
        /\ UNCHANGED <<batch, deferred, background, inbox, turns, route, at, cur>>
    BY <1>8 DEF LoopStarts, turnVars, histVars, LeaveInv, NoLoopNoQueue
  <2> QED BY <1>2, <2>1 DEF Unpushed
<1>9. CASE UNCHANGED vars
  <2>1. UNCHANGED <<loop, queue, batch, deferred, background, stash, inbox, replayDue, turns, route, at, cur>>
    BY <1>9 DEF vars, loopVars, holdVars, turnVars, histVars
  <2> QED BY <1>2, <2>1 DEF LeaveInv, NoLoopNoQueue
<1> QED BY <1>4, <1>5, <1>6, <1>7, <1>8, <1>9

LEMMA StopsLeave ==
  ASSUME DispatchInv, TurnsInv, LeaveInv, LoopStops \/ Restart
  PROVE  LeaveInv' /\ loop' = "none"
<1>1. /\ at \in [Tasks -> TaskPlaces] /\ cur \in [Tasks -> Events \cup {NoEvent}]
      /\ "loop" \in Tasks /\ "home" \in Tasks /\ "direct" \in Tasks
  BY InvMoreTypes
<1>2. /\ loop' = "none" /\ queue' = {} /\ deferred' = {} /\ route' = "none" /\ replayDue' = FALSE
      /\ UNCHANGED turns
  BY DEF LoopStops, Restart, LoopForgets, histVars
<1>3. /\ at'["loop"] = "idle"
      /\ \A t \in Tasks : at'[t] = "idle" \/ (at'[t] = at[t] /\ cur'[t] = cur[t])
  BY <1>1 DEF LoopStops, Restart
<1>4. NoLoopNoQueue' /\ LegacyCur' = {} /\ Aside' \subseteq Aside
  BY <1>2, <1>3, EmptyPlaces DEF NoLoopNoQueue, LegacyCur, Aside, LoopStops, Restart
<1>5. LeaveInv'
  BY <1>2, <1>3, <1>4, LeaveKept DEF BegunPlaces
<1> QED BY <1>2, <1>5

-----------------------------------------------------------------------------
(* The theorems                                                            *)

LEMMA DispatchInit == Init => DispatchInv
<1> SUFFICES ASSUME Init PROVE DispatchInv
  OBVIOUS
<1>1. Engaged = {} /\ Aside = {} /\ LoopEvents = {} /\ Placed = {}
  BY EmptyPlaces DEF Init, Engaged, Aside, LoopEvents, Placed
<1>2. PlacesInv
  BY <1>1, EmptyPlaces DEF Init, PlacesInv, HomeIsApart, Tasks
<1>3. NotYetBorn /\ Distinct(inbox)
  BY <1>1, EmptyPlaces DEF Init, NotYetBorn
<1>4. LoopShape /\ PendingAreWakes /\ BackgroundIsOnce /\ LineWaits
  BY EmptyPlaces DEF Init, LoopShape, PendingAreWakes, BackgroundIsOnce, LineWaits, Tasks
<1>5. TypeOK
  <2>1. /\ at \in [Tasks -> {"idle", "arrived", "micro", "announcing", "waiting", "running", "closing"}]
        /\ cur \in [Tasks -> Events \cup {NoEvent}]
    BY DEF Init
  <2>2. turns \in [1..MaxEvents -> Nat] /\ born \in 0..MaxEvents
    BY DispatchTypes DEF Init
  <2>3. background \in Seq(Events) /\ line \in Seq(Tasks)
    BY DEF Init
  <2> QED BY <2>1, <2>2, <2>3 DEF Init, TypeOK, LoopStates
<1> QED BY <1>2, <1>3, <1>4, <1>5 DEF DispatchInv

LEMMA DispatchNext ==
  ASSUME DispatchInv, [Next]_vars
  PROVE  DispatchInv'
<1>1. CASE UNCHANGED vars
  BY <1>1, InvTypes, InvMoreTypes, QuietKeeps DEF vars, loopVars, holdVars, turnVars, histVars, LineWaits
<1>2. CASE Next
  BY <1>2, BreathKeeps, TurnSettlesKeeps, PendingTurnClosesKeeps,
     LoopTurnKeeps, HandOverKeeps, DirectKeeps, HomeEntersKeeps, HomeClosesKeeps, HomeBreaksOffKeeps,
     HomeArrivesKeeps, EnqueueWakeKeeps, ChannelMessageKeeps, LoopStartsKeeps,
     ReplayInboxKeeps, LoopStopsKeeps, RestartKeeps
     DEF Next, Loop, Home, Direct
<1> QED BY <1>1, <1>2

(* The invariant holds at first, every step keeps it. *)
LEMMA DispatchInvariant == Spec => []DispatchInv
BY DispatchInit, DispatchNext, PTL DEF Spec, SafeSpec

(* Every variable of the loop, the slots and the queues keeps its type.    *)
THEOREM DispatchTypesAlways == Spec => []TypeOK
<1>1. DispatchInv => TypeOK
  BY DEF DispatchInv
<1> QED BY <1>1, DispatchInvariant, PTL

(* However drains, turns, replays, stops and restarts interleave, an event *)
(* is in one of its containers at most, once, and in none when it counts   *)
(* as processed (_dispatch_from_event_queue, _dispatch_channel_event).     *)
THEOREM EventsAlwaysAreInOnePlace == Spec => []EventsAreInOnePlace
<1>1. ASSUME DispatchInv PROVE EventsAreInOnePlace
  <2>1. /\ Five(queue, batch, Engaged, deferred, Aside) /\ Apart(stash, LoopEvents)
        /\ \A e \in Placed : e.born \notin processed
    BY <1>1 DEF DispatchInv, PlacesInv
  <2>2. /\ DOMAIN Places = 1..6 /\ Places[1] = queue /\ Places[2] = batch /\ Places[3] = Engaged
        /\ Places[4] = deferred /\ Places[5] = Aside /\ Places[6] = stash
    BY DEF Places, Aside
  <2>3. \A i, j \in 1..6 : i # j => Apart(Places[i], Places[j])
    <3>1. /\ Apart(stash, queue) /\ Apart(stash, batch) /\ Apart(stash, Engaged)
          /\ Apart(stash, deferred) /\ Apart(stash, Aside)
      BY <2>1 DEF Apart, LoopEvents
    <3>2. \A S, T : Apart(S, T) <=> Apart(T, S)
      BY DEF Apart
    <3>3. \A i \in 1..6 : i \in {1, 2, 3, 4, 5, 6}
      OBVIOUS
    <3> QED BY <2>1, <2>2, <3>1, <3>2, <3>3 DEF Five
  <2>4. \A i \in 1..6 : Places[i] \subseteq Placed
    BY <2>2 DEF Placed, LoopEvents
  <2>5. \A i, j \in 1..6 : i # j => Births(Places[i]) \cap Births(Places[j]) = {}
    BY <2>3 DEF Apart, Births
  <2>6. \A i \in 1..6 : Births(Places[i]) \cap processed = {}
    BY <2>1, <2>4 DEF Births
  <2> QED BY <2>2, <2>5, <2>6 DEF EventsAreInOnePlace
<1> QED BY <1>1, DispatchInvariant, PTL

LEMMA TurnsInit == Init => TurnsInv
<1> SUFFICES ASSUME Init PROVE TurnsInv
  OBVIOUS
<1>1. /\ Queued = {} /\ pending = {} /\ Engaged = {} /\ LegacyCur = {} /\ HomeCur = {}
      /\ DirectCur = {} /\ Around = {}
  BY EmptyPlaces DEF Init, Queued, Aside, Engaged, LegacyCur, HomeCur, DirectCur, Around, Tasks
<1>2. BesideIsApart /\ HomeIsWs
  BY <1>1 DEF BesideIsApart, HomeIsWs, Distinct, Apart
<1>3. IdleIsEmpty /\ UnbornHasNoTurn
  BY DEF Init, IdleIsEmpty, UnbornHasNoTurn
<1>4. ASSUME NEW m \in Unrecorded PROVE Bounded(m)
  <2>1. ~ReadyQueued(m) /\ ~ReadyBeside(m)
    BY <1>1 DEF ReadyQueued, ReadyBeside, InQueues
  <2>2. turns[m] = 0
    BY DEF Init, Unrecorded
  <2> QED BY <1>1, <2>1, <2>2 DEF Bounded, Weight
<1> QED BY <1>1, <1>2, <1>3, <1>4 DEF Init, TurnsInv, TurnsShape

LEMMA TurnsNext ==
  ASSUME DispatchInv, TurnsInv, [Next]_vars
  PROVE  TurnsInv'
<1>1. DispatchInv'
  BY DispatchNext
<1> QED
  BY <1>1, LoopTakesKeeps, TurnStartsKeep, TurnEndsKeep, EnqueueWakeTurns, MessagesTurns,
     ReplayInboxTurns
     DEF Next, Loop, Home, Direct

LEMMA TurnsInvariant == Spec => []TurnsInv
<1>1. DispatchInv /\ TurnsInv /\ [Next]_vars => TurnsInv'
  BY TurnsNext
<1> QED BY <1>1, TurnsInit, DispatchInvariant, PTL DEF Spec, SafeSpec

(* However queues, replays and restarts interleave, a message has one turn *)
(* at most, unless a row of the surface inbox lets a later loop replay it; *)
(* a wake has at most the two of its copies in the event queue and in      *)
(* _pending_dispatches.                                                    *)
THEOREM TurnsAreBoundedPerOrigin == Spec => []TurnsPerOrigin
<1>1. ASSUME DispatchInv, TurnsInv PROVE TurnsPerOrigin
  <2> SUFFICES ASSUME NEW m \in Unrecorded, turns[m] > 1
               PROVE  turns[m] = 2 /\ \A t \in Tasks : cur[t].of = m => cur[t].kind \in Wakes
    BY DEF TurnsPerOrigin, Unrecorded
  <2>1. turns[m] \in Nat /\ m \in 1..MaxEvents
    BY <1>1 DEF DispatchInv, TypeOK, Unrecorded
  <2>2. Bounded(m)
    BY <1>1 DEF TurnsInv
  <2>3. Weight(m) >= turns[m] /\ Weight(m) \in Nat
    BY <2>1 DEF Weight
  <2>4. turns[m] = 2 /\ ~(Weight(m) <= 1)
    BY <2>1, <2>2, <2>3 DEF Bounded
  <2>5. ASSUME NEW t \in Tasks, cur[t].of = m PROVE cur[t] \in Around
    <3>1. at[t] # "idle"
      <4>1. NoEvent.of # m
        BY <2>1 DEF NoEvent
      <4> QED BY <1>1, <2>5, <4>1 DEF TurnsInv, TurnsShape, IdleIsEmpty
    <3> QED BY <1>1, <3>1, InvTracks DEF TurnsInv, Around, HomeCur, DirectCur, Tasks
  <2> QED BY <2>2, <2>4, <2>5 DEF Bounded
<1> QED BY <1>1, DispatchInvariant, TurnsInvariant, PTL

LEMMA LeaveInit == Init => LeaveInv
BY EmptyPlaces
   DEF Init, LeaveInv, NoLoopNoQueue, DeferredAreWakes, TurnsHaveBegun, BegunPlaces,
       LegacyAreWakes, LegacyCur, AsideAreWakes, Aside, Tasks

(* What may go while the loop lives. *)
Leavers == Unpushed \cup IF at["loop"] = "closing" THEN batch \cup inbox ELSE {}

LEMMA LeaveNext ==
  ASSUME DispatchInv, TurnsInv, LeaveInv, [Next]_vars
  PROVE  LeaveInv' /\ (loop' = "none" \/ MessagesStay(Holders \ Leavers))
<1>1. DispatchInv'
  BY DispatchNext
<1>2. /\ MessagesStay(Holders \ Unpushed) => MessagesStay(Holders \ Leavers)
      /\ MessagesStay(IF at["loop"] = "closing" THEN Holders \ (batch \cup inbox) ELSE Holders) =>
           MessagesStay(Holders \ Leavers)
  BY DEF MessagesStay, Leavers
<1> QED
  BY <1>1, <1>2, BreathLeaves, TurnLeaves, StartsLeave, EndsLeave, CreatorsLeave, StopsLeave
     DEF Next, Loop, Home, Direct

(* A message is held when it has arrived, unless the queue was full. *)
LEMMA ArrivalIsHeld ==
  ASSUME DispatchInv, NEW m, Arrives(m), ~Dropped(m)
  PROVE  Held(m)'
<1>1. PICK kind \in Channel : ChannelMessage(kind)
  BY DEF Arrives
<1>2. PICK e : e = Event(kind, born + 1, born + 1)
  OBVIOUS
<1>3. /\ e.born \in Nat /\ e.of = m /\ e.kind \in Channel
      /\ \A f \in stash : f.born \in Nat /\ f.born < e.born
  BY <1>1, <1>2, MessageIsYoungest DEF Arrives
<1>4. \/ queue' = Push(queue, stash \cup {e})
      \/ e \in stash'
      \/ cur'["direct"] = e
  BY <1>1, <1>2, InvMoreTypes DEF ChannelMessage
<1>5. Cardinality(queue) + Cardinality(stash) < QueueLimit
  <2>1. Cardinality(queue) \in Nat /\ Cardinality(stash) \in Nat /\ QueueLimit \in Nat
    BY InvTypes, InvMoreTypes, DistinctIsFinite, DispatchTypes
  <2>2. ~(Cardinality(queue) + Cardinality(stash) >= QueueLimit)
    BY DEF Dropped
  <2> QED BY <2>1, <2>2
<1>6. e \in Push(queue, stash \cup {e})
  BY <1>3, <1>5, PushYoungest
<1>7. e \in queue' \cup stash' \/ cur'["direct"] = e
  BY <1>4, <1>6
<1> QED BY <1>3, <1>7 DEF Held, Tasks

(* No drain, deferral, stash, replay or resume loses a message that had no *)
(* turn: it goes only when the loop is stopped, behind a turn that closes, *)
(* with its batch or with the rows that the reply marks handled, or when   *)
(* AgentEventQueue.push finds the queue full as the message arrives or is  *)
(* flushed from the stash.                                                 *)
THEOREM MessagesAlwaysLeaveBehindATurn == Spec => MessagesLeaveOnlyBehindATurn
<1>1. ASSUME DispatchInv, TurnsInv, LeaveInv, [Next]_vars
      PROVE  [\A m \in 1..MaxEvents : Lost(m) =>
                \/ loop' = "none"
                \/ at["loop"] = "closing" /\ \E e \in batch \cup inbox : e.of = m
                \/ Dropped(m)]_vars
  <2> SUFFICES ASSUME NEW m \in 1..MaxEvents, Lost(m), loop' # "none",
                      ~(at["loop"] = "closing" /\ \E e \in batch \cup inbox : e.of = m),
                      ~Dropped(m)
               PROVE  FALSE
    OBVIOUS
  <2>1. CASE Arrives(m)
    BY <1>1, <2>1, ArrivalIsHeld DEF Lost
  <2>2. CASE Held(m)
    <3>1. PICK e \in Holders : e.of = m /\ e.kind \in Channel
      BY <2>2 DEF Held, Holders, Aside
    <3>2. e \notin Leavers
      BY <3>1 DEF Leavers, Unpushed, Dropped
    <3>3. StillHeld(e)
      BY <1>1, <3>1, <3>2, LeaveNext DEF MessagesStay
    <3>4. turns' \in [1..MaxEvents -> Nat] /\ turns'[m] = 0
      BY <1>1, DispatchNext DEF DispatchInv, TypeOK, Lost
    <3>5. PICK f \in Holders' : f.of = m /\ f.kind \in Channel
      BY <3>1, <3>3, <3>4 DEF StillHeld
    <3>6. Held(m)'
      BY <3>5 DEF Held, Holders, Aside
    <3> QED BY <3>6 DEF Lost
  <2> QED BY <2>1, <2>2 DEF Lost
<1>2. DispatchInv /\ TurnsInv /\ LeaveInv /\ [Next]_vars => LeaveInv'
  BY LeaveNext
<1> QED
  BY <1>1, <1>2, LeaveInit, DispatchInvariant, TurnsInvariant, PTL
     DEF Spec, SafeSpec, MessagesLeaveOnlyBehindATurn

=============================================================================
