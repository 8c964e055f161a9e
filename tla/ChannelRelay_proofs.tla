------------------------- MODULE ChannelRelay_proofs -------------------------
(***************************************************************************)
(* What the channel relay does with sockets and messages, for any number   *)
(* of messages, clients, connections and faults and any limits of the      *)
(* drain and the poll.  The invariant comes in layers: rows and who reads  *)
(* them, how each message arrives, and the one source a message has.       *)
(***************************************************************************)
EXTENDS ChannelRelay, SequenceTheorems, Ranks_proofs, TLAPS

-----------------------------------------------------------------------------
(* The newest connection                                                   *)

(* Registration comes with the connection that it is about, and every      *)
(* other step leaves both alone or removes the entry.                      *)
LEMMA NewestInit == Init => NewestIsRegistered
  BY DEF Init, NewestIsRegistered

LEMMA NewestConnect ==
  ASSUME Connect, NewestIsRegistered
  PROVE  NewestIsRegistered'
  BY DEF Connect, RegisteredAfter, NewestIsRegistered

LEMMA NewestKept ==
  ASSUME UNCHANGED <<opened, registered>>, NewestIsRegistered
  PROVE  NewestIsRegistered'
  BY DEF NewestIsRegistered

LEMMA NewestRemoved ==
  ASSUME registered' = NoConn
  PROVE  NewestIsRegistered'
  BY DEF NewestIsRegistered

LEMMA NewestNext ==
  ASSUME NewestIsRegistered, [Next]_vars
  PROVE  NewestIsRegistered'
<1>1. CASE \E m \in Messages : Webhook(m) \/ Insert(m) \/ RouteFails(m) \/ InsertFails(m)
  BY <1>1, NewestKept DEF Webhook, Insert, RouteFails, InsertFails, socketVars
<1>2. CASE \E s \in Conns : Drop(s)
  BY <1>2, NewestKept DEF Drop
<1>3. CASE \E s \in Conns : Closed(s)
  BY <1>3, NewestRemoved DEF Closed
<1>4. CASE \E s \in Conns : DrainRead(s) \/ DrainSend(s) \/ DrainMark(s)
  BY <1>4, NewestKept DEF DrainRead, DrainSend, DrainMark, socketVars
<1>5. CASE Connect
  BY <1>5, NewestConnect
<1>6. CASE \E s \in Conns : Leave(s)
  BY <1>6, NewestKept DEF Leave
<1>7. CASE \E s \in Conns : Take(s)
  BY <1>7, NewestKept DEF Take, socketVars
<1>8. CASE PollRead \/ \E S \in SUBSET Messages : PollEnds(S)
  BY <1>8, NewestKept DEF PollRead, PollEnds, socketVars
<1>9. CASE Restart
  BY <1>9, NewestRemoved DEF Restart
<1>10. CASE UNCHANGED vars
  BY <1>10, NewestKept DEF vars, socketVars
<1> QED
  <2>1. Poll \/ PollFails => \E S \in SUBSET Messages : PollEnds(S)
    BY RelayAssumption DEF Poll, PollFails
  <2> QED
    BY <2>1, <1>1, <1>2, <1>3, <1>4, <1>5, <1>6, <1>7, <1>8, <1>9, <1>10
    DEF Next, Deliver, DeliverAgain, GiveUp

(* A push, a chat request or a proxied call never goes to a connection     *)
(* that a later one replaced (registerRelaySocket, removeRelaySocket).     *)
THEOREM NewestIsRegisteredAlways == Spec => []NewestIsRegistered
  BY NewestInit, NewestNext, PTL DEF Spec

-----------------------------------------------------------------------------
(* The inductive invariant                                                 *)

Picked(s) == ToSet(picked[s])

(* A copy is on its way, was handled, or was lost. *)
Accounted(m) == Arrives(m) \/ m \in lost

(* A row is written when its webhook is over, *)
RowsComeLast == \A m \in Messages : status[m] # "none" => hook[m] = "over"

(* and a drain or the poll reads nothing but rows. *)
OnlyRowsAreRead ==
  /\ \A s \in Conns : \A m \in Picked(s) : status[m] # "none"
  /\ \A m \in ToSet(polled) : status[m] # "none"

RowsInv == TypeOK /\ RowsComeLast /\ OnlyRowsAreRead

(* What was sent arrives or is lost, before its row is marked. *)
SentArrives ==
  /\ \A m \in Messages : hook[m] = "pushed" => Accounted(m)
  /\ \A s \in Conns : drain[s] = "sent" => \A m \in Picked(s) : Accounted(m)

UnopenedDrainNothing == \A s \in Conns : s > opened => drain[s] = "none"

OnceOnWire(m) ==
  \A s, u \in Conns : \A i \in DOMAIN wire[s], j \in DOMAIN wire[u] :
    wire[s][i] = m /\ wire[u][j] = m => s = u /\ i = j

NoCopy(m) == handled[m] = 0 /\ ~OnWire(m)
OneCopy(m) ==
  /\ handled[m] <= 1 /\ OnceOnWire(m)
  /\ handled[m] = 1 => ~OnWire(m)

Reads(s, m) == drain[s] \in {"read", "sent"} /\ m \in Picked(s)
Sent(m) == \E s \in Conns : drain[s] = "sent" /\ m \in Picked(s)

(* A message that was not repeated has one source: its webhook, its row,   *)
(* or the one drain or poll that has read the row.                         *)
OneSource(m) ==
  /\ OneCopy(m)
  /\ hook[m] \in {"due", "unpushed"} => NoCopy(m)
  /\ status[m] = "pending" /\ ~Sent(m) => NoCopy(m)
  /\ \A s \in Conns : Reads(s, m) =>
       /\ status[m] = "pending" /\ ~Polled(m)
       /\ \A u \in Conns : Reads(u, m) => u = s
  /\ Polled(m) => status[m] = "pending"

PicksAreOnce == \A s \in Conns : IsInjective(picked[s])

SourcesInv ==
  /\ UnopenedDrainNothing /\ PicksAreOnce
  /\ \A m \in Messages : m \in repeated \/ OneSource(m)

ArrivalsInv == NothingVanishes /\ SentArrives
RelayInv == RowsInv /\ ArrivalsInv /\ SourcesInv

-----------------------------------------------------------------------------
(* The pending rows, in order                                              *)

LEMMA RelayTypes ==
  /\ Emails \subseteq Messages /\ MaxConnects \in Nat /\ MaxFaults \in Nat
  /\ TakeRelay \in Nat \ {0} /\ TakePoll \in Nat \ {0} /\ Attempts \in Nat \ {0}
BY RelayAssumption

LEMMA MembersOf ==
  ASSUME NEW S, NEW q \in Seq(S)
  PROVE  /\ DOMAIN q = 1..Len(q) /\ Len(q) \in Nat
         /\ ToSet(q) \in SUBSET S /\ \A i \in DOMAIN q : q[i] \in ToSet(q)
         /\ \A m \in ToSet(q) : \E i \in DOMAIN q : q[i] = m
BY DEF ToSet

(* What a drain or a poll reads are pending rows, each once. *)
LEMMA OldestPendingIs ==
  ASSUME TypeOK, NEW n \in Nat
  PROVE  /\ OldestPending(n) \in Seq(Messages) /\ IsInjective(OldestPending(n))
         /\ \A m \in ToSet(OldestPending(n)) : Pending(m)
<1> DEFINE S == PendingRows
           R == {p \in S \X S : p[1] < p[2]}
           N == IF n < Cardinality(S) THEN n ELSE Cardinality(S)
           at(k) == CHOOSE i \in S : Cardinality({j \in S : j < i}) = k - 1
<1>1. rows \in Seq(Messages) /\ IsInjective(rows)
  BY DEF TypeOK
<1>2. S \in SUBSET (1..Len(rows)) /\ S \in SUBSET Nat /\ Len(rows) \in Nat
  BY <1>1 DEF PendingRows
<1>3. IsFiniteSet(S) /\ Cardinality(S) \in Nat
  <2>1. IsFiniteSet(1..Len(rows))
    BY <1>2, FS_Interval
  <2>2. IsFiniteSet(S)
    BY <1>2, <2>1, FS_Subset
  <2> QED BY <2>2, FS_CardinalityType
<1>4. \A i, j \in S : <<j, i>> \in R <=> j < i
  OBVIOUS
<1>5. Orders(R, S)
  BY <1>2, <1>4 DEF Orders
<1>6. ASSUME NEW i \in S PROVE Rank(i, R, S) = Cardinality({j \in S : j < i})
  <2>1. {j \in S : <<j, i>> \in R} = {j \in S : j < i}
    BY <1>4
  <2> QED BY <2>1 DEF Rank
<1> HIDE DEF S, R
<1>7. /\ \A k \in 1..Cardinality(S) : \E i \in S : Cardinality({j \in S : j < i}) = k - 1
      /\ \A i, j \in S : Rank(i, R, S) = Rank(j, R, S) => i = j
  BY <1>3, <1>5, <1>6, RanksFill
<1>8. N \in Nat /\ N <= Cardinality(S)
  BY <1>3
<1>9. ASSUME NEW k \in 1..N
      PROVE  at(k) \in S /\ Cardinality({j \in S : j < at(k)}) = k - 1
  <2>1. k \in 1..Cardinality(S)
    BY <1>3, <1>8
  <2>2. \E i \in S : Cardinality({j \in S : j < i}) = k - 1
    BY <1>7, <2>1
  <2> QED BY <2>2
<1>10. OldestPending(n) = [k \in 1..N |-> rows[at(k)]]
  BY DEF OldestPending, UpTo, S
<1> HIDE DEF at, N
<1>11. \A k \in 1..N : rows[at(k)] \in Messages /\ Pending(rows[at(k)])
  <2>1. \A i \in S : i \in DOMAIN rows /\ Pending(rows[i])
    BY DEF S, PendingRows
  <2>2. \A i \in S : rows[i] \in Messages
    BY <1>1, <2>1
  <2>3. \A k \in 1..N : at(k) \in S
    BY <1>9
  <2> QED BY <2>1, <2>2, <2>3
<1>12. OldestPending(n) \in Seq(Messages)
  BY <1>8, <1>10, <1>11
<1>13. ASSUME NEW k \in 1..N, NEW l \in 1..N, rows[at(k)] = rows[at(l)] PROVE k = l
  <2>0. at(k) \in S /\ at(l) \in S
    BY <1>9
  <2>1. at(k) \in DOMAIN rows /\ at(l) \in DOMAIN rows
    BY <2>0 DEF S, PendingRows
  <2>3. \A i, j \in DOMAIN rows : rows[i] = rows[j] => i = j
    BY <1>1 DEF IsInjective
  <2>4. at(k) = at(l)
    BY <1>13, <2>1, <2>3
  <2>2. k - 1 = l - 1
    BY <1>9, <2>4
  <2> QED BY <1>8, <2>2
<1>14. IsInjective(OldestPending(n))
  BY <1>10, <1>13 DEF IsInjective
<1>15. \A m \in ToSet(OldestPending(n)) : Pending(m)
  BY <1>10, <1>11 DEF ToSet
<1> QED BY <1>12, <1>14, <1>15

-----------------------------------------------------------------------------
(* What a step does to the wire                                            *)

LEMMA WireTypes ==
  ASSUME TypeOK, NEW s \in Conns
  PROVE  /\ wire \in [Conns -> Seq(Messages)] /\ wire[s] \in Seq(Messages)
         /\ picked \in [Conns -> Seq(Messages)] /\ picked[s] \in Seq(Messages)
         /\ Picked(s) \in SUBSET Messages
BY MembersOf DEF TypeOK, Picked

(* A sequence of messages is sent, or lost. *)
LEMMA SendIs ==
  ASSUME TypeOK, NEW s \in Conns, NEW ms \in Seq(Messages), Send(s, ms)
  PROVE  /\ wire' \in [Conns -> Seq(Messages)]
         /\ lost' \in SUBSET Messages /\ lost \subseteq lost'
         /\ \A m : OnWire(m) => OnWire(m)'
         /\ \A m : OnWire(m)' => OnWire(m) \/ m \in ToSet(ms)
         /\ \A m \in ToSet(ms) : OnWire(m)' \/ m \in lost'
         /\ \A m : m \notin ToSet(ms) /\ OnceOnWire(m) => OnceOnWire(m)'
         /\ IsInjective(ms) => \A m : ~OnWire(m) => OnceOnWire(m)'
<1>1. wire \in [Conns -> Seq(Messages)] /\ lost \in SUBSET Messages
  BY DEF TypeOK
<1>2. ToSet(ms) \in SUBSET Messages
  BY MembersOf
<1>3. CASE wire' = wire /\ lost' = lost \cup ToSet(ms)
  <2>1. \A m : (OnWire(m)' <=> OnWire(m)) /\ (OnceOnWire(m)' <=> OnceOnWire(m))
    BY <1>3 DEF OnWire, OnceOnWire
  <2>2. \A m : ~OnWire(m) => OnceOnWire(m)
    BY DEF OnWire, OnceOnWire, ToSet
  <2> QED BY <1>1, <1>2, <1>3, <2>1, <2>2
<1>4. CASE wire' = [wire EXCEPT ![s] = @ \o ms] /\ lost' = lost
  <2>1. wire'[s] = wire[s] \o ms /\ \A u \in Conns : u # s => wire'[u] = wire[u]
    BY <1>1, <1>4
  <2>2. wire[s] \in Seq(Messages) /\ wire[s] \o ms \in Seq(Messages)
    BY <1>1
  <2>3. wire' \in [Conns -> Seq(Messages)]
    BY <1>1, <1>4, <2>2
  <2>4. /\ DOMAIN (wire[s] \o ms) = 1..(Len(wire[s]) + Len(ms))
        /\ Len(wire[s]) \in Nat /\ Len(ms) \in Nat
        /\ DOMAIN wire[s] = 1..Len(wire[s]) /\ DOMAIN ms = 1..Len(ms)
        /\ \A i \in DOMAIN (wire[s] \o ms) :
             (wire[s] \o ms)[i] = IF i <= Len(wire[s]) THEN wire[s][i] ELSE ms[i - Len(wire[s])]
    BY <2>2
  <2>5. ToSet(wire[s] \o ms) = ToSet(wire[s]) \cup ToSet(ms)
    <3>1. ASSUME NEW m \in ToSet(wire[s]) PROVE m \in ToSet(wire[s] \o ms)
      <4>1. PICK i \in DOMAIN wire[s] : wire[s][i] = m
        BY <3>1 DEF ToSet
      <4>2. i \in DOMAIN (wire[s] \o ms) /\ (wire[s] \o ms)[i] = m
        BY <2>4, <4>1
      <4> QED BY <4>2 DEF ToSet
    <3>2. ASSUME NEW m \in ToSet(ms) PROVE m \in ToSet(wire[s] \o ms)
      <4>1. PICK i \in DOMAIN ms : ms[i] = m
        BY <3>2 DEF ToSet
      <4>2. i + Len(wire[s]) \in DOMAIN (wire[s] \o ms) /\ (wire[s] \o ms)[i + Len(wire[s])] = m
        BY <2>4, <4>1
      <4> QED BY <4>2 DEF ToSet
    <3>3. ASSUME NEW m \in ToSet(wire[s] \o ms) PROVE m \in ToSet(wire[s]) \cup ToSet(ms)
      <4>1. PICK i \in DOMAIN (wire[s] \o ms) : (wire[s] \o ms)[i] = m
        BY <3>3 DEF ToSet
      <4>2. CASE i <= Len(wire[s])
        <5>1. i \in DOMAIN wire[s] /\ wire[s][i] = m
          BY <2>4, <4>1, <4>2
        <5> QED BY <5>1 DEF ToSet
      <4>3. CASE i > Len(wire[s])
        <5>1. i - Len(wire[s]) \in DOMAIN ms /\ ms[i - Len(wire[s])] = m
          BY <2>4, <4>1, <4>3
        <5> QED BY <5>1 DEF ToSet
      <4> QED BY <2>4, <4>2, <4>3
    <3> QED BY <3>1, <3>2, <3>3
  <2>6. \A m : OnWire(m)' <=> OnWire(m) \/ m \in ToSet(ms)
    BY <2>1, <2>5 DEF OnWire
  <2>7. ASSUME NEW m, m \notin ToSet(ms), OnceOnWire(m) PROVE OnceOnWire(m)'
    <3>1. ASSUME NEW u \in Conns, NEW i \in DOMAIN wire'[u], wire'[u][i] = m
          PROVE  i \in DOMAIN wire[u] /\ wire[u][i] = m
      <4>1. CASE u # s
        BY <2>1, <3>1, <4>1
      <4>2. CASE u = s
        <5>1. \A j \in DOMAIN ms : ms[j] # m
          BY <2>7 DEF ToSet
        <5>2. i \in 1..(Len(wire[s]) + Len(ms)) /\ (wire[s] \o ms)[i] = m
          BY <2>1, <2>4, <3>1, <4>2
        <5>3. i <= Len(wire[s])
          <6>1. SUFFICES ASSUME i > Len(wire[s]) PROVE FALSE
            BY <2>4, <5>2
          <6>2. i - Len(wire[s]) \in DOMAIN ms /\ ms[i - Len(wire[s])] = m
            BY <2>4, <5>2, <6>1
          <6> QED BY <5>1, <6>2
        <5> QED BY <2>4, <4>2, <5>2, <5>3
      <4> QED BY <4>1, <4>2
    <3> QED BY <2>7, <3>1 DEF OnceOnWire
  <2>8. ASSUME IsInjective(ms), NEW m, ~OnWire(m) PROVE OnceOnWire(m)'
    <3>1. \A u \in Conns : \A i \in DOMAIN wire[u] : wire[u][i] # m
      BY <2>8 DEF OnWire, ToSet
    <3>2. ASSUME NEW u \in Conns, NEW i \in DOMAIN wire'[u], wire'[u][i] = m
          PROVE  u = s /\ i - Len(wire[s]) \in DOMAIN ms /\ ms[i - Len(wire[s])] = m /\ i \in Nat
      <4>1. u = s
        BY <2>1, <3>1, <3>2
      <4>2. i \in 1..(Len(wire[s]) + Len(ms)) /\ (wire[s] \o ms)[i] = m
        BY <2>1, <2>4, <3>2, <4>1
      <4>3. i > Len(wire[s])
        <5>1. SUFFICES ASSUME i <= Len(wire[s]) PROVE FALSE
          BY <2>4, <4>2
        <5>2. i \in DOMAIN wire[s] /\ wire[s][i] = m
          BY <2>4, <4>2, <5>1
        <5> QED BY <3>1, <5>2
      <4> QED BY <2>4, <4>1, <4>2, <4>3
    <3>3. \A i, j \in DOMAIN ms : ms[i] = ms[j] => i = j
      BY <2>8 DEF IsInjective
    <3>4. ASSUME NEW u \in Conns, NEW v \in Conns,
                 NEW i \in DOMAIN wire'[u], NEW j \in DOMAIN wire'[v],
                 wire'[u][i] = m, wire'[v][j] = m
          PROVE  u = v /\ i = j
      <4>1. /\ u = s /\ i - Len(wire[s]) \in DOMAIN ms /\ ms[i - Len(wire[s])] = m /\ i \in Nat
            /\ v = s /\ j - Len(wire[s]) \in DOMAIN ms /\ ms[j - Len(wire[s])] = m /\ j \in Nat
        BY <3>2, <3>4
      <4>2. i - Len(wire[s]) = j - Len(wire[s])
        BY <3>3, <4>1
      <4> QED BY <2>4, <4>1, <4>2
    <3> QED BY <3>4 DEF OnceOnWire
  <2> QED BY <1>1, <1>4, <2>3, <2>6, <2>7, <2>8
<1> QED BY <1>3, <1>4 DEF Send, Losing

(* A client takes the first message of its connection. *)
LEMMA TakeIs ==
  ASSUME RowsInv, NEW s \in Conns, Take(s), NEW h, h = Head(wire[s])
  PROVE  /\ h \in Messages /\ wire' \in [Conns -> Seq(Messages)]
         /\ OnWire(h)
         /\ \A m : OnWire(m)' => OnWire(m)
         /\ \A m : OnWire(m) /\ m # h => OnWire(m)'
         /\ \A m : OnceOnWire(m) => OnceOnWire(m)'
         /\ OnceOnWire(h) => ~OnWire(h)'
<1> DEFINE q == wire[s]
<1>1. s \in Conns
  OBVIOUS
<1>2. wire \in [Conns -> Seq(Messages)] /\ q \in Seq(Messages) /\ q # <<>>
  BY <1>1 DEF RowsInv, TypeOK, Take
<1>3. wire' = [wire EXCEPT ![s] = Tail(q)]
  BY DEF Take
<1>4. /\ Tail(q) \in Seq(Messages) /\ DOMAIN q = 1..Len(q) /\ Len(q) \in Nat /\ Len(q) > 0
      /\ DOMAIN Tail(q) = 1..(Len(q) - 1)
      /\ \A i \in DOMAIN Tail(q) : Tail(q)[i] = q[i + 1]
      /\ h = q[1] /\ h \in Messages
  BY <1>2
<1>5. wire'[s] = Tail(q) /\ (\A u \in Conns : u # s => wire'[u] = wire[u])
      /\ wire' \in [Conns -> Seq(Messages)]
  BY <1>1, <1>2, <1>3, <1>4
<1> HIDE DEF q
<1>6. ASSUME NEW u \in Conns, NEW i \in DOMAIN wire'[u]
      PROVE  IF u = s THEN i + 1 \in DOMAIN wire[u] /\ wire'[u][i] = wire[u][i + 1] /\ i \in Nat /\ i + 1 > 1
                      ELSE i \in DOMAIN wire[u] /\ wire'[u][i] = wire[u][i]
  <2>1. CASE u = s
    <3>1. i \in DOMAIN Tail(q) /\ wire'[u][i] = q[i + 1]
      BY <1>4, <1>5, <1>6, <2>1
    <3>2. i \in Nat /\ i + 1 > 1 /\ i + 1 \in DOMAIN q
      BY <1>4, <3>1
    <3> QED BY <2>1, <3>1, <3>2 DEF q
  <2>2. CASE u # s
    BY <1>5, <1>6, <2>2
  <2> QED BY <2>1, <2>2
<1>7. ASSUME NEW m, OnWire(m)' PROVE OnWire(m)
  <2>1. PICK u \in Conns : m \in ToSet(wire'[u])
    BY <1>7 DEF OnWire
  <2>2. PICK i \in DOMAIN wire'[u] : wire'[u][i] = m
    BY <2>1 DEF ToSet
  <2>3. \E j \in DOMAIN wire[u] : wire[u][j] = m
    BY <1>6, <2>2
  <2> QED BY <2>3 DEF OnWire, ToSet
<1>8. ASSUME NEW m, OnWire(m), m # h PROVE OnWire(m)'
  <2>1. PICK u \in Conns : m \in ToSet(wire[u])
    BY <1>8 DEF OnWire
  <2>2. PICK i \in DOMAIN wire[u] : wire[u][i] = m
    BY <2>1 DEF ToSet
  <2>3. CASE u # s
    BY <1>5, <2>1, <2>3 DEF OnWire
  <2>4. CASE u = s
    <3>1. i \in 1..Len(q) /\ q[i] = m /\ i # 1
      BY <1>4, <1>8, <2>2, <2>4 DEF q
    <3>2. i - 1 \in DOMAIN Tail(q) /\ Tail(q)[i - 1] = m
      BY <1>4, <3>1
    <3>3. m \in ToSet(wire'[s])
      BY <1>5, <3>2 DEF ToSet
    <3> QED BY <1>1, <3>3 DEF OnWire
  <2> QED BY <2>3, <2>4
<1>9. ASSUME NEW m, OnceOnWire(m) PROVE OnceOnWire(m)'
  <2>1. ASSUME NEW u \in Conns, NEW v \in Conns,
               NEW i \in DOMAIN wire'[u], NEW j \in DOMAIN wire'[v],
               wire'[u][i] = m, wire'[v][j] = m
        PROVE  u = v /\ i = j
    <3>1. \A x \in DOMAIN wire[u], y \in DOMAIN wire[v] :
            wire[u][x] = m /\ wire[v][y] = m => u = v /\ x = y
      BY <1>9 DEF OnceOnWire
    <3>2. CASE u = s /\ v = s
      <4>1. /\ i + 1 \in DOMAIN wire[u] /\ wire[u][i + 1] = m /\ i \in Nat
            /\ j + 1 \in DOMAIN wire[v] /\ wire[v][j + 1] = m /\ j \in Nat
        BY <1>6, <2>1, <3>2
      <4>2. i + 1 = j + 1
        BY <3>1, <4>1
      <4> QED BY <3>2, <4>1, <4>2
    <3>3. CASE u # s /\ v # s
      BY <1>6, <2>1, <3>1, <3>3
    <3>4. CASE u = s /\ v # s
      <4>1. i + 1 \in DOMAIN wire[u] /\ wire[u][i + 1] = m /\ j \in DOMAIN wire[v] /\ wire[v][j] = m
        BY <1>6, <2>1, <3>4
      <4> QED BY <3>1, <3>4, <4>1
    <3>5. CASE u # s /\ v = s
      <4>1. i \in DOMAIN wire[u] /\ wire[u][i] = m /\ j + 1 \in DOMAIN wire[v] /\ wire[v][j + 1] = m
        BY <1>6, <2>1, <3>5
      <4> QED BY <3>1, <3>5, <4>1
    <3> QED BY <3>2, <3>3, <3>4, <3>5
  <2> QED BY <2>1 DEF OnceOnWire
<1>10. OnWire(h)
  <2>1. h \in ToSet(q)
    BY <1>4 DEF ToSet
  <2> QED BY <1>1, <2>1 DEF OnWire, q
<1>11. ASSUME OnceOnWire(h), OnWire(h)' PROVE FALSE
  <2>1. PICK u \in Conns : h \in ToSet(wire'[u])
    BY <1>11 DEF OnWire
  <2>2. PICK i \in DOMAIN wire'[u] : wire'[u][i] = h
    BY <2>1 DEF ToSet
  <2>3. 1 \in DOMAIN wire[s] /\ wire[s][1] = h
    BY <1>4 DEF q
  <2>4. \A x \in DOMAIN wire[u] : wire[u][x] = h => u = s /\ x = 1
    BY <1>1, <1>11, <2>3 DEF OnceOnWire
  <2>5. CASE u = s
    <3>1. i + 1 \in DOMAIN wire[u] /\ wire[u][i + 1] = h /\ i + 1 > 1
      BY <1>6, <2>2, <2>5
    <3> QED BY <2>4, <3>1
  <2>6. CASE u # s
    BY <1>6, <2>2, <2>4, <2>6
  <2> QED BY <2>5, <2>6
<1> QED BY <1>4, <1>5, <1>7, <1>8, <1>9, <1>10, <1>11

(* The end of what was on a connection is lost with its link. *)
LEMMA DropIs ==
  ASSUME TypeOK, NEW s \in Conns, Drop(s)
  PROVE  /\ wire' \in [Conns -> Seq(Messages)]
         /\ lost' \in SUBSET Messages /\ lost \subseteq lost'
         /\ \A m : OnWire(m)' => OnWire(m)
         /\ \A m : OnWire(m) => OnWire(m)' \/ m \in lost'
         /\ \A m : OnceOnWire(m) => OnceOnWire(m)'
<1> DEFINE q == wire[s]
<1>1. wire \in [Conns -> Seq(Messages)] /\ q \in Seq(Messages) /\ lost \in SUBSET Messages
  BY DEF TypeOK
<1>2. PICK k \in 0..Len(q) :
        /\ wire' = [wire EXCEPT ![s] = SubSeq(q, 1, k)]
        /\ lost' = lost \cup ToSet(SubSeq(q, k + 1, Len(q)))
  BY DEF Drop, Losing
<1> DEFINE a == SubSeq(q, 1, k)
           b == SubSeq(q, k + 1, Len(q))
<1>3. /\ DOMAIN q = 1..Len(q) /\ Len(q) \in Nat /\ k \in Nat /\ k <= Len(q)
      /\ a \in Seq(Messages) /\ DOMAIN a = 1..k /\ \A i \in DOMAIN a : a[i] = q[i]
  BY <1>1, <1>2
<1>4. /\ b \in Seq(Messages) /\ DOMAIN b = 1..(Len(q) - k)
      /\ \A i \in DOMAIN b : b[i] = q[k + i]
  BY <1>1, <1>2, <1>3
<1>5. wire'[s] = a /\ (\A u \in Conns : u # s => wire'[u] = wire[u])
      /\ wire' \in [Conns -> Seq(Messages)] /\ lost' = lost \cup ToSet(b)
  BY <1>1, <1>2, <1>3
<1>6. ToSet(b) \in SUBSET Messages
  BY <1>4, MembersOf
<1> HIDE DEF a, b
<1>7. ASSUME NEW u \in Conns, NEW i \in DOMAIN wire'[u]
      PROVE  i \in DOMAIN wire[u] /\ wire'[u][i] = wire[u][i]
  <2>1. CASE u = s
    BY <1>3, <1>5, <1>7, <2>1
  <2> QED BY <1>5, <1>7, <2>1
<1> HIDE DEF q
<1>8. ASSUME NEW m, OnWire(m)' PROVE OnWire(m)
  <2>1. PICK u \in Conns : m \in ToSet(wire'[u])
    BY <1>8 DEF OnWire
  <2>2. \E i \in DOMAIN wire[u] : wire[u][i] = m
    BY <1>7, <2>1 DEF ToSet
  <2> QED BY <2>2 DEF OnWire, ToSet
<1>9. ASSUME NEW m, OnWire(m) PROVE OnWire(m)' \/ m \in lost'
  <2>1. PICK u \in Conns : m \in ToSet(wire[u])
    BY <1>9 DEF OnWire
  <2>2. CASE u # s
    BY <1>5, <2>1, <2>2 DEF OnWire
  <2>3. CASE u = s
    <3>1. PICK i \in 1..Len(q) : q[i] = m
      BY <1>3, <2>1, <2>3 DEF ToSet, q
    <3>2. CASE i <= k
      <4>1. i \in DOMAIN a /\ a[i] = m
        BY <1>3, <3>1, <3>2
      <4>2. m \in ToSet(wire'[s])
        BY <1>5, <4>1 DEF ToSet
      <4> QED BY <4>2 DEF OnWire
    <3>3. CASE i > k
      <4>1. i - k \in DOMAIN b /\ b[i - k] = m
        <5>1. i - k \in 1..(Len(q) - k)
          BY <1>3, <3>1, <3>3
        <5>2. k + (i - k) = i
          BY <1>3, <3>1
        <5> QED BY <1>4, <3>1, <5>1, <5>2
      <4>2. m \in ToSet(b)
        BY <4>1 DEF ToSet
      <4> QED BY <1>5, <4>2
    <3> QED BY <1>3, <3>2, <3>3
  <2> QED BY <2>2, <2>3
<1>10. ASSUME NEW m, OnceOnWire(m) PROVE OnceOnWire(m)'
  BY <1>7, <1>10 DEF OnceOnWire
<1> QED BY <1>1, <1>5, <1>6, <1>8, <1>9, <1>10

-----------------------------------------------------------------------------
(* The rows                                                                *)

LEMMA AppendIs ==
  ASSUME NEW q \in Seq(Messages), IsInjective(q), NEW m \in Messages, m \notin ToSet(q)
  PROVE  /\ Append(q, m) \in Seq(Messages) /\ IsInjective(Append(q, m))
         /\ ToSet(Append(q, m)) = ToSet(q) \cup {m}
<1> DEFINE a == Append(q, m)
<1>1. /\ a \in Seq(Messages) /\ DOMAIN a = 1..(Len(q) + 1) /\ Len(q) \in Nat
      /\ DOMAIN q = 1..Len(q) /\ a[Len(q) + 1] = m
      /\ \A i \in 1..Len(q) : a[i] = q[i]
  OBVIOUS
<1> HIDE DEF a
<1>2. \A i \in DOMAIN q : q[i] # m
  BY DEF ToSet
<1>3. \A i \in DOMAIN a : IF i \in DOMAIN q THEN a[i] = q[i] ELSE i = Len(q) + 1 /\ a[i] = m
  BY <1>1
<1>4. IsInjective(a)
  BY <1>2, <1>3 DEF IsInjective
<1>5. ToSet(a) = ToSet(q) \cup {m}
  BY <1>1, <1>3 DEF ToSet
<1> QED BY <1>1, <1>4, <1>5 DEF a

LEMMA MarkedIs ==
  ASSUME TypeOK, NEW S, \A m \in S : status[m] # "none"
  PROVE  /\ Marked(S) \in [Messages -> {"none", "pending", "delivered"}]
         /\ \A m \in Messages : (Marked(S)[m] # "none") = (status[m] # "none")
BY DEF Marked, TypeOK

LEMMA RowsInit == Init => RowsInv
<1> SUFFICES ASSUME Init PROVE RowsInv
  OBVIOUS
<1>1. IsInjective(<<>>) /\ ToSet(<<>>) = {}
  BY DEF IsInjective, ToSet
<1>2. TypeOK
  BY <1>1, RelayTypes DEF Init, TypeOK, Conns, NoConn
<1>3. RowsComeLast
  BY DEF Init, RowsComeLast
<1>4. OnlyRowsAreRead
  BY <1>1 DEF Init, OnlyRowsAreRead, Picked
<1> QED BY <1>2, <1>3, <1>4 DEF RowsInv

LEMMA RowsWebhook ==
  ASSUME RowsInv, NEW m \in Messages, Webhook(m)
  PROVE  RowsInv'
<1>1. TypeOK /\ <<m>> \in Seq(Messages) /\ opened \in Nat
  BY RelayTypes DEF RowsInv, TypeOK
<1>2. Reachable => registered \in Conns
  BY RelayTypes DEF RowsInv, TypeOK, Reachable, Conns, NoConn
<1>3. wire' \in [Conns -> Seq(Messages)] /\ lost' \in SUBSET Messages
  <2>1. CASE Reachable
    BY <1>1, <1>2, <2>1, SendIs DEF Webhook
  <2>2. CASE ~Reachable
    BY <1>1, <2>2 DEF Webhook, TypeOK
  <2> QED BY <2>1, <2>2
<1>4. hook[m] = "due" /\ hook' \in [Messages -> {"due", "pushed", "unpushed", "over"}]
      /\ \A n \in Messages : n # m => hook'[n] = hook[n]
  BY DEF RowsInv, TypeOK, Webhook
<1>5. UNCHANGED <<socketVars, tableVars, drainVars, pollVars, handled, faults, repeated>>
  BY DEF Webhook
<1> QED
  BY <1>3, <1>4, <1>5 DEF RowsInv, TypeOK, RowsComeLast, OnlyRowsAreRead, Picked,
     socketVars, tableVars, drainVars, pollVars

LEMMA RowsInsert ==
  ASSUME RowsInv, NEW m \in Messages, Insert(m)
  PROVE  RowsInv'
<1>1. status[m] = "none" /\ m \notin ToSet(rows) /\ rows \in Seq(Messages) /\ IsInjective(rows)
  BY DEF RowsInv, TypeOK, RowsComeLast, Insert
<1>2. rows' \in Seq(Messages) /\ IsInjective(rows') /\ ToSet(rows') = ToSet(rows) \cup {m}
  BY <1>1, AppendIs DEF Insert
<1>3. /\ hook' = [hook EXCEPT ![m] = "over"] /\ status' = [status EXCEPT ![m] = StatusOf(m)]
      /\ StatusOf(m) \in {"pending", "delivered"}
      /\ UNCHANGED <<socketVars, wire, drainVars, pollVars, handled, faults, lost, repeated>>
  BY DEF Insert, StatusOf
<1> QED
  BY <1>2, <1>3 DEF RowsInv, TypeOK, RowsComeLast, OnlyRowsAreRead, Picked,
     socketVars, drainVars, pollVars

LEMMA RowsInsertFails ==
  ASSUME RowsInv, NEW m \in Messages, RouteFails(m) \/ InsertFails(m)
  PROVE  RowsInv'
<1>1. status[m] = "none"
  BY DEF RowsInv, TypeOK, RowsComeLast, RouteFails, InsertFails
<1>2. /\ hook' \in [Messages -> {"due", "pushed", "unpushed", "over"}]
      /\ \A n \in Messages : n # m => hook'[n] = hook[n]
  BY DEF RowsInv, TypeOK, RouteFails, InsertFails
<1>3. faults' \in 0..MaxFaults /\ lost' \in SUBSET Messages /\ repeated' \in SUBSET Messages
  BY RelayTypes DEF RowsInv, TypeOK, RouteFails, InsertFails, Fault, Losing, Repeating
<1>4. UNCHANGED <<socketVars, wire, tableVars, drainVars, pollVars, handled>>
  BY DEF RouteFails, InsertFails
<1> QED
  BY <1>1, <1>2, <1>3, <1>4 DEF RowsInv, TypeOK, RowsComeLast, OnlyRowsAreRead, Picked,
     socketVars, tableVars, drainVars, pollVars

LEMMA RowsSockets ==
  ASSUME RowsInv,
         \/ Connect
         \/ \E s \in Conns : Leave(s) \/ Drop(s) \/ Closed(s)
  PROVE  RowsInv'
<1>1. ASSUME Connect PROVE RowsInv'
  <2>1. opened' \in 0..MaxConnects /\ opened + 1 \in Conns /\ opened \in Nat
        /\ registered \in 0..opened /\ registered' = opened'
    BY <1>1, RelayTypes DEF RowsInv, TypeOK, Connect, Conns, RegisteredAfter
  <2>2. server' \in [Conns -> {"none", "open", "closing", "closed"}]
    BY <1>1, <2>1, RelayTypes DEF RowsInv, TypeOK, Connect, Replaced, Conns, NoConn
  <2>3. /\ linked' \in SUBSET Conns /\ held' \in SUBSET Conns
        /\ drain' \in [Conns -> {"none", "asked", "read", "sent", "over", "aborted"}]
    BY <1>1, <2>1, RelayTypes DEF RowsInv, TypeOK, Connect, Conns
  <2>4. UNCHANGED <<wire, hook, tableVars, picked, pollVars, handled, faults, lost, repeated>>
    BY <1>1 DEF Connect
  <2>5. opened' = opened + 1
    BY <1>1 DEF Connect
  <2> QED
    BY <2>1, <2>2, <2>3, <2>4, <2>5, RelayTypes DEF RowsInv, TypeOK, RowsComeLast,
       OnlyRowsAreRead, Picked, tableVars, pollVars
<1>2. ASSUME NEW s \in Conns, Leave(s) PROVE RowsInv'
  BY <1>2, RelayTypes DEF RowsInv, TypeOK, RowsComeLast, OnlyRowsAreRead, Picked, Leave,
     tableVars, drainVars, pollVars, NoConn
<1>3. ASSUME NEW s \in Conns, Drop(s) PROVE RowsInv'
  <2>1. wire' \in [Conns -> Seq(Messages)] /\ lost' \in SUBSET Messages
    BY <1>3, DropIs DEF RowsInv
  <2>2. linked' \in SUBSET Conns /\ faults' \in 0..MaxFaults
    BY <1>3, RelayTypes DEF RowsInv, TypeOK, Drop, Fault
  <2>3. UNCHANGED <<opened, registered, server, held, hook, tableVars, drainVars,
                    pollVars, handled, repeated>>
    BY <1>3 DEF Drop
  <2> QED
    BY <2>1, <2>2, <2>3 DEF RowsInv, TypeOK, RowsComeLast, OnlyRowsAreRead, Picked,
       tableVars, drainVars, pollVars
<1>4. ASSUME NEW s \in Conns, Closed(s) PROVE RowsInv'
  BY <1>4, RelayTypes DEF RowsInv, TypeOK, RowsComeLast, OnlyRowsAreRead, Picked, Closed,
     tableVars, drainVars, pollVars, NoConn
<1> QED BY <1>1, <1>2, <1>3, <1>4

LEMMA RowsDrains ==
  ASSUME RowsInv, NEW s \in Conns, DrainRead(s) \/ DrainSend(s) \/ DrainMark(s)
  PROVE  RowsInv'
<1>1. CASE DrainRead(s)
  <2> DEFINE old == OldestPending(TakeRelay)
  <2>1. old \in Seq(Messages) /\ \A m \in ToSet(old) : Pending(m)
    BY OldestPendingIs, RelayTypes DEF RowsInv
  <2>2. ToSet(old) \in SUBSET Messages
    BY <2>1, MembersOf
  <2> HIDE DEF old
  <2>3. /\ picked' = [picked EXCEPT ![s] = old]
        /\ drain' = [drain EXCEPT ![s] = IF old = <<>> THEN "over" ELSE "read"]
        /\ repeated' = repeated \cup Shared(ToSet(old))
        /\ UNCHANGED <<socketVars, wire, hook, tableVars, pollVars, handled, faults, lost>>
    BY <1>1 DEF DrainRead, Repeating, old
  <2>4. repeated' \in SUBSET Messages
    BY <2>2, <2>3 DEF RowsInv, TypeOK, Shared
  <2>5. \A u \in Conns : IF u = s THEN picked'[u] = old ELSE picked'[u] = picked[u]
    BY <2>3 DEF RowsInv, TypeOK
  <2>6. /\ picked' \in [Conns -> Seq(Messages)]
        /\ drain' \in [Conns -> {"none", "asked", "read", "sent", "over", "aborted"}]
    BY <2>1, <2>3 DEF RowsInv, TypeOK
  <2>7. OnlyRowsAreRead'
    BY <2>1, <2>3, <2>5 DEF RowsInv, OnlyRowsAreRead, Picked, Pending, tableVars, pollVars
  <2> QED
    BY <2>3, <2>4, <2>6, <2>7 DEF RowsInv, TypeOK, RowsComeLast,
       socketVars, tableVars, pollVars
<1>2. CASE DrainSend(s)
  <2>1. TypeOK /\ picked[s] \in Seq(Messages)
    BY DEF RowsInv, TypeOK
  <2>2. wire' \in [Conns -> Seq(Messages)] /\ lost' \in SUBSET Messages
    BY <1>2, <2>1, SendIs DEF DrainSend
  <2>3. drain' \in [Conns -> {"none", "asked", "read", "sent", "over", "aborted"}]
    BY <1>2 DEF RowsInv, TypeOK, DrainSend
  <2>4. UNCHANGED <<socketVars, hook, tableVars, picked, pollVars, handled, faults, repeated>>
    BY <1>2 DEF DrainSend
  <2> QED
    BY <2>2, <2>3, <2>4 DEF RowsInv, TypeOK, RowsComeLast, OnlyRowsAreRead, Picked,
       socketVars, tableVars, pollVars
<1>3. CASE DrainMark(s)
  <2>1. TypeOK /\ \A m \in Picked(s) : status[m] # "none"
    BY DEF RowsInv, OnlyRowsAreRead
  <2>2. /\ status' \in [Messages -> {"none", "pending", "delivered"}]
        /\ \A m \in Messages : (status'[m] # "none") = (status[m] # "none")
    BY <1>3, <2>1, MarkedIs DEF DrainMark, Picked
  <2>3. ToSet(<<>>) = {} /\ <<>> \in Seq(Messages)
    BY DEF ToSet
  <2>4. /\ picked' \in [Conns -> Seq(Messages)]
        /\ drain' \in [Conns -> {"none", "asked", "read", "sent", "over", "aborted"}]
        /\ \A u \in Conns : IF u = s THEN picked'[u] = <<>> ELSE picked'[u] = picked[u]
    BY <1>3, <2>3 DEF RowsInv, TypeOK, DrainMark
  <2>5. UNCHANGED <<socketVars, wire, hook, rows, pollVars, handled, faults, lost, repeated>>
    BY <1>3 DEF DrainMark
  <2>6. (\A u \in Conns : Picked(u) \in SUBSET Messages) /\ ToSet(polled) \in SUBSET Messages
    BY MembersOf DEF Picked, RowsInv, TypeOK
  <2>7. OnlyRowsAreRead'
    BY <2>2, <2>3, <2>4, <2>5, <2>6 DEF RowsInv, OnlyRowsAreRead, Picked, pollVars
  <2> QED
    BY <2>2, <2>4, <2>5, <2>7 DEF RowsInv, TypeOK, RowsComeLast,
       socketVars, pollVars
<1> QED BY <1>1, <1>2, <1>3

LEMMA RowsPoll ==
  ASSUME RowsInv, PollRead \/ Poll \/ PollFails
  PROVE  RowsInv'
<1>1. CASE PollRead
  <2> DEFINE old == OldestPending(TakePoll)
  <2>1. old \in Seq(Messages) /\ \A m \in ToSet(old) : Pending(m)
    BY OldestPendingIs, RelayTypes DEF RowsInv
  <2>2. ToSet(old) \in SUBSET Messages
    BY <2>1, MembersOf
  <2> HIDE DEF old
  <2>3. /\ poll' = "read" /\ polled' = old
        /\ repeated' = repeated \cup Shared(ToSet(old))
        /\ UNCHANGED <<socketVars, wire, hook, tableVars, drainVars, handled, faults, lost>>
    BY <1>1 DEF PollRead, Repeating, old
  <2>4. repeated' \in SUBSET Messages
    BY <2>2, <2>3 DEF RowsInv, TypeOK, Shared
  <2>5. OnlyRowsAreRead'
    BY <2>1, <2>3 DEF RowsInv, OnlyRowsAreRead, Picked, Pending, tableVars, drainVars
  <2> QED
    BY <2>1, <2>3, <2>4, <2>5 DEF RowsInv, TypeOK, RowsComeLast,
       socketVars, tableVars, drainVars
<1>2. ASSUME NEW S, PollEnds(S), faults' \in 0..MaxFaults PROVE RowsInv'
  <2>1. TypeOK /\ \A m \in ToSet(polled) : status[m] # "none"
    BY DEF RowsInv, OnlyRowsAreRead
  <2>2. /\ status' \in [Messages -> {"none", "pending", "delivered"}]
        /\ \A m \in Messages : (status'[m] # "none") = (status[m] # "none")
    BY <1>2, <2>1, MarkedIs DEF PollEnds
  <2>3. ToSet(<<>>) = {} /\ <<>> \in Seq(Messages)
    BY DEF ToSet
  <2>4. (\A u \in Conns : Picked(u) \in SUBSET Messages) /\ ToSet(polled) \in SUBSET Messages
    BY MembersOf DEF Picked, RowsInv, TypeOK
  <2>5. handled' \in [Messages -> Nat] /\ lost' \in SUBSET Messages
    BY <1>2, <2>4 DEF RowsInv, TypeOK, PollEnds, Losing
  <2>6. /\ poll' = "idle" /\ polled' = <<>>
        /\ UNCHANGED <<socketVars, wire, hook, rows, drainVars, repeated>>
    BY <1>2 DEF PollEnds
  <2>7. OnlyRowsAreRead'
    BY <2>2, <2>3, <2>4, <2>6 DEF RowsInv, OnlyRowsAreRead, Picked, drainVars
  <2> QED
    BY <1>2, <2>2, <2>3, <2>5, <2>6, <2>7 DEF RowsInv, TypeOK, RowsComeLast,
       socketVars, drainVars
<1>3. ASSUME Poll \/ PollFails PROVE faults' \in 0..MaxFaults /\ \E S : PollEnds(S)
  <2>1. CASE Poll
    BY <2>1 DEF Poll, RowsInv, TypeOK
  <2>2. CASE PollFails
    <3>1. PICK S : PollEnds(S) /\ Fault
      BY <2>2 DEF PollFails
    <3>2. faults' \in 0..MaxFaults
      BY <3>1, RelayTypes DEF Fault, RowsInv, TypeOK
    <3> QED BY <3>1, <3>2
  <2> QED BY <1>3, <2>1, <2>2
<1> QED BY <1>1, <1>2, <1>3

LEMMA RowsTake ==
  ASSUME RowsInv, NEW s \in Conns,
         Deliver(s) \/ GiveUp(s) \/ \E n \in 2..Attempts : DeliverAgain(s, n)
  PROVE  RowsInv'
<1> DEFINE h == Head(wire[s])
<1>1. Take(s)
  BY DEF Deliver, GiveUp, DeliverAgain
<1>2. h \in Messages /\ wire' \in [Conns -> Seq(Messages)]
  BY <1>1, TakeIs
<1>3. UNCHANGED <<socketVars, hook, tableVars, drainVars, pollVars>>
  BY <1>1 DEF Take
<1>4. /\ handled' \in [Messages -> Nat] /\ faults' \in 0..MaxFaults
      /\ lost' \in SUBSET Messages /\ repeated' \in SUBSET Messages
  <2>1. handled \in [Messages -> Nat] /\ faults \in 0..MaxFaults
        /\ lost \in SUBSET Messages /\ repeated \in SUBSET Messages
    BY DEF RowsInv, TypeOK
  <2>2. CASE Deliver(s)
    BY <1>2, <2>1, <2>2 DEF Deliver
  <2>3. CASE GiveUp(s)
    BY <1>2, <2>1, <2>3, RelayTypes DEF GiveUp, Fault, Losing
  <2>4. ASSUME NEW n \in 2..Attempts, DeliverAgain(s, n)
        PROVE /\ handled' \in [Messages -> Nat] /\ faults' \in 0..MaxFaults
              /\ lost' \in SUBSET Messages /\ repeated' \in SUBSET Messages
    BY <1>2, <2>1, <2>4, RelayTypes DEF DeliverAgain, Fault, Repeating
  <2> QED BY <2>2, <2>3, <2>4
<1> QED
  BY <1>2, <1>3, <1>4 DEF RowsInv, TypeOK, RowsComeLast, OnlyRowsAreRead, Picked,
     socketVars, tableVars, drainVars, pollVars

LEMMA RowsRestart ==
  ASSUME RowsInv, Restart
  PROVE  RowsInv'
<1>1. ToSet(<<>>) = {} /\ <<>> \in Seq(Messages)
  BY DEF ToSet
<1>2. /\ faults' \in 0..MaxFaults /\ repeated' \in SUBSET Messages
      /\ registered' \in 0..opened /\ linked' \in SUBSET Conns
  BY RelayTypes DEF RowsInv, TypeOK, Restart, Fault, Repeating, NoConn
<1>3. /\ server' \in [Conns -> {"none", "open", "closing", "closed"}]
      /\ hook' \in [Messages -> {"due", "pushed", "unpushed", "over"}]
      /\ \A m \in Messages : hook[m] = "over" => hook'[m] = "over"
  BY DEF RowsInv, TypeOK, Restart
<1>4. /\ drain' \in [Conns -> {"none", "asked", "read", "sent", "over", "aborted"}]
      /\ picked' \in [Conns -> Seq(Messages)] /\ \A s \in Conns : picked'[s] = <<>>
      /\ poll' = "idle" /\ polled' = <<>>
  BY <1>1 DEF RowsInv, TypeOK, Restart
<1>5. UNCHANGED <<opened, wire, held, tableVars, handled, lost>>
  BY DEF Restart
<1> QED
  BY <1>1, <1>2, <1>3, <1>4, <1>5 DEF RowsInv, TypeOK, RowsComeLast, OnlyRowsAreRead,
     Picked, tableVars

LEMMA RowsNext ==
  ASSUME RowsInv, [Next]_vars
  PROVE  RowsInv'
<1>1. CASE UNCHANGED vars
  BY <1>1 DEF RowsInv, TypeOK, RowsComeLast, OnlyRowsAreRead, Picked,
     vars, socketVars, tableVars, drainVars, pollVars
<1>2. CASE Next
  BY <1>2, RowsWebhook, RowsInsert, RowsInsertFails, RowsSockets, RowsDrains, RowsPoll,
     RowsTake, RowsRestart DEF Next
<1> QED BY <1>1, <1>2

-----------------------------------------------------------------------------
(* Nothing vanishes                                                        *)

LEMMA WebhookSends ==
  ASSUME RowsInv, NEW m \in Messages, Webhook(m), Reachable
  PROVE  /\ registered \in Conns /\ <<m>> \in Seq(Messages) /\ Send(registered, <<m>>)
         /\ ToSet(<<m>>) = {m} /\ IsInjective(<<m>>)
BY RelayTypes DEF RowsInv, TypeOK, Webhook, Reachable, Conns, NoConn, ToSet, IsInjective

LEMMA AccountedSent ==
  ASSUME RowsInv, NEW s \in Conns, NEW ms \in Seq(Messages), Send(s, ms),
         handled' = handled, NEW m \in Messages, Accounted(m) \/ m \in ToSet(ms)
  PROVE  Accounted(m)'
BY SendIs DEF RowsInv, Accounted, Arrives

LEMMA AccountedTaken ==
  ASSUME RowsInv, NEW s \in Conns, NEW m \in Messages, Accounted(m),
         Deliver(s) \/ GiveUp(s) \/ \E n \in 2..Attempts : DeliverAgain(s, n)
  PROVE  Accounted(m)'
<1> DEFINE h == Head(wire[s])
<1>1. Take(s)
  BY DEF Deliver, GiveUp, DeliverAgain
<1>2. h \in Messages /\ (OnWire(m) /\ m # h => OnWire(m)')
  BY <1>1, TakeIs
<1>3. handled \in [Messages -> Nat]
  BY DEF RowsInv, TypeOK
<1> HIDE DEF h
<1>4. CASE GiveUp(s)
  <2>1. handled' = handled /\ lost' = lost \cup {h}
    BY <1>4 DEF GiveUp, Losing, h
  <2> QED BY <1>2, <2>1 DEF Accounted, Arrives
<1>5. ASSUME NEW n \in Nat \ {0}, handled' = [handled EXCEPT ![h] = @ + n], lost' = lost
      PROVE  Accounted(m)'
  <2>1. CASE m = h
    <3>1. handled'[m] = handled[m] + n
      BY <1>2, <1>3, <1>5, <2>1
    <3> QED BY <1>3, <3>1 DEF Accounted, Arrives
  <2>2. CASE m # h
    <3>1. handled'[m] = handled[m]
      BY <1>3, <1>5, <2>2
    <3> QED BY <1>2, <1>5, <2>2, <3>1 DEF Accounted, Arrives
  <2> QED BY <2>1, <2>2
<1>6. CASE Deliver(s)
  <2> DEFINE n == 1
  <2>1. handled' = [handled EXCEPT ![h] = @ + n] /\ lost' = lost /\ n \in Nat \ {0}
    BY <1>6 DEF Deliver, h
  <2> HIDE DEF n
  <2> QED BY <1>5, <2>1
<1>7. ASSUME NEW n \in 2..Attempts, DeliverAgain(s, n) PROVE Accounted(m)'
  <2>1. handled' = [handled EXCEPT ![h] = @ + n] /\ lost' = lost
    BY <1>7 DEF DeliverAgain, h
  <2>2. n \in Nat \ {0}
    BY RelayTypes
  <2> QED BY <1>5, <2>1, <2>2
<1> QED BY <1>4, <1>6, <1>7

(* A copy that is accounted for stays so in every step. *)
LEMMA AccountedStays ==
  ASSUME RowsInv, [Next]_vars, NEW m \in Messages, Accounted(m)
  PROVE  Accounted(m)'
<1>1. ASSUME UNCHANGED <<wire, handled>>, lost \subseteq lost' PROVE Accounted(m)'
  BY <1>1 DEF Accounted, Arrives, OnWire
<1>2. ASSUME NEW n \in Messages, Webhook(n) PROVE Accounted(m)'
  <2>1. CASE Reachable
    BY <1>2, <2>1, WebhookSends, AccountedSent DEF Webhook
  <2>2. CASE ~Reachable
    BY <1>1, <1>2, <2>2 DEF Webhook
  <2> QED BY <2>1, <2>2
<1>3. ASSUME NEW n \in Messages, Insert(n) \/ RouteFails(n) \/ InsertFails(n) PROVE Accounted(m)'
  BY <1>1, <1>3 DEF Insert, RouteFails, InsertFails, Losing
<1>4. ASSUME NEW s \in Conns, Drop(s) PROVE Accounted(m)'
  <2>1. handled' = handled /\ lost \subseteq lost' /\ (OnWire(m) => OnWire(m)' \/ m \in lost')
    BY <1>4, DropIs DEF RowsInv, Drop
  <2> QED BY <2>1 DEF Accounted, Arrives
<1>5. ASSUME NEW s \in Conns, Closed(s) \/ DrainRead(s) \/ DrainMark(s) PROVE Accounted(m)'
  BY <1>1, <1>5 DEF Closed, DrainRead, DrainMark
<1>6. ASSUME NEW s \in Conns, DrainSend(s) PROVE Accounted(m)'
  BY <1>6, AccountedSent DEF DrainSend, RowsInv, TypeOK
<1>7. ASSUME NEW s \in Conns, Leave(s) PROVE Accounted(m)'
  BY <1>1, <1>7 DEF Leave
<1>8. CASE Connect \/ PollRead \/ Restart \/ UNCHANGED vars
  BY <1>1, <1>8 DEF Connect, PollRead, Restart, vars
<1>9. ASSUME NEW S, PollEnds(S) PROVE Accounted(m)'
  <2>1. wire' = wire /\ lost \subseteq lost' /\ handled \in [Messages -> Nat]
    BY <1>9 DEF PollEnds, Losing, RowsInv, TypeOK
  <2>2. handled[m] > 0 => handled'[m] > 0
    BY <1>9, <2>1 DEF PollEnds
  <2> QED BY <2>1, <2>2 DEF Accounted, Arrives, OnWire
<1>10. ASSUME NEW s \in Conns, Deliver(s) \/ GiveUp(s) \/ \E n \in 2..Attempts : DeliverAgain(s, n)
       PROVE  Accounted(m)'
  BY <1>10, AccountedTaken
<1> QED
  BY <1>2, <1>3, <1>4, <1>5, <1>6, <1>7, <1>8, <1>9, <1>10 DEF Next, Poll, PollFails

LEMMA ArrivalsInit == Init => ArrivalsInv
BY DEF Init, ArrivalsInv, NothingVanishes, SentArrives

(* A step that moves neither a webhook, nor a row, nor a drain. *)
LEMMA ArrivalsKept ==
  ASSUME RowsInv, ArrivalsInv, [Next]_vars,
         \A m \in Messages : /\ hook'[m] = "over" => hook[m] = "over"
                             /\ hook'[m] = "pushed" => hook[m] = "pushed"
                             /\ status[m] = "pending" => status'[m] = "pending",
         \A s \in Conns : drain'[s] = "sent" => drain[s] = "sent" /\ picked'[s] = picked[s]
  PROVE  ArrivalsInv'
<1>1. \A m \in Messages : Accounted(m) => Accounted(m)'
  BY AccountedStays
<1>2. NothingVanishes'
  BY <1>1 DEF ArrivalsInv, NothingVanishes, Accounted
<1>3. \A s \in Conns : Picked(s) \in SUBSET Messages
  BY WireTypes DEF RowsInv
<1>4. SentArrives'
  BY <1>1, <1>3 DEF ArrivalsInv, SentArrives, Picked
<1> QED BY <1>2, <1>4 DEF ArrivalsInv

LEMMA ArrivalsWebhook ==
  ASSUME RowsInv, ArrivalsInv, NEW m \in Messages, Webhook(m)
  PROVE  ArrivalsInv'
<1>1. [Next]_vars
  BY DEF Next
<1>2. \A n \in Messages : Accounted(n) => Accounted(n)'
  BY <1>1, AccountedStays
<1>3. hook[m] = "due" /\ hook' \in [Messages -> {"due", "pushed", "unpushed", "over"}]
      /\ (\A n \in Messages : n # m => hook'[n] = hook[n]) /\ hook'[m] # "over"
      /\ (hook'[m] = "pushed" => Reachable)
  BY DEF RowsInv, TypeOK, Webhook
<1>4. hook'[m] = "pushed" => Accounted(m)'
  BY <1>3, WebhookSends, AccountedSent DEF Webhook
<1>5. UNCHANGED <<status, drain, picked>>
  BY DEF Webhook, tableVars, drainVars
<1>6. NothingVanishes'
  BY <1>2, <1>3, <1>5 DEF ArrivalsInv, NothingVanishes, Accounted
<1>7. \A s \in Conns : Picked(s) \in SUBSET Messages
  BY WireTypes DEF RowsInv
<1>8. SentArrives'
  BY <1>2, <1>3, <1>4, <1>5, <1>7 DEF ArrivalsInv, SentArrives, Picked
<1> QED BY <1>6, <1>8 DEF ArrivalsInv

LEMMA ArrivalsInsert ==
  ASSUME RowsInv, ArrivalsInv, NEW m \in Messages, Insert(m) \/ RouteFails(m) \/ InsertFails(m)
  PROVE  ArrivalsInv'
<1>1. [Next]_vars
  BY DEF Next
<1>2. \A n \in Messages : Accounted(n) => Accounted(n)'
  BY <1>1, AccountedStays
<1>3. /\ hook[m] \in {"pushed", "unpushed"}
      /\ hook' \in [Messages -> {"due", "pushed", "unpushed", "over"}]
      /\ hook'[m] # "pushed"
      /\ \A n \in Messages : n # m => hook'[n] = hook[n] /\ status'[n] = status[n]
  BY DEF RowsInv, TypeOK, Insert, RouteFails, InsertFails, tableVars
<1>4. hook[m] = "pushed" => Accounted(m)
  BY DEF ArrivalsInv, SentArrives
<1>5. hook[m] = "unpushed" /\ hook'[m] = "over" => status'[m] = "pending" \/ m \in lost'
  BY DEF RowsInv, TypeOK, Insert, RouteFails, InsertFails, StatusOf, Losing
<1>6. UNCHANGED <<drain, picked>>
  BY DEF Insert, RouteFails, InsertFails, drainVars
<1>7. NothingVanishes'
  BY <1>2, <1>3, <1>4, <1>5 DEF ArrivalsInv, NothingVanishes, Accounted
<1>8. \A s \in Conns : Picked(s) \in SUBSET Messages
  BY WireTypes DEF RowsInv
<1>9. SentArrives'
  BY <1>2, <1>3, <1>6, <1>8 DEF ArrivalsInv, SentArrives, Picked
<1> QED BY <1>7, <1>9 DEF ArrivalsInv

LEMMA ArrivalsDrains ==
  ASSUME RowsInv, ArrivalsInv, NEW s \in Conns, DrainRead(s) \/ DrainSend(s) \/ DrainMark(s)
  PROVE  ArrivalsInv'
<1>1. [Next]_vars
  BY DEF Next
<1>2. \A n \in Messages : Accounted(n) => Accounted(n)'
  BY <1>1, AccountedStays
<1>3. \A u \in Conns : Picked(u) \in SUBSET Messages
  BY WireTypes DEF RowsInv
<1>4. CASE DrainRead(s)
  <2>1. \A u \in Conns : drain'[u] = "sent" => drain[u] = "sent" /\ picked'[u] = picked[u]
    BY <1>4 DEF DrainRead, RowsInv, TypeOK
  <2>2. UNCHANGED <<hook, status>>
    BY <1>4 DEF DrainRead, tableVars
  <2> QED BY <1>1, <2>1, <2>2, ArrivalsKept
<1>5. CASE DrainSend(s)
  <2>1. \A m \in Picked(s) : Accounted(m)'
    BY <1>3, <1>5, AccountedSent, WireTypes DEF DrainSend, Picked, RowsInv
  <2>2. UNCHANGED <<hook, status, picked>> /\ \A u \in Conns : u # s => drain'[u] = drain[u]
    BY <1>5 DEF DrainSend, tableVars, RowsInv, TypeOK
  <2>3. NothingVanishes'
    BY <1>2, <2>2 DEF ArrivalsInv, NothingVanishes, Accounted
  <2>4. SentArrives'
    BY <1>2, <1>3, <2>1, <2>2 DEF ArrivalsInv, SentArrives, Picked
  <2> QED BY <2>3, <2>4 DEF ArrivalsInv
<1>6. CASE DrainMark(s)
  <2>1. \A m \in Picked(s) : Accounted(m)
    BY <1>6 DEF DrainMark, ArrivalsInv, SentArrives
  <2>2. /\ UNCHANGED hook
        /\ \A m \in Messages : m \notin Picked(s) => status'[m] = status[m]
        /\ \A u \in Conns : drain'[u] = "sent" => drain[u] = "sent" /\ picked'[u] = picked[u]
    BY <1>6 DEF DrainMark, Marked, Picked, RowsInv, TypeOK
  <2>3. NothingVanishes'
    BY <1>2, <2>1, <2>2 DEF ArrivalsInv, NothingVanishes, Accounted
  <2>4. SentArrives'
    BY <1>2, <1>3, <2>2 DEF ArrivalsInv, SentArrives, Picked
  <2> QED BY <2>3, <2>4 DEF ArrivalsInv
<1> QED BY <1>4, <1>5, <1>6

LEMMA ArrivalsPoll ==
  ASSUME RowsInv, ArrivalsInv, Poll \/ PollFails
  PROVE  ArrivalsInv'
<1>1. [Next]_vars
  BY DEF Next
<1>2. \A n \in Messages : Accounted(n) => Accounted(n)'
  BY <1>1, AccountedStays
<1>3. \A u \in Conns : Picked(u) \in SUBSET Messages
  BY WireTypes DEF RowsInv
<1>4. PICK S : PollEnds(S)
  BY DEF Poll, PollFails
<1>5. UNCHANGED <<hook, drain, picked>>
      /\ \A m \in Messages : m \notin ToSet(polled) => status'[m] = status[m]
  BY <1>4 DEF PollEnds, drainVars, Marked
<1>6. ASSUME NEW m \in Messages, m \in ToSet(polled) PROVE Accounted(m)'
  <2> DEFINE emails == ToSet(polled) \cap Emails
  <2>1. handled \in [Messages -> Nat]
    BY DEF RowsInv, TypeOK
  <2>2. CASE m \in emails \ S
    <3>1. handled'[m] = handled[m] + 1
      BY <1>4, <2>1, <2>2 DEF PollEnds
    <3> QED BY <2>1, <3>1 DEF Accounted, Arrives
  <2>3. CASE m \notin emails \ S
    <3>1. m \in lost'
      BY <1>4, <1>6, <2>3 DEF PollEnds, Losing
    <3> QED BY <3>1 DEF Accounted
  <2> QED BY <2>2, <2>3
<1>7. NothingVanishes'
  BY <1>2, <1>5, <1>6 DEF ArrivalsInv, NothingVanishes, Accounted
<1>8. SentArrives'
  BY <1>2, <1>3, <1>5 DEF ArrivalsInv, SentArrives, Picked
<1> QED BY <1>7, <1>8 DEF ArrivalsInv

LEMMA ArrivalsNext ==
  ASSUME RowsInv, ArrivalsInv, [Next]_vars
  PROVE  ArrivalsInv'
<1>1. CASE UNCHANGED <<hook, status, drain, picked>>
  BY <1>1, ArrivalsKept
<1>2. ASSUME Connect PROVE ArrivalsInv'
  <2>1. \A s \in Conns : drain'[s] = "sent" => drain[s] = "sent" /\ picked'[s] = picked[s]
    BY <1>2 DEF Connect, RowsInv, TypeOK
  <2>2. UNCHANGED <<hook, status>>
    BY <1>2 DEF Connect, tableVars
  <2> QED BY <2>1, <2>2, ArrivalsKept
<1>3. CASE Restart
  <2>1. /\ \A m \in Messages : /\ hook'[m] = "over" => hook[m] = "over"
                               /\ hook'[m] = "pushed" => hook[m] = "pushed"
        /\ \A s \in Conns : drain'[s] # "sent"
    BY <1>3 DEF Restart, RowsInv, TypeOK
  <2>2. UNCHANGED status
    BY <1>3 DEF Restart, tableVars
  <2> QED BY <2>1, <2>2, ArrivalsKept
<1>4. CASE \E s \in Conns : Drop(s) \/ Closed(s)
  BY <1>1, <1>4 DEF Drop, Closed, tableVars, drainVars
<1>5. CASE \E s \in Conns : Leave(s) \/ Take(s)
  BY <1>1, <1>5 DEF Leave, Take, tableVars, drainVars
<1>6. CASE PollRead \/ UNCHANGED vars
  BY <1>1, <1>6 DEF PollRead, vars, tableVars, drainVars
<1> QED
  BY <1>2, <1>3, <1>4, <1>5, <1>6, ArrivalsWebhook, ArrivalsInsert, ArrivalsDrains,
     ArrivalsPoll DEF Next, Deliver, GiveUp, DeliverAgain

(* Every variable of the relay keeps its type.                             *)
THEOREM RelayTypesAlways == Spec => []TypeOK
<1>1. RowsInv => TypeOK
  BY DEF RowsInv
<1> QED BY <1>1, RowsInit, RowsNext, PTL DEF Spec

(* A message whose webhook the backend answered has a pending row, is on   *)
(* its way, was handled, or was lost in one of the steps that lose         *)
(* messages (pushToRelayByAgentId, drainAndPushPending, drainPending).     *)
THEOREM NothingEverVanishes == Spec => []NothingVanishes
<1>1. Init => RowsInv /\ ArrivalsInv
  BY RowsInit, ArrivalsInit
<1>2. RowsInv /\ ArrivalsInv /\ [Next]_vars => (RowsInv /\ ArrivalsInv)'
  BY RowsNext, ArrivalsNext
<1>3. RowsInv /\ ArrivalsInv => NothingVanishes
  BY DEF ArrivalsInv
<1> QED BY <1>1, <1>2, <1>3, PTL DEF Spec

-----------------------------------------------------------------------------
(* One source                                                              *)

LEMMA SourcesInit == Init => SourcesInv
<1> SUFFICES ASSUME Init PROVE SourcesInv
  OBVIOUS
<1>1. IsInjective(<<>>) /\ ToSet(<<>>) = {} /\ DOMAIN <<>> = {}
  BY DEF IsInjective, ToSet
<1>2. UnopenedDrainNothing /\ PicksAreOnce
  BY <1>1 DEF Init, UnopenedDrainNothing, PicksAreOnce
<1>3. ASSUME NEW m \in Messages PROVE OneSource(m)
  <2>1. NoCopy(m) /\ OneCopy(m)
    BY <1>1 DEF Init, NoCopy, OneCopy, OnWire, OnceOnWire
  <2>2. ~Polled(m) /\ \A s \in Conns : ~Reads(s, m)
    BY DEF Init, Polled, Reads
  <2> QED BY <2>1, <2>2 DEF OneSource
<1> QED BY <1>2, <1>3 DEF SourcesInv

LEMMA CopiesKept ==
  ASSUME UNCHANGED <<wire, handled>>, NEW m
  PROVE  (OneCopy(m)' <=> OneCopy(m)) /\ (NoCopy(m)' <=> NoCopy(m))
BY DEF OneCopy, NoCopy, OnWire, OnceOnWire

LEMMA ReadersKept ==
  ASSUME UNCHANGED <<drain, picked, poll, polled>>, NEW m
  PROVE  /\ \A s \in Conns : Reads(s, m)' <=> Reads(s, m)
         /\ (Sent(m)' <=> Sent(m)) /\ (Polled(m)' <=> Polled(m))
BY DEF Reads, Sent, Polled, Picked

LEMMA PicksKept ==
  ASSUME SourcesInv, UNCHANGED <<opened, drain, picked>>
  PROVE  UnopenedDrainNothing' /\ PicksAreOnce'
BY DEF SourcesInv, UnopenedDrainNothing, PicksAreOnce

(* A step that at most takes copies away and asks no new source. *)
LEMMA SourcesKept ==
  ASSUME SourcesInv, UNCHANGED <<opened, hook, status, drain, picked, poll, polled>>,
         repeated \subseteq repeated',
         \A m \in Messages : m \in repeated' \/ (OneCopy(m) => OneCopy(m)'),
         \A m \in Messages : m \in repeated' \/ (NoCopy(m) => NoCopy(m)')
  PROVE  SourcesInv'
<1>1. ASSUME NEW m \in Messages, m \notin repeated' PROVE OneSource(m)'
  <2>1. OneSource(m)
    BY <1>1 DEF SourcesInv
  <2> QED BY <1>1, <2>1, ReadersKept DEF OneSource
<1> QED BY <1>1, PicksKept DEF SourcesInv

LEMMA SourcesTake ==
  ASSUME RowsInv, SourcesInv, NEW s \in Conns,
         Deliver(s) \/ GiveUp(s) \/ \E n \in 2..Attempts : DeliverAgain(s, n)
  PROVE  SourcesInv'
<1>0. PICK h : h = Head(wire[s])
  OBVIOUS
<1>1. Take(s)
  BY DEF Deliver, GiveUp, DeliverAgain
<1>2. /\ h \in Messages /\ OnWire(h)
      /\ \A m : OnWire(m)' => OnWire(m)
      /\ \A m : OnceOnWire(m) => OnceOnWire(m)'
      /\ OnceOnWire(h) => ~OnWire(h)'
  BY <1>0, <1>1, TakeIs
<1>3. UNCHANGED <<opened, hook, status, drain, picked, poll, polled>>
  BY <1>1 DEF Take, socketVars, tableVars, drainVars, pollVars
<1>4. handled \in [Messages -> Nat]
  BY DEF RowsInv, TypeOK
<1>5. /\ repeated \subseteq repeated'
      /\ \A m \in Messages : m # h => handled'[m] = handled[m]
      /\ \/ handled'[h] = handled[h] + 1
         \/ handled'[h] = handled[h]
         \/ h \in repeated'
  <2>1. CASE Deliver(s)
    BY <1>0, <1>2, <1>4, <2>1 DEF Deliver
  <2>2. CASE GiveUp(s)
    BY <2>2 DEF GiveUp
  <2>3. CASE \E n \in 2..Attempts : DeliverAgain(s, n)
    BY <1>0, <1>2, <1>4, <2>3 DEF DeliverAgain, Repeating
  <2> QED BY <2>1, <2>2, <2>3
<1>6. ASSUME NEW m \in Messages, m \notin repeated', OneCopy(m) PROVE OneCopy(m)'
  <2>1. CASE m = h
    <3>0. OnceOnWire(h) /\ handled[h] <= 1 /\ handled[h] # 1 /\ handled[h] \in Nat
      BY <1>2, <1>4, <1>6, <2>1 DEF OneCopy
    <3>1. handled[m] = 0 /\ ~OnWire(m)' /\ OnceOnWire(m)'
      BY <1>2, <2>1, <3>0
    <3>2. handled'[m] <= 1
      BY <1>4, <1>5, <1>6, <2>1, <3>1
    <3> QED BY <3>1, <3>2 DEF OneCopy
  <2>2. CASE m # h
    BY <1>2, <1>5, <1>6, <2>2 DEF OneCopy
  <2> QED BY <2>1, <2>2
<1>7. ASSUME NEW m \in Messages, NoCopy(m) PROVE NoCopy(m)'
  BY <1>2, <1>5, <1>7 DEF NoCopy
<1> QED BY <1>3, <1>5, <1>6, <1>7, SourcesKept

LEMMA SourcesSockets ==
  ASSUME RowsInv, SourcesInv,
         \/ Connect
         \/ \E s \in Conns : Leave(s) \/ Drop(s) \/ Closed(s)
  PROVE  SourcesInv'
<1>1. ASSUME Connect PROVE SourcesInv'
  <2> DEFINE s == opened + 1
  <2>1. /\ s \in Conns /\ opened \in Nat /\ opened' = s
        /\ drain' = [drain EXCEPT ![s] = "asked"] /\ drain \in [Conns -> {"none", "asked", "read", "sent", "over", "aborted"}]
        /\ UNCHANGED <<wire, handled, hook, status, picked, poll, polled, repeated>>
    BY <1>1, RelayTypes DEF Connect, RowsInv, TypeOK, Conns, tableVars, pollVars
  <2>2. drain[s] = "none"
    BY <2>1 DEF SourcesInv, UnopenedDrainNothing, Conns
  <2>3. UnopenedDrainNothing' /\ PicksAreOnce'
    BY <2>1, RelayTypes DEF SourcesInv, UnopenedDrainNothing, PicksAreOnce, Conns
  <2>4. \A u \in Conns : (drain'[u] = drain[u]) \/ (drain[u] = "none" /\ drain'[u] = "asked")
    BY <2>1, <2>2
  <2>5. ASSUME NEW m PROVE (\A u \in Conns : Reads(u, m)' <=> Reads(u, m))
                           /\ (Sent(m)' <=> Sent(m)) /\ (Polled(m)' <=> Polled(m))
    BY <2>1, <2>4 DEF Reads, Sent, Polled, Picked
  <2>6. ASSUME NEW m \in Messages, m \notin repeated' PROVE OneSource(m)'
    <3>1. OneSource(m)
      BY <2>1, <2>6 DEF SourcesInv
    <3> QED BY <2>1, <2>5, <3>1, CopiesKept DEF OneSource
  <2> QED BY <2>3, <2>6 DEF SourcesInv
<1>2. ASSUME NEW s \in Conns, Leave(s) PROVE SourcesInv'
  BY <1>2, CopiesKept, SourcesKept DEF Leave, tableVars, drainVars, pollVars
<1>3. ASSUME NEW s \in Conns, Drop(s) PROVE SourcesInv'
  <2>1. UNCHANGED <<opened, handled, hook, status, drain, picked, poll, polled, repeated>>
    BY <1>3 DEF Drop, tableVars, drainVars, pollVars
  <2>2. (\A m : OnWire(m)' => OnWire(m)) /\ (\A m : OnceOnWire(m) => OnceOnWire(m)')
    BY <1>3, DropIs DEF RowsInv
  <2>3. \A m \in Messages : (OneCopy(m) => OneCopy(m)') /\ (NoCopy(m) => NoCopy(m)')
    BY <2>1, <2>2 DEF OneCopy, NoCopy
  <2> QED BY <2>1, <2>3, SourcesKept
<1>4. ASSUME NEW s \in Conns, Closed(s) PROVE SourcesInv'
  BY <1>4, CopiesKept, SourcesKept DEF Closed, tableVars, drainVars, pollVars
<1> QED BY <1>1, <1>2, <1>3, <1>4

LEMMA SourcesSent ==
  ASSUME RowsInv, NEW s \in Conns, NEW ms \in Seq(Messages), Send(s, ms),
         handled' = handled, NEW m
  PROVE  /\ m \notin ToSet(ms) => (OneCopy(m) => OneCopy(m)') /\ (NoCopy(m) => NoCopy(m)')
         /\ IsInjective(ms) /\ NoCopy(m) => OneCopy(m)'
BY SendIs DEF RowsInv, OneCopy, NoCopy

LEMMA SourcesWebhook ==
  ASSUME RowsInv, SourcesInv, NEW n \in Messages, Webhook(n)
  PROVE  SourcesInv'
<1>1. UNCHANGED <<opened, status, drain, picked, poll, polled, handled, repeated>>
  BY DEF Webhook, socketVars, tableVars, drainVars, pollVars
<1>2. /\ hook[n] = "due" /\ hook' \in [Messages -> {"due", "pushed", "unpushed", "over"}]
      /\ \A m \in Messages : m # n => hook'[m] = hook[m]
      /\ hook'[n] = (IF Reachable THEN "pushed" ELSE "unpushed")
  BY DEF RowsInv, TypeOK, Webhook
<1>3. status[n] = "none"
  BY <1>2 DEF RowsInv, TypeOK, RowsComeLast
<1>4. CASE Reachable
  <2>1. /\ registered \in Conns /\ <<n>> \in Seq(Messages) /\ Send(registered, <<n>>)
        /\ ToSet(<<n>>) = {n} /\ IsInjective(<<n>>)
    BY <1>4, WebhookSends
  <2>2. ASSUME NEW m \in Messages, m \notin repeated' PROVE OneSource(m)'
    <3>1. OneSource(m)
      BY <1>1, <2>2 DEF SourcesInv
    <3>2. CASE m # n
      <4>1. (OneCopy(m) => OneCopy(m)') /\ (NoCopy(m) => NoCopy(m)')
        BY <1>1, <2>1, <3>2, SourcesSent
      <4> QED BY <1>1, <1>2, <3>1, <3>2, <4>1, ReadersKept DEF OneSource
    <3>3. CASE m = n
      <4>1. NoCopy(n)
        BY <1>2, <3>1, <3>3 DEF OneSource
      <4>2. OneCopy(n)'
        BY <1>1, <2>1, <4>1, SourcesSent
      <4> QED BY <1>1, <1>2, <1>3, <1>4, <3>1, <3>3, <4>2, ReadersKept DEF OneSource
    <3> QED BY <3>2, <3>3
  <2> QED BY <1>1, <2>2, PicksKept DEF SourcesInv
<1>5. CASE ~Reachable
  <2>1. wire' = wire
    BY <1>5 DEF Webhook
  <2>2. ASSUME NEW m \in Messages, m \notin repeated' PROVE OneSource(m)'
    <3>1. OneSource(m)
      BY <1>1, <2>2 DEF SourcesInv
    <3> QED BY <1>1, <1>2, <1>5, <2>1, <3>1, ReadersKept, CopiesKept DEF OneSource
  <2> QED BY <1>1, <2>2, PicksKept DEF SourcesInv
<1> QED BY <1>4, <1>5

LEMMA SourcesInsert ==
  ASSUME RowsInv, SourcesInv, NEW n \in Messages, Insert(n) \/ RouteFails(n) \/ InsertFails(n)
  PROVE  SourcesInv'
<1>1. UNCHANGED <<opened, drain, picked, poll, polled, wire, handled>>
      /\ repeated \subseteq repeated'
  BY DEF Insert, RouteFails, InsertFails, Repeating, socketVars, drainVars, pollVars
<1>2. /\ hook[n] \in {"pushed", "unpushed"}
      /\ hook' \in [Messages -> {"due", "pushed", "unpushed", "over"}]
      /\ \A m \in Messages : m # n => hook'[m] = hook[m] /\ status'[m] = status[m]
      /\ status'[n] = "pending" => hook[n] = "unpushed"
      /\ hook'[n] = "over" \/ (hook'[n] = "due" /\ (hook[n] = "unpushed" \/ n \in repeated'))
  <2>1. CASE Insert(n)
    BY <2>1 DEF RowsInv, TypeOK, Insert, StatusOf
  <2>2. CASE RouteFails(n) \/ InsertFails(n)
    BY <2>2 DEF RowsInv, TypeOK, RowsComeLast, RouteFails, InsertFails, Repeating, tableVars
  <2> QED BY <2>1, <2>2
<1>3. status[n] = "none"
  BY <1>2 DEF RowsInv, TypeOK, RowsComeLast
<1>4. ASSUME NEW m \in Messages, m \notin repeated' PROVE OneSource(m)'
  <2>1. OneSource(m)
    BY <1>1, <1>4 DEF SourcesInv
  <2>2. CASE m # n
    BY <1>1, <1>2, <2>1, <2>2, ReadersKept, CopiesKept DEF OneSource
  <2>3. CASE m = n
    <3>1. ~Polled(n) /\ \A s \in Conns : ~Reads(s, n)
      BY <1>3, <2>1, <2>3 DEF OneSource
    <3>2. hook[n] = "unpushed" => NoCopy(n)
      BY <2>1, <2>3 DEF OneSource
    <3>3. OneCopy(n)
      BY <2>1, <2>3 DEF OneSource
    <3> QED BY <1>1, <1>2, <1>4, <2>3, <3>1, <3>2, <3>3, ReadersKept, CopiesKept DEF OneSource
  <2> QED BY <2>2, <2>3
<1> QED BY <1>1, <1>4, PicksKept DEF SourcesInv

LEMMA SourcesDrainRead ==
  ASSUME RowsInv, SourcesInv, NEW s \in Conns, DrainRead(s)
  PROVE  SourcesInv'
<1>0. PICK old : old = OldestPending(TakeRelay)
  OBVIOUS
<1>1. /\ old \in Seq(Messages) /\ IsInjective(old)
      /\ \A m \in ToSet(old) : status[m] = "pending"
  BY <1>0, OldestPendingIs, RelayTypes DEF RowsInv, Pending
<1>2. /\ drain[s] = "asked"
      /\ picked' = [picked EXCEPT ![s] = old]
      /\ drain' = [drain EXCEPT ![s] = IF old = <<>> THEN "over" ELSE "read"]
      /\ repeated' = repeated \cup Shared(ToSet(old))
      /\ UNCHANGED <<opened, wire, hook, status, poll, polled, handled>>
  BY <1>0 DEF DrainRead, Repeating, socketVars, tableVars, pollVars
<1>3. drain \in [Conns -> {"none", "asked", "read", "sent", "over", "aborted"}]
      /\ picked \in [Conns -> Seq(Messages)]
  BY DEF RowsInv, TypeOK
<1>4. ToSet(<<>>) = {}
  BY DEF ToSet
<1>5. UnopenedDrainNothing' /\ PicksAreOnce'
  BY <1>1, <1>2, <1>3 DEF SourcesInv, UnopenedDrainNothing, PicksAreOnce
<1>6. ASSUME NEW m \in Messages
      PROVE  /\ \A u \in Conns : u # s => (Reads(u, m)' <=> Reads(u, m))
             /\ ~Reads(s, m) /\ (Reads(s, m)' <=> m \in ToSet(old))
             /\ (Sent(m)' <=> Sent(m)) /\ (Polled(m)' <=> Polled(m))
  BY <1>2, <1>3, <1>4 DEF Reads, Sent, Polled, Picked
<1>7. ASSUME NEW m \in Messages, m \notin repeated' PROVE OneSource(m)'
  <2>1. OneSource(m)
    BY <1>2, <1>7 DEF SourcesInv
  <2>2. (OneCopy(m)' <=> OneCopy(m)) /\ (NoCopy(m)' <=> NoCopy(m))
    BY <1>2, CopiesKept
  <2>3. CASE m \notin ToSet(old)
    BY <1>2, <1>6, <2>1, <2>2, <2>3 DEF OneSource
  <2>4. CASE m \in ToSet(old)
    <3>1. ~Polled(m) /\ \A u \in Conns : ~Reads(u, m)
      BY <1>2, <1>7, <2>4 DEF Shared, Drained, Reads, Picked
    <3> QED BY <1>1, <1>2, <1>6, <2>1, <2>2, <2>4, <3>1 DEF OneSource
  <2> QED BY <2>3, <2>4
<1> QED BY <1>5, <1>7 DEF SourcesInv

LEMMA SourcesDrainSend ==
  ASSUME RowsInv, SourcesInv, NEW s \in Conns, DrainSend(s)
  PROVE  SourcesInv'
<1>1. /\ drain[s] = "read" /\ Send(s, picked[s])
      /\ drain' = [drain EXCEPT ![s] = "sent"]
      /\ UNCHANGED <<opened, hook, status, picked, poll, polled, handled, repeated>>
  BY DEF DrainSend, socketVars, tableVars, pollVars
<1>2. drain \in [Conns -> {"none", "asked", "read", "sent", "over", "aborted"}]
      /\ picked[s] \in Seq(Messages) /\ IsInjective(picked[s])
  BY DEF RowsInv, TypeOK, SourcesInv, PicksAreOnce
<1>3. UnopenedDrainNothing' /\ PicksAreOnce'
  BY <1>1, <1>2 DEF SourcesInv, UnopenedDrainNothing, PicksAreOnce
<1>4. ASSUME NEW m \in Messages
      PROVE  /\ \A u \in Conns : Reads(u, m)' <=> Reads(u, m)
             /\ (Sent(m)' <=> Sent(m) \/ m \in Picked(s)) /\ (Polled(m)' <=> Polled(m))
             /\ m \in Picked(s) => Reads(s, m)
  BY <1>1, <1>2 DEF Reads, Sent, Polled, Picked
<1>5. ASSUME NEW m \in Messages, m \notin repeated' PROVE OneSource(m)'
  <2>1. OneSource(m)
    BY <1>1, <1>5 DEF SourcesInv
  <2>2. CASE m \notin Picked(s)
    <3>1. (OneCopy(m) => OneCopy(m)') /\ (NoCopy(m) => NoCopy(m)')
      BY <1>1, <1>2, <2>2, SourcesSent DEF Picked
    <3> QED BY <1>1, <1>4, <2>1, <2>2, <3>1 DEF OneSource
  <2>3. CASE m \in Picked(s)
    <3>1. Reads(s, m) /\ status[m] = "pending" /\ hook[m] = "over"
      BY <1>4, <2>1, <2>3 DEF OneSource, RowsInv, RowsComeLast
    <3>2. ~Sent(m)
      <4>1. \A u \in Conns : Reads(u, m) => u = s
        BY <2>1, <3>1 DEF OneSource
      <4> QED BY <1>1, <4>1 DEF Sent, Reads
    <3>3. NoCopy(m)
      BY <2>1, <3>1, <3>2 DEF OneSource
    <3>4. OneCopy(m)'
      BY <1>1, <1>2, <3>3, SourcesSent
    <3> QED BY <1>1, <1>4, <2>1, <2>3, <3>1, <3>4 DEF OneSource
  <2> QED BY <2>2, <2>3
<1> QED BY <1>3, <1>5 DEF SourcesInv

LEMMA SourcesDrainMark ==
  ASSUME RowsInv, SourcesInv, NEW s \in Conns, DrainMark(s)
  PROVE  SourcesInv'
<1>1. /\ drain[s] = "sent" /\ status' = Marked(Picked(s))
      /\ drain' = [drain EXCEPT ![s] = "over"] /\ picked' = [picked EXCEPT ![s] = <<>>]
      /\ UNCHANGED <<opened, wire, hook, poll, polled, handled, repeated>>
  BY DEF DrainMark, Picked, socketVars, pollVars
<1>2. drain \in [Conns -> {"none", "asked", "read", "sent", "over", "aborted"}]
      /\ picked \in [Conns -> Seq(Messages)]
  BY DEF RowsInv, TypeOK
<1>3. IsInjective(<<>>)
  BY DEF IsInjective
<1>4. UnopenedDrainNothing' /\ PicksAreOnce'
  BY <1>1, <1>2, <1>3 DEF SourcesInv, UnopenedDrainNothing, PicksAreOnce
<1>5. ASSUME NEW m \in Messages
      PROVE  /\ \A u \in Conns : u # s => (Reads(u, m)' <=> Reads(u, m))
             /\ ~Reads(s, m)' /\ (Reads(s, m) <=> m \in Picked(s))
             /\ (m \notin Picked(s) => (Sent(m)' <=> Sent(m))) /\ (Polled(m)' <=> Polled(m))
             /\ status'[m] = (IF m \in Picked(s) THEN "delivered" ELSE status[m])
  BY <1>1, <1>2 DEF Reads, Sent, Polled, Picked, Marked
<1>6. ASSUME NEW m \in Messages, m \notin repeated' PROVE OneSource(m)'
  <2>1. OneSource(m)
    BY <1>1, <1>6 DEF SourcesInv
  <2>2. (OneCopy(m)' <=> OneCopy(m)) /\ (NoCopy(m)' <=> NoCopy(m))
    BY <1>1, CopiesKept
  <2>3. CASE m \notin Picked(s)
    BY <1>1, <1>5, <2>1, <2>2, <2>3 DEF OneSource
  <2>4. CASE m \in Picked(s)
    <3>1. ~Polled(m) /\ status[m] = "pending" /\ \A u \in Conns : Reads(u, m) => u = s
      BY <1>5, <2>1, <2>4 DEF OneSource
    <3>2. hook[m] = "over"
      BY <3>1 DEF RowsInv, RowsComeLast
    <3> QED BY <1>1, <1>5, <2>1, <2>2, <2>4, <3>1, <3>2 DEF OneSource
  <2> QED BY <2>3, <2>4
<1> QED BY <1>4, <1>6 DEF SourcesInv

LEMMA SourcesPollRead ==
  ASSUME RowsInv, SourcesInv, PollRead
  PROVE  SourcesInv'
<1>0. PICK old : old = OldestPending(TakePoll)
  OBVIOUS
<1>1. \A m \in ToSet(old) : status[m] = "pending"
  BY <1>0, OldestPendingIs, RelayTypes DEF RowsInv, Pending
<1>2. /\ poll = "idle" /\ poll' = "read" /\ polled' = old
      /\ repeated' = repeated \cup Shared(ToSet(old))
      /\ UNCHANGED <<opened, wire, hook, status, drain, picked, handled>>
  BY <1>0 DEF PollRead, Repeating, socketVars, tableVars, drainVars
<1>3. ASSUME NEW m \in Messages
      PROVE  /\ \A u \in Conns : Reads(u, m)' <=> Reads(u, m)
             /\ (Sent(m)' <=> Sent(m)) /\ ~Polled(m) /\ (Polled(m)' <=> m \in ToSet(old))
  BY <1>2 DEF Reads, Sent, Polled, Picked
<1>4. ASSUME NEW m \in Messages, m \notin repeated' PROVE OneSource(m)'
  <2>1. OneSource(m)
    BY <1>2, <1>4 DEF SourcesInv
  <2>2. (OneCopy(m)' <=> OneCopy(m)) /\ (NoCopy(m)' <=> NoCopy(m))
    BY <1>2, CopiesKept
  <2>3. m \in ToSet(old) => \A u \in Conns : ~Reads(u, m)
    BY <1>2, <1>4 DEF Shared, Drained, Reads, Picked
  <2> QED BY <1>1, <1>2, <1>3, <2>1, <2>2, <2>3 DEF OneSource
<1> QED BY <1>2, <1>4, PicksKept DEF SourcesInv

LEMMA SourcesPollEnds ==
  ASSUME RowsInv, SourcesInv, NEW S, PollEnds(S)
  PROVE  SourcesInv'
<1>1. /\ poll = "read" /\ poll' = "idle" /\ status' = Marked(ToSet(polled))
      /\ UNCHANGED <<opened, wire, hook, drain, picked, repeated>>
  BY DEF PollEnds, socketVars, drainVars
<1>2. handled \in [Messages -> Nat]
  BY DEF RowsInv, TypeOK
<1>3. ASSUME NEW m \in Messages
      PROVE  /\ \A u \in Conns : Reads(u, m)' <=> Reads(u, m)
             /\ (Sent(m)' <=> Sent(m)) /\ (Polled(m) <=> m \in ToSet(polled)) /\ ~Polled(m)'
             /\ status'[m] = (IF m \in ToSet(polled) THEN "delivered" ELSE status[m])
             /\ handled'[m] \in {handled[m], handled[m] + 1}
             /\ m \notin ToSet(polled) => handled'[m] = handled[m]
  <2>1. (\A u \in Conns : Reads(u, m)' <=> Reads(u, m)) /\ (Sent(m)' <=> Sent(m))
    BY <1>1 DEF Reads, Sent, Picked
  <2>2. (Polled(m) <=> m \in ToSet(polled)) /\ ~Polled(m)'
    BY <1>1 DEF Polled
  <2>3. status'[m] = (IF m \in ToSet(polled) THEN "delivered" ELSE status[m])
    BY <1>1 DEF Marked
  <2>4. /\ handled'[m] \in {handled[m], handled[m] + 1}
        /\ m \notin ToSet(polled) => handled'[m] = handled[m]
    BY <1>2 DEF PollEnds
  <2> QED BY <2>1, <2>2, <2>3, <2>4
<1>4. ASSUME NEW m \in Messages
      PROVE  (OnWire(m)' <=> OnWire(m)) /\ (OnceOnWire(m)' <=> OnceOnWire(m))
  BY <1>1 DEF OnWire, OnceOnWire
<1>5. ASSUME NEW m \in Messages, m \notin repeated' PROVE OneSource(m)'
  <2>1. OneSource(m)
    BY <1>1, <1>5 DEF SourcesInv
  <2>2. CASE m \notin ToSet(polled)
    <3>1. (OneCopy(m)' <=> OneCopy(m)) /\ (NoCopy(m)' <=> NoCopy(m))
      BY <1>3, <1>4, <2>2 DEF OneCopy, NoCopy
    <3> QED BY <1>1, <1>3, <2>1, <2>2, <3>1 DEF OneSource
  <2>3. CASE m \in ToSet(polled)
    <3>1. status[m] = "pending" /\ \A u \in Conns : ~Reads(u, m)
      BY <1>3, <2>1, <2>3 DEF OneSource
    <3>2. NoCopy(m)
      BY <2>1, <3>1 DEF OneSource, Sent, Reads
    <3>3. OneCopy(m)'
      <4>1. OnceOnWire(m) /\ ~OnWire(m) /\ handled[m] = 0
        BY <2>1, <3>2 DEF OneSource, OneCopy, NoCopy
      <4> QED BY <1>3, <1>4, <4>1 DEF OneCopy
    <3>4. hook[m] = "over"
      BY <3>1 DEF RowsInv, RowsComeLast
    <3> QED BY <1>1, <1>3, <2>3, <3>1, <3>3, <3>4 DEF OneSource
  <2> QED BY <2>2, <2>3
<1> QED BY <1>1, <1>5, PicksKept DEF SourcesInv

LEMMA SourcesRestart ==
  ASSUME RowsInv, SourcesInv, Restart
  PROVE  SourcesInv'
<1>1. /\ UNCHANGED <<opened, wire, status, handled>> /\ poll' = "idle"
      /\ repeated' = repeated \cup {m \in Messages : hook[m] = "pushed" \/ Drained(m)}
      /\ \A m \in Messages : hook'[m] = (IF hook[m] = "over" THEN "over" ELSE "due")
  BY DEF Restart, Repeating, tableVars
<1>2. /\ \A s \in Conns : drain'[s] \notin {"read", "sent"} /\ picked'[s] = <<>>
      /\ \A s \in Conns : drain[s] = "none" => drain'[s] = "none"
  BY DEF Restart, RowsInv, TypeOK
<1>3. IsInjective(<<>>)
  BY DEF IsInjective
<1>4. UnopenedDrainNothing' /\ PicksAreOnce'
  BY <1>1, <1>2, <1>3 DEF SourcesInv, UnopenedDrainNothing, PicksAreOnce
<1>5. ASSUME NEW m PROVE ~Sent(m)' /\ ~Polled(m)' /\ \A s \in Conns : ~Reads(s, m)'
  BY <1>1, <1>2 DEF Sent, Polled, Reads
<1>6. ASSUME NEW m \in Messages, m \notin repeated' PROVE OneSource(m)'
  <2>1. OneSource(m) /\ hook[m] # "pushed" /\ ~Drained(m)
    BY <1>1, <1>6 DEF SourcesInv
  <2>2. ~Sent(m)
    BY <2>1 DEF Sent, Drained, Picked
  <2>3. (OneCopy(m)' <=> OneCopy(m)) /\ (NoCopy(m)' <=> NoCopy(m))
    BY <1>1, CopiesKept
  <2>4. hook[m] \in {"due", "unpushed", "over"}
    BY <2>1 DEF RowsInv, TypeOK
  <2> QED BY <1>1, <1>5, <2>1, <2>2, <2>3, <2>4 DEF OneSource
<1> QED BY <1>4, <1>6 DEF SourcesInv

LEMMA SourcesNext ==
  ASSUME RowsInv, SourcesInv, [Next]_vars
  PROVE  SourcesInv'
<1>1. CASE UNCHANGED vars
  BY <1>1, CopiesKept, SourcesKept DEF vars, socketVars, tableVars, drainVars, pollVars
<1>2. CASE Next
  BY <1>2, SourcesWebhook, SourcesInsert, SourcesDrainRead, SourcesDrainSend,
     SourcesDrainMark, SourcesPollRead, SourcesPollEnds, SourcesSockets, SourcesTake,
     SourcesRestart DEF Next, Poll, PollFails
<1> QED BY <1>1, <1>2

(* A message that was not repeated has at most one copy or one handling. *)
LEMMA OneCopyIsKnown == RowsInv /\ SourcesInv => RepeatsAreKnown
<1> SUFFICES ASSUME RowsInv, SourcesInv, NEW m \in Messages, m \notin repeated
             PROVE  ~(handled[m] + Cardinality(Copies(m)) > 1)
  BY DEF RepeatsAreKnown
<1>1. OneCopy(m) /\ handled[m] \in Nat
  BY DEF SourcesInv, OneSource, RowsInv, TypeOK
<1>2. \A p \in Copies(m) : \E s \in Conns : \E i \in DOMAIN wire[s] : p = <<s, i>> /\ wire[s][i] = m
  BY DEF Copies
<1>3. CASE Copies(m) = {}
  BY <1>1, <1>3, FS_EmptySet DEF OneCopy
<1>4. CASE Copies(m) # {}
  <2>1. PICK p : p \in Copies(m)
    BY <1>4
  <2>2. PICK s \in Conns : \E i \in DOMAIN wire[s] : p = <<s, i>> /\ wire[s][i] = m
    BY <1>2, <2>1
  <2>3. OnWire(m)
    BY <2>2 DEF OnWire, ToSet
  <2>4. \A q \in Copies(m) : q = p
    BY <1>1, <1>2, <2>1 DEF OneCopy, OnceOnWire
  <2>5. Copies(m) = {p}
    BY <2>1, <2>4
  <2>6. Cardinality(Copies(m)) = 1
    BY <2>5, FS_Singleton
  <2>7. handled[m] = 0
    BY <1>1, <2>3 DEF OneCopy
  <2> QED BY <2>6, <2>7
<1> QED BY <1>3, <1>4

(* A message is handled twice only if its provider repeated it, its        *)
(* delivery was tried again, or two readers took the same row              *)
(* (drainAndPushPending, drainPending, _post_local_channel_webhook).       *)
THEOREM RepeatsAreAlwaysKnown == Spec => []RepeatsAreKnown
<1>1. Init => RowsInv /\ SourcesInv
  BY RowsInit, SourcesInit
<1>2. RowsInv /\ SourcesInv /\ [Next]_vars => (RowsInv /\ SourcesInv)'
  BY RowsNext, SourcesNext
<1> QED BY <1>1, <1>2, OneCopyIsKnown, PTL DEF Spec

=============================================================================
