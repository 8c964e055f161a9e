---------------------------- MODULE ChannelRelay ----------------------------
(***************************************************************************)
(* The way of a channel message from a provider to one agent's desktop:    *)
(* the webhook routes and relay sockets of the backend (channels.service,  *)
(* channels.controller, main.ts), the clients that keep a socket open      *)
(* (ChannelRelayClient of nls/runtime/channels.py, one for the agent and   *)
(* one per channel adapter) and the drain poller of the email adapter.     *)
(*                                                                         *)
(* A step is the code between two awaits.  The agent is in the backend's   *)
(* database.  A crash of the desktop is a Drop of each of its links, a     *)
(* lost reply of the poller and failed local deliveries.                   *)
(*                                                                         *)
(* Left out: GET pending/:agentId, a second way into drainPending for a    *)
(* signed-in user, which nothing in the repository calls.  What it read    *)
(* would count as delivered and never come to the desktop.                 *)
(***************************************************************************)
EXTENDS Naturals, Sequences, SequencesExt, FiniteSets

CONSTANTS
  Messages,    \* what the providers send
  Emails,      \* those that come by email
  NClients,    \* the relay clients of the agent on its desktop
  MaxConnects, \* bound: relay connections
  MaxFaults,   \* bound: faults
  TakeRelay,   \* rows one relay drain reads; 100 in the code
  TakePoll,    \* rows one poll reads; 50 in the code
  Attempts     \* deliveries to the local webhook; 6 in the code

ASSUME RelayAssumption ==
  /\ Emails \subseteq Messages
  /\ NClients \in Nat /\ MaxConnects \in Nat /\ MaxFaults \in Nat
  /\ TakeRelay \in Nat \ {0} /\ TakePoll \in Nat \ {0}
  /\ Attempts \in Nat \ {0}

Conns == 1..MaxConnects
NoConn == 0

VARIABLES
  opened,     \* how many connections were made
  registered, \* ChannelsService.relaySockets: the agent's socket
  server,     \* the socket of each connection on the backend
  linked,     \* the connections whose two ends still reach each other
  wire,       \* what was sent on each connection and not handled
  held,       \* the connections that a client of the agent is on
  hook,       \* the webhook request of each message
  rows,       \* PendingChannelMessage, in the order of creation
  status,     \* the status of each message's row
  drain,      \* drainAndPushPending of each connection
  picked,     \* the rows it read
  poll,       \* the poll of the email adapter
  polled,     \* the rows it read
  handled,    \* how often each message reached its local webhook
  faults,     \* how many faults there were
  lost,       \* history: the messages of which a copy was lost
  repeated    \* history: the messages of which a second copy may have been made

socketVars == <<opened, registered, server, linked, held>>
tableVars == <<rows, status>>
drainVars == <<drain, picked>>
pollVars == <<poll, polled>>
vars == <<socketVars, wire, hook, tableVars, drainVars, pollVars, handled,
          faults, lost, repeated>>

TypeOK ==
  /\ opened \in 0..MaxConnects
  /\ registered \in 0..opened
  /\ server \in [Conns -> {"none", "open", "closing", "closed"}]
  /\ linked \in SUBSET Conns
  /\ wire \in [Conns -> Seq(Messages)]
  /\ held \in SUBSET Conns
  /\ hook \in [Messages -> {"due", "pushed", "unpushed", "over"}]
  /\ rows \in Seq(Messages) /\ IsInjective(rows)
  /\ status \in [Messages -> {"none", "pending", "delivered"}]
  /\ \A m \in Messages : (m \in ToSet(rows)) = (status[m] # "none")
  /\ drain \in [Conns -> {"none", "asked", "read", "sent", "over", "aborted"}]
  /\ picked \in [Conns -> Seq(Messages)]
  /\ poll \in {"idle", "read"} /\ polled \in Seq(Messages)
  /\ handled \in [Messages -> Nat]
  /\ faults \in 0..MaxFaults
  /\ lost \in SUBSET Messages
  /\ repeated \in SUBSET Messages

Init ==
  /\ opened = 0 /\ registered = NoConn
  /\ server = [s \in Conns |-> "none"]
  /\ linked = {}
  /\ wire = [s \in Conns |-> <<>>]
  /\ held = {}
  /\ hook = [m \in Messages |-> "due"]
  /\ rows = <<>> /\ status = [m \in Messages |-> "none"]
  /\ drain = [s \in Conns |-> "none"] /\ picked = [s \in Conns |-> <<>>]
  /\ poll = "idle" /\ polled = <<>>
  /\ handled = [m \in Messages |-> 0]
  /\ faults = 0 /\ lost = {} /\ repeated = {}

-----------------------------------------------------------------------------
(* Sockets                                                                 *)

Fault == faults < MaxFaults /\ faults' = faults + 1

Losing(S) == lost' = lost \cup S
Repeating(S) == repeated' = repeated \cup S

(* ws.send of a sequence of messages.  A socket that is closing or closed  *)
(* swallows them without an exception, and so does one whose peer is gone. *)
Send(s, ms) ==
  IF server[s] = "open" /\ s \in linked
    THEN wire' = [wire EXCEPT ![s] = @ \o ms] /\ UNCHANGED lost
    ELSE Losing(ToSet(ms)) /\ UNCHANGED wire

(* registerRelaySocket: the socket that it replaces is asked to close. *)
Replaced(s) ==
  IF registered # NoConn /\ server[registered] = "open"
    THEN [server EXCEPT ![registered] = "closing", ![s] = "open"]
    ELSE [server EXCEPT ![s] = "open"]

(* A defect: a socket that is still open keeps its place. *)
RegisteredUnlessOpen(s) ==
  IF registered # NoConn /\ server[registered] = "open" THEN registered ELSE s

RegisteredAfter(s) == s

(* The _run_loop of a client connects; the backend registers the socket and     *)
(* starts a drain for it.                                                  *)
Connect ==
  LET s == opened + 1 IN
  /\ Cardinality(held) < NClients /\ opened < MaxConnects
  /\ opened' = s
  /\ server' = Replaced(s)
  /\ registered' = RegisteredAfter(s)
  /\ linked' = linked \cup {s}
  /\ held' = held \cup {s}
  /\ drain' = [drain EXCEPT ![s] = "asked"]
  /\ UNCHANGED <<wire, hook, tableVars, picked, pollVars, handled, faults, lost, repeated>>

(* The link breaks: the desktop has what it received so far, and a backend *)
(* that does not notice goes on taking the socket for open.                *)
Drop(s) ==
  /\ s \in linked /\ Fault
  /\ linked' = linked \ {s}
  /\ \E k \in 0..Len(wire[s]) :
       /\ wire' = [wire EXCEPT ![s] = SubSeq(@, 1, k)]
       /\ Losing(ToSet(SubSeq(wire[s], k + 1, Len(wire[s]))))
  /\ UNCHANGED <<opened, registered, server, held, hook, tableVars, drainVars,
                 pollVars, handled, repeated>>

(* The client has handled all it received and sees that its connection was *)
(* closed or lost; it will connect again.  A defect: it drops the rest.    *)
EndedAtOnce(s) == s \notin linked \/ server[s] = "closing"

Ended(s) == wire[s] = <<>> /\ (s \notin linked \/ server[s] = "closing")

Leave(s) ==
  /\ s \in held /\ Ended(s)
  /\ held' = held \ {s}
  /\ linked' = linked \ {s}
  /\ UNCHANGED <<opened, registered, server, wire, hook, tableVars, drainVars,
                 pollVars, handled, faults, lost, repeated>>

(* The backend's close event: removeRelaySocket, for the agent whatever    *)
(* socket it has by now.                                                   *)
Closed(s) ==
  /\ server[s] \in {"open", "closing"} /\ s \notin linked
  /\ server' = [server EXCEPT ![s] = "closed"]
  /\ registered' = NoConn
  /\ UNCHANGED <<opened, linked, wire, held, hook, tableVars, drainVars, pollVars,
                 handled, faults, lost, repeated>>

-----------------------------------------------------------------------------
(* The webhook routes                                                      *)

Reachable == registered # NoConn /\ server[registered] = "open"

(* pushToRelayByAgentId, before the row is written. *)
Webhook(m) ==
  /\ hook[m] = "due"
  /\ IF Reachable
       THEN /\ Send(registered, <<m>>)
            /\ hook' = [hook EXCEPT ![m] = "pushed"]
       ELSE /\ hook' = [hook EXCEPT ![m] = "unpushed"]
            /\ UNCHANGED <<wire, lost>>
  /\ UNCHANGED <<socketVars, tableVars, drainVars, pollVars, handled, faults, repeated>>

(* Two defects: the row holds the flag, or is always there to drain. *)
StatusIsFlag(m) == hook[m]
StatusPending(m) == "pending"

StatusOf(m) == IF hook[m] = "pushed" THEN "delivered" ELSE "pending"

(* queueMessage. *)
Insert(m) ==
  /\ hook[m] \in {"pushed", "unpushed"}
  /\ rows' = Append(rows, m)
  /\ status' = [status EXCEPT ![m] = StatusOf(m)]
  /\ hook' = [hook EXCEPT ![m] = "over"]
  /\ UNCHANGED <<socketVars, wire, drainVars, pollVars, handled, faults, lost, repeated>>

(* The email route fails if the row cannot be written, the generic one if  *)
(* the agent cannot be looked up: the provider sends the message again.    *)
RouteFails(m) ==
  /\ hook[m] \in {"pushed", "unpushed"} /\ Fault
  /\ hook' = [hook EXCEPT ![m] = "due"]
  /\ Repeating(IF hook[m] = "pushed" THEN {m} ELSE {})
  /\ UNCHANGED <<socketVars, wire, tableVars, drainVars, pollVars, handled, lost>>

(* The generic route reports success although the row cannot be written.   *)
InsertFails(m) ==
  /\ hook[m] \in {"pushed", "unpushed"} /\ m \notin Emails /\ Fault
  /\ hook' = [hook EXCEPT ![m] = "over"]
  /\ Losing(IF hook[m] = "unpushed" THEN {m} ELSE {})
  /\ UNCHANGED <<socketVars, wire, tableVars, drainVars, pollVars, handled, repeated>>

-----------------------------------------------------------------------------
(* drainAndPushPending                                                     *)

Pending(m) == status[m] = "pending"

PendingRows == {i \in DOMAIN rows : Pending(rows[i])}

(* As many of the pending rows, or all if there are fewer than n. *)
UpTo(n) == 1..IF n < Cardinality(PendingRows) THEN n ELSE Cardinality(PendingRows)

(* A defect: the latest first. *)
LatestPending(n) ==
  [k \in UpTo(n) |->
     rows[CHOOSE i \in PendingRows : Cardinality({j \in PendingRows : j > i}) = k - 1]]

OldestPending(n) ==
  [k \in UpTo(n) |->
     rows[CHOOSE i \in PendingRows : Cardinality({j \in PendingRows : j < i}) = k - 1]]

(* The rows that a drain or the poll has read and not yet marked. *)
Drained(m) == \E s \in Conns : drain[s] \in {"read", "sent"} /\ m \in ToSet(picked[s])
Polled(m) == poll = "read" /\ m \in ToSet(polled)
Shared(S) == {m \in S : Drained(m) \/ Polled(m)}

(* A defect: whatever is pending by now. *)
MarkedPending(S) == [m \in Messages |-> IF Pending(m) THEN "delivered" ELSE status[m]]

Marked(S) == [m \in Messages |-> IF m \in S THEN "delivered" ELSE status[m]]

DrainRead(s) ==
  /\ drain[s] = "asked"
  /\ picked' = [picked EXCEPT ![s] = OldestPending(TakeRelay)]
  /\ drain' = [drain EXCEPT ![s] = IF OldestPending(TakeRelay) = <<>> THEN "over" ELSE "read"]
  /\ Repeating(Shared(ToSet(OldestPending(TakeRelay))))
  /\ UNCHANGED <<socketVars, wire, hook, tableVars, pollVars, handled, faults, lost>>

DrainSend(s) ==
  /\ drain[s] = "read"
  /\ Send(s, picked[s])
  /\ drain' = [drain EXCEPT ![s] = "sent"]
  /\ UNCHANGED <<socketVars, hook, tableVars, picked, pollVars, handled, faults, repeated>>

DrainMark(s) ==
  /\ drain[s] = "sent"
  /\ status' = Marked(ToSet(picked[s]))
  /\ drain' = [drain EXCEPT ![s] = "over"]
  /\ picked' = [picked EXCEPT ![s] = <<>>]
  /\ UNCHANGED <<socketVars, wire, hook, rows, pollVars, handled, faults, lost, repeated>>

-----------------------------------------------------------------------------
(* The email adapter's poll of POST pending/drain                          *)

PollRead ==
  /\ poll = "idle" /\ OldestPending(TakePoll) # <<>>
  /\ poll' = "read" /\ polled' = OldestPending(TakePoll)
  /\ Repeating(Shared(ToSet(OldestPending(TakePoll))))
  /\ UNCHANGED <<socketVars, wire, hook, tableVars, drainVars, handled, faults, lost>>

(* The rows are marked, the reply goes out, and _drain_pending handles the *)
(* emails of it.  It passes over the rest, and nobody asks for that again. *)
(* The emails S are lost: the desktop had given up waiting for the reply,  *)
(* or fails on them.                                                       *)
PollEnds(S) ==
  LET emails == ToSet(polled) \cap Emails IN
  /\ poll = "read" /\ S \subseteq emails
  /\ status' = Marked(ToSet(polled))
  /\ handled' = [m \in Messages |-> handled[m] + IF m \in emails \ S THEN 1 ELSE 0]
  /\ Losing(ToSet(polled) \ (emails \ S))
  /\ poll' = "idle" /\ polled' = <<>>
  /\ UNCHANGED <<socketVars, wire, hook, rows, drainVars, repeated>>

Poll == PollEnds({}) /\ UNCHANGED faults
PollFails == \E S \in (SUBSET Emails) \ {{}} : PollEnds(S) /\ Fault

-----------------------------------------------------------------------------
(* The desktop                                                             *)

Take(s) ==
  /\ s \in held /\ wire[s] # <<>>
  /\ wire' = [wire EXCEPT ![s] = Tail(@)]
  /\ UNCHANGED <<socketVars, hook, tableVars, drainVars, pollVars>>

(* _handle_message: the local webhook takes the message, *)
Deliver(s) ==
  /\ Take(s)
  /\ handled' = [handled EXCEPT ![Head(wire[s])] = @ + 1]
  /\ UNCHANGED <<faults, lost, repeated>>

(* or takes it each time it does not answer in time, *)
DeliverAgain(s, n) ==
  /\ Take(s) /\ Fault
  /\ handled' = [handled EXCEPT ![Head(wire[s])] = @ + n]
  /\ Repeating({Head(wire[s])})
  /\ UNCHANGED lost

(* or never does. *)
GiveUp(s) ==
  /\ Take(s) /\ Fault
  /\ Losing({Head(wire[s])})
  /\ UNCHANGED <<handled, repeated>>

(* The backend goes down and comes back: a provider without an answer      *)
(* sends its message again.                                                *)
Restart ==
  /\ Fault
  /\ registered' = NoConn
  /\ server' = [s \in Conns |-> IF server[s] = "none" THEN "none" ELSE "closed"]
  /\ linked' = {}
  /\ hook' = [m \in Messages |-> IF hook[m] = "over" THEN "over" ELSE "due"]
  /\ drain' = [s \in Conns |->
                 IF drain[s] \in {"asked", "read", "sent"} THEN "aborted" ELSE drain[s]]
  /\ picked' = [s \in Conns |-> <<>>]
  /\ poll' = "idle" /\ polled' = <<>>
  /\ Repeating({m \in Messages : hook[m] = "pushed" \/ Drained(m)})
  /\ UNCHANGED <<opened, wire, held, tableVars, handled, lost>>

-----------------------------------------------------------------------------

Next ==
  \/ Connect
  \/ \E m \in Messages : Webhook(m) \/ Insert(m) \/ RouteFails(m) \/ InsertFails(m)
  \/ \E s \in Conns :
       \/ Drop(s) \/ Closed(s) \/ DrainRead(s) \/ DrainSend(s) \/ DrainMark(s)
       \/ Leave(s) \/ Deliver(s) \/ GiveUp(s)
       \/ \E n \in 2..Attempts : DeliverAgain(s, n)
  \/ PollRead \/ Poll \/ PollFails
  \/ Restart

(* A drain runs to its end, and a client reads its socket.  Nothing is     *)
(* assumed of providers, networks or the poller.                           *)
Fairness ==
  /\ \A s \in Conns : WF_vars(DrainRead(s) \/ DrainSend(s) \/ DrainMark(s))
  /\ \A s \in Conns : WF_vars(Deliver(s) \/ Leave(s))

Spec == Init /\ [][Next]_vars /\ Fairness

-----------------------------------------------------------------------------
(* Properties                                                              *)

OnWire(m) == \E s \in Conns : m \in ToSet(wire[s])
Copies(m) == UNION {{s} \X {i \in DOMAIN wire[s] : wire[s][i] = m} : s \in Conns}
Arrives(m) == handled[m] > 0 \/ OnWire(m)

(* A message whose webhook was answered never vanishes between the socket, *)
(* the table, a drain and the poll: it is still pending, or on its way, or *)
(* handled, or one of the known ways to lose it took a copy.               *)
NothingVanishes ==
  \A m \in Messages : hook[m] = "over" =>
    status[m] = "pending" \/ Arrives(m) \/ m \in lost

(* Webhooks, chat requests and HTTP calls go to the newest connection of   *)
(* the agent or to none: a socket that was replaced never comes back.      *)
NewestIsRegistered == registered \in {NoConn, opened}

(* A message reaches the desktop once, unless two drains, or a drain and   *)
(* the poll, had its row at the same time, its provider sent it again, its *)
(* drain was cut short, or the local webhook answered too late.            *)
RepeatsAreKnown ==
  \A m \in Messages : handled[m] + Cardinality(Copies(m)) > 1 => m \in repeated

(* The rows that a new connection finds first in the table are marked as   *)
(* delivered in the end, unless the backend restarts.                      *)
ConnectingDrains ==
  \A s \in Conns, m \in Messages :
    (drain[s] = "asked" /\ m \in ToSet(OldestPending(TakeRelay)))
      ~> (status[m] = "delivered" \/ drain[s] = "aborted")

(* What a desktop received is handled in the end, even if the connection   *)
(* it came on is replaced or lost meanwhile.                               *)
ReceivedIsHandled ==
  \A m \in Messages : OnWire(m) ~> (handled[m] > 0 \/ m \in lost)

(* Said of the code, and false: channels.service.ts:16 has relaySockets    *)
(* hold the connected sockets.  The late close event of a replaced socket  *)
(* removes the entry of its successor.                                     *)
ConnectedIsRegistered ==
  (\E s \in Conns : server[s] = "open" /\ s \in linked) => registered # NoConn

(* Said of the code, and false: channels.controller.ts:70-73 has what is  *)
(* not delivered stay in the queue for the desktop.  The email poller      *)
(* takes messages of every channel and throws away the others.             *)
DeliveredArrives ==
  \A m \in Messages : status[m] = "delivered" => Arrives(m) \/ Polled(m)

=============================================================================
