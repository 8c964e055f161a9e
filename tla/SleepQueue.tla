----------------------------- MODULE SleepQueue -----------------------------
(***************************************************************************)
(* What the sleep scheduler promises to the rest of the server, without    *)
(* its queue: an agent has at most one consolidation job, one job is in    *)
(* training at a time, only a waiting job can be withdrawn, and no waiting *)
(* job is starved by the jobs that keep arriving for other agents.         *)
(***************************************************************************)
CONSTANTS Agents, NoAgent

VARIABLES waiting,   \* the agents with a job that no worker has taken yet
          training   \* the agent the worker consolidates, or NoAgent

qvars == <<waiting, training>>

Init == /\ waiting = {}
        /\ training = NoAgent

Request(a) == /\ a \notin waiting
              /\ a # training
              /\ waiting' = waiting \cup {a}
              /\ UNCHANGED training

Withdraw(a) == /\ a \in waiting
               /\ waiting' = waiting \ {a}
               /\ UNCHANGED training

Train(a) == /\ training = NoAgent
            /\ a \in waiting
            /\ waiting' = waiting \ {a}
            /\ training' = a

Finish == /\ training # NoAgent
          /\ training' = NoAgent
          /\ UNCHANGED waiting

Next == \/ \E a \in Agents : Request(a) \/ Withdraw(a) \/ Train(a)
        \/ Finish

SafeSpec == Init /\ [][Next]_qvars

NoStarvation == \A a \in Agents : a \in waiting ~> a \notin waiting

Spec == SafeSpec /\ NoStarvation
=============================================================================
