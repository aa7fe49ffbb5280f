------------------------------ MODULE MCBroker ------------------------------
(* Instances of Broker for TLC. *)
EXTENDS Broker, TLC

CONSTANTS q1, q2

(* No queues at all, one, or several.  The second one leaves a PUT of both *)
(* to replace what a subscription to one of them holds.                    *)
Lists == { << >>, << q1 >>, << q2 >>, << q1, q2 >> }

SingleLists == { << q1 >>, << q2 >> }

OneEach == q1 :> 1 @@ q2 :> 1

TwoAndOne == q1 :> 2 @@ q2 :> 1

(* Nothing orders or names workers, subscriptions or messages. *)
Interchangeable ==
    Permutations(Workers) \cup Permutations(Subscriptions) \cup Permutations(Messages)

(* Nor queues, where both have the same limits and lists are single. *)
InterchangeableQueues == Interchangeable \cup Permutations(Queues)
=============================================================================
