----------------------------- MODULE MCDispatch -----------------------------
(* Instances of Dispatch for TLC.  Two messages; each of the two queues'   *)
(* limits matters: one message may be attempted twice per subscription,    *)
(* the other goes to a queue that forbids any attempt.                     *)
EXTENDS Dispatch, TLC

CONSTANTS m1, m2, s1, s2

To(s, n) == [subscription |-> s, attempts |-> n]

(* A retried pair of deliveries, and one that allows no attempt at all. *)
RetriedRoutes == m1 :> << To(s1, 2), To(s2, 2) >> @@ m2 :> << To(s1, 0) >>

(* One delivery per message. *)
OneEachRoutes == m1 :> << To(s1, 2) >> @@ m2 :> << To(s1, 1) >>

(* Workers are interchangeable: nothing orders or names them. *)
WorkerSymmetry == Permutations(Workers)

(* The liveness property, for the keys of these instances. *)
EveryKeyCloses == EveryDeliveryCloses(1 .. 3)
=============================================================================
