------------------------------ MODULE Delivery ------------------------------
(***************************************************************************)
(* What the exchange promises the publisher of a message, whatever the     *)
(* machinery behind it: each delivery it has taken on is attempted at      *)
(* least once and at most as often as its queue allows, never again after  *)
(* the consumer has answered, and it is closed exactly when the consumer   *)
(* has answered or the attempts are used up.                               *)
(***************************************************************************)
EXTENDS Naturals

VARIABLE deliveries     \* key -> delivery, of every delivery ever taken on

Delivery == [limit : Nat, tries : Nat, answered : BOOLEAN, open : BOOLEAN]

(* A queue that allows no attempt is given one: the limit is looked at     *)
(* after an attempt has failed.                                            *)
Allowed(d) == IF d.limit = 0 THEN 1 ELSE d.limit

Exhausted(d) == d.tries = Allowed(d)

Init == deliveries = << >>

(* A message is accepted: deliveries are added, and no other is touched. *)
Accept ==
    /\ DOMAIN deliveries # DOMAIN deliveries'
    /\ \A k \in DOMAIN deliveries :
          k \in DOMAIN deliveries' /\ deliveries'[k] = deliveries[k]
    /\ \A k \in DOMAIN deliveries' \ DOMAIN deliveries :
          deliveries'[k] \in [limit : Nat, tries : {0}, answered : {FALSE}, open : {TRUE}]

Attempt(k) ==
    /\ deliveries[k].open
    /\ ~ deliveries[k].answered
    /\ ~ Exhausted(deliveries[k])
    /\ \E answer \in BOOLEAN :
          deliveries' = [deliveries EXCEPT ![k].tries = @ + 1, ![k].answered = answer]

Close(k) ==
    /\ deliveries[k].open
    /\ deliveries[k].answered \/ Exhausted(deliveries[k])
    /\ deliveries' = [deliveries EXCEPT ![k].open = FALSE]

Next ==
    \/ Accept
    \/ \E k \in DOMAIN deliveries : Attempt(k) \/ Close(k)

Spec == Init /\ [][Next]_deliveries
=============================================================================
