---------------------------- MODULE MCRepository ----------------------------
(* An instance of Repository for TLC: two keys of queues, one of them in two *)
(* spellings, and two of subscriptions.                                      *)
EXTENDS Repository, TLC

Lowered(s) == IF s = "Q1" THEN "q1" ELSE s

Queue(key, zones) == "key" :> << key >> @@ "zones" :> zones

Subscription(key, queues) ==
    "key" :> << key >> @@ "queues" :> queues @@ "endpoint" :> << "http://a" >>

Ordered == << "key", "message-limit", "queues", "state", "type", "zones" >>

FromOf(name) ==
    SubSeq(Ordered, CHOOSE i \in DOMAIN Ordered : Ordered[i] = name, Len(Ordered))

(* One resource of each kind, two at once, one that is refused, and a key    *)
(* that is given to both resources of a request.  Zones that are the key of  *)
(* a subscription, and the type of a queue.                                  *)
ABody ==
    { [type |-> "queue", values |-> << >>],
      [type |-> "queue", values |-> << Queue("q1", << "s1" >>), Queue("q1", << "queue" >>) >>],
      [type |-> "queue", values |-> << "key" :> << "q2" >>, Queue("Q1", << "a", "c" >>) >>],
      [type |-> "queue", values |-> << "key" :> << "q2" >> @@ "message-limit" :> << "x" >> >>],
      [type |-> "subscription", values |-> << Subscription("s1", << "q1" >>) >>],
      [type |-> "subscription", values |-> << Subscription("s2", << "q1", "s1" >>) >>] }

(* Several values for a property, one that is the same but for its case, one *)
(* that is not a number, and no resource at all.                             *)
AChange ==
    { << "message-limit" :> << "5", "x" >> @@ "state" :> << "unreachable" >> >>,
      << "message-limit" :> << "x" >> >>, << "queues" :> << "Q1" >> >>,
      << "zones" :> << "a" >>, "zones" :> << "c" >> >>, << >> }

Everything == [keys |-> << >>, filters |-> << >>, index |-> 0, limit |-> 9, fields |-> {}]

Filter(name, item) == [name |-> name, comma |-> FALSE, items |-> << item >>]

ListFilter(name, items) == [name |-> name, comma |-> TRUE, items |-> items]

ASelection ==
    { Everything,
      [Everything EXCEPT !.keys = << "q1" >>],
      [Everything EXCEPT !.keys = << "s1" >>],
      [Everything EXCEPT !.keys = << "q2", "Q1" >>],
      [Everything EXCEPT !.keys = << "q1", "q1" >>],
      [Everything EXCEPT !.index = 1, !.limit = 1],
      [Everything EXCEPT !.limit = 0],
      [Everything EXCEPT !.fields = {"zones"}],
      [Everything EXCEPT !.fields = {"type"}],
      [Everything EXCEPT !.keys = << "q1" >>, !.fields = {"key", "message-limit", "type"}],
      [Everything EXCEPT !.filters = << Filter("zones", "a"), Filter("zones", "c") >>],
      [Everything EXCEPT !.filters = << ListFilter("key", << "Q1", "q2" >>),
                                        ListFilter("zones", << "c", "d" >>) >>],
      [Everything EXCEPT !.filters = << ListFilter("key", << "Q1" >>),
                                        ListFilter("type", << "x" >>),
                                        ListFilter("zones", << "c" >>) >>],
      [Everything EXCEPT !.filters = << ListFilter("key", << "Q1", "q1" >>),
                                        ListFilter("queues", << "Q1", "q2" >>),
                                        Filter("zones", "a") >>] }

(* The example of NETWORK-API.md:268: two tags. *)
BothTags ==
    { Everything, [Everything EXCEPT !.filters = << ListFilter("zones", << "a", "b" >>) >>] }
=============================================================================
