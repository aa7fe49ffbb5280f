----------------------------- MODULE Validator -----------------------------
(* ValidatorImpl: which resources of a client are refused.  A resource is a  *)
(* multimap, here a function from properties to the sequences of their       *)
(* values; only the first value of a property is ever looked at.             *)
EXTENDS Naturals, Sequences

CONSTANTS
    KeyPattern,   \* values that have the form of a key
    Numbers,      \* values that stoul takes
    Endpoints     \* values that are URIs of the scheme http

(* One property for the five numeric ones of a queue, which are alike: the   *)
(* limits of messages, message sizes and subscriptions, max-delivery-attempts *)
(* and redelivery-interval.                                                  *)
Limits == {"message-limit"}

has_invalid_key(value) == "key" \in DOMAIN value /\ value["key"][1] \notin KeyPattern

has_reserved_create_fields(value) ==
    DOMAIN value \cap {"type", "origin", "created", "revision", "modified"} # {}

has_reserved_update_fields(value) ==
    "key" \in DOMAIN value \/ has_reserved_create_fields(value)

invalid_endpoint(value) == value["endpoint"][1] \notin Endpoints

(* A subscription with a state is invalid whatever the state: it differs     *)
(* from one or from the other of the two that are meant to be allowed.       *)
has_invalid_create_fields(value, type) ==
    CASE type = "subscription" ->
            \/ "endpoint" \notin DOMAIN value
            \/ Len(value["endpoint"]) # 1
            \/ invalid_endpoint(value)
            \/ "state" \in DOMAIN value
      [] type = "queue" ->
            \/ \E p \in Limits \cap DOMAIN value : value[p][1] \notin Numbers
            \/ "pattern" \in DOMAIN value /\ value["pattern"][1] # "pub-sub"

(* Faulty variant: an update of a queue is taken as it comes. *)
lenient_update_fields(value, type) ==
    type = "subscription" /\ "endpoint" \in DOMAIN value /\ invalid_endpoint(value)

has_invalid_update_fields(value, type) ==
    IF type = "queue" THEN has_invalid_create_fields(value, type)
    ELSE "endpoint" \in DOMAIN value /\ invalid_endpoint(value)
=============================================================================
