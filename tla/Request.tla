------------------------------ MODULE Request ------------------------------
(* One HTTP request through the exchange: the rules that inspect it in the  *)
(* order of their priority, the rules and the handler of its resource, the  *)
(* calls of the handler to the repository, and the reply, which is composed *)
(* from values that the rules left in the session.                          *)
EXTENDS Naturals, FiniteSets, Sequences

CONSTANT Requests   \* the requests that are made: members of Request

VARIABLES
    request,    \* the request
    pending,    \* rules still to run
    session,    \* names of the session that have a value
    stage,      \* where the request is
    read,       \* names of the session that were read
    stored,     \* the repository was changed
    replies     \* status codes of the replies

vars == << request, pending, session, stage, read, stored, replies >>

(* What a request is for. *)
Keyed == {"queue", "subscription"}
Collections == {"queues", "subscriptions"}
Publishing == {"messages", "queue_messages"}
Targets == Keyed \cup Collections \cup Publishing \cup {"message", "asterisk", "unknown"}

(* Methods that have a handler somewhere, and one that has none. *)
Supported == {"GET", "HEAD", "POST", "PUT", "DELETE", "OPTIONS"}
Methods == Supported \cup {"PATCH"}

(* What may be wrong with a request, or with the repository when it arrives. *)
Negotiation == {"accept", "accept_charset", "accept_encoding", "accept_language"}
Entity == {"no_type", "content_type", "content_encoding"}
Content == {"malformed", "several", "reserved", "invalid", "bad_key"}
Stored == {"missing", "missing_queue", "unreadable", "conflict", "capacity",
           "too_large", "states"}
Defects == Negotiation \cup Entity \cup Content \cup Stored
           \cup {"version", "host", "expect", "length", "checksum", "fault"}

(* entity: there is a body, with Content-Length and Content-MD5 to match,    *)
(* but for the defects "length" (the former is no number) and "checksum".    *)
(* idle: a PUT that changes nothing, a message that nobody subscribed to.    *)
Request == [target : Targets, method : Methods, defects : SUBSET Defects,
            entity : BOOLEAN, idle : BOOLEAN]

ASSUME RequestsAssumption == Requests \subseteq Request

Has(defect) == defect \in request.defects

(* Faulty variant: the checksum is not ordered after the length. *)
PriorityTied ==
    [echo |-> 0, style |-> 0, accept |-> 1, accept_charset |-> 2,
     accept_encoding |-> 3, accept_language |-> 3, version |-> 4, host |-> 4,
     expect |-> 4, content_length |-> 5, content_md5 |-> 5, range |-> 6,
     filters |-> 99, fields |-> 99, paging |-> 99]

(* setup_ruleset: rules of the service with their priority. *)
Priority ==
    [echo |-> 0, style |-> 0, accept |-> 1, accept_charset |-> 2,
     accept_encoding |-> 3, accept_language |-> 3, version |-> 4, host |-> 4,
     expect |-> 4, content_length |-> 5, content_md5 |-> 6, range |-> 6,
     filters |-> 99, fields |-> 99, paging |-> 99]

ServiceRules == DOMAIN Priority

(* The rules of the resources: setup_queue_resource to                       *)
(* setup_subscriptions_resource.  They all have the same priority.           *)
ResourceRules(target) ==
    CASE target \in Keyed -> {"key", "content_type", "content_encoding"}
      [] target \in Collections -> {"keys", "content_type", "content_encoding"}
      [] target \in Publishing -> {"key", "keys"}
      [] target = "message" -> {"key"}
      [] OTHER -> {}

(* Their handlers. *)
Allowed(target) ==
    CASE target \in Keyed -> {"GET", "HEAD", "PUT", "DELETE", "OPTIONS"}
      [] target \in Collections -> {"GET", "HEAD", "POST", "DELETE", "OPTIONS"}
      [] target \in Publishing -> {"POST", "OPTIONS"}
      [] OTHER -> {"OPTIONS"}

TypeOK ==
    /\ request \in Requests
    /\ pending \subseteq ServiceRules
                         \cup {"key", "keys", "content_type", "content_encoding"}
    /\ stage \in {"rules", "fetch", "route", "resource_rules", "handle", "lookup",
                  "store", "queues", "subscriptions", "message", "states", "closed"}
    /\ stored \in BOOLEAN
    /\ replies \in Seq({200, 201, 202, 204, 400, 404, 405, 406, 409, 411, 413, 415,
                        417, 500, 501, 503, 505})

Init ==
    /\ request \in Requests
    /\ pending = ServiceRules
    /\ session = {}
    /\ stage = "rules"
    /\ read = {}
    /\ stored = FALSE
    /\ replies = << >>

-----------------------------------------------------------------------------
(* Replies: ErrorHandlerImpl, and the callbacks that answer with resources.  *)

(* What composing a body takes from the session, and closing with or without *)
(* it.  ContentType::make has a default for each of its values.              *)
Composed == {"accept-format", "style", "echo"}

Close(code, names) ==
    /\ replies' = Append(replies, code)
    /\ read' = read \cup names
    /\ stage' = "closed"
    /\ pending' = {}
    /\ UNCHANGED request

MethodNotAllowed == Close(405, Composed)
MethodNotImplemented == Close(501, Composed)
Conflict == Close(409, Composed)
NotFound == Close(404, Composed)
BadRequest == Close(400, Composed)
LengthRequired == Close(411, Composed)
ExpectationFailed == Close(417, Composed)
ServiceUnavailable == Close(503, Composed)
UnsupportedMediaType == Close(415, Composed)
RequestEntityTooLarge == Close(413, Composed)
HttpVersionNotSupported == Close(505, Composed)

(* Faulty variant: the format is taken for granted. *)
NotAcceptableComposed == Close(406, Composed)

(* The one that may come before a format is known: then it is plain text.    *)
NotAcceptable ==
    Close(406, {"echo"} \cup IF "accept-format" \in session THEN Composed ELSE {})

InternalServerError(status) == Close(status, {})

(* Faulty variant: the codes of the repository are not known. *)
FindAndInvokeForStatus(code) ==
    CASE code = 404 -> NotFound
      [] code = 409 -> Conflict
      [] OTHER -> InternalServerError(code)

(* A code that is not known becomes the status.                              *)
FindAndInvokeFor(code) ==
    CASE code \in {40004, 404} -> NotFound
      [] code = 405 -> MethodNotAllowed
      [] code \in {40009, 409} -> Conflict
      [] code = 400 -> BadRequest
      [] code = 501 -> MethodNotImplemented
      [] code = 411 -> LengthRequired
      [] code = 406 -> NotAcceptable
      [] code = 417 -> ExpectationFailed
      [] code = 415 -> UnsupportedMediaType
      [] OTHER -> InternalServerError(code)

-----------------------------------------------------------------------------
(* Rules.  A rule whose condition does not hold is passed over. *)

Turn(rule) ==
    /\ stage = "rules"
    /\ rule \in pending
    /\ \A other \in pending : Priority[rule] <= Priority[other]

ResourceTurn(rule) ==
    /\ stage = "resource_rules"
    /\ rule \in pending

(* callback( session ): on with the next rule. *)
Proceed(rule, names) ==
    /\ session' = session \cup names
    /\ pending' = pending \ {rule}
    /\ UNCHANGED << request, stage, read, stored, replies >>

(* Close keeps what condition or action set before. *)
Keep(names) == session' = session \cup names /\ UNCHANGED stored

Echo == Turn("echo") /\ Proceed("echo", {"echo"})

Style == Turn("style") /\ Proceed("style", {"style"})

Accept ==
    /\ Turn("accept")
    /\ IF Has("accept") THEN NotAcceptable /\ Keep({})
       ELSE Proceed("accept", {"accept-format", "accept"})

AcceptCharset ==
    /\ Turn("accept_charset")
    /\ IF Has("accept_charset") THEN NotAcceptable /\ Keep({"charset"})
       ELSE Proceed("accept_charset", {"charset"})

AcceptEncoding ==
    /\ Turn("accept_encoding")
    /\ IF Has("accept_encoding") THEN NotAcceptable /\ Keep({})
       ELSE Proceed("accept_encoding", {})

AcceptLanguage ==
    /\ Turn("accept_language")
    /\ IF Has("accept_language") THEN NotAcceptable /\ Keep({})
       ELSE Proceed("accept_language", {})

Version ==
    /\ Turn("version")
    /\ IF Has("version") THEN HttpVersionNotSupported /\ Keep({})
       ELSE Proceed("version", {})

Host ==
    /\ Turn("host")
    /\ IF Has("host") THEN BadRequest /\ Keep({"host"})
       ELSE Proceed("host", {"host"})

(* Faulty variant: the request goes on after the reply. *)
ExpectOn ==
    /\ Turn("expect")
    /\ pending' = pending \ {"expect"}
    /\ replies' = IF Has("expect") THEN Append(replies, 417) ELSE replies
    /\ UNCHANGED << request, session, stage, read, stored >>

(* Any expectation fails, 100-continue too. *)
Expect ==
    /\ Turn("expect")
    /\ IF Has("expect") THEN ExpectationFailed /\ Keep({})
       ELSE Proceed("expect", {})

(* The body is awaited before the rules go on. *)
ContentLength ==
    /\ Turn("content_length")
    /\ IF Has("length") \/ (request.method \in {"PUT", "POST"} /\ ~ request.entity)
       THEN LengthRequired /\ Keep({})
       ELSE IF ~ request.entity THEN Proceed("content_length", {})
       ELSE /\ session' = session \cup {"content-length"}
            /\ stage' = "fetch"
            /\ UNCHANGED << request, pending, read, stored, replies >>

Fetched ==
    /\ stage = "fetch"
    /\ session' = session \cup {"body"}
    /\ pending' = pending \ {"content_length"}
    /\ stage' = "rules"
    /\ UNCHANGED << request, read, stored, replies >>

(* External: the client is gone, or too slow; the session ends unanswered. *)
Disconnect ==
    /\ stage = "fetch"
    /\ stage' = "closed"
    /\ pending' = {}
    /\ UNCHANGED << request, session, read, stored, replies >>

(* The checksum is that of the body that is there: of an empty one when the  *)
(* body was not fetched.                                                     *)
ContentMD5 ==
    /\ Turn("content_md5")
    /\ IF Has("checksum") \/ (request.entity /\ "body" \notin session)
       THEN BadRequest /\ Keep({})
       ELSE Proceed("content_md5", {})

(* Faulty variant: without callback( session ). *)
RangeStops ==
    /\ Turn("range")
    /\ stage' = "closed"
    /\ pending' = {}
    /\ UNCHANGED << request, session, read, stored, replies >>

(* Ranges are not supported, and ignored. *)
Range == Turn("range") /\ Proceed("range", {})

Filters ==
    Turn("filters") /\ Proceed("filters", {"filters", "inclusive_filters", "exclusive_filters"})

Fields == Turn("fields") /\ Proceed("fields", {"fields"})

Paging == Turn("paging") /\ Proceed("paging", {"paging"})

Key ==
    ResourceTurn("key") /\
    Proceed("key", IF request.target = "messages" THEN {} ELSE {"keys"})

Keys == ResourceTurn("keys") /\ Proceed("keys", {"keys"})

(* Only PUT and POST must have one; any other may. *)
ContentType ==
    /\ ResourceTurn("content_type")
    /\ IF Has("content_type") \/ (Has("no_type") /\ request.method \in {"PUT", "POST"})
       THEN UnsupportedMediaType /\ Keep({})
       ELSE Proceed("content_type",
                IF request.method \in {"PUT", "POST"} \/ (request.entity /\ ~ Has("no_type"))
                THEN {"content-format"} ELSE {})

ContentEncoding ==
    /\ ResourceTurn("content_encoding")
    /\ IF Has("content_encoding") THEN UnsupportedMediaType /\ Keep({})
       ELSE Proceed("content_encoding", {})

(* External: restbed looks for the resource, runs its rules, then looks for  *)
(* the handler of the method.                                                *)
Goto(next) ==
    /\ stage' = next
    /\ UNCHANGED << request, pending, session, stored, replies >>

Route ==
    /\ stage = "rules"
    /\ pending = {}
    /\ IF request.target = "unknown" THEN NotFound /\ Keep({})
       ELSE /\ stage' = "resource_rules"
            /\ pending' = ResourceRules(request.target)
            /\ UNCHANGED << request, session, read, stored, replies >>

FindMethod ==
    /\ stage = "resource_rules"
    /\ pending = {}
    /\ IF request.method \in Allowed(request.target) THEN Goto("handle") /\ UNCHANGED read
       ELSE /\ IF request.method \in Supported THEN MethodNotAllowed ELSE MethodNotImplemented
            /\ Keep({})

ServiceRule ==
    \/ Echo \/ Style \/ Accept \/ AcceptCharset \/ AcceptEncoding \/ AcceptLanguage
    \/ Version \/ Host \/ Expect \/ ContentLength \/ Fetched \/ Disconnect
    \/ ContentMD5 \/ Range \/ Filters \/ Fields \/ Paging

ResourceRule == Key \/ Keys \/ ContentType \/ ContentEncoding

-----------------------------------------------------------------------------
(* Handlers, up to the reply or to their next call of the repository.        *)

At(place, methods, targets) ==
    /\ stage = place
    /\ request.method \in methods
    /\ request.target \in targets

(* A call of the repository that fails, with the code of the defect. *)
Failed(defect) == Has(defect) \/ Has("fault")

Fails(defect, code) ==
    /\ FindAndInvokeFor(IF Has("fault") THEN 500 ELSE code)
    /\ Keep({})

Resources == Keyed \cup Collections

(* read_resource_handler, read_resource_callback *)
ReadResource ==
    /\ At("handle", {"GET", "HEAD"}, Resources)
    /\ IF Failed("missing") THEN Fails("missing", 40004)
       ELSE /\ IF request.method = "HEAD" THEN Close(204, {"accept-format", "style"})
               ELSE Close(200, Composed)
            /\ Keep({})

(* options_resource_handler *)
OptionsResource ==
    /\ At("handle", {"OPTIONS"}, Resources \cup Publishing \cup {"message"})
    /\ IF Failed("missing") THEN Fails("missing", 40004)
       ELSE Close(204, {}) /\ Keep({})

(* asterisk_resource_handler *)
OptionsAsterisk ==
    /\ At("handle", {"OPTIONS"}, {"asterisk"})
    /\ Close(204, {})
    /\ Keep({})

(* create_resource_handler: the body is parsed and validated.  A key that is *)
(* given must be well formed.                                                *)
CreateResource ==
    /\ At("handle", {"POST"}, Collections)
    /\ IF \E defect \in Content \ {"several"} : Has(defect)
       THEN /\ Close(400, Composed \cup {"content-format"})
            /\ Keep({})
       ELSE /\ Goto(IF request.target = "queues" THEN "store" ELSE "lookup")
            /\ read' = read \cup {"content-format"}

(* update_resource_handler: one resource, and its key is not to be given.   *)
UpdateResource ==
    /\ At("handle", {"PUT"}, Keyed)
    /\ IF \E defect \in Content : Has(defect)
       THEN /\ Close(400, Composed \cup {"content-format"})
            /\ Keep({})
       ELSE /\ Goto(IF request.target = "queue" THEN "store" ELSE "lookup")
            /\ read' = read \cup {"content-format"}

(* The queues of a subscription have been read, with their subscriptions.    *)
Lookup ==
    /\ stage = "lookup"
    /\ IF Failed("missing_queue") THEN Fails("missing_queue", 40004)
       ELSE IF Has("capacity") THEN ServiceUnavailable /\ Keep({})
       ELSE /\ Goto("store")
            /\ read' = read \cup {"paging", "keys", "fields", "inclusive_filters",
                                  "exclusive_filters"}

Change(code, names) ==
    /\ Close(code, names)
    /\ stored' = TRUE
    /\ UNCHANGED session

(* create_resource_callback.  Location::make reads the host. *)
StoreCreated ==
    /\ At("store", {"POST"}, Collections)
    /\ IF Failed("conflict") THEN Fails("conflict", 40009)
       ELSE Change(201, Composed \cup {"host"})

(* update_resource_callback *)
StoreUpdated ==
    /\ At("store", {"PUT"}, Keyed)
    /\ IF Failed("missing") THEN Fails("missing", 40004)
       ELSE IF request.idle THEN Close(204, {}) /\ Keep({})
       ELSE Change(200, Composed)

(* delete_resource_handler *)
DeleteResource ==
    /\ At("handle", {"DELETE"}, Resources)
    /\ IF Failed("missing") THEN Fails("missing", 40004)
       ELSE Change(204, {})

(* create_message_handler: any type of content is accepted, but there must   *)
(* be one.                                                                   *)
CreateMessage ==
    /\ At("handle", {"POST"}, Publishing)
    /\ IF Has("no_type") THEN UnsupportedMediaType /\ Keep({})
       ELSE Goto("queues") /\ UNCHANGED read

(* Faulty variant: the message is stored before it is compared with limits.  *)
QueuesReadStoring ==
    /\ stage = "queues"
    /\ stored' = ~ Failed("missing")
    /\ UNCHANGED session
    /\ IF Failed("missing") THEN FindAndInvokeFor(IF Has("fault") THEN 500 ELSE 40004)
       ELSE IF Has("too_large") THEN RequestEntityTooLarge
       ELSE IF Has("capacity") THEN ServiceUnavailable
       ELSE /\ stage' = "subscriptions"
            /\ UNCHANGED << request, pending, read, replies >>

(* create_message_and_read_queues_callback *)
QueuesRead ==
    /\ stage = "queues"
    /\ IF Failed("missing") THEN Fails("missing", 40004)
       ELSE IF Has("too_large") THEN RequestEntityTooLarge /\ Keep({})
       ELSE IF Has("capacity") THEN ServiceUnavailable /\ Keep({})
       ELSE Goto("subscriptions") /\ UNCHANGED read

(* create_message_and_read_subscriptions_callback: make_message reads the    *)
(* filters whether or not the message goes anywhere.                         *)
SubscriptionsRead ==
    /\ stage = "subscriptions"
    /\ IF Has("unreadable") THEN Fails("unreadable", 500)
       ELSE IF request.idle THEN Close(201, {"filters"}) /\ Keep({})
       ELSE /\ Goto("message")
            /\ read' = read \cup {"filters", "paging", "keys", "fields",
                                  "inclusive_filters", "exclusive_filters"}

(* create_message_callback: the message is stored, then its states.          *)
StoreMessage ==
    /\ stage = "message"
    /\ IF Failed("conflict") THEN Fails("conflict", 40009)
       ELSE /\ stored' = TRUE
            /\ stage' = "states"
            /\ UNCHANGED << request, pending, session, read, replies >>

StoreStates ==
    /\ stage = "states"
    /\ IF Has("states") THEN FindAndInvokeFor(40009)
       ELSE Close(202, {})
    /\ Keep({})

Handler ==
    \/ ReadResource \/ OptionsResource \/ OptionsAsterisk
    \/ CreateResource \/ UpdateResource \/ Lookup \/ StoreCreated \/ StoreUpdated
    \/ DeleteResource \/ CreateMessage \/ QueuesRead \/ SubscriptionsRead
    \/ StoreMessage \/ StoreStates

Next == ServiceRule \/ Route \/ ResourceRule \/ FindMethod \/ Handler

(* The worker runs what is there to run; the body arrives or the connection  *)
(* times out.                                                                *)
Spec == Init /\ [][Next]_vars /\ WF_vars(Next)

-----------------------------------------------------------------------------
(* Properties. *)

(* Nothing is read from the session that no rule has set before: neither by  *)
(* the replies, which may come as early as the first rules, nor by the       *)
(* handlers (error_handler_impl.cpp:52, exchange_impl.cpp:244-258, 494-502). *)
ReadsOnlyWhatIsSet == read \subseteq session

(* Nothing goes on after a reply, so there is no second one: a rule that     *)
(* refuses does not call back.                                               *)
RepliedOnce == Len(replies) <= 1

(* What a request of this kind is checked for. *)
Checked ==
    LET changing == request.method \in {"PUT", "POST"}
        publishing == request.target \in Publishing /\ request.method = "POST"
        subscribing == changing /\ request.target \in {"subscription", "subscriptions"}
    IN  Negotiation \cup {"version", "host", "expect", "length", "checksum"}
        \cup (IF request.target \in Resources
              THEN {"content_type", "content_encoding"} ELSE {})
        \cup (IF changing THEN {"no_type"} ELSE {})
        \cup (IF changing /\ ~ publishing
              THEN Content \ (IF request.method = "POST" THEN {"several"} ELSE {}) ELSE {})
        \cup (IF request.target # "asterisk" THEN {"fault"} ELSE {})
        \cup (IF publishing \/ (request.method # "POST" /\ request.target # "asterisk")
              THEN {"missing"} ELSE {})
        \cup (IF subscribing THEN {"missing_queue", "capacity"} ELSE {})
        \cup (IF publishing THEN {"too_large", "capacity", "unreadable"} ELSE {})
        \cup (IF publishing /\ ~ request.idle THEN {"states"} ELSE {})
        \cup (IF request.method = "POST" /\ ~ (publishing /\ request.idle)
              THEN {"conflict"} ELSE {})

Found == request.defects \cap Checked

(* What may be the matter when a code is answered. *)
Cause(code) ==
    /\ code = 400 => Found \cap ({"host", "checksum"} \cup Content) # {}
    /\ code = 404 => request.target = "unknown" \/ Found \cap {"missing", "missing_queue"} # {}
    /\ code = 405 => request.method \in Supported \ Allowed(request.target)
    /\ code = 406 => Found \cap Negotiation # {}
    /\ code = 409 => Found \cap {"conflict", "states"} # {}
    /\ code = 411 => "length" \in Found \/ ~ request.entity
    /\ code = 413 => "too_large" \in Found
    /\ code = 415 => Found \cap Entity # {}
    /\ code = 417 => "expect" \in Found
    /\ code = 500 => Found \cap {"fault", "unreadable"} # {}
    /\ code = 501 => request.method \notin Supported
    /\ code = 503 => "capacity" \in Found
    /\ code = 505 => "version" \in Found
    /\ code < 400 =>
          /\ Found = {}
          /\ request.method \in Allowed(request.target)
          /\ request.method \in {"PUT", "POST"} => request.entity

(* A refusal names something that is the matter with the request, and a      *)
(* request is accepted only when nothing is that such a request is checked   *)
(* for, whatever the order of rules of the same priority.                    *)
AnswerHasCause == \A i \in DOMAIN replies : Cause(replies[i])

(* A request that is refused has changed nothing, except that a message may  *)
(* be left without its states (exchange_impl.cpp:857-864).                   *)
RefusedStoresNothing ==
    stored => \A i \in DOMAIN replies : replies[i] >= 400 => Has("states")

(* Every request is answered, unless its body never arrives: no rule loses   *)
(* it, and the rules of one priority do not wait for each other.             *)
EveryRequestAnswered ==
    <>(\/ replies # << >>
       \/ stage = "closed" /\ request.entity /\ "body" \notin session)
=============================================================================
