---------------------------- MODULE RequestProofs ----------------------------
(* Proofs about Request, for any set of requests: it is well typed, a reply  *)
(* comes at most once, nothing is read from the session before a rule has    *)
(* set it, and a refusal stores nothing.  The invariant says what is in the  *)
(* session at each stage: what the rules that have run leave there.          *)
EXTENDS Request, TLAPS

(* The values that replies and handlers read, by the rule that sets them.    *)
SetBy(name) ==
    CASE name = "echo" -> "echo"
      [] name = "style" -> "style"
      [] name = "accept-format" -> "accept"
      [] name = "host" -> "host"
      [] name \in {"filters", "inclusive_filters", "exclusive_filters"} -> "filters"
      [] name = "fields" -> "fields"
      [] name = "paging" -> "paging"

Names == Composed \cup {"host", "filters", "inclusive_filters", "exclusive_filters",
                        "fields", "paging"}

Subscribing == {"lookup", "store"}
Delivering == {"queues", "subscriptions", "message", "states"}
Handling == {"handle"} \cup Subscribing \cup Delivering

(* In the service's rules: those that have run have set their values.        *)
RulesInv ==
    stage \in {"rules", "fetch"} =>
        /\ pending \subseteq ServiceRules
        /\ \A name \in Names : SetBy(name) \notin pending => name \in session

(* After them: all of the values are set. *)
RoutedInv == stage \in {"resource_rules"} \cup Handling => Names \subseteq session

(* In the resource's rules. *)
ResourceInv ==
    stage = "resource_rules" =>
        /\ request.target \in Resources \cup Publishing =>
              "keys" \in session \/ (request.target # "messages" /\ "key" \in pending)
                                 \/ "keys" \in pending
        /\ request.target \in Resources /\ request.method \in {"PUT", "POST"} =>
              "content-format" \in session \/ "content_type" \in pending

(* In the handlers. *)
HandlerInv ==
    /\ stage \in Subscribing =>
          request.target \in Resources /\ request.method \in {"PUT", "POST"}
    /\ stage \in Delivering => request.target \in Publishing
    /\ stage \in Handling =>
          /\ pending = {}
          /\ request.target \in Resources \cup Publishing => "keys" \in session
          /\ request.target \in Resources /\ request.method \in {"PUT", "POST"} =>
                "content-format" \in session

(* The reply is the end, and what was stored before it was a message. *)
ReplyInv ==
    /\ stage # "closed" => replies = << >>
    /\ Len(replies) <= 1
    /\ stored => stage \in {"states", "closed"}
    /\ stored /\ stage = "closed" => \A i \in DOMAIN replies : replies[i] >= 400 => Has("states")

IInv ==
    /\ TypeOK
    /\ RulesInv
    /\ RoutedInv
    /\ ResourceInv
    /\ HandlerInv
    /\ ReplyInv
    /\ ReadsOnlyWhatIsSet

-----------------------------------------------------------------------------
LEMMA Priorities ==
    /\ ServiceRules = {"echo", "style", "accept", "accept_charset", "accept_encoding",
                       "accept_language", "version", "host", "expect", "content_length",
                       "content_md5", "range", "filters", "fields", "paging"}
    /\ Priority["echo"] = 0 /\ Priority["style"] = 0 /\ Priority["accept"] = 1
    /\ \A rule \in ServiceRules :
          /\ Priority[rule] \in Nat
          /\ rule \notin {"echo", "style", "accept"} => Priority[rule] >= 2
BY DEF Priority, ServiceRules

(* A rule after Accept finds all that a composed reply needs. *)
LEMMA ComposedReady ==
    ASSUME NEW rule \in ServiceRules, rule \notin {"echo", "style", "accept"},
           RulesInv, Turn(rule)
    PROVE  Composed \subseteq session
<1>1. ASSUME NEW first \in {"echo", "style", "accept"}, first \in pending
      PROVE  FALSE
    <2>1. Priority[rule] <= Priority[first]
        BY <1>1 DEF Turn
    <2>2. Priority[rule] \in Nat /\ Priority[rule] >= 2 /\ Priority[first] \in {0, 1}
        BY <1>1, Priorities
    <2> QED BY <2>1, <2>2
<1> QED
    BY <1>1 DEF RulesInv, Turn, SetBy, Names, Composed

(* Accept itself finds what NotAcceptable reads. *)
LEMMA EchoReady ==
    ASSUME RulesInv, Turn("accept")
    PROVE  {"echo", "style"} \subseteq session
<1>1. {"echo", "style"} \cap pending = {}
    BY Priorities DEF Turn, RulesInv
<1> QED
    BY <1>1 DEF RulesInv, Turn, SetBy, Names, Composed

Codes == {200, 201, 202, 204, 400, 404, 405, 406, 409, 411, 413, 415,
          417, 500, 501, 503, 505}

(* A reply: whatever is read is in the session, and the stage is the last.   *)
LEMMA Closes ==
    ASSUME IInv, NEW code \in Codes, NEW names, Close(code, names),
           names \subseteq session, session \subseteq session', stage # "closed",
           stored' \in BOOLEAN,
           stored' => (code >= 400 => Has("states"))
    PROVE  IInv'
<1>1. replies = << >> /\ replies' = << code >> /\ request' = request
    BY DEF Close, IInv, ReplyInv
<1>2. TypeOK'
    <2>1. << code >> \in Seq(Codes)
        BY SMT
    <2> QED BY <1>1, <2>1 DEF IInv, TypeOK, Close, Codes
<1>3. RulesInv' /\ RoutedInv' /\ ResourceInv' /\ HandlerInv'
    BY DEF Close, RulesInv, RoutedInv, ResourceInv, HandlerInv, Handling, Subscribing, Delivering
<1>4. ReplyInv'
    BY <1>1 DEF Close, ReplyInv, Has
<1>5. ReadsOnlyWhatIsSet'
    BY DEF Close, IInv, ReadsOnlyWhatIsSet
<1> QED BY <1>2, <1>3, <1>4, <1>5 DEF IInv

(* The same for a call of the repository that fails. *)
LEMMA Refuses ==
    ASSUME IInv, NEW defect, NEW code \in {40004, 40009, 500}, Fails(defect, code),
           Composed \subseteq session, stage # "closed", ~ stored
    PROVE  IInv'
<1>1. session' = session /\ stored' = stored
    BY DEF Fails, Keep
<1>2. \/ Close(404, Composed)
      \/ Close(409, Composed)
      \/ Close(500, {})
    BY DEF Fails, FindAndInvokeFor, NotFound, Conflict, InternalServerError
<1>3. stored \in BOOLEAN
    BY DEF IInv, TypeOK
<1> QED
    BY <1>1, <1>2, <1>3, Closes DEF Codes

(* A rule of the service that lets the request pass. *)
LEMMA Proceeds ==
    ASSUME IInv, NEW rule, NEW names, Turn(rule), Proceed(rule, names),
           \A name \in Names : SetBy(name) = rule => name \in names
    PROVE  IInv'
<1>1. TypeOK' /\ RoutedInv' /\ ResourceInv' /\ HandlerInv'
    BY DEF IInv, TypeOK, RoutedInv, ResourceInv, HandlerInv, Handling, Subscribing,
           Delivering, Turn, Proceed
<1>2. RulesInv'
    BY DEF IInv, RulesInv, Turn, Proceed
<1>3. ReplyInv' /\ ReadsOnlyWhatIsSet'
    BY DEF IInv, ReplyInv, ReadsOnlyWhatIsSet, Turn, Proceed, Has
<1> QED BY <1>1, <1>2, <1>3 DEF IInv

(* A rule of a resource that lets it pass. *)
LEMMA ResourceProceeds ==
    ASSUME IInv, NEW rule, NEW names, ResourceTurn(rule), Proceed(rule, names),
           rule = "key" /\ request.target # "messages" => "keys" \in names,
           rule = "keys" => "keys" \in names,
           rule = "content_type" /\ request.method \in {"PUT", "POST"} =>
               "content-format" \in names
    PROVE  IInv'
<1>1. TypeOK' /\ RulesInv' /\ RoutedInv' /\ HandlerInv'
    BY DEF IInv, TypeOK, RulesInv, RoutedInv, HandlerInv, Handling, Subscribing,
           Delivering, ResourceTurn, Proceed
<1>2. ResourceInv'
    BY DEF IInv, ResourceInv, ResourceTurn, Proceed
<1>3. ReplyInv' /\ ReadsOnlyWhatIsSet'
    BY DEF IInv, ReplyInv, ReadsOnlyWhatIsSet, ResourceTurn, Proceed, Has
<1> QED BY <1>1, <1>2, <1>3 DEF IInv

(* A handler goes on to its next call of the repository. *)
LEMMA Goes ==
    ASSUME IInv, NEW next \in Handling \ {"handle", "states"}, Goto(next),
           stage \in Handling \ {"states"},
           next \in Subscribing =>
               request.target \in Resources /\ request.method \in {"PUT", "POST"},
           next \in Delivering => request.target \in Publishing,
           read' \subseteq session
    PROVE  IInv'
<1>1. TypeOK' /\ RulesInv' /\ RoutedInv' /\ ResourceInv'
    BY DEF IInv, TypeOK, RulesInv, RoutedInv, ResourceInv, Handling, Subscribing,
           Delivering, Goto
<1>2. HandlerInv'
    BY DEF IInv, HandlerInv, Handling, Subscribing, Delivering, Goto
<1>3. ReplyInv' /\ ReadsOnlyWhatIsSet'
    BY DEF IInv, ReplyInv, ReadsOnlyWhatIsSet, Handling, Subscribing, Delivering, Goto, Has
<1> QED BY <1>1, <1>2, <1>3 DEF IInv

-----------------------------------------------------------------------------
LEMMA Initially == Init => IInv
<1> SUFFICES ASSUME Init PROVE IInv
    OBVIOUS
<1>1. TypeOK
    <2>1. << >> \in Seq({200, 201, 202, 204, 400, 404, 405, 406, 409, 411, 413, 415,
                        417, 500, 501, 503, 505})
        OBVIOUS
    <2>2. request \in Requests /\ stored \in BOOLEAN /\ replies = << >>
        BY DEF Init
    <2>3. stage = "rules" /\ pending = ServiceRules
        BY DEF Init
    <2> QED BY <2>1, <2>2, <2>3 DEF TypeOK
<1>2. RulesInv
    <2>1. \A name \in Names : SetBy(name) \in ServiceRules
        BY Priorities DEF Names, Composed, SetBy
    <2> QED BY <2>1 DEF Init, RulesInv
<1>3. RoutedInv /\ ResourceInv /\ HandlerInv
    BY DEF Init, RoutedInv, ResourceInv, HandlerInv, Handling, Subscribing, Delivering
<1>4. ReplyInv /\ ReadsOnlyWhatIsSet
    BY DEF Init, ReplyInv, ReadsOnlyWhatIsSet
<1> QED BY <1>1, <1>2, <1>3, <1>4 DEF IInv

(* The rules of the service, external steps among them. *)
LEMMA ServiceRuleStep ==
    ASSUME IInv, ServiceRule
    PROVE  IInv'
<1> USE DEF Codes
<1>0. stored \in BOOLEAN /\ (stage \in {"rules", "fetch"} => ~ stored)
    BY DEF IInv, TypeOK, ReplyInv
<1>1. CASE Echo
    BY <1>1, Proceeds DEF Echo, Names, Composed, SetBy
<1>2. CASE Style
    BY <1>2, Proceeds DEF Style, Names, Composed, SetBy
<1>3. CASE Accept
    <2>1. CASE Has("accept")
        <3>1. Turn("accept") /\ NotAcceptable /\ Keep({}) /\ stage = "rules"
            BY <1>3, <2>1 DEF Accept, Turn
        <3>2. PICK names : Close(406, names) /\ names \subseteq session
            <4>1. {"echo", "style"} \subseteq session
                BY <3>1, EchoReady DEF IInv
            <4> QED BY <3>1, <4>1 DEF NotAcceptable, Composed
        <3> QED BY <1>0, <3>1, <3>2, Closes DEF Keep
    <2>2. CASE ~ Has("accept")
        BY <1>3, <2>2, Proceeds DEF Accept, Names, Composed, SetBy
    <2> QED BY <2>1, <2>2
<1>4. ASSUME NEW rule \in ServiceRules \ {"echo", "style", "accept"}, Turn(rule),
             NEW code \in Codes, Close(code, Composed), NEW names, Keep(names)
      PROVE  IInv'
    <2>1. Composed \subseteq session /\ stage = "rules"
        BY <1>4, ComposedReady DEF IInv, Turn
    <2> QED BY <1>0, <1>4, <2>1, Closes DEF Keep
<1>5. ASSUME NEW rule \in ServiceRules \ {"echo", "style", "accept"}, Turn(rule),
             NotAcceptable, NEW names, Keep(names)
      PROVE  IInv'
    <2>1. Composed \subseteq session
        BY <1>5, ComposedReady DEF IInv
    <2>2. Close(406, {"echo"} \cup Composed) /\ {"echo"} \cup Composed = Composed
        BY <1>5, <2>1 DEF NotAcceptable, Composed
    <2>3. Close(406, Composed)
        BY <2>2
    <2>4. 406 \in Codes
        BY DEF Codes
    <2> QED BY <1>4, <1>5, <2>3, <2>4
<1>6. CASE AcceptCharset
    <2>1. CASE Has("accept_charset")
        BY <1>5, <1>6, <2>1, Priorities DEF AcceptCharset
    <2>2. CASE ~ Has("accept_charset")
        BY <1>6, <2>2, Proceeds DEF AcceptCharset, Names, Composed, SetBy
    <2> QED BY <2>1, <2>2
<1>7. CASE AcceptEncoding
    <2>1. CASE Has("accept_encoding")
        BY <1>5, <1>7, <2>1, Priorities DEF AcceptEncoding
    <2>2. CASE ~ Has("accept_encoding")
        BY <1>7, <2>2, Proceeds DEF AcceptEncoding, Names, Composed, SetBy
    <2> QED BY <2>1, <2>2
<1>8. CASE AcceptLanguage
    <2>1. CASE Has("accept_language")
        BY <1>5, <1>8, <2>1, Priorities DEF AcceptLanguage
    <2>2. CASE ~ Has("accept_language")
        BY <1>8, <2>2, Proceeds DEF AcceptLanguage, Names, Composed, SetBy
    <2> QED BY <2>1, <2>2
<1>9. CASE Version
    <2>1. CASE Has("version")
        BY <1>4, <1>9, <2>1, Priorities DEF Version, HttpVersionNotSupported
    <2>2. CASE ~ Has("version")
        BY <1>9, <2>2, Proceeds DEF Version, Names, Composed, SetBy
    <2> QED BY <2>1, <2>2
<1>10. CASE Host
    <2>1. CASE Has("host")
        BY <1>4, <1>10, <2>1, Priorities DEF Host, BadRequest
    <2>2. CASE ~ Has("host")
        BY <1>10, <2>2, Proceeds DEF Host, Names, Composed, SetBy
    <2> QED BY <2>1, <2>2
<1>11. CASE Expect
    <2>1. CASE Has("expect")
        BY <1>4, <1>11, <2>1, Priorities DEF Expect, ExpectationFailed
    <2>2. CASE ~ Has("expect")
        BY <1>11, <2>2, Proceeds DEF Expect, Names, Composed, SetBy
    <2> QED BY <2>1, <2>2
<1>12. CASE ContentLength
    <2>1. CASE LengthRequired /\ Keep({})
        BY <1>4, <1>12, <2>1, Priorities DEF ContentLength, LengthRequired
    <2>2. CASE Proceed("content_length", {})
        BY <1>12, <2>2, Proceeds DEF ContentLength, Names, Composed, SetBy
    <2>3. CASE /\ session' = session \cup {"content-length"}
               /\ stage' = "fetch"
               /\ UNCHANGED << request, pending, read, stored, replies >>
        <3>1. stage = "rules"
            BY <1>12 DEF ContentLength, Turn
        <3> QED
            BY <2>3, <3>1 DEF IInv, TypeOK, RulesInv, RoutedInv, ResourceInv, HandlerInv,
               ReplyInv, ReadsOnlyWhatIsSet, Handling, Subscribing, Delivering, Has
    <2> QED BY <1>12, <2>1, <2>2, <2>3 DEF ContentLength
<1>13. CASE Fetched
    <2>1. \A name \in Names : SetBy(name) # "content_length"
        BY DEF Names, Composed, SetBy
    <2> QED
        BY <1>13, <2>1 DEF Fetched, IInv, TypeOK, RulesInv, RoutedInv, ResourceInv, HandlerInv,
           ReplyInv, ReadsOnlyWhatIsSet, Handling, Subscribing, Delivering, Has
<1>14. CASE Disconnect
    BY <1>14 DEF Disconnect, IInv, TypeOK, RulesInv, RoutedInv, ResourceInv, HandlerInv,
       ReplyInv, ReadsOnlyWhatIsSet, Handling, Subscribing, Delivering, Has
<1>15. CASE ContentMD5
    <2>1. CASE BadRequest /\ Keep({})
        BY <1>4, <1>15, <2>1, Priorities DEF ContentMD5, BadRequest
    <2>2. CASE Proceed("content_md5", {})
        BY <1>15, <2>2, Proceeds DEF ContentMD5, Names, Composed, SetBy
    <2> QED BY <1>15, <2>1, <2>2 DEF ContentMD5
<1>16. CASE Range
    BY <1>16, Proceeds DEF Range, Names, Composed, SetBy
<1>17. CASE Filters
    BY <1>17, Proceeds DEF Filters, Names, Composed, SetBy
<1>18. CASE Fields
    BY <1>18, Proceeds DEF Fields, Names, Composed, SetBy
<1>19. CASE Paging
    BY <1>19, Proceeds DEF Paging, Names, Composed, SetBy
<1> QED
    BY <1>1, <1>2, <1>3, <1>6, <1>7, <1>8, <1>9, <1>10, <1>11, <1>12, <1>13, <1>14,
       <1>15, <1>16, <1>17, <1>18, <1>19 DEF ServiceRule

(* The routing, and the rules of the resource. *)
LEMMA ResourceRuleStep ==
    ASSUME IInv, Route \/ ResourceRule \/ FindMethod
    PROVE  IInv'
<1> USE DEF Codes
<1>0. stored \in BOOLEAN /\ (stage \in {"rules", "resource_rules"} => ~ stored)
    BY DEF IInv, TypeOK, ReplyInv
<1>1. ASSUME stage = "resource_rules", NEW code \in Codes, Close(code, Composed), Keep({})
      PROVE  IInv'
    <2>1. Composed \subseteq session
        BY <1>1 DEF IInv, RoutedInv, Names
    <2> QED BY <1>0, <1>1, <2>1, Closes DEF Keep
<1>2. CASE Route
    <2>1. stage = "rules" /\ Names \subseteq session
        BY <1>2 DEF Route, IInv, RulesInv
    <2>2. CASE NotFound /\ Keep({})
        BY <1>0, <2>1, <2>2, Closes DEF NotFound, Keep, Names
    <2>3. CASE /\ stage' = "resource_rules"
               /\ pending' = ResourceRules(request.target)
               /\ UNCHANGED << request, session, read, stored, replies >>
        <3>1. ResourceRules(request.target)
                  \subseteq {"key", "keys", "content_type", "content_encoding"}
            BY DEF ResourceRules
        <3>2. TypeOK' /\ RulesInv' /\ RoutedInv' /\ HandlerInv'
            BY <2>1, <2>3, <3>1 DEF IInv, TypeOK, RulesInv, RoutedInv, HandlerInv, Handling,
               Subscribing, Delivering
        <3>3. ResourceInv'
            <4>1. request.target \in Resources \cup Publishing =>
                      \/ request.target # "messages" /\ "key" \in ResourceRules(request.target)
                      \/ "keys" \in ResourceRules(request.target)
                BY DEF ResourceRules, Resources, Keyed, Collections, Publishing
            <4>2. request.target \in Resources =>
                      "content_type" \in ResourceRules(request.target)
                BY DEF ResourceRules, Resources, Keyed, Collections, Publishing
            <4> QED BY <2>3, <4>1, <4>2 DEF ResourceInv
        <3>4. ReplyInv' /\ ReadsOnlyWhatIsSet'
            BY <2>1, <2>3 DEF IInv, ReplyInv, ReadsOnlyWhatIsSet, Has
        <3> QED BY <3>2, <3>3, <3>4 DEF IInv
    <2> QED BY <1>2, <2>2, <2>3 DEF Route
<1>3. CASE Key
    BY <1>3, ResourceProceeds DEF Key
<1>4. CASE Keys
    BY <1>4, ResourceProceeds DEF Keys
<1>5. CASE ContentType
    <2>1. stage = "resource_rules"
        BY <1>5 DEF ContentType, ResourceTurn
    <2>2. CASE Has("content_type") \/ (Has("no_type") /\ request.method \in {"PUT", "POST"})
        BY <1>1, <1>5, <2>1, <2>2 DEF ContentType, UnsupportedMediaType
    <2>3. CASE ~ (Has("content_type")
                  \/ (Has("no_type") /\ request.method \in {"PUT", "POST"}))
        BY <1>5, <2>3, ResourceProceeds DEF ContentType
    <2> QED BY <2>2, <2>3
<1>6. CASE ContentEncoding
    <2>1. stage = "resource_rules"
        BY <1>6 DEF ContentEncoding, ResourceTurn
    <2>2. CASE Has("content_encoding")
        BY <1>1, <1>6, <2>1, <2>2 DEF ContentEncoding, UnsupportedMediaType
    <2>3. CASE ~ Has("content_encoding")
        BY <1>6, <2>3, ResourceProceeds DEF ContentEncoding
    <2> QED BY <2>2, <2>3
<1>7. CASE FindMethod
    <2>1. stage = "resource_rules"
        BY <1>7 DEF FindMethod
    <2>2. CASE request.method \notin Allowed(request.target)
        <3>1. Keep({}) /\ (Close(405, Composed) \/ Close(501, Composed))
            BY <1>7, <2>2 DEF FindMethod, MethodNotAllowed, MethodNotImplemented
        <3> QED BY <1>1, <2>1, <3>1
    <2>3. CASE request.method \in Allowed(request.target)
        <3>1. Goto("handle") /\ read' = read /\ pending = {}
            BY <1>7, <2>3 DEF FindMethod
        <3>2. TypeOK' /\ RulesInv' /\ RoutedInv' /\ ResourceInv'
            BY <2>1, <3>1 DEF IInv, TypeOK, RulesInv, RoutedInv, ResourceInv, Handling,
               Subscribing, Delivering, Goto
        <3>3. HandlerInv'
            BY <2>1, <3>1 DEF IInv, ResourceInv, HandlerInv, Handling, Subscribing,
               Delivering, Goto
        <3>4. ReplyInv' /\ ReadsOnlyWhatIsSet'
            BY <2>1, <3>1 DEF IInv, ReplyInv, ReadsOnlyWhatIsSet, Goto, Has
        <3> QED BY <3>2, <3>3, <3>4 DEF IInv
    <2> QED BY <2>2, <2>3
<1> QED BY <1>2, <1>3, <1>4, <1>5, <1>6, <1>7 DEF ResourceRule

(* The handlers and their callbacks. *)
LEMMA HandlerStep ==
    ASSUME IInv, Handler
    PROVE  IInv'
<1> USE DEF Codes
<1>0. /\ stored \in BOOLEAN
      /\ stage \in Handling /\ stage # "states" => ~ stored
      /\ stage \in Handling => Names \subseteq session
    BY DEF IInv, TypeOK, ReplyInv, RoutedInv, Handling, Subscribing, Delivering
<1>1. ASSUME stage \in Handling, NEW code \in Codes, NEW names, Close(code, names), Keep({}),
             names \subseteq session, code < 400 \/ stage # "states" \/ Has("states")
      PROVE  IInv'
    <2>1. session' = session /\ stored' = stored /\ stage # "closed"
        BY <1>1 DEF Keep, Handling, Subscribing, Delivering
    <2> QED BY <1>0, <1>1, <2>1, Closes
<1>2. ASSUME stage \in Handling, NEW code \in {200, 201, 202, 204}, NEW names,
             Change(code, names), names \subseteq session
      PROVE  IInv'
    <2>1. session' = session /\ stored' = TRUE /\ stage # "closed" /\ Close(code, names)
        BY <1>2 DEF Change, Handling, Subscribing, Delivering
    <2> QED BY <1>2, <2>1, Closes
<1>3. ASSUME stage \in Handling \ {"states"}, NEW defect, NEW code \in {40004, 40009, 500},
             Fails(defect, code)
      PROVE  IInv'
    BY <1>0, <1>3, Refuses DEF Names, Handling, Subscribing, Delivering
<1> USE DEF At, Names, Composed, Handling, Subscribing, Delivering
<1>4. CASE ReadResource
    BY <1>0, <1>1, <1>3, <1>4 DEF ReadResource
<1>5. CASE OptionsResource
    BY <1>0, <1>1, <1>3, <1>5 DEF OptionsResource
<1>6. CASE OptionsAsterisk
    BY <1>0, <1>1, <1>6 DEF OptionsAsterisk
<1>7. CASE CreateResource
    <2>1. /\ request.target \in Resources /\ request.method = "POST"
          /\ stage = "handle" /\ "content-format" \in session
        BY <1>7 DEF CreateResource, IInv, HandlerInv, Resources
    <2>2. CASE Close(400, Composed \cup {"content-format"}) /\ Keep({})
        BY <1>0, <1>1, <2>1, <2>2
    <2>3. CASE /\ Goto(IF request.target = "queues" THEN "store" ELSE "lookup")
               /\ read' = read \cup {"content-format"}
        BY <2>1, <2>3, Goes DEF IInv, ReadsOnlyWhatIsSet
    <2> QED BY <1>7, <2>2, <2>3 DEF CreateResource
<1>8. CASE UpdateResource
    <2>1. /\ request.target \in Resources /\ request.method = "PUT"
          /\ stage = "handle" /\ "content-format" \in session
        BY <1>8 DEF UpdateResource, IInv, HandlerInv, Resources
    <2>2. CASE Close(400, Composed \cup {"content-format"}) /\ Keep({})
        BY <1>0, <1>1, <2>1, <2>2
    <2>3. CASE /\ Goto(IF request.target = "queue" THEN "store" ELSE "lookup")
               /\ read' = read \cup {"content-format"}
        BY <2>1, <2>3, Goes DEF IInv, ReadsOnlyWhatIsSet
    <2> QED BY <1>8, <2>2, <2>3 DEF UpdateResource
<1>9. CASE Lookup
    <2>1. /\ stage = "lookup" /\ "keys" \in session
          /\ request.target \in Resources /\ request.method \in {"PUT", "POST"}
        BY <1>9 DEF Lookup, IInv, HandlerInv
    <2>2. CASE /\ Goto("store")
               /\ read' = read \cup {"paging", "keys", "fields", "inclusive_filters",
                                     "exclusive_filters"}
        BY <1>0, <2>1, <2>2, Goes DEF IInv, ReadsOnlyWhatIsSet
    <2> QED BY <1>0, <1>1, <1>3, <1>9, <2>1, <2>2 DEF Lookup, ServiceUnavailable
<1>10. CASE StoreCreated
    BY <1>0, <1>2, <1>3, <1>10 DEF StoreCreated
<1>11. CASE StoreUpdated
    BY <1>0, <1>1, <1>2, <1>3, <1>11 DEF StoreUpdated
<1>12. CASE DeleteResource
    BY <1>0, <1>2, <1>3, <1>12 DEF DeleteResource
<1>13. CASE CreateMessage
    <2>1. stage = "handle" /\ request.target \in Publishing
        BY <1>13 DEF CreateMessage
    <2>2. CASE Goto("queues") /\ UNCHANGED read
        BY <2>1, <2>2, Goes DEF IInv, ReadsOnlyWhatIsSet
    <2> QED BY <1>0, <1>1, <1>13, <2>1, <2>2 DEF CreateMessage, UnsupportedMediaType
<1>14. CASE QueuesRead
    <2>1. stage = "queues" /\ request.target \in Publishing
        BY <1>14 DEF QueuesRead, IInv, HandlerInv
    <2>2. CASE Goto("subscriptions") /\ UNCHANGED read
        BY <2>1, <2>2, Goes DEF IInv, ReadsOnlyWhatIsSet
    <2> QED
        BY <1>0, <1>1, <1>3, <1>14, <2>1, <2>2
           DEF QueuesRead, RequestEntityTooLarge, ServiceUnavailable
<1>15. CASE SubscriptionsRead
    <2>1. stage = "subscriptions" /\ request.target \in Publishing /\ "keys" \in session
        BY <1>15 DEF SubscriptionsRead, IInv, HandlerInv
    <2>2. CASE /\ Goto("message")
               /\ read' = read \cup {"filters", "paging", "keys", "fields",
                                     "inclusive_filters", "exclusive_filters"}
        BY <1>0, <2>1, <2>2, Goes DEF IInv, ReadsOnlyWhatIsSet
    <2>3. CASE Fails("unreadable", 500)
        BY <1>3, <2>1, <2>3
    <2> QED BY <1>0, <1>1, <1>15, <2>1, <2>2, <2>3 DEF SubscriptionsRead
<1>16. CASE StoreMessage
    <2>1. stage = "message" /\ request.target \in Publishing /\ "keys" \in session
        BY <1>16 DEF StoreMessage, IInv, HandlerInv
    <2>2. CASE ~ Failed("conflict")
        <3>0. /\ stored' = TRUE
              /\ stage' = "states"
              /\ UNCHANGED << request, pending, session, read, replies >>
            BY <1>16, <2>2 DEF StoreMessage
        <3>1. TypeOK' /\ RulesInv' /\ RoutedInv' /\ ResourceInv'
            BY <1>0, <2>1, <3>0 DEF IInv, TypeOK, RulesInv, RoutedInv, ResourceInv
        <3>2. HandlerInv'
            BY <2>1, <3>0 DEF IInv, HandlerInv
        <3>3. ReplyInv' /\ ReadsOnlyWhatIsSet'
            BY <2>1, <3>0 DEF IInv, ReplyInv, ReadsOnlyWhatIsSet, Has
        <3> QED BY <3>1, <3>2, <3>3 DEF IInv
    <2>3. CASE Failed("conflict")
        <3>1. Fails("conflict", 40009)
            BY <1>16, <2>3 DEF StoreMessage
        <3> QED BY <1>3, <2>1, <3>1
    <2> QED BY <2>2, <2>3
<1>17. CASE StoreStates
    <2>1. stage = "states" /\ Keep({})
        BY <1>17 DEF StoreStates
    <2>2. CASE Has("states")
        <3>1. Close(409, Composed)
            BY <1>17, <2>2 DEF StoreStates, FindAndInvokeFor, Conflict
        <3> QED BY <1>0, <1>1, <2>1, <2>2, <3>1
    <2>3. CASE ~ Has("states")
        <3>1. Close(202, {})
            BY <1>17, <2>3 DEF StoreStates
        <3> QED BY <1>0, <1>1, <2>1, <3>1
    <2> QED BY <2>2, <2>3
<1> QED
    BY <1>4, <1>5, <1>6, <1>7, <1>8, <1>9, <1>10, <1>11, <1>12, <1>13, <1>14, <1>15,
       <1>16, <1>17 DEF Handler

-----------------------------------------------------------------------------
(* The invariant holds: at the start, in every step, and when nothing moves. *)
THEOREM InvariantHolds == Spec => []IInv
<1>1. Init => IInv
    BY Initially
<1>2. IInv /\ [Next]_vars => IInv'
    <2>1. ASSUME IInv, UNCHANGED vars PROVE IInv'
        BY <2>1 DEF vars, IInv, TypeOK, RulesInv, RoutedInv, ResourceInv, HandlerInv,
           ReplyInv, ReadsOnlyWhatIsSet, Has
    <2> QED
        BY <2>1, ServiceRuleStep, ResourceRuleStep, HandlerStep DEF Next
<1> QED BY <1>1, <1>2, PTL DEF Spec

(* Type correctness: the status codes and the stages of every request.       *)
THEOREM TypeCorrect == Spec => []TypeOK
<1>1. IInv => TypeOK
    BY DEF IInv
<1> QED BY <1>1, InvariantHolds, PTL

(* No reply and no handler reads from the session what no rule has set,      *)
(* for any set of requests (error_handler_impl.cpp:52).                      *)
THEOREM SessionReadsHold == Spec => []ReadsOnlyWhatIsSet
<1>1. IInv => ReadsOnlyWhatIsSet
    BY DEF IInv
<1> QED BY <1>1, InvariantHolds, PTL

(* A request is answered once at most: a rule that refuses does not go on.   *)
THEOREM OneReplyHolds == Spec => []RepliedOnce
<1>1. IInv => RepliedOnce
    BY DEF IInv, ReplyInv, RepliedOnce
<1> QED BY <1>1, InvariantHolds, PTL

(* A refused request has changed nothing in the repository, except for a     *)
(* message whose states were refused.                                        *)
THEOREM RefusalsHold == Spec => []RefusedStoresNothing
<1>1. IInv => RefusedStoresNothing
    BY DEF IInv, TypeOK, ReplyInv, RefusedStoresNothing
<1> QED BY <1>1, InvariantHolds, PTL

-----------------------------------------------------------------------------
(* Proof that every answer has a cause: a code names something that is the   *)
(* matter with the request, and success says that nothing is that such a     *)
(* request is checked for.  The invariant says what each stage has already   *)
(* excluded.                                                                 *)

(* What the rules of the service refuse, and which of them does.             *)
ServiceDefects == Negotiation \cup {"version", "host", "expect", "length", "checksum"}

RefusedBy(defect) ==
    CASE defect = "length" -> "content_length"
      [] defect = "checksum" -> "content_md5"
      [] OTHER -> defect

Changing == request.method \in {"PUT", "POST"}

(* The length is tested, and the body has come. *)
LengthKnown == (Changing => request.entity) /\ (request.entity => "body" \in session)

(* In the service's rules: what those that have run refuse is not there.  The *)
(* body has come before its checksum is computed.                            *)
ServiceCauses ==
    /\ stage \in {"rules", "fetch"} =>
          /\ \A defect \in ServiceDefects : RefusedBy(defect) \notin pending => ~ Has(defect)
          /\ "content_length" \notin pending => LengthKnown
    /\ stage = "fetch" => "content_length" \in pending /\ ~ Has("length") /\ request.entity

(* After them, none of it is. *)
RoutedCauses ==
    stage \in {"resource_rules"} \cup Handling =>
        /\ request.defects \cap ServiceDefects = {}
        /\ Changing => request.entity
        /\ request.target # "unknown"

(* In the rules of a resource. *)
ResourceCauses ==
    stage = "resource_rules" =>
        /\ pending \subseteq ResourceRules(request.target)
        /\ request.target \in Resources =>
              /\ "content_type" \notin pending =>
                    ~ Has("content_type") /\ (Changing => ~ Has("no_type"))
              /\ "content_encoding" \notin pending => ~ Has("content_encoding")

(* In the handlers, and after each call of the repository. *)
HandlerCauses ==
    /\ stage \in Handling =>
          /\ request.method \in Allowed(request.target)
          /\ request.target \in Resources =>
                /\ ~ Has("content_type") /\ ~ Has("content_encoding")
                /\ Changing => ~ Has("no_type")
    /\ stage \in Subscribing =>
          \A defect \in Content : Has(defect) => defect = "several" /\ request.method = "POST"
    /\ stage = "lookup" => request.target \in {"subscription", "subscriptions"}
    /\ stage = "store" /\ request.target \in {"subscription", "subscriptions"} =>
          ~ Has("missing_queue") /\ ~ Has("capacity")
    /\ stage \in Delivering => request.method = "POST" /\ ~ Has("no_type")
    /\ stage \in Delivering \ {"queues"} =>
          ~ Has("missing") /\ ~ Has("fault") /\ ~ Has("too_large") /\ ~ Has("capacity")
    /\ stage \in {"message", "states"} => ~ request.idle /\ ~ Has("unreadable")
    /\ stage = "states" => ~ Has("conflict")

CauseInv ==
    /\ ServiceCauses
    /\ RoutedCauses
    /\ ResourceCauses
    /\ HandlerCauses
    /\ AnswerHasCause

-----------------------------------------------------------------------------
LEMMA RequestType ==
    ASSUME TypeOK
    PROVE  /\ request.target \in Targets
           /\ request.method \in Methods
           /\ request.defects \subseteq Defects
           /\ request.entity \in BOOLEAN
           /\ request.idle \in BOOLEAN
BY RequestsAssumption DEF TypeOK, Request

LEMMA FoundKept ==
    ASSUME request' = request
    PROVE  Found' = Found
BY DEF Found, Checked

(* A reply with a cause is the end. *)
LEMMA ClosesWithCause ==
    ASSUME IInv, CauseInv, NEW code \in Codes, NEW names, Close(code, names),
           stage # "closed", Cause(code)
    PROVE  CauseInv'
<1>1. replies = << >> /\ replies' = << code >> /\ request' = request /\ stage' = "closed"
    BY DEF Close, IInv, ReplyInv
<1>2. ServiceCauses' /\ RoutedCauses' /\ ResourceCauses' /\ HandlerCauses'
    BY <1>1 DEF ServiceCauses, RoutedCauses, ResourceCauses, HandlerCauses, Handling,
       Subscribing, Delivering
<1>3. \A i \in DOMAIN replies' : replies'[i] = code
    BY <1>1
<1>4. Found' = Found
    BY <1>1, FoundKept
<1>5. AnswerHasCause'
    BY <1>1, <1>3, <1>4 DEF AnswerHasCause, Cause
<1> QED BY <1>2, <1>5 DEF CauseInv

(* Defects that are found are causes. *)
LEMMA FoundIs ==
    ASSUME NEW defect
    PROVE  defect \in Found <=> Has(defect) /\ defect \in Checked
BY DEF Found, Has

LEMMA ServiceChecked == ServiceDefects \subseteq Checked
BY DEF ServiceDefects, Checked

(* A rule of the service that lets the request pass. *)
LEMMA ProceedsWithCause ==
    ASSUME IInv, CauseInv, NEW rule \in ServiceRules, NEW names, Turn(rule),
           Proceed(rule, names),
           \A defect \in ServiceDefects : RefusedBy(defect) = rule => ~ Has(defect),
           rule = "content_length" => LengthKnown
    PROVE  CauseInv'
<1>1. /\ stage = "rules" /\ stage' = "rules" /\ request' = request /\ replies' = replies
      /\ pending' = pending \ {rule} /\ session \subseteq session'
    BY DEF Turn, Proceed
<1>2. ServiceCauses'
    BY <1>1 DEF CauseInv, ServiceCauses, LengthKnown, Changing, Has
<1>3. RoutedCauses' /\ ResourceCauses' /\ HandlerCauses'
    BY <1>1 DEF RoutedCauses, ResourceCauses, HandlerCauses, Handling, Subscribing, Delivering
<1>4. AnswerHasCause'
    BY <1>1, FoundKept DEF CauseInv, AnswerHasCause, Cause
<1> QED BY <1>2, <1>3, <1>4 DEF CauseInv

(* A rule that tests for one defect, and refuses or lets pass. *)
LEMMA RuleWithCause ==
    ASSUME IInv, CauseInv, NEW rule \in ServiceRules \ {"content_length", "content_md5"},
           Turn(rule), NEW code \in Codes, NEW names, NEW read1,
           IF Has(rule) THEN Close(code, read1) ELSE Proceed(rule, names),
           rule \in ServiceDefects, rule \in Found => Cause(code)
    PROVE  CauseInv'
<1>1. CASE Has(rule)
    <2>1. Cause(code)
        BY <1>1, FoundIs, ServiceChecked
    <2>2. stage # "closed" /\ Close(code, read1)
        BY <1>1 DEF Turn
    <2> QED BY <2>1, <2>2, ClosesWithCause
<1>2. CASE ~ Has(rule)
    <2>1. \A defect \in ServiceDefects : RefusedBy(defect) = rule => ~ Has(defect)
        BY <1>2 DEF RefusedBy
    <2> QED BY <1>2, <2>1, ProceedsWithCause
<1> QED BY <1>1, <1>2

(* Rules that test for nothing. *)
LEMMA PlainRuleWithCause ==
    ASSUME IInv, CauseInv,
           NEW rule \in {"echo", "style", "range", "filters", "fields", "paging"},
           Turn(rule), NEW names, Proceed(rule, names)
    PROVE  CauseInv'
<1>1. \A defect \in ServiceDefects : RefusedBy(defect) # rule
    BY DEF ServiceDefects, Negotiation, RefusedBy
<1> QED BY <1>1, Priorities, ProceedsWithCause

LEMMA LengthBeforeChecksum ==
    /\ "content_length" \in ServiceRules /\ "content_md5" \in ServiceRules
    /\ Priority["content_length"] = 5
    /\ Priority["content_md5"] = 6
BY DEF Priority, ServiceRules

(* The rules of the service, external steps among them. *)
LEMMA ServiceRuleCauses ==
    ASSUME IInv, CauseInv, ServiceRule
    PROVE  CauseInv'
<1>1. CASE Echo
    BY <1>1, PlainRuleWithCause DEF Echo
<1>2. CASE Style
    BY <1>2, PlainRuleWithCause DEF Style
<1>3. ASSUME NEW rule \in Negotiation, Turn(rule), NEW names,
             IF Has(rule) THEN NotAcceptable ELSE Proceed(rule, names)
      PROVE  CauseInv'
    <2>1. rule \in ServiceRules \ {"content_length", "content_md5"} /\ rule \in ServiceDefects
        BY <1>3, Priorities DEF Negotiation, ServiceDefects
    <2>2. rule \in Found => Cause(406)
        BY <1>3 DEF Cause
    <2>3. PICK read1 : IF Has(rule) THEN Close(406, read1) ELSE Proceed(rule, names)
        BY <1>3 DEF NotAcceptable
    <2>4. 406 \in Codes
        BY DEF Codes
    <2> QED BY <1>3, <2>1, <2>2, <2>3, <2>4, RuleWithCause
<1>4. CASE Accept
    BY <1>3, <1>4 DEF Accept, Negotiation
<1>5. CASE AcceptCharset
    BY <1>3, <1>5 DEF AcceptCharset, Negotiation
<1>6. CASE AcceptEncoding
    BY <1>3, <1>6 DEF AcceptEncoding, Negotiation
<1>7. CASE AcceptLanguage
    BY <1>3, <1>7 DEF AcceptLanguage, Negotiation
<1>8. CASE Version
    <2>1. "version" \in Found => Cause(505)
        BY DEF Cause
    <2> QED
        BY <1>8, <2>1, Priorities, RuleWithCause
           DEF Version, HttpVersionNotSupported, ServiceDefects, Codes
<1>9. CASE Host
    <2>1. "host" \in Found => Cause(400)
        BY DEF Cause
    <2> QED
        BY <1>9, <2>1, Priorities, RuleWithCause DEF Host, BadRequest, ServiceDefects, Codes
<1>10. CASE Expect
    <2>1. "expect" \in Found => Cause(417)
        BY DEF Cause
    <2> QED
        BY <1>10, <2>1, Priorities, RuleWithCause
           DEF Expect, ExpectationFailed, ServiceDefects, Codes
<1>11. CASE ContentLength
    <2>1. /\ Turn("content_length") /\ stage = "rules" /\ "content_length" \in pending
          /\ "length" \in ServiceDefects
        BY <1>11 DEF ContentLength, Turn, ServiceDefects
    <2>2. CASE Has("length") \/ (Changing /\ ~ request.entity)
        <3>1. LengthRequired
            BY <1>11, <2>2 DEF ContentLength, Changing
        <3>2. Cause(411)
            BY <2>1, <2>2, FoundIs, ServiceChecked DEF Cause
        <3>3. 411 \in Codes /\ stage # "closed"
            BY <2>1 DEF Codes
        <3> QED BY <3>1, <3>2, <3>3, ClosesWithCause DEF LengthRequired
    <2>3. CASE ~ Has("length") /\ (Changing => request.entity) /\ ~ request.entity
        <3>1. Proceed("content_length", {})
            BY <1>11, <2>3 DEF ContentLength, Changing
        <3>2. \A defect \in ServiceDefects : RefusedBy(defect) = "content_length" => ~ Has(defect)
            BY <2>3 DEF ServiceDefects, Negotiation, RefusedBy
        <3> QED
            BY <2>1, <2>3, <3>1, <3>2, LengthBeforeChecksum, ProceedsWithCause
               DEF LengthKnown
    <2>4. CASE ~ Has("length") /\ request.entity
        <3>1. /\ session' = session \cup {"content-length"}
              /\ stage' = "fetch"
              /\ UNCHANGED << request, pending, read, stored, replies >>
            BY <1>11, <2>4 DEF ContentLength
        <3>2. ServiceCauses'
            BY <2>1, <2>4, <3>1 DEF CauseInv, ServiceCauses, LengthKnown, Changing, Has
        <3>3. RoutedCauses' /\ ResourceCauses' /\ HandlerCauses'
            BY <3>1 DEF RoutedCauses, ResourceCauses, HandlerCauses, Handling, Subscribing,
               Delivering
        <3>4. AnswerHasCause'
            BY <3>1, FoundKept DEF CauseInv, AnswerHasCause, Cause
        <3> QED BY <3>2, <3>3, <3>4 DEF CauseInv
    <2> QED BY <2>2, <2>3, <2>4
<1>12. CASE Fetched
    <2>1. /\ stage = "fetch" /\ stage' = "rules"
          /\ session' = session \cup {"body"} /\ pending' = pending \ {"content_length"}
          /\ request' = request /\ replies' = replies
        BY <1>12 DEF Fetched
    <2>2. /\ ~ Has("length") /\ request.entity
          /\ \A defect \in ServiceDefects : RefusedBy(defect) \notin pending => ~ Has(defect)
        BY <2>1 DEF CauseInv, ServiceCauses
    <2>3. \A defect \in ServiceDefects : RefusedBy(defect) = "content_length" => ~ Has(defect)
        BY <2>2 DEF ServiceDefects, Negotiation, RefusedBy
    <2>4. ServiceCauses'
        BY <2>1, <2>2, <2>3 DEF ServiceCauses, LengthKnown, Changing, Has
    <2>5. RoutedCauses' /\ ResourceCauses' /\ HandlerCauses'
        BY <2>1 DEF RoutedCauses, ResourceCauses, HandlerCauses, Handling, Subscribing, Delivering
    <2>6. AnswerHasCause'
        BY <2>1, FoundKept DEF CauseInv, AnswerHasCause, Cause
    <2> QED BY <2>4, <2>5, <2>6 DEF CauseInv
<1>13. CASE Disconnect
    <2>1. stage' = "closed" /\ request' = request /\ replies' = replies
        BY <1>13 DEF Disconnect
    <2>2. ServiceCauses' /\ RoutedCauses' /\ ResourceCauses' /\ HandlerCauses'
        BY <2>1 DEF ServiceCauses, RoutedCauses, ResourceCauses, HandlerCauses, Handling,
           Subscribing, Delivering
    <2>3. AnswerHasCause'
        BY <2>1, FoundKept DEF CauseInv, AnswerHasCause, Cause
    <2> QED BY <2>2, <2>3 DEF CauseInv
<1>14. CASE ContentMD5
    <2>1. /\ Turn("content_md5") /\ stage = "rules" /\ "checksum" \in ServiceDefects
        BY <1>14 DEF ContentMD5, Turn, ServiceDefects
    <2>2. "content_length" \notin pending
        BY <2>1, LengthBeforeChecksum DEF Turn
    <2>3. request.entity => "body" \in session
        BY <2>1, <2>2 DEF CauseInv, ServiceCauses, LengthKnown
    <2>4. CASE Has("checksum")
        <3>1. BadRequest
            BY <1>14, <2>4 DEF ContentMD5
        <3>2. Cause(400)
            BY <2>1, <2>4, FoundIs, ServiceChecked DEF Cause
        <3>3. 400 \in Codes /\ stage # "closed"
            BY <2>1 DEF Codes
        <3> QED BY <3>1, <3>2, <3>3, ClosesWithCause DEF BadRequest
    <2>5. CASE ~ Has("checksum")
        <3>1. Proceed("content_md5", {})
            BY <1>14, <2>3, <2>5 DEF ContentMD5
        <3>2. \A defect \in ServiceDefects : RefusedBy(defect) = "content_md5" => ~ Has(defect)
            BY <2>5 DEF ServiceDefects, Negotiation, RefusedBy
        <3> QED BY <2>1, <3>1, <3>2, LengthBeforeChecksum, ProceedsWithCause
    <2> QED BY <2>4, <2>5
<1>15. CASE Range
    BY <1>15, PlainRuleWithCause DEF Range
<1>16. CASE Filters
    BY <1>16, PlainRuleWithCause DEF Filters
<1>17. CASE Fields
    BY <1>17, PlainRuleWithCause DEF Fields
<1>18. CASE Paging
    BY <1>18, PlainRuleWithCause DEF Paging
<1> QED
    BY <1>1, <1>2, <1>4, <1>5, <1>6, <1>7, <1>8, <1>9, <1>10, <1>11, <1>12, <1>13, <1>14,
       <1>15, <1>16, <1>17, <1>18 DEF ServiceRule

(* A rule of a resource that lets the request pass. *)
LEMMA ResourceProceedsWithCause ==
    ASSUME IInv, CauseInv, NEW rule, NEW names, ResourceTurn(rule), Proceed(rule, names),
           rule = "content_type" =>
               ~ Has("content_type") /\ (Changing => ~ Has("no_type")),
           rule = "content_encoding" => ~ Has("content_encoding")
    PROVE  CauseInv'
<1>1. /\ stage = "resource_rules" /\ stage' = stage /\ request' = request
      /\ replies' = replies /\ pending' = pending \ {rule}
    BY DEF ResourceTurn, Proceed
<1>2. ServiceCauses' /\ HandlerCauses'
    BY <1>1 DEF ServiceCauses, HandlerCauses, Handling, Subscribing, Delivering
<1>3. RoutedCauses'
    BY <1>1 DEF CauseInv, RoutedCauses, Changing
<1>4. ResourceCauses'
    BY <1>1 DEF CauseInv, ResourceCauses, Changing, Has
<1>5. AnswerHasCause'
    BY <1>1, FoundKept DEF CauseInv, AnswerHasCause, Cause
<1> QED BY <1>2, <1>3, <1>4, <1>5 DEF CauseInv

(* The routing, and the rules of the resource. *)
LEMMA ResourceRuleCauses ==
    ASSUME IInv, CauseInv, Route \/ ResourceRule \/ FindMethod
    PROVE  CauseInv'
<1> USE DEF Codes
<1>0. request.target \in Targets /\ request.method \in Methods
    BY RequestType DEF IInv
<1>1. ASSUME stage = "resource_rules", NEW code \in Codes, Close(code, Composed), Cause(code)
      PROVE  CauseInv'
    BY <1>1, ClosesWithCause
<1>2. CASE Route
    <2>1. stage = "rules" /\ pending = {}
        BY <1>2 DEF Route
    <2>2. CASE request.target = "unknown"
        <3>1. Close(404, Composed) /\ Cause(404)
            BY <1>2, <2>2 DEF Route, NotFound, Cause
        <3> QED BY <2>1, <3>1, ClosesWithCause
    <2>3. CASE request.target # "unknown"
        <3>1. /\ stage' = "resource_rules" /\ request' = request /\ replies' = replies
              /\ pending' = ResourceRules(request.target)
            BY <1>2, <2>3 DEF Route
        <3>2. ServiceCauses' /\ HandlerCauses'
            BY <3>1 DEF ServiceCauses, HandlerCauses, Handling, Subscribing, Delivering
        <3>3. RoutedCauses'
            <4>1. \A defect \in ServiceDefects : ~ Has(defect)
                BY <2>1 DEF CauseInv, ServiceCauses
            <4>2. request.defects \cap ServiceDefects = {}
                BY <4>1 DEF Has
            <4>3. Changing => request.entity
                BY <2>1 DEF CauseInv, ServiceCauses, LengthKnown
            <4> QED BY <2>3, <3>1, <4>2, <4>3 DEF RoutedCauses, Changing
        <3>4. ResourceCauses'
            <4>1. request.target \in Resources =>
                      "content_type" \in ResourceRules(request.target)
                BY DEF ResourceRules, Resources, Keyed, Collections, Publishing
            <4>2. request.target \in Resources =>
                      "content_encoding" \in ResourceRules(request.target)
                BY DEF ResourceRules, Resources, Keyed, Collections, Publishing
            <4> QED BY <3>1, <4>1, <4>2 DEF ResourceCauses
        <3>5. AnswerHasCause'
            BY <3>1, FoundKept DEF CauseInv, AnswerHasCause, Cause
        <3> QED BY <3>2, <3>3, <3>4, <3>5 DEF CauseInv
    <2> QED BY <2>2, <2>3
<1>3. CASE Key
    BY <1>3, ResourceProceedsWithCause DEF Key
<1>4. CASE Keys
    BY <1>4, ResourceProceedsWithCause DEF Keys
<1>5. ASSUME ResourceTurn("content_type") \/ ResourceTurn("content_encoding")
      PROVE  /\ stage = "resource_rules"
             /\ {"content_type", "content_encoding"} \subseteq Checked
    <2>1. /\ stage = "resource_rules"
          /\ pending \subseteq ResourceRules(request.target)
          /\ "content_type" \in pending \/ "content_encoding" \in pending
        BY <1>5 DEF CauseInv, ResourceCauses, ResourceTurn
    <2>2. request.target \in Resources
        BY <2>1, <1>0 DEF ResourceRules, Resources, Keyed, Collections, Publishing, Targets
    <2> QED BY <2>1, <2>2 DEF Checked
<1>6. CASE ContentType
    <2>1. stage = "resource_rules" /\ "content_type" \in Checked
        BY <1>5, <1>6 DEF ContentType
    <2>2. CASE Has("content_type") \/ (Has("no_type") /\ Changing)
        <3>1. Close(415, Composed)
            BY <1>6, <2>2 DEF ContentType, Changing, UnsupportedMediaType
        <3>2. Changing => "no_type" \in Checked
            BY DEF Changing, Checked
        <3>3. Cause(415)
            BY <2>1, <2>2, <3>2, FoundIs DEF Cause, Entity
        <3> QED BY <1>1, <2>1, <3>1, <3>3
    <2>3. CASE ~ (Has("content_type") \/ (Has("no_type") /\ Changing))
        BY <1>6, <2>3, ResourceProceedsWithCause DEF ContentType, Changing
    <2> QED BY <2>2, <2>3
<1>7. CASE ContentEncoding
    <2>1. stage = "resource_rules" /\ "content_encoding" \in Checked
        BY <1>5, <1>7 DEF ContentEncoding
    <2>2. CASE Has("content_encoding")
        <3>1. Close(415, Composed)
            BY <1>7, <2>2 DEF ContentEncoding, UnsupportedMediaType
        <3>2. Cause(415)
            BY <2>1, <2>2, FoundIs DEF Cause, Entity
        <3> QED BY <1>1, <2>1, <3>1, <3>2
    <2>3. CASE ~ Has("content_encoding")
        BY <1>7, <2>3, ResourceProceedsWithCause DEF ContentEncoding
    <2> QED BY <2>2, <2>3
<1>8. CASE FindMethod
    <2>1. stage = "resource_rules" /\ pending = {}
        BY <1>8 DEF FindMethod
    <2>2. CASE request.method \notin Allowed(request.target)
        <3>1. CASE request.method \in Supported
            <4>1. Close(405, Composed) /\ Cause(405)
                BY <1>8, <2>2, <3>1 DEF FindMethod, MethodNotAllowed, Cause
            <4> QED BY <1>1, <2>1, <4>1
        <3>2. CASE request.method \notin Supported
            <4>1. Close(501, Composed) /\ Cause(501)
                BY <1>8, <2>2, <3>2 DEF FindMethod, MethodNotImplemented, Cause
            <4> QED BY <1>1, <2>1, <4>1
        <3> QED BY <3>1, <3>2
    <2>3. CASE request.method \in Allowed(request.target)
        <3>1. stage' = "handle" /\ request' = request /\ replies' = replies
            BY <1>8, <2>3 DEF FindMethod, Goto
        <3>2. ServiceCauses' /\ ResourceCauses'
            BY <3>1 DEF ServiceCauses, ResourceCauses
        <3>3. RoutedCauses'
            BY <2>1, <3>1 DEF CauseInv, RoutedCauses, Changing
        <3>4. HandlerCauses'
            BY <2>1, <2>3, <3>1
               DEF CauseInv, ResourceCauses, HandlerCauses, Subscribing, Delivering, Changing, Has
        <3>5. AnswerHasCause'
            BY <3>1, FoundKept DEF CauseInv, AnswerHasCause, Cause
        <3> QED BY <3>2, <3>3, <3>4, <3>5 DEF CauseInv
    <2> QED BY <2>2, <2>3
<1> QED BY <1>2, <1>3, <1>4, <1>6, <1>7, <1>8 DEF ResourceRule

-----------------------------------------------------------------------------
(* The handlers: what a request in each of them is checked for. *)
LEMMA HandlerChecked ==
    /\ request.target # "asterisk" => "fault" \in Checked
    /\ request.target # "asterisk" /\ request.method # "POST" => "missing" \in Checked
    /\ request.target \in {"subscription", "subscriptions"} /\ Changing =>
          {"missing_queue", "capacity"} \subseteq Checked
    /\ request.target \in Publishing /\ request.method = "POST" =>
          {"missing", "too_large", "capacity", "no_type"} \subseteq Checked
    /\ request.target \in Publishing /\ request.method = "POST" /\ ~ request.idle =>
          {"states", "conflict"} \subseteq Checked
    /\ request.target \in Resources /\ request.method = "POST" =>
          {"conflict"} \cup (Content \ {"several"}) \subseteq Checked
    /\ request.target \in Resources /\ request.method = "PUT" => Content \subseteq Checked
BY DEF Checked, Changing, Publishing, Resources, Keyed, Collections

(* Success: all that the request is checked for is excluded. *)
LEMMA Succeeds ==
    ASSUME CauseInv, stage \in Handling, NEW code \in {200, 201, 202, 204},
           request.target # "asterisk" => ~ Has("fault"),
           \A defect \in Checked : Has(defect) =>
               defect \in ServiceDefects \cup {"content_type", "content_encoding", "no_type",
                                               "fault"},
           request.target \notin Resources /\ Changing => ~ Has("no_type")
    PROVE  Cause(code)
<1>1. request.defects \cap ServiceDefects = {} /\ (Changing => request.entity)
    BY DEF CauseInv, RoutedCauses
<1>2. request.method \in Allowed(request.target)
    BY DEF CauseInv, HandlerCauses
<1>3. request.target \in Resources =>
          ~ Has("content_type") /\ ~ Has("content_encoding") /\ (Changing => ~ Has("no_type"))
    BY DEF CauseInv, HandlerCauses
<1>4. /\ "no_type" \in Checked => Changing
      /\ "content_type" \in Checked \/ "content_encoding" \in Checked =>
            request.target \in Resources
      /\ "fault" \in Checked => request.target # "asterisk"
    BY DEF Checked, Changing, Negotiation, Content
<1>5. Found = {}
    <2> SUFFICES ASSUME NEW defect \in Found PROVE FALSE
        OBVIOUS
    <2>1. Has(defect) /\ defect \in Checked
        BY FoundIs
    <2>2. defect \notin ServiceDefects
        BY <1>1, <2>1 DEF Has
    <2> QED BY <1>3, <1>4, <2>1, <2>2
<1> QED BY <1>1, <1>2, <1>5 DEF Cause, Changing

(* A handler goes on to its next call of the repository. *)
LEMMA GoesWithCause ==
    ASSUME CauseInv, NEW next \in Handling, stage \in Handling, stage' = next,
           request' = request, replies' = replies,
           next \in Subscribing =>
               \A defect \in Content : Has(defect) =>
                   defect = "several" /\ request.method = "POST",
           next = "lookup" => request.target \in {"subscription", "subscriptions"},
           next = "store" /\ request.target \in {"subscription", "subscriptions"} =>
               ~ Has("missing_queue") /\ ~ Has("capacity"),
           next \in Delivering => request.method = "POST" /\ ~ Has("no_type"),
           next \in Delivering \ {"queues"} =>
               ~ Has("missing") /\ ~ Has("fault") /\ ~ Has("too_large") /\ ~ Has("capacity"),
           next \in {"message", "states"} => ~ request.idle /\ ~ Has("unreadable"),
           next = "states" => ~ Has("conflict")
    PROVE  CauseInv'
<1>1. ServiceCauses' /\ ResourceCauses'
    BY DEF ServiceCauses, ResourceCauses, Handling, Subscribing, Delivering
<1>2. RoutedCauses'
    BY DEF CauseInv, RoutedCauses, Changing
<1>3. HandlerCauses'
    BY DEF CauseInv, HandlerCauses, Changing, Has
<1>4. AnswerHasCause'
    BY FoundKept DEF CauseInv, AnswerHasCause, Cause
<1> QED BY <1>1, <1>2, <1>3, <1>4 DEF CauseInv

(* A call of the repository that fails. *)
LEMMA FailsWithCause ==
    ASSUME IInv, CauseInv, stage # "closed",
           NEW defect, NEW code \in {40004, 40009}, Failed(defect), Fails(defect, code),
           "fault" \in Checked,
           ~ Has("fault") => defect \in Checked,
           code = 40004 => defect \in {"missing", "missing_queue"},
           code = 40009 => defect = "conflict"
    PROVE  CauseInv'
<1>1. CASE Has("fault")
    <2>1. Close(500, {})
        BY <1>1 DEF Fails, FindAndInvokeFor, InternalServerError
    <2>2. Cause(500)
        BY <1>1, FoundIs DEF Cause
    <2>3. 500 \in Codes
        BY DEF Codes
    <2> QED BY <2>1, <2>2, <2>3, ClosesWithCause
<1>2. CASE ~ Has("fault") /\ code = 40004
    <2>1. Close(404, Composed)
        BY <1>2 DEF Fails, FindAndInvokeFor, NotFound
    <2>2. Cause(404)
        BY <1>2, FoundIs DEF Cause, Failed
    <2>3. 404 \in Codes
        BY DEF Codes
    <2> QED BY <2>1, <2>2, <2>3, ClosesWithCause
<1>3. CASE ~ Has("fault") /\ code = 40009
    <2>1. Close(409, Composed)
        BY <1>3 DEF Fails, FindAndInvokeFor, Conflict
    <2>2. Cause(409)
        BY <1>3, FoundIs DEF Cause, Failed
    <2>3. 409 \in Codes
        BY DEF Codes
    <2> QED BY <2>1, <2>2, <2>3, ClosesWithCause
<1> QED BY <1>1, <1>2, <1>3

(* The handlers and their callbacks. *)
LEMMA HandlerStepCauses ==
    ASSUME IInv, CauseInv, Handler
    PROVE  CauseInv'
<1>0. /\ stage \in Handling => /\ request.method \in Allowed(request.target)
                               /\ stage # "closed"
      /\ stage \in Subscribing =>
             request.target \in Resources /\ request.method \in {"PUT", "POST"}
      /\ stage \in Delivering => request.target \in Publishing /\ request.method = "POST"
      /\ request.target \in Targets /\ request.method \in Methods
    BY RequestType DEF IInv, CauseInv, HandlerInv, HandlerCauses, Handling, Subscribing, Delivering
<1>1. ASSUME stage \in Handling, NEW code \in Codes, NEW names, Close(code, names),
             Cause(code)
      PROVE  CauseInv'
    BY <1>0, <1>1, ClosesWithCause
<1>2. {200, 201, 202, 204, 400, 409, 413, 415, 503} \subseteq Codes
    BY DEF Codes
<1>3. request.target \in Resources \cup Publishing \cup {"message"} =>
          request.target # "asterisk"
    BY DEF Resources, Keyed, Collections, Publishing
<1>4. request.target \in Resources => request.target \notin Publishing
    BY DEF Resources, Keyed, Collections, Publishing
<1>5. /\ "handle" \in Handling /\ "lookup" \in Handling /\ "store" \in Handling
      /\ Delivering \subseteq Handling
    BY DEF Handling, Subscribing, Delivering
<1>6. ASSUME stage = "handle", request.target # "asterisk", NEW code \in {200, 204}, NEW names,
             request.method \in {"GET", "HEAD", "DELETE", "OPTIONS"},
             IF Failed("missing") THEN Fails("missing", 40004) ELSE Close(code, names)
      PROVE  CauseInv'
    <2>1. CASE Failed("missing")
        BY <1>6, <2>1, HandlerChecked, FailsWithCause
    <2>2. CASE ~ Failed("missing")
        <3>1. \A defect \in Checked : Has(defect) =>
                  defect \in ServiceDefects \cup {"content_type", "content_encoding", "no_type",
                                                  "fault"}
            BY <1>6, <2>2 DEF Checked, ServiceDefects, Failed
        <3>2. Cause(code)
            BY <1>5, <1>6, <2>2, <3>1, Succeeds DEF Failed, Changing
        <3> QED BY <1>1, <1>2, <1>5, <1>6, <2>2, <3>2
    <2> QED BY <2>1, <2>2
<1>7. CASE ReadResource
    BY <1>3, <1>6, <1>7 DEF ReadResource, At
<1>8. CASE OptionsResource
    BY <1>3, <1>6, <1>8 DEF OptionsResource, At
<1>9. CASE DeleteResource
    BY <1>3, <1>6, <1>9 DEF DeleteResource, At, Change
<1>10. CASE OptionsAsterisk
    <2>1. /\ stage = "handle" /\ request.method = "OPTIONS" /\ request.target = "asterisk"
          /\ Close(204, {})
        BY <1>10 DEF OptionsAsterisk, At
    <2>2. \A defect \in Checked : Has(defect) =>
              defect \in ServiceDefects \cup {"content_type", "content_encoding", "no_type",
                                              "fault"}
        BY <2>1 DEF Checked, ServiceDefects, Publishing
    <2>3. Cause(204)
        BY <1>5, <2>1, <2>2, Succeeds DEF Changing
    <2> QED BY <1>1, <1>2, <1>5, <2>1, <2>3
<1>11. ASSUME stage = "handle", request.target \in Resources, Changing,
              NEW next \in Subscribing, stage' = next,
              UNCHANGED << request, replies >>,
              next = "lookup" => request.target \in {"subscription", "subscriptions"},
              next = "store" => request.target \notin {"subscription", "subscriptions"},
              \A defect \in Content : Has(defect) =>
                  defect = "several" /\ request.method = "POST"
       PROVE  CauseInv'
    BY <1>5, <1>11, GoesWithCause DEF Handling, Subscribing, Delivering
<1>12. CASE CreateResource
    <2>1. /\ stage = "handle" /\ request.method = "POST" /\ request.target \in Collections
          /\ request.target \in Resources /\ Changing
        BY <1>12 DEF CreateResource, At, Resources, Changing
    <2>2. CASE \E defect \in Content \ {"several"} : Has(defect)
        <3>1. PICK names : Close(400, names)
            BY <1>12, <2>2 DEF CreateResource
        <3>2. PICK defect \in Content \ {"several"} : Has(defect)
            BY <2>2
        <3>3. defect \in Checked
            BY <2>1, <3>2, HandlerChecked
        <3>4. Cause(400)
            BY <3>2, <3>3, FoundIs DEF Cause
        <3> QED BY <1>1, <1>2, <1>5, <2>1, <3>1, <3>4
    <2>3. CASE ~ \E defect \in Content \ {"several"} : Has(defect)
        <3>1. Goto(IF request.target = "queues" THEN "store" ELSE "lookup")
            BY <1>12, <2>3 DEF CreateResource
        <3>2. request.target \in {"queues", "subscriptions"}
            BY <2>1 DEF Collections
        <3> QED BY <1>11, <2>1, <2>3, <3>1, <3>2 DEF Goto, Subscribing
    <2> QED BY <2>2, <2>3
<1>13. CASE UpdateResource
    <2>1. /\ stage = "handle" /\ request.method = "PUT" /\ request.target \in Keyed
          /\ request.target \in Resources /\ Changing
        BY <1>13 DEF UpdateResource, At, Resources, Changing
    <2>2. CASE \E defect \in Content : Has(defect)
        <3>1. PICK names : Close(400, names)
            BY <1>13, <2>2 DEF UpdateResource
        <3>2. PICK defect \in Content : Has(defect)
            BY <2>2
        <3>3. defect \in Checked
            BY <2>1, <3>2, HandlerChecked
        <3>4. Cause(400)
            BY <3>2, <3>3, FoundIs DEF Cause
        <3> QED BY <1>1, <1>2, <1>5, <2>1, <3>1, <3>4
    <2>3. CASE ~ \E defect \in Content : Has(defect)
        <3>1. Goto(IF request.target = "queue" THEN "store" ELSE "lookup")
            BY <1>13, <2>3 DEF UpdateResource
        <3>2. request.target \in {"queue", "subscription"}
            BY <2>1 DEF Keyed
        <3> QED BY <1>11, <2>1, <2>3, <3>1, <3>2 DEF Goto, Subscribing
    <2> QED BY <2>2, <2>3
<1>14. CASE Lookup
    <2>1. /\ stage = "lookup" /\ Changing /\ stage \in Subscribing
          /\ request.target \in {"subscription", "subscriptions"}
          /\ request.target # "asterisk"
          /\ \A defect \in Content : Has(defect) =>
                defect = "several" /\ request.method = "POST"
        BY <1>0, <1>14 DEF Lookup, CauseInv, HandlerCauses, Subscribing, Changing
    <2>2. CASE Failed("missing_queue")
        <3>1. Fails("missing_queue", 40004)
            BY <1>14, <2>2 DEF Lookup
        <3> QED BY <2>1, <2>2, <3>1, HandlerChecked, FailsWithCause
    <2>3. CASE ~ Failed("missing_queue") /\ Has("capacity")
        <3>1. Close(503, Composed)
            BY <1>14, <2>3 DEF Lookup, ServiceUnavailable
        <3>2. Cause(503)
            BY <2>1, <2>3, HandlerChecked, FoundIs DEF Cause
        <3> QED BY <1>1, <1>2, <1>5, <2>1, <3>1, <3>2
    <2>4. CASE ~ Failed("missing_queue") /\ ~ Has("capacity")
        <3>1. stage' = "store" /\ UNCHANGED << request, replies >>
            BY <1>14, <2>4 DEF Lookup, Goto
        <3> QED
            BY <1>5, <2>1, <2>4, <3>1, GoesWithCause
               DEF Failed, Handling, Subscribing, Delivering
    <2> QED BY <2>2, <2>3, <2>4
<1>15. ASSUME stage = "store"
       PROVE  /\ request.target \in {"subscription", "subscriptions"} =>
                    ~ Has("missing_queue") /\ ~ Has("capacity")
              /\ \A defect \in Content : Has(defect) =>
                    defect = "several" /\ request.method = "POST"
              /\ request.target \in Resources /\ request.target # "asterisk"
    BY <1>0, <1>3, <1>15 DEF CauseInv, HandlerCauses, Subscribing
<1>16. CASE StoreCreated
    <2>1. /\ stage = "store" /\ request.method = "POST"
          /\ request.target \in Resources /\ request.target # "asterisk"
        BY <1>15, <1>16 DEF StoreCreated, At
    <2>2. CASE Failed("conflict")
        <3>1. Fails("conflict", 40009)
            BY <1>16, <2>2 DEF StoreCreated
        <3> QED BY <1>0, <1>5, <2>1, <2>2, <3>1, HandlerChecked, FailsWithCause
    <2>3. CASE ~ Failed("conflict")
        <3>1. PICK names : Close(201, names)
            BY <1>16, <2>3 DEF StoreCreated, Change
        <3>2. \A defect \in Checked : Has(defect) =>
                  defect \in ServiceDefects \cup {"content_type", "content_encoding", "no_type",
                                                  "fault"}
            BY <1>4, <1>15, <2>1, <2>3 DEF Checked, ServiceDefects, Failed
        <3>3. Cause(201)
            BY <1>5, <2>1, <2>3, <3>2, Succeeds DEF Failed, Changing
        <3> QED BY <1>1, <1>2, <1>5, <2>1, <3>1, <3>3
    <2> QED BY <2>2, <2>3
<1>17. CASE StoreUpdated
    <2>1. /\ stage = "store" /\ request.method = "PUT"
          /\ request.target \in Resources /\ request.target # "asterisk"
        BY <1>15, <1>17 DEF StoreUpdated, At
    <2>2. CASE Failed("missing")
        <3>1. Fails("missing", 40004)
            BY <1>17, <2>2 DEF StoreUpdated
        <3> QED BY <1>0, <1>5, <2>1, <2>2, <3>1, HandlerChecked, FailsWithCause
    <2>3. CASE ~ Failed("missing")
        <3>1. PICK code \in {200, 204} : \E names : Close(code, names)
            BY <1>17, <2>3 DEF StoreUpdated, Change
        <3>2. \A defect \in Checked : Has(defect) =>
                  defect \in ServiceDefects \cup {"content_type", "content_encoding", "no_type",
                                                  "fault"}
            BY <1>4, <1>15, <2>1, <2>3 DEF Checked, ServiceDefects, Failed
        <3>3. Cause(code)
            BY <1>5, <2>1, <2>3, <3>2, Succeeds DEF Failed, Changing
        <3> QED BY <1>1, <1>2, <1>5, <2>1, <3>1, <3>3
    <2> QED BY <2>2, <2>3
<1>18. CASE CreateMessage
    <2>1. /\ stage = "handle" /\ request.method = "POST" /\ request.target \in Publishing
        BY <1>18 DEF CreateMessage, At
    <2>2. CASE Has("no_type")
        <3>1. Close(415, Composed)
            BY <1>18, <2>2 DEF CreateMessage, UnsupportedMediaType
        <3>2. Cause(415)
            BY <2>1, <2>2, HandlerChecked, FoundIs DEF Cause, Entity
        <3> QED BY <1>1, <1>2, <1>5, <2>1, <3>1, <3>2
    <2>3. CASE ~ Has("no_type")
        <3>1. stage' = "queues" /\ UNCHANGED << request, replies >>
            BY <1>18, <2>3 DEF CreateMessage, Goto
        <3> QED
            BY <1>5, <2>1, <2>3, <3>1, GoesWithCause DEF Handling, Subscribing, Delivering
    <2> QED BY <2>2, <2>3
<1>19. ASSUME stage \in Delivering
       PROVE  /\ request.target \in Publishing /\ request.method = "POST" /\ Changing
              /\ request.target # "asterisk" /\ request.target \notin Resources
              /\ stage \in Handling /\ ~ Has("no_type")
              /\ stage # "queues" =>
                    ~ Has("missing") /\ ~ Has("fault") /\ ~ Has("too_large") /\ ~ Has("capacity")
              /\ stage \in {"message", "states"} => ~ request.idle /\ ~ Has("unreadable")
              /\ stage = "states" => ~ Has("conflict")
    BY <1>0, <1>3, <1>4, <1>5, <1>19 DEF CauseInv, HandlerCauses, Changing
<1>20. CASE QueuesRead
    <2>1. stage = "queues" /\ stage \in Delivering
        BY <1>20 DEF QueuesRead, Delivering
    <2>2. CASE Failed("missing")
        <3>1. Fails("missing", 40004)
            BY <1>20, <2>2 DEF QueuesRead
        <3> QED BY <1>19, <2>1, <2>2, <3>1, HandlerChecked, FailsWithCause
    <2>3. CASE ~ Failed("missing") /\ Has("too_large")
        <3>1. Close(413, Composed)
            BY <1>20, <2>3 DEF QueuesRead, RequestEntityTooLarge
        <3>2. Cause(413)
            BY <1>19, <2>1, <2>3, HandlerChecked, FoundIs DEF Cause
        <3> QED BY <1>1, <1>2, <1>19, <2>1, <3>1, <3>2
    <2>4. CASE ~ Failed("missing") /\ ~ Has("too_large") /\ Has("capacity")
        <3>1. Close(503, Composed)
            BY <1>20, <2>4 DEF QueuesRead, ServiceUnavailable
        <3>2. Cause(503)
            BY <1>19, <2>1, <2>4, HandlerChecked, FoundIs DEF Cause
        <3> QED BY <1>1, <1>2, <1>19, <2>1, <3>1, <3>2
    <2>5. CASE ~ Failed("missing") /\ ~ Has("too_large") /\ ~ Has("capacity")
        <3>1. stage' = "subscriptions" /\ UNCHANGED << request, replies >>
            BY <1>20, <2>5 DEF QueuesRead, Goto
        <3> QED
            BY <1>5, <1>19, <2>1, <2>5, <3>1, GoesWithCause
               DEF Failed, Handling, Subscribing, Delivering
    <2> QED BY <2>2, <2>3, <2>4, <2>5
<1>21. CASE SubscriptionsRead
    <2>1. stage = "subscriptions" /\ stage \in Delivering
        BY <1>21 DEF SubscriptionsRead, Delivering
    <2>2. CASE ~ Has("unreadable") /\ request.idle
        <3>1. Close(201, {"filters"})
            BY <1>21, <2>2 DEF SubscriptionsRead
        <3>2. \A defect \in Checked : Has(defect) =>
                  defect \in ServiceDefects \cup {"content_type", "content_encoding", "no_type",
                                                  "fault"}
            BY <1>19, <2>1, <2>2 DEF Checked, ServiceDefects, Publishing
        <3>3. Cause(201)
            BY <1>19, <2>1, <3>2, Succeeds
        <3> QED BY <1>1, <1>2, <1>19, <2>1, <3>1, <3>3
    <2>3. CASE ~ Has("unreadable") /\ ~ request.idle
        <3>1. stage' = "message" /\ UNCHANGED << request, replies >>
            BY <1>21, <2>3 DEF SubscriptionsRead, Goto
        <3> QED
            BY <1>5, <1>19, <2>1, <2>3, <3>1, GoesWithCause
               DEF Handling, Subscribing, Delivering
    <2>4. CASE Has("unreadable")
        <3>1. Close(500, {})
            BY <1>21, <2>4
               DEF SubscriptionsRead, Fails, FindAndInvokeFor, InternalServerError
        <3>2. Cause(500)
            BY <1>19, <2>1, <2>4, FoundIs DEF Cause, Checked
        <3>3. 500 \in Codes
            BY DEF Codes
        <3> QED BY <1>1, <1>19, <2>1, <3>1, <3>2, <3>3
    <2> QED BY <2>2, <2>3, <2>4
<1>22. CASE StoreMessage
    <2>1. stage = "message" /\ stage \in Delivering
        BY <1>22 DEF StoreMessage, Delivering
    <2>2. CASE Failed("conflict")
        <3>1. Fails("conflict", 40009)
            BY <1>22, <2>2 DEF StoreMessage
        <3> QED BY <1>0, <1>19, <2>1, <2>2, <3>1, HandlerChecked, FailsWithCause
    <2>3. CASE ~ Failed("conflict")
        <3>1. stage' = "states" /\ UNCHANGED << request, replies >>
            BY <1>22, <2>3 DEF StoreMessage
        <3> QED
            BY <1>5, <1>19, <2>1, <2>3, <3>1, GoesWithCause
               DEF Failed, Handling, Subscribing, Delivering
    <2> QED BY <2>2, <2>3
<1>23. CASE StoreStates
    <2>1. stage = "states" /\ stage \in Delivering
        BY <1>23 DEF StoreStates, Delivering
    <2>2. CASE Has("states")
        <3>1. Close(409, Composed)
            BY <1>23, <2>2 DEF StoreStates, FindAndInvokeFor, Conflict
        <3>2. Cause(409)
            BY <1>19, <2>1, <2>2, HandlerChecked, FoundIs DEF Cause
        <3> QED BY <1>1, <1>2, <1>19, <2>1, <3>1, <3>2
    <2>3. CASE ~ Has("states")
        <3>1. Close(202, {})
            BY <1>23, <2>3 DEF StoreStates
        <3>2. \A defect \in Checked : Has(defect) =>
                  defect \in ServiceDefects \cup {"content_type", "content_encoding", "no_type",
                                                  "fault"}
            BY <1>19, <2>1, <2>3 DEF Checked, ServiceDefects, Publishing
        <3>3. Cause(202)
            BY <1>19, <2>1, <3>2, Succeeds
        <3> QED BY <1>1, <1>2, <1>19, <2>1, <3>1, <3>3
    <2> QED BY <2>2, <2>3
<1> QED
    BY <1>7, <1>8, <1>9, <1>10, <1>12, <1>13, <1>14, <1>16, <1>17, <1>18, <1>20, <1>21,
       <1>22, <1>23 DEF Handler

-----------------------------------------------------------------------------
LEMMA InitiallyCauses == Init => CauseInv
<1> SUFFICES ASSUME Init PROVE CauseInv
    OBVIOUS
<1>1. stage = "rules" /\ pending = ServiceRules /\ replies = << >>
    BY DEF Init
<1>2. \A defect \in ServiceDefects : RefusedBy(defect) \in ServiceRules
    BY Priorities DEF ServiceDefects, Negotiation, RefusedBy
<1>3. ServiceCauses
    BY <1>1, <1>2, LengthBeforeChecksum DEF ServiceCauses
<1>4. RoutedCauses /\ ResourceCauses /\ HandlerCauses
    BY <1>1 DEF RoutedCauses, ResourceCauses, HandlerCauses, Handling, Subscribing, Delivering
<1>5. AnswerHasCause
    BY <1>1 DEF AnswerHasCause
<1> QED BY <1>3, <1>4, <1>5 DEF CauseInv

(* A refusal names something that is the matter with the request, and        *)
(* success says that nothing is that such a request is checked for, whatever *)
(* the request, its defects and the order of the rules of one priority       *)
(* (exchange_impl.cpp:242-259, error_handler_impl.cpp).                      *)
THEOREM AnswersHaveCauses == Spec => []AnswerHasCause
<1>1. Init => CauseInv
    BY InitiallyCauses
<1>2. IInv /\ CauseInv /\ [Next]_vars => CauseInv'
    <2>1. ASSUME CauseInv, UNCHANGED vars PROVE CauseInv'
        <3>1. UNCHANGED << request, pending, session, stage, replies >>
            BY <2>1 DEF vars
        <3>2. ServiceCauses' /\ RoutedCauses' /\ ResourceCauses' /\ HandlerCauses'
            BY <2>1, <3>1 DEF CauseInv, ServiceCauses, RoutedCauses, ResourceCauses,
               HandlerCauses, LengthKnown, Changing, Has
        <3>3. AnswerHasCause'
            BY <2>1, <3>1, FoundKept DEF CauseInv, AnswerHasCause, Cause
        <3> QED BY <3>2, <3>3 DEF CauseInv
    <2> QED BY <2>1, ServiceRuleCauses, ResourceRuleCauses, HandlerStepCauses DEF Next
<1>3. CauseInv => AnswerHasCause
    BY DEF CauseInv
<1> QED BY <1>1, <1>2, <1>3, InvariantHolds, PTL DEF Spec

=============================================================================
