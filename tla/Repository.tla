----------------------------- MODULE Repository -----------------------------
(* What STLRepository computes, and the requests that use it: the rows, the *)
(* queries that the session rules and the handlers of ExchangeImpl build,   *)
(* and GET, POST, PUT and DELETE of queues and subscriptions, one request   *)
(* at a time.  Broker has their interleavings, and the limits.              *)
EXTENDS Validator, Lists, Integers, FiniteSets, SequencesExt

CONSTANTS
    Bodies,      \* what a client may POST: [type, row]
    Changes,     \* what a client may PUT: lists of resources
    Selections,  \* what the URI selects: [keys, filters, index, limit, fields]
    Lower(_),    \* String::lowercase
    Default,     \* the limits of a queue that gives none
    From(_),     \* names of properties from this one on, in their order
    SizeMax,     \* numeric_limits< size_t >::max( ), the limit by default
    MaxRows      \* bound: rows stored

(* A multimap, as a row or as what a client sends: no property is without a *)
(* value.                                                                   *)
IsMultimap(row) ==
    /\ row = [p \in DOMAIN row |-> row[p]]
    /\ \A p \in DOMAIN row : row[p] \in Seq(Range(row[p])) \ {<< >>}

ASSUME BodiesAssumption ==
    \A body \in Bodies :
        /\ body.values \in Seq(Range(body.values))
        /\ \A value \in Range(body.values) : IsMultimap(value) /\ "key" \in DOMAIN value

ASSUME ChangesAssumption ==
    \A changes \in Changes :
        /\ changes \in Seq(Range(changes))
        /\ \A change \in Range(changes) : IsMultimap(change)

(* What String::split makes of a value with commas may be a single item, or  *)
(* none: "c," or ",".  A value without a comma is one item.                  *)
ASSUME SelectionsAssumption ==
    /\ Selections \subseteq
          [keys : Seq(STRING),
           filters : Seq([name : STRING, comma : BOOLEAN, items : Seq(STRING)]),
           index : Nat, limit : Nat, fields : SUBSET STRING]
    /\ \A selection \in Selections : \A i \in DOMAIN selection.filters :
          ~ selection.filters[i].comma => Len(selection.filters[i].items) = 1

(* Parameters come in the order of their names. *)
ASSUME FiltersAssumption ==
    \A selection \in Selections :
        LET filters == selection.filters
        IN  \A i, k, j \in DOMAIN filters :
               i <= k /\ k <= j /\ filters[i].name = filters[j].name =>
                   filters[k].name = filters[i].name

(* What is lowered stays as it is. *)
ASSUME LowerAssumption ==
    \A selection \in Selections : \A i \in DOMAIN selection.keys :
        Lower(Lower(selection.keys[i])) = Lower(selection.keys[i])

ASSUME DefaultsAssumption ==
    /\ Default \in Numbers
    /\ \A p \in {"key", "type"} \cup Limits :
          /\ From(p) \in Seq(Range(From(p))) /\ From(p) # << >>
          /\ From(p)[1] = p /\ "type" \in Range(From(p))
    /\ MaxRows \in Nat /\ SizeMax \in Nat /\ MaxRows <= SizeMax

VARIABLES
    rows,        \* m_resources
    answer       \* the request just answered, its status code and its body

vars == << rows, answer >>

Types == {"queue", "subscription"}

(* A Resource is a multimap: a property has its values in the order of their *)
(* insertion.                                                                *)
Values(row, p) == IF p \in DOMAIN row THEN row[p] ELSE << >>

Key(row) == Lower(row["key"][1])

Type(row) == row["type"][1]

-----------------------------------------------------------------------------
(* The query: what the rules put in the session, copied by Query( session ), *)
(* and the type, which the handler adds to the exclusive filters.            *)

(* Rule Filters: a parameter with a comma is inclusive, its items one filter *)
(* each; any other is exclusive.  Both lists are in the order of the names.  *)
Inclusive(filters) ==
    FlattenSeq([i \in DOMAIN filters |->
        IF filters[i].comma
        THEN [j \in DOMAIN filters[i].items |-> << filters[i].name, filters[i].items[j] >>]
        ELSE << >>])

Exclusive(filters) ==
    {<< filters[i].name, filters[i].items[1] >> :
        i \in {i \in DOMAIN filters : ~ filters[i].comma}}

(* Faulty variant: every query asks for subscriptions as well. *)
QueryIncluding(selection, type) ==
    [keys |-> [i \in DOMAIN selection.keys |-> Lower(selection.keys[i])],
     inclusive |-> Inclusive(selection.filters),
     exclusive |-> Exclusive(selection.filters) \cup {<< "type", type >>},
     index |-> selection.index, limit |-> selection.limit,
     fields |-> selection.fields, include |-> "subscription", error |-> 0,
     resultset |-> << >>]

(* Rules Key and Keys lower what they add. *)
QueryOf(selection, type) ==
    [keys |-> [i \in DOMAIN selection.keys |-> Lower(selection.keys[i])],
     inclusive |-> Inclusive(selection.filters),
     exclusive |-> Exclusive(selection.filters) \cup {<< "type", type >>},
     index |-> selection.index, limit |-> selection.limit,
     fields |-> selection.fields, include |-> "", error |-> 0,
     resultset |-> << >>]

(* The query that looks up the queues a subscription names. *)
QueuesQuery(keys) ==
    [keys |-> keys, inclusive |-> << >>, exclusive |-> {<< "type", "queue" >>},
     index |-> 0, limit |-> SizeMax, fields |-> {}, include |-> "subscription",
     error |-> 0, resultset |-> << >>]

-----------------------------------------------------------------------------
(* STLRepository. *)

(* Faulty variant: keys compared as they are written. *)
PositionExact(list, key) ==
    SelectInSeq(list, LAMBDA row : row["key"][1] = key)

(* Where find_if finds a key first, or 0 for the end. *)
Position(list, key) == SelectInSeq(list, LAMBDA row : Key(row) = Lower(key))

PassesExclusive(row, filters) ==
    \A f \in filters : f[2] \in Range(Values(row, f[1]))

(* Faulty variant: the next group is skipped as well. *)
PassesInclusiveOnce(row, filters) ==
    \/ filters = << >>
    \/ \E i \in DOMAIN filters :
          /\ filters[i][1] = filters[1][1]
          /\ filters[i][2] \in Range(Values(row, filters[i][1]))

Group(filters, i) == {j \in DOMAIN filters : filters[j][1] = filters[i][1]}

(* The filter reached stands for all of its name.  The iterator moves to the *)
(* first filter of the next name, and the loop steps past that one.          *)
Following(filters, i) ==
    LET end == 1 + CHOOSE j \in Group(filters, i) : \A k \in Group(filters, i) : k <= j
    IN  IF end <= Len(filters) THEN end + 1 ELSE i + 1

(* The walk over the inclusive filters: the row must have one of the filters *)
(* of each name that is reached.                                             *)
PassesInclusive(row, filters) ==
    LET reached[i \in 1 .. Len(filters) + 1] ==
            IF i > Len(filters) THEN {} ELSE {i} \cup reached[Following(filters, i)]
    IN  \A i \in reached[1] :
            \E j \in Group(filters, i) : filters[j][2] \in Range(Values(row, filters[j][1]))

(* Faulty variant: the limit taken for the end of the page. *)
PageUpTo(list, q) ==
    SubSeq(list, q.index + 1, IF q.limit > Len(list) THEN Len(list) ELSE q.limit)

Page(list, q) ==
    IF q.index < Len(list) /\ q.limit # 0
    THEN SubSeq(list, q.index + 1,
                IF q.limit > Len(list) - q.index THEN Len(list) ELSE q.index + q.limit)
    ELSE << >>

(* include: every subscription once for each of the values that it names.   *)
Related(list, relationship) ==
    IF relationship = "" THEN << >>
    ELSE FlattenSeq([i \in DOMAIN rows |->
            IF Type(rows[i]) # relationship THEN << >>
            ELSE LET naming == Kept(list, {j \in DOMAIN list :
                         \E name \in Range(Values(rows[i], "queues")) :
                             Lower(name) = Key(list[j])})
                 IN  [j \in DOMAIN naming |-> rows[i]]])

(* Faulty variant: rows left empty stay in the result. *)
FieldsWithEmpty(list, fields) ==
    IF fields = {} THEN list
    ELSE [i \in DOMAIN list |-> [p \in DOMAIN list[i] \cap fields |-> list[i][p]]]

(* fields: each row cut to what is asked for; what is left empty is dropped. *)
Fields(list, fields) ==
    IF fields = {} THEN list
    ELSE LET cut == [i \in DOMAIN list |->
                 [p \in DOMAIN list[i] \cap fields |-> list[i][p]]]
         IN  Kept(cut, {i \in DOMAIN cut : DOMAIN cut[i] # {}})

(* A key that is missing fails the read as a whole and leaves the results   *)
(* of the query as they were.                                               *)
Read(q) ==
    IF \E i \in DOMAIN q.keys : Position(rows, q.keys[i]) = 0
    THEN [q EXCEPT !.error = 40004]
    ELSE LET found == IF q.keys = << >> THEN rows
                      ELSE [i \in DOMAIN q.keys |-> rows[Position(rows, q.keys[i])]]
             passing == Kept(found, {i \in DOMAIN found :
                           /\ PassesExclusive(found[i], q.exclusive)
                           /\ PassesInclusive(found[i], q.inclusive)})
             page == Page(passing, q)
         IN  [q EXCEPT !.resultset = Fields(page \o Related(page, q.include), q.fields)]

(* Faulty variant: what precedes the conflict is stored. *)
CreatePartly(values, q) ==
    LET conflict == SelectInSeq(values, LAMBDA value : Position(rows, value["key"][1]) # 0)
    IN  IF conflict # 0
        THEN [list |-> rows \o SubSeq(values, 1, conflict - 1), query |-> [q EXCEPT !.error = 40009]]
        ELSE [list |-> rows \o values,
              query |-> [q EXCEPT !.resultset = Fields(values, q.fields)]]

(* All of the values, or none of them when a key is in use. *)
Create(values, q) ==
    IF \E i \in DOMAIN values : Position(rows, values[i]["key"][1]) # 0
    THEN [list |-> rows, query |-> [q EXCEPT !.error = 40009]]
    ELSE [list |-> rows \o values,
          query |-> [q EXCEPT !.resultset = Fields(values, q.fields)]]

(* The change is applied value by value to the first value that is found:   *)
(* the last of them stays.  Applied says that one of them made a difference. *)
Changed(row, change) ==
    [p \in DOMAIN row \cup DOMAIN change |->
        IF p \notin DOMAIN change THEN row[p]
        ELSE IF p \notin DOMAIN row THEN << Last(change[p]) >>
        ELSE [row[p] EXCEPT ![1] = Last(change[p])]]

(* Faulty variant: only a property that was missing counts. *)
AppliedIfNew(row, change) == ~ DOMAIN change \subseteq DOMAIN row

Applied(row, change) ==
    \E p \in DOMAIN change :
        \/ p \notin DOMAIN row
        \/ row[p][1] # change[p][1]
        \/ \E i \in 2 .. Len(change[p]) : change[p][i] # change[p][i - 1]

(* Each result is written over the first row with its key.  Nothing applied  *)
(* leaves an empty result.                                                   *)
Update(change, q) ==
    LET read == Read([q EXCEPT !.fields = {}])
        results == [i \in DOMAIN read.resultset |-> Changed(read.resultset[i], change)]
        applied == \E i \in DOMAIN results : Applied(read.resultset[i], change)
        written[n \in 0 .. Len(results)] ==
            IF n = 0 THEN rows
            ELSE [written[n - 1] EXCEPT ![Position(written[n - 1], results[n]["key"][1])] = results[n]]
    IN  IF read.error # 0
        THEN [list |-> rows, query |-> [q EXCEPT !.error = read.error]]
        ELSE [list |-> written[Len(results)],
              query |-> [q EXCEPT !.resultset =
                            IF applied THEN Fields(results, q.fields) ELSE << >>]]

(* lower_bound( name ): without the property, the one that is next in the    *)
(* order of their names, or the end, for which 0 stands.                     *)
Bound(row, name) == SelectInSeq(From(name), LAMBDA p : p \in DOMAIN row)

LowerBound(row, name) == row[From(name)[Bound(row, name)]][1]

FoundFor(list, result) ==
    IF Bound(result, "key") = 0 THEN 0 ELSE Position(list, LowerBound(result, "key"))

(* Each result erases the first row with its key; with fields that leave the *)
(* key out, another row, if any.  Erasing the end is undefined.              *)
Destroy(q) ==
    LET read == Read(q)
        erased[n \in 0 .. Len(read.resultset)] ==
            IF n = 0 THEN [list |-> rows, defined |-> TRUE]
            ELSE LET at == FoundFor(erased[n - 1].list, read.resultset[n])
                 IN  IF at = 0 THEN [erased[n - 1] EXCEPT !.defined = FALSE]
                     ELSE [erased[n - 1] EXCEPT !.list = RemoveAt(@, at)]
    IN  [store |-> erased[IF read.error # 0 THEN 0 ELSE Len(read.resultset)],
         query |-> read]

-----------------------------------------------------------------------------
(* The handlers of ExchangeImpl. *)

NoAnswer == [method |-> "", code |-> 0]

(* In place of a status code, when the program has no defined behaviour. *)
Undefined == 999

Init ==
    /\ rows = << >>
    /\ answer = NoAnswer

Reply(method, type, selection, change, code, body) ==
    answer' = [method |-> method, type |-> type, selection |-> selection,
               change |-> change, code |-> code, body |-> body]

(* After undefined behaviour nothing is known. *)
Lost(method, type, selection, change) ==
    /\ Reply(method, type, selection, change, Undefined, << >>)
    /\ rows' = << >>

(* The error codes of the repository as find_and_invoke_for answers them. *)
Status(error) == IF error = 40009 THEN 409 ELSE 404

(* read_resource_handler *)
Get(type, selection) ==
    LET q == Read(QueryOf(selection, type))
    IN  /\ Reply("GET", type, selection, << >>,
                 IF q.error # 0 THEN Status(q.error) ELSE 200, q.resultset)
        /\ UNCHANGED rows

(* The queues that subscriptions name, as the lookup of them reads it. *)
Lookup(list) ==
    Read(QueuesQuery(SetToSeq(UNION {Range(Values(list[i], "queues")) : i \in DOMAIN list})))

(* stoul of a limit that is none throws, and restbed answers for the handler. *)
Throws(list) == \E row \in Range(list) : \E p \in Limits : LowerBound(row, p) \notin Numbers

(* The queues among what was read: what stands for the type says so. *)
QueuesOf(list) == Kept(list, {i \in DOMAIN list : LowerBound(list[i], "type") = "queue"})

(* initialise_default_resource.  Clients give the keys: one that is made is  *)
(* like one that was not used before.                                        *)
Initialised(value, type) ==
    LET added == IF type = "queue" THEN Limits \cup {"type"} ELSE {"state", "type"}
    IN  [p \in DOMAIN value \cup added |->
            IF p \in DOMAIN value THEN value[p]
            ELSE CASE p = "type" -> << type >>
                   [] p = "state" -> << "reachable" >>
                   [] OTHER -> << Default >>]

Refused(value, type) ==
    \/ has_reserved_create_fields(value)
    \/ has_invalid_create_fields(value, type)
    \/ has_invalid_key(value)

(* create_resource_handler.  Nothing compares the keys of one request.  Of   *)
(* what the URI selects a creation depends on the fields alone.              *)
Post(type, selection, values) ==
    LET initialised == [i \in DOMAIN values |-> Initialised(values[i], type)]
        lookup == Lookup(values)
        created == Create(initialised, QueryOf(selection, type))
    IN  /\ Len(rows) + Len(values) <= MaxRows
        /\ selection.keys = << >> /\ selection.filters = << >> /\ selection.index = 0
        /\ IF \E i \in DOMAIN values : Refused(values[i], type)
           THEN /\ Reply("POST", type, selection, values, 400, << >>)
                /\ UNCHANGED rows
           ELSE IF type = "subscription" /\ lookup.error # 0
           THEN /\ Reply("POST", type, selection, values, Status(lookup.error), << >>)
                /\ UNCHANGED rows
           ELSE IF type = "subscription" /\ Throws(QueuesOf(lookup.resultset))
           THEN /\ Reply("POST", type, selection, values, 500, << >>)
                /\ UNCHANGED rows
           ELSE /\ Reply("POST", type, selection, values,
                         IF created.query.error # 0 THEN Status(created.query.error) ELSE 201,
                         created.query.resultset)
                /\ rows' = created.list

(* Faulty variant: the keys of the session are not restored. *)
UpdateQueryUnkeyed(selection, type) == [QueryOf(selection, type) EXCEPT !.keys = << >>]

(* The query of a PUT.  For a subscription it is the query that looked up    *)
(* the queues, all but its include replaced by what the session holds.       *)
UpdateQuery(selection, type) ==
    [QueryOf(selection, type) EXCEPT !.include = IF type = "queue" THEN "" ELSE type]

(* update_resource_handler, which takes the last of the resources, without   *)
(* looking whether there is one, and adds the type.  Without results, from   *)
(* nothing changed or from fields, there is no content.                      *)
Put(type, selection, changes) ==
    LET change == Last(changes)
        typed == [p \in DOMAIN change \cup {"type"} |->
                     IF p = "type" THEN << type >> ELSE change[p]]
        lookup == Lookup(<< change >>)
        updated == Update(typed, UpdateQuery(selection, type))
    IN  /\ Len(selection.keys) = 1
        /\ IF changes = << >> THEN Lost("PUT", type, selection, changes)
           ELSE IF \/ Len(changes) > 1
                   \/ has_reserved_update_fields(change) \/ has_invalid_update_fields(change, type)
           THEN /\ Reply("PUT", type, selection, changes, 400, << >>)
                /\ UNCHANGED rows
           ELSE IF type = "subscription" /\ lookup.error # 0
           THEN /\ Reply("PUT", type, selection, changes, Status(lookup.error), << >>)
                /\ UNCHANGED rows
           ELSE IF type = "subscription" /\ Throws(QueuesOf(lookup.resultset))
           THEN /\ Reply("PUT", type, selection, changes, 500, << >>)
                /\ UNCHANGED rows
           ELSE /\ Reply("PUT", type, selection, changes,
                         IF updated.query.error # 0 THEN Status(updated.query.error)
                         ELSE IF updated.query.resultset = << >> THEN 204 ELSE 200,
                         updated.query.resultset)
                /\ rows' = updated.list

(* Faulty variant: the filters of the queues are exclusive.                  *)
ReachableQueryOfAll(queues) ==
    [QueryOf([keys |-> << >>, filters |-> << >>, index |-> 0, limit |-> SizeMax,
              fields |-> {}], "subscription")
        EXCEPT !.exclusive = @ \cup {<< "state", "reachable" >>}
                                \cup {<< "queues", LowerBound(queue, "key") >> : queue \in Range(queues)}]

(* The subscriptions a publication is for: reachable, and inclusively those  *)
(* of each queue, whose key is taken as it was read.                         *)
ReachableQuery(queues) ==
    [QueryOf([keys |-> << >>, filters |-> << >>, index |-> 0, limit |-> SizeMax,
              fields |-> {}], "subscription")
        EXCEPT !.inclusive = [i \in DOMAIN queues |-> << "queues", LowerBound(queues[i], "key") >>],
               !.exclusive = @ \cup {<< "state", "reachable" >>}]

(* Of the properties of make_message, those from "key" on. *)
MessageFromKey ==
    {"key", "modified", "origin", "protocol", "protocol-version", "query", "size", "type"}

(* create_message_handler and its callbacks up to the rows that get a state. *)
(* Queues, and the message that was stored, are read as the fields of the    *)
(* URI left them.  Limits are the subject of Broker, and so are the states   *)
(* of the queues that the first read includes: cut as well, one without its  *)
(* type is read beyond its end.                                              *)
Publish(selection) ==
    LET read == Read(QueryOf(selection, "queue"))
        fields == selection.fields
        queues == QueuesOf(read.resultset)
        reached == Read(ReachableQuery(queues)).resultset
        receivers == Kept(reached, {i \in DOMAIN reached :
                        \E name \in Range(Values(reached[i], "queues")) :
                           \E queue \in Range(queues) :
                              Lower(name) = Lower(LowerBound(queue, "key"))})
        Publication(code, body) ==
            /\ Reply("PUBLISH", "message", selection, << >>, code, body)
            /\ UNCHANGED rows
    IN  IF read.error # 0 THEN Publication(Status(read.error), << >>)
        ELSE \/ /\ fields # {} /\ "type" \notin fields
                /\ Read([QueryOf(selection, "queue") EXCEPT !.fields = {}]).resultset # << >>
                /\ Lost("PUBLISH", "message", selection, << >>)
             \/ /\ \A row \in Range(read.resultset) : Bound(row, "type") # 0
                /\ IF Throws(queues) THEN Publication(500, << >>)
                   ELSE IF receivers = << >> THEN Publication(201, << >>)
                   ELSE IF fields # {} /\ fields \cap MessageFromKey = {}
                   THEN Lost("PUBLISH", "message", selection, << >>)
                   ELSE Publication(202, receivers)

(* delete_resource_handler *)
Delete(type, selection) ==
    LET destroyed == Destroy(QueryOf(selection, type))
    IN  IF ~ destroyed.store.defined THEN Lost("DELETE", type, selection, << >>)
        ELSE /\ Reply("DELETE", type, selection, << >>,
                      IF destroyed.query.error # 0 THEN 404 ELSE 204, << >>)
             /\ rows' = destroyed.store.list

Request ==
    /\ answer = NoAnswer
    /\ \E selection \in Selections :
          \/ \E type \in Types :
                \/ Get(type, selection)
                \/ \E body \in Bodies : body.type = type /\ Post(type, selection, body.values)
                \/ \E changes \in Changes : Put(type, selection, changes)
                \/ Delete(type, selection)
          \/ Publish(selection)

(* The client has its answer, and the next request may come. *)
Answered ==
    /\ answer # NoAnswer
    /\ answer.code # Undefined
    /\ answer' = NoAnswer
    /\ UNCHANGED rows

Next == Request \/ Answered

Spec == Init /\ [][Next]_vars

-----------------------------------------------------------------------------
(* Properties. *)

(* What the handlers and Broker read of a row without looking whether it is  *)
(* there: the limits of a queue, the endpoint and the state of a subscription. *)
Complete(row) ==
    IF Type(row) = "queue" THEN Limits \subseteq DOMAIN row
    ELSE {"endpoint", "state"} \subseteq DOMAIN row /\ Len(row["state"]) = 1

(* Type invariant: every row has a key and one type, what is read of its     *)
(* type, and no property without a value; no answer holds an empty row.      *)
TypeOK ==
    /\ rows \in Seq(Range(rows)) /\ Len(rows) <= MaxRows
    /\ \A row \in Range(rows) :
          /\ IsMultimap(row)
          /\ {"key", "type"} \subseteq DOMAIN row
          /\ row["type"] \in {<< type >> : type \in Types}
          /\ Complete(row)
    /\ answer # NoAnswer => \A row \in Range(answer.body) : DOMAIN row # {}

KeysDiffer(list) ==
    \A i, j \in DOMAIN list : Key(list[i]) = Key(list[j]) => i = j

SharedIn(key, list) ==
    \E i, j \in DOMAIN list : i # j /\ Key(list[i]) = key /\ Key(list[j]) = key

(* However a key is spelt, it is taken once: rows come to share one only by  *)
(* a POST that gives it to several of its own resources, which is not looked *)
(* for (stl_repository.cpp:69-86, and 202, where an update writes a row back *)
(* over the first that has its key).                                         *)
KeysTakenOnce ==
    [][\A i, j \in DOMAIN rows' :
          i # j /\ Key(rows'[i]) = Key(rows'[j]) =>
             \/ SharedIn(Key(rows'[i]), rows)
             \/ answer'.method = "POST" /\ SharedIn(Key(rows'[i]), answer'.change)]_vars

(* Of consecutive names with one item each, every second one is passed over, *)
(* and so is the first of them behind a name that is not.                    *)
PassedOver(filters) ==
    LET over[i \in 0 .. Len(filters)] ==
            i > 1 /\ Group(filters, i) = {i} /\ ~ over[i - 1]
    IN  {i \in DOMAIN filters : over[i]}

(* The rows of a selection: those of the type, named by the keys when there  *)
(* are any, that have the value of each filter without a comma, and one of   *)
(* the items of each name with one that is not passed over; of these, in     *)
(* their order, the ones of the page.                                        *)
Wanted(row, type, filters) ==
    LET listed == Inclusive(filters)
    IN  /\ Type(row) = type
        /\ \A f \in Exclusive(filters) : f[2] \in Range(Values(row, f[1]))
        /\ \A i \in DOMAIN listed \ PassedOver(listed) :
              \E j \in Group(listed, i) : listed[j][2] \in Range(Values(row, listed[i][1]))

(* The first row that has the key. *)
RowOf(list, key) ==
    list[CHOOSE i \in DOMAIN list :
            /\ Key(list[i]) = Lower(key)
            /\ \A j \in 1 .. i - 1 : Key(list[j]) # Lower(key)]

Selected(list, type, selection) ==
    LET named == IF selection.keys = << >> THEN list
                 ELSE [i \in DOMAIN selection.keys |-> RowOf(list, selection.keys[i])]
        wanted == Kept(named, {i \in DOMAIN named : Wanted(named[i], type, selection.filters)})
        paged == {i \in DOMAIN wanted :
                    selection.index < i /\ i - selection.index <= selection.limit}
    IN  [n \in 1 .. Cardinality(paged) |-> wanted[selection.index + n]]

AllFound(list, selection) ==
    \A i \in DOMAIN selection.keys :
        \E row \in Range(list) : Key(row) = Lower(selection.keys[i])

(* GET answers the rows of the selection, each with the fields asked for,    *)
(* and without those that have none of them; a single key that is missing    *)
(* answers 404 (stl_repository.cpp:96-157, 372-459).                         *)
ReadIsExact ==
    answer.method = "GET" =>
        /\ answer.code = IF AllFound(rows, answer.selection) THEN 200 ELSE 404
        /\ answer.code = 200 =>
             LET fields == answer.selection.fields
                 selected == Selected(rows, answer.type, answer.selection)
                 shown == {i \in DOMAIN selected :
                             fields = {} \/ DOMAIN selected[i] \cap fields # {}}
             IN  /\ Len(answer.body) = Cardinality(shown)
                 /\ \A i \in shown :
                       answer.body[Cardinality({j \in shown : j <= i})] =
                           [p \in {p \in DOMAIN selected[i] : fields = {} \/ p \in fields} |->
                               selected[i][p]]

(* The documentation of the filters: a row that a query answers has every    *)
(* item of each of them (NETWORK-API.md:268, "contain both").                *)
FiltersAsDocumented ==
    answer.method = "GET" /\ answer.code = 200 /\ answer.selection.fields = {} =>
        \A row \in Range(answer.body) : \A i \in DOMAIN answer.selection.filters :
            LET filter == answer.selection.filters[i]
            IN  Range(filter.items) \subseteq Range(Values(row, filter.name))

(* A message goes to the reachable subscriptions that name one of the queues *)
(* selected in the very spelling of its key, and 201 says that there are     *)
(* none: one that names it in another spelling is accepted, and counted      *)
(* against the limit, but never served (exchange_impl.cpp:943, 990).  With   *)
(* fields they must keep what identifies a queue.                            *)
PublishReachesNamed ==
    answer.method = "PUBLISH" /\ answer.code \in {201, 202}
            /\ (answer.selection.fields = {} \/ {"key", "type"} \subseteq answer.selection.fields) =>
        LET queues == Selected(rows, "queue", answer.selection)
            named == {row \in Range(rows) :
                        /\ Type(row) = "subscription"
                        /\ row["state"] = << "reachable" >>
                        /\ \E i \in DOMAIN queues :
                              queues[i]["key"][1] \in Range(Values(row, "queues"))}
        IN  /\ Range(answer.body) = named
            /\ answer.code = IF named = {} THEN 201 ELSE 202

(* The only requests without a defined outcome are DELETEs that name a key   *)
(* twice, or whose fields leave the key out: the second erase of a row, and  *)
(* the erase of one that is not found (stl_repository.cpp:247-258); a PUT of *)
(* an empty list (exchange_impl.cpp:533); and publications whose fields      *)
(* leave the type out (exchange_impl.cpp:898, 850).                          *)
UndefinedHasCause ==
    answer.code = Undefined =>
        LET keys == answer.selection.keys
            fields == answer.selection.fields
        IN  \/ /\ answer.method = "DELETE"
               /\ \/ fields # {} /\ "key" \notin fields
                  \/ \E i, j \in DOMAIN keys : i # j /\ Lower(keys[i]) = Lower(keys[j])
            \/ answer.method = "PUT" /\ answer.change = << >>
            \/ answer.method = "PUBLISH" /\ fields # {} /\ "type" \notin fields

(* A request that is refused leaves no trace, even when it was for several   *)
(* resources (stl_repository.cpp:69-86, 168-171, 234-243).                   *)
RefusedChangesNothing ==
    [][answer'.code \in {400, 404, 409, 500} => rows' = rows]_vars

(* A PUT changes the resource of its URI and no other, except for the        *)
(* subscriptions that name this one as a queue: the include of the lookup is *)
(* still in the query of the update (exchange_impl.cpp:571, 642).  Where rows *)
(* share a key, what is meant for one is written over the first of them.     *)
UpdateIsLocal ==
    [][answer'.method = "PUT" /\ answer'.code # Undefined =>
          LET key == Lower(answer'.selection.keys[1])
              Meant(row) ==
                 \/ Key(row) = key
                 \/ /\ answer'.type = "subscription"
                    /\ \E name \in Range(Values(row, "queues")) : Lower(name) = key
          IN  /\ Len(rows') = Len(rows)
              /\ \A i \in DOMAIN rows :
                    rows'[i] # rows[i] =>
                        \E j \in DOMAIN rows : Key(rows[j]) = Key(rows[i]) /\ Meant(rows[j])
      ]_vars

(* A PUT without fields that answers 204 has changed nothing: the client is  *)
(* told of every change with 200 (exchange_impl.cpp:817).  This takes rows   *)
(* of different keys.                                                        *)
NoContentChangesNothing ==
    [][/\ KeysDiffer(rows)
       /\ answer'.method = "PUT" /\ answer'.code = 204 /\ answer'.selection.fields = {}
       => rows' = rows]_vars

(* What publishing and delivering take for granted of a row: numbers for the  *)
(* limits (stoul throws otherwise), an endpoint to send to.                  *)
Usable(row) ==
    IF Type(row) = "queue" THEN \A p \in Limits : row[p][1] \in Numbers
    ELSE row["endpoint"][1] \in Endpoints

(* What is stored stays usable, as long as nobody PUTs several values for a  *)
(* property: only the first of them is validated, and the last one stored    *)
(* (validator_impl.cpp:116-136, stl_repository.cpp:181-200).                 *)
StoredStaysUsable ==
    [][(/\ \A row \in Range(rows) : Usable(row)
        /\ answer'.method = "PUT" =>
              \A change \in Range(answer'.change) : \A p \in DOMAIN change : Len(change[p]) = 1)
       => \A row \in Range(rows') : Usable(row)]_vars

(* A DELETE that succeeds removes the rows that a GET of the same selection  *)
(* would answer, and no other.  (With fields the key must be one of them:    *)
(* otherwise rows stay, or others go, as stl_repository.cpp:252 has it; and  *)
(* of rows that share a key the first goes instead of the one selected.)     *)
DeleteIsExact ==
    [][KeysDiffer(rows) /\ answer'.method = "DELETE" /\ answer'.code = 204
            /\ (answer'.selection.fields = {} \/ "key" \in answer'.selection.fields) =>
          LET gone == Range(Selected(rows, answer'.type, answer'.selection))
          IN  rows' = Kept(rows, {i \in DOMAIN rows : rows[i] \notin gone})]_vars
=============================================================================
