----------------------------- MODULE MCRequest -----------------------------
(* Requests for TLC: of every kind with no defect or one of them, and the    *)
(* three that go furthest with any two.                                      *)
EXTENDS Request

AtMostOne == {{}} \cup {{d} : d \in Defects}

OneOrTwo == {{d, e} : d, e \in Defects}

Simple ==
    {r \in [target : Targets, method : Methods, defects : AtMostOne,
            entity : BOOLEAN, idle : BOOLEAN] :
        /\ r.idle => r.method \in {"PUT", "POST"}
        /\ r.method \in Methods \ {"PUT", "POST"} /\ r.entity => r.defects = {}}

Twofold ==
    {r \in [target : {"subscription", "subscriptions", "queue_messages"},
            method : {"PUT", "POST"}, defects : OneOrTwo, entity : {TRUE}, idle : {FALSE}] :
        r.method = IF r.target = "subscription" THEN "PUT" ELSE "POST"}

ARequest == Simple \cup Twofold
=============================================================================
