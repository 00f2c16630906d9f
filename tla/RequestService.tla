---- MODULE RequestService ----
(***************************************************************************)
(* What the MCP server promises a client: the requests it was sent are     *)
(* answered one at a time, in the order they were sent, each at most once. *)
(* What it cannot read it may answer with an error that names no request.  *)
(* A frame whose length cannot be used makes the rest of the connection    *)
(* unreadable; a crash loses what was not answered; and the server ends by *)
(* itself only when nothing is left to answer.                             *)
(***************************************************************************)
EXTENDS Naturals, Sequences

CONSTANT Ids   \* positive numbers, given to requests in the order they are sent

VARIABLES
    pending,   \* ids sent and not answered
    answered,  \* the answers in order: an id, or 0 for an error without one
    state      \* "up", "deaf": nothing sent from now on is understood, "closed", "dead"

vars == <<pending, answered, state>>

Open == state \in {"up", "deaf"}

Init == pending = {} /\ answered = << >> /\ state = "up"

Submit ==
    /\ state = "up"
    /\ \E id \in Ids :
         /\ \A other \in pending : other < id
         /\ \A i \in DOMAIN answered : answered[i] < id
         /\ pending' = pending \cup {id}
    /\ UNCHANGED <<answered, state>>
Break ==
    /\ state = "up" /\ state' = "deaf"
    /\ UNCHANGED <<pending, answered>>
Serve ==
    /\ Open
    /\ \E id \in pending :
         /\ \A other \in pending : id <= other
         /\ answered' = Append(answered, id)
         /\ pending' = pending \ {id}
    /\ UNCHANGED state
Complain ==
    /\ Open /\ answered' = Append(answered, 0)
    /\ UNCHANGED <<pending, state>>
Close ==
    /\ Open /\ pending = {} /\ state' = "closed"
    /\ UNCHANGED <<pending, answered>>
Die ==
    /\ Open /\ state' = "dead" /\ pending' = {}
    /\ UNCHANGED answered
Restart ==
    /\ ~Open /\ state' = "up"
    /\ UNCHANGED <<pending, answered>>

Next == Submit \/ Break \/ Serve \/ Complain \/ Close \/ Die \/ Restart

Safety == Init /\ [][Next]_vars
Spec == Safety /\ WF_vars(Serve)
====
