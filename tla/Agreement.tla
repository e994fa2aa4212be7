----------------------------- MODULE Agreement -----------------------------
(***************************************************************************)
(* What SDX promises about the connection of one client and one service,    *)
(* without the requests, events and handlers that bring it about: it is     *)
(* opened under an id of its own, agreed to by the service's organization,  *)
(* routed part by part, and closed.                                         *)
(***************************************************************************)
CONSTANTS
    Ids,              \* the ids a connection may get
    None,             \* no connection
    Parts,            \* the parts of a connection's configuration
    RequiresApproval, \* TRUE: a policy that wants the service's agreement
    Orderly           \* TRUE: nobody changes the connection before the last
                      \* change has taken effect

VARIABLES
    current,   \* the id of the connection in force, or None
    approved,  \* TRUE while the service's organization agrees to it
    opened,    \* the ids ever given to a connection
    agreed,    \* the ids of connections that were agreed to once
    routing    \* routing[id]: the configuration that exists for a connection

vars == <<current, approved, opened, agreed, routing>>

Init ==
    /\ current = None /\ approved = FALSE
    /\ opened = {} /\ agreed = {}
    /\ routing = [id \in Ids |-> {}]

(* A connection never takes the id of an earlier one.                       *)
Open ==
    /\ current = None
    /\ \E id \in Ids \ opened :
          /\ current' = id
          /\ opened' = opened \cup {id}
          /\ approved' \in BOOLEAN
          /\ agreed' = IF approved' THEN agreed \cup {id} ELSE agreed
    /\ UNCHANGED routing

Agree ==
    /\ current # None
    /\ approved' = TRUE
    /\ agreed' = agreed \cup {current}
    /\ UNCHANGED <<current, opened, routing>>

Withdraw ==
    /\ approved' = FALSE
    /\ UNCHANGED <<current, opened, agreed, routing>>

Close ==
    /\ current # None
    /\ Orderly => routing[current] = {}
    /\ current' = None /\ approved' = FALSE
    /\ UNCHANGED <<opened, agreed, routing>>

(* A late handler may route what was agreed to and is closed by now, unless  *)
(* changes are orderly.                                                     *)
Route(id, part) ==
    /\ RequiresApproval => id \in agreed
    /\ Orderly => id = current
    /\ routing' = [routing EXCEPT ![id] = @ \cup {part}]
    /\ UNCHANGED <<current, approved, opened, agreed>>

Unroute(id, part) ==
    /\ routing' = [routing EXCEPT ![id] = @ \ {part}]
    /\ UNCHANGED <<current, approved, opened, agreed>>

Next ==
    \/ Open \/ Agree \/ Withdraw \/ Close
    \/ \E id \in Ids, part \in Parts : Route(id, part) \/ Unroute(id, part)

Spec == Init /\ [][Next]_vars
=============================================================================
