-------------------------------- MODULE EventLog --------------------------------
(***************************************************************************)
(* What the server promises of POST /api/v1/events: an event id keeps the  *)
(* content it was first accepted with.  Sending it again is answered       *)
(* "duplicate", sending the id with another content "conflict", and        *)
(* neither changes anything.  Ingestion implements this; HandoffDelivery   *)
(* relies on it.                                                           *)
(***************************************************************************)
CONSTANTS
    EventId,
    Content         \* the bodies of events, after their validation

VARIABLE log        \* the content of each accepted id

LogType == DOMAIN log \subseteq EventId /\ log \in [DOMAIN log -> Content]

Init == log = [id \in {} |-> id]

Answer(id, c) ==
    IF id \notin DOMAIN log THEN "accepted"
    ELSE IF log[id] = c THEN "duplicate" ELSE "conflict"

Accept(id, c) ==
    /\ id \notin DOMAIN log
    /\ log' = [x \in DOMAIN log \cup {id} |-> IF x = id THEN c ELSE log[x]]

\* A request that gets as far as the table, whatever it is answered.
Receive(id, c) == Accept(id, c) \/ (id \in DOMAIN log /\ UNCHANGED log)

Next == \E id \in EventId, c \in Content : Accept(id, c)

Spec == Init /\ [][Next]_log
=============================================================================
