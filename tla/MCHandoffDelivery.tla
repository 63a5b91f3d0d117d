--------------------------- MODULE MCHandoffDelivery ---------------------------
(* An instance of HandoffDelivery for TLC. *)
EXTENDS HandoffDelivery

CONSTANTS i1, i2, i3, a, b

Event(id, c) == [id |-> id, content |-> c]

\* A file of two events, one that repeats an event of it, and another.
Files == <<<<Event(i1, a), Event(i2, a)>>, <<Event(i2, a)>>, <<Event(i3, a)>>>>

\* The last file comes in two editions, one of which is not a document.
Editions == <<{1}, {1}, {1, 2}>>
Spoilt == {<<3, 2>>}

\* A repeat of one event, and an id that comes with another content.
Competing == {Event(i2, a), Event(i3, b)}
=============================================================================
