------------------------------- MODULE AgentAuth -------------------------------
(***************************************************************************)
(* Authentication of endpoint requests (services/agent_auth.py): every     *)
(* request carries the second it was signed in and a nonce of its own.     *)
(*                                                                         *)
(* The network may deliver a signed request late, repeatedly or never.     *)
(* The server looks at the clock in whole seconds to refuse what is stale, *)
(* remembers the nonces it has seen, and forgets them by the exact time.   *)
(* Between the check and the commit of a request the clock runs on.        *)
(***************************************************************************)
EXTENDS Integers

CONSTANTS
    Agent,          \* ids of credentials
    Nonce,          \* random values that senders draw
    Route,          \* what a request asks for
    OpenToDisabled, \* routes that a disabled agent may still use
    Window,         \* seconds a stamp may be off, agent_replay_window_seconds
    Lag, Lead,      \* seconds a sender's clock may be behind or ahead
    MaxHandling,    \* seconds a request may take from check to commit
    Fractions,      \* clock readings per second
    MaxSecond,      \* bound of the clock
    NoRequest       \* the server is handling nothing

ASSUME AuthAssumption ==
    /\ OpenToDisabled \subseteq Route
    /\ Window \in Nat /\ Lag \in Nat /\ Lead \in Nat /\ MaxHandling \in Nat
    /\ Fractions \in Nat \ {0}
    /\ MaxSecond \in Nat

VARIABLES
    second, fraction,   \* the server's clock
    enabled,            \* the enrolled agents, and whether each is enabled
    sent,               \* every request signed so far; the network keeps them all
    nonces,             \* the table agent_nonces
    handling,           \* the request that has passed the checks, and since when
    accepted,           \* history: how often each request was accepted
    firstAccepted       \* history: in which second it was accepted first

authVars == <<second, fraction, enabled, sent, nonces, handling, accepted, firstAccepted>>
history == <<accepted, firstAccepted>>
clock == <<second, fraction>>

Requests == [agent : Agent, nonce : Nonce, route : Route, stamp : Int]
NonceRow == [agent : Agent, nonce : Nonce, second : Nat, fraction : Nat]

TypeOK ==
    /\ second \in Nat /\ fraction \in 0..(Fractions - 1)
    /\ DOMAIN enabled \subseteq Agent /\ enabled \in [DOMAIN enabled -> BOOLEAN]
    /\ sent \subseteq Requests
    /\ \A r \in sent : r.agent \in DOMAIN enabled
    /\ nonces \subseteq NonceRow
    /\ handling \in [request : sent, since : Nat] \cup {NoRequest}
    /\ accepted \in [sent -> Nat] /\ firstAccepted \in [sent -> Nat]

Init ==
    /\ second = 0 /\ fraction = 0
    /\ enabled = [a \in {} |-> TRUE]
    /\ sent = {} /\ nonces = {}
    /\ handling = NoRequest
    /\ accepted = [r \in {} |-> 0] /\ firstAccepted = [r \in {} |-> 0]

Tick ==
    /\ \/ fraction + 1 < Fractions /\ fraction' = fraction + 1 /\ UNCHANGED second
       \/ fraction + 1 = Fractions /\ fraction' = 0 /\ second' = second + 1
    /\ second' <= MaxSecond
    /\ handling # NoRequest => second' <= handling.since + MaxHandling
    /\ UNCHANGED <<enabled, sent, nonces, handling, history>>

-----------------------------------------------------------------------------
(* Senders *)

\* uuid4: an agent never draws a nonce twice.
Unused(a, n) == \A r \in sent : r.agent = a => r.nonce # n

\* An agent signs a request; its clock need not be the server's.
Sign(a, n, route, drift) ==
    LET request == [agent |-> a, nonce |-> n, route |-> route, stamp |-> second + drift]
    IN  /\ a \in DOMAIN enabled
        /\ Unused(a, n)
        /\ sent' = sent \cup {request}
        /\ accepted' = [r \in sent' |-> IF r = request THEN 0 ELSE accepted[r]]
        /\ firstAccepted' = [r \in sent' |-> IF r = request THEN 0 ELSE firstAccepted[r]]
        /\ UNCHANGED <<clock, enabled, nonces, handling>>

-----------------------------------------------------------------------------
(* The server *)

Enroll(a) ==
    /\ handling = NoRequest
    /\ a \notin DOMAIN enabled
    /\ enabled' = [b \in DOMAIN enabled \cup {a} |-> IF b = a THEN TRUE ELSE enabled[b]]
    /\ UNCHANGED <<clock, sent, nonces, handling, history>>

\* Fault: the switch does not wait for the request at hand.
SetEnabledAtOnce(a, on) ==
    /\ a \in DOMAIN enabled
    /\ enabled' = [enabled EXCEPT ![a] = on]
    /\ UNCHANGED <<clock, sent, nonces, handling, history>>

\* An analyst's request waits for the lock like any other.
SetEnabled(a, on) ==
    /\ handling = NoRequest
    /\ a \in DOMAIN enabled
    /\ enabled' = [enabled EXCEPT ![a] = on]
    /\ UNCHANGED <<clock, sent, nonces, handling, history>>

Timely(r) == r.stamp - Window <= second /\ second <= r.stamp + Window

\* A delivered request passes the checks that precede the nonce.
Check(r) ==
    /\ handling = NoRequest
    /\ r \in sent
    /\ enabled[r.agent] \/ r.route \in OpenToDisabled
    /\ Timely(r)
    /\ handling' = [request |-> r, since |-> second]
    /\ UNCHANGED <<clock, enabled, sent, nonces, history>>

\* Fault: rows are forgotten after one window.
RecentOnce(row) ==
    \/ row.second > second - Window
    \/ row.second = second - Window /\ row.fraction >= fraction

\* The rows that the deletion spares, in exact time.
Recent(row) ==
    \/ row.second > second - 2 * Window
    \/ row.second = second - 2 * Window /\ row.fraction >= fraction

\* Fault: a nonce is unique whoever sends it.
ClashesAnyone(table, r) == \E row \in table : row.nonce = r.nonce

\* uq_agent_nonce refuses the new row.
Clashes(table, r) == \E row \in table : row.agent = r.agent /\ row.nonce = r.nonce

\* The nonce is recorded, and committed before the business operation runs.
Accept ==
    /\ handling # NoRequest
    /\ LET r == handling.request
           kept == {row \in nonces : Recent(row)}
       IN  /\ ~ Clashes(kept, r)
           /\ nonces' = kept \cup {[agent |-> r.agent, nonce |-> r.nonce,
                                    second |-> second, fraction |-> fraction]}
           /\ accepted' = [accepted EXCEPT ![r] = @ + 1]
           /\ firstAccepted' = [firstAccepted EXCEPT
                  ![r] = IF accepted[r] = 0 THEN second ELSE @]
    /\ handling' = NoRequest
    /\ UNCHANGED <<clock, enabled, sent>>

\* A repeat is rolled back, the deletion of old rows included.
RefuseRepeat ==
    /\ handling # NoRequest
    /\ Clashes({row \in nonces : Recent(row)}, handling.request)
    /\ handling' = NoRequest
    /\ UNCHANGED <<clock, enabled, sent, nonces, history>>

\* The server dies before the commit.
Crash ==
    /\ handling # NoRequest
    /\ handling' = NoRequest
    /\ UNCHANGED <<clock, enabled, sent, nonces, history>>

Next ==
    \/ Tick
    \/ \E a \in Agent :
          \/ Enroll(a)
          \/ \E on \in BOOLEAN : SetEnabled(a, on)
          \/ \E n \in Nonce, route \in Route, drift \in (-Lag)..Lead : Sign(a, n, route, drift)
    \/ \E r \in sent : Check(r)
    \/ Accept \/ RefuseRepeat \/ Crash

Spec == Init /\ [][Next]_authVars

-----------------------------------------------------------------------------
(***************************************************************************)
(* A signed request is accepted at most once, however often and whenever   *)
(* it is delivered: "a valid nonce [is] single-use" (agent_auth.py:162).   *)
(* The code does not keep this: a stamp may be a whole window ahead, is    *)
(* then good for two windows, to the last whole second, and the nonce is   *)
(* forgotten when it is two windows old by the exact time.                 *)
(***************************************************************************)
AcceptedOnce == \A r \in sent : accepted[r] <= 1

\* When r was first accepted, its stamp was ahead by a window or, less the
\* time that a request takes from the check to the commit, almost a window.
WindowAhead(r) == r.stamp - firstAccepted[r] >= Window - MaxHandling

(***************************************************************************)
(* What it does keep, for any clocks: a request is accepted again only if  *)
(* its stamp was that far ahead.  Every other request is stale before its  *)
(* nonce is forgotten (agent_auth.py:129, :150-151), although the one is   *)
(* decided in whole seconds and the other in exact time.                   *)
(***************************************************************************)
OnceUnlessAhead == \A r \in sent : accepted[r] > 1 => WindowAhead(r)

(***************************************************************************)
(* A request that was never accepted is never taken for a repeat: neither  *)
(* another agent's nonce nor an attempt that came to nothing stands in its *)
(* way, so a sender may deliver the same request until it is accepted.     *)
(***************************************************************************)
OnlyRepeatsAreRefused == \A r \in sent : accepted[r] = 0 => ~ Clashes(nonces, r)

(***************************************************************************)
(* From the moment an agent is disabled nothing of it is accepted but what *)
(* a disabled agent may still do, not even a request that had passed the   *)
(* checks before (agent_auth.py:118 and the lock of                        *)
(* request_serialization.py).                                              *)
(***************************************************************************)
DisabledStaysOut ==
    [][\A r \in sent :
          accepted'[r] > accepted[r] => enabled[r.agent] \/ r.route \in OpenToDisabled]_authVars
=============================================================================
