---------------------------- MODULE AgentAuthProofs ----------------------------
(***************************************************************************)
(* Theorems about AgentAuth, for any agents, nonces, window, clock errors  *)
(* and handling times.                                                     *)
(***************************************************************************)
EXTENDS AgentAuth, TLAPS

USE AuthAssumption

\* The request at hand was timely when it was checked, and not long ago.
HandledInTime ==
    handling # NoRequest =>
        /\ handling.since <= second
        /\ second <= handling.since + MaxHandling
        /\ handling.since <= handling.request.stamp + Window

\* The nonce of r is remembered by a row no older than its first acceptance.
Remembered(r) ==
    \E row \in nonces : /\ row.agent = r.agent /\ row.nonce = r.nonce
                        /\ row.second >= firstAccepted[r]

\* r cannot pass the checks any more.
Expired(r) ==
    /\ second > r.stamp + Window
    /\ handling # NoRequest => handling.request # r

NoncesAreOwn ==
    \A r, q \in sent : r.agent = q.agent /\ r.nonce = q.nonce => r = q

RowsAreAccepted ==
    \A row \in nonces : \E r \in sent :
        r.agent = row.agent /\ r.nonce = row.nonce /\ accepted[r] >= 1

Guarded(r) == accepted[r] >= 1 => Remembered(r) \/ Expired(r) \/ WindowAhead(r)

IInv ==
    /\ TypeOK
    /\ HandledInTime
    /\ NoncesAreOwn
    /\ RowsAreAccepted
    /\ \A r \in sent : Guarded(r)
    /\ OnceUnlessAhead

LEMMA Initially == Init => IInv
BY DEF Init, IInv, TypeOK, HandledInTime, NoncesAreOwn, RowsAreAccepted, OnceUnlessAhead

-----------------------------------------------------------------------------
(* One lemma per action *)

LEMMA TickStep == IInv /\ Tick => IInv'
<1> SUFFICES ASSUME IInv, Tick PROVE IInv'
  OBVIOUS
<1> USE DEF IInv
<1>1. second' \in Nat /\ second' >= second /\ fraction' \in 0..(Fractions - 1)
  BY DEF Tick, TypeOK
<1>2. UNCHANGED <<enabled, sent, nonces, handling, accepted, firstAccepted>>
  BY DEF Tick, history
<1>3. TypeOK'
  BY <1>1, <1>2 DEF TypeOK
<1>4. HandledInTime'
  <2> SUFFICES ASSUME handling # NoRequest
               PROVE  /\ handling.since <= second'
                      /\ second' <= handling.since + MaxHandling
                      /\ handling.since <= handling.request.stamp + Window
    BY <1>2 DEF HandledInTime
  <2>1. handling.since \in Nat /\ second \in Nat
    BY DEF TypeOK
  <2>2. handling.since <= second /\ handling.since <= handling.request.stamp + Window
    BY DEF HandledInTime
  <2>3. second' <= handling.since + MaxHandling
    BY DEF Tick
  <2> QED BY <2>1, <2>2, <2>3, <1>1
<1>5. NoncesAreOwn' /\ RowsAreAccepted' /\ OnceUnlessAhead'
  BY <1>2 DEF NoncesAreOwn, RowsAreAccepted, OnceUnlessAhead, WindowAhead
<1>6. \A r \in sent' : Guarded(r)'
  <2> TAKE r \in sent'
  <2>1. r \in sent /\ Guarded(r) /\ r.stamp \in Int /\ second \in Nat
    BY <1>2 DEF TypeOK, Requests
  <2>2. Remembered(r) => Remembered(r)'
    BY <1>2 DEF Remembered
  <2>3. Expired(r) => Expired(r)'
    BY <1>1, <1>2, <2>1 DEF Expired
  <2> QED BY <1>2, <2>1, <2>2, <2>3 DEF Guarded, WindowAhead
<1> QED BY <1>3, <1>4, <1>5, <1>6

LEMMA SignStep ==
  ASSUME IInv, NEW a \in Agent, NEW n \in Nonce, NEW route \in Route,
         NEW drift \in (-Lag)..Lead, Sign(a, n, route, drift)
  PROVE  IInv'
<1> USE DEF IInv
<1> PICK request \in Requests :
       /\ request = [agent |-> a, nonce |-> n, route |-> route, stamp |-> second + drift]
       /\ sent' = sent \cup {request}
       /\ accepted' = [r \in sent' |-> IF r = request THEN 0 ELSE accepted[r]]
       /\ firstAccepted' = [r \in sent' |-> IF r = request THEN 0 ELSE firstAccepted[r]]
  <2>1. second + drift \in Int
    BY DEF TypeOK
  <2> QED BY <2>1 DEF Sign, Requests
<1>1. UNCHANGED <<second, fraction, enabled, nonces, handling>> /\ a \in DOMAIN enabled
  BY DEF Sign, clock
<1>2. request \notin sent /\ request.agent = a /\ request.nonce = n
      /\ request.stamp = second + drift
  BY DEF Sign, Unused
<1>3. \A r \in sent : /\ r \in sent' /\ accepted'[r] = accepted[r]
                   /\ firstAccepted'[r] = firstAccepted[r]
  BY <1>2
<1>4. accepted'[request] = 0
  OBVIOUS
<1>5. TypeOK'
  <2>1. accepted' \in [sent' -> Nat] /\ firstAccepted' \in [sent' -> Nat]
    BY DEF TypeOK
  <2>2. handling \in [request : sent', since : Nat] \cup {NoRequest}
    BY <1>3 DEF TypeOK
  <2> QED BY <1>1, <1>2, <2>1, <2>2 DEF TypeOK
<1>6. HandledInTime'
  BY <1>1 DEF HandledInTime
<1>7. NoncesAreOwn'
  BY <1>2 DEF NoncesAreOwn, Sign, Unused
<1>8. RowsAreAccepted'
  BY <1>1, <1>3 DEF RowsAreAccepted
<1>9. \A r \in sent' : Guarded(r)'
  <2> TAKE r \in sent'
  <2>1. CASE r = request
    BY <1>4, <2>1 DEF Guarded
  <2>2. CASE r \in sent
    <3>1. Remembered(r) => Remembered(r)'
      BY <1>1, <1>3, <2>2 DEF Remembered
    <3>2. Expired(r) => Expired(r)'
      BY <1>1 DEF Expired
    <3>3. WindowAhead(r) => WindowAhead(r)'
      BY <1>3, <2>2 DEF WindowAhead
    <3> QED BY <1>3, <2>2, <3>1, <3>2, <3>3 DEF Guarded
  <2> QED BY <2>1, <2>2
<1>10. OnceUnlessAhead'
  BY <1>3, <1>4 DEF OnceUnlessAhead, WindowAhead
<1> QED BY <1>5, <1>6, <1>7, <1>8, <1>9, <1>10

LEMMA AgentStep ==
  ASSUME IInv, NEW a \in Agent, Enroll(a) \/ \E on \in BOOLEAN : SetEnabled(a, on)
  PROVE  IInv'
<1> USE DEF IInv
<1>1. UNCHANGED <<second, fraction, sent, nonces, handling, accepted, firstAccepted>>
  BY DEF Enroll, SetEnabled, clock, history
<1>2. /\ DOMAIN enabled' \subseteq Agent /\ enabled' \in [DOMAIN enabled' -> BOOLEAN]
      /\ DOMAIN enabled \subseteq DOMAIN enabled'
  BY DEF Enroll, SetEnabled, TypeOK
<1>3. TypeOK'
  BY <1>1, <1>2 DEF TypeOK
<1>4. HandledInTime' /\ NoncesAreOwn' /\ RowsAreAccepted' /\ OnceUnlessAhead'
  BY <1>1 DEF HandledInTime, NoncesAreOwn, RowsAreAccepted, OnceUnlessAhead, WindowAhead
<1>5. \A r \in sent' : Guarded(r)'
  BY <1>1 DEF Guarded, Remembered, Expired, WindowAhead
<1> QED BY <1>3, <1>4, <1>5

LEMMA CheckStep == ASSUME IInv, NEW q \in sent, Check(q) PROVE IInv'
<1> USE DEF IInv
<1>1. UNCHANGED <<second, fraction, enabled, sent, nonces, accepted, firstAccepted>>
  BY DEF Check, clock, history
<1>2. handling' = [request |-> q, since |-> second] /\ Timely(q) /\ second \in Nat
  BY DEF Check, TypeOK
<1>3. TypeOK'
  BY <1>1, <1>2 DEF TypeOK
<1>4. HandledInTime'
  BY <1>1, <1>2 DEF HandledInTime, Timely
<1>5. NoncesAreOwn' /\ RowsAreAccepted' /\ OnceUnlessAhead'
  BY <1>1 DEF NoncesAreOwn, RowsAreAccepted, OnceUnlessAhead, WindowAhead
<1>6. \A r \in sent' : Guarded(r)'
  <2> TAKE r \in sent'
  <2>1. r \in sent /\ Guarded(r) /\ r.stamp \in Int
    BY <1>1 DEF TypeOK, Requests
  <2>2. Expired(r) => Expired(r)'
    BY <1>1, <1>2, <2>1 DEF Expired, Timely
  <2>3. Remembered(r) => Remembered(r)'
    BY <1>1 DEF Remembered
  <2> QED BY <1>1, <2>1, <2>2, <2>3 DEF Guarded, WindowAhead
<1> QED BY <1>3, <1>4, <1>5, <1>6

LEMMA DropStep == ASSUME IInv, RefuseRepeat \/ Crash PROVE IInv'
<1> USE DEF IInv
<1>1. UNCHANGED <<second, fraction, enabled, sent, nonces, accepted, firstAccepted>> /\ handling' = NoRequest
  BY DEF RefuseRepeat, Crash, clock, history
<1>2. TypeOK'
  BY <1>1 DEF TypeOK
<1>3. HandledInTime' /\ NoncesAreOwn' /\ RowsAreAccepted' /\ OnceUnlessAhead'
  BY <1>1 DEF HandledInTime, NoncesAreOwn, RowsAreAccepted, OnceUnlessAhead, WindowAhead
<1>4. \A r \in sent' : Guarded(r)'
  BY <1>1 DEF Guarded, Remembered, Expired, WindowAhead
<1> QED BY <1>2, <1>3, <1>4

\* Unless its stamp was a window ahead, the deletion forgets the nonce of a
\* request only when the request has become stale.
LEMMA ForgottenIsStale ==
  ASSUME IInv, NEW r \in sent, accepted[r] >= 1, Remembered(r), ~ WindowAhead(r),
         handling # NoRequest,
         ~ \E row \in nonces : /\ Recent(row) /\ row.agent = r.agent /\ row.nonce = r.nonce
                               /\ row.second >= firstAccepted[r]
  PROVE  second > r.stamp + Window /\ handling.request # r
<1> USE DEF IInv
<1>1. PICK row \in nonces : /\ row.agent = r.agent /\ row.nonce = r.nonce
                            /\ row.second >= firstAccepted[r]
  BY DEF Remembered
<1>2. row.second \in Nat /\ row.fraction \in Nat /\ r.stamp \in Int
      /\ second \in Nat /\ fraction \in Nat /\ firstAccepted[r] \in Nat
  BY DEF TypeOK, NonceRow, Requests
<1>3. row.second <= second - 2 * Window
  BY <1>1, <1>2 DEF Recent
<1>4. second >= firstAccepted[r] + 2 * Window
  BY <1>1, <1>2, <1>3
<1>5. r.stamp < firstAccepted[r] + Window - MaxHandling
  BY <1>2 DEF WindowAhead
<1>6. second > r.stamp + Window + MaxHandling
  BY <1>2, <1>4, <1>5
<1>7. ASSUME handling.request = r PROVE FALSE
  <2>1. handling.since \in Nat
    BY DEF TypeOK
  <2>2. second <= handling.since + MaxHandling /\ handling.since <= r.stamp + Window
    BY <1>7 DEF HandledInTime
  <2> QED BY <1>2, <1>6, <2>1, <2>2
<1> QED BY <1>2, <1>6, <1>7

\* What was accepted before cannot be at hand without a clash, unless its stamp
\* was a window ahead.
LEMMA AcceptedClashes ==
  ASSUME IInv, handling # NoRequest, accepted[handling.request] >= 1,
         ~ WindowAhead(handling.request)
  PROVE  Clashes({row \in nonces : Recent(row)}, handling.request)
<1> USE DEF IInv
<1>1. PICK r \in sent : r = handling.request
  BY DEF TypeOK
<1>2. Remembered(r)
  BY <1>1 DEF Guarded, Expired
<1>3. \E row \in nonces : /\ Recent(row) /\ row.agent = r.agent /\ row.nonce = r.nonce
  BY <1>1, <1>2, ForgottenIsStale
<1> QED BY <1>1, <1>3 DEF Clashes

LEMMA AcceptStep == ASSUME IInv, Accept PROVE IInv'
<1> USE DEF IInv
<1> PICK q \in sent, row \in NonceRow, kept \in SUBSET nonces :
       /\ q = handling.request
       /\ row = [agent |-> q.agent, nonce |-> q.nonce, second |-> second, fraction |-> fraction]
       /\ kept = {old \in nonces : Recent(old)}
       /\ ~ Clashes(kept, q)
       /\ nonces' = kept \cup {row}
       /\ accepted' = [accepted EXCEPT ![q] = @ + 1]
       /\ firstAccepted' = [firstAccepted EXCEPT ![q] = IF accepted[q] = 0 THEN second ELSE @]
  <2>1. PICK q \in sent : q = handling.request
    BY DEF Accept, TypeOK
  <2>2. PICK row \in NonceRow :
           row = [agent |-> q.agent, nonce |-> q.nonce, second |-> second, fraction |-> fraction]
    <3>1. q.agent \in Agent /\ q.nonce \in Nonce
      BY DEF TypeOK, Requests
    <3>2. second \in Nat /\ fraction \in Nat
      BY DEF TypeOK
    <3> QED BY <3>1, <3>2 DEF NonceRow
  <2>3. PICK kept \in SUBSET nonces : kept = {old \in nonces : Recent(old)}
    OBVIOUS
  <2> QED BY <2>1, <2>2, <2>3 DEF Accept
<1>1. UNCHANGED <<second, fraction, enabled, sent>> /\ handling' = NoRequest /\ handling # NoRequest
  BY DEF Accept, clock
<1>2. /\ second \in Nat /\ accepted[q] \in Nat /\ firstAccepted[q] \in Nat
      /\ accepted'[q] = accepted[q] + 1
      /\ firstAccepted'[q] = IF accepted[q] = 0 THEN second ELSE firstAccepted[q]
  BY DEF TypeOK
<1>3. \A r \in sent : r # q => accepted'[r] = accepted[r] /\ firstAccepted'[r] = firstAccepted[r]
  BY DEF TypeOK
<1>4. TypeOK'
  <2>1. accepted' \in [sent -> Nat] /\ firstAccepted' \in [sent -> Nat]
    BY <1>2 DEF TypeOK
  <2> QED BY <1>1, <2>1 DEF TypeOK
<1>5. accepted[q] >= 1 => WindowAhead(q) /\ WindowAhead(q)'
  <2>1. accepted[q] >= 1 => WindowAhead(q)
    BY <1>1, AcceptedClashes
  <2> QED BY <1>2, <2>1 DEF WindowAhead
<1>6. HandledInTime' /\ NoncesAreOwn'
  BY <1>1 DEF HandledInTime, NoncesAreOwn
<1>7. OnceUnlessAhead'
  <2> SUFFICES ASSUME NEW r \in sent, accepted'[r] > 1 PROVE WindowAhead(r)'
    BY <1>1 DEF OnceUnlessAhead
  <2>1. CASE r = q
    BY <1>2, <1>5, <2>1
  <2>2. CASE r # q
    BY <1>3, <2>2 DEF OnceUnlessAhead, WindowAhead
  <2> QED BY <2>1, <2>2
<1>8. RowsAreAccepted'
  <2> SUFFICES ASSUME NEW old \in nonces'
               PROVE  \E r \in sent : /\ r.agent = old.agent /\ r.nonce = old.nonce
                                      /\ accepted'[r] >= 1
    BY <1>1 DEF RowsAreAccepted
  <2>1. CASE old = row
    BY <2>1, <1>2
  <2>2. CASE old \in nonces
    <3>1. PICK r \in sent : r.agent = old.agent /\ r.nonce = old.nonce /\ accepted[r] >= 1
      BY <2>2 DEF RowsAreAccepted
    <3> QED BY <3>1, <1>2, <1>3 DEF TypeOK
  <2> QED BY <2>1, <2>2
<1>9. \A r \in sent' : Guarded(r)'
  <2> SUFFICES ASSUME NEW r \in sent, accepted'[r] >= 1
               PROVE  Remembered(r)' \/ Expired(r)' \/ WindowAhead(r)'
    BY <1>1 DEF Guarded
  <2>1. CASE r = q /\ accepted[q] = 0
    <3>1. row \in nonces' /\ row.agent = r.agent /\ row.nonce = r.nonce /\ row.second = second
      BY <2>1
    <3> QED BY <1>2, <2>1, <3>1 DEF Remembered
  <2>2. CASE r = q /\ accepted[q] >= 1
    BY <1>5, <2>2
  <2>3. CASE r # q
    <3>1. accepted[r] >= 1
      BY <1>3, <2>3
    <3>2. CASE Expired(r)
      BY <1>1, <3>2 DEF Expired
    <3>3. CASE WindowAhead(r)
      BY <1>3, <2>3, <3>3 DEF WindowAhead
    <3>4. CASE Remembered(r) /\ ~ WindowAhead(r)
      <4>1. CASE \E old \in nonces : /\ Recent(old) /\ old.agent = r.agent /\ old.nonce = r.nonce
                                     /\ old.second >= firstAccepted[r]
        BY <1>3, <2>3, <4>1 DEF Remembered
      <4>2. CASE ~ \E old \in nonces : /\ Recent(old) /\ old.agent = r.agent /\ old.nonce = r.nonce
                                       /\ old.second >= firstAccepted[r]
        BY <1>1, <3>1, <3>4, <4>2, ForgottenIsStale DEF Expired
      <4> QED BY <4>1, <4>2
    <3> QED BY <3>1, <3>2, <3>3, <3>4 DEF Guarded
  <2> QED BY <1>2, <2>1, <2>2, <2>3
<1> QED BY <1>4, <1>6, <1>7, <1>8, <1>9

LEMMA Inductive == IInv /\ [Next]_authVars => IInv'
<1> SUFFICES ASSUME IInv, [Next]_authVars PROVE IInv'
  OBVIOUS
<1>1. CASE Next
  BY <1>1, TickStep, SignStep, AgentStep, CheckStep, AcceptStep, DropStep DEF Next
<1>2. CASE UNCHANGED authVars
  BY <1>2 DEF authVars, IInv, TypeOK, HandledInTime, NoncesAreOwn, RowsAreAccepted,
              Guarded, Remembered, Expired, OnceUnlessAhead, WindowAhead
<1> QED BY <1>1, <1>2

LEMMA Invariant == Spec => []IInv
BY Initially, Inductive, PTL DEF Spec

-----------------------------------------------------------------------------
(* The results *)

\* Tables, requests and the one at hand keep their types (models.py, agent_auth.py).
THEOREM TypeCorrect == Spec => []TypeOK
<1>1. IInv => TypeOK
  BY DEF IInv
<1> QED BY <1>1, Invariant, PTL

\* A request is accepted again only if its stamp was a window ahead when it was
\* first accepted (agent_auth.py:129, :150-151), whatever the clocks do.
THEOREM RepeatsWereAhead == Spec => []OnceUnlessAhead
<1>1. IInv => OnceUnlessAhead
  BY DEF IInv
<1> QED BY <1>1, Invariant, PTL

\* A request that was never accepted is never refused as a repeat.
THEOREM RepeatsAreRecognised == Spec => []OnlyRepeatsAreRefused
<1>1. IInv => OnlyRepeatsAreRefused
  <2> SUFFICES ASSUME IInv, NEW r \in sent, accepted[r] = 0, Clashes(nonces, r) PROVE FALSE
    BY DEF OnlyRepeatsAreRefused
  <2>1. PICK row \in nonces : row.agent = r.agent /\ row.nonce = r.nonce
    BY DEF Clashes
  <2>2. PICK q \in sent : q.agent = row.agent /\ q.nonce = row.nonce /\ accepted[q] >= 1
    BY DEF IInv, RowsAreAccepted
  <2>3. q = r
    BY <2>1, <2>2 DEF IInv, NoncesAreOwn
  <2> QED BY <2>2, <2>3
<1> QED BY <1>1, Invariant, PTL

-----------------------------------------------------------------------------
(* Disabled agents *)

\* The request at hand was let in under a switch that has not moved since.
HandledIsAllowed ==
    handling # NoRequest =>
        enabled[handling.request.agent] \/ handling.request.route \in OpenToDisabled

LEMMA AllowedStep == IInv /\ HandledIsAllowed /\ [Next]_authVars => HandledIsAllowed'
<1> SUFFICES ASSUME IInv, HandledIsAllowed, [Next]_authVars PROVE HandledIsAllowed'
  OBVIOUS
<1>1. CASE Tick \/ Accept \/ RefuseRepeat \/ Crash \/ UNCHANGED authVars
  BY <1>1 DEF Tick, Accept, RefuseRepeat, Crash, authVars, clock, HandledIsAllowed
<1>2. CASE \E a \in Agent :
             \/ Enroll(a)
             \/ \E on \in BOOLEAN : SetEnabled(a, on)
             \/ \E n \in Nonce, route \in Route, drift \in (-Lag)..Lead : Sign(a, n, route, drift)
  BY <1>2 DEF Enroll, SetEnabled, Sign, clock, HandledIsAllowed
<1>3. CASE \E r \in sent : Check(r)
  BY <1>3 DEF Check, clock, HandledIsAllowed
<1> QED BY <1>1, <1>2, <1>3 DEF Next

LEMMA OnlyAcceptCounts ==
  ASSUME IInv, Next, NEW r \in sent, accepted'[r] > accepted[r]
  PROVE  handling # NoRequest /\ r = handling.request
<1>1. accepted[r] \in Nat
  BY DEF IInv, TypeOK
<1>2. accepted'[r] # accepted[r]
  BY <1>1
<1>3. CASE Accept
  BY <1>2, <1>3 DEF Accept, IInv, TypeOK
<1>4. ASSUME NEW a \in Agent, NEW n \in Nonce, NEW route \in Route, NEW drift \in (-Lag)..Lead,
             Sign(a, n, route, drift)
      PROVE  FALSE
  <2>1. r # [agent |-> a, nonce |-> n, route |-> route, stamp |-> second + drift]
    BY <1>4 DEF Sign, Unused
  <2> QED BY <1>2, <1>4, <2>1 DEF Sign
<1>5. CASE \/ Tick \/ RefuseRepeat \/ Crash
           \/ \E q \in sent : Check(q)
           \/ \E a \in Agent : Enroll(a) \/ \E on \in BOOLEAN : SetEnabled(a, on)
  BY <1>2, <1>5 DEF Tick, RefuseRepeat, Crash, Check, Enroll, SetEnabled, history
<1> QED BY <1>3, <1>4, <1>5 DEF Next

\* What a disabled agent may not do is not accepted, also when it had passed the checks.
THEOREM DisabledAgentsStayOut == Spec => DisabledStaysOut
<1>1. Init => HandledIsAllowed
  BY DEF Init, HandledIsAllowed
<1>2. IInv /\ HandledIsAllowed /\ [Next]_authVars =>
        [\A r \in sent :
            accepted'[r] > accepted[r] => enabled[r.agent] \/ r.route \in OpenToDisabled]_authVars
  BY OnlyAcceptCounts DEF HandledIsAllowed
<1> QED BY <1>1, <1>2, AllowedStep, Initially, Inductive, PTL DEF Spec, DisabledStaysOut
=============================================================================
