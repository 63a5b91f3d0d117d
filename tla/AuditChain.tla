------------------------------- MODULE AuditChain -------------------------------
(***************************************************************************)
(* The hash-chained audit log (services/audit_service.py) over the life of *)
(* a database: rows of an earlier release without hashes, the startup of   *)
(* this one (main.py), transactions that commit, roll back or die, and a   *)
(* clock that stands still or steps either way.                            *)
(*                                                                         *)
(* A row is written once and every id is random, so the hash of a row is   *)
(* told apart by its id: "hashed" says that entry_hash is there, and then  *)
(* it is the hash of this row.  One lock serialises the transactions.      *)
(***************************************************************************)
EXTENDS Integers, FiniteSets

CONSTANTS
    AuditId,    \* random ids of rows, ordered as their texts are
    MaxTime     \* bound of the clock

ASSUME AuditAssumption ==
    /\ AuditId \subseteq Nat \ {0}
    /\ MaxTime \in Nat

VARIABLES
    now,        \* the server's clock, in its smallest unit
    rows,       \* the committed rows of audit_records
    pending,    \* rows that the open transaction has flushed
    mode        \* what the server does

auditVars == <<now, rows, pending, mode>>

Genesis == 0

Row == [id : AuditId, time : Nat, prev : AuditId \cup {Genesis}, hashed : BOOLEAN]

IsTable(S) ==
    /\ S \subseteq Row /\ IsFiniteSet(S)
    /\ \A r, s \in S : r.id = s.id => r = s

ChainTypeOK ==
    /\ now \in Nat
    /\ IsTable(rows \cup pending)
    /\ mode \in {"down", "checking", "serving", "refused"}
    /\ mode # "serving" => pending = {}

ChainInit ==
    /\ now \in 0..MaxTime
    /\ rows = {} /\ pending = {}
    /\ mode = "down"

-----------------------------------------------------------------------------
(* The order of the chain *)

Before(r, s) == r.time < s.time \/ (r.time = s.time /\ r.id < s.id)

Earlier(S, r) == {s \in S : Before(s, r)}

\* The row at the end of a table that has any.
Last(S) == CHOOSE r \in S : \A s \in S : s = r \/ Before(s, r)

\* What a row at the end of S has to refer to.
HeadHash(S) == IF S = {} THEN Genesis ELSE IF Last(S).hashed THEN Last(S).id ELSE Genesis

\* verify_audit_chain finds no error.
Valid(S) == \A r \in S : r.hashed /\ r.prev = HeadHash(Earlier(S, r))

-----------------------------------------------------------------------------
(* The life of the server *)

StepClock == now' \in 0..MaxTime /\ UNCHANGED <<rows, pending, mode>>

\* An earlier release, which knows no hashes, runs on the database (external).
EarlierRelease(id) ==
    /\ mode = "down"
    /\ \A r \in rows : r.id # id
    /\ rows' = rows \cup {[id |-> id, time |-> now, prev |-> Genesis, hashed |-> FALSE]}
    /\ UNCHANGED <<now, pending, mode>>

\* Fault: whatever is unhashed is hashed, and what is hashed is hashed again.
Unfinished(S) == \E r \in S : ~ r.hashed

\* Only a database that is unhashed as a whole is taken for legacy.
Legacy(S) == S # {} /\ \A r \in S : ~ r.hashed

\* Every row refers to the one before it, whose hash is there by then.
Linked(S, r) ==
    [r EXCEPT !.hashed = TRUE,
              !.prev = IF Earlier(S, r) = {} THEN Genesis ELSE Last(Earlier(S, r)).id]

Backfill ==
    /\ mode = "down"
    /\ rows' = IF Legacy(rows) THEN {Linked(rows, r) : r \in rows} ELSE rows
    /\ mode' = "checking"
    /\ UNCHANGED <<now, pending>>

Verify ==
    /\ mode = "checking"
    /\ mode' = IF Valid(rows) THEN "serving" ELSE "refused"
    /\ UNCHANGED <<now, rows, pending>>

\* The process ends, by itself after a refusal; what was not committed is gone.
Stop ==
    /\ mode # "down"
    /\ mode' = "down"
    /\ pending' = {}
    /\ UNCHANGED <<now, rows>>

-----------------------------------------------------------------------------
(* Requests *)

\* Fault: equal readings are let through.
StampUnlessBehind(S) == IF S # {} /\ now < Last(S).time THEN Last(S).time + 1 ELSE now

\* Fault: the clock is trusted.
StampNow(S) == now

\* A row is never dated at or before the one it follows.
Stamp(S) == IF S # {} /\ now <= Last(S).time THEN Last(S).time + 1 ELSE now

\* Fault: the head is looked up among the committed rows only.
RecordOnCommitted(id) ==
    /\ mode = "serving"
    /\ \A r \in rows \cup pending : r.id # id
    /\ pending' = pending \cup
         {[id |-> id, time |-> Stamp(rows \cup pending), prev |-> HeadHash(rows), hashed |-> TRUE]}
    /\ UNCHANGED <<now, rows, mode>>

\* The open transaction sees the rows it has flushed.
RecordAudit(id) ==
    LET table == rows \cup pending
    IN  /\ mode = "serving"
        /\ \A r \in table : r.id # id
        /\ pending' = pending \cup
             {[id |-> id, time |-> Stamp(table), prev |-> HeadHash(table), hashed |-> TRUE]}
        /\ UNCHANGED <<now, rows, mode>>

Commit ==
    /\ pending # {}
    /\ rows' = rows \cup pending
    /\ pending' = {}
    /\ UNCHANGED <<now, mode>>

Rollback ==
    /\ pending # {}
    /\ pending' = {}
    /\ UNCHANGED <<now, rows, mode>>

ChainNext ==
    \/ StepClock
    \/ \E id \in AuditId : EarlierRelease(id) \/ RecordAudit(id)
    \/ Backfill \/ Verify \/ Stop
    \/ Commit \/ Rollback

ChainSpec == ChainInit /\ [][ChainNext]_auditVars

-----------------------------------------------------------------------------
(***************************************************************************)
(* As long as the server serves, what it has committed verifies, and would *)
(* verify if the open transaction were committed as it is: neither rolled  *)
(* back rows, equal or backward clocks nor rows dated ahead by an earlier  *)
(* release break the chain (audit_service.py:112-116).                     *)
(***************************************************************************)
ServedChainIsValid == mode = "serving" => Valid(rows) /\ Valid(rows \cup pending)

(***************************************************************************)
(* The server refuses to serve only a database in which hashed and         *)
(* unhashed rows are mixed, which takes an earlier release on a database   *)
(* of this one (audit_service.py:68-69, main.py:59-63): nothing that it    *)
(* writes itself, wherever it dies, keeps it from serving again.           *)
(***************************************************************************)
RefusedIsMixed == mode = "refused" => (\E r \in rows : r.hashed) /\ (\E r \in rows : ~ r.hashed)

(***************************************************************************)
(* A hashed row that is committed stays as it is; a database that is       *)
(* hashed in part is not rewritten (audit_service.py:68).                  *)
(***************************************************************************)
HashedStays == [][\A r \in rows : r.hashed => r \in rows']_auditVars

(***************************************************************************)
(* What a request adds comes after all that was committed before it, in    *)
(* the order in which the chain is verified, wherever the clock is.        *)
(***************************************************************************)
AppendedAtTheEnd ==
    [][mode = "serving" =>
         \A new \in rows' \ rows, old \in rows : Before(old, new)]_auditVars
=============================================================================
