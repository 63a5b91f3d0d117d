-------------------------------- MODULE MCServer --------------------------------
(***************************************************************************)
(* Instances of AgentAuth and of AuditChain for TLC.  The two share no     *)
(* variable, so that what either does while the other moves is what it     *)
(* does while the other stands still: one of them moves in a behaviour.    *)
(***************************************************************************)
EXTENDS AgentAuth, AuditChain, TLC

VARIABLE part   \* which of the two moves

serverVars == <<authVars, auditVars, part>>

ServerInit ==
    /\ Init /\ ChainInit
    /\ part \in {"auth", "audit"}
    /\ part = "auth" => now = 0

ServerNext ==
    \/ part = "auth" /\ Next /\ UNCHANGED <<auditVars, part>>
    \/ part = "audit" /\ ChainNext /\ UNCHANGED <<authVars, part>>

ServerSpec == ServerInit /\ [][ServerNext]_serverVars

AuthSymmetry == Permutations(Agent)
=============================================================================
