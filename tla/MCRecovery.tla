------------------------------- MODULE MCRecovery -------------------------------
(***************************************************************************)
(* Instances of Recovery for TLC.  A behaviour of the instance is one of   *)
(* Recovery that stays within one of two parts of its states: one scope in *)
(* all its detail, or two scopes whose workflows are simpler.              *)
(***************************************************************************)
EXTENDS Recovery, TLC

CONSTANTS e1, e2, e3, security, network, process, x1, x2, b1, b2

VARIABLE part   \* which of the two a behaviour is in

\* Two events of an unclassified finding, which has two routes, and one of another
\* category.
Categories == [e \in Event |-> IF e = e3 THEN network ELSE security]
Routes == [c \in Category |-> IF c = network THEN {network} ELSE Family]

\* The second version of each playbook has a checkpoint more.
Growing == [f \in Family |-> [v \in Version |-> v]]

OneScope == events \subseteq {e1, e2}

\* No routing, no second version, one status for those that are treated alike,
\* endpoint actions only once the cases would let the incident close, and revisions
\* up to the first verification.
TwoScopes ==
    /\ events \subseteq {e1, e3}
    /\ \A f \in Family : playbook[f] = 1
    /\ \A c \in Started : /\ cases[c].revision <= 4
                          /\ (cases[c].family = network) = (c = network)
    /\ status \in {IF Started = {} THEN "new" ELSE "investigating", "resolved"}
    /\ busy => \A c \in Started : cases[c].state = "verified"

\* The constraint of the configurations.
Within ==
    \/ part = "one" /\ OneScope
    \/ part = "two" /\ TwoScopes

PartInit == Init /\ part \in {"one", "two"}

PartNext == Next /\ UNCHANGED part

PartSpec == PartInit /\ [][PartNext]_<<recoveryVars, part>>

RecoverySymmetry == Permutations(Artifact) \cup Permutations(Analyst)
=============================================================================
