------------------------------ MODULE CheckBoard ------------------------------
(***************************************************************************)
(* What one MarketplaceDriverHealthCheck promises, with the API server,    *)
(* the copies and the retries left out: a board on which nodes post        *)
(* answers, one node's answer at a time and never touching another's, and  *)
(* a verdict that is always a judgement of the whole board as it stood     *)
(* when the verdict was given.                                             *)
(***************************************************************************)
EXTENDS Naturals, FiniteSets

CONSTANTS
    Nodes,     \* the nodes whose reconcile container watches health checks
    Everyone   \* the empty node name, which addresses every node

VARIABLES
    phase,     \* "none", then "live", then "deleted"
    affected,  \* the node names the check is for
    board,     \* board[n]: the answer of node n, or "None"
    verdict    \* the reason of the HealthCheck condition

vars == <<phase, affected, board, verdict>>

Responses == {"NoAction", "NoEligiblePods", "Repaired", "Error"}

Answered(b) == {n \in Nodes : b[n] # "None"}

\* The operator counts answers against the addressed names, then looks for
\* an error among them.
Judgement(names, b) ==
    IF Cardinality(Answered(b)) < Cardinality(names) THEN "RepairInProgress"
    ELSE IF \E n \in Nodes : b[n] = "Error" THEN "RepairFailed"
    ELSE "RepairComplete"

Init ==
    /\ phase = "none"
    /\ affected = {}
    /\ board = [n \in Nodes |-> "None"]
    /\ verdict = "None"

Open(names) ==
    /\ phase = "none"
    /\ phase' = "live"
    /\ affected' = names
    /\ UNCHANGED <<board, verdict>>

Post(n, response) ==
    /\ phase = "live"
    /\ board' = [board EXCEPT ![n] = response]
    /\ UNCHANGED <<phase, affected, verdict>>

Judge ==
    /\ phase = "live"
    /\ verdict' = Judgement(affected, board)
    /\ UNCHANGED <<phase, affected, board>>

Remove ==
    /\ phase = "live"
    /\ phase' = "deleted"
    /\ UNCHANGED <<affected, board, verdict>>

Next ==
    \/ \E names \in SUBSET (Nodes \cup {Everyone}) : Open(names)
    \/ \E n \in Nodes, r \in Responses : Post(n, r)
    \/ Judge
    \/ Remove

Spec == Init /\ [][Next]_vars
===============================================================================
