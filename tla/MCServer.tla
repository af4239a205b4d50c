------------------------------ MODULE MCServer ------------------------------
(* Small instances of three parts of the server that keep queues, maps and  *)
(* counters and share none of them, for what each may never do: the         *)
(* scheduler with two sessions whose commands compete, the worker manager   *)
(* with three calls for two slots, so that one of them begins in the wake   *)
(* of another one's end, and the gateway with more challenges and commands  *)
(* than its maps hold, and enough time for entries to expire.  A behaviour  *)
(* is one of one part.                                                      *)
EXTENDS Scheduler, Gateway, WorkerManager

CONSTANTS
    x1, x2, x3,   \* calls; challenges; commands of the first session
    y1, y2,       \* commands of the second session
    z1, z2, z3,   \* commands at the gateway
    s1, s2        \* sessions

VARIABLE part   \* what moves

MCSession == {s1, s2}
MCChallenge == {x1, x2, x3}
MCCommand == {z1, z2, z3}
MCKey == MCChallenge \cup {y1, y2}
MCSessionOf == [k \in MCKey |-> IF k \in {y1, y2} THEN s2 ELSE s1]

\* What is numbered alike is interchangeable.
Symmetry ==
    Permutations(MCChallenge) \cup Permutations({y1, y2}) \cup Permutations(MCCommand)

allVars == <<part, vars, gatewayVars, managerVars>>

ServerInit ==
    /\ part \in {"scheduler", "gateway", "manager"}
    /\ Init /\ GatewayInit /\ ManagerInit

ServerNext ==
    /\ UNCHANGED part
    /\ \/ part = "scheduler" /\ Next /\ UNCHANGED <<gatewayVars, managerVars>>
       \/ part = "gateway" /\ GatewayNext /\ UNCHANGED <<vars, managerVars>>
       \/ part = "manager" /\ ManagerNext /\ UNCHANGED <<vars, gatewayVars>>

ServerSpec == ServerInit /\ [][ServerNext]_allVars
=============================================================================
