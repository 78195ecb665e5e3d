------------------------- MODULE ExperimentLifecycle -------------------------
(***************************************************************************)
(* What the orchestrator promises of an experiment, whatever crashes and   *)
(* Modbus errors happen on the way: it leaves 'pending' once, its steps    *)
(* are closed one at a time and none twice, it is 'completed' only after   *)
(* the last of them, and a final status stays.                             *)
(***************************************************************************)
EXTENDS Naturals

CONSTANTS Exps, Total

VARIABLES status, done   \* done: how many steps of the schedule are closed

vars == <<status, done>>

Init ==
    /\ status = [e \in Exps |-> "pending"]
    /\ done = [e \in Exps |-> 0]

Start(e) ==
    /\ status[e] = "pending"
    /\ status' = [status EXCEPT ![e] = "running"]
    /\ UNCHANGED done

CloseStep(e) ==
    /\ status[e] = "running" /\ done[e] < Total
    /\ done' = [done EXCEPT ![e] = @ + 1]
    /\ UNCHANGED status

Complete(e) ==
    /\ status[e] = "running" /\ done[e] = Total
    /\ status' = [status EXCEPT ![e] = "completed"]
    /\ UNCHANGED done

Fail(e) ==
    /\ status[e] \in {"pending", "running"}
    /\ status' = [status EXCEPT ![e] = "failed"]
    /\ UNCHANGED done

Next == \E e \in Exps : Start(e) \/ CloseStep(e) \/ Complete(e) \/ Fail(e)

Spec == Init /\ [][Next]_vars
=============================================================================
