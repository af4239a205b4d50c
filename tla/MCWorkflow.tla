----------------------------- MODULE MCWorkflow -----------------------------
(* A small instance of Workflow: two lines, a loop of one field and the    *)
(* critique, every strategy, and windows that hold a call as it is, after  *)
(* some retries, or never.                                                 *)
EXTENDS Workflow

MCStrategies == {"compiler", "single_pass", "field_loop"}
MCWindows == {0, 700, 8000}
MCLength == [s \in Generating |-> IF s = "plan" THEN 200 ELSE 2000]
=============================================================================
