----------------------------- MODULE StateMachine -----------------------------
(***************************************************************************)
(* The lifecycle of a Runtime: core/runtime/src/state.cpp.                 *)
(***************************************************************************)

RuntimeState == {"Created", "Validated", "Planned", "Prepared", "Armed", "Running",
                 "Completed", "Aborted", "Failed"}

Terminal == {"Completed", "Aborted", "Failed"}

\* The state that follows each state when nothing goes wrong.
Successor == [Created |-> "Validated", Validated |-> "Planned", Planned |-> "Prepared",
              Prepared |-> "Armed", Armed |-> "Running", Running |-> "Completed"]

IsValidTransition(from, to) ==
    /\ from \notin Terminal
    /\ to \in {Successor[from], "Failed", "Aborted"}
=============================================================================
