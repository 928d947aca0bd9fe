----------------------------- MODULE MCMailOut -----------------------------
(***************************************************************************)
(* Values of the constants of MailOut for TLC: one run, commissioned by    *)
(* mail, with a reply that gives guidance and one that says STOP.          *)
(***************************************************************************)
EXTENDS MailOut

CONSTANTS run, task, guidance, stop

OneRun == {run}
TaskAndReplies == {task, guidance, stop}
Task == {task}
Stop == {stop}
AboutRun == [m \in TaskAndReplies |-> run]
=============================================================================
