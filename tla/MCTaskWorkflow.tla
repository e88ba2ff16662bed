--------------------------- MODULE MCTaskWorkflow ---------------------------
(* Instances of TaskWorkflow for TLC. *)
EXTENDS TaskWorkflow

CONSTANTS u1, u2, u3

S(name, gate, final) == [name |-> name, gate |-> gate, final |-> final]

\* the default workflow: only the final step requires a validation
DefaultWorkflow == <<S("a_faire", FALSE, FALSE), S("en_cours", FALSE, FALSE),
                     S("termine", TRUE, TRUE)>>

\* a workflow made before the default one, whose review steps require a validation
ReviewedWorkflow == <<S("in_progress", FALSE, FALSE), S("review", TRUE, FALSE),
                      S("approved", TRUE, FALSE), S("done", FALSE, TRUE)>>

WorkflowCalls == Endpoints \ {"update", "validate"}

AllCalls == [u \in Users |-> Endpoints]
NoStatusPatch == [u \in Users |-> WorkflowCalls]
\* u3 only decides through submitValidation
OneSubmitter == [u \in Users |-> IF u = u3 THEN {"submit"} ELSE WorkflowCalls]
=============================================================================
