---------------------------- MODULE ExecutionRow ----------------------------
(***************************************************************************)
(* One row of the table task_executions, as every component sees it: the   *)
(* states of an execution and the conditional UPDATEs of                   *)
(* internal/repository/dao/task_execution.go.  Each UPDATE is one SQL      *)
(* statement, so each operator below is atomic: it maps the status the row *)
(* has to the status the statement leaves.  RowsAffected = 0 is the case   *)
(* where the two are equal because the WHERE clause did not match.         *)
(***************************************************************************)
EXTENDS Naturals

Terminal == {"SUCCESS", "FAILED", "CANCELLED"}

(* The failures a compensator picks up again.                              *)
Recoverable == {"FAILED_RETRYABLE", "FAILED_RESCHEDULED"}

NonTerminal == {"WAITING_PULL", "PREPARE", "RUNNING"} \union Recoverable

Status == Terminal \union NonTerminal

(* What the executor protocol can report; UNKNOWN is refused by every      *)
(* branch of UpdateState and changes nothing.                              *)
Reported == {"RUNNING"} \union Recoverable \union Terminal

(* WHERE id = ? AND status IN expected                                     *)
WithExecutionStatusCAS(status, expected, new) ==
    IF status \in expected THEN new ELSE status

(* Faulty variant: the second condition of the UPDATE is left out.         *)
SetRunningState_Unchecked(status) == "RUNNING"

(* SetRunningState: a report of RUNNING never leaves a final state, and is *)
(* an error (no change) on RUNNING and WAITING_PULL.                       *)
SetRunningState(status) ==
    WithExecutionStatusCAS(status, {"PREPARE"} \union Recoverable, "RUNNING")

(* Faulty variant: anything that is not final goes back to the queue.      *)
RequeuePull_Open(status) ==
    WithExecutionStatusCAS(status, NonTerminal, "WAITING_PULL")

(* RequeuePull: back to the pull queue, whichever of the two failures.     *)
RequeuePull(status) ==
    WithExecutionStatusCAS(status, Recoverable, "WAITING_PULL")

(* Faulty variant: the ghost records in PREPARE are not looked for.        *)
HasDeadline_RunningOnly == {"RUNNING"}

(* FindTimeoutExecutions: the states with a deadline.  WAITING_PULL has    *)
(* none, and neither has a failure that waits for its compensator.         *)
HasDeadline == {"RUNNING", "PREPARE"}

(* completionState: the final state the consumer of completion events      *)
(* writes for a reported one.                                              *)
CompletionState(reported) ==
    IF reported \in Recoverable THEN "FAILED" ELSE reported

(* How a workflow or a codebook preview sees a report: one attempt, one    *)
(* final state, never a retry of the same execution.                       *)
SingleAttempt(reported) == CompletionState(reported)

(* Faulty variant: one retry too many.                                     *)
MayRetry_OneMore(maxRetries, n) == maxRetries = 0 \/ n <= maxRetries + 1

(* NextWithRetries: a limit of zero means no limit.                        *)
MayRetry(maxRetries, n) == maxRetries = 0 \/ n <= maxRetries
=============================================================================
