------------------------------ MODULE FieldRules ------------------------------
(***************************************************************************)
(* The rules the documents state of the field work.  The code keeps them   *)
(* as long as it serves one request at a time, except the last.            *)
(***************************************************************************)
EXTENDS FieldOps

Commits(r, operation) == pc[r] = "commit" /\ tx[r].op = operation /\ pc'[r] = "ok"

Total(w) == workorders[w].total
Full(w, days) == Progress(w, days) >= Total(w)

Becomes(s, status) == /\ submissions[s] # None /\ submissions'[s].status = status
                      /\ submissions[s].status # status

\* BUSINESS_RULES.md:89-94: a day becomes COMPLETED only from CHECKED_OUT, with
\* exactly one active attachment and the aggregate within the parent's total.
CompletionRule ==
    [][\A s \in Submissions : Becomes(s, "COMPLETED") =>
          /\ submissions[s].status = "CHECKED_OUT"
          /\ Cardinality(ActiveFiles(s, attachments)) = 1
          /\ Progress(submissions[s].workorder, submissions) <= Total(submissions[s].workorder)]_vars

\* BUSINESS_RULES.md:77: neither a driver's edit nor a new total_grids lets the
\* aggregate exceed the total; only the admin's edit of a day does.
OnlyAdminEditsExceedTotal ==
    [][\A w \in Workorders :
          /\ workorders[w] # None
          /\ Progress(w, submissions) <= Total(w)
          /\ Progress(w, submissions') > workorders'[w].total
          => \E r \in Slots : Commits(r, "update_admin_submission")]_vars

\* DB_SCHEMA.md:231: the completion of a day closes the parent exactly when the
\* aggregate has reached the total; otherwise it leaves the parent alone.
CompletionClosesFullParent ==
    [][\A r \in Slots : Commits(r, "complete_submission") =>
          LET w == submissions[tx[r].s].workorder IN
          workorders'[w].status = IF Full(w, submissions) THEN "COMPLETED"
                                  ELSE workorders[w].status]_vars

\* BUSINESS_RULES.md:87: a day that is reopened, or that is completed and loses
\* its last file, leaves its parent ACTIVE.
LossReopensParent ==
    [][\A r \in Slots :
          \/ Commits(r, "reopen_submission")
          \/ /\ Commits(r, "delete_attachment")
             /\ submissions[tx[r].s].status = "COMPLETED"
             /\ ActiveFiles(tx[r].s, attachments') = {}
          => workorders'[submissions[tx[r].s].workorder].status = "ACTIVE"]_vars

\* DB_SCHEMA.md:221: no day is created under a COMPLETED workorder.
NoDayUnderCompletedWorkorder ==
    [][\A s \in Submissions : submissions[s] = None /\ submissions'[s] # None =>
          workorders'[submissions'[s].workorder].status = "ACTIVE"]_vars

\* A workorder is COMPLETED exactly when it has a completed_at, through every
\* closing, reopening and reconciliation (DB_SCHEMA.md:63).
CompletedAtTellsStatus ==
    \A w \in Workorders : workorders[w] # None =>
        (workorders[w].status = "COMPLETED") <=> (workorders[w].completed_at = "set")

-----------------------------------------------------------------------------
(* Broken. *)

\* "Updated grid values would exceed the workorder total."
\* (submission_service.py:385): the answer is given only when they would.
RefusesOnlyOverTotal ==
    [][\A r \in Slots :
          /\ pc[r] = "aggregate" /\ tx[r].op = "update_submission" /\ pc'[r] = "rejected"
          => Progress(tx[r].w, DaysSeenBy(r)) > tx[r].wo.total]_vars

=============================================================================
