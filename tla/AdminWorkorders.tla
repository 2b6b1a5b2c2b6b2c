---------------------------- MODULE AdminWorkorders ----------------------------
(***************************************************************************)
(* PATCH /admin/workorders: WorkorderService.update_workorder, and the     *)
(* UPDATE of a workorder row that every operation shares.                  *)
(***************************************************************************)
EXTENDS Store

\* A field the request leaves out keeps its value.
Given(field, current) == IF field = None THEN current ELSE field

UpdateWorkorder(r, u, w, code, region, total) ==
    /\ Accepts(r, "update_workorder")
    /\ workorders[w] # None
    /\ IF u \notin Admins
       THEN Rollback(r, "rejected")
       ELSE Proceed(r, "aggregate",
               [Blank EXCEPT !.op = "update_workorder", !.w = w, !.wo = workorders[w],
                    !.wedit = workorders[w],
                    !.req = [code |-> code, region |-> region, total |-> total, client |-> None,
                             date |-> CHOOSE d \in Dates : TRUE, owner |-> u]])

\* _reconcile_workorder_status_for_admin_edit
Reconciled(row, aggregate) ==
    IF aggregate >= row.total
    THEN [row EXCEPT !.status = "COMPLETED",
                     !.completed_at = IF @ = "null" THEN "now" ELSE @]
    ELSE [row EXCEPT !.status = "ACTIVE", !.completed_at = "null"]

ReconcileWorkorder(r) ==
    LET t == tx[r]
        aggregate == Progress(t.w, submissions)
        edited == [t.wo EXCEPT !.code = Given(t.req.code, @), !.region = Given(t.req.region, @),
                               !.total = Given(t.req.total, @)]
    IN  /\ pc[r] = "aggregate" /\ t.op = "update_workorder"
        /\ IF t.req.total # None /\ t.req.total < aggregate
           THEN Rollback(r, "rejected")
           ELSE Proceed(r, "flush_parent",
                        [t EXCEPT !.wedit = Reconciled(edited, aggregate)])

FlushParent(r) ==
    LET t == tx[r] IN
    /\ pc[r] = "flush_parent"
    /\ HoldersOf(t.w, r) = {}
    /\ Write(r, t.w, IF t.wedit.code # t.wo.code THEN "recode" ELSE "commit", t)

\* A code already taken is answered with CONFLICT.
RecodeWorkorder(r) ==
    LET t == tx[r] IN
    /\ pc[r] = "recode"
    /\ HoldersOfCode(t.wedit.code, r) = {}
    /\ IF CodeTaken(t.wedit.code, t.w)
       THEN Rollback(r, "rejected")
       ELSE Proceed(r, "commit", t)

ParentStep(r) == ReconcileWorkorder(r) \/ FlushParent(r) \/ RecodeWorkorder(r)
=============================================================================
