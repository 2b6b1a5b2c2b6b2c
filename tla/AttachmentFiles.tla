----------------------------- MODULE AttachmentFiles -----------------------------
(***************************************************************************)
(* AttachmentService: uploading and removing the day's closeout file.  The *)
(* object is put into the bucket before the transaction that records it.   *)
(***************************************************************************)
EXTENDS Store

CanAccess(u, row) == u = row.owner \/ u \in Admins

FreshFile(a) == /\ attachments[a] = None /\ a \notin objects
                /\ \A q \in Slots : tx[q].a # a

UploadAttachment(r, u, s, a) ==
    /\ Accepts(r, "upload_attachment")
    /\ submissions[s] # None /\ Room /\ FreshFile(a)
    /\ IF ~CanAccess(u, submissions[s])
       THEN Rollback(r, "rejected")
       ELSE Proceed(r, "count", [Blank EXCEPT !.op = "upload_attachment", !.s = s, !.a = a,
                                              !.day = submissions[s]])

\* MAX_ACTIVE_ATTACHMENTS = 1
CheckNoFile(r) ==
    /\ pc[r] = "count" /\ tx[r].op = "upload_attachment"
    /\ IF ActiveFiles(tx[r].s, attachments) # {}
       THEN Rollback(r, "rejected")
       ELSE Proceed(r, "store", tx[r])

\* Mutant: a failed upload is recorded like a successful one.
StoreObjectOrNot(r) ==
    /\ pc[r] = "store"
    /\ objects' \in {objects, objects \cup {tx[r].a}}
    /\ pc' = [pc EXCEPT ![r] = "attach"]
    /\ UNCHANGED <<tables, tx, locks>>

\* upload_bytes puts the object, or fails having put it or not.
StoreObject(r) ==
    /\ pc[r] = "store"
    /\ \/ /\ objects' = objects \cup {tx[r].a}
          /\ pc' = [pc EXCEPT ![r] = "attach"]
          /\ UNCHANGED <<tables, tx, locks>>
       \/ /\ objects' \in {objects, objects \cup {tx[r].a}}
          /\ Answer(r, "rejected")
          /\ UNCHANGED tables

\* Mutant: no index stands behind the count.
AttachFileUnconstrained(r) ==
    /\ pc[r] = "attach"
    /\ Write(r, tx[r].a, "commit", tx[r])

\* The partial unique index fails the INSERT of a second active file; nothing
\* handles its IntegrityError and the object stays in the bucket.
AttachFile(r) ==
    /\ pc[r] = "attach"
    /\ HoldersOfFile(tx[r].s, r) = {}
    /\ IF ActiveFiles(tx[r].s, attachments) # {}
       THEN Rollback(r, "error")
       ELSE Write(r, tx[r].a, "commit", tx[r])

-----------------------------------------------------------------------------
DeleteAttachment(r, u, a) ==
    LET s == attachments[a].submission IN
    /\ Accepts(r, "delete_attachment")
    /\ attachments[a] # None
    /\ Room
    /\ IF ~CanAccess(u, submissions[s]) THEN Rollback(r, "rejected")
       ELSE IF ~attachments[a].active THEN Rollback(r, "ok")
       ELSE Proceed(r, "detach", [Blank EXCEPT !.op = "delete_attachment", !.s = s, !.a = a,
                                               !.day = submissions[s]])

\* The day's status is the one loaded with the attachment.
DetachFile(r) ==
    /\ pc[r] = "detach"
    /\ HoldersOf(tx[r].a, r) = {}
    /\ Write(r, tx[r].a, IF tx[r].day.status = "COMPLETED" THEN "recount" ELSE "commit", tx[r])

\* Mutant: the count misses the removal it follows.
RecountCommitted(r) ==
    /\ pc[r] = "recount"
    /\ Proceed(r, IF ActiveFiles(tx[r].s, attachments) = {} THEN "parent" ELSE "commit", tx[r])

RecountFiles(r) ==
    /\ pc[r] = "recount"
    /\ Proceed(r, IF ActiveFiles(tx[r].s, FilesSeenBy(r)) = {} THEN "parent" ELSE "commit",
               tx[r])

FileStep(r) == \/ CheckNoFile(r) \/ StoreObject(r) \/ AttachFile(r)
               \/ DetachFile(r) \/ RecountFiles(r)
=============================================================================
