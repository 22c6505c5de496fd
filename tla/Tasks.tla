------------------------------- MODULE Tasks ---------------------------------
(***************************************************************************)
(* The participants of one task (tasks.service.ts): who takes part, how    *)
(* far the work of each has come and how it was reviewed.  Every statement *)
(* that reaches the database is an action; nothing runs in a transaction,  *)
(* so the handlers interleave between the row they check and the row they  *)
(* write.                                                                  *)
(*                                                                         *)
(* Requests of users who are not the task's creator, or not the named      *)
(* participant, change nothing and are left out, as are title, text, due   *)
(* date and the notifications.                                             *)
(***************************************************************************)
EXTENDS Participation

VARIABLES
  taskDeleted,  \* Task.deletedAt is set
  assignee,     \* assignee[u]: the TaskParticipant of u, or Unassigned
  taskReq,      \* taskReq[h]: the request handler h works on
  overwritten   \* history: a request has written over a change to u's row
                \* that it had not read

taskVars == <<taskDeleted, assignee, taskReq, overwritten>>

WorkStatus == {"PENDING", "ACCEPTED", "IN_PROGRESS", "SUBMITTED", "DECLINED"}

ReviewStatus == {"PENDING", "APPROVED", "REJECTED"}

(* rated: rating is a number; submitted: submittedAt is set.               *)
Assignees == [work : WorkStatus, review : ReviewStatus,
              rated : BOOLEAN, submitted : BOOLEAN]

Unassigned == [work |-> "none", review |-> "none", rated |-> FALSE, submitted |-> FALSE]

(* Mutant: the work status, which has no default, is not given.            *)
NewAssigneeUnset ==
  [work |-> "none", review |-> "PENDING", rated |-> FALSE, submitted |-> FALSE]

NewAssignee ==
  [work |-> "PENDING", review |-> "PENDING", rated |-> FALSE, submitted |-> FALSE]

Assigned(u) == assignee[u] # Unassigned

(* rating of a review: not in the request, a number from 1 to 10, or null. *)
Ratings == {"keep", "set", "clear"}

(* who: the users the request is about; want, rating: what it asks for;    *)
(* read: the participant a work or review request has read.                *)
NoTaskReq == [op |-> "none", at |-> "idle", who |-> {}, want |-> "none",
              rating |-> "keep", read |-> Unassigned]

TaskReqs ==
  [op : {"none", "add", "remove", "work", "review", "delete"},
   at : {"idle", "allowed", "read"}, who : SUBSET Users,
   want : WorkStatus \union ReviewStatus \union {"none"}, rating : Ratings,
   read : Assignees \union {Unassigned}]

FinishTask(h) == taskReq' = [taskReq EXCEPT ![h] = NoTaskReq]

------------------------------------------------------------------------------
(* The transition tables *)

WorkSteps(status) ==
  CASE status = "PENDING"     -> {"ACCEPTED", "DECLINED"}
    [] status = "ACCEPTED"    -> {"IN_PROGRESS"}
    [] status = "IN_PROGRESS" -> {"SUBMITTED"}
    [] OTHER                  -> {}

ReviewSteps(status) ==
  CASE status = "PENDING"  -> {"APPROVED", "REJECTED"}
    [] status = "APPROVED" -> {"REJECTED"}
    [] status = "REJECTED" -> {"APPROVED"}
    [] OTHER               -> {}

(* Mutant: work in any state can be reviewed.                              *)
StepAllowedUnsubmitted(op, want, p) ==
  CASE op = "work"   -> want \in WorkSteps(p.work)
    [] op = "review" -> want \in ReviewSteps(p.review)
    [] OTHER         -> TRUE

(* What a handler checks of the participant it has read.                   *)
StepAllowed(op, want, p) ==
  CASE op = "work"   -> want \in WorkSteps(p.work)
    [] op = "review" -> p.work = "SUBMITTED" /\ want \in ReviewSteps(p.review)
    [] OTHER         -> TRUE

(* The update of a participant; submittedAt is written with SUBMITTED.     *)
Moved(op, want, rating, p) ==
  IF op = "work"
  THEN [p EXCEPT !.work = want, !.submitted = (p.submitted \/ want = "SUBMITTED")]
  ELSE [p EXCEPT !.review = want,
                 !.rated = (rating = "set" \/ (rating = "keep" /\ p.rated))]

------------------------------------------------------------------------------
(* Handlers *)

(* A request arrives; assertTaskOwner, or the look at the task of          *)
(* updateWorkStatus, refuses it when the task is deleted.                  *)
AssertTask(h, op, S, want, rating) ==
  /\ op \in Ops
  /\ taskReq[h] = NoTaskReq
  /\ taskReq' = IF taskDeleted THEN taskReq
                ELSE [taskReq EXCEPT ![h] =
                       [op |-> op, at |-> "allowed", who |-> S, want |-> want,
                        rating |-> rating, read |-> Unassigned]]
  /\ UNCHANGED <<taskDeleted, assignee, overwritten>>

TaskRequest(h) ==
  \/ \E S \in (SUBSET Users) \ {{}} : AssertTask(h, "add", S, "none", "keep")
  \/ \E u \in Users : AssertTask(h, "remove", {u}, "none", "keep")
  \/ \E u \in Users, status \in WorkStatus : AssertTask(h, "work", {u}, status, "keep")
  \/ \E u \in Users, status \in ReviewStatus, rating \in Ratings :
       AssertTask(h, "review", {u}, status, rating)
  \/ AssertTask(h, "delete", {}, "none", "keep")

DeleteTask(h) ==
  /\ taskReq[h].op = "delete" /\ taskReq[h].at = "allowed"
  /\ taskDeleted' = TRUE
  /\ FinishTask(h)
  /\ UNCHANGED <<assignee, overwritten>>

(* addParticipants leaves out those who take part already...               *)
ReadAssigned(h) ==
  /\ taskReq[h].op = "add" /\ taskReq[h].at = "allowed"
  /\ LET toAdd == {u \in taskReq[h].who : ~Assigned(u)} IN
     IF toAdd = {} THEN FinishTask(h)
     ELSE taskReq' = [taskReq EXCEPT ![h].at = "read", ![h].who = toAdd]
  /\ UNCHANGED <<taskDeleted, assignee, overwritten>>

Assign(S) ==
  /\ assignee' = [u \in Users |-> IF u \in S THEN NewAssignee ELSE assignee[u]]
  /\ overwritten' = [u \in Users |-> overwritten[u] /\ u \notin S]

(* Mutant: an invitation overwrites the participant.                       *)
UpsertAssignees(h) ==
  /\ taskReq[h].op = "add" /\ taskReq[h].at = "read"
  /\ Assign(taskReq[h].who)
  /\ FinishTask(h)
  /\ UNCHANGED taskDeleted

(* ...and inserts the others in one statement, which fails as a whole on a *)
(* participant who has been added since.                                   *)
InsertAssignees(h) ==
  /\ taskReq[h].op = "add" /\ taskReq[h].at = "read"
  /\ IF \E u \in taskReq[h].who : Assigned(u)
     THEN UNCHANGED <<assignee, overwritten>>
     ELSE Assign(taskReq[h].who)
  /\ FinishTask(h)
  /\ UNCHANGED taskDeleted

ReadAssignee(h) ==
  /\ taskReq[h].op \in {"work", "review"} /\ taskReq[h].at = "allowed"
  /\ \E u \in taskReq[h].who :
       IF Assigned(u) /\ StepAllowed(taskReq[h].op, taskReq[h].want, assignee[u])
       THEN taskReq' = [taskReq EXCEPT ![h].at = "read", ![h].read = assignee[u]]
       ELSE FinishTask(h)
  /\ UNCHANGED <<taskDeleted, assignee, overwritten>>

FindAssignee(h) ==
  /\ taskReq[h].op = "remove" /\ taskReq[h].at = "allowed"
  /\ IF \A u \in taskReq[h].who : Assigned(u)
     THEN taskReq' = [taskReq EXCEPT ![h].at = "read"]
     ELSE FinishTask(h)
  /\ UNCHANGED <<taskDeleted, assignee, overwritten>>

(* By primary key: fails when the participant is gone.                     *)
RemoveAssignee(h) ==
  /\ taskReq[h].op = "remove" /\ taskReq[h].at = "read"
  /\ assignee' = [u \in Users |-> IF u \in taskReq[h].who THEN Unassigned ELSE assignee[u]]
  /\ FinishTask(h)
  /\ UNCHANGED <<taskDeleted, overwritten>>

(* By primary key too, whatever the participant has become.                *)
WriteStatus(h) ==
  LET q == taskReq[h] IN
  /\ q.op \in {"work", "review"} /\ q.at = "read"
  /\ \E u \in q.who :
       IF Assigned(u)
       THEN /\ assignee' = [assignee EXCEPT ![u] = Moved(q.op, q.want, q.rating, assignee[u])]
            /\ overwritten' = [overwritten EXCEPT ![u] = overwritten[u] \/ assignee[u] # q.read]
       ELSE UNCHANGED <<assignee, overwritten>>
  /\ FinishTask(h)
  /\ UNCHANGED taskDeleted

------------------------------------------------------------------------------
TaskInit ==
  /\ taskDeleted = FALSE
  /\ assignee = [u \in Users |-> Unassigned]
  /\ taskReq = [h \in Handlers |-> NoTaskReq]
  /\ overwritten = [u \in Users |-> FALSE]

TaskStep(h) ==
  \/ TaskRequest(h) \/ DeleteTask(h)
  \/ ReadAssigned(h) \/ InsertAssignees(h)
  \/ ReadAssignee(h) \/ WriteStatus(h) \/ FindAssignee(h) \/ RemoveAssignee(h)

TaskNext == \E h \in Handlers : TaskStep(h)

TaskSpec == TaskInit /\ [][TaskNext]_taskVars
------------------------------------------------------------------------------
(* Properties *)

(* Rows and requests have the shape the code gives them.                   *)
TaskTypeOK ==
  /\ taskDeleted \in BOOLEAN
  /\ assignee \in [Users -> Assignees \union {Unassigned}]
  /\ taskReq \in [Handlers -> TaskReqs]
  /\ overwritten \in [Users -> BOOLEAN]

(* What the two tables together allow: only submitted work is reviewed and *)
(* only reviewed work is rated, and exactly submitted work has its time.   *)
Legal(p) ==
  /\ p.review # "PENDING" => p.work = "SUBMITTED"
  /\ p.rated => p.review # "PENDING"
  /\ p.work = "SUBMITTED" <=> p.submitted

(* The checks of single requests add up: however work and review requests  *)
(* follow each other, a participant is in a legal state unless one of them *)
(* has written over a change it had not read.                              *)
LegalUnlessOverwritten ==
  \A u \in Users : (Assigned(u) /\ ~overwritten[u]) => Legal(assignee[u])

(* Adding participants never undoes the progress of one who takes part.    *)
ProgressKept ==
  [][\A u \in Users : (Assigned(u) /\ assignee[u] # NewAssignee)
                        => assignee'[u] # NewAssignee]_taskVars

(* "Can only review submitted work": the work of a participant who has     *)
(* been reviewed is submitted.                                             *)
ReviewedIsSubmitted ==
  \A u \in Users : (Assigned(u) /\ assignee[u].review # "PENDING")
                     => assignee[u].work = "SUBMITTED"
==============================================================================
