------------------------------ MODULE Workflow ------------------------------
(***************************************************************************)
(* The job workflow of the Radar: the pure transition table of             *)
(* src/workflow.ts and the forward walk of src/db/job-workflow.ts.         *)
(*                                                                         *)
(* A command is legal in the statuses Rules[c].from and moves the job to   *)
(* Rules[c].to.  What a command demands beside that is of two kinds.  The  *)
(* human assertions (a reason, a date, a note) can always be supplied by   *)
(* the caller and are left out.  The facts of the database are recomputed  *)
(* by the server for each command and no caller can supply them: they are  *)
(* the record f of FactsAllow.                                             *)
(***************************************************************************)
EXTENDS Integers

PreApplication ==
  {"found", "validation", "strong_match", "review", "selected", "resume",
   "resume_approved", "ready_to_apply", "applying"}

Active == PreApplication \cup {"applied", "interview_scheduled", "interview_completed"}

Terminal == {"discarded", "expired", "completed"}

JobStatus == Active \cup Terminal

Rule(from, to) == [from |-> from, to |-> to]

Rules ==
  [normalize              |-> Rule({"found"}, "validation"),
   mark_strong_match      |-> Rule({"validation"}, "strong_match"),
   request_review         |-> Rule({"validation"}, "review"),
   present_for_review     |-> Rule({"strong_match"}, "review"),
   select                 |-> Rule({"review"}, "selected"),
   create_resume          |-> Rule({"selected"}, "resume"),
   approve_resume         |-> Rule({"resume"}, "resume_approved"),
   prepare_application    |-> Rule({"resume_approved"}, "ready_to_apply"),
   start_application      |-> Rule({"ready_to_apply"}, "applying"),
   confirm_applied        |-> Rule({"applying"}, "applied"),
   schedule_interview     |-> Rule({"applied"}, "interview_scheduled"),
   complete_interview     |-> Rule({"interview_scheduled"}, "interview_completed"),
   complete               |-> Rule({"interview_completed"}, "completed"),
   complete_exceptionally |-> Rule({"applied"}, "completed"),
   revise_resume          |-> Rule({"resume_approved", "ready_to_apply"}, "resume"),
   abort_application      |-> Rule({"applying"}, "ready_to_apply"),
   discard                |-> Rule(Active, "discarded"),
   expire                 |-> Rule(PreApplication, "expired"),
   reopen                 |-> Rule(Terminal, "found"),
   withdraw_interest      |-> Rule({"selected"}, "review")]

Command == DOMAIN Rules

\* Commands a domain operation issues and the transition endpoint refuses.
InternalOnly == {"revise_resume", "abort_application", "withdraw_interest"}

(***************************************************************************)
(* Facts of the database behind the rules: the job is marked interesting,  *)
(* it has a draft, it has an approved resume, how its application is sent  *)
(* (or None), whether that application has been sent, whether a current    *)
(* automatic authorization exists, whether the score is a strong match.    *)
(***************************************************************************)
FactsAllow(c, f) ==
  /\ c = "mark_strong_match"   => f.strong
  /\ c = "select"              => f.interested
  /\ c = "create_resume"       => f.draft
  /\ c = "approve_resume"      => f.approved
  /\ c = "prepare_application" => f.flow \in {"manual", "assisted"} \/ f.current
  /\ c = "start_application"   => f.flow = "manual" \/ f.current
  /\ c = "confirm_applied"     => f.flow \in {"manual", "authorized_auto"} /\ f.sent

Legal(s, c, f) == s \in Rules[c].from /\ FactsAllow(c, f)

(***************************************************************************)
(* The forward walk: advanceJobTo takes the forward command of each status *)
(* until the target's rank is reached, and never goes back.  From          *)
(* "validation" one of its two commands always applies, because the walk   *)
(* itself states that a human asked for the review.                        *)
(***************************************************************************)
Rank ==
  [found |-> 0, validation |-> 1, strong_match |-> 2, review |-> 3,
   selected |-> 4, resume |-> 5, resume_approved |-> 6, ready_to_apply |-> 7,
   applying |-> 8, applied |-> 9, interview_scheduled |-> 10,
   interview_completed |-> 11, completed |-> 12, discarded |-> -1, expired |-> -1]

ForwardCommand ==
  [found |-> "normalize", strong_match |-> "present_for_review", review |-> "select",
   selected |-> "create_resume", resume |-> "approve_resume",
   resume_approved |-> "prepare_application", ready_to_apply |-> "start_application",
   applying |-> "confirm_applied"]

\* The walk from s reaches t: nothing to do, or every command on the way is allowed.
CanAdvance(s, t, f) ==
  \/ Rank[s] >= Rank[t]
  \/ /\ Rank[s] >= 0
     /\ \A u \in DOMAIN ForwardCommand :
          Rank[s] <= Rank[u] /\ Rank[u] < Rank[t] => FactsAllow(ForwardCommand[u], f)

Advanced(s, t) == IF Rank[s] >= Rank[t] THEN s ELSE t

\* abortApplyingJob: only a job in "applying" goes back to the queue.
Aborted(s) == IF s = "applying" THEN Rules["abort_application"].to ELSE s

=============================================================================
