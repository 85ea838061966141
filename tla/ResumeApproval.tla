-------------------------- MODULE ResumeApproval ---------------------------
(***************************************************************************)
(* The resumes of one job, from the first draft to APROVO: drafts written  *)
(* by hand and by the writer, generation again, editing, the check of the  *)
(* text against the confirmed facts of the profile, the reading test of    *)
(* the PDF, the ATS review and the approval.                               *)
(*                                                                         *)
(* The routes of the reading test, of the review and of the approval wait  *)
(* for the PDF to be rendered and read back: in between, the server runs   *)
(* other requests, on the same resume too.  request holds those that wait. *)
(*                                                                         *)
(* The job and its application are here as far as resumes touch them; what *)
(* an application goes through is AutoApply's.                             *)
(***************************************************************************)
EXTENDS Workflow, FiniteSets

CONSTANTS
  Ids,        \* resumes that may ever be created for the job
  Requests,   \* requests that may wait at the same time
  Claim,      \* things a text may assert and a profile may confirm
  Blocking,   \* those that must be confirmed before APROVO
  Titles,     \* titles
  Texts,      \* contents: the claims made, and a form
  None        \* NULL

Form == {"empty", "plain", "odd"}

ASSUME TextAssumption ==
  /\ Texts \subseteq [claims : SUBSET Claim, form : Form]
  /\ \A t \in Texts : t.form = "empty" => t.claims = {}
  /\ Texts # {} /\ Titles # {}
ASSUME ClaimAssumption == Blocking \subseteq Claim
ASSUME ResumeNoneAssumption ==
  None \notin Ids /\ None \notin Titles /\ None \notin Texts

VARIABLES
  job,        \* status and decision of the job
  app,        \* its application: status, mode and resume
  resume,     \* resumes
  profile,    \* facts of the active profile
  snapshots,  \* facts of every profile that was ever confirmed
  request     \* requests that wait for a reading test

vars == <<job, app, resume, profile, snapshots, request>>

-----------------------------------------------------------------------------

\* parse_check_json: the text that was read, and whether a parser sees it all.
Check == [title : Titles, text : Texts, ok : BOOLEAN]

(***************************************************************************)
(* used is facts_used; snapshot holds the facts of profile_snapshot_id, or *)
(* nothing when there is none;                                             *)
(* confirmed are the claims a person confirmed on this resume, whatever    *)
(* the version: the rows "confirmed" of resume_fact_checks.  The version   *)
(* itself only counts the edits and is left out.  "draft" is draft or      *)
(* review, which no guard tells apart; passed is review_status = "pass":   *)
(* not run, failed and overridden are the same to every guard.             *)
(***************************************************************************)
Resume ==
  [status : {"none", "draft", "approved", "superseded"},
   by : {"manual", "writer"}, title : Titles, text : Texts,
   used : SUBSET Claim, snapshot : SUBSET SUBSET Claim,
   passed : BOOLEAN, check : Check \cup {None}, confirmed : SUBSET Claim]

Application ==
  [status : {"none", "queued", "in_progress", "submitted"},
   mode : {"assisted", "manual", "authorized_auto"}, resume : Ids \cup {None}]

Job == [status : JobStatus, decision : {"pending", "interested", "no_time", "not_interested", "applied"}]

Request ==
  [kind : {"check", "review", "approve"}, id : Ids, title : Titles, text : Texts,
   reason : BOOLEAN]

ASSUME RecordAssumption == None \notin Check \cup Request

TypeOK ==
  /\ job \in Job /\ app \in Application
  /\ resume \in [Ids -> Resume]
  /\ profile \in SUBSET Claim
  /\ snapshots \in SUBSET (SUBSET Claim)
  /\ request \in [Requests -> Request \cup {None}]

Init ==
  /\ job = [status |-> "selected", decision |-> "interested"]
  /\ app = [status |-> "none", mode |-> "assisted", resume |-> None]
  /\ resume = [r \in Ids |->
       [status |-> "none", by |-> "manual", title |-> CHOOSE t \in Titles : TRUE,
        text |-> CHOOSE t \in Texts : TRUE, used |-> {}, snapshot |-> {},
        passed |-> FALSE, check |-> None, confirmed |-> {}]]
  /\ profile = {} /\ snapshots = {{}}
  /\ request = [q \in Requests |-> None]

-----------------------------------------------------------------------------
(* Texts and facts *)

\* What the writer makes of facts F, and the text without claim c or with claims d for it.
FactualText(F) == [claims |-> F, form |-> "plain"]
Replaced(t, c, d) == [t EXCEPT !.claims = (@ \ {c}) \cup d]
Removals(t, c) == {Replaced(t, c, {})} \cup {u \in Texts : u.form = "empty" /\ t.claims = {c}}

\* Facts a resume is checked against: its snapshot's or, without one, the active profile's.
Corpus(s) == IF s.snapshot = {} THEN profile ELSE UNION s.snapshot

Covered(s) == Corpus(s) \cup s.confirmed

\* What extractClaims finds in a text: numbers, dates, companies, roles, titles and technologies.
Claims(t) == t.claims

\* Claims still to be confirmed, corrected or removed: computeFactChecks.
Pending(s) == (Claims(s.text) \cap Blocking) \ Covered(s)

\* The test of the text the resume has now; one of an older text is stale.
HasCheck(s) == s.check # None /\ s.check.title = s.title /\ s.check.text = s.text
ParseFails(s) == HasCheck(s) /\ ~s.check.ok

\* The text is what the generation made of its facts.
Intact(s) ==
  /\ s.used \cap UNION s.snapshot # {}
  /\ s.text = FactualText(s.used \cap UNION s.snapshot)

\* Findings of a writer's resume: a fact that is not confirmed, a line no fact supports.
WriterFails(s) ==
  \/ s.snapshot = {} \/ s.used = {} \/ ~(s.used \subseteq UNION s.snapshot)
  \/ ~Intact(s) /\ (~(s.text.claims \subseteq s.used) \/ Pending(s) # {})

ReviewFails(s) ==
  \/ ParseFails(s) \/ s.text.form = "empty" \/ Pending(s) # {}
  \/ s.by = "writer" /\ WriterFails(s)

\* Facts of the workflow behind a command on the job, with resumes R and application m.
Facts(j, R, m) ==
  [interested |-> j.decision = "interested",
   draft |-> \E r \in Ids : R[r].status \notin {"none", "superseded"},
   strong |-> FALSE, approved |-> \E r \in Ids : R[r].status = "approved",
   flow |-> IF m.status = "none" THEN None ELSE m.mode,
   sent |-> m.status = "submitted", current |-> m.mode = "authorized_auto"]

Walk(j, t, R, m) ==
  /\ CanAdvance(j.status, t, Facts(j, R, m))
  /\ job' = [j EXCEPT !.status = Advanced(@, t)]

\* The application gives its authorization up.
Ungranted(m) == [m EXCEPT !.mode = IF @ = "authorized_auto" THEN "assisted" ELSE @]

-----------------------------------------------------------------------------
(* Drafts *)

NewResume(by, title, t, used, snapshot) ==
  [status |-> "draft", by |-> by, title |-> title, text |-> t, used |-> used,
   snapshot |-> snapshot, passed |-> FALSE, check |-> None, confirmed |-> {}]

\* A draft of the person's, or of an agent's, which counts as the writer's; the route
\* takes neither facts nor a snapshot.
CreateResume(r, by, title, t) ==
  LET R == [resume EXCEPT ![r] = NewResume(by, title, t, {}, {})] IN
  /\ resume[r].status = "none" /\ job.decision = "interested"
  /\ resume' = R /\ Walk(job, "resume", R, app)
  /\ UNCHANGED <<app, profile, snapshots, request>>

\* Drafts a new generation replaces.
Replaceable(s, r) ==
  /\ s.status = "draft" /\ s.by = "writer"
  /\ app.resume # r /\ Intact(s)

\* The writer makes a resume of facts F of snapshot S.
Generate(r, title, F, S) ==
  LET R == [u \in Ids |->
              IF u = r THEN NewResume("writer", title, FactualText(F), F, {S})
              ELSE IF Replaceable(resume[u], u)
                   THEN [resume[u] EXCEPT !.status = "superseded"] ELSE resume[u]]
  IN
  /\ resume[r].status = "none" /\ job.decision = "interested"
  /\ S \in snapshots /\ F # {} /\ F \subseteq S
  /\ FactualText(F) \in Texts
  /\ resume' = R /\ Walk(job, "resume", R, app)
  /\ UNCHANGED <<app, profile, snapshots, request>>

(***************************************************************************)
(* updateResume: the keys of patch p that are not None are written, back   *)
(* is status = "review".  Nothing else takes an approved resume out of its *)
(* lock, and the job follows when no other resume is approved.             *)
(***************************************************************************)
Patch == [title : Titles \cup {None}, text : Texts \cup {None},
          back : BOOLEAN]

Given(new, old) == IF new = None THEN old ELSE new

\* Mutant: only a change of status sends the review back.
PatchedKeepingReview(s, p) ==
  [s EXCEPT !.title = Given(p.title, @), !.text = Given(p.text, @),
            !.status = IF p.back THEN "draft" ELSE @]

Patched(s, p) ==
  [s EXCEPT !.title = Given(p.title, @), !.text = Given(p.text, @),
            !.status = IF p.back THEN "draft" ELSE @,
            !.passed = @ /\ p.text = None]

\* Mutant: the job stays where it is.
JobKept(r) == job

JobRevised(r) ==
  IF \E u \in Ids \ {r} : resume[u].status = "approved" THEN job
  ELSE [job EXCEPT !.status =
          IF Aborted(@) \in Rules["revise_resume"].from THEN Rules["revise_resume"].to ELSE @]

UpdateResume(r, p) ==
  LET s == resume[r] IN
  /\ s.status = "draft" \/ (s.status = "approved" /\ p.back)
  /\ ~(app.resume = r /\ app.status = "in_progress")
  /\ resume' = [resume EXCEPT ![r] = Patched(@, p)]
  /\ IF s.status = "approved"
     THEN /\ app' = IF app.resume = r /\ app.status = "queued" THEN Ungranted(app) ELSE app
          /\ job' = JobRevised(r)
     ELSE UNCHANGED <<app, job>>
  /\ UNCHANGED <<profile, snapshots, request>>

-----------------------------------------------------------------------------
(* Facts *)

\* A person reviews the profile and confirms it with facts F.
ConfirmProfile(F) ==
  /\ profile' = F /\ snapshots' = snapshots \cup {F}
  /\ UNCHANGED <<job, app, resume, request>>

\* The resume with claim c confirmed on it, checked against facts F from now on.
Confirmed(s, F, c) ==
  [s EXCEPT !.snapshot = {F}, !.confirmed = @ \cup {c}, !.passed = FALSE]

\* The person confirms a claim: profile N+1 with it, and the resume's snapshot is its.
ConfirmFact(r, c) ==
  LET s == resume[r]  F == profile \cup {c} IN
  /\ s.status = "draft" /\ c \in Claims(s.text) \ Covered(s)
  /\ profile' = F /\ snapshots' = snapshots \cup {F}
  /\ resume' = [resume EXCEPT ![r] = Confirmed(@, F, c)]
  /\ UNCHANGED <<job, app, request>>

\* The person corrects the claim, with a text that makes claims d, or removes it.
EditClaim(r, c, t) ==
  /\ resume[r].status = "draft"
  /\ c \in Claims(resume[r].text) /\ t \in Texts
  /\ UpdateResume(r, [title |-> None, text |-> t, back |-> FALSE])

CorrectFact(r, c, d) == EditClaim(r, c, Replaced(resume[r].text, c, d))
RemoveFact(r, c) == \E t \in Removals(resume[r].text, c) : EditClaim(r, c, t)

-----------------------------------------------------------------------------
(* Reading test, review, approval *)

\* reviewResume, of resumes R as the test left them; others: findings the caller adds.
Reviewed(R, r, others) ==
  [R EXCEPT ![r].passed = ~others /\ ~ReviewFails(R[r])]

MayApprove(s, reason) ==
  /\ s.status = "draft" /\ job.decision = "interested"
  /\ Pending(s) = {}
  /\ s.text.form # "empty" /\ ~ParseFails(s)
  /\ s.passed \/ reason

Approved(s) == [s EXCEPT !.status = "approved"]

(***************************************************************************)
(* What a request does once the reading test is at hand: nothing more, the *)
(* review, or the approval; a refusal leaves the test that was stored.     *)
(***************************************************************************)
Answer(k, R) ==
  LET s == R[k.id]
      A == [R EXCEPT ![k.id] = Approved(@)]
      target == IF app.status = "queued" THEN "ready_to_apply" ELSE "resume_approved"
      legal == MayApprove(s, k.reason) /\ CanAdvance(job.status, target, Facts(job, A, app))
  IN
  \/ /\ k.kind = "check" /\ resume' = R /\ UNCHANGED job
  \/ /\ k.kind = "review" /\ s.status # "superseded"
     /\ \E others \in BOOLEAN : resume' = Reviewed(R, k.id, others)
     /\ UNCHANGED job
  \/ /\ k.kind = "approve" /\ legal
     /\ resume' = A /\ Walk(job, target, A, app)
  \/ /\ \/ k.kind = "approve" /\ ~legal
        \/ k.kind = "review" /\ s.status = "superseded"
     /\ resume' = R /\ UNCHANGED job

Tested(k) == k.kind # "check" /\ HasCheck(resume[k.id])

RequestFor(r, kind, reason) ==
  [kind |-> kind, id |-> r, title |-> resume[r].title, text |-> resume[r].text, reason |-> reason]

\* A route is called: with a test of the text at hand it answers at once.
Call(q, k) ==
  /\ request[q] = None
  /\ resume[k.id].status # "none" /\ (k.reason => k.kind = "approve")
  /\ \/ /\ Tested(k) /\ Answer(k, resume)
        /\ UNCHANGED request
     \/ /\ ~Tested(k) /\ resume[k.id].status # "superseded"
        /\ request' = [request EXCEPT ![q] = k]
        /\ UNCHANGED <<resume, job>>
  /\ UNCHANGED <<app, profile, snapshots>>

\* Mutant: the result is written without looking at the text again.
StoredAnyway(k, ok) ==
  [resume EXCEPT ![k.id].check = [title |-> k.title, text |-> k.text, ok |-> ok]]

Stored(k, ok) ==
  IF resume[k.id].title = k.title /\ resume[k.id].text = k.text
  THEN [resume EXCEPT ![k.id].check = [title |-> k.title, text |-> k.text, ok |-> ok]]
  ELSE resume

(***************************************************************************)
(* The PDF was read: a parser misses part of an odd text, and of any other *)
(* when the extraction fails or a contact of the profile is not there.     *)
(***************************************************************************)
PdfRead(q, ok) ==
  /\ request[q] # None
  /\ ok => request[q].text.form = "plain"
  /\ Answer(request[q], Stored(request[q], ok))
  /\ request' = [request EXCEPT ![q] = None]
  /\ UNCHANGED <<app, profile, snapshots>>

-----------------------------------------------------------------------------
(* The job and the application, as far as resumes meet them *)

CreateApplication(r, mode) ==
  /\ app.status = "none" /\ resume[r].status = "approved"
  /\ job.decision = "interested" /\ job.status \in {"resume_approved", "ready_to_apply"}
  /\ LET m == [status |-> "queued", mode |-> mode, resume |-> r]
     IN app' = m /\ Walk(job, "ready_to_apply", resume, m)
  /\ UNCHANGED <<resume, profile, snapshots, request>>

\* AUTORIZO of the application's resume, and the executor's reservation.
Authorize ==
  /\ app.status = "queued" /\ app.mode # "authorized_auto"
  /\ resume[app.resume].status = "approved" /\ job.decision = "interested"
  /\ job.status \in {"resume_approved", "ready_to_apply"}
  /\ app' = [app EXCEPT !.mode = "authorized_auto"]
  /\ UNCHANGED <<job, resume, profile, snapshots, request>>

ClaimRun ==
  /\ app.status = "queued" /\ app.mode = "authorized_auto"
  /\ job.decision = "interested" /\ resume[app.resume].status = "approved"
  /\ app' = [app EXCEPT !.status = "in_progress"]
  /\ Walk(job, "applying", resume, app)
  /\ UNCHANGED <<resume, profile, snapshots, request>>

EndRun ==
  /\ app.status = "in_progress"
  /\ \/ /\ app' = [Ungranted(app) EXCEPT !.status = "queued"]
        /\ job' = [job EXCEPT !.status = Aborted(@)]
     \/ /\ app' = [app EXCEPT !.status = "submitted"]
        /\ job' = [status |-> Advanced(job.status, "applied"), decision |-> "applied"]
  /\ UNCHANGED <<resume, profile, snapshots, request>>

\* The manual flow opens the form: the transition of the panel.
StartManual ==
  /\ app.status = "queued" /\ Legal(job.status, "start_application", Facts(job, resume, app))
  /\ job' = [job EXCEPT !.status = "applying"]
  /\ UNCHANGED <<app, resume, profile, snapshots, request>>

\* No time, not interested, and back.
LoseInterest(d) ==
  /\ app.status \in {"none", "queued"}
  /\ job' = [status |-> IF d = "no_time" THEN Aborted(job.status)
                        ELSE IF job.status \in Active THEN "discarded" ELSE job.status,
             decision |-> d]
  /\ app' = IF app.status = "queued" THEN Ungranted(app) ELSE app
  /\ UNCHANGED <<resume, profile, snapshots, request>>

UndoDecision ==
  /\ job.decision \in {"no_time", "not_interested"} /\ app.status \in {"none", "queued"}
  /\ job' = [status |-> IF job.decision = "not_interested" /\ job.status = "discarded"
                        THEN "found" ELSE job.status,
             decision |-> "pending"]
  /\ UNCHANGED <<app, resume, profile, snapshots, request>>

DecideInterested ==
  LET target == IF \E r \in Ids : resume[r].status = "approved"
                THEN IF app.status # "none" THEN "ready_to_apply" ELSE "resume_approved"
                ELSE IF \E r \in Ids : resume[r].status \notin {"none", "superseded"}
                     THEN "resume" ELSE "selected"
  IN
  /\ job.status \notin Terminal /\ app.status \in {"none", "queued"}
  /\ Walk([job EXCEPT !.decision = "interested"], target, resume, app)
  /\ UNCHANGED <<app, resume, profile, snapshots, request>>

-----------------------------------------------------------------------------

\* Patches that do not come to the same: a title is another one, and only an approved
\* resume goes back.  A text given again does count: the review is not run.
Changes(s) ==
  {p \in Patch : /\ p.title # s.title /\ (p.back => s.status = "approved")
                 /\ p # [title |-> None, text |-> None, back |-> FALSE]}

DraftStep ==
  \E r \in Ids, title \in Titles :
    \/ \E by \in {"manual", "writer"}, t \in Texts : CreateResume(r, by, title, t)
    \/ \E F, S \in SUBSET Claim : Generate(r, title, F, S)

EditStep ==
  \E r \in Ids :
    \/ \E p \in Changes(resume[r]) : UpdateResume(r, p)
    \/ \E c \in Claim : \/ ConfirmFact(r, c) \/ RemoveFact(r, c)
                        \/ \E d \in SUBSET Claim : CorrectFact(r, c, d)

RequestStep ==
  \E q \in Requests :
    \/ \E r \in Ids, kind \in {"check", "review", "approve"}, reason \in BOOLEAN : Call(q, RequestFor(r, kind, reason))
    \/ \E ok \in BOOLEAN : PdfRead(q, ok)

JobStep ==
  \/ \E r \in Ids, mode \in {"assisted", "manual"} : CreateApplication(r, mode)
  \/ Authorize \/ ClaimRun \/ EndRun \/ StartManual
  \/ \E d \in {"no_time", "not_interested"} : LoseInterest(d)
  \/ UndoDecision \/ DecideInterested

Next ==
  \/ DraftStep \/ EditStep \/ RequestStep \/ JobStep
  \/ \E F \in SUBSET Claim : ConfirmProfile(F)

Spec == Init /\ [][Next]_vars

-----------------------------------------------------------------------------
(* Properties *)

Vouched == UNION snapshots

(***************************************************************************)
(* Nothing is approved, and no review passes, that nobody vouched for:     *)
(* whatever was edited, generated, corrected or confirmed in whatever      *)
(* order, and whatever request waited meanwhile, each claim of the text    *)
(* that must be confirmed was confirmed by the person.  No edit leaves a   *)
(* "pass" on a text with such a claim, and a justification stands for the  *)
(* review, never for the facts (approveResume, updateResume,               *)
(* resolveResumeFact, reviewResume after its wait).                        *)
(***************************************************************************)
TextIsVouched ==
  \A r \in Ids : resume[r].status = "approved" \/ resume[r].passed =>
    /\ resume[r].text.form # "empty"
    /\ resume[r].text.claims \cap Blocking \subseteq Vouched

(***************************************************************************)
(* A job is at a stage that needs an approved resume only while it has     *)
(* one: with several resumes, the one taken back decides with the others   *)
(* (updateResume), whatever the job and the application did meanwhile.     *)
(***************************************************************************)
StageHasApproved ==
  job.status \in {"resume_approved", "ready_to_apply", "applying"} =>
    \E r \in Ids : resume[r].status = "approved"

(***************************************************************************)
(* A reading test that failed on the text the resume has is not replaced   *)
(* by a late result of an older text (runResumeParseCheck): the approval   *)
(* would find no test of the text and no objection.                        *)
(***************************************************************************)
FailedCheckStays ==
  [][\A r \in Ids :
       /\ ParseFails(resume[r])
       /\ resume'[r].title = resume[r].title /\ resume'[r].text = resume[r].text
       => HasCheck(resume'[r])]_vars

=============================================================================
