--------------------------- MODULE QuestionBridge ---------------------------
(***************************************************************************)
(* The questions of the executor go to the chat and the answers come back. *)
(* The notifier is a command that may run twice at a time: it takes a lock *)
(* file, reads the questions, sends each one and marks it.  A message of   *)
(* the chat may be delivered again; the plugin of the gateway runs a       *)
(* script for it, which reads the open questions, finds the one meant and  *)
(* answers it.                                                             *)
(*                                                                         *)
(* What an answer does to its application is in AutoApply.                 *)
(***************************************************************************)
EXTENDS Naturals, Sequences

CONSTANTS
  Codes,        \* short codes
  Code,         \* the code of a question: the beginning of its identifier
  Notifiers,    \* processes that run the notifier
  Handlers,     \* threads of the gateway
  Inbounds,     \* identifiers of the messages a person writes
  NoOne,        \* no code, no message
  Limit,        \* --limit
  MaxQuestions, \* bound on the questions asked
  MaxMessages,  \* bound on the messages sent to the chat
  MaxFaults     \* bound on the deaths, the slow runs and the requests that fail

\* A question is its place by asked_at; 0 is none.
Questions == 1..MaxQuestions

ASSUME BridgeAssumption ==
  Code \in [Questions -> Codes] /\ NoOne \notin Codes \cup Inbounds /\ Limit \in Nat \ {0}
ASSUME BoundAssumption ==
  MaxQuestions \in Nat /\ MaxMessages \in Nat /\ MaxFaults \in Nat

VARIABLES
  question,   \* human_questions
  asked,      \* how many questions were asked
  answers,    \* inbound_messages: what each message answered
  chat,       \* the question each message of the chat carries, by message id
  lock,       \* .radar/notify.lock: none, or its age
  notifier,   \* the runs of the notifier
  refs,       \* .radar/telegram-refs.json
  inbound,    \* what a person wrote
  handler,    \* the runs of the answer script
  faults,
  lapsed      \* a notifier died before a mark, lost the lock, or resent what it was unsure of

vars == <<question, asked, answers, chat, lock, notifier, refs, inbound, handler, faults, lapsed>>

\* Message 0 is none.
Message == 0..MaxMessages

\* closed: answered, or cancelled.
Question == [status : {"none", "pending", "delivered", "delivery_failed", "closed"},
             ref : Message]

Open(q) == question[q].status \in {"pending", "delivered"}

Create ==
  /\ asked < MaxQuestions
  /\ asked' = asked + 1
  /\ question' = [question EXCEPT ![asked'].status = "pending"]
  /\ UNCHANGED <<answers, chat, lock, notifier, refs, inbound, handler, faults, lapsed>>

\* Answered in the panel, or cancelled with its application.
Close(q) ==
  /\ Open(q) \/ question[q].status = "delivery_failed"
  /\ question' = [question EXCEPT ![q].status = "closed"]
  /\ UNCHANGED <<asked, answers, chat, lock, notifier, refs, inbound, handler, faults, lapsed>>

MarkHumanQuestionDelivery(q, delivered, ref) ==
  question' = [question EXCEPT ![q] =
    [status |-> IF delivered THEN "delivered" ELSE "delivery_failed", ref |-> ref]]

Markable(q) == question[q].status \in {"pending", "delivery_failed"}

-----------------------------------------------------------------------------
(* The notifier *)

Item == [question : Questions, retrying : BOOLEAN]

\* again: it removed an old lock and tries once more.
Notifier == [step : {"idle", "stale", "again", "listing", "sending", "marking", "remembering"},
             retry : BOOLEAN, todo : Seq(Item), ref : Message]

NoNotifier == [step |-> "idle", retry |-> FALSE, todo |-> <<>>, ref |-> 0]

Working(p) == notifier[p].step \in {"listing", "sending", "marking", "remembering"}

Step(p, step) == notifier' = [notifier EXCEPT ![p].step = step]

\* Mutant: the lock is not exclusive.
Shared(p) == TRUE

\* openSync(lockPath, "wx")
Free(p) == lock = "none"

\* More than ten minutes.
Old(p) == lock = "old"

Begin(p, step, retry) ==
  /\ notifier[p].step = "idle"
  /\ notifier' = [notifier EXCEPT ![p] = [NoNotifier EXCEPT !.step = step, !.retry = retry]]
  /\ UNCHANGED <<question, asked, answers, chat, refs, inbound, handler, faults, lapsed>>

\* acquireLock, first attempt.  A young lock ends the run.
TakeLock(p, retry) == Free(p) /\ lock' = "young" /\ Begin(p, "listing", retry)

FindStale(p, retry) == Old(p) /\ UNCHANGED lock /\ Begin(p, "stale", retry)

\* By now it may be the young lock of another run.
RemoveStale(p) ==
  /\ notifier[p].step = "stale"
  /\ lock' = "none" /\ lapsed' = (lapsed \/ lock = "young")
  /\ Step(p, "again")
  /\ UNCHANGED <<question, asked, answers, chat, refs, inbound, handler, faults>>

\* The second attempt is the last one.
AcquireAgain(p) ==
  /\ notifier[p].step = "again"
  /\ lock' = CASE Free(p) -> "young" [] Old(p) -> "none" [] OTHER -> lock
  /\ Step(p, IF Free(p) THEN "listing" ELSE "idle")
  /\ UNCHANGED <<question, asked, answers, chat, refs, inbound, handler, faults, lapsed>>

\* Mutant: what failed is always tried again.
WantedAlways(retry) ==
  {q \in 1..asked : question[q].status \in {"pending", "delivery_failed"}}

Wanted(retry) ==
  {q \in 1..asked : question[q].status = "pending"
                    \/ (retry /\ question[q].status = "delivery_failed")}

\* The list is the questions of set W that are wanted, the newest first, up to the limit.
IsNewest(list, W) ==
  /\ \A m, n \in DOMAIN list : m < n => list[m] > list[n]
  /\ \A q \in W : \/ \E n \in DOMAIN list : list[n] = q
                  \/ Limit \in DOMAIN list /\ list[Limit] > q

\* A run that has a list to send.
Listing(list) ==
  [NoNotifier EXCEPT !.step = "sending",
     !.todo = [n \in DOMAIN list |->
                 [question |-> list[n], retrying |-> question[list[n]].status # "pending"]]]

ListQuestions(p) ==
  LET wanted == Wanted(notifier[p].retry) IN
  /\ notifier[p].step = "listing"
  /\ \E size \in 0..Limit : \E list \in [1..size -> wanted] :
       /\ IsNewest(list, wanted)
       /\ notifier' = [notifier EXCEPT ![p] = Listing(list)]
  /\ UNCHANGED <<question, asked, answers, chat, lock, refs, inbound, handler, faults, lapsed>>

(* The message is sent or not; the identifier of one that was sent may not *)
(* come back: a minute passed, or the output has none.                     *)
RunSend(p) ==
  /\ notifier[p].step = "sending" /\ notifier[p].todo # <<>>
  /\ \E sent, known \in BOOLEAN :
       /\ known => sent
       /\ sent => Len(chat) < MaxMessages
       /\ chat' = IF sent THEN Append(chat, Head(notifier[p].todo).question) ELSE chat
       /\ notifier' = [notifier EXCEPT ![p].step = "marking", ![p].ref = IF known THEN Len(chat) + 1 ELSE 0]
       /\ lapsed' = (lapsed \/ Head(notifier[p].todo).retrying)
  /\ UNCHANGED <<question, asked, answers, lock, refs, inbound, handler, faults>>

Rest(p) == [notifier EXCEPT ![p].step = "sending", ![p].todo = Tail(@), ![p].ref = 0]

\* Mutant: a send that ends well is a delivery.
Presumed(p) == TRUE

\* Only a real message_id is a delivery.
Delivered(p) == notifier[p].ref # 0

\* What failed again stays as it is; a mark that is refused is only counted.
Mark(p) ==
  LET item == Head(notifier[p].todo)
      marks == (Delivered(p) \/ ~item.retrying) /\ Markable(item.question)
  IN  /\ notifier[p].step = "marking"
      /\ IF marks THEN MarkHumanQuestionDelivery(item.question, Delivered(p), notifier[p].ref)
                  ELSE UNCHANGED question
      /\ IF marks /\ Delivered(p) THEN Step(p, "remembering") ELSE notifier' = Rest(p)
      /\ UNCHANGED <<asked, answers, chat, lock, refs, inbound, handler, faults, lapsed>>

\* Written to a file that takes the name of the other.
RememberRef(p) ==
  /\ notifier[p].step = "remembering"
  /\ refs' = refs \cup {notifier[p].ref}
  /\ notifier' = Rest(p)
  /\ UNCHANGED <<question, asked, answers, chat, lock, inbound, handler, faults, lapsed>>

\* release: the lock is removed, whoever took it.
Release(p) ==
  /\ notifier[p].step = "sending" /\ notifier[p].todo = <<>>
  /\ lock' = "none"
  /\ notifier' = [notifier EXCEPT ![p] = NoNotifier]
  /\ UNCHANGED <<question, asked, answers, chat, refs, inbound, handler, faults, lapsed>>

(* A request that fails ends the run, which removes the lock; a death      *)
(* leaves it there.                                                        *)
Fault(p) ==
  /\ faults < MaxFaults /\ notifier[p].step # "idle"
  /\ \/ UNCHANGED lock
     \/ notifier[p].step \in {"listing", "marking"} /\ lock' = "none"
  /\ lapsed' = (lapsed \/ notifier[p].step = "marking")
  /\ faults' = faults + 1
  /\ notifier' = [notifier EXCEPT ![p] = NoNotifier]
  /\ UNCHANGED <<question, asked, answers, chat, refs, inbound, handler>>

\* Ten minutes pass: more than a run takes, but for a slow one.
LockAges ==
  LET slow == \E p \in Notifiers : Working(p)
  IN  /\ lock = "young"
      /\ slow => faults < MaxFaults
      /\ faults' = IF slow THEN faults + 1 ELSE faults
      /\ lock' = "old" /\ lapsed' = (lapsed \/ slow)
      /\ UNCHANGED <<question, asked, answers, chat, notifier, refs, inbound, handler>>

-----------------------------------------------------------------------------
(* The answers *)

\* A command with a code, a reply to a message of the chat, or both.
Inbound == [code : Codes \cup {NoOne}, reply : Message]

NotWritten == [code |-> NoOne, reply |-> 0]

\* What a person may write: the code of a question, a message of the chat.
Writable == [code : {Code[q] : q \in 1..asked} \cup {NoOne}, reply : 0..Len(chat)]

\* should_consume: the rest of the chat goes on to the agent.
ShouldConsume(text) == text.code # NoOne \/ text.reply \in refs

\* The open questions the message may mean.
Matches(text) ==
  {q \in Questions :
     /\ Open(q)
     /\ IF text.code # NoOne THEN Code[q] = text.code ELSE question[q].ref = text.reply}

Handler == [step : {"idle", "found"}, inbound : Inbounds \cup {NoOne}, target : 0..MaxQuestions]

NoHandler == [step |-> "idle", inbound |-> NoOne, target |-> 0]

\* The message is delivered, once or again, and the script finds its question.
OnPreGatewayDispatch(h, i) ==
  /\ handler[h].step = "idle"
  /\ \E text \in IF inbound[i] = NotWritten THEN Writable ELSE {inbound[i]}, q \in Questions :
       /\ ShouldConsume(text) /\ Matches(text) = {q}
       /\ inbound' = [inbound EXCEPT ![i] = text]
       /\ handler' = [handler EXCEPT ![h] = [step |-> "found", inbound |-> i, target |-> q]]
  /\ UNCHANGED <<question, asked, answers, chat, lock, notifier, refs, faults, lapsed>>

\* Mutant: the messages that were answered are not looked up.
NeverSeen(i) == FALSE

\* inbound_messages
Seen(i) == \E q \in Questions : <<i, q>> \in answers

\* An answer, a question skipped, or a stop.
AnswerHumanQuestion(h) ==
  LET i == handler[h].inbound
      q == handler[h].target
  IN  /\ handler[h].step = "found"
      /\ ~Seen(i) /\ Open(q)
      /\ inbound[i].reply # 0 => question[q].ref = inbound[i].reply
      /\ answers' = answers \cup {<<i, q>>}
      /\ question' = [question EXCEPT ![q].status = "closed"]
      /\ handler' = [handler EXCEPT ![h] = NoHandler]
      /\ UNCHANGED <<asked, chat, lock, notifier, refs, inbound, faults, lapsed>>

\* Refused, seen before, or half a minute passed.
GiveUp(h) ==
  /\ handler[h].step = "found"
  /\ handler' = [handler EXCEPT ![h] = NoHandler]
  /\ UNCHANGED <<question, asked, answers, chat, lock, notifier, refs, inbound, faults, lapsed>>

-----------------------------------------------------------------------------
Init ==
  /\ question = [q \in Questions |-> [status |-> "none", ref |-> 0]]
  /\ asked = 0 /\ answers = {} /\ chat = <<>> /\ lock = "none" /\ refs = {}
  /\ notifier = [p \in Notifiers |-> NoNotifier]
  /\ inbound = [i \in Inbounds |-> NotWritten]
  /\ handler = [h \in Handlers |-> NoHandler]
  /\ faults = 0 /\ lapsed = FALSE

\* What a notifier does once it runs.
Run(p) ==
  \/ RemoveStale(p) \/ AcquireAgain(p) \/ ListQuestions(p) \/ RunSend(p)
  \/ Mark(p) \/ RememberRef(p) \/ Release(p)

Next ==
  \/ Create \/ \E q \in Questions : Close(q)
  \/ \E p \in Notifiers :
       Run(p) \/ Fault(p) \/ \E retry \in BOOLEAN : TakeLock(p, retry) \/ FindStale(p, retry)
  \/ LockAges
  \/ \E h \in Handlers :
       AnswerHumanQuestion(h) \/ GiveUp(h) \/ \E i \in Inbounds : OnPreGatewayDispatch(h, i)

Spec == Init /\ [][Next]_vars

(* A run goes on, time passes, and the operator runs the notifier again    *)
(* and again, not always with --retry-failed.                              *)
Fairness ==
  /\ \A p \in Notifiers : WF_vars(Run(p))
  /\ WF_vars(LockAges)
  /\ SF_vars(\E p \in Notifiers : TakeLock(p, FALSE))
  /\ SF_vars(\E p \in Notifiers : FindStale(p, FALSE))

FairSpec == Spec /\ Fairness

-----------------------------------------------------------------------------
(* Properties *)

\* A question that was delivered has the message that carries it.
Carried(q) == question[q].status = "delivered" => question[q].ref # 0 /\ chat[question[q].ref] = q

TypeOK ==
  /\ \A q \in Questions : Carried(q)
  /\ question \in [Questions -> Question] /\ lock \in {"none", "young", "old"}
  /\ asked \in 0..MaxQuestions /\ chat \in Seq(Questions)
  /\ refs \subseteq 1..Len(chat) /\ answers \subseteq Inbounds \X Questions
  /\ notifier \in [Notifiers -> Notifier]
  /\ inbound \in [Inbounds -> Inbound] /\ handler \in [Handlers -> Handler]
  /\ faults \in 0..MaxFaults

(* A question goes to the chat once, unless a run died or failed between   *)
(* sending and marking, its lock passed ten minutes or was removed under   *)
(* it, or a message that was not confirmed is sent again                   *)
(* (acquireLock, --retry-failed).                                          *)
SentOnce ==
  ~lapsed => \A m, n \in DOMAIN chat : chat[m] = chat[n] => m = n

(* A message answers one question at most, however often it is delivered   *)
(* and whatever codes the questions share, and a reply answers the         *)
(* question its message carried (answerHumanQuestion).                     *)
MessageAnswersItsQuestion ==
  /\ \A x, y \in answers : x[1] = y[1] => x = y
  /\ \A x \in answers : inbound[x[1]].reply # 0 => chat[inbound[x[1]].reply] = x[2]

(* A question that waits does not wait forever: whatever runs died with    *)
(* the lock or took it from one another, and however many newer questions  *)
(* there are, it is sent, or marked as not sent, or closed.                *)
PendingIsTried ==
  \A q \in Questions : question[q].status = "pending" ~> question[q].status # "pending"
=============================================================================
