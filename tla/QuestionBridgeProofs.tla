------------------------ MODULE QuestionBridgeProofs -------------------------
(***************************************************************************)
(* The questions of the chat, proved for any number of questions, runs of  *)
(* the notifier, threads of the gateway and messages.                      *)
(*                                                                         *)
(* The chat only grows, so that what a message carries is what it carried  *)
(* when its identifier was written down, in a question or in the answer of *)
(* a person.  While no run lapsed, one run at most works, and it holds the *)
(* lock: a question in the chat that is still pending is the one it has    *)
(* just sent, and what it has left to send is not in the chat.             *)
(***************************************************************************)
EXTENDS QuestionBridge, TLAPS

-----------------------------------------------------------------------------
(* The invariants *)

Types ==
  /\ question \in [Questions -> Question] /\ lock \in {"none", "young", "old"}
  /\ asked \in 0..MaxQuestions /\ chat \in Seq(Questions) /\ Len(chat) <= MaxMessages
  /\ refs \subseteq 1..Len(chat) /\ answers \subseteq Inbounds \X Questions
  /\ notifier \in [Notifiers -> Notifier]
  /\ inbound \in [Inbounds -> Inbound] /\ handler \in [Handlers -> Handler]
  /\ faults \in 0..MaxFaults /\ lapsed \in BOOLEAN

\* Message r of chat c, when there is one, carries question q.
Shows(c, r, q) == r # 0 => r \in 1..Len(c) /\ c[r] = q

\* Only questions that were asked are sent.
OnlyAsked(c, k) == \A n \in 1..Len(c) : c[n] <= k

\* Row s of a question q.
Row(s, q, c) == Shows(c, s.ref, q) /\ (s.status = "delivered" => s.ref # 0)

\* What a run s of the notifier holds.
Holds(s, c, k) ==
  /\ \A n \in 1..Len(s.todo) : s.todo[n].question <= k
  /\ s.step \in {"marking", "remembering"} => s.todo # <<>>
  /\ s.step = "remembering" => s.ref # 0
  /\ s.ref # 0 => s.todo # <<>> /\ Shows(c, s.ref, Head(s.todo).question)

\* A handler has found the question of a message that was written.
Found(s, m) ==
  s.step = "found" => /\ s.inbound \in Inbounds /\ s.target \in Questions
                      /\ m[s.inbound] # NotWritten

\* Answer x is of a message that was written, to the question it replies to.
Answer(x, m, c) == m[x[1]] # NotWritten /\ Shows(c, m[x[1]].reply, x[2])

ChatInv ==
  /\ OnlyAsked(chat, asked)
  /\ \A q \in Questions : Row(question[q], q, chat)
  /\ \A p \in Notifiers : Holds(notifier[p], chat, asked)

AnswersInv ==
  /\ \A i \in Inbounds : inbound[i].reply <= Len(chat)
  /\ \A h \in Handlers : Found(handler[h], inbound)
  /\ \A x \in answers : Answer(x, inbound, chat)
  /\ \A x, y \in answers : x[1] = y[1] => x = y

BridgeInv == Types /\ ChatInv /\ AnswersInv

-----------------------------------------------------------------------------
(* The initial state, and what stays *)

(* Nothing was asked, sent or written.                                     *)
LEMMA InitBridge == Init => BridgeInv
<1> SUFFICES ASSUME Init PROVE BridgeInv
  OBVIOUS
<1> USE BridgeAssumption, BoundAssumption
<1>1. Types
  <2>1. NoNotifier \in Notifier
    <3>1. <<>> \in Seq(Item)
      OBVIOUS
    <3> QED
      BY <3>1 DEF NoNotifier, Notifier, Message
  <2>2. NoHandler \in Handler /\ NotWritten \in Inbound
    BY DEF NoHandler, Handler, NotWritten, Inbound, Message
  <2>3. question \in [Questions -> Question]
    BY DEF Init, Question, Message
  <2>4. chat \in Seq(Questions) /\ Len(chat) = 0
    BY DEF Init
  <2>5. /\ notifier \in [Notifiers -> Notifier] /\ inbound \in [Inbounds -> Inbound]
        /\ handler \in [Handlers -> Handler]
    BY <2>1, <2>2 DEF Init
  <2>6. /\ lock \in {"none", "young", "old"} /\ asked \in 0..MaxQuestions
        /\ Len(chat) <= MaxMessages /\ refs \subseteq 1..Len(chat)
        /\ answers \subseteq Inbounds \X Questions /\ faults \in 0..MaxFaults
    BY <2>4 DEF Init
  <2>7. lapsed \in BOOLEAN
    BY DEF Init
  <2> QED
    BY <2>3, <2>4, <2>5, <2>6, <2>7 DEF Types
<1>2. ChatInv
  <2>1. Len(chat) = 0 /\ Len(NoNotifier.todo) = 0 /\ NoNotifier.ref = 0
        /\ NoNotifier.step = "idle"
    BY DEF Init, NoNotifier
  <2>2. \A p \in Notifiers : Holds(notifier[p], chat, asked)
    BY <2>1 DEF Init, Holds
  <2>3. \A q \in Questions : Row(question[q], q, chat)
    BY DEF Init, Row, Shows
  <2> QED
    BY <2>1, <2>2, <2>3 DEF ChatInv, OnlyAsked
<1>3. AnswersInv
  BY DEF Init, AnswersInv, Found, Answer, NoHandler, NotWritten
<1> QED
  BY <1>1, <1>2, <1>3 DEF BridgeInv

(* What a message carries stays when the chat grows.                       *)
LEMMA ShowsGrow ==
  ASSUME NEW c \in Seq(Questions), NEW d \in Questions, NEW r \in Nat, NEW q, Shows(c, r, q)
  PROVE  Shows(Append(c, d), r, q)
<1>1. Len(Append(c, d)) = Len(c) + 1 /\ \A n \in 1..Len(c) : Append(c, d)[n] = c[n]
  OBVIOUS
<1> QED
  BY <1>1 DEF Shows

(* A step that leaves the chat, the messages and the handlers alone keeps  *)
(* what is known of the answers.                                           *)
LEMMA AnswersStay ==
  ASSUME AnswersInv, UNCHANGED <<chat, inbound, handler, answers>>
  PROVE  AnswersInv'
BY DEF AnswersInv

(* What is left to send after the first.                                   *)
LEMMA RestFits ==
  ASSUME Types, ChatInv, NEW p \in Notifiers, notifier[p].todo # <<>>
  PROVE  /\ Rest(p) \in [Notifiers -> Notifier]
         /\ \A o \in Notifiers : Holds(Rest(p)[o], chat, asked)
<1> DEFINE t == Tail(notifier[p].todo)
<1>1. notifier[p].todo \in Seq(Item)
  BY DEF Types, Notifier
<1>2. t \in Seq(Item) /\ Len(t) = Len(notifier[p].todo) - 1
      /\ \A n \in 1..Len(t) : t[n] = notifier[p].todo[n + 1] /\ n + 1 \in 1..Len(notifier[p].todo)
  BY <1>1
<1>3. Rest(p)[p] = [step |-> "sending", retry |-> notifier[p].retry, todo |-> t, ref |-> 0]
  BY DEF Types, Notifier, Rest
<1>4. \A o \in Notifiers : o # p => Rest(p)[o] = notifier[o]
  BY DEF Types, Rest
<1> HIDE DEF t
<1>5. Rest(p)[p] \in Notifier
  BY <1>2, <1>3, BoundAssumption DEF Types, Notifier, Message
<1>6. Holds(Rest(p)[p], chat, asked)
  BY <1>2, <1>3 DEF ChatInv, Holds
<1>7. Rest(p) \in [Notifiers -> Notifier]
  BY <1>4, <1>5 DEF Types, Rest
<1> QED
  BY <1>4, <1>6, <1>7 DEF ChatInv
-----------------------------------------------------------------------------
(* The steps keep the invariant *)

(* A question that was asked is not in the chat, but only those that were. *)
LEMMA CreateKeeps ==
  ASSUME BridgeInv, Create
  PROVE  BridgeInv'
<1> USE BridgeAssumption, BoundAssumption
<1>1. Types'
  <2>1. asked' \in 0..MaxQuestions
    BY DEF BridgeInv, Types, Create
  <2>2. question' \in [Questions -> Question]
    BY DEF BridgeInv, Types, Create, Question
  <2> QED
    BY <2>1, <2>2 DEF BridgeInv, Types, Create
<1>2. ChatInv'
  <2>1. \A q \in Questions : question'[q].ref = question[q].ref
                             /\ (question'[q].status = "delivered" => question[q].status = "delivered")
    BY DEF BridgeInv, Types, Create, Question
  <2>2. asked' = asked + 1 /\ asked \in Nat
    BY DEF BridgeInv, Types, Create
  <2>3. \A n \in 1..Len(chat) : chat[n] \in Nat
    BY DEF BridgeInv, Types, Questions
  <2>4. \A p \in Notifiers : \A n \in 1..Len(notifier[p].todo) : notifier[p].todo[n].question \in Nat
    <3>1. \A p \in Notifiers : notifier[p].todo \in Seq(Item)
      BY DEF BridgeInv, Types, Notifier
    <3>2. \A p \in Notifiers : \A n \in 1..Len(notifier[p].todo) : notifier[p].todo[n] \in Item
      BY <3>1
    <3> QED
      BY <3>2 DEF Item, Questions
  <2>5. OnlyAsked(chat, asked')
    BY <2>2, <2>3 DEF BridgeInv, ChatInv, OnlyAsked
  <2>6. \A p \in Notifiers : Holds(notifier[p], chat, asked')
    BY <2>2, <2>4 DEF BridgeInv, ChatInv, Holds
  <2> QED
    BY <2>1, <2>5, <2>6 DEF BridgeInv, ChatInv, Create, Row
<1>3. AnswersInv'
  BY AnswersStay DEF BridgeInv, Create
<1> QED
  BY <1>1, <1>2, <1>3 DEF BridgeInv

(* A question that is closed keeps the message that carries it.            *)
LEMMA CloseKeeps ==
  ASSUME BridgeInv, NEW q \in Questions, Close(q)
  PROVE  BridgeInv'
<1>1. Types'
  BY DEF BridgeInv, Types, Close, Question
<1>2. ChatInv'
  <2>1. \A r \in Questions : question'[r].ref = question[r].ref
                             /\ (question'[r].status = "delivered" => question[r].status = "delivered")
    BY DEF BridgeInv, Types, Close, Question
  <2> QED
    BY <2>1 DEF BridgeInv, ChatInv, Close, Row
<1>3. AnswersInv'
  BY AnswersStay DEF BridgeInv, Close
<1> QED
  BY <1>1, <1>2, <1>3 DEF BridgeInv

(* A run that begins, ends or waits for the lock holds nothing.            *)
LEMMA NothingHeld ==
  ASSUME BoundAssumption, Types, ChatInv, NEW p \in Notifiers,
         NEW step \in {"idle", "stale", "again", "listing"}, NEW retry \in BOOLEAN
  PROVE  /\ [NoNotifier EXCEPT !.step = step, !.retry = retry] \in Notifier
         /\ Holds([NoNotifier EXCEPT !.step = step, !.retry = retry], chat, asked)
<1>1. <<>> \in Seq(Item) /\ Len(<<>>) = 0
  OBVIOUS
<1> DEFINE s == [NoNotifier EXCEPT !.step = step, !.retry = retry]
<1>2. s.step = step /\ s.todo = <<>> /\ s.ref = 0
  BY DEF NoNotifier
<1>3. s \in Notifier
  <2>1. NoNotifier \in Notifier
    BY <1>1 DEF NoNotifier, Notifier, Message
  <2>2. \A n \in Notifier : [n EXCEPT !.step = step, !.retry = retry] \in Notifier
    BY DEF Notifier
  <2> QED
    BY <2>1, <2>2
<1> HIDE DEF s
<1>4. Holds(s, chat, asked)
  BY <1>1, <1>2 DEF Holds
<1> QED
  BY <1>3, <1>4 DEF s

(* A run that has ended holds nothing.                                     *)
LEMMA NoNotifierFits ==
  ASSUME BoundAssumption, Types, ChatInv
  PROVE  NoNotifier \in Notifier /\ Holds(NoNotifier, chat, asked)
<1>1. <<>> \in Seq(Item) /\ Len(<<>>) = 0
  OBVIOUS
<1> QED
  BY <1>1 DEF NoNotifier, Notifier, Message, Holds

(* The steps that take, remove or lose the lock.                           *)
LEMMA LockStepsKeep ==
  ASSUME BridgeInv, NEW p \in Notifiers, NEW retry \in BOOLEAN,
         \/ TakeLock(p, retry) \/ FindStale(p, retry) \/ RemoveStale(p) \/ AcquireAgain(p)
         \/ Release(p) \/ Fault(p)
  PROVE  BridgeInv'
<1> USE BoundAssumption
<1>1. \E s \in Notifier : Holds(s, chat, asked)
        /\ (notifier' = notifier \/ notifier' = [notifier EXCEPT ![p] = s])
  <2>1. CASE TakeLock(p, retry) \/ FindStale(p, retry)
    BY <2>1, NothingHeld DEF BridgeInv, TakeLock, FindStale, Begin
  <2>2. CASE RemoveStale(p) \/ AcquireAgain(p)
    <3>1. PICK step \in {"again", "listing", "idle"} : Step(p, step)
      BY <2>2 DEF RemoveStale, AcquireAgain
    <3> DEFINE s == [notifier[p] EXCEPT !.step = step]
    <3>2. s \in Notifier
      BY DEF BridgeInv, Types, Notifier
    <3>3. Holds(s, chat, asked)
      BY DEF BridgeInv, Types, Notifier, ChatInv, Holds
    <3>4. notifier' = [notifier EXCEPT ![p] = s]
      BY <3>1 DEF BridgeInv, Types, Step
    <3> QED
      BY <3>2, <3>3, <3>4
  <2>3. CASE Release(p) \/ Fault(p)
    BY <2>3, NoNotifierFits DEF BridgeInv, Release, Fault
  <2> QED
    BY <2>1, <2>2, <2>3
<1>2. UNCHANGED <<question, asked, answers, chat, refs, inbound, handler>>
  BY DEF TakeLock, FindStale, Begin, RemoveStale, AcquireAgain, Release, Fault
<1>3. lock' \in {"none", "young", "old"}
  BY DEF BridgeInv, Types, TakeLock, FindStale, Begin, RemoveStale, AcquireAgain, Release, Fault,
         Free, Old
<1>4. faults' \in 0..MaxFaults /\ lapsed' \in BOOLEAN
  <2>1. CASE Fault(p)
    BY <2>1 DEF BridgeInv, Types, Fault
  <2>2. CASE TakeLock(p, retry) \/ FindStale(p, retry) \/ RemoveStale(p) \/ AcquireAgain(p) \/ Release(p)
    BY <2>2 DEF BridgeInv, Types, TakeLock, FindStale, Begin, RemoveStale, AcquireAgain, Release
  <2> QED
    BY <2>1, <2>2
<1>5. Types'
  BY <1>1, <1>2, <1>3, <1>4 DEF BridgeInv, Types
<1>6. ChatInv'
  BY <1>1, <1>2 DEF BridgeInv, Types, ChatInv
<1>7. AnswersInv'
  BY <1>2, AnswersStay DEF BridgeInv
<1> QED
  BY <1>5, <1>6, <1>7 DEF BridgeInv
(* The lock grows old, whoever holds it.                                   *)
LEMMA LockAgesKeeps ==
  ASSUME BridgeInv, LockAges
  PROVE  BridgeInv'
<1> DEFINE slow == \E o \in Notifiers : Working(o)
<1>1. UNCHANGED <<question, asked, answers, chat, notifier, refs, inbound, handler>>
      /\ lock' = "old" /\ lapsed' \in BOOLEAN
  BY DEF LockAges
<1>2. faults' = faults \/ (faults < MaxFaults /\ faults' = faults + 1)
  <2>1. CASE slow
    BY <2>1 DEF LockAges
  <2>2. CASE ~slow
    BY <2>2 DEF LockAges
  <2> QED
    BY <2>1, <2>2
<1>3. Types'
  BY <1>1, <1>2, BoundAssumption DEF BridgeInv, Types
<1>4. ChatInv' /\ AnswersInv'
  BY <1>1, AnswersStay DEF BridgeInv, ChatInv
<1> QED
  BY <1>3, <1>4 DEF BridgeInv

(* A function on the first numbers is a sequence.                          *)
LEMMA FirstNumbers ==
  ASSUME NEW size \in Nat, NEW S, NEW f \in [1..size -> S]
  PROVE  f \in Seq(S) /\ Len(f) = size /\ \A n \in 1..size : f[n] \in S
OBVIOUS

(* The questions listed were asked.                                        *)
LEMMA Listed ==
  ASSUME BridgeInv, NEW p \in Notifiers,
         NEW size \in Nat, NEW list \in [1..size -> Wanted(notifier[p].retry)]
  PROVE  /\ Listing(list) \in Notifier /\ Holds(Listing(list), chat, asked)
         /\ Listing(list).step = "sending" /\ Listing(list).ref = 0
         /\ Len(Listing(list).todo) = size
         /\ \A n \in 1..size :
              /\ list[n] \in Questions /\ list[n] <= asked
              /\ Listing(list).todo[n].question = list[n]
              /\ Listing(list).todo[n].retrying = (question[list[n]].status # "pending")
<1> USE BoundAssumption
<1> DEFINE todo == [n \in 1..size |->
                      [question |-> list[n], retrying |-> question[list[n]].status # "pending"]]
           s == Listing(list)
<1>1. \A n \in 1..size : list[n] \in Questions /\ list[n] <= asked
  BY DEF BridgeInv, Types, Wanted, Questions
<1>2. todo \in [1..size -> Item]
  BY <1>1 DEF Item
<1>3. todo \in Seq(Item) /\ Len(todo) = size
  <2> HIDE DEF todo
  <2> QED
    BY <1>2, FirstNumbers
<1>4. s = [NoNotifier EXCEPT !.step = "sending", !.todo = todo]
  BY DEF Listing
<1>5. \A n \in 1..size : /\ todo[n].question = list[n]
                         /\ todo[n].retrying = (question[list[n]].status # "pending")
  OBVIOUS
<1> HIDE DEF todo, s
<1>6. s.step = "sending" /\ s.todo = todo /\ s.ref = 0
  BY <1>4 DEF NoNotifier
<1>7. s \in Notifier
  <2>1. NoNotifier \in Notifier
    BY NoNotifierFits DEF BridgeInv
  <2>2. \A m \in Notifier : [m EXCEPT !.step = "sending", !.todo = todo] \in Notifier
    BY <1>3 DEF Notifier
  <2> QED
    BY <1>4, <2>1, <2>2
<1>8. Holds(s, chat, asked)
  BY <1>1, <1>3, <1>5, <1>6 DEF Holds
<1> QED
  BY <1>1, <1>3, <1>5, <1>6, <1>7, <1>8 DEF s

(* A run takes its list.                                                   *)
LEMMA ListQuestionsKeeps ==
  ASSUME BridgeInv, NEW p \in Notifiers, ListQuestions(p)
  PROVE  BridgeInv'
<1>1. PICK size \in 0..Limit : \E list \in [1..size -> Wanted(notifier[p].retry)] :
        notifier' = [notifier EXCEPT ![p] = Listing(list)]
  BY DEF ListQuestions
<1>2. PICK list \in [1..size -> Wanted(notifier[p].retry)] :
        notifier' = [notifier EXCEPT ![p] = Listing(list)]
  BY <1>1
<1>3. Listing(list) \in Notifier /\ Holds(Listing(list), chat, asked)
  <2>1. size \in Nat
    BY BridgeAssumption
  <2> QED
    BY <2>1, Listed
<1>4. UNCHANGED <<question, asked, answers, chat, lock, refs, inbound, handler, faults, lapsed>>
  BY DEF ListQuestions
<1>5. Types'
  BY <1>2, <1>3, <1>4 DEF BridgeInv, Types
<1>6. ChatInv'
  BY <1>2, <1>3, <1>4 DEF BridgeInv, Types, ChatInv
<1>7. AnswersInv'
  BY <1>4, AnswersStay DEF BridgeInv
<1> QED
  BY <1>5, <1>6, <1>7 DEF BridgeInv

(* The chat grows by the question at the head of the list, and the         *)
(* identifier that comes back is that of its message.                      *)
LEMMA RunSendKeeps ==
  ASSUME BridgeInv, NEW p \in Notifiers, RunSend(p)
  PROVE  BridgeInv'
<1> USE BoundAssumption
<1> DEFINE q == Head(notifier[p].todo).question
           new == Append(chat, q)
<1>1. PICK sent \in BOOLEAN, known \in BOOLEAN :
        /\ known => sent
        /\ sent => Len(chat) < MaxMessages
        /\ chat' = IF sent THEN new ELSE chat
        /\ notifier' = [notifier EXCEPT ![p].step = "marking", ![p].ref = IF known THEN Len(chat) + 1 ELSE 0]
        /\ lapsed' = (lapsed \/ Head(notifier[p].todo).retrying)
  BY DEF RunSend
<1>2. notifier[p].todo \in Seq(Item) /\ notifier[p].todo # <<>>
  BY DEF RunSend, BridgeInv, Types, Notifier
<1>3. q \in Questions /\ q <= asked
  <2>1. Head(notifier[p].todo) = notifier[p].todo[1] /\ 1 \in 1..Len(notifier[p].todo)
        /\ Head(notifier[p].todo) \in Item
    BY <1>2
  <2> QED
    BY <2>1 DEF BridgeInv, ChatInv, Holds, Item
<1>4. new \in Seq(Questions) /\ Len(new) = Len(chat) + 1 /\ new[Len(chat) + 1] = q
      /\ \A n \in 1..Len(chat) : new[n] = chat[n]
  BY <1>3 DEF BridgeInv, Types
<1>5. chat' \in Seq(Questions) /\ Len(chat') \in Nat /\ Len(chat) <= Len(chat') /\ Len(chat') <= MaxMessages
  BY <1>1, <1>4 DEF BridgeInv, Types
<1>6. \A r \in Nat, k \in Questions : Shows(chat, r, k) => Shows(chat', r, k)
  BY <1>1, <1>3, ShowsGrow DEF BridgeInv, Types
<1> DEFINE ref == IF known THEN Len(chat) + 1 ELSE 0
           s == [step |-> "marking", retry |-> notifier[p].retry, todo |-> notifier[p].todo, ref |-> ref]
<1>7. notifier'[p] = s /\ \A o \in Notifiers \ {p} : notifier'[o] = notifier[o]
  BY <1>1 DEF BridgeInv, Types, Notifier
<1>8. ref \in Message /\ Shows(chat', ref, q)
  BY <1>1, <1>4 DEF BridgeInv, Types, Message, Shows
<1> HIDE DEF ref
<1>9. s \in Notifier /\ Holds(s, chat', asked)
  BY <1>2, <1>8 DEF BridgeInv, Types, ChatInv, Notifier, Holds
<1>10. UNCHANGED <<question, asked, answers, lock, refs, inbound, handler, faults>>
  BY DEF RunSend
<1>11. notifier' \in [Notifiers -> Notifier]
  BY <1>1, <1>7, <1>9 DEF BridgeInv, Types
<1>12. lapsed' \in BOOLEAN
  BY <1>1 DEF BridgeInv, Types
<1> HIDE DEF s, new, q
<1>13. Types'
  BY <1>5, <1>10, <1>11, <1>12 DEF BridgeInv, Types
<1>14. ChatInv'
  <2>1. OnlyAsked(chat', asked)
    BY <1>1, <1>3, <1>4 DEF BridgeInv, Types, ChatInv, OnlyAsked
  <2>2. \A k \in Questions : Row(question[k], k, chat')
    BY <1>6 DEF BridgeInv, Types, Question, Message, ChatInv, Row
  <2>3. \A o \in Notifiers \ {p} : Holds(notifier[o], chat', asked)
    <3> SUFFICES ASSUME NEW o \in Notifiers PROVE Holds(notifier[o], chat', asked)
      OBVIOUS
    <3>1. notifier[o].todo \in Seq(Item) /\ notifier[o].ref \in Nat
      BY DEF BridgeInv, Types, Notifier, Message
    <3>2. notifier[o].todo # <<>> => Head(notifier[o].todo).question \in Questions
      <4>1. notifier[o].todo # <<>> => Head(notifier[o].todo) \in Item
        BY <3>1
      <4> QED
        BY <4>1 DEF Item
    <3> QED
      BY <1>6, <3>1, <3>2 DEF BridgeInv, ChatInv, Holds
  <2> QED
    BY <1>7, <1>9, <1>10, <2>1, <2>2, <2>3 DEF ChatInv
<1>15. AnswersInv'
  <2>1. \A x \in answers : Answer(x, inbound, chat')
    BY <1>6 DEF BridgeInv, Types, Inbound, Message, AnswersInv, Answer
  <2>2. \A i \in Inbounds : inbound[i].reply <= Len(chat')
    BY <1>5 DEF BridgeInv, Types, Inbound, Message, AnswersInv
  <2> QED
    BY <1>10, <2>1, <2>2 DEF BridgeInv, AnswersInv
<1> QED
  BY <1>13, <1>14, <1>15 DEF BridgeInv
(* The mark writes the identifier that came back, which is that of the     *)
(* message that was sent.                                                  *)
LEMMA MarkKeeps ==
  ASSUME BridgeInv, NEW p \in Notifiers, Mark(p)
  PROVE  BridgeInv'
<1> DEFINE item == Head(notifier[p].todo)
           ref == notifier[p].ref
           row == [status |-> IF ref # 0 THEN "delivered" ELSE "delivery_failed", ref |-> ref]
           marks == (Delivered(p) \/ ~item.retrying) /\ Markable(item.question)
<1>1. notifier[p].todo # <<>> /\ item \in Item /\ ref \in Message /\ Shows(chat, ref, item.question)
  <2>1. notifier[p].todo \in Seq(Item) /\ ref \in Message
    BY DEF BridgeInv, Types, Notifier
  <2>2. notifier[p].todo # <<>> /\ Shows(chat, ref, item.question)
    BY DEF BridgeInv, ChatInv, Mark, Holds, Shows
  <2> QED
    BY <2>1, <2>2
<1>2. UNCHANGED <<asked, answers, chat, lock, refs, inbound, handler, faults, lapsed>>
  BY DEF Mark
<1>3. question' = question \/ question' = [question EXCEPT ![item.question] = row]
  <2>1. CASE marks
    BY <2>1 DEF Mark, MarkHumanQuestionDelivery, Delivered
  <2>2. CASE ~marks
    BY <2>2 DEF Mark
  <2> QED
    BY <2>1, <2>2
<1>4. (ref # 0 /\ Step(p, "remembering")) \/ notifier' = Rest(p)
  <2>1. CASE marks /\ Delivered(p)
    BY <2>1 DEF Mark, Delivered
  <2>2. CASE ~(marks /\ Delivered(p))
    BY <2>2 DEF Mark
  <2> QED
    BY <2>1, <2>2
<1>5. item.question \in Questions
  BY <1>1 DEF Item
<1> HIDE DEF marks, item
<1>6. row \in Question /\ Row(row, item.question, chat)
  BY <1>1 DEF Question, Row
<1>7. question' \in [Questions -> Question] /\ \A q \in Questions : Row(question'[q], q, chat)
  BY <1>3, <1>5, <1>6 DEF BridgeInv, Types, ChatInv
<1>8. /\ notifier' \in [Notifiers -> Notifier]
      /\ \A o \in Notifiers : Holds(notifier'[o], chat, asked)
  <2>1. CASE notifier' = Rest(p)
    BY <1>1, <2>1, RestFits DEF BridgeInv
  <2>2. CASE ref # 0 /\ Step(p, "remembering")
    <3> DEFINE s == [notifier[p] EXCEPT !.step = "remembering"]
    <3>1. s \in Notifier
      BY DEF BridgeInv, Types, Notifier
    <3>2. Holds(s, chat, asked)
      BY <1>1, <2>2 DEF BridgeInv, Types, Notifier, ChatInv, Holds, item
    <3>3. notifier' = [notifier EXCEPT ![p] = s]
      BY <2>2 DEF Step, BridgeInv, Types
    <3> QED
      BY <3>1, <3>2, <3>3 DEF BridgeInv, Types, ChatInv
  <2> QED
    BY <1>4, <2>1, <2>2
<1>9. Types' /\ ChatInv'
  BY <1>2, <1>7, <1>8 DEF BridgeInv, Types, ChatInv
<1>10. AnswersInv'
  BY <1>2, AnswersStay DEF BridgeInv
<1> QED
  BY <1>9, <1>10 DEF BridgeInv

(* The file of the references has messages of the chat only.               *)
LEMMA RememberRefKeeps ==
  ASSUME BridgeInv, NEW p \in Notifiers, RememberRef(p)
  PROVE  BridgeInv'
<1>1. notifier[p].todo # <<>> /\ notifier[p].ref \in 1..Len(chat)
  BY DEF RememberRef, BridgeInv, ChatInv, Holds, Shows
<1>2. UNCHANGED <<question, asked, answers, chat, lock, inbound, handler, faults, lapsed>>
      /\ notifier' = Rest(p) /\ refs' = refs \cup {notifier[p].ref}
  BY DEF RememberRef
<1>3. Types' /\ ChatInv'
  BY <1>1, <1>2, RestFits DEF BridgeInv, Types, ChatInv
<1>4. AnswersInv'
  BY <1>2, AnswersStay DEF BridgeInv
<1> QED
  BY <1>3, <1>4 DEF BridgeInv

(* A message that is delivered has a code or is a reply to a message of    *)
(* the chat, and what it says does not change.                             *)
LEMMA OnPreGatewayDispatchKeeps ==
  ASSUME BridgeInv, NEW h \in Handlers, NEW i \in Inbounds, OnPreGatewayDispatch(h, i)
  PROVE  BridgeInv'
<1>1. PICK text \in IF inbound[i] = NotWritten THEN Writable ELSE {inbound[i]} :
        \E q \in Questions :
          /\ ShouldConsume(text)
          /\ inbound' = [inbound EXCEPT ![i] = text]
          /\ handler' = [handler EXCEPT ![h] = [step |-> "found", inbound |-> i, target |-> q]]
  BY DEF OnPreGatewayDispatch
<1>2. PICK q \in Questions :
        /\ ShouldConsume(text)
        /\ inbound' = [inbound EXCEPT ![i] = text]
        /\ handler' = [handler EXCEPT ![h] = [step |-> "found", inbound |-> i, target |-> q]]
  BY <1>1
<1>3. UNCHANGED <<question, asked, answers, chat, lock, notifier, refs, faults, lapsed>>
  BY DEF OnPreGatewayDispatch
<1>4. inbound[i] # NotWritten => text = inbound[i]
  BY <1>1
<1>5. text \in Inbound /\ text.reply <= Len(chat)
  <2>1. CASE inbound[i] = NotWritten
    <3>1. text \in Writable
      BY <1>1, <2>1
    <3>2. \A k \in 1..asked : Code[k] \in Codes
      BY BridgeAssumption, BoundAssumption DEF BridgeInv, Types, Questions
    <3>3. Len(chat) \in Nat /\ 0..Len(chat) \subseteq Message
      <4>1. Len(chat) \in Nat /\ Len(chat) <= MaxMessages
        BY DEF BridgeInv, Types
      <4> QED
        BY <4>1, BoundAssumption DEF Message
    <3> DEFINE S == {Code[k] : k \in 1..asked} \cup {NoOne}
    <3>4. S \subseteq Codes \cup {NoOne}
      BY <3>2
    <3>5. text \in [code : S, reply : 0..Len(chat)]
      BY <3>1 DEF Writable
    <3> HIDE DEF S
    <3> QED
      BY <3>3, <3>4, <3>5 DEF Inbound
  <2>2. CASE inbound[i] # NotWritten
    BY <1>4, <2>2 DEF BridgeInv, Types, AnswersInv
  <2> QED
    BY <2>1, <2>2
<1>6. text # NotWritten
  <2>1. text.code # NoOne \/ text.reply # 0
    BY <1>2 DEF ShouldConsume, BridgeInv, Types
  <2> QED
    BY <2>1 DEF NotWritten
<1>7. \A j \in Inbounds : inbound[j] # NotWritten => inbound'[j] = inbound[j]
  BY <1>2, <1>4 DEF BridgeInv, Types
<1>8. inbound'[i] = text /\ \A j \in Inbounds : inbound'[j] = text \/ inbound'[j] = inbound[j]
  BY <1>2 DEF BridgeInv, Types
<1> DEFINE s == [step |-> "found", inbound |-> i, target |-> q]
<1>9. s \in Handler /\ Found(s, inbound')
  BY <1>6, <1>8 DEF Handler, Found, Questions
<1>10. Types'
  BY <1>2, <1>3, <1>5, <1>9 DEF BridgeInv, Types
<1>11. ChatInv'
  BY <1>3 DEF BridgeInv, ChatInv
<1>12. AnswersInv'
  <2>1. \A x \in answers : x[1] \in Inbounds
    BY DEF BridgeInv, Types
  <2>2. \A x \in answers : Answer(x, inbound', chat)
    BY <1>7, <2>1 DEF BridgeInv, AnswersInv, Answer
  <2>3. \A g \in Handlers : Found(handler'[g], inbound')
    <3>1. \A g \in Handlers : Found(handler[g], inbound')
      BY <1>7 DEF BridgeInv, AnswersInv, Found
    <3> QED
      BY <1>2, <1>9, <3>1 DEF BridgeInv, Types
  <2>4. \A j \in Inbounds : inbound'[j].reply <= Len(chat)
    BY <1>5, <1>8 DEF BridgeInv, AnswersInv
  <2> QED
    BY <1>3, <2>2, <2>3, <2>4 DEF BridgeInv, AnswersInv
<1> QED
  BY <1>10, <1>11, <1>12 DEF BridgeInv

(* The answer is the first of its message, and the question still has the  *)
(* message that was replied to.                                            *)
LEMMA AnswerHumanQuestionKeeps ==
  ASSUME BridgeInv, NEW h \in Handlers, AnswerHumanQuestion(h)
  PROVE  BridgeInv'
<1> DEFINE i == handler[h].inbound
           q == handler[h].target
<1>1. i \in Inbounds /\ q \in Questions /\ inbound[i] # NotWritten
  BY DEF AnswerHumanQuestion, BridgeInv, AnswersInv, Found
<1>2. /\ ~Seen(i)
      /\ inbound[i].reply # 0 => question[q].ref = inbound[i].reply
      /\ answers' = answers \cup {<<i, q>>}
      /\ question' = [question EXCEPT ![q].status = "closed"]
      /\ handler' = [handler EXCEPT ![h] = NoHandler]
      /\ UNCHANGED <<asked, chat, lock, notifier, refs, inbound, faults, lapsed>>
  BY DEF AnswerHumanQuestion
<1> HIDE DEF i, q
<1>3. \A r \in Questions : /\ question'[r].ref = question[r].ref
                           /\ question'[r].status = "delivered" => question[r].status = "delivered"
  BY <1>1, <1>2 DEF BridgeInv, Types, Question
<1>4. NoHandler \in Handler /\ NoHandler.step # "found"
  BY BoundAssumption DEF NoHandler, Handler
<1>5. Types'
  <2>1. question' \in [Questions -> Question]
    BY <1>1, <1>2 DEF BridgeInv, Types, Question
  <2>2. handler' \in [Handlers -> Handler]
    BY <1>2, <1>4 DEF BridgeInv, Types
  <2>3. answers' \subseteq Inbounds \X Questions
    BY <1>1, <1>2 DEF BridgeInv, Types
  <2> QED
    BY <1>2, <2>1, <2>2, <2>3 DEF BridgeInv, Types
<1>6. ChatInv'
  BY <1>2, <1>3 DEF BridgeInv, ChatInv, Row
<1>7. Answer(<<i, q>>, inbound, chat)
  BY <1>1, <1>2 DEF BridgeInv, ChatInv, Row, Answer, Shows
<1>8. \A x \in answers : x[1] # i
  <2> SUFFICES ASSUME NEW x \in answers, x[1] = i PROVE FALSE
    OBVIOUS
  <2>1. x = <<i, x[2]>> /\ x[2] \in Questions
    BY DEF BridgeInv, Types
  <2> QED
    BY <1>2, <2>1 DEF Seen
<1>9. AnswersInv'
  <2>1. \A x \in answers' : Answer(x, inbound, chat)
    BY <1>2, <1>7 DEF BridgeInv, AnswersInv
  <2>2. \A x, y \in answers' : x[1] = y[1] => x = y
    BY <1>2, <1>8 DEF BridgeInv, AnswersInv
  <2>3. \A g \in Handlers : Found(handler'[g], inbound)
    BY <1>2, <1>4 DEF BridgeInv, Types, AnswersInv, Found
  <2> QED
    BY <1>2, <2>1, <2>2, <2>3 DEF BridgeInv, AnswersInv
<1> QED
  BY <1>5, <1>6, <1>9 DEF BridgeInv

(* A script that gives up forgets what it found.                           *)
LEMMA GiveUpKeeps ==
  ASSUME BridgeInv, NEW h \in Handlers, GiveUp(h)
  PROVE  BridgeInv'
<1>1. NoHandler \in Handler /\ NoHandler.step # "found"
  BY BoundAssumption DEF NoHandler, Handler
<1>2. handler' = [handler EXCEPT ![h] = NoHandler]
      /\ UNCHANGED <<question, asked, answers, chat, lock, notifier, refs, inbound, faults, lapsed>>
  BY DEF GiveUp
<1>3. Types' /\ ChatInv'
  BY <1>1, <1>2 DEF BridgeInv, Types, ChatInv
<1>4. AnswersInv'
  BY <1>1, <1>2 DEF BridgeInv, Types, AnswersInv, Found
<1> QED
  BY <1>3, <1>4 DEF BridgeInv
-----------------------------------------------------------------------------
(* What the invariant gives                                                *)

(* Every step keeps the invariant.                                         *)
LEMMA NextBridge == BridgeInv /\ [Next]_vars => BridgeInv'
<1> SUFFICES ASSUME BridgeInv, [Next]_vars PROVE BridgeInv'
  OBVIOUS
<1>1. CASE Create
  BY <1>1, CreateKeeps
<1>2. ASSUME NEW q \in Questions, Close(q) PROVE BridgeInv'
  BY <1>2, CloseKeeps
<1>3. ASSUME NEW p \in Notifiers, Run(p) PROVE BridgeInv'
  BY <1>3, LockStepsKeep, ListQuestionsKeeps, RunSendKeeps, MarkKeeps, RememberRefKeeps DEF Run
<1>4. ASSUME NEW p \in Notifiers,
             Fault(p) \/ \E retry \in BOOLEAN : TakeLock(p, retry) \/ FindStale(p, retry)
      PROVE  BridgeInv'
  BY <1>4, LockStepsKeep
<1>5. CASE LockAges
  BY <1>5, LockAgesKeeps
<1>6. ASSUME NEW h \in Handlers,
             \/ AnswerHumanQuestion(h) \/ GiveUp(h)
             \/ \E i \in Inbounds : OnPreGatewayDispatch(h, i)
      PROVE  BridgeInv'
  BY <1>6, AnswerHumanQuestionKeeps, GiveUpKeeps, OnPreGatewayDispatchKeeps
<1>7. CASE UNCHANGED vars
  BY <1>7 DEF vars, BridgeInv, Types, ChatInv, AnswersInv
<1> QED
  BY <1>1, <1>2, <1>3, <1>4, <1>5, <1>6, <1>7 DEF Next

(* What is known of the chat, its messages and its answers always holds    *)
(* (the notifier, its marks, and the script of the answers).               *)
THEOREM BridgeInvariant == Spec => []BridgeInv
BY InitBridge, NextBridge, PTL DEF Spec

(* The types of the variables, and a question that was delivered has the   *)
(* message that carries it (markHumanQuestionDelivery).                    *)
THEOREM BridgeTypeCorrect == Spec => []TypeOK
<1>1. BridgeInv => TypeOK
  BY DEF BridgeInv, Types, ChatInv, Row, Shows, TypeOK, Carried
<1> QED
  BY <1>1, BridgeInvariant, PTL

(* A message answers one question at most, however often it is delivered,  *)
(* and a reply answers the question its message carried                    *)
(* (answerHumanQuestion).                                                  *)
THEOREM MessagesAnswerTheirQuestion == Spec => []MessageAnswersItsQuestion
<1>1. BridgeInv => MessageAnswersItsQuestion
  BY DEF BridgeInv, AnswersInv, Answer, Shows, MessageAnswersItsQuestion
<1> QED
  BY <1>1, BridgeInvariant, PTL
-----------------------------------------------------------------------------
(* A run alone                                                             *)

\* One run at most works, and the lock is its own.
Alone ==
  /\ \A p, r \in Notifiers : Working(p) /\ Working(r) => p = r
  /\ \A p \in Notifiers : Working(p) => lock = "young"

\* Question q has a message in chat c.
Sent(c, q) == \E n \in 1..Len(c) : c[n] = q

Once(c) == \A m, n \in 1..Len(c) : c[m] = c[n] => m = n

\* Run s has just sent question q, and has not marked it.
Sending(s, q) == s.step = "marking" /\ Head(s.todo).question = q

\* A question in the chat that is still pending is the one that was just sent.
Marked ==
  \A q \in Questions : Sent(chat, q) /\ question[q].status = "pending"
                         => \E p \in Notifiers : Sending(notifier[p], q)

\* The questions a run s has to send are distinct.
Distinct(s) ==
  \A m, n \in 1..Len(s.todo) : s.todo[m].question = s.todo[n].question => m = n

\* Question n of the list of run s is in the chat only when it is tried again, or just sent.
Left(s, c, n) ==
  \/ s.todo[n].retrying
  \/ n = 1 /\ s.step # "sending"
  \/ ~Sent(c, s.todo[n].question)

Fresh(s, c) ==
  /\ s.step \in {"sending", "marking", "remembering"}
       => Distinct(s) /\ \A n \in 1..Len(s.todo) : Left(s, c, n)
  /\ s.step = "marking" => ~Head(s.todo).retrying

AloneInv ==
  Alone /\ Once(chat) /\ Marked /\ \A p \in Notifiers : Fresh(notifier[p], chat)

SendInv == BridgeInv /\ (~lapsed => AloneInv)

(* Nobody works and nothing was sent.                                      *)
LEMMA InitAlone == Init => AloneInv
<1> SUFFICES ASSUME Init PROVE AloneInv
  OBVIOUS
<1>1. Len(chat) = 0
  BY DEF Init
<1>2. \A p \in Notifiers : notifier[p].step = "idle"
  BY DEF Init, NoNotifier
<1>3. \A p \in Notifiers : ~Working(p)
  BY <1>2 DEF Working
<1>4. Alone /\ Once(chat) /\ Marked
  BY <1>1, <1>3 DEF Alone, Once, Marked, Sent
<1>5. \A p \in Notifiers : Fresh(notifier[p], chat)
  BY <1>2 DEF Fresh
<1> QED
  BY <1>4, <1>5 DEF AloneInv

(* A step of the questions only, which makes none pending that was sent.   *)
LEMMA QuestionStepsAlone ==
  ASSUME AloneInv, UNCHANGED <<chat, notifier, lock>>,
         \A q \in Questions : Sent(chat, q) /\ question'[q].status = "pending"
                                => question[q].status = "pending"
  PROVE  AloneInv'
<1>1. Alone'
  BY DEF AloneInv, Alone, Working
<1>2. Marked'
  BY DEF AloneInv, Marked
<1> QED
  BY <1>1, <1>2 DEF AloneInv

(* The question that is created was not asked before, so it was not sent.  *)
LEMMA CreateAlone ==
  ASSUME BridgeInv, AloneInv, Create
  PROVE  AloneInv'
<1>1. \A q \in Questions : q # asked + 1 => question'[q] = question[q]
  BY DEF BridgeInv, Types, Create
<1>2. ~Sent(chat, asked + 1)
  BY DEF BridgeInv, Types, ChatInv, OnlyAsked, Sent
<1> QED
  BY <1>1, <1>2, QuestionStepsAlone DEF Create

(* Questions are closed, answered, and looked for.                         *)
LEMMA AnswerStepsAlone ==
  ASSUME BridgeInv, AloneInv,
         \/ \E q \in Questions : Close(q)
         \/ \E h \in Handlers :
              \/ AnswerHumanQuestion(h) \/ GiveUp(h)
              \/ \E i \in Inbounds : OnPreGatewayDispatch(h, i)
  PROVE  AloneInv'
<1>1. \A q \in Questions : question'[q].status = "pending" => question[q].status = "pending"
  <2>1. question' = question \/ \E k : question' = [question EXCEPT ![k].status = "closed"]
    BY DEF Close, AnswerHumanQuestion, GiveUp, OnPreGatewayDispatch
  <2>2. \A k : \A q \in Questions : LET n == [question EXCEPT ![k].status = "closed"] IN
          n[q].status = question[q].status \/ n[q].status = "closed"
    BY DEF BridgeInv, Types, Question
  <2> QED
    BY <2>1, <2>2
<1>2. UNCHANGED <<chat, notifier, lock>>
  BY DEF Close, AnswerHumanQuestion, GiveUp, OnPreGatewayDispatch
<1> QED
  BY <1>1, <1>2, QuestionStepsAlone

(* The lock is taken when it is free, and nobody works then; it is removed *)
(* by the one that works, or under it, which is a lapse.                   *)
LEMMA LockStepsAlone ==
  ASSUME BridgeInv, AloneInv, ~lapsed', NEW p \in Notifiers, NEW retry \in BOOLEAN,
         \/ TakeLock(p, retry) \/ FindStale(p, retry) \/ RemoveStale(p) \/ AcquireAgain(p)
         \/ Release(p) \/ Fault(p)
  PROVE  AloneInv'
<1>1. UNCHANGED <<question, chat>>
  BY DEF TakeLock, FindStale, Begin, RemoveStale, AcquireAgain, Release, Fault
<1>2. \A o \in Notifiers \ {p} : notifier'[o] = notifier[o]
  BY DEF BridgeInv, Types, TakeLock, FindStale, Begin, RemoveStale, AcquireAgain, Release, Fault, Step
<1>3. \/ notifier'[p].step = "listing" /\ Free(p) /\ lock' = "young"
      \/ notifier'[p].step \in {"idle", "stale", "again"}
  <2>1. CASE TakeLock(p, retry) \/ FindStale(p, retry)
    <3>1. \A step : [NoNotifier EXCEPT !.step = step, !.retry = retry].step = step
      BY DEF NoNotifier
    <3> QED
      BY <2>1, <3>1 DEF BridgeInv, Types, TakeLock, FindStale, Begin
  <2>2. CASE RemoveStale(p)
    BY <2>2 DEF BridgeInv, Types, Notifier, RemoveStale, Step
  <2>3. CASE AcquireAgain(p)
    <3>1. CASE Free(p)
      BY <2>3, <3>1 DEF BridgeInv, Types, Notifier, AcquireAgain, Step, Free, Old
    <3>2. CASE ~Free(p)
      BY <2>3, <3>2 DEF BridgeInv, Types, Notifier, AcquireAgain, Step, Free, Old
    <3> QED
      BY <3>1, <3>2
  <2>4. CASE Release(p) \/ Fault(p)
    BY <2>4 DEF BridgeInv, Types, Release, Fault, NoNotifier
  <2> QED
    BY <2>1, <2>2, <2>3, <2>4
<1>4. notifier[p].step # "marking"
  BY DEF TakeLock, FindStale, Begin, RemoveStale, AcquireAgain, Release, Fault
<1>5. (\E o \in Notifiers \ {p} : Working(o)) => lock' = lock
  <2> SUFFICES ASSUME NEW o \in Notifiers \ {p}, Working(o) PROVE lock' = lock
    OBVIOUS
  <2>1. lock = "young" /\ ~Working(p)
    BY DEF AloneInv, Alone
  <2>2. ~TakeLock(p, retry) /\ ~FindStale(p, retry) /\ ~RemoveStale(p) /\ ~Release(p)
    BY <2>1 DEF TakeLock, FindStale, RemoveStale, Release, Free, Old, Working
  <2>3. CASE AcquireAgain(p)
    BY <2>1, <2>3 DEF AcquireAgain, Free, Old
  <2>4. CASE Fault(p)
    BY <2>1, <2>4 DEF Fault, Working
  <2> QED
    BY <2>2, <2>3, <2>4
<1>6. Alone'
  <2>1. \A o \in Notifiers \ {p} : Working(o)' => Working(o)
    BY <1>2 DEF Working
  <2>2. CASE Working(p)'
    <3>1. Free(p) /\ lock' = "young"
      BY <1>3, <2>2 DEF Working
    <3>2. \A o \in Notifiers : ~Working(o)
      BY <3>1 DEF AloneInv, Alone, Free
    <3> QED
      BY <2>1, <3>1, <3>2 DEF Alone
  <2>3. CASE ~Working(p)'
    BY <1>5, <2>1, <2>3 DEF AloneInv, Alone
  <2> QED
    BY <2>2, <2>3
<1>7. Marked'
  BY <1>1, <1>2, <1>4 DEF AloneInv, Marked, Sending
<1>8. \A o \in Notifiers : Fresh(notifier'[o], chat)
  BY <1>2, <1>3 DEF AloneInv, Fresh
<1> QED
  BY <1>1, <1>6, <1>7, <1>8 DEF AloneInv

(* A lock that grows old under a run is a lapse.                           *)
LEMMA LockAgesAlone ==
  ASSUME BridgeInv, AloneInv, ~lapsed', LockAges
  PROVE  AloneInv'
<1>1. UNCHANGED <<question, chat, notifier>>
  BY DEF LockAges
<1>2. \A p \in Notifiers : ~Working(p)
  BY DEF LockAges
<1>3. Alone'
  BY <1>1, <1>2 DEF Alone, Working
<1> QED
  BY <1>1, <1>3 DEF AloneInv, Marked
(* The list of a run that is alone: the questions that are pending were    *)
(* not sent, for nobody has one left to mark.                              *)
LEMMA ListQuestionsAlone ==
  ASSUME BridgeInv, AloneInv, NEW p \in Notifiers, ListQuestions(p)
  PROVE  AloneInv'
<1>1. PICK size \in 0..Limit : \E list \in [1..size -> Wanted(notifier[p].retry)] :
        /\ IsNewest(list, Wanted(notifier[p].retry))
        /\ notifier' = [notifier EXCEPT ![p] = Listing(list)]
  BY DEF ListQuestions
<1>2. PICK list \in [1..size -> Wanted(notifier[p].retry)] :
        /\ IsNewest(list, Wanted(notifier[p].retry))
        /\ notifier' = [notifier EXCEPT ![p] = Listing(list)]
  BY <1>1
<1> DEFINE s == Listing(list)
<1>3. /\ s.step = "sending" /\ Len(s.todo) = size /\ size \in Nat
      /\ \A n \in 1..size : /\ list[n] \in Questions
                            /\ s.todo[n].question = list[n]
                            /\ s.todo[n].retrying = (question[list[n]].status # "pending")
  <2>1. size \in Nat
    BY BridgeAssumption
  <2> QED
    BY <2>1, Listed
<1>4. UNCHANGED <<question, chat, lock>> /\ notifier[p].step = "listing"
  BY DEF ListQuestions
<1>5. notifier'[p] = s /\ \A o \in Notifiers \ {p} : notifier'[o] = notifier[o]
  BY <1>2 DEF BridgeInv, Types
<1> HIDE DEF s
<1>6. Working(p) /\ \A o \in Notifiers : Working(o)' => Working(o)
  BY <1>4, <1>5 DEF Working
<1>7. Alone'
  BY <1>4, <1>6 DEF AloneInv, Alone
<1>8. \A q \in Questions : question[q].status = "pending" => ~Sent(chat, q)
  <2>1. \A o \in Notifiers : notifier[o].step = "marking" => Working(o)
    BY DEF Working
  <2>2. \A o \in Notifiers : notifier[o].step # "marking"
    BY <1>4, <1>6, <2>1 DEF AloneInv, Alone
  <2> QED
    BY <2>2 DEF AloneInv, Marked, Sending
<1>9. Marked'
  BY <1>4, <1>8 DEF Marked
<1>10. Distinct(s)
  <2>1. \A m, n \in 1..size : m < n => list[m] > list[n]
    BY <1>2, <1>3 DEF IsNewest
  <2>2. \A n \in 1..size : list[n] \in Nat
    BY <1>3 DEF Questions
  <2> QED
    BY <1>3, <2>1, <2>2 DEF Distinct
<1>11. Fresh(s, chat)
  <2>1. \A n \in 1..size : Left(s, chat, n)
    BY <1>3, <1>8 DEF Left
  <2> QED
    BY <1>3, <1>10, <2>1 DEF Fresh
<1> QED
  BY <1>4, <1>5, <1>7, <1>9, <1>11 DEF AloneInv

(* What a run sends was not in the chat, or it is tried again, which is a  *)
(* lapse.                                                                  *)
LEMMA RunSendAlone ==
  ASSUME BridgeInv, AloneInv, ~lapsed', NEW p \in Notifiers, RunSend(p)
  PROVE  AloneInv'
<1> DEFINE todo == notifier[p].todo
           q == Head(todo).question
           new == Append(chat, q)
<1>1. PICK sent \in BOOLEAN, known \in BOOLEAN :
        /\ chat' = IF sent THEN new ELSE chat
        /\ notifier' = [notifier EXCEPT ![p].step = "marking", ![p].ref = IF known THEN Len(chat) + 1 ELSE 0]
        /\ lapsed' = (lapsed \/ Head(notifier[p].todo).retrying)
  BY DEF RunSend
<1>2. todo \in Seq(Item) /\ todo # <<>> /\ notifier[p].step = "sending"
      /\ UNCHANGED <<question, lock>>
  BY DEF RunSend, BridgeInv, Types, Notifier
<1>3. 1 \in 1..Len(todo) /\ Head(todo) = todo[1] /\ Head(todo) \in Item /\ Len(todo) \in Nat
  BY <1>2
<1>4. q \in Questions /\ Head(todo).retrying = FALSE
  BY <1>1, <1>3 DEF Item
<1>5. ~Sent(chat, q) /\ Distinct(notifier[p]) /\ \A n \in 1..Len(todo) : Left(notifier[p], chat, n)
  <2>1. Distinct(notifier[p]) /\ \A n \in 1..Len(todo) : Left(notifier[p], chat, n)
    BY <1>2 DEF AloneInv, Fresh
  <2> QED
    BY <1>2, <1>3, <1>4, <2>1 DEF Left
<1>6. new \in Seq(Questions) /\ Len(new) = Len(chat) + 1 /\ new[Len(chat) + 1] = q
      /\ \A n \in 1..Len(chat) : new[n] = chat[n]
  BY <1>4 DEF BridgeInv, Types
<1>7. Len(chat) \in Nat
  BY DEF BridgeInv, Types
<1>8. \A o \in Notifiers \ {p} : notifier'[o] = notifier[o] /\ ~Working(o)
  <2>1. Working(p)
    BY <1>2 DEF Working
  <2> QED
    BY <1>1, <2>1 DEF BridgeInv, Types, AloneInv, Alone
<1>9. notifier'[p].step = "marking" /\ notifier'[p].todo = todo
  BY <1>1 DEF BridgeInv, Types, Notifier
<1> HIDE DEF todo, q, new
<1>10. Alone'
  <2>1. \A o \in Notifiers : Working(o)' => o = p
    BY <1>8 DEF Working
  <2>2. lock = "young"
    BY <1>2 DEF AloneInv, Alone, Working
  <2> QED
    BY <1>2, <2>1, <2>2 DEF Alone
<1>11. \A r \in Questions : Sent(chat', r) => Sent(chat, r) \/ r = q
  BY <1>1, <1>6, <1>7 DEF Sent
<1>12. Once(chat')
  <2>1. Once(new)
    BY <1>5, <1>6, <1>7 DEF AloneInv, Once, Sent
  <2> QED
    BY <1>1, <2>1 DEF AloneInv
<1>13. Marked'
  <2> SUFFICES ASSUME NEW r \in Questions, Sent(chat', r), question[r].status = "pending"
               PROVE  \E o \in Notifiers : Sending(notifier'[o], r)
    BY <1>2 DEF Marked
  <2>1. \A o \in Notifiers : ~Sending(notifier[o], r)
    <3>1. \A o \in Notifiers : notifier[o].step = "marking" => Working(o)
      BY DEF Working
    <3> QED
      BY <1>2, <1>8, <3>1 DEF Sending
  <2>2. r = q
    BY <1>11, <2>1 DEF AloneInv, Marked
  <2> QED
    BY <1>9, <2>2 DEF Sending, q
<1>14. Fresh(notifier'[p], chat')
  <2>1. Distinct(notifier'[p])
    BY <1>5, <1>9 DEF Distinct, todo
  <2>2. ASSUME NEW n \in 1..Len(todo) PROVE Left(notifier'[p], chat', n)
    <3>1. CASE n = 1
      BY <1>9, <3>1 DEF Left
    <3>2. CASE n # 1
      <4>1. todo[n] \in Item /\ todo[n].question \in Questions
        <5>1. todo[n] \in Item
          BY <1>2, <2>2
        <5> QED
          BY <5>1 DEF Item
      <4>2. todo[n].question # q
        BY <1>3, <1>5, <3>2 DEF Distinct, todo, q
      <4>3. todo[n].retrying \/ ~Sent(chat, todo[n].question)
        BY <1>2, <1>5 DEF Left, todo
      <4> QED
        BY <1>9, <1>11, <4>1, <4>2, <4>3 DEF Left
    <3> QED
      BY <3>1, <3>2
  <2> QED
    BY <1>4, <1>9, <2>1, <2>2 DEF Fresh, todo
<1>15. \A o \in Notifiers \ {p} : Fresh(notifier'[o], chat')
  <2>1. \A o \in Notifiers \ {p} :
          notifier'[o].step \notin {"listing", "sending", "marking", "remembering"}
    BY <1>8 DEF Working
  <2> QED
    BY <2>1 DEF Fresh
<1> QED
  BY <1>10, <1>12, <1>13, <1>14, <1>15 DEF AloneInv

(* Once the first of the list is done, the rest is not in the chat.        *)
LEMMA RestAlone ==
  ASSUME BridgeInv, AloneInv, NEW p \in Notifiers,
         notifier[p].step \in {"marking", "remembering"}, notifier[p].todo # <<>>
  PROVE  /\ \A o \in Notifiers : Fresh(Rest(p)[o], chat)
         /\ \A o \in Notifiers \ {p} : Rest(p)[o] = notifier[o]
         /\ Rest(p)[p].step = "sending"
<1> DEFINE s == notifier[p]
           t == Tail(s.todo)
           u == Rest(p)[p]
<1>1. s.todo \in Seq(Item)
  BY DEF BridgeInv, Types, Notifier
<1>2. t \in Seq(Item) /\ Len(t) = Len(s.todo) - 1
      /\ \A n \in 1..Len(t) : t[n] = s.todo[n + 1] /\ n + 1 \in 1..Len(s.todo)
  BY <1>1
<1>3. u.step = "sending" /\ u.todo = t
  BY DEF BridgeInv, Types, Notifier, Rest
<1>4. \A o \in Notifiers \ {p} : Rest(p)[o] = notifier[o]
  BY DEF BridgeInv, Types, Rest
<1>5. Distinct(s) /\ \A n \in 1..Len(s.todo) : Left(s, chat, n)
  BY DEF AloneInv, Fresh
<1> HIDE DEF s, t, u
<1>6. Distinct(u)
  BY <1>2, <1>3, <1>5 DEF Distinct
<1>7. \A n \in 1..Len(t) : Left(u, chat, n)
  BY <1>2, <1>3, <1>5 DEF Left
<1>8. Fresh(u, chat)
  BY <1>3, <1>6, <1>7 DEF Fresh
<1> QED
  BY <1>3, <1>4, <1>8 DEF AloneInv, u

(* The question that was sent is marked, and is not pending any more.      *)
LEMMA MarkAlone ==
  ASSUME BridgeInv, AloneInv, NEW p \in Notifiers, Mark(p)
  PROVE  AloneInv'
<1> DEFINE item == Head(notifier[p].todo)
           q == item.question
           ref == notifier[p].ref
           row == [status |-> IF ref # 0 THEN "delivered" ELSE "delivery_failed", ref |-> ref]
           marks == (Delivered(p) \/ ~item.retrying) /\ Markable(q)
<1>1. notifier[p].todo # <<>> /\ notifier[p].step = "marking" /\ UNCHANGED <<chat, lock>>
  BY DEF BridgeInv, ChatInv, Mark, Holds
<1>2. notifier[p].todo \in Seq(Item) /\ item \in Item /\ q \in Questions
  <2>1. notifier[p].todo \in Seq(Item)
    BY DEF BridgeInv, Types, Notifier
  <2>2. item \in Item
    BY <1>1, <2>1
  <2> QED
    BY <2>1, <2>2 DEF Item
<1>3. ~item.retrying
  BY <1>1 DEF AloneInv, Fresh
<1>4. question' = question \/ question' = [question EXCEPT ![q] = row]
  <2>1. CASE marks
    BY <2>1 DEF Mark, MarkHumanQuestionDelivery, Delivered
  <2>2. CASE ~marks
    BY <2>2 DEF Mark
  <2> QED
    BY <2>1, <2>2
<1>5. question'[q].status # "pending"
  <2>1. CASE marks
    <3>1. question' = [question EXCEPT ![q] = row]
      BY <2>1 DEF Mark, MarkHumanQuestionDelivery, Delivered
    <3> QED
      BY <1>2, <3>1 DEF BridgeInv, Types
  <2>2. CASE ~marks
    BY <1>3, <2>2 DEF Mark, Markable
  <2> QED
    BY <2>1, <2>2
<1>6. Step(p, "remembering") \/ notifier' = Rest(p)
  <2>1. CASE marks /\ Delivered(p)
    BY <2>1 DEF Mark, Delivered
  <2>2. CASE ~(marks /\ Delivered(p))
    BY <2>2 DEF Mark
  <2> QED
    BY <2>1, <2>2
<1>7. /\ \A o \in Notifiers : Fresh(notifier'[o], chat)
      /\ \A o \in Notifiers \ {p} : notifier'[o] = notifier[o]
  <2>1. CASE notifier' = Rest(p)
    BY <1>1, <2>1, RestAlone
  <2>2. CASE Step(p, "remembering")
    <3>1. \A o \in Notifiers \ {p} : notifier'[o] = notifier[o]
      BY <2>2 DEF Step, BridgeInv, Types
    <3>2. notifier'[p].step = "remembering" /\ notifier'[p].todo = notifier[p].todo
      BY <2>2 DEF Step, BridgeInv, Types, Notifier
    <3>3. Fresh(notifier'[p], chat)
      BY <1>1, <3>2 DEF AloneInv, Fresh, Distinct, Left
    <3> QED
      BY <3>1, <3>3 DEF AloneInv
  <2> QED
    BY <1>6, <2>1, <2>2
<1> HIDE DEF marks, item, ref, row, q
<1>8. Working(p) /\ \A o \in Notifiers : Working(o)' => Working(o)
  BY <1>1, <1>7 DEF Working
<1>9. Alone'
  BY <1>1, <1>8 DEF AloneInv, Alone
<1>10. Marked'
  <2> SUFFICES ASSUME NEW r \in Questions, Sent(chat, r), question'[r].status = "pending"
               PROVE  FALSE
    BY <1>1 DEF Marked
  <2>1. r # q /\ question[r].status = "pending"
    BY <1>2, <1>4, <1>5 DEF BridgeInv, Types
  <2>2. PICK o \in Notifiers : Sending(notifier[o], r)
    BY <2>1 DEF AloneInv, Marked
  <2>3. o = p
    BY <1>8, <2>2 DEF AloneInv, Alone, Working, Sending
  <2> QED
    BY <2>1, <2>2, <2>3 DEF Sending, q, item
<1> QED
  BY <1>1, <1>7, <1>9, <1>10 DEF AloneInv

(* The reference is written down, and the run goes on with the rest.       *)
LEMMA RememberRefAlone ==
  ASSUME BridgeInv, AloneInv, NEW p \in Notifiers, RememberRef(p)
  PROVE  AloneInv'
<1>1. notifier[p].todo # <<>> /\ notifier[p].step = "remembering"
      /\ UNCHANGED <<question, chat, lock>> /\ notifier' = Rest(p)
  BY DEF RememberRef, BridgeInv, ChatInv, Holds
<1>2. /\ \A o \in Notifiers : Fresh(notifier'[o], chat)
      /\ \A o \in Notifiers \ {p} : notifier'[o] = notifier[o]
      /\ notifier'[p].step = "sending"
  BY <1>1, RestAlone
<1>3. Working(p) /\ \A o \in Notifiers : Working(o)' => Working(o)
  BY <1>1, <1>2 DEF Working
<1>4. Alone'
  BY <1>1, <1>3 DEF AloneInv, Alone
<1>5. Marked'
  BY <1>1, <1>2 DEF AloneInv, Marked, Sending
<1> QED
  BY <1>1, <1>2, <1>4, <1>5 DEF AloneInv

(* Every step keeps what is known of a run alone, or is a lapse.           *)
LEMMA NextSend == SendInv /\ [Next]_vars => SendInv'
<1> SUFFICES ASSUME SendInv, [Next]_vars PROVE SendInv'
  OBVIOUS
<1>1. BridgeInv /\ BridgeInv'
  BY NextBridge DEF SendInv
<1>2. lapsed => lapsed'
  BY DEF Next, Run, Create, Close, TakeLock, FindStale, Begin, RemoveStale, AcquireAgain,
         ListQuestions, RunSend, Mark, RememberRef, Release, Fault, LockAges,
         OnPreGatewayDispatch, AnswerHumanQuestion, GiveUp, vars
<1>3. SUFFICES ASSUME ~lapsed', AloneInv PROVE AloneInv'
  BY <1>1, <1>2 DEF SendInv
<1>4. CASE Create
  BY <1>1, <1>3, <1>4, CreateAlone
<1>5. CASE \/ \E q \in Questions : Close(q)
           \/ \E h \in Handlers :
                \/ AnswerHumanQuestion(h) \/ GiveUp(h)
                \/ \E i \in Inbounds : OnPreGatewayDispatch(h, i)
  BY <1>1, <1>3, <1>5, AnswerStepsAlone
<1>6. ASSUME NEW p \in Notifiers, Run(p) PROVE AloneInv'
  BY <1>1, <1>3, <1>6, LockStepsAlone, ListQuestionsAlone, RunSendAlone, MarkAlone, RememberRefAlone
     DEF Run
<1>7. ASSUME NEW p \in Notifiers,
             Fault(p) \/ \E retry \in BOOLEAN : TakeLock(p, retry) \/ FindStale(p, retry)
      PROVE  AloneInv'
  BY <1>1, <1>3, <1>7, LockStepsAlone
<1>8. CASE LockAges
  BY <1>1, <1>3, <1>8, LockAgesAlone
<1>9. CASE UNCHANGED vars
  BY <1>3, <1>9 DEF vars, AloneInv, Alone, Marked, Working
<1> QED
  BY <1>4, <1>5, <1>6, <1>7, <1>8, <1>9 DEF Next

(* A question goes to the chat once, unless a run died or failed between   *)
(* sending and marking, its lock passed ten minutes or was removed under   *)
(* it, or a message that was not confirmed is sent again (acquireLock,     *)
(* --retry-failed).                                                        *)
THEOREM QuestionsSentOnce == Spec => []SentOnce
<1>1. Init => SendInv
  BY InitBridge, InitAlone DEF SendInv
<1>2. SendInv => SentOnce
  <2>1. BridgeInv => DOMAIN chat = 1..Len(chat)
    BY DEF BridgeInv, Types
  <2> QED
    BY <2>1 DEF SendInv, AloneInv, Once, SentOnce
<1> QED
  BY <1>1, <1>2, NextSend, PTL DEF Spec
=============================================================================
