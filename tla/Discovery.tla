------------------------------ MODULE Discovery ------------------------------
(***************************************************************************)
(* Which card a posting is about.  A posting seen by a round, a connector  *)
(* or an agent is first a posting already seen (the identifier its portal  *)
(* gives it, or its address and company), then a card with that address,   *)
(* then a card of the same company, title and place, then one with the     *)
(* same description; only a posting none of these recognises makes a card. *)
(* A new card that resembles another is queued as a possible duplicate,    *)
(* which a person decides and may take back for a day.                     *)
(*                                                                         *)
(* A title stands for a normalised title and place, a company for its      *)
(* companyKey, a description for a text long enough to be hashed; Blank is *)
(* the empty description.  All the addresses of a posting are its url.     *)
(***************************************************************************)
EXTENDS Integers, FiniteSets

CONSTANTS
  Items,       \* postings the sources may deliver
  Delivered,   \* <<item, round>>: those they deliver, NoRound outside a round
  Forms,       \* postings a person may type
  Alike,       \* pairs of titles whose similarity is at least 0.92
  Rounds, NoRound, NoId, NoJob, Blank,
  Decisions,   \* what a person may decide of a possible duplicate
  MaxWrites    \* bound: requests that write, in a behaviour

VARIABLES
  jobs,        \* the cards, by id
  occurrences, \* job_occurrences
  duplicates,  \* possible_duplicates
  writes       \* requests so far: the clock of every timestamp

discoveryVars == <<jobs, occurrences, duplicates, writes>>

Statuses == {"open", "closed", "unknown"}

ASSUME DiscoveryAssumption ==
  /\ MaxWrites \in Nat /\ Decisions \subseteq {"merged", "distinct", "dismissed"}
  /\ Blank \notin Statuses
  /\ Delivered \subseteq Items \X Rounds
  /\ \A item \in Items \cup Forms :
       /\ DOMAIN item = {"source", "native", "url", "title", "company", "description", "opening"}
       /\ item.title # Blank /\ item.company # Blank /\ item.opening \in Statuses

now == writes + 1

Write == writes < MaxWrites /\ writes' = now

-----------------------------------------------------------------------------

\* The id of a card is a hash of these: it stays when a person edits them.
FoundId(item) == <<"found", item.url, item.company>>
TypedId(form) == <<"typed", form.source, form.url, form.title, form.company>>

ASSUME NoJobAssumption ==
  /\ \A item \in Items : NoJob # FoundId(item)
  /\ \A form \in Forms : NoJob # TypedId(form)

DedupKey(row) == <<row.company, row.title>>
DescriptionHash(row) == IF row.description = Blank THEN <<>> ELSE <<row.company, row.description>>

\* upsertJob: what item says, in a new card or over the card of that id.
Card(item, id) ==
  [source |-> item.source, native |-> item.native, url |-> item.url,
   title |-> item.title, company |-> item.company,
   description |-> item.description, opening |-> item.opening,
   closed |-> id \in DOMAIN jobs /\ jobs[id].closed,
   created |-> IF id \in DOMAIN jobs THEN jobs[id].created ELSE now,
   key |-> DedupKey(item), hash |-> DescriptionHash(item)]

With(id, card) == [j \in DOMAIN jobs \cup {id} |-> IF j = id THEN card ELSE jobs[j]]

SameNative(left, right) ==
  left.native # NoId /\ left.source = right.source /\ left.native = right.native

\* A URL alone never merges employers.
SameIdentity(item, url, posting, company) ==
  SameNative(item, posting) \/ (item.url = url /\ item.company = company)

\* Two postings of one portal under two identifiers are two postings.
Apart(item, card) ==
  item.source = card.source /\ item.native # NoId /\ card.native # NoId /\ item.native # card.native

(* What recognises a posting: the occurrences of its identifier, the       *)
(* latest first, then those of its address, then the cards, the oldest     *)
(* first, by address, by key and by description.                           *)
Signals(item) ==
  LET signal(tier, age, job) == [tier |-> tier, age |-> age, job |-> job]
      seen(o) == SameIdentity(item, o.url, o, jobs[o.job].company)
      cards == DOMAIN jobs
  IN  {signal(1, -o.at, o.job) : o \in {x \in occurrences : SameNative(item, x)}}
 \cup {signal(2, -o.at, o.job) : o \in {x \in occurrences : item.url = x.url /\ seen(x)}}
 \cup {signal(3, jobs[j].created, j) : j \in {k \in cards : /\ jobs[k].url = item.url
                                                            /\ SameIdentity(item, jobs[k].url, jobs[k], jobs[k].company)}}
 \cup {signal(4, jobs[j].created, j) : j \in {k \in cards : jobs[k].key = DedupKey(item) /\ ~Apart(item, jobs[k])}}
 \cup {signal(5, jobs[j].created, j) : j \in {k \in cards : /\ DescriptionHash(item) # <<>>
                                                            /\ jobs[k].hash = DescriptionHash(item)
                                                            /\ ~Apart(item, jobs[k])}}

\* Mutant: the occurrences of the identifier are not looked up.
RecognisedByAddress(item) ==
  LET signals == {s \in Signals(item) : s.tier > 1}
      first == {s \in signals : \A r \in signals :
                  s.tier < r.tier \/ (s.tier = r.tier /\ s.age <= r.age)}
  IN  IF first = {} THEN NoJob ELSE (CHOOSE s \in first : TRUE).job

Recognised(item) ==
  LET signals == Signals(item)
      first == {s \in signals : \A r \in signals :
                  s.tier < r.tier \/ (s.tier = r.tier /\ s.age <= r.age)}
  IN  IF first = {} THEN NoJob ELSE (CHOOSE s \in first : TRUE).job

\* One occurrence for each round, source and posting; outside a round, one each time.
Ref(posting) == IF posting.native = NoId THEN posting.url ELSE posting.native

Observe(item, id, round) ==
  LET same(o) == /\ round # NoRound /\ o.round = round
                 /\ o.source = item.source /\ Ref(o) = Ref(item)
  IN  IF \E o \in occurrences : same(o)
      THEN {IF same(o) THEN [o EXCEPT !.at = now] ELSE o : o \in occurrences}
      ELSE occurrences \cup {[round |-> round, source |-> item.source, native |-> item.native,
                              url |-> item.url, job |-> id, at |-> now]}

\* compareFuzzyDuplicate: the same company, and titles nearly the same; every card of
\* the model is in one place and of one month, so those two signals always agree.
Resembles(card, item) ==
  /\ card.company = item.company
  /\ card.title = item.title \/ {card.title, item.title} \in Alike

\* The card, if any, the new one is queued against.
Resembled(item, id) ==
  LET like == {j \in DOMAIN jobs \ {id} : Resembles(jobs[j], item)}
  IN  {j \in like : \A k \in like : jobs[j].created <= jobs[k].created}

Suspect(item, id) ==
  duplicates \cup {[job |-> id, candidate |-> j, status |-> "pending", old |-> FALSE] :
                     j \in {k \in Resembled(item, id) :
                              ~\E d \in duplicates : d.job = id /\ d.candidate = k}}

-----------------------------------------------------------------------------

Change(d, e) == duplicates' = (duplicates \ {d}) \cup {e}

\* A decision moves no data: it only leaves the queue.
ResolvePossibleDuplicate(d) ==
  /\ Write /\ d.status = "pending"
  /\ \E status \in Decisions : Change(d, [d EXCEPT !.status = status])
  /\ UNCHANGED <<jobs, occurrences>>

UndoPossibleDuplicate(d) ==
  /\ Write /\ d.status # "pending" /\ ~d.old
  /\ Change(d, [d EXCEPT !.status = "pending"])
  /\ UNCHANGED <<jobs, occurrences>>

\* DUPLICATE_UNDO_WINDOW_MS passes.
DecisionAges(d) ==
  /\ d.status # "pending" /\ ~d.old
  /\ Change(d, [d EXCEPT !.old = TRUE])
  /\ UNCHANGED <<jobs, occurrences, writes>>

Duplicates ==
  \E d \in duplicates : ResolvePossibleDuplicate(d) \/ UndoPossibleDuplicate(d) \/ DecisionAges(d)
==============================================================================
