----------------------------- MODULE Collection -----------------------------
(***************************************************************************)
(* The collector of the connectors, a process of its own that the cron     *)
(* starts: it opens a round, asks the portal of each listed company for    *)
(* its vacancies, several at a time, reads the page of the ones that came  *)
(* without a description, and delivers everything to its round in batches. *)
(* A budget of requests and a deadline stop the asking, never the          *)
(* delivery.  Vacancies still without a description are queued for an      *)
(* agent.  The process may die anywhere; the round it opened stays.        *)
(*                                                                         *)
(* One item is one vacancy; thin items have no useful description.  The    *)
(* retries, delays and redirects of a request are folded into its outcome. *)
(***************************************************************************)
EXTENDS Rounds

CONSTANTS
  Companies,   \* curated companies
  Connector,   \* the connector of each
  Pages,       \* the pages each has, in order
  PageLimit,   \* MAX_PAGES
  Thin,        \* the items that come without a description
  Lanes,       \* limits.concurrency
  Chunk,       \* CONNECTOR_BATCH_SIZE
  MaxPages,    \* limits.max_enrichments
  Place        \* where each source comes among them, in the order of their names

ASSUME CompanyAssumption ==
  /\ Connector \in [Companies -> Sources]
  /\ Pages \in [Companies -> Seq(Seq([item : Item, own : BOOLEAN, whole : BOOLEAN]))]
  /\ Thin \subseteq Item
ASSUME PlaceAssumption ==
  Place \in [Sources -> Nat] /\ \A s, t \in Sources : Place[s] = Place[t] => s = t
ASSUME LimitAssumption ==
  Lanes \in Nat \ {0} /\ Chunk \in Nat \ {0} /\ MaxPages \in Nat /\ PageLimit \in Nat

VARIABLES
  pc,          \* where the collector is
  mine,        \* its round
  company,     \* what became of each company
  answered,    \* pages each has answered; one that ended short lost the items of them
  fetched,     \* items of each source, in the order they came
  budget,      \* "open", or what stopped it
  page,        \* pages to read, being read, and read
  tail,        \* llmQueue: items left without a description
  left,        \* sources still to deliver
  chunks,      \* batches of the source being delivered
  lost,        \* sources the collector gave up: failed in its summary
  queue        \* connector_enrichment_queue

collectorVars == <<pc, mine, company, answered, fetched, budget, page, tail, left, chunks, lost>>
vars == <<roundsVars, collectorVars, queue>>

\* "handled" is done or dismissed.
Queued == {"none", "pending", "handled"}

TypeOK ==
  /\ RoundsTypeOK
  /\ pc \in {"idle", "fetching", "enriching", "delivering", "queueing", "done", "dead"}
  /\ mine \in SUBSET Rounds /\ Cardinality(mine) <= 1
  /\ company \in [Companies -> {"out", "todo", "asked", "ok", "failed", "skipped"}]
  /\ answered \in [Companies -> Nat]
  /\ fetched \in [Sources -> Seq(Item)]
  /\ budget \in {"open", "spent", "late"}
  /\ page \in [{"todo", "asked", "read"} -> SUBSET Item]
  /\ tail \subseteq Item
  /\ left \subseteq Sources /\ chunks \in Seq(Batch) /\ lost \subseteq Sources
  /\ queue \in [Item -> Queued]

-----------------------------------------------------------------------------

(* A record of a page is kept when it is of the company and published, and *)
(* has a title, a company and a URL; one that comes twice in a page is     *)
(* kept once.                                                              *)
Published(record) == record.own

Good(record) == Published(record) /\ record.whole

Collected(records) ==
  {k \in DOMAIN records :
     Good(records[k]) /\ ~\E j \in 1..(k - 1) : Good(records[j]) /\ records[j].item = records[k].item}

\* What is kept of the pages a company is asked for: page and place in it.
Kept(c) == UNION {{n} \X Collected(Pages[c][n]) : n \in DOMAIN Pages[c] \cap 1..PageLimit}

ItemAt(c, x) == Pages[c][x[1]][x[2]].item

Vacancies(c) == {ItemAt(c, x) : x \in Kept(c)}

\* All of it, one page after the other.
InOrder(list, c) ==
  /\ \A m, n \in DOMAIN list :
       m < n => list[m][1] < list[n][1] \/ (list[m][1] = list[n][1] /\ list[m][2] < list[n][2])
  /\ \A x \in Kept(c) : \E n \in DOMAIN list : list[n] = x

Asked == {c \in Companies : company[c] = "asked"}

Answering(s) == {c \in Companies : Connector[c] = s /\ company[c] = "ok"}

Stopped == budget # "open"

(* The companies of the connectors that were not ready are left out.       *)
Start(r) ==
  /\ pc = "idle" /\ mine = {}
  /\ OpenRound(r, {Connector[c] : c \in Companies})
  /\ pc' = "fetching" /\ mine' = {r}
  /\ company' = [c \in Companies |->
       IF Readiness(Connector[c]) = "ready" THEN "todo" ELSE "out"]
  /\ UNCHANGED <<answered, fetched, budget, page, tail, left, chunks, lost>>

\* A worker of the pool that is free, of limits.concurrency.
LaneFree(busy) == Cardinality(busy) < Lanes

(* An abort ends every request; a spent budget only refuses new ones, and  *)
(* one that was already paid still answers.                                *)
CanAnswer == budget # "late"

(* runPool: a lane takes a next company while nothing has stopped it.      *)
Ask(c) ==
  /\ pc = "fetching" /\ company[c] = "todo"
  /\ ~Stopped /\ LaneFree(Asked)
  /\ company' = [company EXCEPT ![c] = "asked"]
  /\ UNCHANGED <<pc, mine, answered, fetched, budget, page, tail, left, chunks, lost>>

\* The page that answers next is neither the portal's last nor the last to ask for.
MorePages(c) == answered[c] + 1 < Len(Pages[c]) /\ answered[c] + 1 < PageLimit

AnswerPage(c) == answered' = [answered EXCEPT ![c] = @ + 1]

(* paginate: one page after the other; its items wait in a local list, and *)
(* the source has them when the last page has answered.                    *)
Answer(c) ==
  /\ pc = "fetching" /\ company[c] = "asked" /\ CanAnswer /\ MorePages(c)
  /\ AnswerPage(c)
  /\ UNCHANGED <<pc, mine, company, fetched, budget, page, tail, left, chunks, lost>>

AnswerLast(c) ==
  /\ pc = "fetching" /\ company[c] = "asked" /\ CanAnswer /\ ~MorePages(c)
  /\ AnswerPage(c)
  /\ company' = [company EXCEPT ![c] = "ok"]
  /\ \E list \in [1..Cardinality(Kept(c)) -> Kept(c)] :
       /\ InOrder(list, c)
       /\ fetched' = [fetched EXCEPT ![Connector[c]] = @ \o [n \in DOMAIN list |-> ItemAt(c, list[n])]]
  /\ UNCHANGED <<pc, mine, budget, page, tail, left, chunks, lost>>

\* A request for some page fails, and paginate with it: its list is gone.
AnswerFails(c) ==
  /\ pc = "fetching" /\ company[c] = "asked" /\ CanAnswer
  /\ company' = [company EXCEPT ![c] = "failed"]
  /\ UNCHANGED <<pc, mine, answered, fetched, budget, page, tail, left, chunks, lost>>

\* stop(): the first budget error stops the pool.
Overspent == IF budget = "open" THEN "spent" ELSE budget

(* reserve() throws ConnectorBudgetError at some request of the company,   *)
(* or the deadline aborts one: the list is gone as well.                   *)
AnswerRefused(c) ==
  /\ pc = "fetching" /\ company[c] = "asked"
  /\ company' = [company EXCEPT ![c] = "skipped"]
  /\ budget' = Overspent
  /\ UNCHANGED <<pc, mine, answered, fetched, page, tail, left, chunks, lost>>

Deadline ==
  /\ pc \in {"fetching", "enriching"} /\ budget # "late"
  /\ budget' = "late"
  /\ UNCHANGED <<pc, mine, company, answered, fetched, page, tail, left, chunks, lost>>

\* The fetched items without a description: source and place among its items.
Pending == {x \in UNION {{s} \X DOMAIN fetched[s] : s \in Sources} : fetched[x[1]][x[2]] \in Thin}

Sooner(x, y) == Place[x[1]] < Place[y[1]] \/ (x[1] = y[1] /\ x[2] < y[2])

\* The first of them, as many as limits.max_enrichments.
Budgeted == {x \in Pending : Cardinality({y \in Pending : Sooner(y, x)}) < MaxPages}

ItemsOf(X) == {fetched[x[1]][x[2]] : x \in X}

StartPages ==
  /\ pc = "fetching" /\ Asked = {}
  /\ Stopped \/ \A c \in Companies : company[c] # "todo"
  /\ pc' = "enriching"
  /\ page' = [page EXCEPT !["todo"] = ItemsOf(Budgeted)]
  /\ tail' = ItemsOf(Pending) \ ItemsOf(Budgeted)
  /\ UNCHANGED <<mine, company, answered, fetched, budget, left, chunks, lost>>

Move(i, from, to) == page' = [page EXCEPT ![from] = @ \ {i}, ![to] = @ \cup {i}]

ReadPage(i) ==
  /\ pc = "enriching" /\ i \in page["todo"]
  /\ ~Stopped /\ LaneFree(page["asked"])
  /\ Move(i, "todo", "asked")
  /\ UNCHANGED <<pc, mine, company, answered, fetched, budget, tail, left, chunks, lost>>

\* The stages of the cascade at which a description may be found.
Stages == {"jsonld", "selectors", "needs_llm"}

PageRead(i, stage) ==
  /\ pc = "enriching" /\ i \in page["asked"] /\ CanAnswer
  /\ Move(i, "asked", "read")
  /\ tail' = IF stage = "needs_llm" THEN tail \cup {i} ELSE tail
  /\ UNCHANGED <<pc, mine, company, answered, fetched, budget, left, chunks, lost>>

\* The task is not done: it goes back among the ones to queue.
PageRefused(i) ==
  /\ pc = "enriching" /\ i \in page["asked"]
  /\ Move(i, "asked", "todo") /\ budget' = Overspent
  /\ UNCHANGED <<pc, mine, company, answered, fetched, tail, left, chunks, lost>>

\* Mutant: what the pool did not get to is forgotten.
UndoneForgotten == {}

\* Tasks of the pool that were not done when it stopped.
Undone == page["todo"]

StartDelivery ==
  /\ pc = "enriching" /\ page["asked"] = {}
  /\ Stopped \/ page["todo"] = {}
  /\ pc' = "delivering"
  /\ tail' = tail \cup Undone
  /\ left' = {s \in Sources : \E c \in Companies : Connector[c] = s /\ company[c] # "out"}
  /\ UNCHANGED <<mine, company, answered, fetched, budget, page, chunks, lost>>

-----------------------------------------------------------------------------
(* Delivery: nothing is awaited, but each statement commits on its own.    *)

Delivering(r) == pc = "delivering" /\ r \in mine /\ call["collector"].step = "idle"

\* A source with items is delivered, empty answers included.
Silent(s) == Answering(s) = {}

\* The batch the n-th item is in, and how many batches n items make.
ChunkOf(n) == (n - 1) \div Chunk + 1
Batches(n) == IF n = 0 THEN 1 ELSE ChunkOf(n)

Chunked(s) ==
  LET last == Batches(Len(fetched[s])) IN
  [k \in 1..last |->
    [source |-> s,
     items |-> SubSeq(fetched[s], (k - 1) * Chunk + 1, IF k < last THEN k * Chunk ELSE Len(fetched[s])),
     cursor |-> IF k < last THEN k ELSE NoCursor]]

GiveUp(r, s) ==
  /\ Report("collector", r, s, "failed", <<>>)
  /\ lost' = lost \cup {s}
  /\ UNCHANGED roundVars

NextSource(r, s) ==
  /\ Delivering(r) /\ chunks = <<>>
  /\ s \in left /\ \A t \in left : Place[s] <= Place[t]
  /\ left' = left \ {s}
  /\ \/ Silent(s) /\ GiveUp(r, s) /\ UNCHANGED <<sourceVars, chunks>>
     \/ ~Silent(s) /\ chunks' = Chunked(s) /\ UNCHANGED <<roundsVars, lost>>
  /\ UNCHANGED <<pc, mine, company, answered, fetched, budget, page, tail>>

DeliverBatch(r) ==
  LET b == Head(chunks) IN
  /\ Delivering(r) /\ chunks # <<>>
  /\ \/ /\ TakeBatch(r, b)
        /\ chunks' = Tail(chunks) /\ UNCHANGED lost
     \/ /\ Repeated(r, b)
        /\ chunks' = Tail(chunks) /\ UNCHANGED <<lost, roundsVars>>
     \/ /\ ~Repeated(r, b) /\ ~Takes(r, b.source)
        /\ GiveUp(r, b.source)
        /\ chunks' = <<>> /\ UNCHANGED sourceVars
  /\ UNCHANGED <<pc, mine, company, answered, fetched, budget, page, tail, left>>

Delivered(r) ==
  /\ Delivering(r) /\ left = {} /\ chunks = <<>>
  /\ pc' = "queueing"
  /\ UNCHANGED <<roundsVars, mine, company, answered, fetched, budget, page, tail, left, chunks, lost>>

\* An item that was handled in an earlier run is not opened again.
Requeued(status) == IF status = "none" THEN "pending" ELSE status

QueueItem ==
  /\ pc = "queueing" /\ tail # {}
  /\ LET i == CHOOSE i \in tail : TRUE IN
       /\ queue' = [queue EXCEPT ![i] = Requeued(@)]
       /\ tail' = tail \ {i}
  /\ UNCHANGED <<pc, mine, company, answered, fetched, budget, page, left, chunks, lost>>

Finish ==
  /\ pc = "queueing" /\ tail = {}
  /\ pc' = "done"
  /\ UNCHANGED <<mine, company, answered, fetched, budget, page, tail, left, chunks, lost>>

Crash ==
  /\ pc \notin {"idle", "done", "dead"}
  /\ pc' = "dead"
  /\ call' = [call EXCEPT !["collector"] = Idle]
  /\ UNCHANGED <<sourceVars, roundVars, mine, company, answered, fetched, budget, page, tail, left, chunks, lost>>

-----------------------------------------------------------------------------

Gather ==
  \/ \E c \in Companies : Ask(c) \/ Answer(c) \/ AnswerLast(c) \/ AnswerFails(c) \/ AnswerRefused(c)
  \/ \E i \in Item : ReadPage(i) \/ PageRefused(i) \/ \E stage \in Stages : PageRead(i, stage)
  \/ Deadline \/ StartPages \/ StartDelivery \/ Finish

Deliver ==
  \E r \in Rounds : (\E s \in Sources : NextSource(r, s)) \/ DeliverBatch(r) \/ Delivered(r)

Collector ==
  \/ (\E r \in Rounds : Start(r)) /\ UNCHANGED queue
  \/ Gather /\ UNCHANGED <<roundsVars, queue>>
  \/ Deliver /\ UNCHANGED queue
  \/ Continue("collector") /\ UNCHANGED <<collectorVars, queue>>
  \/ QueueItem /\ UNCHANGED roundsVars
  \/ Crash /\ UNCHANGED queue

Server == ServerStep /\ UNCHANGED <<collectorVars, queue>>

\* resolveLlmEnrichment
Resolve(i) ==
  /\ queue[i] = "pending"
  /\ queue' = [queue EXCEPT ![i] = "handled"]
  /\ UNCHANGED <<roundsVars, collectorVars>>

Init ==
  /\ RoundsInit
  /\ pc = "idle" /\ mine = {}
  /\ company = [c \in Companies |-> "out"] /\ answered = [c \in Companies |-> 0]
  /\ fetched = [s \in Sources |-> <<>>]
  /\ budget = "open" /\ page = [k \in {"todo", "asked", "read"} |-> {}]
  /\ tail = {} /\ left = {} /\ chunks = <<>> /\ lost = {}
  /\ \E q \in {"none", "handled"} : queue = [i \in Item |-> q]

Next ==
  \/ Collector
  \/ Server
  \/ \E i \in Item : Resolve(i)

Spec == Init /\ [][Next]_vars

-----------------------------------------------------------------------------
(* Properties *)

Deciding(r) == \E p \in Process : call[p].step \in {"written", "judged"} /\ call[p].round = r

(* A round whose sources have all ended ends: whichever of the batch and   *)
(* the reports of two processes came last, one of them saw that all had    *)
(* ended.  Only a death between two statements of a report leaves it open. *)
ClosedWhenDone ==
  \A r \in Rounds :
    round[r].status = "running" /\ AllIn(row[r], Done) => Deciding(r) \/ pc = "dead"

\* Some vacancy of a batch.
Carries(b, i) == \E n \in DOMAIN b.items : b.items[n] = i

\* The vacancies of the pages it answered.
Received(c) == {ItemAt(c, x) : x \in {y \in Kept(c) : y[1] <= answered[c]}}

\* A later page of it failed or was refused: the code drops the ones before.
CutShort(c) == company[c] \in {"failed", "skipped"}

(* Every vacancy of a page a portal answered was delivered to the round,   *)
(* or its source ends as failed in the summary, and one still without a    *)
(* description is in the queue, whatever stopped the pools half way: but   *)
(* for the companies cut short, whose pages are lost though their source   *)
(* may well be completed (paginate, runConnectorCollection).               *)
NothingFetchedIsLost ==
  pc = "done" =>
    \A c \in Companies : \A i \in Received(c) :
      \/ CutShort(c)
      \/ /\ Connector[c] \in lost \/ \E r \in mine : \E b \in taken[r] : Carries(b, i)
         /\ i \in Thin => i \in page["read"] \/ queue[i] # "none"
=============================================================================
