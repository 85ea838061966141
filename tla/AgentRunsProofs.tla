--------------------------- MODULE AgentRunsProofs ---------------------------
(***************************************************************************)
(* The configurations and the executions of the agents, proved for any     *)
(* number of agents, versions, executions and crashes.                     *)
(*                                                                         *)
(* Each request changes the rows of one agent, and the set of instructions *)
(* a person read only grows: so the invariant is a conjunction of facts    *)
(* about one agent, and a request has to keep those of its own agent.      *)
(***************************************************************************)
EXTENDS AgentRuns, FiniteSetTheorems, TLAPS

-----------------------------------------------------------------------------
(* The invariant of the versions *)

Typed ==
  /\ agent \in [Agents -> Agent]
  /\ versions \in [Agents -> Seq(Version)]
  /\ diffs \subseteq Agents \X Nat
  /\ known \subseteq Prompts /\ paused \subseteq Agents /\ crashes \in 0..MaxCrashes

\* The two pointers of an agent name versions it has; without an agent there is nothing.
Pointers(a) ==
  /\ Len(versions[a]) <= MaxVersions
  /\ Exists(a) => agent[a].published \in DOMAIN versions[a]
  /\ ~Exists(a) => versions[a] = <<>> /\ a \notin paused
  /\ agent[a].draft # 0 => agent[a].draft \in DOMAIN versions[a]
  /\ \A v \in DOMAIN versions[a] :
       /\ versions[a][v].status = "published" <=> agent[a].published = v
       /\ versions[a][v].status = "published" => versions[a][v].published

\* The versions whose instructions somebody read.
Instructions(a) ==
  /\ Exists(a) => agent[a].live.prompt \in known
  /\ \A v \in Nat : <<a, v>> \in diffs => v \in DOMAIN versions[a]
  /\ \A v \in DOMAIN versions[a] :
       \/ versions[a][v].by = "human"
       \/ versions[a][v].published
       \/ <<a, v>> \in diffs
       => versions[a][v].config.prompt \in known

\* A paused agent is off, and so is the draft on its card unless its author said otherwise.
Resting(a) ==
  a \in paused =>
    /\ ~agent[a].live.enabled
    /\ agent[a].draft # 0 =>
         LET d == versions[a][agent[a].draft] IN d.config.enabled => d.resumes

VersionInv ==
  /\ Typed
  /\ \A a \in Agents : Pointers(a) /\ Instructions(a) /\ Resting(a)

-----------------------------------------------------------------------------
(* The records *)

(* What an actor writes as a draft is a version that was never published.  *)
LEMMA DraftType ==
  ASSUME NEW c \in Config, NEW by \in Actor, NEW b \in BOOLEAN
  PROVE  /\ Draft(c, by, b) \in Version
         /\ Draft(c, by, b).status = "draft" /\ Draft(c, by, b).config = c
         /\ Draft(c, by, b).by = by /\ ~Draft(c, by, b).published
         /\ Draft(c, by, b).resumes = b
BY DEF Draft, Version

(* A version keeps everything but its status when it is retired.           *)
LEMMA RetiredVersion ==
  ASSUME NEW v \in Version
  PROVE  LET w == [v EXCEPT !.status = "retired"] IN
         /\ w \in Version /\ w.status = "retired"
         /\ w.config = v.config /\ w.by = v.by /\ w.published = v.published
         /\ w.resumes = v.resumes
BY DEF Version

(* A version that is published was published, and keeps what it says.      *)
LEMMA PublishedRecord ==
  ASSUME NEW v \in Version
  PROVE  LET w == [v EXCEPT !.status = "published", !.published = TRUE] IN
         /\ w \in Version /\ w.status = "published" /\ w.published
         /\ w.config = v.config /\ w.by = v.by /\ w.resumes = v.resumes
BY DEF Version

(* What a patch makes of a configuration is one.                           *)
LEMMA MergedType ==
  ASSUME NEW by \in Actor, NEW patch \in Edits[by], NEW c \in Config
  PROVE  /\ Merged(patch, c) \in Config
         /\ "enabled" \notin DOMAIN patch => Merged(patch, c).enabled = c.enabled
         /\ "prompt" \notin DOMAIN patch => Merged(patch, c).prompt = c.prompt
BY EditAssumption DEF Merged, Said

(* updateAgentConfig, publishAgentVersion and discardAgentDraft keep the   *)
(* row of the agent in its columns.                                        *)
LEMMA AgentRow ==
  ASSUME NEW g \in Agent, NEW n \in 0..MaxVersions, NEW c \in Config, NEW e \in BOOLEAN
  PROVE  /\ g.is \in {"none", "there", "deleted"} /\ g.live \in Config
         /\ g.published \in 0..MaxVersions /\ g.draft \in 0..MaxVersions
         /\ g.live.enabled \in BOOLEAN /\ g.live.prompt \in Prompts
         /\ [g EXCEPT !.draft = n] \in Agent
         /\ [g EXCEPT !.draft = n, !.live.enabled = e] \in Agent
         /\ [g EXCEPT !.live = c, !.published = n, !.draft = IF @ = n THEN 0 ELSE @] \in Agent
         /\ [g EXCEPT !.is = "deleted", !.published = 0, !.draft = 0] \in Agent
<1>1. 0 \in 0..MaxVersions
  BY BoundAssumption
<1> QED
  BY <1>1 DEF Agent, Config

-----------------------------------------------------------------------------
(* The requests of the versions *)

Facts(a) == Pointers(a) /\ Instructions(a) /\ Resting(a)

\* A request leaves the rows of every agent but a alone, and forgets nothing anyone read.
OnlyOf(a) ==
  /\ known \subseteq known'
  /\ \A b \in Agents \ {a} :
       /\ agent'[b] = agent[b] /\ versions'[b] = versions[b]
       /\ b \in paused' <=> b \in paused
       /\ \A v \in Nat : <<b, v>> \in diffs' <=> <<b, v>> \in diffs

(* So what holds of the other agents still does.                           *)
LEMMA OthersKept ==
  ASSUME VersionInv, NEW a \in Agents, OnlyOf(a), Typed', Facts(a)'
  PROVE  VersionInv'
<1> SUFFICES ASSUME NEW b \in Agents, b # a
             PROVE  Facts(b)'
  BY DEF VersionInv, Facts
<1>0. /\ Facts(b)
      /\ agent'[b] = agent[b] /\ versions'[b] = versions[b]
      /\ b \in paused' <=> b \in paused
      /\ \A v \in Nat : <<b, v>> \in diffs' <=> <<b, v>> \in diffs
      /\ known \subseteq known'
  BY DEF VersionInv, OnlyOf, Facts
<1>1. Pointers(b)'
  BY <1>0 DEF Pointers, Facts, Exists
<1>2. Instructions(b)'
  <2>1. DOMAIN versions[b] \subseteq Nat
    BY DEF VersionInv, Typed
  <2> QED
    BY <1>0, <2>1 DEF Instructions, Facts, Exists
<1>3. Resting(b)'
  BY <1>0 DEF Resting, Facts
<1> QED
  BY <1>1, <1>2, <1>3 DEF Facts

(* The types of what the requests of one agent read.                       *)
LEMMA RowTypes ==
  ASSUME Typed, NEW a \in Agents
  PROVE  /\ agent[a] \in Agent /\ versions[a] \in Seq(Version)
         /\ DOMAIN versions[a] = 1..Len(versions[a]) /\ Len(versions[a]) \in Nat
         /\ \A v \in DOMAIN versions[a] : v \in Nat /\ versions[a][v] \in Version
         /\ \A v \in DOMAIN versions[a] : versions[a][v].config \in Config
         /\ agent[a].live \in Config
<1>1. agent[a] \in Agent /\ versions[a] \in Seq(Version)
  BY DEF Typed
<1>2. agent[a].live \in Config
  BY <1>1 DEF Agent
<1>3. \A v \in DOMAIN versions[a] : v \in Nat /\ versions[a][v] \in Version
  BY <1>1
<1>4. \A w \in Version : w.config \in Config
  BY DEF Version
<1> QED
  BY <1>1, <1>2, <1>3, <1>4

(* A person is shown a difference: its instructions were read.             *)
LEMMA ShowStep ==
  ASSUME VersionInv, NEW a \in Agents, NEW v \in DOMAIN versions[a], ShowAgentPublishReview(a, v)
  PROVE  VersionInv'
<1> USE DEF ShowAgentPublishReview, GetAgentVersionDiff
<1>0. Facts(a) /\ Typed
  BY DEF VersionInv, Facts
<1>1. v \in Nat /\ versions[a][v].config.prompt \in Prompts
  BY <1>0, RowTypes DEF Config
<1>2. Typed'
  BY <1>0, <1>1 DEF Typed
<1>3. OnlyOf(a)
  BY DEF OnlyOf
<1>4. Pointers(a)' /\ Resting(a)'
  BY <1>0 DEF Facts, Pointers, Resting, Exists
<1>5. Instructions(a)'
  BY <1>0, <1>1 DEF Facts, Instructions, Exists
<1> QED
  BY <1>2, <1>3, <1>4, <1>5, OthersKept DEF Facts

(* A person creates an agent, with its first version.                      *)
LEMMA InsertStep ==
  ASSUME VersionInv, NEW a \in Agents, NEW c \in Created, InsertAgentConfig(a, c)
  PROVE  VersionInv'
<1> USE DEF InsertAgentConfig
<1> DEFINE v == [status |-> "published", config |-> c, by |-> "human", published |-> TRUE,
                 resumes |-> c.enabled]
           g == [is |-> "there", live |-> c, published |-> 1, draft |-> 0]
<1>0. Facts(a) /\ Typed /\ c \in Config
  BY AgentAssumption DEF VersionInv, Facts
<1>1. ~Exists(a) /\ a \notin paused /\ versions[a] = <<>>
  BY <1>0 DEF Facts, Pointers, Exists
<1>2. v \in Version /\ c.prompt \in Prompts
  BY <1>0 DEF Version, Config, Actor
<1>3. 1 \in 0..MaxVersions
  BY BoundAssumption
<1>4. /\ agent' = [agent EXCEPT ![a] = g] /\ versions' = [versions EXCEPT ![a] = <<v>>]
      /\ known' = known \cup {c.prompt} /\ UNCHANGED <<diffs, paused, crashes>>
  OBVIOUS
<1>5. agent'[a] = g /\ versions'[a] = <<v>>
  BY <1>0, <1>4 DEF Typed
<1>6. g \in Agent
  BY <1>0, <1>3, BoundAssumption DEF Agent
<1> HIDE DEF InsertAgentConfig
<1>7. Typed'
  BY <1>0, <1>2, <1>4, <1>6 DEF Typed
<1>8. OnlyOf(a)
  BY <1>0, <1>4 DEF OnlyOf, Typed
<1>9. g.is = "there" /\ g.live = c /\ g.published = 1 /\ g.draft = 0
  OBVIOUS
<1>10. v.status = "published" /\ v.published /\ v.config = c
  OBVIOUS
<1> HIDE DEF v, g
<1>11. Len(<<v>>) = 1 /\ DOMAIN <<v>> = {1} /\ <<v>>[1] = v
  OBVIOUS
<1>12. Pointers(a)'
  BY <1>1, <1>3, <1>5, <1>9, <1>10, <1>11, BoundAssumption DEF Pointers, Exists
<1>13. \A n \in Nat : <<a, n>> \notin diffs
  BY <1>0, <1>1 DEF Facts, Instructions
<1>14. Instructions(a)'
  BY <1>4, <1>5, <1>9, <1>10, <1>11, <1>13 DEF Instructions, Exists
<1>15. Resting(a)'
  BY <1>1, <1>4 DEF Resting
<1> QED
  BY <1>7, <1>8, <1>12, <1>14, <1>15, OthersKept DEF Facts

(* retireSupersededDraft: the draft on the card is no draft any more, and  *)
(* every version says what it said.                                        *)
LEMMA SupersededList ==
  ASSUME Typed, NEW a \in Agents, Pointers(a)
  PROVE  LET s == Superseded(a) IN
         /\ s \in Seq(Version) /\ Len(s) = Len(versions[a])
         /\ \A v \in DOMAIN versions[a] :
              /\ s[v].status = "published" <=> versions[a][v].status = "published"
              /\ s[v].config = versions[a][v].config /\ s[v].by = versions[a][v].by
              /\ s[v].published = versions[a][v].published
              /\ s[v].resumes = versions[a][v].resumes
<1>1. versions[a] \in Seq(Version)
  BY DEF Typed
<1>2. CASE ~(agent[a].draft # 0 /\ versions[a][agent[a].draft].status = "draft")
  BY <1>1, <1>2 DEF Superseded
<1>3. CASE agent[a].draft # 0 /\ versions[a][agent[a].draft].status = "draft"
  <2> DEFINE d == agent[a].draft
             w == [versions[a][d] EXCEPT !.status = "retired"]
  <2>1. d \in DOMAIN versions[a] /\ versions[a][d] \in Version
    BY <1>1, <1>3 DEF Pointers
  <2>2. Superseded(a) = [versions[a] EXCEPT ![d] = w]
    BY <1>3 DEF Superseded
  <2>3. /\ w \in Version /\ w.status = "retired" /\ w.config = versions[a][d].config
        /\ w.by = versions[a][d].by /\ w.published = versions[a][d].published
        /\ w.resumes = versions[a][d].resumes
    BY <2>1, RetiredVersion
  <2> HIDE DEF w
  <2> QED
    BY <1>1, <1>3, <2>1, <2>2, <2>3
<1> QED
  BY <1>2, <1>3

(* updateAgentConfig: the edit goes on from the live row, so a paused      *)
(* agent gets a draft that is off, unless its author turns it on.          *)
LEMMA UpdateStep ==
  ASSUME VersionInv, NEW a \in Agents, NEW by \in Actor, NEW patch,
         Merged(patch, agent[a].live) \in Config,
         "enabled" \notin DOMAIN patch =>
           Merged(patch, agent[a].live).enabled = agent[a].live.enabled,
         "prompt" \notin DOMAIN patch =>
           Merged(patch, agent[a].live).prompt = agent[a].live.prompt,
         NEW cut \in BOOLEAN, UpdateAgentConfig(a, patch, by, cut)
  PROVE  VersionInv'
<1> DEFINE c == Merged(patch, agent[a].live)
           speaks == "enabled" \in DOMAIN patch
           pause == speaks /\ ~c.enabled /\ ~cut
           n == Len(versions[a]) + 1
           w == Draft(c, by, speaks /\ c.enabled)
           s == Superseded(a)
           e == agent[a].live.enabled /\ ~pause
           g == [agent[a] EXCEPT !.draft = n, !.live.enabled = e]
<1>1. /\ Exists(a) /\ Len(versions[a]) < MaxVersions /\ MayCrash(cut) /\ Cut(cut)
      /\ versions' = [versions EXCEPT ![a] = Append(s, w)]
      /\ agent' = [agent EXCEPT ![a].draft = n, ![a].live.enabled = @ /\ ~pause]
      /\ paused' = IF pause THEN paused \cup {a} ELSE paused
      /\ known' = IF by = "human" /\ "prompt" \in DOMAIN patch
                  THEN known \cup {c.prompt} ELSE known
      /\ UNCHANGED diffs
  BY DEF UpdateAgentConfig, Edited
<1>2. Facts(a) /\ Typed
  BY DEF VersionInv, Facts
<1>3. /\ c \in Config /\ c.enabled \in BOOLEAN /\ c.prompt \in Prompts
      /\ speaks \in BOOLEAN /\ pause \in BOOLEAN
  BY DEF Config
<1>4. agent[a] \in Agent /\ Len(versions[a]) \in Nat /\ n \in 0..MaxVersions /\ n # 0
  BY <1>1, <1>2, RowTypes, BoundAssumption
<1>5. e \in BOOLEAN
  BY <1>3, <1>4, AgentRow
<1>6. agent' = [agent EXCEPT ![a] = g] /\ agent'[a] = g
  BY <1>1, <1>2 DEF Typed
<1>7. /\ g \in Agent /\ g.is = agent[a].is /\ g.published = agent[a].published /\ g.draft = n
      /\ g.live.prompt = agent[a].live.prompt /\ g.live.enabled = e
  BY <1>4, <1>5, AgentRow DEF Agent, Config
<1>8. /\ w \in Version /\ w.status = "draft" /\ w.config = c /\ w.by = by
      /\ ~w.published /\ w.resumes = (speaks /\ c.enabled)
  BY <1>3, DraftType
<1>9. /\ s \in Seq(Version) /\ Len(s) = Len(versions[a])
      /\ \A v \in DOMAIN versions[a] :
           /\ s[v].status = "published" <=> versions[a][v].status = "published"
           /\ s[v].config = versions[a][v].config /\ s[v].by = versions[a][v].by
           /\ s[v].published = versions[a][v].published
           /\ s[v].resumes = versions[a][v].resumes
  BY <1>2, SupersededList DEF Facts
<1> HIDE DEF w, s, g
<1>10. /\ versions'[a] = Append(s, w) /\ versions'[a] \in Seq(Version)
       /\ Len(versions'[a]) = n /\ DOMAIN versions'[a] = 1..n /\ versions'[a][n] = w
       /\ DOMAIN versions[a] = 1..Len(versions[a])
       /\ \A v \in DOMAIN versions[a] : v \in DOMAIN versions'[a] /\ versions'[a][v] = s[v]
       /\ \A v \in DOMAIN versions'[a] : v \in DOMAIN versions[a] \/ v = n
  <2>1. versions'[a] = Append(s, w)
    BY <1>1, <1>2 DEF Typed
  <2>2. versions[a] \in Seq(Version)
    BY <1>2 DEF Typed
  <2> QED
    BY <2>1, <2>2, <1>8, <1>9
<1>11. crashes' \in 0..MaxCrashes
  BY <1>1, <1>2, BoundAssumption DEF Typed, Cut, MayCrash
<1>12. Typed'
  BY <1>1, <1>2, <1>3, <1>6, <1>7, <1>10, <1>11 DEF Typed
<1>13. OnlyOf(a)
  BY <1>1, <1>2, <1>6 DEF OnlyOf, Typed
<1>14. Pointers(a)'
  <2>1. agent[a].published \in DOMAIN versions[a]
    BY <1>1, <1>2 DEF Facts, Pointers
  <2>2. agent[a].published \in Nat /\ agent[a].published # n
    BY <2>1, <1>4, <1>10
  <2>3. /\ Len(versions'[a]) <= MaxVersions /\ g.is = "there"
        /\ g.published \in DOMAIN versions'[a] /\ g.draft \in DOMAIN versions'[a]
    BY <1>1, <1>4, <1>7, <1>10, <2>1 DEF Exists
  <2>4. ASSUME NEW v \in DOMAIN versions'[a]
        PROVE  /\ versions'[a][v].status = "published" <=> g.published = v
               /\ versions'[a][v].status = "published" => versions'[a][v].published
    <3>1. CASE v = n
      BY <1>7, <1>8, <1>10, <2>2, <3>1
    <3>2. CASE v \in DOMAIN versions[a]
      BY <1>2, <1>7, <1>9, <1>10, <3>2 DEF Facts, Pointers
    <3> QED
      BY <1>10, <3>1, <3>2
  <2> QED
    BY <1>6, <2>3, <2>4 DEF Pointers, Exists
<1>15. Instructions(a)'
  <2>1. agent[a].live.prompt \in known /\ known \subseteq known'
    BY <1>1, <1>2 DEF Facts, Instructions
  <2>2. ASSUME NEW v \in Nat, <<a, v>> \in diffs'
        PROVE  v \in DOMAIN versions'[a]
    BY <1>1, <1>2, <1>10, <2>2 DEF Facts, Instructions
  <2>3. <<a, n>> \notin diffs
    BY <1>2, <1>4, <1>10 DEF Facts, Instructions
  <2>4. by = "human" => c.prompt \in known'
    BY <1>1, <2>1
  <2>5. ASSUME NEW v \in DOMAIN versions'[a],
               \/ versions'[a][v].by = "human" \/ versions'[a][v].published
               \/ <<a, v>> \in diffs'
        PROVE  versions'[a][v].config.prompt \in known'
    <3>1. CASE v = n
      BY <1>1, <1>8, <1>10, <2>3, <2>4, <2>5, <3>1
    <3>2. CASE v \in DOMAIN versions[a]
      BY <1>1, <1>2, <1>9, <1>10, <2>1, <2>5, <3>2 DEF Facts, Instructions
    <3> QED
      BY <1>10, <3>1, <3>2
  <2> QED
    BY <1>6, <1>7, <2>1, <2>2, <2>5 DEF Instructions, Exists
<1>16. Resting(a)'
  <2> SUFFICES ASSUME a \in paused'
               PROVE  ~e /\ (w.config.enabled => w.resumes)
    BY <1>4, <1>6, <1>7, <1>10 DEF Resting
  <2>1. a \in paused \/ pause
    BY <1>1
  <2>2. ~e
    BY <1>2, <2>1 DEF Facts, Resting
  <2>3. ~speaks => c.enabled = agent[a].live.enabled
    OBVIOUS
  <2>4. ~speaks /\ a \in paused => ~c.enabled
    BY <1>2, <2>3 DEF Facts, Resting
  <2> QED
    BY <1>3, <1>8, <2>1, <2>2, <2>4
<1> QED
  BY <1>12, <1>13, <1>14, <1>15, <1>16, OthersKept DEF Facts

(* What has an element at each position of a list is a list as long.       *)
LEMMA ListOf ==
  ASSUME NEW S, NEW q \in Seq(S), NEW r \in [DOMAIN q -> S]
  PROVE  r \in Seq(S) /\ Len(r) = Len(q)
<1>1. DOMAIN q = 1..Len(q) /\ Len(q) \in Nat
  OBVIOUS
<1>2. r \in [1..Len(q) -> S]
  BY <1>1
<1>3. r \in Seq(S)
  BY <1>1, <1>2
<1> QED
  BY <1>1, <1>2, <1>3

(* publishAgentVersion, of any version of a list that says what the        *)
(* versions said: the live row is a copy of the one that is published.     *)
LEMMA PublishedList ==
  ASSUME Typed, NEW a \in Agents, NEW list \in Seq(Version), NEW v \in DOMAIN list,
         Published(a, list, v)
  PROVE  LET g == agent'[a]
             s == versions'[a]
         IN
         /\ agent' = [agent EXCEPT ![a] = g] /\ (v \in 0..MaxVersions => g \in Agent)
         /\ versions' = [versions EXCEPT ![a] = s]
         /\ g.is = agent[a].is /\ g.live = list[v].config /\ g.published = v
         /\ g.draft = IF agent[a].draft = v THEN 0 ELSE agent[a].draft
         /\ s \in Seq(Version) /\ Len(s) = Len(list) /\ DOMAIN s = DOMAIN list
         /\ s[v].published
         /\ \A n \in DOMAIN list :
              /\ s[n].status = "published" <=> n = v
              /\ s[n].config = list[n].config /\ s[n].by = list[n].by
              /\ n # v => s[n].published = list[n].published
              /\ s[n].resumes = list[n].resumes
<1> DEFINE g == [agent[a] EXCEPT !.live = list[v].config, !.published = v,
                                 !.draft = IF @ = v THEN 0 ELSE @]
           r == Retired(list, v)
           s == [r EXCEPT ![v].status = "published", ![v].published = TRUE]
<1>1. agent' = [agent EXCEPT ![a] = g] /\ versions' = [versions EXCEPT ![a] = s]
  BY DEF Published, Typed
<1>2. agent'[a] = g /\ versions'[a] = s
  BY <1>1 DEF Typed
<1>3. agent[a] \in Agent /\ list[v] \in Version /\ list[v].config \in Config
  <2>1. agent[a] \in Agent /\ list[v] \in Version
    BY DEF Typed
  <2> QED
    BY <2>1 DEF Version
<1>4. v \in 0..MaxVersions => g \in Agent
  BY <1>3, AgentRow
<1>5. /\ g.is = agent[a].is /\ g.live = list[v].config /\ g.published = v
      /\ g.draft = IF agent[a].draft = v THEN 0 ELSE agent[a].draft
  BY <1>3 DEF Agent
<1>6. \A n \in DOMAIN list : n # v =>
        /\ r[n] \in Version /\ r[n].status # "published"
        /\ r[n].config = list[n].config /\ r[n].by = list[n].by
        /\ r[n].published = list[n].published /\ r[n].resumes = list[n].resumes
  <2> SUFFICES ASSUME NEW n \in DOMAIN list, n # v
               PROVE  /\ r[n] \in Version /\ r[n].status # "published"
                      /\ r[n].config = list[n].config /\ r[n].by = list[n].by
                      /\ r[n].published = list[n].published /\ r[n].resumes = list[n].resumes
    OBVIOUS
  <2>1. list[n] \in Version
    OBVIOUS
  <2>2. r[n] = IF list[n].status = "published" THEN [list[n] EXCEPT !.status = "retired"]
                                               ELSE list[n]
    BY DEF Retired
  <2> QED
    BY <2>1, <2>2, RetiredVersion
<1>7. r[v] = list[v] /\ DOMAIN r = DOMAIN list
  BY DEF Retired
<1> DEFINE w == [list[v] EXCEPT !.status = "published", !.published = TRUE]
<1>8. s[v] = w /\ DOMAIN s = DOMAIN list /\ \A n \in DOMAIN list : n # v => s[n] = r[n]
  BY <1>7 DEF Retired
<1>9. /\ w \in Version /\ w.status = "published" /\ w.published
      /\ w.config = list[v].config /\ w.by = list[v].by /\ w.resumes = list[v].resumes
  BY <1>3, PublishedRecord
<1>10. s = [n \in DOMAIN list |-> IF n = v THEN w ELSE r[n]]
  BY DEF Retired
<1> HIDE DEF w, r, s, g
<1>11. s \in Seq(Version) /\ Len(s) = Len(list)
  <2>1. \A n \in DOMAIN list : s[n] \in Version
    BY <1>6, <1>8, <1>9
  <2>2. s \in [DOMAIN list -> Version]
    BY <2>1, <1>8, <1>10
  <2> QED
    BY <2>2, ListOf
<1>12. ASSUME NEW n \in DOMAIN list
       PROVE  /\ s[n].status = "published" <=> n = v
              /\ s[n].config = list[n].config /\ s[n].by = list[n].by
              /\ n # v => s[n].published = list[n].published
              /\ s[n].resumes = list[n].resumes
  BY <1>6, <1>8, <1>9
<1>13. agent' = [agent EXCEPT ![a] = agent'[a]] /\ versions' = [versions EXCEPT ![a] = versions'[a]]
  BY <1>1, <1>2, Zenon
<1>14. \A n \in DOMAIN list :
         /\ s[n].status = "published" <=> n = v
         /\ s[n].config = list[n].config /\ s[n].by = list[n].by
         /\ n # v => s[n].published = list[n].published
         /\ s[n].resumes = list[n].resumes
  BY <1>12, Zenon
<1>15. s[v].published
  BY <1>8, <1>9
<1> QED
  BY <1>2, <1>4, <1>5, <1>8, <1>11, <1>13, <1>14, <1>15, Zenon

(* A version on a list whose author, or whose difference, was read: the    *)
(* instructions in force after the transaction were.                       *)
LEMMA PublishedKeeps ==
  ASSUME VersionInv, NEW a \in Agents, Exists(a), NEW list \in Seq(Version),
         Len(list) <= MaxVersions, Len(versions[a]) <= Len(list),
         \A n \in DOMAIN list :
           \/ list[n].by = "human" \/ list[n].published \/ <<a, n>> \in diffs
           => list[n].config.prompt \in known,
         NEW v \in DOMAIN list, list[v].config.prompt \in known,
         Published(a, list, v), UNCHANGED <<diffs, known>>, crashes' \in 0..MaxCrashes,
         paused' \subseteq paused, \A b \in Agents \ {a} : b \in paused' <=> b \in paused
  PROVE  Typed' /\ OnlyOf(a) /\ Pointers(a)' /\ Instructions(a)'
<1>1. Facts(a) /\ Typed
  BY DEF VersionInv, Facts
<1> DEFINE g == agent'[a]
           s == versions'[a]
<1>2. /\ agent' = [agent EXCEPT ![a] = g] /\ (v \in 0..MaxVersions => g \in Agent)
      /\ versions' = [versions EXCEPT ![a] = s]
      /\ g.is = agent[a].is /\ g.live = list[v].config /\ g.published = v
      /\ g.draft = IF agent[a].draft = v THEN 0 ELSE agent[a].draft
      /\ s \in Seq(Version) /\ Len(s) = Len(list) /\ DOMAIN s = DOMAIN list
      /\ s[v].published
      /\ \A n \in DOMAIN list :
           /\ s[n].status = "published" <=> n = v
           /\ s[n].config = list[n].config /\ s[n].by = list[n].by
           /\ n # v => s[n].published = list[n].published
           /\ s[n].resumes = list[n].resumes
  BY <1>1, PublishedList
<1>3. /\ DOMAIN list = 1..Len(list) /\ Len(list) \in Nat
      /\ DOMAIN versions[a] = 1..Len(versions[a]) /\ Len(versions[a]) \in Nat
  BY <1>1, RowTypes
<1>4. v \in 0..MaxVersions /\ DOMAIN versions[a] \subseteq DOMAIN list
  BY <1>3, BoundAssumption
<1> HIDE DEF g, s
<1>5. Typed'
  BY <1>1, <1>2, <1>4 DEF Typed
<1>6. OnlyOf(a)
  BY <1>1, <1>2 DEF OnlyOf, Typed
<1>7. agent'[a] = g /\ versions'[a] = s
  BY DEF g, s
<1>8. Pointers(a)'
  <2>1. agent[a].draft # 0 => agent[a].draft \in DOMAIN versions[a]
    BY <1>1 DEF Facts, Pointers
  <2>2. g.draft # 0 => g.draft \in DOMAIN s
    BY <1>2, <1>4, <2>1
  <2>3. g.is = "there"
    BY <1>2 DEF Exists
  <2>4. \A n \in DOMAIN s : /\ s[n].status = "published" <=> g.published = n
                            /\ s[n].status = "published" => s[n].published
    BY <1>2
  <2>5. Len(s) <= MaxVersions /\ g.published \in DOMAIN s
    BY <1>2
  <2> QED
    BY <1>7, <2>2, <2>3, <2>4, <2>5 DEF Pointers, Exists
<1>9. Instructions(a)'
  <2>1. \A n \in Nat : <<a, n>> \in diffs' => n \in DOMAIN s
    BY <1>1, <1>2, <1>4 DEF Facts, Instructions
  <2>2. ASSUME NEW n \in DOMAIN s, s[n].by = "human" \/ s[n].published \/ <<a, n>> \in diffs'
        PROVE  s[n].config.prompt \in known'
    BY <1>2, <2>2
  <2> QED
    BY <1>2, <1>7, <2>1, <2>2 DEF Instructions
<1> QED
  BY <1>5, <1>6, <1>8, <1>9

(* publishAgentVersion: the version on the card, read when it is not a     *)
(* person's own.                                                           *)
LEMMA PublishStep ==
  ASSUME VersionInv, NEW a \in Agents, NEW v \in DOMAIN versions[a], NEW read \in BOOLEAN,
         PublishAgentConfigVersion(a, v, read)
  PROVE  VersionInv'
<1> USE DEF PublishAgentConfigVersion
<1>1. Facts(a) /\ Typed /\ versions[a] \in Seq(Version) /\ v \in Nat
  BY RowTypes DEF VersionInv, Facts
<1>2. /\ Exists(a) /\ agent[a].draft = v /\ Published(a, versions[a], v)
      /\ paused' = (IF versions[a][v].resumes THEN paused \ {a} ELSE paused)
      /\ UNCHANGED <<diffs, known, crashes>>
      /\ versions[a][v].by = "human" \/ <<a, v>> \in diffs
  BY DEF Reviewed
<1> HIDE DEF PublishAgentConfigVersion
<1>3. versions[a][v].config.prompt \in known
  BY <1>1, <1>2 DEF Facts, Instructions
<1>4. Len(versions[a]) <= MaxVersions
  BY <1>1 DEF Facts, Pointers
<1>5. \A n \in DOMAIN versions[a] :
        \/ versions[a][n].by = "human" \/ versions[a][n].published \/ <<a, n>> \in diffs
        => versions[a][n].config.prompt \in known
  BY <1>1 DEF Facts, Instructions
<1>6. Typed' /\ OnlyOf(a) /\ Pointers(a)' /\ Instructions(a)'
  <2>1. crashes' \in 0..MaxCrashes /\ Len(versions[a]) \in Nat
    BY <1>1, <1>2, RowTypes DEF Typed
  <2>2. paused' \subseteq paused /\ \A b \in Agents \ {a} : b \in paused' <=> b \in paused
    BY <1>2
  <2>3. Exists(a) /\ Published(a, versions[a], v) /\ UNCHANGED <<diffs, known>>
    BY <1>2
  <2>4. versions[a] \in Seq(Version) /\ Len(versions[a]) <= Len(versions[a])
    BY <1>1, <2>1
  <2> QED
    BY <1>3, <1>4, <1>5, <2>1, <2>2, <2>3, <2>4, PublishedKeeps
<1>7. Resting(a)'
  <2>1. agent'[a].live = versions[a][v].config /\ agent'[a].draft = 0
    BY <1>1, <1>2, PublishedList
  <2>2. v # 0
    BY <1>1, RowTypes
  <2>3. a \in paused' => ~versions[a][v].config.enabled
    BY <1>1, <1>2, <2>2 DEF Facts, Resting
  <2> QED
    BY <2>1, <2>3 DEF Resting
<1> QED
  BY <1>6, <1>7, OthersKept DEF Facts

(* rollbackAgentConfig: a copy of a version that was in force, published,  *)
(* or left off the card by a crash.                                        *)
LEMMA RollbackStep ==
  ASSUME VersionInv, NEW a \in Agents, NEW v \in DOMAIN versions[a], NEW cut \in BOOLEAN,
         RollbackAgentConfig(a, v, cut)
  PROVE  VersionInv'
<1> DEFINE w == Draft(versions[a][v].config, "human", FALSE)
           n == Len(versions[a]) + 1
           list == Append(versions[a], w)
<1>1. Facts(a) /\ Typed /\ versions[a] \in Seq(Version) /\ v \in Nat
  BY RowTypes DEF VersionInv, Facts
<1>2. /\ Exists(a) /\ versions[a][v].published /\ Len(versions[a]) < MaxVersions
      /\ MayCrash(cut) /\ Cut(cut) /\ UNCHANGED <<diffs, known>>
      /\ IF cut THEN versions' = [versions EXCEPT ![a] = list] /\ UNCHANGED <<agent, paused>>
                ELSE Published(a, list, Len(list)) /\ paused' = paused \ {a}
  BY DEF RollbackAgentConfig
<1>3. versions[a][v].config \in Config
  BY <1>1, RowTypes
<1>4. /\ w \in Version /\ w.status = "draft" /\ w.config = versions[a][v].config
      /\ w.by = "human" /\ ~w.published
  BY <1>3, DraftType DEF Actor
<1> HIDE DEF w
<1>5. /\ list \in Seq(Version) /\ Len(list) = n /\ n \in Nat /\ n # 0 /\ list[n] = w
      /\ DOMAIN list = 1..n /\ DOMAIN versions[a] = 1..Len(versions[a])
      /\ \A m \in DOMAIN versions[a] : m \in DOMAIN list /\ list[m] = versions[a][m]
      /\ \A m \in DOMAIN list : m \in DOMAIN versions[a] \/ m = n
      /\ Len(list) <= MaxVersions /\ Len(versions[a]) <= Len(list) /\ n \notin DOMAIN versions[a]
  BY <1>1, <1>2, <1>4, BoundAssumption
<1>6. w.config.prompt \in known
  BY <1>1, <1>2, <1>4 DEF Facts, Instructions
<1>7. crashes' \in 0..MaxCrashes
  BY <1>1, <1>2, BoundAssumption DEF Typed, Cut, MayCrash
<1> HIDE DEF list, n
<1>8. \A m \in DOMAIN list :
        list[m].by = "human" \/ list[m].published \/ <<a, m>> \in diffs
        => list[m].config.prompt \in known
  <2> TAKE m \in DOMAIN list
  <2>1. CASE m = n
    BY <1>5, <1>6, <2>1
  <2>2. CASE m \in DOMAIN versions[a]
    BY <1>1, <1>5, <2>2 DEF Facts, Instructions
  <2> QED
    BY <1>5, <2>1, <2>2
<1>9. CASE ~cut
  <2>1. Published(a, list, n) /\ paused' = paused \ {a} /\ n \in DOMAIN list
    BY <1>2, <1>5, <1>9
  <2>2. Typed' /\ OnlyOf(a) /\ Pointers(a)' /\ Instructions(a)'
    BY <1>2, <1>5, <1>6, <1>7, <1>8, <2>1, PublishedKeeps
  <2>3. Resting(a)'
    BY <2>1 DEF Resting
  <2> QED
    BY <2>2, <2>3, OthersKept DEF Facts
<1>10. CASE cut
  <2>1. versions' = [versions EXCEPT ![a] = list] /\ UNCHANGED <<agent, paused>>
    BY <1>2, <1>10
  <2>2. versions'[a] = list
    BY <1>1, <2>1 DEF Typed
  <2>3. Typed'
    BY <1>1, <1>2, <1>5, <1>7, <2>1 DEF Typed
  <2>4. OnlyOf(a)
    BY <1>1, <1>2, <2>1 DEF OnlyOf, Typed
  <2>5. Pointers(a)'
    <3>1. agent[a].published \in DOMAIN versions[a]
      BY <1>1, <1>2 DEF Facts, Pointers
    <3>2. \A m \in DOMAIN list :
            /\ list[m].status = "published" <=> agent[a].published = m
            /\ list[m].status = "published" => list[m].published
      <4> TAKE m \in DOMAIN list
      <4>1. CASE m = n
        BY <1>4, <1>5, <3>1, <4>1
      <4>2. CASE m \in DOMAIN versions[a]
        BY <1>1, <1>5, <4>2 DEF Facts, Pointers
      <4> QED
        BY <1>5, <4>1, <4>2
    <3> QED
      BY <1>1, <1>2, <1>5, <2>1, <2>2, <3>1, <3>2 DEF Facts, Pointers, Exists
  <2>6. Instructions(a)'
    BY <1>1, <1>2, <1>5, <1>8, <2>1, <2>2 DEF Facts, Instructions, Exists
  <2>7. Resting(a)'
    <3>1. agent[a].draft # 0 => list[agent[a].draft] = versions[a][agent[a].draft]
      BY <1>1, <1>5 DEF Facts, Pointers
    <3> QED
      BY <1>1, <2>1, <2>2, <3>1 DEF Facts, Resting
  <2> QED
    BY <2>3, <2>4, <2>5, <2>6, <2>7, OthersKept DEF Facts
<1> QED
  BY <1>9, <1>10

(* discardAgentDraft, with or without the statement that clears the card.  *)
LEMMA DiscardStep ==
  ASSUME VersionInv, NEW a \in Agents, NEW v \in DOMAIN versions[a], NEW cut \in BOOLEAN,
         DiscardAgentDraft(a, v, cut)
  PROVE  VersionInv'
<1> DEFINE w == [versions[a][v] EXCEPT !.status = "retired"]
           s == [versions[a] EXCEPT ![v] = w]
           n == IF agent[a].draft = v /\ ~cut THEN 0 ELSE agent[a].draft
           g == [agent[a] EXCEPT !.draft = n]
<1>1. Facts(a) /\ Typed /\ agent[a] \in Agent /\ versions[a] \in Seq(Version) /\ v \in Nat
  BY RowTypes DEF VersionInv, Facts
<1>2. /\ Exists(a) /\ versions[a][v].status = "draft" /\ MayCrash(cut) /\ Cut(cut)
      /\ versions' = [versions EXCEPT ![a] = s] /\ agent' = [agent EXCEPT ![a] = g]
      /\ UNCHANGED <<diffs, known, paused>>
  BY <1>1 DEF DiscardAgentDraft, Typed
<1>3. versions[a][v] \in Version
  BY <1>1
<1>4. /\ w \in Version /\ w.status = "retired" /\ w.config = versions[a][v].config
      /\ w.by = versions[a][v].by /\ w.published = versions[a][v].published
      /\ w.resumes = versions[a][v].resumes
  BY <1>3, RetiredVersion
<1>5. n \in 0..MaxVersions /\ (n # 0 => n = agent[a].draft)
  <2>1. agent[a].draft \in 0..MaxVersions
    BY <1>1 DEF Agent
  <2> QED
    BY <2>1, BoundAssumption
<1>6. /\ g \in Agent /\ g.is = agent[a].is /\ g.live = agent[a].live
      /\ g.published = agent[a].published /\ g.draft = n
  BY <1>1, <1>5, AgentRow DEF Agent
<1> HIDE DEF w, n
<1>7. /\ s \in Seq(Version) /\ Len(s) = Len(versions[a]) /\ DOMAIN s = DOMAIN versions[a]
      /\ s[v] = w /\ \A m \in DOMAIN versions[a] : m # v => s[m] = versions[a][m]
  BY <1>1, <1>4
<1> HIDE DEF s, g
<1>8. agent'[a] = g /\ versions'[a] = s
  BY <1>1, <1>2 DEF Typed
<1>9. Typed'
  <2>1. crashes' \in 0..MaxCrashes
    BY <1>1, <1>2, BoundAssumption DEF Typed, Cut, MayCrash
  <2> QED
    BY <1>1, <1>2, <1>6, <1>7, <2>1 DEF Typed
<1>10. OnlyOf(a)
  BY <1>1, <1>2 DEF OnlyOf, Typed
<1>11. \A m \in DOMAIN s :
         /\ s[m].status = "published" <=> versions[a][m].status = "published"
         /\ s[m].config = versions[a][m].config /\ s[m].by = versions[a][m].by
         /\ s[m].published = versions[a][m].published
         /\ s[m].resumes = versions[a][m].resumes
  BY <1>2, <1>4, <1>7
<1>12. Pointers(a)'
  <2>1. /\ Len(s) <= MaxVersions /\ g.is = "there" /\ g.published \in DOMAIN s
        /\ g.draft # 0 => g.draft \in DOMAIN s
    BY <1>1, <1>2, <1>5, <1>6, <1>7 DEF Facts, Pointers, Exists
  <2>2. \A m \in DOMAIN s : /\ s[m].status = "published" <=> g.published = m
                            /\ s[m].status = "published" => s[m].published
    BY <1>1, <1>6, <1>7, <1>11 DEF Facts, Pointers
  <2> QED
    BY <1>8, <2>1, <2>2 DEF Pointers, Exists
<1>13. Instructions(a)'
  BY <1>1, <1>2, <1>6, <1>7, <1>8, <1>11 DEF Facts, Instructions, Exists
<1>14. Resting(a)'
  <2>1. n # 0 => n \in DOMAIN s
    BY <1>1, <1>5, <1>7 DEF Facts, Pointers
  <2> QED
    BY <1>1, <1>2, <1>5, <1>6, <1>8, <1>11, <2>1 DEF Facts, Resting
<1> QED
  BY <1>9, <1>10, <1>12, <1>13, <1>14, OthersKept DEF Facts

(* An agent goes with its versions and with what was shown of them.        *)
LEMMA DeleteStep ==
  ASSUME VersionInv, NEW a \in Agents, DeleteAgentConfig(a)
  PROVE  VersionInv'
<1> DEFINE g == [agent[a] EXCEPT !.is = "deleted", !.published = 0, !.draft = 0]
<1>1. Facts(a) /\ Typed /\ agent[a] \in Agent
  BY DEF VersionInv, Facts, Typed
<1>2. /\ agent' = [agent EXCEPT ![a] = g] /\ versions' = [versions EXCEPT ![a] = <<>>]
      /\ paused' = paused \ {a} /\ diffs' = {d \in diffs : d[1] # a}
      /\ UNCHANGED <<known, crashes>>
  BY DEF DeleteAgentConfig, Typed
<1>3. g \in Agent /\ g.is = "deleted" /\ g.draft = 0
  BY <1>1, AgentRow, BoundAssumption DEF Agent
<1> HIDE DEF g
<1>4. agent'[a] = g /\ versions'[a] = <<>> /\ a \notin paused'
  BY <1>1, <1>2 DEF Typed
<1>5. Typed'
  BY <1>1, <1>2, <1>3 DEF Typed
<1>6. OnlyOf(a)
  BY <1>1, <1>2 DEF OnlyOf, Typed
<1>7. Pointers(a)'
  <2>1. DOMAIN versions'[a] = {} /\ Len(versions'[a]) = 0
    BY <1>4
  <2> QED
    BY <1>3, <1>4, <2>1, BoundAssumption DEF Pointers, Exists
<1>8. Instructions(a)'
  <2>1. DOMAIN versions'[a] = {}
    BY <1>4
  <2>2. \A v \in Nat : <<a, v>> \notin diffs'
    BY <1>2
  <2> QED
    BY <1>3, <1>4, <2>1, <2>2 DEF Instructions, Exists
<1>9. Resting(a)'
  BY <1>4 DEF Resting
<1> QED
  BY <1>5, <1>6, <1>7, <1>8, <1>9, OthersKept DEF Facts

(* No agent is configured yet.                                             *)
LEMMA VersionInitHolds == VersionInit => VersionInv
<1> SUFFICES ASSUME VersionInit PROVE VersionInv
  OBVIOUS
<1>1. PICK c \in Created : agent = [a \in Agents |->
        [is |-> "none", live |-> c, published |-> 0, draft |-> 0]]
  BY DEF VersionInit
<1>2. /\ versions = [a \in Agents |-> <<>>]
      /\ diffs = {} /\ known = {} /\ paused = {} /\ crashes = 0
  BY DEF VersionInit
<1>3. Typed
  BY <1>1, <1>2, AgentAssumption, BoundAssumption DEF Typed, Agent
<1>4. \A a \in Agents : /\ agent[a].is = "none" /\ agent[a].draft = 0
                        /\ Len(versions[a]) = 0 /\ DOMAIN versions[a] = {} /\ versions[a] = <<>>
  BY <1>1, <1>2
<1> QED
  BY <1>2, <1>3, <1>4, BoundAssumption
  DEF VersionInv, Pointers, Instructions, Resting, Exists

(* Every request keeps the invariant.                                      *)
LEMMA VersionStep ==
  ASSUME VersionInv, VersionRequest
  PROVE  VersionInv'
<1>1. PICK a \in Agents :
        \/ AgentForm(a) \/ DeleteAgentConfig(a)
        \/ \E patch \in Edits["machine"], cut \in BOOLEAN : UpdateAgentConfig(a, patch, "machine", cut)
        \/ \E prompt \in Prompts : ProposeAgentPrompt(a, prompt, "machine")
        \/ \E v \in DOMAIN versions[a] :
             \/ ShowAgentPublishReview(a, v) \/ HandleAgentReviewAction(a, v)
             \/ PublishAgentConfigVersion(a, v, FALSE)
             \/ \E cut \in BOOLEAN : RollbackAgentConfig(a, v, cut)
  BY DEF VersionRequest
<1>2. agent[a].live \in Config
  BY RowTypes DEF VersionInv
<1>3. ASSUME NEW by \in Actor, NEW patch \in Edits[by], NEW cut \in BOOLEAN,
             UpdateAgentConfig(a, patch, by, cut)
      PROVE  VersionInv'
  BY <1>2, <1>3, MergedType, UpdateStep
<1>4. CASE AgentForm(a)
  BY <1>3, <1>4, InsertStep DEF AgentForm, Actor
<1>5. CASE DeleteAgentConfig(a)
  BY <1>5, DeleteStep
<1>6. CASE \E patch \in Edits["machine"], cut \in BOOLEAN : UpdateAgentConfig(a, patch, "machine", cut)
  BY <1>3, <1>6 DEF Actor
<1>7. ASSUME NEW prompt \in Prompts, ProposeAgentPrompt(a, prompt, "machine")
      PROVE  VersionInv'
  <2> DEFINE p == [prompt |-> prompt]
  <2>1. UpdateAgentConfig(a, p, "machine", FALSE)
    BY <1>7 DEF ProposeAgentPrompt
  <2>2. /\ Merged(p, agent[a].live) \in Config /\ DOMAIN p = {"prompt"}
        /\ Merged(p, agent[a].live).enabled = agent[a].live.enabled
    BY <1>2 DEF Merged, Said, Config
  <2> HIDE DEF p
  <2> QED
    BY <2>1, <2>2, UpdateStep DEF Actor
<1>8. ASSUME NEW v \in DOMAIN versions[a],
             \/ ShowAgentPublishReview(a, v) \/ HandleAgentReviewAction(a, v)
             \/ PublishAgentConfigVersion(a, v, FALSE)
             \/ \E cut \in BOOLEAN : RollbackAgentConfig(a, v, cut)
      PROVE  VersionInv'
  BY <1>8, ShowStep, PublishStep, DiscardStep, RollbackStep DEF HandleAgentReviewAction
<1> QED
  BY <1>1, <1>4, <1>5, <1>6, <1>7, <1>8

-----------------------------------------------------------------------------
(* The executions *)

RunInv ==
  /\ run \in [Runs -> Run]
  /\ \A r \in Runs : run[r].aborted => run[r].status = "failed"

(* The row of an execution: its columns, and what aborting it leaves.      *)
LEMMA RunRow ==
  ASSUME NEW row \in Run
  PROVE  /\ row.status \in {"none"} \cup Reported /\ row.owner \in Agents \cup {NoOne}
         /\ row.config \in Config /\ row.aborted \in BOOLEAN /\ row.late \in BOOLEAN
         /\ Aborted(row) \in Run
         /\ Aborted(row).status = "failed" /\ Aborted(row).aborted
         /\ Aborted(row).owner = row.owner /\ Aborted(row).config = row.config
BY DEF Run, Aborted, Reported

(* The configuration of no agent is one, since some execution has one.     *)
LEMMA NoConfigType ==
  ASSUME NEW row \in Run
  PROVE  NoConfig \in Config
BY RunRow DEF NoConfig

(* The published configuration of an agent is one.                         *)
LEMMA PublishedType ==
  ASSUME VersionInv, NEW a \in Agents, Exists(a)
  PROVE  PublishedVersion(a) \in Config
<1>1. agent[a].published \in DOMAIN versions[a]
  BY DEF VersionInv, Pointers
<1> QED
  BY <1>1, RowTypes DEF VersionInv, PublishedVersion

(* The sweep that comes before a report touches what outlasted its time.   *)
LEMMA SweptRows ==
  ASSUME RunInv, NEW who
  PROVE  /\ Swept(who) \in [Runs -> Run]
         /\ \A r \in Runs :
              /\ Swept(who)[r] = run[r] \/ (Overdue(r) /\ Swept(who)[r] = Aborted(run[r]))
              /\ who # NoOne /\ Overdue(r) => Swept(who)[r] = Aborted(run[r])
              /\ Swept(who)[r].aborted => Swept(who)[r].status = "failed"
<1>1. \A r \in Runs : run[r] \in Run /\ Aborted(run[r]) \in Run
                      /\ Aborted(run[r]).status = "failed"
  BY RunRow DEF RunInv
<1> QED
  BY <1>1 DEF RunInv, Swept

(* recordAgentRun: the sweep alone, or with the row that is accepted.      *)
LEMMA Recorded ==
  ASSUME VersionInv, RunInv, NEW r \in Runs, NEW a \in Agents \cup {NoOne},
         NEW status \in Reported, NEW over \in BOOLEAN, NEW late \in BOOLEAN,
         RecordAgentRun(r, a, status, over, late)
  PROVE  LET who == IF a # NoOne THEN a ELSE run[r].owner
             rows == Swept(who)
         IN
         /\ UNCHANGED versionVars
         /\ \/ run' = rows
            \/ /\ Reopens(rows[r], status)
               /\ \E row \in Run :
                    /\ run' = [rows EXCEPT ![r] = row]
                    /\ row.owner = who
                    /\ row.aborted => row.status = "failed"
                    /\ row.status = "running" => status = "running"
                    /\ run[r].owner # NoOne /\ run[r].owner = who => row.config = run[r].config
                    /\ who # NoOne /\ rows[r].status # "running" /\ status = "running"
                         => Room(rows, r, who, row.config)
<1> DEFINE old == run[r]
           who == IF a # NoOne THEN a ELSE old.owner
           rows == Swept(who)
           kept == old.owner # NoOne /\ old.owner = who
           config == IF kept THEN old.config
                     ELSE IF who # NoOne THEN PublishedVersion(who) ELSE NoConfig
           limited == who # NoOne
           starts == limited /\ rows[r].status # "running" /\ status = "running"
           accepted == /\ Reopens(rows[r], status)
                       /\ limited /\ ~kept => Exists(who)
                       /\ starts => Room(rows, r, who, config)
           young == /\ status = "running"
                    /\ IF old.status = "none" THEN late ELSE rows[r].late /\ kept
           new == [status |-> status, owner |-> who, config |-> config, aborted |-> FALSE,
                   late |-> young]
<1>1. /\ run' = CASE ~accepted -> rows
                  [] accepted /\ ~(limited /\ over) -> [rows EXCEPT ![r] = new]
                  [] accepted /\ limited /\ over -> [rows EXCEPT ![r] = Aborted(new)]
      /\ UNCHANGED versionVars
  BY Zenon DEF RecordAgentRun
<1>2. old \in Run /\ rows[r] \in Run
  BY SweptRows DEF RunInv
<1>3. old.owner \in Agents \cup {NoOne} /\ who \in Agents \cup {NoOne}
  BY <1>2, RunRow
<1>4. CASE ~accepted
  BY <1>1, <1>4
<1>5. CASE accepted
  <2>1. config \in Config
    <3>1. CASE kept
      BY <1>2, <3>1, RunRow
    <3>2. CASE ~kept /\ who # NoOne
      <4>1. Exists(who) /\ who \in Agents
        BY <1>3, <1>5, <3>2
      <4> QED
        BY <3>2, <4>1, PublishedType
    <3>3. CASE ~kept /\ who = NoOne
      BY <1>2, <3>3, NoConfigType
    <3> QED
      BY <3>1, <3>2, <3>3
  <2>2. young \in BOOLEAN
    BY <1>2, RunRow
  <2> HIDE DEF config, young, rows
  <2>3. /\ new \in Run /\ new.owner = who /\ ~new.aborted /\ new.status = status
        /\ new.config = config
    BY <1>3, <2>1, <2>2 DEF Run, Reported
  <2>4. /\ Aborted(new) \in Run /\ Aborted(new).owner = who
        /\ Aborted(new).status = "failed" /\ Aborted(new).config = config
    BY <2>3, RunRow
  <2>5. kept => config = old.config
    BY DEF config
  <2> HIDE DEF new
  <2>6. PICK row \in {new, Aborted(new)} : run' = [rows EXCEPT ![r] = row]
    BY <1>1, <1>5
  <2>7. /\ row \in Run /\ row.owner = who /\ row.config = config
        /\ row.aborted => row.status = "failed"
        /\ row.status = "running" => status = "running"
    BY <2>3, <2>4, <2>6
  <2> QED
    BY <1>1, <1>5, <2>5, <2>6, <2>7 DEF rows
<1> QED
  BY <1>4, <1>5

(* No run has started.                                                     *)
LEMMA RunInitHolds == Init => RunInv
<1> SUFFICES ASSUME Init PROVE RunInv
  OBVIOUS
<1>1. PICK c \in Created : TRUE
  BY DEF Init, VersionInit
<1>2. NoConfig \in Config
  BY <1>1, AgentAssumption DEF NoConfig
<1>3. NoRun \in Run /\ ~NoRun.aborted
  BY <1>2 DEF NoRun, Run
<1> QED
  BY <1>3 DEF Init, RunInv

(* Rows written one by one, over rows that are right.                      *)
LEMMA RowWritten ==
  ASSUME NEW rows \in [Runs -> Run], \A x \in Runs : rows[x].aborted => rows[x].status = "failed",
         NEW r \in Runs, NEW row \in Run, row.aborted => row.status = "failed",
         run' = [rows EXCEPT ![r] = row]
  PROVE  RunInv'
BY DEF RunInv

(* What each report of an execution does to its rows.                      *)
LEMMA ReportCases ==
  ASSUME Report
  PROVE  \/ \E r \in Runs, a \in Agents \cup {NoOne}, status \in Reported, over, late \in BOOLEAN :
              /\ run[r].status # "none" => a \in {NoOne, run[r].owner} \/ Reassigned
              /\ RecordAgentRun(r, a, status, over, late)
         \/ \E r \in Runs, a \in Agents \cup {NoOne}, status \in Reported :
              RecordCollection(r, a, status)
BY DEF Report, RecordAgentRunForAgent, AgentStatus

(* The collection of the connectors reports an execution that is over.     *)
LEMMA CollectionRow ==
  ASSUME VersionInv, RunInv, NEW r \in Runs, NEW a \in Agents \cup {NoOne}, NEW status \in Reported,
         RecordCollection(r, a, status)
  PROVE  /\ UNCHANGED versionVars /\ run[r].status = "none"
         /\ \E row \in Run : /\ run' = [run EXCEPT ![r] = row]
                             /\ ~row.aborted /\ row.status = status /\ status # "running"
<1> DEFINE config == IF a = NoOne THEN NoConfig ELSE PublishedVersion(a)
           row == [NoRun EXCEPT !.status = status, !.owner = a, !.config = config]
<1>1. /\ UNCHANGED versionVars /\ run[r].status = "none" /\ status # "running"
      /\ a # NoOne => Exists(a)
      /\ run' = [run EXCEPT ![r] = row]
  BY DEF RecordCollection
<1>2. run[r] \in Run
  BY DEF RunInv
<1>3. NoConfig \in Config /\ config \in Config
  BY <1>1, <1>2, NoConfigType, PublishedType
<1> HIDE DEF config
<1>4. row \in Run /\ ~row.aborted /\ row.status = status
  BY <1>3 DEF NoRun, Run
<1> QED
  BY <1>1, <1>4

(* Every step of the executions keeps their rows right.                    *)
LEMMA RunStep ==
  ASSUME VersionInv, RunInv, [Next]_vars
  PROVE  VersionInv' /\ RunInv'
<1>1. ASSUME UNCHANGED versionVars PROVE VersionInv'
  BY <1>1 DEF versionVars, VersionInv, Typed, Pointers, Instructions, Resting, Exists
<1>2. \A r \in Runs : run[r] \in Run /\ Aborted(run[r]) \in Run
                      /\ Aborted(run[r]).status = "failed"
  BY RunRow DEF RunInv
<1>3. CASE VersionRequest /\ UNCHANGED run
  BY <1>3, VersionStep DEF RunInv
<1>4. ASSUME NEW r \in Runs, NEW a \in Agents \cup {NoOne}, NEW status \in Reported,
             NEW over \in BOOLEAN, NEW late \in BOOLEAN, RecordAgentRun(r, a, status, over, late)
      PROVE  VersionInv' /\ RunInv'
  <2> DEFINE who == IF a # NoOne THEN a ELSE run[r].owner
             rows == Swept(who)
  <2>1. rows \in [Runs -> Run] /\ \A x \in Runs : rows[x].aborted => rows[x].status = "failed"
    BY SweptRows
  <2>2. /\ UNCHANGED versionVars
        /\ \/ run' = rows
           \/ \E row \in Run : run' = [rows EXCEPT ![r] = row] /\ (row.aborted => row.status = "failed")
    BY <1>4, Recorded
  <2> HIDE DEF rows
  <2>3. ASSUME run' = rows PROVE RunInv'
    BY <2>1, <2>3 DEF RunInv
  <2>4. ASSUME NEW row \in Run, run' = [rows EXCEPT ![r] = row], row.aborted => row.status = "failed"
        PROVE  RunInv'
    BY <2>1, <2>4, RowWritten
  <2> QED
    BY <1>1, <2>2, <2>3, <2>4
<1>5. ASSUME NEW r \in Runs, NEW a \in Agents \cup {NoOne}, NEW status \in Reported,
             RecordCollection(r, a, status)
      PROVE  VersionInv' /\ RunInv'
  <2>1. PICK row \in Run : run' = [run EXCEPT ![r] = row] /\ ~row.aborted
    BY <1>5, CollectionRow
  <2>2. UNCHANGED versionVars
    BY <1>5, CollectionRow
  <2> QED
    BY <1>1, <2>1, <2>2, RowWritten DEF RunInv
<1>6. CASE ExpireTimedOutAgentRuns
  <2>1. run' = [r \in Runs |-> IF Overdue(r) THEN Aborted(run[r]) ELSE run[r]]
    BY <1>6 DEF ExpireTimedOutAgentRuns
  <2> QED
    BY <1>1, <1>2, <1>6, <2>1 DEF ExpireTimedOutAgentRuns, RunInv
<1>7. ASSUME NEW r \in Runs, Outlast(r) PROVE VersionInv' /\ RunInv'
  <2> DEFINE row == [run[r] EXCEPT !.late = TRUE]
  <2>1. run' = [run EXCEPT ![r] = row]
    BY <1>7 DEF Outlast, RunInv
  <2>2. row \in Run /\ row.aborted = run[r].aborted /\ row.status = run[r].status
    BY <1>2 DEF Run
  <2> HIDE DEF row
  <2> QED
    BY <1>1, <1>7, <2>1, <2>2, RowWritten DEF RunInv, Outlast
<1>8. CASE UNCHANGED vars
  BY <1>1, <1>8 DEF vars, RunInv
<1>9. CASE Report
  BY <1>4, <1>5, <1>9, ReportCases
<1> QED
  BY <1>3, <1>6, <1>7, <1>8, <1>9 DEF Next

-----------------------------------------------------------------------------
(* The theorems of every state *)

(* What is known of the versions and of the runs always holds (the         *)
(* transactions of agents.ts, and the run each of them settles).           *)
THEOREM AgentsInvariant == Spec => [](VersionInv /\ RunInv)
<1>1. Init => VersionInv /\ RunInv
  BY VersionInitHolds, RunInitHolds DEF Init
<1>2. VersionInv /\ RunInv /\ [Next]_vars => (VersionInv /\ RunInv)'
  BY RunStep
<1> QED
  BY <1>1, <1>2, PTL DEF Spec

(* The types of the variables, and the one published version of each agent *)
(* (publishAgentVersion).                                                  *)
THEOREM AgentsTypeCorrect == Spec => []TypeOK
<1>1. VersionInv /\ RunInv => TypeOK
  <2> SUFFICES ASSUME VersionInv, RunInv PROVE TypeOK
    OBVIOUS
  <2>1. OnePublished
    <3>1. \A a \in Agents : Pointers(a)
      BY DEF VersionInv
    <3> QED
      BY <3>1 DEF OnePublished, Pointers
  <2>2. \A a \in Agents : /\ Len(versions[a]) <= MaxVersions
                          /\ \A v \in DOMAIN versions[a] : versions[a][v] \in Version
    <3> TAKE a \in Agents
    <3>1. Pointers(a) /\ versions[a] \in Seq(Version)
      BY RowTypes DEF VersionInv
    <3> QED
      BY <3>1 DEF Pointers
  <2> QED
    BY <2>1, <2>2 DEF TypeOK, VersionInv, Typed, RunInv
<1> QED
  BY <1>1, AgentsInvariant, PTL

(* An agent never works under instructions nobody read (publishAgentVersion). *)
THEOREM InstructionsRead == Spec => []InstructionsWereRead
<1>1. VersionInv => InstructionsWereRead
  <2> SUFFICES ASSUME VersionInv, NEW a \in Agents, Exists(a)
               PROVE  agent[a].live.prompt \in known /\ PublishedVersion(a).prompt \in known
    BY DEF InstructionsWereRead
  <2>1. Pointers(a) /\ Instructions(a)
    BY DEF VersionInv
  <2>2. agent[a].published \in DOMAIN versions[a] /\ versions[a][agent[a].published].published
    BY <2>1 DEF Pointers
  <2> QED
    BY <2>1, <2>2 DEF Instructions, PublishedVersion
<1> QED
  BY <1>1, AgentsInvariant, PTL

(* A paused agent stays paused until somebody says otherwise.              *)
THEOREM PausesHold == Spec => []PauseHolds
<1>1. VersionInv => PauseHolds
  BY DEF VersionInv, PauseHolds, Resting, Typed
<1> QED
  BY <1>1, AgentsInvariant, PTL

-----------------------------------------------------------------------------
(* The concurrency *)

(***************************************************************************)
(* Of the executions an agent has running, the one that began last bounds  *)
(* them all; when it ends the one before it does.  So the invariant speaks *)
(* of every set of them, not only of the whole.                            *)
(***************************************************************************)
Bounded(S) == S # {} => \E r \in S : Cardinality(S) <= run[r].config.concurrency

RoomInv ==
  \A a \in Agents :
    /\ IsFiniteSet(Running(run, a))
    /\ \A S \in SUBSET Running(run, a) : Bounded(S)

(* Executions that end leave room.                                         *)
LEMMA RoomKept ==
  ASSUME RoomInv, NEW a \in Agents,
         \A r \in Running(run', a) : r \in Running(run, a) /\ run'[r].config = run[r].config
  PROVE  /\ IsFiniteSet(Running(run', a))
         /\ \A S \in SUBSET Running(run', a) : Bounded(S)'
<1>1. Running(run', a) \in SUBSET Running(run, a)
  OBVIOUS
<1>2. IsFiniteSet(Running(run', a))
  BY <1>1, FS_Subset DEF RoomInv
<1>3. ASSUME NEW S \in SUBSET Running(run', a), S # {}
      PROVE  \E r \in S : Cardinality(S) <= run'[r].config.concurrency
  <2>1. PICK r \in S : Cardinality(S) <= run[r].config.concurrency
    BY <1>1, <1>3 DEF RoomInv, Bounded
  <2> QED
    BY <2>1
<1> QED
  BY <1>2, <1>3 DEF Bounded

(* An execution begins where there is room for it.                         *)
LEMMA RoomTaken ==
  ASSUME RoomInv, NEW a \in Agents, NEW r \in Runs, NEW T, T \subseteq Running(run, a),
         run'[r].config.concurrency \in Nat, Cardinality(T \ {r}) < run'[r].config.concurrency,
         Running(run', a) \subseteq (T \ {r}) \cup {r},
         \A x \in T \ {r} : run'[x].config = run[x].config
  PROVE  /\ IsFiniteSet(Running(run', a))
         /\ \A S \in SUBSET Running(run', a) : Bounded(S)'
<1> DEFINE U == T \ {r}
<1>1. IsFiniteSet(U) /\ U \subseteq Running(run, a)
  BY FS_Subset DEF RoomInv
<1>2. IsFiniteSet(U \cup {r})
  BY <1>1, FS_AddElement
<1>3. IsFiniteSet(Running(run', a))
  BY <1>2, FS_Subset
<1>4. ASSUME NEW S \in SUBSET Running(run', a), S # {}
      PROVE  \E x \in S : Cardinality(S) <= run'[x].config.concurrency
  <2>1. CASE r \in S
    <3>1. IsFiniteSet(S) /\ Cardinality(S \ {r}) = Cardinality(S) - 1
      BY <1>3, <2>1, FS_Subset, FS_RemoveElement
    <3>2. S \ {r} \in SUBSET U
      OBVIOUS
    <3>3. IsFiniteSet(S \ {r}) /\ Cardinality(S \ {r}) <= Cardinality(U)
      BY <1>1, <3>2, FS_Subset
    <3>4. Cardinality(S) \in Nat /\ Cardinality(S \ {r}) \in Nat /\ Cardinality(U) \in Nat
      BY <1>1, <3>1, <3>3, FS_CardinalityType
    <3> QED
      BY <2>1, <3>1, <3>3, <3>4
  <2>2. CASE r \notin S
    <3>1. S \in SUBSET U /\ S \in SUBSET Running(run, a)
      BY <1>1, <2>2
    <3>2. PICK x \in S : Cardinality(S) <= run[x].config.concurrency
      BY <1>4, <3>1 DEF RoomInv, Bounded
    <3> QED
      BY <3>1, <3>2
  <2> QED
    BY <2>1, <2>2
<1> QED
  BY <1>3, <1>4 DEF Bounded

(* What the sweep leaves running was running.                              *)
LEMMA SweptRunning ==
  ASSUME RunInv, NEW who, NEW r \in Runs, Swept(who)[r].status = "running"
  PROVE  Swept(who)[r] = run[r]
BY SweptRows, RunRow DEF RunInv

(* Each step keeps the bound, when no event gives an execution away.       *)
LEMMA RoomStep ==
  ASSUME ~Reassigned, VersionInv, RunInv, RoomInv, [Next]_vars
  PROVE  RoomInv'
<1>0. RunInv'
  BY RunStep
<1>1. ASSUME NEW a \in Agents,
             \A r \in Runs : run'[r].status = "running" /\ run'[r].owner = a =>
               run[r].status = "running" /\ run[r].owner = a /\ run'[r].config = run[r].config
      PROVE  /\ IsFiniteSet(Running(run', a))
             /\ \A S \in SUBSET Running(run', a) : Bounded(S)'
  BY <1>1, RoomKept DEF Running
<1>2. SUFFICES ASSUME NEW a \in Agents
               PROVE  /\ IsFiniteSet(Running(run', a))
                      /\ \A S \in SUBSET Running(run', a) : Bounded(S)'
  BY DEF RoomInv, Running
<1>3. \A r \in Runs : run[r] \in Run /\ Aborted(run[r]).status = "failed"
  BY RunRow DEF RunInv
<1>4. CASE UNCHANGED run
  BY <1>1, <1>4
<1>5. ASSUME NEW r \in Runs, NEW b \in Agents \cup {NoOne}, NEW status \in Reported,
             NEW over \in BOOLEAN, NEW late \in BOOLEAN,
             run[r].status # "none" => b \in {NoOne, run[r].owner},
             RecordAgentRun(r, b, status, over, late)
      PROVE  /\ IsFiniteSet(Running(run', a))
             /\ \A S \in SUBSET Running(run', a) : Bounded(S)'
  <2> DEFINE who == IF b # NoOne THEN b ELSE run[r].owner
             rows == Swept(who)
  <2>1. rows \in [Runs -> Run]
    BY SweptRows
  <2>2. \A x \in Runs : rows[x].status = "running" => rows[x] = run[x]
    BY SweptRunning
  <2>3. run[r].status # "none" => who = run[r].owner
    BY <1>5
  <2>4. \/ run' = rows
        \/ /\ Reopens(rows[r], status)
           /\ \E row \in Run :
                /\ run' = [rows EXCEPT ![r] = row]
                /\ row.owner = who
                /\ row.aborted => row.status = "failed"
                /\ row.status = "running" => status = "running"
                /\ run[r].owner # NoOne /\ run[r].owner = who => row.config = run[r].config
                /\ who # NoOne /\ rows[r].status # "running" /\ status = "running"
                     => Room(rows, r, who, row.config)
    BY <1>5, Recorded
  <2> HIDE DEF rows
  <2>5. CASE run' = rows
    BY <1>1, <2>1, <2>2, <2>5
  <2>6. ASSUME NEW row \in Run, run' = [rows EXCEPT ![r] = row], row.owner = who,
               row.status = "running" => status = "running",
               run[r].owner # NoOne /\ run[r].owner = who => row.config = run[r].config,
               who # NoOne /\ rows[r].status # "running" /\ status = "running"
                 => Room(rows, r, who, row.config)
        PROVE  /\ IsFiniteSet(Running(run', a))
               /\ \A S \in SUBSET Running(run', a) : Bounded(S)'
    <3>1. run'[r] = row /\ \A x \in Runs \ {r} : run'[x] = rows[x]
      BY <2>1, <2>6
    <3>2. CASE ~(row.status = "running" /\ who = a)
      BY <1>1, <2>2, <2>6, <3>1, <3>2
    <3>3. CASE row.status = "running" /\ who = a /\ rows[r].status = "running"
      <4>1. a # NoOne
        BY RunAssumption
      <4>2. rows[r] = run[r] /\ who = run[r].owner
        BY <2>2, <2>3, <3>3
      <4>3. row.config = run[r].config /\ run[r].status = "running" /\ run[r].owner = a
        BY <2>6, <3>3, <4>1, <4>2
      <4>4. \A x \in Runs : run'[x].status = "running" /\ run'[x].owner = a =>
              run[x].status = "running" /\ run[x].owner = a /\ run'[x].config = run[x].config
        BY <2>2, <3>1, <4>3
      <4> QED
        BY <1>1, <4>4
    <3>4. CASE row.status = "running" /\ who = a /\ rows[r].status # "running"
      <4> DEFINE T == Running(rows, a)
      <4>1. a # NoOne /\ status = "running"
        BY <2>6, <3>4, RunAssumption
      <4>2. Cardinality(T \ {r}) < row.config.concurrency
        BY <2>6, <3>4, <4>1 DEF Room
      <4>3. row.config.concurrency \in Nat
        BY RunRow, LimitAssumption DEF Config
      <4>4. T \subseteq Running(run, a)
        BY <2>2 DEF Running
      <4>5. Running(run', a) \subseteq (T \ {r}) \cup {r}
        BY <3>1 DEF Running
      <4>6. \A x \in T \ {r} : run'[x].config = run[x].config
        BY <2>2, <3>1 DEF Running
      <4> QED
        BY <3>1, <4>2, <4>3, <4>4, <4>5, <4>6, RoomTaken
    <3> QED
      BY <3>2, <3>3, <3>4
  <2> QED
    BY <2>4, <2>5, <2>6
<1>6. ASSUME NEW r \in Runs, NEW b \in Agents \cup {NoOne}, NEW status \in Reported,
             RecordCollection(r, b, status)
      PROVE  /\ IsFiniteSet(Running(run', a))
             /\ \A S \in SUBSET Running(run', a) : Bounded(S)'
  <2>1. PICK row \in Run : run' = [run EXCEPT ![r] = row] /\ row.status # "running"
    BY <1>6, CollectionRow
  <2>2. run'[r] = row /\ \A x \in Runs \ {r} : run'[x] = run[x]
    BY <2>1 DEF RunInv
  <2> QED
    BY <1>1, <2>1, <2>2
<1>7. CASE ExpireTimedOutAgentRuns
  BY <1>1, <1>3, <1>7 DEF ExpireTimedOutAgentRuns
<1>8. ASSUME NEW r \in Runs, Outlast(r)
      PROVE  /\ IsFiniteSet(Running(run', a))
             /\ \A S \in SUBSET Running(run', a) : Bounded(S)'
  <2>1. /\ \A x \in Runs \ {r} : run'[x] = run[x]
        /\ run'[r].status = run[r].status /\ run'[r].owner = run[r].owner
        /\ run'[r].config = run[r].config
    BY <1>3, <1>8 DEF Outlast, RunInv, Run
  <2> QED
    BY <1>1, <2>1
<1>9. CASE Report
  BY <1>5, <1>6, <1>9, ReportCases
<1> QED
  BY <1>4, <1>7, <1>8, <1>9 DEF Next, vars

(* The executions an agent has running never exceed the concurrency the    *)
(* last of them to start began with, when no event names an agent that is  *)
(* not the execution's (recordAgentRun).                                   *)
THEOREM ConcurrencyHolds ==
  ASSUME ~Reassigned
  PROVE  Spec => []ConcurrencyRespected
<1>1. Init => RoomInv
  <2> SUFFICES ASSUME Init PROVE RoomInv
    OBVIOUS
  <2>1. \A a \in Agents : Running(run, a) = {}
    BY DEF Init, Running, NoRun
  <2> QED
    BY <2>1, FS_EmptySet DEF RoomInv, Bounded
<1>2. VersionInv /\ RunInv /\ RoomInv /\ [Next]_vars => RoomInv'
  BY RoomStep
<1>3. RoomInv => ConcurrencyRespected
  BY DEF RoomInv, Bounded, ConcurrencyRespected
<1> QED
  BY <1>1, <1>2, <1>3, AgentsInvariant, PTL DEF Spec

(* An execution that outlasted its limit never ends as a success.          *)
THEOREM LateAnswersFail == Spec => LateNeverSucceeds
<1>1. ASSUME VersionInv, RunInv, [Next]_vars, NEW x \in Runs, Overdue(x) \/ run[x].aborted
      PROVE  run'[x].status # "completed"
  <2>1. run[x].status \in {"running", "failed"}
    BY <1>1 DEF Overdue, RunInv
  <2>2. \A r \in Runs : run[r] \in Run /\ Aborted(run[r]).status = "failed"
                        /\ Aborted(run[r]).aborted
    BY <1>1, RunRow DEF RunInv
  <2>3. CASE UNCHANGED run
    BY <2>1, <2>3
  <2>4. ASSUME NEW r \in Runs, NEW a \in Agents \cup {NoOne}, NEW status \in Reported,
               NEW over \in BOOLEAN, NEW late \in BOOLEAN,
               RecordAgentRun(r, a, status, over, late)
        PROVE  run'[x].status # "completed"
    <3> DEFINE who == IF a # NoOne THEN a ELSE run[r].owner
               rows == Swept(who)
    <3>1. rows \in [Runs -> Run] /\ rows[x] \in {run[x], Aborted(run[x])}
      BY <1>1, SweptRows
    <3>2. who # NoOne /\ Overdue(x) => rows[x] = Aborted(run[x])
      BY <1>1, SweptRows
    <3>3. rows[x].status # "completed"
      BY <2>1, <2>2, <3>1
    <3>4. \/ run' = rows
          \/ Reopens(rows[r], status) /\ \E row \in Run : run' = [rows EXCEPT ![r] = row]
      BY <1>1, <2>4, Recorded
    <3>5. ASSUME r = x, Reopens(rows[x], status) PROVE FALSE
      <4>1. ~rows[x].aborted
        BY <3>5 DEF Reopens
      <4>2. rows[x] = run[x]
        BY <2>2, <3>1, <4>1
      <4>3. Overdue(x)
        BY <1>1, <4>1, <4>2
      <4>4. who = NoOne
        BY <2>2, <3>2, <4>1, <4>3
      <4> QED
        BY <3>5, <4>3, <4>4 DEF Overdue
    <3> HIDE DEF rows
    <3> QED
      BY <3>1, <3>3, <3>4, <3>5
  <2>5. ASSUME NEW r \in Runs, NEW a \in Agents \cup {NoOne}, NEW status \in Reported,
               RecordCollection(r, a, status)
        PROVE  run'[x].status # "completed"
    <3>1. run[r].status = "none" /\ \E row \in Run : run' = [run EXCEPT ![r] = row]
      BY <1>1, <2>5, CollectionRow
    <3> QED
      BY <1>1, <2>1, <3>1 DEF RunInv
  <2>6. CASE ExpireTimedOutAgentRuns
    BY <2>1, <2>2, <2>6 DEF ExpireTimedOutAgentRuns
  <2>7. ASSUME NEW r \in Runs, Outlast(r) PROVE run'[x].status # "completed"
    BY <1>1, <2>1, <2>2, <2>7 DEF Outlast, RunInv, Run
  <2>8. CASE Report
    BY <2>4, <2>5, <2>8, ReportCases
  <2> QED
    BY <1>1, <2>3, <2>6, <2>7, <2>8 DEF Next, vars
<1>2. VersionInv /\ RunInv /\ [Next]_vars =>
        [\A r \in Runs : Overdue(r) \/ run[r].aborted => run'[r].status # "completed"]_vars
  BY <1>1
<1> QED
  BY <1>2, AgentsInvariant, PTL DEF Spec, LateNeverSucceeds
=============================================================================
