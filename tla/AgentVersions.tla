--------------------------- MODULE AgentVersions ---------------------------
(***************************************************************************)
(* The configurations of the agents.  What an agent is allowed to do is in *)
(* the live row of agent_configs, a copy of the published version; edits   *)
(* and proposals are drafts, which a person publishes after reading what   *)
(* changes.  A pause alone does not wait for a publication.                *)
(*                                                                         *)
(* Each request runs to its end before the next one, but a crash may come  *)
(* between two of its transactions: cut says whether it does.              *)
(***************************************************************************)
EXTENDS Naturals, Sequences, FiniteSets

CONSTANTS
  Agents,       \* identifiers of agents
  Prompts,      \* instructions
  Limits,       \* values of concurrency
  Enriched,     \* agents with enrichment events: never deleted
  Created,      \* configurations an agent may be created with
  Edits,        \* what a PATCH may set, by who sends it
  MaxVersions,  \* bound on the versions of an agent
  MaxCrashes    \* bound on the crashes

\* The fields the rules tell apart; hermes_prompt_optimization is learns.
Config == [prompt : Prompts, enabled : BOOLEAN, concurrency : Limits, learns : BOOLEAN]

\* agentVersionOrigin: the session of a person, or the service token and the agents.
Actor == {"human", "machine"}

ASSUME AgentAssumption == Enriched \subseteq Agents /\ Created \subseteq Config
ASSUME LimitAssumption == Limits \subseteq Nat \ {0}
ASSUME BoundAssumption == MaxVersions \in Nat \ {0} /\ MaxCrashes \in Nat

\* What a patch says of a field, or what the field was.
Said(patch, field, old) == IF field \in DOMAIN patch THEN patch[field] ELSE old

Merged(patch, c) ==
  [prompt |-> Said(patch, "prompt", c.prompt), enabled |-> Said(patch, "enabled", c.enabled),
   concurrency |-> Said(patch, "concurrency", c.concurrency),
   learns |-> Said(patch, "learns", c.learns)]

ASSUME EditAssumption ==
  \A by \in Actor : \A patch \in Edits[by] : \A c \in Config : Merged(patch, c) \in Config

VARIABLES
  agent,       \* agent_configs: the live row and its two pointers
  versions,    \* agent_config_versions, by number
  diffs,       \* versions whose difference a person was shown
  known,       \* instructions a person wrote or was shown
  paused,      \* agents paused, until a person lets them work again
  crashes

versionVars == <<agent, versions, diffs, known, paused, crashes>>

\* Pointers are numbers of versions; 0 is NULL.
Agent == [is : {"none", "there", "deleted"}, live : Config,
          published : 0..MaxVersions, draft : 0..MaxVersions]

\* resumes: who wrote the version turned the agent on.
Version == [status : {"draft", "published", "retired"}, config : Config,
            by : Actor, published : BOOLEAN, resumes : BOOLEAN]

Exists(a) == agent[a].is = "there"

Cut(cut) == crashes' = IF cut THEN crashes + 1 ELSE crashes

MayCrash(cut) == cut => crashes < MaxCrashes

\* What a version would change, field by field, and its checksum.
GetAgentVersionDiff(a, v) == versions[a][v].config

\* The panel shows the difference of a version to a person.
ShowAgentPublishReview(a, v) ==
  /\ Exists(a)
  /\ diffs' = diffs \cup {<<a, v>>}
  /\ known' = known \cup {GetAgentVersionDiff(a, v).prompt}
  /\ UNCHANGED <<agent, versions, paused, crashes>>

InsertAgentConfig(a, config) ==
  /\ agent[a].is = "none"
  /\ agent' = [agent EXCEPT ![a] =
       [is |-> "there", live |-> config, published |-> 1, draft |-> 0]]
  /\ versions' = [versions EXCEPT ![a] =
       <<[status |-> "published", config |-> config, by |-> "human", published |-> TRUE,
          resumes |-> config.enabled]>>]
  /\ known' = known \cup {config.prompt}
  /\ UNCHANGED <<diffs, paused, crashes>>

Draft(config, by, resumes) ==
  [status |-> "draft", config |-> config, by |-> by, published |-> FALSE, resumes |-> resumes]

\* Mutant: an edit goes on from the draft that is waiting.
FromDraft(a) == IF agent[a].draft = 0 THEN agent[a].live ELSE versions[a][agent[a].draft].config

\* Mutant: an edit goes on from the published version.
FromPublished(a) == versions[a][agent[a].published].config

\* An edit goes on from the live row: the published version and its pause.
Edited(a) == agent[a].live

\* The draft on the card is retired when another one takes its place.
Superseded(a) ==
  LET d == agent[a].draft IN
  IF d # 0 /\ versions[a][d].status = "draft"
  THEN [versions[a] EXCEPT ![d].status = "retired"]
  ELSE versions[a]

(* The draft and the pointer are one transaction; the pause comes after.   *)
UpdateAgentConfig(a, patch, by, cut) ==
  LET config == Merged(patch, Edited(a))
      speaks == "enabled" \in DOMAIN patch
      pause == speaks /\ ~config.enabled /\ ~cut
  IN  /\ Exists(a) /\ Len(versions[a]) < MaxVersions /\ MayCrash(cut) /\ Cut(cut)
      /\ versions' = [versions EXCEPT ![a] = 
           Append(Superseded(a), Draft(config, by, speaks /\ config.enabled))]
      /\ agent' = [agent EXCEPT ![a].draft = Len(versions[a]) + 1,
                                ![a].live.enabled = @ /\ ~pause]
      /\ paused' = IF pause THEN paused \cup {a} ELSE paused
      /\ known' = IF by = "human" /\ "prompt" \in DOMAIN patch
                  THEN known \cup {config.prompt} ELSE known
      /\ UNCHANGED diffs

ProposeAgentPrompt(a, prompt, by) ==
  /\ Exists(a) /\ agent[a].live.learns /\ prompt # agent[a].live.prompt
  /\ UpdateAgentConfig(a, [prompt |-> prompt], by, FALSE)

\* UPDATE agent_config_versions SET status='retired' ... AND status='published'
Retired(list, v) ==
  [n \in DOMAIN list |-> IF n # v /\ list[n].status = "published"
                         THEN [list[n] EXCEPT !.status = "retired"] ELSE list[n]]

(* The transaction of publishAgentVersion: list is the versions by then.   *)
Published(a, list, v) ==
  /\ versions' = [versions EXCEPT ![a] =
       [Retired(list, v) EXCEPT ![v].status = "published", ![v].published = TRUE]]
  /\ agent' = [agent EXCEPT ![a].live = list[v].config, ![a].published = v,
                            ![a].draft = IF @ = v THEN 0 ELSE @]

\* Mutant: the text of a proposal is published unread.
Unread(a, v, read) == TRUE

\* What is not a person's own edit is published with the checksum of its diff.
Reviewed(a, v, read) == read \/ versions[a][v].by = "human"

(* read: the request brings the checksum of the version, which the diff    *)
(* gave.  A pause ends with a version whose author turned the agent on.     *)
PublishAgentConfigVersion(a, v, read) ==
  /\ Exists(a) /\ v \in DOMAIN versions[a] /\ versions[a][v].status = "draft"
  /\ agent[a].draft = v
  /\ read => <<a, v>> \in diffs
  /\ Reviewed(a, v, read)
  /\ Published(a, versions[a], v)
  /\ paused' = IF versions[a][v].resumes THEN paused \ {a} ELSE paused
  /\ UNCHANGED <<diffs, known, crashes>>

(* The copy of the version is inserted, then published: the draft on the   *)
(* card stays there.  A crash between the two leaves a draft off the card. *)
RollbackAgentConfig(a, target, cut) ==
  /\ Exists(a) /\ target \in DOMAIN versions[a] /\ versions[a][target].published
  /\ Len(versions[a]) < MaxVersions /\ MayCrash(cut) /\ Cut(cut)
  /\ LET list == Append(versions[a], Draft(versions[a][target].config, "human", FALSE)) IN
     IF cut THEN versions' = [versions EXCEPT ![a] = list] /\ UNCHANGED <<agent, paused>>
            ELSE Published(a, list, Len(list)) /\ paused' = paused \ {a}
  /\ UNCHANGED <<diffs, known>>

\* Two statements, each its own transaction.
DiscardAgentDraft(a, v, cut) ==
  /\ Exists(a) /\ versions[a][v].status = "draft"
  /\ MayCrash(cut) /\ Cut(cut)
  /\ versions' = [versions EXCEPT ![a][v].status = "retired"]
  /\ agent' = [agent EXCEPT ![a].draft = IF @ = v /\ ~cut THEN 0 ELSE @]
  /\ UNCHANGED <<diffs, known, paused>>

\* The versions go with the agent; its identifier is never used again.
DeleteAgentConfig(a) ==
  /\ Exists(a) /\ a \notin Enriched
  /\ agent' = [agent EXCEPT ![a].is = "deleted", ![a].published = 0, ![a].draft = 0]
  /\ versions' = [versions EXCEPT ![a] = <<>>]
  /\ paused' = paused \ {a}
  /\ diffs' = {d \in diffs : d[1] # a}
  /\ UNCHANGED <<known, crashes>>

\* publishedVersion: what governs the runs of an agent.
PublishedVersion(a) == versions[a][agent[a].published].config

\* listPublishedAgentConfigs: the live row pauses the snapshot at once.
Enabled(a) == Exists(a) /\ agent[a].live.enabled /\ PublishedVersion(a).enabled

VersionInit ==
  /\ \E config \in Created : agent = [a \in Agents |->
       [is |-> "none", live |-> config, published |-> 0, draft |-> 0]]
  /\ versions = [a \in Agents |-> <<>>]
  /\ diffs = {} /\ known = {} /\ paused = {} /\ crashes = 0

\* The form of the panel: what it sends always says whether the agent is on.
AgentForm(a) ==
  \/ \E config \in Created : InsertAgentConfig(a, config)
  \/ \E patch \in Edits["human"], cut \in BOOLEAN : UpdateAgentConfig(a, patch, "human", cut)

\* The buttons under the difference of a version.
HandleAgentReviewAction(a, v) ==
  \/ PublishAgentConfigVersion(a, v, TRUE)
  \/ \E cut \in BOOLEAN : DiscardAgentDraft(a, v, cut)

(* The routes of agents.  Those that make something valid ask for the      *)
(* session of a person, who need not come from the panel; edits and        *)
(* proposals take the service token too.                                   *)
VersionRequest ==
  \E a \in Agents :
    \/ AgentForm(a)
    \/ DeleteAgentConfig(a)
    \/ \E patch \in Edits["machine"], cut \in BOOLEAN : UpdateAgentConfig(a, patch, "machine", cut)
    \/ \E prompt \in Prompts : ProposeAgentPrompt(a, prompt, "machine")
    \/ \E v \in DOMAIN versions[a] :
         \/ ShowAgentPublishReview(a, v)
         \/ HandleAgentReviewAction(a, v)
         \/ PublishAgentConfigVersion(a, v, FALSE)
         \/ \E cut \in BOOLEAN : RollbackAgentConfig(a, v, cut)
=============================================================================
