------------------------------ MODULE Executor ------------------------------
(***************************************************************************)
(* The executor of automatic applications seen from its own side: an agent *)
(* of Hermes that drives the browser, and between the steps calls either   *)
(* the command line (scripts/ops/apply-authorized.mjs), which remembers    *)
(* the reservation in a file, or the tools of the MCP server, which read   *)
(* the published agent before every call.  The Radar never sees the        *)
(* portal: the click that sends the application is the agent's, between    *)
(* the heartbeat and the call that records it.                             *)
(*                                                                         *)
(* The handlers the calls reach are AutoApply's.  What is added is what    *)
(* the executor remembers and what it may get wrong: the file of an older  *)
(* reservation, a page that is not the authorized one, an answer that is   *)
(* lost after the server did its part, a conversation that dies.           *)
(***************************************************************************)
EXTENDS AutoApply

CONSTANTS
  Tools,   \* executors that call the tools of the MCP server, not the command line
  Domain   \* URLs inside the allowed domains of their agent

ASSUME ToolsAssumption == Tools \subseteq Workers /\ Domain \subseteq 1..MaxUrl

VARIABLES
  file,     \* .radar/executor/<application>.json
  talk,     \* the conversation of each executor, in its own memory
  tab,      \* the form open in each executor's browser, which outlives a conversation
  agentOn,  \* the agent is published, enabled and has the scope
  clicked   \* tokens in hand when the agent clicked "send" at the portal

clientVars == <<file, talk, tab, agentOn, clicked>>
execVars == <<vars, clientVars>>

-----------------------------------------------------------------------------

\* A token, by the authorization and the capture it was minted for.
Token == AuthIds \X (1..MaxShots)

File == [worker : Workers, url : 1..MaxUrl]

(***************************************************************************)
(* "reading": the claim tool has read the authorization and not yet the    *)
(* nonce.  "cleared": the heartbeat before the click was accepted.         *)
(* captured: the form is as it was when its capture was sent.              *)
(***************************************************************************)
Talk ==
  [app : Apps, token : SUBSET Token,
   step : {"reading", "filling", "asked", "confirmed", "cleared", "clicked"}]

Tab == [app : Apps, url : 1..MaxUrl, captured : BOOLEAN]

ClientTypeOK ==
  /\ file \in [Apps -> File \cup {None}]
  /\ talk \in [Workers -> Talk \cup {None}]
  /\ tab \in [Workers -> Tab \cup {None}]
  /\ agentOn \in BOOLEAN
  /\ clicked \in SUBSET Token

ExecInit ==
  /\ Init
  /\ file = [a \in Apps |-> None]
  /\ talk = [w \in Workers |-> None]
  /\ tab = [w \in Workers |-> None]
  /\ agentOn = TRUE
  /\ clicked = {}

Begun(a, step) == [app |-> a, token |-> {}, step |-> step]

Says(w, t) == talk' = [talk EXCEPT ![w] = t]

\* readState of a command, and its test of the worker.
ByCommand(a, w) == w \notin Tools /\ file[a] # None /\ file[a].worker = w

\* requireAgent of a tool.
ByTool(w) == w \in Tools /\ agentOn

\* requireClaimHolder of a tool.
ClaimHolder(w) == app[talk[w].app].claimedBy = w

\* The form on the screen is the one of the conversation's application.
Shows(w, a) == tab[w] # None /\ tab[w].app = a

\* assertObserved of a command, and what verify tests.
OnAuthorizedPage(w) == Shows(w, talk[w].app) /\ tab[w].url = file[talk[w].app].url

\* requireAllowedDomain of a tool.
OnAllowedPage(w) == Shows(w, talk[w].app) /\ tab[w].url \in Domain

\* Row of the conversation's application, and the server's own test of the page.
RowOf(w) == app[talk[w].app].auth
Observed(w) == RowOf(w) # None /\ tab[w].url = auth[RowOf(w)].url

\* The conversation of w is at one of the steps S.
At(w, S) == talk[w] # None /\ talk[w].step \in S

\* The answer to a call, after which the conversation is t, arrives or is lost.
Hears(w, t) == Says(w, t) \/ UNCHANGED talk

-----------------------------------------------------------------------------
(* Reserving *)

(***************************************************************************)
(* claim: the queue and its nonce, the reservation, then the file.  The    *)
(* answer may be lost, and then nothing is written.                        *)
(***************************************************************************)
ClaimCommand(a, w) ==
  /\ talk[w] = None /\ w \notin Tools /\ Claim(a, w)
  /\ \/ /\ file' = [file EXCEPT ![a] = [worker |-> w, url |-> auth[app[a].auth].url]]
        /\ Says(w, Begun(a, "filling"))
     \/ UNCHANGED <<file, talk>>
  /\ UNCHANGED <<tab, agentOn, clicked>>

\* radar_claim_application reads the agent and the URL of the authorization,
ReadAuthorization(a, w) ==
  /\ talk[w] = None /\ w \in Tools /\ agentOn
  /\ app[a].auth # None
  /\ \/ auth[app[a].auth].state = "issued" /\ ~auth[app[a].auth].ttlOver
     \/ auth[app[a].auth].state = "claimed" /\ ~auth[app[a].auth].leaseOver
  /\ auth[app[a].auth].url \in Domain
  /\ Says(w, Begun(a, "reading"))
  /\ UNCHANGED <<vars, file, tab, agentOn, clicked>>

\* then the nonce of whatever authorization is in the queue by then, and claims it;
\* it is refused, or the answer does not arrive in time.
ClaimTool(w) ==
  /\ talk[w] # None /\ talk[w].step = "reading"
  /\ \/ Claim(talk[w].app, w) /\ (Says(w, [talk[w] EXCEPT !.step = "filling"]) \/ Says(w, None))
     \/ Says(w, None) /\ UNCHANGED vars
  /\ UNCHANGED <<file, tab, agentOn, clicked>>

\* A new conversation goes on with a reservation of this worker, from what is on the screen.
TakeUp(a, w) ==
  /\ talk[w] = None /\ (ByCommand(a, w) \/ ByTool(w))
  /\ app[a].status \in {"in_progress", "awaiting_final_confirmation"} /\ app[a].claimedBy = w
  /\ Says(w, Begun(a, IF Shows(w, a) /\ tab[w].captured THEN "asked" ELSE "filling"))
  /\ UNCHANGED <<vars, file, tab, agentOn, clicked>>

-----------------------------------------------------------------------------
(* The dry run, the confirmation and the click *)

\* The browser ends somewhere: the authorized form, or where a redirect led.
Navigate(w, u) ==
  /\ talk[w] # None /\ talk[w].step = "filling"
  /\ tab' = [tab EXCEPT ![w] = [app |-> talk[w].app, url |-> u, captured |-> FALSE]]
  /\ UNCHANGED <<vars, file, talk, agentOn, clicked>>

\* The heartbeat, while the form is filled in and immediately before the click.
Beat(w) ==
  /\ Heartbeat(talk[w].app, w)
  /\ \/ At(w, {"filling", "asked"}) /\ UNCHANGED talk
     \/ At(w, {"confirmed"}) /\ Says(w, [talk[w] EXCEPT !.step = "cleared"])
  /\ UNCHANGED <<file, tab, agentOn, clicked>>

HeartbeatCommand(w) == talk[w] # None /\ ByCommand(talk[w].app, w) /\ Beat(w)
HeartbeatTool(w) == talk[w] # None /\ ByTool(w) /\ Beat(w)

(***************************************************************************)
(* The capture is sent: again and again, as long as the heartbeat before   *)
(* the click was not accepted.  The day's limit ends the conversation.     *)
(***************************************************************************)
Ask(w) ==
  /\ At(w, {"filling", "asked", "confirmed"}) /\ Observed(w)
  /\ RequestFinal(talk[w].app, w)
  /\ \/ /\ Usage < dailyLimit
        /\ tab' = [tab EXCEPT ![w].captured = TRUE]
        /\ Hears(w, [talk[w] EXCEPT !.step = "asked", !.token = {}])
     \/ Usage >= dailyLimit /\ Says(w, None) /\ UNCHANGED tab
  /\ UNCHANGED <<file, agentOn, clicked>>

RequestCommand(w) ==
  talk[w] # None /\ ByCommand(talk[w].app, w) /\ OnAuthorizedPage(w) /\ Ask(w)
RequestTool(w) ==
  talk[w] # None /\ ByTool(w) /\ OnAllowedPage(w) /\ ClaimHolder(w) /\ Ask(w)

\* The token is shown once, to whoever hears the answer.
Consult(w) ==
  LET x == RowOf(w) IN
  /\ At(w, {"asked"})
  /\ Poll(talk[w].app, w)
  /\ \/ /\ auth'[x].given # auth[x].given
        /\ Says(w, [talk[w] EXCEPT !.step = "confirmed", !.token = {<<x, auth'[x].token>>}])
     \/ UNCHANGED talk
  /\ UNCHANGED <<file, tab, agentOn, clicked>>

StatusCommand(w) == talk[w] # None /\ ByCommand(talk[w].app, w) /\ Consult(w)
StatusTool(w) == talk[w] # None /\ ByTool(w) /\ ClaimHolder(w) /\ Consult(w)

Click(w) ==
  /\ At(w, {"cleared"})
  /\ clicked' = clicked \cup talk[w].token
  /\ Says(w, [talk[w] EXCEPT !.step = "clicked"])
  /\ UNCHANGED <<vars, file, tab, agentOn>>

\* The evidence of the portal, with the token: recorded or, past the limit, ended.
Report(w) ==
  /\ At(w, {"clicked"}) /\ Observed(w)
  /\ talk[w].token = {<<RowOf(w), auth[RowOf(w)].token>>}
  /\ Submit(talk[w].app, w)
  /\ Hears(w, None)
  /\ UNCHANGED <<file, tab, agentOn, clicked>>

SubmitCommand(w) ==
  talk[w] # None /\ ByCommand(talk[w].app, w) /\ OnAuthorizedPage(w) /\ Report(w)
SubmitTool(w) == talk[w] # None /\ ByTool(w) /\ OnAllowedPage(w) /\ Report(w)

\* At any point of the execution.
GiveUp(w) ==
  /\ At(w, {"filling", "asked", "confirmed", "cleared", "clicked"})
  /\ Fail(talk[w].app, w)
  /\ Hears(w, None)
  /\ UNCHANGED <<file, tab, agentOn, clicked>>

FailCommand(w) == talk[w] # None /\ ByCommand(talk[w].app, w) /\ GiveUp(w)
FailTool(w) == talk[w] # None /\ ByTool(w) /\ GiveUp(w)

-----------------------------------------------------------------------------
(* The rest *)

\* The conversation is over: all that is left of it is the file.
Die(w) == WorkerCrash(w) /\ Says(w, None) /\ UNCHANGED <<file, tab, agentOn, clicked>>

\* The person publishes, pauses or restricts the agent.
SetAgent == agentOn' = ~agentOn /\ UNCHANGED <<vars, file, talk, tab, clicked>>

CommandStep(w) ==
  \/ \E a \in Apps : ClaimCommand(a, w)
  \/ HeartbeatCommand(w) \/ RequestCommand(w) \/ StatusCommand(w)
  \/ SubmitCommand(w) \/ FailCommand(w)

ToolStep(w) ==
  \/ \E a \in Apps : ReadAuthorization(a, w)
  \/ ClaimTool(w) \/ HeartbeatTool(w) \/ RequestTool(w) \/ StatusTool(w)
  \/ SubmitTool(w) \/ FailTool(w)

\* What an executor meets on the other side, of the actions of AutoApply: the person's
\* on the application, the address, the settings, AUTORIZO, time and the sweep.
PanelStep ==
  \/ Idle /\ \E a \in Apps : UserStep(a)
  \/ Idle /\ \E a \in Apps, u \in 1..MaxUrl : u # job[a].url /\ UpdateUrl(a, u)
  \/ Idle /\ (ExpireDue \/ RecoverStuck)
  \/ SettingsStep \/ AuthorizeStep
  \/ \E x \in AuthIds : TtlLapse(x) \/ LeaseLapse(x)
  \/ NewDay
  \/ \E w \in Workers : WorkerRestart(w)

ExecNext ==
  \/ Idle /\ \E w \in alive : CommandStep(w) \/ ToolStep(w) \/ \E a \in Apps : TakeUp(a, w)
  \/ \E w \in alive : Click(w) \/ Die(w) \/ \E u \in 1..MaxUrl : Navigate(w, u)
  \/ PanelStep /\ UNCHANGED clientVars
  \/ SetAgent

ExecSpec == ExecInit /\ [][ExecNext]_execVars

-----------------------------------------------------------------------------

(***************************************************************************)
(* One click for each ENVIAR: the executor is never cleared to click with  *)
(* a token that was in hand at an earlier click, whatever answers are lost *)
(* and however often its conversation dies and another takes it up.        *)
(***************************************************************************)
OneClickPerEnviar ==
  \A w \in Workers :
    talk[w] # None /\ talk[w].step = "cleared" => talk[w].token \cap clicked = {}

(***************************************************************************)
(* The executor is cleared to click only under a grant in force: its token *)
(* is of the authorization the application has now, which is this          *)
(* worker's, for the page in the browser, the resume in its approved       *)
(* version and a job that is wanted; and never with the tool outside the   *)
(* domains of its agent.                                                   *)
(***************************************************************************)
Clears(w) == talk[w] # None /\ talk[w].step = "confirmed" /\ talk'[w] # None /\ talk'[w].step = "cleared"

ClearedIsGranted ==
  [][\A w \in Workers : Clears(w) =>
       LET a == talk[w].app
           x == app[a].auth
       IN
       /\ x # None /\ \A t \in talk[w].token : t[1] = x
       /\ auth[x].state = "claimed" /\ auth[x].claimedBy = w
       /\ tab[w].app = a /\ tab[w].url = auth[x].url /\ job[a].url = auth[x].url
       /\ job[a].decision = "interested"
       /\ resume[a].status = "approved" /\ resume[a].version = auth[x].version
       /\ w \in Tools => tab[w].url \in Domain]_execVars

=============================================================================
