-------------------------------- MODULE Gate --------------------------------
(* core/safety.py between AgentCore._execute_tool and the tool: a call is  *)
(* classified, perhaps asked about, dispatched, and lands later.  Questions *)
(* are answered from any surface, time out, or are cancelled with their    *)
(* turn.  All turns drive one browser page, which the owner sees and can   *)
(* use or close.  The agents run one turn each, but the voice thread may   *)
(* lose track of a turn that runs (a device exception sends it idle) and   *)
(* start the next one beside it.                                           *)
EXTENDS Naturals, Sequences, FiniteSets

CONSTANTS
  Slot,       \* turns that run at once
  Voice,      \* those of the voice channel, whose speaker is verified
  Killed,     \* those of the agents that the kill switch cancels
  Domain,
  MaxQuestions,
  MaxFlying   \* calls in the air, the ones of cancelled turns included

ASSUME GateAssumption == /\ Voice \union Killed \subseteq Slot
                         /\ MaxQuestions \in Nat /\ MaxFlying \in Nat

VARIABLES
  call,       \* slot -> its turn's speaker, whether the turn is the newest
              \* of its channel ("held") or not ("outrun"), its tool call
  flying,     \* dispatched calls that have not taken effect
  unverified, \* the voice channel is in SafetySession.unverified_channels
  page,       \* what current_domain() reads
  shut,       \* that page is closed
  domains,    \* SafetySession.confirmed_browser_domains
  question,   \* questions asked: the future, the verdict published, the domain
  clicked,    \* domains that were acted on
  moved       \* the page changed under a click that was being asked or flew
gateVars == <<call, flying, unverified, page, shut, domains, question, clicked, moved>>

NoPage == "no page"
Page == Domain \union {NoPage}
(* goto: also the other tools that are allowed unasked; change: commands,  *)
(* files, closing an app; harm: what the tables of safety.py deny.         *)
Tool == {"change", "harm", "goto", "click"}
Quiet == [pc |-> "none", who |-> "owner", hold |-> "held", tool |-> "goto", id |-> 0, goal |-> NoPage]

GateInit ==
  /\ call = [c \in Slot |-> Quiet] /\ flying = {} /\ unverified = FALSE
  /\ page = NoPage /\ shut = FALSE /\ domains = {} /\ question = <<>>
  /\ clicked = {} /\ moved = FALSE

(* The voice pipeline flags its channel just before it submits the turn,   *)
(* and the flag and the handle are the new turn's, whatever else runs.     *)
Outruns(c, d) == c \in Voice /\ d \in Voice /\ call[d].pc # "none"
Hear(c) ==
  /\ call[c].pc = "none"
  /\ \E who \in IF c \in Voice THEN {"owner", "stranger"} ELSE {"owner"} :
       /\ call' = [d \in Slot |->
            IF d = c THEN [Quiet EXCEPT !.pc = "turn", !.who = who]
            ELSE IF Outruns(c, d) THEN [call[d] EXCEPT !.hold = "outrun"] ELSE call[d]]
       /\ unverified' = IF c \in Voice THEN who = "stranger" ELSE unverified
  /\ UNCHANGED <<flying, page, shut, domains, question, clicked, moved>>
TurnOver(c) ==
  /\ call[c].pc = "turn"
  /\ call' = [call EXCEPT ![c] = Quiet]
  /\ UNCHANGED <<flying, unverified, page, shut, domains, question, clicked, moved>>

(* classify_tool.                                                          *)
Denies(c, t) == (c \in Voice /\ unverified) \/ t = "harm"
AllowsAnyDomain(t) == t = "goto" \/ (t = "click" /\ domains # {})
Allows(t) == t = "goto" \/ (t = "click" /\ page \in domains)

At(c, pc) ==
  call' = [call EXCEPT ![c] = [Quiet EXCEPT !.pc = pc, !.who = call[c].who, !.hold = call[c].hold]]
Flight(c, k) == [by |-> c, who |-> k.who, hold |-> k.hold, tool |-> k.tool, id |-> k.id, goal |-> k.goal]
Dispatch(c, k) ==
  /\ Cardinality(flying) < MaxFlying
  /\ At(c, "run")
  /\ flying' = flying \union {Flight(c, k)}

CallTool(c, t) ==
  /\ call[c].pc = "turn"
  /\ \E goal \in IF t = "goto" THEN Domain ELSE {NoPage} :
       LET k == [call[c] EXCEPT !.tool = t, !.id = 0, !.goal = goal] IN
       \/ /\ Denies(c, t)
          /\ At(c, "report")
          /\ UNCHANGED <<flying, question>>
       \/ /\ ~Denies(c, t) /\ Allows(t)
          /\ Dispatch(c, k)
          /\ UNCHANGED question
       \/ /\ ~Denies(c, t) /\ ~Allows(t)
          /\ Len(question) < MaxQuestions
          /\ question' = Append(question, [future |-> "pending", verdict |-> "open", on |-> page])
          /\ call' = [call EXCEPT ![c] = [k EXCEPT !.pc = "asked", !.id = Len(question) + 1]]
          /\ UNCHANGED flying
  /\ moved' = (moved \/ (t = "click" /\ shut))
  /\ UNCHANGED <<unverified, page, shut, domains, clicked>>

(* ConfirmationManager.resolve: the web page, the Telegram buttons, the    *)
(* prompt of the command line.                                             *)
Answer(i, yes) ==
  /\ question[i].verdict = "open" /\ question[i].future = "pending"
  /\ question' = [question EXCEPT ![i].future = IF yes THEN "yes" ELSE "no"]
  /\ UNCHANGED <<call, flying, unverified, page, shut, domains, clicked, moved>>

Asked(c) == call[c].pc = "asked"
Closed(c, verdict) == [question EXCEPT ![call[c].id].verdict = verdict]

(* note_approval.                                                          *)
Covers(c) == IF call[c].tool = "click" /\ page # NoPage THEN domains \union {page} ELSE domains
Approved(c) ==
  /\ Asked(c) /\ question[call[c].id].future = "yes"
  /\ question' = Closed(c, "approved")
  /\ domains' = Covers(c)
  /\ Dispatch(c, call[c])
  /\ UNCHANGED <<unverified, page, shut, clicked, moved>>
NotRun(c, verdict) ==
  /\ question' = Closed(c, verdict)
  /\ At(c, "report")
  /\ UNCHANGED <<flying, unverified, page, shut, domains, clicked, moved>>
RefusedByOwner(c) == Asked(c) /\ question[call[c].id].future = "no" /\ NotRun(c, "refused")

(* The timer's cancellation overtakes an answer that has not woken the     *)
(* waiter yet: the surface has been told it counted.                       *)
TimesOutRunning(c) ==
  /\ Asked(c)
  /\ IF question[call[c].id].future = "yes"
     THEN /\ question' = Closed(c, "timeout")
          /\ Dispatch(c, call[c])
          /\ UNCHANGED <<unverified, page, shut, domains, clicked, moved>>
     ELSE NotRun(c, "timeout")
TimesOutSilently(c) ==
  /\ Asked(c) /\ At(c, "report")
  /\ UNCHANGED <<flying, unverified, page, shut, domains, question, clicked, moved>>
TimesOut(c) == Asked(c) /\ NotRun(c, "timeout")

(* A turn that is cancelled takes its question with it.  A dispatched call *)
(* is not called back.                                                     *)
CallsOff(turns, rest) ==
  /\ call' = [c \in Slot |-> IF c \in turns THEN Quiet ELSE call[c]]
  /\ question' = [i \in DOMAIN question |->
       IF \E c \in turns : Asked(c) /\ call[c].id = i
       THEN [question[i] EXCEPT !.verdict = "cancelled"] ELSE rest[i]]
  /\ UNCHANGED <<flying, unverified, page, shut, domains, clicked, moved>>

(* POST /kill: the turns whose handle is held, and the other questions are *)
(* refused.                                                                *)
Refused(q) == IF q.verdict = "open" /\ q.future = "pending" THEN [q EXCEPT !.future = "no"] ELSE q
Kill == CallsOff({c \in Killed : call[c].hold = "held"},
                 [i \in DOMAIN question |-> Refused(question[i])])

(* The owner speaks while the response is spoken.                          *)
BargeIn(c) ==
  /\ c \in Voice /\ call[c].pc # "none" /\ call[c].hold = "held"
  /\ CallsOff({c}, question)

(* The page of a click that is asked about or flies is no longer the one.  *)
Clicking == \/ \E c \in Slot : call[c].pc = "asked" /\ call[c].tool = "click"
            \/ \E f \in flying : f.tool = "click"
Shows(d) == page' = d /\ shut' = FALSE /\ moved' = (moved \/ (d # page /\ Clicking))

(* The tool takes effect.  _ensure() finds another page when the one it    *)
(* had is closed.                                                          *)
Land(f) ==
  /\ f \in flying
  /\ flying' = flying \ {f}
  /\ \/ f.tool \notin {"goto", "click"} /\ UNCHANGED <<page, shut, moved, clicked>>
     \/ f.tool = "goto" /\ Shows(f.goal) /\ UNCHANGED clicked
     \/ /\ f.tool = "click"
        /\ \E d \in IF shut THEN Page ELSE {page} : Shows(d) /\ clicked' = clicked \union {d}
  /\ UNCHANGED <<call, unverified, domains, question>>
(* The audit row and tool_end, the same for every outcome.                 *)
Report(c) ==
  /\ call[c].pc = "report" \/ (call[c].pc = "run" /\ ~\E f \in flying : f.by = c)
  /\ At(c, "turn")
  /\ UNCHANGED <<flying, unverified, page, shut, domains, question, clicked, moved>>

(* The owner uses or closes the window.                                    *)
OwnerBrowses ==
  /\ page # NoPage
  /\ \/ \E d \in Domain \ {page} : Shows(d)
     \/ ~shut /\ shut' = TRUE /\ moved' = (moved \/ Clicking) /\ UNCHANGED page
  /\ UNCHANGED <<call, flying, unverified, domains, question, clicked>>

GateStep(c) == Hear(c) \/ TurnOver(c) \/ (\E t \in Tool : CallTool(c, t)) \/ Approved(c)
               \/ RefusedByOwner(c) \/ TimesOut(c) \/ Report(c) \/ BargeIn(c)
GateNext == \/ \E c \in Slot : GateStep(c)
            \/ \E i \in DOMAIN question, yes \in BOOLEAN : Answer(i, yes)
            \/ \E f \in flying : Land(f)
            \/ Kill \/ OwnerBrowses
GateSpec == GateInit /\ [][GateNext]_gateVars

(* Properties.                                                             *)

(* Whatever flies was allowed to: nothing that the tables deny, nothing of *)
(* a turn whose speaker was not recognized (but for a turn that another    *)
(* utterance has outrun, whose recognition the flag then tells), and a     *)
(* changing tool only after a yes to its own question that came through -- *)
(* not one overtaken by the timeout, the kill switch, a barge-in or a      *)
(* cancel, whatever the surface was told.                                  *)
RunsOnlyOnYes ==
  \A f \in flying :
    /\ f.tool # "harm"
    /\ f.who = "owner" \/ f.hold = "outrun"
    /\ f.tool = "change" \/ f.id # 0 =>
         question[f.id].future = "yes" /\ question[f.id].verdict = "approved"

(* tools/browser.py:6: "click/type CONFIRM once per domain per session --  *)
(* and the domain comes from the REAL page url".  So a page is acted on    *)
(* only after a yes to a question that was asked on it: true as long as    *)
(* the page does not change under a click, not true of the code otherwise. *)
Agreed == {question[i].on : i \in {j \in DOMAIN question : question[j].verdict = "approved"}}
ClickedWasAsked == ~moved => clicked \subseteq Agreed

(* A question that is open has its turn waiting for it, timer and all:     *)
(* whatever ended it -- an answer, the timer, the kill switch -- was        *)
(* announced, and no surface shows a question for ever.                    *)
NoOrphanQuestion ==
  \A i \in DOMAIN question : question[i].verdict = "open" => \E c \in Slot : Asked(c) /\ call[c].id = i
=============================================================================
