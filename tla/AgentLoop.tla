------------------------------ MODULE AgentLoop ------------------------------
(* One AgentCore: run_turn and _loop of core/agent.py, from a message to   *)
(* the stored reply, with the three things it remembers between turns: the *)
(* next step it offered, the wipe it asked to confirm, the brain boost.    *)
EXTENDS Naturals, Sequences

CONSTANTS
  MaxTurns,
  MaxIterations, \* generations per turn
  MaxCalls       \* tool calls in one generation

ASSUME AgentAssumption == MaxTurns \in Nat /\ MaxIterations \in Nat \ {0} /\ MaxCalls \in Nat

VARIABLES
  phase,   \* what the turn awaits
  loop,    \* the locals of _loop, and the status of run_turn
  offer,   \* pending_suggestion: the turn that made it, or 0
  acting,  \* the offer this turn carries out, or 0
  wipe,    \* pending_wipe
  boost,   \* _tier_hint_once
  log      \* the turns, the memory commands among them
agentVars == <<phase, loop, offer, acting, wipe, boost, log>>

Fresh == [round |-> 1, left |-> 0, succeeded |-> FALSE, retried |-> FALSE,
          healed |-> FALSE, reply |-> "none", boosted |-> FALSE, status |-> "none"]
AgentInit == /\ phase = "idle" /\ loop = Fresh /\ offer = 0 /\ acting = 0
             /\ wipe = FALSE /\ boost = FALSE /\ log = <<>>

(* What core/intents.py makes of a message.  "sab mita do" is both a       *)
(* command to wipe and the confirmation of one.                            *)
Message == {"yes", "no", "talk", "new chat", "forget that", "wipe all", "confirm wipe", "sab mita do"}
Command(m) == m \in {"new chat", "forget that", "wipe all", "sab mita do"}
Confirms(m) == m \in {"confirm wipe", "sab mita do"}

(* The reply of a turn that ended well, and whether it was pushed for or   *)
(* came after work.  cut: the turn was cancelled while it closed.          *)
Note(status, cut) ==
  LET ok == status = "ok" IN
  log' = Append(log, [kind |-> "turn", status |-> status, cut |-> cut, offered |-> offer # 0,
                      reply |-> IF ok THEN loop.reply ELSE "none",
                      pushed |-> ok /\ (loop.retried \/ loop.succeeded)])
Acts == phase = "idle" /\ Len(log) < MaxTurns

(* _memory_action and _run_memory_command: the challenge is taken back by  *)
(* whatever is said next.                                                  *)
Erases(m) == wipe /\ Confirms(m)
MemoryCommand(m) ==
  /\ Acts /\ (Erases(m) \/ Command(m))
  /\ wipe' = (~Erases(m) /\ m \in {"wipe all", "sab mita do"})
  /\ offer' = 0
  /\ log' = Append(log, [kind |-> IF Erases(m) THEN "erase" ELSE IF wipe' THEN "challenge" ELSE "command",
                         status |-> "ok", reply |-> "answer", cut |-> FALSE, offered |-> FALSE, pushed |-> FALSE])
  /\ UNCHANGED <<phase, loop, acting, boost>>

(* run_turn, up to its first await: the offer is used up whatever the      *)
(* answer is.                                                              *)
Taken == offer' = 0
DisarmedIfErased == wipe' = wipe
Disarmed == wipe' = FALSE
Begin(m) ==
  /\ Acts /\ ~Erases(m) /\ ~Command(m)
  /\ Disarmed
  /\ acting' = IF m = "yes" THEN offer ELSE 0
  /\ Taken
  /\ phase' = IF m = "no" /\ offer # 0 THEN "decline" ELSE "prepare"
  /\ loop' = Fresh
  /\ UNCHANGED <<boost, log>>
(* The turn's rows could not be written: nothing of the turn is announced. *)
Dies ==
  /\ phase \in {"prepare", "decline"}
  /\ phase' = "idle" /\ acting' = 0
  /\ Note("died", FALSE)
  /\ UNCHANGED <<loop, offer, wipe, boost>>
Prepare ==
  /\ phase \in {"prepare", "decline"}
  /\ loop' = [loop EXCEPT !.boosted = boost, !.reply = IF phase = "decline" THEN "answer" ELSE "none"]
  /\ boost' = FALSE
  /\ phase' = IF phase = "decline" THEN "store" ELSE "generate"
  /\ UNCHANGED <<offer, acting, wipe, log>>

Going(p) == phase' = p /\ UNCHANGED <<offer, acting, wipe, boost, log>>

(* A rejected context is rebuilt once, and only while no tool has run.     *)
Heals ==
  /\ phase = "generate" /\ loop.round = 1 /\ ~loop.healed
  /\ loop' = [loop EXCEPT !.healed = TRUE] /\ Going("generate")
CallsTools ==
  /\ phase = "generate"
  /\ \E n \in 1..MaxCalls : loop' = [loop EXCEPT !.left = n]
  /\ Going("tools")
(* _execute_tool: an error result counts as an attempt only.               *)
NextRound(l) == IF l.round = MaxIterations THEN "capped" ELSE "generate"
Advanced(l) == IF l.round = MaxIterations THEN l ELSE [l EXCEPT !.round = @ + 1]
ToolReturns ==
  /\ phase = "tools"
  /\ \E fine \in BOOLEAN :
       LET l == [loop EXCEPT !.left = @ - 1, !.succeeded = @ \/ fine] IN
       IF l.left > 0 THEN loop' = l /\ Going("tools")
       ELSE loop' = Advanced(l) /\ Going(NextRound(l))

(* Text without a tool call: a promise is pushed once for its action,      *)
(* silence is asked again without tools, and a lasting silence is admitted.*)
Pushes(text) == text = "promise" /\ ~loop.retried /\ ~loop.succeeded
ServesSilence(text, r) ==
  /\ loop' = [loop EXCEPT !.reply = text]
  /\ Going(IF r THEN "suggest" ELSE "store")
Serves(text, r) ==
  IF Pushes(text)
  THEN LET l == [loop EXCEPT !.retried = TRUE] IN loop' = Advanced(l) /\ Going(NextRound(l))
  ELSE /\ loop' = [loop EXCEPT !.reply = IF text = "empty" THEN "honest" ELSE text]
       /\ Going(IF r THEN "suggest" ELSE "store")
Text == {"answer", "promise", "empty"}
(* A next step is offered after work was done, unless the text has one.    *)
Offers(text) == IF text # "empty" /\ loop.succeeded THEN BOOLEAN ELSE {FALSE}
Speaks ==
  /\ phase = "generate"
  /\ \/ loop' = loop /\ Going("final")
     \/ \E text \in Text \ {"empty"} : \E r \in Offers(text) : Serves(text, r)
FinalAnswer ==
  /\ phase = "final"
  /\ \E text \in Text : \E r \in Offers(text) : Serves(text, r)
Suggests ==
  /\ phase = "suggest"
  /\ phase' = "store"
  /\ offer' \in {offer, Len(log) + 1}
  /\ UNCHANGED <<loop, acting, wipe, boost, log>>

(* run_turn's finally awaits the marks of the rows and the usage first.    *)
Closes(status) ==
  /\ phase' = "closing"
  /\ loop' = [loop EXCEPT !.status = status]
  /\ UNCHANGED <<offer, acting, wipe, boost, log>>
Stored == phase = "store" /\ Closes("ok")
Capped == phase = "capped" /\ Closes("capped")
(* A generation, the database, or anything else of the turn fails; only    *)
(* tools, the final answer and the suggestion cannot.                      *)
Fails == phase \in {"generate", "store", "capped"} /\ Closes("error")

(* Then, without another await: an offer outlives only a stored turn.      *)
KeepsOfferIfSpoken(status) == loop.reply # "none"
KeepsOffer(status) == status = "ok"
Over(status, cut) ==
  /\ phase' = "idle" /\ acting' = 0
  /\ Note(status, cut)
  /\ loop' = Fresh
  /\ UNCHANGED <<wipe, boost>>
Ends(status) == Over(status, FALSE) /\ offer' = IF KeepsOffer(status) THEN offer ELSE 0
Finishes == phase = "closing" /\ Ends(loop.status)
(* A cancelled turn closes without those awaits.                           *)
Cancelled == phase \in {"generate", "tools", "final", "suggest", "store", "capped"} /\ Ends("cancelled")
(* A cancel in one of them is no Exception: what follows never runs.       *)
Cut == phase = "closing" /\ Over(loop.status, TRUE) /\ UNCHANGED offer

(* The web page: the boost button, and the wipe, which asks for its word   *)
(* and does not wait for a running turn.                                   *)
Boost == boost' \in BOOLEAN /\ boost' # boost /\ UNCHANGED <<phase, loop, offer, acting, wipe, log>>
WipeButton == offer # 0 /\ offer' = 0 /\ UNCHANGED <<phase, loop, acting, wipe, boost, log>>

AgentNext == \/ \E m \in Message : MemoryCommand(m) \/ Begin(m)
             \/ Dies \/ Prepare \/ Heals \/ CallsTools \/ ToolReturns \/ Speaks \/ FinalAnswer
             \/ Suggests \/ Stored \/ Capped \/ Fails \/ Finishes \/ Cancelled \/ Cut \/ Boost \/ WipeButton
AgentSpec == AgentInit /\ [][AgentNext]_agentVars

(* Properties.                                                             *)

(* A turn carries out an offer only if the very turn before made it, ended *)
(* well and was stored with it: not a failed, cancelled or capped one, not *)
(* one that a command or another message has come after.  Only a turn that *)
(* was cancelled while it closed keeps its offer whatever its status.      *)
YesMeansTheLastOffer ==
  acting # 0 => /\ acting = Len(log) /\ log[acting].offered
                /\ log[acting].status = "ok" \/ log[acting].cut

(* core/agent.py:289: "An errored or capped turn must not leave a stale    *)
(* suggestion for the next turn".  A cancel in mark_turn makes it do so.   *)
StaleOfferDropped == acting # 0 => log[acting].status = "ok"

(* The memory is erased by words only right after the challenge.           *)
ErasesAreAskedTwice ==
  \A i \in DOMAIN log : log[i].kind = "erase" => i > 1 /\ log[i - 1].kind = "challenge"

(* "silence is never an acceptable reply" (core/agent.py:513), and a bare  *)
(* promise is one only after a push or a tool that worked.                 *)
EveryReplySpeaks ==
  \A i \in DOMAIN log : log[i].kind = "turn" /\ log[i].status = "ok" =>
    /\ log[i].reply \notin {"none", "empty"}
    /\ log[i].reply = "promise" => log[i].pushed
=============================================================================
