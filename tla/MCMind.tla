------------------------------- MODULE MCMind -------------------------------
(* The parts of a turn that share no state: the loop, the messages it      *)
(* sends, the commands it classifies, the calls it makes, and what the     *)
(* memory keeps of it: messages and facts share no row but for a wipe that *)
(* empties both.  A behaviour is about one of them.                        *)
EXTENDS Gate, Shell, AgentLoop, Context, Recall, Facts, TLC

CONSTANTS dog, hound, pet
MCSame == {<<dog, hound>>}
MCNear == {<<hound, pet>>}

VARIABLES part, absent  \* absent: a slot with no turn in it
core     == <<gateVars, shellVars, agentVars, contextVars>>
memory   == <<vars, factVars>>
mindVars == <<core, memory, part, absent>>

MindInit ==
  /\ part \in {"gate", "shell", "loop", "context", "messages", "facts"}
  /\ absent \in Slot /\ (part # "gate" => absent \notin Voice)
  /\ GateInit /\ AgentInit /\ ContextInit /\ RecallInit /\ FactsInit
  /\ ShellInit /\ (part # "shell" => whole = {})

Calling     == part = "gate" /\ GateNext /\ call'[absent] = Quiet /\ UNCHANGED <<shellVars, agentVars, contextVars, memory, part, absent>>
Classifying == part = "shell" /\ ShellNext /\ UNCHANGED <<gateVars, agentVars, contextVars, memory, part, absent>>
Looping     == part = "loop" /\ AgentNext /\ UNCHANGED <<gateVars, shellVars, contextVars, memory, part, absent>>
Sending     == part = "context" /\ ContextNext /\ UNCHANGED <<gateVars, shellVars, agentVars, memory, part, absent>>
Recalling   == part = "messages" /\ RecallNext /\ UNCHANGED <<core, factVars, part, absent>>
Learning    == part = "facts" /\ FactsNext /\ UNCHANGED <<core, vars, part, absent>>

MindNext == Calling \/ Classifying \/ Looping \/ Sending \/ Recalling \/ Learning
MindSpec == MindInit /\ [][MindNext]_mindVars

(* What follows once a page changed under a question, or a call of the     *)
(* memory has written on outdated reads, is left out.                      *)
Undisturbed == ~moved /\ ~overtaken /\ ~raced

(* The turns of the voice are alike, and so are the domains.               *)
Alike == Permutations(Voice) \union Permutations(Domain)
=============================================================================
