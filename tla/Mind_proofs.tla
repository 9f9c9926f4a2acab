----------------------------- MODULE Mind_proofs ------------------------------
(* What one agent may say and do from one turn to the next, what the       *)
(* safety gate lets through, which commands run unasked, and which rows    *)
(* reach a provider: for any number of turns, channels, domains, questions *)
(* and calls in flight, for every command, and for histories of any length.*)
EXTENDS AgentLoop, Gate, Shell, Context, NaturalsInduction, WellFoundedInduction, TLAPS

(* The agent.                                                              *)

Reply == {"none", "answer", "promise", "empty", "honest"}
Entry == [kind : {"turn", "command", "challenge", "erase"},
          status : {"ok", "died", "capped", "error", "cancelled"}, cut : BOOLEAN,
          reply : Reply, offered : BOOLEAN, pushed : BOOLEAN]
Locals == [round : Nat, left : Nat, succeeded : BOOLEAN, retried : BOOLEAN,
           healed : BOOLEAN, reply : Reply, boosted : BOOLEAN,
           status : {"none", "ok", "capped", "error"}]

AgentTypeOK ==
  /\ phase \in {"idle", "prepare", "decline", "generate", "tools", "final", "suggest",
                "store", "capped", "closing"}
  /\ loop \in Locals /\ offer \in Nat /\ acting \in Nat
  /\ wipe \in BOOLEAN /\ boost \in BOOLEAN /\ log \in Seq(Entry)
  /\ phase = "tools" => loop.left > 0
  /\ phase = "closing" => loop.status # "none"

(* Between turns an offer on the table is the last turn's own; within one  *)
(* it is the one just made.                                                *)
Good(n) == n = Len(log) /\ log[n].offered /\ (log[n].status = "ok" \/ log[n].cut)
OfferInv ==
  /\ phase = "idle" => acting = 0 /\ (offer # 0 => Good(offer))
  /\ phase # "idle" => offer \in {0, Len(log) + 1} /\ (acting # 0 => Good(acting))
  /\ phase \in {"prepare", "decline"} => offer = 0

(* The challenge stands only between turns, right after it was put.        *)
WipeInv ==
  /\ wipe => phase = "idle" /\ log # <<>> /\ log[Len(log)].kind = "challenge"
  /\ ErasesAreAskedTwice

(* What is about to be stored may be said.                                 *)
MaySay(l) == /\ l.reply \notin {"none", "empty"}
             /\ l.reply = "promise" => l.retried \/ l.succeeded
Speaking(p, l) == p \in {"suggest", "store"} \/ (p = "closing" /\ l.status = "ok")
ReplyInv ==
  /\ Speaking(phase, loop) => MaySay(loop)
  /\ EveryReplySpeaks

AgentInv == AgentTypeOK /\ OfferInv /\ WipeInv /\ ReplyInv

(* A fresh agent has offered nothing and asked nothing.                    *)
LEMMA AgentStart == AgentInit => AgentInv
<1> SUFFICES ASSUME AgentInit PROVE AgentInv
  OBVIOUS
<1>1. loop \in Locals
  BY DEF AgentInit, Fresh, Locals, Reply
<1>a. wipe \in BOOLEAN /\ boost \in BOOLEAN
  BY DEF AgentInit
<1>2. AgentTypeOK
  BY <1>1, <1>a DEF AgentInit, AgentTypeOK
<1>3. OfferInv /\ WipeInv /\ ReplyInv
  BY DEF AgentInit, OfferInv, WipeInv, ReplyInv, Speaking, ErasesAreAskedTwice, EveryReplySpeaks
<1> QED
  BY <1>2, <1>3 DEF AgentInv

(* A command to the memory, which only comes between turns.                *)
LEMMA CommandStep ==
  ASSUME AgentInv, NEW m \in Message, MemoryCommand(m)
  PROVE  AgentInv'
<1> DEFINE e == [kind |-> IF Erases(m) THEN "erase" ELSE IF wipe' THEN "challenge" ELSE "command",
                 status |-> "ok", reply |-> "answer", cut |-> FALSE, offered |-> FALSE, pushed |-> FALSE]
<1> USE DEF AgentInv
<1>0. wipe' \in BOOLEAN
  BY DEF MemoryCommand
<1>1. /\ phase = "idle" /\ log' = Append(log, e) /\ offer' = 0
      /\ UNCHANGED <<phase, loop, acting, boost>>
  BY DEF MemoryCommand, Acts
<1>2. e \in Entry
  BY DEF Entry, Reply
<1>3. AgentTypeOK'
  BY <1>0, <1>1, <1>2 DEF AgentTypeOK
<1>4. /\ Len(log') = Len(log) + 1 /\ log'[Len(log')] = e
      /\ \A i \in 1 .. Len(log) : log'[i] = log[i]
  BY <1>1, <1>2 DEF AgentTypeOK
<1>5. OfferInv'
  BY <1>1 DEF OfferInv
<1>6. e.kind = "erase" => wipe
  BY DEF Erases
<1>7. wipe' => e.kind = "challenge"
  BY DEF MemoryCommand
<1>8. WipeInv'
  BY <1>1, <1>3, <1>4, <1>6, <1>7 DEF WipeInv, ErasesAreAskedTwice, AgentTypeOK
<1>9. ReplyInv'
  BY <1>1, <1>4, <1>3 DEF ReplyInv, Speaking, EveryReplySpeaks, AgentTypeOK
<1> QED
  BY <1>3, <1>5, <1>8, <1>9

(* Where the turn is goes on, and with it only what it holds.              *)
LEMMA BeginStep ==
  ASSUME AgentInv, NEW m \in Message, Begin(m)
  PROVE  AgentInv'
<1> USE DEF AgentInv
<1>1. /\ phase = "idle" /\ log' = log /\ offer' = 0 /\ boost' = boost /\ wipe' = FALSE
      /\ phase' \in {"prepare", "decline"} /\ loop' = Fresh
  BY DEF Begin, Acts, Taken, Disarmed
<1>2. acting' \in {0, offer}
  BY DEF Begin
<1>3. loop' \in Locals
  BY <1>1 DEF Fresh, Locals, Reply
<1>a. wipe' \in BOOLEAN
  BY <1>1
<1>4. AgentTypeOK'
  BY <1>1, <1>2, <1>3, <1>a DEF AgentTypeOK
<1>5. OfferInv'
  BY <1>1, <1>2 DEF OfferInv, Good
<1>6. WipeInv' /\ ReplyInv'
  BY <1>1 DEF WipeInv, ReplyInv, Speaking, ErasesAreAskedTwice, EveryReplySpeaks
<1> QED
  BY <1>4, <1>5, <1>6

(* A step within the turn that says nothing yet.                           *)
LEMMA Onward ==
  ASSUME AgentInv, UNCHANGED <<offer, acting, wipe, log>>, boost' \in BOOLEAN,
         phase # "idle", loop' \in Locals, phase' = "tools" => loop'.left > 0,
         phase' \in {"generate", "tools", "final", "suggest", "store", "capped", "closing"},
         phase' = "closing" => loop'.status # "none",
         Speaking(phase', loop') => MaySay(loop')
  PROVE  AgentInv'
<1> USE DEF AgentInv
<1>1. AgentTypeOK'
  BY DEF AgentTypeOK
<1>2. OfferInv'
  BY DEF OfferInv, Good
<1>3. WipeInv'
  BY DEF WipeInv, ErasesAreAskedTwice
<1>4. ReplyInv'
  BY DEF ReplyInv, EveryReplySpeaks, MaySay
<1> QED
  BY <1>1, <1>2, <1>3, <1>4

(* The boost is taken by the turn; what it carries out stays the same.     *)
LEMMA PrepareStep ==
  ASSUME AgentInv, Prepare
  PROVE  AgentInv'
<1>1. /\ phase # "idle" /\ boost' \in BOOLEAN /\ loop' \in Locals
  BY DEF AgentInv, AgentTypeOK, Prepare, Locals, Reply
<1>2. phase' \in {"store", "generate"} /\ (phase' = "store" => MaySay(loop'))
  BY DEF AgentInv, AgentTypeOK, Prepare, Locals, MaySay
<1> QED
  BY <1>1, <1>2, Onward DEF Prepare, Speaking

(* The locals of _loop keep their type from a generation to the next.      *)
LEMMA LocalsAdvance ==
  ASSUME NEW l \in Locals
  PROVE  /\ Advanced(l) \in Locals
         /\ NextRound(l) \in {"generate", "capped"}
  BY DEF Locals, Advanced, NextRound

(* ... and from a tool call to the next.                                   *)
LEMMA LocalsAfterCall ==
  ASSUME NEW l \in Locals, l.left > 0, NEW b \in BOOLEAN
  PROVE  [l EXCEPT !.left = l.left - 1, !.succeeded = b] \in Locals
<1> DEFINE n == l.left - 1
<1>1. n \in Nat
  BY DEF Locals
<1> HIDE DEF n
<1>2. [l EXCEPT !.left = n, !.succeeded = b] \in Locals
  BY <1>1 DEF Locals
<1> QED
  BY <1>2 DEF n

(* Inside the loop no offer is made or taken.                              *)
LEMMA RoundStep ==
  ASSUME AgentInv, Heals \/ CallsTools \/ ToolReturns
  PROVE  AgentInv'
<1> USE DEF AgentInv, AgentTypeOK, Going, Speaking
<1>1. CASE Heals
  <2>1. loop' \in Locals
    BY <1>1 DEF Heals, Locals
  <2> QED
    BY <1>1, <2>1, Onward DEF Heals
<1>2. CASE CallsTools
  <2>1. PICK n \in 1 .. MaxCalls : loop' = [loop EXCEPT !.left = n]
    BY <1>2 DEF CallsTools
  <2>2. loop' \in Locals /\ loop'.left > 0
    BY <2>1, AgentAssumption DEF Locals
  <2> QED
    BY <1>2, <2>2, Onward DEF CallsTools
<1>3. CASE ToolReturns
  <2>1. PICK fine \in BOOLEAN :
          LET l == [loop EXCEPT !.left = @ - 1, !.succeeded = @ \/ fine] IN
          IF l.left > 0 THEN loop' = l /\ Going("tools")
          ELSE loop' = Advanced(l) /\ Going(NextRound(l))
    BY <1>3 DEF ToolReturns
  <2> DEFINE l == [loop EXCEPT !.left = @ - 1, !.succeeded = @ \/ fine]
  <2>a. (loop.succeeded \/ fine) \in BOOLEAN
    OBVIOUS
  <2>b. phase = "tools"
    BY <1>3 DEF ToolReturns
  <2>c. loop.left > 0
    BY <2>b
  <2>d. [loop EXCEPT !.left = loop.left - 1, !.succeeded = (loop.succeeded \/ fine)] \in Locals
    <3> HIDE DEF l
    <3> QED
      BY <2>a, <2>c, LocalsAfterCall
  <2>2. l \in Locals
    BY <2>d
  <2>3. loop' \in Locals /\ (phase' = "tools" => loop'.left > 0)
        /\ phase' \in {"tools", "generate", "capped"}
    BY <2>1, <2>2, LocalsAdvance
  <2> QED
    BY <1>3, <2>1, <2>3, Onward DEF ToolReturns
<1> QED
  BY <1>1, <1>2, <1>3

(* What is said is checked before it is kept.                              *)
LEMMA SpeechStep ==
  ASSUME AgentInv, Speaks \/ FinalAnswer
  PROVE  AgentInv'
<1> USE DEF AgentInv, AgentTypeOK, Going, Speaking
<1>1. phase # "idle" /\ phase \in {"generate", "final"}
  BY DEF Speaks, FinalAnswer
<1>2. CASE loop' = loop /\ Going("final")
  BY <1>1, <1>2, Onward
<1>3. ASSUME NEW text \in Text, NEW r \in BOOLEAN, Serves(text, r)
      PROVE  AgentInv'
  <2>1. CASE Pushes(text)
    <3> DEFINE l == [loop EXCEPT !.retried = TRUE]
    <3>1. l \in Locals
      BY DEF Locals
    <3>2. loop' = Advanced(l) /\ Going(NextRound(l))
      BY <1>3, <2>1 DEF Serves
    <3> QED
      BY <1>1, <3>1, <3>2, LocalsAdvance, Onward
  <2>2. CASE ~Pushes(text)
    <3>1. /\ loop' = [loop EXCEPT !.reply = IF text = "empty" THEN "honest" ELSE text]
          /\ Going(IF r THEN "suggest" ELSE "store")
      BY <1>3, <2>2 DEF Serves
    <3>2. loop' \in Locals
      BY <3>1 DEF Locals, Text, Reply
    <3>3. MaySay(loop')
      BY <2>2, <3>1 DEF MaySay, Pushes, Text, Locals
    <3> QED
      BY <1>1, <3>1, <3>2, <3>3, Onward
  <2> QED
    BY <2>1, <2>2
<1>4. \A text \in Text : Offers(text) \subseteq BOOLEAN
  BY DEF Offers
<1> QED
  BY <1>2, <1>3, <1>4 DEF Speaks, FinalAnswer

(* An offer is made by the turn that is about to be stored.                *)
LEMMA SuggestStep ==
  ASSUME AgentInv, Suggests
  PROVE  AgentInv'
<1> USE DEF AgentInv, Suggests
<1>1. AgentTypeOK'
  BY DEF AgentTypeOK
<1>2. OfferInv'
  BY DEF OfferInv, Good
<1>3. WipeInv' /\ ReplyInv'
  BY DEF WipeInv, ErasesAreAskedTwice, ReplyInv, Speaking, EveryReplySpeaks, MaySay
<1> QED
  BY <1>1, <1>2, <1>3

(* What is stored, gave up or failed is marked next.                       *)
LEMMA ClosesStep ==
  ASSUME AgentInv, Stored \/ Capped \/ Fails
  PROVE  AgentInv'
<1>1. PICK status \in {"ok", "capped", "error"} :
        Closes(status) /\ (status = "ok" => phase = "store")
  BY DEF Stored, Capped, Fails
<1>2. /\ phase # "idle" /\ phase' = "closing" /\ loop' = [loop EXCEPT !.status = status]
      /\ UNCHANGED <<offer, acting, wipe, boost, log>>
  BY <1>1 DEF Closes, Stored, Capped, Fails
<1>3. loop' \in Locals /\ loop'.status = status
  BY <1>2 DEF AgentInv, AgentTypeOK, Locals
<1>4. status = "ok" => MaySay(loop')
  BY <1>1, <1>2 DEF AgentInv, AgentTypeOK, ReplyInv, Speaking, MaySay, Locals
<1>5. boost' \in BOOLEAN
  BY <1>2 DEF AgentInv, AgentTypeOK
<1> QED
  BY <1>2, <1>3, <1>4, <1>5, Onward DEF Speaking

(* The end of a turn: one entry in the log, and the offer it may leave.    *)
LEMMA EndStep ==
  ASSUME AgentInv, phase # "idle",
         NEW status \in {"ok", "died", "capped", "error", "cancelled"},
         NEW cut \in BOOLEAN, Note(status, cut),
         phase' = "idle", acting' = 0, UNCHANGED wipe, UNCHANGED boost, loop' \in Locals,
         offer' = 0 \/ (offer' = offer /\ (status = "ok" \/ cut)),
         status = "ok" => MaySay(loop)
  PROVE  AgentInv'
<1> DEFINE e == [kind |-> "turn", status |-> status, cut |-> cut, offered |-> offer # 0,
                 reply |-> IF status = "ok" THEN loop.reply ELSE "none",
                 pushed |-> status = "ok" /\ (loop.retried \/ loop.succeeded)]
<1> USE DEF AgentInv
<1>1. log' = Append(log, e)
  BY DEF Note
<1>2. (offer # 0) \in BOOLEAN /\ (status = "ok" /\ (loop.retried \/ loop.succeeded)) \in BOOLEAN
  OBVIOUS
<1>b. (IF status = "ok" THEN loop.reply ELSE "none") \in Reply
  BY DEF AgentTypeOK, Locals, Reply
<1>3. e \in Entry
  BY <1>2, <1>b DEF AgentTypeOK, Entry
<1>4. AgentTypeOK'
  BY <1>1, <1>3 DEF AgentTypeOK
<1>5. /\ Len(log') = Len(log) + 1 /\ log'[Len(log) + 1] = e
      /\ \A i \in 1 .. Len(log) : log'[i] = log[i]
  BY <1>1, <1>3 DEF AgentTypeOK
<1>a. /\ e.kind = "turn" /\ e.status = status /\ e.cut = cut /\ (offer # 0 => e.offered)
      /\ status = "ok" => e.reply = loop.reply /\ (loop.retried \/ loop.succeeded => e.pushed)
  OBVIOUS
<1> HIDE DEF e
<1>6. OfferInv'
  BY <1>5, <1>a DEF OfferInv, Good
<1>7. WipeInv'
  BY <1>5, <1>4, <1>a DEF WipeInv, ErasesAreAskedTwice, AgentTypeOK
<1>8. EveryReplySpeaks'
  BY <1>5, <1>4, <1>a DEF ReplyInv, EveryReplySpeaks, AgentTypeOK, MaySay
<1>9. ReplyInv'
  BY <1>8 DEF ReplyInv, Speaking
<1> QED
  BY <1>4, <1>6, <1>7, <1>9

(* However a turn ends, only a stored one leaves an offer, or one that was *)
(* cut short.                                                              *)
LEMMA EndsStep ==
  ASSUME AgentInv, Dies \/ Finishes \/ Cancelled \/ Cut
  PROVE  AgentInv'
<1>1. CASE Dies
  <2>1. offer = 0
    BY <1>1 DEF AgentInv, OfferInv, Dies
  <2> QED
    BY <1>1, <2>1, EndStep DEF AgentInv, AgentTypeOK, Dies
<1>2. Fresh \in Locals
  BY DEF Fresh, Locals, Reply
<1>3. phase = "closing" => /\ loop.status \in {"ok", "capped", "error"}
                           /\ loop.status = "ok" => MaySay(loop)
  BY DEF AgentInv, AgentTypeOK, Locals, ReplyInv, Speaking
<1>4. CASE Finishes
  <2>1. /\ phase = "closing" /\ Over(loop.status, FALSE)
        /\ offer' = 0 \/ (offer' = offer /\ loop.status = "ok")
    BY <1>4 DEF Finishes, Ends, KeepsOffer
  <2> QED
    BY <1>2, <1>3, <2>1, EndStep DEF Over
<1>5. CASE Cancelled
  BY <1>2, <1>5, EndStep DEF Cancelled, Ends, Over, KeepsOffer
<1>6. CASE Cut
  <2>1. phase = "closing" /\ Over(loop.status, TRUE) /\ offer' = offer
    BY <1>6 DEF Cut
  <2> QED
    BY <1>2, <1>3, <2>1, EndStep DEF Over
<1> QED
  BY <1>1, <1>4, <1>5, <1>6

(* The buttons of the web page.                                            *)
LEMMA ButtonStep ==
  ASSUME AgentInv, Boost \/ WipeButton \/ UNCHANGED agentVars
  PROVE  AgentInv'
<1>1. /\ UNCHANGED <<phase, loop, acting, wipe, log>> /\ boost' \in BOOLEAN
      /\ offer' \in {0, offer}
  BY DEF AgentInv, AgentTypeOK, Boost, WipeButton, agentVars
<1>2. AgentTypeOK'
  BY <1>1 DEF AgentInv, AgentTypeOK
<1>3. OfferInv'
  BY <1>1 DEF AgentInv, OfferInv, Good
<1>4. WipeInv'
  BY <1>1 DEF AgentInv, WipeInv, ErasesAreAskedTwice
<1>5. ReplyInv'
  BY <1>1 DEF AgentInv, ReplyInv, Speaking, EveryReplySpeaks, MaySay
<1> QED
  BY <1>2, <1>3, <1>4, <1>5 DEF AgentInv

(* Together: AgentInv is an invariant of the loop.                         *)
LEMMA AgentInductive == AgentSpec => []AgentInv
<1>1. AgentInv /\ [AgentNext]_agentVars => AgentInv'
  <2> SUFFICES ASSUME AgentInv, [AgentNext]_agentVars PROVE AgentInv'
    OBVIOUS
  <2>1. CASE \E m \in Message : MemoryCommand(m) \/ Begin(m)
    BY <2>1, CommandStep, BeginStep
  <2>2. CASE Prepare \/ Heals \/ CallsTools \/ ToolReturns \/ Speaks \/ FinalAnswer
    BY <2>2, PrepareStep, RoundStep, SpeechStep
  <2>3. CASE Suggests \/ Stored \/ Capped \/ Fails
    BY <2>3, SuggestStep, ClosesStep
  <2>4. CASE Dies \/ Finishes \/ Cancelled \/ Cut
    BY <2>4, EndsStep
  <2>5. CASE Boost \/ WipeButton \/ UNCHANGED agentVars
    BY <2>5, ButtonStep
  <2> QED
    BY <2>1, <2>2, <2>3, <2>4, <2>5 DEF AgentNext
<1> QED
  BY <1>1, AgentStart, PTL DEF AgentSpec

(* A yes carries out the offer the turn just before it made, and no other: *)
(* that turn was stored, or was cancelled in the awaits it closes with     *)
(* (run_turn, core/agent.py).                                              *)
THEOREM YesCorrect == AgentSpec => []YesMeansTheLastOffer
<1>1. AgentInv => YesMeansTheLastOffer
  BY DEF AgentInv, OfferInv, Good, YesMeansTheLastOffer
<1> QED
  BY <1>1, AgentInductive, PTL

(* No memory is erased by words but in answer to the challenge that came   *)
(* right before (_memory_action, core/agent.py).                           *)
THEOREM EraseCorrect == AgentSpec => []ErasesAreAskedTwice
<1>1. AgentInv => ErasesAreAskedTwice
  BY DEF AgentInv, WipeInv
<1> QED
  BY <1>1, AgentInductive, PTL

(* Every turn that ended well said something, and never only a promise     *)
(* nobody held it to (core/agent.py:513).                                  *)
THEOREM SpeechCorrect == AgentSpec => []EveryReplySpeaks
<1>1. AgentInv => EveryReplySpeaks
  BY DEF AgentInv, ReplyInv
<1> QED
  BY <1>1, AgentInductive, PTL
-------------------------------------------------------------------------------
(* The gate.                                                               *)

CallType == [pc : {"none", "turn", "asked", "report", "run"}, who : {"owner", "stranger"},
             hold : {"held", "outrun"}, tool : Tool, id : Nat, goal : Page]
FlightType == [by : Slot, who : {"owner", "stranger"}, hold : {"held", "outrun"}, tool : Tool, id : Nat, goal : Page]
QuestionType == [future : {"pending", "yes", "no"}, on : Page,
                 verdict : {"open", "approved", "refused", "timeout", "cancelled"}]

GateTypeOK ==
  /\ call \in [Slot -> CallType] /\ flying \subseteq FlightType
  /\ unverified \in BOOLEAN /\ page \in Page /\ domains \subseteq Page
  /\ question \in Seq(QuestionType) /\ clicked \subseteq Page

(* A turn nobody recognized is flagged as long as it is the newest.        *)
Recognized(k) == k.who = "owner" \/ k.hold = "outrun"
Flagged == \A c \in Slot : call[c].pc # "none" => Recognized(call[c]) \/ (c \in Voice /\ unverified)

(* A turn that asks was recognized, asks for something that may be allowed, *)
(* and has a question of its own, which is open.                           *)
Asks == \A c \in Slot : Asked(c) =>
  /\ Recognized(call[c]) /\ call[c].tool \in {"change", "click"}
  /\ call[c].id \in DOMAIN question /\ question[call[c].id].verdict = "open"
OwnQuestion ==
  \A c, d \in Slot : Asked(c) /\ Asked(d) /\ call[c].id = call[d].id => c = d

(* What flies was allowed at once, or by its question.                     *)
Agrees(f) ==
  /\ f.tool # "harm" /\ Recognized(f) /\ (f.tool = "change" => f.id # 0)
  /\ f.id # 0 => /\ f.id \in DOMAIN question
                 /\ question[f.id].future = "yes" /\ question[f.id].verdict = "approved"
FlightsAgreed == \A f \in flying : Agrees(f)

GateInv == GateTypeOK /\ Flagged /\ Asks /\ OwnQuestion /\ FlightsAgreed /\ NoOrphanQuestion

(* Nothing is asked, nothing flies.                                        *)
LEMMA GateStart == GateInit => GateInv
<1> SUFFICES ASSUME GateInit PROVE GateInv
  OBVIOUS
<1>1. /\ call = [c \in Slot |-> Quiet] /\ flying = {} /\ unverified = FALSE
      /\ page = NoPage /\ domains = {} /\ question = <<>> /\ clicked = {}
  BY DEF GateInit
<1>2. Quiet \in CallType /\ Quiet.pc = "none"
  BY DEF Quiet, CallType, Tool, Page
<1>3. GateTypeOK
  <2>1. call \in [Slot -> CallType]
    BY <1>1, <1>2
  <2>2. question \in Seq(QuestionType)
    BY <1>1
  <2> QED
    BY <1>1, <2>1, <2>2 DEF GateTypeOK, Page
<1>4. \A c \in Slot : call[c].pc = "none"
  BY <1>1, <1>2
<1>5. Flagged /\ Asks /\ OwnQuestion
  BY <1>4 DEF Flagged, Asks, OwnQuestion, Asked
<1>6. FlightsAgreed
  BY <1>1 DEF FlightsAgreed
<1>7. DOMAIN question = {}
  BY <1>1
<1>8. NoOrphanQuestion
  BY <1>7 DEF NoOrphanQuestion
<1> QED
  BY <1>3, <1>5, <1>6, <1>8 DEF GateInv

(* The world outside the gate leaves it as it is.                          *)
LEMMA GateUntouched ==
  ASSUME GateInv, UNCHANGED <<call, unverified, domains, question>>, flying' \subseteq flying,
         page' \in Page, clicked' \subseteq Page
  PROVE  GateInv'
<1> USE DEF GateInv
<1>1. GateTypeOK'
  BY DEF GateTypeOK
<1>2. Flagged' /\ Asks' /\ OwnQuestion' /\ NoOrphanQuestion'
  BY DEF Flagged, Asks, OwnQuestion, NoOrphanQuestion, Asked
<1>3. FlightsAgreed'
  BY DEF FlightsAgreed, Agrees
<1> QED
  BY <1>1, <1>2, <1>3

(* A turn moves on without a question: it ends, is denied, reports.        *)
LEMMA CallMoves ==
  ASSUME GateInv, NEW c \in Slot, NEW k \in CallType, k.pc # "asked", ~Asked(c),
         call' = [call EXCEPT ![c] = k],
         k.pc # "none" => Recognized(k) \/ (c \in Voice /\ unverified),
         UNCHANGED <<flying, unverified, page, domains, question, clicked>>
  PROVE  GateInv'
<1> USE DEF GateInv
<1>1. GateTypeOK'
  BY DEF GateTypeOK
<1>2. /\ call'[c] = k
      /\ \A d \in Slot : d # c => call'[d] = call[d]
      /\ \A d \in Slot : Asked(d)' <=> Asked(d)
  BY DEF GateTypeOK, Asked
<1>3. Flagged'
  BY <1>2 DEF Flagged
<1>4. Asks'
  BY <1>2 DEF Asks, Asked
<1>5. OwnQuestion'
  BY <1>2 DEF OwnQuestion, Asked
<1>6. FlightsAgreed'
  BY DEF FlightsAgreed, Agrees
<1>7. NoOrphanQuestion'
  BY <1>2 DEF NoOrphanQuestion, Asked
<1> QED
  BY <1>1, <1>3, <1>4, <1>5, <1>6, <1>7

(* A call that was allowed at once.                                        *)
LEMMA CallFlies ==
  ASSUME GateInv, NEW c \in Slot, NEW k \in CallType, ~Asked(c),
         k.tool \in {"goto", "click"}, Recognized(k), k.id = 0, Recognized(call[c]),
         Dispatch(c, k), UNCHANGED <<unverified, page, domains, question, clicked>>
  PROVE  GateInv'
<1> USE DEF GateInv
<1> DEFINE n == [Quiet EXCEPT !.pc = "run", !.who = call[c].who, !.hold = call[c].hold]
<1>1. n \in CallType /\ call' = [call EXCEPT ![c] = n] /\ flying' = flying \union {Flight(c, k)}
  BY DEF Dispatch, At, Quiet, CallType, Tool, Page, GateTypeOK
<1>2. n.pc # "asked" /\ Recognized(n)
  BY DEF Quiet, Recognized
<1>3. Flight(c, k) \in FlightType
  BY DEF Flight, CallType, FlightType
<1> HIDE DEF n
<1>4. GateTypeOK'
  BY <1>1, <1>3 DEF GateTypeOK
<1>5. /\ call'[c] = n /\ \A d \in Slot : d # c => call'[d] = call[d]
      /\ \A d \in Slot : Asked(d)' <=> Asked(d)
  BY <1>1, <1>2 DEF GateTypeOK, Asked
<1>6. Flagged' /\ Asks' /\ OwnQuestion' /\ NoOrphanQuestion'
  BY <1>2, <1>5 DEF Flagged, Asks, OwnQuestion, NoOrphanQuestion, Asked
<1>7. FlightsAgreed'
  BY <1>1 DEF FlightsAgreed, Agrees, Flight, Recognized
<1> QED
  BY <1>4, <1>6, <1>7

(* A call that is asked about gets the question that is added for it.      *)
LEMMA CallAsks ==
  ASSUME GateInv, NEW c \in Slot, NEW k \in CallType, ~Asked(c), k.pc = "asked",
         k.tool \in {"change", "click"}, Recognized(k), k.id = Len(question) + 1,
         question' = Append(question, [future |-> "pending", verdict |-> "open", on |-> page]),
         call' = [call EXCEPT ![c] = k],
         UNCHANGED <<flying, unverified, page, domains, clicked>>
  PROVE  GateInv'
<1> USE DEF GateInv
<1> DEFINE q == [future |-> "pending", verdict |-> "open", on |-> page]
<1>1. q \in QuestionType
  BY DEF GateTypeOK, QuestionType
<1>2. /\ question' \in Seq(QuestionType) /\ Len(question') = Len(question) + 1
      /\ question'[Len(question) + 1] = q
      /\ \A i \in 1 .. Len(question) : question'[i] = question[i]
      /\ DOMAIN question' = 1 .. Len(question) + 1 /\ DOMAIN question = 1 .. Len(question)
      /\ Len(question) \in Nat
  BY <1>1 DEF GateTypeOK
<1> HIDE DEF q
<1>3. GateTypeOK'
  BY <1>2 DEF GateTypeOK
<1>4. call'[c] = k /\ \A d \in Slot : d # c => call'[d] = call[d]
  BY DEF GateTypeOK
<1>5. Flagged'
  BY <1>4 DEF Flagged
<1>6. Asks'
  BY <1>2, <1>4 DEF Asks, Asked, q
<1>7. OwnQuestion'
  <2>1. \A d \in Slot : Asked(d) => call[d].id # k.id
    BY <1>2 DEF Asks
  <2> QED
    BY <1>4, <2>1 DEF OwnQuestion, Asked
<1>8. FlightsAgreed'
  BY <1>2 DEF FlightsAgreed, Agrees
<1>9. NoOrphanQuestion'
  <2> SUFFICES ASSUME NEW i \in 1 .. Len(question) + 1, question'[i].verdict = "open"
               PROVE  \E d \in Slot : Asked(d)' /\ call'[d].id = i
    BY <1>2 DEF NoOrphanQuestion
  <2>1. CASE i = Len(question) + 1
    BY <1>4, <2>1 DEF Asked
  <2>2. CASE i \in 1 .. Len(question)
    <3>1. PICK d \in Slot : Asked(d) /\ call[d].id = i
      BY <1>2, <2>2 DEF NoOrphanQuestion
    <3> QED
      BY <1>4, <3>1 DEF Asked
  <2> QED
    BY <1>2, <2>1, <2>2
<1> QED
  BY <1>3, <1>5, <1>6, <1>7, <1>8, <1>9

(* The record of a call that waits for its question.                       *)
LEMMA CallPutToQuestion ==
  ASSUME NEW k \in CallType, NEW i \in Nat
  PROVE  LET n == [k EXCEPT !.pc = "asked", !.id = i] IN
         n \in CallType /\ n.pc = "asked" /\ n.tool = k.tool /\ n.who = k.who
         /\ n.hold = k.hold /\ n.id = i
  BY DEF CallType

(* A call is denied, dispatched, or asked about with a question of its own. *)
LEMMA CallToolStep ==
  ASSUME GateInv, NEW c \in Slot, NEW t \in Tool, CallTool(c, t)
  PROVE  GateInv'
<1>1. PICK goal \in Page :
        LET k == [call[c] EXCEPT !.tool = t, !.id = 0, !.goal = goal] IN
        \/ Denies(c, t) /\ At(c, "report") /\ UNCHANGED <<flying, question>>
        \/ ~Denies(c, t) /\ Allows(t) /\ Dispatch(c, k) /\ UNCHANGED question
        \/ /\ ~Denies(c, t) /\ ~Allows(t)
           /\ question' = Append(question, [future |-> "pending", verdict |-> "open", on |-> page])
           /\ call' = [call EXCEPT ![c] = [k EXCEPT !.pc = "asked", !.id = Len(question) + 1]]
           /\ UNCHANGED flying
  BY DEF CallTool, Page
<1> DEFINE k == [call[c] EXCEPT !.tool = t, !.id = 0, !.goal = goal]
<1>2. /\ ~Asked(c) /\ call[c].pc = "turn" /\ call[c] \in CallType
      /\ UNCHANGED <<unverified, page, domains, clicked>> /\ Len(question) \in Nat
  BY DEF CallTool, Asked, GateInv, GateTypeOK
<1>3. ~Denies(c, t) => Recognized(call[c]) /\ t # "harm"
  BY <1>2 DEF Denies, GateInv, Flagged
<1>4. k \in CallType /\ k.tool = t /\ k.id = 0 /\ k.who = call[c].who /\ k.hold = call[c].hold
  BY <1>2 DEF CallType
<1>8. Recognized(call[c]) => Recognized(k)
  BY <1>4 DEF Recognized
<1>5. CASE Denies(c, t) /\ At(c, "report") /\ UNCHANGED <<flying, question>>
  <2> DEFINE n == [Quiet EXCEPT !.pc = "report", !.who = call[c].who, !.hold = call[c].hold]
  <2>1. n \in CallType /\ n.pc # "asked" /\ n.who = call[c].who /\ n.hold = call[c].hold
    BY <1>2 DEF Quiet, CallType, Tool, Page
  <2>2. call' = [call EXCEPT ![c] = n]
    BY <1>5 DEF At
  <2>3. Recognized(n) \/ (c \in Voice /\ unverified)
    BY <1>2, <2>1 DEF GateInv, Flagged, Recognized
  <2> HIDE DEF n
  <2> QED
    BY <1>2, <1>5, <2>1, <2>2, <2>3, CallMoves DEF GateInv, GateTypeOK
<1>6. CASE ~Denies(c, t) /\ Allows(t) /\ Dispatch(c, k) /\ UNCHANGED question
  BY <1>2, <1>3, <1>4, <1>6, <1>8, CallFlies DEF Allows
<1>7. CASE /\ ~Denies(c, t) /\ ~Allows(t)
           /\ question' = Append(question, [future |-> "pending", verdict |-> "open", on |-> page])
           /\ call' = [call EXCEPT ![c] = [k EXCEPT !.pc = "asked", !.id = Len(question) + 1]]
           /\ UNCHANGED flying
  <2> DEFINE n == [k EXCEPT !.pc = "asked", !.id = Len(question) + 1]
  <2>1. n \in CallType /\ n.pc = "asked" /\ n.tool = t /\ Recognized(n)
        /\ n.id = Len(question) + 1
    <3> HIDE DEF k
    <3>1. Len(question) + 1 \in Nat
      BY <1>2
    <3>2. n \in CallType /\ n.pc = "asked" /\ n.tool = t /\ n.id = Len(question) + 1
          /\ n.who = k.who /\ n.hold = k.hold
      BY <1>4, <3>1, CallPutToQuestion
    <3>3. Recognized(n)
      BY <1>3, <1>7, <1>8, <3>2 DEF Recognized
    <3> QED
      BY <3>2, <3>3
  <2>2. t \in {"change", "click"}
    BY <1>3, <1>7 DEF Tool, Allows
  <2> HIDE DEF n, k
  <2> QED
    BY <1>2, <1>3, <1>7, <2>1, <2>2, CallAsks DEF n
<1> QED
  BY <1>1, <1>5, <1>6, <1>7
-----------------------------------------------------------------------------
(* One entry of the list of questions is replaced.                         *)
LEMMA QuestionReplaced ==
  ASSUME NEW s \in Seq(QuestionType), NEW i \in DOMAIN s, NEW q \in QuestionType
  PROVE  LET t == [s EXCEPT ![i] = q] IN
         /\ t \in Seq(QuestionType) /\ DOMAIN t = DOMAIN s /\ t[i] = q
         /\ \A j \in DOMAIN s : j # i => t[j] = s[j]
  OBVIOUS

(* What ends a question: its turn goes on, perhaps with the call.          *)
LEMMA QuestionEnds ==
  ASSUME GateInv, NEW c \in Slot, Asked(c), NEW k \in CallType, k.pc # "asked",
         k.who = call[c].who, k.hold = call[c].hold, call' = [call EXCEPT ![c] = k],
         NEW v \in {"approved", "refused", "timeout", "cancelled"}, question' = Closed(c, v),
         flying' \subseteq flying \union {Flight(c, call[c])},
         \/ flying' \subseteq flying
         \/ v = "approved" /\ question[call[c].id].future = "yes",
         domains' \subseteq Page, UNCHANGED <<unverified, page, clicked>>
  PROVE  GateInv'
<1> USE DEF GateInv
<1> DEFINE n == call[c].id
<1>1. /\ n \in DOMAIN question /\ question[n].verdict = "open"
      /\ Recognized(call[c]) /\ call[c].tool \in {"change", "click"}
  BY DEF Asks
<1>2. /\ question' \in Seq(QuestionType) /\ DOMAIN question' = DOMAIN question
      /\ question'[n].verdict = v /\ question'[n].future = question[n].future
      /\ \A i \in DOMAIN question : i # n => question'[i] = question[i]
  <2> DEFINE q == [question[n] EXCEPT !.verdict = v]
  <2>1. q \in QuestionType /\ q.verdict = v /\ q.future = question[n].future
    <3>1. question[n] \in QuestionType
      BY <1>1 DEF GateTypeOK
    <3> QED
      BY <3>1 DEF QuestionType
  <2>2. question' = [question EXCEPT ![n] = q]
    BY DEF Closed
  <2> HIDE DEF q, n
  <2> QED
    BY <1>1, <2>1, <2>2, QuestionReplaced DEF GateTypeOK
<1>3. n # 0 /\ n \in Nat
  BY <1>1 DEF GateTypeOK
<1>4. Flight(c, call[c]) \in FlightType
  BY DEF Flight, CallType, FlightType, GateTypeOK
<1>5. GateTypeOK'
  BY <1>2, <1>4 DEF GateTypeOK
<1>6. call'[c] = k /\ \A d \in Slot : d # c => call'[d] = call[d]
  BY DEF GateTypeOK
<1>7. \A d \in Slot : Asked(d)' => d # c /\ Asked(d) /\ call'[d] = call[d] /\ call[d].id # n
  BY <1>6 DEF Asked, OwnQuestion
<1> HIDE DEF n
<1>8. Flagged'
  BY <1>1, <1>6 DEF Flagged, Recognized
<1>9. Asks'
  BY <1>2, <1>7 DEF Asks
<1>10. OwnQuestion'
  BY <1>7 DEF OwnQuestion
<1>11. FlightsAgreed'
  <2> SUFFICES ASSUME NEW f \in flying' PROVE Agrees(f)'
    BY DEF FlightsAgreed
  <2>1. CASE f \in flying
    BY <1>1, <1>2, <2>1 DEF FlightsAgreed, Agrees
  <2>2. CASE f \notin flying
    <3>1. f = Flight(c, call[c]) /\ v = "approved" /\ question[n].future = "yes"
      BY <2>2 DEF n
    <3>2. f.id = n /\ f.who = call[c].who /\ f.hold = call[c].hold /\ f.tool = call[c].tool
      BY <3>1 DEF Flight, n
    <3> QED
      BY <1>1, <1>2, <1>3, <3>1, <3>2 DEF Agrees, Recognized
  <2> QED
    BY <2>1, <2>2
<1>12. NoOrphanQuestion'
  <2> SUFFICES ASSUME NEW i \in DOMAIN question, question'[i].verdict = "open"
               PROVE  \E d \in Slot : Asked(d)' /\ call'[d].id = i
    BY <1>2 DEF NoOrphanQuestion
  <2>1. i # n /\ question[i].verdict = "open"
    BY <1>2
  <2>2. PICK d \in Slot : Asked(d) /\ call[d].id = i
    BY <2>1 DEF NoOrphanQuestion
  <2> QED
    BY <1>6, <2>1, <2>2 DEF Asked, n
<1> QED
  BY <1>5, <1>8, <1>9, <1>10, <1>11, <1>12

(* A call that leaves its question keeps its speaker.                      *)
LEMMA MovedOn ==
  ASSUME GateInv, NEW c \in Slot, NEW pc \in {"report", "run"}, At(c, pc)
  PROVE  \E k \in CallType : /\ k.pc = pc /\ k.who = call[c].who /\ k.hold = call[c].hold
                             /\ call' = [call EXCEPT ![c] = k]
<1> DEFINE k == [Quiet EXCEPT !.pc = pc, !.who = call[c].who, !.hold = call[c].hold]
<1>1. k \in CallType /\ k.pc = pc /\ k.who = call[c].who /\ k.hold = call[c].hold
  BY DEF Quiet, CallType, Tool, Page, GateInv, GateTypeOK
<1>2. call' = [call EXCEPT ![c] = k]
  BY DEF At
<1> HIDE DEF k
<1> QED
  BY <1>1, <1>2

(* An answer or the timer ends the question of the one that waits for it. *)
LEMMA VerdictStep ==
  ASSUME GateInv, NEW c \in Slot, Approved(c) \/ RefusedByOwner(c) \/ TimesOut(c)
  PROVE  GateInv'
<1>1. CASE Approved(c)
  <2>1. PICK k \in CallType : k.pc = "run" /\ k.who = call[c].who /\ k.hold = call[c].hold
              /\ call' = [call EXCEPT ![c] = k]
    BY <1>1, MovedOn DEF Approved, Dispatch
  <2>2. domains' \subseteq Page
    BY <1>1 DEF Approved, Covers, GateInv, GateTypeOK
  <2> QED
    BY <1>1, <2>1, <2>2, QuestionEnds DEF Approved, Dispatch
<1>2. CASE RefusedByOwner(c)
  <2>1. PICK k \in CallType : k.pc = "report" /\ k.who = call[c].who /\ k.hold = call[c].hold
              /\ call' = [call EXCEPT ![c] = k]
    BY <1>2, MovedOn DEF RefusedByOwner, NotRun
  <2>2. domains' \subseteq Page
    BY <1>2 DEF RefusedByOwner, NotRun, GateInv, GateTypeOK
  <2> QED
    BY <1>2, <2>1, <2>2, QuestionEnds DEF RefusedByOwner, NotRun
<1>3. CASE TimesOut(c)
  <2>1. PICK k \in CallType : k.pc = "report" /\ k.who = call[c].who /\ k.hold = call[c].hold
              /\ call' = [call EXCEPT ![c] = k]
    BY <1>3, MovedOn DEF TimesOut, NotRun
  <2>2. domains' \subseteq Page
    BY <1>3 DEF TimesOut, NotRun, GateInv, GateTypeOK
  <2> QED
    BY <1>3, <2>1, <2>2, QuestionEnds DEF TimesOut, NotRun
<1> QED
  BY <1>1, <1>2, <1>3

(* An answer given to a question that is open.                             *)
LEMMA AnswerStep ==
  ASSUME GateInv, NEW i \in DOMAIN question, NEW yes \in BOOLEAN, Answer(i, yes)
  PROVE  GateInv'
<1> USE DEF GateInv
<1>1. /\ question[i].verdict = "open" /\ UNCHANGED <<call, flying, unverified, page, domains, clicked>>
      /\ \E a \in {"yes", "no"} : question' = [question EXCEPT ![i].future = a]
  BY DEF Answer
<1>2. /\ question' \in Seq(QuestionType) /\ DOMAIN question' = DOMAIN question
      /\ \A j \in DOMAIN question : /\ question'[j].verdict = question[j].verdict
                                   /\ j # i => question'[j] = question[j]
  <2>1. PICK a \in {"yes", "no"} : question' = [question EXCEPT ![i].future = a]
    BY <1>1
  <2> DEFINE q == [question[i] EXCEPT !.future = a]
  <2>2. q \in QuestionType /\ q.verdict = question[i].verdict
    <3>1. question[i] \in QuestionType
      BY DEF GateTypeOK
    <3> QED
      BY <3>1 DEF QuestionType
  <2>3. question' = [question EXCEPT ![i] = q]
    BY <2>1
  <2> HIDE DEF q
  <2> QED
    BY <2>2, <2>3, QuestionReplaced DEF GateTypeOK
<1>3. GateTypeOK'
  BY <1>1, <1>2 DEF GateTypeOK
<1>4. Flagged' /\ OwnQuestion'
  BY <1>1 DEF Flagged, OwnQuestion, Asked
<1>5. Asks' /\ NoOrphanQuestion'
  BY <1>1, <1>2 DEF Asks, NoOrphanQuestion, Asked
<1>6. FlightsAgreed'
  BY <1>1, <1>2 DEF FlightsAgreed, Agrees
<1> QED
  BY <1>3, <1>4, <1>5, <1>6

(* Turns are cancelled with their questions, the others keep their verdict. *)
LEMMA CallsOffStep ==
  ASSUME GateInv, NEW turns \in SUBSET Slot, NEW rest \in [DOMAIN question -> QuestionType],
         \A i \in DOMAIN question :
            /\ rest[i].verdict = question[i].verdict
            /\ question[i].verdict # "open" => rest[i] = question[i],
         CallsOff(turns, rest)
  PROVE  GateInv'
<1> USE DEF GateInv
<1> DEFINE Ended(i) == \E c \in turns : Asked(c) /\ call[c].id = i
           After(i) == IF Ended(i) THEN [question[i] EXCEPT !.verdict = "cancelled"] ELSE rest[i]
<1>1. /\ question' = [i \in DOMAIN question |-> After(i)]
      /\ call' = [c \in Slot |-> IF c \in turns THEN Quiet ELSE call[c]]
      /\ UNCHANGED <<flying, unverified, page, domains, clicked>>
  BY DEF CallsOff
<1>2. /\ Len(question) \in Nat /\ DOMAIN question = 1 .. Len(question)
      /\ \A i \in DOMAIN question : question[i] \in QuestionType
  BY DEF GateTypeOK
<1>3. ASSUME NEW i \in DOMAIN question
      PROVE  /\ After(i) \in QuestionType
             /\ Ended(i) => After(i).verdict = "cancelled"
             /\ ~Ended(i) => After(i).verdict = question[i].verdict
             /\ question[i].verdict # "open" /\ ~Ended(i) => After(i) = question[i]
  <2>1. question[i] \in QuestionType /\ rest[i] \in QuestionType
    BY <1>2
  <2> HIDE DEF Ended
  <2> QED
    BY <2>1 DEF QuestionType
<1> HIDE DEF After
<1>4. question' \in Seq(QuestionType) /\ DOMAIN question' = DOMAIN question
  BY <1>1, <1>2, <1>3
<1>5. Quiet \in CallType
  BY DEF Quiet, CallType, Tool, Page
<1>6. GateTypeOK'
  BY <1>1, <1>4, <1>5 DEF GateTypeOK
<1>7. \A c \in Slot : /\ c \in turns => call'[c] = Quiet
                      /\ c \notin turns => call'[c] = call[c]
                      /\ Asked(c)' <=> Asked(c) /\ c \notin turns
  BY <1>1 DEF Asked, Quiet
<1>8. Flagged' /\ OwnQuestion'
  BY <1>1, <1>7 DEF Flagged, OwnQuestion, Quiet, Recognized
<1>9. \A i \in DOMAIN question : Ended(i) => question[i].verdict = "open"
  BY DEF Asks
<1>10. Asks'
  <2> SUFFICES ASSUME NEW c \in Slot, Asked(c), c \notin turns
               PROVE  /\ call[c].id \in DOMAIN question' /\ question'[call[c].id].verdict = "open"
                      /\ Recognized(call[c]) /\ call[c].tool \in {"change", "click"}
    BY <1>7 DEF Asks
  <2>1. ~Ended(call[c].id)
    BY DEF OwnQuestion
  <2> HIDE DEF Ended
  <2> QED
    BY <1>1, <1>3, <1>4, <2>1 DEF Asks
<1>11. FlightsAgreed'
  <2> SUFFICES ASSUME NEW f \in flying PROVE Agrees(f)'
    BY <1>1 DEF FlightsAgreed
  <2>1. f.id # 0 => question'[f.id] = question[f.id]
    <3> HIDE DEF Ended
    <3> QED
      BY <1>1, <1>3, <1>9 DEF FlightsAgreed, Agrees
  <2> QED
    BY <1>4, <2>1 DEF FlightsAgreed, Agrees
<1>12. NoOrphanQuestion'
  <2> SUFFICES ASSUME NEW i \in DOMAIN question, question'[i].verdict = "open"
               PROVE  \E d \in Slot : Asked(d)' /\ call'[d].id = i
    BY <1>4 DEF NoOrphanQuestion
  <2>1. ~Ended(i) /\ question[i].verdict = "open"
    <3> HIDE DEF Ended
    <3> QED
      BY <1>1, <1>3
  <2>2. PICK d \in Slot : Asked(d) /\ call[d].id = i
    BY <2>1 DEF NoOrphanQuestion
  <2> QED
    BY <1>7, <2>1, <2>2
<1> QED
  BY <1>6, <1>8, <1>10, <1>11, <1>12

(* The kill switch cancels the turns it reaches and refuses what is left;  *)
(* a barge-in cancels the turn it cuts off.                                *)
LEMMA KillStep ==
  ASSUME GateInv, Kill \/ \E c \in Slot : BargeIn(c)
  PROVE  GateInv'
<1>1. \A i \in DOMAIN question : question[i] \in QuestionType
  BY DEF GateInv, GateTypeOK
<1>2. CASE Kill
  <2> DEFINE turns == {c \in Killed : call[c].hold = "held"}
             rest == [i \in DOMAIN question |-> Refused(question[i])]
  <2>1. turns \in SUBSET Slot
    BY GateAssumption
  <2>2. ASSUME NEW i \in DOMAIN question
        PROVE  /\ rest[i] \in QuestionType /\ rest[i].verdict = question[i].verdict
               /\ question[i].verdict # "open" => rest[i] = question[i]
    BY <1>1 DEF Refused, QuestionType
  <2>3. rest \in [DOMAIN question -> QuestionType]
    BY <2>2
  <2>4. CallsOff(turns, rest)
    BY <1>2 DEF Kill
  <2> HIDE DEF turns, rest
  <2> QED
    BY <2>1, <2>2, <2>3, <2>4, CallsOffStep
<1>3. ASSUME NEW c \in Slot, BargeIn(c) PROVE GateInv'
  <2>1. question \in [DOMAIN question -> QuestionType]
    BY <1>1 DEF GateInv, GateTypeOK
  <2>2. CallsOff({c}, question)
    BY <1>3 DEF BargeIn
  <2> QED
    BY <2>1, <2>2, CallsOffStep
<1> QED
  BY <1>2, <1>3

(* A turn begins: the others of its channel are outrun.                    *)
LEMMA HearStep ==
  ASSUME GateInv, NEW c \in Slot, Hear(c)
  PROVE  GateInv'
<1> USE DEF GateInv
<1>1. PICK who \in {"owner", "stranger"} :
        /\ call' = [d \in Slot |->
             IF d = c THEN [Quiet EXCEPT !.pc = "turn", !.who = who]
             ELSE IF Outruns(c, d) THEN [call[d] EXCEPT !.hold = "outrun"] ELSE call[d]]
        /\ unverified' = IF c \in Voice THEN who = "stranger" ELSE unverified
        /\ c \in Voice \/ who = "owner"
  BY DEF Hear
<1> DEFINE n == [Quiet EXCEPT !.pc = "turn", !.who = who]
<1>2. n \in CallType /\ n.pc = "turn" /\ n.who = who
  BY DEF Quiet, CallType, Tool, Page
<1> HIDE DEF n
<1>3. ASSUME NEW d \in Slot, d # c
      PROVE  /\ call'[d] \in CallType /\ call'[d].pc = call[d].pc /\ call'[d].id = call[d].id
             /\ call'[d].tool = call[d].tool
             /\ Recognized(call[d]) => Recognized(call'[d])
             /\ Outruns(c, d) => Recognized(call'[d])
             /\ ~Outruns(c, d) => call'[d] = call[d]
  <2>1. call[d] \in CallType
    BY DEF GateTypeOK
  <2>2. call'[d] = IF Outruns(c, d) THEN [call[d] EXCEPT !.hold = "outrun"] ELSE call[d]
    BY <1>1, <1>3
  <2> QED
    BY <2>1, <2>2 DEF CallType, Recognized
<1>4. call'[c] = n /\ DOMAIN call' = Slot /\ call' = [d \in Slot |-> call'[d]]
  BY <1>1 DEF n
<1>5. UNCHANGED <<flying, page, domains, question, clicked>> /\ ~Asked(c) /\ ~Asked(c)'
  BY <1>2, <1>4 DEF Hear, Asked
<1>6. GateTypeOK'
  <2>1. \A d \in Slot : call'[d] \in CallType
    BY <1>2, <1>3, <1>4
  <2>2. call' \in [Slot -> CallType]
    BY <1>4, <2>1
  <2>3. unverified' \in BOOLEAN
    BY <1>1 DEF GateTypeOK
  <2> QED
    BY <1>5, <2>2, <2>3 DEF GateTypeOK
<1>7. Flagged'
  <2> SUFFICES ASSUME NEW d \in Slot, call'[d].pc # "none"
               PROVE  Recognized(call'[d]) \/ (d \in Voice /\ unverified')
    BY DEF Flagged
  <2>1. CASE d = c
    BY <1>1, <1>2, <1>4, <2>1 DEF Recognized
  <2>2. CASE d # c /\ ~Outruns(c, d)
    <3>1. Recognized(call[d]) \/ (d \in Voice /\ unverified)
      BY <1>3, <2>2 DEF Flagged
    <3>2. d \in Voice => unverified' = unverified
      BY <1>1, <1>3, <2>2 DEF Outruns
    <3> QED
      BY <1>3, <2>2, <3>1, <3>2
  <2> QED
    BY <1>3, <2>1, <2>2
<1>8. \A d \in Slot : Asked(d)' <=> Asked(d)
  BY <1>3, <1>5 DEF Asked
<1>9. Asks' /\ OwnQuestion' /\ NoOrphanQuestion'
  BY <1>3, <1>5, <1>8 DEF Asks, OwnQuestion, NoOrphanQuestion
<1>10. FlightsAgreed'
  BY <1>5 DEF FlightsAgreed, Agrees
<1> QED
  BY <1>6, <1>7, <1>9, <1>10

(* A turn that ends or reports has no question open.                       *)
LEMMA TurnStep ==
  ASSUME GateInv, NEW c \in Slot, TurnOver(c) \/ Report(c)
  PROVE  GateInv'
<1> USE DEF GateInv
<1>1. CASE TurnOver(c)
  <2>1. Quiet \in CallType /\ Quiet.pc = "none" /\ ~Asked(c)
    BY <1>1 DEF Quiet, CallType, Tool, Page, TurnOver, Asked
  <2> QED
    BY <1>1, <2>1, CallMoves DEF TurnOver
<1>2. CASE Report(c)
  <2> DEFINE k == [Quiet EXCEPT !.pc = "turn", !.who = call[c].who, !.hold = call[c].hold]
  <2>1. call[c] \in CallType /\ call[c].pc # "none" /\ ~Asked(c)
    BY <1>2 DEF Report, Asked, GateTypeOK
  <2>2. k \in CallType /\ k.pc = "turn" /\ k.who = call[c].who /\ k.hold = call[c].hold
    BY <2>1 DEF Quiet, CallType, Tool, Page
  <2>3. call' = [call EXCEPT ![c] = k]
    BY <1>2 DEF Report, At
  <2> HIDE DEF k
  <2>4. Recognized(k) \/ (c \in Voice /\ unverified)
    BY <2>1, <2>2 DEF Flagged, Recognized
  <2> QED
    BY <1>2, <2>1, <2>2, <2>3, <2>4, CallMoves DEF Report
<1> QED
  BY <1>1, <1>2

(* The page: the tools reach it and the owner uses it.                     *)
LEMMA PageStep ==
  ASSUME GateInv, (\E f \in flying : Land(f)) \/ OwnerBrowses \/ UNCHANGED gateVars
  PROVE  GateInv'
<1>1. page \in Page /\ clicked \subseteq Page /\ \A f \in flying : f.goal \in Page
  BY DEF GateInv, GateTypeOK, FlightType
<1>2. /\ UNCHANGED <<call, unverified, domains, question>> /\ flying' \subseteq flying
      /\ page' \in Page /\ clicked' \subseteq Page
  <2>1. ASSUME NEW f \in flying, Land(f) PROVE page' \in Page /\ clicked' \subseteq Page /\ flying' \subseteq flying /\ UNCHANGED <<call, unverified, domains, question>>
    BY <1>1, <2>1 DEF Land, Shows
  <2> QED
    BY <1>1, <2>1 DEF OwnerBrowses, Shows, gateVars, Page, Land
<1> QED
  BY <1>2, GateUntouched

(* Together: GateInv is an invariant of the gate.                          *)
LEMMA GateInductive == GateSpec => []GateInv
<1>1. GateInv /\ [GateNext]_gateVars => GateInv'
  BY HearStep, TurnStep, CallToolStep, VerdictStep, AnswerStep, KillStep, PageStep DEF GateNext, GateStep
<1> QED
  BY <1>1, GateStart, PTL DEF GateSpec

(* Nothing denied runs, nothing runs for a speaker who was not recognized  *)
(* unless a later utterance has taken the channel's flag over, and what    *)
(* changes the machine runs only after a yes that came through    *)
(* (classify_tool, ConfirmationManager.request).                           *)
THEOREM GateCorrect == GateSpec => []RunsOnlyOnYes
<1>1. GateInv => RunsOnlyOnYes
  BY DEF GateInv, FlightsAgreed, Agrees, Recognized, RunsOnlyOnYes
<1> QED
  BY <1>1, GateInductive, PTL

(* Every open question has a turn that waits for it, whoever answered,     *)
(* timed out or was killed before (ConfirmationManager.request).           *)
THEOREM QuestionsCorrect == GateSpec => []NoOrphanQuestion
<1>1. GateInv => NoOrphanQuestion
  BY DEF GateInv
<1> QED
  BY <1>1, GateInductive, PTL

-----------------------------------------------------------------------------
(* Which pages are acted on.                                               *)

(* As long as no page changed under a click: a click that is asked about   *)
(* is asked about on the page it will hit, one that flies hits a page that *)
(* was agreed to.                                                          *)
ClickInv ==
  ~moved =>
    /\ domains \subseteq Agreed
    /\ \A c \in Slot : Asked(c) /\ call[c].tool = "click" => question[call[c].id].on = page /\ ~shut
    /\ \A f \in flying : f.tool = "click" => page \in Agreed /\ ~shut
    /\ clicked \subseteq Agreed

(* A question keeps its page, and an agreed one stays agreed.              *)
QuestionsKept == \A i \in DOMAIN question :
  /\ i \in DOMAIN question' /\ question'[i].on = question[i].on
  /\ question[i].verdict = "approved" => question'[i].verdict = "approved"

(* A question that was approved stays so.                                  *)
LEMMA KeptAgreed ==
  ASSUME QuestionsKept
  PROVE  Agreed \subseteq Agreed'
  BY DEF QuestionsKept, Agreed

(* Closing one question changes no verdict that was given.                 *)
LEMMA ClosedKept ==
  ASSUME GateInv, NEW c \in Slot, Asked(c), NEW v \in {"approved", "refused", "timeout"},
         question' = Closed(c, v)
  PROVE  QuestionsKept /\ call[c].id \in DOMAIN question' /\ question'[call[c].id].verdict = v
<1> DEFINE n == call[c].id
<1>1. n \in DOMAIN question /\ question[n].verdict = "open"
  BY DEF GateInv, Asks
<1>2. \A i \in DOMAIN question : question[i] \in QuestionType
  BY DEF GateInv, GateTypeOK
<1>3. question' = [question EXCEPT ![n].verdict = v]
  BY DEF Closed
<1>4. /\ DOMAIN question' = DOMAIN question
      /\ \A i \in DOMAIN question : i # n => question'[i] = question[i]
      /\ question'[n] = [question[n] EXCEPT !.verdict = v]
  BY <1>1, <1>3
<1>5. question'[n].on = question[n].on /\ question'[n].verdict = v
  BY <1>1, <1>2, <1>4 DEF QuestionType
<1> HIDE DEF n
<1>6. QuestionsKept
  BY <1>1, <1>4, <1>5 DEF QuestionsKept
<1> QED
  BY <1>1, <1>4, <1>5, <1>6 DEF n

(* No call of c is asked about afterwards, the others stand where they     *)
(* stood, and the page and what was agreed too.                            *)
LEMMA ClickKept ==
  ASSUME ClickInv, QuestionsKept, ~moved' => ~moved /\ domains' \subseteq Agreed' /\ clicked' \subseteq Agreed',
         \A c \in Slot : Asked(c)' => Asked(c) /\ call'[c] = call[c] /\ call[c].id \in DOMAIN question,
         \A f \in flying' : f.tool = "click" => f \in flying,
         UNCHANGED <<page, shut>>
  PROVE  ClickInv'
<1> SUFFICES ASSUME ~moved' PROVE ClickInv'
  BY DEF ClickInv
<1>1. ~moved /\ Agreed \subseteq Agreed'
  BY KeptAgreed
<1>2. \A c \in Slot : Asked(c)' /\ call'[c].tool = "click" => question'[call'[c].id].on = page' /\ ~shut'
  BY <1>1 DEF ClickInv, QuestionsKept
<1>3. \A f \in flying' : f.tool = "click" => page' \in Agreed' /\ ~shut'
  BY <1>1 DEF ClickInv
<1> QED
  BY <1>1, <1>2, <1>3 DEF ClickInv

(* A call that is allowed hits a page agreed to; one that is asked about   *)
(* is asked about on the page it will hit.                                 *)
LEMMA ClickCalled ==
  ASSUME GateInv, ClickInv, NEW c \in Slot, NEW t \in Tool, CallTool(c, t)
  PROVE  ClickInv'
<1> SUFFICES ASSUME ~moved' PROVE ClickInv'
  BY DEF ClickInv
<1>1. /\ ~moved /\ (t = "click" => ~shut) /\ UNCHANGED <<page, shut, domains, clicked>>
      /\ call \in [Slot -> CallType]
  BY DEF CallTool, GateInv, GateTypeOK
<1>2. PICK goal \in Page :
        LET k == [call[c] EXCEPT !.tool = t, !.id = 0, !.goal = goal] IN
        \/ At(c, "report") /\ UNCHANGED <<flying, question>>
        \/ Allows(t) /\ Dispatch(c, k) /\ UNCHANGED question
        \/ /\ question' = Append(question, [future |-> "pending", verdict |-> "open", on |-> page])
           /\ call' = [call EXCEPT ![c] = [k EXCEPT !.pc = "asked", !.id = Len(question) + 1]]
           /\ UNCHANGED flying
  BY DEF CallTool, Page
<1> DEFINE k == [call[c] EXCEPT !.tool = t, !.id = 0, !.goal = goal]
<1>3. call[c] \in CallType /\ k.tool = t
  BY <1>1 DEF CallType
<1>4. \A d \in Slot : Asked(d) => call[d].id \in DOMAIN question
  BY DEF GateInv, Asks
<1>5. ASSUME At(c, "report") \/ At(c, "run"), UNCHANGED question
      PROVE  /\ \A d \in Slot : Asked(d)' => Asked(d) /\ call'[d] = call[d] /\ call[d].id \in DOMAIN question
             /\ QuestionsKept /\ Agreed' = Agreed /\ domains' \subseteq Agreed' /\ clicked' \subseteq Agreed'
  <2>1. ~Asked(c)' /\ \A d \in Slot : d # c => call'[d] = call[d]
    BY <1>1, <1>5 DEF At, Asked, Quiet
  <2>2. QuestionsKept /\ Agreed' = Agreed
    BY <1>5 DEF QuestionsKept, Agreed
  <2> QED
    BY <1>1, <1>4, <2>1, <2>2 DEF Asked, ClickInv
<1>7. CASE At(c, "report") /\ UNCHANGED <<flying, question>>
  BY <1>1, <1>5, <1>7, ClickKept
<1>8. CASE Allows(t) /\ Dispatch(c, k) /\ UNCHANGED question
  <2>1. At(c, "run") /\ flying' = flying \union {Flight(c, k)} /\ Flight(c, k).tool = t
    BY <1>3, <1>8 DEF Dispatch, Flight
  <2>2. /\ \A d \in Slot : Asked(d)' => Asked(d) /\ call'[d] = call[d]
        /\ Agreed' = Agreed /\ domains' \subseteq Agreed' /\ clicked' \subseteq Agreed'
    BY <1>5, <1>8, <2>1
  <2>3. t = "click" => page \in Agreed'
    BY <1>1, <1>8, <2>2 DEF Allows, ClickInv
  <2>4. \A f \in flying' : f.tool = "click" => page' \in Agreed' /\ ~shut'
    <3> HIDE DEF k
    <3> QED
      BY <1>1, <2>1, <2>2, <2>3 DEF ClickInv
  <2>5. \A d \in Slot : Asked(d)' /\ call'[d].tool = "click" => question'[call'[d].id].on = page' /\ ~shut'
    BY <1>1, <1>8, <2>2 DEF ClickInv
  <2> QED
    BY <2>2, <2>4, <2>5 DEF ClickInv
<1>6. CASE /\ question' = Append(question, [future |-> "pending", verdict |-> "open", on |-> page])
           /\ call' = [call EXCEPT ![c] = [k EXCEPT !.pc = "asked", !.id = Len(question) + 1]]
           /\ UNCHANGED flying
  <2>1. /\ Len(question) \in Nat /\ DOMAIN question = 1..Len(question)
        /\ \A i \in DOMAIN question : i \in DOMAIN question' /\ question'[i] = question[i]
        /\ question'[Len(question) + 1] = [future |-> "pending", verdict |-> "open", on |-> page]
    BY <1>6 DEF GateInv, GateTypeOK
  <2>2. QuestionsKept
    BY <2>1 DEF QuestionsKept
  <2>3. /\ \A d \in Slot : d # c => call'[d] = call[d]
        /\ call'[c] = [k EXCEPT !.pc = "asked", !.id = Len(question) + 1]
    BY <1>1, <1>6
  <2>4. call'[c].tool = t /\ call'[c].id = Len(question) + 1
    BY <1>3, <2>3 DEF CallType
  <2>5. \A d \in Slot : Asked(d)' /\ call'[d].tool = "click" => question'[call'[d].id].on = page' /\ ~shut'
    <3> SUFFICES ASSUME NEW d \in Slot, Asked(d)', call'[d].tool = "click"
                 PROVE  question'[call'[d].id].on = page' /\ ~shut'
      OBVIOUS
    <3>1. CASE d = c
      BY <1>1, <2>1, <2>4, <3>1
    <3>2. CASE d # c
      BY <1>1, <1>4, <2>1, <2>3, <3>2 DEF ClickInv, Asked
    <3> QED
      BY <3>1, <3>2
  <2>6. Agreed \subseteq Agreed'
    BY <2>2, KeptAgreed
  <2> QED
    BY <1>1, <1>6, <2>5, <2>6 DEF ClickInv
<1> QED
  BY <1>2, <1>6, <1>7, <1>8

(* Every click that lands was agreed to when it was dispatched.            *)
LEMMA ClickStep == GateInv /\ ClickInv /\ [GateNext]_gateVars => ClickInv'
<1> SUFFICES ASSUME GateInv, ClickInv, [GateNext]_gateVars PROVE ClickInv'
  OBVIOUS
<1>1. /\ call \in [Slot -> CallType]
      /\ \A d \in Slot : Asked(d) => call[d].id \in DOMAIN question
      /\ \A i \in DOMAIN question : question[i] \in QuestionType
  BY DEF GateInv, GateTypeOK, Asks
<1>2. ASSUME UNCHANGED <<question, domains, clicked, page, shut, moved>>, flying' \subseteq flying,
             \A d \in Slot : Asked(d)' => Asked(d) /\ call'[d] = call[d]
      PROVE  ClickInv'
  <2>1. QuestionsKept
    BY <1>2 DEF QuestionsKept
  <2> QED
    BY <1>1, <1>2, <2>1, ClickKept, KeptAgreed DEF ClickInv
<1>3. ASSUME NEW c \in Slot, TurnOver(c) \/ Report(c)
      PROVE  ClickInv'
  <2>1. UNCHANGED <<question, domains, clicked, page, shut, moved, flying>>
    BY <1>3 DEF TurnOver, Report
  <2>2. PICK k : k.pc # "asked" /\ call' = [call EXCEPT ![c] = k]
    <3>3. CASE TurnOver(c)
      BY <3>3 DEF TurnOver, Quiet
    <3>4. CASE Report(c)
      BY <3>4 DEF Report, At, Quiet
    <3> QED
      BY <1>3, <3>3, <3>4
  <2>3. ~Asked(c)' /\ \A d \in Slot : d # c => call'[d] = call[d]
    BY <1>1, <2>2 DEF Asked
  <2> QED
    BY <1>2, <2>1, <2>3 DEF Asked
<1>4. ASSUME NEW c \in Slot, Approved(c)
      PROVE  ClickInv'
  <2> SUFFICES ASSUME ~moved' PROVE ClickInv'
    BY DEF ClickInv
  <2>1. /\ Asked(c) /\ question' = Closed(c, "approved") /\ domains' = Covers(c)
        /\ At(c, "run") /\ flying' = flying \union {Flight(c, call[c])}
        /\ ~moved /\ UNCHANGED <<page, shut, clicked>>
    BY <1>4 DEF Approved, Dispatch
  <2>2. QuestionsKept /\ call[c].id \in DOMAIN question' /\ question'[call[c].id].verdict = "approved"
    BY <2>1, ClosedKept
  <2>3. Agreed \subseteq Agreed'
    BY <2>2, KeptAgreed
  <2>4. call[c].tool = "click" => page \in Agreed' /\ ~shut
    <3>1. call[c].tool = "click" => question[call[c].id].on = page /\ ~shut
      BY <2>1 DEF ClickInv
    <3>2. question'[call[c].id].on \in Agreed'
      BY <2>2 DEF Agreed
    <3>3. question'[call[c].id].on = question[call[c].id].on
      BY <1>1, <2>1, <2>2 DEF QuestionsKept
    <3> QED
      BY <3>1, <3>2, <3>3
  <2>5. domains' \subseteq Agreed' /\ clicked' \subseteq Agreed'
    BY <2>1, <2>3, <2>4 DEF Covers, ClickInv
  <2>6. ~Asked(c)' /\ \A d \in Slot : d # c => call'[d] = call[d]
    BY <1>1, <2>1 DEF At, Asked, Quiet
  <2>7. \A d \in Slot : Asked(d)' => Asked(d) /\ call'[d] = call[d] /\ question'[call[d].id].on = question[call[d].id].on
    BY <1>1, <2>2, <2>6 DEF Asked, QuestionsKept
  <2>8. \A d \in Slot : Asked(d)' /\ call'[d].tool = "click" => question'[call'[d].id].on = page' /\ ~shut'
    BY <2>1, <2>7 DEF ClickInv
  <2>9. \A f \in flying' : f.tool = "click" => page' \in Agreed' /\ ~shut'
    <3>1. Flight(c, call[c]).tool = call[c].tool
      BY DEF Flight
    <3> QED
      BY <2>1, <2>3, <2>4, <3>1 DEF ClickInv
  <2> QED
    BY <2>5, <2>8, <2>9 DEF ClickInv
<1>5. ASSUME NEW c \in Slot, RefusedByOwner(c) \/ TimesOut(c)
      PROVE  ClickInv'
  <2>1. PICK v \in {"refused", "timeout"} : Asked(c) /\ question' = Closed(c, v)
    BY <1>5 DEF RefusedByOwner, TimesOut, NotRun
  <2>2. At(c, "report") /\ UNCHANGED <<flying, page, shut, domains, clicked, moved>>
    BY <1>5 DEF RefusedByOwner, TimesOut, NotRun
  <2>3. QuestionsKept
    BY <2>1, ClosedKept
  <2>4. ~Asked(c)' /\ \A d \in Slot : d # c => call'[d] = call[d]
    BY <1>1, <2>2 DEF At, Asked, Quiet
  <2> QED
    BY <1>1, <2>2, <2>3, <2>4, ClickKept, KeptAgreed DEF ClickInv, Asked
<1>6. ASSUME NEW i \in DOMAIN question, NEW yes \in BOOLEAN, Answer(i, yes)
      PROVE  ClickInv'
  <2>1. /\ \E a \in {"yes", "no"} : question' = [question EXCEPT ![i].future = a]
        /\ UNCHANGED <<call, flying, page, shut, domains, clicked, moved>>
    BY <1>6 DEF Answer
  <2>2. QuestionsKept
    BY <1>1, <2>1 DEF QuestionsKept, QuestionType
  <2> QED
    BY <1>1, <2>1, <2>2, ClickKept, KeptAgreed DEF ClickInv, Asked
<1>7. ASSUME NEW turns \in SUBSET Slot, NEW rest, CallsOff(turns, rest),
             \A i \in DOMAIN question : /\ rest[i].on = question[i].on
                                       /\ rest[i].verdict = question[i].verdict
      PROVE  ClickInv'
  <2>1. /\ call' = [c \in Slot |-> IF c \in turns THEN Quiet ELSE call[c]]
        /\ UNCHANGED <<flying, page, shut, domains, clicked, moved>>
    BY <1>7 DEF CallsOff
  <2>2. QuestionsKept
    <3> DEFINE Ended(i) == \E c \in turns : Asked(c) /\ call[c].id = i
    <3> DEFINE After(i) == IF Ended(i) THEN [question[i] EXCEPT !.verdict = "cancelled"] ELSE rest[i]
    <3>1. question' = [i \in DOMAIN question |-> After(i)]
      BY <1>7 DEF CallsOff
    <3>2. \A i \in DOMAIN question : Ended(i) => question[i].verdict # "approved"
      BY DEF GateInv, Asks
    <3>3. ASSUME NEW i \in DOMAIN question
          PROVE  After(i).on = question[i].on /\ (~Ended(i) => After(i).verdict = question[i].verdict)
      <4> HIDE DEF Ended
      <4> QED
        BY <1>1, <1>7 DEF QuestionType
    <3> HIDE DEF Ended, After
    <3> QED
      BY <3>1, <3>2, <3>3 DEF QuestionsKept
  <2>3. \A d \in Slot : Asked(d)' => Asked(d) /\ call'[d] = call[d]
    BY <2>1 DEF Asked, Quiet
  <2> QED
    BY <1>1, <2>1, <2>2, <2>3, ClickKept, KeptAgreed DEF ClickInv
<1>12. CASE Kill
  <2> DEFINE turns == {c \in Killed : call[c].hold = "held"}
             rest == [i \in DOMAIN question |-> Refused(question[i])]
  <2>1. turns \in SUBSET Slot /\ CallsOff(turns, rest)
    BY <1>12, GateAssumption DEF Kill
  <2>2. ASSUME NEW i \in DOMAIN question
        PROVE  rest[i].on = question[i].on /\ rest[i].verdict = question[i].verdict
    BY <1>1 DEF Refused, QuestionType
  <2> HIDE DEF turns, rest
  <2> QED
    BY <1>7, <2>1, <2>2
<1>13. ASSUME NEW c \in Slot, BargeIn(c) PROVE ClickInv'
  BY <1>7, <1>13 DEF BargeIn
<1>14. ASSUME NEW c \in Slot, Hear(c) PROVE ClickInv'
  <2>1. UNCHANGED <<question, domains, clicked, page, shut, moved, flying>> /\ ~Asked(c)
    BY <1>14 DEF Hear, Asked
  <2>2. QuestionsKept
    BY <2>1 DEF QuestionsKept
  <2>3. ASSUME NEW d \in Slot, Asked(d)'
        PROVE  /\ Asked(d) /\ call[d].id \in DOMAIN question
               /\ call'[d].id = call[d].id /\ call'[d].tool = call[d].tool
    <3>1. d # c
      BY <1>14, <2>3 DEF Hear, Asked, Quiet
    <3>2. call'[d] = IF Outruns(c, d) THEN [call[d] EXCEPT !.hold = "outrun"] ELSE call[d]
      BY <1>14, <3>1 DEF Hear
    <3>3. call'[d].pc = call[d].pc /\ call'[d].id = call[d].id /\ call'[d].tool = call[d].tool
      BY <1>1, <3>2 DEF CallType
    <3> QED
      BY <1>1, <2>3, <3>3 DEF Asked
  <2> QED
    BY <2>1, <2>2, <2>3, KeptAgreed DEF ClickInv, Agreed
<1>8. ASSUME UNCHANGED <<call, domains, question>>, flying' \subseteq flying,
             NEW d \in Page, page' = d, shut' \in BOOLEAN,
             moved' = (moved \/ ((d # page \/ shut') /\ Clicking)),
             ~moved' => clicked' \subseteq Agreed
      PROVE  ClickInv'
  <2> SUFFICES ASSUME ~moved' PROVE ClickInv'
    BY DEF ClickInv
  <2>1. ~moved /\ Agreed' = Agreed /\ ~((d # page \/ shut') /\ Clicking)
    BY <1>8 DEF Agreed
  <2>2. \A c \in Slot : Asked(c)' <=> Asked(c)
    BY <1>8 DEF Asked
  <2>3. CASE Clicking
    <3>1. page' = page /\ ~shut'
      BY <1>8, <2>1, <2>3
    <3> QED
      BY <1>8, <2>1, <2>2, <3>1 DEF ClickInv
  <2>4. CASE ~Clicking
    <3>1. \A c \in Slot : ~(Asked(c) /\ call[c].tool = "click")
      BY <2>4 DEF Clicking, Asked
    <3>2. \A f \in flying : f.tool # "click"
      BY <2>4 DEF Clicking
    <3> QED
      BY <1>8, <2>1, <2>2, <3>1, <3>2 DEF ClickInv
  <2> QED
    BY <2>3, <2>4
<1>9. ASSUME NEW f \in flying, Land(f)
      PROVE  ClickInv'
  <2>1. flying' \subseteq flying /\ UNCHANGED <<call, domains, question>>
    BY <1>9 DEF Land
  <2>2. page \in Page /\ f.goal \in Page
    BY DEF GateInv, GateTypeOK, FlightType
  <2>3. CASE UNCHANGED <<page, shut, moved, clicked>>
    BY <1>2, <2>1, <2>3 DEF Asked
  <2>4. CASE Shows(f.goal) /\ clicked' = clicked
    <3>1. page' = f.goal /\ shut' = FALSE /\ moved' = (moved \/ ((f.goal # page \/ shut') /\ Clicking))
      BY <2>4 DEF Shows
    <3>2. ~moved' => clicked' \subseteq Agreed
      BY <2>4, <3>1 DEF ClickInv
    <3> QED
      BY <1>8, <2>1, <2>2, <3>1, <3>2
  <2>5. CASE f.tool = "click" /\ \E d \in IF shut THEN Page ELSE {page} : Shows(d) /\ clicked' = clicked \union {d}
    <3>1. PICK d \in IF shut THEN Page ELSE {page} : Shows(d) /\ clicked' = clicked \union {d}
      BY <2>5
    <3>2. page' = d /\ shut' = FALSE /\ moved' = (moved \/ ((d # page \/ shut') /\ Clicking)) /\ d \in Page
      BY <2>2, <3>1 DEF Shows
    <3>3. ~moved' => clicked' \subseteq Agreed
      BY <2>5, <3>1, <3>2 DEF ClickInv
    <3> QED
      BY <1>8, <2>1, <3>2, <3>3
  <2> QED
    BY <1>9, <2>3, <2>4, <2>5 DEF Land
<1>10. CASE OwnerBrowses
  <2>1. UNCHANGED <<call, flying, domains, question, clicked>>
    BY <1>10 DEF OwnerBrowses
  <2>2. PICK d \in Page : /\ page' = d /\ shut' \in BOOLEAN
                          /\ moved' = (moved \/ ((d # page \/ shut') /\ Clicking))
    <3>1. page \in Page
      BY DEF GateInv, GateTypeOK
    <3> QED
      BY <1>10, <3>1 DEF OwnerBrowses, Shows, Page
  <2>3. ~moved' => clicked' \subseteq Agreed
    BY <2>1, <2>2 DEF ClickInv
  <2> QED
    BY <1>8, <2>1, <2>2, <2>3
<1>11. CASE UNCHANGED gateVars
  BY <1>2, <1>11 DEF gateVars, Asked
<1> QED
  BY <1>3, <1>4, <1>5, <1>6, <1>9, <1>10, <1>11, <1>12, <1>13, <1>14, ClickCalled DEF GateNext, GateStep

(* A page is acted on only after a yes to a question that was asked on it, *)
(* as long as no page changes under a click that is asked about or flies   *)
(* (note_approval and classify_tool of core/safety.py, tools/browser.py).  *)
THEOREM ClickCorrect == GateSpec => []ClickedWasAsked
<1>1. GateInit => ClickInv
  BY DEF GateInit, ClickInv, Asked, Quiet
<1>2. ClickInv => ClickedWasAsked
  BY DEF ClickInv, ClickedWasAsked
<1> QED
  BY <1>1, <1>2, ClickStep, GateInductive, PTL DEF GateSpec

-----------------------------------------------------------------------------
(* Which commands run unasked.                                             *)

(* One step of classify_shell's loop: the class so far against that of     *)
(* the next piece.                                                         *)
Stricter(k, sofar) ==
  IF sofar = "deny" THEN "deny" ELSE IF Severity(k) > Severity(sofar) THEN k ELSE sofar

(* What one piece adds to the verdict so far.                              *)
LEMMA ClassFacts ==
  ASSUME NEW p, NEW w, NEW v \in Class
  PROVE  /\ ClassOf(p, w) \in Class /\ Stricter(ClassOf(p, w), v) \in Class
         /\ ClassOf(p, w) = "deny" <=> DeniedPiece(p, w)
         /\ ClassOf(p, w) = "allow" => "read-only" \in p /\ p \intersect {"redirect", "shutdown"} = {}
         /\ Stricter(ClassOf(p, w), v) = "deny" <=> v = "deny" \/ ClassOf(p, w) = "deny"
         /\ Stricter(ClassOf(p, w), v) = "allow" <=> v = "allow" /\ ClassOf(p, w) = "allow"
<1> DEFINE k == ClassOf(p, w)
<1>1. k \in Class /\ (k = "deny" <=> DeniedPiece(p, w))
  BY DEF ClassOf, Class
<1>2. k = "allow" => "read-only" \in p /\ p \intersect {"redirect", "shutdown"} = {}
  BY DEF ClassOf, ReadOnly, Has
<1> HIDE DEF k
<1>3. /\ Stricter(k, v) \in Class
      /\ Stricter(k, v) = "deny" <=> v = "deny" \/ k = "deny"
      /\ Stricter(k, v) = "allow" <=> v = "allow" /\ k = "allow"
  BY <1>1 DEF Class, Stricter, Severity
<1>4. QED
  BY <1>1, <1>2, <1>3 DEF k

AllAllowed(s, w, n) == \A i \in 1..n : ClassOf(s[i], w) = "allow"
SomeDenied(s, w, n) == \E i \in 1..n : DeniedPiece(s[i], w)

(* What the loop holds after n pieces.                                     *)
Sums(a, s, w, n) ==
  /\ a[n] \in Class
  /\ a[n] = "deny" <=> SomeDenied(s, w, n)
  /\ a[n] = "allow" <=> AllAllowed(s, w, n)

(* It holds that after every piece: the least n for which it does not      *)
(* would follow from the one before.                                       *)
LEMMA SumsUp ==
  ASSUME NEW s, NEW w, NEW m \in Nat, NEW a,
         a = [i \in 0..m |-> IF i = 0 THEN "allow" ELSE Stricter(ClassOf(s[i], w), a[i - 1])]
  PROVE  \A n \in 0..m : Sums(a, s, w, n)
<1> DEFINE Bad == {n \in 0..m : ~Sums(a, s, w, n)}
<1> SUFFICES ASSUME Bad # {} PROVE FALSE
  OBVIOUS
<1> DEFINE R == OpToRel(<, Nat)
<1>1. IsWellFoundedOn(R, Nat)
  BY NatLessThanWellFounded
<1>2. \A x, y \in Nat : <<x, y>> \in R <=> x < y
  BY DEF OpToRel
<1> HIDE DEF R
<1>3. Bad \subseteq Nat
  OBVIOUS
<1>4. PICK n \in Bad : \A x \in Bad : ~(<<x, n>> \in R)
  <2> HIDE DEF Bad
  <2> QED
    BY <1>1, <1>3, WFMin
<1>5. n \in 0..m /\ ~Sums(a, s, w, n)
  BY <1>4
<1>6. n # 0
  <2> SUFFICES Sums(a, s, w, 0)
    BY <1>5
  <2>1. a[0] = "allow" /\ 1..0 = {}
    OBVIOUS
  <2> QED
    BY <2>1 DEF Sums, SomeDenied, AllAllowed, Class
<1>7. n - 1 \in 0..m /\ n - 1 < n
  BY <1>5, <1>6
<1>8. Sums(a, s, w, n - 1)
  <2>1. n - 1 \notin Bad
    BY <1>2, <1>3, <1>4, <1>5, <1>7
  <2> QED
    BY <1>7, <2>1
<1> HIDE DEF Bad
<1>9. a[n] = Stricter(ClassOf(s[n], w), a[n - 1])
  BY <1>5, <1>6
<1>10. 1..n = 1..(n - 1) \union {n}
  BY <1>5, <1>6
<1>11. /\ SomeDenied(s, w, n) <=> SomeDenied(s, w, n - 1) \/ DeniedPiece(s[n], w)
       /\ AllAllowed(s, w, n) <=> AllAllowed(s, w, n - 1) /\ ClassOf(s[n], w) = "allow"
  BY <1>10 DEF SomeDenied, AllAllowed
<1>12. Sums(a, s, w, n)
  BY <1>8, <1>9, <1>11, ClassFacts DEF Sums
<1> QED
  BY <1>5, <1>12

(* The recursive function of Verdict is such a loop.                       *)
LEMMA VerdictFacts ==
  ASSUME NEW s, Len(s) \in Nat, NEW w
  PROVE  /\ Verdict(s, w) \in Class
         /\ Verdict(s, w) = "deny" <=> "obfuscated" \in w \/ SomeDenied(s, w, Len(s))
         /\ Verdict(s, w) = "allow" <=>
              w \intersect {"obfuscated", "backtick"} = {} /\ AllAllowed(s, w, Len(s))
<1> DEFINE Def(v, i) == IF v = "deny" THEN "deny"
                        ELSE LET k == ClassOf(s[i], w) IN IF Severity(k) > Severity(v) THEN k ELSE v
<1> DEFINE after[i \in 0..Len(s)] ==
        IF i = 0 THEN "allow"
        ELSE IF after[i - 1] = "deny" THEN "deny"
        ELSE LET k == ClassOf(s[i], w) IN
             IF Severity(k) > Severity(after[i - 1]) THEN k ELSE after[i - 1]
<1>1. Verdict(s, w) = IF Has(w, "obfuscated") THEN "deny"
                      ELSE IF Has(w, "backtick") /\ after[Len(s)] = "allow" THEN "confirm"
                      ELSE after[Len(s)]
  BY DEF Verdict
<1>2. FiniteNatInductiveDefHypothesis(after, "allow", Def, 0, Len(s))
  BY DEF FiniteNatInductiveDefHypothesis
<1>3. FiniteNatInductiveDefConclusion(after, "allow", Def, 0, Len(s))
  <2> HIDE DEF Def, after
  <2> QED
    BY <1>2, FiniteNatInductiveDef
<1>4. after = [i \in 0..Len(s) |-> IF i = 0 THEN "allow" ELSE Stricter(ClassOf(s[i], w), after[i - 1])]
  <2> HIDE DEF after
  <2> QED
    BY <1>3 DEF FiniteNatInductiveDefConclusion, Stricter
<1> HIDE DEF after
<1>5. Sums(after, s, w, Len(s))
  BY <1>4, SumsUp
<1> QED
  BY <1>1, <1>5 DEF Sums, Has, Class

(* The verdict of every command, of any length: denied if and only if it   *)
(* is obfuscated or one of its pieces is denied alone, and allowed if and  *)
(* only if there is no backtick either and every piece is allowed alone;   *)
(* so neither the order of the pieces nor the first denial cutting the     *)
(* loop short changes what a piece does to the whole (classify_shell of    *)
(* core/safety.py).                                                        *)
THEOREM StrictestDecides ==
  ASSUME NEW s \in Seq(SUBSET Mark), NEW w \in SUBSET WholeMark
  PROVE  /\ Verdict(s, w) \in Class
         /\ Verdict(s, w) = "deny" <=> "obfuscated" \in w \/ \E i \in DOMAIN s : DeniedPiece(s[i], w)
         /\ Verdict(s, w) = "allow" <=> /\ w \intersect {"obfuscated", "backtick"} = {}
                                       /\ \A i \in DOMAIN s : ClassOf(s[i], w) = "allow"
<1>1. Len(s) \in Nat /\ DOMAIN s = 1..Len(s)
  OBVIOUS
<1> QED
  BY <1>1, VerdictFacts DEF SomeDenied, AllAllowed

(* A verdict is the one its pieces get.                                    *)
ShellInv ==
  /\ pieces \in Seq(SUBSET Mark) /\ Len(pieces) \in Nat
  /\ verdict # "none" => verdict = Verdict(pieces, whole)

(* A verdict is always that of the pieces it was asked about.              *)
LEMMA ShellInductive == ShellSpec => []ShellInv
<1>1. ShellInit => ShellInv
  BY DEF ShellInit, ShellInv
<1>2. ShellInv /\ [ShellNext]_shellVars => ShellInv'
  <2> SUFFICES ASSUME ShellInv, [ShellNext]_shellVars PROVE ShellInv'
    OBVIOUS
  <2>1. CASE Classify
    BY <2>1 DEF Classify, ShellInv
  <2>2. ASSUME NEW p \in Piece, Types(p) PROVE ShellInv'
    <3>1. p \in SUBSET Mark
      BY DEF Piece, kSubset
    <3> QED
      BY <2>2, <3>1 DEF Types, ShellInv
  <2>3. CASE UNCHANGED shellVars
    BY <2>3 DEF shellVars, ShellInv
  <2> QED
    BY <2>1, <2>2, <2>3 DEF ShellNext
<1> QED
  BY <1>1, <1>2, PTL DEF ShellSpec

(* Nothing runs unasked but a chain of read-only commands, with no         *)
(* redirection, backtick, tampering or shutdown in any of them, and what   *)
(* is denied alone is denied in any company: for every command             *)
(* (_classify_segment and classify_shell of core/safety.py).               *)
THEOREM UnaskedCorrect == ShellSpec => []UnaskedIsReadOnly
<1>1. ShellInv => UnaskedIsReadOnly
  <2> SUFFICES ASSUME ShellInv, verdict # "none" PROVE UnaskedIsReadOnly
    BY DEF UnaskedIsReadOnly
  <2>1. verdict = Verdict(pieces, whole) /\ Len(pieces) \in Nat /\ DOMAIN pieces = 1..Len(pieces)
    BY DEF ShellInv
  <2>2. ASSUME NEW i \in 1..Len(pieces), ClassOf(pieces[i], whole) = "allow"
        PROVE  Has(pieces[i], "read-only") /\ pieces[i] \intersect {"redirect", "tampering", "shutdown"} = {}
    <3>1. "allow" \in Class
      BY DEF Class
    <3>2. /\ ~DeniedPiece(pieces[i], whole)
          /\ "read-only" \in pieces[i] /\ pieces[i] \intersect {"redirect", "shutdown"} = {}
      BY <2>2, <3>1, ClassFacts
    <3>3. "tampering" \notin pieces[i]
      BY <3>2 DEF DeniedPiece, Has
    <3> QED
      BY <3>2, <3>3 DEF Has
  <2>3. verdict = "allow" =>
          whole \intersect {"obfuscated", "backtick"} = {} /\ AllAllowed(pieces, whole, Len(pieces))
    BY <2>1, VerdictFacts
  <2>4. verdict \in {"allow", "confirm"} => ~SomeDenied(pieces, whole, Len(pieces))
    BY <2>1, VerdictFacts
  <2> QED
    BY <2>1, <2>2, <2>3, <2>4 DEF UnaskedIsReadOnly, AllAllowed, SomeDenied
<1> QED
  BY <1>1, ShellInductive, PTL

(* The messages of a turn on their way to a provider.                      *)

(* What holds of 0 and, up to m, of every number after one of which it     *)
(* holds, holds up to m.                                                   *)
LEMMA CountUp ==
  ASSUME NEW m \in Nat, NEW S, 0 \in S, \A n \in 1..m : n - 1 \in S => n \in S
  PROVE  \A n \in 0..m : n \in S
<1> DEFINE Bad == {n \in 0..m : n \notin S}
<1> DEFINE R == OpToRel(<, Nat)
<1> SUFFICES ASSUME Bad # {} PROVE FALSE
  OBVIOUS
<1>1. IsWellFoundedOn(R, Nat)
  BY NatLessThanWellFounded
<1>2. \A x, y \in Nat : <<x, y>> \in R <=> x < y
  BY DEF OpToRel
<1>3. Bad \subseteq Nat
  OBVIOUS
<1> HIDE DEF R
<1>4. PICK n \in Bad : \A x \in Bad : ~(<<x, n>> \in R)
  <2> HIDE DEF Bad
  <2> QED
    BY <1>1, <1>3, WFMin
<1>5. n \in 1..m /\ n - 1 \in 0..m /\ n - 1 < n /\ n \notin S
  BY <1>4
<1>6. n - 1 \notin Bad
  BY <1>2, <1>3, <1>4, <1>5
<1> QED
  BY <1>5, <1>6

(* The loop of Keep.                                                       *)
LEMMA KeepLoop ==
  ASSUME NEW s, Len(s) \in Nat, NEW I
  PROVE  \E kept :
           /\ kept = [n \in 0..Len(s) |->
                        IF n = 0 THEN <<>>
                        ELSE IF n \in I THEN Append(kept[n - 1], s[n]) ELSE kept[n - 1]]
           /\ Keep(s, I) = kept[Len(s)]
<1> DEFINE Def(v, i) == IF i \in I THEN Append(v, s[i]) ELSE v
<1> DEFINE kept[n \in 0..Len(s)] ==
             IF n = 0 THEN <<>>
             ELSE IF n \in I THEN Append(kept[n - 1], s[n]) ELSE kept[n - 1]
<1>1. Keep(s, I) = kept[Len(s)]
  BY DEF Keep
<1>2. FiniteNatInductiveDefHypothesis(kept, <<>>, Def, 0, Len(s))
  BY DEF FiniteNatInductiveDefHypothesis
<1>3. FiniteNatInductiveDefConclusion(kept, <<>>, Def, 0, Len(s))
  <2> HIDE DEF Def, kept
  <2> QED
    BY <1>2, FiniteNatInductiveDef
<1>4. kept = [n \in 0..Len(s) |-> IF n = 0 THEN <<>>
                                  ELSE IF n \in I THEN Append(kept[n - 1], s[n]) ELSE kept[n - 1]]
  <2> HIDE DEF kept
  <2> QED
    BY <1>3 DEF FiniteNatInductiveDefConclusion
<1> HIDE DEF kept
<1> QED
  BY <1>1, <1>4

(* u is the rows of s at the positions J, in order: f says where each is   *)
(* from.                                                                   *)
Lists(f, u, s, J) ==
  /\ f \in [1..Len(u) -> J]
  /\ \A j, k \in 1..Len(u) : j < k => f[j] < f[k]
  /\ \A i \in J : \E k \in 1..Len(u) : f[k] = i
  /\ \A k \in 1..Len(u) : u[k] = s[f[k]]

(* One more row that is kept.                                              *)
LEMMA ListsAppend ==
  ASSUME NEW T, NEW u \in Seq(T), NEW s, NEW J, J \subseteq Nat, NEW f, Lists(f, u, s, J),
         NEW n \in Nat, \A i \in J : i < n, s[n] \in T
  PROVE  Append(u, s[n]) \in Seq(T) /\ \E g : Lists(g, Append(u, s[n]), s, J \union {n})
<1> DEFINE v == Append(u, s[n])
           g == [k \in 1..Len(u) + 1 |-> IF k = Len(u) + 1 THEN n ELSE f[k]]
<1>1. /\ v \in Seq(T) /\ Len(u) \in Nat /\ Len(v) = Len(u) + 1 /\ v[Len(u) + 1] = s[n]
      /\ \A k \in 1..Len(u) : v[k] = u[k]
  OBVIOUS
<1> HIDE DEF v
<1>2. /\ \A k \in 1..Len(u) : g[k] = f[k] /\ f[k] \in J /\ f[k] < n /\ f[k] \in Nat
      /\ g[Len(u) + 1] = n
  <2>1. g[Len(u) + 1] = n /\ \A k \in 1..Len(u) : g[k] = f[k]
    BY <1>1
  <2>2. \A k \in 1..Len(u) : f[k] \in J
    BY DEF Lists
  <2> HIDE DEF g
  <2> QED
    BY <2>1, <2>2
<1>3. \A k \in 1..Len(v) : k \in 1..Len(u) \/ k = Len(u) + 1
  BY <1>1
<1>4. g \in [1..Len(v) -> J \union {n}]
  BY <1>1, <1>2, <1>3
<1> HIDE DEF g
<1>5. ASSUME NEW j \in 1..Len(v), NEW k \in 1..Len(v), j < k
      PROVE  g[j] < g[k]
  <2>1. j \in 1..Len(u)
    BY <1>1, <1>5
  <2>2. CASE k \in 1..Len(u)
    BY <1>2, <1>5, <2>1, <2>2 DEF Lists
  <2>3. CASE k = Len(u) + 1
    BY <1>2, <2>1, <2>3
  <2> QED
    BY <1>3, <2>2, <2>3
<1>6. ASSUME NEW i \in J \union {n} PROVE \E k \in 1..Len(v) : g[k] = i
  <2>1. CASE i \in J
    <3>1. PICK k \in 1..Len(u) : f[k] = i
      BY <2>1 DEF Lists
    <3> QED
      BY <1>1, <1>2, <3>1
  <2>2. CASE i = n
    BY <1>1, <1>2, <2>2
  <2> QED
    BY <2>1, <2>2
<1>7. \A k \in 1..Len(v) : v[k] = s[g[k]]
  BY <1>1, <1>2, <1>3 DEF Lists
<1>8. Lists(g, v, s, J \union {n})
  BY <1>4, <1>5, <1>6, <1>7 DEF Lists
<1> QED
  BY <1>1, <1>8 DEF v

(* Keep lists the rows at the positions it is given.                       *)
LEMMA KeepLists ==
  ASSUME NEW T, NEW s \in Seq(T), NEW I
  PROVE  Keep(s, I) \in Seq(T) /\ \E f : Lists(f, Keep(s, I), s, I \intersect DOMAIN s)
<1>1. PICK m \in Nat : m = Len(s)
  OBVIOUS
<1>2. DOMAIN s = 1..m /\ \A n \in 1..m : s[n] \in T
  BY <1>1
<1>3. PICK kept :
        /\ kept = [n \in 0..m |-> IF n = 0 THEN <<>>
                                  ELSE IF n \in I THEN Append(kept[n - 1], s[n]) ELSE kept[n - 1]]
        /\ Keep(s, I) = kept[m]
  BY <1>1, KeepLoop
<1> DEFINE Fine(n) == kept[n] \in Seq(T) /\ \E f : Lists(f, kept[n], s, I \intersect 1..n)
           S == {n \in 0..m : Fine(n)}
<1>4. Fine(0)
  <2>1. kept[0] = <<>> /\ I \intersect 1..0 = {}
    BY <1>3
  <2>2. Lists([k \in 1..0 |-> 0], <<>>, s, {})
    BY DEF Lists
  <2> QED
    BY <2>1, <2>2
<1>5. ASSUME NEW n \in 1..m, n - 1 \in S PROVE n \in S
  <2>1. n \in Nat /\ n \in 0..m /\ n # 0 /\ n - 1 \in 0..m /\ Fine(n - 1)
    <3> HIDE DEF Fine
    <3> QED
      BY <1>5
  <2>2. kept[n] = IF n \in I THEN Append(kept[n - 1], s[n]) ELSE kept[n - 1]
    BY <1>3, <2>1
  <2>3. PICK f : Lists(f, kept[n - 1], s, I \intersect 1..(n - 1))
    BY <2>1
  <2>4. CASE n \in I
    <3>1. I \intersect 1..n = (I \intersect 1..(n - 1)) \union {n}
      BY <2>1, <2>4
    <3>2. I \intersect 1..(n - 1) \subseteq Nat /\ \A i \in I \intersect 1..(n - 1) : i < n
      BY <2>1
    <3>3. kept[n] = Append(kept[n - 1], s[n])
      BY <2>2, <2>4
    <3>4. kept[n - 1] \in Seq(T) /\ s[n] \in T
      BY <1>2, <2>1
    <3>5. Append(kept[n - 1], s[n]) \in Seq(T)
          /\ \E g : Lists(g, Append(kept[n - 1], s[n]), s, (I \intersect 1..(n - 1)) \union {n})
      <4> HIDE DEF Fine, S
      <4> QED
        BY <2>1, <2>3, <3>2, <3>4, ListsAppend
    <3> QED
      BY <2>1, <3>1, <3>3, <3>5
  <2>5. CASE n \notin I
    <3>1. I \intersect 1..n = I \intersect 1..(n - 1)
      BY <2>1, <2>5
    <3> QED
      BY <2>1, <2>2, <2>5, <3>1
  <2> QED
    BY <2>4, <2>5
<1>6. 0 \in S
  BY <1>4
<1>7. m \in S
  <2> HIDE DEF S
  <2>1. \A n \in 0..m : n \in S
    BY <1>5, <1>6, CountUp
  <2> QED
    BY <2>1
<1> QED
  BY <1>2, <1>3, <1>7

(* Two lists take the same positions.                                      *)
Agree(f, g, n) == \A k \in 1..n : f[k] = g[k]

(* The same, for positions that are all there.                             *)
LEMMA KeepListsAt ==
  ASSUME NEW T, NEW s \in Seq(T), NEW I, I \subseteq DOMAIN s
  PROVE  Keep(s, I) \in Seq(T) /\ \E f : Lists(f, Keep(s, I), s, I)
<1>1. I \intersect DOMAIN s = I
  OBVIOUS
<1> QED
  BY <1>1, KeepLists

(* There is only one such list.                                            *)
LEMMA ListsAgree ==
  ASSUME NEW u, NEW v, NEW s, NEW J, J \subseteq Nat, NEW f, NEW g,
         Len(u) \in Nat, Len(v) \in Nat, Lists(f, u, s, J), Lists(g, v, s, J)
  PROVE  Len(u) <= Len(v) /\ Agree(f, g, Len(u))
<1> DEFINE S == {n \in 0..Len(u) : n <= Len(v) /\ \A k \in 1..n : f[k] = g[k]}
<1>1. 0 \in S
  OBVIOUS
<1>2. ASSUME NEW n \in 1..Len(u), n - 1 \in S PROVE n \in S
  <2>1. n - 1 <= Len(v) /\ (\A k \in 1..(n - 1) : f[k] = g[k]) /\ n \in Nat /\ n \in 0..Len(u)
    BY <1>2
  <2>2. f[n] \in J /\ \A k \in 1..(n - 1) : f[k] < f[n]
    <3>1. \A k \in 1..(n - 1) : k \in 1..Len(u) /\ k < n
      BY <1>2
    <3> QED
      BY <3>1 DEF Lists
  <2>3. PICK k \in 1..Len(v) : g[k] = f[n]
    BY <2>2 DEF Lists
  <2>4. ~(k <= n - 1)
    <3> SUFFICES ASSUME k \in 1..(n - 1) PROVE FALSE
      BY <2>1, <2>3
    <3>1. f[k] = f[n] /\ f[k] < f[n]
      BY <2>1, <2>2, <2>3
    <3>2. f[n] \in Nat
      BY <2>2
    <3> QED
      BY <3>1, <3>2
  <2>5. n <= k /\ n <= Len(v) /\ n \in 1..Len(v)
    BY <2>1, <2>3, <2>4
  <2>6. g[n] \in J /\ \A j \in 1..(n - 1) : g[j] < g[n]
    BY <2>5 DEF Lists
  <2>7. PICK j \in 1..Len(u) : f[j] = g[n]
    BY <2>6 DEF Lists
  <2>8. ~(j <= n - 1)
    <3> SUFFICES ASSUME j \in 1..(n - 1) PROVE FALSE
      BY <2>1, <2>7
    <3>1. g[j] = g[n] /\ g[j] < g[n]
      BY <2>1, <2>6, <2>7
    <3>2. g[n] \in Nat
      BY <2>6
    <3> QED
      BY <3>1, <3>2
  <2>9. (n = k \/ g[n] < g[k]) /\ (n = j \/ f[n] < f[j])
    BY <1>2, <2>1, <2>3, <2>5, <2>7, <2>8 DEF Lists
  <2>10. f[n] = g[n]
    <3>1. f[n] \in Nat /\ g[n] \in Nat
      BY <2>2, <2>6
    <3> QED
      BY <2>3, <2>7, <2>9, <3>1
  <2>11. \A i \in 1..n : i \in 1..(n - 1) \/ i = n
    BY <2>1
  <2> QED
    BY <2>1, <2>5, <2>10, <2>11
<1>3. Len(u) \in S
  <2> HIDE DEF S
  <2>1. \A n \in 0..Len(u) : n \in S
    BY <1>1, <1>2, CountUp
  <2> QED
    BY <2>1
<1> QED
  BY <1>3 DEF Agree

(* The same, said of the rows.                                             *)
LEMMA ListsUnique ==
  ASSUME NEW T, NEW u \in Seq(T), NEW v \in Seq(T), NEW s, NEW J, J \subseteq Nat,
         NEW f, NEW g, Lists(f, u, s, J), Lists(g, v, s, J)
  PROVE  u = v
<1>1. Len(u) \in Nat /\ Len(v) \in Nat
  OBVIOUS
<1>2. Len(u) <= Len(v) /\ Len(v) <= Len(u) /\ Agree(f, g, Len(u))
  BY <1>1, ListsAgree
<1>4. Len(u) = Len(v)
  BY <1>1, <1>2
<1>5. \A k \in 1..Len(u) : u[k] = v[k]
  BY <1>2, <1>4 DEF Lists, Agree
<1> QED
  BY <1>4, <1>5

(* Keeping everything changes nothing.                                     *)
LEMMA KeepAll ==
  ASSUME NEW T, NEW s \in Seq(T)
  PROVE  Keep(s, DOMAIN s) = s
<1>1. DOMAIN s = 1..Len(s) /\ Len(s) \in Nat
  OBVIOUS
<1>2. Lists([k \in 1..Len(s) |-> k], s, s, DOMAIN s)
  BY <1>1 DEF Lists
<1>3. Keep(s, DOMAIN s) \in Seq(T) /\ \E f : Lists(f, Keep(s, DOMAIN s), s, DOMAIN s)
  <2>1. DOMAIN s \intersect DOMAIN s = DOMAIN s
    OBVIOUS
  <2> QED
    BY <2>1, KeepLists
<1>4. DOMAIN s \subseteq Nat
  BY <1>1
<1> QED
  BY <1>2, <1>3, <1>4, ListsUnique

(* The positions behind a part of a list.                                  *)
PositionsOf(f, K) == {f[k] : k \in K}

(* A list of a list.                                                       *)
LEMMA ListsCompose ==
  ASSUME NEW u, NEW s, NEW w, NEW J, NEW K, J \subseteq Nat, K \subseteq 1..Len(u), Len(u) \in Nat,
         NEW f, NEW g, Lists(f, u, s, J), Lists(g, w, u, K)
  PROVE  \E e : Lists(e, w, s, PositionsOf(f, K))
<1>1. \A k \in 1..Len(w) : g[k] \in K /\ g[k] \in 1..Len(u)
  BY DEF Lists
<1>2. \A j, k \in 1..Len(w) : j < k => f[g[j]] < f[g[k]]
  BY <1>1 DEF Lists
<1>3. \A k \in 1..Len(w) : w[k] = s[f[g[k]]]
  BY <1>1 DEF Lists
<1>4. \A i \in K : \E k \in 1..Len(w) : g[k] = i
  BY DEF Lists
<1>5. Lists([k \in 1..Len(w) |-> f[g[k]]], w, s, PositionsOf(f, K))
  BY <1>1, <1>2, <1>3, <1>4 DEF Lists, PositionsOf
<1> QED
  BY <1>5

(* A row by its fields.                                                    *)
LEMMA RowsType ==
  ASSUME NEW m \in Rows
  PROVE  /\ m.role \in {"system", "user", "assistant", "tool"}
         /\ m.ids \subseteq CallId /\ m.chars \in Nat
         /\ m.role = "tool" => \E c \in CallId : m.ids = {c}
BY ContextAssumption DEF Rows, Row

(* A call that keeps only the ids that were answered.                      *)
LEMMA RowsRepaired ==
  ASSUME NEW m \in Rows, Calls(m), NEW A, A \subseteq m.ids
  PROVE  /\ [m EXCEPT !.ids = A] \in Rows
         /\ [m EXCEPT !.ids = A].role = m.role
         /\ [m EXCEPT !.ids = A].ids = A
         /\ [m EXCEPT !.ids = A].chars = m.chars
         /\ A = m.ids => [m EXCEPT !.ids = A] = m
<1>1. m \in Row("assistant", SUBSET CallId, {0, MaxChars})
  BY DEF Rows, Row, Calls
<1>2. m \in [role : {"assistant"}, ids : SUBSET CallId, chars : {0, MaxChars}]
  BY <1>1 DEF Row
<1>3. m = [role |-> m.role, ids |-> m.ids, chars |-> m.chars]
  BY <1>2
<1>4. [m EXCEPT !.ids = A] = [role |-> m.role, ids |-> A, chars |-> m.chars]
  BY <1>2
<1>5. [m EXCEPT !.ids = A] \in [role : {"assistant"}, ids : SUBSET CallId, chars : {0, MaxChars}]
  BY <1>2, <1>4
<1>6. [m EXCEPT !.ids = A] \in Rows
  BY <1>5 DEF Rows, Row
<1> QED
  BY <1>3, <1>4, <1>6

(* The rows of a list by their fields.                                     *)
LEMMA SeqRows ==
  ASSUME NEW s \in Seq(Rows)
  PROVE  /\ Len(s) \in Nat /\ DOMAIN s = 1..Len(s)
         /\ \A i \in DOMAIN s : s[i] \in Rows /\ i \in Nat
OBVIOUS

(* A list keeps the order of the positions.                                *)
InOrder(f, u, s, J) ==
  /\ \A k \in 1..Len(u) : f[k] \in J /\ f[k] \in Nat /\ u[k] = s[f[k]]
  /\ \A j, k \in 1..Len(u) : (f[j] < f[k] <=> j < k) /\ (f[j] = f[k] => j = k)
  /\ \A i \in J : \E k \in 1..Len(u) : f[k] = i

(* So does every list.                                                     *)
LEMMA ListsOrder ==
  ASSUME NEW u, NEW s, NEW J, J \subseteq Nat, NEW f, Len(u) \in Nat, Lists(f, u, s, J)
  PROVE  InOrder(f, u, s, J)
<1>1. /\ \A k \in 1..Len(u) : f[k] \in J /\ f[k] \in Nat /\ u[k] = s[f[k]]
      /\ \A i \in J : \E k \in 1..Len(u) : f[k] = i
  BY DEF Lists
<1>2. \A j, k \in 1..Len(u) : j < k => f[j] < f[k]
  BY DEF Lists
<1>3. ASSUME NEW j \in 1..Len(u), NEW k \in 1..Len(u)
      PROVE  (f[j] < f[k] <=> j < k) /\ (f[j] = f[k] => j = k)
  <2>1. f[j] \in Nat /\ f[k] \in Nat /\ j \in Nat /\ k \in Nat
    BY <1>1
  <2>2. j < k \/ j = k \/ k < j
    BY <2>1
  <2> QED
    BY <1>2, <2>1, <2>2
<1> QED
  BY <1>1, <1>3 DEF InOrder

(* A run of tool rows belongs to one call.                                 *)
LEMMA OneCaller ==
  ASSUME NEW s, Len(s) \in Nat, NEW i \in 1..Len(s), NEW k \in 1..Len(s), NEW j,
         j \in RunOf(s, i), j \in RunOf(s, k), Calls(s[i]), Calls(s[k])
  PROVE  i = k
<1>1. i \in Nat /\ k \in Nat /\ j \in Nat /\ i < j /\ k < j
  BY DEF RunOf
<1>2. s[i].role # "tool" /\ s[k].role # "tool"
  BY DEF Calls
<1>3. ~(i < k) /\ ~(k < i)
  BY <1>1, <1>2 DEF RunOf
<1> QED
  BY <1>1, <1>3

(* What makes a list valid, said of the positions it keeps.                *)
Sound(s, J) ==
  /\ \A i \in J : s[i].chars > 0 \/ Calls(s[i])
  /\ \A i \in J : Calls(s[i]) =>
       \A c \in s[i].ids : \E j \in RunOf(s, i) : j \in J /\ s[j].ids = {c}
  /\ \A j \in J : s[j].role = "tool" =>
       \E i \in J : /\ Calls(s[i]) /\ j \in RunOf(s, i) /\ s[j].ids \subseteq s[i].ids
                    /\ \A k \in RunOf(s, i) : k \in J /\ k # j => s[k].ids # s[j].ids

(* A run of the rows kept, as a run of all rows: nothing in between is     *)
(* another call.                                                           *)
LEMMA RunKept ==
  ASSUME NEW s \in Seq(Rows), NEW u \in Seq(Rows), NEW J, J \subseteq DOMAIN s, NEW f,
         Lists(f, u, s, J), Sound(s, J), NEW i \in 1..Len(u), Calls(u[i]), NEW j \in 1..Len(u)
  PROVE  j \in RunOf(u, i) <=> f[j] \in RunOf(s, f[i])
<1>1. Len(u) \in Nat /\ Len(s) \in Nat /\ J \subseteq Nat /\ J \subseteq 1..Len(s)
  BY SeqRows
<1>2. /\ \A k \in 1..Len(u) : f[k] \in J /\ f[k] \in Nat /\ u[k] = s[f[k]]
      /\ \A k, n \in 1..Len(u) : (f[k] < f[n] <=> k < n) /\ (f[k] = f[n] => k = n)
      /\ \A n \in J : \E k \in 1..Len(u) : f[k] = n
  <2>1. InOrder(f, u, s, J)
    BY <1>1, ListsOrder
  <2> QED
    BY <2>1 DEF InOrder
<1>3. Calls(s[f[i]]) /\ f[i] \in 1..Len(s) /\ f[j] \in 1..Len(s)
  BY <1>1, <1>2
<1>4. ASSUME f[j] \in RunOf(s, f[i]) PROVE j \in RunOf(u, i)
  <2>1. f[i] < f[j] /\ \A k \in (f[i] + 1)..f[j] : s[k].role = "tool"
    BY <1>2, <1>4 DEF RunOf
  <2>2. i < j
    BY <1>2, <2>1
  <2>3. ASSUME NEW k \in (i + 1)..j PROVE u[k].role = "tool"
    <3>1. k \in 1..Len(u) /\ i < k /\ (k < j \/ k = j)
      BY <1>1
    <3>2. f[i] < f[k] /\ (f[k] < f[j] \/ f[k] = f[j]) /\ f[k] \in Nat /\ f[i] \in Nat /\ f[j] \in Nat
      BY <1>2, <3>1
    <3>3. f[k] \in (f[i] + 1)..f[j]
      BY <3>2
    <3> QED
      BY <1>2, <2>1, <3>1, <3>3
  <2> QED
    BY <1>1, <2>2, <2>3 DEF RunOf
<1>5. ASSUME j \in RunOf(u, i) PROVE f[j] \in RunOf(s, f[i])
  <2>1. i < j /\ \A k \in (i + 1)..j : u[k].role = "tool"
    BY <1>5 DEF RunOf
  <2>2. s[f[j]].role = "tool" /\ f[j] \in J
    <3>1. j \in (i + 1)..j
      BY <2>1
    <3> QED
      BY <1>2, <2>1, <3>1
  <2>3. PICK c \in J : Calls(s[c]) /\ f[j] \in RunOf(s, c)
    BY <2>2 DEF Sound
  <2>4. PICK k \in 1..Len(u) : f[k] = c
    BY <1>2, <2>3
  <2>5. c < f[j] /\ c \in Nat /\ \A n \in (c + 1)..f[j] : s[n].role = "tool"
    BY <1>1, <2>3 DEF RunOf
  <2>6. Calls(u[k]) /\ k < j
    BY <1>2, <2>3, <2>4, <2>5
  <2>7. ~(i < k)
    <3> SUFFICES ASSUME i < k PROVE FALSE
      OBVIOUS
    <3>1. k \in (i + 1)..j
      BY <2>6
    <3> QED
      BY <2>1, <2>6, <3>1 DEF Calls
  <2>8. ~(k < i)
    <3> SUFFICES ASSUME k < i PROVE FALSE
      OBVIOUS
    <3>1. c < f[i] /\ f[i] < f[j] /\ f[i] \in Nat /\ f[j] \in Nat
      BY <1>2, <2>1, <2>4
    <3>2. f[i] \in (c + 1)..f[j]
      BY <2>5, <3>1
    <3> QED
      BY <1>3, <2>5, <3>2 DEF Calls
  <2>9. k = i
    BY <2>7, <2>8
  <2> QED
    BY <2>3, <2>4, <2>9
<1> QED
  BY <1>4, <1>5

(* A list that keeps sound positions is valid.                             *)
LEMMA SoundIsValid ==
  ASSUME NEW s \in Seq(Rows), NEW u \in Seq(Rows), NEW J, J \subseteq DOMAIN s, NEW f,
         Lists(f, u, s, J), Sound(s, J)
  PROVE  Valid(u)
<1>1. Len(u) \in Nat /\ Len(s) \in Nat /\ J \subseteq Nat /\ J \subseteq 1..Len(s) /\ DOMAIN u = 1..Len(u)
  BY SeqRows
<1>2. /\ \A k \in 1..Len(u) : f[k] \in J /\ f[k] \in Nat /\ u[k] = s[f[k]]
      /\ \A k, n \in 1..Len(u) : (f[k] < f[n] <=> k < n) /\ (f[k] = f[n] => k = n)
      /\ \A n \in J : \E k \in 1..Len(u) : f[k] = n
  <2>1. InOrder(f, u, s, J)
    BY <1>1, ListsOrder
  <2> QED
    BY <2>1 DEF InOrder
<1>3. \A i, j \in 1..Len(u) : Calls(u[i]) => (j \in RunOf(u, i) <=> f[j] \in RunOf(s, f[i]))
  BY RunKept
<1>4. \A i \in 1..Len(u) : u[i].chars > 0 \/ Calls(u[i])
  BY <1>2 DEF Sound
<1>5. ASSUME NEW i \in 1..Len(u), Calls(u[i]), NEW c \in u[i].ids
      PROVE  \E j \in RunOf(u, i) : u[j].ids = {c}
  <2>1. PICK n \in RunOf(s, f[i]) : n \in J /\ s[n].ids = {c}
    BY <1>2, <1>5 DEF Sound
  <2>2. PICK j \in 1..Len(u) : f[j] = n
    BY <1>2, <2>1
  <2> QED
    BY <1>2, <1>3, <1>5, <2>1, <2>2
<1>6. ASSUME NEW j \in 1..Len(u), u[j].role = "tool"
      PROVE  \E i \in 1..Len(u) :
               /\ Calls(u[i]) /\ j \in RunOf(u, i) /\ u[j].ids \subseteq u[i].ids
               /\ \A k \in RunOf(u, i) : k # j => u[k].ids # u[j].ids
  <2>1. PICK n \in J : /\ Calls(s[n]) /\ f[j] \in RunOf(s, n) /\ s[f[j]].ids \subseteq s[n].ids
                       /\ \A k \in RunOf(s, n) : k \in J /\ k # f[j] => s[k].ids # s[f[j]].ids
    BY <1>2, <1>6 DEF Sound
  <2>2. PICK i \in 1..Len(u) : f[i] = n
    BY <1>2, <2>1
  <2>3. Calls(u[i]) /\ j \in RunOf(u, i) /\ u[j].ids \subseteq u[i].ids
    BY <1>2, <1>3, <2>1, <2>2
  <2>4. ASSUME NEW k \in RunOf(u, i), k # j PROVE u[k].ids # u[j].ids
    <3>1. k \in 1..Len(u)
      BY <1>1, <2>4 DEF RunOf
    <3>2. f[k] \in RunOf(s, n) /\ f[k] \in J /\ f[k] # f[j]
      BY <1>2, <1>3, <2>2, <2>3, <2>4, <3>1
    <3>3. s[f[k]].ids # s[f[j]].ids
      BY <2>1, <3>2
    <3>4. u[k] = s[f[k]] /\ u[j] = s[f[j]]
      BY <1>2, <3>1
    <3> QED
      BY <3>3, <3>4
  <2> QED
    BY <2>3, <2>4
<1> QED
  BY <1>1, <1>4, <1>5, <1>6 DEF Valid

(* The rows of pass 2 with each call cut down to what was answered.        *)
Repaired(t) ==
  [i \in DOMAIN t |-> IF Calls(t[i]) THEN [t[i] EXCEPT !.ids = Answered(t, i)] ELSE t[i]]

(* Both passes in these terms.                                             *)
LEMMA SanitizeIs ==
  ASSUME NEW s
  PROVE  Sanitize(s) = Keep(Repaired(Staged(s)), Kept(Staged(s)))
BY DEF Sanitize, Repaired

(* Pass 1 leaves no empty row.                                             *)
LEMMA StagedRows ==
  ASSUME NEW s \in Seq(Rows)
  PROVE  /\ Staged(s) \in Seq(Rows)
         /\ \A i \in DOMAIN Staged(s) : Staged(s)[i].chars > 0 \/ Calls(Staged(s)[i])
<1> DEFINE I == {i \in DOMAIN s : s[i].chars > 0 \/ Calls(s[i])}
           t == Staged(s)
<1>1. t = Keep(s, I) /\ I \subseteq DOMAIN s /\ I \intersect DOMAIN s = I
  BY DEF Staged
<1>2. \A i \in I : s[i].chars > 0 \/ Calls(s[i])
  OBVIOUS
<1> HIDE DEF I, t
<1>3. t \in Seq(Rows) /\ \E f : Lists(f, t, s, I)
  BY <1>1, KeepLists
<1>4. PICK f : Lists(f, t, s, I)
  BY <1>3
<1>5. DOMAIN t = 1..Len(t)
  BY <1>3
<1>6. \A k \in 1..Len(t) : f[k] \in I /\ t[k] = s[f[k]]
  BY <1>4 DEF Lists
<1> QED
  BY <1>2, <1>3, <1>5, <1>6 DEF t

(* What a call was answered is among what it asked.                        *)
LEMMA AnsweredIds ==
  ASSUME NEW s, NEW i
  PROVE  Answered(s, i) \subseteq s[i].ids
BY DEF Answered, Answers

(* The repaired rows, by their fields.                                     *)
LEMMA RepairedRows ==
  ASSUME NEW t \in Seq(Rows)
  PROVE  /\ Repaired(t) \in Seq(Rows) /\ DOMAIN Repaired(t) = DOMAIN t /\ Len(Repaired(t)) = Len(t)
         /\ \A i \in DOMAIN t : /\ Repaired(t)[i].role = t[i].role
                                /\ Repaired(t)[i].chars = t[i].chars
                                /\ Calls(t[i]) => Repaired(t)[i].ids = Answered(t, i)
                                /\ ~Calls(t[i]) => Repaired(t)[i] = t[i]
         /\ \A i \in DOMAIN t : Calls(t[i]) /\ Answered(t, i) = t[i].ids => Repaired(t)[i] = t[i]
<1>1. Len(t) \in Nat /\ DOMAIN t = 1..Len(t) /\ \A i \in DOMAIN t : t[i] \in Rows
  BY SeqRows
<1> DEFINE r == Repaired(t)
<1>2. DOMAIN r = 1..Len(t)
  BY <1>1 DEF Repaired
<1>3. ASSUME NEW i \in DOMAIN t
      PROVE  /\ r[i] \in Rows
             /\ r[i].role = t[i].role /\ r[i].chars = t[i].chars
             /\ Calls(t[i]) => r[i].ids = Answered(t, i)
             /\ ~Calls(t[i]) => r[i] = t[i]
             /\ Calls(t[i]) /\ Answered(t, i) = t[i].ids => r[i] = t[i]
  <2>1. CASE Calls(t[i])
    <3>1. r[i] = [t[i] EXCEPT !.ids = Answered(t, i)]
      BY <2>1 DEF Repaired
    <3>2. /\ [t[i] EXCEPT !.ids = Answered(t, i)] \in Rows
          /\ [t[i] EXCEPT !.ids = Answered(t, i)].role = t[i].role
          /\ [t[i] EXCEPT !.ids = Answered(t, i)].ids = Answered(t, i)
          /\ [t[i] EXCEPT !.ids = Answered(t, i)].chars = t[i].chars
          /\ Answered(t, i) = t[i].ids => [t[i] EXCEPT !.ids = Answered(t, i)] = t[i]
      BY <1>1, <2>1, AnsweredIds, RowsRepaired
    <3> QED
      BY <2>1, <3>1, <3>2
  <2>2. CASE ~Calls(t[i])
    <3>1. r[i] = t[i]
      BY <2>2 DEF Repaired
    <3> QED
      BY <1>1, <2>2, <3>1
  <2> QED
    BY <2>1, <2>2
<1>4. r = [i \in 1..Len(t) |-> r[i]]
  BY <1>1 DEF Repaired
<1>5. r \in [1..Len(t) -> Rows]
  <2> HIDE DEF r
  <2> QED
    BY <1>1, <1>3, <1>4
<1>6. r \in Seq(Rows) /\ Len(r) = Len(t)
  <2> HIDE DEF r
  <2> QED
    BY <1>1, <1>2, <1>5
<1> QED
  BY <1>1, <1>2, <1>3, <1>6

(* A run has the roles of the rows only.                                   *)
LEMMA RunRepaired ==
  ASSUME NEW t \in Seq(Rows), NEW i \in DOMAIN t
  PROVE  RunOf(Repaired(t), i) = RunOf(t, i)
<1>1. /\ DOMAIN t = 1..Len(t) /\ Len(t) \in Nat /\ Len(Repaired(t)) = Len(t)
      /\ \A k \in 1..Len(t) : Repaired(t)[k].role = t[k].role
  BY SeqRows, RepairedRows
<1>2. i \in Nat
  BY <1>1
<1>3. ASSUME NEW j \in (i + 1)..Len(t) PROVE \A k \in (i + 1)..j : k \in 1..Len(t)
  BY <1>1, <1>2
<1> QED
  BY <1>1, <1>3 DEF RunOf

(* A row of a run is a tool row, and answers one id.                       *)
LEMMA RunRows ==
  ASSUME NEW s \in Seq(Rows), NEW i \in DOMAIN s, NEW j \in RunOf(s, i)
  PROVE  /\ j \in DOMAIN s /\ s[j].role = "tool" /\ ~Calls(s[j]) /\ i < j
         /\ \E c \in CallId : s[j].ids = {c}
<1>1. Len(s) \in Nat /\ DOMAIN s = 1..Len(s) /\ i \in Nat /\ \A k \in DOMAIN s : s[k] \in Rows
  BY SeqRows
<1>2. j \in DOMAIN s /\ i < j /\ j \in (i + 1)..j
  BY <1>1 DEF RunOf
<1>3. s[j].role = "tool"
  BY <1>2 DEF RunOf
<1> QED
  BY <1>1, <1>2, <1>3, RowsType DEF Calls

(* What both passes keep is sound.                                         *)
LEMMA KeptIsSound ==
  ASSUME NEW t \in Seq(Rows), \A i \in DOMAIN t : t[i].chars > 0 \/ Calls(t[i])
  PROVE  Sound(Repaired(t), Kept(t))
<1> DEFINE r == Repaired(t)
<1>1. Len(t) \in Nat /\ DOMAIN t = 1..Len(t) /\ \A i \in DOMAIN t : t[i] \in Rows /\ i \in Nat
  BY SeqRows
<1>2. \A i \in DOMAIN t : /\ r[i].role = t[i].role /\ r[i].chars = t[i].chars
                          /\ Calls(t[i]) => r[i].ids = Answered(t, i)
                          /\ ~Calls(t[i]) => r[i] = t[i]
  BY RepairedRows
<1>3. \A i \in DOMAIN t : RunOf(r, i) = RunOf(t, i)
  BY RunRepaired
<1>4. \A i \in DOMAIN t : Calls(r[i]) <=> Calls(t[i]) /\ Answered(t, i) # {}
  BY <1>2, AnsweredIds DEF Calls
<1> HIDE DEF r
<1>5. Kept(t) \subseteq DOMAIN t
  BY DEF Kept
<1>6. ASSUME NEW i \in Kept(t) PROVE r[i].chars > 0 \/ Calls(r[i])
  BY <1>2, <1>4, <1>5 DEF Kept
<1>7. \A i \in DOMAIN t : \A j \in Answers(t, i) : Calls(t[i]) => j \in Kept(t) /\ j \in RunOf(t, i)
  <2> SUFFICES ASSUME NEW i \in DOMAIN t, NEW j \in Answers(t, i), Calls(t[i])
               PROVE  j \in Kept(t) /\ j \in RunOf(t, i)
    OBVIOUS
  <2>1. j \in RunOf(t, i)
    BY DEF Answers
  <2>2. j \in DOMAIN t /\ ~Calls(t[j])
    BY <2>1, RunRows
  <2> QED
    BY <2>1, <2>2 DEF Kept
<1>8. ASSUME NEW i \in Kept(t), Calls(r[i]), NEW c \in r[i].ids
      PROVE  \E j \in RunOf(r, i) : j \in Kept(t) /\ r[j].ids = {c}
  <2>1. i \in DOMAIN t /\ Calls(t[i]) /\ c \in Answered(t, i)
    BY <1>2, <1>4, <1>5, <1>8
  <2>2. PICK j \in Answers(t, i) : c \in t[j].ids
    BY <2>1 DEF Answered
  <2>3. j \in Kept(t) /\ j \in RunOf(t, i)
    BY <1>7, <2>1, <2>2
  <2>4. j \in DOMAIN t /\ ~Calls(t[j]) /\ t[j].ids = {c}
    <3>1. j \in DOMAIN t /\ ~Calls(t[j]) /\ \E d \in CallId : t[j].ids = {d}
      BY <2>1, <2>3, RunRows
    <3> QED
      BY <2>2, <3>1
  <2> QED
    BY <1>2, <1>3, <2>1, <2>3, <2>4
<1>9. ASSUME NEW j \in Kept(t), r[j].role = "tool"
      PROVE  \E i \in Kept(t) :
               /\ Calls(r[i]) /\ j \in RunOf(r, i) /\ r[j].ids \subseteq r[i].ids
               /\ \A k \in RunOf(r, i) : k \in Kept(t) /\ k # j => r[k].ids # r[j].ids
  <2>1. \A k \in Kept(t) : t[k].role = "tool" =>
          \E i \in DOMAIN t : Calls(t[i]) /\ k \in Answers(t, i)
    BY DEF Kept, Calls
  <2>2. PICK i \in DOMAIN t : Calls(t[i]) /\ j \in Answers(t, i)
    BY <1>2, <1>5, <1>9, <2>1
  <2>3. j \in RunOf(t, i) /\ t[j].ids \subseteq t[i].ids
    BY <2>2 DEF Answers
  <2>4. j \in DOMAIN t /\ ~Calls(t[j]) /\ \E d \in CallId : t[j].ids = {d}
    BY <2>3, RunRows
  <2>5. t[j].ids \subseteq Answered(t, i) /\ Answered(t, i) # {}
    BY <2>2, <2>4 DEF Answered
  <2>6. i \in Kept(t) /\ Calls(r[i]) /\ r[i].ids = Answered(t, i) /\ r[j] = t[j]
    BY <1>2, <1>4, <2>2, <2>4, <2>5 DEF Kept
  <2>7. ASSUME NEW k \in RunOf(t, i), k \in Kept(t), k # j PROVE r[k].ids # r[j].ids
    <3>1. k \in DOMAIN t /\ t[k].role = "tool" /\ ~Calls(t[k])
      BY <2>7, RunRows
    <3>2. PICK n \in DOMAIN t : Calls(t[n]) /\ k \in Answers(t, n)
      BY <2>1, <2>7, <3>1
    <3>3. n = i
      <4>1. k \in RunOf(t, n)
        BY <3>2 DEF Answers
      <4> QED
        BY <1>1, <2>2, <2>7, <3>2, <4>1, OneCaller
    <3>4. k \in Answers(t, i) /\ j \in Answers(t, i) /\ k \in Nat /\ j \in Nat
      BY <1>1, <2>2, <2>4, <3>1, <3>2, <3>3
    <3>5. t[k].ids # t[j].ids
      <4>1. k < j \/ j < k
        BY <2>7, <3>4
      <4> QED
        BY <2>3, <2>7, <3>4, <4>1 DEF Answers
    <3> QED
      BY <1>2, <2>6, <3>1, <3>5
  <2> QED
    BY <1>3, <2>2, <2>3, <2>5, <2>6, <2>7
<1> QED
  <2> SUFFICES Sound(r, Kept(t))
    BY DEF r
  <2> QED
    BY <1>6, <1>8, <1>9 DEF Sound

(* After both passes the list is valid.                                    *)
LEMMA SanitizeValid ==
  ASSUME NEW s \in Seq(Rows)
  PROVE  Sanitize(s) \in Seq(Rows) /\ Valid(Sanitize(s))
<1> DEFINE t == Staged(s)
           r == Repaired(t)
<1>1. t \in Seq(Rows) /\ \A i \in DOMAIN t : t[i].chars > 0 \/ Calls(t[i])
  BY StagedRows
<1>2. Sanitize(s) = Keep(r, Kept(t))
  BY SanitizeIs
<1> HIDE DEF t
<1>3. r \in Seq(Rows) /\ DOMAIN r = DOMAIN t /\ Sound(r, Kept(t))
  BY <1>1, RepairedRows, KeptIsSound
<1>4. Kept(t) \subseteq DOMAIN t /\ Kept(t) \intersect DOMAIN r = Kept(t)
  BY <1>3 DEF Kept
<1> HIDE DEF r
<1>5. Keep(r, Kept(t)) \in Seq(Rows) /\ \E f : Lists(f, Keep(r, Kept(t)), r, Kept(t))
  BY <1>3, <1>4, KeepLists
<1>6. Valid(Keep(r, Kept(t)))
  BY <1>3, <1>4, <1>5, SoundIsValid
<1> QED
  BY <1>2, <1>5, <1>6

(* A valid list goes through both passes unchanged.                        *)
LEMMA ValidIsClean ==
  ASSUME NEW u \in Seq(Rows), Valid(u)
  PROVE  Sanitize(u) = u
<1>1. Len(u) \in Nat /\ DOMAIN u = 1..Len(u) /\ \A i \in DOMAIN u : u[i] \in Rows /\ i \in Nat
  BY SeqRows
<1>2. Staged(u) = u
  <2>1. {i \in DOMAIN u : u[i].chars > 0 \/ Calls(u[i])} = DOMAIN u
    BY DEF Valid
  <2> QED
    BY <2>1, KeepAll DEF Staged
<1>3. ASSUME NEW i \in DOMAIN u, Calls(u[i]), NEW j \in RunOf(u, i)
      PROVE  j \in Answers(u, i)
  <2>1. j \in DOMAIN u /\ u[j].role = "tool"
    BY <1>3, RunRows
  <2>2. PICK n \in DOMAIN u : /\ Calls(u[n]) /\ j \in RunOf(u, n) /\ u[j].ids \subseteq u[n].ids
                              /\ \A k \in RunOf(u, n) : k # j => u[k].ids # u[j].ids
    BY <2>1 DEF Valid
  <2>3. n = i
    BY <1>1, <1>3, <2>2, OneCaller
  <2>4. \A k \in RunOf(u, i) : k < j => k # j
    BY <1>1, <2>1
  <2> QED
    BY <1>3, <2>2, <2>3, <2>4 DEF Answers
<1>4. ASSUME NEW i \in DOMAIN u, Calls(u[i]) PROVE Answered(u, i) = u[i].ids
  <2>1. ASSUME NEW c \in u[i].ids PROVE c \in Answered(u, i)
    <3>1. PICK j \in RunOf(u, i) : u[j].ids = {c}
      BY <1>4 DEF Valid
    <3> QED
      BY <1>3, <1>4, <3>1 DEF Answered
  <2> QED
    BY <2>1, AnsweredIds
<1>5. Repaired(u) = u
  <2>1. \A i \in DOMAIN u : Repaired(u)[i] = u[i]
    BY <1>4, RepairedRows
  <2>2. Repaired(u) \in Seq(Rows) /\ Len(Repaired(u)) = Len(u)
    BY RepairedRows
  <2> QED
    BY <1>1, <2>1, <2>2
<1>6. Kept(u) = DOMAIN u
  <2>1. ASSUME NEW i \in DOMAIN u, Calls(u[i]) PROVE i \in Kept(u)
    <3>1. Answered(u, i) # {}
      BY <1>4, <2>1 DEF Calls
    <3> QED
      BY <2>1, <3>1 DEF Kept
  <2>2. ASSUME NEW j \in DOMAIN u, u[j].role = "tool" PROVE j \in Kept(u)
    <3>1. PICK n \in DOMAIN u : Calls(u[n]) /\ j \in RunOf(u, n)
      BY <2>2 DEF Valid
    <3>2. j \in Answers(u, n)
      BY <1>3, <3>1
    <3> QED
      BY <2>2, <3>1, <3>2 DEF Kept, Calls
  <2>3. \A i \in DOMAIN u : ~Calls(u[i]) /\ u[i].role # "tool" => i \in Kept(u)
    BY DEF Kept
  <2> QED
    BY <2>1, <2>2, <2>3 DEF Kept
<1> QED
  BY <1>2, <1>5, <1>6, SanitizeIs, KeepAll

(* A call heads its block.                                                 *)
LEMMA CallStarts ==
  ASSUME NEW s, NEW I, NEW i \in I, s[i].role # "tool", I \subseteq Nat
  PROVE  i \in Starts(s, I)
BY DEF Starts, Block

(* The blocks of two heads share no row.                                   *)
LEMMA BlocksApart ==
  ASSUME NEW s, NEW I, I \subseteq Nat, NEW i \in Starts(s, I), NEW k \in Starts(s, I), i # k
  PROVE  Block(s, I, i) \intersect Block(s, I, k) = {}
<1> SUFFICES ASSUME NEW j \in Block(s, I, i), j \in Block(s, I, k) PROVE FALSE
  OBVIOUS
<1>1. i \in I /\ k \in I /\ i \notin Block(s, I, k) /\ k \notin Block(s, I, i)
  BY DEF Starts
<1>2. j # i /\ j # k
  BY <1>1
<1>3. /\ j \in I /\ Calls(s[i]) /\ j > i /\ \A n \in I : i < n /\ n <= j => s[n].role = "tool"
      /\ Calls(s[k]) /\ j > k /\ \A n \in I : k < n /\ n <= j => s[n].role = "tool"
  BY <1>2 DEF Block
<1>4. i \in Nat /\ k \in Nat /\ j \in Nat /\ (i < k \/ k < i)
  BY <1>1, <1>3
<1> QED
  BY <1>1, <1>3, <1>4 DEF Calls

(* Every row is in the block of a head.                                    *)
LEMMA BlocksCover ==
  ASSUME NEW s, NEW I, I \subseteq Nat, NEW i \in I
  PROVE  \E k \in Starts(s, I) : i \in Block(s, I, k)
<1>1. CASE i \in Starts(s, I)
  BY <1>1 DEF Block
<1>2. CASE i \notin Starts(s, I)
  <2>1. PICK k \in I : k # i /\ i \in Block(s, I, k)
    BY <1>2 DEF Starts
  <2>2. k \in Starts(s, I)
    BY <2>1, CallStarts DEF Block, Calls
  <2> QED
    BY <2>1, <2>2
<1> QED
  BY <1>1, <1>2

(* A block has its head, and stays inside.                                 *)
LEMMA BlockInside ==
  ASSUME NEW s, NEW I, NEW i \in I
  PROVE  i \in Block(s, I, i) /\ Block(s, I, i) \subseteq I
BY DEF Block

(* What may go: never an instruction, and a call with its run or neither.  *)
LEMMA DroppableRows ==
  ASSUME NEW s \in Seq(Rows)
  PROVE  /\ Droppable(s) \subseteq History(s) /\ History(s) \subseteq DOMAIN s /\ DOMAIN s \subseteq Nat
         /\ \A i \in DOMAIN s : \A j \in RunOf(s, i) :
              Calls(s[i]) => (i \in Droppable(s) <=> j \in Droppable(s))
<1>1. Len(s) \in Nat /\ DOMAIN s = 1..Len(s) /\ \A i \in DOMAIN s : s[i] \in Rows /\ i \in Nat
  BY SeqRows
<1>2. Droppable(s) \subseteq History(s) /\ History(s) \subseteq DOMAIN s /\ DOMAIN s \subseteq Nat
  BY <1>1 DEF Droppable, History
<1>3. ASSUME NEW i \in DOMAIN s, NEW j \in RunOf(s, i), Calls(s[i])
      PROVE  i \in Droppable(s) <=> j \in Droppable(s)
  <2>1. j \in DOMAIN s /\ s[j].role = "tool" /\ i < j /\ i \in Nat /\ j \in Nat
    BY <1>1, RunRows
  <2>2. i \in History(s) /\ j \in History(s)
    BY <1>3, <2>1 DEF History, Calls
  <2>3. \A u \in Users(s) : i < u <=> j < u
    <3> SUFFICES ASSUME NEW u \in Users(s) PROVE i < u <=> j < u
      OBVIOUS
    <3>1. u \in Nat /\ s[u].role = "user"
      BY <1>1 DEF Users
    <3>2. ~(u \in (i + 1)..j)
      BY <1>3, <3>1 DEF RunOf
    <3> QED
      BY <2>1, <3>1, <3>2
  <2> QED
    BY <2>2, <2>3 DEF Droppable
<1> QED
  BY <1>2, <1>3

(* What trim leaves of a valid list when it drops whole blocks.            *)
Whole(s, G) ==
  \E K \in SUBSET Starts(s, Droppable(s)) : G = UNION {Block(s, Droppable(s), k) : k \in K}

(* It drops only what may go.                                              *)
LEMMA WholeInside ==
  ASSUME NEW s \in Seq(Rows), NEW G, Whole(s, G)
  PROVE  G \subseteq Droppable(s)
BY BlockInside DEF Whole, Starts

(* A call and the rows that follow it go together.                         *)
LEMMA WholeRuns ==
  ASSUME NEW s \in Seq(Rows), NEW G, Whole(s, G), NEW i \in DOMAIN s, Calls(s[i]), NEW j \in RunOf(s, i)
  PROVE  i \in G <=> j \in G
<1> DEFINE D == Droppable(s)
<1>1. PICK K \in SUBSET Starts(s, D) : G = UNION {Block(s, D, k) : k \in K}
  BY DEF Whole
<1>2. D \subseteq Nat /\ D \subseteq DOMAIN s /\ (i \in D <=> j \in D) /\ G \subseteq D
  BY DroppableRows, WholeInside
<1> HIDE DEF D
<1>3. K \subseteq D
  BY <1>1 DEF Starts
<1>4. i \in Nat /\ j \in Nat /\ i < j /\ s[j].role = "tool" /\ ~Calls(s[j])
      /\ \A n \in (i + 1)..j : s[n].role = "tool"
  BY SeqRows, RunRows DEF RunOf
<1>5. CASE i \in D
  <2>1. i \in Starts(s, D)
    BY <1>2, <1>5, CallStarts DEF Calls
  <2>2. j \in Block(s, D, i) /\ i \in Block(s, D, i)
    <3>1. \A n \in D : i < n /\ n <= j => s[n].role = "tool"
      <4> SUFFICES ASSUME NEW n \in D, i < n, n <= j PROVE s[n].role = "tool"
        OBVIOUS
      <4>1. n \in (i + 1)..j
        BY <1>2, <1>4
      <4> QED
        BY <1>4, <4>1
    <3> QED
      BY <1>2, <1>4, <1>5, <3>1 DEF Block
  <2>3. ASSUME NEW n \in {i, j}, n \in G PROVE i \in K
    <3>1. PICK k \in K : n \in Block(s, D, k)
      BY <1>1, <2>3
    <3>2. n \in Block(s, D, i)
      BY <2>2
    <3>3. k = i
      BY <1>1, <1>2, <2>1, <3>1, <3>2, BlocksApart
    <3> QED
      BY <3>1, <3>3
  <2>4. i \in K => i \in G /\ j \in G
    BY <1>1, <2>2
  <2> QED
    BY <2>3, <2>4
<1>6. CASE i \notin D
  BY <1>2, <1>6
<1> QED
  BY <1>5, <1>6

(* So what is left of a valid list is sound.                               *)
LEMMA WholeIsSound ==
  ASSUME NEW s \in Seq(Rows), Valid(s), NEW G, Whole(s, G)
  PROVE  Sound(s, DOMAIN s \ G)
<1>1. \A i \in DOMAIN s : \A j \in RunOf(s, i) : Calls(s[i]) => (i \in G <=> j \in G)
  BY WholeRuns
<1>2. \A i \in DOMAIN s : \A j \in RunOf(s, i) : j \in DOMAIN s
  BY RunRows
<1>3. ASSUME NEW i \in DOMAIN s \ G, Calls(s[i]), NEW c \in s[i].ids
      PROVE  \E j \in RunOf(s, i) : j \in DOMAIN s \ G /\ s[j].ids = {c}
  BY <1>1, <1>2, <1>3 DEF Valid
<1>4. ASSUME NEW j \in DOMAIN s \ G, s[j].role = "tool"
      PROVE  \E i \in DOMAIN s \ G :
               /\ Calls(s[i]) /\ j \in RunOf(s, i) /\ s[j].ids \subseteq s[i].ids
               /\ \A k \in RunOf(s, i) : k \in DOMAIN s \ G /\ k # j => s[k].ids # s[j].ids
  <2>1. PICK i \in DOMAIN s : /\ Calls(s[i]) /\ j \in RunOf(s, i) /\ s[j].ids \subseteq s[i].ids
                              /\ \A k \in RunOf(s, i) : k # j => s[k].ids # s[j].ids
    BY <1>4 DEF Valid
  <2>2. i \notin G
    BY <1>1, <1>4, <2>1
  <2> QED
    BY <2>1, <2>2
<1>5. \A i \in DOMAIN s \ G : s[i].chars > 0 \/ Calls(s[i])
  BY DEF Valid
<1> QED
  BY <1>3, <1>4, <1>5 DEF Sound

(* What is left of a valid list, and where it is from.                     *)
LEMMA LeftOver ==
  ASSUME NEW s \in Seq(Rows), Valid(s), NEW G, Whole(s, G), NEW w, w = Keep(s, DOMAIN s \ G)
  PROVE  w \in Seq(Rows) /\ Valid(w) /\ \E f : Lists(f, w, s, DOMAIN s \ G)
<1>1. DOMAIN s \ G \subseteq DOMAIN s
  OBVIOUS
<1>2. w \in Seq(Rows) /\ \E f : Lists(f, w, s, DOMAIN s \ G)
  BY <1>1, KeepListsAt
<1>3. Sound(s, DOMAIN s \ G)
  BY WholeIsSound
<1>4. PICK f : Lists(f, w, s, DOMAIN s \ G)
  BY <1>2
<1> QED
  BY <1>2, <1>3, <1>4, SoundIsValid

(* A part of the list of which nothing goes.                               *)
LEMMA PartStays ==
  ASSUME NEW s \in Seq(Rows), NEW J, J \subseteq DOMAIN s, NEW A, A \subseteq J,
         NEW w \in Seq(Rows), NEW f, Lists(f, w, s, J),
         NEW B, B \subseteq DOMAIN w, PositionsOf(f, B) = A
  PROVE  Keep(w, B) = Keep(s, A)
<1>1. Len(w) \in Nat /\ DOMAIN w = 1..Len(w) /\ DOMAIN s \subseteq Nat
  BY SeqRows
<1>2. B \subseteq 1..Len(w) /\ A \subseteq DOMAIN s /\ A \subseteq Nat /\ J \subseteq Nat
  BY <1>1
<1>3. PICK v \in Seq(Rows) : v = Keep(w, B) /\ \E g : Lists(g, v, w, B)
  BY <1>1, <1>2, KeepListsAt
<1>4. PICK x \in Seq(Rows) : x = Keep(s, A) /\ \E h : Lists(h, x, s, A)
  BY <1>2, KeepListsAt
<1>5. \E e : Lists(e, v, s, A)
  <2>1. PICK g : Lists(g, v, w, B)
    BY <1>3
  <2>2. \E e : Lists(e, v, s, PositionsOf(f, B))
    BY <1>1, <1>2, <2>1, ListsCompose
  <2> QED
    BY <2>2
<1>6. v = x
  BY <1>2, <1>4, <1>5, ListsUnique
<1> QED
  BY <1>3, <1>4, <1>6

(* No instruction is lost.                                                 *)
LEMMA InstructionsStay ==
  ASSUME NEW s \in Seq(Rows), NEW J, J \subseteq DOMAIN s, Instructions(s) \subseteq J,
         NEW w \in Seq(Rows), NEW f, Lists(f, w, s, J)
  PROVE  Keep(w, Instructions(w)) = Keep(s, Instructions(s))
<1>1. Len(w) \in Nat /\ DOMAIN w = 1..Len(w) /\ DOMAIN s \subseteq Nat
  BY SeqRows
<1>2. InOrder(f, w, s, J)
  BY <1>1, ListsOrder
<1>3. PositionsOf(f, Instructions(w)) = Instructions(s)
  <2>1. ASSUME NEW k \in Instructions(w) PROVE f[k] \in Instructions(s)
    BY <1>1, <1>2, <2>1 DEF InOrder, Instructions
  <2>2. ASSUME NEW i \in Instructions(s) PROVE \E k \in Instructions(w) : f[k] = i
    <3>1. i \in J /\ s[i].role = "system"
      BY <2>2 DEF Instructions
    <3>2. PICK k \in 1..Len(w) : f[k] = i
      BY <1>2, <3>1 DEF InOrder
    <3>3. w[k] = s[i]
      BY <1>2, <3>2 DEF InOrder
    <3> QED
      BY <1>1, <3>1, <3>2, <3>3 DEF Instructions
  <2> QED
    BY <2>1, <2>2 DEF PositionsOf
<1>4. Instructions(w) \subseteq DOMAIN w
  BY DEF Instructions
<1> QED
  BY <1>3, <1>4, PartStays

(* A user row that may go has one after it that may not.                   *)
LEMMA LaterQuestion ==
  ASSUME NEW s \in Seq(Rows), NEW v \in Users(s), v \in Droppable(s)
  PROVE  \E x \in Users(s) : v < x /\ x \notin Droppable(s)
<1>1. PICK x \in Users(s) : (\A y \in Users(s) : y <= x) /\ v < x
  BY DEF Droppable
<1>2. x \in Droppable(s) => \E n \in Users(s) : x < n
  BY DEF Droppable
<1>3. \A n \in Users(s) : n \in Nat
  BY SeqRows DEF Users
<1> QED
  BY <1>1, <1>2, <1>3

(* The turn being answered stays whole.                                    *)
LEMMA CurrentStays ==
  ASSUME NEW s \in Seq(Rows), NEW G, G \subseteq Droppable(s), NEW w \in Seq(Rows), NEW f,
         Lists(f, w, s, DOMAIN s \ G), Users(s) # {}
  PROVE  Keep(w, Current(w)) = Keep(s, Current(s))
<1>1. Len(w) \in Nat /\ DOMAIN w = 1..Len(w) /\ DOMAIN s \subseteq Nat /\ DOMAIN s \ G \subseteq Nat
  BY SeqRows
<1>2. InOrder(f, w, s, DOMAIN s \ G)
  BY <1>1, ListsOrder
<1>3. Users(s) \subseteq DOMAIN s /\ Users(w) \subseteq DOMAIN w
  BY DEF Users
<1>4. Current(s) \subseteq DOMAIN s \ G
  <2>1. ASSUME NEW i \in Current(s), i \in Droppable(s) PROVE FALSE
    <3>1. PICK u \in Users(s) : i < u
      BY <2>1 DEF Droppable
    <3>2. u <= i /\ u \in Nat /\ i \in Nat
      BY <1>1, <1>3, <2>1, <3>1 DEF Current
    <3> QED
      BY <3>1, <3>2
  <2> QED
    BY <2>1 DEF Current
<1>5. ASSUME NEW k \in Current(w) PROVE f[k] \in Current(s)
  <2>1. k \in 1..Len(w) /\ f[k] \in DOMAIN s /\ f[k] \in Nat
    BY <1>1, <1>2, <1>5 DEF Current, InOrder
  <2>2. ASSUME NEW v \in Users(s), v \notin G PROVE v <= f[k]
    <3>1. PICK m \in 1..Len(w) : f[m] = v
      BY <1>2, <1>3, <2>2 DEF InOrder
    <3>2. m \in Users(w)
      BY <1>1, <1>2, <3>1 DEF InOrder, Users
    <3>3. m <= k /\ m \in Nat /\ k \in Nat /\ v \in Nat
      BY <1>1, <1>3, <1>5, <2>1, <3>2 DEF Current
    <3>4. ~(f[k] < f[m])
      BY <1>2, <2>1, <3>1, <3>3 DEF InOrder
    <3> QED
      BY <2>1, <3>1, <3>3, <3>4
  <2>3. ASSUME NEW v \in Users(s), v \in G PROVE v <= f[k]
    <3>1. PICK x \in Users(s) : v < x /\ x \notin Droppable(s)
      BY <2>3, LaterQuestion
    <3>2. x <= f[k] /\ x \in Nat /\ v \in Nat
      BY <1>1, <1>3, <2>2, <3>1
    <3> QED
      BY <2>1, <3>1, <3>2
  <2> QED
    BY <2>1, <2>2, <2>3 DEF Current
<1>6. ASSUME NEW i \in Current(s) PROVE \E k \in Current(w) : f[k] = i
  <2>1. PICK k \in 1..Len(w) : f[k] = i
    BY <1>2, <1>4 DEF InOrder
  <2>2. ASSUME NEW m \in Users(w) PROVE m <= k
    <3>1. m \in 1..Len(w) /\ m \in Nat /\ k \in Nat
      BY <1>1, <1>3, <2>1
    <3>2. f[m] \in Users(s)
      BY <1>2, <2>2, <3>1 DEF InOrder, Users
    <3>3. f[m] <= f[k] /\ f[m] \in Nat /\ f[k] \in Nat
      BY <1>1, <1>2, <1>6, <2>1, <3>1, <3>2 DEF Current, InOrder
    <3>4. ~(f[k] < f[m])
      BY <3>3
    <3>5. ~(k < m)
      BY <1>2, <2>1, <3>1, <3>4 DEF InOrder
    <3> QED
      BY <3>1, <3>5
  <2>3. k \in Current(w)
    BY <1>1, <2>2 DEF Current
  <2> QED
    BY <2>1, <2>3
<1>7. PositionsOf(f, Current(w)) = Current(s)
  BY <1>5, <1>6 DEF PositionsOf
<1>8. Current(w) \subseteq DOMAIN w /\ DOMAIN s \ G \subseteq DOMAIN s
  BY DEF Current
<1> QED
  BY <1>4, <1>7, <1>8, PartStays

(* A question stays.                                                       *)
LEMMA QuestionStays ==
  ASSUME NEW s \in Seq(Rows), NEW G, G \subseteq Droppable(s), NEW w \in Seq(Rows), NEW f,
         Lists(f, w, s, DOMAIN s \ G), Users(s) # {}
  PROVE  Users(w) # {}
<1>1. Len(w) \in Nat /\ DOMAIN w = 1..Len(w) /\ DOMAIN s \subseteq Nat /\ DOMAIN s \ G \subseteq Nat
  BY SeqRows
<1>2. InOrder(f, w, s, DOMAIN s \ G)
  BY <1>1, ListsOrder
<1>3. \E i \in Users(s) : i \notin Droppable(s)
  <2> SUFFICES ASSUME Users(s) \subseteq Droppable(s) PROVE FALSE
    OBVIOUS
  <2>1. PICK i \in Users(s) : TRUE
    OBVIOUS
  <2>2. PICK u \in Users(s) : \A v \in Users(s) : v <= u
    BY <2>1 DEF Droppable
  <2>3. PICK n \in Users(s) : u < n
    BY <2>2 DEF Droppable
  <2>4. u \in Nat /\ n \in Nat /\ n <= u
    BY <1>1, <2>2 DEF Users
  <2> QED
    BY <2>3, <2>4
<1>4. PICK i \in Users(s) : i \notin G
  BY <1>3
<1>5. i \in DOMAIN s \ G /\ s[i].role = "user"
  BY <1>4 DEF Users
<1>6. PICK k \in 1..Len(w) : f[k] = i
  BY <1>2, <1>5 DEF InOrder
<1>7. w[k] = s[i]
  BY <1>2, <1>6 DEF InOrder
<1> QED
  BY <1>1, <1>5, <1>7 DEF Users

(* The loop of Chars, and what it computes.                                *)
Add(s, I, n) == IF n \in I THEN s[n].chars ELSE 0
SumsTo(x, s, I) ==
  \E F \in [0..Len(s) -> Nat] :
    F[0] = 0 /\ (\A n \in 1..Len(s) : F[n] = F[n - 1] + Add(s, I, n)) /\ F[Len(s)] = x

(* Every row adds a natural number.                                        *)
LEMMA AddNat ==
  ASSUME NEW s \in Seq(Rows), NEW I
  PROVE  \A n \in 1..Len(s) : Add(s, I, n) \in Nat
<1>1. \A n \in 1..Len(s) : s[n] \in Rows
  BY SeqRows
<1> QED
  BY <1>1, RowsType DEF Add

(* The loop, as a function of the position.                                *)
LEMMA CharsLoop ==
  ASSUME NEW s, Len(s) \in Nat, NEW I
  PROVE  \E sum : /\ sum = [n \in 0..Len(s) |-> IF n = 0 THEN 0 ELSE sum[n - 1] + Add(s, I, n)]
                  /\ Chars(s, I) = sum[Len(s)]
<1> DEFINE Def(v, n) == v + (IF n \in I THEN s[n].chars ELSE 0)
<1> DEFINE sum[n \in 0..Len(s)] ==
             IF n = 0 THEN 0 ELSE sum[n - 1] + (IF n \in I THEN s[n].chars ELSE 0)
<1>1. Chars(s, I) = sum[Len(s)]
  BY DEF Chars
<1>2. FiniteNatInductiveDefHypothesis(sum, 0, Def, 0, Len(s))
  BY DEF FiniteNatInductiveDefHypothesis
<1>3. FiniteNatInductiveDefConclusion(sum, 0, Def, 0, Len(s))
  <2> HIDE DEF Def, sum
  <2> QED
    BY <1>2, FiniteNatInductiveDef
<1>4. sum = [n \in 0..Len(s) |-> IF n = 0 THEN 0 ELSE sum[n - 1] + Add(s, I, n)]
  <2> HIDE DEF sum
  <2> QED
    BY <1>3 DEF FiniteNatInductiveDefConclusion, Add
<1> HIDE DEF sum
<1> QED
  BY <1>1, <1>4

(* It computes the one number that the positions sum to.                   *)
LEMMA CharsIs ==
  ASSUME NEW s \in Seq(Rows), NEW I
  PROVE  Chars(s, I) \in Nat /\ \A x : SumsTo(x, s, I) <=> x = Chars(s, I)
<1>1. PICK m \in Nat : m = Len(s)
  OBVIOUS
<1>2. PICK sum : /\ sum = [n \in 0..m |-> IF n = 0 THEN 0 ELSE sum[n - 1] + Add(s, I, n)]
                 /\ Chars(s, I) = sum[m]
  BY <1>1, CharsLoop
<1>3. \A n \in 1..m : Add(s, I, n) \in Nat
  BY <1>1, AddNat
<1>4. sum[0] = 0 /\ \A n \in 1..m : sum[n] = sum[n - 1] + Add(s, I, n)
  BY <1>2
<1> DEFINE N == {n \in 0..m : sum[n] \in Nat}
<1>5. \A n \in 0..m : n \in N
  <2>1. 0 \in N
    BY <1>4
  <2>2. \A n \in 1..m : n - 1 \in N => n \in N
    BY <1>3, <1>4
  <2> HIDE DEF N
  <2> QED
    BY <2>1, <2>2, CountUp
<1>6. sum \in [0..m -> Nat]
  BY <1>2, <1>5
<1>7. SumsTo(Chars(s, I), s, I) /\ Chars(s, I) \in Nat
  BY <1>1, <1>2, <1>4, <1>6 DEF SumsTo
<1>8. ASSUME NEW x, SumsTo(x, s, I) PROVE x = Chars(s, I)
  <2>1. PICK F \in [0..m -> Nat] :
          F[0] = 0 /\ (\A n \in 1..m : F[n] = F[n - 1] + Add(s, I, n)) /\ F[m] = x
    BY <1>1, <1>8 DEF SumsTo
  <2> DEFINE E == {n \in 0..m : F[n] = sum[n]}
  <2>2. 0 \in E
    BY <1>4, <2>1
  <2>3. \A n \in 1..m : n - 1 \in E => n \in E
    BY <1>4, <2>1
  <2>4. \A n \in 0..m : n \in E
    <3> HIDE DEF E
    <3> QED
      BY <2>2, <2>3, CountUp
  <2> QED
    BY <1>2, <2>1, <2>4
<1> QED
  BY <1>7, <1>8

(* The content of two parts adds up.                                       *)
LEMMA CharsSplit ==
  ASSUME NEW s \in Seq(Rows), NEW I, NEW J, I \intersect J = {}
  PROVE  Chars(s, I \union J) = Chars(s, I) + Chars(s, J)
<1>1. PICK m \in Nat : m = Len(s)
  OBVIOUS
<1>2. SumsTo(Chars(s, I), s, I) /\ SumsTo(Chars(s, J), s, J)
  BY CharsIs
<1>3. PICK F \in [0..m -> Nat] :
        F[0] = 0 /\ (\A n \in 1..m : F[n] = F[n - 1] + Add(s, I, n)) /\ F[m] = Chars(s, I)
  BY <1>1, <1>2 DEF SumsTo
<1>4. PICK G \in [0..m -> Nat] :
        G[0] = 0 /\ (\A n \in 1..m : G[n] = G[n - 1] + Add(s, J, n)) /\ G[m] = Chars(s, J)
  BY <1>1, <1>2 DEF SumsTo
<1>5. \A n \in 1..m : /\ Add(s, I, n) \in Nat /\ Add(s, J, n) \in Nat
                      /\ Add(s, I \union J, n) = Add(s, I, n) + Add(s, J, n)
  <2>1. \A n \in 1..m : Add(s, I, n) \in Nat /\ Add(s, J, n) \in Nat
    BY <1>1, AddNat
  <2> QED
    BY <2>1 DEF Add
<1> DEFINE H == [n \in 0..m |-> F[n] + G[n]]
<1>6. H \in [0..m -> Nat] /\ H[0] = 0 /\ H[m] = Chars(s, I) + Chars(s, J)
  BY <1>3, <1>4
<1>7. ASSUME NEW n \in 1..m PROVE H[n] = H[n - 1] + Add(s, I \union J, n)
  <2>1. n \in 0..m /\ n - 1 \in 0..m
    OBVIOUS
  <2>2. F[n - 1] \in Nat /\ G[n - 1] \in Nat /\ H[n] = F[n] + G[n] /\ H[n - 1] = F[n - 1] + G[n - 1]
    BY <2>1
  <2>3. F[n] = F[n - 1] + Add(s, I, n) /\ G[n] = G[n - 1] + Add(s, J, n)
    BY <1>3, <1>4
  <2>4. /\ Add(s, I, n) \in Nat /\ Add(s, J, n) \in Nat
        /\ Add(s, I \union J, n) = Add(s, I, n) + Add(s, J, n)
    BY <1>5
  <2> HIDE DEF H
  <2> QED
    BY <2>2, <2>3, <2>4
<1> HIDE DEF H
<1>8. SumsTo(Chars(s, I) + Chars(s, J), s, I \union J)
  BY <1>1, <1>6, <1>7 DEF SumsTo
<1> QED
  BY <1>8, CharsIs

(* One more row, of which the history counts.                              *)
LEMMA CharsAppend ==
  ASSUME NEW u \in Seq(Rows), NEW m \in Rows
  PROVE  /\ Append(u, m) \in Seq(Rows)
         /\ Chars(Append(u, m), History(Append(u, m)))
              = Chars(u, History(u)) + (IF m.role = "system" THEN 0 ELSE m.chars)
<1> DEFINE v == Append(u, m)
           x == IF m.role = "system" THEN 0 ELSE m.chars
<1>1. PICK l \in Nat : l = Len(u)
  OBVIOUS
<1>2. v \in Seq(Rows) /\ Len(v) = l + 1 /\ v[l + 1] = m /\ \A n \in 1..l : v[n] = u[n]
  BY <1>1
<1>3. x \in Nat
  BY RowsType
<1>4. DOMAIN u = 1..l /\ DOMAIN v = 1..(l + 1)
  BY <1>1, <1>2
<1> HIDE DEF v
<1>5. /\ \A n \in 1..l : Add(v, History(v), n) = Add(u, History(u), n)
      /\ Add(v, History(v), l + 1) = x
  <2>1. \A n \in 1..l : n \in History(v) <=> n \in History(u)
    BY <1>2, <1>4 DEF History
  <2>2. l + 1 \in History(v) <=> m.role # "system"
    BY <1>2, <1>4 DEF History
  <2>3. \A n \in 1..l : Add(v, History(v), n) = Add(u, History(u), n)
    BY <1>2, <2>1 DEF Add
  <2>4. Add(v, History(v), l + 1) = x
    BY <1>2, <2>2 DEF Add
  <2> QED
    BY <2>3, <2>4
<1> HIDE DEF x
<1>6. PICK F \in [0..l -> Nat] :
        F[0] = 0 /\ (\A n \in 1..l : F[n] = F[n - 1] + Add(u, History(u), n)) /\ F[l] = Chars(u, History(u))
  BY <1>1, CharsIs DEF SumsTo
<1> DEFINE G == [n \in 0..(l + 1) |-> IF n = l + 1 THEN F[l] + x ELSE F[n]]
<1>7. G[0] = 0 /\ G[l + 1] = F[l] + x /\ \A n \in 0..l : G[n] = F[n]
  BY <1>6
<1>8. G \in [0..(l + 1) -> Nat]
  <2>1. \A n \in 0..(l + 1) : n = l + 1 \/ n \in 0..l
    OBVIOUS
  <2>2. F[l] \in Nat
    OBVIOUS
  <2> QED
    BY <1>3, <2>1, <2>2
<1> HIDE DEF G
<1>9. ASSUME NEW n \in 1..(l + 1) PROVE G[n] = G[n - 1] + Add(v, History(v), n)
  <2>1. CASE n = l + 1
    <3>1. n - 1 = l /\ l \in 0..l
      BY <2>1
    <3> QED
      BY <1>5, <1>7, <2>1, <3>1
  <2>2. CASE n # l + 1
    <3>1. n \in 1..l /\ n \in 0..l /\ n - 1 \in 0..l
      BY <2>2
    <3> QED
      BY <1>5, <1>6, <1>7, <3>1
  <2> QED
    BY <2>1, <2>2
<1>10. SumsTo(F[l] + x, v, History(v))
  <2>1. G[0] = 0 /\ G[l + 1] = F[l] + x
    BY <1>7
  <2> QED
    BY <1>2, <1>8, <1>9, <2>1 DEF SumsTo
<1> QED
  BY <1>2, <1>6, <1>10, CharsIs DEF v, x

(* What a list keeps weighs as much as before.                             *)
LEMMA CharsKept ==
  ASSUME NEW s \in Seq(Rows), NEW J
  PROVE  Chars(Keep(s, J), History(Keep(s, J))) = Chars(s, J \intersect History(s))
<1>1. PICK m \in Nat : m = Len(s)
  OBVIOUS
<1>2. DOMAIN s = 1..m /\ \A n \in 1..m : s[n] \in Rows
  BY <1>1
<1>3. PICK kept :
        /\ kept = [n \in 0..m |-> IF n = 0 THEN <<>>
                                  ELSE IF n \in J THEN Append(kept[n - 1], s[n]) ELSE kept[n - 1]]
        /\ Keep(s, J) = kept[m]
  BY <1>1, KeepLoop
<1>4. /\ kept[0] = <<>>
      /\ \A n \in 1..m : kept[n] = IF n \in J THEN Append(kept[n - 1], s[n]) ELSE kept[n - 1]
  <2>1. kept[0] = <<>>
    BY <1>3
  <2>2. ASSUME NEW n \in 1..m
        PROVE  kept[n] = IF n \in J THEN Append(kept[n - 1], s[n]) ELSE kept[n - 1]
    <3>1. n \in 0..m /\ n # 0
      OBVIOUS
    <3> QED
      BY <1>3, <3>1
  <2> QED
    BY <2>1, <2>2
<1> DEFINE S == {n \in 0..m : kept[n] \in Seq(Rows)}
<1>5. \A n \in 0..m : n \in S
  <2>1. 0 \in S
    <3>1. <<>> \in Seq(Rows) /\ 0 \in 0..m
      OBVIOUS
    <3> QED
      BY <1>4, <3>1
  <2>2. ASSUME NEW n \in 1..m, n - 1 \in S PROVE n \in S
    <3>1. kept[n - 1] \in Seq(Rows) /\ s[n] \in Rows /\ n \in 0..m
      BY <1>2, <2>2
    <3>2. Append(kept[n - 1], s[n]) \in Seq(Rows)
      BY <3>1
    <3> QED
      BY <1>4, <3>1, <3>2
  <2> HIDE DEF S
  <2> QED
    BY <2>1, <2>2, CountUp
<1>6. \A n \in 0..m : kept[n] \in Seq(Rows)
  BY <1>5
<1> HIDE DEF S
<1> DEFINE W(u) == Chars(u, History(u))
           F == [n \in 0..m |-> W(kept[n])]
           I == J \intersect History(s)
<1>7. F \in [0..m -> Nat]
  BY <1>6, CharsIs
<1>8. \A n \in 0..m : F[n] = W(kept[n])
  OBVIOUS
<1> HIDE DEF F
<1>9. F[0] = 0
  <2>1. <<>> \in Seq(Rows) /\ Len(<<>>) = 0
    OBVIOUS
  <2>2. SumsTo(W(<<>>), <<>>, History(<<>>))
    BY <2>1, CharsIs
  <2>3. W(<<>>) = 0
    <3> HIDE DEF W
    <3> QED
      BY <2>1, <2>2 DEF SumsTo
  <2> QED
    BY <1>4, <1>8, <2>3
<1>10. ASSUME NEW n \in 1..m PROVE F[n] = F[n - 1] + Add(s, I, n)
  <2>1. n \in 0..m /\ n - 1 \in 0..m /\ s[n] \in Rows /\ kept[n - 1] \in Seq(Rows)
    BY <1>2, <1>6
  <2>2. n \in I <=> n \in J /\ s[n].role # "system"
    BY <1>2 DEF History
  <2>3. F[n - 1] \in Nat /\ F[n] = W(kept[n]) /\ F[n - 1] = W(kept[n - 1])
    BY <1>7, <1>8, <2>1
  <2>4. CASE n \in J
    <3>1. W(Append(kept[n - 1], s[n])) = W(kept[n - 1]) + (IF s[n].role = "system" THEN 0 ELSE s[n].chars)
      BY <2>1, CharsAppend
    <3>2. kept[n] = Append(kept[n - 1], s[n])
      BY <1>4, <2>4
    <3>3. Add(s, I, n) = IF s[n].role = "system" THEN 0 ELSE s[n].chars
      BY <2>2, <2>4 DEF Add
    <3> HIDE DEF W
    <3> QED
      BY <2>3, <3>1, <3>2, <3>3
  <2>5. CASE n \notin J
    <3>1. kept[n] = kept[n - 1] /\ Add(s, I, n) = 0
      BY <1>4, <2>2, <2>5 DEF Add
    <3> HIDE DEF W
    <3> QED
      BY <2>3, <3>1
  <2> QED
    BY <2>4, <2>5
<1>11. SumsTo(W(kept[m]), s, I)
  <2>1. F[m] = W(kept[m])
    BY <1>8
  <2> HIDE DEF W
  <2> QED
    BY <1>1, <1>7, <1>9, <1>10, <2>1 DEF SumsTo
<1> QED
  BY <1>3, <1>11, CharsIs

(* What is estimated of two parts is no less than the sum of both          *)
(* estimates says: each is rounded down.                                   *)
LEMMA TokensSplit ==
  ASSUME NEW s \in Seq(Rows), NEW I, NEW J, I \intersect J = {}
  PROVE  /\ Tokens(s, I) \in Nat /\ Tokens(s, J) \in Nat /\ Tokens(s, I \union J) \in Nat
         /\ Tokens(s, I) <= Tokens(s, I \union J) - Tokens(s, J)
<1>1. \A x, y \in Nat : x \div 4 + y \div 4 <= (x + y) \div 4 /\ x \div 4 \in Nat
  OBVIOUS
<1>2. PICK x \in Nat : x = Chars(s, I)
  BY CharsIs
<1>3. PICK y \in Nat : y = Chars(s, J)
  BY CharsIs
<1>4. Tokens(s, I) = x \div 4 /\ Tokens(s, J) = y \div 4 /\ Tokens(s, I \union J) = (x + y) \div 4
  BY <1>2, <1>3, CharsSplit DEF Tokens
<1>5. x \div 4 \in Nat /\ y \div 4 \in Nat /\ (x + y) \div 4 \in Nat /\ x \div 4 + y \div 4 <= (x + y) \div 4
  BY <1>1
<1> QED
  BY <1>4, <1>5

(* The loop of trim after the blocks up to row n: whole blocks are gone,   *)
(* what is left is counted at no less than it weighs, and none was spared  *)
(* while that was too much.                                                *)
BlocksOf(s, K) == UNION {Block(s, Droppable(s), k) : k \in K}
DropFine(s, b, d, n) ==
  \E K \in SUBSET Starts(s, Droppable(s)) :
    /\ d.gone = BlocksOf(s, K)
    /\ \A k \in K : k <= n
    /\ d.left \in Int /\ Tokens(s, History(s) \ d.gone) <= d.left
    /\ d.left > b => \A k \in Starts(s, Droppable(s)) : k <= n => k \in K

DropStep(s, b, d, n) ==
  LET D == Droppable(s) IN
  IF d.left <= b \/ n \notin Starts(s, D) THEN d
  ELSE [gone |-> d.gone \union Block(s, D, n), left |-> d.left - Tokens(s, Block(s, D, n))]

(* The loop, as a function of the position.                                *)
LEMMA DropLoop ==
  ASSUME NEW s, Len(s) \in Nat, NEW b
  PROVE  \E drop :
           /\ drop = [k \in 0..Len(s) |->
                        IF k = 0 THEN [gone |-> {}, left |-> Tokens(s, History(s))]
                        ELSE DropStep(s, b, drop[k - 1], k)]
           /\ Dropped(s, b) = drop[Len(s)].gone
<1> DEFINE D == Droppable(s)
           none == [gone |-> {}, left |-> Tokens(s, History(s))]
           Def(d, k) == IF d.left <= b \/ k \notin Starts(s, D) THEN d
                        ELSE [gone |-> d.gone \union Block(s, D, k), left |-> d.left - Tokens(s, Block(s, D, k))]
<1> DEFINE drop[k \in 0..Len(s)] == IF k = 0 THEN none ELSE Def(drop[k - 1], k)
<1>1. Dropped(s, b) = drop[Len(s)].gone
  BY DEF Dropped
<1>2. FiniteNatInductiveDefHypothesis(drop, none, Def, 0, Len(s))
  <2> HIDE DEF Def, none
  <2> QED
    BY DEF FiniteNatInductiveDefHypothesis
<1>3. FiniteNatInductiveDefConclusion(drop, none, Def, 0, Len(s))
  <2> HIDE DEF Def, none, drop
  <2> QED
    BY <1>2, FiniteNatInductiveDef
<1>4. drop = [k \in 0..Len(s) |-> IF k = 0 THEN none ELSE Def(drop[k - 1], k)]
  <2> HIDE DEF Def, none, drop
  <2> QED
    BY <1>3 DEF FiniteNatInductiveDefConclusion
<1>5. \A d, k : Def(d, k) = DropStep(s, b, d, k)
  BY DEF DropStep
<1>6. drop = [k \in 0..Len(s) |-> IF k = 0 THEN none ELSE DropStep(s, b, drop[k - 1], k)]
  <2> HIDE DEF Def, none, drop
  <2> QED
    BY <1>4, <1>5
<1> HIDE DEF drop, Def
<1> QED
  BY <1>1, <1>6

(* One more block.                                                         *)
LEMMA DropStepFine ==
  ASSUME NEW s \in Seq(Rows), NEW b \in Nat, NEW n \in Nat \ {0}, NEW d, DropFine(s, b, d, n - 1)
  PROVE  DropFine(s, b, DropStep(s, b, d, n), n)
<1> DEFINE D == Droppable(s)
           B == Block(s, D, n)
           H == History(s)
<1>1. PICK K \in SUBSET Starts(s, D) :
        /\ d.gone = BlocksOf(s, K) /\ \A k \in K : k <= n - 1
        /\ d.left \in Int /\ Tokens(s, H \ d.gone) <= d.left
        /\ d.left > b => \A k \in Starts(s, D) : k <= n - 1 => k \in K
  BY DEF DropFine
<1>2. D \subseteq H /\ H \subseteq DOMAIN s /\ DOMAIN s \subseteq Nat
  BY DroppableRows
<1>3. Starts(s, D) \subseteq D
  BY DEF Starts
<1> HIDE DEF D, H
<1>4. CASE d.left <= b \/ n \notin Starts(s, D)
  <2>1. DropStep(s, b, d, n) = d
    BY <1>4 DEF DropStep, D
  <2>2. \A k \in K : k \in Nat /\ k <= n
    BY <1>1, <1>2, <1>3
  <2>3. d.left > b => \A k \in Starts(s, D) : k <= n => k \in K
    <3> SUFFICES ASSUME d.left > b, NEW k \in Starts(s, D), k <= n PROVE k \in K
      OBVIOUS
    <3>1. k # n /\ k \in Nat
      BY <1>1, <1>2, <1>3, <1>4
    <3>2. k <= n - 1
      BY <3>1
    <3> QED
      BY <1>1, <3>2
  <2> QED
    BY <1>1, <2>1, <2>2, <2>3 DEF DropFine, D, H
<1>5. CASE ~(d.left <= b) /\ n \in Starts(s, D)
  <2> DEFINE L == K \union {n}
             e == [gone |-> d.gone \union B, left |-> d.left - Tokens(s, B)]
  <2>1. DropStep(s, b, d, n) = e
    BY <1>5 DEF DropStep, D
  <2>2. L \in SUBSET Starts(s, D) /\ (\A k \in L : k <= n)
    BY <1>1, <1>2, <1>3, <1>5
  <2>3. d.gone \union B = BlocksOf(s, L)
    BY <1>1 DEF BlocksOf, D
  <2>4. B \intersect d.gone = {} /\ B \subseteq H
    <3>1. n \notin K /\ D \subseteq Nat
      BY <1>1, <1>2
    <3>2. ASSUME NEW k \in K PROVE B \intersect Block(s, D, k) = {}
      BY <1>1, <1>5, <3>1, <3>2, BlocksApart
    <3>3. B \subseteq D
      BY <1>3, <1>5, BlockInside
    <3> HIDE DEF B
    <3> QED
      BY <1>1, <1>2, <3>2, <3>3 DEF BlocksOf, D
  <2> HIDE DEF B
  <2>5. H \ d.gone = (H \ (d.gone \union B)) \union B /\ (H \ (d.gone \union B)) \intersect B = {}
    BY <2>4
  <2>6. /\ Tokens(s, H \ (d.gone \union B)) \in Nat /\ Tokens(s, B) \in Nat /\ Tokens(s, H \ d.gone) \in Nat
        /\ Tokens(s, H \ (d.gone \union B)) <= Tokens(s, H \ d.gone) - Tokens(s, B)
    <3>1. PICK R : R = H \ (d.gone \union B)
      OBVIOUS
    <3>2. R \intersect B = {} /\ H \ d.gone = R \union B
      BY <2>5, <3>1
    <3>3. /\ Tokens(s, R) \in Nat /\ Tokens(s, B) \in Nat /\ Tokens(s, R \union B) \in Nat
          /\ Tokens(s, R) <= Tokens(s, R \union B) - Tokens(s, B)
      BY <3>2, TokensSplit
    <3> QED
      BY <3>1, <3>2, <3>3
  <2>7. e.gone = d.gone \union B /\ e.left = d.left - Tokens(s, B)
    OBVIOUS
  <2> HIDE DEF e
  <2>8. e.left \in Int /\ Tokens(s, H \ e.gone) <= e.left
    BY <1>1, <2>6, <2>7
  <2>9. \A k \in Starts(s, D) : k <= n => k \in L
    <3> SUFFICES ASSUME NEW k \in Starts(s, D), k <= n, k # n PROVE k \in K
      OBVIOUS
    <3>1. k <= n - 1 /\ d.left > b
      BY <1>1, <1>2, <1>3, <1>5
    <3> QED
      BY <1>1, <3>1
  <2> HIDE DEF L
  <2>10. DropFine(s, b, e, n)
    BY <2>2, <2>3, <2>7, <2>8, <2>9 DEF DropFine, D, H
  <2> QED
    BY <2>1, <2>10
<1> QED
  BY <1>4, <1>5

(* The loop at its end.                                                    *)
LEMMA DroppedFine ==
  ASSUME NEW s \in Seq(Rows), NEW b \in Nat
  PROVE  \E d : Dropped(s, b) = d.gone /\ DropFine(s, b, d, Len(s))
<1>1. PICK m \in Nat : m = Len(s)
  OBVIOUS
<1>2. PICK drop :
        /\ drop = [k \in 0..m |-> IF k = 0 THEN [gone |-> {}, left |-> Tokens(s, History(s))]
                                  ELSE DropStep(s, b, drop[k - 1], k)]
        /\ Dropped(s, b) = drop[m].gone
  BY <1>1, DropLoop
<1>3. /\ drop[0] = [gone |-> {}, left |-> Tokens(s, History(s))]
      /\ \A n \in 1..m : drop[n] = DropStep(s, b, drop[n - 1], n)
  <2>1. drop[0] = [gone |-> {}, left |-> Tokens(s, History(s))]
    BY <1>2
  <2>2. ASSUME NEW n \in 1..m PROVE drop[n] = DropStep(s, b, drop[n - 1], n)
    <3>1. n \in 0..m /\ n # 0
      OBVIOUS
    <3> QED
      BY <1>2, <3>1
  <2> QED
    BY <2>1, <2>2
<1> DEFINE S == {n \in 0..m : DropFine(s, b, drop[n], n)}
<1>4. 0 \in S
  <2>1. Tokens(s, History(s)) \in Nat
    <3>1. {} \intersect History(s) = {} /\ {} \union History(s) = History(s)
      OBVIOUS
    <3> QED
      BY <3>1, TokensSplit
  <2>2. drop[0].gone = {} /\ drop[0].left = Tokens(s, History(s)) /\ History(s) \ {} = History(s)
    BY <1>3
  <2>3. BlocksOf(s, {}) = {}
    BY DEF BlocksOf
  <2>4. \A k \in Starts(s, Droppable(s)) : ~(k <= 0)
    <3>1. Starts(s, Droppable(s)) \subseteq 1..m
      BY <1>1, DroppableRows, SeqRows DEF Starts
    <3> QED
      BY <3>1
  <2>5. DropFine(s, b, drop[0], 0)
    BY <2>1, <2>2, <2>3, <2>4 DEF DropFine
  <2> QED
    BY <2>5
<1>5. \A n \in 1..m : n - 1 \in S => n \in S
  <2> SUFFICES ASSUME NEW n \in 1..m, DropFine(s, b, drop[n - 1], n - 1)
               PROVE  DropFine(s, b, drop[n], n)
    OBVIOUS
  <2>1. n \in Nat \ {0}
    OBVIOUS
  <2>2. DropFine(s, b, DropStep(s, b, drop[n - 1], n), n)
    BY <2>1, DropStepFine
  <2> QED
    BY <1>3, <2>2
<1>6. \A n \in 0..m : n \in S
  <2> HIDE DEF S
  <2> QED
    BY <1>4, <1>5, CountUp
<1>7. DropFine(s, b, drop[m], m)
  BY <1>6
<1> QED
  BY <1>1, <1>2, <1>7

(* Trim drops whole blocks, and when the rest does not fit everything that *)
(* may go is gone.                                                         *)
LEMMA DroppedIsWhole ==
  ASSUME NEW s \in Seq(Rows), NEW b \in Nat
  PROVE  /\ Whole(s, Dropped(s, b))
         /\ Tokens(s, History(s) \ Dropped(s, b)) <= b \/ Dropped(s, b) = Droppable(s)
<1>1. PICK d : Dropped(s, b) = d.gone /\ DropFine(s, b, d, Len(s))
  BY DroppedFine
<1>2. PICK K \in SUBSET Starts(s, Droppable(s)) :
        /\ d.gone = BlocksOf(s, K)
        /\ d.left \in Int /\ Tokens(s, History(s) \ d.gone) <= d.left
        /\ d.left > b => \A k \in Starts(s, Droppable(s)) : k <= Len(s) => k \in K
  BY <1>1 DEF DropFine
<1>3. Whole(s, d.gone)
  BY <1>2 DEF Whole, BlocksOf
<1>4. Tokens(s, History(s) \ d.gone) \in Nat
  <2>1. (History(s) \ d.gone) \intersect {} = {}
    OBVIOUS
  <2> QED
    BY <2>1, TokensSplit
<1>5. ASSUME d.left > b PROVE d.gone = Droppable(s)
  <2>1. Droppable(s) \subseteq 1..Len(s) /\ Droppable(s) \subseteq Nat /\ Len(s) \in Nat
    BY DroppableRows, SeqRows
  <2>2. Starts(s, Droppable(s)) \subseteq K
    BY <1>2, <1>5, <2>1 DEF Starts
  <2>3. Droppable(s) \subseteq d.gone
    BY <1>2, <2>1, <2>2, BlocksCover DEF BlocksOf
  <2> QED
    BY <1>3, <2>3, WholeInside
<1> QED
  BY <1>1, <1>2, <1>3, <1>4, <1>5

(* When all that may go is gone, nothing more may go.                      *)
LEMMA NothingMoreToDrop ==
  ASSUME NEW s \in Seq(Rows), NEW w \in Seq(Rows), NEW f,
         Lists(f, w, s, DOMAIN s \ Droppable(s))
  PROVE  Droppable(w) = {}
<1>1. Len(w) \in Nat /\ DOMAIN w = 1..Len(w) /\ DOMAIN s \subseteq Nat /\ DOMAIN s \ Droppable(s) \subseteq Nat
  BY SeqRows
<1>2. InOrder(f, w, s, DOMAIN s \ Droppable(s))
  BY <1>1, ListsOrder
<1> SUFFICES ASSUME NEW i \in Droppable(w) PROVE FALSE
  OBVIOUS
<1>3. i \in 1..Len(w) /\ w[i].role # "system" /\ i \in History(w)
  BY <1>1 DEF Droppable, History
<1>4. f[i] \in DOMAIN s /\ f[i] \notin Droppable(s) /\ w[i] = s[f[i]]
  BY <1>2, <1>3 DEF InOrder
<1>5. f[i] \in History(s)
  BY <1>3, <1>4 DEF History
<1>6. PICK n \in Users(s) : TRUE
  BY <1>4, <1>5 DEF Droppable
<1>7. Users(w) # {}
  <2>1. Droppable(s) \subseteq Droppable(s) /\ Users(s) # {}
    BY <1>6
  <2> QED
    BY <2>1, QuestionStays
<1>8. PICK u \in Users(w) : (\A v \in Users(w) : v <= u) /\ i < u
  BY <1>7 DEF Droppable
<1>9. u \in 1..Len(w) /\ w[u].role = "user"
  BY <1>1, <1>8 DEF Users
<1>10. f[u] \in DOMAIN s /\ f[u] \notin Droppable(s) /\ w[u] = s[f[u]] /\ f[i] < f[u] /\ f[u] \in Nat /\ f[i] \in Nat
  BY <1>2, <1>3, <1>8, <1>9 DEF InOrder
<1>11. f[u] \in Users(s) /\ f[u] \in History(s)
  BY <1>9, <1>10 DEF Users, History
<1>12. \A v \in Users(s) : v <= f[u]
  <2> SUFFICES ASSUME NEW v \in Users(s), ~(v <= f[u]) PROVE FALSE
    OBVIOUS
  <2>1. v \in Nat /\ f[u] < v /\ v \in DOMAIN s /\ s[v].role = "user"
    BY <1>1, <1>10 DEF Users
  <2>2. CASE v \in Droppable(s)
    <3>1. PICK x \in Users(s) : (\A y \in Users(s) : y <= x) /\ v < x
      BY <1>6, <2>2 DEF Droppable
    <3>2. x \in Nat /\ f[u] < x
      BY <1>1, <1>10, <2>1, <3>1 DEF Users
    <3> QED
      BY <1>10, <1>11, <3>1, <3>2 DEF Droppable
  <2>3. CASE v \notin Droppable(s)
    <3>1. PICK k \in 1..Len(w) : f[k] = v
      BY <1>2, <2>1, <2>3 DEF InOrder
    <3>2. w[k] = s[v]
      BY <1>2, <3>1 DEF InOrder
    <3>3. k \in Users(w)
      BY <1>1, <2>1, <3>1, <3>2 DEF Users
    <3>4. u < k
      BY <1>2, <1>9, <2>1, <3>1 DEF InOrder
    <3>5. k <= u /\ u \in Nat /\ k \in Nat
      BY <1>8, <1>9, <3>1, <3>3
    <3> QED
      BY <3>4, <3>5
  <2> QED
    BY <2>2, <2>3
<1> QED
  BY <1>4, <1>5, <1>10, <1>11, <1>12 DEF Droppable

(* What every step keeps: the rows are rows, and what was sent is what     *)
(* both passes and the trim made of them.                                  *)
ContextInv ==
  /\ rows \in Seq(Rows)
  /\ budget \in Nat
  /\ budget # 0 => sent = Trim(Sanitize(rows), budget)

(* It is an invariant.                                                     *)
LEMMA ContextInvariant == ContextSpec => []ContextInv
<1>1. ContextInit => ContextInv
  BY DEF ContextInit, ContextInv
<1>2. ContextInv /\ [ContextNext]_contextVars => ContextInv'
  <2> SUFFICES ASSUME ContextInv, [ContextNext]_contextVars PROVE ContextInv'
    OBVIOUS
  <2>1. ASSUME NEW m \in Rows, Grows(m) PROVE ContextInv'
    BY <2>1 DEF Grows, ContextInv
  <2>2. ASSUME NEW b \in Budget, Sends(b) PROVE ContextInv'
    <3>1. b \in Nat
      BY ContextAssumption
    <3> QED
      BY <2>2, <3>1 DEF Sends, ContextInv
  <2>3. CASE UNCHANGED contextVars
    BY <2>3 DEF contextVars, ContextInv
  <2> QED
    BY <2>1, <2>2, <2>3 DEF ContextNext
<1> QED
  BY <1>1, <1>2, PTL DEF ContextSpec

(* Whatever rows are left behind, what is sent is sendable.                *)
LEMMA TrimSendable ==
  ASSUME NEW s \in Seq(Rows), Valid(s), NEW b \in Nat, NEW w, w = Trim(s, b)
  PROVE  /\ w \in Seq(Rows) /\ Valid(w)
         /\ Keep(w, Instructions(w)) = Keep(s, Instructions(s))
         /\ Users(s) # {} => Keep(w, Current(w)) = Keep(s, Current(s))
         /\ Tokens(w, History(w)) <= b \/ Droppable(w) = {}
<1>1. PICK G : G = Dropped(s, b)
  OBVIOUS
<1>2. w = Keep(s, DOMAIN s \ G)
  BY <1>1 DEF Trim
<1>3. Whole(s, G) /\ (Tokens(s, History(s) \ G) <= b \/ G = Droppable(s))
  BY <1>1, DroppedIsWhole
<1>4. w \in Seq(Rows) /\ Valid(w) /\ \E f : Lists(f, w, s, DOMAIN s \ G)
  BY <1>2, <1>3, LeftOver
<1>5. PICK f : Lists(f, w, s, DOMAIN s \ G)
  BY <1>4
<1>6. G \subseteq Droppable(s) /\ Droppable(s) \subseteq History(s) /\ History(s) \subseteq DOMAIN s
  BY <1>3, WholeInside, DroppableRows
<1>7. Keep(w, Instructions(w)) = Keep(s, Instructions(s))
  <2>1. Instructions(s) \subseteq DOMAIN s \ G
    BY <1>6 DEF Instructions, History
  <2>2. DOMAIN s \ G \subseteq DOMAIN s
    OBVIOUS
  <2> QED
    BY <1>4, <1>5, <2>1, <2>2, InstructionsStay
<1>8. Users(s) # {} => Keep(w, Current(w)) = Keep(s, Current(s))
  BY <1>4, <1>5, <1>6, CurrentStays
<1>9. CASE Tokens(s, History(s) \ G) <= b
  <2>1. (DOMAIN s \ G) \intersect History(s) = History(s) \ G
    BY <1>6
  <2>2. Tokens(w, History(w)) = Tokens(s, History(s) \ G)
    BY <1>2, <2>1, CharsKept DEF Tokens
  <2> QED
    BY <1>4, <1>7, <1>8, <1>9, <2>2
<1>10. CASE G = Droppable(s)
  BY <1>4, <1>5, <1>7, <1>8, <1>10, NothingMoreToDrop
<1> QED
  BY <1>3, <1>9, <1>10

(* Whatever rows a broken turn left behind, what is sent is valid after    *)
(* both passes, keeps every instruction and, whole, the turn being         *)
(* answered, and fits the budget unless that turn alone does not           *)
(* (sanitize_messages and trim, core/context.py).                          *)
THEOREM SentCorrect == ContextSpec => []Sendable
<1>1. ContextInv => Sendable
  <2> SUFFICES ASSUME ContextInv, budget # 0 PROVE
        LET clean == Sanitize(rows) IN
        /\ Valid(sent) /\ Sanitize(clean) = clean
        /\ Keep(sent, Instructions(sent)) = Keep(clean, Instructions(clean))
        /\ Users(clean) # {} => Keep(sent, Current(sent)) = Keep(clean, Current(clean))
        /\ Tokens(sent, History(sent)) <= budget \/ Droppable(sent) = {}
    BY DEF Sendable
  <2> DEFINE clean == Sanitize(rows)
  <2>1. clean \in Seq(Rows) /\ Valid(clean)
    BY SanitizeValid DEF ContextInv
  <2>2. budget \in Nat /\ sent = Trim(clean, budget)
    BY DEF ContextInv
  <2> HIDE DEF clean
  <2>3. Sanitize(clean) = clean
    BY <2>1, ValidIsClean
  <2>4. /\ Valid(sent)
        /\ Keep(sent, Instructions(sent)) = Keep(clean, Instructions(clean))
        /\ Users(clean) # {} => Keep(sent, Current(sent)) = Keep(clean, Current(clean))
        /\ Tokens(sent, History(sent)) <= budget \/ Droppable(sent) = {}
    BY <2>1, <2>2, TrimSendable
  <2> QED
    BY <2>3, <2>4 DEF clean
<1> QED
  BY <1>1, ContextInvariant, PTL
=============================================================================
