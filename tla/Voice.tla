-------------------------------- MODULE Voice --------------------------------
(***************************************************************************)
(* voice/pipeline.py: the voice thread's state machine, the bridge that    *)
(* turns bus events into sentences, and the kill switch of ui/server.py.   *)
(*                                                                         *)
(* Two threads share _interrupt, _turn_future and sentence_q.  The voice   *)
(* thread wakes, listens, submits a turn to the event loop and speaks what *)
(* comes back; the event loop runs the turns and the bridge, and its kill  *)
(* handler is one synchronous stretch of code during which nothing else    *)
(* runs on the loop, while the voice thread goes on.  A cancel requested   *)
(* by either thread is delivered to the turn by the loop, later.           *)
(*                                                                         *)
(* A turn is what Turns says of one: it ends with a turn_end event, except *)
(* when it dies outside its try block, or in its finally block.            *)
(***************************************************************************)
EXTENDS Naturals, Sequences, FiniteSets, SequencesExt

CONSTANTS MaxRun,       \* bound: turns submitted, numbered in order
          MaxTokens,    \* bound: token events of a turn
          MaxKills,     \* bound: POST /kill
          MaxHiccups    \* bound: exceptions of the audio devices or the TTS

ASSUME VoiceAssumption == {MaxRun, MaxTokens, MaxKills, MaxHiccups} \subseteq Nat

Run == 1..MaxRun

VARIABLES
  vpc,        \* where the voice thread is
  item,       \* the sentence or sentinel it took last
  interrupt,  \* _interrupt
  future,     \* _turn_future (0: None)
  sq,         \* sentence_q
  bus,        \* the bridge's queue
  buf,        \* runs with text in _text_buf
  rpc,        \* each submitted run_turn
  tokens,     \* tokens it has published
  hit,        \* runs whose future was cancelled
  kill,        \* where the kill handler is
  kills, hiccups,
  overlap,    \* history: a turn was submitted before the last had gone quiet
  killed      \* history: runs that were live when the kill switch was pressed

thread == <<vpc, item>>
shared == <<interrupt, future>>
loop   == <<bus, buf, rpc, tokens>>
count  == <<kills, hiccups>>
voiceVars == <<thread, shared, sq, loop, hit, kill, count, overlap, killed>>

(* What is said is made of text of some runs; a sentinel is a run's end.   *)
Item == [kind : {"sentence", "end"}, of : SUBSET Run]

(* The turn_end of a turn that went well, or of any other.                 *)
Event == [kind : {"token", "ok", "dropped"}, of : Run]

Responding == {"responding", "getting", "playing", "ended"}

NoItem == [kind |-> "sentence", of |-> {}]

VoiceInit ==
  /\ vpc = "idle"
  /\ item = NoItem
  /\ interrupt = FALSE
  /\ future = 0
  /\ sq = <<>>
  /\ bus = <<>>
  /\ buf = {}
  /\ rpc = [r \in Run |-> "none"]
  /\ tokens = [r \in Run |-> 0]
  /\ hit = {}
  /\ kill = "off"
  /\ kills = 0
  /\ hiccups = 0
  /\ overlap = FALSE
  /\ killed = {}

-----------------------------------------------------------------------------
(* Turns on the event loop.  None of this happens inside the kill handler. *)

LoopFree == kill \in {"off", "broken"}

Active(r) == rpc[r] \in {"live", "closing"}

(* concurrent.futures: a cancelled future is done before its task is.      *)
Done(r) == r \in hit \/ ~Active(r)

Publish(kind, r) == bus' = Append(bus, [kind |-> kind, of |-> r])

Token(r) ==
  /\ LoopFree
  /\ rpc[r] = "live" /\ tokens[r] < MaxTokens
  /\ tokens' = [tokens EXCEPT ![r] = @ + 1]
  /\ Publish("token", r)
  /\ UNCHANGED <<thread, shared, sq, buf, rpc, hit, kill, count, overlap, killed>>

(* The turn returns, or fails; a cancel that has not been delivered comes  *)
(* too late.                                                               *)
Ends(r) ==
  /\ LoopFree
  /\ rpc[r] = "live"
  /\ rpc' = [rpc EXCEPT ![r] = "over"]
  /\ \E kind \in {"ok", "dropped"} : Publish(kind, r)
  /\ UNCHANGED <<thread, shared, sq, buf, tokens, hit, kill, count, overlap, killed>>

(* It dies of a database error before its try block.                       *)
Dies(r) ==
  /\ LoopFree
  /\ rpc[r] = "live" /\ tokens[r] = 0
  /\ rpc' = [rpc EXCEPT ![r] = "dead"]
  /\ UNCHANGED <<thread, shared, sq, bus, buf, tokens, hit, kill, count, overlap, killed>>

(* The cancel is delivered: to the try block, which closes the turn, or    *)
(* outside it.                                                             *)
Delivered(r) ==
  /\ LoopFree
  /\ r \in hit /\ rpc[r] = "live"
  /\ \E s \in {"closing", "dead"} : rpc' = [rpc EXCEPT ![r] = s]
  /\ UNCHANGED <<thread, shared, sq, bus, buf, tokens, hit, kill, count, overlap, killed>>

Closes(r) ==
  /\ LoopFree
  /\ rpc[r] = "closing"
  /\ rpc' = [rpc EXCEPT ![r] = "over"]
  /\ Publish("dropped", r)
  /\ UNCHANGED <<thread, shared, sq, buf, tokens, hit, kill, count, overlap, killed>>

-----------------------------------------------------------------------------
(* The bridge: the only producer of sentences.                             *)

Sentence(rs) == [kind |-> "sentence", of |-> rs]
End(r)       == [kind |-> "end", of |-> {r}]

(* Mutant: only a turn that went well ends the response.                   *)
BridgeOkOnly ==
  /\ LoopFree
  /\ bus # <<>>
  /\ bus' = Tail(bus)
  /\ buf' = {}
  /\ LET e == Head(bus) IN
       sq' = CASE e.kind = "token" -> Append(sq, Sentence(buf \union {e.of}))
               [] e.kind = "ok"    -> Append(sq, End(e.of))
               [] OTHER            -> sq
  /\ UNCHANGED <<thread, shared, rpc, tokens, hit, kill, count, overlap, killed>>

Bridge ==
  /\ LoopFree
  /\ bus # <<>>
  /\ bus' = Tail(bus)
  /\ LET e == Head(bus)
         text == buf \union {e.of}
     IN \/ /\ e.kind = "token"      \* the token does not complete a sentence
           /\ buf' = text
           /\ UNCHANGED sq
        \/ /\ e.kind = "token"      \* it does
           /\ buf' = {}
           /\ sq' = Append(sq, Sentence(text))
        \/ /\ e.kind = "ok"         \* what is left is flushed
           /\ buf' = {}
           /\ sq' = sq \o (IF buf = {} THEN <<>> ELSE <<Sentence(buf)>>) \o <<End(e.of)>>
        \/ /\ e.kind = "dropped"    \* what is left is dropped
           /\ buf' = {}
           /\ sq' = Append(sq, End(e.of))
  /\ UNCHANGED <<thread, shared, rpc, tokens, hit, kill, count, overlap, killed>>

-----------------------------------------------------------------------------
(* The voice thread.                                                       *)

(* _cancel_turn.                                                           *)
CancelTurn == hit' = IF future # 0 /\ ~Done(future) THEN hit \union {future} ELSE hit

(* _enter_listening: stale sentences and sentinels are drained.            *)
EnterListening == vpc' = "listening" /\ sq' = <<>>

Goes(to) == vpc' = to /\ UNCHANGED item

Wake ==
  /\ vpc = "idle"
  /\ EnterListening
  /\ UNCHANGED <<item, shared, loop, hit, kill, count, overlap, killed>>

(* Silence, an end phrase, or an unknown speaker in ignore mode.           *)
HearsNothing ==
  /\ vpc = "listening"
  /\ Goes("idle")
  /\ UNCHANGED <<shared, sq, loop, hit, kill, count, overlap, killed>>

HearsKillPhrase ==
  /\ vpc = "listening"
  /\ Goes("idle")
  /\ CancelTurn
  /\ sq' = <<>>
  /\ UNCHANGED <<shared, loop, kill, count, overlap, killed>>

(* "game mode on": toggled without a turn.                                 *)
HearsGameMode ==
  /\ vpc = "listening"
  /\ Goes("idle")
  /\ future' = 0
  /\ UNCHANGED <<interrupt, sq, loop, hit, kill, count, overlap, killed>>

(* An utterance, transcribed and its speaker checked.                      *)
Hears ==
  /\ vpc = "listening"
  /\ \E r \in Run : rpc[r] = "none"
  /\ Goes("heard")
  /\ UNCHANGED <<shared, sq, loop, hit, kill, count, overlap, killed>>

(* Nothing of run r can reach sentence_q any more.                         *)
Quiet(r) == ~Active(r) /\ r \notin buf /\ \A i \in DOMAIN bus : bus[i].of # r

(* Mutant: the queue is not drained before a turn is submitted.            *)
ClearsUndrained ==
  /\ vpc = "heard"
  /\ interrupt' = FALSE
  /\ overlap' = (overlap \/ \E r \in Run : ~Quiet(r))
  /\ Goes("submitting")
  /\ UNCHANGED <<future, sq, loop, hit, kill, count, killed>>

(* _interrupt.clear(), _drain_sentences().                                 *)
Clears ==
  /\ vpc = "heard"
  /\ interrupt' = FALSE
  /\ sq' = <<>>
  /\ overlap' = (overlap \/ \E r \in Run : ~Quiet(r))
  /\ Goes("submitting")
  /\ UNCHANGED <<future, loop, hit, kill, count, killed>>

Newest(r) == rpc[r] # "none" /\ \A q \in Run : q > r => rpc[q] = "none"

(* _submit(text): the event loop has the turn from here on ...             *)
Submits ==
  /\ vpc = "submitting"
  /\ \E r \in Run :
       /\ rpc[r] = "none" /\ \A q \in Run : q < r => rpc[q] # "none"
       /\ rpc' = [rpc EXCEPT ![r] = "live"]
  /\ Goes("submitted")
  /\ UNCHANGED <<shared, sq, bus, buf, tokens, hit, kill, count, overlap, killed>>

(* ... and its future is assigned here.                                    *)
Holds ==
  /\ vpc = "submitted"
  /\ \E r \in Run : Newest(r) /\ future' = r
  /\ Goes("responding")
  /\ UNCHANGED <<interrupt, sq, loop, hit, kill, count, overlap, killed>>

(* The kill switch is noticed: at the top of the loop, while a sentence    *)
(* plays, or as the turn ends.                                             *)
Aborts ==
  /\ vpc \in {"responding", "playing", "ended"}
  /\ interrupt
  /\ CancelTurn
  /\ sq' = <<>>
  /\ interrupt' = FALSE
  /\ Goes("idle")
  /\ UNCHANGED <<future, loop, kill, count, overlap, killed>>

Checks ==
  /\ vpc = "responding"
  /\ ~interrupt
  /\ Goes("getting")
  /\ UNCHANGED <<shared, sq, loop, hit, kill, count, overlap, killed>>

(* sentence_q.get: a sentence to play, the sentinel, or nothing.           *)
TakesSentence ==
  /\ vpc = "getting"
  /\ sq # <<>> /\ Head(sq).kind = "sentence"
  /\ item' = Head(sq)
  /\ sq' = Tail(sq)
  /\ vpc' = "playing"
  /\ UNCHANGED <<shared, loop, hit, kill, count, overlap, killed>>

TakesSentinel ==
  /\ vpc = "getting"
  /\ sq # <<>> /\ Head(sq).kind = "end"
  /\ item' = Head(sq)
  /\ sq' = Tail(sq)
  /\ vpc' = "ended"
  /\ future' = 0
  /\ UNCHANGED <<interrupt, loop, hit, kill, count, overlap, killed>>

TakesNothing ==
  /\ vpc = "getting"
  /\ sq = <<>>
  /\ Goes("responding")
  /\ UNCHANGED <<shared, sq, loop, hit, kill, count, overlap, killed>>

Played ==
  /\ vpc = "playing"
  /\ Goes("responding")
  /\ UNCHANGED <<shared, sq, loop, hit, kill, count, overlap, killed>>

(* Mutant: a kill that lands as the turn ends is not looked for.           *)
FollowsUpBlindly ==
  /\ vpc = "ended"
  /\ EnterListening
  /\ UNCHANGED <<item, shared, loop, hit, kill, count, overlap, killed>>

(* Conversation mode opens a follow-up window; without it, idle.           *)
FollowsUp ==
  /\ vpc = "ended"
  /\ ~interrupt
  /\ EnterListening \/ (vpc' = "idle" /\ UNCHANGED sq)
  /\ UNCHANGED <<item, shared, loop, hit, kill, count, overlap, killed>>

(* Mutant: a barge-in stops the speech and leaves the turn alone.          *)
BargesInSoftly ==
  /\ vpc = "playing" \/ (vpc = "getting" /\ sq = <<>>)
  /\ EnterListening
  /\ UNCHANGED <<item, shared, loop, hit, kill, count, overlap, killed>>

(* Speech over the answer, while it plays or between two sentences.        *)
BargesIn ==
  /\ vpc = "playing" \/ (vpc = "getting" /\ sq = <<>>)
  /\ CancelTurn
  /\ EnterListening
  /\ UNCHANGED <<item, shared, loop, kill, count, overlap, killed>>

(* Synthesis, transcription or the microphone raises: run() goes to idle   *)
(* and leaves the turn alone.                                              *)
Hiccup ==
  /\ vpc \in {"getting", "playing", "listening"}
  /\ hiccups < MaxHiccups
  /\ hiccups' = hiccups + 1
  /\ Goes("idle")
  /\ UNCHANGED <<shared, sq, loop, hit, kill, kills, overlap, killed>>

-----------------------------------------------------------------------------
(* POST /kill, on the loop thread: cancel_turn() statement by statement.   *)

KillSets ==
  /\ LoopFree
  /\ kills < MaxKills
  /\ kills' = kills + 1
  /\ interrupt' = TRUE
  /\ kill' = "check"
  /\ killed' = IF future # 0 /\ ~Done(future) THEN killed \union {future} ELSE killed
  /\ UNCHANGED <<thread, future, sq, loop, hit, hiccups, overlap>>

(* "_turn_future is not None and not _turn_future.done()" ...              *)
KillChecks ==
  /\ kill = "check"
  /\ kill' = IF future # 0 /\ ~Done(future) THEN "cancel" ELSE "drain"
  /\ UNCHANGED <<thread, shared, sq, loop, hit, count, overlap, killed>>

(* ... and _turn_future is read again: the voice thread may have set it to *)
(* None meanwhile, and the handler raises.                                 *)
KillCancels ==
  /\ kill = "cancel"
  /\ IF future = 0
       THEN kill' = "broken" /\ UNCHANGED hit
       ELSE kill' = "drain" /\ hit' = hit \union {future}
  /\ UNCHANGED <<thread, shared, sq, loop, count, overlap, killed>>

KillDrains ==
  /\ kill = "drain"
  /\ sq' = <<>>
  /\ kill' = "off"
  /\ UNCHANGED <<thread, shared, loop, hit, count, overlap, killed>>

-----------------------------------------------------------------------------
Respond == Aborts \/ Checks \/ TakesSentence \/ TakesSentinel \/ TakesNothing
           \/ Played \/ FollowsUp

VoiceThread == Wake \/ HearsNothing \/ HearsKillPhrase \/ HearsGameMode \/ Hears
               \/ Clears \/ Submits \/ Holds \/ Respond \/ BargesIn \/ Hiccup

KillSwitch == KillSets \/ KillChecks \/ KillCancels \/ KillDrains

RunStep(r) == Token(r) \/ Ends(r) \/ Dies(r) \/ Delivered(r) \/ Closes(r)

VoiceNext == VoiceThread \/ KillSwitch \/ Bridge \/ \E r \in Run : RunStep(r)

VoiceSpec == VoiceInit /\ [][VoiceNext]_voiceVars

(* The voice thread's response loop and the event loop keep running; a     *)
(* turn ends.  Nobody has to speak, to kill or to fail.                    *)
VoiceFairness ==
  /\ WF_voiceVars(Clears \/ Submits \/ Holds \/ Respond)
  /\ WF_voiceVars(Bridge)
  /\ WF_voiceVars(KillChecks \/ KillCancels \/ KillDrains)
  /\ \A r \in Run : WF_voiceVars(Ends(r) \/ Delivered(r) \/ Closes(r))

VoiceFairSpec == VoiceSpec /\ VoiceFairness

-----------------------------------------------------------------------------
(* Properties.                                                             *)

(* What is spoken, and the sentinel that ends a response, come from the    *)
(* turn that was submitted for it, provided the turns before it had gone   *)
(* quiet when the queue was drained.                                       *)
ResponseIsOwn ==
  ~overlap /\ vpc \in {"playing", "ended"} => \A r \in item.of : Newest(r)

(* A turn that runs and was not cancelled is the one _turn_future holds,   *)
(* so the kill switch reaches it, until a device fails or turns overlap;   *)
(* a turn that has just been submitted is held at the thread's next step,  *)
(* and _interrupt is looked at after it.                                   *)
KillReaches ==
  ~overlap /\ hiccups = 0 =>
    \A r \in Run : rpc[r] = "live" /\ r \notin hit => future = r \/ vpc = "submitted"

(* A turn that runs when the kill switch is pressed never opens the        *)
(* follow-up window.                                                       *)
NoFollowUpAfterKill ==
  [][vpc = "ended" /\ ~overlap /\ item.of \intersect killed # {} => vpc' # "listening"]_voiceVars

(* A response ends, unless its turn died without a turn_end; the response  *)
(* to a killed turn ends whether its sentinel comes or not.                *)
ResponseEnds ==
  /\ vpc \in Responding ~> (vpc \notin Responding \/ \E r \in Run : rpc[r] = "dead")
  /\ (interrupt /\ vpc \in Responding) ~> vpc \notin Responding

-----------------------------------------------------------------------------
(* Statements of the source that the code does not keep.                   *)

(* voice/pipeline.py:345 "the UI kill switch must reach VOICE turns too":  *)
(* every voice turn that runs is the one a kill would cancel, or has been  *)
(* cancelled, or is about to be held.                                      *)
KillReachesAll ==
  \A r \in Run : rpc[r] = "live" /\ r \notin hit => future = r \/ (vpc = "submitted" /\ Newest(r))
=============================================================================
