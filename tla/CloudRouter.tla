---------------------------- MODULE CloudRouter ----------------------------
(***************************************************************************)
(* core/router.py, CloudRouter: the ladder of brains every model call goes *)
(* down, on top of the health machine its outcomes feed.                   *)
(*                                                                         *)
(* chat() awaits nothing but the next chunk of a stream: healthy() of the  *)
(* cloud providers answers without the network.  So picking a rung, with   *)
(* every rung it skips, is one step, and what interleaves with a call are  *)
(* the chunks, the other calls, the probe loop and the game-mode switch.   *)
(***************************************************************************)
EXTENDS HealthMonitor, Sequences

CONSTANTS Call,             \* bound: one chat() call each
          Turns,            \* the kinds of turns the calls are made for
          MaxToggles        \* bound: switches of the game mode

(* What the ladder looks at: pinned by option or by the result of a pinned *)
(* tool in the context; Devanagari; capped and without tools; heavy by the *)
(* words of the turn or by tier_hint.                                      *)
Turn == [pinned : BOOLEAN, devanagari : BOOLEAN, capped : BOOLEAN,
         heavy : {"no", "words", "hint"}]

ASSUME RouterAssumption == MaxToggles \in Nat /\ Turns \subseteq Turn

Nim   == {"nim_heavy", "nim_primary"}
Cloud == Nim \union {"backstop"}
Tier  == Cloud \union {"daily"}

VARIABLES game,             \* CloudRouter.game_mode
          toggles,          \* switches so far
          turn,             \* what each call is made for
          stage,              \* where each call is suspended
          tier,             \* the rung it is on
          queue,            \* the rungs it has left
          opened,           \* history: the rungs whose provider it has called
          gameAtStart,      \* history: game_mode when the ladder was built
          switched          \* history: game_mode changed during the call

rung  == <<stage, tier, queue, opened>>
begun == <<turn, gameAtStart>>
rvars == <<monitor, game, toggles, rung, begun, switched>>

Live  == {"first", "last", "stream"}
Ended == {"served", "honest", "raised", "broken", "dropped"}

RouterInit ==
  /\ MonitorInit
  /\ game = FALSE /\ toggles = 0
  /\ turn \in [Call -> Turns]
  /\ stage = [c \in Call |-> "idle"]
  /\ tier = [c \in Call |-> "daily"]
  /\ queue = [c \in Call |-> <<>>]
  /\ opened = [c \in Call |-> {}]
  /\ gameAtStart = [c \in Call |-> FALSE]
  /\ switched = [c \in Call |-> FALSE]

-----------------------------------------------------------------------------
(* _ladder.                                                                *)

LocalOnly(k) ==
  \/ k.pinned
  \/ /\ ~game
     /\ \/ k.devanagari
        \/ state = "offline"
        \/ k.capped /\ k.heavy # "hint"

NimRungs(k) == IF k.heavy = "no" THEN <<"nim_primary">> ELSE <<"nim_heavy", "nim_primary">>

(* Mutants: the game mode outranks the privacy pin; a turn that is not     *)
(* heavy has no local rung.                                                *)
LadderGameFirst(k) ==
  IF game THEN <<"nim_primary", "backstop">> ELSE <<"nim_primary", "backstop", "daily">>

LadderNoLocal(k) ==
  IF LocalOnly(k) THEN <<"daily">> ELSE NimRungs(k) \o <<"backstop">>

Ladder(k) ==
  IF LocalOnly(k) THEN <<"daily">>
  ELSE IF game THEN NimRungs(k) \o <<"backstop">>
  ELSE IF state = "degraded" THEN <<"backstop", "daily">>
  ELSE IF k.heavy = "no" THEN NimRungs(k) \o <<"backstop", "daily">>
  ELSE NimRungs(k) \o <<"daily">>

-----------------------------------------------------------------------------
(* One way down the rungs of q, in the state after the step: each cloud    *)
(* rung may be missing or in a cooldown of its own, a NIM rung is skipped  *)
(* while the monitor cools down, and an empty bucket leaves the cloud      *)
(* altogether.                                                             *)

Skipped(q, i) == \A j \in 1..(i - 1) : q[j] # "daily"

Overflows(q) == \E i \in 1..Len(q) : q[i] \in Nim /\ Skipped(q, i) /\ ~cooling'

Lands(q, t, rest) ==
  \/ \E i \in 1..Len(q) :
       /\ Skipped(q, i)
       /\ t = q[i]
       /\ rest = SubSeq(q, i + 1, Len(q))
       /\ t \in Nim => ~cooling'
  \/ /\ Overflows(q) /\ ~game
     /\ t = "daily" /\ rest = <<>>

RunsOut(q) == Skipped(q, Len(q) + 1) \/ (Overflows(q) /\ game)

Rests(q) == {SubSeq(q, i + 1, Len(q)) : i \in 0..Len(q)}

(* Call c goes on with the rungs of q: on the next that takes it, or with  *)
(* none left.                                                              *)
GoesDown(c, q) ==
  /\ \/ \E t \in Tier, rest \in Rests(q) :
          /\ Lands(q, t, rest)
          /\ tier' = [tier EXCEPT ![c] = t]
          /\ queue' = [queue EXCEPT ![c] = rest]
          /\ opened' = [opened EXCEPT ![c] = @ \union {t}]
          /\ stage' = [stage EXCEPT ![c] = IF rest = <<>> THEN "last" ELSE "first"]
     \/ /\ RunsOut(q)
        /\ stage' = [stage EXCEPT ![c] = IF game THEN "honest" ELSE "raised"]
        /\ queue' = [queue EXCEPT ![c] = <<>>]
        /\ UNCHANGED <<tier, opened>>
  /\ UNCHANGED <<game, toggles, switched, turn>>

Start(c) ==
  /\ stage[c] = "idle"
  /\ UNCHANGED monitor
  /\ gameAtStart' = [gameAtStart EXCEPT ![c] = game]
  /\ GoesDown(c, Ladder(turn[c]))

-----------------------------------------------------------------------------
(* What a rung does before its first chunk.                                *)

(* A NIM rung reports its failure to the monitor, the others to nobody.    *)
Reports(c, reason) ==
  /\ IF tier[c] \in Nim THEN NoteFailure(reason) ELSE UNCHANGED mvars
  /\ UNCHANGED <<ppc, world>>

(* Mutant: no budget on the last rung.                                     *)
FirstTimeoutNotLast(c) ==
  /\ stage[c] = "first"
  /\ Reports(c, "timeout")
  /\ GoesDown(c, queue[c])
  /\ UNCHANGED gameAtStart

(* The first-token budget, or on the last rung the stall budget, is over.  *)
FirstTimeout(c) ==
  /\ stage[c] \in {"first", "last"}
  /\ Reports(c, "timeout")
  /\ GoesDown(c, queue[c])
  /\ UNCHANGED gameAtStart

(* HTTP errors, a dead connection, anything else the provider raises.      *)
Refused(c) ==
  /\ stage[c] \in {"first", "last"}
  /\ \E r \in {"429", "dns_fail", "error"} : Reports(c, r)
  /\ GoesDown(c, queue[c])
  /\ UNCHANGED gameAtStart

(* The stream ended without a chunk: another rung is tried, but not after  *)
(* the last one.                                                           *)
EmptyReply(c) ==
  /\ stage[c] = "first"
  /\ UNCHANGED monitor
  /\ GoesDown(c, queue[c])
  /\ UNCHANGED gameAtStart

-----------------------------------------------------------------------------
Moves(c, pc) ==
  /\ stage' = [stage EXCEPT ![c] = pc]
  /\ UNCHANGED <<tier, queue, opened, begun, switched, game, toggles, ppc, world>>

FirstChunk(c) ==
  /\ stage[c] \in {"first", "last"}
  /\ UNCHANGED mvars
  /\ Moves(c, "stream")

(* The stream is over; on the last rung it may be without a chunk.         *)
StreamEnds(c) ==
  /\ stage[c] \in {"stream", "last"}
  /\ IF tier[c] \in Nim THEN NoteSuccess ELSE UNCHANGED mvars
  /\ Moves(c, "served")

(* No chunk for stall_timeout_s.                                           *)
Stalls(c) ==
  /\ stage[c] = "stream"
  /\ IF tier[c] \in Nim THEN NoteFailure("timeout") ELSE UNCHANGED mvars
  /\ Moves(c, "broken")

(* An error after the first chunk surfaces: a half-streamed reply cannot   *)
(* be restarted.                                                           *)
Breaks(c) ==
  /\ stage[c] = "stream"
  /\ UNCHANGED mvars
  /\ Moves(c, "broken")

(* The consumer cancels the turn or closes the stream.                     *)
Dropped(c) ==
  /\ stage[c] \in Live
  /\ UNCHANGED mvars
  /\ Moves(c, "dropped")

(* set_game_mode, up to its first await.                                   *)
Toggle ==
  /\ toggles < MaxToggles
  /\ toggles' = toggles + 1
  /\ game' = ~game
  /\ switched' = [c \in Call |-> switched[c] \/ stage[c] \in Live]
  /\ UNCHANGED <<monitor, rung, begun>>

-----------------------------------------------------------------------------
(* CallFailed and CallServed stand for the calls that are not in Call: all *)
(* a call sees of another is what it reported to the monitor.              *)
Timer(c)  == FirstTimeout(c) \/ Stalls(c)
Stream(c) == Refused(c) \/ EmptyReply(c) \/ FirstChunk(c) \/ StreamEnds(c) \/ Breaks(c)

RouterNext ==
  \/ (Probe \/ CooldownOver \/ Trouble \/ Calm \/ CallFailed \/ CallServed)
     /\ UNCHANGED <<game, toggles, rung, begun, switched>>
  \/ Toggle
  \/ \E c \in Call : Start(c) \/ Timer(c) \/ Stream(c) \/ Dropped(c)

RouterSpec == RouterInit /\ [][RouterNext]_rvars

(* Nothing is asked of the providers: only the timers are sure to fire.    *)
RouterFairSpec == RouterSpec /\ \A c \in Call : WF_rvars(Timer(c))

-----------------------------------------------------------------------------
(* Properties.                                                             *)

(* Privacy outranks everything: whatever the connectivity, the bucket and  *)
(* the game mode do meanwhile, a pinned call reaches the local brain only. *)
PinnedStaysLocal == \A c \in Call : turn[c].pinned => opened[c] \subseteq {"daily"}

(* Once a call has spoken it stays on its rung: no reply is begun by one   *)
(* brain and continued or repeated by another.                             *)
OneVoice ==
  [][\A c \in Call : stage[c] = "stream" =>
       tier'[c] = tier[c] /\ opened'[c] = opened[c] /\ stage'[c] \in {"stream"} \union Ended]_rvars

(* A call fails without a word only after the local brain was tried, and   *)
(* in game mode it never fails without a word -- unless the mode was       *)
(* switched under it.                                                      *)
LocalOrHonest ==
  \A c \in Call : ~switched[c] =>
    /\ stage[c] = "raised" => ~gameAtStart[c] /\ "daily" \in opened[c]
    /\ stage[c] = "honest" => gameAtStart[c]

(* No provider can hold a call for ever: hanging before or in the middle   *)
(* of a stream is ended by a timer.                                        *)
EveryCallEnds == \A c \in Call : stage[c] \in Live ~> stage[c] \in Ended

=============================================================================
