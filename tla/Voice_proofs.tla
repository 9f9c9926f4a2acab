---------------------------- MODULE Voice_proofs ----------------------------
(* Whose words are spoken and which turn a kill reaches, for any number of *)
(* turns, tokens, kills and device failures.                               *)
EXTENDS Voice, TLAPS

(* Queues, as the sets of what they hold.                                  *)

(* The members of a sequence: of the empty one, ...                        *)
LEMMA ToSetOfEmpty == \A S : <<>> \in Seq(S) /\ ToSet(<<>>) = {}
BY DEF ToSet

(* ... of one that grows, ...                                              *)
LEMMA ToSetOfAppend ==
  ASSUME NEW S, NEW s \in Seq(S), NEW e \in S
  PROVE  Append(s, e) \in Seq(S) /\ ToSet(Append(s, e)) = ToSet(s) \union {e}
<1> DEFINE t == Append(s, e)
<1>1. /\ t \in Seq(S) /\ Len(t) = Len(s) + 1 /\ Len(s) \in Nat
      /\ t[Len(s) + 1] = e /\ \A i \in 1 .. Len(s) : t[i] = s[i]
      /\ DOMAIN t = 1 .. Len(t) /\ DOMAIN s = 1 .. Len(s)
  OBVIOUS
<1> HIDE DEF t
<1>2. \A x \in ToSet(t) : x \in ToSet(s) \union {e}
  BY <1>1 DEF ToSet
<1>3. \A x \in ToSet(s) : x \in ToSet(t)
  BY <1>1 DEF ToSet
<1>4. e \in ToSet(t)
  BY <1>1 DEF ToSet
<1>5. QED
  BY <1>1, <1>2, <1>3, <1>4 DEF t

(* ... of one that loses its head, ...                                     *)
LEMMA ToSetOfTail ==
  ASSUME NEW S, NEW s \in Seq(S), s # <<>>
  PROVE  /\ Tail(s) \in Seq(S) /\ ToSet(Tail(s)) \subseteq ToSet(s)
         /\ Head(s) \in ToSet(s) /\ Head(s) \in S
<1> DEFINE t == Tail(s)
<1>1. /\ t \in Seq(S) /\ Len(t) = Len(s) - 1 /\ Len(s) \in Nat \ {0} /\ Head(s) = s[1]
      /\ \A i \in 1 .. Len(t) : t[i] = s[i + 1]
      /\ DOMAIN t = 1 .. Len(t) /\ DOMAIN s = 1 .. Len(s) /\ Head(s) \in S
  OBVIOUS
<1> HIDE DEF t
<1>2. \A x \in ToSet(t) : x \in ToSet(s)
  BY <1>1 DEF ToSet
<1>3. Head(s) \in ToSet(s)
  BY <1>1 DEF ToSet
<1>4. QED
  BY <1>1, <1>2, <1>3 DEF t

(* ... and of any one.                                                     *)
LEMMA ToSetOfSeq ==
  ASSUME NEW S, NEW s \in Seq(S)
  PROVE  /\ ToSet(s) \subseteq S
         /\ \A x \in ToSet(s) : \E i \in DOMAIN s : x = s[i]
         /\ \A i \in DOMAIN s : s[i] \in ToSet(s)
BY DEF ToSet
-----------------------------------------------------------------------------
VoicePc == {"idle", "listening", "heard", "submitting", "submitted"} \union Responding
RunPc == {"none", "live", "closing", "over", "dead"}

VoiceTypeOK ==
  /\ vpc \in VoicePc /\ item \in Item /\ interrupt \in BOOLEAN /\ future \in 0 .. MaxRun
  /\ sq \in Seq(Item) /\ bus \in Seq(Event) /\ buf \in SUBSET Run
  /\ rpc \in [Run -> RunPc] /\ tokens \in [Run -> Nat] /\ hit \in SUBSET Run
  /\ hiccups \in Nat /\ overlap \in BOOLEAN /\ killed \in SUBSET Run

(* Turns are submitted in the order of their numbers.                      *)
OrderInv == \A q, r \in Run : q < r /\ rpc[r] # "none" => rpc[q] # "none"

(* Only the newest turn may still say something, and all that waits to be  *)
(* spoken is of it; when it is submitted everything is silent.             *)
OwnInv ==
  ~overlap =>
    /\ \A r \in Run : ~Quiet(r) => Newest(r)
    /\ \A e \in ToSet(sq) : \A r \in e.of : Newest(r)
    /\ vpc \in {"playing", "ended"} => \A r \in item.of : Newest(r)
    /\ vpc = "submitting" => sq = <<>> /\ \A r \in Run : Quiet(r)

(* A turn's end is told when it is over: by the event on the bus, by the   *)
(* sentinel the bridge makes of it, by the sentinel that was taken.        *)
EndInv ==
  /\ \A e \in ToSet(bus) : e.kind # "token" => rpc[e.of] = "over"
  /\ \A e \in ToSet(sq) : e.kind = "end" => e.of # {} /\ \A r \in e.of : rpc[r] = "over"
  /\ vpc = "ended" => item.of # {} /\ \A r \in item.of : rpc[r] = "over"

(* The turn that runs is the one the thread responds to and holds, or is   *)
(* about to hold.                                                          *)
ReachInv ==
  ~overlap /\ hiccups = 0 =>
    \A r \in Run : rpc[r] = "live" /\ r \notin hit =>
      \/ future = r /\ vpc \in {"responding", "getting", "playing"}
      \/ Newest(r) /\ vpc = "submitted"

(* A kill is pending as long as the turn it found is responded to.         *)
KillInv ==
  /\ \A r \in killed : rpc[r] # "none"
  /\ vpc \in Responding \union {"submitted"} => \A r \in killed : Newest(r) => interrupt

VoiceInv == VoiceTypeOK /\ OrderInv /\ OwnInv /\ EndInv /\ ReachInv /\ KillInv

(* Nobody has spoken.                                                      *)
LEMMA VoiceStart == VoiceInit => VoiceInv
<1> SUFFICES ASSUME VoiceInit PROVE VoiceInv
  OBVIOUS
<1>1. MaxRun \in Nat
  BY VoiceAssumption
<1>2. ToSet(sq) = {} /\ ToSet(bus) = {} /\ sq \in Seq(Item) /\ bus \in Seq(Event) /\ DOMAIN bus = {}
  BY ToSetOfEmpty DEF VoiceInit
<1>3. VoiceTypeOK
  <2>1. NoItem \in Item
    BY DEF NoItem, Item
  <2>2. rpc \in [Run -> RunPc] /\ tokens \in [Run -> Nat] /\ vpc \in VoicePc
    BY DEF VoiceInit, VoicePc, RunPc
  <2>3. future \in 0 .. MaxRun /\ hiccups \in Nat
    BY <1>1 DEF VoiceInit
  <2>4. item \in Item /\ interrupt \in BOOLEAN /\ overlap \in BOOLEAN
        /\ buf \in SUBSET Run /\ hit \in SUBSET Run /\ killed \in SUBSET Run
    BY <2>1 DEF VoiceInit
  <2>5. QED
    BY <1>2, <2>2, <2>3, <2>4 DEF VoiceTypeOK
<1>4. \A r \in Run : Quiet(r)
  BY <1>2 DEF VoiceInit, Quiet, Active
<1>5. QED
  BY <1>2, <1>3, <1>4 DEF VoiceInit, VoiceInv, OrderInv, OwnInv, EndInv, ReachInv, KillInv, Responding

(* A turn is quiet when nothing of it is left anywhere.                    *)
LEMMA QuietFacts ==
  ASSUME VoiceTypeOK
  PROVE  \A r \in Run : Quiet(r) <=> ~Active(r) /\ r \notin buf /\ \A e \in ToSet(bus) : e.of # r
<1>1. bus \in Seq(Event)
  BY DEF VoiceTypeOK
<1>2. /\ \A x \in ToSet(bus) : \E i \in DOMAIN bus : x = bus[i]
      /\ \A i \in DOMAIN bus : bus[i] \in ToSet(bus)
  BY <1>1, ToSetOfSeq
<1>3. QED
  BY <1>2 DEF Quiet

(* Whatever waits to be spoken is of some turn.                            *)
LEMMA SpeakersAreRuns ==
  ASSUME VoiceTypeOK
  PROVE  /\ \A e \in ToSet(sq) : \A r \in e.of : r \in Run
         /\ \A e \in ToSet(bus) : e.of \in Run
         /\ \A r \in item.of : r \in Run
<1>1. sq \in Seq(Item) /\ bus \in Seq(Event) /\ item \in Item
  BY DEF VoiceTypeOK
<1>2. (\A e \in Item : \A r \in e.of : r \in Run) /\ (\A e \in Event : e.of \in Run)
  BY DEF Item, Event
<1>3. ToSet(sq) \subseteq Item /\ ToSet(bus) \subseteq Event
  BY <1>1, ToSetOfSeq
<1>4. QED
  BY <1>1, <1>2, <1>3

(* The newest turn is one, and stays so until another is submitted.        *)
LEMMA OneNewest ==
  \A q, r \in Run : Newest(q) /\ Newest(r) => q = r
BY VoiceAssumption DEF Run, Newest

(* Who is newest depends on who has begun.                                 *)
LEMMA StillNewest ==
  ASSUME \A r \in Run : rpc'[r] = "none" <=> rpc[r] = "none"
  PROVE  \A r \in Run : Newest(r)' <=> Newest(r)
BY DEF Newest

(* What the voice thread and the kill switch do to the rest: they take     *)
(* from the queue, never put into it, and publish nothing.                 *)
LEMMA ThreadStep ==
  ASSUME VoiceInv, UNCHANGED <<loop, overlap>>,
         vpc' \in VoicePc, item' \in Item, interrupt' \in BOOLEAN, future' \in 0 .. MaxRun,
         hit' \in SUBSET Run, hiccups' \in Nat, killed' \in SUBSET Run,
         sq' \in Seq(Item), ToSet(sq') \subseteq ToSet(sq), sq = <<>> => sq' = <<>>,
         vpc' = "submitting" => vpc = "submitting",
         vpc' \in {"playing", "ended"} => \/ item' \in ToSet(sq)
                                          \/ vpc \in {"playing", "ended"} /\ item' = item,
         vpc' = "ended" => \/ item' \in ToSet(sq) /\ item'.kind = "end"
                           \/ vpc = "ended" /\ item' = item,
         ReachInv', KillInv'
  PROVE  VoiceInv'
<1>1. VoiceTypeOK'
  BY DEF VoiceInv, VoiceTypeOK, loop
<1>2. OrderInv'
  BY DEF VoiceInv, OrderInv, loop
<1>3. OwnInv'
  <2> SUFFICES ASSUME ~overlap' PROVE OwnInv'
    BY DEF OwnInv
  <2>1. \A r \in Run : (Quiet(r)' <=> Quiet(r)) /\ (Newest(r)' <=> Newest(r))
    BY DEF loop, Quiet, Active, Newest
  <2>2. /\ \A e \in ToSet(sq) : \A r \in e.of : r \in Run
        /\ \A r \in item.of : r \in Run
    BY SpeakersAreRuns DEF VoiceInv
  <2>3. QED
    BY <2>1, <2>2 DEF VoiceInv, OwnInv
<1>4. EndInv'
  BY DEF VoiceInv, EndInv, loop
<1>5. QED
  BY <1>1, <1>2, <1>3, <1>4 DEF VoiceInv

(* Most steps of the thread leave the turn, the future and the kill alone. *)
LEMMA SteadyStep ==
  ASSUME VoiceInv, UNCHANGED <<shared, loop, hit, count, overlap, killed>>,
         vpc' \in VoicePc, item' \in Item, vpc # "submitted", vpc' # "submitted",
         sq' \in Seq(Item), ToSet(sq') \subseteq ToSet(sq), sq = <<>> => sq' = <<>>,
         vpc' = "submitting" => vpc = "submitting",
         vpc' \in Responding => vpc \in Responding,
         vpc \in {"responding", "getting", "playing"} => vpc' \in {"responding", "getting", "playing"},
         vpc' \in {"playing", "ended"} => \/ item' \in ToSet(sq)
                                          \/ vpc \in {"playing", "ended"} /\ item' = item,
         vpc' = "ended" => vpc = "ended" /\ item' = item
  PROVE  VoiceInv'
<1>1. ReachInv'
  BY DEF VoiceInv, ReachInv, shared, loop, count
<1>2. KillInv'
  <2>1. \A r \in Run : Newest(r)' <=> Newest(r)
    BY DEF loop, Newest
  <2>2. killed \in SUBSET Run
    BY DEF VoiceInv, VoiceTypeOK
  <2>3. QED
    BY <2>1, <2>2 DEF VoiceInv, KillInv, shared, loop
<1>3. VoiceTypeOK /\ UNCHANGED <<loop, overlap, interrupt, future, hit, hiccups, killed>>
  BY DEF VoiceInv, shared, count
<1>4. QED
  BY <1>1, <1>2, <1>3, ThreadStep DEF VoiceTypeOK

(* _cancel_turn leaves no turn running that nobody has cancelled, unless   *)
(* turns overlapped or a device failed.                                    *)
LEMMA CancelTurnReaches ==
  ASSUME VoiceInv, CancelTurn, rpc' = rpc, vpc # "submitted"
  PROVE  /\ hit' \in SUBSET Run
         /\ ~overlap /\ hiccups = 0 => \A r \in Run : rpc'[r] = "live" => r \in hit'
<1>1. VoiceTypeOK /\ ReachInv
  BY DEF VoiceInv
<1>2. future # 0 => future \in Run
  BY <1>1, VoiceAssumption DEF VoiceTypeOK, Run
<1>3. ASSUME NEW r \in Run, rpc[r] = "live", ~overlap, hiccups = 0 PROVE r \in hit'
  <2>1. CASE r \in hit
    BY <2>1 DEF CancelTurn
  <2>2. CASE r \notin hit
    <3>1. future = r /\ r # 0
      BY <1>1, <1>3, <2>2, VoiceAssumption DEF ReachInv, Run
    <3>2. ~Done(future)
      BY <1>3, <2>2, <3>1 DEF Done, Active
    <3>3. QED
      BY <3>1, <3>2 DEF CancelTurn
  <2>3. QED
    BY <2>1, <2>2
<1>4. QED
  BY <1>1, <1>2, <1>3 DEF CancelTurn, VoiceTypeOK

(* The thread leaves the response or drops the phrase and cancels.         *)
LEMMA CancelStep ==
  ASSUME VoiceInv, CancelTurn, vpc # "submitted", UNCHANGED <<item, future, loop, count, overlap, killed>>,
         interrupt' \in BOOLEAN, vpc' \in {"idle", "listening"}, sq' = <<>>
  PROVE  VoiceInv'
<1>1. VoiceTypeOK /\ UNCHANGED <<rpc, overlap, hiccups>>
  BY DEF VoiceInv, loop, count
<1>2. hit' \in SUBSET Run
  BY <1>1, CancelTurnReaches
<1>3. ReachInv'
  BY <1>1, CancelTurnReaches DEF ReachInv
<1>4. KillInv'
  BY <1>1 DEF VoiceInv, KillInv, Responding
<1>5. sq' \in Seq(Item) /\ ToSet(sq') = {}
  BY ToSetOfEmpty
<1>6. QED
  BY <1>1, <1>2, <1>3, <1>4, <1>5, ThreadStep DEF VoiceTypeOK, VoicePc, count

(* The queue after its head is taken.                                      *)
LEMMA QueueStep ==
  ASSUME VoiceInv
  PROVE  /\ <<>> \in Seq(Item) /\ ToSet(<<>>) = {} /\ sq \in Seq(Item) /\ item \in Item
         /\ sq # <<>> => /\ Tail(sq) \in Seq(Item) /\ ToSet(Tail(sq)) \subseteq ToSet(sq)
                         /\ Head(sq) \in ToSet(sq) /\ Head(sq) \in Item
<1>1. sq \in Seq(Item) /\ item \in Item
  BY DEF VoiceInv, VoiceTypeOK
<1>2. QED
  BY <1>1, ToSetOfEmpty, ToSetOfTail

(* The sentinel that is taken ends the newest turn, which runs no more:    *)
(* what the thread forgets is a future that is done.                       *)
LEMMA SentinelStep ==
  ASSUME VoiceInv, TakesSentinel
  PROVE  VoiceInv'
<1>1. /\ vpc = "getting" /\ vpc' = "ended" /\ future' = 0 /\ item' = Head(sq) /\ sq' = Tail(sq)
      /\ sq # <<>> /\ Head(sq).kind = "end" /\ UNCHANGED <<interrupt, loop, hit, count, overlap, killed>>
  BY DEF TakesSentinel
<1>2. UNCHANGED <<rpc, hiccups>>
  BY <1>1 DEF loop, count
<1>3. ASSUME ~overlap, NEW q \in Run, rpc[q] = "live" PROVE FALSE
  <2>1. PICK r \in Head(sq).of : rpc[r] = "over" /\ Newest(r) /\ r \in Run
    BY <1>1, <1>3, QueueStep DEF VoiceInv, EndInv, OwnInv, Item
  <2>2. Newest(q)
    BY <1>3 DEF VoiceInv, OwnInv, Quiet, Active
  <2>3. QED
    BY <1>3, <2>1, <2>2, OneNewest
<1>4. ReachInv'
  BY <1>1, <1>2, <1>3 DEF ReachInv
<1>5. KillInv'
  <2>1. \A r \in Run : Newest(r)' <=> Newest(r)
    BY <1>2 DEF Newest
  <2>2. killed \in SUBSET Run
    BY DEF VoiceInv, VoiceTypeOK
  <2>3. QED
    BY <1>1, <1>2, <2>1, <2>2 DEF VoiceInv, KillInv, Responding
<1>6. VoiceTypeOK /\ 0 \in 0 .. MaxRun
  BY VoiceAssumption DEF VoiceInv
<1>7. QED
  BY <1>1, <1>2, <1>4, <1>5, <1>6, QueueStep, ThreadStep DEF VoiceTypeOK, VoicePc, Responding

(* What the thread does while it hears, plays and waits.                   *)
LEMMA PlainThreadStep ==
  ASSUME VoiceInv,
         Wake \/ HearsNothing \/ Hears \/ Checks \/ TakesSentence \/ TakesNothing \/ Played \/ FollowsUp
  PROVE  VoiceInv'
<1> USE DEF VoicePc, Responding, Goes, EnterListening
<1>1. CASE Wake
  BY <1>1, QueueStep, SteadyStep DEF Wake
<1>2. CASE HearsNothing
  BY <1>2, QueueStep, SteadyStep DEF HearsNothing
<1>3. CASE Hears
  BY <1>3, QueueStep, SteadyStep DEF Hears
<1>4. CASE Checks
  BY <1>4, QueueStep, SteadyStep DEF Checks
<1>5. CASE TakesSentence
  BY <1>5, QueueStep, SteadyStep DEF TakesSentence
<1>6. CASE TakesNothing
  BY <1>6, QueueStep, SteadyStep DEF TakesNothing
<1>7. CASE Played
  BY <1>7, QueueStep, SteadyStep DEF Played
<1>8. CASE FollowsUp
  BY <1>8, QueueStep, SteadyStep DEF FollowsUp
<1>9. QED
  BY <1>1, <1>2, <1>3, <1>4, <1>5, <1>6, <1>7, <1>8

(* "game mode on" forgets the future of a turn that no longer runs.        *)
LEMMA GameModeStep ==
  ASSUME VoiceInv, HearsGameMode
  PROVE  VoiceInv'
<1>1. /\ vpc = "listening" /\ vpc' = "idle" /\ future' = 0
      /\ UNCHANGED <<item, interrupt, sq, loop, hit, count, overlap, killed>>
  BY DEF HearsGameMode, Goes
<1>2. UNCHANGED <<rpc, hiccups>>
  BY <1>1 DEF loop, count
<1>3. ReachInv' /\ KillInv'
  BY <1>1, <1>2 DEF VoiceInv, ReachInv, KillInv, Responding
<1>4. VoiceTypeOK /\ 0 \in 0 .. MaxRun
  BY VoiceAssumption DEF VoiceInv
<1>5. QED
  BY <1>1, <1>2, <1>3, <1>4, QueueStep, ThreadStep DEF VoiceTypeOK, VoicePc

(* A device that fails sends the thread idle.                              *)
LEMMA HiccupStep ==
  ASSUME VoiceInv, Hiccup
  PROVE  VoiceInv'
<1>1. /\ vpc' = "idle" /\ hiccups' = hiccups + 1
      /\ UNCHANGED <<item, shared, sq, loop, hit, kills, overlap, killed>>
  BY DEF Hiccup, Goes
<1>2. VoiceTypeOK /\ UNCHANGED <<rpc, interrupt, future>>
  BY <1>1 DEF VoiceInv, loop, shared
<1>3. ReachInv' /\ KillInv'
  BY <1>1, <1>2 DEF VoiceInv, ReachInv, KillInv, VoiceTypeOK, Responding
<1>4. hiccups' \in Nat
  BY <1>1, <1>2 DEF VoiceTypeOK
<1>5. QED
  BY <1>1, <1>2, <1>3, <1>4, QueueStep, ThreadStep DEF VoiceTypeOK, VoicePc

(* Before a turn is submitted: everything is quiet, or turns overlap.      *)
LEMMA ClearsStep ==
  ASSUME VoiceInv, Clears
  PROVE  VoiceInv'
<1>1. /\ vpc = "heard" /\ vpc' = "submitting" /\ interrupt' = FALSE /\ sq' = <<>>
      /\ overlap' = (overlap \/ \E r \in Run : ~Quiet(r))
      /\ UNCHANGED <<item, future, loop, hit, count, killed>>
  BY DEF Clears, Goes
<1>2. VoiceTypeOK /\ UNCHANGED <<rpc, bus, buf, tokens, hiccups>>
  BY <1>1 DEF VoiceInv, loop, count
<1>3. sq' \in Seq(Item) /\ ToSet(sq') = {}
  BY <1>1, ToSetOfEmpty
<1>4. VoiceTypeOK'
  BY <1>1, <1>2, <1>3 DEF VoiceTypeOK, VoicePc
<1>5. OwnInv'
  <2>1. \A r \in Run : Quiet(r)' <=> Quiet(r)
    BY <1>2 DEF Quiet, Active
  <2>2. QED
    BY <1>1, <1>3, <2>1 DEF OwnInv
<1>6. OrderInv' /\ EndInv' /\ ReachInv' /\ KillInv'
  BY <1>1, <1>2, <1>3 DEF VoiceInv, OrderInv, EndInv, ReachInv, KillInv, Responding
<1>7. QED
  BY <1>4, <1>5, <1>6 DEF VoiceInv

(* The new turn is the newest, and no kill has seen it.                    *)
LEMMA SubmitsStep ==
  ASSUME VoiceInv, Submits
  PROVE  VoiceInv'
<1>1. PICK r \in Run :
        /\ rpc[r] = "none" /\ \A q \in Run : q < r => rpc[q] # "none"
        /\ rpc' = [rpc EXCEPT ![r] = "live"]
  BY DEF Submits
<1>2. /\ vpc = "submitting" /\ vpc' = "submitted"
      /\ UNCHANGED <<item, interrupt, future, sq, bus, buf, tokens, hit, count, overlap, killed>>
  BY DEF Submits, Goes, shared
<1>3. VoiceTypeOK /\ hiccups' = hiccups /\ Run \subseteq Nat /\ r \in 0 .. MaxRun
  BY <1>2, VoiceAssumption DEF VoiceInv, count, Run
<1>4. rpc \in [Run -> RunPc]
  BY <1>3 DEF VoiceTypeOK
<1>5. /\ \A q \in Run : rpc'[q] = IF q = r THEN "live" ELSE rpc[q]
      /\ rpc' \in [Run -> RunPc]
  BY <1>1, <1>4 DEF RunPc
<1>6. VoiceTypeOK'
  BY <1>1, <1>2, <1>3, <1>5 DEF VoiceTypeOK, VoicePc, Responding
<1>7. \A q \in Run : q > r => rpc[q] = "none"
  BY <1>1, <1>3 DEF VoiceInv, OrderInv
<1>8. Newest(r)'
  BY <1>3, <1>5, <1>7 DEF Newest
<1>9. OrderInv'
  BY <1>1, <1>3, <1>5 DEF VoiceInv, OrderInv
<1>10. OwnInv'
  <2> SUFFICES ASSUME ~overlap' PROVE OwnInv'
    BY DEF OwnInv
  <2>1. sq = <<>> /\ \A q \in Run : Quiet(q)
    BY <1>2 DEF VoiceInv, OwnInv
  <2>2. \A q \in Run : q # r => Quiet(q)'
    BY <1>2, <1>5, <2>1 DEF Quiet, Active
  <2>3. ToSet(sq') = {}
    BY <1>2, <2>1, ToSetOfEmpty
  <2>4. QED
    BY <1>2, <1>8, <2>2, <2>3 DEF OwnInv
<1>11. EndInv'
  <2>1. /\ \A e \in ToSet(sq) : \A q \in e.of : q \in Run
        /\ \A e \in ToSet(bus) : e.of \in Run
        /\ \A q \in item.of : q \in Run
    BY <1>3, SpeakersAreRuns
  <2>2. QED
    BY <1>1, <1>2, <1>5, <2>1 DEF VoiceInv, EndInv
<1>12. ReachInv'
  BY <1>1, <1>2, <1>3, <1>5, <1>8 DEF VoiceInv, ReachInv
<1>13. KillInv'
  <2>1. \A q \in killed : rpc[q] # "none" /\ q \in Run
    BY <1>3 DEF VoiceInv, KillInv, VoiceTypeOK
  <2>2. \A q \in killed : ~Newest(q)'
    BY <1>1, <1>5, <1>8, <2>1, OneNewest, VoiceAssumption DEF Newest, Run
  <2>3. QED
    BY <1>2, <1>5, <2>1, <2>2 DEF KillInv
<1>14. QED
  BY <1>6, <1>9, <1>10, <1>11, <1>12, <1>13 DEF VoiceInv

(* It is held: the one that runs, if any does.                             *)
LEMMA HoldsStep ==
  ASSUME VoiceInv, Holds
  PROVE  VoiceInv'
<1>1. PICK r \in Run : Newest(r) /\ future' = r
  BY DEF Holds
<1>2. /\ vpc = "submitted" /\ vpc' = "responding"
      /\ UNCHANGED <<item, interrupt, sq, loop, hit, count, overlap, killed>>
  BY DEF Holds, Goes
<1>3. VoiceTypeOK /\ r \in 0 .. MaxRun /\ UNCHANGED <<rpc, hiccups>>
  BY <1>2, VoiceAssumption DEF VoiceInv, Run, loop, count
<1>4. ReachInv'
  BY <1>1, <1>2, <1>3, OneNewest DEF VoiceInv, ReachInv
<1>5. KillInv'
  <2>1. \A q \in Run : Newest(q)' <=> Newest(q)
    BY <1>3 DEF Newest
  <2>2. \A q \in killed : q \in Run
    BY <1>3 DEF VoiceTypeOK
  <2>3. QED
    BY <1>2, <1>3, <2>1, <2>2 DEF VoiceInv, KillInv
<1>6. QED
  BY <1>1, <1>2, <1>3, <1>4, <1>5, QueueStep, ThreadStep DEF VoiceTypeOK, VoicePc, Responding
-----------------------------------------------------------------------------
(* The kill switch.                                                        *)
LEMMA KillStep ==
  ASSUME VoiceInv, KillSwitch
  PROVE  VoiceInv'
<1>1. VoiceTypeOK
  BY DEF VoiceInv
<1>2. future # 0 => future \in Run
  BY <1>1, VoiceAssumption DEF VoiceTypeOK, Run
<1>3. \A r \in Run : rpc' = rpc => (Newest(r)' <=> Newest(r))
  BY DEF Newest
<1>4. CASE KillSets
  <2>1. /\ interrupt' = TRUE /\ killed' = IF future # 0 /\ ~Done(future) THEN killed \union {future} ELSE killed
        /\ UNCHANGED <<vpc, item, future, sq, loop, rpc, hit, hiccups, overlap>>
    BY <1>4 DEF KillSets, thread, loop
  <2>2. killed' \in SUBSET Run /\ \A r \in killed' : r \in killed \/ Active(r)
    BY <1>1, <1>2, <2>1 DEF VoiceTypeOK, Done
  <2>3. ReachInv' /\ KillInv'
    BY <1>3, <2>1, <2>2 DEF VoiceInv, ReachInv, KillInv, Active
  <2>4. QED
    BY <1>1, <2>1, <2>2, <2>3, QueueStep, ThreadStep DEF VoiceTypeOK
<1>5. CASE KillChecks \/ KillCancels \/ KillDrains
  <2>1. /\ hit' \in {hit, hit \union {future}} /\ (hit' # hit => future # 0) /\ sq' \in {sq, <<>>}
        /\ UNCHANGED <<vpc, item, interrupt, future, loop, rpc, hiccups, overlap, killed>>
    BY <1>5 DEF KillChecks, KillCancels, KillDrains, thread, shared, loop, count
  <2>2. hit' \in SUBSET Run /\ hit \subseteq hit'
    BY <1>1, <1>2, <2>1 DEF VoiceTypeOK
  <2>3. ReachInv'
    BY <1>3, <2>1, <2>2 DEF VoiceInv, ReachInv
  <2>4. KillInv'
    BY <1>1, <1>3, <2>1 DEF VoiceInv, KillInv, VoiceTypeOK
  <2>5. sq' \in Seq(Item) /\ ToSet(sq') \subseteq ToSet(sq) /\ (sq = <<>> => sq' = <<>>)
    BY <2>1, QueueStep
  <2>6. QED
    BY <1>1, <2>1, <2>2, <2>3, <2>4, <2>5, ThreadStep DEF VoiceTypeOK, VoicePc
<1>6. QED
  BY <1>4, <1>5 DEF KillSwitch
-----------------------------------------------------------------------------
(* The turns and the bridge.                                               *)

(* What a running turn publishes is its own, and it is the newest.         *)
LEMMA TurnStep ==
  ASSUME VoiceInv, NEW r \in Run, RunStep(r)
  PROVE  VoiceInv'
<1> DEFINE Ev(k) == [kind |-> k, of |-> r]
<1>1. VoiceTypeOK /\ rpc \in [Run -> RunPc] /\ tokens \in [Run -> Nat] /\ bus \in Seq(Event)
  BY DEF VoiceInv, VoiceTypeOK
<1>2. /\ Active(r)
      /\ UNCHANGED <<vpc, item, interrupt, future, sq, buf, hit, kill, kills, hiccups, overlap, killed>>
  BY DEF RunStep, Token, Ends, Dies, Delivered, Closes, Active, thread, shared, count
<1>3. rpc' = rpc \/ \E s \in {"closing", "over", "dead"} : rpc' = [rpc EXCEPT ![r] = s]
  BY DEF RunStep, Token, Ends, Dies, Delivered, Closes
<1>4. \/ bus' = bus
      \/ bus' = Append(bus, Ev("token"))
      \/ \E k \in {"ok", "dropped"} : bus' = Append(bus, Ev(k)) /\ rpc' = [rpc EXCEPT ![r] = "over"]
  BY DEF RunStep, Token, Ends, Dies, Delivered, Closes, Publish
<1>5. tokens' \in [Run -> Nat]
  BY <1>1 DEF RunStep, Token, Ends, Dies, Delivered, Closes
<1>6. /\ rpc' \in [Run -> RunPc]
      /\ \A q \in Run : /\ rpc'[q] = "none" <=> rpc[q] = "none"
                        /\ rpc'[q] \in {"live", "closing"} => Active(q)
                        /\ rpc'[q] = "live" => rpc[q] = "live"
                        /\ rpc[q] = "over" => rpc'[q] = "over"
  BY <1>1, <1>2, <1>3 DEF RunPc, Active
<1>7. /\ bus' \in Seq(Event)
      /\ \A e \in ToSet(bus') : \/ e \in ToSet(bus)
                                \/ e.of = r /\ (e.kind # "token" => rpc'[r] = "over")
  <2>1. \A k \in {"token", "ok", "dropped"} : Ev(k) \in Event
    BY DEF Event
  <2>2. \A k \in {"token", "ok", "dropped"} : Ev(k).of = r /\ Ev(k).kind = k
    OBVIOUS
  <2> HIDE DEF Ev
  <2>3. \A k \in {"token", "ok", "dropped"} :
          /\ Append(bus, Ev(k)) \in Seq(Event)
          /\ ToSet(Append(bus, Ev(k))) = ToSet(bus) \union {Ev(k)}
    BY <1>1, <2>1, ToSetOfAppend
  <2>4. \A k \in {"ok", "dropped"} : rpc' = [rpc EXCEPT ![r] = "over"] => rpc'[r] = "over"
    BY <1>1
  <2>5. QED
    BY <1>1, <1>4, <2>2, <2>3, <2>4
<1>8. VoiceTypeOK'
  BY <1>1, <1>2, <1>5, <1>6, <1>7 DEF VoiceTypeOK
<1>9. VoiceTypeOK' /\ \A q \in Run : Newest(q)' <=> Newest(q)
  BY <1>6, <1>8, StillNewest
<1>10. OrderInv'
  BY <1>6 DEF VoiceInv, OrderInv
<1>11. /\ \A e \in ToSet(sq) : \A q \in e.of : q \in Run
       /\ \A e \in ToSet(bus) : e.of \in Run
       /\ \A q \in item.of : q \in Run
  BY <1>1, SpeakersAreRuns
<1>12. \A q \in Run : ~Quiet(q)' => ~Quiet(q)
  <2>1. \A q \in Run : Quiet(q) <=> ~Active(q) /\ q \notin buf /\ \A e \in ToSet(bus) : e.of # q
    BY <1>1, QuietFacts
  <2>2. \A q \in Run : Quiet(q)' <=> ~Active(q)' /\ q \notin buf' /\ \A e \in ToSet(bus') : e.of # q
    <3>1. bus' \in Seq(Event)
      BY <1>7
    <3>2. /\ \A x \in ToSet(bus') : \E i \in DOMAIN bus' : x = bus'[i]
          /\ \A i \in DOMAIN bus' : bus'[i] \in ToSet(bus')
      BY <3>1, ToSetOfSeq
    <3>3. QED
      BY <3>2 DEF Quiet
  <2>3. \A q \in Run : Active(q)' => Active(q)
    BY <1>6 DEF Active
  <2>4. QED
    BY <1>2, <1>7, <2>1, <2>2, <2>3
<1>13. OwnInv'
  BY <1>2, <1>9, <1>11, <1>12 DEF VoiceInv, OwnInv
<1>14. EndInv'
  BY <1>2, <1>6, <1>7, <1>11 DEF VoiceInv, EndInv
<1>15. ReachInv'
  BY <1>2, <1>6, <1>9 DEF VoiceInv, ReachInv
<1>16. KillInv'
  <2>1. \A q \in killed : q \in Run
    BY <1>1 DEF VoiceTypeOK
  <2>2. QED
    BY <1>2, <1>6, <1>9, <2>1 DEF VoiceInv, KillInv
<1>17. QED
  BY <1>8, <1>10, <1>13, <1>14, <1>15, <1>16 DEF VoiceInv

(* What the bridge puts into the queue is of runs that were not quiet; the *)
(* sentinel is of a turn whose end was on the bus.                         *)
LEMMA BridgeQueue ==
  ASSUME VoiceInv, Bridge
  PROVE  /\ bus # <<>> /\ bus' = Tail(bus) /\ Head(bus) \in ToSet(bus) /\ Head(bus).of \in Run
         /\ buf' \subseteq buf \union {Head(bus).of}
         /\ sq' \in Seq(Item)
         /\ \A x \in ToSet(sq') :
              \/ x \in ToSet(sq)
              \/ x.kind = "sentence" /\ x.of \subseteq buf \union {Head(bus).of}
              \/ x.kind = "end" /\ x.of = {Head(bus).of} /\ Head(bus).kind # "token"
<1> DEFINE e == Head(bus)
<1>1. bus # <<>> /\ bus' = Tail(bus)
  BY DEF Bridge
<1>2. VoiceTypeOK /\ bus \in Seq(Event) /\ sq \in Seq(Item) /\ buf \subseteq Run
  BY DEF VoiceInv, VoiceTypeOK
<1>3. e \in ToSet(bus) /\ e.of \in Run
  BY <1>1, <1>2, ToSetOfTail, SpeakersAreRuns
<1>4. \/ e.kind = "token" /\ buf' = buf \union {e.of} /\ sq' = sq
      \/ e.kind = "token" /\ buf' = {} /\ sq' = Append(sq, Sentence(buf \union {e.of}))
      \/ e.kind = "ok" /\ buf' = {}
         /\ sq' = sq \o (IF buf = {} THEN <<>> ELSE <<Sentence(buf)>>) \o <<End(e.of)>>
      \/ e.kind = "dropped" /\ buf' = {} /\ sq' = Append(sq, End(e.of))
  BY DEF Bridge
<1>5. /\ Sentence(buf) \in Item /\ Sentence(buf \union {e.of}) \in Item /\ End(e.of) \in Item
      /\ \A rs : Sentence(rs).kind = "sentence" /\ Sentence(rs).of = rs
      /\ End(e.of).kind = "end" /\ End(e.of).of = {e.of}
  BY <1>2, <1>3 DEF Sentence, End, Item
<1> DEFINE full == Append(sq, Sentence(buf))
           last == End(e.of)
           text == Sentence(buf \union {e.of})
<1>7. sq' \in {sq, Append(sq, text), Append(sq, last), Append(full, last)}
  BY <1>2, <1>4, <1>5
<1>8. e.kind = "token" => sq' \in {sq, Append(sq, text)}
  BY <1>4
<1>9. last \in Item /\ text \in Item /\ full \in Seq(Item) /\ ToSet(full) = ToSet(sq) \union {Sentence(buf)}
  BY <1>2, <1>5, ToSetOfAppend
<1>10. /\ last.kind = "end" /\ last.of = {e.of}
       /\ text.kind = "sentence" /\ text.of = buf \union {e.of}
       /\ Sentence(buf).kind = "sentence" /\ Sentence(buf).of = buf
  BY <1>5
<1> HIDE DEF full, last, text
<1>11. /\ Append(sq, text) \in Seq(Item) /\ ToSet(Append(sq, text)) = ToSet(sq) \union {text}
       /\ Append(sq, last) \in Seq(Item) /\ ToSet(Append(sq, last)) = ToSet(sq) \union {last}
       /\ Append(full, last) \in Seq(Item) /\ ToSet(Append(full, last)) = ToSet(full) \union {last}
  BY <1>2, <1>9, ToSetOfAppend
<1>12. sq' \in Seq(Item) /\ buf' \subseteq buf \union {e.of}
  BY <1>2, <1>4, <1>7, <1>11
<1>13. CASE e.kind = "token"
  BY <1>1, <1>3, <1>8, <1>10, <1>11, <1>12, <1>13
<1>14. CASE e.kind # "token"
  BY <1>1, <1>3, <1>7, <1>9, <1>10, <1>11, <1>12, <1>14
<1>15. QED
  BY <1>13, <1>14

(* The bridge hands on what is of the newest turn.                         *)
LEMMA BridgeStep ==
  ASSUME VoiceInv, Bridge
  PROVE  VoiceInv'
<1> DEFINE e == Head(bus)
<1>1. VoiceTypeOK /\ bus \in Seq(Event) /\ buf \subseteq Run
  BY DEF VoiceInv, VoiceTypeOK
<1>2. UNCHANGED <<vpc, item, interrupt, future, rpc, tokens, hit, kill, kills, hiccups, overlap, killed>>
  BY DEF Bridge, thread, shared, count
<1>3. /\ bus # <<>> /\ bus' = Tail(bus) /\ e \in ToSet(bus) /\ e.of \in Run
      /\ buf' \subseteq buf \union {e.of} /\ sq' \in Seq(Item)
      /\ \A x \in ToSet(sq') : \/ x \in ToSet(sq)
                               \/ x.kind = "sentence" /\ x.of \subseteq buf \union {e.of}
                               \/ x.kind = "end" /\ x.of = {e.of} /\ e.kind # "token"
  BY BridgeQueue
<1>4. bus' \in Seq(Event) /\ ToSet(bus') \subseteq ToSet(bus)
  BY <1>1, <1>3, ToSetOfTail
<1>5. VoiceTypeOK'
  BY <1>1, <1>2, <1>3, <1>4 DEF VoiceTypeOK
<1>6. /\ \A x \in ToSet(sq) : \A q \in x.of : q \in Run
      /\ \A x \in ToSet(bus) : x.of \in Run
      /\ \A q \in item.of : q \in Run
  BY <1>1, SpeakersAreRuns
<1>7. \A q \in Run : Newest(q)' <=> Newest(q)
  BY <1>2 DEF Newest
<1>8. \A q \in Run : Quiet(q) <=> ~Active(q) /\ q \notin buf /\ \A x \in ToSet(bus) : x.of # q
  BY <1>1, QuietFacts
<1>9. \A q \in Run : ~Quiet(q)' => ~Quiet(q)
  <2>1. \A i \in DOMAIN bus' : bus'[i] \in ToSet(bus')
    BY <1>4, ToSetOfSeq
  <2>2. \A q \in Run : Active(q)' => Active(q)
    BY <1>2 DEF Active
  <2>3. QED
    BY <1>3, <1>4, <1>8, <2>1, <2>2 DEF Quiet
<1>10. \A q \in buf \union {e.of} : q \in Run /\ ~Quiet(q)
  BY <1>1, <1>3, <1>8
<1> HIDE DEF e
<1>11. OwnInv'
  <2> SUFFICES ASSUME ~overlap' PROVE OwnInv'
    BY DEF OwnInv
  <2>1. \A q \in buf \union {e.of} : Newest(q)
    BY <1>2, <1>10 DEF VoiceInv, OwnInv
  <2>2. vpc # "submitting"
    BY <1>2, <1>3, <1>10 DEF VoiceInv, OwnInv
  <2>3. \A x \in ToSet(sq') : \A q \in x.of : q \in Run /\ Newest(q)
    BY <1>2, <1>3, <1>6, <1>10, <2>1 DEF VoiceInv, OwnInv
  <2>4. QED
    BY <1>2, <1>6, <1>7, <1>9, <2>2, <2>3 DEF VoiceInv, OwnInv
<1>12. EndInv'
  BY <1>2, <1>3, <1>4 DEF VoiceInv, EndInv
<1>13. OrderInv' /\ ReachInv'
  BY <1>2, <1>7 DEF VoiceInv, OrderInv, ReachInv
<1>14. KillInv'
  <2>1. \A q \in killed : q \in Run
    BY <1>1 DEF VoiceTypeOK
  <2>2. QED
    BY <1>2, <1>7, <2>1 DEF VoiceInv, KillInv
<1>15. QED
  BY <1>5, <1>11, <1>12, <1>13, <1>14 DEF VoiceInv
-----------------------------------------------------------------------------
(* Every step keeps the inductive invariant.                               *)
LEMMA VoiceStep == VoiceInv /\ [VoiceNext]_voiceVars => VoiceInv'
<1> SUFFICES ASSUME VoiceInv, [VoiceNext]_voiceVars PROVE VoiceInv'
  OBVIOUS
<1>1. CASE VoiceThread
  <2> USE DEF Goes, EnterListening
  <2>1. CASE HearsKillPhrase
    BY <2>1, CancelStep DEF HearsKillPhrase, VoiceInv, VoiceTypeOK, shared
  <2>2. CASE Aborts
    BY <2>2, CancelStep DEF Aborts
  <2>3. CASE BargesIn
    BY <2>3, CancelStep DEF BargesIn, VoiceInv, VoiceTypeOK, shared
  <2>4. CASE HearsGameMode \/ Hiccup \/ Clears \/ Submits \/ Holds \/ TakesSentinel
    BY <2>4, GameModeStep, HiccupStep, ClearsStep, SubmitsStep, HoldsStep, SentinelStep
  <2>5. CASE Wake \/ HearsNothing \/ Hears \/ Checks \/ TakesSentence \/ TakesNothing \/ Played \/ FollowsUp
    BY <2>5, PlainThreadStep
  <2>6. QED
    BY <1>1, <2>1, <2>2, <2>3, <2>4, <2>5 DEF VoiceThread, Respond
<1>2. CASE KillSwitch
  BY <1>2, KillStep
<1>3. CASE Bridge
  BY <1>3, BridgeStep
<1>4. CASE \E r \in Run : RunStep(r)
  BY <1>4, TurnStep
<1>5. CASE UNCHANGED voiceVars
  <2>1. UNCHANGED <<vpc, item, interrupt, future, sq, bus, buf, rpc, tokens, hit, kill, kills, hiccups, overlap, killed>>
    BY <1>5 DEF voiceVars, thread, shared, loop, count
  <2>2. \A r \in Run : (Newest(r)' <=> Newest(r)) /\ (Quiet(r)' <=> Quiet(r))
    BY <2>1 DEF Newest, Quiet, Active
  <2>3. VoiceTypeOK' /\ OrderInv' /\ EndInv' /\ ReachInv'
    BY <2>1, <2>2 DEF VoiceInv, VoiceTypeOK, OrderInv, EndInv, ReachInv
  <2>4. /\ \A x \in ToSet(sq) : \A q \in x.of : q \in Run
        /\ \A q \in item.of : q \in Run
        /\ \A q \in killed : q \in Run
    BY SpeakersAreRuns DEF VoiceInv, VoiceTypeOK
  <2>5. OwnInv' /\ KillInv'
    BY <2>1, <2>2, <2>4 DEF VoiceInv, OwnInv, KillInv
  <2>6. QED
    BY <2>3, <2>5 DEF VoiceInv
<1>6. QED
  BY <1>1, <1>2, <1>3, <1>4, <1>5 DEF VoiceNext

(* The inductive invariant of the voice thread, the bridge and the kill    *)
(* switch (voice/pipeline.py).                                             *)
THEOREM VoiceInvariant == VoiceSpec => []VoiceInv
<1>1. VoiceInv /\ [VoiceNext]_voiceVars => VoiceInv'
  BY VoiceStep
<1>2. QED
  BY <1>1, VoiceStart, PTL DEF VoiceSpec

(* What is spoken, and what ends a response, is of the turn submitted for  *)
(* it (_handle_utterance, _respond), unless turns overlapped.              *)
THEOREM OwnCorrect == VoiceSpec => []ResponseIsOwn
<1>1. VoiceInv => ResponseIsOwn
  BY DEF VoiceInv, OwnInv, ResponseIsOwn
<1>2. QED
  BY <1>1, VoiceInvariant, PTL

(* The kill switch holds the turn that runs (cancel_turn, _turn_future).   *)
THEOREM ReachCorrect == VoiceSpec => []KillReaches
<1>1. VoiceInv => KillReaches
  BY DEF VoiceInv, ReachInv, KillReaches
<1>2. QED
  BY <1>1, VoiceInvariant, PTL

(* No follow-up window opens after a turn that ran when the kill came.     *)
THEOREM NoFollowUpCorrect == VoiceSpec => NoFollowUpAfterKill
<1> DEFINE Closed == vpc = "ended" /\ ~overlap /\ item.of \intersect killed # {} => vpc' # "listening"
<1>1. VoiceInv /\ [VoiceNext]_voiceVars => [Closed]_voiceVars
  <2> SUFFICES ASSUME VoiceInv, VoiceNext, vpc = "ended", ~overlap, item.of \intersect killed # {}, vpc' = "listening"
               PROVE  FALSE
    OBVIOUS
  <2>1. interrupt
    <3>1. PICK r \in item.of : r \in killed
      OBVIOUS
    <3>2. Newest(r)
      BY <3>1 DEF VoiceInv, OwnInv
    <3>3. QED
      BY <3>1, <3>2 DEF VoiceInv, KillInv, Responding
  <2>2. CASE VoiceThread
    BY <2>1, <2>2 DEF VoiceThread, Respond, Wake, HearsNothing, HearsKillPhrase, HearsGameMode, Hears,
       Clears, Submits, Holds, Aborts, Checks, TakesSentence, TakesSentinel, TakesNothing, Played, FollowsUp,
       BargesIn, Hiccup, Goes, EnterListening
  <2>3. CASE KillSwitch
    BY <2>3 DEF KillSwitch, KillSets, KillChecks, KillCancels, KillDrains, thread
  <2>4. CASE Bridge \/ \E r \in Run : RunStep(r)
    BY <2>4 DEF Bridge, RunStep, Token, Ends, Dies, Delivered, Closes, thread
  <2>5. QED
    BY <2>2, <2>3, <2>4 DEF VoiceNext
<1>2. QED
  BY <1>1, VoiceInvariant, PTL DEF VoiceSpec, NoFollowUpAfterKill
=============================================================================
