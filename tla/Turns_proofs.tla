----------------------------- MODULE Turns_proofs -----------------------------
(* Proofs about Turns, for every number of runs, HTTP calls, tool rounds    *)
(* and boots.                                                              *)
EXTENDS Turns, SequenceTheorems, WellFoundedInduction, TLAPS

(* Where a run has its turn id; where it or a handler waits for the lock.   *)
InTurn  == {"user", "stream", "tool", "reply", "mark", "closing"}
Waiting == {"next", "user", "tool", "reply", "mark", "closing", "newchat"}
Asked   == {"meta", "delete", "wipe", "create"}

Request == [op : Waiting \union Asked, who : Run \union Handler, conv : Conv]

Bounded(S) == \E n \in Nat : \A x \in S : x <= n

(* What each variable holds; ids are numbers without a bound.              *)
TurnsTypeOK ==
  /\ DOMAIN chan \subseteq Conv /\ chan \in [DOMAIN chan -> Agent] /\ Bounded(DOMAIN chan)
  /\ rows \subseteq Row /\ Bounded({x.turn : x \in rows})
  /\ ptr \in [Agent -> Conv]
  /\ dbq \in Seq(Request)
  /\ pc \in [Run -> RunPc]
  /\ turn \in [Run -> Nat]
  /\ iters \in [Run -> Nat]
  /\ outcome \in [Run -> {"none", "ok", "error", "cancelled"}]
  /\ future \subseteq VoiceRun
  /\ hpc \in [Handler -> {"idle", "done"} \union Asked]
  /\ hkind \in [Handler -> {"none", "new", "resume", "delete", "wipe"}]
  /\ hconv \in [Handler -> Conv]
  /\ home \in [Run -> Conv]
  /\ astray \in BOOLEAN
  /\ boots \in Nat

(* A request in the lock's queue is its caller's only one and is for the    *)
(* call the caller waits in; whoever waits has one.                        *)
QueueInv ==
  /\ \A i \in DOMAIN dbq :
       /\ dbq[i].who \in Run => pc[dbq[i].who] = dbq[i].op
       /\ dbq[i].who \in Handler => hpc[dbq[i].who] = dbq[i].op
  /\ \A i, j \in DOMAIN dbq : dbq[i].who = dbq[j].who => i = j
  /\ \A r \in Run : pc[r] \in Waiting => \E i \in DOMAIN dbq : dbq[i].who = r

(* The UI runs one turn.  The voice runs the one its future holds, beside   *)
(* cancelled ones whose last write is ahead of it in the queue.            *)
LiveInv ==
  /\ \A r, s \in UiRun : Live(r) /\ Live(s) => r = s
  /\ \A r, s \in future : r = s
  /\ \A r \in future : pc[r] # "closing"
  /\ ~astray => \A r \in VoiceRun : Live(r) => r \in future \/ pc[r] = "closing"
  /\ ~astray => \A i, j \in DOMAIN dbq :
       /\ dbq[i].who \in VoiceRun /\ pc[dbq[i].who] # "closing"
       /\ dbq[j].who \in VoiceRun /\ pc[dbq[j].who] = "closing"
       => j < i

(* A turn asks for the conversation it began in; a voice turn's is the one  *)
(* its agent points at, and never that of a UI turn.                       *)
HomeInv ==
  ~astray =>
    /\ \A i \in DOMAIN dbq :
         dbq[i].who \in Run /\ dbq[i].op # "newchat" => dbq[i].conv = home[dbq[i].who]
    /\ \A r \in VoiceRun : pc[r] \in InTurn \union {"next"} => ptr["voice"] = home[r]
    /\ \A r \in UiRun : pc[r] \in InTurn => ptr["voice"] # home[r]
    /\ \A r, s \in VoiceRun : pc[r] \in InTurn /\ pc[s] \in InTurn => r = s

(* Rows are of conversations that are there and of turns that have begun,   *)
(* and a turn's id in its conversation is its own.                         *)
RowInv ==
  /\ \A x \in rows : Exists(x.conv)
  /\ \A x \in rows : pc[x.by] \notin {"idle", "next", "newchat"}
  /\ ~astray => \A x \in rows, r \in Run : pc[r] \in InTurn =>
       (x.by = r <=> x.conv = home[r] /\ x.turn = turn[r])

(* What a run knows of its outcome, and what its rows show of it.          *)
OutcomeOf(r) ==
  /\ pc[r] \in {"idle", "next", "user", "stream", "tool", "reply", "newchat"} => outcome[r] = "none"
  /\ pc[r] = "mark" => outcome[r] \in {"ok", "error"}
  /\ pc[r] = "closing" => outcome[r] = "cancelled"

Shown(x) ==
  /\ pc[x.by] \in {"mark", "over"} /\ outcome[x.by] = "ok" => ~Unanswered(x)
  /\ pc[x.by] = "over" =>
       /\ outcome[x.by] = "ok" => x.status = "ok"
       /\ outcome[x.by] = "error" => x.status = "failed"
       /\ outcome[x.by] = "cancelled" /\ x.by \in VoiceRun => ~Unanswered(x)

(* Both, for all runs and rows.                                            *)
OutcomeInv ==
  /\ \A r \in Run : OutcomeOf(r)
  /\ ~astray => \A x \in rows : Shown(x)

TurnsInv == TurnsTypeOK /\ QueueInv /\ LiveInv /\ HomeInv /\ RowInv /\ OutcomeInv /\ NoSharedTurn /\ UiPointerLive

-----------------------------------------------------------------------------
(* Ids.                                                                    *)

(* A bounded set of numbers has a greatest member: its least upper bound.  *)
LEMMA MaxIs ==
  ASSUME NEW S, S \subseteq Nat, S # {}, Bounded(S)
  PROVE  Max(S) \in S /\ \A y \in S : y <= Max(S)
<1> DEFINE R == OpToRel(<, Nat)
<1> DEFINE U == {n \in Nat : \A x \in S : x <= n}
<1>1. IsWellFoundedOn(R, Nat)
  BY NatLessThanWellFounded
<1>2. \A m, n \in Nat : <<m, n>> \in R <=> m < n
  BY DEF OpToRel
<1>3. U # {} /\ U \subseteq Nat
  BY DEF Bounded
<1> HIDE DEF R
<1>4. PICK n \in U : \A m \in U : ~(<<m, n>> \in R)
  <2> HIDE DEF U
  <2>1. QED
    BY <1>1, <1>3, WFMin
<1>5. n \in Nat /\ \A x \in S : x <= n
  BY <1>4
<1>6. n \in S
  <2>1. CASE n = 0
    <3>1. PICK x : x \in S
      OBVIOUS
    <3>2. x = n
      BY <2>1, <3>1, <1>5
    <3>3. QED
      BY <3>1, <3>2
  <2>2. CASE n # 0
    <3>1. n - 1 \in Nat /\ n - 1 < n
      BY <2>2, <1>5
    <3>2. n - 1 \notin U
      BY <3>1, <1>4, <1>2, <1>5
    <3>3. PICK x \in S : ~(x <= n - 1)
      BY <3>1, <3>2
    <3>4. x \in Nat /\ x <= n
      BY <3>3, <1>5
    <3>5. x = n
      BY <3>1, <3>3, <3>4, <1>5
    <3>6. QED
      BY <3>3, <3>5
  <2>3. QED
    BY <2>1, <2>2
<1> DEFINE P(x) == \A y \in S : x >= y
<1>7. P(n)
  BY <1>5
<1>8. \A x \in S : P(x) => \A y \in S : y <= x
  OBVIOUS
<1>9. Max(S) = CHOOSE x \in S : P(x)
  BY DEF Max
<1> HIDE DEF P
<1>10. Max(S) \in S /\ P(Max(S))
  BY <1>6, <1>7, <1>9
<1>11. QED
  BY <1>8, <1>10

(* The next id is greater than every one in use.                           *)
LEMMA OnePastMax ==
  ASSUME NEW S, S \subseteq Nat, Bounded(S)
  PROVE  /\ 1 + Max({0} \union S) \in Conv
         /\ \A x \in S : x < 1 + Max({0} \union S)
         /\ Bounded(S \union {1 + Max({0} \union S)})
<1> DEFINE T == {0} \union S
<1>1. T \subseteq Nat /\ T # {}
  OBVIOUS
<1>2. Bounded(T)
  BY DEF Bounded
<1> HIDE DEF T
<1>3. Max(T) \in T /\ \A y \in T : y <= Max(T)
  BY <1>1, <1>2, MaxIs
<1>4. Max(T) \in Nat /\ \A y \in S : y <= Max(T)
  BY <1>1, <1>3 DEF T
<1>5. 1 + Max(T) \in Conv /\ \A y \in S : y < 1 + Max(T)
  BY <1>4 DEF Conv
<1>6. Bounded(S \union {1 + Max(T)})
  BY <1>4, <1>5 DEF Bounded, Conv
<1>7. QED
  BY <1>5, <1>6 DEF T

-----------------------------------------------------------------------------
(* The queue of the database lock.                                         *)

(* p moves: its request leaves the queue, or it asks again, at the end.    *)
Requeued(p) ==
  /\ dbq' \in Seq(Request)
  /\ \A i \in DOMAIN dbq' : dbq'[i].who # p => \E j \in DOMAIN dbq : dbq[j] = dbq'[i]
  /\ \A j \in DOMAIN dbq : dbq[j].who # p => \E i \in DOMAIN dbq' : dbq'[i] = dbq[j]
  /\ \A i1, i2 \in DOMAIN dbq' : dbq'[i1].who # p /\ dbq'[i2].who # p /\ i1 < i2 =>
       \E j1, j2 \in DOMAIN dbq : j1 < j2 /\ dbq[j1] = dbq'[i1] /\ dbq[j2] = dbq'[i2]
  /\ \A i \in DOMAIN dbq' : dbq'[i].who = p => i = Len(dbq')

(* What is left of the queue when p is out of it.                          *)
Rest(s, p) ==
  /\ s \in Seq(Request)
  /\ \A i \in DOMAIN s : s[i].who # p /\ \E j \in DOMAIN dbq : dbq[j] = s[i]
  /\ \A j \in DOMAIN dbq : dbq[j].who # p => \E i \in DOMAIN s : s[i] = dbq[j]
  /\ \A i1, i2 \in DOMAIN s : i1 < i2 =>
       \E j1, j2 \in DOMAIN dbq : j1 < j2 /\ dbq[j1] = s[i1] /\ dbq[j2] = s[i2]

(* Who leaves the queue has no request in it.                              *)
LEMMA RestRequeued ==
  ASSUME NEW s, NEW p, Rest(s, p), dbq' = s
  PROVE  Requeued(p)
  BY DEF Rest, Requeued

(* Who asks has the one request it has asked for.                          *)
LEMMA AskRequeued ==
  ASSUME NEW s, NEW p, NEW e \in Request, e.who = p, Rest(s, p), dbq' = Append(s, e)
  PROVE  /\ Requeued(p)
         /\ \E i \in DOMAIN dbq' : dbq'[i] = e
         /\ \A i \in DOMAIN dbq' : dbq'[i].who = p => dbq'[i] = e
<1>1. /\ dbq' \in Seq(Request)
      /\ DOMAIN s = 1..Len(s) /\ Len(s) \in Nat
      /\ DOMAIN dbq' = 1..(Len(s) + 1) /\ Len(dbq') = Len(s) + 1
      /\ dbq'[Len(s) + 1] = e
      /\ \A i \in 1..Len(s) : dbq'[i] = s[i]
  BY DEF Rest
<1>2. \A i \in DOMAIN dbq' : i \in DOMAIN s \/ i = Len(s) + 1
  BY <1>1
<1>3. \A i \in DOMAIN s : i \in DOMAIN dbq' /\ dbq'[i] = s[i] /\ s[i].who # p
  BY <1>1 DEF Rest
<1>4. \A i \in DOMAIN dbq' : dbq'[i].who # p => i \in DOMAIN s
  BY <1>1, <1>2
<1>5. \A i \in DOMAIN dbq' : dbq'[i].who = p => i = Len(dbq') /\ dbq'[i] = e
  BY <1>1, <1>2, <1>3
<1>6. \A i \in DOMAIN dbq' : dbq'[i].who # p => \E j \in DOMAIN dbq : dbq[j] = dbq'[i]
  BY <1>3, <1>4 DEF Rest
<1>7. \A j \in DOMAIN dbq : dbq[j].who # p => \E i \in DOMAIN dbq' : dbq'[i] = dbq[j]
  BY <1>3 DEF Rest
<1>8. \A i1, i2 \in DOMAIN dbq' : dbq'[i1].who # p /\ dbq'[i2].who # p /\ i1 < i2 =>
       \E j1, j2 \in DOMAIN dbq : j1 < j2 /\ dbq[j1] = dbq'[i1] /\ dbq[j2] = dbq'[i2]
  <2> TAKE i1, i2 \in DOMAIN dbq'
  <2> HAVE dbq'[i1].who # p /\ dbq'[i2].who # p /\ i1 < i2
  <2>1. i1 \in DOMAIN s /\ i2 \in DOMAIN s /\ dbq'[i1] = s[i1] /\ dbq'[i2] = s[i2]
    BY <1>3, <1>4
  <2>2. QED
    BY <2>1 DEF Rest
<1>9. \E i \in DOMAIN dbq' : dbq'[i] = e
  BY <1>1
<1>10. QED
  BY <1>1, <1>5, <1>6, <1>7, <1>8, <1>9 DEF Requeued

(* Whoever has no request is out of the queue as it is.                    *)
LEMMA RestOfNone ==
  ASSUME NEW p, dbq \in Seq(Request), \A i \in DOMAIN dbq : dbq[i].who # p
  PROVE  Rest(dbq, p)
  BY DEF Rest

(* One whose request is served leaves its tail.                            *)
LEMMA RestOfTail ==
  ASSUME NEW p, dbq \in Seq(Request), QueueInv, dbq # <<>>, Head(dbq).who = p
  PROVE  /\ Rest(Tail(dbq), p)
         /\ 1 \in DOMAIN dbq /\ Head(dbq) = dbq[1] /\ Head(dbq) \in Request
<1>1. /\ Tail(dbq) \in Seq(Request)
      /\ Len(dbq) \in Nat \ {0} /\ DOMAIN dbq = 1..Len(dbq)
      /\ DOMAIN Tail(dbq) = 1..(Len(dbq) - 1)
      /\ \A i \in 1..(Len(dbq) - 1) : Tail(dbq)[i] = dbq[i + 1]
      /\ Head(dbq) = dbq[1] /\ Head(dbq) \in Request
  OBVIOUS
<1>2. 1 \in DOMAIN dbq /\ \A i \in DOMAIN Tail(dbq) : i + 1 \in DOMAIN dbq /\ i + 1 # 1
  BY <1>1
<1>3. \A i \in DOMAIN Tail(dbq) : Tail(dbq)[i].who # p
  BY <1>1, <1>2 DEF QueueInv
<1>4. \A j \in DOMAIN dbq : dbq[j].who # p => j - 1 \in DOMAIN Tail(dbq) /\ Tail(dbq)[j - 1] = dbq[j]
  <2> TAKE j \in DOMAIN dbq
  <2> HAVE dbq[j].who # p
  <2>1. j \in Nat /\ j # 1 /\ j >= 1 /\ j <= Len(dbq)
    BY <1>1
  <2>2. j - 1 \in DOMAIN Tail(dbq) /\ j = (j - 1) + 1
    BY <1>1, <2>1
  <2>3. QED
    BY <1>1, <2>2
<1>5. \A i1, i2 \in DOMAIN Tail(dbq) : i1 < i2 => i1 + 1 < i2 + 1
  BY <1>1
<1>6. QED
  BY <1>1, <1>2, <1>3, <1>4, <1>5 DEF Rest

(* One that is interrupted leaves the others.                              *)
LEMMA RestOfOthers ==
  ASSUME NEW r, dbq \in Seq(Request), QueueInv
  PROVE  Rest(Others(r), r)
<1>1. CASE ~\E i \in DOMAIN dbq : dbq[i].who = r
  BY <1>1, RestOfNone DEF Others
<1>2. CASE \E i \in DOMAIN dbq : dbq[i].who = r
  <2> DEFINE k == Place(r)
  <2> DEFINE n == Len(dbq)
  <2> DEFINE s == Others(r)
  <2> DEFINE Up(i) == IF i < k THEN i ELSE i + 1
  <2>1. k \in DOMAIN dbq /\ dbq[k].who = r
    BY <1>2 DEF Place
  <2>2. n \in Nat /\ DOMAIN dbq = 1..n /\ k \in 1..n /\ \A i \in 1..n : dbq[i] \in Request
    BY <2>1
  <2>3. s = SubSeq(dbq, 1, k - 1) \o SubSeq(dbq, k + 1, n)
    BY <1>2 DEF Others, RemoveAt
  <2> HIDE DEF k, s
  <2> DEFINE a == SubSeq(dbq, 1, k - 1)
  <2> DEFINE b == SubSeq(dbq, k + 1, n)
  <2>4. /\ a \in Seq(Request) /\ Len(a) = k - 1
        /\ \A i \in 1..(k - 1) : a[i] = dbq[i]
    <3>1. k - 1 \in Int /\ 1 \in Int /\ \A i \in 1..(k - 1) : dbq[i] \in Request
      BY <2>2
    <3>2. /\ a \in Seq(Request) /\ Len(a) = IF 1 <= k - 1 THEN k - 1 - 1 + 1 ELSE 0
          /\ \A i \in 1..(k - 1 - 1 + 1) : a[i] = dbq[1 + i - 1]
      BY <3>1, SubSeqProperties
    <3>3. QED
      BY <2>2, <3>2
  <2>5. /\ b \in Seq(Request) /\ Len(b) = n - k
        /\ \A i \in 1..(n - k) : b[i] = dbq[k + i]
    <3>1. k + 1 \in Int /\ n \in Int /\ \A i \in (k + 1)..n : dbq[i] \in Request
      BY <2>2
    <3>2. /\ b \in Seq(Request) /\ Len(b) = IF k + 1 <= n THEN n - (k + 1) + 1 ELSE 0
          /\ \A i \in 1..(n - (k + 1) + 1) : b[i] = dbq[(k + 1) + i - 1]
      BY <3>1, SubSeqProperties
    <3> HIDE DEF b, n
    <3>3. Len(b) = n - k /\ 1..(n - (k + 1) + 1) = 1..(n - k)
      BY <2>2, <3>2
    <3>4. \A i \in 1..(n - k) : (k + 1) + i - 1 = k + i
      BY <2>2
    <3>5. QED
      BY <3>2, <3>3, <3>4
  <2> HIDE DEF a, b
  <2>6. /\ s \in Seq(Request) /\ Len(s) = n - 1 /\ DOMAIN s = 1..(n - 1)
        /\ \A i \in 1..(n - 1) : s[i] = IF i <= k - 1 THEN a[i] ELSE b[i - (k - 1)]
    <3>1. s = a \o b
      BY <2>3 DEF a, b
    <3>2. /\ a \o b \in Seq(Request) /\ Len(a \o b) = Len(a) + Len(b)
          /\ \A i \in 1..(Len(a) + Len(b)) : (a \o b)[i] = IF i <= Len(a) THEN a[i] ELSE b[i - Len(a)]
      BY <2>4, <2>5, ConcatProperties
    <3>3. Len(a) + Len(b) = n - 1
      BY <2>2, <2>4, <2>5
    <3>4. QED
      BY <2>4, <3>1, <3>2, <3>3
  <2>7. \A i \in 1..(n - 1) : s[i] = dbq[Up(i)]
    <3> TAKE i \in 1..(n - 1)
    <3>1. CASE i < k
      <4>1. i \in 1..(k - 1) /\ i <= k - 1
        BY <2>2, <3>1
      <4>2. QED
        BY <2>4, <2>6, <3>1, <4>1
    <3>2. CASE ~(i < k)
      <4>1. i - (k - 1) \in 1..(n - k) /\ k + (i - (k - 1)) = i + 1
        BY <2>2, <3>2
      <4>2. s[i] = b[i - (k - 1)]
        BY <2>2, <2>6, <3>2
      <4>3. QED
        BY <2>5, <3>2, <4>1, <4>2
    <3>3. QED
      BY <3>1, <3>2
  <2>8. \A i \in 1..(n - 1) : Up(i) \in 1..n /\ Up(i) # k
    BY <2>2
  <2>9. \A j \in 1..n : j # k => \E i \in 1..(n - 1) : Up(i) = j
    <3> TAKE j \in 1..n
    <3> HAVE j # k
    <3>1. CASE j < k
      BY <2>2, <3>1
    <3>2. CASE j > k
      <4>1. j - 1 \in 1..(n - 1) /\ Up(j - 1) = j
        BY <2>2, <3>2
      <4>2. QED
        BY <4>1
    <3>3. QED
      BY <2>2, <3>1, <3>2
  <2>10. \A i1, i2 \in 1..(n - 1) : i1 < i2 => Up(i1) < Up(i2)
    BY <2>2
  <2> HIDE DEF Up, n
  <2>11. \A i \in DOMAIN s : s[i].who # r
    BY <2>1, <2>2, <2>6, <2>7, <2>8 DEF QueueInv
  <2>12. \A j \in DOMAIN dbq : dbq[j].who # r => \E i \in DOMAIN s : s[i] = dbq[j]
    BY <2>1, <2>2, <2>6, <2>7, <2>9
  <2>13. \A i1, i2 \in DOMAIN s : i1 < i2 =>
           \E j1, j2 \in DOMAIN dbq : j1 < j2 /\ dbq[j1] = s[i1] /\ dbq[j2] = s[i2]
    BY <2>2, <2>6, <2>7, <2>8, <2>10
  <2>14. Rest(s, r)
    BY <2>2, <2>6, <2>7, <2>8, <2>11, <2>12, <2>13 DEF Rest
  <2>15. QED
    BY <2>14 DEF s
<1>3. QED
  BY <1>1, <1>2

-----------------------------------------------------------------------------
(* What a run's step does to the queue and to the other runs.              *)

(* A run's agent, pointer and requests.                                    *)
LEMMA RunFacts ==
  ASSUME TurnsTypeOK, NEW r \in Run
  PROVE  /\ AgentOf(r) \in Agent /\ ptr[AgentOf(r)] \in Conv
         /\ \A op \in Waiting : Req(op, r) \in Request /\ Req(op, r).who = r
                                /\ Req(op, r).op = op /\ Req(op, r).conv = ptr[AgentOf(r)]
         /\ r \notin Handler
<1>1. AgentOf(r) \in Agent
  BY DEF Agent, AgentOf
<1>2. ptr[AgentOf(r)] \in Conv
  BY <1>1 DEF TurnsTypeOK
<1>3. \A op \in Waiting : Req(op, r) \in Request
  BY <1>2 DEF Req, Request
<1>4. r \notin Handler
  BY TurnsAssumption DEF Run
<1>5. QED
  BY <1>1, <1>2, <1>3, <1>4 DEF Req

(* A run that is idle or between two statements has no request.            *)
LEMMA NoRequest ==
  ASSUME TurnsTypeOK, QueueInv, NEW r \in Run, pc[r] \notin Waiting
  PROVE  \A i \in DOMAIN dbq : dbq[i].who # r
<1>1. \A i \in DOMAIN dbq : dbq[i] \in Request
  BY DEF TurnsTypeOK
<1>2. ASSUME NEW i \in DOMAIN dbq, dbq[i].who = r PROVE FALSE
  <2>1. dbq[i].op = pc[r]
    BY <1>2 DEF QueueInv
  <2>2. pc[r] \in Asked
    BY <1>1, <2>1 DEF Request
  <2>3. pc[r] \in RunPc
    BY DEF TurnsTypeOK
  <2>4. QED
    BY <2>2, <2>3 DEF Asked, RunPc
<1>3. QED
  BY <1>2

RunMoves(r) ==
  /\ Requeued(r)
  /\ \A i \in DOMAIN dbq' : dbq'[i].who = r => dbq'[i] = Req(pc'[r], r)
  /\ pc'[r] \in Waiting => \E i \in DOMAIN dbq' : dbq'[i].who = r
  /\ \A s \in Run : s # r => pc'[s] = pc[s] /\ turn'[s] = turn[s] /\ home'[s] = home[s]
                              /\ outcome'[s] = outcome[s]
  /\ pc'[r] \in RunPc
  /\ UNCHANGED <<http, boots>>

(* It asks: from outside the queue, or as its request is served.           *)
LEMMA AsksMoves ==
  ASSUME TurnsTypeOK, NEW r \in Run, NEW s, Rest(s, r), NEW op \in Waiting,
         dbq' = Append(s, Req(op, r))
  PROVE  /\ Requeued(r)
         /\ \A i \in DOMAIN dbq' : dbq'[i].who = r => dbq'[i] = Req(op, r)
         /\ \E i \in DOMAIN dbq' : dbq'[i].who = r
<1>1. Req(op, r) \in Request /\ Req(op, r).who = r
  BY RunFacts
<1>2. QED
  BY <1>1, AskRequeued

(* It is out of the queue afterwards.                                      *)
LEMMA RestsMoves ==
  ASSUME NEW r, NEW s, Rest(s, r), dbq' = s
  PROVE  Requeued(r) /\ \A i \in DOMAIN dbq' : dbq'[i].who # r
  BY RestRequeued DEF Rest

(* The places of a run where it has a request and where it has none.       *)
LEMMA PcFacts == /\ Waiting \subseteq RunPc
                 /\ InTurn \subseteq RunPc
                 /\ {"idle", "stream", "over", "dead"} \intersect Waiting = {}
                 /\ {"idle", "stream", "over", "dead"} \subseteq RunPc
  BY DEF Waiting, InTurn, RunPc

(* A run that begins asks for what its place says.                         *)
LEMMA BeginMoves ==
  ASSUME TurnsTypeOK, QueueInv, NEW r \in Run, Called(r) \/ CalledNewChat(r)
  PROVE  RunMoves(r)
<1>1. pc[r] = "idle" /\ \A i \in DOMAIN dbq : dbq[i].who # r
  BY NoRequest, PcFacts DEF Called, CalledNewChat
<1>2. dbq \in Seq(Request)
  BY DEF TurnsTypeOK
<1>3. Rest(dbq, r)
  BY <1>1, <1>2, RestOfNone
<1>4. PICK op \in {"next", "newchat"} : dbq' = Append(dbq, Req(op, r)) /\ pc' = [pc EXCEPT ![r] = op]
  BY DEF Called, CalledNewChat
<1>5. op \in Waiting
  BY DEF Waiting
<1>6. pc'[r] = op
  BY <1>4 DEF TurnsTypeOK
<1>7. \A s \in Run : s # r => pc'[s] = pc[s] /\ turn'[s] = turn[s] /\ home'[s] = home[s] /\ outcome'[s] = outcome[s]
  BY DEF Called, CalledNewChat, TurnsTypeOK
<1>8. UNCHANGED <<http, boots>>
  BY DEF Called, CalledNewChat
<1>9. QED
  BY <1>3, <1>4, <1>5, <1>6, <1>7, <1>8, AsksMoves, PcFacts DEF RunMoves

(* So does a run that goes on, ...                                         *)
LEMMA StepMoves ==
  ASSUME TurnsTypeOK, QueueInv, NEW r \in Run, RunStep(r)
  PROVE  RunMoves(r)
<1> DEFINE Kept == \A s \in Run : s # r => pc'[s] = pc[s] /\ turn'[s] = turn[s] /\ home'[s] = home[s]
                                         /\ outcome'[s] = outcome[s]
<1>1. dbq \in Seq(Request) /\ pc \in [Run -> RunPc]
  BY DEF TurnsTypeOK
<1>2. ASSUME NEW op \in Waiting, Serving(op, r)
      PROVE  Rest(Tail(dbq), r)
  BY <1>1, <1>2, RestOfTail DEF Serving
<1>3. ASSUME NEW op \in Waiting, Serving(op, r), NEW next \in Waiting, Proceeds(r, next), Kept,
             UNCHANGED <<http, boots>>
      PROVE  RunMoves(r)
  <2>1. Rest(Tail(dbq), r)
    BY <1>2, <1>3
  <2>2. dbq' = Append(Tail(dbq), Req(next, r)) /\ pc'[r] = next
    BY <1>1, <1>3 DEF Proceeds
  <2>3. /\ Requeued(r)
        /\ \A i \in DOMAIN dbq' : dbq'[i].who = r => dbq'[i] = Req(next, r)
        /\ \E i \in DOMAIN dbq' : dbq'[i].who = r
    BY <1>3, <2>1, <2>2, AsksMoves
  <2>4. QED
    BY <1>3, <2>2, <2>3, PcFacts DEF RunMoves
<1>4. ASSUME NEW op \in Waiting, Serving(op, r), dbq' = Tail(dbq), Kept,
             pc'[r] \in {"stream", "over", "dead"}, UNCHANGED <<http, boots>>
      PROVE  RunMoves(r)
  <2>1. Rest(Tail(dbq), r)
    BY <1>2, <1>4
  <2>2. pc'[r] \notin Waiting /\ pc'[r] \in RunPc
    BY <1>4, PcFacts
  <2>3. QED
    BY <1>4, <2>1, <2>2, RestsMoves DEF RunMoves
<1>5. ASSUME NEW op \in Waiting, pc[r] = "stream", Asks(r, op), Kept, UNCHANGED <<http, boots>>
      PROVE  RunMoves(r)
  <2>1. Rest(dbq, r)
    BY <1>1, <1>5, NoRequest, RestOfNone, PcFacts
  <2>2. dbq' = Append(dbq, Req(op, r)) /\ pc'[r] = op
    BY <1>1, <1>5 DEF Asks
  <2>3. QED
    BY <1>5, <2>1, <2>2, AsksMoves, PcFacts DEF RunMoves
<1>6. {"next", "user", "tool", "reply", "mark", "closing", "newchat"} \subseteq Waiting
  BY DEF Waiting
<1>7. CASE ServeNext(r)
  <2>1. Kept
    BY <1>7 DEF ServeNext, Proceeds, TurnsTypeOK
  <2>2. QED
    BY <1>3, <1>6, <1>7, <2>1 DEF ServeNext
<1>8. CASE ServeUser(r)
  <2>1. Kept
    BY <1>8 DEF ServeUser, Leaves, TurnsTypeOK
  <2>2. pc'[r] \in {"stream", "dead"}
    BY <1>1, <1>8 DEF ServeUser, Leaves
  <2>3. QED
    BY <1>4, <1>6, <1>8, <2>1, <2>2 DEF ServeUser
<1>9. CASE CallsTool(r)
  <2>1. Kept
    BY <1>9 DEF CallsTool, Asks, TurnsTypeOK
  <2>2. QED
    BY <1>5, <1>6, <1>9, <2>1 DEF CallsTool
<1>10. CASE Answers(r)
  <2>1. Kept
    BY <1>10 DEF Answers, Asks, TurnsTypeOK
  <2>2. QED
    BY <1>5, <1>6, <1>10, <2>1 DEF Answers
<1>11. CASE Fails(r)
  <2>1. Kept
    BY <1>11 DEF Fails, Asks, TurnsTypeOK
  <2>2. QED
    BY <1>5, <1>6, <1>11, <2>1 DEF Fails
<1>12. CASE ServeTool(r)
  <2>1. Kept
    BY <1>12 DEF ServeTool, Proceeds, TurnsTypeOK
  <2>2. CASE Exists(Head(dbq).conv)
    <3>1. pc'[r] = "stream" /\ dbq' = Tail(dbq)
      BY <1>1, <1>12, <2>2 DEF ServeTool
    <3>2. QED
      BY <1>4, <1>6, <1>12, <2>1, <3>1 DEF ServeTool
  <2>3. CASE ~Exists(Head(dbq).conv)
    BY <1>3, <1>6, <1>12, <2>1, <2>3 DEF ServeTool
  <2>4. QED
    BY <2>2, <2>3
<1>13. CASE ServeReply(r)
  <2>1. Kept
    BY <1>13 DEF ServeReply, Proceeds, TurnsTypeOK
  <2>2. QED
    BY <1>3, <1>6, <1>13, <2>1 DEF ServeReply
<1>14. CASE ServeMark(r)
  <2>1. Kept /\ pc'[r] = "over"
    BY <1>14 DEF ServeMark, Leaves, TurnsTypeOK
  <2>2. QED
    BY <1>4, <1>6, <1>14, <2>1 DEF ServeMark
<1>15. CASE ServeClosing(r)
  <2>1. Kept /\ pc'[r] = "over"
    BY <1>15 DEF ServeClosing, Leaves, TurnsTypeOK
  <2>2. QED
    BY <1>4, <1>6, <1>15, <2>1 DEF ServeClosing
<1>16. CASE ServeNewChat(r)
  <2>1. Kept /\ pc'[r] = "over"
    BY <1>16 DEF ServeNewChat, Leaves, TurnsTypeOK
  <2>2. QED
    BY <1>4, <1>6, <1>16, <2>1 DEF ServeNewChat
<1>17. QED
  BY <1>7, <1>8, <1>9, <1>10, <1>11, <1>12, <1>13, <1>14, <1>15, <1>16 DEF RunStep

(* ... one that is cancelled, ...                                          *)
LEMMA CancelMoves ==
  ASSUME TurnsTypeOK, QueueInv, NEW r \in Run, Cancelled(r)
  PROVE  RunMoves(r)
<1>1. dbq \in Seq(Request) /\ pc \in [Run -> RunPc]
  BY DEF TurnsTypeOK
<1>2. Rest(Others(r), r)
  BY <1>1, RestOfOthers
<1>3. \A s \in Run : s # r => pc'[s] = pc[s] /\ turn'[s] = turn[s] /\ home'[s] = home[s]
                              /\ outcome'[s] = outcome[s]
  BY DEF Cancelled, Leaves, TurnsTypeOK
<1>4. UNCHANGED <<http, boots>>
  BY DEF Cancelled
<1>5. CASE dbq' = Append(Others(r), Req("closing", r)) /\ pc' = [pc EXCEPT ![r] = "closing"]
  <2>1. pc'[r] = "closing" /\ "closing" \in Waiting
    BY <1>1, <1>5 DEF Waiting
  <2>2. QED
    BY <1>2, <1>3, <1>4, <1>5, <2>1, AsksMoves, PcFacts DEF RunMoves
<1>6. CASE dbq' = Others(r) /\ \E how \in {"over", "dead"} : Leaves(r, how)
  <2>1. pc'[r] \in {"over", "dead"}
    BY <1>1, <1>6 DEF Leaves
  <2>2. QED
    BY <1>2, <1>3, <1>4, <1>6, <2>1, RestsMoves, PcFacts DEF RunMoves
<1>7. QED
  BY <1>5, <1>6 DEF Cancelled

(* What a handler's step does to the queue and to the other handlers.      *)
HandlerMoves(h) ==
  /\ Requeued(h)
  /\ \A i \in DOMAIN dbq' : dbq'[i].who = h => dbq'[i].op = hpc'[h]
  /\ hpc'[h] \in Asked => \E i \in DOMAIN dbq' : dbq'[i].who = h
  /\ \A g \in Handler : g # h => hpc'[g] = hpc[g]
  /\ hpc' \in [Handler -> {"idle", "done"} \union Asked]
  /\ hkind' \in [Handler -> {"none", "new", "resume", "delete", "wipe"}]
  /\ hconv' \in [Handler -> Conv]
  /\ UNCHANGED <<pc, turn, iters, outcome, home, future, boots>>

(* A handler that waits for nothing has no request.                        *)
LEMMA HandlerNoRequest ==
  ASSUME TurnsTypeOK, QueueInv, NEW h \in Handler, hpc[h] = "idle"
  PROVE  \A i \in DOMAIN dbq : dbq[i].who # h
<1>1. \A i \in DOMAIN dbq : dbq[i] \in Request
  BY DEF TurnsTypeOK
<1>2. QED
  BY <1>1 DEF QueueInv, Request, Waiting, Asked

(* What a handler calls, as it goes on.                                    *)
LEMMA HandlerAsksMoves ==
  ASSUME TurnsTypeOK, QueueInv, NEW h \in Handler,
         NEW kind \in {"new", "resume", "delete", "wipe"}, NEW op \in {"meta", "create", "wipe"},
         NEW c \in Conv, HandlerAsks(h, kind, op, c)
  PROVE  HandlerMoves(h) /\ UNCHANGED <<chan, rows, ptr, astray>>
<1> DEFINE e == [op |-> op, who |-> h, conv |-> c]
<1>1. Rest(dbq, h)
  BY HandlerNoRequest, RestOfNone DEF HandlerAsks, TurnsTypeOK
<1>2. e \in Request /\ e.who = h /\ e.op = op /\ op \in Asked
  BY DEF Request, Asked
<1>3. dbq' = Append(dbq, e)
  BY DEF HandlerAsks
<1> HIDE DEF e
<1>4. /\ Requeued(h)
      /\ \E i \in DOMAIN dbq' : dbq'[i] = e
      /\ \A i \in DOMAIN dbq' : dbq'[i].who = h => dbq'[i] = e
  BY <1>1, <1>2, <1>3, AskRequeued
<1>5. hpc' \in [Handler -> {"idle", "done"} \union Asked] /\ hpc'[h] = op
  BY <1>2 DEF HandlerAsks, TurnsTypeOK
<1>6. /\ hkind' \in [Handler -> {"none", "new", "resume", "delete", "wipe"}]
      /\ hconv' \in [Handler -> Conv]
      /\ \A g \in Handler : g # h => hpc'[g] = hpc[g]
  BY DEF HandlerAsks, TurnsTypeOK
<1>7. UNCHANGED <<pc, turn, iters, outcome, home, future, boots, chan, rows, ptr, astray>>
  BY DEF HandlerAsks, durable, runs
<1>8. QED
  BY <1>2, <1>4, <1>5, <1>6, <1>7 DEF HandlerMoves

(* ... a handler that goes on after a call, ...                            *)
LEMMA HandlerProceedsMoves ==
  ASSUME TurnsTypeOK, QueueInv, NEW h \in Handler, NEW op \in Asked, Serving(op, h),
         NEW next \in {"delete", "create", "done"}, HandlerProceeds(h, next),
         UNCHANGED <<pc, turn, iters, outcome, home, future, boots>>
  PROVE  HandlerMoves(h) /\ hpc'[h] = next
<1> DEFINE e == [op |-> next, who |-> h, conv |-> hconv[h]]
<1>1. Rest(Tail(dbq), h)
  BY RestOfTail DEF Serving, TurnsTypeOK
<1>2. hconv[h] \in Conv
  BY DEF TurnsTypeOK
<1>3. hpc' \in [Handler -> {"idle", "done"} \union Asked] /\ hpc'[h] = next
  BY DEF HandlerProceeds, TurnsTypeOK, Asked
<1>4. hkind' \in [Handler -> {"none", "new", "resume", "delete", "wipe"}]
  BY DEF HandlerProceeds, TurnsTypeOK
<1>5. hconv' \in [Handler -> Conv]
  BY DEF HandlerProceeds, TurnsTypeOK, Conv
<1>6. \A g \in Handler : g # h => hpc'[g] = hpc[g]
  BY DEF HandlerProceeds, TurnsTypeOK
<1>7. CASE next = "done"
  <2>1. dbq' = Tail(dbq)
    BY <1>7 DEF HandlerProceeds
  <2>2. Requeued(h) /\ \A i \in DOMAIN dbq' : dbq'[i].who # h
    BY <1>1, <2>1, RestsMoves
  <2>3. "done" \notin Asked
    BY DEF Asked
  <2>4. QED
    BY <1>3, <1>4, <1>5, <1>6, <1>7, <2>2, <2>3 DEF HandlerMoves
<1>8. CASE next \in {"delete", "create"}
  <2>1. dbq' = Append(Tail(dbq), e)
    BY <1>8 DEF HandlerProceeds
  <2>2. e \in Request /\ e.who = h /\ e.op = next
    BY <1>2, <1>8 DEF Request, Asked
  <2> HIDE DEF e
  <2>3. /\ Requeued(h)
        /\ \E i \in DOMAIN dbq' : dbq'[i] = e
        /\ \A i \in DOMAIN dbq' : dbq'[i].who = h => dbq'[i] = e
    <3> DEFINE s == Tail(dbq)
    <3>1. Rest(s, h) /\ dbq' = Append(s, e)
      BY <1>1, <2>1
    <3> HIDE DEF s
    <3>2. QED
      BY <2>2, <3>1, AskRequeued
  <2>4. QED
    BY <1>3, <1>4, <1>5, <1>6, <2>2, <2>3 DEF HandlerMoves
<1>9. QED
  BY <1>7, <1>8

(* ... and every step of a handler.                                        *)
LEMMA HandlerStepMoves ==
  ASSUME TurnsTypeOK, QueueInv, NEW h \in Handler, HandlerCall(h) \/ HandlerStep(h)
  PROVE  HandlerMoves(h)
<1>1. ptr["ui"] \in Conv /\ \A c \in DOMAIN chan : c \in Conv
  BY DEF TurnsTypeOK, Agent
<1>2. CASE New(h)
  BY <1>1, <1>2, HandlerAsksMoves DEF New
<1>3. CASE Wipe(h)
  BY <1>1, <1>3, HandlerAsksMoves DEF Wipe
<1>4. ASSUME NEW c \in DOMAIN chan, Resume(h, c) \/ Delete(h, c)
      PROVE  HandlerMoves(h)
  BY <1>1, <1>4, HandlerAsksMoves DEF Resume, Delete
<1>5. {"meta", "delete", "wipe", "create"} \subseteq Asked
  BY DEF Asked
<1>6. CASE ServeMeta(h)
  <2>1. UNCHANGED <<pc, turn, iters, outcome, home, future, boots>>
    BY <1>6 DEF ServeMeta, runs
  <2>2. PICK next \in {"delete", "done"} : HandlerProceeds(h, next)
    BY <1>6 DEF ServeMeta
  <2>3. QED
    BY <1>5, <1>6, <2>1, <2>2, HandlerProceedsMoves DEF ServeMeta
<1>7. CASE ServeDelete(h)
  <2>1. UNCHANGED <<pc, turn, iters, outcome, home, future, boots>>
    BY <1>7 DEF ServeDelete, runs
  <2>2. PICK next \in {"create", "done"} : HandlerProceeds(h, next)
    BY <1>7 DEF ServeDelete
  <2>3. QED
    BY <1>5, <1>7, <2>1, <2>2, HandlerProceedsMoves DEF ServeDelete
<1>8. CASE ServeWipe(h)
  <2>1. UNCHANGED <<pc, turn, iters, outcome, home, future, boots>>
    BY <1>8 DEF ServeWipe, runs
  <2>2. QED
    BY <1>5, <1>8, <2>1, HandlerProceedsMoves DEF ServeWipe
<1>9. CASE ServeCreate(h)
  BY <1>5, <1>9, HandlerProceedsMoves DEF ServeCreate
<1>10. QED
  BY <1>2, <1>3, <1>4, <1>6, <1>7, <1>8, <1>9 DEF HandlerCall, HandlerStep

-----------------------------------------------------------------------------
(* The queue.                                                              *)

(* What stays apart in the queue stays apart when one moves.               *)
LEMMA StillDistinct ==
  ASSUME QueueInv, dbq \in Seq(Request), NEW p, Requeued(p)
  PROVE  \A i, j \in DOMAIN dbq' : dbq'[i].who = dbq'[j].who => i = j
<1> SUFFICES ASSUME NEW i \in DOMAIN dbq', NEW j \in DOMAIN dbq', dbq'[i].who = dbq'[j].who
             PROVE  i = j
  OBVIOUS
<1>1. CASE dbq'[i].who = p
  BY <1>1 DEF Requeued
<1>2. CASE dbq'[i].who # p
  <2>1. i \in Nat /\ j \in Nat
    BY DEF Requeued
  <2>2. ASSUME NEW i1 \in DOMAIN dbq', NEW i2 \in DOMAIN dbq', i1 < i2,
               dbq'[i1].who # p, dbq'[i2].who # p, dbq'[i1].who = dbq'[i2].who
        PROVE  FALSE
    <3>1. PICK j1, j2 \in DOMAIN dbq : j1 < j2 /\ dbq[j1] = dbq'[i1] /\ dbq[j2] = dbq'[i2]
      BY <2>2 DEF Requeued
    <3>2. j1 = j2 /\ j1 \in Nat
      BY <2>2, <3>1 DEF QueueInv
    <3>3. QED
      BY <3>1, <3>2
  <2>3. QED
    BY <1>2, <2>1, <2>2
<1>3. QED
  BY <1>1, <1>2

(* The queue holds the one request of everybody who waits.                 *)
LEMMA QueueStep ==
  ASSUME TurnsTypeOK, QueueInv,
         \/ \E r \in Run : RunMoves(r)
         \/ \E h \in Handler : HandlerMoves(h)
         \/ UNCHANGED <<dbq, pc, hpc>>
         \/ Reboot
  PROVE  QueueInv'
<1>1. dbq \in Seq(Request) /\ \A h \in Handler : h \notin Run
  BY TurnsAssumption DEF TurnsTypeOK, Run
<1>2. ASSUME NEW r \in Run, RunMoves(r)
      PROVE  QueueInv'
  <2>1. \A i, j \in DOMAIN dbq' : dbq'[i].who = dbq'[j].who => i = j
    BY <1>1, <1>2, StillDistinct DEF RunMoves
  <2>2. hpc' = hpc /\ r \notin Handler
    BY <1>1, <1>2 DEF RunMoves, http
  <2>3. ASSUME NEW i \in DOMAIN dbq'
        PROVE  /\ dbq'[i].who \in Run => pc'[dbq'[i].who] = dbq'[i].op
               /\ dbq'[i].who \in Handler => hpc'[dbq'[i].who] = dbq'[i].op
    <3>1. CASE dbq'[i].who = r
      BY <1>2, <2>2, <3>1 DEF RunMoves, Req
    <3>2. CASE dbq'[i].who # r
      <4>1. PICK j \in DOMAIN dbq : dbq[j] = dbq'[i]
        BY <1>2, <3>2 DEF RunMoves, Requeued
      <4>2. QED
        BY <1>2, <2>2, <3>2, <4>1 DEF RunMoves, QueueInv
    <3>3. QED
      BY <3>1, <3>2
  <2>4. ASSUME NEW s \in Run, pc'[s] \in Waiting
        PROVE  \E i \in DOMAIN dbq' : dbq'[i].who = s
    <3>1. CASE s = r
      BY <1>2, <2>4, <3>1 DEF RunMoves
    <3>2. CASE s # r
      <4>1. PICK j \in DOMAIN dbq : dbq[j].who = s
        BY <1>2, <2>4, <3>2 DEF RunMoves, QueueInv
      <4>2. QED
        BY <1>2, <3>2, <4>1 DEF RunMoves, Requeued
    <3>3. QED
      BY <3>1, <3>2
  <2>5. QED
    BY <2>1, <2>3, <2>4 DEF QueueInv
<1>3. ASSUME NEW h \in Handler, HandlerMoves(h)
      PROVE  QueueInv'
  <2>1. \A i, j \in DOMAIN dbq' : dbq'[i].who = dbq'[j].who => i = j
    BY <1>1, <1>3, StillDistinct DEF HandlerMoves
  <2>2. pc' = pc /\ h \notin Run
    BY <1>1, <1>3 DEF HandlerMoves
  <2>3. ASSUME NEW i \in DOMAIN dbq'
        PROVE  /\ dbq'[i].who \in Run => pc'[dbq'[i].who] = dbq'[i].op
               /\ dbq'[i].who \in Handler => hpc'[dbq'[i].who] = dbq'[i].op
    <3>1. CASE dbq'[i].who = h
      BY <1>3, <2>2, <3>1 DEF HandlerMoves
    <3>2. CASE dbq'[i].who # h
      <4>1. PICK j \in DOMAIN dbq : dbq[j] = dbq'[i]
        BY <1>3, <3>2 DEF HandlerMoves, Requeued
      <4>2. QED
        BY <1>3, <2>2, <3>2, <4>1 DEF HandlerMoves, QueueInv
    <3>3. QED
      BY <3>1, <3>2
  <2>4. ASSUME NEW s \in Run, pc'[s] \in Waiting
        PROVE  \E i \in DOMAIN dbq' : dbq'[i].who = s
    <3>1. PICK j \in DOMAIN dbq : dbq[j].who = s
      BY <2>2, <2>4 DEF QueueInv
    <3>2. QED
      BY <1>3, <2>2, <3>1 DEF HandlerMoves, Requeued
  <2>5. QED
    BY <2>1, <2>3, <2>4 DEF QueueInv
<1>4. CASE UNCHANGED <<dbq, pc, hpc>>
  BY <1>4 DEF QueueInv
<1>5. CASE Reboot
  <2>1. dbq' = <<>> /\ \A r \in Run : pc'[r] \in {"dead", "idle", "over"}
    BY <1>5 DEF Reboot, Live
  <2>2. DOMAIN dbq' = {}
    BY <2>1
  <2>3. QED
    BY <2>1, <2>2, PcFacts DEF QueueInv
<1>6. QED
  BY <1>2, <1>3, <1>4, <1>5

-----------------------------------------------------------------------------
(* The tables.                                                             *)

(* A part of a bounded set is bounded.                                     *)
LEMMA BoundedSubset ==
  ASSUME NEW S, NEW T, Bounded(S), T \subseteq S
  PROVE  Bounded(T)
  BY DEF Bounded

(* A created conversation has an id of its own.                            *)
LEMMA CreatedFacts ==
  ASSUME TurnsTypeOK, NEW a \in Agent, Created(a)
  PROVE  /\ NewId \in Conv /\ NewId \notin DOMAIN chan
         /\ DOMAIN chan' = DOMAIN chan \union {NewId}
         /\ DOMAIN chan' \subseteq Conv /\ chan' \in [DOMAIN chan' -> Agent]
         /\ Bounded(DOMAIN chan')
<1>1. DOMAIN chan \subseteq Nat /\ Bounded(DOMAIN chan) /\ chan \in [DOMAIN chan -> Agent]
      /\ DOMAIN chan \subseteq Conv
  BY DEF TurnsTypeOK, Conv
<1>2. /\ NewId \in Conv /\ \A c \in DOMAIN chan : c < NewId
      /\ Bounded(DOMAIN chan \union {NewId})
  BY <1>1, OnePastMax DEF NewId
<1>3. NewId \notin DOMAIN chan
  BY <1>1, <1>2
<1>4. chan' = [d \in DOMAIN chan \union {NewId} |-> IF d = NewId THEN a ELSE chan[d]]
  BY DEF Created, With
<1>5. DOMAIN chan' = DOMAIN chan \union {NewId}
  BY <1>4
<1>6. chan' \in [DOMAIN chan' -> Agent]
  BY <1>1, <1>4
<1>7. QED
  BY <1>1, <1>2, <1>3, <1>5, <1>6

(* A conversation that is deleted leaves the others.                       *)
LEMMA DeletedFacts ==
  ASSUME TurnsTypeOK, NEW c, Deleted(c)
  PROVE  /\ DOMAIN chan' = DOMAIN chan \ {c}
         /\ DOMAIN chan' \subseteq Conv /\ chan' \in [DOMAIN chan' -> Agent]
         /\ Bounded(DOMAIN chan')
<1>1. DOMAIN chan \subseteq Conv /\ Bounded(DOMAIN chan) /\ chan \in [DOMAIN chan -> Agent]
  BY DEF TurnsTypeOK
<1>2. chan' = [d \in DOMAIN chan \ {c} |-> chan[d]]
  BY DEF Deleted, Restrict
<1>3. DOMAIN chan' = DOMAIN chan \ {c}
  BY <1>2
<1>4. chan' \in [DOMAIN chan' -> Agent]
  BY <1>1, <1>2
<1>5. Bounded(DOMAIN chan')
  BY <1>1, <1>3, BoundedSubset
<1>6. QED
  BY <1>1, <1>3, <1>4, <1>5

(* A drawn turn id is greater than those of the conversation's rows.       *)
LEMMA DrawnFacts ==
  ASSUME TurnsTypeOK, NEW c
  PROVE  NextTurnId(c) \in Nat /\ \A x \in rows : x.conv = c => x.turn < NextTurnId(c)
<1> DEFINE S == {x.turn : x \in {y \in rows : y.conv = c}}
<1>1. rows \subseteq Row /\ Bounded({x.turn : x \in rows})
  BY DEF TurnsTypeOK
<1>2. \A x \in rows : x.turn \in Nat
  BY <1>1 DEF Row, TurnId
<1>3. S \subseteq Nat
  BY <1>2
<1>4. Bounded(S)
  BY <1>1, BoundedSubset
<1>5. \A x \in rows : x.conv = c => x.turn \in S
  OBVIOUS
<1> HIDE DEF S
<1>6. 1 + Max({0} \union S) \in Conv /\ \A n \in S : n < 1 + Max({0} \union S)
  BY <1>3, <1>4, OnePastMax
<1>7. NextTurnId(c) = 1 + Max({0} \union S)
  BY DEF NextTurnId, S
<1>8. QED
  BY <1>5, <1>6, <1>7 DEF Conv

(* A change of some rows' status.                                          *)
Restatus(new) ==
  /\ \A y \in new : y \in Row /\ \E x \in rows : x.by = y.by /\ x.role = y.role /\ SameTurn(x, y)
  /\ \A x \in rows : \E y \in new : x.by = y.by /\ x.role = y.role /\ SameTurn(x, y)

(* A row with another status is the same row of the same turn.             *)
LEMMA StatusFacts ==
  ASSUME NEW x \in Row, NEW st \in {"ok", "failed"}
  PROVE  LET y == [x EXCEPT !.status = st]
         IN  /\ y \in Row /\ y.by = x.by /\ y.role = x.role /\ SameTurn(x, y)
             /\ y.status = st
  BY DEF Row, SameTurn

(* mark_turn sets the status of the rows of its turn, and no other's.      *)
LEMMA MarkedFacts ==
  ASSUME TurnsTypeOK, NEW c, NEW n, NEW st \in {"ok", "failed"}
  PROVE  /\ Restatus(Marked(c, n, st))
         /\ \A y \in Marked(c, n, st) :
              \/ y \in rows /\ ~(y.conv = c /\ y.turn = n)
              \/ y.conv = c /\ y.turn = n /\ y.status = st
<1>1. rows \subseteq Row
  BY DEF TurnsTypeOK
<1> DEFINE Restated(x) == IF x.conv = c /\ x.turn = n THEN [x EXCEPT !.status = st] ELSE x
<1>2. ASSUME NEW x \in rows
      PROVE  /\ Restated(x) \in Row /\ Restated(x).by = x.by /\ Restated(x).role = x.role /\ SameTurn(x, Restated(x))
             /\ \/ Restated(x) \in rows /\ ~(Restated(x).conv = c /\ Restated(x).turn = n)
                \/ Restated(x).conv = c /\ Restated(x).turn = n /\ Restated(x).status = st
  <2>1. x \in Row
    BY <1>1
  <2>2. CASE x.conv = c /\ x.turn = n
    BY <2>1, <2>2, StatusFacts DEF SameTurn
  <2>3. CASE ~(x.conv = c /\ x.turn = n)
    BY <2>1, <2>3 DEF SameTurn
  <2>4. QED
    BY <2>2, <2>3
<1>3. Marked(c, n, st) = {Restated(x) : x \in rows}
  BY DEF Marked
<1> HIDE DEF Restated
<1>4. \A y \in Marked(c, n, st) : \E x \in rows : y = Restated(x)
  BY <1>3
<1>5. \A x \in rows : Restated(x) \in Marked(c, n, st)
  BY <1>3
<1>6. Restatus(Marked(c, n, st))
  BY <1>2, <1>4, <1>5 DEF Restatus
<1>7. QED
  BY <1>2, <1>4, <1>6

(* Reconciling fails rows of unanswered turns only.                        *)
LEMMA ReconciledFacts ==
  ASSUME TurnsTypeOK
  PROVE  /\ Restatus(Reconciled)
         /\ \A y \in Reconciled : y \in rows \/ (y.status = "failed" /\ \E x \in rows :
              Unanswered(x) /\ x.by = y.by /\ SameTurn(x, y))
<1>1. rows \subseteq Row
  BY DEF TurnsTypeOK
<1> DEFINE Restated(x) == IF x.status = "ok" /\ Unanswered(x) THEN [x EXCEPT !.status = "failed"] ELSE x
<1>2. ASSUME NEW x \in rows
      PROVE  /\ Restated(x) \in Row /\ Restated(x).by = x.by /\ Restated(x).role = x.role /\ SameTurn(x, Restated(x))
             /\ Restated(x) \in rows \/ (Restated(x).status = "failed" /\ Unanswered(x))
  <2>1. x \in Row
    BY <1>1
  <2>2. CASE x.status = "ok" /\ Unanswered(x)
    BY <2>1, <2>2, StatusFacts
  <2>3. CASE ~(x.status = "ok" /\ Unanswered(x))
    BY <2>1, <2>3 DEF SameTurn
  <2>4. QED
    BY <2>2, <2>3
<1>3. Reconciled = {Restated(x) : x \in rows}
  BY DEF Reconciled
<1> HIDE DEF Restated
<1>4. \A y \in Reconciled : \E x \in rows : y = Restated(x)
  BY <1>3
<1>5. \A x \in rows : Restated(x) \in Reconciled
  BY <1>3
<1>6. Restatus(Reconciled)
  BY <1>2, <1>4, <1>5 DEF Restatus
<1>7. QED
  BY <1>2, <1>4, <1>6

(* The rows keep their type.                                               *)
RowsOK(s) == s \subseteq Row /\ Bounded({x.turn : x \in s})

(* Rows with other statuses are rows.                                      *)
LEMMA RestatusOK ==
  ASSUME TurnsTypeOK, NEW s, Restatus(s)
  PROVE  RowsOK(s)
<1>1. {x.turn : x \in s} \subseteq {x.turn : x \in rows}
  BY DEF Restatus, SameTurn
<1>2. QED
  BY <1>1, BoundedSubset DEF Restatus, RowsOK, TurnsTypeOK

(* Fewer rows are rows.                                                    *)
LEMMA SubsetOK ==
  ASSUME TurnsTypeOK, NEW s, s \subseteq rows
  PROVE  RowsOK(s)
<1>1. {x.turn : x \in s} \subseteq {x.turn : x \in rows}
  OBVIOUS
<1>2. QED
  BY <1>1, BoundedSubset DEF RowsOK, TurnsTypeOK

(* The row a served statement inserts.                                     *)
LEMMA RowOfFacts ==
  ASSUME TurnsTypeOK, QueueInv, dbq # <<>>, NEW r \in Run, Head(dbq).who = r
  PROVE  /\ RowOf(Head(dbq)) \in Row
         /\ RowOf(Head(dbq)).by = r
         /\ RowOf(Head(dbq)).conv = Head(dbq).conv
         /\ RowOf(Head(dbq)).turn = turn[r]
         /\ RowOf(Head(dbq)).status = "ok"
         /\ Head(dbq).op \in {"reply", "closing"} => RowOf(Head(dbq)).role = "assistant"
         /\ RowsOK(rows \union {RowOf(Head(dbq))})
         /\ Head(dbq).op = pc[r]
<1>1. Head(dbq) \in Request /\ 1 \in DOMAIN dbq /\ Head(dbq) = dbq[1]
  BY RestOfTail DEF TurnsTypeOK
<1>2. turn[r] \in Nat /\ Head(dbq).conv \in Conv
  BY <1>1 DEF TurnsTypeOK, Request
<1>3. RoleOf(Head(dbq).op) \in {"user", "tool", "assistant"}
  BY DEF RoleOf
<1> DEFINE x == RowOf(Head(dbq))
<1>4. x \in Row /\ x.by = r /\ x.conv = Head(dbq).conv /\ x.turn = turn[r] /\ x.status = "ok"
  BY <1>2, <1>3 DEF RowOf, Row, TurnId
<1>5. Head(dbq).op \in {"reply", "closing"} => x.role = "assistant"
  BY DEF RowOf, RoleOf
<1> HIDE DEF x
<1>6. Bounded({y.turn : y \in rows \union {x}})
  <2>1. PICK n \in Nat : \A m \in {y.turn : y \in rows} : m <= n
    BY DEF TurnsTypeOK, Bounded
  <2>2. \A y \in rows : y.turn \in Nat /\ y.turn <= n
    BY <2>1 DEF TurnsTypeOK, Row, TurnId
  <2>3. n + turn[r] \in Nat /\ turn[r] <= n + turn[r] /\ n <= n + turn[r]
    BY <1>2
  <2>4. \A y \in rows \union {x} : y.turn <= n + turn[r]
    BY <1>4, <2>2, <2>3
  <2>5. QED
    BY <2>3, <2>4 DEF Bounded
<1>7. RowsOK(rows \union {x})
  BY <1>4, <1>6 DEF RowsOK, TurnsTypeOK
<1>8. Head(dbq).op = pc[r]
  BY <1>1 DEF QueueInv
<1>9. QED
  BY <1>4, <1>5, <1>7, <1>8 DEF x

(* What a served statement of a run leaves.                                *)
LEMMA WrittenFacts ==
  ASSUME TurnsTypeOK, QueueInv, dbq # <<>>, NEW r \in Run, Head(dbq).who = r
  PROVE  /\ Head(dbq).op = pc[r]
         /\ RowsOK(Written(Head(dbq)))
         /\ pc[r] \in {"user", "tool", "reply", "closing"} =>
              Written(Head(dbq)) = IF Exists(Head(dbq).conv) THEN rows \union {RowOf(Head(dbq))} ELSE rows
         /\ pc[r] = "mark" =>
              Written(Head(dbq)) = Marked(Head(dbq).conv, turn[r], IF outcome[r] = "ok" THEN "ok" ELSE "failed")
         /\ pc[r] \in {"next", "newchat"} => Written(Head(dbq)) = rows
<1> DEFINE q == Head(dbq)
<1>1. q.op = pc[r] /\ RowsOK(rows \union {RowOf(q)})
  BY RowOfFacts
<1>2. pc[r] \in Waiting
  <2>1. q \in Request /\ pc[r] \in RunPc
    BY RestOfTail DEF TurnsTypeOK
  <2>2. QED
    BY <1>1, <2>1 DEF Request, Waiting, Asked, RunPc
<1>3. CASE pc[r] \in {"user", "tool", "reply", "closing"}
  <2>1. Written(q) = IF Exists(q.conv) THEN rows \union {RowOf(q)} ELSE rows
    BY <1>1, <1>3 DEF Written
  <2>2. RowsOK(Written(q))
    BY <1>1, <2>1, SubsetOK
  <2>3. QED
    BY <1>1, <1>3, <2>1, <2>2
<1>4. CASE pc[r] = "mark"
  <2>1. Written(q) = Marked(q.conv, turn[r], IF outcome[r] = "ok" THEN "ok" ELSE "failed")
    BY <1>1, <1>4 DEF Written
  <2>2. RowsOK(Written(q))
    BY <2>1, MarkedFacts, RestatusOK
  <2>3. QED
    BY <1>1, <1>4, <2>1, <2>2
<1>5. CASE pc[r] \in {"next", "newchat"}
  <2>1. Written(q) = rows
    BY <1>1, <1>5 DEF Written
  <2>2. QED
    BY <1>1, <1>5, <2>1, SubsetOK
<1>6. QED
  BY <1>2, <1>3, <1>4, <1>5 DEF Waiting

-----------------------------------------------------------------------------
(* Types.                                                                  *)

ChanOK(c) == DOMAIN c \subseteq Conv /\ c \in [DOMAIN c -> Agent] /\ Bounded(DOMAIN c)

LocalsOK ==
  /\ pc \in [Run -> RunPc]
  /\ turn \in [Run -> Nat]
  /\ iters \in [Run -> Nat]
  /\ outcome \in [Run -> {"none", "ok", "error", "cancelled"}]
  /\ future \subseteq VoiceRun
  /\ home \in [Run -> Conv]
  /\ astray \in BOOLEAN

(* The ids of the first two conversations.                                 *)
LEMMA OneInConv == 1 \in Conv /\ 2 \in Conv /\ Conv \subseteq Nat
  BY DEF Conv

(* The first state is type correct.                                        *)
LEMMA InitTyped == Init => TurnsTypeOK
<1> SUFFICES ASSUME Init PROVE TurnsTypeOK
  OBVIOUS
<1>1. chan = [c \in {1, 2} |-> IF c = 1 THEN "ui" ELSE "voice"]
  BY DEF Init
<1>2. DOMAIN chan = {1, 2}
  BY <1>1
<1>3. DOMAIN chan \subseteq Conv /\ chan \in [DOMAIN chan -> Agent]
  BY <1>1, <1>2, OneInConv DEF Agent
<1>4. Bounded(DOMAIN chan)
  BY <1>2 DEF Bounded
<1>5. rows \subseteq Row /\ Bounded({x.turn : x \in rows})
  BY DEF Init, Bounded
<1>6. ptr \in [Agent -> Conv] /\ dbq \in Seq(Request)
  BY OneInConv DEF Init
<1>7. pc \in [Run -> RunPc] /\ outcome \in [Run -> {"none", "ok", "error", "cancelled"}]
  BY DEF Init, RunPc
<1>8. turn \in [Run -> Nat] /\ iters \in [Run -> Nat] /\ future \subseteq VoiceRun
  BY DEF Init
<1>9. /\ hpc \in [Handler -> {"idle", "done"} \union Asked]
      /\ hkind \in [Handler -> {"none", "new", "resume", "delete", "wipe"}]
      /\ hconv \in [Handler -> Conv]
  BY OneInConv DEF Init
<1>10. home \in [Run -> Conv] /\ astray \in BOOLEAN /\ boots \in Nat
  BY OneInConv DEF Init
<1>11. QED
  BY <1>3, <1>4, <1>5, <1>6, <1>7, <1>8, <1>9, <1>10 DEF TurnsTypeOK

(* A run's move is type correct if what it writes is.                      *)
LEMMA RunTyped ==
  ASSUME TurnsTypeOK, NEW r \in Run, RunMoves(r), LocalsOK',
         ChanOK(chan'), RowsOK(rows'), ptr' \in [Agent -> Conv]
  PROVE  TurnsTypeOK'
<1>1. dbq' \in Seq(Request) /\ UNCHANGED <<hpc, hkind, hconv, boots>>
  BY DEF RunMoves, Requeued, http
<1>2. /\ DOMAIN chan' \subseteq Conv /\ chan' \in [DOMAIN chan' -> Agent] /\ Bounded(DOMAIN chan')
      /\ rows' \subseteq Row /\ Bounded({x.turn : x \in rows'})
  BY DEF ChanOK, RowsOK
<1>3. /\ hpc' \in [Handler -> {"idle", "done"} \union Asked]
      /\ hkind' \in [Handler -> {"none", "new", "resume", "delete", "wipe"}]
      /\ hconv' \in [Handler -> Conv]
      /\ boots' \in Nat
  BY <1>1 DEF TurnsTypeOK
<1>4. Bounded({x.turn : x \in rows})' <=> Bounded({x.turn : x \in rows'})
  BY DEF Bounded
<1>5. QED
  BY <1>1, <1>2, <1>3 DEF TurnsTypeOK, LocalsOK, Bounded

(* The parts of the type invariant.                                        *)
LEMMA TypedNow == TurnsTypeOK => LocalsOK /\ ChanOK(chan) /\ RowsOK(rows) /\ ptr \in [Agent -> Conv]
  BY DEF TurnsTypeOK, LocalsOK, ChanOK, RowsOK

(* How a run's steps leave its locals.                                     *)
LEMMA LeavesTyped ==
  ASSUME TurnsTypeOK, NEW r \in Run, NEW how \in {"over", "dead"}, Leaves(r, how)
  PROVE  /\ pc' \in [Run -> RunPc] /\ turn' \in [Run -> Nat]
         /\ iters' \in [Run -> Nat] /\ home' \in [Run -> Conv]
  BY OneInConv DEF TurnsTypeOK, Leaves, RunPc

(* A turn that begins keeps the types, ...                                 *)
LEMMA BeginTyped ==
  ASSUME TurnsTypeOK, QueueInv, NEW r \in Run, UiMessage(r) \/ VoiceMessage(r)
  PROVE  TurnsTypeOK'
<1>1. Called(r) \/ CalledNewChat(r)
  BY DEF UiMessage, VoiceMessage
<1>2. RunMoves(r)
  BY <1>1, BeginMoves
<1>3. UNCHANGED <<chan, rows, ptr, turn, iters, outcome, astray>>
  BY <1>1 DEF Called, CalledNewChat, durable
<1>4. pc' \in [Run -> RunPc]
  BY <1>1 DEF Called, CalledNewChat, TurnsTypeOK, RunPc
<1>5. home' \in [Run -> Conv]
  BY <1>1, RunFacts DEF Called, CalledNewChat, TurnsTypeOK
<1>6. future' \subseteq VoiceRun
  BY DEF UiMessage, VoiceMessage, TurnsTypeOK
<1>7. LocalsOK'
  BY <1>3, <1>4, <1>5, <1>6 DEF LocalsOK, TurnsTypeOK
<1>8. QED
  BY <1>2, <1>3, <1>7, RunTyped, TypedNow

(* ... one that goes on, ...                                               *)
LEMMA StepTyped ==
  ASSUME TurnsTypeOK, QueueInv, NEW r \in Run, RunStep(r)
  PROVE  TurnsTypeOK'
<1>1. RunMoves(r)
  BY StepMoves
<1>2. LocalsOK /\ ChanOK(chan) /\ RowsOK(rows) /\ ptr \in [Agent -> Conv]
  BY TypedNow
<1>3. ASSUME NEW op \in RunPc, Serving(op, r)
      PROVE  RowsOK(Written(Head(dbq)))
  BY <1>3, WrittenFacts DEF Serving
<1>4. {"next", "user", "tool", "reply", "mark", "closing", "newchat", "stream"} \subseteq RunPc
  BY DEF RunPc
<1>5. CASE ServeNext(r)
  <2>1. turn' \in [Run -> Nat]
    BY <1>5, DrawnFacts DEF ServeNext, TurnsTypeOK
  <2>2. pc' \in [Run -> RunPc] /\ astray' \in BOOLEAN
    BY <1>2, <1>4, <1>5 DEF ServeNext, Proceeds, LocalsOK, Astray
  <2>3. UNCHANGED <<chan, rows, ptr, iters, outcome, home, future>>
    BY <1>5 DEF ServeNext, durable
  <2>4. LocalsOK'
    BY <1>2, <2>1, <2>2, <2>3 DEF LocalsOK
  <2>5. QED
    BY <1>1, <1>2, <2>3, <2>4, RunTyped
<1>6. CASE ServeUser(r)
  <2>1. UNCHANGED <<chan, ptr, outcome, astray, future>> /\ rows' = Written(Head(dbq))
    BY <1>6 DEF ServeUser
  <2>2. pc' \in [Run -> RunPc] /\ turn' \in [Run -> Nat] /\ iters' \in [Run -> Nat] /\ home' \in [Run -> Conv]
    <3>1. CASE Exists(Head(dbq).conv)
      BY <1>2, <1>4, <1>6, <3>1 DEF ServeUser, LocalsOK
    <3>2. CASE ~Exists(Head(dbq).conv)
      BY <1>6, <3>2, LeavesTyped DEF ServeUser
    <3>3. QED
      BY <3>1, <3>2
  <2>3. LocalsOK'
    BY <1>2, <2>1, <2>2 DEF LocalsOK
  <2>4. RowsOK(rows')
    BY <1>3, <1>4, <1>6, <2>1 DEF ServeUser
  <2>5. QED
    BY <1>1, <1>2, <2>1, <2>3, <2>4, RunTyped
<1>7. CASE CallsTool(r) \/ Answers(r) \/ Fails(r)
  <2>1. UNCHANGED <<chan, rows, ptr, turn, home, future>>
    BY <1>7 DEF CallsTool, Answers, Fails, durable
  <2>2. pc' \in [Run -> RunPc] /\ astray' \in BOOLEAN
    BY <1>2, <1>4, <1>7 DEF CallsTool, Answers, Fails, Asks, LocalsOK, Astray
  <2>3. iters' \in [Run -> Nat]
    BY <1>2, <1>7 DEF CallsTool, Answers, Fails, LocalsOK
  <2>4. outcome' \in [Run -> {"none", "ok", "error", "cancelled"}]
    BY <1>2, <1>7 DEF CallsTool, Answers, Fails, LocalsOK
  <2>5. LocalsOK'
    BY <1>2, <2>1, <2>2, <2>3, <2>4 DEF LocalsOK
  <2>6. QED
    BY <1>1, <1>2, <2>1, <2>5, RunTyped
<1>8. CASE ServeTool(r) \/ ServeReply(r)
  <2>1. UNCHANGED <<chan, ptr, turn, iters, home, future>> /\ rows' = Written(Head(dbq))
    BY <1>8 DEF ServeTool, ServeReply
  <2>2. pc' \in [Run -> RunPc] /\ astray' \in BOOLEAN
    BY <1>2, <1>4, <1>8 DEF ServeTool, ServeReply, Proceeds, LocalsOK, Astray
  <2>3. outcome' \in [Run -> {"none", "ok", "error", "cancelled"}]
    BY <1>2, <1>8 DEF ServeTool, ServeReply, LocalsOK
  <2>4. LocalsOK'
    BY <1>2, <2>1, <2>2, <2>3 DEF LocalsOK
  <2>5. RowsOK(rows')
    BY <1>3, <1>4, <1>8, <2>1 DEF ServeTool, ServeReply
  <2>6. QED
    BY <1>1, <1>2, <2>1, <2>4, <2>5, RunTyped
<1>9. CASE ServeMark(r) \/ ServeClosing(r)
  <2>1. UNCHANGED <<chan, ptr, outcome, astray, future>> /\ rows' = Written(Head(dbq)) /\ Leaves(r, "over")
    BY <1>9 DEF ServeMark, ServeClosing
  <2>2. LocalsOK'
    BY <1>2, <2>1, LeavesTyped DEF LocalsOK
  <2>3. RowsOK(rows')
    BY <1>3, <1>4, <1>9, <2>1 DEF ServeMark, ServeClosing
  <2>4. QED
    BY <1>1, <1>2, <2>1, <2>2, <2>3, RunTyped
<1>10. CASE ServeNewChat(r)
  <2>1. UNCHANGED <<rows, outcome, future>> /\ Leaves(r, "over") /\ Created(AgentOf(r))
        /\ ptr' = [ptr EXCEPT ![AgentOf(r)] = NewId]
    BY <1>10 DEF ServeNewChat
  <2>2. ChanOK(chan') /\ NewId \in Conv
    BY <2>1, RunFacts, CreatedFacts DEF ChanOK
  <2>3. astray' \in BOOLEAN
    BY <1>2, <2>1 DEF Created, LocalsOK
  <2>4. LocalsOK'
    BY <1>2, <2>1, <2>3, LeavesTyped DEF LocalsOK
  <2>5. QED
    BY <1>1, <1>2, <2>1, <2>2, <2>4, RunTyped
<1>11. QED
  BY <1>5, <1>6, <1>7, <1>8, <1>9, <1>10 DEF RunStep

(* ... one that is cancelled, ...                                          *)
LEMMA CancelTyped ==
  ASSUME TurnsTypeOK, QueueInv, NEW r \in Run, Cancelled(r), future' \subseteq VoiceRun
  PROVE  TurnsTypeOK'
<1>1. RunMoves(r) /\ ptr' = ptr
  BY CancelMoves DEF Cancelled
<1>2. LocalsOK /\ ChanOK(chan) /\ RowsOK(rows) /\ ptr \in [Agent -> Conv]
  BY TypedNow
<1>3. RowsOK(rows')
  <2>1. CASE rows' = rows
    BY <1>2, <2>1
  <2>2. CASE dbq # <<>> /\ Head(dbq).who = r /\ rows' = Written(Head(dbq))
    BY <2>2, WrittenFacts
  <2>3. QED
    BY <2>1, <2>2 DEF Cancelled, Withdrawn, durable
<1>4. ChanOK(chan') /\ astray' \in BOOLEAN
  <2>1. CASE chan' = chan /\ (astray' = astray \/ astray' = (astray \/ Astray(r)))
    BY <1>2, <2>1 DEF LocalsOK, Astray
  <2>2. CASE Created(AgentOf(r))
    BY <1>2, <2>2, RunFacts, CreatedFacts DEF ChanOK, Created, LocalsOK
  <2>3. QED
    BY <2>1, <2>2 DEF Cancelled, Withdrawn, durable
<1>5. pc' \in [Run -> RunPc] /\ turn' \in [Run -> Nat] /\ iters' \in [Run -> Nat] /\ home' \in [Run -> Conv]
  <2>1. CASE \E how \in {"over", "dead"} : Leaves(r, how)
    BY <2>1, LeavesTyped
  <2>2. CASE pc' = [pc EXCEPT ![r] = "closing"] /\ UNCHANGED <<turn, iters, home>>
    BY <1>2, <2>2 DEF LocalsOK, RunPc
  <2>3. QED
    BY <2>1, <2>2 DEF Cancelled
<1>6. outcome' \in [Run -> {"none", "ok", "error", "cancelled"}]
  BY <1>2 DEF Cancelled, LocalsOK
<1>7. LocalsOK'
  BY <1>4, <1>5, <1>6 DEF LocalsOK
<1>8. QED
  BY <1>1, <1>2, <1>3, <1>4, <1>7, RunTyped

(* ... a handler, ...                                                      *)
LEMMA HandlerTyped ==
  ASSUME TurnsTypeOK, QueueInv, NEW h \in Handler, HandlerCall(h) \/ HandlerStep(h)
  PROVE  TurnsTypeOK'
<1>1. HandlerMoves(h)
  BY HandlerStepMoves
<1>2. LocalsOK /\ ChanOK(chan) /\ RowsOK(rows) /\ ptr \in [Agent -> Conv] /\ hconv[h] \in Conv
  BY TypedNow DEF TurnsTypeOK
<1>3. ChanOK(chan') /\ RowsOK(rows') /\ ptr' \in [Agent -> Conv] /\ astray' \in BOOLEAN
  <2>1. CASE HandlerCall(h)
    <3>1. UNCHANGED <<chan, rows, ptr, astray>>
      BY <2>1 DEF HandlerCall, New, Wipe, Resume, Delete, HandlerAsks, durable, runs
    <3>2. QED
      BY <1>2, <3>1 DEF LocalsOK
  <2>2. CASE ServeMeta(h)
    <3>1. UNCHANGED <<chan, rows, astray>> /\ ptr' \in [Agent -> Conv]
      BY <1>2, <2>2 DEF ServeMeta, durable, runs
    <3>2. QED
      BY <1>2, <3>1 DEF LocalsOK
  <2>3. CASE ServeDelete(h)
    <3>1. UNCHANGED <<ptr, astray>> /\ Deleted(hconv[h]) /\ rows' \subseteq rows
      BY <2>3 DEF ServeDelete, runs
    <3>2. ChanOK(chan') /\ RowsOK(rows')
      BY <3>1, DeletedFacts, SubsetOK DEF ChanOK
    <3>3. QED
      BY <1>2, <3>1, <3>2 DEF LocalsOK
  <2>4. CASE ServeWipe(h)
    <3>1. UNCHANGED <<chan, ptr, astray>> /\ rows' \subseteq rows
      BY <2>4 DEF ServeWipe, runs
    <3>2. QED
      BY <1>2, <3>1, SubsetOK DEF LocalsOK
  <2>5. CASE ServeCreate(h)
    <3>1. Created("ui") /\ ptr' = [ptr EXCEPT !["ui"] = NewId] /\ rows' = rows
      BY <2>5 DEF ServeCreate
    <3>2. ChanOK(chan') /\ NewId \in Conv
      BY <3>1, CreatedFacts DEF ChanOK, Agent
    <3>3. QED
      BY <1>2, <3>1, <3>2 DEF LocalsOK, Created
  <2>6. QED
    BY <2>1, <2>2, <2>3, <2>4, <2>5 DEF HandlerStep
<1>4. LocalsOK' /\ boots' \in Nat /\ dbq' \in Seq(Request)
  BY <1>1, <1>2, <1>3 DEF LocalsOK, HandlerMoves, Requeued, TurnsTypeOK
<1>5. /\ hpc' \in [Handler -> {"idle", "done"} \union Asked]
      /\ hkind' \in [Handler -> {"none", "new", "resume", "delete", "wipe"}]
      /\ hconv' \in [Handler -> Conv]
  BY <1>1 DEF HandlerMoves
<1>6. QED
  BY <1>3, <1>4, <1>5 DEF TurnsTypeOK, LocalsOK, ChanOK, RowsOK, Bounded

(* What a boot finds and makes.                                            *)
LEMMA RebootFacts ==
  ASSUME TurnsTypeOK, Reboot
  PROVE  /\ ChanOK(chan') /\ DOMAIN chan \subseteq DOMAIN chan' /\ ptr' \in [Agent -> Conv]
         /\ ptr'["ui"] \in DOMAIN chan'
         /\ rows' = Reconciled /\ dbq' = <<>> /\ future' = {}
         /\ \A r \in Run : pc'[r] = IF Live(r) THEN "dead" ELSE pc[r]
         /\ UNCHANGED <<outcome, astray>>
<1> DEFINE u == IF Latest("ui") = {} THEN NewId ELSE Max(Latest("ui"))
<1> DEFINE first == With(chan, u, "ui")
<1> DEFINE v == IF Latest("voice") # {} THEN Max(Latest("voice")) ELSE 1 + Max(DOMAIN first)
<1>1. ChanOK(chan) /\ DOMAIN chan \subseteq Nat
  BY TypedNow, OneInConv DEF ChanOK
<1>2. chan' = With(first, v, "voice") /\ ptr' = [a \in Agent |-> IF a = "ui" THEN u ELSE v]
  BY DEF Reboot
<1>3. ASSUME NEW a PROVE Latest(a) \subseteq DOMAIN chan /\ Latest(a) \subseteq Nat /\ Bounded(Latest(a))
  BY <1>1, BoundedSubset DEF Latest, ChanOK
<1>4. u \in Conv
  <2>1. CASE Latest("ui") = {}
    BY <1>1, <2>1, OnePastMax DEF NewId, ChanOK
  <2>2. CASE Latest("ui") # {}
    BY <1>1, <1>3, <2>2, MaxIs DEF ChanOK
  <2>3. QED
    BY <2>1, <2>2
<1> HIDE DEF u
<1>5. ASSUME NEW f, ChanOK(f), NEW c \in Conv, NEW a \in Agent
      PROVE  ChanOK(With(f, c, a)) /\ DOMAIN With(f, c, a) = DOMAIN f \union {c}
  <2>1. DOMAIN With(f, c, a) = DOMAIN f \union {c}
    BY DEF With
  <2>2. With(f, c, a) \in [DOMAIN f \union {c} -> Agent]
    BY <1>5 DEF With, ChanOK
  <2>3. Bounded(DOMAIN f \union {c})
    <3>1. PICK n \in Nat : \A x \in DOMAIN f : x <= n
      BY <1>5 DEF ChanOK, Bounded
    <3>2. c \in Nat /\ \A x \in DOMAIN f : x \in Nat
      BY <1>5, OneInConv DEF ChanOK
    <3>3. n + c \in Nat /\ c <= n + c /\ \A x \in DOMAIN f : x <= n + c
      BY <3>1, <3>2
    <3>4. QED
      BY <3>3 DEF Bounded
  <2>4. DOMAIN f \union {c} \subseteq Conv
    BY <1>5 DEF ChanOK
  <2>5. QED
    BY <2>1, <2>2, <2>3, <2>4 DEF ChanOK
<1>6. ChanOK(first) /\ DOMAIN first = DOMAIN chan \union {u}
  BY <1>1, <1>4, <1>5 DEF Agent
<1> HIDE DEF first
<1>7. v \in Conv
  <2>1. CASE Latest("voice") # {}
    BY <1>1, <1>3, <2>1, MaxIs DEF ChanOK
  <2>2. CASE Latest("voice") = {}
    <3>1. DOMAIN first \subseteq Nat /\ DOMAIN first # {} /\ Bounded(DOMAIN first)
      BY <1>6, OneInConv DEF ChanOK
    <3>2. Max(DOMAIN first) \in Nat
      BY <3>1, MaxIs
    <3>3. QED
      BY <2>2, <3>2 DEF Conv
  <2>3. QED
    BY <2>1, <2>2
<1> HIDE DEF v
<1>8. ChanOK(chan') /\ DOMAIN chan' = DOMAIN first \union {v}
  BY <1>2, <1>5, <1>6, <1>7 DEF Agent
<1>9. ptr' \in [Agent -> Conv] /\ ptr'["ui"] = u
  BY <1>2, <1>4, <1>7 DEF Agent
<1>10. /\ rows' = Reconciled /\ dbq' = <<>> /\ future' = {} /\ UNCHANGED <<outcome, astray>>
       /\ pc' = [r \in Run |-> IF Live(r) THEN "dead" ELSE pc[r]]
  BY DEF Reboot
<1>11. QED
  BY <1>6, <1>8, <1>9, <1>10

(* ... a reboot, ...                                                       *)
LEMMA RebootTyped ==
  ASSUME TurnsTypeOK, Reboot
  PROVE  TurnsTypeOK'
<1>1. ChanOK(chan') /\ ptr' \in [Agent -> Conv] /\ dbq' \in Seq(Request)
  BY RebootFacts
<1>2. RowsOK(rows')
  BY RebootFacts, ReconciledFacts, RestatusOK
<1>3. pc' \in [Run -> RunPc]
  BY DEF Reboot, TurnsTypeOK, RunPc
<1>4. turn' \in [Run -> Nat] /\ iters' \in [Run -> Nat] /\ home' \in [Run -> Conv]
  BY OneInConv DEF Reboot
<1>5. /\ outcome' \in [Run -> {"none", "ok", "error", "cancelled"}]
      /\ future' \subseteq VoiceRun /\ astray' \in BOOLEAN /\ boots' \in Nat
  BY DEF Reboot, TurnsTypeOK
<1>6. hpc' \in [Handler -> {"idle", "done"} \union Asked]
  BY DEF Reboot
<1>7. hkind' \in [Handler -> {"none", "new", "resume", "delete", "wipe"}] /\ hconv' \in [Handler -> Conv]
  BY OneInConv DEF Reboot
<1>8. QED
  BY <1>1, <1>2, <1>3, <1>4, <1>5, <1>6, <1>7 DEF TurnsTypeOK, ChanOK, RowsOK, Bounded

(* ... and so every step.                                                  *)
LEMMA NextTyped == TurnsTypeOK /\ QueueInv /\ [Next]_vars => TurnsTypeOK'
<1> SUFFICES ASSUME TurnsTypeOK, QueueInv, [Next]_vars PROVE TurnsTypeOK'
  OBVIOUS
<1>1. CASE Reconcile
  <2>1. RowsOK(rows')
    BY <1>1, ReconciledFacts, RestatusOK DEF Reconcile
  <2>2. boots' \in Nat /\ UNCHANGED <<chan, ptr, dbq, pc, turn, iters, outcome, home, astray, future, hpc, hkind, hconv>>
    BY <1>1 DEF Reconcile, runs, http, TurnsTypeOK
  <2>3. QED
    BY <2>1, <2>2 DEF TurnsTypeOK, RowsOK, Bounded
<1>2. CASE Reboot
  BY <1>2, RebootTyped
<1>3. ASSUME NEW r \in Run, UiMessage(r) \/ VoiceMessage(r) \/ RunStep(r) \/ Kill(r) \/ CancelVoice(r) \/ Forgotten(r)
      PROVE  TurnsTypeOK'
  <2>1. CASE UiMessage(r) \/ VoiceMessage(r)
    BY <2>1, BeginTyped
  <2>2. CASE RunStep(r)
    BY <2>2, StepTyped
  <2>3. CASE Kill(r) \/ CancelVoice(r)
    <3>1. future' \subseteq VoiceRun
      BY <2>3 DEF Kill, CancelVoice, TurnsTypeOK
    <3>2. QED
      BY <2>3, <3>1, CancelTyped DEF Kill, CancelVoice
  <2>4. CASE Forgotten(r)
    <3>1. /\ UNCHANGED <<chan, rows, ptr, dbq, pc, turn, iters, outcome, home, hpc, hkind, hconv, boots>>
          /\ future' = {} /\ astray' = TRUE
      BY <2>4 DEF Forgotten, durable, http
    <3>2. QED
      BY <3>1 DEF TurnsTypeOK, Bounded
  <2>5. QED
    BY <1>3, <2>1, <2>2, <2>3, <2>4
<1>4. ASSUME NEW h \in Handler, HandlerCall(h) \/ HandlerStep(h)
      PROVE  TurnsTypeOK'
  BY <1>4, HandlerTyped
<1>5. CASE UNCHANGED vars
  <2>1. UNCHANGED <<chan, rows, ptr, dbq, pc, turn, iters, outcome, home, astray, future, hpc, hkind, hconv, boots>>
    BY <1>5 DEF vars, durable, runs, http
  <2>2. QED
    BY <2>1 DEF TurnsTypeOK, Bounded
<1>6. QED
  BY <1>1, <1>2, <1>3, <1>4, <1>5 DEF Next

-----------------------------------------------------------------------------
(* The kinds of step a run takes.                                          *)

Writing(r) ==
  rows' = rows \/ (dbq # <<>> /\ Head(dbq).who = r /\ rows' = Written(Head(dbq)))

(* Its agent keeps track of it, or cancels it.                             *)
Tracked(r) == future' = future \/ (r \in future /\ future' = {})

Begins(r) ==
  /\ pc[r] = "idle" /\ pc'[r] \in {"next", "newchat"}
  /\ pc'[r] = "next" => home'[r] = ptr[AgentOf(r)]
  /\ UNCHANGED <<chan, rows, ptr, astray, outcome>>
  /\ \/ r \in UiRun /\ ~TurnRunning /\ future' = future
     \/ r \in VoiceRun /\ ~VoiceRunning /\ future' = {r}

Draws(r) ==
  /\ Serving("next", r) /\ pc[r] = "next" /\ pc'[r] = "user"
  /\ home'[r] = home[r] /\ turn'[r] = NextTurnId(Head(dbq).conv)
  /\ astray' = (astray \/ Astray(r))
  /\ UNCHANGED <<chan, rows, ptr, outcome, future>>

Carries(r) ==
  /\ pc[r] \in {"user", "stream", "tool", "reply"} /\ pc'[r] \in InTurn
  /\ turn'[r] = turn[r] /\ home'[r] = home[r]
  /\ Writing(r)
  /\ ~astray' => ~astray /\ (pc'[r] \in Waiting => ~Astray(r))
  /\ UNCHANGED <<chan, ptr>>
  /\ \/ future' = future /\ (pc'[r] = "closing" => r \in UiRun)
     \/ r \in future /\ future' = {} /\ pc'[r] = "closing"

Ends(r) ==
  /\ pc[r] \in InTurn \union {"next"} /\ pc'[r] \in {"over", "dead"}
  /\ Writing(r) /\ Tracked(r)
  /\ UNCHANGED <<chan, ptr, astray>>

Chats(r) ==
  /\ pc[r] = "newchat" /\ pc'[r] = "over"
  /\ UNCHANGED <<rows, outcome>>
  /\ Tracked(r)
  /\ \/ UNCHANGED <<chan, ptr, astray>>
     \/ /\ Created(AgentOf(r)) /\ Serving("newchat", r)
        /\ ptr' = ptr \/ ptr' = [ptr EXCEPT ![AgentOf(r)] = NewId]

RunActs(r) == UiMessage(r) \/ VoiceMessage(r) \/ RunStep(r) \/ Kill(r) \/ CancelVoice(r)

(* Every step of a run is of one of five kinds.                            *)
LEMMA RunKinds ==
  ASSUME TurnsTypeOK, QueueInv, NEW r \in Run, RunActs(r)
  PROVE  RunMoves(r) /\ (Begins(r) \/ Draws(r) \/ Carries(r) \/ Ends(r) \/ Chats(r))
<1>1. /\ pc \in [Run -> RunPc] /\ turn \in [Run -> Nat] /\ home \in [Run -> Conv]
      /\ outcome \in [Run -> {"none", "ok", "error", "cancelled"}]
  BY DEF TurnsTypeOK
<1>2. ASSUME NEW op, Serving(op, r)
      PROVE  pc[r] = op /\ dbq # <<>> /\ Head(dbq).who = r
  BY <1>2, WrittenFacts DEF Serving
<1>3. {"stream", "tool", "reply", "mark", "user", "closing"} \subseteq InTurn
      /\ {"over", "dead"} \intersect Waiting = {} /\ "stream" \notin Waiting
  BY DEF InTurn, Waiting
<1>4. ASSUME Leaves(r, "over") \/ Leaves(r, "dead")
      PROVE  pc'[r] \in {"over", "dead"}
  BY <1>1, <1>4 DEF Leaves
<1>5. CASE UiMessage(r) \/ VoiceMessage(r)
  <2>1. RunMoves(r)
    BY <1>5, BeginMoves DEF UiMessage, VoiceMessage
  <2>2. pc[r] = "idle" /\ pc'[r] \in {"next", "newchat"} /\ (pc'[r] = "next" => home'[r] = ptr[AgentOf(r)])
    BY <1>1, <1>5 DEF UiMessage, VoiceMessage, Called, CalledNewChat
  <2>3. UNCHANGED <<chan, rows, ptr, astray, outcome>>
    BY <1>5 DEF UiMessage, VoiceMessage, Called, CalledNewChat, durable
  <2>4. \/ r \in UiRun /\ ~TurnRunning /\ future' = future
        \/ r \in VoiceRun /\ ~VoiceRunning /\ future' = {r}
    BY <1>5 DEF UiMessage, VoiceMessage
  <2>5. QED
    BY <2>1, <2>2, <2>3, <2>4 DEF Begins
<1>6. CASE ServeNext(r)
  <2>1. RunMoves(r)
    BY <1>6, StepMoves DEF RunStep
  <2>2. Serving("next", r) /\ pc[r] = "next" /\ pc'[r] = "user"
    BY <1>1, <1>2, <1>6 DEF ServeNext, Proceeds
  <2>3. home'[r] = home[r] /\ turn'[r] = NextTurnId(Head(dbq).conv)
    BY <1>1, <1>6 DEF ServeNext
  <2>4. astray' = (astray \/ Astray(r)) /\ UNCHANGED <<chan, rows, ptr, outcome, future>>
    BY <1>6 DEF ServeNext, Proceeds, durable
  <2>5. QED
    BY <2>1, <2>2, <2>3, <2>4 DEF Draws
<1>7. CASE ServeUser(r)
  <2>1. RunMoves(r)
    BY <1>7, StepMoves DEF RunStep
  <2>2. pc[r] = "user" /\ Writing(r) /\ UNCHANGED <<chan, ptr, astray, future>>
    BY <1>2, <1>7 DEF ServeUser, Writing
  <2>3. CASE Exists(Head(dbq).conv)
    <3>1. pc'[r] = "stream" /\ turn' = turn /\ home' = home
      BY <1>1, <1>7, <2>3 DEF ServeUser
    <3>2. Carries(r)
      BY <1>3, <2>2, <3>1 DEF Carries
    <3>3. QED
      BY <2>1, <3>2
  <2>4. CASE ~Exists(Head(dbq).conv)
    BY <1>3, <1>4, <1>7, <2>1, <2>2, <2>4 DEF ServeUser, Ends, Tracked
  <2>5. QED
    BY <2>3, <2>4
<1>8. CASE CallsTool(r) \/ Answers(r) \/ Fails(r)
  <2>1. RunMoves(r)
    BY <1>8, StepMoves DEF RunStep
  <2>2. pc[r] = "stream" /\ pc'[r] \in {"tool", "reply", "mark"} /\ astray' = (astray \/ Astray(r))
    BY <1>1, <1>8 DEF CallsTool, Answers, Fails, Asks
  <2>3. UNCHANGED <<chan, rows, ptr, turn, home, future>>
    BY <1>8 DEF CallsTool, Answers, Fails, durable
  <2>4. Carries(r)
    BY <1>3, <2>2, <2>3 DEF Carries, Writing
  <2>5. QED
    BY <2>1, <2>4
<1>9. CASE ServeTool(r) \/ ServeReply(r)
  <2>1. RunMoves(r)
    BY <1>9, StepMoves DEF RunStep
  <2>2. pc[r] \in {"tool", "reply"} /\ Writing(r) /\ UNCHANGED <<chan, ptr, turn, home, future>>
    BY <1>2, <1>9 DEF ServeTool, ServeReply, Writing
  <2>3. \/ pc'[r] = "stream" /\ astray' = astray
        \/ pc'[r] = "mark" /\ astray' = (astray \/ Astray(r))
    BY <1>1, <1>9 DEF ServeTool, ServeReply, Proceeds
  <2>4. pc'[r] \in InTurn /\ pc'[r] # "closing"
    BY <1>3, <2>3
  <2>5. ~astray' => ~astray /\ (pc'[r] \in Waiting => ~Astray(r))
    BY <1>3, <2>3
  <2>6. Carries(r)
    BY <2>2, <2>4, <2>5 DEF Carries
  <2>7. QED
    BY <2>1, <2>6
<1>10. CASE ServeMark(r) \/ ServeClosing(r)
  <2>1. RunMoves(r)
    BY <1>10, StepMoves DEF RunStep
  <2>2. pc[r] \in {"mark", "closing"} /\ Writing(r) /\ UNCHANGED <<chan, ptr, astray, future>>
    BY <1>2, <1>10 DEF ServeMark, ServeClosing, Writing
  <2>3. pc'[r] \in {"over", "dead"}
    BY <1>4, <1>10 DEF ServeMark, ServeClosing
  <2>4. Ends(r)
    BY <1>3, <2>2, <2>3 DEF Ends, Tracked
  <2>5. QED
    BY <2>1, <2>4
<1>11. CASE ServeNewChat(r)
  <2>1. RunMoves(r)
    BY <1>11, StepMoves DEF RunStep
  <2>2. pc[r] = "newchat" /\ pc'[r] = "over"
    BY <1>1, <1>2, <1>11 DEF ServeNewChat, Leaves
  <2>3. QED
    BY <1>11, <2>1, <2>2 DEF ServeNewChat, Chats, Tracked
<1>12. CASE Kill(r) \/ CancelVoice(r)
  <2>1. Cancelled(r) /\ RunMoves(r) /\ ptr' = ptr
    BY <1>12, CancelMoves DEF Kill, CancelVoice, Cancelled
  <2>2. \/ r \in UiRun /\ future' = future
        \/ r \in future /\ future' = {}
    BY <1>12 DEF Kill, CancelVoice
  <2>3. CASE pc[r] \in {"stream", "tool", "reply"}
    <3>1. /\ pc' = [pc EXCEPT ![r] = "closing"] /\ Withdrawn(r)
          /\ astray' = (astray \/ Astray(r)) /\ UNCHANGED <<turn, home>>
      BY <2>1, <2>3 DEF Cancelled
    <3>2. Writing(r) /\ chan' = chan /\ pc'[r] = "closing"
      BY <1>1, <3>1 DEF Withdrawn, Writing, durable
    <3>3. Carries(r)
      BY <1>3, <2>1, <2>2, <2>3, <3>1, <3>2 DEF Carries
    <3>4. QED
      BY <2>1, <3>3
  <2>4. CASE pc[r] \in {"next", "user", "mark", "closing"}
    <3>1. Withdrawn(r) /\ (Leaves(r, "dead") \/ Leaves(r, "over")) /\ astray' = astray
      BY <2>1, <2>4 DEF Cancelled
    <3>2. Writing(r) /\ chan' = chan /\ pc'[r] \in {"over", "dead"}
      BY <1>4, <3>1 DEF Withdrawn, Writing, durable
    <3>3. Ends(r)
      BY <1>3, <2>1, <2>2, <2>4, <3>1, <3>2 DEF Ends, Tracked
    <3>4. QED
      BY <2>1, <3>3
  <2>5. CASE pc[r] = "newchat"
    <3>1. /\ Leaves(r, "over") /\ UNCHANGED <<rows, outcome>>
          /\ UNCHANGED <<chan, astray>> \/ (Serving("newchat", r) /\ Created(AgentOf(r)))
      BY <2>1, <2>5 DEF Cancelled
    <3>2. pc'[r] = "over"
      BY <1>1, <3>1 DEF Leaves
    <3>3. Chats(r)
      BY <2>1, <2>2, <2>5, <3>1, <3>2 DEF Chats, Tracked
    <3>4. QED
      BY <2>1, <3>3
  <2>6. QED
    BY <2>1, <2>3, <2>4, <2>5 DEF Cancelled
<1>13. QED
  BY <1>5, <1>6, <1>7, <1>8, <1>9, <1>10, <1>11, <1>12 DEF RunActs, RunStep

(* What a handler's step changes besides the queue.                        *)
LEMMA HandlerKinds ==
  ASSUME TurnsTypeOK, QueueInv, NEW h \in Handler, HandlerCall(h) \/ HandlerStep(h)
  PROVE  /\ HandlerMoves(h)
         /\ ptr'["voice"] = ptr["voice"]
         /\ ~astray' => ~astray
         /\ \A x \in rows' : x \in rows /\ (Exists(x.conv) => Exists(x.conv)')
         /\ \A x, y \in rows : x.conv = y.conv /\ x \in rows' => y \in rows'
<1>1. HandlerMoves(h)
  BY HandlerStepMoves
<1>2. ptr \in [Agent -> Conv] /\ "voice" \in Agent /\ "ui" # "voice"
  BY DEF TurnsTypeOK, Agent
<1>3. CASE HandlerCall(h)
  <2>1. UNCHANGED <<chan, rows, ptr, astray>>
    BY <1>3 DEF HandlerCall, New, Wipe, Resume, Delete, HandlerAsks, durable, runs
  <2>2. QED
    BY <1>1, <2>1 DEF Exists
<1>4. CASE ServeMeta(h)
  <2>1. UNCHANGED <<chan, rows, astray>> /\ ptr'["voice"] = ptr["voice"]
    BY <1>2, <1>4 DEF ServeMeta, durable, runs
  <2>2. QED
    BY <1>1, <2>1 DEF Exists
<1>5. CASE ServeDelete(h)
  <2>1. UNCHANGED <<ptr, astray>> /\ Deleted(hconv[h]) /\ rows' = {x \in rows : x.conv # hconv[h]}
    BY <1>5 DEF ServeDelete, runs
  <2>2. DOMAIN chan' = DOMAIN chan \ {hconv[h]}
    BY <2>1, DeletedFacts
  <2>3. QED
    BY <1>1, <2>1, <2>2 DEF Exists
<1>6. CASE ServeWipe(h)
  <2>1. UNCHANGED <<chan, ptr, astray>> /\ rows' = {}
    BY <1>6 DEF ServeWipe, runs
  <2>2. QED
    BY <1>1, <2>1
<1>7. CASE ServeCreate(h)
  <2>1. Created("ui") /\ ptr' = [ptr EXCEPT !["ui"] = NewId] /\ rows' = rows
    BY <1>7 DEF ServeCreate
  <2>2. DOMAIN chan \subseteq DOMAIN chan' /\ ptr'["voice"] = ptr["voice"]
    BY <1>2, <2>1, CreatedFacts DEF Agent
  <2>3. ~astray' => ~astray
    BY <2>1 DEF Created
  <2>4. QED
    BY <1>1, <2>1, <2>2, <2>3 DEF Exists
<1>8. QED
  BY <1>3, <1>4, <1>5, <1>6, <1>7 DEF HandlerStep

-----------------------------------------------------------------------------
(* Which turns are under way.                                              *)

(* Who is live, and on which agent.                                        *)
LEMMA LiveFacts ==
  ASSUME TurnsTypeOK
  PROVE  /\ \A r \in Run : pc[r] \in InTurn \union Waiting => Live(r)
         /\ \A r \in UiRun : r \in Run /\ r \notin VoiceRun /\ AgentOf(r) = "ui"
         /\ \A r \in VoiceRun : r \in Run /\ r \notin UiRun /\ AgentOf(r) = "voice"
         /\ future \subseteq VoiceRun
  BY TurnsAssumption DEF TurnsTypeOK, Live, InTurn, Waiting, Run, AgentOf

(* No voice run can be served beside a turn of its agent that is closing.  *)
LEMMA NoClosingBehind ==
  ASSUME TurnsTypeOK, QueueInv, LiveInv, ~astray, NEW r \in VoiceRun, NEW op, Serving(op, r),
         op # "closing", NEW v \in VoiceRun, v # r
  PROVE  pc[v] \notin InTurn \union {"next", "newchat"}
<1> SUFFICES ASSUME pc[v] \in InTurn \union {"next", "newchat"} PROVE FALSE
  OBVIOUS
<1>1. r \in Run /\ v \in Run
  BY DEF Run
<1>2. pc[r] = op /\ op \in Waiting /\ 1 \in DOMAIN dbq /\ dbq[1].who = r
  <2>1. pc[r] = op /\ 1 \in DOMAIN dbq /\ dbq[1].who = r /\ dbq[1] \in Request /\ dbq[1].op = op
    BY <1>1, RestOfTail, WrittenFacts DEF Serving, TurnsTypeOK
  <2>2. QED
    BY <1>1, <2>1 DEF Request, TurnsTypeOK, RunPc, Asked, Waiting
<1>3. Live(r) /\ Live(v)
  BY <1>1, <1>2, LiveFacts DEF InTurn, Waiting
<1>4. pc[v] = "closing"
  BY <1>2, <1>3 DEF LiveInv
<1>5. PICK j \in DOMAIN dbq : dbq[j].who = v
  BY <1>1, <1>4 DEF QueueInv, Waiting
<1>6. j < 1
  BY <1>2, <1>4, <1>5 DEF LiveInv
<1>7. j \in 1..Len(dbq)
  BY <1>5 DEF TurnsTypeOK
<1>8. QED
  BY <1>6, <1>7

(* The order of the queue outlives a step that leaves the runs alone.      *)
ClosingFirst ==
  \A i, j \in DOMAIN dbq :
    /\ dbq[i].who \in VoiceRun /\ pc[dbq[i].who] # "closing"
    /\ dbq[j].who \in VoiceRun /\ pc[dbq[j].who] = "closing"
    => j < i

(* Whoever moves, the requests of the others keep their order.             *)
LEMMA OrderKept ==
  ASSUME TurnsTypeOK, ClosingFirst, NEW p, Requeued(p),
         NEW i \in DOMAIN dbq', NEW j \in DOMAIN dbq', dbq'[i].who # p, dbq'[j].who # p,
         dbq'[i].who \in VoiceRun, pc[dbq'[i].who] # "closing",
         dbq'[j].who \in VoiceRun, pc[dbq'[j].who] = "closing"
  PROVE  j < i
<1>1. i \in Nat /\ j \in Nat /\ DOMAIN dbq \subseteq Nat
  <2>1. dbq' \in Seq(Request) /\ dbq \in Seq(Request)
    BY DEF Requeued, TurnsTypeOK
  <2>2. DOMAIN dbq' = 1..Len(dbq') /\ DOMAIN dbq = 1..Len(dbq)
    BY <2>1
  <2>3. QED
    BY <2>2
<1>2. i # j
  OBVIOUS
<1>3. ASSUME i < j PROVE FALSE
  <2>1. PICK j1, j2 \in DOMAIN dbq : j1 < j2 /\ dbq[j1] = dbq'[i] /\ dbq[j2] = dbq'[j]
    BY <1>3 DEF Requeued
  <2>2. j2 < j1
    BY <2>1 DEF ClosingFirst
  <2>3. QED
    BY <1>1, <2>1, <2>2
<1>4. QED
  BY <1>1, <1>2, <1>3

(* One turn runs per agent, but for a cancelled voice turn that is closing.*)
LEMMA LiveStep ==
  ASSUME TurnsTypeOK, QueueInv, LiveInv, [Next]_vars, QueueInv', TurnsTypeOK'
  PROVE  LiveInv'
<1>1. ~astray => ClosingFirst
  BY DEF LiveInv, ClosingFirst
<1>2. ASSUME NEW r \in Run, RunActs(r)
      PROVE  LiveInv'
  <2>1. RunMoves(r) /\ (Begins(r) \/ Draws(r) \/ Carries(r) \/ Ends(r) \/ Chats(r))
    BY <1>2, RunKinds
  <2>2. ~Begins(r) => Live(r)
    BY <2>1 DEF Draws, Carries, Ends, Chats, Live, InTurn
  <2>3. ~astray' => ~astray
    BY <2>1 DEF Begins, Draws, Carries, Ends, Chats, Created
  <2>4. \A s \in Run : s # r => pc'[s] = pc[s] /\ (Live(s)' <=> Live(s))
    BY <2>1 DEF RunMoves, Live
  <2>5. \A s, t \in UiRun : Live(s)' /\ Live(t)' => s = t
    <3>1. r \in UiRun /\ Begins(r) => \A s \in UiRun : ~Live(s)
      BY LiveFacts DEF Begins, TurnRunning, UiRunning
    <3>2. QED
      BY <2>2, <2>4, <3>1, LiveFacts DEF LiveInv
  <2>6. /\ \A s, t \in future' : s = t
        /\ \A s \in future' : pc'[s] # "closing"
    <3>1. CASE Begins(r)
      BY <2>4, <3>1, LiveFacts DEF LiveInv, Begins
    <3>2. CASE Carries(r)
      BY <2>4, <3>2, LiveFacts DEF LiveInv, Carries
    <3>3. CASE Draws(r) \/ Ends(r) \/ Chats(r)
      BY <2>4, <3>3, LiveFacts DEF LiveInv, Draws, Ends, Chats, Tracked
    <3>4. QED
      BY <2>1, <3>1, <3>2, <3>3
  <2>7. ASSUME ~astray', NEW s \in VoiceRun, Live(s)'
        PROVE  s \in future' \/ pc'[s] = "closing"
    <3>1. CASE Begins(r)
      <4>1. s # r => Live(s) /\ (s \in future \/ pc[s] = "closing")
        BY <2>3, <2>4, <2>7, LiveFacts DEF LiveInv
      <4>2. QED
        BY <2>4, <3>1, <4>1, LiveFacts DEF Begins, VoiceRunning
    <3>2. CASE ~Begins(r)
      <4>1. s \in future \/ pc[s] = "closing"
        BY <2>2, <2>3, <2>4, <2>7, <3>2, LiveFacts DEF LiveInv
      <4>2. CASE Draws(r)
        BY <2>4, <4>1, <4>2, LiveFacts DEF Draws
      <4>3. CASE Carries(r)
        <5>1. CASE future' = future /\ (pc'[r] = "closing" => r \in UiRun)
          BY <2>4, <4>1, <4>3, <5>1, LiveFacts DEF Carries
        <5>2. CASE r \in future /\ future' = {} /\ pc'[r] = "closing"
          BY <2>4, <4>1, <5>2, LiveFacts DEF LiveInv
        <5>3. QED
          BY <4>3, <5>1, <5>2 DEF Carries
      <4>4. CASE Ends(r) \/ Chats(r)
        <5>1. s # r
          BY <2>7, <4>4 DEF Ends, Chats, Live
        <5>2. QED
          BY <2>4, <4>1, <4>4, <5>1, LiveFacts DEF Ends, Chats, Tracked, LiveInv
      <4>5. QED
        BY <2>1, <3>2, <4>2, <4>3, <4>4
    <3>3. QED
      BY <3>1, <3>2
  <2>8. ~astray' => ClosingFirst'
    <3> SUFFICES ASSUME ~astray', NEW i \in DOMAIN dbq', NEW j \in DOMAIN dbq',
                        dbq'[i].who \in VoiceRun, pc'[dbq'[i].who] # "closing",
                        dbq'[j].who \in VoiceRun, pc'[dbq'[j].who] = "closing"
                 PROVE  j < i
      BY DEF ClosingFirst
    <3>1. /\ dbq'[i].who # r => pc[dbq'[i].who] = pc'[dbq'[i].who]
          /\ dbq'[j].who # r => pc[dbq'[j].who] = pc'[dbq'[j].who]
      BY <2>4, LiveFacts
    <3>2. CASE dbq'[i].who # r /\ dbq'[j].who # r
      BY <1>1, <2>1, <2>3, <3>1, <3>2, OrderKept DEF RunMoves
    <3>3. CASE dbq'[i].who = r
      <4>1. i = Len(dbq') /\ j # i /\ dbq' \in Seq(Request)
        BY <2>1, <3>3 DEF RunMoves, Requeued
      <4>2. DOMAIN dbq' = 1..Len(dbq') /\ Len(dbq') \in Nat
        BY <4>1
      <4>3. QED
        BY <4>1, <4>2
    <3>4. CASE dbq'[j].who = r /\ dbq'[i].who # r
      <4>1. dbq'[i] \in Request /\ dbq'[i].who \in Run
        BY LiveFacts DEF TurnsTypeOK
      <4>2. pc'[dbq'[i].who] = dbq'[i].op /\ pc'[dbq'[i].who] \in RunPc
        BY <4>1 DEF QueueInv, TurnsTypeOK
      <4>3. pc'[dbq'[i].who] \in Waiting
        BY <4>1, <4>2 DEF Request, Waiting, Asked, RunPc
      <4>4. \A s \in VoiceRun : s = dbq'[i].who => Live(s)'
        BY <4>3 DEF Live, Waiting
      <4>5. dbq'[i].who \in future'
        BY <2>7, <4>4
      <4>6. pc'[r] = "closing" /\ r \in VoiceRun
        BY <3>4
      <4>7. future' = {}
        BY <2>1, <4>6, LiveFacts DEF Begins, Draws, Carries, Ends, Chats
      <4>8. QED
        BY <4>5, <4>7
    <3>5. QED
      BY <3>2, <3>3, <3>4
  <2>9. QED
    BY <2>5, <2>6, <2>7, <2>8 DEF LiveInv, ClosingFirst
<1>3. ASSUME NEW h \in Handler, HandlerCall(h) \/ HandlerStep(h)
      PROVE  LiveInv'
  <2>1. HandlerMoves(h) /\ (~astray' => ~astray)
    BY <1>3, HandlerKinds
  <2>2. pc' = pc /\ future' = future /\ \A s \in Run : Live(s)' <=> Live(s)
    BY <2>1 DEF HandlerMoves, Live
  <2>3. ~astray' => ClosingFirst'
    <3> SUFFICES ASSUME ~astray', NEW i \in DOMAIN dbq', NEW j \in DOMAIN dbq',
                        dbq'[i].who \in VoiceRun, pc'[dbq'[i].who] # "closing",
                        dbq'[j].who \in VoiceRun, pc'[dbq'[j].who] = "closing"
                 PROVE  j < i
      BY DEF ClosingFirst
    <3>1. dbq'[i].who # h /\ dbq'[j].who # h
      BY TurnsAssumption
    <3>2. QED
      BY <1>1, <2>1, <2>2, <3>1, OrderKept DEF HandlerMoves
  <2>4. QED
    BY <2>1, <2>2, <2>3, LiveFacts DEF LiveInv, ClosingFirst
<1>4. CASE Reboot
  <2>1. future' = {} /\ dbq' = <<>> /\ \A r \in Run : pc'[r] = IF Live(r) THEN "dead" ELSE pc[r]
    BY <1>4, RebootFacts
  <2>2. \A r \in Run : ~Live(r)'
    BY <2>1 DEF Live
  <2>3. DOMAIN dbq' = {}
    BY <2>1
  <2>4. QED
    BY <2>1, <2>2, <2>3, LiveFacts DEF LiveInv
<1>5. CASE Reconcile \/ UNCHANGED vars
  <2>1. UNCHANGED <<pc, future, astray, dbq>>
    BY <1>5 DEF Reconcile, runs, vars
  <2>2. QED
    BY <2>1 DEF LiveInv, Live
<1>6. ASSUME NEW r \in Run, Forgotten(r)
      PROVE  LiveInv'
  BY <1>6 DEF Forgotten, LiveInv, Live
<1>7. QED
  BY <1>2, <1>3, <1>4, <1>5, <1>6 DEF Next, RunActs

-----------------------------------------------------------------------------
(* Where turns are at home.                                                *)

(* The requests of a run name the conversation its agent pointed at.       *)
LEMMA HomeQueue ==
  ASSUME TurnsTypeOK, QueueInv, HomeInv, NEW r \in Run, RunMoves(r), ~astray, TurnsTypeOK',
         pc'[r] \in Waiting \ {"newchat"} => home'[r] = ptr[AgentOf(r)]
  PROVE  \A i \in DOMAIN dbq' :
           dbq'[i].who \in Run /\ dbq'[i].op # "newchat" => dbq'[i].conv = home'[dbq'[i].who]
<1> SUFFICES ASSUME NEW i \in DOMAIN dbq', dbq'[i].who \in Run, dbq'[i].op # "newchat"
             PROVE  dbq'[i].conv = home'[dbq'[i].who]
  OBVIOUS
<1>1. CASE dbq'[i].who = r
  <2>1. dbq'[i] = Req(pc'[r], r) /\ dbq'[i] \in Request /\ pc'[r] \in RunPc
    BY <1>1 DEF RunMoves, TurnsTypeOK
  <2>2. dbq'[i].op = pc'[r] /\ dbq'[i].conv = ptr[AgentOf(r)]
    BY <2>1 DEF Req
  <2>3. pc'[r] \in Waiting \ {"newchat"}
    BY <2>1, <2>2 DEF Request, RunPc, Asked, Waiting
  <2>4. QED
    BY <1>1, <2>2, <2>3
<1>2. CASE dbq'[i].who # r
  <2>1. PICK j \in DOMAIN dbq : dbq[j] = dbq'[i]
    BY <1>2 DEF RunMoves, Requeued
  <2>2. QED
    BY <1>2, <2>1 DEF RunMoves, HomeInv
<1>3. QED
  BY <1>1, <1>2

(* A turn stays in the conversation that it began in.                      *)
LEMMA HomeStep ==
  ASSUME TurnsTypeOK, QueueInv, LiveInv, HomeInv, [Next]_vars, TurnsTypeOK'
  PROVE  HomeInv'
<1> SUFFICES ASSUME ~astray'
             PROVE  /\ \A i \in DOMAIN dbq' : dbq'[i].who \in Run /\ dbq'[i].op # "newchat"
                         => dbq'[i].conv = home'[dbq'[i].who]
                    /\ \A v \in VoiceRun : pc'[v] \in InTurn \union {"next"} => ptr'["voice"] = home'[v]
                    /\ \A u \in UiRun : pc'[u] \in InTurn => ptr'["voice"] # home'[u]
                    /\ \A v, w \in VoiceRun : pc'[v] \in InTurn /\ pc'[w] \in InTurn => v = w
  BY DEF HomeInv
<1>1. ASSUME NEW r \in Run, RunActs(r)
      PROVE  /\ \A i \in DOMAIN dbq' : dbq'[i].who \in Run /\ dbq'[i].op # "newchat"
                  => dbq'[i].conv = home'[dbq'[i].who]
             /\ \A v \in VoiceRun : pc'[v] \in InTurn \union {"next"} => ptr'["voice"] = home'[v]
             /\ \A u \in UiRun : pc'[u] \in InTurn => ptr'["voice"] # home'[u]
             /\ \A v, w \in VoiceRun : pc'[v] \in InTurn /\ pc'[w] \in InTurn => v = w
  <2>1. RunMoves(r) /\ (Begins(r) \/ Draws(r) \/ Carries(r) \/ Ends(r) \/ Chats(r))
    BY <1>1, RunKinds
  <2>2. \A s \in Run : s # r => pc'[s] = pc[s] /\ home'[s] = home[s]
    BY <2>1 DEF RunMoves
  <2>3. ~astray
    BY <2>1 DEF Begins, Draws, Carries, Ends, Chats, Created
  <2>4. "ui" # "voice" /\ {"next", "newchat", "over", "dead", "idle"} \intersect InTurn = {}
        /\ {"over", "dead"} \intersect Waiting = {}
    BY DEF InTurn, Waiting
  <2>5. CASE Begins(r)
    <3>1. pc'[r] \in {"next", "newchat"} /\ (pc'[r] = "next" => home'[r] = ptr[AgentOf(r)]) /\ ptr' = ptr
      BY <2>5 DEF Begins
    <3>2. \A i \in DOMAIN dbq' : dbq'[i].who \in Run /\ dbq'[i].op # "newchat"
            => dbq'[i].conv = home'[dbq'[i].who]
      BY <2>1, <2>3, <3>1, HomeQueue
    <3>3. QED
      BY <2>2, <2>3, <2>4, <3>1, <3>2, LiveFacts DEF HomeInv
  <2>6. CASE Draws(r)
    <3>1. pc'[r] = "user" /\ pc[r] = "next" /\ home'[r] = home[r] /\ ptr' = ptr /\ Serving("next", r)
      BY <2>6 DEF Draws
    <3>2. ptr[AgentOf(r)] = home[r] /\ ptr["ui"] # ptr["voice"]
      BY <2>6 DEF Draws, Astray
    <3>3. \A i \in DOMAIN dbq' : dbq'[i].who \in Run /\ dbq'[i].op # "newchat"
            => dbq'[i].conv = home'[dbq'[i].who]
      BY <2>1, <2>3, <3>1, <3>2, HomeQueue
    <3>4. r \in VoiceRun => \A v \in VoiceRun : v # r => pc[v] \notin InTurn
      BY <2>3, <3>1, NoClosingBehind
    <3>5. \A v \in VoiceRun : pc'[v] \in InTurn \union {"next"} => ptr'["voice"] = home'[v]
      BY <2>2, <2>3, <3>1, LiveFacts DEF HomeInv
    <3>6. \A u \in UiRun : pc'[u] \in InTurn => ptr'["voice"] # home'[u]
      BY <2>2, <2>3, <3>1, <3>2, LiveFacts DEF HomeInv
    <3>7. \A v, w \in VoiceRun : pc'[v] \in InTurn /\ pc'[w] \in InTurn => v = w
      BY <2>2, <2>3, <3>4, LiveFacts DEF HomeInv
    <3>8. QED
      BY <3>3, <3>5, <3>6, <3>7
  <2>7. CASE Carries(r)
    <3>1. pc'[r] \in InTurn /\ pc[r] \in InTurn /\ home'[r] = home[r] /\ ptr' = ptr
          /\ (pc'[r] \in Waiting => ptr[AgentOf(r)] = home[r])
      BY <2>7 DEF Carries, Astray, InTurn
    <3>2. \A i \in DOMAIN dbq' : dbq'[i].who \in Run /\ dbq'[i].op # "newchat"
            => dbq'[i].conv = home'[dbq'[i].who]
      BY <2>1, <2>3, <3>1, HomeQueue
    <3>3. \A s \in Run : home'[s] = home[s] /\ (pc'[s] \in InTurn <=> pc[s] \in InTurn)
                         /\ (pc'[s] = "next" => pc[s] = "next")
      BY <2>2, <2>4, <3>1
    <3>4. QED
      BY <2>3, <3>1, <3>2, <3>3, LiveFacts DEF HomeInv
  <2>8. CASE Ends(r)
    <3>1. pc'[r] \in {"over", "dead"} /\ ptr' = ptr
      BY <2>8 DEF Ends
    <3>2. \A i \in DOMAIN dbq' : dbq'[i].who \in Run /\ dbq'[i].op # "newchat"
            => dbq'[i].conv = home'[dbq'[i].who]
      BY <2>1, <2>3, <2>4, <3>1, HomeQueue
    <3>3. QED
      BY <2>2, <2>3, <2>4, <3>1, <3>2, LiveFacts DEF HomeInv
  <2>9. CASE Chats(r)
    <3>1. pc[r] = "newchat" /\ pc'[r] = "over"
      BY <2>9 DEF Chats
    <3>2. \A i \in DOMAIN dbq' : dbq'[i].who \in Run /\ dbq'[i].op # "newchat"
            => dbq'[i].conv = home'[dbq'[i].who]
      BY <2>1, <2>3, <2>4, <3>1, HomeQueue
    <3>3. CASE ptr'["voice"] = ptr["voice"]
      BY <2>2, <2>3, <2>4, <3>1, <3>2, <3>3, LiveFacts DEF HomeInv
    <3>4. CASE ptr'["voice"] # ptr["voice"]
      <4>1. Created(AgentOf(r)) /\ Serving("newchat", r) /\ ptr' = [ptr EXCEPT ![AgentOf(r)] = NewId]
        BY <2>9, <3>4 DEF Chats
      <4>2. ptr \in [Agent -> Conv] /\ "voice" \in Agent
        BY DEF TurnsTypeOK, Agent
      <4>3. r \in VoiceRun /\ ptr'["voice"] = NewId
        BY <2>4, <3>4, <4>1, <4>2, LiveFacts DEF Run
      <4>4. \A v \in VoiceRun : v # r => pc[v] \notin InTurn \union {"next"}
        BY <2>3, <4>1, <4>3, NoClosingBehind
      <4>5. \A u \in UiRun : pc[u] \in InTurn => home[u] # NewId
        BY <4>1, LiveFacts DEF Created, Drawn, InTurn
      <4>6. QED
        BY <2>2, <2>4, <3>1, <3>2, <4>3, <4>4, <4>5, LiveFacts
    <3>5. QED
      BY <3>3, <3>4
  <2>10. QED
    BY <2>1, <2>5, <2>6, <2>7, <2>8, <2>9
<1>2. ASSUME NEW h \in Handler, HandlerCall(h) \/ HandlerStep(h)
      PROVE  HomeInv'
  <2>1. HandlerMoves(h) /\ ptr'["voice"] = ptr["voice"] /\ ~astray /\ h \notin Run
    BY <1>2, HandlerKinds, TurnsAssumption DEF Run
  <2>2. pc' = pc /\ home' = home
    BY <2>1 DEF HandlerMoves
  <2>3. \A i \in DOMAIN dbq' : dbq'[i].who \in Run => \E j \in DOMAIN dbq : dbq[j] = dbq'[i]
    BY <2>1 DEF HandlerMoves, Requeued
  <2>4. QED
    BY <2>1, <2>2, <2>3 DEF HomeInv
<1>3. CASE Reboot
  <2>1. dbq' = <<>> /\ \A r \in Run : pc'[r] = IF Live(r) THEN "dead" ELSE pc[r]
    BY <1>3, RebootFacts
  <2>2. \A r \in Run : pc'[r] \notin InTurn \union {"next"}
    BY <2>1 DEF Live, InTurn
  <2>3. DOMAIN dbq' = {}
    BY <2>1
  <2>4. QED
    BY <2>2, <2>3, LiveFacts
<1>4. CASE Reconcile \/ UNCHANGED vars
  <2>1. UNCHANGED <<pc, home, ptr, astray, dbq>>
    BY <1>4 DEF Reconcile, runs, vars
  <2>2. QED
    BY <2>1 DEF HomeInv
<1>5. ASSUME NEW r \in Run, Forgotten(r)
      PROVE  FALSE
  BY <1>5 DEF Forgotten
<1>6. QED
  BY <1>1, <1>2, <1>3, <1>4, <1>5 DEF Next, RunActs, HomeInv

-----------------------------------------------------------------------------
(* The UI agent's pointer.                                                 *)

(* The UI agent's conversation is there.                                   *)
LEMMA PointerStep ==
  ASSUME TurnsTypeOK, QueueInv, UiPointerLive, [Next]_vars
  PROVE  UiPointerLive'
<1>0. ptr \in [Agent -> Conv] /\ "ui" \in Agent
  BY DEF TurnsTypeOK, Agent
<1>1. ASSUME NEW r \in Run, RunActs(r)
      PROVE  UiPointerLive'
  <2>1. RunMoves(r) /\ (Begins(r) \/ Draws(r) \/ Carries(r) \/ Ends(r) \/ Chats(r))
    BY <1>1, RunKinds
  <2>2. hpc' = hpc
    BY <2>1 DEF RunMoves, http
  <2>3. CASE UNCHANGED <<chan, ptr>>
    BY <2>2, <2>3 DEF UiPointerLive, Exists
  <2>4. CASE Created(AgentOf(r)) /\ (ptr' = ptr \/ ptr' = [ptr EXCEPT ![AgentOf(r)] = NewId])
    <3>1. DOMAIN chan \subseteq DOMAIN chan' /\ NewId \in DOMAIN chan'
      BY <2>4, RunFacts, CreatedFacts
    <3>2. ptr'["ui"] = ptr["ui"] \/ ptr'["ui"] = NewId
      BY <1>0, <2>4
    <3>3. QED
      BY <2>2, <3>1, <3>2 DEF UiPointerLive, Exists
  <2>5. QED
    BY <2>1, <2>3, <2>4 DEF Begins, Draws, Carries, Ends, Chats
<1>2. ASSUME NEW h \in Handler, HandlerCall(h) \/ HandlerStep(h)
      PROVE  UiPointerLive'
  <2>1. HandlerMoves(h)
    BY <1>2, HandlerStepMoves
  <2>2. /\ \A g \in Handler : g # h => hpc'[g] = hpc[g]
        /\ hpc \in [Handler -> {"idle", "done"} \union Asked]
    BY <2>1 DEF HandlerMoves, TurnsTypeOK
  <2>3. ASSUME NEW op, Serving(op, h) PROVE hpc[h] = op
    BY <2>3, RestOfTail DEF Serving, QueueInv, TurnsTypeOK
  <2>4. CASE HandlerCall(h)
    <3>1. UNCHANGED <<chan, ptr>> /\ hpc[h] = "idle"
      BY <2>4 DEF HandlerCall, New, Wipe, Resume, Delete, HandlerAsks, durable
    <3>2. QED
      BY <2>2, <3>1 DEF UiPointerLive, Exists
  <2>5. CASE ServeMeta(h)
    <3>1. chan' = chan /\ hpc[h] = "meta"
      BY <2>3, <2>5 DEF ServeMeta, durable
    <3>2. ptr'["ui"] = ptr["ui"] \/ ptr'["ui"] \in DOMAIN chan
      BY <1>0, <2>5 DEF ServeMeta, Exists
    <3>3. QED
      BY <2>2, <3>1, <3>2 DEF UiPointerLive, Exists
  <2>6. CASE ServeDelete(h)
    <3>1. ptr' = ptr /\ hpc[h] = "delete" /\ DOMAIN chan' = DOMAIN chan \ {hconv[h]}
      BY <2>3, <2>6, DeletedFacts DEF ServeDelete
    <3>2. CASE ptr["ui"] = hconv[h]
      <4>1. HandlerProceeds(h, "create")
        BY <2>6, <3>2 DEF ServeDelete
      <4>2. hpc'[h] = "create"
        BY <2>2, <4>1 DEF HandlerProceeds
      <4>3. QED
        BY <4>2 DEF UiPointerLive
    <3>3. CASE ptr["ui"] # hconv[h]
      BY <2>2, <3>1, <3>3 DEF UiPointerLive, Exists
    <3>4. QED
      BY <3>2, <3>3
  <2>7. CASE ServeWipe(h)
    <3>1. hpc'[h] = "create"
      BY <2>2, <2>7 DEF ServeWipe, HandlerProceeds
    <3>2. QED
      BY <3>1 DEF UiPointerLive
  <2>8. CASE ServeCreate(h)
    <3>1. NewId \in DOMAIN chan'
      BY <2>8, CreatedFacts DEF ServeCreate, Agent
    <3>2. ptr'["ui"] = NewId
      BY <1>0, <2>8 DEF ServeCreate
    <3>3. QED
      BY <3>1, <3>2 DEF UiPointerLive, Exists
  <2>9. QED
    BY <1>2, <2>4, <2>5, <2>6, <2>7, <2>8 DEF HandlerStep
<1>3. CASE Reboot
  BY <1>3, RebootFacts DEF UiPointerLive, Exists
<1>4. CASE Reconcile \/ UNCHANGED vars
  <2>1. UNCHANGED <<chan, ptr, hpc>>
    BY <1>4 DEF Reconcile, vars, http, durable
  <2>2. QED
    BY <2>1 DEF UiPointerLive, Exists
<1>5. ASSUME NEW r \in Run, Forgotten(r)
      PROVE  UiPointerLive'
  BY <1>5 DEF Forgotten, UiPointerLive, Exists, durable, http
<1>6. QED
  BY <1>1, <1>2, <1>3, <1>4, <1>5 DEF Next, RunActs

-----------------------------------------------------------------------------
(* The rows.                                                               *)

(* Two turns that have drawn an id are not at home together.               *)
LEMMA Apart ==
  ASSUME TurnsTypeOK, LiveInv, HomeInv, ~astray,
         NEW r \in Run, NEW s \in Run, r # s, pc[r] \in InTurn, pc[s] \in InTurn
  PROVE  home[r] # home[s]
<1>1. Live(r) /\ Live(s)
  BY LiveFacts
<1>2. CASE r \in UiRun /\ s \in UiRun
  BY <1>1, <1>2 DEF LiveInv
<1>3. CASE r \in VoiceRun /\ s \in VoiceRun
  BY <1>3 DEF HomeInv
<1>4. CASE r \in UiRun /\ s \in VoiceRun
  BY <1>4 DEF HomeInv
<1>5. CASE r \in VoiceRun /\ s \in UiRun
  BY <1>5 DEF HomeInv
<1>6. QED
  BY <1>2, <1>3, <1>4, <1>5 DEF Run

Inserts(r, y) ==
  /\ pc[r] \in {"user", "tool", "reply", "closing"}
  /\ rows' = rows \union {y}
  /\ y.by = r /\ y.status = "ok" /\ y.turn = turn[r] /\ Exists(y.conv)
  /\ ~astray => y.conv = home[r]
  /\ pc[r] \in {"reply", "closing"} => y.role = "assistant"

Marks(r, st) ==
  /\ pc[r] = "mark" /\ st = (IF outcome[r] = "ok" THEN "ok" ELSE "failed")
  /\ Restatus(rows')
  /\ ~astray => \A y \in rows' :
       \/ y \in rows /\ ~(y.conv = home[r] /\ y.turn = turn[r])
       \/ y.conv = home[r] /\ y.turn = turn[r] /\ y.status = st

(* What a run writes: nothing, a row of its own, or the status of its rows.*)
LEMMA WriteKinds ==
  ASSUME TurnsTypeOK, QueueInv, HomeInv, NEW r \in Run, Writing(r), pc[r] \in InTurn \union {"next"}
  PROVE  \/ rows' = rows
         \/ \E y \in Row : Inserts(r, y)
         \/ \E st \in {"ok", "failed"} : Marks(r, st)
<1>1. CASE rows' = rows
  BY <1>1
<1>2. CASE dbq # <<>> /\ Head(dbq).who = r /\ rows' = Written(Head(dbq))
  <2>1. 1 \in DOMAIN dbq /\ Head(dbq) = dbq[1] /\ Head(dbq).op = pc[r]
    BY <1>2, RestOfTail, WrittenFacts DEF TurnsTypeOK
  <2>2. ~astray => Head(dbq).conv = home[r]
    BY <1>2, <2>1 DEF HomeInv, InTurn
  <2>3. CASE pc[r] \in {"user", "tool", "reply", "closing"}
    <3>1. CASE Exists(Head(dbq).conv)
      <4> DEFINE y == RowOf(Head(dbq))
      <4>1. rows' = rows \union {y}
        BY <1>2, <2>3, <3>1, WrittenFacts
      <4>2. y \in Row /\ y.by = r /\ y.conv = Head(dbq).conv /\ y.turn = turn[r] /\ y.status = "ok"
            /\ (pc[r] \in {"reply", "closing"} => y.role = "assistant")
        BY <1>2, <2>1, RowOfFacts
      <4> HIDE DEF y
      <4>3. Inserts(r, y)
        BY <2>2, <2>3, <3>1, <4>1, <4>2 DEF Inserts
      <4>4. QED
        BY <4>2, <4>3
    <3>2. CASE ~Exists(Head(dbq).conv)
      BY <1>2, <2>3, <3>2, WrittenFacts
    <3>3. QED
      BY <3>1, <3>2
  <2>4. CASE pc[r] = "mark"
    <3> DEFINE st == IF outcome[r] = "ok" THEN "ok" ELSE "failed"
    <3>1. rows' = Marked(Head(dbq).conv, turn[r], st) /\ st \in {"ok", "failed"}
      BY <1>2, <2>4, WrittenFacts
    <3> HIDE DEF st
    <3>2. /\ Restatus(rows')
          /\ \A y \in rows' :
               \/ y \in rows /\ ~(y.conv = Head(dbq).conv /\ y.turn = turn[r])
               \/ y.conv = Head(dbq).conv /\ y.turn = turn[r] /\ y.status = st
      BY <3>1, MarkedFacts
    <3>3. Marks(r, st)
      BY <2>2, <2>4, <3>2 DEF Marks, st
    <3>4. QED
      BY <3>1, <3>3
  <2>5. CASE pc[r] = "next"
    BY <1>2, <2>5, WrittenFacts
  <2>6. pc[r] # "stream"
    <3>1. Head(dbq) \in Request
      BY <1>2, RestOfTail DEF TurnsTypeOK
    <3>2. QED
      BY <2>1, <3>1 DEF Request, Waiting, Asked
  <2>7. QED
    BY <2>3, <2>4, <2>5, <2>6 DEF InTurn
<1>3. QED
  BY <1>1, <1>2 DEF Writing

(* Where the rows stand: as they did, one row more, or some statuses       *)
(* changed.                                                                *)
LEMMA RestatusKeeps ==
  ASSUME TurnsTypeOK, RowInv, NoSharedTurn, Restatus(rows'), ~astray' => ~astray,
         DOMAIN chan \subseteq DOMAIN chan',
         \A r \in Run : /\ pc'[r] \in InTurn => pc[r] \in InTurn /\ home'[r] = home[r] /\ turn'[r] = turn[r]
                        /\ pc[r] \notin {"idle", "next", "newchat"} => pc'[r] \notin {"idle", "next", "newchat"}
  PROVE  RowInv' /\ NoSharedTurn'
<1>1. \A y \in rows' : \E x \in rows : x.by = y.by /\ x.conv = y.conv /\ x.turn = y.turn
  BY DEF Restatus, SameTurn
<1>2. \A x \in rows : x.by \in Run
  BY DEF TurnsTypeOK, Row
<1>3. ASSUME NEW y \in rows'
      PROVE  Exists(y.conv)' /\ pc'[y.by] \notin {"idle", "next", "newchat"}
  <2>1. PICK x \in rows : x.by = y.by /\ x.conv = y.conv /\ x.turn = y.turn
    BY <1>1
  <2>2. x.conv \in DOMAIN chan /\ pc[x.by] \notin {"idle", "next", "newchat"}
    BY DEF RowInv, Exists
  <2>3. y.conv \in DOMAIN chan' /\ pc'[x.by] \notin {"idle", "next", "newchat"}
    BY <1>2, <2>1, <2>2
  <2>4. QED
    BY <2>1, <2>3 DEF Exists
<1>4. ASSUME ~astray', NEW y \in rows', NEW r \in Run, pc'[r] \in InTurn
      PROVE  y.by = r <=> y.conv = home'[r] /\ y.turn = turn'[r]
  <2>1. PICK x \in rows : x.by = y.by /\ x.conv = y.conv /\ x.turn = y.turn
    BY <1>1
  <2>2. ~astray /\ pc[r] \in InTurn /\ home'[r] = home[r] /\ turn'[r] = turn[r]
    BY <1>4
  <2>3. x.by = r <=> x.conv = home[r] /\ x.turn = turn[r]
    BY <2>2 DEF RowInv
  <2>4. QED
    BY <2>1, <2>2, <2>3
<1>5. ASSUME ~astray', NEW y \in rows', NEW z \in rows', SameTurn(y, z)
      PROVE  y.by = z.by
  <2>1. PICK x \in rows : x.by = y.by /\ x.conv = y.conv /\ x.turn = y.turn
    BY <1>1
  <2>2. PICK w \in rows : w.by = z.by /\ w.conv = z.conv /\ w.turn = z.turn
    BY <1>1
  <2>3. QED
    BY <1>5, <2>1, <2>2 DEF NoSharedTurn, SameTurn
<1>6. QED
  BY <1>3, <1>4, <1>5 DEF RowInv, NoSharedTurn

(* Rows of two turns never meet under one id.                              *)
LEMMA RowStep ==
  ASSUME TurnsTypeOK, QueueInv, LiveInv, HomeInv, RowInv, NoSharedTurn, [Next]_vars
  PROVE  RowInv' /\ NoSharedTurn'
<1>0. /\ \A x \in rows : x.by \in Run /\ x.turn \in Nat
      /\ {"idle", "next", "newchat", "over", "dead"} \intersect InTurn = {}
  BY DEF TurnsTypeOK, Row, TurnId, InTurn
<1>1. Restatus(rows)
  BY DEF Restatus, TurnsTypeOK, SameTurn
<1>2. ASSUME NEW r \in Run, RunActs(r)
      PROVE  RowInv' /\ NoSharedTurn'
  <2>1. RunMoves(r) /\ (Begins(r) \/ Draws(r) \/ Carries(r) \/ Ends(r) \/ Chats(r))
    BY <1>2, RunKinds
  <2>2. \A s \in Run : s # r => pc'[s] = pc[s] /\ home'[s] = home[s] /\ turn'[s] = turn[s]
    BY <2>1 DEF RunMoves
  <2>3. ~astray' => ~astray
    BY <2>1 DEF Begins, Draws, Carries, Ends, Chats, Created
  <2>4. CASE Begins(r)
    <3>1. pc'[r] \in {"next", "newchat"} /\ pc[r] = "idle" /\ rows' = rows /\ chan' = chan
      BY <2>4 DEF Begins
    <3>2. \A x \in rows : x.by # r
      BY <3>1 DEF RowInv
    <3>3. \A x \in rows : pc'[x.by] = pc[x.by]
      BY <1>0, <2>2, <3>2
    <3>4. RowInv'
      BY <1>0, <2>2, <2>3, <3>1, <3>2, <3>3 DEF RowInv, Exists
    <3>5. QED
      BY <2>3, <3>1, <3>4 DEF NoSharedTurn
  <2>5. CASE Draws(r)
    <3>1. /\ pc[r] = "next" /\ pc'[r] = "user" /\ home'[r] = home[r]
          /\ turn'[r] = NextTurnId(Head(dbq).conv) /\ rows' = rows /\ chan' = chan
          /\ Serving("next", r)
      BY <2>5 DEF Draws
    <3>2. \A x \in rows : x.by # r
      BY <3>1 DEF RowInv
    <3>3. ~astray => Head(dbq).conv = home[r]
      BY <3>1, RestOfTail DEF Serving, HomeInv, TurnsTypeOK
    <3>4. ~astray => \A x \in rows : x.conv = home[r] => x.turn < turn'[r] /\ turn'[r] \in Nat
      BY <3>1, <3>3, DrawnFacts
    <3>5. ~astray => \A x \in rows : ~(x.conv = home'[r] /\ x.turn = turn'[r])
      BY <1>0, <3>1, <3>4
    <3>6. \A x \in rows : pc'[x.by] = pc[x.by]
      BY <1>0, <2>2, <3>2
    <3>7. RowInv'
      BY <2>2, <2>3, <3>1, <3>2, <3>5, <3>6 DEF RowInv, Exists
    <3>8. QED
      BY <2>3, <3>1, <3>7 DEF NoSharedTurn
  <2>6. CASE Carries(r) \/ Ends(r)
    <3>1. /\ pc[r] \in InTurn \union {"next"} /\ Writing(r) /\ chan' = chan
          /\ pc'[r] \in InTurn \union {"over", "dead"}
          /\ pc'[r] \in InTurn => pc[r] \in InTurn /\ home'[r] = home[r] /\ turn'[r] = turn[r]
      BY <1>0, <2>6 DEF Carries, Ends, InTurn
    <3>2. \A s \in Run : /\ pc'[s] \in InTurn => pc[s] \in InTurn /\ home'[s] = home[s] /\ turn'[s] = turn[s]
                         /\ pc[s] \notin {"idle", "next", "newchat"} => pc'[s] \notin {"idle", "next", "newchat"}
      BY <1>0, <2>2, <3>1
    <3>3. CASE Restatus(rows')
      BY <2>3, <3>1, <3>2, <3>3, RestatusKeeps
    <3>4. ASSUME NEW y \in Row, Inserts(r, y)
          PROVE  RowInv' /\ NoSharedTurn'
      <4>1. rows' = rows \union {y} /\ y.by = r /\ y.turn = turn[r] /\ Exists(y.conv) /\ pc[r] \in InTurn
            /\ (~astray => y.conv = home[r])
        BY <3>4 DEF Inserts, InTurn
      <4>2. pc'[r] \notin {"idle", "next", "newchat"}
        BY <1>0, <3>1
      <4>3. \A x \in rows' : Exists(x.conv)' /\ pc'[x.by] \notin {"idle", "next", "newchat"}
        BY <1>0, <3>1, <3>2, <4>1, <4>2 DEF RowInv, Exists
      <4>4. ASSUME ~astray', NEW s \in Run, pc'[s] \in InTurn
            PROVE  \A x \in rows' : x.by = s <=> x.conv = home'[s] /\ x.turn = turn'[s]
        <5>0. ~astray /\ pc[s] \in InTurn /\ home'[s] = home[s] /\ turn'[s] = turn[s]
          BY <2>3, <3>2, <4>4
        <5>1. \A x \in rows : x.by = s <=> x.conv = home'[s] /\ x.turn = turn'[s]
          BY <5>0 DEF RowInv
        <5>2. s = r => y.conv = home'[s] /\ y.turn = turn'[s]
          BY <4>1, <5>0
        <5>3. s # r => y.conv # home'[s]
          <6>1. s # r => home[r] # home[s]
            BY <4>1, <5>0, Apart
          <6>2. QED
            BY <4>1, <5>0, <6>1
        <5>4. QED
          BY <4>1, <5>1, <5>2, <5>3
      <4>5. RowInv'
        BY <4>3, <4>4 DEF RowInv
      <4>6. ~astray' => \A x \in rows : SameTurn(x, y) => x.by = r
        BY <2>3, <4>1 DEF RowInv, SameTurn
      <4>7. NoSharedTurn'
        BY <2>3, <4>1, <4>6 DEF NoSharedTurn, SameTurn
      <4>8. QED
        BY <4>5, <4>7
    <3>5. QED
      BY <1>1, <3>1, <3>3, <3>4, WriteKinds DEF Marks
  <2>7. CASE Chats(r)
    <3>1. pc[r] = "newchat" /\ pc'[r] = "over" /\ rows' = rows
      BY <2>7 DEF Chats
    <3>2. DOMAIN chan \subseteq DOMAIN chan'
      BY <2>7, RunFacts, CreatedFacts DEF Chats
    <3>3. \A s \in Run : /\ pc'[s] \in InTurn => pc[s] \in InTurn /\ home'[s] = home[s] /\ turn'[s] = turn[s]
                         /\ pc[s] \notin {"idle", "next", "newchat"} => pc'[s] \notin {"idle", "next", "newchat"}
      BY <1>0, <2>2, <3>1
    <3>4. QED
      BY <1>1, <2>3, <3>1, <3>2, <3>3, RestatusKeeps
  <2>8. QED
    BY <2>1, <2>4, <2>5, <2>6, <2>7
<1>3. ASSUME NEW h \in Handler, HandlerCall(h) \/ HandlerStep(h)
      PROVE  RowInv' /\ NoSharedTurn'
  <2>1. /\ HandlerMoves(h)
        /\ ~astray' => ~astray
        /\ \A x \in rows' : x \in rows /\ (Exists(x.conv) => Exists(x.conv)')
    BY <1>3, HandlerKinds
  <2>2. UNCHANGED <<pc, turn, home>>
    BY <2>1 DEF HandlerMoves
  <2>3. RowInv'
    BY <2>1, <2>2 DEF RowInv
  <2>4. NoSharedTurn'
    BY <2>1 DEF NoSharedTurn
  <2>5. QED
    BY <2>3, <2>4
<1>4. CASE Reboot
  <2>1. /\ DOMAIN chan \subseteq DOMAIN chan' /\ rows' = Reconciled /\ astray' = astray
        /\ \A r \in Run : pc'[r] = IF Live(r) THEN "dead" ELSE pc[r]
    BY <1>4, RebootFacts
  <2>2. Restatus(rows')
    BY <2>1, ReconciledFacts
  <2>3. \A r \in Run : pc'[r] \notin InTurn
                      /\ (pc[r] \notin {"idle", "next", "newchat"} => pc'[r] \notin {"idle", "next", "newchat"})
    BY <2>1 DEF Live, InTurn
  <2>4. QED
    BY <2>1, <2>2, <2>3, RestatusKeeps
<1>5. CASE Reconcile \/ UNCHANGED vars \/ \E r \in Run : Forgotten(r)
  <2>1. UNCHANGED <<chan, pc, home, turn>> /\ (~astray' => ~astray)
    BY <1>5 DEF Reconcile, runs, vars, durable, Forgotten
  <2>2. Restatus(rows')
    BY <1>1, <1>5, ReconciledFacts DEF Reconcile, vars, durable, Forgotten
  <2>3. QED
    BY <2>1, <2>2, RestatusKeeps
<1>6. QED
  BY <1>2, <1>3, <1>4, <1>5 DEF Next, RunActs

-----------------------------------------------------------------------------
(* What the rows show of an outcome.                                       *)

(* An answer stays one.                                                    *)
LEMMA AnswerKept ==
  ASSUME NEW x, NEW y, SameTurn(x, y), ~Unanswered(x),
         \A z \in rows : z.conv = x.conv =>
           \E w \in rows' : w.role = z.role /\ w.conv = z.conv /\ w.turn = z.turn
  PROVE  ~Unanswered(y)'
<1>1. PICK z \in rows : z.role = "assistant" /\ z.conv = x.conv /\ z.turn = x.turn
  BY DEF Unanswered
<1>2. PICK w \in rows' : w.role = "assistant" /\ w.conv = x.conv /\ w.turn = x.turn
  BY <1>1
<1>3. QED
  BY <1>2 DEF Unanswered, SameTurn

(* How a run comes to its outcome, and what it has written by then.        *)
LEMMA OutcomeKinds ==
  ASSUME TurnsTypeOK, QueueInv, LiveInv, OutcomeInv, NEW r \in Run, RunActs(r)
  PROVE  /\ OutcomeOf(r)'
         /\ pc'[r] = "mark" /\ outcome'[r] = "ok" =>
              /\ Serving("reply", r) /\ Exists(Head(dbq).conv) /\ rows' = Written(Head(dbq))
         /\ pc'[r] = "over" /\ pc[r] # "newchat" =>
              \/ /\ Serving("mark", r) /\ rows' = Written(Head(dbq)) /\ outcome'[r] = outcome[r]
              \/ /\ outcome'[r] = "cancelled"
                 /\ r \in VoiceRun => Serving("closing", r) /\ rows' = Written(Head(dbq))
<1>1. pc \in [Run -> RunPc] /\ outcome \in [Run -> {"none", "ok", "error", "cancelled"}]
  BY DEF TurnsTypeOK
<1>2. ASSUME NEW op, Serving(op, r)
      PROVE  pc[r] = op
  BY <1>2, WrittenFacts DEF Serving
<1>3. OutcomeOf(r)
  BY DEF OutcomeInv
<1>4. CASE UiMessage(r) \/ VoiceMessage(r)
  <2>1. pc[r] = "idle" /\ pc'[r] \in {"next", "newchat"} /\ outcome' = outcome
    BY <1>1, <1>4 DEF UiMessage, VoiceMessage, Called, CalledNewChat
  <2>2. QED
    BY <1>3, <2>1 DEF OutcomeOf
<1>5. CASE ServeNext(r)
  <2>1. pc[r] = "next" /\ pc'[r] = "user" /\ outcome' = outcome
    BY <1>1, <1>2, <1>5 DEF ServeNext, Proceeds
  <2>2. QED
    BY <1>3, <2>1 DEF OutcomeOf
<1>6. CASE ServeUser(r)
  <2>1. pc[r] = "user" /\ pc'[r] \in {"stream", "dead"} /\ outcome' = outcome
    BY <1>1, <1>2, <1>6 DEF ServeUser, Leaves
  <2>2. QED
    BY <1>3, <2>1 DEF OutcomeOf
<1>7. CASE CallsTool(r) \/ Answers(r)
  <2>1. pc[r] = "stream" /\ pc'[r] \in {"tool", "reply"} /\ outcome' = outcome
    BY <1>1, <1>7 DEF CallsTool, Answers, Asks
  <2>2. QED
    BY <1>3, <2>1 DEF OutcomeOf
<1>8. CASE Fails(r)
  <2>1. pc'[r] = "mark" /\ outcome'[r] = "error"
    BY <1>1, <1>8 DEF Fails, Asks
  <2>2. QED
    BY <2>1 DEF OutcomeOf
<1>9. CASE ServeTool(r)
  <2>1. CASE Exists(Head(dbq).conv)
    <3>1. pc[r] = "tool" /\ pc'[r] = "stream" /\ outcome' = outcome
      BY <1>1, <1>2, <1>9, <2>1 DEF ServeTool
    <3>2. QED
      BY <1>3, <3>1 DEF OutcomeOf
  <2>2. CASE ~Exists(Head(dbq).conv)
    <3>1. pc'[r] = "mark" /\ outcome'[r] = "error"
      BY <1>1, <1>9, <2>2 DEF ServeTool, Proceeds
    <3>2. QED
      BY <3>1 DEF OutcomeOf
  <2>3. QED
    BY <2>1, <2>2
<1>10. CASE ServeReply(r)
  <2>1. /\ pc'[r] = "mark" /\ outcome'[r] = IF Exists(Head(dbq).conv) THEN "ok" ELSE "error"
        /\ Serving("reply", r) /\ rows' = Written(Head(dbq))
    BY <1>1, <1>10 DEF ServeReply, Proceeds
  <2>2. QED
    BY <2>1 DEF OutcomeOf
<1>11. CASE ServeMark(r)
  <2>1. pc'[r] = "over" /\ outcome' = outcome /\ Serving("mark", r) /\ rows' = Written(Head(dbq))
    BY <1>1, <1>11 DEF ServeMark, Leaves
  <2>2. QED
    BY <2>1 DEF OutcomeOf
<1>12. CASE ServeClosing(r)
  <2>1. /\ pc'[r] = "over" /\ outcome' = outcome /\ Serving("closing", r)
        /\ pc[r] = "closing" /\ rows' = Written(Head(dbq))
    BY <1>1, <1>2, <1>12 DEF ServeClosing, Leaves
  <2>2. QED
    BY <1>3, <2>1 DEF OutcomeOf
<1>13. CASE ServeNewChat(r)
  <2>1. pc'[r] = "over" /\ pc[r] = "newchat"
    BY <1>1, <1>2, <1>13 DEF ServeNewChat, Leaves
  <2>2. QED
    BY <2>1 DEF OutcomeOf
<1>14. CASE Kill(r) \/ CancelVoice(r)
  <2>1. Cancelled(r) /\ (r \in UiRun \/ r \in future)
    BY <1>14 DEF Kill, CancelVoice
  <2>2. CASE pc[r] \in {"stream", "tool", "reply"}
    <3>1. pc'[r] = "closing" /\ outcome'[r] = "cancelled"
      BY <1>1, <2>1, <2>2 DEF Cancelled
    <3>2. QED
      BY <3>1 DEF OutcomeOf
  <2>3. CASE pc[r] \in {"next", "user", "mark"}
    <3>1. pc'[r] = "dead"
      BY <1>1, <2>1, <2>3 DEF Cancelled, Leaves
    <3>2. QED
      BY <3>1 DEF OutcomeOf
  <2>4. CASE pc[r] = "closing"
    <3>1. pc'[r] = "over" /\ outcome' = outcome
      BY <1>1, <2>1, <2>4 DEF Cancelled, Leaves
    <3>2. r \notin VoiceRun
      BY <2>1, <2>4, LiveFacts DEF LiveInv
    <3>3. QED
      BY <1>3, <2>4, <3>1, <3>2 DEF OutcomeOf
  <2>5. CASE pc[r] = "newchat"
    <3>1. pc'[r] = "over"
      BY <1>1, <2>1, <2>5 DEF Cancelled, Leaves
    <3>2. QED
      BY <2>5, <3>1 DEF OutcomeOf
  <2>6. QED
    BY <2>1, <2>2, <2>3, <2>4, <2>5 DEF Cancelled
<1>15. QED
  BY <1>4, <1>5, <1>6, <1>7, <1>8, <1>9, <1>10, <1>11, <1>12, <1>13, <1>14 DEF RunActs, RunStep

(* A run's assistant row answers every row of its turn.                    *)
LEMMA AnswerShows ==
  ASSUME TurnsTypeOK, QueueInv, HomeInv, RowInv, ~astray, NEW r \in Run,
         NEW op \in {"reply", "closing"}, Serving(op, r), rows' = Written(Head(dbq)),
         NEW y \in rows', y.by = r
  PROVE  ~Unanswered(y)'
<1> DEFINE z == RowOf(Head(dbq))
<1>1. /\ pc[r] = op /\ pc[r] \in InTurn
      /\ Head(dbq) = dbq[1] /\ 1 \in DOMAIN dbq /\ dbq[1].who = r /\ dbq[1].op = op
  BY RestOfTail, WrittenFacts DEF Serving, InTurn, TurnsTypeOK
<1>2. Head(dbq).conv = home[r]
  BY <1>1 DEF HomeInv
<1>3. rows' = IF Exists(home[r]) THEN rows \union {z} ELSE rows
  BY <1>1, <1>2, WrittenFacts DEF Serving
<1>4. z.role = "assistant" /\ z.conv = home[r] /\ z.turn = turn[r]
  BY <1>1, <1>2, RowOfFacts DEF Serving
<1> HIDE DEF z
<1>5. \A x \in rows : x.by = r => x.conv = home[r] /\ x.turn = turn[r] /\ Exists(x.conv)
  BY <1>1 DEF RowInv
<1>6. rows' = rows \union {z}
  BY <1>3, <1>5
<1>7. y.conv = z.conv /\ y.turn = z.turn /\ z \in rows'
  BY <1>4, <1>5, <1>6
<1>8. QED
  BY <1>4, <1>7 DEF Unanswered

(* mark_turn leaves every row of its turn with its outcome.                *)
LEMMA MarkShows ==
  ASSUME TurnsTypeOK, QueueInv, HomeInv, RowInv, ~astray, NEW r \in Run,
         Serving("mark", r), rows' = Written(Head(dbq)), NEW y \in rows', y.by = r
  PROVE  /\ y.status = IF outcome[r] = "ok" THEN "ok" ELSE "failed"
         /\ \E x \in rows : x.by = r /\ SameTurn(x, y)
<1> DEFINE st == IF outcome[r] = "ok" THEN "ok" ELSE "failed"
<1>1. /\ pc[r] = "mark" /\ pc[r] \in InTurn
      /\ Head(dbq) = dbq[1] /\ 1 \in DOMAIN dbq /\ dbq[1].who = r /\ dbq[1].op = "mark"
  BY RestOfTail, WrittenFacts DEF Serving, InTurn, TurnsTypeOK
<1>2. Head(dbq).conv = home[r]
  BY <1>1 DEF HomeInv
<1>3. rows' = Marked(home[r], turn[r], st) /\ st \in {"ok", "failed"}
  BY <1>1, <1>2, WrittenFacts DEF Serving
<1> HIDE DEF st
<1>4. /\ Restatus(rows')
      /\ (y \in rows /\ ~(y.conv = home[r] /\ y.turn = turn[r])) \/ y.status = st
  BY <1>3, MarkedFacts
<1>5. PICK x \in rows : x.by = r /\ SameTurn(x, y)
  BY <1>4 DEF Restatus
<1>6. x.conv = home[r] /\ x.turn = turn[r]
  BY <1>1, <1>5 DEF RowInv
<1>7. QED
  BY <1>4, <1>5, <1>6 DEF SameTurn, st

(* Restatus keeps the answers.                                             *)
LEMMA RestatusAnswers ==
  ASSUME Restatus(rows'), NEW x, NEW y, SameTurn(x, y), ~Unanswered(x)
  PROVE  ~Unanswered(y)'
<1>1. \A z \in rows : \E w \in rows' : w.role = z.role /\ w.conv = z.conv /\ w.turn = z.turn
  BY DEF Restatus, SameTurn
<1>2. QED
  BY <1>1, AnswerKept

(* A run that writes leaves what other runs show.                          *)
LEMMA OthersShow ==
  ASSUME TurnsTypeOK, QueueInv, HomeInv, RowInv, ~astray, NEW r \in Run, Writing(r),
         pc[r] \in InTurn \union {"next"}, NEW y \in rows', y.by # r
  PROVE  y \in rows /\ (~Unanswered(y) => ~Unanswered(y)')
<1>1. CASE rows' = rows
  BY <1>1 DEF Unanswered
<1>2. CASE \E z \in Row : Inserts(r, z)
  <2>1. PICK z : z.by = r /\ rows' = rows \union {z}
    BY <1>2 DEF Inserts
  <2>2. y \in rows
    BY <2>1
  <2>3. QED
    BY <2>1, <2>2 DEF Unanswered
<1>3. CASE \E st \in {"ok", "failed"} : Marks(r, st)
  <2>1. Restatus(rows') /\ pc[r] \in InTurn
    BY <1>3 DEF Marks, InTurn
  <2>2. PICK x \in rows : x.by = y.by /\ SameTurn(x, y)
    BY <2>1 DEF Restatus
  <2>3. ~(y.conv = home[r] /\ y.turn = turn[r])
    BY <2>1, <2>2 DEF RowInv, SameTurn
  <2>4. y \in rows
    BY <1>3, <2>3 DEF Marks
  <2>5. QED
    BY <2>1, <2>4, RestatusAnswers DEF SameTurn
<1>4. QED
  BY <1>1, <1>2, <1>3, WriteKinds

(* What a turn's rows show follows its outcome.                            *)
LEMMA OutcomeStep ==
  ASSUME TurnsTypeOK, QueueInv, LiveInv, HomeInv, RowInv, OutcomeInv, [Next]_vars, TurnsTypeOK'
  PROVE  OutcomeInv'
<1>0. \A y \in rows' : y.by \in Run
  BY DEF TurnsTypeOK, Row
<1>1. ASSUME NEW r \in Run, RunActs(r)
      PROVE  OutcomeInv'
  <2>1. RunMoves(r) /\ (Begins(r) \/ Draws(r) \/ Carries(r) \/ Ends(r) \/ Chats(r))
    BY <1>1, RunKinds
  <2>2. \A s \in Run : s # r => pc'[s] = pc[s] /\ outcome'[s] = outcome[s]
    BY <2>1 DEF RunMoves
  <2>3. ~astray' => ~astray
    BY <2>1 DEF Begins, Draws, Carries, Ends, Chats, Created
  <2>4. ASSUME NEW s \in Run
        PROVE  OutcomeOf(s)'
    <3>1. OutcomeOf(r)'
      BY <1>1, OutcomeKinds
    <3>2. OutcomeOf(s)
      BY DEF OutcomeInv
    <3>3. s # r => OutcomeOf(s)'
      BY <2>2, <3>2 DEF OutcomeOf
    <3>4. QED
      BY <3>1, <3>3
  <2>5. ASSUME ~astray', NEW y \in rows', y.by # r
        PROVE  Shown(y)'
    <3>1. y \in rows /\ (~Unanswered(y) => ~Unanswered(y)')
      <4>1. CASE rows' = rows
        BY <4>1 DEF Unanswered
      <4>2. CASE Carries(r) \/ Ends(r)
        BY <2>3, <2>5, <4>2, OthersShow DEF Carries, Ends, InTurn
      <4>3. QED
        BY <2>1, <4>1, <4>2 DEF Begins, Draws, Chats
    <3>2. Shown(y)
      BY <2>3, <2>5, <3>1 DEF OutcomeInv
    <3>3. pc'[y.by] = pc[y.by] /\ outcome'[y.by] = outcome[y.by]
      BY <1>0, <2>2, <2>5
    <3>4. QED
      BY <3>1, <3>2, <3>3 DEF Shown
  <2>6. ASSUME ~astray', NEW y \in rows', y.by = r
        PROVE  Shown(y)'
    <3>1. CASE pc'[r] \notin {"mark", "over"}
      BY <2>6, <3>1 DEF Shown
    <3>2. CASE pc'[r] = "mark"
      <4>1. ASSUME outcome'[r] = "ok"
            PROVE  ~Unanswered(y)'
        <5>1. Serving("reply", r) /\ rows' = Written(Head(dbq))
          BY <1>1, <3>2, <4>1, OutcomeKinds
        <5>2. QED
          BY <2>3, <2>6, <5>1, AnswerShows
      <4>2. QED
        BY <2>6, <3>2, <4>1 DEF Shown
    <3>3. CASE pc'[r] = "over" /\ pc[r] = "newchat"
      <4>1. rows' = rows
        BY <2>1, <3>3 DEF Begins, Draws, Carries, Ends, Chats, InTurn
      <4>2. QED
        BY <2>6, <3>3, <4>1 DEF RowInv
    <3>4. CASE pc'[r] = "over" /\ Serving("mark", r) /\ rows' = Written(Head(dbq)) /\ outcome'[r] = outcome[r]
      <4>1. y.status = IF outcome[r] = "ok" THEN "ok" ELSE "failed"
        BY <2>3, <2>6, <3>4, MarkShows
      <4>2. PICK x \in rows : x.by = r /\ SameTurn(x, y)
        BY <2>3, <2>6, <3>4, MarkShows
      <4>3. pc[r] = "mark"
        BY <3>4, WrittenFacts DEF Serving
      <4>4. outcome[r] \in {"ok", "error"} /\ (outcome[r] = "ok" => ~Unanswered(x))
        BY <2>3, <2>6, <4>2, <4>3 DEF OutcomeInv, OutcomeOf, Shown
      <4>5. Restatus(rows')
        <5>1. rows' = Marked(Head(dbq).conv, turn[r], IF outcome[r] = "ok" THEN "ok" ELSE "failed")
          BY <3>4, <4>3, WrittenFacts DEF Serving
        <5>2. QED
          BY <5>1, MarkedFacts
      <4>6. outcome[r] = "ok" => ~Unanswered(y)'
        BY <4>2, <4>4, <4>5, RestatusAnswers
      <4>7. QED
        BY <2>6, <3>4, <4>1, <4>4, <4>6 DEF Shown
    <3>5. CASE /\ pc'[r] = "over" /\ outcome'[r] = "cancelled"
               /\ r \in VoiceRun => Serving("closing", r) /\ rows' = Written(Head(dbq))
      <4>1. r \in VoiceRun => ~Unanswered(y)'
        BY <2>3, <2>6, <3>5, AnswerShows
      <4>2. QED
        BY <2>6, <3>5, <4>1 DEF Shown
    <3>6. QED
      BY <1>1, <3>1, <3>2, <3>3, <3>4, <3>5, OutcomeKinds
  <2>7. QED
    BY <2>4, <2>5, <2>6 DEF OutcomeInv
<1>2. ASSUME NEW h \in Handler, HandlerCall(h) \/ HandlerStep(h)
      PROVE  OutcomeInv'
  <2>1. /\ HandlerMoves(h)
        /\ ~astray' => ~astray
        /\ \A x \in rows' : x \in rows
        /\ \A x, y \in rows : x.conv = y.conv /\ x \in rows' => y \in rows'
    BY <1>2, HandlerKinds
  <2>2. pc' = pc /\ outcome' = outcome
    BY <2>1 DEF HandlerMoves
  <2>3. \A s \in Run : OutcomeOf(s)'
    BY <2>2 DEF OutcomeInv, OutcomeOf
  <2>4. ASSUME ~astray', NEW y \in rows'
        PROVE  Shown(y)'
    <3>1. Shown(y)
      BY <2>1, <2>4 DEF OutcomeInv
    <3>2. ~Unanswered(y) => ~Unanswered(y)'
      <4>1. \A z \in rows : z.conv = y.conv => z \in rows'
        BY <2>1
      <4>2. QED
        BY <4>1 DEF Unanswered
    <3>3. QED
      BY <2>2, <3>1, <3>2 DEF Shown
  <2>5. QED
    BY <2>3, <2>4 DEF OutcomeInv
<1>3. ASSUME rows' = Reconciled, UNCHANGED <<outcome, astray>>,
             \A r \in Run : pc'[r] = pc[r] \/ pc'[r] = "dead"
      PROVE  OutcomeInv'
  <2>1. /\ Restatus(rows')
        /\ \A y \in rows' : y \in rows \/ (y.status = "failed" /\ \E x \in rows :
             Unanswered(x) /\ x.by = y.by /\ SameTurn(x, y))
    BY <1>3, ReconciledFacts
  <2>2. \A s \in Run : OutcomeOf(s)'
    BY <1>3 DEF OutcomeInv, OutcomeOf
  <2>3. ASSUME ~astray', NEW y \in rows'
        PROVE  Shown(y)'
    <3>1. pc'[y.by] = pc[y.by] \/ pc'[y.by] = "dead"
      BY <1>0, <1>3
    <3>2. CASE y \in rows
      <4>1. Shown(y)
        BY <1>3, <2>3, <3>2 DEF OutcomeInv
      <4>2. ~Unanswered(y) => ~Unanswered(y)'
        BY <2>1, RestatusAnswers DEF SameTurn
      <4>3. QED
        BY <1>3, <3>1, <4>1, <4>2 DEF Shown
    <3>3. CASE y.status = "failed" /\ \E x \in rows : Unanswered(x) /\ x.by = y.by /\ SameTurn(x, y)
      <4>1. PICK x \in rows : Unanswered(x) /\ x.by = y.by /\ SameTurn(x, y)
        BY <3>3
      <4>2. Shown(x)
        BY <1>3, <2>3 DEF OutcomeInv
      <4>3. QED
        BY <1>3, <3>1, <3>3, <4>1, <4>2 DEF Shown
    <3>4. QED
      BY <2>1, <3>2, <3>3
  <2>4. QED
    BY <2>2, <2>3 DEF OutcomeInv
<1>4. CASE Reboot
  <2>1. \A r \in Run : pc'[r] = pc[r] \/ pc'[r] = "dead"
    BY <1>4, RebootFacts
  <2>2. QED
    BY <1>3, <1>4, <2>1, RebootFacts
<1>5. CASE Reconcile
  <2>1. rows' = Reconciled /\ UNCHANGED <<pc, outcome, astray>>
    BY <1>5 DEF Reconcile, runs
  <2>2. QED
    BY <1>3, <2>1
<1>6. CASE UNCHANGED vars
  BY <1>6 DEF vars, runs, durable, OutcomeInv, OutcomeOf, Shown, Unanswered
<1>7. ASSUME NEW r \in Run, Forgotten(r)
      PROVE  OutcomeInv'
  BY <1>7 DEF Forgotten, OutcomeInv, OutcomeOf
<1>8. QED
  BY <1>1, <1>2, <1>4, <1>5, <1>6, <1>7 DEF Next, RunActs

-----------------------------------------------------------------------------
(* The theorems.                                                           *)

(* The first state has one conversation and nothing else.                  *)
LEMMA InitInv == Init => TurnsInv
<1> SUFFICES ASSUME Init PROVE TurnsInv
  OBVIOUS
<1>1. TurnsTypeOK
  BY InitTyped
<1>2. /\ dbq = <<>> /\ DOMAIN dbq = {} /\ rows = {} /\ future = {}
      /\ \A r \in Run : pc[r] = "idle" /\ outcome[r] = "none" /\ ~Live(r)
  BY DEF Init, Live
<1>3. QueueInv
  BY <1>2 DEF QueueInv, Waiting
<1>4. LiveInv
  BY <1>1, <1>2, LiveFacts DEF LiveInv
<1>5. HomeInv
  BY <1>1, <1>2, LiveFacts DEF HomeInv, InTurn, Init, Agent
<1>6. RowInv /\ NoSharedTurn
  BY <1>2 DEF RowInv, NoSharedTurn
<1>7. OutcomeInv
  BY <1>2 DEF OutcomeInv, OutcomeOf
<1>8. UiPointerLive
  BY DEF Init, UiPointerLive, Exists, Agent
<1>9. QED
  BY <1>1, <1>3, <1>4, <1>5, <1>6, <1>7, <1>8 DEF TurnsInv

(* Every step keeps the inductive invariant.                               *)
LEMMA NextInv == TurnsInv /\ [Next]_vars => TurnsInv'
<1> SUFFICES ASSUME TurnsInv, [Next]_vars PROVE TurnsInv'
  OBVIOUS
<1>1. /\ TurnsTypeOK /\ QueueInv /\ LiveInv /\ HomeInv /\ RowInv /\ OutcomeInv
      /\ NoSharedTurn /\ UiPointerLive
  BY DEF TurnsInv
<1>2. TurnsTypeOK'
  BY <1>1, NextTyped
<1>3. QueueInv'
  <2>1. ASSUME NEW r \in Run, RunActs(r) PROVE RunMoves(r)
    BY <1>1, <2>1, RunKinds
  <2>2. ASSUME NEW h \in Handler, HandlerCall(h) \/ HandlerStep(h) PROVE HandlerMoves(h)
    BY <1>1, <2>2, HandlerStepMoves
  <2>3. ASSUME NEW r \in Run, Forgotten(r) PROVE UNCHANGED <<dbq, pc, hpc>>
    BY <2>3 DEF Forgotten, http
  <2>4. CASE Reconcile \/ UNCHANGED vars
    BY <1>1, <2>4, QueueStep DEF Reconcile, vars, runs, http
  <2>5. CASE Reboot
    BY <1>1, <2>5, QueueStep
  <2>6. QED
    BY <1>1, <2>1, <2>2, <2>3, <2>4, <2>5, QueueStep DEF Next, RunActs
<1>4. LiveInv'
  BY <1>1, <1>2, <1>3, LiveStep
<1>5. HomeInv'
  BY <1>1, <1>2, HomeStep
<1>6. RowInv' /\ NoSharedTurn'
  BY <1>1, RowStep
<1>7. OutcomeInv'
  BY <1>1, <1>2, OutcomeStep
<1>8. UiPointerLive'
  BY <1>1, PointerStep
<1>9. QED
  BY <1>2, <1>3, <1>4, <1>5, <1>6, <1>7, <1>8 DEF TurnsInv

(* The turns keep their types, and the whole argument below them: a run    *)
(* has one request in the lock's queue while it waits and none otherwise;  *)
(* at most one UI run and one tracked voice run are under way, and a       *)
(* cancelled voice run's closure row stands in the queue before what its   *)
(* successor asks; every request names the conversation its turn drew its  *)
(* id from; and the rows under a live turn's id are the rows it wrote      *)
(* (core/agent.py run_turn, db/database.py, ui/server.py).                 *)
THEOREM TurnsInvariant == Spec => []TurnsInv
<1>1. QED
  BY InitInv, NextInv, PTL DEF Spec

(* A turn is quarantined or kept as a whole: whatever is cancelled, killed *)
(* or rebooted, and whenever, a finished turn that was not led astray      *)
(* shows every row if it completed, none if it failed, and an assistant    *)
(* row if it is a voice turn that was cancelled (the try, except and       *)
(* finally blocks of run_turn against mark_turn and the boot's reconcile). *)
THEOREM AtomicCorrect == Spec => []TurnIsAtomic
<1>1. TurnsInv => TurnIsAtomic
  BY DEF TurnsInv, OutcomeInv, Shown, TurnIsAtomic
<1>2. QED
  BY <1>1, TurnsInvariant, PTL

(* No two turns share a turn id unless a conversation was switched under   *)
(* one of them, is shared by both agents, had its id given to another, or  *)
(* the pipeline lost track of a turn (next_turn_id, which reads the        *)
(* largest id of the rows and reserves nothing).                           *)
THEOREM SharedCorrect == Spec => []NoSharedTurn
<1>1. TurnsInv => NoSharedTurn
  BY DEF TurnsInv
<1>2. QED
  BY <1>1, TurnsInvariant, PTL

(* The UI agent points at a deleted conversation only while the delete     *)
(* that removed it waits for its replacement, whichever handlers overlap   *)
(* (the resume, delete, new and wipe handlers of ui/server.py).            *)
THEOREM PointerCorrect == Spec => []UiPointerLive
<1>1. TurnsInv => UiPointerLive
  BY DEF TurnsInv
<1>2. QED
  BY <1>1, TurnsInvariant, PTL

=============================================================================
