----------------------------- MODULE Cloud_proofs -----------------------------
(* What stands between a turn and the brains: the limiter, the health      *)
(* machine and the router on it, the game mode; for every rate, share,     *)
(* window and recover_after, for any number of callers, calls, requests in *)
(* flight, games, and switches of the mode.                                *)
EXTENDS TokenBucket, CloudRouter, GameMode, FiniteSetTheorems, TLAPS

(* The limiter.                                                            *)

(* Positions of a log that has grown by one entry.                         *)
LEMMA LogFacts ==
  ASSUME NEW s \in Seq(Entry), NEW e \in Entry
  PROVE  /\ Len(s) \in Nat
         /\ Append(s, e) \in Seq(Entry)
         /\ Len(Append(s, e)) = Len(s) + 1
         /\ Append(s, e)[Len(s) + 1] = e
         /\ \A i \in 1..Len(s) : Append(s, e)[i] = s[i] /\ s[i] \in Entry
  OBVIOUS

(* The entries of a log that has grown by one.                             *)
LEMMA EntryFacts ==
  ASSUME NEW s \in Seq(Entry), NEW i \in 1..Len(s)
  PROVE  s[i] \in Entry /\ s[i].at \in Nat /\ s[i].bg \in BOOLEAN
<1>1. s[i] \in Entry
  OBVIOUS
<1>2. QED
  BY <1>1 DEF Entry

(* A slot that is taken leaves every window within its two limits: what    *)
(* the deque has dropped is out of the new entry's window, and what it     *)
(* holds is fewer than the limit.                                          *)
LEMMA TakeStep ==
  ASSUME BucketInv, now' = now, NEW bg \in BOOLEAN,
         NEW h \in head..(Len(log) + 1), Take(bg, h)
  PROVE  /\ log' \in Seq(Entry) /\ head' \in 1..(Len(log') + 1)
         /\ OrderInv' /\ RateHeld' /\ BackgroundHeld'
<1> DEFINE e == [at |-> now, bg |-> bg]
<1>1. PICK n \in Nat : n = Len(log)
  BY DEF BucketInv, BucketTypeOK
<1>2. /\ log \in Seq(Entry) /\ now \in Nat /\ head \in 1..(n + 1) /\ h \in head..(n + 1)
      /\ OrderInv /\ RateHeld /\ BackgroundHeld
  BY <1>1 DEF BucketInv, BucketTypeOK
<1>3. e \in Entry /\ e.at = now /\ e.bg = bg
  BY <1>2 DEF Entry
<1>4. /\ head' = h /\ log' = Append(log, e)
      /\ \A i \in head..(h - 1) : now - log[i].at >= Window
      /\ n + 1 - h < Rpm
      /\ bg => Cardinality(HeldBackground(h)) < BgCap
  BY <1>1 DEF Take, Pruned, Admits, Held, Expired
<1>5. /\ Len(log') = n + 1 /\ log' \in Seq(Entry)
      /\ log'[n + 1] = e
      /\ \A i \in 1..n : log'[i] = log[i]
  BY <1>1, <1>2, <1>3, <1>4, LogFacts
<1>6. \A i \in 1..n : log[i].at \in Nat
  BY <1>1, <1>2, EntryFacts
<1>7. /\ h \in 1..(n + 1) /\ h \in Int /\ n + 1 \in Int
      /\ \A i \in 1..(h - 1) : now - log[i].at >= Window
  BY <1>1, <1>2, <1>4 DEF OrderInv, Expired
<1>8. OrderInv'
  <2>1. \A i \in 1..(n + 1) : log'[i].at <= now
    BY <1>1, <1>2, <1>3, <1>5 DEF OrderInv
  <2>2. ASSUME NEW i \in 1..(n + 1), NEW j \in 1..(n + 1), i <= j
        PROVE  log'[i].at <= log'[j].at
    <3>1. CASE j = n + 1
      BY <1>3, <1>5, <2>1, <3>1
    <3>2. CASE j # n + 1
      <4>1. i \in 1..n /\ j \in 1..n
        BY <2>2, <3>2
      <4>2. log[i].at <= log[j].at
        BY <1>1, <1>2, <2>2, <4>1 DEF OrderInv
      <4>3. QED
        BY <1>5, <4>1, <4>2
    <3>3. QED
      BY <3>1, <3>2
  <2>3. \A i \in 1..(h - 1) : now - log'[i].at >= Window
    <3>1. \A i \in 1..(h - 1) : i \in 1..n
      BY <1>7
    <3>2. QED
      BY <1>5, <1>7, <3>1
  <2>4. QED
    BY <1>4, <1>5, <2>1, <2>2, <2>3 DEF OrderInv, Expired
<1>9. \A i \in 1..n : InWindow(log', i) = InWindow(log, i)
  BY <1>5 DEF InWindow
<1>10. InWindow(log', n + 1) \subseteq h..(n + 1)
  <2>1. ASSUME NEW j \in 1..(n + 1), j < h PROVE now - log'[j].at >= Window
    <3>1. j \in 1..(h - 1) /\ j \in 1..n
      BY <1>7, <2>1
    <3>2. QED
      BY <1>5, <1>7, <3>1
  <2>2. ASSUME NEW j \in InWindow(log', n + 1) PROVE j \in h..(n + 1)
    <3>1. j \in 1..(n + 1) /\ now - log'[j].at < Window
      BY <1>3, <1>5, <2>2 DEF InWindow
    <3>2. log'[j].at \in Nat
      BY <1>5, <3>1, EntryFacts
    <3>3. ~(j < h)
      BY <1>2, <2>1, <3>1, <3>2, BucketAssumption
    <3>4. QED
      BY <1>7, <3>1, <3>3
  <2>3. QED
    BY <2>2
<1>11. /\ IsFiniteSet(h..(n + 1))
       /\ Cardinality(h..(n + 1)) = n + 2 - h
  <2>1. Cardinality(h..(n + 1)) = IF h > n + 1 THEN 0 ELSE (n + 1) - h + 1
    BY <1>7, FS_Interval
  <2>2. IsFiniteSet(h..(n + 1))
    BY <1>7, FS_Interval
  <2>3. QED
    BY <1>7, <2>1, <2>2
<1>12. RateHeld'
  <2>1. Cardinality(InWindow(log', n + 1)) <= Rpm
    <3>1. Cardinality(InWindow(log', n + 1)) <= n + 2 - h
      BY <1>10, <1>11, FS_Subset
    <3>2. Cardinality(InWindow(log', n + 1)) \in Nat
      BY <1>10, <1>11, FS_Subset, FS_CardinalityType
    <3>3. QED
      BY <1>4, <1>7, <3>1, <3>2, BucketAssumption
  <2>2. \A i \in 1..n : Cardinality(InWindow(log', i)) <= Rpm
    BY <1>1, <1>2, <1>9 DEF RateHeld
  <2>3. QED
    BY <1>5, <2>1, <2>2 DEF RateHeld
<1>13. BackgroundHeld'
  <2> DEFINE old == HeldBackground(h)
             new == {j \in InWindow(log', n + 1) : log'[j].bg}
  <2>1. ASSUME bg PROVE Cardinality(new) <= BgCap
    <3>1. old \subseteq h..(n + 1) /\ n + 1 \notin old
      BY <1>1, <1>7 DEF HeldBackground
    <3>2. new \subseteq old \union {n + 1}
      <4>1. ASSUME NEW j \in new, j # n + 1 PROVE j \in old
        <5>1. j \in h..n /\ j \in 1..n /\ log'[j].bg
          BY <1>7, <1>10, <4>1
        <5>2. QED
          BY <1>1, <1>5, <5>1 DEF HeldBackground
      <4>2. QED
        BY <4>1
    <3>3. IsFiniteSet(old)
      BY <1>11, <3>1, FS_Subset
    <3>4. /\ IsFiniteSet(old \union {n + 1})
          /\ Cardinality(old \union {n + 1}) = Cardinality(old) + 1
      BY <3>1, <3>3, FS_AddElement
    <3>5. Cardinality(new) <= Cardinality(old \union {n + 1}) /\ IsFiniteSet(new)
      BY <3>2, <3>4, FS_Subset
    <3>6. Cardinality(new) \in Nat /\ Cardinality(old) \in Nat
      BY <3>3, <3>5, FS_CardinalityType
    <3>7. Cardinality(old) < BgCap
      BY <1>4, <2>1
    <3> HIDE DEF old, new
    <3>8. QED
      BY <3>4, <3>5, <3>6, <3>7, BucketAssumption
  <2>2. ASSUME NEW i \in 1..n
        PROVE  {j \in InWindow(log', i) : log'[j].bg} = {j \in InWindow(log, i) : log[j].bg}
    <3>1. \A j \in InWindow(log, i) : log'[j] = log[j]
      BY <1>5 DEF InWindow
    <3>2. QED
      BY <1>9, <3>1
  <2>3. ASSUME NEW i \in 1..(n + 1), log'[i].bg
        PROVE  Cardinality({j \in InWindow(log', i) : log'[j].bg}) <= BgCap
    <3>1. CASE i = n + 1
      BY <1>3, <1>5, <2>1, <2>3, <3>1
    <3>2. CASE i # n + 1
      <4>1. i \in 1..n /\ log[i].bg
        BY <1>5, <2>3, <3>2
      <4>2. Cardinality({j \in InWindow(log, i) : log[j].bg}) <= BgCap
        BY <1>1, <1>2, <4>1 DEF BackgroundHeld
      <4>3. QED
        BY <2>2, <4>1, <4>2
    <3>3. QED
      BY <3>1, <3>2
  <2>4. QED
    BY <1>5, <2>3 DEF BackgroundHeld
<1>14. head' \in 1..(Len(log') + 1)
  BY <1>4, <1>5, <1>7
<1>15. QED
  BY <1>5, <1>8, <1>12, <1>13, <1>14

(* A refused request changes nothing of the log.                           *)
LEMMA RefuseStep ==
  ASSUME BucketInv, now' = now, NEW bg \in BOOLEAN,
         NEW h \in head..(Len(log) + 1), Refuse(bg, h)
  PROVE  /\ log' \in Seq(Entry) /\ head' \in 1..(Len(log') + 1)
         /\ OrderInv' /\ RateHeld' /\ BackgroundHeld'
<1> USE DEF BucketInv, BucketTypeOK
<1>1. log' = log /\ head' = h /\ \A i \in head..(h - 1) : Expired(i)
  BY DEF Refuse, Pruned
<1>2. Len(log) \in Nat /\ h \in 1..(Len(log) + 1)
  OBVIOUS
<1>3. OrderInv'
  BY <1>1, <1>2 DEF OrderInv, Expired
<1>4. RateHeld' /\ BackgroundHeld'
  BY <1>1 DEF RateHeld, BackgroundHeld, InWindow
<1>5. QED
  BY <1>1, <1>2, <1>3, <1>4

(* The inductive invariant holds initially.                                *)
LEMMA InitIInv == BucketInit => BucketInv
<1> SUFFICES ASSUME BucketInit PROVE BucketInv
  OBVIOUS
<1>1. BucketTypeOK
  BY DEF BucketInit, BucketTypeOK
<1>2. OrderInv /\ RateHeld /\ BackgroundHeld
  BY DEF BucketInit, OrderInv, RateHeld, BackgroundHeld
<1>3. QED
  BY <1>1, <1>2 DEF BucketInv

(* Every step keeps the inductive invariant.                               *)
LEMMA NextIInv == BucketInv /\ [BucketNext]_bucketVars => BucketInv'
<1> SUFFICES ASSUME BucketInv, [BucketNext]_bucketVars PROVE BucketInv'
  OBVIOUS
<1>1. CASE Tick
  <2>1. /\ now \in Nat /\ now' = now + 1 /\ UNCHANGED <<log, head, place, wakeAt>>
        /\ BucketTypeOK /\ OrderInv
    BY <1>1 DEF Tick, bucket, waiters, BucketInv, BucketTypeOK
  <2>2. BucketTypeOK'
    BY <2>1 DEF BucketTypeOK
  <2>3. OrderInv'
    <3>1. \A i \in 1..Len(log) : log[i].at \in Nat
      BY <2>1, EntryFacts DEF BucketTypeOK
    <3>2. \A i \in 1..(head - 1) : i \in 1..Len(log) /\ now - log[i].at >= Window
      <4>1. Len(log) \in Nat
        BY <2>1 DEF BucketTypeOK
      <4>2. head \in 1..(Len(log) + 1)
        BY <2>1 DEF BucketTypeOK
      <4>3. QED
        BY <2>1, <4>1, <4>2 DEF OrderInv, Expired
    <3>3. \A i \in 1..(head - 1) : (now + 1) - log[i].at >= Window
      BY <2>1, <3>1, <3>2, BucketAssumption
    <3>4. \A i \in 1..Len(log) : log[i].at <= now + 1
      BY <2>1, <3>1 DEF OrderInv
    <3>5. QED
      BY <2>1, <3>3, <3>4 DEF OrderInv, Expired
  <2>4. RateHeld' /\ BackgroundHeld'
    BY <1>1 DEF Tick, bucket, BucketInv, RateHeld, BackgroundHeld, InWindow
  <2>5. QED
    BY <2>2, <2>3, <2>4 DEF BucketInv
<1>2. ASSUME NEW bg \in BOOLEAN, TryAcquire(bg) PROVE BucketInv'
  <2>1. PICK h \in head..(Len(log) + 1) : Take(bg, h) \/ Refuse(bg, h)
    BY <1>2 DEF TryAcquire
  <2>2. now' = now /\ place' = place /\ wakeAt' = wakeAt
    BY <1>2 DEF TryAcquire, waiters
  <2>3. QED
    BY <2>1, <2>2, TakeStep, RefuseStep DEF BucketInv, BucketTypeOK
<1>3. ASSUME NEW w \in Waiter, AcquireWait(w) PROVE BucketInv'
  <2>1. PICK h \in head..(Len(log) + 1) :
          \/ Take(TRUE, h) /\ place' = [place EXCEPT ![w] = "served"] /\ UNCHANGED wakeAt
          \/ /\ Refuse(TRUE, h)
             /\ place' = [place EXCEPT ![w] = "asleep"]
             /\ wakeAt' = [wakeAt EXCEPT ![w] = now + Later(1, UntilSlot(h))]
    BY <1>3 DEF AcquireWait
  <2>2. now' = now
    BY <1>3 DEF AcquireWait
  <2>3. CASE Take(TRUE, h) /\ place' = [place EXCEPT ![w] = "served"] /\ UNCHANGED wakeAt
    BY <2>2, <2>3, TakeStep DEF BucketInv, BucketTypeOK
  <2>4. CASE /\ Refuse(TRUE, h)
             /\ place' = [place EXCEPT ![w] = "asleep"]
             /\ wakeAt' = [wakeAt EXCEPT ![w] = now + Later(1, UntilSlot(h))]
    <3>1. Later(1, UntilSlot(h)) \in Nat
      <4>1. Len(log) \in Nat /\ h \in 1..(Len(log) + 1) /\ now \in Nat
        BY DEF BucketInv, BucketTypeOK
      <4>2. CASE Held(h) < Rpm
        BY <4>2 DEF UntilSlot, Later
      <4>3. CASE ~(Held(h) < Rpm)
        <5>1. h \in 1..Len(log)
          BY <4>1, <4>3, BucketAssumption DEF Held
        <5>2. log[h].at \in Nat
          BY <5>1, EntryFacts DEF BucketInv, BucketTypeOK
        <5>3. UntilSlot(h) \in Int
          BY <4>1, <4>3, <5>2, BucketAssumption DEF UntilSlot
        <5>4. QED
          BY <5>3 DEF Later
      <4>4. QED
        BY <4>2, <4>3
    <3>2. now + Later(1, UntilSlot(h)) \in Nat
      BY <3>1 DEF BucketInv, BucketTypeOK
    <3>3. wakeAt' \in [Waiter -> Nat]
      BY <2>4, <3>2 DEF BucketInv, BucketTypeOK
    <3>4. place' \in [Waiter -> {"idle", "asleep", "served"}]
      BY <2>4 DEF BucketInv, BucketTypeOK
    <3>5. now' \in Nat
      BY <2>2 DEF BucketInv, BucketTypeOK
    <3>6. QED
      BY <2>2, <2>4, <3>3, <3>4, <3>5, RefuseStep DEF BucketInv, BucketTypeOK
  <2>5. QED
    BY <2>1, <2>3, <2>4
<1>4. CASE UNCHANGED bucketVars
  BY <1>4 DEF bucketVars, bucket, waiters, BucketInv, BucketTypeOK, OrderInv, Expired, RateHeld, BackgroundHeld, InWindow
<1>5. QED
  BY <1>1, <1>2, <1>3, <1>4 DEF BucketNext

(* The inductive invariant of the limiter, whatever the constants.          *)
THEOREM BucketInvariant == BucketSpec => []BucketInv
  BY InitIInv, NextIInv, PTL DEF BucketSpec

(* Never more than Rpm acquisitions in any window (TokenBucket.try_acquire *)
(* and acquire_wait together).                                             *)
THEOREM RateCorrect == BucketSpec => []RateHeld
<1>1. BucketInv => RateHeld
  BY DEF BucketInv
<1>2. QED
  BY <1>1, BucketInvariant, PTL

(* Never more background acquisitions than their share of any window.      *)
THEOREM ShareCorrect == BucketSpec => []BackgroundHeld
<1>1. BucketInv => BackgroundHeld
  BY DEF BucketInv
<1>2. QED
  BY <1>1, BucketInvariant, PTL
-----------------------------------------------------------------------------
(* The waiters: each sleeps at most until the last stamp taken is a window   *)
(* old, and every stamp but the busy callers' was taken by one of those that *)
(* have been served.                                                         *)
Served == {w \in Waiter : place[w] = "served"}
LastTaken == log[Len(log)].at
Pace == Window + Lag
SleepInv ==
  \A w \in Waiter : place[w] = "asleep" =>
    Len(log) > 0 /\ wakeAt[w] <= LastTaken + Window /\ now <= wakeAt[w] + Lag
PaceInv == Len(log) > 0 => LastTaken < BusyUntil + Cardinality(Served) * Pace

(* The quantities the argument adds up.                                     *)
LEMMA PaceFacts ==
  ASSUME BucketInv
  PROVE  /\ now \in Nat /\ Len(log) \in Nat /\ BusyUntil \in Nat /\ Lag \in Nat
         /\ Window \in Nat \ {0} /\ Pace \in Nat /\ Rpm \in Nat \ {0} /\ BgCap \in Nat
         /\ \A w \in Waiter : wakeAt[w] \in Nat
         /\ Len(log) > 0 => LastTaken \in Nat /\ LastTaken <= now
         /\ IsFiniteSet(Served) /\ Cardinality(Served) \in Nat
         /\ Cardinality(Served) * Pace \in Nat
<1>1. /\ BusyUntil \in Nat /\ Lag \in Nat /\ Window \in Nat \ {0} /\ Pace \in Nat
      /\ Rpm \in Nat \ {0} /\ BgCap \in Nat
  BY BucketAssumption, WaiterAssumption DEF Pace
<1>2. now \in Nat /\ Len(log) \in Nat /\ log \in Seq(Entry) /\ \A w \in Waiter : wakeAt[w] \in Nat
  BY DEF BucketInv, BucketTypeOK
<1>3. ASSUME Len(log) > 0 PROVE LastTaken \in Nat /\ LastTaken <= now
  <2>1. Len(log) \in 1 .. Len(log)
    BY <1>2, <1>3
  <2> QED
    BY <1>2, <2>1, EntryFacts DEF LastTaken, BucketInv, OrderInv
<1>4. IsFiniteSet(Served) /\ Cardinality(Served) \in Nat
  BY WaiterAssumption, FS_Subset, FS_CardinalityType DEF Served
<1>5. Cardinality(Served) * Pace \in Nat
  BY <1>1, <1>4
<1> QED
  BY <1>1, <1>2, <1>3, <1>4, <1>5

(* A caller that is refused is told to come back by the time the last stamp *)
(* has left the window.                                                     *)
LEMMA RefusedSleeps ==
  ASSUME BucketInv, BgCap > 0, NEW h \in head..(Len(log) + 1), Refuse(TRUE, h)
  PROVE  /\ Len(log) > 0
         /\ now + Later(1, UntilSlot(h)) <= LastTaken + Window
         /\ Later(1, UntilSlot(h)) \in Nat
<1>1. Len(log) \in Nat /\ h \in 1..(Len(log) + 1) /\ now \in Nat /\ log \in Seq(Entry) /\ OrderInv
  BY DEF BucketInv, BucketTypeOK
<1>2. Held(h) >= Rpm \/ Cardinality(HeldBackground(h)) >= BgCap
  <2>1. ~(Held(h) < Rpm) \/ ~(Cardinality(HeldBackground(h)) < BgCap)
    BY DEF Refuse, Admits
  <2>2. HeldBackground(h) \subseteq h..Len(log) /\ IsFiniteSet(h..Len(log))
    BY <1>1, FS_Interval DEF HeldBackground
  <2>3. Cardinality(HeldBackground(h)) \in Nat
    BY <2>2, FS_Subset, FS_CardinalityType
  <2>4. Held(h) \in Int
    BY <1>1 DEF Held
  <2> QED
    BY <2>1, <2>3, <2>4, BucketAssumption
<1>3. h \in 1..Len(log)
  <2>1. CASE Held(h) >= Rpm
    BY <1>1, <2>1, BucketAssumption DEF Held
  <2>2. CASE Cardinality(HeldBackground(h)) >= BgCap
    <3>1. HeldBackground(h) # {}
      <4>1. HeldBackground(h) = {} => Cardinality(HeldBackground(h)) = 0
        BY FS_EmptySet
      <4> QED
        BY <2>2, <4>1, BucketAssumption
    <3>2. PICK i \in h..Len(log) : TRUE
      BY <3>1 DEF HeldBackground
    <3> QED
      BY <1>1, <3>2
  <2> QED
    BY <1>2, <2>1, <2>2
<1>4. /\ Len(log) \in 1..Len(log) /\ Len(log) > 0 /\ h <= Len(log)
  BY <1>1, <1>3
<1>5. log[h].at \in Nat /\ LastTaken \in Nat /\ log[h].at <= LastTaken
  BY <1>1, <1>3, <1>4, EntryFacts DEF LastTaken, OrderInv
<1>6. now - log[h].at < Window
  <2>1. ~(now - log[h].at >= Window)
    BY <1>4 DEF Refuse, Pruned, Expired
  <2> QED
    BY <1>1, <1>5, <2>1, BucketAssumption
<1>7. UntilSlot(h) \in {0, Window - (now - log[h].at)}
  BY DEF UntilSlot
<1>8. Later(1, UntilSlot(h)) \in {1, Window - (now - log[h].at)} /\ Later(1, UntilSlot(h)) \in Nat
  BY <1>1, <1>5, <1>6, <1>7, BucketAssumption DEF Later
<1> QED
  BY <1>1, <1>4, <1>5, <1>6, <1>8, BucketAssumption

(* A slot that is taken is the last one.                                    *)
LEMMA TakenIsLast ==
  ASSUME BucketInv, NEW bg \in BOOLEAN, NEW h, Take(bg, h)
  PROVE  Len(log') > 0 /\ LastTaken' = now
<1>1. log \in Seq(Entry) /\ [at |-> now, bg |-> bg] \in Entry
  BY DEF BucketInv, BucketTypeOK, Entry
<1>2. log' = Append(log, [at |-> now, bg |-> bg])
  BY DEF Take
<1>3. /\ Len(log) \in Nat /\ Len(log') = Len(log) + 1
      /\ log'[Len(log) + 1] = [at |-> now, bg |-> bg]
  BY <1>1, <1>2, LogFacts
<1> QED
  BY <1>3 DEF LastTaken

(* Sleepers stay in time while stamps are only added.                       *)
LEMMA SleepersKept ==
  ASSUME BucketInv, SleepInv, now' = now, NEW w \in Waiter, place[w] = "asleep", place'[w] = "asleep",
         wakeAt'[w] = wakeAt[w],
         \/ UNCHANGED log
         \/ Len(log') > 0 /\ LastTaken' = now
  PROVE  Len(log') > 0 /\ wakeAt'[w] <= LastTaken' + Window /\ now' <= wakeAt'[w] + Lag
<1>1. Len(log) > 0 /\ wakeAt[w] <= LastTaken + Window /\ now <= wakeAt[w] + Lag
  BY DEF SleepInv
<1>2. CASE UNCHANGED log
  BY <1>1, <1>2 DEF LastTaken
<1>3. CASE Len(log') > 0 /\ LastTaken' = now
  BY <1>1, <1>3, PaceFacts
<1> QED
  BY <1>2, <1>3

(* Whoever is served after the busy time was at most a pace behind the last *)
(* stamp.                                                                   *)
LEMMA ServedStep ==
  ASSUME BucketInv, SleepInv, PaceInv, NEW w \in Waiter, now' = now,
         (place[w] = "idle" /\ now < BusyUntil) \/ place[w] = "asleep",
         place' = [place EXCEPT ![w] = "served"], Len(log') > 0, LastTaken' = now
  PROVE  PaceInv'
<1>1. place \in [Waiter -> {"idle", "asleep", "served"}]
  BY DEF BucketInv, BucketTypeOK
<1>2. Served' = Served \cup {w} /\ w \notin Served
  BY <1>1 DEF Served
<1>3. PICK k \in Nat : k = Cardinality(Served)
  BY PaceFacts
<1>4. Cardinality(Served') = k + 1
  BY <1>2, <1>3, PaceFacts, FS_AddElement
<1>5. PICK d \in Nat : d = Pace
  BY PaceFacts
<1>6. (k + 1) * d = k * d + d /\ k * d \in Nat
  BY <1>3, <1>5
<1>7. now < BusyUntil + k * d + d
  <2> DEFINE z == k * d
  <2>z. now \in Nat /\ BusyUntil \in Nat /\ z \in Nat
    BY <1>6, PaceFacts
  <2>1. CASE now < BusyUntil
    <3> HIDE DEF z
    <3>1. now < BusyUntil + z + d
      BY <2>z, <2>1, <1>5
    <3> QED
      BY <3>1 DEF z
  <2>2. CASE place[w] = "asleep"
    <3>1. wakeAt[w] <= LastTaken + Window /\ now <= wakeAt[w] + Lag /\ Len(log) > 0
      BY <2>2 DEF SleepInv
    <3>2. LastTaken < BusyUntil + k * d
      BY <3>1, <1>3, <1>5 DEF PaceInv
    <3>3. d = Window + Lag /\ Window \in Nat /\ Lag \in Nat
      BY <1>5, PaceFacts DEF Pace
    <3>4. LastTaken \in Nat /\ wakeAt[w] \in Nat
      BY <3>1, PaceFacts
    <3> HIDE DEF z
    <3>5. LastTaken < BusyUntil + z
      BY <3>2 DEF z
    <3>6. now < BusyUntil + z + d
      BY <3>1, <3>3, <3>4, <3>5, <2>z
    <3> QED
      BY <3>6 DEF z
  <2> QED
    BY <2>1, <2>2
<1>8. Pace' = Pace
  BY DEF Pace
<1>9. BusyUntil + (k + 1) * d = BusyUntil + k * d + d
  BY <1>6, PaceFacts
<1> QED
  BY <1>4, <1>5, <1>7, <1>8, <1>9 DEF PaceInv

(* Every step keeps the sleepers in time.                                   *)
LEMMA PaceStep ==
  ASSUME BgCap > 0, BucketInv, SleepInv, PaceInv, [BucketNext]_bucketVars
  PROVE  SleepInv' /\ PaceInv'
<1>1. CASE Tick
  <2>1. now' = now + 1 /\ UNCHANGED <<log, place, wakeAt>>
        /\ \A w \in Waiter : place[w] = "asleep" => now < wakeAt[w] + Lag
    BY <1>1 DEF Tick, bucket, waiters
  <2>2. LastTaken' = LastTaken /\ Served' = Served
    BY <2>1 DEF LastTaken, Served
  <2>3. SleepInv'
    BY <2>1, <2>2, PaceFacts DEF SleepInv
  <2> QED
    BY <2>1, <2>2, <2>3 DEF PaceInv, Pace
<1>2. CASE UNCHANGED bucketVars
  BY <1>2 DEF bucketVars, bucket, waiters, SleepInv, PaceInv, LastTaken, Served, Pace
<1>3. ASSUME NEW bg \in BOOLEAN, TryAcquire(bg)
      PROVE  SleepInv' /\ PaceInv'
  <2>1. PICK h \in head..(Len(log) + 1) : Take(bg, h) \/ Refuse(bg, h)
    BY <1>3 DEF TryAcquire
  <2>2. now' = now /\ UNCHANGED <<place, wakeAt>> /\ now < BusyUntil /\ Served' = Served
    BY <1>3 DEF TryAcquire, waiters, Served
  <2>3. UNCHANGED log \/ (Len(log') > 0 /\ LastTaken' = now)
    BY <2>1, TakenIsLast DEF Refuse
  <2>4. SleepInv'
    BY <2>2, <2>3, SleepersKept DEF SleepInv
  <2>5. PaceInv'
    <3>1. CASE UNCHANGED log
      BY <3>1, <2>2 DEF PaceInv, LastTaken, Pace
    <3>2. CASE LastTaken' = now
      <4>1. now < BusyUntil + Cardinality(Served) * Pace
        BY <2>2, PaceFacts
      <4> QED
        BY <3>2, <2>2, <4>1 DEF PaceInv, Pace
    <3> QED
      BY <3>1, <3>2, <2>3
  <2> QED
    BY <2>4, <2>5
<1>4. ASSUME NEW w \in Waiter, AcquireWait(w)
      PROVE  SleepInv' /\ PaceInv'
  <2>1. /\ now' = now /\ place \in [Waiter -> {"idle", "asleep", "served"}]
        /\ wakeAt \in [Waiter -> Nat]
        /\ (place[w] = "idle" /\ now < BusyUntil) \/ place[w] = "asleep"
    BY <1>4 DEF AcquireWait, BucketInv, BucketTypeOK
  <2>2. PICK h \in head..(Len(log) + 1) :
          \/ Take(TRUE, h) /\ place' = [place EXCEPT ![w] = "served"] /\ UNCHANGED wakeAt
          \/ /\ Refuse(TRUE, h)
             /\ place' = [place EXCEPT ![w] = "asleep"]
             /\ wakeAt' = [wakeAt EXCEPT ![w] = now + Later(1, UntilSlot(h))]
    BY <1>4 DEF AcquireWait
  <2>3. CASE Take(TRUE, h) /\ place' = [place EXCEPT ![w] = "served"] /\ UNCHANGED wakeAt
    <3>1. Len(log') > 0 /\ LastTaken' = now
      BY <2>3, TakenIsLast
    <3>2. \A v \in Waiter : place'[v] = "asleep" => place[v] = "asleep" /\ wakeAt'[v] = wakeAt[v]
      BY <2>1, <2>3
    <3>3. SleepInv'
      BY <2>1, <3>1, <3>2, SleepersKept DEF SleepInv
    <3>4. PaceInv'
      BY <2>1, <2>3, <3>1, ServedStep
    <3> QED
      BY <3>3, <3>4
  <2>4. CASE /\ Refuse(TRUE, h)
             /\ place' = [place EXCEPT ![w] = "asleep"]
             /\ wakeAt' = [wakeAt EXCEPT ![w] = now + Later(1, UntilSlot(h))]
    <3>1. /\ UNCHANGED log /\ LastTaken' = LastTaken
          /\ wakeAt'[w] = now + Later(1, UntilSlot(h))
      BY <2>1, <2>4 DEF Refuse, LastTaken
    <3>2. /\ Len(log) > 0 /\ wakeAt'[w] <= LastTaken + Window /\ now <= wakeAt'[w] + Lag
      <4> DEFINE nap == Later(1, UntilSlot(h))
      <4>1. Len(log) > 0 /\ now + nap <= LastTaken + Window /\ nap \in Nat
        BY <2>4, RefusedSleeps
      <4>2. now \in Nat /\ Lag \in Nat
        BY PaceFacts
      <4> HIDE DEF nap
      <4>3. now <= (now + nap) + Lag
        BY <4>1, <4>2
      <4> QED
        BY <3>1, <4>1, <4>3 DEF nap
    <3>3. ASSUME NEW v \in Waiter, v # w, place'[v] = "asleep"
          PROVE  Len(log') > 0 /\ wakeAt'[v] <= LastTaken' + Window /\ now' <= wakeAt'[v] + Lag
      <4>1. place[v] = "asleep" /\ wakeAt'[v] = wakeAt[v]
        BY <2>1, <2>4, <3>3
      <4> QED
        BY <2>1, <3>1, <3>3, <4>1, SleepersKept
    <3>4. SleepInv'
      BY <2>1, <3>1, <3>2, <3>3 DEF SleepInv
    <3>5. Served' = Served
      BY <2>1, <2>4 DEF Served
    <3> QED
      BY <3>1, <3>4, <3>5 DEF PaceInv, Pace
  <2> QED
    BY <2>2, <2>3, <2>4
<1> QED
  BY <1>1, <1>2, <1>3, <1>4 DEF BucketNext

(* With a background share at all, nobody who waits is left waiting: a       *)
(* window and a late resumption for each waiter after the last other call    *)
(* suffice (TokenBucket.acquire_wait).                                       *)
THEOREM ServedCorrect == BgCap > 0 => (BucketSpec => []WaiterServed)
<1> SUFFICES ASSUME BgCap > 0 PROVE BucketSpec => []WaiterServed
  OBVIOUS
<1>1. BucketInit => SleepInv /\ PaceInv
  BY DEF BucketInit, SleepInv, PaceInv
<1>2. BgCap > 0 /\ BucketInv /\ SleepInv /\ PaceInv /\ [BucketNext]_bucketVars => SleepInv' /\ PaceInv'
  BY PaceStep
<1>3. BucketInv /\ SleepInv /\ PaceInv => WaiterServed
  <2> SUFFICES ASSUME BucketInv, SleepInv, PaceInv, NEW w \in Waiter, place[w] = "asleep"
               PROVE  now < BusyUntil + Cardinality(Waiter) * (Window + Lag)
    <3>1. Cardinality(Waiter) \in Nat
      BY WaiterAssumption, FS_CardinalityType
    <3>2. BusyUntil + Cardinality(Waiter) * (Window + Lag) \in Nat
      BY <3>1, BucketAssumption, WaiterAssumption
    <3> QED
      BY <3>2, PaceFacts DEF WaiterServed
  <2>1. PICK k \in Nat : k = Cardinality(Served)
    BY PaceFacts
  <2>2. PICK n \in Nat : n = Cardinality(Waiter)
    BY WaiterAssumption, FS_CardinalityType
  <2>3. k + 1 <= n
    <3>1. Served \cup {w} \subseteq Waiter /\ w \notin Served
      BY DEF Served
    <3>2. Cardinality(Served \cup {w}) = k + 1
      BY <2>1, <3>1, PaceFacts, FS_AddElement
    <3> QED
      BY <2>2, <3>1, <3>2, WaiterAssumption, FS_Subset
  <2>4. PICK d \in Nat : d = Window + Lag
    BY BucketAssumption, WaiterAssumption
  <2>5. PICK m \in Nat : n = k + 1 + m
    <3>1. n - (k + 1) \in Nat /\ n = k + 1 + (n - (k + 1))
      BY <2>3
    <3> QED
      BY <3>1
  <2>6. n * d = k * d + d + m * d /\ k * d \in Nat /\ m * d \in Nat
    BY <2>5, SMT
  <2>7. now <= LastTaken + d /\ LastTaken < BusyUntil + k * d /\ LastTaken \in Nat
    <3>1. Len(log) > 0 /\ wakeAt[w] <= LastTaken + Window /\ now <= wakeAt[w] + Lag
      BY DEF SleepInv
    <3>2. LastTaken < BusyUntil + k * d
      BY <3>1, <2>1, <2>4 DEF PaceInv, Pace
    <3>3. LastTaken \in Nat /\ wakeAt[w] \in Nat /\ now \in Nat /\ Window \in Nat /\ Lag \in Nat
      BY <3>1, PaceFacts
    <3> QED
      BY <3>1, <3>2, <3>3, <2>4
  <2> DEFINE z == k * d
             y == m * d
  <2>8. z \in Nat /\ y \in Nat /\ n * d = z + d + y /\ LastTaken < BusyUntil + z
    BY <2>6, <2>7
  <2> HIDE DEF z, y
  <2>9. now \in Nat /\ BusyUntil \in Nat
    BY PaceFacts
  <2>10. now < BusyUntil + n * d
    BY <2>4, <2>7, <2>8, <2>9
  <2> QED
    BY <2>2, <2>4, <2>10
<1> QED
  BY <1>1, <1>2, <1>3, BucketInvariant, PTL DEF BucketSpec

-------------------------------------------------------------------------------
(* The machine.                                                            *)

(* The report of one call, with the probe loop where it is.                *)
LEMMA FailureStep ==
  ASSUME MonitorInv, NEW r \in Reason, NoteFailure(r), UNCHANGED <<ppc, world>>
  PROVE  MonitorInv' /\ Rank(state') <= Rank(state)
<1> USE MonitorAssumption DEF MonitorInv, MonitorTypeOK, StreakIsRecent, StreakIsBounded, NoteFailure, Failure, world
<1>1. MonitorInv'
  OBVIOUS
<1>2. Rank(state') <= Rank(state)
  BY DEF Rank
<1>3. QED
  BY <1>1, <1>2

(* The report of one success, with the probe loop where it is.             *)
LEMMA SuccessStep ==
  ASSUME MonitorInv, NoteSuccess, UNCHANGED <<ppc, world>>
  PROVE  MonitorInv' /\ good' > 0
<1> USE MonitorAssumption DEF MonitorInv, MonitorTypeOK, StreakIsRecent, StreakIsBounded, NoteSuccess, Success, world
<1>1. CASE state = "cloud"
  BY <1>1
<1>2. CASE state = "offline"
  BY <1>2
<1>3. CASE state = "degraded"
  BY <1>3
<1>4. QED
  BY <1>1, <1>2, <1>3

(* The probe loop: it climbs only on a success of its own.                 *)
LEMMA ProbeStep ==
  ASSUME MonitorInv, Probe
  PROVE  MonitorInv' /\ (Rank(state') > Rank(state) => good' > 0)
<1> USE MonitorAssumption DEF MonitorInv, MonitorTypeOK, StreakIsRecent, StreakIsBounded, world, mvars, Success, Failure
<1>1. CASE ProbeDue
  BY <1>1 DEF ProbeDue, Rank
<1>2. CASE ProbeFailed
  <2>1. MonitorInv'
    BY <1>2 DEF ProbeFailed
  <2>2. Rank(state') <= Rank(state) /\ Rank(state) \in Nat /\ Rank(state') \in Nat
    BY <1>2 DEF ProbeFailed, Rank
  <2>3. QED
    BY <2>1, <2>2
<1>3. CASE ProbeAnswered
  <2>1. CASE state = "degraded"
    BY <1>3, <2>1 DEF ProbeAnswered
  <2>2. CASE state # "degraded"
    BY <1>3, <2>2 DEF ProbeAnswered
  <2>3. QED
    BY <2>1, <2>2
<1>4. CASE SlotGranted
  BY <1>4 DEF SlotGranted, Rank
<1>5. CASE PingFailed
  BY <1>5 DEF PingFailed, Rank
<1>6. CASE PingAnswered
  BY <1>6 DEF PingAnswered
<1>7. QED
  BY <1>1, <1>2, <1>3, <1>4, <1>5, <1>6 DEF Probe

(* The network, the cooldown and the calls that are not modelled one by    *)
(* one.                                                                    *)
LEMMA WorldStep ==
  ASSUME MonitorInv, CooldownOver \/ Trouble \/ Calm \/ UNCHANGED monitor
  PROVE  MonitorInv' /\ state' = state
<1> USE MonitorAssumption DEF MonitorInv, MonitorTypeOK, StreakIsRecent, StreakIsBounded, mvars, world
<1>1. CASE CooldownOver
  BY <1>1 DEF CooldownOver
<1>2. CASE Trouble
  BY <1>2 DEF Trouble
<1>3. CASE Calm
  BY <1>3 DEF Calm
<1>4. CASE UNCHANGED monitor
  BY <1>4 DEF monitor
<1>5. QED
  BY <1>1, <1>2, <1>3, <1>4

(* The machine starts in the cloud with nothing counted.                   *)
LEMMA MonitorStart == MonitorInit => MonitorInv
<1> SUFFICES ASSUME MonitorInit PROVE MonitorInv
  OBVIOUS
<1> USE MonitorAssumption DEF MonitorInit
<1>1. MonitorTypeOK
  <2>1. 0 \in 0..(RecoverAfter + 2)
    OBVIOUS
  <2>2. state \in {"cloud", "degraded", "offline"} /\ cooling \in BOOLEAN
    OBVIOUS
  <2>3. ppc \in {"sleep", "models", "slot", "ping"} /\ net \in {"up", "congested", "down"}
    OBVIOUS
  <2>4. QED
    BY <2>1, <2>2, <2>3 DEF MonitorTypeOK
<1>2. StreakIsRecent /\ StreakIsBounded
  BY DEF StreakIsRecent, StreakIsBounded
<1>3. QED
  BY <1>1, <1>2 DEF MonitorInv

(* Every step keeps the invariant.                                         *)
LEMMA MonitorStep ==
  ASSUME MonitorInv, [MonitorNext]_monitor
  PROVE  MonitorInv' /\ (Rank(state') > Rank(state) => good' > 0)
<1>1. \A s \in {"cloud", "degraded", "offline"} : Rank(s) \in 0..2
  BY DEF Rank
<1>2. state \in {"cloud", "degraded", "offline"}
  BY DEF MonitorInv, MonitorTypeOK
<1>3. CASE Probe
  BY <1>3, ProbeStep
<1>4. CASE CooldownOver \/ Trouble \/ Calm \/ UNCHANGED monitor
  BY <1>1, <1>2, <1>4, WorldStep
<1>5. CASE CallFailed
  <2>1. PICK r \in Reason : NoteFailure(r)
    BY <1>5 DEF CallFailed
  <2>2. MonitorInv' /\ Rank(state') <= Rank(state)
    BY <1>5, <2>1, FailureStep DEF CallFailed
  <2>3. state' \in {"cloud", "degraded", "offline"}
    BY <2>2 DEF MonitorInv, MonitorTypeOK
  <2>4. QED
    BY <1>1, <1>2, <2>2, <2>3
<1>6. CASE CallServed
  BY <1>6, SuccessStep DEF CallServed
<1>7. QED
  BY <1>3, <1>4, <1>5, <1>6 DEF MonitorNext

(* Types, a streak that never counts across a failure, and its bound.      *)
THEOREM MonitorCorrect == MonitorSpec => []MonitorInv
  BY MonitorStart, MonitorStep, PTL DEF MonitorSpec

(* However probes and calls interleave, no success from before the last    *)
(* failure is counted.                                                     *)
THEOREM StreakCorrect == MonitorSpec => []StreakIsRecent
<1>1. MonitorInv => StreakIsRecent
  BY DEF MonitorInv
<1>2. QED
  BY <1>1, MonitorCorrect, PTL

(* No failure report and no failed probe ever raises the state.            *)
THEOREM ClimbCorrect == MonitorSpec => OnlySuccessClimbs
<1> DEFINE Climbs == Rank(state') > Rank(state) => good' > 0
<1>1. MonitorInv /\ [MonitorNext]_monitor => [Climbs]_monitor
  BY MonitorStep
<1>2. QED
  BY <1>1, MonitorCorrect, PTL DEF MonitorSpec, OnlySuccessClimbs
-----------------------------------------------------------------------------
(* The calls.                                                              *)

(* The invariant behind both: every call has its rungs, and a pinned call  *)
(* none left besides the one it is on.                                     *)
CallsInv ==
  /\ DOMAIN stage = Call /\ DOMAIN tier = Call
  /\ DOMAIN queue = Call /\ DOMAIN opened = Call
  /\ \A c \in Call : turn[c].pinned => opened[c] \subseteq {"daily"} /\ queue[c] = <<>>

(* The ladder of a pinned turn is the local brain, in every state.         *)
LEMMA PinnedLadder ==
  ASSUME NEW k, k.pinned
  PROVE  Ladder(k) = <<"daily">>
  BY DEF Ladder, LocalOnly

(* Going down nothing but the local rung, or nothing, opens nothing else   *)
(* and leaves no rung.                                                     *)
LEMMA LocalDescent ==
  ASSUME CallsInv, NEW c \in Call, NEW q, q = <<"daily">> \/ q = <<>>, GoesDown(c, q),
         opened[c] \subseteq {"daily"}
  PROVE  opened'[c] \subseteq {"daily"} /\ queue'[c] = <<>>
<1> USE DEF CallsInv
<1>1. ASSUME NEW t \in Tier, NEW rest \in Rests(q), Lands(q, t, rest)
      PROVE  t = "daily" /\ rest = <<>>
  <2>1. CASE q = <<>>
    BY <1>1, <2>1 DEF Lands, Overflows
  <2>2. CASE q = <<"daily">>
    BY <1>1, <2>2 DEF Lands, Overflows, Nim
  <2>3. QED
    BY <2>1, <2>2
<1>2. QED
  BY <1>1 DEF GoesDown

(* A step down disturbs no other call.                                     *)
LEMMA OthersStay ==
  ASSUME CallsInv, NEW c \in Call, NEW q, GoesDown(c, q), NEW d \in Call, d # c
  PROVE  opened'[d] = opened[d] /\ queue'[d] = queue[d] /\ stage'[d] = stage[d] /\ tier'[d] = tier[d]
  BY DEF CallsInv, GoesDown

(* A step down keeps every call.                                           *)
LEMMA DomainsStay ==
  ASSUME CallsInv, NEW c \in Call, NEW q, GoesDown(c, q)
  PROVE  DOMAIN stage' = Call /\ DOMAIN tier' = Call /\ DOMAIN queue' = Call /\ DOMAIN opened' = Call
  BY DEF CallsInv, GoesDown

(* A step down keeps pinned calls on the local rung.                       *)
LEMMA DescentKeeps ==
  ASSUME CallsInv, NEW c \in Call, NEW q, GoesDown(c, q),
         turn[c].pinned => q = <<"daily">> \/ q = <<>>
  PROVE  CallsInv'
<1>1. turn' = turn
  BY DEF GoesDown
<1>2. ASSUME NEW d \in Call, turn[d].pinned
      PROVE  opened'[d] \subseteq {"daily"} /\ queue'[d] = <<>>
  <2>1. CASE d = c
    BY <1>2, <2>1, LocalDescent DEF CallsInv
  <2>2. CASE d # c
    BY <1>2, <2>2, OthersStay DEF CallsInv
  <2>3. QED
    BY <2>1, <2>2
<1>3. QED
  BY <1>1, <1>2, DomainsStay DEF CallsInv

(* A chunk, an end or a failure in the middle opens no rung.               *)
LEMMA MoveKeeps ==
  ASSUME CallsInv, NEW c \in Call, NEW pc, Moves(c, pc)
  PROVE  CallsInv'
  BY DEF CallsInv, Moves, begun

(* No call has begun.                                                      *)
LEMMA CallsStart == RouterInit => CallsInv
  BY DEF RouterInit, CallsInv

(* Every step keeps the invariant of the calls.                            *)
LEMMA CallsStep == CallsInv /\ [RouterNext]_rvars => CallsInv'
<1> SUFFICES ASSUME CallsInv, [RouterNext]_rvars PROVE CallsInv'
  OBVIOUS
<1>1. CASE (Probe \/ CooldownOver \/ Trouble \/ Calm \/ CallFailed \/ CallServed)
           /\ UNCHANGED <<game, toggles, rung, begun, switched>>
  BY <1>1 DEF CallsInv, rung, begun
<1>2. CASE Toggle
  BY <1>2 DEF Toggle, CallsInv, rung, begun
<1>3. ASSUME NEW c \in Call, Start(c)
      PROVE  CallsInv'
  BY <1>3, PinnedLadder, DescentKeeps DEF Start
<1>4. ASSUME NEW c \in Call, FirstTimeout(c) \/ Refused(c) \/ EmptyReply(c)
      PROVE  CallsInv'
  <2>1. turn[c].pinned => queue[c] = <<>>
    BY DEF CallsInv
  <2>2. GoesDown(c, queue[c])
    BY <1>4 DEF FirstTimeout, Refused, EmptyReply
  <2>3. QED
    BY <2>1, <2>2, DescentKeeps
<1>5. ASSUME NEW c \in Call,
             FirstChunk(c) \/ StreamEnds(c) \/ Stalls(c) \/ Breaks(c) \/ Dropped(c)
      PROVE  CallsInv'
  BY <1>5, MoveKeeps DEF FirstChunk, StreamEnds, Stalls, Breaks, Dropped
<1>6. CASE UNCHANGED rvars
  BY <1>6 DEF rvars, rung, begun, CallsInv
<1>7. QED
  BY <1>1, <1>2, <1>3, <1>4, <1>5, <1>6 DEF RouterNext, Timer, Stream

(* The invariant of the calls always holds.                                *)
LEMMA CallsCorrect == RouterSpec => []CallsInv
  BY CallsStart, CallsStep, PTL DEF RouterSpec

(* A pinned call never reaches a cloud provider, whatever the network, the *)
(* bucket, the monitor and the game mode do while it runs.                 *)
THEOREM PinnedCorrect == RouterSpec => []PinnedStaysLocal
<1>1. CallsInv => PinnedStaysLocal
  BY DEF CallsInv, PinnedStaysLocal
<1>2. QED
  BY <1>1, CallsCorrect, PTL

(* What a step may do to a call that is speaking.                          *)
SpeaksOn(c) ==
  stage[c] = "stream" =>
    tier'[c] = tier[c] /\ opened'[c] = opened[c] /\ stage'[c] \in {"stream"} \union Ended

(* A move of one call keeps every call that is speaking on its rung.       *)
LEMMA MoveSpeaks ==
  ASSUME CallsInv, NEW c \in Call, NEW pc \in {"stream"} \union Ended, Moves(c, pc), NEW d \in Call
  PROVE  SpeaksOn(d)
  BY DEF CallsInv, Moves, SpeaksOn

(* A call that goes down its rungs was not speaking.                       *)
LEMMA DescentSpeaks ==
  ASSUME CallsInv, NEW c \in Call, NEW q, GoesDown(c, q), stage[c] # "stream", NEW d \in Call
  PROVE  SpeaksOn(d)
<1>1. CASE d = c
  BY <1>1 DEF SpeaksOn
<1>2. CASE d # c
  BY <1>2, OthersStay DEF SpeaksOn
<1>3. QED
  BY <1>1, <1>2

(* Every step leaves a speaking call on its rung.                          *)
LEMMA SpeaksStep ==
  ASSUME CallsInv, [RouterNext]_rvars, NEW d \in Call
  PROVE  SpeaksOn(d)
<1>1. CASE (Probe \/ CooldownOver \/ Trouble \/ Calm \/ CallFailed \/ CallServed)
           /\ UNCHANGED <<game, toggles, rung, begun, switched>>
  BY <1>1 DEF SpeaksOn, rung
<1>2. CASE Toggle
  BY <1>2 DEF Toggle, SpeaksOn, rung
<1>3. ASSUME NEW c \in Call, Start(c) \/ FirstTimeout(c) \/ Refused(c) \/ EmptyReply(c)
      PROVE  SpeaksOn(d)
  <2>1. stage[c] # "stream" /\ \E q : GoesDown(c, q)
    BY <1>3 DEF Start, FirstTimeout, Refused, EmptyReply
  <2>2. QED
    BY <2>1, DescentSpeaks
<1>4. ASSUME NEW c \in Call,
             FirstChunk(c) \/ StreamEnds(c) \/ Stalls(c) \/ Breaks(c) \/ Dropped(c)
      PROVE  SpeaksOn(d)
  <2>1. \E pc \in {"stream"} \union Ended : Moves(c, pc)
    BY <1>4 DEF FirstChunk, StreamEnds, Stalls, Breaks, Dropped, Ended
  <2>2. QED
    BY <2>1, MoveSpeaks
<1>5. CASE UNCHANGED rvars
  BY <1>5 DEF rvars, rung, SpeaksOn
<1>6. QED
  BY <1>1, <1>2, <1>3, <1>4, <1>5 DEF RouterNext, Timer, Stream

(* No reply is begun by one brain and continued or repeated by another.    *)
THEOREM OneVoiceCorrect == RouterSpec => OneVoice
<1>1. CallsInv /\ [RouterNext]_rvars =>
        [\A c \in Call : stage[c] = "stream" =>
           tier'[c] = tier[c] /\ opened'[c] = opened[c] /\ stage'[c] \in {"stream"} \union Ended]_rvars
  BY SpeaksStep DEF SpeaksOn
<1>2. QED
  BY <1>1, CallsCorrect, PTL DEF RouterSpec, OneVoice
-----------------------------------------------------------------------------
(* The local brain is somewhere: already asked, or on the rungs left.      *)
Among(q) == \E i \in 1 .. Len(q) : q[i] = "daily"
Hopeful(c) == "daily" \in opened[c] \/ Among(queue[c])

(* A call whose mode nobody switched was begun in the mode that rules, and *)
(* outside of game mode it has the local brain yet to ask, or has asked it.*)
HonestInv ==
  /\ DOMAIN gameAtStart = Call /\ DOMAIN switched = Call
  /\ \A c \in Call : queue[c] \in Seq(Tier)
  /\ \A c \in Call : ~switched[c] =>
       /\ stage[c] \in Live => (gameAtStart[c] <=> game) /\ (~game => Hopeful(c))
       /\ stage[c] = "raised" => ~gameAtStart[c] /\ "daily" \in opened[c]
       /\ stage[c] = "honest" => gameAtStart[c]

(* No call has begun.                                                      *)
LEMMA HonestStart == RouterInit => HonestInv
  BY DEF RouterInit, HonestInv, Live

(* Outside of game mode every ladder has the local rung.                   *)
LEMMA LadderHasLocal ==
  ASSUME NEW k
  PROVE  /\ Ladder(k) \in Seq(Tier)
         /\ ~game => Among(Ladder(k))
<1>a. {"nim_heavy", "nim_primary", "backstop", "daily"} \subseteq Tier
  BY DEF Tier, Cloud, Nim
<1>1. NimRungs(k) \in Seq(Tier)
  <2>1. <<"nim_primary">> \in Seq(Tier) /\ <<"nim_heavy", "nim_primary">> \in Seq(Tier)
    BY <1>a
  <2> QED
    BY <2>1 DEF NimRungs
<1>2. ASSUME NEW q \in Seq(Tier), NEW r \in {<<"backstop">>, <<"backstop", "daily">>, <<"daily">>}
      PROVE  q \o r \in Seq(Tier) /\ (r # <<"backstop">> => Among(q \o r))
  <2>1. r \in Seq(Tier)
    <3>1. /\ <<"backstop">> \in Seq(Tier) /\ <<"backstop", "daily">> \in Seq(Tier)
          /\ <<"daily">> \in Seq(Tier)
      BY <1>a
    <3> QED
      BY <3>1
  <2>2. q \o r \in Seq(Tier) /\ Len(q \o r) = Len(q) + Len(r)
        /\ \A i \in 1 .. Len(r) : (q \o r)[Len(q) + i] = r[i]
    BY <2>1
  <2>3. r # <<"backstop">> => Len(r) \in 1 .. Len(r) /\ r[Len(r)] = "daily"
    OBVIOUS
  <2> QED
    BY <2>1, <2>2, <2>3 DEF Among
<1>3. /\ <<"daily">> \in Seq(Tier) /\ <<"backstop", "daily">> \in Seq(Tier)
      /\ Among(<<"daily">>) /\ Among(<<"backstop", "daily">>)
  BY DEF Tier, Cloud, Among
<1>4. \/ Ladder(k) \in {<<"daily">>, <<"backstop", "daily">>, NimRungs(k) \o <<"backstop", "daily">>,
                       NimRungs(k) \o <<"daily">>}
      \/ game /\ Ladder(k) = NimRungs(k) \o <<"backstop">>
  BY DEF Ladder
<1> QED
  BY <1>1, <1>2, <1>3, <1>4

(* Going down rungs among which the local one is, or after it was asked.   *)
LEMMA DescentHopes ==
  ASSUME CallsInv, NEW c \in Call, NEW q \in Seq(Tier), GoesDown(c, q)
  PROVE  /\ queue'[c] \in Seq(Tier)
         /\ ~game /\ (Among(q) \/ "daily" \in opened[c]) =>
              /\ stage'[c] \in Live => Hopeful(c)'
              /\ stage'[c] = "raised" => "daily" \in opened'[c]
         /\ stage'[c] \in Live \union {"raised", "honest"}
         /\ stage'[c] = "raised" => ~game
         /\ stage'[c] = "honest" => game
<1> USE DEF CallsInv
<1>1. ASSUME NEW t \in Tier, NEW rest \in Rests(q), Lands(q, t, rest),
             tier' = [tier EXCEPT ![c] = t], queue' = [queue EXCEPT ![c] = rest],
             opened' = [opened EXCEPT ![c] = @ \union {t}],
             stage' = [stage EXCEPT ![c] = IF rest = <<>> THEN "last" ELSE "first"]
      PROVE  /\ queue'[c] \in Seq(Tier) /\ stage'[c] \in {"first", "last"}
             /\ Among(q) \/ "daily" \in opened[c] => Hopeful(c)'
  <2>1. queue'[c] = rest /\ opened'[c] = opened[c] \union {t} /\ stage'[c] \in {"first", "last"}
    BY <1>1
  <2>2. PICK n \in 0 .. Len(q) : rest = SubSeq(q, n + 1, Len(q))
    BY DEF Rests
  <2>a. rest \in Seq(Tier)
    BY <2>2
  <2>3. Among(q) => t = "daily" \/ Among(rest)
    <3>1. CASE t = "daily"
      BY <3>1
    <3>2. ASSUME Among(q), NEW i \in 1 .. Len(q), Skipped(q, i), t = q[i],
                 rest = SubSeq(q, i + 1, Len(q)), t # "daily"
          PROVE  Among(rest)
      <4>1. PICK j \in 1 .. Len(q) : q[j] = "daily"
        BY <3>2 DEF Among
      <4>2. j > i
        BY <3>2, <4>1 DEF Skipped
      <4>3. Len(rest) = Len(q) - i /\ j - i \in 1 .. Len(rest) /\ rest[j - i] = q[j]
        BY <3>2, <4>2
      <4> QED
        BY <4>1, <4>3 DEF Among
    <3> QED
      BY <1>1, <3>1, <3>2 DEF Lands
  <2> QED
    BY <2>1, <2>a, <2>3 DEF Hopeful
<1>2. ASSUME RunsOut(q), stage' = [stage EXCEPT ![c] = IF game THEN "honest" ELSE "raised"],
             queue' = [queue EXCEPT ![c] = <<>>], UNCHANGED <<tier, opened>>
      PROVE  /\ queue'[c] \in Seq(Tier) /\ stage'[c] = IF game THEN "honest" ELSE "raised"
             /\ ~game /\ (Among(q) \/ "daily" \in opened[c]) => "daily" \in opened'[c]
  BY <1>2 DEF RunsOut, Skipped, Among
<1> QED
  BY <1>1, <1>2 DEF GoesDown, Live

(* A call that goes down keeps its hope, or ends honestly.                 *)
LEMMA DescentHonest ==
  ASSUME CallsInv, HonestInv, NEW c \in Call, NEW q \in Seq(Tier), GoesDown(c, q),
         gameAtStart' = gameAtStart, stage[c] \in Live, q = queue[c]
  PROVE  HonestInv'
<1>1. /\ game' = game /\ switched' = switched
      /\ \A d \in Call : d # c => opened'[d] = opened[d] /\ queue'[d] = queue[d] /\ stage'[d] = stage[d]
  BY OthersStay DEF GoesDown
<1>2. ~switched[c] => (gameAtStart[c] <=> game) /\ (~game => Among(q) \/ "daily" \in opened[c])
  BY DEF HonestInv, Hopeful
<1> QED
  BY <1>1, <1>2, DescentHopes DEF HonestInv, Hopeful, Live

(* A new call starts with the whole ladder before it.                      *)
LEMMA StartHonest ==
  ASSUME CallsInv, HonestInv, NEW c \in Call, Start(c)
  PROVE  HonestInv'
<1>1. GoesDown(c, Ladder(turn[c])) /\ gameAtStart' = [gameAtStart EXCEPT ![c] = game]
  BY DEF Start
<1>2. /\ game' = game /\ switched' = switched
      /\ \A d \in Call : d # c => opened'[d] = opened[d] /\ queue'[d] = queue[d] /\ stage'[d] = stage[d]
  BY <1>1, OthersStay DEF GoesDown
<1>3. /\ gameAtStart'[c] = game /\ DOMAIN gameAtStart' = Call
      /\ \A d \in Call : d # c => gameAtStart'[d] = gameAtStart[d]
  BY <1>1 DEF HonestInv
<1> QED
  BY <1>1, <1>2, <1>3, LadderHasLocal, DescentHopes DEF HonestInv, Hopeful, Live

(* A call that has spoken can end in any way.                              *)
LEMMA MoveHonest ==
  ASSUME CallsInv, HonestInv, NEW c \in Call,
         NEW pc \in {"stream", "served", "broken", "dropped"}, Moves(c, pc), stage[c] \in Live
  PROVE  HonestInv'
<1>1. /\ UNCHANGED <<queue, opened, gameAtStart, switched, game>> /\ stage'[c] = pc
      /\ \A d \in Call : d # c => stage'[d] = stage[d]
  BY DEF CallsInv, Moves, begun
<1> QED
  BY <1>1 DEF HonestInv, Hopeful, Live

(* A switch counts against every call that is under way.                   *)
LEMMA ToggleHonest ==
  ASSUME HonestInv, Toggle
  PROVE  HonestInv'
<1>1. /\ UNCHANGED <<queue, opened, gameAtStart, stage>> /\ DOMAIN switched' = Call
      /\ \A c \in Call : ~switched'[c] => ~switched[c] /\ stage[c] \notin Live
  BY DEF Toggle, rung, begun, HonestInv
<1> QED
  BY <1>1 DEF HonestInv

(* Every step of calls, monitor and owner keeps the calls honest.          *)
LEMMA HonestStep == CallsInv /\ HonestInv /\ [RouterNext]_rvars => HonestInv'
<1> SUFFICES ASSUME CallsInv, HonestInv, [RouterNext]_rvars PROVE HonestInv'
  OBVIOUS
<1>1. CASE UNCHANGED <<game, toggles, rung, begun, switched>>
  BY <1>1 DEF HonestInv, Hopeful, rung, begun
<1>2. ASSUME NEW c \in Call, FirstTimeout(c) \/ Refused(c) \/ EmptyReply(c)
      PROVE  HonestInv'
  <2>1. GoesDown(c, queue[c]) /\ gameAtStart' = gameAtStart /\ stage[c] \in Live
    BY <1>2 DEF FirstTimeout, Refused, EmptyReply, Live
  <2>2. queue[c] \in Seq(Tier)
    BY DEF HonestInv
  <2> QED
    BY <2>1, <2>2, DescentHonest
<1>3. ASSUME NEW c \in Call, FirstChunk(c) \/ StreamEnds(c) \/ Stalls(c) \/ Breaks(c) \/ Dropped(c)
      PROVE  HonestInv'
  <2>1. stage[c] \in Live /\ \E pc \in {"stream", "served", "broken", "dropped"} : Moves(c, pc)
    BY <1>3 DEF FirstChunk, StreamEnds, Stalls, Breaks, Dropped, Live
  <2> QED
    BY <2>1, MoveHonest
<1> QED
  BY <1>1, <1>2, <1>3, StartHonest, ToggleHonest DEF RouterNext, Timer, Stream, rvars

(* Unless the game mode was switched under it, a call fails without a word *)
(* only after the local brain was asked, and in game mode it says so.      *)
THEOREM HonestCorrect == RouterSpec => []LocalOrHonest
<1>1. HonestInv => LocalOrHonest
  BY DEF HonestInv, LocalOrHonest
<1> QED
  BY <1>1, CallsStart, CallsStep, HonestStart, HonestStep, PTL DEF RouterSpec
-------------------------------------------------------------------------------
(* The game mode.                                                          *)

(* In game mode whoever may still free the memory is on its way, and no    *)
(* reply that would keep it was begun there.                               *)
FreeingInv ==
  /\ mode = "on" /\ weights = "loaded" /\ cause = "none" => unloads > 0 \/ watch = "switching"
  /\ replies["camping"] = 0

(* What the watcher holds, or will hold, to be its own is a mode that is on *)
(* and that it began, until the owner ends it.                             *)
HoldsItsOwn ==
  (auto = "ours" \/ watch = "switching") /\ ~parted => mode = "on" /\ by = "watch"

GameInv == GameTypeOK /\ HoldsItsOwn /\ FreeingInv

(* A boot in cloud mode has its unload on the way.                         *)
LEMMA GameStart == GameInit => GameInv
<1> SUFFICES ASSUME GameInit PROVE GameInv
  OBVIOUS
<1>1. GameTypeOK
  <2>1. replies \in [Keep -> Nat]
    BY DEF GameInit
  <2>2. QED
    BY <2>1 DEF GameInit, GameTypeOK
<1>2. HoldsItsOwn
  BY DEF GameInit, HoldsItsOwn
<1>3. FreeingInv
  BY DEF GameInit, FreeingInv, Keep
<1>4. QED
  BY <1>1, <1>2, <1>3 DEF GameInv

(* The switches and the answers to the requests they sent.                 *)
LEMMA SwitchStep ==
  ASSUME GameInv, OwnerTurnsOn \/ OwnerTurnsOff \/ Unloaded \/ Rewarmed
  PROVE  GameInv'
<1>1. CASE OwnerTurnsOn
  BY <1>1, GameAssumption
     DEF OwnerTurnsOn, TurnsOn, GameInv, GameTypeOK, HoldsItsOwn, FreeingInv, flag, watchv
<1>2. CASE OwnerTurnsOff
  <2>1. GameTypeOK'
    <3>1. parted' \in BOOLEAN
      BY <1>2 DEF OwnerTurnsOff, GameInv, GameTypeOK
    <3>2. rewarms' \in Nat /\ switches' \in Nat
      BY <1>2, GameAssumption DEF OwnerTurnsOff, TurnsOff, GameInv, GameTypeOK
    <3>3. QED
      BY <1>2, <3>1, <3>2 DEF OwnerTurnsOff, TurnsOff, GameInv, GameTypeOK, watchv
  <2>2. HoldsItsOwn'
    BY <1>2 DEF OwnerTurnsOff, TurnsOff, HoldsItsOwn, watchv
  <2>3. FreeingInv'
    BY <1>2 DEF OwnerTurnsOff, TurnsOff, GameInv, FreeingInv
  <2>4. QED
    BY <2>1, <2>2, <2>3 DEF GameInv
<1>3. CASE Unloaded
  BY <1>3, GameAssumption
     DEF Unloaded, Frees, GameInv, GameTypeOK, HoldsItsOwn, FreeingInv, flag, watchv
<1>4. CASE Rewarmed
  BY <1>4, GameAssumption
     DEF Rewarmed, GameInv, GameTypeOK, HoldsItsOwn, FreeingInv, flag, watchv
<1>5. QED
  BY <1>1, <1>2, <1>3, <1>4

(* Local replies, which ask for a keep_alive of zero in game mode.         *)
LEMMA ReplyStep ==
  ASSUME GameInv, LocalReply \/ \E k \in Keep : LocalReplyEnds(k)
  PROVE  GameInv'
<1>1. CASE LocalReply
  BY <1>1
     DEF LocalReply, KeepAlive, GameInv, GameTypeOK, HoldsItsOwn, FreeingInv, flag, watchv, Keep
<1>2. ASSUME NEW k \in Keep, LocalReplyEnds(k) PROVE GameInv'
  BY <1>2
     DEF LocalReplyEnds, GameInv, GameTypeOK, HoldsItsOwn, FreeingInv, flag, watchv, Keep
<1>3. QED
  BY <1>1, <1>2

(* The health checks and the watcher.                                      *)
LEMMA WatchStep ==
  ASSUME GameInv,
         Check \/ Checked \/ Look \/ AutoOn \/ AutoUnloaded \/ AutoOff \/ NothingToDo \/ Foreground
  PROVE  GameInv'
<1>1. CASE Check \/ Checked
  BY <1>1, GameAssumption
     DEF Check, Checked, GameInv, GameTypeOK, HoldsItsOwn, FreeingInv, flag, watchv, gpu
<1>2. CASE Look \/ NothingToDo \/ Foreground
  BY <1>2, GameAssumption
     DEF Look, NothingToDo, Foreground, GameInv, GameTypeOK, HoldsItsOwn, FreeingInv, flag, watchv, gpu
<1>3. CASE AutoOn
  BY <1>3, GameAssumption
     DEF AutoOn, TurnsOn, GameInv, GameTypeOK, HoldsItsOwn, FreeingInv, flag, watchv, gpu
<1>4. CASE AutoUnloaded
  BY <1>4, GameAssumption
     DEF AutoUnloaded, Frees, GameInv, GameTypeOK, HoldsItsOwn, FreeingInv, flag, watchv, gpu
<1>5. CASE AutoOff
  <2>1. GameTypeOK'
    <3>1. rewarms' \in Nat
      BY <1>5, GameAssumption DEF AutoOff, TurnsOff, GameInv, GameTypeOK
    <3>2. QED
      BY <1>5, <3>1 DEF AutoOff, TurnsOff, GameInv, GameTypeOK
  <2>2. HoldsItsOwn'
    BY <1>5 DEF AutoOff, HoldsItsOwn
  <2>3. FreeingInv'
    BY <1>5 DEF AutoOff, TurnsOff, GameInv, FreeingInv
  <2>4. QED
    BY <2>1, <2>2, <2>3 DEF GameInv
<1>6. QED
  BY <1>1, <1>2, <1>3, <1>4, <1>5

(* The inductive invariant of the game mode holds in every reachable state. *)
THEOREM GameCorrect == GameSpec => []GameInv
<1>1. GameInv /\ [GameNext]_gameVars => GameInv'
  <2> SUFFICES ASSUME GameInv, [GameNext]_gameVars PROVE GameInv'
    OBVIOUS
  <2>1. CASE UNCHANGED gameVars
    BY <2>1 DEF gameVars, flag, watchv, gpu, GameInv, GameTypeOK, HoldsItsOwn, FreeingInv
  <2>2. CASE GameNext
    BY <2>2, SwitchStep, ReplyStep, WatchStep DEF GameNext
  <2>3. QED
    BY <2>1, <2>2
<1>2. QED
  BY <1>1, GameStart, PTL DEF GameSpec

(* The watcher ends a mode that the owner switched on only where the owner *)
(* had ended one of the watcher's before, which it goes on believing to be *)
(* its own.                                                                *)
THEOREM WatchCorrect == GameSpec => ManualModeStands
<1>1. GameInv /\ [GameNext]_gameVars => [AutoOff => by = "watch" \/ parted]_gameVars
  BY DEF GameInv, HoldsItsOwn, AutoOff
<1>2. QED
  BY <1>1, GameCorrect, PTL DEF GameSpec, ManualModeStands

(* Only a failed unload, or what began before the mode and ended in it,    *)
(* leaves the local brain in the memory that game mode gave away.          *)
THEOREM MemoryCorrect == GameSpec => []MemoryIsFreed
<1>1. GameInv => MemoryIsFreed
  BY DEF GameInv, GameTypeOK, FreeingInv, MemoryIsFreed
<1>2. QED
  BY <1>1, GameCorrect, PTL
===============================================================================
