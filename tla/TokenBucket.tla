---------------------------- MODULE TokenBucket ----------------------------
(***************************************************************************)
(* core/ratelimit.py: the sliding-window limiter all NIM traffic shares.   *)
(*                                                                         *)
(* Time is counted in ticks of one poll interval (0.25 s in the code).     *)
(* The deque _stamps only ever loses its oldest entries, so it is the part *)
(* of the log of all acquisitions from `head` on: popleft advances head.   *)
(***************************************************************************)
EXTENDS Naturals, Sequences, FiniteSets

CONSTANTS Rpm,              \* slots per window
          BgCap,            \* int(rpm * background_share)
          Window,           \* the window's length in ticks (60 s)
          Waiter,           \* callers of acquire_wait, background ones
          MaxTake,          \* bound: acquisitions by try_acquire callers
          BusyUntil,        \* bound: the tick from which nobody calls anew
          Lag,              \* bound: how many ticks late a sleeper resumes
          MaxTime           \* bound: the clock

ASSUME BucketAssumption ==
  /\ Rpm \in Nat \ {0}
  /\ BgCap \in 0..Rpm
  /\ Window \in Nat \ {0}

ASSUME WaiterAssumption ==
  /\ IsFiniteSet(Waiter)
  /\ {BusyUntil, Lag} \subseteq Nat

VARIABLES now,              \* time.monotonic()
          log,              \* history: every acquisition, with its tick
          head,             \* the entries of _stamps are log[head..Len(log)]
          place,              \* where each acquire_wait call is
          wakeAt            \* when its sleep is over

bucket == <<log, head>>
waiters == <<place, wakeAt>>
bucketVars == <<now, bucket, waiters>>

Entry == [at : Nat, bg : BOOLEAN]

BucketTypeOK ==
  /\ now \in Nat
  /\ log \in Seq(Entry)
  /\ head \in 1..(Len(log) + 1)
  /\ place \in [Waiter -> {"idle", "asleep", "served"}]
  /\ wakeAt \in [Waiter -> Nat]

BucketInit ==
  /\ now = 0
  /\ log = <<>>
  /\ head = 1
  /\ place = [w \in Waiter |-> "idle"]
  /\ wakeAt = [w \in Waiter |-> 0]

-----------------------------------------------------------------------------
Expired(i) == now - log[i].at >= Window

(* Mutant: a stamp leaves one tick early.                                  *)
PrunedEarly(h) ==
  /\ h \in head..(Len(log) + 1)
  /\ \A i \in head..(h - 1) : now - log[i].at >= Window - 1
  /\ h <= Len(log) => ~(now - log[h].at >= Window - 1)

(* Mutant: nothing ever leaves.                                            *)
PrunedNever(h) == h = head

(* _prune: the oldest stamps go while they are a window old.               *)
Pruned(h) ==
  /\ h \in head..(Len(log) + 1)
  /\ \A i \in head..(h - 1) : Expired(i)
  /\ h <= Len(log) => ~Expired(h)

Held(h)           == Len(log) + 1 - h
HeldBackground(h) == {i \in h..Len(log) : log[i].bg}

(* May a caller take a slot once the deque starts at h?                    *)
Admits(h, bg) ==
  /\ Held(h) < Rpm
  /\ bg => Cardinality(HeldBackground(h)) < BgCap

Take(bg, h) ==
  /\ Pruned(h) /\ Admits(h, bg)
  /\ head' = h
  /\ log' = Append(log, [at |-> now, bg |-> bg])

Refuse(bg, h) ==
  /\ Pruned(h) /\ ~Admits(h, bg)
  /\ head' = h
  /\ UNCHANGED log

(* seconds_until_slot, for a deque that starts at h.                       *)
UntilSlot(h) == IF Held(h) < Rpm THEN 0 ELSE Window - (now - log[h].at)

Later(a, b) == IF a < b THEN b ELSE a

-----------------------------------------------------------------------------
(* The router and the probe: take a slot now or do without.                *)
TryAcquire(bg) ==
  /\ now < BusyUntil /\ Len(log) < MaxTake
  /\ \E h \in head..(Len(log) + 1) : Take(bg, h) \/ Refuse(bg, h)
  /\ UNCHANGED <<now, waiters>>

(* acquire_wait: try, and sleep until the window may have a slot; a caller *)
(* that only the background share refuses polls.                           *)
AcquireWait(w) ==
  /\ \/ place[w] = "idle" /\ now < BusyUntil
     \/ place[w] = "asleep" /\ now >= wakeAt[w]
  /\ \E h \in head..(Len(log) + 1) :
       \/ /\ Take(TRUE, h)
          /\ place' = [place EXCEPT ![w] = "served"]
          /\ UNCHANGED wakeAt
       \/ /\ Refuse(TRUE, h)
          /\ place' = [place EXCEPT ![w] = "asleep"]
          /\ wakeAt' = [wakeAt EXCEPT ![w] = now + Later(1, UntilSlot(h))]
  /\ UNCHANGED now

Tick ==
  /\ now < MaxTime
  /\ \A w \in Waiter : place[w] = "asleep" => now < wakeAt[w] + Lag
  /\ now' = now + 1
  /\ UNCHANGED <<bucket, waiters>>

BucketNext ==
  \/ Tick
  \/ \E bg \in BOOLEAN : TryAcquire(bg)
  \/ \E w \in Waiter : AcquireWait(w)

BucketSpec == BucketInit /\ [][BucketNext]_bucketVars

-----------------------------------------------------------------------------
(* Properties.                                                             *)

(* The acquisitions of a log s in the window that ends with the i-th one.  *)
InWindow(s, i) == {j \in 1..i : s[i].at - s[j].at < Window}

(* Whatever instant a slot is taken at, the window that ends there holds   *)
(* at most Rpm acquisitions, stamps dropped from the deque included.       *)
RateHeld == \A i \in 1..Len(log) : Cardinality(InWindow(log, i)) <= Rpm

(* ... and, when it is a background caller's, at most BgCap background     *)
(* ones: the rest of every window is kept for interactive turns.           *)
BackgroundHeld ==
  \A i \in 1..Len(log) :
    log[i].bg => Cardinality({j \in InWindow(log, i) : log[j].bg}) <= BgCap

(* A background caller that waits is served at most a window and a late    *)
(* resumption per waiter after the others rest: the sleep never overshoots *)
(* into missing the slot, the poll never gives up.                         *)
WaiterServed ==
  now >= BusyUntil + Cardinality(Waiter) * (Window + Lag) =>
    \A w \in Waiter : place[w] # "asleep"

-----------------------------------------------------------------------------
(* The inductive invariant: the log is in time order, and what the deque   *)
(* no longer holds is out of the window.                                   *)
OrderInv ==
  /\ \A i, j \in 1..Len(log) : i <= j => log[i].at <= log[j].at
  /\ \A i \in 1..Len(log) : log[i].at <= now
  /\ \A i \in 1..(head - 1) : Expired(i)

BucketInv ==
  /\ BucketTypeOK
  /\ OrderInv
  /\ RateHeld
  /\ BackgroundHeld
=============================================================================
