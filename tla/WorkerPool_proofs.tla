-------------------------- MODULE WorkerPool_proofs --------------------------
(* Proofs about WorkerPool, for every number of tasks, workers, cancel     *)
(* calls and outages.                                                      *)
EXTENDS WorkerPool, TLAPS

(* What is left of a queue without its head.                               *)
LEMMA TailFacts ==
  ASSUME NEW S, NEW s \in Seq(S), s # <<>>
  PROVE  /\ Tail(s) \in Seq(S)
         /\ Len(Tail(s)) = Len(s) - 1
         /\ Len(s) \in Nat \ {0}
         /\ Head(s) = s[1]
         /\ \A i \in 1..Len(Tail(s)) : Tail(s)[i] = s[i + 1]
  OBVIOUS

(* A queue with one request more.                                          *)
LEMMA AppendFacts ==
  ASSUME NEW S, NEW s \in Seq(S), NEW e \in S
  PROVE  /\ Append(s, e) \in Seq(S)
         /\ Len(Append(s, e)) = Len(s) + 1
         /\ Len(s) \in Nat
         /\ Append(s, e)[Len(s) + 1] = e
         /\ \A i \in 1..Len(s) : Append(s, e)[i] = s[i]
  OBVIOUS

(* Every request that is queued has the shape its server expects.          *)
LEMMA RequestFacts ==
  /\ \A w \in Worker : [op |-> "claim", who |-> w] \in Request
  /\ \A t \in Task : [op |-> "conversation", who |-> t] \in Request
  /\ \A t \in Task : [op |-> "update", who |-> t] \in Request
  /\ \A t \in Task : [op |-> "event", who |-> t] \in Request
  /\ \A k \in Canceller : [op |-> "get", who |-> k] \in Request
  /\ \A k \in Canceller : [op |-> "overwrite", who |-> k] \in Request
  BY DEF Request

(* The head of a queue that is not empty.                                  *)
LEMMA HeadFacts ==
  ASSUME dbq \in Seq(Request), dbq # <<>>
  PROVE  /\ Tail(dbq) \in Seq(Request)
         /\ Head(dbq) \in Request
         /\ Head(dbq).op = "claim" => Head(dbq).who \in Worker
         /\ Head(dbq).op \in {"conversation", "update", "event"} => Head(dbq).who \in Task
         /\ Head(dbq).op \in {"get", "overwrite"} => Head(dbq).who \in Canceller
<1>1. Tail(dbq) \in Seq(Request) /\ Head(dbq) \in Request
  OBVIOUS
<1>2. QED
  BY <1>1 DEF Request

(* A CancelledError leaves a child at some place it can be.                *)
LEMMA InterruptedFacts == \A pc \in ChildPc : Interrupted(pc) \in ChildPc
  BY DEF ChildPc, Undecided, Interrupted

(* The initial state is well typed.                                        *)
LEMMA InitTypeOK == Init => TypeOK
<1> SUFFICES ASSUME Init PROVE TypeOK
  OBVIOUS
<1> USE DEF Init
<1>1. status \in [Task -> Status] /\ doneRow \in SUBSET Task /\ dbq \in Seq(Request)
  BY DEF Status
<1>2. /\ wpc \in [Worker -> {"claim", "waiting", "woken", "awaiting", "off"}]
      /\ wtask \in [Worker -> Task \union {0}]
      /\ running \in SUBSET Task
  OBVIOUS
<1>3. cpc \in [Task -> ChildPc] /\ outcome \in [Task -> Terminal]
  BY DEF ChildPc, Terminal
<1>4. /\ kpc \in [Canceller -> {"idle", "get", "overwrite", "returned", "lost"}]
      /\ ktask \in [Canceller -> Task \union {0}]
      /\ kres \in [Canceller -> BOOLEAN]
  OBVIOUS
<1>5. outages \in Nat /\ claims \in [Task -> Nat] /\ announced \in [Task -> SUBSET Terminal]
  OBVIOUS
<1>6. notice \in [Task -> Terminal \union {"none"}]
  OBVIOUS
<1>7. wake \in BOOLEAN /\ stopping \in BOOLEAN
  OBVIOUS
<1>8. QED
  BY <1>1, <1>2, <1>3, <1>4, <1>5, <1>6, <1>7 DEF TypeOK

(* Every step keeps the types.                                             *)
LEMMA NextTypeOK == TypeOK /\ [Next]_vars => TypeOK'
<1> SUFFICES ASSUME TypeOK, [Next]_vars PROVE TypeOK'
  OBVIOUS
<1> USE DEF durable, pool, child, caller, history
<1>1. CASE Husk
  <2>1. dbq' \in Seq(Request)
    BY <1>1, HeadFacts, RequestFacts DEF TypeOK, Husk
  <2>2. QED
    BY <1>1, <2>1 DEF TypeOK, Husk
<1>2. CASE WakeSubtasks
  <2>1. dbq' \in Seq(Request)
    BY <1>2, RequestFacts DEF TypeOK, WakeSubtasks, SetWake, Woken
  <2>2. QED
    BY <1>2, <2>1 DEF TypeOK, WakeSubtasks, SetWake, Woken
<1>3. CASE ServeClaimEmpty
  <2>1. dbq' \in Seq(Request)
    BY <1>3, HeadFacts, RequestFacts DEF TypeOK, ServeClaimEmpty, Heads
  <2>2. QED
    BY <1>3, <2>1, HeadFacts DEF TypeOK, ServeClaimEmpty, Heads
<1>4. CASE Stop
  <2>1. dbq' \in Seq(Request)
    BY <1>4, RequestFacts DEF TypeOK, Stop, Interrupted
  <2>2. QED
    BY <1>4, <2>1 DEF TypeOK, Stop, Interrupted, ChildPc, Undecided
<1>5. CASE Reboot
  <2> USE <1>5 DEF TypeOK, Reboot
  <2>1. status' \in [Task -> Status] /\ doneRow' \in SUBSET Task /\ dbq' \in Seq(Request)
    OBVIOUS
  <2>2. /\ wpc' \in [Worker -> {"claim", "waiting", "woken", "awaiting", "off"}]
        /\ wtask' \in [Worker -> Task \union {0}]
        /\ running' \in SUBSET Task
    OBVIOUS
  <2>3. cpc' \in [Task -> ChildPc] /\ outcome' \in [Task -> Terminal]
    BY DEF ChildPc
  <2>4. /\ kpc' \in [Canceller -> {"idle", "get", "overwrite", "returned", "lost"}]
        /\ ktask' \in [Canceller -> Task \union {0}]
        /\ kres' \in [Canceller -> BOOLEAN]
    OBVIOUS
  <2>5. outages' \in Nat /\ claims' \in [Task -> Nat] /\ announced' \in [Task -> SUBSET Terminal]
    OBVIOUS
  <2>6. notice' \in [Task -> Terminal \union {"none"}]
    OBVIOUS
  <2>7. wake' \in BOOLEAN /\ stopping' \in BOOLEAN
    OBVIOUS
  <2>8. QED
    BY <2>1, <2>2, <2>3, <2>4, <2>5, <2>6, <2>7
<1>6. ASSUME NEW t \in Task, Submit(t) PROVE TypeOK'
  <2>1. dbq' \in Seq(Request)
    BY <1>6, RequestFacts DEF TypeOK, Submit, SetWake, Woken, Inserted
  <2>2. QED
    BY <1>6, <2>1 DEF TypeOK, Submit, SetWake, Woken, Inserted, Status, Terminal
<1>7. ASSUME NEW t \in Task, SubmitSubtask(t) PROVE TypeOK'
  <2>1. dbq' \in Seq(Request)
    BY <1>7, RequestFacts DEF TypeOK, SubmitSubtask, Inserted
  <2>2. QED
    BY <1>7, <2>1 DEF TypeOK, SubmitSubtask, Inserted, Status, Terminal
<1>8. ASSUME NEW t \in Task, ServeClaim(t) PROVE TypeOK'
  <2>1. dbq' \in Seq(Request)
    BY <1>8, HeadFacts, RequestFacts DEF TypeOK, ServeClaim, Heads, OldestQueued
  <2>2. QED
    BY <1>8, <2>1, HeadFacts DEF TypeOK, ServeClaim, Heads, OldestQueued, Status, Terminal, ChildPc, Undecided
<1>9. ASSUME NEW t \in Task, ServeConversation(t) PROVE TypeOK'
  <2>1. dbq' \in Seq(Request)
    BY <1>9, HeadFacts, RequestFacts DEF TypeOK, ServeConversation, Heads
  <2>2. QED
    BY <1>9, <2>1 DEF TypeOK, ServeConversation, Heads, ChildPc, Undecided
<1>10. ASSUME NEW t \in Task, TurnEnds(t) PROVE TypeOK'
  <2>1. dbq' \in Seq(Request)
    BY <1>10, RequestFacts DEF TypeOK, TurnEnds, Ask
  <2>2. QED
    BY <1>10, <2>1 DEF TypeOK, TurnEnds, Ask, Status, Terminal, ChildPc, Undecided
<1>11. ASSUME NEW t \in Task, TurnClosed(t) PROVE TypeOK'
  <2>1. dbq' \in Seq(Request)
    BY <1>11, RequestFacts DEF TypeOK, TurnClosed, Ask
  <2>2. QED
    BY <1>11, <2>1 DEF TypeOK, TurnClosed, Ask, Status, Terminal, ChildPc, Undecided
<1>12. ASSUME NEW t \in Task, ServeUpdate(t) PROVE TypeOK'
  <2>1. dbq' \in Seq(Request)
    BY <1>12, HeadFacts, RequestFacts DEF TypeOK, ServeUpdate, Heads
  <2>2. QED
    BY <1>12, <2>1 DEF TypeOK, ServeUpdate, Heads, Status, Terminal, ChildPc, Undecided
<1>13. ASSUME NEW t \in Task, ServeEvent(t) PROVE TypeOK'
  <2>1. dbq' \in Seq(Request)
    BY <1>13, HeadFacts, RequestFacts DEF TypeOK, ServeEvent, Heads
  <2>2. QED
    BY <1>13, <2>1 DEF TypeOK, ServeEvent, Heads, Status, Terminal, ChildPc, Undecided
<1>14. ASSUME NEW t \in Task, Notify(t) PROVE TypeOK'
  <2>1. dbq' \in Seq(Request)
    BY <1>14, RequestFacts DEF TypeOK, Notify
  <2>2. QED
    BY <1>14, <2>1 DEF TypeOK, Notify, Status, Terminal, ChildPc, Undecided
<1>15. ASSUME NEW w \in Worker, Begin(w) PROVE TypeOK'
  <2>1. dbq' \in Seq(Request)
    BY <1>15, RequestFacts DEF TypeOK, Begin, Ask
  <2>2. QED
    BY <1>15, <2>1 DEF TypeOK, Begin, Ask
<1>16. ASSUME NEW w \in Worker, Awake(w) PROVE TypeOK'
  <2>1. dbq' \in Seq(Request)
    BY <1>16, RequestFacts DEF TypeOK, Awake, Ask
  <2>2. QED
    BY <1>16, <2>1 DEF TypeOK, Awake, Ask
<1>17. ASSUME NEW w \in Worker, Reap(w) PROVE TypeOK'
  <2>1. dbq' \in Seq(Request)
    <3>1. CASE stopping
      BY <1>17, <3>1 DEF TypeOK, Reap, Released
    <3>2. CASE ~stopping
      <4>1. dbq' = Append(dbq, [op |-> "claim", who |-> w])
        BY <1>17, <3>2 DEF Reap, Released, Ask
      <4>2. QED
        BY <4>1, RequestFacts DEF TypeOK
    <3>3. QED
      BY <3>1, <3>2
  <2>2. QED
    BY <1>17, <2>1 DEF TypeOK, Reap, Released, Ask
<1>18. ASSUME NEW k \in Canceller, NEW t \in Task, CancelCall(k, t) PROVE TypeOK'
  <2>1. dbq' \in Seq(Request)
    BY <1>18, RequestFacts DEF TypeOK, CancelCall, Ask
  <2>2. QED
    BY <1>18, <2>1 DEF TypeOK, CancelCall, Ask
<1>19. ASSUME NEW k \in Canceller, ServeGet(k) PROVE TypeOK'
  <2>1. Tail(dbq) \in Seq(Request) /\ [op |-> "overwrite", who |-> k] \in Request
    BY <1>19, HeadFacts, RequestFacts DEF TypeOK, ServeGet, Heads
  <2>2. dbq' \in {Tail(dbq), Append(Tail(dbq), [op |-> "overwrite", who |-> k])}
    BY <1>19 DEF ServeGet
  <2>3. dbq' \in Seq(Request)
    BY <2>1, <2>2
  <2>4. cpc' \in [Task -> ChildPc]
    <3>1. cpc' \in {cpc, [cpc EXCEPT ![ktask[k]] = Interrupted(cpc[ktask[k]])]}
      BY <1>19 DEF ServeGet
    <3>2. ASSUME NEW t \in Task PROVE cpc'[t] \in ChildPc
      <4>1. cpc[t] \in ChildPc
        BY DEF TypeOK
      <4>2. Interrupted(cpc[t]) \in ChildPc
        BY <4>1, InterruptedFacts
      <4>3. cpc'[t] = cpc[t] \/ cpc'[t] = Interrupted(cpc[t])
        BY <3>1 DEF TypeOK
      <4>4. QED
        BY <4>1, <4>2, <4>3
    <3>3. cpc' = [t \in Task |-> cpc'[t]]
      BY <3>1 DEF TypeOK
    <3>4. QED
      BY <3>2, <3>3
  <2>5. /\ kpc' \in [Canceller -> {"idle", "get", "overwrite", "returned", "lost"}]
        /\ kres' \in [Canceller -> BOOLEAN]
    <3>1. /\ kpc' \in {[kpc EXCEPT ![k] = "returned"], [kpc EXCEPT ![k] = "overwrite"]}
          /\ kres' \in {kres, [kres EXCEPT ![k] = TRUE], [kres EXCEPT ![k] = FALSE]}
      BY <1>19 DEF ServeGet, Return
    <3>2. QED
      BY <3>1 DEF TypeOK
  <2>6. QED
    BY <1>19, <2>3, <2>4, <2>5 DEF TypeOK, ServeGet
<1>20. ASSUME NEW k \in Canceller, ServeOverwrite(k) PROVE TypeOK'
  <2>1. dbq' \in Seq(Request)
    BY <1>20, HeadFacts, RequestFacts DEF TypeOK, ServeOverwrite, Heads, Return
  <2>2. QED
    BY <1>20, <2>1 DEF TypeOK, ServeOverwrite, Heads, Return, Status, Terminal
<1>21. CASE UNCHANGED vars
  BY <1>21 DEF TypeOK, vars
<1>22. QED
  BY <1>1, <1>2, <1>3, <1>4, <1>5, <1>6, <1>7, <1>8, <1>9, <1>10, <1>11, <1>12, <1>13, <1>14, <1>15, <1>16, <1>17, <1>18, <1>19, <1>20, <1>21 DEF Next, Child, Loop, Cancel

(* Type correctness of the pool.                                           *)
THEOREM PoolTypeCorrect == Spec => []TypeOK
  BY InitTypeOK, NextTypeOK, PTL DEF Spec

(* cancel() touches no child but the one it names, and only interrupts it. *)
LEMMA ServeGetCpc ==
  ASSUME TypeOK, NEW k \in Canceller, ServeGet(k)
  PROVE  \A t \in Task : cpc'[t] = cpc[t] \/ cpc'[t] = Interrupted(cpc[t])
<1>1. cpc' \in {cpc, [cpc EXCEPT ![ktask[k]] = Interrupted(cpc[ktask[k]])]}
  BY DEF ServeGet
<1>2. QED
  BY <1>1 DEF TypeOK

(* The verdict a child carries agrees with its row.                        *)
LEMMA ChildStep == TypeOK /\ UnclaimedInv /\ OverwriteInv /\ ChildInv /\ [Next]_vars => ChildInv'
<1> SUFFICES ASSUME TypeOK, UnclaimedInv, OverwriteInv, ChildInv, [Next]_vars PROVE ChildInv'
  OBVIOUS
<1> USE DEF ChildInv, TypeOK, ChildPc, Undecided, Task, durable, pool, child, caller, history
<1>1. CASE Husk
  BY <1>1 DEF Husk
<1>2. CASE WakeSubtasks
  BY <1>2 DEF WakeSubtasks, SetWake
<1>3. CASE ServeClaimEmpty
  BY <1>3 DEF ServeClaimEmpty
<1>4. CASE Stop
  BY <1>4 DEF Stop, Interrupted
<1>5. CASE Reboot
  BY <1>5 DEF Reboot
<1>6. ASSUME NEW t \in Task, Submit(t) PROVE ChildInv'
  <2>1. cpc[t] = "none"
    BY <1>6 DEF Submit, Inserted, UnclaimedInv
  <2>2. UNCHANGED <<cpc, outcome, doneRow>> /\ \A u \in Task : u # t => status'[u] = status[u]
    BY <1>6 DEF Submit, Inserted
  <2>3. QED
    BY <2>1, <2>2
<1>7. ASSUME NEW t \in Task, SubmitSubtask(t) PROVE ChildInv'
  <2>1. cpc[t] = "none"
    BY <1>7 DEF SubmitSubtask, Inserted, UnclaimedInv
  <2>2. UNCHANGED <<cpc, outcome, doneRow>> /\ \A u \in Task : u # t => status'[u] = status[u]
    BY <1>7 DEF SubmitSubtask, Inserted
  <2>3. QED
    BY <2>1, <2>2
<1>8. ASSUME NEW t \in Task, ServeClaim(t) PROVE ChildInv'
  BY <1>8 DEF ServeClaim, OldestQueued
<1>9. ASSUME NEW t \in Task, ServeConversation(t) PROVE ChildInv'
  BY <1>9 DEF ServeConversation
<1>10. ASSUME NEW t \in Task, TurnEnds(t) PROVE ChildInv'
  BY <1>10 DEF TurnEnds
<1>11. ASSUME NEW t \in Task, TurnClosed(t) PROVE ChildInv'
  BY <1>11 DEF TurnClosed
<1>12. ASSUME NEW t \in Task, ServeUpdate(t) PROVE ChildInv'
  BY <1>12 DEF ServeUpdate
<1>13. ASSUME NEW t \in Task, ServeEvent(t) PROVE ChildInv'
  BY <1>13 DEF ServeEvent, Terminal
<1>14. ASSUME NEW t \in Task, Notify(t) PROVE ChildInv'
  BY <1>14 DEF Notify
<1>15. ASSUME NEW w \in Worker, Begin(w) PROVE ChildInv'
  BY <1>15 DEF Begin
<1>16. ASSUME NEW w \in Worker, Awake(w) PROVE ChildInv'
  BY <1>16 DEF Awake
<1>17. ASSUME NEW w \in Worker, Reap(w) PROVE ChildInv'
  BY <1>17 DEF Reap, Released
<1>18. ASSUME NEW k \in Canceller, NEW t \in Task, CancelCall(k, t) PROVE ChildInv'
  BY <1>18 DEF CancelCall
<1>19. ASSUME NEW k \in Canceller, ServeGet(k) PROVE ChildInv'
  <2>1. UNCHANGED <<status, outcome, doneRow>>
    BY <1>19 DEF ServeGet
  <2>2. QED
    BY <1>19, <2>1, ServeGetCpc DEF Interrupted
<1>20. ASSUME NEW k \in Canceller, ServeOverwrite(k) PROVE ChildInv'
  BY <1>20 DEF ServeOverwrite, Return, OverwriteInv
<1>21. CASE UNCHANGED vars
  BY <1>21 DEF vars
<1>22. QED
  BY <1>1, <1>2, <1>3, <1>4, <1>5, <1>6, <1>7, <1>8, <1>9, <1>10, <1>11, <1>12, <1>13, <1>14, <1>15, <1>16, <1>17, <1>18, <1>19, <1>20, <1>21 DEF Next, Child, Loop, Cancel

(* Every step keeps who awaits whom.                                       *)
LEMMA AwaitStep == TypeOK /\ UnclaimedInv /\ AwaitInv /\ [Next]_vars => AwaitInv'
<1> SUFFICES ASSUME TypeOK, UnclaimedInv, AwaitInv, [Next]_vars PROVE AwaitInv'
  OBVIOUS
<1> USE DEF AwaitInv, TypeOK, durable, pool, child, caller, history
<1>1. CASE Husk
  BY <1>1 DEF Husk
<1>2. CASE WakeSubtasks
  BY <1>2 DEF WakeSubtasks, SetWake, Woken
<1>3. CASE ServeClaimEmpty
  BY <1>3 DEF ServeClaimEmpty
<1>4. CASE Stop
  BY <1>4 DEF Stop, Interrupted
<1>5. CASE Reboot
  BY <1>5 DEF Reboot
<1>6. ASSUME NEW t \in Task, Submit(t) PROVE AwaitInv'
  BY <1>6 DEF Submit, SetWake, Inserted, Woken
<1>7. ASSUME NEW t \in Task, SubmitSubtask(t) PROVE AwaitInv'
  BY <1>7 DEF SubmitSubtask, Inserted
<1>8. ASSUME NEW t \in Task, ServeClaim(t) PROVE AwaitInv'
  BY <1>8 DEF ServeClaim, OldestQueued, UnclaimedInv
<1>9. ASSUME NEW t \in Task, ServeConversation(t) PROVE AwaitInv'
  BY <1>9 DEF ServeConversation
<1>10. ASSUME NEW t \in Task, TurnEnds(t) PROVE AwaitInv'
  BY <1>10 DEF TurnEnds
<1>11. ASSUME NEW t \in Task, TurnClosed(t) PROVE AwaitInv'
  BY <1>11 DEF TurnClosed
<1>12. ASSUME NEW t \in Task, ServeUpdate(t) PROVE AwaitInv'
  BY <1>12 DEF ServeUpdate
<1>13. ASSUME NEW t \in Task, ServeEvent(t) PROVE AwaitInv'
  BY <1>13 DEF ServeEvent
<1>14. ASSUME NEW t \in Task, Notify(t) PROVE AwaitInv'
  BY <1>14 DEF Notify
<1>15. ASSUME NEW w \in Worker, Begin(w) PROVE AwaitInv'
  BY <1>15 DEF Begin
<1>16. ASSUME NEW w \in Worker, Awake(w) PROVE AwaitInv'
  BY <1>16 DEF Awake
<1>17. ASSUME NEW w \in Worker, Reap(w) PROVE AwaitInv'
  BY <1>17 DEF Reap, Released
<1>18. ASSUME NEW k \in Canceller, NEW t \in Task, CancelCall(k, t) PROVE AwaitInv'
  BY <1>18 DEF CancelCall
<1>19. ASSUME NEW k \in Canceller, ServeGet(k) PROVE AwaitInv'
  BY <1>19 DEF ServeGet, Interrupted, Return
<1>20. ASSUME NEW k \in Canceller, ServeOverwrite(k) PROVE AwaitInv'
  BY <1>20 DEF ServeOverwrite, Return
<1>21. CASE UNCHANGED vars
  BY <1>21 DEF vars
<1>22. QED
  BY <1>1, <1>2, <1>3, <1>4, <1>5, <1>6, <1>7, <1>8, <1>9, <1>10, <1>11, <1>12, <1>13, <1>14, <1>15, <1>16, <1>17, <1>18, <1>19, <1>20, <1>21 DEF Next, Child, Loop, Cancel

(* Every step keeps a live child awaited and in _running.                  *)
LEMMA ReachableStep == TypeOK /\ UnclaimedInv /\ AwaitInv /\ ChildReachable /\ [Next]_vars => ChildReachable'
<1> SUFFICES ASSUME TypeOK, UnclaimedInv, AwaitInv, ChildReachable, [Next]_vars PROVE ChildReachable'
  OBVIOUS
<1> USE DEF ChildReachable, TypeOK, durable, pool, child, caller, history
<1>1. CASE Husk
  BY <1>1 DEF Husk
<1>2. CASE WakeSubtasks
  BY <1>2 DEF WakeSubtasks, SetWake, Woken
<1>3. CASE ServeClaimEmpty
  BY <1>3 DEF ServeClaimEmpty
<1>4. CASE Stop
  BY <1>4 DEF Stop, Interrupted
<1>5. CASE Reboot
  BY <1>5 DEF Reboot
<1>6. ASSUME NEW t \in Task, Submit(t) PROVE ChildReachable'
  BY <1>6 DEF Submit, SetWake, Inserted, Woken
<1>7. ASSUME NEW t \in Task, SubmitSubtask(t) PROVE ChildReachable'
  BY <1>7 DEF SubmitSubtask, Inserted
<1>8. ASSUME NEW t \in Task, ServeClaim(t) PROVE ChildReachable'
  <2>1. PICK w \in Worker : /\ wpc[w] = "claim"
                           /\ wpc' = [wpc EXCEPT ![w] = "awaiting"]
                           /\ wtask' = [wtask EXCEPT ![w] = t]
    BY <1>8, HeadFacts DEF ServeClaim, Heads
  <2>2. cpc' = [cpc EXCEPT ![t] = "conversation"] /\ running' = running \union {t}
    BY <1>8 DEF ServeClaim
  <2>3. ASSUME NEW u \in Task, cpc'[u] \notin {"none", "gone"}
        PROVE  u \in running' /\ \E v \in Worker : wpc'[v] = "awaiting" /\ wtask'[v] = u
    <3>1. CASE u = t
      BY <2>1, <2>2, <3>1
    <3>2. CASE u # t
      <4>1. PICK v \in Worker : wpc[v] = "awaiting" /\ wtask[v] = u
        BY <2>2, <2>3, <3>2
      <4>2. QED
        BY <2>1, <2>2, <2>3, <3>2, <4>1
    <3>3. QED
      BY <3>1, <3>2
  <2>4. QED
    BY <2>3
<1>9. ASSUME NEW t \in Task, ServeConversation(t) PROVE ChildReachable'
  BY <1>9 DEF ServeConversation
<1>10. ASSUME NEW t \in Task, TurnEnds(t) PROVE ChildReachable'
  BY <1>10 DEF TurnEnds
<1>11. ASSUME NEW t \in Task, TurnClosed(t) PROVE ChildReachable'
  BY <1>11 DEF TurnClosed
<1>12. ASSUME NEW t \in Task, ServeUpdate(t) PROVE ChildReachable'
  BY <1>12 DEF ServeUpdate
<1>13. ASSUME NEW t \in Task, ServeEvent(t) PROVE ChildReachable'
  BY <1>13 DEF ServeEvent
<1>14. ASSUME NEW t \in Task, Notify(t) PROVE ChildReachable'
  BY <1>14 DEF Notify
<1>15. ASSUME NEW w \in Worker, Begin(w) PROVE ChildReachable'
  BY <1>15 DEF Begin
<1>16. ASSUME NEW w \in Worker, Awake(w) PROVE ChildReachable'
  BY <1>16 DEF Awake
<1>17. ASSUME NEW w \in Worker, Reap(w) PROVE ChildReachable'
  <2>1. /\ wpc[w] = "awaiting" /\ cpc[wtask[w]] = "gone"
        /\ \A v \in Worker : v # w => wpc'[v] = wpc[v] /\ wtask'[v] = wtask[v]
        /\ running' = running \ {wtask[w]}
        /\ cpc' = cpc
    BY <1>17 DEF Reap, Released
  <2>2. ASSUME NEW u \in Task, cpc[u] \notin {"none", "gone"}
        PROVE  u \in running' /\ \E v \in Worker : wpc'[v] = "awaiting" /\ wtask'[v] = u
    <3>1. PICK v \in Worker : u \in running /\ wpc[v] = "awaiting" /\ wtask[v] = u
      BY <2>2
    <3>2. v # w /\ u # wtask[w]
      BY <2>1, <2>2, <3>1
    <3>3. QED
      BY <2>1, <3>1, <3>2
  <2>3. QED
    BY <2>1, <2>2
<1>18. ASSUME NEW k \in Canceller, NEW t \in Task, CancelCall(k, t) PROVE ChildReachable'
  BY <1>18 DEF CancelCall
<1>19. ASSUME NEW k \in Canceller, ServeGet(k) PROVE ChildReachable'
  <2>1. UNCHANGED <<wpc, wtask, running>>
    BY <1>19 DEF ServeGet
  <2>2. QED
    BY <1>19, <2>1, ServeGetCpc DEF Interrupted
<1>20. ASSUME NEW k \in Canceller, ServeOverwrite(k) PROVE ChildReachable'
  BY <1>20 DEF ServeOverwrite, Return
<1>21. CASE UNCHANGED vars
  BY <1>21 DEF vars
<1>22. QED
  BY <1>1, <1>2, <1>3, <1>4, <1>5, <1>6, <1>7, <1>8, <1>9, <1>10, <1>11, <1>12, <1>13, <1>14, <1>15, <1>16, <1>17, <1>18, <1>19, <1>20, <1>21 DEF Next, Child, Loop, Cancel

(* Every step keeps notices true.                                          *)
LEMMA NoticeStep == TypeOK /\ UnclaimedInv /\ ChildInv /\ OverwriteInv /\ NoticeInv /\ [Next]_vars => NoticeInv'
<1> SUFFICES ASSUME TypeOK, UnclaimedInv, ChildInv, OverwriteInv, NoticeInv, [Next]_vars PROVE NoticeInv'
  OBVIOUS
<1> USE DEF NoticeInv, TypeOK, durable, pool, child, caller, history
<1>1. CASE Husk
  BY <1>1 DEF Husk
<1>2. CASE WakeSubtasks
  BY <1>2 DEF WakeSubtasks, SetWake
<1>3. CASE ServeClaimEmpty
  BY <1>3 DEF ServeClaimEmpty
<1>4. CASE Stop
  BY <1>4 DEF Stop, Interrupted
<1>5. CASE Reboot
  BY <1>5 DEF Reboot
<1>6. ASSUME NEW t \in Task, Submit(t) PROVE NoticeInv'
  BY <1>6 DEF Submit, SetWake, Inserted
<1>7. ASSUME NEW t \in Task, SubmitSubtask(t) PROVE NoticeInv'
  BY <1>7 DEF SubmitSubtask, Inserted
<1>8. ASSUME NEW t \in Task, ServeClaim(t) PROVE NoticeInv'
  BY <1>8 DEF ServeClaim, OldestQueued
<1>9. ASSUME NEW t \in Task, ServeConversation(t) PROVE NoticeInv'
  BY <1>9 DEF ServeConversation
<1>10. ASSUME NEW t \in Task, TurnEnds(t) PROVE NoticeInv'
  BY <1>10 DEF TurnEnds
<1>11. ASSUME NEW t \in Task, TurnClosed(t) PROVE NoticeInv'
  BY <1>11 DEF TurnClosed
<1>12. ASSUME NEW t \in Task, ServeUpdate(t) PROVE NoticeInv'
  BY <1>12 DEF ServeUpdate, Undecided
<1>13. ASSUME NEW t \in Task, ServeEvent(t) PROVE NoticeInv'
  BY <1>13 DEF ServeEvent
<1>14. ASSUME NEW t \in Task, Notify(t) PROVE NoticeInv'
  BY <1>14 DEF Notify, ChildInv
<1>15. ASSUME NEW w \in Worker, Begin(w) PROVE NoticeInv'
  BY <1>15 DEF Begin
<1>16. ASSUME NEW w \in Worker, Awake(w) PROVE NoticeInv'
  BY <1>16 DEF Awake
<1>17. ASSUME NEW w \in Worker, Reap(w) PROVE NoticeInv'
  BY <1>17 DEF Reap, Released
<1>18. ASSUME NEW k \in Canceller, NEW t \in Task, CancelCall(k, t) PROVE NoticeInv'
  BY <1>18 DEF CancelCall
<1>19. ASSUME NEW k \in Canceller, ServeGet(k) PROVE NoticeInv'
  BY <1>19 DEF ServeGet, Interrupted, Return
<1>20. ASSUME NEW k \in Canceller, ServeOverwrite(k) PROVE NoticeInv'
  BY <1>20 DEF ServeOverwrite, Return, OverwriteInv
<1>21. CASE UNCHANGED vars
  BY <1>21 DEF vars
<1>22. QED
  BY <1>1, <1>2, <1>3, <1>4, <1>5, <1>6, <1>7, <1>8, <1>9, <1>10, <1>11, <1>12, <1>13, <1>14, <1>15, <1>16, <1>17, <1>18, <1>19, <1>20, <1>21 DEF Next, Child, Loop, Cancel

(* Every step keeps task_done behind a terminal row.                       *)
LEMMA AnnouncedStep == TypeOK /\ ChildInv /\ AnnouncedIsTerminal /\ [Next]_vars => AnnouncedIsTerminal'
<1> SUFFICES ASSUME TypeOK, ChildInv, AnnouncedIsTerminal, [Next]_vars PROVE AnnouncedIsTerminal'
  OBVIOUS
<1> USE DEF AnnouncedIsTerminal, TypeOK, Terminal, durable, pool, child, caller, history
<1>1. CASE Husk
  BY <1>1 DEF Husk
<1>2. CASE WakeSubtasks
  BY <1>2 DEF WakeSubtasks, SetWake
<1>3. CASE ServeClaimEmpty
  BY <1>3 DEF ServeClaimEmpty
<1>4. CASE Stop
  BY <1>4 DEF Stop, Interrupted
<1>5. CASE Reboot
  BY <1>5 DEF Reboot
<1>6. ASSUME NEW t \in Task, Submit(t) PROVE AnnouncedIsTerminal'
  BY <1>6 DEF Submit, SetWake, Inserted
<1>7. ASSUME NEW t \in Task, SubmitSubtask(t) PROVE AnnouncedIsTerminal'
  BY <1>7 DEF SubmitSubtask, Inserted
<1>8. ASSUME NEW t \in Task, ServeClaim(t) PROVE AnnouncedIsTerminal'
  BY <1>8 DEF ServeClaim, OldestQueued
<1>9. ASSUME NEW t \in Task, ServeConversation(t) PROVE AnnouncedIsTerminal'
  BY <1>9 DEF ServeConversation
<1>10. ASSUME NEW t \in Task, TurnEnds(t) PROVE AnnouncedIsTerminal'
  BY <1>10 DEF TurnEnds
<1>11. ASSUME NEW t \in Task, TurnClosed(t) PROVE AnnouncedIsTerminal'
  BY <1>11 DEF TurnClosed
<1>12. ASSUME NEW t \in Task, ServeUpdate(t) PROVE AnnouncedIsTerminal'
  BY <1>12 DEF ServeUpdate
<1>13. ASSUME NEW t \in Task, ServeEvent(t) PROVE AnnouncedIsTerminal'
  BY <1>13 DEF ServeEvent, ChildInv
<1>14. ASSUME NEW t \in Task, Notify(t) PROVE AnnouncedIsTerminal'
  BY <1>14 DEF Notify
<1>15. ASSUME NEW w \in Worker, Begin(w) PROVE AnnouncedIsTerminal'
  BY <1>15 DEF Begin
<1>16. ASSUME NEW w \in Worker, Awake(w) PROVE AnnouncedIsTerminal'
  BY <1>16 DEF Awake
<1>17. ASSUME NEW w \in Worker, Reap(w) PROVE AnnouncedIsTerminal'
  BY <1>17 DEF Reap, Released
<1>18. ASSUME NEW k \in Canceller, NEW t \in Task, CancelCall(k, t) PROVE AnnouncedIsTerminal'
  BY <1>18 DEF CancelCall
<1>19. ASSUME NEW k \in Canceller, ServeGet(k) PROVE AnnouncedIsTerminal'
  BY <1>19 DEF ServeGet, Interrupted, Return
<1>20. ASSUME NEW k \in Canceller, ServeOverwrite(k) PROVE AnnouncedIsTerminal'
  BY <1>20 DEF ServeOverwrite, Return
<1>21. CASE UNCHANGED vars
  BY <1>21 DEF vars
<1>22. QED
  BY <1>1, <1>2, <1>3, <1>4, <1>5, <1>6, <1>7, <1>8, <1>9, <1>10, <1>11, <1>12, <1>13, <1>14, <1>15, <1>16, <1>17, <1>18, <1>19, <1>20, <1>21 DEF Next, Child, Loop, Cancel

(* Every step keeps workers awake beside queued work.                      *)
LEMMA IdleStep == TypeOK /\ NoIdleWorker /\ [Next]_vars => NoIdleWorker'
<1> SUFFICES ASSUME TypeOK, NoIdleWorker, [Next]_vars PROVE NoIdleWorker'
  OBVIOUS
<1> USE DEF NoIdleWorker, TypeOK, durable, pool, child, caller, history
<1>1. CASE Husk
  BY <1>1 DEF Husk
<1>2. CASE WakeSubtasks
  BY <1>2 DEF WakeSubtasks, SetWake, Woken
<1>3. CASE ServeClaimEmpty
  BY <1>3 DEF ServeClaimEmpty
<1>4. CASE Stop
  BY <1>4 DEF Stop, Interrupted
<1>5. CASE Reboot
  BY <1>5 DEF Reboot
<1>6. ASSUME NEW t \in Task, Submit(t) PROVE NoIdleWorker'
  BY <1>6 DEF Submit, SetWake, Inserted, Woken
<1>7. ASSUME NEW t \in Task, SubmitSubtask(t) PROVE NoIdleWorker'
  BY <1>7 DEF SubmitSubtask, Inserted
<1>8. ASSUME NEW t \in Task, ServeClaim(t) PROVE NoIdleWorker'
  BY <1>8 DEF ServeClaim, OldestQueued
<1>9. ASSUME NEW t \in Task, ServeConversation(t) PROVE NoIdleWorker'
  BY <1>9 DEF ServeConversation
<1>10. ASSUME NEW t \in Task, TurnEnds(t) PROVE NoIdleWorker'
  BY <1>10 DEF TurnEnds
<1>11. ASSUME NEW t \in Task, TurnClosed(t) PROVE NoIdleWorker'
  BY <1>11 DEF TurnClosed
<1>12. ASSUME NEW t \in Task, ServeUpdate(t) PROVE NoIdleWorker'
  BY <1>12 DEF ServeUpdate, Terminal
<1>13. ASSUME NEW t \in Task, ServeEvent(t) PROVE NoIdleWorker'
  BY <1>13 DEF ServeEvent
<1>14. ASSUME NEW t \in Task, Notify(t) PROVE NoIdleWorker'
  BY <1>14 DEF Notify
<1>15. ASSUME NEW w \in Worker, Begin(w) PROVE NoIdleWorker'
  BY <1>15 DEF Begin
<1>16. ASSUME NEW w \in Worker, Awake(w) PROVE NoIdleWorker'
  BY <1>16 DEF Awake
<1>17. ASSUME NEW w \in Worker, Reap(w) PROVE NoIdleWorker'
  BY <1>17 DEF Reap, Released
<1>18. ASSUME NEW k \in Canceller, NEW t \in Task, CancelCall(k, t) PROVE NoIdleWorker'
  BY <1>18 DEF CancelCall
<1>19. ASSUME NEW k \in Canceller, ServeGet(k) PROVE NoIdleWorker'
  BY <1>19 DEF ServeGet, Interrupted, Return
<1>20. ASSUME NEW k \in Canceller, ServeOverwrite(k) PROVE NoIdleWorker'
  BY <1>20 DEF ServeOverwrite, Return
<1>21. CASE UNCHANGED vars
  BY <1>21 DEF vars
<1>22. QED
  BY <1>1, <1>2, <1>3, <1>4, <1>5, <1>6, <1>7, <1>8, <1>9, <1>10, <1>11, <1>12, <1>13, <1>14, <1>15, <1>16, <1>17, <1>18, <1>19, <1>20, <1>21 DEF Next, Child, Loop, Cancel

(* Serving the head or appending a request brings in no first call of t.   *)
LEMMA NoFirstCallKept ==
  ASSUME NEW q \in Seq(Request), NEW t, NoFirstCall(q, t)
  PROVE  /\ q # <<>> => NoFirstCall(Tail(q), t)
         /\ \A e \in Request : e # FirstCall(t) => NoFirstCall(Append(q, e), t)
<1>1. ASSUME q # <<>> PROVE NoFirstCall(Tail(q), t)
  <2>1. Len(q) \in Nat
    OBVIOUS
  <2>2. QED
    BY <1>1, <2>1, TailFacts DEF NoFirstCall
<1>2. ASSUME NEW e \in Request, e # FirstCall(t) PROVE NoFirstCall(Append(q, e), t)
  <2>1. Len(q) \in Nat
    OBVIOUS
  <2>2. QED
    BY <1>2, <2>1, AppendFacts DEF NoFirstCall
<1>3. QED
  BY <1>1, <1>2

(* The FIFO argument: a cancel's update that is ahead of the child's first *)
(* call stays ahead, whatever is served before it or asked for after it.   *)
LEMMA AheadKept ==
  ASSUME NEW q \in Seq(Request), NEW k, NEW t, Ahead(q, k, t)
  PROVE  /\ q # <<>>
         /\ Head(q) # [op |-> "overwrite", who |-> k] => Ahead(Tail(q), k, t)
         /\ \A e \in Request : Ahead(Append(q, e), k, t)
         /\ Head(q) # FirstCall(t)
<1>1. PICK i \in 1..Len(q) :
        /\ q[i] = [op |-> "overwrite", who |-> k]
        /\ \A j \in 1..Len(q) : q[j] = FirstCall(t) => i < j
  BY DEF Ahead
<1>2. Len(q) \in Nat /\ q # <<>> /\ Head(q) = q[1]
  BY <1>1
<1>3. ASSUME Head(q) # [op |-> "overwrite", who |-> k] PROVE Ahead(Tail(q), k, t)
  <2>1. i # 1
    BY <1>1, <1>2, <1>3
  <2>2. /\ i - 1 \in 1..Len(Tail(q))
        /\ Tail(q)[i - 1] = [op |-> "overwrite", who |-> k]
    BY <1>1, <1>2, <2>1, TailFacts
  <2>3. \A j \in 1..Len(Tail(q)) : Tail(q)[j] = FirstCall(t) => i - 1 < j
    BY <1>1, <1>2, TailFacts
  <2>4. QED
    BY <2>2, <2>3 DEF Ahead
<1>4. ASSUME NEW e \in Request PROVE Ahead(Append(q, e), k, t)
  <2>1. /\ i \in 1..Len(Append(q, e))
        /\ Append(q, e)[i] = [op |-> "overwrite", who |-> k]
    BY <1>1, <1>2, AppendFacts
  <2>2. \A j \in 1..Len(Append(q, e)) : Append(q, e)[j] = FirstCall(t) => i < j
    BY <1>1, <1>2, AppendFacts
  <2>3. QED
    BY <2>1, <2>2 DEF Ahead
<1>5. Head(q) # FirstCall(t)
  BY <1>1, <1>2
<1>6. QED
  BY <1>2, <1>3, <1>4, <1>5

(* A cancel that asks for its update while the child has no first call in  *)
(* the queue is ahead of it.                                               *)
LEMMA AheadNew ==
  ASSUME NEW q \in Seq(Request), NEW k \in Canceller, NEW t, NoFirstCall(q, t)
  PROVE  Ahead(Append(q, [op |-> "overwrite", who |-> k]), k, t)
<1> DEFINE e == [op |-> "overwrite", who |-> k]
<1>1. e \in Request /\ e # FirstCall(t)
  BY RequestFacts DEF FirstCall
<1>2. Len(q) \in Nat
  OBVIOUS
<1>3. /\ Len(q) + 1 \in 1..Len(Append(q, e))
      /\ Append(q, e)[Len(q) + 1] = e
  BY <1>1, <1>2, AppendFacts
<1>4. \A j \in 1..Len(Append(q, e)) : Append(q, e)[j] # FirstCall(t)
  BY <1>1, NoFirstCallKept DEF NoFirstCall
<1>5. QED
  BY <1>3, <1>4 DEF Ahead

(* Only the claim of t itself puts a first call of t into the queue. *)
LEMMA NoFirstCallStep ==
  ASSUME TypeOK, [Next]_vars, NEW u \in Task, NoFirstCall(dbq, u), cpc'[u] = "none"
  PROVE  NoFirstCall(dbq', u)
<1> USE DEF TypeOK, durable, pool, child, caller, history
<1>1. CASE Husk
  BY <1>1, NoFirstCallKept DEF Husk, Heads
<1>2. CASE WakeSubtasks
  BY <1>2 DEF WakeSubtasks
<1>3. CASE ServeClaimEmpty
  BY <1>3, NoFirstCallKept DEF ServeClaimEmpty, Heads
<1>4. CASE Stop
  BY <1>4 DEF Stop
<1>5. CASE Reboot
  BY <1>5 DEF Reboot, NoFirstCall
<1>6. ASSUME NEW t \in Task, Submit(t) PROVE NoFirstCall(dbq', u)
  BY <1>6 DEF Submit
<1>7. ASSUME NEW t \in Task, SubmitSubtask(t) PROVE NoFirstCall(dbq', u)
  BY <1>7 DEF SubmitSubtask
<1>8. ASSUME NEW t \in Task, ServeClaim(t) PROVE NoFirstCall(dbq', u)
  <2>1. dbq # <<>> /\ dbq' = Append(Tail(dbq), FirstCall(t)) /\ cpc'[t] # "none"
    BY <1>8 DEF ServeClaim, Heads, FirstCall
  <2>2. FirstCall(t) \in Request /\ FirstCall(t) # FirstCall(u)
    BY <2>1, RequestFacts DEF FirstCall
  <2>3. QED
    BY <2>1, <2>2, HeadFacts, NoFirstCallKept
<1>9. ASSUME NEW t \in Task, ServeConversation(t) PROVE NoFirstCall(dbq', u)
  BY <1>9, NoFirstCallKept DEF ServeConversation, Heads
<1>10. ASSUME NEW t \in Task, TurnEnds(t) PROVE NoFirstCall(dbq', u)
  <2>1. [op |-> "update", who |-> t] \in Request /\ [op |-> "update", who |-> t] # FirstCall(u)
    BY RequestFacts DEF FirstCall
  <2>2. QED
    BY <1>10, <2>1, NoFirstCallKept DEF TurnEnds, Ask
<1>11. ASSUME NEW t \in Task, TurnClosed(t) PROVE NoFirstCall(dbq', u)
  <2>1. [op |-> "update", who |-> t] \in Request /\ [op |-> "update", who |-> t] # FirstCall(u)
    BY RequestFacts DEF FirstCall
  <2>2. QED
    BY <1>11, <2>1, NoFirstCallKept DEF TurnClosed, Ask
<1>12. ASSUME NEW t \in Task, ServeUpdate(t) PROVE NoFirstCall(dbq', u)
  <2>1. dbq # <<>> /\ dbq' = Append(Tail(dbq), [op |-> "event", who |-> t])
    BY <1>12 DEF ServeUpdate, Heads
  <2>2. [op |-> "event", who |-> t] \in Request /\ [op |-> "event", who |-> t] # FirstCall(u)
    BY RequestFacts DEF FirstCall
  <2>3. QED
    BY <2>1, <2>2, HeadFacts, NoFirstCallKept
<1>13. ASSUME NEW t \in Task, ServeEvent(t) PROVE NoFirstCall(dbq', u)
  BY <1>13, NoFirstCallKept DEF ServeEvent, Heads
<1>14. ASSUME NEW t \in Task, Notify(t) PROVE NoFirstCall(dbq', u)
  BY <1>14 DEF Notify
<1>15. ASSUME NEW w \in Worker, Begin(w) PROVE NoFirstCall(dbq', u)
  <2>1. [op |-> "claim", who |-> w] \in Request /\ [op |-> "claim", who |-> w] # FirstCall(u)
    BY RequestFacts DEF FirstCall
  <2>2. QED
    BY <1>15, <2>1, NoFirstCallKept DEF Begin, Ask
<1>16. ASSUME NEW w \in Worker, Awake(w) PROVE NoFirstCall(dbq', u)
  <2>1. [op |-> "claim", who |-> w] \in Request /\ [op |-> "claim", who |-> w] # FirstCall(u)
    BY RequestFacts DEF FirstCall
  <2>2. QED
    BY <1>16, <2>1, NoFirstCallKept DEF Awake, Ask
<1>17. ASSUME NEW w \in Worker, Reap(w) PROVE NoFirstCall(dbq', u)
  <2>1. [op |-> "claim", who |-> w] \in Request /\ [op |-> "claim", who |-> w] # FirstCall(u)
    BY RequestFacts DEF FirstCall
  <2>2. dbq' \in {dbq, Append(dbq, [op |-> "claim", who |-> w])}
    BY <1>17 DEF Reap, Released, Ask
  <2>3. QED
    BY <2>1, <2>2, NoFirstCallKept
<1>18. ASSUME NEW k \in Canceller, NEW t \in Task, CancelCall(k, t) PROVE NoFirstCall(dbq', u)
  <2>1. [op |-> "get", who |-> k] \in Request /\ [op |-> "get", who |-> k] # FirstCall(u)
    BY RequestFacts DEF FirstCall
  <2>2. QED
    BY <1>18, <2>1, NoFirstCallKept DEF CancelCall, Ask
<1>19. ASSUME NEW k \in Canceller, ServeGet(k) PROVE NoFirstCall(dbq', u)
  <2>1. dbq # <<>> /\ dbq' \in {Tail(dbq), Append(Tail(dbq), [op |-> "overwrite", who |-> k])}
    BY <1>19 DEF ServeGet, Heads
  <2>2. NoFirstCall(Tail(dbq), u)
    BY <2>1, NoFirstCallKept
  <2>3. [op |-> "overwrite", who |-> k] \in Request /\ [op |-> "overwrite", who |-> k] # FirstCall(u)
    BY RequestFacts DEF FirstCall
  <2>4. QED
    BY <2>1, <2>2, <2>3, HeadFacts, NoFirstCallKept
<1>20. ASSUME NEW k \in Canceller, ServeOverwrite(k) PROVE NoFirstCall(dbq', u)
  BY <1>20, NoFirstCallKept DEF ServeOverwrite, Heads
<1>21. CASE UNCHANGED vars
  BY <1>21 DEF vars
<1>22. QED
  BY <1>1, <1>2, <1>3, <1>4, <1>5, <1>6, <1>7, <1>8, <1>9, <1>10, <1>11, <1>12, <1>13, <1>14, <1>15, <1>16, <1>17, <1>18, <1>19, <1>20, <1>21 DEF Next, Child, Loop, Cancel

(* UnclaimedInv without the queue.                                         *)
ClaimedOnce ==
  \A t \in Task :
    /\ status[t] \in {"absent", "queued"} => cpc[t] = "none"
    /\ cpc[t] = "none" => claims[t] = 0
    /\ cpc[t] # "none" => claims[t] = 1

(* A row is claimed at most once: a claim takes it out of the queue, and    *)
(* nothing ever puts it back.                                               *)
LEMMA ClaimsStep == TypeOK /\ ClaimedOnce /\ [Next]_vars => ClaimedOnce'
<1> SUFFICES ASSUME TypeOK, ClaimedOnce, [Next]_vars PROVE ClaimedOnce'
  OBVIOUS
<1> USE DEF TypeOK, ClaimedOnce, durable, pool, child, caller, history
<1>1. CASE Husk
  BY <1>1 DEF Husk
<1>2. CASE WakeSubtasks
  BY <1>2 DEF WakeSubtasks, SetWake
<1>3. CASE ServeClaimEmpty
  BY <1>3 DEF ServeClaimEmpty
<1>4. CASE Stop
  BY <1>4 DEF Stop, Interrupted, Interrupted
<1>5. CASE Reboot
  BY <1>5 DEF Reboot
<1>6. ASSUME NEW t \in Task, Submit(t) PROVE ClaimedOnce'
  BY <1>6 DEF Submit, SetWake, Inserted, Status
<1>7. ASSUME NEW t \in Task, SubmitSubtask(t) PROVE ClaimedOnce'
  BY <1>7 DEF SubmitSubtask, Inserted, Status
<1>8. ASSUME NEW t \in Task, ServeClaim(t) PROVE ClaimedOnce'
  BY <1>8 DEF ServeClaim, OldestQueued
<1>9. ASSUME NEW t \in Task, ServeConversation(t) PROVE ClaimedOnce'
  BY <1>9 DEF ServeConversation
<1>10. ASSUME NEW t \in Task, TurnEnds(t) PROVE ClaimedOnce'
  BY <1>10 DEF TurnEnds
<1>11. ASSUME NEW t \in Task, TurnClosed(t) PROVE ClaimedOnce'
  BY <1>11 DEF TurnClosed
<1>12. ASSUME NEW t \in Task, ServeUpdate(t) PROVE ClaimedOnce'
  BY <1>12 DEF ServeUpdate, Terminal
<1>13. ASSUME NEW t \in Task, ServeEvent(t) PROVE ClaimedOnce'
  BY <1>13 DEF ServeEvent
<1>14. ASSUME NEW t \in Task, Notify(t) PROVE ClaimedOnce'
  BY <1>14 DEF Notify
<1>15. ASSUME NEW w \in Worker, Begin(w) PROVE ClaimedOnce'
  BY <1>15 DEF Begin
<1>16. ASSUME NEW w \in Worker, Awake(w) PROVE ClaimedOnce'
  BY <1>16 DEF Awake
<1>17. ASSUME NEW w \in Worker, Reap(w) PROVE ClaimedOnce'
  BY <1>17 DEF Reap, Released
<1>18. ASSUME NEW k \in Canceller, NEW t \in Task, CancelCall(k, t) PROVE ClaimedOnce'
  BY <1>18 DEF CancelCall
<1>19. ASSUME NEW k \in Canceller, ServeGet(k) PROVE ClaimedOnce'
  <2>1. UNCHANGED <<status, claims>>
    BY <1>19 DEF ServeGet
  <2>2. QED
    BY <1>19, <2>1, ServeGetCpc DEF Interrupted
<1>20. ASSUME NEW k \in Canceller, ServeOverwrite(k) PROVE ClaimedOnce'
  BY <1>20 DEF ServeOverwrite, Return
<1>21. CASE UNCHANGED vars
  BY <1>21 DEF vars
<1>22. QED
  BY <1>1, <1>2, <1>3, <1>4, <1>5, <1>6, <1>7, <1>8, <1>9, <1>10, <1>11, <1>12, <1>13, <1>14, <1>15, <1>16, <1>17, <1>18, <1>19, <1>20, <1>21 DEF Next, Child, Loop, Cancel

(* A row that had a child keeps the fact.                                  *)
LEMMA OnceAChild ==
  ASSUME TypeOK, [Next]_vars, NEW u \in Task, cpc'[u] = "none"
  PROVE  cpc[u] = "none"
<1> USE DEF TypeOK, durable, pool, child, caller, history
<1>1. CASE Husk
  BY <1>1 DEF Husk
<1>2. CASE WakeSubtasks
  BY <1>2 DEF WakeSubtasks, SetWake
<1>3. CASE ServeClaimEmpty
  BY <1>3 DEF ServeClaimEmpty
<1>4. CASE Stop
  BY <1>4 DEF Stop, Interrupted
<1>5. CASE Reboot
  BY <1>5 DEF Reboot
<1>6. ASSUME NEW t \in Task, Submit(t) PROVE cpc[u] = "none"
  BY <1>6 DEF Submit, SetWake, Inserted
<1>7. ASSUME NEW t \in Task, SubmitSubtask(t) PROVE cpc[u] = "none"
  BY <1>7 DEF SubmitSubtask, Inserted
<1>8. ASSUME NEW t \in Task, ServeClaim(t) PROVE cpc[u] = "none"
  BY <1>8 DEF ServeClaim, OldestQueued
<1>9. ASSUME NEW t \in Task, ServeConversation(t) PROVE cpc[u] = "none"
  BY <1>9 DEF ServeConversation
<1>10. ASSUME NEW t \in Task, TurnEnds(t) PROVE cpc[u] = "none"
  BY <1>10 DEF TurnEnds
<1>11. ASSUME NEW t \in Task, TurnClosed(t) PROVE cpc[u] = "none"
  BY <1>11 DEF TurnClosed
<1>12. ASSUME NEW t \in Task, ServeUpdate(t) PROVE cpc[u] = "none"
  BY <1>12 DEF ServeUpdate
<1>13. ASSUME NEW t \in Task, ServeEvent(t) PROVE cpc[u] = "none"
  BY <1>13 DEF ServeEvent
<1>14. ASSUME NEW t \in Task, Notify(t) PROVE cpc[u] = "none"
  BY <1>14 DEF Notify
<1>15. ASSUME NEW w \in Worker, Begin(w) PROVE cpc[u] = "none"
  BY <1>15 DEF Begin
<1>16. ASSUME NEW w \in Worker, Awake(w) PROVE cpc[u] = "none"
  BY <1>16 DEF Awake
<1>17. ASSUME NEW w \in Worker, Reap(w) PROVE cpc[u] = "none"
  BY <1>17 DEF Reap, Released
<1>18. ASSUME NEW k \in Canceller, NEW t \in Task, CancelCall(k, t) PROVE cpc[u] = "none"
  BY <1>18 DEF CancelCall
<1>19. ASSUME NEW k \in Canceller, ServeGet(k) PROVE cpc[u] = "none"
  BY <1>19, ServeGetCpc DEF Interrupted
<1>20. ASSUME NEW k \in Canceller, ServeOverwrite(k) PROVE cpc[u] = "none"
  BY <1>20 DEF ServeOverwrite, Return
<1>21. CASE UNCHANGED vars
  BY <1>21 DEF vars
<1>22. QED
  BY <1>1, <1>2, <1>3, <1>4, <1>5, <1>6, <1>7, <1>8, <1>9, <1>10, <1>11, <1>12, <1>13, <1>14, <1>15, <1>16, <1>17, <1>18, <1>19, <1>20, <1>21 DEF Next, Child, Loop, Cancel

(* Every step keeps rows without a child unclaimed.                        *)
LEMMA UnclaimedStep == TypeOK /\ UnclaimedInv /\ [Next]_vars => UnclaimedInv'
<1> SUFFICES ASSUME TypeOK, UnclaimedInv, [Next]_vars PROVE UnclaimedInv'
  OBVIOUS
<1>1. ClaimedOnce'
  BY ClaimsStep DEF ClaimedOnce, UnclaimedInv
<1>2. ASSUME NEW t \in Task, cpc'[t] = "none" PROVE NoFirstCall(dbq', t)
  <2>1. cpc[t] = "none"
    BY <1>2, OnceAChild
  <2>2. QED
    BY <1>2, <2>1, NoFirstCallStep DEF UnclaimedInv
<1>3. QED
  BY <1>1, <1>2 DEF UnclaimedInv, ClaimedOnce, NoFirstCall, FirstCall

(* OverwriteInv for one call of cancel().                                  *)
Pending(k) ==
  /\ ktask[k] \in Task
  /\ status[ktask[k]] \in {"queued", "running", "cancelled"}
  /\ cpc[ktask[k]] \in {"none", "conversation", "gone"}
  /\ Ahead(dbq, k, ktask[k])

(* A cancel that is about to overwrite a queued row stays ahead of the     *)
(* row's run, whoever else moves.                                          *)
LEMMA PendingStep ==
  ASSUME TypeOK, UnclaimedInv, AwaitInv, [Next]_vars, NEW o \in Canceller,
         kpc[o] = "overwrite" => Pending(o), kpc'[o] = "overwrite"
  PROVE  Pending(o)'
<1> USE DEF TypeOK, Pending, Task, durable, pool, child, caller, history
<1>1. CASE Husk
  <2>1. Head(dbq) # [op |-> "overwrite", who |-> o]
    BY <1>1 DEF Husk, Waits
  <2>2. dbq' = Tail(dbq) /\ UNCHANGED <<kpc, ktask, status>> /\ cpc'[ktask[o]] \in {"none", "conversation", "gone"}
    BY <1>1 DEF Husk
  <2>3. QED
    BY <2>1, <2>2, AheadKept
<1>2. CASE WakeSubtasks
  <2>1. dbq' = dbq /\ UNCHANGED <<kpc, ktask>>
    BY <1>2 DEF WakeSubtasks
  <2>2. /\ status'[ktask[o]] \in {"queued", "running", "cancelled"}
        /\ cpc'[ktask[o]] \in {"none", "conversation", "gone"}
    BY <1>2, <2>1 DEF WakeSubtasks, SetWake
  <2>3. QED
    BY <2>1, <2>2
<1>3. CASE ServeClaimEmpty
  <2>1. Head(dbq) # [op |-> "overwrite", who |-> o]
    BY <1>3 DEF ServeClaimEmpty, Heads
  <2>2. dbq' = Tail(dbq) /\ UNCHANGED <<kpc, ktask, status>> /\ cpc'[ktask[o]] \in {"none", "conversation", "gone"}
    BY <1>3 DEF ServeClaimEmpty
  <2>3. QED
    BY <2>1, <2>2, AheadKept
<1>4. CASE Stop
  <2>1. dbq' = dbq /\ UNCHANGED <<kpc, ktask>>
    BY <1>4 DEF Stop
  <2>2. /\ status'[ktask[o]] \in {"queued", "running", "cancelled"}
        /\ cpc'[ktask[o]] \in {"none", "conversation", "gone"}
    BY <1>4, <2>1 DEF Stop, Interrupted
  <2>3. QED
    BY <2>1, <2>2
<1>5. CASE Reboot
  BY <1>5 DEF Reboot
<1>6. ASSUME NEW t \in Task, Submit(t) PROVE Pending(o)'
  <2>1. dbq' = dbq /\ UNCHANGED <<kpc, ktask>>
    BY <1>6 DEF Submit
  <2>2. /\ status'[ktask[o]] \in {"queued", "running", "cancelled"}
        /\ cpc'[ktask[o]] \in {"none", "conversation", "gone"}
    BY <1>6, <2>1 DEF Submit, SetWake, Inserted
  <2>3. QED
    BY <2>1, <2>2
<1>7. ASSUME NEW t \in Task, SubmitSubtask(t) PROVE Pending(o)'
  <2>1. dbq' = dbq /\ UNCHANGED <<kpc, ktask>>
    BY <1>7 DEF SubmitSubtask
  <2>2. /\ status'[ktask[o]] \in {"queued", "running", "cancelled"}
        /\ cpc'[ktask[o]] \in {"none", "conversation", "gone"}
    BY <1>7, <2>1 DEF SubmitSubtask, Inserted
  <2>3. QED
    BY <2>1, <2>2
<1>8. ASSUME NEW t \in Task, ServeClaim(t) PROVE Pending(o)'
  <2>1. FirstCall(t) \in Request /\ Head(dbq) # [op |-> "overwrite", who |-> o]
    BY <1>8, RequestFacts DEF ServeClaim, Heads, FirstCall
  <2>2. /\ dbq' = Append(Tail(dbq), FirstCall(t))
        /\ UNCHANGED <<kpc, ktask>>
        /\ status'[ktask[o]] \in {"queued", "running", "cancelled"}
        /\ cpc'[ktask[o]] \in {"none", "conversation", "gone"}
    BY <1>8 DEF ServeClaim, FirstCall
  <2>3. QED
    BY <2>1, <2>2, HeadFacts, AheadKept
<1>9. ASSUME NEW t \in Task, ServeConversation(t) PROVE Pending(o)'
  <2>1. Head(dbq) = FirstCall(t) /\ dbq' = Tail(dbq) /\ UNCHANGED <<kpc, ktask, status>>
    BY <1>9, HeadFacts DEF ServeConversation, Heads, FirstCall, Request
  <2>2. ktask[o] # t
    BY <2>1, AheadKept
  <2>3. cpc'[ktask[o]] = cpc[ktask[o]]
    BY <1>9, <2>2 DEF ServeConversation
  <2>4. Head(dbq) # [op |-> "overwrite", who |-> o]
    BY <2>1 DEF FirstCall
  <2>5. QED
    BY <2>1, <2>3, <2>4, AheadKept
<1>10. ASSUME NEW t \in Task, TurnEnds(t) PROVE Pending(o)'
  <2>1. [op |-> "update", who |-> t] \in Request
    BY RequestFacts
  <2>2. /\ dbq' = Append(dbq, [op |-> "update", who |-> t])
        /\ UNCHANGED <<kpc, ktask, status>>
        /\ cpc'[ktask[o]] \in {"none", "conversation", "gone"}
    BY <1>10 DEF TurnEnds, Ask
  <2>3. QED
    BY <2>1, <2>2, AheadKept
<1>11. ASSUME NEW t \in Task, TurnClosed(t) PROVE Pending(o)'
  <2>1. [op |-> "update", who |-> t] \in Request
    BY RequestFacts
  <2>2. /\ dbq' = Append(dbq, [op |-> "update", who |-> t])
        /\ UNCHANGED <<kpc, ktask, status>>
        /\ cpc'[ktask[o]] \in {"none", "conversation", "gone"}
    BY <1>11 DEF TurnClosed, Ask
  <2>3. QED
    BY <2>1, <2>2, AheadKept
<1>12. ASSUME NEW t \in Task, ServeUpdate(t) PROVE Pending(o)'
  <2>1. [op |-> "event", who |-> t] \in Request /\ Head(dbq) # [op |-> "overwrite", who |-> o]
    BY <1>12, RequestFacts DEF ServeUpdate, Heads, FirstCall
  <2>2. /\ dbq' = Append(Tail(dbq), [op |-> "event", who |-> t])
        /\ UNCHANGED <<kpc, ktask>>
        /\ status'[ktask[o]] \in {"queued", "running", "cancelled"}
        /\ cpc'[ktask[o]] \in {"none", "conversation", "gone"}
    BY <1>12 DEF ServeUpdate, FirstCall
  <2>3. QED
    BY <2>1, <2>2, HeadFacts, AheadKept
<1>13. ASSUME NEW t \in Task, ServeEvent(t) PROVE Pending(o)'
  <2>1. Head(dbq) # [op |-> "overwrite", who |-> o]
    BY <1>13 DEF ServeEvent, Heads
  <2>2. dbq' = Tail(dbq) /\ UNCHANGED <<kpc, ktask, status>> /\ cpc'[ktask[o]] \in {"none", "conversation", "gone"}
    BY <1>13 DEF ServeEvent
  <2>3. QED
    BY <2>1, <2>2, AheadKept
<1>14. ASSUME NEW t \in Task, Notify(t) PROVE Pending(o)'
  <2>1. dbq' = dbq /\ UNCHANGED <<kpc, ktask>>
    BY <1>14 DEF Notify
  <2>2. /\ status'[ktask[o]] \in {"queued", "running", "cancelled"}
        /\ cpc'[ktask[o]] \in {"none", "conversation", "gone"}
    BY <1>14, <2>1 DEF Notify
  <2>3. QED
    BY <2>1, <2>2
<1>15. ASSUME NEW w \in Worker, Begin(w) PROVE Pending(o)'
  <2>1. [op |-> "claim", who |-> w] \in Request
    BY RequestFacts
  <2>2. /\ dbq' = Append(dbq, [op |-> "claim", who |-> w])
        /\ UNCHANGED <<kpc, ktask, status>>
        /\ cpc'[ktask[o]] \in {"none", "conversation", "gone"}
    BY <1>15 DEF Begin, Ask
  <2>3. QED
    BY <2>1, <2>2, AheadKept
<1>16. ASSUME NEW w \in Worker, Awake(w) PROVE Pending(o)'
  <2>1. [op |-> "claim", who |-> w] \in Request
    BY RequestFacts
  <2>2. /\ dbq' = Append(dbq, [op |-> "claim", who |-> w])
        /\ UNCHANGED <<kpc, ktask, status>>
        /\ cpc'[ktask[o]] \in {"none", "conversation", "gone"}
    BY <1>16 DEF Awake, Ask
  <2>3. QED
    BY <2>1, <2>2, AheadKept
<1>17. ASSUME NEW w \in Worker, Reap(w) PROVE Pending(o)'
  <2>1. [op |-> "claim", who |-> w] \in Request
    BY RequestFacts
  <2>2. dbq' \in {dbq, Append(dbq, [op |-> "claim", who |-> w])} /\ UNCHANGED <<kpc, ktask, status, cpc>>
    BY <1>17 DEF Reap, Released, Ask
  <2>3. QED
    BY <2>1, <2>2, AheadKept
<1>18. ASSUME NEW k \in Canceller, NEW t \in Task, CancelCall(k, t) PROVE Pending(o)'
  <2>1. [op |-> "get", who |-> k] \in Request
    BY RequestFacts
  <2>2. /\ dbq' = Append(dbq, [op |-> "get", who |-> k])
        /\ UNCHANGED <<status, cpc>> /\ o # k
        /\ kpc[o] = "overwrite" /\ ktask'[o] = ktask[o]
    BY <1>18 DEF CancelCall, Ask
  <2>3. QED
    BY <2>1, <2>2, AheadKept
<1>19. ASSUME NEW k \in Canceller, ServeGet(k) PROVE Pending(o)'
  <2> DEFINE e == [op |-> "overwrite", who |-> k]
  <2>1. /\ e \in Request /\ dbq # <<>> /\ Head(dbq).op = "get"
        /\ UNCHANGED <<status, ktask>> /\ kpc[k] = "get" /\ ktask[k] \in Task
        /\ dbq' \in {Tail(dbq), Append(Tail(dbq), e)}
    BY <1>19, RequestFacts DEF ServeGet, Heads, AwaitInv
  <2>2. CASE o # k
    <3>1. kpc[o] = "overwrite" /\ Head(dbq) # [op |-> "overwrite", who |-> o]
      BY <1>19, <2>1, <2>2 DEF ServeGet, Return
    <3>2. cpc'[ktask[o]] \in {"none", "conversation", "gone"}
      BY <1>19, <3>1, ServeGetCpc DEF Interrupted
    <3>3. QED
      BY <2>1, <3>1, <3>2, HeadFacts, AheadKept
  <2>3. CASE o = k
    <3>1. status[ktask[k]] = "queued" /\ dbq' = Append(Tail(dbq), e) /\ cpc' = cpc
      BY <1>19, <2>3 DEF ServeGet, Return
    <3>2. cpc[ktask[k]] = "none" /\ NoFirstCall(Tail(dbq), ktask[k])
      BY <2>1, <3>1, NoFirstCallKept DEF UnclaimedInv
    <3>3. Ahead(dbq', k, ktask[k])
      BY <2>1, <3>1, <3>2, HeadFacts, AheadNew
    <3>4. QED
      BY <2>1, <2>3, <3>1, <3>2, <3>3
  <2>4. QED
    BY <2>2, <2>3
<1>20. ASSUME NEW k \in Canceller, ServeOverwrite(k) PROVE Pending(o)'
  <2>1. o # k
    BY <1>20 DEF ServeOverwrite, Return
  <2>2. Head(dbq) # [op |-> "overwrite", who |-> o]
    BY <1>20, <2>1 DEF ServeOverwrite
  <2>3. /\ dbq' = Tail(dbq) /\ ktask' = ktask /\ cpc' = cpc /\ kpc[o] = "overwrite"
        /\ status'[ktask[o]] \in {"queued", "running", "cancelled"}
    BY <1>20, <2>1 DEF ServeOverwrite, Return
  <2>4. QED
    BY <2>2, <2>3, AheadKept
<1>21. CASE UNCHANGED vars
  BY <1>21 DEF vars, Ahead, FirstCall
<1>22. QED
  BY <1>1, <1>2, <1>3, <1>4, <1>5, <1>6, <1>7, <1>8, <1>9, <1>10, <1>11, <1>12, <1>13, <1>14, <1>15, <1>16, <1>17, <1>18, <1>19, <1>20, <1>21 DEF Next, Child, Loop, Cancel

(* The inductive invariant holds initially.                                *)
LEMMA InitIInv == Init => IInv
<1> SUFFICES ASSUME Init PROVE IInv
  OBVIOUS
<1>1. TypeOK
  BY InitTypeOK
<1>2. UnclaimedInv
  BY DEF Init, UnclaimedInv, NoFirstCall
<1>3. ChildInv /\ NoticeInv
  BY DEF Init, ChildInv, NoticeInv, Undecided
<1>4. OverwriteInv /\ AwaitInv
  BY DEF Init, OverwriteInv, AwaitInv
<1>5. ChildReachable /\ AnnouncedIsTerminal
  BY DEF Init, ChildReachable, AnnouncedIsTerminal
<1>6. QED
  BY <1>1, <1>2, <1>3, <1>4, <1>5 DEF IInv

(* Every step keeps the inductive invariant.                               *)
LEMMA NextIInv == IInv /\ [Next]_vars => IInv'
<1> SUFFICES ASSUME IInv, [Next]_vars PROVE IInv'
  OBVIOUS
<1> USE DEF IInv
<1>1. TypeOK'
  BY NextTypeOK
<1>2. UnclaimedInv'
  BY UnclaimedStep
<1>3. ChildInv'
  BY ChildStep
<1>4. NoticeInv'
  BY NoticeStep
<1>5. OverwriteInv'
  BY PendingStep DEF OverwriteInv, Pending
<1>6. AwaitInv'
  BY AwaitStep
<1>7. ChildReachable'
  BY ReachableStep
<1>8. AnnouncedIsTerminal'
  BY AnnouncedStep
<1>9. QED
  BY <1>1, <1>2, <1>3, <1>4, <1>5, <1>6, <1>7, <1>8

(* The inductive invariant holds of every run of the pool, for any number  *)
(* of tasks, workers, cancel calls and outages.                            *)
THEOREM PoolInvariant == Spec => []IInv
  BY InitIInv, NextIInv, PTL DEF Spec

(* The owner is never notified of a verdict the task's row does not hold   *)
(* from then on (_run_task writes, then notifies).                         *)
THEOREM NoticeCorrect == Spec => []NoticeIsTrue
<1>1. IInv => NoticeIsTrue
  BY DEF IInv, NoticeInv, NoticeIsTrue
<1>2. QED
  BY <1>1, PoolInvariant, PTL

(* claim_next_task hands a row out once, and its run has one worker.       *)
THEOREM OneRunCorrect == Spec => []OneRun
<1>1. IInv => OneRun
  BY DEF IInv, UnclaimedInv, AwaitInv, OneRun
<1>2. QED
  BY <1>1, PoolInvariant, PTL

(* Every live run is registered in WorkerPool._running and awaited.        *)
THEOREM ReachableCorrect == Spec => []ChildReachable
<1>1. IInv => ChildReachable
  BY DEF IInv
<1>2. QED
  BY <1>1, PoolInvariant, PTL

(* task_done is never published ahead of the row it is about.              *)
THEOREM AnnouncedCorrect == Spec => []AnnouncedIsTerminal
<1>1. IInv => AnnouncedIsTerminal
  BY DEF IInv
<1>2. QED
  BY <1>1, PoolInvariant, PTL

(* Waking the workers on every insertion leaves no task queued beside a    *)
(* worker that sleeps.                                                     *)
THEOREM IdleCorrect == Spec => []NoIdleWorker
<1>1. Init => NoIdleWorker
  BY DEF Init, NoIdleWorker
<1>2. TypeOK /\ NoIdleWorker /\ [Next]_vars => NoIdleWorker'
  BY IdleStep
<1>3. QED
  BY <1>1, <1>2, PoolTypeCorrect, PTL DEF Spec

(* No step restamps a row that a run has finished.                         *)
LEMMA FinalStep ==
  ASSUME IInv, [Next]_vars, NEW u \in Task, status[u] \in {"done", "failed"}
  PROVE  status'[u] = status[u]
<1> USE DEF IInv, TypeOK, durable, pool, child, caller, history
<1>1. CASE Husk
  BY <1>1 DEF Husk
<1>2. CASE WakeSubtasks
  BY <1>2 DEF WakeSubtasks
<1>3. CASE ServeClaimEmpty
  BY <1>3 DEF ServeClaimEmpty
<1>4. CASE Stop
  BY <1>4 DEF Stop
<1>5. CASE Reboot
  BY <1>5 DEF Reboot
<1>6. ASSUME NEW t \in Task, Submit(t) PROVE status'[u] = status[u]
  BY <1>6 DEF Submit, Inserted
<1>7. ASSUME NEW t \in Task, SubmitSubtask(t) PROVE status'[u] = status[u]
  BY <1>7 DEF SubmitSubtask, Inserted
<1>8. ASSUME NEW t \in Task, ServeClaim(t) PROVE status'[u] = status[u]
  BY <1>8 DEF ServeClaim, OldestQueued
<1>9. ASSUME NEW t \in Task, ServeConversation(t) PROVE status'[u] = status[u]
  BY <1>9 DEF ServeConversation
<1>10. ASSUME NEW t \in Task, TurnEnds(t) PROVE status'[u] = status[u]
  BY <1>10 DEF TurnEnds
<1>11. ASSUME NEW t \in Task, TurnClosed(t) PROVE status'[u] = status[u]
  BY <1>11 DEF TurnClosed
<1>12. ASSUME NEW t \in Task, ServeUpdate(t) PROVE status'[u] = status[u]
  BY <1>12 DEF ServeUpdate, ChildInv, Undecided
<1>13. ASSUME NEW t \in Task, ServeEvent(t) PROVE status'[u] = status[u]
  BY <1>13 DEF ServeEvent
<1>14. ASSUME NEW t \in Task, Notify(t) PROVE status'[u] = status[u]
  BY <1>14 DEF Notify
<1>15. ASSUME NEW w \in Worker, Begin(w) PROVE status'[u] = status[u]
  BY <1>15 DEF Begin
<1>16. ASSUME NEW w \in Worker, Awake(w) PROVE status'[u] = status[u]
  BY <1>16 DEF Awake
<1>17. ASSUME NEW w \in Worker, Reap(w) PROVE status'[u] = status[u]
  BY <1>17 DEF Reap, Released
<1>18. ASSUME NEW k \in Canceller, NEW t \in Task, CancelCall(k, t) PROVE status'[u] = status[u]
  BY <1>18 DEF CancelCall
<1>19. ASSUME NEW k \in Canceller, ServeGet(k) PROVE status'[u] = status[u]
  BY <1>19 DEF ServeGet
<1>20. ASSUME NEW k \in Canceller, ServeOverwrite(k) PROVE status'[u] = status[u]
  BY <1>20 DEF ServeOverwrite, OverwriteInv
<1>21. CASE UNCHANGED vars
  BY <1>21 DEF vars
<1>22. QED
  BY <1>1, <1>2, <1>3, <1>4, <1>5, <1>6, <1>7, <1>8, <1>9, <1>10, <1>11, <1>12, <1>13, <1>14, <1>15, <1>16, <1>17, <1>18, <1>19, <1>20, <1>21 DEF Next, Child, Loop, Cancel

(* A cancel that read the row as queued cannot overwrite a verdict: the    *)
(* FIFO lock orders its update before everything the run writes.           *)
THEOREM DoneIsFinalCorrect == Spec => DoneIsFinal
<1> DEFINE Keeps == \A t \in Task : status[t] \in {"done", "failed"} => status'[t] = status[t]
<1>1. IInv /\ [Next]_vars => [Keeps]_vars
  BY FinalStep
<1>2. QED
  BY <1>1, PoolInvariant, PTL DEF Spec, DoneIsFinal

(* A step that only interrupts children is a Vanish of the board, or       *)
(* nothing to it.                                                          *)
LEMMA InterruptsVanish ==
  ASSUME TypeOK, cpc' \in [Task -> ChildPc], status' = status,
         \A t \in Task : Seen(cpc[t]) # "live" => Seen(cpc'[t]) = Seen(cpc[t]),
         \A t \in Task : Seen(cpc[t]) = "live" => Seen(cpc'[t]) \in {"live", "over"}
  PROVE  Board!Vanish
<1> DEFINE gone == {t \in Task : Seen(cpc[t]) = "live" /\ Seen(cpc'[t]) = "over"}
<1>1. gone \in SUBSET {t \in Task : Runner[t] = "live"}
  BY DEF Runner
<1>2. \A t \in Task : Runner'[t] = IF t \in gone THEN "over" ELSE Runner[t]
  BY DEF Runner
<1>3. Runner' = [t \in Task |-> IF t \in gone THEN "over" ELSE Runner[t]]
  BY <1>2 DEF Runner
<1>4. QED
  BY <1>1, <1>3 DEF Board!Vanish, Board!Task, Task, Runner, Seen

(* Every step of the pool is a step of the board or none.                  *)
LEMMA BoardStep ==
  ASSUME IInv, [Next]_vars
  PROVE  [Board!BoardNext]_<<status, Runner>>
<1> USE DEF IInv, TypeOK, durable, pool, child, caller, history
<1>1. CASE Husk
  <2>1. UNCHANGED <<status, cpc>>
    BY <1>1 DEF Husk
  <2>2. QED
    BY <2>1 DEF Runner
<1>2. CASE WakeSubtasks
  <2>1. UNCHANGED <<status, cpc>>
    BY <1>2 DEF WakeSubtasks
  <2>2. QED
    BY <2>1 DEF Runner
<1>3. CASE ServeClaimEmpty
  <2>1. UNCHANGED <<status, cpc>>
    BY <1>3 DEF ServeClaimEmpty
  <2>2. QED
    BY <2>1 DEF Runner
<1>4. CASE Stop
  <2>1. status' = status /\ cpc' \in [Task -> ChildPc]
    BY <1>4, NextTypeOK DEF Stop, TypeOK
  <2>2. \A t \in Task : Seen(cpc[t]) # "live" => Seen(cpc'[t]) = Seen(cpc[t])
    BY <1>4 DEF Stop, Interrupted, Seen, Undecided
  <2>3. \A t \in Task : Seen(cpc[t]) = "live" => Seen(cpc'[t]) \in {"live", "over"}
    BY <1>4 DEF Stop, Interrupted, Seen, Undecided
  <2>4. QED
    BY <2>1, <2>2, <2>3, InterruptsVanish DEF Board!BoardNext
<1>5. CASE Reboot
  <2>1. status' = status /\ cpc' \in [Task -> ChildPc]
    BY <1>5, NextTypeOK DEF Reboot, TypeOK
  <2>2. \A t \in Task : Seen(cpc[t]) # "live" => Seen(cpc'[t]) = Seen(cpc[t])
    BY <1>5 DEF Reboot, Seen, Undecided
  <2>3. \A t \in Task : Seen(cpc[t]) = "live" => Seen(cpc'[t]) \in {"live", "over"}
    BY <1>5 DEF Reboot, Seen, Undecided
  <2>4. QED
    BY <2>1, <2>2, <2>3, InterruptsVanish DEF Board!BoardNext
<1>6. ASSUME NEW t \in Task, Submit(t) PROVE [Board!BoardNext]_<<status, Runner>>
  <2>1. Inserted(t) /\ UNCHANGED cpc
    BY <1>6 DEF Submit
  <2>2. Board!Add(t)
    BY <2>1 DEF Inserted, Board!Add, Runner
  <2>3. QED
    BY <2>2 DEF Board!BoardNext, Board!Task, Task
<1>7. ASSUME NEW t \in Task, SubmitSubtask(t) PROVE [Board!BoardNext]_<<status, Runner>>
  <2>1. Inserted(t) /\ UNCHANGED cpc
    BY <1>7 DEF SubmitSubtask
  <2>2. Board!Add(t)
    BY <2>1 DEF Inserted, Board!Add, Runner
  <2>3. QED
    BY <2>2 DEF Board!BoardNext, Board!Task, Task
<1>8. ASSUME NEW t \in Task, ServeClaim(t) PROVE [Board!BoardNext]_<<status, Runner>>
  <2>1. status[t] = "queued" /\ cpc[t] = "none"
    BY <1>8 DEF ServeClaim, OldestQueued, UnclaimedInv
  <2>2. cpc' = [cpc EXCEPT ![t] = "conversation"] /\ status' = [status EXCEPT ![t] = "running"]
    BY <1>8 DEF ServeClaim
  <2>3. Runner[t] = "none" /\ Runner' = [Runner EXCEPT ![t] = "live"]
    BY <2>1, <2>2 DEF Runner, Seen, Undecided
  <2>4. Board!Claim(t)
    BY <2>1, <2>2, <2>3 DEF Board!Claim
  <2>5. QED
    BY <2>4 DEF Board!BoardNext, Board!Task, Task
<1>9. ASSUME NEW t \in Task, ServeConversation(t) PROVE [Board!BoardNext]_<<status, Runner>>
  <2>1. Seen(cpc'[t]) = Seen(cpc[t]) /\ status' = status
    BY <1>9 DEF ServeConversation, Seen, Undecided
  <2>2. \A u \in Task : u # t => cpc'[u] = cpc[u]
    BY <1>9 DEF ServeConversation
  <2>3. Runner' = Runner
    BY <2>1, <2>2 DEF Runner
  <2>4. QED
    BY <2>1, <2>3
<1>10. ASSUME NEW t \in Task, TurnEnds(t) PROVE [Board!BoardNext]_<<status, Runner>>
  <2>1. Seen(cpc'[t]) = Seen(cpc[t]) /\ status' = status
    BY <1>10 DEF TurnEnds, Seen, Undecided
  <2>2. \A u \in Task : u # t => cpc'[u] = cpc[u]
    BY <1>10 DEF TurnEnds
  <2>3. Runner' = Runner
    BY <2>1, <2>2 DEF Runner
  <2>4. QED
    BY <2>1, <2>3
<1>11. ASSUME NEW t \in Task, TurnClosed(t) PROVE [Board!BoardNext]_<<status, Runner>>
  <2>1. Seen(cpc'[t]) = Seen(cpc[t]) /\ status' = status
    BY <1>11 DEF TurnClosed, Seen, Undecided
  <2>2. \A u \in Task : u # t => cpc'[u] = cpc[u]
    BY <1>11 DEF TurnClosed
  <2>3. Runner' = Runner
    BY <2>1, <2>2 DEF Runner
  <2>4. QED
    BY <2>1, <2>3
<1>12. ASSUME NEW t \in Task, ServeUpdate(t) PROVE [Board!BoardNext]_<<status, Runner>>
  <2>1. cpc[t] = "update" /\ outcome[t] \in Terminal
    BY <1>12 DEF ServeUpdate
  <2>2. cpc' = [cpc EXCEPT ![t] = "event"] /\ status' = [status EXCEPT ![t] = outcome[t]]
    BY <1>12 DEF ServeUpdate
  <2>3. Runner[t] = "live" /\ Runner' = [Runner EXCEPT ![t] = "over"]
    BY <2>1, <2>2 DEF Runner, Seen, Undecided
  <2>4. Board!Finish(t)
    BY <2>1, <2>2, <2>3 DEF Board!Finish, Board!Terminal, Terminal
  <2>5. QED
    BY <2>4 DEF Board!BoardNext, Board!Task, Task
<1>13. ASSUME NEW t \in Task, ServeEvent(t) PROVE [Board!BoardNext]_<<status, Runner>>
  <2>1. Seen(cpc'[t]) = Seen(cpc[t]) /\ status' = status
    BY <1>13 DEF ServeEvent, Seen, Undecided
  <2>2. \A u \in Task : u # t => cpc'[u] = cpc[u]
    BY <1>13 DEF ServeEvent
  <2>3. Runner' = Runner
    BY <2>1, <2>2 DEF Runner
  <2>4. QED
    BY <2>1, <2>3
<1>14. ASSUME NEW t \in Task, Notify(t) PROVE [Board!BoardNext]_<<status, Runner>>
  <2>1. Seen(cpc'[t]) = Seen(cpc[t]) /\ status' = status
    BY <1>14 DEF Notify, Seen, Undecided
  <2>2. \A u \in Task : u # t => cpc'[u] = cpc[u]
    BY <1>14 DEF Notify
  <2>3. Runner' = Runner
    BY <2>1, <2>2 DEF Runner
  <2>4. QED
    BY <2>1, <2>3
<1>15. ASSUME NEW w \in Worker, Begin(w) PROVE [Board!BoardNext]_<<status, Runner>>
  <2>1. UNCHANGED <<status, cpc>>
    BY <1>15 DEF Begin
  <2>2. QED
    BY <2>1 DEF Runner
<1>16. ASSUME NEW w \in Worker, Awake(w) PROVE [Board!BoardNext]_<<status, Runner>>
  <2>1. UNCHANGED <<status, cpc>>
    BY <1>16 DEF Awake
  <2>2. QED
    BY <2>1 DEF Runner
<1>17. ASSUME NEW w \in Worker, Reap(w) PROVE [Board!BoardNext]_<<status, Runner>>
  <2>1. UNCHANGED <<status, cpc>>
    BY <1>17 DEF Reap, Released
  <2>2. QED
    BY <2>1 DEF Runner
<1>18. ASSUME NEW k \in Canceller, NEW t \in Task, CancelCall(k, t) PROVE [Board!BoardNext]_<<status, Runner>>
  <2>1. UNCHANGED <<status, cpc>>
    BY <1>18 DEF CancelCall
  <2>2. QED
    BY <2>1 DEF Runner
<1>19. ASSUME NEW k \in Canceller, ServeGet(k) PROVE [Board!BoardNext]_<<status, Runner>>
  <2>1. status' = status /\ cpc' \in [Task -> ChildPc]
    BY <1>19, NextTypeOK DEF ServeGet, TypeOK
  <2>2. \A t \in Task : Seen(cpc[t]) # "live" => Seen(cpc'[t]) = Seen(cpc[t])
    BY <1>19, ServeGetCpc DEF Interrupted, Seen, Undecided
  <2>3. \A t \in Task : Seen(cpc[t]) = "live" => Seen(cpc'[t]) \in {"live", "over"}
    BY <1>19, ServeGetCpc DEF Interrupted, Seen, Undecided
  <2>4. QED
    BY <2>1, <2>2, <2>3, InterruptsVanish DEF Board!BoardNext
<1>20. ASSUME NEW k \in Canceller, ServeOverwrite(k) PROVE [Board!BoardNext]_<<status, Runner>>
  <2> DEFINE t == ktask[k]
  <2>1. t \in Task /\ status[t] \in {"queued", "running", "cancelled"}
    BY <1>20 DEF ServeOverwrite, OverwriteInv
  <2>2. status' = [status EXCEPT ![t] = "cancelled"] /\ Runner' = Runner
    BY <1>20 DEF ServeOverwrite, Runner
  <2>3. CASE status[t] = "queued"
    <3>1. Board!CancelQueued(t)
      BY <2>2, <2>3 DEF Board!CancelQueued
    <3>2. QED
      BY <2>1, <3>1 DEF Board!BoardNext, Board!Task, Task
  <2>4. CASE status[t] = "running"
    <3>1. Board!CancelClaimed(t)
      BY <2>2, <2>4 DEF Board!CancelClaimed
    <3>2. QED
      BY <2>1, <3>1 DEF Board!BoardNext, Board!Task, Task
  <2>5. CASE status[t] = "cancelled"
    <3>1. status' = status
      BY <2>1, <2>2, <2>5
    <3>2. QED
      BY <2>2, <3>1
  <2>6. QED
    BY <2>1, <2>3, <2>4, <2>5
<1>21. CASE UNCHANGED vars
  BY <1>21 DEF vars, Runner
<1>22. QED
  BY <1>1, <1>2, <1>3, <1>4, <1>5, <1>6, <1>7, <1>8, <1>9, <1>10, <1>11, <1>12, <1>13, <1>14, <1>15, <1>16, <1>17, <1>18, <1>19, <1>20, <1>21 DEF Next, Child, Loop, Cancel

(* The pool, with its workers, its lock queue, its cancels and its         *)
(* restarts, implements the task board.                                    *)
THEOREM PoolImplementsBoard == Spec => ImplementsBoard
<1>1. Init => Board!BoardInit
  <2> SUFFICES ASSUME Init PROVE Board!BoardInit
    OBVIOUS
  <2>1. Seen("none") = "none"
    BY DEF Seen, Undecided
  <2>2. Runner = [t \in Task |-> "none"]
    BY <2>1 DEF Init, Runner
  <2>3. QED
    BY <2>2 DEF Init, Board!BoardInit, Board!Task, Task
<1>2. IInv /\ [Next]_vars => [Board!BoardNext]_(Board!bvars)
  BY BoardStep DEF Board!bvars
<1>3. QED
  BY <1>1, <1>2, PoolInvariant, PTL DEF Spec, ImplementsBoard, Board!BoardSpec
=============================================================================
