-------------------------------- MODULE Facts --------------------------------
(* MemoryStore's facts.  add_fact and forget embed their text, read the    *)
(* nearest vectors, read the rows those vectors name, and only then write: *)
(* each is one hold of the database lock, and the user's tool calls, the   *)
(* fact browser and the background extractor run in between.               *)
EXTENDS Naturals, FiniteSets

CONSTANTS
  Phrase,    \* texts a fact may have
  Same,      \* pairs at least dedup_similarity apart from being equal
  Near,      \* pairs at least min_similarity, without those in Same
  Candidates,\* add_fact's n of _nearest
  K,         \* MemoryStore.k: a search looks at 3K and returns at most K
  Caller,    \* coroutines that remember and forget
  Extractor, \* those among them that run the fact extractor
  MaxFacts   \* rows at once

ASSUME FactsAssumption ==
  /\ Same \subseteq Phrase \X Phrase /\ Near \subseteq Phrase \X Phrase
  /\ Candidates \in Nat \ {0} /\ K \in Nat \ {0} /\ MaxFacts \in Nat /\ Extractor \subseteq Caller

VARIABLES
  fact,  \* id -> text, active, source
  fvec,  \* fact id -> embedded text
  op,    \* caller -> its call
  raced  \* a call wrote although another had written since it read
factVars == <<fact, fvec, op, raced>>

(* Cosine similarity as the three grades the code's thresholds tell apart. *)
Grade(p, q) == IF p = q \/ <<p, q>> \in Same \/ <<q, p>> \in Same THEN 2
               ELSE IF <<p, q>> \in Near \/ <<q, p>> \in Near THEN 1 ELSE 0

None == [i \in {} |-> 0]
Free == [kind |-> "none", pc |-> "idle", text |-> 0, sim |-> None, ids |-> {}, stale |-> FALSE]
Sources == {"explicit", "extracted"}
NewFactId == IF DOMAIN fact = {} THEN 1
             ELSE 1 + CHOOSE m \in DOMAIN fact : \A k \in DOMAIN fact : k <= m

FactsInit ==
  /\ fact = None /\ fvec = None
  /\ op = [a \in Caller |-> Free] /\ raced = FALSE

(* A call sends its text to the embedder: the user's remember and forget,  *)
(* and each fact the extractor's model answered with.                      *)
Call(a, kind, p) ==
  /\ op[a].pc = "idle"
  /\ op' = [op EXCEPT ![a] = [Free EXCEPT !.kind = kind, !.pc = "knn", !.text = p]]
  /\ UNCHANGED <<fact, fvec, raced>>
Remember(a, p) == a \notin Extractor /\ Call(a, "explicit", p)
Forget(a, p)   == a \notin Extractor /\ Call(a, "forget", p)
Extract(a, p)  == a \in Extractor /\ Call(a, "extracted", p)

(* _knn: n ids and their similarities, none nearer left out.              *)
Best(S, n, g) ==
  {T \in SUBSET S : /\ Cardinality(T) = IF Cardinality(S) <= n THEN Cardinality(S) ELSE n
                    /\ \A i \in T, k \in S \ T : g[k] <= g[i]}
Knn(a) ==
  /\ op[a].pc = "knn"
  /\ LET sim == [i \in DOMAIN fvec |-> Grade(fvec[i], op[a].text)] IN
     \E S \in Best(DOMAIN fvec, IF op[a].kind = "forget" THEN 3 * K ELSE Candidates, sim) :
       op' = [op EXCEPT ![a].sim = [i \in S |-> sim[i]], ![a].pc = "rows"]
  /\ UNCHANGED <<fact, fvec, raced>>

(* The candidates that end add_fact's loop, best first: an active          *)
(* duplicate, a forgotten fact said again by the user, and for the         *)
(* extractor anything close to a forgotten fact.                           *)
DecidesActiveOnly(i, sim, kind) == fact[i].active /\ sim = 2
Decides(i, sim, kind) ==
  \/ fact[i].active /\ sim = 2
  \/ ~fact[i].active /\ sim >= (IF kind = "explicit" THEN 2 ELSE 1)
Deciding(a) ==
  LET sim == op[a].sim
      D == {i \in DOMAIN sim \intersect DOMAIN fact : Decides(i, sim[i], op[a].kind)}
  IN {i \in D : \A k \in D : sim[k] <= sim[i]}

RowsForAdd(a) ==
  /\ op[a].pc = "rows" /\ op[a].kind \in Sources
  /\ IF Deciding(a) = {}
     THEN op' = [op EXCEPT ![a].pc = "insert", ![a].sim = None]
     ELSE \E i \in Deciding(a) :
            op' = [op EXCEPT ![a] = IF fact[i].active \/ op[a].kind = "extracted" THEN Free
                                    ELSE [@ EXCEPT !.pc = "activate", !.ids = {i}, !.sim = None]]
  /\ UNCHANGED <<fact, fvec, raced>>

(* forget: the active matches above the floor, K of them at most.          *)
Matching(a) == {i \in DOMAIN op[a].sim \intersect DOMAIN fact : fact[i].active /\ op[a].sim[i] >= 1}
RowsForForget(a) ==
  /\ op[a].pc = "rows" /\ op[a].kind = "forget"
  /\ \E M \in Best(Matching(a), K, op[a].sim) :
       op' = [op EXCEPT ![a] = IF M = {} THEN Free
                               ELSE [@ EXCEPT !.pc = "deactivate", !.ids = M, !.sim = None]]
  /\ UNCHANGED <<fact, fvec, raced>>

(* A commit: what the calls under way have read is out of date.            *)
Outdated(f) == [a \in Caller |-> IF f[a].pc \in {"idle", "knn"} THEN f[a] ELSE [f[a] EXCEPT !.stale = TRUE]]
Commits(a) ==
  /\ op' = Outdated([op EXCEPT ![a] = Free])
  /\ raced' = (raced \/ op[a].stale)

Insert(a) ==
  /\ op[a].pc = "insert" /\ NewFactId <= MaxFacts
  /\ fact' = [i \in DOMAIN fact \union {NewFactId} |->
               IF i = NewFactId THEN [text |-> op[a].text, active |-> TRUE, source |-> op[a].kind] ELSE fact[i]]
  /\ fvec' = [i \in DOMAIN fvec \union {NewFactId} |-> IF i = NewFactId THEN op[a].text ELSE fvec[i]]
  /\ Commits(a)

SetActive(S, b) == [i \in DOMAIN fact |-> IF i \in S THEN [fact[i] EXCEPT !.active = b] ELSE fact[i]]
Activate(a) ==
  /\ op[a].pc = "activate"
  /\ fact' = SetActive(op[a].ids, TRUE) /\ UNCHANGED fvec /\ Commits(a)
Deactivate(a) ==
  /\ op[a].pc = "deactivate"
  /\ fact' = SetActive(op[a].ids, FALSE) /\ UNCHANGED fvec /\ Commits(a)

(* One hold of the lock each: forget_last, the fact browser's delete, wipe.*)
ForgetLast ==
  /\ \E i \in DOMAIN fact : /\ fact[i].active
                            /\ \A k \in DOMAIN fact : fact[k].active => k <= i
                            /\ fact' = SetActive({i}, FALSE)
  /\ op' = Outdated(op) /\ UNCHANGED <<fvec, raced>>
VectorStays(i) == fvec
VectorGoes(i) == [k \in DOMAIN fvec \ {i} |-> fvec[k]]
DeleteFact(i) ==
  /\ i \in DOMAIN fact
  /\ fact' = [k \in DOMAIN fact \ {i} |-> fact[k]]
  /\ fvec' = VectorGoes(i)
  /\ op' = Outdated(op) /\ UNCHANGED raced
WipeFacts ==
  /\ DOMAIN fact # {}
  /\ fact' = None /\ fvec' = None
  /\ op' = Outdated(op) /\ UNCHANGED raced

FactsNext ==
  \/ ForgetLast \/ WipeFacts \/ \E i \in DOMAIN fact : DeleteFact(i)
  \/ \E a \in Caller : \/ Knn(a) \/ RowsForAdd(a) \/ RowsForForget(a)
                       \/ Insert(a) \/ Activate(a) \/ Deactivate(a)
                       \/ \E p \in Phrase : Remember(a, p) \/ Forget(a, p) \/ Extract(a, p)

FactsSpec == FactsInit /\ [][FactsNext]_factVars

-----------------------------------------------------------------------------
(* Every fact keeps exactly its own vector; and unless a call wrote on     *)
(* reads another call had outdated, no two active facts say the same.      *)
NoTwins ==
  /\ DOMAIN fvec = DOMAIN fact /\ \A i \in DOMAIN fact : fvec[i] = fact[i].text
  /\ raced \/ \A i, k \in DOMAIN fact : (i # k /\ fact[i].active /\ fact[k].active)
                                        => Grade(fact[i].text, fact[k].text) < 2

(* What the user forgot stays forgotten: the extractor adds nothing close  *)
(* to a forgotten fact it was shown, and a forget leaves no close fact     *)
(* active, even under paraphrase, unless more than K are close.            *)
Crowded(f, p) == Cardinality({k \in DOMAIN fvec : Grade(fvec[k], p) >= Grade(fvec[f], p)}) > Candidates
CloseFacts(p) == {k \in DOMAIN fvec : Grade(fvec[k], p) >= 1}
AddsNoneForgotten ==
  \A i \in DOMAIN fact' \ DOMAIN fact : fact'[i].source = "extracted" =>
    \A f \in DOMAIN fact : ~fact[f].active /\ Grade(fact[f].text, fact'[i].text) >= 1
                           => Crowded(f, fact'[i].text)
Forgets(a) == op[a].pc = "deactivate" /\ op'[a].pc = "idle"
LeavesNoneClose(a) ==
  \/ \A i \in DOMAIN fact' : Grade(fact'[i].text, op[a].text) >= 1 => ~fact'[i].active
  \/ Cardinality(CloseFacts(op[a].text)) > K
ForgottenStaysForgotten == [][
  raced' \/ (AddsNoneForgotten /\ \A a \in Caller : Forgets(a) => LeavesNoneClose(a))]_factVars
=============================================================================
