--------------------------- MODULE Memory_proofs ---------------------------
(* What the memory promises as long as no job wrote on reads that an       *)
(* erasure had outdated: for any number of conversations, messages, jobs   *)
(* and facts, any cadence of the summaries and any similarity of texts.    *)
EXTENDS Recall, Facts, TLAPS, FiniteSetTheorems, WellFoundedInduction

(* Orders.                                                                 *)

(* The least-number principle, over a relation that is the order.          *)
LEMMA LeastOf ==
  ASSUME NEW R, IsWellFoundedOn(R, Nat), \A x, y \in Nat : <<y, x>> \in R <=> y < x,
         NEW T \in SUBSET Nat, T # {}
  PROVE  \E x \in T : \A y \in T : x <= y
<1>1. PICK x \in T : \A y \in T : ~(<<y, x>> \in R)
  BY WFMin
<1>2. \A y \in T : ~(y < x)
  BY <1>1
<1>3. \A y \in T : x <= y
  BY <1>2
<1>4. QED
  BY <1>3

(* A set of numbers has a least one ...                                    *)
LEMMA Least ==
  ASSUME NEW T \in SUBSET Nat, T # {}
  PROVE  \E x \in T : \A y \in T : x <= y
<1> DEFINE R == OpToRel(<, Nat)
<1>1. IsWellFoundedOn(R, Nat)
  BY NatLessThanWellFounded
<1>2. \A x, y \in Nat : <<y, x>> \in R <=> y < x
  BY DEF OpToRel
<1> HIDE DEF R
<1>3. QED
  BY <1>1, <1>2, LeastOf

(* ... and, when it is bounded, a greatest one, which MaxOf names.         *)
LEMMA Greatest ==
  ASSUME NEW S \in SUBSET Nat, NEW b \in Nat, \A x \in S : x <= b
  PROVE  /\ MaxOf(S) \in Nat /\ MaxOf(S) \in S \union {0}
         /\ \A x \in S : x <= MaxOf(S)
<1> DEFINE U == {u \in Nat : \A x \in S : x <= u}
<1>1. PICK u \in U : \A v \in U : u <= v
  <2>1. b \in U
    OBVIOUS
  <2> HIDE DEF U
  <2>2. U \in SUBSET Nat
    BY DEF U
  <2>3. QED
    BY <2>1, <2>2, Least
<1>2. u \in S \union {0}
  <2>1. SUFFICES ASSUME u \notin S, u # 0 PROVE FALSE
    OBVIOUS
  <2>2. u - 1 \in Nat /\ \A x \in S : x <= u - 1
    BY <2>1
  <2>3. u <= u - 1
    BY <1>1, <2>2
  <2>4. QED
    BY <2>2, <2>3
<1> DEFINE Top(x) == x \in S \union {0} /\ \A y \in S : y <= x
<1>3. Top(u)
  BY <1>1, <1>2
<1> DEFINE top == CHOOSE x : Top(x)
<1>4. MaxOf(S) = top
  BY DEF MaxOf
<1>5. Top(top)
  <2> HIDE DEF Top
  <2>1. QED
    BY <1>3
<1>6. top \in S \union {0} /\ \A x \in S : x <= top
  BY <1>5
<1> HIDE DEF top
<1>7. QED
  BY <1>4, <1>6
-----------------------------------------------------------------------------
(* The messages, and what a summary or a watermark says of them: M and N   *)
(* are the table before and after, c a conversation and t its turn.        *)

Message == [conv : Nat, turn : Nat, role : {"user", "assistant"}, status : {"ok", "failed"}, text : Nat]
Table(M) == DOMAIN M \subseteq Nat \ {0} /\ \A i \in DOMAIN M : M[i] \in Message
Bounded(M) == \E b \in Nat : \A i \in DOMAIN M : i <= b
Distinct(M) == \A i, k \in DOMAIN M : M[i].text = M[k].text => i = k
RowsOf(M, c) == {i \in DOMAIN M : M[i].conv = c}

(* The running turn's question and answer are the newest rows.             *)
Tail(M, t, c) ==
  t # 0 => \A i, k \in RowsOf(M, c) : M[i].turn = t /\ k > i =>
             M[i].role = "user" /\ M[k].role = "assistant" /\ M[k].turn = t

(* A row is added; rows get another status.                                *)
Grown(M, N, n) ==
  /\ n \in Nat \ {0} /\ \A i \in DOMAIN M : i < n
  /\ DOMAIN N = DOMAIN M \union {n} /\ \A i \in DOMAIN M : N[i] = M[i]
Restamped(M, N) ==
  /\ DOMAIN N = DOMAIN M
  /\ \A i \in DOMAIN M : /\ N[i] \in Message /\ N[i].conv = M[i].conv /\ N[i].turn = M[i].turn
                         /\ N[i].role = M[i].role /\ N[i].text = M[i].text

(* A summary of the texts S up to the row f: it has all completed rows up  *)
(* to f and none past it; it never reaches the newest row, nor the rows of *)
(* the running turn that a second boot has failed.                         *)
Covers(M, t, c, S, f) ==
  /\ \A i \in RowsOf(M, c) : M[i].status = "ok" /\ i <= f => M[i].text \in S
  /\ \A i \in RowsOf(M, c) : M[i].text \in S => i <= f
  /\ f = 0 \/ \E k \in RowsOf(M, c) : k > f
  /\ \A i \in RowsOf(M, c) : t # 0 /\ M[i].turn = t /\ M[i].status # "ok" => i > f
Folds(M, t, c, S, f) ==
  /\ \A x \in S : \E i \in RowsOf(M, c) : M[i].text = x
  /\ KeepRecent > 0 => Covers(M, t, c, S, f)

(* A conversation without a summary.                                       *)
LEMMA FoldsNothing ==
  ASSUME NEW M, Table(M), NEW t, NEW c
  PROVE  Folds(M, t, c, {}, 0)
<1>1. \A i \in RowsOf(M, c) : i \in Nat /\ i > 0
  BY DEF Table, RowsOf
<1>2. QED
  BY <1>1 DEF Folds, Covers

(* The newest row but KeepRecent that a fold takes: a fold of the due rows *)
(* makes a summary of the same kind.                                       *)
LEMMA FoldsRead ==
  ASSUME NEW M, Table(M), Bounded(M), Distinct(M), NEW t, NEW c, Tail(M, t, c),
         NEW S, NEW f \in Nat, Folds(M, t, c, S, f),
         NEW D, D = {i \in RowsOf(M, c) : M[i].status = "ok" /\ i > f}, FoldOf(D) # {}
  PROVE  /\ MaxOf(FoldOf(D)) \in Nat
         /\ Folds(M, t, c, S \union {M[i].text : i \in FoldOf(D)}, MaxOf(FoldOf(D)))
<1> DEFINE F == FoldOf(D)
           g == MaxOf(F)
           Newer(i) == {k \in D : k > i}
<1>1. PICK b \in Nat : \A i \in DOMAIN M : i <= b
  BY DEF Bounded
<1>2. /\ D \in SUBSET Nat /\ D \subseteq RowsOf(M, c) /\ \A i \in D : i <= b
      /\ F \in SUBSET D /\ \A i \in F : i > 0
  BY <1>1 DEF RowsOf, Table, FoldOf
<1>3. IsFiniteSet(D) /\ \A T \in SUBSET D : IsFiniteSet(T) /\ Cardinality(T) \in Nat
  <2>1. IsFiniteSet(D)
    BY <1>2, FS_BoundedSetOfNaturals
  <2>2. QED
    BY <2>1, FS_Subset, FS_CardinalityType
<1>4. F \in SUBSET Nat /\ \A i \in F : i <= b
  BY <1>2
<1>5. g \in Nat /\ g \in F \union {0} /\ \A i \in F : i <= g
  <2> HIDE DEF F
  <2>1. QED
    BY <1>1, <1>4, Greatest
<1>6. g \in F /\ g \in D /\ g > f /\ M[g].status = "ok"
  <2>1. PICK i \in F : TRUE
    OBVIOUS
  <2>2. i > 0 /\ i <= g /\ i \in Nat
    BY <2>1, <1>2, <1>4, <1>5
  <2>3. g # 0
    BY <2>2, <1>5
  <2>4. g \in F
    BY <2>3, <1>5
  <2>5. QED
    BY <2>4, <1>2
<1>7. \A x \in S \union {M[i].text : i \in F} : \E i \in RowsOf(M, c) : M[i].text = x
  BY <1>2 DEF Folds
<1>8. ASSUME KeepRecent > 0
      PROVE  Covers(M, t, c, S \union {M[i].text : i \in F}, g)
  <2>1. \A i \in D : i \in F <=> Cardinality(Newer(i)) >= KeepRecent
    BY DEF FoldOf
  <2>2. PICK k \in D : k > g
    <3>1. Cardinality(Newer(g)) >= KeepRecent
      BY <1>6, <2>1
    <3>2. Cardinality(Newer(g)) # 0
      BY <3>1, <1>8, <1>3, RecallAssumption DEF RecallAssumption
    <3>3. Newer(g) # {}
      BY <3>2, FS_EmptySet
    <3>4. QED
      BY <3>3
  <2>3. \A i \in RowsOf(M, c) : M[i].status = "ok" /\ i <= g => M[i].text \in S \union {M[k1].text : k1 \in F}
    <3>0. \A i \in RowsOf(M, c) : i \in Nat /\ (M[i].status = "ok" /\ i <= f => M[i].text \in S)
      BY <1>8 DEF Folds, Covers, RowsOf, Table
    <3> SUFFICES ASSUME NEW i \in RowsOf(M, c), M[i].status = "ok", i <= g, i > f
                 PROVE  i \in F
      <4> HIDE DEF F
      <4>1. \A i \in RowsOf(M, c) : i <= f \/ i > f
        BY <3>0
      <4>2. QED
        BY <3>0, <4>1
    <3>1. i \in D
      OBVIOUS
    <3>2. Newer(g) \subseteq Newer(i)
      <4>1. i \in Nat /\ g \in Nat /\ \A k1 \in D : k1 \in Nat
        BY <3>1, <1>2, <1>5
      <4>2. \A k1 \in D : k1 > g => k1 > i
        <5> HIDE DEF g
        <5>1. QED
          BY <4>1
      <4>3. QED
        BY <4>2
    <3>3. Cardinality(Newer(g)) <= Cardinality(Newer(i))
      <4>1. IsFiniteSet(Newer(i)) /\ Newer(g) \in SUBSET Newer(i)
        BY <3>2, <1>3
      <4> HIDE DEF Newer
      <4>2. QED
        BY <4>1, FS_Subset
    <3>4. Cardinality(Newer(i)) \in Nat /\ Cardinality(Newer(g)) \in Nat
      BY <1>3
    <3>5. Cardinality(Newer(i)) >= KeepRecent
      BY <3>3, <3>4, <1>6, <2>1, RecallAssumption DEF RecallAssumption
    <3>6. QED
      BY <3>1, <3>5, <2>1
  <2>4. \A i \in RowsOf(M, c) : M[i].text \in S \union {M[k1].text : k1 \in F} => i <= g
    <3> SUFFICES ASSUME NEW i \in RowsOf(M, c), M[i].text \in S \union {M[k1].text : k1 \in F}
                 PROVE  i <= g
      OBVIOUS
    <3>1. CASE M[i].text \in S
      <4>1. i <= f /\ i \in Nat
        BY <3>1, <1>8 DEF Folds, Covers, RowsOf, Table
      <4>2. QED
        BY <4>1, <1>5, <1>6
    <3>2. CASE M[i].text \in {M[k1].text : k1 \in F}
      <4>1. i \in F
        BY <3>2, <1>2 DEF Distinct, RowsOf
      <4>2. QED
        BY <4>1, <1>5
    <3>3. QED
      BY <3>1, <3>2
  <2>5. \E i \in RowsOf(M, c) : i > g
    BY <2>2, <1>2
  <2>6. \A i \in RowsOf(M, c) : t # 0 /\ M[i].turn = t /\ M[i].status # "ok" => i > g
    <3> SUFFICES ASSUME NEW i \in RowsOf(M, c), t # 0, M[i].turn = t, M[i].status # "ok", ~(i > g)
                 PROVE  FALSE
      OBVIOUS
    <3>1. i \in Nat /\ i < g /\ k > i /\ k \in RowsOf(M, c) /\ g \in RowsOf(M, c)
      BY <1>2, <1>5, <1>6, <2>2 DEF RowsOf, Table
    <3>2. M[g].role = "assistant" /\ M[g].turn = t
      BY <3>1 DEF Tail
    <3>3. M[g].role = "user"
      BY <3>1, <3>2, <2>2 DEF Tail
    <3>4. QED
      BY <3>2, <3>3
  <2>7. QED
    BY <2>3, <2>4, <2>5, <2>6 DEF Covers
<1>9. QED
  BY <1>5, <1>7, <1>8 DEF Folds

(* A new row is past every summary, and its text in none.                  *)
LEMMA FoldsGrown ==
  ASSUME NEW M, Table(M), NEW N, NEW n, Grown(M, N, n), NEW w \in Nat,
         N[n].status = "ok", N[n].text = w + 1, \A i \in DOMAIN M : M[i].text <= w,
         NEW c, NEW t, NEW u, \A i \in RowsOf(M, c) : M[i].turn = u => u = t,
         NEW S, NEW f \in Nat, Folds(M, t, c, S, f)
  PROVE  Folds(N, u, c, S, f)
<1>1. /\ RowsOf(M, c) \subseteq RowsOf(N, c) /\ RowsOf(N, c) \subseteq RowsOf(M, c) \union {n}
      /\ \A i \in RowsOf(M, c) : N[i] = M[i] /\ i \in Nat /\ i < n
      /\ n \in Nat \ {0}
  BY DEF RowsOf, Grown, Table
<1>2. \A x \in S : \E i \in RowsOf(N, c) : N[i].text = x
  BY <1>1 DEF Folds
<1>3. w + 1 \notin S
  <2>1. \A x \in S : \E i \in DOMAIN M : M[i].text = x
    BY DEF Folds, RowsOf
  <2>2. ~(w + 1 <= w)
    OBVIOUS
  <2>3. QED
    BY <2>1, <2>2
<1>4. ASSUME KeepRecent > 0
      PROVE  Covers(N, u, c, S, f)
  <2>1. Covers(M, t, c, S, f)
    BY <1>4 DEF Folds
  <2>2. f < n
    <3>1. f = 0 \/ \E k \in RowsOf(M, c) : k > f
      BY <2>1 DEF Covers
    <3>2. QED
      BY <3>1, <1>1
  <2>3. f = 0 \/ \E k \in RowsOf(N, c) : k > f
    BY <2>1, <1>1 DEF Covers
  <2>4. \A i \in RowsOf(N, c) : N[i].status = "ok" /\ i <= f => N[i].text \in S
    BY <2>1, <2>2, <1>1 DEF Covers
  <2>5. \A i \in RowsOf(N, c) : N[i].text \in S => i <= f
    BY <2>1, <1>1, <1>3 DEF Covers
  <2>6. \A i \in RowsOf(N, c) : u # 0 /\ N[i].turn = u /\ N[i].status # "ok" => i > f
    BY <2>1, <1>1 DEF Covers
  <2>7. QED
    BY <2>3, <2>4, <2>5, <2>6 DEF Covers
<1>5. QED
  BY <1>2, <1>4 DEF Folds

(* Only rows of the turn that was running are repaired; those that fail    *)
(* while their turn runs on are the newest of their conversation.          *)
LEMMA FoldsRestamped ==
  ASSUME NEW M, Table(M), NEW N, Restamped(M, N), NEW c, NEW t, NEW u,
         \A i \in RowsOf(M, c) : N[i].status = "ok" /\ M[i].status # "ok" => t # 0 /\ M[i].turn = t,
         \A i \in RowsOf(M, c) : u # 0 /\ M[i].turn = u /\ N[i].status # "ok" =>
           (u = t /\ M[i].status # "ok") \/ (\A k \in RowsOf(M, c) : k <= i),
         NEW S, NEW f \in Nat, Folds(M, t, c, S, f)
  PROVE  Folds(N, u, c, S, f)
<1>1. /\ RowsOf(N, c) = RowsOf(M, c) /\ \A i \in RowsOf(M, c) : i \in Nat /\ i > 0
      /\ \A i \in RowsOf(M, c) : N[i].text = M[i].text /\ N[i].turn = M[i].turn
  BY DEF RowsOf, Restamped, Table
<1>2. \A x \in S : \E i \in RowsOf(N, c) : N[i].text = x
  BY <1>1 DEF Folds
<1>3. ASSUME KeepRecent > 0
      PROVE  Covers(N, u, c, S, f)
  <2>1. Covers(M, t, c, S, f)
    BY <1>3 DEF Folds
  <2>2. \A i \in RowsOf(N, c) : N[i].status = "ok" /\ i <= f => N[i].text \in S
    <3> SUFFICES ASSUME NEW i \in RowsOf(M, c), N[i].status = "ok", i <= f
                 PROVE  M[i].text \in S
      BY <1>1
    <3>1. CASE M[i].status = "ok"
      BY <3>1, <2>1 DEF Covers
    <3>2. CASE M[i].status # "ok"
      <4>1. i > f
        BY <3>2, <2>1 DEF Covers
      <4>2. QED
        BY <4>1, <1>1
    <3>3. QED
      BY <3>1, <3>2
  <2>3. \A i \in RowsOf(N, c) : u # 0 /\ N[i].turn = u /\ N[i].status # "ok" => i > f
    <3> SUFFICES ASSUME NEW i \in RowsOf(M, c), u # 0, M[i].turn = u, N[i].status # "ok"
                 PROVE  i > f
      BY <1>1
    <3>1. CASE u = t /\ M[i].status # "ok"
      BY <3>1, <2>1 DEF Covers
    <3>2. CASE \A k \in RowsOf(M, c) : k <= i
      <4>1. f = 0 \/ \E k \in RowsOf(M, c) : k > f
        BY <2>1 DEF Covers
      <4>2. QED
        BY <3>2, <4>1, <1>1
    <3>3. QED
      BY <3>1, <3>2
  <2>4. QED
    BY <2>1, <2>2, <2>3, <1>1 DEF Covers
<1>4. QED
  BY <1>2, <1>3 DEF Folds

(* A conversation whose rows are left alone.                               *)
LEMMA FoldsElsewhere ==
  ASSUME NEW M, NEW N, NEW c, RowsOf(N, c) = RowsOf(M, c), \A i \in RowsOf(M, c) : N[i] = M[i],
         NEW t, NEW S, NEW f, Folds(M, t, c, S, f)
  PROVE  Folds(N, t, c, S, f)
<1>1. \A x \in S : \E i \in RowsOf(N, c) : N[i].text = x
  BY DEF Folds
<1>2. KeepRecent > 0 => Covers(N, t, c, S, f)
  BY DEF Folds, Covers
<1>3. QED
  BY <1>1, <1>2 DEF Folds

-----------------------------------------------------------------------------
(* The watermark e of conversation c: every row up to it has its vector.   *)
Embeds(M, V, c, e) ==
  /\ \A i \in RowsOf(M, c) : i <= e => i \in V
  /\ e = 0 \/ \E k \in RowsOf(M, c) : k >= e

(* What an embedding job has read: rows as they are, and all the completed *)
(* ones between the watermark and its last row that have no vector yet.    *)
Reads(M, V, k) ==
  /\ Embeds(M, V, k.conv, k.upto)
  /\ k.last \in RowsOf(M, k.conv)
  /\ \A r \in k.rows : r.id \in RowsOf(M, k.conv) /\ r.text = M[r.id].text
  /\ \A i \in RowsOf(M, k.conv) :
       M[i].status = "ok" /\ i > k.upto /\ i <= k.last => i \in V \/ \E r \in k.rows : r.id = i
  /\ k.pc = "mark" => k.rows = {}

JobRecord == [pc : {"idle", "fold", "put", "mark"}, conv : Nat, rows : SUBSET [id : Nat, text : Nat],
              summary : SUBSET Nat, upto : Nat, last : Nat]

(* New rows are past what was read.                                        *)
LEMMA ReadsGrown ==
  ASSUME NEW M, Table(M), NEW N, NEW n, Grown(M, N, n), NEW V
  PROVE  /\ \A c : \A e \in Nat : Embeds(M, V, c, e) => Embeds(N, V, c, e)
         /\ \A k \in JobRecord : Reads(M, V, k) => Reads(N, V, k)
<1>1. \A c : /\ RowsOf(M, c) \subseteq RowsOf(N, c) /\ RowsOf(N, c) \subseteq RowsOf(M, c) \union {n}
             /\ \A i \in RowsOf(M, c) : N[i] = M[i] /\ i \in Nat /\ i < n
             /\ \A i \in RowsOf(M, c) : i > 0
  BY DEF RowsOf, Grown, Table
<1>2. n \in Nat \ {0}
  BY DEF Grown
<1>3. ASSUME NEW c, NEW e \in Nat, Embeds(M, V, c, e) PROVE Embeds(N, V, c, e)
  <2>1. e < n
    BY <1>1, <1>2, <1>3 DEF Embeds
  <2>2. QED
    BY <2>1, <1>1, <1>2, <1>3 DEF Embeds
<1>4. ASSUME NEW k \in JobRecord, Reads(M, V, k) PROVE Reads(N, V, k)
  <2>1. k.upto \in Nat /\ k.last \in Nat
    BY DEF JobRecord
  <2>2. k.last < n /\ Embeds(N, V, k.conv, k.upto)
    BY <1>1, <1>3, <1>4, <2>1 DEF Reads
  <2>3. \A r \in k.rows : r.id \in RowsOf(N, k.conv) /\ r.text = N[r.id].text
    BY <1>1, <1>4 DEF Reads
  <2>4. \A i \in RowsOf(N, k.conv) :
          N[i].status = "ok" /\ i > k.upto /\ i <= k.last => i \in V \/ \E r \in k.rows : r.id = i
    <3>1. \A i \in RowsOf(N, k.conv) : i <= k.last => i \in RowsOf(M, k.conv) /\ N[i] = M[i]
      BY <1>1, <1>2, <2>1, <2>2
    <3>2. QED
      BY <3>1, <1>4 DEF Reads
  <2>5. QED
    BY <2>2, <2>3, <2>4, <1>1, <1>4 DEF Reads
<1>5. QED
  BY <1>3, <1>4

(* Status alone does not matter to a watermark; to a job that reads it     *)
(* does when a row comes back.                                             *)
LEMMA ReadsRestamped ==
  ASSUME NEW M, NEW N, Restamped(M, N), NEW V
  PROVE  /\ \A c, e : Embeds(M, V, c, e) => Embeds(N, V, c, e)
         /\ \A k : Reads(M, V, k) /\ (\A i \in RowsOf(M, k.conv) : N[i].status = "ok" => M[i].status = "ok")
                  => Reads(N, V, k)
<1>1. \A c : RowsOf(N, c) = RowsOf(M, c) /\ \A i \in RowsOf(M, c) : N[i].text = M[i].text
  BY DEF RowsOf, Restamped
<1>2. QED
  BY <1>1 DEF Embeds, Reads

(* A conversation whose rows are left alone, and its vectors not taken.    *)
LEMMA ReadsElsewhere ==
  ASSUME NEW M, NEW N, NEW c, RowsOf(N, c) = RowsOf(M, c), \A i \in RowsOf(M, c) : N[i] = M[i],
         NEW V, NEW W, \A i \in RowsOf(M, c) : i \in V => i \in W
  PROVE  /\ \A e : Embeds(M, V, c, e) => Embeds(N, W, c, e)
         /\ \A k : k.conv = c /\ Reads(M, V, k) => Reads(N, W, k)
<1>1. \A e : Embeds(M, V, c, e) => Embeds(N, W, c, e)
  BY DEF Embeds
<1>2. QED
  BY <1>1 DEF Reads

(* The new watermark of a job that has embedded what it read.              *)
LEMMA MarkedEmbeds ==
  ASSUME Table(msg), NEW V, NEW k \in JobRecord, Reads(msg, V, k), k.pc = "mark"
  PROVE  /\ MarkUpto(k.conv, k.upto, k.last) \in Nat
         /\ Embeds(msg, V, k.conv, MarkUpto(k.conv, k.upto, k.last))
<1> DEFINE c == k.conv
           R == RowsOf(msg, c)
           hole == FirstIncomplete(c, k.upto, k.last)
           m == MarkUpto(c, k.upto, k.last)
<1>1. k.upto \in Nat /\ k.last \in Nat /\ c \in Nat /\ \A i \in R : i \in Nat
  BY DEF JobRecord, Table, RowsOf
<1>2. hole = {i \in R : msg[i].status # "ok" /\ i > k.upto /\ i <= k.last} /\ hole \in SUBSET Nat
  BY <1>1 DEF FirstIncomplete, Ids, RowsOf, Ok
<1>3. \A i \in R : msg[i].status = "ok" /\ i > k.upto /\ i <= k.last => i \in V
  BY DEF Reads
<1>4. \A i \in R : i <= k.upto => i \in V
  BY DEF Reads, Embeds
<1>5. k.last \in R
  BY DEF Reads
<1>6. CASE hole = {}
  <2>1. m = k.last
    BY <1>6 DEF MarkUpto
  <2>2. \A i \in R : i <= k.last => i \in V
    BY <1>1, <1>2, <1>3, <1>4, <1>6
  <2>3. QED
    BY <2>1, <2>2, <1>1, <1>5 DEF Embeds
<1>7. CASE hole # {}
  <2> DEFINE First(i) == i \in hole /\ \A q \in hole : i <= q
             first == CHOOSE i : First(i)
  <2>1. \E i : First(i)
    <3> HIDE DEF hole
    <3>1. QED
      BY <1>2, <1>7, Least
  <2>2. m = first - 1
    BY <1>7 DEF MarkUpto
  <2>3. First(first)
    <3> HIDE DEF First
    <3>1. QED
      BY <2>1
  <2>4. first \in hole /\ \A q \in hole : first <= q
    BY <2>3
  <2> HIDE DEF first
  <2>5. first \in R /\ first \in Nat /\ first > k.upto /\ first <= k.last
    BY <2>4, <1>1, <1>2
  <2>6. m \in Nat /\ m < first
    BY <2>2, <2>5, <1>1
  <2>7. ASSUME NEW i \in R, i <= m PROVE i \in V
    <3>1. i \in Nat /\ i < first /\ i <= k.last
      BY <2>5, <2>6, <2>7, <1>1
    <3>2. i \notin hole
      BY <3>1, <2>4, <2>5
    <3>3. QED
      BY <3>1, <3>2, <1>1, <1>2, <1>3, <1>4
  <2>8. \E q \in R : q >= m
    BY <2>5, <2>6
  <2>9. QED
    BY <2>6, <2>7, <2>8 DEF Embeds
<1>8. QED
  BY <1>6, <1>7

(* It is a number whatever was read.                                       *)
LEMMA MarkedIsNumber ==
  ASSUME Table(msg), NEW k \in JobRecord
  PROVE  MarkUpto(k.conv, k.upto, k.last) \in Nat
<1> DEFINE hole == FirstIncomplete(k.conv, k.upto, k.last)
           First(i) == i \in hole /\ \A q \in hole : i <= q
           first == CHOOSE i : First(i)
<1>1. hole \in SUBSET (Nat \ {0}) /\ k.last \in Nat
  BY DEF FirstIncomplete, Ids, Table, JobRecord
<1>2. CASE hole = {}
  BY <1>1, <1>2 DEF MarkUpto
<1>3. CASE hole # {}
  <2>1. \E i : First(i)
    <3> HIDE DEF hole
    <3>1. QED
      BY <1>1, <1>3, Least
  <2>2. First(first)
    <3> HIDE DEF First
    <3>1. QED
      BY <2>1
  <2>3. first \in Nat \ {0}
    BY <1>1, <2>2
  <2>4. MarkUpto(k.conv, k.upto, k.last) = first - 1
    BY <1>3 DEF MarkUpto
  <2> HIDE DEF first
  <2>5. QED
    BY <2>3, <2>4
<1>4. QED
  BY <1>2, <1>3

-----------------------------------------------------------------------------
(* The inductive invariant of the messages.                                *)
Vectors == DOMAIN vec
RecallTypeOK ==
  /\ DOMAIN conv \subseteq 1 .. MaxConv
  /\ \A c \in DOMAIN conv : conv[c] \in [summary : SUBSET Nat, folded : Nat, embedded : Nat]
  /\ Table(msg) /\ Bounded(msg) /\ \A i \in DOMAIN msg : msg[i].conv \in DOMAIN conv
  /\ turn \in [1 .. MaxConv -> Nat] /\ job \in [Job -> JobRecord]
  /\ written \in Nat /\ overtaken \in BOOLEAN

(* No text is written twice, and none that was erased is there.            *)
TextsInv ==
  /\ Distinct(msg)
  /\ \A i \in DOMAIN msg : msg[i].text <= written /\ msg[i].turn <= written /\ msg[i].text \notin erased
  /\ \A x \in erased : x \in Nat /\ x <= written
  /\ \A c \in 1 .. MaxConv : turn[c] <= written
TailInv == \A c \in 1 .. MaxConv : Tail(msg, turn[c], c)

(* As long as no job had read what was erased or repaired.                 *)
KnownInv ==
  \A c \in DOMAIN conv : /\ Folds(msg, turn[c], c, conv[c].summary, conv[c].folded)
                         /\ Embeds(msg, Vectors, c, conv[c].embedded)
JobInv(k) ==
  /\ k.pc # "idle" => k.conv \in DOMAIN conv
  /\ k.pc = "fold" => Folds(msg, turn[k.conv], k.conv, k.summary, k.last)
  /\ k.pc \in {"put", "mark"} => Reads(msg, Vectors, k)
JobsInv == \A j \in Job : JobInv(job[j])
VecInv == \A i \in Vectors : i \in DOMAIN msg /\ vec[i] = msg[i].text
Calm == KnownInv /\ JobsInv /\ VecInv

RecallInv == RecallTypeOK /\ TextsInv /\ TailInv /\ (~overtaken => Calm)

(* One empty conversation, no job.                                         *)
LEMMA RecallStart == RecallInit => RecallInv
<1> SUFFICES ASSUME RecallInit PROVE RecallInv
  OBVIOUS
<1>1. /\ DOMAIN msg = {} /\ Vectors = {} /\ DOMAIN conv = {1} /\ conv[1] = NewRow
      /\ \A j \in Job : job[j] = Idle
  BY DEF RecallInit, Vectors
<1>2. Idle \in JobRecord /\ NewRow \in [summary : SUBSET Nat, folded : Nat, embedded : Nat]
  BY DEF Idle, NewRow, JobRecord
<1>3. RecallTypeOK
  <2>1. 1 \in 1 .. MaxConv
    BY RecallAssumption DEF RecallAssumption
  <2>2. Table(msg) /\ Bounded(msg) /\ \A i \in DOMAIN msg : msg[i].conv \in DOMAIN conv
    BY <1>1 DEF Table, Bounded
  <2>3. turn \in [1 .. MaxConv -> Nat] /\ written \in Nat /\ overtaken \in BOOLEAN
    BY DEF RecallInit, NoTurn
  <2>4. job \in [Job -> JobRecord]
    BY <1>2 DEF RecallInit
  <2>5. DOMAIN conv \subseteq 1 .. MaxConv /\ \A c \in DOMAIN conv : conv[c] = NewRow
    BY <1>1, <2>1
  <2>6. QED
    BY <1>2, <2>2, <2>3, <2>4, <2>5 DEF RecallTypeOK
<1>4. TextsInv /\ TailInv /\ VecInv
  BY <1>1 DEF RecallInit, TextsInv, TailInv, Distinct, Tail, RowsOf, VecInv, NoTurn
<1>5. KnownInv
  <2>1. Folds(msg, turn[1], 1, {}, 0)
    BY <1>3, FoldsNothing DEF RecallTypeOK
  <2>2. Embeds(msg, Vectors, 1, 0)
    BY <1>1 DEF Embeds, RowsOf
  <2>3. NewRow.summary = {} /\ NewRow.folded = 0 /\ NewRow.embedded = 0
    BY DEF NewRow
  <2>4. \A c \in DOMAIN conv : c = 1 /\ conv[c] = NewRow
    BY <1>1
  <2>5. QED
    BY <2>1, <2>2, <2>3, <2>4 DEF KnownInv
<1>6. JobsInv
  BY <1>1 DEF JobsInv, JobInv, Idle
<1>7. QED
  BY <1>3, <1>4, <1>5, <1>6 DEF RecallInv, Calm

(* A conversation is opened: it has no rows.                               *)
LEMMA NewConversationStep == RecallInv /\ NewConversation => RecallInv'
<1> SUFFICES ASSUME RecallInv, NewConversation PROVE RecallInv'
  OBVIOUS
<1> DEFINE n == NextId(conv)
<1>1. n \in 1 .. MaxConv
  <2>1. DOMAIN conv \in SUBSET Nat /\ MaxConv \in Nat /\ \A c \in DOMAIN conv : c <= MaxConv
    BY RecallAssumption DEF RecallAssumption, RecallInv, RecallTypeOK
  <2>2. MaxOf(DOMAIN conv) \in Nat
    BY <2>1, Greatest
  <2>3. n = MaxOf(DOMAIN conv) + 1 /\ n <= MaxConv
    BY DEF NextId, NewConversation
  <2>4. QED
    BY <2>1, <2>2, <2>3
<1> HIDE DEF n
<1>2. /\ DOMAIN conv' = DOMAIN conv \union {n} /\ conv'[n] = NewRow
      /\ \A c \in DOMAIN conv : c # n => conv'[c] = conv[c]
  BY DEF NewConversation, With, n
<1>3. UNCHANGED <<msg, vec, turn, job, written, erased, overtaken>>
  BY DEF NewConversation
<1>4. NewRow \in [summary : SUBSET Nat, folded : Nat, embedded : Nat]
      /\ NewRow.summary = {} /\ NewRow.folded = 0 /\ NewRow.embedded = 0
  BY DEF NewRow
<1>5. RecallTypeOK'
  BY <1>1, <1>2, <1>3, <1>4 DEF RecallInv, RecallTypeOK, Table, Bounded
<1>6. TextsInv' /\ TailInv'
  BY <1>3 DEF RecallInv, TextsInv, TailInv, Distinct
<1>7. ASSUME ~overtaken' PROVE Calm'
  <2>1. Calm
    BY <1>3, <1>7 DEF RecallInv
  <2>2. Folds(msg, turn[n], n, {}, 0) /\ Embeds(msg, Vectors, n, 0)
    <3>1. Table(msg)
      BY DEF RecallInv, RecallTypeOK
    <3>2. \A i \in RowsOf(msg, n) : i \in Nat /\ ~(i <= 0)
      BY <3>1 DEF RowsOf, Table
    <3>3. QED
      BY <3>1, <3>2, FoldsNothing DEF Embeds
  <2>3. KnownInv'
    BY <1>2, <1>3, <1>4, <2>1, <2>2 DEF KnownInv, Calm, Vectors
  <2>4. JobsInv' /\ VecInv'
    BY <1>2, <1>3, <2>1 DEF JobsInv, JobInv, VecInv, Calm, Vectors
  <2>5. QED
    BY <2>3, <2>4 DEF Calm
<1>8. QED
  BY <1>5, <1>6, <1>7 DEF RecallInv

(* A row is written: what is known of the older ones still holds.          *)
LEMMA CalmGrown ==
  ASSUME RecallTypeOK, TextsInv, Calm, NEW n, Grown(msg, msg', n),
         msg'[n].status = "ok", msg'[n].text = written + 1, UNCHANGED <<conv, vec, job>>,
         \A c \in 1 .. MaxConv : turn'[c] \in {turn[c], written + 1}
  PROVE  Calm'
<1>1. /\ Table(msg) /\ written \in Nat /\ job \in [Job -> JobRecord]
      /\ \A c \in DOMAIN conv : c \in 1 .. MaxConv /\ conv[c].folded \in Nat /\ conv[c].embedded \in Nat
  BY DEF RecallTypeOK
<1>2. \A i \in DOMAIN msg : msg[i].text <= written /\ msg[i].turn \in Nat /\ msg[i].turn <= written
  BY <1>1 DEF TextsInv, Table, Message
<1>3. ASSUME NEW c \in DOMAIN conv, NEW S, NEW f \in Nat, Folds(msg, turn[c], c, S, f)
      PROVE  Folds(msg', turn'[c], c, S, f)
  <2>1. turn'[c] \in {turn[c], written + 1}
    BY <1>1
  <2>2. \A i \in RowsOf(msg, c) : msg[i].turn = turn'[c] => turn'[c] = turn[c]
    BY <1>1, <1>2, <2>1 DEF RowsOf
  <2>3. QED
    BY <1>1, <1>2, <1>3, <2>2, FoldsGrown
<1>4. /\ \A c : \A e \in Nat : Embeds(msg, Vectors, c, e) => Embeds(msg', Vectors, c, e)
      /\ \A k \in JobRecord : Reads(msg, Vectors, k) => Reads(msg', Vectors, k)
  BY <1>1, ReadsGrown
<1>5. Vectors' = Vectors
  BY DEF Vectors
<1>6. KnownInv'
  BY <1>1, <1>3, <1>4, <1>5 DEF KnownInv, Calm
<1>7. JobsInv'
  <2> SUFFICES ASSUME NEW j \in Job PROVE JobInv(job[j])'
    BY DEF JobsInv
  <2>1. JobInv(job[j]) /\ job[j] \in JobRecord /\ job[j].last \in Nat /\ job'[j] = job[j]
    BY <1>1 DEF Calm, JobsInv, JobRecord
  <2>2. job[j].pc = "fold" => Folds(msg', turn'[job[j].conv], job[j].conv, job[j].summary, job[j].last)
    BY <1>3, <2>1 DEF JobInv
  <2>3. QED
    BY <1>4, <1>5, <2>1, <2>2 DEF JobInv
<1>8. VecInv'
  BY <1>5 DEF Calm, VecInv, Grown
<1>9. QED
  BY <1>6, <1>7, <1>8 DEF Calm

(* add_message by a turn: a question starts one, an answer ends it.        *)
LEMMA WriteStep ==
  ASSUME RecallInv, NEW c \in 1 .. MaxConv, NEW role \in {"user", "assistant"}, NEW t \in Nat,
         Write(c, role, t), UNCHANGED <<conv, vec, job, erased, overtaken>>,
         turn' = [turn EXCEPT ![c] = t],
         \/ role = "user" /\ t = written + 1
         \/ role = "assistant" /\ t = turn[c] /\ t # 0 /\ ~Replied(c)
  PROVE  RecallInv'
<1> DEFINE n == NextId(msg)
           x == [conv |-> c, turn |-> t, role |-> role, status |-> "ok", text |-> written + 1]
<1>1. /\ Table(msg) /\ Bounded(msg) /\ written \in Nat /\ turn \in [1 .. MaxConv -> Nat]
      /\ \A i \in DOMAIN msg : /\ msg[i].text \in Nat /\ msg[i].text <= written
                                /\ msg[i].turn \in Nat /\ msg[i].turn <= written
  BY DEF RecallInv, RecallTypeOK, TextsInv, Table, Message
<1>2. n \in Nat \ {0} /\ \A i \in DOMAIN msg : i < n
  <2>1. PICK b \in Nat : \A i \in DOMAIN msg : i <= b
    BY <1>1 DEF Bounded
  <2>2. DOMAIN msg \in SUBSET Nat
    BY <1>1 DEF Table
  <2>3. MaxOf(DOMAIN msg) \in Nat /\ \A i \in DOMAIN msg : i <= MaxOf(DOMAIN msg)
    BY <2>1, <2>2, Greatest
  <2>4. QED
    BY <2>2, <2>3 DEF NextId
<1> HIDE DEF n
<1>3. /\ DOMAIN msg' = DOMAIN msg \union {n} /\ msg'[n] = x
      /\ \A i \in DOMAIN msg : i # n => msg'[i] = msg[i]
      /\ written' = written + 1 /\ c \in DOMAIN conv
  BY DEF Write, With, n
<1>4. Grown(msg, msg', n)
  BY <1>1, <1>2, <1>3 DEF Grown, Table
<1>5. x \in Message
  BY <1>1 DEF Message
<1>6. RecallTypeOK'
  <2>1. Table(msg')
    BY <1>1, <1>3, <1>4, <1>5 DEF Table, Grown
  <2>2. Bounded(msg')
    <3>1. n \in Nat /\ \A i \in DOMAIN msg' : i <= n
      BY <1>1, <1>2, <1>3 DEF Table
    <3>2. QED
      BY <3>1 DEF Bounded
  <2>3. \A i \in DOMAIN msg' : msg'[i].conv \in DOMAIN conv'
    BY <1>3, <1>4 DEF RecallInv, RecallTypeOK, Grown
  <2>4. turn' \in [1 .. MaxConv -> Nat] /\ written' \in Nat
    BY <1>1, <1>3
  <2>5. QED
    BY <2>1, <2>2, <2>3, <2>4 DEF RecallInv, RecallTypeOK
<1>7. TextsInv'
  <2>1. Distinct(msg')
    <3>1. \A i \in DOMAIN msg : msg[i].text # written + 1
      BY <1>1
    <3>2. \A i \in DOMAIN msg' : i = n \/ (i \in DOMAIN msg /\ msg'[i] = msg[i])
      BY <1>3, <1>4 DEF Grown
    <3>3. Distinct(msg) /\ msg'[n].text = written + 1
      BY <1>3 DEF RecallInv, TextsInv
    <3>4. QED
      BY <3>1, <3>2, <3>3 DEF Distinct
  <2>2. \A y \in erased : y \in Nat /\ y <= written
    BY DEF RecallInv, TextsInv
  <2>3. written + 1 \notin erased /\ \A y \in erased : y <= written + 1
    BY <1>1, <2>2
  <2>4. t <= written + 1 /\ \A d \in 1 .. MaxConv : turn[d] <= written /\ turn'[d] <= written + 1
    BY <1>1 DEF RecallInv, TextsInv
  <2>5. \A i \in DOMAIN msg' : msg'[i].text <= written' /\ msg'[i].turn <= written' /\ msg'[i].text \notin erased
    BY <1>1, <1>3, <1>4, <2>3, <2>4 DEF Grown, RecallInv, TextsInv
  <2>6. QED
    BY <1>3, <2>1, <2>2, <2>3, <2>4, <2>5 DEF TextsInv
<1>8. TailInv'
  <2> SUFFICES ASSUME NEW d \in 1 .. MaxConv, turn'[d] # 0,
                      NEW i \in RowsOf(msg', d), NEW k \in RowsOf(msg', d), msg'[i].turn = turn'[d], k > i
               PROVE  msg'[i].role = "user" /\ msg'[k].role = "assistant" /\ msg'[k].turn = turn'[d]
    BY DEF TailInv, Tail
  <2>1. /\ i \in RowsOf(msg, d) /\ msg'[i] = msg[i]
        /\ (k \in RowsOf(msg, d) /\ msg'[k] = msg[k]) \/ (k = n /\ d = c)
    <3>1. i \in DOMAIN msg' /\ k \in DOMAIN msg' /\ msg'[i].conv = d /\ msg'[k].conv = d
      BY DEF RowsOf
    <3>2. i # n
      BY <1>1, <1>2, <1>3, <3>1 DEF Table
    <3>3. QED
      BY <1>3, <1>4, <3>1, <3>2 DEF RowsOf, Grown
  <2>2. Tail(msg, turn[d], d)
    BY DEF RecallInv, TailInv
  <2>3. CASE role = "user" /\ t = written + 1
    <3>1. msg[i].turn <= written /\ msg[i].turn \in Nat
      BY <1>1, <2>1 DEF RowsOf
    <3>2. d # c
      BY <1>1, <2>1, <2>3, <3>1
    <3>3. QED
      BY <2>1, <2>2, <3>2 DEF Tail
  <2>4. CASE role = "assistant" /\ t = turn[c] /\ t # 0 /\ ~Replied(c)
    <3>1. turn'[d] = turn[d]
      BY <1>1, <2>4
    <3>2. CASE k = n /\ d = c
      <4>1. msg[i].role # "assistant"
        BY <2>1, <2>4, <3>1, <3>2 DEF Replied, Ids, RowsOf
      <4>2. msg[i].role \in {"user", "assistant"}
        BY <1>1, <2>1 DEF RowsOf, Table, Message
      <4>3. QED
        BY <1>3, <2>1, <2>4, <3>1, <3>2, <4>1, <4>2
    <3>3. QED
      BY <2>1, <2>2, <3>1, <3>2 DEF Tail
  <2>5. QED
    BY <2>3, <2>4
<1>9. ASSUME ~overtaken' PROVE Calm'
  <2>1. RecallTypeOK /\ TextsInv /\ Calm
    BY <1>9 DEF RecallInv
  <2>2. \A d \in 1 .. MaxConv : turn'[d] \in {turn[d], written + 1}
    BY <1>1
  <2>3. msg'[n].status = "ok" /\ msg'[n].text = written + 1
    BY <1>3
  <2>4. QED
    BY <1>4, <2>1, <2>2, <2>3, CalmGrown
<1>10. QED
  BY <1>6, <1>7, <1>8, <1>9 DEF RecallInv

(* A question or an answer is a new row past everything that was read.     *)
LEMMA TurnStep ==
  ASSUME RecallInv, NEW c \in 1 .. MaxConv, Ask(c) \/ Reply(c)
  PROVE  RecallInv'
<1>1. turn \in [1 .. MaxConv -> Nat] /\ written \in Nat
  BY DEF RecallInv, RecallTypeOK
<1>2. CASE Ask(c)
  <2>1. /\ Write(c, "user", written + 1) /\ UNCHANGED <<conv, vec, job, erased, overtaken>>
        /\ turn' = [turn EXCEPT ![c] = written + 1] /\ written + 1 \in Nat
    BY <1>1, <1>2 DEF Ask
  <2>2. "user" \in {"user", "assistant"}
    OBVIOUS
  <2>3. QED
    BY <2>1, <2>2, WriteStep
<1>3. CASE Reply(c)
  <2>1. turn' = [turn EXCEPT ![c] = turn[c]]
    BY <1>1, <1>3 DEF Reply
  <2>2. QED
    BY <1>1, <1>3, <2>1, WriteStep DEF Reply, NoTurn
<1>4. QED
  BY <1>2, <1>3

-----------------------------------------------------------------------------
(* Rows get another status: a turn closes, a process boots.                *)

(* What does not look at the status.                                       *)
LEMMA RestampedBase ==
  ASSUME RecallTypeOK, TextsInv, TailInv, Restamped(msg, msg'), UNCHANGED <<conv, written, erased>>,
         turn' \in [1 .. MaxConv -> Nat], \A c \in 1 .. MaxConv : turn'[c] \in {turn[c], 0},
         job' \in [Job -> JobRecord], overtaken' \in BOOLEAN
  PROVE  RecallTypeOK' /\ TextsInv' /\ TailInv'
<1>1. /\ DOMAIN msg' = DOMAIN msg
      /\ \A i \in DOMAIN msg : /\ msg'[i] \in Message /\ msg'[i].conv = msg[i].conv /\ msg'[i].turn = msg[i].turn
                                /\ msg'[i].role = msg[i].role /\ msg'[i].text = msg[i].text
  BY DEF Restamped
<1>2. Table(msg') /\ Bounded(msg')
  BY <1>1 DEF RecallTypeOK, Table, Bounded
<1>3. RecallTypeOK'
  BY <1>1, <1>2 DEF RecallTypeOK
<1>4. TextsInv'
  <2>1. Distinct(msg')
    BY <1>1 DEF TextsInv, Distinct
  <2>2. \A c \in 1 .. MaxConv : turn'[c] <= written
    BY DEF RecallTypeOK, TextsInv
  <2>3. QED
    BY <1>1, <2>1, <2>2 DEF TextsInv
<1>5. TailInv'
  <2>1. \A c : RowsOf(msg', c) = RowsOf(msg, c)
    BY <1>1 DEF RowsOf
  <2>2. \A c \in 1 .. MaxConv : Tail(msg, turn[c], c) => Tail(msg', turn'[c], c)
    BY <1>1, <2>1 DEF Tail, RowsOf
  <2>3. QED
    BY <2>2 DEF TailInv
<1>6. QED
  BY <1>3, <1>4, <1>5

(* A summary survives when only rows of the closing turn are repaired and  *)
(* only the newest of a turn that runs on fail.                            *)
LEMMA CalmRestamped ==
  ASSUME RecallTypeOK, Calm, Restamped(msg, msg'), UNCHANGED <<conv, vec>>,
         \A c \in 1 .. MaxConv : \A i \in RowsOf(msg, c) :
           msg'[i].status = "ok" /\ msg[i].status # "ok" => turn[c] # 0 /\ msg[i].turn = turn[c],
         \A c \in 1 .. MaxConv : \A i \in RowsOf(msg, c) :
           turn'[c] # 0 /\ msg[i].turn = turn'[c] /\ msg'[i].status # "ok" =>
             (turn'[c] = turn[c] /\ msg[i].status # "ok") \/ (\A k \in RowsOf(msg, c) : k <= i)
  PROVE  /\ KnownInv' /\ VecInv'
         /\ \A k \in JobRecord :
              /\ k.pc = "fold" /\ JobInv(k) => Folds(msg', turn'[k.conv], k.conv, k.summary, k.last)
              /\ /\ k.pc \in {"put", "mark"} /\ JobInv(k)
                 /\ \A i \in RowsOf(msg, k.conv) : msg'[i].status = "ok" => msg[i].status = "ok"
                 => Reads(msg', Vectors, k)
<1>1. /\ Table(msg) /\ Vectors' = Vectors
      /\ \A c \in DOMAIN conv : c \in 1 .. MaxConv /\ conv[c].folded \in Nat
  BY DEF RecallTypeOK, Vectors
<1>2. ASSUME NEW c \in DOMAIN conv, NEW S, NEW f \in Nat, Folds(msg, turn[c], c, S, f)
      PROVE  Folds(msg', turn'[c], c, S, f)
  BY <1>1, <1>2, FoldsRestamped
<1>3. /\ \A c, e : Embeds(msg, Vectors, c, e) => Embeds(msg', Vectors, c, e)
      /\ \A k : Reads(msg, Vectors, k) /\ (\A i \in RowsOf(msg, k.conv) : msg'[i].status = "ok" => msg[i].status = "ok")
               => Reads(msg', Vectors, k)
  BY ReadsRestamped
<1>4. KnownInv'
  BY <1>1, <1>2, <1>3 DEF KnownInv, Calm
<1>5. VecInv'
  BY <1>1 DEF Calm, VecInv, Restamped
<1>6. \A k \in JobRecord : k.pc = "fold" /\ JobInv(k) => Folds(msg', turn'[k.conv], k.conv, k.summary, k.last)
  <2>1. \A k \in JobRecord : k.last \in Nat
    BY DEF JobRecord
  <2>2. QED
    BY <1>2, <2>1 DEF JobInv
<1>7. QED
  BY <1>3, <1>4, <1>5, <1>6 DEF JobInv

(* The finally of a turn.                                                  *)
LEMMA CloseStep ==
  ASSUME RecallInv, NEW c \in 1 .. MaxConv, Close(c)
  PROVE  RecallInv'
<1>1. PICK s \in {"ok", "failed"} : msg' = Marked(c, s)
  BY DEF Close
<1>2. /\ Table(msg) /\ turn \in [1 .. MaxConv -> Nat] /\ job \in [Job -> JobRecord] /\ turn[c] # 0
      /\ turn' = [turn EXCEPT ![c] = 0] /\ UNCHANGED <<conv, vec, job, written, erased>>
  BY DEF RecallInv, RecallTypeOK, Close, NoTurn
<1>3. /\ DOMAIN msg' = DOMAIN msg
      /\ \A i \in DOMAIN msg : \/ msg'[i] = msg[i]
                               \/ /\ msg'[i] = [msg[i] EXCEPT !.status = s]
                                  /\ msg[i].conv = c /\ msg[i].turn = turn[c]
  BY <1>1 DEF Marked, Ids
<1>4. Restamped(msg, msg')
  <2>1. \A i \in DOMAIN msg : msg[i] \in Message
    BY <1>2 DEF Table
  <2>2. QED
    BY <1>3, <2>1 DEF Restamped, Message
<1>5. overtaken' \in BOOLEAN
  BY DEF Close, RecallInv, RecallTypeOK
<1>6. RecallTypeOK' /\ TextsInv' /\ TailInv'
  <2>1. turn' \in [1 .. MaxConv -> Nat] /\ \A d \in 1 .. MaxConv : turn'[d] \in {turn[d], 0}
    BY <1>2
  <2>2. QED
    BY <1>2, <1>4, <1>5, <2>1, RestampedBase DEF RecallInv
<1>7. ASSUME ~overtaken' PROVE Calm'
  <2>1. Calm /\ RecallTypeOK /\ ~(Embedding(c) /\ \E i \in DOMAIN msg : ~Ok(i) /\ msg'[i].status = "ok")
    BY <1>7 DEF RecallInv, Close
  <2>2. \A d \in 1 .. MaxConv : \A i \in RowsOf(msg, d) :
          msg'[i].status = "ok" /\ msg[i].status # "ok" => turn[d] # 0 /\ msg[i].turn = turn[d] /\ d = c
    BY <1>2, <1>3 DEF RowsOf
  <2>3. \A d \in 1 .. MaxConv : \A i \in RowsOf(msg, d) :
          turn'[d] # 0 /\ msg[i].turn = turn'[d] /\ msg'[i].status # "ok" => turn'[d] = turn[d] /\ msg[i].status # "ok"
    BY <1>2, <1>3 DEF RowsOf
  <2>4. /\ KnownInv' /\ VecInv'
        /\ \A k \in JobRecord :
             /\ k.pc = "fold" /\ JobInv(k) => Folds(msg', turn'[k.conv], k.conv, k.summary, k.last)
             /\ /\ k.pc \in {"put", "mark"} /\ JobInv(k)
                /\ \A i \in RowsOf(msg, k.conv) : msg'[i].status = "ok" => msg[i].status = "ok"
                => Reads(msg', Vectors, k)
    BY <1>2, <1>4, <2>1, <2>2, <2>3, CalmRestamped
  <2>5. JobsInv'
    <3> SUFFICES ASSUME NEW j \in Job PROVE JobInv(job[j])'
      BY DEF JobsInv
    <3>1. job'[j] = job[j] /\ job[j] \in JobRecord /\ JobInv(job[j])
      BY <1>2, <2>1 DEF Calm, JobsInv
    <3>2. ASSUME job[j].pc \in {"put", "mark"} PROVE Reads(msg', Vectors, job[j])
      <4>1. \A i \in RowsOf(msg, job[j].conv) : msg'[i].status = "ok" => msg[i].status = "ok"
        <5> SUFFICES ASSUME NEW i \in RowsOf(msg, job[j].conv), msg'[i].status = "ok", msg[i].status # "ok"
                     PROVE  FALSE
          OBVIOUS
        <5>1. job[j].conv \in 1 .. MaxConv /\ i \in DOMAIN msg
          BY <2>1, <3>1, <3>2 DEF JobInv, RecallTypeOK, RowsOf
        <5>2. job[j].conv = c
          BY <2>2, <5>1
        <5>3. Embedding(c)
          BY <3>2, <5>2 DEF Embedding
        <5>4. QED
          BY <2>1, <5>1, <5>3 DEF Ok
      <4>2. QED
        BY <2>4, <3>1, <3>2, <4>1
    <3>3. Vectors' = Vectors /\ UNCHANGED conv
      BY <1>2 DEF Vectors
    <3>4. QED
      BY <2>4, <3>1, <3>2, <3>3 DEF JobInv
  <2>6. QED
    BY <2>4, <2>5 DEF Calm
<1>8. QED
  BY <1>6, <1>7 DEF RecallInv

(* A boot fails what no answer has come to: of a running turn that is its  *)
(* question, the newest row there.                                         *)
LEMMA BootStep ==
  ASSUME RecallInv, ForeignBoot \/ Reboot
  PROVE  RecallInv'
<1>1. /\ Table(msg) /\ turn \in [1 .. MaxConv -> Nat] /\ job \in [Job -> JobRecord]
      /\ msg' = Reconciled /\ UNCHANGED <<conv, vec, written, erased, overtaken>>
  BY DEF RecallInv, RecallTypeOK, ForeignBoot, Reboot
<1>2. turn' \in [1 .. MaxConv -> Nat] /\ \A c \in 1 .. MaxConv : turn'[c] \in {turn[c], 0}
  <2>1. CASE ForeignBoot
    BY <1>1, <2>1 DEF ForeignBoot
  <2>2. CASE Reboot
    <3>1. DOMAIN turn = 1 .. MaxConv /\ turn' = [c \in DOMAIN turn |-> 0]
      BY <1>1, <2>2 DEF Reboot, NoTurn
    <3>2. QED
      BY <3>1
  <2>3. QED
    BY <2>1, <2>2
<1>3. Idle \in JobRecord
  BY DEF Idle, JobRecord
<1>4. job' \in [Job -> JobRecord] /\ \A j \in Job : job'[j] = job[j] \/ job'[j] = Idle
  BY <1>1, <1>3 DEF ForeignBoot, Reboot
<1>5. /\ DOMAIN msg' = DOMAIN msg
      /\ \A i \in DOMAIN msg : \/ msg'[i] = msg[i]
                               \/ /\ msg'[i] = [msg[i] EXCEPT !.status = "failed"]
                                  /\ msg[i].status = "ok" /\ Unanswered(i)
  BY <1>1 DEF Reconciled, Ok
<1>6. Restamped(msg, msg') /\ \A i \in DOMAIN msg : msg'[i].status = "ok" => msg[i].status = "ok"
  <2>1. \A i \in DOMAIN msg : msg[i] \in Message
    BY <1>1 DEF Table
  <2>2. QED
    BY <1>5, <2>1 DEF Restamped, Message
<1>7. RecallTypeOK' /\ TextsInv' /\ TailInv'
  <2>1. overtaken' \in BOOLEAN
    BY <1>1 DEF RecallInv, RecallTypeOK
  <2>2. QED
    BY <1>1, <1>2, <1>4, <1>6, <2>1, RestampedBase DEF RecallInv
<1>8. ASSUME ~overtaken' PROVE Calm'
  <2>1. Calm /\ RecallTypeOK /\ TailInv
    BY <1>1, <1>8 DEF RecallInv
  <2>2. \A c \in 1 .. MaxConv : \A i \in RowsOf(msg, c) :
          turn'[c] # 0 /\ msg[i].turn = turn'[c] /\ msg'[i].status # "ok" =>
            (turn'[c] = turn[c] /\ msg[i].status # "ok") \/ (\A k \in RowsOf(msg, c) : k <= i)
    <3> SUFFICES ASSUME NEW c \in 1 .. MaxConv, NEW i \in RowsOf(msg, c), turn'[c] # 0,
                        msg[i].turn = turn'[c], msg'[i].status # "ok", msg[i].status = "ok",
                        NEW k \in RowsOf(msg, c), ~(k <= i)
                 PROVE  FALSE
      BY <1>2
    <3>1. turn'[c] = turn[c] /\ i \in DOMAIN msg /\ k \in DOMAIN msg /\ msg[i].conv = c /\ msg[k].conv = c
      BY <1>2 DEF RowsOf
    <3>2. i \in Nat /\ k \in Nat /\ k > i
      BY <1>1, <3>1 DEF Table
    <3>3. msg[k].role = "assistant" /\ msg[k].turn = msg[i].turn
      BY <2>1, <3>1, <3>2 DEF TailInv, Tail
    <3>4. Unanswered(i)
      BY <1>5, <3>1
    <3>5. QED
      BY <3>1, <3>3, <3>4 DEF Unanswered, Ids
  <2>3. /\ KnownInv' /\ VecInv'
        /\ \A k \in JobRecord :
             /\ k.pc = "fold" /\ JobInv(k) => Folds(msg', turn'[k.conv], k.conv, k.summary, k.last)
             /\ /\ k.pc \in {"put", "mark"} /\ JobInv(k)
                /\ \A i \in RowsOf(msg, k.conv) : msg'[i].status = "ok" => msg[i].status = "ok"
                => Reads(msg', Vectors, k)
    <3>1. \A c \in 1 .. MaxConv : \A i \in RowsOf(msg, c) :
            msg'[i].status = "ok" /\ msg[i].status # "ok" => turn[c] # 0 /\ msg[i].turn = turn[c]
      BY <1>6 DEF RowsOf
    <3>2. QED
      BY <1>1, <1>6, <2>1, <2>2, <3>1, CalmRestamped
  <2>4. JobsInv'
    <3> SUFFICES ASSUME NEW j \in Job PROVE JobInv(job[j])'
      BY DEF JobsInv
    <3>1. job[j] \in JobRecord /\ JobInv(job[j]) /\ Vectors' = Vectors /\ UNCHANGED conv
      BY <1>1, <2>1 DEF Calm, JobsInv, Vectors
    <3>2. \A i \in RowsOf(msg, job[j].conv) : msg'[i].status = "ok" => msg[i].status = "ok"
      BY <1>6 DEF RowsOf
    <3>3. CASE job'[j] = job[j]
      BY <2>3, <3>1, <3>2, <3>3 DEF JobInv
    <3>4. CASE job'[j] = Idle
      BY <3>4 DEF JobInv, Idle
    <3>5. QED
      BY <1>4, <3>3, <3>4
  <2>5. QED
    BY <2>3, <2>4 DEF Calm
<1>9. QED
  BY <1>7, <1>8 DEF RecallInv

-----------------------------------------------------------------------------
(* The background jobs.                                                    *)

(* What they leave alone.                                                  *)
LEMMA JobBase ==
  ASSUME RecallInv, UNCHANGED <<msg, turn, written, erased, overtaken>>, job' \in [Job -> JobRecord],
         DOMAIN conv' = DOMAIN conv,
         \A c \in DOMAIN conv : conv'[c] \in [summary : SUBSET Nat, folded : Nat, embedded : Nat]
  PROVE  /\ RecallTypeOK' /\ TextsInv' /\ TailInv'
         /\ Table(msg) /\ Bounded(msg) /\ Distinct(msg) /\ \A c \in DOMAIN conv : Tail(msg, turn[c], c)
         /\ ~overtaken' => Calm
<1>1. RecallTypeOK'
  BY DEF RecallInv, RecallTypeOK, Table, Bounded
<1>2. TextsInv' /\ TailInv'
  BY DEF RecallInv, TextsInv, TailInv, Distinct
<1>3. QED
  BY <1>1, <1>2 DEF RecallInv, RecallTypeOK, TextsInv, TailInv

(* maybe_summarize reads.                                                  *)
LEMMA SummariseStep ==
  ASSUME RecallInv, NEW j \in Job, NEW c \in 1 .. MaxConv, Summarise(j, c)
  PROVE  RecallInv'
<1> DEFINE D == Due(c)
           F == FoldOf(D)
           S == conv[c].summary \union {msg[i].text : i \in F}
           k == [Idle EXCEPT !.pc = "fold", !.conv = c, !.summary = S, !.last = MaxOf(F)]
<1>1. /\ c \in DOMAIN conv /\ F # {} /\ job' = [job EXCEPT ![j] = k]
      /\ UNCHANGED <<conv, msg, vec, turn, written, erased, overtaken>>
  BY DEF Summarise
<1>2. /\ Table(msg) /\ Bounded(msg) /\ Distinct(msg) /\ Tail(msg, turn[c], c) /\ job \in [Job -> JobRecord]
      /\ conv[c].folded \in Nat /\ conv[c].summary \in SUBSET Nat
  BY <1>1 DEF RecallInv, RecallTypeOK, TextsInv, TailInv
<1>3. D = {i \in RowsOf(msg, c) : msg[i].status = "ok" /\ i > conv[c].folded}
  BY DEF Due, Since, Ids, RowsOf, Ok
<1>4. F \subseteq D /\ D \subseteq DOMAIN msg
  BY <1>3 DEF FoldOf, RowsOf
<1>5. S \in SUBSET Nat
  BY <1>2, <1>4 DEF Table, Message
<1>6. MaxOf(F) \in Nat
  <2>1. PICK b \in Nat : \A i \in DOMAIN msg : i <= b
    BY <1>2 DEF Bounded
  <2>2. F \in SUBSET Nat /\ \A i \in F : i <= b
    BY <1>2, <1>4, <2>1 DEF Table
  <2> HIDE DEF F
  <2>3. QED
    BY <2>1, <2>2, Greatest
<1>7. Calm => Folds(msg, turn[c], c, S, MaxOf(F))
  <2> SUFFICES ASSUME Calm PROVE Folds(msg, turn[c], c, S, MaxOf(F))
    OBVIOUS
  <2>1. Folds(msg, turn[c], c, conv[c].summary, conv[c].folded)
    BY <1>1 DEF Calm, KnownInv
  <2> HIDE DEF D
  <2>2. QED
    BY <1>1, <1>2, <1>3, <2>1, FoldsRead
<1> HIDE DEF S, F
<1>8. /\ k \in JobRecord /\ k.pc = "fold" /\ k.conv = c /\ k.summary = S /\ k.last = MaxOf(F)
  <2>1. Idle \in JobRecord
    BY DEF Idle, JobRecord
  <2>2. S \in SUBSET Nat
    BY <1>5 DEF S, F
  <2>3. MaxOf(F) \in Nat
    BY <1>6 DEF F
  <2>4. c \in Nat
    OBVIOUS
  <2>5. k \in JobRecord
    BY <2>1, <2>2, <2>3, <2>4 DEF JobRecord
  <2>6. k.pc = "fold" /\ k.conv = c /\ k.summary = S /\ k.last = MaxOf(F)
    BY <2>1 DEF JobRecord
  <2>7. QED
    BY <2>5, <2>6
<1> HIDE DEF k
<1>9. job' \in [Job -> JobRecord]
  BY <1>1, <1>2, <1>8
<1>10. \A d \in DOMAIN conv : conv[d] \in [summary : SUBSET Nat, folded : Nat, embedded : Nat]
  BY DEF RecallInv, RecallTypeOK
<1>11. RecallTypeOK' /\ TextsInv' /\ TailInv' /\ (~overtaken' => Calm)
  BY <1>1, <1>9, <1>10, JobBase
<1>12. Calm => Calm'
  <2>1. Calm => KnownInv' /\ VecInv'
    BY <1>1 DEF Calm, KnownInv, VecInv, Vectors
  <2>2. ASSUME Calm, NEW i \in Job PROVE JobInv(job[i])'
    <3>1. CASE i = j
      BY <1>1, <1>2, <1>7, <1>8, <2>2, <3>1 DEF JobInv
    <3>2. CASE i # j
      BY <1>1, <1>2, <2>2, <3>2 DEF Calm, JobsInv, JobInv, Vectors
    <3>3. QED
      BY <3>1, <3>2
  <2>3. QED
    BY <2>1, <2>2 DEF Calm, JobsInv
<1>13. QED
  BY <1>11, <1>12 DEF RecallInv

(* A job is over, whatever it has written to the row of its conversation:  *)
(* the others know what they knew.                                         *)
LEMMA JobOver ==
  ASSUME RecallInv, NEW j \in Job, job' = [job EXCEPT ![j] = Idle],
         UNCHANGED <<msg, vec, turn, written, erased, overtaken>>, DOMAIN conv' = DOMAIN conv,
         \A c \in DOMAIN conv : conv'[c] \in [summary : SUBSET Nat, folded : Nat, embedded : Nat],
         Calm => KnownInv'
  PROVE  RecallInv'
<1>1. job \in [Job -> JobRecord] /\ Idle \in JobRecord /\ Idle.pc = "idle"
  BY DEF RecallInv, RecallTypeOK, Idle, JobRecord
<1>2. job' \in [Job -> JobRecord] /\ \A i \in Job : job'[i] = IF i = j THEN Idle ELSE job[i]
  BY <1>1
<1>3. RecallTypeOK' /\ TextsInv' /\ TailInv' /\ (~overtaken' => Calm)
  BY <1>2, JobBase
<1>4. Calm => VecInv'
  BY DEF Calm, VecInv, Vectors
<1>5. Calm => JobsInv'
  BY <1>1, <1>2 DEF Calm, JobsInv, JobInv, Vectors
<1>6. QED
  BY <1>3, <1>4, <1>5 DEF RecallInv, Calm

(* set_summary, set_message_embedded_upto, or nothing.                     *)
LEMMA JobEndStep ==
  ASSUME RecallInv, NEW j \in Job, SetSummary(j) \/ SetEmbedded(j) \/ JobFails(j)
  PROVE  RecallInv'
<1> DEFINE k == job[j]
           c == k.conv
<1>1. /\ job' = [job EXCEPT ![j] = Idle] /\ UNCHANGED <<msg, vec, turn, written, erased, overtaken>>
      /\ k \in JobRecord /\ Table(msg) /\ (Calm => JobInv(k))
      /\ \A d \in DOMAIN conv : conv[d] \in [summary : SUBSET Nat, folded : Nat, embedded : Nat]
  BY DEF SetSummary, SetEmbedded, JobFails, RecallInv, RecallTypeOK, Calm, JobsInv
<1> HIDE DEF k
<1>2. CASE JobFails(j)
  BY <1>1, <1>2, JobOver DEF JobFails, Calm, KnownInv, Vectors
<1>3. CASE SetSummary(j)
  <2>1. k.pc = "fold" /\ k.summary \in SUBSET Nat /\ k.last \in Nat
    BY <1>1, <1>3 DEF SetSummary, JobRecord, k
  <2>2. /\ DOMAIN conv' = DOMAIN conv
        /\ \A d \in DOMAIN conv : conv'[d] = IF d = c THEN [conv[d] EXCEPT !.summary = k.summary, !.folded = k.last]
                                                       ELSE conv[d]
    BY <1>3 DEF SetSummary, k
  <2>3. \A d \in DOMAIN conv : conv'[d] \in [summary : SUBSET Nat, folded : Nat, embedded : Nat]
    BY <1>1, <2>1, <2>2
  <2>4. Calm => KnownInv'
    <3>1. Calm => Folds(msg, turn[c], c, k.summary, k.last)
      BY <1>1, <2>1 DEF JobInv
    <3>2. \A d \in DOMAIN conv : /\ conv'[d].embedded = conv[d].embedded
                                 /\ d # c => conv'[d] = conv[d]
                                 /\ d = c => conv'[d].summary = k.summary /\ conv'[d].folded = k.last
      BY <1>1, <2>2
    <3>3. QED
      BY <1>1, <2>2, <3>1, <3>2 DEF Calm, KnownInv, Vectors
  <2>5. QED
    BY <1>1, <2>2, <2>3, <2>4, JobOver
<1>4. CASE SetEmbedded(j)
  <2> DEFINE m == MarkUpto(c, k.upto, k.last)
  <2>1. k.pc = "mark"
    BY <1>4 DEF SetEmbedded, k
  <2>2. /\ DOMAIN conv' = DOMAIN conv
        /\ \A d \in DOMAIN conv : conv'[d] = IF d = c THEN [conv[d] EXCEPT !.embedded = m] ELSE conv[d]
    BY <1>4 DEF SetEmbedded, k
  <2>3. m \in Nat
    BY <1>1, MarkedIsNumber
  <2>4. Calm => Embeds(msg, Vectors, c, m)
    BY <1>1, <2>1, MarkedEmbeds DEF JobInv
  <2> HIDE DEF m
  <2>5. \A d \in DOMAIN conv : conv'[d] \in [summary : SUBSET Nat, folded : Nat, embedded : Nat]
    BY <1>1, <2>2, <2>3
  <2>6. Calm => KnownInv'
    <3>1. \A d \in DOMAIN conv : /\ conv'[d].summary = conv[d].summary /\ conv'[d].folded = conv[d].folded
                                 /\ d # c => conv'[d] = conv[d]
                                 /\ d = c => conv'[d].embedded = m
      BY <1>1, <2>2
    <3>2. QED
      BY <1>1, <2>2, <2>4, <3>1 DEF Calm, KnownInv, Vectors
  <2>7. QED
    BY <1>1, <2>2, <2>5, <2>6, JobOver
<1>5. QED
  BY <1>2, <1>3, <1>4

(* embed_new_messages reads.                                               *)
LEMMA EmbedStep ==
  ASSUME RecallInv, NEW j \in Job, NEW c \in 1 .. MaxConv, Embed(j, c)
  PROVE  RecallInv'
<1> DEFINE ids == Since(c, conv[c].embedded)
           R == {[id |-> i, text |-> msg[i].text] : i \in ids}
           k == [Idle EXCEPT !.pc = "put", !.conv = c, !.rows = R, !.upto = conv[c].embedded, !.last = MaxOf(ids)]
<1>1. /\ c \in DOMAIN conv /\ ids # {} /\ job' = [job EXCEPT ![j] = k]
      /\ UNCHANGED <<conv, msg, vec, turn, written, erased, overtaken>>
  BY DEF Embed
<1>2. /\ Table(msg) /\ Bounded(msg) /\ job \in [Job -> JobRecord] /\ conv[c].embedded \in Nat
      /\ \A i \in DOMAIN msg : i \in Nat \ {0} /\ msg[i].text \in Nat
  BY <1>1 DEF RecallInv, RecallTypeOK, Table, Message
<1>3. ids = {i \in RowsOf(msg, c) : msg[i].status = "ok" /\ i > conv[c].embedded} /\ ids \subseteq DOMAIN msg
  BY DEF Since, Ids, RowsOf, Ok
<1> HIDE DEF ids
<1>4. MaxOf(ids) \in ids /\ MaxOf(ids) \in Nat /\ \A i \in ids : i <= MaxOf(ids)
  <2>1. PICK b \in Nat : \A i \in DOMAIN msg : i <= b
    BY <1>2 DEF Bounded
  <2>2. ids \in SUBSET Nat /\ \A i \in ids : i <= b
    BY <1>2, <1>3, <2>1
  <2>3. MaxOf(ids) \in Nat /\ MaxOf(ids) \in ids \union {0} /\ \A i \in ids : i <= MaxOf(ids)
    BY <2>1, <2>2, Greatest
  <2>4. \A i \in ids : i \in Nat /\ i > 0
    BY <1>2, <1>3
  <2>5. MaxOf(ids) # 0
    BY <1>1, <2>3, <2>4
  <2>6. QED
    BY <2>3, <2>5
<1>5. R \in SUBSET [id : Nat, text : Nat] /\ \A r \in R : r.id \in ids /\ r.text = msg[r.id].text
  BY <1>2, <1>3
<1>6. ASSUME NEW i \in ids PROVE \E r \in R : r.id = i
  <2> DEFINE r == [id |-> i, text |-> msg[i].text]
  <2>1. r \in R /\ r.id = i
    OBVIOUS
  <2>2. QED
    BY <2>1
<1> HIDE DEF R
<1>7. /\ k \in JobRecord /\ k.pc = "put" /\ k.conv = c /\ k.rows = R
      /\ k.upto = conv[c].embedded /\ k.last = MaxOf(ids)
  <2>1. Idle \in JobRecord
    BY DEF Idle, JobRecord
  <2>2. c \in Nat /\ R \in SUBSET [id : Nat, text : Nat]
    BY <1>5
  <2>3. k \in JobRecord
    BY <1>2, <1>4, <2>1, <2>2 DEF JobRecord
  <2>4. /\ k.pc = "put" /\ k.conv = c /\ k.rows = R
        /\ k.upto = conv[c].embedded /\ k.last = MaxOf(ids)
    BY <2>1 DEF JobRecord
  <2>5. QED
    BY <2>3, <2>4
<1> HIDE DEF k
<1>8. job' \in [Job -> JobRecord]
  BY <1>1, <1>2, <1>7
<1>9. \A d \in DOMAIN conv : conv[d] \in [summary : SUBSET Nat, folded : Nat, embedded : Nat]
  BY DEF RecallInv, RecallTypeOK
<1>10. RecallTypeOK' /\ TextsInv' /\ TailInv' /\ (~overtaken' => Calm)
  BY <1>1, <1>8, <1>9, JobBase
<1>11. Calm => Calm'
  <2>1. Calm => KnownInv' /\ VecInv'
    BY <1>1 DEF Calm, KnownInv, VecInv, Vectors
  <2>2. ASSUME Calm PROVE Reads(msg, Vectors, k)
    <3>1. Embeds(msg, Vectors, c, conv[c].embedded)
      BY <1>1, <2>2 DEF Calm, KnownInv
    <3>2. \A i \in RowsOf(msg, c) : msg[i].status = "ok" /\ i > k.upto /\ i <= k.last => \E r \in k.rows : r.id = i
      BY <1>3, <1>6, <1>7
    <3>3. \A r \in k.rows : r.id \in RowsOf(msg, c) /\ r.text = msg[r.id].text
      BY <1>3, <1>5, <1>7
    <3>4. QED
      BY <1>3, <1>4, <1>7, <3>1, <3>2, <3>3 DEF Reads
  <2>3. ASSUME Calm, NEW i \in Job PROVE JobInv(job[i])'
    <3>1. CASE i = j
      BY <1>1, <1>2, <1>7, <2>2, <2>3, <3>1 DEF JobInv, Vectors
    <3>2. CASE i # j
      BY <1>1, <1>2, <2>3, <3>2 DEF Calm, JobsInv, JobInv, Vectors
    <3>3. QED
      BY <3>1, <3>2
  <2>4. QED
    BY <2>1, <2>3 DEF Calm, JobsInv
<1>12. QED
  BY <1>10, <1>11 DEF RecallInv

(* A vector more: nothing that is known needs one less.                    *)
LEMMA PutStep ==
  ASSUME RecallInv, NEW j \in Job, PutVector(j)
  PROVE  RecallInv'
<1> DEFINE k == job[j]
<1>1. PICK r \in k.rows :
        /\ vec' = IF r.id \in DOMAIN vec THEN vec ELSE With(vec, r.id, r.text)
        /\ job' = [job EXCEPT ![j].rows = @ \ {r}, ![j].pc = IF k.rows = {r} THEN "mark" ELSE "put"]
  BY DEF PutVector
<1> DEFINE l == [k EXCEPT !.rows = k.rows \ {r}, !.pc = IF k.rows = {r} THEN "mark" ELSE "put"]
<1>2. /\ UNCHANGED <<conv, msg, turn, written, erased, overtaken>> /\ k.pc = "put" /\ k \in JobRecord
      /\ job \in [Job -> JobRecord] /\ job' = [job EXCEPT ![j] = l]
  <2>1. UNCHANGED <<conv, msg, turn, written, erased, overtaken>> /\ k.pc = "put"
    BY DEF PutVector
  <2>2. job \in [Job -> JobRecord]
    BY DEF RecallInv, RecallTypeOK
  <2>3. job' = [job EXCEPT ![j] = l]
    BY <1>1, <2>2
  <2>4. QED
    BY <2>1, <2>2, <2>3
<1> HIDE DEF k
<1>3. /\ l \in JobRecord /\ l.conv = k.conv /\ l.upto = k.upto /\ l.last = k.last
      /\ l.rows = k.rows \ {r} /\ l.pc = IF k.rows = {r} THEN "mark" ELSE "put"
  BY <1>1, <1>2 DEF JobRecord
<1> HIDE DEF l
<1>4. job' \in [Job -> JobRecord]
  BY <1>2, <1>3
<1>5. \A d \in DOMAIN conv : conv[d] \in [summary : SUBSET Nat, folded : Nat, embedded : Nat]
  BY DEF RecallInv, RecallTypeOK
<1>6. RecallTypeOK' /\ TextsInv' /\ TailInv' /\ (~overtaken' => Calm)
  BY <1>2, <1>4, <1>5, JobBase
<1>7. /\ Vectors' = Vectors \union {r.id}
      /\ \A i \in Vectors : vec'[i] = vec[i]
      /\ r.id \notin Vectors => vec'[r.id] = r.text
  BY <1>1 DEF Vectors, With
<1>8. ASSUME Calm PROVE Calm'
  <2>1. JobInv(k) /\ Reads(msg, Vectors, k) /\ k.conv \in DOMAIN conv
    BY <1>2, <1>8 DEF Calm, JobsInv, JobInv, k
  <2>2. r.id \in DOMAIN msg /\ r.text = msg[r.id].text
    BY <1>1, <2>1 DEF Reads, RowsOf
  <2>3. VecInv'
    BY <1>2, <1>7, <1>8, <2>2 DEF Calm, VecInv
  <2>4. \A c, e : Embeds(msg, Vectors, c, e) => Embeds(msg, Vectors', c, e)
    BY <1>7 DEF Embeds
  <2>5. KnownInv'
    BY <1>2, <1>8, <2>4 DEF Calm, KnownInv
  <2>6. \A q : Reads(msg, Vectors, q) => Reads(msg, Vectors', q)
    BY <1>7, <2>4 DEF Reads
  <2>7. Reads(msg, Vectors', l)
    <3>1. \A i \in RowsOf(msg, k.conv) :
            msg[i].status = "ok" /\ i > k.upto /\ i <= k.last => i \in Vectors' \/ \E q \in l.rows : q.id = i
      BY <1>3, <1>7, <2>1 DEF Reads
    <3>2. l.pc = "mark" => l.rows = {}
      BY <1>3
    <3>3. QED
      BY <1>3, <2>1, <2>4, <3>1, <3>2 DEF Reads
  <2>8. ASSUME NEW i \in Job PROVE JobInv(job[i])'
    <3>1. CASE i = j
      <4>1. job'[i] = l /\ l.pc # "fold" /\ l.conv \in DOMAIN conv'
        BY <1>2, <1>3, <2>1, <3>1
      <4>2. QED
        BY <1>2, <2>7, <4>1 DEF JobInv
    <3>2. CASE i # j
      <4>1. job'[i] = job[i] /\ JobInv(job[i])
        BY <1>2, <1>8, <3>2 DEF Calm, JobsInv
      <4>2. QED
        BY <1>2, <2>6, <4>1 DEF JobInv
    <3>3. QED
      BY <3>1, <3>2
  <2>9. QED
    BY <2>3, <2>5, <2>8 DEF Calm, JobsInv
<1>9. QED
  BY <1>6, <1>8 DEF RecallInv

-----------------------------------------------------------------------------
(* Erasures.                                                               *)

(* wipe_all: when no job had read, nothing is left.                        *)
LEMMA WipeStep == RecallInv /\ Wipe => RecallInv'
<1> SUFFICES ASSUME RecallInv, Wipe PROVE RecallInv'
  OBVIOUS
<1>1. /\ DOMAIN msg' = {} /\ DOMAIN vec' = {} /\ UNCHANGED <<turn, job, written>>
      /\ erased' = erased \union {msg[i].text : i \in DOMAIN msg}
      /\ overtaken' = (overtaken \/ \E j \in Job : Busy(j))
      /\ DOMAIN conv' = DOMAIN conv /\ \A c \in DOMAIN conv : conv'[c] = NewRow
  BY DEF Wipe, Erasing, Only, VectorsWithout, WatermarksReset
<1>2. NewRow \in [summary : SUBSET Nat, folded : Nat, embedded : Nat]
      /\ NewRow.summary = {} /\ NewRow.folded = 0 /\ NewRow.embedded = 0
  BY DEF NewRow
<1>3. Table(msg') /\ Bounded(msg') /\ \A c : RowsOf(msg', c) = {}
  BY <1>1 DEF Table, Bounded, RowsOf
<1>4. RecallTypeOK'
  <2>1. overtaken' \in BOOLEAN
    BY <1>1 DEF RecallInv, RecallTypeOK
  <2>2. QED
    BY <1>1, <1>2, <1>3, <2>1 DEF RecallInv, RecallTypeOK
<1>5. TextsInv'
  <2>1. \A i \in DOMAIN msg : msg[i].text \in Nat /\ msg[i].text <= written
    BY DEF RecallInv, RecallTypeOK, TextsInv, Table, Message
  <2>2. QED
    BY <1>1, <2>1 DEF RecallInv, TextsInv, Distinct
<1>6. TailInv'
  BY <1>3 DEF TailInv, Tail
<1>7. ASSUME ~overtaken' PROVE Calm'
  <2>1. \A j \in Job : job'[j].pc = "idle"
    BY <1>1, <1>7 DEF Busy
  <2>2. JobsInv'
    BY <2>1 DEF JobsInv, JobInv
  <2>3. VecInv'
    BY <1>1 DEF VecInv, Vectors
  <2>4. \A c : Folds(msg', turn'[c], c, {}, 0) /\ Embeds(msg', Vectors', c, 0)
    BY <1>3, FoldsNothing DEF Embeds
  <2>5. KnownInv'
    BY <1>1, <1>2, <2>4 DEF KnownInv
  <2>6. QED
    BY <2>2, <2>3, <2>5 DEF Calm
<1>8. QED
  BY <1>4, <1>5, <1>6, <1>7 DEF RecallInv

(* delete_conversation: the other conversations keep what they have.       *)
LEMMA DeleteStep ==
  ASSUME RecallInv, NEW c \in 1 .. MaxConv, Delete(c)
  PROVE  RecallInv'
<1>1. /\ DOMAIN msg' = DOMAIN msg \ Ids(c) /\ \A i \in DOMAIN msg' : msg'[i] = msg[i]
      /\ Vectors' = Vectors \ Ids(c) /\ \A i \in Vectors' : vec'[i] = vec[i]
      /\ DOMAIN conv' = DOMAIN conv \ {c} /\ \A d \in DOMAIN conv' : conv'[d] = conv[d]
      /\ UNCHANGED <<turn, job, written>>
      /\ erased' = erased \union {msg[i].text : i \in Ids(c)}
      /\ overtaken' = (overtaken \/ \E j \in Job : job[j].conv = c /\ Busy(j))
  BY DEF Delete, Erasing, Only, VectorsWithout, Vectors, Ids
<1>2. Ids(c) = RowsOf(msg, c)
  BY DEF Ids, RowsOf
<1>3. \A d : d # c => RowsOf(msg', d) = RowsOf(msg, d) /\ \A i \in RowsOf(msg, d) : msg'[i] = msg[i] /\ i \notin Ids(c)
  BY <1>1, <1>2 DEF RowsOf
<1>4. RowsOf(msg', c) = {}
  BY <1>1, <1>2 DEF RowsOf
<1>5. RecallTypeOK'
  <2>1. Table(msg') /\ Bounded(msg')
    BY <1>1 DEF RecallInv, RecallTypeOK, Table, Bounded
  <2>2. \A i \in DOMAIN msg' : msg'[i].conv \in DOMAIN conv'
    BY <1>1, <1>2 DEF RecallInv, RecallTypeOK, RowsOf
  <2>3. overtaken' \in BOOLEAN
    BY <1>1 DEF RecallInv, RecallTypeOK
  <2>4. QED
    BY <1>1, <2>1, <2>2, <2>3 DEF RecallInv, RecallTypeOK
<1>6. TextsInv'
  <2>1. \A i \in DOMAIN msg : msg[i].text \in Nat /\ msg[i].text <= written /\ msg[i].text \notin erased
    BY DEF RecallInv, RecallTypeOK, TextsInv, Table, Message
  <2>2. \A i \in DOMAIN msg', q \in Ids(c) : msg[i].text # msg[q].text
    BY <1>1 DEF RecallInv, TextsInv, Distinct, Ids
  <2>3. \A i \in DOMAIN msg' : msg'[i].text \notin erased'
    BY <1>1, <2>1, <2>2
  <2>4. Distinct(msg')
    BY <1>1 DEF RecallInv, TextsInv, Distinct
  <2>5. \A x \in erased' : x \in Nat /\ x <= written
    BY <1>1, <2>1 DEF RecallInv, TextsInv, Ids
  <2>6. QED
    BY <1>1, <2>3, <2>4, <2>5 DEF RecallInv, TextsInv
<1>7. TailInv'
  <2>1. \A d \in 1 .. MaxConv : Tail(msg, turn[d], d)
    BY DEF RecallInv, TailInv
  <2>2. ASSUME NEW d \in 1 .. MaxConv PROVE Tail(msg', turn[d], d)
    BY <1>3, <1>4, <2>1 DEF Tail
  <2>3. QED
    BY <1>1, <2>2 DEF TailInv
<1>8. ASSUME ~overtaken' PROVE Calm'
  <2>1. Calm /\ \A j \in Job : job[j].conv = c => job[j].pc = "idle"
    BY <1>1, <1>8 DEF RecallInv, Busy
  <2>2. \A d : d # c => \A t, S, f : Folds(msg, t, d, S, f) => Folds(msg', t, d, S, f)
    BY <1>3, FoldsElsewhere
  <2>3. \A d : d # c => /\ \A e : Embeds(msg, Vectors, d, e) => Embeds(msg', Vectors', d, e)
                       /\ \A k : k.conv = d /\ Reads(msg, Vectors, k) => Reads(msg', Vectors', k)
    BY <1>1, <1>3, ReadsElsewhere
  <2>4. KnownInv'
    BY <1>1, <2>1, <2>2, <2>3 DEF Calm, KnownInv
  <2>5. VecInv'
    BY <1>1, <2>1 DEF Calm, VecInv
  <2>6. ASSUME NEW j \in Job PROVE JobInv(job[j])'
    <3>1. JobInv(job[j]) /\ job'[j] = job[j]
      BY <1>1, <2>1 DEF Calm, JobsInv
    <3>2. CASE job[j].pc = "idle"
      BY <3>1, <3>2 DEF JobInv
    <3>3. CASE job[j].pc # "idle"
      <4>1. job[j].conv # c /\ job[j].conv \in DOMAIN conv'
        BY <1>1, <2>1, <3>1, <3>3 DEF JobInv
      <4>2. QED
        BY <1>1, <2>2, <2>3, <3>1, <4>1 DEF JobInv
    <3>4. QED
      BY <3>2, <3>3
  <2>7. QED
    BY <2>4, <2>5, <2>6 DEF Calm, JobsInv
<1>9. QED
  BY <1>5, <1>6, <1>7, <1>8 DEF RecallInv

-----------------------------------------------------------------------------
(* The invariant is inductive ...                                          *)
LEMMA RecallStep == RecallInv /\ [RecallNext]_vars => RecallInv'
<1> SUFFICES ASSUME RecallInv, [RecallNext]_vars PROVE RecallInv'
  OBVIOUS
<1>1. CASE NewConversation
  BY <1>1, NewConversationStep
<1>2. CASE ForeignBoot \/ Reboot
  BY <1>2, BootStep
<1>3. CASE Wipe
  BY <1>3, WipeStep
<1>4. ASSUME NEW c \in 1 .. MaxConv, Ask(c) \/ Reply(c) \/ Close(c) \/ Delete(c)
      PROVE  RecallInv'
  BY <1>4, TurnStep, CloseStep, DeleteStep
<1>5. ASSUME NEW j \in Job, SetSummary(j) \/ PutVector(j) \/ SetEmbedded(j) \/ JobFails(j)
      PROVE  RecallInv'
  BY <1>5, JobEndStep, PutStep
<1>6. ASSUME NEW j \in Job, NEW c \in 1 .. MaxConv, Summarise(j, c) \/ Embed(j, c)
      PROVE  RecallInv'
  BY <1>6, SummariseStep, EmbedStep
<1>7. CASE UNCHANGED vars
  <2>1. UNCHANGED <<conv, msg, vec, turn, job, written, erased, overtaken>>
    BY <1>7 DEF vars
  <2>2. RecallTypeOK' /\ TextsInv' /\ TailInv'
    BY <2>1 DEF RecallInv, RecallTypeOK, TextsInv, TailInv
  <2>3. KnownInv' = KnownInv /\ VecInv' = VecInv /\ JobsInv' = JobsInv
    BY <2>1 DEF KnownInv, VecInv, JobsInv, JobInv, Vectors
  <2>4. QED
    BY <2>1, <2>2, <2>3 DEF RecallInv, Calm
<1>8. QED
  BY <1>1, <1>2, <1>3, <1>4, <1>5, <1>6, <1>7 DEF RecallNext

(* ... and holds what the runs check.                                      *)
LEMMA RecallHolds == RecallInv => RecallIsHonest /\ (KeepRecent > 0 => NothingLost)
<1> SUFFICES ASSUME RecallInv, ~overtaken
             PROVE  RecallIsHonest /\ (KeepRecent > 0 => NothingLost)
  BY DEF RecallIsHonest, NothingLost
<1>1. KnownInv /\ VecInv /\ TextsInv /\ RecallTypeOK
  BY DEF RecallInv, Calm
<1>2. RecallIsHonest
  <2>1. \A i \in DOMAIN vec : i \in DOMAIN msg /\ vec[i] = msg[i].text /\ vec[i] \notin erased
    BY <1>1 DEF VecInv, Vectors, TextsInv
  <2>2. ASSUME NEW c \in DOMAIN conv PROVE conv[c].summary \intersect erased = {}
    <3>1. \A x \in conv[c].summary : \E i \in DOMAIN msg : msg[i].text = x
      BY <1>1 DEF KnownInv, Folds, RowsOf
    <3>2. QED
      BY <1>1, <3>1 DEF TextsInv
  <2>3. QED
    BY <2>1, <2>2 DEF RecallIsHonest, Recallable
<1>3. ASSUME KeepRecent > 0, NEW c \in DOMAIN conv, NEW i \in DOMAIN msg, msg[i].conv = c, Ok(i)
      PROVE  /\ msg[i].text \in Context(c)
             /\ msg[i].text \in conv[c].summary => i <= conv[c].folded
             /\ i <= conv[c].embedded => i \in DOMAIN vec
  <2>1. /\ Covers(msg, turn[c], c, conv[c].summary, conv[c].folded)
        /\ Embeds(msg, DOMAIN vec, c, conv[c].embedded)
    BY <1>1, <1>3 DEF KnownInv, Folds, Vectors
  <2>2. i \in RowsOf(msg, c) /\ i \in Nat /\ i > 0 /\ conv[c].folded \in Nat /\ msg[i].status = "ok"
    BY <1>1, <1>3 DEF RowsOf, RecallTypeOK, Table, Ok
  <2>3. msg[i].text \in Context(c)
    <3>1. CASE i \in Since(c, IF conv[c].summary = {} THEN 0 ELSE conv[c].folded)
      BY <3>1 DEF Context
    <3>2. CASE i \notin Since(c, IF conv[c].summary = {} THEN 0 ELSE conv[c].folded)
      <4>1. i <= conv[c].folded
        BY <1>3, <2>2, <3>2 DEF Since, Ids
      <4>2. QED
        BY <2>1, <2>2, <4>1 DEF Covers, Context
    <3>3. QED
      BY <3>1, <3>2
  <2>4. QED
    BY <2>1, <2>2, <2>3 DEF Covers, Embeds
<1>4. QED
  BY <1>2, <1>3 DEF NothingLost

(* What is recalled is what was said, and nothing that was erased is left  *)
(* in a vector or a summary, unless a job had read it before               *)
(* (memory/store.py:265-309, memory/summarizer.py:34-65).                  *)
THEOREM HonestRecall == RecallSpec => []RecallIsHonest
<1>1. RecallSpec => []RecallInv
  BY RecallStart, RecallStep, PTL DEF RecallSpec
<1>2. QED
  BY <1>1, RecallHolds, PTL

(* Every completed message stays in reach of its conversation's prompt, by *)
(* the summary or verbatim, and of the others' by its vector once the      *)
(* watermark has passed it (memory/summarizer.py:48, store.py:300-307).    *)
(* With KeepRecent = 0 a fold could pass the row of a running turn that a  *)
(* second boot had failed, and its repair would come too late.             *)
THEOREM NothingIsLost == KeepRecent > 0 => (RecallSpec => []NothingLost)
<1> SUFFICES ASSUME KeepRecent > 0 PROVE RecallSpec => []NothingLost
  OBVIOUS
<1>1. RecallSpec => []RecallInv
  BY RecallStart, RecallStep, PTL DEF RecallSpec
<1>2. RecallInv => NothingLost
  BY RecallHolds
<1>3. QED
  BY <1>1, <1>2, PTL
-----------------------------------------------------------------------------
(* The facts: any texts, any similarity, any number of callers.            *)

(* The three grades, from either side.                                     *)
LEMMA GradeRange ==
  \A p, q : Grade(p, q) \in 0 .. 2 /\ Grade(p, q) = Grade(q, p)
BY DEF Grade

(* What the nearest n of a set leave out, they have more than n rivals of. *)
LEMMA Nearest ==
  ASSUME NEW S, IsFiniteSet(S), NEW n \in Nat \ {0}, NEW g, \A i \in S : g[i] \in 0 .. 2,
         NEW T \in Best(S, n, g)
  PROVE  /\ T \subseteq S /\ (S # {} => T # {})
         /\ \A f \in S : \E k \in T : g[k] >= g[f]
         /\ \A f \in S \ T : Cardinality({k \in S : g[k] >= g[f]}) > n
<1>1. /\ T \in SUBSET S /\ \A i \in T, k \in S \ T : g[k] <= g[i]
      /\ Cardinality(T) = IF Cardinality(S) <= n THEN Cardinality(S) ELSE n
  BY DEF Best
<1>2. IsFiniteSet(T) /\ (Cardinality(S) = Cardinality(T) => S = T)
  BY <1>1, FS_Subset
<1>3. Cardinality(S) \in Nat /\ Cardinality(T) \in Nat
  BY <1>2, FS_CardinalityType
<1>4. S # {} => T # {}
  BY <1>1, <1>2, <1>3, FS_EmptySet
<1>5. \A f \in S : \E k \in T : g[k] >= g[f]
  <2>1. TAKE f \in S
  <2>2. CASE f \in T
    BY <2>2
  <2>3. CASE f \notin T
    BY <1>1, <1>4, <2>3
  <2>4. QED
    BY <2>2, <2>3
<1>6. ASSUME NEW f \in S \ T
      PROVE  Cardinality({k \in S : g[k] >= g[f]}) > n
  <2> DEFINE R == {k \in S : g[k] >= g[f]}
  <2>1. Cardinality(T) = n
    BY <1>1, <1>2, <1>3
  <2>2. Cardinality(T \union {f}) = n + 1
    BY <1>2, <2>1, FS_AddElement
  <2>3. T \union {f} \in SUBSET R
    BY <1>1
  <2>4. R \in SUBSET S
    OBVIOUS
  <2> HIDE DEF R
  <2>5. IsFiniteSet(R) /\ Cardinality(R) \in Nat
    BY <2>4, FS_Subset, FS_CardinalityType
  <2>6. Cardinality(T \union {f}) <= Cardinality(R)
    BY <2>3, <2>5, FS_Subset
  <2>7. Cardinality(R) > n
    BY <2>2, <2>5, <2>6
  <2>8. QED
    BY <2>7 DEF R
<1>7. QED
  BY <1>1, <1>4, <1>5, <1>6

(* More rivals among more facts.                                           *)
LEMMA MoreOf ==
  ASSUME NEW S, IsFiniteSet(S), NEW T \in SUBSET S, NEW n \in Nat, Cardinality(T) > n
  PROVE  Cardinality(S) > n
<1>1. IsFiniteSet(T) /\ Cardinality(T) <= Cardinality(S)
  BY FS_Subset
<1>2. Cardinality(S) \in Nat /\ Cardinality(T) \in Nat
  BY <1>1, FS_CardinalityType
<1>3. QED
  BY <1>1, <1>2

FactRow == [text : Phrase, active : BOOLEAN, source : Sources]
CallRow == [kind : Sources \union {"forget", "none"},
            pc : {"idle", "knn", "rows", "insert", "activate", "deactivate"},
            text : Phrase \union {0}, sim : UNION {[S -> 0 .. 2] : S \in SUBSET (1 .. MaxFacts)},
            ids : SUBSET (1 .. MaxFacts), stale : BOOLEAN]
Ready(o) ==
  /\ o.pc # "idle" => o.text \in Phrase /\ o.kind # "none"
  /\ o.pc = "insert" => o.kind \in Sources
FactsTypeOK ==
  /\ fact \in UNION {[S -> FactRow] : S \in SUBSET (1 .. MaxFacts)}
  /\ DOMAIN fvec = DOMAIN fact /\ \A i \in DOMAIN fact : fvec[i] = fact[i].text
  /\ op \in [Caller -> CallRow] /\ \A a \in Caller : Ready(op[a])
  /\ raced \in BOOLEAN

(* No two rows say the same, forgotten ones included: this is what keeps a *)
(* fact that is said again, and so active again, alone.                    *)
Apart == \A i, k \in DOMAIN fact : i # k => Grade(fact[i].text, fact[k].text) < 2

(* What a call knows of the table as long as nobody has written since it   *)
(* read: between its vector search and its rows ...                        *)
KnowsVectors(o) ==
  /\ DOMAIN o.sim \subseteq DOMAIN fvec /\ \A i \in DOMAIN o.sim : o.sim[i] = Grade(fvec[i], o.text)
  /\ o.kind \in Sources => /\ \A f \in DOMAIN fvec \ DOMAIN o.sim : Crowded(f, o.text)
                           /\ \A f \in DOMAIN fvec : \E k \in DOMAIN o.sim :
                                Grade(fvec[k], o.text) >= Grade(fvec[f], o.text)
  /\ o.kind = "forget" => \A f \in CloseFacts(o.text) \ DOMAIN o.sim : Cardinality(CloseFacts(o.text)) > K
(* ... and between its rows and its write.                                 *)
KnowsNew(o) ==
  /\ \A f \in DOMAIN fvec : Grade(fvec[f], o.text) < 2
  /\ o.kind = "extracted" => \A f \in DOMAIN fact :
       ~fact[f].active /\ Grade(fvec[f], o.text) >= 1 => Crowded(f, o.text)
KnowsOld(o) ==
  Cardinality(CloseFacts(o.text)) > K \/ \A f \in CloseFacts(o.text) : fact[f].active => f \in o.ids
Knows(o) ==
  \/ o.stale
  \/ /\ o.pc = "rows" => KnowsVectors(o)
     /\ o.pc = "insert" => KnowsNew(o)
     /\ o.pc = "deactivate" => KnowsOld(o)
FactsInv == FactsTypeOK /\ (raced \/ Apart) /\ \A a \in Caller : Knows(op[a])

(* No fact is stored and no call is under way.                             *)
LEMMA FactsStart == FactsInit => FactsInv
<1> SUFFICES ASSUME FactsInit PROVE FactsInv
  OBVIOUS
<1>1. DOMAIN None = {} /\ None \in [{} -> FactRow]
  BY DEF None
<1>2. None \in [{} -> 0 .. 2]
  BY DEF None
<1>3. Free \in CallRow
  BY <1>2 DEF Free, CallRow, Sources
<1>4. FactsTypeOK
  <2>1. fact \in UNION {[S -> FactRow] : S \in SUBSET (1 .. MaxFacts)}
    BY <1>1 DEF FactsInit
  <2>2. QED
    BY <1>1, <1>3, <2>1 DEF FactsTypeOK, FactsInit, Ready, Free
<1>5. Apart
  BY <1>1 DEF FactsInit, Apart
<1>6. \A a \in Caller : Knows(op[a])
  BY DEF FactsInit, Knows, Free
<1>7. QED
  BY <1>4, <1>5, <1>6 DEF FactsInv

(* The table as the searches see it.                                       *)
LEMMA TableOfFacts ==
  ASSUME FactsTypeOK
  PROVE  /\ DOMAIN fact \subseteq 1 .. MaxFacts /\ IsFiniteSet(DOMAIN fvec)
         /\ \A i \in DOMAIN fact : fact[i] \in FactRow /\ fvec[i] = fact[i].text
         /\ DOMAIN fvec = DOMAIN fact
<1>1. DOMAIN fact \in SUBSET (1 .. MaxFacts) /\ \A i \in DOMAIN fact : fact[i] \in FactRow
  BY DEF FactsTypeOK
<1>2. MaxFacts \in Nat
  BY FactsAssumption
<1>3. IsFiniteSet(1 .. MaxFacts)
  BY <1>2, FS_Interval
<1>4. IsFiniteSet(DOMAIN fact)
  BY <1>1, <1>3, FS_Subset
<1>5. QED
  BY <1>1, <1>4 DEF FactsTypeOK

(* A new row's id is new.                                                  *)
LEMMA FreshFact ==
  ASSUME FactsTypeOK
  PROVE  NewFactId \in Nat \ {0} /\ NewFactId \notin DOMAIN fact
<1>1. DOMAIN fact \in SUBSET Nat /\ MaxFacts \in Nat /\ \A i \in DOMAIN fact : i > 0 /\ i <= MaxFacts
  BY TableOfFacts, FactsAssumption
<1>2. CASE DOMAIN fact = {}
  BY <1>2 DEF NewFactId
<1>3. CASE DOMAIN fact # {}
  <2> DEFINE Newest(m) == m \in DOMAIN fact /\ \A k \in DOMAIN fact : k <= m
             newest == CHOOSE m \in DOMAIN fact : \A k \in DOMAIN fact : k <= m
  <2>1. MaxOf(DOMAIN fact) \in DOMAIN fact \union {0} /\ \A x \in DOMAIN fact : x <= MaxOf(DOMAIN fact)
    BY <1>1, Greatest
  <2>2. Newest(MaxOf(DOMAIN fact))
    BY <1>1, <1>3, <2>1
  <2>3. Newest(newest)
    BY <2>2
  <2>4. NewFactId = 1 + newest
    BY <1>3 DEF NewFactId
  <2> HIDE DEF newest
  <2>5. QED
    BY <1>1, <2>3, <2>4
<1>4. QED
  BY <1>2, <1>3

(* A call goes on and the table stays as it is.                            *)
LEMMA CallGoesOn ==
  ASSUME FactsInv, NEW a \in Caller, NEW o \in CallRow, Ready(o), Knows(o),
         op' = [op EXCEPT ![a] = o], UNCHANGED <<fact, fvec, raced>>
  PROVE  FactsInv'
<1>1. op \in [Caller -> CallRow] /\ FactsTypeOK
  BY DEF FactsInv, FactsTypeOK
<1>2. op' \in [Caller -> CallRow] /\ \A b \in Caller : op'[b] = IF b = a THEN o ELSE op[b]
  BY <1>1
<1>3. \A b \in Caller : Ready(op'[b])
  BY <1>1, <1>2 DEF FactsTypeOK
<1>4. FactsTypeOK'
  BY <1>1, <1>2, <1>3 DEF FactsTypeOK, Ready
<1>5. (raced \/ Apart)'
  BY DEF FactsInv, Apart
<1>6. ASSUME NEW b \in Caller PROVE Knows(op[b])'
  <2>1. Knows(op'[b])
    BY <1>2 DEF FactsInv
  <2>2. QED
    BY <2>1 DEF Knows, KnowsVectors, KnowsNew, KnowsOld, Crowded, CloseFacts
<1>7. QED
  BY <1>4, <1>5, <1>6 DEF FactsInv

(* A write: whoever has read knows that it is late.                        *)
LEMMA WritesAreNoticed ==
  ASSUME NEW q \in [Caller -> CallRow], \A a \in Caller : Ready(q[a]),
         op' = Outdated(q)
  PROVE  /\ op' \in [Caller -> CallRow] /\ \A a \in Caller : Ready(op'[a])
         /\ \A a \in Caller : Knows(op[a])'
<1>1. ASSUME NEW a \in Caller
      PROVE  /\ op'[a] \in CallRow /\ Ready(op'[a]) /\ op'[a].pc = q[a].pc
             /\ op'[a].pc \in {"idle", "knn"} \/ op'[a].stale
  <2>1. q[a] \in CallRow /\ Ready(q[a])
    OBVIOUS
  <2>2. CASE q[a].pc \in {"idle", "knn"}
    <3>1. op'[a] = q[a]
      BY <2>2 DEF Outdated
    <3>2. QED
      BY <2>1, <2>2, <3>1
  <2>3. CASE q[a].pc \notin {"idle", "knn"}
    <3> DEFINE o == [q[a] EXCEPT !.stale = TRUE]
    <3>1. op'[a] = o
      BY <2>3 DEF Outdated
    <3>2. o \in CallRow /\ o.pc = q[a].pc /\ o.kind = q[a].kind /\ o.text = q[a].text /\ o.stale
      BY <2>1 DEF CallRow
    <3> HIDE DEF o
    <3>3. QED
      BY <2>1, <3>1, <3>2 DEF Ready
  <2>4. QED
    BY <2>2, <2>3
<1>2. op' \in [Caller -> CallRow]
  <2>1. DOMAIN op' = Caller /\ op' = [a \in Caller |-> op'[a]]
    BY DEF Outdated
  <2>2. QED
    BY <1>1, <2>1
<1>3. ASSUME NEW a \in Caller PROVE Knows(op[a])'
  BY <1>1 DEF Knows
<1>4. QED
  BY <1>1, <1>2, <1>3

(* ... and so does whoever has just written: it is done.                   *)
LEMMA CommitsAreNoticed ==
  ASSUME FactsTypeOK, NEW a \in Caller, Commits(a)
  PROVE  /\ op' \in [Caller -> CallRow] /\ \A b \in Caller : Ready(op'[b])
         /\ \A b \in Caller : Knows(op[b])'
         /\ raced' \in BOOLEAN /\ (~raced' => ~raced /\ ~op[a].stale)
<1> DEFINE q == [op EXCEPT ![a] = Free]
<1>1. None \in [{} -> 0 .. 2] /\ {} \in SUBSET (1 .. MaxFacts)
  BY DEF None
<1>2. Free \in CallRow /\ Free.pc = "idle"
  BY <1>1 DEF Free, CallRow, Sources
<1>3. q \in [Caller -> CallRow] /\ \A b \in Caller : q[b] = IF b = a THEN Free ELSE op[b]
  BY <1>2 DEF FactsTypeOK
<1>4. \A b \in Caller : Ready(q[b])
  BY <1>2, <1>3 DEF FactsTypeOK, Ready
<1>5. op' = Outdated(q)
  BY DEF Commits
<1> HIDE DEF q
<1>6. /\ op' \in [Caller -> CallRow] /\ \A b \in Caller : Ready(op'[b])
      /\ \A b \in Caller : Knows(op[b])'
  BY <1>3, <1>4, <1>5, WritesAreNoticed
<1>7. raced \in BOOLEAN /\ op[a].stale \in BOOLEAN
  BY DEF FactsTypeOK, CallRow
<1>8. QED
  BY <1>6, <1>7 DEF Commits

(* A call that has not begun knows nothing and claims nothing.             *)
LEMMA IdleCall == Free \in CallRow /\ Ready(Free) /\ Knows(Free)
<1>1. None \in [{} -> 0 .. 2] /\ {} \in SUBSET (1 .. MaxFacts)
  BY DEF None
<1>2. Free \in CallRow /\ Free.pc = "idle"
  BY <1>1 DEF Free, CallRow, Sources
<1>3. QED
  BY <1>2 DEF Ready, Knows

(* A new call has read nothing yet.                                        *)
LEMMA CallStep ==
  ASSUME FactsInv, NEW a \in Caller, NEW kind \in Sources \union {"forget"}, NEW p \in Phrase,
         Call(a, kind, p)
  PROVE  FactsInv'
<1> DEFINE o == [Free EXCEPT !.kind = kind, !.pc = "knn", !.text = p]
<1>1. op' = [op EXCEPT ![a] = o] /\ UNCHANGED <<fact, fvec, raced>>
  BY DEF Call
<1>2. o \in CallRow
  BY IdleCall DEF CallRow
<1>3. o.pc = "knn" /\ o.kind = kind /\ o.text = p
  BY DEF Free
<1> HIDE DEF o
<1>4. Ready(o) /\ Knows(o)
  BY <1>3 DEF Ready, Knows, Sources
<1>5. QED
  BY <1>1, <1>2, <1>4, CallGoesOn

(* What a search leaves out has more rivals than candidates fit.           *)
LEMMA KnnStep ==
  ASSUME FactsInv, NEW a \in Caller, Knn(a)
  PROVE  FactsInv'
<1> DEFINE p == op[a].text
           sim == [i \in DOMAIN fvec |-> Grade(fvec[i], p)]
           n == IF op[a].kind = "forget" THEN 3 * K ELSE Candidates
<1>1. PICK S \in Best(DOMAIN fvec, n, sim) :
        op' = [op EXCEPT ![a].sim = [i \in S |-> sim[i]], ![a].pc = "rows"]
  BY DEF Knn
<1>2. op[a] \in CallRow /\ Ready(op[a]) /\ op[a].pc = "knn" /\ FactsTypeOK
  BY DEF FactsInv, FactsTypeOK, Knn
<1>3. n \in Nat \ {0} /\ K \in Nat \ {0} /\ Candidates \in Nat \ {0}
  BY FactsAssumption
<1>4. IsFiniteSet(DOMAIN fvec) /\ DOMAIN fvec \subseteq 1 .. MaxFacts /\ DOMAIN fvec = DOMAIN fact
  BY <1>2, TableOfFacts
<1>5. \A i \in DOMAIN fvec : sim[i] \in 0 .. 2 /\ sim[i] = Grade(fvec[i], p)
  BY GradeRange
<1> HIDE DEF n, sim
<1>6. /\ S \subseteq DOMAIN fvec
      /\ \A f \in DOMAIN fvec : \E k \in S : sim[k] >= sim[f]
      /\ \A f \in DOMAIN fvec \ S : Cardinality({k \in DOMAIN fvec : sim[k] >= sim[f]}) > n
  BY <1>3, <1>4, <1>5, Nearest
<1> DEFINE seen == [i \in S |-> sim[i]]
           o == [op[a] EXCEPT !.sim = seen, !.pc = "rows"]
<1>7. op' = [op EXCEPT ![a] = o] /\ UNCHANGED <<fact, fvec, raced>>
  BY <1>1 DEF Knn
<1>8. seen \in UNION {[T -> 0 .. 2] : T \in SUBSET (1 .. MaxFacts)}
  BY <1>4, <1>5, <1>6
<1>9. DOMAIN seen = S /\ \A i \in S : seen[i] = Grade(fvec[i], p)
  BY <1>5, <1>6
<1> HIDE DEF seen
<1>10. o \in CallRow
  BY <1>2, <1>8 DEF CallRow
<1>11. o.pc = "rows" /\ o.kind = op[a].kind /\ o.text = p /\ o.sim = seen
  BY <1>2 DEF CallRow
<1> HIDE DEF o
<1>12. Ready(o)
  BY <1>2, <1>11 DEF Ready
<1>13. ASSUME NEW f \in DOMAIN fvec \ S
       PROVE  /\ op[a].kind # "forget" => Crowded(f, p)
              /\ op[a].kind = "forget" /\ f \in CloseFacts(p) => Cardinality(CloseFacts(p)) > K
  <2> DEFINE R == {k \in DOMAIN fvec : sim[k] >= sim[f]}
  <2>1. Cardinality(R) > n
    BY <1>6
  <2>2. R = {k \in DOMAIN fvec : Grade(fvec[k], p) >= Grade(fvec[f], p)}
    BY <1>5
  <2>3. CASE op[a].kind # "forget"
    BY <2>1, <2>2, <2>3 DEF Crowded, n
  <2>4. CASE op[a].kind = "forget" /\ f \in CloseFacts(p)
    <3>1. CloseFacts(p) \in SUBSET DOMAIN fvec
      BY DEF CloseFacts
    <3>2. IsFiniteSet(CloseFacts(p))
      BY <1>4, <3>1, FS_Subset
    <3>3. R \in SUBSET CloseFacts(p)
      BY <1>5, <2>4, GradeRange DEF CloseFacts
    <3>4. Cardinality(R) > 3 * K
      BY <2>1, <2>4 DEF n
    <3> HIDE DEF R
    <3>5. 3 * K \in Nat
      BY <1>3
    <3>6. Cardinality(CloseFacts(p)) > 3 * K
      BY <3>2, <3>3, <3>4, <3>5, MoreOf
    <3>7. Cardinality(CloseFacts(p)) \in Nat
      BY <3>2, FS_CardinalityType
    <3>8. QED
      BY <1>3, <2>4, <3>6, <3>7
  <2>5. QED
    BY <2>3, <2>4
<1>14. \A f \in DOMAIN fvec : \E k \in S : Grade(fvec[k], p) >= Grade(fvec[f], p)
  BY <1>5, <1>6
<1>15. KnowsVectors(o)
  BY <1>6, <1>9, <1>11, <1>13, <1>14 DEF KnowsVectors, Sources, CloseFacts
<1>16. Knows(o)
  BY <1>11, <1>15 DEF Knows
<1>17. QED
  BY <1>7, <1>10, <1>12, <1>16, CallGoesOn

(* What add_fact knows once it has read its candidates' rows.              *)
LEMMA RowsForAddStep ==
  ASSUME FactsInv, NEW a \in Caller, RowsForAdd(a)
  PROVE  FactsInv'
<1>1. op[a] \in CallRow /\ Ready(op[a]) /\ op[a].pc = "rows" /\ op[a].kind \in Sources /\ FactsTypeOK
  BY DEF FactsInv, FactsTypeOK, RowsForAdd
<1>2. None \in UNION {[S -> 0 .. 2] : S \in SUBSET (1 .. MaxFacts)}
  BY DEF None
<1>3. CASE Deciding(a) = {}
  <2> DEFINE o == [op[a] EXCEPT !.pc = "insert", !.sim = None]
  <2>1. op' = [op EXCEPT ![a] = o] /\ UNCHANGED <<fact, fvec, raced>>
    BY <1>3 DEF RowsForAdd
  <2>2. o \in CallRow
    BY <1>1, <1>2 DEF CallRow
  <2>3. o.pc = "insert" /\ o.kind = op[a].kind /\ o.text = op[a].text /\ o.stale = op[a].stale
    BY <1>1 DEF CallRow
  <2> HIDE DEF o
  <2>4. Ready(o)
    BY <1>1, <2>3 DEF Ready
  <2>5. ASSUME ~op[a].stale PROVE KnowsNew(o)
    <3> DEFINE sim == op[a].sim
               p == op[a].text
               D == {i \in DOMAIN sim \intersect DOMAIN fact : Decides(i, sim[i], op[a].kind)}
    <3>1. KnowsVectors(op[a]) /\ DOMAIN fvec = DOMAIN fact
      BY <1>1, <2>5, TableOfFacts DEF FactsInv, Knows
    <3>2. /\ DOMAIN sim \subseteq DOMAIN fact /\ \A i \in DOMAIN sim : sim[i] = Grade(fvec[i], p)
          /\ \A f \in DOMAIN fvec \ DOMAIN sim : Crowded(f, p)
          /\ \A f \in DOMAIN fvec : \E k \in DOMAIN sim : Grade(fvec[k], p) >= Grade(fvec[f], p)
      BY <1>1, <3>1 DEF KnowsVectors
    <3>3. \A i \in DOMAIN sim : sim[i] \in 0 .. 2
      BY <3>2, GradeRange
    <3>4. D = {}
      <4>1. SUFFICES ASSUME NEW d \in D PROVE FALSE
        OBVIOUS
      <4>2. \A i \in D : i \in DOMAIN sim
        OBVIOUS
      <4>3. Deciding(a) = {i \in D : \A k \in D : sim[k] <= sim[i]}
        BY DEF Deciding
      <4> HIDE DEF D
      <4>4. \E i \in D : \A k \in D : sim[k] <= sim[i]
        <5>1. CASE \E i \in D : sim[i] = 2
          BY <3>3, <4>2, <5>1
        <5>2. CASE (\A i \in D : sim[i] # 2) /\ \E i \in D : sim[i] = 1
          BY <3>3, <4>2, <5>2
        <5>3. CASE \A i \in D : sim[i] = 0
          BY <4>1, <5>3
        <5>4. QED
          BY <3>3, <4>2, <5>1, <5>2, <5>3
      <4>5. QED
        BY <1>3, <4>3, <4>4
    <3>5. ASSUME NEW i \in DOMAIN sim
          PROVE  sim[i] # 2 /\ (~fact[i].active /\ op[a].kind = "extracted" => sim[i] < 1)
      <4>1. ~Decides(i, sim[i], op[a].kind)
        BY <3>2, <3>4
      <4>2. CASE fact[i].active
        BY <4>1, <4>2 DEF Decides
      <4>3. CASE ~fact[i].active
        <5>1. ~(sim[i] >= IF op[a].kind = "explicit" THEN 2 ELSE 1)
          BY <4>1, <4>3 DEF Decides
        <5>2. QED
          BY <3>3, <5>1
      <4>4. QED
        BY <4>2, <4>3
    <3>6. \A f \in DOMAIN fvec : Grade(fvec[f], p) < 2
      BY <3>2, <3>3, <3>5, GradeRange
    <3>7. \A f \in DOMAIN fact : ~fact[f].active /\ op[a].kind = "extracted" /\ Grade(fvec[f], p) >= 1 => Crowded(f, p)
      BY <3>1, <3>2, <3>3, <3>5, GradeRange
    <3>8. QED
      BY <2>3, <3>6, <3>7 DEF KnowsNew
  <2>6. Knows(o)
    BY <1>1, <2>3, <2>5 DEF Knows
  <2>7. QED
    BY <2>1, <2>2, <2>4, <2>6, CallGoesOn
<1>4. CASE Deciding(a) # {}
  <2> DEFINE o(i) == IF fact[i].active \/ op[a].kind = "extracted" THEN Free
                     ELSE [op[a] EXCEPT !.pc = "activate", !.ids = {i}, !.sim = None]
  <2>1. PICK i \in Deciding(a) : op' = [op EXCEPT ![a] = o(i)]
    BY <1>4 DEF RowsForAdd
  <2>2. UNCHANGED <<fact, fvec, raced>>
    BY DEF RowsForAdd
  <2>3. {i} \in SUBSET (1 .. MaxFacts)
    <3>1. i \in DOMAIN fact
      BY <2>1 DEF Deciding
    <3>2. QED
      BY <1>1, <3>1, TableOfFacts
  <2>4. CASE fact[i].active \/ op[a].kind = "extracted"
    <3>1. o(i) = Free
      BY <2>4
    <3>2. QED
      BY <2>1, <2>2, <3>1, IdleCall, CallGoesOn
  <2>5. CASE ~(fact[i].active \/ op[a].kind = "extracted")
    <3> DEFINE w == [op[a] EXCEPT !.pc = "activate", !.ids = {i}, !.sim = None]
    <3>1. o(i) = w
      BY <2>5
    <3>2. w \in CallRow
      BY <1>1, <1>2, <2>3 DEF CallRow
    <3>3. w.pc = "activate" /\ w.kind = op[a].kind /\ w.text = op[a].text
      BY <1>1 DEF CallRow
    <3>4. op' = [op EXCEPT ![a] = w]
      BY <2>1, <3>1
    <3> HIDE DEF w
    <3>5. Ready(w) /\ Knows(w)
      BY <1>1, <3>3 DEF Ready, Knows
    <3>6. QED
      BY <2>2, <3>2, <3>4, <3>5, CallGoesOn
  <2>6. QED
    BY <2>4, <2>5
<1>5. QED
  BY <1>3, <1>4

(* What forget will switch off is what it has found.                       *)
LEMMA RowsForForgetStep ==
  ASSUME FactsInv, NEW a \in Caller, RowsForForget(a)
  PROVE  FactsInv'
<1> DEFINE p == op[a].text
           sim == op[a].sim
           o(M) == IF M = {} THEN Free ELSE [op[a] EXCEPT !.pc = "deactivate", !.ids = M, !.sim = None]
<1>1. op[a] \in CallRow /\ Ready(op[a]) /\ op[a].pc = "rows" /\ op[a].kind = "forget" /\ FactsTypeOK
  BY DEF FactsInv, FactsTypeOK, RowsForForget
<1>2. None \in UNION {[S -> 0 .. 2] : S \in SUBSET (1 .. MaxFacts)}
  BY DEF None
<1>3. PICK M \in Best(Matching(a), K, sim) : op' = [op EXCEPT ![a] = o(M)]
  BY DEF RowsForForget
<1>4. UNCHANGED <<fact, fvec, raced>>
  BY DEF RowsForForget
<1>5. CASE M = {}
  <2>1. o(M) = Free
    BY <1>5
  <2>2. QED
    BY <1>3, <1>4, <2>1, IdleCall, CallGoesOn
<1>6. CASE M # {}
  <2> DEFINE w == [op[a] EXCEPT !.pc = "deactivate", !.ids = M, !.sim = None]
  <2>1. op' = [op EXCEPT ![a] = w]
    BY <1>3, <1>6
  <2>2. M \in SUBSET (1 .. MaxFacts)
    <3>1. M \subseteq Matching(a)
      BY <1>3 DEF Best
    <3>2. QED
      BY <1>1, <3>1, TableOfFacts DEF Matching
  <2>3. w \in CallRow
    BY <1>1, <1>2, <2>2 DEF CallRow
  <2>4. w.pc = "deactivate" /\ w.kind = op[a].kind /\ w.text = p /\ w.ids = M /\ w.stale = op[a].stale
    BY <1>1 DEF CallRow
  <2> HIDE DEF w
  <2>5. Ready(w)
    BY <1>1, <2>4 DEF Ready
  <2>6. ASSUME ~op[a].stale, Cardinality(CloseFacts(p)) <= K PROVE \A f \in CloseFacts(p) : fact[f].active => f \in M
    <3>1. KnowsVectors(op[a]) /\ DOMAIN fvec = DOMAIN fact /\ IsFiniteSet(DOMAIN fvec)
      BY <1>1, <2>6, TableOfFacts DEF FactsInv, Knows
    <3>2. CloseFacts(p) \in SUBSET DOMAIN fvec
      BY DEF CloseFacts
    <3>3. IsFiniteSet(CloseFacts(p))
      BY <3>1, <3>2, FS_Subset
    <3>4. K \in Nat \ {0} /\ Cardinality(CloseFacts(p)) \in Nat
      BY <3>3, FS_CardinalityType, FactsAssumption
    <3>5. /\ \A i \in DOMAIN sim : sim[i] = Grade(fvec[i], p)
          /\ CloseFacts(p) \subseteq DOMAIN sim
      BY <1>1, <2>6, <3>1, <3>4 DEF KnowsVectors
    <3>6. Matching(a) \in SUBSET CloseFacts(p)
      BY <3>1, <3>5 DEF Matching, CloseFacts
    <3>7. IsFiniteSet(Matching(a))
      BY <3>3, <3>6, FS_Subset
    <3>8. \A i \in Matching(a) : sim[i] \in 0 .. 2
      BY <3>5, GradeRange DEF Matching
    <3>9. \A f \in Matching(a) \ M : Cardinality({k \in Matching(a) : sim[k] >= sim[f]}) > K
      BY <1>3, <3>4, <3>7, <3>8, Nearest
    <3>10. ASSUME NEW f \in Matching(a) \ M PROVE FALSE
      <4> DEFINE R == {k \in Matching(a) : sim[k] >= sim[f]}
      <4>1. Cardinality(R) > K
        BY <3>9, <3>10
      <4>2. R \in SUBSET CloseFacts(p)
        BY <3>6
      <4> HIDE DEF R
      <4>3. Cardinality(CloseFacts(p)) > K
        BY <3>3, <3>4, <4>1, <4>2, MoreOf
      <4>4. QED
        BY <2>6, <3>4, <4>3
    <3>11. ASSUME NEW f \in CloseFacts(p), fact[f].active PROVE f \in Matching(a)
      <4>1. sim[f] >= 1
        BY <3>5, <3>11 DEF CloseFacts
      <4>2. QED
        BY <3>1, <3>2, <3>5, <3>11, <4>1 DEF Matching
    <3>12. QED
      BY <3>10, <3>11
  <2>7. Cardinality(CloseFacts(p)) > K \/ Cardinality(CloseFacts(p)) <= K
    <3>1. CloseFacts(p) \in SUBSET DOMAIN fvec /\ IsFiniteSet(DOMAIN fvec)
      BY <1>1, TableOfFacts DEF CloseFacts
    <3>2. Cardinality(CloseFacts(p)) \in Nat
      BY <3>1, FS_Subset, FS_CardinalityType
    <3>3. QED
      BY <3>2, FactsAssumption
  <2>8. Knows(w)
    BY <2>4, <2>6, <2>7 DEF Knows, KnowsOld
  <2>9. QED
    BY <1>4, <2>1, <2>3, <2>5, <2>8, CallGoesOn
<1>7. QED
  BY <1>5, <1>6

(* A new row is apart from all the others, unless the call was late.       *)
LEMMA InsertStep ==
  ASSUME FactsInv, NEW a \in Caller, Insert(a)
  PROVE  FactsInv'
<1> DEFINE new == NewFactId
           row == [text |-> op[a].text, active |-> TRUE, source |-> op[a].kind]
<1>1. /\ FactsTypeOK /\ op[a] \in CallRow /\ op[a].pc = "insert" /\ op[a].text \in Phrase
      /\ op[a].kind \in Sources /\ Commits(a)
  BY DEF FactsInv, FactsTypeOK, Insert, Ready
<1>2. new \in 1 .. MaxFacts /\ new \notin DOMAIN fact
  BY <1>1, FreshFact, FactsAssumption DEF Insert
<1>3. /\ DOMAIN fact' = DOMAIN fact \union {new} /\ fact'[new] = row
      /\ \A i \in DOMAIN fact : fact'[i] = fact[i]
      /\ fact' = [i \in DOMAIN fact \union {new} |-> fact'[i]]
  BY <1>2 DEF Insert
<1>4. DOMAIN fvec' = DOMAIN fact' /\ fvec'[new] = op[a].text /\ \A i \in DOMAIN fact : fvec'[i] = fvec[i]
  BY <1>1, <1>2, TableOfFacts DEF Insert
<1> HIDE DEF new
<1>5. row \in FactRow /\ row.text = op[a].text
  BY <1>1 DEF FactRow
<1> HIDE DEF row
<1>6. /\ DOMAIN fact \subseteq 1 .. MaxFacts /\ DOMAIN fvec = DOMAIN fact
      /\ \A i \in DOMAIN fact : fact[i] \in FactRow /\ fvec[i] = fact[i].text
  BY <1>1, TableOfFacts
<1>7. /\ op' \in [Caller -> CallRow] /\ \A b \in Caller : Ready(op'[b])
      /\ \A b \in Caller : Knows(op[b])'
      /\ raced' \in BOOLEAN /\ (~raced' => ~raced /\ ~op[a].stale)
  BY <1>1, CommitsAreNoticed
<1>8. fact' \in UNION {[S -> FactRow] : S \in SUBSET (1 .. MaxFacts)}
  <2>1. \A i \in DOMAIN fact' : fact'[i] \in FactRow
    BY <1>3, <1>5, <1>6
  <2>2. DOMAIN fact' \in SUBSET (1 .. MaxFacts) /\ fact' \in [DOMAIN fact' -> FactRow]
    BY <1>2, <1>3, <1>6, <2>1
  <2>3. QED
    BY <2>2
<1>9. \A i \in DOMAIN fact' : fvec'[i] = fact'[i].text
  BY <1>3, <1>4, <1>5, <1>6
<1>10. FactsTypeOK'
  BY <1>4, <1>7, <1>8, <1>9 DEF FactsTypeOK, Ready
<1>11. ASSUME ~raced' PROVE Apart'
  <2>1. Apart /\ KnowsNew(op[a])
    BY <1>1, <1>7, <1>11 DEF FactsInv, Knows
  <2>2. \A f \in DOMAIN fact : Grade(fact[f].text, row.text) < 2 /\ Grade(row.text, fact[f].text) < 2
    BY <1>5, <1>6, <2>1, GradeRange DEF KnowsNew
  <2>3. QED
    BY <1>3, <2>1, <2>2 DEF Apart
<1>12. QED
  BY <1>7, <1>10, <1>11 DEF FactsInv

(* Rows are switched on and off, or go: none comes that was not there.     *)
LEMMA TableShrinks ==
  ASSUME FactsInv, DOMAIN fact' \subseteq DOMAIN fact, fact' = [i \in DOMAIN fact' |-> fact'[i]],
         \A i \in DOMAIN fact' : fact'[i] \in FactRow /\ fact'[i].text = fact[i].text,
         DOMAIN fvec' = DOMAIN fact', \A i \in DOMAIN fvec' : fvec'[i] = fvec[i],
         op' \in [Caller -> CallRow], \A b \in Caller : Ready(op'[b]) /\ Knows(op[b])',
         raced' \in BOOLEAN, ~raced' => ~raced
  PROVE  FactsInv'
<1>1. FactsTypeOK /\ (raced \/ Apart)
  BY DEF FactsInv
<1>2. DOMAIN fact \subseteq 1 .. MaxFacts /\ \A i \in DOMAIN fact : fvec[i] = fact[i].text
  BY <1>1, TableOfFacts
<1>3. fact' \in UNION {[S -> FactRow] : S \in SUBSET (1 .. MaxFacts)}
  <2>1. DOMAIN fact' \in SUBSET (1 .. MaxFacts) /\ fact' \in [DOMAIN fact' -> FactRow]
    BY <1>2
  <2>2. QED
    BY <2>1
<1>4. FactsTypeOK'
  BY <1>2, <1>3 DEF FactsTypeOK, Ready
<1>5. ~raced' => Apart'
  BY <1>1 DEF Apart
<1>6. QED
  BY <1>4, <1>5 DEF FactsInv

(* Facts that are switched on or off keep apart, and what the other calls know.*)
LEMMA SwitchStep ==
  ASSUME FactsInv, NEW S, NEW b \in BOOLEAN, fact' = SetActive(S, b), UNCHANGED fvec,
         op' \in [Caller -> CallRow], \A a \in Caller : Ready(op'[a]) /\ Knows(op[a])',
         raced' \in BOOLEAN, ~raced' => ~raced
  PROVE  FactsInv'
<1>1. DOMAIN fact' = DOMAIN fact /\ fact' = [i \in DOMAIN fact' |-> fact'[i]]
  BY DEF SetActive
<1>2. DOMAIN fvec = DOMAIN fact /\ \A i \in DOMAIN fact : fact[i] \in FactRow
  BY TableOfFacts DEF FactsInv
<1>3. ASSUME NEW i \in DOMAIN fact'
      PROVE  fact'[i] \in FactRow /\ fact'[i].text = fact[i].text
  <2>1. fact'[i] = IF i \in S THEN [fact[i] EXCEPT !.active = b] ELSE fact[i]
    BY <1>1 DEF SetActive
  <2>2. QED
    BY <1>1, <1>2, <2>1 DEF FactRow
<1>4. QED
  BY <1>1, <1>2, <1>3, TableShrinks

(* Erased facts leave the rest apart, and outdate what the calls have read.*)
LEMMA EraseStep ==
  ASSUME FactsInv, ForgetLast \/ WipeFacts \/ \E i \in DOMAIN fact : DeleteFact(i)
  PROVE  FactsInv'
<1>1. FactsTypeOK /\ op \in [Caller -> CallRow] /\ (\A a \in Caller : Ready(op[a])) /\ raced \in BOOLEAN
  BY DEF FactsInv, FactsTypeOK
<1>2. op' = Outdated(op) /\ raced' = raced
  BY DEF ForgetLast, WipeFacts, DeleteFact
<1>3. op' \in [Caller -> CallRow] /\ \A a \in Caller : Ready(op'[a]) /\ Knows(op[a])'
  BY <1>1, <1>2, WritesAreNoticed
<1>4. DOMAIN fvec = DOMAIN fact /\ \A i \in DOMAIN fact : fact[i] \in FactRow
  BY <1>1, TableOfFacts
<1>5. CASE ForgetLast
  <2>1. PICK i \in DOMAIN fact : fact' = SetActive({i}, FALSE)
    BY <1>5 DEF ForgetLast
  <2>2. UNCHANGED fvec
    BY <1>5 DEF ForgetLast
  <2>3. QED
    BY <1>1, <1>2, <1>3, <2>1, <2>2, SwitchStep
<1>6. CASE WipeFacts
  <2>1. DOMAIN fact' = {} /\ DOMAIN fvec' = {} /\ fact' = [i \in DOMAIN fact' |-> fact'[i]]
    BY <1>6 DEF WipeFacts, None
  <2>2. QED
    BY <1>1, <1>2, <1>3, <2>1, TableShrinks
<1>7. ASSUME NEW i \in DOMAIN fact, DeleteFact(i) PROVE FactsInv'
  <2>1. /\ DOMAIN fact' = DOMAIN fact \ {i} /\ fact' = [k \in DOMAIN fact' |-> fact'[k]]
        /\ \A k \in DOMAIN fact' : fact'[k] = fact[k]
        /\ DOMAIN fvec' = DOMAIN fvec \ {i} /\ \A k \in DOMAIN fvec' : fvec'[k] = fvec[k]
    BY <1>7 DEF DeleteFact, VectorGoes
  <2>2. QED
    BY <1>1, <1>2, <1>3, <1>4, <2>1, TableShrinks
<1>8. QED
  BY <1>5, <1>6, <1>7

(* Every step keeps the facts apart.                                       *)
LEMMA FactsStep == FactsInv /\ [FactsNext]_factVars => FactsInv'
<1> SUFFICES ASSUME FactsInv, [FactsNext]_factVars PROVE FactsInv'
  OBVIOUS
<1>1. CASE ForgetLast \/ WipeFacts \/ \E i \in DOMAIN fact : DeleteFact(i)
  BY <1>1, EraseStep
<1>2. ASSUME NEW a \in Caller, NEW p \in Phrase, Remember(a, p) \/ Forget(a, p) \/ Extract(a, p)
      PROVE  FactsInv'
  BY <1>2, CallStep DEF Remember, Forget, Extract, Sources
<1>3. ASSUME NEW a \in Caller, Activate(a) \/ Deactivate(a) PROVE FactsInv'
  <2>1. Commits(a) /\ UNCHANGED fvec /\ \E b \in BOOLEAN : fact' = SetActive(op[a].ids, b)
    BY <1>3 DEF Activate, Deactivate
  <2>2. /\ op' \in [Caller -> CallRow] /\ \A b \in Caller : Ready(op'[b]) /\ Knows(op[b])'
        /\ raced' \in BOOLEAN /\ (~raced' => ~raced)
    BY <2>1, CommitsAreNoticed DEF FactsInv
  <2>3. QED
    BY <2>1, <2>2, SwitchStep
<1>4. ASSUME NEW a \in Caller, Knn(a) \/ RowsForAdd(a) \/ RowsForForget(a) \/ Insert(a) PROVE FactsInv'
  BY <1>4, KnnStep, RowsForAddStep, RowsForForgetStep, InsertStep
<1>5. CASE UNCHANGED factVars
  <2>1. FactsTypeOK' /\ (raced \/ Apart)'
    BY <1>5 DEF factVars, FactsInv, FactsTypeOK, Ready, Apart
  <2>2. ASSUME NEW a \in Caller PROVE Knows(op[a])'
    <3>1. Knows(op[a]) /\ op' = op /\ fact' = fact /\ fvec' = fvec
      BY <1>5 DEF factVars, FactsInv
    <3>2. QED
      BY <3>1 DEF Knows, KnowsVectors, KnowsNew, KnowsOld, Crowded, CloseFacts
  <2>3. QED
    BY <2>1, <2>2 DEF FactsInv
<1>6. QED
  BY <1>1, <1>2, <1>3, <1>4, <1>5 DEF FactsNext

(* Every fact keeps exactly its own vector, and no two facts say the same, *)
(* unless a call wrote on reads that another call had outdated             *)
(* (memory/store.py:146-194).                                             *)
THEOREM FactsStayApart == FactsSpec => []NoTwins
<1>1. FactsInv => NoTwins
  BY DEF FactsInv, FactsTypeOK, Apart, NoTwins
<1>2. FactsSpec => []FactsInv
  BY FactsStart, FactsStep, PTL DEF FactsSpec
<1>3. QED
  BY <1>1, <1>2, PTL

(* Only an insert adds a row, and only a forget's last step ends a forget. *)
LEMMA OnlyInsertAdds ==
  ASSUME FactsTypeOK, [FactsNext]_factVars
  PROVE  /\ (\E a \in Caller : Insert(a)) \/ DOMAIN fact' \subseteq DOMAIN fact
         /\ \A a \in Caller : Forgets(a) => Deactivate(a)
<1>1. op \in [Caller -> CallRow]
  BY DEF FactsTypeOK
<1>2. CASE UNCHANGED factVars
  BY <1>2 DEF factVars, Forgets
<1>3. CASE ForgetLast \/ WipeFacts \/ \E i \in DOMAIN fact : DeleteFact(i)
  <2>1. op' = Outdated(op)
    BY <1>3 DEF ForgetLast, WipeFacts, DeleteFact
  <2>2. \A a \in Caller : op'[a].pc = op[a].pc
    BY <1>1, <2>1 DEF Outdated, CallRow
  <2>3. DOMAIN fact' \subseteq DOMAIN fact
    BY <1>3 DEF ForgetLast, WipeFacts, DeleteFact, SetActive, None
  <2>4. QED
    BY <2>2, <2>3 DEF Forgets
<1>4. ASSUME NEW a \in Caller, NEW p \in Phrase, Remember(a, p) \/ Forget(a, p) \/ Extract(a, p)
      PROVE  /\ DOMAIN fact' \subseteq DOMAIN fact
             /\ \A b \in Caller : Forgets(b) => Deactivate(b)
  BY <1>1, <1>4 DEF Remember, Forget, Extract, Call, Forgets, Free
<1>5. ASSUME NEW a \in Caller, Knn(a) \/ RowsForAdd(a) \/ RowsForForget(a)
      PROVE  /\ DOMAIN fact' \subseteq DOMAIN fact
             /\ \A b \in Caller : Forgets(b) => Deactivate(b)
  <2>1. op[a].pc \in {"knn", "rows"} /\ fact' = fact
    BY <1>5 DEF Knn, RowsForAdd, RowsForForget
  <2>2. \A b \in Caller \ {a} : op'[b] = op[b]
    BY <1>1, <1>5 DEF Knn, RowsForAdd, RowsForForget
  <2>3. QED
    BY <2>1, <2>2 DEF Forgets
<1>6. ASSUME NEW a \in Caller, Insert(a) \/ Activate(a) \/ Deactivate(a)
      PROVE  /\ Insert(a) \/ DOMAIN fact' \subseteq DOMAIN fact
             /\ \A b \in Caller : Forgets(b) => Deactivate(b)
  <2>1. \A b \in Caller \ {a} : op'[b].pc = op[b].pc
    <3> DEFINE q == [op EXCEPT ![a] = Free]
    <3>1. op' = Outdated(q) /\ \A b \in Caller \ {a} : q[b] = op[b]
      BY <1>1, <1>6 DEF Insert, Activate, Deactivate, Commits
    <3> HIDE DEF q
    <3>2. \A b \in Caller : op[b] \in CallRow
      BY <1>1
    <3>3. QED
      BY <3>1, <3>2 DEF Outdated, CallRow
  <2>2. Insert(a) \/ DOMAIN fact' \subseteq DOMAIN fact
    BY <1>6 DEF Activate, Deactivate, SetActive
  <2>3. Forgets(a) => Deactivate(a)
    BY <1>6 DEF Insert, Activate, Forgets
  <2>4. QED
    BY <2>1, <2>2, <2>3 DEF Forgets
<1>7. QED
  BY <1>2, <1>3, <1>4, <1>5, <1>6 DEF FactsNext

(* The extractor adds nothing close to a forgotten fact that Candidates    *)
(* nearer ones do not hide, and a forget leaves no close fact active       *)
(* unless more than K are close (memory/store.py:165-194, 196-249).        *)
THEOREM ForgottenFactsStay == FactsSpec => ForgottenStaysForgotten
<1>1. ASSUME FactsInv, [FactsNext]_factVars
      PROVE  raced' \/ (AddsNoneForgotten /\ \A a \in Caller : Forgets(a) => LeavesNoneClose(a))
  <2> SUFFICES ASSUME ~raced'
               PROVE  AddsNoneForgotten /\ \A a \in Caller : Forgets(a) => LeavesNoneClose(a)
    OBVIOUS
  <2>1. FactsTypeOK /\ \A i \in DOMAIN fact : fvec[i] = fact[i].text
    BY <1>1, TableOfFacts DEF FactsInv
  <2>2. ASSUME NEW a \in Caller, Insert(a) PROVE AddsNoneForgotten
    <3>1. op[a].pc = "insert" /\ ~op[a].stale
      BY <1>1, <2>1, <2>2, CommitsAreNoticed DEF Insert
    <3>2. KnowsNew(op[a])
      BY <1>1, <3>1 DEF FactsInv, Knows
    <3>3. \A i \in DOMAIN fact' \ DOMAIN fact :
            fact'[i].text = op[a].text /\ fact'[i].source = op[a].kind
      BY <2>2 DEF Insert
    <3>4. QED
      BY <2>1, <3>2, <3>3 DEF KnowsNew, AddsNoneForgotten
  <2>3. AddsNoneForgotten
    BY <1>1, <2>1, <2>2, OnlyInsertAdds DEF AddsNoneForgotten
  <2>4. ASSUME NEW a \in Caller, Forgets(a) PROVE LeavesNoneClose(a)
    <3>1. Deactivate(a)
      BY <1>1, <2>1, <2>4, OnlyInsertAdds
    <3>2. op[a].pc = "deactivate" /\ ~op[a].stale
      BY <2>1, <3>1, CommitsAreNoticed DEF Deactivate
    <3>3. KnowsOld(op[a])
      BY <1>1, <3>2 DEF FactsInv, Knows
    <3>4. DOMAIN fvec = DOMAIN fact /\ \A i \in DOMAIN fact : fact[i] \in FactRow
      BY <2>1, TableOfFacts
    <3>5. ASSUME NEW i \in DOMAIN fact', Grade(fact'[i].text, op[a].text) >= 1,
                 Cardinality(CloseFacts(op[a].text)) <= K
          PROVE  ~fact'[i].active
      <4>1. i \in DOMAIN fact /\ fact'[i] = IF i \in op[a].ids THEN [fact[i] EXCEPT !.active = FALSE] ELSE fact[i]
        BY <3>1 DEF Deactivate, SetActive
      <4>2. i \in op[a].ids => ~fact'[i].active /\ fact'[i].text = fact[i].text
        BY <3>4, <4>1 DEF FactRow
      <4>3. i \in CloseFacts(op[a].text)
        BY <2>1, <3>4, <3>5, <4>1, <4>2 DEF CloseFacts
      <4>4. Cardinality(CloseFacts(op[a].text)) \in Nat /\ K \in Nat
        <5>1. CloseFacts(op[a].text) \in SUBSET DOMAIN fvec /\ IsFiniteSet(DOMAIN fvec)
          BY <2>1, TableOfFacts DEF CloseFacts
        <5>2. QED
          BY <5>1, FS_Subset, FS_CardinalityType, FactsAssumption
      <4>5. fact[i].active => i \in op[a].ids
        BY <3>3, <3>5, <4>3, <4>4 DEF KnowsOld
      <4>6. QED
        BY <4>1, <4>2, <4>5
    <3>6. Cardinality(CloseFacts(op[a].text)) > K \/ Cardinality(CloseFacts(op[a].text)) <= K
      <4>1. CloseFacts(op[a].text) \in SUBSET DOMAIN fvec /\ IsFiniteSet(DOMAIN fvec)
        BY <2>1, TableOfFacts DEF CloseFacts
      <4>2. QED
        BY <4>1, FS_Subset, FS_CardinalityType, FactsAssumption
    <3>7. QED
      BY <3>5, <3>6 DEF LeavesNoneClose
  <2>5. QED
    BY <2>3, <2>4
<1>2. FactsSpec => []FactsInv
  BY FactsStart, FactsStep, PTL DEF FactsSpec
<1>3. QED
  BY <1>1, <1>2, PTL DEF FactsSpec, ForgottenStaysForgotten
=============================================================================
