------------------------------- MODULE Context -------------------------------
(* core/context.py: the messages of a turn on their way to a provider.     *)
(* sanitize_messages drops and repairs what a strict provider rejects,     *)
(* trim makes the history fit the budget of the brain that answers.        *)
EXTENDS Integers, Sequences

CONSTANTS
  CallId,     \* ids of tool calls
  MaxChars,   \* of one row
  Budget,     \* budgets tried, in tokens
  MaxRows

ASSUME ContextAssumption == MaxChars \in Nat /\ MaxRows \in Nat /\ Budget \subseteq Nat \ {0}

(* A row: its role, the ids of its tool calls or the one that it answers,  *)
(* and the length of its content.  The prompt and the user are never mute. *)
Row(role, ids, chars) == [role : {role}, ids : ids, chars : chars]
Rows == Row("system", {{}}, {MaxChars}) \union Row("user", {{}}, {MaxChars})
        \union Row("assistant", SUBSET CallId, {0, MaxChars})
        \union Row("tool", {{i} : i \in CallId}, {0, MaxChars})
Calls(m) == m.role = "assistant" /\ m.ids # {}
Keep(s, I) ==
  LET kept[n \in 0..Len(s)] ==
        IF n = 0 THEN <<>>
        ELSE IF n \in I THEN Append(kept[n - 1], s[n]) ELSE kept[n - 1]
  IN kept[Len(s)]

(* Pass 1: empty content goes, unless tool calls stand in for it.          *)
Staged(s) == Keep(s, {i \in DOMAIN s : s[i].chars > 0 \/ Calls(s[i])})

(* Pass 2.  The tool rows that follow row i without a gap; the first one   *)
(* for an id is its answer.                                                *)
RunOf(s, i) == {j \in (i + 1)..Len(s) : \A k \in (i + 1)..j : s[k].role = "tool"}
Answers(s, i) ==
  {j \in RunOf(s, i) : s[j].ids \subseteq s[i].ids
                       /\ ~\E k \in RunOf(s, i) : k < j /\ s[k].ids = s[j].ids}
Answered(s, i) == UNION {s[j].ids : j \in Answers(s, i)}
Kept(s) ==
  {i \in DOMAIN s : IF Calls(s[i]) THEN Answered(s, i) # {} \/ s[i].chars > 0
                    ELSE s[i].role = "tool" => \E k \in DOMAIN s : Calls(s[k]) /\ i \in Answers(s, k)}
Sanitize(s) ==
  LET t == Staged(s)
      repaired == [i \in DOMAIN t |-> IF Calls(t[i]) THEN [t[i] EXCEPT !.ids = Answered(t, i)] ELSE t[i]]
  IN Keep(repaired, Kept(t))

(* estimate_tokens, _blocks: a tool row belongs to the calls before it.    *)
Chars(s, I) ==
  LET sum[n \in 0..Len(s)] ==
        IF n = 0 THEN 0 ELSE sum[n - 1] + (IF n \in I THEN s[n].chars ELSE 0)
  IN sum[Len(s)]
Tokens(s, I) == Chars(s, I) \div 4
BlockOfOne(s, I, i) == {i}
Block(s, I, i) ==
  {i} \union {j \in I : /\ Calls(s[i]) /\ j > i
                        /\ \A k \in I : i < k /\ k <= j => s[k].role = "tool"}
Starts(s, I) == {i \in I : ~\E k \in I : k # i /\ i \in Block(s, I, k)}

(* trim: the blocks before the last user row, oldest first, until the rest *)
(* fits.                                                                   *)
History(s) == {i \in DOMAIN s : s[i].role # "system"}
Users(s) == {i \in DOMAIN s : s[i].role = "user"}
Droppable(s) ==
  {i \in History(s) : Users(s) = {} \/ \E u \in Users(s) : (\A v \in Users(s) : v <= u) /\ i < u}
Dropped(s, b) ==
  LET D == Droppable(s)
      drop[k \in 0..Len(s)] ==    \* after the blocks up to row k: rows gone, tokens left
        IF k = 0 THEN [gone |-> {}, left |-> Tokens(s, History(s))]
        ELSE LET d == drop[k - 1] IN
             IF d.left <= b \/ k \notin Starts(s, D) THEN d
             ELSE [gone |-> d.gone \union Block(s, D, k), left |-> d.left - Tokens(s, Block(s, D, k))]
  IN drop[Len(s)].gone
Trim(s, b) == Keep(s, DOMAIN s \ Dropped(s, b))

VARIABLES rows, sent, budget
contextVars == <<rows, sent, budget>>
ContextInit == rows = <<>> /\ sent = <<>> /\ budget = 0
Grows(m) == budget = 0 /\ Len(rows) < MaxRows /\ rows' = Append(rows, m) /\ UNCHANGED <<sent, budget>>
Sends(b) == budget = 0 /\ budget' = b /\ sent' = Trim(Sanitize(rows), b) /\ UNCHANGED rows
ContextNext == (\E m \in Rows : Grows(m)) \/ (\E b \in Budget : Sends(b))
ContextSpec == ContextInit /\ [][ContextNext]_contextVars

(* Properties.                                                             *)

(* What a strict provider accepts: every call is answered once, directly   *)
(* after it, every tool row answers one, and no row is empty.              *)
Valid(s) ==
  /\ \A i \in DOMAIN s : s[i].chars > 0 \/ Calls(s[i])
  /\ \A i \in DOMAIN s : Calls(s[i]) =>
       \A c \in s[i].ids : \E j \in RunOf(s, i) : s[j].ids = {c}
  /\ \A j \in DOMAIN s : s[j].role = "tool" =>
       \E i \in DOMAIN s : /\ Calls(s[i]) /\ j \in RunOf(s, i) /\ s[j].ids \subseteq s[i].ids
                           /\ \A k \in RunOf(s, i) : k # j => s[k].ids # s[j].ids

Instructions(s) == {i \in DOMAIN s : s[i].role = "system"}

(* The last question and all that follows it.                              *)
Current(s) == {i \in DOMAIN s : \A u \in Users(s) : u <= i}

(* Whatever rows a broken turn left behind, what is sent is valid after    *)
(* both passes, keeps every instruction and, whole, the turn being         *)
(* answered, and fits the budget unless that turn alone does not.          *)
Sendable ==
  budget # 0 =>
    LET clean == Sanitize(rows) IN
    /\ Valid(sent) /\ Sanitize(clean) = clean
    /\ Keep(sent, Instructions(sent)) = Keep(clean, Instructions(clean))
    /\ Users(clean) # {} => Keep(sent, Current(sent)) = Keep(clean, Current(clean))
    /\ Tokens(sent, History(sent)) <= budget \/ Droppable(sent) = {}
=============================================================================
