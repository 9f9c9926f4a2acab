------------------------------- MODULE Recall -------------------------------
(* What Baby remembers of its conversations: the messages, the rolling     *)
(* summary, the message vectors and the two watermarks, in baby.db.        *)
(* Turns write and mark rows; maintenance (after a turn) and the nightly   *)
(* reconciler read rows, await a model, and write what came of them; a     *)
(* wipe or a delete may land in between.  A message is told from another   *)
(* by when it was written: text n is the n-th row ever written.  Ids are   *)
(* rowids without AUTOINCREMENT, so a deleted id is handed out again.      *)
EXTENDS Naturals, FiniteSets

CONSTANTS
  MaxConv,      \* conversations that may exist at once
  MaxText,      \* rows written in a behaviour
  Every,        \* Summarizer.every: rows that make a fold due
  KeepRecent,   \* Summarizer.keep_recent: newest rows left verbatim
  Maintenance,  \* an agent's background job after a good turn (single flight)
  Nightly,      \* the scheduler's reconciler: embeds only
  MaxErasures,  \* wipes and deletes in a behaviour
  MaxJobs,      \* times a job reads its rows
  MaxBoots      \* boots of this process or of a second one

Job == Maintenance \union Nightly

ASSUME RecallAssumption ==
  /\ MaxConv \in Nat \ {0} /\ MaxText \in Nat
  /\ Every \in Nat \ {0} /\ KeepRecent \in Nat
  /\ MaxErasures \in Nat /\ MaxJobs \in Nat /\ MaxBoots \in Nat

VARIABLES
  conv,      \* id -> the row's summary (as the texts in it) and watermarks
  msg,       \* id -> its conversation, turn, role, status and text
  vec,       \* message id -> the text its embedding was computed from
  turn,      \* conversation -> the turn streaming there, 0 for none
  job,       \* job -> where it is and what it read
  written,   \* rows written so far
  erased,    \* texts a wipe or a delete removed
  erasures,  \* wipes and deletes so far
  overtaken, \* an erasure or a repair landed under a job that had read
  jobs, boots
vars == <<conv, msg, vec, turn, job, written, erased, erasures, overtaken, jobs, boots>>

NoTurn == 0
Idle == [pc |-> "idle", conv |-> 0, rows |-> {}, summary |-> {}, upto |-> 0, last |-> 0]
NewRow == [summary |-> {}, folded |-> 0, embedded |-> 0]
With(f, id, r) == [i \in DOMAIN f \union {id} |-> IF i = id THEN r ELSE f[i]]
Only(f, S) == [i \in DOMAIN f \intersect S |-> f[i]]
MaxOf(S) == CHOOSE x \in S \union {0} : \A y \in S : y <= x

NextId(f) == MaxOf(DOMAIN f) + 1
Ids(c) == {i \in DOMAIN msg : msg[i].conv = c}
Ok(i) == msg[i].status = "ok"

(* messages_since: the ok rows of a conversation past a watermark.         *)
Since(c, after) == {i \in Ids(c) : Ok(i) /\ i > after}
Due(c) == Since(c, conv[c].folded)
FirstIncomplete(c, after, upto) ==
  {i \in Ids(c) : ~Ok(i) /\ i > after /\ i <= upto}

RecallInit ==
  /\ conv = [c \in 1 .. 1 |-> NewRow]
  /\ msg = [i \in {} |-> Idle] /\ vec = [i \in {} |-> 0]
  /\ turn = [c \in 1 .. MaxConv |-> NoTurn]
  /\ job = [j \in Job |-> Idle]
  /\ written = 0 /\ erased = {} /\ erasures = 0 /\ overtaken = FALSE /\ jobs = 0 /\ boots = 0

(* ------------------------------ turns ---------------------------------- *)
NewConversation ==
  /\ NextId(conv) <= MaxConv
  /\ conv' = With(conv, NextId(conv), NewRow)
  /\ UNCHANGED <<msg, vec, turn, job, written, erased, erasures, overtaken, jobs, boots>>

(* add_message.  The user's row opens the turn and names it.               *)
Write(c, role, t) ==
  /\ written < MaxText /\ c \in DOMAIN conv
  /\ msg' = With(msg, NextId(msg), [conv |-> c, turn |-> t, role |-> role,
                                    status |-> "ok", text |-> written + 1])
  /\ written' = written + 1

Ask(c) ==
  /\ turn[c] = NoTurn
  /\ Write(c, "user", written + 1)
  /\ turn' = [turn EXCEPT ![c] = written + 1]
  /\ UNCHANGED <<conv, vec, job, erased, erasures, overtaken, jobs, boots>>

Replied(c) == \E i \in Ids(c) : msg[i].turn = turn[c] /\ msg[i].role = "assistant"
Reply(c) ==
  /\ turn[c] # NoTurn /\ ~Replied(c)
  /\ Write(c, "assistant", turn[c])
  /\ UNCHANGED <<conv, vec, turn, job, erased, erasures, overtaken, jobs, boots>>

Busy(j) == job[j].pc # "idle"
Embedding(c) == \E j \in Job : job[j].pc \in {"put", "mark"} /\ job[j].conv = c
Marked(c, s) == [i \in DOMAIN msg |-> IF i \in Ids(c) /\ msg[i].turn = turn[c]
                                      THEN [msg[i] EXCEPT !.status = s] ELSE msg[i]]

(* run_turn's finally: an answered turn is 'ok' again as a whole whatever  *)
(* a second process's boot made of it, a failed one is hidden as a whole.  *)
Close(c) ==
  /\ turn[c] # NoTurn
  /\ msg' = Marked(c, IF Replied(c) THEN "ok" ELSE "failed")
  /\ turn' = [turn EXCEPT ![c] = NoTurn]
  /\ overtaken' = (overtaken \/ (Embedding(c) /\ \E i \in DOMAIN msg : ~Ok(i) /\ msg'[i].status = "ok"))
  /\ UNCHANGED <<conv, vec, job, written, erased, erasures, jobs, boots>>

Unanswered(i) ==
  ~\E k \in Ids(msg[i].conv) : msg[k].turn = msg[i].turn /\ msg[k].role = "assistant"
Reconciled == [i \in DOMAIN msg |-> IF Ok(i) /\ Unanswered(i)
                                    THEN [msg[i] EXCEPT !.status = "failed"] ELSE msg[i]]

(* A second process (the backfill script, a CLI) boots on the same file.   *)
ForeignBoot ==
  /\ boots < MaxBoots /\ boots' = boots + 1
  /\ msg' = Reconciled
  /\ UNCHANGED <<conv, vec, turn, job, written, erased, erasures, overtaken, jobs>>

(* This process dies and boots: its turns and jobs are gone.               *)
Reboot ==
  /\ boots < MaxBoots /\ boots' = boots + 1
  /\ msg' = Reconciled
  /\ turn' = [c \in DOMAIN turn |-> NoTurn]
  /\ job' = [j \in Job |-> Idle]
  /\ UNCHANGED <<conv, vec, written, erased, erasures, overtaken, jobs>>

(* --------------------------- background jobs --------------------------- *)
(* maybe_summarize reads the summary and the fresh rows, and folds all but *)
(* the newest.                                                             *)
FoldOf(S) == {i \in S : Cardinality({k \in S : k > i}) >= KeepRecent}
Summarise(j, c) ==
  /\ jobs < MaxJobs /\ jobs' = jobs + 1
  /\ j \in Maintenance /\ ~Busy(j) /\ c \in DOMAIN conv
  /\ Cardinality(Due(c)) >= Every
  /\ LET fold == FoldOf(Due(c)) IN
     /\ fold # {}
     /\ job' = [job EXCEPT ![j] = [Idle EXCEPT !.pc = "fold", !.conv = c,
                  !.summary = conv[c].summary \union {msg[i].text : i \in fold}, !.last = MaxOf(fold)]]
  /\ UNCHANGED <<conv, msg, vec, turn, written, erased, erasures, overtaken, boots>>

(* The model's answer arrives: set_summary, an UPDATE that finds the row   *)
(* or does not.                                                            *)
SetSummary(j) ==
  /\ job[j].pc = "fold"
  /\ LET c == job[j].conv IN
     conv' = IF c \in DOMAIN conv
             THEN [conv EXCEPT ![c].summary = job[j].summary, ![c].folded = job[j].last] ELSE conv
  /\ job' = [job EXCEPT ![j] = Idle]
  /\ UNCHANGED <<msg, vec, turn, written, erased, erasures, overtaken, jobs, boots>>

(* embed_new_messages: the watermark, the rows past it (a row carries its  *)
(* id and text), then one await of the embedder for each row, the oldest   *)
(* first.                                                                  *)
Embed(j, c) ==
  /\ jobs < MaxJobs /\ jobs' = jobs + 1
  /\ ~Busy(j) /\ c \in DOMAIN conv
  /\ LET ids == Since(c, conv[c].embedded) IN
     /\ ids # {}
     /\ job' = [job EXCEPT ![j] = [Idle EXCEPT !.pc = "put", !.conv = c,
                  !.rows = {[id |-> i, text |-> msg[i].text] : i \in ids},
                  !.upto = conv[c].embedded, !.last = MaxOf(ids)]]
  /\ UNCHANGED <<conv, msg, vec, turn, written, erased, erasures, overtaken, boots>>

(* The SELECT guard and the INSERT, under one hold of the lock.            *)
PutVector(j) ==
  /\ job[j].pc = "put"
  /\ \E r \in job[j].rows :
       /\ \A q \in job[j].rows : r.id <= q.id
       /\ vec' = IF r.id \in DOMAIN vec THEN vec ELSE With(vec, r.id, r.text)
       /\ job' = [job EXCEPT ![j].rows = @ \ {r}, ![j].pc = IF job[j].rows = {r} THEN "mark" ELSE "put"]
  /\ UNCHANGED <<conv, msg, turn, written, erased, erasures, overtaken, jobs, boots>>

(* The watermark stops before the first row that is not ok.                *)
MarkLast(c, upto, last) == last
MarkUpto(c, upto, last) ==
  LET hole == FirstIncomplete(c, upto, last) IN
  IF hole = {} THEN last ELSE (CHOOSE i \in hole : \A k \in hole : i <= k) - 1
SetEmbedded(j) ==
  /\ job[j].pc = "mark"
  /\ LET c == job[j].conv IN
     conv' = IF c \in DOMAIN conv
             THEN [conv EXCEPT ![c].embedded = MarkUpto(c, job[j].upto, job[j].last)] ELSE conv
  /\ job' = [job EXCEPT ![j] = Idle]
  /\ UNCHANGED <<msg, vec, turn, written, erased, erasures, overtaken, jobs, boots>>

(* Provider or embedder failure: nothing more is written.                  *)
JobFails(j) ==
  /\ Busy(j)
  /\ job' = [job EXCEPT ![j] = Idle]
  /\ UNCHANGED <<conv, msg, vec, turn, written, erased, erasures, overtaken, jobs, boots>>

(* ------------------------------- erasure ------------------------------- *)
Erasing(S, readers) ==
  /\ erasures < MaxErasures /\ S # {}
  /\ erasures' = erasures + 1
  /\ erased' = erased \union {msg[i].text : i \in S}
  /\ overtaken' = (overtaken \/ \E j \in readers : Busy(j))
  /\ msg' = Only(msg, DOMAIN msg \ S)

VectorsKept(S) == vec
VectorsWithout(S) == Only(vec, DOMAIN vec \ S)
WatermarksReset(f) == [c \in DOMAIN f |-> NewRow]

(* wipe_all: messages, vectors, summaries and watermarks.                  *)
Wipe ==
  /\ Erasing(DOMAIN msg, Job)
  /\ vec' = VectorsWithout(DOMAIN vec)
  /\ conv' = WatermarksReset(conv)
  /\ UNCHANGED <<turn, job, written, jobs, boots>>

(* delete_conversation: its messages, their vectors, its row.  Only a turn *)
(* of the UI agent would have it refused: a voice or a worker's turn there *)
(* runs on, and can write no more unless the id is handed out again.       *)
Delete(c) ==
  /\ c \in DOMAIN conv
  /\ Erasing(Ids(c), {j \in Job : job[j].conv = c})
  /\ vec' = VectorsWithout(Ids(c))
  /\ conv' = Only(conv, DOMAIN conv \ {c})
  /\ UNCHANGED <<turn, job, written, jobs, boots>>

RecallNext ==
  \/ NewConversation \/ ForeignBoot \/ Reboot \/ Wipe
  \/ \E c \in 1 .. MaxConv : Ask(c) \/ Reply(c) \/ Close(c) \/ Delete(c)
  \/ \E j \in Job : SetSummary(j) \/ PutVector(j) \/ SetEmbedded(j) \/ JobFails(j)
                    \/ \E c \in 1 .. MaxConv : Summarise(j, c) \/ Embed(j, c)

RecallSpec == RecallInit /\ [][RecallNext]_vars

-----------------------------------------------------------------------------
(* search_messages for a turn of conversation c: the rows a hit can show.  *)
Recallable(c) == {i \in DOMAIN vec \intersect DOMAIN msg : Ok(i) /\ msg[i].conv # c}
(* _loop's prompt: the summary, and the rows past its watermark.           *)
Context(c) == conv[c].summary \union
              {msg[i].text : i \in Since(c, IF conv[c].summary = {} THEN 0 ELSE conv[c].folded)}

(* A hit shows the message its embedding was made from, and nothing a wipe *)
(* or a delete removed is left in a vector or a summary, as long as no job *)
(* had read what was erased.                                               *)
RecallIsHonest ==
  overtaken \/ /\ \A c \in DOMAIN conv : \A i \in Recallable(c) : msg[i].text = vec[i]
               /\ \A i \in DOMAIN vec : vec[i] \notin erased
               /\ \A c \in DOMAIN conv : conv[c].summary \intersect erased = {}

(* Every completed message stays in reach: of its own conversation's       *)
(* prompt, by the summary or verbatim and never both, and of the others'   *)
(* by its vector once the watermark has passed it.                         *)
NothingLost ==
  overtaken \/ \A c \in DOMAIN conv, i \in DOMAIN msg : (msg[i].conv = c /\ Ok(i)) =>
    /\ msg[i].text \in Context(c)
    /\ msg[i].text \in conv[c].summary => i <= conv[c].folded
    /\ i <= conv[c].embedded => i \in DOMAIN vec

(* wipe_all's docstring: "True amnesia: every fact, every vector, the raw  *)
(* turns and the rolling summaries".                                       *)
TrueAmnesia ==
  /\ \A i \in DOMAIN vec : vec[i] \notin erased
  /\ \A c \in DOMAIN conv : conv[c].summary \intersect erased = {}
=============================================================================
