-------------------------------- MODULE Turns --------------------------------
(***************************************************************************)
(* core/agent.py run_turn and the message rows of db/database.py, driven   *)
(* by the UI's chat socket, the voice pipeline, and the HTTP handlers of   *)
(* ui/server.py that create, resume, delete and wipe conversations while   *)
(* turns are under way.                                                    *)
(*                                                                         *)
(* Two agents, "ui" and "voice", each with a conversation_id that is read  *)
(* afresh at every database call of a turn.  As in WorkerPool, `dbq` is    *)
(* the FIFO queue of the database's asyncio.Lock: a request carries the    *)
(* conversation its caller named when it asked, and serving it runs the    *)
(* caller up to its next await.                                            *)
(*                                                                         *)
(* The audit, usage and memory reads and writes of a turn are left out:    *)
(* they touch neither the rows nor the pointers.                           *)
(***************************************************************************)
EXTENDS Naturals, Sequences, FiniteSets, FiniteSetsExt, SequencesExt

CONSTANTS UiRun, VoiceRun,   \* bound: the run_turn calls made on each agent
          Handler,           \* bound: the HTTP calls made
          MaxCalls,          \* bound: run_turn and HTTP calls together
          MaxIterations,     \* agent.max_iterations
          MaxBoots           \* bound: boots, of this server or of another process

ASSUME TurnsAssumption ==
  /\ MaxIterations \in Nat \ {0}
  /\ MaxBoots \in Nat
  /\ MaxCalls \in Nat
  /\ UiRun \intersect VoiceRun = {}
  /\ Handler \intersect (UiRun \union VoiceRun) = {}

Run      == UiRun \union VoiceRun
Agent    == {"ui", "voice"}
AgentOf(r) == IF r \in UiRun THEN "ui" ELSE "voice"

(* Ids of conversations and of turns.                                      *)
Conv == Nat \ {0}
TurnId == Nat

VARIABLES
  chan,     \* conversations: the channel of each row, by id
  rows,     \* messages of agent turns, with the run that wrote each
  ptr,      \* AgentCore.conversation_id
  dbq,      \* the database lock's queue
  pc,       \* where each run_turn is suspended
  turn,     \* its turn_id
  iters,    \* its tool rounds so far
  outcome,  \* its local `status`
  future,   \* the pipeline's _turn_future
  hpc,      \* where each handler is suspended
  hkind,    \* which handler it is
  hconv,    \* its conv_id
  boots,    \* boots so far
  home,     \* history: the conversation each turn_id was drawn from
  astray    \* history: a turn's conversation was switched under it or shared,
            \* its id given to another one, or the pipeline lost track of a turn

durable == <<chan, rows>>
runs    == <<pc, turn, iters, outcome, home, astray>>
http    == <<hpc, hkind, hconv>>
vars == <<durable, ptr, dbq, runs, future, http, boots>>

Row == [by : Run, role : {"user", "tool", "assistant"}, conv : Conv,
        turn : TurnId, status : {"ok", "failed"}]

RunPc == {"idle", "next", "user", "stream", "tool", "reply", "mark",
          "closing", "newchat", "over", "dead"}

Init ==
  /\ chan = [c \in {1, 2} |-> IF c = 1 THEN "ui" ELSE "voice"]
  /\ rows = {}
  /\ ptr = [a \in Agent |-> IF a = "ui" THEN 1 ELSE 2]
  /\ dbq = <<>>
  /\ pc = [r \in Run |-> "idle"]
  /\ turn = [r \in Run |-> 0]
  /\ iters = [r \in Run |-> 0]
  /\ outcome = [r \in Run |-> "none"]
  /\ future = {}
  /\ hpc = [h \in Handler |-> "idle"]
  /\ hkind = [h \in Handler |-> "none"]
  /\ hconv = [h \in Handler |-> 1]
  /\ home = [r \in Run |-> 1]
  /\ astray = FALSE
  /\ boots = 0

-----------------------------------------------------------------------------
(* The database.                                                           *)

Exists(c) == c \in DOMAIN chan

(* conversations.id has no AUTOINCREMENT: the largest id in use, plus one. *)
NewId == 1 + Max({0} \union DOMAIN chan)

With(f, c, a) == [d \in DOMAIN f \union {c} |-> IF d = c THEN a ELSE f[d]]

(* Turns that have drawn their id.                                         *)
Drawn == {r \in Run : pc[r] \in {"user", "stream", "tool", "reply", "mark", "closing"}}

(* So the id of a conversation deleted under a turn may be given again     *)
(* while the turn still writes to it.                                      *)
Created(a) ==
  /\ chan' = With(chan, NewId, a)
  /\ astray' = (astray \/ \E r \in Drawn : home[r] = NewId)

Deleted(c) == chan' = Restrict(chan, DOMAIN chan \ {c})

(* Mutant: the last answered turn, plus one.                               *)
NextTurnIdAnswered(c) ==
  1 + Max({0} \union {x.turn : x \in {y \in rows : y.conv = c /\ y.role = "assistant"}})

NextTurnId(c) == 1 + Max({0} \union {x.turn : x \in {y \in rows : y.conv = c}})

Marked(c, n, s) ==
  {IF x.conv = c /\ x.turn = n THEN [x EXCEPT !.status = s] ELSE x : x \in rows}

RoleOf(op) == CASE op = "user" -> "user" [] op = "tool" -> "tool"
                [] OTHER -> "assistant"

RowOf(q) == [by |-> q.who, role |-> RoleOf(q.op), conv |-> q.conv,
             turn |-> turn[q.who], status |-> "ok"]

(* What a run's write leaves in the messages table.                        *)
Written(q) ==
  CASE q.op \in {"user", "tool", "reply", "closing"} /\ Exists(q.conv) -> rows \union {RowOf(q)}
    [] q.op = "mark" -> Marked(q.conv, turn[q.who],
                               IF outcome[q.who] = "ok" THEN "ok" ELSE "failed")
    [] OTHER -> rows

(* A turn with no assistant row yet.                                       *)
Unanswered(x) ==
  ~\E y \in rows : y.role = "assistant" /\ y.conv = x.conv /\ y.turn = x.turn

Reconciled ==
  {IF x.status = "ok" /\ Unanswered(x) THEN [x EXCEPT !.status = "failed"] ELSE x : x \in rows}

Req(op, r) == [op |-> op, who |-> r, conv |-> ptr[AgentOf(r)]]

Astray(r) == ptr[AgentOf(r)] # home[r] \/ ptr["ui"] = ptr["voice"]

Serving(op, p) == dbq # <<>> /\ Head(dbq).op = op /\ Head(dbq).who = p

-----------------------------------------------------------------------------
(* turn_running() of the server: the tracked UI task or the pipeline's     *)
(* future, each until it is done; a cancelled future is done at once.      *)

Live(r) == pc[r] \notin {"idle", "over", "dead"}

UiRunning    == \E r \in UiRun : Live(r)
VoiceRunning == \E r \in future : Live(r)
TurnRunning  == UiRunning \/ VoiceRunning

Calls == {r \in Run : pc[r] # "idle"} \union {h \in Handler : hpc[h] # "idle"}

CallsLeft == Cardinality(Calls) < MaxCalls

(* run_turn is called with an ordinary message: ask for the turn id.       *)
Called(r) ==
  /\ pc[r] = "idle" /\ CallsLeft
  /\ pc' = [pc EXCEPT ![r] = "next"]
  /\ home' = [home EXCEPT ![r] = ptr[AgentOf(r)]]
  /\ dbq' = Append(dbq, Req("next", r))
  /\ UNCHANGED <<durable, ptr, turn, iters, outcome, astray, http, boots>>

(* ... or with "new chat": ask for a conversation.                         *)
CalledNewChat(r) ==
  /\ pc[r] = "idle" /\ CallsLeft
  /\ pc' = [pc EXCEPT ![r] = "newchat"]
  /\ dbq' = Append(dbq, Req("newchat", r))
  /\ UNCHANGED <<durable, ptr, turn, iters, outcome, home, astray, http, boots>>

UiMessage(r) ==
  /\ r \in UiRun
  /\ ~TurnRunning
  /\ Called(r) \/ CalledNewChat(r)
  /\ UNCHANGED future

VoiceMessage(r) ==
  /\ r \in VoiceRun
  /\ ~VoiceRunning
  /\ Called(r) \/ CalledNewChat(r)
  /\ future' = {r}

-----------------------------------------------------------------------------
(* A run.                                                                  *)

(* run_turn is left, with its locals.                                      *)
Leaves(r, how) ==
  /\ pc' = [pc EXCEPT ![r] = how]
  /\ turn' = [turn EXCEPT ![r] = 0]
  /\ iters' = [iters EXCEPT ![r] = 0]
  /\ home' = [home EXCEPT ![r] = 1]

(* Go on to the await of `op`, naming the conversation the agent points at *)
(* now.                                                                    *)
Proceeds(r, op) ==
  /\ pc' = [pc EXCEPT ![r] = op]
  /\ dbq' = Append(Tail(dbq), Req(op, r))
  /\ astray' = (astray \/ Astray(r))

ServeNext(r) ==
  /\ Serving("next", r)
  /\ turn' = [turn EXCEPT ![r] = NextTurnId(Head(dbq).conv)]
  /\ Proceeds(r, "user")
  /\ UNCHANGED <<durable, ptr, iters, outcome, home, future, http, boots>>

(* The user row; messages.conversation_id is a foreign key, and the insert *)
(* stands before the try block.  What is read between the two (tool flags) *)
(* is left out: a cancel there is one that hits this insert as it is       *)
(* executed.                                                               *)
ServeUser(r) ==
  /\ Serving("user", r)
  /\ IF Exists(Head(dbq).conv)
       THEN pc' = [pc EXCEPT ![r] = "stream"] /\ UNCHANGED <<turn, iters, home>>
       ELSE Leaves(r, "dead")
  /\ rows' = Written(Head(dbq))
  /\ dbq' = Tail(dbq)
  /\ UNCHANGED <<chan, ptr, outcome, astray, future, http, boots>>

(* A step of _loop: the generation calls a tool, answers (or runs into the *)
(* iteration cap, which answers too), or fails.                            *)
Asks(r, op) ==
  /\ pc' = [pc EXCEPT ![r] = op]
  /\ dbq' = Append(dbq, Req(op, r))
  /\ astray' = (astray \/ Astray(r))

CallsTool(r) ==
  /\ pc[r] = "stream"
  /\ iters[r] < MaxIterations
  /\ iters' = [iters EXCEPT ![r] = @ + 1]
  /\ Asks(r, "tool")
  /\ UNCHANGED <<durable, ptr, turn, outcome, home, future, http, boots>>

Answers(r) ==
  /\ pc[r] = "stream"
  /\ Asks(r, "reply")
  /\ UNCHANGED <<durable, ptr, turn, iters, outcome, home, future, http, boots>>

Fails(r) ==
  /\ pc[r] = "stream"
  /\ iters[r] < MaxIterations
  /\ outcome' = [outcome EXCEPT ![r] = "error"]
  /\ Asks(r, "mark")
  /\ UNCHANGED <<durable, ptr, turn, iters, home, future, http, boots>>

(* The tool row, or the failing turn its foreign key makes of it.          *)
ServeTool(r) ==
  /\ Serving("tool", r)
  /\ IF Exists(Head(dbq).conv)
       THEN /\ pc' = [pc EXCEPT ![r] = "stream"]
            /\ dbq' = Tail(dbq)
            /\ UNCHANGED <<outcome, astray>>
       ELSE /\ outcome' = [outcome EXCEPT ![r] = "error"]
            /\ Proceeds(r, "mark")
  /\ rows' = Written(Head(dbq))
  /\ UNCHANGED <<chan, ptr, turn, iters, home, future, http, boots>>

(* Mutant: a finished turn is not repaired.                                *)
ServeReplyUnrepaired(r) ==
  /\ Serving("reply", r)
  /\ Exists(Head(dbq).conv)
  /\ Leaves(r, "over")
  /\ outcome' = [outcome EXCEPT ![r] = "ok"]
  /\ dbq' = Tail(dbq)
  /\ rows' = Written(Head(dbq))
  /\ UNCHANGED <<chan, ptr, astray, future, http, boots>>

ServeReply(r) ==
  /\ Serving("reply", r)
  /\ outcome' = [outcome EXCEPT ![r] = IF Exists(Head(dbq).conv) THEN "ok" ELSE "error"]
  /\ Proceeds(r, "mark")
  /\ rows' = Written(Head(dbq))
  /\ UNCHANGED <<chan, ptr, turn, iters, home, future, http, boots>>

(* mark_turn in the finally block, then turn_end.                          *)
ServeMark(r) ==
  /\ Serving("mark", r)
  /\ rows' = Written(Head(dbq))
  /\ Leaves(r, "over")
  /\ dbq' = Tail(dbq)
  /\ UNCHANGED <<chan, ptr, outcome, astray, future, http, boots>>

(* The closure row of a cancelled turn, then turn_end.                     *)
ServeClosing(r) ==
  /\ Serving("closing", r)
  /\ rows' = Written(Head(dbq))
  /\ Leaves(r, "over")
  /\ dbq' = Tail(dbq)
  /\ UNCHANGED <<chan, ptr, outcome, astray, future, http, boots>>

ServeNewChat(r) ==
  /\ Serving("newchat", r)
  /\ Created(AgentOf(r))
  /\ ptr' = [ptr EXCEPT ![AgentOf(r)] = NewId]
  /\ Leaves(r, "over")
  /\ dbq' = Tail(dbq)
  /\ UNCHANGED <<rows, outcome, future, http, boots>>

-----------------------------------------------------------------------------
(* A CancelledError reaches the run at the await it is suspended on.       *)

(* Its request leaves the lock's queue; a statement already handed to the  *)
(* database thread is executed all the same.                               *)
Withdrawn(r) ==
  \/ UNCHANGED durable
  \/ /\ dbq # <<>> /\ Head(dbq).who = r
     /\ rows' = Written(Head(dbq))
     /\ UNCHANGED chan

(* A run awaits one statement at a time.                                   *)
Place(r) == CHOOSE i \in DOMAIN dbq : dbq[i].who = r

Others(r) == IF \E i \in DOMAIN dbq : dbq[i].who = r THEN RemoveAt(dbq, Place(r)) ELSE dbq

Cancelled(r) ==
  /\ \/ (* inside the try block: write the closure row *)
        /\ pc[r] \in {"stream", "tool", "reply"}
        /\ Withdrawn(r)
        /\ pc' = [pc EXCEPT ![r] = "closing"]
        /\ outcome' = [outcome EXCEPT ![r] = "cancelled"]
        /\ dbq' = Append(Others(r), Req("closing", r))
        /\ astray' = (astray \/ Astray(r))
        /\ UNCHANGED <<turn, iters, home>>
     \/ (* before it, or in the finally block: nobody publishes turn_end *)
        /\ pc[r] \in {"next", "user", "mark"}
        /\ Withdrawn(r)
        /\ Leaves(r, "dead")
        /\ dbq' = Others(r)
        /\ UNCHANGED <<outcome, astray>>
     \/ (* in the handler: straight to turn_end *)
        /\ pc[r] = "closing"
        /\ Withdrawn(r)
        /\ Leaves(r, "over")
        /\ dbq' = Others(r)
        /\ UNCHANGED <<outcome, astray>>
     \/ (* in a memory command: the same, from before or after the insert *)
        /\ pc[r] = "newchat"
        /\ \/ UNCHANGED <<chan, astray>>
           \/ Serving("newchat", r) /\ Created(AgentOf(r))
        /\ Leaves(r, "over")
        /\ dbq' = Others(r)
        /\ UNCHANGED <<rows, outcome>>
  /\ UNCHANGED <<ptr, http, boots>>

(* POST /kill: the tracked task, however often it is pressed.              *)
Kill(r) == r \in UiRun /\ Cancelled(r) /\ UNCHANGED future

(* POST /kill, a barge-in or a kill phrase: the pipeline's future, which   *)
(* is done from then on while the run is still closing.                    *)
CancelVoice(r) == r \in future /\ Cancelled(r) /\ future' = {}

(* The end-of-turn sentinel of a cancelled turn reaches the pipeline when  *)
(* it already responds to the next one, and makes it forget that future:   *)
(* the pipeline then takes another request beside the turn it forgot, and  *)
(* nothing keeps the two from drawing the same turn id.                    *)
Forgotten(r) ==
  /\ r \in future /\ Live(r)
  /\ \E q \in VoiceRun : pc[q] = "over" /\ outcome[q] = "cancelled"
  /\ future' = {}
  /\ astray' = TRUE
  /\ UNCHANGED <<durable, ptr, dbq, pc, turn, iters, outcome, home, http, boots>>

-----------------------------------------------------------------------------
(* The HTTP handlers.                                                      *)

HandlerAsks(h, kind, op, c) ==
  /\ hpc[h] = "idle" /\ CallsLeft
  /\ hpc' = [hpc EXCEPT ![h] = op]
  /\ hkind' = [hkind EXCEPT ![h] = kind]
  /\ hconv' = [hconv EXCEPT ![h] = c]
  /\ dbq' = Append(dbq, [op |-> op, who |-> h, conv |-> c])
  /\ UNCHANGED <<durable, ptr, runs, future, boots>>

New(h)       == ~TurnRunning /\ HandlerAsks(h, "new", "create", ptr["ui"])
Resume(h, c) == ~TurnRunning /\ HandlerAsks(h, "resume", "meta", c)
Delete(h, c) == ~(c = ptr["ui"] /\ TurnRunning) /\ HandlerAsks(h, "delete", "meta", c)
Wipe(h)      == HandlerAsks(h, "wipe", "wipe", ptr["ui"])

HandlerProceeds(h, op) ==
  /\ hpc' = [hpc EXCEPT ![h] = op]
  /\ hconv' = [hconv EXCEPT ![h] = IF op = "done" THEN 1 ELSE @]
  /\ hkind' = [hkind EXCEPT ![h] = IF op = "done" THEN "none" ELSE @]
  /\ dbq' = IF op = "done" THEN Tail(dbq)
            ELSE Append(Tail(dbq), [op |-> op, who |-> h, conv |-> hconv[h]])

(* get_conversation_meta: 404, or on; a resume has only the pointer left   *)
(* to set.                                                                 *)
ServeMeta(h) ==
  /\ Serving("meta", h)
  /\ HandlerProceeds(h, IF Exists(hconv[h]) /\ hkind[h] = "delete" THEN "delete" ELSE "done")
  /\ ptr' = IF Exists(hconv[h]) /\ hkind[h] = "resume"
              THEN [ptr EXCEPT !["ui"] = hconv[h]] ELSE ptr
  /\ UNCHANGED <<durable, runs, future, boots>>

(* Mutant: whether it is the live one was looked at before the delete.     *)
ServeDeleteStale(h) ==
  /\ Serving("delete", h)
  /\ rows' = {x \in rows : x.conv # hconv[h]}
  /\ Deleted(hconv[h])
  /\ HandlerProceeds(h, "done")
  /\ UNCHANGED <<ptr, runs, future, boots>>

(* The conversation and its messages go; if it is the live one by now, a   *)
(* fresh one is asked for.                                                 *)
ServeDelete(h) ==
  /\ Serving("delete", h)
  /\ rows' = {x \in rows : x.conv # hconv[h]}
  /\ Deleted(hconv[h])
  /\ HandlerProceeds(h, IF ptr["ui"] = hconv[h] THEN "create" ELSE "done")
  /\ UNCHANGED <<ptr, runs, future, boots>>

(* wipe_all empties the messages; the conversations stay.                  *)
ServeWipe(h) ==
  /\ Serving("wipe", h)
  /\ rows' = {}
  /\ HandlerProceeds(h, "create")
  /\ UNCHANGED <<chan, ptr, runs, future, boots>>

ServeCreate(h) ==
  /\ Serving("create", h)
  /\ Created("ui")
  /\ ptr' = [ptr EXCEPT !["ui"] = NewId]
  /\ HandlerProceeds(h, "done")
  /\ UNCHANGED <<rows, pc, turn, iters, outcome, home, future, boots>>

-----------------------------------------------------------------------------
(* Another process opens the database: its boot fails every turn that has  *)
(* no assistant row, the live ones too.                                    *)
Reconcile ==
  /\ boots < MaxBoots
  /\ boots' = boots + 1
  /\ rows' = Reconciled
  /\ UNCHANGED <<chan, ptr, dbq, runs, future, http>>

Latest(a) == {c \in DOMAIN chan : chan[c] = a}

(* The server dies and is booted again: reconcile, then point each agent   *)
(* at its channel's latest conversation, creating one where there is none. *)
Reboot ==
  /\ boots < MaxBoots
  /\ boots' = boots + 1
  /\ rows' = Reconciled
  /\ LET u     == IF Latest("ui") = {} THEN NewId ELSE Max(Latest("ui"))
         first == With(chan, u, "ui")
         v     == IF Latest("voice") # {} THEN Max(Latest("voice"))
                  ELSE 1 + Max(DOMAIN first)
     IN /\ chan' = With(first, v, "voice")
        /\ ptr' = [a \in Agent |-> IF a = "ui" THEN u ELSE v]
  /\ dbq' = <<>>
  /\ pc' = [r \in Run |-> IF Live(r) THEN "dead" ELSE pc[r]]
  /\ turn' = [r \in Run |-> 0]
  /\ iters' = [r \in Run |-> 0]
  /\ home' = [r \in Run |-> 1]
  /\ future' = {}
  /\ hpc' = [h \in Handler |-> IF hpc[h] = "idle" THEN "idle" ELSE "done"]
  /\ hkind' = [h \in Handler |-> "none"]
  /\ hconv' = [h \in Handler |-> 1]
  /\ UNCHANGED <<outcome, astray>>

-----------------------------------------------------------------------------
RunStep(r) ==
  ServeNext(r) \/ ServeUser(r) \/ CallsTool(r) \/ Answers(r)
  \/ Fails(r) \/ ServeTool(r) \/ ServeReply(r) \/ ServeMark(r) \/ ServeClosing(r)
  \/ ServeNewChat(r)

HandlerStep(h) == ServeMeta(h) \/ ServeDelete(h) \/ ServeWipe(h) \/ ServeCreate(h)

HandlerCall(h) == New(h) \/ Wipe(h) \/ \E c \in DOMAIN chan : Resume(h, c) \/ Delete(h, c)

Next ==
  \/ Reconcile
  \/ Reboot
  \/ \E r \in Run : UiMessage(r) \/ VoiceMessage(r) \/ RunStep(r) \/ Kill(r) \/ CancelVoice(r)
                    \/ Forgotten(r)
  \/ \E h \in Handler : HandlerCall(h) \/ HandlerStep(h)

Spec == Init /\ [][Next]_vars

-----------------------------------------------------------------------------
(* Properties.                                                             *)

SameTurn(x, y) == x.conv = y.conv /\ x.turn = y.turn

(* As long as every turn keeps the conversation it started on, none serves *)
(* both agents and the pipeline loses track of no turn:                    *)

(* A turn is quarantined or kept as a whole: once turn_end is out, a       *)
(* finished turn shows every row, although another process's boot may have *)
(* failed some of them at any moment; of a failed turn no row is left in   *)
(* the context of later ones; and a voice turn that was cancelled shows an *)
(* assistant row beside its request, so that later turns do not take the   *)
(* request for unanswered: nothing cancels the same run twice.             *)
TurnIsAtomic ==
  \A x \in rows : ~astray /\ pc[x.by] = "over" =>
    /\ outcome[x.by] = "ok" => x.status = "ok"
    /\ outcome[x.by] = "error" => x.status = "failed"
    /\ outcome[x.by] = "cancelled" /\ x.by \in VoiceRun => ~Unanswered(x)

(* ... no two turns share a turn id, a cancelled voice turn that is still  *)
(* closing and its successor included.                                     *)
NoSharedTurn ==
  ~astray => \A x, y \in rows : SameTurn(x, y) => x.by = y.by

(* The UI agent never points at a deleted conversation, whatever handlers  *)
(* overlap, except while the delete that removed it waits for its          *)
(* replacement.                                                            *)
UiPointerLive ==
  ~Exists(ptr["ui"]) => \E h \in Handler : hpc[h] = "create"

-----------------------------------------------------------------------------
(* Statements of the source that the code does not keep.                   *)

(* core/agent.py:255 "A completed turn is all-'ok'": nothing that happens  *)
(* later fails a row of a turn that completed.                             *)
CompletedStaysOk ==
  [][\A x \in rows : pc[x.by] = "over" /\ outcome[x.by] = "ok" /\ x.status = "ok"
        => [x EXCEPT !.status = "failed"] \notin rows']_vars
=============================================================================
