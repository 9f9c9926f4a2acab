------------------------------ MODULE MCServer ------------------------------
(* What the server's handlers work on beside the agents, for TLC: the rows *)
(* and the conversations of turns; how one asset is got; the setup as a    *)
(* whole.  They share no state: a behaviour is about one of them.          *)
EXTENDS Turns, Fetch, Setup

VARIABLE about
serverVars == <<vars, fetchVars, setupVars, about>>

ServerInit ==
  /\ Init /\ FetchInit /\ SetupInit /\ about \in {"turns", "fetch", "setup"}
  /\ about # "setup" => has = {} /\ ~exported /\ owned
  /\ exported => has # {}
Conversing == about = "turns" /\ Next /\ UNCHANGED <<fetchVars, setupVars, about>>
Fetching   == about = "fetch" /\ FetchNext /\ UNCHANGED <<vars, setupVars, about>>
SettingUp  == about = "setup" /\ SetupNext /\ UNCHANGED <<vars, fetchVars, about>>
ServerSpec == ServerInit /\ [][Conversing \/ Fetching \/ SettingUp]_serverVars

(* A mode changed under a running walk, and a handler cut in two, are left *)
(* out.                                                                    *)
Uncut == ~torn

(* Runs of one agent that have not begun are interchangeable, and so are   *)
(* HTTP calls.                                                             *)
Alike == Permutations(VoiceRun) \union Permutations(Handler) \union Permutations(Request)
=============================================================================
