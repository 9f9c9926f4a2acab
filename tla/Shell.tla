-------------------------------- MODULE Shell --------------------------------
(* classify_shell of core/safety.py.  A command is its pieces, what the    *)
(* regular expressions find in each, and what they find in the whole: the  *)
(* tables become the names of what they recognize.                         *)
EXTENDS Naturals, Sequences, FiniteSetsExt

CONSTANTS
  MaxPieces,  \* of ;, &&, |, $( ), { } and cmd /c
  MaxMarks    \* features of one piece

ASSUME ShellAssumption == MaxPieces \in Nat /\ MaxMarks \in Nat

(* A piece: delete, write and kill verbs, a protected path, a system       *)
(* process, the patterns of _SEGMENT_DENY, an execution policy and its     *)
(* safe scope, redirections, a shutdown, the read-only first words.  The   *)
(* _SEGMENT_CONFIRM table only words the question.                         *)
Mark == {"delete", "write", "kill", "protected", "system process", "tampering", "policy",
         "own scope", "redirect", "redirect to protected", "shutdown", "read-only"}
Piece == UNION {kSubset(k, Mark) : k \in 0..MaxMarks}
(* The command: encoded or evaluated code, a backtick; the user's words    *)
(* asked for a shutdown.                                                   *)
WholeMark == {"obfuscated", "backtick", "asked for it"}

Class == {"allow", "confirm", "deny"}
Severity(k) == CASE k = "allow" -> 0 [] k = "confirm" -> 1 [] k = "deny" -> 2
Has(p, m) == m \in p
ReadOnly(p) == Has(p, "read-only")

(* _classify_segment: DENY rules first, and a redirection floors at        *)
(* CONFIRM before anything can be read-only.                               *)
DeniedPiece(p, w) ==
  \/ Has(p, "delete") /\ Has(p, "protected")
  \/ Has(p, "write") /\ Has(p, "protected")
  \/ Has(p, "kill") /\ Has(p, "system process")
  \/ Has(p, "tampering")
  \/ Has(p, "policy") /\ ~Has(p, "own scope")
  \/ Has(p, "redirect to protected")
  \/ Has(p, "shutdown") /\ ~Has(w, "asked for it")
ClassOfAllowFirst(p, w) ==
  IF DeniedPiece(p, w) THEN "deny" ELSE IF Has(p, "read-only") THEN "allow" ELSE "confirm"
ClassOf(p, w) ==
  IF DeniedPiece(p, w) THEN "deny"
  ELSE IF p \intersect {"shutdown", "redirect"} # {} \/ ~ReadOnly(p) THEN "confirm"
  ELSE "allow"

(* classify_shell: the strictest so far, piece by piece, up to the first   *)
(* that is denied.                                                         *)
Verdict(s, w) ==
  LET after[i \in 0..Len(s)] ==
        IF i = 0 THEN "allow"
        ELSE IF after[i - 1] = "deny" THEN "deny"
        ELSE LET k == ClassOf(s[i], w) IN
             IF Severity(k) > Severity(after[i - 1]) THEN k ELSE after[i - 1]
  IN IF Has(w, "obfuscated") THEN "deny"
     ELSE IF Has(w, "backtick") /\ after[Len(s)] = "allow" THEN "confirm"
     ELSE after[Len(s)]

VARIABLES pieces, whole, verdict
shellVars == <<pieces, whole, verdict>>
ShellInit == pieces = <<>> /\ whole \in SUBSET WholeMark /\ verdict = "none"
Types(p) == /\ verdict = "none" /\ Len(pieces) < MaxPieces
            /\ pieces' = Append(pieces, p) /\ UNCHANGED <<whole, verdict>>
Classify == /\ verdict = "none" /\ pieces # <<>>
            /\ verdict' = Verdict(pieces, whole) /\ UNCHANGED <<pieces, whole>>
ShellNext == Classify \/ \E p \in Piece : Types(p)
ShellSpec == ShellInit /\ [][ShellNext]_shellVars

(* Properties.                                                             *)

(* Nothing runs unasked but a chain of read-only commands: whichever piece *)
(* they hide in, a redirection, a backtick or a word of the deny tables    *)
(* keeps the command from being allowed, and what is denied alone is       *)
(* denied in any company.                                                  *)
UnaskedIsReadOnly ==
  /\ verdict = "allow" =>
       /\ whole \intersect {"obfuscated", "backtick"} = {}
       /\ \A i \in DOMAIN pieces :
            Has(pieces[i], "read-only") /\ pieces[i] \intersect {"redirect", "tampering", "shutdown"} = {}
  /\ verdict \in {"allow", "confirm"} => ~\E i \in DOMAIN pieces : DeniedPiece(pieces[i], whole)
=============================================================================
