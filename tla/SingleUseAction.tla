-------------------------- MODULE SingleUseAction --------------------------
(***************************************************************************)
(* What the approval gateway promises about a proposed action, without     *)
(* requests, sessions, clocks or a table: it is proposed, then either      *)
(* granted or closed for good; a granted action is spent once, performed   *)
(* at most once after that, and answered at most once with the outcome of  *)
(* the performance.  A crash may cut the sequence short at any point.      *)
(***************************************************************************)
CONSTANT Action

VARIABLES
  fate,       \* [Action -> Fate]
  performed,  \* the actions that were performed
  outcome,    \* [Action -> {"none", "ok", "error"}] how the performance ended
  answer      \* [Action -> {"none", "ok", "error"}] what was recorded

sVars == <<fate, performed, outcome, answer>>

Fate == {"none", "open", "granted", "spent", "closed"}

SInit ==
  /\ fate = [a \in Action |-> "none"]
  /\ performed = {}
  /\ outcome = [a \in Action |-> "none"]
  /\ answer = [a \in Action |-> "none"]

(* Each step of fate is one of these; closing takes any set of open actions. *)
Move(a, from, to) ==
  /\ fate[a] = from
  /\ fate' = [fate EXCEPT ![a] = to]
  /\ UNCHANGED <<performed, outcome, answer>>

Propose(a) == Move(a, "none", "open")
Grant(a)   == Move(a, "open", "granted")
Spend(a)   == Move(a, "granted", "spent")

Close(A) ==
  /\ \A a \in A : fate[a] = "open"
  /\ fate' = [a \in Action |-> IF a \in A THEN "closed" ELSE fate[a]]
  /\ UNCHANGED <<performed, outcome, answer>>

Perform(a) ==
  /\ fate[a] = "spent" /\ a \notin performed
  /\ performed' = performed \cup {a}
  /\ UNCHANGED <<fate, outcome, answer>>

End(a) ==
  /\ a \in performed /\ outcome[a] = "none"
  /\ \E o \in {"ok", "error"} : outcome' = [outcome EXCEPT ![a] = o]
  /\ UNCHANGED <<fate, performed, answer>>

Answer(a) ==
  /\ outcome[a] # "none" /\ answer[a] = "none"
  /\ answer' = [answer EXCEPT ![a] = outcome[a]]
  /\ UNCHANGED <<fate, performed, outcome>>

SNext ==
  \/ \E a \in Action : \/ Propose(a) \/ Grant(a) \/ Spend(a)
                       \/ Perform(a) \/ End(a) \/ Answer(a)
  \/ \E A \in SUBSET Action : Close(A)

SSpec == SInit /\ [][SNext]_sVars
============================================================================
