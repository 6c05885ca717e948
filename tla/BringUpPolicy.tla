--------------------------- MODULE BringUpPolicy ----------------------------
(***************************************************************************)
(* What a bring-up promises: from what it reads it takes a set of services *)
(* that are due, and sees to one after the other, but to none before       *)
(* everything this one needs has been seen to.  When nothing is due it     *)
(* reports success, or tries again with the goal and what the goal needs,  *)
(* twice at most.  It may fail at any time.                                *)
(***************************************************************************)
EXTENDS Naturals

CONSTANT Name

VARIABLES
  needs,    \* what each service depends on
  goal,     \* the service to be brought up
  due,      \* services still to be seen to
  retries,  \* how often the goal was tried again
  result    \* "none", "working", "ok" or "failed"

vars == <<needs, goal, due, retries, result>>

Working == result = "working"

\* All that n needs, directly or not, has been seen to: a set that is closed
\* under needs says so.
Fit(n) ==
  \E S \in SUBSET Name :
    /\ needs[n] \subseteq S
    /\ \A m \in S : needs[m] \subseteq S
    /\ S \cap due = {}

Init ==
  /\ needs \in [Name -> SUBSET Name] /\ goal \in Name
  /\ due = {} /\ retries = 0 /\ result = "none"

\* Another command, and perhaps another configuration; it may fail at once.
Forget ==
  /\ ~Working
  /\ needs' \in [Name -> SUBSET Name] /\ goal' \in Name
  /\ result' \in {"none", "failed"}
  /\ UNCHANGED <<due, retries>>

Begin ==
  /\ result = "none"
  /\ due' \in SUBSET Name
  /\ retries' = 0 /\ result' = "working"
  /\ UNCHANGED <<needs, goal>>

See(n) ==
  /\ Working
  /\ n \in due /\ Fit(n)
  /\ due' = due \ {n}
  /\ UNCHANGED <<needs, goal, retries, result>>

TryAgain ==
  /\ Working
  /\ due = {} /\ retries < 2
  /\ retries' \in {retries + 1, 2}
  /\ due' \in SUBSET ({goal} \cup needs[goal])
  /\ goal \in due'
  /\ UNCHANGED <<needs, goal, result>>

Done ==
  /\ Working
  /\ due = {}
  /\ retries' = 0 /\ result' = "ok"
  /\ UNCHANGED <<needs, goal, due>>

Fail ==
  /\ result \in {"none", "working"}
  /\ due' = {} /\ retries' = 0 /\ result' = "failed"
  /\ UNCHANGED <<needs, goal>>

Next ==
  \/ Forget \/ Begin \/ TryAgain \/ Done \/ Fail
  \/ \E n \in Name : See(n)

Spec == Init /\ [][Next]_vars
=============================================================================
