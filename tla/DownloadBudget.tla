--------------------------- MODULE DownloadBudget ---------------------------
(***************************************************************************)
(* What a public link promises about its download count, and nothing else: *)
(* a link is opened with a budget, a download holds one unit of it while   *)
(* it runs, and the unit is either spent for good or handed back.  Held    *)
(* and spent units together never exceed the budget.                       *)
(***************************************************************************)
EXTENDS Naturals

CONSTANT Link

VARIABLES
  budget,    \* the configured download count; 0 until the link is opened
  held,      \* units held by downloads under way
  spent      \* units spent by finished downloads

vars == <<budget, held, spent>>

Init ==
  /\ budget = [l \in Link |-> 0]
  /\ held = [l \in Link |-> 0]
  /\ spent = [l \in Link |-> 0]

\* The new budget is read off budget' itself, so that any number will do.
Open(l) ==
  /\ budget[l] = 0
  /\ budget'[l] \in Nat \ {0}
  /\ budget' = [budget EXCEPT ![l] = budget'[l]]
  /\ UNCHANGED <<held, spent>>

Available(l) == held[l] + spent[l] < budget[l]

Hold(l) ==
  /\ Available(l)
  /\ held' = [held EXCEPT ![l] = @ + 1]
  /\ UNCHANGED <<budget, spent>>

Spend(l) ==
  /\ held[l] > 0
  /\ held' = [held EXCEPT ![l] = @ - 1]
  /\ spent' = [spent EXCEPT ![l] = @ + 1]
  /\ UNCHANGED budget

HandBack(l) ==
  /\ held[l] > 0
  /\ held' = [held EXCEPT ![l] = @ - 1]
  /\ UNCHANGED <<budget, spent>>

SpendAtOnce(l) ==
  /\ Available(l)
  /\ spent' = [spent EXCEPT ![l] = @ + 1]
  /\ UNCHANGED <<budget, held>>

Next ==
  \E l \in Link :
    \/ Open(l)
    \/ Hold(l)
    \/ Spend(l)
    \/ HandBack(l)
    \/ SpendAtOnce(l)

Spec == Init /\ [][Next]_vars
=============================================================================
