-------------------------- MODULE FailoverContract --------------------------
(***************************************************************************)
(* What the gateway promises a client about accounts, with nothing of how  *)
(* it is done: a call is offered a set of accounts that all take part in   *)
(* routing at that moment, moves past each of them at most once, and gives *)
(* up for want of quota only after moving past all of them.  Its outcome   *)
(* is decided once.                                                        *)
(***************************************************************************)
CONSTANTS
    Account,    \* account rows
    Request     \* gateway calls

VARIABLES
    routable,   \* the accounts that take part in routing now
    offered,    \* offered[r]: the accounts call r may be sent to
    passed,     \* passed[r]: the offered accounts that refused call r
    outcome     \* outcome[r]: how call r ended, "none" until then

vars == <<routable, offered, passed, outcome>>

Outcome == {"refused", "served", "passedOn", "failed", "quota", "gone"}

TypeOK ==
    /\ routable \in SUBSET Account
    /\ offered \in [Request -> SUBSET Account]
    /\ passed \in [Request -> SUBSET Account]
    /\ outcome \in [Request -> Outcome \cup {"none"}]

Init ==
    /\ routable \in SUBSET Account
    /\ offered = [r \in Request |-> {}]
    /\ passed = [r \in Request |-> {}]
    /\ outcome = [r \in Request |-> "none"]

\* The account pool changes: accounts are added, edited, marked, restored.
Repool ==
    /\ routable' \in SUBSET Account
    /\ UNCHANGED <<offered, passed, outcome>>

\* A call receives its accounts, all of them routable.
Offer(r) ==
    /\ outcome[r] = "none" /\ offered[r] = {}
    /\ \E S \in SUBSET routable :
          /\ S # {}
          /\ offered' = [offered EXCEPT ![r] = S]
    /\ UNCHANGED <<routable, passed, outcome>>

\* An offered account had no quota for the call.
Pass(r) ==
    /\ outcome[r] = "none"
    /\ \E a \in offered[r] \ passed[r] :
          passed' = [passed EXCEPT ![r] = @ \cup {a}]
    /\ UNCHANGED <<routable, offered, outcome>>

\* The call ends.  An upstream answer needs an account not yet passed; a
\* refusal needs that nothing was offered; quota needs that nothing is left.
Decide(r) ==
    /\ outcome[r] = "none"
    /\ \E o \in Outcome :
          /\ o = "refused" => offered[r] = {}
          /\ o \in {"served", "passedOn", "failed"} => passed[r] # offered[r]
          /\ o = "quota" => offered[r] # {} /\ passed[r] = offered[r]
          /\ outcome' = [outcome EXCEPT ![r] = o]
    /\ UNCHANGED <<routable, offered, passed>>

\* The process dies and takes its undecided calls along.
Abort ==
    /\ \E S \in SUBSET {r \in Request : outcome[r] = "none"} :
          outcome' = [r \in Request |-> IF r \in S THEN "gone" ELSE outcome[r]]
    /\ UNCHANGED <<routable, offered, passed>>

Next ==
    \/ Repool
    \/ Abort
    \/ \E r \in Request : Offer(r) \/ Pass(r) \/ Decide(r)

Spec == Init /\ [][Next]_vars
=============================================================================
