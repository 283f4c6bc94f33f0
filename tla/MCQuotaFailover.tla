--------------------------- MODULE MCQuotaFailover ---------------------------
(* Instances of QuotaFailover for TLC: two or three accounts, one conversation *)
EXTENDS QuotaFailover

CONSTANTS a1, a2, a3, m1, c1

\* The conversation prefers a1, a2, a3 for the model and a3, a1, a2 without.
MCWeight ==
    [k \in {c1} \X {m1, NoModel} |->
        IF k[2] = m1
        THEN [a \in Account |-> CASE a = a1 -> 3 [] a = a2 -> 2 [] OTHER -> 1]
        ELSE [a \in Account |-> CASE a = a1 -> 2 [] a = a2 -> 1 [] OTHER -> 3]]

Usable(cookie, models) ==
    [present |-> TRUE, enabled |-> TRUE, exhausted |-> FALSE,
     cookie |-> cookie, key |-> 1, models |-> models]
Unused == [present |-> FALSE, enabled |-> FALSE, exhausted |-> FALSE,
           cookie |-> FALSE, key |-> 0, models |-> {}]

\* a1 was imported with a Cookie, the others have an API key alone; a3
\* advertises no model.  In the growing pool an account is still to be added.
FullPool ==
    {[a \in Account |-> CASE a = a1 -> Usable(TRUE, {m1})
                          [] a = a2 -> Usable(FALSE, {m1})
                          [] OTHER -> Usable(FALSE, {})]}
GrowingPool ==
    {[a \in Account |-> IF a = a1 THEN Usable(TRUE, {m1}) ELSE other] :
        other \in {Usable(FALSE, {}), Unused}}
\* Accounts that have an API key and no Cookie.
KeyPool == {[a \in Account |-> Usable(FALSE, {m1})]}

NewCall(m, allowed, adapter, stream) ==
    [conversation |-> c1, model |-> m, allowed |-> allowed,
     adapter |-> adapter, stream |-> stream]

\* One conversation asks natively and through the adapter; the call without a
\* model can use all accounts; a restricted client is turned away.
MCCalls == {NewCall(m1, TRUE, FALSE, FALSE), NewCall(NoModel, TRUE, TRUE, FALSE),
            NewCall(m1, FALSE, FALSE, TRUE)}
OneCall == {NewCall(m1, TRUE, FALSE, FALSE)}

\* Calls under failure: quota shifts, a lost write, a restart, no administrator.
CallBudget == [d \in Disturbance |-> IF d = "admin" THEN 0 ELSE 1]

\* Calls and the monitor, until the last of finitely many disturbances.
RecoveryBudget == [d \in Disturbance |-> IF d = "upstream" THEN 2 ELSE 1]

\* A key is edited while calls are under way.
EditBudget == [d \in Disturbance |-> IF d = "admin" THEN 1 ELSE 0]

\* The mark follows the refusal at once (no await between them): the behaviours
\* where an edit squeezes in are left aside, to see one where none has to.
MarkFollowsRefusal ==
    (\E r \in Request : pc[r] = "mark") => \A e \in Editor : edit[e] = IdleEdit
=============================================================================
