------------------------ MODULE QuotaFailover_proofs ------------------------
(***************************************************************************)
(* The safety properties of QuotaFailover, proved for any accounts, calls, *)
(* tasks, editors and bounds.                                              *)
(***************************************************************************)
EXTENDS QuotaFailover, FiniteSetTheorems, TLAPS

-----------------------------------------------------------------------------
(* Sequences: log rows and candidate lists. *)

\* A log row is added at the end, and every earlier row stays.
LEMMA LogGrows ==
    ASSUME logs \in [Request -> Seq(LogRow)], NEW r \in Request,
           NEW route \in Account \cup {NoRoute}, NEW kind \in LogKind,
           LogAs(r, route, kind)
    PROVE  /\ logs' \in [Request -> Seq(LogRow)]
           /\ logs'[r] = Append(logs[r], [route |-> route, kind |-> kind])
           /\ Len(logs'[r]) = Len(logs[r]) + 1
           /\ \A i \in 1..Len(logs[r]) : logs'[r][i] = logs[r][i]
           /\ logs'[r][Len(logs'[r])] = [route |-> route, kind |-> kind]
           /\ \A q \in Request \ {r} : logs'[q] = logs[q]
  <1> DEFINE row == [route |-> route, kind |-> kind]
  <1>1. row \in LogRow
    BY DEF LogRow
  <1>2. logs[r] \in Seq(LogRow)
    OBVIOUS
  <1>3. logs' = [logs EXCEPT ![r] = Append(logs[r], row)]
    BY DEF LogAs
  <1> HIDE DEF row
  <1>4. Append(logs[r], row) \in Seq(LogRow)
    BY <1>1, <1>2
  <1>5. logs'[r] = Append(logs[r], row) /\ \A q \in Request \ {r} : logs'[q] = logs[q]
    BY <1>3
  <1>6. /\ Len(Append(logs[r], row)) = Len(logs[r]) + 1
        /\ \A i \in 1..Len(logs[r]) : Append(logs[r], row)[i] = logs[r][i]
        /\ Append(logs[r], row)[Len(logs[r]) + 1] = row
    BY <1>1, <1>2
  <1>7. QED
    BY <1>3, <1>4, <1>5, <1>6 DEF row

\* A list of candidates that SelectCandidates chooses is a nonempty sequence.
LEMMA SnapshotIsSequence ==
    ASSUME AccountAssumption, NEW S \in SUBSET Account, S # {},
           NEW s \in [1..Cardinality(S) -> Candidate]
    PROVE  s \in Seq(Candidate) /\ s # <<>> /\ Len(s) >= 1
  <1>1. IsFiniteSet(S)
    BY FS_Subset DEF AccountAssumption
  <1>2. Cardinality(S) \in Nat /\ Cardinality(S) # 0
    BY <1>1, FS_CardinalityType, FS_EmptySet
  <1>3. QED
    BY <1>2

-----------------------------------------------------------------------------
(* Type correctness. *)

\* The candidate a handler of the loop is at is one of its candidates.
LEMMA CurrentIsCandidate ==
    ASSUME TypeOK, NEW r \in Request, pc[r] \in Looping
    PROVE  /\ pos[r] \in 1..Len(cand[r])
           /\ Current(r) \in Candidate /\ Current(r).id \in Account
  <1>1. cand[r] \in Seq(Candidate) /\ pos[r] \in Nat \ {0} /\ InPlace(r)
    BY DEF TypeOK
  <1>2. pos[r] \in 1..Len(cand[r])
    BY <1>1 DEF InPlace
  <1>3. Current(r) \in Candidate
    BY <1>1, <1>2 DEF Current
  <1>4. QED
    BY <1>2, <1>3 DEF Candidate

\* A step that logs one row and returns keeps the types.
LEMMA LogAndReturn ==
    ASSUME TypeOK, NEW r \in Request,
           NEW route \in Account \cup {NoRoute}, NEW kind \in LogKind,
           NEW o \in Outcome \ {"none"},
           LogAs(r, route, kind), Return(r, o), Reading, UNCHANGED <<cand, pos>>
    PROVE  TypeOK'
  <1>1. logs' \in [Request -> Seq(LogRow)]
    BY LogGrows DEF TypeOK
  <1>2. pc' \in [Request -> PC] /\ outcome' \in [Request -> Outcome]
    BY DEF TypeOK, Return, Goto, PC, Outcome
  <1>3. \A q \in Request : InPlace(q)'
    BY DEF TypeOK, Return, Goto, InPlace, Looping
  <1>4. QED
    BY <1>1, <1>2, <1>3 DEF TypeOK, Reading, HandlerStep

\* So does a step that returns without a row.
LEMMA ReturnOnly ==
    ASSUME TypeOK, NEW r \in Request, NEW o \in Outcome \ {"none"},
           Return(r, o), Reading, UNCHANGED <<logs, cand, pos>>
    PROVE  TypeOK'
  <1>1. pc' \in [Request -> PC] /\ outcome' \in [Request -> Outcome]
    BY DEF TypeOK, Return, Goto, PC, Outcome
  <1>2. \A q \in Request : InPlace(q)'
    BY DEF TypeOK, Return, Goto, InPlace, Looping
  <1>3. QED
    BY <1>1, <1>2 DEF TypeOK, Reading, HandlerStep

\* And a step from one place of the handler to the next.
LEMMA GotoOnly ==
    ASSUME TypeOK, NEW r \in Request, NEW p \in PC,
           \/ pc[r] \in Looping /\ p \in Looping
           \/ pc[r] \in {"new", "access"} /\ p \in {"access", "route"},
           Goto(r, p), Reading, UNCHANGED <<logs, cand, pos, outcome>>
    PROVE  TypeOK'
  <1>1. pc' \in [Request -> PC]
    BY DEF TypeOK, Goto
  <1>2. \A q \in Request : InPlace(q)'
    BY DEF TypeOK, Goto, InPlace, Looping
  <1>3. QED
    BY <1>1, <1>2 DEF TypeOK, Reading, HandlerStep

\* A row stays a row when its mark, its switch, its key or its models change.
LEMMA RowUpdates ==
    ASSUME NEW row \in Row, NEW b \in BOOLEAN, NEW k \in Nat, NEW S \in SUBSET Model
    PROVE  /\ row.present \in BOOLEAN /\ row.enabled \in BOOLEAN /\ row.key \in Nat
           /\ [row EXCEPT !.exhausted = b] \in Row
           /\ [row EXCEPT !.enabled = b] \in Row
           /\ [row EXCEPT !.enabled = b, !.key = k] \in Row
           /\ [row EXCEPT !.models = S] \in Row
  BY DEF Row

LEMMA SelectKeepsTypes ==
    ASSUME TypeOK, NEW r \in Request, SelectCandidates(r)
    PROVE  TypeOK'
  <1> DEFINE S == Healthy(accounts, Matching(accounts, call[r].model))
             snapshot == {[id |-> a, key |-> accounts[a].key] : a \in S}
  <1>1. CASE S = {}
    BY <1>1, LogAndReturn DEF SelectCandidates, LogKind, Outcome
  <1>2. CASE S # {}
    <2>1. S \in SUBSET Account /\ snapshot \subseteq Candidate
      BY DEF Healthy, Matching, TypeOK, Row, Candidate
    <2>2. PICK s \in [1..Cardinality(S) -> snapshot] : cand' = [cand EXCEPT ![r] = s]
      BY <1>2 DEF SelectCandidates
    <2>3. s \in [1..Cardinality(S) -> Candidate]
      BY <2>1
    <2> HIDE DEF S, snapshot
    <2>4. s \in Seq(Candidate) /\ s # <<>> /\ Len(s) >= 1
      BY <1>2, <2>1, <2>3, AccountAssumption, SnapshotIsSequence
    <2>5. cand' \in [Request -> Seq(Candidate)]
      BY <2>2, <2>4 DEF TypeOK
    <2>6. /\ pc[r] = "route" /\ Goto(r, "try")
          /\ UNCHANGED <<logs, outcome, pos>> /\ Reading
      BY <1>2 DEF SelectCandidates, S
    <2>7. pos[r] = 1
      BY <2>6 DEF TypeOK, InPlace
    <2>8. \A q \in Request : InPlace(q)'
      BY <2>2, <2>4, <2>6, <2>7 DEF TypeOK, Goto, InPlace, Looping
    <2>9. QED
      BY <2>5, <2>6, <2>8 DEF TypeOK, Goto, PC, Reading, HandlerStep
  <1>3. QED
    BY <1>1, <1>2

LEMMA HandlerKeepsTypes ==
    ASSUME TypeOK, NEW r \in Request, Handle(r)
    PROVE  TypeOK'
  <1>0. pc[r] \in {"try", "wait", "mark", "switch"} => Current(r).id \in Account
    BY CurrentIsCandidate DEF Looping
  <1>1. CASE RejectCredential(r)
    BY <1>1, LogAndReturn DEF RejectCredential, LogKind, Outcome
  <1>2. CASE Authenticate(r)
    BY <1>2, GotoOnly DEF Authenticate, PC
  <1>3. CASE ValidateModelAccess(r)
    BY <1>3, LogAndReturn, GotoOnly DEF ValidateModelAccess, LogKind, Outcome, PC
  <1>4. CASE SelectCandidates(r)
    BY <1>4, SelectKeepsTypes
  <1>5. CASE FailLocally(r) \/ Unreachable(r) \/ LoseFailure(r)
    BY <1>0, <1>5, LogAndReturn DEF FailLocally, Unreachable, LoseFailure, LogKind, Outcome
  <1>6. CASE FailUnlogged(r) \/ Disconnect(r)
    BY <1>6, ReturnOnly DEF FailUnlogged, Disconnect, Outcome
  <1>7. CASE Send(r) \/ RefuseForQuota(r)
    BY <1>7, GotoOnly DEF Send, RefuseForQuota, PC, Looping
  <1>8. CASE Serve(r) \/ PassOn(r)
    BY <1>0, <1>8, LogAndReturn DEF Serve, PassOn, LogKind, Outcome
  <1>9. CASE LoseReply(r)
    BY <1>0, <1>9, LogAndReturn, ReturnOnly DEF LoseReply, LogKind, Outcome
  <1>10. CASE MarkExhausted(r)
    <2>1. Current(r).id \in Account /\ pc[r] = "mark"
      BY <1>0, <1>10 DEF MarkExhausted
    <2>2. accounts' \in [Account -> Row]
      <3>1. accounts \in [Account -> Row] /\ accounts[Current(r).id] \in Row
        BY <2>1 DEF TypeOK
      <3>2. accounts[Current(r).id].present \in BOOLEAN
        BY <3>1, RowUpdates
      <3>3. [accounts[Current(r).id] EXCEPT !.exhausted = accounts[Current(r).id].present] \in Row
        BY <3>1, <3>2, RowUpdates
      <3>4. QED
        BY <1>10, <3>1, <3>3 DEF MarkExhausted
    <2>3. budget' \in [Disturbance -> Nat]
      BY <1>10 DEF MarkExhausted, TypeOK, Disturbance
    <2>4. pc' \in [Request -> PC] /\ \A q \in Request : InPlace(q)'
      BY <1>10 DEF MarkExhausted, TypeOK, Goto, PC, InPlace, Looping
    <2>5. QED
      BY <1>10, <2>2, <2>3, <2>4 DEF MarkExhausted, TypeOK, HandlerStep
  <1>11. CASE LogSwitch(r)
    <2>1. Current(r).id \in Account /\ pos[r] \in 1..Len(cand[r]) /\ pc[r] = "switch"
      BY <1>0, <1>11, CurrentIsCandidate DEF LogSwitch, Looping
    <2>2. logs' \in [Request -> Seq(LogRow)]
      BY <1>11, <2>1, LogGrows DEF LogSwitch, LogKind, TypeOK
    <2>3. pc' \in [Request -> PC] /\ pos' \in [Request -> Nat \ {0}]
      BY <1>11 DEF LogSwitch, TypeOK, Goto, PC
    <2>4. cand[r] \in Seq(Candidate) /\ cand[r] # <<>>
      BY <2>1 DEF TypeOK
    <2>5. \A q \in Request : InPlace(q)'
      BY <1>11, <2>1, <2>4 DEF LogSwitch, TypeOK, Goto, InPlace, Looping
    <2>6. QED
      BY <1>11, <2>2, <2>3, <2>5 DEF LogSwitch, TypeOK, Reading, HandlerStep
  <1>12. CASE GiveUp(r)
    <2>1. cand[r] \in Seq(Candidate) /\ cand[r] # <<>>
      BY <1>12 DEF GiveUp, TypeOK, InPlace
    <2>2. cand[r][Len(cand[r])] \in Candidate
      BY <2>1
    <2>3. QED
      BY <1>12, <2>2, LogAndReturn DEF GiveUp, LogKind, Outcome, Candidate
  <1>13. QED
    BY <1>1, <1>2, <1>3, <1>4, <1>5, <1>6, <1>7, <1>8, <1>9, <1>10, <1>11, <1>12
       DEF Handle, Progress, Answer

\* Steps of the surroundings leave the handlers as they are.
LEMMA HandlersUntouched ==
    ASSUME TypeOK, UNCHANGED reqVars
    PROVE  /\ logs' \in [Request -> Seq(LogRow)] /\ pc' \in [Request -> PC]
           /\ call' \in [Request -> Call] /\ cand' \in [Request -> Seq(Candidate)]
           /\ pos' \in [Request -> Nat \ {0}] /\ outcome' \in [Request -> Outcome]
           /\ \A r \in Request : InPlace(r)'
  BY DEF TypeOK, reqVars, InPlace

LEMMA SpendKeepsTypes ==
    ASSUME TypeOK, NEW d \in Disturbance, Spend(d)
    PROVE  budget' \in [Disturbance -> Nat]
  BY DEF TypeOK, Spend

LEMMA RefreshKeepsTypes ==
    ASSUME TypeOK, Refresh
    PROVE  TypeOK'
  <1>1. CASE MonitorTick
    BY <1>1, HandlersUntouched DEF MonitorTick, TypeOK, envVars
  <1>2. CASE MonitorNext
    <2>1. PICK a \in Account : BeginQuery(Monitor, a) /\ sweep' = sweep \ {a}
      BY <1>2 DEF MonitorNext, TypeOK
    <2>2. task' \in [Task -> TaskState] /\ sweep' \in SUBSET Account
      BY <2>1, TaskAssumption DEF BeginQuery, TypeOK, TaskState
    <2>3. QED
      BY <1>2, <2>2, HandlersUntouched DEF MonitorNext, TypeOK, envVars
  <1>3. ASSUME NEW t \in Task, QueryUsage(t)
        PROVE  TypeOK'
    <2>1. task' \in [Task -> TaskState]
      BY <1>3 DEF QueryUsage, BeginQuery, TypeOK, TaskState
    <2>2. QED
      BY <1>3, <2>1, HandlersUntouched, SpendKeepsTypes DEF QueryUsage, TypeOK, Disturbance
  <1>4. ASSUME NEW t \in Task, QueryFails(t)
        PROVE  TypeOK'
    <2>1. task' \in [Task -> TaskState]
      BY <1>4 DEF QueryFails, TypeOK, TaskState, IdleTask
    <2>2. QED
      BY <1>4, <2>1, HandlersUntouched DEF QueryFails, TypeOK, envVars
  <1>5. ASSUME NEW t \in Task, ReportQuota(t)
        PROVE  TypeOK'
    <2>1. task' \in [Task -> TaskState]
      <3>1. PICK known \in BOOLEAN :
               task' = [task EXCEPT ![t].pc = "apply", ![t].answer =
                     IF ~known THEN "unknown"
                     ELSE IF task[t].id \in capacity THEN "available" ELSE "spent"]
        BY <1>5 DEF ReportQuota
      <3> DEFINE answer == IF ~known THEN "unknown"
                           ELSE IF task[t].id \in capacity THEN "available" ELSE "spent"
      <3>2. answer \in {"none", "available", "spent", "unknown"}
        OBVIOUS
      <3>3. task' = [task EXCEPT ![t] = [task[t] EXCEPT !.pc = "apply", !.answer = answer]]
        BY <3>1
      <3> HIDE DEF answer
      <3>4. [task[t] EXCEPT !.pc = "apply", !.answer = answer] \in TaskState
        BY <3>2 DEF TypeOK, TaskState
      <3>5. QED
        BY <3>3, <3>4 DEF TypeOK
    <2>2. QED
      BY <1>5, <2>1, HandlersUntouched DEF ReportQuota, TypeOK, envVars
  <1>6. ASSUME NEW t \in Task, ApplyUsage(t)
        PROVE  TypeOK'
    <2>1. task' \in [Task -> TaskState]
      BY <1>6 DEF ApplyUsage, TypeOK, TaskState, IdleTask
    <2>2. accounts' \in [Account -> Row]
      <3>1. CASE task[t].answer = "unknown" \/ task[t].id \notin Account
        BY <1>6, <3>1 DEF ApplyUsage, TypeOK
      <3>2. CASE task[t].answer # "unknown" /\ task[t].id \in Account
        <4> DEFINE row == accounts[task[t].id]
                   b == row.present /\ task[t].answer = "spent"
        <4>1. accounts' = [accounts EXCEPT ![task[t].id] = [row EXCEPT !.exhausted = b]]
          BY <1>6, <3>2 DEF ApplyUsage
        <4>2. row \in Row /\ b \in BOOLEAN
          BY <3>2 DEF TypeOK
        <4>3. [row EXCEPT !.exhausted = b] \in Row
          BY <4>2, RowUpdates
        <4>4. QED
          BY <4>1, <4>3 DEF TypeOK
      <3>3. QED
        BY <3>1, <3>2
    <2>3. QED
      BY <1>6, <2>1, <2>2, HandlersUntouched DEF ApplyUsage, TypeOK, envVars
  <1>7. QED
    BY <1>1, <1>2, <1>3, <1>4, <1>5, <1>6 DEF Refresh

LEMMA UpdateKeepsTypes ==
    ASSUME TypeOK, NEW e \in Editor, Update(e)
    PROVE  TypeOK'
  <1>1. ASSUME NEW a \in Account, NEW replace \in BOOLEAN, UpdateRead(e, a, replace)
        PROVE  TypeOK'
    <2>1. accounts[a].enabled \in BOOLEAN /\ accounts[a].key \in Nat
      BY RowUpdates DEF TypeOK
    <2>2. edit' \in [Editor -> EditState]
      BY <1>1, <2>1 DEF UpdateRead, TypeOK, EditState
    <2>3. QED
      BY <1>1, <2>2, HandlersUntouched, SpendKeepsTypes
         DEF UpdateRead, TypeOK, taskVars, Disturbance
  <1>2. CASE UpdateWrite(e)
    <2> DEFINE a == edit[e].id
               k == IF edit[e].replace THEN issued + 1 ELSE edit[e].key
               new == [accounts[a] EXCEPT !.enabled = edit[e].enabled, !.key = k]
    <2>1. edit[e].enabled \in BOOLEAN /\ k \in Nat /\ issued' \in Nat
      BY <1>2 DEF UpdateWrite, NewKey, TypeOK, EditState
    <2>2. edit' \in [Editor -> EditState]
      <3>1. IdleEdit \in EditState /\ [edit[e] EXCEPT !.pc = "clear"] \in EditState
        BY DEF TypeOK, EditState, IdleEdit
      <3>2. \/ edit' = [edit EXCEPT ![e] = IdleEdit]
            \/ edit' = [edit EXCEPT ![e] = [edit[e] EXCEPT !.pc = "clear"]]
        BY <1>2 DEF UpdateWrite
      <3>3. QED
        BY <3>1, <3>2 DEF TypeOK
    <2>3. accounts' = accounts \/ accounts' = [accounts EXCEPT ![a] = new]
      BY <1>2 DEF UpdateWrite
    <2>4. accounts' \in [Account -> Row]
      <3>1. CASE a \in Account
        <4>1. new \in Row
          BY <2>1, <3>1, RowUpdates DEF TypeOK
        <4>2. QED
          BY <2>3, <4>1 DEF TypeOK
      <3>2. CASE a \notin Account
        BY <2>3, <3>2 DEF TypeOK
      <3>3. QED
        BY <3>1, <3>2
    <2>5. QED
      BY <1>2, <2>1, <2>2, <2>4, HandlersUntouched DEF UpdateWrite, TypeOK, taskVars, envVars
  <1>3. CASE UpdateClear(e)
    <2>1. edit' \in [Editor -> EditState]
      BY <1>3 DEF UpdateClear, TypeOK, EditState, IdleEdit
    <2>2. accounts' \in [Account -> Row]
      BY <1>3, RowUpdates DEF UpdateClear, TypeOK
    <2>3. QED
      BY <1>3, <2>1, <2>2, HandlersUntouched DEF UpdateClear, TypeOK, taskVars, envVars
  <1>4. CASE UpdateFails(e)
    BY <1>4, HandlersUntouched
       DEF UpdateFails, TypeOK, EditState, IdleEdit, taskVars, envVars
  <1>5. QED
    BY <1>1, <1>2, <1>3, <1>4 DEF Update

LEMMA ManageKeepsTypes ==
    ASSUME TypeOK, ManageAccount
    PROVE  TypeOK'
  <1>1. accounts' \in [Account -> Row] /\ issued' \in Nat
    <2>1. ASSUME NEW a \in Account, NEW cookie \in BOOLEAN, NEW on \in BOOLEAN,
                 Create(a, cookie, on)
          PROVE  accounts' \in [Account -> Row] /\ issued' \in Nat
      BY <2>1 DEF Create, NewKey, TypeOK, Row
    <2>2. ASSUME NEW a \in Account, Delete(a)
          PROVE  accounts' \in [Account -> Row] /\ issued' \in Nat
      <3>1. accounts[a].key \in Nat
        BY RowUpdates DEF TypeOK
      <3>2. QED
        BY <2>2, <3>1 DEF Delete, TypeOK, Row
    <2>3. ASSUME NEW a \in Account, NEW on \in BOOLEAN, SetKeyEnabled(a, on) \/ ImportOver(a, on)
          PROVE  accounts' \in [Account -> Row] /\ issued' \in Nat
      <3>1. issued + 1 \in Nat /\ accounts[a] \in Row
        BY DEF TypeOK
      <3>2. /\ [accounts[a] EXCEPT !.enabled = on] \in Row
            /\ [accounts[a] EXCEPT !.enabled = on, !.key = issued + 1] \in Row
        BY <3>1, RowUpdates
      <3>3. \/ accounts' = [accounts EXCEPT ![a] = [accounts[a] EXCEPT !.enabled = on]]
            \/ accounts' = [accounts EXCEPT ![a] =
                              [accounts[a] EXCEPT !.enabled = on, !.key = issued + 1]]
        BY <2>3 DEF SetKeyEnabled, ImportOver
      <3>4. issued' = issued \/ issued' = issued + 1
        BY <2>3 DEF SetKeyEnabled, ImportOver, NewKey
      <3>5. QED
        BY <3>1, <3>2, <3>3, <3>4 DEF TypeOK
    <2>4. ASSUME NEW a \in Account, NEW S \in SUBSET Model, SetModelCache(a, S)
          PROVE  accounts' \in [Account -> Row] /\ issued' \in Nat
      BY <2>4, RowUpdates DEF SetModelCache, TypeOK
    <2>5. QED
      BY <2>1, <2>2, <2>3, <2>4 DEF ManageAccount
  <1>2. QED
    BY <1>1, HandlersUntouched, SpendKeepsTypes DEF ManageAccount, TypeOK, taskVars, Disturbance

\* Every variable keeps its type, and the failover loop never looks beyond its
\* candidates (routes/proxy.rs:123-319).
THEOREM TypeCorrect == Spec => []TypeOK
  <1>1. Init => TypeOK
    BY PoolAssumption, BudgetAssumption
       DEF Init, TypeOK, InPlace, Looping, PC, Outcome, TaskState, EditState, IdleTask, IdleEdit
  <1>2. TypeOK /\ [Next]_vars => TypeOK'
    <2> SUFFICES ASSUME TypeOK, [Next]_vars
                 PROVE  TypeOK'
      OBVIOUS
    <2>1. ASSUME NEW r \in Request, Handle(r)
          PROVE  TypeOK'
      BY <2>1, HandlerKeepsTypes
    <2>2. CASE Refresh
      BY <2>2, RefreshKeepsTypes
    <2>3. ASSUME NEW e \in Editor, Update(e)
          PROVE  TypeOK'
      BY <2>3, UpdateKeepsTypes
    <2>4. CASE ManageAccount
      BY <2>4, ManageKeepsTypes
    <2>5. ASSUME NEW m \in Model, SetModelEnabled(m)
          PROVE  TypeOK'
      BY <2>5, HandlersUntouched, SpendKeepsTypes
         DEF SetModelEnabled, TypeOK, taskVars, Disturbance
    <2>6. CASE Restart
      <3>1. pc' \in [Request -> PC] /\ outcome' \in [Request -> Outcome]
        BY <2>6 DEF Restart, TypeOK, PC, Outcome
      <3>2. \A r \in Request : InPlace(r)'
        BY <2>6 DEF Restart, TypeOK, InPlace, InFlight, Looping
      <3>3. /\ task' \in [Task -> TaskState] /\ edit' \in [Editor -> EditState]
            /\ sweep' \in SUBSET Account
        BY <2>6 DEF Restart, TaskState, EditState, IdleTask, IdleEdit
      <3>4. QED
        BY <2>6, <3>1, <3>2, <3>3, SpendKeepsTypes DEF Restart, TypeOK, Disturbance
    <2>7. ASSUME NEW a \in Account, ShiftQuota(a)
          PROVE  TypeOK'
      BY <2>7, HandlersUntouched, SpendKeepsTypes DEF ShiftQuota, TypeOK, taskVars, Disturbance
    <2>8. CASE UNCHANGED vars
      BY <2>8, HandlersUntouched DEF vars, TypeOK, reqVars
    <2>9. QED
      BY <2>1, <2>2, <2>3, <2>4, <2>5, <2>6, <2>7, <2>8 DEF Next
  <1>3. QED
    BY <1>1, <1>2, PTL DEF Spec

-----------------------------------------------------------------------------
(* The log tells what the calls did. *)

\* A call whose own variables do not change keeps what is said of it.
LEMMA LogFrame ==
    ASSUME NEW q \in Request, LoggedInOrder(q), AnswerLogged(q),
           logs'[q] = logs[q], cand'[q] = cand[q], pos'[q] = pos[q],
           outcome'[q] = outcome[q]
    PROVE  LoggedInOrder(q)' /\ AnswerLogged(q)'
  BY DEF LoggedInOrder, AnswerLogged, Closing, Passed, Current

\* A handler's step is about its own call.
LEMMA OthersUntouched ==
    ASSUME TypeOK, NEW r \in Request, Handle(r), NEW q \in Request, q # r
    PROVE  /\ logs'[q] = logs[q] /\ cand'[q] = cand[q] /\ pos'[q] = pos[q]
           /\ outcome'[q] = outcome[q] /\ pc'[q] = pc[q]
  <1>1. CASE RejectCredential(r) \/ Authenticate(r) \/ ValidateModelAccess(r)
    BY <1>1 DEF TypeOK, RejectCredential, Authenticate, ValidateModelAccess, LogAs, Goto, Return
  <1>2. CASE SelectCandidates(r)
    BY <1>2 DEF TypeOK, SelectCandidates, LogAs, Goto, Return
  <1>3. CASE FailLocally(r) \/ FailUnlogged(r) \/ Send(r) \/ Disconnect(r)
    BY <1>3 DEF TypeOK, FailLocally, FailUnlogged, Send, Disconnect, LogAs, Goto, Return
  <1>4. CASE Answer(r)
    BY <1>4 DEF TypeOK, Answer, Unreachable, Serve, LoseReply, PassOn, LoseFailure,
                RefuseForQuota, LogAs, Goto, Return
  <1>5. CASE MarkExhausted(r) \/ LogSwitch(r) \/ GiveUp(r)
    BY <1>5 DEF TypeOK, MarkExhausted, LogSwitch, GiveUp, LogAs, Goto, Return
  <1>6. QED
    BY <1>1, <1>2, <1>3, <1>4, <1>5 DEF Handle, Progress

\* A call that logs one row and returns: the row is the first after its refusals.
LEMMA ClosingRow ==
    ASSUME TypeOK, NEW r \in Request, LoggedInOrder(r), pc[r] # "done",
           NEW route \in Account \cup {NoRoute}, NEW kind \in LogKind,
           NEW o \in Outcome \ {"none", "gone"},
           LogAs(r, route, kind), Return(r, o), UNCHANGED <<cand, pos>>
    PROVE  /\ LoggedInOrder(r)'
           /\ Len(logs'[r]) = Passed(r)' + 1
           /\ Closing(r)' = [route |-> route, kind |-> kind]
           /\ outcome'[r] = o
  <1>1. outcome[r] = "none" /\ outcome'[r] = o
    BY DEF TypeOK, InPlace, Return
  <1>2. Len(logs[r]) = Passed(r) /\ Passed(r)' = Passed(r) /\ Passed(r) \in Nat
    BY <1>1 DEF LoggedInOrder, Passed, TypeOK
  <1>3. /\ Len(logs'[r]) = Len(logs[r]) + 1
        /\ \A i \in 1..Len(logs[r]) : logs'[r][i] = logs[r][i]
        /\ logs'[r][Len(logs'[r])] = [route |-> route, kind |-> kind]
    BY LogGrows DEF TypeOK
  <1>4. LoggedInOrder(r)'
    <2>1. /\ Len(logs'[r]) >= Passed(r)' /\ outcome'[r] \notin {"none", "gone"}
          /\ Passed(r)' = Passed(r) /\ cand' = cand
      BY <1>1, <1>2, <1>3
    <2>2. \A i \in 1..Passed(r) :
             logs'[r][i] = [route |-> cand[r][i].id, kind |-> "switched"]
      BY <1>2, <1>3 DEF LoggedInOrder
    <2>3. QED
      BY <2>1, <2>2 DEF LoggedInOrder
  <1>5. QED
    BY <1>1, <1>2, <1>3, <1>4 DEF Closing

\* A call that returns without a row, or goes on without one.
LEMMA NoRow ==
    ASSUME TypeOK, NEW r \in Request, LoggedInOrder(r), AnswerLogged(r), pc[r] # "done",
           \/ outcome' = outcome
           \/ Return(r, "failed") \/ Return(r, "gone"),
           UNCHANGED <<logs, cand, pos>>
    PROVE  LoggedInOrder(r)' /\ AnswerLogged(r)'
  <1>1. outcome[r] = "none" /\ outcome'[r] \in {"none", "failed", "gone"}
    BY DEF TypeOK, InPlace, Return
  <1>2. QED
    BY <1>1 DEF LoggedInOrder, AnswerLogged, Passed

LEMMA HandlerKeepsLog ==
    ASSUME TypeOK, NEW r \in Request, Handle(r), LoggedInOrder(r), AnswerLogged(r)
    PROVE  LoggedInOrder(r)' /\ AnswerLogged(r)'
  <1>0. pc[r] \in {"try", "wait", "mark", "switch"} =>
           Current(r).id \in Account /\ pos[r] \in 1..Len(cand[r])
    BY CurrentIsCandidate DEF Looping
  <1>1. CASE RejectCredential(r)
    <2>1. cand'[r] = <<>> /\ Closing(r)'.route = NoRoute /\ outcome'[r] = "refused"
          /\ LoggedInOrder(r)' /\ Len(logs'[r]) = Passed(r)' + 1
      BY <1>1, ClosingRow DEF RejectCredential, LogKind, Outcome, TypeOK, InPlace
    <2>2. QED
      BY <2>1 DEF AnswerLogged
  <1>2. CASE Authenticate(r) \/ Send(r) \/ RefuseForQuota(r) \/ MarkExhausted(r)
    BY <1>2, NoRow DEF Authenticate, Send, RefuseForQuota, MarkExhausted
  <1>3. CASE ValidateModelAccess(r)
    <2>1. CASE Goto(r, "route") /\ UNCHANGED <<logs, outcome>>
      BY <1>3, <2>1, NoRow DEF ValidateModelAccess
    <2>2. CASE LogAs(r, NoRoute, "denied") /\ Return(r, "refused")
      <3>1. cand'[r] = <<>> /\ Closing(r)'.route = NoRoute /\ outcome'[r] = "refused"
            /\ LoggedInOrder(r)' /\ Len(logs'[r]) = Passed(r)' + 1
        BY <1>3, <2>2, ClosingRow DEF ValidateModelAccess, LogKind, Outcome, TypeOK, InPlace
      <3>2. QED
        BY <3>1 DEF AnswerLogged
    <2>3. QED
      BY <1>3, <2>1, <2>2 DEF ValidateModelAccess
  <1>4. CASE SelectCandidates(r)
    <2>0. pc[r] = "route" /\ cand[r] = <<>> /\ pos[r] = 1 /\ outcome[r] = "none" /\ pos' = pos
      BY <1>4 DEF SelectCandidates, TypeOK, InPlace
    <2>1. CASE LogAs(r, NoRoute, "unrouted") /\ Return(r, "refused") /\ UNCHANGED cand
      <3>1. cand'[r] = <<>> /\ Closing(r)'.route = NoRoute /\ outcome'[r] = "refused"
            /\ LoggedInOrder(r)' /\ Len(logs'[r]) = Passed(r)' + 1
        BY <2>0, <2>1, ClosingRow DEF LogKind, Outcome
      <3>2. QED
        BY <3>1 DEF AnswerLogged
    <2>2. CASE UNCHANGED <<logs, outcome>>
      BY <2>0, <2>2 DEF LoggedInOrder, AnswerLogged, Passed
    <2>3. QED
      BY <1>4, <2>1, <2>2 DEF SelectCandidates
  <1>5. CASE FailLocally(r) \/ Unreachable(r) \/ LoseFailure(r)
    <2>1. LoggedInOrder(r)' /\ outcome'[r] = "failed"
      BY <1>0, <1>5, ClosingRow DEF FailLocally, Unreachable, LoseFailure, LogKind, Outcome
    <2>2. QED
      BY <2>1 DEF AnswerLogged
  <1>6. CASE FailUnlogged(r) \/ Disconnect(r)
    BY <1>6, NoRow DEF FailUnlogged, Disconnect
  <1>7. CASE LoseReply(r)
    <2>1. CASE UNCHANGED logs
      BY <1>7, <2>1, NoRow DEF LoseReply
    <2>2. CASE LogAs(r, Current(r).id, "ok") \/ LogAs(r, Current(r).id, "local")
      <3>1. LoggedInOrder(r)' /\ outcome'[r] = "failed"
        BY <1>0, <1>7, <2>2, ClosingRow DEF LoseReply, LogKind, Outcome
      <3>2. QED
        BY <3>1 DEF AnswerLogged
    <2>3. QED
      BY <1>7, <2>1, <2>2 DEF LoseReply
  <1>8. CASE Serve(r)
    <2>1. /\ Closing(r)' = [route |-> Current(r).id, kind |-> "ok"] /\ outcome'[r] = "served"
          /\ LoggedInOrder(r)' /\ Len(logs'[r]) = Passed(r)' + 1
      BY <1>0, <1>8, ClosingRow DEF Serve, LogKind, Outcome
    <2>2. Current(r)' = Current(r) /\ pos'[r] <= Len(cand'[r])
      BY <1>0, <1>8 DEF Serve, Current
    <2>3. QED
      BY <2>1, <2>2 DEF AnswerLogged
  <1>9. CASE PassOn(r)
    <2>1. /\ Closing(r)' = [route |-> Current(r).id, kind |-> "error"] /\ outcome'[r] = "passedOn"
          /\ LoggedInOrder(r)' /\ Len(logs'[r]) = Passed(r)' + 1
      BY <1>0, <1>9, ClosingRow DEF PassOn, LogKind, Outcome
    <2>2. Current(r)' = Current(r) /\ pos'[r] <= Len(cand'[r])
      BY <1>0, <1>9 DEF PassOn, Current
    <2>3. QED
      BY <2>1, <2>2 DEF AnswerLogged
  <1>10. CASE LogSwitch(r)
    <2>0. outcome[r] = "none" /\ outcome' = outcome /\ cand' = cand
          /\ Current(r).id \in Account /\ pos[r] \in Nat
      BY <1>0, <1>10 DEF LogSwitch, TypeOK, InPlace
    <2>1. Len(logs[r]) = Passed(r) /\ Passed(r)' = Passed(r) + 1 /\ Passed(r) \in Nat
          /\ Current(r) = cand[r][Passed(r) + 1]
      BY <1>10, <2>0 DEF LogSwitch, LoggedInOrder, Passed, Current, TypeOK
    <2>2. /\ Len(logs'[r]) = Len(logs[r]) + 1
          /\ \A i \in 1..Len(logs[r]) : logs'[r][i] = logs[r][i]
          /\ logs'[r][Len(logs'[r])] = [route |-> Current(r).id, kind |-> "switched"]
      BY <1>10, <2>0, LogGrows DEF LogSwitch, LogKind, TypeOK
    <2>3. LoggedInOrder(r)'
      <3>1. \A i \in 1..Passed(r) :
               logs'[r][i] = [route |-> cand[r][i].id, kind |-> "switched"]
        BY <2>1, <2>2 DEF LoggedInOrder
      <3>2. logs'[r][Passed(r) + 1] = [route |-> cand[r][Passed(r) + 1].id, kind |-> "switched"]
        BY <2>1, <2>2
      <3>3. \A i \in 1..(Passed(r) + 1) :
               logs'[r][i] = [route |-> cand[r][i].id, kind |-> "switched"]
        BY <2>1, <3>1, <3>2
      <3>4. Len(logs'[r]) = Passed(r)'
        BY <2>1, <2>2
      <3>5. QED
        BY <2>0, <2>1, <3>3, <3>4 DEF LoggedInOrder
    <2>4. QED
      BY <2>0, <2>3 DEF AnswerLogged
  <1>11. CASE GiveUp(r)
    <2>1. /\ cand[r] \in Seq(Candidate) /\ cand[r] # <<>>
          /\ pos[r] = Len(cand[r]) + 1 /\ pos' = pos /\ cand' = cand
      BY <1>11 DEF GiveUp, TypeOK, InPlace
    <2>2. cand[r][Len(cand[r])].id \in Account
      <3>1. cand[r][Len(cand[r])] \in Candidate
        BY <2>1
      <3>2. QED
        BY <3>1 DEF Candidate
    <2>3. /\ Closing(r)' = [route |-> cand[r][Len(cand[r])].id, kind |-> "final"]
          /\ LoggedInOrder(r)' /\ Len(logs'[r]) = Passed(r)' + 1 /\ outcome'[r] = "quota"
      BY <1>11, <2>2, ClosingRow DEF GiveUp, LogKind, Outcome
    <2>4. Passed(r)' = Len(cand'[r]) /\ cand'[r] # <<>>
      BY <2>1 DEF Passed
    <2>5. QED
      BY <2>1, <2>3, <2>4 DEF AnswerLogged
  <1>12. QED
    BY <1>1, <1>2, <1>3, <1>4, <1>5, <1>6, <1>7, <1>8, <1>9, <1>10, <1>11
       DEF Handle, Progress, Answer

\* The log rows of every call are its refusals in order, then how it ended
\* (routes/proxy.rs:55-338, routes/messages.rs:30-264).
THEOREM LogIsFaithful == Spec => [](RefusalsLoggedInOrder /\ AnswerMatchesLog)
  <1> DEFINE Inv == RefusalsLoggedInOrder /\ AnswerMatchesLog
  <1>1. Init => Inv
    BY DEF Init, RefusalsLoggedInOrder, AnswerMatchesLog, LoggedInOrder, AnswerLogged, Passed
  <1>2. TypeOK /\ Inv /\ [Next]_vars => Inv'
    <2> SUFFICES ASSUME TypeOK, Inv, [Next]_vars, NEW q \in Request
                 PROVE  LoggedInOrder(q)' /\ AnswerLogged(q)'
      BY DEF RefusalsLoggedInOrder, AnswerMatchesLog
    <2>0. LoggedInOrder(q) /\ AnswerLogged(q)
      BY DEF RefusalsLoggedInOrder, AnswerMatchesLog
    <2>1. ASSUME NEW r \in Request, Handle(r)
          PROVE  LoggedInOrder(q)' /\ AnswerLogged(q)'
      <3>1. CASE q = r
        BY <2>0, <2>1, <3>1, HandlerKeepsLog
      <3>2. CASE q # r
        BY <2>0, <2>1, <3>2, OthersUntouched, LogFrame
      <3>3. QED
        BY <3>1, <3>2
    <2>2. CASE UNCHANGED reqVars
      BY <2>0, <2>2, LogFrame DEF reqVars
    <2>3. CASE Restart
      <3>1. /\ \/ outcome'[q] = outcome[q]
               \/ outcome[q] = "none" /\ outcome'[q] = "gone"
            /\ UNCHANGED <<logs, cand, pos>>
        BY <2>3 DEF Restart, InFlight, TypeOK, InPlace
      <3>2. QED
        BY <2>0, <3>1 DEF LoggedInOrder, AnswerLogged, Closing, Passed, Current
    <2>4. QED
      BY <2>1, <2>2, <2>3 DEF Next, vars, reqVars, Refresh, MonitorTick, MonitorNext, QueryUsage,
         QueryFails, ReportQuota, ApplyUsage, Update, UpdateRead, UpdateFails, UpdateWrite, UpdateClear,
         ManageAccount, SetModelEnabled, ShiftQuota
  <1>3. QED
    BY <1>1, <1>2, TypeCorrect, PTL DEF Spec

-----------------------------------------------------------------------------
(* Candidates: their order, and the account a conversation keeps to. *)

\* The candidates of a call stand in the order of their weights.
RouteOrdered(r) ==
    \A i, j \in DOMAIN cand[r] :
        i < j => Weight[AffinityOf(call[r])][cand[r][i].id] >
                 Weight[AffinityOf(call[r])][cand[r][j].id]

LEMMA AffinityTyped ==
    ASSUME TypeOK, NEW r \in Request
    PROVE  /\ AffinityOf(call[r]) \in Affinity
           /\ \A a \in Account : Weight[AffinityOf(call[r])][a] \in Nat
  BY CallAssumption, WeightAssumption DEF TypeOK, AffinityOf, Affinity

\* Only SelectCandidates chooses candidates; no step changes a call.
LEMMA CandidatesStay ==
    ASSUME TypeOK, [Next]_vars, NEW q \in Request
    PROVE  call' = call /\ (cand'[q] = cand[q] \/ SelectCandidates(q))
  <1>1. ASSUME NEW r \in Request, Handle(r)
        PROVE  call' = call /\ (cand'[q] = cand[q] \/ SelectCandidates(q))
    <2>1. call' = call
      BY <1>1 DEF Handle, Progress, Answer, RejectCredential, Authenticate, ValidateModelAccess,
         SelectCandidates, FailLocally, FailUnlogged, Send, Unreachable, Serve, LoseReply, PassOn,
         LoseFailure, RefuseForQuota, MarkExhausted, LogSwitch, GiveUp, Disconnect, Reading, HandlerStep
    <2>2. CASE q # r
      BY <1>1, <2>1, <2>2, OthersUntouched
    <2>3. CASE q = r
      BY <1>1, <2>1, <2>3 DEF Handle, Progress, Answer, RejectCredential, Authenticate,
         ValidateModelAccess, FailLocally, FailUnlogged, Send, Unreachable, Serve, LoseReply,
         PassOn, LoseFailure, RefuseForQuota, MarkExhausted, LogSwitch, GiveUp, Disconnect
    <2>4. QED
      BY <2>2, <2>3
  <1>2. CASE UNCHANGED <<call, cand>>
    BY <1>2
  <1>3. QED
    BY <1>1, <1>2 DEF Next, vars, reqVars, Restart, Refresh, MonitorTick, MonitorNext, QueryUsage,
       QueryFails, ReportQuota, ApplyUsage, Update, UpdateRead, UpdateFails, UpdateWrite, UpdateClear,
       ManageAccount, SetModelEnabled, ShiftQuota

\* What SelectCandidates hands to the loop.
LEMMA SnapshotOrdered ==
    ASSUME TypeOK, NEW r \in Request, SelectCandidates(r), cand'[r] # cand[r]
    PROVE  LET S == Healthy(accounts, Matching(accounts, call[r].model))
           IN  S # {} /\ InRouteOrder(cand'[r], accounts, S, AffinityOf(call[r]))
  BY DEF SelectCandidates, TypeOK

THEOREM RouteOrder == Spec => [](\A r \in Request : RouteOrdered(r))
  <1>1. Init => \A r \in Request : RouteOrdered(r)
    BY DEF Init, RouteOrdered
  <1>2. TypeOK /\ (\A r \in Request : RouteOrdered(r)) /\ [Next]_vars
        => (\A r \in Request : RouteOrdered(r))'
    <2> SUFFICES ASSUME TypeOK, \A r \in Request : RouteOrdered(r), [Next]_vars,
                        NEW q \in Request
                 PROVE  RouteOrdered(q)'
      OBVIOUS
    <2>1. call' = call /\ (cand'[q] = cand[q] \/ SelectCandidates(q))
      BY CandidatesStay
    <2>2. CASE cand'[q] = cand[q]
      BY <2>1, <2>2 DEF RouteOrdered
    <2>3. CASE cand'[q] # cand[q]
      BY <2>1, <2>3, SnapshotOrdered DEF RouteOrdered, InRouteOrder
    <2>4. QED
      BY <2>2, <2>3
  <1>3. QED
    BY <1>1, <1>2, TypeCorrect, PTL DEF Spec

\* A call sent first to x weighs x most of all the accounts it may use.
LEMMA FirstWeighsMost ==
    ASSUME TypeOK, NEW r \in Request, RouteOrdered(r), cand[r] # <<>>,
           NEW x \in Ids(r), x # cand[r][1].id
    PROVE  Weight[AffinityOf(call[r])][cand[r][1].id] > Weight[AffinityOf(call[r])][x]
  <1>1. cand[r] \in Seq(Candidate)
    BY DEF TypeOK
  <1>2. PICK i \in DOMAIN cand[r] : x = cand[r][i].id
    BY DEF Ids
  <1>3. i # 1 /\ i \in 1..Len(cand[r]) /\ 1 \in DOMAIN cand[r]
    BY <1>1, <1>2
  <1>4. 1 < i
    BY <1>3
  <1>5. QED
    BY <1>2, <1>3, <1>4 DEF RouteOrdered

\* A conversation and model keep to one account as long as both calls could use
\* the other's (src/routes/proxy.rs:576-586, README.md:64).
THEOREM ConversationSticks == Spec => []ConversationKeepsAccount
  <1>1. TypeOK /\ (\A r \in Request : RouteOrdered(r)) => ConversationKeepsAccount
    <2> SUFFICES ASSUME TypeOK, \A r \in Request : RouteOrdered(r),
                        NEW q \in Request, NEW r \in Request,
                        AffinityOf(call[q]) = AffinityOf(call[r]),
                        cand[q] # <<>>, cand[r] # <<>>,
                        cand[q][1].id \in Ids(r), cand[r][1].id \in Ids(q),
                        cand[q][1].id # cand[r][1].id
                 PROVE  FALSE
      BY DEF ConversationKeepsAccount
    <2> DEFINE w == Weight[AffinityOf(call[r])]
    <2>1. w[cand[q][1].id] > w[cand[r][1].id] /\ w[cand[r][1].id] > w[cand[q][1].id]
      BY FirstWeighsMost
    <2>2. \A s \in Request : Ids(s) \subseteq Account
      <3> SUFFICES ASSUME NEW s \in Request, NEW i \in DOMAIN cand[s]
                   PROVE  cand[s][i].id \in Account
        BY DEF Ids
      <3>1. cand[s] \in Seq(Candidate)
        BY DEF TypeOK
      <3>2. cand[s][i] \in Candidate
        BY <3>1
      <3>3. QED
        BY <3>2 DEF Candidate
    <2>3. w[cand[q][1].id] \in Nat /\ w[cand[r][1].id] \in Nat
      BY <2>2, AffinityTyped
    <2> HIDE DEF w
    <2>4. QED
      BY <2>1, <2>3
  <1>2. QED
    BY <1>1, TypeCorrect, RouteOrder, PTL

-----------------------------------------------------------------------------
(* The quota marks. *)

\* A row has its key as long as it is there, an edit has one to write back, and
\* what clears a mark has seen why.
RowsSound ==
    \A a \in Account : /\ accounts[a].present => accounts[a].key > 0
                       /\ accounts[a].exhausted => accounts[a].present
EditsSound ==
    \A e \in Editor : /\ edit[e].pc = "write" => edit[e].key > 0
                      /\ edit[e].pc = "clear" => edit[e].replace
AnswersSound == \A t \in Task : task[t].pc = "apply" => task[t].answer # "none"
Provenance == RowsSound /\ EditsSound /\ AnswersSound

\* Steps that change neither the pool nor what may clear a mark.
LEMMA ProvenanceFrame ==
    ASSUME Provenance, UNCHANGED <<accounts, edit, task>>
    PROVE  Provenance'
  BY DEF Provenance, RowsSound, EditsSound, AnswersSound

\* The accounts' part, when one row changes.
LEMMA OneRow ==
    ASSUME TypeOK, Provenance, NEW a \in Account, NEW row,
           accounts' = [accounts EXCEPT ![a] = row],
           row.present => row.key > 0, row.exhausted => row.present
    PROVE  RowsSound'
  BY DEF TypeOK, Provenance, RowsSound

LEMMA HandlerKeepsProvenance ==
    ASSUME TypeOK, Provenance, NEW r \in Request, Handle(r)
    PROVE  Provenance'
  <1>1. CASE MarkExhausted(r)
    <2>1. UNCHANGED <<edit, task>>
      BY <1>1 DEF MarkExhausted, HandlerStep
    <2>2. CASE UNCHANGED accounts
      BY <2>1, <2>2, ProvenanceFrame
    <2>3. CASE ~UNCHANGED accounts
      <3> DEFINE id == Current(r).id
                 row == [accounts[id] EXCEPT !.exhausted = accounts[id].present]
      <3>1. id \in Account /\ accounts' = [accounts EXCEPT ![id] = row]
        BY <1>1, <2>3, CurrentIsCandidate DEF MarkExhausted, Looping
      <3>2. accounts[id] \in Row
        BY <3>1 DEF TypeOK
      <3>3. row.present = accounts[id].present /\ row.key = accounts[id].key
            /\ row.exhausted = accounts[id].present
        BY <3>2 DEF Row
      <3>4. QED
        BY <2>1, <3>1, <3>3, OneRow DEF Provenance, RowsSound, EditsSound, AnswersSound
    <2>4. QED
      BY <2>2, <2>3
  <1>2. CASE UNCHANGED <<accounts, edit, task>>
    BY <1>2, ProvenanceFrame
  <1>3. QED
    BY <1>1, <1>2 DEF Handle, Progress, Answer, RejectCredential, Authenticate, ValidateModelAccess,
       SelectCandidates, FailLocally, FailUnlogged, Send, Unreachable, Serve, LoseReply, PassOn,
       LoseFailure, RefuseForQuota, LogSwitch, GiveUp, Disconnect, Reading, HandlerStep

LEMMA RefreshKeepsProvenance ==
    ASSUME TypeOK, Provenance, Refresh
    PROVE  Provenance'
  <1>1. CASE MonitorTick
    BY <1>1, ProvenanceFrame DEF MonitorTick
  <1>2. CASE MonitorNext
    <2>1. \A t \in Task : task'[t].pc = "apply" => task'[t] = task[t]
      BY <1>2 DEF MonitorNext, BeginQuery, TypeOK
    <2>2. QED
      BY <1>2, <2>1 DEF MonitorNext, Provenance, RowsSound, EditsSound, AnswersSound
  <1>3. ASSUME NEW u \in Task, QueryUsage(u) \/ QueryFails(u)
        PROVE  Provenance'
    <2>1. \A t \in Task : task'[t].pc = "apply" => task'[t] = task[t]
      BY <1>3 DEF QueryUsage, QueryFails, BeginQuery, IdleTask, TypeOK
    <2>2. QED
      BY <1>3, <2>1 DEF QueryUsage, QueryFails, Provenance, RowsSound, EditsSound, AnswersSound
  <1>4. ASSUME NEW u \in Task, ReportQuota(u)
        PROVE  Provenance'
    <2>1. \A t \in Task : t # u => task'[t] = task[t]
      BY <1>4 DEF ReportQuota, TypeOK
    <2>2. task'[u].answer # "none"
      BY <1>4 DEF ReportQuota, TypeOK, TaskState
    <2>3. QED
      BY <1>4, <2>1, <2>2 DEF ReportQuota, Provenance, RowsSound, EditsSound, AnswersSound
  <1>5. ASSUME NEW u \in Task, ApplyUsage(u)
        PROVE  Provenance'
    <2>1. \A t \in Task : task'[t].pc = "apply" => task'[t] = task[t]
      BY <1>5 DEF ApplyUsage, IdleTask, TypeOK
    <2>2. RowsSound'
      <3>1. CASE accounts' = accounts
        BY <3>1 DEF Provenance, RowsSound, EditsSound, AnswersSound
      <3>2. CASE accounts' # accounts
        <4> DEFINE a == task[u].id
                   b == accounts[a].present /\ task[u].answer = "spent"
                   row == [accounts[a] EXCEPT !.exhausted = b]
        <4>1. a \in Account /\ accounts' = [accounts EXCEPT ![a] = row]
          BY <1>5, <3>2 DEF ApplyUsage, TypeOK
        <4>2. accounts[a] \in Row
          BY <4>1 DEF TypeOK
        <4>3. row.present = accounts[a].present /\ row.key = accounts[a].key /\ row.exhausted = b
          BY <4>2 DEF Row
        <4>4. QED
          BY <4>1, <4>3, OneRow DEF Provenance, RowsSound, EditsSound, AnswersSound
      <3>3. QED
        BY <3>1, <3>2
    <2>3. QED
      BY <1>5, <2>1, <2>2 DEF ApplyUsage, Provenance, RowsSound, EditsSound, AnswersSound
  <1>6. QED
    BY <1>1, <1>2, <1>3, <1>4, <1>5 DEF Refresh

LEMMA UpdateKeepsProvenance ==
    ASSUME TypeOK, Provenance, NEW e \in Editor, Update(e)
    PROVE  Provenance'
  <1>1. ASSUME NEW a \in Account, NEW replace \in BOOLEAN, UpdateRead(e, a, replace)
        PROVE  Provenance'
    <2>1. accounts[a].key > 0
      BY <1>1 DEF UpdateRead, Provenance, RowsSound
    <2>2. /\ edit'[e].pc = "write" /\ edit'[e].key = accounts[a].key
          /\ \A d \in Editor : d # e => edit'[d] = edit[d]
      BY <1>1 DEF UpdateRead, TypeOK
    <2>3. EditsSound'
      BY <2>1, <2>2 DEF Provenance, EditsSound
    <2>4. QED
      BY <1>1, <2>3 DEF UpdateRead, Provenance, RowsSound, AnswersSound, taskVars
  <1>2. CASE UpdateWrite(e)
    <2> DEFINE a == edit[e].id
               k == IF edit[e].replace THEN issued + 1 ELSE edit[e].key
               row == [accounts[a] EXCEPT !.enabled = edit[e].enabled, !.key = k]
    <2>1. k > 0
      BY <1>2 DEF UpdateWrite, Provenance, RowsSound, EditsSound, AnswersSound, TypeOK
    <2>2. RowsSound'
      <3>1. CASE accounts' = accounts
        BY <3>1 DEF Provenance, RowsSound, EditsSound, AnswersSound
      <3>2. CASE accounts' # accounts
        <4>1. a \in Account /\ accounts' = [accounts EXCEPT ![a] = row]
          BY <1>2, <3>2 DEF UpdateWrite, TypeOK
        <4>2. accounts[a] \in Row
          BY <4>1 DEF TypeOK
        <4>3. /\ row.present = accounts[a].present /\ row.key = k
              /\ row.exhausted = accounts[a].exhausted
          BY <4>2 DEF Row
        <4>4. QED
          BY <2>1, <4>1, <4>3, OneRow DEF Provenance, RowsSound, EditsSound, AnswersSound
      <3>3. QED
        BY <3>1, <3>2
    <2>3. /\ \/ edit'[e] = IdleEdit
             \/ edit'[e].pc = "clear" /\ edit'[e].replace
          /\ \A d \in Editor : d # e => edit'[d] = edit[d]
      <3>1. edit[e] \in EditState /\ edit \in [Editor -> EditState]
        BY DEF TypeOK
      <3>2. CASE edit[e].replace
        <4>1. edit' = [edit EXCEPT ![e] = [edit[e] EXCEPT !.pc = "clear"]]
          BY <1>2, <3>2 DEF UpdateWrite
        <4>2. /\ [edit[e] EXCEPT !.pc = "clear"].pc = "clear"
              /\ [edit[e] EXCEPT !.pc = "clear"].replace
          BY <3>1, <3>2 DEF EditState
        <4>3. QED
          BY <3>1, <4>1, <4>2
      <3>3. CASE ~edit[e].replace
        BY <1>2, <3>1, <3>3 DEF UpdateWrite
      <3>4. QED
        BY <3>2, <3>3
    <2>4. EditsSound'
      BY <2>3 DEF Provenance, EditsSound, IdleEdit
    <2>5. QED
      BY <1>2, <2>2, <2>4 DEF UpdateWrite, taskVars, Provenance, AnswersSound
  <1>3. CASE UpdateClear(e)
    <2>1. RowsSound'
      BY <1>3 DEF UpdateClear, TypeOK, Row, Provenance, RowsSound, EditsSound, AnswersSound
    <2>2. QED
      BY <1>3, <2>1 DEF UpdateClear, taskVars, TypeOK, IdleEdit, Provenance, RowsSound, EditsSound, AnswersSound
  <1>4. CASE UpdateFails(e)
    <2>1. EditsSound'
      BY <1>4 DEF UpdateFails, TypeOK, IdleEdit, Provenance, EditsSound
    <2>2. QED
      BY <1>4, <2>1 DEF UpdateFails, Provenance, RowsSound, AnswersSound, taskVars
  <1>5. QED
    BY <1>1, <1>2, <1>3, <1>4 DEF Update

LEMMA ManageKeepsProvenance ==
    ASSUME TypeOK, Provenance, ManageAccount
    PROVE  Provenance'
  <1>1. UNCHANGED <<edit, task>>
    BY DEF ManageAccount, taskVars
  <1>2. PICK a \in Account :
          \/ \E cookie, on \in BOOLEAN : Create(a, cookie, on)
          \/ Delete(a)
          \/ \E on \in BOOLEAN : SetKeyEnabled(a, on) \/ ImportOver(a, on)
          \/ \E S \in SUBSET Model : SetModelCache(a, S)
    BY DEF ManageAccount
  <1>3. /\ accounts[a] \in Row /\ issued + 1 > 0
        /\ accounts[a].present => accounts[a].key > 0
        /\ accounts[a].exhausted => accounts[a].present
    BY DEF TypeOK, Provenance, RowsSound, EditsSound, AnswersSound
  <1>4. PICK row : /\ accounts' = [accounts EXCEPT ![a] = row]
                   /\ row.present => row.key > 0
                   /\ row.exhausted => row.present
    <2>1. ASSUME NEW cookie \in BOOLEAN, NEW on \in BOOLEAN, Create(a, cookie, on)
          PROVE  \E row : /\ accounts' = [accounts EXCEPT ![a] = row]
                          /\ row.present => row.key > 0
                          /\ row.exhausted => row.present
      <3> DEFINE row == [present |-> TRUE, enabled |-> on, exhausted |-> FALSE,
                         cookie |-> cookie, key |-> issued + 1, models |-> {}]
      <3>1. row.key > 0 /\ ~row.exhausted /\ accounts' = [accounts EXCEPT ![a] = row]
        BY <1>3, <2>1 DEF Create
      <3> HIDE DEF row
      <3>2. QED
        BY <3>1
    <2>2. ASSUME Delete(a)
          PROVE  \E row : /\ accounts' = [accounts EXCEPT ![a] = row]
                          /\ row.present => row.key > 0
                          /\ row.exhausted => row.present
      <3> DEFINE row == [present |-> FALSE, enabled |-> FALSE, exhausted |-> FALSE,
                         cookie |-> FALSE, key |-> accounts[a].key, models |-> {}]
      <3>1. ~row.present /\ ~row.exhausted /\ accounts' = [accounts EXCEPT ![a] = row]
        BY <2>2 DEF Delete
      <3> HIDE DEF row
      <3>2. QED
        BY <3>1
    <2>3. ASSUME NEW on \in BOOLEAN, SetKeyEnabled(a, on)
          PROVE  \E row : /\ accounts' = [accounts EXCEPT ![a] = row]
                          /\ row.present => row.key > 0
                          /\ row.exhausted => row.present
      <3> DEFINE row == [accounts[a] EXCEPT !.enabled = on]
      <3>1. /\ row.present = accounts[a].present /\ row.key = accounts[a].key
            /\ row.exhausted = accounts[a].exhausted
        BY <1>3 DEF Row
      <3>2. accounts' = [accounts EXCEPT ![a] = row]
        BY <2>3 DEF SetKeyEnabled
      <3> HIDE DEF row
      <3>3. QED
        BY <1>3, <3>1, <3>2
    <2>4. ASSUME NEW on \in BOOLEAN, ImportOver(a, on)
          PROVE  \E row : /\ accounts' = [accounts EXCEPT ![a] = row]
                          /\ row.present => row.key > 0
                          /\ row.exhausted => row.present
      <3> DEFINE row == [accounts[a] EXCEPT !.enabled = on, !.key = issued + 1]
      <3>1. /\ row.present = accounts[a].present /\ row.key = issued + 1
            /\ row.exhausted = accounts[a].exhausted
        BY <1>3 DEF Row
      <3>2. accounts' = [accounts EXCEPT ![a] = row]
        BY <2>4 DEF ImportOver
      <3> HIDE DEF row
      <3>3. QED
        BY <1>3, <3>1, <3>2
    <2>5. ASSUME NEW S \in SUBSET Model, SetModelCache(a, S)
          PROVE  \E row : /\ accounts' = [accounts EXCEPT ![a] = row]
                          /\ row.present => row.key > 0
                          /\ row.exhausted => row.present
      <3> DEFINE row == [accounts[a] EXCEPT !.models = S]
      <3>1. /\ row.present = accounts[a].present /\ row.key = accounts[a].key
            /\ row.exhausted = accounts[a].exhausted
        BY <1>3 DEF Row
      <3>2. accounts' = [accounts EXCEPT ![a] = row]
        BY <2>5 DEF SetModelCache
      <3> HIDE DEF row
      <3>3. QED
        BY <1>3, <3>1, <3>2
    <2>6. QED
      BY <1>2, <2>1, <2>2, <2>3, <2>4, <2>5
  <1>5. QED
    BY <1>1, <1>4, OneRow DEF Provenance, RowsSound, EditsSound, AnswersSound

\* The invariant behind the marks: no row, edit or usage answer appears from
\* nowhere (src/db.rs:571-775, src/account_monitor.rs:47-68, src/routes/keys.rs:134-197).
THEOREM ProvenanceHolds == Spec => []Provenance
  <1>1. Init => Provenance
    <2> SUFFICES ASSUME Init
                 PROVE  Provenance
      OBVIOUS
    <2>1. RowsSound
      BY PoolAssumption DEF Init, RowsSound
    <2>2. QED
      BY <2>1 DEF Init, Provenance, EditsSound, AnswersSound, IdleTask, IdleEdit
  <1>2. TypeOK /\ Provenance /\ [Next]_vars => Provenance'
    <2> SUFFICES ASSUME TypeOK, Provenance, [Next]_vars
                 PROVE  Provenance'
      OBVIOUS
    <2>1. CASE \E r \in Request : Handle(r)
      BY <2>1, HandlerKeepsProvenance
    <2>2. CASE Refresh
      BY <2>2, RefreshKeepsProvenance
    <2>3. CASE \E e \in Editor : Update(e)
      BY <2>3, UpdateKeepsProvenance
    <2>4. CASE ManageAccount
      BY <2>4, ManageKeepsProvenance
    <2>5. CASE Restart
      BY <2>5 DEF Restart, Provenance, RowsSound, EditsSound, AnswersSound, IdleTask, IdleEdit
    <2>6. CASE UNCHANGED <<accounts, edit, task>>
      BY <2>6, ProvenanceFrame
    <2>7. QED
      BY <2>1, <2>2, <2>3, <2>4, <2>5, <2>6
         DEF Next, vars, SetModelEnabled, ShiftQuota, taskVars
  <1>3. QED
    BY <1>1, <1>2, TypeCorrect, PTL DEF Spec

\* A step that leaves a's mark, or a itself, alone needs no evidence.
LEMMA NoClearing ==
    ASSUME NEW a \in Account,
           \/ accounts'[a] = accounts[a]
           \/ accounts'[a].exhausted = accounts[a].exhausted
           \/ accounts'[a].exhausted
           \/ ~accounts[a].exhausted
           \/ ~accounts'[a].present
    PROVE  MarkStep(a)
  BY DEF MarkStep

\* An account leaves the marked ones only when a usage query saw quota or its
\* key was replaced (src/account_monitor.rs:57-59, src/routes/keys.rs:190-193).
THEOREM MarksKept == Spec => MarkClearedOnlyOnEvidence
  <1>1. TypeOK /\ Provenance /\ [Next]_vars => [\A a \in Account : MarkStep(a)]_vars
    <2> SUFFICES ASSUME TypeOK, Provenance, Next, NEW a \in Account
                 PROVE  MarkStep(a)
      OBVIOUS
    <2>0. /\ accounts \in [Account -> Row] /\ accounts[a] \in Row
          /\ accounts[a].exhausted => accounts[a].present
      BY DEF TypeOK, Provenance, RowsSound
    <2>1. ASSUME NEW r \in Request, Handle(r)
          PROVE  MarkStep(a)
      <3>1. CASE UNCHANGED accounts
        BY <3>1, NoClearing
      <3>2. CASE MarkExhausted(r) /\ ~UNCHANGED accounts
        <4>1. accounts' = [accounts EXCEPT ![Current(r).id].exhausted = accounts[Current(r).id].present]
          BY <3>2 DEF MarkExhausted
        <4>2. CASE Current(r).id = a
          <5>1. accounts'[a].exhausted = accounts[a].present
            BY <2>0, <4>1, <4>2 DEF Row
          <5>2. QED
            BY <2>0, <5>1, NoClearing
        <4>3. CASE Current(r).id # a
          BY <2>0, <4>1, <4>3, NoClearing
        <4>4. QED
          BY <4>2, <4>3
      <3>3. QED
        BY <2>1, <3>1, <3>2 DEF Handle, Progress, Answer, RejectCredential, Authenticate,
           ValidateModelAccess, SelectCandidates, FailLocally, FailUnlogged, Send, Unreachable,
           Serve, LoseReply, PassOn, LoseFailure, RefuseForQuota, LogSwitch, GiveUp, Disconnect,
           Reading
    <2>2. ASSUME NEW t \in Task, ApplyUsage(t)
          PROVE  MarkStep(a)
      <3>1. CASE task[t].answer = "unknown" \/ task[t].id # a
        <4>1. accounts'[a] = accounts[a]
          BY <2>0, <2>2, <3>1 DEF ApplyUsage
        <4>2. QED
          BY <4>1, NoClearing
      <3>2. CASE task[t].answer = "spent" /\ task[t].id = a
        <4>1. accounts'[a].exhausted = accounts[a].present
          BY <2>0, <2>2, <3>2 DEF ApplyUsage, Row
        <4>2. QED
          BY <2>0, <4>1, NoClearing
      <3>3. CASE task[t].answer = "available" /\ task[t].id = a
        <4>1. task[t] = [pc |-> "apply", id |-> a, answer |-> "available"]
          BY <2>2, <3>3 DEF ApplyUsage, TypeOK, TaskState
        <4>2. task'[t].pc = "idle"
          BY <2>2 DEF ApplyUsage, TypeOK, IdleTask
        <4>3. QED
          BY <4>1, <4>2 DEF MarkStep, QuotaSeen
      <3>4. QED
        BY <2>2, <3>1, <3>2, <3>3 DEF Provenance, AnswersSound, ApplyUsage, TypeOK, TaskState
    <2>3. ASSUME NEW e \in Editor, UpdateWrite(e)
          PROVE  MarkStep(a)
      <3>1. accounts'[a].exhausted = accounts[a].exhausted
        BY <2>0, <2>3 DEF UpdateWrite, Row
      <3>2. QED
        BY <3>1, NoClearing
    <2>4. ASSUME NEW e \in Editor, UpdateClear(e)
          PROVE  MarkStep(a)
      <3>1. CASE edit[e].id # a
        <4>1. accounts'[a] = accounts[a]
          BY <2>0, <2>4, <3>1 DEF UpdateClear
        <4>2. QED
          BY <4>1, NoClearing
      <3>2. CASE edit[e].id = a
        <4>1. edit[e].pc = "clear" /\ edit[e].replace /\ edit'[e].pc = "idle"
          BY <2>4 DEF UpdateClear, Provenance, EditsSound, TypeOK, IdleEdit
        <4>2. QED
          BY <3>2, <4>1 DEF MarkStep, KeyReplaced
      <3>3. QED
        BY <3>1, <3>2
    <2>5. CASE ManageAccount
      <3>1. PICK b \in Account :
              \/ \E cookie, on \in BOOLEAN : Create(b, cookie, on)
              \/ Delete(b)
              \/ \E on \in BOOLEAN : SetKeyEnabled(b, on) \/ ImportOver(b, on)
              \/ \E S \in SUBSET Model : SetModelCache(b, S)
        BY <2>5 DEF ManageAccount
      <3>2. CASE b # a
        <4>1. accounts'[a] = accounts[a]
          BY <2>0, <3>1, <3>2 DEF Create, Delete, SetKeyEnabled, ImportOver, SetModelCache
        <4>2. QED
          BY <4>1, NoClearing
      <3>3. CASE b = a
        <4>1. ASSUME NEW cookie \in BOOLEAN, NEW on \in BOOLEAN, Create(a, cookie, on)
              PROVE  ~accounts[a].exhausted
          BY <2>0, <4>1 DEF Create, Provenance, RowsSound
        <4>2. ASSUME Delete(a)
              PROVE  ~accounts'[a].present
          BY <2>0, <4>2 DEF Delete
        <4>3. ASSUME NEW on \in BOOLEAN, SetKeyEnabled(a, on) \/ ImportOver(a, on)
              PROVE  accounts'[a].exhausted = accounts[a].exhausted
          BY <2>0, <4>3 DEF SetKeyEnabled, ImportOver, Row
        <4>4. ASSUME NEW S \in SUBSET Model, SetModelCache(a, S)
              PROVE  accounts'[a].exhausted = accounts[a].exhausted
          BY <2>0, <4>4 DEF SetModelCache, Row
        <4>5. QED
          BY <3>1, <3>3, <4>1, <4>2, <4>3, <4>4, NoClearing
      <3>4. QED
        BY <3>2, <3>3
    <2>6. CASE UNCHANGED accounts
      BY <2>6, NoClearing
    <2>7. QED
      BY <2>1, <2>2, <2>3, <2>4, <2>5, <2>6
         DEF Next, Refresh, MonitorTick, MonitorNext, QueryUsage, QueryFails, ReportQuota,
             Update, UpdateRead, UpdateFails, SetModelEnabled, Restart, ShiftQuota
  <1>2. QED
    BY <1>1, TypeCorrect, ProvenanceHolds, PTL DEF Spec, MarkClearedOnlyOnEvidence
=============================================================================
