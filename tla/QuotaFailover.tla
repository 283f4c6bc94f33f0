---------------------------- MODULE QuotaFailover ----------------------------
(***************************************************************************)
(* The gateway's routing core: calls to /v1/* (routes/proxy.rs) and to the *)
(* Anthropic adapter (routes/messages.rs) walk an ordered snapshot of the  *)
(* account pool, an account that answers "quota exhausted" is marked in    *)
(* the database and skipped, a background monitor and the management API   *)
(* clear the marks.  Handlers interleave at every await and between        *)
(* database calls; each database call is atomic (Db is one connection      *)
(* behind a mutex).                                                        *)
(*                                                                         *)
(* Abstracted: bodies, headers, latencies and token counts; the display    *)
(* columns of a row (name, tags, notes, timestamps, usage cache, account   *)
(* type) and its proxy, whose loss is one of the local failures.           *)
(***************************************************************************)
EXTENDS Integers, Sequences, FiniteSets

CONSTANTS
    Account,        \* ids a row of api_keys can have
    Model, NoModel, \* model names, and a body without one
    Conversation,   \* client id and session header of a call
    Weight,         \* Weight[affinity][a]: the rendezvous hash
    Call,           \* the calls clients make
    Request,        \* one slot per call made
    Task, Monitor,  \* usage refreshes: the monitor's and the API's
    Editor,         \* concurrent PUT /api/keys/{id} handlers
    NoRoute,        \* a log row without a route account
    InitialPool,    \* the rows the process may start with
    Budget          \* bounds: how often each disturbance may happen

ModelName == Model \cup {NoModel}
Affinity == Conversation \X ModelName
Disturbance == {"admin", "upstream", "crash", "fault"}

\* A row of api_keys.  key numbers the API key it holds, 0 before the row
\* exists; a deleted row keeps its number, for ids are never reused.
Row == [present: BOOLEAN, enabled: BOOLEAN, exhausted: BOOLEAN,
        cookie: BOOLEAN, key: Nat, models: SUBSET Model]

ASSUME AccountAssumption == IsFiniteSet(Account)
ASSUME WeightAssumption ==
    /\ Weight \in [Affinity -> [Account -> Nat]]
    /\ \A k \in Affinity : \A a, b \in Account :
          Weight[k][a] = Weight[k][b] => a = b
ASSUME CallAssumption ==
    Call \subseteq [conversation: Conversation, model: ModelName,
                    allowed: BOOLEAN, adapter: BOOLEAN, stream: BOOLEAN]
ASSUME PoolAssumption ==
    /\ InitialPool \subseteq [Account -> Row]
    /\ \A p \in InitialPool : \A a \in Account :
          (p[a].present => p[a].key > 0) /\ (p[a].exhausted => p[a].present)
ASSUME TaskAssumption == Monitor \in Task
ASSUME BudgetAssumption == Budget \in [Disturbance -> Nat]
ASSUME RouteAssumption == NoRoute \notin Account

VARIABLES
    accounts,   \* table api_keys
    disabled,   \* table disabled_models
    logs,       \* table request_logs, the rows of each call in order
    issued,     \* the number of the API key issued last
    pc, call,   \* where each call's handler is, and the call it serves
    cand, pos,  \* its candidate rows and its place in them
    outcome,    \* what its client got
    task,       \* the usage refreshes in progress
    sweep,      \* the accounts the monitor's round has still to refresh
    edit,       \* the account updates in progress
    capacity,   \* upstream: the accounts that have quota left
    budget      \* the disturbances still allowed

reqVars == <<logs, pc, call, cand, pos, outcome>>
taskVars == <<task, sweep>>
envVars == <<capacity, budget>>
vars == <<accounts, disabled, logs, issued, pc, call, cand, pos, outcome,
          task, sweep, edit, capacity, budget>>

Candidate == [id: Account, key: Nat]
LogKind == {"auth", "denied", "unrouted", "local", "ok", "error", "switched",
            "final"}
LogRow == [route: Account \cup {NoRoute}, kind: LogKind]
TaskState == [pc: {"idle", "query", "apply"}, id: Account \cup {NoRoute},
              answer: {"none", "available", "spent", "unknown"}]
EditState == [pc: {"idle", "write", "clear"}, id: Account \cup {NoRoute},
              replace: BOOLEAN, enabled: BOOLEAN, key: Nat]
IdleTask == [pc |-> "idle", id |-> NoRoute, answer |-> "none"]
IdleEdit == [pc |-> "idle", id |-> NoRoute, replace |-> FALSE,
             enabled |-> FALSE, key |-> 0]
Outcome == {"none", "refused", "served", "passedOn", "failed", "quota", "gone"}
PC == {"new", "access", "route", "try", "wait", "mark", "switch", "giveup",
       "done"}

\* Where a handler stands decides what it holds.
Looping == {"try", "wait", "mark", "switch"}
InPlace(r) ==
    /\ pc[r] \in Looping => pos[r] <= Len(cand[r])
    /\ pc[r] = "giveup" => pos[r] = Len(cand[r]) + 1 /\ cand[r] # <<>>
    /\ pc[r] \in {"new", "access", "route"} => cand[r] = <<>>
    /\ pos[r] <= Len(cand[r]) + 1
    /\ outcome[r] = "none" <=> pc[r] # "done"

\* Every variable has its type, and no handler of the loop indexes its
\* candidates out of range (routes/proxy.rs's `expect` after the loop).
TypeOK ==
    /\ accounts \in [Account -> Row]
    /\ disabled \in SUBSET Model
    /\ logs \in [Request -> Seq(LogRow)]
    /\ issued \in Nat
    /\ pc \in [Request -> PC]
    /\ call \in [Request -> Call]
    /\ cand \in [Request -> Seq(Candidate)]
    /\ pos \in [Request -> Nat \ {0}]
    /\ outcome \in [Request -> Outcome]
    /\ task \in [Task -> TaskState]
    /\ sweep \in SUBSET Account
    /\ edit \in [Editor -> EditState]
    /\ capacity \in SUBSET Account
    /\ budget \in [Disturbance -> Nat]
    /\ \A r \in Request : InPlace(r)

Init ==
    /\ accounts \in InitialPool
    /\ disabled = {}
    /\ logs = [r \in Request |-> <<>>]
    /\ issued = 1
    /\ pc = [r \in Request |-> "new"]
    /\ call \in [Request -> Call]
    /\ cand = [r \in Request |-> <<>>]
    /\ pos = [r \in Request |-> 1]
    /\ outcome = [r \in Request |-> "none"]
    /\ task = [t \in Task |-> IdleTask]
    /\ sweep = {}
    /\ edit = [e \in Editor |-> IdleEdit]
    /\ capacity = Account
    /\ budget = Budget

-----------------------------------------------------------------------------
(* Choosing candidates. *)

\* candidates_for_model: enabled rows, those that advertise the model if any.
Matching(rows, m) ==
    LET usable == {a \in Account : rows[a].present /\ rows[a].enabled}
        matches == {a \in usable : m \in rows[a].models}
    IN  IF m = NoModel \/ matches = {} THEN usable ELSE matches

\* Slip: marked accounts stay among the candidates.
HealthyOrNot(rows, S) == S

\* The rows that routing skips no more.
Healthy(rows, S) == {a \in S : ~rows[a].exhausted}

\* Slip: the candidates keep the order of the database.
InAnyOrder(s, rows, S, k) ==
    /\ {s[i].id : i \in DOMAIN s} = S
    /\ \A i \in DOMAIN s : s[i].key = rows[s[i].id].key

\* ordered_candidates: s lists the rows of S by descending rendezvous hash.
InRouteOrder(s, rows, S, k) ==
    /\ {s[i].id : i \in DOMAIN s} = S
    /\ \A i, j \in DOMAIN s : i < j => Weight[k][s[i].id] > Weight[k][s[j].id]
    /\ \A i \in DOMAIN s : s[i].key = rows[s[i].id].key

AffinityOf(c) == <<c.conversation, c.model>>
Current(r) == cand[r][pos[r]]

-----------------------------------------------------------------------------
(* The handler of a call, proxy_inner and messages_inner. *)

LogAs(r, route, kind) ==
    logs' = [logs EXCEPT ![r] = Append(@, [route |-> route, kind |-> kind])]
Goto(r, p) == pc' = [pc EXCEPT ![r] = p]
Return(r, o) ==
    /\ Goto(r, "done")
    /\ outcome' = [outcome EXCEPT ![r] = o]

\* What a handler's own step leaves alone.
HandlerStep == UNCHANGED <<disabled, issued, call, task, sweep, edit, capacity>>
Reading == HandlerStep /\ UNCHANGED <<accounts, budget>>

\* authenticate_client rejects the credential; only the failure is logged.
RejectCredential(r) ==
    /\ pc[r] = "new"
    /\ LogAs(r, NoRoute, "auth")
    /\ Return(r, "refused")
    /\ Reading /\ UNCHANGED <<cand, pos>>

\* The client is known; proxy_inner now waits for the rest of the body, and
\* ends without a row, as in Disconnect, when it does not come.
Authenticate(r) ==
    /\ pc[r] = "new"
    /\ Goto(r, "access")
    /\ Reading /\ UNCHANGED <<logs, cand, pos, outcome>>

\* validate_model_access: the model is switched on and the client may use it.
ValidateModelAccess(r) ==
    /\ pc[r] = "access"
    /\ IF call[r].model \notin disabled /\ call[r].allowed
       THEN Goto(r, "route") /\ UNCHANGED <<logs, outcome>>
       ELSE LogAs(r, NoRoute, "denied") /\ Return(r, "refused")
    /\ Reading /\ UNCHANGED <<cand, pos>>

\* routing_candidates: one snapshot of the pool decides the whole call.
SelectCandidates(r) ==
    LET S == Healthy(accounts, Matching(accounts, call[r].model))
    IN  /\ pc[r] = "route"
        /\ \/ /\ S = {}
              /\ LogAs(r, NoRoute, "unrouted")
              /\ Return(r, "refused")
              /\ UNCHANGED cand
           \/ /\ S # {}
              /\ \E s \in [1..Cardinality(S) ->
                             {[id |-> a, key |-> accounts[a].key] : a \in S}] :
                    /\ InRouteOrder(s, accounts, S, AffinityOf(call[r]))
                    /\ cand' = [cand EXCEPT ![r] = s]
              /\ Goto(r, "try")
              /\ UNCHANGED <<logs, outcome>>
        /\ Reading /\ UNCHANGED pos

\* The key cannot be decrypted or the row's proxy is gone: logged, no failover.
FailLocally(r) ==
    /\ pc[r] = "try"
    /\ LogAs(r, Current(r).id, "local")
    /\ Return(r, "failed")
    /\ Reading /\ UNCHANGED <<cand, pos>>

\* insert_upstream_auth or to_openai_request fails: `?`, without a log row.
FailUnlogged(r) ==
    /\ pc[r] = "try"
    /\ Return(r, "failed")
    /\ Reading /\ UNCHANGED <<logs, cand, pos>>

Send(r) ==
    /\ pc[r] = "try"
    /\ Goto(r, "wait")
    /\ Reading /\ UNCHANGED <<logs, cand, pos, outcome>>

(* What the upstream answers.  Any account may fail in any way at any time; *)
(* only one with quota left can succeed.  A total timeout (state.rs) turns  *)
(* silence into Unreachable.                                                *)

Unreachable(r) ==
    /\ pc[r] = "wait"
    /\ LogAs(r, Current(r).id, "local")
    /\ Return(r, "failed")
    /\ Reading /\ UNCHANGED <<cand, pos>>

\* Success, logged when the reply is complete, or when a stream begins.
Serve(r) ==
    /\ pc[r] = "wait" /\ Current(r).id \in capacity
    /\ LogAs(r, Current(r).id, "ok")
    /\ Return(r, "served")
    /\ Reading /\ UNCHANGED <<cand, pos>>

\* Success whose body is unreadable.  The native handler logs it; the adapter
\* drops a body that is no JSON unlogged, and one without choices after it has
\* logged a success.  A stream is forwarded unread.
LoseReply(r) ==
    /\ pc[r] = "wait" /\ Current(r).id \in capacity /\ ~call[r].stream
    /\ IF call[r].adapter
       THEN UNCHANGED logs \/ LogAs(r, Current(r).id, "ok")
       ELSE LogAs(r, Current(r).id, "local")
    /\ Return(r, "failed")
    /\ Reading /\ UNCHANGED <<cand, pos>>

\* A failure that is no quota failure goes to the client as it is.
PassOn(r) ==
    /\ pc[r] = "wait"
    /\ LogAs(r, Current(r).id, "error")
    /\ Return(r, "passedOn")
    /\ Reading /\ UNCHANGED <<cand, pos>>

\* A failure the native handler cannot read: never classified.  (The adapter
\* takes an unreadable body as empty: PassOn, or RefuseForQuota on a 402.)
LoseFailure(r) ==
    /\ pc[r] = "wait" /\ ~call[r].adapter
    /\ LogAs(r, Current(r).id, "local")
    /\ Return(r, "failed")
    /\ Reading /\ UNCHANGED <<cand, pos>>

\* is_quota_error holds of the failure.
RefuseForQuota(r) ==
    /\ pc[r] = "wait"
    /\ Goto(r, "mark")
    /\ Reading /\ UNCHANGED <<logs, cand, pos, outcome>>

\* Slip: the mark waits for its row to be there.
MarkWhenPresent(r) ==
    /\ pc[r] = "mark" /\ accounts[Current(r).id].present
    /\ accounts' = [accounts EXCEPT ![Current(r).id].exhausted = TRUE]
    /\ Goto(r, "switch")
    /\ HandlerStep /\ UNCHANGED <<logs, cand, pos, outcome, budget>>

\* set_quota_exhausted(id, true): nothing happens to a deleted row, and a
\* failed write is only traced.
MarkExhausted(r) ==
    LET id == Current(r).id
    IN  /\ pc[r] = "mark"
        /\ \/ /\ accounts' = [accounts EXCEPT ![id].exhausted = accounts[id].present]
              /\ UNCHANGED budget
           \/ /\ budget["fault"] > 0
              /\ budget' = [budget EXCEPT !["fault"] = @ - 1]
              /\ UNCHANGED accounts
        /\ Goto(r, "switch")
        /\ HandlerStep /\ UNCHANGED <<logs, cand, pos, outcome>>

\* Slip: the loop runs past its last candidate.
LogSwitchPastEnd(r) ==
    /\ pc[r] = "switch"
    /\ LogAs(r, Current(r).id, "switched")
    /\ pos' = [pos EXCEPT ![r] = @ + 1]
    /\ Goto(r, IF pos[r] <= Len(cand[r]) THEN "try" ELSE "giveup")
    /\ Reading /\ UNCHANGED <<cand, outcome>>

\* Slip: the loop goes on before the refusal is logged.
LogSwitchSkipped(r) ==
    /\ pc[r] = "switch"
    /\ pos' = [pos EXCEPT ![r] = @ + 1]
    /\ Goto(r, IF pos[r] < Len(cand[r]) THEN "try" ELSE "giveup")
    /\ Reading /\ UNCHANGED <<logs, cand, outcome>>

\* The refusal is logged and the loop goes on, or ends.
LogSwitch(r) ==
    /\ pc[r] = "switch"
    /\ LogAs(r, Current(r).id, "switched")
    /\ pos' = [pos EXCEPT ![r] = @ + 1]
    /\ Goto(r, IF pos[r] < Len(cand[r]) THEN "try" ELSE "giveup")
    /\ Reading /\ UNCHANGED <<cand, outcome>>

\* Slip: the last refusal is returned without the closing row.
GiveUpSilently(r) ==
    /\ pc[r] = "giveup"
    /\ Return(r, "quota")
    /\ Reading /\ UNCHANGED <<logs, cand, pos>>

\* Every candidate refused: one more log row, and the last refusal returned.
GiveUp(r) ==
    /\ pc[r] = "giveup"
    /\ LogAs(r, cand[r][Len(cand[r])].id, "final")
    /\ Return(r, "quota")
    /\ Reading /\ UNCHANGED <<cand, pos>>

\* The client hangs up: the server drops the handler at the await it is at.
Disconnect(r) ==
    /\ pc[r] \in {"access", "try", "wait"}
    /\ Return(r, "gone")
    /\ Reading /\ UNCHANGED <<logs, cand, pos>>

Answer(r) ==
    \/ Unreachable(r) \/ Serve(r) \/ LoseReply(r)
    \/ PassOn(r) \/ LoseFailure(r) \/ RefuseForQuota(r)

Progress(r) ==
    \/ ValidateModelAccess(r) \/ SelectCandidates(r)
    \/ FailLocally(r) \/ FailUnlogged(r) \/ Send(r) \/ Answer(r)
    \/ MarkExhausted(r) \/ LogSwitch(r) \/ GiveUp(r)

Handle(r) ==
    RejectCredential(r) \/ Authenticate(r) \/ Progress(r) \/ Disconnect(r)

-----------------------------------------------------------------------------
(* account_monitor.rs and GET /api/keys/{id}/usage. *)

Spend(d) ==
    /\ budget[d] > 0
    /\ budget' = [budget EXCEPT ![d] = @ - 1]

\* Slip: the filter on cookie_enc is inverted.
MonitorTickInverted ==
    /\ task[Monitor].pc = "idle" /\ sweep = {}
    /\ sweep' = {a \in Account : /\ accounts[a].present /\ accounts[a].enabled
                                 /\ accounts[a].exhausted /\ ~accounts[a].cookie}
    /\ UNCHANGED <<accounts, disabled, issued, reqVars, task, edit, envVars>>

\* refresh_exhausted_accounts: the rows of this round, read once.
MonitorTick ==
    /\ task[Monitor].pc = "idle" /\ sweep = {}
    /\ sweep' = {a \in Account : /\ accounts[a].present /\ accounts[a].enabled
                                 /\ accounts[a].exhausted /\ accounts[a].cookie}
    /\ UNCHANGED <<accounts, disabled, issued, reqVars, task, edit, envVars>>

BeginQuery(t, a) ==
    task' = [task EXCEPT ![t] = [pc |-> "query", id |-> a, answer |-> "none"]]

\* The round goes on with its next row, in the order of no property here.
MonitorNext ==
    /\ task[Monitor].pc = "idle"
    /\ \E a \in sweep : BeginQuery(Monitor, a) /\ sweep' = sweep \ {a}
    /\ UNCHANGED <<accounts, disabled, issued, reqVars, edit, envVars>>

\* The API refreshes any account that has a Cookie.
QueryUsage(t) ==
    /\ t # Monitor /\ task[t].pc = "idle"
    /\ \E a \in Account :
          accounts[a].present /\ accounts[a].cookie /\ BeginQuery(t, a)
    /\ Spend("admin")
    /\ UNCHANGED <<accounts, disabled, issued, reqVars, sweep, edit, capacity>>

\* Cookie, proxy or upstream failure: the row is left as it is.
QueryFails(t) ==
    /\ task[t].pc = "query"
    /\ task' = [task EXCEPT ![t] = IdleTask]
    /\ UNCHANGED <<accounts, disabled, issued, reqVars, sweep, edit, envVars>>

\* The upstream reports its quota windows, or none that quota_available knows.
ReportQuota(t) ==
    /\ task[t].pc = "query"
    /\ \E known \in BOOLEAN :
          task' = [task EXCEPT ![t].pc = "apply", ![t].answer =
                     IF ~known THEN "unknown"
                     ELSE IF task[t].id \in capacity THEN "available" ELSE "spent"]
    /\ UNCHANGED <<accounts, disabled, issued, reqVars, sweep, edit, envVars>>

\* set_quota_exhausted(id, !available) unless the answer tells nothing.
ApplyUsage(t) ==
    LET a == task[t].id
    IN  /\ task[t].pc = "apply"
        /\ IF task[t].answer = "unknown"
           THEN UNCHANGED accounts
           ELSE accounts' = [accounts EXCEPT ![a].exhausted =
                                accounts[a].present /\ task[t].answer = "spent"]
        /\ task' = [task EXCEPT ![t] = IdleTask]
        /\ UNCHANGED <<disabled, issued, reqVars, sweep, edit, envVars>>

Refresh ==
    \/ MonitorTick \/ MonitorNext
    \/ \E t \in Task : QueryUsage(t) \/ QueryFails(t) \/ ReportQuota(t) \/ ApplyUsage(t)

-----------------------------------------------------------------------------
(* routes/keys.rs, models.rs and import_export.rs: the management API. *)

NewKey == issued' = issued + 1

\* update reads the row, and awaits before it writes.
UpdateRead(e, a, replace) ==
    /\ edit[e].pc = "idle" /\ accounts[a].present
    /\ edit' = [edit EXCEPT ![e] =
                  [pc |-> "write", id |-> a, replace |-> replace,
                   enabled |-> accounts[a].enabled, key |-> accounts[a].key]]
    /\ Spend("admin")
    /\ UNCHANGED <<accounts, disabled, issued, reqVars, taskVars, capacity>>

\* The name or the proxy is refused, the new key cannot be encrypted, or the
\* administrator hangs up.
UpdateFails(e) ==
    /\ edit[e].pc = "write"
    /\ edit' = [edit EXCEPT ![e] = IdleEdit]
    /\ UNCHANGED <<accounts, disabled, issued, reqVars, taskVars, envVars>>

\* update_key writes the row back as it was read, the new key excepted.
UpdateWrite(e) ==
    LET a == edit[e].id
        k == IF edit[e].replace THEN issued + 1 ELSE edit[e].key
    IN  /\ edit[e].pc = "write"
        /\ accounts' = IF accounts[a].present
                       THEN [accounts EXCEPT ![a].enabled = edit[e].enabled,
                                             ![a].key = k]
                       ELSE accounts
        /\ IF edit[e].replace
           THEN NewKey /\ edit' = [edit EXCEPT ![e].pc = "clear"]
           ELSE UNCHANGED issued /\ edit' = [edit EXCEPT ![e] = IdleEdit]
        /\ UNCHANGED <<disabled, reqVars, taskVars, envVars>>

\* set_quota_exhausted(id, false) after the key was replaced.
UpdateClear(e) ==
    /\ edit[e].pc = "clear"
    /\ accounts' = [accounts EXCEPT ![edit[e].id].exhausted = FALSE]
    /\ edit' = [edit EXCEPT ![e] = IdleEdit]
    /\ UNCHANGED <<disabled, issued, reqVars, taskVars, envVars>>

\* create, import_cookie and a row new to import: a fresh id, unmarked, no
\* model cache; only an imported file can bring a row switched off.
Create(a, cookie, on) ==
    /\ accounts[a].key = 0 /\ (cookie => on)
    /\ accounts' = [accounts EXCEPT ![a] =
                      [present |-> TRUE, enabled |-> on, exhausted |-> FALSE,
                       cookie |-> cookie, key |-> issued + 1, models |-> {}]]
    /\ NewKey

Delete(a) ==
    /\ accounts[a].present
    /\ accounts' = [accounts EXCEPT ![a] =
                      [present |-> FALSE, enabled |-> FALSE, exhausted |-> FALSE,
                       cookie |-> FALSE, key |-> accounts[a].key, models |-> {}]]
    /\ UNCHANGED issued

SetKeyEnabled(a, on) ==
    /\ accounts[a].present
    /\ accounts' = [accounts EXCEPT ![a].enabled = on]
    /\ UNCHANGED issued

\* Slip: an import clears the mark as an edit does.
ImportOverCleared(a, on) ==
    /\ accounts[a].present
    /\ accounts' = [accounts EXCEPT ![a].enabled = on, ![a].key = issued + 1,
                                    ![a].exhausted = FALSE]
    /\ NewKey

\* update_key_by_name: key and switch from the file, the mark untouched.
ImportOver(a, on) ==
    /\ accounts[a].present
    /\ accounts' = [accounts EXCEPT ![a].enabled = on, ![a].key = issued + 1]
    /\ NewKey

\* test: the models the upstream lists replace the row's cache.
SetModelCache(a, S) ==
    /\ accounts[a].present
    /\ accounts' = [accounts EXCEPT ![a].models = S]
    /\ UNCHANGED issued

ManageAccount ==
    /\ \E a \in Account :
          \/ \E cookie, on \in BOOLEAN : Create(a, cookie, on)
          \/ Delete(a)
          \/ \E on \in BOOLEAN : SetKeyEnabled(a, on) \/ ImportOver(a, on)
          \/ \E S \in SUBSET Model : SetModelCache(a, S)
    /\ Spend("admin")
    /\ UNCHANGED <<disabled, reqVars, taskVars, edit, capacity>>

SetModelEnabled(m) ==
    /\ Spend("admin")
    /\ disabled' \in {disabled \cup {m}, disabled \ {m}}
    /\ UNCHANGED <<accounts, issued, reqVars, taskVars, edit, capacity>>

Update(e) ==
    \/ \E a \in Account, replace \in BOOLEAN : UpdateRead(e, a, replace)
    \/ UpdateFails(e) \/ UpdateWrite(e) \/ UpdateClear(e)

-----------------------------------------------------------------------------
(* The process and its surroundings. *)

InFlight(r) == pc[r] \notin {"new", "done"}

\* The process dies and starts again: the tables are all that is left.
Restart ==
    /\ Spend("crash")
    /\ pc' = [r \in Request |-> IF InFlight(r) THEN "done" ELSE pc[r]]
    /\ outcome' = [r \in Request |-> IF InFlight(r) THEN "gone" ELSE outcome[r]]
    /\ task' = [t \in Task |-> IdleTask]
    /\ sweep' = {}
    /\ edit' = [e \in Editor |-> IdleEdit]
    /\ UNCHANGED <<accounts, disabled, logs, issued, call, cand, pos, capacity>>

\* An account's quota runs out upstream, or is back.
ShiftQuota(a) ==
    /\ Spend("upstream")
    /\ capacity' \in {capacity \cup {a}, capacity \ {a}}
    /\ UNCHANGED <<accounts, disabled, issued, reqVars, taskVars, edit>>

Next ==
    \/ \E r \in Request : Handle(r)
    \/ Refresh
    \/ \E e \in Editor : Update(e)
    \/ ManageAccount
    \/ \E m \in Model : SetModelEnabled(m)
    \/ Restart
    \/ \E a \in Account : ShiftQuota(a)

Spec == Init /\ [][Next]_vars

\* The runtime polls every handler and the monitor; every upstream exchange
\* ends, by its timeout if not by an answer; an account that is queried again
\* and again is answered now and then with quota windows.
Fairness ==
    /\ \A r \in Request : WF_vars(Progress(r))
    /\ WF_vars(MonitorTick) /\ WF_vars(MonitorNext)
    /\ \A t \in Task : /\ WF_vars(QueryFails(t) \/ ReportQuota(t))
                       /\ WF_vars(ApplyUsage(t))
    /\ \A a \in Account :
          SF_vars(/\ task[Monitor].id = a
                  /\ ReportQuota(Monitor)
                  /\ task'[Monitor].answer # "unknown")
    /\ \A e \in Editor : WF_vars(UpdateFails(e) \/ UpdateWrite(e) \/ UpdateClear(e))

FairSpec == Spec /\ Fairness

-----------------------------------------------------------------------------
(* Properties. *)

Passed(r) == pos[r] - 1

LoggedInOrder(r) ==
    /\ Len(logs[r]) >= Passed(r)
    /\ \A i \in 1..Passed(r) :
          logs[r][i] = [route |-> cand[r][i].id, kind |-> "switched"]
    /\ outcome[r] \in {"none", "gone"} => Len(logs[r]) = Passed(r)

\* The rows a call logs are exactly one "switched" row for each account that
\* refused it, in the order it tried them, before anything else; a call that
\* is still open or was cut off has logged nothing more (routes/proxy.rs: the
\* loop's log rows survive a disconnect and a crash between mark and log).
RefusalsLoggedInOrder == \A r \in Request : LoggedInOrder(r)

Closing(r) == logs[r][Len(logs[r])]
AnswerLogged(r) ==
    /\ outcome[r] \in {"refused", "served", "passedOn", "quota"} =>
          Len(logs[r]) = Passed(r) + 1
    /\ outcome[r] = "served" =>
          pos[r] <= Len(cand[r]) /\ Closing(r) = [route |-> Current(r).id, kind |-> "ok"]
    /\ outcome[r] = "passedOn" =>
          pos[r] <= Len(cand[r]) /\ Closing(r) = [route |-> Current(r).id, kind |-> "error"]
    /\ outcome[r] = "quota" =>
          /\ Passed(r) = Len(cand[r]) /\ cand[r] # <<>>
          /\ Closing(r) = [route |-> cand[r][Passed(r)].id, kind |-> "final"]
    /\ outcome[r] = "refused" => cand[r] = <<>> /\ Closing(r).route = NoRoute

\* What the client got is what the last row says: an upstream answer is logged
\* once, with the account that gave it; a quota failure reaches the client only
\* after every candidate of the snapshot refused and the closing row names the
\* last; a call turned away names no account (routes/proxy.rs:55-338).
AnswerMatchesLog == \A r \in Request : AnswerLogged(r)

Ids(r) == {cand[r][i].id : i \in DOMAIN cand[r]}

\* README.md:64, a conversation and model keep to one account: two calls of one
\* affinity are sent to the same account first, whatever happened to the pool
\* between them, as long as each could have used the other's choice.
ConversationKeepsAccount ==
    \A q, r \in Request :
        /\ AffinityOf(call[q]) = AffinityOf(call[r])
        /\ cand[q] # <<>> /\ cand[r] # <<>>
        /\ cand[q][1].id \in Ids(r) /\ cand[r][1].id \in Ids(q)
        => cand[q][1].id = cand[r][1].id

\* What may clear the mark of account a in a step.
QuotaSeen(a) ==
    \E t \in Task : /\ task[t] = [pc |-> "apply", id |-> a, answer |-> "available"]
                    /\ task'[t].pc = "idle"
KeyReplaced(a) ==
    \E e \in Editor : /\ edit[e].pc = "clear" /\ edit[e].id = a /\ edit[e].replace
                      /\ edit'[e].pc = "idle"
MarkStep(a) ==
    accounts[a].exhausted /\ accounts'[a].present /\ ~accounts'[a].exhausted
    => QuotaSeen(a) \/ KeyReplaced(a)

\* An account out of quota stays out of routing, through restarts too, until a
\* usage query finds quota or an edit brings a new key.  This is less than the
\* code's own words promise: db.rs:56-57 has the mark "cleared only by an internal
\* quota refresh that confirms capacity is available again", and README.md:65 says
\* so of every account with a Cookie.  keys.rs:186-188 contradicts both, for it
\* clears the mark of any account whose key is replaced; KeyReplaced is this
\* divergence, and nothing besides.
MarkClearedOnlyOnEvidence == [][\A a \in Account : MarkStep(a)]_vars

Routable == {a \in Account : /\ accounts[a].present /\ accounts[a].enabled
                             /\ ~accounts[a].exhausted}
Offered == [r \in Request |-> Ids(r)]
PassedIds(r) == {cand[r][i].id : i \in 1..Passed(r)}
PassedBy == [r \in Request |-> PassedIds(r)]
Contract == INSTANCE FailoverContract
    WITH routable <- Routable, offered <- Offered, passed <- PassedBy

\* The gateway keeps the contract of FailoverContract: its calls are offered
\* routable accounts only, pass each at most once and give up when none is left.
ContractSpec == Contract!Spec

\* Every call that got past authentication ends.
CallsEnd == \A r \in Request : (pc[r] = "access") ~> (pc[r] = "done")

\* README.md:65, an account imported with a Cookie whose quota is back for good
\* comes back into routing again and again, however often it was marked.
CookieAccountsReturn ==
    \A a \in Account :
        <>[](/\ accounts[a].present /\ accounts[a].enabled
             /\ accounts[a].cookie /\ a \in capacity)
        => []<>(~accounts[a].exhausted)

\* Account a, without a Cookie, was refused under a key that an edit has since
\* replaced; the edit is over and its mark is off.
RefusedUnder(r, a, k) == \E i \in 1..Passed(r) : cand[r][i] = [id |-> a, key |-> k]
Refilled(a) ==
    /\ accounts[a].present /\ ~accounts[a].cookie /\ ~accounts[a].exhausted
    /\ \A e \in Editor : edit[e].id # a
    /\ \E r \in Request, k \in 1..(accounts[a].key - 1) : RefusedUnder(r, a, k)

\* README.md:67, an exhausted account without a Cookie is back once its key has
\* been replaced: only a refusal of the new key puts it out of routing again.
\* (A usage query says "spent" of accounts with a Cookie alone.)
RefilledAccountStays ==
    [][\A a \in Account : Refilled(a) /\ accounts'[a].exhausted =>
          \E r \in Request : /\ pc[r] = "mark" /\ pc'[r] = "switch"
                            /\ Current(r) = [id |-> a, key |-> accounts[a].key]]_vars
=============================================================================
