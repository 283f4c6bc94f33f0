---------------------- MODULE QuotaFailover_refinement ----------------------
(***************************************************************************)
(* QuotaFailover implements FailoverContract: every step of the gateway is *)
(* a step of the contract or changes nothing the contract speaks of.       *)
(***************************************************************************)
EXTENDS QuotaFailover_proofs

-----------------------------------------------------------------------------
(* The accounts a call is offered and those it has passed. *)

LEMMA CandidatesAreAccounts ==
    ASSUME TypeOK, NEW r \in Request
    PROVE  /\ Ids(r) \in SUBSET Account
           /\ PassedIds(r) \in SUBSET Ids(r)
  <1>1. cand[r] \in Seq(Candidate) /\ pos[r] \in Nat \ {0} /\ pos[r] <= Len(cand[r]) + 1
    BY DEF TypeOK, InPlace
  <1>2. \A i \in DOMAIN cand[r] : cand[r][i].id \in Account
    <2> SUFFICES ASSUME NEW i \in DOMAIN cand[r]
                 PROVE  cand[r][i].id \in Account
      OBVIOUS
    <2>1. cand[r][i] \in Candidate
      BY <1>1
    <2>2. QED
      BY <2>1 DEF Candidate
  <1>3. 1..Passed(r) \subseteq DOMAIN cand[r]
    BY <1>1 DEF Passed
  <1>4. QED
    BY <1>2, <1>3 DEF Ids, PassedIds

\* No account stands twice among the candidates of a call.
LEMMA CandidatesDistinct ==
    ASSUME TypeOK, NEW r \in Request, RouteOrdered(r),
           NEW i \in DOMAIN cand[r], NEW j \in DOMAIN cand[r],
           cand[r][i].id = cand[r][j].id
    PROVE  i = j
  <1> DEFINE w == Weight[AffinityOf(call[r])][cand[r][i].id]
  <1>1. cand[r] \in Seq(Candidate)
    BY DEF TypeOK
  <1>2. cand[r][i] \in Candidate /\ i \in Nat /\ j \in Nat
    BY <1>1
  <1>3. w \in Nat
    BY <1>2, AffinityTyped DEF Candidate
  <1>4. i < j => w > w
    BY DEF RouteOrdered
  <1>5. j < i => w > w
    BY DEF RouteOrdered
  <1> HIDE DEF w
  <1>6. QED
    BY <1>2, <1>3, <1>4, <1>5

\* The candidate a call is at has not been passed.
LEMMA CurrentNotPassed ==
    ASSUME TypeOK, NEW r \in Request, RouteOrdered(r), pc[r] \in Looping
    PROVE  Current(r).id \in Ids(r) \ PassedIds(r)
  <1>1. pos[r] \in 1..Len(cand[r]) /\ cand[r] \in Seq(Candidate)
    BY CurrentIsCandidate DEF TypeOK
  <1>2. Current(r).id \in Ids(r)
    BY <1>1 DEF Current, Ids
  <1>3. ASSUME NEW i \in 1..Passed(r), cand[r][i].id = Current(r).id
        PROVE  FALSE
    <2>1. i \in DOMAIN cand[r] /\ pos[r] \in DOMAIN cand[r] /\ i # pos[r]
      BY <1>1 DEF Passed
    <2>2. QED
      BY <1>3, <2>1, CandidatesDistinct DEF Current
  <1>4. QED
    BY <1>2, <1>3 DEF PassedIds

\* What a call is offered and has passed follows from cand and pos alone.
LEMMA MappingFrame ==
    ASSUME UNCHANGED <<cand, pos>>
    PROVE  Offered' = Offered /\ PassedBy' = PassedBy
  BY DEF Offered, PassedBy, Ids, PassedIds, Passed

LEMMA RoutableFrame ==
    ASSUME UNCHANGED accounts
    PROVE  Routable' = Routable
  BY DEF Routable

-----------------------------------------------------------------------------
(* How the steps of the gateway look to the contract. *)

\* The calls' side of the contract.
CallsSame == Offered' = Offered /\ PassedBy' = PassedBy /\ outcome' = outcome

\* The pool may change in any way when no call does.
LEMMA Repools ==
    ASSUME CallsSame
    PROVE  Contract!Repool
  BY DEF CallsSame, Contract!Repool, Routable

\* A call ends that is not ended.
LEMMA Decides ==
    ASSUME TypeOK, NEW r \in Request, NEW o \in Outcome \ {"none"}, pc[r] # "done",
           Return(r, o), UNCHANGED <<accounts, cand, pos>>,
           o = "refused" => Ids(r) = {},
           o \in {"served", "passedOn", "failed"} => PassedIds(r) # Ids(r),
           o = "quota" => Ids(r) # {} /\ PassedIds(r) = Ids(r)
    PROVE  Contract!Decide(r)
  <1>1. outcome[r] = "none" /\ outcome' = [outcome EXCEPT ![r] = o]
    BY DEF TypeOK, InPlace, Return
  <1>2. o \in Contract!Outcome
    BY DEF Outcome, Contract!Outcome
  <1>3. Offered[r] = Ids(r) /\ PassedBy[r] = PassedIds(r)
    BY DEF Offered, PassedBy
  <1>4. UNCHANGED <<Routable, Offered, PassedBy>>
    BY MappingFrame, RoutableFrame
  <1>5. QED
    BY <1>1, <1>2, <1>3, <1>4 DEF Contract!Decide

LEMMA Offers ==
    ASSUME TypeOK, NEW r \in Request, SelectCandidates(r), cand' # cand
    PROVE  Contract!Offer(r)
  <1> DEFINE S == Healthy(accounts, Matching(accounts, call[r].model))
  <1>1. /\ pc[r] = "route" /\ outcome[r] = "none" /\ cand[r] = <<>> /\ pos[r] = 1
        /\ UNCHANGED <<accounts, pos, outcome>>
    <2>1. pc[r] = "route" /\ UNCHANGED <<accounts, pos, outcome>>
      BY DEF SelectCandidates, Reading
    <2>2. QED
      BY <2>1 DEF TypeOK, InPlace
  <1>2. PICK s : cand' = [cand EXCEPT ![r] = s]
    BY DEF SelectCandidates
  <1>3. cand'[r] = s /\ \A q \in Request : q # r => cand'[q] = cand[q]
    BY <1>2 DEF TypeOK
  <1>4. cand'[r] # cand[r]
    BY <1>2, <1>3 DEF TypeOK
  <1>5. S # {} /\ {s[i].id : i \in DOMAIN s} = S
    BY <1>3, <1>4, SnapshotOrdered DEF InRouteOrder
  <1>6. S \subseteq Routable
    BY DEF Healthy, Matching, Routable
  <1>7. Offered' = [Offered EXCEPT ![r] = S]
    <2>1. Ids(r)' = S
      BY <1>3, <1>5 DEF Ids
    <2>2. \A q \in Request : q # r => Ids(q)' = Ids(q)
      BY <1>3 DEF Ids
    <2> HIDE DEF S
    <2>3. QED
      BY <2>1, <2>2 DEF Offered
  <1>8. PassedBy' = PassedBy
    <2>1. PassedIds(r) = {} /\ PassedIds(r)' = {}
      BY <1>1 DEF PassedIds, Passed
    <2>2. \A q \in Request : PassedIds(q)' = PassedIds(q)
      BY <1>1, <1>3, <2>1 DEF PassedIds, Passed
    <2>3. QED
      BY <2>2 DEF PassedBy
  <1>9. Offered[r] = {}
    BY <1>1 DEF Offered, Ids
  <1>10. Routable' = Routable
    BY <1>1, RoutableFrame
  <1> HIDE DEF S
  <1>11. QED
    BY <1>1, <1>5, <1>6, <1>7, <1>8, <1>9, <1>10 DEF Contract!Offer

LEMMA Passes ==
    ASSUME TypeOK, NEW r \in Request, RouteOrdered(r), LogSwitch(r)
    PROVE  Contract!Pass(r)
  <1> DEFINE a == Current(r).id
  <1>1. /\ pc[r] = "switch" /\ outcome[r] = "none" /\ pos[r] \in Nat \ {0}
        /\ pos' = [pos EXCEPT ![r] = pos[r] + 1]
        /\ UNCHANGED <<accounts, cand, outcome>>
    BY DEF LogSwitch, Reading, TypeOK, InPlace
  <1>2. a \in Ids(r) \ PassedIds(r)
    BY <1>1, CurrentNotPassed DEF Looping
  <1>3. PassedIds(r)' = PassedIds(r) \cup {a}
    <2>1. Passed(r)' = Passed(r) + 1 /\ Passed(r) \in Nat /\ pos[r] = Passed(r) + 1
      BY <1>1 DEF Passed, TypeOK
    <2>2. 1..(Passed(r) + 1) = 1..Passed(r) \cup {pos[r]}
      BY <2>1
    <2>3. PassedIds(r)' = {cand[r][i].id : i \in 1..(Passed(r) + 1)}
      BY <1>1, <2>1 DEF PassedIds
    <2>4. QED
      BY <2>2, <2>3 DEF PassedIds, Current
  <1>4. \A q \in Request : q # r => PassedIds(q)' = PassedIds(q)
    BY <1>1 DEF PassedIds, Passed, TypeOK
  <1>5. PassedBy' = [PassedBy EXCEPT ![r] = PassedBy[r] \cup {a}]
    BY <1>3, <1>4 DEF PassedBy
  <1>6. Offered' = Offered /\ Routable' = Routable
    BY <1>1, RoutableFrame DEF Offered, Ids
  <1>7. a \in Offered[r] \ PassedBy[r]
    BY <1>2 DEF Offered, PassedBy
  <1> HIDE DEF a
  <1>8. QED
    BY <1>1, <1>5, <1>6, <1>7 DEF Contract!Pass

LEMMA Aborts ==
    ASSUME TypeOK, Restart
    PROVE  Contract!Abort
  <1> DEFINE S == {r \in Request : InFlight(r)}
  <1>1. UNCHANGED <<Routable, Offered, PassedBy>>
    BY MappingFrame, RoutableFrame DEF Restart
  <1>2. S \in SUBSET {r \in Request : outcome[r] = "none"}
    BY DEF InFlight, TypeOK, InPlace
  <1>3. outcome' = [r \in Request |-> IF r \in S THEN "gone" ELSE outcome[r]]
    BY DEF Restart
  <1> HIDE DEF S
  <1>4. QED
    BY <1>1, <1>2, <1>3 DEF Contract!Abort

LEMMA HandlerImplements ==
    ASSUME TypeOK, NEW r \in Request, RouteOrdered(r), Handle(r)
    PROVE  [Contract!Next]_Contract!vars
  <1> DEFINE Ends == \E o \in Outcome \ {"none"} :
               /\ Return(r, o)
               /\ o = "refused" => Ids(r) = {}
               /\ o \in {"served", "passedOn", "failed"} => PassedIds(r) # Ids(r)
               /\ o = "quota" => Ids(r) # {} /\ PassedIds(r) = Ids(r)
  <1>1. pc[r] \in {"try", "wait", "mark", "switch"} => PassedIds(r) # Ids(r)
    BY CurrentNotPassed DEF Looping
  <1>2. pc[r] \in {"new", "access", "route"} => Ids(r) = {}
    BY DEF TypeOK, InPlace, Ids
  <1>3. ASSUME Ends, pc[r] # "done", UNCHANGED <<accounts, cand, pos>>
        PROVE  Contract!Next
    <2>1. Contract!Decide(r)
      BY <1>3, Decides
    <2>2. QED
      BY <2>1 DEF Contract!Next
  <1>4. ASSUME UNCHANGED <<accounts, cand, pos, outcome>>
        PROVE  UNCHANGED Contract!vars
    BY <1>4, MappingFrame, RoutableFrame DEF Contract!vars
  <1>5. CASE RejectCredential(r)
    BY <1>2, <1>3, <1>5 DEF RejectCredential, Reading, Outcome
  <1>6. CASE Authenticate(r) \/ Send(r) \/ RefuseForQuota(r)
    BY <1>4, <1>6 DEF Authenticate, Send, RefuseForQuota, Reading
  <1>7. CASE ValidateModelAccess(r)
    BY <1>2, <1>3, <1>4, <1>7 DEF ValidateModelAccess, Reading, Outcome
  <1>8. CASE SelectCandidates(r)
    <2>1. CASE cand' = cand
      <3>1. CASE UNCHANGED outcome
        BY <1>4, <1>8, <2>1, <3>1 DEF SelectCandidates, Reading
      <3>2. CASE ~UNCHANGED outcome
        BY <1>2, <1>3, <1>8, <2>1, <3>2 DEF SelectCandidates, Reading, Outcome
      <3>3. QED
        BY <3>1, <3>2
    <2>2. CASE cand' # cand
      BY <1>8, <2>2, Offers DEF Contract!Next
    <2>3. QED
      BY <2>1, <2>2
  <1>9. CASE FailLocally(r) \/ FailUnlogged(r) \/ Unreachable(r) \/ LoseFailure(r) \/ LoseReply(r)
    BY <1>1, <1>3, <1>9
       DEF FailLocally, FailUnlogged, Unreachable, LoseFailure, LoseReply, Reading, Outcome
  <1>10. CASE Serve(r) \/ PassOn(r)
    BY <1>1, <1>3, <1>10 DEF Serve, PassOn, Reading, Outcome
  <1>11. CASE MarkExhausted(r)
    BY <1>11, MappingFrame, Repools DEF MarkExhausted, CallsSame, Contract!Next
  <1>12. CASE LogSwitch(r)
    BY <1>12, Passes DEF Contract!Next
  <1>13. CASE GiveUp(r)
    <2>1. /\ pc[r] = "giveup" /\ cand[r] \in Seq(Candidate) /\ cand[r] # <<>>
          /\ pos[r] = Len(cand[r]) + 1
      BY <1>13 DEF GiveUp, TypeOK, InPlace
    <2>2. 1..Passed(r) = DOMAIN cand[r] /\ 1 \in DOMAIN cand[r]
      BY <2>1 DEF Passed
    <2>3. Ids(r) # {} /\ PassedIds(r) = Ids(r)
      BY <2>2 DEF Ids, PassedIds
    <2>4. QED
      BY <1>3, <1>13, <2>3 DEF GiveUp, Reading, Outcome
  <1>14. CASE Disconnect(r)
    BY <1>3, <1>14 DEF Disconnect, Reading, Outcome
  <1>15. QED
    BY <1>5, <1>6, <1>7, <1>8, <1>9, <1>10, <1>11, <1>12, <1>13, <1>14
       DEF Handle, Progress, Answer

\* The gateway implements the contract: calls are offered only accounts that
\* take part in routing, move past each at most once, and give up for quota
\* only when every one refused (src/routes/proxy.rs:91-338).
THEOREM ContractImplemented == Spec => ContractSpec
  <1>1. Init => Contract!Init
    <2> SUFFICES ASSUME Init
                 PROVE  Contract!Init
      OBVIOUS
    <2>1. \A r \in Request : Ids(r) = {} /\ PassedIds(r) = {}
      BY DEF Init, Ids, PassedIds, Passed
    <2>2. Offered = [r \in Request |-> {}] /\ PassedBy = [r \in Request |-> {}]
      BY <2>1 DEF Offered, PassedBy
    <2>3. Routable \in SUBSET Account
      BY DEF Routable
    <2>4. outcome = [r \in Request |-> "none"]
      BY DEF Init
    <2>5. QED
      BY <2>2, <2>3, <2>4 DEF Contract!Init
  <1>2. TypeOK /\ (\A r \in Request : RouteOrdered(r)) /\ [Next]_vars
        => [Contract!Next]_Contract!vars
    <2> SUFFICES ASSUME TypeOK, \A r \in Request : RouteOrdered(r), [Next]_vars
                 PROVE  [Contract!Next]_Contract!vars
      OBVIOUS
    <2>1. CASE \E r \in Request : Handle(r)
      BY <2>1, HandlerImplements
    <2>2. CASE Restart
      BY <2>2, Aborts DEF Contract!Next
    <2>3. CASE UNCHANGED reqVars
      BY <2>3, MappingFrame, Repools DEF reqVars, CallsSame, Contract!Next
    <2>4. QED
      BY <2>1, <2>2, <2>3 DEF Next, vars, reqVars, Refresh, MonitorTick, MonitorNext, QueryUsage,
         QueryFails, ReportQuota, ApplyUsage, Update, UpdateRead, UpdateFails, UpdateWrite, UpdateClear,
         ManageAccount, SetModelEnabled, ShiftQuota
  <1>3. QED
    BY <1>1, <1>2, TypeCorrect, RouteOrder, PTL DEF Spec, ContractSpec, Contract!Spec
=============================================================================
