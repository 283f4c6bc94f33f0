------------------------ MODULE UpstreamAccount_proofs ------------------------
(***************************************************************************)
(* Proofs about UpstreamAccount, for any number of requests, rewards and    *)
(* scripts: what the answers to a change of the region switch are worth,    *)
(* that changes and claims can be repeated, and what the search through the *)
(* scripts finds.                                                           *)
(***************************************************************************)
EXTENDS UpstreamAccount, WellFoundedInduction, TLAPS

IsSet(q) == q.pc # "idle" /\ q.op.kind = "set"
IsClaim(q) == q.pc # "idle" /\ q.op.kind = "claim"

\* What is true of a request at all times.
Fine(q) ==
    /\ q.pc \in {"fetch", "query"} => q.reply = "none"
    /\ q.pc = "posted" => q.op.kind \in {"set", "claim"}
    /\ q.pc = "confirm" => q.op.kind = "set"
    /\ IsSet(q) => q.op.want \in asked /\ (q.op.want = region => q.met)
    /\ IsSet(q) /\ q.pc = "posted" => q.reading # q.op.want
    /\ IsSet(q) /\ q.pc = "posted" /\ q.reply = "none" /\ ~q.disturbed => region = q.reading
    /\ IsSet(q) /\ q.pc = "posted" /\ q.reply # "none" /\ ~q.disturbed => region = q.op.want
    /\ IsSet(q) /\ q.pc = "confirm" /\ ~q.disturbed => region = q.op.want
    /\ IsClaim(q) /\ q.taken => reward[q.op.id] = "applied"
    /\ IsClaim(q) /\ q.pc = "posted" => ~q.taken

\* A post whose request has gone leaves the switch where somebody wanted it.
LateAsked == \A p \in late : "value" \in DOMAIN p => (~p.value) \in asked

Inv == Types /\ LateAsked /\ \A r \in Request : Fine(req[r])

-----------------------------------------------------------------------------
(* Types. *)

LEMMA IdleType == Idle \in RequestState /\ Idle.pc = "idle"
  BY DEF Idle, RequestState, PC, Op

LEMMA IdleFine == Fine(Idle)
  BY DEF Idle, Fine, IsSet, IsClaim

LEMMA OpType ==
    ASSUME NEW op \in Op
    PROVE  /\ op.kind \in {"get", "list", "set", "claim"}
           /\ op.kind = "set" => op.want \in BOOLEAN
           /\ op.kind = "claim" => op.id \in Reward
  BY DEF Op

LEMMA PostedType ==
    ASSUME Inv, NEW r \in Request, At(r, "posted")
    PROVE  /\ Posted(r) \in Post
           /\ "value" \in DOMAIN Posted(r) <=> req[r].op.kind = "set"
           /\ "id" \in DOMAIN Posted(r) <=> req[r].op.kind # "set"
           /\ req[r].op.kind = "set" => /\ Posted(r).value = req[r].reading
                                        /\ (~Posted(r).value) = req[r].op.want
                                        /\ (~Posted(r).value) \in asked
           /\ req[r].op.kind # "set" => /\ Posted(r).id = req[r].op.id
                                        /\ req[r].op.kind = "claim"
  <1>1. req[r] \in RequestState /\ Fine(req[r])
    BY DEF Inv, Types
  <1>2. req[r].op \in Op /\ req[r].reading \in BOOLEAN /\ req[r].pc = "posted"
    BY <1>1 DEF RequestState, At
  <1>3. CASE req[r].op.kind = "set"
    <2>1. Posted(r) = [value |-> req[r].reading]
      BY <1>3 DEF Posted
    <2>2. req[r].op.want \in BOOLEAN /\ req[r].reading # req[r].op.want
          /\ req[r].op.want \in asked
      BY <1>1, <1>2, <1>3, OpType DEF Fine, IsSet
    <2>3. (~req[r].reading) = req[r].op.want
      BY <1>2, <2>2
    <2>4. QED
      BY <1>2, <1>3, <2>1, <2>2, <2>3 DEF Post
  <1>4. CASE req[r].op.kind # "set"
    <2>1. Posted(r) = [id |-> req[r].op.id]
      BY <1>4 DEF Posted
    <2>2. req[r].op.kind = "claim" /\ req[r].op.id \in Reward
      BY <1>1, <1>2, <1>4, OpType DEF Fine
    <2>3. QED
      BY <1>4, <2>1, <2>2 DEF Post
  <1>5. QED
    BY <1>3, <1>4

-----------------------------------------------------------------------------
(* Steps of a request that leave the upstream alone. *)

\* One request becomes q, and may leave its post on the wire.
LEMMA OneChanges ==
    ASSUME Inv, NEW r \in Request, NEW q \in RequestState, Fine(q),
           req' = [req EXCEPT ![r] = q], answer' \in [Request -> Answer],
           UNCHANGED <<upstream, asked>>,
           late' = late \/ (At(r, "posted") /\ late' = late \cup {Posted(r)})
    PROVE  Inv'
  <1>1. Types /\ LateAsked /\ \A s \in Request : Fine(req[s])
    BY DEF Inv
  <1>2. late' \subseteq Post /\ LateAsked'
    BY <1>1, PostedType DEF Types, LateAsked, upstream
  <1>3. Types'
    BY <1>1, <1>2 DEF Types, upstream
  <1>4. ASSUME NEW s \in Request PROVE Fine(req[s])'
    <2>1. req'[s] = q \/ req'[s] = req[s]
      BY <1>1 DEF Types
    <2>2. Fine(req'[s])
      BY <1>1, <2>1
    <2>3. QED
      BY <2>2 DEF Fine, IsSet, IsClaim, upstream
  <1>5. QED
    BY <1>2, <1>3, <1>4 DEF Inv

LEMMA AnsweredKeeps ==
    ASSUME Inv, NEW r \in Request, NEW a \in Answer, Answered(r, a),
           UNCHANGED <<upstream, asked>>,
           late' = late \/ (At(r, "posted") /\ late' = late \cup {Posted(r)})
    PROVE  Inv'
  <1>1. req' = [req EXCEPT ![r] = Idle] /\ answer' \in [Request -> Answer]
    BY DEF Answered, Inv, Types
  <1>2. QED
    BY <1>1, IdleType, IdleFine, OneChanges

LEMMA BecomesKeeps ==
    ASSUME Inv, NEW r \in Request, NEW q \in RequestState, Fine(q),
           Becomes(r, q), Quietly
    PROVE  Inv'
  <1>1. answer' \in [Request -> Answer]
    BY DEF Becomes, Inv, Types
  <1>2. QED
    BY <1>1, OneChanges DEF Becomes, Quietly

\* A request goes on, with what it is to do and its history as they are.
LEMMA MovesFine ==
    ASSUME Inv, NEW r \in Request, NEW p \in PC
    PROVE  LET q == [req[r] EXCEPT !.pc = p] IN
           /\ q \in RequestState
           /\ q.pc = p /\ q.op = req[r].op /\ q.reading = req[r].reading
           /\ q.reply = req[r].reply /\ q.met = req[r].met
           /\ q.disturbed = req[r].disturbed /\ q.taken = req[r].taken
  <1>1. req[r] \in RequestState
    BY DEF Inv, Types
  <1>2. QED
    BY <1>1 DEF RequestState

LEMMA AnswersAreAnswers ==
    {"ok", "unsupported", "refused", "failed", "notfound", "unsaved", "missing",
     "conflict", "unconfirmed"} \subseteq Answer
  BY DEF Answer

\* One request becomes q, and more values have been asked for.
LEMMA WidensKeeps ==
    ASSUME Inv, NEW r \in Request, NEW q \in RequestState, Fine(q)',
           req' = [req EXCEPT ![r] = q], answer' \in [Request -> Answer],
           UNCHANGED <<upstream, late>>, asked \subseteq asked', asked' \subseteq BOOLEAN
    PROVE  Inv'
  <1>1. Types /\ LateAsked /\ \A s \in Request : Fine(req[s])
    BY DEF Inv
  <1>2. Types' /\ LateAsked'
    BY <1>1 DEF Types, LateAsked, upstream
  <1>3. ASSUME NEW s \in Request PROVE Fine(req[s])'
    <2>1. req'[s] = q \/ req'[s] = req[s]
      BY <1>1 DEF Types
    <2>2. CASE req'[s] = q
      BY <2>2 DEF Fine, IsSet, IsClaim
    <2>3. CASE req'[s] = req[s]
      BY <1>1, <2>3 DEF Fine, IsSet, IsClaim, upstream
    <2>4. QED
      BY <2>1, <2>2, <2>3
  <1>4. QED
    BY <1>2, <1>3 DEF Inv

LEMMA BeginKeeps ==
    ASSUME Inv, NEW r \in Request, NEW op \in Op, Begin(r, op)
    PROVE  Inv'
  <1>1. /\ asked' = IF op.kind = "set" THEN asked \cup {op.want} ELSE asked
        /\ asked \subseteq asked' /\ UNCHANGED <<upstream, late>>
    BY DEF Begin
  <1>2. asked' \subseteq BOOLEAN
    BY <1>1, OpType DEF Inv, Types
  <1>3. answer' \in [Request -> Answer]
    BY AnswersAreAnswers DEF Begin, Answered, Inv, Types, Answer
  <1>5. Begun(op) \in RequestState
    <2> DEFINE m == op.kind = "set" /\ op.want = region
               t == op.kind = "claim" /\ reward[op.id] = "applied"
    <2>1. m \in BOOLEAN /\ t \in BOOLEAN
      OBVIOUS
    <2>2. Begun(op) = [pc |-> "fetch", op |-> op, reading |-> FALSE, reply |-> "none",
                       met |-> m, disturbed |-> FALSE, taken |-> t]
      BY DEF Begun
    <2> HIDE DEF m, t
    <2>3. QED
      BY <2>1, <2>2 DEF RequestState, PC
  <1>6. PICK x \in RequestState :
          /\ req' = [req EXCEPT ![r] = x]
          /\ \/ x = Idle
             \/ /\ x.pc = "fetch" /\ x.op = op /\ x.reply = "none"
                /\ op.kind = "set" /\ op.want = region => x.met
                /\ op.kind = "claim" /\ x.taken => reward[op.id] = "applied"
    <2>1. CASE req' = [req EXCEPT ![r] = Begun(op)]
      BY <1>5, <2>1 DEF Begun
    <2>2. CASE req' = [req EXCEPT ![r] = Idle]
      BY <2>2, IdleType
    <2>3. QED
      BY <2>1, <2>2 DEF Begin, Answered
  <1>7. CASE x = Idle
    <2>1. Fine(x)'
      BY <1>7 DEF Idle, Fine, IsSet, IsClaim
    <2>2. QED
      BY <1>1, <1>2, <1>3, <1>6, <2>1, WidensKeeps
  <1>8. CASE x # Idle
    <2>1. Fine(x)'
      BY <1>1, <1>6, <1>8, OpType DEF Fine, IsSet, IsClaim, upstream
    <2>2. QED
      BY <1>1, <1>2, <1>3, <1>6, <2>1, WidensKeeps
  <1>9. QED
    BY <1>7, <1>8

LEMMA HandleKeeps ==
    ASSUME Inv, NEW r \in Request, Handle(r)
    PROVE  Inv'
  <1>1. /\ req[r] \in RequestState /\ Fine(req[r])
        /\ req[r].op \in Op /\ region \in BOOLEAN
    BY DEF Inv, Types, RequestState
  <1>2. ASSUME NEW a \in Answer, Answered(r, a), Quietly PROVE Inv'
    BY <1>2, AnsweredKeeps DEF Quietly
  <1>3. CASE Discover(r)
    <2>1. CASE Goto(r, "query")
      <3>1. Fine([req[r] EXCEPT !.pc = "query"])
        BY <1>1, <1>3, MovesFine DEF Discover, At, Fine, IsSet, IsClaim, PC
      <3>2. QED
        BY <1>3, <2>1, <3>1, MovesFine, BecomesKeeps DEF Discover, Goto, PC
    <2>2. QED
      BY <1>2, <1>3, <2>1, AnswersAreAnswers DEF Discover
  <1>4. CASE QueryFails(r)
    BY <1>2, <1>4, AnswersAreAnswers DEF QueryFails
  <1>5. CASE ReadRegion(r)
    <2> DEFINE q == [req[r] EXCEPT !.pc = "posted", !.reading = region, !.disturbed = FALSE]
    <2>1. CASE req[r].op.kind = "set" /\ req[r].op.want # region /\ Becomes(r, q)
      <3>1. /\ q \in RequestState /\ q.pc = "posted" /\ q.op = req[r].op
            /\ q.reading = region /\ q.reply = req[r].reply /\ q.met = req[r].met
        BY <1>1 DEF RequestState, PC
      <3>2. Fine(q)
        BY <1>1, <1>5, <2>1, <3>1 DEF ReadRegion, At, Fine, IsSet, IsClaim
      <3>3. QED
        BY <1>5, <2>1, <3>1, <3>2, BecomesKeeps DEF ReadRegion
    <2>2. QED
      BY <1>2, <1>5, <2>1, AnswersAreAnswers DEF ReadRegion, Routing
  <1>6. CASE Confirm(r)
    BY <1>2, <1>6, AnswersAreAnswers DEF Confirm
  <1>7. CASE ReadRewards(r)
    <2>1. CASE req[r].op.kind = "claim" /\ Claimable(reward[req[r].op.id]) /\ Goto(r, "posted")
      <3>1. Fine([req[r] EXCEPT !.pc = "posted"])
        BY <1>1, <1>7, <2>1, MovesFine
        DEF ReadRewards, At, Claimable, Fine, IsSet, IsClaim, PC
      <3>2. QED
        BY <1>7, <2>1, <3>1, MovesFine, BecomesKeeps DEF ReadRewards, Goto, PC
    <2>2. QED
      BY <1>2, <1>7, <2>1, AnswersAreAnswers DEF ReadRewards
  <1>8. CASE TakeReply(r)
    <2>1. CASE req[r].reply # "error" /\ req[r].op.kind # "claim" /\ Goto(r, "confirm")
      <3>1. Fine([req[r] EXCEPT !.pc = "confirm"])
        BY <1>1, <1>8, <2>1, MovesFine DEF TakeReply, At, Fine, IsSet, IsClaim, PC
      <3>2. QED
        BY <1>8, <2>1, <3>1, MovesFine, BecomesKeeps DEF TakeReply, Goto, PC
    <2>2. QED
      BY <1>2, <1>8, <2>1, AnswersAreAnswers DEF TakeReply
  <1>9. CASE GiveUp(r)
    BY <1>9, AnswersAreAnswers, AnsweredKeeps DEF GiveUp, Abandoned, upstream
  <1>10. QED
    BY <1>3, <1>4, <1>5, <1>6, <1>7, <1>8, <1>9 DEF Handle

LEMMA HangUpKeeps ==
    ASSUME Inv, NEW r \in Request, HangUp(r)
    PROVE  Inv'
  BY AnswersAreAnswers, AnsweredKeeps DEF HangUp, Abandoned, upstream

LEMMA DeclineKeeps ==
    ASSUME Inv, NEW r \in Request, UpstreamDeclines(r)
    PROVE  Inv'
  <1>1. PICK a \in {"error", "done"} :
            Becomes(r, [req[r] EXCEPT !.reply = a, !.disturbed = TRUE])
    BY DEF UpstreamDeclines
  <1> DEFINE q == [req[r] EXCEPT !.reply = a, !.disturbed = TRUE]
  <1>2. req[r] \in RequestState /\ Fine(req[r])
    BY DEF Inv, Types
  <1>3. /\ q \in RequestState /\ q.pc = req[r].pc /\ q.op = req[r].op
        /\ q.reading = req[r].reading /\ q.met = req[r].met
        /\ q.disturbed /\ q.taken = req[r].taken
    BY <1>2 DEF RequestState
  <1>4. Fine(q)
    BY <1>2, <1>3 DEF UpstreamDeclines, At, Fine, IsSet, IsClaim
  <1>5. QED
    BY <1>1, <1>3, <1>4, BecomesKeeps DEF UpstreamDeclines

-----------------------------------------------------------------------------
(* Steps of the upstream. *)

\* Applied rewards stay applied.
AppliedStay == \A x \in Reward : reward[x] = "applied" => reward'[x] = "applied"

\* What a turn of the switch does to the records of the requests.
LEMMA SeenType ==
    ASSUME Inv, NEW v \in BOOLEAN, NEW own, NEW s \in Request
    PROVE  LET q == Seen(v, own)[s] IN
           /\ q \in RequestState
           /\ q.pc = req[s].pc /\ q.op = req[s].op /\ q.reading = req[s].reading
           /\ q.reply = req[s].reply /\ q.taken = req[s].taken
           /\ req[s].met => q.met
           /\ IsSet(req[s]) /\ req[s].op.want = v => q.met
           /\ req[s].disturbed => q.disturbed
           /\ IsSet(req[s]) /\ region # v /\ s \notin own => q.disturbed
  <1> DEFINE m == req[s].met \/ req[s].op.want = v
             d == req[s].disturbed \/ (region # v /\ s \notin own)
  <1>1. req[s] \in RequestState
    BY DEF Inv, Types
  <1>2. CASE At(s, "idle") \/ req[s].op.kind # "set"
    <2>1. Seen(v, own)[s] = req[s]
      BY <1>2 DEF Seen
    <2>2. QED
      BY <1>1, <1>2, <2>1 DEF IsSet, At
  <1>3. CASE ~(At(s, "idle") \/ req[s].op.kind # "set")
    <2>1. Seen(v, own)[s] = [req[s] EXCEPT !.met = m, !.disturbed = d]
      BY <1>3 DEF Seen
    <2>2. m \in BOOLEAN /\ d \in BOOLEAN
      BY <1>1 DEF RequestState
    <2> DEFINE q == [req[s] EXCEPT !.met = m, !.disturbed = d]
    <2>3. /\ q \in RequestState
          /\ q.pc = req[s].pc /\ q.op = req[s].op /\ q.reading = req[s].reading
          /\ q.reply = req[s].reply /\ q.taken = req[s].taken
          /\ q.met = m /\ q.disturbed = d
      <3> HIDE DEF m, d
      <3>1. QED
        BY <1>1, <2>2 DEF RequestState
    <2>4. QED
      BY <2>1, <2>3
  <1>4. QED
    BY <1>2, <1>3

\* A request whose own post it is not stays fine.
LEMMA SeenFine ==
    ASSUME Inv, NEW own, NEW s \in Request, s \notin own,
           region' \in BOOLEAN, req'[s] = Seen(region', own)[s],
           AppliedStay, asked \subseteq asked'
    PROVE  Fine(req[s])'
  <1> DEFINE q == Seen(region', own)[s]
  <1>1. /\ Fine(req[s]) /\ req[s] \in RequestState /\ req[s].op \in Op
        /\ region \in BOOLEAN
    BY DEF Inv, Types, RequestState
  <1>2. /\ q \in RequestState
        /\ q.pc = req[s].pc /\ q.op = req[s].op /\ q.reading = req[s].reading
        /\ q.reply = req[s].reply /\ q.taken = req[s].taken
        /\ IsSet(req[s]) /\ req[s].op.want = region' => q.met
        /\ req[s].disturbed => q.disturbed
        /\ IsSet(req[s]) /\ region # region' => q.disturbed
    BY SeenType
  <1> HIDE DEF q
  <1>3. req'[s] = q
    BY DEF q
  <1>4. QED
    BY <1>1, <1>2, <1>3, OpType DEF Fine, IsSet, IsClaim, AppliedStay

LEMMA SeenReq ==
    ASSUME Inv, NEW v \in BOOLEAN, NEW own
    PROVE  Seen(v, own) \in [Request -> RequestState]
  <1> DEFINE f == Seen(v, own)
  <1>1. f = [s \in Request |-> f[s]]
    BY DEF Seen
  <1>2. \A s \in Request : f[s] \in RequestState
    BY SeenType
  <1> HIDE DEF f
  <1>3. f \in [Request -> RequestState]
    BY <1>1, <1>2
  <1>4. QED
    BY <1>3 DEF f

LEMMA AfterType ==
    ASSUME Inv, NEW p \in Post
    PROVE  /\ RegionAfter(p) \in BOOLEAN
           /\ RewardAfter(p) \in [Reward -> RewardState]
           /\ \A x \in Reward : reward[x] = "applied" => RewardAfter(p)[x] = "applied"
  <1>1. region \in BOOLEAN /\ reward \in [Reward -> RewardState]
    BY DEF Inv, Types
  <1>2. "id" \in DOMAIN p => p.id \in Reward
    BY DEF Post
  <1>3. RewardAfter(p) \in [Reward -> RewardState]
    BY <1>1, <1>2 DEF RewardAfter, RewardState
  <1>4. \A x \in Reward : reward[x] = "applied" => RewardAfter(p)[x] = "applied"
    BY <1>1, <1>2 DEF RewardAfter, Claimable
  <1>5. QED
    BY <1>1, <1>3, <1>4 DEF RegionAfter

LEMMA AppliesKeeps ==
    ASSUME Inv, NEW r \in Request, UpstreamApplies(r)
    PROVE  Inv' /\ (region' # region => region' \in asked')
  <1>1. /\ At(r, "posted") /\ req[r].reply = "none"
        /\ region' = RegionAfter(Posted(r)) /\ reward' = RewardAfter(Posted(r))
        /\ req' = [Seen(region', {r}) EXCEPT ![r].reply = "done"]
        /\ UNCHANGED <<subscribed, site, late, answer, asked>>
    BY DEF UpstreamApplies
  <1>2. Types /\ LateAsked /\ Fine(req[r]) /\ req[r] \in RequestState /\ req[r].op \in Op
    BY DEF Inv, Types, RequestState
  <1>3. Posted(r) \in Post
    BY <1>1, PostedType
  <1>4. /\ region' \in BOOLEAN /\ reward' \in [Reward -> RewardState]
        /\ AppliedStay
    BY <1>1, <1>3, AfterType DEF AppliedStay
  <1>5. req[r].op.kind = "set" => region' = req[r].op.want /\ region' \in asked
    BY <1>1, PostedType DEF RegionAfter
  <1>6. req[r].op.kind # "set" => region' = region
    BY <1>1, PostedType DEF RegionAfter
  <1> DEFINE q == Seen(region', {r})[r]
             w == [q EXCEPT !.reply = "done"]
  <1>7. /\ q \in RequestState
        /\ q.pc = req[r].pc /\ q.op = req[r].op /\ q.reading = req[r].reading
        /\ q.taken = req[r].taken
        /\ IsSet(req[r]) /\ req[r].op.want = region' => q.met
        /\ req[r].disturbed => q.disturbed
    BY <1>4, SeenType
  <1>8. /\ Seen(region', {r}) \in [Request -> RequestState]
        /\ req' = [Seen(region', {r}) EXCEPT ![r] = w]
    BY <1>1, <1>4, SeenReq
  <1> HIDE DEF q
  <1>9. /\ w \in RequestState
        /\ w.pc = "posted" /\ w.op = req[r].op /\ w.reading = req[r].reading
        /\ w.reply = "done" /\ w.taken = req[r].taken
        /\ IsSet(req[r]) /\ req[r].op.want = region' => w.met
    BY <1>1, <1>7 DEF RequestState, At
  <1> HIDE DEF w
  <1>10. req'[r] = w /\ req' \in [Request -> RequestState]
    BY <1>8, <1>9
  <1>11. Types'
    BY <1>1, <1>2, <1>4, <1>10 DEF Types
  <1>12. LateAsked'
    BY <1>1, <1>2 DEF LateAsked
  <1>13. Fine(req[r])'
    <2>1. req[r].op.kind \in {"set", "claim"}
      BY <1>1, <1>2 DEF Fine, At
    <2>2. CASE req[r].op.kind = "set"
      <3>1. /\ req[r].op.want \in asked' /\ req[r].reading # req[r].op.want
            /\ region' = req[r].op.want /\ IsSet(req[r])
        BY <1>1, <1>2, <1>5, <2>2 DEF Fine, IsSet, At
      <3>2. /\ req'[r].pc = "posted" /\ req'[r].op.kind = "set"
            /\ req'[r].op.want \in asked' /\ req'[r].op.want = region'
            /\ req'[r].reading # req'[r].op.want
            /\ req'[r].reply = "done" /\ req'[r].met
        BY <1>9, <1>10, <2>2, <3>1
      <3>3. QED
        BY <3>2 DEF Fine, IsSet, IsClaim
    <2>3. CASE req[r].op.kind = "claim"
      <3>1. req[r].taken = FALSE
        BY <1>1, <1>2, <2>3 DEF Fine, IsClaim, At, RequestState
      <3>2. /\ req'[r].pc = "posted" /\ req'[r].op.kind = "claim"
            /\ req'[r].reply = "done" /\ req'[r].taken = FALSE
        BY <1>9, <1>10, <2>3, <3>1
      <3>3. QED
        BY <3>2 DEF Fine, IsSet, IsClaim
    <2>4. QED
      BY <2>1, <2>2, <2>3
  <1>14. ASSUME NEW s \in Request, s # r PROVE Fine(req[s])'
    <2>1. req'[s] = Seen(region', {r})[s]
      BY <1>8, <1>14
    <2>2. QED
      BY <1>1, <1>4, <1>14, <2>1, SeenFine
  <1>15. QED
    BY <1>1, <1>5, <1>6, <1>11, <1>12, <1>13, <1>14 DEF Inv

\* The switch and the rewards change without a request's step.
LEMMA TurnKeeps ==
    ASSUME Inv, region' \in BOOLEAN, reward' \in [Reward -> RewardState], AppliedStay,
           req' = Seen(region', {}), late' \subseteq late, asked \subseteq asked',
           asked' \subseteq BOOLEAN, UNCHANGED <<subscribed, site, answer>>
    PROVE  Inv'
  <1>1. Types' /\ LateAsked'
    BY SeenReq DEF Inv, Types, LateAsked
  <1>2. ASSUME NEW s \in Request PROVE Fine(req[s])'
    BY SeenFine
  <1>3. QED
    BY <1>1, <1>2 DEF Inv

LEMMA LateKeeps ==
    ASSUME Inv, NEW p \in Post, UpstreamAppliesLate(p)
    PROVE  Inv' /\ (region' # region => region' \in asked')
  <1>1. Inv'
    BY AfterType, TurnKeeps DEF UpstreamAppliesLate, AppliedStay, Inv, Types
  <1>2. region' # region => region' \in asked'
    BY DEF UpstreamAppliesLate, RegionAfter, Inv, LateAsked
  <1>3. QED
    BY <1>1, <1>2

LEMMA OwnerKeeps ==
    ASSUME Inv, OwnerTurns
    PROVE  Inv' /\ (region' # region => region' \in asked')
  <1>1. region' \in BOOLEAN /\ asked' \subseteq BOOLEAN /\ region' \in asked'
    BY DEF OwnerTurns, Inv, Types
  <1>2. Inv'
    BY <1>1, TurnKeeps DEF OwnerTurns, AppliedStay, Inv, Types
  <1>3. QED
    BY <1>1, <1>2

LEMMA OthersKeep ==
    ASSUME Inv,
           \/ \E p \in Post : LatePostLost(p)
           \/ \E x \in Reward : RewardArrives(x)
           \/ UNCHANGED vars
    PROVE  Inv'
  <1>1. /\ UNCHANGED <<region, subscribed, site, req, answer, asked>>
        /\ late' \subseteq late /\ reward' \in [Reward -> RewardState] /\ AppliedStay
    BY DEF LatePostLost, RewardArrives, vars, upstream, Inv, Types, RewardState, AppliedStay
  <1>2. Types' /\ LateAsked'
    BY <1>1 DEF Inv, Types, LateAsked
  <1>3. ASSUME NEW s \in Request PROVE Fine(req[s])'
    <2>1. Fine(req[s]) /\ req[s] \in RequestState /\ req[s].op \in Op
      BY DEF Inv, Types, RequestState
    <2>2. QED
      BY <1>1, <2>1, OpType DEF Fine, IsSet, IsClaim, AppliedStay
  <1>4. QED
    BY <1>2, <1>3 DEF Inv

-----------------------------------------------------------------------------
LEMMA InitInv == Init => Inv
  <1> SUFFICES ASSUME Init PROVE Inv
    OBVIOUS
  <1>1. Types
    BY IdleType DEF Init, Types, RewardState, Answer
  <1>2. LateAsked /\ \A r \in Request : Fine(req[r])
    BY IdleFine DEF Init, LateAsked
  <1>3. QED
    BY <1>1, <1>2 DEF Inv

LEMMA StepInv == Inv /\ [Next]_vars => Inv'
  <1> SUFFICES ASSUME Inv, [Next]_vars PROVE Inv'
    OBVIOUS
  <1>1. ASSUME NEW r \in Request, NEW op \in Op, Begin(r, op) PROVE Inv'
    BY <1>1, BeginKeeps
  <1>2. ASSUME NEW r \in Request,
               \/ Handle(r) \/ UpstreamApplies(r) \/ UpstreamDeclines(r) \/ HangUp(r)
        PROVE  Inv'
    BY <1>2, HandleKeeps, AppliesKeeps, DeclineKeeps, HangUpKeeps
  <1>3. ASSUME NEW p \in Post, UpstreamAppliesLate(p) PROVE Inv'
    BY <1>3, LateKeeps
  <1>4. CASE OwnerTurns
    BY <1>4, OwnerKeeps
  <1>5. QED
    BY <1>1, <1>2, <1>3, <1>4, OthersKeep DEF Next

\* The variables keep their types, and every request is what Fine says
\* (opencode_account.rs).
THEOREM UpstreamInvariant == Spec => []Inv
  BY InitInv, StepInv, PTL DEF Spec

\* The switch takes no value that nobody has asked for, however many posts are
\* repeated or arrive late (set_provider_routing).
THEOREM RetriesAreHarmless == Spec => RetriesDoNotUndo
  <1>1. Inv /\ [Next]_vars => [region' # region => region' \in asked']_vars
    <2> SUFFICES ASSUME Inv, Next, region' # region PROVE region' \in asked'
      OBVIOUS
    <2>1. ASSUME NEW r \in Request, Handle(r) PROVE UNCHANGED region
      BY <2>1 DEF Handle, Discover, QueryFails, ReadRegion, Confirm, ReadRewards,
                  TakeReply, GiveUp, Quietly, upstream
    <2>2. ASSUME NEW r \in Request, UpstreamDeclines(r) \/ HangUp(r) PROVE UNCHANGED region
      BY <2>2 DEF UpstreamDeclines, HangUp, Quietly, upstream
    <2>3. ASSUME NEW r \in Request, NEW op \in Op, Begin(r, op) PROVE UNCHANGED region
      BY <2>3 DEF Begin, upstream
    <2>4. QED
      BY <2>1, <2>2, <2>3, AppliesKeeps, LateKeeps, OwnerKeeps
      DEF Next, LatePostLost, RewardArrives, upstream
  <1>2. QED
    BY <1>1, UpstreamInvariant, PTL DEF RetriesDoNotUndo, Spec

\* A claim posts nothing once its reward had been applied when it began
\* (claim_invite_reward).
THEOREM ClaimsRepeat == Spec => []NoSecondApply
  <1>1. Inv => NoSecondApply
    BY DEF Inv, Fine, IsClaim, NoSecondApply, At
  <1>2. QED
    BY <1>1, UpstreamInvariant, PTL

-----------------------------------------------------------------------------
(* What the answers are worth. *)

\* A request is answered by its own steps.
LEMMA OwnAnswer ==
    ASSUME Inv, Next, NEW r \in Request, NEW a, Ends(r, a)
    PROVE  Handle(r) \/ HangUp(r)
  <1>1. answer' # answer /\ answer'[r] # answer[r] /\ ~At(r, "idle")
    BY DEF Ends
  <1>2. answer \in [Request -> Answer]
    BY DEF Inv, Types
  <1>3. ASSUME NEW s \in Request, NEW q, Becomes(s, q) PROVE FALSE
    BY <1>1, <1>3 DEF Becomes
  <1>4. ASSUME NEW s \in Request, NEW x, Answered(s, x) PROVE s = r
    BY <1>1, <1>2, <1>4 DEF Answered
  <1>5. ASSUME NEW s \in Request, Handle(s) PROVE s = r
    BY <1>3, <1>4, <1>5
    DEF Handle, Discover, QueryFails, ReadRegion, Confirm, ReadRewards, TakeReply,
        GiveUp, Goto
  <1>6. ASSUME NEW s \in Request, HangUp(s) PROVE s = r
    BY <1>4, <1>6 DEF HangUp
  <1>7. ASSUME NEW s \in Request, NEW op \in Op, Begin(s, op) PROVE FALSE
    <2>1. At(s, "idle") /\ \E x : answer' = [answer EXCEPT ![s] = x]
      BY <1>7 DEF Begin, Answered
    <2>2. s = r
      BY <1>1, <1>2, <2>1
    <2>3. QED
      BY <1>1, <2>1, <2>2
  <1>8. ASSUME NEW s \in Request, UpstreamApplies(s) \/ UpstreamDeclines(s) PROVE FALSE
    BY <1>1, <1>3, <1>8 DEF UpstreamApplies, UpstreamDeclines
  <1>9. QED
    BY <1>1, <1>5, <1>6, <1>7, <1>8
    DEF Next, UpstreamAppliesLate, LatePostLost, OwnerTurns, RewardArrives

\* What a request to set the switch tells, and when.
LEMMA SetAnswers ==
    ASSUME Inv, Next, NEW r \in Request, NEW a, Ends(r, a), req[r].op.kind = "set"
    PROVE  /\ a = "ok" => req[r].op.want = region
           /\ a = "unsaved" => At(r, "confirm") /\ req[r].op.want # region
  <1>1. answer \in [Request -> Answer] /\ answer'[r] = a /\ answer'[r] # answer[r]
    BY DEF Inv, Types, Ends
  <1>2. ASSUME NEW x, Answered(r, x) PROVE x = a
    BY <1>1, <1>2 DEF Answered
  <1>3. ASSUME NEW q, Becomes(r, q) PROVE FALSE
    BY <1>1, <1>3 DEF Becomes
  <1>4. CASE Discover(r) \/ QueryFails(r) \/ GiveUp(r) \/ HangUp(r)
    BY <1>2, <1>3, <1>4 DEF Discover, QueryFails, GiveUp, HangUp, Goto
  <1>5. CASE ReadRegion(r)
    BY <1>2, <1>3, <1>5 DEF ReadRegion, Routing
  <1>6. CASE Confirm(r)
    BY <1>2, <1>6 DEF Confirm, Routing
  <1>7. CASE TakeReply(r)
    BY <1>2, <1>3, <1>7 DEF TakeReply, Goto
  <1>8. CASE ReadRewards(r)
    BY <1>8 DEF ReadRewards
  <1>9. QED
    BY <1>4, <1>5, <1>6, <1>7, <1>8, OwnAnswer DEF Handle

\* An answer that the switch stands as wanted was true at some moment of its
\* request (set_provider_routing).
THEOREM OkIsWorthIt == Spec => OkWasTrue
  <1>1. Inv /\ [Next]_vars =>
          [\A r \in Request : Ends(r, "ok") /\ req[r].op.kind = "set" => req[r].met]_vars
    <2> SUFFICES ASSUME Inv, Next, NEW r \in Request, Ends(r, "ok"), req[r].op.kind = "set"
                 PROVE  req[r].met
      OBVIOUS
    <2>1. req[r].op.want = region /\ req[r].pc # "idle" /\ Fine(req[r])
      BY SetAnswers DEF Ends, At, Inv
    <2>2. QED
      BY <2>1 DEF Fine, IsSet
  <1>2. QED
    BY <1>1, UpstreamInvariant, PTL DEF OkWasTrue, Spec

\* An answer that the change was not saved needs an interference
\* (set_provider_routing).
THEOREM UnsavedIsDisturbed == Spec => UnsavedOnlyIfDisturbed
  <1>1. Inv /\ [Next]_vars =>
          [\A r \in Request : Ends(r, "unsaved") => req[r].disturbed]_vars
    <2> SUFFICES ASSUME Inv, Next, NEW r \in Request, Ends(r, "unsaved")
                 PROVE  req[r].disturbed
      OBVIOUS
    <2>1. Handle(r) \/ HangUp(r)
      BY OwnAnswer
    <2>2. req[r].op.kind = "set"
      <3>1. answer \in [Request -> Answer] /\ answer'[r] = "unsaved" /\ answer[r] # "unsaved"
        BY DEF Inv, Types, Ends
      <3>2. ASSUME NEW x, Answered(r, x) PROVE x = "unsaved"
        BY <3>1, <3>2 DEF Answered
      <3>3. ASSUME NEW q, Becomes(r, q) PROVE FALSE
        BY <3>1, <3>3 DEF Becomes
      <3>4. Confirm(r)
        BY <2>1, <3>2, <3>3
        DEF Handle, HangUp, Discover, QueryFails, ReadRegion, ReadRewards, TakeReply,
            GiveUp, Goto
      <3>5. QED
        BY <3>4 DEF Confirm, At, Inv, Fine
    <2>3. At(r, "confirm") /\ req[r].op.want # region /\ Fine(req[r])
      BY <2>2, SetAnswers DEF Inv
    <2>4. QED
      BY <2>2, <2>3 DEF Fine, IsSet, At
  <1>2. QED
    BY <1>1, UpstreamInvariant, PTL DEF UnsavedOnlyIfDisturbed, Spec

-----------------------------------------------------------------------------
(* What the search finds.  Found is a recursive function, that is, some      *)
(* function that satisfies its equation: that there is one, and what it is,  *)
(* takes induction over the scripts, here on sets of numbers.                *)

LEMMA LeastNumber ==
    ASSUME NEW T, T \subseteq Nat, T # {}
    PROVE  \E n \in T : \A m \in T : n <= m
  <1> DEFINE R == OpToRel(<, Nat)
  <1>1. IsWellFoundedOn(R, Nat)
    BY NatLessThanWellFounded
  <1>2. \A x, y \in Nat : x < y => <<x, y>> \in R
    BY DEF OpToRel
  <1> HIDE DEF R
  <1>3. PICK n \in T : \A m \in T : <<m, n>> \notin R
    BY <1>1, WFMin
  <1>4. ASSUME NEW m \in T PROVE n <= m
    <2>1. m \in Nat /\ n \in Nat /\ <<m, n>> \notin R
      BY <1>3
    <2> QED
      BY <1>2, <2>1
  <1> QED
    BY <1>4

LEMMA SetInduction ==
    ASSUME NEW S, 0 \in S, \A n \in Nat : n \in S => n + 1 \in S
    PROVE  Nat \subseteq S
  <1> SUFFICES ASSUME Nat \ S # {} PROVE FALSE
    OBVIOUS
  <1>1. PICK n \in Nat \ S : \A m \in Nat \ S : n <= m
    BY LeastNumber
  <1>2. n # 0 /\ n - 1 \in Nat /\ n = (n - 1) + 1 /\ ~(n <= n - 1)
    BY <1>1
  <1>3. n - 1 \in S
    BY <1>1, <1>2
  <1> QED
    BY <1>1, <1>2, <1>3

\* What is known after script i, when x was known before.
Known(op, lost, i, x) ==
    IF i = 1 THEN site[1] \cap Family(op)
    ELSE IF i \in lost \/ Family(op) \subseteq x THEN x
    ELSE x \cup (site[i] \cap Family(op))

\* f is what is known after each of the first n scripts.
IsSearch(op, lost, n, f) == f = [i \in 1..n |-> Known(op, lost, i, f[i - 1])]

LEMMA SearchDefined ==
    ASSUME NEW op, NEW lost, NEW n \in Nat
    PROVE  \E f : IsSearch(op, lost, n, f)
  <1> DEFINE K(i, x) == Known(op, lost, i, x)
             S == {m \in Nat : \E f : f = [i \in 1..m |-> K(i, f[i - 1])]}
  <1>1. 0 \in S
    <2> DEFINE f == [i \in 1..0 |-> {}]
    <2>1. f = [i \in 1..0 |-> K(i, f[i - 1])]
      OBVIOUS
    <2> QED
      BY <2>1
  <1>2. ASSUME NEW m \in Nat, m \in S PROVE m + 1 \in S
    <2>1. PICK f : f = [i \in 1..m |-> K(i, f[i - 1])]
      BY <1>2
    <2> DEFINE g == [i \in 1..(m + 1) |-> IF i = m + 1 THEN K(m + 1, f[m]) ELSE f[i]]
    <2>2. ASSUME NEW i \in 1..(m + 1) PROVE g[i] = K(i, g[i - 1])
      <3>1. CASE i = 1 /\ m = 0
        BY <3>1 DEF Known
      <3>2. CASE i = 1 /\ m # 0
        <4>1. g[i] = f[i] /\ f[i] = K(i, f[i - 1])
          BY <2>1, <3>2
        <4> QED
          BY <3>2, <4>1 DEF Known
      <3>3. CASE i # 1 /\ i = m + 1
        <4>1. g[i - 1] = f[m]
          BY <3>3
        <4> QED
          BY <3>3, <4>1
      <3>4. CASE i # 1 /\ i # m + 1
        <4>1. g[i - 1] = f[i - 1] /\ g[i] = f[i] /\ i \in 1..m
          BY <3>4
        <4>2. f[i] = K(i, f[i - 1])
          BY <2>1, <4>1
        <4> QED
          BY <4>1, <4>2
      <3> QED
        BY <3>1, <3>2, <3>3, <3>4
    <2> HIDE DEF K
    <2>3. g = [i \in 1..(m + 1) |-> K(i, g[i - 1])]
      <3> DEFINE h == [i \in 1..(m + 1) |-> K(i, g[i - 1])]
      <3>1. \A i \in 1..(m + 1) : g[i] = h[i]
        BY <2>2
      <3>2. g = [i \in 1..(m + 1) |-> g[i]] /\ h = [i \in 1..(m + 1) |-> h[i]]
        OBVIOUS
      <3> HIDE DEF g, h
      <3>3. g = h
        BY <3>1, <3>2
      <3> QED
        BY <3>3 DEF h
    <2> HIDE DEF g
    <2>4. \E e : e = [i \in 1..(m + 1) |-> K(i, e[i - 1])]
      BY <2>3
    <2> QED
      BY <2>4
  <1> HIDE DEF S
  <1>3. n \in S
    BY <1>1, <1>2, SetInduction
  <1>4. PICK f : f = [i \in 1..n |-> K(i, f[i - 1])]
    BY <1>3 DEF S
  <1>5. IsSearch(op, lost, n, f)
    BY <1>4 DEF IsSearch
  <1> QED
    BY <1>5

LEMMA FoundIsSearch ==
    ASSUME NEW op, NEW lost, Last \in Nat
    PROVE  \E f : /\ f = [i \in 1..Last |-> Known(op, lost, i, f[i - 1])]
                  /\ Found(op, lost) = f[Last]
  <1> DEFINE found[i \in 1..Last] ==
            IF i = 1 THEN site[1] \cap Family(op)
            ELSE IF i \in lost \/ Family(op) \subseteq found[i - 1] THEN found[i - 1]
            ELSE found[i - 1] \cup (site[i] \cap Family(op))
  <1>1. Found(op, lost) = found[Last]
    BY DEF Found
  <1>2. \E f : f = [i \in 1..Last |-> Known(op, lost, i, f[i - 1])]
    <2>1. PICK f : IsSearch(op, lost, Last, f)
      BY SearchDefined
    <2> QED
      BY <2>1 DEF IsSearch
  <1>3. \E f : f = [i \in 1..Last |->
                      IF i = 1 THEN site[1] \cap Family(op)
                      ELSE IF i \in lost \/ Family(op) \subseteq f[i - 1] THEN f[i - 1]
                      ELSE f[i - 1] \cup (site[i] \cap Family(op))]
    BY <1>2 DEF Known
  <1>4. found = [i \in 1..Last |->
                   IF i = 1 THEN site[1] \cap Family(op)
                   ELSE IF i \in lost \/ Family(op) \subseteq found[i - 1] THEN found[i - 1]
                   ELSE found[i - 1] \cup (site[i] \cap Family(op))]
    BY <1>3
  <1>5. found = [i \in 1..Last |-> Known(op, lost, i, found[i - 1])]
    BY <1>4 DEF Known
  <1> HIDE DEF found
  <1> QED
    BY <1>1, <1>5

\* The page is there, and no more scripts are looked at than there are.
LEMMA LastFacts ==
    ASSUME Types
    PROVE  /\ Last \in Nat /\ Last >= 1
           /\ \A i \in 1..Last : site[i] \subseteq Function
  <1>1. site \in Seq(SUBSET Function) /\ site # <<>>
    BY SitesAssumption DEF Types
  <1>2. Len(site) \in Nat /\ Len(site) >= 1 /\ \A i \in 1..Len(site) : site[i] \in SUBSET Function
    BY <1>1
  <1>3. Last \in Nat /\ Last >= 1 /\ Last <= Len(site)
    BY <1>2, AssetsAssumption DEF Last
  <1> QED
    BY <1>2, <1>3

\* What is found was served, and what was served by the page or a script that
\* came is found, if it is looked for.
LEMMA SearchFinds ==
    ASSUME Types, NEW op, NEW lost, 1 \notin lost
    PROVE  /\ Found(op, lost) \subseteq UNION {site[i] : i \in 1..Last}
           /\ \A i \in 1..Last : i \notin lost => site[i] \cap Family(op) \subseteq Found(op, lost)
  <1> DEFINE Fam == Family(op)
  <1>1. Last \in Nat /\ Last >= 1
    BY LastFacts
  <1>2. PICK f : /\ f = [i \in 1..Last |-> Known(op, lost, i, f[i - 1])]
                 /\ Found(op, lost) = f[Last]
    BY <1>1, FoundIsSearch
  <1>3. \A i \in 1..Last : f[i] = Known(op, lost, i, f[i - 1])
    BY <1>2
  <1> DEFINE Right(n) == /\ f[n] \subseteq Fam
                         /\ f[n] \subseteq UNION {site[i] : i \in 1..n}
                         /\ \A i \in 1..n : i \notin lost => site[i] \cap Fam \subseteq f[n]
             S == {n \in Nat : n \in 1..Last => Right(n)}
  <1>4. 0 \in S
    OBVIOUS
  <1>5. ASSUME NEW n \in Nat, n \in S PROVE n + 1 \in S
    <2> SUFFICES ASSUME n + 1 \in 1..Last PROVE Right(n + 1)
      OBVIOUS
    <2>1. f[n + 1] = Known(op, lost, n + 1, f[n])
      BY <1>3
    <2>2. CASE n = 0
      <3>1. f[1] = site[1] \cap Fam
        BY <2>1, <2>2 DEF Known
      <3>2. Right(1)
        BY <3>1
      <3> QED
        BY <2>2, <3>2
    <2>3. CASE n # 0
      <3>1. n \in 1..Last /\ n + 1 # 1
        BY <1>1, <2>3
      <3>2. Right(n)
        BY <1>5, <3>1
      <3>3. f[n + 1] = IF n + 1 \in lost \/ Fam \subseteq f[n] THEN f[n]
                       ELSE f[n] \cup (site[n + 1] \cap Fam)
        BY <2>1, <3>1 DEF Known
      <3>4. f[n + 1] \subseteq Fam /\ f[n] \subseteq f[n + 1]
        BY <3>2, <3>3
      <3>5. f[n + 1] \subseteq UNION {site[i] : i \in 1..(n + 1)}
        <4>1. UNION {site[i] : i \in 1..n} \subseteq UNION {site[i] : i \in 1..(n + 1)}
          OBVIOUS
        <4>2. site[n + 1] \subseteq UNION {site[i] : i \in 1..(n + 1)}
          OBVIOUS
        <4> QED
          BY <3>2, <3>3, <4>1, <4>2
      <3>6. ASSUME NEW i \in 1..(n + 1), i \notin lost PROVE site[i] \cap Fam \subseteq f[n + 1]
        <4>1. CASE i \in 1..n
          BY <3>2, <3>4, <3>6, <4>1
        <4>2. CASE i = n + 1
          BY <3>2, <3>3, <3>6, <4>2
        <4> QED
          BY <4>1, <4>2
      <3> QED
        BY <3>4, <3>5, <3>6
    <2> QED
      BY <2>2, <2>3
  <1> HIDE DEF S
  <1>6. Last \in S
    BY <1>1, <1>4, <1>5, SetInduction
  <1>7. Right(Last)
    BY <1>1, <1>6 DEF S
  <1> QED
    BY <1>2, <1>7

\* What a request does not find, no script that came has offered
\* (opencode_account.rs).
THEOREM NotFoundIsUnserved == Spec => []NotFoundOnlyIfUnserved
  <1>1. Inv => NotFoundOnlyIfUnserved
    <2> SUFFICES ASSUME Inv, NEW r \in Request, At(r, "fetch"),
                        NEW lost \in SUBSET (2..Last),
                        NEW x \in Need(req[r].op) \ Found(req[r].op, lost),
                        NEW i \in 1..Last, x \in site[i], i \notin lost
                 PROVE  FALSE
      BY DEF NotFoundOnlyIfUnserved
    <2>1. Types /\ Last \in Nat
      BY LastFacts DEF Inv
    <2>2. 1 \notin lost
      BY <2>1
    <2>3. req[r].op \in Op
      BY <2>1 DEF Types, RequestState
    <2>4. Need(req[r].op) \subseteq Family(req[r].op)
      BY <2>3, OpType DEF Need, Family
    <2> QED
      BY <2>1, <2>2, <2>4, SearchFinds
  <1> QED
    BY <1>1, UpstreamInvariant, PTL

\* A request that has gone on to query was served what it needs.
Served(r) ==
    req[r].pc \notin {"idle", "fetch"} =>
        Need(req[r].op) \subseteq UNION {site[i] : i \in 1..Last}

\* A step leaves a request where it has nothing to have found, or leaves its
\* operation, or is the search.
LEMMA GoesOn ==
    ASSUME Inv, Next, NEW r \in Request, req'[r].pc \notin {"idle", "fetch"}
    PROVE  /\ req'[r].op = req[r].op
           /\ req[r].pc \notin {"idle", "fetch"} \/ (Discover(r) /\ Goto(r, "query"))
  <1>1. req \in [Request -> RequestState] /\ req[r] \in RequestState
    BY DEF Inv, Types
  <1> DEFINE Same == req'[r].op = req[r].op /\ req'[r].pc = req[r].pc
             Goal == /\ req'[r].op = req[r].op
                     /\ req[r].pc \notin {"idle", "fetch"} \/ (Discover(r) /\ Goto(r, "query"))
  <1>2. Same => Goal
    OBVIOUS
  <1>3. ASSUME NEW s \in Request, NEW a, Answered(s, a) PROVE s # r /\ Same
    <2>1. req' = [req EXCEPT ![s] = Idle]
      BY <1>3 DEF Answered
    <2>2. s # r
      BY <1>1, <2>1, IdleType
    <2> QED
      BY <1>1, <2>1, <2>2
  <1>4. ASSUME NEW s \in Request, NEW q, Becomes(s, q), s # r PROVE Same
    BY <1>1, <1>4 DEF Becomes
  <1>5. ASSUME NEW s \in Request, NEW op \in Op, Begin(s, op) PROVE Goal
    <2>1. CASE req' = [req EXCEPT ![s] = Begun(op)]
      <3>1. Begun(op).pc = "fetch"
        BY DEF Begun
      <3>2. s # r
        BY <1>1, <2>1, <3>1
      <3>3. Same
        BY <1>1, <2>1, <3>2
      <3> QED
        BY <1>2, <3>3
    <2> QED
      BY <1>2, <1>3, <1>5, <2>1 DEF Begin
  <1>6. ASSUME NEW s \in Request, Handle(s), s # r PROVE Same
    BY <1>3, <1>4, <1>6 DEF Handle, Discover, QueryFails, ReadRegion, Confirm, ReadRewards,
         TakeReply, GiveUp, Goto
  <1>7. CASE Handle(r)
    <2>1. \A a : ~Answered(r, a)
      BY <1>3
    <2>2. ASSUME NEW p \in PC, Goto(r, p) PROVE req'[r].op = req[r].op
      BY <1>1, <2>2, MovesFine DEF Goto, Becomes
    <2>3. CASE Discover(r)
      <3>1. Goto(r, "query")
        BY <2>1, <2>3 DEF Discover
      <3> QED
        BY <2>2, <2>3, <3>1 DEF PC
    <2>4. CASE ReadRegion(r)
      <3>1. Becomes(r, [req[r] EXCEPT !.pc = "posted", !.reading = region, !.disturbed = FALSE])
            /\ At(r, "query")
        BY <2>1, <2>4 DEF ReadRegion
      <3>2. req'[r].op = req[r].op
        BY <1>1, <3>1 DEF Becomes, RequestState
      <3> QED
        BY <3>1, <3>2 DEF At
    <2>5. CASE ReadRewards(r)
      <3>1. Goto(r, "posted") /\ At(r, "query")
        BY <2>1, <2>5 DEF ReadRewards
      <3> QED
        BY <2>2, <3>1 DEF At, PC
    <2>6. CASE TakeReply(r)
      <3>1. Goto(r, "confirm") /\ At(r, "posted")
        BY <2>1, <2>6 DEF TakeReply
      <3> QED
        BY <2>2, <3>1 DEF At, PC
    <2>7. ~QueryFails(r) /\ ~Confirm(r) /\ ~GiveUp(r)
      BY <2>1 DEF QueryFails, Confirm, GiveUp
    <2> QED
      BY <1>7, <2>3, <2>4, <2>5, <2>6, <2>7 DEF Handle
  <1>8. ASSUME NEW s \in Request, HangUp(s) PROVE Same
    BY <1>3, <1>8 DEF HangUp
  <1>9. ASSUME NEW s \in Request, UpstreamDeclines(s) PROVE Same
    <2>1. PICK a \in {"error", "done"} :
              Becomes(s, [req[s] EXCEPT !.reply = a, !.disturbed = TRUE])
      BY <1>9 DEF UpstreamDeclines
    <2>2. CASE s = r
      BY <1>1, <2>1, <2>2 DEF Becomes, RequestState
    <2> QED
      BY <1>4, <2>1, <2>2
  <1>10. ASSUME NEW v \in BOOLEAN, NEW own PROVE Seen(v, own)[r].op = req[r].op
                                              /\ Seen(v, own)[r].pc = req[r].pc
    BY SeenType
  <1>11. ASSUME NEW s \in Request, UpstreamApplies(s) PROVE Same
    <2>1. At(s, "posted") /\ region' = RegionAfter(Posted(s))
          /\ req' = [Seen(region', {s}) EXCEPT ![s].reply = "done"]
      BY <1>11 DEF UpstreamApplies
    <2>2. region' \in BOOLEAN
      BY <2>1, PostedType, AfterType
    <2> DEFINE f == Seen(region', {s})
    <2>3. f \in [Request -> RequestState] /\ f[r].op = req[r].op /\ f[r].pc = req[r].pc
      BY <1>10, <2>2, SeenReq
    <2>4. req' = [f EXCEPT ![s].reply = "done"]
      BY <2>1
    <2> HIDE DEF f
    <2>5. f[s] \in RequestState /\ f[r] \in RequestState
      BY <2>3
    <2> DEFINE w == [f[s] EXCEPT !.reply = "done"]
    <2>6. w.op = f[s].op /\ w.pc = f[s].pc
      BY <2>5 DEF RequestState
    <2>7. req' = [f EXCEPT ![s] = w]
      BY <2>4
    <2> HIDE DEF w
    <2>8. req'[r] = IF r = s THEN w ELSE f[r]
      BY <2>3, <2>7
    <2> QED
      BY <2>3, <2>6, <2>8
  <1>12. ASSUME NEW v \in BOOLEAN, req' = Seen(v, {}) PROVE Same
    BY <1>10, <1>12
  <1>13. ASSUME NEW p \in Post, UpstreamAppliesLate(p) PROVE Same
    BY <1>12, <1>13, AfterType DEF UpstreamAppliesLate
  <1>14. ASSUME OwnerTurns PROVE Same
    BY <1>12, <1>14 DEF OwnerTurns, Inv, Types
  <1>15. ASSUME \/ \E p \in Post : LatePostLost(p)
                \/ \E x \in Reward : RewardArrives(x)
         PROVE  Same
    BY <1>15 DEF LatePostLost, RewardArrives
  <1> HIDE DEF Same, Goal
  <1>16. Goal
    BY <1>2, <1>5, <1>6, <1>7, <1>8, <1>9, <1>11, <1>13, <1>14, <1>15 DEF Next, Goal
  <1> QED
    BY <1>16 DEF Goal

\* Every variable keeps its type, and a request that goes on to the upstream
\* was served the functions it needs (opencode_account.rs).
THEOREM UpstreamTypes == Spec => []TypeOK
  <1> DEFINE AllServed == \A r \in Request : Served(r)
  <1>1. Init => AllServed
    BY DEF Init, Idle, Served
  <1>2. Inv /\ AllServed /\ [Next]_vars => AllServed'
    <2> SUFFICES ASSUME Inv, AllServed, [Next]_vars PROVE AllServed'
      OBVIOUS
    <2>1. CASE UNCHANGED vars
      BY <2>1 DEF vars, upstream, Served, Last
    <2>2. CASE Next
      <3>1. site' = site
        BY <2>2 DEF Next, Begin, Handle, Discover, QueryFails, ReadRegion, Confirm,
          ReadRewards, TakeReply, GiveUp, HangUp, UpstreamApplies, UpstreamDeclines,
          UpstreamAppliesLate, LatePostLost, OwnerTurns, RewardArrives, Quietly, upstream
      <3>2. Last' = Last
        BY <3>1 DEF Last
      <3>3. ASSUME NEW r \in Request, req'[r].pc \notin {"idle", "fetch"}
            PROVE  Need(req'[r].op) \subseteq UNION {site[i] : i \in 1..Last}
        <4>1. /\ req'[r].op = req[r].op
              /\ req[r].pc \notin {"idle", "fetch"} \/ (Discover(r) /\ Goto(r, "query"))
          BY <2>2, <3>3, GoesOn
        <4>2. CASE req[r].pc \notin {"idle", "fetch"}
          BY <4>1, <4>2 DEF Served
        <4>3. CASE Discover(r) /\ Goto(r, "query")
          <5>1. Types /\ Last \in Nat /\ req[r] # Idle
            BY <4>3, LastFacts DEF Inv, Discover, At, Idle
          <5>2. ~Answered(r, "failed") /\ ~Answered(r, "notfound")
            <6>1. req'[r].pc # "idle" /\ req \in [Request -> RequestState]
              BY <3>3 DEF Inv, Types
            <6> QED
              BY <6>1, IdleType DEF Answered
          <5>3. PICK lost \in SUBSET (2..Last) : Need(req[r].op) \subseteq Found(req[r].op, lost)
            BY <4>3, <5>2 DEF Discover
          <5>4. 1 \notin lost
            BY <5>1
          <5>5. Found(req[r].op, lost) \subseteq UNION {site[i] : i \in 1..Last}
            BY <5>1, <5>4, SearchFinds
          <5> QED
            BY <4>1, <5>3, <5>5
        <4> QED
          BY <4>1, <4>2, <4>3
      <3> QED
        BY <3>1, <3>2, <3>3 DEF Served
    <2> QED
      BY <2>1, <2>2
  <1>3. Inv /\ AllServed => TypeOK
    BY DEF Inv, Served, TypeOK
  <1> QED
    BY <1>1, <1>2, <1>3, UpstreamInvariant, PTL DEF Spec
=============================================================================
