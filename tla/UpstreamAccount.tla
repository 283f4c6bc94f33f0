--------------------------- MODULE UpstreamAccount ---------------------------
(***************************************************************************)
(* Settings of an account at the upstream, changed over its web interface  *)
(* with the account's Cookie (opencode_account.rs, handlers in             *)
(* routes/keys.rs): the region switch of a Go subscription and the rewards *)
(* for invitations.  A request finds the ids of the upstream's server      *)
(* functions in its page and the page's scripts, reads the present state,  *)
(* and posts a change, which may take effect although the request has      *)
(* given it up.                                                            *)
(*                                                                         *)
(* The upstream is modelled from this use of it: its form posts the        *)
(* current value and its action stores the opposite ("Sending the desired  *)
(* value would leave the setting in the opposite state"), and a reward is  *)
(* applied once.  The texts of pages, scripts and answers are left out.    *)
(***************************************************************************)
EXTENDS Integers, Sequences

CONSTANTS
    Request,    \* concurrent requests of the management API
    Reward,     \* ids of rewards
    Sites,      \* what page and scripts may offer: sequences of sets of
                \* server functions, the page first
    MaxAssets   \* scripts looked at, 64 in the code

VARIABLES
    region, subscribed,     \* upstream: the switch, and whether there is one
    reward,                 \* upstream: state of each reward
    site,                   \* upstream: one of Sites
    late,                   \* posts on the wire that nobody waits for
    req,                    \* each request, see Request records below
    answer,                 \* how the last request of this name ended
    asked                   \* history: the values anyone wanted the switch at

upstream == <<region, subscribed, reward, site>>
vars == <<upstream, late, req, answer, asked>>

Function == {"routing.get", "routing.set", "referral.get", "referral.apply"}
Op == [kind: {"get", "list"}] \cup [kind: {"set"}, want: BOOLEAN]
      \cup [kind: {"claim"}, id: Reward]
Post == [value: BOOLEAN] \cup [id: Reward]
RewardState == {"locked", "pending", "available", "applied"}
Answer == {"none", "ok", "unsupported", "refused", "failed", "notfound", "unsaved",
           "missing", "conflict", "unconfirmed"}
PC == {"idle", "fetch", "query", "posted", "confirm"}

ASSUME SitesAssumption == Sites \subseteq Seq(SUBSET Function) /\ <<>> \notin Sites
ASSUME AssetsAssumption == MaxAssets \in Nat

\* A request: where it stands, what it is to do, what it has read, the
\* upstream's reply to its post; and its history: whether the switch has stood
\* as wanted, whether it was disturbed, whether the reward was applied before.
RequestState ==
    [pc: PC, op: Op, reading: BOOLEAN, reply: {"none", "done", "error"},
     met: BOOLEAN, disturbed: BOOLEAN, taken: BOOLEAN]
Idle == [pc |-> "idle", op |-> [kind |-> "get"], reading |-> FALSE, reply |-> "none",
         met |-> FALSE, disturbed |-> FALSE, taken |-> FALSE]

\* Both functions of a page are looked for, the one needed or not.
Family(op) == IF op.kind \in {"get", "set"} THEN {"routing.get", "routing.set"}
              ELSE {"referral.get", "referral.apply"}
Need(op) == CASE op.kind = "get"  -> {"routing.get"}
              [] op.kind = "list" -> {"referral.get"}
              [] OTHER            -> Family(op)

Init ==
    /\ region \in BOOLEAN /\ subscribed \in BOOLEAN
    /\ reward \in [Reward -> {"locked", "pending", "available"}]
    /\ site \in Sites
    /\ late = {} /\ asked = {}
    /\ req = [r \in Request |-> Idle]
    /\ answer = [r \in Request |-> "none"]

-----------------------------------------------------------------------------
(* A request and its discovery of the functions. *)

At(r, p) == req[r].pc = p
Becomes(r, q) == req' = [req EXCEPT ![r] = q] /\ UNCHANGED answer
Goto(r, p) == Becomes(r, [req[r] EXCEPT !.pc = p])
Answered(r, a) == /\ req' = [req EXCEPT ![r] = Idle]
                  /\ answer' = [answer EXCEPT ![r] = a]
Quietly == UNCHANGED <<upstream, late, asked>>

Begun(op) ==
    [pc |-> "fetch", op |-> op, reading |-> FALSE, reply |-> "none",
     met |-> op.kind = "set" /\ op.want = region, disturbed |-> FALSE,
     taken |-> op.kind = "claim" /\ reward[op.id] = "applied"]

\* The handlers' preamble looks at the row, its Cookie and its client, and
\* never again.
Begin(r, op) ==
    /\ At(r, "idle")
    /\ \/ /\ req' = [req EXCEPT ![r] = Begun(op)]
          /\ answer' = [answer EXCEPT ![r] = "none"]
       \/ Answered(r, IF op.kind = "get" THEN "unsupported" ELSE "refused")
    /\ asked' = IF op.kind = "set" THEN asked \cup {op.want} ELSE asked
    /\ UNCHANGED <<upstream, late>>

\* The page (1) and then its scripts, as many as are looked at.
Last == IF Len(site) - 1 > MaxAssets THEN MaxAssets + 1 ELSE Len(site)

\* Slip: the first script that does not come ends the search.
FoundUntilLost(op, lost) ==
    UNION {site[i] \cap Family(op) : i \in {j \in 1..Last : \A k \in 2..j : k \notin lost}}

\* What is found when the scripts in lost do not come: they are passed over,
\* and nothing is fetched any more once both functions are known.
Found(op, lost) ==
    LET found[i \in 1..Last] ==
            IF i = 1 THEN site[1] \cap Family(op)
            ELSE IF i \in lost \/ Family(op) \subseteq found[i - 1] THEN found[i - 1]
            ELSE found[i - 1] \cup (site[i] \cap Family(op))
    IN  found[Last]

\* Slip: what was not found is not noticed.
DiscoverOrNot(r) ==
    /\ At(r, "fetch")
    /\ \/ Answered(r, "failed")
       \/ Goto(r, "query")
    /\ Quietly

\* The page is needed.  No other step touches what the search reads, so it is
\* one step whatever its length.
Discover(r) ==
    /\ At(r, "fetch")
    /\ \/ Answered(r, "failed")
       \/ \E lost \in SUBSET (2..Last) :
             IF Need(req[r].op) \subseteq Found(req[r].op, lost)
             THEN Goto(r, "query") ELSE Answered(r, "notfound")
    /\ Quietly

\* Slip: after an exchange that fails the request begins anew.
QueryFailsAgain(r) ==
    /\ req[r].pc \in {"query", "confirm"}
    /\ Goto(r, "fetch")
    /\ Quietly

\* Any exchange can end without a usable answer: refused, expired, timed out.
QueryFails(r) ==
    /\ req[r].pc \in {"query", "confirm"}
    /\ Answered(r, "failed")
    /\ Quietly

-----------------------------------------------------------------------------
(* The region switch. *)

\* parse_provider_routing: the switch, if there is a subscription.
Routing == IF subscribed THEN {region} ELSE {}

\* Slip: the post goes out although nothing is to be changed.
ReadRegionOnly(r) ==
    /\ At(r, "query") /\ req[r].op.kind \in {"get", "set"}
    /\ IF req[r].op.kind = "get"
       THEN Answered(r, IF Routing = {} THEN "unsupported" ELSE "ok")
       ELSE IF Routing = {} THEN Answered(r, "refused")
       ELSE Becomes(r, [req[r] EXCEPT !.pc = "posted", !.reading = region,
                                      !.disturbed = FALSE])
    /\ Quietly

\* The switch is read, and if it is not as wanted the form goes out.
\* Disturbances count from here.
ReadRegion(r) ==
    /\ At(r, "query") /\ req[r].op.kind \in {"get", "set"}
    /\ IF req[r].op.kind = "get"
       THEN Answered(r, IF Routing = {} THEN "unsupported" ELSE "ok")
       ELSE IF Routing = {} THEN Answered(r, "refused")
       ELSE IF req[r].op.want \in Routing THEN Answered(r, "ok")
       ELSE Becomes(r, [req[r] EXCEPT !.pc = "posted", !.reading = region,
                                      !.disturbed = FALSE])
    /\ Quietly

\* Slip: what is wanted is posted.
PostedWanted(r) == IF req[r].op.kind = "set" THEN [value |-> req[r].op.want]
                   ELSE [id |-> req[r].op.id]

\* The form posts the value it has read.
Posted(r) == IF req[r].op.kind = "set" THEN [value |-> req[r].reading]
             ELSE [id |-> req[r].op.id]

\* Slip: a post that was accepted is taken for saved.
ConfirmUnread(r) == At(r, "confirm") /\ Answered(r, "ok") /\ Quietly

\* The switch is read again.
Confirm(r) ==
    /\ At(r, "confirm")
    /\ Answered(r, IF Routing = {} THEN "failed"
                   ELSE IF req[r].op.want \in Routing THEN "ok" ELSE "unsaved")
    /\ Quietly

-----------------------------------------------------------------------------
(* Rewards. *)

\* query_invite_rewards: what is listed; a reward not granted yet is not.
Listed == {x \in Reward : reward[x] # "locked"}
Claimable(s) == s \in {"available", "pending"}

\* Slip: the state of the reward is not looked at.
ReadRewardsOnly(r) ==
    /\ At(r, "query") /\ req[r].op.kind \in {"list", "claim"}
    /\ IF req[r].op.kind = "list" THEN Answered(r, "ok")
       ELSE IF req[r].op.id \notin Listed THEN Answered(r, "missing")
       ELSE Goto(r, "posted")
    /\ Quietly

\* The list is read and searched.
ReadRewards(r) ==
    /\ At(r, "query") /\ req[r].op.kind \in {"list", "claim"}
    /\ IF req[r].op.kind = "list" THEN Answered(r, "ok")
       ELSE IF req[r].op.id \notin Listed THEN Answered(r, "missing")
       ELSE IF ~Claimable(reward[req[r].op.id]) THEN Answered(r, "conflict")
       ELSE Goto(r, "posted")
    /\ Quietly

-----------------------------------------------------------------------------
(* The upstream, and a post's way. *)

\* The requests once the region has become v, by the one in own or another.
Seen(v, own) ==
    [r \in Request |->
        IF At(r, "idle") \/ req[r].op.kind # "set" THEN req[r]
        ELSE [req[r] EXCEPT !.met = @ \/ req[r].op.want = v,
                            !.disturbed = @ \/ (region # v /\ r \notin own)]]

RegionAfter(p) == IF "value" \in DOMAIN p THEN ~p.value ELSE region
RewardAfter(p) == IF "id" \in DOMAIN p /\ Claimable(reward[p.id])
                  THEN [reward EXCEPT ![p.id] = "applied"] ELSE reward

\* A post is taken, and a reply is on its way.
UpstreamApplies(r) ==
    /\ At(r, "posted") /\ req[r].reply = "none"
    /\ region' = RegionAfter(Posted(r)) /\ reward' = RewardAfter(Posted(r))
    /\ req' = [Seen(region', {r}) EXCEPT ![r].reply = "done"]
    /\ UNCHANGED <<subscribed, site, late, answer, asked>>

\* It is turned down, or accepted to no effect.
UpstreamDeclines(r) ==
    /\ At(r, "posted") /\ req[r].reply = "none"
    /\ \E a \in {"error", "done"} :
          Becomes(r, [req[r] EXCEPT !.reply = a, !.disturbed = TRUE])
    /\ Quietly

UpstreamAppliesLate(p) ==
    /\ p \in late /\ late' = late \ {p}
    /\ region' = RegionAfter(p) /\ reward' = RewardAfter(p)
    /\ req' = Seen(region', {})
    /\ UNCHANGED <<subscribed, site, answer, asked>>

LatePostLost(p) ==
    /\ p \in late /\ late' = late \ {p}
    /\ UNCHANGED <<upstream, req, answer, asked>>

\* An applied reward is answered with its amount, or without.
TakeReply(r) ==
    /\ At(r, "posted") /\ req[r].reply # "none"
    /\ IF req[r].reply = "error" THEN Answered(r, "failed")
       ELSE IF req[r].op.kind = "claim"
       THEN \E a \in {"ok", "unconfirmed"} : Answered(r, a)
       ELSE Goto(r, "confirm")
    /\ Quietly

\* The post may be on the wire still.
Abandoned(r) == IF At(r, "posted") /\ req[r].reply = "none"
                THEN late \cup {Posted(r)} ELSE late

\* 30 seconds, or the connection is lost.
GiveUp(r) ==
    /\ At(r, "posted")
    /\ late' = Abandoned(r)
    /\ Answered(r, "failed")
    /\ UNCHANGED <<upstream, asked>>

\* The client hangs up, and the handler is dropped where it waits.
HangUp(r) ==
    /\ req[r].pc \in {"fetch", "query", "posted", "confirm"}
    /\ late' = Abandoned(r)
    /\ Answered(r, "failed")
    /\ UNCHANGED <<upstream, asked>>

\* The account's owner, at the upstream's own pages.
OwnerTurns ==
    /\ subscribed
    /\ region' = ~region /\ req' = Seen(~region, {})
    /\ asked' = asked \cup {~region}
    /\ UNCHANGED <<subscribed, reward, site, late, answer>>
RewardArrives(x) ==
    /\ reward[x] = "locked" /\ reward' = [reward EXCEPT ![x] = "available"]
    /\ UNCHANGED <<region, subscribed, site, late, req, answer, asked>>

-----------------------------------------------------------------------------
Handle(r) ==
    \/ Discover(r) \/ QueryFails(r)
    \/ ReadRegion(r) \/ Confirm(r)
    \/ ReadRewards(r) \/ TakeReply(r) \/ GiveUp(r)

Next ==
    \/ \E r \in Request : \/ \E op \in Op : Begin(r, op)
                          \/ Handle(r)
                          \/ UpstreamApplies(r) \/ UpstreamDeclines(r)
                          \/ HangUp(r)
    \/ \E p \in Post : UpstreamAppliesLate(p) \/ LatePostLost(p)
    \/ OwnerTurns
    \/ \E x \in Reward : RewardArrives(x)

Spec == Init /\ [][Next]_vars

\* The runtime polls a handler that is ready, and every exchange with the
\* upstream ends by its timeout if not by an answer.
FairSpec == Spec /\ \A r \in Request : WF_vars(Handle(r))

-----------------------------------------------------------------------------
Types ==
    /\ region \in BOOLEAN /\ subscribed \in BOOLEAN
    /\ reward \in [Reward -> RewardState] /\ site \in Sites
    /\ late \subseteq Post /\ req \in [Request -> RequestState]
    /\ answer \in [Request -> Answer] /\ asked \subseteq BOOLEAN

\* Every variable has its type, and a request that has gone on to query was
\* served the functions it needs.
TypeOK ==
    /\ Types
    /\ \A r \in Request :
          req[r].pc \notin {"idle", "fetch"} =>
              Need(req[r].op) \subseteq UNION {site[i] : i \in 1..Last}

Ends(r, a) == ~At(r, "idle") /\ answer'[r] = a /\ ~(answer[r] = a)

\* set_provider_routing answers with the value asked for only if the switch
\* stood there at a moment of the request; an accepted post is not enough.
OkWasTrue ==
    [][\A r \in Request :
          Ends(r, "ok") /\ req[r].op.kind = "set" => req[r].met]_vars

\* "Not saved" is told only if, since the request read the switch, somebody
\* else turned it or the upstream did not do what was posted: by itself a
\* request always gets what it asks for.
UnsavedOnlyIfDisturbed ==
    [][\A r \in Request : Ends(r, "unsaved") => req[r].disturbed]_vars

\* The switch takes no value that nobody has asked for: any number of requests
\* for the same setting, concurrent, repeated after a timeout, or overtaken by
\* their own late posts, do not undo each other.
RetriesDoNotUndo == [][region' # region => region' \in asked']_vars

\* A claim that began when its reward had been applied posts nothing, so that
\* repeating one whose confirmation was lost does no harm.
NoSecondApply ==
    \A r \in Request : At(r, "posted") /\ req[r].op.kind = "claim" => ~req[r].taken

\* A function is reported as not found only if all bundles that are looked at
\* and offer it failed to come, wherever else scripts were lost and although
\* the search stops early.
NotFoundOnlyIfUnserved ==
    \A r \in Request : At(r, "fetch") =>
        \A lost \in SUBSET (2..Last) :
            \A f \in Need(req[r].op) \ Found(req[r].op, lost) :
                \A i \in 1..Last : f \in site[i] => i \in lost

\* Every request is answered, whatever the upstream fails to answer.
RequestsEnd == \A r \in Request : [](~At(r, "idle") => <>At(r, "idle"))
=============================================================================
