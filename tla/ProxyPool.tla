------------------------------ MODULE ProxyPool ------------------------------
(***************************************************************************)
(* Forward proxies and the accounts linked to them: the handlers of        *)
(* routes/proxies.rs, those of routes/keys.rs and routes/import_export.rs  *)
(* that read a row, wait, and write it or a link to another, and the calls *)
(* that look their account's proxy up and share clients by its URL         *)
(* (state.rs).  There is no foreign key: only delete_proxy keeps links and *)
(* proxies together.  Handlers interleave between database calls, each of  *)
(* which is atomic.                                                        *)
(*                                                                         *)
(* Abstracted: every column but the link and the switch, so that renaming  *)
(* an account is left out; the texts of URLs, of which all are valid.      *)
(***************************************************************************)
EXTENDS Integers, Sequences

CONSTANTS
    Proxy, Account,         \* ids, each of which a row gets at most once
    NoProxy, NoAccount,
    ProxyName, Url,         \* what requests say
    AccountName, Suffixed,  \* a name made unique by a random suffix
    Payload,                \* files to import, sequences of entries
    Handler,                \* requests, each made at most once
    Direct                  \* the client without a proxy

VARIABLES
    proxies,    \* table proxies, by id
    accounts,   \* table api_keys, by id
    cache,      \* proxy_pool_clients: the URL of each client, by cache key
    used,       \* the ids that rows have got
    req         \* the requests

vars == <<proxies, accounts, cache, used, req>>

ProxyRow == [name: ProxyName, url: Url]
AccountRow == [name: AccountName \cup {Suffixed}, enabled: BOOLEAN,
               link: Proxy \cup {NoProxy}]
Entry == [proxy: ProxyName, url: Url]
         \cup [account: AccountName, enabled: BOOLEAN, via: ProxyName \cup {NoProxy}]
Keep == "keep"  \* an edit that does not name a proxy

Op == [kind: {"newProxy"}, name: ProxyName, url: Url]
      \cup [kind: {"editProxy"}, id: Proxy, name: ProxyName, url: Url]
      \cup [kind: {"dropProxy"}, id: Proxy]
      \cup [kind: {"create", "cookie"}, name: AccountName, link: Proxy \cup {NoProxy}]
      \cup [kind: {"update"}, id: Account, link: Proxy \cup {NoProxy, Keep}]
      \cup [kind: {"switch"}, id: Account, on: BOOLEAN]
      \cup [kind: {"delete", "call"}, id: Account]
      \cup [kind: {"import"}, file: Payload]

\* The proxies of a file are gone through before its accounts.
ASSUME PayloadAssumption ==
    /\ Payload \subseteq Seq(Entry)
    /\ \A file \in Payload : \A i, j \in DOMAIN file :
          "account" \in DOMAIN file[i] /\ "proxy" \in DOMAIN file[j] => j < i
ASSUME NameAssumption ==
    /\ NoProxy \notin Proxy \cup ProxyName /\ Keep \notin Proxy \cup {NoProxy}
    /\ NoAccount \notin Account /\ Suffixed \notin AccountName /\ Direct \notin Url

\* A request: what it has read (an account's switch and link, a row's id), the
\* import's next entry, the client it got, and what others changed since its
\* first step.
Event == {"drop", "edit"} \X Proxy \cup {"delete", "switch", "link"} \X Account
Begun(op, p) == [pc |-> p, op |-> op, enabled |-> TRUE, link |-> NoProxy,
                 name |-> Suffixed, row |-> NoProxy, next |-> 1, via |-> Direct,
                 since |-> {}]
Unmade == [pc |-> "unmade"]
\* Of its answer, "ok", "failed" or "panic", only a panic matters.
Ended(a) == [pc |-> IF a = "panic" THEN "panicked" ELSE "ended"]
Running(h) == req[h].pc \notin {"unmade", "ended", "panicked"}
At(h, p) == req[h].pc = p
Is(h, k) == Running(h) /\ req[h].op.kind \in k

Named(n) == {p \in DOMAIN proxies : proxies[p].name = n}
AccountNamed(n) == {a \in DOMAIN accounts : accounts[a].name = n /\ n # Suffixed}
With(f, x, v) == [y \in DOMAIN f \cup {x} |-> IF y = x THEN v ELSE f[y]]
Without(f, x) == [y \in DOMAIN f \ {x} |-> f[y]]

Init ==
    /\ \E S \in SUBSET Proxy : proxies \in [S -> ProxyRow]
    /\ \A p, q \in DOMAIN proxies : proxies[p].name = proxies[q].name => p = q
    /\ \E S \in SUBSET Account : accounts \in
          [S -> [name: AccountName, enabled: {TRUE}, link: DOMAIN proxies \cup {NoProxy}]]
    /\ \A a, b \in DOMAIN accounts : accounts[a].name = accounts[b].name => a = b
    /\ cache = <<>>
    /\ used = DOMAIN proxies \cup DOMAIN accounts
    /\ req = [h \in Handler |-> Unmade]

-----------------------------------------------------------------------------
(* Steps of a request. *)

\* What a write changes, as the other requests see it.
Changes(ps, as) ==
    {<<"drop", p>> : p \in DOMAIN proxies \ DOMAIN ps}
    \cup {<<"edit", p>> : p \in {q \in DOMAIN ps :
                                    q \in DOMAIN proxies => proxies[q] # ps[q]}}
    \cup {<<"delete", a>> : a \in DOMAIN accounts \ DOMAIN as}
    \cup {<<"switch", a>> : a \in {b \in DOMAIN as :
             b \in DOMAIN accounts => accounts[b].enabled # as[b].enabled}}
    \cup {<<"link", a>> : a \in {b \in DOMAIN as :
             b \in DOMAIN accounts => accounts[b].link # as[b].link}}

\* Request q has heard of those that matter to it: an import of all, the others
\* of the rows they have in hand.
Told(q, events) ==
    [q EXCEPT !.since = @ \cup {e \in events : q.op.kind = "import"
                                             \/ e[2] \in {q.link, q.row}}]

\* Request h goes on as q.
Goes(h, q) == /\ req' = [req EXCEPT ![h] = q]
              /\ UNCHANGED <<proxies, accounts, cache, used>>
Goto(h, p) == Goes(h, [req[h] EXCEPT !.pc = p])
Answer(h, a) == Goes(h, Ended(a))

\* It writes the tables, and the ids in new are taken.
Writes(h, ps, as, new, q) ==
    /\ proxies' = ps /\ accounts' = as /\ used' = used \cup new
    /\ req' = [g \in Handler |->
                  IF g = h THEN q
                  ELSE IF Running(g) THEN Told(req[g], Changes(ps, as))
                  ELSE req[g]]
    /\ UNCHANGED cache
Then(h, p) == [req[h] EXCEPT !.pc = p]

\* A request is made with its first look at the tables.
Begins(h, op, kinds) == At(h, "unmade") /\ op.kind \in kinds

\* A row is read back after its insertion or change, and unwrapped.
Readback(h) ==
    /\ At(h, "readback")
    /\ LET there == IF Is(h, {"newProxy"}) THEN req[h].row \in DOMAIN proxies
                    ELSE req[h].row \in DOMAIN accounts
       IN  Answer(h, IF there THEN "ok" ELSE "panic")

\* The cached clients are dropped.
Clear(h) ==
    /\ At(h, "clear")
    /\ cache' = <<>>
    /\ req' = [req EXCEPT ![h] = IF Is(h, {"newProxy"}) THEN Then(h, "readback")
                                 ELSE Ended("ok")]
    /\ UNCHANGED <<proxies, accounts, used>>

-----------------------------------------------------------------------------
(* Proxies. *)

CheckName(h, op) ==
    /\ Begins(h, op, {"newProxy"})
    /\ IF Named(op.name) # {} THEN Answer(h, "failed") ELSE Goes(h, Begun(op, "insert"))

\* The names are unique in the table too.
InsertProxy(h) ==
    /\ At(h, "insert") /\ Is(h, {"newProxy"})
    /\ IF Named(req[h].op.name) # {} THEN Answer(h, "failed")
       ELSE \E p \in Proxy \ used :
               Writes(h, With(proxies, p, [name |-> req[h].op.name, url |-> req[h].op.url]),
                      accounts, {p}, [Then(h, "clear") EXCEPT !.row = p])

ReadProxy(h, op) ==
    /\ Begins(h, op, {"editProxy"})
    /\ IF op.id \in DOMAIN proxies /\ Named(op.name) \subseteq {op.id}
       THEN Goes(h, Begun(op, "write")) ELSE Answer(h, "failed")

UpdateProxy(h) ==
    /\ At(h, "write") /\ Is(h, {"editProxy"})
    /\ LET p == req[h].op.id IN
       IF p \in DOMAIN proxies /\ Named(req[h].op.name) \subseteq {p}
       THEN Writes(h, [proxies EXCEPT ![p] = [name |-> req[h].op.name, url |-> req[h].op.url]],
                   accounts, {}, Then(h, "reread"))
       ELSE Answer(h, "failed")

\* update_proxy reads the row again once it has let go of the connection.
RereadProxy(h) ==
    /\ At(h, "reread")
    /\ IF req[h].op.id \in DOMAIN proxies THEN Goto(h, "clear") ELSE Answer(h, "failed")

\* Slip: the accounts are left as they are.
DeleteProxyOnly(h, op) ==
    /\ Begins(h, op, {"dropProxy"})
    /\ IF op.id \in DOMAIN proxies
       THEN Writes(h, Without(proxies, op.id), accounts, {}, Begun(op, "clear"))
       ELSE Answer(h, "failed")

\* One transaction detaches the accounts and deletes the row; that detaches
\* links to a row deleted before, too.
DeleteProxy(h, op) ==
    /\ Begins(h, op, {"dropProxy"})
    /\ LET p == op.id
           detached == [a \in DOMAIN accounts |->
                           IF accounts[a].link = p
                           THEN [accounts[a] EXCEPT !.link = NoProxy] ELSE accounts[a]]
       IN  Writes(h, Without(proxies, p), detached, {},
                  IF p \in DOMAIN proxies THEN Begun(op, "clear") ELSE Ended("failed"))

-----------------------------------------------------------------------------
(* Accounts. *)

\* resolve_proxy: request q goes on with its link if there is such a proxy.
Resolve(h, q) ==
    IF q.op.link \in DOMAIN proxies \cup {NoProxy}
    THEN Goes(h, [q EXCEPT !.link = q.op.link])
    ELSE Answer(h, "failed")

\* A name that is taken gets a suffix.
Unique(n) == IF AccountNamed(n) = {} THEN n ELSE Suffixed

\* create looks at the name and then at the link ...
NameNew(h, op) ==
    /\ Begins(h, op, {"create"})
    /\ Goes(h, [Begun(op, "named") EXCEPT !.name = Unique(op.name)])
LinkNew(h) ==
    /\ At(h, "named") /\ Resolve(h, Then(h, "insert"))

\* ... import_cookie at the link, and at the name once the account is found.
LinkImported(h, op) ==
    /\ Begins(h, op, {"cookie"})
    /\ Resolve(h, Begun(op, IF op.link = NoProxy THEN "send" ELSE "lookup"))
NameImported(h) ==
    /\ At(h, "found")
    /\ Goes(h, [Then(h, "insert") EXCEPT !.name = Unique(req[h].op.name)])

\* Slip: the index that makes names unique is missing.
InsertAccountAnyway(h) ==
    /\ At(h, "insert") /\ Is(h, {"create", "cookie"})
    /\ \E a \in Account \ used :
          Writes(h, proxies,
                 With(accounts, a,
                      [name |-> req[h].name, enabled |-> TRUE, link |-> req[h].link]),
                 {a}, [Begun(req[h].op, "readback") EXCEPT !.row = a])

InsertAccount(h) ==
    /\ At(h, "insert") /\ Is(h, {"create", "cookie"})
    /\ IF AccountNamed(req[h].name) # {} THEN Answer(h, "failed")
       ELSE \E a \in Account \ used :
               Writes(h, proxies,
                      With(accounts, a,
                           [name |-> req[h].name, enabled |-> TRUE, link |-> req[h].link]),
                      {a}, [Begun(req[h].op, "readback") EXCEPT !.row = a])

\* Slip: that there is no such account is left to the write to find.
ReadAccountOrNot(h, op) ==
    /\ Begins(h, op, {"update"})
    /\ LET a == op.id
           row == IF a \in DOMAIN accounts THEN accounts[a]
                  ELSE [enabled |-> TRUE, link |-> NoProxy]
       IN  Goes(h, [Begun(op, IF op.link = Keep THEN "write" ELSE "resolve")
                       EXCEPT !.enabled = row.enabled, !.link = row.link, !.row = a])

ReadAccount(h, op) ==
    /\ Begins(h, op, {"update"})
    /\ LET a == op.id IN
       IF a \notin DOMAIN accounts THEN Answer(h, "failed")
       ELSE Goes(h, [Begun(op, IF op.link = Keep THEN "write" ELSE "resolve")
                        EXCEPT !.enabled = accounts[a].enabled,
                               !.link = accounts[a].link, !.row = a])

ResolveEdit(h) == At(h, "resolve") /\ Resolve(h, Then(h, "write"))

\* Slip: a row is written as create writes it.
UpdateAccountOn(h) ==
    /\ At(h, "write") /\ Is(h, {"update"})
    /\ LET a == req[h].op.id IN
       IF a \in DOMAIN accounts
       THEN Writes(h, proxies,
                   [accounts EXCEPT ![a] = [@ EXCEPT !.enabled = TRUE,
                                                     !.link = req[h].link]],
                   {}, [Begun(req[h].op, "readback") EXCEPT !.row = a])
       ELSE Goto(h, "readback")

\* The whole row is written from what was read; that there is none any more
\* goes unnoticed here.
UpdateAccount(h) ==
    /\ At(h, "write") /\ Is(h, {"update"})
    /\ LET a == req[h].op.id IN
       IF a \in DOMAIN accounts
       THEN Writes(h, proxies,
                   [accounts EXCEPT ![a] = [@ EXCEPT !.enabled = req[h].enabled,
                                                     !.link = req[h].link]],
                   {}, [Begun(req[h].op, "readback") EXCEPT !.row = a])
       ELSE Goto(h, "readback")

SetEnabled(h, op) ==
    /\ Begins(h, op, {"switch"})
    /\ IF op.id \in DOMAIN accounts
       THEN Writes(h, proxies, [accounts EXCEPT ![op.id].enabled = op.on], {}, Ended("ok"))
       ELSE Answer(h, "failed")

DeleteAccount(h, op) ==
    /\ Begins(h, op, {"delete"})
    /\ IF op.id \in DOMAIN accounts
       THEN Writes(h, proxies, Without(accounts, op.id), {}, Ended("ok"))
       ELSE Answer(h, "failed")

-----------------------------------------------------------------------------
(* Import of a file: proxies by name first, then accounts by name. *)

Current(h) == req[h].op.file[req[h].next]
Importing(h, p) == At(h, p) /\ Is(h, {"import"})
\* The entry is done with.
Onward(h) == LET n == req[h].next + 1 IN
    [Begun(req[h].op, IF n > Len(req[h].op.file) THEN "clear" ELSE "entry")
        EXCEPT !.next = n, !.since = req[h].since]

BeginImport(h, op) ==
    /\ Begins(h, op, {"import"})
    /\ Goes(h, Begun(op, IF op.file = <<>> THEN "clear" ELSE "entry"))

LookForProxy(h) ==
    /\ Importing(h, "entry") /\ "proxy" \in DOMAIN Current(h)
    /\ LET same == Named(Current(h).proxy) IN
       Goes(h, [Then(h, "putProxy") EXCEPT
                   !.row = IF same = {} THEN NoProxy ELSE CHOOSE p \in same : TRUE])

\* A row that is gone since is not missed.
PutProxy(h) ==
    /\ Importing(h, "putProxy")
    /\ LET p == req[h].row
           row == [name |-> Current(h).proxy, url |-> Current(h).url]
       IN  IF p \notin DOMAIN proxies \cup {NoProxy} THEN Goes(h, Onward(h))
           ELSE IF ~(Named(row.name) \subseteq {p}) THEN Answer(h, "failed")
           ELSE IF p # NoProxy
           THEN Writes(h, [proxies EXCEPT ![p] = row], accounts, {}, Onward(h))
           ELSE \E q \in Proxy \ used :
                   Writes(h, With(proxies, q, row), accounts, {q}, Onward(h))

\* An account whose proxy is not known is left without one.
LinkItem(h) ==
    /\ Importing(h, "entry") /\ "account" \in DOMAIN Current(h)
    /\ LET same == Named(Current(h).via) IN
       Goes(h, [Then(h, "look") EXCEPT
                   !.link = IF same = {} THEN NoProxy ELSE CHOOSE p \in same : TRUE])

LookForAccount(h) ==
    /\ Importing(h, "look")
    /\ LET same == AccountNamed(Current(h).account) IN
       Goes(h, [Then(h, "putItem") EXCEPT
                   !.row = IF same = {} THEN NoAccount ELSE CHOOSE a \in same : TRUE])

Item(h) == [name |-> Current(h).account, enabled |-> Current(h).enabled,
            link |-> req[h].link]
InsertItem(h) ==
    IF AccountNamed(Current(h).account) # {} THEN Answer(h, "failed")
    ELSE \E a \in Account \ used :
            Writes(h, proxies, With(accounts, a, Item(h)), {a}, Onward(h))

\* Slip: an account that is there keeps its link.
PutItemLinked(h) ==
    /\ Importing(h, "putItem")
    /\ IF req[h].row = NoAccount THEN InsertItem(h)
       ELSE Writes(h, proxies,
                   [a \in DOMAIN accounts |->
                       IF a \in AccountNamed(Current(h).account)
                       THEN [Item(h) EXCEPT !.link = accounts[a].link] ELSE accounts[a]],
                   {}, Onward(h))

\* Whichever row has the name by now is overwritten.
PutItem(h) ==
    /\ Importing(h, "putItem")
    /\ IF req[h].row = NoAccount THEN InsertItem(h)
       ELSE Writes(h, proxies,
                   [a \in DOMAIN accounts |->
                       IF a \in AccountNamed(Current(h).account)
                       THEN Item(h) ELSE accounts[a]],
                   {}, Onward(h))

-----------------------------------------------------------------------------
(* Calls, and the discovery of the account of a Cookie. *)

\* routing_candidates: a call has its row from a snapshot of enabled accounts.
ReadRow(h, op) ==
    /\ Begins(h, op, {"call"})
    /\ LET a == op.id IN
       IF a \notin DOMAIN accounts \/ ~accounts[a].enabled THEN Answer(h, "failed")
       ELSE Goes(h, [Begun(op, IF accounts[a].link = NoProxy THEN "send" ELSE "lookup")
                        EXCEPT !.link = accounts[a].link])

\* client_for_key and client_for_proxy_id, up to the decryption of the URL.
LookUp(h) ==
    /\ At(h, "lookup")
    /\ IF req[h].link \in DOMAIN proxies
       THEN Goes(h, [Then(h, "client") EXCEPT !.via = proxies[req[h].link].url])
       ELSE Answer(h, "failed")

\* Slip: clients are kept by the proxy's id.
CacheKeyOfProxy(p, url) == p

CacheKey(p, url) == url

\* cached_proxy_client
TakeClient(h) ==
    /\ At(h, "client")
    /\ LET key == CacheKey(req[h].link, req[h].via)
           url == IF key \in DOMAIN cache THEN cache[key] ELSE req[h].via
       IN  /\ cache' = With(cache, key, url)
           /\ req' = [req EXCEPT ![h] = [Then(h, "send") EXCEPT !.via = url]]
    /\ UNCHANGED <<proxies, accounts, used>>

\* The upstream answers: a call is over, a Cookie's account is known.
Send(h) ==
    /\ At(h, "send")
    /\ IF Is(h, {"call"}) THEN Answer(h, "ok")
       ELSE Goes(h, [Then(h, "found") EXCEPT !.via = Direct])

\* A database call or the vault fails, or the client hangs up.
Fails(h) == Running(h) /\ Answer(h, "failed")

-----------------------------------------------------------------------------
Begin(h, op) ==
    \/ CheckName(h, op) \/ ReadProxy(h, op) \/ DeleteProxy(h, op)
    \/ NameNew(h, op) \/ LinkImported(h, op) \/ ReadAccount(h, op)
    \/ SetEnabled(h, op) \/ DeleteAccount(h, op)
    \/ BeginImport(h, op) \/ ReadRow(h, op)

Step(h) ==
    \/ InsertProxy(h) \/ UpdateProxy(h) \/ RereadProxy(h) \/ Clear(h) \/ Readback(h)
    \/ LinkNew(h) \/ NameImported(h) \/ InsertAccount(h)
    \/ ResolveEdit(h) \/ UpdateAccount(h)
    \/ LookForProxy(h) \/ PutProxy(h) \/ LinkItem(h) \/ LookForAccount(h) \/ PutItem(h)
    \/ LookUp(h) \/ TakeClient(h) \/ Send(h)
    \/ Fails(h)

Next == \E h \in Handler : Step(h) \/ \E op \in Op : Begin(h, op)

Spec == Init /\ [][Next]_vars

-----------------------------------------------------------------------------
\* Every variable has its type, rows have ids that were given out, and no two
\* of a table have one name.
TypeOK ==
    /\ DOMAIN proxies \subseteq Proxy /\ DOMAIN accounts \subseteq Account
    /\ \A p \in DOMAIN proxies : proxies[p] \in ProxyRow
    /\ \A a \in DOMAIN accounts : accounts[a] \in AccountRow
    /\ \A k \in DOMAIN cache : cache[k] \in Url
    /\ DOMAIN proxies \cup DOMAIN accounts \subseteq used
    /\ \A h \in Handler : Running(h) => req[h].op \in Op /\ req[h].since \subseteq Event
    /\ \A p, q \in DOMAIN proxies : proxies[p].name = proxies[q].name => p = q
    /\ \A a, b \in DOMAIN accounts :
          accounts[a].name = accounts[b].name /\ accounts[a].name # Suffixed => a = b

Dangles(as, ps) == {a \in DOMAIN as : as[a].link \notin DOMAIN ps \cup {NoProxy}}
Wrote(h) == Running(h) /\ req'[h].pc # req[h].pc

\* An account comes to be linked to a proxy that does not exist only by a
\* request during which that proxy was deleted, or by an edit that takes back
\* what was done to the account's link while it ran: delete_proxy detaches it
\* from every key, and a link is written only after its proxy was seen or to an
\* account that had it.
DanglesOnlyByRace ==
    [][\A a \in Dangles(accounts', proxies') \ Dangles(accounts, proxies) :
          \E h \in Handler :
              /\ Wrote(h)
              /\ \/ <<"drop", accounts'[a].link>> \in req[h].since
                 \/ /\ Is(h, {"update"}) /\ req[h].op.link = Keep
                    /\ <<"link", a>> \in req[h].since]_vars

\* An edit of an account that does not touch its switch or its proxy takes
\* back only what was done to them while it ran.
KeepsUnlessRaced ==
    [][\A h \in Handler : Is(h, {"update"}) /\ Wrote(h) =>
          LET a == req[h].op.id IN
          a \in DOMAIN accounts /\ a \in DOMAIN accounts' =>
              /\ accounts'[a].enabled # accounts[a].enabled => <<"switch", a>> \in req[h].since
              /\ req[h].op.link = Keep /\ accounts'[a].link # accounts[a].link =>
                    <<"link", a>> \in req[h].since]_vars

\* No call goes around the proxy its account is linked to or imported with, and unless that proxy
\* was changed meanwhile it goes by the URL the proxy has now, whichever clients
\* earlier calls have left in the cache, and when.
CallsGoTheirWay ==
    \A h \in Handler : At(h, "send") =>
        LET p == req[h].link IN
        /\ (req[h].via = Direct) <=> (p = NoProxy)
        /\ p # NoProxy /\ req[h].since \cap {<<"edit", p>>, <<"drop", p>>} = {} =>
              req[h].via = proxies[p].url

Final(file, i, field) ==
    \A j \in DOMAIN file : field \in DOMAIN file[j] /\ file[j][field] = file[i][field] => j <= i
\* An import that gets through its file and was not disturbed leaves what its file says, its
\* last entry of a name, also where a failed import or others left something
\* else before: repeating one that stopped half way completes it.
ImportedAsFiled ==
    [][\A h \in Handler : Importing(h, "clear") /\ Wrote(h) /\ req[h].since = {} =>
          LET file == req[h].op.file IN
          \A i \in DOMAIN file :
              /\ "proxy" \in DOMAIN file[i] /\ Final(file, i, "proxy") =>
                    \E p \in Named(file[i].proxy) : proxies[p].url = file[i].url
              /\ "account" \in DOMAIN file[i] /\ Final(file, i, "account") =>
                    \E a \in AccountNamed(file[i].account) :
                        /\ accounts[a].enabled = file[i].enabled
                        /\ IF Named(file[i].via) = {} THEN accounts[a].link = NoProxy
                           ELSE accounts[a].link \in Named(file[i].via)]_vars

\* A handler that unwraps a row it has just written panics only if the row was
\* deleted meanwhile.
PanicsOnlyByRace ==
    [][\A h \in Handler : Running(h) /\ At(h, "panicked")' =>
          req[h].since \cap {<<"drop", req[h].row>>, <<"delete", req[h].row>>} # {}]_vars
=============================================================================
