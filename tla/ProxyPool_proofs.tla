--------------------------- MODULE ProxyPool_proofs ---------------------------
(***************************************************************************)
(* Proofs about ProxyPool, for any number of requests, proxies, accounts    *)
(* and clients, and files of any length: the tables keep their form, calls  *)
(* go by their account's proxy, each anomaly needs its race, and an import  *)
(* that has none leaves what its file says.                                 *)
(***************************************************************************)
EXTENDS ProxyPool, TLAPS

Tables ==
    /\ proxies \in [DOMAIN proxies -> ProxyRow] /\ DOMAIN proxies \subseteq Proxy
    /\ accounts \in [DOMAIN accounts -> AccountRow] /\ DOMAIN accounts \subseteq Account
    /\ DOMAIN proxies \cup DOMAIN accounts \subseteq used
    /\ \A p, q \in DOMAIN proxies : proxies[p].name = proxies[q].name => p = q
    /\ \A a, b \in DOMAIN accounts :
          accounts[a].name = accounts[b].name /\ accounts[a].name # Suffixed => a = b

\* A client is kept by the URL it uses.
Clients == \A k \in DOMAIN cache : cache[k] = k /\ k \in Url

Places == {"insert", "clear", "readback", "write", "reread", "named", "lookup",
               "client", "send", "found", "resolve", "entry", "putProxy", "look", "putItem"}
Record == [pc: Places, op: Op, enabled: BOOLEAN, link: Proxy \cup {NoProxy},
           name: AccountName \cup {Suffixed},
           row: Proxy \cup Account \cup {NoProxy, NoAccount}, next: Nat \ {0},
           via: Url \cup {Direct}, since: SUBSET Event]
Rest == [pc: {"unmade", "ended", "panicked"}]

\* Where each kind of request can be.
OnPath(q) ==
    /\ q.op.kind = "newProxy"  => q.pc \in {"insert", "clear", "readback"}
    /\ q.op.kind = "editProxy" => q.pc \in {"write", "reread", "clear"}
    /\ q.op.kind = "dropProxy" => q.pc = "clear"
    /\ q.op.kind = "create"    => q.pc \in {"named", "insert", "readback"}
    /\ q.op.kind = "cookie"    =>
          q.pc \in {"lookup", "client", "send", "found", "insert", "readback"}
    /\ q.op.kind = "update"    => q.pc \in {"resolve", "write", "readback"}
    /\ q.op.kind = "call"      => q.pc \in {"lookup", "client", "send"}
    /\ q.op.kind = "import"    =>
          q.pc \in {"entry", "putProxy", "look", "putItem", "clear"}
    /\ q.op.kind \notin {"switch", "delete"}

\* The proxy it is about to link to was there, and if it is gone that was heard.
LinkSeen(q) == q.link \in DOMAIN proxies \cup {NoProxy} \/ <<"drop", q.link>> \in q.since

\* Its proxy still has the URL it was found with, or that was heard.
UrlNow(q) ==
    \/ <<"edit", q.link>> \in q.since \/ <<"drop", q.link>> \in q.since
    \/ q.link \in DOMAIN proxies /\ proxies[q.link].url = q.via

\* The row it has in hand is there, or that it went was heard.
RowSeen(q) ==
    /\ q.op.kind = "newProxy" /\ q.pc \in {"clear", "readback"} =>
          q.row \in DOMAIN proxies \/ <<"drop", q.row>> \in q.since
    /\ (q.op.kind \in {"create", "cookie"} /\ q.pc = "readback") \/ q.op.kind = "update" =>
          q.row \in DOMAIN accounts \/ <<"delete", q.row>> \in q.since

\* What an edit has read of its account is as it was, or the change was heard.
ReadFresh(q) ==
    q.op.kind = "update" =>
        /\ q.row = q.op.id
        /\ q.pc \in {"resolve", "write"} /\ q.row \in DOMAIN accounts =>
              accounts[q.row].enabled = q.enabled \/ <<"switch", q.row>> \in q.since
        /\ q.pc = "write" /\ q.op.link = Keep /\ q.row \in DOMAIN accounts =>
              accounts[q.row].link = q.link \/ <<"link", q.row>> \in q.since
        /\ q.pc = "write" /\ q.op.link # Keep => LinkSeen(q)

ClientFits(q) ==
    /\ q.pc = "lookup" => q.link # NoProxy
    /\ q.pc = "client" => q.link # NoProxy /\ q.via \in Url /\ UrlNow(q)
    /\ q.pc = "send" => /\ q.via = Direct <=> q.link = NoProxy
                        /\ q.link # NoProxy => UrlNow(q)

EntryInHand(q) ==
    q.op.kind = "import" =>
        /\ q.pc \in {"entry", "putProxy", "look", "putItem"} => q.next \in 1..Len(q.op.file)
        /\ q.pc = "putProxy" => /\ "proxy" \in DOMAIN q.op.file[q.next]
                                /\ q.row \in Proxy \cup {NoProxy}
        /\ q.pc \in {"look", "putItem"} => "account" \in DOMAIN q.op.file[q.next]

Fine(q) ==
    /\ q \in Record /\ OnPath(q)
    /\ q.op.kind \in {"create", "cookie", "import"} => LinkSeen(q)
    /\ RowSeen(q) /\ ReadFresh(q) /\ ClientFits(q) /\ EntryInHand(q)

Legal(q) == q \in Rest \/ Fine(q)

Inv == /\ Tables /\ Clients
       /\ req \in [Handler -> Record \cup Rest]
       /\ \A h \in Handler : Legal(req[h])

-----------------------------------------------------------------------------
(* What others hear of a write. *)

\* The tables ps and as may follow.
Bounded(ps, as) == DOMAIN ps \subseteq Proxy /\ DOMAIN as \subseteq Account

LEMMA ChangesType ==
    ASSUME Tables, NEW ps, NEW as, Bounded(ps, as)
    PROVE  Changes(ps, as) \subseteq Event
  <1>1. \A p \in Proxy : <<"drop", p>> \in Event /\ <<"edit", p>> \in Event
    BY DEF Event
  <1>2. \A a \in Account :
           <<"delete", a>> \in Event /\ <<"switch", a>> \in Event /\ <<"link", a>> \in Event
    BY DEF Event
  <1>3. ASSUME NEW e \in Changes(ps, as) PROVE e \in Event
    <2>1. \/ \E p \in Proxy : e = <<"drop", p>> \/ e = <<"edit", p>>
          \/ \E a \in Account :
                e = <<"delete", a>> \/ e = <<"switch", a>> \/ e = <<"link", a>>
      BY <1>3 DEF Tables, Bounded, Changes
    <2>2. QED
      BY <1>1, <1>2, <2>1
  <1>4. QED
    BY <1>3

LEMMA ChangesHas ==
    ASSUME NEW ps, NEW as, NEW x
    PROVE  /\ x \in DOMAIN proxies \ DOMAIN ps => <<"drop", x>> \in Changes(ps, as)
           /\ x \in DOMAIN proxies \cap DOMAIN ps /\ proxies[x] # ps[x] =>
                 <<"edit", x>> \in Changes(ps, as)
           /\ x \in DOMAIN accounts \ DOMAIN as => <<"delete", x>> \in Changes(ps, as)
           /\ x \in DOMAIN as /\ (x \in DOMAIN accounts => accounts[x].enabled # as[x].enabled)
                 => <<"switch", x>> \in Changes(ps, as)
           /\ x \in DOMAIN as /\ (x \in DOMAIN accounts => accounts[x].link # as[x].link)
                 => <<"link", x>> \in Changes(ps, as)
  BY DEF Changes

LEMMA ToldIs ==
    ASSUME NEW q \in Record, NEW events \in SUBSET Event
    PROVE  LET t == Told(q, events) IN
           /\ t \in Record
           /\ t.pc = q.pc /\ t.op = q.op /\ t.enabled = q.enabled /\ t.link = q.link
           /\ t.name = q.name /\ t.row = q.row /\ t.next = q.next /\ t.via = q.via
           /\ q.since \subseteq t.since
           /\ \A k, x : <<k, x>> \in events /\ x \in {q.link, q.row} => <<k, x>> \in t.since
  <1> DEFINE heard == {e \in events : q.op.kind = "import" \/ e[2] \in {q.link, q.row}}
             s == q.since \cup heard
  <1>1. s \in SUBSET Event
    BY DEF Record
  <1>2. \A k, x : <<k, x>> \in events /\ x \in {q.link, q.row} => <<k, x>> \in s
    OBVIOUS
  <1>3. q.since \subseteq s /\ Told(q, events) = [q EXCEPT !.since = s]
    BY DEF Told
  <1> HIDE DEF s
  <1>4. QED
    BY <1>1, <1>2, <1>3 DEF Record

\* A request that is told of a write stays fine.
LEMMA ToldFine ==
    ASSUME Tables, NEW q, Fine(q), Bounded(proxies', accounts'),
           NEW u, u = Told(q, Changes(proxies', accounts'))
    PROVE  Fine(u)'
  <1>1. q \in Record /\ Changes(proxies', accounts') \in SUBSET Event
    BY ChangesType DEF Fine
  <1>2. /\ u \in Record
        /\ u.pc = q.pc /\ u.op = q.op /\ u.enabled = q.enabled /\ u.link = q.link
        /\ u.name = q.name /\ u.row = q.row /\ u.next = q.next /\ u.via = q.via
        /\ q.since \subseteq u.since
        /\ \A k, x : <<k, x>> \in Changes(proxies', accounts') /\ x \in {q.link, q.row}
              => <<k, x>> \in u.since
    BY <1>1, ToldIs
  <1>3. LinkSeen(q) => LinkSeen(u)'
    BY <1>2, ChangesHas DEF LinkSeen
  <1>4. UrlNow(q) => UrlNow(u)'
    BY <1>2, ChangesHas DEF UrlNow
  <1>5. RowSeen(u)'
    BY <1>2, ChangesHas DEF Fine, RowSeen
  <1>6. ReadFresh(u)'
    BY <1>2, <1>3, ChangesHas DEF Fine, ReadFresh
  <1>7. ClientFits(u)' /\ EntryInHand(u)' /\ OnPath(u)'
    BY <1>2, <1>4 DEF Fine, ClientFits, EntryInHand, OnPath
  <1>8. QED
    BY <1>2, <1>3, <1>5, <1>6, <1>7 DEF Fine

-----------------------------------------------------------------------------
(* Steps in general. *)

LEMMA RunningFine ==
    ASSUME Inv, NEW h \in Handler, Running(h)
    PROVE  Fine(req[h]) /\ req[h] \in Record
  BY DEF Inv, Legal, Running, Rest, Fine

\* Only the request itself, and perhaps the clients, change.
LEMMA StillFine ==
    ASSUME NEW q, Legal(q), UNCHANGED <<proxies, accounts>>
    PROVE  Legal(q)'
  BY DEF Legal, Fine, OnPath, LinkSeen, UrlNow, RowSeen, ReadFresh, ClientFits, EntryInHand

LEMMA MoveKeeps ==
    ASSUME Inv, NEW h \in Handler, NEW q, Legal(q), req' = [req EXCEPT ![h] = q],
           UNCHANGED <<proxies, accounts, used>>, Clients'
    PROVE  Inv'
  <1>1. /\ req \in [Handler -> Record \cup Rest] /\ q \in Record \cup Rest
        /\ \A g \in Handler : Legal(req[g])
    BY DEF Inv, Legal, Fine
  <1>2. Tables' /\ req' \in [Handler -> Record \cup Rest]
    BY <1>1 DEF Inv, Tables
  <1>3. ASSUME NEW g \in Handler PROVE Legal(req[g])'
    <2>1. PICK x : x = req'[g]
      OBVIOUS
    <2>2. Legal(x)
      BY <1>1, <2>1
    <2>3. Legal(x)'
      BY <2>2, StillFine
    <2>4. QED
      BY <2>1, <2>3
  <1>4. QED
    BY <1>2, <1>3 DEF Inv

LEMMA GoesKeeps ==
    ASSUME Inv, NEW h \in Handler, NEW q, Legal(q), Goes(h, q)
    PROVE  Inv'
  <1>1. Clients'
    BY DEF Goes, Inv, Clients
  <1>2. QED
    BY <1>1, MoveKeeps DEF Goes

LEMMA AnswerKeeps ==
    ASSUME Inv, NEW h \in Handler, NEW a, Answer(h, a)
    PROVE  Inv'
  <1>1. Legal(Ended(a))
    BY DEF Legal, Ended, Rest
  <1>2. QED
    BY <1>1, GoesKeeps DEF Answer

LEMMA WritesKeeps ==
    ASSUME Inv, NEW h \in Handler, NEW ps, NEW as, NEW new, NEW q,
           Writes(h, ps, as, new, q), Tables', Legal(q)'
    PROVE  Inv'
  <1>1. /\ proxies' = ps /\ accounts' = as /\ UNCHANGED cache
        /\ req' = [g \in Handler |->
                      IF g = h THEN q
                      ELSE IF Running(g) THEN Told(req[g], Changes(ps, as))
                      ELSE req[g]]
    BY DEF Writes
  <1>2. Clients' /\ Bounded(proxies', accounts')
    BY <1>1 DEF Inv, Clients, Tables, Bounded
  <1>3. ASSUME NEW g \in Handler PROVE Legal(req[g])' /\ req'[g] \in Record \cup Rest
    <2>1. CASE g = h
      <3>1. req'[g] = q
        BY <1>1, <2>1
      <3>2. q \in Record \cup Rest
        BY DEF Legal, Fine
      <3>3. QED
        BY <3>1, <3>2 DEF Legal, Fine, OnPath, LinkSeen, UrlNow, RowSeen, ReadFresh,
                          ClientFits, EntryInHand
    <2>2. CASE g # h /\ Running(g)
      <3>1. PICK u : u = Told(req[g], Changes(proxies', accounts'))
        OBVIOUS
      <3>2. PICK x : x = req[g]
        OBVIOUS
      <3>3. Fine(x) /\ u = Told(x, Changes(proxies', accounts')) /\ Tables
        BY <2>2, <3>1, <3>2, RunningFine DEF Inv
      <3>4. Fine(u)'
        BY <1>2, <3>3, ToldFine
      <3>5. req'[g] = u
        BY <1>1, <2>2, <3>1
      <3>6. QED
        BY <3>4, <3>5 DEF Legal, Fine, OnPath, LinkSeen, UrlNow, RowSeen, ReadFresh,
                          ClientFits, EntryInHand
    <2>3. CASE g # h /\ ~Running(g)
      <3>1. req'[g] = req[g] /\ req[g] \in Rest
        BY <1>1, <2>3 DEF Inv, Running, Rest, Record, Places
      <3>2. QED
        BY <3>1 DEF Legal, Rest
    <2>4. QED
      BY <2>1, <2>2, <2>3
  <1>4. req' \in [Handler -> Record \cup Rest]
    BY <1>1, <1>3
  <1>5. QED
    BY <1>2, <1>3, <1>4 DEF Inv

-----------------------------------------------------------------------------
(* First steps. *)

LEMMA OpType ==
    ASSUME NEW op \in Op
    PROVE  /\ op.kind \in {"newProxy", "editProxy", "dropProxy", "create", "cookie", "update",
                           "switch", "delete", "call", "import"}
           /\ op.kind \in {"newProxy", "editProxy"} => op.name \in ProxyName /\ op.url \in Url
           /\ op.kind \in {"editProxy", "dropProxy"} => op.id \in Proxy
           /\ op.kind \in {"create", "cookie"} =>
                 op.name \in AccountName /\ op.link \in Proxy \cup {NoProxy}
           /\ op.kind = "update" => op.id \in Account /\ op.link \in Proxy \cup {NoProxy, Keep}
           /\ op.kind \in {"switch", "delete", "call"} => op.id \in Account
           /\ op.kind = "switch" => op.on \in BOOLEAN
           /\ op.kind = "import" => op.file \in Payload /\ op.file \in Seq(Entry)
  BY PayloadAssumption DEF Op

LEMMA BegunIs ==
    ASSUME NEW op \in Op, NEW p \in Places
    PROVE  LET q == Begun(op, p) IN
           /\ q \in Record /\ q.pc = p /\ q.op = op /\ q.link = NoProxy
           /\ q.name = Suffixed /\ q.row = NoProxy /\ q.next = 1 /\ q.via = Direct
           /\ q.since = {}
  BY DEF Begun, Record

LEMMA UniqueType == \A n \in AccountName : Unique(n) \in AccountName \cup {Suffixed}
  BY DEF Unique

LEMMA RowType ==
    ASSUME Tables
    PROVE  /\ \A p \in DOMAIN proxies :
                 p \in Proxy /\ proxies[p].name \in ProxyName /\ proxies[p].url \in Url
           /\ \A a \in DOMAIN accounts :
                 /\ a \in Account /\ accounts[a].name \in AccountName \cup {Suffixed}
                 /\ accounts[a].enabled \in BOOLEAN /\ accounts[a].link \in Proxy \cup {NoProxy}
  BY DEF Tables, ProxyRow, AccountRow

\* resolve_proxy (routes/keys.rs) leaves a request fine that was waiting for it.
LEMMA ResolveKeeps ==
    ASSUME Inv, NEW h \in Handler, NEW q \in Record, Resolve(h, q),
           \A x \in Record :
               (/\ x.link = q.op.link /\ x.link \in DOMAIN proxies \cup {NoProxy}
                /\ x.pc = q.pc /\ x.op = q.op /\ x.enabled = q.enabled /\ x.name = q.name
                /\ x.row = q.row /\ x.next = q.next /\ x.via = q.via /\ x.since = q.since)
               => Fine(x)
    PROVE  Inv'
  <1>1. CASE q.op.link \in DOMAIN proxies \cup {NoProxy}
    <2>1. q.op.link \in Proxy \cup {NoProxy}
      BY <1>1 DEF Inv, Tables
    <2> DEFINE x == [q EXCEPT !.link = q.op.link]
    <2>2. /\ x \in Record /\ x.link = q.op.link
          /\ x.pc = q.pc /\ x.op = q.op /\ x.enabled = q.enabled /\ x.name = q.name
          /\ x.row = q.row /\ x.next = q.next /\ x.via = q.via /\ x.since = q.since
      BY <2>1 DEF Record
    <2>3. Goes(h, x)
      BY <1>1 DEF Resolve
    <2> HIDE DEF x
    <2>4. QED
      BY <1>1, <2>2, <2>3, GoesKeeps DEF Legal
  <1>2. CASE q.op.link \notin DOMAIN proxies \cup {NoProxy}
    BY <1>2, AnswerKeeps DEF Resolve
  <1>3. QED
    BY <1>1, <1>2

LEMMA BeginsKeep ==
    ASSUME Inv, NEW h \in Handler, NEW op \in Op,
           \/ CheckName(h, op) \/ ReadProxy(h, op) \/ NameNew(h, op) \/ LinkImported(h, op)
           \/ ReadAccount(h, op) \/ BeginImport(h, op) \/ ReadRow(h, op)
    PROVE  Inv'
  <1>1. CASE CheckName(h, op)
    <2>1. CASE Goes(h, Begun(op, "insert"))
      <3>1. Fine(Begun(op, "insert"))
        BY <1>1, BegunIs DEF CheckName, Begins, Fine, OnPath, RowSeen, ReadFresh,
                             ClientFits, EntryInHand, Places
      <3>2. QED
        BY <2>1, <3>1, GoesKeeps DEF Legal
    <2>2. QED
      BY <1>1, <2>1, AnswerKeeps DEF CheckName
  <1>2. CASE ReadProxy(h, op)
    <2>1. CASE Goes(h, Begun(op, "write"))
      <3>1. Fine(Begun(op, "write"))
        BY <1>2, BegunIs DEF ReadProxy, Begins, Fine, OnPath, RowSeen, ReadFresh,
                             ClientFits, EntryInHand, Places
      <3>2. QED
        BY <2>1, <3>1, GoesKeeps DEF Legal
    <2>2. QED
      BY <1>2, <2>1, AnswerKeeps DEF ReadProxy
  <1>3. CASE NameNew(h, op)
    <2> DEFINE b == Begun(op, "named")
               q == [b EXCEPT !.name = Unique(op.name)]
    <2>1. op.kind = "create" /\ Unique(op.name) \in AccountName \cup {Suffixed}
      BY <1>3, OpType, UniqueType DEF NameNew, Begins
    <2>2. b \in Record /\ b.pc = "named" /\ b.op = op /\ b.link = NoProxy
      BY BegunIs DEF Places
    <2> HIDE DEF b
    <2>3. q \in Record /\ q.pc = "named" /\ q.op = op /\ q.link = NoProxy
      BY <2>1, <2>2 DEF Record
    <2>4. Fine(q)
      <3> HIDE DEF q
      <3>1. QED
        BY <2>1, <2>3 DEF Fine, OnPath, LinkSeen, RowSeen, ReadFresh, ClientFits, EntryInHand
    <2>5. QED
      BY <1>3, <2>4, GoesKeeps DEF NameNew, Legal, b
  <1>4. CASE LinkImported(h, op)
    <2> DEFINE p == IF op.link = NoProxy THEN "send" ELSE "lookup"
               b == Begun(op, p)
    <2>1. op.kind = "cookie" /\ Resolve(h, b)
      BY <1>4 DEF LinkImported, Begins
    <2>2. b \in Record /\ b.op = op /\ b.pc = p /\ b.via = Direct /\ p \in {"send", "lookup"}
      BY BegunIs DEF Places
    <2> HIDE DEF b
    <2>3. ASSUME NEW x \in Record, x.link = op.link, x.link \in DOMAIN proxies \cup {NoProxy},
                 x.pc = p, x.op = op, x.via = Direct
          PROVE  Fine(x)
      BY <2>1, <2>2, <2>3
      DEF Fine, OnPath, LinkSeen, RowSeen, ReadFresh, ClientFits, EntryInHand
    <2> HIDE DEF p
    <2>4. QED
      BY <2>1, <2>2, <2>3, ResolveKeeps
  <1>5. CASE ReadAccount(h, op)
    <2>1. op.kind = "update" /\ op.id \in Account
      BY <1>5, OpType DEF ReadAccount, Begins
    <2> DEFINE p == IF op.link = Keep THEN "write" ELSE "resolve"
               b == Begun(op, p)
               q == [b EXCEPT !.enabled = accounts[op.id].enabled,
                              !.link = accounts[op.id].link, !.row = op.id]
    <2>2. CASE op.id \in DOMAIN accounts /\ Goes(h, q)
      <3>1. b \in Record /\ b.pc = p /\ b.op = op /\ p \in {"write", "resolve"}
        BY BegunIs DEF Places
      <3>2. p = "write" => op.link = Keep
        OBVIOUS
      <3> HIDE DEF b, p
      <3>3. /\ q \in Record /\ q.pc = p /\ q.op = op /\ q.row = op.id
            /\ q.enabled = accounts[op.id].enabled /\ q.link = accounts[op.id].link
        BY <2>1, <2>2, <3>1, RowType DEF Inv, Record
      <3>4. Fine(q)
        <4> HIDE DEF q
        <4>1. QED
          BY <2>1, <2>2, <3>1, <3>2, <3>3
          DEF Fine, OnPath, RowSeen, ReadFresh, ClientFits, EntryInHand
      <3>5. QED
        BY <2>2, <3>4, GoesKeeps DEF Legal
    <2>3. QED
      BY <1>5, <2>2, AnswerKeeps DEF ReadAccount
  <1>6. CASE BeginImport(h, op)
    <2> DEFINE p == IF op.file = <<>> THEN "clear" ELSE "entry"
               b == Begun(op, p)
    <2>1. op.kind = "import" /\ op.file \in Seq(Entry) /\ Goes(h, b)
      BY <1>6, OpType DEF BeginImport, Begins
    <2>2. /\ b \in Record /\ b.pc = p /\ b.op = op /\ b.link = NoProxy /\ b.next = 1
          /\ p \in {"clear", "entry"}
      BY BegunIs DEF Places
    <2>3. p = "entry" => 1 \in 1..Len(op.file)
      BY <2>1
    <2>4. Fine(b)
      <3> HIDE DEF b, p
      <3>1. QED
        BY <2>1, <2>2, <2>3
        DEF Fine, OnPath, LinkSeen, RowSeen, ReadFresh, ClientFits, EntryInHand
    <2>5. QED
      BY <2>1, <2>4, GoesKeeps DEF Legal
  <1>7. CASE ReadRow(h, op)
    <2>1. op.kind = "call" /\ op.id \in Account
      BY <1>7, OpType DEF ReadRow, Begins
    <2> DEFINE p == IF accounts[op.id].link = NoProxy THEN "send" ELSE "lookup"
               b == Begun(op, p)
               q == [b EXCEPT !.link = accounts[op.id].link]
    <2>2. CASE op.id \in DOMAIN accounts /\ Goes(h, q)
      <3>1. b \in Record /\ b.pc = p /\ b.op = op /\ b.via = Direct /\ p \in {"send", "lookup"}
        BY BegunIs DEF Places
      <3>2. (p = "send") <=> (accounts[op.id].link = NoProxy)
        OBVIOUS
      <3> HIDE DEF b, p
      <3>3. /\ q \in Record /\ q.pc = p /\ q.op = op /\ q.via = Direct
            /\ q.link = accounts[op.id].link
        BY <2>1, <2>2, <3>1, RowType DEF Inv, Record
      <3>4. Fine(q)
        <4> HIDE DEF q
        <4>1. QED
          BY <2>1, <3>1, <3>2, <3>3
          DEF Fine, OnPath, RowSeen, ReadFresh, ClientFits, EntryInHand
      <3>5. QED
        BY <2>2, <3>4, GoesKeeps DEF Legal
    <2>3. QED
      BY <1>7, <2>2, AnswerKeeps DEF ReadRow
  <1>8. QED
    BY <1>1, <1>2, <1>3, <1>4, <1>5, <1>6, <1>7

-----------------------------------------------------------------------------
(* Later steps that write no row. *)

LEMMA EntryType ==
    ASSUME NEW e \in Entry
    PROVE  /\ "proxy" \in DOMAIN e => e.proxy \in ProxyName /\ e.url \in Url
           /\ "account" \in DOMAIN e => e.account \in AccountName /\ e.enabled \in BOOLEAN
           /\ "proxy" \in DOMAIN e \/ "account" \in DOMAIN e
  BY DEF Entry

\* The entry an import has in hand.
LEMMA CurrentType ==
    ASSUME Inv, NEW h \in Handler, Is(h, {"import"}),
           req[h].pc \in {"entry", "putProxy", "look", "putItem"}
    PROVE  /\ req[h] \in Record /\ Fine(req[h]) /\ req[h].op.kind = "import"
           /\ req[h].op \in Op /\ req[h].op.file \in Seq(Entry)
           /\ req[h].next \in 1..Len(req[h].op.file) /\ Current(h) \in Entry
  <1>1. req[h] \in Record /\ Fine(req[h]) /\ req[h].op.kind = "import" /\ req[h].op \in Op
    BY RunningFine DEF Is, Record
  <1>2. req[h].op.file \in Seq(Entry) /\ req[h].next \in 1..Len(req[h].op.file)
    BY <1>1, OpType DEF Fine, EntryInHand
  <1>3. QED
    BY <1>1, <1>2 DEF Current

LEMMA RefusalsKeep ==
    ASSUME Inv, NEW h \in Handler, Readback(h) \/ Fails(h)
    PROVE  Inv'
  BY AnswerKeeps DEF Readback, Fails

LEMMA RereadKeeps ==
    ASSUME Inv, NEW h \in Handler, RereadProxy(h)
    PROVE  Inv'
  <1>1. CASE Goto(h, "clear")
    <2>1. Running(h) /\ req[h].pc = "reread"
      BY DEF RereadProxy, At, Running
    <2>2. req[h] \in Record /\ Fine(req[h])
      BY <2>1, RunningFine
    <2> DEFINE q == [req[h] EXCEPT !.pc = "clear"]
    <2>3. q \in Record /\ q.pc = "clear" /\ q.op = req[h].op /\ q.op \in Op
      BY <2>2 DEF Record, Places
    <2>4. req[h].op.kind = "editProxy"
      BY <2>1, <2>2, <2>3, OpType DEF Fine, OnPath
    <2>5. Fine(q)
      <3> HIDE DEF q
      <3>1. QED
        BY <2>3, <2>4
        DEF Fine, OnPath, LinkSeen, RowSeen, ReadFresh, ClientFits, EntryInHand
    <2>6. QED
      BY <1>1, <2>5, GoesKeeps DEF Goto, Legal
  <1>2. QED
    BY <1>1, AnswerKeeps DEF RereadProxy

LEMMA LinkNewKeeps ==
    ASSUME Inv, NEW h \in Handler, LinkNew(h)
    PROVE  Inv'
  <1>1. Running(h) /\ req[h].pc = "named" /\ Resolve(h, Then(h, "insert"))
    BY DEF LinkNew, At, Running
  <1>2. req[h] \in Record /\ Fine(req[h]) /\ req[h].op \in Op
    BY <1>1, RunningFine DEF Record
  <1>3. req[h].op.kind = "create"
    BY <1>1, <1>2, OpType DEF Fine, OnPath
  <1> DEFINE q == Then(h, "insert")
  <1>4. q \in Record /\ q.pc = "insert" /\ q.op = req[h].op
    BY <1>2 DEF Record, Places, Then
  <1> HIDE DEF q
  <1>5. ASSUME NEW x \in Record, x.link \in DOMAIN proxies \cup {NoProxy},
               x.pc = q.pc, x.op = q.op
        PROVE  Fine(x)
    BY <1>3, <1>4, <1>5
    DEF Fine, OnPath, LinkSeen, RowSeen, ReadFresh, ClientFits, EntryInHand
  <1>6. QED
    BY <1>1, <1>4, <1>5, ResolveKeeps DEF q

LEMMA ResolveEditKeeps ==
    ASSUME Inv, NEW h \in Handler, ResolveEdit(h)
    PROVE  Inv'
  <1>1. Running(h) /\ req[h].pc = "resolve" /\ Resolve(h, Then(h, "write"))
    BY DEF ResolveEdit, At, Running
  <1>2. req[h] \in Record /\ Fine(req[h]) /\ req[h].op \in Op
    BY <1>1, RunningFine DEF Record
  <1>3. req[h].op.kind = "update"
    BY <1>1, <1>2, OpType DEF Fine, OnPath
  <1> DEFINE q == Then(h, "write")
  <1>4. /\ q \in Record /\ q.pc = "write" /\ q.op = req[h].op /\ q.enabled = req[h].enabled
        /\ q.row = req[h].row /\ q.since = req[h].since
    BY <1>2 DEF Record, Places, Then
  <1> HIDE DEF q
  <1>5. Keep \notin DOMAIN proxies \cup {NoProxy}
    BY NameAssumption DEF Inv, Tables
  <1>6. ASSUME NEW x \in Record, x.link = q.op.link, x.link \in DOMAIN proxies \cup {NoProxy},
               x.pc = q.pc, x.op = q.op, x.enabled = q.enabled, x.row = q.row,
               x.since = q.since
        PROVE  Fine(x)
    <2>1. x.op.kind = "update" /\ x.pc = "write" /\ LinkSeen(x)
      BY <1>3, <1>4, <1>6 DEF LinkSeen
    <2>2. ReadFresh(x) /\ RowSeen(x)
      BY <1>1, <1>2, <1>3, <1>4, <1>5, <1>6, <2>1 DEF Fine, ReadFresh, RowSeen
    <2>3. QED
      BY <2>1, <2>2 DEF Fine, OnPath, ClientFits, EntryInHand
  <1>7. QED
    BY <1>1, <1>4, <1>6, ResolveKeeps DEF q

LEMMA NameImportedKeeps ==
    ASSUME Inv, NEW h \in Handler, NameImported(h)
    PROVE  Inv'
  <1> DEFINE n == Unique(req[h].op.name)
             q == [req[h] EXCEPT !.pc = "insert", !.name = n]
  <1>1. Running(h) /\ req[h].pc = "found" /\ Goes(h, q)
    BY DEF NameImported, At, Running, Then
  <1>2. req[h] \in Record /\ Fine(req[h]) /\ req[h].op \in Op
    BY <1>1, RunningFine DEF Record
  <1>3. req[h].op.kind = "cookie" /\ n \in AccountName \cup {Suffixed}
    BY <1>1, <1>2, OpType, UniqueType DEF Fine, OnPath
  <1> HIDE DEF n
  <1>4. /\ q \in Record /\ q.pc = "insert" /\ q.op = req[h].op /\ q.link = req[h].link
        /\ q.since = req[h].since
    BY <1>2, <1>3 DEF Record, Places
  <1>5. Fine(q)
    <2> HIDE DEF q
    <2>1. QED
      BY <1>2, <1>3, <1>4 DEF Fine, OnPath, LinkSeen, RowSeen, ReadFresh, ClientFits, EntryInHand
  <1>6. QED
    BY <1>1, <1>5, GoesKeeps DEF Legal

LEMMA LookUpKeeps ==
    ASSUME Inv, NEW h \in Handler, LookUp(h)
    PROVE  Inv'
  <1> DEFINE q == [req[h] EXCEPT !.pc = "client", !.via = proxies[req[h].link].url]
  <1>1. Running(h) /\ req[h].pc = "lookup"
    BY DEF LookUp, At, Running
  <1>2. req[h] \in Record /\ Fine(req[h]) /\ req[h].op \in Op
    BY <1>1, RunningFine DEF Record
  <1>3. req[h].op.kind \in {"call", "cookie"}
    BY <1>1, <1>2, OpType DEF Fine, OnPath
  <1>4. CASE req[h].link \in DOMAIN proxies /\ Goes(h, q)
    <2>1. proxies[req[h].link].url \in Url
      BY <1>4, RowType DEF Inv
    <2>2. /\ q \in Record /\ q.pc = "client" /\ q.op = req[h].op /\ q.link = req[h].link
          /\ q.since = req[h].since /\ q.row = req[h].row
          /\ q.via = proxies[req[h].link].url
      BY <1>2, <2>1 DEF Record, Places
    <2>3. Fine(q)
      <3> HIDE DEF q
      <3>1. UrlNow(q) /\ q.link # NoProxy
        BY <1>1, <1>2, <1>4, <2>2 DEF UrlNow, Fine, ClientFits
      <3>2. QED
        BY <1>2, <1>3, <1>4, <2>1, <2>2, <3>1
        DEF Fine, OnPath, LinkSeen, RowSeen, ReadFresh, ClientFits, EntryInHand
    <2>4. QED
      BY <1>4, <2>3, GoesKeeps DEF Legal
  <1>5. QED
    BY <1>4, AnswerKeeps DEF LookUp, Then

LEMMA SendKeeps ==
    ASSUME Inv, NEW h \in Handler, Send(h)
    PROVE  Inv'
  <1> DEFINE q == [req[h] EXCEPT !.pc = "found", !.via = Direct]
  <1>1. Running(h) /\ req[h].pc = "send"
    BY DEF Send, At, Running
  <1>2. req[h] \in Record /\ Fine(req[h]) /\ req[h].op \in Op
    BY <1>1, RunningFine DEF Record
  <1>3. CASE ~Is(h, {"call"}) /\ Goes(h, q)
    <2>1. req[h].op.kind = "cookie"
      BY <1>1, <1>2, <1>3, OpType DEF Fine, OnPath, Is
    <2>2. /\ q \in Record /\ q.pc = "found" /\ q.op = req[h].op /\ q.link = req[h].link
          /\ q.since = req[h].since
      BY <1>2 DEF Record, Places
    <2>3. Fine(q)
      <3> HIDE DEF q
      <3>1. QED
        BY <1>2, <2>1, <2>2
        DEF Fine, OnPath, LinkSeen, RowSeen, ReadFresh, ClientFits, EntryInHand
    <2>4. QED
      BY <1>3, <2>3, GoesKeeps DEF Legal
  <1>4. QED
    BY <1>3, AnswerKeeps DEF Send, Then

\* The import's next look at the tables.
LEMMA LookKeeps ==
    ASSUME Inv, NEW h \in Handler, LookForProxy(h) \/ LinkItem(h) \/ LookForAccount(h)
    PROVE  Inv'
  <1>1. Is(h, {"import"}) /\ req[h].pc \in {"entry", "look"}
    BY DEF LookForProxy, LinkItem, LookForAccount, Importing, At
  <1>2. /\ req[h] \in Record /\ Fine(req[h]) /\ req[h].op.kind = "import"
        /\ req[h].next \in 1..Len(req[h].op.file) /\ LinkSeen(req[h])
    BY <1>1, CurrentType DEF Fine
  <1>3. CASE LookForProxy(h)
    <2> DEFINE same == Named(Current(h).proxy)
               r == IF same = {} THEN NoProxy ELSE CHOOSE p \in same : TRUE
               q == [req[h] EXCEPT !.pc = "putProxy", !.row = r]
    <2>1. "proxy" \in DOMAIN req[h].op.file[req[h].next] /\ Goes(h, q)
      BY <1>3 DEF LookForProxy, Current, Then
    <2>2. r \in Proxy \cup {NoProxy}
      BY DEF Named, Inv, Tables
    <2> HIDE DEF r
    <2>3. /\ q \in Record /\ q.pc = "putProxy" /\ q.op = req[h].op /\ q.link = req[h].link
          /\ q.since = req[h].since /\ q.next = req[h].next /\ q.row \in Proxy \cup {NoProxy}
      BY <1>2, <2>2 DEF Record, Places
    <2>4. Fine(q)
      <3> HIDE DEF q
      <3>1. QED
        BY <1>2, <2>1, <2>3
        DEF Fine, OnPath, LinkSeen, RowSeen, ReadFresh, ClientFits, EntryInHand
    <2>5. QED
      BY <2>1, <2>4, GoesKeeps DEF Legal
  <1>4. CASE LinkItem(h)
    <2> DEFINE same == Named(Current(h).via)
               l == IF same = {} THEN NoProxy ELSE CHOOSE p \in same : TRUE
               q == [req[h] EXCEPT !.pc = "look", !.link = l]
    <2>1. "account" \in DOMAIN req[h].op.file[req[h].next] /\ Goes(h, q)
      BY <1>4 DEF LinkItem, Current, Then
    <2>2. l \in DOMAIN proxies \cup {NoProxy} /\ l \in Proxy \cup {NoProxy}
      BY DEF Named, Inv, Tables
    <2> HIDE DEF l
    <2>3. /\ q \in Record /\ q.pc = "look" /\ q.op = req[h].op /\ q.link = l
          /\ q.next = req[h].next
      BY <1>2, <2>2 DEF Record, Places
    <2>4. Fine(q)
      <3> HIDE DEF q
      <3>1. QED
        BY <1>2, <2>1, <2>2, <2>3
        DEF Fine, OnPath, LinkSeen, RowSeen, ReadFresh, ClientFits, EntryInHand
    <2>5. QED
      BY <2>1, <2>4, GoesKeeps DEF Legal
  <1>5. CASE LookForAccount(h)
    <2> DEFINE same == AccountNamed(Current(h).account)
               r == IF same = {} THEN NoAccount ELSE CHOOSE a \in same : TRUE
               q == [req[h] EXCEPT !.pc = "putItem", !.row = r]
    <2>1. "account" \in DOMAIN req[h].op.file[req[h].next] /\ Goes(h, q)
      BY <1>2, <1>5 DEF LookForAccount, Importing, At, Then, Fine, EntryInHand
    <2>2. r \in Account \cup {NoAccount}
      BY DEF AccountNamed, Inv, Tables
    <2> HIDE DEF r
    <2>3. /\ q \in Record /\ q.pc = "putItem" /\ q.op = req[h].op /\ q.link = req[h].link
          /\ q.since = req[h].since /\ q.next = req[h].next
      BY <1>2, <2>2 DEF Record, Places
    <2>4. Fine(q)
      <3> HIDE DEF q
      <3>1. QED
        BY <1>2, <2>1, <2>3
        DEF Fine, OnPath, LinkSeen, RowSeen, ReadFresh, ClientFits, EntryInHand
    <2>5. QED
      BY <2>1, <2>4, GoesKeeps DEF Legal
  <1>6. QED
    BY <1>3, <1>4, <1>5

\* clear_proxy_client_cache (state.rs).
LEMMA ClearKeeps ==
    ASSUME Inv, NEW h \in Handler, Clear(h)
    PROVE  Inv'
  <1>1. /\ Running(h) /\ req[h].pc = "clear" /\ cache' = <<>>
        /\ UNCHANGED <<proxies, accounts, used>>
    BY DEF Clear, At, Running
  <1>2. Clients'
    BY <1>1 DEF Clients
  <1>3. req[h] \in Record /\ Fine(req[h])
    BY <1>1, RunningFine
  <1>4. CASE Is(h, {"newProxy"})
    <2> DEFINE q == [req[h] EXCEPT !.pc = "readback"]
    <2>1. req' = [req EXCEPT ![h] = q] /\ req[h].op.kind = "newProxy"
      BY <1>4 DEF Clear, Then, Is
    <2>2. /\ q \in Record /\ q.pc = "readback" /\ q.op = req[h].op /\ q.row = req[h].row
          /\ q.since = req[h].since
      BY <1>3 DEF Record, Places
    <2>3. Fine(q)
      <3> HIDE DEF q
      <3>1. QED
        BY <1>1, <1>3, <2>1, <2>2 DEF Fine, OnPath, RowSeen, ReadFresh, ClientFits, EntryInHand
    <2>4. QED
      BY <1>1, <1>2, <2>1, <2>3, MoveKeeps DEF Legal
  <1>5. CASE ~Is(h, {"newProxy"})
    <2>1. req' = [req EXCEPT ![h] = Ended("ok")] /\ Ended("ok") \in Rest
      BY <1>5 DEF Clear, Ended, Rest
    <2>2. QED
      BY <1>1, <1>2, <2>1, MoveKeeps DEF Legal
  <1>6. QED
    BY <1>4, <1>5

\* cached_proxy_client (state.rs): the client got is one for the URL asked.
LEMMA TakeClientKeeps ==
    ASSUME Inv, NEW h \in Handler, TakeClient(h)
    PROVE  Inv'
  <1> DEFINE v == req[h].via
             url == IF v \in DOMAIN cache THEN cache[v] ELSE v
             q == [req[h] EXCEPT !.pc = "send", !.via = url]
  <1>1. /\ Running(h) /\ req[h].pc = "client"
        /\ cache' = With(cache, v, url) /\ req' = [req EXCEPT ![h] = q]
        /\ UNCHANGED <<proxies, accounts, used>>
    BY DEF TakeClient, At, Running, Then, CacheKey
  <1>2. req[h] \in Record /\ Fine(req[h]) /\ req[h].op \in Op
    BY <1>1, RunningFine DEF Record
  <1>3. req[h].op.kind \in {"call", "cookie"}
    BY <1>1, <1>2, OpType DEF Fine, OnPath
  <1>4. v \in Url /\ url = v /\ req[h].link # NoProxy /\ UrlNow(req[h])
    BY <1>1, <1>2 DEF Fine, ClientFits, Inv, Clients
  <1> HIDE DEF url
  <1>5. Clients'
    <2>1. cache' = With(cache, v, v)
      BY <1>1, <1>4
    <2> HIDE DEF v
    <2>2. \A k \in DOMAIN cache' : k \in Url /\ cache'[k] = k
      BY <1>4, <2>1 DEF Inv, Clients, With
    <2>3. QED
      BY <2>2 DEF Clients
  <1>6. /\ q \in Record /\ q.pc = "send" /\ q.op = req[h].op /\ q.link = req[h].link
        /\ q.since = req[h].since /\ q.via = req[h].via
    BY <1>2, <1>4 DEF Record, Places
  <1>7. Fine(q)
    <2> HIDE DEF q
    <2>1. QED
      BY <1>2, <1>3, <1>4, <1>6, NameAssumption
      DEF Fine, OnPath, LinkSeen, UrlNow, RowSeen, ReadFresh, ClientFits, EntryInHand
  <1>8. QED
    BY <1>1, <1>5, <1>7, MoveKeeps DEF Legal

-----------------------------------------------------------------------------
(* The tables after a write. *)

LEMMA NewProxyTables ==
    ASSUME Tables, NEW p \in Proxy \ used, NEW row \in ProxyRow, Named(row.name) = {},
           proxies' = With(proxies, p, row), accounts' = accounts, used' = used \cup {p}
    PROVE  Tables'
  <1>1. /\ proxies' \in [DOMAIN proxies' -> ProxyRow] /\ DOMAIN proxies' = DOMAIN proxies \cup {p}
        /\ p \notin DOMAIN proxies /\ proxies'[p] = row
        /\ \A x \in DOMAIN proxies : proxies'[x] = proxies[x] /\ proxies[x].name # row.name
    BY DEF Tables, With, Named
  <1>2. \A x, y \in DOMAIN proxies' : proxies'[x].name = proxies'[y].name => x = y
    BY <1>1 DEF Tables
  <1>3. QED
    BY <1>1, <1>2 DEF Tables

LEMMA EditedProxyTables ==
    ASSUME Tables, NEW p \in DOMAIN proxies, NEW row \in ProxyRow,
           Named(row.name) \subseteq {p},
           proxies' = [proxies EXCEPT ![p] = row], accounts' = accounts, used' = used
    PROVE  Tables'
  <1>1. /\ proxies' \in [DOMAIN proxies' -> ProxyRow] /\ DOMAIN proxies' = DOMAIN proxies
        /\ proxies'[p] = row
        /\ \A x \in DOMAIN proxies : x # p => /\ proxies'[x] = proxies[x]
                                              /\ proxies[x].name # row.name
    BY DEF Tables, Named
  <1>2. \A x, y \in DOMAIN proxies' : proxies'[x].name = proxies'[y].name => x = y
    BY <1>1 DEF Tables
  <1>3. QED
    BY <1>1, <1>2 DEF Tables

LEMMA NewAccountTables ==
    ASSUME Tables, NEW a \in Account \ used, NEW row \in AccountRow,
           AccountNamed(row.name) = {},
           accounts' = With(accounts, a, row), proxies' = proxies, used' = used \cup {a}
    PROVE  Tables'
  <1>1. /\ accounts' \in [DOMAIN accounts' -> AccountRow]
        /\ DOMAIN accounts' = DOMAIN accounts \cup {a}
        /\ a \notin DOMAIN accounts /\ accounts'[a] = row
        /\ \A x \in DOMAIN accounts : /\ accounts'[x] = accounts[x]
                                      /\ accounts[x].name # row.name \/ row.name = Suffixed
    BY DEF Tables, With, AccountNamed
  <1>2. \A x, y \in DOMAIN accounts' :
           accounts'[x].name = accounts'[y].name /\ accounts'[x].name # Suffixed => x = y
    BY <1>1 DEF Tables
  <1>3. QED
    BY <1>1, <1>2 DEF Tables

\* Rows go, or change but for their names.
LEMMA SameNamesTables ==
    ASSUME Tables, used' = used,
           proxies' \in [DOMAIN proxies' -> ProxyRow], DOMAIN proxies' \subseteq DOMAIN proxies,
           \A p \in DOMAIN proxies' : proxies'[p].name = proxies[p].name,
           accounts' \in [DOMAIN accounts' -> AccountRow],
           DOMAIN accounts' \subseteq DOMAIN accounts,
           \A a \in DOMAIN accounts' : accounts'[a].name = accounts[a].name
    PROVE  Tables'
  BY DEF Tables

LEMMA DeleteProxyTables ==
    ASSUME Tables, NEW p, used' = used, proxies' = Without(proxies, p),
           accounts' = [a \in DOMAIN accounts |->
                           IF accounts[a].link = p
                           THEN [accounts[a] EXCEPT !.link = NoProxy] ELSE accounts[a]]
    PROVE  Tables'
  <1>1. /\ proxies' \in [DOMAIN proxies' -> ProxyRow] /\ DOMAIN proxies' \subseteq DOMAIN proxies
        /\ \A x \in DOMAIN proxies' : proxies'[x].name = proxies[x].name
    BY DEF Tables, Without
  <1>2. ASSUME NEW a \in DOMAIN accounts
        PROVE  accounts'[a] \in AccountRow /\ accounts'[a].name = accounts[a].name
    BY <1>2 DEF Tables, AccountRow
  <1>3. accounts' \in [DOMAIN accounts' -> AccountRow] /\ DOMAIN accounts' = DOMAIN accounts
    BY <1>2
  <1>4. QED
    BY <1>1, <1>2, <1>3, SameNamesTables

LEMMA DeleteAccountTables ==
    ASSUME Tables, NEW a, UNCHANGED <<used, proxies>>, accounts' = Without(accounts, a)
    PROVE  Tables'
  <1>1. /\ accounts' \in [DOMAIN accounts' -> AccountRow]
        /\ DOMAIN accounts' \subseteq DOMAIN accounts
        /\ \A x \in DOMAIN accounts' : accounts'[x].name = accounts[x].name
    BY DEF Tables, Without
  <1>2. proxies' \in [DOMAIN proxies' -> ProxyRow]
    BY DEF Tables
  <1>3. QED
    BY <1>1, <1>2, SameNamesTables

LEMMA EditedAccountTables ==
    ASSUME Tables, UNCHANGED <<used, proxies>>, DOMAIN accounts' = DOMAIN accounts,
           accounts' \in [DOMAIN accounts -> AccountRow],
           \A a \in DOMAIN accounts : accounts'[a].name = accounts[a].name
    PROVE  Tables'
  <1>1. proxies' \in [DOMAIN proxies' -> ProxyRow]
    BY DEF Tables
  <1>2. QED
    BY <1>1, SameNamesTables

-----------------------------------------------------------------------------
(* Steps that write a row. *)

LEMMA EndedRest == \A a : Ended(a) \in Rest
  BY DEF Ended, Rest

LEMMA DeleteProxyKeeps ==
    ASSUME Inv, NEW h \in Handler, NEW op \in Op, DeleteProxy(h, op)
    PROVE  Inv'
  <1> DEFINE p == op.id
             detached == [a \in DOMAIN accounts |->
                             IF accounts[a].link = p
                             THEN [accounts[a] EXCEPT !.link = NoProxy] ELSE accounts[a]]
  <1>1. PICK q : /\ q = Begun(op, "clear") \/ q = Ended("failed")
                 /\ Writes(h, Without(proxies, p), detached, {}, q)
    BY DEF DeleteProxy
  <1>2. op.kind = "dropProxy"
    BY DEF DeleteProxy, Begins
  <1>3. Tables'
    BY <1>1, DeleteProxyTables DEF Writes, Inv
  <1>4. Legal(q)'
    <2>1. CASE q = Ended("failed")
      BY <2>1, EndedRest DEF Legal
    <2>2. CASE q = Begun(op, "clear")
      <3>1. q \in Record /\ q.pc = "clear" /\ q.op = op
        BY <2>2, BegunIs DEF Places
      <3>2. QED
        BY <1>2, <3>1 DEF Legal, Fine, OnPath, RowSeen, ReadFresh, ClientFits, EntryInHand
    <2>3. QED
      BY <1>1, <2>1, <2>2
  <1>5. QED
    BY <1>1, <1>3, <1>4, WritesKeeps

LEMMA SwitchKeeps ==
    ASSUME Inv, NEW h \in Handler, NEW op \in Op, SetEnabled(h, op) \/ DeleteAccount(h, op)
    PROVE  Inv'
  <1> DEFINE q == Ended("ok")
  <1>1. Legal(q)'
    BY EndedRest DEF Legal
  <1> HIDE DEF q
  <1>2. CASE SetEnabled(h, op) /\ op.id \in DOMAIN accounts
    <2>1. op.kind = "switch" /\ op.on \in BOOLEAN
      BY <1>2, OpType DEF SetEnabled, Begins
    <2> DEFINE as == [accounts EXCEPT ![op.id].enabled = op.on]
    <2>2. Writes(h, proxies, as, {}, q)
      BY <1>2 DEF SetEnabled, q
    <2>3. /\ DOMAIN as = DOMAIN accounts /\ as \in [DOMAIN accounts -> AccountRow]
          /\ \A a \in DOMAIN accounts : as[a].name = accounts[a].name
      BY <2>1 DEF Inv, Tables, AccountRow
    <2> HIDE DEF as
    <2>4. Tables'
      BY <2>2, <2>3, EditedAccountTables DEF Writes, Inv
    <2>5. QED
      BY <1>1, <2>2, <2>4, WritesKeeps
  <1>3. CASE DeleteAccount(h, op) /\ op.id \in DOMAIN accounts
    <2>1. Writes(h, proxies, Without(accounts, op.id), {}, q)
      BY <1>3 DEF DeleteAccount, q
    <2>2. Tables'
      BY <2>1, DeleteAccountTables DEF Writes, Inv
    <2>3. QED
      BY <1>1, <2>1, <2>2, WritesKeeps
  <1>4. QED
    BY <1>2, <1>3, AnswerKeeps DEF SetEnabled, DeleteAccount

LEMMA InsertProxyKeeps ==
    ASSUME Inv, NEW h \in Handler, InsertProxy(h)
    PROVE  Inv'
  <1>1. Running(h) /\ req[h].pc = "insert" /\ req[h].op.kind = "newProxy"
    BY DEF InsertProxy, At, Running, Is
  <1>2. req[h] \in Record /\ Fine(req[h]) /\ req[h].op \in Op
    BY <1>1, RunningFine DEF Record
  <1> DEFINE row == [name |-> req[h].op.name, url |-> req[h].op.url]
  <1>3. CASE Named(req[h].op.name) = {}
    <2>1. PICK p \in Proxy \ used :
             Writes(h, With(proxies, p, row), accounts, {p},
                    [req[h] EXCEPT !.pc = "clear", !.row = p])
      BY <1>3 DEF InsertProxy, Then
    <2>2. PICK q : q = [req[h] EXCEPT !.pc = "clear", !.row = p]
      OBVIOUS
    <2>3. q \in Record /\ q.pc = "clear" /\ q.op.kind = "newProxy" /\ q.row = p
      BY <1>1, <1>2, <2>2 DEF Record, Places
    <2>4. row \in ProxyRow /\ row.name = req[h].op.name
      BY <1>1, <1>2, OpType DEF ProxyRow
    <2>5. p \in DOMAIN proxies'
      BY <2>1 DEF Writes, With
    <2>6. Tables'
      <3> HIDE DEF row
      <3>1. QED
        BY <1>3, <2>1, <2>4, NewProxyTables DEF Writes, Inv
    <2>7. Fine(q)'
      BY <2>3, <2>5 DEF Fine, OnPath, RowSeen, ReadFresh, ClientFits, EntryInHand
    <2>8. QED
      BY <2>1, <2>2, <2>6, <2>7, WritesKeeps DEF Legal
  <1>4. QED
    BY <1>3, AnswerKeeps DEF InsertProxy

LEMMA UpdateProxyKeeps ==
    ASSUME Inv, NEW h \in Handler, UpdateProxy(h)
    PROVE  Inv'
  <1>1. Running(h) /\ req[h].pc = "write" /\ req[h].op.kind = "editProxy"
    BY DEF UpdateProxy, At, Running, Is
  <1>2. req[h] \in Record /\ Fine(req[h]) /\ req[h].op \in Op
    BY <1>1, RunningFine DEF Record
  <1> DEFINE p == req[h].op.id
             row == [name |-> req[h].op.name, url |-> req[h].op.url]
  <1>3. CASE p \in DOMAIN proxies /\ Named(req[h].op.name) \subseteq {p}
    <2>1. Writes(h, [proxies EXCEPT ![p] = row], accounts, {}, [req[h] EXCEPT !.pc = "reread"])
      BY <1>3 DEF UpdateProxy, Then
    <2>2. PICK q : q = [req[h] EXCEPT !.pc = "reread"]
      OBVIOUS
    <2>3. q \in Record /\ q.pc = "reread" /\ q.op.kind = "editProxy"
      BY <1>1, <1>2, <2>2 DEF Record, Places
    <2>4. row \in ProxyRow /\ row.name = req[h].op.name
      BY <1>1, <1>2, OpType DEF ProxyRow
    <2>5. Tables'
      <3> HIDE DEF row, p
      <3>1. QED
        BY <1>3, <2>1, <2>4, EditedProxyTables DEF Writes, Inv
    <2>6. Fine(q)'
      BY <2>3 DEF Fine, OnPath, RowSeen, ReadFresh, ClientFits, EntryInHand
    <2>7. QED
      BY <2>1, <2>2, <2>5, <2>6, WritesKeeps DEF Legal
  <1>4. QED
    BY <1>3, AnswerKeeps DEF UpdateProxy

LEMMA InsertAccountKeeps ==
    ASSUME Inv, NEW h \in Handler, InsertAccount(h)
    PROVE  Inv'
  <1>1. Running(h) /\ req[h].pc = "insert" /\ req[h].op.kind \in {"create", "cookie"}
    BY DEF InsertAccount, At, Running, Is
  <1>2. req[h] \in Record /\ Fine(req[h]) /\ req[h].op \in Op
    BY <1>1, RunningFine DEF Record
  <1> DEFINE row == [name |-> req[h].name, enabled |-> TRUE, link |-> req[h].link]
  <1>3. CASE AccountNamed(req[h].name) = {}
    <2>1. PICK a \in Account \ used :
             Writes(h, proxies, With(accounts, a, row), {a},
                    [Begun(req[h].op, "readback") EXCEPT !.row = a])
      BY <1>3 DEF InsertAccount
    <2>2. PICK q : q = [Begun(req[h].op, "readback") EXCEPT !.row = a]
      OBVIOUS
    <2>3. /\ q \in Record /\ q.pc = "readback" /\ q.op = req[h].op /\ q.row = a
          /\ q.link = NoProxy
      <3>1. PICK b \in Record : /\ b = Begun(req[h].op, "readback")
                                /\ b.pc = "readback" /\ b.op = req[h].op /\ b.link = NoProxy
        BY <1>2, BegunIs DEF Places
      <3>2. QED
        BY <2>2, <3>1 DEF Record
    <2>4. row \in AccountRow /\ row.name = req[h].name
      BY <1>2 DEF AccountRow, Record
    <2>5. a \in DOMAIN accounts'
      BY <2>1 DEF Writes, With
    <2>6. Tables'
      <3> HIDE DEF row
      <3>1. QED
        BY <1>3, <2>1, <2>4, NewAccountTables DEF Writes, Inv
    <2>7. Fine(q)'
      BY <1>1, <2>3, <2>5
      DEF Fine, OnPath, LinkSeen, RowSeen, ReadFresh, ClientFits, EntryInHand
    <2>8. QED
      BY <2>1, <2>2, <2>6, <2>7, WritesKeeps DEF Legal
  <1>4. QED
    BY <1>3, AnswerKeeps DEF InsertAccount

LEMMA UpdateAccountKeeps ==
    ASSUME Inv, NEW h \in Handler, UpdateAccount(h)
    PROVE  Inv'
  <1>1. Running(h) /\ req[h].pc = "write" /\ req[h].op.kind = "update"
    BY DEF UpdateAccount, At, Running, Is
  <1>2. req[h] \in Record /\ Fine(req[h]) /\ req[h].op \in Op
    BY <1>1, RunningFine DEF Record
  <1> DEFINE a == req[h].op.id
             row == [accounts[a] EXCEPT !.enabled = req[h].enabled, !.link = req[h].link]
             as == [accounts EXCEPT ![a] = row]
  <1>3. CASE a \in DOMAIN accounts
    <2>1. PICK q : q = [Begun(req[h].op, "readback") EXCEPT !.row = a]
      OBVIOUS
    <2>2. Writes(h, proxies, as, {}, q)
      BY <1>3, <2>1 DEF UpdateAccount
    <2>3. a \in Account
      BY <1>1, <1>2, OpType
    <2>4. /\ q \in Record /\ q.pc = "readback" /\ q.op = req[h].op /\ q.row = a
          /\ q.link = NoProxy
      <3>1. PICK b \in Record : /\ b = Begun(req[h].op, "readback")
                                /\ b.pc = "readback" /\ b.op = req[h].op /\ b.link = NoProxy
        BY <1>2, BegunIs DEF Places
      <3>2. QED
        BY <2>1, <2>3, <3>1 DEF Record
    <2>5. /\ DOMAIN as = DOMAIN accounts /\ as \in [DOMAIN accounts -> AccountRow]
          /\ \A x \in DOMAIN accounts : as[x].name = accounts[x].name
      <3>1. accounts \in [DOMAIN accounts -> AccountRow]
        BY DEF Inv, Tables
      <3>2. row \in AccountRow /\ row.name = accounts[a].name
        BY <1>2, <1>3, <3>1 DEF AccountRow, Record
      <3> HIDE DEF row
      <3>3. QED
        BY <1>3, <3>1, <3>2
    <2> HIDE DEF as
    <2>6. Tables' /\ a \in DOMAIN accounts'
      BY <1>3, <2>2, <2>5, EditedAccountTables DEF Writes, Inv
    <2>7. Fine(q)'
      BY <1>1, <2>4, <2>6
      DEF Fine, OnPath, LinkSeen, RowSeen, ReadFresh, ClientFits, EntryInHand
    <2>8. QED
      BY <2>2, <2>6, <2>7, WritesKeeps DEF Legal
  <1>4. CASE a \notin DOMAIN accounts
    <2> DEFINE q == [req[h] EXCEPT !.pc = "readback"]
    <2>1. Goes(h, q)
      BY <1>4 DEF UpdateAccount, Goto
    <2>2. /\ q \in Record /\ q.pc = "readback" /\ q.op = req[h].op /\ q.row = req[h].row
          /\ q.since = req[h].since
      BY <1>2 DEF Record, Places
    <2>3. Fine(q)
      <3> HIDE DEF q
      <3>1. QED
        BY <1>1, <1>2, <2>2 DEF Fine, OnPath, RowSeen, ReadFresh, ClientFits, EntryInHand
    <2>4. QED
      BY <2>1, <2>3, GoesKeeps DEF Legal
  <1>5. QED
    BY <1>3, <1>4

\* An import that is done with an entry is at the next, or at its end.
LEMMA OnwardFine ==
    ASSUME Inv, NEW h \in Handler, Is(h, {"import"}),
           req[h].pc \in {"entry", "putProxy", "look", "putItem"}, NEW q, q = Onward(h)
    PROVE  Fine(q) /\ Fine(q)'
  <1>1. /\ req[h] \in Record /\ req[h].op.kind = "import" /\ req[h].op \in Op
        /\ req[h].op.file \in Seq(Entry) /\ req[h].next \in 1..Len(req[h].op.file)
    BY CurrentType
  <1> DEFINE n == req[h].next + 1
             p == IF n > Len(req[h].op.file) THEN "clear" ELSE "entry"
  <1>2. /\ n \in Nat \ {0} /\ p \in {"clear", "entry"}
        /\ p = "entry" => n \in 1..Len(req[h].op.file)
    BY <1>1
  <1>3. q = [Begun(req[h].op, p) EXCEPT !.next = n, !.since = req[h].since]
    BY DEF Onward
  <1> HIDE DEF n, p
  <1>4. PICK b \in Record : /\ b = Begun(req[h].op, p)
                            /\ b.pc = p /\ b.op = req[h].op /\ b.link = NoProxy
    BY <1>1, <1>2, BegunIs DEF Places
  <1>5. /\ q \in Record /\ q.pc = p /\ q.op = req[h].op /\ q.link = NoProxy /\ q.next = n
    BY <1>1, <1>2, <1>3, <1>4 DEF Record
  <1>6. /\ q.op.kind = "import" /\ q.pc \in {"clear", "entry"}
        /\ q.pc = "entry" => q.next \in 1..Len(q.op.file)
    BY <1>1, <1>2, <1>5
  <1>7. QED
    BY <1>5, <1>6
    DEF Fine, OnPath, LinkSeen, RowSeen, ReadFresh, ClientFits, EntryInHand

LEMMA PutProxyKeeps ==
    ASSUME Inv, NEW h \in Handler, PutProxy(h)
    PROVE  Inv'
  <1>1. Is(h, {"import"}) /\ req[h].pc = "putProxy"
    BY DEF PutProxy, Importing, At
  <1>2. Fine(req[h]) /\ req[h].op.kind = "import" /\ Current(h) \in Entry
    BY <1>1, CurrentType
  <1> DEFINE p == req[h].row
             row == [name |-> Current(h).proxy, url |-> Current(h).url]
  <1>3. p \in Proxy \cup {NoProxy} /\ "proxy" \in DOMAIN Current(h)
    BY <1>1, <1>2 DEF Fine, EntryInHand, Current
  <1>4. row \in ProxyRow
    BY <1>2, <1>3, EntryType DEF ProxyRow
  <1> HIDE DEF row
  <1>5. PICK q : q = Onward(h)
    OBVIOUS
  <1>6. Legal(q) /\ Legal(q)'
    BY <1>1, <1>5, OnwardFine DEF Legal
  <1>7. CASE Goes(h, Onward(h))
    BY <1>5, <1>6, <1>7, GoesKeeps
  <1>8. CASE /\ p \in DOMAIN proxies /\ Named(row.name) \subseteq {p}
             /\ Writes(h, [proxies EXCEPT ![p] = row], accounts, {}, Onward(h))
    <2>1. Tables'
      BY <1>4, <1>8, EditedProxyTables DEF Writes, Inv
    <2>2. QED
      BY <1>5, <1>6, <1>8, <2>1, WritesKeeps
  <1>9. ASSUME NEW x \in Proxy \ used, Named(row.name) = {},
               Writes(h, With(proxies, x, row), accounts, {x}, Onward(h))
        PROVE  Inv'
    <2>1. Tables'
      BY <1>4, <1>9, NewProxyTables DEF Writes, Inv
    <2>2. QED
      BY <1>5, <1>6, <1>9, <2>1, WritesKeeps
  <1>10. CASE p = NoProxy /\ ~Answer(h, "failed") /\ ~Goes(h, Onward(h))
    <2>1. Named(row.name) \subseteq {NoProxy} /\ NoProxy \notin Proxy
      BY <1>10, NameAssumption DEF PutProxy, row
    <2>2. Named(row.name) = {}
      BY <2>1 DEF Named, Inv, Tables
    <2>3. NoProxy \notin DOMAIN proxies
      BY <2>1 DEF Inv, Tables
    <2>4. QED
      BY <1>9, <1>10, <2>2 DEF PutProxy, row
  <1>11. QED
    BY <1>7, <1>8, <1>10, AnswerKeeps DEF PutProxy, row

LEMMA PutItemKeeps ==
    ASSUME Inv, NEW h \in Handler, PutItem(h)
    PROVE  Inv'
  <1>1. Is(h, {"import"}) /\ req[h].pc = "putItem"
    BY DEF PutItem, Importing, At
  <1>2. /\ Fine(req[h]) /\ req[h] \in Record /\ req[h].op.kind = "import"
        /\ Current(h) \in Entry
    BY <1>1, CurrentType
  <1>3. Current(h).account \in AccountName /\ Current(h).enabled \in BOOLEAN
    BY <1>1, <1>2, EntryType DEF Fine, EntryInHand, Current
  <1>4. Item(h) \in AccountRow /\ Item(h).name = Current(h).account
    BY <1>2, <1>3 DEF Item, AccountRow, Record
  <1>5. PICK q : q = Onward(h)
    OBVIOUS
  <1>6. Legal(q)'
    BY <1>1, <1>5, OnwardFine DEF Legal
  <1>7. PICK row : row = Item(h)
    OBVIOUS
  <1>8. CASE InsertItem(h)
    <2>1. ASSUME NEW a \in Account \ used, AccountNamed(row.name) = {},
                 Writes(h, proxies, With(accounts, a, row), {a}, q)
          PROVE  Inv'
      <3>1. Tables'
        BY <1>4, <1>7, <2>1, NewAccountTables DEF Writes, Inv
      <3>2. QED
        BY <1>6, <2>1, <3>1, WritesKeeps
    <2>2. QED
      BY <1>4, <1>5, <1>7, <1>8, <2>1, AnswerKeeps DEF InsertItem
  <1> DEFINE as == [a \in DOMAIN accounts |->
                       IF a \in AccountNamed(Current(h).account) THEN row ELSE accounts[a]]
  <1>9. CASE Writes(h, proxies, as, {}, q)
    <2>1. ASSUME NEW a \in DOMAIN accounts
          PROVE  as[a] \in AccountRow /\ as[a].name = accounts[a].name
      BY <1>4, <1>7 DEF AccountNamed, Inv, Tables
    <2>2. DOMAIN as = DOMAIN accounts /\ as \in [DOMAIN accounts -> AccountRow]
      BY <2>1
    <2> HIDE DEF as
    <2>3. Tables'
      BY <1>9, <2>1, <2>2, EditedAccountTables DEF Writes, Inv
    <2>4. QED
      BY <1>6, <1>9, <2>3, WritesKeeps
  <1>10. QED
    BY <1>5, <1>7, <1>8, <1>9 DEF PutItem

-----------------------------------------------------------------------------
LEMMA InitInv == Init => Inv
  <1> SUFFICES ASSUME Init PROVE Inv
    OBVIOUS
  <1>1. Tables
    <2>1. /\ DOMAIN proxies \subseteq Proxy /\ proxies \in [DOMAIN proxies -> ProxyRow]
      BY DEF Init
    <2>2. /\ DOMAIN accounts \subseteq Account
          /\ accounts \in [DOMAIN accounts -> [name: AccountName, enabled: {TRUE},
                                               link: DOMAIN proxies \cup {NoProxy}]]
      BY DEF Init
    <2>3. accounts \in [DOMAIN accounts -> AccountRow]
      BY <2>1, <2>2 DEF AccountRow
    <2>4. QED
      BY <2>1, <2>2, <2>3 DEF Init, Tables
  <1>2. Clients
    BY DEF Init, Clients
  <1>3. Unmade \in Rest
    BY DEF Unmade, Rest
  <1>4. QED
    BY <1>1, <1>2, <1>3 DEF Init, Inv, Legal

LEMMA StepInv == Inv /\ [Next]_vars => Inv'
  <1> SUFFICES ASSUME Inv, [Next]_vars PROVE Inv'
    OBVIOUS
  <1>1. ASSUME NEW h \in Handler, Step(h) PROVE Inv'
    BY <1>1, InsertProxyKeeps, UpdateProxyKeeps, RereadKeeps, ClearKeeps, RefusalsKeep,
       LinkNewKeeps, NameImportedKeeps, InsertAccountKeeps, ResolveEditKeeps,
       UpdateAccountKeeps, LookKeeps, PutProxyKeeps, PutItemKeeps, LookUpKeeps,
       TakeClientKeeps, SendKeeps DEF Step
  <1>2. ASSUME NEW h \in Handler, NEW op \in Op, Begin(h, op) PROVE Inv'
    BY <1>2, BeginsKeep, DeleteProxyKeeps, SwitchKeeps DEF Begin
  <1>3. CASE UNCHANGED vars
    <2>1. ASSUME NEW h \in Handler PROVE Legal(req[h])'
      <3>1. PICK x : x = req[h]
        OBVIOUS
      <3>2. Legal(x) /\ req'[h] = x
        BY <1>3, <3>1 DEF Inv, vars
      <3>3. Legal(x)'
        BY <1>3, <3>2, StillFine DEF vars
      <3>4. QED
        BY <3>2, <3>3
    <2>2. QED
      BY <1>3, <2>1 DEF Inv, Tables, Clients, vars
  <1>4. QED
    BY <1>1, <1>2, <1>3 DEF Next

\* Tables, clients and requests are what Inv says, at all times.
THEOREM ProxyInvariant == Spec => []Inv
  BY InitInv, StepInv, PTL DEF Spec

\* The tables keep their form, whatever requests interleave (db.rs).
THEOREM ProxyTypes == Spec => []TypeOK
  <1>1. Inv => TypeOK
    <2> SUFFICES ASSUME Inv PROVE TypeOK
      OBVIOUS
    <2>1. \A h \in Handler : Running(h) => req[h].op \in Op /\ req[h].since \subseteq Event
      BY RunningFine DEF Record
    <2>2. QED
      BY <2>1 DEF Inv, Tables, Clients, TypeOK
  <1>2. QED
    BY <1>1, ProxyInvariant, PTL

\* Calls go by the proxy of their account, at its present URL (state.rs).
THEOREM CallsGoRight == Spec => []CallsGoTheirWay
  <1>1. Inv => CallsGoTheirWay
    <2> SUFFICES ASSUME Inv, NEW h \in Handler, At(h, "send")
                 PROVE  LET p == req[h].link IN
                        /\ (req[h].via = Direct) <=> (p = NoProxy)
                        /\ p # NoProxy /\ req[h].since \cap {<<"edit", p>>, <<"drop", p>>} = {}
                              => req[h].via = proxies[p].url
      BY DEF CallsGoTheirWay
    <2>1. Fine(req[h]) /\ req[h].pc = "send"
      BY RunningFine DEF Running, At
    <2>2. QED
      BY <2>1 DEF Fine, ClientFits, UrlNow
  <1>2. QED
    BY <1>1, ProxyInvariant, PTL

-----------------------------------------------------------------------------
(* Which request a change is due to. *)

\* The two ways in which a request acts.
Moves(g) == UNCHANGED <<proxies, accounts>> /\ \E q : req' = [req EXCEPT ![g] = q]
WritesSome(g) == \E ps, as, new, q : Writes(g, ps, as, new, q)

LEMMA GoesMoves ==
    ASSUME NEW g \in Handler, NEW q, Goes(g, q)
    PROVE  Moves(g)
  BY DEF Goes, Moves

LEMMA Shape ==
    ASSUME NEW g \in Handler, Step(g) \/ \E op \in Op : Begin(g, op)
    PROVE  Moves(g) \/ WritesSome(g)
  <1>1. ASSUME NEW a, Answer(g, a) PROVE Moves(g)
    BY <1>1, GoesMoves DEF Answer
  <1>2. ASSUME NEW p, Goto(g, p) PROVE Moves(g)
    BY <1>2, GoesMoves DEF Goto
  <1>3. ASSUME NEW q, Resolve(g, q) PROVE Moves(g)
    BY <1>1, <1>3, GoesMoves DEF Resolve
  <1>4. ASSUME NEW ps, NEW as, NEW new, NEW q, Writes(g, ps, as, new, q)
        PROVE  WritesSome(g)
    BY <1>4 DEF WritesSome
  <1>5. CASE RereadProxy(g) \/ Readback(g) \/ LinkNew(g) \/ NameImported(g) \/ ResolveEdit(g)
             \/ LookForProxy(g) \/ LinkItem(g) \/ LookForAccount(g) \/ LookUp(g) \/ Send(g)
             \/ Fails(g)
    BY <1>1, <1>2, <1>3, <1>5, GoesMoves
    DEF RereadProxy, Readback, LinkNew, NameImported, ResolveEdit, LookForProxy, LinkItem,
        LookForAccount, LookUp, Send, Fails
  <1>6. CASE Clear(g) \/ TakeClient(g)
    BY <1>6 DEF Clear, TakeClient, Moves
  <1>7. CASE InsertProxy(g) \/ UpdateProxy(g) \/ InsertAccount(g) \/ UpdateAccount(g)
    BY <1>1, <1>2, <1>4, <1>7 DEF InsertProxy, UpdateProxy, InsertAccount, UpdateAccount
  <1>8. CASE PutProxy(g) \/ PutItem(g)
    BY <1>1, <1>4, <1>8, GoesMoves DEF PutProxy, PutItem, InsertItem
  <1>9. ASSUME NEW op \in Op, Begin(g, op) PROVE Moves(g) \/ WritesSome(g)
    <2>1. CASE CheckName(g, op) \/ ReadProxy(g, op) \/ NameNew(g, op) \/ LinkImported(g, op)
               \/ ReadAccount(g, op) \/ BeginImport(g, op) \/ ReadRow(g, op)
      BY <1>1, <1>3, <2>1, GoesMoves
      DEF CheckName, ReadProxy, NameNew, LinkImported, ReadAccount, BeginImport, ReadRow
    <2>2. CASE DeleteProxy(g, op) \/ SetEnabled(g, op) \/ DeleteAccount(g, op)
      BY <1>1, <1>4, <2>2 DEF DeleteProxy, SetEnabled, DeleteAccount
    <2>3. QED
      BY <1>9, <2>1, <2>2 DEF Begin
  <1>10. QED
    BY <1>5, <1>6, <1>7, <1>8, <1>9 DEF Step

\* A running request gets further only by a step of its own.
LEMMA OwnStep ==
    ASSUME Inv, Next, NEW h \in Handler, Wrote(h)
    PROVE  Step(h)
  <1>1. req \in [Handler -> Record \cup Rest] /\ Running(h) /\ req'[h].pc # req[h].pc
    BY DEF Inv, Wrote
  <1>2. PICK g \in Handler : Step(g) \/ \E op \in Op : Begin(g, op)
    BY DEF Next
  <1>3. g = h
    <2>1. SUFFICES ASSUME g # h PROVE FALSE
      OBVIOUS
    <2>2. CASE Moves(g)
      BY <1>1, <2>1, <2>2 DEF Moves
    <2>3. CASE WritesSome(g)
      <3>1. \E events : req'[h] = Told(req[h], events)
        BY <1>1, <2>1, <2>3 DEF WritesSome, Writes
      <3>2. req[h] \in Record
        BY <1>1, RunningFine
      <3>3. QED
        BY <1>1, <3>1, <3>2 DEF Told, Record
    <2>4. QED
      BY <1>2, <2>2, <2>3, Shape
  <1>4. \A op \in Op : ~Begin(h, op)
    BY <1>1 DEF Running, Begin, CheckName, ReadProxy, DeleteProxy, NameNew, LinkImported,
                ReadAccount, SetEnabled, DeleteAccount, BeginImport, ReadRow, Begins, At
  <1>5. QED
    BY <1>2, <1>3, <1>4

\* Only the unwrapping of a row panics.
LEMMA PanicStep ==
    ASSUME Inv, NEW h \in Handler, Step(h), Running(h), req'[h].pc = "panicked"
    PROVE  Readback(h)
  <1>1. req \in [Handler -> Record \cup Rest] /\ req[h] \in Record
    BY RunningFine DEF Inv
  <1>2. ASSUME NEW q, Goes(h, q) PROVE q.pc = "panicked"
    BY <1>1, <1>2 DEF Goes
  <1>3. ASSUME NEW a, a # "panic", Answer(h, a) PROVE FALSE
    BY <1>2, <1>3 DEF Answer, Ended
  <1>4. ASSUME NEW p, Goto(h, p) PROVE p = "panicked"
    BY <1>1, <1>2, <1>4 DEF Goto, Record
  <1>5. ASSUME NEW q, Resolve(h, q), q \in Record PROVE FALSE
    <2>1. Goes(h, [q EXCEPT !.link = q.op.link])
      BY <1>3, <1>5 DEF Resolve
    <2>2. [q EXCEPT !.link = q.op.link].pc = q.pc
      BY <1>5 DEF Record
    <2>3. QED
      BY <1>2, <1>5, <2>1, <2>2 DEF Record, Places
  <1>6. ASSUME NEW ps, NEW as, NEW new, NEW q, Writes(h, ps, as, new, q)
        PROVE  q.pc = "panicked"
    BY <1>6 DEF Writes
  <1>pc. ASSUME NEW p, NEW q, p # "panicked",
                \/ q = Then(h, p)
                \/ \E v : \/ q = [Then(h, p) EXCEPT !.name = v]
                          \/ q = [Then(h, p) EXCEPT !.row = v]
                          \/ q = [Then(h, p) EXCEPT !.link = v]
                          \/ q = [Then(h, p) EXCEPT !.via = v]
         PROVE  q.pc # "panicked"
    BY <1>1, <1>pc DEF Then, Record
  <1>7. CASE RereadProxy(h) \/ Fails(h)
    BY <1>3, <1>4, <1>7 DEF RereadProxy, Fails
  <1>8. CASE LinkNew(h) \/ ResolveEdit(h)
    <2>1. Then(h, "insert") \in Record /\ Then(h, "write") \in Record
      BY <1>1 DEF Then, Record, Places
    <2>2. QED
      BY <1>5, <1>8, <2>1 DEF LinkNew, ResolveEdit
  <1>9. CASE NameImported(h) \/ LookForProxy(h) \/ LinkItem(h) \/ LookForAccount(h) \/ LookUp(h)
             \/ Send(h)
    <2>1. ASSUME NEW p, NEW v, p # "panicked",
                 \/ Goes(h, [Then(h, p) EXCEPT !.name = v])
                 \/ Goes(h, [Then(h, p) EXCEPT !.row = v])
                 \/ Goes(h, [Then(h, p) EXCEPT !.link = v])
                 \/ Goes(h, [Then(h, p) EXCEPT !.via = v])
          PROVE  FALSE
      <3>1. PICK q : /\ Goes(h, q)
                     /\ \/ q = [Then(h, p) EXCEPT !.name = v]
                        \/ q = [Then(h, p) EXCEPT !.row = v]
                        \/ q = [Then(h, p) EXCEPT !.link = v]
                        \/ q = [Then(h, p) EXCEPT !.via = v]
        BY <2>1
      <3>2. QED
        BY <1>2, <1>pc, <2>1, <3>1
    <2>2. QED
      BY <1>3, <1>9, <2>1
      DEF NameImported, LookForProxy, LinkItem, LookForAccount, LookUp, Send
  <1>10. CASE Clear(h) \/ TakeClient(h)
    <2>1. Ended("ok").pc = "ended"
      BY DEF Ended
    <2>2. PICK q : /\ req' = [req EXCEPT ![h] = q]
                   /\ \/ q = Then(h, "readback") \/ q = Ended("ok")
                      \/ \E v : q = [Then(h, "send") EXCEPT !.via = v]
      BY <1>10 DEF Clear, TakeClient
    <2>3. req'[h] = q
      BY <1>1, <2>2
    <2>4. q.pc # "panicked"
      BY <1>pc, <2>1, <2>2
    <2>5. QED
      BY <2>3, <2>4
  <1>11. CASE InsertProxy(h) \/ UpdateProxy(h)
    <2>1. \A r : [Then(h, "clear") EXCEPT !.row = r].pc # "panicked"
      BY <1>pc
    <2>2. Then(h, "reread").pc # "panicked"
      BY <1>pc
    <2>3. QED
      BY <1>3, <1>6, <1>11, <2>1, <2>2 DEF InsertProxy, UpdateProxy
  <1>12. CASE InsertAccount(h) \/ UpdateAccount(h)
    <2>1. \A r : [Begun(req[h].op, "readback") EXCEPT !.row = r].pc = "readback"
      BY DEF Begun
    <2>2. QED
      BY <1>3, <1>4, <1>6, <1>12, <2>1 DEF InsertAccount, UpdateAccount
  <1>13. CASE PutProxy(h) \/ PutItem(h)
    <2>1. Onward(h).pc # "panicked"
      BY DEF Onward, Begun
    <2>2. QED
      BY <1>2, <1>3, <1>6, <1>13, <2>1 DEF PutProxy, PutItem, InsertItem
  <1>14. QED
    BY <1>7, <1>8, <1>9, <1>10, <1>11, <1>12, <1>13 DEF Step

\* A panic needs that somebody deleted the row (routes/keys.rs).
THEOREM PanicsNeedARace == Spec => PanicsOnlyByRace
  <1>1. Inv /\ [Next]_vars =>
          [\A h \in Handler : Running(h) /\ At(h, "panicked")' =>
              req[h].since \cap {<<"drop", req[h].row>>, <<"delete", req[h].row>>} # {}]_vars
    <2> SUFFICES ASSUME Inv, Next, NEW h \in Handler, Running(h), At(h, "panicked")'
                 PROVE  \/ <<"drop", req[h].row>> \in req[h].since
                        \/ <<"delete", req[h].row>> \in req[h].since
      OBVIOUS
    <2>1. req'[h].pc = "panicked" /\ req[h] \in Record /\ Fine(req[h]) /\ req[h].op \in Op
      BY RunningFine DEF At, Record
    <2>2. Wrote(h)
      BY <2>1 DEF Wrote, Record, Places
    <2>3. Readback(h)
      BY <2>1, <2>2, OwnStep, PanicStep
    <2>4. req[h].pc = "readback" /\ req[h].op.kind \in {"newProxy", "create", "cookie", "update"}
      BY <2>1, <2>3, OpType DEF Readback, At, Fine, OnPath
    <2>5. ASSUME Answer(h, "ok") PROVE FALSE
      BY <2>1, <2>5 DEF Answer, Goes, Ended, Inv
    <2>6. QED
      BY <2>1, <2>3, <2>4, <2>5 DEF Readback, Is, Fine, RowSeen
  <1>2. QED
    BY <1>1, ProxyInvariant, PTL DEF PanicsOnlyByRace, Spec

\* Who writes accounts, and whose link or switch changes.
LEMMA AccountWriter ==
    ASSUME Inv, Next, accounts' # accounts \/ proxies' # proxies
    PROVE  \E h \in Handler :
              \/ InsertProxy(h) \/ UpdateProxy(h) \/ PutProxy(h)
              \/ InsertAccount(h) \/ UpdateAccount(h) \/ PutItem(h)
              \/ \E op \in Op : DeleteProxy(h, op) \/ SetEnabled(h, op) \/ DeleteAccount(h, op)
  <1>1. PICK h \in Handler : Step(h) \/ \E op \in Op : Begin(h, op)
    BY DEF Next
  <1>2. ASSUME NEW q, Goes(h, q) PROVE FALSE
    BY <1>2 DEF Goes
  <1>3. ASSUME NEW a, Answer(h, a) PROVE FALSE
    BY <1>2, <1>3 DEF Answer
  <1>4. ASSUME NEW p, Goto(h, p) PROVE FALSE
    BY <1>2, <1>4 DEF Goto
  <1>5. ASSUME NEW q, Resolve(h, q) PROVE FALSE
    BY <1>2, <1>3, <1>5 DEF Resolve
  <1>6. ~(RereadProxy(h) \/ Readback(h) \/ LinkNew(h) \/ NameImported(h) \/ ResolveEdit(h)
          \/ LookForProxy(h) \/ LinkItem(h) \/ LookForAccount(h) \/ LookUp(h) \/ Send(h)
          \/ Fails(h))
    BY <1>2, <1>3, <1>4, <1>5
    DEF RereadProxy, Readback, LinkNew, NameImported, ResolveEdit, LookForProxy, LinkItem,
        LookForAccount, LookUp, Send, Fails
  <1>7. ~(Clear(h) \/ TakeClient(h))
    BY DEF Clear, TakeClient
  <1>8. ASSUME NEW op \in Op
        PROVE  ~(CheckName(h, op) \/ ReadProxy(h, op) \/ NameNew(h, op) \/ LinkImported(h, op)
                 \/ ReadAccount(h, op) \/ BeginImport(h, op) \/ ReadRow(h, op))
    BY <1>2, <1>3, <1>5
    DEF CheckName, ReadProxy, NameNew, LinkImported, ReadAccount, BeginImport, ReadRow
  <1>9. QED
    BY <1>1, <1>6, <1>7, <1>8 DEF Step, Begin

\* What a step leaves alone keeps no account from its proxy.
LEMMA NoNewDangling ==
    ASSUME NEW a \in Dangles(accounts', proxies') \ Dangles(accounts, proxies),
           DOMAIN proxies \subseteq DOMAIN proxies',
           a \in DOMAIN accounts => accounts'[a].link = accounts[a].link
    PROVE  /\ a \notin DOMAIN accounts /\ a \in DOMAIN accounts'
           /\ accounts'[a].link \notin DOMAIN proxies \cup {NoProxy}
  BY DEF Dangles

LEMMA HereWrote ==
    ASSUME Inv, NEW h \in Handler, Running(h), NEW ps, NEW as, NEW new, NEW q,
           Writes(h, ps, as, new, q), q.pc # req[h].pc
    PROVE  Wrote(h)
  BY DEF Wrote, Writes

LEMMA PcAfter ==
    ASSUME NEW h \in Handler, NEW r
    PROVE  /\ [Begun(req[h].op, "readback") EXCEPT !.row = r].pc = "readback"
           /\ Onward(h).pc \in {"clear", "entry"}
  BY DEF Begun, Onward

\* An account is linked to a proxy that is not there only by a race
\* (delete_proxy, db.rs; resolve_proxy, routes/keys.rs).
THEOREM DanglingNeedsARace == Spec => DanglesOnlyByRace
  <1> DEFINE Raced(h, a) ==
               /\ Wrote(h)
               /\ \/ <<"drop", accounts'[a].link>> \in req[h].since
                  \/ /\ Is(h, {"update"}) /\ req[h].op.link = Keep
                     /\ <<"link", a>> \in req[h].since
  <1>1. ASSUME Inv, Next, NEW a \in Dangles(accounts', proxies') \ Dangles(accounts, proxies)
        PROVE  \E h \in Handler : Raced(h, a)
    <2>1. accounts' # accounts \/ proxies' # proxies
      BY <1>1
    <2>2. PICK h \in Handler :
              \/ InsertProxy(h) \/ UpdateProxy(h) \/ PutProxy(h)
              \/ InsertAccount(h) \/ UpdateAccount(h) \/ PutItem(h)
              \/ \E op \in Op : DeleteProxy(h, op) \/ SetEnabled(h, op) \/ DeleteAccount(h, op)
      BY <1>1, <2>1, AccountWriter
    <2>3. ASSUME NEW q, Goes(h, q) PROVE FALSE
      BY <2>1, <2>3 DEF Goes
    <2>4. ASSUME NEW x, Answer(h, x) PROVE FALSE
      BY <2>3, <2>4 DEF Answer
    <2>5. ~InsertProxy(h) /\ ~UpdateProxy(h) /\ ~PutProxy(h)
      <3>1. SUFFICES ASSUME InsertProxy(h) \/ UpdateProxy(h) \/ PutProxy(h) PROVE FALSE
        OBVIOUS
      <3>2. accounts' = accounts /\ DOMAIN proxies \subseteq DOMAIN proxies'
        BY <2>3, <2>4, <3>1 DEF InsertProxy, UpdateProxy, PutProxy, Writes, With
      <3>3. QED
        BY <1>1, <3>2 DEF Dangles
    <2>6. ASSUME NEW op \in Op, DeleteProxy(h, op) PROVE FALSE
      <3> DEFINE detached == [x \in DOMAIN accounts |->
                                 IF accounts[x].link = op.id
                                 THEN [accounts[x] EXCEPT !.link = NoProxy] ELSE accounts[x]]
      <3>1. proxies' = Without(proxies, op.id) /\ accounts' = detached
        BY <2>6 DEF DeleteProxy, Writes
      <3>2. a \in DOMAIN accounts /\ accounts'[a].link # NoProxy
            /\ accounts'[a].link \notin DOMAIN proxies'
        BY <1>1, <3>1 DEF Dangles
      <3>3. accounts[a] \in AccountRow
        BY <1>1, <3>2 DEF Inv, Tables
      <3>4. accounts[a].link # op.id /\ accounts'[a] = accounts[a]
        BY <3>1, <3>2, <3>3 DEF AccountRow
      <3>5. accounts[a].link \notin DOMAIN proxies
        BY <3>1, <3>2, <3>4 DEF Without
      <3>6. QED
        BY <1>1, <3>2, <3>4, <3>5 DEF Dangles
    <2>7. ASSUME NEW op \in Op, SetEnabled(h, op) \/ DeleteAccount(h, op) PROVE FALSE
      <3>1. /\ proxies' = proxies
            /\ \/ accounts' = [accounts EXCEPT ![op.id].enabled = op.on]
               \/ accounts' = Without(accounts, op.id)
        BY <2>4, <2>7 DEF SetEnabled, DeleteAccount, Writes
      <3>2. \A x \in DOMAIN accounts' :
               x \in DOMAIN accounts /\ accounts'[x].link = accounts[x].link
        BY <1>1, <3>1 DEF Without, Inv, Tables, AccountRow
      <3>3. QED
        BY <1>1, <3>1, <3>2 DEF Dangles
    <2>8. CASE InsertAccount(h)
      <3>1. Running(h) /\ req[h].pc = "insert" /\ req[h].op.kind \in {"create", "cookie"}
        BY <2>8 DEF InsertAccount, At, Running, Is
      <3>2. Fine(req[h])
        BY <1>1, <3>1, RunningFine
      <3> DEFINE row == [name |-> req[h].name, enabled |-> TRUE, link |-> req[h].link]
      <3>3. PICK x \in Account \ used :
               Writes(h, proxies, With(accounts, x, row), {x},
                      [Begun(req[h].op, "readback") EXCEPT !.row = x])
        BY <2>4, <2>8 DEF InsertAccount
      <3>4. Wrote(h)
        BY <1>1, <3>1, <3>3, HereWrote, PcAfter
      <3>5. /\ proxies' = proxies /\ DOMAIN accounts' = DOMAIN accounts \cup {x}
            /\ x \notin DOMAIN accounts /\ accounts'[x].link = req[h].link
            /\ \A y \in DOMAIN accounts : accounts'[y] = accounts[y]
        BY <1>1, <3>3 DEF Writes, With, Inv, Tables
      <3>6. a = x /\ req[h].link \notin DOMAIN proxies \cup {NoProxy}
        BY <1>1, <3>5, NoNewDangling
      <3>7. QED
        BY <3>1, <3>2, <3>4, <3>5, <3>6 DEF Fine, LinkSeen
    <2>9. CASE UpdateAccount(h)
      <3>1. Running(h) /\ req[h].pc = "write" /\ req[h].op.kind = "update"
        BY <2>9 DEF UpdateAccount, At, Running, Is
      <3>2. Fine(req[h]) /\ req[h] \in Record
        BY <1>1, <3>1, RunningFine
      <3> DEFINE b == req[h].op.id
                 row == [accounts[b] EXCEPT !.enabled = req[h].enabled, !.link = req[h].link]
      <3>3. /\ b \in DOMAIN accounts
            /\ Writes(h, proxies, [accounts EXCEPT ![b] = row], {},
                      [Begun(req[h].op, "readback") EXCEPT !.row = b])
        BY <2>3, <2>9 DEF UpdateAccount, Goto
      <3>4. Wrote(h)
        BY <1>1, <3>1, <3>3, HereWrote, PcAfter
      <3>5. row.link = req[h].link
        BY <1>1, <3>3 DEF Inv, Tables, AccountRow
      <3>6. /\ proxies' = proxies /\ DOMAIN accounts' = DOMAIN accounts
            /\ accounts'[b].link = req[h].link
            /\ \A y \in DOMAIN accounts : y # b => accounts'[y] = accounts[y]
        <4> HIDE DEF row, b
        <4>1. QED
          BY <1>1, <3>3, <3>5 DEF Writes, Inv, Tables
      <3>7. /\ a = b /\ accounts[b].link # req[h].link
            /\ req[h].link \notin DOMAIN proxies \cup {NoProxy}
        BY <1>1, <3>6 DEF Dangles
      <3>8. QED
        BY <3>1, <3>2, <3>3, <3>4, <3>6, <3>7 DEF Fine, ReadFresh, LinkSeen, Is
    <2>10. CASE PutItem(h)
      <3>1. Running(h) /\ Is(h, {"import"}) /\ req[h].pc = "putItem"
        BY <2>10 DEF PutItem, Importing, At, Running
      <3>2. Fine(req[h]) /\ req[h].op.kind = "import"
        BY <1>1, <3>1, CurrentType
      <3>3. Item(h).link = req[h].link
        BY DEF Item
      <3>4. PICK as, new : /\ Writes(h, proxies, as, new, Onward(h))
                           /\ \A y \in DOMAIN as :
                                 as[y] = Item(h) \/ (y \in DOMAIN accounts /\ as[y] = accounts[y])
        <4>1. ASSUME NEW x \in Account \ used,
                     Writes(h, proxies, With(accounts, x, Item(h)), {x}, Onward(h))
              PROVE  \E as, new : /\ Writes(h, proxies, as, new, Onward(h))
                                  /\ \A y \in DOMAIN as :
                                        as[y] = Item(h) \/ (y \in DOMAIN accounts
                                                            /\ as[y] = accounts[y])
          <5>1. \A y \in DOMAIN With(accounts, x, Item(h)) :
                   \/ With(accounts, x, Item(h))[y] = Item(h)
                   \/ y \in DOMAIN accounts /\ With(accounts, x, Item(h))[y] = accounts[y]
            BY DEF With
          <5>2. QED
            BY <4>1, <5>1
        <4>2. CASE req[h].row = NoAccount
          BY <2>4, <2>10, <4>1, <4>2 DEF PutItem, InsertItem
        <4>3. CASE req[h].row # NoAccount
          <5> DEFINE m == [y \in DOMAIN accounts |->
                              IF y \in AccountNamed(Current(h).account)
                              THEN Item(h) ELSE accounts[y]]
          <5>1. Writes(h, proxies, m, {}, Onward(h))
            BY <2>10, <4>3 DEF PutItem
          <5>2. \A y \in DOMAIN m :
                   m[y] = Item(h) \/ (y \in DOMAIN accounts /\ m[y] = accounts[y])
            OBVIOUS
          <5> HIDE DEF m
          <5>3. QED
            BY <5>1, <5>2
        <4>4. QED
          BY <4>2, <4>3
      <3>5. Wrote(h)
        BY <1>1, <3>1, <3>4, HereWrote, PcAfter
      <3>6. accounts'[a].link = req[h].link /\ req[h].link \notin DOMAIN proxies \cup {NoProxy}
        BY <1>1, <3>3, <3>4 DEF Writes, Dangles
      <3>7. QED
        BY <3>2, <3>5, <3>6 DEF Fine, LinkSeen
    <2>11. QED
      BY <2>2, <2>5, <2>6, <2>7, <2>8, <2>9, <2>10
  <1>2. Inv /\ [Next]_vars =>
          [\A a \in Dangles(accounts', proxies') \ Dangles(accounts, proxies) :
              \E h \in Handler : Raced(h, a)]_vars
    BY <1>1
  <1>3. QED
    BY <1>2, ProxyInvariant, PTL DEF DanglesOnlyByRace, Spec

\* An edit takes back only what was changed while it ran (update_key, db.rs).
THEOREM EditsNeedARace == Spec => KeepsUnlessRaced
  <1>1. ASSUME Inv, Next, NEW h \in Handler, Is(h, {"update"}), Wrote(h),
               req[h].op.id \in DOMAIN accounts, req[h].op.id \in DOMAIN accounts'
        PROVE  LET a == req[h].op.id IN
               /\ accounts'[a].enabled # accounts[a].enabled => <<"switch", a>> \in req[h].since
               /\ req[h].op.link = Keep /\ accounts'[a].link # accounts[a].link =>
                     <<"link", a>> \in req[h].since
    <2>1. Step(h) /\ Running(h) /\ req[h].op.kind = "update"
      BY <1>1, OwnStep DEF Wrote, Is
    <2>2. Fine(req[h]) /\ req[h] \in Record
      BY <1>1, <2>1, RunningFine
    <2>3. req[h].pc \in {"resolve", "write", "readback"}
      BY <2>1, <2>2 DEF Fine, OnPath
    <2>4. \/ accounts' = accounts
          \/ req[h].pc = "write" /\ UpdateAccount(h)
      <3>1. ASSUME NEW q, Goes(h, q) PROVE accounts' = accounts
        BY <3>1 DEF Goes
      <3>2. ASSUME NEW x, Answer(h, x) PROVE accounts' = accounts
        BY <3>1, <3>2 DEF Answer
      <3>3. CASE ResolveEdit(h) \/ Readback(h) \/ Fails(h)
        BY <3>1, <3>2, <3>3 DEF ResolveEdit, Resolve, Readback, Fails
      <3>4. CASE UpdateAccount(h)
        BY <3>4 DEF UpdateAccount, At
      <3>5. ~(RereadProxy(h) \/ Clear(h) \/ LinkNew(h) \/ NameImported(h) \/ LookUp(h)
              \/ TakeClient(h) \/ Send(h))
        BY <2>3 DEF RereadProxy, Clear, LinkNew, NameImported, LookUp, TakeClient, Send, At
      <3>6. ~(InsertProxy(h) \/ UpdateProxy(h) \/ InsertAccount(h) \/ LookForProxy(h)
              \/ PutProxy(h) \/ LinkItem(h) \/ LookForAccount(h) \/ PutItem(h))
        BY <2>1 DEF InsertProxy, UpdateProxy, InsertAccount, LookForProxy, PutProxy, LinkItem,
                    LookForAccount, PutItem, Importing, Is
      <3>7. QED
        BY <2>1, <3>3, <3>4, <3>5, <3>6 DEF Step
    <2> DEFINE b == req[h].op.id
               row == [accounts[b] EXCEPT !.enabled = req[h].enabled, !.link = req[h].link]
    <2>5. CASE req[h].pc = "write" /\ UpdateAccount(h)
      <3>1. accounts' = [accounts EXCEPT ![b] = row]
        BY <1>1, <2>5 DEF UpdateAccount, Writes
      <3>2. row.enabled = req[h].enabled /\ row.link = req[h].link
        BY <1>1 DEF Inv, Tables, AccountRow
      <3>3. accounts'[b] = row
        BY <1>1, <3>1
      <3>4. /\ accounts[b].enabled = req[h].enabled \/ <<"switch", b>> \in req[h].since
            /\ req[h].op.link = Keep =>
                  accounts[b].link = req[h].link \/ <<"link", b>> \in req[h].since
        BY <1>1, <2>1, <2>2, <2>5 DEF Fine, ReadFresh
      <3> HIDE DEF row
      <3>5. QED
        BY <3>2, <3>3, <3>4
    <2>6. QED
      BY <2>4, <2>5
  <1>2. Inv /\ [Next]_vars =>
          [\A h \in Handler : Is(h, {"update"}) /\ Wrote(h) =>
              LET a == req[h].op.id IN
              a \in DOMAIN accounts /\ a \in DOMAIN accounts' =>
                  /\ accounts'[a].enabled # accounts[a].enabled =>
                        <<"switch", a>> \in req[h].since
                  /\ req[h].op.link = Keep /\ accounts'[a].link # accounts[a].link =>
                        <<"link", a>> \in req[h].since]_vars
    BY <1>1
  <1>3. QED
    BY <1>2, ProxyInvariant, PTL DEF KeepsUnlessRaced, Spec

-----------------------------------------------------------------------------
(* What an import has done. *)

ProxyFiled(e) == \E p \in Named(e.proxy) : proxies[p].url = e.url
Linked(l, n) == IF Named(n) = {} THEN l = NoProxy ELSE l \in Named(n)
AccountFiled(e) ==
    \E a \in AccountNamed(e.account) :
        accounts[a].enabled = e.enabled /\ Linked(accounts[a].link, e.via)

\* No entry an import is done with has the name of entry i, and comes after it.
LastSoFar(q, i, field) ==
    \A j \in DOMAIN q.op.file :
        j < q.next /\ field \in DOMAIN q.op.file[j]
        /\ q.op.file[j][field] = q.op.file[i][field] => j <= i

\* The entries it is done with are in the tables.
DoneFiled(q) ==
    \A i \in DOMAIN q.op.file : i < q.next =>
        /\ "proxy" \in DOMAIN q.op.file[i] /\ LastSoFar(q, i, "proxy") =>
              ProxyFiled(q.op.file[i])
        /\ "account" \in DOMAIN q.op.file[i] /\ LastSoFar(q, i, "account") =>
              AccountFiled(q.op.file[i])

\* What it has read for the entry it is at is so.
InHand(q) ==
    /\ q.pc = "putProxy" =>
          LET same == Named(q.op.file[q.next].proxy) IN
          IF same = {} THEN q.row = NoProxy ELSE q.row \in same
    /\ q.pc \in {"look", "putItem"} => Linked(q.link, q.op.file[q.next].via)
    /\ q.pc = "putItem" =>
          LET same == AccountNamed(q.op.file[q.next].account) IN
          IF same = {} THEN q.row = NoAccount ELSE q.row \in same
    /\ q.pc = "clear" => Len(q.op.file) < q.next

AsFiled(q) == q.op.kind = "import" /\ q.since = {} => DoneFiled(q) /\ InHand(q)
AllFiled == \A h \in Handler : Running(h) => AsFiled(req[h])

LEMMA StillFiled ==
    ASSUME NEW q, AsFiled(q), UNCHANGED <<proxies, accounts>>
    PROVE  AsFiled(q)'
  BY DEF AsFiled, DoneFiled, InHand, LastSoFar, ProxyFiled, AccountFiled, Linked,
         Named, AccountNamed

LEMMA FiledNow ==
    ASSUME NEW h \in Handler, NEW q, q = req'[h], AsFiled(q)'
    PROVE  AsFiled(req[h])'
  <1>1. DoneFiled(q)' => DoneFiled(req[h])'
    BY DEF DoneFiled, LastSoFar, ProxyFiled, AccountFiled, Linked, Named, AccountNamed
  <1>2. InHand(q)' => InHand(req[h])'
    BY DEF InHand, Linked, Named, AccountNamed
  <1>3. QED
    BY <1>1, <1>2 DEF AsFiled

LEMMA SameDone ==
    ASSUME NEW x, DoneFiled(x), NEW q, q.op = x.op, q.next = x.next
    PROVE  DoneFiled(q)
  BY DEF DoneFiled, LastSoFar

\* No write gives an account another name.
LEMMA NamesKept ==
    ASSUME Inv, Next
    PROVE  \A a \in DOMAIN accounts \cap DOMAIN accounts' :
              accounts'[a].name = accounts[a].name
  <1>1. CASE accounts' = accounts
    BY <1>1
  <1>2. CASE accounts' # accounts
    <2>1. PICK h \in Handler :
              \/ InsertProxy(h) \/ UpdateProxy(h) \/ PutProxy(h)
              \/ InsertAccount(h) \/ UpdateAccount(h) \/ PutItem(h)
              \/ \E op \in Op : DeleteProxy(h, op) \/ SetEnabled(h, op) \/ DeleteAccount(h, op)
      BY <1>2, AccountWriter
    <2>2. ASSUME NEW q, Goes(h, q) PROVE FALSE
      BY <1>2, <2>2 DEF Goes
    <2>3. ASSUME NEW x, Answer(h, x) PROVE FALSE
      BY <2>2, <2>3 DEF Answer
    <2>4. \A a \in DOMAIN accounts : accounts[a] \in AccountRow
      BY DEF Inv, Tables
    <2>5. ~(InsertProxy(h) \/ UpdateProxy(h) \/ PutProxy(h))
      BY <1>2, <2>2, <2>3 DEF InsertProxy, UpdateProxy, PutProxy, Writes
    <2>6. ASSUME NEW x, NEW row, x \notin used, accounts' = With(accounts, x, row)
          PROVE  \A a \in DOMAIN accounts : accounts'[a] = accounts[a]
      BY <2>6 DEF With, Inv, Tables
    <2>7. CASE InsertAccount(h)
      <3>1. PICK x, row : x \in Account \ used /\ accounts' = With(accounts, x, row)
        BY <2>3, <2>7 DEF InsertAccount, Writes
      <3>2. QED
        BY <2>6, <3>1
    <2>8. CASE UpdateAccount(h)
      <3>1. PICK b, x, y : /\ b \in DOMAIN accounts
                           /\ accounts' = [accounts EXCEPT
                                  ![b] = [@ EXCEPT !.enabled = x, !.link = y]]
        BY <2>2, <2>8 DEF UpdateAccount, Goto, Writes
      <3>2. QED
        BY <2>4, <3>1 DEF AccountRow
    <2>9. CASE PutItem(h)
      <3>1. CASE InsertItem(h)
        BY <2>3, <2>6, <3>1 DEF InsertItem, Writes
      <3>2. CASE accounts' = [a \in DOMAIN accounts |->
                                 IF a \in AccountNamed(Current(h).account)
                                 THEN Item(h) ELSE accounts[a]]
        BY <3>2 DEF Item, AccountNamed
      <3>3. QED
        BY <2>9, <3>1, <3>2 DEF PutItem, Writes
    <2>10. ASSUME NEW op \in Op, DeleteProxy(h, op) PROVE
              \A a \in DOMAIN accounts : accounts'[a].name = accounts[a].name
      BY <2>4, <2>10 DEF DeleteProxy, Writes, AccountRow
    <2>11. ASSUME NEW op \in Op, SetEnabled(h, op) \/ DeleteAccount(h, op)
           PROVE  \A a \in DOMAIN accounts \cap DOMAIN accounts' :
                     accounts'[a].name = accounts[a].name
      BY <2>3, <2>4, <2>11 DEF SetEnabled, DeleteAccount, Writes, Without, AccountRow
    <2>12. QED
      BY <2>1, <2>5, <2>7, <2>8, <2>9, <2>10, <2>11
  <1>3. QED
    BY <1>1, <1>2

\* A write of which there is nothing to hear leaves the tables as they are.
LEMMA Unheard ==
    ASSUME Inv, Next, Inv', Changes(proxies', accounts') = {}
    PROVE  UNCHANGED <<proxies, accounts>>
  <1>1. /\ proxies \in [DOMAIN proxies -> ProxyRow]
        /\ proxies' \in [DOMAIN proxies' -> ProxyRow]
        /\ accounts \in [DOMAIN accounts -> AccountRow]
        /\ accounts' \in [DOMAIN accounts' -> AccountRow]
    BY DEF Inv, Tables
  <1>2. /\ DOMAIN proxies' = DOMAIN proxies
        /\ \A p \in DOMAIN proxies' : proxies'[p] = proxies[p]
    BY DEF Changes
  <1>3. /\ DOMAIN accounts' = DOMAIN accounts
        /\ \A a \in DOMAIN accounts' : /\ accounts'[a].enabled = accounts[a].enabled
                                       /\ accounts'[a].link = accounts[a].link
    BY DEF Changes
  <1>4. \A a \in DOMAIN accounts' : accounts'[a].name = accounts[a].name
    BY <1>3, NamesKept
  <1>5. ASSUME NEW a \in DOMAIN accounts' PROVE accounts'[a] = accounts[a]
    <2>1. /\ accounts'[a] \in AccountRow /\ accounts[a] \in AccountRow
          /\ accounts'[a].enabled = accounts[a].enabled
          /\ accounts'[a].link = accounts[a].link /\ accounts'[a].name = accounts[a].name
      BY <1>1, <1>3, <1>4
    <2>2. \A r, s \in AccountRow :
             r.enabled = s.enabled /\ r.link = s.link /\ r.name = s.name => r = s
      BY DEF AccountRow
    <2>3. QED
      BY <2>1, <2>2
  <1>6. QED
    BY <1>1, <1>2, <1>3, <1>5

\* An import hears of every write but its own.
LEMMA OthersFiled ==
    ASSUME Inv, Next, Inv', NEW g \in Handler, NEW h \in Handler, g # h,
           Moves(g) \/ WritesSome(g), Running(h)', Running(h) => AsFiled(req[h])
    PROVE  AsFiled(req[h])'
  <1>1. PICK x : x = req[h]
    OBVIOUS
  <1>2. req \in [Handler -> Record \cup Rest] /\ x \in Record \cup Rest
    BY <1>1 DEF Inv
  <1>3. CASE Moves(g)
    <2>1. req'[h] = x /\ Running(h)
      BY <1>1, <1>2, <1>3 DEF Moves, Running
    <2>2. AsFiled(x)'
      BY <1>1, <1>3, <2>1, StillFiled DEF Moves
    <2>3. QED
      BY <2>1, <2>2, FiledNow
  <1>4. CASE WritesSome(g)
    <2>1. req'[h] = IF Running(h) THEN Told(req[h], Changes(proxies', accounts')) ELSE req[h]
      BY <1>4 DEF WritesSome, Writes
    <2>2. Running(h) /\ x \in Record
      BY <1>1, <2>1, RunningFine DEF Running
    <2> DEFINE s == x.since \cup {e \in Changes(proxies', accounts') :
                                     x.op.kind = "import" \/ e[2] \in {x.link, x.row}}
    <2>3. PICK u : u = req'[h]
      OBVIOUS
    <2>4. u = [x EXCEPT !.since = s]
      BY <1>1, <2>1, <2>2, <2>3 DEF Told
    <2>5. CASE u.op.kind = "import" /\ u.since = {}
      <3>1. s = {} /\ x.op.kind = "import"
        <4> HIDE DEF s
        <4>1. QED
          BY <2>2, <2>4, <2>5 DEF Record
      <3>2. Changes(proxies', accounts') = {} /\ x.since = {}
        BY <3>1
      <3>3. u = x
        <4> HIDE DEF s
        <4>1. QED
          BY <2>2, <2>4, <3>1, <3>2 DEF Record
      <3>4. AsFiled(x)'
        BY <1>1, <2>2, <3>2, StillFiled, Unheard
      <3>5. QED
        BY <2>3, <3>3, <3>4, FiledNow
    <2>6. CASE ~(u.op.kind = "import" /\ u.since = {})
      BY <2>3, <2>6 DEF AsFiled
    <2>7. QED
      BY <2>5, <2>6
  <1>5. QED
    BY <1>3, <1>4

\* Only the steps of an import go on with one.
LEMMA ImportStep ==
    ASSUME Inv, NEW h \in Handler, Step(h), Running(h)', req'[h].op.kind = "import"
    PROVE  \/ LookForProxy(h) \/ PutProxy(h) \/ LinkItem(h) \/ LookForAccount(h)
           \/ PutItem(h)
  <1>1. SUFFICES ASSUME ~(\/ LookForProxy(h) \/ PutProxy(h) \/ LinkItem(h)
                          \/ LookForAccount(h) \/ PutItem(h))
                 PROVE  FALSE
    OBVIOUS
  <1>2. Running(h) /\ req \in [Handler -> Record \cup Rest]
    BY <1>1 DEF Inv, Step, InsertProxy, UpdateProxy, RereadProxy, Clear, Readback, LinkNew,
                NameImported, InsertAccount, ResolveEdit, UpdateAccount, LookUp, TakeClient,
                Send, Fails, At, Running
  <1>3. req[h] \in Record /\ Fine(req[h]) /\ req[h].op \in Op
    BY <1>2, RunningFine DEF Record
  <1>4. ASSUME NEW q, q.op = req[h].op, req[h].op.kind # "import", req'[h] = q PROVE FALSE
    BY <1>4
  <1>5. ASSUME NEW a, req'[h] = Ended(a) PROVE FALSE
    BY <1>5 DEF Ended, Running
  <1>6. /\ req[h].pc \in {"insert", "readback", "write", "reread", "named", "lookup",
                          "client", "send", "found", "resolve"} => req[h].op.kind # "import"
        /\ req[h].pc = "clear" /\ Is(h, {"newProxy"}) => req[h].op.kind # "import"
    BY <1>3 DEF Fine, OnPath, Is
  <1>7. ASSUME NEW p, NEW q,
               \/ q = Then(h, p)
               \/ \E v : \/ q = [Then(h, p) EXCEPT !.name = v]
                         \/ q = [Then(h, p) EXCEPT !.row = v]
                         \/ q = [Then(h, p) EXCEPT !.link = v]
                         \/ q = [Then(h, p) EXCEPT !.via = v]
                         \/ q = [Begun(req[h].op, p) EXCEPT !.row = v]
        PROVE  q.op = req[h].op
    BY <1>3, <1>7 DEF Then, Begun, Record
  <1>8. ASSUME NEW q, Goes(h, q) PROVE req'[h] = q
    BY <1>2, <1>8 DEF Goes
  <1>9. ASSUME NEW a, Answer(h, a) PROVE FALSE
    BY <1>5, <1>8, <1>9 DEF Answer
  <1>10. ASSUME NEW p, Goto(h, p) PROVE req'[h] = Then(h, p)
    BY <1>8, <1>10 DEF Goto, Then
  <1>11. ASSUME NEW p, Resolve(h, Then(h, p)) PROVE req'[h].op = req[h].op
    <2>1. \E v : Goes(h, [Then(h, p) EXCEPT !.link = v])
      BY <1>9, <1>11, Zenon DEF Resolve
    <2>2. PICK v, q : Goes(h, q) /\ q = [Then(h, p) EXCEPT !.link = v]
      BY <2>1
    <2>3. QED
      BY <1>7, <1>8, <2>2
  <1>12. ASSUME NEW ps, NEW as, NEW new, NEW q, Writes(h, ps, as, new, q) PROVE req'[h] = q
    BY <1>12 DEF Writes
  <1>13. ~(RereadProxy(h) \/ Readback(h) \/ Fails(h) \/ LinkNew(h) \/ ResolveEdit(h))
    BY <1>4, <1>6, <1>7, <1>9, <1>10, <1>11
    DEF RereadProxy, Readback, Fails, LinkNew, ResolveEdit, At
  <1>14. ~(NameImported(h) \/ LookUp(h) \/ Send(h))
    <2>1. ASSUME NEW p, NEW v, req[h].op.kind # "import",
                 \/ Goes(h, [Then(h, p) EXCEPT !.name = v])
                 \/ Goes(h, [Then(h, p) EXCEPT !.via = v])
          PROVE  FALSE
      <3>1. PICK q : /\ Goes(h, q)
                     /\ \/ q = [Then(h, p) EXCEPT !.name = v]
                        \/ q = [Then(h, p) EXCEPT !.via = v]
        BY <2>1
      <3>2. q.op = req[h].op
        BY <1>7, <3>1
      <3>3. QED
        BY <1>4, <1>8, <2>1, <3>1, <3>2
    <2>2. QED
      BY <1>6, <1>9, <2>1 DEF NameImported, LookUp, Send, At
  <1>15. ~Clear(h)
    BY <1>2, <1>4, <1>5, <1>6, <1>7 DEF Clear, At
  <1>16. ~TakeClient(h)
    <2>1. SUFFICES ASSUME TakeClient(h) PROVE FALSE
      OBVIOUS
    <2>2. PICK q, v : req' = [req EXCEPT ![h] = q] /\ q = [Then(h, "send") EXCEPT !.via = v]
      BY <2>1 DEF TakeClient
    <2>3. q.op = req[h].op /\ req'[h] = q
      BY <1>2, <1>7, <2>2
    <2>4. QED
      BY <1>4, <1>6, <2>1, <2>3 DEF TakeClient, At
  <1>17. ~(InsertProxy(h) \/ UpdateProxy(h))
    <2>1. SUFFICES ASSUME InsertProxy(h) \/ UpdateProxy(h) PROVE FALSE
      OBVIOUS
    <2>2. PICK q : /\ req'[h] = q
                   /\ q = Then(h, "reread") \/ \E v : q = [Then(h, "clear") EXCEPT !.row = v]
      BY <1>9, <1>12, <2>1 DEF InsertProxy, UpdateProxy
    <2>3. q.op = req[h].op
      BY <1>7, <2>2
    <2>4. QED
      BY <1>4, <1>6, <2>1, <2>2, <2>3 DEF InsertProxy, UpdateProxy, At
  <1>18. ~(InsertAccount(h) \/ UpdateAccount(h))
    <2>1. SUFFICES ASSUME InsertAccount(h) \/ UpdateAccount(h) PROVE FALSE
      OBVIOUS
    <2>2. PICK q : /\ req'[h] = q
                   /\ \/ q = Then(h, "readback")
                      \/ \E v : q = [Begun(req[h].op, "readback") EXCEPT !.row = v]
      BY <1>9, <1>10, <1>12, <2>1 DEF InsertAccount, UpdateAccount
    <2>3. q.op = req[h].op
      BY <1>7, <2>2
    <2>4. QED
      BY <1>4, <1>6, <2>1, <2>2, <2>3 DEF InsertAccount, UpdateAccount, At
  <1>19. QED
    BY <1>1, <1>13, <1>14, <1>15, <1>16, <1>17, <1>18 DEF Step

LEMMA ImportBegins ==
    ASSUME Inv, NEW h \in Handler, NEW op \in Op, Begin(h, op), Running(h)',
           req'[h].op.kind = "import"
    PROVE  BeginImport(h, op)
  <1>1. SUFFICES ASSUME ~BeginImport(h, op) PROVE FALSE
    OBVIOUS
  <1>2. op.kind # "import" /\ req \in [Handler -> Record \cup Rest]
    BY <1>1 DEF Inv, Begin, Begins, CheckName, ReadProxy, DeleteProxy, NameNew, LinkImported,
                ReadAccount, SetEnabled, DeleteAccount, ReadRow
  <1>3. ASSUME NEW p, NEW q,
               \/ q = Begun(op, p)
               \/ \E u, v, w : \/ q = [Begun(op, p) EXCEPT !.name = v]
                               \/ q = [Begun(op, p) EXCEPT !.link = v]
                               \/ q = [Begun(op, p) EXCEPT !.enabled = u, !.link = v, !.row = w]
        PROVE  q.op = op
    <2>1. CASE q = Begun(op, p)
      BY <2>1 DEF Begun
    <2>2. CASE q # Begun(op, p)
      <3>1. PICK u, v, w : \/ q = [Begun(op, p) EXCEPT !.name = v]
                           \/ q = [Begun(op, p) EXCEPT !.link = v]
                           \/ q = [Begun(op, p) EXCEPT !.enabled = u, !.link = v, !.row = w]
        BY <1>3, <2>2, Zenon
      <3>2. CASE q = [Begun(op, p) EXCEPT !.name = v]
        BY <3>2 DEF Begun
      <3>3. CASE q = [Begun(op, p) EXCEPT !.link = v]
        BY <3>3 DEF Begun
      <3>4. CASE q = [Begun(op, p) EXCEPT !.enabled = u, !.link = v, !.row = w]
        BY <3>4 DEF Begun
      <3>5. QED
        BY <3>1, <3>2, <3>3, <3>4
    <2>3. QED
      BY <2>1, <2>2
  <1>4. ASSUME NEW q, Goes(h, q) PROVE req'[h] = q
    BY <1>2, <1>4 DEF Goes
  <1>5. ASSUME NEW a, req'[h] = Ended(a) PROVE FALSE
    BY <1>5 DEF Ended, Running
  <1>6. ASSUME NEW a, Answer(h, a) PROVE FALSE
    BY <1>4, <1>5, <1>6 DEF Answer
  <1>7. ASSUME NEW q, q.op = op, req'[h] = q PROVE FALSE
    BY <1>2, <1>7
  <1>begun. ASSUME NEW p, NEW u, NEW v, NEW w,
                   \/ Goes(h, Begun(op, p))
                   \/ Goes(h, [Begun(op, p) EXCEPT !.name = v])
                   \/ Goes(h, [Begun(op, p) EXCEPT !.link = v])
                   \/ Goes(h, [Begun(op, p) EXCEPT !.enabled = u, !.link = v, !.row = w])
            PROVE  FALSE
    <2>1. PICK q : /\ Goes(h, q)
                   /\ \/ q = Begun(op, p)
                      \/ q = [Begun(op, p) EXCEPT !.name = v]
                      \/ q = [Begun(op, p) EXCEPT !.link = v]
                      \/ q = [Begun(op, p) EXCEPT !.enabled = u, !.link = v, !.row = w]
      BY <1>begun
    <2>2. q.op = op
      BY <1>3, <2>1
    <2>3. QED
      BY <1>4, <1>7, <2>1, <2>2
  <1>8. ASSUME NEW ps, NEW as, NEW new, NEW q, Writes(h, ps, as, new, q) PROVE req'[h] = q
    BY <1>8 DEF Writes
  <1>9. ~(CheckName(h, op) \/ ReadProxy(h, op) \/ NameNew(h, op))
    BY <1>6, <1>begun DEF CheckName, ReadProxy, NameNew
  <1>10. ~(ReadAccount(h, op) \/ ReadRow(h, op))
    BY <1>6, <1>begun DEF ReadAccount, ReadRow
  <1>11. ~LinkImported(h, op)
    BY <1>6, <1>begun DEF LinkImported, Resolve
  <1>12. ~(DeleteProxy(h, op) \/ SetEnabled(h, op) \/ DeleteAccount(h, op))
    <2>1. ~SetEnabled(h, op) /\ ~DeleteAccount(h, op)
      BY <1>5, <1>6, <1>8 DEF SetEnabled, DeleteAccount
    <2>2. ASSUME DeleteProxy(h, op) PROVE FALSE
      <3>1. PICK q : req'[h] = q /\ (q = Begun(op, "clear") \/ q = Ended("failed"))
        BY <1>8, <2>2 DEF DeleteProxy
      <3>2. QED
        BY <1>3, <1>5, <1>7, <3>1
    <2>3. QED
      BY <2>1, <2>2
  <1>13. QED
    BY <1>1, <1>9, <1>10, <1>11, <1>12 DEF Begin

LEMMA GoesFiled ==
    ASSUME Inv, NEW h \in Handler, NEW q, Goes(h, q), AsFiled(q)
    PROVE  AsFiled(req[h])'
  <1>1. q = req'[h] /\ UNCHANGED <<proxies, accounts>>
    BY DEF Goes, Inv
  <1>2. AsFiled(q)'
    BY <1>1, StillFiled
  <1>3. QED
    BY <1>1, <1>2, FiledNow

LEMMA BeginFiled ==
    ASSUME Inv, NEW h \in Handler, NEW op \in Op, BeginImport(h, op)
    PROVE  AsFiled(req[h])'
  <1> DEFINE p == IF op.file = <<>> THEN "clear" ELSE "entry"
             b == Begun(op, p)
  <1>1. op.kind = "import" /\ op.file \in Seq(Entry) /\ Goes(h, b)
    BY OpType DEF BeginImport, Begins
  <1>2. b.pc = p /\ b.op = op /\ b.next = 1 /\ p \in {"clear", "entry"}
    BY BegunIs DEF Places
  <1>3. p = "clear" => Len(op.file) = 0
    BY <1>1
  <1>4. DOMAIN op.file = 1..Len(op.file) /\ Len(op.file) \in Nat
    BY <1>1
  <1> HIDE DEF b, p
  <1>5. DoneFiled(b)
    BY <1>2, <1>4 DEF DoneFiled
  <1>6. InHand(b)
    BY <1>2, <1>3 DEF InHand
  <1>7. AsFiled(b)
    BY <1>5, <1>6 DEF AsFiled
  <1>8. QED
    BY <1>1, <1>7, GoesFiled

\* What an import reads is so when it has read it.
LEMMA LookFiled ==
    ASSUME Inv, NEW h \in Handler, LookForProxy(h) \/ LinkItem(h) \/ LookForAccount(h),
           AsFiled(req[h])
    PROVE  AsFiled(req[h])'
  <1>1. Is(h, {"import"}) /\ req[h].pc \in {"entry", "look"}
    BY DEF LookForProxy, LinkItem, LookForAccount, Importing, At
  <1>2. /\ req[h] \in Record /\ req[h].op.kind = "import"
        /\ Current(h) = req[h].op.file[req[h].next]
    BY <1>1, CurrentType DEF Current
  <1>3. PICK x \in Record : x = req[h]
    BY <1>2
  <1>4. CASE LookForProxy(h)
    <2> DEFINE same == Named(Current(h).proxy)
               r == IF same = {} THEN NoProxy ELSE CHOOSE p \in same : TRUE
    <2>1. PICK q : q = [x EXCEPT !.pc = "putProxy", !.row = r]
      OBVIOUS
    <2>2. Goes(h, q)
      BY <1>3, <1>4, <2>1 DEF LookForProxy, Then
    <2>3. IF same = {} THEN r = NoProxy ELSE r \in same
      OBVIOUS
    <2> HIDE DEF r
    <2>4. /\ q.pc = "putProxy" /\ q.op = x.op /\ q.since = x.since /\ q.next = x.next
          /\ q.row = r
      BY <2>1 DEF Record
    <2>5. DoneFiled(x) => DoneFiled(q)
      BY <2>4, SameDone
    <2>6. InHand(q)
      BY <1>2, <1>3, <2>3, <2>4 DEF InHand
    <2>7. AsFiled(q)
      BY <1>3, <2>4, <2>5, <2>6 DEF AsFiled
    <2>8. QED
      BY <2>2, <2>7, GoesFiled
  <1>5. CASE LinkItem(h)
    <2> DEFINE same == Named(Current(h).via)
               l == IF same = {} THEN NoProxy ELSE CHOOSE p \in same : TRUE
    <2>1. PICK q : q = [x EXCEPT !.pc = "look", !.link = l]
      OBVIOUS
    <2>2. Goes(h, q)
      BY <1>3, <1>5, <2>1 DEF LinkItem, Then
    <2>3. Linked(l, Current(h).via)
      BY DEF Linked
    <2> HIDE DEF l
    <2>4. /\ q.pc = "look" /\ q.op = x.op /\ q.since = x.since /\ q.next = x.next
          /\ q.link = l
      BY <2>1 DEF Record
    <2>5. DoneFiled(x) => DoneFiled(q)
      BY <2>4, SameDone
    <2>6. InHand(q)
      BY <1>2, <1>3, <2>3, <2>4 DEF InHand
    <2>7. AsFiled(q)
      BY <1>3, <2>4, <2>5, <2>6 DEF AsFiled
    <2>8. QED
      BY <2>2, <2>7, GoesFiled
  <1>6. CASE LookForAccount(h)
    <2> DEFINE same == AccountNamed(Current(h).account)
               r == IF same = {} THEN NoAccount ELSE CHOOSE a \in same : TRUE
    <2>1. PICK q : q = [x EXCEPT !.pc = "putItem", !.row = r]
      OBVIOUS
    <2>2. Goes(h, q) /\ x.pc = "look"
      BY <1>3, <1>6, <2>1 DEF LookForAccount, Then, Importing, At
    <2>3. IF same = {} THEN r = NoAccount ELSE r \in same
      OBVIOUS
    <2> HIDE DEF r
    <2>4. /\ q.pc = "putItem" /\ q.op = x.op /\ q.since = x.since /\ q.next = x.next
          /\ q.row = r /\ q.link = x.link
      BY <2>1 DEF Record
    <2>5. DoneFiled(x) => DoneFiled(q)
      BY <2>4, SameDone
    <2>6. InHand(x) => InHand(q)
      BY <1>2, <1>3, <2>2, <2>3, <2>4 DEF InHand
    <2>7. AsFiled(q)
      BY <1>3, <2>4, <2>5, <2>6 DEF AsFiled
    <2>8. QED
      BY <2>2, <2>7, GoesFiled
  <1>7. QED
    BY <1>4, <1>5, <1>6

\* An import that is done with an entry.
LEMMA OnwardIs ==
    ASSUME Inv, NEW h \in Handler, Is(h, {"import"}),
           req[h].pc \in {"entry", "putProxy", "look", "putItem"}
    PROVE  /\ Onward(h).op = req[h].op /\ Onward(h).next = req[h].next + 1
           /\ Onward(h).since = req[h].since
           /\ Onward(h).pc \in {"entry", "clear"}
           /\ Onward(h).pc = "clear" => Len(req[h].op.file) < Onward(h).next
  <1> DEFINE n == req[h].next + 1
             p == IF n > Len(req[h].op.file) THEN "clear" ELSE "entry"
  <1>1. Onward(h) = [Begun(req[h].op, p) EXCEPT !.next = n, !.since = req[h].since]
    BY DEF Onward
  <1>2. req[h].op.file \in Seq(Entry) /\ req[h].next \in 1..Len(req[h].op.file)
    BY CurrentType
  <1>3. p = "clear" => Len(req[h].op.file) < n
    BY <1>2
  <1>4. p \in {"entry", "clear"}
    OBVIOUS
  <1> HIDE DEF p
  <1>5. /\ Onward(h).op = req[h].op /\ Onward(h).next = n /\ Onward(h).since = req[h].since
        /\ Onward(h).pc = p
    BY <1>1 DEF Begun
  <1>6. QED
    BY <1>3, <1>4, <1>5

\* The entries stay in the tables that have another name than the one written.
LEMMA DoneOnward ==
    ASSUME NEW x \in Record, x.op.file \in Seq(Entry), x.next \in 1..Len(x.op.file),
           NEW q, q.op = x.op, q.next = x.next + 1, DoneFiled(x),
           NEW e, e = x.op.file[x.next],
           "proxy" \in DOMAIN e => ProxyFiled(e)',
           "account" \in DOMAIN e => AccountFiled(e)',
           \A i \in DOMAIN x.op.file :
              LET f == x.op.file[i] IN
              /\ /\ i < x.next /\ "proxy" \in DOMAIN f /\ ProxyFiled(f)
                 /\ "proxy" \in DOMAIN e => e.proxy # f.proxy
                 => ProxyFiled(f)'
              /\ /\ i < x.next /\ "account" \in DOMAIN f /\ AccountFiled(f)
                 /\ "account" \in DOMAIN e => e.account # f.account
                 => AccountFiled(f)'
    PROVE  DoneFiled(q)'
  <1>1. DOMAIN x.op.file = 1..Len(x.op.file) /\ Len(x.op.file) \in Nat
    OBVIOUS
  <1>2. SUFFICES ASSUME NEW i \in 1..Len(x.op.file), i < x.next + 1
                 PROVE  /\ "proxy" \in DOMAIN x.op.file[i] /\ LastSoFar(q, i, "proxy")'
                              => ProxyFiled(x.op.file[i])'
                        /\ "account" \in DOMAIN x.op.file[i] /\ LastSoFar(q, i, "account")'
                              => AccountFiled(x.op.file[i])'
    BY <1>1 DEF DoneFiled
  <1>3. CASE i = x.next
    BY <1>3
  <1>4. CASE i < x.next
    <2>1. ASSUME NEW field, LastSoFar(q, i, field)'
          PROVE  /\ LastSoFar(x, i, field)
                 /\ field \in DOMAIN e => e[field] # x.op.file[i][field]
      <3>1. \A j \in 1..Len(x.op.file) :
               j < x.next + 1 /\ field \in DOMAIN x.op.file[j]
               /\ x.op.file[j][field] = x.op.file[i][field] => j <= i
        BY <1>1, <2>1 DEF LastSoFar
      <3>2. LastSoFar(x, i, field)
        <4>1. SUFFICES ASSUME NEW j \in DOMAIN x.op.file, j < x.next,
                              field \in DOMAIN x.op.file[j],
                              x.op.file[j][field] = x.op.file[i][field]
                       PROVE  j <= i
          BY DEF LastSoFar
        <4>2. j \in 1..Len(x.op.file) /\ j < x.next + 1
          BY <1>1, <4>1
        <4>3. QED
          BY <3>1, <4>1, <4>2
      <3>3. field \in DOMAIN e => e[field] # x.op.file[i][field]
        BY <1>4, <3>1
      <3>4. QED
        BY <3>2, <3>3
    <2>2. ASSUME "proxy" \in DOMAIN x.op.file[i], LastSoFar(q, i, "proxy")'
          PROVE  ProxyFiled(x.op.file[i])'
      BY <1>1, <1>4, <2>1, <2>2 DEF DoneFiled
    <2>3. ASSUME "account" \in DOMAIN x.op.file[i], LastSoFar(q, i, "account")'
          PROVE  AccountFiled(x.op.file[i])'
      BY <1>1, <1>4, <2>1, <2>3 DEF DoneFiled
    <2>4. QED
      BY <2>2, <2>3
  <1>5. QED
    BY <1>2, <1>3, <1>4

\* What an import writes is what its file says, and other names are left alone.
LEMMA PutProxyFiled ==
    ASSUME Inv, NEW h \in Handler, PutProxy(h), AsFiled(req[h]), Running(h)'
    PROVE  AsFiled(req[h])'
  <1>1. Is(h, {"import"}) /\ req[h].pc = "putProxy"
    BY DEF PutProxy, Importing, At
  <1>2. PICK x \in Record : x = req[h]
    BY <1>1, CurrentType
  <1>3. PICK e : e = Current(h)
    OBVIOUS
  <1>4. /\ Fine(x) /\ x.op.kind = "import" /\ x.op \in Op /\ x.op.file \in Seq(Entry)
        /\ x.next \in 1..Len(x.op.file) /\ e = x.op.file[x.next] /\ e \in Entry
    BY <1>1, <1>2, <1>3, CurrentType DEF Current
  <1>5. "proxy" \in DOMAIN e /\ x.pc = "putProxy" /\ x.op.file \in Payload
    BY <1>1, <1>2, <1>4, OpType DEF Fine, EntryInHand
  <1>6. PICK q : q = Onward(h)
    OBVIOUS
  <1>7. /\ q.op = x.op /\ q.next = x.next + 1 /\ q.since = x.since
        /\ q.pc \in {"entry", "clear"}
        /\ q.pc = "clear" => Len(x.op.file) < q.next
    BY <1>1, <1>2, <1>6, OnwardIs
  <1>8. InHand(q)'
    BY <1>7 DEF InHand
  <1>9. ASSUME NEW a, Answer(h, a) PROVE FALSE
    <2>1. req'[h] = Ended(a)
      BY <1>9 DEF Answer, Goes, Inv
    <2>2. QED
      BY <2>1 DEF Ended, Running
  <1>10. req'[h] = q
    BY <1>6, <1>9 DEF PutProxy, Goes, Writes, Inv
  <1>11. SUFFICES ASSUME x.since = {} PROVE DoneFiled(q)'
    <2>1. AsFiled(q)'
      BY <1>7, <1>8, <1>11 DEF AsFiled
    <2>2. QED
      BY <1>10, <2>1, FiledNow
  <1>12. DoneFiled(x) /\ InHand(x)
    BY <1>2, <1>4, <1>11 DEF AsFiled
  <1> DEFINE p == x.row
             row == [name |-> e.proxy, url |-> e.url]
  <1>13. \/ p \in Named(e.proxy)
         \/ p = NoProxy /\ Named(e.proxy) = {}
    BY <1>4, <1>5, <1>12 DEF InHand
  <1>14. Tables /\ NoProxy \notin DOMAIN proxies
    BY NameAssumption DEF Inv, Tables
  <1>15. /\ accounts' = accounts
         /\ \/ p \in Named(e.proxy) /\ proxies' = [proxies EXCEPT ![p] = row]
            \/ /\ Named(e.proxy) = {}
               /\ \E y \in Proxy \ used : proxies' = With(proxies, y, row)
    BY <1>2, <1>3, <1>9, <1>13, <1>14 DEF PutProxy, Writes, Named
  <1>16. PICK w \in DOMAIN proxies' :
            /\ proxies'[w] = row
            /\ w \in DOMAIN proxies => w \in Named(e.proxy)
            /\ \A v \in DOMAIN proxies : v # w => v \in DOMAIN proxies' /\ proxies'[v] = proxies[v]
    <2>1. CASE p \in Named(e.proxy) /\ proxies' = [proxies EXCEPT ![p] = row]
      BY <2>1 DEF Named
    <2>2. ASSUME NEW y \in Proxy \ used, proxies' = With(proxies, y, row)
          PROVE  /\ y \in DOMAIN proxies' /\ proxies'[y] = row /\ y \notin DOMAIN proxies
                 /\ \A v \in DOMAIN proxies : v \in DOMAIN proxies' /\ proxies'[v] = proxies[v]
      BY <1>14, <2>2 DEF With, Tables
    <2>3. QED
      BY <1>15, <2>1, <2>2
  <1>17. row.name = e.proxy /\ row.url = e.url
    OBVIOUS
  <1> HIDE DEF row
  <1>18. ProxyFiled(e)'
    BY <1>16, <1>17 DEF ProxyFiled, Named
  <1>19. ASSUME NEW f, ProxyFiled(f), e.proxy # f.proxy PROVE ProxyFiled(f)'
    BY <1>16, <1>19 DEF ProxyFiled, Named
  <1>20. ASSUME NEW i \in DOMAIN x.op.file, i < x.next
         PROVE  "account" \notin DOMAIN x.op.file[i]
    <2>1. x.next \in DOMAIN x.op.file /\ i \in Nat /\ x.next \in Nat
      BY <1>4
    <2>2. "account" \in DOMAIN x.op.file[i] => x.next < i
      BY <1>4, <1>5, <2>1, PayloadAssumption
    <2>3. QED
      BY <1>20, <2>1, <2>2
  <1>21. "account" \notin DOMAIN e
    BY <1>4, <1>5 DEF Entry
  <1>22. QED
    BY <1>4, <1>5, <1>7, <1>12, <1>18, <1>19, <1>20, <1>21, DoneOnward

LEMMA PutItemFiled ==
    ASSUME Inv, NEW h \in Handler, PutItem(h), AsFiled(req[h]), Running(h)'
    PROVE  AsFiled(req[h])'
  <1>1. Is(h, {"import"}) /\ req[h].pc = "putItem"
    BY DEF PutItem, Importing, At
  <1>2. PICK x \in Record : x = req[h]
    BY <1>1, CurrentType
  <1>3. PICK e : e = Current(h)
    OBVIOUS
  <1>4. /\ Fine(x) /\ x.op.kind = "import" /\ x.op \in Op /\ x.op.file \in Seq(Entry)
        /\ x.next \in 1..Len(x.op.file) /\ e = x.op.file[x.next] /\ e \in Entry
    BY <1>1, <1>2, <1>3, CurrentType DEF Current
  <1>5. "account" \in DOMAIN e /\ x.pc = "putItem"
    BY <1>1, <1>2, <1>4 DEF Fine, EntryInHand
  <1>6. PICK q : q = Onward(h)
    OBVIOUS
  <1>7. /\ q.op = x.op /\ q.next = x.next + 1 /\ q.since = x.since
        /\ q.pc \in {"entry", "clear"}
        /\ q.pc = "clear" => Len(x.op.file) < q.next
    BY <1>1, <1>2, <1>6, OnwardIs
  <1>8. InHand(q)'
    BY <1>7 DEF InHand
  <1>9. ASSUME NEW a, Answer(h, a) PROVE FALSE
    <2>1. req'[h] = Ended(a)
      BY <1>9 DEF Answer, Goes, Inv
    <2>2. QED
      BY <2>1 DEF Ended, Running
  <1>10. req'[h] = q
    BY <1>6, <1>9 DEF PutItem, InsertItem, Writes, Inv
  <1>11. SUFFICES ASSUME x.since = {} PROVE DoneFiled(q)'
    <2>1. AsFiled(q)'
      BY <1>7, <1>8, <1>11 DEF AsFiled
    <2>2. QED
      BY <1>10, <2>1, FiledNow
  <1>12. DoneFiled(x) /\ InHand(x)
    BY <1>2, <1>4, <1>11 DEF AsFiled
  <1> DEFINE same == AccountNamed(e.account)
  <1>13. PICK row : row = Item(h)
    OBVIOUS
  <1>14. /\ row.name = e.account /\ row.enabled = e.enabled /\ row.link = x.link
         /\ Linked(x.link, e.via) /\ e.account # Suffixed
    <2>1. e.account # Suffixed
      BY <1>4, <1>5, EntryType, NameAssumption
    <2>2. QED
      BY <1>2, <1>3, <1>4, <1>5, <1>12, <1>13, <2>1 DEF Item, InHand
  <1>15. /\ proxies' = proxies
         /\ \/ \E y \in Account \ used : accounts' = With(accounts, y, row)
            \/ /\ x.row # NoAccount
               /\ accounts' = [a \in DOMAIN accounts |-> IF a \in same THEN row ELSE accounts[a]]
    BY <1>2, <1>3, <1>9, <1>13 DEF PutItem, InsertItem, Writes
  <1>16. PICK w \in DOMAIN accounts' :
            /\ accounts'[w] = row
            /\ w \in DOMAIN accounts => w \in same
            /\ \A v \in DOMAIN accounts \ same :
                  v # w => v \in DOMAIN accounts' /\ accounts'[v] = accounts[v]
    <2>1. CASE x.row # NoAccount
               /\ accounts' = [a \in DOMAIN accounts |-> IF a \in same THEN row ELSE accounts[a]]
      <3>1. x.row \in same /\ same \subseteq DOMAIN accounts
        BY <1>4, <1>5, <1>12, <2>1 DEF InHand, AccountNamed
      <3> HIDE DEF same
      <3>2. QED
        BY <2>1, <3>1
    <2>2. ASSUME NEW y \in Account \ used, accounts' = With(accounts, y, row)
          PROVE  /\ y \in DOMAIN accounts' /\ accounts'[y] = row /\ y \notin DOMAIN accounts
                 /\ \A v \in DOMAIN accounts : v \in DOMAIN accounts' /\ accounts'[v] = accounts[v]
      BY <2>2 DEF With, Inv, Tables
    <2>3. QED
      BY <1>15, <2>1, <2>2
  <1>17. \A l, n : Linked(l, n)' <=> Linked(l, n)
    BY <1>15 DEF Linked, Named
  <1>18. AccountFiled(e)'
    BY <1>14, <1>16, <1>17 DEF AccountFiled, AccountNamed
  <1>19. ASSUME NEW f, AccountFiled(f), e.account # f.account PROVE AccountFiled(f)'
    BY <1>14, <1>16, <1>17, <1>19 DEF AccountFiled, AccountNamed
  <1>20. ASSUME NEW f, ProxyFiled(f) PROVE ProxyFiled(f)'
    BY <1>15, <1>20 DEF ProxyFiled, Named
  <1>21. "proxy" \notin DOMAIN e
    BY <1>4, <1>5 DEF Entry
  <1>22. QED
    BY <1>4, <1>5, <1>7, <1>12, <1>18, <1>19, <1>20, <1>21, DoneOnward

LEMMA StepFiled == Inv /\ AllFiled /\ [Next]_vars => AllFiled'
  <1> SUFFICES ASSUME Inv, AllFiled, [Next]_vars PROVE AllFiled'
    OBVIOUS
  <1>1. ASSUME Next, NEW h \in Handler, Running(h)' PROVE AsFiled(req[h])'
    <2>1. PICK g \in Handler : Step(g) \/ \E op \in Op : Begin(g, op)
      BY <1>1 DEF Next
    <2>2. Inv'
      BY <1>1, StepInv
    <2>3. Running(h) => AsFiled(req[h])
      BY DEF AllFiled
    <2>4. CASE g # h
      BY <1>1, <2>1, <2>2, <2>3, <2>4, Shape, OthersFiled
    <2>5. CASE g = h /\ req'[h].op.kind = "import"
      <3>1. CASE Step(h)
        <4>1. \/ LookForProxy(h) \/ PutProxy(h) \/ LinkItem(h) \/ LookForAccount(h)
              \/ PutItem(h)
          BY <1>1, <2>5, <3>1, ImportStep
        <4>2. Running(h)
          BY <4>1 DEF LookForProxy, PutProxy, LinkItem, LookForAccount, PutItem, Importing, Is
        <4>3. QED
          BY <1>1, <2>3, <4>1, <4>2, LookFiled, PutProxyFiled, PutItemFiled
      <3>2. ASSUME NEW op \in Op, Begin(h, op) PROVE AsFiled(req[h])'
        BY <1>1, <2>5, <3>2, ImportBegins, BeginFiled
      <3>3. QED
        BY <2>1, <2>5, <3>1, <3>2
    <2>6. CASE req'[h].op.kind # "import"
      BY <2>6 DEF AsFiled
    <2>7. QED
      BY <2>4, <2>5, <2>6
  <1>2. CASE UNCHANGED vars
    <2>1. ASSUME NEW h \in Handler, Running(h)' PROVE AsFiled(req[h])'
      <3>1. PICK x : x = req[h]
        OBVIOUS
      <3>2. AsFiled(x) /\ req'[h] = x
        BY <1>2, <2>1, <3>1 DEF AllFiled, Running, vars
      <3>3. AsFiled(x)'
        BY <1>2, <3>2, StillFiled DEF vars
      <3>4. QED
        BY <3>2, <3>3, FiledNow
    <2>2. QED
      BY <2>1 DEF AllFiled
  <1>3. QED
    BY <1>1, <1>2 DEF AllFiled

LEMMA AllFiledAlways == Spec => [](Inv /\ AllFiled)
  <1>1. Init => AllFiled
    BY DEF Init, AllFiled, Running, Unmade
  <1>2. QED
    BY <1>1, StepFiled, InitInv, StepInv, PTL DEF Spec

\* An undisturbed import that gets to its end leaves what its file says
\* (import, routes/import_export.rs).
THEOREM ImportsGetFiled == Spec => ImportedAsFiled
  <1>1. ASSUME Inv, AllFiled, NEW h \in Handler, Importing(h, "clear"), req[h].since = {},
               NEW i \in DOMAIN req[h].op.file
        PROVE  /\ "proxy" \in DOMAIN req[h].op.file[i] /\ Final(req[h].op.file, i, "proxy") =>
                     ProxyFiled(req[h].op.file[i])
               /\ "account" \in DOMAIN req[h].op.file[i] /\ Final(req[h].op.file, i, "account")
                     => AccountFiled(req[h].op.file[i])
    <2>1. PICK x \in Record : x = req[h]
      BY <1>1, RunningFine DEF Importing, Is
    <2>2. /\ x.op.kind = "import" /\ x.op \in Op /\ x.op.file \in Seq(Entry)
          /\ DoneFiled(x) /\ InHand(x) /\ x.pc = "clear"
      <3>1. x.op \in Op /\ x.op.kind = "import" /\ Running(h) /\ x.pc = "clear"
        BY <1>1, <2>1 DEF Importing, Is, At, Record
      <3>2. QED
        BY <1>1, <2>1, <3>1, OpType DEF AllFiled, AsFiled
    <2>3. i \in 1..Len(x.op.file) /\ Len(x.op.file) < x.next
      BY <1>1, <2>1, <2>2 DEF InHand
    <2>4. i < x.next
      BY <2>2, <2>3 DEF Record
    <2>5. \A field : Final(x.op.file, i, field) => LastSoFar(x, i, field)
      BY DEF Final, LastSoFar
    <2>6. QED
      BY <1>1, <2>1, <2>2, <2>4, <2>5 DEF DoneFiled
  <1>2. Inv /\ AllFiled /\ [Next]_vars =>
          [\A h \in Handler : Importing(h, "clear") /\ Wrote(h) /\ req[h].since = {} =>
              LET file == req[h].op.file IN
              \A i \in DOMAIN file :
                  /\ "proxy" \in DOMAIN file[i] /\ Final(file, i, "proxy") =>
                        \E p \in Named(file[i].proxy) : proxies[p].url = file[i].url
                  /\ "account" \in DOMAIN file[i] /\ Final(file, i, "account") =>
                        \E a \in AccountNamed(file[i].account) :
                            /\ accounts[a].enabled = file[i].enabled
                            /\ IF Named(file[i].via) = {} THEN accounts[a].link = NoProxy
                               ELSE accounts[a].link \in Named(file[i].via)]_vars
    BY <1>1 DEF ProxyFiled, AccountFiled, Linked
  <1>3. QED
    BY <1>2, AllFiledAlways, PTL DEF ImportedAsFiled, Spec

=============================================================================
