---------------------------- MODULE Vault_proofs ----------------------------
(* Proofs about Vault: types, and that the password, the persisted key and   *)
(* the key in memory open every secret but for the accidents the history     *)
(* names, whatever overlaps, fails or is cut short.                          *)
EXTENDS Vault, TLAPS

\* A step that puts a well-formed job in place of one keeps the types.
LEMMA JobReplaced ==
    ASSUME TypeOK, NEW a \in Admin, NEW j \in Job,
           j.pc \in KeyPC => j.key > 0, j.pc \in RowPC => j.row \in Row,
           job' = [job EXCEPT ![a] = j],
           hash' \in Key, stored' \in Key, master' \in Key, made' \in Key,
           secret' \in [Row -> Key], cookie' \in [Account -> Key],
           astray' \in SUBSET Place, strays' \in SUBSET Row
    PROVE  TypeOK'
  BY DEF TypeOK

LEMMA IdleJob == Idle \in Job /\ Idle.pc \notin KeyPC \cup RowPC
  BY BoundAssumption DEF Idle, Job, Key, KeyPC, RowPC

LEMMA NextHash ==
    ASSUME TypeOK, HashPassword
    PROVE  made' \in Key /\ made + 1 \in Key /\ made + 1 > 0
  BY BoundAssumption DEF TypeOK, HashPassword, Key

LEMMA BehindPlaces ==
    /\ \A k : Behind(k) \in SUBSET Place
    /\ \A a : LeftBy(a) \in SUBSET Place
  <1>1. \A k : Behind(k) \in SUBSET Place
    BY DEF Behind, Place
  <1>2. QED
    BY <1>1 DEF LeftBy

LEMMA HistoryTyped ==
    ASSUME TypeOK, NEW a, NEW p \in Place, Takes(p, a)
    PROVE  astray' \in SUBSET Place
  BY DEF TypeOK, Takes

LEMMA KeyHandlersKeepTypes ==
    ASSUME TypeOK, NEW a \in Admin, ChangeKeys(a)
    PROVE  TypeOK'
  <1>j. job[a] \in Job /\ \A k : Outdated(k) \in BOOLEAN
    BY DEF TypeOK, Outdated
  <1>1. CASE Setup(a)
    <2> DEFINE j == [Idle EXCEPT !.pc = "hash", !.key = made + 1]
    <2>1. j \in Job /\ j.pc = "hash" /\ j.key > 0
      BY <1>1, NextHash, IdleJob DEF Setup, Job
    <2>2. job' = [job EXCEPT ![a] = j]
      BY <1>1 DEF Setup, Begin
    <2> HIDE DEF j
    <2>3. QED
      BY <1>1, <2>1, <2>2, NextHash, JobReplaced DEF Setup, rowVars, lost, TypeOK, KeyPC, RowPC
  <1>2. CASE Login(a)
    <2> DEFINE j == [Idle EXCEPT !.pc = "store", !.key = hash, !.stale = Outdated(hash)]
    <2>1. j \in Job /\ j.pc = "store" /\ j.key > 0
      BY <1>2, <1>j, IdleJob DEF Login, Job, TypeOK
    <2>2. job' = [job EXCEPT ![a] = j]
      BY <1>2 DEF Login, Begin
    <2> HIDE DEF j
    <2>3. QED
      BY <1>2, <2>1, <2>2, JobReplaced DEF Login, keyVars, rowVars, lost, TypeOK, KeyPC, RowPC
  <1>3. CASE ChangePassword(a)
    <2> DEFINE j == [Idle EXCEPT !.pc = "rotate", !.old = hash, !.key = made + 1,
                                 !.stale = Outdated(hash)]
    <2>1. j \in Job /\ j.pc = "rotate" /\ j.key > 0
      BY <1>3, <1>j, NextHash, IdleJob DEF ChangePassword, Job, TypeOK
    <2>2. job' = [job EXCEPT ![a] = j]
      BY <1>3 DEF ChangePassword, Begin
    <2> HIDE DEF j
    <2>3. QED
      BY <1>3, <2>1, <2>2, NextHash, JobReplaced
         DEF ChangePassword, rowVars, lost, TypeOK, KeyPC, RowPC
  <1>4. CASE Reencrypt(a)
    <2>1. CASE Overtake(a) /\ secret' = [r \in Row |-> IF secret[r] = 0 THEN 0 ELSE job[a].key]
      <3>1. secret' \in [Row -> Key] /\ UNCHANGED <<keyVars, cookie>>
        BY <1>4, <1>j, <2>1 DEF Reencrypt, TypeOK, Job
      <3>2. ASSUME NEW b \in Admin
            PROVE  /\ job'[b] \in Job
                   /\ job'[b].pc \in KeyPC => job'[b].key > 0
                   /\ job'[b].pc \in RowPC => job'[b].row \in Row
        <4>1. job[b] \in Job
          BY DEF TypeOK
        <4>2. CASE b = a
          <5>1. job'[b] = [job[a] EXCEPT !.pc = "hash"]
            BY <2>1, <4>2 DEF Overtake
          <5>2. job[a].key > 0
            BY <1>4 DEF Reencrypt, TypeOK, KeyPC
          <5>3. QED
            BY <1>j, <5>1, <5>2 DEF Job, KeyPC, RowPC
        <4>3. CASE b # a /\ job[b].pc = "idle"
          BY <2>1, <4>1, <4>3 DEF Overtake, TypeOK
        <4>4. CASE b # a /\ job[b].pc # "idle"
          <5>1. job'[b] = [job[b] EXCEPT !.stale = TRUE]
            BY <2>1, <4>4 DEF Overtake
          <5>2. job'[b] \in Job /\ job'[b].pc = job[b].pc /\ job'[b].key = job[b].key
                /\ job'[b].row = job[b].row
            BY <4>1, <5>1 DEF Job
          <5>3. QED
            BY <5>2 DEF TypeOK
        <4>5. QED
          BY <4>2, <4>3, <4>4
      <3>3. job' \in [Admin -> Job]
        BY <2>1, <3>2 DEF Overtake
      <3>4. astray' \in SUBSET Place /\ strays' \in SUBSET Row
        BY <2>1 DEF Overtake, TypeOK
      <3>5. QED
        BY <3>1, <3>2, <3>3, <3>4 DEF TypeOK, keyVars
    <2>2. CASE End(a) /\ UNCHANGED <<secret, lost>>
      BY <1>4, <2>2, IdleJob, JobReplaced DEF End, Reencrypt, keyVars, lost, TypeOK
    <2>3. QED
      BY <1>4, <2>1, <2>2 DEF Reencrypt
  <1>5. CASE SaveHash(a)
    <2> DEFINE j == [job[a] EXCEPT !.pc = "store"]
    <2>1. j \in Job /\ j.pc = "store" /\ j.key > 0
      BY <1>j, <1>5 DEF Job, SaveHash, TypeOK, KeyPC
    <2>2. job' = [job EXCEPT ![a] = j] /\ hash' \in Key
      BY <1>5, <1>j DEF SaveHash, Goto, Job
    <2>3. astray' \in SUBSET Place
      BY <1>5 DEF SaveHash, TypeOK
    <2> HIDE DEF j
    <2>4. QED
      BY <1>5, <2>1, <2>2, <2>3, JobReplaced DEF SaveHash, rowVars, TypeOK, KeyPC, RowPC
  <1>6. CASE SaveKey(a)
    <2> DEFINE j == [job[a] EXCEPT !.pc = "install"]
    <2>1. j \in Job /\ j.pc = "install" /\ j.key > 0
      BY <1>j, <1>6 DEF Job, SaveKey, TypeOK, KeyPC
    <2>2. job' = [job EXCEPT ![a] = j] /\ stored' \in Key
      BY <1>6, <1>j DEF SaveKey, Goto, Job
    <2>3. astray' \in SUBSET Place
      BY <1>6, HistoryTyped DEF SaveKey, Place
    <2> HIDE DEF j
    <2>4. QED
      BY <1>6, <2>1, <2>2, <2>3, JobReplaced DEF SaveKey, rowVars, TypeOK, KeyPC, RowPC
  <1>7. CASE Install(a)
    <2>1. master' \in Key
      BY <1>7, <1>j DEF Install, Job
    <2>2. astray' \in SUBSET Place
      BY <1>7, HistoryTyped DEF Install, Place
    <2>3. QED
      BY <1>7, <2>1, <2>2, IdleJob, JobReplaced DEF Install, End, rowVars, TypeOK
  <1>8. QED
    BY <1>1, <1>2, <1>3, <1>4, <1>5, <1>6, <1>7 DEF ChangeKeys

LEMMA RowHandlersKeepTypes ==
    ASSUME TypeOK, NEW a \in Admin, WriteSecret(a)
    PROVE  TypeOK'
  <1>j. job[a] \in Job /\ Account \subseteq Row
    BY DEF TypeOK, Row
  <1>s. MasterStale \in BOOLEAN
    BY DEF MasterStale, Outdated
  <1>1. ASSUME NEW r \in Row, Encrypt(a, r) \/ EncryptForCookie(a, r)
        PROVE  TypeOK'
    <2> DEFINE j(p) == [Idle EXCEPT !.pc = p, !.row = r, !.key = master,
                                    !.stale = MasterStale]
    <2>1. \A p \in {"put", "cookie"} :
             j(p) \in Job /\ j(p).pc = p /\ j(p).row = r
      BY <1>s, IdleJob DEF Job, TypeOK
    <2>2. PICK p \in {"put", "cookie"} : job' = [job EXCEPT ![a] = j(p)]
      BY <1>1 DEF Encrypt, EncryptForCookie, Begin
    <2>3. UNCHANGED <<keyVars, rowVars, lost>>
      BY <1>1 DEF Encrypt, EncryptForCookie
    <2> HIDE DEF j
    <2>4. QED
      BY <2>1, <2>2, <2>3, JobReplaced DEF keyVars, rowVars, lost, TypeOK, KeyPC, RowPC
  <1>2. ASSUME NEW r \in Row, NEW replace \in BOOLEAN, ReadForUpdate(a, r, replace)
        PROVE  TypeOK'
    <2> DEFINE j == [Idle EXCEPT !.pc = "update", !.row = r,
                        !.key = IF replace THEN master ELSE secret[r],
                        !.stale = IF replace THEN MasterStale ELSE r \in strays]
    <2>k. /\ (IF replace THEN master ELSE secret[r]) \in Key
          /\ (IF replace THEN MasterStale ELSE r \in strays) \in BOOLEAN
      <3>1. CASE replace
        BY <1>s, <3>1 DEF TypeOK
      <3>2. CASE ~replace
        BY <3>2 DEF TypeOK
      <3>3. QED
        BY <3>1, <3>2
    <2>1. j \in Job /\ j.pc = "update" /\ j.row = r
      BY <2>k, IdleJob DEF Job
    <2>2. job' = [job EXCEPT ![a] = j]
      BY <1>2 DEF ReadForUpdate, Begin
    <2> HIDE DEF j
    <2>3. QED
      BY <1>2, <2>1, <2>2, JobReplaced
         DEF ReadForUpdate, keyVars, rowVars, lost, TypeOK, KeyPC, RowPC
  <1>3. CASE EncryptCookie(a)
    <2> DEFINE j == [job[a] EXCEPT !.pc = "put", !.second = master]
    <2>1. j \in Job /\ j.pc = "put" /\ j.row \in Row
      BY <1>3, <1>j DEF EncryptCookie, Job, TypeOK, RowPC
    <2>2. job' = [job EXCEPT ![a] = j]
      BY <1>3 DEF EncryptCookie
    <2> HIDE DEF j
    <2>3. QED
      BY <1>3, <2>1, <2>2, JobReplaced
         DEF EncryptCookie, keyVars, rowVars, lost, TypeOK, KeyPC, RowPC
  <1>4. CASE Put(a)
    <2>1. secret' \in [Row -> Key] /\ cookie' \in [Account -> Key]
      BY <1>4, <1>j DEF Put, Job, TypeOK
    <2>2. strays' \in SUBSET Row
      BY <1>4 DEF Put, Strays, TypeOK, RowPC
    <2>3. QED
      BY <1>4, <2>1, <2>2, IdleJob, JobReplaced DEF Put, End, keyVars, TypeOK
  <1>5. CASE WriteUpdate(a)
    <2>1. secret' \in [Row -> Key]
      BY <1>5, <1>j DEF WriteUpdate, Job, TypeOK
    <2>2. strays' \in SUBSET Row
      BY <1>5 DEF WriteUpdate, Strays, TypeOK, RowPC
    <2>3. QED
      BY <1>5, <2>1, <2>2, IdleJob, JobReplaced DEF WriteUpdate, End, keyVars, TypeOK
  <1>6. QED
    BY <1>1, <1>2, <1>3, <1>4, <1>5 DEF WriteSecret

\* Every variable keeps its type, and a handler about to save a key or to write
\* a row has one (auth.rs and the handlers of routes/keys.rs, proxies.rs).
THEOREM VaultTypeCorrect == Spec => []TypeOK
  <1>1. Init => TypeOK
    <2> SUFFICES ASSUME Init PROVE TypeOK
      OBVIOUS
    <2>1. hash \in Key /\ made \in Key /\ stored \in Key /\ master \in Key
      BY BoundAssumption DEF Init, Key
    <2>2. secret \in [Row -> Key] /\ cookie \in [Account -> Key]
      BY BoundAssumption DEF Init, Key
    <2>3. QED
      BY <2>1, <2>2, IdleJob DEF Init, TypeOK
  <1>2. TypeOK /\ [Next]_vars => TypeOK'
    <2> SUFFICES ASSUME TypeOK, [Next]_vars PROVE TypeOK'
      OBVIOUS
    <2>1. ASSUME NEW a \in Admin, Drop(a) PROVE TypeOK'
      <3>1. astray' \in SUBSET Place
        BY <2>1, BehindPlaces DEF Drop, TypeOK
      <3>2. QED
        BY <2>1, <3>1, IdleJob, JobReplaced DEF Drop, End, keyVars, rowVars, TypeOK
    <2>2. ASSUME NEW r \in Row, Delete(r) PROVE TypeOK'
      <3>1. secret' \in [Row -> Key] /\ cookie' \in [Account -> Key]
        BY <2>2, BoundAssumption DEF Delete, TypeOK, Key
      <3>2. strays' \in SUBSET Row
        BY <2>2 DEF Delete, TypeOK
      <3>3. QED
        BY <2>2, <3>1, <3>2 DEF Delete, keyVars, TypeOK
    <2>3. CASE Restart
      <3>1. job' = [b \in Admin |-> Idle] /\ master' \in Key
        BY <2>3 DEF Restart, TypeOK
      <3>2. astray' \in SUBSET Place
        <4>1. UNION {LeftBy(b) : b \in Admin} \subseteq Place
          BY BehindPlaces
        <4>2. QED
          BY <2>3, <4>1 DEF Restart, TypeOK, Place
      <3>3. QED
        BY <2>3, <3>1, <3>2, IdleJob DEF Restart, rowVars, TypeOK
    <2>4. CASE UNCHANGED vars
      BY <2>4 DEF vars, TypeOK
    <2>5. QED
      BY <2>1, <2>2, <2>3, <2>4, KeyHandlersKeepTypes, RowHandlersKeepTypes DEF Next
  <1>3. QED
    BY <1>1, <1>2, PTL DEF Spec

-----------------------------------------------------------------------------
(* The three keys. *)

\* k is the key the secrets are under: the one a change has brought in, or else
\* the key of the hash.
Current(k) ==
    /\ \A b \in Admin : Rotated(b) => k = job[b].key
    /\ (\A b \in Admin : ~Rotated(b)) => k = hash

\* One change at a time counts, the hash follows its re-encryption, and what is
\* changed has been set once.
OneChange == \A a, b \in Admin : Rotated(a) /\ Rotated(b) => a = b
HashFollows == \A a \in Admin :
    /\ Rotated(a) /\ job[a].pc # "hash" => hash = job[a].key
    /\ job[a].old > 0 => hash > 0
    /\ job[a].pc = "rotate" => job[a].old > 0

\* The two other places hold its key too, or nothing yet, outside a change.
StoredFollows ==
    "stored" \notin astray /\ (\A a \in Admin : ~Exposed(a)) => stored \in {0, hash}
MasterFollows ==
    "master" \notin astray /\ (\A a \in Admin : ~Rotated(a)) => master \in {0, hash}

\* So does every handler about to save, install or write under a key, unless a
\* change has overtaken it.
Bears(j) == ~j.stale /\ (j.pc \in RowPC \/ (j.old = 0 /\ j.pc \in {"store", "install"}))
HandlersCurrent == \A a \in Admin : Bears(job[a]) => Current(job[a].key) /\ job[a].key > 0

KeyChain ==
    /\ OneChange
    /\ \A k \in Key : Current(k) => SecretsUnder(k)
    /\ HashFollows /\ StoredFollows /\ MasterFollows /\ HandlersCurrent
KeysKnown == "hash" \notin astray => KeyChain

\* The current key is one and only one.
LEMMA CurrentIs ==
    ASSUME TypeOK, OneChange
    PROVE  /\ \E k \in Key : Current(k)
           /\ \A k, l : Current(k) /\ Current(l) => k = l
  <1>1. CASE \A b \in Admin : ~Rotated(b)
    BY <1>1 DEF Current, TypeOK
  <1>2. ASSUME NEW b \in Admin, Rotated(b)
        PROVE  /\ \E k \in Key : Current(k)
               /\ \A k, l : Current(k) /\ Current(l) => k = l
    <2>1. job[b].key \in Key
      BY DEF TypeOK, Job
    <2>2. Current(job[b].key)
      BY <1>2 DEF OneChange, Current
    <2>3. \A k : Current(k) => k = job[b].key
      BY <1>2 DEF Current
    <2>4. QED
      BY <2>1, <2>2, <2>3
  <1>3. QED
    BY <1>1, <1>2

\* While a change is on, its key is the current one.
LEMMA ChangeIsCurrent ==
    ASSUME OneChange, NEW a \in Admin, Rotated(a)
    PROVE  \A k : Current(k) <=> k = job[a].key
  BY DEF OneChange, Current

\* Past the save of the hash, and without a change, the current key is the hash's.
LEMMA HashIsCurrent ==
    ASSUME HashFollows, \A b \in Admin : ~AtHash(b), NEW k, Current(k)
    PROVE  k = hash
  BY DEF HashFollows, AtHash, Current

\* A step of a handler that is no change, and becomes none, leaves the change.
LEMMA SameChange ==
    ASSUME TypeOK, NEW a \in Admin, NEW j, job' = [job EXCEPT ![a] = j],
           ~Rotated(a), j.pc \notin {"hash", "store", "install"} \/ j.old = 0 \/ j.stale,
           j.stale \in BOOLEAN, hash' = hash
    PROVE  /\ \A b \in Admin : Rotated(b)' <=> Rotated(b)
           /\ \A b \in Admin : Rotated(b) => job'[b] = job[b]
           /\ \A k : Current(k)' <=> Current(k)
           /\ \A b \in Admin : Exposed(b)' <=> Exposed(b)
  <1>1. job'[a] = j /\ \A b \in Admin : b # a => job'[b] = job[b]
    BY DEF TypeOK
  <1>2. ~Rotated(a)'
    BY <1>1 DEF Rotated, Changing, KeyPC
  <1>3. \A b \in Admin : b # a => (Rotated(b)' <=> Rotated(b))
    BY <1>1 DEF Rotated, Changing
  <1>4. \A b \in Admin : Rotated(b)' <=> Rotated(b)
    BY <1>2, <1>3
  <1>5. \A b \in Admin : Rotated(b) => job'[b] = job[b]
    BY <1>1
  <1>6. \A k : Current(k)' <=> Current(k)
    BY <1>4, <1>5 DEF Current
  <1>7. \A b \in Admin : Exposed(b)' <=> Exposed(b)
    BY <1>4, <1>5 DEF Exposed
  <1>8. QED
    BY <1>4, <1>5, <1>6, <1>7

\* Such a step keeps the chain if what it writes is right.
LEMMA QuietStep ==
    ASSUME TypeOK, KeyChain, NEW a \in Admin, NEW j, job' = [job EXCEPT ![a] = j],
           ~Rotated(a), j.pc \notin {"hash", "store", "install"} \/ j.old = 0 \/ j.stale,
           j.stale \in BOOLEAN, hash' = hash,
           j.old > 0 => hash > 0, j.pc = "rotate" => j.old > 0,
           \A k \in Key : Current(k) => SecretsUnder(k)',
           "stored" \notin astray' /\ (\A b \in Admin : ~Exposed(b)) => stored' \in {0, hash},
           "master" \notin astray' /\ (\A b \in Admin : ~Rotated(b)) => master' \in {0, hash},
           Bears(j) => Current(j.key) /\ j.key > 0
    PROVE  KeyChain'
  <1>1. job'[a] = j /\ \A b \in Admin : b # a => job'[b] = job[b]
    BY DEF TypeOK
  <1>2. /\ \A b \in Admin : Rotated(b)' <=> Rotated(b)
        /\ \A b \in Admin : Rotated(b) => job'[b] = job[b]
        /\ \A k : Current(k)' <=> Current(k)
        /\ \A b \in Admin : Exposed(b)' <=> Exposed(b)
    BY SameChange
  <1>3. OneChange'
    BY <1>2 DEF OneChange, KeyChain
  <1>4. \A k \in Key : Current(k)' => SecretsUnder(k)'
    BY <1>2
  <1>5. HashFollows'
    <2> SUFFICES ASSUME NEW b \in Admin
                 PROVE  /\ Rotated(b)' /\ job'[b].pc # "hash" => hash' = job'[b].key
                        /\ job'[b].old > 0 => hash' > 0
                        /\ job'[b].pc = "rotate" => job'[b].old > 0
      BY DEF HashFollows
    <2>1. Rotated(b)' /\ job'[b].pc # "hash" => hash' = job'[b].key
      BY <1>2 DEF HashFollows, KeyChain
    <2>2. QED
      BY <1>1, <2>1 DEF HashFollows, KeyChain
  <1>6. StoredFollows' /\ MasterFollows'
    BY <1>2 DEF StoredFollows, MasterFollows
  <1>7. HandlersCurrent'
    BY <1>1, <1>2 DEF HandlersCurrent, KeyChain
  <1>8. QED
    BY <1>3, <1>4, <1>5, <1>6, <1>7 DEF KeyChain

\* Nor does it if no key is written, and the history of the places stays.
LEMMA SameKeys ==
    ASSUME KeyChain, astray' = astray, stored' = stored, master' = master
    PROVE  /\ "stored" \notin astray' /\ (\A b \in Admin : ~Exposed(b)) => stored' \in {0, hash}
           /\ "master" \notin astray' /\ (\A b \in Admin : ~Rotated(b)) => master' \in {0, hash}
  BY DEF KeyChain, StoredFollows, MasterFollows

LEMMA SameSecrets ==
    ASSUME KeyChain, UNCHANGED <<secret, strays>>
    PROVE  \A k \in Key : Current(k) => SecretsUnder(k)'
  BY DEF KeyChain, SecretsUnder

\* The end of a change whose key the hash has.
LEMMA ChangeEnds ==
    ASSUME TypeOK, KeyChain, NEW a \in Admin, Rotated(a), hash = job[a].key,
           job' = [job EXCEPT ![a] = Idle], hash' = hash,
           UNCHANGED <<secret, strays>>,
           "stored" \notin astray' => stored' \in {0, hash},
           "master" \notin astray' => master' \in {0, hash}
    PROVE  KeyChain'
  <1>1. job'[a] = Idle /\ \A b \in Admin : b # a => job'[b] = job[b]
    BY DEF TypeOK
  <1>2. \A b \in Admin : ~Rotated(b)'
    BY <1>1 DEF KeyChain, OneChange, Rotated, Changing, Idle, KeyPC
  <1>3. \A k : Current(k)' <=> Current(k)
    BY <1>2, ChangeIsCurrent DEF Current, KeyChain
  <1>4. OneChange' /\ StoredFollows' /\ MasterFollows'
    BY <1>2 DEF OneChange, StoredFollows, MasterFollows
  <1>5. HashFollows'
    BY <1>1, <1>2 DEF HashFollows, KeyChain, Idle
  <1>6. HandlersCurrent'
    BY <1>1, <1>3 DEF HandlersCurrent, KeyChain, Bears, Idle, RowPC
  <1>7. \A k \in Key : Current(k)' => SecretsUnder(k)'
    BY <1>3, SameSecrets
  <1>8. QED
    BY <1>4, <1>5, <1>6, <1>7 DEF KeyChain

LEMMA IdleIs ==
    /\ Idle.pc = "idle" /\ Idle.old = 0 /\ Idle.key = 0 /\ Idle.stale = FALSE
    /\ Idle.second = 0 /\ Idle.stale \in BOOLEAN /\ ~(Idle.old > 0)
    /\ ~Bears(Idle) /\ Idle.pc \notin {"hash", "store", "install", "rotate"}
  BY DEF Idle, Bears, RowPC

LEMMA IdleKeeps ==
    ASSUME NEW a \in Admin, job[a].pc \notin {"hash", "store", "install"}
    PROVE  ~Rotated(a)
  BY DEF Rotated, Changing, KeyPC

\* An up-to-date login or writer has the current key.
LEMMA FreshHash ==
    ASSUME ~Outdated(hash)
    PROVE  Current(hash)
  BY DEF Outdated, Current

LEMMA FreshMaster ==
    ASSUME TypeOK, KeyChain, ~MasterStale, master > 0
    PROVE  Current(master)
  <1>1. CASE \A b \in Admin : ~Rotated(b)
    <2>1. master = hash
      BY <1>1 DEF MasterStale, KeyChain, MasterFollows
    <2>2. QED
      BY <1>1, <2>1 DEF Current
  <1>2. CASE \E b \in Admin : Rotated(b)
    BY <1>2 DEF MasterStale, Outdated, Current
  <1>3. QED
    BY <1>1, <1>2

-----------------------------------------------------------------------------
(* The handlers that set keys. *)

LEMMA BeginningsKeepChain ==
    ASSUME TypeOK, KeyChain, NEW a \in Admin, Setup(a) \/ Login(a) \/ ChangePassword(a)
    PROVE  KeyChain'
  <1>0. ~Rotated(a) /\ Outdated(hash) \in BOOLEAN
    BY IdleKeeps DEF Setup, Login, ChangePassword, Begin, Outdated
  <1>1. UNCHANGED <<hash, stored, master, secret, strays, astray>>
    BY DEF Setup, Login, ChangePassword, keyVars, rowVars, lost
  <1>2. PICK j : /\ job' = [job EXCEPT ![a] = j]
                 /\ j.pc \notin {"hash", "store", "install"} \/ j.old = 0 \/ j.stale
                 /\ j.stale \in BOOLEAN
                 /\ j.old > 0 => hash > 0
                 /\ j.pc = "rotate" => j.old > 0
                 /\ Bears(j) => Current(j.key) /\ j.key > 0
    <2>1. CASE Setup(a)
      <3> DEFINE j == [Idle EXCEPT !.pc = "hash", !.key = made + 1]
      <3>1. job' = [job EXCEPT ![a] = j]
        BY <2>1 DEF Setup, Begin
      <3>2. j.pc = "hash" /\ j.old = 0 /\ ~(j.old > 0) /\ j.stale = FALSE /\ j.stale \in BOOLEAN
        BY DEF Idle
      <3>3. ~Bears(j)
        BY <3>2 DEF Bears, RowPC
      <3> HIDE DEF j
      <3>4. QED
        BY <3>1, <3>2, <3>3
    <2>2. CASE Login(a)
      <3> DEFINE j == [Idle EXCEPT !.pc = "store", !.key = hash, !.stale = Outdated(hash)]
      <3>1. job' = [job EXCEPT ![a] = j] /\ hash > 0
        BY <2>2 DEF Login, Begin
      <3>2. j.pc = "store" /\ j.old = 0 /\ j.stale = Outdated(hash) /\ j.key = hash
        BY DEF Idle
      <3>3. Bears(j) => Current(hash)
        BY <3>2, FreshHash DEF Bears
      <3> HIDE DEF j
      <3>4. QED
        BY <1>0, <3>1, <3>2, <3>3
    <2>3. CASE ChangePassword(a)
      <3> DEFINE j == [Idle EXCEPT !.pc = "rotate", !.old = hash, !.key = made + 1,
                                   !.stale = Outdated(hash)]
      <3>1. job' = [job EXCEPT ![a] = j] /\ hash > 0
        BY <2>3 DEF ChangePassword, Begin
      <3>2. j.pc = "rotate" /\ j.old = hash /\ j.stale = Outdated(hash)
        BY DEF Idle
      <3>3. ~Bears(j)
        BY <3>2 DEF Bears, RowPC
      <3> HIDE DEF j
      <3>4. QED
        BY <1>0, <3>1, <3>2, <3>3
    <2>4. QED
      BY <2>1, <2>2, <2>3
  <1>3. \A k \in Key : Current(k) => SecretsUnder(k)'
    BY <1>1, SameSecrets
  <1>4. QED
    BY <1>0, <1>1, <1>2, <1>3, SameKeys, QuietStep

LEMMA ReencryptKeepsChain ==
    ASSUME TypeOK, KeyChain, NEW a \in Admin, Reencrypt(a), "hash" \notin astray'
    PROVE  KeyChain'
  <1>1. CASE End(a) /\ UNCHANGED <<secret, lost>>
    <2>1. ~Rotated(a)
      BY IdleKeeps DEF Reencrypt
    <2>2. UNCHANGED <<hash, stored, master, secret, strays, astray>>
      BY <1>1 DEF Reencrypt, keyVars, lost
    <2>3. \A k \in Key : Current(k) => SecretsUnder(k)'
      BY <2>2, SameSecrets
    <2>4. QED
      BY <1>1, <2>1, <2>2, <2>3, IdleIs, SameKeys, QuietStep DEF End
  <1>2. CASE Overtake(a) /\ secret' = [r \in Row |-> IF secret[r] = 0 THEN 0 ELSE job[a].key]
    <2>1. ~job[a].stale /\ strays' = {} /\ hash' = hash
      BY <1>2 DEF Overtake, Reencrypt, Place, keyVars
    <2>2. /\ job'[a].pc = "hash" /\ job'[a].old = job[a].old /\ job'[a].key = job[a].key
          /\ ~job'[a].stale
      BY <1>2, <2>1 DEF Overtake, TypeOK, Job
    <2>3. \A b \in Admin : b # a =>
             /\ job'[b].pc = "idle" \/ job'[b].stale
             /\ job'[b].pc = job[b].pc /\ job'[b].old = job[b].old
      BY <1>2 DEF Overtake, TypeOK, Job
    <2>4. Rotated(a)' /\ \A b \in Admin : b # a => ~Rotated(b)'
      <3>1. job[a].old > 0
        BY DEF Reencrypt, KeyChain, HashFollows
      <3>2. QED
        BY <2>2, <2>3, <3>1 DEF Rotated, Changing, KeyPC
    <2>5. OneChange' /\ StoredFollows' /\ MasterFollows'
      BY <2>2, <2>4 DEF OneChange, StoredFollows, MasterFollows, Exposed
    <2>6. HashFollows'
      <3>1. \A b \in Admin : Rotated(b)' => job'[b].pc = "hash"
        BY <2>2, <2>4
      <3>2. \A b \in Admin : job'[b].old > 0 => hash' > 0
        BY <2>1, <2>2, <2>3 DEF KeyChain, HashFollows
      <3>3. \A b \in Admin : job'[b].pc = "rotate" => job'[b].old > 0
        BY <2>2, <2>3 DEF KeyChain, HashFollows
      <3>4. QED
        BY <3>1, <3>2, <3>3 DEF HashFollows
    <2>7. HandlersCurrent'
      <3>1. job[a].old > 0
        BY DEF Reencrypt, KeyChain, HashFollows
      <3>2. \A b \in Admin : ~Bears(job'[b])
        BY <2>2, <2>3, <3>1 DEF Bears, RowPC
      <3>3. QED
        BY <3>2 DEF HandlersCurrent
    <2>8. \A k \in Key : Current(k)' => SecretsUnder(k)'
      <3>1. \A k : Current(k)' => k = job[a].key
        BY <2>2, <2>4 DEF Current
      <3>2. \A r \in Row : secret'[r] \in {0, job[a].key}
        BY <1>2
      <3>3. QED
        BY <3>1, <3>2 DEF SecretsUnder
    <2>9. QED
      BY <2>5, <2>6, <2>7, <2>8 DEF KeyChain
  <1>3. QED
    BY <1>1, <1>2 DEF Reencrypt

LEMMA SaveHashKeepsChain ==
    ASSUME TypeOK, KeyChain, NEW a \in Admin, SaveHash(a), "hash" \notin astray'
    PROVE  KeyChain'
  <1>k. job[a].key > 0 /\ job[a].key \in Key /\ job[a].old \in Key /\ hash \in Key
    BY DEF SaveHash, TypeOK, KeyPC, Job
  <1>0. /\ ~job[a].stale /\ (job[a].old = 0 => ~(hash > 0)) /\ astray' = astray
        /\ hash' = job[a].key /\ UNCHANGED <<stored, master, secret, strays>>
    BY DEF SaveHash, Place, rowVars
  <1>1. /\ job'[a].pc = "store" /\ job'[a].old = job[a].old /\ job'[a].key = job[a].key
        /\ ~job'[a].stale /\ \A b \in Admin : b # a => job'[b] = job[b]
    BY <1>0 DEF SaveHash, Goto, TypeOK, Job
  <1>2. CASE job[a].old = 0
    <2>1. hash = 0
      BY <1>0, <1>k, <1>2 DEF Key
    <2>2. \A b \in Admin : job[b].old = 0
      BY <2>1 DEF KeyChain, HashFollows, TypeOK, Job, Key
    <2>3. \A b \in Admin : ~Rotated(b) /\ ~Rotated(b)'
      BY <1>1, <2>2 DEF Rotated, Changing
    <2>4. Current(0) /\ \A k : Current(k)' <=> k = job[a].key
      BY <1>0, <2>1, <2>3 DEF Current
    <2>5. \A r \in Row \ strays : secret[r] = 0
      BY <1>k, <2>1, <2>4 DEF KeyChain, SecretsUnder
    <2>6. \A k \in Key : Current(k)' => SecretsUnder(k)'
      BY <1>0, <2>5 DEF SecretsUnder
    <2>7. OneChange'
      BY <2>3 DEF OneChange
    <2>8. HashFollows'
      BY <1>1, <2>2, <2>3 DEF HashFollows, KeyChain
    <2>9. StoredFollows' /\ MasterFollows'
      <3>1. \A b \in Admin : ~Exposed(b)
        BY <2>3 DEF Exposed
      <3>2. QED
        BY <1>0, <2>1, <2>3, <3>1 DEF KeyChain, StoredFollows, MasterFollows
    <2>10. HandlersCurrent'
      <3>1. \A b \in Admin : ~Bears(job[b])
        BY <2>1, <2>3 DEF KeyChain, HandlersCurrent, Current
      <3>2. QED
        BY <1>k, <1>1, <2>4, <3>1 DEF HandlersCurrent
    <2>11. QED
      BY <2>6, <2>7, <2>8, <2>9, <2>10 DEF KeyChain
  <1>3. CASE job[a].old > 0
    <2>1. Rotated(a) /\ Rotated(a)'
      BY <1>0, <1>1, <1>3 DEF SaveHash, Rotated, Changing, KeyPC
    <2>2. \A b \in Admin : b # a => ~Rotated(b) /\ ~Rotated(b)'
      BY <1>1, <2>1 DEF KeyChain, OneChange, Rotated, Changing
    <2>3. \A k : Current(k)' <=> Current(k)
      BY <1>1, <2>1, <2>2 DEF Current
    <2>4. OneChange' /\ StoredFollows' /\ MasterFollows'
      BY <1>1, <2>1, <2>2 DEF OneChange, StoredFollows, MasterFollows, Exposed
    <2>5. HashFollows'
      BY <1>k, <1>0, <1>1, <2>2 DEF HashFollows, KeyChain
    <2>6. HandlersCurrent'
      BY <1>1, <1>3, <2>3 DEF HandlersCurrent, KeyChain, Bears, RowPC
    <2>7. \A k \in Key : Current(k)' => SecretsUnder(k)'
      BY <1>0, <2>3 DEF KeyChain, SecretsUnder
    <2>8. QED
      BY <2>4, <2>5, <2>6, <2>7 DEF KeyChain
  <1>4. QED
    BY <1>k, <1>2, <1>3 DEF Key

LEMMA SaveKeyKeepsChain ==
    ASSUME TypeOK, KeyChain, NEW a \in Admin, SaveKey(a)
    PROVE  KeyChain'
  <1> DEFINE j == [job[a] EXCEPT !.pc = "install"]
  <1>0. /\ job' = [job EXCEPT ![a] = j] /\ stored' = job[a].key /\ Takes("stored", a)
        /\ job[a].pc = "store" /\ UNCHANGED <<hash, master, secret, strays>>
    BY DEF SaveKey, Goto, rowVars
  <1>1. /\ j.pc = "install" /\ j.old = job[a].old /\ j.key = job[a].key
        /\ j.stale = job[a].stale /\ j.stale \in BOOLEAN
        /\ job[a].old \in Key /\ Bears(j) = Bears(job[a])
    BY <1>0 DEF TypeOK, Job, Bears, RowPC
  <1> HIDE DEF j
  <1>2. \A k \in Key : Current(k) => SecretsUnder(k)'
    BY <1>0, SameSecrets
  <1>3. astray' \ {"stored"} = astray \ {"stored"} /\ ("stored" \in astray' <=> job[a].stale)
    BY <1>0, <1>1 DEF Takes
  <1>4. CASE Rotated(a)
    <2>1. job'[a] = j /\ \A b \in Admin : b # a => job'[b] = job[b]
      BY <1>0 DEF TypeOK
    <2>2. Rotated(a)' /\ \A b \in Admin : b # a => ~Rotated(b) /\ ~Rotated(b)'
      BY <1>1, <1>4, <2>1 DEF KeyChain, OneChange, Rotated, Changing, KeyPC
    <2>3. \A k : Current(k)' <=> Current(k)
      BY <1>1, <1>4, <2>1, <2>2 DEF Current
    <2>4. OneChange' /\ MasterFollows'
      BY <2>2 DEF OneChange, MasterFollows
    <2>5. hash = job[a].key
      BY <1>0, <1>4 DEF KeyChain, HashFollows
    <2>6. StoredFollows'
      BY <1>0, <2>5 DEF StoredFollows
    <2>7. HashFollows'
      BY <1>0, <1>1, <2>1, <2>2, <2>5 DEF HashFollows, KeyChain
    <2>8. HandlersCurrent'
      BY <1>1, <2>1, <2>3 DEF HandlersCurrent, KeyChain
    <2>9. QED
      BY <1>2, <2>3, <2>4, <2>6, <2>7, <2>8 DEF KeyChain
  <1>5. CASE ~Rotated(a)
    <2>1. job[a].old = 0 \/ job[a].stale
      BY <1>0, <1>1, <1>5 DEF Rotated, Changing, KeyPC, Key
    <2>2. "stored" \notin astray' /\ (\A b \in Admin : ~Exposed(b)) => stored' \in {0, hash}
      <3> SUFFICES ASSUME "stored" \notin astray', \A b \in Admin : ~Exposed(b)
                   PROVE  stored' = hash
        OBVIOUS
      <3>1. Bears(job[a])
        BY <1>0, <1>3, <2>1 DEF Bears
      <3>2. Current(job[a].key)
        BY <3>1 DEF KeyChain, HandlersCurrent
      <3>3. \A b \in Admin : ~AtHash(b)
        BY DEF AtHash, Exposed
      <3>4. QED
        BY <1>0, <3>2, <3>3, HashIsCurrent DEF KeyChain
    <2>3. "master" \notin astray' /\ (\A b \in Admin : ~Rotated(b)) => master' \in {0, hash}
      BY <1>0, <1>3 DEF KeyChain, MasterFollows
    <2>4. j.old > 0 => hash > 0
      BY <1>1 DEF KeyChain, HashFollows
    <2>5. Bears(j) => Current(j.key) /\ j.key > 0
      BY <1>1 DEF KeyChain, HandlersCurrent
    <2>6. QED
      BY <1>0, <1>1, <1>2, <1>5, <2>1, <2>2, <2>3, <2>4, <2>5, QuietStep
  <1>6. QED
    BY <1>4, <1>5

LEMMA InstallKeepsChain ==
    ASSUME TypeOK, KeyChain, NEW a \in Admin, Install(a)
    PROVE  KeyChain'
  <1>0. /\ job[a].pc = "install" /\ master' = job[a].key /\ Takes("master", a)
        /\ job' = [job EXCEPT ![a] = Idle] /\ UNCHANGED <<hash, stored, secret, strays>>
        /\ job[a].old \in Key /\ job[a].stale \in BOOLEAN
    BY DEF Install, End, rowVars, TypeOK, Job
  <1>1. astray' \ {"master"} = astray \ {"master"} /\ ("master" \in astray' <=> job[a].stale)
    BY <1>0 DEF Takes
  <1>2. CASE Rotated(a)
    <2>1. hash = job[a].key
      BY <1>0, <1>2 DEF KeyChain, HashFollows
    <2>2. \A b \in Admin : ~Exposed(b)
      BY <1>0, <1>2 DEF KeyChain, OneChange, Exposed
    <2>3. "stored" \notin astray' => stored' \in {0, hash}
      BY <1>0, <1>1, <2>2 DEF KeyChain, StoredFollows
    <2>4. QED
      BY <1>0, <1>2, <2>1, <2>3, ChangeEnds
  <1>3. CASE ~Rotated(a)
    <2>1. job[a].old = 0 \/ job[a].stale
      BY <1>0, <1>3 DEF Rotated, Changing, KeyPC, Key
    <2>2. "stored" \notin astray' /\ (\A b \in Admin : ~Exposed(b)) => stored' \in {0, hash}
      BY <1>0, <1>1 DEF KeyChain, StoredFollows
    <2>3. "master" \notin astray' /\ (\A b \in Admin : ~Rotated(b)) => master' \in {0, hash}
      <3> SUFFICES ASSUME "master" \notin astray', \A b \in Admin : ~Rotated(b)
                   PROVE  master' = hash
        OBVIOUS
      <3>1. Bears(job[a])
        BY <1>0, <1>1, <2>1 DEF Bears
      <3>2. QED
        BY <1>0, <3>1 DEF KeyChain, HandlersCurrent, Current
    <2>4. \A k \in Key : Current(k) => SecretsUnder(k)'
      BY <1>0, SameSecrets
    <2>5. QED
      BY <1>0, <1>3, <2>2, <2>3, <2>4, IdleIs, QuietStep
  <1>4. QED
    BY <1>2, <1>3

-----------------------------------------------------------------------------
(* The handlers that write secrets. *)

\* One that starts or goes on in memory.
LEMMA WriterKeepsChain ==
    ASSUME TypeOK, KeyChain, NEW a \in Admin, NEW j, job' = [job EXCEPT ![a] = j],
           job[a].pc \in {"idle", "cookie"}, j.pc \in RowPC, j.old = 0, j.stale \in BOOLEAN,
           UNCHANGED <<keyVars, secret, strays, astray>>,
           ~j.stale => Current(j.key) /\ j.key > 0
    PROVE  KeyChain'
  <1>1. ~Rotated(a) /\ UNCHANGED <<hash, stored, master>>
    BY IdleKeeps DEF keyVars
  <1>2. \A k \in Key : Current(k) => SecretsUnder(k)'
    BY SameSecrets
  <1>3. ~(j.old > 0) /\ j.pc # "rotate" /\ (Bears(j) => Current(j.key) /\ j.key > 0)
    BY DEF RowPC, Bears
  <1>4. /\ "stored" \notin astray' /\ (\A b \in Admin : ~Exposed(b)) => stored' \in {0, hash}
        /\ "master" \notin astray' /\ (\A b \in Admin : ~Rotated(b)) => master' \in {0, hash}
    BY <1>1, SameKeys
  <1>5. QED
    BY <1>1, <1>2, <1>3, <1>4, QuietStep

\* One that writes its row with what it has.
LEMMA RowKeepsChain ==
    ASSUME TypeOK, KeyChain, NEW a \in Admin, job' = [job EXCEPT ![a] = Idle],
           job[a].pc \in RowPC, UNCHANGED <<keyVars, astray>>,
           \/ UNCHANGED <<secret, strays>>
           \/ secret' = [secret EXCEPT ![job[a].row] = job[a].key] /\ Strays(job[a].row, a)
    PROVE  KeyChain'
  <1>1. ~Rotated(a) /\ UNCHANGED <<hash, stored, master>>
    BY IdleKeeps DEF keyVars, RowPC
  <1>2. \A k \in Key : Current(k) => SecretsUnder(k)'
    <2>1. CASE UNCHANGED <<secret, strays>>
      BY <2>1, SameSecrets
    <2>2. CASE secret' = [secret EXCEPT ![job[a].row] = job[a].key] /\ Strays(job[a].row, a)
      <3> SUFFICES ASSUME NEW k \in Key, Current(k), NEW r \in Row, r \notin strays'
                   PROVE  secret'[r] \in {0, k}
        BY DEF SecretsUnder
      <3>1. CASE r = job[a].row
        <4>1. ~job[a].stale
          BY <2>2, <3>1 DEF Strays
        <4>2. Current(job[a].key)
          BY <4>1 DEF Bears, KeyChain, HandlersCurrent
        <4>3. k = job[a].key
          BY <4>2, CurrentIs DEF KeyChain
        <4>4. QED
          BY <2>2, <3>1, <4>3 DEF TypeOK
      <3>2. CASE r # job[a].row
        <4>1. r \notin strays
          BY <2>2, <3>2 DEF Strays
        <4>2. secret'[r] = secret[r]
          BY <2>2, <3>2 DEF TypeOK
        <4>3. QED
          BY <4>1, <4>2 DEF KeyChain, SecretsUnder
      <3>3. QED
        BY <3>1, <3>2
    <2>3. QED
      BY <2>1, <2>2
  <1>3. /\ "stored" \notin astray' /\ (\A b \in Admin : ~Exposed(b)) => stored' \in {0, hash}
        /\ "master" \notin astray' /\ (\A b \in Admin : ~Rotated(b)) => master' \in {0, hash}
    BY <1>1, SameKeys
  <1>4. QED
    BY <1>1, <1>2, <1>3, IdleIs, QuietStep

LEMMA RowHandlersKeepChain ==
    ASSUME TypeOK, KeyChain, NEW a \in Admin, WriteSecret(a)
    PROVE  KeyChain'
  <1>0. MasterStale \in BOOLEAN
    BY DEF MasterStale, Outdated
  <1>1. ASSUME NEW r \in Row, Encrypt(a, r) PROVE KeyChain'
    <2> DEFINE j == [Idle EXCEPT !.pc = "put", !.row = r, !.key = master,
                                 !.stale = MasterStale]
    <2>1. job' = [job EXCEPT ![a] = j] /\ job[a].pc = "idle" /\ master > 0
          /\ UNCHANGED <<keyVars, secret, strays, astray>>
      BY <1>1 DEF Encrypt, Begin, Unlocked, rowVars, lost
    <2>2. j.pc \in RowPC /\ j.old = 0 /\ j.key = master /\ j.stale = MasterStale
      BY DEF Idle, RowPC
    <2> HIDE DEF j
    <2>3. QED
      BY <1>0, <2>1, <2>2, FreshMaster, WriterKeepsChain
  <1>2. ASSUME NEW r \in Row, EncryptForCookie(a, r) PROVE KeyChain'
    <2> DEFINE j == [Idle EXCEPT !.pc = "cookie", !.row = r, !.key = master,
                                 !.stale = MasterStale]
    <2>1. job' = [job EXCEPT ![a] = j] /\ job[a].pc = "idle" /\ master > 0
          /\ UNCHANGED <<keyVars, secret, strays, astray>>
      BY <1>2 DEF EncryptForCookie, Begin, Unlocked, rowVars, lost
    <2>2. j.pc \in RowPC /\ j.old = 0 /\ j.key = master /\ j.stale = MasterStale
      BY DEF Idle, RowPC
    <2> HIDE DEF j
    <2>3. QED
      BY <1>0, <2>1, <2>2, FreshMaster, WriterKeepsChain
  <1>3. CASE EncryptCookie(a)
    <2> DEFINE j == [job[a] EXCEPT !.pc = "put", !.second = master]
    <2>1. job' = [job EXCEPT ![a] = j] /\ job[a].pc = "cookie"
          /\ UNCHANGED <<keyVars, secret, strays, astray>>
      BY <1>3 DEF EncryptCookie, rowVars, lost
    <2>2. /\ j.pc = "put" /\ j.old = job[a].old /\ j.key = job[a].key
          /\ j.stale = job[a].stale /\ j.stale \in BOOLEAN /\ job[a].old \in Key
      BY DEF TypeOK, Job
    <2> HIDE DEF j
    <2>3. ~j.stale => Current(j.key) /\ j.key > 0
      BY <2>1, <2>2 DEF KeyChain, HandlersCurrent, Bears, RowPC
    <2>4. /\ ~Rotated(a) /\ UNCHANGED <<hash, stored, master>>
          /\ j.pc \notin {"hash", "store", "install", "rotate"}
          /\ j.old > 0 => hash > 0
          /\ Bears(j) => Current(j.key) /\ j.key > 0
      BY <2>1, <2>2, <2>3, IdleKeeps DEF KeyChain, HashFollows, Bears, keyVars
    <2>5. \A k \in Key : Current(k) => SecretsUnder(k)'
      BY <2>1, SameSecrets
    <2>6. QED
      BY <2>1, <2>2, <2>4, <2>5, SameKeys, QuietStep
  <1>4. CASE Put(a)
    <2>1. /\ job' = [job EXCEPT ![a] = Idle] /\ job[a].pc \in RowPC
          /\ UNCHANGED <<keyVars, astray>>
          /\ secret' = [secret EXCEPT ![job[a].row] = job[a].key] /\ Strays(job[a].row, a)
      BY <1>4 DEF Put, End, RowPC
    <2>2. QED
      BY <2>1, RowKeepsChain
  <1>5. CASE WriteUpdate(a)
    <2>1. /\ job' = [job EXCEPT ![a] = Idle] /\ job[a].pc \in RowPC
          /\ UNCHANGED <<keyVars, astray>>
          /\ \/ UNCHANGED <<secret, strays>>
             \/ secret' = [secret EXCEPT ![job[a].row] = job[a].key] /\ Strays(job[a].row, a)
      BY <1>5 DEF WriteUpdate, End, RowPC
    <2>2. QED
      BY <2>1, RowKeepsChain
  <1>6. ASSUME NEW r \in Row, NEW replace \in BOOLEAN, ReadForUpdate(a, r, replace)
        PROVE  KeyChain'
    <2> DEFINE stale == IF replace THEN MasterStale ELSE r \in strays
               j == [Idle EXCEPT !.pc = "update", !.row = r,
                                 !.key = IF replace THEN master ELSE secret[r],
                                 !.stale = stale]
    <2>1. job' = [job EXCEPT ![a] = j] /\ job[a].pc = "idle" /\ master > 0 /\ secret[r] > 0
          /\ UNCHANGED <<keyVars, secret, strays, astray>>
      BY <1>6 DEF ReadForUpdate, Begin, Unlocked, rowVars, lost
    <2>s. /\ stale \in BOOLEAN
          /\ replace => (stale <=> MasterStale)
          /\ ~replace => (stale <=> r \in strays)
      <3>1. CASE replace
        <4>1. stale = MasterStale
          BY <3>1, Zenon
        <4>2. QED
          BY <1>0, <3>1, <4>1
      <3>2. CASE ~replace
        <4>1. stale = (r \in strays)
          BY <3>2, Zenon
        <4>2. (r \in strays) \in BOOLEAN
          OBVIOUS
        <4>3. QED
          BY <3>2, <4>1, <4>2
      <3>3. QED
        BY <3>1, <3>2
    <2> HIDE DEF stale
    <2>2. /\ j.pc \in RowPC /\ j.old = 0 /\ j.stale = stale
          /\ j.key = IF replace THEN master ELSE secret[r]
      BY DEF Idle, RowPC
    <2> HIDE DEF j
    <2>3. CASE replace
      BY <2>1, <2>s, <2>2, <2>3, FreshMaster, WriterKeepsChain
    <2>4. CASE ~replace
      <3>1. r \notin strays => Current(secret[r])
        <4> SUFFICES ASSUME r \notin strays PROVE Current(secret[r])
          OBVIOUS
        <4>1. PICK k \in Key : Current(k)
          BY CurrentIs DEF KeyChain
        <4>2. secret[r] \in {0, k}
          BY <4>1 DEF KeyChain, SecretsUnder
        <4>3. QED
          BY <2>1, <4>1, <4>2
      <3>2. j.stale \in BOOLEAN /\ j.key = secret[r] /\ (~j.stale => r \notin strays)
        BY <2>s, <2>2, <2>4
      <3>3. QED
        BY <2>1, <2>2, <3>1, <3>2, WriterKeepsChain
    <2>5. QED
      BY <2>3, <2>4
  <1>7. QED
    BY <1>1, <1>2, <1>3, <1>4, <1>5, <1>6 DEF WriteSecret

-----------------------------------------------------------------------------
(* What deletes a row or cuts a handler short. *)

LEMMA DropKeepsChain ==
    ASSUME TypeOK, KeyChain, NEW a \in Admin, Drop(a), "hash" \notin astray'
    PROVE  KeyChain'
  <1>0. /\ job' = [job EXCEPT ![a] = Idle] /\ astray' = astray \cup LeftBy(a)
        /\ UNCHANGED <<hash, stored, master, secret, strays>>
    BY DEF Drop, End, keyVars, rowVars
  <1>1. CASE Rotated(a)
    <2>1. astray' = astray \cup Behind(job[a].key)
      BY <1>0, <1>1 DEF LeftBy
    <2>2. hash = job[a].key
      BY <2>1 DEF Behind
    <2>3. /\ "stored" \notin astray' => stored' \in {0, hash}
          /\ "master" \notin astray' => master' \in {0, hash}
      BY <1>0, <2>1, <2>2 DEF Behind
    <2>4. QED
      BY <1>0, <1>1, <2>2, <2>3, ChangeEnds
  <1>2. CASE ~Rotated(a)
    <2>1. astray' = astray
      BY <1>0, <1>2 DEF LeftBy
    <2>2. \A k \in Key : Current(k) => SecretsUnder(k)'
      BY <1>0, SameSecrets
    <2>3. QED
      BY <1>0, <1>2, <2>1, <2>2, IdleIs, SameKeys, QuietStep
  <1>3. QED
    BY <1>1, <1>2

LEMMA DeleteKeepsChain ==
    ASSUME TypeOK, KeyChain, NEW r \in Row, Delete(r)
    PROVE  KeyChain'
  <1>1. /\ UNCHANGED <<hash, stored, master, job, astray>>
        /\ secret' = [secret EXCEPT ![r] = 0] /\ strays' = strays \ {r}
    BY DEF Delete, keyVars
  <1>2. \A k : Current(k)' <=> Current(k)
    BY <1>1 DEF Current, Rotated, Changing
  <1>3. \A k \in Key : Current(k)' => SecretsUnder(k)'
    BY <1>1, <1>2 DEF KeyChain, SecretsUnder, TypeOK
  <1>4. OneChange' /\ HashFollows' /\ StoredFollows' /\ MasterFollows'
    BY <1>1 DEF KeyChain, OneChange, HashFollows, StoredFollows, MasterFollows,
                Exposed, Rotated, Changing
  <1>5. HandlersCurrent'
    BY <1>1, <1>2 DEF KeyChain, HandlersCurrent
  <1>6. QED
    BY <1>3, <1>4, <1>5 DEF KeyChain

LEMMA RestartKeepsChain ==
    ASSUME TypeOK, KeyChain, Restart, "hash" \notin astray'
    PROVE  KeyChain'
  <1> DEFINE left == astray \cup UNION {LeftBy(a) : a \in Admin}
  <1>1. /\ \A a \in Admin : job'[a] = Idle
        /\ master' = stored /\ UNCHANGED <<hash, stored, secret, strays>>
        /\ astray' = IF "stored" \in left THEN left \cup {"master"} ELSE left \ {"master"}
    BY DEF Restart, rowVars
  <1>2. "hash" \notin left
    BY <1>1
  <1>3. \A a \in Admin : Rotated(a) => Behind(job[a].key) \subseteq left
    BY DEF LeftBy
  <1> HIDE DEF left
  <1>4. \A a \in Admin : Rotated(a) => hash = job[a].key
    BY <1>2, <1>3 DEF Behind
  <1>5. "stored" \notin left => stored \in {0, hash}
    <2> SUFFICES ASSUME "stored" \notin left PROVE stored \in {0, hash}
      OBVIOUS
    <2>1. CASE \E a \in Admin : Rotated(a)
      BY <1>3, <1>4, <2>1 DEF Behind
    <2>2. CASE \A a \in Admin : ~Rotated(a)
      <3>1. "stored" \notin astray
        BY DEF left
      <3>2. QED
        BY <2>2, <3>1 DEF KeyChain, StoredFollows, Exposed
    <2>3. QED
      BY <2>1, <2>2
  <1>6. \A a \in Admin : ~Rotated(a)' /\ ~Bears(job'[a])
    BY <1>1, IdleIs DEF Rotated, Changing, KeyPC
  <1>7. \A k : Current(k)' <=> k = hash
    BY <1>1, <1>6 DEF Current
  <1>8. Current(hash) /\ hash \in Key
    BY <1>4 DEF Current, TypeOK
  <1>9. \A k \in Key : Current(k)' => SecretsUnder(k)'
    BY <1>1, <1>7, <1>8 DEF KeyChain, SecretsUnder
  <1>10. OneChange' /\ HandlersCurrent'
    BY <1>6 DEF OneChange, HandlersCurrent
  <1>11. HashFollows'
    BY <1>1, <1>6, IdleIs DEF HashFollows
  <1>12. StoredFollows' /\ MasterFollows'
    BY <1>1, <1>5 DEF StoredFollows, MasterFollows
  <1>13. QED
    BY <1>9, <1>10, <1>11, <1>12 DEF KeyChain

\* The history takes a hash that is left behind to be lost for good.
LEMMA HashStaysAstray ==
    ASSUME TypeOK, Next, "hash" \in astray
    PROVE  "hash" \in astray'
  <1>1. \A p, a : Takes(p, a) /\ p # "hash" => "hash" \in astray'
    BY DEF Takes
  <1>2. ASSUME NEW a \in Admin, ChangeKeys(a) PROVE "hash" \in astray'
    BY <1>1, <1>2 DEF ChangeKeys, Setup, Login, ChangePassword, Reencrypt, Overtake,
                      SaveHash, SaveKey, Install, lost, Place
  <1>3. ASSUME NEW a \in Admin, WriteSecret(a) PROVE "hash" \in astray'
    BY <1>3 DEF WriteSecret, Encrypt, EncryptForCookie, EncryptCookie, Put,
                ReadForUpdate, WriteUpdate, lost
  <1>4. ASSUME NEW a \in Admin, Drop(a) PROVE "hash" \in astray'
    BY <1>4 DEF Drop
  <1>5. ASSUME NEW r \in Row, Delete(r) PROVE "hash" \in astray'
    BY <1>5 DEF Delete
  <1>6. CASE Restart
    BY <1>6 DEF Restart
  <1>7. QED
    BY <1>2, <1>3, <1>4, <1>5, <1>6 DEF Next

\* auth.rs:34-109, state.rs:104: whatever management requests overlap, fail,
\* are dropped or cut short by a restart, however many rows and requests there
\* are, the password, the persisted key and the key in memory open every secret,
\* but for the places and rows that the history names.
THEOREM KeysOpenSecrets ==
    Spec => [](PasswordOpensSecrets /\ StoredKeyOpensSecrets /\ ServiceReadsSecrets)
  <1>1. Init => KeysKnown
    <2> SUFFICES ASSUME Init PROVE KeyChain
      BY DEF KeysKnown
    <2>1. \A a \in Admin : job[a] = Idle /\ ~Rotated(a)
      BY IdleIs DEF Init, Rotated, Changing, KeyPC
    <2>2. \A k : Current(k) => k = hash
      BY <2>1 DEF Current
    <2>3. \A k \in Key : Current(k) => SecretsUnder(k)
      BY <2>2 DEF Init, SecretsUnder
    <2>4. OneChange /\ HashFollows
      BY <2>1, IdleIs DEF OneChange, HashFollows
    <2>5. StoredFollows /\ MasterFollows
      BY DEF Init, StoredFollows, MasterFollows
    <2>6. HandlersCurrent
      BY <2>1, IdleIs DEF HandlersCurrent
    <2>7. QED
      BY <2>3, <2>4, <2>5, <2>6 DEF KeyChain
  <1>2. TypeOK /\ KeysKnown /\ [Next]_vars => KeysKnown'
    <2> SUFFICES ASSUME TypeOK, KeysKnown, [Next]_vars, "hash" \notin astray'
                 PROVE  KeyChain'
      BY DEF KeysKnown
    <2>1. CASE UNCHANGED vars
      BY <2>1 DEF vars, KeysKnown, KeyChain, OneChange, SecretsUnder, HashFollows,
                  StoredFollows, MasterFollows, HandlersCurrent, Current, Exposed,
                  Rotated, Changing
    <2>2. CASE Next
      <3>1. KeyChain
        BY <2>2, HashStaysAstray DEF KeysKnown
      <3>2. ASSUME NEW a \in Admin, ChangeKeys(a) PROVE KeyChain'
        BY <3>1, <3>2, BeginningsKeepChain, ReencryptKeepsChain, SaveHashKeepsChain,
           SaveKeyKeepsChain, InstallKeepsChain DEF ChangeKeys
      <3>3. QED
        BY <2>2, <3>1, <3>2, RowHandlersKeepChain, DropKeepsChain, DeleteKeepsChain,
           RestartKeepsChain DEF Next
    <2>3. QED
      BY <2>1, <2>2
  <1>3. TypeOK /\ KeysKnown =>
           PasswordOpensSecrets /\ StoredKeyOpensSecrets /\ ServiceReadsSecrets
    <2> SUFFICES ASSUME TypeOK, KeysKnown, "hash" \notin astray
                 PROVE  PasswordOpensSecrets /\ StoredKeyOpensSecrets /\ ServiceReadsSecrets
      BY DEF PasswordOpensSecrets, StoredKeyOpensSecrets, ServiceReadsSecrets
    <2>1. KeyChain
      BY DEF KeysKnown
    <2>2. (\A a \in Admin : ~AtHash(a)) => SecretsUnder(hash)
      <3> SUFFICES ASSUME \A a \in Admin : ~AtHash(a) PROVE SecretsUnder(hash)
        OBVIOUS
      <3>1. PICK k \in Key : Current(k)
        BY <2>1, CurrentIs DEF KeyChain
      <3>2. k = hash
        BY <2>1, <3>1, HashIsCurrent DEF KeyChain
      <3>3. QED
        BY <2>1, <3>1, <3>2 DEF KeyChain
    <2>3. \A a \in Admin : (~Exposed(a) => ~AtHash(a)) /\ (~Rotated(a) => ~AtHash(a))
      BY DEF Exposed, AtHash
    <2>4. StoredKeyOpensSecrets
      BY <2>1, <2>2, <2>3 DEF StoredKeyOpensSecrets, KeyChain, StoredFollows
    <2>5. ServiceReadsSecrets
      BY <2>1, <2>2, <2>3 DEF ServiceReadsSecrets, KeyChain, MasterFollows
    <2>6. QED
      BY <2>2, <2>4, <2>5 DEF PasswordOpensSecrets
  <1>4. QED
    BY <1>1, <1>2, <1>3, VaultTypeCorrect, PTL DEF Spec

=============================================================================
