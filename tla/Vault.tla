-------------------------------- MODULE Vault --------------------------------
(***************************************************************************)
(* The encrypted columns and the key they are under.  The login password   *)
(* and the salt in its hash derive a 256-bit key (crypto.rs).  That key is *)
(* kept in memory (state.rs) and, to survive a restart, in table meta; a   *)
(* password change (routes/auth.rs) puts every secret under a new one.     *)
(* Handlers that write secrets encrypt first and write the row later.      *)
(*                                                                         *)
(* A key is named by the number of the hash it derives from: hashes are    *)
(* salted, so that no two are alike, and whoever gets as far as deriving   *)
(* has given the right password.  A ciphertext is the key it is under;     *)
(* 0 is no hash, no key, no ciphertext.                                    *)
(*                                                                         *)
(* No lock keeps these handlers apart, so that a password change can be    *)
(* overtaken, cut short or raced.  astray, strays and a job's stale are    *)
(* history: they steer nothing, and record which of the named accidents    *)
(* has touched a key or a row.                                             *)
(***************************************************************************)
EXTENDS Integers

CONSTANTS
    Account, Proxy, Client, \* ids of api_keys, proxies, client_api_keys
    NoRow,
    Admin,      \* concurrent requests of the management API
    MaxHash     \* bound: password hashes ever made

Row == Account \cup Proxy \cup Client

ASSUME RowAssumption == NoRow \notin Row
ASSUME BoundAssumption == MaxHash \in Nat /\ MaxHash > 0

VARIABLES
    hash,       \* meta "password_hash"
    stored,     \* meta "encryption_key"
    master,     \* the key in memory
    secret,     \* api_key_enc, url_enc and key_enc of the rows
    cookie,     \* cookie_enc of the accounts
    made,       \* hashes made so far
    job,        \* what each management request is at
    astray,     \* history: the places whose key a race or a cut left behind
    strays      \* history: the rows a request overtaken by a change has written

keyVars == <<hash, stored, master, made>>
rowVars == <<secret, cookie>>
lost == <<astray, strays>>
vars == <<hash, stored, master, secret, cookie, made, job, astray, strays>>

Key == 0..MaxHash
Job == [pc: {"idle", "rotate", "hash", "store", "install",
             "cookie", "put", "update"},
        row: Row \cup {NoRow}, old: Key, key: Key, second: Key, stale: BOOLEAN]
Idle == [pc |-> "idle", row |-> NoRow, old |-> 0, key |-> 0, second |-> 0,
         stale |-> FALSE]

KeyPC == {"rotate", "hash", "store", "install"}
RowPC == {"cookie", "put", "update"}
Place == {"hash", "stored", "master"}

\* Every variable has its type; a handler about to save or install a key has
\* one, and one about to write a row knows the row.
TypeOK ==
    /\ hash \in Key /\ stored \in Key /\ master \in Key /\ made \in Key
    /\ secret \in [Row -> Key]
    /\ cookie \in [Account -> Key]
    /\ job \in [Admin -> Job]
    /\ astray \in SUBSET Place /\ strays \in SUBSET Row
    /\ \A a \in Admin : /\ job[a].pc \in KeyPC => job[a].key > 0
                        /\ job[a].pc \in RowPC => job[a].row \in Row

\* Fresh, or installed with secrets; before the key was persisted, an
\* installation held it in memory alone.
Init ==
    /\ made \in {0, 1} /\ hash = made
    /\ stored \in {0, hash} /\ master = stored
    /\ secret \in [Row -> {0, hash}]
    /\ cookie \in [Account -> {0, hash}]
    /\ \A a \in Account : secret[a] = 0 => cookie[a] = 0
    /\ job = [a \in Admin |-> Idle]
    /\ astray = {} /\ strays = {}

-----------------------------------------------------------------------------
(* routes/auth.rs: the handlers that set keys. *)

Begin(a, j) == job[a].pc = "idle" /\ job' = [job EXCEPT ![a] = j]
Goto(a, p) == job' = [job EXCEPT ![a].pc = p]
End(a) == job' = [job EXCEPT ![a] = Idle]

\* A change past its re-encryption, unless a later one has overtaken it.
Changing(a) == job[a].pc \in KeyPC /\ job[a].old > 0
Rotated(a) == /\ Changing(a) /\ job[a].pc # "rotate" /\ ~job[a].stale

\* History: secrets are, or are about to be, under another key than k.
Outdated(k) == \E b \in Admin : Rotated(b) /\ job[b].key # k

\* History: a change that ends now leaves the places it has not come to.
Behind(k) == (IF hash # k THEN {"hash"} ELSE {})
             \cup (IF stored # k THEN {"stored"} ELSE {})
             \cup (IF master # k THEN {"master"} ELSE {})
LeftBy(a) == IF Rotated(a) THEN Behind(job[a].key) ELSE {}

\* History: place p takes the key of job a.
Takes(p, a) == astray' = IF job[a].stale THEN astray \cup {p} ELSE astray \ {p}

HashPassword == made < MaxHash /\ made' = made + 1

\* First run: no hash yet.
Setup(a) ==
    /\ hash = 0
    /\ HashPassword
    /\ Begin(a, [Idle EXCEPT !.pc = "hash", !.key = made + 1])
    /\ UNCHANGED <<hash, stored, master, rowVars, lost>>

\* Slip: login does not insist on an installation.
LoginUninstalled(a) ==
    /\ Begin(a, [Idle EXCEPT !.pc = "store", !.key = hash,
                             !.stale = Outdated(hash)])
    /\ UNCHANGED <<keyVars, rowVars, lost>>

\* The password is right and derives the key of the hash read.
Login(a) ==
    /\ hash > 0
    /\ Begin(a, [Idle EXCEPT !.pc = "store", !.key = hash,
                             !.stale = Outdated(hash)])
    /\ UNCHANGED <<keyVars, rowVars, lost>>

\* A web session is not enough, the key must be in memory (middleware.rs).
ChangePassword(a) ==
    /\ hash > 0 /\ master > 0
    /\ HashPassword
    /\ Begin(a, [Idle EXCEPT !.pc = "rotate", !.old = hash, !.key = made + 1,
                             !.stale = Outdated(hash)])
    /\ UNCHANGED <<hash, stored, master, rowVars, lost>>

\* History: every other request in flight has what it has from before; where
\* the change itself was overtaken, nothing is known any more.
Overtake(a) ==
    /\ job' = [b \in Admin |->
                  IF b = a THEN [job[a] EXCEPT !.pc = "hash"]
                  ELSE IF job[b].pc = "idle" THEN job[b]
                  ELSE [job[b] EXCEPT !.stale = TRUE]]
    /\ astray' = IF job[a].stale THEN Place ELSE astray
    /\ strays' = {}

\* Slip: the client keys are left under the old key.
ReencryptForgetsClients(a) ==
    /\ job[a].pc = "rotate"
    /\ IF \A r \in Row : secret[r] \in {0, job[a].old}
       THEN /\ secret' = [r \in Row |-> IF secret[r] = 0 \/ r \in Client
                                        THEN secret[r] ELSE job[a].key]
            /\ Overtake(a)
       ELSE End(a) /\ UNCHANGED <<secret, lost>>
    /\ UNCHANGED <<keyVars, cookie>>

\* reencrypt_all, one transaction: it fails as a whole on the first secret
\* that the old key does not open.  It does not know of cookie_enc.
Reencrypt(a) ==
    /\ job[a].pc = "rotate"
    /\ IF \A r \in Row : secret[r] \in {0, job[a].old}
       THEN /\ secret' = [r \in Row |-> IF secret[r] = 0 THEN 0 ELSE job[a].key]
            /\ Overtake(a)
       ELSE End(a) /\ UNCHANGED <<secret, lost>>
    /\ UNCHANGED <<keyVars, cookie>>

\* A first run whose place another has taken replaces that one's hash.
SaveHash(a) ==
    /\ job[a].pc = "hash"
    /\ hash' = job[a].key
    /\ Goto(a, "store")
    /\ astray' = IF job[a].stale \/ (job[a].old = 0 /\ hash > 0) THEN Place ELSE astray
    /\ UNCHANGED <<stored, master, made, rowVars, strays>>

\* Slip: a change keeps the persisted key.
SaveKeyOnce(a) ==
    /\ job[a].pc = "store"
    /\ stored' = IF stored = 0 THEN job[a].key ELSE stored
    /\ Goto(a, "install")
    /\ Takes("stored", a)
    /\ UNCHANGED <<hash, master, made, rowVars, strays>>

SaveKey(a) ==
    /\ job[a].pc = "store"
    /\ stored' = job[a].key
    /\ Goto(a, "install")
    /\ Takes("stored", a)
    /\ UNCHANGED <<hash, master, made, rowVars, strays>>

\* Slip: the key in memory is set only where there is none.
InstallOnce(a) ==
    /\ job[a].pc = "install"
    /\ master' = IF master = 0 THEN job[a].key ELSE master
    /\ End(a)
    /\ Takes("master", a)
    /\ UNCHANGED <<hash, stored, made, rowVars, strays>>

Install(a) ==
    /\ job[a].pc = "install"
    /\ master' = job[a].key
    /\ End(a)
    /\ Takes("master", a)
    /\ UNCHANGED <<hash, stored, made, rowVars, strays>>

ChangeKeys(a) ==
    \/ Setup(a) \/ Login(a) \/ ChangePassword(a)
    \/ Reencrypt(a) \/ SaveHash(a) \/ SaveKey(a) \/ Install(a)

-----------------------------------------------------------------------------
(* The handlers that write secrets: keys, proxies, client keys, imports. *)

Unlocked == master > 0
Fresh(r) == secret[r] = 0 /\ \A b \in Admin : job[b].row # r

\* History: the key in memory is not the one the secrets are under.
MasterStale == "master" \in astray \/ Outdated(master)

\* History: row r is written by job a.
Strays(r, a) == strays' = IF job[a].stale THEN strays \cup {r} ELSE strays \ {r}

\* encrypt_secret for a new row, or for one an import finds by its name.
Encrypt(a, r) ==
    /\ Unlocked
    /\ Fresh(r) \/ (r \in Account \cup Proxy /\ secret[r] > 0)
    /\ Begin(a, [Idle EXCEPT !.pc = "put", !.row = r, !.key = master,
                             !.stale = MasterStale])
    /\ UNCHANGED <<keyVars, rowVars, lost>>

\* import_cookie encrypts the API key, then the Cookie.
EncryptForCookie(a, r) ==
    /\ Unlocked /\ r \in Account /\ Fresh(r)
    /\ Begin(a, [Idle EXCEPT !.pc = "cookie", !.row = r, !.key = master,
                             !.stale = MasterStale])
    /\ UNCHANGED <<keyVars, rowVars, lost>>
EncryptCookie(a) ==
    /\ job[a].pc = "cookie"
    /\ job' = [job EXCEPT ![a].pc = "put", ![a].second = master]
    /\ UNCHANGED <<keyVars, rowVars, lost>>

\* An import over a row leaves its Cookie.
Put(a) ==
    LET j == job[a]
    IN  /\ j.pc = "put"
        /\ secret' = [secret EXCEPT ![j.row] = j.key]
        /\ cookie' = IF j.second > 0 THEN [cookie EXCEPT ![j.row] = j.second]
                                     ELSE cookie
        /\ Strays(j.row, a)
        /\ End(a)
        /\ UNCHANGED <<keyVars, astray>>

\* update: a new secret, or for an account the ciphertext it had.
ReadForUpdate(a, r, replace) ==
    /\ Unlocked /\ secret[r] > 0
    /\ r \in Account \/ (r \in Proxy /\ replace)
    /\ Begin(a, [Idle EXCEPT !.pc = "update", !.row = r,
                             !.key = IF replace THEN master ELSE secret[r],
                             !.stale = IF replace THEN MasterStale ELSE r \in strays])
    /\ UNCHANGED <<keyVars, rowVars, lost>>

\* Nothing happens to a row that is gone.
WriteUpdate(a) ==
    LET j == job[a]
    IN  /\ j.pc = "update"
        /\ IF secret[j.row] > 0
           THEN secret' = [secret EXCEPT ![j.row] = j.key] /\ Strays(j.row, a)
           ELSE UNCHANGED <<secret, strays>>
        /\ End(a)
        /\ UNCHANGED <<keyVars, cookie, astray>>

Delete(r) ==
    /\ master > 0 /\ secret[r] > 0
    /\ secret' = [secret EXCEPT ![r] = 0]
    /\ cookie' = IF r \in Account THEN [cookie EXCEPT ![r] = 0] ELSE cookie
    /\ strays' = strays \ {r}
    /\ UNCHANGED <<keyVars, job, astray>>

WriteSecret(a) ==
    \/ \E r \in Row : \/ Encrypt(a, r) \/ EncryptForCookie(a, r)
                      \/ \E replace \in BOOLEAN : ReadForUpdate(a, r, replace)
    \/ EncryptCookie(a) \/ Put(a) \/ WriteUpdate(a)

-----------------------------------------------------------------------------
(* What cuts a handler short. *)

\* A database write fails, or the client is gone at an await.
Drop(a) ==
    /\ job[a].pc # "idle"
    /\ End(a)
    /\ astray' = astray \cup LeftBy(a)
    /\ UNCHANGED <<keyVars, rowVars, strays>>

\* AppState::new takes the persisted key.
Restart ==
    LET left == astray \cup UNION {LeftBy(a) : a \in Admin}
    IN  /\ master' = stored
        /\ job' = [a \in Admin |-> Idle]
        /\ astray' = IF "stored" \in left THEN left \cup {"master"}
                                          ELSE left \ {"master"}
        /\ UNCHANGED <<hash, stored, made, rowVars, strays>>

Next ==
    \/ \E a \in Admin : ChangeKeys(a) \/ WriteSecret(a) \/ Drop(a)
    \/ \E r \in Row : Delete(r)
    \/ Restart

Spec == Init /\ [][Next]_vars

-----------------------------------------------------------------------------
(* Properties.  The history says what is excepted, and nothing else is: a     *)
(* place whose key a change that was cut short, a request overtaken by a      *)
(* change or a second first run left behind, and a row that an overtaken      *)
(* request wrote.  The two keys and the rows come right again as the code lets *)
(* them, by a login, a restart, another write; a hash left behind does not.   *)

SecretsUnder(k) == \A r \in Row \ strays : secret[r] \in {0, k}
AtHash(a) == Rotated(a) /\ job[a].pc = "hash"
Exposed(a) == Rotated(a) /\ job[a].pc \in {"hash", "store"}

\* auth.rs:34-109, the login password opens every secret it is meant to
\* protect, whoever writes, logs in, fails or restarts meanwhile: between
\* reencrypt_all and the new hash alone, they are under the key to come.
PasswordOpensSecrets ==
    "hash" \notin astray /\ (\A a \in Admin : ~AtHash(a)) => SecretsUnder(hash)

\* README.md:155, the persisted key is what the gateway works with: a restart
\* at any moment but between reencrypt_all and the new key finds every secret
\* under it.
StoredKeyOpensSecrets ==
    /\ {"hash", "stored"} \cap astray = {} /\ stored > 0
    /\ \A a \in Admin : ~Exposed(a)
    => SecretsUnder(stored)

\* state.rs:104, the service, once unlocked, can read every secret, whichever
\* management requests are under way, a change past reencrypt_all excepted.
ServiceReadsSecrets ==
    /\ {"hash", "master"} \cap astray = {} /\ master > 0
    /\ \A a \in Admin : ~Rotated(a)
    => SecretsUnder(master)

\* README.md:65, the quota of an account imported by Cookie is queried by the
\* system: with no request under way, and nothing raced or cut short before,
\* the service can read every Cookie.
CookiesReadable ==
    /\ astray = {} /\ strays = {} /\ master > 0
    /\ \A a \in Admin : job[a].pc = "idle"
    => \A a \in Account : cookie[a] \in {0, master}

=============================================================================
