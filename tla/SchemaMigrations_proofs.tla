------------------------ MODULE SchemaMigrations_proofs ------------------------
(***************************************************************************)
(* Proofs about SchemaMigrations, for any number of crashes: its types,    *)
(* that the encryption key is never lost on its way from one name to the   *)
(* next, and that what is served has the whole schema, whichever release   *)
(* the database is from.                                                   *)
(***************************************************************************)
EXTENDS SchemaMigrations, TLAPS

-----------------------------------------------------------------------------
(* The list of migrations, read once: afterwards it is used by these facts. *)

LEMMA MigrationList ==
    /\ Len(Migrations) = 14
    /\ Number = 1..14
    /\ Migrations[1] = Initial
    /\ Migrations[2] = AddApiKeyProxy
    /\ Migrations[3] = AddFirstTokenTiming
    /\ Migrations[4] = AddCacheUsage
    /\ Migrations[5] = AddClientKeyEncryption
    /\ Migrations[6] = AddAccountEnabled
    /\ Migrations[7] = AddAccountCookie
    /\ Migrations[8] = AddAccountUsageCache
    /\ Migrations[9] = AddDisabledModels
    /\ Migrations[10] = AddAccountType
    /\ Migrations[11] = RenamePersistedLoginKey
    /\ Migrations[12] = AddManagementAuth
    /\ Migrations[13] = AddQuotaExhaustedState
    /\ Migrations[14] = AddClientKeyAllowedModels
  <1>1. Len(Migrations) = 14
    BY DEF Migrations
  <1>2. QED
    BY <1>1 DEF Migrations, Number

\* What one statement is, as far as the schema and the keys go.
Creates(s, t) == /\ s.op = "create" /\ s.table = t /\ <<t, "base">> \in s.columns
                 /\ s.columns \subseteq Needed /\ Adds(s) = {<<t, "base">>}
AddsTo(s, t, c) == s.op = "add" /\ s.column = <<t, c>> /\ Adds(s) = {<<t, c>>}
Copies(s, a, b) == s.op = "copy" /\ s.from = a /\ s.to = b /\ Adds(s) = {}
Deletes(s, a) == s.op = "delete" /\ s.from = a /\ Adds(s) = {}

LEMMA BaseColumn == ASSUME NEW t PROVE Columns(t, {}) = {<<t, "base">>}
  BY DEF Columns

LEMMA CreateFacts ==
    ASSUME NEW t, NEW names, Columns(t, names) \subseteq Needed
    PROVE  Creates(Create(t, names), t)
  <1>1. Adds(Create(t, names)) = Columns(t, {})
    BY DEF Adds, Create
  <1>2. <<t, "base">> \in Columns(t, names)
    BY DEF Columns
  <1>3. QED
    BY <1>1, <1>2, BaseColumn DEF Creates, Create

LEMMA AddFacts ==
    ASSUME NEW t, NEW c
    PROVE  AddsTo(Guarded(t, c), t, c) /\ AddsTo(Unguarded(t, c), t, c)
  BY DEF AddsTo, Guarded, Unguarded, Adds

LEMMA MoveFacts ==
    ASSUME NEW a, NEW b
    PROVE  Copies(Copy(a, b), a, b) /\ Deletes(Delete(a), a)
  BY DEF Copies, Deletes, Copy, Delete, Adds

\* The columns and tables the queries need.
LEMMA NeededColumns ==
    /\ \A c \in {"proxy_id", "is_enabled", "cookie_enc", "workspace_id",
                 "account_type", "quota_exhausted_at", "usage_cache", "base"} :
          <<"api_keys", c>> \in Needed
    /\ \A c \in {"key_enc", "allowed_models", "base"} : <<"client_api_keys", c>> \in Needed
    /\ \A c \in {"first_token_ms", "cached_tokens", "cache_creation_tokens", "base"} :
          <<"request_logs", c>> \in Needed
    /\ \A t \in {"meta", "proxies", "disabled_models", "web_sessions", "admin_tokens"} :
          <<t, "base">> \in Needed
  BY DEF Needed, Columns

\* The tables of the first migration need nothing the queries do not.
LEMMA InitialFacts ==
    /\ Len(Initial) = 5 /\ DOMAIN Initial = 1..5
    /\ Creates(Initial[1], "meta") /\ Creates(Initial[2], "api_keys")
    /\ Creates(Initial[3], "proxies") /\ Creates(Initial[4], "client_api_keys")
    /\ Creates(Initial[5], "request_logs")
  <1>1. /\ Columns("meta", {}) \subseteq Needed
        /\ Columns("api_keys", {"is_enabled", "cookie_enc", "workspace_id",
                                "usage_cache", "quota_exhausted_at"}) \subseteq Needed
        /\ Columns("proxies", {}) \subseteq Needed
        /\ Columns("client_api_keys", {}) \subseteq Needed
        /\ Columns("request_logs", {}) \subseteq Needed
    BY NeededColumns DEF Columns
  <1>2. /\ Creates(Create("meta", {}), "meta")
        /\ Creates(Create("api_keys", {"is_enabled", "cookie_enc", "workspace_id",
                                       "usage_cache", "quota_exhausted_at"}), "api_keys")
        /\ Creates(Create("proxies", {}), "proxies")
        /\ Creates(Create("client_api_keys", {}), "client_api_keys")
        /\ Creates(Create("request_logs", {}), "request_logs")
    BY <1>1, CreateFacts
  <1>3. QED
    BY <1>2 DEF Initial

LEMMA ColumnMigrationFacts ==
    /\ Len(AddApiKeyProxy) = 1 /\ AddsTo(AddApiKeyProxy[1], "api_keys", "proxy_id")
    /\ Len(AddFirstTokenTiming) = 1
    /\ AddsTo(AddFirstTokenTiming[1], "request_logs", "first_token_ms")
    /\ Len(AddCacheUsage) = 2
    /\ AddsTo(AddCacheUsage[1], "request_logs", "cached_tokens")
    /\ AddsTo(AddCacheUsage[2], "request_logs", "cache_creation_tokens")
    /\ Len(AddClientKeyEncryption) = 1
    /\ AddsTo(AddClientKeyEncryption[1], "client_api_keys", "key_enc")
    /\ Len(AddAccountEnabled) = 1 /\ AddsTo(AddAccountEnabled[1], "api_keys", "is_enabled")
    /\ Len(AddAccountCookie) = 2
    /\ AddsTo(AddAccountCookie[1], "api_keys", "cookie_enc")
    /\ AddsTo(AddAccountCookie[2], "api_keys", "workspace_id")
    /\ Len(AddAccountUsageCache) = 1
    /\ AddsTo(AddAccountUsageCache[1], "api_keys", "usage_cache")
    /\ Len(AddAccountType) = 1 /\ AddsTo(AddAccountType[1], "api_keys", "account_type")
    /\ Len(AddQuotaExhaustedState) = 1
    /\ AddsTo(AddQuotaExhaustedState[1], "api_keys", "quota_exhausted_at")
    /\ Len(AddClientKeyAllowedModels) = 1
    /\ AddsTo(AddClientKeyAllowedModels[1], "client_api_keys", "allowed_models")
  BY AddFacts DEF AddApiKeyProxy, AddFirstTokenTiming, AddCacheUsage,
       AddClientKeyEncryption, AddAccountEnabled, AddAccountCookie, AddAccountUsageCache,
       AddAccountType, AddQuotaExhaustedState, AddClientKeyAllowedModels

LEMMA OtherMigrationFacts ==
    /\ Len(AddDisabledModels) = 1 /\ Creates(AddDisabledModels[1], "disabled_models")
    /\ Len(RenamePersistedLoginKey) = 2
    /\ Copies(RenamePersistedLoginKey[1], "auto_unlock_key", "login_key")
    /\ Deletes(RenamePersistedLoginKey[2], "auto_unlock_key")
    /\ Len(AddManagementAuth) = 4
    /\ Copies(AddManagementAuth[1], "login_key", "encryption_key")
    /\ Deletes(AddManagementAuth[2], "login_key")
    /\ Creates(AddManagementAuth[3], "web_sessions")
    /\ Creates(AddManagementAuth[4], "admin_tokens")
  <1>1. /\ Columns("disabled_models", {}) \subseteq Needed
        /\ Columns("web_sessions", {}) \subseteq Needed
        /\ Columns("admin_tokens", {}) \subseteq Needed
    BY NeededColumns DEF Columns
  <1>2. /\ Creates(Create("disabled_models", {}), "disabled_models")
        /\ Creates(Create("web_sessions", {}), "web_sessions")
        /\ Creates(Create("admin_tokens", {}), "admin_tokens")
    BY <1>1, CreateFacts
  <1>3. QED
    BY <1>2, MoveFacts DEF AddDisabledModels, RenamePersistedLoginKey, AddManagementAuth

-----------------------------------------------------------------------------
(* Every statement is one of five, and the two migrations that move the key *)
(* are the only ones that touch it.                                         *)

AddsNeeded(s) == \E t, c : AddsTo(s, t, c) /\ <<t, c>> \in Needed
CreatesTable(s) == \E t : Creates(s, t)

LEMMA StatementFacts ==
    ASSUME NEW n \in Number
    PROVE  /\ Len(Migrations[n]) \in 1..5
           /\ DOMAIN Migrations[n] = 1..Len(Migrations[n])
           /\ n = 11 => Len(Migrations[n]) = 2
           /\ n = 12 => Len(Migrations[n]) = 4
           /\ \A k \in 1..Len(Migrations[n]) :
                 \/ CreatesTable(Migrations[n][k]) /\ (n = 12 => k > 2) /\ n # 11
                 \/ AddsNeeded(Migrations[n][k]) /\ n \notin {11, 12}
                 \/ n = 11 /\ k = 1 /\ Copies(Migrations[n][k], "auto_unlock_key", "login_key")
                 \/ n = 11 /\ k = 2 /\ Deletes(Migrations[n][k], "auto_unlock_key")
                 \/ n = 12 /\ k = 1 /\ Copies(Migrations[n][k], "login_key", "encryption_key")
                 \/ n = 12 /\ k = 2 /\ Deletes(Migrations[n][k], "login_key")
  <1>1. n \in 1..14
    BY MigrationList
  <1> DEFINE Good(m, i) ==
        \/ CreatesTable(m[i]) /\ (n = 12 => i > 2) /\ n # 11
        \/ AddsNeeded(m[i]) /\ n \notin {11, 12}
        \/ n = 11 /\ i = 1 /\ Copies(m[i], "auto_unlock_key", "login_key")
        \/ n = 11 /\ i = 2 /\ Deletes(m[i], "auto_unlock_key")
        \/ n = 12 /\ i = 1 /\ Copies(m[i], "login_key", "encryption_key")
        \/ n = 12 /\ i = 2 /\ Deletes(m[i], "login_key")
  <1> DEFINE m == Migrations[n]
  <1> SUFFICES /\ Len(m) \in 1..5 /\ DOMAIN m = 1..Len(m)
               /\ n = 11 => Len(m) = 2
               /\ n = 12 => Len(m) = 4
               /\ \A k \in 1..Len(m) : Good(m, k)
    OBVIOUS
  <1>2. CASE n = 1
    <2>1. m = Initial
      BY <1>2, MigrationList
    <2>2. \A k \in 1..5 : CreatesTable(Initial[k])
      BY InitialFacts DEF CreatesTable
    <2> QED
      BY <1>2, <2>1, <2>2, InitialFacts
  <1>3. CASE n \in {2, 3, 4, 5, 6, 7, 8, 10, 13, 14}
    <2>1. m \in {AddApiKeyProxy, AddFirstTokenTiming, AddCacheUsage, AddClientKeyEncryption,
                 AddAccountEnabled, AddAccountCookie, AddAccountUsageCache, AddAccountType,
                 AddQuotaExhaustedState, AddClientKeyAllowedModels}
      BY <1>3, MigrationList
    <2>2. /\ AddsNeeded(AddApiKeyProxy[1]) /\ AddsNeeded(AddFirstTokenTiming[1])
          /\ AddsNeeded(AddCacheUsage[1]) /\ AddsNeeded(AddCacheUsage[2])
          /\ AddsNeeded(AddClientKeyEncryption[1]) /\ AddsNeeded(AddAccountEnabled[1])
          /\ AddsNeeded(AddAccountCookie[1]) /\ AddsNeeded(AddAccountCookie[2])
          /\ AddsNeeded(AddAccountUsageCache[1]) /\ AddsNeeded(AddAccountType[1])
          /\ AddsNeeded(AddQuotaExhaustedState[1])
          /\ AddsNeeded(AddClientKeyAllowedModels[1])
      BY ColumnMigrationFacts, NeededColumns DEF AddsNeeded
    <2>3. Len(m) \in 1..2 /\ \A k \in 1..Len(m) : AddsNeeded(m[k])
      BY <2>1, <2>2, ColumnMigrationFacts
    <2>4. DOMAIN m = 1..Len(m)
      BY <2>1 DEF AddApiKeyProxy, AddFirstTokenTiming, AddCacheUsage,
         AddClientKeyEncryption, AddAccountEnabled, AddAccountCookie, AddAccountUsageCache,
         AddAccountType, AddQuotaExhaustedState, AddClientKeyAllowedModels
    <2> QED
      BY <1>3, <2>3, <2>4
  <1>4. CASE n = 9
    <2>1. m = AddDisabledModels /\ DOMAIN AddDisabledModels = 1..1
      BY <1>4, MigrationList DEF AddDisabledModels
    <2> QED
      BY <1>4, <2>1, OtherMigrationFacts DEF CreatesTable
  <1>5. CASE n = 11
    <2>1. m = RenamePersistedLoginKey /\ DOMAIN RenamePersistedLoginKey = 1..2
      BY <1>5, MigrationList DEF RenamePersistedLoginKey
    <2> QED
      BY <1>5, <2>1, OtherMigrationFacts
  <1>6. CASE n = 12
    <2>1. m = AddManagementAuth /\ DOMAIN AddManagementAuth = 1..4
      BY <1>6, MigrationList DEF AddManagementAuth
    <2>2. CreatesTable(AddManagementAuth[3]) /\ CreatesTable(AddManagementAuth[4])
      BY OtherMigrationFacts DEF CreatesTable
    <2> QED
      BY <1>6, <2>1, <2>2, OtherMigrationFacts
  <1> QED
    BY <1>1, <1>2, <1>3, <1>4, <1>5, <1>6

\* Each column the queries need is added by a migration, so that a database
\* with all of them has the whole schema.
LEMMA NeededAdded ==
    \A c \in Needed : \E n \in Number : \E k \in DOMAIN Migrations[n] : c \in Adds(Migrations[n][k])
  <1> SUFFICES ASSUME NEW c \in Needed
               PROVE  \E n \in Number : \E k \in DOMAIN Migrations[n] : c \in Adds(Migrations[n][k])
    OBVIOUS
  <1> DEFINE By(n, k) == c \in Adds(Migrations[n][k])
  <1>1. /\ Len(Migrations[1]) = 5 /\ Len(Migrations[2]) = 1 /\ Len(Migrations[3]) = 1
        /\ Len(Migrations[4]) = 2 /\ Len(Migrations[5]) = 1 /\ Len(Migrations[6]) = 1
        /\ Len(Migrations[7]) = 2 /\ Len(Migrations[8]) = 1 /\ Len(Migrations[9]) = 1
        /\ Len(Migrations[10]) = 1 /\ Len(Migrations[12]) = 4
        /\ Len(Migrations[13]) = 1 /\ Len(Migrations[14]) = 1
    BY MigrationList, InitialFacts, ColumnMigrationFacts, OtherMigrationFacts
  <1>2. \A n \in 1..14 : DOMAIN Migrations[n] = 1..Len(Migrations[n])
    BY StatementFacts, MigrationList
  <1>3. \/ \E k \in 1..5 : By(1, k)
        \/ By(2, 1) \/ By(3, 1) \/ By(4, 1) \/ By(4, 2) \/ By(5, 1) \/ By(6, 1)
        \/ By(7, 1) \/ By(7, 2) \/ By(8, 1) \/ By(9, 1) \/ By(10, 1)
        \/ By(12, 3) \/ By(12, 4) \/ By(13, 1) \/ By(14, 1)
    <2>1. CASE c \in Columns("api_keys", {"proxy_id", "is_enabled", "cookie_enc", "workspace_id",
                                "account_type", "quota_exhausted_at", "usage_cache"})
      BY <2>1, MigrationList, InitialFacts, ColumnMigrationFacts DEF Columns, Creates, AddsTo
    <2>2. CASE c \in Columns("client_api_keys", {"key_enc", "allowed_models"})
      BY <2>2, MigrationList, InitialFacts, ColumnMigrationFacts DEF Columns, Creates, AddsTo
    <2>3. CASE c \in Columns("request_logs", {"first_token_ms", "cached_tokens",
                                              "cache_creation_tokens"})
      BY <2>3, MigrationList, InitialFacts, ColumnMigrationFacts DEF Columns, Creates, AddsTo
    <2>4. CASE c \in UNION {Columns(t, {}) : t \in {"meta", "proxies", "disabled_models",
                                                    "web_sessions", "admin_tokens"}}
      BY <2>4, MigrationList, InitialFacts, OtherMigrationFacts DEF Columns, Creates
    <2> QED
      BY <2>1, <2>2, <2>3, <2>4 DEF Needed
  <1>4. ASSUME NEW n \in 1..14, NEW k \in 1..Len(Migrations[n]), By(n, k)
        PROVE  \E i \in Number : \E j \in DOMAIN Migrations[i] : c \in Adds(Migrations[i][j])
    BY <1>2, <1>4, MigrationList
  <1> HIDE DEF By
  <1>5. \E n \in 1..14 : \E k \in 1..Len(Migrations[n]) : By(n, k)
    <2>1. \A k \in 1..5 : k \in 1..Len(Migrations[1])
      BY <1>1
    <2>2. ASSUME NEW n \in 1..14 PROVE 1 \in 1..Len(Migrations[n])
      <3>1. Len(Migrations[n]) \in 1..5
        BY StatementFacts, MigrationList
      <3>2. \A l \in 1..5 : 1 \in 1..l
        OBVIOUS
      <3> QED
        BY <3>1, <3>2, Zenon
    <2>3. 2 \in 1..Len(Migrations[4]) /\ 2 \in 1..Len(Migrations[7])
      BY <1>1
    <2>4. 3 \in 1..Len(Migrations[12]) /\ 4 \in 1..Len(Migrations[12])
      BY <1>1
    <2>5. CASE \E k \in 1..5 : By(1, k)
      BY <2>1, <2>5
    <2>6. CASE \E n \in {2, 3, 4, 5, 6, 7, 8, 9, 10, 13, 14} : By(n, 1)
      <3>1. PICK n \in {2, 3, 4, 5, 6, 7, 8, 9, 10, 13, 14} : By(n, 1)
        BY <2>6
      <3>2. n \in 1..14
        OBVIOUS
      <3>3. 1 \in 1..Len(Migrations[n])
        BY <2>2, <3>2
      <3> QED
        BY <3>1, <3>2, <3>3
    <2>7. CASE By(4, 2) \/ By(7, 2) \/ By(12, 3) \/ By(12, 4)
      BY <2>3, <2>4, <2>7
    <2> QED
      BY <1>3, <2>5, <2>6, <2>7
  <1> QED
    BY <1>4, <1>5

-----------------------------------------------------------------------------
(* The inductive invariant. *)

Types ==
    /\ schema \subseteq Needed /\ keys \subseteq KeyName /\ applied \subseteq Number
    /\ pc \in {"down", "migrating", "failed", "serving"}
    /\ at \in (0..14) \X (0..6)
    /\ persisted \in BOOLEAN /\ crashes \in 0..MaxCrashes

\* What is recorded is a first part of the list, and the next one is under way.
Order ==
    /\ \E n \in 0..14 : applied = 1..n
    /\ pc = "migrating" =>
          /\ at[1] \in Number /\ applied = 1..(at[1] - 1)
          /\ at[2] \in 1..(Len(Migrations[at[1]]) + 1)
    /\ pc = "serving" => Number \subseteq applied

\* What is recorded has been done, and so have the statements before the
\* present one: nothing takes a column or a table away again.
Built ==
    /\ \A n \in applied : \A k \in DOMAIN Migrations[n] : Adds(Migrations[n][k]) \subseteq schema
    /\ pc = "migrating" =>
          \A k \in DOMAIN Migrations[at[1]] :
              k < at[2] => Adds(Migrations[at[1]][k]) \subseteq schema

\* Where the key is, as far as the two migrations have gone: an old name goes
\* only after the new one was written.
Moved ==
    /\ 11 \in applied => "auto_unlock_key" \notin keys
    /\ 12 \in applied => "login_key" \notin keys
    /\ pc = "migrating" /\ at[1] = 11 =>
          /\ at[2] = 2 /\ "auto_unlock_key" \in keys => "login_key" \in keys
          /\ at[2] > 2 => "auto_unlock_key" \notin keys
    /\ pc = "migrating" /\ at[1] = 12 =>
          /\ at[2] = 2 /\ "login_key" \in keys => "encryption_key" \in keys
          /\ at[2] > 2 => "login_key" \notin keys

IInv == Types /\ Order /\ Built /\ Moved /\ KeyKept

\* The parts of the invariant that the properties need.
LEMMA InvariantGives == IInv => TypeOK /\ KeyKept /\ ServesWhole
  <1> SUFFICES ASSUME IInv PROVE TypeOK /\ ServesWhole
    BY DEF IInv
  <1> USE DEF IInv
  <1>1. TypeOK
    <2>1. pc = "migrating" => at[1] \in Number \ applied
      BY MigrationList DEF Order
    <2>2. at[1] \in 0..Len(Migrations) /\ at[2] \in 0..6
      BY MigrationList DEF Types
    <2> QED
      BY <2>1, <2>2 DEF Types, TypeOK
  <1>2. ASSUME pc = "serving" PROVE Needed \subseteq schema
    <2>1. Number \subseteq applied
      BY <1>2 DEF Order
    <2> QED
      BY <2>1, NeededAdded DEF Built
  <1>3. ASSUME pc = "serving", persisted PROVE keys = {"encryption_key"}
    <2>1. 11 \in applied /\ 12 \in applied
      BY <1>3, MigrationList DEF Order
    <2>2. "auto_unlock_key" \notin keys /\ "login_key" \notin keys
      BY <2>1 DEF Moved
    <2>3. "encryption_key" \in keys
      BY <1>3, <2>1 DEF KeyKept
    <2> QED
      BY <2>2, <2>3 DEF Types, KeyName
  <1> QED
    BY <1>1, <1>2, <1>3 DEF ServesWhole

-----------------------------------------------------------------------------
(* Databases found by a start. *)

LEMMA AddedFacts ==
    ASSUME NEW n \in Number
    PROVE  /\ AddedBy(n) \subseteq Needed
           /\ \A k \in DOMAIN Migrations[n] : Adds(Migrations[n][k]) \subseteq AddedBy(n)
  <1>1. \A k \in DOMAIN Migrations[n] : Adds(Migrations[n][k]) \subseteq Needed
    <2> TAKE k \in DOMAIN Migrations[n]
    <2> DEFINE s == Migrations[n][k]
    <2>1. \/ CreatesTable(s) \/ AddsNeeded(s)
          \/ \E a, b : Copies(s, a, b) \/ Deletes(s, a)
      BY StatementFacts
    <2> HIDE DEF s
    <2>2. Adds(s) \subseteq Needed
      <3>1. CASE CreatesTable(s)
        BY <3>1 DEF CreatesTable, Creates
      <3>2. CASE AddsNeeded(s)
        BY <3>2 DEF AddsNeeded, AddsTo
      <3>3. CASE \E a, b : Copies(s, a, b) \/ Deletes(s, a)
        BY <3>3 DEF Copies, Deletes
      <3> QED
        BY <2>1, <3>1, <3>2, <3>3
    <2> QED
      BY <2>2 DEF s
  <1> QED
    BY <1>1 DEF AddedBy

LEMMA InitialDatabase == Init => IInv
  <1> SUFFICES ASSUME Init PROVE IInv
    OBVIOUS
  <1>1. pc = "down" /\ at = <<0, 0>> /\ crashes = 0
    BY DEF Init
  <1>1a. at \in (0..14) \X (0..6) /\ crashes \in 0..MaxCrashes
    BY <1>1, CrashAssumption
  <1>2. CASE schema = {} /\ keys = {} /\ applied = {} /\ persisted = FALSE
    <2>1. Types
      BY <1>1, <1>1a, <1>2 DEF Types
    <2>2. applied = 1..0
      BY <1>2
    <2> QED
      BY <1>1, <1>2, <2>1, <2>2 DEF IInv, Order, Built, Moved, KeyKept
  <1>3. CASE Found(UNION {Columns(t, {}) : t \in {"meta", "api_keys", "client_api_keys"}},
                   "auto_unlock_key", {})
    <2>1. schema \subseteq Needed
      BY <1>3, NeededColumns DEF Found, Columns
    <2>2. /\ \/ keys = {} /\ persisted = FALSE
             \/ keys = {"auto_unlock_key"} /\ persisted = TRUE
          /\ applied = {}
      BY <1>3 DEF Found
    <2>3. Types
      BY <1>1, <1>1a, <2>1, <2>2 DEF Types, KeyName
    <2>4. applied = 1..0
      BY <2>2
    <2> QED
      BY <1>1, <2>2, <2>3, <2>4 DEF IInv, Order, Built, Moved, KeyKept
  <1>4. ASSUME NEW n \in Number, Found(UNION {AddedBy(m) : m \in 1..n}, NameAt(n), 1..n)
        PROVE  IInv
    <2>1. n \in 1..14 /\ 1..n \subseteq Number
      BY MigrationList
    <2>2. /\ n < 11 => NameAt(n) = "auto_unlock_key"
          /\ n = 11 => NameAt(n) = "login_key"
          /\ n > 11 => NameAt(n) = "encryption_key"
      BY <2>1 DEF NameAt
    <2>3. /\ schema = UNION {AddedBy(m) : m \in 1..n} /\ applied = 1..n
          /\ \/ keys = {} /\ persisted = FALSE
             \/ keys = {NameAt(n)} /\ persisted = TRUE
      BY <1>4 DEF Found
    <2>4. NameAt(n) \in KeyName
      BY <2>1, <2>2 DEF KeyName
    <2>5. Types
      <3>1. schema \subseteq Needed
        BY <2>1, <2>3, AddedFacts
      <3>2. keys \subseteq KeyName /\ persisted \in BOOLEAN
        BY <2>3, <2>4
      <3> QED
        BY <1>1, <1>1a, <2>1, <2>3, <3>1, <3>2 DEF Types
    <2>6. Order
      <3>1. \E i \in 0..14 : applied = 1..i
        <4>1. n \in 0..14
          BY <2>1
        <4> QED
          BY <4>1, <2>3, Zenon
      <3> QED
        BY <1>1, <3>1 DEF Order
    <2>7. Built
      BY <1>1, <2>1, <2>3, AddedFacts DEF Built
    <2>8. Moved /\ KeyKept
      BY <1>1, <2>1, <2>2, <2>3 DEF Moved, KeyKept
    <2> QED
      BY <2>5, <2>6, <2>7, <2>8 DEF IInv
  <1> QED
    BY <1>2, <1>3, <1>4 DEF Init

-----------------------------------------------------------------------------
(* The steps. *)

\* The migrator goes on with the first migration that is not recorded.
LEMMA ProceedFacts ==
    ASSUME NEW n \in 0..14, Proceed(1..n)
    PROVE  \/ n = 14 /\ pc' = "serving" /\ at' = <<0, 0>>
           \/ n < 14 /\ pc' = "migrating" /\ at' = <<n + 1, 1>>
  <1>1. CASE n = 14
    BY <1>1, MigrationList DEF Proceed
  <1>2. CASE n < 14
    <2>1. n + 1 \in Number /\ n + 1 \notin 1..n
      BY <1>2, MigrationList
    <2>2. /\ n + 1 \in Number \ (1..n)
          /\ \A m \in Number \ (1..n) : n + 1 <= m
      BY <1>2, MigrationList
    <2>3. \A i \in Number \ (1..n) : (\A m \in Number \ (1..n) : i <= m) => i = n + 1
      BY <2>2, MigrationList
    <2>4. Least(Number \ (1..n)) = n + 1
      BY <2>2, <2>3, Zenon DEF Least
    <2> QED
      BY <1>2, <2>1, <2>4 DEF Proceed
  <1> QED
    BY <1>1, <1>2

\* A step that takes the migrator on, with what was recorded so far.
LEMMA ProceedKeeps ==
    ASSUME IInv, NEW n \in 0..14, applied' = 1..n, Proceed(1..n),
           UNCHANGED <<schema, keys, persisted, crashes>>,
           \A m \in 1..n : \A k \in DOMAIN Migrations[m] : Adds(Migrations[m][k]) \subseteq schema,
           n >= 11 => "auto_unlock_key" \notin keys,
           n >= 12 => "login_key" \notin keys,
           KeyKept'
    PROVE  IInv'
  <1>1. \/ n = 14 /\ pc' = "serving" /\ at' = <<0, 0>>
        \/ n < 14 /\ pc' = "migrating" /\ at' = <<n + 1, 1>>
    BY ProceedFacts
  <1>2. n < 14 => n + 1 \in Number
    BY MigrationList
  <1>3. Types'
    <2>1. applied' \subseteq Number
      BY MigrationList
    <2>2. at' \in (0..14) \X (0..6) /\ pc' \in {"migrating", "serving"}
      BY <1>1
    <2> QED
      BY <2>1, <2>2 DEF IInv, Types
  <1>4. Order'
    <2>1. \E i \in 0..14 : applied' = 1..i
      BY Zenon
    <2>2. pc' = "migrating" =>
            /\ at'[1] \in Number /\ applied' = 1..(at'[1] - 1)
            /\ at'[2] \in 1..(Len(Migrations[at'[1]]) + 1)
      <3> SUFFICES ASSUME pc' = "migrating" PROVE /\ at'[1] \in Number /\ applied' = 1..(at'[1] - 1)
            /\ at'[2] \in 1..(Len(Migrations[at'[1]]) + 1)
        OBVIOUS
      <3>1. at' = <<n + 1, 1>> /\ n + 1 \in Number
        BY <1>1, <1>2
      <3>2. at'[1] = n + 1 /\ at'[2] = 1 /\ at'[1] - 1 = n
        BY <3>1
      <3>3. Len(Migrations[n + 1]) \in 1..5
        BY <3>1, StatementFacts
      <3> QED
        BY <3>1, <3>2, <3>3
    <2>3. pc' = "serving" => Number \subseteq applied'
      BY <1>1, MigrationList
    <2> QED
      BY <2>1, <2>2, <2>3 DEF Order
  <1>5. Built'
    <2>1. \A m \in applied' : \A k \in DOMAIN Migrations[m] : Adds(Migrations[m][k]) \subseteq schema'
      OBVIOUS
    <2>2. pc' = "migrating" => at'[2] = 1 /\ at'[1] \in Number
      BY <1>1, <1>2
    <2>3. pc' = "migrating" => \A k \in DOMAIN Migrations[at'[1]] : ~(k < at'[2])
      BY <2>2, StatementFacts
    <2> QED
      BY <2>1, <2>3 DEF Built
  <1>6. Moved'
    <2>1. pc' = "migrating" => at'[2] = 1
      BY <1>1
    <2>2. /\ 11 \in applied' => "auto_unlock_key" \notin keys'
          /\ 12 \in applied' => "login_key" \notin keys'
      OBVIOUS
    <2> QED
      BY <2>1, <2>2 DEF Moved
  <1> QED
    BY <1>3, <1>4, <1>5, <1>6 DEF IInv

\* A statement that has gone through: the next one is on.
LEMMA AdvanceKeeps ==
    ASSUME IInv, pc = "migrating", at[2] <= Len(Migrations[at[1]]), NextStatement,
           UNCHANGED <<persisted, crashes>>,
           schema' \subseteq Needed, schema \subseteq schema', Adds(Statement) \subseteq schema',
           keys' \subseteq KeyName
    PROVE  Types' /\ Order' /\ Built'
  <1>1. /\ at[1] \in Number /\ applied = 1..(at[1] - 1) /\ at[2] \in 1..5
        /\ Len(Migrations[at[1]]) \in 1..5
        /\ DOMAIN Migrations[at[1]] = 1..Len(Migrations[at[1]])
    <2>1. at[1] \in Number /\ applied = 1..(at[1] - 1) /\ at[2] >= 1 /\ at[2] \in 0..6
      BY DEF IInv, Order, Types
    <2>2. Len(Migrations[at[1]]) \in 1..5 /\ DOMAIN Migrations[at[1]] = 1..Len(Migrations[at[1]])
      BY <2>1, StatementFacts
    <2>3. \A l \in 1..5, k \in 0..6 : k <= l /\ k >= 1 => k \in 1..5
      OBVIOUS
    <2>4. at[2] \in 1..5
      BY <2>1, <2>2, <2>3, Zenon
    <2> QED
      BY <2>1, <2>2, <2>4
  <1>2. at' = <<at[1], at[2] + 1>> /\ pc' = "migrating" /\ applied' = applied
    <2>1. at \in (0..14) \X (0..6)
      BY DEF IInv, Types
    <2> QED
      BY <2>1 DEF NextStatement
  <1>3. at'[1] = at[1] /\ at'[2] = at[2] + 1
    BY <1>2
  <1>4. Types'
    <2>1. at' \in (0..14) \X (0..6)
      BY <1>1, <1>2, MigrationList
    <2> QED
      BY <1>2, <2>1 DEF IInv, Types
  <1>5. Order'
    <2>1. \E n \in 0..14 : applied' = 1..n
      BY <1>2 DEF IInv, Order
    <2>2. at'[2] \in 1..(Len(Migrations[at'[1]]) + 1)
      BY <1>1, <1>3
    <2> QED
      BY <1>1, <1>2, <1>3, <2>1, <2>2 DEF Order
  <1>6. Built'
    <2>1. \A n \in applied' : \A k \in DOMAIN Migrations[n] : Adds(Migrations[n][k]) \subseteq schema'
      BY <1>2 DEF IInv, Built
    <2>2. ASSUME NEW k \in DOMAIN Migrations[at[1]], k < at[2] + 1
          PROVE  Adds(Migrations[at[1]][k]) \subseteq schema'
      <3>1. k \in Int
        BY <1>1
      <3>2. CASE k < at[2]
        BY <3>2 DEF IInv, Built
      <3>3. CASE k = at[2]
        BY <3>3 DEF Statement
      <3> QED
        BY <1>1, <2>2, <3>1, <3>2, <3>3
    <2> QED
      BY <1>2, <1>3, <2>1, <2>2 DEF Built
  <1> QED
    BY <1>4, <1>5, <1>6

\* The present statement, by its operation.
LEMMA NowFacts ==
    ASSUME IInv, NEW op, Now(op)
    PROVE  /\ pc = "migrating" /\ at[1] \in Number /\ at[2] \in 1..Len(Migrations[at[1]])
           /\ at[2] <= Len(Migrations[at[1]])
           /\ op = "create" => CreatesTable(Statement) /\ at[1] # 11 /\ (at[1] = 12 => at[2] > 2)
           /\ op = "add" => AddsNeeded(Statement) /\ at[1] \notin {11, 12}
           /\ op = "copy" =>
                \/ at[1] = 11 /\ at[2] = 1 /\ Copies(Statement, "auto_unlock_key", "login_key")
                \/ at[1] = 12 /\ at[2] = 1 /\ Copies(Statement, "login_key", "encryption_key")
           /\ op = "delete" =>
                \/ at[1] = 11 /\ at[2] = 2 /\ Deletes(Statement, "auto_unlock_key")
                \/ at[1] = 12 /\ at[2] = 2 /\ Deletes(Statement, "login_key")
  <1>1. /\ pc = "migrating" /\ at[1] \in Number
        /\ at[2] \in 1..Len(Migrations[at[1]]) /\ at[2] <= Len(Migrations[at[1]])
        /\ Statement.op = op
    <2>1. /\ pc = "migrating" /\ at[2] <= Len(Migrations[at[1]]) /\ Statement.op = op
      BY DEF Now
    <2>2. at[1] \in Number /\ at[2] >= 1 /\ at[2] \in 0..6
      BY <2>1 DEF IInv, Order, Types
    <2>3. Len(Migrations[at[1]]) \in 1..5
      BY <2>2, StatementFacts
    <2> QED
      BY <2>1, <2>2, <2>3
  <1> DEFINE n == at[1]
             k == at[2]
  <1>2. \/ CreatesTable(Statement) /\ (n = 12 => k > 2) /\ n # 11
        \/ AddsNeeded(Statement) /\ n \notin {11, 12}
        \/ n = 11 /\ k = 1 /\ Copies(Statement, "auto_unlock_key", "login_key")
        \/ n = 11 /\ k = 2 /\ Deletes(Statement, "auto_unlock_key")
        \/ n = 12 /\ k = 1 /\ Copies(Statement, "login_key", "encryption_key")
        \/ n = 12 /\ k = 2 /\ Deletes(Statement, "login_key")
    BY <1>1, StatementFacts DEF Statement
  <1>3. /\ CreatesTable(Statement) => Statement.op = "create"
        /\ AddsNeeded(Statement) => Statement.op = "add"
        /\ \A a, b : Copies(Statement, a, b) => Statement.op = "copy"
        /\ \A a : Deletes(Statement, a) => Statement.op = "delete"
    BY DEF CreatesTable, Creates, AddsNeeded, AddsTo, Copies, Deletes
  <1> QED
    BY <1>1, <1>2, <1>3

LEMMA CreateKeeps == IInv /\ CreateTable => IInv'
  <1> SUFFICES ASSUME IInv, CreateTable PROVE IInv'
    OBVIOUS
  <1>1. /\ pc = "migrating" /\ at[1] \in Number /\ at[2] \in 1..Len(Migrations[at[1]])
        /\ at[2] <= Len(Migrations[at[1]])
        /\ CreatesTable(Statement) /\ at[1] # 11 /\ (at[1] = 12 => at[2] > 2)
    BY NowFacts DEF CreateTable
  <1>2. NextStatement /\ UNCHANGED <<keys, persisted, crashes>>
    BY DEF CreateTable
  <1>3. schema' \subseteq Needed /\ schema \subseteq schema' /\ Adds(Statement) \subseteq schema'
    <2>1. PICK t : Creates(Statement, t)
      BY <1>1 DEF CreatesTable
    <2>2. schema \subseteq Needed
      BY DEF IInv, Types
    <2> HIDE DEF Statement
    <2> QED
      BY <2>1, <2>2 DEF CreateTable, Creates
  <1>4. Types' /\ Order' /\ Built'
    <2>1. keys' \subseteq KeyName
      BY <1>2 DEF IInv, Types
    <2> QED
      BY <1>1, <1>2, <1>3, <2>1, AdvanceKeeps
  <1>5. Moved'
    <2>1. at'[1] = at[1] /\ at'[2] = at[2] + 1 /\ pc' = pc /\ applied' = applied /\ at[2] \in Nat
      BY <1>2 DEF NextStatement, IInv, Types
    <2> QED
      BY <1>1, <1>2, <2>1 DEF IInv, Moved
  <1>6. KeyKept'
    BY <1>2 DEF IInv, KeyKept, NextStatement
  <1> QED
    BY <1>4, <1>5, <1>6 DEF IInv

LEMMA AddKeeps == IInv /\ AddColumn => IInv'
  <1> SUFFICES ASSUME IInv, AddColumn PROVE IInv'
    OBVIOUS
  <1>1. /\ pc = "migrating" /\ at[1] \in Number /\ at[2] \in 1..Len(Migrations[at[1]])
        /\ at[2] <= Len(Migrations[at[1]])
        /\ AddsNeeded(Statement) /\ at[1] \notin {11, 12}
    BY NowFacts DEF AddColumn
  <1>2. CASE pc' = "failed" /\ UNCHANGED <<schema, applied, at, keys, persisted, crashes>>
    <2>1. Types' /\ Order' /\ Built'
      BY <1>2 DEF IInv, Types, Order, Built
    <2>2. Moved' /\ KeyKept'
      BY <1>2 DEF IInv, Moved, KeyKept
    <2> QED
      BY <2>1, <2>2 DEF IInv
  <1>3. CASE schema' = schema \cup {Statement.column} /\ NextStatement
             /\ UNCHANGED <<keys, persisted, crashes>>
    <2>1. schema' \subseteq Needed /\ schema \subseteq schema' /\ Adds(Statement) \subseteq schema'
      <3>1. PICK t, c : AddsTo(Statement, t, c) /\ <<t, c>> \in Needed
        BY <1>1 DEF AddsNeeded
      <3>2. schema \subseteq Needed
        BY DEF IInv, Types
      <3> HIDE DEF Statement
      <3> QED
        BY <1>3, <3>1, <3>2 DEF AddsTo
    <2>2. Types' /\ Order' /\ Built'
      <3>1. keys' \subseteq KeyName
        BY <1>3 DEF IInv, Types
      <3> QED
        BY <1>1, <1>3, <2>1, <3>1, AdvanceKeeps
    <2>3. Moved'
      <3>1. at'[1] = at[1] /\ pc' = pc /\ applied' = applied
        BY <1>3 DEF NextStatement, IInv, Types
      <3> QED
        BY <1>1, <1>3, <3>1 DEF IInv, Moved
    <2>4. KeyKept'
      BY <1>3 DEF IInv, KeyKept, NextStatement
    <2> QED
      BY <2>2, <2>3, <2>4 DEF IInv
  <1> QED
    BY <1>2, <1>3 DEF AddColumn

\* The new name is written before the old one goes.
LEMMA CopyKeeps == IInv /\ CopyKey => IInv'
  <1> SUFFICES ASSUME IInv, CopyKey PROVE IInv'
    OBVIOUS
  <1>1. /\ pc = "migrating" /\ at[1] \in Number /\ at[2] = 1
        /\ at[2] <= Len(Migrations[at[1]])
        /\ \/ at[1] = 11 /\ Copies(Statement, "auto_unlock_key", "login_key")
           \/ at[1] = 12 /\ Copies(Statement, "login_key", "encryption_key")
    BY NowFacts DEF CopyKey
  <1>2. NextStatement /\ UNCHANGED <<schema, persisted, crashes>>
    BY DEF CopyKey
  <1>3. \/ /\ at[1] = 11
           /\ keys' = IF "auto_unlock_key" \in keys THEN keys \cup {"login_key"} ELSE keys
        \/ /\ at[1] = 12
           /\ keys' = IF "login_key" \in keys THEN keys \cup {"encryption_key"} ELSE keys
    BY <1>1 DEF CopyKey, Copies
  <1>4. Adds(Statement) = {}
    BY <1>1 DEF Copies
  <1>5. keys \subseteq keys' /\ keys' \subseteq KeyName
    BY <1>3 DEF IInv, Types, KeyName
  <1>6. Types' /\ Order' /\ Built'
    <2>1. schema' \subseteq Needed /\ schema \subseteq schema' /\ Adds(Statement) \subseteq schema'
      BY <1>2, <1>4 DEF IInv, Types
    <2> QED
      BY <1>1, <1>2, <1>5, <2>1, AdvanceKeeps
  <1>7. at'[1] = at[1] /\ at'[2] = 2 /\ pc' = pc /\ applied' = applied
    BY <1>1, <1>2 DEF NextStatement, IInv, Types
  <1>8. 12 \notin applied /\ (at[1] = 11 => 11 \notin applied)
    BY <1>1, <1>3 DEF IInv, Order
  <1>9. Moved'
    BY <1>1, <1>3, <1>7, <1>8 DEF IInv, Moved
  <1>10. KeyKept'
    BY <1>2, <1>5, <1>7 DEF IInv, KeyKept
  <1> QED
    BY <1>6, <1>9, <1>10 DEF IInv

\* The old name goes when the new one is there, or there was none.
LEMMA DeleteKeeps == IInv /\ DeleteKey => IInv'
  <1> SUFFICES ASSUME IInv, DeleteKey PROVE IInv'
    OBVIOUS
  <1>1. /\ pc = "migrating" /\ at[1] \in Number /\ at[2] = 2
        /\ at[2] <= Len(Migrations[at[1]])
        /\ \/ at[1] = 11 /\ Deletes(Statement, "auto_unlock_key")
           \/ at[1] = 12 /\ Deletes(Statement, "login_key")
    BY NowFacts DEF DeleteKey
  <1>2. NextStatement /\ UNCHANGED <<schema, persisted, crashes>>
    BY DEF DeleteKey
  <1>3. \/ at[1] = 11 /\ keys' = keys \ {"auto_unlock_key"}
        \/ at[1] = 12 /\ keys' = keys \ {"login_key"}
    BY <1>1 DEF DeleteKey, Deletes
  <1>4. Adds(Statement) = {}
    BY <1>1 DEF Deletes
  <1>5. Types' /\ Order' /\ Built'
    <2>1. schema' \subseteq Needed /\ schema \subseteq schema' /\ Adds(Statement) \subseteq schema'
      BY <1>2, <1>4 DEF IInv, Types
    <2>2. keys' \subseteq KeyName
      BY <1>3 DEF IInv, Types
    <2> QED
      BY <1>1, <1>2, <2>1, <2>2, AdvanceKeeps
  <1>6. at'[1] = at[1] /\ at'[2] = 3 /\ pc' = pc /\ applied' = applied
    BY <1>1, <1>2 DEF NextStatement, IInv, Types
  <1>7. /\ 12 \notin applied
        /\ at[1] = 11 => 11 \notin applied
        /\ at[1] = 12 => 11 \in applied
    BY <1>1, <1>3 DEF IInv, Order
  <1>8. /\ at[1] = 11 /\ "auto_unlock_key" \in keys => "login_key" \in keys
        /\ at[1] = 12 /\ "login_key" \in keys => "encryption_key" \in keys
    BY <1>1 DEF IInv, Moved
  <1>9. Moved'
    BY <1>1, <1>3, <1>6, <1>7 DEF IInv, Moved
  <1>10. KeyKept'
    BY <1>2, <1>3, <1>6, <1>7, <1>8 DEF IInv, KeyKept
  <1> QED
    BY <1>5, <1>9, <1>10 DEF IInv

\* A migration is recorded when its last statement is done.
LEMMA RecordKeeps == IInv /\ Record => IInv'
  <1> SUFFICES ASSUME IInv, Record PROVE IInv'
    OBVIOUS
  <1> DEFINE n == at[1]
  <1>1. /\ pc = "migrating" /\ n \in Number /\ applied = 1..(n - 1)
        /\ at[2] > Len(Migrations[n])
    BY DEF Record, IInv, Order
  <1>2. n \in 1..14 /\ n \in 0..14
    BY <1>1, MigrationList
  <1>3. applied' = 1..n
    BY <1>1, <1>2 DEF Record
  <1>4. Proceed(1..n) /\ UNCHANGED <<schema, keys, persisted, crashes>>
    BY <1>3 DEF Record
  <1>5. \A m \in 1..n : \A k \in DOMAIN Migrations[m] : Adds(Migrations[m][k]) \subseteq schema
    <2>1. ASSUME NEW k \in DOMAIN Migrations[n] PROVE Adds(Migrations[n][k]) \subseteq schema
      <3>1. Len(Migrations[n]) \in 1..5 /\ k \in 1..Len(Migrations[n]) /\ at[2] \in 0..6
        BY <1>1, StatementFacts DEF IInv, Types
      <3>2. k < at[2]
        BY <1>1, <3>1
      <3> QED
        BY <1>1, <3>2 DEF IInv, Built
    <2>2. ASSUME NEW m \in 1..n, m # n
          PROVE  \A k \in DOMAIN Migrations[m] : Adds(Migrations[m][k]) \subseteq schema
      <3>1. m \in applied
        BY <1>1, <1>2, <2>2
      <3> QED
        BY <3>1 DEF IInv, Built
    <2> QED
      BY <2>1, <2>2
  <1>6. /\ n = 11 => at[2] > 2
        /\ n = 12 => at[2] > 2
    <2>1. (n = 11 => Len(Migrations[n]) = 2) /\ (n = 12 => Len(Migrations[n]) = 4)
      BY <1>1, StatementFacts
    <2>2. at[2] \in 0..6
      BY DEF IInv, Types
    <2>3. \A l : l = Len(Migrations[n]) => at[2] > l
      BY <1>1
    <2> HIDE DEF n
    <2>4. (n = 11 => at[2] > 2) /\ (n = 12 => at[2] > 4)
      BY <2>1, <2>3
    <2> QED
      BY <2>2, <2>4
  <1>7. n >= 11 => "auto_unlock_key" \notin keys
    <2>1. CASE n = 11
      BY <1>1, <1>6, <2>1 DEF IInv, Moved
    <2>2. CASE n > 11
      <3>1. 11 \in applied
        BY <1>1, <1>2, <2>2
      <3> QED
        BY <3>1 DEF IInv, Moved
    <2> QED
      BY <1>2, <2>1, <2>2
  <1>8. n >= 12 => "login_key" \notin keys
    <2>1. CASE n = 12
      BY <1>1, <1>6, <2>1 DEF IInv, Moved
    <2>2. CASE n > 12
      <3>1. 12 \in applied
        BY <1>1, <1>2, <2>2
      <3> QED
        BY <3>1 DEF IInv, Moved
    <2> QED
      BY <1>2, <2>1, <2>2
  <1>9. KeyKept'
    <2>1. ("auto_unlock_key" \in keys => n < 11) /\ ("login_key" \in keys => n < 12)
      BY <1>2, <1>7, <1>8
    <2> QED
      BY <1>2, <1>3, <1>4, <2>1 DEF IInv, KeyKept
  <1> HIDE DEF n
  <1> QED
    BY <1>2, <1>3, <1>4, <1>5, <1>7, <1>8, <1>9, ProceedKeeps

LEMMA StartKeeps == IInv /\ Start => IInv'
  <1> SUFFICES ASSUME IInv, Start PROVE IInv'
    OBVIOUS
  <1>1. PICK n \in 0..14 : applied = 1..n
    BY DEF IInv, Order
  <1>2. applied' = 1..n /\ Proceed(1..n) /\ UNCHANGED <<schema, keys, persisted, crashes>>
    BY <1>1 DEF Start, database
  <1>3. \A m \in 1..n : \A k \in DOMAIN Migrations[m] : Adds(Migrations[m][k]) \subseteq schema
    BY <1>1 DEF IInv, Built
  <1>4. /\ n >= 11 => "auto_unlock_key" \notin keys
        /\ n >= 12 => "login_key" \notin keys
    BY <1>1 DEF IInv, Moved
  <1>5. KeyKept'
    BY <1>1, <1>2 DEF IInv, KeyKept
  <1> QED
    BY <1>2, <1>3, <1>4, <1>5, ProceedKeeps

\* A crash leaves the database as it is; so does a stop, and the first login
\* adds the key under its last name.
LEMMA OthersKeep == IInv /\ (Crash \/ Stop \/ FirstLogin) => IInv'
  <1>1. ASSUME IInv, Crash PROVE IInv'
    <2>1. pc' = "down" /\ at' = <<0, 0>> /\ crashes' = crashes + 1 /\ crashes < MaxCrashes
          /\ UNCHANGED <<schema, keys, applied, persisted>>
      BY <1>1 DEF Crash, database
    <2>2. Types'
      BY <1>1, <2>1, CrashAssumption DEF IInv, Types
    <2>3. Order' /\ Built' /\ Moved' /\ KeyKept'
      BY <1>1, <2>1 DEF IInv, Order, Built, Moved, KeyKept
    <2> QED
      BY <2>2, <2>3 DEF IInv
  <1>2. ASSUME IInv, Stop PROVE IInv'
    <2>1. pc' = "down" /\ UNCHANGED <<schema, keys, applied, at, persisted, crashes>>
      BY <1>2 DEF Stop, database
    <2>2. Types'
      BY <1>2, <2>1 DEF IInv, Types
    <2>3. Order' /\ Built' /\ Moved' /\ KeyKept'
      BY <1>2, <2>1 DEF IInv, Order, Built, Moved, KeyKept
    <2> QED
      BY <2>2, <2>3 DEF IInv
  <1>3. ASSUME IInv, FirstLogin PROVE IInv'
    <2>1. /\ pc = "serving" /\ keys' = keys \cup {"encryption_key"} /\ persisted' = TRUE
          /\ UNCHANGED <<schema, applied, pc, at, crashes>>
      BY <1>3 DEF FirstLogin
    <2>2. Types'
      BY <1>3, <2>1 DEF IInv, Types, KeyName
    <2>3. Order' /\ Built' /\ Moved' /\ KeyKept'
      BY <1>3, <2>1 DEF IInv, Order, Built, Moved, KeyKept
    <2> QED
      BY <2>2, <2>3 DEF IInv
  <1> QED
    BY <1>1, <1>2, <1>3

-----------------------------------------------------------------------------
(* Theorems. *)

\* The invariant holds however often the upgrade is cut short.
THEOREM MigrationInvariant == Spec => []IInv
  <1>1. IInv /\ [Next]_vars => IInv'
    <2> SUFFICES ASSUME IInv, [Next]_vars PROVE IInv'
      OBVIOUS
    <2>1. CASE Start
      BY <2>1, StartKeeps
    <2>2. CASE Migrate
      BY <2>2, CreateKeeps, AddKeeps, CopyKeeps, DeleteKeeps, RecordKeeps DEF Migrate
    <2>3. CASE Crash \/ Stop \/ FirstLogin
      BY <2>3, OthersKeep
    <2>4. CASE UNCHANGED vars
      BY <2>4 DEF vars, database, IInv, Types, Order, Built, Moved, KeyKept
    <2> QED
      BY <2>1, <2>2, <2>3, <2>4 DEF Next
  <1> QED
    BY <1>1, InitialDatabase, PTL DEF Spec

\* Every variable keeps its type, and the migration under way is never one that
\* is recorded (migration/mod.rs).
THEOREM MigrationTypes == Spec => []TypeOK
  BY MigrationInvariant, InvariantGives, PTL

\* A key once persisted is never lost, whichever statements of the migrations
\* that rename it a crash falls between and however often (migration/mod.rs).
THEOREM KeySurvives == Spec => []KeyKept
  BY MigrationInvariant, InvariantGives, PTL

\* What is served has every column and table the queries name, and the key
\* under its last name only (main.rs).
THEOREM WholeWhenServing == Spec => []ServesWhole
  BY MigrationInvariant, InvariantGives, PTL
=============================================================================
