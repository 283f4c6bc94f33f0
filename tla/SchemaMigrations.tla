--------------------------- MODULE SchemaMigrations ---------------------------
(***************************************************************************)
(* The start of the gateway: sea-orm-migration brings the database to the  *)
(* present schema (migration/mod.rs) before anything is served (main.rs).  *)
(* On SQLite the migrator opens no transaction: each statement commits by  *)
(* itself, and a migration is recorded in a further one, so that a process *)
(* that dies in between leaves a migration half done or done but not       *)
(* recorded.  It is run again, from its first statement, at the next start.*)
(*                                                                         *)
(* A column is a pair of its table and its name; "base" stands for the     *)
(* columns a table has had since its first release.  Indexes are left out  *)
(* (each is created IF NOT EXISTS).  Of table meta only the names matter   *)
(* under which the encryption key was persisted by release after release.  *)
(***************************************************************************)
EXTENDS Integers, FiniteSets, Sequences

CONSTANT MaxCrashes     \* bound: crashes during a migration

ASSUME CrashAssumption == MaxCrashes \in Nat

VARIABLES
    schema,     \* the columns of the database
    keys,       \* the names in table meta that hold the encryption key
    applied,    \* table seaql_migrations
    pc,         \* the process: down, migrating, failed, serving
    at,         \* the migration under way: its number and the statement
    persisted,  \* history: the key was persisted at some time
    crashes

database == <<schema, keys, applied>>
vars == <<schema, keys, applied, pc, at, persisted, crashes>>

-----------------------------------------------------------------------------
(* The statements and the migrations, in the words of the source. *)

Columns(table, names) == {<<table, c>> : c \in names \cup {"base"}}

\* CREATE TABLE IF NOT EXISTS: nothing happens to a table that is there.
Create(table, names) ==
    [op |-> "create", table |-> table, columns |-> Columns(table, names)]
\* ALTER TABLE ADD COLUMN, behind a look at the table's columns or without.
Guarded(table, name) == [op |-> "add", column |-> <<table, name>>, guarded |-> TRUE]
Unguarded(table, name) == [op |-> "add", column |-> <<table, name>>, guarded |-> FALSE]
\* INSERT OR IGNORE ... SELECT, and the DELETE after it.
Copy(from, to) == [op |-> "copy", from |-> from, to |-> to]
Delete(name) == [op |-> "delete", from |-> name]

\* The tables as a fresh installation gets them: newer columns were added to
\* the first migration as well.
Initial ==
    <<Create("meta", {}),
      Create("api_keys", {"is_enabled", "cookie_enc", "workspace_id",
                          "usage_cache", "quota_exhausted_at"}),
      Create("proxies", {}), Create("client_api_keys", {}),
      Create("request_logs", {})>>
AddApiKeyProxy == <<Guarded("api_keys", "proxy_id")>>
AddFirstTokenTiming == <<Unguarded("request_logs", "first_token_ms")>>
AddCacheUsage == <<Guarded("request_logs", "cached_tokens"),
                   Guarded("request_logs", "cache_creation_tokens")>>
AddClientKeyEncryption == <<Guarded("client_api_keys", "key_enc")>>
AddAccountEnabled == <<Guarded("api_keys", "is_enabled")>>
\* Slip: the migration looks for neither column before it adds them.
AddAccountCookieBlindly == <<Unguarded("api_keys", "cookie_enc"),
                             Unguarded("api_keys", "workspace_id")>>
AddAccountCookie == <<Guarded("api_keys", "cookie_enc"),
                      Guarded("api_keys", "workspace_id")>>
AddAccountUsageCache == <<Guarded("api_keys", "usage_cache")>>
AddDisabledModels == <<Create("disabled_models", {})>>
AddAccountType == <<Guarded("api_keys", "account_type")>>
\* Slip: the old name is deleted before the new one is written.
RenamePersistedLoginKeyEarly == <<Delete("auto_unlock_key"),
                                  Copy("auto_unlock_key", "login_key")>>
RenamePersistedLoginKey == <<Copy("auto_unlock_key", "login_key"),
                             Delete("auto_unlock_key")>>
AddManagementAuth == <<Copy("login_key", "encryption_key"), Delete("login_key"),
                       Create("web_sessions", {}), Create("admin_tokens", {})>>
AddQuotaExhaustedState == <<Guarded("api_keys", "quota_exhausted_at")>>
AddClientKeyAllowedModels == <<Guarded("client_api_keys", "allowed_models")>>

\* Slip: the two migrations that move the key are listed the wrong way round.
MigrationsSwapped ==
    <<Initial, AddApiKeyProxy, AddFirstTokenTiming, AddCacheUsage,
      AddClientKeyEncryption, AddAccountEnabled, AddAccountCookie,
      AddAccountUsageCache, AddDisabledModels, AddAccountType,
      AddManagementAuth, RenamePersistedLoginKey, AddQuotaExhaustedState,
      AddClientKeyAllowedModels>>

\* The order in which they run, whatever their order in the file.
Migrations ==
    <<Initial, AddApiKeyProxy, AddFirstTokenTiming, AddCacheUsage,
      AddClientKeyEncryption, AddAccountEnabled, AddAccountCookie,
      AddAccountUsageCache, AddDisabledModels, AddAccountType,
      RenamePersistedLoginKey, AddManagementAuth, AddQuotaExhaustedState,
      AddClientKeyAllowedModels>>

Number == 1..Len(Migrations)
KeyName == {"auto_unlock_key", "login_key", "encryption_key"}

\* What the statements of the program name: the lists of columns in db.rs and
\* the tables of its other queries.
Needed ==
    Columns("api_keys", {"proxy_id", "is_enabled", "cookie_enc", "workspace_id",
                         "account_type", "quota_exhausted_at", "usage_cache"})
    \cup Columns("client_api_keys", {"key_enc", "allowed_models"})
    \cup Columns("request_logs", {"first_token_ms", "cached_tokens",
                                  "cache_creation_tokens"})
    \cup UNION {Columns(t, {}) : t \in {"meta", "proxies", "disabled_models",
                                        "web_sessions", "admin_tokens"}}

-----------------------------------------------------------------------------
(* Databases found by a start. *)

\* What a migration adds to a database that has its tables.
Adds(s) == IF s.op = "add" THEN {s.column}
           ELSE IF s.op = "create" THEN Columns(s.table, {}) ELSE {}
AddedBy(n) == UNION {Adds(Migrations[n][i]) : i \in DOMAIN Migrations[n]}

\* The name under which release n persisted the key.
NameAt(n) == CASE n < 11 -> "auto_unlock_key"
               [] n = 11 -> "login_key"
               [] OTHER  -> "encryption_key"

Found(columns, name, recorded) ==
    /\ schema = columns
    /\ applied = recorded
    /\ \/ keys = {} /\ persisted = FALSE
       \/ keys = {name} /\ persisted = TRUE

\* No file yet; a database older than the migrator; one of release n.
Init ==
    /\ \/ schema = {} /\ keys = {} /\ applied = {} /\ persisted = FALSE
       \/ Found(UNION {Columns(t, {}) : t \in {"meta", "api_keys", "client_api_keys"}},
                "auto_unlock_key", {})
       \/ \E n \in Number : Found(UNION {AddedBy(m) : m \in 1..n}, NameAt(n), 1..n)
    /\ pc = "down" /\ at = <<0, 0>> /\ crashes = 0

-----------------------------------------------------------------------------
Least(S) == CHOOSE n \in S : \A m \in S : n <= m

\* Slip: what is recorded stops the migrator at the end only.
ProceedAfresh(done) ==
    IF Number \subseteq done
    THEN pc' = "serving" /\ at' = <<0, 0>>
    ELSE pc' = "migrating" /\ at' = <<1, 1>>

\* main: the pending migrations in order, then the state and the listener.
Proceed(done) ==
    IF Number \subseteq done
    THEN pc' = "serving" /\ at' = <<0, 0>>
    ELSE pc' = "migrating" /\ at' = <<Least(Number \ done), 1>>

Start ==
    /\ pc \in {"down", "failed"}
    /\ Proceed(applied)
    /\ UNCHANGED <<database, persisted, crashes>>

Statement == Migrations[at[1]][at[2]]
Now(op) == /\ pc = "migrating"
           /\ at[2] <= Len(Migrations[at[1]])
           /\ Statement.op = op
NextStatement == at' = [at EXCEPT ![2] = @ + 1] /\ UNCHANGED <<pc, applied>>

CreateTable ==
    /\ Now("create")
    /\ schema' = IF <<Statement.table, "base">> \in schema
                 THEN schema ELSE schema \cup Statement.columns
    /\ NextStatement
    /\ UNCHANGED <<keys, persisted, crashes>>

\* Without the look at the columns SQLite refuses a duplicate, and the start
\* ends with the error.
AddColumn ==
    /\ Now("add")
    /\ IF Statement.column \in schema /\ ~Statement.guarded
       THEN pc' = "failed" /\ UNCHANGED <<schema, applied, at>>
       ELSE schema' = schema \cup {Statement.column} /\ NextStatement
    /\ UNCHANGED <<keys, persisted, crashes>>

CopyKey ==
    /\ Now("copy")
    /\ keys' = IF Statement.from \in keys THEN keys \cup {Statement.to} ELSE keys
    /\ NextStatement
    /\ UNCHANGED <<schema, persisted, crashes>>

DeleteKey ==
    /\ Now("delete")
    /\ keys' = keys \ {Statement.from}
    /\ NextStatement
    /\ UNCHANGED <<schema, persisted, crashes>>

\* The migrator's own row, after the last statement; then the next migration.
Record ==
    /\ pc = "migrating" /\ at[2] > Len(Migrations[at[1]])
    /\ applied' = applied \cup {at[1]}
    /\ Proceed(applied')
    /\ UNCHANGED <<schema, keys, persisted, crashes>>

\* The process dies, or a statement fails and ends it.
Crash ==
    /\ pc = "migrating" /\ crashes < MaxCrashes
    /\ pc' = "down" /\ at' = <<0, 0>> /\ crashes' = crashes + 1
    /\ UNCHANGED <<database, persisted>>

Stop ==
    /\ pc = "serving"
    /\ pc' = "down"
    /\ UNCHANGED <<database, at, persisted, crashes>>

\* A login persists the key (Vault.SaveKey).
FirstLogin ==
    /\ pc = "serving" /\ keys' = keys \cup {"encryption_key"} /\ persisted' = TRUE
    /\ UNCHANGED <<schema, applied, pc, at, crashes>>

Migrate == CreateTable \/ AddColumn \/ CopyKey \/ DeleteKey \/ Record

Next == Start \/ Migrate \/ Crash \/ Stop \/ FirstLogin

Spec == Init /\ [][Next]_vars

\* A process that is down is started again (restart: unless-stopped in
\* docker-compose.yml), and one that runs takes its steps.
FairSpec == Spec /\ WF_vars(Start) /\ WF_vars(Migrate)

-----------------------------------------------------------------------------
TypeOK ==
    /\ schema \subseteq Needed /\ keys \subseteq KeyName /\ applied \subseteq Number
    /\ pc \in {"down", "migrating", "failed", "serving"}
    /\ at[1] \in 0..Len(Migrations) /\ at[2] \in 0..6
    /\ (pc = "migrating") => at[1] \in Number \ applied
    /\ persisted \in BOOLEAN /\ crashes \in 0..MaxCrashes

\* A key once persisted stays where this start or a later one finds it: under
\* a name that a migration still to be recorded moves, or under the last one.
\* Whoever dies between the copy and the delete, or before the record, leaves
\* a state from which running the migration again does the right thing.
KeyKept ==
    persisted => \/ "encryption_key" \in keys
                 \/ "login_key" \in keys /\ 12 \notin applied
                 \/ "auto_unlock_key" \in keys /\ {11, 12} \cap applied = {}

\* What is served has every column and table that the queries name, whichever
\* release the database is from and however often its upgrade was cut short;
\* and if the key was ever persisted, the service starts unlocked and the key
\* is under no old name any more.
ServesWhole ==
    pc = "serving" =>
        /\ Needed \subseteq schema
        /\ persisted => keys = {"encryption_key"}

\* The one migration that cannot be run twice: done, and not recorded.
TimingBlocks == <<"request_logs", "first_token_ms">> \in schema /\ 3 \notin applied

\* No start fails for good on what interrupted upgrades have left: after finitely
\* many crashes the gateway serves, but for the window of migration 3, whose
\* ALTER TABLE has no look at the columns and from which no restart gets out.
UpgradesEnd == [](pc = "down" => <>(pc = "serving" \/ TimingBlocks))
=============================================================================
