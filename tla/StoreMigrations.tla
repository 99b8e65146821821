--------------------------- MODULE StoreMigrations ----------------------------
(***************************************************************************)
(* Opening the SQLite database: Open and migrate in internal/store/store.go.*)
(*                                                                         *)
(* Every process that opens the store (the manager, a scheduled backup, a  *)
(* command of the operator) runs all migrations in one transaction.  A     *)
(* release that knows the first v migrations runs those; a rolled-back     *)
(* update puts an earlier release in front of a newer database.            *)
(*                                                                         *)
(* A schema is its tables and the columns that were added to or changed in *)
(* a table later; rows are kept for the tables that migrations rewrite.    *)
(***************************************************************************)
EXTENDS Integers, FiniteSets

CONSTANTS
  Processes,
  Newest,      \* migrations of this release
  Releases,    \* the releases that open the database, by their migrations
  Accounts,    \* people who are given an account
  Rollback     \* earlier releases may open a newer database

VARIABLES
  db,          \* the committed database
  open,        \* processes that open it
  newest,      \* the newest release that has opened it
  people       \* what was entered: accounts and tokens

vars == <<db, open, newest, people>>

Empty == [versions |-> {}, tables |-> {}, columns |-> {}, rows |-> {}, error |-> FALSE]
Closed == [pc |-> "closed", release |-> 0, done |-> 0, base |-> Empty, tx |-> Empty]

Init ==
  /\ db = Empty
  /\ open = [p \in Processes |-> Closed]
  /\ newest = 0
  /\ people = [email |-> {}, local |-> {}, token |-> {}]

-----------------------------------------------------------------------------
(* Statements.  A statement that SQLite refuses is an error of the open.   *)
Table(d, t) == [d EXCEPT !.tables = @ \cup {t}]
Tables(d, ts) == [d EXCEPT !.tables = @ \cup ts]
NewTables(d, ts) == [d EXCEPT !.tables = @ \cup ts, !.error = @ \/ ts \cap d.tables # {}]
Columns(d, t, cs) ==
  [d EXCEPT !.columns = @ \cup {<<t, c>> : c \in cs},
            !.error = @ \/ t \notin d.tables \/ \E c \in cs : <<t, c>> \in d.columns]
ColumnsLoosely(d, t, cs) ==
  [d EXCEPT !.columns = @ \cup {<<t, c>> : c \in cs}, !.error = @ \/ t \notin d.tables]
WithoutColumns(d, t, cs) == [d EXCEPT !.columns = @ \ {<<t, c>> : c \in cs}]
WithoutTable(d, t) ==
  [d EXCEPT !.tables = @ \ {t}, !.columns = {c \in @ : c[1] # t}]
Record(d, v) == [d EXCEPT !.versions = @ \cup {v}]
OnceAlways(d, v, changed) == Record(changed, v)
Once(d, v, changed) == IF v \in d.versions THEN d ELSE Record(changed, v)

-----------------------------------------------------------------------------
(* The migrations.  Some change the schema on every open and only record   *)
(* their version once; the others run once.                                *)
M1(d) == Record(Table(d, "applications"), 1)
M2(d) == Record(Table(d, "services"), 2)
M3(d) == Once(d, 3, Columns(d, "services", {"service_type", "postgres_version", "database_name", "database_user"}))
M4(d) == Once(d, 4, Columns(d, "services", {"redis_version", "redis_port", "redis_persist_to_disk"}))

M5(d) == Record(Table(d, "domains"), 5)
M6(d) == Record(Table(d, "routings"), 6)
M7(d) == Once(d, 7, Columns(d, "services", {"image_name"}))
M8(d) == Record(Tables(d, {"backup_schedules", "backups"}), 8)
M9(d) == Record(Table(d, "authorized_emails"), 9)
M10(d) == Record(Table(d, "redlaunch_settings"), 10)
M11(d) == Record(Table(d, "github_actions_integrations"), 11)
M12(d) == Once(d, 12, Columns(d, "routings", {"service_port"}))
M13(d) == Record(Tables(d, {"backup_leases", "application_deletion_intents"}), 13)
M14(d) == Record(Table(d, "service_deletion_intents"), 14)
M15(d) == Record(Table(d, "redlaunch_domains"), 15)
M16(d) == Record(Table(d, "server_ssh_keys"), 16)

KeyRestriction == {"application_id", "service_name", "permit_open"}
M17(d) == Once(d, 17, Columns(d, "server_ssh_keys", KeyRestriction))
M18(d) == Record(Table(d, "api_tokens"), 18)

M19Once(d) ==
  Once(d, 19, WithoutColumns(WithoutTable(d, "github_actions_integrations"), "server_ssh_keys", KeyRestriction))

M19(d) ==
  Record(WithoutColumns(WithoutTable(d, "github_actions_integrations"), "server_ssh_keys", KeyRestriction), 19)
M20(d) ==
  LET t == Table(d, "registry_retention_policies")
  IN Once(t, 20, ColumnsLoosely(t, "redlaunch_settings", {"registry_default_keep"}))
M21(d) ==
  Record(Tables(d, {"managed_database_cluster", "managed_databases", "managed_database_users",
                    "managed_database_grants", "managed_database_backup_schedules",
                    "managed_database_backups", "managed_database_backup_leases"}), 21)

M22(d) == Once(d, 22, Columns(d, "api_tokens", {"manage"}))
M23(d) == Once(d, 23, NewTables(d, {"local_users"}))

(* The two kinds of accounts become one table.                             *)
M24Local(d) ==
  Once(d, 24, [NewTables(d, {"users"}) EXCEPT
    !.rows = @ \cup {<<"users", r[2]>> : r \in {x \in d.rows : x[1] = "local_users"}}])

M24(d) ==
  Once(d, 24, [NewTables(d, {"users"}) EXCEPT
    !.rows = @ \cup {<<"users", r[2]>> : r \in {x \in d.rows : x[1] \in {"local_users", "authorized_emails"}}}])
M25(d) == Once(d, 25, NewTables(d, {"proxy_settings"}))
M26(d) == Once(d, 26, NewTables(d, {"oauth_clients", "oauth_grants", "oauth_superseded_refresh_tokens"}))
M27(d) == Once(d, 27, Columns(d, "service_deletion_intents", {"volumes"}))
M28(d) == Once(d, 28, ColumnsLoosely(d, "redlaunch_settings", {"registry_retention_keep"}))

Migrated(v, d) ==
  CASE v = 1 -> M1(d) [] v = 2 -> M2(d) [] v = 3 -> M3(d) [] v = 4 -> M4(d) [] v = 5 -> M5(d)
    [] v = 6 -> M6(d) [] v = 7 -> M7(d) [] v = 8 -> M8(d) [] v = 9 -> M9(d) [] v = 10 -> M10(d)
    [] v = 11 -> M11(d) [] v = 12 -> M12(d) [] v = 13 -> M13(d) [] v = 14 -> M14(d)
    [] v = 15 -> M15(d) [] v = 16 -> M16(d) [] v = 17 -> M17(d) [] v = 18 -> M18(d)
    [] v = 19 -> M19(d) [] v = 20 -> M20(d) [] v = 21 -> M21(d) [] v = 22 -> M22(d)
    [] v = 23 -> M23(d) [] v = 24 -> M24(d) [] v = 25 -> M25(d) [] v = 26 -> M26(d)
    [] v = 27 -> M27(d) [] v = 28 -> M28(d)

-----------------------------------------------------------------------------
(* Open: the transaction sees the database as it was when it began.        *)
Begin(p, release) ==
  /\ open[p].pc = "closed"
  /\ Rollback \/ release >= newest
  /\ open' = [open EXCEPT ![p] = [pc |-> "migrate", release |-> release, done |-> 0, base |-> db, tx |-> db]]
  /\ UNCHANGED <<db, newest, people>>

Migrate(p) ==
  /\ open[p].pc = "migrate" /\ open[p].done < open[p].release /\ ~open[p].tx.error
  /\ open' = [open EXCEPT ![p].done = @ + 1, ![p].tx = Migrated(open[p].done + 1, @)]
  /\ UNCHANGED <<db, newest, people>>

(* A writer whose snapshot is no longer the database is refused by SQLite, *)
(* and so is a statement in error: the transaction is rolled back.         *)
Commits(p) == open[p].tx = open[p].base \/ open[p].base = db

Commit(p) ==
  /\ open[p].pc = "migrate" /\ open[p].done = open[p].release /\ ~open[p].tx.error
  /\ IF Commits(p)
       THEN /\ db' = IF open[p].tx = open[p].base THEN db ELSE open[p].tx
            /\ open' = [open EXCEPT ![p] = [Closed EXCEPT !.pc = "open", !.release = open[p].release]]
            /\ newest' = IF open[p].release > newest THEN open[p].release ELSE newest
       ELSE /\ open' = [open EXCEPT ![p] = Closed]
            /\ UNCHANGED <<db, newest>>
  /\ UNCHANGED people

(* The process ends, whatever it was doing.                                *)
End(p) ==
  /\ open[p].pc # "closed"
  /\ open' = [open EXCEPT ![p] = Closed]
  /\ UNCHANGED <<db, newest, people>>

(* An account, of the kind the release knows, and a token.                 *)
AccountTable(release) ==
  CASE release >= 24 -> {"users"} [] release = 23 -> {"local_users", "authorized_emails"}
    [] release \in 9 .. 22 -> {"authorized_emails"} [] OTHER -> {}

AddAccount(p, a, t) ==
  /\ open[p].pc = "open" /\ open[p].release = newest
  /\ a \notin people.email \cup people.local
  /\ t \in AccountTable(open[p].release)
  /\ db' = [db EXCEPT !.rows = @ \cup {<<t, a>>}]
  /\ people' = IF t = "local_users" THEN [people EXCEPT !.local = @ \cup {a}]
               ELSE [people EXCEPT !.email = @ \cup {a}]
  /\ UNCHANGED <<open, newest>>

AddToken(p, a) ==
  /\ open[p].pc = "open" /\ open[p].release >= 18 /\ a \notin people.token
  /\ db' = [db EXCEPT !.rows = @ \cup {<<"api_tokens", a>>}]
  /\ people' = [people EXCEPT !.token = @ \cup {a}]
  /\ UNCHANGED <<open, newest>>

Next ==
  \E p \in Processes :
    \/ \E r \in Releases : Begin(p, r)
    \/ Migrate(p) \/ Commit(p) \/ End(p)
    \/ \E a \in Accounts, t \in {"users", "local_users", "authorized_emails"} : AddAccount(p, a, t)
    \/ \E a \in Accounts : AddToken(p, a)

Spec == Init /\ [][Next]_vars

-----------------------------------------------------------------------------
TypeOK ==
  /\ \E n \in 0 .. Newest : db.versions = 1 .. n
  /\ ~db.error
  /\ newest \in Releases \cup {0}
  /\ \A p \in Processes : open[p].done <= open[p].release

(* What the queries of this release read and write.                        *)
CurrentTables ==
  {"applications", "services", "domains", "routings", "backup_schedules", "backups", "authorized_emails",
   "redlaunch_settings", "backup_leases", "application_deletion_intents", "service_deletion_intents",
   "redlaunch_domains", "server_ssh_keys", "api_tokens", "registry_retention_policies",
   "managed_database_cluster", "managed_databases", "managed_database_users", "managed_database_grants",
   "managed_database_backup_schedules", "managed_database_backups", "managed_database_backup_leases",
   "local_users", "users", "proxy_settings", "oauth_clients", "oauth_grants",
   "oauth_superseded_refresh_tokens"}
CurrentColumns ==
  {<<"services", c>> : c \in {"service_type", "postgres_version", "database_name", "database_user",
                              "redis_version", "redis_port", "redis_persist_to_disk", "image_name"}}
  \cup {<<"routings", "service_port">>, <<"redlaunch_settings", "registry_default_keep">>,
        <<"redlaunch_settings", "registry_retention_keep">>, <<"api_tokens", "manage">>,
        <<"service_deletion_intents", "volumes">>}

(* Whatever releases opened the database before, in whatever order, and    *)
(* whatever a crash or a second process did in between, this release works *)
(* on the same schema as on a fresh database (migrate).                    *)
OpenedIsCurrent ==
  [][\A p \in Processes :
       (open[p].pc = "migrate" /\ open'[p].pc = "open" /\ newest' = Newest) =>
         /\ CurrentTables \subseteq db'.tables /\ CurrentColumns \subseteq db'.columns
         /\ (open[p].release = Newest /\ open[p].base = db) =>
              db'.tables = CurrentTables /\ db'.columns = CurrentColumns]_vars

(* No open is refused because of the schema it finds: a release that is    *)
(* put back after an update, and the update that follows, both start.      *)
AlwaysOpens == \A p \in Processes : ~open[p].tx.error

(* Everybody who was given an account, and every token, is still there     *)
(* after an upgrade.                                                       *)
RowsKept ==
  newest >= 24 => /\ \A a \in people.email \cup people.local : <<"users", a>> \in db.rows
                  /\ \A a \in people.token : <<"api_tokens", a>> \in db.rows
=============================================================================
