------------------------------ MODULE Startup ------------------------------
(***************************************************************************)
(* The daemon's life, cmd/glyphuxd/main.go: it reads its configuration     *)
(* (Settings), boots on the database that follows from it (Bootstrap),     *)
(* migrates it first (Migrations), serves the setup form and stops on a    *)
(* signal.  The operator may change the configuration between two boots,   *)
(* and another daemon may start on either database at any time.            *)
(***************************************************************************)
EXTENDS Bootstrap, Migrations, Settings

CONSTANTS this, other, NotLoaded

ASSUME StartupAssumption ==
    /\ Stores = Databases
    /\ Daemons = {this, other} /\ this # other

VARIABLES settings,  \* the configuration of this process, NotLoaded if none runs
          exported,  \* it has GLYPHUX_DB_DSN in its environment
          draining   \* it was told to stop

process == <<settings, exported, draining>>
startupVars == <<vars, migrationVars, process>>

StartupInit ==
    /\ Init /\ MigrationsInit
    /\ settings = NotLoaded /\ exported = FALSE /\ draining = FALSE

Exits == settings' = NotLoaded /\ exported' = FALSE /\ draining' = FALSE

-----------------------------------------------------------------------------
\* run, up to Boot: a configuration that is not valid ends it.
Launch ==
    /\ settings = NotLoaded /\ boots < MaxBoots
    /\ \E f \in Files \cup {NoFile}, e \in Envs :
        LET cfg == Load(f, e) IN
        /\ Valid(cfg)
        /\ settings' = cfg
        /\ exported' = ("dsn" \in DOMAIN e)
        /\ explicit' = IF DatabaseExplicit(cfg) THEN cfg.driver ELSE "none"
    /\ UNCHANGED <<disk, daemon, request, chosen, budget, migrationVars, draining>>

\* A recorded Postgres is opened with the environment's connection string; the
\* configured one is not asked for it.
Openable == (explicit = "none" /\ config = "postgres") => exported

GiveUp ==
    /\ settings # NotLoaded /\ ~up /\ ~Openable
    /\ Exits
    /\ UNCHANGED <<vars, migrationVars>>

\* Boot on its database, which must be migrated first.
BootMigrated ==
    /\ settings # NotLoaded /\ Openable
    /\ \/ /\ Migrated(this, BootDatabase) /\ Boot /\ EndMigration(this)
          /\ up' => Buildable(settings)
          /\ IF up' THEN UNCHANGED process ELSE Exits
          /\ UNCHANGED <<recorded, effects, applier>>
       \/ ~up /\ BeginMigration(this, BootDatabase) /\ UNCHANGED <<vars, process>>

\* The committer migrates the Postgres database it opened; for SQLite it uses
\* the store of this boot.
ToMigrate == committer /\ form.driver = "postgres"

\* Faulty WriteMigrated: the committer takes the database as it is.
WriteUnmigrated ==
    /\ Write /\ UNCHANGED <<migrationVars, process>>

WriteMigrated ==
    /\ \/ /\ ToMigrate => Migrated(this, "postgres")
          /\ Write /\ EndMigration(this)
          /\ UNCHANGED <<recorded, effects, applier>>
       \/ up /\ submit = "write" /\ ToMigrate /\ BeginMigration(this, "postgres") /\ UNCHANGED vars
    /\ UNCHANGED process

\* A migration that fails is the boot's failure, or the submission's.
MigrationFails ==
    /\ FailMigration(this)
    /\ \/ ~up /\ Exits /\ UNCHANGED vars
       \/ /\ up /\ Refuse
          /\ UNCHANGED <<explicit, disk, daemon, form, chosen, budget, process>>

\* Server.Run on a signal: the listener takes no request any more.
Shutdown ==
    /\ up /\ ~draining
    /\ draining' = TRUE
    /\ UNCHANGED <<vars, migrationVars, settings, exported>>

\* The end of the process, which waits no longer than the timeout for a
\* submission under way; also its death at any moment.
Stop ==
    /\ Crash /\ EndMigration(this)
    /\ Exits
    /\ UNCHANGED <<recorded, effects, applier>>

Serve ==
    /\ \/ ~draining /\ Submit
       \/ Build \/ SaveConfig \/ Switch \/ Finish
    /\ UNCHANGED <<migrationVars, process>>

OtherDaemon ==
    /\ \/ \E s \in Stores : BeginMigration(other, s)
       \/ MigrationStep(other) \/ FailMigration(other)
    /\ UNCHANGED <<vars, process>>

StartupNext ==
    \/ Launch \/ GiveUp \/ BootMigrated \/ WriteMigrated \/ MigrationFails
    \/ Shutdown \/ Stop \/ Serve \/ OtherDaemon
    \/ MigrationStep(this) /\ UNCHANGED <<vars, process>>

StartupSpec == StartupInit /\ [][StartupNext]_startupVars

-----------------------------------------------------------------------------
\* boot.go:109-163, committer.go:52-60: the application never answers from a
\* database that lacks a part of the schema this daemon was built with.
ServesWholeSchema ==
    up => \A v \in List[this] : effects[base][v] = 1 /\ effects[handler][v] = 1

\* main.go:127-137, boot.go:58-103: once setup was reported complete and its
\* choice is on record (or is the default and needs none), every boot serves
\* that database and keeps the wizard closed, unless the operator configures
\* another driver; a connection string in the environment is no such choice.
SetupHolds ==
    (/\ up /\ submit = "none" /\ settings.driver = Default.driver
     /\ chosen # "none" /\ (config = chosen \/ (config = "none" /\ chosen = "sqlite")))
    => complete /\ handler = chosen
=============================================================================
