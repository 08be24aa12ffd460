----------------------------- MODULE Migrations -----------------------------
(***************************************************************************)
(* Schema migrations: DB.Migrate of internal/db/migrate.go, with the       *)
(* transaction of internal/db/db.go it applies each one in.  Two daemons   *)
(* may migrate one database at the same time, with lists that differ when  *)
(* one of them is newer.  A daemon may die or lose the database at any     *)
(* statement, and the reply to a commit may be lost.                       *)
(***************************************************************************)
EXTENDS Integers, FiniteSetsExt

CONSTANTS Stores,   \* databases
          Daemons,
          List      \* List[d]: the versions daemon d was built with

ASSUME MigrationsAssumption == \A d \in Daemons : List[d] \subseteq Nat \ {0}

Versions == UNION {List[d] : d \in Daemons}

VARIABLES
    recorded,  \* recorded[s]: the versions in schema_migrations of store s
    effects,   \* effects[s][v]: how often v's statements took effect on s
    applier,   \* history: applier[s][v]: what was recorded before v was
    migration  \* migration[d]: the store daemon d migrates, its step, what is left

migrationVars == <<recorded, effects, applier, migration>>

Unmigrated == [store |-> CHOOSE s \in Stores : TRUE, at |-> "idle", left |-> {}]

MigrationsInit ==
    /\ recorded = [s \in Stores |-> {}]
    /\ effects = [s \in Stores |-> [v \in Versions |-> 0]]
    /\ applier = [s \in Stores |-> [v \in Versions |-> {}]]
    /\ migration = [d \in Daemons |-> Unmigrated]

BeginMigration(d, s) ==
    /\ migration[d].at = "idle"
    /\ migration' = [migration EXCEPT ![d] = [store |-> s, at |-> "check", left |-> List[d]]]
    /\ UNCHANGED <<recorded, effects, applier>>

Migrated(d, s) == migration[d] = [store |-> s, at |-> "check", left |-> {}]

\* The lowest version that is left is looked up in schema_migrations.
CheckVersion(d) ==
    LET m == migration[d]  v == Min(m.left) IN
    /\ m.at = "check" /\ m.left # {}
    /\ migration' = [migration EXCEPT ![d] =
                        IF v \in recorded[m.store] THEN [m EXCEPT !.left = @ \ {v}]
                        ELSE [m EXCEPT !.at = "apply"]]
    /\ UNCHANGED <<recorded, effects, applier>>

\* Faulty ApplyVersion: outside a transaction, the record fails by itself.
ApplyVersionApart(d) ==
    LET m == migration[d]  v == Min(m.left) IN
    /\ m.at = "apply"
    /\ effects' = [effects EXCEPT ![m.store][v] = @ + 1]
    /\ \/ /\ recorded' = [recorded EXCEPT ![m.store] = @ \cup {v}]
          /\ applier' = [applier EXCEPT ![m.store][v] = recorded[m.store]]
          /\ migration' = [migration EXCEPT ![d].at = "check", ![d].left = @ \ {v}]
       \/ /\ UNCHANGED <<recorded, applier>>
          /\ migration' = [migration EXCEPT ![d] = Unmigrated]

\* The version's statements and its record, in one transaction: on a version
\* that was recorded meanwhile the statements or the record's key fail.
ApplyVersion(d) ==
    LET m == migration[d]  v == Min(m.left) IN
    /\ m.at = "apply" /\ v \notin recorded[m.store]
    /\ effects' = [effects EXCEPT ![m.store][v] = @ + 1]
    /\ recorded' = [recorded EXCEPT ![m.store] = @ \cup {v}]
    /\ applier' = [applier EXCEPT ![m.store][v] = recorded[m.store]]
    /\ \/ migration' = [migration EXCEPT ![d].at = "check", ![d].left = @ \ {v}]
       \/ migration' = [migration EXCEPT ![d] = Unmigrated]

EndMigration(d) == migration' = [migration EXCEPT ![d] = Unmigrated]

\* Migrate returns an error, the other daemon's record of the version among them.
FailMigration(d) ==
    /\ migration[d].at # "idle"
    /\ EndMigration(d)
    /\ UNCHANGED <<recorded, effects, applier>>

MigrationStep(d) == CheckVersion(d) \/ ApplyVersion(d)

-----------------------------------------------------------------------------
\* migrate.go:11-13, "applied in ascending order exactly once": however two
\* daemons, their failures and their restarts mix, a version's statements took
\* effect once if it is recorded and never if it is not, and some daemon's
\* smaller versions were all there before.
AppliedInOrderOnce ==
    \A s \in Stores, v \in Versions :
        /\ effects[s][v] = (IF v \in recorded[s] THEN 1 ELSE 0)
        /\ v \in recorded[s] =>
            \E d \in Daemons : v \in List[d] /\ {w \in List[d] : w < v} \subseteq applier[s][v]
=============================================================================
