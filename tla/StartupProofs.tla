---------------------------- MODULE StartupProofs ---------------------------
(***************************************************************************)
(* Proofs about the daemon's life of Startup: migrations, for any daemons' *)
(* lists of versions; setup and boots, for any number of them, any form,   *)
(* any configuration and any failure.                                      *)
(***************************************************************************)
EXTENDS Startup, FiniteSetTheorems, WellFoundedInduction, TLAPS

\* A set of natural numbers that is not empty has a smallest element: of the
\* sets 0..x, x in it, one has none of the others as a strict subset.
LEMMA MinIsSmallest ==
    ASSUME NEW S \in SUBSET Nat, S # {}
    PROVE Min(S) \in S /\ \A x \in S : Min(S) <= x
<1> DEFINE Downs == {0 .. x : x \in S}
<1>1. IsWellFoundedOn(StrictSubsetOrdering(Nat), FiniteSubsetsOf(Nat))
  BY FS_StrictSubsetOrderingWellFounded
<1>2. Downs \subseteq FiniteSubsetsOf(Nat)
  <2> SUFFICES ASSUME NEW x \in S PROVE 0 .. x \in FiniteSubsetsOf(Nat)
    OBVIOUS
  <2>1. IsFiniteSet(0 .. x)
    BY FS_Interval
  <2> QED
    BY <2>1 DEF FiniteSubsetsOf
<1>3. Downs # {}
  OBVIOUS
<1>4. PICK D \in Downs : \A E \in Downs : <<E, D>> \notin StrictSubsetOrdering(Nat)
  <2> HIDE DEF Downs
  <2> QED
    BY <1>1, <1>2, <1>3, WFMin
<1>5. PICK m \in S : D = 0 .. m
  OBVIOUS
<1>6. ASSUME NEW x \in S PROVE m <= x
  <2> SUFFICES ASSUME x < m PROVE FALSE
    OBVIOUS
  <2>1. 0 .. x \subseteq 0 .. m /\ 0 .. x # 0 .. m
    OBVIOUS
  <2>2. <<0 .. x, 0 .. m>> \in StrictSubsetOrdering(Nat)
    BY <2>1 DEF StrictSubsetOrdering
  <2> QED
    BY <1>4, <1>5, <2>2
<1> QED
  BY <1>6 DEF Min

-----------------------------------------------------------------------------
\* Migrations.  Of the list a daemon goes through, all it has left behind is
\* recorded in its store; so is all below the version it applies, its smallest
\* one left.

Migration == [store : Stores, at : {"idle", "check", "apply"}, left : SUBSET Nat]

MigrationsTyped ==
    /\ recorded \in [Stores -> SUBSET Versions]
    /\ effects \in [Stores -> [Versions -> Nat]]
    /\ applier \in [Stores -> [Versions -> SUBSET Versions]]
    /\ migration \in [Daemons -> Migration]

PassedIsRecorded ==
    \A d \in Daemons :
        /\ migration[d].left \subseteq List[d]
        /\ migration[d].at # "idle" => List[d] \ migration[d].left \subseteq recorded[migration[d].store]
        /\ migration[d].at = "apply" => migration[d].left # {}

MigrationInv == MigrationsTyped /\ PassedIsRecorded /\ AppliedInOrderOnce

LEMMA InitMigrations == StartupInit => MigrationInv
<1> SUFFICES ASSUME StartupInit PROVE MigrationInv
  OBVIOUS
<1>1. Unmigrated \in Migration
  <2>1. (CHOOSE s \in Stores : TRUE) \in Stores
    BY StartupAssumption DEF Databases
  <2> QED
    BY <2>1 DEF Unmigrated, Migration
<1>2. MigrationsTyped
  BY <1>1 DEF StartupInit, MigrationsInit, MigrationsTyped
<1>3. PassedIsRecorded
  BY DEF StartupInit, MigrationsInit, PassedIsRecorded, Unmigrated
<1>4. AppliedInOrderOnce
  BY DEF StartupInit, MigrationsInit, AppliedInOrderOnce
<1> QED
  BY <1>2, <1>3, <1>4 DEF MigrationInv

LEMMA ListsAreNumbers == \A d \in Daemons : List[d] \subseteq Versions /\ List[d] \subseteq Nat
BY MigrationsAssumption DEF Versions

\* A daemon begins, or gives up, or is done.
LEMMA BeginsAndEnds ==
    ASSUME MigrationInv, NEW d \in Daemons, UNCHANGED <<recorded, effects, applier>>,
           EndMigration(d) \/ \E s \in Stores :
                migration' = [migration EXCEPT ![d] = [store |-> s, at |-> "check", left |-> List[d]]]
    PROVE MigrationInv'
<1> USE DEF MigrationInv
<1>1. PICK m : migration' = [migration EXCEPT ![d] = m] /\
               (m = Unmigrated \/ \E s \in Stores : m = [store |-> s, at |-> "check", left |-> List[d]])
  BY DEF EndMigration
<1>2. /\ m \in Migration /\ m.left \subseteq List[d] /\ m.at # "apply"
      /\ m.at # "idle" => m.left = List[d]
  <2>1. CASE m = Unmigrated
    <3>1. (CHOOSE s \in Stores : TRUE) \in Stores
      BY StartupAssumption DEF Databases
    <3> QED
      BY <2>1, <3>1 DEF Unmigrated, Migration
  <2>2. CASE \E s \in Stores : m = [store |-> s, at |-> "check", left |-> List[d]]
    BY <2>2, ListsAreNumbers DEF Migration
  <2> QED
    BY <1>1, <2>1, <2>2
<1>3. migration'[d] = m /\ \A e \in Daemons \ {d} : migration'[e] = migration[e]
  BY <1>1 DEF MigrationsTyped
<1>4. MigrationsTyped'
  BY <1>1, <1>2 DEF MigrationsTyped
<1>5. PassedIsRecorded'
  <2> SUFFICES ASSUME NEW e \in Daemons
               PROVE /\ migration'[e].left \subseteq List[e]
                     /\ migration'[e].at # "idle" =>
                            List[e] \ migration'[e].left \subseteq recorded'[migration'[e].store]
                     /\ migration'[e].at = "apply" => migration'[e].left # {}
    BY DEF PassedIsRecorded
  <2>1. CASE e = d
    BY <1>2, <1>3, <2>1
  <2>2. CASE e # d
    BY <1>3, <2>2 DEF PassedIsRecorded
  <2> QED
    BY <2>1, <2>2
<1>6. AppliedInOrderOnce'
  BY DEF AppliedInOrderOnce
<1> QED
  BY <1>4, <1>5, <1>6

\* What a daemon in the middle of its list is about.
LEMMA NextVersion ==
    ASSUME MigrationInv, NEW d \in Daemons, migration[d].left # {}
    PROVE LET m == migration[d]  v == Min(migration[d].left) IN
          /\ m \in Migration /\ m.store \in Stores
          /\ v \in m.left /\ v \in List[d] /\ v \in Versions
          /\ m.at # "idle" => {w \in List[d] : w < v} \subseteq recorded[m.store]
<1> DEFINE m == migration[d]  v == Min(m.left)
<1>1. m \in Migration /\ m.store \in Stores /\ m.left \subseteq List[d] /\ m.left \in SUBSET Nat
  BY DEF MigrationInv, MigrationsTyped, PassedIsRecorded, Migration
<1>2. v \in m.left /\ \A x \in m.left : v <= x
  BY <1>1, MinIsSmallest
<1>3. v \in Nat /\ v \in Versions /\ List[d] \subseteq Nat
  BY <1>1, <1>2, ListsAreNumbers
<1>4. ASSUME m.at # "idle", NEW w \in List[d], w < v PROVE w \in recorded[m.store]
  <2>1. w \notin m.left
    BY <1>2, <1>3, <1>4
  <2> QED
    BY <1>4, <2>1 DEF MigrationInv, PassedIsRecorded
<1> QED
  BY <1>1, <1>2, <1>3, <1>4

LEMMA CheckKeeps ==
    ASSUME MigrationInv, NEW d \in Daemons, CheckVersion(d) PROVE MigrationInv'
<1> USE DEF MigrationInv
<1> DEFINE m == migration[d]  v == Min(m.left)
           n == IF v \in recorded[m.store] THEN [m EXCEPT !.left = @ \ {v}]
                ELSE [m EXCEPT !.at = "apply"]
<1>1. /\ m.at = "check" /\ m.left # {} /\ migration' = [migration EXCEPT ![d] = n]
      /\ UNCHANGED <<recorded, effects, applier>>
  BY DEF CheckVersion
<1>2. m \in Migration /\ v \in m.left /\ m.left \subseteq List[d]
      /\ List[d] \ m.left \subseteq recorded[m.store]
  BY <1>1, NextVersion DEF PassedIsRecorded
<1>3. /\ n \in Migration /\ n.store = m.store /\ n.left \subseteq List[d]
      /\ List[d] \ n.left \subseteq recorded[m.store]
      /\ n.at = "apply" => n.left # {}
  <2>1. CASE v \in recorded[m.store]
    <3> DEFINE k == [m EXCEPT !.left = @ \ {v}]
    <3>1. k \in Migration /\ k.store = m.store /\ k.at = "check" /\ k.left = m.left \ {v}
      BY <1>1, <1>2 DEF Migration
    <3>2. n = k
      BY <2>1
    <3> HIDE DEF k, n
    <3> QED
      BY <1>2, <2>1, <3>1, <3>2
  <2>2. CASE v \notin recorded[m.store]
    <3> DEFINE k == [m EXCEPT !.at = "apply"]
    <3>1. k \in Migration /\ k.store = m.store /\ k.left = m.left
      BY <1>2 DEF Migration
    <3>2. n = k
      BY <2>2
    <3> HIDE DEF k, n
    <3> QED
      BY <1>1, <1>2, <3>1, <3>2
  <2> QED
    BY <2>1, <2>2
<1> HIDE DEF n
<1>4. migration'[d] = n /\ \A e \in Daemons \ {d} : migration'[e] = migration[e]
  BY <1>1 DEF MigrationsTyped
<1>5. MigrationsTyped'
  BY <1>1, <1>3 DEF MigrationsTyped
<1>6. PassedIsRecorded'
  <2> SUFFICES ASSUME NEW e \in Daemons
               PROVE /\ migration'[e].left \subseteq List[e]
                     /\ migration'[e].at # "idle" =>
                            List[e] \ migration'[e].left \subseteq recorded'[migration'[e].store]
                     /\ migration'[e].at = "apply" => migration'[e].left # {}
    BY DEF PassedIsRecorded
  <2>1. CASE e = d
    BY <1>1, <1>3, <1>4, <2>1
  <2>2. CASE e # d
    BY <1>1, <1>4, <2>2 DEF PassedIsRecorded
  <2> QED
    BY <2>1, <2>2
<1>7. AppliedInOrderOnce'
  BY <1>1 DEF AppliedInOrderOnce
<1> QED
  BY <1>5, <1>6, <1>7

\* The version takes effect with its record; all below it was recorded before.
LEMMA ApplyKeeps ==
    ASSUME MigrationInv, NEW d \in Daemons, ApplyVersion(d) PROVE MigrationInv'
<1> USE DEF MigrationInv
<1> DEFINE m == migration[d]  v == Min(m.left)  s == m.store
<1>1. /\ m.at = "apply" /\ v \notin recorded[s]
      /\ effects' = [effects EXCEPT ![s][v] = @ + 1]
      /\ recorded' = [recorded EXCEPT ![s] = @ \cup {v}]
      /\ applier' = [applier EXCEPT ![s][v] = recorded[s]]
      /\ \/ migration' = [migration EXCEPT ![d].at = "check", ![d].left = @ \ {v}]
         \/ migration' = [migration EXCEPT ![d] = Unmigrated]
  BY DEF ApplyVersion
<1>2. m.left # {}
  BY <1>1 DEF PassedIsRecorded
<1>3. /\ m \in Migration /\ s \in Stores /\ v \in m.left /\ v \in List[d] /\ v \in Versions
      /\ {w \in List[d] : w < v} \subseteq recorded[s]
      /\ m.left \subseteq List[d] /\ List[d] \ m.left \subseteq recorded[s]
  BY <1>1, <1>2, NextVersion DEF PassedIsRecorded
<1> HIDE DEF v, s
<1>4. /\ recorded' \in [Stores -> SUBSET Versions]
      /\ effects' \in [Stores -> [Versions -> Nat]]
      /\ applier' \in [Stores -> [Versions -> SUBSET Versions]]
  BY <1>1, <1>3 DEF MigrationsTyped
<1>5. /\ recorded'[s] = recorded[s] \cup {v}
      /\ \A t \in Stores : recorded[t] \subseteq recorded'[t]
      /\ \A t \in Stores \ {s} : recorded'[t] = recorded[t]
  BY <1>1, <1>3 DEF MigrationsTyped
<1>6. PICK n : /\ migration' = [migration EXCEPT ![d] = n]
               /\ n = Unmigrated \/ n = [m EXCEPT !.at = "check", !.left = @ \ {v}]
  BY <1>1
<1>7. /\ n \in Migration /\ n.left \subseteq List[d] /\ n.at # "apply"
      /\ n.at # "idle" => n.store = s /\ n.left = m.left \ {v}
  <2>1. CASE n = Unmigrated
    <3>1. (CHOOSE t \in Stores : TRUE) \in Stores
      BY StartupAssumption DEF Databases
    <3> QED
      BY <2>1, <3>1 DEF Unmigrated, Migration
  <2>2. CASE n = [m EXCEPT !.at = "check", !.left = @ \ {v}]
    BY <1>3, <2>2 DEF Migration, s
  <2> QED
    BY <1>6, <2>1, <2>2
<1>8. migration'[d] = n /\ \A e \in Daemons \ {d} : migration'[e] = migration[e]
  BY <1>6 DEF MigrationsTyped
<1>9. MigrationsTyped'
  BY <1>4, <1>6, <1>7 DEF MigrationsTyped
<1>10. PassedIsRecorded'
  <2> SUFFICES ASSUME NEW e \in Daemons
               PROVE /\ migration'[e].left \subseteq List[e]
                     /\ migration'[e].at # "idle" =>
                            List[e] \ migration'[e].left \subseteq recorded'[migration'[e].store]
                     /\ migration'[e].at = "apply" => migration'[e].left # {}
    BY DEF PassedIsRecorded
  <2>1. CASE e = d
    BY <1>3, <1>5, <1>7, <1>8, <2>1
  <2>2. CASE e # d
    <3>1. migration[e].store \in Stores
      BY DEF MigrationsTyped, Migration
    <3> QED
      BY <1>5, <1>8, <2>2, <3>1 DEF PassedIsRecorded
  <2> QED
    BY <2>1, <2>2
<1>11. AppliedInOrderOnce'
  <2> SUFFICES ASSUME NEW t \in Stores, NEW w \in Versions
               PROVE /\ effects'[t][w] = (IF w \in recorded'[t] THEN 1 ELSE 0)
                     /\ w \in recorded'[t] =>
                            \E e \in Daemons : /\ w \in List[e]
                                               /\ {x \in List[e] : x < w} \subseteq applier'[t][w]
    BY DEF AppliedInOrderOnce
  <2>1. CASE t = s /\ w = v
    <3>1. effects[s][v] = 0
      BY <1>1, <1>3 DEF AppliedInOrderOnce
    <3>2. effects'[s][v] = 1 /\ applier'[s][v] = recorded[s]
      BY <1>1, <1>3, <3>1 DEF MigrationsTyped
    <3> QED
      BY <1>3, <1>5, <2>1, <3>2
  <2>2. CASE ~(t = s /\ w = v)
    <3>1. effects'[t][w] = effects[t][w] /\ applier'[t][w] = applier[t][w]
      BY <1>1, <1>3, <2>2 DEF MigrationsTyped
    <3>2. w \in recorded'[t] <=> w \in recorded[t]
      BY <1>5, <2>2
    <3>3. /\ effects[t][w] = (IF w \in recorded[t] THEN 1 ELSE 0)
          /\ w \in recorded[t] =>
                \E e \in Daemons : /\ w \in List[e]
                                   /\ {x \in List[e] : x < w} \subseteq applier[t][w]
      BY DEF AppliedInOrderOnce
    <3> QED
      BY <3>1, <3>2, <3>3
  <2> QED
    BY <2>1, <2>2
<1> QED
  BY <1>9, <1>10, <1>11

\* What a step of the daemons' lives does to the migrations.
LEMMA MigrationSteps ==
    ASSUME [StartupNext]_startupVars, BootDatabase \in Databases
    PROVE \/ UNCHANGED migrationVars
          \/ \E d \in Daemons :
                \/ EndMigration(d) /\ UNCHANGED <<recorded, effects, applier>>
                \/ /\ \E s \in Stores : migration' =
                        [migration EXCEPT ![d] = [store |-> s, at |-> "check", left |-> List[d]]]
                   /\ UNCHANGED <<recorded, effects, applier>>
                \/ CheckVersion(d) \/ ApplyVersion(d)
<1> DEFINE Begins(d, s) == migration' =
              [migration EXCEPT ![d] = [store |-> s, at |-> "check", left |-> List[d]]]
<1>1. this \in Daemons /\ other \in Daemons /\ BootDatabase \in Stores /\ "postgres" \in Stores
  BY StartupAssumption DEF Databases
<1>2. ASSUME NEW d \in Daemons, NEW s \in Stores, BeginMigration(d, s)
      PROVE (\E t \in Stores : Begins(d, t)) /\ UNCHANGED <<recorded, effects, applier>>
  BY <1>2 DEF BeginMigration
<1>3. ASSUME NEW d \in Daemons, FailMigration(d)
      PROVE EndMigration(d) /\ UNCHANGED <<recorded, effects, applier>>
  BY <1>3 DEF FailMigration
<1>4. CASE BootMigrated
  BY <1>1, <1>2, <1>4 DEF BootMigrated
<1>5. CASE WriteMigrated
  BY <1>1, <1>2, <1>5 DEF WriteMigrated
<1>6. CASE OtherDaemon
  BY <1>1, <1>2, <1>3, <1>6 DEF OtherDaemon, MigrationStep
<1>7. CASE Stop \/ MigrationFails
  BY <1>1, <1>3, <1>7 DEF Stop, MigrationFails
<1>8. CASE MigrationStep(this)
  BY <1>1, <1>8 DEF MigrationStep
<1>9. CASE Launch \/ GiveUp \/ Shutdown \/ Serve \/ UNCHANGED startupVars
  BY <1>9 DEF Launch, GiveUp, Shutdown, Serve, startupVars, migrationVars
<1> QED
  BY <1>4, <1>5, <1>6, <1>7, <1>8, <1>9 DEF StartupNext

LEMMA NextMigrations ==
    ASSUME MigrationInv, [StartupNext]_startupVars, BootDatabase \in Databases
    PROVE MigrationInv' /\ \A s \in Stores : recorded[s] \subseteq recorded'[s]
<1>1. CASE UNCHANGED migrationVars
  BY <1>1 DEF migrationVars, MigrationInv, MigrationsTyped, PassedIsRecorded, AppliedInOrderOnce
<1>2. ASSUME NEW d \in Daemons, UNCHANGED <<recorded, effects, applier>>,
             EndMigration(d) \/ \E s \in Stores : migration' =
                [migration EXCEPT ![d] = [store |-> s, at |-> "check", left |-> List[d]]]
      PROVE MigrationInv' /\ \A s \in Stores : recorded[s] \subseteq recorded'[s]
  BY <1>2, BeginsAndEnds
<1>3. ASSUME NEW d \in Daemons, CheckVersion(d)
      PROVE MigrationInv' /\ \A s \in Stores : recorded[s] \subseteq recorded'[s]
  BY <1>3, CheckKeeps DEF CheckVersion
<1>4. ASSUME NEW d \in Daemons, ApplyVersion(d)
      PROVE MigrationInv' /\ \A s \in Stores : recorded[s] \subseteq recorded'[s]
  <2>1. \A s \in Stores : recorded[s] \subseteq recorded'[s]
    BY <1>4 DEF ApplyVersion, MigrationInv, MigrationsTyped
  <2> QED
    BY <1>4, <2>1, ApplyKeeps
<1> QED
  BY <1>1, <1>2, <1>3, <1>4, MigrationSteps

-----------------------------------------------------------------------------
\* Setup.  What the process and the submission under way imply, and why the
\* record of a completed setup keeps being served.

ChoiceOnRecord ==
    /\ settings.driver = Default.driver /\ chosen # "none"
    /\ config = chosen \/ (config = "none" /\ chosen = "sqlite")

Under ==
    /\ submit # "none" => ~complete
    /\ submit \in {"build", "save", "switch"} => committer
    /\ submit \in {"build", "save", "switch", "finish"} => Target \in composed
    /\ submit = "finish" => handler = Target
    /\ ~committer => handler = base
    /\ migration[this].at # "idle" => submit = "write"
    /\ submit \in {"none", "write", "build", "save"} /\ ChoiceOnRecord =>
            complete /\ handler = chosen

Ready(d) == List[this] \subseteq recorded[d]

\* A part of the daemon answers only from databases with the whole schema.
SchemaInv ==
    up => /\ Ready(base) /\ Ready(handler)
          /\ submit \in {"build", "save", "switch"} => Ready(form.driver)

SetupInv ==
    /\ TypeOK /\ BothOrNeither
    /\ settings # NotLoaded /\ settings.driver = Default.driver => explicit = "none"
    /\ chosen # "none" => chosen \in composed
    /\ committer => base = "sqlite"
    /\ up => settings # NotLoaded /\ Under

StartupInv == MigrationInv /\ SetupInv /\ SchemaInv

LEMMA InitSetup == StartupInit => SetupInv /\ SchemaInv
<1> SUFFICES ASSUME StartupInit PROVE SetupInv /\ SchemaInv
  OBVIOUS
<1>1. TypeOK
  <2>1. boots \in 0 .. MaxBoots /\ submits \in 0 .. MaxSubmits
    BY BootstrapAssumption DEF StartupInit, Init
  <2>2. form \in [driver : Databases, email : Emails]
    BY DEF StartupInit, Init, Databases
  <2> QED
    BY <2>1, <2>2 DEF StartupInit, Init, TypeOK, Databases
<1> QED
  BY <1>1 DEF StartupInit, Init, SetupInv, SchemaInv, BothOrNeither, Databases

LEMMA BootChoice == TypeOK => BootDatabase \in Databases
BY DEF TypeOK, BootDatabase, Databases

\* The migrations of the other daemon leave those of this one alone.
LEMMA OtherLeavesThis ==
    ASSUME MigrationInv, OtherDaemon PROVE migration'[this] = migration[this]
<1>1. this # other /\ this \in Daemons
  BY StartupAssumption
<1> QED
  BY <1>1 DEF OtherDaemon, BeginMigration, MigrationStep, FailMigration, EndMigration,
     CheckVersion, ApplyVersion, MigrationInv, MigrationsTyped

\* A step that leaves Bootstrap's variables and the process alone and begins
\* no migration of this daemon under a submission.
LEMMA QuietKeepsSetup ==
    ASSUME SetupInv, UNCHANGED <<vars, process>>,
           up /\ migration'[this].at # "idle" => migration[this].at # "idle" \/ submit = "write"
    PROVE SetupInv'
<1>1. TypeOK' /\ BothOrNeither'
  BY DEF SetupInv, TypeOK, BothOrNeither, vars, disk, daemon, request, budget
<1>2. up => Under'
  BY DEF SetupInv, Under, Target, ChoiceOnRecord, vars, disk, daemon, request, budget, process
<1> QED
  BY <1>1, <1>2 DEF SetupInv, vars, disk, daemon, request, budget, process

LEMMA LaunchKeeps == ASSUME SetupInv, Launch PROVE SetupInv'
<1>1. ~up /\ ~up'
  BY DEF SetupInv, Launch, daemon
<1>2. explicit' \in Databases \cup {"none"} /\ (settings'.driver = Default.driver => explicit' = "none")
  BY DEF Launch, Valid, DatabaseExplicit, Databases
<1>3. /\ UNCHANGED <<composed, admins, config, base, handler, committer, complete>>
      /\ UNCHANGED <<submit, form, answer, chosen, boots, submits, up>>
  BY DEF Launch, disk, daemon, request, budget
<1>4. TypeOK' /\ BothOrNeither'
  BY <1>2, <1>3 DEF SetupInv, TypeOK, BothOrNeither
<1> QED
  BY <1>1, <1>2, <1>3, <1>4 DEF SetupInv

LEMMA BootKeeps ==
    ASSUME SetupInv, settings # NotLoaded, Boot,
           IF up' THEN UNCHANGED process ELSE Exits,
           migration'[this].at = "idle"
    PROVE SetupInv'
<1> DEFINE d == BootDatabase
<1>1. /\ d \in Databases
      /\ explicit = "none" /\ config = "none" => d = "sqlite"
      /\ explicit = "none" /\ config # "none" => d = config
  BY BootChoice DEF SetupInv, BootDatabase
<1>2. /\ config' = config \/ (explicit = "none" /\ d \in composed /\ config' = d)
      /\ up' \in BOOLEAN /\ base' = d /\ handler' = d /\ complete' = (d \in composed)
      /\ committer' = (explicit = "none" /\ config = "none" /\ d \notin composed)
      /\ submit' = "none" /\ answer' = "none"
      /\ boots < MaxBoots /\ boots' = boots + 1
      /\ UNCHANGED <<explicit, composed, admins, form, chosen, submits>>
  BY DEF Boot
<1> HIDE DEF d
<1>3. TypeOK'
  BY <1>1, <1>2, BootstrapAssumption DEF SetupInv, TypeOK
<1>4. BothOrNeither'
  BY <1>2 DEF SetupInv, BothOrNeither
<1>5. ASSUME up' PROVE settings' # NotLoaded /\ settings' = settings /\ Under'
  <2>1. settings' = settings
    BY <1>5 DEF process
  <2>2. ASSUME ChoiceOnRecord' PROVE complete' /\ handler' = chosen'
    <3>1. explicit = "none" /\ chosen # "none" /\ chosen \in composed
      BY <1>2, <2>1, <2>2 DEF ChoiceOnRecord, SetupInv
    <3>2. d = chosen
      BY <1>1, <1>2, <2>2, <3>1 DEF ChoiceOnRecord
    <3> QED
      BY <1>2, <3>1, <3>2
  <2>3. Under'
    BY <1>2, <2>2 DEF Under
  <2> QED
    BY <2>1, <2>3
<1>6. settings' # NotLoaded /\ settings'.driver = Default.driver => explicit' = "none"
  <2>1. settings' \in {settings, NotLoaded}
    BY DEF process, Exits
  <2> QED
    BY <1>2, <2>1 DEF SetupInv
<1> QED
  BY <1>1, <1>2, <1>3, <1>4, <1>5, <1>6 DEF SetupInv

LEMMA SubmitKeeps ==
    ASSUME SetupInv, Submit, UNCHANGED <<migrationVars, process>> PROVE SetupInv'
<1>1. TypeOK'
  BY BootstrapAssumption DEF Submit, SetupInv, TypeOK, disk, daemon
<1>2. Under'
  BY DEF Submit, SetupInv, Under, ChoiceOnRecord, disk, daemon, migrationVars, process
<1> QED
  BY <1>1, <1>2 DEF Submit, SetupInv, BothOrNeither, disk, daemon, process

\* A submission refused before its config could be saved.
LEMMA RefuseKeeps ==
    ASSUME SetupInv, Refuse, up, submit \in {"write", "build"}, migration'[this].at = "idle",
           UNCHANGED <<explicit, disk, daemon, form, chosen, budget, process>>
    PROVE SetupInv'
<1>1. TypeOK'
  BY DEF Refuse, SetupInv, TypeOK, disk, daemon, budget
<1>2. Under'
  BY DEF Refuse, SetupInv, Under, ChoiceOnRecord, disk, daemon, process
<1> QED
  BY <1>1, <1>2 DEF SetupInv, BothOrNeither, disk, daemon, process

LEMMA WriteKeeps ==
    ASSUME SetupInv, Write, migration'[this].at = "idle", UNCHANGED process PROVE SetupInv'
<1>1. /\ up /\ submit = "write" /\ ~complete /\ Target \in Databases /\ form.email \in Emails
      /\ UNCHANGED <<explicit, config, daemon, form, chosen, budget, process>>
  BY DEF Write, SetupInv, Under, Target, TypeOK
<1>2. CASE Refuse /\ UNCHANGED <<composed, admins>>
  BY <1>1, <1>2, RefuseKeeps DEF disk
<1>3. CASE /\ admins' = [admins EXCEPT ![Target] = @ \cup {form.email}]
           /\ composed' = composed \cup {Target}
           /\ \/ submit' = (IF committer THEN "build" ELSE "finish") /\ UNCHANGED answer
              \/ Target = "postgres" /\ Refuse
  <2>1. /\ submit' \in {"none", "build", "finish"} /\ answer' \in {answer, "failed"}
        /\ submit' = "build" => committer
        /\ submit' = "finish" => ~committer
    BY <1>3 DEF Refuse
  <2>2. TypeOK'
    BY <1>1, <1>3, <2>1 DEF SetupInv, TypeOK, daemon, budget
  <2>3. BothOrNeither'
    <3>1. admins'[Target] # {} /\ \A d \in Databases \ {Target} : admins'[d] = admins[d]
      BY <1>1, <1>3 DEF SetupInv, TypeOK
    <3> QED
      BY <1>3, <3>1 DEF SetupInv, BothOrNeither
  <2>4. Target' = Target /\ (ChoiceOnRecord' <=> ChoiceOnRecord)
    BY <1>1 DEF Target, ChoiceOnRecord, daemon, process
  <2>5. Under'
    BY <1>1, <1>3, <2>1, <2>4 DEF SetupInv, Under, Target, daemon
  <2> QED
    BY <1>1, <1>3, <2>2, <2>3, <2>5 DEF SetupInv, daemon, process
<1> QED
  BY <1>2, <1>3 DEF Write

LEMMA LaterStepsKeep ==
    ASSUME SetupInv, Build \/ SaveConfig \/ Switch \/ Finish,
           UNCHANGED <<migrationVars, process>>
    PROVE SetupInv'
<1>1. Under /\ up /\ TypeOK /\ Target \in Databases
  BY DEF SetupInv, Build, SaveConfig, Switch, Finish, TypeOK, Target
<1>2. CASE Build
  <2>1. CASE Refuse
    <3>1. migration'[this].at = "idle"
      BY <1>1, <1>2 DEF Build, Under, migrationVars
    <3> QED
      BY <1>2, <2>1, <3>1, RefuseKeeps DEF Build
  <2>2. CASE submit' = "save" /\ UNCHANGED answer
    <3>1. /\ submit = "build" /\ UNCHANGED <<explicit, disk, daemon, form, chosen, budget>>
      BY <1>2 DEF Build
    <3>2. TypeOK'
      BY <2>2, <3>1 DEF SetupInv, TypeOK, disk, daemon, budget
    <3>3. Under'
      BY <1>1, <2>2, <3>1 DEF Under, Target, ChoiceOnRecord, disk, daemon, process, migrationVars
    <3> QED
      BY <3>1, <3>2, <3>3 DEF SetupInv, BothOrNeither, disk, daemon, process
  <2> QED
    BY <1>2, <2>1, <2>2 DEF Build
<1>3. CASE SaveConfig
  <2>1. TypeOK'
    BY <1>3 DEF SaveConfig, SetupInv, TypeOK, daemon, budget
  <2>2. Under'
    BY <1>1, <1>3 DEF SaveConfig, Under, Target, daemon, migrationVars
  <2> QED
    BY <1>3, <2>1, <2>2 DEF SaveConfig, SetupInv, BothOrNeither, daemon, process
<1>4. CASE Switch
  <2>1. TypeOK'
    BY <1>4 DEF Switch, SetupInv, TypeOK, disk, budget
  <2>2. Under'
    BY <1>1, <1>4 DEF Switch, Under, Target, disk, migrationVars
  <2> QED
    BY <1>4, <2>1, <2>2 DEF Switch, SetupInv, BothOrNeither, disk, process
<1>5. CASE Finish
  <2>1. TypeOK'
    BY <1>1, <1>5 DEF Finish, SetupInv, TypeOK, disk, budget
  <2>2. Under' /\ chosen' \in composed'
    BY <1>1, <1>5 DEF Finish, Under, Target, ChoiceOnRecord, disk, migrationVars
  <2> QED
    BY <1>5, <2>1, <2>2 DEF Finish, SetupInv, BothOrNeither, disk, process
<1> QED
  BY <1>2, <1>3, <1>4, <1>5

LEMMA StopKeeps ==
    ASSUME SetupInv, up' \in BOOLEAN, ~up', settings' = NotLoaded,
           UNCHANGED <<explicit, disk, base, handler, committer, complete, request, chosen, budget>>
    PROVE SetupInv'
<1>1. TypeOK'
  BY DEF SetupInv, TypeOK, disk, request, budget
<1> QED
  BY <1>1 DEF SetupInv, BothOrNeither, disk

LEMMA NextSetup ==
    ASSUME MigrationInv, SetupInv, [StartupNext]_startupVars PROVE SetupInv'
<1>1. this \in Daemons /\ migration \in [Daemons -> Migration]
  BY StartupAssumption DEF MigrationInv, MigrationsTyped
<1>2. EndMigration(this) => migration'[this].at = "idle"
  BY <1>1 DEF EndMigration, Unmigrated
<1>3. CASE Launch
  BY <1>3, LaunchKeeps
<1>4. CASE GiveUp
  <2>1. up' \in BOOLEAN /\ ~up'
    BY <1>4 DEF GiveUp, SetupInv, TypeOK, vars, daemon
  <2> QED
    BY <1>4, <2>1, StopKeeps DEF GiveUp, Exits, vars, disk, daemon, request, budget
<1>5. CASE BootMigrated
  <2>1. CASE /\ Migrated(this, BootDatabase) /\ Boot /\ EndMigration(this)
             /\ IF up' THEN UNCHANGED process ELSE Exits
    BY <1>2, <1>5, <2>1, BootKeeps DEF BootMigrated
  <2>2. CASE ~up /\ BeginMigration(this, BootDatabase) /\ UNCHANGED <<vars, process>>
    BY <2>2, QuietKeepsSetup DEF vars, daemon
  <2> QED
    BY <1>5, <2>1, <2>2 DEF BootMigrated
<1>6. CASE WriteMigrated
  BY <1>2, <1>6, WriteKeeps, QuietKeepsSetup DEF WriteMigrated
<1>7. CASE MigrationFails
  <2>1. CASE ~up /\ Exits /\ UNCHANGED vars
    <3>1. up' \in BOOLEAN /\ ~up'
      BY <2>1 DEF SetupInv, TypeOK, vars, daemon
    <3> QED
      BY <2>1, <3>1, StopKeeps DEF Exits, vars, disk, daemon, request, budget
  <2>2. CASE ~(~up /\ Exits /\ UNCHANGED vars)
    <3>1. /\ up /\ Refuse /\ migration'[this].at = "idle" /\ migration[this].at # "idle"
          /\ UNCHANGED <<explicit, disk, daemon, form, chosen, budget, process>>
      BY <1>2, <1>7, <2>2 DEF MigrationFails, FailMigration
    <3>2. submit = "write"
      BY <3>1 DEF SetupInv, Under
    <3> QED
      BY <3>1, <3>2, RefuseKeeps
  <2> QED
    BY <2>1, <2>2
<1>8. CASE Shutdown
  <2>1. TypeOK' /\ BothOrNeither'
    BY <1>8 DEF Shutdown, SetupInv, TypeOK, BothOrNeither, vars, disk, daemon, request, budget
  <2>2. up => Under'
    BY <1>8 DEF Shutdown, SetupInv, Under, Target, ChoiceOnRecord, vars, disk, daemon, request,
       budget, migrationVars
  <2> QED
    BY <1>8, <2>1, <2>2 DEF Shutdown, SetupInv, vars, disk, daemon
<1>9. CASE Stop
  BY <1>9, StopKeeps DEF Stop, Crash, Exits
<1>10. CASE Serve
  BY <1>10, SubmitKeeps, LaterStepsKeep DEF Serve
<1>11. CASE OtherDaemon
  BY <1>11, OtherLeavesThis, QuietKeepsSetup DEF OtherDaemon
<1>12. CASE MigrationStep(this) /\ UNCHANGED <<vars, process>>
  <2>1. migration[this].at # "idle"
    BY <1>12 DEF MigrationStep, CheckVersion, ApplyVersion
  <2> QED
    BY <1>12, <2>1, QuietKeepsSetup
<1>13. CASE UNCHANGED startupVars
  BY <1>13, QuietKeepsSetup DEF startupVars, migrationVars
<1> QED
  BY <1>3, <1>4, <1>5, <1>6, <1>7, <1>8, <1>9, <1>10, <1>11, <1>12, <1>13 DEF StartupNext

\* A database is whole once this daemon went through its list on it.
LEMMA MigratedIsReady ==
    ASSUME MigrationInv, NEW d \in Databases, Migrated(this, d) PROVE Ready(d)
<1>1. this \in Daemons /\ migration[this] = [store |-> d, at |-> "check", left |-> {}]
  BY StartupAssumption DEF Migrated
<1>2. migration[this].store = d /\ migration[this].at # "idle" /\ migration[this].left = {}
  BY <1>1
<1> QED
  BY <1>1, <1>2 DEF MigrationInv, PassedIsRecorded, Ready

LEMMA NextSchema ==
    ASSUME StartupInv, [StartupNext]_startupVars PROVE SchemaInv'
<1> USE DEF StartupInv
<1>1. /\ TypeOK /\ BootDatabase \in Databases /\ base \in Databases /\ handler \in Databases
      /\ form.driver \in Databases
  BY BootChoice DEF SetupInv, TypeOK
<1>2. \A d \in Databases : List[this] \subseteq recorded[d] => List[this] \subseteq recorded'[d]
  BY <1>1, NextMigrations, StartupAssumption DEF Ready
<1>3. CASE up /\ UNCHANGED <<base, handler, form>> /\ (submit' \in {"build", "save", "switch"} =>
                submit \in {"build", "save", "switch"})
  BY <1>1, <1>2, <1>3 DEF SchemaInv, Ready
<1>4. CASE ~up'
  BY <1>4 DEF SchemaInv
<1>5. CASE Migrated(this, BootDatabase) /\ Boot
  <2>1. List[this] \subseteq recorded'[BootDatabase]
    BY <1>1, <1>2, <1>5, MigratedIsReady DEF Ready
  <2>2. base' = BootDatabase /\ handler' = BootDatabase /\ submit' = "none"
    BY <1>5 DEF Boot
  <2> QED
    BY <2>1, <2>2 DEF SchemaInv, Ready
<1>6. CASE Write /\ (ToMigrate => Migrated(this, "postgres"))
  <2>1. /\ up /\ UNCHANGED <<base, handler, form, committer>>
        /\ submit' \in {"none", "build", "finish"}
        /\ submit' = "build" => committer
    BY <1>6 DEF Write, Refuse, daemon
  <2>2. CASE submit' = "build"
    <3>1. Ready(base) /\ Ready(handler)
      BY <2>1 DEF SchemaInv
    <3>2. CASE form.driver = "postgres"
      <4>1. Ready(form.driver)
        BY <1>1, <1>6, <2>1, <2>2, <3>2, MigratedIsReady DEF ToMigrate, Databases
      <4> QED
        BY <1>1, <1>2, <2>1, <3>1, <4>1 DEF SchemaInv, Ready
    <3>3. CASE form.driver = "sqlite"
      <4>1. form.driver = base
        BY <2>1, <2>2, <3>3 DEF SetupInv
      <4> QED
        BY <1>1, <1>2, <2>1, <3>1, <4>1 DEF SchemaInv, Ready
    <3> QED
      BY <1>1, <3>2, <3>3 DEF Databases
  <2>3. CASE submit' # "build"
    BY <1>3, <2>1, <2>3
  <2> QED
    BY <2>2, <2>3
<1>7. CASE Switch
  BY <1>1, <1>2, <1>7 DEF Switch, SchemaInv, Ready
<1>8. CASE Submit \/ Build \/ SaveConfig \/ Finish
  <2>1. CASE Submit
    BY <1>1, <1>2, <2>1 DEF Submit, SchemaInv, Ready, daemon
  <2>2. CASE Build \/ SaveConfig \/ Finish
    BY <1>3, <2>2 DEF Build, SaveConfig, Finish, Refuse, daemon
  <2> QED
    BY <1>8, <2>1, <2>2
<1>9. CASE UNCHANGED vars
  <2>1. UNCHANGED <<up, base, handler, form, submit>>
    BY <1>9 DEF vars, daemon, request
  <2>2. up \in BOOLEAN
    BY <1>1 DEF TypeOK
  <2>3. CASE up
    BY <1>3, <2>1, <2>3
  <2>4. CASE ~up
    BY <1>4, <2>1, <2>4
  <2> QED
    BY <2>3, <2>4
<1>10. CASE Launch
  BY <1>3, <1>4, <1>10 DEF Launch, daemon, request
<1>11. CASE MigrationFails
  BY <1>3, <1>9, <1>11 DEF MigrationFails, Refuse, daemon
<1>12. CASE Stop
  BY <1>4, <1>12 DEF Stop, Crash
<1> QED
  BY <1>5, <1>6, <1>7, <1>8, <1>9, <1>10, <1>11, <1>12 DEF StartupNext, GiveUp, BootMigrated,
     WriteMigrated, Shutdown, Serve, OtherDaemon, startupVars

\* The invariant behind the four theorems.
LEMMA StartupInvariant == StartupSpec => []StartupInv
<1>1. StartupInit => StartupInv
  BY InitMigrations, InitSetup DEF StartupInv
<1>2. StartupInv /\ [StartupNext]_startupVars => StartupInv'
  <2> SUFFICES ASSUME StartupInv, [StartupNext]_startupVars PROVE StartupInv'
    OBVIOUS
  <2>1. BootDatabase \in Databases
    BY BootChoice DEF StartupInv, SetupInv
  <2>2. MigrationInv'
    BY <2>1, NextMigrations DEF StartupInv
  <2> QED
    BY <2>2, NextSetup, NextSchema DEF StartupInv
<1> QED
  BY <1>1, <1>2, PTL DEF StartupSpec

\* setup.go:172-174: for any number of boots, submissions and failures, a
\* database has an administrator exactly when it has a composition.
THEOREM BothOrNeitherAlways == StartupSpec => []BothOrNeither
<1>1. StartupInv => BothOrNeither
  BY DEF StartupInv, SetupInv
<1> QED
  BY <1>1, StartupInvariant, PTL

\* main.go:127-137, boot.go:58-103: for any configurations of any processes, a
\* completed setup whose choice is on record is what the daemon serves.
THEOREM SetupHoldsAlways == StartupSpec => []SetupHolds
<1>1. StartupInv => SetupHolds
  BY DEF StartupInv, SetupInv, Under, ChoiceOnRecord, SetupHolds
<1> QED
  BY <1>1, StartupInvariant, PTL

\* migrate.go:11-13: for any lists of versions and any number of daemons'
\* failures and restarts, each version takes effect once, after the smaller
\* ones of the list it came from.
THEOREM AppliedInOrder == StartupSpec => []AppliedInOrderOnce
<1>1. StartupInv => AppliedInOrderOnce
  BY DEF StartupInv, MigrationInv
<1> QED
  BY <1>1, StartupInvariant, PTL

\* boot.go:109-163, committer.go:52-60: for any list of versions, the daemon
\* answers only from databases with all of them.
THEOREM WholeSchemaServed == StartupSpec => []ServesWholeSchema
<1>1. StartupInv => ServesWholeSchema
  <2> SUFFICES ASSUME StartupInv, up, NEW v \in List[this]
               PROVE effects[base][v] = 1 /\ effects[handler][v] = 1
    BY DEF ServesWholeSchema
  <2>1. /\ base \in Stores /\ handler \in Stores /\ v \in recorded[base] /\ v \in recorded[handler]
    BY StartupAssumption DEF StartupInv, SetupInv, TypeOK, SchemaInv, Ready
  <2>2. v \in Versions
    BY StartupAssumption, ListsAreNumbers
  <2> QED
    BY <2>1, <2>2 DEF StartupInv, MigrationInv, AppliedInOrderOnce
<1> QED
  BY <1>1, StartupInvariant, PTL
=============================================================================
