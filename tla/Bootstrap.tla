------------------------------ MODULE Bootstrap ------------------------------
(***************************************************************************)
(* First-run setup and every boot around it: internal/bootstrap (boot.go,  *)
(* committer.go, config.go, gateway.go) and internal/setup (setup.go).     *)
(* The daemon may die between any two steps, and writing the bootstrap     *)
(* config, the setup transaction and the build of the application may each *)
(* fail.  One Postgres database stands for the one the operator names.     *)
(***************************************************************************)
EXTENDS Integers

CONSTANTS Emails,       \* admin addresses an operator submits
          MaxBoots,     \* bound of the model: boots of the daemon
          MaxSubmits    \* bound of the model: setup forms submitted

ASSUME BootstrapAssumption ==
    /\ MaxBoots \in Nat
    /\ MaxSubmits \in Nat

Databases == {"sqlite", "postgres"}

VARIABLES
    explicit,   \* the driver the operator configured explicitly, or "none"
    composed,   \* the databases that hold a composition
    admins,     \* admins[d]: the accounts of database d
    config,     \* the driver glyphux.json records, or "none"
    up,         \* the daemon runs
    base,       \* the database it booted on
    handler,    \* the database the application answers from
    committer,  \* the wizard has bootstrap's committer
    complete,   \* Wizard.complete
    submit,     \* where the submission holding Wizard.mu is
    form,       \* its database choice and admin address
    answer,     \* how the last submission was answered
    chosen,     \* auxiliary: the database of the setup reported complete
    boots, submits

disk == <<composed, admins, config>>
daemon == <<up, base, handler, committer, complete>>
request == <<submit, form, answer>>
budget == <<boots, submits>>
vars == <<explicit, disk, daemon, request, chosen, budget>>

TypeOK ==
    /\ explicit \in Databases \cup {"none"}
    /\ composed \subseteq Databases
    /\ admins \in [Databases -> SUBSET Emails]
    /\ config \in Databases \cup {"none"}
    /\ up \in BOOLEAN /\ committer \in BOOLEAN /\ complete \in BOOLEAN
    /\ base \in Databases /\ handler \in Databases
    /\ submit \in {"none", "write", "build", "save", "switch", "finish"}
    /\ form \in [driver : Databases, email : Emails]
    /\ answer \in {"none", "failed", "done"}
    /\ chosen \in Databases \cup {"none"}
    /\ boots \in 0 .. MaxBoots /\ submits \in 0 .. MaxSubmits

Init ==
    /\ explicit = "none"
    /\ composed = {}
    /\ admins = [d \in Databases |-> {}]
    /\ config = "none"
    /\ up = FALSE /\ base = "sqlite" /\ handler = "sqlite"
    /\ committer = FALSE /\ complete = FALSE
    /\ submit = "none" /\ answer = "none"
    /\ form \in [driver : {"sqlite"}, email : Emails]
    /\ chosen = "none"
    /\ boots = 0 /\ submits = 0

-----------------------------------------------------------------------------
\* Boot's choice: explicit configuration, else the persisted one, else the
\* default SQLite store.
BootDatabase ==
    IF explicit # "none" THEN explicit ELSE IF config # "none" THEN config ELSE "sqlite"

\* Boot opens and migrates the database and asks it whether setup is complete.
\* A complete setup is recorded again unless the configuration is explicit:
\* the self-heal, which may fail and is only logged.  Then the application is
\* built, or the boot fails.  A boot that cannot open its database (no DSN in
\* the environment, say) changes nothing.
Boot ==
    /\ ~up /\ boots < MaxBoots
    /\ boots' = boots + 1
    /\ LET d == BootDatabase IN
        /\ \/ UNCHANGED config
           \/ explicit = "none" /\ d \in composed /\ config' = d
        /\ up' \in BOOLEAN
        /\ base' = d /\ handler' = d
        /\ complete' = (d \in composed)
        /\ committer' = (explicit = "none" /\ config = "none" /\ d \notin composed)
    /\ submit' = "none" /\ answer' = "none"
    /\ UNCHANGED <<explicit, composed, admins, form, chosen, submits>>

\* Killed, or shut down.
Crash ==
    /\ up
    /\ up' = FALSE
    /\ UNCHANGED <<explicit, disk, base, handler, committer, complete, request,
                   chosen, budget>>

\* handleSubmit takes the wizard's mutex; a completed wizard answers 410, and
\* a form it does not accept (token, missing field) never gets further.
Submit ==
    /\ up /\ submit = "none" /\ ~complete
    /\ submits < MaxSubmits
    /\ submits' = submits + 1
    /\ form' \in [driver : Databases, email : Emails]
    /\ submit' = "write"
    /\ answer' = "none"
    /\ UNCHANGED <<explicit, disk, daemon, chosen, boots>>

\* The committer honours the form's choice; without one the wizard writes to
\* the database it was built on.
Target == IF committer THEN form.driver ELSE base

Refuse ==
    /\ submit' = "none"
    /\ answer' = "failed"

\* Faulty Write: the account and the composition are written one by one.
WriteApart ==
    /\ up /\ submit = "write"
    /\ \E admin \in BOOLEAN, comp \in BOOLEAN :
        /\ admins' = IF admin THEN [admins EXCEPT ![Target] = @ \cup {form.email}]
                              ELSE admins
        /\ composed' = IF comp THEN composed \cup {Target} ELSE composed
        /\ submit' = IF admin /\ comp THEN "build" ELSE "none"
    /\ UNCHANGED <<explicit, config, daemon, form, answer, chosen, budget>>

\* The transaction: the admin account, refused if the address is taken, and
\* the composition (an upsert).  The reply to a Postgres commit may be lost.
Write ==
    /\ up /\ submit = "write"
    /\ \/ /\ form.email \notin admins[Target]
          /\ admins' = [admins EXCEPT ![Target] = @ \cup {form.email}]
          /\ composed' = composed \cup {Target}
          /\ \/ submit' = (IF committer THEN "build" ELSE "finish") /\ UNCHANGED answer
             \/ Target = "postgres" /\ Refuse
       \/ Refuse /\ UNCHANGED <<composed, admins>>
    /\ UNCHANGED <<explicit, config, daemon, form, chosen, budget>>

\* buildFullHandler, which activates the plugins now that there is a
\* composition.  Its failure is the submission's.
Build ==
    /\ up /\ submit = "build"
    /\ \/ submit' = "save" /\ UNCHANGED answer
       \/ Refuse
    /\ UNCHANGED <<explicit, disk, daemon, form, chosen, budget>>

\* Save of the bootstrap config: its failure is logged and forgotten.
SaveConfig ==
    /\ up /\ submit = "save"
    /\ submit' = "switch"
    /\ config' = form.driver \/ UNCHANGED config
    /\ UNCHANGED <<explicit, composed, admins, daemon, form, answer, chosen, budget>>

Switch ==
    /\ up /\ submit = "switch"
    /\ submit' = "finish"
    /\ handler' = form.driver
    /\ UNCHANGED <<explicit, disk, up, base, committer, complete, form, answer,
                   chosen, budget>>

Finish ==
    /\ up /\ submit = "finish"
    /\ submit' = "none" /\ answer' = "done"
    /\ complete' = TRUE
    /\ chosen' = Target
    /\ UNCHANGED <<explicit, disk, up, base, handler, committer, form, budget>>

-----------------------------------------------------------------------------
\* setup.go:172-174: a database holds a composition exactly when it holds an
\* admin who can edit it, through every failure and crash.
BothOrNeither == \A d \in Databases : d \in composed <=> admins[d] # {}
=============================================================================
