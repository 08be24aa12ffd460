------------------------------ MODULE Settings ------------------------------
(***************************************************************************)
(* The daemon's configuration: Load and validate of                        *)
(* internal/config/config.go, and what cmd/glyphuxd/main.go decides by it. *)
(*                                                                         *)
(* A file and an environment are functions on the settings they give.      *)
(* Kept are the settings a decision at boot rests on; how they are spelled *)
(* and parsed is left out, a text that does not parse ends the process     *)
(* before it has done anything.                                            *)
(***************************************************************************)
CONSTANTS
    Seed,      \* the key this build trusts by default
    Unusable,  \* keys whose record DecodeTrustedKeys refuses
    Files,     \* config files a daemon may be started with
    Envs,      \* environments it may be started in
    NoFile

\* Ids of the keys embedded in the builds of either era.
Roots == {"dev", "prod"}

CustomOnly == "custom-only"

Setting == {"driver", "dsn", "mode", "trusted", "provider", "url"}

Default ==
    [driver |-> "sqlite", dsn |-> FALSE, mode |-> "", trusted |-> {Seed},
     provider |-> "", url |-> FALSE]

ASSUME SettingsAssumption ==
    /\ Seed \in Roots /\ NoFile \notin Files
    /\ \A e \in Envs : DOMAIN e \subseteq Setting \ {"trusted"}

\* What is given replaces, what is not stays.
Over(cfg, given) ==
    [s \in Setting |-> IF s \in DOMAIN given THEN given[s] ELSE cfg[s]]

\* The file's keys join the embedded root, unless the file says custom-only.
FromFile(file) ==
    LET read == Over(Default, file) IN
    IF read.mode = CustomOnly THEN read ELSE [read EXCEPT !.trusted = @ \cup {Seed}]

\* Load: the environment last, the trust mode included, whose merge is over.
Load(file, env) == Over(IF file = NoFile THEN Default ELSE FromFile(file), env)

OperatorDeclared(cfg) == ~ cfg.trusted \subseteq Roots

\* validate.
Valid(cfg) ==
    /\ cfg.driver \in {"sqlite", "postgres"}
    /\ cfg.driver = "postgres" => cfg.dsn
    /\ cfg.mode \in {"", CustomOnly}
    /\ cfg.mode = CustomOnly => OperatorDeclared(cfg)

\* Faulty databaseExplicit: a connection string is a choice, too.
DatabaseExplicitByDsn(cfg) == cfg.driver # Default.driver \/ cfg.dsn

\* databaseExplicit: a driver other than the default is the operator's choice,
\* and sqlite never is.
DatabaseExplicit(cfg) == cfg.driver # Default.driver

\* buildAIAdapter: only openai knows where to call.
AdapterBuilds(cfg) ==
    \/ cfg.provider \in {"", "openai"}
    \/ cfg.provider \in {"claude", "gemini", "openai-compatible"} /\ cfg.url

\* What buildFullHandler asks of the configuration.
Buildable(cfg) == AdapterBuilds(cfg) /\ cfg.trusted \cap Unusable = {}
=============================================================================
