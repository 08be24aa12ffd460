----------------------------- MODULE MCStartup -----------------------------
(***************************************************************************)
(* Startup for TLC: a daemon beside one with a version more; files and     *)
(* environments that complete, contradict and spoil each other.            *)
(***************************************************************************)
EXTENDS Startup, TLC

MCList == (this :> {1, 3}) @@ (other :> {1, 2, 3})

MCFiles ==
    {[driver |-> "postgres"],
     [mode |-> CustomOnly],
     [mode |-> CustomOnly, trusted |-> {"ours"}, provider |-> "claude"],
     [trusted |-> {"broken"}]}
MCEnvs == {<<>>, [dsn |-> TRUE], [driver |-> "sqlite", dsn |-> TRUE, url |-> TRUE]}
=============================================================================
