------------------------------ MODULE RpcBroker ------------------------------
(***************************************************************************)
(* pkg/runtime/rpc/broker.go: one plugin subprocess under supervision.     *)
(* Launch, the goroutine that waits for the process, the goroutine that    *)
(* drains its stdout, and callers of Close and Register run concurrently;  *)
(* the subprocess prints, hangs and exits as it likes.  stderr is drained  *)
(* by the same code as stdout and signals nothing, so only stdout is here. *)
(***************************************************************************)
EXTENDS Integers, Sequences

CONSTANTS Callers,        \* goroutines that use the Broker Launch returned
          Launcher,       \* the goroutine inside Launch
          PipeCapacity,   \* lines the stdout pipe holds before a write blocks
          MaxLines        \* bound of the model: lines the subprocess prints

ASSUME BrokerAssumption ==
    /\ Launcher \notin Callers
    /\ PipeCapacity \in Nat \ {0}
    /\ MaxLines \in Nat

VARIABLES launch,     \* where Launch is, then what it returned
          proc,       \* the subprocess
          pipe,       \* what it printed and nobody has read
          printed,    \* lines it has printed
          drain,      \* the goroutine of drainReader
          waiter,     \* the goroutine of cmd.Wait
          state,      \* Broker.state
          ready,      \* readyCh is closed
          done,       \* doneCh is closed
          serving,    \* the host gRPC server is up
          dir,        \* the socket directory exists
          conn,       \* the client connection to the plugin is open
          closing     \* closing[c]: where c is in Close

vars == <<launch, proc, pipe, printed, drain, waiter, state, ready, done,
          serving, dir, conn, closing>>

Closers == Callers \cup {Launcher}

\* A line of output: anything, readyLine, or one longer than the scanner's
\* buffer of 1 MiB.
Lines == {"log", "ready", "long"}

TypeOK ==
    /\ launch \in {"setup", "start", "select", "store", "closing",
                   "ok", "failed", "no broker"}
    /\ proc \in {"none", "alive", "killed", "exited"}
    /\ pipe \in Seq(Lines) /\ Len(pipe) <= PipeCapacity
    /\ printed \in 0 .. MaxLines
    /\ drain \in {"off", "reading", "stopped"}
    /\ waiter \in {"off", "waiting", "reaped", "marked", "signalled", "done"}
    /\ state \in {"starting", "running", "dead"}
    /\ ready \in BOOLEAN /\ done \in BOOLEAN /\ conn \in BOOLEAN
    /\ serving \in BOOLEAN /\ dir \in BOOLEAN
    /\ closing \in [Closers -> {"idle", "check", "wait", "returned"}]

Init ==
    /\ launch = "setup"
    /\ proc = "none"
    /\ pipe = <<>>
    /\ printed = 0
    /\ drain = "off"
    /\ waiter = "off"
    /\ state = "starting"
    /\ ready = FALSE
    /\ done = FALSE
    /\ serving = FALSE
    /\ dir = FALSE
    /\ conn = FALSE
    /\ closing = [c \in Closers |-> "idle"]

-----------------------------------------------------------------------------
\* Launch makes the socket directory and serves the HostAPI on it.  A failure
\* here returns no Broker and leaves nothing.
Setup ==
    /\ launch = "setup"
    /\ \/ launch' = "start" /\ dir' = TRUE /\ serving' = TRUE
       \/ launch' = "no broker" /\ UNCHANGED <<dir, serving>>
    /\ UNCHANGED <<proc, pipe, printed, drain, waiter, state, ready, done,
                   conn, closing>>

\* cmd.Start and the goroutines, or teardown when the process cannot start.
Start ==
    /\ launch = "start"
    /\ \/ /\ launch' = "select"
          /\ proc' = "alive" /\ drain' = "reading" /\ waiter' = "waiting"
          /\ UNCHANGED <<dir, serving>>
       \/ /\ launch' = "failed"
          /\ dir' = FALSE /\ serving' = FALSE
          /\ UNCHANGED <<proc, drain, waiter>>
    /\ UNCHANGED <<pipe, printed, state, ready, done, conn, closing>>

\* The select of Launch.  Any case that is ready may be taken, and the timer
\* may fire whatever else has happened.
SelectReady ==
    /\ launch = "select" /\ ready
    /\ launch' = "store"
    /\ UNCHANGED <<proc, pipe, printed, drain, waiter, state, ready, done,
                   serving, dir, conn, closing>>

StoreRunning ==
    /\ launch = "store"
    /\ state' = "running"
    /\ launch' = "ok"
    /\ UNCHANGED <<proc, pipe, printed, drain, waiter, ready, done, serving,
                   dir, conn, closing>>

SelectDone ==
    /\ launch = "select" /\ done
    /\ launch' = "failed"
    /\ UNCHANGED <<proc, pipe, printed, drain, waiter, state, ready, done,
                   serving, dir, conn, closing>>

\* Faulty SelectTimeout: the listener is torn down before the process dies.
SelectTimeoutTearsDown ==
    /\ launch = "select"
    /\ launch' = "closing"
    /\ serving' = FALSE
    /\ closing' = [closing EXCEPT ![Launcher] = "check"]
    /\ UNCHANGED <<proc, pipe, printed, drain, waiter, state, ready, done,
                   dir, conn>>

SelectTimeout ==
    /\ launch = "select"
    /\ launch' = "closing"
    /\ closing' = [closing EXCEPT ![Launcher] = "check"]
    /\ UNCHANGED <<proc, pipe, printed, drain, waiter, state, ready, done,
                   serving, dir, conn>>

TimedOut ==
    /\ launch = "closing" /\ closing[Launcher] = "returned"
    /\ launch' = "failed"
    /\ UNCHANGED <<proc, pipe, printed, drain, waiter, state, ready, done,
                   serving, dir, conn, closing>>

\* The subprocess prints a line if the pipe has room, or ends.
WriteLine ==
    /\ proc = "alive"
    /\ Len(pipe) < PipeCapacity /\ printed < MaxLines
    /\ \E l \in Lines : pipe' = Append(pipe, l)
    /\ printed' = printed + 1
    /\ UNCHANGED <<launch, proc, drain, waiter, state, ready, done, serving,
                   dir, conn, closing>>

Exit ==
    /\ proc = "alive"
    /\ proc' = "exited"
    /\ UNCHANGED <<launch, pipe, printed, drain, waiter, state, ready, done,
                   serving, dir, conn, closing>>

\* SIGKILL takes effect.
Die ==
    /\ proc = "killed"
    /\ proc' = "exited"
    /\ UNCHANGED <<launch, pipe, printed, drain, waiter, state, ready, done,
                   serving, dir, conn, closing>>

\* drainReader reads a line.  A line that overflows the scanner's buffer ends
\* its loop, as the end of the stream does.
Drain ==
    /\ drain = "reading" /\ pipe # <<>>
    /\ pipe' = Tail(pipe)
    /\ ready' = (ready \/ Head(pipe) = "ready")
    /\ drain' = IF Head(pipe) = "long" THEN "stopped" ELSE "reading"
    /\ UNCHANGED <<launch, proc, printed, waiter, state, done, serving, dir,
                   conn, closing>>

\* The stream ends with the process; cmd.Wait closes the pipe when it returns,
\* even over lines nobody has read yet.
EndOfStream ==
    /\ drain = "reading"
    /\ proc = "exited" /\ (pipe = <<>> \/ waiter # "waiting")
    /\ drain' = "stopped"
    /\ UNCHANGED <<launch, proc, pipe, printed, waiter, state, ready, done,
                   serving, dir, conn, closing>>

\* The goroutine of cmd.Wait, statement by statement.
Reap ==
    /\ waiter = "waiting" /\ proc = "exited"
    /\ waiter' = "reaped"
    /\ UNCHANGED <<launch, proc, pipe, printed, drain, state, ready, done,
                   serving, dir, conn, closing>>

MarkDead ==
    /\ waiter = "reaped"
    /\ state' = "dead"
    /\ waiter' = "marked"
    /\ UNCHANGED <<launch, proc, pipe, printed, drain, ready, done, serving,
                   dir, conn, closing>>

CloseDone ==
    /\ waiter = "marked"
    /\ done' = TRUE
    /\ waiter' = "signalled"
    /\ UNCHANGED <<launch, proc, pipe, printed, drain, state, ready, serving,
                   dir, conn, closing>>

StopServer ==
    /\ waiter = "signalled"
    /\ serving' = FALSE
    /\ waiter' = "done"
    /\ UNCHANGED <<launch, proc, pipe, printed, drain, state, ready, done, dir,
                   conn, closing>>

\* Register dials the plugin the first time, and again after a Close.
Dial(c) ==
    /\ c \in Callers
    /\ launch = "ok" /\ ~conn
    /\ conn' = TRUE
    /\ UNCHANGED <<launch, proc, pipe, printed, drain, waiter, state, ready,
                   done, serving, dir, closing>>

\* Close: drop the connection, kill what is not seen dead, await doneCh.
CallClose(c) ==
    /\ c \in Callers
    /\ launch \in {"ok", "failed"}
    /\ closing[c] = "idle"
    /\ conn' = FALSE
    /\ closing' = [closing EXCEPT ![c] = "check"]
    /\ UNCHANGED <<launch, proc, pipe, printed, drain, waiter, state, ready,
                   done, serving, dir>>

CloseUnstarted(c) ==
    /\ closing[c] = "check" /\ proc = "none"
    /\ serving' = FALSE /\ dir' = FALSE
    /\ closing' = [closing EXCEPT ![c] = "returned"]
    /\ UNCHANGED <<launch, proc, pipe, printed, drain, waiter, state, ready,
                   done, conn>>

\* Faulty Kill: only a Broker in StateRunning has its process killed.
KillRunning(c) ==
    /\ closing[c] = "check" /\ proc # "none"
    /\ proc' = IF state = "running" /\ proc = "alive" THEN "killed" ELSE proc
    /\ closing' = [closing EXCEPT ![c] = "wait"]
    /\ UNCHANGED <<launch, pipe, printed, drain, waiter, state, ready, done,
                   serving, dir, conn>>

Kill(c) ==
    /\ closing[c] = "check" /\ proc # "none"
    /\ proc' = IF state # "dead" /\ proc = "alive" THEN "killed" ELSE proc
    /\ closing' = [closing EXCEPT ![c] = "wait"]
    /\ UNCHANGED <<launch, pipe, printed, drain, waiter, state, ready, done,
                   serving, dir, conn>>

\* Faulty Await: Close does not wait for the process.
AwaitNothing(c) ==
    /\ closing[c] = "wait"
    /\ dir' = FALSE
    /\ closing' = [closing EXCEPT ![c] = "returned"]
    /\ UNCHANGED <<launch, proc, pipe, printed, drain, waiter, state, ready,
                   done, serving, conn>>

Await(c) ==
    /\ closing[c] = "wait" /\ done
    /\ dir' = FALSE
    /\ closing' = [closing EXCEPT ![c] = "returned"]
    /\ UNCHANGED <<launch, proc, pipe, printed, drain, waiter, state, ready,
                   done, serving, conn>>

Launching == Setup \/ Start \/ SelectReady \/ StoreRunning \/ SelectDone
             \/ SelectTimeout \/ TimedOut
Waiting == Reap \/ MarkDead \/ CloseDone \/ StopServer
Draining == Drain \/ EndOfStream
Closing(c) == CloseUnstarted(c) \/ Kill(c) \/ Await(c)

Next ==
    \/ Launching \/ Waiting \/ Draining
    \/ WriteLine \/ Exit \/ Die
    \/ \E c \in Callers : Dial(c) \/ CallClose(c)
    \/ \E c \in Closers : Closing(c)

Spec == Init /\ [][Next]_vars

-----------------------------------------------------------------------------
\* broker.go:363-366: when Close returns, whichever of its paths ran and
\* whoever else was closing, no process is left and its sockets are gone.
ClosedIsReleased ==
    (\E c \in Closers : closing[c] = "returned") =>
        proc \in {"none", "exited"} /\ ~dir

\* broker.go:243-252: a live plugin is never left without the HostAPI it was
\* promised, nor without the sockets it was given.
ServedWhileAlive == proc = "alive" => serving /\ dir

\* broker.go:387: Close cannot hang on the process it supervises, however it
\* races Launch, the exit and other calls of Close.
CloseReturns == \A c \in Closers : closing[c] = "check" ~> closing[c] = "returned"
=============================================================================
