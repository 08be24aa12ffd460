-------------------------- MODULE PluginProcesses --------------------------
(***************************************************************************)
(* A plugin that emits an event, in one of its two sandboxes, and the WASM *)
(* guest that listens: the emitter is another WASM guest (tier B), or a    *)
(* subprocess under pkg/runtime/rpc's Broker (tier C), whose Emit runs in  *)
(* the host's gRPC server for as long as the subprocess and that server    *)
(* live.                                                                   *)
(***************************************************************************)
EXTENDS RpcBroker, WasmGuest

CONSTANT Emitters   \* threads that call the emitting guest, or serve the subprocess

ASSUME EmittersAssumption == Emitters \subseteq Threads

VARIABLE tier   \* the emitter's

pluginVars == <<launch, proc, pipe, printed, drain, waiter, state, ready, done, serving,
                dir, conn, closing, limits, declared, open, buffer, thread, told, tier>>

\* A subprocess has no limits: any stand for them.
PluginInit ==
    /\ tier \in {"wasm", "rpc"}
    /\ Init /\ GuestInit
    /\ tier = "rpc" => limits = CHOOSE b \in Budgets : TRUE

\* A live subprocess calls the host that serves it.
Emits(t) == proc = "alive" /\ serving /\ RpcEmits(t)

\* grpc cancels a call's context when its transport closes or its server stops.
Disconnect(t) ==
    (proc = "exited" \/ ~serving) /\ thread[t].kind = "rpc" /\ Cancel(t)

\* A step of one of the two, beside which the other does nothing.
InBroker(step) == tier = "rpc" /\ step /\ UNCHANGED <<guestVars, tier>>
InGuest(step) == step /\ UNCHANGED <<vars, tier>>

BrokerStep == InBroker(Next)

StreamStep(t) == tier = "rpc" /\ InGuest(Emits(t))

Broken(t) == tier = "rpc" /\ InGuest(Disconnect(t))

GuestStep(t) == tier = "wasm" /\ InGuest(EmitterStep(t))

\* The kernel's own events, and whatever the callers and owners of guests do.
KernelStep(t) ==
    /\ tier = "wasm"
    /\ \/ t \notin Emitters /\ InGuest(KernelEmits(t))
       \/ InGuest(Cancel(t) \/ CloseInstance)

PluginNext ==
    \/ BrokerStep \/ InGuest(Tick)
    \/ \E t \in Emitters : StreamStep(t) \/ Broken(t) \/ GuestStep(t)
    \/ \E t \in Threads : KernelStep(t) \/ InGuest(ListenerStep(t)) \/ InGuest(HostStep(t))

\* The host's goroutines run on, timers fire, SIGKILL kills, and a lost connection is
\* noticed.  Guests may loop, subprocesses hang, and nobody need call Close.
PluginSpec ==
    /\ PluginInit /\ [][PluginNext]_pluginVars
    /\ WF_pluginVars(InBroker(Launching)) /\ WF_pluginVars(InBroker(Waiting))
    /\ WF_pluginVars(InBroker(Draining)) /\ WF_pluginVars(InBroker(Die))
    /\ \A c \in Closers : WF_pluginVars(InBroker(Closing(c)))
    /\ WF_pluginVars(InGuest(Tick))
    /\ \A t \in Threads : /\ WF_pluginVars(InGuest(Shut(t)))
                          /\ WF_pluginVars(InGuest(Unwind(t) \/ Answer(t)))
    /\ \A t \in Emitters : WF_pluginVars(Broken(t))

----------------------------------------------------------------------------
\* Somebody who counts on t's call to end: its caller, or a subprocess's bus that is
\* still busy with an event of a subprocess that is gone.
Held(t) ==
    /\ Active(t)
    /\ thread[t].kind = "call" \/ (thread[t].kind = "rpc" /\ proc = "exited")

\* runtime.go:179-193, 255-263: a guest that is called cannot hold its caller for
\* ever, not even by way of the guest that hears what it emits; nor can the listener
\* hold on to an event of a subprocess that is gone.
NobodyIsHeld == \A t \in Emitters : Held(t) ~> ~Active(t)
=============================================================================
