----------------------------- MODULE WasmGuest -----------------------------
(***************************************************************************)
(* pkg/runtime/wasm: a sandboxed guest that listens to an event, beside    *)
(* whoever emits it: another guest that is being called (Instance.Call),   *)
(* a plugin subprocess over gRPC (pkg/runtime/rpc's hostServer.Emit), or   *)
(* kernel code serving a request.  The event bus (pkg/sdk's EventBus) runs *)
(* the handlers in the emitter's goroutine and under the emitter's         *)
(* context, and that context, once it is done, closes every module that    *)
(* the goroutine is inside of (WithCloseOnContextDone).                    *)
(*                                                                         *)
(* A guest may return, trap, or loop for ever.  Time passes in ticks.  The *)
(* modules are those of wazero, which src/ uses through its interface:     *)
(* two calls at a time of one function object may make anything of the     *)
(* data they share.                                                        *)
(***************************************************************************)
EXTENDS Naturals

CONSTANTS Threads,   \* goroutines of the host
          Budgets,   \* limits a Runtime may be given: [fuel, timeout], in ticks
          Payloads,  \* what an emitter may send
          Fitting,   \* the payloads the listener's memory has room for from its buffer on
          Never      \* no such moment

Empty == "empty"       \* no bytes at all
Object == "object"     \* a value of a Go type: what the kernel's events carry

\* Limits.resolve: a timeout is always set, and no fuel means no bound.
ASSUME GuestAssumption ==
    /\ \A b \in Budgets : b.fuel \in Nat /\ b.timeout \in Nat \ {0}
    /\ Fitting \subseteq Payloads /\ {Empty, Object, "none"} \cap Payloads = {}
    /\ Never \notin Nat

VARIABLES limits,    \* Instance.limits of the guest that is called
          declared,  \* the emitter's manifest declares events:emit
          open,      \* the modules that are not closed
          buffer,    \* what the listener's event buffer holds
          thread,    \* thread[t]: see Resting
          told       \* what t's caller was told

guestVars == <<limits, declared, open, buffer, thread, told>>

Modules == {"emitter", "listener"}

\* pc: in the emitter's function ("guest"), in the listener's event_buf_ptr ("point")
\* or on_event ("handle"), about to answer, or done.
Resting == [pc |-> "idle", kind |-> "call", data |-> Empty, age |-> 0, gone |-> Never,
            alone |-> TRUE, heard |-> "none", failed |-> FALSE]

GuestInit ==
    /\ limits \in Budgets
    /\ declared \in BOOLEAN
    /\ open = Modules
    /\ buffer = Empty
    /\ thread = [t \in Threads |-> Resting]
    /\ told = [t \in Threads |-> "none"]

Active(t) == thread[t].pc \notin {"idle", "done"}

Listening(t) == thread[t].pc \in {"point", "handle"}

\* The modules t has entered and not left: a guest that emits waits in its function.
Inside(t) ==
    {m \in Modules : \/ m = "listener" /\ Listening(t)
                     \/ m = "emitter" /\ thread[t].kind = "call" /\ Active(t)
                           /\ thread[t].pc # "answer"}

----------------------------------------------------------------------------
(* Contexts. *)

\* A deadline of d ticks has passed, and the context had not been cancelled before.
Expired(t, d) == thread[t].age >= d /\ thread[t].gone \notin 0 .. d - 1

FuelDone(t) == limits.fuel > 0 /\ Expired(t, limits.fuel)

\* timeoutCtx is derived from fuelCtx, and has its error as well.
TimeoutDone(t) == FuelDone(t) \/ Expired(t, limits.timeout)

CtxDone(t) ==
    \/ thread[t].gone # Never
    \/ thread[t].kind = "call" /\ TimeoutDone(t)

Horizon == IF limits.fuel > limits.timeout THEN limits.fuel ELSE limits.timeout

Tick ==
    LET late == {t \in Threads : Active(t) /\ thread[t].kind = "call"
                                   /\ thread[t].age < Horizon}
    IN /\ late # {}
       /\ thread' = [t \in Threads |-> IF t \in late THEN [thread[t] EXCEPT !.age = @ + 1]
                                       ELSE thread[t]]
       /\ UNCHANGED <<limits, declared, open, buffer, told>>

\* The caller of t gives up: its context is cancelled.
Cancel(t) ==
    /\ Active(t) /\ thread[t].gone = Never
    /\ thread' = [thread EXCEPT ![t].gone = thread[t].age]
    /\ UNCHANGED <<limits, declared, open, buffer, told>>

----------------------------------------------------------------------------
(* Emitters. *)

\* EventBus.emit runs the listener's handler in t; whoever is in it already is disturbed.
Deliver(t, kind, data) ==
    thread' = [u \in Threads |->
        IF u = t
        THEN [thread[t] EXCEPT !.pc = "point", !.kind = kind, !.data = data,
                               !.heard = "none",
                               !.alone = ~\E v \in Threads \ {t} : Listening(v)]
        ELSE [thread[u] EXCEPT !.alone = @ /\ ~Listening(u)]]

\* Instance.Call of a function the guest exports.
CallGuest(t) ==
    /\ thread[t].pc = "idle"
    /\ thread' = [thread EXCEPT ![t] = [Resting EXCEPT !.pc = "guest"]]
    /\ UNCHANGED <<limits, declared, open, buffer, told>>

\* emit_event is among its imports only if the manifest declares it.
GuestEmits(t) ==
    /\ thread[t].pc = "guest" /\ "emitter" \in open /\ declared
    /\ \E p \in Payloads : Deliver(t, "call", p)
    /\ UNCHANGED <<limits, declared, open, buffer, told>>

\* The guest's function is over, and what it emitted forgotten.
Ending(t, failed) ==
    [Resting EXCEPT !.pc = "answer", !.failed = failed, !.kind = thread[t].kind,
                    !.age = thread[t].age, !.gone = thread[t].gone]

GuestReturns(t) ==
    /\ thread[t].pc = "guest" /\ "emitter" \in open
    /\ \E trap \in BOOLEAN :
           thread' = [thread EXCEPT ![t] = Ending(t, trap)]
    /\ UNCHANGED <<limits, declared, open, buffer, told>>

\* A subprocess calls Emit over gRPC: refused with FailedPrecondition if undeclared.
RpcEmits(t) ==
    /\ thread[t].pc = "idle"
    /\ IF declared
       THEN (\E p \in Payloads : Deliver(t, "rpc", p)) /\ UNCHANGED told
       ELSE /\ told' = [told EXCEPT ![t] = "denied"]
            /\ thread' = [thread EXCEPT ![t].pc = "done"]
    /\ UNCHANGED <<limits, declared, open, buffer>>

\* commerce and membership emit values of their own types, under a request's context.
KernelEmits(t) ==
    /\ thread[t].pc = "idle"
    /\ Deliver(t, "request", Object)
    /\ UNCHANGED <<limits, declared, open, buffer, told>>

----------------------------------------------------------------------------
(* The handler of Subscribe. *)

\* payload.([]byte): anything else is no bytes.
Bytes(data) == IF data = Object THEN Empty ELSE data

\* The handler is over: its emitter goes on, or answers.
Left(t, failed) ==
    [thread[t] EXCEPT !.pc = IF thread[t].kind = "call" THEN "guest" ELSE "answer",
                      !.failed = failed]

\* Faulty PointReturns: on_event is called first and the payload written after it.
PointReturnsBare(t) ==
    /\ thread[t].pc = "point" /\ "listener" \in open
    /\ thread' = [thread EXCEPT ![t].pc = "handle"]
    /\ UNCHANGED <<limits, declared, open, buffer, told>>

\* event_buf_ptr returns, and the payload is written where it points.  Memory().Write
\* fails at the end of the guest's linear memory: how much of it the guest meant for
\* events the host does not know.
PointReturns(t) ==
    LET bytes == Bytes(thread[t].data)
    IN /\ thread[t].pc = "point" /\ "listener" \in open
       /\ IF bytes \in Fitting \cup {Empty}
          THEN /\ thread' = [thread EXCEPT ![t].pc = "handle"]
               /\ buffer' = IF bytes = Empty THEN buffer ELSE bytes
          ELSE /\ thread' = [thread EXCEPT ![t] = Left(t, TRUE)]
               /\ UNCHANGED buffer
       /\ UNCHANGED <<limits, declared, open, told>>

\* on_event(len) has read as much of the buffer as it was told of.
HandlerReturns(t) ==
    /\ thread[t].pc = "handle" /\ "listener" \in open
    /\ \E h \in IF ~thread[t].alone THEN Payloads \cup {Empty}
                ELSE IF Bytes(thread[t].data) = Empty THEN {Empty} ELSE {buffer} :
           thread' = [thread EXCEPT ![t] = [Left(t, FALSE) EXCEPT !.heard = h]]
    /\ UNCHANGED <<limits, declared, open, buffer, told>>

HandlerTraps(t) ==
    /\ Listening(t) /\ "listener" \in open
    /\ thread' = [thread EXCEPT ![t] = Left(t, TRUE)]
    /\ UNCHANGED <<limits, declared, open, buffer, told>>

----------------------------------------------------------------------------
(* Interruption and answers. *)

\* Faulty Shut: a handler runs under a context of its own.
ShutEmitter(t) ==
    /\ CtxDone(t) /\ "emitter" \in Inside(t) \cap open
    /\ open' = open \ {"emitter"}
    /\ UNCHANGED <<limits, declared, buffer, thread, told>>

\* A context that is done closes the modules its goroutine is inside of.
Shut(t) ==
    /\ CtxDone(t)
    /\ \E m \in Inside(t) \cap open : open' = open \ {m}
    /\ UNCHANGED <<limits, declared, buffer, thread, told>>

\* Instance.Close.
CloseInstance ==
    /\ \E m \in open : open' = open \ {m}
    /\ UNCHANGED <<limits, declared, buffer, thread, told>>

\* A function of a closed module ends with an error, at its next check or at its start.
Unwind(t) ==
    /\ \/ Listening(t) /\ "listener" \notin open
          /\ thread' = [thread EXCEPT ![t] = Left(t, TRUE)]
       \/ thread[t].pc = "guest" /\ "emitter" \notin open
          /\ thread' = [thread EXCEPT ![t] = Ending(t, TRUE)]
    /\ UNCHANGED <<limits, declared, open, buffer, told>>

\* Faulty CallError: the execution timeout is looked at first.
CallErrorTimeoutFirst(t) ==
    CASE TimeoutDone(t) -> "timeout"
      [] ~TimeoutDone(t) /\ FuelDone(t) -> "fuel"
      [] OTHER -> "error"

\* Call's errors: ErrFuelExhausted, ErrExecutionTimeout, or the guest's own.
CallError(t) ==
    CASE FuelDone(t) -> "fuel"
      [] ~FuelDone(t) /\ TimeoutDone(t) -> "timeout"
      [] OTHER -> "error"

Answer(t) ==
    /\ thread[t].pc = "answer"
    /\ told' = [told EXCEPT ![t] =
           IF ~thread[t].failed THEN "ok"
           ELSE IF thread[t].kind = "call" THEN CallError(t) ELSE "error"]
    /\ thread' = [thread EXCEPT ![t] = [Resting EXCEPT !.pc = "done"]]
    /\ UNCHANGED <<limits, declared, open, buffer>>

\* What the host's side of a call does by itself.
HostStep(t) == Shut(t) \/ Unwind(t) \/ Answer(t)

ListenerStep(t) == PointReturns(t) \/ HandlerReturns(t) \/ HandlerTraps(t)

EmitterStep(t) == CallGuest(t) \/ GuestEmits(t) \/ GuestReturns(t)

----------------------------------------------------------------------------
(* What the runtime promises. *)

\* The budget is no longer than the timeout, as Limits means it to be.
FuelFirst == limits.fuel \in 1 .. limits.timeout

Earliest == IF FuelFirst THEN limits.fuel ELSE limits.timeout

CallAnswered(t) == thread[t].kind = "call" /\ thread[t].pc # "idle" /\ told'[t] # told[t]

\* What t's caller is told now is borne out by the time its call took.
ToldFairly(t) ==
    CallAnswered(t) =>
        LET inTime == thread[t].age < Earliest \/ thread[t].gone \in 0 .. Earliest - 1
        IN CASE told'[t] = "ok" -> TRUE
             [] told'[t] = "error" -> inTime
             [] told'[t] = "timeout" -> ~inTime /\ ~FuelFirst
             [] told'[t] = "fuel" ->
                    ~inTime /\ (FuelFirst \/ (limits.fuel > 0 /\ Expired(t, limits.fuel)))
             [] OTHER -> FALSE

\* runtime.go:255-263, 286-302: a Call that fails names neither limit if the caller had
\* given up before the earlier of them or the guest failed in time, the timeout only
\* if that tripped first, and always the fuel budget if that tripped first.  What it
\* leaves open is a budget longer than the timeout: that is named, too, when it had
\* run out by the time Call looked, although the timeout had tripped before.
LimitsToldApart == [][\A t \in Threads : ToldFairly(t)]_guestVars

\* runtime.go:55-58 and 80-83: the error reported is the one whose deadline fired
\* first, whichever of the two that is.  It holds where no fuel budget is longer than
\* the timeout, and not in general.
FirstLimitBlamed ==
    [][\A t \in Threads : CallAnswered(t) =>
           /\ told'[t] = "fuel" => FuelFirst
           /\ told'[t] = "timeout" => ~FuelFirst]_guestVars

\* runtime.go:304-339: a delivery that no other one overlapped is heard as it was
\* sent, whatever an earlier one left in the listener's buffer; a payload that is not
\* bytes is heard as none.
DeliveredIntact ==
    \A t \in Threads : (thread[t].alone /\ thread[t].heard # "none") =>
        thread[t].heard = Bytes(thread[t].data)
=============================================================================
