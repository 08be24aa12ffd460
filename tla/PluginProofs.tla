---------------------------- MODULE PluginProofs ----------------------------
(***************************************************************************)
(* Proofs about plugins: of PluginProcesses, for any number of callers,    *)
(* threads and lines, any size of the pipe and any limits; of              *)
(* PluginSystem, for any manifests, configurations, subscriptions and      *)
(* decisions, and any number of boots and of emits.                        *)
(***************************************************************************)
EXTENDS PluginProcesses, PluginSystem, SequenceTheorems, FiniteSetTheorems,
        WellFoundedInduction, TLAPS

-----------------------------------------------------------------------------
\* The subprocess.  The strengthening says how far Launch, the process and its
\* wait goroutine are of each other; what was printed does not matter to it.
BrokerInv ==
    /\ closing \in [Closers -> {"idle", "check", "wait", "returned"}]
    /\ launch \in {"setup", "start"} =>
          proc = "none" /\ \A c \in Closers : closing[c] = "idle"
    /\ launch = "start" => serving /\ dir
    /\ proc \in {"none", "alive", "killed", "exited"}
    /\ proc = "none" => waiter = "off"
    /\ waiter \in {"reaped", "marked", "signalled", "done"} => proc = "exited"
    /\ done => waiter \in {"signalled", "done"}
    /\ proc \in {"alive", "killed"} => serving /\ dir
    /\ ClosedIsReleased

LEMMA BrokerInitially == Init => BrokerInv
BY DEF Init, BrokerInv, ClosedIsReleased

\* Launch.
LEMMA LaunchKeeps == BrokerInv /\ Launching => BrokerInv'
<1> SUFFICES ASSUME BrokerInv, Launching PROVE BrokerInv'
    OBVIOUS
<1> USE DEF BrokerInv, ClosedIsReleased
<1>1. CASE Setup
  BY <1>1 DEF Setup
<1>2. CASE Start
  BY <1>2 DEF Start
<1>3. CASE SelectReady
  BY <1>3 DEF SelectReady
<1>4. CASE StoreRunning
  BY <1>4 DEF StoreRunning
<1>5. CASE SelectDone
  BY <1>5 DEF SelectDone
<1>6. CASE SelectTimeout
  BY <1>6 DEF SelectTimeout
<1>7. CASE TimedOut
  BY <1>7 DEF TimedOut
<1> QED
  BY <1>1, <1>2, <1>3, <1>4, <1>5, <1>6, <1>7 DEF Launching

\* The wait and drain goroutines.
LEMMA GoroutinesKeep == BrokerInv /\ (Waiting \/ Draining) => BrokerInv'
<1> SUFFICES ASSUME BrokerInv, Waiting \/ Draining PROVE BrokerInv'
    OBVIOUS
<1> USE DEF BrokerInv, ClosedIsReleased
<1>1. CASE Reap
  BY <1>1 DEF Reap
<1>2. CASE MarkDead
  BY <1>2 DEF MarkDead
<1>3. CASE CloseDone
  BY <1>3 DEF CloseDone
<1>4. CASE StopServer
  BY <1>4 DEF StopServer
<1>5. CASE Draining
  BY <1>5 DEF Draining, Drain, EndOfStream
<1> QED
  BY <1>1, <1>2, <1>3, <1>4, <1>5 DEF Waiting

\* The subprocess itself.
LEMMA ProcessKeeps == BrokerInv /\ (WriteLine \/ Exit \/ Die) => BrokerInv'
<1> SUFFICES ASSUME BrokerInv, WriteLine \/ Exit \/ Die PROVE BrokerInv'
    OBVIOUS
<1> USE DEF BrokerInv, ClosedIsReleased
<1>1. CASE WriteLine
  BY <1>1 DEF WriteLine
<1>2. CASE Exit
  BY <1>2 DEF Exit
<1>3. CASE Die
  BY <1>3 DEF Die
<1> QED
  BY <1>1, <1>2, <1>3

\* Its users.
LEMMA UsersKeep ==
    ASSUME BrokerInv, NEW c \in Closers, Dial(c) \/ CallClose(c) \/ Closing(c)
    PROVE  BrokerInv'
<1> USE DEF BrokerInv, ClosedIsReleased
<1>1. CASE Dial(c)
  BY <1>1 DEF Dial
<1>2. CASE CallClose(c)
  BY <1>2 DEF CallClose
<1>3. CASE CloseUnstarted(c)
  BY <1>3 DEF CloseUnstarted
<1>4. CASE Kill(c)
  BY <1>4 DEF Kill
<1>5. CASE Await(c)
  BY <1>5 DEF Await
<1> QED
  BY <1>1, <1>2, <1>3, <1>4, <1>5 DEF Closing

LEMMA BrokerStepKeeps == BrokerInv /\ [Next]_vars => BrokerInv'
<1> SUFFICES ASSUME BrokerInv, [Next]_vars PROVE BrokerInv'
    OBVIOUS
<1>1. CASE Next
  BY <1>1, LaunchKeeps, GoroutinesKeep, ProcessKeeps, UsersKeep DEF Next, Closers
<1>2. CASE UNCHANGED vars
  BY <1>2 DEF vars, BrokerInv, ClosedIsReleased
<1> QED
  BY <1>1, <1>2

\* Types.  The pipe never holds more than it has room for.
LEMMA BrokerTypeStep == TypeOK /\ [Next]_vars => TypeOK'
<1> SUFFICES ASSUME TypeOK, [Next]_vars PROVE TypeOK'
    OBVIOUS
<1> DEFINE Others == /\ launch \in {"setup", "start", "select", "store", "closing",
                                    "ok", "failed", "no broker"}
                     /\ proc \in {"none", "alive", "killed", "exited"}
                     /\ drain \in {"off", "reading", "stopped"}
                     /\ waiter \in {"off", "waiting", "reaped", "marked", "signalled", "done"}
                     /\ state \in {"starting", "running", "dead"}
                     /\ ready \in BOOLEAN /\ done \in BOOLEAN /\ conn \in BOOLEAN
                     /\ serving \in BOOLEAN /\ dir \in BOOLEAN
                     /\ closing \in [Closers -> {"idle", "check", "wait", "returned"}]
<1>1. Others
  BY DEF TypeOK
<1>2. /\ pipe' \in Seq(Lines) /\ Len(pipe') <= PipeCapacity
      /\ printed' \in 0 .. MaxLines
  <2>1. pipe \in Seq(Lines)
    BY DEF TypeOK
  <2>2. Len(pipe) \in Nat
    BY <2>1, LenProperties
  <2>3. Len(pipe) <= PipeCapacity
    BY DEF TypeOK
  <2>4. printed \in 0 .. MaxLines
    BY DEF TypeOK
  <2>5. CASE WriteLine
    <3> PICK l \in Lines : pipe' = Append(pipe, l)
      BY <2>5 DEF WriteLine
    <3>1. pipe' \in Seq(Lines)
      BY <2>1, AppendProperties
    <3>2. Len(pipe') = Len(pipe) + 1
      BY <2>1, AppendProperties
    <3>3. Len(pipe) < PipeCapacity
      BY <2>5 DEF WriteLine
    <3>4. printed < MaxLines /\ printed' = printed + 1
      BY <2>5 DEF WriteLine
    <3>5. Len(pipe') <= PipeCapacity
      BY <2>2, <3>2, <3>3, BrokerAssumption
    <3>6. printed' \in 0 .. MaxLines
      BY <2>4, <3>4, BrokerAssumption
    <3> QED
      BY <3>1, <3>5, <3>6
  <2>6. CASE Drain
    <3>1. pipe # <<>> /\ pipe' = Tail(pipe)
      BY <2>6 DEF Drain
    <3>2. pipe' \in Seq(Lines)
      BY <2>1, <3>1, HeadTailProperties
    <3>3. Len(pipe') = Len(pipe) - 1
      BY <2>1, <3>1, HeadTailProperties
    <3>4. Len(pipe') <= PipeCapacity
      BY <2>2, <2>3, <3>3, BrokerAssumption
    <3> QED
      BY <2>4, <2>6, <3>2, <3>4 DEF Drain
  <2>7. CASE UNCHANGED <<pipe, printed>>
    BY <2>1, <2>3, <2>4, <2>7
  <2> QED
    BY <2>5, <2>6, <2>7
    DEF vars, Next, Launching, Waiting, Draining, Closing, Setup, Start, SelectReady,
        StoreRunning, SelectDone, SelectTimeout, TimedOut, Reap, MarkDead, CloseDone,
        StopServer, EndOfStream, Exit, Die, Dial, CallClose, CloseUnstarted, Kill, Await
<1>3. Others'
  <2>1. CASE Launching
    <3>1. CASE Setup \/ Start
      BY <1>1, <3>1 DEF Setup, Start
    <3>2. CASE SelectReady \/ StoreRunning
      BY <1>1, <3>2 DEF SelectReady, StoreRunning
    <3>3. CASE SelectDone \/ TimedOut
      BY <1>1, <3>3 DEF SelectDone, TimedOut
    <3>4. CASE SelectTimeout
      <4>1. closing' \in [Closers -> {"idle", "check", "wait", "returned"}]
        BY <1>1, <3>4 DEF SelectTimeout
      <4> QED
        BY <1>1, <3>4, <4>1 DEF SelectTimeout
    <3> QED
      BY <2>1, <3>1, <3>2, <3>3, <3>4 DEF Launching
  <2>4. CASE Waiting
    <3>1. CASE Reap \/ MarkDead
      BY <1>1, <3>1 DEF Reap, MarkDead
    <3>2. CASE CloseDone \/ StopServer
      BY <1>1, <3>2 DEF CloseDone, StopServer
    <3> QED
      BY <2>4, <3>1, <3>2 DEF Waiting
  <2>5. CASE Exit \/ Die \/ WriteLine \/ UNCHANGED vars
    BY <1>1, <2>5 DEF vars, Exit, Die, WriteLine
  <2>2. CASE Draining
    <3>1. ready' \in BOOLEAN
      BY <1>1, <2>2 DEF Draining, Drain, EndOfStream
    <3> QED
      BY <1>1, <2>2, <3>1 DEF Draining, Drain, EndOfStream
  <2>3. ASSUME NEW c \in Closers, Dial(c) \/ CallClose(c) \/ Closing(c) PROVE Others'
    BY <1>1, <2>3 DEF Dial, CallClose, Closing, CloseUnstarted, Kill, Await
  <2> QED
    BY <2>1, <2>2, <2>3, <2>4, <2>5 DEF Next, Closers
<1> QED
  BY <1>2, <1>3 DEF TypeOK

\* The Broker alone: its states, its goroutines and its pipe stay what they are.
THEOREM BrokerTyped == Spec => []TypeOK
<1>1. Init => TypeOK
  <2> SUFFICES ASSUME Init PROVE TypeOK
      OBVIOUS
  <2>1. pipe \in Seq(Lines) /\ Len(pipe) <= PipeCapacity /\ printed \in 0 .. MaxLines
    BY BrokerAssumption DEF Init
  <2> QED
    BY <2>1 DEF Init, TypeOK
<1> QED
  BY <1>1, BrokerTypeStep, PTL DEF Spec

\* A step of the whole is one of the subprocess or leaves it alone.
LEMMA BrokerAlone == [PluginNext]_pluginVars => [Next]_vars
BY DEF PluginNext, pluginVars, vars, BrokerStep, InBroker, InGuest, StreamStep,
       Broken, GuestStep, KernelStep

LEMMA BrokerHolds == PluginSpec => []BrokerInv
<1>1. PluginInit => BrokerInv
  BY BrokerInitially DEF PluginInit
<1>2. BrokerInv /\ [PluginNext]_pluginVars => BrokerInv'
  BY BrokerAlone, BrokerStepKeeps
<1> QED
  BY <1>1, <1>2, PTL DEF PluginSpec

\* Close of the Broker (broker.go:363-400), in whatever order Launch, the exit
\* of the process and other callers run: when it returns nothing is left.
THEOREM ReleasedByClose == PluginSpec => []ClosedIsReleased
<1>1. BrokerInv => ClosedIsReleased
  BY DEF BrokerInv
<1> QED
  BY <1>1, BrokerHolds, PTL

\* The subprocess is served its HostAPI for as long as it lives: the server is
\* stopped and its sockets are removed by those who saw it dead only.
THEOREM ServedUntilDeath == PluginSpec => []ServedWhileAlive
<1>1. BrokerInv => ServedWhileAlive
  BY DEF BrokerInv, ServedWhileAlive
<1> QED
  BY <1>1, BrokerHolds, PTL

-----------------------------------------------------------------------------
\* The guest.  Of two threads in the listener neither counts as alone, and the
\* buffer holds what the one that is alone was about to hear.
ThreadRecord ==
    [pc : {"idle", "guest", "point", "handle", "answer", "done"},
     kind : {"call", "rpc", "request"}, data : Payloads \cup {Empty, Object},
     age : Nat, gone : Nat \cup {Never}, alone : BOOLEAN,
     heard : Payloads \cup {Empty, "none"}, failed : BOOLEAN]

GuestTyped ==
    /\ limits \in Budgets
    /\ buffer \in Payloads \cup {Empty}
    /\ thread \in [Threads -> ThreadRecord]

GuestInv ==
    /\ GuestTyped
    /\ \A t, u \in Threads :
          (t # u /\ Listening(t) /\ Listening(u)) => ~ thread[t].alone
    /\ \A t \in Threads :
          (/\ thread[t].pc = "handle" /\ thread[t].alone
           /\ Bytes(thread[t].data) # Empty) => buffer = Bytes(thread[t].data)
    /\ DeliveredIntact

LEMMA GuestInitially == GuestInit => GuestInv
BY DEF GuestInit, GuestInv, GuestTyped, ThreadRecord, Resting, Listening, DeliveredIntact

LEMMA GuestUnchanged == GuestInv /\ UNCHANGED guestVars => GuestInv'
BY DEF GuestInv, GuestTyped, guestVars, Listening, DeliveredIntact

\* A delivery makes everybody who listens already one that was not alone.
LEMMA DeliveryKeeps ==
    ASSUME GuestInv, NEW t \in Threads, NEW kind \in {"call", "rpc", "request"},
           NEW data \in Payloads \cup {Object}, Deliver(t, kind, data),
           UNCHANGED <<limits, buffer>>
    PROVE  GuestInv'
<1> DEFINE Entered == [thread[t] EXCEPT !.pc = "point", !.kind = kind, !.data = data,
                               !.heard = "none",
                               !.alone = ~\E v \in Threads \ {t} : Listening(v)]
           Disturbed(u) == [thread[u] EXCEPT !.alone = @ /\ ~Listening(u)]
<1>1. thread' = [u \in Threads |-> IF u = t THEN Entered ELSE Disturbed(u)]
  BY DEF Deliver
<1>2. /\ Entered \in ThreadRecord
      /\ Entered.pc = "point" /\ Entered.heard = "none"
      /\ Entered.alone => \A v \in Threads \ {t} : ~Listening(v)
  <2>1. thread[t] \in ThreadRecord
    BY DEF GuestInv, GuestTyped
  <2>2. PICK alone \in BOOLEAN : alone = ~\E v \in Threads \ {t} : Listening(v)
    OBVIOUS
  <2>3. Entered = [thread[t] EXCEPT !.pc = "point", !.kind = kind, !.data = data,
                                    !.heard = "none", !.alone = alone]
    BY <2>2
  <2>4. alone => \A v \in Threads \ {t} : ~Listening(v)
    BY <2>2
  <2> HIDE DEF Entered
  <2>5. Entered \in ThreadRecord
    BY <2>1, <2>3 DEF ThreadRecord
  <2>6. Entered.pc = "point" /\ Entered.heard = "none" /\ Entered.alone = alone
    BY <2>1, <2>3 DEF ThreadRecord
  <2> QED
    BY <2>4, <2>5, <2>6
<1>3. ASSUME NEW u \in Threads
      PROVE /\ Disturbed(u) \in ThreadRecord
            /\ Disturbed(u).pc = thread[u].pc /\ Disturbed(u).data = thread[u].data
            /\ Disturbed(u).heard = thread[u].heard
            /\ Disturbed(u).alone => thread[u].alone /\ ~Listening(u)
  <2>1. thread[u] \in ThreadRecord
    BY DEF GuestInv, GuestTyped
  <2>2. PICK alone \in BOOLEAN : alone = (thread[u].alone /\ ~Listening(u))
    BY <2>1 DEF ThreadRecord
  <2>3. Disturbed(u) = [thread[u] EXCEPT !.alone = alone]
    BY <2>2
  <2> HIDE DEF Disturbed
  <2> QED
    BY <2>1, <2>2, <2>3 DEF ThreadRecord
<1> HIDE DEF Entered, Disturbed
<1>4. GuestTyped'
  BY <1>1, <1>2, <1>3 DEF GuestInv, GuestTyped
<1>5. \A u, v \in Threads :
          (u # v /\ Listening(u)' /\ Listening(v)') => ~ thread'[u].alone
  BY <1>1, <1>2, <1>3 DEF Listening
<1>6. \A u \in Threads :
          (/\ thread'[u].pc = "handle" /\ thread'[u].alone
           /\ Bytes(thread'[u].data) # Empty) => buffer' = Bytes(thread'[u].data)
  BY <1>1, <1>2, <1>3 DEF Listening
<1>7. DeliveredIntact'
  BY <1>1, <1>2, <1>3 DEF DeliveredIntact, GuestInv
<1> QED
  BY <1>4, <1>5, <1>6, <1>7 DEF GuestInv

\* A thread that is out of the listener, or leaves it, disturbs nobody.
LEMMA LeavingKeeps ==
    ASSUME GuestInv, NEW t \in Threads, NEW r \in ThreadRecord,
           thread' = [thread EXCEPT ![t] = r], r.pc \notin {"point", "handle"},
           (r.alone /\ r.heard # "none") => r.heard = Bytes(r.data),
           UNCHANGED <<limits, buffer>>
    PROVE  GuestInv'
<1>1. GuestTyped'
  BY DEF GuestInv, GuestTyped
<1>2. \A u \in Threads : thread'[u] = IF u = t THEN r ELSE thread[u]
  BY DEF GuestInv, GuestTyped
<1>3. DeliveredIntact'
  BY <1>2 DEF GuestInv, DeliveredIntact
<1> QED
  BY <1>1, <1>2, <1>3 DEF GuestInv, Listening

\* Time and cancellation change no more than a thread's clock.
LEMMA AgeingKeeps ==
    ASSUME GuestInv, thread' \in [Threads -> ThreadRecord],
           \A u \in Threads :
               /\ thread'[u].pc = thread[u].pc /\ thread'[u].data = thread[u].data
               /\ thread'[u].alone = thread[u].alone /\ thread'[u].heard = thread[u].heard,
           UNCHANGED <<limits, buffer>>
    PROVE  GuestInv'
BY DEF GuestInv, GuestTyped, Listening, DeliveredIntact

\* What the functions of a thread leave of its record.
LEMMA RecordsOver ==
    ASSUME GuestInv, NEW t \in Threads, NEW failed \in BOOLEAN
    PROVE  /\ Left(t, failed) \in ThreadRecord
           /\ Left(t, failed).pc \in {"guest", "answer"}
           /\ Left(t, failed).alone = thread[t].alone
           /\ Left(t, failed).heard = thread[t].heard
           /\ Left(t, failed).data = thread[t].data
           /\ Ending(t, failed) \in ThreadRecord
           /\ Ending(t, failed).pc = "answer" /\ Ending(t, failed).heard = "none"
           /\ Resting \in ThreadRecord /\ Resting.heard = "none"
<1>1. thread[t] \in ThreadRecord
  BY DEF GuestInv, GuestTyped
<1>2. Resting \in ThreadRecord /\ Resting.heard = "none"
  BY DEF ThreadRecord, Resting
<1>3. /\ Left(t, failed) \in ThreadRecord
      /\ Left(t, failed).pc \in {"guest", "answer"}
  BY <1>1, <1>2 DEF ThreadRecord, Left
<1>4. /\ Left(t, failed).alone = thread[t].alone
      /\ Left(t, failed).heard = thread[t].heard
      /\ Left(t, failed).data = thread[t].data
  BY <1>1 DEF ThreadRecord, Left
<1>5. /\ Ending(t, failed) \in ThreadRecord
      /\ Ending(t, failed).pc = "answer" /\ Ending(t, failed).heard = "none"
  BY <1>1, <1>2 DEF ThreadRecord, Ending, Resting
<1> QED
  BY <1>2, <1>3, <1>4, <1>5

LEMMA EmittersKeep ==
    ASSUME GuestInv, NEW t \in Threads, EmitterStep(t) \/ RpcEmits(t) \/ KernelEmits(t)
    PROVE  GuestInv'
<1>1. CASE CallGuest(t)
  <2> DEFINE r == [Resting EXCEPT !.pc = "guest"]
  <2>1. r \in ThreadRecord /\ r.pc = "guest" /\ r.heard = "none"
    BY DEF Resting, ThreadRecord
  <2> QED
    BY <1>1, <2>1, LeavingKeeps DEF CallGuest
<1>2. CASE GuestEmits(t)
  BY <1>2, DeliveryKeeps DEF GuestEmits
<1>3. CASE GuestReturns(t)
  <2> PICK trap \in BOOLEAN : thread' = [thread EXCEPT ![t] = Ending(t, trap)]
    BY <1>3 DEF GuestReturns
  <2> QED
    BY <1>3, RecordsOver, LeavingKeeps DEF GuestReturns
<1>4. CASE RpcEmits(t)
  <2>1. CASE declared
    BY <1>4, <2>1, DeliveryKeeps DEF RpcEmits
  <2>2. CASE ~declared
    <3> DEFINE r == [thread[t] EXCEPT !.pc = "done"]
    <3>1. r \in ThreadRecord /\ r.pc = "done" /\ r.heard = thread[t].heard
          /\ r.alone = thread[t].alone /\ r.data = thread[t].data
      BY DEF GuestInv, GuestTyped, ThreadRecord
    <3>2. thread' = [thread EXCEPT ![t] = r]
      BY <1>4, <2>2 DEF RpcEmits
    <3> QED
      BY <1>4, <3>1, <3>2, LeavingKeeps DEF RpcEmits, GuestInv, DeliveredIntact
  <2> QED
    BY <2>1, <2>2
<1>5. CASE KernelEmits(t)
  BY <1>5, DeliveryKeeps DEF KernelEmits
<1> QED
  BY <1>1, <1>2, <1>3, <1>4, <1>5 DEF EmitterStep

LEMMA ListenerKeeps ==
    ASSUME GuestInv, NEW t \in Threads, ListenerStep(t)
    PROVE  GuestInv'
<1>1. ASSUME PointReturns(t), Bytes(thread[t].data) \in Fitting \cup {Empty}
      PROVE  GuestInv'
  <2> DEFINE r == [thread[t] EXCEPT !.pc = "handle"]
  <2>1. /\ r \in ThreadRecord /\ r.pc = "handle"
        /\ r.alone = thread[t].alone /\ r.heard = thread[t].heard /\ r.data = thread[t].data
    BY DEF GuestInv, GuestTyped, ThreadRecord
  <2>2. thread' = [thread EXCEPT ![t] = r] /\ Listening(t) /\ limits' = limits
        /\ buffer' = IF Bytes(thread[t].data) = Empty THEN buffer
                     ELSE Bytes(thread[t].data)
    BY <1>1 DEF PointReturns, Listening
  <2> HIDE DEF r
  <2>3. \A u \in Threads : thread'[u] = IF u = t THEN r ELSE thread[u]
    BY <2>2 DEF GuestInv, GuestTyped
  <2>4. GuestTyped'
    BY <1>1, <2>1, <2>2, GuestAssumption DEF GuestInv, GuestTyped
  <2>5. \A u \in Threads : Listening(u)' <=> Listening(u)
    BY <2>1, <2>2, <2>3 DEF Listening
  <2>6. \A u \in Threads :
          (/\ thread'[u].pc = "handle" /\ thread'[u].alone
           /\ Bytes(thread'[u].data) # Empty) => buffer' = Bytes(thread'[u].data)
    BY <2>1, <2>2, <2>3, <2>5 DEF GuestInv, Listening
  <2>7. DeliveredIntact'
    BY <2>1, <2>3 DEF GuestInv, DeliveredIntact
  <2> QED
    BY <2>1, <2>3, <2>4, <2>5, <2>6, <2>7 DEF GuestInv
<1>2. ASSUME thread' = [thread EXCEPT ![t] = Left(t, TRUE)], UNCHANGED <<limits, buffer>>
      PROVE  GuestInv'
  <2>1. /\ Left(t, TRUE) \in ThreadRecord /\ Left(t, TRUE).pc \in {"guest", "answer"}
        /\ Left(t, TRUE).alone = thread[t].alone
        /\ Left(t, TRUE).heard = thread[t].heard
        /\ Left(t, TRUE).data = thread[t].data
    BY RecordsOver
  <2> QED
    BY <1>2, <2>1, LeavingKeeps DEF GuestInv, DeliveredIntact
<1>3. CASE HandlerReturns(t)
  <2> PICK h \in IF ~thread[t].alone THEN Payloads \cup {Empty}
                 ELSE IF Bytes(thread[t].data) = Empty THEN {Empty} ELSE {buffer} :
           thread' = [thread EXCEPT ![t] = [Left(t, FALSE) EXCEPT !.heard = h]]
    BY <1>3 DEF HandlerReturns
  <2> DEFINE r == [Left(t, FALSE) EXCEPT !.heard = h]
  <2>1. thread[t].pc = "handle" /\ thread[t].alone \in BOOLEAN
        /\ buffer \in Payloads \cup {Empty}
    BY <1>3 DEF HandlerReturns, GuestInv, GuestTyped, ThreadRecord
  <2>2. h \in Payloads \cup {Empty}
    BY <2>1
  <2>3. r \in ThreadRecord /\ r.pc \in {"guest", "answer"} /\ r.heard = h
        /\ r.alone = thread[t].alone /\ r.data = thread[t].data
    <3>1. /\ Left(t, FALSE) \in ThreadRecord /\ Left(t, FALSE).pc \in {"guest", "answer"}
          /\ Left(t, FALSE).alone = thread[t].alone
          /\ Left(t, FALSE).data = thread[t].data
      BY RecordsOver
    <3> QED
      BY <2>2, <3>1 DEF ThreadRecord
  <2>4. thread[t].alone => h = Bytes(thread[t].data)
    BY <2>1 DEF GuestInv
  <2> QED
    BY <1>3, <2>3, <2>4, LeavingKeeps DEF HandlerReturns
<1>4. CASE HandlerTraps(t)
  BY <1>4, <1>2 DEF HandlerTraps
<1> QED
  BY <1>1, <1>2, <1>3, <1>4 DEF ListenerStep, PointReturns

LEMMA HostKeeps ==
    ASSUME GuestInv, NEW t \in Threads, HostStep(t) \/ Cancel(t)
    PROVE  GuestInv'
<1>1. CASE Shut(t)
  BY <1>1, AgeingKeeps DEF Shut, GuestInv, GuestTyped
<1>2. CASE Unwind(t)
  <2>1. /\ Left(t, TRUE) \in ThreadRecord /\ Left(t, TRUE).pc \in {"guest", "answer"}
        /\ Left(t, TRUE).alone = thread[t].alone
        /\ Left(t, TRUE).heard = thread[t].heard
        /\ Left(t, TRUE).data = thread[t].data
        /\ Ending(t, TRUE) \in ThreadRecord /\ Ending(t, TRUE).pc = "answer"
        /\ Ending(t, TRUE).heard = "none"
    BY RecordsOver
  <2>2. CASE thread' = [thread EXCEPT ![t] = Left(t, TRUE)]
    BY <1>2, <2>1, <2>2, LeavingKeeps DEF Unwind, GuestInv, DeliveredIntact
  <2>3. CASE thread' = [thread EXCEPT ![t] = Ending(t, TRUE)]
    BY <1>2, <2>1, <2>3, LeavingKeeps DEF Unwind
  <2> QED
    BY <1>2, <2>2, <2>3 DEF Unwind
<1>3. CASE Answer(t)
  <2> DEFINE r == [Resting EXCEPT !.pc = "done"]
  <2>1. r \in ThreadRecord /\ r.pc = "done" /\ r.heard = "none"
    BY DEF Resting, ThreadRecord
  <2> QED
    BY <1>3, <2>1, LeavingKeeps DEF Answer
<1>4. CASE Cancel(t)
  BY <1>4, AgeingKeeps DEF Cancel, GuestInv, GuestTyped, ThreadRecord
<1> QED
  BY <1>1, <1>2, <1>3, <1>4 DEF HostStep

LEMMA ClockKeeps == GuestInv /\ (Tick \/ CloseInstance) => GuestInv'
<1>1. GuestInv /\ Tick => GuestInv'
  BY AgeingKeeps DEF Tick, GuestInv, GuestTyped, ThreadRecord
<1>2. GuestInv /\ CloseInstance => GuestInv'
  BY AgeingKeeps DEF CloseInstance, GuestInv, GuestTyped
<1> QED
  BY <1>1, <1>2

LEMMA GuestHolds == PluginSpec => []GuestInv
<1>1. PluginInit => GuestInv
  BY GuestInitially DEF PluginInit
<1>2. GuestInv /\ [PluginNext]_pluginVars => GuestInv'
  <2> SUFFICES ASSUME GuestInv, [PluginNext]_pluginVars PROVE GuestInv'
      OBVIOUS
  <2>1. CASE UNCHANGED guestVars
    BY <2>1, GuestUnchanged
  <2>2. CASE Tick \/ CloseInstance
    BY <2>2, ClockKeeps
  <2>3. ASSUME NEW t \in Emitters, Emits(t) \/ Disconnect(t) \/ EmitterStep(t)
        PROVE  GuestInv'
    BY <2>3, EmittersAssumption, EmittersKeep, HostKeeps DEF Emits, Disconnect
  <2>4. ASSUME NEW t \in Threads,
               KernelEmits(t) \/ Cancel(t) \/ CloseInstance \/ ListenerStep(t) \/ HostStep(t)
        PROVE  GuestInv'
    BY <2>4, EmittersKeep, HostKeeps, ListenerKeeps, ClockKeeps
  <2> QED
    BY <2>1, <2>2, <2>3, <2>4
    DEF PluginNext, pluginVars, guestVars, BrokerStep, InBroker, InGuest, StreamStep,
        Broken, GuestStep, KernelStep
<1> QED
  BY <1>1, <1>2, PTL DEF PluginSpec

\* Subscribe's handler (runtime.go:304-339): what the guest hears is what was
\* sent, unless deliveries overlapped, whatever is emitted, trapped or cancelled.
THEOREM HeardAsSent == PluginSpec => []DeliveredIntact
<1>1. GuestInv => DeliveredIntact
  BY DEF GuestInv
<1> QED
  BY <1>1, GuestHolds, PTL

-----------------------------------------------------------------------------
\* The limits.
ToldTyped == told \in [Threads -> {"none", "ok", "error", "fuel", "timeout", "denied"}]

LEMMA AnswerTold ==
    ASSUME GuestInv, ToldTyped, NEW t \in Threads, Answer(t)
    PROVE  ToldFairly(t) /\ ToldTyped'
<1>1. /\ thread[t].age \in Nat /\ thread[t].gone \in Nat \cup {Never}
      /\ limits.fuel \in Nat /\ limits.timeout \in Nat \ {0} /\ Never \notin Nat
  BY GuestAssumption DEF GuestInv, GuestTyped, ThreadRecord
<1>2. CallError(t) \in {"fuel", "timeout", "error"}
  BY DEF CallError
<1>3. ToldTyped'
  BY <1>2 DEF Answer, ToldTyped
<1>4. ASSUME thread[t].kind = "call" PROVE told'[t] = "ok" \/ told'[t] = CallError(t)
  BY <1>4 DEF Answer, ToldTyped
<1>5. CallError(t) = "fuel" => FuelDone(t)
  BY DEF CallError
<1>6. CallError(t) = "timeout" => ~FuelDone(t) /\ TimeoutDone(t)
  BY DEF CallError
<1>7. CallError(t) = "error" => ~FuelDone(t) /\ ~TimeoutDone(t)
  BY DEF CallError
<1> DEFINE inTime == thread[t].age < Earliest \/ thread[t].gone \in 0 .. Earliest - 1
<1>8. FuelDone(t) => ~inTime /\ limits.fuel > 0 /\ Expired(t, limits.fuel)
  BY <1>1 DEF FuelDone, Expired, Earliest, FuelFirst
<1>9. ~FuelDone(t) /\ TimeoutDone(t) => ~inTime /\ ~FuelFirst
  BY <1>1 DEF FuelDone, TimeoutDone, Expired, Earliest, FuelFirst
<1>10. ~FuelDone(t) /\ ~TimeoutDone(t) => inTime
  BY <1>1 DEF FuelDone, TimeoutDone, Expired, Earliest, FuelFirst
<1> QED
  BY <1>2, <1>3, <1>4, <1>5, <1>6, <1>7, <1>8, <1>9, <1>10 DEF ToldFairly, CallAnswered

\* Every other step tells nobody, or refuses a subprocess that was not called.
LEMMA StepTold ==
    ASSUME GuestInv, ToldTyped, [PluginNext]_pluginVars
    PROVE  ToldTyped' /\ \A t \in Threads : ToldFairly(t)
<1> USE DEF CallAnswered
<1>1. CASE UNCHANGED told
  BY <1>1 DEF ToldTyped, ToldFairly
<1>2. ASSUME NEW u \in Threads, RpcEmits(u)
      PROVE  ToldTyped' /\ \A t \in Threads : ToldFairly(t)
  <2>1. thread[u].pc = "idle"
    BY <1>2 DEF RpcEmits
  <2>2. ToldTyped' /\ \A t \in Threads : t # u => told'[t] = told[t]
    BY <1>2 DEF RpcEmits, ToldTyped
  <2> QED
    BY <2>1, <2>2 DEF ToldFairly
<1>3. ASSUME NEW u \in Threads, Answer(u)
      PROVE  ToldTyped' /\ \A t \in Threads : ToldFairly(t)
  <2>1. ToldTyped' /\ ToldFairly(u)
    BY <1>3, AnswerTold
  <2>2. \A t \in Threads : t # u => told'[t] = told[t]
    BY <1>3 DEF Answer, ToldTyped
  <2> QED
    BY <2>1, <2>2 DEF ToldFairly
<1>4. ASSUME NEW t \in Threads,
             \/ EmitterStep(t) \/ KernelEmits(t) \/ Cancel(t) \/ ListenerStep(t)
             \/ Shut(t) \/ Unwind(t)
      PROVE  UNCHANGED told
  BY <1>4 DEF EmitterStep, CallGuest, GuestEmits, GuestReturns, KernelEmits, Cancel,
              ListenerStep, PointReturns, HandlerReturns, HandlerTraps, Shut, Unwind
<1>5. ASSUME Tick \/ CloseInstance \/ UNCHANGED guestVars PROVE UNCHANGED told
  BY <1>5 DEF Tick, CloseInstance, guestVars
<1>6. ASSUME NEW t \in Emitters, Emits(t) \/ Disconnect(t) \/ EmitterStep(t)
      PROVE  RpcEmits(t) \/ UNCHANGED told
  BY <1>4, <1>6, EmittersAssumption DEF Emits, Disconnect
<1> QED
  BY <1>1, <1>2, <1>3, <1>4, <1>5, <1>6, EmittersAssumption
  DEF PluginNext, pluginVars, guestVars, BrokerStep, InBroker, InGuest, StreamStep,
      Broken, GuestStep, KernelStep, HostStep

\* The error Call returns (runtime.go:286-302), for any two limits and however
\* cancellations fall between them: fuel if that tripped first, the timeout only if
\* that did, neither if nothing tripped; a budget longer than the timeout may be named
\* once it has run out too.
THEOREM LimitsApart == PluginSpec => LimitsToldApart
<1>1. PluginInit => ToldTyped
  BY DEF PluginInit, GuestInit, ToldTyped
<1>2. GuestInv /\ ToldTyped /\ [PluginNext]_pluginVars => ToldTyped'
  BY StepTold
<1>3. GuestInv /\ ToldTyped /\ [PluginNext]_pluginVars
          => [\A t \in Threads : ToldFairly(t)]_guestVars
  BY StepTold
<1> QED
  BY <1>1, <1>2, <1>3, GuestHolds, PTL DEF PluginSpec, LimitsToldApart

\* runtime.go:55-58, 74-75 and 80-83: where the fuel budget is the stricter deadline, as
\* Limits describes it, the error is that of the deadline that fired first.
THEOREM BlamedRightly ==
    ASSUME \A b \in Budgets : b.fuel <= b.timeout
    PROVE  PluginSpec => FirstLimitBlamed
<1>1. PluginInit => ToldTyped
  BY DEF PluginInit, GuestInit, ToldTyped
<1>2. GuestInv /\ ToldTyped /\ [PluginNext]_pluginVars => ToldTyped'
  BY StepTold
<1>3. GuestInv /\ ToldTyped /\ [PluginNext]_pluginVars
          => [\A t \in Threads : CallAnswered(t) =>
                  /\ told'[t] = "fuel" => FuelFirst
                  /\ told'[t] = "timeout" => ~FuelFirst]_guestVars
  <2> SUFFICES ASSUME GuestInv, ToldTyped, [PluginNext]_pluginVars,
                      NEW t \in Threads, CallAnswered(t)
               PROVE  /\ told'[t] = "fuel" => FuelFirst
                      /\ told'[t] = "timeout" => ~FuelFirst
    OBVIOUS
  <2>1. ToldFairly(t)
    BY StepTold
  <2>2. limits.fuel \in Nat /\ limits.fuel <= limits.timeout /\ limits.timeout \in Nat
    BY GuestAssumption DEF GuestInv, GuestTyped
  <2> QED
    BY <2>1, <2>2 DEF ToldFairly, FuelFirst
<1> QED
  BY <1>1, <1>2, <1>3, GuestHolds, PTL DEF PluginSpec, FirstLimitBlamed

-----------------------------------------------------------------------------
\* The last of a sequence's positions that pass a test.

\* A set of numbers within 1 .. n that is not empty has a greatest element.
LEMMA MaxIsGreatest ==
    ASSUME NEW n \in Nat, NEW S \in SUBSET (1 .. n), S # {}
    PROVE Max(S) \in S /\ \A x \in S : x <= Max(S)
<1> DEFINE Ups == {x .. n : x \in S}
<1>1. IsWellFoundedOn(StrictSubsetOrdering(Nat), FiniteSubsetsOf(Nat))
  BY FS_StrictSubsetOrderingWellFounded
<1>2. Ups \subseteq FiniteSubsetsOf(Nat)
  <2> SUFFICES ASSUME NEW x \in S PROVE x .. n \in FiniteSubsetsOf(Nat)
    OBVIOUS
  <2>1. IsFiniteSet(x .. n)
    BY FS_Interval
  <2> QED
    BY <2>1 DEF FiniteSubsetsOf
<1>3. Ups # {}
  OBVIOUS
<1>4. PICK D \in Ups : \A E \in Ups : <<E, D>> \notin StrictSubsetOrdering(Nat)
  <2> HIDE DEF Ups
  <2> QED
    BY <1>1, <1>2, <1>3, WFMin
<1>5. PICK m \in S : D = m .. n
  OBVIOUS
<1>6. ASSUME NEW x \in S PROVE x <= m
  <2> SUFFICES ASSUME m < x PROVE FALSE
    OBVIOUS
  <2>1. x .. n \subseteq m .. n /\ x .. n # m .. n
    OBVIOUS
  <2>2. <<x .. n, m .. n>> \in StrictSubsetOrdering(Nat)
    BY <2>1 DEF StrictSubsetOrdering
  <2> QED
    BY <1>4, <1>5, <2>2
<1> QED
  BY <1>6 DEF Max

\* The last decision about a manifest is about it, and none later is.
LEMMA LatestIsLast ==
    ASSUME NEW S, NEW log \in Seq(S), NEW m
    PROVE /\ Latest(log, m) \in 0 .. Len(log)
          /\ Latest(log, m) # 0 => Key(log[Latest(log, m)]) = Key(m)
          /\ \A k \in Latest(log, m) + 1 .. Len(log) : Key(log[k]) # Key(m)
<1> DEFINE I == {i \in 1 .. Len(log) : Key(log[i]) = Key(m)}
<1>1. Latest(log, m) = IF I # {} THEN Max(I) ELSE 0
  BY DEF Latest, SelectLastInSeq
<1>2. Len(log) \in Nat /\ I \in SUBSET (1 .. Len(log))
  OBVIOUS
<1>3. CASE I = {}
  BY <1>1, <1>2, <1>3
<1>4. CASE I # {}
  <2>1. PICK x \in I : Latest(log, m) = x /\ \A y \in I : y <= x
    <3>1. Max(I) \in I /\ \A y \in I : y <= Max(I)
      BY <1>2, <1>4, MaxIsGreatest
    <3> QED
      BY <1>1, <1>4, <3>1
  <2>2. x \in 1 .. Len(log) /\ Key(log[x]) = Key(m)
    OBVIOUS
  <2>3. ASSUME NEW k \in x + 1 .. Len(log) PROVE Key(log[k]) # Key(m)
    <3>1. k \in 1 .. Len(log) /\ ~ (k <= x)
      BY <1>2, <2>2
    <3> QED
      BY <2>1, <3>1
  <2> QED
    BY <1>2, <2>1, <2>2, <2>3
<1> QED
  BY <1>3, <1>4

\* A name that was registered last resolves to that registration.
LEMMA LastIsResolved ==
    ASSUME NEW name, registered \in Seq(Manifests), registered # <<>>,
           registered[Len(registered)].name = name
    PROVE Resolved(name) = registered[Len(registered)]
<1> DEFINE n == Len(registered)
           I == {i \in 1 .. n : registered[i].name = name}
<1>1. n \in Nat /\ I \in SUBSET (1 .. n) /\ n \in I
  OBVIOUS
<1>2. Max(I) \in I /\ \A x \in I : x <= Max(I)
  <2> HIDE DEF I
  <2> QED
    BY <1>1, MaxIsGreatest
<1>3. Max(I) = n
  BY <1>1, <1>2
<1>4. SelectLastInSeq(registered, LAMBDA m : m.name = name) = Max(I)
  BY <1>1 DEF SelectLastInSeq
<1> QED
  BY <1>3, <1>4 DEF Resolved

-----------------------------------------------------------------------------
\* Loading.  A load keeps the position of the decision it read, so what was true
\* of the table then stays true of the table as it grows; the record a sandboxed
\* plugin adds is the last one until it is instantiated.

Grants == Offers \cup {m.asks : m \in Manifests}
Decisions == {DecisionOn(m, g) : m \in Manifests, g \in Grants}

DecisionsTyped ==
    /\ decisions \in Seq(Decisions)
    /\ \A i \in 1 .. Len(decisions) : Covered(decisions[i].granted, decisions[i].asks)
    /\ bootedAt \in 0 .. Len(decisions)

DaemonTyped ==
    /\ phase \in {"down", "loading", "activating", "serving"}
    /\ at \in Nat \ {0}
    /\ config \in Configs \cup {<<>>}
    /\ \A i \in DOMAIN config, j \in DOMAIN config : config[i].name = config[j].name => i = j
    /\ registered \in Seq(Manifests)
    /\ DOMAIN basis = DOMAIN hosts /\ bound \subseteq DOMAIN hosts
    /\ phase = "down" => hosts = <<>>

\* Decision r, with grant g, was a live one of m and the newest among the first l.
Backed(m, r, l, g) ==
    /\ l \in bootedAt .. Len(decisions)
    /\ Newest(m, r, l)
    /\ decisions[r].status # "denied"
    /\ decisions[r].granted = g

EventsGranted(m, n) ==
    \E r \in 1 .. n : /\ Newest(m, r, n)
                      /\ "events" \in DOMAIN decisions[r].granted.api
                      /\ decisions[r].granted.api["events"] # {}

JobBacked ==
    job # NoJob =>
        /\ phase = "loading" /\ at <= Len(config)
        /\ job = [stage |-> job.stage, granted |-> job.granted, read |-> job.read,
                  length |-> job.length]
        /\ Backed(Entry.manifest, job.read, job.length, job.granted)
        /\ job.stage # "build" => Entry.manifest.name = Entry.name
        /\ job.stage = "instantiate" =>
              registered # <<>> /\ registered[Len(registered)] = Entry.manifest

HostBacked(i) ==
    LET b == basis[config[i].name]
        m == config[i].manifest
    IN  /\ phase = "loading" => i < at
        /\ m.name = config[i].name
        /\ Backed(m, b.read, b.length, decisions[b.read].granted)
        /\ hosts[config[i].name] = Filter(decisions[b.read].granted, m.asks)
        /\ b.bound \in 0 .. Len(decisions)
        /\ config[i].name \in bound => EventsGranted(m, b.bound)

HostsBacked == \A i \in DOMAIN config : config[i].name \in DOMAIN hosts => HostBacked(i)

LoadInv == DecisionsTyped /\ DaemonTyped /\ JobBacked /\ HostsBacked

\* Nothing is loaded at first, and nothing decided.
LEMMA InitLoad == SystemInit => LoadInv
<1> SUFFICES ASSUME SystemInit PROVE LoadInv
  OBVIOUS
<1>1. DecisionsTyped /\ JobBacked
  BY DEF SystemInit, DecisionsTyped, JobBacked
<1>2. DaemonTyped /\ HostsBacked
  BY DEF SystemInit, DaemonTyped, HostsBacked
<1> QED
  BY <1>1, <1>2 DEF LoadInv

\* The entry being loaded is one of the list.
LEMMA EntriesTyped ==
    ASSUME LoadInv
    PROVE /\ Len(config) \in Nat /\ DOMAIN config = 1 .. Len(config) /\ DOMAIN config \subseteq Nat
          /\ at \in Nat \ {0}
          /\ at <= Len(config) => at \in DOMAIN config
<1>0. config \in Configs \cup {<<>>}
  BY DEF LoadInv, DaemonTyped
<1>1. config \in Seq(Range(config))
  <2>1. CASE config \in Configs
    BY <2>1, SystemAssumption
  <2>2. CASE config = <<>>
    BY <2>2
  <2> QED
    BY <1>0, <2>1, <2>2
<1>2. Len(config) \in Nat /\ DOMAIN config = 1 .. Len(config)
  BY <1>1
<1>3. at \in Nat \ {0}
  BY DEF LoadInv, DaemonTyped
<1> QED
  BY <1>2, <1>3

\* The table only grows: what was true of its first positions stays true.
LEMMA BackedStays ==
    ASSUME NEW m, NEW r, NEW l, NEW g, Backed(m, r, l, g), DecisionsTyped,
           bootedAt' = bootedAt, Len(decisions') \in Nat, Len(decisions) <= Len(decisions'),
           \A k \in 1 .. Len(decisions) : decisions'[k] = decisions[k]
    PROVE Backed(m, r, l, g)'
<1>1. Len(decisions) \in Nat /\ bootedAt \in Nat /\ l \in Nat /\ l <= Len(decisions)
  BY DEF Backed, DecisionsTyped
<1>2. r \in 1 .. l /\ \A k \in 1 .. l : decisions'[k] = decisions[k]
  BY <1>1 DEF Backed, Newest
<1>3. \A k \in r + 1 .. l : decisions'[k] = decisions[k]
  BY <1>1, <1>2
<1>4. Newest(m, r, l)'
  BY <1>2, <1>3 DEF Backed, Newest
<1> QED
  BY <1>1, <1>2, <1>4 DEF Backed

LEMMA GrantedStays ==
    ASSUME NEW m, NEW n \in 0 .. Len(decisions), EventsGranted(m, n), DecisionsTyped,
           \A k \in 1 .. Len(decisions) : decisions'[k] = decisions[k]
    PROVE EventsGranted(m, n)'
<1>1. PICK r \in 1 .. n : /\ Newest(m, r, n)
                         /\ "events" \in DOMAIN decisions[r].granted.api
                         /\ decisions[r].granted.api["events"] # {}
  BY DEF EventsGranted
<1>2. Len(decisions) \in Nat /\ \A k \in 1 .. n : decisions'[k] = decisions[k]
  BY DEF DecisionsTyped
<1>3. \A k \in r + 1 .. n : decisions'[k] = decisions[k]
  BY <1>2
<1>4. Newest(m, r, n)'
  BY <1>1, <1>2, <1>3 DEF Newest
<1> QED
  BY <1>1, <1>2, <1>4 DEF EventsGranted

\* A live decision is one of the table, the newest about its manifest.
LEMMA LiveIsNewest ==
    ASSUME DecisionsTyped, NEW m, Live(decisions, m)
    PROVE LET r == Latest(decisions, m) IN
          /\ r \in 1 .. Len(decisions) /\ Newest(m, r, Len(decisions))
          /\ decisions[r].status # "denied"
<1> DEFINE r == Latest(decisions, m)
<1>1. /\ r \in 0 .. Len(decisions) /\ r # 0
      /\ Key(decisions[r]) = Key(m)
      /\ \A k \in r + 1 .. Len(decisions) : Key(decisions[k]) # Key(m)
  BY LatestIsLast DEF DecisionsTyped, Live
<1>2. r \in 1 .. Len(decisions)
  BY <1>1 DEF DecisionsTyped
<1>3. Newest(m, r, Len(decisions))
  BY <1>1, <1>2 DEF Newest, Key
<1> QED
  BY <1>2, <1>3 DEF Live

\* What a name's host rests on, when the table and the configuration stay.
LEMMA HostKept ==
    ASSUME NEW i, HostBacked(i), UNCHANGED <<decisions, bootedAt, config>>,
           hosts'[config[i].name] = hosts[config[i].name],
           basis'[config[i].name] = basis[config[i].name],
           config[i].name \in bound' => config[i].name \in bound,
           phase' = "loading" => i < at'
    PROVE HostBacked(i)'
BY DEF HostBacked, Backed, EventsGranted, Newest

LEMMA HostsKept ==
    ASSUME LoadInv, UNCHANGED <<decisions, bootedAt, config, hosts, basis, bound>>,
           phase' = "loading" => phase = "loading" /\ at <= at', at' \in Nat
    PROVE HostsBacked'
<1> SUFFICES ASSUME NEW i \in DOMAIN config, config[i].name \in DOMAIN hosts
             PROVE HostBacked(i)'
  BY DEF HostsBacked
<1>1. HostBacked(i) /\ at \in Nat /\ i \in Nat
  <2>1. HostBacked(i)
    BY DEF LoadInv, HostsBacked
  <2> QED
    BY <2>1, EntriesTyped
<1>2. phase' = "loading" => i < at'
  BY <1>1 DEF HostBacked
<1> QED
  BY <1>1, <1>2, HostKept

\* The bus and the other daemons' reads.
LEMMA LoadingApart ==
    ASSUME LoadInv, UNCHANGED <<decisions, daemon, basis, bootedAt>> PROVE LoadInv'
<1> USE DEF daemon
<1>1. DecisionsTyped' /\ DaemonTyped'
  BY DEF LoadInv, DecisionsTyped, DaemonTyped
<1>2. JobBacked'
  BY DEF LoadInv, JobBacked, Backed, Newest, Entry
<1>3. HostsBacked'
  BY HostsKept DEF LoadInv, DaemonTyped
<1> QED
  BY <1>1, <1>2, <1>3 DEF LoadInv

\* A decision is added, wherever it is taken.
LEMMA DecideKeeps ==
    ASSUME LoadInv, NEW m \in Manifests, NEW g \in Grants, Decide(m, g) PROVE LoadInv'
<1> USE DEF daemon
<1>1. /\ decisions' = Append(decisions, DecisionOn(m, g)) /\ Covered(g, m.asks)
      /\ UNCHANGED <<phase, config, at, job, registered, hosts, bound, basis, bootedAt>>
  BY DEF Decide
<1>2. DecisionOn(m, g) \in Decisions /\ decisions \in Seq(Decisions)
  BY DEF Decisions, LoadInv, DecisionsTyped
<1>3. /\ decisions' \in Seq(Decisions) /\ Len(decisions') = Len(decisions) + 1
      /\ Len(decisions) \in Nat
      /\ \A k \in 1 .. Len(decisions) : decisions'[k] = decisions[k]
      /\ decisions'[Len(decisions) + 1] = DecisionOn(m, g)
  BY <1>1, <1>2
<1>4. DecisionsTyped'
  <2>1. Covered(DecisionOn(m, g).granted, DecisionOn(m, g).asks)
    BY <1>1 DEF DecisionOn
  <2>2. \A i \in 1 .. Len(decisions') : Covered(decisions'[i].granted, decisions'[i].asks)
    BY <1>3, <2>1 DEF LoadInv, DecisionsTyped
  <2> QED
    BY <1>1, <1>3, <2>2 DEF LoadInv, DecisionsTyped
<1>5. DaemonTyped'
  BY <1>1 DEF LoadInv, DaemonTyped
<1>6. JobBacked'
  <2> SUFFICES ASSUME job # NoJob PROVE JobBacked'
    BY <1>1 DEF JobBacked
  <2>1. Backed(Entry.manifest, job.read, job.length, job.granted)
    BY DEF LoadInv, JobBacked
  <2>2. PICK e, r, l, d : /\ e = Entry.manifest /\ r = job.read /\ l = job.length
                          /\ d = job.granted
    OBVIOUS
  <2>3. Backed(e, r, l, d)'
    BY <1>1, <1>3, <2>1, <2>2, BackedStays DEF LoadInv
  <2> QED
    BY <1>1, <2>2, <2>3 DEF LoadInv, JobBacked, Entry
<1>7. HostsBacked'
  <2> SUFFICES ASSUME NEW i \in DOMAIN config, config[i].name \in DOMAIN hosts
               PROVE HostBacked(i)'
    BY <1>1 DEF HostsBacked
  <2>1. HostBacked(i)
    BY DEF LoadInv, HostsBacked
  <2>2. PICK e, b : e = config[i].manifest /\ b = basis[config[i].name]
    OBVIOUS
  <2>3. /\ Backed(e, b.read, b.length, decisions[b.read].granted)
        /\ b.bound \in 0 .. Len(decisions)
        /\ config[i].name \in bound => EventsGranted(e, b.bound)
    BY <2>1, <2>2 DEF HostBacked
  <2>4. Backed(e, b.read, b.length, decisions[b.read].granted)'
    <3>1. PICK d : d = decisions[b.read].granted
      OBVIOUS
    <3>2. Backed(e, b.read, b.length, d)'
      BY <1>1, <1>3, <2>3, <3>1, BackedStays DEF LoadInv
    <3> QED
      BY <3>2 DEF Backed
  <2>5. decisions'[b.read].granted = decisions[b.read].granted
    <3>1. b.read \in 1 .. Len(decisions)
      BY <1>3, <2>3 DEF Backed, Newest, LoadInv, DecisionsTyped
    <3> QED
      BY <1>3, <3>1
  <2>6. config[i].name \in bound => EventsGranted(e, b.bound)'
    BY <1>3, <2>3, GrantedStays DEF LoadInv
  <2>7. /\ config' = config /\ phase' = phase /\ at' = at /\ bound' = bound
        /\ basis'[config[i].name] = b /\ hosts'[config[i].name] = hosts[config[i].name]
    BY <1>1, <2>2
  <2>8. /\ phase = "loading" => i < at
        /\ e.name = config[i].name
        /\ hosts[config[i].name] = Filter(decisions'[b.read].granted, e.asks)
    BY <2>1, <2>2, <2>5 DEF HostBacked
  <2>9. b.bound \in 0 .. Len(decisions')
    BY <1>3, <2>3
  <2> QED
    BY <2>2, <2>4, <2>6, <2>7, <2>8, <2>9 DEF HostBacked
<1> QED
  BY <1>4, <1>5, <1>6, <1>7 DEF LoadInv

\* A boot finds nothing loaded; its configuration names no plugin twice.
LEMMA BootKeeps ==
    ASSUME LoadInv, NEW c \in Configs, Boot(c) PROVE LoadInv'
<1>1. /\ phase = "down" /\ phase' = "loading" /\ config' = c /\ at' = 1 /\ job' = NoJob
      /\ registered' = FirstParty /\ bootedAt' = Len(decisions)
      /\ UNCHANGED <<decisions, hosts, bound, basis>>
      /\ \A i, j \in DOMAIN c : c[i].name = c[j].name => i = j
  BY DEF Boot, Acceptable
<1>2. hosts = <<>> /\ DOMAIN hosts = {}
  BY <1>1 DEF LoadInv, DaemonTyped
<1>3. DecisionsTyped'
  BY <1>1 DEF LoadInv, DecisionsTyped
<1>4. DaemonTyped'
  BY <1>1, SystemAssumption DEF LoadInv, DaemonTyped
<1>5. JobBacked' /\ HostsBacked'
  BY <1>1, <1>2 DEF JobBacked, HostsBacked
<1> QED
  BY <1>3, <1>4, <1>5 DEF LoadInv

\* Of a process that ended nothing is left.
LEMMA DownKeeps ==
    ASSUME LoadInv, Down PROVE LoadInv'
<1>1. /\ phase' = "down" /\ config' = <<>> /\ at' = 1 /\ job' = NoJob
      /\ registered' = <<>> /\ hosts' = <<>> /\ basis' = <<>> /\ bound' = {}
      /\ UNCHANGED <<decisions, bootedAt>>
  BY DEF Down
<1>2. DecisionsTyped' /\ JobBacked'
  BY <1>1 DEF LoadInv, DecisionsTyped, JobBacked
<1>3. DaemonTyped' /\ HostsBacked'
  BY <1>1 DEF DaemonTyped, HostsBacked
<1> QED
  BY <1>2, <1>3 DEF LoadInv

\* The decision is read, and lived then.
LEMMA CheckKeeps ==
    ASSUME LoadInv, Check PROVE LoadInv'
<1>1. /\ phase = "loading" /\ at <= Len(config) /\ Live(decisions, Entry.manifest)
      /\ job' = [stage |-> "build",
                 granted |-> decisions[Latest(decisions, Entry.manifest)].granted,
                 read |-> Latest(decisions, Entry.manifest),
                 length |-> Len(decisions)]
      /\ UNCHANGED <<decisions, phase, config, at, registered, hosts, bound, basis, bootedAt>>
  BY DEF Check, Loading
<1>2. DecisionsTyped' /\ DaemonTyped'
  BY <1>1 DEF LoadInv, DecisionsTyped, DaemonTyped
<1>3. JobBacked'
  <2>1. PICK m, r : m = Entry.manifest /\ r = Latest(decisions, m)
    OBVIOUS
  <2>2. /\ r \in 1 .. Len(decisions) /\ Newest(m, r, Len(decisions))
        /\ decisions[r].status # "denied"
    BY <1>1, <2>1, LiveIsNewest DEF LoadInv
  <2>3. Backed(m, r, Len(decisions), decisions[r].granted)
    BY <2>2 DEF Backed, LoadInv, DecisionsTyped
  <2>4. PICK l, g : l = Len(decisions) /\ g = decisions[r].granted
    OBVIOUS
  <2>5. Backed(m, r, l, g)'
    BY <1>1, <2>3, <2>4 DEF Backed, Newest
  <2>6. job' = [stage |-> "build", granted |-> g, read |-> r, length |-> l] /\ Entry'.manifest = m
    BY <1>1, <2>1, <2>4 DEF Entry
  <2> QED
    BY <1>1, <2>5, <2>6 DEF JobBacked
<1>4. HostsBacked'
  BY <1>1, HostsKept DEF LoadInv, DaemonTyped
<1> QED
  BY <1>2, <1>3, <1>4 DEF LoadInv

\* The steps between: the decision that was read stays with the load.
LEMMA StagesKeep ==
    ASSUME LoadInv, BuildHost \/ Record PROVE LoadInv'
<1>1. /\ phase = "loading" /\ job # NoJob /\ at <= Len(config)
      /\ UNCHANGED <<decisions, phase, config, at, hosts, bound, basis, bootedAt>>
  BY DEF BuildHost, Record, Loading
<1>2. PICK s : /\ job' = [job EXCEPT !.stage = s] /\ s \in {"record", "launch", "instantiate"}
               /\ Entry.manifest.name = Entry.name
               /\ s = "instantiate" => registered' = Append(registered, Entry.manifest)
               /\ s # "instantiate" => registered' = registered
  <2>1. CASE BuildHost
    BY <2>1 DEF BuildHost, Goto
  <2>2. CASE Record
    BY <1>1, <2>2 DEF Record, Goto, Loading, LoadInv, JobBacked
  <2> QED
    BY <2>1, <2>2
<1>3. /\ Entry.manifest \in Manifests /\ registered \in Seq(Manifests)
      /\ registered' \in Seq(Manifests)
      /\ s = "instantiate" =>
            registered' # <<>> /\ registered'[Len(registered')] = Entry.manifest
  <2>1. at \in DOMAIN config
    BY <1>1, EntriesTyped
  <2>2. Entry.manifest \in Manifests /\ registered \in Seq(Manifests)
    <3>1. config \in Configs \cup {<<>>} /\ registered \in Seq(Manifests)
      BY DEF LoadInv, DaemonTyped
    <3>2. \A c \in Configs : \A i \in DOMAIN c : c[i].manifest \in Manifests
      BY SystemAssumption
    <3>3. DOMAIN <<>> = {}
      OBVIOUS
    <3> QED
      BY <2>1, <3>1, <3>2, <3>3 DEF Entry
  <2>3. CASE s = "instantiate"
    BY <1>2, <2>2, <2>3
  <2>4. CASE s # "instantiate"
    BY <1>2, <2>2, <2>4
  <2> QED
    BY <2>2, <2>3, <2>4
<1>4. DecisionsTyped' /\ DaemonTyped'
  BY <1>1, <1>3 DEF LoadInv, DecisionsTyped, DaemonTyped
<1>5. JobBacked'
  <2>1. /\ job = [stage |-> job.stage, granted |-> job.granted, read |-> job.read,
                  length |-> job.length]
        /\ Backed(Entry.manifest, job.read, job.length, job.granted)
    BY <1>1 DEF LoadInv, JobBacked
  <2>2. PICK m, r, l, g : /\ m = Entry.manifest /\ r = job.read /\ l = job.length
                          /\ g = job.granted
    OBVIOUS
  <2>3. job' = [stage |-> s, granted |-> g, read |-> r, length |-> l] /\ Entry' = Entry
    BY <1>1, <1>2, <2>1, <2>2 DEF Entry
  <2>4. Backed(m, r, l, g)'
    BY <1>1, <2>1, <2>2 DEF Backed, Newest
  <2> QED
    BY <1>1, <1>2, <1>3, <2>2, <2>3, <2>4 DEF JobBacked
<1>6. HostsBacked'
  BY <1>1, HostsKept DEF LoadInv, DaemonTyped
<1> QED
  BY <1>4, <1>5, <1>6 DEF LoadInv

\* A load ends well: the plugin's host rests on what the load read.  No other
\* entry has its name, and it had no host yet.
LEMMA LoadedKeeps ==
    ASSUME LoadInv, Loading(job.stage), job # NoJob, job.stage # "build", Loaded,
           UNCHANGED <<decisions, phase, config, bootedAt>>, registered' \in Seq(Manifests),
           bound' \subseteq bound \cup {Entry.name}, bound \subseteq bound',
           Entry.name \in bound' => EventsGranted(Entry.manifest, Len(decisions))
    PROVE LoadInv'
<1>1. PICK n, m : n = Entry.name /\ m = Entry.manifest
  OBVIOUS
<1>2. /\ phase = "loading" /\ at <= Len(config)
      /\ Backed(m, job.read, job.length, job.granted) /\ m.name = n
  BY <1>1 DEF LoadInv, JobBacked
<1>3. at \in DOMAIN config /\ at \in Nat \ {0} /\ DOMAIN config \subseteq Nat
  BY <1>2, EntriesTyped
<1>4. n \notin DOMAIN hosts /\ n \notin bound /\ n \notin DOMAIN basis
  BY <1>1, <1>2, <1>3 DEF LoadInv, DaemonTyped, HostsBacked, HostBacked, Entry
<1>5. PICK h, b : /\ h = Filter(job.granted, Entry.manifest.asks)
                  /\ b = [read |-> job.read, length |-> job.length, bound |-> Len(decisions)]
  OBVIOUS
<1>6. hosts' = Put(hosts, n, h) /\ basis' = Put(basis, n, b)
      /\ at' = at + 1 /\ job' = NoJob
  BY <1>1, <1>5 DEF Loaded, Advance
<1>7. /\ DOMAIN hosts' = DOMAIN hosts \cup {n} /\ hosts'[n] = h
      /\ \A x \in DOMAIN hosts : hosts'[x] = hosts[x]
      /\ DOMAIN basis' = DOMAIN basis \cup {n} /\ basis'[n] = b
      /\ \A x \in DOMAIN basis : basis'[x] = basis[x]
  BY <1>4, <1>6 DEF Put
<1>8. DecisionsTyped' /\ JobBacked'
  BY <1>6 DEF LoadInv, DecisionsTyped, JobBacked
<1>9. DaemonTyped'
  BY <1>1, <1>2, <1>3, <1>6, <1>7 DEF LoadInv, DaemonTyped
<1>10. HostsBacked'
  <2> SUFFICES ASSUME NEW i \in DOMAIN config, config[i].name \in DOMAIN hosts'
               PROVE HostBacked(i)'
    BY DEF HostsBacked
  <2>1. CASE config[i].name # n
    <3>1. config[i].name \in DOMAIN hosts /\ HostBacked(i)
      BY <1>7, <2>1 DEF LoadInv, HostsBacked
    <3>2. i < at'
      BY <1>2, <1>3, <1>6, <3>1 DEF HostBacked
    <3>3. config[i].name \in bound' => config[i].name \in bound
      BY <1>1, <2>1
    <3>4. config[i].name \in DOMAIN basis
      BY <3>1 DEF LoadInv, DaemonTyped
    <3> QED
      BY <1>7, <3>1, <3>2, <3>3, <3>4, HostKept
  <2>2. CASE config[i].name = n
    <3>1. i = at /\ i < at'
      BY <1>1, <1>3, <1>6, <2>2 DEF LoadInv, DaemonTyped, Entry
    <3>2. config[i].manifest = m
      BY <1>1, <3>1 DEF Entry
    <3>3. /\ Backed(m, b.read, b.length, job.granted)
          /\ decisions[b.read].granted = job.granted
      BY <1>2, <1>5 DEF Backed
    <3>4. Backed(m, b.read, b.length, decisions[b.read].granted)'
      BY <3>3 DEF Backed, Newest
    <3>5. hosts'[n] = Filter(decisions'[b.read].granted, m.asks)
      BY <1>1, <1>5, <1>7, <3>3
    <3>6. b.bound = Len(decisions) /\ b.bound \in 0 .. Len(decisions')
      BY <1>5 DEF LoadInv, DecisionsTyped
    <3>7. n \in bound' => EventsGranted(m, b.bound)'
      BY <1>1, <3>6 DEF EventsGranted, Newest
    <3> QED
      BY <1>2, <1>7, <2>2, <3>1, <3>2, <3>4, <3>5, <3>6, <3>7 DEF HostBacked
  <2> QED
    BY <2>1, <2>2
<1> QED
  BY <1>8, <1>9, <1>10 DEF LoadInv

\* A sandboxed plugin is resolved to its own record, the last one.
LEMMA InstantiateKeeps ==
    ASSUME LoadInv, Instantiate PROVE LoadInv'
<1>1. /\ Loading("instantiate") /\ job # NoJob /\ job.stage = "instantiate" /\ Loaded
      /\ bound' = IF EmitPresent THEN bound \cup {Entry.name} ELSE bound
      /\ UNCHANGED <<decisions, phase, config, registered, bootedAt>>
  BY DEF Instantiate, Loading
<1>2. /\ registered # <<>> /\ registered \in Seq(Manifests)
      /\ registered[Len(registered)] = Entry.manifest
      /\ at <= Len(config) /\ at \in DOMAIN config
  BY <1>1, EntriesTyped DEF LoadInv, JobBacked, DaemonTyped
<1>3. Resolved(Entry.manifest.name) = Entry.manifest
  BY <1>2, LastIsResolved
<1>4. EmitPresent => EventsGranted(Entry.manifest, Len(decisions))
  <2> SUFFICES ASSUME EmitPresent PROVE EventsGranted(Entry.manifest, Len(decisions))
    OBVIOUS
  <2>1. Consented(decisions, Entry.manifest, "events")
    BY <1>3 DEF EmitPresent
  <2>2. PICK r : r = Latest(decisions, Entry.manifest)
    OBVIOUS
  <2>3. r \in 1 .. Len(decisions) /\ Newest(Entry.manifest, r, Len(decisions))
    BY <2>1, <2>2, LiveIsNewest DEF Consented, LoadInv
  <2>4. "events" \in DOMAIN decisions[r].granted.api /\ decisions[r].granted.api["events"] # {}
    BY <2>1, <2>2 DEF Consented
  <2> QED
    BY <2>3, <2>4 DEF EventsGranted
<1>5. Entry.name \in bound' => EmitPresent
  <2>1. Entry.name \notin bound
    <3>1. at \in Nat /\ ~ (at < at)
      BY DEF LoadInv, DaemonTyped
    <3>2. Entry.name \notin DOMAIN hosts
      BY <1>1, <1>2, <3>1 DEF LoadInv, HostsBacked, HostBacked, Entry, Loading
    <3> QED
      BY <3>2 DEF LoadInv, DaemonTyped
  <2> QED
    BY <1>1, <2>1
<1> QED
  BY <1>1, <1>2, <1>4, <1>5, LoadedKeeps

\* A subprocess has no emit function to bind.
LEMMA LaunchedKeeps ==
    ASSUME LoadInv, Launch PROVE LoadInv'
<1>1. /\ Loading("launch") /\ job # NoJob /\ job.stage = "launch" /\ Loaded
      /\ registered' = Append(registered, Entry.manifest)
      /\ UNCHANGED <<decisions, phase, config, bound, bootedAt>>
  BY DEF Launch, Loading
<1>2. at <= Len(config) /\ at \in DOMAIN config /\ at \in Nat
  BY <1>1, EntriesTyped DEF LoadInv, JobBacked
<1>3. registered' \in Seq(Manifests)
  BY <1>1, <1>2, SystemAssumption DEF LoadInv, DaemonTyped, Entry
<1>4. Entry.name \notin bound
  <2>1. Entry.name \notin DOMAIN hosts
    BY <1>1, <1>2 DEF LoadInv, HostsBacked, HostBacked, Entry, Loading
  <2> QED
    BY <2>1 DEF LoadInv, DaemonTyped
<1>5. /\ Loading(job.stage) /\ job.stage # "build"
      /\ bound' \subseteq bound \cup {Entry.name} /\ bound \subseteq bound'
      /\ Entry.name \in bound' => EventsGranted(Entry.manifest, Len(decisions))
      /\ UNCHANGED <<decisions, phase, config, bootedAt>>
  BY <1>1, <1>4
<1>6. Loaded /\ job # NoJob
  BY <1>1
<1> QED
  BY <1>3, <1>5, <1>6, LoadedKeeps

\* The daemon goes on: a plugin refused, the loading over, a plugin activated.
LEMMA ProgressKeeps ==
    ASSUME LoadInv, UNCHANGED <<decisions, config, registered, hosts, bound, basis, bootedAt>>,
           job' = NoJob, at' \in Nat \ {0},
           phase' \in {"loading", "activating", "serving"},
           phase' = "loading" => phase = "loading" /\ at <= at'
    PROVE LoadInv'
<1>1. DecisionsTyped' /\ DaemonTyped' /\ JobBacked'
  BY DEF LoadInv, DecisionsTyped, DaemonTyped, JobBacked
<1>2. HostsBacked'
  BY HostsKept
<1> QED
  BY <1>1, <1>2 DEF LoadInv

\* Boots, loads, emits and decisions keep the invariant.
LEMMA NextLoad == LoadInv /\ [SystemNext]_systemVars => LoadInv'
<1> SUFFICES ASSUME LoadInv, [SystemNext]_systemVars PROVE LoadInv'
  OBVIOUS
<1>0. /\ at \in Nat \ {0}
      /\ phase # "loading" => job = NoJob
  BY DEF LoadInv, DaemonTyped, JobBacked
<1>1. CASE UNCHANGED systemVars
  BY <1>1, LoadingApart DEF systemVars
<1>2. CASE Refuse \/ LoadDone \/ Activate \/ Serve
  <2>1. CASE Refuse
    <3>1. /\ UNCHANGED <<decisions, config, registered, hosts, bound, basis, bootedAt>>
          /\ phase = "loading" /\ phase' = "loading" /\ at' = at + 1 /\ job' = NoJob
      BY <2>1 DEF Refuse, Advance, Loading
    <3>2. at' \in Nat \ {0} /\ at <= at'
      BY <1>0, <3>1
    <3>3. /\ phase' \in {"loading", "activating", "serving"}
          /\ phase' = "loading" => phase = "loading" /\ at <= at'
      BY <3>1, <3>2
    <3> QED
      BY <3>1, <3>2, <3>3, ProgressKeeps
  <2>2. CASE LoadDone
    <3>1. job = NoJob
      <4>1. ~ (at <= Len(config))
        BY <1>0, <2>2, EntriesTyped DEF LoadDone
      <4> QED
        BY <4>1 DEF LoadInv, JobBacked
    <3>2. /\ UNCHANGED <<decisions, config, registered, hosts, bound, basis, bootedAt>>
          /\ phase' = "activating" /\ at' = 1 /\ job' = NoJob
      BY <2>2, <3>1 DEF LoadDone
    <3> QED
      BY <3>2, ProgressKeeps
  <2>3. CASE Activate
    <3>1. /\ UNCHANGED <<decisions, config, registered, hosts, bound, basis, bootedAt>>
          /\ phase' = "activating" /\ at' = at + 1 /\ job' = NoJob
      BY <1>0, <2>3 DEF Activate
    <3>2. at' \in Nat \ {0}
      BY <1>0, <3>1
    <3> QED
      BY <3>1, <3>2, ProgressKeeps
  <2>4. CASE Serve
    <3>1. /\ UNCHANGED <<decisions, config, at, registered, hosts, bound, basis, bootedAt>>
          /\ phase' = "serving" /\ job' = NoJob
      BY <1>0, <2>4 DEF Serve
    <3>2. at' \in Nat \ {0}
      BY <1>0, <3>1
    <3> QED
      BY <3>1, <3>2, ProgressKeeps
  <2> QED
    BY <1>2, <2>1, <2>2, <2>3, <2>4
<1>3. ASSUME NEW m \in Manifests, NEW g \in Offers,
             DecideElsewhere(m, g) \/ \E o \in {"approved", "partial", "denied"} :
                                          DecideOverAPI(m, o, g)
      PROVE LoadInv'
  <2>1. PICK d \in Grants : Decide(m, d)
    <3>1. CASE DecideElsewhere(m, g)
      BY <3>1 DEF DecideElsewhere, Grants
    <3>2. ASSUME NEW o \in {"approved", "partial", "denied"}, DecideOverAPI(m, o, g)
          PROVE \E d \in Grants : Decide(m, d)
      <4>1. PICK d \in Submitted(o, g, m.asks) : Decide(m, d)
        BY <3>2 DEF DecideOverAPI
      <4>2. d \in {g, m.asks}
        BY <4>1 DEF Submitted
      <4> QED
        BY <4>1, <4>2 DEF Grants
    <3> QED
      BY <1>3, <3>1, <3>2
  <2> QED
    BY <2>1, DecideKeeps
<1>4. ASSUME NEW n, NEW e, Emit(n, e) PROVE LoadInv'
  BY <1>4, LoadingApart DEF Emit
<1>5. CASE RunHandler \/ Delivered
  BY <1>5, LoadingApart DEF RunHandler, Delivered
<1>6. CASE Stop
  BY <1>6, DownKeeps DEF Stop
<1>7. ASSUME NEW c \in Configs, Boot(c) PROVE LoadInv'
  BY <1>7, BootKeeps
<1>8. CASE Check
  BY <1>8, CheckKeeps
<1>9. CASE BuildHost \/ Record
  BY <1>9, StagesKeep
<1>10. CASE Instantiate
  BY <1>10, InstantiateKeeps
<1>11. CASE Launch
  BY <1>11, LaunchedKeeps
<1> QED
  BY <1>1, <1>2, <1>3, <1>4, <1>5, <1>6, <1>7, <1>8, <1>9, <1>10, <1>11 DEF SystemNext

\* loader.go loadWasm, loadRPC; consent.go IsConsented: for any manifests, offers
\* and plugin lists, a loaded plugin's host rests on the newest decision about it
\* when it was read, made no earlier than the boot's, and lies within it.
THEOREM HostsRestOnConsent == SystemSpec => []HostsRestOnDecisions
<1>1. LoadInv => HostsRestOnDecisions
  <2> SUFFICES ASSUME LoadInv, NEW i \in DOMAIN config, config[i].name \in DOMAIN hosts
               PROVE LET h == hosts[config[i].name]
                         b == basis[config[i].name]
                         m == config[i].manifest
                     IN  /\ m.name = config[i].name
                         /\ b.length >= bootedAt
                         /\ Newest(m, b.read, b.length)
                         /\ decisions[b.read].status # "denied"
                         /\ \A c \in DOMAIN h.api :
                               h.api[c] \subseteq
                                  m.asks.api[c] \cap decisions[b.read].granted.api[c]
                         /\ \A p \in DOMAIN h.perm :
                               h.perm[p] \subseteq
                                  m.asks.perm[p] \cap decisions[b.read].granted.perm[p]
    BY DEF HostsRestOnDecisions
  <2>1. PICK m, b, h : /\ m = config[i].manifest /\ b = basis[config[i].name]
                       /\ h = hosts[config[i].name]
    OBVIOUS
  <2>2. /\ m.name = config[i].name /\ Backed(m, b.read, b.length, decisions[b.read].granted)
        /\ h = Filter(decisions[b.read].granted, m.asks)
    BY <2>1 DEF LoadInv, HostsBacked, HostBacked
  <2>3. /\ b.length \in bootedAt .. Len(decisions) /\ Newest(m, b.read, b.length)
        /\ decisions[b.read].status # "denied"
    BY <2>2 DEF Backed
  <2>4. b.read \in 1 .. Len(decisions) /\ decisions[b.read].asks = m.asks
    BY <2>3 DEF Newest, LoadInv, DecisionsTyped
  <2>5. Covered(decisions[b.read].granted, m.asks)
    BY <2>4 DEF LoadInv, DecisionsTyped
  <2>6. /\ \A c \in DOMAIN h.api :
              h.api[c] \subseteq m.asks.api[c] \cap decisions[b.read].granted.api[c]
        /\ \A p \in DOMAIN h.perm :
              h.perm[p] \subseteq m.asks.perm[p] \cap decisions[b.read].granted.perm[p]
    BY <2>2, <2>5 DEF Filter, Covered, Within
  <2>7. b.length >= bootedAt
    BY <2>3 DEF LoadInv, DecisionsTyped
  <2> QED
    BY <2>1, <2>2, <2>3, <2>6, <2>7
<1> QED
  BY <1>1, InitLoad, NextLoad, PTL DEF SystemSpec

\* hostfuncs.go buildHostModule, consent_adapter.go: for any manifests, offers and
\* plugin lists, a sandboxed plugin has emit_event only if the newest decision
\* about it when it was instantiated grants events.
THEOREM EmittersConsented == SystemSpec => []EmitWasStillConsented
<1>1. LoadInv => EmitWasStillConsented
  BY DEF LoadInv, DaemonTyped, HostsBacked, HostBacked, EventsGranted, EmitWasStillConsented
<1> QED
  BY <1>1, InitLoad, NextLoad, PTL DEF SystemSpec

-----------------------------------------------------------------------------
\* The bus.  What ran and what is left are the subscribers of the event when the
\* emit began, which those that came later follow.

BusInv ==
    /\ subscribers \in [Events -> Seq(Names)]
    /\ delivery # Idle =>
          /\ delivery \in Deliveries
          /\ delivery.from <= Len(subscribers[delivery.event])
          /\ delivery.ran \o delivery.left
                = SubSeq(subscribers[delivery.event], 1, delivery.from)

\* One handler moves from what is left to what ran; a later subscriber leaves the
\* first ones where they were; what was copied is all there was.
LEMMA HandlerMoves ==
    ASSUME NEW S, NEW ran \in Seq(S), NEW left \in Seq(S), left # <<>>
    PROVE /\ Head(left) \in S /\ Tail(left) \in Seq(S) /\ Append(ran, Head(left)) \in Seq(S)
          /\ Append(ran, Head(left)) \o Tail(left) = ran \o left
<1>1. Head(left) \in S /\ Tail(left) \in Seq(S) /\ Append(ran, Head(left)) \in Seq(S)
  OBVIOUS
<1>2. Len(Tail(left)) = Len(left) - 1 /\ Len(left) \in Nat \ {0}
  OBVIOUS
<1> QED
  BY <1>1, <1>2

LEMMA LaterSubscriber ==
    ASSUME NEW S, NEW s \in Seq(S), NEW x \in S, NEW n \in 0 .. Len(s)
    PROVE SubSeq(Append(s, x), 1, n) = SubSeq(s, 1, n)
  OBVIOUS

LEMMA AllCopied ==
    ASSUME NEW S, NEW s \in Seq(S)
    PROVE <<>> \o s = SubSeq(s, 1, Len(s)) /\ s \o <<>> = s
  OBVIOUS

\* What the loads and the decisions do leaves the bus alone.
LEMMA BusApart ==
    ASSUME BusInv, UNCHANGED <<subscribers, delivery>> PROVE BusInv'
  BY DEF BusInv

LEMMA InitBus == SystemInit => BusInv
  BY DEF SystemInit, BusInv, NoSubscribers

\* A first-party plugin subscribes behind those already there.
LEMMA ActivateKeepsBus ==
    ASSUME LoadInv, BusInv, Activate PROVE BusInv'
<1>1. PICK n : n = FirstParty[at].name
  OBVIOUS
<1>2. n \in Names
  <2>1. at \in Nat \ {0} /\ at <= Len(FirstParty) /\ FirstParty \in Seq(Manifests)
    BY SystemAssumption DEF LoadInv, DaemonTyped, Activate
  <2>2. at \in DOMAIN FirstParty
    BY <2>1
  <2> QED
    BY <1>1, <2>2 DEF Names
<1>3. /\ subscribers' = [e \in Events |-> IF e \in Wants[n] THEN Append(subscribers[e], n)
                                          ELSE subscribers[e]]
      /\ delivery' = delivery
  BY <1>1 DEF Activate
<1>4. subscribers' \in [Events -> Seq(Names)]
  BY <1>2, <1>3 DEF BusInv
<1>5. ASSUME delivery # Idle
      PROVE /\ delivery.from <= Len(subscribers'[delivery.event])
            /\ SubSeq(subscribers'[delivery.event], 1, delivery.from)
                  = SubSeq(subscribers[delivery.event], 1, delivery.from)
  <2>1. /\ delivery.event \in Events /\ delivery.from \in Nat
        /\ subscribers[delivery.event] \in Seq(Names)
        /\ delivery.from <= Len(subscribers[delivery.event])
    BY <1>5 DEF BusInv, Deliveries
  <2>2. PICK s, k : s = subscribers[delivery.event] /\ k = delivery.from
    OBVIOUS
  <2>3. s \in Seq(Names) /\ k \in 0 .. Len(s)
    BY <2>1, <2>2
  <2>4. CASE delivery.event \in Wants[n]
    <3>1. subscribers'[delivery.event] = Append(s, n)
      BY <1>3, <2>1, <2>2, <2>4
    <3>2. k <= Len(Append(s, n)) /\ SubSeq(Append(s, n), 1, k) = SubSeq(s, 1, k)
      BY <1>2, <2>3, LaterSubscriber
    <3> QED
      BY <2>2, <3>1, <3>2
  <2>5. CASE delivery.event \notin Wants[n]
    BY <1>3, <2>1, <2>5
  <2> QED
    BY <2>4, <2>5
<1> QED
  BY <1>3, <1>4, <1>5 DEF BusInv

\* An emit copies all the handlers there are.
LEMMA EmitKeepsBus ==
    ASSUME BusInv, NEW n, NEW e \in Events, Emit(n, e) PROVE BusInv'
<1>1. PICK s : s = subscribers[e]
  OBVIOUS
<1>2. s \in Seq(Names) /\ Len(s) \in Nat
  BY <1>1 DEF BusInv
<1>3. /\ delivery' = [event |-> e, left |-> s, from |-> Len(s), ran |-> <<>>, failed |-> FALSE]
      /\ subscribers' = subscribers
  BY <1>1 DEF Emit
<1>4. <<>> \o s = SubSeq(s, 1, Len(s))
  BY <1>2, AllCopied
<1> QED
  BY <1>1, <1>2, <1>3, <1>4 DEF BusInv, Deliveries

\* A handler that runs, with or without an error, is the next of them.
LEMMA RunKeepsBus ==
    ASSUME BusInv, RunHandler PROVE BusInv' /\ delivery' # Idle
<1>1. PICK err \in BOOLEAN :
          delivery' = [delivery EXCEPT !.left = Tail(@),
                                       !.ran = Append(@, Head(delivery.left)),
                                       !.failed = @ \/ err]
  BY DEF RunHandler
<1>2. /\ delivery \in Deliveries /\ delivery.left # <<>> /\ subscribers' = subscribers
      /\ delivery.from <= Len(subscribers[delivery.event])
      /\ delivery.ran \o delivery.left
            = SubSeq(subscribers[delivery.event], 1, delivery.from)
  BY DEF RunHandler, BusInv
<1>3. PICK ran, left : ran = delivery.ran /\ left = delivery.left
  OBVIOUS
<1>4. ran \in Seq(Names) /\ left \in Seq(Names) /\ left # <<>>
  BY <1>2, <1>3 DEF Deliveries
<1>5. /\ Tail(left) \in Seq(Names) /\ Append(ran, Head(left)) \in Seq(Names)
      /\ Append(ran, Head(left)) \o Tail(left) = ran \o left
  BY <1>4, HandlerMoves
<1>6. /\ delivery'.event = delivery.event /\ delivery'.from = delivery.from
      /\ delivery'.left = Tail(left) /\ delivery'.ran = Append(ran, Head(left))
      /\ delivery' \in Deliveries
  <2>1. delivery.failed \/ err \in BOOLEAN
    BY <1>2 DEF Deliveries
  <2> QED
    BY <1>1, <1>2, <1>3, <1>5, <2>1 DEF Deliveries
<1>7. delivery' # Idle
  BY <1>6, SystemAssumption
<1> QED
  BY <1>2, <1>3, <1>5, <1>6, <1>7 DEF BusInv

\* Boots and loads, subscriptions, emits and their handlers keep the invariant.
LEMMA NextBus == LoadInv /\ BusInv /\ [SystemNext]_systemVars => BusInv'
<1> SUFFICES ASSUME LoadInv, BusInv, [SystemNext]_systemVars PROVE BusInv'
  OBVIOUS
<1>1. CASE UNCHANGED systemVars
  BY <1>1, BusApart DEF systemVars, bus
<1>2. ASSUME NEW c \in Configs, Boot(c) PROVE BusInv'
  BY <1>2, BusApart DEF Boot, bus
<1>3. CASE Check \/ Refuse \/ BuildHost \/ Record \/ Instantiate \/ Launch \/ LoadDone \/ Serve
  BY <1>3, BusApart DEF Check, Refuse, BuildHost, Record, Instantiate, Launch, LoadDone, Serve, bus
<1>4. CASE Activate
  BY <1>4, ActivateKeepsBus
<1>5. CASE Stop
  BY <1>5 DEF Stop, Down, BusInv, NoSubscribers
<1>6. ASSUME NEW n \in DOMAIN hosts, NEW e \in Events, Emit(n, e) PROVE BusInv'
  BY <1>6, EmitKeepsBus
<1>7. CASE RunHandler
  BY <1>7, RunKeepsBus
<1>8. CASE Delivered
  BY <1>8 DEF Delivered, BusInv
<1>9. ASSUME NEW m \in Manifests, NEW g \in Offers,
             DecideElsewhere(m, g) \/ \E o \in {"approved", "partial", "denied"} :
                                          DecideOverAPI(m, o, g)
      PROVE BusInv'
  BY <1>9, BusApart DEF DecideElsewhere, DecideOverAPI, Decide, bus
<1> QED
  BY <1>1, <1>2, <1>3, <1>4, <1>5, <1>6, <1>7, <1>8, <1>9 DEF SystemNext

\* host.go EventBus.emit: for any plugins and events, every handler subscribed when
\* an emit began has run, in order and once, by the time the emit returns, whichever
\* of them failed and whatever was subscribed meanwhile.
THEOREM HandlersAllRun == SystemSpec => EveryHandlerRuns
<1>1. ASSUME BusInv, [SystemNext]_systemVars, delivery # Idle, delivery' = Idle, phase' # "down"
      PROVE delivery.ran = SubSeq(subscribers[delivery.event], 1, delivery.from)
  <2>1. CASE Delivered
    <3>1. PICK ran : ran = delivery.ran
      OBVIOUS
    <3>2. ran \in Seq(Names) /\ delivery.left = <<>>
      BY <1>1, <2>1, <3>1 DEF BusInv, Deliveries, Delivered
    <3>3. ran \o <<>> = ran
      BY <3>2, AllCopied
    <3> QED
      BY <1>1, <3>1, <3>2, <3>3 DEF BusInv
  <2>2. ~ RunHandler
    BY <1>1, RunKeepsBus
  <2>3. \A n, e : ~ Emit(n, e)
    BY <1>1 DEF Emit
  <2>4. ~ Stop
    BY <1>1 DEF Stop, Down
  <2>5. /\ ~ (Check \/ Refuse \/ BuildHost \/ Record \/ Instantiate \/ Launch)
        /\ ~ (LoadDone \/ Activate \/ Serve)
        /\ delivery' # delivery
    BY <1>1 DEF Check, Refuse, BuildHost, Record, Instantiate, Launch, LoadDone, Activate,
                Serve, bus
  <2>6. /\ \A c : ~ Boot(c)
        /\ \A m, g : ~ Decide(m, g)
    BY <2>5 DEF Boot, Decide, bus
  <2> QED
    BY <1>1, <2>1, <2>2, <2>3, <2>4, <2>5, <2>6
    DEF SystemNext, systemVars, bus, DecideOverAPI, DecideElsewhere
<1>2. BusInv /\ [SystemNext]_systemVars
        => [delivery # Idle /\ delivery' = Idle /\ phase' # "down"
              => delivery.ran = SubSeq(subscribers[delivery.event], 1, delivery.from)]_systemVars
  BY <1>1
<1> QED
  BY <1>2, InitLoad, NextLoad, InitBus, NextBus, PTL DEF SystemSpec, EveryHandlerRuns
=============================================================================
