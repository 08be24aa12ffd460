------------------------------ MODULE AiCalls ------------------------------
(***************************************************************************)
(* The budget of calls to an AI provider: capabilities/ai (service.go,     *)
(* ratelimit.go) over the calling plugin's key-value store                 *)
(* (internal/pluginstore behind HostAPI.Store), and the administration's   *)
(* own caller, handleAICompose of internal/api/ai.go.                      *)
(*                                                                         *)
(* A caller is a plugin and one operation; budgets of different operations *)
(* are kept under different keys.  The clock is read, then the record,     *)
(* then the record is written back, and other calls of the same plugin run *)
(* between these steps.  A plugin that writes under the budget's key       *)
(* itself, which its store allows, is left out.                            *)
(***************************************************************************)
EXTENDS Clock, Integers, FiniteSets, FiniteSetsExt

CONSTANTS Callers,     \* plugins' operations, the compose endpoint included
          Compose,     \* the one of handleAICompose
          Gated,       \* callers without the scope or the provider's host
          Calls,       \* calls in progress at one time
          AiMax,       \* AiMax[k]: RateLimit.MaxCalls of the operation
          AiWindow,    \* RateLimit.Window
          NoRecord, NoCaller,
          MaxCharged   \* bound of the model: calls charged to all callers

\* rateLimitState.
Records == [start : Nat, count : Nat]

ASSUME AiAssumption ==
    /\ AiMax \in [Callers -> Nat \ {0}] /\ AiWindow \in Nat \ {0} /\ MaxCharged \in Nat
    /\ Gated \subseteq Callers /\ NoCaller \notin Callers /\ NoRecord \notin Records

VARIABLES kv,       \* caller -> its record in plugin_kv, or NoRecord
          call,     \* call[c]: the step, the caller, the time and the record it read
          charged,  \* history: caller -> the calls charged to it: their number, their
                    \* time and the start of the window that counted them
          raced     \* history: callers whose record was written from a stale copy

aiVars == <<kv, call, charged, raced>>

Resting == [at |-> "idle", caller |-> NoCaller, time |-> 0, read |-> NoRecord]

AiInit ==
    /\ kv = [k \in Callers |-> NoRecord]
    /\ call = [c \in Calls |-> Resting]
    /\ charged = [k \in Callers |-> {}]
    /\ raced = {}

\* HostAPI.Store().Get.  handleAICompose builds its host for the one request,
\* with no KV in KernelDeps: that host's store is its own and empty.
Stored(k) == IF k = Compose THEN NoRecord ELSE kv[k]

\* callGated: scope and host are checked, then checkRateLimit reads the clock.
Enter(c, k) ==
    /\ call[c].at = "idle" /\ k \notin Gated
    /\ call' = [call EXCEPT ![c] = [at |-> "get", caller |-> k, time |-> clock,
                                    read |-> NoRecord]]
    /\ UNCHANGED <<kv, charged, raced, clock>>

Get(c) ==
    /\ call[c].at = "get"
    /\ call' = [call EXCEPT ![c].at = "decide", ![c].read = Stored(call[c].caller)]
    /\ UNCHANGED <<kv, charged, raced, clock>>

\* Faulty WindowOf: the last tick of a window already opens the next.
WindowOfShort(q) ==
    IF q.read = NoRecord THEN [start |-> q.time, count |-> 0]
    ELSE IF q.time - q.read.start >= AiWindow - 1 THEN [start |-> q.time, count |-> 0]
    ELSE q.read

\* The window a call is counted in, opened anew when the last one is over.
WindowOf(q) ==
    IF q.read = NoRecord THEN [start |-> q.time, count |-> 0]
    ELSE IF q.time - q.read.start >= AiWindow THEN [start |-> q.time, count |-> 0]
    ELSE q.read

Refuse(c) ==
    /\ call[c].at = "decide"
    /\ WindowOf(call[c]).count >= AiMax[call[c].caller]
    /\ call' = [call EXCEPT ![c] = Resting]
    /\ UNCHANGED <<kv, charged, raced, clock>>

\* Bound of the model.
MoreCalls == MapThenSumSet(LAMBDA k : Cardinality(charged[k]), Callers) < MaxCharged

\* The record is written with one call more, and the adapter called; what the
\* provider answers does not touch the budget, nor does a lost reply to Set.
Charge(c) ==
    LET q == call[c]  k == call[c].caller  w == WindowOf(call[c]) IN
    /\ q.at = "decide" /\ w.count < AiMax[k] /\ MoreCalls
    /\ kv' = IF k = Compose THEN kv
             ELSE [kv EXCEPT ![k] = [start |-> w.start, count |-> w.count + 1]]
    /\ charged' = [charged EXCEPT ![k] = @ \cup {[nth |-> Cardinality(@) + 1,
                                                  start |-> w.start, time |-> q.time]}]
    /\ raced' = IF Stored(k) = q.read THEN raced ELSE raced \cup {k}
    /\ call' = [call EXCEPT ![c] = Resting]
    /\ UNCHANGED clock

\* A read or write fails: the caller gets an error and the provider no call.
FailCall(c) ==
    /\ call[c].at # "idle"
    /\ call' = [call EXCEPT ![c] = Resting]
    /\ UNCHANGED <<kv, charged, raced, clock>>

AiStep ==
    \E c \in Calls :
        \/ Get(c) \/ Refuse(c) \/ Charge(c) \/ FailCall(c)
        \/ \E k \in Callers : Enter(c, k)

-----------------------------------------------------------------------------
\* The calls counted in the window of p, and those from its time to a window
\* later.  A call is behind its window when it read the clock before the call
\* that opened the window did, and the budget after it.
SameWindow(k, p) == {q \in charged[k] : q.start = p.start}
Within(k, p) == {q \in charged[k] : p.time <= q.time /\ q.time < p.time + AiWindow}
Behind(q) == q.time < q.start

\* ratelimit.go:11-15: of a plugin whose calls never wrote over each other's
\* count, at most MaxCalls are counted in a window, and less than twice as many
\* fall in any stretch of that length, however they lie on the windows.  Calls
\* behind their window are counted, but not where they fall.
BudgetHolds ==
    \A k \in Callers \ (raced \cup {Compose}) : \A p \in charged[k] :
        /\ Cardinality(SameWindow(k, p)) <= AiMax[k]
        /\ ~ Behind(p) =>
               Cardinality({q \in Within(k, p) : ~ Behind(q)}) <= 2 * AiMax[k] - 1
=============================================================================
