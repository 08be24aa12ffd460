------------------------------ MODULE Billing ------------------------------
(***************************************************************************)
(* Orders and subscriptions (capabilities/commerce, capabilities/          *)
(* membership): content items that several callers patch by fetching,      *)
(* merging and writing them whole, gateway callbacks that come twice or    *)
(* late, charges, and the events announced to capabilities/notifications.  *)
(* A patch is one action per database statement (content.API.Get and the   *)
(* statements of content.API.Update).                                      *)
(***************************************************************************)
EXTENDS Naturals, FiniteSets, TLC

CONSTANTS Callers, Orders, Subs,
          Interval,      \* the billing interval of the subscribed tier
          Listeners,     \* the events notifications handles: name to payload type
          NoRow, Idle,
          MaxCalls, MaxClock    \* bounds of the model

ASSUME BillingAssumption ==
    /\ {Interval, MaxCalls, MaxClock} \subseteq Nat
    /\ Orders \cap Subs = {}

Items == Orders \cup Subs

VARIABLES rows,       \* the live items: version and data
          history,    \* their snapshots, keyed by item and version
          jobs,       \* what each caller has read and does next
          gateway,    \* an order at the gateway: "none", "open", "completed", "refunded"
          listening,  \* whether notifications is active
          clock, calls,
          emitted,    \* auxiliary: [event, item, ok]
          acked       \* auxiliary: the callbacks answered with success

vars == <<rows, history, jobs, gateway, listening, clock, calls,
          emitted, acked>>

Init ==
    /\ rows = [i \in Items |-> NoRow]
    /\ history = [i \in Items |-> <<>>]
    /\ jobs = [c \in Callers |-> Idle]
    /\ gateway = [o \in Orders |-> "none"]
    /\ listening \in BOOLEAN
    /\ clock = 0 /\ calls = 0
    /\ emitted = {} /\ acked = {}

-----------------------------------------------------------------------------
\* The payload type each event carries.
Carries(event) ==
    CASE event = "order.placed" -> "OrderPlacedEvent"
      [] event \in {"payment.completed", "payment.refunded"} -> "PaymentEvent"
      [] event \in {"membership.started", "membership.expired"} -> "SubscriptionEvent"

\* A handler that finds another payload type than its own fails; when it finds
\* its own it may still fail to send.
EmitResults(event) ==
    IF ~listening \/ event \notin DOMAIN Listeners THEN {TRUE}
    ELSE IF Listeners[event] = Carries(event) THEN BOOLEAN ELSE {FALSE}

Job(item, step, patch, event) ==
    [item |-> item, step |-> step, patch |-> patch, event |-> event,
     copy |-> patch, version |-> 1, stale |-> FALSE, callback |-> FALSE]

Start(c, job) ==
    /\ jobs[c] = Idle /\ calls < MaxCalls
    /\ calls' = calls + 1
    /\ jobs' = [jobs EXCEPT ![c] = job]

At(c, step) == jobs[c] # Idle /\ jobs[c].step = step
Exists(i) == rows[i] # NoRow

\* content.API.Create: the row, then (Snapshot) its first version.
Create(c, i, data, event) ==
    /\ ~Exists(i)
    /\ Start(c, Job(i, "snapshot", data, event))
    /\ rows' = [rows EXCEPT ![i] = [version |-> 1, data |-> data]]

CreateOrder(c, o) ==
    /\ Create(c, o, [status |-> "pending", session |-> 0], "order.placed")
    /\ UNCHANGED <<history, gateway, listening, clock, emitted, acked>>

Subscribe(c, s) ==
    /\ Create(c, s, [status |-> "active", end |-> clock + Interval],
              "membership.started")
    /\ UNCHANGED <<history, gateway, listening, clock, emitted, acked>>

\* The gateway opens a hosted session; its id is then patched onto the order.  For an id
\* that no order has, ids being random, the session is opened too but nothing here changes:
\* the patch finds no order.
StartCheckout(c, o) ==
    /\ Exists(o)
    /\ Start(c, Job(o, "get", [session |-> calls + 1], "none"))
    /\ gateway' = [gateway EXCEPT ![o] = IF @ = "none" THEN "open" ELSE @]
    /\ UNCHANGED <<rows, history, listening, clock, emitted, acked>>

\* What the gateway has to report about an order, and has reported or not.
Reports(o) ==
    CASE gateway[o] = "completed" -> {"paid"}
      [] gateway[o] = "refunded"  -> {"paid", "refunded"}
      [] OTHER -> {}

EventOf(status) ==
    IF status = "paid" THEN "payment.completed" ELSE "payment.refunded"

\* A callback is delivered: the first time, again, or after a later one.  One of another
\* type, or of no order, changes nothing and emits nothing.
HandleWebhook(c, o, status) ==
    /\ status \in Reports(o)
    /\ Start(c, [Job(o, "get", [status |-> status], EventOf(status))
                    EXCEPT !.callback = TRUE])
    /\ UNCHANGED <<rows, history, gateway, listening, clock, emitted, acked>>

CancelSubscription(c, s) ==
    /\ Exists(s)
    /\ Start(c, Job(s, "get", [status |-> "cancelled"], "membership.expired"))
    /\ UNCHANGED <<rows, history, gateway, listening, clock, emitted, acked>>

\* ProcessRenewal reads the subscription for its tier, whatever its status.
ProcessRenewal(c, s) ==
    /\ Exists(s)
    /\ Start(c, [Job(s, "charge", <<>>, "none") EXCEPT !.copy = rows[s].data])
    /\ UNCHANGED <<rows, history, gateway, listening, clock, emitted, acked>>

Renewed(job) == [job EXCEPT !.step = "get", !.patch = [end |-> clock + Interval]]
Lapsed(job) == [job EXCEPT !.step = "get", !.patch = [status |-> "expired"],
                           !.event = "membership.expired"]

\* Faulty charge: the item read before the call is patched, not read again.
ChargeKeepsCopy(c) ==
    /\ At(c, "charge")
    /\ jobs' = [jobs EXCEPT ![c] = [Renewed(@) EXCEPT !.step = "version"]]
    /\ UNCHANGED <<rows, history, gateway, listening, clock, calls, emitted, acked>>

\* The gateway answers the charge: the new period is computed, or the
\* subscription lapses.
Charge(c) ==
    /\ At(c, "charge")
    /\ jobs' \in {[jobs EXCEPT ![c] = Renewed(@)], [jobs EXCEPT ![c] = Lapsed(@)]}
    /\ UNCHANGED <<rows, history, gateway, listening, clock, calls, emitted, acked>>

-----------------------------------------------------------------------------
\* patchOrder and patchSubscription.

Merge(data, patch) ==
    [f \in DOMAIN data \cup DOMAIN patch |-> IF f \in DOMAIN patch THEN patch[f] ELSE data[f]]

Acknowledge(job) ==
    acked' = IF job.callback THEN acked \cup {<<job.item, job.patch.status>>} ELSE acked

\* Faulty fetch: a status the order has already is answered without more.
GetSkipsRepeat(c) ==
    /\ At(c, "get") /\ Exists(jobs[c].item)
    /\ LET data == rows[jobs[c].item].data
       IN  IF jobs[c].callback /\ data.status = jobs[c].patch.status
           THEN /\ jobs' = [jobs EXCEPT ![c] = Idle]
                /\ Acknowledge(jobs[c])
           ELSE /\ jobs' = [jobs EXCEPT ![c].copy = data, ![c].step = "version"]
                /\ UNCHANGED acked
    /\ UNCHANGED <<rows, history, gateway, listening, clock, calls, emitted>>

Get(c) ==
    /\ At(c, "get") /\ Exists(jobs[c].item)
    /\ jobs' = [jobs EXCEPT ![c].copy = rows[jobs[c].item].data,
                            ![c].step = "version"]
    /\ UNCHANGED <<rows, history, gateway, listening, clock, calls,
                   emitted, acked>>

\* Update reads the item again, for its version.
ReadVersion(c) ==
    /\ At(c, "version") /\ Exists(jobs[c].item)
    /\ jobs' = [jobs EXCEPT ![c].version = rows[jobs[c].item].version + 1,
                            ![c].step = "write"]
    /\ UNCHANGED <<rows, history, gateway, listening, clock, calls,
                   emitted, acked>>

\* The copies of the item that others have fetched are stale from here on.
Write(c) ==
    /\ At(c, "write")
    /\ LET i == jobs[c].item
           Fetched(d) == jobs[d] # Idle /\ jobs[d].item = i
                            /\ jobs[d].step \in {"version", "write"}
       IN  /\ rows' = [rows EXCEPT ![i] = [version |-> jobs[c].version,
                             data |-> Merge(jobs[c].copy, jobs[c].patch)]]
           /\ jobs' = [d \in Callers |->
                CASE d = c -> [jobs[d] EXCEPT !.step = "snapshot"]
                  [] d # c /\ Fetched(d) -> [jobs[d] EXCEPT !.stale = TRUE]
                  [] OTHER -> jobs[d]]
    /\ UNCHANGED <<history, gateway, listening, clock, calls, emitted, acked>>

Snapshotted(c) ==
    IF jobs[c].event = "none"
    THEN [jobs EXCEPT ![c] = Idle]
    ELSE [jobs EXCEPT ![c].step = "emit"]

\* The snapshot's key refuses a version that another patch has taken.
Snapshot(c) ==
    /\ At(c, "snapshot")
    /\ LET job == jobs[c]
           data == Merge(job.copy, job.patch)
       IN  IF job.version \in DOMAIN history[job.item]
           THEN /\ jobs' = [jobs EXCEPT ![c] = Idle]
                /\ UNCHANGED history
           ELSE /\ history' = [history EXCEPT ![job.item] = @ @@ (job.version :> data)]
                /\ jobs' = Snapshotted(c)
    /\ UNCHANGED <<rows, gateway, listening, clock, calls, emitted, acked>>

\* The subscribers run; an error of one is the caller's error.
Emit(c) ==
    /\ At(c, "emit")
    /\ \E ok \in EmitResults(jobs[c].event) :
        /\ emitted' = emitted \cup
              {[event |-> jobs[c].event, item |-> jobs[c].item, ok |-> ok]}
        /\ IF ok THEN Acknowledge(jobs[c]) ELSE UNCHANGED acked
    /\ jobs' = [jobs EXCEPT ![c] = Idle]
    /\ UNCHANGED <<rows, history, gateway, listening, clock, calls>>

\* A statement or the gateway fails, the context ends, or the daemon dies.
Fail(c) ==
    /\ jobs[c] # Idle
    /\ jobs' = [jobs EXCEPT ![c] = Idle]
    /\ UNCHANGED <<rows, history, gateway, listening, clock, calls,
                   emitted, acked>>

-----------------------------------------------------------------------------
\* The buyer pays in an open session; the charge may be refunded later.
Pay(o) ==
    /\ gateway[o] \in {"open", "completed"}
    /\ gateway' = [gateway EXCEPT ![o] = IF @ = "open" THEN "completed" ELSE "refunded"]
    /\ UNCHANGED <<rows, history, jobs, listening, clock, calls, emitted, acked>>

Tick ==
    /\ clock < MaxClock
    /\ clock' = clock + 1
    /\ UNCHANGED <<rows, history, jobs, gateway, listening, calls,
                   emitted, acked>>

Next ==
    \/ \E c \in Callers, o \in Orders :
        \/ CreateOrder(c, o) \/ StartCheckout(c, o)
        \/ \E status \in {"paid", "refunded"} : HandleWebhook(c, o, status)
    \/ \E c \in Callers, s \in Subs :
        Subscribe(c, s) \/ CancelSubscription(c, s) \/ ProcessRenewal(c, s)
    \/ \E c \in Callers :
        \/ Charge(c) \/ Get(c) \/ ReadVersion(c) \/ Write(c) \/ Snapshot(c)
        \/ Emit(c) \/ Fail(c)
    \/ \E o \in Orders : Pay(o)
    \/ Tick

Spec == Init /\ [][Next]_vars

-----------------------------------------------------------------------------
\* Properties.

\* A field of an order or subscription that a request was not asked to change
\* changes only if another request wrote the item between that request's fetch
\* and its write (checkout.go patchOrder, subscriptions.go patchSubscription).
OnlyPatchedFieldsChange ==
    [][\A i \in Items : Exists(i) /\ rows'[i] # rows[i] =>
        \E c \in Callers :
            /\ At(c, "write") /\ jobs[c].item = i
            /\ \A f \in DOMAIN rows[i].data :
                  rows'[i].data[f] # rows[i].data[f] =>
                      f \in DOMAIN jobs[c].patch \/ jobs[c].stale]_vars

\* A callback is acknowledged, and so not delivered again, only after its event
\* reached every subscriber without an error (webhook.go HandleWebhook).
AcknowledgedIsAnnounced ==
    \A a \in acked : [event |-> EventOf(a[2]), item |-> a[1], ok |-> TRUE] \in emitted
=============================================================================
