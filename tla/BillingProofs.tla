---------------------------- MODULE BillingProofs ----------------------------
(***************************************************************************)
(* Proofs about orders and subscriptions (Billing), for any callers,       *)
(* orders, subscriptions, interval and listeners.                          *)
(*                                                                         *)
(* Two invariants of the requests under way carry the two properties: a    *)
(* callback's request announces the event of the status it patches in, and *)
(* a fetched copy that nobody wrote over is what the item still holds.     *)
(***************************************************************************)
EXTENDS Billing, TLAPS

Fields == {"item", "step", "patch", "event", "copy", "version", "stale", "callback"}

Shape(j) ==
    /\ DOMAIN j = Fields
    /\ j.item \in Items /\ j.stale \in BOOLEAN /\ j.callback \in BOOLEAN
    /\ j.callback = TRUE => j.event = EventOf(j.patch.status) /\ j.step # "charge"

Shaped ==
    /\ DOMAIN jobs = Callers /\ DOMAIN rows = Items
    /\ \A c \in Callers : jobs[c] # Idle => Shape(jobs[c])

-----------------------------------------------------------------------------
\* A job as it starts, and what one step makes of it.

LEMMA JobsHaveShape ==
    \A i \in Items : \A step, patch, event :
        /\ Shape(Job(i, step, patch, event))
        /\ Job(i, step, patch, event).item = i /\ Job(i, step, patch, event).step = step
        /\ Job(i, step, patch, event).patch = patch /\ Job(i, step, patch, event).event = event
        /\ Job(i, step, patch, event).callback = FALSE
BY DEF Job, Shape, Fields

LEMMA StepChange ==
    ASSUME NEW j, Shape(j), NEW step, step # "charge"
    PROVE LET k == [j EXCEPT !.step = step] IN
            /\ Shape(k) /\ k.step = step /\ k.item = j.item /\ k.stale = j.stale /\ k.copy = j.copy
            /\ k.patch = j.patch
BY DEF Shape, Fields

LEMMA FetchChange ==
    ASSUME NEW j, Shape(j), NEW data
    PROVE LET k == [j EXCEPT !.copy = data, !.step = "version"] IN
            /\ Shape(k) /\ k.step = "version" /\ k.item = j.item /\ k.copy = data
BY DEF Shape, Fields

LEMMA VersionChange ==
    ASSUME NEW j, Shape(j), NEW n
    PROVE LET k == [j EXCEPT !.version = n, !.step = "write"] IN
            /\ Shape(k) /\ k.step = "write" /\ k.item = j.item /\ k.stale = j.stale /\ k.copy = j.copy
BY DEF Shape, Fields

LEMMA StaleChange ==
    ASSUME NEW j, Shape(j)
    PROVE LET k == [j EXCEPT !.stale = TRUE] IN
            /\ Shape(k) /\ k.step = j.step /\ k.item = j.item /\ k.stale = TRUE
BY DEF Shape, Fields

LEMMA ChargeChange ==
    ASSUME NEW j, Shape(j), j.step = "charge"
    PROVE /\ Shape(Renewed(j)) /\ Renewed(j).step = "get"
          /\ Shape(Lapsed(j)) /\ Lapsed(j).step = "get"
BY DEF Shape, Fields, Renewed, Lapsed

\* Every step changes the jobs by replacing one, except Write, which also marks
\* the copies of others.
LEMMA PutJob ==
    ASSUME Shaped, NEW c \in Callers, NEW j, j = Idle \/ Shape(j),
           jobs' = [jobs EXCEPT ![c] = j], DOMAIN rows' = Items
    PROVE /\ Shaped'
          /\ jobs'[c] = j /\ \A d \in Callers \ {c} : jobs'[d] = jobs[d]
BY DEF Shaped

-----------------------------------------------------------------------------
\* The requests under way.

Fresh(j) ==
    j.step \in {"version", "write"} /\ j.stale = FALSE =>
        Exists(j.item) /\ j.copy = rows[j.item].data

BillingInv == Shaped /\ \A c \in Callers : jobs[c] # Idle => Fresh(jobs[c])

LEMMA InitBilling == Init => BillingInv
BY DEF Init, BillingInv, Shaped

\* A request arrives.
LEMMA StartFresh ==
    ASSUME BillingInv, NEW c \in Callers, NEW j, Shape(j), j.step \notin {"version", "write"},
           Start(c, j), UNCHANGED rows
    PROVE BillingInv'
<1>1. Shaped' /\ jobs'[c] = j /\ \A d \in Callers \ {c} : jobs'[d] = jobs[d]
  BY PutJob DEF Start, BillingInv, Shaped
<1> QED
  BY <1>1 DEF BillingInv, Fresh, Exists

LEMMA CreateFresh ==
    ASSUME BillingInv, NEW c \in Callers, NEW i \in Items, NEW data, NEW event,
           Create(c, i, data, event)
    PROVE BillingInv'
<1> DEFINE j == Job(i, "snapshot", data, event)
<1>1. Shape(j) /\ j.step = "snapshot"
  BY JobsHaveShape
<1>2. jobs' = [jobs EXCEPT ![c] = j] /\ ~Exists(i) /\ DOMAIN rows' = Items
      /\ \A k \in Items \ {i} : rows'[k] = rows[k]
  BY DEF Create, Start, BillingInv, Shaped
<1> HIDE DEF j
<1>3. Shaped' /\ jobs'[c] = j /\ \A d \in Callers \ {c} : jobs'[d] = jobs[d]
  BY <1>1, <1>2, PutJob DEF BillingInv
<1>4. ASSUME NEW d \in Callers, jobs'[d] # Idle PROVE Fresh(jobs[d])' \/ d = c
  BY <1>2, <1>3, <1>4 DEF BillingInv, Shaped, Shape, Fresh, Exists
<1> QED
  BY <1>1, <1>3, <1>4 DEF BillingInv, Fresh

\* A request under way takes a step that writes no item.
LEMMA MoveFresh ==
    ASSUME BillingInv, NEW c \in Callers, NEW j, j = Idle \/ (Shape(j) /\ Fresh(j)),
           jobs' = [jobs EXCEPT ![c] = j], UNCHANGED rows
    PROVE BillingInv'
<1>1. Shaped' /\ jobs'[c] = j /\ \A d \in Callers \ {c} : jobs'[d] = jobs[d]
  BY PutJob DEF BillingInv, Shaped
<1> QED
  BY <1>1 DEF BillingInv, Fresh, Exists

LEMMA WriteFresh == ASSUME BillingInv, NEW c \in Callers, Write(c) PROVE BillingInv'
<1> DEFINE i == jobs[c].item
           Fetched(d) == jobs[d] # Idle /\ jobs[d].item = i /\ jobs[d].step \in {"version", "write"}
<1>1. DOMAIN rows' = Items /\ \A k \in Items \ {i} : rows'[k] = rows[k]
  BY DEF Write, BillingInv, Shaped
<1>2. DOMAIN jobs' = Callers
  BY DEF Write
<1>3. Shape(jobs[c]) /\ jobs[c] # Idle
  BY DEF Write, At, BillingInv, Shaped
<1>4. jobs'[c] = [jobs[c] EXCEPT !.step = "snapshot"]
  BY DEF Write
<1>5. Shape(jobs'[c]) /\ jobs'[c].step = "snapshot"
  BY <1>3, <1>4, StepChange
<1>6. ASSUME NEW d \in Callers \ {c}, jobs'[d] # Idle PROVE Shape(jobs'[d]) /\ Fresh(jobs[d])'
  <2>1. CASE Fetched(d)
    <3>1. jobs'[d] = [jobs[d] EXCEPT !.stale = TRUE]
      BY <1>6, <2>1 DEF Write
    <3>2. Shape(jobs'[d]) /\ jobs'[d].stale = TRUE
      BY <1>6, <2>1, <3>1, StaleChange DEF BillingInv, Shaped
    <3> QED
      BY <3>2 DEF Fresh
  <2>2. CASE ~Fetched(d)
    <3>1. jobs'[d] = jobs[d]
      BY <1>6, <2>2 DEF Write
    <3>2. Shape(jobs[d]) /\ Fresh(jobs[d])
      BY <1>6, <3>1 DEF BillingInv, Shaped
    <3>3. jobs[d].step \in {"version", "write"} => rows'[jobs[d].item] = rows[jobs[d].item]
      BY <1>1, <1>6, <2>2, <3>1, <3>2 DEF Shape
    <3> QED
      BY <3>1, <3>2, <3>3 DEF Fresh, Exists
  <2> QED
    BY <2>1, <2>2
<1> QED
  BY <1>1, <1>2, <1>5, <1>6 DEF BillingInv, Shaped, Fresh

LEMMA NextBilling == ASSUME BillingInv, Next PROVE BillingInv'
<1>1. \A i \in Orders \cup Subs : i \in Items
  BY DEF Items
<1>2. ASSUME NEW c \in Callers, NEW o \in Orders,
             \/ CreateOrder(c, o) \/ StartCheckout(c, o)
             \/ \E status \in {"paid", "refunded"} : HandleWebhook(c, o, status)
      PROVE BillingInv'
  <2>1. CASE CreateOrder(c, o)
    BY <1>1, <2>1, CreateFresh DEF CreateOrder
  <2>2. CASE StartCheckout(c, o)
    <3> DEFINE j == Job(o, "get", [session |-> calls + 1], "none")
    <3>1. Shape(j) /\ j.step = "get"
      BY <1>1, JobsHaveShape
    <3>2. Start(c, j) /\ UNCHANGED rows
      BY <2>2 DEF StartCheckout
    <3> HIDE DEF j
    <3> QED
      BY <3>1, <3>2, StartFresh
  <2>3. ASSUME NEW status \in {"paid", "refunded"}, HandleWebhook(c, o, status)
        PROVE BillingInv'
    <3> DEFINE k == Job(o, "get", [status |-> status], EventOf(status))
               j == [k EXCEPT !.callback = TRUE]
    <3>1. /\ Shape(k) /\ k.step = "get" /\ k.patch = [status |-> status]
          /\ k.event = EventOf(status)
      BY <1>1, JobsHaveShape
    <3>2. Start(c, j) /\ UNCHANGED rows
      BY <2>3 DEF HandleWebhook
    <3> HIDE DEF k
    <3>3. k.patch.status = status
      BY <3>1
    <3>4. Shape(j) /\ j.step = "get"
      BY <3>1, <3>3 DEF Shape, Fields
    <3> HIDE DEF j
    <3> QED
      BY <3>2, <3>4, StartFresh
  <2> QED
    BY <1>2, <2>1, <2>2, <2>3
<1>3. ASSUME NEW c \in Callers, NEW s \in Subs,
             Subscribe(c, s) \/ CancelSubscription(c, s) \/ ProcessRenewal(c, s)
      PROVE BillingInv'
  <2>1. CASE Subscribe(c, s)
    BY <1>1, <2>1, CreateFresh DEF Subscribe
  <2>2. CASE CancelSubscription(c, s)
    <3> DEFINE j == Job(s, "get", [status |-> "cancelled"], "membership.expired")
    <3>1. Shape(j) /\ j.step = "get"
      BY <1>1, JobsHaveShape
    <3>2. Start(c, j) /\ UNCHANGED rows
      BY <2>2 DEF CancelSubscription
    <3> HIDE DEF j
    <3> QED
      BY <3>1, <3>2, StartFresh
  <2>3. CASE ProcessRenewal(c, s)
    <3> DEFINE k == Job(s, "charge", <<>>, "none")
               j == [k EXCEPT !.copy = rows[s].data]
    <3>1. Shape(k) /\ k.step = "charge" /\ k.callback = FALSE
      BY <1>1, JobsHaveShape
    <3>2. Start(c, j) /\ UNCHANGED rows
      BY <2>3 DEF ProcessRenewal
    <3> HIDE DEF k
    <3>3. Shape(j) /\ j.step = "charge"
      BY <3>1 DEF Shape, Fields
    <3> HIDE DEF j
    <3> QED
      BY <3>2, <3>3, StartFresh
  <2> QED
    BY <1>3, <2>1, <2>2, <2>3
<1>4. ASSUME NEW c \in Callers, Charge(c) PROVE BillingInv'
  <2>1. Shape(jobs[c]) /\ jobs[c].step = "charge" /\ DOMAIN jobs = Callers
    BY <1>4 DEF Charge, At, BillingInv, Shaped
  <2>2. PICK j \in {Renewed(jobs[c]), Lapsed(jobs[c])} : jobs' = [jobs EXCEPT ![c] = j]
    BY <1>4, <2>1 DEF Charge
  <2>3. Shape(j) /\ Fresh(j)
    BY <2>1, <2>2, ChargeChange DEF Fresh
  <2> QED
    BY <1>4, <2>2, <2>3, MoveFresh DEF Charge
<1>5. ASSUME NEW c \in Callers, Get(c) PROVE BillingInv'
  <2> DEFINE data == rows[jobs[c].item].data
             j == [jobs[c] EXCEPT !.copy = data, !.step = "version"]
  <2>1. Shape(jobs[c]) /\ DOMAIN jobs = Callers /\ Exists(jobs[c].item)
    BY <1>5 DEF Get, At, BillingInv, Shaped
  <2>2. Shape(j) /\ j.item = jobs[c].item /\ j.copy = data
    BY <2>1, FetchChange
  <2>3. jobs' = [jobs EXCEPT ![c] = j] /\ UNCHANGED rows
    BY <1>5 DEF Get
  <2> HIDE DEF j
  <2>4. Fresh(j)
    BY <2>1, <2>2 DEF Fresh
  <2> QED
    BY <2>2, <2>3, <2>4, MoveFresh
<1>6. ASSUME NEW c \in Callers, ReadVersion(c) PROVE BillingInv'
  <2> DEFINE n == rows[jobs[c].item].version + 1
             j == [jobs[c] EXCEPT !.version = n, !.step = "write"]
  <2>1. Shape(jobs[c]) /\ Fresh(jobs[c]) /\ jobs[c].step = "version"
    BY <1>6 DEF ReadVersion, At, BillingInv, Shaped
  <2>2. Shape(j) /\ j.item = jobs[c].item /\ j.copy = jobs[c].copy /\ j.stale = jobs[c].stale
    <3> HIDE DEF n
    <3>1. Shape(j)
      BY <2>1, VersionChange
    <3>2. j.item = jobs[c].item /\ j.copy = jobs[c].copy /\ j.stale = jobs[c].stale
      BY <2>1 DEF Shape, Fields
    <3> QED
      BY <3>1, <3>2
  <2>3. jobs' = [jobs EXCEPT ![c] = j] /\ UNCHANGED rows
    BY <1>6 DEF ReadVersion
  <2> HIDE DEF j
  <2>4. Fresh(j)
    BY <2>1, <2>2 DEF Fresh
  <2> QED
    BY <2>2, <2>3, <2>4, MoveFresh
<1>7. ASSUME NEW c \in Callers, Snapshot(c) PROVE BillingInv'
  <2> DEFINE j == [jobs[c] EXCEPT !.step = "emit"]
  <2>1. Shape(jobs[c])
    BY <1>7 DEF Snapshot, At, BillingInv, Shaped
  <2>2. Shape(j) /\ j.step = "emit"
    BY <2>1, StepChange
  <2>3. jobs' = [jobs EXCEPT ![c] = Idle] \/ jobs' = [jobs EXCEPT ![c] = j]
    BY <1>7 DEF Snapshot, Snapshotted
  <2>4. UNCHANGED rows
    BY <1>7 DEF Snapshot
  <2> HIDE DEF j
  <2>5. Fresh(j)
    BY <2>2 DEF Fresh
  <2> QED
    BY <2>2, <2>3, <2>4, <2>5, MoveFresh
<1>8. ASSUME NEW c \in Callers, Emit(c) \/ Fail(c) PROVE BillingInv'
  BY <1>8, MoveFresh DEF Emit, Fail
<1>9. ASSUME UNCHANGED <<rows, jobs>> PROVE BillingInv'
  BY <1>9 DEF BillingInv, Shaped, Fresh, Exists
<1>10. ASSUME (\E o \in Orders : Pay(o)) \/ Tick PROVE BillingInv'
  BY <1>9, <1>10 DEF Pay, Tick
<1> QED
  BY <1>2, <1>3, <1>4, <1>5, <1>6, <1>7, <1>8, <1>10, WriteFresh DEF Next

LEMMA BillingHolds == Spec => []BillingInv
<1>1. BillingInv /\ [Next]_vars => BillingInv'
  <2>1. CASE UNCHANGED vars
    BY <2>1 DEF BillingInv, Shaped, Fresh, Exists, vars
  <2> QED
    BY <2>1, NextBilling
<1> QED
  BY <1>1, InitBilling, PTL DEF Spec

-----------------------------------------------------------------------------
\* What a patch may change.

LEMMA PatchesChangeTheirFields ==
    ASSUME BillingInv, Next, NEW i \in Items, Exists(i), rows'[i] # rows[i]
    PROVE \E c \in Callers :
            /\ At(c, "write") /\ jobs[c].item = i
            /\ \A f \in DOMAIN rows[i].data :
                  rows'[i].data[f] # rows[i].data[f] => f \in DOMAIN jobs[c].patch \/ jobs[c].stale
<1>1. ASSUME NEW c \in Callers, NEW k \in Items, NEW data, NEW event, Create(c, k, data, event)
      PROVE FALSE
  BY <1>1 DEF Create, BillingInv, Shaped
<1>2. \A k \in Orders \cup Subs : k \in Items
  BY DEF Items
<1>3. PICK c \in Callers : Write(c)
  <2>1. ASSUME NEW c \in Callers, NEW o \in Orders,
               \/ CreateOrder(c, o) \/ StartCheckout(c, o)
               \/ \E status \in {"paid", "refunded"} : HandleWebhook(c, o, status)
        PROVE FALSE
    BY <1>1, <1>2, <2>1 DEF CreateOrder, StartCheckout, HandleWebhook
  <2>2. ASSUME NEW c \in Callers, NEW s \in Subs,
               Subscribe(c, s) \/ CancelSubscription(c, s) \/ ProcessRenewal(c, s)
        PROVE FALSE
    BY <1>1, <1>2, <2>2 DEF Subscribe, CancelSubscription, ProcessRenewal
  <2>3. ASSUME NEW c \in Callers,
               Charge(c) \/ Get(c) \/ ReadVersion(c) \/ Snapshot(c) \/ Emit(c) \/ Fail(c)
        PROVE FALSE
    BY <2>3 DEF Charge, Get, ReadVersion, Snapshot, Emit, Fail
  <2>4. ASSUME (\E o \in Orders : Pay(o)) \/ Tick PROVE FALSE
    BY <2>4 DEF Pay, Tick
  <2> QED
    BY <2>1, <2>2, <2>3, <2>4 DEF Next
<1>4. /\ At(c, "write") /\ Shape(jobs[c]) /\ Fresh(jobs[c])
      /\ jobs[c].step = "write"
  BY <1>3 DEF Write, At, BillingInv, Shaped
<1>5. jobs[c].item = i
  BY <1>3 DEF Write, BillingInv, Shaped
<1>6. rows'[i].data = Merge(jobs[c].copy, jobs[c].patch)
  <2>1. rows' = [rows EXCEPT ![i] = [version |-> jobs[c].version,
                                     data |-> Merge(jobs[c].copy, jobs[c].patch)]]
    BY <1>3, <1>5 DEF Write
  <2> QED
    BY <2>1 DEF BillingInv, Shaped
<1>7. ASSUME NEW f \in DOMAIN rows[i].data, f \notin DOMAIN jobs[c].patch, jobs[c].stale # TRUE
      PROVE rows'[i].data[f] = rows[i].data[f]
  <2>1. jobs[c].copy = rows[i].data
    BY <1>4, <1>5, <1>7 DEF Fresh, Shape
  <2>2. Merge(jobs[c].copy, jobs[c].patch)[f] = jobs[c].copy[f]
    BY <1>7, <2>1 DEF Merge
  <2> QED
    BY <1>6, <2>1, <2>2
<1> QED
  BY <1>4, <1>5, <1>7

\* checkout.go patchOrder, subscriptions.go patchSubscription: for any callers
\* and any items, a field that a request was not asked to change changes only
\* if another request wrote the item between its fetch and its write.
THEOREM PatchesStayWithin == Spec => OnlyPatchedFieldsChange
<1>1. BillingInv /\ [Next]_vars =>
        [\A i \in Items : Exists(i) /\ rows'[i] # rows[i] =>
            \E c \in Callers :
                /\ At(c, "write") /\ jobs[c].item = i
                /\ \A f \in DOMAIN rows[i].data :
                      rows'[i].data[f] # rows[i].data[f] =>
                          f \in DOMAIN jobs[c].patch \/ jobs[c].stale]_vars
  BY PatchesChangeTheirFields
<1> QED
  BY <1>1, BillingHolds, PTL DEF Spec, OnlyPatchedFieldsChange

-----------------------------------------------------------------------------
\* What is acknowledged.

LEMMA EmitAnswers == \A event : EmitResults(event) \subseteq BOOLEAN
BY DEF EmitResults

LEMMA NextAnnounced ==
    ASSUME BillingInv, AcknowledgedIsAnnounced, Next PROVE AcknowledgedIsAnnounced'
<1>1. ASSUME UNCHANGED <<emitted, acked>> PROVE AcknowledgedIsAnnounced'
  BY <1>1 DEF AcknowledgedIsAnnounced
<1>2. ASSUME NEW c \in Callers, Emit(c) PROVE AcknowledgedIsAnnounced'
  <2>1. Shape(jobs[c])
    BY <1>2 DEF Emit, At, BillingInv, Shaped
  <2>2. PICK ok \in EmitResults(jobs[c].event) :
            /\ emitted' = emitted \cup {[event |-> jobs[c].event, item |-> jobs[c].item, ok |-> ok]}
            /\ IF ok THEN Acknowledge(jobs[c]) ELSE UNCHANGED acked
    BY <1>2 DEF Emit
  <2>3. emitted \subseteq emitted' /\ ok \in BOOLEAN
    BY <2>2, EmitAnswers
  <2>4. ASSUME NEW a \in acked', a \notin acked
        PROVE [event |-> EventOf(a[2]), item |-> a[1], ok |-> TRUE] \in emitted'
    <3>1. ok = TRUE
      BY <2>2, <2>3, <2>4
    <3>2. jobs[c].callback = TRUE /\ a = <<jobs[c].item, jobs[c].patch.status>>
      BY <2>1, <2>2, <2>4, <3>1 DEF Acknowledge, Shape
    <3>3. jobs[c].event = EventOf(a[2]) /\ jobs[c].item = a[1]
      BY <2>1, <3>2 DEF Shape
    <3> QED
      BY <2>2, <3>1, <3>3
  <2> QED
    BY <2>3, <2>4 DEF AcknowledgedIsAnnounced
<1>3. ASSUME NEW c \in Callers, NEW o \in Orders,
             \/ CreateOrder(c, o) \/ StartCheckout(c, o)
             \/ \E status \in {"paid", "refunded"} : HandleWebhook(c, o, status)
      PROVE UNCHANGED <<emitted, acked>>
  BY <1>3 DEF CreateOrder, StartCheckout, HandleWebhook
<1>4. ASSUME NEW c \in Callers, NEW s \in Subs,
             Subscribe(c, s) \/ CancelSubscription(c, s) \/ ProcessRenewal(c, s)
      PROVE UNCHANGED <<emitted, acked>>
  BY <1>4 DEF Subscribe, CancelSubscription, ProcessRenewal
<1>5. ASSUME NEW c \in Callers,
             Charge(c) \/ Get(c) \/ ReadVersion(c) \/ Write(c) \/ Snapshot(c) \/ Fail(c)
      PROVE UNCHANGED <<emitted, acked>>
  BY <1>5 DEF Charge, Get, ReadVersion, Write, Snapshot, Fail
<1>6. ASSUME (\E o \in Orders : Pay(o)) \/ Tick PROVE UNCHANGED <<emitted, acked>>
  BY <1>6 DEF Pay, Tick
<1> QED
  BY <1>1, <1>2, <1>3, <1>4, <1>5, <1>6 DEF Next

\* webhook.go HandleWebhook: for any callers and any listeners, a callback is
\* acknowledged only after its event reached every subscriber without an error.
THEOREM AnnouncedFirst == Spec => []AcknowledgedIsAnnounced
<1>1. Init => AcknowledgedIsAnnounced
  BY DEF Init, AcknowledgedIsAnnounced
<1>2. BillingInv /\ AcknowledgedIsAnnounced /\ [Next]_vars => AcknowledgedIsAnnounced'
  <2>1. CASE UNCHANGED vars
    BY <2>1 DEF AcknowledgedIsAnnounced, vars
  <2> QED
    BY <2>1, NextAnnounced
<1> QED
  BY <1>1, <1>2, BillingHolds, PTL DEF Spec
=============================================================================
