---------------------------- MODULE PluginSystem ----------------------------
(***************************************************************************)
(* The plugins of a provisioned daemon: buildFullHandler's load pass over  *)
(* the configured plugins (internal/plugin/loader.go), the activation of   *)
(* the first-party ones (registrar.go), the plugin list the administrator  *)
(* decides from (internal/api/consent.go), and the event bus they share    *)
(* (pkg/sdk/host.go).  The database may be shared with another daemon, so  *)
(* a decision may be recorded at any time.                                 *)
(***************************************************************************)
EXTENDS PluginConsent

CONSTANTS Configs,      \* the plugin lists an operator writes: sequences of
                        \* records [name, tier, manifest, needsEmit]
          FirstParty,   \* the manifests compiled in, in registration order
          Wants,        \* Wants[n]: the events the first-party plugin n handles
          Sensitive,    \* Sensitive[e]: the (capability, scope) pairs one of
                        \* which a subscriber needs, for a sensitive event e
          NoJob, Idle,  \* no plugin is being loaded; no event is delivered
          MaxDecisions, MaxBoots, MaxEmits    \* bounds of the model

Events == UNION {Wants[n] : n \in DOMAIN Wants}
Names == {FirstParty[i].name : i \in DOMAIN FirstParty}

\* An emit under way: its event, the handlers copied for it and how many they
\* were, those that have run, and whether one failed.
Deliveries == [event : Events, left : Seq(Names), from : Nat, ran : Seq(Names),
               failed : BOOLEAN]

ASSUME SystemAssumption ==
    /\ FirstParty \in Seq(Manifests)
    /\ \A c \in Configs : c \in Seq(Range(c)) /\ \A i \in DOMAIN c : c[i].manifest \in Manifests
    /\ Idle \notin Deliveries
    /\ {MaxDecisions, MaxBoots, MaxEmits} \subseteq Nat

VARIABLES decisions,    \* the table consent_decisions
          phase,        \* "down", "loading", "activating" or "serving"
          config,       \* the configured plugins of this boot
          at,           \* the index of the one being loaded
          job,          \* how far its load is and the grant it read, or NoJob
          registered,   \* Loader.loaded behind the first-party plugins
          hosts,        \* Loader.hosts: name to the filtered grant
          bound,        \* the sandboxed plugins whose emit_event is present
          refused,      \* Loader.refused
          subscribers,  \* the bus: event to its subscribers' names, in order
          delivery,     \* the emit under way, or Idle
          basis,        \* auxiliary: name to what its load read, and when
          bootedAt,     \* auxiliary: length of the table when the daemon started
          boots, emits  \* auxiliary: counters for the bounds

daemon == <<phase, config, at, job, registered, hosts, bound, refused>>
bus == <<subscribers, delivery, emits>>
systemVars == <<decisions, daemon, bus, basis, bootedAt, boots>>

Entry == config[at]
NoSubscribers == [e \in Events |-> <<>>]

SystemInit ==
    /\ decisions = <<>>
    /\ phase = "down"
    /\ config = <<>> /\ at = 1 /\ job = NoJob
    /\ registered = <<>>
    /\ hosts = <<>> /\ basis = <<>>
    /\ bound = {} /\ refused = {}
    /\ subscribers = NoSubscribers /\ delivery = Idle
    /\ bootedAt = 0 /\ boots = 0 /\ emits = 0

-----------------------------------------------------------------------------
\* Loading.

\* Load's first pass: a configuration it rejects fails the boot before
\* anything is loaded.
Acceptable(c) ==
    \A i \in DOMAIN c :
        /\ c[i].tier \in {"b", "c"}
        /\ \A j \in DOMAIN c : c[j].name = c[i].name => j = i
        /\ c[i].name \notin Names

Boot(c) ==
    /\ phase = "down" /\ boots < MaxBoots
    /\ Acceptable(c)
    /\ phase' = "loading" /\ config' = c /\ at' = 1 /\ job' = NoJob
    /\ registered' = FirstParty
    /\ boots' = boots + 1 /\ bootedAt' = Len(decisions)
    /\ UNCHANGED <<decisions, hosts, bound, refused, bus, basis>>

Loading(stage) ==
    /\ phase = "loading" /\ at <= Len(config)
    /\ IF job = NoJob THEN stage = "check" ELSE stage = job.stage

Goto(stage) == job' = [job EXCEPT !.stage = stage]

\* consentFor with a live decision: its grant is what the rest of the load
\* works with.
Check ==
    /\ Loading("check")
    /\ Live(decisions, Entry.manifest)
    /\ job' = [stage |-> "build",
               granted |-> decisions[Latest(decisions, Entry.manifest)].granted,
               read |-> Latest(decisions, Entry.manifest),
               length |-> Len(decisions)]
    /\ UNCHANGED <<decisions, phase, config, at, registered, hosts, bound,
                   refused, bus, basis, bootedAt, boots>>

Advance == at' = at + 1 /\ job' = NoJob

\* consentFor without one, or with a query that fails: refused, and the load
\* goes on with the next plugin.
Refuse ==
    /\ Loading("check")
    /\ refused' = refused \cup {Entry.name}
    /\ Advance
    /\ UNCHANGED <<decisions, phase, config, registered, hosts, bound, bus,
                   basis, bootedAt, boots>>

\* The name check and NewHostAPI over the filtered manifest.
BuildHost ==
    /\ Loading("build")
    /\ Entry.manifest.name = Entry.name
    /\ Entry.manifest.supported
    /\ WellFormed(Filter(job.granted, Entry.manifest.asks))
    /\ Goto(IF Entry.tier = "b" THEN "record" ELSE "launch")
    /\ UNCHANGED <<decisions, phase, config, at, registered, hosts, bound,
                   refused, bus, basis, bootedAt, boots>>

\* The record of a sandboxed plugin, made before the adapter takes its
\* snapshot of the manifests.
Record ==
    /\ Loading("record")
    /\ registered' = Append(registered, Entry.manifest)
    /\ Goto("instantiate")
    /\ UNCHANGED <<decisions, phase, config, at, hosts, bound, refused, bus,
                   basis, bootedAt, boots>>

Put(map, key, value) ==
    [k \in DOMAIN map \cup {key} |-> IF k = key THEN value ELSE map[k]]

Loaded ==
    /\ hosts' = Put(hosts, Entry.name, Filter(job.granted, Entry.manifest.asks))
    /\ basis' = Put(basis, Entry.name, [read |-> job.read, length |-> job.length,
                                       bound |-> Len(decisions)])
    /\ Advance

\* The adapter resolves a name to the last registered manifest of that name.
Resolved(name) ==
    registered[SelectLastInSeq(registered, LAMBDA m : m.name = name)]

\* Faulty presence: the decision is not looked at again.
EmitGranted == HasScope(Filter(job.granted, Entry.manifest.asks), "events", "emit")

EmitPresent ==
    /\ HasScope(Filter(job.granted, Entry.manifest.asks), "events", "emit")
    /\ Consented(decisions, Resolved(Entry.manifest.name), "events")

\* buildHostModule asks again, then the guest must find what it imports.
Instantiate ==
    /\ Loading("instantiate")
    /\ Entry.needsEmit => EmitPresent
    /\ bound' = IF EmitPresent THEN bound \cup {Entry.name} ELSE bound
    /\ Loaded
    /\ UNCHANGED <<decisions, phase, config, registered, refused, bus,
                   bootedAt, boots>>

\* The supervised subprocess started (RpcBroker models Launch).
Launch ==
    /\ Loading("launch")
    /\ registered' = Append(registered, Entry.manifest)
    /\ Loaded
    /\ UNCHANGED <<decisions, phase, config, bound, refused, bus, bootedAt, boots>>

\* The process ends: at any time, or because a load, a launch or the
\* activation failed and Load's error ends the boot.
Down ==
    /\ phase' = "down" /\ config' = <<>> /\ at' = 1 /\ job' = NoJob
    /\ registered' = <<>> /\ hosts' = <<>> /\ basis' = <<>>
    /\ bound' = {} /\ refused' = {}
    /\ subscribers' = NoSubscribers /\ delivery' = Idle
    /\ UNCHANGED <<decisions, bootedAt, boots, emits>>

Stop == phase # "down" /\ Down

LoadDone ==
    /\ phase = "loading" /\ at > Len(config)
    /\ phase' = "activating" /\ at' = 1
    /\ UNCHANGED <<decisions, config, job, registered, hosts, bound, refused,
                   bus, basis, bootedAt, boots>>

-----------------------------------------------------------------------------
\* Activation and the bus.

\* On: the baseline scope, and for a sensitive event its capability.
MaySubscribe(g, event) ==
    /\ HasScope(g, "events", "subscribe")
    /\ event \in DOMAIN Sensitive =>
          \E rule \in Sensitive[event] : HasScope(g, rule[1], rule[2])

\* Activate: the next first-party plugin gets a host over all it asks for,
\* whatever was decided about it, and its Register subscribes.
Activate ==
    /\ phase = "activating" /\ at <= Len(FirstParty)
    /\ LET m == FirstParty[at]
       IN  /\ \A e \in Wants[m.name] : MaySubscribe(m.asks, e)
           /\ subscribers' = [e \in Events |->
                  IF e \in Wants[m.name] THEN Append(subscribers[e], m.name)
                  ELSE subscribers[e]]
    /\ at' = at + 1
    /\ UNCHANGED <<decisions, phase, config, job, registered, hosts, bound,
                   refused, delivery, emits, basis, bootedAt, boots>>

Serve ==
    /\ phase = "activating" /\ at > Len(FirstParty)
    /\ phase' = "serving"
    /\ UNCHANGED <<decisions, config, at, job, registered, hosts, bound,
                   refused, bus, basis, bootedAt, boots>>

TierOf(n) == LET i == CHOOSE i \in DOMAIN config : config[i].name = n
             IN  config[i].tier

\* A loaded plugin emits: the scope is its host's, and in the sandbox the
\* function must be there.  The handlers are copied under the lock.
Emit(n, event) ==
    /\ delivery = Idle /\ emits < MaxEmits
    /\ n \in DOMAIN hosts /\ HasScope(hosts[n], "events", "emit")
    /\ TierOf(n) = "b" => n \in bound
    /\ delivery' = [event |-> event, left |-> subscribers[event],
                    from |-> Len(subscribers[event]), ran |-> <<>>, failed |-> FALSE]
    /\ emits' = emits + 1
    /\ UNCHANGED <<decisions, daemon, subscribers, basis, bootedAt, boots>>

\* Faulty delivery: an error ends the dispatch.
RunUntilError ==
    /\ delivery # Idle /\ delivery.left # <<>>
    /\ \E err \in BOOLEAN :
        delivery' = [delivery EXCEPT !.left = IF err THEN <<>> ELSE Tail(@),
                                     !.ran = Append(@, Head(delivery.left)),
                                     !.failed = @ \/ err]
    /\ UNCHANGED <<decisions, daemon, subscribers, emits, basis, bootedAt, boots>>

\* The next handler runs, outside the lock; its error is kept for the emitter.
RunHandler ==
    /\ delivery # Idle /\ delivery.left # <<>>
    /\ \E err \in BOOLEAN :
        delivery' = [delivery EXCEPT !.left = Tail(@),
                                     !.ran = Append(@, Head(delivery.left)),
                                     !.failed = @ \/ err]
    /\ UNCHANGED <<decisions, daemon, subscribers, emits, basis, bootedAt, boots>>

Delivered ==
    /\ delivery # Idle /\ delivery.left = <<>>
    /\ delivery' = Idle
    /\ UNCHANGED <<decisions, daemon, subscribers, emits, basis, bootedAt, boots>>

-----------------------------------------------------------------------------
\* Decisions.

\* Engine.Decide: the grant is within the request, or nothing is recorded.
Decide(m, g) ==
    /\ Len(decisions) < MaxDecisions
    /\ Covered(g, m.asks)
    /\ decisions' = Append(decisions, DecisionOn(m, g))
    /\ UNCHANGED <<daemon, bus, basis, bootedAt, boots>>

\* POST .../{plugin}/decide: the manifest is the served one of that name.
DecideOverAPI(m, outcome, offer) ==
    /\ phase = "serving"
    /\ m \in Range(registered)
    /\ \E g \in Submitted(outcome, offer, m.asks) : Decide(m, g)

\* Another user of the engine and the table: a daemon that serves m, or a
\* tool that decides before the first boot, as the daemon's tests do.
DecideElsewhere(m, offer) == Decide(m, offer)

-----------------------------------------------------------------------------
SystemNext ==
    \/ \E c \in Configs : Boot(c)
    \/ Check \/ Refuse \/ BuildHost \/ Record \/ Instantiate \/ Launch
    \/ LoadDone \/ Activate \/ Serve \/ Stop
    \/ \E n \in DOMAIN hosts, e \in Events : Emit(n, e)
    \/ RunHandler \/ Delivered
    \/ \E m \in Manifests, o \in {"approved", "partial", "denied"}, g \in Offers :
            DecideOverAPI(m, o, g)
    \/ \E m \in Manifests, g \in Offers : DecideElsewhere(m, g)

SystemSpec == SystemInit /\ [][SystemNext]_systemVars

-----------------------------------------------------------------------------
\* Properties.

\* Decision r is the newest about exactly m among the first n.
Newest(m, r, n) ==
    LET About(k) == <<decisions[k].name, decisions[k].version, decisions[k].asks>>
                       = <<m.name, m.version, m.asks>>
    IN  r \in 1 .. n /\ About(r) /\ \A k \in r + 1 .. n : ~About(k)

\* What a loaded plugin may do rests on the newest decision about exactly the
\* manifest it is configured with, made no earlier than the state of the table
\* at this boot, and lies within what that decision granted and what the
\* manifest asks: no answer about another version or shape, and none that a
\* denial before the boot had replaced (loader.go loadWasm, loadRPC; consent.go
\* IsConsented).
HostsRestOnDecisions ==
    \A i \in DOMAIN config :
        config[i].name \in DOMAIN hosts =>
            LET h == hosts[config[i].name]
                b == basis[config[i].name]
                m == config[i].manifest
            IN  /\ m.name = config[i].name
                /\ b.length >= bootedAt
                /\ Newest(m, b.read, b.length)
                /\ decisions[b.read].status # "denied"
                /\ \A c \in DOMAIN h.api :
                      h.api[c] \subseteq m.asks.api[c] \cap decisions[b.read].granted.api[c]
                /\ \A p \in DOMAIN h.perm :
                      h.perm[p] \subseteq m.asks.perm[p] \cap decisions[b.read].granted.perm[p]

\* A sandboxed plugin has emit_event only if events were still granted to its
\* own manifest when it was instantiated, however the decision had changed
\* since the load began (hostfuncs.go buildHostModule, consent_adapter.go).
EmitWasStillConsented ==
    \A i \in DOMAIN config :
        config[i].name \in bound =>
            LET n == basis[config[i].name].bound
            IN  \E r \in 1 .. n :
                    /\ Newest(config[i].manifest, r, n)
                    /\ "events" \in DOMAIN decisions[r].granted.api
                    /\ decisions[r].granted.api["events"] # {}

\* An emit reaches, in order and once each, every handler subscribed when it
\* began and no other, whatever fails or subscribes in between (host.go
\* EventBus.emit).
EveryHandlerRuns ==
    [][delivery # Idle /\ delivery' = Idle /\ phase' # "down"
         => delivery.ran = SubSeq(subscribers[delivery.event], 1, delivery.from)]_systemVars
=============================================================================
