--------------------------- MODULE MCPluginSystem ---------------------------
\* Values for the constants of PluginSystem: two first-party plugins that handle
\* an event, one of them a sensitive one, a sandboxed one in two shapes of one
\* version and a subprocess; configurations with each, with both, with a
\* duplicate and with a manifest under another name.
EXTENDS PluginSystem

NotifyManifest == [name |-> "notify", version |-> 1, supported |-> TRUE,
    asks |-> [api |-> [events |-> {"subscribe"}, users |-> {"read"}], perm |-> <<>>]]
AlertManifest == [NotifyManifest EXCEPT !.name = "alert"]
SmallAsks == [api |-> [events |-> {"emit"}], perm |-> [network |-> {"a", "b"}]]
LargeAsks == [api |-> [events |-> {"emit"}, content |-> {"read"}],
              perm |-> [network |-> {"a", "b"}]]
GuestManifest == [name |-> "guest", version |-> 1, supported |-> TRUE, asks |-> SmallAsks]
GrownManifest == [GuestManifest EXCEPT !.asks = LargeAsks]
PeerManifest == [name |-> "peer", version |-> 1, supported |-> TRUE,
    asks |-> [api |-> [events |-> {"emit"}], perm |-> <<>>]]

MCManifests == {NotifyManifest, AlertManifest, GuestManifest, GrownManifest, PeerManifest}
MCFirstParty == <<NotifyManifest, AlertManifest>>
MCWants == [notify |-> {"user.created", "tick"}, alert |-> {"tick"}]
MCSensitive == [e \in {"user.created"} |-> {<<"users", "read">>}]

Guest(m, needs) == [name |-> "guest", tier |-> "b", manifest |-> m, needsEmit |-> needs]
Peer == [name |-> "peer", tier |-> "c", manifest |-> PeerManifest, needsEmit |-> FALSE]
MCConfigs == {<<Peer, Guest(GuestManifest, FALSE)>>,
              <<Guest(GrownManifest, TRUE)>>,
              <<Guest(GuestManifest, FALSE), Guest(GrownManifest, FALSE)>>,
              <<[Peer EXCEPT !.manifest = GuestManifest]>>}

MCOffers == {Nothing, SmallAsks, [SmallAsks EXCEPT !.perm.network = {"a"}],
             [api |-> [events |-> {"emit"}], perm |-> <<>>],
             [api |-> [events |-> {}], perm |-> [network |-> {"a"}]]}
=============================================================================
