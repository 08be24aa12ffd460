--------------------------- MODULE PluginConsent ---------------------------
(***************************************************************************)
(* What an administrator decides about a plugin: internal/consent's engine *)
(* over its append-only table, the rules of the decide endpoint            *)
(* (internal/api/consent.go) and what pkg/sdk's filter leaves of a         *)
(* manifest.  A grant has two axes; each is a function from the names it   *)
(* lists to the scopes or arguments it lists under them.  A manifest's     *)
(* name, version and the two axes it asks for are the key of a decision.   *)
(***************************************************************************)
EXTENDS Naturals, FiniteSets, SequencesExt

CONSTANTS Manifests,   \* records [name, version, asks, supported]
          Offers       \* the grants administrators submit

Nothing == [api |-> <<>>, perm |-> <<>>]
Pairs(axis) == UNION {{n} \X axis[n] : n \in DOMAIN axis}

\* Manifest.Validate: a listed capability names a scope, a listed network
\* permission names a host; no other permission takes an argument.
WellFormed(g) ==
    /\ \A c \in DOMAIN g.api : g.api[c] # {}
    /\ \A p \in DOMAIN g.perm : (g.perm[p] # {}) <=> (p = "network")

ASSUME ConsentAssumption ==
    \A m \in Manifests : m.supported \in BOOLEAN /\ WellFormed(m.asks)

-----------------------------------------------------------------------------
\* The engine.

\* Faulty key: the axes are left out, so a changed manifest finds old answers.
KeyWithoutAxes(x) == <<x.name, x.version>>

\* What a decision and a manifest must agree on: name, version and the
\* fingerprint of the two axes.
Key(x) == <<x.name, x.version, x.asks>>

\* validateAPISubset and validatePermissionSubset, for either axis.
Within(axis, asked) ==
    /\ DOMAIN axis \subseteq DOMAIN asked
    /\ \A n \in DOMAIN axis : axis[n] \subseteq asked[n]

Covered(g, asks) == Within(g.api, asks.api) /\ Within(g.perm, asks.perm)

\* statusFor compares numbers: the scopes of the capabilities, and the names
\* of the permissions.
StatusFor(g, asks) ==
    IF g = Nothing THEN "denied"
    ELSE IF /\ Cardinality(Pairs(g.api)) = Cardinality(Pairs(asks.api))
            /\ Cardinality(DOMAIN g.perm) = Cardinality(DOMAIN asks.perm)
         THEN "approved" ELSE "partial"

DecisionOn(m, g) == [name |-> m.name, version |-> m.version, asks |-> m.asks,
                     status |-> StatusFor(g, m.asks), granted |-> g]

\* The last decision with m's key in the log, 0 if there is none.
Latest(log, m) == SelectLastInSeq(log, LAMBDA d : Key(d) = Key(m))

Live(log, m) == Latest(log, m) # 0 /\ log[Latest(log, m)].status # "denied"

\* IsConsented and ConsentAdapter.Consented: a live decision grants some
\* scope of the capability.
Consented(log, m, capability) ==
    /\ Live(log, m)
    /\ LET given == log[Latest(log, m)].granted.api
       IN  capability \in DOMAIN given /\ given[capability] # {}

\* The grants the decide endpoint passes to the engine for one of its three
\* outcomes; none if it answers 422.  An approval compares the submitted
\* grant only if it lists a capability, and records the whole request.
Submitted(outcome, g, asks) ==
    CASE outcome = "denied"   -> {Nothing} \cap {g}
      [] outcome = "approved" ->
            IF g.api # <<>> /\ g # asks THEN {} ELSE {asks}
      [] outcome = "partial"  -> {g} \ {Nothing}

-----------------------------------------------------------------------------
\* FilterManifest: a declared name stays with what was granted under it, but
\* a grant of no scope, or of the network to no host, leaves nothing.
Filter(g, asks) ==
    [api  |-> [c \in {c \in DOMAIN asks.api \cap DOMAIN g.api : g.api[c] # {}}
                 |-> g.api[c]],
     perm |-> [p \in {p \in DOMAIN asks.perm \cap DOMAIN g.perm :
                        p = "network" => g.perm[p] # {}} |-> g.perm[p]]]

HasScope(g, capability, scope) ==
    capability \in DOMAIN g.api /\ scope \in g.api[capability]
=============================================================================
