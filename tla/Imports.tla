------------------------------ MODULE Imports ------------------------------
(***************************************************************************)
(* The composition side of the library: internal/layout's store of one     *)
(* document per route, internal/preset and internal/bundle with their      *)
(* imports, the marketplace's installs, and its table of entitlement       *)
(* tokens.                                                                 *)
(*                                                                         *)
(* A statement is one action and may fail, with or without its effect.  An *)
(* import reads a target and writes it back in two statements, one route   *)
(* after the other, while other requests write the same routes.  The block *)
(* registry is filled at boot and does not change until the next one: a    *)
(* restart ends every request and may come up with fewer plugins, hence    *)
(* fewer blocks.  Every request here is an administrator's: any other role *)
(* is turned away by the route and again by the store, and changes nothing.*)
(***************************************************************************)
EXTENDS Compat, Packages

CONSTANTS Clients,
          RouteOrder,   \* the routes in sorted order, invalid ones included
          ValidRoutes,  \* those validRoute accepts
          FirstParty,   \* blocks the daemon itself registers
          Drafts,       \* layouts that are put to a route
          Authored,     \* presets and bundles that are saved
          Themes,       \* theme restrictions that imports name
          Catalog,      \* entries [id, kind, package]
          Tokens,       \* entitlement tokens that are registered
          AllKeys,      \* keys a daemon may be configured to trust
          Kernel,       \* the kernel's version
          NoLayout, NoJob,
          MaxArtifacts, MaxTokens, MaxTime

Routes == ToSet(RouteOrder)

ASSUME ImportsAssumption ==
    /\ ValidRoutes \subseteq Routes /\ FirstParty \subseteq BlockTypes
    /\ MaxArtifacts \in Nat /\ MaxTokens \in Nat /\ MaxTime \in Nat
    /\ RouteOrder \in Seq(Routes) /\ NoLayout \notin Layouts
    /\ \A l \in Drafts : l = LayoutOn([n \in DOMAIN l.regions |-> l.regions[n]])
    /\ Tokens \subseteq [signer : AllKeys, genuine : BOOLEAN, utc : BOOLEAN,
                          notBefore : Nat, notAfter : Nat]

VARIABLES registry,  \* the registered block types
          layouts,   \* route -> the stored layout
          artifacts, \* the stored presets and bundles, by id
          job,       \* client -> the import it runs
          tokens,    \* the rows of marketplace_entitlements, oldest first
          keys,      \* the trusted keys of this boot
          now,       \* the clock
          made       \* what each import merged and created (history)

importVars == <<registry, layouts, artifacts, job, tokens, keys, now, made>>

NothingMade == [merged |-> {}, created |-> 0, held |-> {}]

ImportsInit ==
    /\ registry \in {s \in SUBSET BlockTypes : FirstParty \subseteq s}
    /\ keys \in SUBSET AllKeys
    /\ layouts = [r \in Routes |-> NoLayout]
    /\ artifacts = <<>> /\ tokens = <<>> /\ now = 0
    /\ job = [c \in Clients |-> NoJob]
    /\ made = [c \in Clients |-> NothingMade]

-----------------------------------------------------------------------------
\* Layouts.

\* handleLayoutPut, Store.Save: the whole document replaces the route's; what
\* imports merged there before is no longer theirs.
PutLayout(r, l) ==
    /\ r \in ValidRoutes
    /\ DraftValid(l, registry)
    /\ layouts' = [layouts EXCEPT ![r] = l]
    /\ made' = [c \in Clients |-> [made[c] EXCEPT !.held = @ \ {r}]]
    /\ UNCHANGED <<registry, artifacts, job, tokens, keys, now>>

\* What a route without a layout is merged onto.
TargetAt(r) == IF layouts[r] = NoLayout THEN EmptyLayout ELSE layouts[r]

\* handleLayoutPreview: the draft that is rendered, NoLayout for a refused one.
Preview(l) == IF DraftValid(l, registry) THEN l ELSE NoLayout

\* handleAICompose: the preview of route r with the fragment the model answered;
\* nothing is stored.
Compose(fragment, r, theme) ==
    IF PresetValid(fragment) /\ Compatible(CheckPreset(fragment, registry, theme))
    THEN Preview(Overlay(fragment.layout, TargetAt(r))) ELSE NoLayout

-----------------------------------------------------------------------------
\* Presets and bundles.

\* insert: a row under a new id.
Inserted(a) ==
    /\ Len(artifacts) < MaxArtifacts
    /\ artifacts' = Append(artifacts, a)
    /\ UNCHANGED <<registry, layouts, job, tokens, keys, now, made>>

\* What Save asks of an artifact authored here; no theme is asked.
Accepted(a) ==
    ArtifactValid(a) /\ Compatible(CheckArtifact(a, registry, NoTheme))

\* preset.Store.Save, bundle.Store.Save.
SaveArtifact(a) == Accepted(a) /\ Inserted(a)

\* handleMarketplaceInstall and the two InstallFromPackage: the catalog's kind
\* chooses the store, the manifest's kind the payload file.  A document of the
\* other kind decodes to one without its version and fails its validation.
Installs(e) ==
    /\ e.package # NoContainer
    /\ Decodes(e.package, keys)
    /\ e.kind \in {"preset", "bundle"}
    /\ CoreSatisfied(e.package.manifest.requires, Kernel)
    /\ HasArtifact(e.package)
    /\ Artifact(e.package).kind = e.kind
    /\ ArtifactValid(Artifact(e.package))

Install(e) ==
    /\ e = Catalog[ById(Catalog, e.id)]
    /\ Installs(e)
    /\ Inserted(Artifact(e.package))

-----------------------------------------------------------------------------
\* Imports.  A preset is one page for the route the caller names; a bundle
\* brings its own routes, merged in sorted order.

Pages(a, route) ==
    IF a.kind = "preset" THEN [r \in {route} |-> a.layout] ELSE a.pages
Samples(a) == IF a.kind = "preset" THEN <<>> ELSE a.samples

\* sort.Strings over the routes of the pages: each once, in their order.
Before(r, s) ==
    \E i, j \in DOMAIN RouteOrder : i < j /\ RouteOrder[i] = r /\ RouteOrder[j] = s
Itineraries(a, route) ==
    LET routes == Routes \cap DOMAIN Pages(a, route)
    IN  {s \in [1 .. Cardinality(routes) -> routes] :
            \A i, j \in DOMAIN s : i < j => Before(s[i], s[j])}

Answered(c) == job' = [job EXCEPT ![c] = NoJob]
Turn(c) == job[c].todo[Len(job[c].merged) + 1]
PageOf(c, r) == Pages(artifacts[job[c].id], r)[r]

\* Import up to the verdict: an incompatible artifact merges nothing, and the
\* answer is the result.
BeginImport(c, id, route, theme) ==
    /\ job[c] = NoJob
    /\ id \in DOMAIN artifacts
    /\ Compatible(CheckArtifact(artifacts[id], registry, theme))
    /\ \E itinerary \in Itineraries(artifacts[id], route) :
          job' = [job EXCEPT ![c] =
                     [pc |-> "load", id |-> id, merged |-> <<>>, todo |-> itinerary,
                      target |-> NoLayout, refused |-> FALSE]]
    /\ made' = [made EXCEPT ![c] = NothingMade]
    /\ UNCHANGED <<registry, layouts, artifacts, tokens, keys, now>>

\* layoutStore.Load of the next route.
LoadTarget(c) ==
    /\ job[c] # NoJob /\ job[c].pc = "load"
    /\ Len(job[c].merged) < Len(job[c].todo)
    /\ job' = [job EXCEPT ![c].pc = "save", ![c].target = TargetAt(Turn(c))]
    /\ UNCHANGED <<registry, layouts, artifacts, tokens, keys, now, made>>

Merged(c) == Overlay(PageOf(c, Turn(c)), job[c].target)
Savable(c) == Turn(c) \in ValidRoutes /\ DraftValid(Merged(c), registry)

\* Faulty loop: a page that cannot be stored is left out, the next one tried.
SkipRefused(c) ==
    /\ ~ Savable(c)
    /\ job' = [job EXCEPT ![c].pc = "load", ![c].merged = Append(@, Turn(c))]
    /\ UNCHANGED <<layouts, made>>

\* The merged layout is refused: the import stops, and what it merged before
\* stays merged.
StopRefused(c) ==
    /\ ~ Savable(c)
    /\ job' = [job EXCEPT ![c].pc = "stopped", ![c].refused = TRUE]
    /\ UNCHANGED <<layouts, made>>

\* layoutStore.Save of the merged layout, which replaces the whole document.
\* The statement may commit although its answer is an error.
MergePage(c) ==
    /\ Savable(c)
    /\ layouts' = [layouts EXCEPT ![Turn(c)] = Merged(c)]
    /\ made' = [d \in Clients |->
                  IF d = c THEN [made[c] EXCEPT !.merged = @ \cup {Turn(c)},
                                                !.held = @ \cup {Turn(c)}]
                  ELSE [made[d] EXCEPT !.held = @ \ {Turn(c)}]]
    /\ \/ job' = [job EXCEPT ![c].pc = "load", ![c].merged = Append(@, Turn(c))]
       \/ job' = [job EXCEPT ![c].pc = "stopped"]

SavePage(c) ==
    /\ job[c] # NoJob /\ job[c].pc = "save"
    /\ StopRefused(c) \/ MergePage(c)
    /\ UNCHANGED <<registry, artifacts, tokens, keys, now>>

\* contentAPI.Create of the next sample item, after the last page: created, or
\* its error collected.
Seed(c) ==
    /\ job[c] # NoJob /\ job[c].pc \in {"load", "seed"}
    /\ Len(job[c].merged) = Len(job[c].todo)
    /\ made[c].created < Len(Samples(artifacts[job[c].id]))
    /\ job' = [job EXCEPT ![c].pc = "seed"]
    /\ made' = [made EXCEPT ![c].created = @ + 1]
    /\ UNCHANGED <<registry, layouts, artifacts, tokens, keys, now>>

\* A load or a save fails without effect.
FailImport(c) ==
    /\ job[c] # NoJob /\ job[c].pc \in {"load", "save"}
    /\ Len(job[c].merged) < Len(job[c].todo)
    /\ job' = [job EXCEPT ![c].pc = "stopped"]
    /\ UNCHANGED <<registry, layouts, artifacts, tokens, keys, now, made>>

Complete(c) ==
    /\ job[c] # NoJob
    /\ Len(job[c].merged) = Len(job[c].todo)
    /\ made[c].created = Len(Samples(artifacts[job[c].id]))

\* Store.Import returns: the result with the pages it reports as imported.  Its caller,
\* handleBundleImport, passes them on only without an error: an import that stopped for one
\* answers the error alone.
ReturnImport(c) ==
    /\ job[c] # NoJob
    /\ job[c].pc = "stopped" \/ Complete(c)
    /\ Answered(c)
    /\ UNCHANGED <<registry, layouts, artifacts, tokens, keys, now, made>>

-----------------------------------------------------------------------------
\* Entitlement tokens.

\* handleMarketplaceEntitlementsRegister: one row per registration, whatever
\* the window says.
RegisterToken(tok) ==
    /\ Len(tokens) < MaxTokens
    /\ Registrable(keys, tok, now)
    /\ tokens' = Append(tokens, [row |-> Stored(tok), was |-> tok])
    /\ UNCHANGED <<registry, layouts, artifacts, job, keys, now, made>>

\* handleMarketplaceEntitlementsList.
ListedStatus(i) == TokenStatus(keys, tokens[i].row, now)

Tick ==
    /\ now < MaxTime
    /\ now' = now + 1
    /\ UNCHANGED <<registry, layouts, artifacts, job, tokens, keys, made>>

-----------------------------------------------------------------------------
\* The daemon stops and boots with the plugins it finds and the keys it is
\* configured with.
ImportsRestart ==
    /\ registry' \in {s \in SUBSET BlockTypes : FirstParty \subseteq s}
    /\ keys' \in SUBSET AllKeys
    /\ job' = [c \in Clients |-> NoJob]
    /\ made' = [c \in Clients |-> NothingMade]
    /\ UNCHANGED <<layouts, artifacts, tokens, now>>
=============================================================================
