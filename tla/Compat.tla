------------------------------- MODULE Compat -------------------------------
(***************************************************************************)
(* Layouts, composition presets and composition bundles: the structural    *)
(* checks of pkg/contract, the check against the block registry of         *)
(* pkg/blocks, and the compatibility contract of pkg/compat.               *)
(*                                                                         *)
(* A region is the set of block types of its whole tree (WalkBlocks visits *)
(* every block, nested ones included); BadBlock is the empty type, for any *)
(* block that validateBlock refuses.  A theme is the set of regions it     *)
(* declares, or NoTheme when it declares no restriction.                   *)
(***************************************************************************)
EXTENDS FiniteSets

CONSTANTS Idents,      \* region names that validIdent accepts
          BlockTypes,  \* names a block may be registered under
          BadBlock,    \* a block that validateBlock refuses
          NoTheme

ASSUME CompatAssumption == BadBlock \notin BlockTypes

LayoutV1 == "layout-composition/v1"
PresetV1 == "composition-preset/v1"
BundleV1 == "composition-bundle/v1"

\* contract.Layout: its version and, by region, the block types in it.
LayoutOn(regions) == [version |-> LayoutV1, regions |-> regions]
EmptyLayout == LayoutOn(<<>>)

\* The layouts a route may hold.
Layouts == [version : {LayoutV1},
            regions : UNION {[names -> SUBSET BlockTypes] : names \in SUBSET Idents}]

Used(l) == UNION {l.regions[n] : n \in DOMAIN l.regions}

-----------------------------------------------------------------------------
\* Structural checks.

\* Layout.Validate and validateBlock.
LayoutValid(l) ==
    /\ l.version = LayoutV1
    /\ DOMAIN l.regions \subseteq Idents
    /\ BadBlock \notin Used(l)

\* What a preset and a bundle have in common: name and required contract.
HeaderValid(a, version) == a.version = version /\ a.named /\ a.requires # ""

\* CompositionPreset.Validate.
PresetValid(p) == HeaderValid(p, PresetV1) /\ LayoutValid(p.layout)

\* CompositionBundle.Validate: every page, nested preset and sample item.
\* The route keys of the pages are not looked at.
BundleValid(b) ==
    /\ HeaderValid(b, BundleV1)
    /\ \A r \in DOMAIN b.pages : LayoutValid(b.pages[r])
    /\ \A p \in b.presets : PresetValid(p)
    /\ \A i \in DOMAIN b.samples : b.samples[i] # ""

ArtifactValid(a) == IF a.kind = "preset" THEN PresetValid(a) ELSE BundleValid(a)

\* blocks.ValidateLayout.
Registered(l, registry) == Used(l) \subseteq registry

\* layout.ValidateDraft: structure first, then the registry.
DraftValid(l, registry) == LayoutValid(l) /\ Registered(l, registry)

-----------------------------------------------------------------------------
\* The compatibility contract.  A result says what is missing.

MissingSlots(slots, theme) == IF theme = NoTheme THEN {} ELSE slots \ theme

\* check: the version is reported as a string, so an empty one is no report.
Check(requires, blocks, slots, registry, theme) ==
    [blocks |-> blocks \ registry,
     slots |-> MissingSlots(slots, theme),
     unsupported |-> {requires} \ {LayoutV1, ""}]

Compatible(result) ==
    result.blocks = {} /\ result.slots = {} /\ result.unsupported = {}

\* What an artifact assumes: what its manifest declares and its trees use.
UsedTypes(layouts) == (UNION {Used(l) : l \in layouts}) \ {BadBlock}
UsedRegions(layouts) == UNION {DOMAIN l.regions : l \in layouts}

\* Faulty check: the manifest is believed, the trees are not walked.
CheckDeclared(a, layouts, registry, theme) ==
    Check(a.requires, a.blocks, a.slots, registry, theme)

CheckAgainst(a, layouts, registry, theme) ==
    Check(a.requires, a.blocks \cup UsedTypes(layouts),
          a.slots \cup UsedRegions(layouts), registry, theme)

CheckPreset(p, registry, theme) == CheckAgainst(p, {p.layout}, registry, theme)

PageLayouts(b) == {b.pages[r] : r \in DOMAIN b.pages}

\* mergeResults: the union of what is missing, and one unsupported contract,
\* the bundle's own before a preset's.
MergeResults(own, nested) ==
    LET foreign == UNION {x.unsupported : x \in nested}
    IN  [blocks |-> own.blocks \cup UNION {x.blocks : x \in nested},
         slots |-> own.slots \cup UNION {x.slots : x \in nested},
         unsupported |-> IF own.unsupported # {} \/ foreign = {} THEN own.unsupported
                         ELSE {CHOOSE v \in foreign : TRUE}]

CheckBundle(b, registry, theme) ==
    MergeResults(CheckAgainst(b, PageLayouts(b), registry, theme),
                 {CheckPreset(p, registry, theme) : p \in b.presets})

CheckArtifact(a, registry, theme) ==
    IF a.kind = "preset" THEN CheckPreset(a, registry, theme)
    ELSE CheckBundle(a, registry, theme)

-----------------------------------------------------------------------------
\* Merging.

\* Faulty merge: the page replaces the layout, its other regions are gone.
Replacement(page, target) == LayoutOn(page.regions)

\* The merge both Imports do: a region the page brings replaces the region of
\* the same name, every other region stays.
Overlay(page, target) ==
    [target EXCEPT !.regions =
        [n \in DOMAIN target.regions \cup DOMAIN page.regions |->
            IF n \in DOMAIN page.regions THEN page.regions[n]
            ELSE target.regions[n]]]
=============================================================================
