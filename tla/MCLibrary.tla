------------------------------ MODULE MCLibrary ------------------------------
(***************************************************************************)
(* A library for TLC: two valid routes and one that is not, a first-party  *)
(* block and a plugin's, documents that declare too little or the wrong    *)
(* things, intact and altered containers.                                  *)
(***************************************************************************)
EXTENDS Library

MCRouteOrder == <<"about", "about us", "home">>
MCValidRoutes == {"about", "home"}

Hero == [main |-> {"hero"}]
Tiers == [side |-> {"tiers"}]
Both == [main |-> {"hero", "tiers"}, side |-> {"hero"}]

MCDrafts == {LayoutOn(Both), LayoutOn([main |-> {BadBlock}]), LayoutOn([BAD |-> {"hero"}])}

Preset(regions, blocks) ==
    [kind |-> "preset", version |-> PresetV1, named |-> TRUE, requires |-> LayoutV1,
     blocks |-> blocks, slots |-> {}, layout |-> LayoutOn(regions)]
Bundle(pages, samples, presets) ==
    [kind |-> "bundle", version |-> BundleV1, named |-> TRUE, requires |-> LayoutV1,
     blocks |-> {"hero"}, slots |-> {}, pages |-> pages, samples |-> samples,
     presets |-> presets]

Side == Preset(Tiers, {})
Site == Bundle([home |-> LayoutOn(Tiers), about |-> LayoutOn(Hero)], <<"post">>, {})
Misrouted == Bundle(("about" :> LayoutOn(Hero) @@ "about us" :> LayoutOn(Hero)), <<>>, {Side})
NextVersion == [Preset(Hero, {}) EXCEPT !.requires = "layout-composition/v2"]

MCAuthored == {Preset(Hero, {"hero"}), Side, Site,
               [Side EXCEPT !.named = FALSE], NextVersion}
MCThemes == {NoTheme, {"main"}}

Manifest(kind) == [schema |-> SchemaV1, named |-> TRUE, kind |-> kind,
                   requires |-> [op |-> ">=", version |-> 1]]
Container(a) == Published(Manifest(a.kind), [p \in {ArtifactPath[a.kind]} |-> a], "k1")
Altered == Preset([main |-> {"hero"}, side |-> {"hero"}], {})
Invalid == [Side EXCEPT !.layout = LayoutOn([main |-> {BadBlock}])]
MCReleases == {Misrouted, Side, Invalid}
Entry(id, kind, package) ==
    [id |-> id, kind |-> kind, package |-> package]
MCCatalog ==
    <<Entry("sample", "preset", NoContainer),
      Entry("site", "bundle", Container(Misrouted)),
      Entry("side", "preset", Container(Side)),
      Entry("mixed", "bundle", Container(Side)),
      Entry("wrong", "preset", Container(Invalid)),
      Entry("swapped", "preset",
            [Container(Side) EXCEPT !.files = [p \in {"preset.json"} |-> Altered]]),
      Entry("redigested", "preset",
            [Container(Side) EXCEPT !.files = [p \in {"preset.json"} |-> Altered],
                                    !.sums = [p \in {"preset.json"} |-> Altered]])>>

Token(utc, from, until) ==
    [signer |-> "k1", genuine |-> TRUE, utc |-> utc,
     notBefore |-> from, notAfter |-> until]
MCTokens == {Token(TRUE, 1, 1), Token(FALSE, 0, 2),
             [Token(TRUE, 0, 2) EXCEPT !.genuine = FALSE]}

MCPicture == ImageOf(3, 2, LAMBDA x, y : <<x, y>>)
Query(crop, rotate, w, h) ==
    [cropX |-> crop[1], cropY |-> crop[2], cropW |-> crop[3], cropH |-> crop[4],
     rotate |-> rotate, maxW |-> w, maxH |-> h, format |-> ""]
Uncropped == <<0, 0, 0, 0>>
MCQueries == {Query(Uncropped, 270, 0, 0), Query(<<1, 0, 2, 2>>, 180, 0, 0),
              Query(<<2, 0, 2, 1>>, 0, 0, 0), Query(Uncropped, 90, 1, 1),
              Query(Uncropped, 0, 4, 2), Query(Uncropped, 0, 1, 0)}
=============================================================================
