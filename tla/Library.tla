------------------------------- MODULE Library -------------------------------
(***************************************************************************)
(* The content library of a running daemon: layouts, presets, bundles and  *)
(* marketplace packages (Imports) beside the media files (MediaFiles), one *)
(* process whose stop ends the requests of both.                           *)
(***************************************************************************)
EXTENDS Imports, MediaFiles

CONSTANTS Releases,     \* artifacts that publishers signed
          MaxRequests,  \* requests of one behaviour
          MaxStops      \* restarts of one behaviour

\* Whoever holds a key that a daemon may trust signs what was released.
ASSUME LibraryAssumption ==
    /\ MaxRequests \in Nat /\ MaxStops \in Nat
    /\ \A e \in ToSet(Catalog) : e.package # NoContainer =>
          LET signed == e.package.signed IN
            signed.key \in AllKeys => \A p \in DOMAIN signed.sums : signed.sums[p] \in Releases

VARIABLES requests, stops

vars == <<importVars, mediaVars, requests, stops>>

Init == ImportsInit /\ MediaInit /\ requests = 0 /\ stops = 0

\* One more request arrives.
Arrives == requests < MaxRequests /\ requests' = requests + 1 /\ UNCHANGED stops

\* Requests on the composition side, whole or their first step.
CallImports ==
    \/ \E r \in Routes, l \in Drafts : PutLayout(r, l)
    \/ \E a \in Authored : SaveArtifact(a)
    \/ \E e \in ToSet(Catalog) : Install(e)
    \/ \E c \in Clients, i \in 1..MaxArtifacts, r \in Routes, t \in Themes :
          BeginImport(c, i, r, t)
    \/ \E tok \in Tokens : RegisterToken(tok)

RunImports ==
    \/ \E c \in Clients : LoadTarget(c) \/ SavePage(c) \/ Seed(c)
                          \/ FailImport(c) \/ ReturnImport(c)
    \/ Tick

CallMedia ==
    \E u \in Users, i \in MediaIds :
        \/ BeginUpload(u, i)
        \/ \E s \in Texts : BeginCall(u, i, "update", s)
        \/ BeginCall(u, i, "delete", "")
        \/ \E o \in Queries : BeginCall(u, i, "open", o)

RunMedia ==
    \E u \in Users : InsertRow(u) \/ UpdateRow(u) \/ DeleteRow(u)
                     \/ RemoveFile(u) \/ OpenFile(u) \/ ReturnImage(u)

Restart ==
    /\ stops < MaxStops /\ stops' = stops + 1
    /\ ImportsRestart /\ MediaRestart
    /\ UNCHANGED requests

Next ==
    \/ Arrives /\ CallImports /\ UNCHANGED mediaVars
    \/ Arrives /\ CallMedia /\ UNCHANGED importVars
    \/ RunImports /\ UNCHANGED <<mediaVars, requests, stops>>
    \/ RunMedia /\ UNCHANGED <<importVars, requests, stops>>
    \/ Restart

Spec == Init /\ [][Next]_vars

-----------------------------------------------------------------------------
Importing == {c \in Clients : job[c] # NoJob}

\* A stored artifact is one an administrator wrote or a publisher released:
\* no container altered on its way is installed (packagefmt.Decode).
ArtifactsHaveAuthors == ToSet(artifacts) \subseteq Authored \cup Releases

\* The regions of layout l, NoLayout having none.
RegionAt(l, n) ==
    IF l # NoLayout /\ n \in DOMAIN l.regions THEN <<l.regions[n]>> ELSE <<>>

\* An import writes the regions its page brings and keeps every other as it
\* read it: a region of somebody else is lost only when the route was written
\* between the import's load and its save (preset/store.go:224-238).  What it
\* stores is otherwise what composing the same fragment showed (ai.go:186-192).
OnlyImportedRegionsChange ==
    [][\A c \in Importing :
        LET r == Turn(c)  page == PageOf(c, r)  a == artifacts[job[c].id] IN
          (job[c].pc = "save" /\ job'[c] # job[c] /\ layouts' # layouts) =>
             /\ \A n \in Idents :
                   IF n \in DOMAIN page.regions
                   THEN RegionAt(layouts'[r], n) = <<page.regions[n]>>
                   ELSE \/ RegionAt(layouts'[r], n) = RegionAt(layouts[r], n)
                        \/ TargetAt(r) # job[c].target
             /\ (a.kind = "preset" /\ TargetAt(r) = job[c].target) =>
                   layouts'[r] = Compose(a, r, NoTheme)]_vars

\* A compatible verdict is worth its name: the merge it lets through is
\* refused only for what the verdict does not speak of, the route's spelling
\* and blocks that stood in the target before and lost their plugin.
CompatibleIsSavable ==
    \A c \in Importing : job[c].refused =>
        \/ Turn(c) \notin ValidRoutes
        \/ \E n \in DOMAIN job[c].target.regions \ DOMAIN PageOf(c, Turn(c)).regions :
              ~ job[c].target.regions[n] \subseteq registry

\* What Store.Import returns as imported is what it did, up to the one page whose
\* answer was lost; it merges a prefix of its pages, creates sample content only after
\* the last of them, and a page it merged carries its regions until someone
\* else writes the route (bundle/store.go:209-268).
ImportIsPrefix ==
    \A c \in Importing : LET j == job[c] IN
        /\ j.merged = SubSeq(j.todo, 1, Len(j.merged))
        /\ ToSet(j.merged) \subseteq made[c].merged
        /\ made[c].merged \subseteq
              ToSet(SubSeq(j.todo, 1, IF j.pc = "stopped" THEN Len(j.merged) + 1
                                      ELSE Len(j.merged)))
        /\ made[c].created > 0 => j.merged = j.todo
        /\ \A r \in made[c].held, n \in Idents :
              n \in DOMAIN PageOf(c, r).regions =>
                 RegionAt(layouts[r], n) = <<PageOf(c, r).regions[n]>>

\* A token that was registered keeps its word: while its signer is trusted it
\* is listed by its window and never as invalid, unless it was signed with an
\* offset other than UTC, which the table does not keep (marketplace/store.go).
TokensStayGenuine ==
    \A i \in DOMAIN tokens : LET was == tokens[i].was IN
        (was.utc /\ was.signer \in keys) =>
           /\ ListedStatus(i) = TokenStatus(keys, was, now)
           /\ ListedStatus(i) # "invalid"

\* Rows and files part only where a step failed or the process stopped: a row
\* has its file unless its insert committed and was reported as failed, and a
\* file has its row unless a request has it in hand or failed over it.
FilesMatchRows ==
    /\ Rows \ files \subseteq lost
    /\ files \ Rows \subseteq InHand \cup blamed

\* Three quarter turns, two, or one, made of single ones.
Quarter(img) == ImageOf(img.h, img.w, LAMBDA u, v : img.at[v, img.h - 1 - u])
Turned(img, degrees) ==
    CASE degrees = 90 -> Quarter(img)
      [] degrees = 180 -> Quarter(Quarter(img))
      [] degrees = 270 -> Quarter(Quarter(Quarter(img)))
      [] OTHER -> img

Fits(img, o) ==
    LET cropped == IF o.cropW > 0 THEN Crop(Picture, o) ELSE Picture
    IN  /\ img.w >= 1 /\ img.h >= 1
        /\ o.maxW > 0 => img.w <= o.maxW
        /\ o.maxH > 0 => img.h <= o.maxH
        /\ (o.maxW <= 0 /\ o.maxH <= 0) => img = Turned(cropped, o.rotate)

\* A transformed image has at least one pixel, keeps the bounds it was asked
\* to fit, and without a resize is the cropped image turned quarter by quarter
\* (media.go:263-430).
TransformFits ==
    \A u \in {v \in Users : At(v, "answer")} : Fits(call[u].image, call[u].args)
=============================================================================
