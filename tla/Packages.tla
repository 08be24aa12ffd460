------------------------------ MODULE Packages ------------------------------
(***************************************************************************)
(* Marketplace packages and entitlement tokens: pkg/packagefmt's container *)
(* and its Decode, capabilities/marketplace's constraint on the kernel's   *)
(* version and its tokens, internal/marketplace's catalog and its table of *)
(* tokens.                                                                 *)
(*                                                                         *)
(* A container is what Decode can tell apart in an archive: whether it is  *)
(* one (a zip without duplicates that holds the three documents, every     *)
(* entry within the size cap), the manifest, the payload files, the        *)
(* checksums (a digest is the content it is of), the key it names and what *)
(* that key's owner signed.  Versions are numbers in semver's order.       *)
(***************************************************************************)
EXTENDS Naturals, FiniteSets, SequencesExt

CONSTANTS SafePaths,   \* payload paths that stay below the package's root
          NoContainer,
          BadVersion   \* a version or constraint that is no semver

SchemaV1 == "glyphux-package/v1"
PackageKinds == {"plugin", "preset", "bundle"}
ArtifactPath == [preset |-> "preset.json", bundle |-> "bundle.json"]

\* validateManifest.
ManifestValid(m) == m.schema = SchemaV1 /\ m.named /\ m.kind \in PackageKinds

\* Every payload file has its checksum, every checksum its file, and no path
\* leaves the package (validatePayloadPath).
PayloadMatches(x) ==
    /\ DOMAIN x.files = DOMAIN x.sums
    /\ DOMAIN x.files \subseteq SafePaths
    /\ \A p \in DOMAIN x.files : x.sums[p] = x.files[p]

\* Faulty check: the key is trusted and what it signed is not compared.
KeyTrusted(x, keys) == x.key \in keys

\* The named key is trusted and signed this manifest and these checksums.
SignatureValid(x, keys) ==
    /\ x.key \in keys
    /\ x.signed = [key |-> x.key, manifest |-> x.manifest, sums |-> x.sums]

\* packagefmt.Decode.
Decodes(x, keys) ==
    /\ x.archive
    /\ ManifestValid(x.manifest)
    /\ PayloadMatches(x)
    /\ SignatureValid(x, keys)

\* Encode: what a publisher's tool makes of a manifest and payload files.
Published(manifest, files, key) ==
    [archive |-> TRUE, manifest |-> manifest, files |-> files, sums |-> files,
     key |-> key,
     signed |-> [key |-> key, manifest |-> manifest, sums |-> files]]

\* SignedPackage.Artifact: the payload file the manifest's kind calls for.
HasArtifact(x) ==
    /\ x.manifest.kind \in DOMAIN ArtifactPath
    /\ ArtifactPath[x.manifest.kind] \in DOMAIN x.files
Artifact(x) == x.files[ArtifactPath[x.manifest.kind]]

\* CoreConstraintSatisfied: no constraint is satisfied by every kernel, one
\* that cannot be read by none.
CoreSatisfied(requires, kernel) ==
    \/ requires.op = "none"
    \/ /\ kernel # BadVersion /\ requires.version # BadVersion
       /\ CASE requires.op = ">=" -> kernel >= requires.version
            [] requires.op = "<=" -> kernel <= requires.version
            [] requires.op = ">" -> kernel > requires.version
            [] requires.op = "<" -> kernel < requires.version
            [] OTHER -> kernel = requires.version

-----------------------------------------------------------------------------
\* NewCatalog and ByID: the embedded entries come first, and the last entry of
\* an id is the one found.
ById(catalog, id) == SelectLastInSeq(catalog, LAMBDA e : e.id = id)

-----------------------------------------------------------------------------
\* Entitlement tokens.  A token is genuine when its signature is its signer's
\* over its fields as they read now.

\* Faulty table: fractions of a second are cut off the stored times.
StoredTruncated(tok) == [tok EXCEPT !.genuine = FALSE]

\* Register and List: the times come back in UTC; in a token signed with
\* another offset they no longer read as they were signed.
Stored(tok) == [tok EXCEPT !.genuine = tok.genuine /\ tok.utc, !.utc = TRUE]

\* VerifyEntitlement: the signature first, then the window.
Verdict(key, tok, now) ==
    IF ~ (tok.genuine /\ tok.signer = key) THEN "invalid"
    ELSE IF now < tok.notBefore THEN "not_yet_valid"
    ELSE IF now > tok.notAfter THEN "expired"
    ELSE "active"

\* Manager.TokenStatus: the first trusted key that signed the token answers.
TokenStatus(keys, tok, now) ==
    LET verdicts == {Verdict(k, tok, now) : k \in keys} \ {"invalid"}
    IN  IF verdicts = {} THEN "invalid" ELSE CHOOSE v \in verdicts : TRUE

\* verifyEntitlementSignature, the gate of a registration: the window is left
\* to the listing.
Registrable(keys, tok, now) == TokenStatus(keys, tok, now) # "invalid"
=============================================================================
