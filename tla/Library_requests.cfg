\* The library under concurrent requests, failures and restarts.
SPECIFICATION Spec
CONSTANTS
  Idents = {"main", "side"}
  BlockTypes = {"hero", "tiers"}
  BadBlock = ""
  NoTheme = NoTheme
  SafePaths = {"preset.json", "bundle.json"}
  NoContainer = NoContainer
  BadVersion = 99
  Clients = {c1, c2}
  RouteOrder <- MCRouteOrder
  ValidRoutes <- MCValidRoutes
  FirstParty = {"hero"}
  Drafts <- MCDrafts
  Authored <- MCAuthored
  Themes <- MCThemes
  Catalog <- MCCatalog
  Tokens <- MCTokens
  AllKeys = {"k1", "k2"}
  Kernel = 1
  NoLayout = NoLayout
  NoJob = NoJob
  MaxArtifacts = 2
  MaxTokens = 1
  MaxTime = 2
  Users = {u1, u2}
  MediaIds = {"m1", "m2"}
  Texts = {"alt"}
  Queries <- MCQueries
  Picture <- MCPicture
  NoRow = NoRow
  NoCall = NoCall
  Releases <- MCReleases
  MaxRequests = 3
  MaxStops = 1
INVARIANT ArtifactsHaveAuthors
INVARIANT CompatibleIsSavable
INVARIANT ImportIsPrefix
INVARIANT TokensStayGenuine
INVARIANT FilesMatchRows
INVARIANT TransformFits
PROPERTY OnlyImportedRegionsChange
CHECK_DEADLOCK FALSE
