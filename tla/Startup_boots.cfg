\* Boots and submissions, each of which may fail or die at any step, under
\* changing configurations, while another daemon starts.
SPECIFICATION StartupSpec
CONSTANTS
    Emails = {e1, e2}
    MaxBoots = 2
    MaxSubmits = 2
    Stores = {"sqlite", "postgres"}
    this = this
    other = other
    NotLoaded = NotLoaded
    Daemons = {this, other}
    List <- MCList
    Seed = "prod"
    Unusable = {"broken"}
    Files <- MCFiles
    Envs <- MCEnvs
    NoFile = NoFile
INVARIANTS
    BothOrNeither
    SetupHolds
    AppliedInOrderOnce
    ServesWholeSchema
CHECK_DEADLOCK FALSE
