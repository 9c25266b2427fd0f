CONSTANTS
  a1 = a1
  a2 = a2
  base = base
  token = token
  x = x
  xSlash = xSlash
  y = y
  spaces = spaces
  Blank = Blank
  None = None
  Admins <- AdminsOne
  Fields <- FieldsMC
  Secrets <- SecretsMC
  Raw <- RawMC
  Trim <- TrimMC
  Env <- EnvMC
  Uses <- UsesMC
  Faults = {"write", "crash"}
  Size <- SizeMC
  OneShot <- OneShotMC
  Seeds <- SeedsMC
  StartFaults = {"sql", "kill"}
  MaxTroubles = 2
SPECIFICATION FairStartup
INVARIANT StartupTypeOK
INVARIANT LiveIsCurrent
INVARIANT NothingUnsavedIsLive
INVARIANT RecordedIsApplied
INVARIANT ServesMigrated
PROPERTY SecretsAreKept
PROPERTY EditsStay
PROPERTY StartsUnlessStuck
