CONSTANTS
  a1 = a1
  a2 = a2
  base = base
  token = token
  x = x
  xSlash = xSlash
  y = y
  spaces = spaces
  Blank = Blank
  None = None
  Admins <- AdminsOne
  Fields <- FieldsMC
  Secrets <- SecretsMC
  Raw <- RawMC
  Trim <- TrimMC
  Env <- EnvMC
  Uses <- UsesMC
  Faults = {}
  Size <- SizeMC
  OneShot <- OneShotMC
  Seeds <- SeedsMC
  StartFaults = {"kill"}
  MaxTroubles = 1
SPECIFICATION StartupSpec
PROPERTY RestartIsSafe
