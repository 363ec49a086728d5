SPECIFICATION Spec
CONSTANTS
  r1 = r1
  r2 = r2
  f1 = f1
  f2 = f2
  Runs = {r1, r2}
  Flows = {f1, f2}
  NoToken = NoToken
  Central = Central
  UploadFormats <- MCFormats
  MaxRetries = 1
  Configs <- MCConfigs
  MaxFolders = 2
SYMMETRY Symmetric
INVARIANTS
  StatusTruthful
  NotMultiplied
  TokenFilesGone
  StateOnce
CHECK_DEADLOCK FALSE
