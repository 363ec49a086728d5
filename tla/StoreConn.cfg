\* A store and blob_store, on their own connections or on a shared one.
SPECIFICATION Spec
CONSTANTS
  Stores = {resets, blobs}
  Blobs = {blobs}
  NoStore = NoStore
  Shared = Shared
  Modes = {"remote", "embedded"}
  MaxRetries = 2
  MaxCalls = 2
INVARIANTS
  AckedIsStored
CHECK_DEADLOCK FALSE
