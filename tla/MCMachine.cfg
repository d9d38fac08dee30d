SPECIFICATION FairSpec
CONSTANTS
  Threads = {t1, t2}
  Pids = {t1, t2}
  Pid <- OwnProcess
  Settings = {"overwrite", "relay_url"}
  Values = {"a"}
  MaxRuns = 2
  Nothing = Nothing
INVARIANTS NoTornFile IdentityKept SettingsSerial CacheKeptInUse
PROPERTY CommandsEnd
CHECK_DEADLOCK FALSE
