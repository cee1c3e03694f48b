SPECIFICATION BackupSpec
CONSTANTS
  Workers = {w1, w2}
  Runs = {r1, r2}
  Earlier = 1
  Waiting = {}
  MaxArtifacts = 3
  RetryLimit = 1
  KeepCount = 1
  NoRun = NoRun
  MaxTrouble = 1
INVARIANT OneRunAtATime
