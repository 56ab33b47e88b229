SPECIFICATION FairSpec
CONSTANTS
  Undef = Undef
  Throw = Throw
  Names <- MCNames
  Root = "root"
  Rank <- MCRank
  Configs <- MCConfigs
  Invalid = {"bad"}
  Default = "default"
  Threads = {t1, t2}
  Levels = {2}
  Patterns = {"p", "bad"}
  MaxEvents = 1
  MaxCalls = 1
INVARIANTS  ConfApplied RemovedSilent Undisturbed 
PROPERTIES LoadReturns
