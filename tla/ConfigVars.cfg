SPECIFICATION Spec
CONSTANTS
  Threads = {t1, t2}
  Setters = {t1}
  Names = {"a", "a.b", "A.b"}
  Valid = {"a", "a.b"}
  Types = {"int", "str"}
  Vals = {0, 1}
  Texts = {"1", "x"}
  Cast <- MCCast
  Files <- MCFiles
  MaxAdds = 2
  Null = Null
INVARIANTS IterationStable HandleWorks ListenersAgree LoadApplied
