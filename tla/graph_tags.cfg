SPECIFICATION Spec
CONSTANTS
  Clients = {c1}
  Mems = {m1, m2}
  TagNodes = {t1, t2, t3}
  Names = {"go", "db", "ci"}
  Spellings <- TagSpellings
  Norm <- TagNorm
  Blank = ""
  Labels = {}
  Refs = {}
  DbFaults = TRUE
INVARIANTS ReadsAgree
PROPERTIES AffectedIsTruthful RenameNeverMerges TagsAreABook
