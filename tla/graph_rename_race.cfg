SPECIFICATION Spec
CONSTANTS
  Clients = {c1}
  Mems = {m1}
  TagNodes = {t1, t2}
  Names = {"go", "db"}
  Spellings <- TwoSpellings
  Norm <- TwoNorm
  Blank = ""
  Labels = {}
  Refs = {}
  DbFaults = FALSE
INVARIANTS RenameConflictIsInvalid
