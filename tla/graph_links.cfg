SPECIFICATION Spec
CONSTANTS
  Clients = {c1}
  Mems = {m1, m2}
  TagNodes = {t1}
  Names = {"go"}
  Spellings <- OneSpelling
  Norm <- OneNorm
  Blank = ""
  Labels = {"refines", "contradicts"}
  Refs <- TwoPins
  DbFaults = TRUE
INVARIANTS TypeOK ReadsAgree
PROPERTIES ClientErrorsChangeNothing LinksStay
