CONSTANTS
  Documents <- SomeDocuments
  Targets = {3, 5}
  Overlaps = {0, 1, 4}
  Similarities = {0, 1, 2}
  Texts <- SomeTexts
  rows_per_block = 2
  Paged = "pdf"
SPECIFICATION Spec
INVARIANTS
  TextIsNamed
CHECK_DEADLOCK FALSE
