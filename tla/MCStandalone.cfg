SPECIFICATION Spec
CONSTANTS
  Requests = {r1}
  Drafts = {d1}
  Texts = {t1, t2}
  Saves = {s1, s2}
  MaxCalls = 1
  None = None
INVARIANTS SavedMeansSaved SendKeepsTheText
PROPERTIES OnlyTheOwnerPasses
SYMMETRY Symmetry
CHECK_DEADLOCK FALSE
