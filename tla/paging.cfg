SPECIFICATION Spec
CONSTANTS
  Ids <- SixIds
  Matching <- FourOfThem
  PageSize = 2
INVARIANTS NobodySkipped PageCountsAgree
