CONSTANTS
  juliette = juliette
  rosalee = rosalee
  sean = sean
  sample1 = sample1
  sample2 = sample2
  phd = phd
  legacy = legacy
  Users = {juliette, rosalee, sean}
  Samples = {sample1}
  Topics = {phd, legacy}
  Nobody = Nobody
  Superusers = {}
  Reviewers = {sean}
  Managers = {}
  Members <- Groups
  Confidential = {phd}
  AutoAdders <- Adders
  Founded <- Rows
  MaxClaims = 1
  MaxRequests = 3
SPECIFICATION Spec
INVARIANTS ResponsibleGotIt AutoAddersGotIt DecidedOnceUnlessContested
CHECK_DEADLOCK FALSE
