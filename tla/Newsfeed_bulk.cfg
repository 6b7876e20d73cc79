CONSTANTS
  juliette = juliette
  rosalee = rosalee
  sean = sean
  sample1 = sample1
  sample2 = sample2
  phd = phd
  legacy = legacy
  Users = {juliette, rosalee, sean}
  Samples = {sample1, sample2}
  Topics = {phd, legacy}
  Nobody = Nobody
  Superusers = {}
  Seers = {rosalee}
  Careful = {juliette}
  Confidential = {phd}
  Manager <- Managing
  TopicEditors = {sean}
  Readers <- Subscriptions
  Founded <- Rows
  FirstMembers <- Groups
  MaxRequests = 2
SPECIFICATION Spec
INVARIANT AllWatchersHear
CHECK_DEADLOCK FALSE
