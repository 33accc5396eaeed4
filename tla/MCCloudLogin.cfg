SPECIFICATION FairSpec

CONSTANTS
  Nobody = Nobody
  attic = attic
  barn = barn
  phone = phone
  Cameras = {attic, barn}
  Clients = {phone}
  HasProof = TRUE
  MaxDeaths = 1
  MaxFaults = 1
  MaxTurns = 1
  MaxDrops = 1
  MaxRestarts = 1

INVARIANTS
  NoNeedlessLogin
  NewestKept
  SentForAReason

PROPERTIES
  Recovers
  ToldToSignIn

CHECK_DEADLOCK FALSE
