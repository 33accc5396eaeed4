SPECIFICATION MCFairSpec

CONSTANTS
  NoValue = NoValue
  day = day
  night = night
  low = low
  high = high
  Values = {low, high}
  Plans = {day}
  MorePlans = {night}
  Proto = "v2"
  Settings = {"camera_on", "volume"}
  Prompt = TRUE
  Refusals = {"said", "unsaid"}
  MaxLate = 3
  MaxApp = 1
  MaxWrites = 2
  MaxLosses = 1

INVARIANTS
  PlanFromCamera

PROPERTIES
  ShowsOnV2
  Reconciled
