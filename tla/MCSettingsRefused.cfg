SPECIFICATION Spec

CONSTANTS
  NoValue = NoValue
  day = day
  low = low
  high = high
  Values = {low, high}
  Plans = {day}
  Proto = "v3"
  Settings = {"camera_on", "volume"}
  Prompt = TRUE
  Refusals = {"said"}
  MaxLate = 3
  MaxApp = 0
  MaxWrites = 1
  MaxLosses = 0

PROPERTIES
  ShowsWhatWasTaken
