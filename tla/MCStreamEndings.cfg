SPECIFICATION FairSpec

CONSTANTS
  v1 = v1
  v2 = v2
  none = none
  Viewers = {v1, v2}
  AvViewers = {v1}
  AudioViewers = {}
  Background = {}
  MaxDeaths = 0
  MayTerminate = TRUE
  MayRefuse = {"video"}
  PatientClients = TRUE
  HungReaders = FALSE
  AudioEnabled = TRUE
  NoViewer = none

INVARIANTS
  SlotHasAHandler

PROPERTIES
  CameraToldBeforeClose
  ShutdownCloses
  PictureEndsResponse
  Answered
  SlotFreed

CHECK_DEADLOCK FALSE
