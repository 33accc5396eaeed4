SPECIFICATION Spec

CONSTANTS
  v1 = v1
  a1 = a1
  none = none
  Viewers = {v1, a1}
  AvViewers = {v1}
  AudioViewers = {a1}
  Background = {"control", "off"}
  MaxDeaths = 1
  MayTerminate = FALSE
  MayRefuse = {"start", "video", "motor"}
  PatientClients = FALSE
  HungReaders = FALSE
  AudioEnabled = TRUE
  NoViewer = none

INVARIANTS
  FreeSlotStopsReaders
  CameraAtRest

PROPERTIES
  NoCloseUnderReader
