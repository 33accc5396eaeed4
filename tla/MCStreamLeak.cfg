SPECIFICATION Spec

CONSTANTS
  v1 = v1
  v2 = v2
  none = none
  Viewers = {v1, v2}
  AvViewers = {}
  AudioViewers = {}
  Background = {"control"}
  MaxDeaths = 0
  MayTerminate = FALSE
  MayRefuse = {}
  PatientClients = FALSE
  HungReaders = FALSE
  AudioEnabled = FALSE
  NoViewer = none

INVARIANTS
  SlotHasAHandler
