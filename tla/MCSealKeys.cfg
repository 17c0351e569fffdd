SPECIFICATION Spec
CONSTANTS
  Keys = {k1, k2, k3}
  Sidecars = {sidecar}
  Clients = {client}
  Updates = {u1, u2}
  Evid = {e1}
  None = None
  MaxRetired = 4
  MaxStarts = 4
SYMMETRY Symmetry
CHECK_DEADLOCK FALSE
INVARIANTS
  RecordedBeforeSealed
  AckedSavesSurvive
  DeliveredKeysServe
PROPERTIES
  UnreadableKept
  LatePlaintextIsOpenedBefore
