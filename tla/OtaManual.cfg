SPECIFICATION Spec
CONSTANTS
  cfg = cfg
  ota = ota
  id = id
  p1 = p1
  p2 = p2
  Path <- MCPath
  OtaPath = {ota}
  UnitPath = ota
  Identity = {id}
  MaxVersion = 3
  Payload <- MCPayloadMixed
  FactoryFiles <- MCFactory
  Procs <- MCProcs
  BackupsToKeep = 1
  MaxBackups = 2
  MaxFaults = 1
  MaxPowerCuts = 1
  Manual = {"force", "restore-last"}
SYMMETRY Symmetry
INVARIANTS IdentityUntouched
