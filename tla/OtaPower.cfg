SPECIFICATION FairSpec
CONSTANTS
  cfg = cfg
  ota = ota
  id = id
  p1 = p1
  p2 = p2
  Path <- MCPath
  OtaPath = {ota}
  UnitPath = ota
  Identity = {id}
  MaxVersion = 2
  Payload <- MCPayload
  FactoryFiles <- MCFactory
  Procs <- MCProcs
  BackupsToKeep = 1
  MaxBackups = 2
  MaxFaults = 1
  MaxPowerCuts = 2
  Manual = {}
INVARIANTS TypeOK AllOrNothing PowerCutRecoverable GateTruthful NamedBackupsComplete
PROPERTIES BootRecovery
