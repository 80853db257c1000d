SPECIFICATION Spec
CONSTANTS
  entry = entry
  relay = relay
  landing = landing
  Node = {landing}
  Root = {landing}
  Single = {landing}
  ApplyOrder <- SoloOrder
  MaxReleases = 2
  MaxGraph = 1
  MaxMaterial = 1
  MaxCredential = 0
  MaxPreviewing = 1
  MaxServing = 0
INVARIANTS
  TypeOK
PROPERTIES
  DeploymentMatchesRow
