SPECIFICATION FairSpec
CONSTANTS
  entry = entry
  relay = relay
  landing = landing
  Node = {entry, landing}
  Root = {entry}
  Single = {landing}
  ApplyOrder <- PairOrder
  MaxReleases = 1
  MaxGraph = 0
  MaxMaterial = 0
  MaxCredential = 1
  MaxPreviewing = 1
  MaxServing = 1
PROPERTIES
  ImplementsStagedRollout
  TerminalIsFinal
  NoReleaseHangs
