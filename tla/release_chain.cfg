SPECIFICATION Spec
CONSTANTS
  entry = entry
  relay = relay
  landing = landing
  Node = {entry, relay, landing}
  Root = {entry}
  Single = {}
  ApplyOrder <- TripleOrder
  MaxReleases = 1
  MaxGraph = 0
  MaxMaterial = 0
  MaxCredential = 1
  MaxPreviewing = 1
  MaxServing = 0
INVARIANTS
  SucceededMeansApplied
  AppliedDownstreamFirst
  SwitchedWithoutGap
