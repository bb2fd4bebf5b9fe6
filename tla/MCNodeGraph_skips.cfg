CONSTANTS
  Nodes <- ThreeNodes
  MaxFaults = 0
SPECIFICATION Spec
INVARIANTS
  EveryNodeHasOutcome
