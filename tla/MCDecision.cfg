SPECIFICATION Spec
CONSTANTS
  Unit <- MCUnit
  NoUnit = NoUnit
  Rule <- MCRule
  Guess <- MCGuess
  Facts <- MCFacts
  Rows <- MCRows
  Downgrades <- MCDowngrades
  Score = {10, 70, 90}
  NoAnomaly = NoAnomaly
  Threshold = 60
  Policies <- MCPolicies
  Draw = {20, 80}
  MaxRuns = 2
INVARIANTS OversightIsMonotone LogOnlyIsInert RoutingIsTheAgencys
CHECK_DEADLOCK FALSE
