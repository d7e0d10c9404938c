SPECIFICATION Spec
CONSTANTS
  Paths <- MCPaths
  ApiPaths <- MCApiPaths
  Patterns <- MCPatterns
  Covers <- MCCovers
  Repository <- MCRepository
  MaxEdits = 2
INVARIANTS
  ReadySiteForwards
  ForwardedInBounds
