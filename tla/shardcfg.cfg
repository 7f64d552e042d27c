SPECIFICATION Spec
CONSTANTS
  NShards = 5
  Gids = {1, 2, 3, 4}
  MaxNum = 4
INVARIANTS CheckConfig
PROPERTY FewestMoves
