SPECIFICATION ShmSpec
CONSTANTS
  PageSize = 2
  Base = 2
  Limit = 10
  MaxU32 = 15
  Sizes = {0, 1, 3, 15}
  MaxBlocks = 4
  Names = {a, b}
SYMMETRY NameSymmetry
INVARIANTS NoOverlap ArenaKept NamesApart
