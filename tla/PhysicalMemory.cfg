CONSTANTS
  Size = 3
  Handle = {h1, h2}
  KeyBytes = 2
  Datum = {d}
  Start = {0, 1}
  Length = {1, 2}
  Width = {1, 2}
  Clear = clear
SPECIFICATION MemorySpec
INVARIANTS MemoryTypeOK ReadsBackUnderItsKey
PROPERTY EarlierRegionWins
