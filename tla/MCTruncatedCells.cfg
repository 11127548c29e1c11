SPECIFICATION Spec
CONSTANTS
  Home = "home"
  Kinds = {"postgres"}
  Catalog <- MCCatalog
  Upper <- MCUpper
  Reads <- MCReads
  LobColumns <- Lobs
  BigColumns <- Bigs
  SpelledApart = {}
  Altered <- MCCatalog
CHECK_DEADLOCK FALSE
INVARIANT TruncatedCellsServed
