SPECIFICATION Spec
CONSTANTS
  Home = "home"
  Kinds = {"oracle"}
  Catalog <- MCCatalog
  Upper <- MCUpper
  Reads <- MCSmallReads
  LobColumns <- Lobs
  BigColumns <- Bigs
  SpelledApart <- Times
  Altered <- MCCatalog
CHECK_DEADLOCK FALSE
INVARIANT StillRuns
