SPECIFICATION Spec
CONSTANTS
  Home = "home"
  Kinds = {"mysql"}
  Catalog <- MCCatalog
  Upper <- MCUpper
  Reads <- MCReads
  LobColumns <- Lobs
  BigColumns <- Bigs
  SpelledApart <- Times
  Altered <- MCCatalog
CHECK_DEADLOCK FALSE
INVARIANT WildcardOriginsFindTheirRow
