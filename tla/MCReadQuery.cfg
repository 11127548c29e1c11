\* Every statement of the instance, in every dialect, on its way to a download.
\* It ends there.
SPECIFICATION Spec
CONSTANTS
  Home = "home"
  Kinds = {"mysql", "postgres", "mssql", "oracle"}
  Catalog <- MCCatalog
  Upper <- MCUpper
  Reads <- MCReads
  LobColumns <- Lobs
  BigColumns <- Bigs
  SpelledApart <- Times
  Altered <- MCAltered
CHECK_DEADLOCK FALSE
INVARIANT TypeOK
INVARIANT OriginsFindTheirRow
INVARIANT ShownAsAsked
INVARIANT StillRuns
INVARIANT RowsKept
INVARIANT DownloadsServed
INVARIANT SpliceReadsAsInjected
