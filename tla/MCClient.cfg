\* The system may stop: its users may do nothing more.
SPECIFICATION Spec
CONSTANTS
  Tabs = {"a", "b"}
  Tokens = {"k1", "k2"}
  Names = {"x", "y"}
  Scenes <- AllScenes
CHECK_DEADLOCK FALSE
INVARIANT TypeOK
INVARIANT ResultIsLastRuns
INVARIANT SchemaIsOfCatalog
INVARIANT MatrixCurrent
INVARIANT ConnectionsCurrent
PROPERTY DownloadsMatchResult
PROPERTY PagesOpenOnPurpose
PROPERTY EditsStayInForm
PROPERTY LiveSessionsEndKnowingly
PROPERTY ExpiredSessionsEnd
PROPERTY PageLoads
PROPERTY RunsEnd
