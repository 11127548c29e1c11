\* The system may stop: its users may do nothing more.
SPECIFICATION Spec
CONSTANTS
  Tabs = {"a", "b"}
  Tokens = {"k1", "k2"}
  Names = {"x", "y"}
  Scenes <- SessionScenes
CHECK_DEADLOCK FALSE
PROPERTY LoginRefusalsEndNothing
