SPECIFICATION PlannerSpec
CONSTANTS
  NULL = NULL
  nano = nano
  opus = opus
  coder = coder
  freebie = freebie
  painter = painter
  route = route
  Name <- MCName
  PlannerConfigs <- MCPlannerConfigs
  Catalogs <- MCCatalogs
  Asks <- MCAsks
INVARIANTS
  StrictlyFree
  FreeFirst
  OnlyKeyed
  ToolsHonoured
  GeneralIsComplete
