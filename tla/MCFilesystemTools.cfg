SPECIFICATION ToolsSpec
CONSTANTS
  Root <- MCRoot
  Disk0 <- MCDisk0
  LinkMaps <- MCLinkMaps
  NamePrefixes <- MCNamePrefixes
  RawPaths <- MCRawPaths
  Contents <- MCContents
  Gated = {"filesystem.write"}
  MaxLogString = 2
  MaxRead = 2
  MaxWrite = 3
  MaxEdits = 1
  MaxCalls = 2
INVARIANTS
  ConfinedUnlessRelinked
  ReadsWithinLimit
  ContentHiddenUnlessPrefixed
  MarkersAgree
CHECK_DEADLOCK FALSE
