\* Reloads, and what comes from outside, are bounded, so a behaviour ends.
SPECIFICATION PartSpec
CONSTANTS
  Parts = {"reload", "view"}
  Plugin = {1, 2}
  Router = {1, 2}
  Files <- MCFiles
  MaxReloads = 4
  TableInInject = TRUE
  RPrefix = {1, 2}
  Route <- MCRoutes
  NoRoute = NoRoute
  DirtyLimit = 1
  Neighbor = {1, 2}
  PathId = {0, 1}
  Peer = {0, 2}
  Usage <- MCUsage
  AddPathNbr = {1}
  AddPathProv = {1}
  NbrPaths <- MCNbrPaths
  BmpPaths <- MCBmpPaths
  NoPath = NoPath
  MaxConns = 2
  RibStarts <- MCRibStarts
INVARIANTS
  RunsItsConfig
  SteeringUnderInject
  RefusedNeverAnnounces
  RoutersFollowTable
  ViewSettles
  DroppedStaysDown
  SnapshotCurrent
CHECK_DEADLOCK FALSE
