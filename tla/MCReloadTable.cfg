\* After MaxReloads reloads only the decision loop goes on.
SPECIFICATION Spec
CONSTANTS
  Plugin = {1, 2}
  Router = {1, 2}
  Files <- MCFiles
  MaxReloads = 3
  TableInInject = FALSE
INVARIANTS
  RoutersFollowTable
CHECK_DEADLOCK FALSE
