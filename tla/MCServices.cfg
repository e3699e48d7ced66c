\* The RTR client, the prober of the agents and the plugin supervisor.  Probe
\* calls end.
SPECIFICATION Spec
CONSTANTS
  Services = {"rtr", "agents", "plugin"}
  Vrp = {1, 2, 3}
  MaxVRPs = 2
  Tables <- MCTables
  MaxChanges = 2
  MaxFaults = 1
  Agent = {1}
  Task = {1, 2}
  Poll = {1, 2}
  Slots = 1
  PollMax = 2
  Serves <- MCServes
  MaxTrouble = 3
  Proc = {"p1", "p2", "p3"}
  Caller = {"c1", "c2"}
  MaxMishaps = 3
INVARIANTS ServesOneVersion OneAnswer ProcessesOwned
PROPERTIES ServicesRecover
CHECK_DEADLOCK FALSE
