\* The thermostat of the sensor and another, the loop and a POST /reconcile,
\* at the real intervals: 300 s a pass, 600 s of cache and of watchdog.
CONSTANTS
  N = 2
  Source = 1
  Loop = loop
  Pass = {loop, request}
  CacheTicks = 2
  Watchdog = 2
  None = None
SPECIFICATION Spec
INVARIANTS
  AirIsRecent
PROPERTIES
  EveryoneHears
