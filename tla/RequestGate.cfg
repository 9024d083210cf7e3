CONSTANTS
  Task = {poll1, poll2, reconciler, api1, api2}
  Background = {poll1, poll2, reconciler}
  Device = {suite1, suite2, suite3}
  Concurrency = 2
  NoTask = NoTask
  NoDevice = NoDevice
SPECIFICATION Spec
INVARIANTS OneTransactionPerDevice InFlightBound NothingLeaks
           NobodyWaitsInVain
PROPERTIES NobodyIsOvertaken EveryRequestEnds ImplementsFleetBus
