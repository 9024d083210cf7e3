CONSTANTS
  Device = {suite}
  Occupied = {suite}
  StatusDrops = {suite}
  OffsetDrops = {}
  Commanded = {suite}
  Refuses = {}
  LogFails = {suite}
  Scheduled = {occupied, unoccupied}
  MaxOffset = 2
  OfflineAfter = 2
  Concurrency = 2
  Missing = Missing
  NoReading = NoReading
SPECIFICATION Spec
INVARIANTS NoStaleAnswer RowsAreFounded
