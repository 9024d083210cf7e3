CONSTANTS
  Device = {suite1, suite2}
  Occupied = {suite1}
  StatusDrops = {}
  OffsetDrops = {}
  Commanded = {}
  Refuses = {}
  LogFails = {}
  Scheduled = {occupied}
  MaxOffset = 1
  OfflineAfter = 2
  Concurrency = 1
  Missing = Missing
  NoReading = NoReading
SPECIFICATION Spec
INVARIANTS SamplesAreBounded AdjustmentIsOnRecord
PROPERTIES OnlineTracksLink
