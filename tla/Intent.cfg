\* Two devices, two zones, a group and a tenant.
CONSTANTS
  Device = {d1, d2}
  Zone = {za, zb}
  Default = za
  Group = {g}
  Day = {mon, sat}
  Pattern = {closed, open}
  Closed = closed
  Level = {warm, cool}
  HolidayRule <- SomeRules
  Years <- EveryCalendar
  LastDate = 2
  MaxEdits = 3
  EveryYear = EveryYear
  None = None
SYMMETRY Same
SPECIFICATION Spec
INVARIANTS
  NothingIsHalfDone
  NobodySeesTheNeighbours
  OneOffsAreInForce
  HolidaysAreAsShown
PROPERTIES
  OnlyEditsTell
