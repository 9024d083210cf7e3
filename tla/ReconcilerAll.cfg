SPECIFICATION Spec
CONSTANTS
  DeviceCount = 2
  Loop = loop
  Posts = {}
  Pattern = {open, closed}
  Rules = {noRules, usHolidays}
  OneOffs = {noOneOffs, earlyClose}
  Level = {warm, cool}
  NoRules = noRules
  NoOneOffs = noOneOffs
  Malformed = malformed
  Blank = blank
  Garbled = garbled
  None = none
  Undecodable = {1}
  MaxChanges = 2
  MaxFaults = 1
PROPERTY Converges
