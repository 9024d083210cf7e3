SPECIFICATION Spec
CONSTANTS
  DeviceCount = 1
  Loop = loop
  Posts = {post}
  Pattern = {open, closed}
  Rules = {noRules, usHolidays}
  OneOffs = {noOneOffs, earlyClose}
  Level = {warm, cool}
  NoRules = noRules
  NoOneOffs = noOneOffs
  Malformed = malformed
  Blank = blank
  Garbled = garbled
  None = none
  Undecodable = {}
  MaxChanges = 2
  MaxFaults = 0
PROPERTY OneOffsArriveAnyway
