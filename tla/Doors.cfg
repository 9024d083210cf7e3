\* One user, two requests, a panel whose call may last two ticks.
CONSTANTS
  User = {u1}
  Nobody = Nobody
  Caller = {r1, r2}
  Window = 1
  InventoryTTL = 1
  LongestCall = 2
SPECIFICATION Spec
INVARIANTS
  UnlocksAreTimely
  OpeningsAreOnRecord
  InventoryIsRecent
PROPERTIES
  PanelIsNeverStuck
