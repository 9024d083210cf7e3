\* Two people at one thermostat, four commands, one state to force and two durations.
CONSTANTS
  Request = {r1, r2}
  Forced = {occupied}
  NoOverride = NoOverride
  Minutes = {30, 60}
  MaxCommands = 4
SPECIFICATION CommandsSpec
INVARIANTS
  NoOverrideLiesInWait
  DurationsAgree
  PageIsHonest
PROPERTIES
  TimerIsFresh
