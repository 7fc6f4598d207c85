SPECIFICATION MCSpec
CONSTANT Commands <- MCCommands
CONSTANT Environments <- MCEnvironments
CONSTANT Texts <- MCTexts
CONSTANT Groups <- MCGroups
CONSTANT Durations <- MCDurations
CONSTANT Configs = {"a", "b", "refused"}
CONSTANT Refused = {"refused"}
CONSTANT Base = 2
CONSTANT Places = 2
CONSTANT MilliPlaces = 1
CONSTANT MaxSeconds = 2
CONSTANT MaxCalls = 2
INVARIANT LogfileHonored
CHECK_DEADLOCK FALSE
