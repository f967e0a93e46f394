SPECIFICATION Spec
CONSTANTS
    Plugs <- SameAddress
    Fds = {1, 2}
    Callbacks = {1}
    Enumerating = {1}
    Races = {}
INVARIANTS PipeSignalled RefsMatchHolders LeftIsGone ExitReleasesAll
PROPERTY NoLateArrival
