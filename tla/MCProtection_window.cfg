SPECIFICATION Spec
CONSTANTS
    shell = shell
    command = command
    Procs <- ShellAndCommand
    TheShell = shell
    Keys <- NoKeys
    MaxLayers = 3
INVARIANTS
    RecoversMode
