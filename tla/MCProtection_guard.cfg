SPECIFICATION Spec
CONSTANTS
    shell = shell
    command = command
    Procs <- ShellAndCommand
    TheShell = shell
    Keys <- CtrlZ
    MaxLayers = 3
INVARIANTS
    TypeOK
    LayersBalanced
    KernelIsClosed
    UserIsOpen
