SPECIFICATION FilesSpec
CONSTANTS
    ALT_MAX_FD = 5
    Devices = {"/dev/jtag_uart"}
    Stdio = "/dev/jtag_uart"
    Paths = {"/mnt/host/a"}
    Handles = {1, 2, 3}
    Modes = {"RDWR"}
INVARIANTS TableIsExact HandlesAreExact
PROPERTY LockKeepsOthersOut
