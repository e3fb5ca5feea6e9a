------------------------------- MODULE Files -------------------------------
(***************************************************************************)
(* File descriptors (HAL/src/alt_open.c, alt_close.c, alt_get_fd.c and the *)
(* other calls on them), the lists of devices and file systems, and the    *)
(* file system of the host (drivers/src/altera_hostfs.c).                  *)
(*                                                                         *)
(* One thread calls them, one call at a time.  The host may refuse a call. *)
(* Data, offsets and names are left out: a name is that of a device, or of *)
(* a file of the host, or of nothing.                                      *)
(*                                                                         *)
(* held and stranded are not in the code: the descriptors that open has    *)
(* returned to the program and the program has not closed, and the files   *)
(* that stayed open because the host refused to close them.                *)
(***************************************************************************)
EXTENDS Integers, FiniteSetsExt

CONSTANTS ALT_MAX_FD,
          Devices,   \* devices that alt_sys_init may register
          Stdio,     \* ALT_STDIN, ALT_STDOUT and ALT_STDERR
          Paths,     \* names below the mount point of the host
          Modes,     \* access modes the program opens with
          Handles    \* bound: files open at the host, with those stranded there

Null == "/dev/null"
HostFs == "/mnt/host"
None == "none"

ASSUME FilesAssumption ==
    /\ ALT_MAX_FD \in Nat /\ ALT_MAX_FD >= 4
    /\ Handles \subseteq Nat /\ 0 \notin Handles
    /\ {Null, HostFs, None} \cap (Devices \cup Paths) = {}
    /\ Devices \cap Paths = {} /\ Stdio \notin Paths
    /\ Modes \subseteq {"RDONLY", "WRONLY", "RDWR"}

VARIABLES registered,  \* alt_dev_list
          mounted,     \* is the host in alt_fs_list?
          fds,         \* alt_fd_list
          alt_max_fd,
          handles,     \* files open at the host
          boot,        \* how far alt_main has come
          held, stranded,
          ret          \* has the last call succeeded?

filesVars ==
    <<registered, mounted, fds, alt_max_fd, handles, boot, held, stranded, ret>>

Fds == 0..(ALT_MAX_FD - 1)
Streams == 0..2

Free == [dev |-> None, priv |-> 0, mode |-> "RDONLY", flags |-> {}]

FilesInit ==
    /\ registered = {Null} /\ mounted = FALSE
    /\ fds = [f \in Fds |-> IF f \in Streams THEN [Free EXCEPT !.dev = Null] ELSE Free]
    /\ alt_max_fd = -1 /\ handles = {}
    /\ boot = "init" /\ held = {} /\ stranded = {} /\ ret = "ok"

-----------------------------------------------------------------------------
(* The lists *)

alt_dev_llist_insert(dev) ==
    /\ boot = "init"
    /\ registered' = registered \cup {dev}
    /\ UNCHANGED <<mounted, fds, alt_max_fd, handles, boot, held, stranded, ret>>

alt_fs_reg ==
    /\ boot = "init"
    /\ mounted' = TRUE
    /\ UNCHANGED <<registered, fds, alt_max_fd, handles, boot, held, stranded, ret>>

alt_find_dev(name) == IF name \in registered THEN name ELSE None

alt_find_file(name) == IF mounted /\ name \in Paths THEN HostFs ELSE None

-----------------------------------------------------------------------------
(* alt_open and what it calls *)

Unused == {f \in Fds : fds[f].dev = None}

\* The first unused entry of the table, and the highwater mark after taking it.
alt_get_fd == Min(Unused)

Highwater(f) == IF f > alt_max_fd THEN f ELSE alt_max_fd

alt_release_fd(table, f) ==
    IF f \in Streams THEN table
    ELSE [table EXCEPT ![f] = [Free EXCEPT !.priv = table[f].priv]]

\* Slip: the highest descriptor is not looked at.
FileLockedBelow(table, f) ==
    \E g \in 0..(Highwater(f) - 1) :
        /\ g # f /\ table[g].dev = table[f].dev
        /\ "EXCL" \in table[g].flags

\* Does another descriptor hold the device of entry f for itself?
alt_file_locked(table, f) ==
    \E g \in 0..Highwater(f) :
        /\ g # f /\ table[g].dev = table[f].dev
        /\ "EXCL" \in table[g].flags

Outcome(index, errno, table, max, hs) ==
    [index |-> index, errno |-> errno, fds |-> table, max |-> max, handles |-> hs]

\* The host gives the file a handle that is not in use, or refuses.
alt_hostfs_open == {h \in Handles \ handles : \A g \in Handles \ handles : h <= g}

\* The ways a call of open may end.
alt_open(name, mode, flags) ==
    LET isdev == alt_find_dev(name) # None
        dev == IF isdev THEN alt_find_dev(name) ELSE alt_find_file(name)
        f == alt_get_fd
        max == Highwater(f)
        taken == [fds EXCEPT ![f] = [dev |-> dev, priv |-> @.priv, mode |-> mode,
                                     flags |-> IF isdev THEN flags \cup {"DEV"} ELSE flags]]
        refused(errno) == Outcome(-1, errno, alt_release_fd(taken, f), max, handles)
    IN  IF dev = None THEN {Outcome(-1, "ENODEV", fds, alt_max_fd, handles)}
        ELSE IF Unused = {} THEN {Outcome(-1, "EMFILE", fds, alt_max_fd, handles)}
        ELSE IF isdev /\ alt_file_locked(taken, f) THEN {refused("EACCES")}
        ELSE IF isdev THEN {Outcome(f, "ok", taken, max, handles)}
        ELSE {refused("host")}
             \cup {Outcome(f, "ok", [taken EXCEPT ![f].priv = h], max, handles \cup {h})
                     : h \in alt_hostfs_open}

Open ==
    /\ boot = "main"
    /\ \E name \in Devices \cup Paths \cup {Null}, mode \in Modes,
          flags \in SUBSET {"NONBLOCK"} : \E end \in alt_open(name, mode, flags) :
            /\ fds' = end.fds /\ alt_max_fd' = end.max /\ handles' = end.handles
            /\ held' = IF end.index = -1 THEN held ELSE held \cup {end.index}
            /\ ret' = IF end.errno = "ok" THEN "ok" ELSE "error"
    /\ UNCHANGED <<registered, mounted, boot, stranded>>

-----------------------------------------------------------------------------
(* alt_io_redirect, before main *)

\* Each stream in turn takes over what opening the device has given, if it has.
alt_open_fd(stream, mode) ==
    \E end \in alt_open(Stdio, mode, {}) :
        /\ fds' = IF end.index = -1 THEN end.fds
                  ELSE alt_release_fd([end.fds EXCEPT ![stream] = end.fds[end.index]],
                                      end.index)
        /\ alt_max_fd' = end.max /\ handles' = end.handles
        /\ UNCHANGED <<registered, mounted, held, stranded, ret>>

alt_io_redirect ==
    \/ boot = "init" /\ alt_open_fd(1, "WRONLY") /\ boot' = "stdin"
    \/ boot = "stdin" /\ alt_open_fd(0, "RDONLY") /\ boot' = "stderr"
    \/ boot = "stderr" /\ alt_open_fd(2, "WRONLY") /\ boot' = "main"

-----------------------------------------------------------------------------
(* Calls on a descriptor.  The program uses those that it holds and the     *)
(* streams: the code traps negative descriptors (EBADFD) and no others.     *)

Usable == held \cup Streams

Calls(f) == boot = "main" /\ f \in Usable

Unchanged == UNCHANGED <<registered, mounted, alt_max_fd, boot>>

\* The driver's function may fail: the host refuses, the UART has no terminal
\* or would have to wait.
Answers(f) == IF fds[f].dev = Null THEN {"ok"} ELSE {"ok", "error"}

Opened(f) == IF fds[f].dev = HostFs THEN {fds[f].priv} ELSE {}

\* Slip: the host is not asked, and the file stays open there.
alt_hostfs_close_nothing(f) == {[ret |-> "ok", open |-> Opened(f)]}

\* What the host answers, and what it leaves open: it may refuse, and a file it
\* refuses to close may stay open or not.
alt_hostfs_close(f) ==
    {[ret |-> "ok", open |-> {}]}
        \cup {[ret |-> "error", open |-> left] : left \in {{}, Opened(f)}}

\* The ways the driver's close may end.
CloseEnds(f) ==
    IF fds[f].dev = HostFs THEN alt_hostfs_close(f)
    ELSE {[ret |-> answer, open |-> {}] : answer \in Answers(f)}

DriverCloses(f) ==
    \E end \in CloseEnds(f) :
        /\ ret' = end.ret
        /\ handles' = (handles \ Opened(f)) \cup end.open
        /\ stranded' = IF end.ret = "error" THEN stranded \cup end.open ELSE stranded

\* Slip: a descriptor whose close has failed is kept.
alt_close_on_success(f) ==
    /\ Calls(f)
    /\ DriverCloses(f)
    /\ fds' = IF ret' = "ok" THEN alt_release_fd(fds, f) ELSE fds
    /\ held' = held \ {f}
    /\ Unchanged

\* The descriptor is given back whatever the driver's close has returned.
alt_close(f) ==
    /\ Calls(f)
    /\ DriverCloses(f)
    /\ fds' = alt_release_fd(fds, f)
    /\ held' = held \ {f}
    /\ Unchanged

\* A call that changes no state of this module, and can succeed only if able.
Asks(f, able, answers) ==
    /\ Calls(f)
    /\ ret' \in IF able THEN answers ELSE {"error"}
    /\ UNCHANGED <<fds, handles, held, stranded>> /\ Unchanged

\* /dev/null has no read function.
alt_read(f) == Asks(f, fds[f].mode # "WRONLY" /\ fds[f].dev # Null, Answers(f))

alt_write(f) == Asks(f, fds[f].mode # "RDONLY", Answers(f))

\* Only the host has an lseek and an fstat function; without the latter a
\* device counts as a terminal.
alt_lseek(f) == Asks(f, fds[f].dev = HostFs, Answers(f))

alt_fstat(f) ==
    Asks(f, TRUE, IF fds[f].dev = HostFs THEN Answers(f) ELSE {"ok"})

\* When fstat fails the answer depends on a structure that nobody has filled;
\* it is never an error.
alt_isatty(f) == Asks(f, TRUE, {"ok"})

\* Any request that is not one of those below: only the UART answers some.
alt_ioctl(f) == Asks(f, fds[f].dev \notin {Null, HostFs}, Answers(f))

\* F_SETFL
alt_fcntl(f) ==
    /\ Calls(f)
    /\ \E flags \in SUBSET {"NONBLOCK"} :
         fds' = [fds EXCEPT ![f].flags = (@ \ {"NONBLOCK"}) \cup flags]
    /\ ret' = "ok"
    /\ UNCHANGED <<handles, held, stranded>> /\ Unchanged

\* TIOCEXCL on a device: refused when another descriptor below the highwater
\* mark has the same device.
alt_fd_lock(f) ==
    /\ Calls(f) /\ "DEV" \in fds[f].flags
    /\ IF \E g \in 0..(alt_max_fd - 1) : g # f /\ fds[g].dev = fds[f].dev
       THEN ret' = "error" /\ UNCHANGED fds
       ELSE ret' = "ok" /\ fds' = [fds EXCEPT ![f].flags = @ \cup {"EXCL"}]
    /\ UNCHANGED <<handles, held, stranded>> /\ Unchanged

\* TIOCNXCL
alt_fd_unlock(f) ==
    /\ Calls(f) /\ "DEV" \in fds[f].flags
    /\ fds' = [fds EXCEPT ![f].flags = @ \ {"EXCL"}]
    /\ ret' = "ok"
    /\ UNCHANGED <<handles, held, stranded>> /\ Unchanged

-----------------------------------------------------------------------------

FilesNext ==
    \/ (\E dev \in Devices : alt_dev_llist_insert(dev)) \/ alt_fs_reg
    \/ alt_io_redirect \/ Open
    \/ \E f \in Fds :
         \/ alt_close(f) \/ alt_read(f) \/ alt_write(f) \/ alt_lseek(f)
         \/ alt_fstat(f) \/ alt_isatty(f) \/ alt_fcntl(f)
         \/ alt_fd_lock(f) \/ alt_fd_unlock(f) \/ alt_ioctl(f)

FilesSpec == FilesInit /\ [][FilesNext]_filesVars

-----------------------------------------------------------------------------
(* Properties *)

Entries == [dev : Devices \cup {Null, HostFs, None}, priv : Handles \cup {0},
            mode : {"RDONLY", "WRONLY", "RDWR"}, flags : SUBSET {"NONBLOCK", "DEV", "EXCL"}]

\* The fields stay in range.
FilesTypeOK ==
    /\ registered \subseteq Devices \cup {Null} /\ mounted \in BOOLEAN
    /\ fds \in [Fds -> Entries]
    /\ alt_max_fd \in (-1)..(ALT_MAX_FD - 1)
    /\ handles \subseteq Handles /\ stranded \subseteq Handles
    /\ held \subseteq Fds \ Streams
    /\ boot \in {"init", "stdin", "stderr", "main"} /\ ret \in {"ok", "error"}

\* An entry of the table is in use exactly while the program holds it: an open
\* that fails half way gives its entry back, and so does a close that reports
\* an error.  The streams always have a device, and the redirection of the
\* streams leaves no entry taken.
TableIsExact ==
    /\ {f \in Fds \ Streams : fds[f].dev # None} = held
    /\ \A s \in Streams : fds[s].dev \in {Null, Stdio}

\* Every held descriptor of the host has a file of its own that is open there,
\* so no call goes to a file that is closed or somebody else's.  No descriptor
\* leads to the other files open there, and those are just the ones the host
\* refused to close: nothing else that fails leaks a file.
OnHost == {f \in held : fds[f].dev = HostFs}

HandlesAreExact ==
    /\ handles = {fds[f].priv : f \in OnHost} \cup stranded
    /\ \A f \in OnHost : fds[f].priv \notin stranded
    /\ \A f, g \in OnHost : fds[f].priv = fds[g].priv => f = g

\* While a descriptor holds its device for itself, nobody else gets to open it.
LockKeepsOthersOut ==
    [][\A f \in Fds :
         "EXCL" \in fds[f].flags /\ "EXCL" \in fds'[f].flags
            => \A g \in Fds : fds'[g].dev = fds[f].dev => fds[g].dev = fds[f].dev]_filesVars
=============================================================================
