----------------------------- MODULE Hal_proofs -----------------------------
(***************************************************************************)
(* What the board support package promises, whoever calls it when.         *)
(*                                                                         *)
(* Files, for every size of the table, every device, name and host: the    *)
(* table of descriptors and the files open at the host are exactly what    *)
(* the program holds, and a device held by a lock is not opened by anybody *)
(* else.                                                                   *)
(*                                                                         *)
(* Interrupts, for any number of interrupts, any depth of nesting and any  *)
(* heap: routines nest by priority and get their own context, the masks    *)
(* are exact, and sbrk gives out no byte twice.                            *)
(*                                                                         *)
(* TimeOfDay, for every set of alarms, width of the tick counter, delay    *)
(* and period: the list of alarms is in order, and every alarm executes in *)
(* the tick it is due, also across the wrap of the counter, as long as     *)
(* callbacks stop no other alarm.  For every tick rate that divides the    *)
(* second: the wall clock shows the time set and the ticks since.          *)
(***************************************************************************)
EXTENDS Files, Interrupts, TimeOfDay, FiniteSetTheorems, SequenceTheorems,
        WellFoundedInduction, TLAPS

-----------------------------------------------------------------------------
(* Numbers *)

\* A set of natural numbers that is not empty has a minimum.
LEMMA MinInSet ==
    ASSUME NEW S, S \subseteq Nat, S # {}
    PROVE  Min(S) \in S
<1> DEFINE Less == {p \in Nat \X Nat : p[1] < p[2]}
<1>1. OpToRel(<, Nat) = Less
  BY DEF OpToRel
<1>2. IsWellFoundedOn(Less, Nat)
  BY <1>1, NatLessThanWellFounded
<1>3. PICK x \in S : \A y \in S : ~(<<y, x>> \in Less)
  BY <1>2, WFMin
<1>4. ASSUME NEW y \in S PROVE x <= y
  <2>1. ~(y < x)
    BY <1>3
  <2> QED BY <2>1
<1> HIDE DEF Less
<1>5. \E z \in S : \A y \in S : z <= y
  BY <1>4
<1> QED BY <1>5 DEF Min

-----------------------------------------------------------------------------
(* Files: the inductive invariant *)

\* Locks are on devices only, and not before main; the highwater mark is above
\* every entry in use, so that alt_file_locked looks at all of them.
Marks ==
    /\ \A f \in Fds : "EXCL" \in fds[f].flags => "DEV" \in fds[f].flags /\ boot = "main"
    /\ \A f \in Fds : "DEV" \in fds[f].flags => fds[f].dev \in Devices \cup {Null}
    /\ \A f \in Fds \ Streams : fds[f].dev # None => f <= alt_max_fd
    /\ \A s \in Streams : fds[s].dev \in Devices \cup {Null}
    /\ boot # "main" => held = {}

FilesIInv == FilesTypeOK /\ TableIsExact /\ HandlesAreExact /\ Marks

LEMMA StreamsAreFds == Streams \subseteq Fds /\ Fds \subseteq Nat
BY FilesAssumption DEF Streams, Fds

LEMMA NamesDiffer ==
    /\ Null # None /\ HostFs # None /\ HostFs # Null
    /\ None \notin Devices /\ HostFs \notin Devices
BY FilesAssumption DEF Null, HostFs, None

LEMMA FilesInitIInv == FilesInit => FilesIInv
<1> SUFFICES ASSUME FilesInit PROVE FilesIInv
  OBVIOUS
<1>1. FilesTypeOK
  <2>1. Free \in Entries /\ [Free EXCEPT !.dev = Null] \in Entries
    BY DEF Free, Entries
  <2>2. fds \in [Fds -> Entries]
    BY <2>1 DEF FilesInit
  <2>3. alt_max_fd \in (-1)..(ALT_MAX_FD - 1)
    BY FilesAssumption DEF FilesInit
  <2>4. registered \subseteq Devices \cup {Null} /\ mounted \in BOOLEAN
        /\ handles \subseteq Handles /\ stranded \subseteq Handles
        /\ held \subseteq Fds \ Streams
    BY DEF FilesInit
  <2>5. boot \in {"init", "stdin", "stderr", "main"} /\ ret \in {"ok", "error"}
    BY DEF FilesInit
  <2> QED BY <2>2, <2>3, <2>4, <2>5 DEF FilesTypeOK
<1>2. TableIsExact
  BY NamesDiffer, StreamsAreFds DEF FilesInit, TableIsExact, Free
<1>3. HandlesAreExact
  BY DEF FilesInit, HandlesAreExact, OnHost
<1>4. Marks
  BY NamesDiffer, StreamsAreFds DEF FilesInit, Marks, Free
<1> QED BY <1>1, <1>2, <1>3, <1>4 DEF FilesIInv

-----------------------------------------------------------------------------
(* What a call of open leaves behind *)

\* It fails before it takes an entry; after it has taken entry f, which it
\* gives back; or it succeeds, on a device or on a file of the host.
Untouched(end) ==
    /\ end.index = -1 /\ end.fds = fds /\ end.max = alt_max_fd /\ end.handles = handles

GivenBack(end, f) ==
    /\ end.index = -1 /\ end.max = Highwater(f) /\ end.handles = handles
    /\ end.fds = [fds EXCEPT ![f] = [dev |-> None, priv |-> fds[f].priv,
                                     mode |-> "RDONLY", flags |-> {}]]

OnDevice(end, f, name, mode, flags) ==
    /\ end.index = f /\ end.max = Highwater(f) /\ end.handles = handles
    /\ name \in registered
    /\ end.fds = [fds EXCEPT ![f] = [dev |-> name, priv |-> fds[f].priv,
                                     mode |-> mode, flags |-> flags \cup {"DEV"}]]
    /\ \A g \in 0..Highwater(f) :
          g # f /\ fds[g].dev = name => "EXCL" \notin fds[g].flags

AtHost(end, f, h, name, mode, flags) ==
    /\ end.index = f /\ end.max = Highwater(f) /\ end.handles = handles \cup {h}
    /\ name \in Paths /\ h \in Handles \ handles
    /\ end.fds = [fds EXCEPT ![f] = [dev |-> HostFs, priv |-> h,
                                     mode |-> mode, flags |-> flags]]

\* An entry that is taken and given back, and one that gets its handle.
Taken(f, dev, mode, flags) ==
    [fds EXCEPT ![f] = [dev |-> dev, priv |-> fds[f].priv, mode |-> mode, flags |-> flags]]

LEMMA TakeAndGiveBack ==
    ASSUME fds \in [Fds -> Entries], NEW f \in Fds \ Streams,
           NEW dev, NEW mode, NEW flags
    PROVE  /\ alt_release_fd(Taken(f, dev, mode, flags), f)
                = [fds EXCEPT ![f] = [dev |-> None, priv |-> fds[f].priv,
                                      mode |-> "RDONLY", flags |-> {}]]
           /\ \A h : [Taken(f, dev, mode, flags) EXCEPT ![f].priv = h]
                = [fds EXCEPT ![f] = [dev |-> dev, priv |-> h,
                                      mode |-> mode, flags |-> flags]]
<1> DEFINE taken == Taken(f, dev, mode, flags)
<1>1. taken[f] = [dev |-> dev, priv |-> fds[f].priv, mode |-> mode, flags |-> flags]
      /\ DOMAIN taken = Fds /\ \A g \in Fds \ {f} : taken[g] = fds[g]
  BY DEF Taken
<1>2. \A e : [taken EXCEPT ![f] = e] = [fds EXCEPT ![f] = e]
  BY DEF Taken
<1> HIDE DEF taken
<1>3. alt_release_fd(taken, f) = [taken EXCEPT ![f] = [Free EXCEPT !.priv = fds[f].priv]]
  BY <1>1 DEF alt_release_fd
<1>4. [Free EXCEPT !.priv = fds[f].priv]
        = [dev |-> None, priv |-> fds[f].priv, mode |-> "RDONLY", flags |-> {}]
  BY DEF Free
<1>5. ASSUME NEW h
      PROVE  [taken EXCEPT ![f].priv = h]
               = [taken EXCEPT ![f] = [dev |-> dev, priv |-> h,
                                       mode |-> mode, flags |-> flags]]
  <2>1. [taken[f] EXCEPT !.priv = h]
          = [dev |-> dev, priv |-> h, mode |-> mode, flags |-> flags]
    BY <1>1
  <2>2. [taken EXCEPT ![f].priv = h] = [taken EXCEPT ![f] = [taken[f] EXCEPT !.priv = h]]
    OBVIOUS
  <2> QED BY <2>1, <2>2
<1>6. /\ alt_release_fd(taken, f)
           = [fds EXCEPT ![f] = [dev |-> None, priv |-> fds[f].priv,
                                 mode |-> "RDONLY", flags |-> {}]]
      /\ \A h : [taken EXCEPT ![f].priv = h]
           = [fds EXCEPT ![f] = [dev |-> dev, priv |-> h, mode |-> mode, flags |-> flags]]
  BY <1>2, <1>3, <1>4, <1>5
<1> QED BY <1>6 DEF taken

LEMMA OpenEnds ==
    ASSUME FilesIInv,
           NEW name \in Devices \cup Paths \cup {Null, Stdio},
           NEW mode \in {"RDONLY", "WRONLY", "RDWR"},
           NEW flags \in SUBSET {"NONBLOCK"},
           NEW end \in alt_open(name, mode, flags)
    PROVE  \/ Untouched(end)
           \/ \E f \in Fds \ Streams :
                /\ fds[f].dev = None
                /\ \/ GivenBack(end, f)
                   \/ OnDevice(end, f, name, mode, flags)
                   \/ \E h \in Handles : AtHost(end, f, h, name, mode, flags)
<1> DEFINE isdev == alt_find_dev(name) # None
           dev == IF isdev THEN alt_find_dev(name) ELSE alt_find_file(name)
           f == alt_get_fd
           max == Highwater(f)
           fl == IF isdev THEN flags \cup {"DEV"} ELSE flags
           taken == [fds EXCEPT ![f] = [dev |-> dev, priv |-> fds[f].priv, mode |-> mode,
                                        flags |-> fl]]
           refused(errno) == Outcome(-1, errno, alt_release_fd(taken, f), max, handles)
<1>1. end \in IF dev = None THEN {Outcome(-1, "ENODEV", fds, alt_max_fd, handles)}
              ELSE IF Unused = {} THEN {Outcome(-1, "EMFILE", fds, alt_max_fd, handles)}
              ELSE IF isdev /\ alt_file_locked(taken, f) THEN {refused("EACCES")}
              ELSE IF isdev THEN {Outcome(f, "ok", taken, max, handles)}
              ELSE {refused("host")}
                   \cup {Outcome(f, "ok", [taken EXCEPT ![f].priv = h], max, handles \cup {h})
                           : h \in alt_hostfs_open}
  BY DEF alt_open
<1>2. isdev => dev = name /\ name \in registered
  BY DEF alt_find_dev
<1>3. ~isdev /\ dev # None => dev = HostFs /\ name \in Paths
  BY DEF alt_find_file
<1>4. Unused # {} => f \in Fds \ Streams /\ fds[f].dev = None
  <2> SUFFICES ASSUME Unused # {} PROVE f \in Fds \ Streams /\ fds[f].dev = None
    OBVIOUS
  <2>1. f \in Unused
    BY MinInSet, StreamsAreFds DEF alt_get_fd, Unused
  <2> QED BY <2>1, NamesDiffer DEF FilesIInv, TableIsExact, Marks, Unused
<1>5. fds \in [Fds -> Entries]
  BY DEF FilesIInv, FilesTypeOK
<1>6. taken = Taken(f, dev, mode, fl)
      /\ max = Highwater(f) /\ (isdev => fl = flags \cup {"DEV"}) /\ (~isdev => fl = flags)
  BY DEF Taken
<1> HIDE DEF isdev, dev, f, max, fl, taken
<1>7. CASE dev = None \/ Unused = {}
  <2>1. end = Outcome(-1, "ENODEV", fds, alt_max_fd, handles)
        \/ end = Outcome(-1, "EMFILE", fds, alt_max_fd, handles)
    BY <1>1, <1>7
  <2> QED BY <2>1 DEF Outcome, Untouched
<1>8. CASE dev # None /\ Unused # {}
  <2>1. f \in Fds \ Streams /\ fds[f].dev = None
    BY <1>4, <1>8
  <2>2. alt_release_fd(taken, f)
          = [fds EXCEPT ![f] = [dev |-> None, priv |-> fds[f].priv,
                                mode |-> "RDONLY", flags |-> {}]]
        /\ \A h : [taken EXCEPT ![f].priv = h]
             = [fds EXCEPT ![f] = [dev |-> dev, priv |-> h, mode |-> mode, flags |-> fl]]
    <3> HIDE DEF refused
    <3> QED BY <2>1, <1>5, <1>6, TakeAndGiveBack
  <2>3. ASSUME NEW errno, end = refused(errno) PROVE GivenBack(end, f)
    BY <2>2, <2>3, <1>6 DEF Outcome, GivenBack
  <2>4. CASE isdev
    <3>1. end = refused("EACCES")
          \/ (end = Outcome(f, "ok", taken, max, handles) /\ ~alt_file_locked(taken, f))
      <4> HIDE DEF refused
      <4> QED BY <1>1, <1>8, <2>4
    <3>2. ASSUME end = Outcome(f, "ok", taken, max, handles), ~alt_file_locked(taken, f)
          PROVE  OnDevice(end, f, name, mode, flags)
      <4>1. taken[f].dev = name /\ \A g : g # f => taken[g] = fds[g]
        BY <1>2, <1>5, <1>6, <2>1, <2>4 DEF Taken
      <4>2. \A g \in 0..Highwater(f) :
               g # f /\ fds[g].dev = name => "EXCL" \notin fds[g].flags
        BY <3>2, <4>1 DEF alt_file_locked
      <4>3. taken = [fds EXCEPT ![f] = [dev |-> name, priv |-> fds[f].priv,
                                        mode |-> mode, flags |-> flags \cup {"DEV"}]]
        BY <1>2, <1>6, <2>4 DEF Taken
      <4> QED BY <1>2, <1>6, <2>4, <3>2, <4>2, <4>3 DEF Outcome, OnDevice
    <3> QED BY <2>1, <2>3, <3>1, <3>2
  <2>5. CASE ~isdev
    <3>1. end = refused("host")
          \/ \E h \in alt_hostfs_open :
               end = Outcome(f, "ok", [taken EXCEPT ![f].priv = h], max, handles \cup {h})
      <4> HIDE DEF refused
      <4> QED BY <1>1, <1>8, <2>5
    <3>2. ASSUME NEW h \in alt_hostfs_open,
                 end = Outcome(f, "ok", [taken EXCEPT ![f].priv = h], max, handles \cup {h})
          PROVE  h \in Handles /\ AtHost(end, f, h, name, mode, flags)
      <4>1. h \in Handles \ handles
        BY DEF alt_hostfs_open
      <4>2. [taken EXCEPT ![f].priv = h]
              = [fds EXCEPT ![f] = [dev |-> HostFs, priv |-> h, mode |-> mode, flags |-> flags]]
        BY <1>3, <1>6, <1>8, <2>2, <2>5
      <4> QED BY <1>3, <1>6, <1>8, <2>5, <3>2, <4>1, <4>2 DEF Outcome, AtHost
    <3> QED BY <2>1, <2>3, <3>1, <3>2
  <2> QED BY <2>4, <2>5
<1> QED BY <1>7, <1>8

-----------------------------------------------------------------------------
(* Preservation *)

\* What a step that leaves the lists alone has to show of the other variables.
LEMMA Quiet ==
    ASSUME FilesIInv, UNCHANGED <<registered, mounted, fds, alt_max_fd, handles, stranded, held>>,
           ret' \in {"ok", "error"},
           boot' \in {"init", "stdin", "stderr", "main"}, boot = "main" => boot' = "main",
           boot' # "main" => boot # "main"
    PROVE  FilesIInv'
BY DEF FilesIInv, FilesTypeOK, TableIsExact, HandlesAreExact, OnHost, Marks

\* What becomes of the file behind entry f: it is closed, or it is stranded.
FileLeft(f) ==
    IF fds[f].dev = HostFs
    THEN \/ handles' = handles \ {fds[f].priv} /\ stranded' = stranded
         \/ handles' = handles /\ stranded' = stranded \cup {fds[f].priv}
    ELSE handles' = handles /\ stranded' = stranded

\* Entry f is given back: by close, or by an open that fails half way.
LEMMA ReleaseIInv ==
    ASSUME FilesIInv, NEW f \in Fds \ Streams,
           fds' = [fds EXCEPT ![f] = [dev |-> None, priv |-> fds[f].priv,
                                      mode |-> "RDONLY", flags |-> {}]],
           held' = held \ {f}, FileLeft(f),
           alt_max_fd' \in {alt_max_fd, Highwater(f)},
           UNCHANGED <<registered, mounted>>, ret' \in {"ok", "error"},
           boot' \in {"init", "stdin", "stderr", "main"}, boot = "main" => boot' = "main",
           boot' # "main" => boot # "main"
    PROVE  FilesIInv'
<1>1. fds \in [Fds -> Entries] /\ alt_max_fd \in (-1)..(ALT_MAX_FD - 1)
      /\ f \in 0..(ALT_MAX_FD - 1)
  BY DEF FilesIInv, FilesTypeOK, Fds
<1>2. fds'[f] = [dev |-> None, priv |-> fds[f].priv, mode |-> "RDONLY", flags |-> {}]
      /\ \A g \in Fds \ {f} : fds'[g] = fds[g]
  BY <1>1
<1>3. fds' \in [Fds -> Entries]
  <2>1. [dev |-> None, priv |-> fds[f].priv, mode |-> "RDONLY", flags |-> {}] \in Entries
    BY <1>1 DEF Entries
  <2> QED BY <1>1, <2>1
<1>4. alt_max_fd' \in (-1)..(ALT_MAX_FD - 1) /\ alt_max_fd' >= alt_max_fd
  BY <1>1, FilesAssumption DEF Highwater
<1>5. FilesTypeOK'
  <2>1. fds[f].dev = HostFs => fds[f].priv \in handles
    BY NamesDiffer DEF FilesIInv, TableIsExact, HandlesAreExact, OnHost
  <2> QED BY <1>3, <1>4, <2>1 DEF FilesIInv, FilesTypeOK, FileLeft
<1>6. TableIsExact'
  <2>1. \A g \in Fds \ Streams : fds'[g].dev # None <=> g \in held'
    BY <1>2 DEF FilesIInv, TableIsExact
  <2>2. \A s \in Streams : fds'[s] = fds[s]
    BY <1>2, StreamsAreFds
  <2>3. held' \subseteq Fds \ Streams
    BY <1>5 DEF FilesTypeOK
  <2> QED BY <2>1, <2>2, <2>3 DEF FilesIInv, TableIsExact
<1>7. HandlesAreExact'
  <2>1. OnHost' = OnHost \ {f}
    BY <1>2, NamesDiffer DEF OnHost, FilesIInv, FilesTypeOK
  <2>2. \A g \in OnHost \ {f} : fds'[g] = fds[g]
    BY <1>2 DEF OnHost, FilesIInv, FilesTypeOK
  <2>3. /\ handles' = {fds[g].priv : g \in OnHost \ {f}} \cup stranded'
        /\ \A g \in OnHost \ {f} : fds[g].priv \notin stranded'
    <3>1. CASE f \in OnHost
      BY <3>1 DEF FilesIInv, HandlesAreExact, FileLeft, OnHost
    <3>2. CASE f \notin OnHost
      <4>1. fds[f].dev # HostFs
        BY <3>2, NamesDiffer DEF OnHost, FilesIInv, TableIsExact
      <4> QED BY <3>2, <4>1 DEF FilesIInv, HandlesAreExact, FileLeft
    <3> QED BY <3>1, <3>2
  <2>4. /\ handles' = {fds'[g].priv : g \in OnHost'} \cup stranded'
        /\ \A g \in OnHost' : fds'[g].priv \notin stranded'
    BY <2>1, <2>2, <2>3
  <2>5. \A g, h \in OnHost' : fds'[g].priv = fds'[h].priv => g = h
    BY <2>1, <2>2 DEF FilesIInv, HandlesAreExact
  <2> QED BY <2>4, <2>5 DEF HandlesAreExact
<1>8. Marks'
  <2>1. \A g \in Fds : "EXCL" \in fds'[g].flags => "DEV" \in fds'[g].flags /\ boot' = "main"
    BY <1>2 DEF FilesIInv, Marks
  <2>2. \A g \in Fds : "DEV" \in fds'[g].flags => fds'[g].dev \in Devices \cup {Null}
    BY <1>2 DEF FilesIInv, Marks
  <2>3. \A g \in Fds \ Streams : fds'[g].dev # None => g <= alt_max_fd'
    BY <1>1, <1>2, <1>4, StreamsAreFds DEF FilesIInv, Marks
  <2>4. \A s \in Streams : fds'[s] = fds[s]
    BY <1>2, StreamsAreFds
  <2>5. boot' # "main" => held' = {}
    BY DEF FilesIInv, Marks
  <2> QED BY <2>1, <2>2, <2>3, <2>4, <2>5 DEF FilesIInv, Marks
<1> QED BY <1>5, <1>6, <1>7, <1>8 DEF FilesIInv

\* Entry f goes to the program, for a device or for a file of the host.
LEMMA TakeIInv ==
    ASSUME FilesIInv, NEW f \in Fds \ Streams, fds[f].dev = None, boot = "main",
           NEW e \in Entries, fds' = [fds EXCEPT ![f] = e],
           \/ /\ e.dev \in Devices \cup {Null} /\ handles' = handles
           \/ /\ e.dev = HostFs /\ "DEV" \notin e.flags
              /\ e.priv \in Handles \ handles /\ handles' = handles \cup {e.priv},
           "EXCL" \notin e.flags,
           held' = held \cup {f}, alt_max_fd' = Highwater(f),
           UNCHANGED <<registered, mounted, boot, stranded>>, ret' \in {"ok", "error"}
    PROVE  FilesIInv'
<1>1. fds \in [Fds -> Entries] /\ alt_max_fd \in (-1)..(ALT_MAX_FD - 1)
      /\ f \in 0..(ALT_MAX_FD - 1) /\ f \notin held /\ held \subseteq Fds \ Streams
  BY DEF FilesIInv, FilesTypeOK, Fds, TableIsExact
<1>2. fds'[f] = e /\ \A g \in Fds \ {f} : fds'[g] = fds[g]
  BY <1>1
<1>3. fds' \in [Fds -> Entries]
  BY <1>1
<1>4. alt_max_fd' \in (-1)..(ALT_MAX_FD - 1) /\ alt_max_fd' >= alt_max_fd /\ f <= alt_max_fd'
  BY <1>1, FilesAssumption DEF Highwater
<1>5. FilesTypeOK'
  BY <1>3, <1>4 DEF FilesIInv, FilesTypeOK
<1>6. TableIsExact'
  <2>1. e.dev # None
    BY NamesDiffer
  <2>2. \A g \in Fds \ Streams : fds'[g].dev # None <=> g \in held'
    BY <1>2, <2>1 DEF FilesIInv, TableIsExact
  <2>3. \A s \in Streams : fds'[s] = fds[s]
    BY <1>2, StreamsAreFds
  <2>4. held' \subseteq Fds \ Streams
    BY <1>5 DEF FilesTypeOK
  <2> QED BY <2>2, <2>3, <2>4 DEF FilesIInv, TableIsExact
<1>7. HandlesAreExact'
  <2>1. \A g \in OnHost : fds'[g] = fds[g] /\ fds'[g].priv \in handles
    BY <1>1, <1>2 DEF OnHost, FilesIInv, HandlesAreExact
  <2>2. CASE e.dev = HostFs
    <3>1. OnHost' = OnHost \cup {f}
      BY <1>1, <1>2, <2>2 DEF OnHost
    <3>2. e.priv \in Handles \ handles /\ handles' = handles \cup {e.priv}
      BY <2>2, NamesDiffer
    <3>3. /\ handles' = {fds'[g].priv : g \in OnHost \cup {f}} \cup stranded
          /\ \A g \in OnHost \cup {f} : fds'[g].priv \notin stranded
      BY <1>2, <2>1, <3>2 DEF FilesIInv, HandlesAreExact
    <3>4. \A g, h \in OnHost \cup {f} : fds'[g].priv = fds'[h].priv => g = h
      BY <1>2, <2>1, <3>2 DEF FilesIInv, HandlesAreExact
    <3> QED BY <3>1, <3>3, <3>4 DEF HandlesAreExact
  <2>3. CASE e.dev # HostFs
    <3>1. OnHost' = OnHost
      BY <1>1, <1>2, <2>3 DEF OnHost
    <3> QED BY <2>1, <2>3, <3>1 DEF FilesIInv, HandlesAreExact
  <2> QED BY <2>2, <2>3
<1>8. Marks'
  <2>1. \A g \in Fds : "EXCL" \in fds'[g].flags => "DEV" \in fds'[g].flags /\ boot' = "main"
    BY <1>2 DEF FilesIInv, Marks
  <2>2. \A g \in Fds : "DEV" \in fds'[g].flags => fds'[g].dev \in Devices \cup {Null}
    BY <1>2, NamesDiffer DEF FilesIInv, Marks
  <2>3. \A g \in Fds \ Streams : fds'[g].dev # None => g <= alt_max_fd'
    BY <1>1, <1>2, <1>4, StreamsAreFds DEF FilesIInv, Marks
  <2>4. \A s \in Streams : fds'[s] = fds[s]
    BY <1>2, StreamsAreFds
  <2> QED BY <2>1, <2>2, <2>3, <2>4 DEF FilesIInv, Marks
<1> QED BY <1>5, <1>6, <1>7, <1>8 DEF FilesIInv

\* The flags of a descriptor change: fcntl, and the lock and unlock of a device.
LEMMA FlagsIInv ==
    ASSUME FilesIInv, NEW f \in Fds, boot = "main",
           NEW fl \in SUBSET {"NONBLOCK", "DEV", "EXCL"},
           "DEV" \in fl <=> "DEV" \in fds[f].flags,
           "EXCL" \in fl => "DEV" \in fl,
           fds' = [fds EXCEPT ![f].flags = fl],
           UNCHANGED <<registered, mounted, alt_max_fd, handles, stranded, boot, held>>,
           ret' \in {"ok", "error"}
    PROVE  FilesIInv'
<1>1. fds \in [Fds -> Entries]
  BY DEF FilesIInv, FilesTypeOK
<1>2. fds'[f] = [fds[f] EXCEPT !.flags = fl] /\ \A g \in Fds \ {f} : fds'[g] = fds[g]
  BY <1>1
<1>3. fds'[f].flags = fl /\ fds'[f].dev = fds[f].dev /\ fds'[f].priv = fds[f].priv
      /\ fds'[f] \in Entries
  BY <1>1, <1>2 DEF Entries
<1>4. fds' \in [Fds -> Entries]
  BY <1>1, <1>2, <1>3
<1>5. \A g \in Fds : fds'[g].dev = fds[g].dev /\ fds'[g].priv = fds[g].priv
  BY <1>2, <1>3
<1>6. FilesTypeOK'
  BY <1>4 DEF FilesIInv, FilesTypeOK
<1>7. TableIsExact'
  BY <1>5, StreamsAreFds DEF FilesIInv, TableIsExact
<1>8. HandlesAreExact'
  <2>1. OnHost' = OnHost /\ OnHost \subseteq Fds
    BY <1>5 DEF FilesIInv, FilesTypeOK, OnHost
  <2> QED BY <1>5, <2>1 DEF FilesIInv, HandlesAreExact
<1>9. Marks'
  <2>1. \A g \in Fds : "EXCL" \in fds'[g].flags => "DEV" \in fds'[g].flags /\ boot' = "main"
    BY <1>2, <1>3 DEF FilesIInv, Marks
  <2>2. \A g \in Fds : "DEV" \in fds'[g].flags => fds'[g].dev \in Devices \cup {Null}
    BY <1>2, <1>3 DEF FilesIInv, Marks
  <2> QED BY <1>5, <2>1, <2>2, StreamsAreFds DEF FilesIInv, Marks
<1> QED BY <1>6, <1>7, <1>8, <1>9 DEF FilesIInv

\* Stream s takes over what was opened as entry f, which is given back.
LEMMA RedirectIInv ==
    ASSUME FilesIInv, NEW s \in Streams, NEW f \in Fds \ Streams, fds[f].dev = None,
           boot # "main", Stdio \in registered, "DEV" \in fds'[s].flags,
           "EXCL" \notin fds'[s].flags, fds'[s].dev = Stdio,
           fds' \in [Fds -> Entries],
           fds'[f].dev = None /\ fds'[f].flags = {},
           \A g \in Fds \ {s, f} : fds'[g] = fds[g],
           alt_max_fd' = Highwater(f),
           UNCHANGED <<registered, mounted, handles, stranded, held>>, ret' = ret,
           boot' \in {"stdin", "stderr", "main"}
    PROVE  FilesIInv'
<1>1. fds \in [Fds -> Entries] /\ alt_max_fd \in (-1)..(ALT_MAX_FD - 1)
      /\ f \in 0..(ALT_MAX_FD - 1) /\ held = {} /\ Stdio \in Devices \cup {Null}
  BY DEF FilesIInv, FilesTypeOK, Fds, Marks
<1>2. alt_max_fd' \in (-1)..(ALT_MAX_FD - 1) /\ alt_max_fd' >= alt_max_fd
  BY <1>1, FilesAssumption DEF Highwater
<1>3. FilesTypeOK'
  BY <1>2 DEF FilesIInv, FilesTypeOK
<1>4. TableIsExact'
  <2>1. \A g \in Fds \ Streams : fds'[g].dev = None
    BY <1>1 DEF FilesIInv, TableIsExact
  <2>2. \A g \in Streams : fds'[g].dev \in {Null, Stdio}
    BY StreamsAreFds DEF FilesIInv, TableIsExact
  <2> QED BY <1>1, <2>1, <2>2 DEF TableIsExact
<1>5. HandlesAreExact'
  BY <1>1 DEF FilesIInv, HandlesAreExact, OnHost
<1>6. Marks'
  <2>1. \A g \in Fds : "EXCL" \notin fds'[g].flags
    BY DEF FilesIInv, Marks
  <2>2. \A g \in Fds : "DEV" \in fds'[g].flags => fds'[g].dev \in Devices \cup {Null}
    BY <1>1 DEF FilesIInv, Marks
  <2>3. \A g \in Fds \ Streams : fds'[g].dev # None => g <= alt_max_fd'
    BY <1>1, <1>2, StreamsAreFds DEF FilesIInv, Marks
  <2>4. \A g \in Streams : fds'[g].dev \in Devices \cup {Null}
    BY <1>1, StreamsAreFds DEF FilesIInv, Marks
  <2> QED BY <1>1, <2>1, <2>2, <2>3, <2>4 DEF Marks
<1> QED BY <1>3, <1>4, <1>5, <1>6 DEF FilesIInv

-----------------------------------------------------------------------------
(* The actions *)

LEMMA InsertIInv ==
    ASSUME FilesIInv, \/ \E dev \in Devices : alt_dev_llist_insert(dev)
                 \/ alt_fs_reg
    PROVE  FilesIInv'
<1>1. UNCHANGED <<fds, alt_max_fd, handles, stranded, boot, held, ret>>
      /\ registered' \subseteq Devices \cup {Null} /\ mounted' \in BOOLEAN
  BY DEF FilesIInv, FilesTypeOK, alt_dev_llist_insert, alt_fs_reg
<1> QED BY <1>1 DEF FilesIInv, FilesTypeOK, TableIsExact, HandlesAreExact, OnHost, Marks

LEMMA OpenIInv == ASSUME FilesIInv, Open PROVE FilesIInv'
<1>1. PICK name \in Devices \cup Paths \cup {Null}, mode \in Modes,
           flags \in SUBSET {"NONBLOCK"} : \E end \in alt_open(name, mode, flags) :
             /\ fds' = end.fds /\ alt_max_fd' = end.max /\ handles' = end.handles
             /\ held' = IF end.index = -1 THEN held ELSE held \cup {end.index}
             /\ ret' = IF end.errno = "ok" THEN "ok" ELSE "error"
  BY DEF Open
<1>2. PICK end \in alt_open(name, mode, flags) :
             /\ fds' = end.fds /\ alt_max_fd' = end.max /\ handles' = end.handles
             /\ held' = IF end.index = -1 THEN held ELSE held \cup {end.index}
             /\ ret' = IF end.errno = "ok" THEN "ok" ELSE "error"
  BY <1>1
<1>3. mode \in {"RDONLY", "WRONLY", "RDWR"} /\ flags \subseteq {"NONBLOCK"}
  BY FilesAssumption
<1>4. boot = "main" /\ UNCHANGED <<registered, mounted, boot, stranded>>
      /\ ret' \in {"ok", "error"}
  BY <1>2 DEF Open
<1>5. CASE Untouched(end)
  BY <1>2, <1>4, <1>5, Quiet DEF Untouched
<1>6. ASSUME NEW f \in Fds \ Streams, fds[f].dev = None,
             \/ GivenBack(end, f)
             \/ OnDevice(end, f, name, mode, flags)
             \/ \E h \in Handles : AtHost(end, f, h, name, mode, flags)
      PROVE  FilesIInv'
  <2>1. f # -1 /\ fds[f].priv \in Handles \cup {0}
    BY StreamsAreFds DEF FilesIInv, FilesTypeOK, Entries
  <2>2. CASE GivenBack(end, f)
    <3>1. held \ {f} = held /\ fds[f].dev # HostFs
      BY <1>6, NamesDiffer DEF FilesIInv, TableIsExact
    <3>2. held' = held \ {f} /\ FileLeft(f) /\ alt_max_fd' = Highwater(f)
          /\ fds' = [fds EXCEPT ![f] = [dev |-> None, priv |-> fds[f].priv,
                                        mode |-> "RDONLY", flags |-> {}]]
      BY <1>2, <1>4, <2>2, <3>1 DEF GivenBack, FileLeft
    <3> QED BY <1>4, <3>2, ReleaseIInv
  <2>3. CASE OnDevice(end, f, name, mode, flags)
    <3> DEFINE e == [dev |-> name, priv |-> fds[f].priv,
                     mode |-> mode, flags |-> flags \cup {"DEV"}]
    <3>1. name \in Devices \cup {Null}
      BY <2>3 DEF OnDevice, FilesIInv, FilesTypeOK
    <3>2. e \in Entries /\ "EXCL" \notin e.flags /\ e.dev = name
      BY <1>3, <2>1, <3>1 DEF Entries
    <3>3. held' = held \cup {f} /\ handles' = handles /\ alt_max_fd' = Highwater(f)
          /\ fds' = [fds EXCEPT ![f] = e]
      BY <1>2, <2>1, <2>3 DEF OnDevice
    <3> HIDE DEF e
    <3> QED BY <1>4, <1>6, <3>1, <3>2, <3>3, TakeIInv
  <2>4. ASSUME NEW h \in Handles, AtHost(end, f, h, name, mode, flags) PROVE FilesIInv'
    <3> DEFINE e == [dev |-> HostFs, priv |-> h, mode |-> mode, flags |-> flags]
    <3>1. e \in Entries /\ "EXCL" \notin e.flags /\ "DEV" \notin e.flags
          /\ e.dev = HostFs /\ e.priv = h
      BY <1>3 DEF Entries
    <3>2. held' = held \cup {f} /\ handles' = handles \cup {h} /\ alt_max_fd' = Highwater(f)
          /\ fds' = [fds EXCEPT ![f] = e] /\ h \in Handles \ handles
      BY <1>2, <2>1, <2>4 DEF AtHost
    <3> HIDE DEF e
    <3> QED BY <1>4, <1>6, <3>1, <3>2, TakeIInv
  <2> QED BY <1>6, <2>2, <2>3, <2>4
<1> QED BY <1>3, <1>5, <1>6, OpenEnds

LEMMA RedirectStep ==
    ASSUME FilesIInv, NEW s \in Streams, NEW mode \in {"RDONLY", "WRONLY"}, boot # "main",
           alt_open_fd(s, mode), boot' \in {"stdin", "stderr", "main"}
    PROVE  FilesIInv'
<1>1. PICK end \in alt_open(Stdio, mode, {}) :
        /\ fds' = IF end.index = -1 THEN end.fds
                  ELSE alt_release_fd([end.fds EXCEPT ![s] = end.fds[end.index]],
                                      end.index)
        /\ alt_max_fd' = end.max /\ handles' = end.handles
        /\ UNCHANGED <<registered, mounted, held, stranded, ret>>
  BY DEF alt_open_fd
<1>2. ret' \in {"ok", "error"} /\ held = {}
  BY <1>1 DEF FilesIInv, FilesTypeOK, Marks
<1>3. CASE Untouched(end)
  <2>1. fds' = fds /\ alt_max_fd' = alt_max_fd /\ handles' = handles
    BY <1>1, <1>3 DEF Untouched
  <2>2. FilesTypeOK' /\ TableIsExact' /\ HandlesAreExact' /\ Marks'
    <3>1. UNCHANGED <<registered, mounted, fds, alt_max_fd, handles, stranded, held, ret>>
      BY <1>1, <2>1
    <3>2. \A g \in Fds : "EXCL" \notin fds[g].flags
      BY DEF FilesIInv, Marks
    <3> QED BY <1>2, <3>1, <3>2 DEF FilesIInv, FilesTypeOK, TableIsExact, HandlesAreExact, OnHost, Marks
  <2> QED BY <2>2 DEF FilesIInv
<1>4. ASSUME NEW f \in Fds \ Streams, fds[f].dev = None,
             \/ GivenBack(end, f)
             \/ OnDevice(end, f, Stdio, mode, {})
             \/ \E h \in Handles : AtHost(end, f, h, Stdio, mode, {})
      PROVE  FilesIInv'
  <2>1. f # -1 /\ fds \in [Fds -> Entries] /\ s \in Fds /\ s # f
    BY StreamsAreFds DEF FilesIInv, FilesTypeOK
  <2>2. CASE GivenBack(end, f)
    <3>1. held \ {f} = held /\ fds[f].dev # HostFs
      BY <1>2, <1>4, NamesDiffer
    <3>2. held' = held \ {f} /\ FileLeft(f) /\ alt_max_fd' = Highwater(f)
          /\ fds' = [fds EXCEPT ![f] = [dev |-> None, priv |-> fds[f].priv,
                                        mode |-> "RDONLY", flags |-> {}]]
      BY <1>1, <2>2, <3>1 DEF GivenBack, FileLeft
    <3> QED BY <1>1, <1>2, <3>2, ReleaseIInv
  <2>3. CASE OnDevice(end, f, Stdio, mode, {})
    <3> DEFINE e == [dev |-> Stdio, priv |-> fds[f].priv, mode |-> mode, flags |-> {} \cup {"DEV"}]
               moved == [end.fds EXCEPT ![s] = end.fds[f]]
    <3>1. end.index = f /\ end.max = Highwater(f) /\ end.handles = handles
          /\ Stdio \in registered /\ end.fds = [fds EXCEPT ![f] = e]
      BY <2>3 DEF OnDevice
    <3>2. e \in Entries /\ e.dev = Stdio /\ e.flags = {"DEV"}
      BY <2>1, <3>1 DEF Entries, FilesIInv, FilesTypeOK
    <3> HIDE DEF e
    <3>3. moved \in [Fds -> Entries] /\ moved[s] = e /\ moved[f] = e
          /\ \A g \in Fds \ {s, f} : moved[g] = fds[g]
      BY <2>1, <3>1, <3>2
    <3> HIDE DEF moved
    <3>4. fds' = [moved EXCEPT ![f] = [Free EXCEPT !.priv = moved[f].priv]]
      BY <1>1, <2>1, <3>1 DEF alt_release_fd, moved
    <3> DEFINE empty == [Free EXCEPT !.priv = moved[f].priv]
    <3>5. empty.dev = None /\ empty.flags = {} /\ empty \in Entries
      <4>1. moved[f].priv \in Handles \cup {0}
        BY <3>3 DEF Entries
      <4>2. empty = [dev |-> None, priv |-> moved[f].priv, mode |-> "RDONLY", flags |-> {}]
        BY DEF Free
      <4> HIDE DEF empty
      <4> QED BY <4>1, <4>2 DEF Entries
    <3> HIDE DEF empty
    <3>6. fds' \in [Fds -> Entries] /\ fds'[s] = e /\ fds'[f] = empty
          /\ \A g \in Fds \ {s, f} : fds'[g] = fds[g]
      <4>1. fds' = [moved EXCEPT ![f] = empty]
        BY <3>4 DEF empty
      <4> QED BY <2>1, <3>3, <3>5, <4>1
    <3>7. "DEV" \in fds'[s].flags /\ "EXCL" \notin fds'[s].flags /\ fds'[s].dev = Stdio
      BY <3>2, <3>6
    <3>8. fds'[f].dev = None /\ fds'[f].flags = {}
      BY <3>5, <3>6
    <3>9. /\ Stdio \in registered /\ alt_max_fd' = Highwater(f)
          /\ UNCHANGED <<registered, mounted, handles, stranded, held>> /\ ret' = ret
      BY <1>1, <3>1
    <3> QED BY <1>1, <1>4, <3>6, <3>7, <3>8, <3>9, RedirectIInv
  <2>4. ASSUME NEW h \in Handles, AtHost(end, f, h, Stdio, mode, {}) PROVE FALSE
    BY <2>4, FilesAssumption DEF AtHost
  <2> QED BY <1>4, <2>2, <2>3, <2>4
<1>5. {} \in SUBSET {"NONBLOCK"} /\ mode \in {"RDONLY", "WRONLY", "RDWR"}
      /\ Stdio \in Devices \cup Paths \cup {Null, Stdio}
  OBVIOUS
<1> QED BY <1>3, <1>4, <1>5, OpenEnds

LEMMA RedirectIsSafe == ASSUME FilesIInv, alt_io_redirect PROVE FilesIInv'
<1>1. 0 \in Streams /\ 1 \in Streams /\ 2 \in Streams
  BY DEF Streams
<1>2. CASE boot = "init" /\ alt_open_fd(1, "WRONLY") /\ boot' = "stdin"
  BY <1>1, <1>2, RedirectStep
<1>3. CASE boot = "stdin" /\ alt_open_fd(0, "RDONLY") /\ boot' = "stderr"
  BY <1>1, <1>3, RedirectStep
<1>4. CASE boot = "stderr" /\ alt_open_fd(2, "WRONLY") /\ boot' = "main"
  BY <1>1, <1>4, RedirectStep
<1> QED BY <1>2, <1>3, <1>4 DEF alt_io_redirect

LEMMA AskIInv ==
    ASSUME FilesIInv, NEW f \in Fds, NEW able, NEW answers, answers \subseteq {"ok", "error"},
           Asks(f, able, answers)
    PROVE  FilesIInv'
<1>1. boot' = boot /\ boot \in {"init", "stdin", "stderr", "main"}
      /\ UNCHANGED <<registered, mounted, fds, alt_max_fd, handles, stranded, held>>
      /\ ret' \in {"ok", "error"}
  BY DEF Asks, Unchanged, FilesIInv, FilesTypeOK
<1> QED BY <1>1, Quiet

\* The driver's close leaves the file of a held descriptor closed or stranded.
LEMMA CloseLeaves ==
    ASSUME FilesIInv, NEW f \in Usable, DriverCloses(f)
    PROVE  FileLeft(f) /\ ret' \in {"ok", "error"}
<1>1. PICK end \in CloseEnds(f) :
        /\ ret' = end.ret
        /\ handles' = (handles \ Opened(f)) \cup end.open
        /\ stranded' = IF end.ret = "error" THEN stranded \cup end.open ELSE stranded
  BY DEF DriverCloses
<1>2. CASE fds[f].dev # HostFs
  <2>1. PICK answer \in Answers(f) : end = [ret |-> answer, open |-> {}]
    BY <1>2 DEF CloseEnds
  <2> QED BY <1>1, <1>2, <2>1 DEF Answers, Opened, FileLeft
<1>3. CASE fds[f].dev = HostFs
  <2>1. fds[f].priv \in handles
    BY <1>3, NamesDiffer DEF FilesIInv, HandlesAreExact, OnHost, Marks, Usable
  <2>2. \/ end = [ret |-> "ok", open |-> {}]
        \/ end = [ret |-> "error", open |-> {}]
        \/ end = [ret |-> "error", open |-> {fds[f].priv}]
    BY <1>3 DEF CloseEnds, alt_hostfs_close, Opened
  <2> QED BY <1>1, <1>3, <2>1, <2>2 DEF Opened, FileLeft
<1> QED BY <1>2, <1>3

LEMMA CloseIInv == ASSUME FilesIInv, NEW f \in Fds, alt_close(f) PROVE FilesIInv'
<1>1. boot = "main" /\ f \in Usable /\ boot' = boot
      /\ UNCHANGED <<registered, mounted, alt_max_fd>>
      /\ fds' = alt_release_fd(fds, f) /\ held' = held \ {f}
      /\ FileLeft(f) /\ ret' \in {"ok", "error"}
  BY CloseLeaves DEF alt_close, Calls, Unchanged
<1>2. CASE f \in Streams
  <2>1. fds' = fds /\ held' = held
    BY <1>1, <1>2 DEF alt_release_fd, FilesIInv, FilesTypeOK
  <2>2. handles' = handles /\ stranded' = stranded
    BY <1>1, <1>2, NamesDiffer DEF FileLeft, FilesIInv, Marks
  <2> QED BY <1>1, <2>1, <2>2, Quiet
<1>3. CASE f \notin Streams
  <2>1. [Free EXCEPT !.priv = fds[f].priv]
          = [dev |-> None, priv |-> fds[f].priv, mode |-> "RDONLY", flags |-> {}]
    BY DEF Free
  <2>2. fds' = [fds EXCEPT ![f] = [Free EXCEPT !.priv = fds[f].priv]]
    BY <1>1, <1>3 DEF alt_release_fd
  <2>3. fds' = [fds EXCEPT ![f] = [dev |-> None, priv |-> fds[f].priv,
                                   mode |-> "RDONLY", flags |-> {}]]
    BY <2>1, <2>2
  <2> QED BY <1>1, <1>3, <2>3, ReleaseIInv
<1> QED BY <1>2, <1>3

\* What fcntl, the lock and the unlock may write into the flags of f.
Flags(f, fl) ==
    /\ fl \subseteq {"NONBLOCK", "DEV", "EXCL"}
    /\ "DEV" \in fl <=> "DEV" \in fds[f].flags
    /\ "EXCL" \in fl => "DEV" \in fl
    /\ boot = "main"
    /\ UNCHANGED <<registered, mounted, alt_max_fd, handles, stranded, boot, held>>
    /\ ret' \in {"ok", "error"}

LEMMA FcntlFlags ==
    ASSUME FilesIInv, NEW f \in Fds, alt_fcntl(f)
    PROVE  \E fl : Flags(f, fl) /\ fds' = [fds EXCEPT ![f].flags = fl]
<1>1. PICK flags \in SUBSET {"NONBLOCK"} :
        fds' = [fds EXCEPT ![f].flags = (@ \ {"NONBLOCK"}) \cup flags]
  BY DEF alt_fcntl
<1> DEFINE fl == (fds[f].flags \ {"NONBLOCK"}) \cup flags
<1>2. fds' = [fds EXCEPT ![f].flags = fl]
  BY <1>1
<1>3. fds[f].flags \subseteq {"NONBLOCK", "DEV", "EXCL"}
  BY DEF FilesIInv, FilesTypeOK, Entries
<1>4. Flags(f, fl)
  BY <1>3 DEF Flags, FilesIInv, Marks, alt_fcntl, Calls, Unchanged
<1> HIDE DEF fl
<1> QED BY <1>2, <1>4

LEMMA LockFlags ==
    ASSUME FilesIInv, NEW f \in Fds, alt_fd_lock(f)
    PROVE  \/ UNCHANGED <<registered, mounted, fds, alt_max_fd, handles, stranded, boot, held>>
              /\ ret' = "error"
           \/ \E fl : Flags(f, fl) /\ fds' = [fds EXCEPT ![f].flags = fl]
<1> DEFINE fl == fds[f].flags \cup {"EXCL"}
<1>1. \/ ret' = "error" /\ UNCHANGED fds
      \/ ret' = "ok" /\ fds' = [fds EXCEPT ![f].flags = fl]
  BY DEF alt_fd_lock
<1>2. fds[f].flags \subseteq {"NONBLOCK", "DEV", "EXCL"}
  BY DEF FilesIInv, FilesTypeOK, Entries
<1>3. Flags(f, fl)
  BY <1>1, <1>2 DEF Flags, alt_fd_lock, Calls, Unchanged
<1>4. UNCHANGED <<registered, mounted, alt_max_fd, handles, stranded, boot, held>>
  BY DEF alt_fd_lock, Unchanged
<1> HIDE DEF fl
<1> QED BY <1>1, <1>3, <1>4

LEMMA UnlockFlags ==
    ASSUME FilesIInv, NEW f \in Fds, alt_fd_unlock(f)
    PROVE  \E fl : Flags(f, fl) /\ fds' = [fds EXCEPT ![f].flags = fl]
<1> DEFINE fl == fds[f].flags \ {"EXCL"}
<1>1. fds' = [fds EXCEPT ![f].flags = fl]
  BY DEF alt_fd_unlock
<1>2. fds[f].flags \subseteq {"NONBLOCK", "DEV", "EXCL"}
  BY DEF FilesIInv, FilesTypeOK, Entries
<1>3. Flags(f, fl)
  BY <1>2 DEF Flags, alt_fd_unlock, Calls, Unchanged
<1> HIDE DEF fl
<1> QED BY <1>1, <1>3

LEMMA FlagsStep ==
    ASSUME FilesIInv, NEW f \in Fds, alt_fcntl(f) \/ alt_fd_lock(f) \/ alt_fd_unlock(f)
    PROVE  FilesIInv'
<1>1. ASSUME NEW fl, Flags(f, fl), fds' = [fds EXCEPT ![f].flags = fl] PROVE FilesIInv'
  BY <1>1, FlagsIInv DEF Flags
<1>2. ASSUME UNCHANGED <<registered, mounted, fds, alt_max_fd, handles, stranded, boot, held>>,
             ret' = "error"
      PROVE  FilesIInv'
  <2>1. boot \in {"init", "stdin", "stderr", "main"}
    BY DEF FilesIInv, FilesTypeOK
  <2> QED BY <1>2, <2>1, Quiet
<1> QED BY <1>1, <1>2, FcntlFlags, LockFlags, UnlockFlags

LEMMA FilesNextIInv == ASSUME FilesIInv, [FilesNext]_filesVars PROVE FilesIInv'
<1>1. CASE UNCHANGED filesVars
  BY <1>1 DEF filesVars, FilesIInv, FilesTypeOK, TableIsExact, HandlesAreExact, OnHost, Marks
<1>2. CASE (\E dev \in Devices : alt_dev_llist_insert(dev)) \/ alt_fs_reg
  BY <1>2, InsertIInv
<1>3. CASE alt_io_redirect
  BY <1>3, RedirectIsSafe
<1>4. CASE Open
  BY <1>4, OpenIInv
<1>5. ASSUME NEW f \in Fds,
             \/ alt_read(f) \/ alt_write(f) \/ alt_lseek(f)
             \/ alt_fstat(f) \/ alt_isatty(f) \/ alt_ioctl(f)
      PROVE  FilesIInv'
  <2>1. Answers(f) \subseteq {"ok", "error"} /\ {"ok"} \subseteq {"ok", "error"}
    BY DEF Answers
  <2>2. \E able, answers : answers \subseteq {"ok", "error"} /\ Asks(f, able, answers)
    <3>1. CASE alt_read(f)
      BY <2>1, <3>1 DEF alt_read
    <3>2. CASE alt_write(f)
      BY <2>1, <3>2 DEF alt_write
    <3>3. CASE alt_lseek(f)
      BY <2>1, <3>3 DEF alt_lseek
    <3>4. CASE alt_fstat(f)
      <4>1. (IF fds[f].dev = HostFs THEN Answers(f) ELSE {"ok"}) \subseteq {"ok", "error"}
        BY <2>1
      <4> QED BY <3>4, <4>1 DEF alt_fstat
    <3>5. CASE alt_isatty(f)
      BY <2>1, <3>5 DEF alt_isatty
    <3>6. CASE alt_ioctl(f)
      BY <2>1, <3>6 DEF alt_ioctl
    <3> QED BY <1>5, <3>1, <3>2, <3>3, <3>4, <3>5, <3>6
  <2> QED BY <2>2, AskIInv
<1>6. ASSUME NEW f \in Fds, alt_close(f) PROVE FilesIInv'
  BY <1>6, CloseIInv
<1>7. ASSUME NEW f \in Fds, alt_fcntl(f) \/ alt_fd_lock(f) \/ alt_fd_unlock(f) PROVE FilesIInv'
  BY <1>7, FlagsStep
<1> QED BY <1>1, <1>2, <1>3, <1>4, <1>5, <1>6, <1>7 DEF FilesNext

-----------------------------------------------------------------------------
(* Theorems *)

\* The invariant behind the theorems: descriptors in use, host files and the
\* highwater mark agree with what the program holds, also in the middle of boot.
LEMMA Files_IInv == FilesSpec => []FilesIInv
<1>1. FilesInit => FilesIInv
  BY FilesInitIInv
<1>2. FilesIInv /\ [FilesNext]_filesVars => FilesIInv'
  BY FilesNextIInv
<1> QED BY <1>1, <1>2, PTL DEF FilesSpec

\* The fields of the table and the highwater mark stay in range.
THEOREM Files_TypeCorrect == FilesSpec => []FilesTypeOK
BY Files_IInv, PTL DEF FilesIInv

\* An entry of the table is in use exactly while the program holds it, through
\* failed opens, failed closes and the redirection of the streams.
THEOREM Files_TableIsExact == FilesSpec => []TableIsExact
BY Files_IInv, PTL DEF FilesIInv

\* Every held descriptor of the host has an open file of its own there, and no
\* other file is open there but those the host refused to close.
THEOREM Files_HandlesAreExact == FilesSpec => []HandlesAreExact
BY Files_IInv, PTL DEF FilesIInv

-----------------------------------------------------------------------------
(* The lock *)

LockStep ==
    \A f \in Fds :
        "EXCL" \in fds[f].flags /\ "EXCL" \in fds'[f].flags
            => \A g \in Fds : fds'[g].dev = fds[f].dev => fds[g].dev = fds[f].dev

\* A step by which no entry gets a device that it had not.
LEMMA NoNewDevice ==
    ASSUME FilesIInv, \A g \in Fds : fds'[g].dev \in {fds[g].dev, None}
    PROVE  LockStep
<1> SUFFICES ASSUME NEW f \in Fds, "EXCL" \in fds[f].flags,
                    NEW g \in Fds, fds'[g].dev = fds[f].dev
             PROVE  fds[g].dev = fds[f].dev
  BY DEF LockStep
<1>1. fds[f].dev # None
  BY NamesDiffer DEF FilesIInv, Marks
<1> QED BY <1>1

LEMMA OpenLock == ASSUME FilesIInv, Open PROVE LockStep
<1>1. PICK name \in Devices \cup Paths \cup {Null}, mode \in Modes,
           flags \in SUBSET {"NONBLOCK"} : \E end \in alt_open(name, mode, flags) :
             fds' = end.fds
  BY DEF Open
<1>2. PICK end \in alt_open(name, mode, flags) : fds' = end.fds
  BY <1>1
<1>3. mode \in {"RDONLY", "WRONLY", "RDWR"}
  BY FilesAssumption
<1>4. fds \in [Fds -> Entries] /\ alt_max_fd \in (-1)..(ALT_MAX_FD - 1)
  BY DEF FilesIInv, FilesTypeOK
<1>5. CASE Untouched(end)
  BY <1>2, <1>5, NoNewDevice DEF Untouched
<1>6. ASSUME NEW n \in Fds \ Streams, fds[n].dev = None,
             \/ GivenBack(end, n)
             \/ OnDevice(end, n, name, mode, flags)
             \/ \E h \in Handles : AtHost(end, n, h, name, mode, flags)
      PROVE  LockStep
  <2>1. CASE GivenBack(end, n)
    <3>1. fds'[n].dev = None /\ \A g \in Fds \ {n} : fds'[g] = fds[g]
      BY <1>2, <1>4, <2>1 DEF GivenBack
    <3> QED BY <3>1, NoNewDevice
  <2>2. CASE OnDevice(end, n, name, mode, flags)
    <3>1. fds'[n].dev = name /\ \A g \in Fds \ {n} : fds'[g] = fds[g]
      BY <1>2, <1>4, <2>2 DEF OnDevice
    <3> SUFFICES ASSUME NEW f \in Fds, "EXCL" \in fds[f].flags,
                        NEW g \in Fds, fds'[g].dev = fds[f].dev
                 PROVE  fds[g].dev = fds[f].dev
      BY DEF LockStep
    <3>2. fds[f].dev # None /\ f # n
      BY <1>6, NamesDiffer DEF FilesIInv, Marks
    <3>3. f \in 0..Highwater(n)
      <4>1. f \in Nat /\ n \in Nat /\ n >= 3
        BY <1>6, StreamsAreFds DEF Fds, Streams
      <4>2. f \in Streams \/ f <= alt_max_fd
        BY <3>2 DEF FilesIInv, Marks
      <4> QED BY <1>4, <4>1, <4>2 DEF Highwater, Streams
    <3>4. fds[f].dev # name
      BY <2>2, <3>2, <3>3 DEF OnDevice
    <3> QED BY <3>1, <3>4
  <2>3. ASSUME NEW h \in Handles, AtHost(end, n, h, name, mode, flags) PROVE LockStep
    <3>1. fds'[n].dev = HostFs /\ \A g \in Fds \ {n} : fds'[g] = fds[g]
      BY <1>2, <1>4, <2>3 DEF AtHost
    <3>2. \A f \in Fds : "EXCL" \in fds[f].flags => fds[f].dev # HostFs
      BY NamesDiffer DEF FilesIInv, Marks
    <3> QED BY <3>1, <3>2 DEF LockStep
  <2> QED BY <1>6, <2>1, <2>2, <2>3
<1> QED BY <1>3, <1>5, <1>6, OpenEnds

LEMMA NextLock == ASSUME FilesIInv, [FilesNext]_filesVars PROVE LockStep
<1>1. fds \in [Fds -> Entries]
  BY DEF FilesIInv, FilesTypeOK
<1>2. CASE UNCHANGED fds
  BY <1>2, NoNewDevice
<1>3. CASE Open
  BY <1>3, OpenLock
<1>4. CASE alt_io_redirect
  <2>1. boot # "main"
    BY <1>4 DEF alt_io_redirect
  <2> QED BY <2>1 DEF FilesIInv, Marks, LockStep
<1>5. ASSUME NEW f \in Fds, alt_close(f) PROVE LockStep
  <2>1. [Free EXCEPT !.priv = fds[f].priv].dev = None
    BY DEF Free
  <2> DEFINE empty == [Free EXCEPT !.priv = fds[f].priv]
  <2>2. fds' = fds \/ fds' = [fds EXCEPT ![f] = empty]
    BY <1>5 DEF alt_close, alt_release_fd
  <2>3. empty.dev = None
    BY <2>1
  <2> HIDE DEF empty
  <2>4. \A g \in Fds : fds'[g].dev \in {fds[g].dev, None}
    BY <1>1, <2>2, <2>3
  <2> QED BY <2>4, NoNewDevice
<1>6. ASSUME NEW f \in Fds, alt_fcntl(f) \/ alt_fd_lock(f) \/ alt_fd_unlock(f)
      PROVE  LockStep
  <2>1. fds' = fds \/ \E fl : fds' = [fds EXCEPT ![f].flags = fl]
    BY <1>6, FcntlFlags, LockFlags, UnlockFlags
  <2>2. \A fl : [fds EXCEPT ![f].flags = fl] = [fds EXCEPT ![f] = [fds[f] EXCEPT !.flags = fl]]
    OBVIOUS
  <2>3. \A fl : [fds[f] EXCEPT !.flags = fl].dev = fds[f].dev
    BY <1>1 DEF Entries
  <2>4. ASSUME NEW fl, fds' = [fds EXCEPT ![f].flags = fl]
        PROVE  \A g \in Fds : fds'[g].dev = fds[g].dev
    <3> DEFINE e == [fds[f] EXCEPT !.flags = fl]
    <3>1. e.dev = fds[f].dev /\ fds' = [fds EXCEPT ![f] = e]
      BY <2>2, <2>3, <2>4
    <3> HIDE DEF e
    <3> QED BY <1>1, <3>1
  <2> QED BY <2>1, <2>4, NoNewDevice
<1>7. ASSUME NEW f \in Fds,
             \/ alt_read(f) \/ alt_write(f) \/ alt_lseek(f)
             \/ alt_fstat(f) \/ alt_isatty(f) \/ alt_ioctl(f)
      PROVE  UNCHANGED fds
  BY <1>7 DEF alt_read, alt_write, alt_lseek, alt_fstat, alt_isatty, alt_ioctl, Asks
<1>8. CASE (\E dev \in Devices : alt_dev_llist_insert(dev)) \/ alt_fs_reg
  BY <1>2, <1>8 DEF alt_dev_llist_insert, alt_fs_reg
<1> QED BY <1>2, <1>3, <1>4, <1>5, <1>6, <1>7, <1>8 DEF FilesNext, filesVars

\* While a descriptor holds its device for itself, no open gives that device to
\* another descriptor.
THEOREM Files_LockKeepsOthersOut == FilesSpec => LockKeepsOthersOut
<1>1. FilesIInv /\ [FilesNext]_filesVars => [LockStep]_filesVars
  BY NextLock
<1>2. FilesSpec => [][LockStep]_filesVars
  BY <1>1, Files_IInv, PTL DEF FilesSpec
<1> QED BY <1>2 DEF LockKeepsOthersOut, LockStep

-----------------------------------------------------------------------------
(* Interrupts: the inductive invariant *)

Names == Handlers \cup {"NULL"}
Routines == [handler : Names, context : Names]
CallPcs == {"idle", "disable", "handler", "context", "read", "write", "ienable", "restore",
            "align", "check", "extend"}
CallRecords ==
    [op : {"none", "register", "enable", "disable", "sbrk"}, irq : Irqs, handler : Names,
     incr : Nat, pc : CallPcs, saved : Seq(BOOLEAN), active : SUBSET Irqs, prev : Int]
ContextRecords ==
    [irq : 0..ALT_NIRQ, pc : {"thread", "loop", "isr", "body", "open"}, called : Routines, mask : SUBSET Irqs,
     call : CallRecords, calls : 0..1]

TypesOK ==
    /\ line \subseteq Irqs /\ pie \in BOOLEAN /\ ienable \subseteq Irqs
    /\ alt_irq_active \subseteq Irqs /\ alt_priority_mask \subseteq Irqs
    /\ alt_irq \in [Irqs -> Routines]
    /\ heap_end \in Nat
    /\ contexts \in Seq(ContextRecords) /\ Top # 0

\* A context that lets interrupts in between its own critical sections.
Admits(c) == c.pc \in {"thread", "open"}

\* ... and is in none now: the only place where it can be interrupted.
Waits(c) == Admits(c) /\ c.call.saved = << >>

\* The calls of a context: what each of its critical sections has found in the
\* status register, from the outermost, and where it is in them.
CallOK(call, on) ==
    \/ call = NoCall
    \/ /\ call.op \in {"register", "enable", "disable", "sbrk"}
       /\ call.pc = "disable" /\ call.saved = << >> /\ call.prev = -1
    \/ /\ call.op = "register" /\ call.pc \in {"handler", "context", "disable", "restore"}
       /\ call.saved = <<on>> /\ call.prev = -1
    \/ /\ call.op = "register" /\ call.pc \in {"read", "write", "ienable", "restore"}
       /\ call.saved = <<on, FALSE>> /\ call.prev = -1
    \/ /\ call.op \in {"enable", "disable"}
       /\ call.pc \in {"read", "write", "ienable", "restore"}
       /\ call.saved = <<on>> /\ call.prev = -1
    \/ /\ call.op = "sbrk" /\ call.pc \in {"align", "check"}
       /\ call.saved = <<on>> /\ call.prev = -1
    \/ /\ call.op = "sbrk" /\ call.pc \in {"extend", "restore"}
       /\ call.saved = <<on>>

Placed(n, c) ==
    /\ c.pc = "thread" <=> n = 1
    /\ CallOK(c.call, Admits(c))
    /\ c.pc \in {"loop", "isr"} => c.call = NoCall
    /\ c.call.op = "register" => n = 1
    /\ ~IsrEnables /\ n # 1 => c.call.op \in {"none", "sbrk"}

\* The thread below, interrupted contexts on it, and on top one that is running.
StackOK ==
    /\ \A n \in 1..Top : Placed(n, contexts[n])
    /\ \A n \in 1..(Top - 1) : Waits(contexts[n])
    /\ pie <=> Waits(Current)

Registered(routine) == routine.handler # "NULL" /\ routine.context = routine.handler

\* The registration of interrupt i is half done.
Settling(i) ==
    /\ Current.call.op = "register" /\ Current.call.irq = i
    /\ Current.call.saved # << >>
    /\ Current.call.pc \in {"context", "disable", "read", "write", "ienable"}

TableOK ==
    /\ \A n \in 1..Top :
         /\ contexts[n].call.op = "enable" => alt_irq[contexts[n].call.irq].handler # "NULL"
         /\ contexts[n].pc \in {"isr", "body", "open"} => Registered(contexts[n].called)
    /\ \A i \in Irqs : \/ alt_irq[i].context = alt_irq[i].handler
                       \/ Current.call.pc = "context" /\ Current.call.irq = i
    /\ \A i \in alt_irq_active \cup ienable : alt_irq[i].handler # "NULL" \/ Settling(i)
    /\ Current.call.op = "register" /\ Current.call.saved # << >> /\ Current.call.pc # "handler"
          => alt_irq[Current.call.irq].handler = Current.call.handler
    /\ Current.call.pc = "write" => Current.call.active = alt_irq_active
    /\ Current.call.pc = "ienable" => \A i \in alt_irq_active : alt_irq[i].handler # "NULL"

\* Blocks given out below the end of the heap; the call in progress, if it has
\* reserved one, at the end of it.
HeapOK ==
    /\ \A a \in blocks : a \subseteq 0..(heap_end - 1)
    /\ BlocksDisjoint
    /\ Current.call.pc \in {"check", "extend"} => heap_end % 4 = 0
    /\ Current.call.pc = "extend" =>
         Current.call.prev = heap_end /\ heap_end + Current.call.incr <= Heap
    /\ Current.call.pc = "restore" /\ Current.call.prev >= 0 =>
         /\ Current.call.prev % 4 = 0
         /\ heap_end = Current.call.prev + Current.call.incr /\ heap_end <= Heap
         /\ \A a \in blocks : a \subseteq 0..(Current.call.prev - 1)

\* Each routine is more urgent than all it interrupts; the mask is that of the
\* uppermost context that has set one, and those below are kept in the stack.
PriorityOK ==
    /\ contexts[1].irq = ALT_NIRQ
    /\ \A m, n \in 1..Top :
         m < n /\ contexts[n].pc # "loop" => contexts[n].irq < contexts[m].irq
    /\ \A n \in 2..Top :
         contexts[n].pc = "open" => contexts[n].mask = Allowed(contexts[n - 1].irq)
    /\ alt_priority_mask = Allowed(contexts[IF Admits(Current) THEN Top ELSE Top - 1].irq)
    /\ Current.call.pc # "ienable" => ienable = alt_irq_active \cap alt_priority_mask

IrqIInv == TypesOK /\ StackOK /\ TableOK /\ HeapOK /\ (~IsrEnables => PriorityOK)

-----------------------------------------------------------------------------
(* The stack *)

\* The context on top moves on, those below stay.
LEMMA GoesOn ==
    ASSUME TypesOK, NEW c \in ContextRecords, Goes(c)
    PROVE  /\ contexts' \in Seq(ContextRecords) /\ Top' = Top /\ Top \in Nat \ {0}
           /\ Current' = c
           /\ \A n \in 1..(Top - 1) : contexts'[n] = contexts[n]
           /\ \A n \in 1..Top : contexts'[n] = IF n = Top THEN c ELSE contexts[n]
<1>1. contexts \in Seq(ContextRecords) /\ Top \in Nat \ {0} /\ Top \in 1..Top
  BY DEF TypesOK, Top
<1> QED BY <1>1 DEF Goes, Top, Current

LEMMA CurrentType ==
    ASSUME TypesOK
    PROVE  /\ Current \in ContextRecords /\ Top \in Nat \ {0} /\ Top \in 1..Top
           /\ \A n \in 1..Top : contexts[n] \in ContextRecords
BY DEF TypesOK, Top, Current

LEMMA NoCallType == NoCall \in CallRecords /\ Thread \in ContextRecords
<1>1. 0 \in Irqs /\ ALT_NIRQ \in 0..ALT_NIRQ
  BY InterruptsAssumption DEF Irqs
<1>2. [handler |-> "NULL", context |-> "NULL"] \in Routines
  BY DEF Routines, Names
<1>3. << >> \in Seq(BOOLEAN) /\ {} \in SUBSET Irqs /\ 0 \in Nat /\ -1 \in Int
  OBVIOUS
<1>4. NoCall \in CallRecords
  BY <1>1, <1>3 DEF NoCall, CallRecords, CallPcs, Names
<1> DEFINE none == [handler |-> "NULL", context |-> "NULL"]
<1>5. none \in Routines
  BY <1>2
<1>6. Thread = [irq |-> ALT_NIRQ, pc |-> "thread", called |-> none, mask |-> {},
                call |-> NoCall, calls |-> 0]
  BY DEF Thread
<1> HIDE DEF none
<1>7. {} \in SUBSET Irqs /\ 0 \in 0..1
  OBVIOUS
<1>8. Thread \in ContextRecords
  BY <1>1, <1>4, <1>5, <1>6, <1>7 DEF ContextRecords
<1> QED BY <1>4, <1>8


\* The call on top moves on in its context.
LEMMA CallGoesOn ==
    ASSUME TypesOK, NEW k \in CallRecords, CallGoes(k)
    PROVE  /\ contexts' \in Seq(ContextRecords) /\ Top' = Top /\ Top \in Nat \ {0}
           /\ Current' \in ContextRecords /\ Current' = contexts'[Top] /\ Current'.call = k
           /\ Current'.pc = Current.pc /\ Current'.irq = Current.irq
           /\ Current'.mask = Current.mask /\ Current'.called = Current.called
           /\ \A n \in 1..(Top - 1) : contexts'[n] = contexts[n]
           /\ Goes(Current')
<1> DEFINE c == [Current EXCEPT !.call = k]
<1>1. /\ c \in ContextRecords /\ c.call = k /\ c.pc = Current.pc /\ c.irq = Current.irq
      /\ c.mask = Current.mask /\ c.called = Current.called
  BY CurrentType DEF ContextRecords
<1>2. Goes(c)
  BY DEF CallGoes
<1> HIDE DEF c
<1>3. /\ contexts' \in Seq(ContextRecords) /\ Top' = Top /\ Top \in Nat \ {0}
      /\ Current' = c /\ \A n \in 1..(Top - 1) : contexts'[n] = contexts[n]
  BY <1>1, <1>2, GoesOn
<1> QED BY <1>1, <1>2, <1>3 DEF Current

\* What a step of the context on top has to show of the stack.
LEMMA GoesKeepsStack ==
    ASSUME TypesOK, StackOK, NEW c \in ContextRecords, Goes(c), Placed(Top, c),
           pie' <=> Waits(c)
    PROVE  StackOK'
<1>1. /\ Top' = Top /\ Top \in Nat \ {0} /\ Current' = c
      /\ \A n \in 1..(Top - 1) : contexts'[n] = contexts[n]
      /\ \A n \in 1..Top : contexts'[n] = IF n = Top THEN c ELSE contexts[n]
  BY GoesOn
<1>2. \A n \in 1..Top : Placed(n, contexts'[n])
  BY <1>1 DEF StackOK
<1>3. \A n \in 1..(Top - 1) : Waits(contexts'[n])
  BY <1>1 DEF StackOK
<1> QED BY <1>1, <1>2, <1>3 DEF StackOK

\* ... of the routines in progress and the interrupts about to be enabled,
LEMMA GoesKeepsNames ==
    ASSUME TypesOK, TableOK, NEW c \in ContextRecords, Goes(c), alt_irq' = alt_irq,
           c.call.op = "enable" => alt_irq[c.call.irq].handler # "NULL",
           c.pc \in {"isr", "body", "open"} => Registered(c.called)
    PROVE  \A n \in 1..Top' :
             /\ contexts'[n].call.op = "enable" =>
                  alt_irq'[contexts'[n].call.irq].handler # "NULL"
             /\ contexts'[n].pc \in {"isr", "body", "open"} => Registered(contexts'[n].called)
<1>1. /\ Top' = Top /\ Top \in Nat \ {0}
      /\ \A n \in 1..Top : contexts'[n] = IF n = Top THEN c ELSE contexts[n]
  BY GoesOn
<1> TAKE n \in 1..Top'
<1>2. CASE n = Top
  BY <1>1, <1>2
<1>3. CASE n # Top
  BY <1>1, <1>3 DEF TableOK
<1> QED BY <1>2, <1>3

\* ... and of the nesting.
LEMMA GoesKeepsPriority ==
    ASSUME TypesOK, StackOK, PriorityOK, NEW c \in ContextRecords, Goes(c), Placed(Top, c),
           Top = 1 => c.irq = ALT_NIRQ,
           Top # 1 /\ c.pc # "loop" => \A m \in 1..(Top - 1) : c.irq < contexts[m].irq,
           Top # 1 /\ c.pc = "open" => c.mask = Allowed(contexts[Top - 1].irq),
           Admits(c) => alt_priority_mask' = Allowed(c.irq),
           ~Admits(c) => alt_priority_mask' = Allowed(contexts[Top - 1].irq),
           c.call.pc # "ienable" => ienable' = alt_irq_active' \cap alt_priority_mask'
    PROVE  PriorityOK'
<1>1. /\ Top' = Top /\ Top \in Nat \ {0} /\ Current' = c
      /\ \A n \in 1..(Top - 1) : contexts'[n] = contexts[n]
      /\ \A n \in 1..Top : contexts'[n] = IF n = Top THEN c ELSE contexts[n]
  BY GoesOn
<1>2. contexts'[1].irq = ALT_NIRQ
  BY <1>1 DEF PriorityOK
<1>3. ASSUME NEW m \in 1..Top, NEW n \in 1..Top, m < n, contexts'[n].pc # "loop"
      PROVE  contexts'[n].irq < contexts'[m].irq
  <2>1. CASE n = Top
    BY <1>1, <1>3, <2>1
  <2>2. CASE n # Top
    BY <1>1, <1>3, <2>2 DEF PriorityOK
  <2> QED BY <2>1, <2>2
<1>4. \A n \in 2..Top :
         contexts'[n].pc = "open" => contexts'[n].mask = Allowed(contexts'[n - 1].irq)
  BY <1>1 DEF PriorityOK
<1>5. alt_priority_mask' = Allowed(contexts'[IF Admits(c) THEN Top ELSE Top - 1].irq)
  <2>1. CASE Admits(c)
    BY <1>1, <2>1
  <2>2. CASE ~Admits(c)
    <3>1. Top - 1 \in 1..(Top - 1)
      BY <1>1, <2>2 DEF Placed, Admits
    <3> QED BY <1>1, <2>2, <3>1
  <2> QED BY <2>1, <2>2
<1> QED BY <1>1, <1>2, <1>3, <1>4, <1>5 DEF PriorityOK, Allowed

\* The same for a call that goes on from stage to stage, or is over.
LEMMA CallKeepsStack ==
    ASSUME TypesOK, StackOK, NEW k \in CallRecords, CallGoes(k),
           Current.call # NoCall, k = NoCall \/ k.op = Current.call.op,
           CallOK(k, Admits(Current)),
           pie' <=> Admits(Current) /\ k.saved = << >>
    PROVE  StackOK'
<1>1. /\ Goes(Current') /\ Current' \in ContextRecords /\ Top \in 1..Top
      /\ Current'.call = k /\ Current'.pc = Current.pc
  BY CallGoesOn, CurrentType
<1>2. Placed(Top, Current)
  BY <1>1 DEF StackOK, Current
<1>3. Placed(Top, Current')
  BY <1>1, <1>2 DEF Placed, Admits, NoCall
<1>4. pie' <=> Waits(Current')
  BY <1>1 DEF Waits, Admits
<1> QED BY <1>1, <1>3, <1>4, GoesKeepsStack

LEMMA CallKeepsNames ==
    ASSUME TypesOK, TableOK, NEW k \in CallRecords, CallGoes(k), alt_irq' = alt_irq,
           k.op = "enable" => alt_irq[k.irq].handler # "NULL"
    PROVE  \A n \in 1..Top' :
             /\ contexts'[n].call.op = "enable" =>
                  alt_irq'[contexts'[n].call.irq].handler # "NULL"
             /\ contexts'[n].pc \in {"isr", "body", "open"} => Registered(contexts'[n].called)
<1>1. /\ Goes(Current') /\ Current' \in ContextRecords /\ Current'.call = k
      /\ Current'.pc = Current.pc /\ Current'.called = Current.called
  BY CallGoesOn, CurrentType
<1>2. Current.pc \in {"isr", "body", "open"} => Registered(Current.called)
  BY CurrentType DEF TableOK, Current
<1> QED BY <1>1, <1>2, GoesKeepsNames

LEMMA CallKeepsPriority ==
    ASSUME TypesOK, StackOK, PriorityOK, NEW k \in CallRecords, CallGoes(k),
           alt_priority_mask' = alt_priority_mask,
           k.pc # "ienable" => ienable' = alt_irq_active' \cap alt_priority_mask
    PROVE  PriorityOK'
<1>1. /\ Top' = Top /\ Top \in Nat \ {0} /\ Top \in 1..Top
      /\ Current' = contexts'[Top] /\ Current'.call = k /\ Current'.pc = Current.pc
      /\ Current'.irq = Current.irq /\ Current'.mask = Current.mask
      /\ \A n \in 1..(Top - 1) : contexts'[n] = contexts[n]
  BY CallGoesOn, CurrentType
<1>2. \A n \in 1..Top : /\ contexts'[n].irq = contexts[n].irq
                        /\ contexts'[n].pc = contexts[n].pc
                        /\ contexts'[n].mask = contexts[n].mask
  <2> TAKE n \in 1..Top
  <2>1. CASE n = Top
    BY <1>1, <2>1 DEF Current
  <2>2. CASE n # Top
    BY <1>1, <2>2
  <2> QED BY <2>1, <2>2
<1>3. contexts'[1].irq = ALT_NIRQ
  BY <1>1, <1>2 DEF PriorityOK
<1>4. \A m, n \in 1..Top :
         m < n /\ contexts'[n].pc # "loop" => contexts'[n].irq < contexts'[m].irq
  BY <1>2 DEF PriorityOK
<1>5. \A n \in 2..Top :
         contexts'[n].pc = "open" => contexts'[n].mask = Allowed(contexts'[n - 1].irq)
  BY <1>1, <1>2 DEF PriorityOK
<1>6. alt_priority_mask' = Allowed(contexts'[IF Admits(Current') THEN Top ELSE Top - 1].irq)
  <2>1. Admits(Current') <=> Admits(Current)
    BY <1>1 DEF Admits
  <2>2. CASE Admits(Current)
    BY <1>1, <1>2, <2>1, <2>2 DEF PriorityOK
  <2>3. CASE ~Admits(Current)
    <3>1. Top - 1 \in 1..Top
      BY <1>1, <2>3 DEF StackOK, Placed, Admits, Current
    <3> QED BY <1>1, <1>2, <2>1, <2>3, <3>1 DEF PriorityOK
  <2> QED BY <2>2, <2>3
<1> QED BY <1>1, <1>3, <1>4, <1>5, <1>6 DEF PriorityOK, Allowed


LEMMA Tuples ==
    ASSUME NEW a \in BOOLEAN, NEW b \in BOOLEAN
    PROVE  /\ Append(<< >>, a) = <<a>> /\ Append(<<a>>, b) = <<a, b>>
           /\ Len(<< >>) = 0 /\ Len(<<a>>) = 1 /\ Len(<<a, b>>) = 2
           /\ <<a>> # << >> /\ <<a, b>> # << >>
           /\ <<a>>[1] = a /\ <<a, b>>[2] = b /\ SubSeq(<<a, b>>, 1, 1) = <<a>>
           /\ <<a>> \in Seq(BOOLEAN) /\ <<a, b>> \in Seq(BOOLEAN)
<1>1. <<a>> \in Seq(BOOLEAN) /\ <<a, b>> \in Seq(BOOLEAN)
  OBVIOUS
<1>2. Len(<<a>>) = 1 /\ Len(<<a, b>>) = 2 /\ Len(<< >>) = 0
  OBVIOUS
<1>3. <<a>>[1] = a /\ <<a, b>>[1] = a /\ <<a, b>>[2] = b
  OBVIOUS
<1>4. Append(<< >>, a) = <<a>>
  OBVIOUS
<1>5. Append(<<a>>, b) = <<a, b>>
  <2>1. /\ Append(<<a>>, b) \in Seq(BOOLEAN) /\ Len(Append(<<a>>, b)) = 2
        /\ Append(<<a>>, b)[1] = a /\ Append(<<a>>, b)[2] = b
    BY <1>1, <1>2, <1>3, AppendProperties
  <2>2. \A i \in 1..2 : i = 1 \/ i = 2
    OBVIOUS
  <2> QED BY <1>1, <1>2, <1>3, <2>1, <2>2, SeqEqual
<1>6. SubSeq(<<a, b>>, 1, 1) = <<a>>
  <2>1. \A i \in 1..1 : i = 1
    OBVIOUS
  <2>2. /\ SubSeq(<<a, b>>, 1, 1) \in Seq(BOOLEAN) /\ Len(SubSeq(<<a, b>>, 1, 1)) = 1
        /\ SubSeq(<<a, b>>, 1, 1)[1] = a
    BY <1>3, <2>1, SubSeqProperties
  <2> QED BY <1>1, <1>2, <1>3, <2>1, <2>2, SeqEqual
<1>7. <<a>> # << >> /\ <<a, b>> # << >>
  OBVIOUS
<1> QED BY <1>1, <1>2, <1>3, <1>4, <1>5, <1>6, <1>7

\* Where a context is in its call.
LEMMA InCall ==
    ASSUME TypesOK, StackOK
    PROVE  /\ Current \in ContextRecords /\ Current.call \in CallRecords
           /\ CallOK(Current.call, Admits(Current)) /\ Admits(Current) \in BOOLEAN
           /\ Current.call.pc # "idle" => Current.call # NoCall
           /\ Current.call.op = "register" => Top = 1
           /\ ~IsrEnables /\ Top # 1 => Current.call.op \in {"none", "sbrk"}
           /\ pie <=> Admits(Current) /\ Current.call.saved = << >>
           /\ pie \in BOOLEAN
<1>1. Placed(Top, Current)
  BY CurrentType DEF StackOK, Current
<1> QED BY <1>1, CurrentType DEF Placed, StackOK, Waits, Admits, NoCall, ContextRecords, TypesOK

\* A critical section begins.
LEMMA DisableAllStep == ASSUME IrqIInv, alt_irq_disable_all PROVE IrqIInv'
<1> DEFINE call == Current.call
           on == Admits(Current)
           k == [call EXCEPT !.pc = After(call), !.saved = Append(@, pie)]
<1>1. TypesOK /\ StackOK /\ TableOK /\ HeapOK /\ (~IsrEnables => PriorityOK)
  BY DEF IrqIInv
<1>2. /\ call.pc = "disable" /\ pie' = FALSE /\ CallGoes(k)
      /\ UNCHANGED <<line, ienable, masks, alt_irq, heap>>
  BY DEF alt_irq_disable_all, Inside
<1>3. /\ call # NoCall /\ call \in CallRecords /\ CallOK(call, on) /\ on \in BOOLEAN
      /\ pie <=> on /\ call.saved = << >>
      /\ pie \in BOOLEAN
  BY <1>1, <1>2, InCall
<1> HIDE DEF on
<1>4. /\ \/ call.saved = << >> /\ pie = on
         \/ call.op = "register" /\ call.saved = <<on>> /\ pie = FALSE
      /\ call.op \in {"register", "enable", "disable", "sbrk"} /\ call.prev = -1
  BY <1>2, <1>3, Tuples DEF CallOK
<1>5. /\ k.op = call.op /\ k.irq = call.irq /\ k.handler = call.handler /\ k.incr = call.incr
      /\ k.active = call.active /\ k.prev = call.prev /\ k.pc = After(call)
      /\ k.saved = Append(call.saved, pie)
  BY <1>3 DEF CallRecords
<1>6. \/ call.saved = << >> /\ k.saved = <<on>>
      \/ call.op = "register" /\ call.saved = <<on>> /\ k.saved = <<on, FALSE>>
  BY <1>3, <1>4, <1>5, Tuples
<1>7. k \in CallRecords
  <2>1. After(call) \in CallPcs
    BY DEF After, CallPcs
  <2>2. Append(call.saved, pie) \in Seq(BOOLEAN)
    BY <1>3 DEF CallRecords
  <2> HIDE DEF call
  <2> QED BY <1>3, <2>1, <2>2 DEF CallRecords
<1> HIDE DEF k
<1>8. CallOK(k, on) /\ k.saved # << >>
  BY <1>3, <1>4, <1>5, <1>6, Tuples DEF CallOK, After
<1>9. TypesOK'
  BY <1>1, <1>2, <1>7, CallGoesOn DEF TypesOK, masks, heap
<1>10. StackOK'
  BY <1>1, <1>2, <1>3, <1>5, <1>7, <1>8, CallKeepsStack DEF on
<1>11. /\ Current'.call = k /\ alt_irq' = alt_irq /\ alt_irq_active' = alt_irq_active
       /\ ienable' = ienable /\ alt_priority_mask' = alt_priority_mask
       /\ heap_end' = heap_end /\ blocks' = blocks /\ call = Current.call
  BY <1>1, <1>2, <1>7, CallGoesOn DEF masks, heap
<1> HIDE DEF call
<1>12. TableOK'
  <2>1. k.op = "enable" => alt_irq[k.irq].handler # "NULL"
    BY <1>1, <1>5, <1>11, CurrentType DEF TableOK, Current
  <2>2. \A i \in Irqs : \/ alt_irq[i].context = alt_irq[i].handler
    BY <1>1, <1>2, <1>11 DEF TableOK
  <2>3. \A i \in alt_irq_active \cup ienable : alt_irq[i].handler # "NULL" \/ Settling(i)'
    <3> TAKE i \in alt_irq_active \cup ienable
    <3>1. alt_irq[i].handler # "NULL" \/ Settling(i)
      BY <1>1 DEF TableOK
    <3>2. Settling(i) => Settling(i)'
      BY <1>5, <1>8, <1>11 DEF Settling, After
    <3> QED BY <3>1, <3>2
  <2>4. k.op = "register" /\ k.pc # "handler" => alt_irq[k.irq].handler = k.handler
    BY <1>1, <1>2, <1>5, <1>11 DEF TableOK, After
  <2>5. k.pc \notin {"write", "ienable", "context"}
    BY <1>5 DEF After
  <2> QED BY <1>1, <1>2, <1>7, <1>11, <2>1, <2>2, <2>3, <2>4, <2>5, CallKeepsNames DEF TableOK
<1>13. HeapOK'
  BY <1>1, <1>5, <1>11 DEF HeapOK, After, BlocksDisjoint
<1>14. PriorityOK => PriorityOK'
  BY <1>1, <1>2, <1>5, <1>7, <1>11, CallKeepsPriority DEF After, PriorityOK
<1> QED BY <1>1, <1>9, <1>10, <1>12, <1>13, <1>14 DEF IrqIInv

\* What every step inside a call has to show of the types and of the stack.
LEMMA CallKeepsShape ==
    ASSUME TypesOK, StackOK, NEW k \in CallRecords, CallGoes(k),
           Current.call # NoCall, k = NoCall \/ k.op = Current.call.op,
           CallOK(k, Admits(Current)),
           pie' \in BOOLEAN, pie' <=> Admits(Current) /\ k.saved = << >>,
           line' = line, alt_priority_mask' = alt_priority_mask,
           ienable' \subseteq Irqs, alt_irq_active' \subseteq Irqs,
           alt_irq' \in [Irqs -> Routines], heap_end' \in Nat
    PROVE  TypesOK' /\ StackOK' /\ Current'.call = k /\ Top' = Top
<1>1. /\ contexts' \in Seq(ContextRecords) /\ Top' = Top /\ Top # 0 /\ Current'.call = k
  BY CallGoesOn
<1>2. TypesOK'
  BY <1>1 DEF TypesOK
<1> QED BY <1>1, <1>2, CallKeepsStack

\* A critical section ends.
LEMMA EnableAllStep == ASSUME IrqIInv, alt_irq_enable_all PROVE IrqIInv'
<1> DEFINE call == Current.call
           on == Admits(Current)
           n == Len(call.saved)
           outer == [call EXCEPT !.saved = SubSeq(@, 1, n - 1)]
           k == IF n = 1 THEN NoCall ELSE outer
<1>1. TypesOK /\ StackOK /\ TableOK /\ HeapOK /\ (~IsrEnables => PriorityOK)
  BY DEF IrqIInv
<1>2. /\ call.pc = "restore" /\ pie' = call.saved[n] /\ CallGoes(k)
      /\ blocks' = IF n = 1 /\ call.prev >= 0
                   THEN blocks \cup {call.prev..(call.prev + call.incr - 1)} ELSE blocks
      /\ line' = line /\ ienable' = ienable /\ alt_irq_active' = alt_irq_active
      /\ alt_priority_mask' = alt_priority_mask /\ alt_irq' = alt_irq
      /\ heap_end' = heap_end
  BY DEF alt_irq_enable_all, Inside, Restored, masks
<1>3. /\ call # NoCall /\ call \in CallRecords /\ CallOK(call, on) /\ on \in BOOLEAN
      /\ call.prev \in Int /\ call.incr \in Nat
  BY <1>1, <1>2, InCall DEF CallRecords
<1> HIDE DEF on
<1>4. \/ call.saved = <<on>>
      \/ call.op = "register" /\ call.saved = <<on, FALSE>> /\ call.prev = -1
  BY <1>2, <1>3 DEF CallOK
<1>5. CASE call.saved = <<on>>
  <2>1. n = 1 /\ pie' = on /\ k = NoCall
    BY <1>2, <1>3, <1>5, Tuples
  <2>2. /\ NoCall.saved = << >> /\ NoCall.pc = "idle" /\ NoCall.op = "none"
        /\ NoCall.prev = -1 /\ NoCall \in CallRecords /\ CallOK(NoCall, on)
    BY NoCallType DEF NoCall, CallOK
  <2>3. TypesOK' /\ StackOK' /\ Current'.call = NoCall
    BY <1>1, <1>2, <1>3, <2>1, <2>2, CallKeepsShape DEF TypesOK, on
  <2>4. call = Current.call
    OBVIOUS
  <2> HIDE DEF call, k, n
  <2>5. TableOK'
    <3>1. \A i \in Irqs : alt_irq[i].context = alt_irq[i].handler
      BY <1>1, <1>2, <2>4 DEF TableOK
    <3>2. \A i \in alt_irq_active \cup ienable : alt_irq[i].handler # "NULL"
      BY <1>1, <1>2, <2>4 DEF TableOK, Settling
    <3> QED BY <1>1, <1>2, <2>1, <2>2, <2>3, <3>1, <3>2, CallKeepsNames DEF TableOK
  <2>6. HeapOK'
    <3>1. CASE call.prev >= 0
      <4>1. /\ call.prev % 4 = 0 /\ heap_end = call.prev + call.incr /\ heap_end <= Heap
            /\ \A a \in blocks : a \subseteq 0..(call.prev - 1)
        BY <1>1, <1>2, <2>4, <3>1 DEF HeapOK
      <4> DEFINE new == call.prev..(call.prev + call.incr - 1)
      <4>2. /\ new \subseteq 0..(heap_end - 1) /\ new \subseteq 0..(Heap - 1)
            /\ \A byte \in new : byte % 4 = 0 \/ byte - 1 \in new
            /\ \A a \in blocks : a \cap new = {}
        BY <1>3, <3>1, <4>1, InterruptsAssumption
      <4>3. blocks' = blocks \cup {new}
        BY <1>2, <2>1, <3>1
      <4> HIDE DEF new
      <4>4. (\A a \in blocks : a \subseteq 0..(heap_end - 1))'
        BY <1>1, <1>2, <4>2, <4>3 DEF HeapOK
      <4>5. BlocksDisjoint'
        <5>1. \A a, b \in blocks' : a = b \/ a \cap b = {}
          <6> TAKE a, b \in blocks'
          <6>1. CASE a \in blocks /\ b \in blocks
            BY <1>1, <6>1 DEF HeapOK, BlocksDisjoint
          <6>2. CASE a = new \/ b = new
            BY <4>2, <4>3, <6>2
          <6> QED BY <4>3, <6>1, <6>2
        <5>2. \A a \in blocks' : /\ a \subseteq 0..(Heap - 1)
                                 /\ \A byte \in a : byte % 4 = 0 \/ byte - 1 \in a
          <6> TAKE a \in blocks'
          <6>1. CASE a \in blocks
            BY <1>1, <6>1 DEF HeapOK, BlocksDisjoint
          <6>2. CASE a = new
            BY <4>2, <6>2
          <6> QED BY <4>3, <6>1, <6>2
        <5> QED BY <5>1, <5>2 DEF BlocksDisjoint
      <4> QED BY <2>2, <2>3, <4>4, <4>5 DEF HeapOK
    <3>2. CASE ~(call.prev >= 0)
      BY <1>1, <1>2, <2>2, <2>3, <3>2 DEF HeapOK, BlocksDisjoint
    <3> QED BY <3>1, <3>2
  <2>7. PriorityOK => PriorityOK'
    <3>1. PriorityOK => ienable = alt_irq_active \cap alt_priority_mask
      BY <1>2, <2>4 DEF PriorityOK
    <3> QED BY <1>1, <1>2, <2>1, <2>2, <3>1, CallKeepsPriority
  <2> QED BY <1>1, <2>3, <2>5, <2>6, <2>7 DEF IrqIInv
<1>6. CASE call.op = "register" /\ call.saved = <<on, FALSE>> /\ call.prev = -1
  <2>1. n = 2 /\ pie' = FALSE /\ k = outer
    BY <1>2, <1>3, <1>6, Tuples
  <2>2. /\ outer.op = call.op /\ outer.irq = call.irq /\ outer.handler = call.handler
        /\ outer.incr = call.incr /\ outer.active = call.active /\ outer.prev = call.prev
        /\ outer.pc = call.pc /\ outer.saved = <<on>>
    <3> HIDE DEF call, n
    <3>1. SubSeq(call.saved, 1, n - 1) = <<on>>
      <4>1. n - 1 = 1
        BY <2>1
      <4>2. SubSeq(<<on, FALSE>>, 1, 1) = <<on>>
        BY <1>3, Tuples
      <4> QED BY <1>6, <4>1, <4>2
    <3> QED BY <1>3, <3>1 DEF CallRecords
  <2>3. outer \in CallRecords
    <3>1. SubSeq(call.saved, 1, n - 1) \in Seq(BOOLEAN)
      BY <1>3, <1>6, <2>1, Tuples
    <3> HIDE DEF call, n
    <3> QED BY <1>3, <3>1 DEF CallRecords
  <2> HIDE DEF outer
  <2>4. CallOK(outer, on) /\ outer.saved # << >>
    BY <1>2, <1>3, <1>6, <2>2, Tuples DEF CallOK
  <2>5. TypesOK' /\ StackOK' /\ Current'.call = outer
    BY <1>1, <1>2, <1>3, <2>1, <2>2, <2>3, <2>4, CallKeepsShape DEF TypesOK, on
  <2>6. call = Current.call
    OBVIOUS
  <2> HIDE DEF call, k, n
  <2>7. TableOK'
    <3>1. \A i \in Irqs : alt_irq[i].context = alt_irq[i].handler
      BY <1>1, <1>2, <2>6 DEF TableOK
    <3>2. \A i \in alt_irq_active \cup ienable : alt_irq[i].handler # "NULL"
      BY <1>1, <1>2, <2>6 DEF TableOK, Settling
    <3>3. alt_irq[outer.irq].handler = outer.handler
      BY <1>1, <1>2, <1>3, <1>6, <2>2, <2>6, Tuples DEF TableOK
    <3>4. outer.op # "enable" /\ outer.pc \notin {"write", "ienable"}
      BY <1>2, <1>6, <2>2
    <3> QED BY <1>1, <1>2, <2>1, <2>3, <2>5, <3>1, <3>2, <3>3, <3>4, CallKeepsNames DEF TableOK
  <2>8. HeapOK'
    BY <1>1, <1>2, <1>6, <2>1, <2>2, <2>5 DEF HeapOK, BlocksDisjoint
  <2>9. PriorityOK => PriorityOK'
    <3>1. PriorityOK => ienable = alt_irq_active \cap alt_priority_mask
      BY <1>2, <2>6 DEF PriorityOK
    <3> QED BY <1>1, <1>2, <2>1, <2>2, <2>3, <3>1, CallKeepsPriority
  <2> QED BY <1>1, <2>5, <2>7, <2>8, <2>9 DEF IrqIInv
<1> QED BY <1>4, <1>5, <1>6

\* The two stores of a registration, made in the thread.
LEMMA RegisterStep == ASSUME IrqIInv, Register PROVE IrqIInv'
<1> DEFINE call == Current.call
           on == Admits(Current)
           next == IF call.pc = "handler" THEN "context" ELSE "disable"
           k == [call EXCEPT !.pc = next]
<1>1. TypesOK /\ StackOK /\ TableOK /\ HeapOK /\ (~IsrEnables => PriorityOK)
  BY DEF IrqIInv
<1>2. /\ line' = line /\ pie' = pie /\ ienable' = ienable /\ alt_irq_active' = alt_irq_active
      /\ alt_priority_mask' = alt_priority_mask /\ heap_end' = heap_end /\ blocks' = blocks
  BY DEF Register, RegisterHandler, RegisterContext, cpu, masks, heap
<1>3. /\ CallGoes(k)
      /\ \/ /\ call.pc = "handler" /\ next = "context"
            /\ alt_irq' = [alt_irq EXCEPT ![call.irq].handler = call.handler]
         \/ /\ call.pc = "context" /\ next = "disable"
            /\ alt_irq' = [alt_irq EXCEPT ![call.irq].context = call.handler]
  BY DEF Register, RegisterHandler, RegisterContext, Inside
<1>4. /\ call # NoCall /\ call \in CallRecords /\ CallOK(call, on) /\ on \in BOOLEAN
      /\ pie <=> on /\ call.saved = << >>
      /\ call.op = "register" => Top = 1
      /\ pie \in BOOLEAN
  BY <1>1, <1>3, InCall
<1> HIDE DEF on
<1>5. /\ call.op = "register" /\ call.saved = <<on>> /\ call.prev = -1 /\ Top = 1
      /\ call.saved # << >> /\ pie = FALSE
  BY <1>3, <1>4, Tuples DEF CallOK, NoCall
<1>6. call = Current.call /\ call.irq \in Irqs /\ call.handler \in Names
  BY <1>4 DEF CallRecords
<1>7. next \in CallPcs /\ next \in {"context", "disable"}
  BY DEF CallPcs
<1> HIDE DEF call, next
<1>8. /\ k \in CallRecords /\ k.pc = next /\ k.op = call.op /\ k.irq = call.irq
      /\ k.handler = call.handler /\ k.saved = call.saved /\ k.prev = call.prev
  BY <1>4, <1>7 DEF CallRecords
<1> HIDE DEF k
<1>9. CallOK(k, on)
  BY <1>5, <1>7, <1>8 DEF CallOK
<1>10. /\ alt_irq' \in [Irqs -> Routines]
       /\ \A i \in Irqs : i # call.irq => alt_irq'[i] = alt_irq[i]
       /\ alt_irq'[call.irq].handler =
             IF next = "context" THEN call.handler ELSE alt_irq[call.irq].handler
       /\ next = "disable" => alt_irq'[call.irq].context = call.handler
  <2>1. alt_irq \in [Irqs -> Routines] /\ alt_irq[call.irq] \in Routines
    BY <1>1, <1>6 DEF TypesOK
  <2>2. /\ [alt_irq[call.irq] EXCEPT !.handler = call.handler] \in Routines
        /\ [alt_irq[call.irq] EXCEPT !.context = call.handler] \in Routines
    BY <1>6, <2>1 DEF Routines
  <2> QED BY <1>3, <1>6, <2>1, <2>2 DEF Routines
<1>11. TypesOK' /\ StackOK' /\ Current'.call = k /\ Top' = 1
  BY <1>1, <1>2, <1>3, <1>4, <1>5, <1>6, <1>8, <1>9, <1>10, CallKeepsShape DEF TypesOK, on
<1>12. TableOK'
  <2>1. \A n \in 1..Top' : contexts'[n].call.op # "enable" /\ contexts'[n].pc = "thread"
    BY <1>5, <1>8, <1>11 DEF StackOK, Placed, Current
  <2>2. \A i \in Irqs : \/ alt_irq'[i].context = alt_irq'[i].handler
                        \/ k.pc = "context" /\ k.irq = i
    <3>1. next = "disable" => alt_irq[call.irq].handler = call.handler
      BY <1>1, <1>3, <1>5, <1>6 DEF TableOK
    <3> QED BY <1>1, <1>3, <1>6, <1>7, <1>8, <1>10, <3>1 DEF TableOK
  <2>3. \A i \in alt_irq_active \cup ienable : i = call.irq \/ alt_irq'[i].handler # "NULL"
    BY <1>1, <1>6, <1>10 DEF TableOK, Settling, TypesOK
  <2>4. alt_irq'[call.irq].handler = call.handler
    BY <1>1, <1>3, <1>5, <1>6, <1>10 DEF TableOK
  <2>5. \A i \in Irqs : i = call.irq => Settling(i)'
    BY <1>5, <1>7, <1>8, <1>11 DEF Settling
  <2>6. \A i \in (alt_irq_active \cup ienable)' : alt_irq'[i].handler # "NULL" \/ Settling(i)'
    BY <1>1, <1>2, <2>3, <2>5 DEF TypesOK
  <2> QED BY <1>2, <1>7, <1>8, <1>11, <2>1, <2>2, <2>4, <2>6 DEF TableOK
<1>13. HeapOK'
  BY <1>1, <1>2, <1>7, <1>8, <1>11 DEF HeapOK, BlocksDisjoint
<1>14. PriorityOK => PriorityOK'
  <2>1. PriorityOK => ienable = alt_irq_active \cap alt_priority_mask
    BY <1>3, <1>6 DEF PriorityOK
  <2> QED BY <1>1, <1>2, <1>3, <1>7, <1>8, <2>1, CallKeepsPriority
<1> QED BY <1>1, <1>11, <1>12, <1>13, <1>14 DEF IrqIInv

\* An interrupt is enabled or disabled: alt_irq_active is read and written, then
\* the register of the processor.
LEMMA EnableOneStep == ASSUME IrqIInv, EnableOne PROVE IrqIInv'
<1> DEFINE call == Current.call
           on == Admits(Current)
<1>1. TypesOK /\ StackOK /\ TableOK /\ HeapOK /\ (~IsrEnables => PriorityOK)
  BY DEF IrqIInv
<1>2. /\ line' = line /\ pie' = pie /\ alt_irq' = alt_irq
      /\ alt_priority_mask' = alt_priority_mask /\ heap_end' = heap_end /\ blocks' = blocks
  BY DEF EnableOne, ReadActive, WriteActive, WriteIenable, cpu, masks, heap
<1>3. call.pc \in {"read", "write", "ienable"}
  BY DEF EnableOne, ReadActive, WriteActive, WriteIenable, Inside
<1>4. /\ call # NoCall /\ call \in CallRecords /\ CallOK(call, on) /\ on \in BOOLEAN
      /\ pie <=> on /\ call.saved = << >>
      /\ ~IsrEnables /\ Top # 1 => call.op \in {"none", "sbrk"}
      /\ pie \in BOOLEAN
  BY <1>1, <1>3, InCall
<1> HIDE DEF on
<1>5. /\ call.op \in {"register", "enable", "disable"} /\ call.prev = -1
      /\ \/ call.op = "register" /\ call.saved = <<on, FALSE>>
         \/ call.op \in {"enable", "disable"} /\ call.saved = <<on>>
      /\ call.saved # << >> /\ pie = FALSE
  BY <1>3, <1>4, Tuples DEF CallOK, NoCall
<1>6. call = Current.call /\ call.irq \in Irqs /\ call.handler \in Names
  BY <1>4 DEF CallRecords
<1> DEFINE Onward(pc, active) == [call EXCEPT !.pc = pc, !.active = active]
<1>7. ASSUME NEW pc \in {"write", "ienable", "restore"}, NEW active \in SUBSET Irqs
      PROVE  LET k == Onward(pc, active)
             IN  /\ k \in CallRecords /\ k.pc = pc /\ k.op = call.op /\ k.irq = call.irq
                 /\ k.handler = call.handler /\ k.saved = call.saved /\ k.prev = call.prev
                 /\ k.active = active /\ CallOK(k, on)
  <2> HIDE DEF call
  <2> DEFINE k == Onward(pc, active)
  <2>1. pc \in CallPcs
    BY DEF CallPcs
  <2>2. /\ k \in CallRecords /\ k.pc = pc /\ k.op = call.op /\ k.irq = call.irq
        /\ k.handler = call.handler /\ k.saved = call.saved /\ k.prev = call.prev
        /\ k.active = active
    BY <1>4, <2>1 DEF CallRecords
  <2> HIDE DEF k
  <2>3. CallOK(k, on)
    BY <1>5, <2>2 DEF CallOK
  <2> QED BY <2>2, <2>3 DEF k
<1>8. /\ \A i \in Irqs : alt_irq[i].context = alt_irq[i].handler
      /\ call.op = "register" => alt_irq[call.irq].handler = call.handler
      /\ call.op = "enable" => alt_irq[call.irq].handler # "NULL"
  BY <1>1, <1>3, <1>5, <1>6, CurrentType DEF TableOK, Current
<1> HIDE DEF call, Onward
<1>9. CASE ReadActive
  <2> DEFINE k == Onward("write", alt_irq_active)
  <2>1. CallGoes(k) /\ call.pc = "read" /\ alt_irq_active' = alt_irq_active /\ ienable' = ienable
    BY <1>9 DEF ReadActive, Inside, masks, cpu, call, Onward
  <2>2. /\ k \in CallRecords /\ k.pc = "write" /\ k.op = call.op /\ k.irq = call.irq
        /\ k.handler = call.handler /\ k.saved = call.saved /\ k.prev = call.prev
        /\ k.active = alt_irq_active /\ CallOK(k, on)
    BY <1>1, <1>7 DEF TypesOK
  <2> HIDE DEF k
  <2>3. TypesOK' /\ StackOK' /\ Current'.call = k /\ Top' = Top
    BY <1>1, <1>2, <1>4, <1>5, <1>6, <2>1, <2>2, CallKeepsShape DEF TypesOK, on
  <2>4. TableOK'
    <3>1. \A i \in alt_irq_active \cup ienable : alt_irq[i].handler # "NULL" \/ Settling(i)'
      <4> TAKE i \in alt_irq_active \cup ienable
      <4>1. alt_irq[i].handler # "NULL" \/ Settling(i)
        BY <1>1 DEF TableOK
      <4>2. Settling(i) => Settling(i)'
        BY <1>6, <2>2, <2>3 DEF Settling
      <4> QED BY <4>1, <4>2
    <3> QED BY <1>1, <1>2, <1>8, <2>1, <2>2, <2>3, <3>1, CallKeepsNames DEF TableOK
  <2>5. HeapOK'
    BY <1>1, <1>2, <2>2, <2>3 DEF HeapOK, BlocksDisjoint
  <2>6. PriorityOK => PriorityOK'
    <3>1. PriorityOK => ienable = alt_irq_active \cap alt_priority_mask
      BY <1>6, <2>1 DEF PriorityOK
    <3> QED BY <1>1, <1>2, <2>1, <2>2, <3>1, CallKeepsPriority
  <2> QED BY <1>1, <2>3, <2>4, <2>5, <2>6 DEF IrqIInv
<1>10. CASE WriteActive
  <2> DEFINE k == Onward("ienable", {})
  <2>1. /\ CallGoes(k) /\ call.pc = "write" /\ ienable' = ienable
        /\ alt_irq_active' = IF Enabling(call) THEN call.active \cup {call.irq}
                             ELSE call.active \ {call.irq}
    BY <1>10 DEF WriteActive, Inside, cpu, call, Onward
  <2>2. /\ k \in CallRecords /\ k.pc = "ienable" /\ k.op = call.op /\ k.irq = call.irq
        /\ k.handler = call.handler /\ k.saved = call.saved /\ k.prev = call.prev
        /\ CallOK(k, on)
    BY <1>7
  <2> HIDE DEF k
  <2>3. call.active = alt_irq_active
    BY <1>1, <1>6, <2>1 DEF TableOK
  <2>4. alt_irq_active' \subseteq Irqs
    BY <1>1, <1>6, <2>1, <2>3 DEF TypesOK
  <2>5. TypesOK' /\ StackOK' /\ Current'.call = k /\ Top' = Top
    BY <1>1, <1>2, <1>4, <1>5, <1>6, <2>1, <2>2, <2>4, CallKeepsShape DEF TypesOK, on
  <2>6. TableOK'
    <3>1. \A i \in alt_irq_active \cup ienable : i = call.irq \/ alt_irq[i].handler # "NULL"
      BY <1>1, <1>6 DEF TableOK, Settling
    <3>2. \A i \in alt_irq_active' : alt_irq[i].handler # "NULL"
      BY <1>5, <1>8, <2>1, <2>3, <3>1 DEF Enabling
    <3>3. \A i \in ienable : alt_irq[i].handler # "NULL" \/ Settling(i)'
      <4> TAKE i \in ienable
      <4>1. alt_irq[i].handler # "NULL" \/ Settling(i)
        BY <1>1 DEF TableOK
      <4>2. Settling(i) => Settling(i)'
        BY <1>6, <2>2, <2>5 DEF Settling
      <4> QED BY <4>1, <4>2
    <3> QED BY <1>1, <1>2, <1>8, <2>1, <2>2, <2>5, <3>2, <3>3, CallKeepsNames DEF TableOK
  <2>7. HeapOK'
    BY <1>1, <1>2, <2>2, <2>5 DEF HeapOK, BlocksDisjoint
  <2>8. PriorityOK => PriorityOK'
    BY <1>1, <1>2, <2>1, <2>2, CallKeepsPriority
  <2> QED BY <1>1, <2>5, <2>6, <2>7, <2>8 DEF IrqIInv
<1>11. CASE WriteIenable
  <2> DEFINE k == Onward("restore", call.active)
  <2>1. CallGoes(k) /\ call.pc = "ienable" /\ alt_irq_active' = alt_irq_active /\ ienable' = alt_irq_active
    <3>1. k = [call EXCEPT !.pc = "restore"]
      BY <1>4 DEF Onward, CallRecords
    <3> QED BY <1>11, <3>1 DEF WriteIenable, Inside, masks, call
  <2>2. /\ k \in CallRecords /\ k.pc = "restore" /\ k.op = call.op /\ k.irq = call.irq
        /\ k.handler = call.handler /\ k.saved = call.saved /\ k.prev = call.prev
        /\ CallOK(k, on)
    BY <1>4, <1>7 DEF CallRecords
  <2> HIDE DEF k
  <2>3. TypesOK' /\ StackOK' /\ Current'.call = k /\ Top' = Top
    BY <1>1, <1>2, <1>4, <1>5, <1>6, <2>1, <2>2, CallKeepsShape DEF TypesOK, on
  <2>4. TableOK'
    <3>1. \A i \in alt_irq_active : alt_irq[i].handler # "NULL"
      BY <1>1, <1>6, <2>1 DEF TableOK
    <3> QED BY <1>1, <1>2, <1>8, <2>1, <2>2, <2>3, <3>1, CallKeepsNames DEF TableOK
  <2>5. HeapOK'
    BY <1>1, <1>2, <1>5, <2>2, <2>3 DEF HeapOK, BlocksDisjoint
  <2>6. ~IsrEnables /\ PriorityOK => PriorityOK'
    <3>1. ~IsrEnables => Top = 1
      BY <1>4, <1>5
    <3>2. Top = 1 /\ PriorityOK => alt_priority_mask = Irqs
      <4>1. Allowed(ALT_NIRQ) = Irqs
        BY InterruptsAssumption DEF Allowed, Irqs
      <4>2. Top = 1 => Admits(Current)
        BY <1>1 DEF StackOK, Placed, Admits, Current
      <4> QED BY <4>1, <4>2 DEF PriorityOK
    <3>3. ~IsrEnables /\ PriorityOK => ienable' = alt_irq_active' \cap alt_priority_mask
      BY <1>1, <2>1, <3>1, <3>2 DEF TypesOK
    <3> QED BY <1>1, <1>2, <2>1, <2>2, <3>3, CallKeepsPriority
  <2> QED BY <1>1, <2>3, <2>4, <2>5, <2>6 DEF IrqIInv
<1> QED BY <1>9, <1>10, <1>11 DEF EnableOne

\* The end of the heap goes up to a word boundary, and not below where it was.
LEMMA AlignUp ==
    ASSUME NEW end \in Nat
    PROVE  Align(end) \in Nat /\ Align(end) >= end /\ Align(end) % 4 = 0
BY DEF Align

\* alt_sbrk between its two critical accesses.
LEMMA SbrkStep == ASSUME IrqIInv, alt_sbrk PROVE IrqIInv'
<1> DEFINE call == Current.call
           on == Admits(Current)
<1>1. TypesOK /\ StackOK /\ TableOK /\ HeapOK /\ (~IsrEnables => PriorityOK)
  BY DEF IrqIInv
<1>2. /\ line' = line /\ pie' = pie /\ ienable' = ienable /\ alt_irq_active' = alt_irq_active
      /\ alt_priority_mask' = alt_priority_mask /\ alt_irq' = alt_irq /\ blocks' = blocks
  BY DEF alt_sbrk, SbrkAlign, SbrkCheck, SbrkExtend, cpu, masks, heap
<1>3. call.pc \in {"align", "check", "extend"}
  BY DEF alt_sbrk, SbrkAlign, SbrkCheck, SbrkExtend, Inside
<1>4. /\ call # NoCall /\ call \in CallRecords /\ CallOK(call, on) /\ on \in BOOLEAN
      /\ pie <=> on /\ call.saved = << >>
      /\ pie \in BOOLEAN
  BY <1>1, <1>3, InCall
<1> HIDE DEF on
<1>5. /\ call.op = "sbrk" /\ call.saved = <<on>> /\ call.saved # << >> /\ pie = FALSE
      /\ call.pc \in {"align", "check"} => call.prev = -1
  BY <1>3, <1>4, Tuples DEF CallOK, NoCall
<1>6. call = Current.call /\ call.incr \in Nat /\ call.prev \in Int /\ heap_end \in Nat
  BY <1>1, <1>4 DEF CallRecords, TypesOK
<1> DEFINE Onward(pc, prev) == [call EXCEPT !.pc = pc, !.prev = prev]
<1>7. ASSUME NEW pc \in {"check", "extend", "restore"}, NEW prev \in Int,
             pc = "check" => prev = -1
      PROVE  LET k == Onward(pc, prev)
             IN  /\ k \in CallRecords /\ k.pc = pc /\ k.op = "sbrk" /\ k.saved = call.saved
                 /\ k.incr = call.incr /\ k.prev = prev /\ CallOK(k, on)
  <2> HIDE DEF call
  <2> DEFINE k == Onward(pc, prev)
  <2>1. pc \in CallPcs
    BY DEF CallPcs
  <2>2. /\ k \in CallRecords /\ k.pc = pc /\ k.op = "sbrk" /\ k.saved = call.saved
        /\ k.incr = call.incr /\ k.prev = prev
    BY <1>4, <1>5, <2>1 DEF CallRecords
  <2> HIDE DEF k
  <2>3. CallOK(k, on)
    BY <1>5, <1>7, <2>2 DEF CallOK
  <2> QED BY <2>2, <2>3 DEF k
<1> HIDE DEF call, Onward
\* What does not depend on the heap.
<1>8. ASSUME NEW k \in CallRecords, CallGoes(k), CallOK(k, on), k.op = "sbrk",
             k.saved = call.saved, k.pc \in {"check", "extend", "restore"}, heap_end' \in Nat
      PROVE  /\ TypesOK' /\ StackOK' /\ TableOK' /\ (PriorityOK => PriorityOK')
             /\ Current'.call = k
  <2>1. TypesOK' /\ StackOK' /\ Current'.call = k /\ Top' = Top
    BY <1>1, <1>2, <1>4, <1>5, <1>6, <1>8, CallKeepsShape DEF TypesOK, on
  <2>2. TableOK'
    <3>1. \A i \in alt_irq_active \cup ienable : alt_irq[i].handler # "NULL"
      BY <1>1, <1>5, <1>6 DEF TableOK, Settling
    <3>2. \A i \in Irqs : alt_irq[i].context = alt_irq[i].handler
      BY <1>1, <1>3, <1>6 DEF TableOK
    <3> QED BY <1>1, <1>2, <1>8, <2>1, <3>1, <3>2, CallKeepsNames DEF TableOK
  <2>3. PriorityOK => PriorityOK'
    <3>1. PriorityOK => ienable = alt_irq_active \cap alt_priority_mask
      BY <1>3, <1>6 DEF PriorityOK
    <3> QED BY <1>1, <1>2, <1>8, <3>1, CallKeepsPriority
  <2> QED BY <2>1, <2>2, <2>3
<1>9. CASE SbrkAlign
  <2> DEFINE k == Onward("check", -1)
  <2>1. CallGoes(k) /\ heap_end' = Align(heap_end)
    <3>1. k = [call EXCEPT !.pc = "check"]
      BY <1>4, <1>5, <1>9 DEF Onward, CallRecords, SbrkAlign, Inside, call
    <3> QED BY <1>9, <3>1 DEF SbrkAlign, call
  <2>2. k \in CallRecords /\ k.pc = "check" /\ k.op = "sbrk" /\ k.saved = call.saved /\ CallOK(k, on)
    BY <1>7
  <2> HIDE DEF k
  <2>3. heap_end' \in Nat /\ heap_end' >= heap_end /\ heap_end' % 4 = 0
    BY <1>6, <2>1, AlignUp
  <2>4. /\ TypesOK' /\ StackOK' /\ TableOK' /\ (PriorityOK => PriorityOK')
        /\ Current'.call = k
    BY <1>8, <2>1, <2>2, <2>3
  <2>5. HeapOK'
    <3>1. \A a \in blocks : a \subseteq 0..(heap_end' - 1)
      BY <1>1, <1>6, <2>3 DEF HeapOK
    <3> QED BY <1>1, <1>2, <2>2, <2>3, <2>4, <3>1 DEF HeapOK, BlocksDisjoint
  <2> QED BY <1>1, <2>4, <2>5 DEF IrqIInv
<1>10. CASE SbrkCheck
  <2>1. heap_end' = heap_end /\ heap_end % 4 = 0
    BY <1>1, <1>10 DEF SbrkCheck, heap, Inside, HeapOK
  <2>2. CASE heap_end + call.incr > Heap
    <3> DEFINE k == Onward("restore", -1)
    <3>1. CallGoes(k)
      <4>1. k = [call EXCEPT !.pc = "restore"]
        BY <1>4, <1>5, <1>10 DEF Onward, CallRecords, SbrkCheck, Inside, call
      <4> QED BY <1>10, <2>2, <4>1 DEF SbrkCheck, call
    <3>2. /\ k \in CallRecords /\ k.pc = "restore" /\ k.op = "sbrk" /\ k.saved = call.saved
          /\ k.prev = -1 /\ CallOK(k, on)
      BY <1>7
    <3> HIDE DEF k
    <3>3. /\ TypesOK' /\ StackOK' /\ TableOK' /\ (PriorityOK => PriorityOK')
          /\ Current'.call = k
      BY <1>6, <1>8, <2>1, <3>1, <3>2
    <3>4. HeapOK'
      BY <1>1, <1>2, <2>1, <3>2, <3>3 DEF HeapOK, BlocksDisjoint
    <3> QED BY <1>1, <3>3, <3>4 DEF IrqIInv
  <2>3. CASE ~(heap_end + call.incr > Heap)
    <3> DEFINE k == Onward("extend", heap_end)
    <3>1. CallGoes(k)
      BY <1>10, <2>3 DEF SbrkCheck, call, Onward
    <3>2. /\ k \in CallRecords /\ k.pc = "extend" /\ k.op = "sbrk" /\ k.saved = call.saved
          /\ k.prev = heap_end /\ k.incr = call.incr /\ CallOK(k, on)
      BY <1>6, <1>7
    <3> HIDE DEF k
    <3>3. /\ TypesOK' /\ StackOK' /\ TableOK' /\ (PriorityOK => PriorityOK')
          /\ Current'.call = k
      BY <1>6, <1>8, <2>1, <3>1, <3>2
    <3>4. heap_end + call.incr <= Heap
      BY <1>6, <2>3, InterruptsAssumption
    <3>5. HeapOK'
      BY <1>1, <1>2, <2>1, <3>2, <3>3, <3>4 DEF HeapOK, BlocksDisjoint
    <3> QED BY <1>1, <3>3, <3>5 DEF IrqIInv
  <2> QED BY <2>2, <2>3
<1>11. CASE SbrkExtend
  <2> DEFINE k == Onward("restore", call.prev)
  <2>1. CallGoes(k) /\ heap_end' = heap_end + call.incr /\ call.pc = "extend"
    <3>1. k = [call EXCEPT !.pc = "restore"]
      BY <1>4 DEF Onward, CallRecords
    <3> QED BY <1>11, <3>1 DEF SbrkExtend, call, Inside
  <2>2. /\ k \in CallRecords /\ k.pc = "restore" /\ k.op = "sbrk" /\ k.saved = call.saved
        /\ k.prev = call.prev /\ k.incr = call.incr /\ CallOK(k, on)
    BY <1>6, <1>7
  <2> HIDE DEF k
  <2>3. /\ call.prev = heap_end /\ heap_end % 4 = 0 /\ heap_end + call.incr <= Heap
        /\ \A a \in blocks : a \subseteq 0..(heap_end - 1)
    BY <1>1, <1>6, <2>1 DEF HeapOK
  <2>4. heap_end' \in Nat /\ heap_end' >= heap_end
    BY <1>6, <2>1
  <2>5. /\ TypesOK' /\ StackOK' /\ TableOK' /\ (PriorityOK => PriorityOK')
        /\ Current'.call = k
    BY <1>8, <2>1, <2>2, <2>4
  <2>6. HeapOK'
    <3>1. \A a \in blocks : a \subseteq 0..(heap_end' - 1)
      BY <1>6, <2>3, <2>4
    <3> QED BY <1>1, <1>2, <1>6, <2>1, <2>2, <2>3, <2>5, <3>1 DEF HeapOK, BlocksDisjoint
  <2> QED BY <1>1, <2>5, <2>6 DEF IrqIInv
<1> QED BY <1>9, <1>10, <1>11 DEF alt_sbrk

\* A context begins a call.
LEMMA BeginStep ==
    ASSUME IrqIInv, NEW op \in {"register", "enable", "disable", "sbrk"}, NEW irq \in Irqs,
           NEW handler \in Names, NEW incr \in Nat, Begin(op, irq, handler, incr),
           op = "register" => Current.pc = "thread",
           op = "enable" => alt_irq[irq].handler # "NULL",
           op \in {"enable", "disable"} => Current.pc = "thread" \/ IsrEnables
    PROVE  IrqIInv'
<1> DEFINE calls == IF Current.pc = "thread" THEN 0 ELSE 1
           k == [NoCall EXCEPT !.op = op, !.irq = irq, !.handler = handler, !.incr = incr,
                               !.pc = "disable"]
           c == [Current EXCEPT !.calls = calls, !.call = k]
<1>1. TypesOK /\ StackOK /\ TableOK /\ HeapOK /\ (~IsrEnables => PriorityOK)
  BY DEF IrqIInv
<1>2. /\ Current.pc \in {"thread", "body", "open"} /\ Current.call.op = "none" /\ Goes(c)
      /\ line' = line /\ pie' = pie /\ ienable' = ienable /\ alt_irq_active' = alt_irq_active
      /\ alt_priority_mask' = alt_priority_mask /\ alt_irq' = alt_irq /\ heap_end' = heap_end
      /\ blocks' = blocks
  BY DEF Begin, cpu, masks, heap
<1>3. /\ Current \in ContextRecords /\ CallOK(Current.call, Admits(Current))
      /\ pie <=> Admits(Current) /\ Current.call.saved = << >>
  BY <1>1, InCall
<1>4. Current.call = NoCall /\ NoCall.saved = << >> /\ NoCall.pc = "idle" /\ NoCall.op = "none"
  BY <1>2, <1>3 DEF CallOK, NoCall
<1>5. /\ k.op = op /\ k.irq = irq /\ k.handler = handler /\ k.incr = incr /\ k.pc = "disable"
      /\ k.saved = << >> /\ k.prev = -1 /\ k \in CallRecords
  BY NoCallType DEF NoCall, CallRecords, CallPcs
<1> HIDE DEF k
<1>6. calls \in 0..1
  OBVIOUS
<1> HIDE DEF calls
<1>7. /\ c \in ContextRecords /\ c.call = k /\ c.pc = Current.pc /\ c.irq = Current.irq
      /\ c.mask = Current.mask /\ c.called = Current.called
  BY <1>3, <1>5, <1>6 DEF ContextRecords
<1> HIDE DEF c
<1>8. Top' = Top /\ Top \in 1..Top /\ Top # 0 /\ Current' = c /\ contexts' \in Seq(ContextRecords)
  BY <1>1, <1>2, <1>7, GoesOn, CurrentType
<1>9. Placed(Top, Current) /\ (Top = 1 <=> Current.pc = "thread")
  BY <1>1, <1>8 DEF StackOK, Placed, Current
<1>10. Placed(Top, c)
  <2>1. CallOK(k, Admits(c))
    BY <1>5 DEF CallOK
  <2> QED BY <1>2, <1>5, <1>7, <1>9, <2>1 DEF Placed
<1>11. TypesOK'
  BY <1>1, <1>2, <1>8 DEF TypesOK
<1>12. StackOK'
  <2>1. pie' <=> Waits(c)
    BY <1>2, <1>3, <1>4, <1>5, <1>7 DEF Waits, Admits
  <2> QED BY <1>1, <1>2, <1>7, <1>10, <2>1, GoesKeepsStack
<1>13. TableOK'
  <2>1. \A n \in 1..Top' :
          /\ contexts'[n].call.op = "enable" =>
               alt_irq'[contexts'[n].call.irq].handler # "NULL"
          /\ contexts'[n].pc \in {"isr", "body", "open"} => Registered(contexts'[n].called)
    <3>1. Current.pc \in {"isr", "body", "open"} => Registered(Current.called)
      BY <1>1, <1>8 DEF TableOK, Current
    <3> QED BY <1>1, <1>2, <1>5, <1>7, <3>1, GoesKeepsNames
  <2>2. /\ \A i \in Irqs : alt_irq[i].context = alt_irq[i].handler
        /\ \A i \in alt_irq_active \cup ienable : alt_irq[i].handler # "NULL"
    BY <1>1, <1>4 DEF TableOK, Settling
  <2> QED BY <1>2, <1>5, <1>7, <1>8, <2>1, <2>2 DEF TableOK
<1>14. HeapOK'
  BY <1>1, <1>2, <1>5, <1>7, <1>8 DEF HeapOK, BlocksDisjoint
<1>15. PriorityOK => PriorityOK'
  <2> SUFFICES ASSUME PriorityOK PROVE PriorityOK'
    OBVIOUS
  <2>1. /\ ienable' = alt_irq_active' \cap alt_priority_mask'
        /\ Top = 1 => c.irq = ALT_NIRQ
        /\ Top # 1 /\ c.pc # "loop" => \A m \in 1..(Top - 1) : c.irq < contexts[m].irq
        /\ Top # 1 /\ c.pc = "open" => c.mask = Allowed(contexts[Top - 1].irq)
        /\ Admits(c) => alt_priority_mask' = Allowed(c.irq)
        /\ ~Admits(c) => alt_priority_mask' = Allowed(contexts[Top - 1].irq)
    BY <1>2, <1>4, <1>7, <1>8 DEF PriorityOK, Admits, Current
  <2> QED BY <1>1, <1>2, <1>7, <1>10, <2>1, GoesKeepsPriority
<1> QED BY <1>1, <1>11, <1>12, <1>13, <1>14, <1>15 DEF IrqIInv

LEMMA CallsStep == ASSUME IrqIInv, ProgramCalls PROVE IrqIInv'
<1>1. CASE \E i \in Irqs, h \in Handlers \cup {"NULL"} :
             Current.pc = "thread" /\ Begin("register", i, h, 0)
  BY <1>1, BeginStep DEF Names
<1>2. CASE \E i \in Irqs, op \in {"enable", "disable"} :
             /\ Current.pc # "thread" => IsrEnables
             /\ alt_irq[i].handler # "NULL"
             /\ Begin(op, i, "NULL", 0)
  BY <1>2, BeginStep DEF Names
<1>3. CASE \E incr \in Incrs : Begin("sbrk", 0, "NULL", incr)
  <2>1. 0 \in Irqs
    BY InterruptsAssumption DEF Irqs
  <2> QED BY <1>3, <2>1, BeginStep, InterruptsAssumption DEF Names
<1> QED BY <1>1, <1>2, <1>3 DEF ProgramCalls

-----------------------------------------------------------------------------
(* The processor and the handler *)

\* Where no call is in progress the table is settled and the masks agree.
LEMMA NoCallFacts ==
    ASSUME IrqIInv, Current.call.saved = << >>
    PROVE  /\ \A i \in Irqs : alt_irq[i].context = alt_irq[i].handler
           /\ \A i \in alt_irq_active \cup ienable : alt_irq[i].handler # "NULL"
           /\ PriorityOK => ienable = alt_irq_active \cap alt_priority_mask
           /\ Current.call.pc \in {"idle", "disable"}
<1>1. TypesOK /\ StackOK /\ TableOK
  BY DEF IrqIInv
<1>2. CallOK(Current.call, Admits(Current))
  BY <1>1, InCall
<1>3. Current.call.pc \in {"idle", "disable"}
  BY <1>2, Tuples, <1>1, InCall DEF CallOK, NoCall
<1> QED BY <1>1, <1>3 DEF TableOK, Settling, PriorityOK

\* What a step of a handler, between its calls, has to show.
LEMMA HandlerKeeps ==
    ASSUME IrqIInv, Current.call.op = "none", NEW c \in ContextRecords, Goes(c),
           c.call = NoCall, Current.pc # "thread", c.pc # "thread",
           c.pc \in {"isr", "body", "open"} => Registered(c.called),
           line' \subseteq Irqs, pie' \in BOOLEAN, pie' <=> c.pc = "open",
           ienable' \subseteq alt_irq_active \cup ienable, alt_priority_mask' \subseteq Irqs,
           alt_irq_active' = alt_irq_active, alt_irq' = alt_irq,
           heap_end' = heap_end, blocks' = blocks,
           PriorityOK =>
             /\ ienable' = alt_irq_active \cap alt_priority_mask'
             /\ c.pc # "loop" => \A m \in 1..(Top - 1) : c.irq < contexts[m].irq
             /\ c.pc = "open" => c.mask = Allowed(contexts[Top - 1].irq)
             /\ c.pc = "open" => alt_priority_mask' = Allowed(c.irq)
             /\ c.pc # "open" => alt_priority_mask' = Allowed(contexts[Top - 1].irq)
    PROVE  IrqIInv'
<1>1. TypesOK /\ StackOK /\ TableOK /\ HeapOK /\ (~IsrEnables => PriorityOK)
  BY DEF IrqIInv
<1>2. /\ NoCall.saved = << >> /\ NoCall.pc = "idle" /\ NoCall.op = "none"
  BY DEF NoCall
<1>3. Current.call = NoCall
  BY <1>1, InCall DEF CallOK
<1>4. /\ Top' = Top /\ Top \in 1..Top /\ Top # 0 /\ Current' = c
      /\ contexts' \in Seq(ContextRecords)
  BY <1>1, GoesOn, CurrentType
<1>5. Top # 1
  BY <1>1, <1>4 DEF StackOK, Placed, Current
<1>6. Placed(Top, c)
  BY <1>2, <1>5 DEF Placed, CallOK
<1>7. TypesOK'
  BY <1>1, <1>4 DEF TypesOK
<1>8. StackOK'
  <2>1. pie' <=> Waits(c)
    BY <1>2 DEF Waits, Admits
  <2> QED BY <1>1, <1>6, <2>1, GoesKeepsStack
<1>9. TableOK'
  <2>1. \A n \in 1..Top' :
          /\ contexts'[n].call.op = "enable" =>
               alt_irq'[contexts'[n].call.irq].handler # "NULL"
          /\ contexts'[n].pc \in {"isr", "body", "open"} => Registered(contexts'[n].called)
    BY <1>1, <1>2, GoesKeepsNames
  <2>2. /\ \A i \in Irqs : alt_irq[i].context = alt_irq[i].handler
        /\ \A i \in alt_irq_active \cup ienable : alt_irq[i].handler # "NULL"
    BY <1>2, <1>3, NoCallFacts
  <2> QED BY <1>2, <1>4, <2>1, <2>2 DEF TableOK
<1>10. HeapOK'
  BY <1>1, <1>2, <1>4 DEF HeapOK, BlocksDisjoint
<1>11. PriorityOK => PriorityOK'
  BY <1>1, <1>5, <1>6, GoesKeepsPriority DEF Admits
<1> QED BY <1>1, <1>7, <1>8, <1>9, <1>10, <1>11 DEF IrqIInv

\* The context of a handler, as it stands between its calls.
LEMMA HandlerFacts ==
    ASSUME IrqIInv, Current.call.op = "none", Current.pc \in {"loop", "isr", "body", "open"}
    PROVE  /\ Current \in ContextRecords /\ Current.call = NoCall /\ Current.pc # "thread"
           /\ pie \in BOOLEAN /\ (pie <=> Current.pc = "open")
           /\ Top - 1 \in 1..(Top - 1) /\ Top \in Nat
           /\ \A m \in 1..(Top - 1) : contexts[m] \in ContextRecords
           /\ contexts[Top - 1].pc \in {"thread", "open"}
           /\ \A i \in Irqs : alt_irq[i].context = alt_irq[i].handler
           /\ \A i \in alt_irq_active \cup ienable : alt_irq[i].handler # "NULL"
           /\ Current.pc # "loop" => Registered(Current.called)
           /\ PriorityOK =>
                 /\ ienable = alt_irq_active \cap alt_priority_mask
                 /\ Current.pc # "loop" => \A m \in 1..(Top - 1) : Current.irq < contexts[m].irq
                 /\ Current.pc = "open" => Current.mask = Allowed(contexts[Top - 1].irq)
                 /\ Current.pc = "open" => alt_priority_mask = Allowed(Current.irq)
                 /\ Current.pc # "open" => alt_priority_mask = Allowed(contexts[Top - 1].irq)
<1>1. TypesOK /\ StackOK /\ TableOK
  BY DEF IrqIInv
<1>2. /\ Current \in ContextRecords /\ Top \in Nat \ {0} /\ Top \in 1..Top
      /\ \A n \in 1..Top : contexts[n] \in ContextRecords
  BY <1>1, CurrentType
<1>3. /\ NoCall.saved = << >>
      /\ Current.call = NoCall
  BY <1>1, InCall DEF CallOK, NoCall
<1>4. Placed(Top, Current)
  BY <1>1, <1>2 DEF StackOK, Current
<1>5. Top # 1 /\ Top - 1 \in 1..(Top - 1)
  BY <1>2, <1>4 DEF Placed
<1>6. pie \in BOOLEAN /\ (pie <=> Current.pc = "open")
  BY <1>1, <1>3, InCall DEF Admits
<1>7. contexts[Top - 1].pc \in {"thread", "open"}
  BY <1>1, <1>5 DEF StackOK, Waits, Admits
<1>8. /\ \A i \in Irqs : alt_irq[i].context = alt_irq[i].handler
      /\ \A i \in alt_irq_active \cup ienable : alt_irq[i].handler # "NULL"
      /\ PriorityOK => ienable = alt_irq_active \cap alt_priority_mask
  BY <1>3, NoCallFacts
<1>9. Current.pc # "loop" => Registered(Current.called)
  BY <1>1, <1>2 DEF TableOK, Current
<1>10. PriorityOK =>
         /\ Current.pc # "loop" => \A m \in 1..(Top - 1) : Current.irq < contexts[m].irq
         /\ Current.pc = "open" => Current.mask = Allowed(contexts[Top - 1].irq)
         /\ Current.pc = "open" => alt_priority_mask = Allowed(Current.irq)
         /\ Current.pc # "open" => alt_priority_mask = Allowed(contexts[Top - 1].irq)
  BY <1>2, <1>5 DEF PriorityOK, Admits, Current
<1> QED BY <1>2, <1>3, <1>5, <1>6, <1>7, <1>8, <1>9, <1>10

\* The handler calls the routine of the most urgent interrupt that is pending.
LEMMA DispatchStep == ASSUME IrqIInv, Dispatch PROVE IrqIInv'
<1> DEFINE i == Min(alt_irq_pending)
           c == [Current EXCEPT !.pc = "isr", !.irq = i, !.called = alt_irq[i]]
<1>1. /\ Current.pc = "loop" /\ Current.call.op = "none" /\ Goes(c) /\ alt_irq_pending # {}
      /\ line' = line /\ pie' = pie /\ ienable' = ienable /\ alt_irq_active' = alt_irq_active
      /\ alt_priority_mask' = alt_priority_mask /\ alt_irq' = alt_irq /\ heap_end' = heap_end
      /\ blocks' = blocks
  BY DEF Dispatch, Outside, cpu, masks, heap
<1>2. TypesOK
  BY DEF IrqIInv
<1>3. i \in alt_irq_pending
  <2>1. alt_irq_pending \subseteq Nat
    BY <1>2 DEF alt_irq_pending, TypesOK, Irqs
  <2> QED BY <1>1, <2>1, MinInSet
<1>4. i \in ienable /\ i \in Irqs /\ i \in 0..ALT_NIRQ
  BY <1>2, <1>3, InterruptsAssumption DEF alt_irq_pending, TypesOK, Irqs
<1> HIDE DEF i
<1>5. /\ Current \in ContextRecords /\ Current.call = NoCall /\ Top \in Nat
      /\ Top - 1 \in 1..(Top - 1) /\ contexts[Top - 1].pc # "loop"
      /\ pie \in BOOLEAN /\ (pie <=> Current.pc = "open")
      /\ \A m \in 1..(Top - 1) : contexts[m] \in ContextRecords
  BY <1>1, HandlerFacts
<1>6. Registered(alt_irq[i]) /\ alt_irq[i] \in Routines
  BY <1>1, <1>2, <1>4, HandlerFacts DEF Registered, TypesOK
<1>7. /\ c \in ContextRecords /\ c.pc = "isr" /\ c.irq = i /\ c.called = alt_irq[i]
      /\ c.call = NoCall
  BY <1>4, <1>5, <1>6 DEF ContextRecords
<1> HIDE DEF c
<1>8. PriorityOK => \A m \in 1..(Top - 1) : i < contexts[m].irq
  <2> SUFFICES ASSUME PriorityOK, NEW m \in 1..(Top - 1) PROVE i < contexts[m].irq
    OBVIOUS
  <2>1. i < contexts[Top - 1].irq
    BY <1>1, <1>4, HandlerFacts DEF Allowed
  <2>2. CASE m = Top - 1
    BY <2>1, <2>2
  <2>3. CASE m # Top - 1
    <3>1. contexts[Top - 1].irq < contexts[m].irq
      BY <1>5, <2>3 DEF PriorityOK
    <3>2. /\ i \in Nat /\ contexts[Top - 1].irq \in Nat /\ contexts[m].irq \in Nat
      BY <1>4, <1>5, InterruptsAssumption DEF ContextRecords
    <3> QED BY <2>1, <3>1, <3>2
  <2> QED BY <2>2, <2>3
<1>9. PriorityOK => /\ ienable' = alt_irq_active \cap alt_priority_mask'
                    /\ alt_priority_mask' = Allowed(contexts[Top - 1].irq)
  BY <1>1, HandlerFacts
<1> QED BY <1>1, <1>2, <1>5, <1>6, <1>7, <1>8, <1>9, HandlerKeeps DEF TypesOK

\* A routine serves its device, opens for more urgent interrupts, closes, returns.
LEMMA RoutineStep == ASSUME IrqIInv, Routine PROVE IrqIInv'
<1>1. TypesOK
  BY DEF IrqIInv
<1>2. /\ alt_irq_active' = alt_irq_active /\ alt_irq' = alt_irq /\ heap_end' = heap_end
      /\ blocks' = blocks /\ Current.call.op = "none" /\ Current.pc \in {"isr", "body", "open"}
  BY DEF Routine, Serve, alt_irq_interruptible, alt_irq_non_interruptible, RoutineReturns,
         Outside, masks, heap
<1>3. /\ Current \in ContextRecords /\ Current.call = NoCall /\ Current.pc # "thread"
      /\ pie \in BOOLEAN /\ (pie <=> Current.pc = "open") /\ Registered(Current.called)
      /\ PriorityOK =>
            /\ ienable = alt_irq_active \cap alt_priority_mask
            /\ \A m \in 1..(Top - 1) : Current.irq < contexts[m].irq
            /\ Current.pc = "open" => Current.mask = Allowed(contexts[Top - 1].irq)
            /\ Current.pc # "open" => alt_priority_mask = Allowed(contexts[Top - 1].irq)
  BY <1>2, HandlerFacts
<1>4. /\ Closed \in ContextRecords /\ Closed.pc = "loop" /\ Closed.call = NoCall
  BY NoCallType DEF Closed, Thread, ContextRecords
<1>5. CASE Serve
  <2> DEFINE c == [Current EXCEPT !.pc = "body"]
  <2>1. /\ Goes(c) /\ Current.pc = "isr" /\ line' = line \ {Current.irq}
        /\ pie' = pie /\ ienable' = ienable /\ alt_priority_mask' = alt_priority_mask
    BY <1>5 DEF Serve, Outside, cpu, masks
  <2>2. /\ c \in ContextRecords /\ c.pc = "body" /\ c.call = NoCall /\ c.irq = Current.irq
        /\ c.called = Current.called
    BY <1>3 DEF ContextRecords
  <2> HIDE DEF c
  <2> QED BY <1>1, <1>2, <1>3, <2>1, <2>2, HandlerKeeps DEF TypesOK
<1>6. CASE alt_irq_interruptible
  <2> DEFINE c == [Current EXCEPT !.pc = "open", !.mask = alt_priority_mask]
  <2>1. /\ Goes(c) /\ Current.pc = "body" /\ line' = line /\ pie' = TRUE
        /\ alt_priority_mask' = Allowed(Current.irq)
        /\ ienable' = alt_irq_active \cap alt_priority_mask'
    BY <1>6 DEF alt_irq_interruptible, Outside
  <2>2. /\ c \in ContextRecords /\ c.pc = "open" /\ c.call = NoCall /\ c.irq = Current.irq
        /\ c.called = Current.called /\ c.mask = alt_priority_mask
    BY <1>1, <1>3 DEF ContextRecords, TypesOK
  <2> HIDE DEF c
  <2>3. alt_priority_mask' \subseteq Irqs
    BY <2>1 DEF Allowed
  <2> QED BY <1>1, <1>2, <1>3, <2>1, <2>2, <2>3, HandlerKeeps DEF TypesOK
<1>7. CASE alt_irq_non_interruptible
  <2>1. /\ Goes(Closed) /\ Current.pc = "open" /\ line' = line /\ pie' = FALSE
        /\ alt_priority_mask' = Current.mask
        /\ ienable' = Current.mask \cap alt_irq_active
    BY <1>7 DEF alt_irq_non_interruptible, Outside
  <2>2. alt_priority_mask' \subseteq Irqs
    BY <1>3, <2>1 DEF ContextRecords
  <2> QED BY <1>1, <1>2, <1>3, <1>4, <2>1, <2>2, HandlerKeeps DEF TypesOK
<1>8. CASE RoutineReturns
  <2>1. /\ Goes(Closed) /\ Current.pc = "body" /\ line' = line
        /\ pie' = pie /\ ienable' = ienable /\ alt_priority_mask' = alt_priority_mask
    BY <1>8 DEF RoutineReturns, Outside, cpu, masks
  <2> QED BY <1>1, <1>2, <1>3, <1>4, <2>1, HandlerKeeps DEF TypesOK
<1> QED BY <1>5, <1>6, <1>7, <1>8 DEF Routine

\* The processor takes an interrupt: a context on top of one that waits.
LEMMA TakeStep == ASSUME IrqIInv, Take PROVE IrqIInv'
<1> DEFINE c == [Thread EXCEPT !.pc = "loop"]
<1>1. TypesOK /\ StackOK /\ TableOK /\ HeapOK /\ (~IsrEnables => PriorityOK)
  BY DEF IrqIInv
<1>2. /\ pie /\ pie' = FALSE /\ contexts' = Append(contexts, c)
      /\ line' = line /\ ienable' = ienable /\ alt_irq_active' = alt_irq_active
      /\ alt_priority_mask' = alt_priority_mask /\ alt_irq' = alt_irq /\ heap_end' = heap_end
      /\ blocks' = blocks
  BY DEF Take, Interrupted, masks, heap
<1>3. /\ c \in ContextRecords /\ c.pc = "loop" /\ c.call = NoCall
  BY NoCallType DEF Thread, ContextRecords
<1> HIDE DEF c
<1>4. /\ NoCall.saved = << >> /\ NoCall.pc = "idle" /\ NoCall.op = "none"
  BY DEF NoCall
<1>5. /\ Top \in Nat \ {0} /\ Top \in 1..Top /\ contexts \in Seq(ContextRecords)
      /\ contexts' \in Seq(ContextRecords) /\ Top' = Top + 1 /\ Current' = c
      /\ \A n \in 1..Top' : contexts'[n] = IF n = Top' THEN c ELSE contexts[n]
  <2>1. /\ Top \in Nat \ {0} /\ Top \in 1..Top /\ contexts \in Seq(ContextRecords)
    BY <1>1, CurrentType DEF TypesOK
  <2>2. /\ contexts' \in Seq(ContextRecords) /\ Len(contexts') = Len(contexts) + 1
        /\ \A n \in 1..Len(contexts) : contexts'[n] = contexts[n]
        /\ contexts'[Len(contexts) + 1] = c
    BY <1>2, <1>3, <2>1, AppendProperties
  <2>3. Top' = Top + 1
    BY <2>2 DEF Top
  <2>4. Current' = c
    BY <2>2, <2>3 DEF Top, Current
  <2>5. \A n \in 1..Top' : contexts'[n] = IF n = Top' THEN c ELSE contexts[n]
    <3> TAKE n \in 1..Top'
    <3>1. CASE n = Top'
      BY <2>2, <2>3, <3>1 DEF Top
    <3>2. CASE n # Top'
      <4>1. n \in 1..Len(contexts)
        BY <2>1, <2>3, <3>2 DEF Top
      <4> QED BY <2>2, <3>2, <4>1
    <3> QED BY <3>1, <3>2
  <2> QED BY <2>1, <2>2, <2>3, <2>4, <2>5
<1>6. Waits(Current) /\ Current.call.saved = << >>
  BY <1>1, <1>2 DEF StackOK, Waits
<1>7. /\ \A i \in Irqs : alt_irq[i].context = alt_irq[i].handler
      /\ \A i \in alt_irq_active \cup ienable : alt_irq[i].handler # "NULL"
      /\ PriorityOK => ienable = alt_irq_active \cap alt_priority_mask
  BY <1>6, NoCallFacts
<1>8. TypesOK'
  <2>1. Top' # 0
    BY <1>5
  <2>2. pie' \in BOOLEAN
    BY <1>2
  <2> QED BY <1>1, <1>2, <1>5, <2>1, <2>2 DEF TypesOK
<1>9. StackOK'
  <2>1. Placed(Top', c)
    BY <1>3, <1>4, <1>5 DEF Placed, CallOK
  <2>2. \A n \in 1..Top' : Placed(n, contexts'[n])
    BY <1>1, <1>5, <2>1 DEF StackOK
  <2>3. \A n \in 1..(Top' - 1) : Waits(contexts'[n])
    <3> TAKE n \in 1..(Top' - 1)
    <3>1. contexts'[n] = contexts[n] /\ n \in 1..Top
      BY <1>5
    <3>2. CASE n = Top
      BY <1>6, <3>1, <3>2 DEF Current
    <3>3. CASE n # Top
      BY <1>1, <1>5, <3>1, <3>3 DEF StackOK
    <3> QED BY <3>2, <3>3
  <2>4. ~Waits(c)
    BY <1>3 DEF Waits, Admits
  <2> QED BY <1>2, <1>5, <2>2, <2>3, <2>4 DEF StackOK
<1>10. TableOK'
  <2>1. \A n \in 1..Top' :
          /\ contexts'[n].call.op = "enable" =>
               alt_irq'[contexts'[n].call.irq].handler # "NULL"
          /\ contexts'[n].pc \in {"isr", "body", "open"} => Registered(contexts'[n].called)
    <3> TAKE n \in 1..Top'
    <3>1. CASE n = Top'
      <4>1. contexts'[n].call.op = "none" /\ contexts'[n].pc = "loop"
        BY <1>3, <1>4, <1>5, <3>1
      <4> QED BY <4>1
    <3>2. CASE n # Top'
      <4>1. contexts'[n] = contexts[n] /\ n \in 1..Top
        BY <1>5, <3>2
      <4> QED BY <1>1, <1>2, <4>1 DEF TableOK
    <3> QED BY <3>1, <3>2
  <2>2. /\ Current'.call.op = "none" /\ Current'.call.pc = "idle"
        /\ Current'.call.saved = << >>
    BY <1>3, <1>4, <1>5
  <2> QED BY <1>2, <1>7, <2>1, <2>2 DEF TableOK
<1>11. HeapOK'
  BY <1>1, <1>2, <1>3, <1>4, <1>5 DEF HeapOK, BlocksDisjoint
<1>12. PriorityOK => PriorityOK'
  <2> SUFFICES ASSUME PriorityOK PROVE PriorityOK'
    OBVIOUS
  <2>1. contexts'[1].irq = ALT_NIRQ
    BY <1>5 DEF PriorityOK
  <2>2. \A m, n \in 1..Top' :
           m < n /\ contexts'[n].pc # "loop" => contexts'[n].irq < contexts'[m].irq
    BY <1>3, <1>5 DEF PriorityOK
  <2>3. \A n \in 2..Top' :
           contexts'[n].pc = "open" => contexts'[n].mask = Allowed(contexts'[n - 1].irq)
    <3> TAKE n \in 2..Top'
    <3>1. CASE n = Top'
      BY <1>3, <1>5, <3>1
    <3>2. CASE n # Top'
      <4>1. n \in 2..Top /\ contexts'[n] = contexts[n] /\ contexts'[n - 1] = contexts[n - 1]
        BY <1>5, <3>2
      <4> QED BY <4>1 DEF PriorityOK
    <3> QED BY <3>1, <3>2
  <2>4. alt_priority_mask' = Allowed(contexts'[Top' - 1].irq)
    <3>1. Top' - 1 = Top /\ contexts'[Top' - 1] = Current
      BY <1>5 DEF Current
    <3>2. alt_priority_mask = Allowed(Current.irq)
      BY <1>6 DEF PriorityOK, Waits, Current
    <3> QED BY <1>2, <3>1, <3>2
  <2>5. ~Admits(c)
    BY <1>3 DEF Admits
  <2> QED BY <1>2, <1>5, <1>7, <2>1, <2>2, <2>3, <2>4, <2>5 DEF PriorityOK, Allowed
<1> QED BY <1>1, <1>8, <1>9, <1>10, <1>11, <1>12 DEF IrqIInv

\* The handler returns to the context it has interrupted.
LEMMA ReturnStep == ASSUME IrqIInv, HandlerReturns PROVE IrqIInv'
<1>1. TypesOK /\ StackOK /\ TableOK /\ HeapOK /\ (~IsrEnables => PriorityOK)
  BY DEF IrqIInv
<1>2. /\ Current.pc = "loop" /\ Current.call.op = "none"
      /\ pie' = TRUE /\ contexts' = SubSeq(contexts, 1, Top - 1)
      /\ line' = line /\ ienable' = ienable /\ alt_irq_active' = alt_irq_active
      /\ alt_priority_mask' = alt_priority_mask /\ alt_irq' = alt_irq /\ heap_end' = heap_end
      /\ blocks' = blocks
  BY DEF HandlerReturns, Outside, masks, heap
<1>3. /\ Top \in Nat /\ Top - 1 \in 1..(Top - 1)
      /\ \A i \in Irqs : alt_irq[i].context = alt_irq[i].handler
      /\ \A i \in alt_irq_active \cup ienable : alt_irq[i].handler # "NULL"
      /\ PriorityOK => /\ ienable = alt_irq_active \cap alt_priority_mask
                       /\ alt_priority_mask = Allowed(contexts[Top - 1].irq)
  BY <1>2, HandlerFacts
<1>4. /\ contexts' \in Seq(ContextRecords) /\ Top' = Top - 1 /\ Top' \in 1..(Top - 1)
      /\ \A n \in 1..Top' : contexts'[n] = contexts[n]
      /\ Current' = contexts[Top - 1]
  BY <1>1, <1>2, <1>3, SubSeqProperties DEF TypesOK, Top, Current
<1>5. Waits(Current') /\ Placed(Top - 1, Current')
  BY <1>1, <1>3, <1>4 DEF StackOK
<1>6. Admits(Current') /\ Current'.call.pc \in {"idle", "disable"} /\ Current'.call.saved = << >>
  BY <1>5, Tuples DEF Waits, Admits, Placed, CallOK, NoCall
<1>7. TypesOK'
  BY <1>1, <1>2, <1>3, <1>4 DEF TypesOK
<1>8. StackOK'
  BY <1>1, <1>2, <1>3, <1>4, <1>5 DEF StackOK
<1>9. TableOK'
  <2>1. \A n \in 1..Top' :
          /\ contexts'[n].call.op = "enable" =>
               alt_irq'[contexts'[n].call.irq].handler # "NULL"
          /\ contexts'[n].pc \in {"isr", "body", "open"} => Registered(contexts'[n].called)
    BY <1>1, <1>2, <1>3, <1>4 DEF TableOK
  <2> QED BY <1>2, <1>3, <1>6, <2>1 DEF TableOK
<1>10. HeapOK'
  BY <1>1, <1>2, <1>6 DEF HeapOK, BlocksDisjoint
<1>11. PriorityOK => PriorityOK'
  <2> SUFFICES ASSUME PriorityOK PROVE PriorityOK'
    OBVIOUS
  <2>1. contexts'[1].irq = ALT_NIRQ
    BY <1>3, <1>4 DEF PriorityOK
  <2>2. \A m, n \in 1..Top' :
           m < n /\ contexts'[n].pc # "loop" => contexts'[n].irq < contexts'[m].irq
    BY <1>3, <1>4 DEF PriorityOK
  <2>3. \A n \in 2..Top' :
           contexts'[n].pc = "open" => contexts'[n].mask = Allowed(contexts'[n - 1].irq)
    BY <1>3, <1>4 DEF PriorityOK
  <2>4. alt_priority_mask' = Allowed(contexts'[Top'].irq)
    BY <1>2, <1>3, <1>4
  <2> QED BY <1>2, <1>3, <1>4, <1>6, <2>1, <2>2, <2>3, <2>4 DEF PriorityOK, Allowed
<1> QED BY <1>1, <1>7, <1>8, <1>9, <1>10, <1>11 DEF IrqIInv

-----------------------------------------------------------------------------
(* The invariant and what follows from it *)

LEMMA IrqInitIInv == InterruptInit => IrqIInv
<1> SUFFICES ASSUME InterruptInit PROVE IrqIInv
  OBVIOUS
<1>1. /\ contexts \in Seq(ContextRecords) /\ Top = 1 /\ Current = Thread /\ contexts[1] = Thread
  BY NoCallType DEF InterruptInit, Top, Current
<1>2. /\ Thread.irq = ALT_NIRQ /\ Thread.pc = "thread" /\ Thread.call = NoCall
      /\ NoCall.op = "none" /\ NoCall.pc = "idle" /\ NoCall.saved = << >> /\ NoCall.prev = -1
  BY DEF Thread, NoCall
<1>3. TypesOK
  <2> DEFINE none == [handler |-> "NULL", context |-> "NULL"]
  <2>1. none \in Routines
    BY DEF Routines, Names
  <2>2. alt_irq = [i \in Irqs |-> none]
    BY DEF InterruptInit
  <2> HIDE DEF none
  <2>3. alt_irq \in [Irqs -> Routines]
    BY <2>1, <2>2
  <2> QED BY <1>1, <2>3 DEF InterruptInit, TypesOK
<1>4. StackOK
  <2>1. Placed(1, Thread) /\ Waits(Thread)
    BY <1>2 DEF Placed, CallOK, Waits, Admits
  <2> QED BY <1>1, <2>1 DEF StackOK, InterruptInit
<1>5. TableOK
  BY <1>1, <1>2 DEF TableOK, InterruptInit
<1>6. HeapOK
  BY <1>1, <1>2 DEF HeapOK, BlocksDisjoint, InterruptInit
<1>7. PriorityOK
  <2>1. Allowed(ALT_NIRQ) = Irqs
    BY InterruptsAssumption DEF Allowed, Irqs
  <2>2. Admits(Thread)
    BY <1>2 DEF Admits
  <2> QED BY <1>1, <1>2, <2>1, <2>2 DEF PriorityOK, InterruptInit
<1> QED BY <1>3, <1>4, <1>5, <1>6, <1>7 DEF IrqIInv

LEMMA IrqNextIInv == IrqIInv /\ [InterruptNext]_interrupt_vars => IrqIInv'
<1> SUFFICES ASSUME IrqIInv, [InterruptNext]_interrupt_vars PROVE IrqIInv'
  OBVIOUS
<1>1. CASE Step
  BY <1>1, TakeStep, DispatchStep, ReturnStep, RoutineStep, DisableAllStep, EnableAllStep,
     RegisterStep, EnableOneStep, SbrkStep DEF Step, alt_irq_handler
<1>2. CASE ProgramCalls
  BY <1>2, CallsStep
<1>3. ASSUME line' \subseteq Irqs, UNCHANGED <<cpu, masks, alt_irq, heap, contexts>> PROVE IrqIInv'
  <2>1. /\ pie' = pie /\ ienable' = ienable /\ alt_irq_active' = alt_irq_active
        /\ alt_priority_mask' = alt_priority_mask /\ alt_irq' = alt_irq /\ heap_end' = heap_end
        /\ blocks' = blocks /\ Top' = Top /\ Current' = Current /\ contexts' = contexts
    BY <1>3 DEF cpu, masks, heap, Top, Current
  <2>2. TypesOK'
    BY <1>3, <2>1 DEF IrqIInv, TypesOK
  <2>3. StackOK'
    BY <2>1 DEF IrqIInv, StackOK
  <2>4. TableOK'
    BY <2>1 DEF IrqIInv, TableOK, Settling
  <2>5. HeapOK'
    BY <2>1 DEF IrqIInv, HeapOK, BlocksDisjoint
  <2>6. PriorityOK => PriorityOK'
    BY <2>1 DEF PriorityOK, Allowed
  <2> QED BY <2>2, <2>3, <2>4, <2>5, <2>6 DEF IrqIInv
<1>4. CASE \E i \in Irqs : Raise(i)
  <2>1. line' \subseteq Irqs /\ UNCHANGED <<cpu, masks, alt_irq, heap, contexts>>
    BY <1>4 DEF Raise, IrqIInv, TypesOK
  <2> QED BY <1>3, <2>1
<1>5. CASE UNCHANGED interrupt_vars
  <2>1. line' \subseteq Irqs /\ UNCHANGED <<cpu, masks, alt_irq, heap, contexts>>
    BY <1>5 DEF interrupt_vars, IrqIInv, TypesOK
  <2> QED BY <1>3, <2>1
<1> QED BY <1>1, <1>2, <1>4, <1>5 DEF InterruptNext

LEMMA NestsFromStack == IrqIInv /\ ~IsrEnables => NestsByPriority
<1> SUFFICES ASSUME IrqIInv, ~IsrEnables, NEW m \in Executing, NEW n \in Executing, m < n
             PROVE  contexts[m].pc = "open" /\ contexts[n].irq < contexts[m].irq
  BY DEF NestsByPriority
<1>1. /\ m \in 1..Top /\ n \in 1..Top /\ contexts[m].pc \in {"isr", "body", "open"}
      /\ contexts[n].pc \in {"isr", "body", "open"} /\ Top \in Nat
  BY CurrentType DEF Executing, IrqIInv
<1>2. m \in 1..(Top - 1)
  BY <1>1
<1> QED BY <1>1, <1>2 DEF IrqIInv, StackOK, Waits, Admits, PriorityOK

LEMMA HandlersFromTable == IrqIInv => HandlersMatch
BY DEF IrqIInv, TableOK, Registered, HandlersMatch, Executing

LEMMA MasksFromStack == IrqIInv /\ ~IsrEnables => MasksExact
<1> SUFFICES ASSUME IrqIInv, ~IsrEnables, Current.call.op = "none" PROVE MasksExact
  BY DEF MasksExact
<1>1. TypesOK /\ StackOK /\ PriorityOK
  BY DEF IrqIInv
<1>2. NoCall.saved = << >> /\ Current.call = NoCall /\ NoCall.pc = "idle"
  BY <1>1, InCall DEF CallOK, NoCall
<1>3. pie <=> Current.pc \in {"thread", "open"}
  BY <1>1, <1>2, InCall DEF Admits
<1>4. ienable = alt_irq_active \cap alt_priority_mask
  BY <1>1, <1>2 DEF PriorityOK
<1>5. ASSUME Current.pc = "thread" PROVE alt_priority_mask = Irqs
  <2>1. Top = 1 /\ contexts[Top].irq = ALT_NIRQ
    BY <1>1, <1>5, CurrentType DEF StackOK, Placed, PriorityOK, Current
  <2>2. Allowed(ALT_NIRQ) = Irqs
    BY InterruptsAssumption DEF Allowed, Irqs
  <2> QED BY <1>1, <1>5, <2>1, <2>2 DEF PriorityOK, Admits
<1> QED BY <1>3, <1>4, <1>5 DEF MasksExact

\* Routines nest by priority, for any number of interrupts and any depth of
\* nesting, as long as routines enable no interrupt themselves
\* (alt_irq_enable writes IENABLE without the mask).
THEOREM Interrupts_NestByPriority ==
    ASSUME ~IsrEnables PROVE InterruptSpec => []NestsByPriority
<1>1. IrqIInv => NestsByPriority
  BY NestsFromStack
<1> QED BY <1>1, IrqInitIInv, IrqNextIInv, PTL DEF InterruptSpec

\* Every routine is called with the context it was registered with, whatever
\* registrations are going on (alt_iic_isr_register.c), whatever routines do.
THEOREM Interrupts_HandlersMatch == InterruptSpec => []HandlersMatch
BY HandlersFromTable, IrqInitIInv, IrqNextIInv, PTL DEF InterruptSpec

\* Between calls the enables of the processor are exactly those the routines in
\* progress allow, as long as routines enable no interrupt themselves.
THEOREM Interrupts_MasksExact ==
    ASSUME ~IsrEnables PROVE InterruptSpec => []MasksExact
<1>1. IrqIInv => MasksExact
  BY MasksFromStack
<1> QED BY <1>1, IrqInitIInv, IrqNextIInv, PTL DEF InterruptSpec

\* sbrk gives no byte out twice (alt_sbrk.c), whoever is interrupted where, for
\* every size of the heap and of the requests.
THEOREM Interrupts_BlocksDisjoint == InterruptSpec => []BlocksDisjoint
<1>1. IrqIInv => BlocksDisjoint
  BY DEF IrqIInv, HeapOK
<1> QED BY <1>1, IrqInitIInv, IrqNextIInv, PTL DEF InterruptSpec

-----------------------------------------------------------------------------
(* The list *)

Nodes == Alarms \cup {alt_alarm_list}
Links == [Nodes -> [next : Nodes, previous : Nodes]]

LEMMA HeadIsNoAlarm == alt_alarm_list \notin Alarms /\ "none" \notin Nodes
BY AlarmAssumption DEF alt_alarm_list, Nodes

\* A pointer of one node is written.
WithNext(l, n, m) == [l EXCEPT ![n].next = m]
WithPrevious(l, n, m) == [l EXCEPT ![n].previous = m]

LEMMA SetNext ==
    ASSUME NEW l \in Links, NEW n \in Nodes, NEW m \in Nodes
    PROVE  /\ WithNext(l, n, m) \in Links
           /\ \A x \in Nodes :
                /\ WithNext(l, n, m)[x].next = IF x = n THEN m ELSE l[x].next
                /\ WithNext(l, n, m)[x].previous = l[x].previous
<1> DEFINE k == WithNext(l, n, m)
<1>1. l[n] = [next |-> l[n].next, previous |-> l[n].previous]
  BY DEF Links
<1>2. [l[n] EXCEPT !.next = m] = [next |-> m, previous |-> l[n].previous]
  BY <1>1
<1>3. k = [l EXCEPT ![n] = [l[n] EXCEPT !.next = m]]
  BY DEF WithNext
<1>4. k = [l EXCEPT ![n] = [next |-> m, previous |-> l[n].previous]]
  BY <1>2, <1>3
<1> HIDE DEF k
<1>5. /\ k \in Links
      /\ \A x \in Nodes : k[x] = IF x = n THEN [next |-> m, previous |-> l[n].previous] ELSE l[x]
  BY <1>4 DEF Links
<1> QED BY <1>5 DEF k

LEMMA SetPrevious ==
    ASSUME NEW l \in Links, NEW n \in Nodes, NEW m \in Nodes
    PROVE  /\ WithPrevious(l, n, m) \in Links
           /\ \A x \in Nodes :
                /\ WithPrevious(l, n, m)[x].next = l[x].next
                /\ WithPrevious(l, n, m)[x].previous = IF x = n THEN m ELSE l[x].previous
<1> DEFINE k == WithPrevious(l, n, m)
<1>1. l[n] = [next |-> l[n].next, previous |-> l[n].previous]
  BY DEF Links
<1>2. [l[n] EXCEPT !.previous = m] = [next |-> l[n].next, previous |-> m]
  BY <1>1
<1>3. k = [l EXCEPT ![n] = [l[n] EXCEPT !.previous = m]]
  BY DEF WithPrevious
<1>4. k = [l EXCEPT ![n] = [next |-> l[n].next, previous |-> m]]
  BY <1>2, <1>3
<1> HIDE DEF k
<1>5. /\ k \in Links
      /\ \A x \in Nodes : k[x] = IF x = n THEN [next |-> l[n].next, previous |-> m] ELSE l[x]
  BY <1>4 DEF Links
<1> QED BY <1>5 DEF k

\* The nodes of ring form a circle through the head: next and previous are each
\* other's inverse, and no part of the ring without the head is closed under one
\* of them.  Every other node points to itself.
Linked(l, ring) ==
    /\ l \in Links
    /\ ring \subseteq Nodes /\ alt_alarm_list \in ring
    /\ \A n \in ring : /\ l[n].next \in ring /\ l[l[n].next].previous = n
                       /\ l[n].previous \in ring /\ l[l[n].previous].next = n
    /\ \A S \in SUBSET (ring \ {alt_alarm_list}) :
         S # {} => (\E a \in S : l[a].next \notin S) /\ (\E a \in S : l[a].previous \notin S)
    /\ \A a \in Nodes \ ring : l[a] = [next |-> a, previous |-> a]

LEMMA InsertFields ==
    ASSUME NEW l, NEW ring, Linked(l, ring), NEW e \in Nodes \ ring
    PROVE  /\ Insert(l, e) \in Links
           /\ \A x \in Nodes :
                /\ Insert(l, e)[x].next = IF x = e THEN l[alt_alarm_list].next
                                          ELSE IF x = alt_alarm_list THEN e ELSE l[x].next
                /\ Insert(l, e)[x].previous = IF x = e THEN alt_alarm_list
                                              ELSE IF x = l[alt_alarm_list].next THEN e
                                              ELSE l[x].previous
<1> DEFINE first == l[alt_alarm_list].next
           linked == [l EXCEPT ![e] = [next |-> first, previous |-> alt_alarm_list]]
           back == WithPrevious(linked, first, e)
<1>1. l \in Links /\ alt_alarm_list \in Nodes /\ e \in Nodes /\ e # alt_alarm_list /\ first \in Nodes /\ first # e
  BY DEF Linked, Nodes
<1>2. linked \in Links
      /\ \A x \in Nodes : /\ linked[x].next = IF x = e THEN first ELSE l[x].next
                          /\ linked[x].previous = IF x = e THEN alt_alarm_list ELSE l[x].previous
  BY <1>1 DEF Links
<1>3. Insert(l, e) = WithNext(back, alt_alarm_list, e)
  BY DEF Insert, WithNext, WithPrevious
<1> HIDE DEF linked, first
<1>4. back \in Links
      /\ \A x \in Nodes : /\ back[x].next = linked[x].next
                          /\ back[x].previous = IF x = first THEN e ELSE linked[x].previous
  <2>1. back \in Links
    BY <1>1, <1>2, SetPrevious
  <2>2. ASSUME NEW x \in Nodes
        PROVE  /\ back[x].next = linked[x].next
               /\ back[x].previous = IF x = first THEN e ELSE linked[x].previous
    BY <1>1, <1>2, SetPrevious
  <2> QED BY <2>1, <2>2
<1> HIDE DEF back
<1>5. Insert(l, e) \in Links
      /\ \A x \in Nodes :
           /\ Insert(l, e)[x].next = IF x = alt_alarm_list THEN e ELSE back[x].next
           /\ Insert(l, e)[x].previous = back[x].previous
  <2>1. WithNext(back, alt_alarm_list, e) \in Links
    BY <1>1, <1>4, SetNext
  <2>2. ASSUME NEW x \in Nodes
        PROVE  /\ WithNext(back, alt_alarm_list, e)[x].next = IF x = alt_alarm_list THEN e ELSE back[x].next
               /\ WithNext(back, alt_alarm_list, e)[x].previous = back[x].previous
    BY <1>1, <1>4, SetNext
  <2> QED BY <1>3, <2>1, <2>2
<1> QED BY <1>1, <1>2, <1>4, <1>5 DEF first

LEMMA RemoveFields ==
    ASSUME NEW l, NEW ring, Linked(l, ring), NEW e \in ring \ {alt_alarm_list}
    PROVE  /\ Remove(l, e) \in Links
           /\ l[e].next # e /\ l[e].previous # e
           /\ \A x \in Nodes :
                /\ Remove(l, e)[x].next = IF x = e THEN e
                                          ELSE IF x = l[e].previous THEN l[e].next
                                          ELSE l[x].next
                /\ Remove(l, e)[x].previous = IF x = e THEN e
                                              ELSE IF x = l[e].next THEN l[e].previous
                                              ELSE l[x].previous
<1> DEFINE n == l[e].next
           p == l[e].previous
           back == WithPrevious(l, n, p)
           unlinked == WithNext(back, p, n)
<1>1. l \in Links /\ n \in Nodes /\ p \in Nodes /\ e \in Nodes
  BY DEF Linked
<1>2. n # e /\ p # e
  <2>1. {e} \in SUBSET (ring \ {alt_alarm_list}) /\ {e} # {}
    OBVIOUS
  <2>2. (\E a \in {e} : l[a].next \notin {e}) /\ (\E a \in {e} : l[a].previous \notin {e})
    BY <2>1 DEF Linked
  <2> QED BY <2>2
<1>3. Remove(l, e) = [unlinked EXCEPT ![e] = [next |-> e, previous |-> e]]
  BY DEF Remove, WithNext, WithPrevious
<1> HIDE DEF n, p
<1>4. back \in Links
      /\ \A x \in Nodes : /\ back[x].next = l[x].next
                          /\ back[x].previous = IF x = n THEN p ELSE l[x].previous
  <2>1. back \in Links
    BY <1>1, SetPrevious
  <2>2. ASSUME NEW x \in Nodes
        PROVE  /\ back[x].next = l[x].next
               /\ back[x].previous = IF x = n THEN p ELSE l[x].previous
    BY <1>1, SetPrevious
  <2> QED BY <2>1, <2>2
<1> HIDE DEF back
<1>5. unlinked \in Links
      /\ \A x \in Nodes : /\ unlinked[x].next = IF x = p THEN n ELSE back[x].next
                          /\ unlinked[x].previous = back[x].previous
  <2>1. unlinked \in Links
    BY <1>1, <1>4, SetNext
  <2>2. ASSUME NEW x \in Nodes
        PROVE  /\ unlinked[x].next = IF x = p THEN n ELSE back[x].next
               /\ unlinked[x].previous = back[x].previous
    BY <1>1, <1>4, SetNext
  <2> QED BY <2>1, <2>2
<1> HIDE DEF unlinked
<1>6. Remove(l, e) \in Links
      /\ \A x \in Nodes :
           /\ Remove(l, e)[x].next = IF x = e THEN e ELSE unlinked[x].next
           /\ Remove(l, e)[x].previous = IF x = e THEN e ELSE unlinked[x].previous
  BY <1>1, <1>3, <1>5 DEF Links
<1> QED BY <1>1, <1>2, <1>4, <1>5, <1>6 DEF n, p

LEMMA InsertLinked ==
    ASSUME NEW l, NEW ring, Linked(l, ring), NEW e \in Nodes \ ring
    PROVE  Linked(Insert(l, e), ring \cup {e})
<1> DEFINE l2 == Insert(l, e)
           first == l[alt_alarm_list].next
<1>1. l2 \in Links
  BY InsertFields
<1>2. \A x \in Nodes :
        /\ l2[x].next = IF x = e THEN first ELSE IF x = alt_alarm_list THEN e ELSE l[x].next
        /\ l2[x].previous = IF x = e THEN alt_alarm_list ELSE IF x = first THEN e ELSE l[x].previous
  <2> SUFFICES ASSUME NEW x \in Nodes
               PROVE  /\ l2[x].next = IF x = e THEN first ELSE IF x = alt_alarm_list THEN e ELSE l[x].next
                      /\ l2[x].previous = IF x = e THEN alt_alarm_list ELSE IF x = first THEN e ELSE l[x].previous
    OBVIOUS
  <2> QED BY InsertFields
<1>3. /\ ring \subseteq Nodes /\ alt_alarm_list \in ring /\ e # alt_alarm_list /\ e \notin ring /\ e \in Nodes
      /\ first \in ring /\ l[first].previous = alt_alarm_list
      /\ \A n \in ring : /\ l[n].next \in ring /\ l[l[n].next].previous = n
                         /\ l[n].previous \in ring /\ l[l[n].previous].next = n
  BY DEF Linked
<1>4. \A n \in ring : l[n].next = first => n = alt_alarm_list
  BY <1>3
<1>5. \A n \in ring : l[n].previous = alt_alarm_list => n = first
  BY <1>3
<1> HIDE DEF l2, first
<1>6. ASSUME NEW n \in ring \cup {e}
      PROVE  l2[n].next \in ring \cup {e} /\ l2[l2[n].next].previous = n
  <2>1. CASE n = e
    BY <1>2, <1>3, <2>1
  <2>2. CASE n = alt_alarm_list
    BY <1>2, <1>3, <2>2
  <2>3. CASE n # e /\ n # alt_alarm_list
    <3>1. n \in ring /\ l2[n].next = l[n].next /\ l[n].next \in ring /\ l[n].next # first
      BY <1>2, <1>3, <1>4, <2>3
    <3> QED BY <1>2, <1>3, <3>1
  <2> QED BY <2>1, <2>2, <2>3
<1>7. ASSUME NEW n \in ring \cup {e}
      PROVE  l2[n].previous \in ring \cup {e} /\ l2[l2[n].previous].next = n
  <2>1. CASE n = e
    BY <1>2, <1>3, <2>1
  <2>2. CASE n = first
    BY <1>2, <1>3, <2>2
  <2>3. CASE n # e /\ n # first
    <3>1. n \in ring /\ l2[n].previous = l[n].previous /\ l[n].previous \in ring
          /\ l[n].previous # alt_alarm_list
      BY <1>2, <1>3, <1>5, <2>3
    <3> QED BY <1>2, <1>3, <3>1
  <2> QED BY <2>1, <2>2, <2>3
<1>8. ASSUME NEW S \in SUBSET ((ring \cup {e}) \ {alt_alarm_list}), S # {}
      PROVE  (\E a \in S : l2[a].next \notin S) /\ (\E a \in S : l2[a].previous \notin S)
  <2>1. CASE e \notin S
    <3>1. S \in SUBSET (ring \ {alt_alarm_list})
      BY <2>1
    <3>2. (\E a \in S : l[a].next \notin S) /\ (\E a \in S : l[a].previous \notin S)
      BY <1>8, <3>1 DEF Linked
    <3>3. ASSUME NEW a \in S PROVE l2[a].next = l[a].next /\ l2[a].previous \in {e, l[a].previous}
      BY <1>2, <1>3, <2>1, <3>1
    <3> QED BY <2>1, <3>2, <3>3
  <2>2. CASE S = {e}
    BY <1>2, <1>3, <2>2
  <2>3. CASE e \in S /\ S # {e}
    <3>1. S \ {e} \in SUBSET (ring \ {alt_alarm_list}) /\ S \ {e} # {}
      BY <2>3
    <3>2. PICK a \in S \ {e} : l[a].next \notin S \ {e}
      BY <3>1 DEF Linked
    <3>3. l2[a].next = l[a].next /\ l[a].next \in ring
      BY <1>2, <1>3, <3>1
    <3>4. l2[e].previous = alt_alarm_list
      BY <1>2, <1>3
    <3> QED BY <1>3, <2>3, <3>2, <3>3, <3>4
  <2> QED BY <2>1, <2>2, <2>3
<1>9. ASSUME NEW a \in Nodes \ (ring \cup {e}) PROVE l2[a] = [next |-> a, previous |-> a]
  <2>1. l[a] = [next |-> a, previous |-> a]
    BY DEF Linked
  <2>2. l2[a].next = a /\ l2[a].previous = a
    BY <1>2, <1>3, <2>1
  <2> QED BY <1>1, <2>2 DEF Links
<1>10. ring \cup {e} \subseteq Nodes /\ alt_alarm_list \in ring \cup {e}
  BY <1>3
<1>11. Linked(l2, ring \cup {e})
  BY <1>1, <1>6, <1>7, <1>8, <1>9, <1>10 DEF Linked
<1> QED BY <1>11 DEF l2

LEMMA RemoveLinked ==
    ASSUME NEW l, NEW ring, Linked(l, ring), NEW e \in ring \ {alt_alarm_list}
    PROVE  Linked(Remove(l, e), ring \ {e})
<1> DEFINE l2 == Remove(l, e)
           n == l[e].next
           p == l[e].previous
<1>1. l2 \in Links /\ n # e /\ p # e
  BY RemoveFields
<1>2. \A x \in Nodes :
        /\ l2[x].next = IF x = e THEN e ELSE IF x = p THEN n ELSE l[x].next
        /\ l2[x].previous = IF x = e THEN e ELSE IF x = n THEN p ELSE l[x].previous
  <2> SUFFICES ASSUME NEW x \in Nodes
               PROVE  /\ l2[x].next = IF x = e THEN e ELSE IF x = p THEN n ELSE l[x].next
                      /\ l2[x].previous = IF x = e THEN e ELSE IF x = n THEN p ELSE l[x].previous
    OBVIOUS
  <2> QED BY RemoveFields
<1>3. /\ ring \subseteq Nodes /\ alt_alarm_list \in ring /\ e # alt_alarm_list /\ e \in ring
      /\ n \in ring /\ p \in ring /\ l[n].previous = e /\ l[p].next = e
      /\ \A x \in ring : /\ l[x].next \in ring /\ l[l[x].next].previous = x
                         /\ l[x].previous \in ring /\ l[l[x].previous].next = x
  BY DEF Linked
<1>4. \A x \in ring : (l[x].next = e => x = p) /\ (l[x].next = n => x = e)
  BY <1>3
<1>5. \A x \in ring : (l[x].previous = e => x = n) /\ (l[x].previous = p => x = e)
  BY <1>3
<1> HIDE DEF l2, n, p
<1>6. ASSUME NEW x \in ring \ {e}
      PROVE  l2[x].next \in ring \ {e} /\ l2[l2[x].next].previous = x
  <2>1. CASE x = p
    BY <1>1, <1>2, <1>3, <2>1
  <2>2. CASE x # p
    <3>1. l2[x].next = l[x].next /\ l[x].next \in ring \ {e, n}
      BY <1>2, <1>3, <1>4, <2>2
    <3> QED BY <1>2, <1>3, <3>1
  <2> QED BY <2>1, <2>2
<1>7. ASSUME NEW x \in ring \ {e}
      PROVE  l2[x].previous \in ring \ {e} /\ l2[l2[x].previous].next = x
  <2>1. CASE x = n
    BY <1>1, <1>2, <1>3, <2>1
  <2>2. CASE x # n
    <3>1. l2[x].previous = l[x].previous /\ l[x].previous \in ring \ {e, p}
      BY <1>2, <1>3, <1>5, <2>2
    <3> QED BY <1>2, <1>3, <3>1
  <2> QED BY <2>1, <2>2
<1>8. ASSUME NEW S \in SUBSET ((ring \ {e}) \ {alt_alarm_list}), S # {}
      PROVE  (\E a \in S : l2[a].next \notin S) /\ (\E a \in S : l2[a].previous \notin S)
  <2>1. S \in SUBSET (ring \ {alt_alarm_list}) /\ S \cup {e} \in SUBSET (ring \ {alt_alarm_list})
    BY <1>3
  <2>2. PICK a \in S : l[a].next \notin S
    BY <1>8, <2>1 DEF Linked
  <2>3. PICK b \in S \cup {e} : l[b].next \notin S \cup {e}
    BY <2>1 DEF Linked
  <2>4. PICK c \in S : l[c].previous \notin S
    BY <1>8, <2>1 DEF Linked
  <2>5. PICK d \in S \cup {e} : l[d].previous \notin S \cup {e}
    BY <2>1 DEF Linked
  <2>6. \E x \in S : l2[x].next \notin S
    <3>1. CASE p \notin S
      <4>1. a # p /\ a # e /\ a \in Nodes
        BY <1>3, <3>1
      <4> QED BY <1>2, <2>2, <4>1
    <3>2. CASE p \in S /\ b = e
      <4>1. l2[p].next = n
        BY <1>1, <1>2, <1>3
      <4> QED BY <2>3, <3>2, <4>1 DEF n
    <3>3. CASE p \in S /\ b # e
      <4>1. b # p /\ b \in S /\ b \in Nodes
        BY <1>3, <2>3, <3>3
      <4> QED BY <1>2, <2>3, <3>3, <4>1
    <3> QED BY <3>1, <3>2, <3>3
  <2>7. \E x \in S : l2[x].previous \notin S
    <3>1. CASE n \notin S
      <4>1. c # n /\ c # e /\ c \in Nodes
        BY <1>3, <3>1
      <4> QED BY <1>2, <2>4, <4>1
    <3>2. CASE n \in S /\ d = e
      <4>1. l2[n].previous = p
        BY <1>1, <1>2, <1>3
      <4> QED BY <2>5, <3>2, <4>1 DEF p
    <3>3. CASE n \in S /\ d # e
      <4>1. d # n /\ d \in S /\ d \in Nodes
        BY <1>3, <2>5, <3>3
      <4> QED BY <1>2, <2>5, <3>3, <4>1
    <3> QED BY <3>1, <3>2, <3>3
  <2> QED BY <2>6, <2>7
<1>9. ASSUME NEW a \in Nodes \ (ring \ {e}) PROVE l2[a] = [next |-> a, previous |-> a]
  <2>1. CASE a = e
    <3>1. l2[a].next = a /\ l2[a].previous = a
      BY <1>2, <2>1
    <3> QED BY <1>1, <3>1 DEF Links
  <2>2. CASE a # e
    <3>1. a \in Nodes \ ring /\ l[a] = [next |-> a, previous |-> a]
      BY <2>2 DEF Linked
    <3>2. l2[a].next = a /\ l2[a].previous = a
      BY <1>2, <1>3, <2>2, <3>1
    <3> QED BY <1>1, <3>2 DEF Links
  <2> QED BY <2>1, <2>2
<1>10. ring \ {e} \subseteq Nodes /\ alt_alarm_list \in ring \ {e}
  BY <1>3
<1>11. Linked(l2, ring \ {e})
  BY <1>1, <1>6, <1>7, <1>8, <1>9, <1>10 DEF Linked
<1> QED BY <1>11 DEF l2

\* Removing an alarm that has stopped changes nothing.
LEMMA RemoveStopped ==
    ASSUME NEW l, NEW ring, Linked(l, ring), NEW e \in Nodes \ ring
    PROVE  Remove(l, e) = l
<1> DEFINE self == [next |-> e, previous |-> e]
           back == WithPrevious(l, e, e)
           unlinked == WithNext(back, e, e)
<1>1. l \in Links /\ l[e] = self /\ l[e].next = e /\ l[e].previous = e
  BY DEF Linked
<1>2. Remove(l, e) = [unlinked EXCEPT ![e] = self]
  BY <1>1 DEF Remove, WithNext, WithPrevious
<1>3. [self EXCEPT !.previous = e] = self /\ [self EXCEPT !.next = e] = self
  OBVIOUS
<1> HIDE DEF self
<1>4. [l EXCEPT ![e] = self] = l
  BY <1>1 DEF Links
<1>5. back = [l EXCEPT ![e] = [l[e] EXCEPT !.previous = e]]
  BY DEF WithPrevious
<1>6. back = l
  BY <1>1, <1>3, <1>4, <1>5
<1>7. unlinked = [l EXCEPT ![e] = [l[e] EXCEPT !.next = e]]
  BY <1>6 DEF WithNext
<1>8. unlinked = l
  BY <1>1, <1>3, <1>4, <1>7
<1> QED BY <1>2, <1>4, <1>8

-----------------------------------------------------------------------------
(* The walk along the list *)

\* The alarms that a walk at w has not passed yet.
Reach(l, w) ==
    {a \in Alarms : \A S \in SUBSET Nodes :
        w \in S /\ (\A b \in S \ {alt_alarm_list} : l[b].next \in S) => a \in S}

\* A walk from the front meets every alarm of the ring.
LEMMA ReachAll ==
    ASSUME NEW l, NEW ring, Linked(l, ring), NEW a \in ring \ {alt_alarm_list}
    PROVE  a \in Reach(l, l[alt_alarm_list].next)
<1> SUFFICES ASSUME NEW S \in SUBSET Nodes, l[alt_alarm_list].next \in S,
                    \A b \in S \ {alt_alarm_list} : l[b].next \in S,
                    a \notin S
             PROVE  FALSE
  BY DEF Reach, Linked, Nodes
<1> DEFINE T == (ring \ {alt_alarm_list}) \ S
<1>1. T \in SUBSET (ring \ {alt_alarm_list}) /\ T # {}
  OBVIOUS
<1>2. PICK x \in T : l[x].previous \notin T
  BY <1>1 DEF Linked
<1>3. l[x].previous \in ring /\ l[l[x].previous].next = x
  BY <1>2 DEF Linked
<1>4. CASE l[x].previous = alt_alarm_list
  BY <1>2, <1>3, <1>4
<1>5. CASE l[x].previous # alt_alarm_list
  BY <1>2, <1>3, <1>5
<1> QED BY <1>4, <1>5

\* A walk at the head has passed them all.
LEMMA ReachEnd ==
    ASSUME NEW l PROVE Reach(l, alt_alarm_list) = {}
<1> SUFFICES ASSUME NEW a \in Reach(l, alt_alarm_list) PROVE FALSE
  OBVIOUS
<1>1. a \in Alarms /\ (alt_alarm_list \in {alt_alarm_list} /\ (\A b \in {alt_alarm_list} \ {alt_alarm_list} : l[b].next \in {alt_alarm_list})
                        => a \in {alt_alarm_list})
  BY DEF Reach, Nodes
<1> QED BY <1>1, HeadIsNoAlarm

\* A step of the walk passes one alarm.
LEMMA ReachNext ==
    ASSUME NEW l, NEW a \in Alarms, NEW b \in Reach(l, a), b # a
    PROVE  b \in Reach(l, l[a].next)
<1> SUFFICES ASSUME NEW S \in SUBSET Nodes, l[a].next \in S,
                    \A c \in S \ {alt_alarm_list} : l[c].next \in S
             PROVE  b \in S
  BY DEF Reach
<1>1. S \cup {a} \in SUBSET Nodes /\ a \in S \cup {a}
  BY DEF Nodes
<1>2. \A c \in (S \cup {a}) \ {alt_alarm_list} : l[c].next \in S \cup {a}
  OBVIOUS
<1>3. b \in S \cup {a}
  BY <1>1, <1>2 DEF Reach
<1> QED BY <1>3

\* An alarm put in at the front leaves the rest of the walk as it is.
LEMMA ReachInsert ==
    ASSUME NEW l, NEW ring, Linked(l, ring), NEW e \in Nodes \ ring,
           NEW w \in ring, NEW a \in Reach(l, w) \cap ring
    PROVE  a \in Reach(Insert(l, e), w)
<1> DEFINE l2 == Insert(l, e)
<1>1. \A b \in ring \ {alt_alarm_list} : b \in Nodes /\ l2[b].next = l[b].next /\ l[b].next \in ring
  <2> SUFFICES ASSUME NEW b \in ring \ {alt_alarm_list}
               PROVE  b \in Nodes /\ l2[b].next = l[b].next /\ l[b].next \in ring
    OBVIOUS
  <2>1. b \in Nodes /\ b # e /\ l[b].next \in ring
    BY DEF Linked
  <2> QED BY <2>1, InsertFields
<1> HIDE DEF l2
<1> SUFFICES ASSUME NEW S \in SUBSET Nodes, w \in S, \A b \in S \ {alt_alarm_list} : l2[b].next \in S
             PROVE  a \in S
  BY DEF Reach, l2
<1>2. \A b \in (S \cap ring) \ {alt_alarm_list} : l[b].next \in S \cap ring
  BY <1>1
<1>3. S \cap ring \in SUBSET Nodes /\ w \in S \cap ring
  OBVIOUS
<1> QED BY <1>2, <1>3 DEF Reach

\* An alarm taken out behind the walk leaves the rest of the walk as it is.
LEMMA ReachRemove ==
    ASSUME NEW l, NEW ring, Linked(l, ring), NEW e \in ring \ {alt_alarm_list},
           NEW w \in ring, w # e, NEW a \in Reach(l, w) \cap ring, a # e
    PROVE  a \in Reach(Remove(l, e), w)
<1> DEFINE l2 == Remove(l, e)
           p == l[e].previous
           n == l[e].next
<1>1. \A b \in ring \ {e} :
        /\ b \in Nodes /\ l[b].next \in ring
        /\ l2[b].next = IF b = p THEN n ELSE l[b].next
  <2> SUFFICES ASSUME NEW b \in ring \ {e}
               PROVE  /\ b \in Nodes /\ l[b].next \in ring
                      /\ l2[b].next = IF b = p THEN n ELSE l[b].next
    OBVIOUS
  <2>1. b \in Nodes /\ l[b].next \in ring
    BY DEF Linked
  <2> QED BY <2>1, RemoveFields
<1>2. p \in ring /\ p # e /\ l[p].next = e /\ n \in ring /\ ring \subseteq Nodes
  BY RemoveFields DEF Linked
<1>3. \A b \in ring : l[b].next = e => b = p
  BY DEF Linked
<1> HIDE DEF l2, p, n
<1> SUFFICES ASSUME NEW S \in SUBSET Nodes, w \in S, \A b \in S \ {alt_alarm_list} : l2[b].next \in S
             PROVE  a \in S
  BY DEF Reach, l2
<1>4. CASE p \in S \ {alt_alarm_list}
  <2> DEFINE T == (S \cap ring) \cup {e}
  <2>1. n \in T
    BY <1>1, <1>2, <1>4
  <2>2. \A b \in T \ {alt_alarm_list} : l[b].next \in T
    <3> SUFFICES ASSUME NEW b \in T \ {alt_alarm_list} PROVE l[b].next \in T
      OBVIOUS
    <3>1. CASE b = e
      BY <2>1, <3>1 DEF n
    <3>2. CASE b = p
      BY <1>2, <3>2
    <3>3. CASE b # e /\ b # p
      BY <1>1, <3>3
    <3> QED BY <3>1, <3>2, <3>3
  <2>3. T \in SUBSET Nodes /\ w \in T
    BY <1>2
  <2>4. a \in T
    BY <2>2, <2>3 DEF Reach
  <2> QED BY <2>4
<1>5. CASE p \notin S \ {alt_alarm_list}
  <2> DEFINE T == (S \cap ring) \ {e}
  <2>1. \A b \in T \ {alt_alarm_list} : l[b].next \in T
    BY <1>1, <1>3, <1>5
  <2>2. T \in SUBSET Nodes /\ w \in T
    OBVIOUS
  <2>3. a \in T
    BY <2>1, <2>2 DEF Reach
  <2> QED BY <2>3
<1> QED BY <1>4, <1>5

-----------------------------------------------------------------------------
(* The inductive invariant *)

LEMMA WrapOnce ==
    ASSUME NEW i \in 0..(2 * Word - 1)
    PROVE  Wrap(i) = (IF i < Word THEN i ELSE i - Word) /\ Wrap(i) \in 0..(Word - 1)
<1>1. Word \in Nat \ {0}
  BY AlarmAssumption
<1>2. CASE i < Word
  BY <1>1, <1>2 DEF Wrap
<1>3. CASE i >= Word
  <2>1. i = Word * 1 + (i - Word) /\ i - Word \in 0..(Word - 1)
    BY <1>1, <1>3
  <2>2. i % Word = i - Word
    BY <1>1, <2>1, SMTT(30)
  <2> QED BY <1>1, <1>3, <2>1, <2>2 DEF Wrap
<1> QED BY <1>1, <1>2, <1>3

Ring == {alt_alarm_list} \cup Running

\* The running alarms that the tick has still to look at.
Ahead == IF walk = "none" THEN {} ELSE Reach(llist, walk)

Shapes ==
    /\ nticks \in 0..(Word - 1)
    /\ due \in [Alarms -> Stopped..(Word - 1)]
    /\ alarm \in [Alarms -> [time : 0..(Word - 1), rollover : BOOLEAN]]
    /\ walk \in {alt_alarm_list, "none"} \cup Running

\* The wrapped time and its rollover bit stand for the tick the alarm is due;
\* while the counter is zero the bits of the counter's last round are taken back.
TimeOK(n, d, r) ==
    /\ r.time = Wrap(n + d)
    /\ n # 0 => (r.rollover <=> n + d >= Word)

\* An alarm that the walk has passed is due in a later tick.
PassedOK(n, d, r) == d >= 1 /\ (n = 0 => ~r.rollover)

TimesOK == \A a \in Running : TimeOK(nticks, due[a], alarm[a])

AllPassedOK == \A a \in Running \ Ahead : PassedOK(nticks, due[a], alarm[a])

ClockIInv == Linked(llist, Ring) /\ Shapes /\ TimesOK /\ AllPassedOK

\* An alarm has expired exactly when it is due.
LEMMA ExpiredIsDue ==
    ASSUME Shapes, TimesOK, NEW a \in Running
    PROVE  Expired(a) <=> due[a] = 0
<1>1. /\ Word \in Nat \ {0} /\ nticks \in 0..(Word - 1) /\ due[a] \in 0..(Word - 1)
      /\ alarm[a].rollover \in BOOLEAN
  BY AlarmAssumption DEF Shapes, Running, Stopped
<1>2. nticks + due[a] \in 0..(2 * Word - 1)
  BY <1>1
<1> DEFINE i == nticks + due[a]
           time == alarm[a].time
<1>3. time = Wrap(i) /\ i \in 0..(2 * Word - 1)
  BY <1>2 DEF TimesOK, TimeOK
<1> HIDE DEF i, time
<1>5. time = IF i < Word THEN i ELSE i - Word
  BY <1>3, WrapOnce
<1>4. nticks # 0 => (alarm[a].rollover <=> nticks + due[a] >= Word)
  BY DEF TimesOK, TimeOK
<1> QED BY <1>1, <1>4, <1>5 DEF Expired, RolloverAfterWrap, i, time

\* What alt_alarm_start writes stands for the tick delay + 1 after this one.
LEMMA StartedOK ==
    ASSUME Shapes, NEW delay \in Delays
    PROVE  /\ Started(delay, nticks) \in [time : 0..(Word - 1), rollover : BOOLEAN]
           /\ delay + 1 \in 1..(Word - 1)
           /\ TimeOK(nticks, delay + 1, Started(delay, nticks))
           /\ PassedOK(nticks, delay + 1, Started(delay, nticks))
<1>1. Word \in Nat \ {0} /\ delay \in 0..(Word - 2) /\ nticks \in 0..(Word - 1)
  BY AlarmAssumption DEF Shapes
<1> DEFINE i == delay + nticks + 1
           r == Started(delay, nticks)
<1>2. i \in 0..(2 * Word - 1) /\ i = nticks + (delay + 1)
  BY <1>1
<1>3. Wrap(i) = (IF i < Word THEN i ELSE i - Word) /\ Wrap(i) \in 0..(Word - 1)
  BY <1>2, WrapOnce
<1>4. r.time = Wrap(i) /\ r.rollover = (Wrap(i) < nticks) /\ r = [time |-> r.time, rollover |-> r.rollover]
  BY DEF Started
<1>5. (Wrap(i) < nticks) \in BOOLEAN
  OBVIOUS
<1>6. r.rollover <=> i >= Word
  <2>1. Wrap(i) < nticks <=> i >= Word
    BY <1>1, <1>2, <1>3
  <2> QED BY <1>4, <2>1, Zenon
<1> HIDE DEF r, i
<1>7. r \in [time : 0..(Word - 1), rollover : BOOLEAN]
  BY <1>3, <1>4, <1>5
<1>8. TimeOK(nticks, delay + 1, r)
  BY <1>2, <1>4, <1>6 DEF TimeOK
<1>9. PassedOK(nticks, delay + 1, r)
  BY <1>1, <1>2, <1>6 DEF PassedOK
<1> QED BY <1>1, <1>7, <1>8, <1>9 DEF r

\* The period that a callback returns is counted from the tick that is due.
LEMMA AgainOK ==
    ASSUME Shapes, TimesOK, NEW a \in Running, due[a] = 0, NEW period \in Periods
    PROVE  /\ Again(a, period) \in [time : 0..(Word - 1), rollover : BOOLEAN]
           /\ period \in 1..(Word - 1)
           /\ TimeOK(nticks, period, Again(a, period))
           /\ PassedOK(nticks, period, Again(a, period))
<1>1. Word \in Nat \ {0} /\ period \in 1..(Word - 1) /\ nticks \in 0..(Word - 1)
  BY AlarmAssumption DEF Shapes
<1>2. alarm[a].time = nticks
  BY <1>1, WrapOnce DEF TimesOK, TimeOK
<1> DEFINE i == nticks + period
           r == Again(a, period)
<1>3. i \in 0..(2 * Word - 1)
  BY <1>1
<1>4. Wrap(i) = (IF i < Word THEN i ELSE i - Word) /\ Wrap(i) \in 0..(Word - 1)
  BY <1>3, WrapOnce
<1>5. r.time = Wrap(i) /\ r.rollover = (Wrap(i) < nticks) /\ r = [time |-> r.time, rollover |-> r.rollover]
  BY <1>2 DEF Again
<1>6. (Wrap(i) < nticks) \in BOOLEAN
  OBVIOUS
<1>7. r.rollover <=> i >= Word
  <2>1. Wrap(i) < nticks <=> i >= Word
    BY <1>1, <1>4
  <2> QED BY <1>5, <2>1, Zenon
<1> HIDE DEF r
<1>8. r \in [time : 0..(Word - 1), rollover : BOOLEAN]
  BY <1>4, <1>5, <1>6
<1>9. TimeOK(nticks, period, r)
  BY <1>5, <1>7 DEF TimeOK
<1>10. PassedOK(nticks, period, r)
  BY <1>1, <1>7 DEF PassedOK
<1> QED BY <1>1, <1>8, <1>9, <1>10 DEF r

-----------------------------------------------------------------------------
(* Every action keeps the invariant. *)

LEMMA IInvInit == Init => ClockIInv
<1> SUFFICES ASSUME Init PROVE ClockIInv
  OBVIOUS
<1>1. Running = {} /\ Ring = {alt_alarm_list} /\ Ring \subseteq Nodes
  BY DEF Init, AlarmInit, Running, Ring, Nodes
<1>2. llist \in Links /\ \A n \in Nodes : llist[n] = [next |-> n, previous |-> n]
  BY DEF Init, AlarmInit, Links, Nodes
<1>3. Linked(llist, Ring)
  <2>1. \A S \in SUBSET (Ring \ {alt_alarm_list}) : S = {}
    BY <1>1
  <2>2. llist[alt_alarm_list].next = alt_alarm_list /\ llist[alt_alarm_list].previous = alt_alarm_list
    <3>1. llist[alt_alarm_list] = [next |-> alt_alarm_list, previous |-> alt_alarm_list]
      BY <1>1, <1>2
    <3> QED BY <3>1
  <2>3. \A n \in Ring : /\ llist[n].next \in Ring /\ llist[llist[n].next].previous = n
                       /\ llist[n].previous \in Ring /\ llist[llist[n].previous].next = n
    BY <1>1, <2>2
  <2> QED BY <1>1, <1>2, <2>1, <2>3 DEF Linked
<1>4. Word \in Nat \ {0}
  BY AlarmAssumption
<1>5. Shapes
  BY <1>4 DEF Init, AlarmInit, Shapes, Unset, Stopped
<1> QED BY <1>1, <1>3, <1>5 DEF ClockIInv, TimesOK, AllPassedOK

LEMMA IInvSame ==
    ASSUME ClockIInv, UNCHANGED <<nticks, llist, alarm, walk, due>>
    PROVE  ClockIInv'
<1>1. Running' = Running /\ Ring' = Ring /\ Ahead' = Ahead
  BY DEF Running, Ring, Ahead
<1>2. Shapes' /\ TimesOK' /\ AllPassedOK'
  BY <1>1 DEF ClockIInv, Shapes, TimesOK, AllPassedOK
<1> QED BY <1>1, <1>2 DEF ClockIInv

LEMMA IInvStart ==
    ASSUME ClockIInv, NEW a \in Alarms, NEW delay \in Delays, alt_alarm_start(a, delay)
    PROVE  ClockIInv'
<1> DEFINE r == Started(delay, nticks)
<1> USE DEF alt_alarm_start
<1>1. /\ r \in [time : 0..(Word - 1), rollover : BOOLEAN]
      /\ delay + 1 \in 1..(Word - 1)
      /\ TimeOK(nticks, delay + 1, r) /\ PassedOK(nticks, delay + 1, r)
  BY StartedOK DEF ClockIInv
<1> HIDE DEF r
<1>2. alarm' = [alarm EXCEPT ![a] = r] /\ due' = [due EXCEPT ![a] = delay + 1]
  BY DEF r
<1>3. Word \in Nat \ {0} /\ Shapes
  BY AlarmAssumption DEF ClockIInv
<1>4. Running' = Running \cup {a} /\ Ring' = Ring \cup {a}
  BY <1>1, <1>2, <1>3 DEF Running, Ring, Shapes, Stopped
<1>5. Linked(llist', Ring')
  <2>1. a \in Nodes \ Ring
    BY HeadIsNoAlarm DEF Nodes, Ring
  <2> QED BY <1>4, <2>1, InsertLinked DEF ClockIInv
<1>6. Shapes'
  BY <1>1, <1>2, <1>3 DEF Shapes, Stopped
<1>7. ASSUME NEW b \in Running' PROVE TimeOK(nticks, due'[b], alarm'[b])
  <2>1. CASE b = a
    BY <1>1, <1>2, <1>3, <2>1 DEF Shapes
  <2>2. CASE b # a
    <3>1. b \in Running /\ due'[b] = due[b] /\ alarm'[b] = alarm[b]
      BY <1>2, <1>3, <1>4, <2>2 DEF Shapes, Running
    <3> QED BY <3>1 DEF ClockIInv, TimesOK
  <2> QED BY <2>1, <2>2
<1>8. ASSUME NEW b \in Running' PROVE PassedOK(nticks, due'[b], alarm'[b])
  <2>1. CASE b = a
    BY <1>1, <1>2, <1>3, <2>1 DEF Shapes
  <2>2. CASE b # a
    <3>1. b \in Running \ Ahead /\ due'[b] = due[b] /\ alarm'[b] = alarm[b]
      BY <1>2, <1>3, <1>4, <2>2 DEF Shapes, Running, Ahead
    <3> QED BY <3>1 DEF ClockIInv, AllPassedOK
  <2> QED BY <2>1, <2>2
<1>9. nticks' = nticks
  OBVIOUS
<1> QED BY <1>5, <1>6, <1>7, <1>8, <1>9 DEF ClockIInv, TimesOK, AllPassedOK

LEMMA IInvStop ==
    ASSUME ClockIInv, NEW a \in Alarms, alt_alarm_stop(a)
    PROVE  ClockIInv'
<1> USE DEF alt_alarm_stop
<1>1. Word \in Nat \ {0} /\ Shapes /\ a \in Nodes /\ a # alt_alarm_list
  BY AlarmAssumption, HeadIsNoAlarm DEF ClockIInv, Nodes
<1>2. Running' = Running \ {a} /\ Ring' = Ring \ {a}
  BY <1>1 DEF Running, Ring, Shapes
<1>3. Linked(llist', Ring')
  <2>1. CASE a \in Ring
    BY <1>1, <1>2, <2>1, RemoveLinked DEF ClockIInv
  <2>2. CASE a \notin Ring
    <3>1. llist' = llist /\ Ring' = Ring
      BY <1>1, <1>2, <2>2, RemoveStopped DEF ClockIInv
    <3> QED BY <3>1 DEF ClockIInv
  <2> QED BY <2>1, <2>2
<1>4. Unset \in [time : 0..(Word - 1), rollover : BOOLEAN]
  BY <1>1 DEF Unset
<1>5. Shapes'
  BY <1>1, <1>4 DEF Shapes, Stopped
<1>6. ASSUME NEW b \in Running'
      PROVE  /\ b \in Running \ Ahead /\ due'[b] = due[b] /\ alarm'[b] = alarm[b]
             /\ nticks' = nticks
  BY <1>1, <1>2 DEF Shapes, Running, Ahead
<1>7. TimesOK'
  BY <1>6 DEF ClockIInv, TimesOK
<1>8. AllPassedOK'
  BY <1>6 DEF ClockIInv, AllPassedOK
<1> QED BY <1>3, <1>5, <1>7, <1>8 DEF ClockIInv

LEMMA IInvTickBegins ==
    ASSUME ClockIInv, TickBegins
    PROVE  ClockIInv'
<1> USE DEF TickBegins
<1>1. /\ Word \in Nat \ {0} /\ Shapes /\ walk = "none" /\ Linked(llist, Ring)
      /\ nticks \in 0..(Word - 1)
  BY AlarmAssumption DEF ClockIInv, Shapes
<1>2. nticks' = (IF nticks + 1 < Word THEN nticks + 1 ELSE 0) /\ nticks' \in 0..(Word - 1)
  <2>1. nticks + 1 \in 0..(2 * Word - 1)
    BY <1>1
  <2> DEFINE i == nticks + 1
  <2>2. i \in 0..(2 * Word - 1) /\ nticks' = Wrap(i)
    BY <2>1
  <2> HIDE DEF i
  <2>3. nticks' = (IF i < Word THEN i ELSE i - Word) /\ nticks' \in 0..(Word - 1)
    BY <2>2, WrapOnce
  <2> QED BY <1>1, <2>3 DEF i
<1>3. \A a \in Running : due[a] \in 1..(Word - 1) /\ (nticks = 0 => ~alarm[a].rollover)
  BY <1>1 DEF ClockIInv, AllPassedOK, PassedOK, Ahead, Running, Shapes, Stopped
<1>4. \A a \in Alarms : due'[a] = IF a \in Running THEN due[a] - 1 ELSE Stopped
  BY DEF Running
<1>5. Running' = Running /\ Ring' = Ring /\ llist' = llist /\ alarm' = alarm
  BY <1>1, <1>3, <1>4 DEF Running, Ring, Stopped
<1>6. walk' \in Ring /\ walk' # "none"
  BY <1>1, HeadIsNoAlarm DEF Linked
<1>7. Shapes'
  <2>1. due' \in [Alarms -> Stopped..(Word - 1)]
    BY <1>1, <1>3, <1>4 DEF Stopped
  <2>2. walk' \in {alt_alarm_list, "none"} \cup Running'
    BY <1>5, <1>6 DEF Ring
  <2> QED BY <1>1, <1>2, <1>5, <2>1, <2>2 DEF Shapes
<1>8. ASSUME NEW a \in Running PROVE TimeOK(nticks', due'[a], alarm[a])
  <2> DEFINE sum == nticks + due[a]
  <2>1. due'[a] = due[a] - 1 /\ due[a] \in 1..(Word - 1)
    BY <1>3, <1>4 DEF Running
  <2>2. alarm[a].time = Wrap(sum) /\ (nticks # 0 => (alarm[a].rollover <=> sum >= Word))
    BY DEF ClockIInv, TimesOK, TimeOK
  <2>3. CASE nticks + 1 < Word
    <3>1. nticks' + due'[a] = sum
      BY <1>1, <1>2, <2>1, <2>3
    <3>2. nticks = 0 => ~(sum >= Word) /\ ~alarm[a].rollover
      BY <1>1, <1>3, <2>1
    <3>3. alarm[a].rollover <=> sum >= Word
      BY <2>2, <3>2
    <3> QED BY <2>2, <3>1, <3>3 DEF TimeOK
  <2>4. CASE ~(nticks + 1 < Word)
    <3> DEFINE left == due'[a]
               time == alarm[a].time
    <3>1. nticks' = 0 /\ sum = left + Word /\ left \in 0..(Word - 1)
          /\ sum \in 0..(2 * Word - 1)
      BY <1>1, <1>2, <2>1, <2>4
    <3>2. time = Wrap(sum) /\ nticks' + left = left
      BY <2>2, <3>1
    <3> HIDE DEF sum, left, time
    <3>3. time = IF sum < Word THEN sum ELSE sum - Word
      BY <3>1, <3>2, WrapOnce
    <3>4. time = left
      BY <1>1, <3>1, <3>3
    <3>5. left \in 0..(2 * Word - 1) /\ left < Word
      BY <1>1, <3>1
    <3>6. Wrap(left) = left
      BY <3>5, WrapOnce
    <3>7. time = Wrap(nticks' + left)
      BY <3>2, <3>4, <3>6
    <3> QED BY <3>1, <3>7 DEF TimeOK, time, left
  <2> QED BY <2>3, <2>4
<1>9. TimesOK'
  BY <1>5, <1>8 DEF TimesOK
<1>10. AllPassedOK'
  <2>1. Running \subseteq Ring \ {alt_alarm_list}
    BY HeadIsNoAlarm DEF Running, Ring
  <2>2. ASSUME NEW a \in Running PROVE a \in Ahead'
    BY <1>1, <1>5, <1>6, <2>1, ReachAll DEF Ahead
  <2> QED BY <1>5, <2>2 DEF AllPassedOK
<1> QED BY <1>1, <1>5, <1>7, <1>9, <1>10 DEF ClockIInv

LEMMA IInvPass ==
    ASSUME ClockIInv, NEW a \in Alarms, Pass(a)
    PROVE  ClockIInv' /\ walk' # "none"
<1> USE DEF Pass
<1>1. /\ Word \in Nat \ {0} /\ Shapes /\ TimesOK /\ walk = a /\ Linked(llist, Ring)
      /\ nticks \in 0..(Word - 1)
  BY AlarmAssumption DEF ClockIInv, Shapes
<1>2. a \in Running /\ a # alt_alarm_list /\ a # "none"
  BY <1>1, HeadIsNoAlarm DEF Shapes, Nodes
<1>3. due[a] # 0 /\ due[a] \in 1..(Word - 1)
  <2>1. due[a] # 0 /\ due[a] # Stopped
    BY <1>1, <1>2, ExpiredIsDue DEF Running
  <2>2. due[a] \in Stopped..(Word - 1)
    BY <1>1, <1>2 DEF Shapes, Running
  <2> QED BY <1>1, <2>1, <2>2 DEF Stopped
<1>4. Running' = Running /\ Ring' = Ring /\ llist' = llist /\ nticks' = nticks /\ due' = due
  BY DEF Running, Ring
<1>5. walk' \in Ring /\ walk' # "none"
  BY <1>1, <1>2, HeadIsNoAlarm DEF Linked, Ring
<1> DEFINE r == [time |-> alarm[a].time, rollover |-> RolloverAfterWrap(a)]
<1>6. r \in [time : 0..(Word - 1), rollover : BOOLEAN]
  BY <1>1 DEF Shapes, RolloverAfterWrap
<1>7. alarm' = [alarm EXCEPT ![a] = r]
  <2>1. alarm' = [alarm EXCEPT ![a] = [alarm[a] EXCEPT !.rollover = RolloverAfterWrap(a)]]
    OBVIOUS
  <2>2. alarm[a] = [time |-> alarm[a].time, rollover |-> alarm[a].rollover]
    BY <1>1 DEF Shapes
  <2>3. [alarm[a] EXCEPT !.rollover = RolloverAfterWrap(a)] = r
    BY <2>2
  <2> HIDE DEF r
  <2> QED BY <2>1, <2>3
<1>8. r.time = alarm[a].time /\ (r.rollover <=> alarm[a].rollover /\ nticks # 0)
  BY DEF RolloverAfterWrap
<1> HIDE DEF r
<1>9. alarm'[a] = r /\ \A b \in Alarms \ {a} : alarm'[b] = alarm[b]
  BY <1>1, <1>7 DEF Shapes
<1>10. Shapes'
  <2>1. alarm' \in [Alarms -> [time : 0..(Word - 1), rollover : BOOLEAN]]
    BY <1>1, <1>6, <1>7 DEF Shapes
  <2>2. walk' \in {alt_alarm_list, "none"} \cup Running'
    BY <1>4, <1>5 DEF Ring
  <2> QED BY <1>1, <1>4, <2>1, <2>2 DEF Shapes
<1>11. ASSUME NEW b \in Running PROVE TimeOK(nticks, due[b], alarm'[b])
  <2>1. TimeOK(nticks, due[b], alarm[b])
    BY <1>1 DEF TimesOK
  <2>2. CASE b = a
    <3>1. r.time = Wrap(nticks + due[b])
          /\ (nticks # 0 => (alarm[a].rollover <=> nticks + due[b] >= Word))
      BY <1>8, <2>1, <2>2 DEF TimeOK
    <3>2. nticks # 0 => (r.rollover <=> nticks + due[b] >= Word)
      BY <1>8, <3>1
    <3> QED BY <1>9, <2>2, <3>1, <3>2 DEF TimeOK
  <2>3. CASE b # a
    BY <1>9, <2>1, <2>3 DEF Running
  <2> QED BY <2>2, <2>3
<1>12. ASSUME NEW b \in Running, b \notin Ahead' PROVE PassedOK(nticks, due[b], alarm'[b])
  <2>1. CASE b = a
    <3>1. nticks = 0 => ~r.rollover
      BY <1>8
    <3>2. due[a] >= 1
      BY <1>3
    <3> QED BY <1>9, <2>1, <3>1, <3>2 DEF PassedOK
  <2>2. CASE b # a
    <3>1. b \notin Reach(llist, llist[a].next)
      BY <1>4, <1>5, <1>12 DEF Ahead
    <3>2. b \notin Reach(llist, a)
      BY <2>2, <3>1, ReachNext
    <3>3. b \in Running \ Ahead
      BY <1>1, <1>2, <3>2 DEF Ahead
    <3>4. PassedOK(nticks, due[b], alarm[b])
      BY <3>3 DEF ClockIInv, AllPassedOK
    <3> QED BY <1>9, <2>2, <3>4 DEF Running
  <2> QED BY <2>1, <2>2
<1>13. TimesOK'
  BY <1>4, <1>11 DEF TimesOK
<1>14. AllPassedOK'
  BY <1>4, <1>12 DEF AllPassedOK
<1> QED BY <1>1, <1>4, <1>5, <1>10, <1>13, <1>14 DEF ClockIInv

LEMMA IInvTickEnds ==
    ASSUME ClockIInv, TickEnds
    PROVE  ClockIInv' /\ \A a \in Alarms : due[a] # 0
<1> USE DEF TickEnds
<1>1. Ahead = {}
  BY ReachEnd DEF Ahead, alt_alarm_list
<1>2. \A a \in Running : PassedOK(nticks, due[a], alarm[a])
  BY <1>1 DEF ClockIInv, AllPassedOK
<1>3. Running' = Running /\ Ring' = Ring
  BY DEF Running, Ring
<1>4. Linked(llist', Ring')
  BY <1>3 DEF ClockIInv
<1>5. Shapes' /\ TimesOK' /\ AllPassedOK'
  BY <1>2, <1>3 DEF ClockIInv, Shapes, TimesOK, AllPassedOK
<1>6. ASSUME NEW a \in Alarms PROVE due[a] # 0
  BY <1>2 DEF PassedOK, Running, Stopped
<1> QED BY <1>4, <1>5, <1>6 DEF ClockIInv

\* What an alarm that executes does, when its callback stops no other: at most
\* one alarm is started, and the rest of the list stays in reach of the walk.
FireOutcome(a, starts, delay, period, called) ==
    /\ starts = {} \/ \E b \in Alarms : starts = {b}
    /\ Linked(called, Ring \cup starts)
    /\ \A w \in Ring : \A b \in Reach(llist, w) \cap Ring : b \in Reach(called, w)
    /\ llist' = IF period = 0 THEN Remove(called, a) ELSE called
    /\ alarm' = [b \in Alarms |->
                   IF b \in starts THEN Started(delay, nticks)
                   ELSE IF b # a THEN alarm[b]
                   ELSE IF period # 0 THEN Again(a, period) ELSE Unset]
    /\ due' = [b \in Alarms |->
                 IF b \in starts THEN delay + 1
                 ELSE IF b # a THEN due[b]
                 ELSE IF period # 0 THEN due[a] + period ELSE Stopped]

\* Every execution has such an outcome.
LEMMA FireEffect ==
    ASSUME ~CallbackStops, ClockIInv, NEW a \in Running, Fire(a)
    PROVE  \E starts \in SUBSET (Alarms \ Running), delay \in Delays,
              period \in Periods \cup {0} :
                \E called : FireOutcome(a, starts, delay, period, called)
<1>1. PICK starts \in SUBSET (Alarms \ Running), delay \in Delays,
           stops \in SUBSET (Running \ {a}), period \in Periods \cup {0} :
        /\ Cardinality(starts) + Cardinality(stops) <= 1
        /\ stops # {} => CallbackStops
        /\ LET called == IF starts # {} THEN Insert(llist, CHOOSE b \in starts : TRUE)
                         ELSE IF stops # {} THEN Remove(llist, CHOOSE b \in stops : TRUE)
                         ELSE llist
           IN  /\ llist' = IF period = 0 THEN Remove(called, a) ELSE called
               /\ alarm' = [b \in Alarms |->
                              IF b \in starts THEN Started(delay, nticks)
                              ELSE IF b # a THEN alarm[b]
                              ELSE IF period # 0 THEN Again(a, period)
                              ELSE Unset]
               /\ due' = [b \in Alarms |->
                            IF b \in starts THEN delay + 1
                            ELSE IF b \in stops THEN Stopped
                            ELSE IF b # a THEN due[b]
                            ELSE IF period # 0 THEN due[a] + period ELSE Stopped]
  BY DEF Fire
<1>2. stops = {}
  BY <1>1
<1>3. starts = {} \/ \E b \in Alarms : starts = {b}
  <2>1. IsFiniteSet(starts)
    BY AlarmAssumption, FS_Subset
  <2>2. Cardinality(stops) = 0 /\ Cardinality(starts) \in Nat
    BY <1>2, <2>1, FS_EmptySet, FS_CardinalityType
  <2>3. Cardinality(starts) = 0 \/ Cardinality(starts) = 1
    BY <1>1, <2>2
  <2>4. CASE Cardinality(starts) = 0
    BY <2>1, <2>4, FS_EmptySet
  <2>5. CASE Cardinality(starts) = 1
    BY <2>1, <2>5, FS_Singleton
  <2> QED BY <2>3, <2>4, <2>5
<1> DEFINE called == IF starts # {} THEN Insert(llist, CHOOSE b \in starts : TRUE) ELSE llist
<1>4. /\ llist' = IF period = 0 THEN Remove(called, a) ELSE called
      /\ alarm' = [b \in Alarms |->
                     IF b \in starts THEN Started(delay, nticks)
                     ELSE IF b # a THEN alarm[b]
                     ELSE IF period # 0 THEN Again(a, period) ELSE Unset]
      /\ due' = [b \in Alarms |->
                   IF b \in starts THEN delay + 1
                   ELSE IF b # a THEN due[b]
                   ELSE IF period # 0 THEN due[a] + period ELSE Stopped]
  BY <1>1, <1>2
<1>5. Linked(llist, Ring)
  BY DEF ClockIInv
<1>6. /\ Linked(called, Ring \cup starts)
      /\ \A w \in Ring : \A b \in Reach(llist, w) \cap Ring : b \in Reach(called, w)
  <2>1. CASE starts = {}
    BY <1>5, <2>1
  <2>2. CASE starts # {}
    <3>1. PICK b \in Alarms : starts = {b}
      BY <1>3, <2>2
    <3>2. called = Insert(llist, b)
      BY <3>1
    <3>3. b \in Nodes \ Ring
      BY <3>1, HeadIsNoAlarm DEF Nodes, Ring
    <3> QED BY <1>5, <3>1, <3>2, <3>3, InsertLinked, ReachInsert
  <2> QED BY <2>1, <2>2
<1> HIDE DEF called
<1>7. FireOutcome(a, starts, delay, period, called)
  BY <1>3, <1>4, <1>6 DEF FireOutcome
<1> QED BY <1>7

LEMMA IInvFire ==
    ASSUME ~CallbackStops, ClockIInv, NEW a \in Alarms, Fire(a)
    PROVE  /\ ClockIInv' /\ walk' # "none" /\ due[a] = 0
           /\ \E starts \in SUBSET (Alarms \ {a}), delay \in Delays,
                 t \in {Stopped} \cup 1..(Word - 1) :
                /\ starts = {} \/ \E b \in Alarms : starts = {b}
                /\ due' = [b \in Alarms |-> IF b \in starts THEN delay + 1
                                            ELSE IF b # a THEN due[b] ELSE t]
<1>1. /\ Word \in Nat \ {0} /\ Shapes /\ TimesOK /\ walk = a /\ Linked(llist, Ring)
      /\ nticks \in 0..(Word - 1) /\ Expired(a) /\ nticks' = nticks
      /\ walk' = llist[a].next
  BY AlarmAssumption DEF ClockIInv, Shapes, Fire, Successor
<1>2. a \in Running /\ a \in Ring \ {alt_alarm_list} /\ a # "none"
  BY <1>1, HeadIsNoAlarm DEF Shapes, Nodes, Ring
<1>3. due[a] = 0
  BY <1>1, <1>2, ExpiredIsDue
<1>4. walk' \in Ring /\ walk' # "none" /\ walk' # a
  BY <1>1, <1>2, RemoveFields, HeadIsNoAlarm DEF Linked
<1>51. PICK starts \in SUBSET (Alarms \ Running), delay \in Delays,
            period \in Periods \cup {0} :
                \E called : FireOutcome(a, starts, delay, period, called)
  BY <1>2, FireEffect
<1>52. PICK called : FireOutcome(a, starts, delay, period, called)
  BY <1>51
<1>5. /\ starts = {} \/ \E b \in Alarms : starts = {b}
      /\ Linked(called, Ring \cup starts)
      /\ \A w \in Ring : \A b \in Reach(llist, w) \cap Ring : b \in Reach(called, w)
      /\ llist' = IF period = 0 THEN Remove(called, a) ELSE called
      /\ alarm' = [b \in Alarms |->
                     IF b \in starts THEN Started(delay, nticks)
                     ELSE IF b # a THEN alarm[b]
                     ELSE IF period # 0 THEN Again(a, period) ELSE Unset]
      /\ due' = [b \in Alarms |->
                   IF b \in starts THEN delay + 1
                   ELSE IF b # a THEN due[b]
                   ELSE IF period # 0 THEN due[a] + period ELSE Stopped]
  BY <1>52 DEF FireOutcome
<1> DEFINE r == Started(delay, nticks)
           q == IF period # 0 THEN Again(a, period) ELSE Unset
           t == IF period # 0 THEN period ELSE Stopped
<1>6. /\ r \in [time : 0..(Word - 1), rollover : BOOLEAN]
      /\ delay + 1 \in 1..(Word - 1)
      /\ TimeOK(nticks, delay + 1, r) /\ PassedOK(nticks, delay + 1, r)
  BY <1>1, StartedOK
<1>7. period # 0 => /\ q \in [time : 0..(Word - 1), rollover : BOOLEAN]
                    /\ period \in 1..(Word - 1)
                    /\ TimeOK(nticks, period, q) /\ PassedOK(nticks, period, q)
  BY <1>1, <1>2, <1>3, AgainOK
<1>8. q \in [time : 0..(Word - 1), rollover : BOOLEAN]
  <2>1. Unset \in [time : 0..(Word - 1), rollover : BOOLEAN]
    BY <1>1 DEF Unset
  <2> QED BY <1>7, <2>1
<1>9. t \in {Stopped} \cup 1..(Word - 1) /\ (t = Stopped <=> period = 0)
      /\ (period # 0 => t = period) /\ (period # 0 => due[a] + period = t)
  BY <1>1, <1>3, <1>7 DEF Stopped
<1>10. /\ alarm' = [b \in Alarms |-> IF b \in starts THEN r
                                     ELSE IF b # a THEN alarm[b] ELSE q]
       /\ due' = [b \in Alarms |-> IF b \in starts THEN delay + 1
                                   ELSE IF b # a THEN due[b] ELSE t]
  BY <1>5, <1>9
<1> HIDE DEF r, q, t
<1>11. a \notin starts /\ starts \cap Running = {} /\ starts \subseteq Alarms
  BY <1>2
<1>12. ASSUME NEW b \in Alarms
       PROVE  /\ alarm'[b] = IF b \in starts THEN r ELSE IF b # a THEN alarm[b] ELSE q
              /\ due'[b] = IF b \in starts THEN delay + 1 ELSE IF b # a THEN due[b] ELSE t
  BY <1>10
<1>13. Running' = (Running \cup starts) \ (IF period = 0 THEN {a} ELSE {})
  <2>1. delay + 1 # Stopped /\ due[a] # Stopped
    BY <1>3, <1>6 DEF Stopped
  <2> QED BY <1>2, <1>9, <1>11, <1>12, <2>1 DEF Running
<1>14. Ring' = (Ring \cup starts) \ (IF period = 0 THEN {a} ELSE {})
  BY <1>2, <1>13 DEF Ring
<1>15. Linked(llist', Ring')
  <2>1. CASE period = 0
    BY <1>2, <1>5, <1>14, <2>1, RemoveLinked
  <2>2. CASE period # 0
    BY <1>5, <1>14, <2>2
  <2> QED BY <2>1, <2>2
<1>16. Shapes'
  <2>1. alarm' \in [Alarms -> [time : 0..(Word - 1), rollover : BOOLEAN]]
    BY <1>1, <1>6, <1>8, <1>10 DEF Shapes
  <2>2. due' \in [Alarms -> Stopped..(Word - 1)]
    BY <1>1, <1>6, <1>9, <1>10 DEF Shapes, Stopped
  <2>3. walk' \in {alt_alarm_list, "none"} \cup Running'
    BY <1>4, <1>13 DEF Ring
  <2> QED BY <1>1, <2>1, <2>2, <2>3 DEF Shapes
<1>17. ASSUME NEW b \in Running' PROVE TimeOK(nticks, due'[b], alarm'[b])
  <2>1. CASE b \in starts
    BY <1>6, <1>11, <1>12, <2>1
  <2>2. CASE b = a
    BY <1>7, <1>9, <1>11, <1>12, <1>13, <2>2
  <2>3. CASE b \notin starts /\ b # a
    <3>1. b \in Running /\ due'[b] = due[b] /\ alarm'[b] = alarm[b]
      BY <1>12, <1>13, <2>3 DEF Running
    <3> QED BY <1>1, <3>1 DEF TimesOK
  <2> QED BY <2>1, <2>2, <2>3
<1>18. ASSUME NEW b \in Running', b \notin Ahead' PROVE PassedOK(nticks, due'[b], alarm'[b])
  <2>1. CASE b \in starts
    BY <1>6, <1>11, <1>12, <2>1
  <2>2. CASE b = a
    BY <1>7, <1>9, <1>11, <1>12, <1>13, <2>2
  <2>3. CASE b \notin starts /\ b # a
    <3>1. b \in Running /\ b \in Ring /\ due'[b] = due[b] /\ alarm'[b] = alarm[b]
      BY <1>12, <1>13, <2>3 DEF Running, Ring
    <3>2. b \notin Reach(llist', walk')
      BY <1>4, <1>18 DEF Ahead
    <3>3. b \notin Reach(called, walk')
      <4>1. CASE period = 0
        <5>1. a \in (Ring \cup starts) \ {alt_alarm_list} /\ walk' \in Ring \cup starts
              /\ b \in Ring \cup starts
          BY <1>2, <1>4, <3>1
        <5> HIDE DEF Reach
        <5> QED BY <1>4, <1>5, <2>3, <3>2, <4>1, <5>1, ReachRemove
      <4>2. CASE period # 0
        BY <1>5, <3>2, <4>2
      <4> QED BY <4>1, <4>2
    <3>4. b \notin Reach(llist, llist[a].next)
      BY <1>1, <1>4, <1>5, <3>1, <3>3
    <3>5. b \notin Reach(llist, a)
      BY <2>3, <3>4, ReachNext
    <3>6. b \in Running \ Ahead
      BY <1>1, <1>2, <3>1, <3>5 DEF Ahead
    <3>7. PassedOK(nticks, due[b], alarm[b])
      BY <3>6 DEF ClockIInv, AllPassedOK
    <3> QED BY <3>1, <3>7
  <2> QED BY <2>1, <2>2, <2>3
<1>19. TimesOK'
  BY <1>1, <1>17 DEF TimesOK
<1>20. AllPassedOK'
  BY <1>1, <1>18 DEF AllPassedOK
<1>21. ClockIInv'
  BY <1>15, <1>16, <1>19, <1>20 DEF ClockIInv
<1>22. starts \in SUBSET (Alarms \ {a})
  BY <1>11
<1>23. due' = [b \in Alarms |-> IF b \in starts THEN delay + 1 ELSE IF b # a THEN due[b] ELSE t]
  BY <1>10
<1>24. t \in {Stopped} \cup 1..(Word - 1)
  BY <1>9
<1>25. \E s \in SUBSET (Alarms \ {a}), d \in Delays, u \in {Stopped} \cup 1..(Word - 1) :
         /\ s = {} \/ \E b \in Alarms : s = {b}
         /\ due' = [b \in Alarms |-> IF b \in s THEN d + 1 ELSE IF b # a THEN due[b] ELSE u]
  <2> WITNESS starts \in SUBSET (Alarms \ {a}), delay \in Delays,
              t \in {Stopped} \cup 1..(Word - 1)
  <2> QED BY <1>5, <1>23
<1> QED BY <1>3, <1>4, <1>21, <1>25

LEMMA IInvStep ==
    ASSUME ~CallbackStops, ClockIInv, [Next]_vars
    PROVE  ClockIInv'
<1>1. ASSUME SysclkInit PROVE ClockIInv'
  BY <1>1, IInvSame DEF SysclkInit
<1>2. ASSUME NEW a \in Alarms, NEW delay \in Delays, alt_alarm_start(a, delay) PROVE ClockIInv'
  BY <1>2, IInvStart
<1>3. ASSUME NEW a \in Alarms, alt_alarm_stop(a) PROVE ClockIInv'
  BY <1>3, IInvStop
<1>4. ASSUME NEW a \in Alarms, Pass(a) PROVE ClockIInv'
  BY <1>4, IInvPass
<1>5. ASSUME NEW a \in Alarms, Fire(a) PROVE ClockIInv'
  BY <1>5, IInvFire
<1>6. ASSUME TickBegins PROVE ClockIInv'
  BY <1>6, IInvTickBegins
<1>7. ASSUME TickEnds PROVE ClockIInv'
  BY <1>7, IInvTickEnds
<1>8. ASSUME NEW t \in Times, settimeofday(t) PROVE ClockIInv'
  BY <1>8, IInvSame DEF settimeofday, alarmVars
<1>9. ASSUME UNCHANGED vars PROVE ClockIInv'
  BY <1>9, IInvSame DEF vars, alarmVars
<1> QED
  BY <1>1, <1>2, <1>3, <1>4, <1>5, <1>6, <1>7, <1>8, <1>9 DEF Next, AlarmNext

LEMMA IInvAlways == ASSUME ~CallbackStops PROVE Spec => []ClockIInv
<1>1. ClockIInv /\ [Next]_vars => ClockIInv'
  BY IInvStep
<1> QED BY IInvInit, <1>1, PTL DEF Spec

-----------------------------------------------------------------------------
(* The theorems on the alarms *)

\* The list of alarms is in order after every start, stop, tick and callback
\* (alt_llist_insert, alt_llist_remove): every running alarm is met once, and
\* no stopped one.
THEOREM TimeOfDay_ListOK == ASSUME ~CallbackStops PROVE Spec => []ListOK
<1>1. ClockIInv => ListOK
  <2> SUFFICES ASSUME ClockIInv PROVE ListOK
    OBVIOUS
  <2>1. Linked(llist, Ring) /\ Running \subseteq Ring \ {alt_alarm_list} /\ Alarms \ Running \subseteq Nodes \ Ring
    BY HeadIsNoAlarm DEF ClockIInv, Ring, Running, Nodes
  <2>2. \A n \in Ring : llist[n].next \in Ring /\ llist[llist[n].next].previous = n
    BY <2>1 DEF Linked
  <2>3. \A S \in SUBSET Running : S # {} => \E a \in S : llist[a].next \notin S
    BY <2>1 DEF Linked
  <2>4. \A a \in Alarms \ Running : llist[a] = [next |-> a, previous |-> a]
    BY <2>1 DEF Linked
  <2> QED BY <2>2, <2>3, <2>4 DEF ListOK, Ring
<1> QED BY <1>1, IInvAlways, PTL

LEMMA ClockInit == Init => Clock!Init
BY DEF Init, AlarmInit, Clock!Init, Stopped, Clock!Stopped

\* One step of the alarms is a step of the clock that they promise, or none.
LEMMA ClockStep ==
    ASSUME ~CallbackStops, ClockIInv, [Next]_vars
    PROVE  [Clock!Next]_<<due, walk # "none">>
<1> USE DEF Stopped, Clock!Stopped
<1>1. Word \in Nat \ {0} /\ Shapes /\ Linked(llist, Ring)
  BY AlarmAssumption DEF ClockIInv
<1>2. ASSUME UNCHANGED <<due, walk>> PROVE [Clock!Next]_<<due, walk # "none">>
  BY <1>2
<1>3. ASSUME NEW a \in Alarms, NEW t \in {Stopped} \cup 1..(Word - 1), walk = "none",
             walk' = "none", due' = [due EXCEPT ![a] = t]
      PROVE  Clock!Next
  BY <1>3 DEF Clock!Next, Clock!Set, Clock!Changed
<1>4. ASSUME NEW a \in Alarms, NEW delay \in Delays, alt_alarm_start(a, delay)
      PROVE  Clock!Next
  <2>1. delay + 1 \in 1..(Word - 1)
    BY <1>1, StartedOK
  <2> QED BY <1>3, <1>4, <2>1 DEF alt_alarm_start
<1>5. ASSUME NEW a \in Alarms, alt_alarm_stop(a) PROVE Clock!Next
  BY <1>3, <1>5 DEF alt_alarm_stop
<1>6. ASSUME TickBegins PROVE Clock!Next
  <2>1. walk = "none" /\ walk' # "none"
    BY <1>1, <1>6, HeadIsNoAlarm DEF TickBegins, Linked
  <2>2. due' = [a \in Alarms |-> IF due[a] = Stopped THEN Stopped ELSE due[a] - 1]
    BY <1>6 DEF TickBegins, Running
  <2> QED BY <2>1, <2>2 DEF Clock!Next, Clock!Tick
<1>7. ASSUME NEW a \in Alarms, Pass(a) PROVE [Clock!Next]_<<due, walk # "none">>
  <2>1. walk # "none" /\ walk' # "none" /\ due' = due
    BY <1>7, IInvPass, HeadIsNoAlarm DEF Pass, Nodes
  <2> QED BY <2>1
<1>8. ASSUME NEW a \in Alarms, Fire(a) PROVE Clock!Next
  <2>1. walk # "none" /\ walk' # "none" /\ due[a] = 0
    BY <1>8, IInvFire, HeadIsNoAlarm DEF Fire, Nodes
  <2>2. PICK starts \in SUBSET (Alarms \ {a}), delay \in Delays,
             t \in {Stopped} \cup 1..(Word - 1) :
          /\ starts = {} \/ \E b \in Alarms : starts = {b}
          /\ due' = [b \in Alarms |-> IF b \in starts THEN delay + 1
                                      ELSE IF b # a THEN due[b] ELSE t]
    BY <1>8, IInvFire
  <2> DEFINE d == [due EXCEPT ![a] = t]
  <2>3. due' = d \/ Clock!Changed(d, due')
    <3>1. CASE starts = {}
      <4>1. due' = d
        BY <1>1, <2>2, <3>1 DEF Shapes
      <4> QED BY <4>1
    <3>2. CASE starts # {}
      <4>1. PICK b \in Alarms : starts = {b}
        BY <2>2, <3>2
      <4>2. due' = [d EXCEPT ![b] = delay + 1]
        BY <1>1, <2>2, <4>1 DEF Shapes
      <4>3. delay + 1 \in 1..(Word - 1)
        BY <1>1, StartedOK
      <4> QED BY <4>2, <4>3 DEF Clock!Changed
    <3> QED BY <3>1, <3>2
  <2>4. Clock!Execute(a)
    BY <2>1, <2>3 DEF Clock!Execute
  <2> QED BY <2>4 DEF Clock!Next
<1>9. ASSUME TickEnds PROVE Clock!Next
  <2>1. walk # "none" /\ walk' = "none" /\ due' = due
    BY <1>9, HeadIsNoAlarm DEF TickEnds, Nodes
  <2>2. \A a \in Alarms : due[a] # 0
    BY <1>9, IInvTickEnds
  <2> QED BY <2>1, <2>2 DEF Clock!Next, Clock!TickOver
<1>10. ASSUME SysclkInit \/ (\E t \in Times : settimeofday(t)) \/ UNCHANGED vars
       PROVE  [Clock!Next]_<<due, walk # "none">>
  BY <1>2, <1>10 DEF SysclkInit, settimeofday, vars, alarmVars
<1> QED
  BY <1>4, <1>5, <1>6, <1>7, <1>8, <1>9, <1>10 DEF Next, AlarmNext

\* Every alarm executes in the tick it is due, not before and not after, for
\* every width of the tick counter and across every wrap of it (alt_tick).
THEOREM TimeOfDay_ImplementsAlarmClock ==
    ASSUME ~CallbackStops PROVE Spec => ImplementsAlarmClock
<1>1. ClockIInv /\ [Next]_vars => [Clock!Next]_<<due, walk # "none">>
  BY ClockStep
<1> QED BY ClockInit, <1>1, IInvAlways, PTL DEF Spec, ImplementsAlarmClock, Clock!Spec

-----------------------------------------------------------------------------
(* The wall clock *)

\* Quotient and remainder are the only ones.
LEMMA Multiples ==
    ASSUME NEW d \in Nat \ {0}, NEW x \in Int, NEW y \in Int, d * x - d * y \in (1 - d)..(d - 1)
    PROVE  x = y
<1>1. ASSUME NEW a \in Int, NEW b \in Int, a > b PROVE d * a - d * b >= d
  <2> DEFINE k == a - b - 1
  <2>1. k \in Nat /\ a = b + 1 + k
    BY <1>1
  <2> HIDE DEF k
  <2>2. d * k >= 0
    BY <2>1
  <2>3. d * a = d * b + d + d * k
    BY <2>1
  <2>4. d * b \in Int /\ d * k \in Int
    BY <2>1
  <2> QED BY <2>2, <2>3, <2>4
<1>2. d * x \in Int /\ d * y \in Int
  OBVIOUS
<1>3. ~(x > y)
  BY <1>1, <1>2
<1>4. ~(y > x)
  BY <1>1, <1>2
<1> QED BY <1>3, <1>4

LEMMA DivMod ==
    ASSUME NEW n \in Nat, NEW d \in Nat \ {0}
    PROVE  /\ n \div d \in Nat /\ n % d \in 0..(d - 1) /\ n % d \in Nat
           /\ n = d * (n \div d) + (n % d)
OBVIOUS

LEMMA QuotientIs ==
    ASSUME NEW n \in Nat, NEW d \in Nat \ {0}, NEW q \in Int, NEW r \in 0..(d - 1),
           n = d * q + r
    PROVE  n \div d = q /\ n % d = r
<1> DEFINE p == n \div d
           s == n % d
<1>1. p \in Int /\ s \in 0..(d - 1) /\ n = d * p + s
  BY DivMod
<1> HIDE DEF p, s
<1>2. d * p \in Int /\ d * q \in Int
  BY <1>1
<1>3. d * p - d * q = r - s
  BY <1>1, <1>2
<1>4. d * p - d * q \in (1 - d)..(d - 1)
  BY <1>1, <1>3
<1>5. p = q
  BY <1>1, <1>4, Multiples
<1> QED BY <1>1, <1>2, <1>5 DEF p, s

\* The seconds of n ticks at rate r, and the microseconds beyond them, t per tick
\* and d per second.
Seconds(n, r) == n \div r
Micros(n, t, d) == (n * t) % d

LEMMA SecondsNat ==
    ASSUME NEW n \in Nat, NEW r \in Nat \ {0} PROVE Seconds(n, r) \in Nat
BY DivMod DEF Seconds

LEMMA MicrosRange ==
    ASSUME NEW n \in Nat, NEW t \in Nat, NEW d \in Nat \ {0}
    PROVE  Micros(n, t, d) \in 0..(d - 1)
<1> DEFINE i == n * t
<1>1. i \in Nat
  OBVIOUS
<1> HIDE DEF i
<1>2. i % d \in 0..(d - 1)
  BY <1>1
<1> QED BY <1>2 DEF Micros, i

\* Together they are all of the time, when the rate divides the second.
LEMMA TicksInTime ==
    ASSUME NEW n \in Nat, NEW r \in Nat \ {0}, NEW t \in Nat \ {0}, NEW d \in Nat, d = r * t
    PROVE  /\ n * t \in Nat
           /\ n * t = d * Seconds(n, r) + Micros(n, t, d)
           /\ Micros(n, t, d) \in 0..(d - 1) /\ Seconds(n, r) \in Nat
<1> DEFINE q == n \div r
           m == n % r
<1>1. q \in Nat /\ m \in 0..(r - 1) /\ n = r * q + m
  BY DivMod
<1> HIDE DEF q, m
<1>2. n * t \in Nat /\ m * t \in Nat /\ d \in Nat \ {0}
  <2>1. \A a, b \in Nat : a * b \in Nat
    OBVIOUS
  <2>2. \A a, b \in Nat : a >= 1 /\ b >= 1 => a * b >= 1
    OBVIOUS
  <2> QED BY <1>1, <2>1, <2>2
<1>3. m * t \in 0..(d - 1)
  <2> DEFINE k == r - 1 - m
  <2>1. k \in Nat /\ r = m + 1 + k
    BY <1>1
  <2> HIDE DEF k
  <2>2. k * t \in Nat
    BY <2>1
  <2>3. d = m * t + t + k * t
    BY <1>1, <2>1
  <2> QED BY <1>2, <2>2, <2>3
<1>4. n * t = d * q + m * t
  BY <1>1
<1>5. (n * t) % d = m * t
  <2> DEFINE i == n * t
             j == m * t
  <2>1. i \in Nat /\ j \in 0..(d - 1) /\ i = d * q + j /\ q \in Int /\ d \in Nat \ {0}
    BY <1>1, <1>2, <1>3, <1>4
  <2> HIDE DEF i, j
  <2>2. i % d = j
    BY <2>1, QuotientIs
  <2> QED BY <2>2 DEF i, j
<1> QED BY <1>1, <1>2, <1>3, <1>4, <1>5 DEF q, Seconds, Micros

LEMMA SameTime ==
    ASSUME NEW d \in Nat \ {0}, NEW x \in Int, NEW y \in Int, NEW r \in 0..(d - 1),
           NEW s \in 0..(d - 1), d * x + r = d * y + s
    PROVE  x = y /\ r = s
<1>1. d * x \in Int /\ d * y \in Int
  OBVIOUS
<1>2. d * x - d * y \in (1 - d)..(d - 1)
  BY <1>1
<1>3. x = y
  BY <1>2, Multiples
<1> QED BY <1>1, <1>3

\* A time that is u microseconds short of, or past, a second is brought in order.
LEMMA InOrder ==
    ASSUME NEW d \in Nat \ {0}, NEW sec \in Int, NEW usec \in (1 - d)..(2 * d - 1),
           NEW x \in Nat, NEW y \in Nat, d * sec + usec = d * x + y
    PROVE  /\ x + (y \div d) \in Nat
           /\ usec < 0 => sec > 0 /\ sec - 1 = x + (y \div d) /\ usec + d = y % d
           /\ usec >= 0 => sec + (usec \div d) = x + (y \div d) /\ usec % d = y % d
<1> DEFINE c == y \div d
           v == y % d
<1>1. c \in Nat /\ v \in 0..(d - 1) /\ y = d * c + v
  BY DivMod
<1> HIDE DEF c, v
<1>2. d * sec \in Int /\ d * x \in Int /\ d * c \in Int
  BY <1>1
<1>3. x + c \in Nat /\ d * (x + c) = d * x + d * c
  BY <1>1
<1>4. d * (x + c) + v = d * sec + usec
  BY <1>1, <1>2, <1>3
<1>5. ASSUME usec < 0 PROVE sec > 0 /\ sec - 1 = x + c /\ usec + d = v
  <2> DEFINE e == sec - 1
             w == usec + d
             z == x + c
  <2>1. w \in 0..(d - 1) /\ e \in Int /\ z \in Nat
    BY <1>3, <1>5
  <2>2. d * e = d * sec - d
    OBVIOUS
  <2>3. d * e + w = d * z + v
    BY <1>2, <1>4, <2>2
  <2> HIDE DEF e, w, z
  <2>4. e = z /\ w = v
    BY <1>1, <2>1, <2>3, SameTime
  <2> QED BY <1>3, <2>4 DEF e, w, z
<1>6. ASSUME usec >= 0 PROVE sec + (usec \div d) = x + c /\ usec % d = v
  <2> DEFINE e == usec \div d
             w == usec % d
  <2>0. usec \in Nat
    BY <1>6
  <2>1. e \in Nat /\ w \in 0..(d - 1) /\ usec = d * e + w
    BY <2>0, DivMod
  <2> HIDE DEF e, w
  <2>2. d * (sec + e) = d * sec + d * e /\ d * e \in Int /\ sec + e \in Int
    BY <2>1
  <2>3. d * (sec + e) + w = d * (x + c) + v
    BY <1>2, <1>4, <2>1, <2>2
  <2> DEFINE z == sec + e
             y0 == x + c
  <2>4. z \in Int /\ y0 \in Int /\ d * z + w = d * y0 + v
    BY <1>3, <2>2, <2>3
  <2> HIDE DEF z, y0
  <2>5. z = y0 /\ w = v
    BY <1>1, <2>1, <2>4, SameTime
  <2> QED BY <2>5 DEF e, w, z, y0
<1> QED BY <1>3, <1>5, <1>6 DEF c, v

\* The seconds and microseconds that gettimeofday adds and settimeofday has taken
\* off make up the time since.
LEMMA SecondsSince ==
    ASSUME NEW r \in Nat \ {0}, NEW t \in Nat \ {0}, NEW d \in Nat, d = r * t,
           NEW a \in Nat, NEW s \in Nat, NEW sec \in Nat, NEW usec \in 0..(d - 1),
           NEW sec0, sec0 = (sec - Seconds(a, r)) + Seconds(a + s, r),
           NEW usec0, usec0 = (usec - Micros(a, t, d)) + Micros(a + s, t, d),
           NEW x, x = sec + Seconds(s, r), NEW y, y = usec + Micros(s, t, d)
    PROVE  d * sec0 + usec0 = d * x + y
<1> DEFINE n == a + s
<1>1. n \in Nat
  OBVIOUS
<1> DEFINE qa == Seconds(a, r)
           qn == Seconds(n, r)
           qs == Seconds(s, r)
           ma == Micros(a, t, d)
           mn == Micros(n, t, d)
           ms == Micros(s, t, d)
<1> HIDE DEF n
<1>2. a * t = d * qa + ma /\ ma \in 0..(d - 1) /\ qa \in Nat /\ a * t \in Nat
  <2>1. a * t = d * qa + ma
    BY TicksInTime
  <2>2. ma \in 0..(d - 1)
    BY TicksInTime
  <2>3. qa \in Nat
    BY TicksInTime
  <2>4. a * t \in Nat
    BY TicksInTime
  <2> QED BY <2>1, <2>2, <2>3, <2>4
<1>3. n * t = d * qn + mn /\ mn \in 0..(d - 1) /\ qn \in Nat /\ n * t \in Nat
  <2>1. n * t = d * qn + mn
    BY <1>1, TicksInTime
  <2>2. mn \in 0..(d - 1)
    BY <1>1, TicksInTime
  <2>3. qn \in Nat
    BY <1>1, TicksInTime
  <2>4. n * t \in Nat
    BY <1>1, TicksInTime
  <2> QED BY <2>1, <2>2, <2>3, <2>4
<1>4. s * t = d * qs + ms /\ ms \in 0..(d - 1) /\ qs \in Nat /\ s * t \in Nat
  <2>1. s * t = d * qs + ms
    BY TicksInTime
  <2>2. ms \in 0..(d - 1)
    BY TicksInTime
  <2>3. qs \in Nat
    BY TicksInTime
  <2>4. s * t \in Nat
    BY TicksInTime
  <2> QED BY <2>1, <2>2, <2>3, <2>4
<1>5. n * t = a * t + s * t
  BY DEF n
<1> HIDE DEF qa, qn, qs, ma, mn, ms
<1>6. d * qa \in Int /\ d * qn \in Int /\ d * qs \in Int /\ d * sec \in Int
  BY <1>2, <1>3, <1>4
<1>7. d * qn + mn = d * qa + ma + d * qs + ms
  BY <1>2, <1>3, <1>4, <1>5, <1>6
<1>8. d * ((sec - qa) + qn) = d * sec - d * qa + d * qn
  BY <1>2, <1>3
<1>9. d * (sec + qs) = d * sec + d * qs
  BY <1>4
<1>10. d * ((sec - qa) + qn) + ((usec - ma) + mn) = d * (sec + qs) + (usec + ms)
  BY <1>2, <1>3, <1>4, <1>6, <1>7, <1>8, <1>9
<1> QED BY <1>10 DEF n, qa, qn, qs, ma, mn, ms

\* What settimeofday has left and the ticks since.
CalibratedOK(c) ==
    /\ rate = Freq
    /\ c = [time |-> c.time, at |-> c.at, since |-> c.since]
    /\ c.time \in Times /\ c.at \in Nat /\ c.since \in Nat
    /\ nticks = c.at + c.since
    /\ alt_timezone = c.time.zone
    /\ alt_resettime = [sec |-> c.time.sec - (c.at \div rate),
                        usec |-> c.time.usec - (Wrap(c.at * TickUs) % ALT_US)]

WallInv == /\ nticks \in 0..(Word - 1) /\ rate \in {0, Freq}
           /\ calibrated # Never => CalibratedOK(calibrated)

LEMMA WallStep ==
    ASSUME WallInv, [Next]_vars
    PROVE  WallInv'
<1>1. nticks \in 0..(Word - 1) /\ rate \in {0, Freq} /\ Word \in Nat \ {0} /\ Freq \in Nat \ {0}
      /\ (calibrated # Never => CalibratedOK(calibrated))
  BY AlarmAssumption DEF WallInv
<1>2. ASSUME NEW t \in Times, settimeofday(t) PROVE WallInv'
  <2>1. rate = Freq /\ UNCHANGED <<nticks, rate>>
    BY <1>1, <1>2 DEF settimeofday, alarmVars
  <2> DEFINE c == [time |-> t, at |-> nticks, since |-> 0]
  <2>2. calibrated' = c /\ alt_timezone' = t.zone
        /\ alt_resettime' = [sec |-> t.sec - (nticks \div rate),
                             usec |-> t.usec - (Wrap(nticks * TickUs) % ALT_US)]
    BY <1>2 DEF settimeofday
  <2>3. c = [time |-> c.time, at |-> c.at, since |-> c.since] /\ c.time = t /\ c.at = nticks
        /\ c.since = 0
    OBVIOUS
  <2> HIDE DEF c
  <2>4. CalibratedOK(calibrated)'
    BY <1>1, <2>1, <2>2, <2>3 DEF CalibratedOK, TickUs
  <2> QED BY <1>1, <2>1, <2>4 DEF WallInv
<1>3. ASSUME AlarmNext,
             calibrated' = IF nticks' = nticks \/ calibrated = Never THEN calibrated
                           ELSE IF nticks' = 0 THEN Never
                           ELSE [calibrated EXCEPT !.since = @ + 1],
             UNCHANGED <<alt_resettime, alt_timezone>>
      PROVE  WallInv'
  <2>1. /\ rate' \in {0, Freq} /\ (rate # 0 => rate' = rate)
        /\ nticks' = nticks \/ nticks' = Wrap(nticks + 1)
    BY <1>1, <1>3 DEF AlarmNext, SysclkInit, alt_alarm_start, alt_alarm_stop, Pass, Fire,
                      TickBegins, TickEnds
  <2>2. nticks' \in 0..(Word - 1) /\ (nticks' = nticks \/ nticks' = 0 \/ nticks' = nticks + 1)
    <3> DEFINE i == nticks + 1
    <3>1. i \in 0..(2 * Word - 1)
      BY <1>1
    <3> HIDE DEF i
    <3>2. Wrap(i) = (IF i < Word THEN i ELSE i - Word) /\ Wrap(i) \in 0..(Word - 1)
      BY <3>1, WrapOnce
    <3>3. i = nticks + 1
      BY DEF i
    <3> QED BY <1>1, <2>1, <3>2, <3>3
  <2>3. CASE calibrated = Never
    BY <1>3, <2>1, <2>2, <2>3 DEF WallInv
  <2>4. CASE calibrated # Never
    <3>1. CalibratedOK(calibrated) /\ rate' = rate /\ rate = Freq
      BY <1>1, <2>1, <2>4 DEF CalibratedOK
    <3>2. CASE nticks' = nticks
      BY <1>3, <2>2, <3>1, <3>2 DEF WallInv, CalibratedOK, TickUs
    <3>3. CASE nticks' # nticks /\ nticks' = 0
      BY <1>3, <2>2, <2>4, <3>1, <3>3 DEF WallInv
    <3>4. CASE nticks' # nticks /\ nticks' # 0
      <4> DEFINE c == [time |-> calibrated.time, at |-> calibrated.at,
                       since |-> calibrated.since + 1]
      <4>1. calibrated' = [calibrated EXCEPT !.since = calibrated.since + 1]
        BY <1>3, <2>4, <3>4
      <4>2. calibrated = [time |-> calibrated.time, at |-> calibrated.at,
                          since |-> calibrated.since]
        BY <3>1 DEF CalibratedOK
      <4>3. calibrated' = c
        BY <4>1, <4>2
      <4>4. c = [time |-> c.time, at |-> c.at, since |-> c.since]
            /\ c.time = calibrated.time /\ c.at = calibrated.at
            /\ c.since = calibrated.since + 1
        OBVIOUS
      <4> HIDE DEF c
      <4>5. nticks' = nticks + 1
        BY <2>2, <3>4
      <4>6. CalibratedOK(calibrated)'
        BY <1>3, <3>1, <4>3, <4>4, <4>5 DEF CalibratedOK, TickUs
      <4> QED BY <2>1, <2>2, <4>6 DEF WallInv
    <3> QED BY <3>2, <3>3, <3>4
  <2> QED BY <2>3, <2>4
<1>4. ASSUME UNCHANGED vars PROVE WallInv'
  BY <1>4 DEF vars, alarmVars, WallInv, CalibratedOK, TickUs
<1> QED BY <1>2, <1>3, <1>4 DEF Next

\* A clock set while its product has not overflowed shows the time set and the
\* ticks since.
LEMMA ShowsExpected ==
    ASSUME ALT_US % Freq = 0, CalibratedOK(calibrated), calibrated.at * TickUs < Word
    PROVE  gettimeofday = Expected
<1> DEFINE t == calibrated.time
           a == calibrated.at
           s == calibrated.since
           k == TickUs
<1>1. /\ ALT_US \in Nat /\ ALT_US >= Freq /\ Freq \in Nat \ {0} /\ Word \in Nat \ {0}
      /\ t.sec \in Nat /\ t.usec \in 0..(ALT_US - 1)
      /\ a \in Nat /\ s \in Nat /\ nticks = a + s /\ rate = Freq
  BY AlarmAssumption, ClockAssumption DEF CalibratedOK
<1>2. k \in Nat \ {0} /\ ALT_US = Freq * k
  <2> DEFINE q == ALT_US \div Freq
  <2>1. q \in Nat /\ ALT_US = Freq * q + (ALT_US % Freq)
    BY <1>1, DivMod
  <2>2. k = q
    BY <1>1 DEF TickUs
  <2> HIDE DEF q, k
  <2>3. Freq * q \in Int
    BY <1>1, <2>1
  <2>4. ALT_US = Freq * q
    BY <2>1, <2>3
  <2>5. q # 0
    BY <1>1, <2>4
  <2> QED BY <2>1, <2>2, <2>4, <2>5
<1>3. Wrap(a * k) = a * k
  <2> DEFINE i == a * k
  <2>1. i \in Nat
    BY <1>1, <1>2
  <2>2. i < Word
    OBVIOUS
  <2> HIDE DEF i
  <2>3. i \in 0..(2 * Word - 1)
    BY <1>1, <2>1, <2>2
  <2> QED BY <2>2, <2>3, WrapOnce DEF i
<1> DEFINE sec == (t.sec - Seconds(a, Freq)) + Seconds(a + s, Freq)
           usec == (t.usec - Micros(a, k, ALT_US)) + Micros(a + s, k, ALT_US)
           x == t.sec + Seconds(s, Freq)
           y == t.usec + Micros(s, k, ALT_US)
<1>4. /\ alt_resettime.sec + (nticks \div rate) = sec
      /\ alt_resettime.usec + ((nticks * TickUs) % ALT_US) = usec
      /\ alt_timezone = t.zone
  <2>1. /\ alt_resettime.sec = t.sec - (a \div Freq)
        /\ alt_resettime.usec = t.usec - (Wrap(a * k) % ALT_US)
        /\ alt_timezone = t.zone
    BY <1>1 DEF CalibratedOK
  <2> HIDE DEF t, a, s, k
  <2> QED BY <1>1, <1>3, <2>1 DEF k, Seconds, Micros
<1>5. /\ ALT_US * sec + usec = ALT_US * x + y
      /\ sec \in Int /\ usec \in (1 - ALT_US)..(2 * ALT_US - 1) /\ x \in Nat /\ y \in Nat
  <2> DEFINE sec1 == t.sec
             usec1 == t.usec
  <2>1. sec1 \in Nat /\ usec1 \in 0..(ALT_US - 1)
    BY <1>1
  <2>2. /\ sec = (sec1 - Seconds(a, Freq)) + Seconds(a + s, Freq)
        /\ usec = (usec1 - Micros(a, k, ALT_US)) + Micros(a + s, k, ALT_US)
        /\ x = sec1 + Seconds(s, Freq) /\ y = usec1 + Micros(s, k, ALT_US)
    OBVIOUS
  <2>3. /\ Freq \in Nat \ {0} /\ k \in Nat \ {0} /\ ALT_US \in Nat /\ ALT_US = Freq * k
        /\ a \in Nat /\ s \in Nat
    BY <1>1, <1>2
  <2> HIDE DEF sec, usec, x, y, sec1, usec1, t, a, s, k
  <2>4. ALT_US * sec + usec = ALT_US * x + y
    BY <2>1, <2>2, <2>3, SecondsSince
  <2>5. \A n \in Nat : Seconds(n, Freq) \in Nat /\ Micros(n, k, ALT_US) \in 0..(ALT_US - 1)
    <3>1. k \in Nat /\ ALT_US \in Nat \ {0}
      BY <1>1, <2>3
    <3> QED BY <2>3, <3>1, SecondsNat, MicrosRange
  <2>6. a + s \in Nat
    BY <2>3
  <2>7. /\ Seconds(a, Freq) \in Nat /\ Seconds(a + s, Freq) \in Nat /\ Seconds(s, Freq) \in Nat
        /\ Micros(a, k, ALT_US) \in 0..(ALT_US - 1)
        /\ Micros(a + s, k, ALT_US) \in 0..(ALT_US - 1)
        /\ Micros(s, k, ALT_US) \in 0..(ALT_US - 1)
    BY <2>3, <2>5, <2>6
  <2>8. /\ sec \in Int /\ usec \in (1 - ALT_US)..(2 * ALT_US - 1)
        /\ x \in Nat /\ y \in Nat
    BY <2>1, <2>2, <2>3, <2>7
  <2> QED BY <2>4, <2>8
<1>6. Expected = [sec |-> x + (y \div ALT_US), usec |-> y % ALT_US, zone |-> t.zone]
  BY <1>1 DEF Expected, Seconds, Micros
<1>7. gettimeofday =
        IF usec < 0 /\ sec <= 0 THEN [sec |-> 0, usec |-> 0, zone |-> t.zone]
        ELSE IF usec < 0 THEN [sec |-> sec - 1, usec |-> usec + ALT_US, zone |-> t.zone]
        ELSE [sec |-> sec + (usec \div ALT_US), usec |-> usec % ALT_US, zone |-> t.zone]
  <2> HIDE DEF sec, usec, t
  <2> QED BY <1>4 DEF gettimeofday
<1> HIDE DEF sec, usec, x, y, t
<1>8. /\ usec < 0 => sec > 0 /\ sec - 1 = x + (y \div ALT_US) /\ usec + ALT_US = y % ALT_US
      /\ usec >= 0 => /\ sec + (usec \div ALT_US) = x + (y \div ALT_US)
                      /\ usec % ALT_US = y % ALT_US
  <2>1. ALT_US \in Nat \ {0}
    BY <1>1
  <2> QED BY <1>5, <2>1, InOrder
<1>9. usec \in Int /\ sec \in Int
  BY <1>5, <1>1
<1>10. CASE usec < 0
  <2>1. gettimeofday = [sec |-> sec - 1, usec |-> usec + ALT_US, zone |-> t.zone]
    BY <1>7, <1>8, <1>9, <1>10
  <2> QED BY <1>6, <1>8, <1>10, <2>1
<1>11. CASE usec >= 0
  <2>1. gettimeofday = [sec |-> sec + (usec \div ALT_US), usec |-> usec % ALT_US, zone |-> t.zone]
    BY <1>7, <1>9, <1>11
  <2> QED BY <1>6, <1>8, <1>11, <2>1
<1> QED BY <1>9, <1>10, <1>11

\* When the tick rate divides the second (system.h: 1000 ticks per second): from
\* settimeofday on, until the tick counter wraps, gettimeofday returns the time set
\* and the ticks since, if the clock was set before the 32-bit product overflows;
\* borrow and carry between seconds and microseconds come out right.
THEOREM TimeOfDay_WallClockSetEarly ==
    ASSUME ALT_US % Freq = 0 PROVE Spec => []WallClockSetEarly
<1>1. Init => WallInv
  BY AlarmAssumption DEF Init, AlarmInit, WallInv
<1>2. WallInv /\ [Next]_vars => WallInv'
  BY WallStep
<1>3. WallInv => WallClockSetEarly
  BY ShowsExpected DEF WallInv, WallClockSetEarly
<1> QED BY <1>1, <1>2, <1>3, PTL DEF Spec
=============================================================================
