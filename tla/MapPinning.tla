----------------------------- MODULE MapPinning -----------------------------
(***************************************************************************)
(* How the loaders of the repository come by a pinned map: one path under  *)
(* /sys/fs/bpf, several processes that load an object with a map of that   *)
(* name.  There are three kinds of loader:                                 *)
(*                                                                         *)
(*   "libbpf"  bpf_object__load of libbpf with LIBBPF_PIN_BY_NAME, the one *)
(*             05_user uses: reuse the pinned map, else create and pin     *)
(*             one, and start over once if somebody pinned meanwhile;      *)
(*   "maps"    bpf_prog_load_xattr_maps of common_libbpf.c: open the pin,  *)
(*             load the object, pin what was not opened;                   *)
(*   "reuse"   load_bpf_object_file_reuse_maps of common_user_bpf_xdp.c:   *)
(*             the pinned map must be there.                               *)
(*                                                                         *)
(* Each call that looks at or changes the file system is a step.  A loader *)
(* creates one map at most, so a map is named after its creator.           *)
(***************************************************************************)
EXTENDS Naturals

CONSTANTS
  Loaders,  \* the processes
  kind,     \* kind[l]: which of the three loaders l runs
  def       \* def[l]: type, sizes and flags of the map in l's object file

Kinds == {"libbpf", "maps", "reuse"}

ASSUME LoadersAssumption ==
  /\ kind \in [Loaders -> Kinds]
  /\ DOMAIN def = Loaders
  /\ "none" \notin Loaders

NoMap == "none"

VARIABLES
  pc,       \* where each loader is
  fd,       \* the map its object refers to (struct bpf_map's fd), or NoMap
  reused,   \* struct bpf_map's flag: the fd comes from the pin
  pinned,   \* struct bpf_map's flag: the map is known to be pinned
  retried,  \* bpf_object__create_maps' flag
  map_fd,   \* the pin_map->map_fd a "maps" loader reports, NoMap for -1
  warned,   \* it has printed "requested mapname not seen"
  pin,      \* the map the path refers to, NoMap when there is no such file
  unpinned  \* history: some loader has unlinked the path

vars == <<pc, fd, reused, pinned, retried, map_fd, warned, pin, unpinned>>

Done == {"ok", "failed", "killed"}

\* Mutant of Init: map_fd is not reset to -1 before the load.
Init_NotReset ==
  /\ pc = [l \in Loaders |-> "open"]
  /\ fd = [l \in Loaders |-> NoMap]
  /\ reused = [l \in Loaders |-> FALSE]
  /\ pinned = [l \in Loaders |-> FALSE]
  /\ retried = [l \in Loaders |-> FALSE]
  /\ map_fd = [l \in Loaders |-> "stale"]
  /\ warned = [l \in Loaders |-> FALSE]
  /\ pin = NoMap
  /\ unpinned = FALSE

Init ==
  /\ pc = [l \in Loaders |-> "open"]
  /\ fd = [l \in Loaders |-> NoMap]
  /\ reused = [l \in Loaders |-> FALSE]
  /\ pinned = [l \in Loaders |-> FALSE]
  /\ retried = [l \in Loaders |-> FALSE]
  /\ map_fd = [l \in Loaders |-> NoMap]
  /\ warned = [l \in Loaders |-> FALSE]
  /\ pin = NoMap
  /\ unpinned = FALSE

Goto(l, x) == pc' = [pc EXCEPT ![l] = x]

-----------------------------------------------------------------------------
(* libbpf: bpf_object__create_maps, then the programs.                     *)

\* Mutant of map_is_reuse_compat: any map under the path will do.
map_is_reuse_compat_Any(l, m) == TRUE

map_is_reuse_compat(l, m) == def[m] = def[l]

\* bpf_object__reuse_map: no file is fine at first and an error after a
\* retry; a map of another shape is an error.
ReuseMap(l) ==
  /\ pc[l] = "open" /\ kind[l] = "libbpf"
  /\ \/ /\ pin = NoMap
        /\ Goto(l, IF retried[l] THEN "failed" ELSE "create")
        /\ UNCHANGED <<fd, reused, pinned>>
     \/ /\ pin # NoMap /\ ~map_is_reuse_compat(l, pin)
        /\ Goto(l, "failed")
        /\ UNCHANGED <<fd, reused, pinned>>
     \/ /\ pin # NoMap /\ map_is_reuse_compat(l, pin)
        /\ fd' = [fd EXCEPT ![l] = pin]
        /\ reused' = [reused EXCEPT ![l] = TRUE]
        /\ pinned' = [pinned EXCEPT ![l] = TRUE]
        /\ Goto(l, "progs")
     \/ /\ pin # NoMap                   \* bpf_obj_get or bpf_map__reuse_fd fails
        /\ Goto(l, "failed")
        /\ UNCHANGED <<fd, reused, pinned>>
  /\ UNCHANGED <<retried, map_fd, warned, pin, unpinned>>

CreateMap(l) ==
  /\ pc[l] = "create" /\ kind[l] = "libbpf"
  /\ \/ fd' = [fd EXCEPT ![l] = l] /\ Goto(l, "pin")
     \/ UNCHANGED fd /\ Goto(l, "failed")
  /\ UNCHANGED <<reused, pinned, retried, map_fd, warned, pin, unpinned>>

\* Mutant of PinMap: after -EEXIST it tries to create the map again.
PinMap_CreateAgain(l) ==
  /\ pc[l] = "pin" /\ kind[l] = "libbpf"
  /\ IF pin # NoMap
     THEN /\ fd' = [fd EXCEPT ![l] = NoMap]
          /\ Goto(l, "create")
          /\ UNCHANGED <<pinned, pin>>
     ELSE /\ pin' = fd[l]
          /\ pinned' = [pinned EXCEPT ![l] = TRUE]
          /\ Goto(l, "progs")
          /\ UNCHANGED fd
  /\ UNCHANGED <<reused, retried, map_fd, warned, unpinned>>

\* bpf_map__pin does not replace a file.  Its -EEXIST closes the new map and
\* starts over, once.
PinMap(l) ==
  /\ pc[l] = "pin" /\ kind[l] = "libbpf"
  /\ \/ /\ pin = NoMap
        /\ pin' = fd[l]
        /\ pinned' = [pinned EXCEPT ![l] = TRUE]
        /\ Goto(l, "progs")
        /\ UNCHANGED <<fd, retried>>
     \/ /\ pin # NoMap
        /\ fd' = [fd EXCEPT ![l] = NoMap]
        /\ retried' = [retried EXCEPT ![l] = TRUE]
        /\ Goto(l, IF retried[l] THEN "failed" ELSE "open")
        /\ UNCHANGED <<pinned, pin>>
     \/ /\ fd' = [fd EXCEPT ![l] = NoMap]         \* any other error
        /\ Goto(l, "failed")
        /\ UNCHANGED <<pinned, retried, pin>>
  /\ UNCHANGED <<reused, map_fd, warned, unpinned>>

\* Mutant of LoadProgs: a failed load unlinks the path of a reused map too.
LoadProgs_UnpinReused(l) ==
  /\ pc[l] = "progs" /\ kind[l] = "libbpf"
  /\ \/ /\ Goto(l, "ok")
        /\ UNCHANGED <<fd, pinned, pin, unpinned>>
     \/ /\ Goto(l, "failed")
        /\ fd' = [fd EXCEPT ![l] = NoMap]
        /\ pin' = IF pinned[l] THEN NoMap ELSE pin
        /\ pinned' = [pinned EXCEPT ![l] = FALSE]
        /\ unpinned' = (unpinned \/ pinned[l])
  /\ UNCHANGED <<reused, retried, map_fd, warned>>

\* Relocation and bpf_object__load_progs.  When they fail, bpf_object_load
\* unlinks the path if this object pinned it, and closes the map.
LoadProgs(l) ==
  /\ pc[l] = "progs" /\ kind[l] = "libbpf"
  /\ \/ /\ Goto(l, "ok")
        /\ UNCHANGED <<fd, pinned, pin, unpinned>>
     \/ /\ Goto(l, "failed")
        /\ fd' = [fd EXCEPT ![l] = NoMap]
        /\ IF pinned[l] /\ ~reused[l]
           THEN /\ pin' = NoMap
                /\ pinned' = [pinned EXCEPT ![l] = FALSE]
                /\ unpinned' = TRUE
           ELSE UNCHANGED <<pinned, pin, unpinned>>
  /\ UNCHANGED <<reused, retried, map_fd, warned>>

-----------------------------------------------------------------------------
(* bpf_prog_load_xattr_maps.                                               *)

\* The pin is opened when it is there.  The result of bpf_map__reuse_fd is
\* not looked at: map_fd is set whether or not the object took the map.
OpenPinned(l) ==
  /\ pc[l] = "open" /\ kind[l] = "maps"
  /\ \/ /\ pin # NoMap
        /\ \/ /\ fd' = [fd EXCEPT ![l] = pin]
              /\ reused' = [reused EXCEPT ![l] = TRUE]
           \/ UNCHANGED <<fd, reused>>
        /\ map_fd' = [map_fd EXCEPT ![l] = pin]
     \/ UNCHANGED <<fd, reused, map_fd>>          \* no file, or it cannot be opened
  /\ Goto(l, "progs")
  /\ UNCHANGED <<pinned, retried, warned, pin, unpinned>>

\* bpf_object__load: creates the map unless one was given, loads the programs.
LoadObject(l) ==
  /\ pc[l] = "progs" /\ kind[l] \in {"maps", "reuse"}
  /\ \/ /\ fd' = [fd EXCEPT ![l] = IF @ = NoMap THEN l ELSE @]
        /\ Goto(l, IF kind[l] = "maps" THEN "pin" ELSE "ok")
     \/ /\ fd' = [fd EXCEPT ![l] = NoMap]
        /\ Goto(l, "failed")
  /\ UNCHANGED <<reused, pinned, retried, map_fd, warned, pin, unpinned>>

\* Mutant of PinMaps: map_fd is set although the map was not pinned.
PinMaps_IgnoreError(l) ==
  /\ pc[l] = "pin" /\ kind[l] = "maps"
  /\ IF map_fd[l] = NoMap
     THEN /\ pin' = IF pin = NoMap THEN fd[l] ELSE pin
          /\ map_fd' = [map_fd EXCEPT ![l] = fd[l]]
          /\ UNCHANGED pinned
     ELSE UNCHANGED <<pin, pinned, map_fd>>
  /\ Goto(l, "warn")
  /\ UNCHANGED <<fd, reused, retried, warned, unpinned>>

\* Pin the map that was not opened; an error is passed over.
PinMaps(l) ==
  /\ pc[l] = "pin" /\ kind[l] = "maps"
  /\ \/ /\ map_fd[l] = NoMap /\ pin = NoMap
        /\ pin' = fd[l]
        /\ pinned' = [pinned EXCEPT ![l] = TRUE]
        /\ map_fd' = [map_fd EXCEPT ![l] = fd[l]]
     \/ UNCHANGED <<pin, pinned, map_fd>>         \* map_fd is set, or an error
  /\ Goto(l, "warn")
  /\ UNCHANGED <<fd, reused, retried, warned, unpinned>>

\* The last loop, and return 0.
WarnNotSeen(l) ==
  /\ pc[l] = "warn" /\ kind[l] = "maps"
  /\ warned' = [warned EXCEPT ![l] = (map_fd[l] = NoMap)]
  /\ Goto(l, "ok")
  /\ UNCHANGED <<fd, reused, pinned, retried, map_fd, pin, unpinned>>

-----------------------------------------------------------------------------
(* load_bpf_object_file_reuse_maps.                                        *)

reuse_maps(l) ==
  /\ pc[l] = "open" /\ kind[l] = "reuse"
  /\ \/ /\ pin # NoMap
        /\ fd' = [fd EXCEPT ![l] = pin]
        /\ reused' = [reused EXCEPT ![l] = TRUE]
        /\ Goto(l, "progs")
     \/ /\ Goto(l, "failed")
        /\ UNCHANGED <<fd, reused>>
  /\ UNCHANGED <<pinned, retried, map_fd, warned, pin, unpinned>>

-----------------------------------------------------------------------------
\* The process dies at any point; the file system keeps what it did.
Kill(l) ==
  /\ pc[l] \notin Done
  /\ Goto(l, "killed")
  /\ fd' = [fd EXCEPT ![l] = NoMap]
  /\ UNCHANGED <<reused, pinned, retried, map_fd, warned, pin, unpinned>>

Load(l) ==
  \/ ReuseMap(l) \/ CreateMap(l) \/ PinMap(l) \/ LoadProgs(l)
  \/ OpenPinned(l) \/ LoadObject(l) \/ PinMaps(l) \/ WarnNotSeen(l)
  \/ reuse_maps(l)

Next == \E l \in Loaders : Load(l) \/ Kill(l)

\* A process that is ready gets the processor.
Spec == Init /\ [][Next]_vars /\ \A l \in Loaders : WF_vars(Load(l))

-----------------------------------------------------------------------------
(* Properties.                                                             *)

\* Every variable has its type.
TypeOK ==
  /\ pc \in [Loaders -> {"open", "create", "pin", "progs", "warn"} \cup Done]
  /\ fd \in [Loaders -> Loaders \cup {NoMap}]
  /\ reused \in [Loaders -> BOOLEAN]
  /\ pinned \in [Loaders -> BOOLEAN]
  /\ retried \in [Loaders -> BOOLEAN]
  /\ map_fd \in [Loaders -> Loaders \cup {NoMap}]
  /\ warned \in [Loaders -> BOOLEAN]
  /\ pin \in Loaders \cup {NoMap}
  /\ unpinned \in BOOLEAN

\* A loader that reports success and claims the pinned map really has it: a
\* libbpf loader's programs use the map the path refers to, and so does the
\* map_fd of a bpf_prog_load_xattr_maps loader, however the loaders raced to
\* create it (as long as no failed load has taken the pin away).
LoadersShareThePin ==
  ~unpinned =>
    \A l \in Loaders : pc[l] = "ok" =>
      /\ kind[l] \in {"libbpf", "reuse"} => fd[l] = pin
      /\ kind[l] = "maps" /\ map_fd[l] # NoMap => map_fd[l] = pin

\* libbpf hands a program only a map of the shape its object file declares,
\* also when the map comes from the path after a lost race.
ReusedMapFits ==
  \A l \in Loaders : kind[l] = "libbpf" /\ pc[l] = "ok" => def[fd[l]] = def[l]

\* Undoing a failed load takes away no pin but the loader's own: the path
\* may refer to a map others made and use.
OnlyOwnPinRemoved ==
  [][pin # NoMap /\ pin' = NoMap => pc[pin] # "failed" /\ pc'[pin] = "failed"]_vars

\* Every loader finishes: the retry after -EEXIST happens once.
LoadersFinish == \A l \in Loaders : <>(pc[l] \in Done)

=============================================================================
