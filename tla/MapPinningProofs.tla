-------------------------- MODULE MapPinningProofs --------------------------
(***************************************************************************)
(* Proofs about MapPinning, for any number of loaders of the three kinds:  *)
(* the loaders that succeed share the pinned map, a map that libbpf reuses *)
(* has the declared shape, and a failed load takes away only its own pin.  *)
(***************************************************************************)
EXTENDS MapPinning, TLAPS

-----------------------------------------------------------------------------
(* The inductive invariant.                                                *)

\* The map a libbpf loader holds: its own before it is pinned, one of the
\* declared shape when the programs are loaded.
Holds(l) ==
  kind[l] = "libbpf" =>
    /\ pc[l] = "pin" => fd[l] = l
    /\ pc[l] \in {"progs", "ok"} => fd[l] \in Loaders /\ def[fd[l]] = def[l]

\* A libbpf loader that may yet undo its pin still has it under the path.
Owns(l) ==
  kind[l] = "libbpf" /\ pc[l] = "progs" /\ pinned[l] /\ ~reused[l] => pin = l

\* What the loader took for the pinned map is what the path refers to.
Shares(l) ==
  /\ kind[l] \in {"libbpf", "reuse"} /\ pc[l] \in {"progs", "ok"}
       => pin # NoMap /\ fd[l] = pin
  /\ kind[l] = "maps" /\ map_fd[l] # NoMap => map_fd[l] = pin
  /\ kind[l] = "maps" /\ pc[l] = "pin" => fd[l] # NoMap

IInv ==
  /\ TypeOK
  /\ \A l \in Loaders : Holds(l) /\ Owns(l)
  /\ ~unpinned => \A l \in Loaders : Shares(l)

-----------------------------------------------------------------------------
(* Invariance.                                                             *)

\* Nobody holds a map at first.
LEMMA InitIInv == Init => IInv
BY DEF Init, IInv, TypeOK, Holds, Owns, Shares, Done

\* A step of a loader leaves the variables of the others alone, and leaves
\* the path alone too unless it pins where nothing was, or unlinks its own pin.
LEMMA OthersKeep ==
  ASSUME IInv, NEW l \in Loaders, Load(l) \/ Kill(l)
  PROVE  /\ \A m \in Loaders : m # l =>
              /\ pc'[m] = pc[m] /\ fd'[m] = fd[m] /\ map_fd'[m] = map_fd[m]
              /\ pinned'[m] = pinned[m] /\ reused'[m] = reused[m]
         /\ \/ pin' = pin /\ unpinned' = unpinned
            \/ pin = NoMap /\ unpinned' = unpinned
            \/ /\ pin = l /\ pin' = NoMap /\ unpinned'
               /\ pc[l] = "progs" /\ pc'[l] = "failed"
<1>. USE DEF IInv, TypeOK, Goto
<1>1. CASE ReuseMap(l)
  BY <1>1 DEF ReuseMap
<1>2. CASE CreateMap(l)
  BY <1>2 DEF CreateMap
<1>3. CASE PinMap(l)
  BY <1>3 DEF PinMap
<1>4. CASE LoadProgs(l)
  BY <1>4 DEF LoadProgs, Owns
<1>5. CASE OpenPinned(l)
  BY <1>5 DEF OpenPinned
<1>6. CASE LoadObject(l)
  BY <1>6 DEF LoadObject
<1>7. CASE PinMaps(l)
  BY <1>7 DEF PinMaps
<1>8. CASE WarnNotSeen(l)
  BY <1>8 DEF WarnNotSeen
<1>9. CASE reuse_maps(l)
  BY <1>9 DEF reuse_maps
<1>10. CASE Kill(l)
  BY <1>10 DEF Kill
<1>. QED
  BY <1>1, <1>2, <1>3, <1>4, <1>5, <1>6, <1>7, <1>8, <1>9, <1>10 DEF Load

\* Every step keeps the types.
LEMMA TypeKept ==
  ASSUME IInv, NEW l \in Loaders, Load(l) \/ Kill(l)
  PROVE  TypeOK'
<1>. USE DEF IInv, TypeOK, Goto, Done
<1>1. CASE ReuseMap(l)
  <2>1. pc' \in [Loaders -> {"open", "create", "pin", "progs", "warn"} \cup Done]
    BY <1>1 DEF ReuseMap
  <2>2. /\ fd' \in [Loaders -> Loaders \cup {NoMap}]
        /\ map_fd' \in [Loaders -> Loaders \cup {NoMap}]
        /\ pin' \in Loaders \cup {NoMap}
    BY <1>1 DEF ReuseMap
  <2>3. pinned' \in [Loaders -> BOOLEAN] /\ reused' \in [Loaders -> BOOLEAN]
    BY <1>1 DEF ReuseMap
  <2>4. retried' \in [Loaders -> BOOLEAN] /\ warned' \in [Loaders -> BOOLEAN]
    BY <1>1 DEF ReuseMap
  <2>. QED
    BY <1>1, <2>1, <2>2, <2>3, <2>4 DEF ReuseMap
<1>2. CASE CreateMap(l)
  BY <1>2 DEF CreateMap
<1>3. CASE PinMap(l)
  <2>1. pc' \in [Loaders -> {"open", "create", "pin", "progs", "warn"} \cup Done]
    BY <1>3 DEF PinMap
  <2>2. /\ fd' \in [Loaders -> Loaders \cup {NoMap}]
        /\ map_fd' \in [Loaders -> Loaders \cup {NoMap}]
        /\ pin' \in Loaders \cup {NoMap}
    BY <1>3 DEF PinMap
  <2>3. pinned' \in [Loaders -> BOOLEAN] /\ reused' \in [Loaders -> BOOLEAN]
    BY <1>3 DEF PinMap
  <2>4. retried' \in [Loaders -> BOOLEAN] /\ warned' \in [Loaders -> BOOLEAN]
    BY <1>3 DEF PinMap
  <2>. QED
    BY <1>3, <2>1, <2>2, <2>3, <2>4 DEF PinMap
<1>4. CASE LoadProgs(l)
  BY <1>4 DEF LoadProgs
<1>5. CASE OpenPinned(l)
  <2>1. pc' \in [Loaders -> {"open", "create", "pin", "progs", "warn"} \cup Done]
    BY <1>5 DEF OpenPinned
  <2>2. /\ fd' \in [Loaders -> Loaders \cup {NoMap}]
        /\ map_fd' \in [Loaders -> Loaders \cup {NoMap}]
        /\ pin' \in Loaders \cup {NoMap}
    BY <1>5 DEF OpenPinned
  <2>3. pinned' \in [Loaders -> BOOLEAN] /\ reused' \in [Loaders -> BOOLEAN]
    BY <1>5 DEF OpenPinned
  <2>4. retried' \in [Loaders -> BOOLEAN] /\ warned' \in [Loaders -> BOOLEAN]
    BY <1>5 DEF OpenPinned
  <2>. QED
    BY <1>5, <2>1, <2>2, <2>3, <2>4 DEF OpenPinned
<1>6. CASE LoadObject(l)
  BY <1>6 DEF LoadObject
<1>7. CASE PinMaps(l)
  <2>1. pc' \in [Loaders -> {"open", "create", "pin", "progs", "warn"} \cup Done]
    BY <1>7 DEF PinMaps
  <2>2. /\ fd' \in [Loaders -> Loaders \cup {NoMap}]
        /\ map_fd' \in [Loaders -> Loaders \cup {NoMap}]
        /\ pin' \in Loaders \cup {NoMap}
    BY <1>7 DEF PinMaps
  <2>3. pinned' \in [Loaders -> BOOLEAN] /\ reused' \in [Loaders -> BOOLEAN]
    BY <1>7 DEF PinMaps
  <2>4. retried' \in [Loaders -> BOOLEAN] /\ warned' \in [Loaders -> BOOLEAN]
    BY <1>7 DEF PinMaps
  <2>. QED
    BY <1>7, <2>1, <2>2, <2>3, <2>4 DEF PinMaps
<1>8. CASE WarnNotSeen(l)
  <2>1. (map_fd[l] = NoMap) \in BOOLEAN
    OBVIOUS
  <2>2. warned' \in [Loaders -> BOOLEAN]
    BY <1>8, <2>1, Zenon DEF WarnNotSeen
  <2>. QED
    BY <1>8, <2>2 DEF WarnNotSeen
<1>9. CASE reuse_maps(l)
  <2>1. pc' \in [Loaders -> {"open", "create", "pin", "progs", "warn"} \cup Done]
    BY <1>9 DEF reuse_maps
  <2>2. /\ fd' \in [Loaders -> Loaders \cup {NoMap}]
        /\ map_fd' \in [Loaders -> Loaders \cup {NoMap}]
        /\ pin' \in Loaders \cup {NoMap}
    BY <1>9 DEF reuse_maps
  <2>3. pinned' \in [Loaders -> BOOLEAN] /\ reused' \in [Loaders -> BOOLEAN]
    BY <1>9 DEF reuse_maps
  <2>4. retried' \in [Loaders -> BOOLEAN] /\ warned' \in [Loaders -> BOOLEAN]
    BY <1>9 DEF reuse_maps
  <2>. QED
    BY <1>9, <2>1, <2>2, <2>3, <2>4 DEF reuse_maps
<1>10. CASE Kill(l)
  BY <1>10 DEF Kill
<1>. QED
  BY <1>1, <1>2, <1>3, <1>4, <1>5, <1>6, <1>7, <1>8, <1>9, <1>10 DEF Load

\* Every step leaves the loader that takes it in order.
LEMMA OwnKept ==
  ASSUME IInv, NEW l \in Loaders, Load(l) \/ Kill(l)
  PROVE  Holds(l)' /\ Owns(l)' /\ (~unpinned' => Shares(l)')
<1>. USE LoadersAssumption DEF IInv, TypeOK, Goto, Kinds, Holds, Owns, Shares, NoMap
<1>1. CASE ReuseMap(l)
  BY <1>1 DEF ReuseMap, map_is_reuse_compat
<1>2. CASE CreateMap(l)
  BY <1>2 DEF CreateMap
<1>3. CASE PinMap(l)
  BY <1>3 DEF PinMap
<1>4. CASE LoadProgs(l)
  BY <1>4 DEF LoadProgs
<1>5. CASE OpenPinned(l)
  BY <1>5 DEF OpenPinned
<1>6. CASE LoadObject(l)
  BY <1>6 DEF LoadObject
<1>7. CASE PinMaps(l)
  BY <1>7 DEF PinMaps
<1>8. CASE WarnNotSeen(l)
  BY <1>8 DEF WarnNotSeen
<1>9. CASE reuse_maps(l)
  BY <1>9 DEF reuse_maps
<1>10. CASE Kill(l)
  BY <1>10 DEF Kill
<1>. QED
  BY <1>1, <1>2, <1>3, <1>4, <1>5, <1>6, <1>7, <1>8, <1>9, <1>10 DEF Load

\* Every step keeps the invariant.
LEMMA NextIInv == IInv /\ [Next]_vars => IInv'
<1>. SUFFICES ASSUME IInv, [Next]_vars PROVE IInv'
  OBVIOUS
<1>1. CASE UNCHANGED vars
  BY <1>1 DEF vars, IInv, TypeOK, Holds, Owns, Shares
<1>2. ASSUME NEW l \in Loaders, Load(l) \/ Kill(l) PROVE IInv'
  <2>1. TypeOK'
    BY <1>2, TypeKept
  <2>2. Holds(l)' /\ Owns(l)' /\ (~unpinned' => Shares(l)')
    BY <1>2, OwnKept
  <2>3. ASSUME NEW m \in Loaders, m # l
        PROVE  Holds(m)' /\ Owns(m)' /\ (~unpinned' => Shares(m)')
    <3>1. /\ pc'[m] = pc[m] /\ fd'[m] = fd[m] /\ map_fd'[m] = map_fd[m]
          /\ pinned'[m] = pinned[m] /\ reused'[m] = reused[m]
      BY <1>2, <2>3, OthersKeep
    <3>2. \/ pin' = pin /\ unpinned' = unpinned
          \/ pin = NoMap /\ unpinned' = unpinned
          \/ pin = l /\ unpinned'
      BY <1>2, OthersKeep
    <3>. QED
      BY <2>3, <3>1, <3>2, LoadersAssumption DEF IInv, Holds, Owns, Shares, NoMap
  <2>. QED
    BY <2>1, <2>2, <2>3 DEF IInv
<1>. QED
  BY <1>1, <1>2 DEF Next

-----------------------------------------------------------------------------
(* The theorems.                                                           *)

\* Type correctness of the loaders' variables.
THEOREM TypeCorrect == Spec => []TypeOK
<1>1. IInv => TypeOK
  BY DEF IInv
<1>. QED
  BY <1>1, InitIInv, NextIInv, PTL DEF Spec

\* Loaders that report success use the map under the path, however they raced
\* to create it, until a failed load takes the pin away.
THEOREM LoadersShare == Spec => []LoadersShareThePin
<1>1. IInv => LoadersShareThePin
  BY DEF IInv, Shares, LoadersShareThePin
<1>. QED
  BY <1>1, InitIInv, NextIInv, PTL DEF Spec

\* libbpf never hands a program a map of another shape than declared.
THEOREM ReusedFits == Spec => []ReusedMapFits
<1>1. IInv => ReusedMapFits
  BY DEF IInv, Holds, ReusedMapFits
<1>. QED
  BY <1>1, InitIInv, NextIInv, PTL DEF Spec

\* The undo of bpf_object_load never unlinks a pin that another loader made.
THEOREM OwnPinOnly == Spec => OnlyOwnPinRemoved
<1>1. ASSUME IInv, Next, pin # NoMap, pin' = NoMap
      PROVE  pc[pin] # "failed" /\ pc'[pin] = "failed"
  <2>1. PICK l \in Loaders : Load(l) \/ Kill(l)
    BY <1>1 DEF Next
  <2>. QED
    BY <1>1, <2>1, OthersKeep
<1>2. IInv /\ [Next]_vars
        => [pin # NoMap /\ pin' = NoMap
              => pc[pin] # "failed" /\ pc'[pin] = "failed"]_vars
  BY <1>1
<1>. QED
  BY <1>2, InitIInv, NextIInv, PTL DEF Spec, OnlyOwnPinRemoved

=============================================================================
