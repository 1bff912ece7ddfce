--------------------------- MODULE XdpLinkProofs ---------------------------
(***************************************************************************)
(* Proofs about XdpLink: what attach and detach never do to the link, for  *)
(* any number of processes; and about XdpLoader, which builds on them:     *)
(* what the command line decides, for any command lines.                   *)
(***************************************************************************)
EXTENDS XdpLoader, FiniteSetTheorems, TLAPS

-----------------------------------------------------------------------------
(* The inductive invariant.                                                *)

\* A generic and a native program are never attached together.
Exclusive == link["skb"] = NoProg \/ link["drv"] = NoProg

\* A program is attached only in a mode that the driver offers.
Offered == \A s \in Slots : link[s] # NoProg => s \in Supported

\* How far a call has come says what it was: the fallback is reached without
\* UPDATE_IF_NOEXIST only, and for a mode that has an opposite.
Reached ==
  \A p \in Procs :
    /\ pc[p] \in {"unload", "retry"}
         => req[p].call = "xdp_link_attach" /\ ~req[p].noexist
    /\ pc[p] = "unload" => SlotOf(req[p].mode) # OppositeMode(req[p].mode)
    /\ pc[p] = "remove" => req[p].call = "xdp_link_detach"

Core == TypeOK /\ Exclusive /\ Offered /\ Reached

\* A process that has emptied the interface has made its request.
Acted == emptied_by # NoProg => pc[emptied_by] # "called"

IInv == Core /\ Acted /\ LeftBareIsReported

-----------------------------------------------------------------------------
(* The kernel's side.                                                      *)

\* The slots of a mode and of its opposite.
LEMMA SlotTypes ==
  \A mode \in Slots \cup {"auto"} :
    /\ SlotOf(mode) \in Slots
    /\ OppositeMode(mode) \in {"skb", "drv"}
    /\ SlotOf(mode) = OppositeMode(mode)
         => mode = "auto" /\ "drv" \notin Supported
BY DEF SlotOf, OppositeMode, Slots

\* A request changes one slot at most, to what was asked for, and only when
\* the kernel agreed.
LEMMA SetLinkChanges ==
  ASSUME TypeOK, NEW s \in Slots, NEW prog \in Procs \cup {NoProg},
         NEW noexist \in BOOLEAN, NEW err, SetLink(s, prog, noexist, err)
  PROVE  /\ link' \in [Slots -> Procs \cup {NoProg}]
         /\ \A t \in Slots : t # s => link'[t] = link[t]
         /\ link'[s] \in {link[s], prog}
         /\ link'[s] # link[s] => Verdict(s, prog, noexist) = "0"
BY DEF TypeOK, SetLink

\* A request keeps the two programs apart and the driver's word.
LEMMA SetLinkKeeps ==
  ASSUME TypeOK, Exclusive, Offered,
         NEW s \in Slots, NEW prog \in Procs \cup {NoProg},
         NEW noexist \in BOOLEAN, NEW err, SetLink(s, prog, noexist, err)
  PROVE  Exclusive' /\ Offered'
<1>1. /\ \A t \in Slots : t # s => link'[t] = link[t]
      /\ link'[s] \in {link[s], prog}
      /\ link'[s] # link[s] => Verdict(s, prog, noexist) = "0"
  BY SetLinkChanges
<1>2. CASE link'[s] = link[s]
  <2>1. \A t \in Slots : link'[t] = link[t]
    BY <1>1, <1>2
  <2>. QED
    BY <2>1 DEF Exclusive, Offered, Slots
<1>3. CASE link'[s] # link[s]
  <2>1. /\ s \in Supported
        /\ prog # NoProg /\ s # "hw" => link[Opposite(s)] = NoProg
        /\ link'[s] = prog
    BY <1>1, <1>3 DEF Verdict
  <2>2. Offered'
    BY <1>1, <2>1 DEF Offered
  <2>3. Exclusive'
    BY <1>1, <2>1 DEF Exclusive, Slots, Opposite
  <2>. QED
    BY <2>2, <2>3
<1>. QED
  BY <1>2, <1>3

\* The program of a request that the kernel refuses with EEXIST meets one in
\* the opposite mode, so that this mode is another one.
LEMMA RefusedForOpposite ==
  ASSUME TypeOK, Exclusive, Offered, NEW mode \in Slots \cup {"auto"},
         NEW prog \in Procs, NEW noexist \in BOOLEAN,
         SetLink(SlotOf(mode), prog, noexist, "EEXIST")
  PROVE  SlotOf(mode) # OppositeMode(mode)
<1>1. Verdict(SlotOf(mode), prog, noexist) = "EEXIST"
  BY DEF SetLink
<1>2. /\ SlotOf(mode) \in Supported /\ SlotOf(mode) # "hw"
      /\ link[Opposite(SlotOf(mode))] # NoProg
  BY <1>1 DEF Verdict
<1>3. SUFFICES ASSUME mode = "auto", "drv" \notin Supported
               PROVE  FALSE
  BY SlotTypes
<1>4. SlotOf(mode) = "skb"
  BY <1>3 DEF SlotOf
<1>. QED
  BY <1>2, <1>3, <1>4 DEF Offered, Opposite, Slots

-----------------------------------------------------------------------------
(* Invariance.                                                             *)

\* The parts of a request.
LEMMA RequestFields ==
  \A r \in Requests :
    /\ r.mode \in Slots \cup {"auto"} /\ r.noexist \in BOOLEAN
    /\ r.expected \in Procs \cup {NoProg}
    /\ r.call \in {"xdp_link_attach", "xdp_link_detach"}
    /\ r.call = "xdp_link_detach" => r.noexist = FALSE
BY DEF Requests

\* No process has called yet, and the link is empty.
LEMMA InitIInv == Init => IInv
BY LinkAssumption DEF Init, IInv, Core, Acted, LeftBareIsReported, TypeOK, Exclusive, Offered,
   Reached, Slots, Done

\* Every step keeps the types, the two programs apart and the stages of a call.
LEMMA NextCore == Core /\ [Next]_vars => Core'
<1>. SUFFICES ASSUME Core, [Next]_vars PROVE Core'
  OBVIOUS
<1>. USE DEF Core
<1>1. CASE UNCHANGED vars
  BY <1>1 DEF vars, TypeOK, Exclusive, Offered, Reached
<1>2. ASSUME NEW p \in Procs, Step(p) \/ Kill(p) PROVE Core'
  <2>0. /\ req[p] \in Requests /\ p \in Procs \cup {NoProg}
        /\ NoProg \in Procs \cup {NoProg} /\ FALSE \in BOOLEAN
    BY DEF TypeOK
  <2>1. /\ req[p].mode \in Slots \cup {"auto"} /\ req[p].noexist \in BOOLEAN
        /\ SlotOf(req[p].mode) \in Slots /\ OppositeMode(req[p].mode) \in Slots
    BY <2>0, RequestFields, SlotTypes DEF Slots
  <2>2. ASSUME Attach(p) PROVE Core'
    <3>1. PICK err \in Errors :
            /\ SetLink(SlotOf(req[p].mode), p, req[p].noexist, err)
            /\ Goto(p, IF err = "EEXIST" /\ ForceAllowed(p) THEN "unload" ELSE Exit(err))
      BY <2>2 DEF Attach
    <3>2. Exclusive' /\ Offered'
      BY <2>0, <2>1, <3>1, SetLinkKeeps
    <3>3. TypeOK'
      <4>1. link' \in [Slots -> Procs \cup {NoProg}]
        BY <2>0, <2>1, <3>1, SetLinkChanges
      <4>. QED
        BY <2>2, <3>1, <4>1 DEF Attach, TypeOK, Goto, Exit, Done, Empties
    <3>4. err = "EEXIST" => SlotOf(req[p].mode) # OppositeMode(req[p].mode)
      BY <2>1, <3>1, RefusedForOpposite
    <3>5. Reached'
      BY <2>2, <3>1, <3>4
      DEF Attach, Reached, TypeOK, Goto, Exit, ForceAllowed, Done
    <3>. QED
      BY <3>2, <3>3, <3>5
  <2>3. ASSUME UnloadOpposite(p) PROVE Core'
    <3>1. PICK err \in Errors :
            /\ SetLink(OppositeMode(req[p].mode), NoProg, FALSE, err)
            /\ Goto(p, IF err = "0" THEN "retry" ELSE Exit(err))
      BY <2>3 DEF UnloadOpposite
    <3>2. Exclusive' /\ Offered'
      BY <2>0, <2>1, <3>1, SetLinkKeeps
    <3>3. TypeOK'
      <4>1. link' \in [Slots -> Procs \cup {NoProg}]
        BY <2>0, <2>1, <3>1, SetLinkChanges
      <4>. QED
        BY <2>3, <3>1, <4>1 DEF UnloadOpposite, TypeOK, Goto, Exit, Done, Empties
    <3>4. Reached'
      BY <2>3, <3>1 DEF UnloadOpposite, Reached, TypeOK, Goto, Exit, Done
    <3>. QED
      BY <3>2, <3>3, <3>4
  <2>4. ASSUME AttachAgain(p) PROVE Core'
    <3>1. PICK err \in Errors :
            /\ SetLink(SlotOf(req[p].mode), p, req[p].noexist, err)
            /\ Goto(p, Exit(err))
      BY <2>4 DEF AttachAgain
    <3>2. Exclusive' /\ Offered'
      BY <2>0, <2>1, <3>1, SetLinkKeeps
    <3>3. TypeOK'
      <4>1. link' \in [Slots -> Procs \cup {NoProg}]
        BY <2>0, <2>1, <3>1, SetLinkChanges
      <4>. QED
        BY <2>4, <3>1, <4>1 DEF AttachAgain, TypeOK, Goto, Exit, Done, Empties
    <3>4. Reached'
      BY <2>4, <3>1 DEF AttachAgain, Reached, TypeOK, Goto, Exit, Done
    <3>. QED
      BY <3>2, <3>3, <3>4
  <2>5. ASSUME Query(p) PROVE Core'
    <3>1. GetXdpId(req[p].mode) \in Procs \cup {NoProg}
      BY <2>1 DEF GetXdpId, TypeOK, Loaded
    <3>2. TypeOK'
      BY <2>5, <3>1 DEF Query, TypeOK, Goto, Done
    <3>3. Reached'
      BY <2>5 DEF Query, Reached, TypeOK, Goto, Done
    <3>. QED
      BY <2>5, <3>2, <3>3 DEF Query, Exclusive, Offered
  <2>6. ASSUME Remove(p) PROVE Core'
    <3>1. PICK err \in Errors :
            /\ SetLink(SlotOf(req[p].mode), NoProg, FALSE, err)
            /\ Goto(p, Exit(err))
      BY <2>6 DEF Remove
    <3>2. Exclusive' /\ Offered'
      BY <2>0, <2>1, <3>1, SetLinkKeeps
    <3>3. TypeOK'
      <4>1. link' \in [Slots -> Procs \cup {NoProg}]
        BY <2>0, <2>1, <3>1, SetLinkChanges
      <4>. QED
        BY <2>6, <3>1, <4>1 DEF Remove, TypeOK, Goto, Exit, Done, Empties
    <3>4. Reached'
      BY <2>6, <3>1 DEF Remove, Reached, TypeOK, Goto, Exit, Done
    <3>. QED
      BY <3>2, <3>3, <3>4
  <2>7. ASSUME Kill(p) PROVE Core'
    BY <2>7 DEF Kill, Goto, TypeOK, Exclusive, Offered, Reached, Done
  <2>. QED
    BY <1>2, <2>2, <2>3, <2>4, <2>5, <2>6, <2>7
    DEF Step, xdp_link_attach, xdp_link_detach
<1>. QED
  BY <1>1, <1>2 DEF Next

\* A step of Next moves one process, and the link changes by its request.
LEMMA OneMoves ==
  ASSUME Core, NEW q \in Procs, Step(q) \/ Kill(q), NEW p \in Procs, pc'[p] # pc[p]
  PROVE  p = q
BY DEF Core, TypeOK, Step, Kill, xdp_link_attach, xdp_link_detach, Attach,
   UnloadOpposite, AttachAgain, Query, Remove, Goto

\* A program that is put in leaves the interface with one: the other slots
\* keep theirs, and the kernel's word "0" means that it is there.
LEMMA PutIn ==
  ASSUME TypeOK, NEW s \in Slots, NEW p \in Procs, NEW noexist \in BOOLEAN, NEW err,
         SetLink(s, p, noexist, err)
  PROVE  (Loaded # {} \/ err = "0") => Loaded' # {}
<1>1. p # NoProg
  BY LinkAssumption
<1>2. \/ link' = [link EXCEPT ![s] = p]
      \/ err # "0" /\ link' = link
  BY DEF SetLink
<1>3. CASE link' = [link EXCEPT ![s] = p]
  <2>1. link'[s] = p
    BY <1>3 DEF TypeOK
  <2>. QED
    BY <1>1, <2>1 DEF Loaded
<1>4. CASE err # "0" /\ link' = link
  BY <1>4 DEF Loaded
<1>. QED
  BY <1>2, <1>3, <1>4

\* A step that empties the interface is recorded as its process's.
LEMMA StaysBare ==
  ASSUME NEW p \in Procs, Step(p) \/ Kill(p), Loaded' = {}, emptied_by' # p
  PROVE  Loaded = {}
<1>1. link' = link => Loaded' = Loaded
  BY DEF Loaded
<1>2. Empties(p) \/ link' = link
  BY DEF Step, Kill, xdp_link_attach, xdp_link_detach, Attach, UnloadOpposite,
     AttachAgain, Query, Remove
<1>. QED
  BY <1>1, <1>2 DEF Empties

\* The process that has just moved has no bare interface to answer for.
LEMMA BareStep ==
  ASSUME IInv, NEW p \in Procs, Step(p) \/ Kill(p)
  PROVE  Acted' /\ LeftBareIsReported'
<1>1. Core /\ TypeOK /\ Reached /\ Acted /\ LeftBareIsReported
  BY DEF IInv, Core
<1>2. /\ req' = req /\ pc'[p] # "called"
      /\ emptied_by' = emptied_by \/ (emptied_by' = p /\ Loaded # {} /\ Loaded' = {})
      /\ \A q \in Procs : q # p => pc'[q] = pc[q]
  <2>1. pc'[p] # "called"
    BY <1>1 DEF TypeOK, Step, Kill, xdp_link_attach, xdp_link_detach, Attach,
       UnloadOpposite, AttachAgain, Query, Remove, Goto, Exit
  <2>2. req' = req /\ (emptied_by' = emptied_by \/ Empties(p))
    BY DEF Step, Kill, xdp_link_attach, xdp_link_detach, Attach, UnloadOpposite,
       AttachAgain, Query, Remove
  <2>. QED
    BY <1>1, <2>1, <2>2, OneMoves DEF Empties
<1>3. Acted'
  BY <1>1, <1>2 DEF Acted, TypeOK
<1>4. ASSUME Loaded' = {}, emptied_by' = p, req[p].call = "xdp_link_attach"
      PROVE  pc'[p] \in {"retry", "EXIT_FAIL_XDP", "killed"}
  <2>1. /\ SlotOf(req[p].mode) \in Slots /\ req[p].noexist \in BOOLEAN
    BY <1>1, RequestFields, SlotTypes DEF TypeOK
  <2>2. CASE Attach(p)
    <3>1. emptied_by # p
      BY <1>1, <2>2, LinkAssumption DEF Attach, Acted
    <3>2. PICK err \in Errors : SetLink(SlotOf(req[p].mode), p, req[p].noexist, err)
      BY <2>2 DEF Attach
    <3>3. Loaded # {} => Loaded' # {}
      BY <1>1, <2>1, <3>2, PutIn
    <3>. QED
      BY <1>2, <1>4, <3>1, <3>3
  <2>3. CASE UnloadOpposite(p)
    BY <1>1, <2>3 DEF UnloadOpposite, TypeOK, Goto, Exit
  <2>4. CASE AttachAgain(p)
    <3>1. PICK err \in Errors :
            /\ SetLink(SlotOf(req[p].mode), p, req[p].noexist, err)
            /\ Goto(p, Exit(err))
      BY <2>4 DEF AttachAgain
    <3>2. err # "0"
      BY <1>1, <1>4, <2>1, <3>1, PutIn
    <3>. QED
      BY <1>1, <3>1, <3>2 DEF TypeOK, Goto, Exit
  <2>5. CASE Kill(p)
    BY <1>1, <2>5 DEF Kill, TypeOK, Goto
  <2>6. ~Query(p) /\ ~Remove(p)
    BY <1>1, <1>4 DEF Query, Remove, Reached
  <2>. QED
    BY <2>2, <2>3, <2>4, <2>5, <2>6 DEF Step, xdp_link_attach, xdp_link_detach
<1>5. ASSUME Loaded' = {}, emptied_by' # NoProg, emptied_by' # p,
             req[emptied_by'].call = "xdp_link_attach"
      PROVE  pc'[emptied_by'] \in {"retry", "EXIT_FAIL_XDP", "killed"}
  <2>1. emptied_by' = emptied_by /\ emptied_by \in Procs
    BY <1>1, <1>2, <1>5 DEF TypeOK
  <2>2. Loaded = {}
    BY <1>5, <2>1, StaysBare
  <2>. QED
    BY <1>1, <1>2, <1>5, <2>1, <2>2 DEF LeftBareIsReported
<1>. QED
  BY <1>2, <1>3, <1>4, <1>5 DEF LeftBareIsReported

\* Every step keeps the invariant.
LEMMA NextIInv == IInv /\ [Next]_vars => IInv'
<1>1. ASSUME IInv, UNCHANGED vars PROVE Acted' /\ LeftBareIsReported'
  BY <1>1 DEF IInv, vars, Acted, LeftBareIsReported, Loaded
<1>. QED
  BY <1>1, NextCore, BareStep DEF IInv, Next

\* Every variable has its type, whatever the processes do to the link.
THEOREM TypeCorrect == Spec => []TypeOK
<1>1. IInv => TypeOK
  BY DEF IInv, Core
<1>. QED
  BY <1>1, InitIInv, NextIInv, PTL DEF Spec

-----------------------------------------------------------------------------
(* What a step never does.                                                 *)

\* A step of an attach sends one of two requests.
LEMMA AttachStep ==
  ASSUME IInv, NEW p \in Procs, Step(p) \/ Kill(p), req[p].call = "xdp_link_attach"
  PROVE  \/ UNCHANGED link
         \/ \E err : SetLink(SlotOf(req[p].mode), p, req[p].noexist, err)
         \/ /\ pc[p] = "unload"
            /\ \E err : SetLink(OppositeMode(req[p].mode), NoProg, FALSE, err)
BY DEF IInv, Core, Reached, Step, Kill, xdp_link_attach, xdp_link_detach, Attach,
   UnloadOpposite, AttachAgain, Query, Remove

\* A step of a process that attaches with XDP_FLAGS_UPDATE_IF_NOEXIST leaves
\* every program where it is.
LEMMA NoExistStep ==
  ASSUME IInv, [Next]_vars,
         NEW p \in Procs, NEW s \in Slots,
         pc'[p] # pc[p], req[p].noexist, link[s] # NoProg
  PROVE  link'[s] = link[s]
<1>1. PICK q \in Procs : Step(q) \/ Kill(q)
  BY DEF Next, vars
<1>2. Step(p) \/ Kill(p)
  BY <1>1, OneMoves DEF IInv
<1>3. TypeOK /\ Reached /\ req[p] \in Requests
  BY DEF IInv, Core, TypeOK
<1>4. req[p].call = "xdp_link_attach" /\ pc[p] # "unload"
  BY <1>3, RequestFields DEF Reached
<1>5. CASE \E err : SetLink(SlotOf(req[p].mode), p, req[p].noexist, err)
  <2>1. /\ SlotOf(req[p].mode) \in Slots /\ req[p].noexist \in BOOLEAN
        /\ p \in Procs \cup {NoProg} /\ p # NoProg
    BY <1>3, RequestFields, SlotTypes, LinkAssumption
  <2>2. /\ s # SlotOf(req[p].mode) => link'[s] = link[s]
        /\ link'[SlotOf(req[p].mode)] # link[SlotOf(req[p].mode)]
             => Verdict(SlotOf(req[p].mode), p, req[p].noexist) = "0"
    BY <1>3, <1>5, <2>1, SetLinkChanges
  <2>3. link[SlotOf(req[p].mode)] # NoProg
          => Verdict(SlotOf(req[p].mode), p, req[p].noexist) # "0"
    BY <2>1 DEF Verdict
  <2>. QED
    BY <2>2, <2>3
<1>. QED
  BY <1>2, <1>4, <1>5, AttachStep

\* XDP_FLAGS_UPDATE_IF_NOEXIST: xdp_link_attach displaces nobody's program.
THEOREM NoExistDisplaces == Spec => NoExistDisplacesNothing
<1>1. IInv /\ [Next]_vars
        => [\A p \in Procs, s \in Slots :
              pc'[p] # pc[p] /\ req[p].noexist /\ link[s] # NoProg
                => link'[s] = link[s]]_vars
  BY NoExistStep
<1>. QED
  BY <1>1, InitIInv, NextIInv, PTL DEF Spec, NoExistDisplacesNothing

\* A forced xdp_link_attach never empties the slot of its own mode.
THEOREM AttachSwapsInPlace == Spec => SwapsInPlace
<1>1. ASSUME IInv, [Next]_vars,
             NEW p \in Procs, NEW s \in Slots,
             pc'[p] # pc[p], req[p].call = "xdp_link_attach",
             link[s] # NoProg, link'[s] = NoProg
      PROVE  s # SlotOf(req[p].mode)
  <2>1. PICK q \in Procs : Step(q) \/ Kill(q)
    BY <1>1 DEF Next, vars
  <2>2. Step(p) \/ Kill(p)
    BY <1>1, <2>1, OneMoves DEF IInv
  <2>3. TypeOK /\ Reached /\ req[p] \in Requests
    BY <1>1 DEF IInv, Core, TypeOK
  <2>4. /\ SlotOf(req[p].mode) \in Slots /\ req[p].noexist \in BOOLEAN
        /\ OppositeMode(req[p].mode) \in Slots
        /\ p \in Procs \cup {NoProg} /\ p # NoProg
    BY <2>3, RequestFields, SlotTypes, LinkAssumption DEF Slots
  <2>5. CASE \E err : SetLink(SlotOf(req[p].mode), p, req[p].noexist, err)
    BY <1>1, <2>3, <2>4, <2>5, SetLinkChanges
  <2>6. CASE /\ pc[p] = "unload"
             /\ \E err : SetLink(OppositeMode(req[p].mode), NoProg, FALSE, err)
    <3>1. s = OppositeMode(req[p].mode)
      BY <1>1, <2>3, <2>4, <2>6, SetLinkChanges
    <3>. QED
      BY <2>3, <2>6, <3>1 DEF Reached
  <2>. QED
    BY <1>1, <2>2, <2>5, <2>6, AttachStep
<1>2. IInv /\ [Next]_vars
        => [\A p \in Procs, s \in Slots :
              (/\ pc'[p] # pc[p] /\ req[p].call = "xdp_link_attach"
               /\ link[s] # NoProg /\ link'[s] = NoProg)
              => s # SlotOf(req[p].mode)]_vars
  BY <1>1
<1>. QED
  BY <1>2, InitIInv, NextIInv, PTL DEF Spec, SwapsInPlace

-----------------------------------------------------------------------------
(* The inductive invariant of XdpLoader.                                   *)

\* Types, as far as the argument needs them.
LoaderTypes ==
  /\ argv \in [Procs -> Seq(Options)]
  /\ optind \in [Procs -> Nat \ {0}]
  /\ cfg \in [Procs -> [xdp_flags : SUBSET (Slots \cup {IF_NOEXIST}),
                        do_unload : BOOLEAN]]
  /\ stage \in [Procs -> {"options", "link", "exit"}]

\* Until its flags are complete a process has not touched the link.
NotCalled ==
  \A p \in Procs : stage[p] # "link" =>
    /\ pc[p] = "called"
    /\ \A s \in Slots : link[s] # p

\* The flag that protects other programs is there until --force is parsed.
Protected ==
  \A p \in Procs :
    IF_NOEXIST \in Default /\ ~Given(p, "F") => IF_NOEXIST \in cfg[p].xdp_flags

\* The mode is that of the last mode option parsed.
LastWins ==
  \A p \in Procs :
    /\ optind[p] - 1 <= Len(argv[p])
    /\ \A i \in 1 .. optind[p] - 1 :
         LastMode(p, i, optind[p] - 1)
           => ModeOf(cfg[p].xdp_flags) = ModeGiven(argv[p][i])
    /\ NoMode(p, optind[p] - 1) => ModeOf(cfg[p].xdp_flags) = ModeOf(Default)

\* The request is what the flags said when all options were parsed.
Asked ==
  \A p \in Procs : stage[p] = "link" =>
    /\ optind[p] - 1 = Len(argv[p])
    /\ req[p].mode = ModeOf(cfg[p].xdp_flags)
    /\ req[p].call = "xdp_link_attach"
         => req[p].noexist = (IF_NOEXIST \in cfg[p].xdp_flags)

\* A program is where its request put it.
Placed == \A p \in Procs, s \in Slots : link[s] = p => s = SlotOf(req[p].mode)

LInv ==
  /\ IInv /\ LoaderTypes /\ NotCalled /\ Protected /\ LastWins /\ Asked /\ Placed

-----------------------------------------------------------------------------
(* Flags.                                                                  *)

\* An option keeps the type of the flags.
LEMMA FlagsType ==
  ASSUME NEW flags \in SUBSET (Slots \cup {IF_NOEXIST}), NEW opt
  PROVE  Flags(flags, opt) \in SUBSET (Slots \cup {IF_NOEXIST})
BY DEF Flags, WithMode, XDP_FLAGS_MODES, Slots

\* Only --force takes IF_NOEXIST away.
LEMMA FlagsProtect ==
  ASSUME NEW flags \in SUBSET (Slots \cup {IF_NOEXIST}), NEW opt, opt # "F",
         IF_NOEXIST \in flags
  PROVE  IF_NOEXIST \in Flags(flags, opt)
BY DEF Flags, WithMode, XDP_FLAGS_MODES, Slots, IF_NOEXIST

\* The mode of flags with at most one mode bit.
LEMMA OneMode ==
  /\ \A flags : ModeOf(WithMode(flags, {})) = "auto"
  /\ \A flags, s : s \in Slots => ModeOf(WithMode(flags, {s})) = s
<1>1. ASSUME NEW flags PROVE ModeOf(WithMode(flags, {})) = "auto"
  <2>1. WithMode(flags, {}) \cap XDP_FLAGS_MODES = {}
    BY DEF WithMode
  <2>. QED
    BY <2>1 DEF ModeOf, ModeIn
<1>2. ASSUME NEW flags, NEW s \in Slots PROVE ModeOf(WithMode(flags, {s})) = s
  <2>1. WithMode(flags, {s}) \cap XDP_FLAGS_MODES = {s}
    BY DEF WithMode, XDP_FLAGS_MODES
  <2>. QED
    BY <2>1 DEF ModeOf, ModeIn
<1>. QED
  BY <1>1, <1>2

\* A mode option sets the mode, any other leaves it.
LEMMA FlagsMode ==
  ASSUME NEW flags, NEW opt
  PROVE  /\ opt \in ModeOptions => ModeOf(Flags(flags, opt)) = ModeGiven(opt)
         /\ opt \notin ModeOptions => ModeOf(Flags(flags, opt)) = ModeOf(flags)
<1>1. ASSUME opt \in ModeOptions PROVE ModeOf(Flags(flags, opt)) = ModeGiven(opt)
  BY <1>1, OneMode DEF Flags, ModeGiven, ModeOptions, Slots
<1>2. ASSUME opt \notin ModeOptions PROVE ModeOf(Flags(flags, opt)) = ModeOf(flags)
  <2>1. Flags(flags, opt) \cap XDP_FLAGS_MODES = flags \cap XDP_FLAGS_MODES
    BY <1>2 DEF Flags, ModeOptions, XDP_FLAGS_MODES, Slots, IF_NOEXIST
  <2>. QED
    BY <2>1 DEF ModeOf
<1>. QED
  BY <1>1, <1>2

\* ModeOf is a mode.
LEMMA ModeType == \A flags : ModeOf(flags) \in Slots \cup {"auto"}
<1>1. ASSUME NEW flags, flags \cap XDP_FLAGS_MODES # {}
      PROVE  (CHOOSE s \in flags \cap XDP_FLAGS_MODES : TRUE) \in Slots
  BY <1>1 DEF XDP_FLAGS_MODES
<1>. QED
  BY <1>1 DEF ModeOf, ModeIn

-----------------------------------------------------------------------------
(* Steps.                                                                  *)

\* No option is read yet.
LEMMA InitLInv == LoaderInit => LInv
<1>. SUFFICES ASSUME LoaderInit PROVE LInv
  OBVIOUS
<1>1. Init
  BY DEF LoaderInit
<1>2. IInv
  BY <1>1, InitIInv
<1>3. ASSUME NEW p \in Procs PROVE argv[p] \in Seq(Options)
  <2>1. argv[p] \in ArgLists(p)
    BY DEF LoaderInit
  <2>2. PICK n \in 0 .. MaxOptions[p] : argv[p] \in [1 .. n -> Options]
    BY <2>1 DEF ArgLists
  <2>3. n \in Nat
    BY LoaderAssumption
  <2>. QED
    BY <2>2, <2>3
<1>4. LoaderTypes
  <2>1. argv \in [Procs -> Seq(Options)]
    BY <1>3 DEF LoaderInit
  <2>2. Default \in SUBSET (Slots \cup {IF_NOEXIST})
    BY LoaderAssumption
  <2>. QED
    BY <2>1, <2>2 DEF LoaderInit, LoaderTypes
<1>5. NotCalled
  BY <1>1, LinkAssumption DEF Init, NotCalled
<1>6. Protected
  BY DEF LoaderInit, Protected
<1>7. LastWins
  BY <1>4 DEF LoaderInit, LoaderTypes, LastWins, LastMode, NoMode
<1>8. Asked /\ Placed
  BY <1>1, LinkAssumption DEF LoaderInit, Init, Asked, Placed
<1>. QED
  BY <1>2, <1>4, <1>5, <1>6, <1>7, <1>8 DEF LInv

\* Parsing one option.
LEMMA ParseKeeps ==
  ASSUME LInv, NEW p \in Procs, ParseOption(p)
  PROVE  LInv'
<1>. DEFINE opt == argv[p][optind[p]]
<1>1. /\ stage[p] = "options" /\ optind[p] <= Len(argv[p])
      /\ optind' = [optind EXCEPT ![p] = @ + 1]
      /\ UNCHANGED <<pc, req, link, curr_prog_id, emptied_by, argv>>
  BY DEF ParseOption, vars
<1>2. \/ /\ cfg' = [cfg EXCEPT ![p] = [xdp_flags |-> Flags(@.xdp_flags, opt),
                                      do_unload |-> @.do_unload \/ opt = "U"]]
         /\ UNCHANGED stage
      \/ /\ opt \in MayFail
         /\ stage' = [stage EXCEPT ![p] = "exit"]
         /\ UNCHANGED cfg
  BY DEF ParseOption
<1>3. LoaderTypes /\ optind[p] \in 1 .. Len(argv[p]) /\ DOMAIN argv[p] = 1 .. Len(argv[p])
  BY <1>1 DEF LInv, LoaderTypes
<1>4. opt = "F" => Given(p, "F")
  BY <1>3 DEF Given
<1>5. cfg[p].xdp_flags \in SUBSET (Slots \cup {IF_NOEXIST}) /\ cfg[p].do_unload \in BOOLEAN
  BY <1>3 DEF LoaderTypes
<1>. HIDE DEF opt
<1>6. LoaderTypes'
  <2>1. optind' \in [Procs -> Nat \ {0}]
    BY <1>1, <1>3 DEF LoaderTypes
  <2>2. cfg' \in [Procs -> [xdp_flags : SUBSET (Slots \cup {IF_NOEXIST}),
                           do_unload : BOOLEAN]]
    <3>. DEFINE Config == [xdp_flags : SUBSET (Slots \cup {IF_NOEXIST}),
                           do_unload : BOOLEAN]
                new == [xdp_flags |-> Flags(cfg[p].xdp_flags, opt),
                        do_unload |-> cfg[p].do_unload \/ opt = "U"]
    <3>1. new \in Config
      BY <1>5, FlagsType
    <3>2. cfg \in [Procs -> Config]
      BY <1>3 DEF LoaderTypes
    <3>3. cfg' = [cfg EXCEPT ![p] = new] \/ cfg' = cfg
      BY <1>2
    <3>. HIDE DEF Config, new
    <3>4. cfg' \in [Procs -> Config]
      BY <3>1, <3>2, <3>3
    <3>. QED
      BY <3>4 DEF Config
  <2>3. stage' \in [Procs -> {"options", "link", "exit"}]
    BY <1>2, <1>3 DEF LoaderTypes
  <2>. QED
    BY <1>1, <1>3, <2>1, <2>2, <2>3 DEF LoaderTypes
<1>7. \A q \in Procs :
        /\ q # p => cfg'[q] = cfg[q] /\ optind'[q] = optind[q] /\ stage'[q] = stage[q]
        /\ stage'[q] = "link" => stage[q] = "link" /\ q # p
        /\ stage'[q] # "link" => stage[q] # "link"
  BY <1>1, <1>2, <1>3 DEF LoaderTypes
<1>8. IInv' /\ Placed'
  BY <1>1, NextIInv DEF LInv, vars, Placed
<1>9. NotCalled' /\ Asked'
  BY <1>1, <1>7 DEF LInv, NotCalled, Asked
<1>10. /\ optind'[p] = optind[p] + 1
       /\ \/ cfg'[p].xdp_flags = Flags(cfg[p].xdp_flags, opt)
          \/ opt \in MayFail /\ cfg'[p].xdp_flags = cfg[p].xdp_flags
  BY <1>1, <1>2, <1>3 DEF LoaderTypes
<1>11. Protected'
  <2>1. IF_NOEXIST \in cfg[p].xdp_flags /\ opt # "F" => IF_NOEXIST \in cfg'[p].xdp_flags
    BY <1>5, <1>10, FlagsProtect
  <2>. QED
    BY <1>1, <1>4, <1>7, <2>1 DEF LInv, Protected, Given
<1>12. LastWins'
  <2>1. /\ opt \in ModeOptions => ModeOf(cfg'[p].xdp_flags) = ModeGiven(opt)
        /\ opt \notin ModeOptions => ModeOf(cfg'[p].xdp_flags) = ModeOf(cfg[p].xdp_flags)
    BY <1>10, FlagsMode DEF MayFail, Exits, ModeOptions
  <2>2. ASSUME NEW i \in 1 .. optind[p], LastMode(p, i, optind[p])
        PROVE  ModeOf(cfg'[p].xdp_flags) = ModeGiven(argv[p][i])
    <3>1. CASE i = optind[p]
      BY <2>1, <2>2, <3>1 DEF LastMode, opt
    <3>2. CASE i # optind[p]
      <4>1. i \in 1 .. optind[p] - 1 /\ optind[p] \in i + 1 .. optind[p]
        BY <1>3, <3>2
      <4>2. opt \notin ModeOptions /\ LastMode(p, i, optind[p] - 1)
        BY <1>3, <2>2, <4>1 DEF LastMode, opt
      <4>. QED
        BY <2>1, <4>1, <4>2 DEF LInv, LastWins
    <3>. QED
      BY <3>1, <3>2
  <2>3. ASSUME NoMode(p, optind[p]) PROVE ModeOf(cfg'[p].xdp_flags) = ModeOf(Default)
    <3>1. opt \notin ModeOptions /\ NoMode(p, optind[p] - 1)
      BY <1>3, <2>3 DEF NoMode, opt
    <3>. QED
      BY <2>1, <3>1 DEF LInv, LastWins
  <2>4. optind'[p] - 1 = optind[p] /\ optind[p] <= Len(argv[p])
    BY <1>3, <1>10
  <2>5. ASSUME NEW q \in Procs
        PROVE  /\ optind'[q] - 1 <= Len(argv[q])
               /\ \A i \in 1 .. optind'[q] - 1 :
                    LastMode(q, i, optind'[q] - 1)
                      => ModeOf(cfg'[q].xdp_flags) = ModeGiven(argv[q][i])
               /\ NoMode(q, optind'[q] - 1) => ModeOf(cfg'[q].xdp_flags) = ModeOf(Default)
    <3>1. CASE q = p
      BY <2>2, <2>3, <2>4, <3>1
    <3>2. CASE q # p
      BY <1>7, <3>2 DEF LInv, LastWins
    <3>. QED
      BY <3>1, <3>2
  <2>. QED
    BY <1>1, <2>5 DEF LastWins, LastMode, NoMode
<1>. QED
  BY <1>6, <1>8, <1>9, <1>11, <1>12 DEF LInv

\* A process that finds no memory for its options has asked for nothing.
LEMMA MemoryKeeps ==
  ASSUME LInv, NEW p \in Procs, OutOfMemory(p)
  PROVE  LInv'
<1>1. /\ stage[p] = "options" /\ stage' = [stage EXCEPT ![p] = "exit"]
      /\ UNCHANGED vars /\ UNCHANGED <<pc, req, link, argv, optind, cfg>>
  BY DEF OutOfMemory, vars
<1>2. IInv'
  BY <1>1, NextIInv DEF LInv
<1>3. LoaderTypes' /\ NotCalled' /\ Asked'
  BY <1>1 DEF LInv, LoaderTypes, NotCalled, Asked
<1>4. Protected' /\ LastWins' /\ Placed'
  BY <1>1 DEF LInv, Protected, LastWins, LastMode, NoMode, Given, Placed
<1>. QED
  BY <1>2, <1>3, <1>4 DEF LInv

\* All options are parsed, and the request is made up of the flags.
LEMMA CallKeeps ==
  ASSUME LInv, NEW p \in Procs, load_bpf_and_xdp_attach(p) \/ DoUnload(p)
  PROVE  LInv'
<1>1. /\ Parsed(p)
      /\ UNCHANGED <<pc, link, curr_prog_id, emptied_by, argv, optind, cfg>>
      /\ \/ stage' = [stage EXCEPT ![p] = "exit"] /\ UNCHANGED req
         \/ /\ stage' = [stage EXCEPT ![p] = "link"]
            /\ \/ req' = [req EXCEPT ![p] =
                     [call |-> "xdp_link_attach", mode |-> ModeOf(cfg[p].xdp_flags),
                      noexist |-> IF_NOEXIST \in cfg[p].xdp_flags, expected |-> NoProg]]
               \/ \E id \in Procs \cup {NoProg} :
                    req' = [req EXCEPT ![p] =
                     [call |-> "xdp_link_detach", mode |-> ModeOf(cfg[p].xdp_flags),
                      noexist |-> FALSE, expected |-> id]]
  BY DEF load_bpf_and_xdp_attach, DoUnload
<1>2. LoaderTypes /\ TypeOK /\ pc[p] = "called" /\ (\A s \in Slots : link[s] # p)
      /\ optind[p] - 1 = Len(argv[p])
  BY <1>1 DEF LInv, IInv, Core, Parsed, NotCalled, LoaderTypes, LastWins
<1>3. \A q \in Procs : q # p => req'[q] = req[q] /\ stage'[q] = stage[q]
  BY <1>1, <1>2 DEF LoaderTypes, TypeOK
<1>4. stage'[p] = "link" =>
        /\ req'[p].mode = ModeOf(cfg[p].xdp_flags)
        /\ req'[p].call = "xdp_link_attach"
             => req'[p].noexist = (IF_NOEXIST \in cfg[p].xdp_flags)
  BY <1>1, <1>2 DEF LoaderTypes, TypeOK
<1>5. req' \in [Procs -> Requests]
  <2>1. ModeOf(cfg[p].xdp_flags) \in Slots \cup {"auto"}
    BY ModeType
  <2>2. PICK r \in Requests : req' = [req EXCEPT ![p] = r] \/ req' = req
    <3>1. ASSUME NEW id \in Procs \cup {NoProg}, NEW f \in BOOLEAN
          PROVE  /\ [call |-> "xdp_link_attach", mode |-> ModeOf(cfg[p].xdp_flags),
                     noexist |-> f, expected |-> NoProg] \in Requests
                 /\ [call |-> "xdp_link_detach", mode |-> ModeOf(cfg[p].xdp_flags),
                     noexist |-> FALSE, expected |-> id] \in Requests
      BY <2>1 DEF Requests
    <3>2. (IF_NOEXIST \in cfg[p].xdp_flags) \in BOOLEAN
      OBVIOUS
    <3>. QED
      BY <1>1, <3>1, <3>2, Zenon
  <2>3. req \in [Procs -> Requests]
    BY <1>2 DEF TypeOK
  <2>. QED
    BY <2>2, <2>3
<1>6. IInv'
  <2>1. TypeOK'
    BY <1>1, <1>2, <1>5 DEF TypeOK
  <2>2. Reached'
    BY <1>1, <1>2, <1>3 DEF LInv, IInv, Core, Reached
  <2>3. Acted' /\ LeftBareIsReported'
    <3>1. emptied_by # p /\ (emptied_by # NoProg => emptied_by \in Procs)
      BY <1>2, LinkAssumption DEF LInv, IInv, Acted, TypeOK
    <3>2. Loaded' = Loaded
      BY <1>1 DEF Loaded
    <3>. QED
      BY <1>1, <1>3, <3>1, <3>2 DEF LInv, IInv, Acted, LeftBareIsReported
  <2>. QED
    BY <1>1, <2>1, <2>2, <2>3 DEF LInv, IInv, Core, Exclusive, Offered
<1>7. LoaderTypes' /\ NotCalled' /\ Protected' /\ LastWins'
  <2>1. LoaderTypes'
    BY <1>1, <1>2 DEF LoaderTypes
  <2>2. NotCalled'
    BY <1>1, <1>2, <1>3 DEF LInv, NotCalled
  <2>3. Protected' /\ LastWins'
    BY <1>1 DEF LInv, Protected, LastWins, LastMode, NoMode, Given
  <2>. QED
    BY <2>1, <2>2, <2>3
<1>8. Asked' /\ Placed'
  BY <1>1, <1>2, <1>3, <1>4 DEF LInv, Asked, Placed
<1>. QED
  BY <1>6, <1>7, <1>8 DEF LInv

\* A step on the link puts the process's own program where it asked for, or
\* takes one off.
LEMMA LinkStep ==
  ASSUME LInv, NEW p \in Procs, Step(p) \/ Kill(p), NEW s \in Slots
  PROVE  \/ link'[s] = link[s] \/ link'[s] = NoProg
         \/ link'[s] = p /\ s = SlotOf(req[p].mode)
<1>1. /\ TypeOK /\ req[p] \in Requests /\ SlotOf(req[p].mode) \in Slots
      /\ OppositeMode(req[p].mode) \in Slots /\ req[p].noexist \in BOOLEAN
      /\ p \in Procs \cup {NoProg} /\ NoProg \in Procs \cup {NoProg} /\ FALSE \in BOOLEAN
  <2>1. TypeOK /\ req[p] \in Requests
    BY DEF LInv, IInv, Core, TypeOK
  <2>. QED
    BY <2>1, RequestFields, SlotTypes DEF Slots
<1>2. \/ UNCHANGED link
      \/ \E err : SetLink(SlotOf(req[p].mode), p, req[p].noexist, err)
      \/ \E err : SetLink(OppositeMode(req[p].mode), NoProg, FALSE, err)
      \/ \E err : SetLink(SlotOf(req[p].mode), NoProg, FALSE, err)
  BY DEF Step, Kill, xdp_link_attach, xdp_link_detach, Attach, UnloadOpposite,
     AttachAgain, Query, Remove
<1>3. CASE UNCHANGED link
  BY <1>3
<1>4. CASE \E err : SetLink(SlotOf(req[p].mode), p, req[p].noexist, err)
  BY <1>1, <1>4, SetLinkChanges
<1>5. CASE \E err : SetLink(OppositeMode(req[p].mode), NoProg, FALSE, err)
  BY <1>1, <1>5, SetLinkChanges
<1>6. CASE \E err : SetLink(SlotOf(req[p].mode), NoProg, FALSE, err)
  BY <1>1, <1>6, SetLinkChanges
<1>. QED
  BY <1>2, <1>3, <1>4, <1>5, <1>6

\* The link's steps take the configuration as it is.
LEMMA LinkKeeps ==
  ASSUME LInv, NEW p \in Procs, Link(p)
  PROVE  LInv'
<1>1. /\ stage[p] = "link" /\ (Step(p) \/ Kill(p))
      /\ UNCHANGED <<argv, optind, cfg, stage>>
  BY DEF Link, loaderVars
<1>2. UNCHANGED req
  BY <1>1 DEF Step, Kill, xdp_link_attach, xdp_link_detach, Attach, UnloadOpposite,
     AttachAgain, Query, Remove
<1>3. IInv'
  BY <1>1, NextIInv DEF LInv, Next
<1>4. \A q \in Procs : q # p => pc'[q] = pc[q]
  BY <1>1, OneMoves DEF LInv, IInv
<1>5. NotCalled' /\ Placed'
  BY <1>1, <1>2, <1>4, LinkStep, LinkAssumption DEF LInv, NotCalled, Placed
<1>6. LoaderTypes' /\ Protected' /\ LastWins' /\ Asked'
  BY <1>1, <1>2
     DEF LInv, LoaderTypes, Protected, LastWins, LastMode, NoMode, Given, Asked
<1>. QED
  BY <1>3, <1>5, <1>6 DEF LInv

\* Every step of every loader keeps the invariant.
LEMMA NextLInv == LInv /\ [LoaderNext]_<<vars, loaderVars>> => LInv'
<1>1. ASSUME LInv, UNCHANGED <<vars, loaderVars>> PROVE LInv'
  <2>1. IInv'
    BY <1>1, NextIInv DEF LInv
  <2>2. UNCHANGED <<pc, req, link, argv, optind, cfg, stage>>
    BY <1>1 DEF vars, loaderVars
  <2>. QED
    BY <1>1, <2>1, <2>2 DEF LInv, LoaderTypes, NotCalled, Protected, LastWins, LastMode,
       NoMode, Given, Asked, Placed
<1>. QED
  BY <1>1, MemoryKeeps, ParseKeeps, CallKeeps, LinkKeeps DEF LoaderNext

-----------------------------------------------------------------------------
(* Theorems.                                                               *)

\* What parse_cmdline_args makes of the mode options: the program is attached
\* in the mode of the last one.
THEOREM LastModeDecides == LoaderSpec => []AttachedInLastMode
<1>1. LInv => AttachedInLastMode
  <2>1. ASSUME LInv, NEW p \in Procs, NEW s \in Slots, link[s] = p
        PROVE  /\ stage[p] = "link" /\ optind[p] - 1 = Len(argv[p])
               /\ s = SlotOf(ModeOf(cfg[p].xdp_flags))
    BY <2>1 DEF LInv, NotCalled, Asked, Placed
  <2>. QED
    BY <2>1 DEF LInv, LastWins, AttachedInLastMode
<1>. QED
  BY <1>1, InitLInv, NextLInv, PTL DEF LoaderSpec

\* What the fallback of xdp_link_attach leaves: an interface that an attach has
\* left without a program is one whose process is about to attach, was killed
\* or has reported an error, for any number of processes and in any mode.
THEOREM BareReported == LoaderSpec => []LeftBareIsReported
<1>1. LInv => LeftBareIsReported
  BY DEF LInv, IInv
<1>. QED
  BY <1>1, InitLInv, NextLInv, PTL DEF LoaderSpec

\* From the command line to the kernel: without --force xdp_link_attach takes
\* no program off the link, in any mode, for any number of processes.
THEOREM ForceDisplaces == LoaderSpec => OnlyForceDisplaces
<1>1. ASSUME LInv, [LoaderNext]_<<vars, loaderVars>>,
             NEW p \in Procs, NEW s \in Slots,
             IF_NOEXIST \in Default, ~Given(p, "F"), req[p].call = "xdp_link_attach",
             pc'[p] # pc[p], link[s] # NoProg
      PROVE  link'[s] = link[s]
  <2>1. PICK q \in Procs : Link(q)
    BY <1>1 DEF LoaderNext, vars, OutOfMemory, ParseOption, load_bpf_and_xdp_attach, DoUnload
  <2>2. Next /\ IInv
    BY <1>1, <2>1 DEF Link, Next, LInv
  <2>3. q = p
    BY <1>1, <2>1, <2>2, OneMoves DEF Link, IInv
  <2>4. req[p].noexist
    BY <1>1, <2>1, <2>3 DEF Link, LInv, Protected, Asked
  <2>. QED
    BY <1>1, <2>2, <2>4, NoExistStep
<1>2. LInv /\ [LoaderNext]_<<vars, loaderVars>>
        => [\A p \in Procs, s \in Slots :
              (/\ IF_NOEXIST \in Default /\ ~Given(p, "F")
               /\ req[p].call = "xdp_link_attach" /\ pc'[p] # pc[p] /\ link[s] # NoProg)
              => link'[s] = link[s]]_<<vars, loaderVars>>
  BY <1>1
<1>. QED
  BY <1>2, InitLInv, NextLInv, PTL DEF LoaderSpec, OnlyForceDisplaces

=============================================================================
