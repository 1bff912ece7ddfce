------------------------------ MODULE XdpLink ------------------------------
(***************************************************************************)
(* The XDP hook of one interface and the processes that attach programs to *)
(* it and take them off: xdp_link_attach and xdp_link_detach of            *)
(* common_user_bpf_xdp.c.  Each netlink request is a step; between two     *)
(* requests of a process the others may change the link.                   *)
(*                                                                         *)
(* The kernel keeps one program per mode: generic ("skb"), native ("drv")  *)
(* and offloaded ("hw").  A process attaches its own program, so that a    *)
(* program is named after the process.                                     *)
(***************************************************************************)
EXTENDS FiniteSets

CONSTANTS
  Procs,      \* the processes, and the programs they load
  Supported   \* the modes the driver of the interface offers

Slots  == {"skb", "drv", "hw"}
NoProg == "none"

ASSUME LinkAssumption ==
  /\ "skb" \in Supported /\ Supported \subseteq Slots
  /\ NoProg \notin Procs

\* What a process is asked to do.  mode is the XDP_FLAGS_MODES part of
\* xdp_flags, "auto" for none; noexist is XDP_FLAGS_UPDATE_IF_NOEXIST;
\* expected is expected_prog_id, NoProg for 0.
Requests ==
  [call : {"xdp_link_attach"}, mode : Slots \cup {"auto"}, noexist : BOOLEAN,
   expected : {NoProg}]
  \cup
  [call : {"xdp_link_detach"}, mode : Slots \cup {"auto"}, noexist : {FALSE},
   expected : Procs \cup {NoProg}]

VARIABLES
  pc,            \* where each process is
  req,           \* what it was asked to do
  link,          \* the program in each slot of the interface
  curr_prog_id,  \* what bpf_get_link_xdp_id told the process
  emptied_by     \* history: the process whose request took off the last
                 \* program of the interface, the last time this happened

vars == <<pc, req, link, curr_prog_id, emptied_by>>

Done == {"EXIT_OK", "EXIT_FAIL", "EXIT_FAIL_XDP", "killed"}

Init ==
  /\ pc = [p \in Procs |-> "called"]
  /\ req \in [Procs -> Requests]
  /\ link = [s \in Slots |-> NoProg]
  /\ curr_prog_id = [p \in Procs |-> NoProg]
  /\ emptied_by = NoProg

Goto(p, l) == pc' = [pc EXCEPT ![p] = l]

Errors    == {"0", "EEXIST", "EBUSY", "EOPNOTSUPP", "EOTHER"}
Exit(err) == IF err = "0" THEN "EXIT_OK" ELSE "EXIT_FAIL_XDP"

-----------------------------------------------------------------------------
(* The kernel's side of bpf_set_link_xdp_fd and bpf_get_link_xdp_id.       *)

\* The slot a request is about.
SlotOf(mode) ==
  IF mode = "auto" THEN (IF "drv" \in Supported THEN "drv" ELSE "skb") ELSE mode

Opposite(s) == IF s = "skb" THEN "drv" ELSE "skb"

\* What the kernel says to a program for slot s (NoProg: take it off).  The
\* driver may not offer the mode; a generic and a native program exclude each
\* other; UPDATE_IF_NOEXIST does not replace a program.
Verdict(s, prog, noexist) ==
  IF s \notin Supported THEN "EOPNOTSUPP"
  ELSE IF prog # NoProg /\ s # "hw" /\ link[Opposite(s)] # NoProg THEN "EEXIST"
  ELSE IF prog # NoProg /\ noexist /\ link[s] # NoProg THEN "EBUSY"
  ELSE "0"

\* bpf_set_link_xdp_fd returns err: the kernel's word, or an error of the
\* request itself, before or after the kernel did what it was asked.
SetLink(s, prog, noexist, err) ==
  LET verdict == Verdict(s, prog, noexist)
  IN  /\ err \in {verdict, "EOTHER"}
      /\ \/ verdict = "0" /\ link' = [link EXCEPT ![s] = prog]
         \/ err # "0" /\ UNCHANGED link

Loaded == {s \in Slots : link[s] # NoProg}

\* The history of a request by process p.
Empties(p) ==
  emptied_by' = IF Loaded # {} /\ Loaded' = {} THEN p ELSE emptied_by

\* get_xdp_id: with one program its id, whatever mode was asked for; with
\* several (XDP_ATTACHED_MULTI) the one of the mode, and 0 for no mode.
GetXdpId(mode) ==
  IF Loaded = {} THEN NoProg
  ELSE IF Cardinality(Loaded) = 1 THEN link[CHOOSE s \in Loaded : TRUE]
  ELSE IF mode = "auto" THEN NoProg
  ELSE link[mode]

-----------------------------------------------------------------------------
(* xdp_link_attach.                                                        *)

\* Mutant of ForceAllowed: the flag is not looked at.
ForceAllowed_Always(p) == TRUE

ForceAllowed(p) == ~req[p].noexist

Attach(p) ==
  /\ pc[p] = "called" /\ req[p].call = "xdp_link_attach"
  /\ \E err \in Errors :
       /\ SetLink(SlotOf(req[p].mode), p, req[p].noexist, err)
       /\ Goto(p, IF err = "EEXIST" /\ ForceAllowed(p) THEN "unload" ELSE Exit(err))
  /\ Empties(p)
  /\ UNCHANGED <<req, curr_prog_id>>

\* Mutant of OppositeMode: a request without a mode is taken for generic.
OppositeMode_NotDrv(mode) == IF mode = "drv" THEN "skb" ELSE "drv"

\* (old_flags & XDP_FLAGS_SKB_MODE) ? XDP_FLAGS_DRV_MODE : XDP_FLAGS_SKB_MODE
OppositeMode(mode) == IF mode = "skb" THEN "drv" ELSE "skb"

\* bpf_set_link_xdp_fd(ifindex, -1, ...) in the opposite mode.
UnloadOpposite(p) ==
  /\ pc[p] = "unload"
  /\ \E err \in Errors :
       /\ SetLink(OppositeMode(req[p].mode), NoProg, FALSE, err)
       /\ Goto(p, IF err = "0" THEN "retry" ELSE Exit(err))
  /\ Empties(p)
  /\ UNCHANGED <<req, curr_prog_id>>

\* Mutant of AttachAgain: the result of the second attempt is not looked at.
AttachAgain_ErrLost(p) ==
  /\ pc[p] = "retry"
  /\ \E err \in Errors : SetLink(SlotOf(req[p].mode), p, req[p].noexist, err)
  /\ Goto(p, "EXIT_OK")
  /\ Empties(p)
  /\ UNCHANGED <<req, curr_prog_id>>

\* The second attempt, with the flags of the first; its error is final.
AttachAgain(p) ==
  /\ pc[p] = "retry"
  /\ \E err \in Errors :
       /\ SetLink(SlotOf(req[p].mode), p, req[p].noexist, err)
       /\ Goto(p, Exit(err))
  /\ Empties(p)
  /\ UNCHANGED <<req, curr_prog_id>>

-----------------------------------------------------------------------------
(* xdp_link_detach.                                                        *)

\* expected_prog_id && curr_prog_id != expected_prog_id
Mismatch(p, id) == req[p].expected # NoProg /\ id # req[p].expected

Query(p) ==
  LET id == GetXdpId(req[p].mode)
  IN  /\ pc[p] = "called" /\ req[p].call = "xdp_link_detach"
      /\ \/ Goto(p, "EXIT_FAIL_XDP") /\ UNCHANGED curr_prog_id
         \/ /\ curr_prog_id' = [curr_prog_id EXCEPT ![p] = id]
            /\ Goto(p, IF id = NoProg THEN "EXIT_OK"
                       ELSE IF Mismatch(p, id) THEN "EXIT_FAIL" ELSE "remove")
      /\ UNCHANGED <<req, link, emptied_by>>

Remove(p) ==
  /\ pc[p] = "remove"
  /\ \E err \in Errors :
       /\ SetLink(SlotOf(req[p].mode), NoProg, FALSE, err)
       /\ Goto(p, Exit(err))
  /\ Empties(p)
  /\ UNCHANGED <<req, curr_prog_id>>

-----------------------------------------------------------------------------
\* The process dies; the link keeps what it did.
Kill(p) ==
  /\ pc[p] \notin Done
  /\ Goto(p, "killed")
  /\ UNCHANGED <<req, link, curr_prog_id, emptied_by>>

xdp_link_attach(p) == Attach(p) \/ UnloadOpposite(p) \/ AttachAgain(p)
xdp_link_detach(p) == Query(p) \/ Remove(p)

Step(p) == xdp_link_attach(p) \/ xdp_link_detach(p)

Next == \E p \in Procs : Step(p) \/ Kill(p)

\* A process that is ready gets the processor.
Spec == Init /\ [][Next]_vars /\ \A p \in Procs : WF_vars(Step(p))

-----------------------------------------------------------------------------
(* Properties.                                                             *)

\* Every variable has its type.
TypeOK ==
  /\ pc \in [Procs -> {"called", "unload", "retry", "remove"} \cup Done]
  /\ req \in [Procs -> Requests]
  /\ link \in [Slots -> Procs \cup {NoProg}]
  /\ curr_prog_id \in [Procs -> Procs \cup {NoProg}]
  /\ emptied_by \in Procs \cup {NoProg}

\* A process that attaches with XDP_FLAGS_UPDATE_IF_NOEXIST displaces nobody's
\* program, in its own mode or in the opposite one: the fallback for a program
\* of the opposite type is not for it.
NoExistDisplacesNothing ==
  [][\A p \in Procs, s \in Slots :
       pc'[p] # pc[p] /\ req[p].noexist /\ link[s] # NoProg => link'[s] = link[s]]_vars

\* A forced attach empties a slot of the opposite mode only: in its own mode a
\* program is replaced in one request, and there is no moment without one.
SwapsInPlace ==
  [][\A p \in Procs, s \in Slots :
       (/\ pc'[p] # pc[p] /\ req[p].call = "xdp_link_attach"
        /\ link[s] # NoProg /\ link'[s] = NoProg)
       => s # SlotOf(req[p].mode)]_vars

\* The fallback of xdp_link_attach takes the program of the opposite mode off
\* before it attaches its own, which may fail, and others act in between.  If
\* that leaves the interface without a program, the process is about to attach
\* one, or was killed, or has reported an error: nobody who was asked to put a
\* program in has left the interface bare and said EXIT_OK.
LeftBareIsReported ==
  Loaded = {} /\ emptied_by # NoProg /\ req[emptied_by].call = "xdp_link_attach"
    => pc[emptied_by] \in {"retry", "EXIT_FAIL_XDP", "killed"}

\* What the message of xdp_link_detach promises, "expected prog ID(%d) no
\* match(%d), not removing": with an expected id no other program is removed.
RemovesOnlyExpected ==
  [][\A p \in Procs, s \in Slots :
       (/\ pc[p] = "remove" /\ pc'[p] # pc[p] /\ req[p].expected # NoProg
        /\ link'[s] # link[s])
       => link[s] = req[p].expected]_vars

=============================================================================
