------------------------------ MODULE TestEnv ------------------------------
(***************************************************************************)
(* testenv.sh: invocations of the script that set up, tear down, reset and *)
(* use test environments.  An environment is a network namespace, a veth   *)
(* interface of the same name and a state file that holds its prefix; the  *)
(* state directory also keeps the highest number handed out and the        *)
(* environment in use.  Nothing is locked: a step is one command of the    *)
(* script, and invocations that run at the same time interleave.           *)
(*                                                                         *)
(* `set -o errexit' ends the script at the first command that fails, and   *)
(* its EXIT trap (cleanup) runs whatever way it ends, except by SIGKILL.   *)
(* Every command that talks to the kernel may fail, an `ip ... del' of     *)
(* something that exists too.  A prefix is its number NUM, 0 when the      *)
(* variable or the state file does not hold one (yet).                     *)
(***************************************************************************)
EXTENDS Integers

CONSTANTS
  Procs,           \* invocations that may run at the same time
  Names,           \* names of environments
  MaxInvocations   \* bound: invocations in a behaviour

NoName == "none"
NoFile == -1

ASSUME TestEnvAssumption ==
  /\ NoName \notin Names
  /\ MaxInvocations \in Nat

\* "use" stands for exec, enter, ping, tcpdump, load, unload and stats, which
\* differ in the command they run; "use" and "status" change no environment.
Commands == {"setup", "teardown", "reset", "use", "status"}

VARIABLES
  dir,          \* STATEDIR exists
  highest_num,  \* the file of that name, 0 for none
  current,      \* the file of that name, NoName for none
  statefile,    \* the prefix in each environment's state file, NoFile for none
  netns, links, \* the kernel's network namespaces and outer interfaces
  pc, cmd, NS, IP6_PREFIX, NUM, CLEANUP_FUNC,  \* an invocation's variables
  started,      \* how many invocations there have been
  failed,       \* history: invocations whose deletions left something behind
  hurt,         \* history: environments an invocation left half done, when it
                \* was killed or interrupted or could not delete a part, and
                \* nobody has made whole since
  shared,       \* history: names that two invocations were changing at once
  overlapped    \* history: two invocations were running at once

files   == <<dir, highest_num, current, statefile>>
kernel  == <<netns, links>>
locals  == <<pc, cmd, NS, IP6_PREFIX, NUM, CLEANUP_FUNC>>
history == <<started, failed, hurt, shared, overlapped>>
vars    == <<files, kernel, locals, history>>

Init ==
  /\ dir = FALSE /\ highest_num = 0 /\ current = NoName
  /\ statefile = [n \in Names |-> NoFile]
  /\ netns = {} /\ links = {}
  /\ pc = [p \in Procs |-> "idle"]
  /\ cmd = [p \in Procs |-> "status"]
  /\ NS = [p \in Procs |-> NoName]
  /\ IP6_PREFIX = [p \in Procs |-> 0]
  /\ NUM = [p \in Procs |-> 0]
  /\ CLEANUP_FUNC = [p \in Procs |-> ""]
  /\ started = 0
  /\ failed = {} /\ hurt = {} /\ shared = {} /\ overlapped = FALSE

Exists(n)   == n \in Names /\ statefile[n] # NoFile
NoStateFile == \A n \in Names : ~Exists(n)

Goto(p, l) == pc' = [pc EXCEPT ![p] = l]

\* The script ends, and its variables with it.
End(p) ==
  /\ Goto(p, "idle")
  /\ cmd' = [cmd EXCEPT ![p] = "status"]
  /\ NS' = [NS EXCEPT ![p] = NoName]
  /\ IP6_PREFIX' = [IP6_PREFIX EXCEPT ![p] = 0]
  /\ NUM' = [NUM EXCEPT ![p] = 0]
  /\ CLEANUP_FUNC' = [CLEANUP_FUNC EXCEPT ![p] = ""]
  /\ failed' = failed \ {p}

\* Mutant of OnError: a teardown that fails in a reset leaves out the rest of
\* the deletions.
OnError_Return(p, l) == IF cmd[p] = "reset" THEN "rm statefile" ELSE "cleanup"

\* errexit: a command that fails ends the script, unless it runs on the left
\* of && as the whole teardown of a reset does.
OnError(p, l) == IF cmd[p] = "reset" THEN l ELSE "cleanup"

-----------------------------------------------------------------------------
(* Every command.                                                          *)

\* The options are parsed and check_prereq makes the state directory.
Start(p, c, name) ==
  /\ pc[p] = "idle" /\ started < MaxInvocations
  /\ dir' = TRUE
  /\ cmd' = [cmd EXCEPT ![p] = c]
  /\ NS' = [NS EXCEPT ![p] = name]
  /\ started' = started + 1
  /\ overlapped' = (overlapped \/ \E q \in Procs : pc[q] # "idle")
  /\ Goto(p, "get_nsname")
  /\ UNCHANGED <<highest_num, current, statefile, kernel, IP6_PREFIX, NUM,
                 CLEANUP_FUNC, failed, hurt, shared>>

\* The names get_nsname may come up with: the one given, else the current one,
\* else, for setup, a random one (always, with --gen-new).
NamesFor(p) ==
  IF NS[p] # NoName THEN {NS[p]}
  ELSE IF cmd[p] = "setup" THEN Names
  ELSE {current}

\* The invocation is one that may change an environment.
Changing(p) == pc[p] # "idle" /\ cmd[p] \in {"setup", "teardown", "reset"}

get_nsname(p) ==
  /\ pc[p] = "get_nsname"
  /\ \E n \in NamesFor(p) :
       /\ NS' = [NS EXCEPT ![p] = n]
       /\ shared' = IF \E q \in Procs \ {p} : Changing(p) /\ Changing(q) /\ NS[q] = n
                    THEN shared \cup {n} ELSE shared
  /\ Goto(p, CASE cmd[p] = "setup" -> "setup"
               [] cmd[p] = "status" -> "cleanup"
               [] OTHER -> "ensure_nsname")
  /\ UNCHANGED <<files, kernel, cmd, IP6_PREFIX, NUM, CLEANUP_FUNC,
                 started, failed, hurt, overlapped>>

\* The selected environment must exist and becomes the current one; its
\* variables, the prefix among them, are read from its state file.
Select(p) ==
  /\ Exists(NS[p])
  /\ current' = NS[p]
  /\ IP6_PREFIX' = [IP6_PREFIX EXCEPT ![p] = statefile[NS[p]]]

ensure_nsname(p) ==
  /\ pc[p] = "ensure_nsname"
  /\ \/ /\ Select(p)
        /\ IF cmd[p] = "use"
           THEN Goto(p, "cleanup") /\ UNCHANGED CLEANUP_FUNC
           ELSE /\ CLEANUP_FUNC' = [CLEANUP_FUNC EXCEPT ![p] = "cleanup_teardown"]
                /\ Goto(p, "link del")
     \/ /\ ~Exists(NS[p])
        /\ Goto(p, "cleanup")
        /\ UNCHANGED <<current, IP6_PREFIX, CLEANUP_FUNC>>
  /\ UNCHANGED <<dir, highest_num, statefile, kernel, cmd, NS, NUM, history>>

-----------------------------------------------------------------------------
(* setup.                                                                  *)

\* die "Environment for '$NS' already exists"
CheckNew(p) ==
  /\ pc[p] = "setup"
  /\ Goto(p, IF Exists(NS[p]) THEN "cleanup" ELSE "get_num")
  /\ UNCHANGED <<files, kernel, cmd, NS, IP6_PREFIX, NUM, CLEANUP_FUNC, history>>

\* get_num reads the file in one command and writes it in another.
ReadNum(p) ==
  /\ pc[p] = "get_num"
  /\ NUM' = [NUM EXCEPT ![p] = 1 + highest_num]
  /\ Goto(p, "put_num")
  /\ UNCHANGED <<files, kernel, cmd, NS, IP6_PREFIX, CLEANUP_FUNC, history>>

\* Mutant of WriteNum: the number is not written back.
WriteNum_NotKept(p) == UNCHANGED highest_num

\* Without the directory the write fails, and nobody looks: `local NUM=$(...)'
\* succeeds whatever get_num did.
WriteNum(p) == highest_num' = IF dir THEN NUM[p] ELSE highest_num

\* A reset has read the prefix of the environment it tore down and keeps it.
TakePrefix(p) ==
  /\ pc[p] = "put_num"
  /\ WriteNum(p)
  /\ IP6_PREFIX' = [IP6_PREFIX EXCEPT ![p] = IF @ = 0 THEN NUM[p] ELSE @]
  /\ CLEANUP_FUNC' = [CLEANUP_FUNC EXCEPT ![p] = "cleanup_setup"]
  /\ Goto(p, "netns add")
  /\ UNCHANGED <<dir, current, statefile, kernel, cmd, NS, NUM, history>>

\* ip netns add, which fails when the namespace exists.
NetnsAdd(p) ==
  /\ pc[p] = "netns add"
  /\ \/ NS[p] \notin netns /\ netns' = netns \cup {NS[p]} /\ Goto(p, "link add")
     \/ Goto(p, "cleanup") /\ UNCHANGED netns
  /\ UNCHANGED <<files, links, cmd, NS, IP6_PREFIX, NUM, CLEANUP_FUNC, history>>

\* ip link add, likewise; the peer goes into the namespace.
LinkAdd(p) ==
  /\ pc[p] = "link add"
  /\ \/ /\ NS[p] \notin links /\ NS[p] \in netns
        /\ links' = links \cup {NS[p]} /\ Goto(p, "configure")
     \/ Goto(p, "cleanup") /\ UNCHANGED links
  /\ UNCHANGED <<files, netns, cmd, NS, IP6_PREFIX, NUM, CLEANUP_FUNC, history>>

\* Addresses, routes, neighbours, VLAN interfaces: any of them may fail.
Configure(p) ==
  /\ pc[p] = "configure"
  /\ \/ NS[p] \in netns /\ NS[p] \in links /\ Goto(p, "write_statefile")
     \/ Goto(p, "cleanup")
  /\ UNCHANGED <<files, kernel, cmd, NS, IP6_PREFIX, NUM, CLEANUP_FUNC, history>>

\* write_statefile makes the file first ...
CreateStateFile(p) ==
  /\ pc[p] = "write_statefile"
  /\ \/ /\ dir
        /\ statefile' = [statefile EXCEPT ![NS[p]] = 0]
        /\ Goto(p, "fill")
     \/ ~dir /\ Goto(p, "cleanup") /\ UNCHANGED statefile
  /\ UNCHANGED <<dir, highest_num, current, kernel, cmd, NS, IP6_PREFIX, NUM,
                 CLEANUP_FUNC, history>>

\* ... and appends a line per variable; from here on nothing is taken back.
FillStateFile(p) ==
  /\ pc[p] = "fill"
  /\ \/ /\ dir
        /\ statefile' = [statefile EXCEPT ![NS[p]] = IP6_PREFIX[p]]
        /\ CLEANUP_FUNC' = [CLEANUP_FUNC EXCEPT ![p] = ""]
        /\ hurt' = hurt \ {NS[p]}
        /\ Goto(p, "run_ping")
     \/ ~dir /\ Goto(p, "cleanup") /\ UNCHANGED <<statefile, CLEANUP_FUNC, hurt>>
  /\ UNCHANGED <<dir, highest_num, current, kernel, cmd, NS, IP6_PREFIX, NUM,
                 started, failed, shared, overlapped>>

\* run_ping selects the environment anew; the ping itself may fail.
RunPing(p) ==
  /\ pc[p] = "run_ping"
  /\ \/ Select(p) /\ (Goto(p, "set current") \/ Goto(p, "cleanup"))
     \/ ~Exists(NS[p]) /\ Goto(p, "cleanup") /\ UNCHANGED <<current, IP6_PREFIX>>
  /\ UNCHANGED <<dir, highest_num, statefile, kernel, cmd, NS, NUM, CLEANUP_FUNC,
                 history>>

SetCurrent(p) ==
  /\ pc[p] = "set current"
  /\ current' = IF dir THEN NS[p] ELSE current
  /\ Goto(p, "cleanup")
  /\ UNCHANGED <<dir, highest_num, statefile, kernel, cmd, NS, IP6_PREFIX, NUM,
                 CLEANUP_FUNC, history>>

setup(p) ==
  \/ CheckNew(p) \/ ReadNum(p) \/ TakePrefix(p) \/ NetnsAdd(p) \/ LinkAdd(p)
  \/ Configure(p) \/ CreateStateFile(p) \/ FillStateFile(p) \/ RunPing(p)
  \/ SetCurrent(p)

-----------------------------------------------------------------------------
(* teardown, alone or as the first half of a reset.                        *)

\* A deletion fails, and things has what there was to delete.
Fails(p, things) == failed' = IF NS[p] \in things THEN failed \cup {p} ELSE failed \ {p}

LinkDel(p) ==
  /\ pc[p] = "link del"
  /\ \/ /\ NS[p] \in links /\ links' = links \ {NS[p]}
        /\ failed' = failed \ {p}
        /\ Goto(p, "netns del")
     \/ /\ UNCHANGED links
        /\ Fails(p, links)
        /\ Goto(p, OnError(p, "netns del"))
  /\ UNCHANGED <<files, netns, cmd, NS, IP6_PREFIX, NUM, CLEANUP_FUNC,
                 started, hurt, shared, overlapped>>

\* The namespace takes its end of the veth pair with it, and so the other end,
\* unless a process still lives in it.
DropNetns(n) ==
  /\ n \in netns /\ netns' = netns \ {n}
  /\ links' \in {links, links \ {n}}

\* An interface that could not be deleted may go this way; a teardown that
\* ends here has deleted the interface only.
NetnsDel(p) ==
  /\ pc[p] = "netns del"
  /\ \/ /\ DropNetns(NS[p])
        /\ failed' = IF NS[p] \in links' THEN failed ELSE failed \ {p}
        /\ Goto(p, "rm statefile")
        /\ UNCHANGED hurt
     \/ /\ UNCHANGED kernel
        /\ failed' = IF NS[p] \in netns THEN failed \cup {p} ELSE failed
        /\ Goto(p, OnError(p, "rm statefile"))
        /\ hurt' = hurt \cup {NS[p]}
  /\ UNCHANGED <<files, cmd, NS, IP6_PREFIX, NUM, CLEANUP_FUNC,
                 started, shared, overlapped>>

\* The state file goes, whatever could not be deleted.
RemoveStateFile(p) ==
  /\ statefile' = [statefile EXCEPT ![NS[p]] = NoFile]
  /\ hurt' = IF p \in failed THEN hurt \cup {NS[p]} ELSE hurt \ {NS[p]}

RmStateFile(p) ==
  /\ pc[p] = "rm statefile"
  /\ RemoveStateFile(p)
  /\ Goto(p, "rm current")
  /\ UNCHANGED <<dir, highest_num, current, kernel, cmd, NS, IP6_PREFIX, NUM,
                 CLEANUP_FUNC, started, failed, shared, overlapped>>

\* A reset goes on with setup.
RmCurrent(p) ==
  /\ pc[p] = "rm current"
  /\ current' = IF current = NS[p] THEN NoName ELSE current
  /\ CLEANUP_FUNC' = [CLEANUP_FUNC EXCEPT ![p] = ""]
  /\ Goto(p, IF cmd[p] = "reset" THEN "setup" ELSE "cleanup")
  /\ UNCHANGED <<dir, highest_num, statefile, kernel, cmd, NS, IP6_PREFIX, NUM,
                 history>>

teardown(p) == LinkDel(p) \/ NetnsDel(p) \/ RmStateFile(p) \/ RmCurrent(p)

-----------------------------------------------------------------------------
(* cleanup, the EXIT trap.                                                 *)

\* cleanup_setup takes back what there is under the name, its errors ignored;
\* cleanup_teardown only warns.
Cleanup(p) ==
  /\ pc[p] = "cleanup"
  /\ IF CLEANUP_FUNC[p] = "cleanup_setup"
     THEN /\ \/ DropNetns(NS[p]) /\ failed' = failed \ {p}
             \/ UNCHANGED kernel /\ Fails(p, netns)
          /\ Goto(p, "undo link")
     ELSE UNCHANGED <<kernel, failed>> /\ Goto(p, "statefiles")
  /\ UNCHANGED <<files, cmd, NS, IP6_PREFIX, NUM, CLEANUP_FUNC,
                 started, hurt, shared, overlapped>>

\* Mutant of UndoLink: the interface is left to the namespace.
UndoLink_NotDeleted(p) ==
  /\ pc[p] = "undo link"
  /\ Goto(p, "undo statefile")
  /\ UNCHANGED <<files, kernel, cmd, NS, IP6_PREFIX, NUM, CLEANUP_FUNC, history>>

UndoLink(p) ==
  /\ pc[p] = "undo link"
  /\ \/ links' = links \ {NS[p]} /\ UNCHANGED failed
     \/ NS[p] \in links /\ failed' = failed \cup {p} /\ UNCHANGED links
  /\ Goto(p, "undo statefile")
  /\ UNCHANGED <<files, netns, cmd, NS, IP6_PREFIX, NUM, CLEANUP_FUNC,
                 started, hurt, shared, overlapped>>

UndoStateFile(p) ==
  /\ pc[p] = "undo statefile"
  /\ RemoveStateFile(p)
  /\ Goto(p, "statefiles")
  /\ UNCHANGED <<dir, highest_num, current, kernel, cmd, NS, IP6_PREFIX, NUM,
                 CLEANUP_FUNC, started, failed, shared, overlapped>>

\* With no state file left, the other files go too ...
LookForStateFiles(p) ==
  /\ pc[p] = "statefiles"
  /\ IF dir /\ NoStateFile
     THEN /\ Goto(p, "rm files")
          /\ UNCHANGED <<cmd, NS, IP6_PREFIX, NUM, CLEANUP_FUNC, failed>>
     ELSE End(p)
  /\ UNCHANGED <<files, kernel, started, hurt, shared, overlapped>>

RmFiles(p) ==
  /\ pc[p] = "rm files"
  /\ highest_num' = 0 /\ current' = NoName
  /\ Goto(p, "rmdir")
  /\ UNCHANGED <<dir, statefile, kernel, cmd, NS, IP6_PREFIX, NUM, CLEANUP_FUNC,
                 history>>

\* ... and the directory, unless somebody has put a file there again.
RmDir(p) ==
  /\ pc[p] = "rmdir"
  /\ dir' = ~(NoStateFile /\ highest_num = 0 /\ current = NoName)
  /\ End(p)
  /\ UNCHANGED <<highest_num, current, statefile, kernel,
                 started, hurt, shared, overlapped>>

cleanup(p) ==
  \/ Cleanup(p) \/ UndoLink(p) \/ UndoStateFile(p)
  \/ LookForStateFiles(p) \/ RmFiles(p) \/ RmDir(p)

-----------------------------------------------------------------------------
CleanupSteps ==
  {"cleanup", "undo link", "undo statefile", "statefiles", "rm files", "rmdir"}

\* Where an invocation has changed some of an environment and not all of it;
\* the EXIT trap mends the second kind.
MidTeardown == {"netns del", "rm statefile"}
MidSetup    == {"link add", "configure", "write_statefile", "undo link", "undo statefile"}

\* Interrupted from the terminal: the script ends through its EXIT trap.
Interrupt(p) ==
  /\ pc[p] \notin CleanupSteps \cup {"idle"}
  /\ hurt' = IF pc[p] \in MidTeardown THEN hurt \cup {NS[p]} ELSE hurt
  /\ Goto(p, "cleanup")
  /\ UNCHANGED <<files, kernel, cmd, NS, IP6_PREFIX, NUM, CLEANUP_FUNC,
                 started, failed, shared, overlapped>>

\* SIGKILL, or an interrupt when the EXIT trap runs already, which does not run
\* it again: nothing more is done.
Kill(p) ==
  /\ pc[p] # "idle"
  /\ hurt' = IF \/ pc[p] \in MidTeardown \cup MidSetup
                \/ pc[p] = "cleanup" /\ CLEANUP_FUNC[p] = "cleanup_setup"
             THEN hurt \cup {NS[p]} ELSE hurt
  /\ End(p)
  /\ UNCHANGED <<files, kernel, started, shared, overlapped>>

Step(p) ==
  get_nsname(p) \/ ensure_nsname(p) \/ setup(p) \/ teardown(p) \/ cleanup(p)

Next ==
  \E p \in Procs :
    \/ \E c \in Commands, name \in Names \cup {NoName} : Start(p, c, name)
    \/ Step(p) \/ Interrupt(p) \/ Kill(p)

Spec == Init /\ [][Next]_vars

-----------------------------------------------------------------------------
(* Properties.                                                             *)

\* Environments that exist have different prefixes, so that they can be
\* reached side by side: the number survives killed set-ups, and a reset,
\* which keeps its prefix, is not overtaken by the numbers of others.
PrefixesUnique ==
  overlapped \/
    \A a, b \in Names :
      a # b /\ Exists(a) /\ statefile[a] = statefile[b] => statefile[a] = 0

\* Between invocations an environment exists whole (state file, namespace and
\* interface) or not at all, whatever set-up failed at and whatever ran at the
\* same time.  The warning of cleanup_teardown, "partial environment may be
\* left", is for what remains (hurt): the namespace could not be deleted when
\* the interface was gone, or an undo or a reset removed the state file of
\* something it could not delete, or the script was killed, or its teardown
\* interrupted, between the parts.  A teardown that fails at its first deletion
\* leaves the environment whole.  And what was left half done is whole again
\* after a set-up that fails or succeeds, a teardown or a reset, if they could
\* delete what they found.  Two invocations that change one environment at once
\* are left out (shared).
EnvironmentsWhole ==
  (\A p \in Procs : pc[p] = "idle") =>
    \A n \in Names \ (hurt \cup shared) :
      /\ n \in netns <=> Exists(n)
      /\ n \in links <=> Exists(n)

\* A reset never trips over what an earlier invocation left behind: when its
\* second half creates the namespace and the interface, the names are free,
\* unless its own deletions failed.  A teardown of such an environment fails at
\* its first command, again and again.
ResetMeetsNoLeftovers ==
  \A p \in Procs :
    cmd[p] = "reset" /\ NS[p] \notin shared /\ p \notin failed =>
      /\ pc[p] = "netns add" => NS[p] \notin netns
      /\ pc[p] \in {"netns add", "link add"} => NS[p] \notin links

=============================================================================
