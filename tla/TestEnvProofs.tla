--------------------------- MODULE TestEnvProofs ---------------------------
(***************************************************************************)
(* Proofs about TestEnv, for any number of invocations of testenv.sh and   *)
(* of environments: an environment is whole or absent between invocations, *)
(* a reset meets no leftovers, and prefixes are unique.                    *)
(***************************************************************************)
EXTENDS TestEnv, TLAPS

-----------------------------------------------------------------------------
(* The inductive invariant.                                                *)

Before    == {"idle", "get_nsname", "ensure_nsname"}
Preparing == {"setup", "get_num", "put_num"}
Building  == {"netns add", "link add", "configure", "write_statefile", "fill"}
Tearing   == {"link del", "netns del", "rm statefile", "rm current"}
Undoing   == {"undo link", "undo statefile"}
Ending    == {"run_ping", "set current"}
Leaving   == {"cleanup", "statefiles", "rm files", "rmdir"}
Labels    ==
  Before \cup Preparing \cup Building \cup Tearing \cup Undoing \cup Ending \cup Leaving

Types ==
  /\ pc \in [Procs -> Labels]
  /\ cmd \in [Procs -> Commands]
  /\ NS \in [Procs -> Names \cup {NoName}]
  /\ CLEANUP_FUNC \in [Procs -> {"", "cleanup_setup", "cleanup_teardown"}]
  /\ statefile \in [Names -> Nat \cup {NoFile}]
  /\ IP6_PREFIX \in [Procs -> Nat]
  /\ NUM \in [Procs -> Nat]
  /\ highest_num \in Nat
  /\ current \in Names \cup {NoName}

\* What an invocation's place in the script says of its variables.
Local(p) ==
  /\ pc[p] \in Before \cup Preparing \cup Ending => CLEANUP_FUNC[p] = ""
  /\ pc[p] \in Building \cup Undoing => CLEANUP_FUNC[p] = "cleanup_setup"
  /\ pc[p] \in Tearing => CLEANUP_FUNC[p] = "cleanup_teardown"
  /\ pc[p] \in Preparing \cup Building \cup Undoing \cup Ending => cmd[p] \in {"setup", "reset"}
  /\ pc[p] = "ensure_nsname" => cmd[p] \in {"teardown", "reset", "use"}
  /\ pc[p] \in Tearing => cmd[p] \in {"teardown", "reset"}
  /\ CLEANUP_FUNC[p] = "cleanup_setup" => cmd[p] \in {"setup", "reset"}
  /\ pc[p] \in Preparing \cup Building \cup Tearing \cup Undoing \cup Ending => NS[p] \in Names
  /\ CLEANUP_FUNC[p] = "cleanup_setup" => NS[p] \in Names

\* An invocation that knows which environment it changes, and may still do so.
Past(p) ==
  /\ cmd[p] \in {"setup", "teardown", "reset"}
  /\ \/ pc[p] \in Preparing \cup Building \cup Tearing \cup Undoing \cup Ending
     \/ pc[p] = "ensure_nsname"
     \/ pc[p] = "cleanup" /\ CLEANUP_FUNC[p] = "cleanup_setup"

\* Two that change the same one are on record.
Sole(p, q) == Past(p) /\ Past(q) /\ NS[p] = NS[q] => NS[p] \in shared

\* What the only invocation that changes an environment knows of it, whatever
\* earlier ones left behind.
Knows(p, n) ==
  /\ pc[p] \in {"get_num", "put_num", "netns add", "link add", "configure",
                "write_statefile"} => ~Exists(n)
  /\ pc[p] \in {"fill", "link del", "netns del", "rm statefile"} => Exists(n)
  /\ pc[p] \in {"link add", "configure", "write_statefile", "fill"} => n \in netns
  /\ pc[p] \in {"configure", "write_statefile", "fill"} => n \in links
  /\ pc[p] = "rm current" \/ (cmd[p] = "reset" /\ pc[p] \in Preparing) => ~Exists(n)
  /\ pc[p] = "netns del" /\ n \notin hurt => n \in netns

\* What it knows when its deletions have left nothing behind.
Gone(p, n) ==
  p \notin failed =>
    /\ pc[p] \in {"netns del", "rm statefile", "undo statefile"} => n \notin links
    /\ pc[p] \in {"rm statefile", "undo link", "undo statefile"} => n \notin netns
    /\ pc[p] = "rm current" \/ (cmd[p] = "reset" /\ pc[p] \in Preparing \cup {"netns add"})
         => n \notin netns /\ n \notin links
    /\ cmd[p] = "reset" /\ pc[p] = "link add" => n \notin links

Owned(p) == Past(p) /\ NS[p] \notin shared => Knows(p, NS[p]) /\ Gone(p, NS[p])

\* The invocation is not in the middle of changing its environment.
Settled(p) ==
  /\ pc[p] \notin {"link add", "configure", "write_statefile", "netns del", "rm statefile"}
  /\ pc[p] \notin Undoing \cup {"cleanup"}

Whole(n) ==
  /\ n \in netns <=> Exists(n)
  /\ n \in links <=> Exists(n)

WholeUnless(n) ==
  n \notin hurt /\ n \notin shared
  /\ (\A p \in Procs : Past(p) /\ NS[p] = n => Settled(p))
    => Whole(n)

EInv ==
  /\ Types
  /\ \A p \in Procs : Local(p) /\ Owned(p)
  /\ \A p, q \in Procs : p # q => Sole(p, q)
  /\ \A n \in Names : WholeUnless(n)

\* While no two invocations overlap: the numbers.
Alone == \A p, q \in Procs : p # q => pc[p] = "idle" \/ pc[q] = "idle"

Distinct ==
  \A a, b \in Names :
    a # b /\ Exists(a) /\ statefile[a] = statefile[b] => statefile[a] = 0

\* The prefix an invocation holds is below the highest number and no other
\* environment's.
Reserved(p) ==
  /\ pc[p] \in {"idle", "get_nsname"} => IP6_PREFIX[p] = 0
  /\ pc[p] # "idle" => dir
  /\ pc[p] = "put_num" => NUM[p] = highest_num + 1
  /\ pc[p] = "rm files" => NoStateFile
  /\ IP6_PREFIX[p] # 0 /\ pc[p] # "rmdir" =>
       /\ IP6_PREFIX[p] <= highest_num
       /\ \A n \in Names : n # NS[p] => statefile[n] # IP6_PREFIX[p]

PInv ==
  overlapped \/
    /\ Alone /\ Distinct
    /\ \A n \in Names : statefile[n] <= highest_num
    /\ \A p \in Procs : Reserved(p)

-----------------------------------------------------------------------------
(* Steps.                                                                  *)

\* A step of one invocation.
Move(p) ==
  \/ \E c \in Commands, name \in Names \cup {NoName} : Start(p, c, name)
  \/ Step(p) \/ Interrupt(p) \/ Kill(p)

\* Every step keeps the types.
LEMMA TypesKept ==
  ASSUME Types, NEW p \in Procs, Move(p), Local(p)
  PROVE  Types'
<1>. USE DEF Types, Goto, files, kernel, locals, history
<1>1. ASSUME NEW c \in Commands, NEW name \in Names \cup {NoName}, Start(p, c, name)
      PROVE  Types'
  BY <1>1 DEF Start, Commands, Labels, Before, Preparing, Building, Tearing, Undoing,
     Ending, Leaving
<1>2. CASE get_nsname(p)
  <2>1. pc' \in [Procs -> Labels]
    BY <1>2 DEF get_nsname, NamesFor, Labels, Before, Preparing, Building, Tearing,
       Undoing, Ending, Leaving
  <2>2. cmd' \in [Procs -> Commands]
    BY <1>2 DEF get_nsname, NamesFor, Commands
  <2>3. CLEANUP_FUNC' \in [Procs -> {"", "cleanup_setup", "cleanup_teardown"}]
    BY <1>2 DEF get_nsname, NamesFor
  <2>4. NS' \in [Procs -> Names \cup {NoName}]
    <3>1. PICK n \in NamesFor(p) : NS' = [NS EXCEPT ![p] = n]
      BY <1>2 DEF get_nsname
    <3>2. n \in Names \cup {NoName}
      BY <3>1 DEF NamesFor
    <3>. QED
      BY <3>1, <3>2
  <2>5. current' \in Names \cup {NoName}
    BY <1>2 DEF get_nsname, NamesFor
  <2>6. IP6_PREFIX' \in [Procs -> Nat]
    BY <1>2 DEF get_nsname, NamesFor
  <2>7. NUM' \in [Procs -> Nat]
    BY <1>2 DEF get_nsname, NamesFor
  <2>8. highest_num' \in Nat
    BY <1>2 DEF get_nsname, NamesFor
  <2>9. statefile' \in [Names -> Nat \cup {NoFile}]
    BY <1>2 DEF get_nsname, NamesFor
  <2>. QED
    BY <2>1, <2>2, <2>3, <2>4, <2>5, <2>6, <2>7, <2>8, <2>9
<1>3. CASE ensure_nsname(p)
  <2>1. pc' \in [Procs -> Labels]
    BY <1>3 DEF ensure_nsname, Select, Labels, Before, Preparing, Building, Tearing,
       Undoing, Ending, Leaving
  <2>2. cmd' \in [Procs -> Commands]
    BY <1>3 DEF ensure_nsname, Select, Commands
  <2>3. CLEANUP_FUNC' \in [Procs -> {"", "cleanup_setup", "cleanup_teardown"}]
    BY <1>3 DEF ensure_nsname, Select
  <2>4. NS' \in [Procs -> Names \cup {NoName}]
    BY <1>3 DEF ensure_nsname, Select
  <2>5. current' \in Names \cup {NoName}
    BY <1>3 DEF ensure_nsname, Select
  <2>6. IP6_PREFIX' \in [Procs -> Nat]
    <3>1. CASE Select(p)
      <4>1. statefile[NS[p]] \in Nat
        BY <3>1 DEF Select, Exists
      <4>. QED
        BY <3>1, <4>1, <1>3 DEF Select, ensure_nsname
    <3>2. CASE UNCHANGED IP6_PREFIX
      BY <3>2
    <3>. QED
      BY <3>1, <3>2, <1>3 DEF ensure_nsname
  <2>7. NUM' \in [Procs -> Nat]
    BY <1>3 DEF ensure_nsname, Select
  <2>8. highest_num' \in Nat
    BY <1>3 DEF ensure_nsname, Select
  <2>9. statefile' \in [Names -> Nat \cup {NoFile}]
    BY <1>3 DEF ensure_nsname, Select
  <2>. QED
    BY <2>1, <2>2, <2>3, <2>4, <2>5, <2>6, <2>7, <2>8, <2>9
<1>4. CASE CheckNew(p)
  BY <1>4 DEF CheckNew, Labels, Before, Preparing, Building, Tearing, Undoing, Ending,
     Leaving
<1>5. CASE ReadNum(p)
  <2>1. pc' \in [Procs -> Labels]
    BY <1>5 DEF ReadNum, Labels, Before, Preparing, Building, Tearing, Undoing, Ending,
       Leaving
  <2>2. cmd' \in [Procs -> Commands]
    BY <1>5 DEF ReadNum, Commands
  <2>3. CLEANUP_FUNC' \in [Procs -> {"", "cleanup_setup", "cleanup_teardown"}]
    BY <1>5 DEF ReadNum
  <2>4. NS' \in [Procs -> Names \cup {NoName}]
    BY <1>5 DEF ReadNum
  <2>5. current' \in Names \cup {NoName}
    BY <1>5 DEF ReadNum
  <2>6. IP6_PREFIX' \in [Procs -> Nat]
    BY <1>5 DEF ReadNum
  <2>7. NUM' \in [Procs -> Nat]
    <3>1. 1 + highest_num \in Nat
      <4>1. highest_num \in Nat
        OBVIOUS
      <4>. HIDE DEF Types
      <4>. QED
        BY <4>1
    <3>. QED
      BY <3>1, <1>5 DEF ReadNum
  <2>8. highest_num' \in Nat
    BY <1>5 DEF ReadNum
  <2>9. statefile' \in [Names -> Nat \cup {NoFile}]
    BY <1>5 DEF ReadNum
  <2>. QED
    BY <2>1, <2>2, <2>3, <2>4, <2>5, <2>6, <2>7, <2>8, <2>9
<1>6. CASE TakePrefix(p)
  <2>1. pc' \in [Procs -> Labels]
    BY <1>6 DEF TakePrefix, WriteNum, Labels, Before, Preparing, Building, Tearing,
       Undoing, Ending, Leaving
  <2>2. cmd' \in [Procs -> Commands]
    BY <1>6 DEF TakePrefix, WriteNum, Commands
  <2>3. CLEANUP_FUNC' \in [Procs -> {"", "cleanup_setup", "cleanup_teardown"}]
    BY <1>6 DEF TakePrefix, WriteNum
  <2>4. NS' \in [Procs -> Names \cup {NoName}]
    BY <1>6 DEF TakePrefix, WriteNum
  <2>5. current' \in Names \cup {NoName}
    BY <1>6 DEF TakePrefix, WriteNum
  <2>6. IP6_PREFIX' \in [Procs -> Nat]
    BY <1>6 DEF TakePrefix, WriteNum
  <2>7. NUM' \in [Procs -> Nat]
    BY <1>6 DEF TakePrefix, WriteNum
  <2>8. highest_num' \in Nat
    BY <1>6 DEF TakePrefix, WriteNum
  <2>9. statefile' \in [Names -> Nat \cup {NoFile}]
    BY <1>6 DEF TakePrefix, WriteNum
  <2>. QED
    BY <2>1, <2>2, <2>3, <2>4, <2>5, <2>6, <2>7, <2>8, <2>9
<1>7. CASE NetnsAdd(p)
  BY <1>7 DEF NetnsAdd, Labels, Before, Preparing, Building, Tearing, Undoing, Ending,
     Leaving
<1>8. CASE LinkAdd(p)
  BY <1>8 DEF LinkAdd, Labels, Before, Preparing, Building, Tearing, Undoing, Ending,
     Leaving
<1>9. CASE Configure(p)
  BY <1>9 DEF Configure, Labels, Before, Preparing, Building, Tearing, Undoing, Ending,
     Leaving
<1>10. CASE CreateStateFile(p)
  <2>1. pc' \in [Procs -> Labels]
    BY <1>10 DEF CreateStateFile, Labels, Before, Preparing, Building, Tearing, Undoing,
       Ending, Leaving
  <2>2. cmd' \in [Procs -> Commands]
    BY <1>10 DEF CreateStateFile, Commands
  <2>3. CLEANUP_FUNC' \in [Procs -> {"", "cleanup_setup", "cleanup_teardown"}]
    BY <1>10 DEF CreateStateFile
  <2>4. NS' \in [Procs -> Names \cup {NoName}]
    BY <1>10 DEF CreateStateFile
  <2>5. current' \in Names \cup {NoName}
    BY <1>10 DEF CreateStateFile
  <2>6. IP6_PREFIX' \in [Procs -> Nat]
    BY <1>10 DEF CreateStateFile
  <2>7. NUM' \in [Procs -> Nat]
    BY <1>10 DEF CreateStateFile
  <2>8. highest_num' \in Nat
    BY <1>10 DEF CreateStateFile
  <2>9. statefile' \in [Names -> Nat \cup {NoFile}]
    <3>1. 0 \in Nat \cup {NoFile}
      OBVIOUS
    <3>. QED
      BY <3>1, <1>10 DEF CreateStateFile
  <2>. QED
    BY <2>1, <2>2, <2>3, <2>4, <2>5, <2>6, <2>7, <2>8, <2>9
<1>11. CASE FillStateFile(p)
  <2>1. pc' \in [Procs -> Labels]
    BY <1>11 DEF FillStateFile, Labels, Before, Preparing, Building, Tearing, Undoing,
       Ending, Leaving
  <2>2. cmd' \in [Procs -> Commands]
    BY <1>11 DEF FillStateFile, Commands
  <2>3. CLEANUP_FUNC' \in [Procs -> {"", "cleanup_setup", "cleanup_teardown"}]
    BY <1>11 DEF FillStateFile
  <2>4. NS' \in [Procs -> Names \cup {NoName}]
    BY <1>11 DEF FillStateFile
  <2>5. current' \in Names \cup {NoName}
    BY <1>11 DEF FillStateFile
  <2>6. IP6_PREFIX' \in [Procs -> Nat]
    BY <1>11 DEF FillStateFile
  <2>7. NUM' \in [Procs -> Nat]
    BY <1>11 DEF FillStateFile
  <2>8. highest_num' \in Nat
    BY <1>11 DEF FillStateFile
  <2>9. statefile' \in [Names -> Nat \cup {NoFile}]
    BY <1>11 DEF FillStateFile
  <2>. QED
    BY <2>1, <2>2, <2>3, <2>4, <2>5, <2>6, <2>7, <2>8, <2>9
<1>12. CASE RunPing(p)
  <2>1. pc' \in [Procs -> Labels]
    BY <1>12 DEF RunPing, Select, Labels, Before, Preparing, Building, Tearing, Undoing,
       Ending, Leaving
  <2>2. cmd' \in [Procs -> Commands]
    BY <1>12 DEF RunPing, Select, Commands
  <2>3. CLEANUP_FUNC' \in [Procs -> {"", "cleanup_setup", "cleanup_teardown"}]
    BY <1>12 DEF RunPing, Select
  <2>4. NS' \in [Procs -> Names \cup {NoName}]
    BY <1>12 DEF RunPing, Select
  <2>5. current' \in Names \cup {NoName}
    BY <1>12 DEF RunPing, Select
  <2>6. IP6_PREFIX' \in [Procs -> Nat]
    <3>1. CASE Select(p)
      <4>1. statefile[NS[p]] \in Nat
        BY <3>1 DEF Select, Exists
      <4>. QED
        BY <3>1, <4>1, <1>12 DEF Select, RunPing
    <3>2. CASE UNCHANGED IP6_PREFIX
      BY <3>2
    <3>. QED
      BY <3>1, <3>2, <1>12 DEF RunPing
  <2>7. NUM' \in [Procs -> Nat]
    BY <1>12 DEF RunPing, Select
  <2>8. highest_num' \in Nat
    BY <1>12 DEF RunPing, Select
  <2>9. statefile' \in [Names -> Nat \cup {NoFile}]
    BY <1>12 DEF RunPing, Select
  <2>. QED
    BY <2>1, <2>2, <2>3, <2>4, <2>5, <2>6, <2>7, <2>8, <2>9
<1>13. CASE SetCurrent(p)
  BY <1>13 DEF SetCurrent, Labels, Before, Preparing, Building, Tearing, Undoing, Ending,
     Leaving
<1>14. CASE LinkDel(p)
  BY <1>14 DEF LinkDel, OnError, Labels, Before, Preparing, Building, Tearing, Undoing,
     Ending, Leaving
<1>15. CASE NetnsDel(p)
  BY <1>15 DEF NetnsDel, DropNetns, OnError, Labels, Before, Preparing, Building, Tearing,
     Undoing, Ending, Leaving
<1>16. CASE RmStateFile(p)
  BY <1>16 DEF RmStateFile, RemoveStateFile, Labels, Before, Preparing, Building, Tearing, Undoing, Ending,
     Leaving
<1>17. CASE RmCurrent(p)
  BY <1>17 DEF RmCurrent, Labels, Before, Preparing, Building, Tearing, Undoing, Ending,
     Leaving
<1>18. CASE Cleanup(p)
  BY <1>18 DEF Cleanup, DropNetns, Labels, Before, Preparing, Building, Tearing, Undoing,
     Ending, Leaving
<1>19. CASE UndoLink(p)
  BY <1>19 DEF UndoLink, Labels, Before, Preparing, Building, Tearing, Undoing, Ending,
     Leaving
<1>20. CASE UndoStateFile(p)
  BY <1>20 DEF UndoStateFile, RemoveStateFile, Labels, Before, Preparing, Building, Tearing, Undoing,
     Ending, Leaving
<1>21. CASE LookForStateFiles(p)
  <2>1. CASE End(p)
    <3>1. pc' \in [Procs -> Labels]
      BY <2>1, <1>21 DEF LookForStateFiles, End, Labels, Before, Preparing, Building,
         Tearing, Undoing, Ending, Leaving
    <3>2. cmd' \in [Procs -> Commands]
      BY <2>1, <1>21 DEF LookForStateFiles, End, Commands
    <3>3. CLEANUP_FUNC' \in [Procs -> {"", "cleanup_setup", "cleanup_teardown"}]
      BY <2>1, <1>21 DEF LookForStateFiles, End
    <3>4. NS' \in [Procs -> Names \cup {NoName}]
      BY <2>1, <1>21 DEF LookForStateFiles, End
    <3>5. current' \in Names \cup {NoName}
      BY <2>1, <1>21 DEF LookForStateFiles, End
    <3>6. IP6_PREFIX' \in [Procs -> Nat]
      BY <2>1, <1>21 DEF LookForStateFiles, End
    <3>7. NUM' \in [Procs -> Nat]
      BY <2>1, <1>21 DEF LookForStateFiles, End
    <3>8. highest_num' \in Nat
      BY <2>1, <1>21 DEF LookForStateFiles, End
    <3>9. statefile' \in [Names -> Nat \cup {NoFile}]
      BY <2>1, <1>21 DEF LookForStateFiles, End
    <3>. QED
      BY <3>1, <3>2, <3>3, <3>4, <3>5, <3>6, <3>7, <3>8, <3>9
  <2>2. CASE ~End(p)
    BY <2>2, <1>21 DEF LookForStateFiles, Labels, Before, Preparing, Building, Tearing,
       Undoing, Ending, Leaving
  <2>. QED
    BY <2>1, <2>2
<1>22. CASE RmFiles(p)
  <2>1. pc' \in [Procs -> Labels]
    BY <1>22 DEF RmFiles, Labels, Before, Preparing, Building, Tearing, Undoing, Ending,
       Leaving
  <2>2. cmd' \in [Procs -> Commands]
    BY <1>22 DEF RmFiles, Commands
  <2>3. CLEANUP_FUNC' \in [Procs -> {"", "cleanup_setup", "cleanup_teardown"}]
    BY <1>22 DEF RmFiles
  <2>4. NS' \in [Procs -> Names \cup {NoName}]
    BY <1>22 DEF RmFiles
  <2>5. current' \in Names \cup {NoName}
    BY <1>22 DEF RmFiles
  <2>6. IP6_PREFIX' \in [Procs -> Nat]
    BY <1>22 DEF RmFiles
  <2>7. NUM' \in [Procs -> Nat]
    BY <1>22 DEF RmFiles
  <2>8. highest_num' \in Nat
    BY <1>22 DEF RmFiles
  <2>9. statefile' \in [Names -> Nat \cup {NoFile}]
    BY <1>22 DEF RmFiles
  <2>. QED
    BY <2>1, <2>2, <2>3, <2>4, <2>5, <2>6, <2>7, <2>8, <2>9
<1>23. CASE RmDir(p)
  <2>1. pc' \in [Procs -> Labels]
    BY <1>23 DEF RmDir, End, Labels, Before, Preparing, Building, Tearing, Undoing,
       Ending, Leaving
  <2>2. cmd' \in [Procs -> Commands]
    BY <1>23 DEF RmDir, End, Commands
  <2>3. CLEANUP_FUNC' \in [Procs -> {"", "cleanup_setup", "cleanup_teardown"}]
    BY <1>23 DEF RmDir, End
  <2>4. NS' \in [Procs -> Names \cup {NoName}]
    BY <1>23 DEF RmDir, End
  <2>5. current' \in Names \cup {NoName}
    BY <1>23 DEF RmDir, End
  <2>6. IP6_PREFIX' \in [Procs -> Nat]
    BY <1>23 DEF RmDir, End
  <2>7. NUM' \in [Procs -> Nat]
    BY <1>23 DEF RmDir, End
  <2>8. highest_num' \in Nat
    BY <1>23 DEF RmDir, End
  <2>9. statefile' \in [Names -> Nat \cup {NoFile}]
    BY <1>23 DEF RmDir, End
  <2>. QED
    BY <2>1, <2>2, <2>3, <2>4, <2>5, <2>6, <2>7, <2>8, <2>9
<1>24. CASE Interrupt(p)
  BY <1>24 DEF Interrupt, MidTeardown, CleanupSteps, Labels, Before, Preparing, Building,
     Tearing, Undoing, Ending, Leaving
<1>25. CASE Kill(p)
  <2>1. pc' \in [Procs -> Labels]
    BY <1>25 DEF Kill, End, MidTeardown, MidSetup, Labels, Before, Preparing, Building,
       Tearing, Undoing, Ending, Leaving
  <2>2. cmd' \in [Procs -> Commands]
    BY <1>25 DEF Kill, End, MidTeardown, MidSetup, Commands
  <2>3. CLEANUP_FUNC' \in [Procs -> {"", "cleanup_setup", "cleanup_teardown"}]
    BY <1>25 DEF Kill, End, MidTeardown, MidSetup
  <2>4. NS' \in [Procs -> Names \cup {NoName}]
    BY <1>25 DEF Kill, End, MidTeardown, MidSetup
  <2>5. current' \in Names \cup {NoName}
    BY <1>25 DEF Kill, End, MidTeardown, MidSetup
  <2>6. IP6_PREFIX' \in [Procs -> Nat]
    BY <1>25 DEF Kill, End, MidTeardown, MidSetup
  <2>7. NUM' \in [Procs -> Nat]
    BY <1>25 DEF Kill, End, MidTeardown, MidSetup
  <2>8. highest_num' \in Nat
    BY <1>25 DEF Kill, End, MidTeardown, MidSetup
  <2>9. statefile' \in [Names -> Nat \cup {NoFile}]
    BY <1>25 DEF Kill, End, MidTeardown, MidSetup
  <2>. QED
    BY <2>1, <2>2, <2>3, <2>4, <2>5, <2>6, <2>7, <2>8, <2>9
<1>. QED
  BY <1>1, <1>2, <1>3, <1>4, <1>5, <1>6, <1>7, <1>8, <1>9, <1>10, <1>11, <1>12, <1>13,
     <1>14, <1>15, <1>16, <1>17, <1>18, <1>19, <1>20, <1>21, <1>22, <1>23, <1>24, <1>25
     DEF Move, Step, setup, teardown, cleanup

-----------------------------------------------------------------------------
(* What a step leaves alone.                                               *)

\* A step of one invocation changes no variable of another.
LEMMA OthersKept ==
  ASSUME Types, NEW p \in Procs, Move(p), NEW q \in Procs, q # p
  PROVE  /\ pc'[q] = pc[q] /\ cmd'[q] = cmd[q] /\ NS'[q] = NS[q]
         /\ CLEANUP_FUNC'[q] = CLEANUP_FUNC[q]
         /\ IP6_PREFIX'[q] = IP6_PREFIX[q] /\ NUM'[q] = NUM[q]
         /\ q \in failed' <=> q \in failed
<1>. DEFINE Same == /\ pc'[q] = pc[q] /\ cmd'[q] = cmd[q] /\ NS'[q] = NS[q]
                    /\ CLEANUP_FUNC'[q] = CLEANUP_FUNC[q]
                    /\ IP6_PREFIX'[q] = IP6_PREFIX[q] /\ NUM'[q] = NUM[q]
                    /\ q \in failed' <=> q \in failed
<1>. USE DEF Types, Goto, files, kernel, locals, history
<1>1. ASSUME NEW c \in Commands, NEW name \in Names \cup {NoName}, Start(p, c, name)
      PROVE  Same
  BY <1>1 DEF Start
<1>2. CASE get_nsname(p)
  BY <1>2 DEF get_nsname
<1>3. CASE ensure_nsname(p)
  BY <1>3 DEF ensure_nsname, Select
<1>4. CASE CheckNew(p)
  BY <1>4 DEF CheckNew
<1>5. CASE ReadNum(p)
  BY <1>5 DEF ReadNum
<1>6. CASE TakePrefix(p)
  BY <1>6 DEF TakePrefix
<1>7. CASE NetnsAdd(p)
  BY <1>7 DEF NetnsAdd
<1>8. CASE LinkAdd(p)
  BY <1>8 DEF LinkAdd
<1>9. CASE Configure(p)
  BY <1>9 DEF Configure
<1>10. CASE CreateStateFile(p)
  BY <1>10 DEF CreateStateFile
<1>11. CASE FillStateFile(p)
  BY <1>11 DEF FillStateFile
<1>12. CASE RunPing(p)
  BY <1>12 DEF RunPing, Select
<1>13. CASE SetCurrent(p)
  BY <1>13 DEF SetCurrent
<1>14. CASE LinkDel(p)
  BY <1>14 DEF LinkDel, Fails
<1>15. CASE NetnsDel(p)
  BY <1>15 DEF NetnsDel
<1>16. CASE RmStateFile(p)
  BY <1>16 DEF RmStateFile, RemoveStateFile
<1>17. CASE RmCurrent(p)
  BY <1>17 DEF RmCurrent
<1>18. CASE Cleanup(p)
  <2>1. /\ pc' = [pc EXCEPT ![p] = "undo link"] \/ pc' = [pc EXCEPT ![p] = "statefiles"]
        /\ UNCHANGED <<cmd, NS, IP6_PREFIX, NUM, CLEANUP_FUNC>>
    BY <1>18 DEF Cleanup
  <2>2. failed' \in {failed, failed \ {p}, failed \cup {p}}
    <3>1. CASE CLEANUP_FUNC[p] = "cleanup_setup"
      BY <3>1, <1>18 DEF Cleanup, Fails
    <3>2. CASE CLEANUP_FUNC[p] # "cleanup_setup"
      BY <3>2, <1>18 DEF Cleanup
    <3>. QED
      BY <3>1, <3>2
  <2>. QED
    BY <2>1, <2>2
<1>19. CASE UndoLink(p)
  BY <1>19 DEF UndoLink
<1>20. CASE UndoStateFile(p)
  BY <1>20 DEF UndoStateFile, RemoveStateFile
<1>21. CASE LookForStateFiles(p)
  <2>1. CASE End(p)
    BY <2>1 DEF End
  <2>2. CASE ~End(p)
    BY <2>2, <1>21 DEF LookForStateFiles
  <2>. QED
    BY <2>1, <2>2
<1>22. CASE RmFiles(p)
  BY <1>22 DEF RmFiles
<1>23. CASE RmDir(p)
  BY <1>23 DEF RmDir, End
<1>24. CASE Interrupt(p)
  BY <1>24 DEF Interrupt
<1>25. CASE Kill(p)
  BY <1>25 DEF Kill, End
<1>. QED
  BY <1>1, <1>2, <1>3, <1>4, <1>5, <1>6, <1>7, <1>8, <1>9, <1>10, <1>11, <1>12, <1>13,
     <1>14, <1>15, <1>16, <1>17, <1>18, <1>19, <1>20, <1>21, <1>22, <1>23, <1>24, <1>25
     DEF Move, Step, setup, teardown, cleanup

\* Every step keeps what an invocation's place says of its variables.
LEMMA LocalKept ==
  ASSUME Types, NEW p \in Procs, Move(p), Local(p)
  PROVE  Local(p)'
<1>. USE DEF Types, Local, Goto, Before, Preparing, Building, Tearing, Undoing, Ending,
             files, kernel, locals, history
<1>1. ASSUME NEW c \in Commands, NEW name \in Names \cup {NoName}, Start(p, c, name)
      PROVE  Local(p)'
  BY <1>1 DEF Start
<1>2. CASE get_nsname(p)
  <2>1. PICK n \in NamesFor(p) : NS' = [NS EXCEPT ![p] = n]
    BY <1>2 DEF get_nsname
  <2>2. cmd[p] = "setup" => NS'[p] \in Names
    BY <2>1 DEF NamesFor
  <2>3. /\ pc'[p] \in {"setup", "cleanup", "ensure_nsname"}
        /\ pc'[p] = "setup" => cmd[p] = "setup"
        /\ pc'[p] = "ensure_nsname" => cmd[p] \in {"teardown", "reset", "use"}
        /\ cmd' = cmd /\ CLEANUP_FUNC'[p] = ""
    BY <1>2 DEF get_nsname, Commands
  <2>. QED
    BY <2>2, <2>3
<1>3. CASE ensure_nsname(p)
  <2>1. CASE ~Exists(NS[p])
    BY <2>1, <1>3 DEF ensure_nsname, Select
  <2>2. CASE Exists(NS[p]) /\ cmd[p] = "use"
    BY <2>2, <1>3 DEF ensure_nsname
  <2>3. CASE Exists(NS[p]) /\ cmd[p] # "use"
    <3>1. /\ pc'[p] = "link del" /\ CLEANUP_FUNC'[p] = "cleanup_teardown"
          /\ cmd' = cmd /\ NS' = NS /\ NS[p] \in Names
      BY <2>3, <1>3 DEF ensure_nsname, Exists
    <3>2. cmd[p] \in {"teardown", "reset"}
      BY <2>3, <1>3 DEF ensure_nsname
    <3>. QED
      BY <3>1, <3>2
  <2>. QED
    BY <2>1, <2>2, <2>3
<1>4. CASE CheckNew(p)
  BY <1>4 DEF CheckNew
<1>5. CASE ReadNum(p)
  BY <1>5 DEF ReadNum
<1>6. CASE TakePrefix(p)
  BY <1>6 DEF TakePrefix
<1>7. CASE NetnsAdd(p)
  BY <1>7 DEF NetnsAdd
<1>8. CASE LinkAdd(p)
  BY <1>8 DEF LinkAdd
<1>9. CASE Configure(p)
  BY <1>9 DEF Configure
<1>10. CASE CreateStateFile(p)
  BY <1>10 DEF CreateStateFile
<1>11. CASE FillStateFile(p)
  BY <1>11 DEF FillStateFile
<1>12. CASE RunPing(p)
  BY <1>12 DEF RunPing, Select
<1>13. CASE SetCurrent(p)
  BY <1>13 DEF SetCurrent
<1>14. CASE LinkDel(p)
  <2>1. /\ pc'[p] = "netns del" \/ pc'[p] = "cleanup"
        /\ pc[p] = "link del" /\ UNCHANGED <<cmd, NS, CLEANUP_FUNC>>
    BY <1>14 DEF LinkDel, OnError
  <2>. QED
    BY <2>1
<1>15. CASE NetnsDel(p)
  BY <1>15 DEF NetnsDel, OnError
<1>16. CASE RmStateFile(p)
  BY <1>16 DEF RmStateFile, RemoveStateFile
<1>17. CASE RmCurrent(p)
  BY <1>17 DEF RmCurrent
<1>18. CASE Cleanup(p)
  BY <1>18 DEF Cleanup
<1>19. CASE UndoLink(p)
  BY <1>19 DEF UndoLink
<1>20. CASE UndoStateFile(p)
  BY <1>20 DEF UndoStateFile, RemoveStateFile
<1>21. CASE LookForStateFiles(p)
  <2>1. CASE End(p)
    BY <2>1, <1>21 DEF LookForStateFiles, End
  <2>2. CASE ~End(p)
    BY <2>2, <1>21 DEF LookForStateFiles
  <2>. QED
    BY <2>1, <2>2
<1>22. CASE RmFiles(p)
  BY <1>22 DEF RmFiles
<1>23. CASE RmDir(p)
  BY <1>23 DEF RmDir, End
<1>24. CASE Interrupt(p)
  BY <1>24 DEF Interrupt, CleanupSteps
<1>25. CASE Kill(p)
  BY <1>25 DEF Kill, End
<1>. QED
  BY <1>1, <1>2, <1>3, <1>4, <1>5, <1>6, <1>7, <1>8, <1>9, <1>10, <1>11, <1>12, <1>13,
     <1>14, <1>15, <1>16, <1>17, <1>18, <1>19, <1>20, <1>21, <1>22, <1>23, <1>24, <1>25
     DEF Move, Step, setup, teardown, cleanup

\* The environments a step leaves alone: all but the one the invocation is
\* changing.
LEMMA EnvKept ==
  ASSUME Types, NEW p \in Procs, Move(p), Local(p), NEW n \in Names,
         ~(Past(p) /\ NS[p] = n)
  PROVE  /\ statefile'[n] = statefile[n]
         /\ n \in netns' <=> n \in netns
         /\ n \in links' <=> n \in links
         /\ n \in hurt' <=> n \in hurt
<1>. DEFINE Same == /\ statefile'[n] = statefile[n]
                    /\ n \in netns' <=> n \in netns
                    /\ n \in links' <=> n \in links
                    /\ n \in hurt' <=> n \in hurt
<1>. USE DEF Types, Local, Past, Before, Preparing, Building, Tearing, Undoing, Ending,
             files, kernel, history
<1>1. ASSUME NEW c \in Commands, NEW name \in Names \cup {NoName}, Start(p, c, name)
      PROVE  Same
  BY <1>1 DEF Start
<1>2. CASE get_nsname(p)
  BY <1>2 DEF get_nsname
<1>3. CASE ensure_nsname(p)
  BY <1>3 DEF ensure_nsname, Select
<1>4. CASE CheckNew(p)
  BY <1>4 DEF CheckNew
<1>5. CASE ReadNum(p)
  BY <1>5 DEF ReadNum
<1>6. CASE TakePrefix(p)
  BY <1>6 DEF TakePrefix
<1>7. CASE NetnsAdd(p)
  BY <1>7 DEF NetnsAdd
<1>8. CASE LinkAdd(p)
  BY <1>8 DEF LinkAdd
<1>9. CASE Configure(p)
  BY <1>9 DEF Configure
<1>10. CASE CreateStateFile(p)
  BY <1>10 DEF CreateStateFile
<1>11. CASE FillStateFile(p)
  BY <1>11 DEF FillStateFile
<1>12. CASE RunPing(p)
  BY <1>12 DEF RunPing, Select
<1>13. CASE SetCurrent(p)
  BY <1>13 DEF SetCurrent
<1>14. CASE LinkDel(p)
  BY <1>14 DEF LinkDel
<1>15. CASE NetnsDel(p)
  BY <1>15 DEF NetnsDel, DropNetns
<1>16. CASE RmStateFile(p)
  BY <1>16 DEF RmStateFile, RemoveStateFile
<1>17. CASE RmCurrent(p)
  BY <1>17 DEF RmCurrent
<1>18. CASE Cleanup(p)
  BY <1>18 DEF Cleanup, DropNetns
<1>19. CASE UndoLink(p)
  BY <1>19 DEF UndoLink
<1>20. CASE UndoStateFile(p)
  BY <1>20 DEF UndoStateFile, RemoveStateFile
<1>21. CASE LookForStateFiles(p)
  BY <1>21 DEF LookForStateFiles
<1>22. CASE RmFiles(p)
  BY <1>22 DEF RmFiles
<1>23. CASE RmDir(p)
  BY <1>23 DEF RmDir
<1>24. CASE Interrupt(p)
  BY <1>24 DEF Interrupt, MidTeardown
<1>25. CASE Kill(p)
  BY <1>25 DEF Kill, MidTeardown, MidSetup
<1>. QED
  BY <1>1, <1>2, <1>3, <1>4, <1>5, <1>6, <1>7, <1>8, <1>9, <1>10, <1>11, <1>12, <1>13,
     <1>14, <1>15, <1>16, <1>17, <1>18, <1>19, <1>20, <1>21, <1>22, <1>23, <1>24, <1>25
     DEF Move, Step, setup, teardown, cleanup

\* A name stays on record, and goes on record when an invocation comes up
\* with it.
LEMMA SharedGrows ==
  ASSUME NEW p \in Procs, Move(p)
  PROVE  shared \subseteq shared' /\ (~get_nsname(p) => shared' = shared)
<1>. DEFINE Grows == shared \subseteq shared' /\ (~get_nsname(p) => shared' = shared)
<1>. USE DEF history
<1>1. ASSUME NEW c \in Commands, NEW name \in Names \cup {NoName}, Start(p, c, name)
      PROVE  Grows
  BY <1>1 DEF Start
<1>2. CASE get_nsname(p)
  BY <1>2 DEF get_nsname
<1>3. CASE ensure_nsname(p)
  BY <1>3 DEF ensure_nsname
<1>4. CASE CheckNew(p)
  BY <1>4 DEF CheckNew
<1>5. CASE ReadNum(p)
  BY <1>5 DEF ReadNum
<1>6. CASE TakePrefix(p)
  BY <1>6 DEF TakePrefix
<1>7. CASE NetnsAdd(p)
  BY <1>7 DEF NetnsAdd
<1>8. CASE LinkAdd(p)
  BY <1>8 DEF LinkAdd
<1>9. CASE Configure(p)
  BY <1>9 DEF Configure
<1>10. CASE CreateStateFile(p)
  BY <1>10 DEF CreateStateFile
<1>11. CASE FillStateFile(p)
  BY <1>11 DEF FillStateFile
<1>12. CASE RunPing(p)
  BY <1>12 DEF RunPing
<1>13. CASE SetCurrent(p)
  BY <1>13 DEF SetCurrent
<1>14. CASE LinkDel(p)
  BY <1>14 DEF LinkDel
<1>15. CASE NetnsDel(p)
  BY <1>15 DEF NetnsDel
<1>16. CASE RmStateFile(p)
  BY <1>16 DEF RmStateFile, RemoveStateFile
<1>17. CASE RmCurrent(p)
  BY <1>17 DEF RmCurrent
<1>18. CASE Cleanup(p)
  BY <1>18 DEF Cleanup
<1>19. CASE UndoLink(p)
  BY <1>19 DEF UndoLink
<1>20. CASE UndoStateFile(p)
  BY <1>20 DEF UndoStateFile, RemoveStateFile
<1>21. CASE LookForStateFiles(p)
  BY <1>21 DEF LookForStateFiles
<1>22. CASE RmFiles(p)
  BY <1>22 DEF RmFiles
<1>23. CASE RmDir(p)
  BY <1>23 DEF RmDir
<1>24. CASE Interrupt(p)
  BY <1>24 DEF Interrupt
<1>25. CASE Kill(p)
  BY <1>25 DEF Kill
<1>. QED
  BY <1>1, <1>2, <1>3, <1>4, <1>5, <1>6, <1>7, <1>8, <1>9, <1>10, <1>11, <1>12, <1>13,
     <1>14, <1>15, <1>16, <1>17, <1>18, <1>19, <1>20, <1>21, <1>22, <1>23, <1>24, <1>25
     DEF Move, Step, setup, teardown, cleanup

\* Only there does an invocation begin to change an environment.
LEMMA PastBegins ==
  ASSUME Types, NEW p \in Procs, Move(p), Local(p), Past(p)', ~get_nsname(p)
  PROVE  Past(p) /\ NS'[p] = NS[p] /\ cmd'[p] = cmd[p]
<1>. DEFINE Goal == Past(p) /\ NS'[p] = NS[p] /\ cmd'[p] = cmd[p]
<1>. USE DEF Types, Local, Past, Goto, Before, Preparing, Building, Tearing, Undoing, Ending,
             files, kernel, locals, history
<1>1. ASSUME NEW c \in Commands, NEW name \in Names \cup {NoName}, Start(p, c, name)
      PROVE  Goal
  BY <1>1 DEF Start
<1>2. CASE get_nsname(p)
  BY <1>2 DEF get_nsname
<1>3. CASE ensure_nsname(p)
  BY <1>3 DEF ensure_nsname, Select
<1>4. CASE CheckNew(p)
  BY <1>4 DEF CheckNew
<1>5. CASE ReadNum(p)
  BY <1>5 DEF ReadNum
<1>6. CASE TakePrefix(p)
  BY <1>6 DEF TakePrefix
<1>7. CASE NetnsAdd(p)
  BY <1>7 DEF NetnsAdd
<1>8. CASE LinkAdd(p)
  BY <1>8 DEF LinkAdd
<1>9. CASE Configure(p)
  BY <1>9 DEF Configure
<1>10. CASE CreateStateFile(p)
  BY <1>10 DEF CreateStateFile
<1>11. CASE FillStateFile(p)
  BY <1>11 DEF FillStateFile
<1>12. CASE RunPing(p)
  BY <1>12 DEF RunPing, Select
<1>13. CASE SetCurrent(p)
  BY <1>13 DEF SetCurrent
<1>14. CASE LinkDel(p)
  BY <1>14 DEF LinkDel, OnError
<1>15. CASE NetnsDel(p)
  BY <1>15 DEF NetnsDel, OnError
<1>16. CASE RmStateFile(p)
  BY <1>16 DEF RmStateFile, RemoveStateFile
<1>17. CASE RmCurrent(p)
  BY <1>17 DEF RmCurrent
<1>18. CASE Cleanup(p)
  BY <1>18 DEF Cleanup
<1>19. CASE UndoLink(p)
  BY <1>19 DEF UndoLink
<1>20. CASE UndoStateFile(p)
  BY <1>20 DEF UndoStateFile, RemoveStateFile
<1>21. CASE LookForStateFiles(p)
  <2>1. pc'[p] \in {"idle", "rm files"}
    BY <1>21 DEF LookForStateFiles, End
  <2>. QED
    BY <2>1
<1>22. CASE RmFiles(p)
  BY <1>22 DEF RmFiles
<1>23. CASE RmDir(p)
  BY <1>23 DEF RmDir, End
<1>24. CASE Interrupt(p)
  BY <1>24 DEF Interrupt, CleanupSteps, Labels, Leaving
<1>25. CASE Kill(p)
  BY <1>25 DEF Kill, End
<1>. QED
  BY <1>1, <1>2, <1>3, <1>4, <1>5, <1>6, <1>7, <1>8, <1>9, <1>10, <1>11, <1>12, <1>13,
     <1>14, <1>15, <1>16, <1>17, <1>18, <1>19, <1>20, <1>21, <1>22, <1>23, <1>24, <1>25
     DEF Move, Step, setup, teardown, cleanup

\* No prefix stands for a missing state file.
LEMMA NoFileIsNone == NoFile \in Int /\ NoFile <= 0 /\ \A k \in Nat : k # NoFile
BY DEF NoFile

-----------------------------------------------------------------------------
(* The environment an invocation changes alone.                            *)

\* Nobody else's half-done work is in it: it is whole unless this invocation,
\* or one that was killed, has some of it done.
LEMMA WholeWhenSettled ==
  ASSUME EInv, NEW p \in Procs, Past(p), NS[p] \in Names,
         NS[p] \notin hurt, NS[p] \notin shared, Settled(p)
  PROVE  Whole(NS[p])
<1>1. ASSUME NEW q \in Procs, Past(q), NS[q] = NS[p]
      PROVE  Settled(q)
  <2>1. CASE q = p
    BY <2>1
  <2>2. CASE q # p
    <3>1. Sole(p, q)
      BY <2>2 DEF EInv
    <3>. QED
      BY <1>1, <3>1 DEF Sole
  <2>. QED
    BY <2>1, <2>2
<1>2. WholeUnless(NS[p])
  BY DEF EInv
<1>. QED
  BY <1>1, <1>2 DEF WholeUnless

\* Past(p) names an environment from "ensure_nsname" on, which may be none.
LEMMA PastNames ==
  ASSUME Types, NEW p \in Procs, Local(p), Past(p), pc[p] # "ensure_nsname"
  PROVE  NS[p] \in Names
BY DEF Types, Local, Past, Preparing, Building, Tearing, Undoing, Ending

\* Its steps keep what it knows of it.
LEMMA KnowsKept ==
  ASSUME EInv, NEW p \in Procs, Move(p), Past(p), NS[p] \in Names, NS[p] \notin shared,
         ~get_nsname(p), Past(p)'
  PROVE  Knows(p, NS[p])' /\ Gone(p, NS[p])'
<1>. DEFINE n == NS[p]
            Goal == Knows(p, NS[p])' /\ Gone(p, NS[p])'
<1>0. /\ Types /\ Local(p) /\ Knows(p, n) /\ Gone(p, n) /\ NS'[p] = n /\ cmd'[p] = cmd[p]
      /\ n \notin hurt /\ Settled(p) => Whole(n)
  BY PastBegins, WholeWhenSettled DEF EInv, Owned
<1>. USE <1>0 DEF Types, Local, Knows, Gone, Exists, Goto, Preparing, Building, Tearing, Undoing, Ending,
             files, kernel, locals, history
<1>1. ASSUME NEW c \in Commands, NEW name \in Names \cup {NoName}, Start(p, c, name)
      PROVE  Goal
  BY <1>1 DEF Start
<1>2. CASE get_nsname(p)
  BY <1>2 DEF get_nsname
<1>3. CASE ensure_nsname(p)
  BY <1>3 DEF ensure_nsname, Select
<1>4. CASE CheckNew(p)
  BY <1>4 DEF CheckNew
<1>5. CASE ReadNum(p)
  BY <1>5 DEF ReadNum
<1>6. CASE TakePrefix(p)
  BY <1>6 DEF TakePrefix
<1>7. CASE NetnsAdd(p)
  BY <1>7 DEF NetnsAdd
<1>8. CASE LinkAdd(p)
  BY <1>8 DEF LinkAdd
<1>9. CASE Configure(p)
  BY <1>9 DEF Configure
<1>10. CASE CreateStateFile(p)
  <2>1. CASE dir
    <3>1. statefile'[n] = 0 /\ pc'[p] = "fill" /\ netns' = netns /\ links' = links
      BY <2>1, <1>10 DEF CreateStateFile
    <3>2. 0 # NoFile
      BY NoFileIsNone
    <3>3. n \in netns /\ n \in links
      BY <1>10 DEF CreateStateFile
    <3>. QED
      BY <3>1, <3>2, <3>3
  <2>2. CASE ~dir
    BY <2>2, <1>10 DEF CreateStateFile
  <2>. QED
    BY <2>1, <2>2
<1>11. CASE FillStateFile(p)
  BY <1>11 DEF FillStateFile
<1>12. CASE RunPing(p)
  BY <1>12 DEF RunPing, Select
<1>13. CASE SetCurrent(p)
  BY <1>13 DEF SetCurrent
<1>14. CASE LinkDel(p)
  BY <1>14 DEF LinkDel, OnError, Fails, Whole, Settled
<1>15. CASE NetnsDel(p)
  BY <1>15 DEF NetnsDel, OnError, DropNetns
<1>16. CASE RmStateFile(p)
  BY <1>16 DEF RmStateFile, RemoveStateFile
<1>17. CASE RmCurrent(p)
  BY <1>17 DEF RmCurrent
<1>18. CASE Cleanup(p)
  BY <1>18 DEF Cleanup, DropNetns, Fails
<1>19. CASE UndoLink(p)
  BY <1>19 DEF UndoLink
<1>20. CASE UndoStateFile(p)
  BY <1>20 DEF UndoStateFile, RemoveStateFile
<1>21. CASE LookForStateFiles(p)
  BY <1>21 DEF LookForStateFiles, End, Past
<1>22. CASE RmFiles(p)
  BY <1>22 DEF RmFiles
<1>23. CASE RmDir(p)
  BY <1>23 DEF RmDir, End, Past
<1>24. CASE Interrupt(p)
  BY <1>24 DEF Interrupt, CleanupSteps, Past
<1>25. CASE Kill(p)
  BY <1>25 DEF Kill, End, Past
<1>. QED
  BY <1>1, <1>2, <1>3, <1>4, <1>5, <1>6, <1>7, <1>8, <1>9, <1>10, <1>11, <1>12, <1>13,
     <1>14, <1>15, <1>16, <1>17, <1>18, <1>19, <1>20, <1>21, <1>22, <1>23, <1>24, <1>25
     DEF Move, Step, setup, teardown, cleanup

\* And leave it whole unless it goes on changing it, or is stopped half-way.
LEMMA WholeAfter ==
  ASSUME EInv, NEW p \in Procs, Move(p), Past(p), NEW n \in Names, NS[p] = n,
         n \notin shared, ~get_nsname(p), Past(p)' => Settled(p)', n \notin hurt'
  PROVE  Whole(n)'
<1>0. /\ Types /\ Local(p) /\ Knows(p, n) /\ Gone(p, n)
      /\ n \notin hurt /\ Settled(p) => Whole(n)
  BY WholeWhenSettled DEF EInv, Owned
<1>. USE <1>0 DEF Types, Knows, Gone, Whole, Settled, Exists, Goto, files, kernel, history
<1>1. ASSUME NEW c \in Commands, NEW name \in Names \cup {NoName}, Start(p, c, name)
      PROVE  Whole(n)'
  BY <1>1 DEF Start, Past, Local, Preparing, Building, Tearing, Undoing, Ending, locals
<1>2. CASE get_nsname(p)
  BY <1>2 DEF get_nsname
<1>3. CASE ensure_nsname(p)
  BY <1>3 DEF ensure_nsname, Select, Undoing
<1>4. CASE CheckNew(p)
  BY <1>4 DEF CheckNew, Undoing
<1>5. CASE ReadNum(p)
  BY <1>5 DEF ReadNum, Undoing
<1>6. CASE TakePrefix(p)
  BY <1>6 DEF TakePrefix, Undoing
<1>7. CASE NetnsAdd(p)
  BY <1>7 DEF NetnsAdd, Past, Local, Preparing, Building, Tearing, Undoing, Ending, locals
<1>8. CASE LinkAdd(p)
  BY <1>8 DEF LinkAdd, Past, Local, Preparing, Building, Tearing, Undoing, Ending, locals
<1>9. CASE Configure(p)
  BY <1>9 DEF Configure, Past, Local, Preparing, Building, Tearing, Undoing, Ending, locals
<1>10. CASE CreateStateFile(p)
  <2>1. CASE dir
    <3>1. statefile'[n] = 0 /\ netns' = netns /\ links' = links
      BY <2>1, <1>10 DEF CreateStateFile
    <3>2. 0 # NoFile
      BY NoFileIsNone
    <3>3. n \in netns /\ n \in links
      BY <1>10 DEF CreateStateFile
    <3>. QED
      BY <3>1, <3>2, <3>3
  <2>2. CASE ~dir
    BY <2>2, <1>10 DEF CreateStateFile, Past, Local, Preparing, Building, Tearing,
       Undoing, Ending, locals
  <2>. QED
    BY <2>1, <2>2
<1>11. CASE FillStateFile(p)
  <2>1. CASE dir
    <3>1. statefile'[n] = IP6_PREFIX[p] /\ netns' = netns /\ links' = links
      BY <2>1, <1>11 DEF FillStateFile
    <3>2. IP6_PREFIX[p] # NoFile
      BY NoFileIsNone
    <3>3. n \in netns /\ n \in links
      BY <1>11 DEF FillStateFile
    <3>. QED
      BY <3>1, <3>2, <3>3
  <2>2. CASE ~dir
    BY <2>2, <1>11 DEF FillStateFile, Past, Local, Preparing, Building, Tearing,
       Undoing, Ending, locals
  <2>. QED
    BY <2>1, <2>2
<1>12. CASE RunPing(p)
  BY <1>12 DEF RunPing, Select, Undoing
<1>13. CASE SetCurrent(p)
  BY <1>13 DEF SetCurrent, Undoing
<1>14. CASE LinkDel(p)
  BY <1>14 DEF LinkDel, OnError, Past, Local, Preparing, Building, Tearing, Undoing,
     Ending, locals
<1>15. CASE NetnsDel(p)
  BY <1>15 DEF NetnsDel, OnError, DropNetns, Past, Local, Preparing, Building, Tearing,
     Undoing, Ending, locals
<1>16. CASE RmStateFile(p)
  BY <1>16 DEF RmStateFile, RemoveStateFile
<1>17. CASE RmCurrent(p)
  BY <1>17 DEF RmCurrent, Undoing
<1>18. CASE Cleanup(p)
  BY <1>18 DEF Cleanup, DropNetns, Past, Local, Preparing, Building, Tearing, Undoing,
     Ending, locals
<1>19. CASE UndoLink(p)
  BY <1>19 DEF UndoLink, Past, Local, Preparing, Building, Tearing, Undoing, Ending, locals
<1>20. CASE UndoStateFile(p)
  BY <1>20 DEF UndoStateFile, RemoveStateFile, Past, Local, Preparing, Building, Tearing, Undoing, Ending,
     locals
<1>21. CASE LookForStateFiles(p)
  BY <1>21 DEF LookForStateFiles, Past, Local, Preparing, Building, Tearing, Undoing,
     Ending, locals
<1>22. CASE RmFiles(p)
  BY <1>22 DEF RmFiles, Past, Local, Preparing, Building, Tearing, Undoing, Ending, locals
<1>23. CASE RmDir(p)
  BY <1>23 DEF RmDir, Past, Local, Preparing, Building, Tearing, Undoing, Ending, locals
<1>24. CASE Interrupt(p)
  BY <1>24 DEF Interrupt, CleanupSteps, MidTeardown, Labels, Before, Leaving, Past, Local,
     Preparing, Building, Tearing, Undoing, Ending, locals
<1>25. CASE Kill(p)
  BY <1>25 DEF Kill, End, MidTeardown, MidSetup, Past, Local, Preparing, Building,
     Tearing, Undoing, Ending, locals
<1>. QED
  BY <1>1, <1>2, <1>3, <1>4, <1>5, <1>6, <1>7, <1>8, <1>9, <1>10, <1>11, <1>12, <1>13,
     <1>14, <1>15, <1>16, <1>17, <1>18, <1>19, <1>20, <1>21, <1>22, <1>23, <1>24, <1>25
     DEF Move, Step, setup, teardown, cleanup

-----------------------------------------------------------------------------
(* The invariant holds.                                                    *)

\* No set-up has run.
LEMMA InitEInv == Init => EInv
<1>. SUFFICES ASSUME Init PROVE EInv
  OBVIOUS
<1>. USE DEF Init
<1>1. Types
  BY DEF Types, Labels, Before, Commands
<1>2. ASSUME NEW p \in Procs PROVE Local(p) /\ ~Past(p)
  BY DEF Local, Past, Before, Preparing, Building, Tearing, Undoing, Ending
<1>3. ASSUME NEW n \in Names PROVE Whole(n)
  BY DEF Whole, Exists
<1>. QED
  BY <1>1, <1>2, <1>3 DEF EInv, Owned, Sole, WholeUnless

\* A step of one invocation keeps the invariant.
LEMMA MoveEInv ==
  ASSUME EInv, NEW p \in Procs, Move(p)
  PROVE  EInv'
<1>1. Types /\ \A q \in Procs : Local(q) /\ Owned(q)
  BY DEF EInv
<1>2. Types'
  BY <1>1, TypesKept
<1>3. ASSUME NEW q \in Procs, q # p
      PROVE  /\ Past(q)' <=> Past(q)
             /\ Settled(q)' <=> Settled(q)
             /\ Local(q)' <=> Local(q)
             /\ NS'[q] = NS[q]
  <2>1. /\ pc'[q] = pc[q] /\ cmd'[q] = cmd[q] /\ NS'[q] = NS[q]
        /\ CLEANUP_FUNC'[q] = CLEANUP_FUNC[q]
    BY <1>1, <1>3, OthersKept
  <2>. QED
    BY <2>1 DEF Past, Settled, Local
<1>4. ASSUME NEW q \in Procs PROVE Local(q)'
  BY <1>1, <1>3, <1>4, LocalKept
<1>5. shared \subseteq shared' /\ (~get_nsname(p) => shared' = shared)
  BY SharedGrows
<1>6. get_nsname(p) => ~Past(p)
  BY <1>1 DEF get_nsname, Past, Preparing, Building, Tearing, Undoing, Ending
<1>7. ASSUME NEW q \in Procs, q # p PROVE Sole(p, q)'
  <2>. SUFFICES ASSUME Past(p)', Past(q)', NS'[p] = NS'[q] PROVE NS'[p] \in shared'
    BY DEF Sole
  <2>1. Past(q) /\ NS'[q] = NS[q]
    BY <1>3, <1>7
  <2>2. CASE get_nsname(p)
    <3>1. Changing(p)
      BY <2>2, <1>1 DEF get_nsname, Past, Changing
    <3>2. Changing(q)
      BY <2>1 DEF Past, Changing, Preparing, Building, Tearing, Undoing, Ending
    <3>. QED
      BY <2>1, <2>2, <3>1, <3>2, <1>1, <1>7 DEF get_nsname, Types
  <2>3. CASE ~get_nsname(p)
    <3>1. Past(p) /\ NS'[p] = NS[p]
      BY <2>3, <1>1, PastBegins
    <3>2. Sole(p, q)
      BY <1>7 DEF EInv
    <3>. QED
      BY <3>1, <3>2, <2>1, <1>5 DEF Sole
  <2>. QED
    BY <2>2, <2>3
<1>8. ASSUME NEW a \in Procs, NEW b \in Procs, a # b PROVE Sole(a, b)'
  <2>1. CASE a = p
    BY <2>1, <1>7, <1>8
  <2>2. CASE b = p
    <3>1. Sole(b, a)'
      BY <2>2, <1>7, <1>8
    <3>. QED
      BY <3>1 DEF Sole
  <2>3. CASE a # p /\ b # p
    <3>1. Sole(a, b)
      BY <1>8 DEF EInv
    <3>. QED
      BY <3>1, <2>3, <1>3, <1>5 DEF Sole
  <2>. QED
    BY <2>1, <2>2, <2>3
<1>9. Owned(p)'
  <2>. SUFFICES ASSUME Past(p)', NS'[p] \notin shared'
                PROVE  Knows(p, NS[p])' /\ Gone(p, NS[p])'
    BY DEF Owned
  <2>1. CASE get_nsname(p)
    <3>1. /\ pc'[p] \in {"setup", "cleanup", "ensure_nsname"} /\ cmd' = cmd
          /\ pc'[p] = "setup" => cmd[p] = "setup"
      BY <2>1, <1>1 DEF get_nsname, Goto, Types
    <3>. QED
      BY <3>1 DEF Knows, Gone, Preparing
  <2>2. CASE ~get_nsname(p)
    <3>1. Past(p) /\ NS'[p] = NS[p] /\ NS[p] \notin shared
      BY <2>2, <1>1, <1>5, PastBegins
    <3>2. CASE NS[p] \in Names
      BY <3>1, <3>2, <2>2, KnowsKept
    <3>3. CASE NS[p] \notin Names
      <4>1. pc[p] = "ensure_nsname" /\ ~Exists(NS[p])
        BY <3>1, <3>3, <1>1, PastNames DEF Exists
      <4>2. Step(p) \/ Interrupt(p) \/ Kill(p)
        BY <4>1 DEF Move, Start
      <4>3. pc'[p] \in {"cleanup", "idle"}
        BY <4>1, <4>2, <1>1, <2>2
           DEF Types, Step, setup, teardown, cleanup, Goto, End, ensure_nsname,
              Select, Interrupt, Kill,
               CheckNew, ReadNum, TakePrefix, NetnsAdd, LinkAdd, Configure, CreateStateFile,
               FillStateFile, RunPing, SetCurrent, LinkDel, NetnsDel, RmStateFile, RmCurrent,
               Cleanup, UndoLink, UndoStateFile, LookForStateFiles, RmFiles, RmDir
      <4>. QED
        BY <4>3 DEF Knows, Gone, Preparing
    <3>. QED
      BY <3>2, <3>3
  <2>. QED
    BY <2>1, <2>2
<1>10. ASSUME NEW q \in Procs PROVE Owned(q)'
  <2>1. CASE q = p
    BY <2>1, <1>9
  <2>2. CASE q # p
    <3>. SUFFICES ASSUME Past(q)', NS'[q] \notin shared'
                  PROVE  Knows(q, NS[q])' /\ Gone(q, NS[q])'
      BY DEF Owned
    <3>1. Past(q) /\ NS'[q] = NS[q] /\ NS[q] \notin shared
          /\ Knows(q, NS[q]) /\ Gone(q, NS[q])
      BY <2>2, <1>1, <1>3, <1>5 DEF Owned
    <3>2. pc'[q] = pc[q] /\ cmd'[q] = cmd[q] /\ (q \in failed' <=> q \in failed)
      BY <2>2, <1>1, OthersKept
    <3>3. CASE NS[q] \in Names
      <4>1. ~(Past(p) /\ NS[p] = NS[q])
        <5>1. Sole(p, q)
          BY <2>2 DEF EInv
        <5>. QED
          BY <5>1, <3>1 DEF Sole
      <4>2. /\ statefile'[NS[q]] = statefile[NS[q]]
            /\ NS[q] \in netns' <=> NS[q] \in netns
            /\ NS[q] \in links' <=> NS[q] \in links
            /\ NS[q] \in hurt' <=> NS[q] \in hurt
        BY <4>1, <3>3, <1>1, EnvKept
      <4>. QED
        BY <3>1, <3>2, <4>2 DEF Knows, Gone, Exists
    <3>4. CASE NS[q] \notin Names
      <4>1. pc[q] = "ensure_nsname"
        BY <3>1, <3>4, <1>1, PastNames
      <4>. QED
        BY <4>1, <3>2 DEF Knows, Gone, Preparing
    <3>. QED
      BY <3>3, <3>4
  <2>. QED
    BY <2>1, <2>2
<1>11. ASSUME NEW n \in Names PROVE WholeUnless(n)'
  <2>. SUFFICES ASSUME n \notin hurt', n \notin shared',
                       \A q \in Procs : Past(q)' /\ NS'[q] = n => Settled(q)'
                PROVE  Whole(n)'
    BY DEF WholeUnless
  <2>1. CASE Past(p) /\ NS[p] = n
    <3>1. Past(p)' => Settled(p)'
      BY <2>1, <1>1, <1>6, PastBegins
    <3>. QED
      BY <2>1, <3>1, <1>5, <1>6, WholeAfter
  <2>2. CASE ~(Past(p) /\ NS[p] = n)
    <3>1. /\ statefile'[n] = statefile[n]
          /\ n \in netns' <=> n \in netns
          /\ n \in links' <=> n \in links
          /\ n \in hurt' <=> n \in hurt
      BY <2>2, <1>1, EnvKept
    <3>2. ASSUME NEW q \in Procs, Past(q), NS[q] = n PROVE Settled(q)
      BY <2>2, <1>3, <3>2
    <3>3. WholeUnless(n)
      BY DEF EInv
    <3>4. Whole(n)
      BY <3>1, <3>2, <3>3, <1>5 DEF WholeUnless
    <3>. QED
      BY <3>1, <3>4 DEF Whole, Exists
  <2>. QED
    BY <2>1, <2>2
<1>. QED
  BY <1>2, <1>4, <1>8, <1>10, <1>11 DEF EInv

\* Every step of every script keeps the invariant.
LEMMA NextEInv == EInv /\ [Next]_vars => EInv'
<1>. SUFFICES ASSUME EInv, [Next]_vars PROVE EInv'
  OBVIOUS
<1>1. CASE Next
  <2>1. PICK p \in Procs : Move(p)
    BY <1>1 DEF Next, Move
  <2>. QED
    BY <2>1, MoveEInv
<1>2. CASE UNCHANGED vars
  <2>. USE <1>2 DEF vars, files, kernel, locals, history
  <2>1. Types'
    BY DEF EInv, Types
  <2>2. \A p \in Procs : Local(p)' /\ Owned(p)'
    <3>1. \A p \in Procs : Local(p)' <=> Local(p)
      BY DEF Local
    <3>2. \A p \in Procs : /\ Past(p)' <=> Past(p)
                           /\ Knows(p, NS[p])' <=> Knows(p, NS[p])
                           /\ Gone(p, NS[p])' <=> Gone(p, NS[p])
      BY DEF Past, Knows, Gone, Exists
    <3>. QED
      BY <3>1, <3>2 DEF EInv, Owned
  <2>3. \A p, q \in Procs : p # q => Sole(p, q)'
    BY DEF EInv, Sole, Past
  <2>4. \A n \in Names : WholeUnless(n)'
    BY DEF EInv, WholeUnless, Past, Settled, Whole, Exists
  <2>. QED
    BY <2>1, <2>2, <2>3, <2>4 DEF EInv
<1>. QED
  BY <1>1, <1>2

\* The invariant about environments holds in every reachable state.
LEMMA EInvHolds == Spec => []EInv
BY InitEInv, NextEInv, PTL DEF Spec

\* Between invocations an environment is there whole (state file, namespace,
\* interface) or not at all, for any number of invocations, except what a
\* failed deletion or a killed or interrupted script is known to leave.
THEOREM EnvironmentsWholeHolds == Spec => []EnvironmentsWhole
<1>1. EInv => EnvironmentsWhole
  <2>. SUFFICES ASSUME EInv, \A p \in Procs : pc[p] = "idle",
                       NEW n \in Names, n \notin hurt, n \notin shared
                PROVE  Whole(n)
    BY DEF EnvironmentsWhole, Whole
  <2>1. \A p \in Procs : ~Past(p)
    BY DEF Past, Preparing, Building, Tearing, Undoing, Ending
  <2>. QED
    BY <2>1 DEF EInv, WholeUnless
<1>. QED
  BY <1>1, EInvHolds, PTL

\* The second half of a reset finds its names free, for any number of
\* invocations: the first half deletes the interface and the namespace, each
\* whether or not the other was there, unless a deletion itself fails.
THEOREM ResetMeetsNoLeftoversHolds == Spec => []ResetMeetsNoLeftovers
<1>1. EInv => ResetMeetsNoLeftovers
  <2>. SUFFICES ASSUME EInv, NEW p \in Procs, cmd[p] = "reset", NS[p] \notin shared,
                       p \notin failed
                PROVE  /\ pc[p] = "netns add" => NS[p] \notin netns
                       /\ pc[p] \in {"netns add", "link add"} => NS[p] \notin links
    BY DEF ResetMeetsNoLeftovers
  <2>1. pc[p] \in {"netns add", "link add"} => Gone(p, NS[p])
    BY DEF EInv, Owned, Past, Building
  <2>. QED
    BY <2>1 DEF Gone
<1>. QED
  BY <1>1, EInvHolds, PTL

-----------------------------------------------------------------------------
(* The numbers of the prefixes, while no two invocations overlap.          *)

\* An overlap stays on record, and an invocation that moves while there is
\* none on record is the only one that runs.
LEMMA MovesAlone ==
  ASSUME PInv, NEW p \in Procs, Move(p), ~overlapped'
  PROVE  /\ ~overlapped
         /\ \A q \in Procs : q # p => pc[q] = "idle"
<1>. DEFINE Goal == /\ ~overlapped
                    /\ \A q \in Procs : q # p => pc[q] = "idle"
<1>. USE DEF PInv, Alone, history
<1>1. ASSUME NEW c \in Commands, NEW name \in Names \cup {NoName}, Start(p, c, name)
      PROVE  Goal
  BY <1>1 DEF Start
<1>2. CASE get_nsname(p)
  BY <1>2 DEF get_nsname
<1>3. CASE ensure_nsname(p)
  BY <1>3 DEF ensure_nsname
<1>4. CASE CheckNew(p)
  BY <1>4 DEF CheckNew
<1>5. CASE ReadNum(p)
  BY <1>5 DEF ReadNum
<1>6. CASE TakePrefix(p)
  BY <1>6 DEF TakePrefix
<1>7. CASE NetnsAdd(p)
  BY <1>7 DEF NetnsAdd
<1>8. CASE LinkAdd(p)
  BY <1>8 DEF LinkAdd
<1>9. CASE Configure(p)
  BY <1>9 DEF Configure
<1>10. CASE CreateStateFile(p)
  BY <1>10 DEF CreateStateFile
<1>11. CASE FillStateFile(p)
  BY <1>11 DEF FillStateFile
<1>12. CASE RunPing(p)
  BY <1>12 DEF RunPing
<1>13. CASE SetCurrent(p)
  BY <1>13 DEF SetCurrent
<1>14. CASE LinkDel(p)
  BY <1>14 DEF LinkDel
<1>15. CASE NetnsDel(p)
  BY <1>15 DEF NetnsDel
<1>16. CASE RmStateFile(p)
  BY <1>16 DEF RmStateFile, RemoveStateFile
<1>17. CASE RmCurrent(p)
  BY <1>17 DEF RmCurrent
<1>18. CASE Cleanup(p)
  BY <1>18 DEF Cleanup
<1>19. CASE UndoLink(p)
  BY <1>19 DEF UndoLink
<1>20. CASE UndoStateFile(p)
  BY <1>20 DEF UndoStateFile, RemoveStateFile
<1>21. CASE LookForStateFiles(p)
  BY <1>21 DEF LookForStateFiles
<1>22. CASE RmFiles(p)
  BY <1>22 DEF RmFiles
<1>23. CASE RmDir(p)
  BY <1>23 DEF RmDir
<1>24. CASE Interrupt(p)
  BY <1>24 DEF Interrupt, CleanupSteps
<1>25. CASE Kill(p)
  BY <1>25 DEF Kill
<1>. QED
  BY <1>1, <1>2, <1>3, <1>4, <1>5, <1>6, <1>7, <1>8, <1>9, <1>10, <1>11, <1>12, <1>13,
     <1>14, <1>15, <1>16, <1>17, <1>18, <1>19, <1>20, <1>21, <1>22, <1>23, <1>24, <1>25
     DEF Move, Step, setup, teardown, cleanup

\* The next number is above all those in use.
LEMMA AboveAll ==
  \A h \in Int : /\ h + 1 <= h + 1
                 /\ \A k \in Int : k <= h => k # h + 1 /\ k <= h + 1
OBVIOUS

\* The values read from state files are numbers.
LEMMA Numbers ==
  ASSUME Types, NEW p \in Procs
  PROVE  /\ statefile \in [Names -> Int] /\ highest_num \in Int /\ 0 <= highest_num
         /\ IP6_PREFIX[p] \in Int
<1>1. statefile \in [Names -> Nat \cup {NoFile}] /\ highest_num \in Nat /\ IP6_PREFIX[p] \in Nat
  BY DEF Types
<1>. QED
  BY <1>1, NoFileIsNone

\* The state files stay distinct and below the highest number.
LEMMA DistinctKept ==
  ASSUME Types, NEW p \in Procs, Move(p), Local(p), Reserved(p), Distinct,
         \A n \in Names : statefile[n] <= highest_num
  PROVE  Distinct' /\ \A n \in Names : statefile'[n] <= highest_num'
<1>. DEFINE Goal == Distinct' /\ \A n \in Names : statefile'[n] <= highest_num'
<1>0. /\ statefile \in [Names -> Int] /\ highest_num \in Int /\ 0 <= highest_num
      /\ IP6_PREFIX[p] \in Int
  BY Numbers
<1>. USE <1>0 DEF Distinct, Exists, files
<1>1. ASSUME NEW c \in Commands, NEW name \in Names \cup {NoName}, Start(p, c, name)
      PROVE  Goal
  BY <1>1 DEF Start
<1>2. CASE get_nsname(p)
  BY <1>2 DEF get_nsname
<1>3. CASE ensure_nsname(p)
  BY <1>3 DEF ensure_nsname, Select
<1>4. CASE CheckNew(p)
  BY <1>4 DEF CheckNew
<1>5. CASE ReadNum(p)
  BY <1>5 DEF ReadNum
<1>6. CASE TakePrefix(p)
  <2>1. dir /\ NUM[p] = highest_num + 1
    BY <1>6 DEF TakePrefix, Reserved
  <2>2. statefile' = statefile /\ highest_num' = highest_num + 1
    BY <2>1, <1>6 DEF TakePrefix, WriteNum
  <2>3. ASSUME NEW n \in Names PROVE statefile'[n] <= highest_num'
    <3>1. statefile[n] <= highest_num
      OBVIOUS
    <3>. QED
      BY <3>1, <2>2
  <2>. QED
    BY <2>2, <2>3
<1>7. CASE NetnsAdd(p)
  BY <1>7 DEF NetnsAdd
<1>8. CASE LinkAdd(p)
  BY <1>8 DEF LinkAdd
<1>9. CASE Configure(p)
  BY <1>9 DEF Configure
<1>10. CASE CreateStateFile(p)
  <2>1. CASE dir
    <3>1. statefile' = [statefile EXCEPT ![NS[p]] = 0] /\ highest_num' = highest_num
      BY <2>1, <1>10 DEF CreateStateFile
    <3>. QED
      BY <3>1
  <2>2. CASE ~dir
    BY <2>2, <1>10 DEF CreateStateFile
  <2>. QED
    BY <2>1, <2>2
<1>11. CASE FillStateFile(p)
  <2>1. CASE dir
    <3>1. statefile' = [statefile EXCEPT ![NS[p]] = IP6_PREFIX[p]] /\ highest_num' = highest_num
      BY <2>1, <1>11 DEF FillStateFile
    <3>2. IP6_PREFIX[p] <= highest_num
      BY <1>11 DEF FillStateFile, Reserved
    <3>3. IP6_PREFIX[p] # 0 => \A n \in Names : n # NS[p] => statefile[n] # IP6_PREFIX[p]
      BY <1>11 DEF FillStateFile, Reserved
    <3>. QED
      BY <3>1, <3>2, <3>3
  <2>2. CASE ~dir
    BY <2>2, <1>11 DEF FillStateFile
  <2>. QED
    BY <2>1, <2>2
<1>12. CASE RunPing(p)
  BY <1>12 DEF RunPing, Select
<1>13. CASE SetCurrent(p)
  BY <1>13 DEF SetCurrent
<1>14. CASE LinkDel(p)
  BY <1>14 DEF LinkDel
<1>15. CASE NetnsDel(p)
  BY <1>15 DEF NetnsDel
<1>16. CASE RmStateFile(p)
  <2>1. statefile' = [statefile EXCEPT ![NS[p]] = NoFile] /\ highest_num' = highest_num
    BY <1>16 DEF RmStateFile, RemoveStateFile
  <2>2. NoFile \in Int /\ NoFile <= highest_num
    BY NoFileIsNone
  <2>. QED
    BY <2>1, <2>2
<1>17. CASE RmCurrent(p)
  BY <1>17 DEF RmCurrent
<1>18. CASE Cleanup(p)
  BY <1>18 DEF Cleanup
<1>19. CASE UndoLink(p)
  BY <1>19 DEF UndoLink
<1>20. CASE UndoStateFile(p)
  <2>1. statefile' = [statefile EXCEPT ![NS[p]] = NoFile] /\ highest_num' = highest_num
    BY <1>20 DEF UndoStateFile, RemoveStateFile
  <2>2. NoFile \in Int /\ NoFile <= highest_num
    BY NoFileIsNone
  <2>. QED
    BY <2>1, <2>2
<1>21. CASE LookForStateFiles(p)
  BY <1>21 DEF LookForStateFiles
<1>22. CASE RmFiles(p)
  <2>1. \A n \in Names : statefile[n] = NoFile
    BY <1>22 DEF RmFiles, Reserved, NoStateFile
  <2>2. statefile' = statefile /\ highest_num' = 0
    BY <1>22 DEF RmFiles
  <2>. QED
    BY <2>1, <2>2, NoFileIsNone
<1>23. CASE RmDir(p)
  BY <1>23 DEF RmDir
<1>24. CASE Interrupt(p)
  BY <1>24 DEF Interrupt
<1>25. CASE Kill(p)
  BY <1>25 DEF Kill
<1>. QED
  BY <1>1, <1>2, <1>3, <1>4, <1>5, <1>6, <1>7, <1>8, <1>9, <1>10, <1>11, <1>12, <1>13,
     <1>14, <1>15, <1>16, <1>17, <1>18, <1>19, <1>20, <1>21, <1>22, <1>23, <1>24, <1>25
     DEF Move, Step, setup, teardown, cleanup

\* The prefix an invocation holds stays its own.
LEMMA ReservedKept ==
  ASSUME Types, NEW p \in Procs, Move(p), Local(p), Reserved(p), Distinct,
         \A n \in Names : statefile[n] <= highest_num
  PROVE  Reserved(p)'
<1>0. /\ statefile \in [Names -> Int] /\ highest_num \in Int /\ 0 <= highest_num
      /\ IP6_PREFIX[p] \in Int
  BY Numbers
<1>26. /\ p \in DOMAIN pc /\ p \in DOMAIN NS /\ p \in DOMAIN IP6_PREFIX /\ p \in DOMAIN NUM
  BY DEF Types
<1>. USE <1>0 DEF Goto, Reserved, files, locals
<1>1. ASSUME NEW c \in Commands, NEW name \in Names \cup {NoName}, Start(p, c, name)
      PROVE  Reserved(p)'
  BY <1>1, <1>26 DEF Start
<1>2. CASE get_nsname(p)
  BY <1>2, <1>26 DEF get_nsname
<1>3. CASE ensure_nsname(p)
  <2>1. CASE Select(p)
    <3>1. IP6_PREFIX'[p] = statefile[NS[p]] /\ NS[p] \in Names /\ Exists(NS[p])
      BY <2>1, <1>26 DEF Select, Exists
    <3>2. /\ statefile' = statefile /\ highest_num' = highest_num /\ NS' = NS
          /\ dir' = dir /\ dir
          /\ pc'[p] \in {"cleanup", "link del", "set current"}
      BY <2>1, <1>3, <1>26 DEF ensure_nsname
    <3>3. IP6_PREFIX'[p] # 0 => \A n \in Names : n # NS[p] => statefile[n] # IP6_PREFIX'[p]
      BY <3>1 DEF Distinct
    <3>. QED
      BY <3>1, <3>2, <3>3
  <2>2. CASE ~Select(p)
    BY <2>2, <1>3, <1>26 DEF ensure_nsname
  <2>. QED
    BY <2>1, <2>2
<1>4. CASE CheckNew(p)
  BY <1>4, <1>26 DEF CheckNew
<1>5. CASE ReadNum(p)
  BY <1>5, <1>26 DEF ReadNum
<1>6. CASE TakePrefix(p)
  <2>1. dir /\ NUM[p] = highest_num + 1
    BY <1>6, <1>26 DEF TakePrefix
  <2>2. /\ statefile' = statefile /\ highest_num' = highest_num + 1 /\ dir' = dir /\ NS' = NS
        /\ pc'[p] = "netns add"
        /\ IP6_PREFIX'[p] = IF IP6_PREFIX[p] = 0 THEN highest_num + 1 ELSE IP6_PREFIX[p]
    BY <2>1, <1>6, <1>26 DEF TakePrefix, WriteNum
  <2>3. CASE IP6_PREFIX[p] = 0
    <3>1. IP6_PREFIX'[p] = highest_num + 1
      BY <2>2, <2>3
    <3>2. \A n \in Names : statefile[n] # highest_num + 1
      BY AboveAll
    <3>3. IP6_PREFIX'[p] <= highest_num'
      BY <2>2, <3>1, AboveAll
    <3>. QED
      BY <2>1, <2>2, <3>1, <3>2, <3>3
  <2>4. CASE IP6_PREFIX[p] # 0
    <3>1. /\ IP6_PREFIX[p] <= highest_num
          /\ \A n \in Names : n # NS[p] => statefile[n] # IP6_PREFIX[p]
      BY <2>4, <1>6 DEF TakePrefix
    <3>2. IP6_PREFIX'[p] = IP6_PREFIX[p]
      BY <2>2, <2>4
    <3>3. IP6_PREFIX'[p] <= highest_num'
      BY <2>2, <3>1, <3>2, AboveAll
    <3>. QED
      BY <2>1, <2>2, <3>1, <3>2, <3>3
  <2>. QED
    BY <2>3, <2>4
<1>7. CASE NetnsAdd(p)
  BY <1>7, <1>26 DEF NetnsAdd
<1>8. CASE LinkAdd(p)
  BY <1>8, <1>26 DEF LinkAdd
<1>9. CASE Configure(p)
  BY <1>9, <1>26 DEF Configure
<1>10. CASE CreateStateFile(p)
  BY <1>10, <1>26 DEF CreateStateFile
<1>11. CASE FillStateFile(p)
  BY <1>11, <1>26 DEF FillStateFile
<1>12. CASE RunPing(p)
  <2>1. CASE Select(p)
    <3>1. IP6_PREFIX'[p] = statefile[NS[p]] /\ NS[p] \in Names /\ Exists(NS[p])
      BY <2>1, <1>26 DEF Select, Exists
    <3>2. /\ statefile' = statefile /\ highest_num' = highest_num /\ NS' = NS
          /\ dir' = dir /\ dir
          /\ pc'[p] \in {"cleanup", "link del", "set current"}
      BY <2>1, <1>12, <1>26 DEF RunPing
    <3>3. IP6_PREFIX'[p] # 0 => \A n \in Names : n # NS[p] => statefile[n] # IP6_PREFIX'[p]
      BY <3>1 DEF Distinct
    <3>. QED
      BY <3>1, <3>2, <3>3
  <2>2. CASE ~Select(p)
    BY <2>2, <1>12, <1>26 DEF RunPing
  <2>. QED
    BY <2>1, <2>2
<1>13. CASE SetCurrent(p)
  BY <1>13, <1>26 DEF SetCurrent
<1>14. CASE LinkDel(p)
  BY <1>14, <1>26 DEF LinkDel, OnError
<1>15. CASE NetnsDel(p)
  BY <1>15, <1>26 DEF NetnsDel, OnError
<1>16. CASE RmStateFile(p)
  BY <1>16, <1>26 DEF RmStateFile, RemoveStateFile
<1>17. CASE RmCurrent(p)
  BY <1>17, <1>26 DEF RmCurrent
<1>18. CASE Cleanup(p)
  BY <1>18, <1>26 DEF Cleanup
<1>19. CASE UndoLink(p)
  BY <1>19, <1>26 DEF UndoLink
<1>20. CASE UndoStateFile(p)
  BY <1>20, <1>26 DEF UndoStateFile, RemoveStateFile
<1>21. CASE LookForStateFiles(p)
  <2>1. CASE End(p)
    BY <2>1, <1>21, <1>26 DEF LookForStateFiles, End
  <2>2. CASE ~End(p)
    BY <2>2, <1>21, <1>26 DEF LookForStateFiles, NoStateFile, Exists
  <2>. QED
    BY <2>1, <2>2
<1>22. CASE RmFiles(p)
  BY <1>22, <1>26 DEF RmFiles
<1>23. CASE RmDir(p)
  BY <1>23, <1>26 DEF RmDir, End
<1>24. CASE Interrupt(p)
  BY <1>24, <1>26 DEF Interrupt, CleanupSteps
<1>25. CASE Kill(p)
  BY <1>25, <1>26 DEF Kill, End
<1>. QED
  BY <1>1, <1>2, <1>3, <1>4, <1>5, <1>6, <1>7, <1>8, <1>9, <1>10, <1>11, <1>12, <1>13,
     <1>14, <1>15, <1>16, <1>17, <1>18, <1>19, <1>20, <1>21, <1>22, <1>23, <1>24, <1>25
     DEF Move, Step, setup, teardown, cleanup

\* No prefix is in use.
LEMMA InitPInv == Init => PInv
<1>. SUFFICES ASSUME Init PROVE PInv
  OBVIOUS
<1>. QED
  BY NoFileIsNone DEF Init, PInv, Alone, Distinct, Exists, Reserved, NoStateFile

\* Every step keeps the invariant about prefixes.
LEMMA NextPInv == EInv /\ PInv /\ [Next]_vars => PInv'
<1>. SUFFICES ASSUME EInv, PInv, [Next]_vars PROVE PInv'
  OBVIOUS
<1>1. ASSUME NEW p \in Procs, Move(p), ~overlapped' PROVE PInv'
  <2>1. /\ ~overlapped
        /\ \A q \in Procs : q # p => pc[q] = "idle"
    BY <1>1, MovesAlone
  <2>2. /\ Types /\ Local(p) /\ Distinct
        /\ \A n \in Names : statefile[n] <= highest_num
        /\ \A q \in Procs : Reserved(q)
    BY <2>1 DEF EInv, PInv
  <2>3. ASSUME NEW q \in Procs, q # p
        PROVE  pc'[q] = "idle" /\ Reserved(q)'
    <3>1. pc'[q] = pc[q] /\ IP6_PREFIX'[q] = IP6_PREFIX[q]
      BY <1>1, <2>2, <2>3, OthersKept
    <3>2. pc[q] = "idle" /\ IP6_PREFIX[q] = 0
      BY <2>1, <2>2, <2>3 DEF Reserved
    <3>. QED
      BY <3>1, <3>2 DEF Reserved
  <2>4. Alone'
    BY <2>3 DEF Alone
  <2>5. Reserved(p)'
    BY <1>1, <2>2, ReservedKept
  <2>6. Distinct' /\ \A n \in Names : statefile'[n] <= highest_num'
    BY <1>1, <2>2, DistinctKept
  <2>7. \A q \in Procs : Reserved(q)'
    BY <2>3, <2>5
  <2>. QED
    BY <2>4, <2>6, <2>7 DEF PInv
<1>2. CASE Next
  <2>1. PICK p \in Procs : Move(p)
    BY <1>2 DEF Next, Move
  <2>. QED
    BY <2>1, <1>1 DEF PInv
<1>3. CASE UNCHANGED vars
  <2>. USE <1>3 DEF vars, files, kernel, locals, history
  <2>1. /\ overlapped' = overlapped /\ (Alone' <=> Alone) /\ (Distinct' <=> Distinct)
        /\ statefile' = statefile /\ highest_num' = highest_num
    BY DEF Alone, Distinct, Exists
  <2>2. \A p \in Procs : Reserved(p)' <=> Reserved(p)
    BY DEF Reserved, NoStateFile, Exists
  <2>. QED
    BY <2>1, <2>2 DEF PInv
<1>. QED
  BY <1>2, <1>3

\* As long as no two invocations overlap, no two environments have the same
\* prefix, for any number of environments: through killed set-ups, resets
\* that keep their prefix and the removal of highest_num.
THEOREM PrefixesUniqueHolds == Spec => []PrefixesUnique
<1>1. PInv => PrefixesUnique
  BY DEF PInv, Distinct, PrefixesUnique
<1>. QED
  BY <1>1, EInvHolds, InitPInv, NextPInv, PTL DEF Spec

=============================================================================
