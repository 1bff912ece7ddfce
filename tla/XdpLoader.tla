----------------------------- MODULE XdpLoader -----------------------------
(***************************************************************************)
(* From the command line to the XDP hook: parse_cmdline_args of            *)
(* common_params.c leaves flags in struct config option by option, and     *)
(* load_bpf_and_xdp_attach of common_user_bpf_xdp.c loads a program and    *)
(* hands the flags to xdp_link_attach (XdpLink).                           *)
(*                                                                         *)
(* Of struct config the model has xdp_flags, as a set of bits, and         *)
(* do_unload.  Device, file and section names, MAC addresses and the       *)
(* AF_XDP fields are left out; the interface is the one of XdpLink.        *)
(***************************************************************************)
EXTENDS XdpLink, Integers, Sequences

CONSTANTS
  Options,      \* the options on the command lines, by their getopt letter
  MaxOptions,   \* bound: options on the command line of each process
  Default       \* xdp_flags as the program sets them before it parses

XDP_FLAGS_MODES == Slots  \* XDP_FLAGS_SKB_MODE, _DRV_MODE and _HW_MODE
IF_NOEXIST      == "UPDATE_IF_NOEXIST"

ASSUME LoaderAssumption ==
  /\ MaxOptions \in [Procs -> Nat]
  /\ Default \in {modes \cup more : modes \in {{}} \cup {{s} : s \in Slots},
                                    more \in {{}, {IF_NOEXIST}}}

VARIABLES
  argv,    \* the options of each process
  optind,  \* the next one
  cfg,     \* struct config
  stage    \* "options", "link" (in XdpLink), or "exit"

loaderVars == <<argv, optind, cfg, stage>>

ArgLists(p) == UNION {[1 .. n -> Options] : n \in 0 .. MaxOptions[p]}

\* Nobody has asked the kernel for anything yet, req is still to be filled in.
NoRequest ==
  [call |-> "xdp_link_attach", mode |-> "auto", noexist |-> TRUE, expected |-> NoProg]

LoaderInit ==
  /\ Init
  /\ req = [p \in Procs |-> NoRequest]
  /\ argv \in {a \in [Procs -> UNION {ArgLists(p) : p \in Procs}] :
               \A p \in Procs : a[p] \in ArgLists(p)}
  /\ optind = [p \in Procs |-> 1]
  /\ cfg = [p \in Procs |-> [xdp_flags |-> Default, do_unload |-> FALSE]]
  /\ stage = [p \in Procs |-> "options"]

-----------------------------------------------------------------------------
(* parse_cmdline_args.                                                     *)

\* Mutant of WithMode: the bits of an earlier option stay.
WithMode_NotCleared(flags, modes) == flags \cup modes

\* cfg->xdp_flags &= ~XDP_FLAGS_MODES, and the bit of the mode set.
WithMode(flags, modes) == (flags \ XDP_FLAGS_MODES) \cup modes

\* Mutant of Flags: -S starts from nothing.
Flags_SkbOnly(flags, opt) ==
  CASE opt = "A" -> WithMode(flags, {})
    [] opt = "S" -> {"skb"}
    [] opt = "N" -> WithMode(flags, {"drv"})
    [] opt = "offload-mode" -> WithMode(flags, {"hw"})
    [] opt = "F" -> flags \ {IF_NOEXIST}
    [] OTHER -> flags

\* What an option makes of xdp_flags.
Flags(flags, opt) ==
  CASE opt = "A" -> WithMode(flags, {})
    [] opt = "S" -> WithMode(flags, {"skb"})
    [] opt = "N" -> WithMode(flags, {"drv"})
    [] opt = "offload-mode" -> WithMode(flags, {"hw"})
    [] opt = "F" -> flags \ {IF_NOEXIST}
    [] OTHER -> flags

\* The options that end the program, help and what getopt_long does not know
\* or misses the argument of ("?"), and those that can, with the name of a
\* device that is too long or not there.
Exits   == {"h", "?"}
MayFail == Exits \cup {"d", "r"}

\* option_wrappers_to_options finds no memory for the table of the options.
OutOfMemory(p) ==
  /\ stage[p] = "options" /\ optind[p] = 1
  /\ stage' = [stage EXCEPT ![p] = "exit"]
  /\ UNCHANGED <<vars, argv, optind, cfg>>

\* One round of the getopt_long loop.
ParseOption(p) ==
  LET opt == argv[p][optind[p]]
  IN  /\ stage[p] = "options" /\ optind[p] <= Len(argv[p])
      /\ optind' = [optind EXCEPT ![p] = @ + 1]
      /\ \/ /\ opt \notin Exits
            /\ cfg' = [cfg EXCEPT ![p] = [xdp_flags |-> Flags(@.xdp_flags, opt),
                                          do_unload |-> @.do_unload \/ opt = "U"]]
            /\ UNCHANGED stage
         \/ /\ opt \in MayFail
            /\ stage' = [stage EXCEPT ![p] = "exit"]
            /\ UNCHANGED cfg
      /\ UNCHANGED <<vars, argv>>

\* The loop has ended.
Parsed(p) == stage[p] = "options" /\ optind[p] > Len(argv[p])

-----------------------------------------------------------------------------
\* The mode of the flags; no option leaves two bits.
ModeIn(bits) == IF bits = {} THEN "auto" ELSE CHOOSE s \in bits : TRUE
ModeOf(flags) == ModeIn(flags \cap XDP_FLAGS_MODES)

\* load_bpf_and_xdp_attach: the object is loaded and its program found, or
\* the process exits with EXIT_FAIL_BPF; then xdp_link_attach is called.
load_bpf_and_xdp_attach(p) ==
  /\ Parsed(p) /\ ~cfg[p].do_unload
  /\ \/ /\ req' = [req EXCEPT ![p] =
                     [call |-> "xdp_link_attach", mode |-> ModeOf(cfg[p].xdp_flags),
                      noexist |-> IF_NOEXIST \in cfg[p].xdp_flags, expected |-> NoProg]]
        /\ stage' = [stage EXCEPT ![p] = "link"]
     \/ stage' = [stage EXCEPT ![p] = "exit"] /\ UNCHANGED req
  /\ UNCHANGED <<pc, link, curr_prog_id, emptied_by, argv, optind, cfg>>

\* With do_unload the program calls xdp_link_detach instead.
DoUnload(p) ==
  /\ Parsed(p) /\ cfg[p].do_unload
  /\ \E id \in Procs \cup {NoProg} :
       req' = [req EXCEPT ![p] =
                 [call |-> "xdp_link_detach", mode |-> ModeOf(cfg[p].xdp_flags),
                  noexist |-> FALSE, expected |-> id]]
  /\ stage' = [stage EXCEPT ![p] = "link"]
  /\ UNCHANGED <<pc, link, curr_prog_id, emptied_by, argv, optind, cfg>>

Link(p) ==
  /\ stage[p] = "link"
  /\ Step(p) \/ Kill(p)
  /\ UNCHANGED loaderVars

LoaderNext ==
  \E p \in Procs :
    \/ OutOfMemory(p) \/ ParseOption(p)
    \/ load_bpf_and_xdp_attach(p) \/ DoUnload(p) \/ Link(p)

LoaderSpec == LoaderInit /\ [][LoaderNext]_<<vars, loaderVars>>

-----------------------------------------------------------------------------
(* Properties.                                                             *)

Given(p, opt) == \E i \in DOMAIN argv[p] : argv[p][i] = opt

\* In a program that starts with XDP_FLAGS_UPDATE_IF_NOEXIST, an attach without
\* --force on the command line displaces nobody's program, whatever the other
\* options are and whatever stands between them.
OnlyForceDisplaces ==
  [][\A p \in Procs, s \in Slots :
       (/\ IF_NOEXIST \in Default /\ ~Given(p, "F")
        /\ req[p].call = "xdp_link_attach" /\ pc'[p] # pc[p] /\ link[s] # NoProg)
       => link'[s] = link[s]]_<<vars, loaderVars>>

\* The mode options and what they stand for.
ModeOptions == {"A", "S", "N", "offload-mode"}
ModeGiven(opt) ==
  CASE opt = "A" -> "auto" [] opt = "S" -> "skb" [] opt = "N" -> "drv" [] OTHER -> "hw"

\* Option i is the last mode option among the first n.
LastMode(p, i, n) ==
  /\ i \in 1 .. n /\ argv[p][i] \in ModeOptions
  /\ \A j \in i + 1 .. n : argv[p][j] \notin ModeOptions
NoMode(p, n) == \A j \in 1 .. n : argv[p][j] \notin ModeOptions

\* A program is attached in the mode of the last mode option given, or in the
\* mode the program started with, and nowhere else.
AttachedInLastMode ==
  \A p \in Procs, s \in Slots :
    link[s] = p =>
      LET n == Len(argv[p])
      IN  /\ \A i \in 1 .. n :
               LastMode(p, i, n) => s = SlotOf(ModeGiven(argv[p][i]))
          /\ NoMode(p, n) => s = SlotOf(ModeOf(Default))

=============================================================================
