---------------------------- MODULE MCMapPinning ----------------------------
(***************************************************************************)
(* An instance of MapPinning for TLC: two libbpf loaders with the same     *)
(* map, a bpf_prog_load_xattr_maps loader with another one of the same     *)
(* name, and a load_bpf_object_file_reuse_maps loader.                     *)
(***************************************************************************)
EXTENDS MapPinning

TheLoaders == {"a", "b", "m", "r"}
TheKinds   == [l \in TheLoaders |-> CASE l \in {"a", "b"} -> "libbpf"
                                      [] l = "m"          -> "maps"
                                      [] l = "r"          -> "reuse"]
TheDefs    == [l \in TheLoaders |-> IF l = "m" THEN "hash" ELSE "array"]

=============================================================================
