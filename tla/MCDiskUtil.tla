----------------------------- MODULE MCDiskUtil -----------------------------
(***************************************************************************)
(* Two utilities at a table of two entries, names of two bytes, and files  *)
(* on both sides of the length a name_len can count to: "" (of a path that *)
(* ends in a slash), the longest that fits, one of exactly NAME_LEN bytes  *)
(* and a longer one.  A block of cmd_format ends inside an entry.          *)
(***************************************************************************)
EXTENDS DiskUtil, TLC

AllFiles == {"", "fits", "full", "over"}
Lengths  == ("" :> 0) @@ ("fits" :> NAME_LEN - 1) @@ ("full" :> NAME_LEN) @@ ("over" :> NAME_LEN + 1)

Interchangeable == Permutations(Utilities)
=============================================================================
