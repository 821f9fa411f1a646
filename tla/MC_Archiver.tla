----------------------------- MODULE MC_Archiver -----------------------------
(***************************************************************************)
(* Constants for checking Archiver: the root, a mount point and one      *)
(* nested below it, so that resolution has prefixes of three lengths to  *)
(* choose from.  With two slots a third mount entry exceeds the capacity. *)
(***************************************************************************)
EXTENDS Archiver

MC_Root == <<>>
MC_Uris == {<<>>, <<"a">>, <<"a", "b">>}
=============================================================================
