--------------------------- MODULE MC_DMTreeJNI ----------------------------
(***************************************************************************)
(* Model values for DMTreeJNI: a 10-byte resultBuf (8192 in the code)      *)
(* that one dump of the three-node tree already overfills, text lengths    *)
(* of one to three bytes, and byte arrays shorter and longer than the     *)
(* seven bytes createLeafByte logs, and WBXML lengths up to the first    *)
(* whose six-fold no longer fits an int.                                   *)
(***************************************************************************)
EXTENDS DMTreeJNI

MC_MsgLen == [t \in {"CantGetTree", "CantGetNode", "SetOK", "CantSet",
                     "ExecOK", "CantExec", "CantGetPath", "CantGetAttr",
                     "CantGetValue", "CantGetChildren"} |-> 2]
             @@ ("NodeInfo" :> 3) @@ ("NL" :> 1)

MC_Nodes == {"root", "a", "b"}
MC_Children == ("root" :> <<"a", "b">>) @@ ("a" :> <<>>) @@ ("b" :> <<>>)
MC_ArraySizes == {0, 7}
\* An empty array, a one-byte one, and the shortest whose xmlLen wraps.
MC_WbxmlLens == {0, 1}
MC_WbxmlLensLarge == {0, 1, 357913942}

=============================================================================
