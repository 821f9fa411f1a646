----------------------------- MODULE TreeMount -----------------------------
(***************************************************************************)
(* SYNCML_DM_TreeMount (dm_ua/hdr/SYNCML_DM_TreeMount.H): the list of     *)
(* mount points, each a URI mapped to a file-system path.  The class's    *)
(* bodies are not in the repository; their behaviour is taken from spec   *)
(* 4.3.  Paths are not modelled: nothing the archiver does depends on     *)
(* them, so an entry is its URI.                                           *)
(***************************************************************************)
EXTENDS Sequences, SequencesExt

CONSTANTS
    Uris,         \* URIs that may be mounted (sequences of path segments)
    MaxMounts     \* bound on the length of the mount list

\* m_astrURIs (m_astrPaths runs parallel to it).
VARIABLE mounts

\* The constructor: an empty list.
TreeMountInit == mounts = <<>>

\* TreeAddToMountList(pUri, pTreePath): fails with DuplicateMount, and
\* changes nothing, if the URI is already registered; otherwise appends.
TreeAddToMountList(u) ==
    /\ u \notin Range(mounts)
    /\ Len(mounts) < MaxMounts
    /\ mounts' = Append(mounts, u)

\* UnMountTree(): clears every registration; it does not serialize.
UnMountTree == mounts' = <<>>

\* GetTreeMountEntry(p_Uri, p_TreePath, index), a query.
GetTreeMountEntry(index) == mounts[index]

=============================================================================
