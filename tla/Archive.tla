------------------------------ MODULE Archive ------------------------------
(***************************************************************************)
(* SyncML_DM_Archive (dm_persist/hdr/SyncML_DM_Archive.H): the unit that  *)
(* persists one subtree of the management tree.  Only the declaration and *)
(* its inline accessors are in the repository; what serialize,            *)
(* deserialize and serializeDone do is taken from the spec (4.1).          *)
(*                                                                         *)
(* An archive is a record.  The subtree's content is abstracted to a       *)
(* version number: rootTreeNode is NoTree when the subtree is not in       *)
(* memory, else the version it holds.  m_lastAccessedTime is abstracted   *)
(* to "idle": whether more than the aging time has passed since the last  *)
(* access.                                                                 *)
(***************************************************************************)
EXTENDS Integers

\* rootTreeNode == NULL: the subtree is not in memory.
NoTree == -1

\* The members the model keeps: parent (the index of the parent archive,
\* 0 for none), m_pURI, dirty, rootTreeNode and m_lastAccessedTime.
ArchiveRec(U, V) ==
    [uri : U, parent : Nat, dirty : BOOLEAN, tree : V \cup {NoTree},
     idle : BOOLEAN]

\* SyncML_DM_Archive(env, pURI, path) followed by a successful Init(tree):
\* no parent yet, clean, nothing loaded, just accessed.
NewArchive(uri) ==
    [uri |-> uri, parent |-> 0, dirty |-> FALSE, tree |-> NoTree,
     idle |-> FALSE]

\* getRootNode() != NULL.
IsLoaded(a) == a.tree # NoTree

\* isDirty() { return dirty; }
isDirty(a) == a.dirty

\* setDirty(BOOLEAN dirty) { this->dirty = dirty; }
setDirty(a, d) == [a EXCEPT !.dirty = d]

\* getParentArchive() { return parent; }
getParentArchive(a) == a.parent

\* setParentArchive(parent) { this->parent = parent; }
setParentArchive(a, p) == [a EXCEPT !.parent = p]

\* setRootNode(DMNode* node) { rootTreeNode = node; }
setRootNode(a, t) == [a EXCEPT !.tree = t]

\* setLastAccessedTime(now): the archive is no longer idle.
setLastAccessedTime(a) == [a EXCEPT !.idle = FALSE]

\* deserialize(tree): the subtree is read from the archive's file.
Load(a, persisted) == setLastAccessedTime(setRootNode(a, persisted))

\* serialize(tree) then serializeDone(): the file holds the subtree and the
\* dirty flag is reset (spec 4.1).
SerializeDone(a) == setDirty(a, FALSE)

=============================================================================
