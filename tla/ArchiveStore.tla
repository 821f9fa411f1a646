---------------------------- MODULE ArchiveStore ----------------------------
(***************************************************************************)
(* What the archiver promises its callers (spec 4.1, 4.2, 8.2, 8.3): for   *)
(* every mounted URI the tree shows some content (a version) and the file *)
(* holds the last saved one.  Content changes only by a mutation, by an   *)
(* explicit rollback, or by opening and closing the archive set; loading, *)
(* unloading and memory aging are invisible.                               *)
(*                                                                         *)
(* "discarded" is a history variable that flips on every rollback, so     *)
(* that a change of content that is not a rollback cannot pass for one.    *)
(***************************************************************************)
EXTENDS Integers

CONSTANTS
    Uris,        \* mountable URIs
    MaxVer,      \* bound on content versions
    Closed       \* the content of a URI with no archive

Versions == 0..MaxVer

VARIABLES view, saved, discarded

vars == <<view, saved, discarded>>

Open == {u \in Uris : view[u] # Closed}

TypeOK ==
    /\ view \in [Uris -> Versions \cup {Closed}]
    /\ saved \in [Uris -> Versions]
    /\ discarded \in BOOLEAN

Init ==
    /\ view = [u \in Uris |-> Closed]
    /\ saved = [u \in Uris |-> 0]
    /\ discarded = FALSE

\* Set up the archives of the URIs S: each shows what its file holds.
OpenSet(S) ==
    /\ Open = {}
    /\ view' = [u \in Uris |-> IF u \in S THEN saved[u] ELSE Closed]
    /\ UNCHANGED <<saved, discarded>>

\* Release every archive; unsaved content is gone.
CloseAll ==
    /\ view' = [u \in Uris |-> Closed]
    /\ UNCHANGED <<saved, discarded>>

\* A tree operation changes the content under u.
Mutate(u) ==
    /\ u \in Open
    /\ view[u] < MaxVer
    /\ view' = [view EXCEPT ![u] = @ + 1]
    /\ UNCHANGED <<saved, discarded>>

\* The content of the URIs S is written to their files.
Save(S) ==
    /\ S \subseteq Open
    /\ saved' = [u \in Uris |-> IF u \in S THEN view[u] ELSE saved[u]]
    /\ UNCHANGED <<view, discarded>>

\* The unsaved content of the URIs S is thrown away.
Discard(S) ==
    /\ S \subseteq Open
    /\ view' = [u \in Uris |-> IF u \in S THEN saved[u] ELSE view[u]]
    /\ discarded' = ~discarded
    /\ UNCHANGED saved

Next ==
    \/ \E S \in SUBSET Uris : OpenSet(S) \/ Save(S) \/ Discard(S)
    \/ CloseAll
    \/ \E u \in Uris : Mutate(u)

Spec == Init /\ [][Next]_vars

=============================================================================
