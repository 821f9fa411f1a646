------------------------------ MODULE Archiver ------------------------------
(***************************************************************************)
(* SyncML_DM_Archiver (dm_persist/hdr/SyncML_DM_Archiver.H) with the mount *)
(* table it is built from.  m_pArchives is a sequence of Archive records   *)
(* (index 1 is the code's slot 0, the root); its length is m_numArchives. *)
(* The method bodies are not in the repository: initArchives, deserialize, *)
(* serialize, rollback, CheckMemoryAging and the URI lookups follow spec  *)
(* 4.2.  The files are "disk": the version each mounted URI's file holds. *)
(* They outlive the archive objects.                                       *)
(***************************************************************************)
EXTENDS Integers, Sequences, SequencesExt, FiniteSets, Archive, TreeMount

CONSTANTS
    MAX_ARCHIVES,   \* the capacity of m_pArchives
    Root,           \* the URI of the tree's root
    MaxVer,         \* bound on content versions
    Closed          \* the abstract content of a URI with no archive

Versions == 0..MaxVer

VARIABLES
    archives,       \* m_pArchives[0 .. m_numArchives - 1]
    disk,           \* the content each URI's file holds
    discarded       \* history: flips on every rollback

vars == <<mounts, archives, disk, discarded>>

UriOf(i) == archives[i].uri

\* getNumArchives() { return m_numArchives; }
getNumArchives == Len(archives)

\* getRootArchive() { return m_pArchives[0]; }
getRootArchive == archives[1]

(***************************************************************************)
(* URI resolution (spec 4.2, 8.1): the archive whose URI is the longest    *)
(* prefix of the query: a scan of m_pArchives keeping the longest match   *)
(* so far (0 is NULL).                                                     *)
(***************************************************************************)
getArchiveByURI(u) ==
    FoldLeftDomain(LAMBDA best, i :
                      IF IsPrefix(UriOf(i), u)
                         /\ (best = 0 \/ Len(UriOf(i)) > Len(UriOf(best)))
                      THEN i ELSE best,
                   0, archives)

\* getArchivesByURI: the file set of the archive containing the URI and of
\* every archive mounted below it (the URI need not be a node).
getArchivesByURI(u) ==
    ({getArchiveByURI(u)} \ {0})
      \cup {i \in DOMAIN archives : IsStrictPrefix(u, UriOf(i))}

(***************************************************************************)
(* initArchives: one archive per mount entry, root first, each wired to    *)
(* the already-registered archive with the longest URI prefix.             *)
(***************************************************************************)
RootFirst == <<Root>> \o SelectSeq(mounts, LAMBDA u : u # Root)

WireParent(order, k) ==
    LET cand == {j \in 1..k-1 : IsStrictPrefix(order[j], order[k])}
    IN  IF cand = {} THEN 0
        ELSE CHOOSE j \in cand : \A j2 \in cand : Len(order[j2]) <= Len(order[j])

\* Fault a property must catch: the capacity test admitting one too many.
CapacityExceededOffByOne(n) == n > MAX_ARCHIVES + 1

\* CapacityExceeded: more mount entries than m_pArchives has slots.
CapacityExceeded(n) == n > MAX_ARCHIVES

\* Only the successful outcome changes state: with CapacityExceeded, with
\* no root entry, or when an archive's Init fails, initArchives destroys
\* what it built and returns with no archive.
initArchives ==
    /\ getNumArchives = 0
    /\ Root \in Range(mounts)
    /\ ~CapacityExceeded(Len(mounts))
    /\ archives' = [k \in 1..Len(RootFirst) |->
                      setParentArchive(NewArchive(RootFirst[k]),
                                       WireParent(RootFirst, k))]
    /\ UNCHANGED <<mounts, disk, discarded>>

\* deinitArchives: every archive object is freed.
deinitArchives ==
    /\ getNumArchives > 0
    /\ archives' = <<>>
    /\ UNCHANGED <<mounts, disk, discarded>>

(***************************************************************************)
(* deserialize(nFileSet): each archive of the set that is not in memory is *)
(* read from its file, in index order, stopping at the first failure       *)
(* (failAt; 0 when none fails).  Archives read before it stay loaded.      *)
(* Every archive the call reaches counts as accessed.  The file sets are   *)
(* those getArchivesByURI gives for the URI being accessed.                *)
(***************************************************************************)
deserialize(fs, failAt) ==
    /\ failAt = 0 \/ (failAt \in fs /\ ~IsLoaded(archives[failAt]))
    /\ archives' =
         [i \in DOMAIN archives |->
            IF i \in fs /\ (failAt = 0 \/ i < failAt)
            THEN IF IsLoaded(archives[i])
                 THEN setLastAccessedTime(archives[i])
                 ELSE Load(archives[i], disk[UriOf(i)])
            ELSE archives[i]]
    /\ UNCHANGED <<mounts, disk, discarded>>

\* serialize(nFileSet, szURI): every dirty archive of the set is written.
serialize(fs) ==
    /\ disk' = [u \in Uris |->
                  IF \E i \in fs : UriOf(i) = u /\ isDirty(archives[i])
                  THEN archives[CHOOSE i \in fs : UriOf(i) = u].tree
                  ELSE disk[u]]
    /\ archives' = [i \in DOMAIN archives |->
                      IF i \in fs /\ isDirty(archives[i])
                      THEN SerializeDone(archives[i]) ELSE archives[i]]
    /\ UNCHANGED <<mounts, discarded>>

\* Fault a property must catch: rollback clearing the dirty flag without
\* reloading the subtree.
rollbackKeepTree(fs) ==
    /\ archives' = [i \in DOMAIN archives |->
                      IF i \in fs THEN setDirty(archives[i], FALSE)
                      ELSE archives[i]]
    /\ discarded' = ~discarded
    /\ UNCHANGED <<mounts, disk>>

\* rollback(nFileSet): the in-memory changes of the set are discarded and
\* each loaded subtree is reloaded from its file.
rollback(fs) ==
    /\ archives' = [i \in DOMAIN archives |->
                      IF i \in fs
                      THEN LET a == setDirty(archives[i], FALSE)
                           IN  IF IsLoaded(a) THEN setRootNode(a, disk[UriOf(i)])
                               ELSE a
                      ELSE archives[i]]
    /\ discarded' = ~discarded
    /\ UNCHANGED <<mounts, disk>>

\* Fault a property must catch: aging that also unloads dirty archives.
AgeableAnyDirty(a) == IsLoaded(a) /\ a.idle

\* Spec 4.2, 8.3: loaded, not dirty, and idle longer than the aging time.
Ageable(a) == IsLoaded(a) /\ ~isDirty(a) /\ a.idle

\* CheckMemoryAging(nAgingTime): unload every ageable archive.
CheckMemoryAging ==
    /\ \E i \in DOMAIN archives : Ageable(archives[i])
    /\ archives' = [i \in DOMAIN archives |->
                      IF Ageable(archives[i])
                      THEN setRootNode(archives[i], NoTree) ELSE archives[i]]
    /\ UNCHANGED <<mounts, disk, discarded>>

\* A tree operation changes the subtree of archive i: it is marked dirty
\* (setDirty) and accessed.
Mutate(i) ==
    /\ IsLoaded(archives[i])
    /\ archives[i].tree < MaxVer
    /\ archives' = [archives EXCEPT ![i] =
                      setLastAccessedTime(setDirty(setRootNode(@, @.tree + 1),
                                                   TRUE))]
    /\ UNCHANGED <<mounts, disk, discarded>>

\* Time passes beyond the aging time: every archive is idle.
Elapse ==
    /\ \E i \in DOMAIN archives : ~archives[i].idle
    /\ archives' = [i \in DOMAIN archives |-> [archives[i] EXCEPT !.idle = TRUE]]
    /\ UNCHANGED <<mounts, disk, discarded>>

MountOp ==
    /\ \/ \E u \in Uris : TreeAddToMountList(u)
       \/ UnMountTree
    /\ UNCHANGED <<archives, disk, discarded>>

Init ==
    /\ TreeMountInit
    /\ archives = <<>>
    /\ disk = [u \in Uris |-> 0]
    /\ discarded = FALSE

Next ==
    \/ MountOp
    \/ initArchives
    \/ deinitArchives
    \/ \E u \in Uris, failAt \in DOMAIN archives \cup {0} :
          deserialize(getArchivesByURI(u), failAt)
    \/ \E fs \in SUBSET DOMAIN archives : serialize(fs) \/ rollback(fs)
    \/ CheckMemoryAging
    \/ \E i \in DOMAIN archives : Mutate(i)
    \/ Elapse

Spec == Init /\ [][Next]_vars

-----------------------------------------------------------------------------
(***************************************************************************)
(* Properties.                                                             *)
(***************************************************************************)

TypeOK ==
    /\ mounts \in Seq(Uris) /\ Len(mounts) <= MaxMounts
    /\ archives \in Seq(ArchiveRec(Uris, Versions))
    /\ Len(archives) <= MAX_ARCHIVES
    /\ archives # <<>> => getRootArchive.uri = Root /\ getParentArchive(getRootArchive) = 0
    /\ disk \in [Uris -> Versions]
    /\ discarded \in BOOLEAN

\* A loaded archive that is not dirty holds what its file holds: a
\* serialize, rollback or reload never leaves a clean archive whose
\* subtree differs from its file (memory aging relies on this when it
\* drops a clean subtree).
CleanMatchesDisk ==
    \A i \in DOMAIN archives :
        IsLoaded(archives[i]) /\ ~archives[i].dirty =>
            archives[i].tree = disk[UriOf(i)]

\* The tree content the archiver shows for each URI: the loaded subtree,
\* or, for an archive not in memory, its file.
View ==
    [u \in Uris |->
        IF \E i \in DOMAIN archives : UriOf(i) = u
        THEN LET a == archives[CHOOSE i \in DOMAIN archives : UriOf(i) = u]
             IN  IF IsLoaded(a) THEN a.tree ELSE disk[u]
        ELSE Closed]

AS == INSTANCE ArchiveStore WITH view <- View, saved <- disk

\* The archiver implements ArchiveStore: loading, reloading, memory aging
\* and partial deserialization never change the content a caller sees;
\* content changes only by a tree operation, a rollback, or opening and
\* closing the archive set (spec 8.2, 8.3).
RefinesArchiveStore == AS!Spec

\* SyncML_DM_Archive.H:150, "when loaded, parent MUST have already been
\* loaded": an archive in memory has its parent archive in memory.
LoadedHasLoadedParent ==
    \A i \in DOMAIN archives :
        IsLoaded(archives[i]) /\ getParentArchive(archives[i]) # 0 =>
            IsLoaded(archives[getParentArchive(archives[i])])

=============================================================================
