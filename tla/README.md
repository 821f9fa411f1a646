# TLA+ models of the OMA-DM engine glue (android_packages_apps_OMA-DM)

This directory holds TLA+ specifications of the parts of the repository that
have behaviour worth model checking, the TLC configurations that check them,
and `PROJECT.json`, which lists the components, runs, the code lines each
definition models (`map`), findings and hazards.

## 1. Inventory

The repository excerpt under `src/` is ten files. Only two contain code with
behaviour. The rest are header declarations whose implementations are not in
the repository.

| Component | Source | State it keeps | Operations |
|---|---|---|---|
| OTA transport session `SYNCML_DM_OTAConnection` | `src/engine/jni/DMServiceConnection.cc` | `m_maxAcptSize`, `m_szURL`, the Java connector object and its method IDs, `m_pCredHeaders` (pointer to the caller's `DMCredHeaders`) | constructor (JNI method lookups), `Init` (APN, max size), `SetURI`, `Send` (checks, hmac header, retry loop, size check, credential headers), `ProcessCredHeaders` |
| JNI tree manager | `src/engine/jni/DMTreeManager.cc` | static `ptrTree`, `s_strRootPath`, the global error `e`, the 8192-byte `resultBuf`, the registration table `gMethods` | `registerDMTreeNatives`, then the natives `setStringNode`, `getNodeInfo`, `executePlugin`, `dumpTree`, `createInterior`, `createLeaf` (string and byte forms), `deleteNode`, `nativeWbxmlToXml`. Helpers: `GetTree` (lazy open), `GetNode`, `strcatEx`, `PrintNode`, `DumpSubTree` |
| Error descriptor `PDmtErrorDescription` | `src/engine/dmlib/api/native/dmtErrorDescription.hpp` | `m_nErrorCode`, `m_strError` | constructors, `SetErrorCode`, `operator=(int)`: 0 becomes NULL, anything else non-NULL |
| Archive, Archiver | `dm_persist/hdr/SyncML_DM_Archive.H`, `SyncML_DM_Archiver.H` | dirty flag, parent archive, last accessed time, root node; `m_pArchives[32]` with slot 0 as root, `m_numArchives` | declarations only: `initArchives`, `serialize`/`deserialize` over file sets, `rollback`, `getArchiveByURI`, `CheckMemoryAging` |
| Tree mount table | `dm_ua/hdr/SYNCML_DM_TreeMount.H` | URI and path vectors | declarations only: `TreeAddToMountList`, `MountTree`, `UnMountTree`, `GetTreeMountEntry` |
| Alerts | `DMServiceAlert.h`, `SYNCML_DM_Alert.H` | message and display times | declarations and response-code constants only |
| DeviceInfo, DMServiceMain.h | | accessors, logging macros | none |

How the components interact. The DM session (not in `src/`) owns one
`SYNCML_DM_OTAConnection`. It calls `Init` and `SetURI` on it, then calls
`Send` once per SyncML package and passes its own `DMCredHeaders` object.
`Send` makes synchronous JNI calls into the Java `NetConnector`
(`sendRequest`, `getResponseLength`, `getResponseData`,
`getResponseHeader`). It writes the response's `x-syncml-hmac` credentials
back into the caller's object, even though the parameter is declared
`const`. The Java service calls the tree-manager natives. These open the
tree lazily through `DmtTreeFactory` and report through the shared
`resultBuf`. The Archiver and the mount table sit behind `DmtTreeFactory`.

What is hard. Everything here runs on the caller's thread; the spec (section 5)
states a single session. The difficulty is in failure handling and ordering:

- the retry loop's bound, what it retries and how long it sleeps;
- a 200 response whose length is -1, 0 or too large;
- the credential headers being cleared and then only partly refilled (a
  missing key, an allocation failure whose status is ignored);
- an order-dependent header scan;
- resource bounds and leaks in the JNI glue (`resultBuf`, unreleased JNI
  strings, a heap over-read, 32-bit overflow in the WBXML buffer size);
- in the archiver: aging, dirty archives, the 32-archive limit, and partial
  deserialization.

Correctness properties per component:

- OTA: it retries only transient codes, at most `DMTPT_MAX_RETRIES` times,
  and always returns. SUCCESS only for bodies of 1..`m_maxAcptSize` bytes,
  and a failed exchange leaves the caller's credentials as they were. This
  is the refinement of the abstract `OTAExchange`.
  After SUCCESS the credential triple comes from the response alone and is
  either full or empty. The header parse does not depend on pair order.
- JNI tree manager: `resultBuf` stays NUL-terminated inside its 8192 bytes.
  Every JNI string obtained is released. No read goes past an allocation.
- Archiver: a dirty archive is never aged out. At most 32 archives. A failed
  `initArchives` leaves none. Every URI resolves to the longest covering
  mount; `getArchiveByURI` has no body in `src/`, so the model defines it
  that way and this is not checked.

The full hazard list, each at its line, is in `PROJECT.json` under `hazards`.

## 2. Modules and how they map to the code

### `CredHeaderParse` models `ProcessCredHeaders` (DMServiceConnection.cc:230-313)

A header value is a sequence of `[key, val]` tokens. Trimming and
`DM_TPT_splitParamValue` are abstracted away.

- `ScanStart` is the `DmStrstr` search. It looks for `algorithm` first,
  then `username`.
- `Scanned` is the `while` loop. Later tokens overwrite earlier ones.
- `ProcessCredHeaders(h, alloc)` returns the status and the resulting triple
  (`m_oAlgorithm`, `m_oUserName`, `m_oMac`). It starts from the `Cleared`
  object that `Send` has just produced.
- `alloc` says which allocation fails, if any: the trimmed copy, or the
  algorithm, user-name or MAC buffer. The code checks the algorithm and MAC
  buffers. It does not check the user-name buffer.

### `OTAConnection` models `SYNCML_DM_OTAConnection` (DMServiceConnection.cc:7-209)

It EXTENDS `CredHeaderParse`.

| Variable | Code |
|---|---|
| `m_maxAcptSize`, `m_szURL` | the members (the constructor sets 0 and `""`) |
| `apn` | the APN enabled on the Java connector |
| `credHdr` | the caller's `DMCredHeaders` |
| `pc` | whether the caller's thread is inside `Send`'s loop |
| `wNumRetries`, `jResult` | `Send`'s locals |
| `sentHmac` | the hmac argument of `sendRequest` |
| `recvSize` | `psRecvSyncMLDocument->dataSize` |
| `ret` | the value returned by the last `Send` |
| `respHdr` | history: the `x-syncml-hmac` value of the last accepted response |
| `mids` | each `jmethodID` member: `"ok"`, `"null"` (its `GetMethodID` failed) or `"unset"` (never written). `getResponseHeader` holds the last lookup `Send` made |
| `called` | the Java methods the last step called through `CallVoidMethod`/`CallIntMethod`/`CallObjectMethod` |

`Init` is the constructor. `ConstructedIds(k)` gives the member values when
lookup `k` fails: with k = 0, `GetObjectClass` fails. k = 0 also covers
the constructor's early return when there is no Java VM, though in that
case `Init` would already fail in `getJNIEnv`; only the `GetObjectClass`
failure leads to the traces below. With a later k, the lookups before `k`
succeeded, lookup `k` stored NULL and the `goto end` skipped the rest.
`LookupMayFail` decides whether any lookup can fail.

| Action | Code |
|---|---|
| `InitConn` | `Init` |
| `SetURI` | `SetURI` |
| `SendStart` | `Send` up to the loop. Each argument check returns FAIL without a network call. Otherwise it builds `algorithm=MD5,username=..,mac=..` from a non-empty credential object |
| `SendAttempt` | one iteration of the `while` loop. `Retry` is the transient branch (count, sleep). `Accept` is the 200 branch: the length check, the body copy, `clear()` and `ProcessCredHeaders` (`ResponseCred`), with its status ignored. `Stop` returns any other code |
| `SendGiveUp` | the exit after `DMTPT_MAX_RETRIES` transient answers. It returns the last code |

`DMCredHeaders::empty` and `isCorrect` are implemented outside `src/`. They
are modelled from the spec (`CredEmpty`, `IsCorrect`) and marked
`spec_modelled`.

### `OTAExchange`: what a connection promises (abstract)

`OTAExchange` states, from spec 3 and 4.4, what one exchange promises the
session. `Submit(c)` either refuses the request at once (FAIL) or, when the
credentials are well formed, puts it in flight (`busy`). `Complete` ends it
once. It either delivers SUCCESS, a body of 1..`maxAcpt` bytes and exactly
the credentials the response grants (`Granted`: all three fields, or
none), or it refuses with a failure code and leaves the credentials and
the receive size untouched. Retries do not appear. `WF(Complete)`: a
request in flight completes.

`OTAConnection` maps onto it as `OX`. `busy` is `pc = "sending"`. The
other variables are the members, `ret`, `recvSize`, `credHdr` and
`respHdr`. `SendStart` is `Submit`. `Retry` steps are stuttering steps.
`Accept`, `Stop` and `SendGiveUp` are `Complete`. The detailed spec's
fairness on the loop gives the abstract one.

### `DMTreeJNI` models the natives of `DMTreeManager.cc` (lines 14-453)

Engine calls on the tree behind `ptrTree` are outside `src/`. Each one is an
input to the action: a boolean outcome, or for `dumpTree` a function `fault`
saying which call fails at each node. Text is a sequence of tagged pieces.
Each piece records how many bytes of it fitted into `resultBuf`.

| Variable | Code |
|---|---|
| `ptrTree` | static `ptrTree` is non-NULL. `Open`, its only reset, is never called |
| `natives` | the C functions Java can call: `{}` before `registerDMTreeNatives`, all of `gMethods` after it succeeds, `NoNatives` (a final state) after it returns `JNI_FALSE` |
| `resultBuf` | static `resultBuf`; `BufLen` is its `strlen` |
| `returned` | the `jstring` built by `NewStringUTF(resultBuf)`, or `NoString` for a `jint` native |
| `jret` | the `jint` an int native returned |
| `held` | JNI strings and array elements the last native obtained but did not release |
| `readPastEnd` | some `createLeafByte` has read past `pData` |
| `xmlAlloc` | the last `ConvertWbxml2Xml` input length and its `xmlLen` |
| `e` | the global `PDmtErrorDescription e` |
| `lastDump` | history: the root, the faults and the set of nodes the last `dumpTree` visited |

| Definition | Code |
|---|---|
| `strcatEx`, `WriteLimit` | `strcatEx`: the guard `len < RESULT_BUF_SIZE - 1`, then `vsnprintf` with size `RESULT_BUF_SIZE - len - 1` |
| `GetTree`, `GetNode` | lazy `GetSubtree` (a failure appends "Can't get tree"); `ptrTree->GetNode` |
| `PrintNode` | the pieces appended, and whether `e` is non-NULL afterwards. `e` holds `GetAttributes`' result: a failed `GetPath` is overwritten by it, and a failed `GetValue` goes to the local `ret1` |
| `DumpSubTree` | RECURSIVE: it stops after the node's line if `e` is set, and reports a failed `GetChildNodes` |
| `Ctx0`, `StrCtx`, `SetE`, `AppendText` | the statics a native starts from; a string native's `resultBuf[0] = 0x0`; `e = <engine call>`; one `strcatEx` |
| `setStringNode` ... `deleteNode`, `ConvertWbxml2Xml` | one action per native in `gMethods`, in the code's order: string obtain, reset, `GetTree`/`GetNode`, the engine call, release, return |
| `Int32Times` | `wbxmlLen * 6` in a 32-bit `int`, computed in 16-bit halves |
| `gMethods`, `registerDMTreeNatives`, `Call` | the registration table (the Java name and the C function; `createLeaf` is overloaded). `FindClass` or `RegisterNatives` failing returns `JNI_FALSE` and binds nothing. A native step is enabled only once its function is bound |

A failed registration is a final state, so the `MC_DMTreeJNI` configs set
`CHECK_DEADLOCK FALSE`. Every other state enables every native.

The global `e` is an instance of `ErrorDescription` (`ED`); `SetE` assigns
it with `operator=`, and `DumpSubTree` tests it with `operator!=(NULL)`.

### `ErrorDescription` models `PDmtErrorDescription` (dmtErrorDescription.hpp)

One descriptor `e`, a record `[code, text]`. `Construct` has one disjunct
per constructor: default (91-95), from a code (101-105), from a message
(111-114). The message constructor never writes `m_nErrorCode`, so its code
is any value of `GarbageCodes`. `SetCode` is `SetErrorCode`. `AssignCode` is
`operator=(int)`. `Assign` returns the new descriptor and whether the
returned pointer is NULL (code 0). `NotNull` and `IsNull` are the
comparisons with NULL. `DMTreeJNI` instantiates the module with codes
{0, 1} and no garbage, because no code in `src/` uses the message
constructor.

### `Archive`, `TreeMount`, `Archiver` and `ArchiveStore` (spec-modelled)

Only the declarations of these classes are in `src/`. Their behaviour comes
from spec 4.1-4.3; `PROJECT.json` marks those definitions `spec_modelled`.
The inline accessors are mapped to their lines, and the actions go through
them as the code does: `isDirty`, `setDirty`, `setRootNode`, `getRootNode`,
`getURI`, `getParentArchive` and `setParentArchive` in
`SyncML_DM_Archive.H`, and `getRootArchive` and `getNumArchives` in
`SyncML_DM_Archiver.H`. The member list is mapped too.

- `Archive` holds operators only. An archive is a record: `uri`, `parent`
  (an index, 0 for none), `dirty`, `tree` (`rootTreeNode`: the version of
  the subtree in memory, or `NoTree`) and `idle`. `idle` abstracts
  `m_lastAccessedTime`: it says whether the aging time has passed since the
  last access. Content is a small version number.
- `TreeMount` has the mount list `mounts` (URIs; paths are left out) and
  the actions `TreeAddToMountList`, which refuses a duplicate, and
  `UnMountTree`.
- `Archiver` EXTENDS both.
  - `archives` is `m_pArchives`. Index 1 is the code's slot 0, the root.
  - `disk` is the version each URI's file holds; files outlive the
    archive objects.
  - Actions:
    - `initArchives`: root first, then mount order, parents wired by
      longest prefix among the archives already built. With too many
      entries, no root entry or a failing `Init`, it builds nothing.
    - `deinitArchives`.
    - `deserialize`: the file set of an accessed URI, in index order,
      stopping at a failing archive.
    - `serialize` and `rollback` over any file set.
    - `CheckMemoryAging`.
    - `Mutate`: a tree operation that marks an archive dirty.
    - `Elapse`: time passing beyond the aging time.
- `ArchiveStore` is the abstract specification, what the archiver
  promises. For each URI there is a `view` (the content a caller sees, or
  `Closed`) and `saved` (the file). Content changes only by `Mutate`,
  `Save`, `Discard` (a rollback) and `OpenSet`/`CloseAll`. `Archiver` maps
  onto it with `View`: the loaded subtree, else the file. `disk` maps to
  `saved`. `discarded` is a history variable that flips on each rollback,
  so that no other loss of content can pass for a rollback.

### `MC_OTAConnection`, `MC_DMTreeJNI`, `MC_ErrorDescription`, `MC_Archiver` and `MC_CredHeaderParse`

These give the constants their model values. The `MC_CredHeaderParse` module
also holds the reference reading of the header grammar (spec 4.4):
`ReferenceParse`.

## 3. Runs

| Run | Config | Expect | What it shows |
|---|---|---|---|
| `ota_send` | `MC_OTAConnection.cfg` | pass | See the list below. |
| `ota_cred_alloc_fail` | `MC_OTAConnection_alloc.cfg` | violation | When an allocation fails, `Send` returns SUCCESS with a partial triple, e.g. `[MD5, <empty>, m1]` after the user-name allocation fails. This is a code bug against spec 3 and spec 7. |
| `ota_retry_wait` | `MC_OTAConnection_wait.cfg` | violation | `Send` gives up after 3 x 10 s of sleep. Spec 8.6 says (3-1) x 10 s. The code sleeps after the last attempt too. |
| `jni_tree` | `MC_DMTreeJNI.cfg` | pass | See the list below. |
| `jni_string_leak` | `MC_DMTreeJNI_leak.cfg` | violation | The first call, a `setStringNode` whose `GetTree` fails, returns holding both of its strings. Most natives never call `ReleaseStringUTFChars`. `ConvertWbxml2Xml` never releases its byte array. This is a code bug. |
| `jni_leaf_byte_overread` | `MC_DMTreeJNI_overread.cfg` | violation | `createLeafByte` with an empty array logs `pData[0..6]` of a 1-byte allocation. |
| `jni_wbxml_size` | `MC_DMTreeJNI_wbxml.cfg` | violation | A 357,913,942-byte input gives `xmlLen` = -2,147,483,644, so `new[]` gets a negative size. |
| `errdesc_msg_ctor` | `MC_ErrorDescription.cfg` | violation | A descriptor built from a message whose uninitialised code happens to be 0 compares equal to NULL, so a caller reads it as success. Spec 3 says code 0 always means success. |
| `ota_ctor_lookup` | `MC_OTAConnection_lookup.cfg` | violation | When `GetObjectClass` fails, the constructor's `goto end` leaves every method ID unwritten and records nothing. `Init` with an APN then calls `enableApnByName` through an uninitialised ID. A failed lookup of any method, or of `getResponseHeader` in `Send`, leads to the same kind of call through NULL. |
| `archiver` | `MC_Archiver.cfg` | pass | See the list below. |
| `archiver_parent_unloaded` | `MC_Archiver_parent.cfg` | violation | After `initArchives`, accessing `./a` deserializes its file set {`./a`}, and `./a` is loaded while the root is not. Memory aging likewise unloads an idle root under a dirty child. The code comment at `SyncML_DM_Archive.H:150` says a loaded archive's parent must be loaded. The spec gives no rule that keeps it loaded. |
| `cred_parse_order` | `MC_CredHeaderParse.cfg` | violation | `mac=m1,username=u1` is rejected: the scan starts at `username` and never sees `mac`. Likewise, pairs before `algorithm` are skipped. |

What the passing `ota_send` run checks:

- `RetryDiscipline`: the loop goes round only after a transient code, and it
  returns a transient code only after exactly `DMTPT_MAX_RETRIES` calls.
- `RefinesOTAExchange`: `OTAConnection` implements `OTAExchange`.
  - Retries are invisible, and a malformed credential object is never sent.
  - SUCCESS comes only with 1..`m_maxAcptSize` bytes and exactly the
    granted credentials.
  - Every failure leaves the caller's credentials and receive size as they
    were: argument checks, a size check after a 200, a non-transient code,
    or exhausted retries.
  - This depends on `clear()` and the copy coming after the size check.
  - Its mutant drops the size check's lower bound. A -1 or 0 length then
    passes as SUCCESS, which `Delivered` refuses.
  - Its fairness part (`WF(Complete)`, with `busy` as `pc = "sending"`)
    says every `Send` returns. Clear-then-populate and the all-or-nothing
    triple are the `Delivered` step: the credentials become exactly
    `Granted(h)`. `CredAllOrNothing` is kept only for the `_alloc` run,
    where it fails.
  - It does not check the receive buffer's capacity, which no model holds.

What the passing `jni_tree` run checks, for any order of native calls and
any engine failures:

- `TypeOK` includes the bound `strlen(resultBuf) + 1 <= RESULT_BUF_SIZE`:
  the buffer stays NUL-terminated inside its array, however long a dump is.
  Its mutant gives `vsnprintf` a size two bytes too large.
- `DumpVisitsReachable`: `dumpTree` visits exactly the nodes that
  `DumpReference` names. The reference is declarative, built from the tree
  graph (`Graphs`' `Descendants` and `Ancestors`): a node is visited unless
  some ancestor's `GetAttributes` or `GetChildNodes` failed. The recursion
  decides whether to go on by testing the global `e`, so `e` must hold the
  status of the node just printed. The mutant lets `operator=(0)` keep the
  old code, and the dump then stops early.

Each of these properties has a mutant in `PROJECT.json`: a plausible bug
(an off-by-one bound, a dropped lower bound, a non-transient code retried,
a stale error descriptor, a rollback that keeps the tree, aging that drops
a dirty archive) that TLC catches.

Bounds and why they are enough:

- `DMTPT_MAX_RETRIES` = 3. Its real value is defined outside `src/`, and
  any value of 1 or more exercises the same paths.
- Two transient codes, so a give-up returns the *last* one and a loop of
  transient answers is a real cycle for liveness.
- One non-retried code (404).
- Response lengths -1, 0, 1, 2 against an accepted size of 1 (0 before
  `Init`). This covers every side of `jResponseLen > 0 && jResponseLen <=
  m_maxAcptSize`.
- Every ordering of up to three distinct tokens for `x-syncml-hmac` (16
  values), plus an absent header.
- One user and one MAC, with two algorithms, so the MD5 default can be told
  apart from a given algorithm.
- The constructor always succeeds (`LookupMayFail` = FALSE). The `_lookup`
  config lets it fail.
- The run explores 43,818 distinct states in about 35 s, with the
  refinement's temporal part.

Bounds for `jni_tree`:

- `RESULT_BUF_SIZE` = 10. One dump of the three-node tree (root with two
  leaves) writes up to 12 bytes, so truncation happens. Tags are 1 to 3
  bytes long.
- Every combination of engine failures per call, including one of the five
  fault kinds at each node of a dump (125 cases).
- Byte arrays of 0 and 7 bytes for `createLeafByte`, and WBXML lengths 0
  and 1. The `_wbxml` config adds 357,913,942, the shortest input whose
  six-fold no longer fits in an `int`.
- The run explores 4,488 distinct states in about 2 minutes. Two of them
  come before or after a registration: unbound, and failed.

What the passing `archiver` run checks, for any order of mount-list
changes, `initArchives`, accesses (with failing reads), mutations,
`serialize`, `rollback`, aging and `deinitArchives`:

- `TypeOK` includes: at most `MAX_ARCHIVES` archives, with the root first.
  Its mutant lets the capacity test admit one entry too many.
- `CleanMatchesDisk`: a loaded archive that is not dirty holds what its
  file holds. Its mutant has `rollback` clear the dirty flag without
  reloading.
- `RefinesArchiveStore`: `Archiver` implements `ArchiveStore`. Reloading,
  partial deserialization and aging never change what a caller sees (spec
  8.2, 8.3). Its mutant lets aging unload a dirty archive, and the unsaved
  change disappears without a rollback.

Bounds for `archiver`: the URIs `.`, `./a` and `./a/b` (prefixes of three
lengths). `MAX_ARCHIVES` = 2, so a third mount entry exceeds the capacity
(the same test as 33 entries against 32). Versions are 0..2, so content can
change twice between saves. The run explores 57,888 distinct states in about
12 s.

The natives are called by Java whenever it chooses. No fairness is assumed,
and no liveness property is stated.

Fairness. `WF_vars(SendAttempt \/ SendGiveUp)`: once the caller's thread is
inside `Send` it keeps running. `sendRequest` and `sleep` return; the Java
connector has its own timeouts. The caller's actions (`InitConn`, `SetURI`,
`SendStart`) are not fair, because a session may stop calling.

## 4. Plan

The order is by how much behaviour the code really has.

1. Done: `CredHeaderParse` and `OTAConnection` (the core of the transport).
2. Done: the OTA constructor's lookup failures (partial construction), in
   `OTAConnection`.
3. Done: `DMTreeJNI`, every native of `DMTreeManager.cc`.
   - Done: the global `e` is an `ErrorDescription` instance.
   - Still open: check `Int32Times` against a reference over bounded inputs
     whose product fits in TLC's own integers.
4. Done: `Archive` / `Archiver` / `TreeMount`, spec-modelled, with the
   abstract `ArchiveStore` and the refinement.
5. Done: the abstract `OTAExchange` and the refinement of `Send`, and
   `registerDMTreeNatives` with its table.
   - Still open: a crash in the middle of `serialize` over a file set,
     together with `checkRecovery`, once the spec says what recovery
     restores.

## 5. Not modelled, and why

- The WBXML codec, the SyncML parser, `DmtTreeFactory` and the tree node
  operations: outside `src/`. `DMTreeJNI` treats their results as
  nondeterministic success or failure.
- Alert UI: declarations only, and out of scope in the spec.
- `Open` in `DMTreeManager.cc`: static and never called, so no run of the
  program executes it.
- `wbxml2xml`: a wrapper around the codec that nothing in `src/` calls.
  Without `__SML_WBXML__` it returns 0 (success) with the output untouched.
  `ConvertWbxml2Xml` treats that build as a failure. This is listed as a
  hazard.
- A `RegisterNatives` that binds part of the table before it fails: which
  entries the runtime binds is outside `src/`. The model binds all or
  none, and the hazard is listed.
- Logging, string formatting and `PrintNode`'s
  layout: pure I/O. Only the amount written to `resultBuf` matters.
- NULL request or credential objects passed to `Send`: the code dereferences
  them before checking. This is listed as a hazard, not enumerated.
- Concurrent callers of the natives: the natives share unsynchronised
  statics. The model runs each native as one atomic step; the callers'
  threading is in Java, outside `src/` (listed as a hazard).
- `strcatEx`'s `vsnprintf` returning -1: this happens only on encoding
  errors, and the formats are plain `%s` and `%d`.
- How values are written inside the header (e.g. a user name that contains
  the text `algorithm`, which `DmStrstr` would match inside the value):
  tokens are abstract.
- JNI local references that `Send` creates and never deletes: the capacity
  of the local-reference table and the caller's frame lifetime are outside
  `src/` (listed as a hazard).
- The OTA destructor: it only logs.
- The archiver's `checkRecovery`: the spec leaves the strategy to each
  archive subtype. So `serialize` is one atomic step and no crash is
  modelled.
- `MountTree` and `IsMountPointEnabled`: they act on the `DMTree`, which is
  outside `src/`. The archiver reads only the mount list.
- The archive's writable flag, permission mask, `LoadSkeleton`, event
  logger and LOB commit log: the spec gives them no behaviour.
- `CleanEvents`, `UpdateEvents` and `InvokeCommitPlugins`: notification
  only, with no status.
- The order in which `initArchives` wires parents: spec 4.2 wires against
  the archives already built, in mount order. That reading is modelled. A
  mount registered before its enclosing mount then gets the root as parent
  (listed as a hazard).
