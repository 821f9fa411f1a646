-------------------------- MODULE CredHeaderParse --------------------------
(***************************************************************************)
(* SYNCML_DM_OTAConnection::ProcessCredHeaders                             *)
(* (src/engine/jni/DMServiceConnection.cc): parsing the x-syncml-hmac      *)
(* response header into the DMCredHeaders triple (algorithm, username,    *)
(* mac), including its allocation-failure exits.                          *)
(***************************************************************************)
EXTENDS Integers, Sequences, SequencesExt

CONSTANTS
    Empty,           \* an empty DMString / DMBuffer
    AllocMayFail     \* whether DmAllocMem may return NULL

SUCCESS == "SYNCML_DM_SUCCESS"
FAIL == "SYNCML_DM_FAIL"
DEVICE_FULL == "SYNCML_DM_DEVICE_FULL"

Cleared == [m_oAlgorithm |-> Empty, m_oUserName |-> Empty, m_oMac |-> Empty]

(***************************************************************************)
(* ProcessCredHeaders.  A header value is a sequence of key=value tokens   *)
(* (DM_TPT_splitParamValue and the whitespace trimming are abstracted).   *)
(* The scan starts at the first "algorithm" token found by DmStrstr, or,  *)
(* if there is none, at the first "username" token; tokens before that    *)
(* point are never looked at.  A later token of the same key overwrites   *)
(* an earlier one.                                                         *)
(***************************************************************************)
ScanStart(h) ==
    LET a == SelectInSeq(h, LAMBDA t : t.key = "algorithm")
    IN  IF a # 0 THEN a ELSE SelectInSeq(h, LAMBDA t : t.key = "username")

Scanned(h) ==
    LET Step(acc, t) ==
            IF t.key \in DOMAIN acc THEN [acc EXCEPT ![t.key] = t.val] ELSE acc
        none == [algorithm |-> Empty, username |-> Empty, mac |-> Empty]
    IN  IF ScanStart(h) = 0 THEN none
        ELSE FoldLeft(Step, none, SubSeq(h, ScanStart(h), Len(h)))

\* Where an allocation fails, if one does: the trimmed copy, or the
\* buffers of m_oAlgorithm, m_oUserName or m_oMac.
AllocOutcomes ==
    IF AllocMayFail THEN {"none", "trim", "alg", "user", "mac"} ELSE {"none"}

\* The status ProcessCredHeaders returns and the credential headers it
\* leaves, starting from the Cleared headers Send has just produced.
ProcessCredHeaders(h, alloc) ==
    LET f   == Scanned(h)
        alg == IF f.algorithm # Empty THEN f.algorithm ELSE "MD5"
    IN  CASE alloc = "trim"                           -> [st |-> FAIL, cred |-> Cleared]
          [] f.username = Empty \/ f.mac = Empty      -> [st |-> FAIL, cred |-> Cleared]
          [] alloc = "alg"                            -> [st |-> DEVICE_FULL, cred |-> Cleared]
          [] alloc = "user" ->
                [st |-> SUCCESS, cred |-> [m_oAlgorithm |-> alg, m_oUserName |-> Empty,
                                           m_oMac |-> f.mac]]
          [] alloc = "mac" ->
                [st |-> DEVICE_FULL, cred |-> [m_oAlgorithm |-> alg,
                                               m_oUserName |-> f.username, m_oMac |-> Empty]]
          [] OTHER ->
                [st |-> SUCCESS, cred |-> [m_oAlgorithm |-> alg,
                                           m_oUserName |-> f.username, m_oMac |-> f.mac]]

=============================================================================
