--------------------------- MODULE OTAConnection ---------------------------
(***************************************************************************)
(* SYNCML_DM_OTAConnection (src/engine/jni/DMServiceConnection.cc): one   *)
(* connection object used by the single DM session.  Init sets the        *)
(* maximum accepted response size, SetURI the server URL, and Send runs   *)
(* one request/response exchange: argument checks, building the outgoing  *)
(* x-syncml-hmac header, a retry loop over the Java sendRequest call, the  *)
(* response size check, and the replacement of the caller's credential    *)
(* headers by those parsed from the response (ProcessCredHeaders).        *)
(*                                                                         *)
(* Send runs on the caller's thread; its loop is modelled one iteration   *)
(* per step (SendAttempt) so that the network's answer to each call is a  *)
(* separate nondeterministic choice.                                       *)
(***************************************************************************)
EXTENDS Integers, Sequences, SequencesExt, FiniteSets, CredHeaderParse

CONSTANTS
    MaxRetries,      \* DMTPT_MAX_RETRIES
    RetryDelay,      \* the sleep(10) between attempts, in seconds
    OK200,           \* HTTP 200 as returned by sendRequest
    TransientCodes,  \* SOCKET_TIMEOUT, SOCKET_CONNECT_ERR, NO_HTTP_RESPONSE, ...
    OtherCodes,      \* any other result of sendRequest (not retried)
    RespLengths,     \* values getResponseLength() may return
    AcptSizes,       \* dwMaxAcptSize values a caller passes to Init
    URLs, APNs,      \* SetURI arguments, Init ConRef arguments
    Algs, Users, Macs, \* credential field values
    Headers,         \* x-syncml-hmac values: sequences of key=value tokens
    NoHeader,        \* getResponseHeader returned NULL
    LookupMayFail    \* whether GetObjectClass / GetMethodID may return NULL

ASSUME MaxRetries \in Nat \ {0}
ASSUME OK200 \notin TransientCodes \cup OtherCodes
ASSUME TransientCodes \cap OtherCodes = {}

\* Everything sendRequest can return.
Results == TransientCodes \cup OtherCodes \cup {OK200}

\* DMCredHeaders: m_oAlgorithm, m_oUserName, m_oMac.
CredHeaders == [m_oAlgorithm : Algs \cup {Empty},
                m_oUserName  : Users \cup {Empty},
                m_oMac       : Macs \cup {Empty}]

\* DMCredHeaders::empty() and ::isCorrect() (not under src/): a header is
\* empty when it carries neither user name nor MAC, and well formed when it
\* carries both or neither.
CredEmpty(c) == c.m_oUserName = Empty /\ c.m_oMac = Empty
IsCorrect(c) == CredEmpty(c) \/ (c.m_oUserName # Empty /\ c.m_oMac # Empty)

\* The Java methods the constructor looks up, in the order it does, and
\* getResponseHeader, which Send looks up itself for each 200 response.
CtorMethods == <<"sendRequest", "getResponseLength", "getResponseData",
                 "setContentType", "enableApnByName">>
Methods == Range(CtorMethods) \cup {"getResponseHeader"}

(***************************************************************************)
(* The constructor's method IDs when lookup k fails (k = 0: GetObjectClass *)
(* fails, or there is no Java VM and the constructor returns at once; k =  *)
(* Len(CtorMethods) + 1: nothing fails).  The failed lookup stores NULL;   *)
(* the "goto end" leaves every later member uninitialised ("unset").      *)
(***************************************************************************)
ConstructedIds(k) ==
    [m \in Methods |->
        IF m = "getResponseHeader" THEN "unset"
        ELSE LET i == CHOOSE j \in DOMAIN CtorMethods : CtorMethods[j] = m
             IN  CASE i < k -> "ok" [] i = k -> "null" [] OTHER -> "unset"]

CtorOutcomes ==
    IF LookupMayFail THEN 0..Len(CtorMethods) + 1 ELSE {Len(CtorMethods) + 1}

\* What GetMethodID(jNetConnCls, "getResponseHeader", ...) may return.
LookupOutcomes == IF LookupMayFail THEN {"ok", "null"} ELSE {"ok"}

-----------------------------------------------------------------------------
VARIABLES
    m_maxAcptSize,   \* set by Init
    m_szURL,         \* set by SetURI
    apn,             \* last APN enabled on the Java connector by Init
    credHdr,         \* the caller's DMCredHeaders object passed to Send
    pc,              \* "idle" between calls, "sending" inside Send's loop
    wNumRetries,     \* Send's retry counter
    jResult,         \* result of the last sendRequest call in this Send
    sentHmac,        \* the hmac argument passed to sendRequest (or NoHeader)
    recvSize,        \* psRecvSyncMLDocument->dataSize
    ret,             \* value the last Send returned
    mids,            \* each method ID: resolved, NULL or never written
    called,          \* the Java methods the last step called
    \* history, for the properties only:
    respHdr          \* x-syncml-hmac of the last accepted 200 response

vars == <<m_maxAcptSize, m_szURL, apn, credHdr, pc, wNumRetries, jResult,
          sentHmac, recvSize, ret, mids, called, respHdr>>

Undef == "undef"

TypeOK ==
    /\ m_maxAcptSize \in AcptSizes \cup {0}
    /\ m_szURL \in URLs \cup {Empty}
    /\ apn \in APNs \cup {Empty}
    /\ credHdr \in CredHeaders
    /\ pc \in {"idle", "sending"}
    /\ wNumRetries \in 0..MaxRetries
    /\ jResult \in Results \cup {Undef}
    /\ sentHmac \in [user : Users \cup {Empty}, mac : Macs \cup {Empty}] \cup {NoHeader}
    /\ recvSize \in RespLengths \cup {0}
    /\ ret \in Results \cup {SUCCESS, FAIL, Undef}
    /\ respHdr \in Headers \cup {NoHeader}
    /\ mids \in [Methods -> {"ok", "null", "unset"}]
    /\ called \subseteq Methods

\* The constructor: m_maxAcptSize = 0, m_szURL = "", then the lookups of
\* the Java connector's methods.  The caller's credential object may hold
\* anything before the first Send.
Init ==
    /\ \E k \in CtorOutcomes : mids = ConstructedIds(k)
    /\ called = {}
    /\ m_maxAcptSize = 0
    /\ m_szURL = Empty
    /\ apn = Empty
    /\ credHdr \in CredHeaders
    /\ pc = "idle"
    /\ wNumRetries = 0
    /\ jResult = Undef
    /\ sentHmac = NoHeader
    /\ recvSize = 0
    /\ ret = Undef
    /\ respHdr = NoHeader

-----------------------------------------------------------------------------
(***************************************************************************)
(* Init(dwMaxAcptSize, AddressType, ConRef): enables the APN named by     *)
(* ConRef on the Java connector when one is given, then records the       *)
(* maximum accepted response size.                                        *)
(***************************************************************************)
InitConn(dwMaxAcptSize, ConRef) ==
    /\ pc = "idle"
    /\ apn' = IF ConRef # Empty THEN ConRef ELSE apn
    /\ called' = IF ConRef # Empty THEN {"enableApnByName"} ELSE {}
    /\ m_maxAcptSize' = dwMaxAcptSize
    /\ UNCHANGED <<m_szURL, credHdr, pc, wNumRetries, jResult, sentHmac, recvSize,
                   ret, mids, respHdr>>

SetURI(szURL) ==
    /\ pc = "idle"
    /\ m_szURL' = szURL
    /\ called' = {}
    /\ UNCHANGED <<m_maxAcptSize, apn, credHdr, pc, wNumRetries, jResult, sentHmac,
                   recvSize, ret, mids, respHdr>>

(***************************************************************************)
(* Send, up to the retry loop.  dataSize is the request's size, recvBuf   *)
(* whether the receive buffer is non-NULL, contType the content type and  *)
(* cred the contents of the caller's credential object.  Any failed      *)
(* argument check returns SYNCML_DM_FAIL with no network call; otherwise  *)
(* the content type is set, the hmac argument is built from the user name *)
(* and MAC (always with algorithm=MD5) and the loop is entered.           *)
(***************************************************************************)
SendStart(dataSize, recvBuf, contType, cred) ==
    /\ pc = "idle"
    /\ credHdr' = cred
    /\ \/ /\ \/ dataSize = 0
             \/ ~recvBuf
             \/ contType = Empty
             \/ ~IsCorrect(cred)
          /\ ret' = FAIL
          /\ called' = {}
          /\ UNCHANGED <<pc, wNumRetries, jResult, sentHmac>>
       \/ /\ dataSize > 0 /\ recvBuf /\ contType # Empty /\ IsCorrect(cred)
          /\ pc' = "sending"
          /\ wNumRetries' = 0
          /\ jResult' = Undef
          /\ sentHmac' = IF CredEmpty(cred) THEN NoHeader
                         ELSE [user |-> cred.m_oUserName, mac |-> cred.m_oMac]
          /\ called' = {"setContentType"}
          /\ UNCHANGED ret
    /\ UNCHANGED <<m_maxAcptSize, m_szURL, apn, recvSize, mids, respHdr>>

(***************************************************************************)
(* Faults the properties must catch (each replaces the definition that    *)
(* follows it): a loop bound off by one, a length check without its lower *)
(* bound, a non-transient code retried.                                   *)
(***************************************************************************)
MayRetryOffByOne == wNumRetries <= MaxRetries
AcceptableNoLowerBound(len) == len <= m_maxAcptSize
IsTransientAny(r) == r \in TransientCodes \cup OtherCodes

\* The while condition of Send's loop.
MayRetry == wNumRetries < MaxRetries

\* The result codes for which the loop sleeps and tries again.
IsTransient(r) == r \in TransientCodes

\* The response length check before the body is copied.
Acceptable(len) == len > 0 /\ len <= m_maxAcptSize

\* The caller's credential headers after an accepted response with
\* x-syncml-hmac value h: cleared, then filled by ProcessCredHeaders when
\* the header is present and non-empty.
ResponseCred(h, alloc) ==
    IF h # NoHeader /\ Len(h) > 0 THEN ProcessCredHeaders(h, alloc).cred
    ELSE Cleared

(***************************************************************************)
(* The three ways one sendRequest call with result r can go.              *)
(***************************************************************************)
\* A transient code: count a retry, sleep, go round again.
Retry(r) ==
    /\ IsTransient(r)
    /\ wNumRetries' = wNumRetries + 1
    /\ called' = {"sendRequest"}
    /\ UNCHANGED <<pc, ret, credHdr, recvSize, mids, respHdr>>

\* 200: ask for the length; if it is acceptable, fetch and copy the body,
\* look up and call getResponseHeader, take the response's credential
\* headers (ProcessCredHeaders' status is ignored) and return SUCCESS,
\* otherwise return FAIL.
Accept(r) ==
    /\ r = OK200
    /\ \E len \in RespLengths :
         \/ /\ Acceptable(len)
            /\ \E h \in Headers \cup {NoHeader}, alloc \in AllocOutcomes,
                 lookup \in LookupOutcomes :
                 /\ credHdr' = ResponseCred(h, alloc)
                 /\ respHdr' = h
                 /\ mids' = [mids EXCEPT !["getResponseHeader"] = lookup]
            /\ called' = {"sendRequest", "getResponseLength", "getResponseData",
                          "getResponseHeader"}
            /\ recvSize' = len
            /\ ret' = SUCCESS
         \/ /\ ~Acceptable(len)
            /\ called' = {"sendRequest", "getResponseLength"}
            /\ ret' = FAIL
            /\ UNCHANGED <<credHdr, recvSize, mids, respHdr>>
    /\ pc' = "idle"
    /\ UNCHANGED wNumRetries

\* Any other code: leave the loop and return it.
Stop(r) ==
    /\ ~IsTransient(r) /\ r # OK200
    /\ ret' = r
    /\ pc' = "idle"
    /\ called' = {"sendRequest"}
    /\ UNCHANGED <<wNumRetries, credHdr, recvSize, mids, respHdr>>

\* One iteration of Send's while loop: one sendRequest call.
SendAttempt ==
    /\ pc = "sending"
    /\ MayRetry
    /\ \E r \in Results :
         /\ jResult' = r
         /\ Retry(r) \/ Accept(r) \/ Stop(r)
    /\ UNCHANGED <<m_maxAcptSize, m_szURL, apn, sentHmac>>

\* The loop ran out of retries: Send returns the last transient code.
SendGiveUp ==
    /\ pc = "sending"
    /\ ~MayRetry
    /\ ret' = jResult
    /\ pc' = "idle"
    /\ called' = {}
    /\ UNCHANGED <<m_maxAcptSize, m_szURL, apn, credHdr, wNumRetries, jResult,
                   sentHmac, recvSize, mids, respHdr>>

\* Seconds Send has slept: every counted retry is followed by sleep(10).
SleptSeconds == wNumRetries * RetryDelay

Next ==
    \/ \E size \in AcptSizes, conRef \in APNs \cup {Empty} : InitConn(size, conRef)
    \/ \E u \in URLs : SetURI(u)
    \/ \E n \in {0, 1}, rb \in BOOLEAN, ct \in {Empty, "ct"}, c \in CredHeaders :
         SendStart(n, rb, ct, c)
    \/ SendAttempt
    \/ SendGiveUp

\* Send is synchronous: once inside its loop the calling thread keeps
\* running it (sendRequest returns, sleep returns).
Spec == Init /\ [][Next]_vars /\ WF_vars(SendAttempt \/ SendGiveUp)

-----------------------------------------------------------------------------
(***************************************************************************)
(* Properties                                                              *)
(***************************************************************************)

\* Spec 3 (OTA Exchange State): after a successful exchange the
\* credential triple is fully populated or fully absent, never partial.
\* About ProcessCredHeaders' checks for username and mac and the order of
\* its assignments.
CredAllOrNothing ==
    (pc = "idle" /\ ret = SUCCESS) =>
        \/ credHdr = Cleared
        \/ /\ credHdr.m_oAlgorithm # Empty
           /\ credHdr.m_oUserName # Empty
           /\ credHdr.m_oMac # Empty

\* Send's retry loop goes round only after a transient answer, and it
\* returns a transient code only after exactly DMTPT_MAX_RETRIES calls.
RetryDiscipline ==
    /\ (pc = "sending" /\ jResult # Undef) => jResult \in TransientCodes
    /\ (pc = "idle" /\ ret \in TransientCodes) => wNumRetries = MaxRetries

OX == INSTANCE OTAExchange WITH
          maxAcpt <- m_maxAcptSize, url <- m_szURL, cred <- credHdr,
          busy <- (pc = "sending"), result <- ret, size <- recvSize, hdr <- respHdr

\* Send implements OTAExchange (spec 3, 4.4): the retry loop is invisible,
\* a request with malformed credentials is never sent, a SUCCESS carries a
\* body of 1..m_maxAcptSize bytes whatever getResponseLength reported (-1,
\* 0, too large) and exactly the credentials the response granted, and
\* every failure (argument check, size check, network code, exhausted
\* retries) leaves the caller's credentials and receive buffer as they
\* were.  About the order of clear(), the size check and the copy in Send.
RefinesOTAExchange == OX!Spec

\* Init and Send call the Java connector only through method IDs that were
\* resolved: never through the NULL a failed GetMethodID returned, nor
\* through a member the constructor's "goto end" left unwritten.
CallsThroughResolvedIds == \A m \in called : mids[m] = "ok"

\* Spec 8.6: when every call answers with a transient code, Send gives up
\* after the maximum number of attempts having waited (maxRetries - 1)
\* times the fixed delay.  About the sleep(10) that follows every counted
\* retry, the last one included.
RetryWaitPerSpec ==
    (pc = "idle" /\ ret \in TransientCodes) =>
        SleptSeconds = (MaxRetries - 1) * RetryDelay

=============================================================================
