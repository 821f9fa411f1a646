---------------------------- MODULE OTAExchange ----------------------------
(***************************************************************************)
(* What one OTA connection promises the DM session (spec 3, 4.4): a       *)
(* request is either refused at once or is in flight until it completes,  *)
(* and it completes once, with one of these outcomes:                     *)
(*   - delivered: SUCCESS, a body of 1..maxAcpt bytes, and the caller's   *)
(*     credentials replaced by those the response granted (all three      *)
(*     fields, or none);                                                  *)
(*   - refused by the network or the size check: a failure code, and the  *)
(*     caller's credentials and receive buffer untouched.                 *)
(* Retries and the Java calls behind them are invisible.  A request whose *)
(* credentials are malformed is never put in flight.                      *)
(***************************************************************************)
EXTENDS Integers, Sequences, SequencesExt, CredHeaderParse

CONSTANTS OK200, TransientCodes, OtherCodes, AcptSizes, URLs, APNs,
          Algs, Users, Macs, Headers, NoHeader

VARIABLES maxAcpt, url, apn, cred, busy, result, size, hdr

avars == <<maxAcpt, url, apn, cred, busy, result, size, hdr>>

Creds == [m_oAlgorithm : Algs \cup {Empty}, m_oUserName : Users \cup {Empty},
          m_oMac : Macs \cup {Empty}]

\* Well formed: user name and MAC both present or both absent.
WellFormed(c) == (c.m_oUserName = Empty) = (c.m_oMac = Empty)

\* The credentials a response with x-syncml-hmac value h grants: the three
\* fields it names (MD5 when it names no algorithm) when it names both a
\* user name and a MAC, otherwise none.
Granted(h) ==
    IF h = NoHeader THEN Cleared
    ELSE LET f == Scanned(h)
         IN  IF f.username = Empty \/ f.mac = Empty THEN Cleared
             ELSE [m_oAlgorithm |-> IF f.algorithm # Empty THEN f.algorithm ELSE "MD5",
                   m_oUserName |-> f.username, m_oMac |-> f.mac]

Init ==
    /\ maxAcpt = 0 /\ url = Empty /\ apn = Empty
    /\ cred \in Creds
    /\ busy = FALSE
    /\ result = "undef" /\ size = 0 /\ hdr = NoHeader

Configure ==
    /\ ~busy
    /\ maxAcpt' \in AcptSizes
    /\ apn' \in APNs \cup {apn}
    /\ UNCHANGED <<url, cred, busy, result, size, hdr>>

SetUrl ==
    /\ ~busy
    /\ url' \in URLs
    /\ UNCHANGED <<maxAcpt, apn, cred, busy, result, size, hdr>>

\* The caller hands over a request with credentials c.
Submit(c) ==
    /\ ~busy
    /\ cred' = c
    /\ \/ result' = FAIL /\ UNCHANGED busy
       \/ WellFormed(c) /\ busy' = TRUE /\ UNCHANGED result
    /\ UNCHANGED <<maxAcpt, url, apn, size, hdr>>

Delivered ==
    /\ result' = SUCCESS
    /\ size' \in 1..maxAcpt
    /\ \E h \in Headers \cup {NoHeader} : hdr' = h /\ cred' = Granted(h)

Refused ==
    /\ result' \in {FAIL} \cup TransientCodes \cup OtherCodes
    /\ UNCHANGED <<cred, size, hdr>>

Complete ==
    /\ busy
    /\ busy' = FALSE
    /\ Delivered \/ Refused
    /\ UNCHANGED <<maxAcpt, url, apn>>

Next ==
    \/ Configure
    \/ SetUrl
    \/ \E c \in Creds : Submit(c)
    \/ Complete

\* A request in flight completes.
Spec == Init /\ [][Next]_avars /\ WF_avars(Complete)

=============================================================================
