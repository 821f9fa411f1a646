------------------------- MODULE MC_OTAConnection --------------------------
(***************************************************************************)
(* Model values for OTAConnection: three attempts (DMTPT_MAX_RETRIES),    *)
(* two transient codes and one other failure code, response lengths       *)
(* covering -1 (unknown), 0, within and above the accepted size, and      *)
(* every order of up to three distinct key=value tokens in x-syncml-hmac.             *)
(***************************************************************************)
EXTENDS OTAConnection

MC_TransientCodes == {"SOCKET_TIMEOUT", "SERVICE_UNAVAILABLE"}
MC_OtherCodes == {"HTTP_404"}
MC_RespLengths == {-1, 0, 1, 2}
MC_AcptSizes == {1}

\* One token of each recognised key.
MC_Tokens == {[key |-> "algorithm", val |-> "SHA"],
              [key |-> "username", val |-> "u1"],
              [key |-> "mac", val |-> "m1"]}
MC_Headers == {h \in BoundedSeq(MC_Tokens, 3) : IsInjective(h)}

=============================================================================
