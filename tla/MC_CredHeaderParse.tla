------------------------ MODULE MC_CredHeaderParse -------------------------
(***************************************************************************)
(* ProcessCredHeaders checked against the header grammar of spec 4.4 and  *)
(* 6 over every x-syncml-hmac value made of up to three distinct          *)
(* key=value pairs, in every order.                                       *)
(***************************************************************************)
EXTENDS CredHeaderParse, FiniteSets

CONSTANT Tokens   \* one key=value pair per recognised key

VARIABLE hdr      \* the header value under test

Init == hdr \in {h \in BoundedSeq(Tokens, 3) : IsInjective(h)}
Next == UNCHANGED hdr
Spec == Init /\ [][Next]_hdr

MC_Tokens == {[key |-> "algorithm", val |-> "SHA"],
              [key |-> "username", val |-> "u1"],
              [key |-> "mac", val |-> "m1"]}

\* Spec 4.4: the header is a comma-separated set of key=value pairs; a
\* missing username or mac fails, a missing algorithm defaults to MD5.
HasKey(h, k) == \E i \in 1..Len(h) : h[i].key = k
ValOf(h, k) == h[CHOOSE i \in 1..Len(h) : h[i].key = k].val

ReferenceParse(h) ==
    IF ~HasKey(h, "username") \/ ~HasKey(h, "mac")
    THEN [st |-> FAIL, cred |-> Cleared]
    ELSE [st |-> SUCCESS,
          cred |-> [m_oAlgorithm |-> IF HasKey(h, "algorithm")
                                     THEN ValOf(h, "algorithm") ELSE "MD5",
                    m_oUserName |-> ValOf(h, "username"),
                    m_oMac |-> ValOf(h, "mac")]]

\* Spec 4.4 and 8.5: with no allocation failing, ProcessCredHeaders yields
\* what the set-of-pairs reading of the header yields, whatever the order
\* of the pairs (about its DmStrstr search for the scan's starting point).
ParseMatchesReference == ProcessCredHeaders(hdr, "none") = ReferenceParse(hdr)

=============================================================================
