----------------------------- MODULE LcpOptions -----------------------------
(***************************************************************************)
(* pppd, lcp.c: the configuration options LCP negotiates, reduced to the   *)
(* one whose outcome later phases depend on, the authentication protocol   *)
(* (CI_AUTHTYPE).  A set of kinds stands for the fields neg_eap, neg_chap  *)
(* with chap_mdtype, and neg_upap of an lcp_options structure; an option   *)
(* in a packet is one kind, or None when the packet carries no CI_AUTHTYPE.*)
(***************************************************************************)
EXTENDS Naturals, Sequences

Digests == {"md5", "ms2", "ms"}
Kinds == {"eap", "pap"} \cup Digests
None == "none"

(* CHAP_DIGEST: the digest asked for or suggested, MD5 before MS-CHAPv2    *)
(* before MS-CHAP.                                                         *)
ChapDigest(s) ==
  IF "md5" \in s THEN "md5"
  ELSE IF "ms2" \in s THEN "ms2"
  ELSE IF "ms" \in s THEN "ms" ELSE None

(* CHAP_MDTYPE: the lowest bit of a chap_mdtype, which is the digest       *)
(* lcp_nakci gives up first.  The bits are MS-CHAPv2 1, MS-CHAP 2, MD5 4.  *)
ChapMdtype(s) ==
  IF "ms2" \in s THEN "ms2"
  ELSE IF "ms" \in s THEN "ms"
  ELSE IF "md5" \in s THEN "md5" ELSE None

(* lcp_addci: what a request for the options s asks for.                   *)
AddCi(s) ==
  IF "eap" \in s THEN "eap"
  ELSE IF s \cap Digests # {} THEN ChapDigest(s)
  ELSE IF "pap" \in s THEN "pap" ELSE None

(* lcp_ackci: an Ack must repeat the request.                              *)
AckCi(s, opt) == opt = AddCi(s)

(* lcp_nakci: a Nak that suggests PAP when PAP was asked for is bad.       *)
NakIsGood(s, hint) == ~(hint = "pap" /\ s = {"pap"})

(* lcp_nakci: the options to request next, after a Nak with this hint; one *)
(* that does not mention CI_AUTHTYPE changes nothing here.                 *)
NakCi(s, hint) ==
  LET digests == s \cap Digests IN
  CASE hint = None -> s
    [] "eap" \in s /\ hint \in digests -> (s \ ({"eap"} \cup Digests)) \cup {hint}
    [] "eap" \in s /\ hint \notin digests \cup {None} -> s \ {"eap"}
    [] "eap" \notin s /\ digests # {} /\ hint # None ->
         (CASE hint \in digests -> (s \ Digests) \cup {hint}
            [] hint \in Digests \ s -> s \ {ChapMdtype(s)}
            [] OTHER -> s \ Digests)
    [] OTHER -> s \ {"pap"}

(* lcp_rejci: only what was asked for may be rejected; a Reject that does  *)
(* not mention CI_AUTHTYPE is good.                                        *)
RejIsGood(s, opt) == opt \in {None, AddCi(s)}

(* lcp_rejci: a rejected CHAP gives up PAP as well.                        *)
RejCi(s, opt) == IF opt \in Digests THEN {} ELSE s \ {opt}

(* lcp_reqci: what we suggest, willing to do one of `allowed', to a peer   *)
(* that asked for opt.                                                     *)
Suggestion(allowed, opt) ==
  LET digest == allowed \cap Digests # {} IN
  CASE opt = "pap" -> IF "eap" \in allowed THEN "eap" ELSE ChapDigest(allowed)
    [] opt \in Digests ->
         IF digest THEN ChapDigest(allowed)
         ELSE IF "eap" \in allowed THEN "eap" ELSE "pap"
    [] OTHER -> IF digest THEN ChapDigest(allowed) ELSE "pap"

(* lcp_reqci: the answer to a request for opt, as a code and an option.    *)
ReqCi(allowed, opt, rejectIfDisagree) ==
  CASE opt = None \/ opt \in allowed -> [code |-> "CONFACK", opt |-> opt]
    [] opt # None /\ opt \notin allowed /\ (allowed = {} \/ rejectIfDisagree) ->
         [code |-> "CONFREJ", opt |-> opt]
    [] OTHER -> [code |-> "CONFNAK", opt |-> Suggestion(allowed, opt)]

=============================================================================
