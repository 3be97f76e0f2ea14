---------------------------- MODULE CallsSdpCrypto ----------------------------
(***************************************************************************)
(* The crypto context of a SIP call: what it makes of the crypto          *)
(* attributes of the local and of the remote media description (SDES).    *)
(*                                                                         *)
(* A list of attributes is a sequence; a context that was not given one   *)
(* yet has the empty sequence, as the code has NULL.  Attributes that do  *)
(* not parse, those of another suite among them, never enter a list, and  *)
(* session parameters are not parsed at all.                               *)
(***************************************************************************)
EXTENDS Naturals, Sequences

\* The suites the code knows, in the order in which it offers them.
OfferSuites == <<"AES_256_CM_SHA1_80", "AES_256_CM_SHA1_32",
                 "AES_CM_128_SHA1_80", "AES_CM_128_SHA1_32">>

Suite == {OfferSuites[i] : i \in 1..4}

NewContext == [state |-> "INIT", local |-> <<>>, remote |-> <<>>, tag |-> 0]

Final == {"NEGOTIATION_FAILED", "NEGOTIATION_SUCCESS"}

Tags(attrs) == {attrs[i].tag : i \in DOMAIN attrs}

Least(S) == CHOOSE i \in S : \A j \in S : i <= j

ByTag(attrs, tag) == attrs[Least({i \in DOMAIN attrs : attrs[i].tag = tag})]

Supported(attr) == attr.suite \in Suite

\* The first tag of the offer that is a tag of the answer, too.
CommonTags(offer, answer) == {i \in DOMAIN offer : offer[i].tag \in Tags(answer)}

\* A bug for the mutants: suites are not compared.
NegotiateByTag(c, offer, answer) ==
  IF CommonTags(offer, answer) # {}
  THEN [c EXCEPT !.state = "NEGOTIATION_SUCCESS",
                 !.tag = offer[Least(CommonTags(offer, answer))].tag]
  ELSE [c EXCEPT !.state = "NEGOTIATION_FAILED"]

Negotiate(c, offer, answer) ==
  LET common == CommonTags(offer, answer)
      tag    == offer[Least(common)].tag
  IN  IF common # {} /\ ByTag(c.local, tag).suite = ByTag(c.remote, tag).suite
      THEN [c EXCEPT !.state = "NEGOTIATION_SUCCESS", !.tag = tag]
      ELSE [c EXCEPT !.state = "NEGOTIATION_FAILED"]

UpdateState(c) ==
  CASE c.state = "INIT"         -> [c EXCEPT !.state = IF c.local # <<>> THEN "OFFER_LOCAL"
                                                       ELSE "OFFER_REMOTE"]
    [] c.state = "OFFER_LOCAL"  -> Negotiate(c, c.local, c.remote)
    [] c.state = "OFFER_REMOTE" -> Negotiate(c, c.remote, c.local)
    [] OTHER                    -> c

\* What calls_sdp_crypto_context_set_remote_media() returns: a failed
\* negotiation is an update of the state, and so a success of the function.
TakesRemote(c, attrs) == c.remote = <<>> /\ attrs # <<>> /\ c.state \notin Final

SetRemoteMedia(c, attrs) ==
  IF c.remote = <<>> /\ attrs # <<>> THEN UpdateState([c EXCEPT !.remote = attrs]) ELSE c

GenerateOffer(c, owner) ==
  IF c.state # "INIT" THEN c
  ELSE UpdateState([c EXCEPT !.local =
    [i \in 1..4 |-> [tag |-> i, suite |-> OfferSuites[i], key |-> <<owner, i>>]]])

SupportedOffers(c) == {i \in DOMAIN c.remote : Supported(c.remote[i])}

GeneratesAnswer(c) == c.state = "OFFER_REMOTE" /\ SupportedOffers(c) # {}

GenerateAnswer(c, owner) ==
  LET offer == c.remote[Least(SupportedOffers(c))]
  IN  UpdateState([c EXCEPT !.local =
        <<[tag |-> offer.tag, suite |-> offer.suite, key |-> <<owner, offer.tag>>]>>])

IsNegotiated(c) == c.state = "NEGOTIATION_SUCCESS"

LocalCrypto(c)  == ByTag(c.local, c.tag)

\* A bug for the mutants: the other list.
RemoteCryptoLocal(c) == ByTag(c.local, c.tag)

RemoteCrypto(c) == ByTag(c.remote, c.tag)

=============================================================================
