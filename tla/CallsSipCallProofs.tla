-------------------------- MODULE CallsSipCallProofs --------------------------
(***************************************************************************)
(* Proofs about CallsSdpCrypto and CallsSipCall, for every choice of       *)
(* policies, of foreign ends and of the media descriptions they send.      *)
(***************************************************************************)
EXTENDS CallsSipCall, WellFoundedInduction, TLAPS

-----------------------------------------------------------------------------
(* The crypto context. *)

\* A set of numbers that is not empty has a least element.
LEMMA LeastIn ==
  ASSUME NEW S, S \subseteq Nat, S # {}
  PROVE  Least(S) \in S
<1>1. PICK x \in S : \A y \in S : ~ (<<y, x>> \in OpToRel(<, Nat))
  BY WFMin, NatLessThanWellFounded
<1>2. \A y \in S : x <= y
  <2> SUFFICES ASSUME NEW y \in S, ~ (x <= y) PROVE FALSE
    OBVIOUS
  <2>1. <<y, x>> \in Nat \X Nat /\ y < x
    OBVIOUS
  <2>2. <<y, x>> \in OpToRel(<, Nat)
    BY <2>1 DEF OpToRel
  <2>3. QED
    BY <2>2, <1>1
<1>3. QED
  BY <1>2 DEF Least

\* The attribute found by a tag that occurs has that tag.
LEMMA ByTagIn ==
  ASSUME NEW A, NEW attrs \in Seq(A), NEW tag \in Tags(attrs)
  PROVE  ByTag(attrs, tag) \in A /\ ByTag(attrs, tag).tag = tag
<1> DEFINE I == {i \in DOMAIN attrs : attrs[i].tag = tag}
<1>1. DOMAIN attrs \subseteq Nat
  OBVIOUS
<1>2. I # {} /\ I \subseteq Nat
  BY <1>1 DEF Tags
<1>3. Least(I) \in I
  BY <1>2, LeastIn
<1>4. QED
  BY <1>3 DEF ByTag

\* The contexts with local attributes in L and remote ones in R.
Contexts(L, R) == [state  : {"INIT", "OFFER_LOCAL", "OFFER_REMOTE"} \cup Final,
                   local  : Seq(L), remote : Seq(R), tag : Nat]

\* A negotiated context has a line for its tag on both sides, of one suite.
Agreed(c) ==
  IsNegotiated(c) =>
    /\ c.tag \in Tags(c.local) /\ c.tag \in Tags(c.remote)
    /\ LocalCrypto(c).suite = RemoteCrypto(c).suite

\* Negotiation only succeeds with such a line.
LEMMA NegotiateAgrees ==
  ASSUME NEW L, NEW R, \A a \in L \cup R : a.tag \in Nat,
         NEW c \in Contexts(L, R), NEW offer, NEW answer,
         \/ offer = c.local /\ answer = c.remote
         \/ offer = c.remote /\ answer = c.local
  PROVE  Negotiate(c, offer, answer) \in Contexts(L, R) /\ Agreed(Negotiate(c, offer, answer))
<1> DEFINE common == CommonTags(offer, answer)
           tag == offer[Least(common)].tag
           d == Negotiate(c, offer, answer)
<1>1. c.local \in Seq(L) /\ c.remote \in Seq(R)
  BY DEF Contexts
<1>2. CASE common # {} /\ ByTag(c.local, tag).suite = ByTag(c.remote, tag).suite
  <2>1. d = [c EXCEPT !.state = "NEGOTIATION_SUCCESS", !.tag = tag]
    BY <1>2 DEF Negotiate
  <2>2. common \subseteq Nat
    BY <1>1 DEF CommonTags
  <2>3. Least(common) \in common
    BY <2>2, <1>2, LeastIn
  <2>4. tag \in Tags(offer) /\ tag \in Tags(answer)
    BY <2>3 DEF CommonTags, Tags
  <2>5. tag \in Tags(c.local) /\ tag \in Tags(c.remote)
    BY <2>4
  <2>6. tag \in Nat
    BY <2>5, <1>1 DEF Tags
  <2>7. d \in Contexts(L, R)
    BY <2>1, <2>6 DEF Contexts, Final
  <2>8. d.local = c.local /\ d.remote = c.remote /\ d.tag = tag
    BY <2>1 DEF Contexts
  <2>9. QED
    BY <2>5, <2>7, <2>8, <1>2 DEF Agreed, LocalCrypto, RemoteCrypto
<1>3. CASE ~ (common # {} /\ ByTag(c.local, tag).suite = ByTag(c.remote, tag).suite)
  <2>1. d = [c EXCEPT !.state = "NEGOTIATION_FAILED"]
    BY <1>3 DEF Negotiate
  <2>2. d \in Contexts(L, R) /\ d.state = "NEGOTIATION_FAILED"
    BY <2>1 DEF Contexts, Final
  <2>3. QED
    BY <2>2 DEF Agreed, IsNegotiated
<1>4. QED
  BY <1>2, <1>3

\* update_state () keeps this of a context that is not negotiated yet.
LEMMA UpdateAgrees ==
  ASSUME NEW L, NEW R, \A a \in L \cup R : a.tag \in Nat,
         NEW c \in Contexts(L, R), ~ IsNegotiated(c)
  PROVE  UpdateState(c) \in Contexts(L, R) /\ Agreed(UpdateState(c))
<1>1. CASE c.state = "INIT"
  <2>1. UpdateState(c) = [c EXCEPT !.state = IF c.local # <<>> THEN "OFFER_LOCAL" ELSE "OFFER_REMOTE"]
    BY <1>1 DEF UpdateState
  <2>2. QED
    BY <2>1 DEF Contexts, Agreed, IsNegotiated
<1>2. CASE c.state = "OFFER_LOCAL"
  <2>1. UpdateState(c) = Negotiate(c, c.local, c.remote)
    BY <1>2 DEF UpdateState
  <2>2. QED
    BY <2>1, NegotiateAgrees
<1>3. CASE c.state = "OFFER_REMOTE"
  <2>1. UpdateState(c) = Negotiate(c, c.remote, c.local)
    BY <1>3 DEF UpdateState
  <2>2. QED
    BY <2>1, NegotiateAgrees
<1>4. CASE c.state = "NEGOTIATION_FAILED"
  <2>1. UpdateState(c) = c
    BY <1>4 DEF UpdateState
  <2>2. QED
    BY <2>1, <1>4 DEF Agreed, IsNegotiated
<1>5. QED
  BY <1>1, <1>2, <1>3, <1>4 DEF Contexts, Final, IsNegotiated

\* A negotiated context has been given both lists.
LEMMA NegotiatedIsFull ==
  ASSUME NEW L, NEW R, NEW c \in Contexts(L, R), Agreed(c), IsNegotiated(c)
  PROVE  c.local # <<>> /\ c.remote # <<>>
BY DEF Agreed, Tags

\* The three operations that change a context keep it typed and agreed.
LEMMA SetRemoteAgrees ==
  ASSUME NEW L, NEW R, \A a \in L \cup R : a.tag \in Nat,
         NEW c \in Contexts(L, R), Agreed(c), NEW attrs \in Seq(R)
  PROVE  SetRemoteMedia(c, attrs) \in Contexts(L, R) /\ Agreed(SetRemoteMedia(c, attrs))
<1>1. CASE c.remote = <<>> /\ attrs # <<>>
  <2> DEFINE d == [c EXCEPT !.remote = attrs]
  <2>1. ~ IsNegotiated(c)
    BY <1>1, NegotiatedIsFull
  <2>2. d \in Contexts(L, R) /\ ~ IsNegotiated(d)
    BY <2>1 DEF Contexts, IsNegotiated
  <2>3. SetRemoteMedia(c, attrs) = UpdateState(d)
    BY <1>1 DEF SetRemoteMedia
  <2> HIDE DEF d
  <2>4. QED
    BY <2>2, <2>3, UpdateAgrees
<1>2. CASE ~ (c.remote = <<>> /\ attrs # <<>>)
  BY <1>2 DEF SetRemoteMedia
<1>3. QED
  BY <1>1, <1>2

LEMMA GenerateOfferAgrees ==
  ASSUME NEW owner, NEW L, NEW R, \A a \in L \cup R : a.tag \in Nat,
         [tag : Nat, suite : Suite, key : {owner} \X Nat] \subseteq L,
         NEW c \in Contexts(L, R), Agreed(c)
  PROVE  GenerateOffer(c, owner) \in Contexts(L, R) /\ Agreed(GenerateOffer(c, owner))
<1>1. CASE c.state = "INIT"
  <2> DEFINE offer == [i \in 1..4 |-> [tag |-> i, suite |-> OfferSuites[i],
                                       key |-> <<owner, i>>]]
             d == [c EXCEPT !.local = offer]
  <2>1. \A i \in 1..4 : OfferSuites[i] \in Suite
    BY DEF Suite
  <2>2. \A i \in 1..4 : offer[i] \in L
    <3> TAKE i \in 1..4
    <3>1. offer[i] = [tag |-> i, suite |-> OfferSuites[i], key |-> <<owner, i>>]
      OBVIOUS
    <3>2. i \in Nat /\ OfferSuites[i] \in Suite /\ <<owner, i>> \in {owner} \X Nat
      BY <2>1
    <3>3. QED
      BY <3>1, <3>2
  <2>3. offer \in Seq(L)
    BY <2>2
  <2> HIDE DEF offer
  <2>4. d \in Contexts(L, R) /\ ~ IsNegotiated(d)
    BY <1>1, <2>3 DEF Contexts, IsNegotiated
  <2>5. GenerateOffer(c, owner) = UpdateState(d)
    BY <1>1 DEF GenerateOffer, offer
  <2> HIDE DEF d
  <2>6. QED
    BY <2>4, <2>5, UpdateAgrees
<1>2. CASE c.state # "INIT"
  BY <1>2 DEF GenerateOffer
<1>3. QED
  BY <1>1, <1>2

LEMMA GenerateAnswerAgrees ==
  ASSUME NEW owner, NEW L, NEW R, \A a \in L \cup R : a.tag \in Nat,
         \A a \in R : a.suite \in Suite,
         [tag : Nat, suite : Suite, key : {owner} \X Nat] \subseteq L,
         NEW c \in Contexts(L, R), GeneratesAnswer(c)
  PROVE  GenerateAnswer(c, owner) \in Contexts(L, R) /\ Agreed(GenerateAnswer(c, owner))
<1> DEFINE offer == c.remote[Least(SupportedOffers(c))]
           line == [tag |-> offer.tag, suite |-> offer.suite,
                    key |-> <<owner, offer.tag>>]
           d == [c EXCEPT !.local = <<line>>]
<1>1. c.remote \in Seq(R)
  BY DEF Contexts
<1>2. SupportedOffers(c) \subseteq Nat /\ SupportedOffers(c) # {}
  BY <1>1 DEF SupportedOffers, GeneratesAnswer
<1>3. Least(SupportedOffers(c)) \in DOMAIN c.remote
  BY <1>2, LeastIn DEF SupportedOffers
<1>4. offer \in R
  BY <1>1, <1>3
<1>5. line \in L
  BY <1>4
<1>6. <<line>> \in Seq(L)
  BY <1>5
<1> HIDE DEF line
<1>7. d \in Contexts(L, R) /\ ~ IsNegotiated(d)
  BY <1>6 DEF Contexts, IsNegotiated, GeneratesAnswer
<1>8. GenerateAnswer(c, owner) = UpdateState(d)
  BY DEF GenerateAnswer, line
<1> HIDE DEF d
<1>9. QED
  BY <1>7, <1>8, UpdateAgrees

-----------------------------------------------------------------------------
(* The call. *)

IInv ==
  /\ TypeOK
  /\ \A e \in End : Agreed(ctx[e])
  /\ KeysBelongTogether
  /\ ForcedIsEncrypted

\* Each end is the peer of its peer.
LEMMA Peers == \A e \in End : Peer(e) \in End /\ Peer(e) # e /\ Peer(Peer(e)) = e
BY DEF Peer, End

\* What is known of the attributes of an end.
LEMMA Attrs ==
  ASSUME NEW e \in End
  PROVE  /\ \A a \in Attr(e) \cup Attr(Peer(e)) : a.tag \in Nat
         /\ \A a \in Attr(Peer(e)) : a.suite \in Suite
         /\ Context(e) = Contexts(Attr(e), Attr(Peer(e)))
         /\ e \in Calls => [tag : Nat, suite : Suite, key : {e} \X Nat] = Attr(e)
         /\ NoSdp \in Sdp(e)
         /\ e \in foreign /\ foreign \in Foreigners => ForeignMedia \subseteq Sdp(e)
<1>1. Context(e) = Contexts(Attr(e), Attr(Peer(e)))
  BY DEF Context, Contexts
<1>2. e \in Calls => [tag : Nat, suite : Suite, key : {e} \X Nat] = Attr(e)
  BY DEF Calls, Attr, Key
<1>3. e \in foreign => Attr(e) = [tag : Nat, suite : Suite, key : {"foreign"} \X Nat]
  BY DEF Attr, Key
<1>4. e \in foreign => ForeignMedia \subseteq Sdp(e)
  BY <1>3, CallAssumption DEF Sdp
<1>5. QED
  BY <1>1, <1>2, <1>4 DEF Attr, Sdp

\* A step of the stack keeps its types if it is given typed sequences.
LEMMA StackTypes ==
  ASSUME StackTypeOK, foreign' = foreign, reported' \in [End -> BOOLEAN],
         NEW e \in End,
         NEW new \in {"init", "calling", "proceeding", "cancelled", "received", "early",
                      "completed", "ready", "terminating", "terminated"},
         NEW in \in Seq(Message(e)), NEW out \in Seq(Message(Peer(e))), NEW evs \in Seq(Event(e)),
         Stack(e, new, in, out, evs)
  PROVE  StackTypeOK'
<1>1. \A x \in End : Event(x)' = Event(x) /\ Message(x)' = Message(x)
  BY DEF Event, Message, Sdp, Attr, Key
<1>2. dialog' \in [End -> {"init", "calling", "proceeding", "cancelled", "received", "early",
                          "completed", "ready", "terminating", "terminated"}]
  BY DEF Stack, StackTypeOK
<1>3. DOMAIN events' = End /\ \A x \in End : events'[x] \in Seq(Event(x))
  BY DEF Stack, StackTypeOK
<1>4. DOMAIN wire' = End /\ \A x \in End : wire'[x] \in Seq(Message(x))
  <2>1. wire[Peer(e)] \o out \in Seq(Message(Peer(e)))
    BY Peers DEF StackTypeOK
  <2>2. QED
    BY <2>1, Peers DEF Stack, StackTypeOK
<1>5. QED
  BY <1>1, <1>2, <1>3, <1>4 DEF StackTypeOK

\* So do the calls into sofia-sip.
LEMMA NuaTypes ==
  ASSUME StackTypeOK, foreign' = foreign, reported' = reported,
         NEW e \in End, NEW evs \in Seq(Event(e)),
         \/ NuaCancel(e, evs)
         \/ NuaBye(e, evs)
         \/ \E status \in Nat : NuaRefuse(e, status, evs)
         \/ \E sdp \in Sdp(e) : NuaAccept(e, sdp, evs)
  PROVE  StackTypeOK'
<1>1. Peer(Peer(e)) = e /\ NoSdp \in Sdp(e) /\ NoSdp \in Sdp(Peer(e))
  BY Peers, Attrs
<1>2. wire[e] \in Seq(Message(e)) /\ reported' \in [End -> BOOLEAN]
  BY DEF StackTypeOK
<1>3. dialog[e] \in {"init", "calling", "proceeding", "cancelled", "received", "early",
                    "completed", "ready", "terminating", "terminated"}
  BY DEF StackTypeOK
<1>4. <<>> \in Seq(Message(Peer(e)))
  OBVIOUS
<1>5. CASE Stack(e, dialog[e], wire[e], <<>>, evs)
  BY <1>2, <1>3, <1>4, <1>5, StackTypes
<1>6. CASE Stack(e, "cancelled", wire[e], <<Msg("CANCEL", 0, NoSdp)>>, evs)
  <2>1. <<Msg("CANCEL", 0, NoSdp)>> \in Seq(Message(Peer(e)))
    BY <1>1 DEF Msg, Message
  <2>2. QED
    BY <1>2, <1>6, <2>1, StackTypes
<1>7. CASE Stack(e, "terminating", wire[e], <<Msg("BYE", 0, NoSdp)>>, evs)
  <2>1. <<Msg("BYE", 0, NoSdp)>> \in Seq(Message(Peer(e)))
    BY <1>1 DEF Msg, Message
  <2>2. QED
    BY <1>2, <1>7, <2>1, StackTypes
<1>8. ASSUME NEW status \in Nat,
             Stack(e, "terminated", wire[e], <<Msg("FINAL", status, NoSdp)>>,
                   Append(evs, State(e, "terminated", status, NoSdp)))
      PROVE  StackTypeOK'
  <2>1. <<Msg("FINAL", status, NoSdp)>> \in Seq(Message(Peer(e)))
    BY <1>1 DEF Msg, Message
  <2>2. State(e, "terminated", status, NoSdp) \in Event(e)
    BY <1>1 DEF State, Event
  <2>3. Append(evs, State(e, "terminated", status, NoSdp)) \in Seq(Event(e))
    BY <2>2
  <2>4. QED
    BY <1>2, <1>8, <2>1, <2>3, StackTypes
<1>9. ASSUME NEW sdp \in Sdp(e), Stack(e, "completed", wire[e], <<Msg("FINAL", 200, sdp)>>, evs)
      PROVE  StackTypeOK'
  <2>1. <<Msg("FINAL", 200, sdp)>> \in Seq(Message(Peer(e)))
    BY <1>1 DEF Msg, Message
  <2>2. QED
    BY <1>2, <1>9, <2>1, StackTypes
<1>10. QED
  BY <1>5, <1>6, <1>7, <1>8, <1>9 DEF NuaCancel, NuaBye, NuaRefuse, NuaAccept

\* So does hanging up.
LEMMA HangUpTypes ==
  ASSUME StackTypeOK, foreign' = foreign, reported' = reported,
         NEW e \in End, NEW evs \in Seq(Event(e)), SipHangUp(e, evs)
  PROVE  StackTypeOK'
<1>1. CASE UNCHANGED <<dialog, wire>> /\ events' = [events EXCEPT ![e] = evs]
  <2>1. \A x \in End : Event(x)' = Event(x) /\ Message(x)' = Message(x)
    BY DEF Event, Message, Sdp, Attr, Key
  <2>2. QED
    BY <1>1, <2>1 DEF StackTypeOK
<1>2. CASE NuaCancel(e, evs) \/ NuaBye(e, evs) \/ NuaRefuse(e, 480, evs)
  <2>1. 480 \in Nat
    OBVIOUS
  <2>2. QED
    BY <1>2, <2>1, NuaTypes
<1>3. QED
  BY <1>1, <1>2 DEF SipHangUp

-----------------------------------------------------------------------------
(* One lemma per action. *)

CallStates == {"NONE", "DIALING", "ALERTING", "INCOMING", "ACTIVE", "DISCONNECTED"}

\* A step that leaves the media alone only has to keep the rest.
LEMMA MediaUntouched ==
  ASSUME IInv, UNCHANGED <<foreign, policy, media>>, StackTypeOK',
         callState' \in [End -> CallStates],
         DOMAIN ctx' = End, \A e \in End : ctx'[e] \in Context(e) /\ Agreed(ctx'[e])
  PROVE  IInv'
<1>1. \A e \in End : Attr(e)' = Attr(e) /\ Context(e)' = Context(e) /\ Key(e)' = Key(e)
  BY DEF Context, Attr, Key
<1>2. TypeOK'
  <2>1. foreign' \in Foreigners /\ policy' \in [End -> Policies] /\ DOMAIN media' = End
    BY DEF IInv, TypeOK
  <2>2. \A e \in End : ctx'[e] \in Context(e)'
    BY <1>1
  <2>3. \A e \in End : media'[e] \in [on : BOOLEAN, keys : {<<>>} \cup (Attr(e) \X Attr(Peer(e)))]'
    <3> TAKE e \in End
    <3>1. media[e] \in [on : BOOLEAN, keys : {<<>>} \cup (Attr(e) \X Attr(Peer(e)))]
      BY DEF IInv, TypeOK
    <3>2. Attr(e)' = Attr(e) /\ Attr(Peer(e))' = Attr(Peer(e)) /\ media' = media
      BY <1>1, Peers
    <3> HIDE DEF Attr
    <3>3. QED
      BY <3>1, <3>2
  <2>4. QED
    BY <2>1, <2>2, <2>3 DEF TypeOK, CallStates
<1>3. KeysBelongTogether' /\ ForcedIsEncrypted'
  BY <1>1, Peers DEF IInv, KeysBelongTogether, ForcedIsEncrypted, Calls
<1>4. QED
  BY <1>2, <1>3 DEF IInv

\* A context replaced by a typed and agreed one.
LEMMA ContextReplaced ==
  ASSUME IInv, NEW e \in End, NEW c \in Context(e), Agreed(c), ctx' = [ctx EXCEPT ![e] = c]
  PROVE  DOMAIN ctx' = End /\ \A x \in End : ctx'[x] \in Context(x) /\ Agreed(ctx'[x])
BY DEF IInv, TypeOK

\* The offer of an account that encrypts is a typed and agreed context.
LEMMA DialInv == ASSUME IInv, Dial PROVE IInv'
<1> DEFINE e == "caller"
           c == IF policy[e] = "NONE" THEN ctx[e] ELSE GenerateOffer(ctx[e], e)
<1>1. e \in End /\ e \in Calls
  BY DEF Dial, End
<1>2. ctx[e] \in Context(e) /\ Agreed(ctx[e])
  BY <1>1 DEF IInv, TypeOK
<1>3. GenerateOffer(ctx[e], e) \in Context(e) /\ Agreed(GenerateOffer(ctx[e], e))
  <2> DEFINE L == Attr(e)
             R == Attr(Peer(e))
  <2>1. [tag : Nat, suite : Suite, key : {e} \X Nat] \subseteq L
    BY <1>1, Attrs
  <2>2. (\A a \in L \cup R : a.tag \in Nat) /\ Context(e) = Contexts(L, R)
    BY <1>1, Attrs
  <2> HIDE DEF L, R
  <2>3. QED
    BY <1>2, <2>1, <2>2, GenerateOfferAgrees
<1>4. c \in Context(e) /\ Agreed(c)
  BY <1>2, <1>3
<1>5. LocalSdp(c.local) \in Sdp(e)
  BY <1>4 DEF LocalSdp, Sdp, Context
<1>6. Stack(e, "calling", wire[e], <<Msg("INVITE", 0, LocalSdp(c.local))>>, <<State(e, "calling", 0, NoSdp)>>)
  BY DEF Dial
<1>7. ctx' = [ctx EXCEPT ![e] = c]
  BY DEF Dial
<1> HIDE DEF c
<1>8. StackTypeOK'
  <2>1. <<Msg("INVITE", 0, LocalSdp(c.local))>> \in Seq(Message(Peer(e)))
    BY <1>1, <1>5, Peers DEF Msg, Message
  <2>2. <<State(e, "calling", 0, NoSdp)>> \in Seq(Event(e))
    BY <1>1, Peers, Attrs DEF State, Event
  <2>3. wire[e] \in Seq(Message(e)) /\ StackTypeOK /\ reported' \in [End -> BOOLEAN] /\ foreign' = foreign
    BY <1>1 DEF IInv, TypeOK, StackTypeOK, Dial
  <2>4. QED
    BY <1>1, <1>6, <2>1, <2>2, <2>3, StackTypes
<1>9. callState' \in [End -> CallStates]
  BY DEF Dial, IInv, TypeOK, CallStates
<1>10. DOMAIN ctx' = End /\ \A x \in End : ctx'[x] \in Context(x) /\ Agreed(ctx'[x])
  BY <1>1, <1>4, <1>7, ContextReplaced
<1>11. UNCHANGED <<foreign, policy, media>>
  BY DEF Dial
<1>12. QED
  BY <1>8, <1>9, <1>10, <1>11, MediaUntouched

\* A step of sofia-sip or of a foreign end.
LEMMA StackInv ==
  ASSUME IInv, StackTypeOK', UNCHANGED <<foreign, policy, callState, ctx, media>>
  PROVE  IInv'
<1>1. callState' \in [End -> CallStates] /\ DOMAIN ctx' = End
  BY DEF IInv, TypeOK, CallStates
<1>2. \A e \in End : ctx'[e] \in Context(e) /\ Agreed(ctx'[e])
  BY DEF IInv, TypeOK
<1>3. QED
  BY <1>1, <1>2, MediaUntouched

\* Hanging up only speaks to sofia-sip.
LEMMA HangUpInv == ASSUME IInv, NEW e \in End, HangUp(e) PROVE IInv'
<1>1. StackTypeOK /\ events[e] \in Seq(Event(e))
  BY DEF IInv, TypeOK, StackTypeOK
<1>2. StackTypeOK'
  BY <1>1, HangUpTypes DEF HangUp
<1>3. QED
  BY <1>2, StackInv DEF HangUp

\* An answer completes the negotiation, or leaves the context as it is.
LEMMA AnswerInv == ASSUME IInv, NEW e \in End, Answer(e) PROVE IInv'
<1>1. StackTypeOK /\ events[e] \in Seq(Event(e)) /\ UNCHANGED <<foreign, policy, media, reported>>
  BY DEF IInv, TypeOK, StackTypeOK, Answer
<1>2. ctx[e] \in Context(e) /\ Agreed(ctx[e]) /\ e \in Calls
  BY DEF IInv, TypeOK, Answer
<1>3. callState' \in [End -> CallStates]
  BY DEF Answer, IInv, TypeOK, CallStates
<1>4. CASE /\ GeneratesAnswer(ctx[e])
           /\ ctx' = [ctx EXCEPT ![e] = GenerateAnswer(ctx[e], e)]
           /\ NuaAccept(e, LocalSdp(GenerateAnswer(ctx[e], e).local), events[e])
  <2> DEFINE c == GenerateAnswer(ctx[e], e)
  <2>1. c \in Context(e) /\ Agreed(c)
    <3> DEFINE L == Attr(e)
               R == Attr(Peer(e))
    <3>1. [tag : Nat, suite : Suite, key : {e} \X Nat] \subseteq L
      BY <1>2, Attrs
    <3>2. /\ \A a \in L \cup R : a.tag \in Nat
          /\ \A a \in R : a.suite \in Suite
          /\ Context(e) = Contexts(L, R)
      BY Attrs
    <3> HIDE DEF L, R
    <3>3. QED
      BY <1>2, <1>4, <3>1, <3>2, GenerateAnswerAgrees
  <2>2. LocalSdp(c.local) \in Sdp(e)
    BY <2>1 DEF LocalSdp, Sdp, Context
  <2>3. ctx' = [ctx EXCEPT ![e] = c] /\ NuaAccept(e, LocalSdp(c.local), events[e])
    BY <1>4
  <2> HIDE DEF c
  <2>4. StackTypeOK'
    BY <1>1, <2>2, <2>3, NuaTypes
  <2>5. DOMAIN ctx' = End /\ \A x \in End : ctx'[x] \in Context(x) /\ Agreed(ctx'[x])
    BY <2>1, <2>3, ContextReplaced
  <2>6. QED
    BY <1>1, <1>3, <2>4, <2>5, MediaUntouched
<1>5. CASE NuaRefuse(e, 488, events[e]) /\ UNCHANGED <<ctx, callState>>
  <2>1. 488 \in Nat
    OBVIOUS
  <2>2. StackTypeOK'
    BY <1>1, <1>5, <2>1, NuaTypes
  <2>3. QED
    BY <1>1, <1>5, <2>2, StackInv
<1>6. CASE NuaAccept(e, LocalSdp(<<>>), events[e]) /\ UNCHANGED ctx
  <2>1. LocalSdp(<<>>) \in Sdp(e)
    BY DEF Sdp, LocalSdp
  <2>2. StackTypeOK'
    BY <1>1, <1>6, <2>1, NuaTypes
  <2>3. DOMAIN ctx' = End /\ \A x \in End : ctx'[x] \in Context(x) /\ Agreed(ctx'[x])
    BY <1>6 DEF IInv, TypeOK
  <2>4. QED
    BY <1>1, <1>3, <2>2, <2>3, MediaUntouched
<1>7. QED
  BY <1>4, <1>5, <1>6 DEF Answer

\* Whatever sofia-sip makes of a message, it stays with typed events and messages.
LEMMA ReceiveInv == ASSUME IInv, NEW e \in End, Receive(e) PROVE IInv'
<1> DEFINE m == Head(wire[e])
           rest == Tail(wire[e])
<1>1. StackTypeOK /\ UNCHANGED <<foreign, policy, callState, ctx, media>>
  BY DEF IInv, TypeOK, Receive
<1>2. wire[e] \in Seq(Message(e)) /\ wire[e] # <<>> /\ events[e] \in Seq(Event(e))
  BY DEF IInv, TypeOK, StackTypeOK, Receive
<1>3. rest \in Seq(Message(e)) /\ m \in Message(e)
  BY <1>2
<1>4. reported' \in [End -> BOOLEAN]
  BY DEF Receive, StackTypeOK, IInv, TypeOK
<1>5. Peer(Peer(e)) = e /\ NoSdp \in Sdp(e) /\ NoSdp \in Sdp(Peer(e))
  BY Peers, Attrs
<1>6. \A state \in {"proceeding", "received", "ready", "terminated"} :
        events[e] \o <<State(e, state, m.status, m.sdp)>> \in Seq(Event(e))
  <2> TAKE state \in {"proceeding", "received", "ready", "terminated"}
  <2>1. m.status \in Nat /\ m.sdp \in Sdp(Peer(e))
    BY <1>3 DEF Message
  <2>2. State(e, state, m.status, m.sdp) \in Event(e)
    BY <2>1, <1>5 DEF State, Event
  <2>3. QED
    BY <2>2, <1>2
<1>7. \A type \in {"ACK", "FINAL", "GONE"}, status \in Nat :
        <<Msg(type, status, NoSdp)>> \in Seq(Message(Peer(e)))
  BY <1>5 DEF Msg, Message
<1>8. dialog[e] \in {"init", "calling", "proceeding", "cancelled", "received", "early",
                    "completed", "ready", "terminating", "terminated"}
  BY <1>1 DEF StackTypeOK
<1>9. /\ <<>> \in Seq(Message(Peer(e)))
      /\ events[e] \o <<>> \in Seq(Event(e))
      /\ 0 \in Nat /\ 200 \in Nat /\ 487 \in Nat
  BY <1>2
<1> HIDE DEF m, rest
<1>10. \/ Stack(e, dialog[e], rest, <<>>, events[e] \o <<>>)
       \/ \E state \in {"proceeding", "received", "terminated"} :
            Stack(e, state, rest, <<>>, events[e] \o <<State(e, state, m.status, m.sdp)>>)
       \/ Stack(e, "cancelled", rest, <<>>, events[e] \o <<State(e, "proceeding", m.status, m.sdp)>>)
       \/ Stack(e, "ready", rest, <<Msg("ACK", 0, NoSdp)>>, events[e] \o <<State(e, "ready", m.status, m.sdp)>>)
       \/ Stack(e, "ready", rest, <<>>, events[e] \o <<State(e, "ready", m.status, m.sdp)>>)
       \/ Stack(e, "terminated", rest, <<Msg("FINAL", 487, NoSdp)>>,
                events[e] \o <<State(e, "terminated", m.status, m.sdp)>>)
       \/ Stack(e, "terminated", rest, <<Msg("GONE", 200, NoSdp)>>,
                events[e] \o <<State(e, "terminated", m.status, m.sdp)>>)
  <2>1. m.type \in {"INVITE", "PROVISIONAL", "FINAL", "CANCEL", "ACK", "BYE", "GONE"}
    BY <1>3 DEF Message
  <2>2. QED
    BY <2>1 DEF Receive, m, rest
<1>11. StackTypeOK'
  <2>1. CASE Stack(e, dialog[e], rest, <<>>, events[e] \o <<>>)
    BY <2>1, <1>1, <1>3, <1>4, <1>8, <1>9, StackTypes
  <2>2. ASSUME NEW state \in {"proceeding", "received", "terminated"},
               Stack(e, state, rest, <<>>, events[e] \o <<State(e, state, m.status, m.sdp)>>)
        PROVE  StackTypeOK'
    BY <2>2, <1>1, <1>3, <1>4, <1>6, <1>9, StackTypes
  <2>3. CASE Stack(e, "cancelled", rest, <<>>, events[e] \o <<State(e, "proceeding", m.status, m.sdp)>>)
    BY <2>3, <1>1, <1>3, <1>4, <1>6, <1>9, StackTypes
  <2>4. CASE \/ Stack(e, "ready", rest, <<Msg("ACK", 0, NoSdp)>>,
                      events[e] \o <<State(e, "ready", m.status, m.sdp)>>)
             \/ Stack(e, "ready", rest, <<>>, events[e] \o <<State(e, "ready", m.status, m.sdp)>>)
    BY <2>4, <1>1, <1>3, <1>4, <1>6, <1>7, <1>9, StackTypes
  <2>5. CASE \/ Stack(e, "terminated", rest, <<Msg("FINAL", 487, NoSdp)>>,
                      events[e] \o <<State(e, "terminated", m.status, m.sdp)>>)
             \/ Stack(e, "terminated", rest, <<Msg("GONE", 200, NoSdp)>>,
                      events[e] \o <<State(e, "terminated", m.status, m.sdp)>>)
    BY <2>5, <1>1, <1>3, <1>4, <1>6, <1>7, <1>9, StackTypes
  <2>6. QED
    BY <1>10, <2>1, <2>2, <2>3, <2>4, <2>5
<1>12. QED
  BY <1>1, <1>11, StackInv

\* A foreign end says what ForeignMedia allows, and that is typed.
LEMMA ForeignInv ==
  ASSUME IInv, ForeignCall \/ ForeignResponse \/ ForeignHangUp
  PROVE  IInv'
<1>1. /\ StackTypeOK /\ foreign \in Foreigners /\ foreign \subseteq End
      /\ UNCHANGED <<foreign, policy, callState, ctx, media, reported>>
  BY CallAssumption DEF IInv, TypeOK, ForeignCall, ForeignResponse, ForeignHangUp
<1>2. \A e \in foreign : ForeignMedia \cup {NoSdp} \subseteq Sdp(e)
  BY <1>1, Attrs
<1>3. reported' \in [End -> BOOLEAN]
  BY <1>1 DEF StackTypeOK
<1>4. \A e \in End : <<>> \in Seq(Event(e)) /\ wire[e] \in Seq(Message(e))
  BY <1>1 DEF StackTypeOK
<1>5. CASE ForeignCall
  <2>1. PICK sdp \in ForeignMedia :
          Stack("caller", "calling", wire["caller"], <<Msg("INVITE", 0, sdp)>>, <<>>)
    BY <1>5 DEF ForeignCall
  <2>2. "caller" \in foreign /\ "caller" \in End
    BY <1>1, <1>5 DEF ForeignCall
  <2>3. <<Msg("INVITE", 0, sdp)>> \in Seq(Message(Peer("caller")))
    BY <1>2, <2>2, Peers DEF Msg, Message
  <2>4. StackTypeOK'
    BY <1>1, <1>3, <1>4, <2>1, <2>2, <2>3, StackTypes
  <2>5. QED
    BY <1>1, <2>4, StackInv
<1>6. CASE ForeignResponse
  <2>1. "callee" \in foreign /\ "callee" \in End
    BY <1>1, <1>6 DEF ForeignResponse
  <2>2. ASSUME \E status \in {180, 183}, sdp \in ForeignMedia \cup {NoSdp} :
                 Stack("callee", "early", wire["callee"], <<Msg("PROVISIONAL", status, sdp)>>, <<>>)
        PROVE  StackTypeOK'
    <3>1. PICK status \in {180, 183}, sdp \in ForeignMedia \cup {NoSdp} :
            Stack("callee", "early", wire["callee"], <<Msg("PROVISIONAL", status, sdp)>>, <<>>)
      BY <2>2
    <3> DEFINE e == "callee"
               out == <<Msg("PROVISIONAL", status, sdp)>>
               none == <<>>
    <3>2. out \in Seq(Message(Peer(e)))
      BY <1>2, <2>1, Peers DEF Msg, Message
    <3>3. wire[e] \in Seq(Message(e)) /\ none \in Seq(Event(e))
      BY <1>4, <2>1
    <3>4. StackTypeOK /\ foreign' = foreign /\ reported' \in [End -> BOOLEAN] /\ e \in End
      BY <1>1, <1>3, <2>1
    <3>5. Stack(e, "early", wire[e], out, none)
      BY <3>1
    <3> HIDE DEF e, out, none
    <3>6. QED
      BY <3>2, <3>3, <3>4, <3>5, StackTypes
  <2>3. ASSUME NEW sdp \in ForeignMedia, NuaAccept("callee", sdp, <<>>) PROVE StackTypeOK'
    BY <1>1, <1>2, <1>4, <2>1, <2>3, NuaTypes
  <2>4. ASSUME NuaRefuse("callee", 486, <<>>) PROVE StackTypeOK'
    <3>1. 486 \in Nat
      OBVIOUS
    <3>2. QED
      BY <1>1, <1>4, <2>1, <2>4, <3>1, NuaTypes
  <2>5. \/ \E status \in {180, 183}, sdp \in ForeignMedia \cup {NoSdp} :
             Stack("callee", "early", wire["callee"], <<Msg("PROVISIONAL", status, sdp)>>, <<>>)
        \/ \E sdp \in ForeignMedia : NuaAccept("callee", sdp, <<>>)
        \/ NuaRefuse("callee", 486, <<>>)
    BY <1>6, Zenon DEF ForeignResponse
  <2>6. StackTypeOK'
    BY <2>2, <2>3, <2>4, <2>5
  <2>7. QED
    BY <1>1, <2>6, StackInv
<1>7. CASE ForeignHangUp
  <2>1. PICK e \in foreign : NuaCancel(e, <<>>) \/ NuaBye(e, <<>>)
    BY <1>7 DEF ForeignHangUp
  <2>2. StackTypeOK'
    BY <1>1, <1>4, <2>1, NuaTypes
  <2>3. QED
    BY <1>1, <2>2, StackInv
<1>8. QED
  BY <1>5, <1>6, <1>7

\* The keys of a pipeline that is switched on come from a negotiated context.
LEMMA ActivateMediaKeys ==
  ASSUME NEW e \in Calls, e \in End, NEW c \in Context(e), Agreed(c), IInv
  PROVE  LET pipe == ActivateMedia(e, c)
         IN  /\ pipe \in [on : BOOLEAN, keys : {<<>>} \cup (Attr(e) \X Attr(Peer(e)))]
             /\ pipe.on /\ pipe.keys # <<>> => /\ pipe.keys[1].tag = pipe.keys[2].tag
                                               /\ pipe.keys[1].suite = pipe.keys[2].suite
             /\ policy[e] = "FORCED" /\ pipe.on => pipe.keys # <<>>
<1> DEFINE L == Attr(e)
           R == Attr(Peer(e))
           Pipes == [on : BOOLEAN, keys : {<<>>} \cup (L \X R)]
<1>1. CASE IsNegotiated(c)
  <2>1. c.local \in Seq(L) /\ c.remote \in Seq(R)
    BY DEF Context
  <2>2. c.tag \in Tags(c.local) /\ c.tag \in Tags(c.remote)
    BY <1>1 DEF Agreed
  <2>3. LocalCrypto(c) \in L /\ LocalCrypto(c).tag = c.tag
    BY <2>1, <2>2, ByTagIn DEF LocalCrypto
  <2>4. RemoteCrypto(c) \in R /\ RemoteCrypto(c).tag = c.tag
    BY <2>1, <2>2, ByTagIn DEF RemoteCrypto
  <2>5. LocalCrypto(c).suite = RemoteCrypto(c).suite
    BY <1>1 DEF Agreed
  <2>6. ActivateMedia(e, c) = [on |-> TRUE, keys |-> <<LocalCrypto(c), RemoteCrypto(c)>>]
    BY <1>1 DEF ActivateMedia
  <2> HIDE DEF L, R
  <2>7. ActivateMedia(e, c) \in Pipes
    BY <2>3, <2>4, <2>6
  <2>8. QED
    BY <2>3, <2>4, <2>5, <2>6, <2>7 DEF L, R
<1>2. CASE ~ IsNegotiated(c) /\ policy[e] = "FORCED"
  <2>1. ActivateMedia(e, c) = media[e]
    BY <1>2 DEF ActivateMedia
  <2>2. QED
    BY <2>1 DEF IInv, TypeOK, KeysBelongTogether, ForcedIsEncrypted
<1>3. CASE ~ IsNegotiated(c) /\ policy[e] # "FORCED"
  <2>1. ActivateMedia(e, c) = [on |-> TRUE, keys |-> <<>>]
    BY <1>3 DEF ActivateMedia
  <2>2. QED
    BY <1>3, <2>1
<1>4. QED
  BY <1>1, <1>2, <1>3

\* A step that changes the media of an end in this way, and keeps the rest.
LEMMA MediaReplaced ==
  ASSUME IInv, UNCHANGED <<foreign, policy>>, StackTypeOK',
         callState' \in [End -> CallStates],
         DOMAIN ctx' = End, \A x \in End : ctx'[x] \in Context(x) /\ Agreed(ctx'[x]),
         NEW e \in End, NEW pipe \in [on : BOOLEAN, keys : {<<>>} \cup (Attr(e) \X Attr(Peer(e)))],
         media' = [media EXCEPT ![e] = pipe],
         pipe.on /\ pipe.keys # <<>> => /\ pipe.keys[1].tag = pipe.keys[2].tag
                                        /\ pipe.keys[1].suite = pipe.keys[2].suite,
         policy[e] = "FORCED" /\ pipe.on => pipe.keys # <<>>
  PROVE  IInv'
<1> DEFINE Pipes(x) == [on : BOOLEAN, keys : {<<>>} \cup (Attr(x) \X Attr(Peer(x)))]
<1>1. \A x \in End : Attr(x)' = Attr(x) /\ Context(x)' = Context(x) /\ Key(x)' = Key(x)
  BY DEF Context, Attr, Key
<1>2. \A x \in End : Pipes(x)' = Pipes(x)
  <2> HIDE DEF Attr
  <2>1. QED
    BY <1>1, Peers
<1>3. DOMAIN media' = End /\ \A x \in End : media'[x] \in Pipes(x)
  <2>1. DOMAIN media = End /\ \A x \in End : media[x] \in Pipes(x)
    BY DEF IInv, TypeOK
  <2>2. pipe \in Pipes(e)
    OBVIOUS
  <2> HIDE DEF Pipes
  <2>3. QED
    BY <2>1, <2>2
<1>4. TypeOK'
  <2>1. foreign' \in Foreigners /\ policy' \in [End -> Policies]
    BY DEF IInv, TypeOK
  <2>2. \A x \in End : ctx'[x] \in Context(x)'
    BY <1>1
  <2>3. \A x \in End : media'[x] \in Pipes(x)'
    BY <1>2, <1>3
  <2>4. QED
    BY <1>3, <2>1, <2>2, <2>3 DEF TypeOK, CallStates
<1>5. media'[e] = pipe /\ \A x \in End \ {e} : media'[x] = media[x]
  BY DEF IInv, TypeOK
<1>6. Calls' = Calls /\ Calls \subseteq End
  BY DEF Calls
<1>7. ForcedIsEncrypted'
  BY <1>5, <1>6 DEF ForcedIsEncrypted, IInv
<1>8. KeysBelongTogether'
  <2> SUFFICES ASSUME NEW x \in Calls, media'[x].on, media'[x].keys # <<>>
               PROVE  /\ media'[x].keys[1].key \in Key(x) /\ media'[x].keys[2].key \in Key(Peer(x))
                      /\ media'[x].keys[1].tag = media'[x].keys[2].tag
                      /\ media'[x].keys[1].suite = media'[x].keys[2].suite
    BY <1>1, <1>6, Peers DEF KeysBelongTogether
  <2>1. CASE x = e
    <3>1. pipe.keys \in Attr(e) \X Attr(Peer(e))
      BY <1>5, <2>1
    <3>2. pipe.keys[1] \in Attr(e) /\ pipe.keys[2] \in Attr(Peer(e))
      BY <3>1
    <3>3. pipe.keys[1].key \in Key(e) /\ pipe.keys[2].key \in Key(Peer(e))
      BY <3>2 DEF Attr
    <3>4. QED
      BY <1>5, <2>1, <3>3
  <2>2. CASE x # e
    BY <1>5, <1>6, <2>2 DEF IInv, KeysBelongTogether
  <2>3. QED
    BY <2>1, <2>2
<1>9. QED
  BY <1>4, <1>7, <1>8 DEF IInv

\* An event of the dialogue: refused, or followed by the call and its media.
LEMMA IStateInv == ASSUME IInv, NEW e \in End, IState(e) PROVE IInv'
<1> DEFINE ev == Head(events[e])
           rest == Tail(events[e])
           c == RemoteMedia(e, ev.sdp)
           Pipes == [on : BOOLEAN, keys : {<<>>} \cup (Attr(e) \X Attr(Peer(e)))]
<1>1. StackTypeOK /\ e \in Calls /\ UNCHANGED <<foreign, policy, reported>>
  BY DEF IInv, TypeOK, IState
<1>2. ev \in Event(e) /\ rest \in Seq(Event(e))
  <2>1. events[e] \in Seq(Event(e)) /\ events[e] # <<>>
    BY <1>1 DEF StackTypeOK, IState
  <2>2. QED
    BY <2>1
<1>3. c \in Context(e) /\ Agreed(c)
  <2> DEFINE L == Attr(e)
             R == Attr(Peer(e))
  <2>1. ctx[e] \in Context(e) /\ Agreed(ctx[e])
    BY DEF IInv, TypeOK
  <2>2. ev.sdp # NoSdp => ev.sdp.crypto \in Seq(R)
    <3>1. ev.sdp \in Sdp(Peer(e))
      BY <1>2 DEF Event
    <3>2. QED
      BY <3>1 DEF Sdp
  <2>3. (\A a \in L \cup R : a.tag \in Nat) /\ Context(e) = Contexts(L, R)
    BY Attrs
  <2> HIDE DEF L, R, ev
  <2>4. ev.sdp # NoSdp => /\ SetRemoteMedia(ctx[e], ev.sdp.crypto) \in Context(e)
                          /\ Agreed(SetRemoteMedia(ctx[e], ev.sdp.crypto))
    BY <2>1, <2>2, <2>3, SetRemoteAgrees
  <2>5. QED
    BY <2>1, <2>4 DEF RemoteMedia
<1> HIDE DEF c, rest
<1>4. DOMAIN ctx' = End /\ \A x \in End : ctx'[x] \in Context(x) /\ Agreed(ctx'[x])
  <2>1. ctx' = [ctx EXCEPT ![e] = c]
    BY DEF IState, c
  <2>2. QED
    BY <1>3, <2>1, ContextReplaced
<1>5. CASE ev.sdp # NoSdp /\ Refuses(e, ev.sdp)
  <2>1. /\ \/ callState' = [callState EXCEPT ![e] = "INCOMING"] /\ NuaRefuse(e, 480, rest)
           \/ callState' = callState /\ SipHangUp(e, rest)
        /\ media' = media
    BY <1>5 DEF IState, rest
  <2>2. StackTypeOK'
    <3>1. 480 \in Nat
      OBVIOUS
    <3>2. CASE NuaRefuse(e, 480, rest)
      BY <1>1, <1>2, <3>1, <3>2, NuaTypes
    <3>3. CASE SipHangUp(e, rest)
      BY <1>1, <1>2, <3>3, HangUpTypes
    <3>4. QED
      BY <2>1, <3>2, <3>3
  <2>3. callState' \in [End -> CallStates]
    BY <2>1 DEF IInv, TypeOK, CallStates
  <2>4. QED
    BY <1>1, <1>4, <2>1, <2>2, <2>3, MediaUntouched
<1>6. CASE ~ (ev.sdp # NoSdp /\ Refuses(e, ev.sdp))
  <2> DEFINE pipe == CASE ev.state = "ready" -> ActivateMedia(e, c)
                       [] ev.state = "terminated" -> Silent
                       [] OTHER -> media[e]
  <2>1. /\ callState' = [callState EXCEPT ![e] = NewCallState(ev)]
        /\ events' = [events EXCEPT ![e] = rest]
        /\ UNCHANGED <<dialog, wire>>
    BY <1>6 DEF IState, rest
  <2>2. media' = [media EXCEPT ![e] = pipe]
    BY <1>6 DEF IState, c, rest
  <2>3. callState' \in [End -> CallStates]
    <3>1. ev.state \in {"calling", "proceeding", "received", "ready", "terminated"}
      BY <1>2 DEF Event
    <3>2. NewCallState(ev) \in CallStates
      BY <3>1 DEF NewCallState, CallStates
    <3>3. QED
      BY <2>1, <3>2 DEF IInv, TypeOK, CallStates
  <2>4. StackTypeOK'
    <3>1. \A x \in End : Event(x)' = Event(x) /\ Message(x)' = Message(x)
      BY <1>1 DEF Event, Message, Sdp, Attr, Key
    <3>2. QED
      BY <1>1, <1>2, <2>1, <3>1 DEF StackTypeOK
  <2>5. /\ pipe \in Pipes
        /\ pipe.on /\ pipe.keys # <<>> => /\ pipe.keys[1].tag = pipe.keys[2].tag
                                          /\ pipe.keys[1].suite = pipe.keys[2].suite
        /\ policy[e] = "FORCED" /\ pipe.on => pipe.keys # <<>>
    <3>1. CASE ev.state = "ready"
      BY <1>1, <1>3, <3>1, ActivateMediaKeys
    <3>2. CASE ev.state = "terminated"
      <4>1. pipe = [on |-> FALSE, keys |-> <<>>]
        BY <3>2 DEF Silent
      <4> HIDE DEF pipe
      <4>2. pipe.on = FALSE /\ pipe.keys = <<>> /\ pipe \in Pipes
        BY <4>1
      <4>3. QED
        BY <4>2
    <3>3. CASE ev.state \notin {"ready", "terminated"}
      <4>1. pipe = media[e]
        BY <3>3
      <4>2. QED
        BY <1>1, <4>1 DEF IInv, TypeOK, KeysBelongTogether, ForcedIsEncrypted
    <3>4. QED
      BY <3>1, <3>2, <3>3
  <2> HIDE DEF pipe
  <2>6. QED
    BY <1>1, <1>4, <2>2, <2>3, <2>4, <2>5, MediaReplaced
<1>7. QED
  BY <1>5, <1>6

-----------------------------------------------------------------------------
(* The theorems. *)

\* The invariant is inductive.
LEMMA InitInv == Init => IInv
<1> SUFFICES ASSUME Init PROVE IInv
  OBVIOUS
<1>1. foreign \in Foreigners /\ policy \in [End -> Policies]
  BY DEF Init
<1>2. \A e \in End : ctx[e] \in Context(e) /\ Agreed(ctx[e])
  BY DEF Init, NewContext, Context, Agreed, IsNegotiated
<1>3. \A e \in End : media[e] \in [on : BOOLEAN, keys : {<<>>} \cup (Attr(e) \X Attr(Peer(e)))]
  BY DEF Init, Silent
<1>4. StackTypeOK
  BY DEF Init, StackTypeOK
<1>5. TypeOK
  BY <1>1, <1>2, <1>3, <1>4 DEF Init, TypeOK
<1>6. KeysBelongTogether /\ ForcedIsEncrypted
  BY DEF Init, Silent, KeysBelongTogether, ForcedIsEncrypted, Calls
<1>7. QED
  BY <1>2, <1>5, <1>6 DEF IInv

\* Every step preserves it.
LEMMA NextInv == IInv /\ [Next]_vars => IInv'
<1> SUFFICES ASSUME IInv, [Next]_vars PROVE IInv'
  OBVIOUS
<1>1. CASE Dial
  BY <1>1, DialInv
<1>2. CASE ForeignCall \/ ForeignResponse \/ ForeignHangUp
  BY <1>2, ForeignInv
<1>3. ASSUME NEW e \in End, HangUp(e) \/ Answer(e) \/ IState(e) \/ Receive(e)
      PROVE  IInv'
  BY <1>3, HangUpInv, AnswerInv, IStateInv, ReceiveInv
<1>4. CASE UNCHANGED vars
  <2>1. UNCHANGED <<foreign, policy, callState, ctx, media, dialog, reported, events, wire>>
    BY <1>4 DEF vars
  <2>2. StackTypeOK'
    <3>1. \A x \in End : Event(x)' = Event(x) /\ Message(x)' = Message(x)
      BY <2>1 DEF Event, Message, Sdp, Attr, Key
    <3>2. StackTypeOK
      BY DEF IInv, TypeOK
    <3>3. QED
      BY <2>1, <3>1, <3>2 DEF StackTypeOK
  <2>3. QED
    BY <2>1, <2>2, StackInv
<1>5. QED
  BY <1>1, <1>2, <1>3, <1>4 DEF Next

\* So it always holds.
LEMMA InvHolds == Spec => []IInv
BY InitInv, NextInv, PTL DEF Spec

\* Every variable keeps its type; the keys in every message, context and
\* pipeline stay those of the end that generated them.
THEOREM CallTypeCorrect == Spec => []TypeOK
<1>1. IInv => TypeOK
  BY DEF IInv
<1>2. QED
  BY <1>1, InvHolds, PTL

\* An account that forces encryption never plays a call in the clear, whatever
\* calls_sip_call_activate_media () was reached with.
THEOREM ForcedEncrypted == Spec => []ForcedIsEncrypted
<1>1. IInv => ForcedIsEncrypted
  BY DEF IInv
<1>2. QED
  BY <1>1, InvHolds, PTL

\* The two keys given to the pipeline belong to one tag and one suite, and to
\* the right ends, whatever a foreign end offers or answers.
THEOREM KeysMatch == Spec => []KeysBelongTogether
<1>1. IInv => KeysBelongTogether
  BY DEF IInv
<1>2. QED
  BY <1>1, InvHolds, PTL

-----------------------------------------------------------------------------
(* Two ends of this program.                                                *)
(*                                                                         *)
(* When no end is foreign, everything that happens between the two ends    *)
(* follows from the policies and from the order of the steps.  PairInv     *)
(* relates the two dialogues with the messages and events on their way,    *)
(* and the two crypto contexts with each other; it is inductive.           *)

\* What two ends of this program make of their media descriptions.  There is
\* only one offer, with every suite, and one answer to it, with its first line.
TheOffer  == [i \in 1..4 |-> [tag |-> i, suite |-> OfferSuites[i], key |-> <<"caller", i>>]]
TheAnswer == <<[tag |-> 1, suite |-> OfferSuites[1], key |-> <<"callee", 1>>]>>

Offered   == [state |-> "OFFER_LOCAL", local |-> TheOffer, remote |-> <<>>, tag |-> 0]
GotOffer  == [state |-> "OFFER_REMOTE", local |-> <<>>, remote |-> TheOffer, tag |-> 0]
Answered  == [state |-> "NEGOTIATION_SUCCESS", local |-> TheAnswer, remote |-> TheOffer, tag |-> 1]
GotAnswer == [state |-> "NEGOTIATION_SUCCESS", local |-> TheOffer, remote |-> TheAnswer, tag |-> 1]

\* The callee has answered, or its call is over: it changes its context no more.
CalleeDone == callState["callee"] \in {"ACTIVE", "DISCONNECTED"}

\* An answer to an offer is in the contexts.
AnswerFits == ctx["caller"] # NewContext => ctx["callee"] = Answered

\* The crypto contexts, with the policies.
ContextsFit ==
  /\ ctx["caller"] \in {NewContext, Offered, GotAnswer}
  /\ ctx["callee"] \in {NewContext, GotOffer, Answered}
  /\ policy["caller"] = "NONE" => ctx["caller"] = NewContext
  /\ policy["caller"] # "NONE" /\ callState["caller"] # "NONE" => ctx["caller"] # NewContext
  /\ ctx["callee"] # NewContext => ctx["caller"] # NewContext
  /\ ctx["caller"] = GotAnswer => ctx["callee"] = Answered
  /\ ctx["callee"] = Answered => CalleeDone
  /\ callState["callee"] = "NONE" => ctx["callee"] = NewContext
  /\ dialog["callee"] = "received" /\ callState["callee"] = "INCOMING" /\ ctx["caller"] # NewContext
       => ctx["callee"] = GotOffer
  /\ callState["callee"] = "ACTIVE" /\ policy["callee"] = "FORCED" => ctx["callee"] = Answered

\* The call of an end, and its dialogue.
CallsFit ==
  /\ callState["caller"] \in {"NONE", "DIALING", "ACTIVE", "DISCONNECTED"}
  /\ callState["caller"] = "NONE" => dialog["caller"] = "init"
  /\ callState["caller"] = "DISCONNECTED" => dialog["caller"] = "terminated"
  /\ callState["caller"] = "ACTIVE" =>
       media["caller"].on /\ dialog["caller"] \in {"ready", "terminating", "terminated"}
  /\ dialog["callee"] = "init" => callState["callee"] = "NONE"
  /\ dialog["callee"] = "received" => callState["callee"] \in {"NONE", "INCOMING"}
  /\ dialog["callee"] \in {"completed", "ready", "terminating"} => callState["callee"] = "ACTIVE"

Has(queue, type) == \E i \in DOMAIN queue : queue[i].type = type

\* The dialogues of the two ends, with what is on its way between them.
DialogsFit ==
  /\ dialog["caller"] \in {"init", "calling", "cancelled", "ready", "terminating", "terminated"}
  /\ dialog["caller"] = "init" =>
       /\ dialog["callee"] = "init"
       /\ ctx["caller"] = NewContext /\ callState["caller"] = "NONE"
       /\ \A e \in End : wire[e] = <<>> /\ events[e] = <<>> /\ ~ reported[e]
  /\ dialog["caller"] \in {"calling", "cancelled"} =>
       \/ dialog["callee"] \in {"init", "received"} /\ wire["caller"] = <<>> /\ ~ reported["caller"]
       \/ /\ wire["caller"] # <<>> /\ wire["caller"][1].type = "FINAL"
          /\ \/ dialog["callee"] = "completed"
             \/ dialog["callee"] = "terminating" /\ Has(wire["caller"], "BYE")
             \/ dialog["callee"] = "terminated" /\ wire["caller"][1].status # 200
  /\ dialog["caller"] = "ready" =>
       \/ dialog["callee"] = "completed" /\ Has(wire["callee"], "ACK")
       \/ dialog["callee"] = "ready"
       \/ dialog["callee"] = "terminating" /\ Has(wire["caller"], "BYE")
  /\ dialog["caller"] = "terminating" =>
       \/ dialog["callee"] \in {"completed", "ready"} /\ Has(wire["callee"], "BYE")
       \/ dialog["callee"] = "terminating" /\ Has(wire["callee"], "BYE") /\ Has(wire["caller"], "BYE")
       \/ dialog["callee"] = "terminated" /\ Has(wire["caller"], "GONE")
  /\ dialog["caller"] = "terminated" =>
       \/ dialog["callee"] = "terminating" /\ Has(wire["callee"], "GONE")
       \/ dialog["callee"] = "terminated"

\* Each message on its way to the callee.
ToCallee == \A i \in DOMAIN wire["callee"] :
  LET m == wire["callee"][i]
  IN  \/ /\ m = Msg("INVITE", 0, LocalSdp(ctx["caller"].local))
         /\ i = 1 /\ dialog["callee"] = "init" /\ events["callee"] = <<>> /\ ~ reported["callee"]
      \/ /\ m.sdp = NoSdp
         /\ \/ m.type = "CANCEL"
            \/ m.type = "ACK" /\ dialog["caller"] \in {"ready", "terminating", "terminated"}
            \/ m.type = "BYE" /\ dialog["caller"] \in {"terminating", "terminated"}
            \/ m.type = "GONE" /\ dialog["caller"] = "terminated"

\* Each message on its way to the caller.
ToCaller == \A i \in DOMAIN wire["caller"] :
  LET m == wire["caller"][i]
  IN  \/ /\ m = Msg("FINAL", 200, LocalSdp(ctx["callee"].local))
         /\ i = 1 /\ ~ reported["caller"] /\ CalleeDone /\ AnswerFits
         /\ dialog["caller"] \in {"calling", "cancelled"}
      \/ /\ m.sdp = NoSdp
         /\ \/ m.type = "FINAL" /\ m.status # 200 /\ i = 1
               /\ dialog["caller"] \in {"calling", "cancelled"} /\ dialog["callee"] = "terminated"
            \/ m.type = "BYE" /\ dialog["callee"] \in {"terminating", "terminated"}
            \/ m.type = "GONE" /\ dialog["callee"] = "terminated"

\* What the callee was not told yet.
CalleeHears ==
  /\ \A i \in DOMAIN events["callee"] :
       LET ev == events["callee"][i]
       IN  \/ /\ ev.state = "received" /\ ev.sdp = LocalSdp(ctx["caller"].local)
              /\ i = 1 /\ callState["callee"] = "NONE"
              /\ dialog["callee"] \in {"received", "terminated"}
           \/ /\ ev.state = "ready" /\ ev.sdp = NoSdp
              /\ callState["callee"] = "ACTIVE"
              /\ dialog["callee"] \in {"ready", "terminating", "terminated"}
           \/ /\ ev.state = "terminated" /\ ev.sdp = NoSdp
              /\ i = Len(events["callee"]) /\ dialog["callee"] = "terminated"
  /\ dialog["callee"] = "terminated" =>
       IF events["callee"] = <<>> THEN callState["callee"] = "DISCONNECTED"
       ELSE events["callee"][Len(events["callee"])].state = "terminated"
  /\ dialog["callee"] = "ready" =>
       IF events["callee"] = <<>> THEN media["callee"].on
       ELSE events["callee"][Len(events["callee"])].state = "ready"

\* What the caller was not told yet.
CallerHears ==
  /\ \A i \in DOMAIN events["caller"] :
       LET ev == events["caller"][i]
       IN  \/ /\ ev.state = "calling" /\ ev.sdp = NoSdp
              /\ i = 1 /\ callState["caller"] = "DIALING"
           \/ /\ ev.state = "ready" /\ ev.sdp = LocalSdp(ctx["callee"].local)
              /\ CalleeDone /\ AnswerFits /\ ctx["caller"] # GotAnswer
              /\ \A j \in DOMAIN events["caller"] : j > i => events["caller"][j].state = "terminated"
              /\ callState["caller"] = "DIALING"
              /\ dialog["caller"] \in {"ready", "terminating", "terminated"}
           \/ /\ ev.state = "terminated" /\ ev.sdp = NoSdp
              /\ i = Len(events["caller"]) /\ dialog["caller"] = "terminated"
  /\ dialog["caller"] = "terminated" =>
       IF events["caller"] = <<>> THEN callState["caller"] = "DISCONNECTED"
       ELSE events["caller"][Len(events["caller"])].state = "terminated"
  /\ dialog["caller"] \in {"ready", "terminating"} =>
       IF events["caller"] = <<>> THEN callState["caller"] = "ACTIVE"
       ELSE events["caller"][Len(events["caller"])].state = "ready"
  /\ dialog["caller"] \in {"calling", "cancelled"} => ctx["caller"] # GotAnswer

\* A pipeline plays with what its context says.
PipesFit ==
  /\ media["caller"].on =>
       /\ CalleeDone
       /\ ctx["callee"] = Answered => ctx["caller"] = GotAnswer
       /\ media["caller"].keys = IF ctx["caller"] = GotAnswer THEN <<TheOffer[1], TheAnswer[1]>> ELSE <<>>
  /\ media["callee"].on =>
       /\ CalleeDone
       /\ media["callee"].keys = IF ctx["callee"] = Answered THEN <<TheAnswer[1], TheOffer[1]>> ELSE <<>>

PairInv ==
  /\ ContextsFit /\ CallsFit /\ DialogsFit
  /\ ToCallee /\ ToCaller /\ CalleeHears /\ CallerHears /\ PipesFit

-----------------------------------------------------------------------------
(* The concrete contexts. *)

LEMMA LeastOne == ASSUME NEW S, S \subseteq Nat \ {0}, 1 \in S PROVE Least(S) = 1
<1>1. Least(S) \in S
  BY LeastIn
<1>2. \A j \in S : 1 <= j
  OBVIOUS
<1>3. \E i \in S : \A j \in S : i <= j
  BY <1>2
<1>4. \A j \in S : Least(S) <= j
  BY <1>3 DEF Least
<1>5. Least(S) <= 1 /\ Least(S) \in Nat \ {0}
  BY <1>1, <1>4
<1>6. QED
  BY <1>5

\* The first line of the offer and of the answer.
LEMMA Lines ==
  /\ TheOffer # <<>> /\ TheAnswer # <<>> /\ DOMAIN TheOffer = 1..4 /\ DOMAIN TheAnswer = 1..1
  /\ \A i \in 1..4 : TheOffer[i] = [tag |-> i, suite |-> OfferSuites[i], key |-> <<"caller", i>>]
  /\ TheAnswer[1] = [tag |-> 1, suite |-> OfferSuites[1], key |-> <<"callee", 1>>]
  /\ Tags(TheOffer) = 1..4 /\ Tags(TheAnswer) = {1}
  /\ ByTag(TheOffer, 1) = TheOffer[1] /\ ByTag(TheAnswer, 1) = TheAnswer[1]
<1>1. DOMAIN TheOffer = 1..4 /\ DOMAIN TheAnswer = 1..1 /\ TheAnswer # <<>>
  BY DEF TheOffer, TheAnswer
<1>2. \A i \in 1..4 : TheOffer[i] = [tag |-> i, suite |-> OfferSuites[i], key |-> <<"caller", i>>]
  BY DEF TheOffer
<1>3. TheAnswer[1] = [tag |-> 1, suite |-> OfferSuites[1], key |-> <<"callee", 1>>]
  BY DEF TheAnswer
<1>4. \A i \in 1..4 : TheOffer[i].tag = i
  BY <1>2
<1>5. TheAnswer[1].tag = 1
  BY <1>3
<1>6. Tags(TheOffer) = 1..4 /\ Tags(TheAnswer) = {1}
  BY <1>1, <1>4, <1>5 DEF Tags
<1>7. {i \in DOMAIN TheOffer : TheOffer[i].tag = 1} = {1}
  BY <1>1, <1>4
<1>8. {i \in DOMAIN TheAnswer : TheAnswer[i].tag = 1} = {1}
  BY <1>1, <1>5
<1>9. Least({1}) = 1
  BY LeastOne
<1>10. ByTag(TheOffer, 1) = TheOffer[1] /\ ByTag(TheAnswer, 1) = TheAnswer[1]
  BY <1>7, <1>8, <1>9 DEF ByTag
<1>11. TheOffer # <<>>
  BY <1>1
<1>12. QED
  BY <1>1, <1>2, <1>3, <1>6, <1>10, <1>11

\* What is in each context.
LEMMA ContextValues ==
  /\ NewContext.state = "INIT" /\ NewContext.local = <<>> /\ NewContext.remote = <<>>
  /\ Offered.state = "OFFER_LOCAL" /\ Offered.local = TheOffer /\ Offered.remote = <<>>
  /\ GotOffer.state = "OFFER_REMOTE" /\ GotOffer.local = <<>> /\ GotOffer.remote = TheOffer
  /\ Answered.state = "NEGOTIATION_SUCCESS" /\ Answered.local = TheAnswer /\ Answered.remote = TheOffer
  /\ GotAnswer.state = "NEGOTIATION_SUCCESS" /\ GotAnswer.local = TheOffer /\ GotAnswer.remote = TheAnswer
  /\ LocalCrypto(Answered) = TheAnswer[1] /\ RemoteCrypto(Answered) = TheOffer[1]
  /\ LocalCrypto(GotAnswer) = TheOffer[1] /\ RemoteCrypto(GotAnswer) = TheAnswer[1]
<1>1. LocalCrypto(Answered) = ByTag(TheAnswer, 1) /\ RemoteCrypto(Answered) = ByTag(TheOffer, 1)
  BY DEF LocalCrypto, RemoteCrypto, Answered
<1>2. LocalCrypto(GotAnswer) = ByTag(TheOffer, 1) /\ RemoteCrypto(GotAnswer) = ByTag(TheAnswer, 1)
  BY DEF LocalCrypto, RemoteCrypto, GotAnswer
<1>3. QED
  BY <1>1, <1>2, Lines DEF NewContext, Offered, GotOffer, Answered, GotAnswer

\* An offer and its answer agree on the first line.
LEMMA FirstLineAgreed ==
  ASSUME NEW c,
         \/ c = [state |-> "OFFER_LOCAL", local |-> TheOffer, remote |-> TheAnswer, tag |-> 0]
         \/ c = [state |-> "OFFER_REMOTE", local |-> TheAnswer, remote |-> TheOffer, tag |-> 0]
  PROVE  UpdateState(c) = [c EXCEPT !.state = "NEGOTIATION_SUCCESS", !.tag = 1]
<1>1. CommonTags(TheOffer, TheAnswer) = {1}
  <2>1. \A i \in 1..4 : TheOffer[i].tag = i
    BY Lines
  <2>2. QED
    BY <2>1, Lines DEF CommonTags
<1>2. Least(CommonTags(TheOffer, TheAnswer)) = 1
  BY <1>1, LeastOne
<1>3. TheOffer[1].tag = 1 /\ TheOffer[1].suite = TheAnswer[1].suite
  BY Lines
<1>4. UpdateState(c) = Negotiate(c, TheOffer, TheAnswer)
  BY DEF UpdateState
<1>5. /\ c.local \in {TheOffer, TheAnswer} /\ c.remote \in {TheOffer, TheAnswer}
  OBVIOUS
<1>6. ByTag(c.local, 1).suite = ByTag(c.remote, 1).suite
  BY <1>3, <1>5, Lines
<1>7. QED
  BY <1>1, <1>2, <1>3, <1>4, <1>6 DEF Negotiate

\* What the operations of the context make of them.
LEMMA ContextSteps ==
  /\ GenerateOffer(NewContext, "caller") = Offered
  /\ \A c : SetRemoteMedia(c, <<>>) = c
  /\ SetRemoteMedia(NewContext, TheOffer) = GotOffer
  /\ GeneratesAnswer(GotOffer) /\ GenerateAnswer(GotOffer, "callee") = Answered
  /\ SetRemoteMedia(Offered, TheAnswer) = GotAnswer
<1>1. GenerateOffer(NewContext, "caller") = Offered
  <2>1. GenerateOffer(NewContext, "caller") = UpdateState([NewContext EXCEPT !.local = TheOffer])
    BY DEF GenerateOffer, NewContext, TheOffer
  <2>2. QED
    BY <2>1, Lines DEF UpdateState, NewContext, Offered
<1>2. \A c : SetRemoteMedia(c, <<>>) = c
  BY DEF SetRemoteMedia
<1>3. SetRemoteMedia(NewContext, TheOffer) = GotOffer
  <2>1. SetRemoteMedia(NewContext, TheOffer) = UpdateState([NewContext EXCEPT !.remote = TheOffer])
    BY Lines DEF SetRemoteMedia, NewContext
  <2>2. QED
    BY <2>1 DEF UpdateState, NewContext, GotOffer
<1>4. SupportedOffers(GotOffer) = 1..4
  <2>1. \A i \in 1..4 : TheOffer[i].suite \in Suite
    BY Lines DEF Suite
  <2>2. QED
    BY <2>1, Lines, ContextValues DEF SupportedOffers, Supported
<1>5. GeneratesAnswer(GotOffer)
  BY <1>4, ContextValues DEF GeneratesAnswer
<1>6. GenerateAnswer(GotOffer, "callee") = Answered
  <2>1. Least(1..4) = 1
    BY LeastOne
  <2>2. GenerateAnswer(GotOffer, "callee") = UpdateState([GotOffer EXCEPT !.local =
          <<[tag |-> TheOffer[1].tag, suite |-> TheOffer[1].suite, key |-> <<"callee", TheOffer[1].tag>>]>>])
    BY <1>4, <2>1, ContextValues DEF GenerateAnswer
  <2>3. TheOffer[1].tag = 1 /\ TheOffer[1].suite = OfferSuites[1]
    BY Lines
  <2>4. GenerateAnswer(GotOffer, "callee") = UpdateState([GotOffer EXCEPT !.local = TheAnswer])
    BY <2>2, <2>3 DEF TheAnswer
  <2>5. [GotOffer EXCEPT !.local = TheAnswer]
          = [state |-> "OFFER_REMOTE", local |-> TheAnswer, remote |-> TheOffer, tag |-> 0]
    BY DEF GotOffer
  <2>6. QED
    BY <2>4, <2>5, FirstLineAgreed DEF Answered
<1>7. SetRemoteMedia(Offered, TheAnswer) = GotAnswer
  <2>1. SetRemoteMedia(Offered, TheAnswer) = UpdateState([Offered EXCEPT !.remote = TheAnswer])
    BY Lines DEF SetRemoteMedia, Offered
  <2>2. [Offered EXCEPT !.remote = TheAnswer]
          = [state |-> "OFFER_LOCAL", local |-> TheOffer, remote |-> TheAnswer, tag |-> 0]
    BY DEF Offered
  <2>3. QED
    BY <2>1, <2>2, FirstLineAgreed DEF GotAnswer
<1>8. QED
  BY <1>1, <1>2, <1>3, <1>5, <1>6, <1>7

-----------------------------------------------------------------------------
(* Queues. *)

LEMMA TailIs ==
  ASSUME NEW S, NEW q \in Seq(S), q # <<>>
  PROVE  /\ Head(q) = q[1] /\ 1 \in DOMAIN q /\ Tail(q) \in Seq(S)
         /\ Len(q) \in Nat \ {0} /\ Len(Tail(q)) = Len(q) - 1
         /\ \A i \in DOMAIN Tail(q) : i \in Nat \ {0} /\ i + 1 \in DOMAIN q /\ Tail(q)[i] = q[i + 1]
         /\ \A t : Has(q, t) /\ q[1].type # t => Has(Tail(q), t)
         /\ Tail(q) = <<>> => Len(q) = 1
         /\ Tail(q) # <<>> => Len(Tail(q)) \in DOMAIN Tail(q) /\ Tail(q)[Len(Tail(q))] = q[Len(q)]
<1>1. /\ Head(q) = q[1] /\ 1 \in DOMAIN q /\ Tail(q) \in Seq(S)
      /\ Len(q) \in Nat \ {0} /\ Len(Tail(q)) = Len(q) - 1
  OBVIOUS
<1>2. \A i \in DOMAIN Tail(q) : i \in Nat \ {0} /\ i + 1 \in DOMAIN q /\ Tail(q)[i] = q[i + 1]
  OBVIOUS
<1>3. ASSUME NEW t, Has(q, t), q[1].type # t PROVE Has(Tail(q), t)
  <2>1. PICK i \in DOMAIN q : q[i].type = t
    BY <1>3 DEF Has
  <2>2. i # 1
    BY <1>3, <2>1
  <2>3. i - 1 \in DOMAIN Tail(q) /\ Tail(q)[i - 1] = q[i]
    BY <2>2
  <2>4. QED
    BY <2>1, <2>3 DEF Has
<1>4. Tail(q) = <<>> => Len(q) = 1
  <2>1. Len(<<>>) = 0
    OBVIOUS
  <2>2. Tail(q) = <<>> => Len(Tail(q)) = 0
    BY <2>1, Zenon
  <2>3. QED
    BY <1>1, <2>2
<1>5. Tail(q) # <<>> => Len(Tail(q)) \in DOMAIN Tail(q) /\ Tail(q)[Len(Tail(q))] = q[Len(q)]
  OBVIOUS
<1>6. QED
  BY <1>1, <1>2, <1>3, <1>4, <1>5

LEMMA ConcatIs ==
  ASSUME NEW S, NEW q \in Seq(S), NEW x \in S
  PROVE  /\ q \o <<>> = q /\ Append(q, x) = q \o <<x>>
         /\ q \o <<x>> \in Seq(S) /\ q \o <<x>> # <<>>
         /\ Len(q \o <<x>>) = Len(q) + 1 /\ (q \o <<x>>)[Len(q) + 1] = x
         /\ Len(q) \in Nat /\ DOMAIN q = 1..Len(q) /\ DOMAIN (q \o <<x>>) = 1..(Len(q) + 1)
         /\ \A i \in DOMAIN q : (q \o <<x>>)[i] = q[i]
         /\ \A t : Has(q, t) => Has(q \o <<x>>, t)
         /\ Has(q \o <<x>>, x.type)
         /\ q = <<>> => Len(q) = 0
<1>1. /\ q \o <<>> = q /\ Append(q, x) = q \o <<x>>
      /\ q \o <<x>> \in Seq(S) /\ q \o <<x>> # <<>>
  OBVIOUS
<1>2. /\ Len(q \o <<x>>) = Len(q) + 1 /\ (q \o <<x>>)[Len(q) + 1] = x
      /\ Len(q) \in Nat /\ DOMAIN q = 1..Len(q) /\ DOMAIN (q \o <<x>>) = 1..(Len(q) + 1)
      /\ q = <<>> => Len(q) = 0
  OBVIOUS
<1>3. \A i \in DOMAIN q : (q \o <<x>>)[i] = q[i]
  OBVIOUS
<1>4. \A t : Has(q, t) => Has(q \o <<x>>, t)
  BY <1>2, <1>3 DEF Has
<1>5. Has(q \o <<x>>, x.type)
  BY <1>2 DEF Has
<1>6. QED
  BY <1>1, <1>2, <1>3, <1>4, <1>5

LEMMA Ends == End = {"caller", "callee"} /\ Peer("caller") = "callee" /\ Peer("callee") = "caller"
BY DEF End, Peer

\* What the stack of an end does to both.
LEMMA StackOfCaller ==
  ASSUME TypeOK, foreign = {}, NEW new, NEW in, NEW out, NEW evs,
         Stack("caller", new, in, out, evs)
  PROVE  /\ dialog'["caller"] = new /\ dialog'["callee"] = dialog["callee"]
         /\ wire'["caller"] = in /\ wire'["callee"] = wire["callee"] \o out
         /\ events'["caller"] = evs /\ events'["callee"] = events["callee"]
BY Ends DEF Stack, TypeOK, StackTypeOK

LEMMA StackOfCallee ==
  ASSUME TypeOK, foreign = {}, NEW new, NEW in, NEW out, NEW evs,
         Stack("callee", new, in, out, evs)
  PROVE  /\ dialog'["callee"] = new /\ dialog'["caller"] = dialog["caller"]
         /\ wire'["callee"] = in /\ wire'["caller"] = wire["caller"] \o out
         /\ events'["callee"] = evs /\ events'["caller"] = events["caller"]
BY Ends DEF Stack, TypeOK, StackTypeOK

-----------------------------------------------------------------------------
(* One lemma per step of two ends of this program. *)

\* What is on a queue is a sequence.
LEMMA Queues ==
  ASSUME TypeOK, NEW e \in End
  PROVE  wire[e] \in Seq(Message(e)) /\ events[e] \in Seq(Event(e))
BY DEF TypeOK, StackTypeOK

\* A step without a media description: a message from the caller that ends or
\* cancels the call.
LEMMA CallerSpeaks ==
  ASSUME TypeOK, foreign = {}, PairInv, UNCHANGED <<policy, callState, ctx, media, reported>>,
         NEW m, NEW new,
         \/ dialog["caller"] = "calling" /\ new = "cancelled" /\ m = Msg("CANCEL", 0, NoSdp)
         \/ dialog["caller"] = "ready" /\ new = "terminating" /\ m = Msg("BYE", 0, NoSdp),
         Stack("caller", new, wire["caller"], <<m>>, events["caller"])
  PROVE  PairInv'
<1>1. /\ dialog'["caller"] = new /\ dialog'["callee"] = dialog["callee"]
      /\ wire'["caller"] = wire["caller"] /\ wire'["callee"] = wire["callee"] \o <<m>>
      /\ events'["caller"] = events["caller"] /\ events'["callee"] = events["callee"]
  BY StackOfCaller
<1>2. wire["callee"] \in Seq(Message("callee")) /\ m \in Message("callee")
  <2>1. m \in Message("callee")
    BY Ends, Attrs DEF Msg, Message
  <2>2. QED
    BY <2>1, Ends, Queues
<1> DEFINE q == wire["callee"]
<1>3. /\ Len(q \o <<m>>) = Len(q) + 1 /\ (q \o <<m>>)[Len(q) + 1] = m
      /\ Len(q) \in Nat /\ DOMAIN q = 1..Len(q) /\ DOMAIN (q \o <<m>>) = 1..(Len(q) + 1)
      /\ \A i \in DOMAIN q : (q \o <<m>>)[i] = q[i]
      /\ \A t : Has(q, t) => Has(q \o <<m>>, t)
      /\ Has(q \o <<m>>, m.type)
  BY <1>2, ConcatIs
<1>4. m.sdp = NoSdp /\ m.type = IF new = "cancelled" THEN "CANCEL" ELSE "BYE"
  BY DEF Msg
<1> USE DEF PairInv
<1>5. ContextsFit'
  BY <1>1 DEF ContextsFit, CalleeDone
<1>6. CallsFit'
  BY <1>1 DEF CallsFit
<1>7. DialogsFit'
  BY <1>1, <1>3, <1>4 DEF DialogsFit
<1>8. ToCallee'
  BY <1>1, <1>3, <1>4 DEF ToCallee
<1>9. ToCaller'
  BY <1>1 DEF ToCaller, CalleeDone, AnswerFits
<1>10. CalleeHears'
  BY <1>1 DEF CalleeHears
<1>11. CallerHears'
  BY <1>1 DEF CallerHears, CalleeDone, AnswerFits
<1>12. PipesFit'
  BY <1>1 DEF PipesFit, CalleeDone
<1>13. QED
  BY <1>5, <1>6, <1>7, <1>8, <1>9, <1>10, <1>11, <1>12

\* The BYE of the callee.
LEMMA CalleeSpeaks ==
  ASSUME TypeOK, foreign = {}, PairInv, UNCHANGED <<policy, callState, ctx, media, reported>>,
         dialog["callee"] \in {"completed", "ready"},
         Stack("callee", "terminating", wire["callee"], <<Msg("BYE", 0, NoSdp)>>, events["callee"])
  PROVE  PairInv'
<1> DEFINE q == wire["caller"]
           m == Msg("BYE", 0, NoSdp)
<1>1. /\ dialog'["callee"] = "terminating" /\ dialog'["caller"] = dialog["caller"]
      /\ wire'["callee"] = wire["callee"] /\ wire'["caller"] = q \o <<m>>
      /\ events'["caller"] = events["caller"] /\ events'["callee"] = events["callee"]
  BY StackOfCallee
<1>2. q \in Seq(Message("caller")) /\ m \in Message("caller")
  BY Ends, Attrs, Queues DEF Msg, Message
<1>3. m.sdp = NoSdp /\ m.type = "BYE"
  BY DEF Msg
<1> HIDE DEF m
<1>4. /\ Len(q \o <<m>>) = Len(q) + 1 /\ (q \o <<m>>)[Len(q) + 1] = m /\ q \o <<m>> # <<>>
      /\ Len(q) \in Nat /\ DOMAIN q = 1..Len(q) /\ DOMAIN (q \o <<m>>) = 1..(Len(q) + 1)
      /\ \A i \in DOMAIN q : (q \o <<m>>)[i] = q[i]
      /\ \A t : Has(q, t) => Has(q \o <<m>>, t)
      /\ Has(q \o <<m>>, "BYE")
  BY <1>2, <1>3, ConcatIs
<1>5. q # <<>> => (q \o <<m>>)[1] = q[1]
  BY <1>2, <1>4
<1> USE DEF PairInv
<1>6. ContextsFit'
  BY <1>1 DEF ContextsFit, CalleeDone
<1>7. CallsFit'
  BY <1>1 DEF CallsFit
<1>8. DialogsFit'
  BY <1>1, <1>4, <1>5 DEF DialogsFit
<1>9. ToCallee'
  BY <1>1 DEF ToCallee
<1>10. ToCaller'
  BY <1>1, <1>3, <1>4 DEF ToCaller, CalleeDone, AnswerFits
<1>11. CalleeHears'
  BY <1>1 DEF CalleeHears
<1>12. CallerHears'
  BY <1>1 DEF CallerHears, CalleeDone, AnswerFits
<1>13. PipesFit'
  BY <1>1 DEF PipesFit, CalleeDone
<1>14. QED
  BY <1>6, <1>7, <1>8, <1>9, <1>10, <1>11, <1>12, <1>13

\* A refusal, when the user hangs up on the ringing call or when its offer is
\* not to the callee's liking.
LEMMA CalleeRefuses ==
  ASSUME TypeOK, foreign = {}, PairInv, UNCHANGED <<policy, media, reported>>,
         dialog["callee"] = "received", NEW status \in Nat \ {200},
         callState' = [callState EXCEPT !["callee"] = "INCOMING"],
         ctx'["caller"] = ctx["caller"], ctx'["callee"] \in {NewContext, GotOffer},
         ctx'["callee"] # NewContext => ctx["caller"] # NewContext,
         Stack("callee", "terminated", wire["callee"], <<Msg("FINAL", status, NoSdp)>>,
               Append(<<>>, State("callee", "terminated", status, NoSdp)))
  PROVE  PairInv'
<1> DEFINE m == Msg("FINAL", status, NoSdp)
           ev == State("callee", "terminated", status, NoSdp)
<1> USE DEF PairInv
<1>1. dialog["caller"] \in {"calling", "cancelled"} /\ wire["caller"] = <<>> /\ ~ CalleeDone
      /\ callState["callee"] \in {"NONE", "INCOMING"}
  BY DEF DialogsFit, CallsFit, CalleeDone
<1>2. /\ dialog'["callee"] = "terminated" /\ dialog'["caller"] = dialog["caller"]
      /\ wire'["callee"] = wire["callee"] /\ wire'["caller"] = <<m>>
      /\ events'["caller"] = events["caller"] /\ events'["callee"] = <<ev>>
  BY <1>1, StackOfCallee
<1>3. /\ callState'["callee"] = "INCOMING" /\ callState'["caller"] = callState["caller"]
      /\ callState["callee"] \in {"NONE", "INCOMING"}
  BY <1>1, Ends DEF TypeOK
<1>4. m.sdp = NoSdp /\ m.type = "FINAL" /\ m.status # 200
  BY DEF Msg
<1>5. ev.sdp = NoSdp /\ ev.state = "terminated"
  BY DEF State
<1> HIDE DEF m, ev
<1>6. DOMAIN <<m>> = 1..1 /\ <<m>>[1] = m /\ DOMAIN <<ev>> = 1..1 /\ <<ev>>[1] = ev /\ Len(<<ev>>) = 1
      /\ <<m>> # <<>> /\ <<ev>> # <<>>
  OBVIOUS
<1>7. ContextsFit'
  BY <1>1, <1>2, <1>3, ContextValues DEF ContextsFit, CalleeDone
<1>8. CallsFit'
  BY <1>1, <1>2, <1>3 DEF CallsFit
<1>9. DialogsFit'
  BY <1>1, <1>2, <1>3, <1>4, <1>6 DEF DialogsFit
<1>10. ToCallee'
  BY <1>1, <1>2, <1>3 DEF ToCallee
<1>11. ToCaller'
  BY <1>1, <1>2, <1>4, <1>6 DEF ToCaller
<1>12. CalleeHears'
  BY <1>2, <1>5, <1>6 DEF CalleeHears
<1>13. CallerHears'
  BY <1>1, <1>2, <1>3 DEF CallerHears
<1>14. PipesFit'
  BY <1>1 DEF PipesFit
<1>15. QED
  BY <1>7, <1>8, <1>9, <1>10, <1>11, <1>12, <1>13, <1>14

\* The answer of the callee; it comes too late if the call was cancelled.
LEMMA CalleeAnswers ==
  ASSUME TypeOK, foreign = {}, PairInv, UNCHANGED <<policy, media, reported>>,
         callState["callee"] = "INCOMING",
         callState' = [callState EXCEPT !["callee"] = "ACTIVE"],
         ctx'["caller"] = ctx["caller"],
         \/ ctx["callee"] = GotOffer /\ ctx'["callee"] = Answered
         \/ ctx["callee"] = NewContext /\ ctx'["callee"] = NewContext /\ policy["callee"] # "FORCED",
         NuaAccept("callee", LocalSdp(ctx'["callee"].local), events["callee"])
  PROVE  PairInv'
<1> DEFINE sdp == LocalSdp(ctx'["callee"].local)
           m == Msg("FINAL", 200, sdp)
<1> USE DEF PairInv
<1>1. /\ callState'["callee"] = "ACTIVE" /\ callState'["caller"] = callState["caller"]
      /\ ~ CalleeDone /\ CalleeDone'
  BY Ends DEF TypeOK, CalleeDone
<1>2. dialog["callee"] \in {"received", "terminated"}
  BY DEF DialogsFit, CallsFit
<1>3. ContextsFit'
  <2>1. dialog'["callee"] # "received"
    BY <1>2, StackOfCallee DEF NuaAccept
  <2>2. QED
    BY <1>1, <2>1, ContextValues DEF ContextsFit
<1>4. PipesFit'
  BY <1>1 DEF PipesFit
<1>5. \A i \in DOMAIN events["callee"] :
         events["callee"][i].state = "terminated" /\ events["callee"][i].sdp = NoSdp
           /\ i = Len(events["callee"]) /\ dialog["callee"] = "terminated"
  BY DEF CalleeHears
<1>6. \A i \in DOMAIN events["caller"] : events["caller"][i].state # "ready"
  BY <1>1 DEF CallerHears
<1>7. CASE dialog["callee"] = "received"
  <2>1. dialog["caller"] \in {"calling", "cancelled"} /\ wire["caller"] = <<>> /\ ~ reported["caller"]
    BY <1>7 DEF DialogsFit
  <2>2. /\ dialog'["callee"] = "completed" /\ dialog'["caller"] = dialog["caller"]
        /\ wire'["callee"] = wire["callee"] /\ wire'["caller"] = <<m>>
        /\ events'["caller"] = events["caller"] /\ events'["callee"] = events["callee"]
    BY <1>7, <2>1, StackOfCallee DEF NuaAccept
  <2>3. m.type = "FINAL" /\ DOMAIN <<m>> = 1..1 /\ <<m>>[1] = m /\ <<m>> # <<>>
    BY DEF Msg
  <2>4. CallsFit'
    BY <1>1, <2>2 DEF CallsFit
  <2>5. DialogsFit'
    BY <2>1, <2>2, <2>3 DEF DialogsFit
  <2>6. ToCallee'
    BY <1>7, <2>2 DEF ToCallee
  <2>7. AnswerFits'
    BY <1>7, ContextValues DEF ContextsFit, AnswerFits
  <2>8. ToCaller'
    BY <1>1, <2>1, <2>2, <2>3, <2>7 DEF ToCaller
  <2>9. CalleeHears'
    BY <1>5, <1>7, <2>2 DEF CalleeHears
  <2>10. CallerHears'
    BY <1>1, <1>6, <2>2 DEF CallerHears
  <2>11. QED
    BY <1>3, <1>4, <2>4, <2>5, <2>6, <2>8, <2>9, <2>10
<1>8. CASE dialog["callee"] = "terminated"
  <2>1. wire["caller"] \in Seq(Message("caller"))
    BY Ends, Queues
  <2>2. /\ dialog'["callee"] = dialog["callee"] /\ dialog'["caller"] = dialog["caller"]
        /\ wire'["callee"] = wire["callee"] /\ wire'["caller"] = wire["caller"]
        /\ events'["caller"] = events["caller"] /\ events'["callee"] = events["callee"]
    BY <1>8, <2>1, StackOfCallee DEF NuaAccept
  <2>3. CallsFit'
    BY <1>1, <1>8, <2>2 DEF CallsFit
  <2>4. DialogsFit'
    BY <1>8, <2>2 DEF DialogsFit
  <2>5. ToCallee'
    BY <1>8, <2>2 DEF ToCallee
  <2>6. ToCaller'
    BY <1>1, <1>8, <2>2 DEF ToCaller
  <2>7. CalleeHears'
    BY <1>5, <1>8, <2>2 DEF CalleeHears
  <2>8. CallerHears'
    BY <1>1, <1>6, <2>2 DEF CallerHears
  <2>9. QED
    BY <1>3, <1>4, <2>3, <2>4, <2>5, <2>6, <2>7, <2>8
<1>9. QED
  BY <1>2, <1>7, <1>8

\* The call is dialled, with an offer unless encryption is disabled.
LEMMA CallerDials == ASSUME TypeOK, foreign = {}, PairInv, Dial PROVE PairInv'
<1> DEFINE c == IF policy["caller"] = "NONE" THEN ctx["caller"]
                ELSE GenerateOffer(ctx["caller"], "caller")
           m == Msg("INVITE", 0, LocalSdp(c.local))
           ev == State("caller", "calling", 0, NoSdp)
<1> USE DEF PairInv
<1>1. callState["caller"] = "NONE" /\ dialog["caller"] = "init"
  BY DEF Dial, CallsFit
<1>2. /\ dialog["callee"] = "init" /\ ctx["caller"] = NewContext /\ callState["callee"] = "NONE"
      /\ ctx["callee"] = NewContext
      /\ \A e \in End : wire[e] = <<>> /\ events[e] = <<>> /\ ~ reported[e]
  BY <1>1 DEF DialogsFit, CallsFit, ContextsFit
<1>3. c = IF policy["caller"] = "NONE" THEN NewContext ELSE Offered
  BY <1>2, ContextSteps
<1>4. /\ ctx' = [ctx EXCEPT !["caller"] = c]
      /\ Stack("caller", "calling", wire["caller"], <<m>>, <<ev>>)
      /\ callState' = [callState EXCEPT !["caller"] = "DIALING"]
      /\ UNCHANGED <<foreign, policy, media, reported>>
  BY DEF Dial
<1>5. ev.state = "calling" /\ ev.sdp = NoSdp
  BY DEF State
<1> HIDE DEF c, m, ev
<1>6. /\ dialog'["caller"] = "calling" /\ dialog'["callee"] = "init"
      /\ wire'["caller"] = <<>> /\ wire'["callee"] = <<m>>
      /\ events'["caller"] = <<ev>> /\ events'["callee"] = <<>>
  BY <1>2, <1>4, StackOfCaller, Ends
<1>7. /\ ctx'["caller"] = c /\ ctx'["callee"] = NewContext
      /\ callState'["caller"] = "DIALING" /\ callState'["callee"] = "NONE"
  BY <1>2, <1>4, Ends DEF TypeOK
<1>8. DOMAIN <<m>> = 1..1 /\ <<m>>[1] = m /\ DOMAIN <<ev>> = 1..1 /\ <<ev>>[1] = ev
  OBVIOUS
<1>9. ~ reported["caller"] /\ ~ reported["callee"]
  BY <1>2, Ends
<1>10. ContextsFit'
  BY <1>3, <1>4, <1>6, <1>7, ContextValues DEF ContextsFit
<1>11. CallsFit'
  BY <1>6, <1>7 DEF CallsFit
<1>12. DialogsFit'
  BY <1>4, <1>6, <1>9 DEF DialogsFit
<1>13. ToCallee'
  BY <1>4, <1>6, <1>7, <1>8, <1>9 DEF ToCallee, m
<1>14. ToCaller'
  BY <1>6 DEF ToCaller
<1>15. CalleeHears'
  BY <1>6 DEF CalleeHears
<1>16. CallerHears'
  BY <1>3, <1>5, <1>6, <1>7, <1>8, ContextValues DEF CallerHears
<1>17. PipesFit'
  BY <1>2, <1>4 DEF PipesFit, CalleeDone
<1>18. QED
  BY <1>10, <1>11, <1>12, <1>13, <1>14, <1>15, <1>16, <1>17

\* A message with a media description is not taken for one without.
LEMMA SdpIs ==
  ASSUME PairInv
  PROVE  \A e \in End : LocalSdp(ctx[e].local) # NoSdp
<1>1. \A e \in End : ctx[e].local \in {<<>>, TheOffer, TheAnswer}
  BY Ends, ContextValues DEF PairInv, ContextsFit
<1> DEFINE Lined == [tag : Nat, suite : Suite, key : {"caller", "callee", "foreign"} \X Nat]
<1>2. \A i \in 1..4 : OfferSuites[i] \in Suite
  BY DEF Suite
<1>3. TheOffer \in Seq(Lined)
  <2>1. \A i \in 1..4 : TheOffer[i] \in Lined
    BY <1>2, Lines
  <2> HIDE DEF Lined
  <2>2. QED
    BY <2>1 DEF TheOffer
<1>4. TheAnswer \in Seq(Lined)
  <2>1. TheAnswer[1] \in Lined
    BY <1>2, Lines
  <2> HIDE DEF Lined
  <2>2. QED
    BY <2>1 DEF TheAnswer
<1>5. NoSdp \notin [codec : BOOLEAN, garbled : BOOLEAN, crypto : Seq(Lined)]
  BY CallAssumption
<1> HIDE DEF Lined
<1>6. <<>> \in Seq(Lined)
  OBVIOUS
<1>7. ASSUME NEW attrs \in Seq(Lined) PROVE LocalSdp(attrs) # NoSdp
  <2>1. LocalSdp(attrs) \in [codec : BOOLEAN, garbled : BOOLEAN, crypto : Seq(Lined)]
    BY DEF LocalSdp
  <2>2. QED
    BY <1>5, <2>1
<1>8. QED
  BY <1>1, <1>3, <1>4, <1>6, <1>7

\* sip_i_state () for the caller.
LEMMA CallerTold ==
  ASSUME TypeOK, foreign = {}, PairInv, IState("caller") PROVE PairInv'
<1> DEFINE q == events["caller"]
           ev == q[1]
           rest == Tail(q)
           c == RemoteMedia("caller", ev.sdp)
<1> USE DEF PairInv
<1>1. q \in Seq(Event("caller")) /\ q # <<>>
  BY Ends, Queues DEF IState
<1>2. /\ Head(q) = q[1] /\ 1 \in DOMAIN q /\ rest \in Seq(Event("caller"))
      /\ Len(q) \in Nat \ {0} /\ Len(rest) = Len(q) - 1
      /\ \A i \in DOMAIN rest : i \in Nat \ {0} /\ i + 1 \in DOMAIN q /\ rest[i] = q[i + 1]
      /\ rest = <<>> => Len(q) = 1
      /\ rest # <<>> => Len(rest) \in DOMAIN rest /\ rest[Len(rest)] = q[Len(q)]
  BY <1>1, TailIs
<1>3. /\ ctx' = [ctx EXCEPT !["caller"] = c] /\ UNCHANGED <<foreign, policy, reported>>
      /\ ~ (ev.sdp # NoSdp /\ Refuses("caller", ev.sdp)) =>
           /\ callState' = [callState EXCEPT !["caller"] = NewCallState(ev)]
           /\ media' = [media EXCEPT !["caller"] = CASE ev.state = "ready" -> ActivateMedia("caller", c)
                                                    [] ev.state = "terminated" -> Silent
                                                    [] OTHER -> @]
           /\ events' = [events EXCEPT !["caller"] = rest]
           /\ UNCHANGED <<dialog, wire>>
  BY <1>2 DEF IState
<1> HIDE DEF rest, c
<1>4. ctx'["caller"] = c /\ ctx'["callee"] = ctx["callee"]
  BY <1>3, Ends DEF TypeOK
<1>5. CASE ev.state = "calling"
  <2>1. ev.sdp = NoSdp /\ callState["caller"] = "DIALING"
    BY <1>2, <1>5 DEF CallerHears
  <2>2. ctx'["caller"] = ctx["caller"] /\ ctx'["callee"] = ctx["callee"]
    BY <1>4, <2>1 DEF c, RemoteMedia
  <2>3. /\ events'["caller"] = rest /\ events'["callee"] = events["callee"]
        /\ callState'["caller"] = "DIALING" /\ callState'["callee"] = callState["callee"]
        /\ media'["caller"] = media["caller"] /\ media'["callee"] = media["callee"]
        /\ UNCHANGED <<dialog, wire>>
    BY <1>3, <1>5, <2>1, Ends DEF TypeOK, StackTypeOK, NewCallState
  <2>4. ContextsFit' /\ CallsFit'
    BY <1>3, <2>1, <2>2, <2>3 DEF ContextsFit, CallsFit, CalleeDone
  <2>5. DialogsFit'
    BY <1>1, <1>3, <2>1, <2>2, <2>3, Ends DEF DialogsFit
  <2>6. ToCallee' /\ ToCaller'
    BY <1>3, <2>2, <2>3 DEF ToCallee, ToCaller, CalleeDone, AnswerFits
  <2>7. CalleeHears' /\ PipesFit'
    BY <2>2, <2>3 DEF CalleeHears, PipesFit, CalleeDone
  <2>8. CallerHears'
    <3>1. \A i \in DOMAIN rest :
            \/ rest[i].state = "terminated" /\ rest[i].sdp = NoSdp
               /\ i = Len(rest) /\ dialog["caller"] = "terminated"
            \/ /\ rest[i].state = "ready" /\ rest[i].sdp = LocalSdp(ctx["callee"].local)
               /\ CalleeDone /\ AnswerFits /\ ctx["caller"] # GotAnswer
               /\ \A j \in DOMAIN rest : j > i => rest[j].state = "terminated"
               /\ dialog["caller"] \in {"ready", "terminating", "terminated"}
      <4> TAKE i \in DOMAIN rest
      <4>1. i \in Nat \ {0} /\ i + 1 \in DOMAIN q /\ rest[i] = q[i + 1]
        BY <1>2
      <4>2. CASE rest[i].state = "ready"
        <5>1. \A k \in DOMAIN q : k > i + 1 => q[k].state = "terminated"
          BY <4>1, <4>2 DEF CallerHears
        <5>2. ASSUME NEW j \in DOMAIN rest, j > i PROVE rest[j].state = "terminated"
          <6>1. j \in Nat \ {0} /\ j + 1 \in DOMAIN q /\ rest[j] = q[j + 1]
            BY <1>2
          <6>2. j + 1 > i + 1
            BY <4>1, <5>2, <6>1
          <6>3. QED
            BY <5>1, <6>1, <6>2
        <5>3. QED
          BY <4>1, <4>2, <5>2 DEF CallerHears
      <4>3. CASE rest[i].state # "ready"
        <5>1. i + 1 # 1
          BY <4>1
        <5>2. /\ q[i + 1].state = "terminated" /\ q[i + 1].sdp = NoSdp
              /\ i + 1 = Len(q) /\ dialog["caller"] = "terminated"
          BY <4>1, <4>3, <5>1 DEF CallerHears
        <5>3. QED
          BY <1>2, <4>1, <5>2
      <4>4. QED
        BY <4>2, <4>3
    <3>2. /\ dialog["caller"] = "terminated" =>
               rest # <<>> /\ rest[Len(rest)].state = "terminated"
          /\ dialog["caller"] \in {"ready", "terminating"} =>
               rest # <<>> /\ rest[Len(rest)].state = "ready"
          /\ dialog["caller"] \in {"calling", "cancelled"} => ctx["caller"] # GotAnswer
      BY <1>1, <1>2, <1>5 DEF CallerHears
    <3>3. CalleeDone' = CalleeDone /\ AnswerFits' = AnswerFits
      BY <2>2, <2>3 DEF CalleeDone, AnswerFits
    <3>4. QED
      BY <2>2, <2>3, <3>1, <3>2, <3>3 DEF CallerHears
  <2>9. QED
    BY <2>4, <2>5, <2>6, <2>7, <2>8
<1>6. CASE ev.state = "terminated"
  <2>1. ev.sdp = NoSdp /\ Len(q) = 1 /\ dialog["caller"] = "terminated"
    BY <1>2, <1>6 DEF CallerHears
  <2>2. ctx'["caller"] = ctx["caller"] /\ ctx'["callee"] = ctx["callee"] /\ rest = <<>>
    BY <1>2, <1>4, <2>1 DEF c, RemoteMedia
  <2>3. /\ events'["caller"] = <<>> /\ events'["callee"] = events["callee"]
        /\ callState'["caller"] = "DISCONNECTED" /\ callState'["callee"] = callState["callee"]
        /\ media'["caller"].on = FALSE /\ media'["callee"] = media["callee"]
        /\ UNCHANGED <<dialog, wire>>
    BY <1>3, <1>6, <2>1, <2>2, Ends DEF TypeOK, StackTypeOK, NewCallState, Silent
  <2>4. callState["caller"] # "NONE"
    BY <2>1 DEF CallsFit
  <2>5. ContextsFit' /\ CallsFit'
    BY <1>3, <2>1, <2>2, <2>3, <2>4 DEF ContextsFit, CallsFit, CalleeDone
  <2>6. DialogsFit'
    BY <2>1, <2>3 DEF DialogsFit
  <2>7. ToCallee' /\ ToCaller'
    BY <1>3, <2>2, <2>3 DEF ToCallee, ToCaller, CalleeDone, AnswerFits
  <2>8. CalleeHears' /\ PipesFit'
    BY <2>2, <2>3 DEF CalleeHears, PipesFit, CalleeDone
  <2>9. CallerHears'
    BY <2>1, <2>3 DEF CallerHears
  <2>10. QED
    BY <2>5, <2>6, <2>7, <2>8, <2>9
<1>7. CASE ev.state = "ready"
  <2>1. /\ ev.sdp = LocalSdp(ctx["callee"].local) /\ CalleeDone /\ AnswerFits
        /\ ctx["caller"] \in {NewContext, Offered}
        /\ \A j \in DOMAIN q : j > 1 => q[j].state = "terminated"
        /\ callState["caller"] = "DIALING"
        /\ dialog["caller"] \in {"ready", "terminating", "terminated"}
    BY <1>2, <1>7 DEF CallerHears, ContextsFit
  <2>2. ev.sdp # NoSdp /\ ev.sdp.codec /\ ~ ev.sdp.garbled /\ ev.sdp.crypto = ctx["callee"].local
    BY <2>1, SdpIs, Ends DEF LocalSdp
  <2>3. /\ ~ Refuses("caller", ev.sdp)
        /\ c \in {NewContext, GotAnswer}
        /\ c = GotAnswer <=> ctx["callee"] = Answered
        /\ c # NewContext <=> ctx["caller"] # NewContext
        /\ ActivateMedia("caller", c).on
        /\ ActivateMedia("caller", c).keys = IF c = GotAnswer THEN <<TheOffer[1], TheAnswer[1]>> ELSE <<>>
    <3>1. CASE policy["caller"] = "NONE"
      <4>1. ctx["caller"] = NewContext /\ ctx["callee"] = NewContext
        BY <3>1 DEF ContextsFit
      <4>2. c = ctx["caller"] /\ ~ Refuses("caller", ev.sdp)
        BY <2>2, <3>1, <4>1, ContextValues DEF c, RemoteMedia, Refuses
      <4>3. ActivateMedia("caller", c) = [on |-> TRUE, keys |-> <<>>]
        BY <3>1, <4>1, <4>2, ContextValues DEF ActivateMedia, IsNegotiated
      <4>4. QED
        BY <4>1, <4>2, <4>3, ContextValues
    <3>2. CASE policy["caller"] # "NONE"
      <4>1. ctx["caller"] = Offered /\ ctx["callee"] = Answered
        BY <2>1, <3>2, ContextValues DEF ContextsFit, AnswerFits
      <4>2. c = GotAnswer
        BY <2>2, <3>2, <4>1, ContextValues, ContextSteps DEF c, RemoteMedia
      <4>3. ~ Refuses("caller", ev.sdp)
        BY <2>2, <3>2, <4>1, ContextValues, Lines DEF Refuses, TakesRemote, Final
      <4>4. ActivateMedia("caller", c) = [on |-> TRUE, keys |-> <<TheOffer[1], TheAnswer[1]>>]
        BY <4>2, ContextValues DEF ActivateMedia, IsNegotiated
      <4>5. QED
        BY <4>1, <4>2, <4>3, <4>4, ContextValues
    <3>3. QED
      BY <3>1, <3>2
  <2>4. /\ events'["caller"] = rest /\ events'["callee"] = events["callee"]
        /\ callState'["caller"] = "ACTIVE" /\ callState'["callee"] = callState["callee"]
        /\ media'["caller"] = ActivateMedia("caller", c) /\ media'["callee"] = media["callee"]
        /\ UNCHANGED <<dialog, wire>>
    BY <1>3, <1>7, <2>3, Ends DEF TypeOK, StackTypeOK, NewCallState
  <2>5. ctx["callee"] # NewContext => ctx["callee"] = Answered
    BY <2>1 DEF ContextsFit, AnswerFits
  <2>6. CalleeDone' = CalleeDone /\ (AnswerFits' <=> AnswerFits)
    BY <1>4, <2>3, <2>4 DEF CalleeDone, AnswerFits
  <2>7. ContextsFit'
    BY <1>3, <1>4, <2>1, <2>3, <2>4, <2>6, ContextValues DEF ContextsFit
  <2>8. CallsFit'
    BY <2>1, <2>3, <2>4 DEF CallsFit
  <2>9. DialogsFit'
    BY <2>1, <2>4 DEF DialogsFit
  <2>10. c.local = ctx["caller"].local
    BY <2>1, <2>3, ContextValues
  <2>11. ToCallee'
    BY <1>3, <1>4, <2>4, <2>10 DEF ToCallee
  <2>12. ToCaller'
    BY <1>3, <1>4, <2>4, <2>6 DEF ToCaller
  <2>13. CalleeHears'
    BY <1>4, <2>4, <2>10 DEF CalleeHears
  <2>14. CallerHears'
    <3>1. \A i \in DOMAIN rest : rest[i].state = "terminated" /\ rest[i].sdp = NoSdp
             /\ i = Len(rest) /\ dialog["caller"] = "terminated"
      <4> SUFFICES ASSUME NEW i \in DOMAIN rest
                   PROVE  rest[i].state = "terminated" /\ rest[i].sdp = NoSdp
                            /\ i = Len(rest) /\ dialog["caller"] = "terminated"
        OBVIOUS
      <4>1. i \in Nat \ {0} /\ i + 1 \in DOMAIN q /\ rest[i] = q[i + 1]
        BY <1>2
      <4>2. q[i + 1].state = "terminated"
        BY <2>1, <4>1
      <4>3. i + 1 = Len(q) /\ q[i + 1].sdp = NoSdp /\ dialog["caller"] = "terminated"
        BY <4>1, <4>2 DEF CallerHears
      <4>4. QED
        BY <1>2, <4>1, <4>2, <4>3
    <3>2. dialog["caller"] = "terminated" => rest # <<>> /\ rest[Len(rest)].state = "terminated"
      BY <1>1, <1>2, <1>7 DEF CallerHears
    <3>3. rest # <<>> => dialog["caller"] = "terminated"
      BY <1>2, <3>1
    <3>4. QED
      BY <2>1, <2>4, <3>1, <3>2, <3>3 DEF CallerHears
  <2>15. PipesFit'
    BY <1>4, <2>1, <2>3, <2>4, <2>6 DEF PipesFit
  <2>16. QED
    BY <2>7, <2>8, <2>9, <2>11, <2>12, <2>13, <2>14, <2>15
<1>8. QED
  BY <1>2, <1>5, <1>6, <1>7 DEF CallerHears

\* A step that leaves the stack as it was.
LEMMA StackSame ==
  ASSUME TypeOK, foreign = {}, PairInv, UNCHANGED <<policy, callState, ctx, media, reported>>,
         NEW e \in End, Stack(e, dialog[e], wire[e], <<>>, events[e])
  PROVE  PairInv'
<1>1. /\ dialog'["caller"] = dialog["caller"] /\ dialog'["callee"] = dialog["callee"]
      /\ wire'["caller"] = wire["caller"] /\ wire'["callee"] = wire["callee"]
      /\ events'["caller"] = events["caller"] /\ events'["callee"] = events["callee"]
  <2>1. wire["caller"] \o <<>> = wire["caller"] /\ wire["callee"] \o <<>> = wire["callee"]
    <3>1. wire["caller"] \in Seq(Message("caller")) /\ wire["callee"] \in Seq(Message("callee"))
      BY Ends, Queues
    <3>2. QED
      BY <3>1
  <2>2. CASE e = "caller"
    <3>1. Stack("caller", dialog["caller"], wire["caller"], <<>>, events["caller"])
      BY <2>2
    <3>2. QED
      BY <2>1, <3>1, StackOfCaller
  <2>3. CASE e = "callee"
    <3>1. Stack("callee", dialog["callee"], wire["callee"], <<>>, events["callee"])
      BY <2>3
    <3>2. QED
      BY <2>1, <3>1, StackOfCallee
  <2>4. QED
    BY <2>2, <2>3, Ends
<1>2. \A x \in End : dialog'[x] = dialog[x] /\ wire'[x] = wire[x] /\ events'[x] = events[x]
  BY <1>1, Ends
<1> USE DEF PairInv
<1>3. ContextsFit' /\ CallsFit' /\ PipesFit'
  BY <1>1 DEF ContextsFit, CallsFit, PipesFit, CalleeDone
<1>4. DialogsFit'
  BY <1>1, <1>2 DEF DialogsFit
<1>5. ToCallee' /\ ToCaller'
  BY <1>1 DEF ToCallee, ToCaller, CalleeDone, AnswerFits
<1>6. CalleeHears' /\ CallerHears'
  BY <1>1 DEF CalleeHears, CallerHears, CalleeDone, AnswerFits
<1>7. QED
  BY <1>3, <1>4, <1>5, <1>6

\* sip_i_state () for the callee.
LEMMA CalleeTold ==
  ASSUME TypeOK, foreign = {}, PairInv, IState("callee") PROVE PairInv'
<1> DEFINE q == events["callee"]
           ev == q[1]
           rest == Tail(q)
           c == RemoteMedia("callee", ev.sdp)
<1> USE DEF PairInv
<1>1. q \in Seq(Event("callee")) /\ q # <<>>
  BY Ends, Queues DEF IState
<1>2. /\ Head(q) = q[1] /\ 1 \in DOMAIN q /\ rest \in Seq(Event("callee"))
      /\ Len(q) \in Nat \ {0} /\ Len(rest) = Len(q) - 1
      /\ \A i \in DOMAIN rest : i \in Nat \ {0} /\ i + 1 \in DOMAIN q /\ rest[i] = q[i + 1]
      /\ rest = <<>> => Len(q) = 1
      /\ rest # <<>> => Len(rest) \in DOMAIN rest /\ rest[Len(rest)] = q[Len(q)]
  BY <1>1, TailIs
<1>3. /\ ctx' = [ctx EXCEPT !["callee"] = c] /\ UNCHANGED <<foreign, policy, reported>>
      /\ IF ev.sdp # NoSdp /\ Refuses("callee", ev.sdp)
         THEN /\ ev.state = "received" =>
                   /\ callState' = [callState EXCEPT !["callee"] = "INCOMING"]
                   /\ NuaRefuse("callee", 480, rest)
              /\ media' = media
         ELSE /\ callState' = [callState EXCEPT !["callee"] = NewCallState(ev)]
              /\ media' = [media EXCEPT !["callee"] = CASE ev.state = "ready" -> ActivateMedia("callee", c)
                                                       [] ev.state = "terminated" -> Silent
                                                       [] OTHER -> @]
              /\ events' = [events EXCEPT !["callee"] = rest]
              /\ UNCHANGED <<dialog, wire>>
  BY <1>2 DEF IState
<1> HIDE DEF rest, c
<1>4. ctx'["caller"] = ctx["caller"] /\ ctx'["callee"] = c
  BY <1>3, Ends DEF TypeOK
<1>5. \A i \in DOMAIN rest :
         \/ /\ rest[i].state = "ready" /\ rest[i].sdp = NoSdp
            /\ callState["callee"] = "ACTIVE"
            /\ dialog["callee"] \in {"ready", "terminating", "terminated"}
         \/ /\ rest[i].state = "terminated" /\ rest[i].sdp = NoSdp
            /\ i = Len(rest) /\ dialog["callee"] = "terminated"
  <2> TAKE i \in DOMAIN rest
  <2>1. i \in Nat \ {0} /\ i + 1 \in DOMAIN q /\ rest[i] = q[i + 1] /\ i + 1 # 1
    BY <1>2
  <2>2. \/ /\ q[i + 1].state = "ready" /\ q[i + 1].sdp = NoSdp
           /\ callState["callee"] = "ACTIVE"
           /\ dialog["callee"] \in {"ready", "terminating", "terminated"}
        \/ /\ q[i + 1].state = "terminated" /\ q[i + 1].sdp = NoSdp
           /\ i + 1 = Len(q) /\ dialog["callee"] = "terminated"
    BY <2>1 DEF CalleeHears
  <2>3. QED
    BY <1>2, <2>1, <2>2
<1>6. CASE ev.state = "received"
  <2>1. /\ ev.sdp = LocalSdp(ctx["caller"].local) /\ callState["callee"] = "NONE"
        /\ ctx["callee"] = NewContext /\ dialog["callee"] \in {"received", "terminated"}
    BY <1>2, <1>6 DEF CalleeHears, ContextsFit
  <2>2. ev.sdp # NoSdp /\ ev.sdp.codec /\ ~ ev.sdp.garbled /\ ev.sdp.crypto = ctx["caller"].local
    BY <2>1, SdpIs, Ends DEF LocalSdp
  <2>3. /\ ctx["caller"] = NewContext => c = NewContext
        /\ ctx["caller"] # NewContext /\ policy["callee"] # "NONE" => c = GotOffer
        /\ policy["callee"] = "NONE" => c = NewContext
    BY <2>1, <2>2, ContextValues, ContextSteps DEF c, RemoteMedia, ContextsFit
  <2>4. c \in {NewContext, GotOffer} /\ (c # NewContext => ctx["caller"] # NewContext)
    BY <2>3
  <2>5. CASE Refuses("callee", ev.sdp) /\ dialog["callee"] = "received"
    <3>1. rest = <<>>
      <4>1. \A i \in DOMAIN rest : FALSE
        BY <1>5, <2>1, <2>5
      <4>2. QED
        BY <1>2, <4>1
    <3>2. Stack("callee", "terminated", wire["callee"], <<Msg("FINAL", 480, NoSdp)>>,
                Append(<<>>, State("callee", "terminated", 480, NoSdp)))
      BY <1>3, <1>6, <2>2, <2>5, <3>1 DEF NuaRefuse
    <3>3. 480 \in Nat \ {200} /\ UNCHANGED <<policy, media, reported>>
      BY <1>3, <2>2, <2>5
    <3>4. callState' = [callState EXCEPT !["callee"] = "INCOMING"]
      BY <1>3, <1>6, <2>2, <2>5
    <3>5. QED
      BY <1>4, <2>4, <2>5, <3>2, <3>3, <3>4, CalleeRefuses
  <2>6. CASE ~ (Refuses("callee", ev.sdp) /\ dialog["callee"] = "received")
    <3>1. /\ callState'["caller"] = callState["caller"] /\ callState'["callee"] = "INCOMING"
          /\ media'["caller"] = media["caller"] /\ media'["callee"] = media["callee"]
      BY <1>3, <1>6, <2>2, Ends DEF TypeOK, NewCallState
    <3>2. /\ dialog'["caller"] = dialog["caller"] /\ dialog'["callee"] = dialog["callee"]
          /\ wire'["caller"] = wire["caller"] /\ wire'["callee"] = wire["callee"]
          /\ events'["caller"] = events["caller"] /\ events'["callee"] = rest
      <4>1. CASE Refuses("callee", ev.sdp)
        <5>1. Stack("callee", dialog["callee"], wire["callee"], <<>>, rest)
          BY <1>3, <1>6, <2>1, <2>2, <2>6, <4>1 DEF NuaRefuse
        <5>2. wire["caller"] \in Seq(Message("caller"))
          BY Ends, Queues
        <5>3. QED
          BY <5>1, <5>2, StackOfCallee
      <4>2. CASE ~ Refuses("callee", ev.sdp)
        BY <1>3, <4>2, Ends DEF TypeOK, StackTypeOK
      <4>3. QED
        BY <4>1, <4>2
    <3>3. ~ CalleeDone /\ ~ CalleeDone'
      BY <2>1, <3>1 DEF CalleeDone
    <3>4. dialog["callee"] = "received" /\ ctx["caller"] # NewContext => c = GotOffer
      <4>1. dialog["callee"] = "received" => ~ Refuses("callee", ev.sdp)
        BY <2>6
      <4>2. ctx["caller"] # NewContext => ev.sdp.crypto # <<>>
        BY <2>2, ContextValues, Lines DEF ContextsFit
      <4>3. QED
        BY <2>3, <4>1, <4>2 DEF Refuses
    <3>5. ContextsFit'
      BY <1>3, <1>4, <2>1, <2>4, <3>1, <3>2, <3>3, <3>4, ContextValues DEF ContextsFit
    <3>6. CallsFit'
      BY <2>1, <3>1, <3>2 DEF CallsFit
    <3>7. DialogsFit'
      BY <1>3, <2>1, <3>1, <3>2 DEF DialogsFit
    <3>8. ToCallee'
      BY <1>1, <1>4, <2>1, <3>2 DEF ToCallee
    <3>9. ToCaller'
      BY <1>3, <3>2, <3>3 DEF ToCaller
    <3>10. CalleeHears'
      <4>1. dialog["callee"] = "terminated" => rest # <<>> /\ rest[Len(rest)].state = "terminated"
        BY <1>1, <1>2, <1>6 DEF CalleeHears
      <4>2. QED
        BY <1>5, <2>1, <3>2, <4>1 DEF CalleeHears
    <3>11. CallerHears'
      BY <1>4, <3>1, <3>2, <3>3 DEF CallerHears
    <3>12. PipesFit'
      BY <3>1, <3>3 DEF PipesFit
    <3>13. QED
      BY <3>5, <3>6, <3>7, <3>8, <3>9, <3>10, <3>11, <3>12
  <2>7. QED
    BY <2>5, <2>6
<1>7. CASE ev.state \in {"ready", "terminated"}
  <2>1. ev.sdp = NoSdp /\ dialog["callee"] \in {"ready", "terminating", "terminated"}
    BY <1>2, <1>7 DEF CalleeHears
  <2>2. c = ctx["callee"]
    BY <2>1 DEF c, RemoteMedia
  <2>3. /\ events'["callee"] = rest /\ events'["caller"] = events["caller"]
        /\ callState'["callee"] = IF ev.state = "ready" THEN "ACTIVE" ELSE "DISCONNECTED"
        /\ callState'["caller"] = callState["caller"]
        /\ media'["callee"] = IF ev.state = "ready" THEN ActivateMedia("callee", c) ELSE Silent
        /\ media'["caller"] = media["caller"]
        /\ UNCHANGED <<dialog, wire>>
    BY <1>3, <1>7, <2>1, Ends DEF TypeOK, StackTypeOK, NewCallState
  <2>4. ev.state = "ready" => callState["callee"] = "ACTIVE"
    BY <1>2 DEF CalleeHears
  <2>5. ev.state = "terminated" => dialog["callee"] = "terminated" /\ Len(q) = 1 /\ rest = <<>>
    BY <1>2 DEF CalleeHears
  <2>6. CalleeDone'
    BY <2>3 DEF CalleeDone
  <2>7. ContextsFit'
    BY <1>3, <1>4, <2>1, <2>2, <2>3, <2>4, <2>6 DEF ContextsFit
  <2>8. CallsFit'
    BY <1>7, <2>1, <2>3, <2>4, <2>5 DEF CallsFit
  <2>9. DialogsFit'
    BY <2>1, <2>3 DEF DialogsFit
  <2>10. ToCallee'
    BY <1>4, <2>1, <2>3 DEF ToCallee
  <2>11. ToCaller'
    BY <1>3, <1>4, <2>2, <2>3, <2>6 DEF ToCaller, AnswerFits
  <2>12. CallerHears'
    BY <1>4, <2>2, <2>3, <2>6 DEF CallerHears, AnswerFits
  <2>13. ev.state = "ready" =>
           /\ ActivateMedia("callee", c).on
           /\ ActivateMedia("callee", c).keys
                = IF ctx["callee"] = Answered THEN <<TheAnswer[1], TheOffer[1]>> ELSE <<>>
    <3>1. CASE ctx["callee"] = Answered
      BY <2>2, <3>1, ContextValues DEF ActivateMedia, IsNegotiated
    <3>2. CASE ctx["callee"] # Answered /\ callState["callee"] = "ACTIVE"
      BY <2>2, <3>2, ContextValues DEF ActivateMedia, IsNegotiated, ContextsFit
    <3>3. QED
      BY <2>4, <3>1, <3>2
  <2>14. CalleeHears'
    <3>1. dialog["callee"] = "terminated" =>
            IF rest = <<>> THEN ev.state = "terminated" ELSE rest[Len(rest)].state = "terminated"
      BY <1>1, <1>2 DEF CalleeHears
    <3>2. dialog["callee"] = "ready" =>
            IF rest = <<>> THEN ev.state = "ready" ELSE rest[Len(rest)].state = "ready"
      BY <1>1, <1>2 DEF CalleeHears
    <3>3. ASSUME NEW i \in DOMAIN rest PROVE ev.state = "ready"
      <4>1. i \in Nat \ {0} /\ i + 1 \in 1..Len(q)
        BY <1>1, <1>2
      <4>2. Len(q) # 1
        BY <1>2, <4>1
      <4>3. QED
        BY <1>7, <2>5, <4>2
    <3>4. QED
      BY <1>5, <2>3, <2>13, <3>1, <3>2, <3>3 DEF CalleeHears
  <2>15. PipesFit'
    BY <1>4, <2>2, <2>3, <2>6, <2>13 DEF PipesFit, Silent
  <2>16. QED
    BY <2>7, <2>8, <2>9, <2>10, <2>11, <2>12, <2>14, <2>15
<1>8. QED
  BY <1>2, <1>6, <1>7 DEF CalleeHears

\* What sofia-sip makes of a message for the caller.
LEMMA CallerReceives ==
  ASSUME TypeOK, foreign = {}, PairInv, Receive("caller") PROVE PairInv'
<1> DEFINE q == wire["caller"]
           m == q[1]
           rest == Tail(q)
           qe == events["caller"]
           qp == wire["callee"]
           Says(state) == State("caller", state, m.status, m.sdp)
           Accepted(new, evs) ==
             /\ dialog'["caller"] = new /\ dialog'["callee"] = dialog["callee"]
             /\ wire'["caller"] = rest
             /\ events'["caller"] = evs /\ events'["callee"] = events["callee"]
<1> USE DEF PairInv
<1>1. q \in Seq(Message("caller")) /\ q # <<>> /\ qe \in Seq(Event("caller")) /\ qp \in Seq(Message("callee"))
  BY Ends, Queues DEF Receive
<1>2. /\ Head(q) = q[1] /\ 1 \in DOMAIN q /\ rest \in Seq(Message("caller"))
      /\ \A i \in DOMAIN rest : i \in Nat \ {0} /\ i + 1 \in DOMAIN q /\ rest[i] = q[i + 1]
      /\ \A t : Has(q, t) /\ q[1].type # t => Has(rest, t)
  BY <1>1, TailIs
<1>3. /\ UNCHANGED <<foreign, policy, callState, ctx, media>>
      /\ reported' = [reported EXCEPT !["caller"] = @ \/ m.sdp # NoSdp]
  BY <1>2 DEF Receive
<1>4. /\ reported'["callee"] = reported["callee"]
      /\ m.sdp = NoSdp => reported'["caller"] = reported["caller"]
  BY <1>3, Ends DEF TypeOK, StackTypeOK
<1>5. \/ m.type = "FINAL" /\ m.status = 200 /\ m.sdp = LocalSdp(ctx["callee"].local)
         /\ ~ reported["caller"] /\ CalleeDone /\ AnswerFits /\ dialog["caller"] \in {"calling", "cancelled"}
      \/ m.sdp = NoSdp /\ m.type = "FINAL" /\ m.status # 200
         /\ dialog["caller"] \in {"calling", "cancelled"} /\ dialog["callee"] = "terminated"
      \/ m.sdp = NoSdp /\ m.type = "BYE" /\ dialog["callee"] \in {"terminating", "terminated"}
      \/ m.sdp = NoSdp /\ m.type = "GONE" /\ dialog["callee"] = "terminated"
  BY <1>2 DEF ToCaller, Msg
<1>6. \A i \in DOMAIN rest :
        /\ rest[i].sdp = NoSdp
        /\ \/ rest[i].type = "BYE" /\ dialog["callee"] \in {"terminating", "terminated"}
           \/ rest[i].type = "GONE" /\ dialog["callee"] = "terminated"
  <2> TAKE i \in DOMAIN rest
  <2>1. i + 1 \in DOMAIN q /\ rest[i] = q[i + 1] /\ i + 1 # 1
    BY <1>2
  <2>2. QED
    BY <2>1 DEF ToCaller
<1> HIDE DEF rest
<1>7. CalleeDone' = CalleeDone /\ AnswerFits' = AnswerFits
  BY <1>3 DEF CalleeDone, AnswerFits
<1>8. ASSUME dialog'["callee"] = dialog["callee"], wire'["caller"] = rest
      PROVE  ContextsFit' /\ PipesFit' /\ ToCaller'
  <2>1. ContextsFit' /\ PipesFit'
    BY <1>3, <1>7, <1>8 DEF ContextsFit, PipesFit
  <2>2. ToCaller'
    BY <1>6, <1>8 DEF ToCaller
  <2>3. QED
    BY <2>1, <2>2
<1>9. ASSUME dialog'["callee"] = dialog["callee"], events'["callee"] = events["callee"] PROVE CalleeHears'
  BY <1>3, <1>9 DEF CalleeHears
<1>10. \A state : /\ Says(state).state = state
                  /\ Says(state).sdp = IF reported["caller"] THEN NoSdp ELSE m.sdp
  BY DEF State
<1>11. \A state \in {"ready", "terminated"} : Says(state) \in Event("caller")
  <2>1. m \in Message("caller") /\ NoSdp \in Sdp("callee")
    BY <1>1, <1>2, Attrs, Ends
  <2>2. QED
    BY <2>1, Ends DEF State, Event, Message
<1> HIDE DEF Says
<1>12. \A state \in {"ready", "terminated"} :
         LET evs == qe \o <<Says(state)>>
         IN  /\ evs # <<>> /\ Len(evs) = Len(qe) + 1 /\ evs[Len(qe) + 1] = Says(state)
             /\ Len(qe) \in Nat /\ DOMAIN qe = 1..Len(qe) /\ DOMAIN evs = 1..(Len(qe) + 1)
             /\ \A i \in DOMAIN qe : evs[i] = qe[i]
  BY <1>1, <1>11, ConcatIs
<1>13. CASE m.type = "FINAL" /\ m.status = 200
  <2> DEFINE evs == qe \o <<Says("ready")>>
             a == Msg("ACK", 0, NoSdp)
  <2>1. dialog["caller"] \in {"calling", "cancelled"} /\ ctx["caller"] # GotAnswer
    BY <1>5, <1>13 DEF CallerHears
  <2>2. Stack("caller", "ready", rest, <<a>>, evs)
    BY <1>2, <1>13, <2>1 DEF Receive, rest, Says
  <2>3. Accepted("ready", evs) /\ wire'["callee"] = qp \o <<a>>
    BY <2>2, StackOfCaller
  <2>4. a \in Message("callee") /\ a.type = "ACK" /\ a.sdp = NoSdp
    BY Ends, Attrs DEF Msg, Message
  <2> HIDE DEF a
  <2>5. /\ Len(qp \o <<a>>) = Len(qp) + 1 /\ (qp \o <<a>>)[Len(qp) + 1] = a
        /\ Len(qp) \in Nat /\ DOMAIN qp = 1..Len(qp) /\ DOMAIN (qp \o <<a>>) = 1..(Len(qp) + 1)
        /\ \A i \in DOMAIN qp : (qp \o <<a>>)[i] = qp[i]
        /\ \A t : Has(qp, t) => Has(qp \o <<a>>, t)
        /\ Has(qp \o <<a>>, "ACK")
    BY <1>1, <2>4, ConcatIs
  <2>6. CallsFit'
    BY <1>3, <2>1, <2>3 DEF CallsFit
  <2>7. DialogsFit'
    BY <1>1, <1>2, <1>13, <2>1, <2>3, <2>5 DEF DialogsFit
  <2>8. ToCallee'
    BY <1>3, <1>4, <2>1, <2>3, <2>4, <2>5 DEF ToCallee
  <2>9. Says("ready").state = "ready" /\ Says("ready").sdp = LocalSdp(ctx["callee"].local)
    BY <1>5, <1>10, <1>13
  <2>10. callState["caller"] = "DIALING" /\ CalleeDone /\ AnswerFits
    BY <1>5, <1>13, <2>1 DEF CallsFit
  <2>11. \A i \in DOMAIN qe : qe[i].state = "calling" /\ qe[i].sdp = NoSdp /\ i = 1
    BY <2>1 DEF CallerHears
  <2>12. CallerHears'
    <3>1. \A i \in DOMAIN evs :
            \/ evs[i].state = "calling" /\ evs[i].sdp = NoSdp /\ i = 1
            \/ /\ evs[i].state = "ready" /\ evs[i].sdp = LocalSdp(ctx["callee"].local)
               /\ \A j \in DOMAIN evs : ~ (j > i)
      BY <1>12, <2>9, <2>11
    <3>2. evs # <<>> /\ evs[Len(evs)].state = "ready"
      BY <1>12, <2>9
    <3> HIDE DEF evs
    <3>3. QED
      BY <1>3, <1>7, <2>1, <2>3, <2>10, <3>1, <3>2 DEF CallerHears
  <2>13. QED
    BY <1>7, <1>8, <1>9, <2>3, <2>6, <2>7, <2>8, <2>12
<1>14. ASSUME NEW out \in {<<>>, <<Msg("GONE", 200, NoSdp)>>},
              Stack("caller", "terminated", rest, out, qe \o <<Says("terminated")>>),
              dialog["caller"] # "terminated", dialog["caller"] # "init", m.sdp = NoSdp,
              \/ dialog["callee"] = "terminated"
              \/ dialog["callee"] = "terminating" /\ Has(wire'["callee"], "GONE")
       PROVE  PairInv'
  <2> DEFINE evs == qe \o <<Says("terminated")>>
             a == Msg("GONE", 200, NoSdp)
  <2>1. Accepted("terminated", evs) /\ wire'["callee"] = qp \o out
    BY <1>14, StackOfCaller
  <2>2. wire'["callee"] = qp \/ wire'["callee"] = qp \o <<a>>
    <3>1. qp \o <<>> = qp
      BY <1>1
    <3>2. CASE out = <<>>
      BY <2>1, <3>1, <3>2
    <3>3. CASE out = <<a>>
      BY <2>1, <3>3
    <3>4. QED
      BY <1>14, <3>2, <3>3
  <2>3. a \in Message("callee") /\ a.type = "GONE" /\ a.sdp = NoSdp
    BY Ends, Attrs DEF Msg, Message
  <2> HIDE DEF a
  <2>4. /\ Len(qp \o <<a>>) = Len(qp) + 1 /\ (qp \o <<a>>)[Len(qp) + 1] = a
        /\ Len(qp) \in Nat /\ DOMAIN qp = 1..Len(qp) /\ DOMAIN (qp \o <<a>>) = 1..(Len(qp) + 1)
        /\ \A i \in DOMAIN qp : (qp \o <<a>>)[i] = qp[i]
    BY <1>1, <2>3, ConcatIs
  <2>5. CallsFit'
    BY <1>3, <1>14, <2>1 DEF CallsFit
  <2>6. DialogsFit'
    BY <1>14, <2>1 DEF DialogsFit
  <2>7. ToCallee'
    <3>1. CASE wire'["callee"] = qp
      BY <1>3, <1>4, <1>14, <2>1, <3>1 DEF ToCallee
    <3>2. CASE wire'["callee"] = qp \o <<a>>
      BY <1>3, <1>4, <1>14, <2>1, <2>3, <2>4, <3>2 DEF ToCallee
    <3>3. QED
      BY <2>2, <3>1, <3>2
  <2>8. Says("terminated").state = "terminated" /\ Says("terminated").sdp = NoSdp
    BY <1>10, <1>14
  <2>9. CallerHears'
    <3>1. \A i \in DOMAIN qe : /\ qe[i].state # "terminated"
                               /\ qe[i].state = "ready" => \A j \in DOMAIN qe : ~ (j > i)
      BY <1>14 DEF CallerHears
    <3>2. \A i \in DOMAIN evs :
            \/ evs[i].state = "terminated" /\ evs[i].sdp = NoSdp /\ i = Len(evs)
            \/ i \in DOMAIN qe /\ evs[i] = qe[i] /\ qe[i].state # "terminated"
               /\ (qe[i].state = "ready" => \A j \in DOMAIN evs : j > i => evs[j].state = "terminated")
      BY <1>12, <2>8, <3>1
    <3>3. evs # <<>> /\ evs[Len(evs)].state = "terminated"
      BY <1>12, <2>8
    <3> HIDE DEF evs
    <3>4. QED
      BY <1>3, <1>7, <2>1, <3>2, <3>3 DEF CallerHears
  <2>10. QED
    BY <1>7, <1>8, <1>9, <2>1, <2>5, <2>6, <2>7, <2>9
<1>15. CASE m.type = "FINAL" /\ m.status # 200
  <2>1. Stack("caller", "terminated", rest, <<>>, qe \o <<Says("terminated")>>)
    BY <1>2, <1>5, <1>15 DEF Receive, rest, Says
  <2>2. QED
    BY <1>5, <1>14, <1>15, <2>1
<1>16. ASSUME Stack("caller", dialog["caller"], rest, <<>>, qe \o <<>>), dialog["caller"] = "terminated",
              m.sdp = NoSdp
       PROVE  PairInv'
  <2>1. qe \o <<>> = qe /\ qp \o <<>> = qp
    BY <1>1
  <2>2. Accepted("terminated", qe) /\ wire'["callee"] = qp
    BY <1>16, <2>1, StackOfCaller
  <2>3. CallsFit' /\ DialogsFit'
    BY <1>3, <1>16, <2>2 DEF CallsFit, DialogsFit
  <2>4. ToCallee'
    BY <1>3, <1>4, <1>16, <2>2 DEF ToCallee
  <2>5. CallerHears'
    BY <1>3, <1>7, <1>16, <2>2 DEF CallerHears
  <2>6. QED
    BY <1>7, <1>8, <1>9, <2>2, <2>3, <2>4, <2>5
<1>17. dialog["caller"] \in {"calling", "cancelled"} => m.type = "FINAL"
  BY <1>1, <1>5 DEF DialogsFit
<1>18. dialog["caller"] # "init"
  BY <1>1, Ends DEF DialogsFit
<1>19. CASE m.type = "BYE"
  <2>1. CASE dialog["caller"] = "terminated"
    <3>1. Stack("caller", dialog["caller"], rest, <<>>, qe \o <<>>)
      BY <1>2, <1>19, <2>1 DEF Receive, rest
    <3>2. QED
      BY <1>5, <1>16, <1>19, <2>1, <3>1
  <2>2. CASE dialog["caller"] \in {"ready", "terminating"}
    <3> DEFINE a == Msg("GONE", 200, NoSdp)
    <3>1. Stack("caller", "terminated", rest, <<a>>, qe \o <<Says("terminated")>>)
      BY <1>2, <1>19, <2>2 DEF Receive, rest, Says
    <3>2. wire'["callee"] = qp \o <<a>>
      BY <3>1, StackOfCaller
    <3>3. a \in Message("callee") /\ a.type = "GONE"
      BY Ends, Attrs DEF Msg, Message
    <3>4. Has(wire'["callee"], "GONE")
      BY <1>1, <3>2, <3>3, ConcatIs
    <3>5. QED
      BY <1>5, <1>14, <1>19, <2>2, <3>1, <3>4
  <2>3. QED
    BY <1>17, <1>18, <1>19, <2>1, <2>2 DEF DialogsFit
<1>20. CASE m.type = "GONE"
  <2>1. CASE dialog["caller"] = "terminated"
    <3>1. Stack("caller", dialog["caller"], rest, <<>>, qe \o <<>>)
      BY <1>2, <1>20, <2>1 DEF Receive, rest
    <3>2. QED
      BY <1>5, <1>16, <1>20, <2>1, <3>1
  <2>2. CASE dialog["caller"] = "terminating"
    <3>1. Stack("caller", "terminated", rest, <<>>, qe \o <<Says("terminated")>>)
      BY <1>2, <1>20, <2>2 DEF Receive, rest, Says
    <3>2. QED
      BY <1>5, <1>14, <1>20, <2>2, <3>1
  <2>3. dialog["caller"] # "ready"
    BY <1>5, <1>20 DEF DialogsFit
  <2>4. QED
    BY <1>17, <1>18, <1>20, <2>1, <2>2, <2>3 DEF DialogsFit
<1>21. QED
  BY <1>5, <1>13, <1>15, <1>19, <1>20

\* What sofia-sip makes of a message for the callee.
LEMMA CalleeReceives ==
  ASSUME TypeOK, foreign = {}, PairInv, Receive("callee") PROVE PairInv'
<1> DEFINE q == wire["callee"]
           m == q[1]
           rest == Tail(q)
           qe == events["callee"]
           qp == wire["caller"]
           Says(state) == State("callee", state, m.status, m.sdp)
           Accepted(new, out, evs) ==
             /\ dialog'["callee"] = new /\ dialog'["caller"] = dialog["caller"]
             /\ wire'["callee"] = rest /\ wire'["caller"] = qp \o out
             /\ events'["callee"] = evs /\ events'["caller"] = events["caller"]
<1> USE DEF PairInv
<1>1. q \in Seq(Message("callee")) /\ q # <<>> /\ qe \in Seq(Event("callee")) /\ qp \in Seq(Message("caller"))
  BY Ends, Queues DEF Receive
<1>2. /\ Head(q) = q[1] /\ 1 \in DOMAIN q /\ rest \in Seq(Message("callee"))
      /\ \A i \in DOMAIN rest : i \in Nat \ {0} /\ i + 1 \in DOMAIN q /\ rest[i] = q[i + 1]
      /\ \A t : Has(q, t) /\ q[1].type # t => Has(rest, t)
  BY <1>1, TailIs
<1>3. /\ UNCHANGED <<foreign, policy, callState, ctx, media>>
      /\ reported' = [reported EXCEPT !["callee"] = @ \/ m.sdp # NoSdp]
  BY <1>2 DEF Receive
<1>4. reported'["caller"] = reported["caller"]
  BY <1>3, Ends DEF TypeOK, StackTypeOK
<1>5. \/ m.type = "INVITE" /\ m.sdp = LocalSdp(ctx["caller"].local)
         /\ dialog["callee"] = "init" /\ qe = <<>> /\ ~ reported["callee"]
      \/ m.sdp = NoSdp /\ m.type = "CANCEL"
      \/ m.sdp = NoSdp /\ m.type = "ACK" /\ dialog["caller"] \in {"ready", "terminating", "terminated"}
      \/ m.sdp = NoSdp /\ m.type = "BYE" /\ dialog["caller"] \in {"terminating", "terminated"}
      \/ m.sdp = NoSdp /\ m.type = "GONE" /\ dialog["caller"] = "terminated"
  BY <1>2 DEF ToCallee, Msg
<1>6. \A i \in DOMAIN rest :
        /\ rest[i].sdp = NoSdp
        /\ \/ rest[i].type = "CANCEL"
           \/ rest[i].type = "ACK" /\ dialog["caller"] \in {"ready", "terminating", "terminated"}
           \/ rest[i].type = "BYE" /\ dialog["caller"] \in {"terminating", "terminated"}
           \/ rest[i].type = "GONE" /\ dialog["caller"] = "terminated"
  <2> TAKE i \in DOMAIN rest
  <2>1. i + 1 \in DOMAIN q /\ rest[i] = q[i + 1] /\ i + 1 # 1
    BY <1>2
  <2>2. QED
    BY <2>1 DEF ToCallee
<1> HIDE DEF rest
<1>7. CalleeDone' = CalleeDone /\ AnswerFits' = AnswerFits
  BY <1>3 DEF CalleeDone, AnswerFits
<1>8. ASSUME NEW new, NEW out, NEW evs, Accepted(new, out, evs) PROVE ToCallee' /\ CallerHears' /\ PipesFit'
  <2>1. ToCallee'
    BY <1>6, <1>8 DEF ToCallee
  <2>2. CallerHears'
    BY <1>3, <1>7, <1>8 DEF CallerHears
  <2>3. PipesFit'
    BY <1>3, <1>7 DEF PipesFit
  <2>4. QED
    BY <2>1, <2>2, <2>3
<1>9. \A state : /\ Says(state).state = state
                 /\ Says(state).sdp = IF reported["callee"] THEN NoSdp ELSE m.sdp
  BY DEF State
<1>10. \A state \in {"received", "ready", "terminated"} : Says(state) \in Event("callee")
  <2>1. m \in Message("callee") /\ NoSdp \in Sdp("caller")
    BY <1>1, <1>2, Attrs, Ends
  <2>2. QED
    BY <2>1, Ends DEF State, Event, Message
<1> HIDE DEF Says
<1>11. \A state \in {"received", "ready", "terminated"} :
         LET evs == qe \o <<Says(state)>>
         IN  /\ evs # <<>> /\ Len(evs) = Len(qe) + 1 /\ evs[Len(qe) + 1] = Says(state)
             /\ Len(qe) \in Nat /\ DOMAIN qe = 1..Len(qe) /\ DOMAIN evs = 1..(Len(qe) + 1)
             /\ \A i \in DOMAIN qe : evs[i] = qe[i]
  BY <1>1, <1>10, ConcatIs
<1>12. qe \o <<>> = qe /\ qp \o <<>> = qp
  BY <1>1
<1>13. CASE m.type = "INVITE"
  <2> DEFINE evs == qe \o <<Says("received")>>
  <2>1. Stack("callee", "received", rest, <<>>, evs)
    BY <1>2, <1>13 DEF Receive, rest, Says
  <2>2. Accepted("received", <<>>, evs) /\ wire'["caller"] = qp
    BY <1>12, <2>1, StackOfCallee
  <2>3. /\ dialog["callee"] = "init" /\ qe = <<>> /\ callState["callee"] = "NONE"
        /\ Says("received").sdp = LocalSdp(ctx["caller"].local)
    BY <1>5, <1>9, <1>13 DEF CallsFit
  <2>4. dialog["caller"] \in {"calling", "cancelled"} /\ qp = <<>> /\ ~ reported["caller"]
    <3>1. dialog["caller"] # "init"
      BY <1>1, Ends DEF DialogsFit
    <3>2. QED
      BY <2>3, <3>1 DEF DialogsFit
  <2>5. ContextsFit' /\ CallsFit'
    BY <1>3, <1>7, <2>2, <2>3 DEF ContextsFit, CallsFit
  <2>6. DialogsFit'
    BY <1>4, <2>2, <2>4 DEF DialogsFit
  <2>7. ToCaller'
    BY <2>2, <2>4 DEF ToCaller
  <2>8. CalleeHears'
    <3>1. DOMAIN evs = 1..1 /\ evs[1] = Says("received")
      BY <2>3
    <3>2. Says("received").state = "received"
      BY <1>9
    <3> HIDE DEF evs
    <3>3. QED
      BY <1>3, <2>2, <2>3, <3>1, <3>2 DEF CalleeHears
  <2>9. QED
    BY <1>8, <2>2, <2>5, <2>6, <2>7, <2>8
<1>14. ASSUME Stack("callee", dialog["callee"], rest, <<>>, qe \o <<>>), m.sdp = NoSdp,
              \/ m.type = "CANCEL"
              \/ m.type = "ACK" /\ dialog["callee"] # "completed"
              \/ m.type \in {"BYE", "GONE"} /\ dialog["callee"] \notin {"completed", "ready", "terminating"}
       PROVE  PairInv'
  <2>1. Accepted(dialog["callee"], <<>>, qe) /\ wire'["caller"] = qp
    BY <1>12, <1>14, StackOfCallee
  <2>2. ContextsFit' /\ CallsFit'
    BY <1>3, <1>7, <2>1 DEF ContextsFit, CallsFit
  <2>3. dialog["caller"] # "init"
    BY <1>1, Ends DEF DialogsFit
  <2>4. DialogsFit'
    BY <1>2, <1>4, <1>14, <2>1, <2>3 DEF DialogsFit
  <2>5. ToCaller'
    BY <1>3, <1>4, <1>7, <2>1 DEF ToCaller
  <2>6. CalleeHears'
    BY <1>3, <2>1 DEF CalleeHears
  <2>7. QED
    BY <1>8, <2>1, <2>2, <2>4, <2>5, <2>6
<1>15. ASSUME NEW out, Stack("callee", "terminated", rest, out, qe \o <<Says("terminated")>>), m.sdp = NoSdp,
              dialog["callee"] # "terminated", DialogsFit', ToCaller'
       PROVE  PairInv'
  <2> DEFINE evs == qe \o <<Says("terminated")>>
  <2>1. Accepted("terminated", out, evs)
    BY <1>15, StackOfCallee
  <2>2. ContextsFit' /\ CallsFit'
    BY <1>3, <1>7, <2>1 DEF ContextsFit, CallsFit
  <2>3. Says("terminated").state = "terminated" /\ Says("terminated").sdp = NoSdp
    BY <1>9, <1>15
  <2>4. CalleeHears'
    <3>1. \A i \in DOMAIN evs :
            \/ evs[i].state = "terminated" /\ evs[i].sdp = NoSdp /\ i = Len(evs)
            \/ i \in DOMAIN qe /\ evs[i] = qe[i] /\ qe[i].state # "terminated"
      <4>1. \A i \in DOMAIN qe : qe[i].state # "terminated"
        BY <1>15 DEF CalleeHears
      <4>2. QED
        BY <1>11, <2>3, <4>1
    <3>2. evs # <<>> /\ evs[Len(evs)].state = "terminated"
      BY <1>11, <2>3
    <3> HIDE DEF evs
    <3>3. QED
      BY <1>3, <2>1, <3>1, <3>2 DEF CalleeHears
  <2>5. QED
    BY <1>8, <1>15, <2>1, <2>2, <2>4
<1>16. CASE m.type = "CANCEL"
  <2>1. CASE dialog["callee"] = "received"
    <3> DEFINE a == Msg("FINAL", 487, NoSdp)
    <3>1. Stack("callee", "terminated", rest, <<a>>, qe \o <<Says("terminated")>>)
      BY <1>2, <1>16, <2>1 DEF Receive, rest, Says
    <3>2. dialog["caller"] \in {"calling", "cancelled"} /\ qp = <<>>
      BY <2>1 DEF DialogsFit
    <3>3. /\ dialog'["caller"] = dialog["caller"] /\ dialog'["callee"] = "terminated"
          /\ wire'["caller"] = <<a>>
      BY <3>1, <3>2, StackOfCallee
    <3>4. DOMAIN <<a>> = 1..1 /\ <<a>>[1] = a /\ <<a>> # <<>>
      OBVIOUS
    <3>5. a.type = "FINAL" /\ a.status # 200 /\ a.sdp = NoSdp
      BY DEF Msg
    <3> HIDE DEF a
    <3>6. DialogsFit'
      BY <3>2, <3>3, <3>4, <3>5 DEF DialogsFit
    <3>7. ToCaller'
      BY <3>2, <3>3, <3>4, <3>5 DEF ToCaller
    <3>8. QED
      BY <1>5, <1>15, <1>16, <2>1, <3>1, <3>6, <3>7
  <2>2. CASE dialog["callee"] # "received"
    <3>1. dialog["callee"] # "early"
      BY DEF DialogsFit
    <3>2. Stack("callee", dialog["callee"], rest, <<>>, qe \o <<>>)
      BY <1>2, <1>16, <2>2, <3>1 DEF Receive, rest
    <3>3. QED
      BY <1>5, <1>14, <1>16, <3>2
  <2>3. QED
    BY <2>1, <2>2
<1>17. CASE m.type = "ACK"
  <2>1. CASE dialog["callee"] = "completed"
    <3> DEFINE evs == qe \o <<Says("ready")>>
    <3>1. Stack("callee", "ready", rest, <<>>, evs)
      BY <1>2, <1>17, <2>1 DEF Receive, rest, Says
    <3>2. Accepted("ready", <<>>, evs) /\ wire'["caller"] = qp
      BY <1>12, <3>1, StackOfCallee
    <3>3. Says("ready").state = "ready" /\ Says("ready").sdp = NoSdp /\ callState["callee"] = "ACTIVE"
      BY <1>5, <1>9, <1>17, <2>1 DEF CallsFit
    <3>4. ContextsFit' /\ CallsFit'
      BY <1>3, <1>7, <2>1, <3>2, <3>3 DEF ContextsFit, CallsFit
    <3>5. dialog["caller"] \in {"ready", "terminating"}
      BY <1>5, <1>17, <2>1 DEF DialogsFit
    <3>6. DialogsFit'
      BY <1>2, <1>17, <2>1, <3>2, <3>5 DEF DialogsFit
    <3>7. ToCaller'
      BY <1>3, <1>4, <1>7, <2>1, <3>2 DEF ToCaller
    <3>8. CalleeHears'
      <4>1. DOMAIN qe = {}
        BY <2>1 DEF CalleeHears
      <4>2. \A i \in DOMAIN evs : evs[i] = Says("ready")
        BY <1>11, <4>1
      <4>3. evs # <<>> /\ evs[Len(evs)] = Says("ready")
        BY <1>11
      <4> HIDE DEF evs
      <4>4. QED
        BY <1>3, <3>2, <3>3, <4>2, <4>3 DEF CalleeHears
    <3>9. QED
      BY <1>8, <3>2, <3>4, <3>6, <3>7, <3>8
  <2>2. CASE dialog["callee"] # "completed"
    <3>1. Stack("callee", dialog["callee"], rest, <<>>, qe \o <<>>)
      BY <1>2, <1>17, <2>2 DEF Receive, rest
    <3>2. QED
      BY <1>5, <1>14, <1>17, <2>2, <3>1
  <2>3. QED
    BY <2>1, <2>2
<1>18. CASE m.type = "BYE"
  <2>1. CASE dialog["callee"] \in {"completed", "ready", "terminating"}
    <3> DEFINE a == Msg("GONE", 200, NoSdp)
    <3>1. Stack("callee", "terminated", rest, <<a>>, qe \o <<Says("terminated")>>)
      BY <1>2, <1>18, <2>1 DEF Receive, rest, Says
    <3>2. Accepted("terminated", <<a>>, qe \o <<Says("terminated")>>)
      BY <3>1, StackOfCallee
    <3>3. a \in Message("caller") /\ a.type = "GONE" /\ a.sdp = NoSdp
      BY Ends, Attrs DEF Msg, Message
    <3> HIDE DEF a
    <3>4. /\ Len(qp \o <<a>>) = Len(qp) + 1 /\ (qp \o <<a>>)[Len(qp) + 1] = a
          /\ Len(qp) \in Nat /\ DOMAIN qp = 1..Len(qp) /\ DOMAIN (qp \o <<a>>) = 1..(Len(qp) + 1)
          /\ \A i \in DOMAIN qp : (qp \o <<a>>)[i] = qp[i]
          /\ Has(qp \o <<a>>, "GONE")
      BY <1>1, <3>3, ConcatIs
    <3>5. dialog["caller"] \in {"terminating", "terminated"}
      BY <1>5, <1>18
    <3>6. DialogsFit'
      BY <3>2, <3>4, <3>5 DEF DialogsFit
    <3>7. ToCaller'
      <4>1. \A i \in DOMAIN qp : qp[i].sdp = NoSdp /\ qp[i].type \in {"BYE", "GONE"}
        BY <3>5 DEF ToCaller
      <4>2. QED
        BY <3>2, <3>3, <3>4, <4>1 DEF ToCaller
    <3>8. QED
      BY <1>5, <1>15, <1>18, <2>1, <3>1, <3>6, <3>7
  <2>2. CASE dialog["callee"] \notin {"completed", "ready", "terminating"}
    <3>1. Stack("callee", dialog["callee"], rest, <<>>, qe \o <<>>)
      BY <1>2, <1>18, <2>2 DEF Receive, rest
    <3>2. QED
      BY <1>5, <1>14, <1>18, <2>2, <3>1
  <2>3. QED
    BY <2>1, <2>2
<1>19. CASE m.type = "GONE"
  <2>1. dialog["caller"] = "terminated" /\ dialog["callee"] \in {"terminating", "terminated"}
    BY <1>5, <1>19 DEF DialogsFit
  <2>2. CASE dialog["callee"] = "terminating"
    <3>1. Stack("callee", "terminated", rest, <<>>, qe \o <<Says("terminated")>>)
      BY <1>2, <1>19, <2>2 DEF Receive, rest, Says
    <3>2. Accepted("terminated", <<>>, qe \o <<Says("terminated")>>) /\ wire'["caller"] = qp
      BY <1>12, <3>1, StackOfCallee
    <3>3. DialogsFit'
      BY <2>1, <3>2 DEF DialogsFit
    <3>4. ToCaller'
      BY <2>1, <2>2, <3>2 DEF ToCaller
    <3>5. QED
      BY <1>5, <1>15, <1>19, <2>2, <3>1, <3>3, <3>4
  <2>3. CASE dialog["callee"] = "terminated"
    <3>1. Stack("callee", dialog["callee"], rest, <<>>, qe \o <<>>)
      BY <1>2, <1>19, <2>3 DEF Receive, rest
    <3>2. QED
      BY <1>5, <1>14, <1>19, <2>3, <3>1
  <2>4. QED
    BY <2>1, <2>2, <2>3
<1>20. QED
  BY <1>5, <1>13, <1>16, <1>17, <1>18, <1>19

\* The user hangs up.
LEMMA PairHangUp ==
  ASSUME TypeOK, foreign = {}, PairInv, NEW e \in End, HangUp(e) PROVE PairInv'
<1> USE DEF PairInv
<1>1. /\ callState[e] \notin {"NONE", "DISCONNECTED"} /\ SipHangUp(e, events[e])
      /\ UNCHANGED <<foreign, policy, callState, ctx, media, reported>>
  BY DEF HangUp
<1>2. callState[e] \in {"DIALING", "ALERTING", "INCOMING", "ACTIVE"}
  BY <1>1 DEF TypeOK
<1>3. CASE Stack(e, dialog[e], wire[e], <<>>, events[e])
  BY <1>1, <1>3, StackSame
<1>4. CASE e = "caller"
  <2>1. callState["caller"] \in {"DIALING", "ACTIVE"}
    BY <1>1, <1>4 DEF CallsFit
  <2>2. CASE callState["caller"] = "DIALING"
    <3>1. dialog["caller"] # "proceeding"
      BY DEF DialogsFit
    <3>2. NuaCancel("caller", events["caller"])
      BY <1>1, <1>4, <2>2 DEF SipHangUp
    <3>3. CASE dialog["caller"] = "calling"
      <4>1. Stack("caller", "cancelled", wire["caller"], <<Msg("CANCEL", 0, NoSdp)>>, events["caller"])
        BY <3>2, <3>3 DEF NuaCancel
      <4>2. QED
        BY <1>1, <3>3, <4>1, CallerSpeaks
    <3>4. CASE dialog["caller"] # "calling"
      BY <1>3, <1>4, <3>1, <3>2, <3>4 DEF NuaCancel
    <3>5. QED
      BY <3>3, <3>4
  <2>3. CASE callState["caller"] = "ACTIVE"
    <3>1. dialog["caller"] # "completed"
      BY DEF DialogsFit
    <3>2. NuaBye("caller", events["caller"])
      BY <1>1, <1>4, <2>3 DEF SipHangUp
    <3>3. CASE dialog["caller"] = "ready"
      <4>1. Stack("caller", "terminating", wire["caller"], <<Msg("BYE", 0, NoSdp)>>, events["caller"])
        BY <3>2, <3>3 DEF NuaBye
      <4>2. QED
        BY <1>1, <3>3, <4>1, CallerSpeaks
    <3>4. CASE dialog["caller"] # "ready"
      BY <1>3, <1>4, <3>1, <3>2, <3>4 DEF NuaBye
    <3>5. QED
      BY <3>3, <3>4
  <2>4. QED
    BY <2>1, <2>2, <2>3
<1>5. CASE e = "callee"
  <2>1. dialog["callee"] \in {"init", "received", "completed", "ready", "terminating", "terminated"}
    BY DEF DialogsFit
  <2>2. CASE callState["callee"] \in {"DIALING", "ALERTING"}
    <3>1. NuaCancel("callee", events["callee"])
      BY <1>1, <1>5, <2>2 DEF SipHangUp
    <3>2. QED
      BY <1>3, <1>5, <2>1, <3>1 DEF NuaCancel
  <2>3. CASE callState["callee"] = "ACTIVE"
    <3>1. NuaBye("callee", events["callee"])
      BY <1>1, <1>5, <2>3 DEF SipHangUp
    <3>2. CASE dialog["callee"] \in {"completed", "ready"}
      <4>1. Stack("callee", "terminating", wire["callee"], <<Msg("BYE", 0, NoSdp)>>, events["callee"])
        BY <3>1, <3>2 DEF NuaBye
      <4>2. QED
        BY <1>1, <3>2, <4>1, CalleeSpeaks
    <3>3. CASE dialog["callee"] \notin {"completed", "ready"}
      BY <1>3, <1>5, <3>1, <3>3 DEF NuaBye
    <3>4. QED
      BY <3>2, <3>3
  <2>4. CASE callState["callee"] = "INCOMING"
    <3>1. NuaRefuse("callee", 480, events["callee"])
      BY <1>1, <1>5, <2>4 DEF SipHangUp
    <3>2. CASE dialog["callee"] = "received"
      <4>1. events["callee"] = <<>>
        <5>1. DOMAIN events["callee"] = {}
          BY <2>4, <3>2 DEF CalleeHears
        <5>2. events["callee"] \in Seq(Event("callee"))
          BY Ends, Queues
        <5>3. events["callee"] # <<>> => 1 \in DOMAIN events["callee"]
          BY <5>2, TailIs
        <5>4. QED
          BY <5>1, <5>3
      <4>2. Stack("callee", "terminated", wire["callee"], <<Msg("FINAL", 480, NoSdp)>>,
                  Append(<<>>, State("callee", "terminated", 480, NoSdp)))
        BY <3>1, <3>2, <4>1 DEF NuaRefuse
      <4>3. callState' = [callState EXCEPT !["callee"] = "INCOMING"]
        BY <1>1, <2>4 DEF TypeOK
      <4>4. ctx["callee"] \in {NewContext, GotOffer}
        BY <2>4 DEF ContextsFit, CalleeDone
      <4>5. /\ ctx'["caller"] = ctx["caller"] /\ ctx'["callee"] \in {NewContext, GotOffer}
            /\ ctx'["callee"] # NewContext => ctx["caller"] # NewContext
        BY <1>1, <4>4 DEF ContextsFit
      <4>6. 480 \in Nat \ {200} /\ UNCHANGED <<policy, media, reported>>
        BY <1>1
      <4>7. QED
        BY <3>2, <4>2, <4>3, <4>5, <4>6, CalleeRefuses
    <3>3. CASE dialog["callee"] # "received"
      BY <1>3, <1>5, <2>1, <3>1, <3>3 DEF NuaRefuse
    <3>4. QED
      BY <3>2, <3>3
  <2>5. QED
    BY <1>2, <1>5, <2>2, <2>3, <2>4
<1>6. QED
  BY <1>4, <1>5, Ends

\* The user answers.
LEMMA PairAnswer ==
  ASSUME TypeOK, foreign = {}, PairInv, NEW e \in End, Answer(e) PROVE PairInv'
<1> USE DEF PairInv
<1>1. callState[e] = "INCOMING" /\ e = "callee"
  BY Ends DEF Answer, CallsFit
<1>2. ctx["callee"] \in {NewContext, GotOffer}
  BY <1>1 DEF ContextsFit, CalleeDone
<1>3. UNCHANGED <<foreign, policy, media, reported>>
  BY DEF Answer
<1>4. CASE ctx["callee"].state = "OFFER_REMOTE"
  <2>1. ctx["callee"] = GotOffer
    BY <1>2, <1>4, ContextValues
  <2>2. /\ ctx' = [ctx EXCEPT !["callee"] = Answered]
        /\ NuaAccept("callee", LocalSdp(Answered.local), events["callee"])
        /\ callState' = [callState EXCEPT !["callee"] = "ACTIVE"]
    BY <1>1, <1>4, <2>1, ContextSteps DEF Answer
  <2>3. ctx'["caller"] = ctx["caller"] /\ ctx'["callee"] = Answered
    BY <2>2, Ends DEF TypeOK
  <2>4. NuaAccept("callee", LocalSdp(ctx'["callee"].local), events["callee"])
    BY <2>2, <2>3
  <2>5. QED
    BY <1>1, <1>3, <2>1, <2>2, <2>3, <2>4, CalleeAnswers
<1>5. CASE ctx["callee"].state # "OFFER_REMOTE"
  <2>1. ctx["callee"] = NewContext
    BY <1>2, <1>5, ContextValues
  <2>2. /\ policy["callee"] # "FORCED" /\ ctx' = ctx
        /\ NuaAccept("callee", LocalSdp(<<>>), events["callee"])
        /\ callState' = [callState EXCEPT !["callee"] = "ACTIVE"]
    BY <1>1, <1>5 DEF Answer
  <2>3. NuaAccept("callee", LocalSdp(ctx'["callee"].local), events["callee"])
    BY <2>1, <2>2, ContextValues
  <2>4. ctx'["caller"] = ctx["caller"] /\ ctx'["callee"] = NewContext
    BY <2>1, <2>2
  <2>5. QED
    BY <1>1, <1>3, <2>1, <2>2, <2>3, <2>4, CalleeAnswers
<1>6. QED
  BY <1>4, <1>5

\* The invariant of two ends of this program holds at first, and every step
\* preserves it.
LEMMA PairInit == Init => PairInv
<1> SUFFICES ASSUME Init PROVE PairInv
  OBVIOUS
<1>1. \A e \in End : /\ callState[e] = "NONE" /\ ctx[e] = NewContext /\ media[e] = Silent
                     /\ dialog[e] = "init" /\ ~ reported[e] /\ events[e] = <<>> /\ wire[e] = <<>>
  BY DEF Init
<1>2. ContextsFit
  BY <1>1, Ends, ContextValues DEF ContextsFit
<1>3. CallsFit /\ DialogsFit
  BY <1>1, Ends DEF CallsFit, DialogsFit
<1>4. ToCallee /\ ToCaller
  BY <1>1, Ends DEF ToCallee, ToCaller
<1>5. CalleeHears /\ CallerHears
  BY <1>1, Ends DEF CalleeHears, CallerHears
<1>6. PipesFit
  BY <1>1, Ends DEF PipesFit, Silent
<1>7. QED
  BY <1>2, <1>3, <1>4, <1>5, <1>6 DEF PairInv

LEMMA PairNext ==
  ASSUME IInv, foreign = {}, PairInv, [Next]_vars PROVE PairInv'
<1>1. TypeOK
  BY DEF IInv
<1>2. CASE Dial
  BY <1>1, <1>2, CallerDials
<1>3. CASE ForeignCall \/ ForeignResponse \/ ForeignHangUp
  BY <1>3 DEF ForeignCall, ForeignResponse, ForeignHangUp
<1>4. ASSUME NEW e \in End, HangUp(e) PROVE PairInv'
  BY <1>1, <1>4, PairHangUp
<1>5. ASSUME NEW e \in End, Answer(e) PROVE PairInv'
  BY <1>1, <1>5, PairAnswer
<1>6. ASSUME NEW e \in End, IState(e) PROVE PairInv'
  BY <1>1, <1>6, CallerTold, CalleeTold, Ends
<1>7. ASSUME NEW e \in End, Receive(e) PROVE PairInv'
  BY <1>1, <1>7, CallerReceives, CalleeReceives, Ends
<1>8. CASE UNCHANGED vars
  <2>1. UNCHANGED <<policy, callState, ctx, media, dialog, reported, events, wire>>
    BY <1>8 DEF vars
  <2>2. ContextsFit' /\ CallsFit' /\ DialogsFit' /\ PipesFit'
    BY <2>1 DEF PairInv, ContextsFit, CallsFit, DialogsFit, PipesFit, CalleeDone
  <2>3. ToCallee' /\ ToCaller' /\ CalleeHears' /\ CallerHears'
    BY <2>1 DEF PairInv, ToCallee, ToCaller, CalleeHears, CallerHears, CalleeDone, AnswerFits
  <2>4. QED
    BY <2>2, <2>3 DEF PairInv
<1>9. QED
  BY <1>2, <1>3, <1>4, <1>5, <1>6, <1>7, <1>8 DEF Next

\* Who is a foreign end stays one.
LEMMA ForeignStays == [Next]_vars => foreign' = foreign
<1> SUFFICES ASSUME [Next]_vars PROVE foreign' = foreign
  OBVIOUS
<1>1. \A e \in End : HangUp(e) \/ Answer(e) \/ IState(e) \/ Receive(e) => foreign' = foreign
  BY DEF HangUp, Answer, IState, Receive
<1>2. QED
  BY <1>1 DEF Next, vars, Dial, ForeignCall, ForeignResponse, ForeignHangUp

LEMMA PairHolds == Spec => [](foreign = {} => PairInv)
<1> DEFINE P == foreign = {} => PairInv
<1>1. Init => P
  BY PairInit
<1>2. IInv /\ P /\ [Next]_vars => P'
  BY PairNext, ForeignStays
<1>3. QED
  BY <1>1, <1>2, InvHolds, PTL DEF Spec

\* Two ends of this program that play a call to each other both play it in the
\* clear, or each encrypts with the key the other decrypts with: what the two
\* calls_sip_call_activate_media () gave to their pipelines fits, whatever the
\* policies of the two accounts and the order of hang-ups, answers and messages.
THEOREM EndsAgreeHolds == Spec => []EndsAgree
<1>1. (foreign = {} => PairInv) => EndsAgree
  <2> SUFFICES ASSUME PairInv, media["caller"].on, media["callee"].on
               PROVE  media["callee"].keys = IF media["caller"].keys = <<>> THEN <<>>
                        ELSE <<media["caller"].keys[2], media["caller"].keys[1]>>
    BY DEF EndsAgree
  <2>1. ctx["caller"] = GotAnswer <=> ctx["callee"] = Answered
    BY DEF PairInv, PipesFit, ContextsFit
  <2>2. CASE ctx["caller"] = GotAnswer
    <3>1. media["caller"].keys = <<TheOffer[1], TheAnswer[1]>> /\ media["callee"].keys = <<TheAnswer[1], TheOffer[1]>>
      BY <2>1, <2>2 DEF PairInv, PipesFit
    <3>2. QED
      BY <3>1
  <2>3. CASE ctx["caller"] # GotAnswer
    BY <2>1, <2>3 DEF PairInv, PipesFit
  <2>4. QED
    BY <2>2, <2>3
<1>2. QED
  BY <1>1, PairHolds, PTL

\* Once nothing is on its way any more, two ends of this program both talk, with
\* their media playing, or neither does.
THEOREM TalkTogetherHolds == Spec => []TalkTogether
<1>1. (foreign = {} => PairInv) => TalkTogether
  <2> SUFFICES ASSUME PairInv, Quiet, NEW e \in End, callState[e] = "ACTIVE"
               PROVE  callState[Peer(e)] = "ACTIVE" /\ media[e].on
    BY DEF TalkTogether
  <2>1. \A x \in End : events[x] = <<>> /\ wire[x] = <<>> /\ \A t : ~ Has(wire[x], t)
    BY DEF Quiet, Has
  <2>2. dialog["caller"] = "ready" <=> dialog["callee"] = "ready"
    BY <2>1, Ends DEF PairInv, DialogsFit
  <2>3. dialog["callee"] = "ready" => callState["caller"] = "ACTIVE" /\ callState["callee"] = "ACTIVE"
    BY <2>1, <2>2, Ends DEF PairInv, CallsFit, CallerHears
  <2>4. dialog["callee"] = "ready" => media["caller"].on /\ media["callee"].on
    BY <2>1, <2>3, Ends DEF PairInv, CallsFit, CalleeHears
  <2>5. CASE e = "caller"
    <3>1. dialog["caller"] = "ready"
      BY <2>1, <2>5, Ends DEF PairInv, CallsFit, DialogsFit, CallerHears, CalleeHears
    <3>2. QED
      BY <2>2, <2>3, <2>4, <2>5, <3>1, Ends
  <2>6. CASE e = "callee"
    <3>1. dialog["callee"] = "ready"
      BY <2>1, <2>6, Ends DEF PairInv, CallsFit, DialogsFit, CallerHears, CalleeHears
    <3>2. QED
      BY <2>2, <2>3, <2>4, <2>6, <3>1, Ends
  <2>7. QED
    BY <2>5, <2>6, Ends
<1>2. QED
  BY <1>1, PairHolds, PTL

=============================================================================
