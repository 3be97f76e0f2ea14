----------------------------- MODULE CallsSipCall -----------------------------
(***************************************************************************)
(* One SIP call between two ends, from the INVITE to the end of its       *)
(* media.  An end is this program, or a foreign user agent that sends any *)
(* media description of ForeignMedia.                                      *)
(*                                                                         *)
(* Below the program is sofia-sip: the state of its dialogue, the messages *)
(* on the way to each end ("wire", in order, none lost: sofia-sip repeats  *)
(* them) and the nua_i_state events that the main loop did not deliver yet *)
(* ("events").  A nua_ call of the program takes effect on the dialogue at *)
(* once; what it causes comes back as an event.  sofia-sip acknowledges    *)
(* answers by itself (NUTAG_AUTOACK), a CANCEL has an effect only while    *)
(* the INVITE is unanswered, and a media description of the peer is        *)
(* reported once, with the first message that carried it.                  *)
(*                                                                         *)
(* A media description says whether there is a common codec, which crypto *)
(* attributes parse, and whether there are others ("garbled").             *)
(***************************************************************************)
EXTENDS CallsSdpCrypto

CONSTANTS
  Policies,      \* values of an account's media-encryption setting
  Foreigners,    \* sets of ends that are not this program
  ForeignMedia,  \* media descriptions of foreign ends
  NoSdp          \* a message without a media description

End == {"caller", "callee"}

Peer(e) == IF e = "caller" THEN "callee" ELSE "caller"

ASSUME CallAssumption ==
  /\ Policies \subseteq {"NONE", "PREFERRED", "FORCED"}
  /\ Foreigners \subseteq SUBSET End
  /\ ForeignMedia \subseteq [codec : BOOLEAN, garbled : BOOLEAN,
                            crypto : Seq([tag : Nat, suite : Suite, key : {"foreign"} \X Nat])]
  /\ NoSdp \notin [codec : BOOLEAN, garbled : BOOLEAN,
                   crypto : Seq([tag : Nat, suite : Suite, key : {"foreign", "caller", "callee"} \X Nat])]

VARIABLES
  foreign,    \* the ends that are not this program
  policy,     \* media-encryption of the account of an end
  callState,  \* CallsCall::state, NONE without a call
  ctx,        \* sdp_crypto_context of the call
  media,      \* the pipeline: whether it plays, and its two crypto attributes
  dialog,     \* sofia-sip: state of the dialogue
  reported,   \* sofia-sip: the peer's media description was in an event
  events,     \* sofia-sip: nua_i_state events not delivered yet
  wire        \* messages on the way to an end

vars == <<foreign, policy, callState, ctx, media, dialog, reported, events, wire>>

Calls == End \ foreign

Silent == [on |-> FALSE, keys |-> <<>>]

-----------------------------------------------------------------------------
(* sofia-sip.  Each operator gives the next dialog, reported, events, wire. *)

Msg(type, status, sdp) == [type |-> type, status |-> status, sdp |-> sdp]

\* To "state", with the messages "out" to the peer and the events "evs" to the
\* program; "in" is what is left on the wire of this end.
Stack(e, state, in, out, evs) ==
  /\ dialog' = [dialog EXCEPT ![e] = state]
  /\ wire' = [wire EXCEPT ![e] = in, ![Peer(e)] = @ \o out]
  /\ events' = [events EXCEPT ![e] = IF e \in foreign THEN <<>> ELSE evs]

State(e, state, status, sdp) ==
  [state |-> state, status |-> status, sdp |-> IF reported[e] THEN NoSdp ELSE sdp]

\* nua_cancel (), nua_bye () and the refusals of nua_respond ().  "evs" is what
\* is left of the events once the calling handler has taken its own.
NuaCancel(e, evs) ==
  IF dialog[e] \in {"calling", "proceeding"}
  THEN Stack(e, "cancelled", wire[e], <<Msg("CANCEL", 0, NoSdp)>>, evs)
  ELSE Stack(e, dialog[e], wire[e], <<>>, evs)

NuaBye(e, evs) ==
  IF dialog[e] \in {"completed", "ready"}
  THEN Stack(e, "terminating", wire[e], <<Msg("BYE", 0, NoSdp)>>, evs)
  ELSE Stack(e, dialog[e], wire[e], <<>>, evs)

NuaRefuse(e, status, evs) ==
  IF dialog[e] \in {"received", "early"}
  THEN Stack(e, "terminated", wire[e], <<Msg("FINAL", status, NoSdp)>>,
             Append(evs, State(e, "terminated", status, NoSdp)))
  ELSE Stack(e, dialog[e], wire[e], <<>>, evs)

NuaAccept(e, sdp, evs) ==
  IF dialog[e] \in {"received", "early"}
  THEN Stack(e, "completed", wire[e], <<Msg("FINAL", 200, sdp)>>, evs)
  ELSE Stack(e, dialog[e], wire[e], <<>>, evs)

\* What a message does, for each message sofia-sip accepts in its state.
Receive(e) ==
  /\ wire[e] # <<>>
  /\ LET m    == Head(wire[e])
         rest == Tail(wire[e])
         Go(state, out, evs) == Stack(e, state, rest, out, events[e] \o evs)
         Says(state) == <<State(e, state, m.status, m.sdp)>>
         Deaf == Go(dialog[e], <<>>, <<>>)
     IN  /\ CASE m.type = "INVITE" -> Go("received", <<>>, Says("received"))
              [] m.type = "PROVISIONAL" ->
                   IF dialog[e] \in {"calling", "proceeding"}
                     THEN Go("proceeding", <<>>, Says("proceeding"))
                   ELSE IF dialog[e] = "cancelled"
                     THEN Go("cancelled", <<>>, Says("proceeding"))
                   ELSE Deaf
              [] m.type = "FINAL" ->
                   IF dialog[e] \notin {"calling", "proceeding", "cancelled"} THEN Deaf
                   ELSE IF m.status = 200
                     THEN Go("ready", <<Msg("ACK", 0, NoSdp)>>, Says("ready"))
                   ELSE Go("terminated", <<>>, Says("terminated"))
              [] m.type = "CANCEL" ->
                   IF dialog[e] \in {"received", "early"}
                   THEN Go("terminated", <<Msg("FINAL", 487, NoSdp)>>, Says("terminated"))
                   ELSE Deaf
              [] m.type = "ACK" ->
                   IF dialog[e] = "completed" THEN Go("ready", <<>>, Says("ready")) ELSE Deaf
              [] m.type = "BYE" ->
                   IF dialog[e] \in {"completed", "ready", "terminating"}
                   THEN Go("terminated", <<Msg("GONE", 200, NoSdp)>>, Says("terminated"))
                   ELSE Deaf
              [] m.type = "GONE" ->
                   IF dialog[e] = "terminating" THEN Go("terminated", <<>>, Says("terminated"))
                   ELSE Deaf
         /\ reported' = [reported EXCEPT ![e] = @ \/ m.sdp # NoSdp]
  /\ UNCHANGED <<foreign, policy, callState, ctx, media>>

-----------------------------------------------------------------------------
(* The program.                                                             *)

\* The media description of a call, with the local attributes.
LocalSdp(attrs) == [codec |-> TRUE, crypto |-> attrs, garbled |-> FALSE]

\* calls_sip_call_hang_up (), by the state of the call
SipHangUp(e, evs) ==
  CASE callState[e] \in {"DIALING", "ALERTING"} -> NuaCancel(e, evs)
    [] callState[e] = "ACTIVE"                  -> NuaBye(e, evs)
    [] callState[e] = "INCOMING"                -> NuaRefuse(e, 480, evs)
    [] OTHER -> UNCHANGED <<dialog, wire>> /\ events' = [events EXCEPT ![e] = evs]

\* The origin dials: the offer is generated unless encryption is disabled.
Dial ==
  /\ "caller" \in Calls
  /\ callState["caller"] = "NONE"
  /\ LET c == IF policy["caller"] = "NONE" THEN ctx["caller"]
              ELSE GenerateOffer(ctx["caller"], "caller")
     IN  /\ ctx' = [ctx EXCEPT !["caller"] = c]
         /\ Stack("caller", "calling", wire["caller"],
                  <<Msg("INVITE", 0, LocalSdp(c.local))>>, <<State("caller", "calling", 0, NoSdp)>>)
  /\ callState' = [callState EXCEPT !["caller"] = "DIALING"]
  /\ UNCHANGED <<foreign, policy, media, reported>>

\* A bug for the mutants: the call ends here and the peer is not told.
HangUpLocally(e) ==
  /\ e \in Calls
  /\ callState[e] = "ACTIVE"
  /\ callState' = [callState EXCEPT ![e] = "DISCONNECTED"]
  /\ UNCHANGED <<foreign, policy, ctx, media, dialog, reported, events, wire>>

HangUp(e) ==
  /\ e \in Calls
  /\ callState[e] \notin {"NONE", "DISCONNECTED"}
  /\ SipHangUp(e, events[e])
  /\ UNCHANGED <<foreign, policy, callState, ctx, media, reported>>

\* calls_sip_call_answer (): with the remote offer, without any, or not at all
Answer(e) ==
  /\ e \in Calls
  /\ callState[e] = "INCOMING"
  /\ \/ /\ ctx[e].state = "OFFER_REMOTE" /\ policy[e] # "NONE"
        /\ IF GeneratesAnswer(ctx[e])
           THEN LET c == GenerateAnswer(ctx[e], e)
                IN  /\ ctx' = [ctx EXCEPT ![e] = c]
                    /\ NuaAccept(e, LocalSdp(c.local), events[e])
                    /\ callState' = [callState EXCEPT ![e] = "ACTIVE"]
           ELSE NuaRefuse(e, 488, events[e]) /\ UNCHANGED <<ctx, callState>>
     \/ /\ ctx[e].state # "OFFER_REMOTE" /\ policy[e] # "FORCED"
        /\ NuaAccept(e, LocalSdp(<<>>), events[e])
        /\ callState' = [callState EXCEPT ![e] = "ACTIVE"]
        /\ UNCHANGED ctx
  /\ UNCHANGED <<foreign, policy, media, reported>>

\* The checks of sip_i_state () that end in a hang-up; every description has an
\* address.
Refuses(e, sdp) ==
  \/ ~ sdp.codec
  \/ policy[e] = "FORCED" /\ ~ TakesRemote(ctx[e], sdp.crypto)
  \/ policy[e] = "NONE" /\ (sdp.crypto # <<>> \/ sdp.garbled)

RemoteMedia(e, sdp) ==
  IF sdp = NoSdp \/ policy[e] = "NONE" THEN ctx[e]
  ELSE IF ~ sdp.codec THEN ctx[e]
  ELSE SetRemoteMedia(ctx[e], sdp.crypto)

\* Bugs for the mutants: unencrypted in spite of FORCED; never unencrypted.
ActivateMediaAnyway(e, c) ==
  [on |-> TRUE, keys |-> IF IsNegotiated(c) THEN <<LocalCrypto(c), RemoteCrypto(c)>> ELSE <<>>]

ActivateMediaEncrypted(e, c) ==
  IF IsNegotiated(c) THEN [on |-> TRUE, keys |-> <<LocalCrypto(c), RemoteCrypto(c)>>]
  ELSE IF policy[e] # "NONE" THEN media[e]
  ELSE [on |-> TRUE, keys |-> <<>>]

\* calls_sip_call_activate_media (call, TRUE)
ActivateMedia(e, c) ==
  IF IsNegotiated(c) THEN [on |-> TRUE, keys |-> <<LocalCrypto(c), RemoteCrypto(c)>>]
  ELSE IF policy[e] = "FORCED" THEN media[e]
  ELSE [on |-> TRUE, keys |-> <<>>]

NewCallState(ev) ==
  CASE ev.state = "calling"    -> "DIALING"
    [] ev.state = "proceeding" -> IF ev.status = 180 THEN "ALERTING" ELSE "DIALING"
    [] ev.state = "received"   -> "INCOMING"
    [] ev.state = "ready"      -> "ACTIVE"
    [] ev.state = "terminated" -> "DISCONNECTED"

\* sip_i_state (), after nua_i_invite has created the call of an event "received"
\* (sofia-sip queues both events in one step).
IState(e) ==
  /\ e \in Calls
  /\ events[e] # <<>>
  /\ LET ev   == Head(events[e])
         rest == Tail(events[e])
         c    == RemoteMedia(e, ev.sdp)
     IN  /\ ctx' = [ctx EXCEPT ![e] = c]
         /\ IF ev.sdp # NoSdp /\ Refuses(e, ev.sdp)
            THEN /\ IF ev.state = "received"
                    THEN /\ callState' = [callState EXCEPT ![e] = "INCOMING"]
                         /\ NuaRefuse(e, 480, rest)
                    ELSE callState' = callState /\ SipHangUp(e, rest)
                 /\ media' = media
            ELSE /\ callState' = [callState EXCEPT ![e] = NewCallState(ev)]
                 /\ media' = [media EXCEPT ![e] = CASE ev.state = "ready" -> ActivateMedia(e, c)
                                                    [] ev.state = "terminated" -> Silent
                                                    [] OTHER -> @]
                 /\ events' = [events EXCEPT ![e] = rest]
                 /\ UNCHANGED <<dialog, wire>>
  /\ UNCHANGED <<foreign, policy, reported>>

-----------------------------------------------------------------------------
(* A foreign end.                                                           *)

ForeignCall ==
  /\ "caller" \in foreign
  /\ dialog["caller"] = "init"
  /\ \E sdp \in ForeignMedia :
       Stack("caller", "calling", wire["caller"], <<Msg("INVITE", 0, sdp)>>, <<>>)
  /\ UNCHANGED <<foreign, policy, callState, ctx, media, reported>>

\* It rings, with or without early media, or answers, or refuses.
ForeignResponse ==
  /\ "callee" \in foreign
  /\ \/ /\ dialog["callee"] = "received"
        /\ \E status \in {180, 183}, sdp \in ForeignMedia \cup {NoSdp} :
             Stack("callee", "early", wire["callee"], <<Msg("PROVISIONAL", status, sdp)>>, <<>>)
     \/ \E sdp \in ForeignMedia :
          dialog["callee"] \in {"received", "early"} /\ NuaAccept("callee", sdp, <<>>)
     \/ dialog["callee"] \in {"received", "early"} /\ NuaRefuse("callee", 486, <<>>)
  /\ UNCHANGED <<foreign, policy, callState, ctx, media, reported>>

ForeignHangUp ==
  /\ \E e \in foreign :
       \/ dialog[e] \in {"calling", "proceeding"} /\ NuaCancel(e, <<>>)
       \/ dialog[e] \in {"completed", "ready"} /\ NuaBye(e, <<>>)
  /\ UNCHANGED <<foreign, policy, callState, ctx, media, reported>>

-----------------------------------------------------------------------------
Init ==
  /\ foreign \in Foreigners
  /\ policy \in [End -> Policies]
  /\ callState = [e \in End |-> "NONE"]
  /\ ctx = [e \in End |-> NewContext]
  /\ media = [e \in End |-> Silent]
  /\ dialog = [e \in End |-> "init"]
  /\ reported = [e \in End |-> FALSE]
  /\ events = [e \in End |-> <<>>]
  /\ wire = [e \in End |-> <<>>]

Next ==
  \/ Dial \/ ForeignCall \/ ForeignResponse \/ ForeignHangUp
  \/ \E e \in End : HangUp(e) \/ Answer(e) \/ IState(e) \/ Receive(e)

Spec == Init /\ [][Next]_vars

\* The main loop delivers events, the network messages.
FairSpec ==
  /\ Spec
  /\ \A e \in End : WF_vars(IState(e)) /\ WF_vars(Receive(e))

\* In addition, the user hangs up as long as that has an effect.
ImpatientSpec == FairSpec /\ WF_vars(HangUp("caller"))

-----------------------------------------------------------------------------
(* Properties.                                                              *)

\* Keys, attributes and media descriptions of an end.
Key(e) == {IF e \in foreign THEN "foreign" ELSE e} \X Nat

Attr(e) == [tag : Nat, suite : Suite, key : Key(e)]

Sdp(e) == [codec : BOOLEAN, garbled : BOOLEAN, crypto : Seq(Attr(e))] \cup {NoSdp}

Context(e) == [state  : {"INIT", "OFFER_LOCAL", "OFFER_REMOTE"} \cup Final,
               local  : Seq(Attr(e)), remote : Seq(Attr(Peer(e))), tag : Nat]

\* Events for an end, messages to it.
Event(e) == [state : {"calling", "proceeding", "received", "ready", "terminated"},
             status : Nat, sdp : Sdp(Peer(e))]

Message(e) == [type : {"INVITE", "PROVISIONAL", "FINAL", "CANCEL", "ACK", "BYE", "GONE"},
               status : Nat, sdp : Sdp(Peer(e))]

StackTypeOK ==
  /\ dialog \in [End -> {"init", "calling", "proceeding", "cancelled", "received", "early",
                         "completed", "ready", "terminating", "terminated"}]
  /\ reported \in [End -> BOOLEAN]
  /\ DOMAIN events = End /\ \A e \in End : events[e] \in Seq(Event(e))
  /\ DOMAIN wire = End /\ \A e \in End : wire[e] \in Seq(Message(e))

\* Every variable keeps its type; in particular the local keys of a context are
\* those its end has generated, the remote ones those of the peer, and
\* sip_i_state () is only told of states it knows.
TypeOK ==
  /\ foreign \in Foreigners
  /\ policy \in [End -> Policies]
  /\ callState \in [End -> {"NONE", "DIALING", "ALERTING", "INCOMING", "ACTIVE", "DISCONNECTED"}]
  /\ DOMAIN ctx = End /\ \A e \in End : ctx[e] \in Context(e)
  /\ DOMAIN media = End
  /\ \A e \in End : media[e] \in [on : BOOLEAN, keys : {<<>>} \cup (Attr(e) \X Attr(Peer(e)))]
  /\ StackTypeOK

\* An account that forces encryption never plays a call without it, whatever
\* the peer offers or answers (the last guard of calls_sip_call_activate_media).
ForcedIsEncrypted ==
  \A e \in Calls : policy[e] = "FORCED" /\ media[e].on => media[e].keys # <<>>

\* Who plays encrypted does so with a key of its own and one of its peer that
\* belong to the same line of the offer and to the same suite.
KeysBelongTogether ==
  \A e \in Calls : media[e].on /\ media[e].keys # <<>> =>
    LET own    == media[e].keys[1]
        theirs == media[e].keys[2]
    IN  /\ own.key \in Key(e) /\ theirs.key \in Key(Peer(e))
        /\ own.tag = theirs.tag /\ own.suite = theirs.suite

\* Two ends of this program that play a call to each other play it both in the
\* clear, or each encrypts with the key with which the other decrypts.
EndsAgree ==
  foreign = {} /\ media["caller"].on /\ media["callee"].on =>
    media["callee"].keys = IF media["caller"].keys = <<>> THEN <<>>
                           ELSE <<media["caller"].keys[2], media["caller"].keys[1]>>

Quiet == \A e \in End : events[e] = <<>> /\ wire[e] = <<>>

\* Once everything is delivered, two ends of this program either both talk,
\* with their media playing, or neither does.
TalkTogether ==
  foreign = {} /\ Quiet =>
    \A e \in End : callState[e] = "ACTIVE" => callState[Peer(e)] = "ACTIVE" /\ media[e].on

\* A call that is over for one end is eventually over for the other.
EndsTogether ==
  \A e \in End :
    foreign = {} /\ callState[e] = "DISCONNECTED" ~> callState[Peer(e)] = "DISCONNECTED"

\* A call whose answer this program refuses ("Hanging up") ends, if the user
\* hangs up on it as often as needed.
RefusedEnds ==
  "caller" \in Calls /\ callState["caller"] \in {"DIALING", "ALERTING"} /\ dialog["caller"] = "ready"
    ~> callState["caller"] \in {"ACTIVE", "DISCONNECTED"}

=============================================================================
