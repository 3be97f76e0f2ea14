------------------------------ MODULE CallsMedia ------------------------------
(***************************************************************************)
(* The media of SIP calls: the pool of pipelines, the codecs of the two    *)
(* ends of a call, and the pipeline of each end, whose elements report     *)
(* their states on a bus.                                                  *)
(*                                                                         *)
(* Both ends are this program, on two of its accounts, and so share the    *)
(* manager of media.  The dialogue and the negotiation of keys are those   *)
(* of CallsSipCall, reduced to the steps that touch media; "agreed" is     *)
(* what the negotiation comes to.                                          *)
(*                                                                         *)
(* A pipeline has three elements for a dozen: the one that records and     *)
(* plays, the one on the network, and the one that encrypts, which is in   *)
(* the pipeline only if it was asked for while linking.  GStreamer runs    *)
(* each of them by itself, keeps the order of what is on the bus, and      *)
(* flushes the bus of a pipeline that is set to NULL.                      *)
(***************************************************************************)
EXTENDS Naturals, Sequences, FiniteSets

CONSTANTS
  Codec,        \* the codecs of gst_codecs that are installed
  MaxPipes,     \* bound: pipelines made, each once
  Lively,       \* bound: pipelines whose elements run; they do not interact
  MaxRefresh    \* bound: refreshments of the session

CallEnd == {"out", "in"}

Orders == {o \in UNION {[1..n -> Codec] : n \in 1..Cardinality(Codec)} :
             \A i, j \in DOMAIN o : o[i] = o[j] => i = j}

Pipe == 1..MaxPipes

ASSUME MediaAssumption == MaxPipes \in Nat \ {0} /\ Lively \subseteq Pipe

Elements == {"sound", "net", "srtp"}

VARIABLES
  preferred,  \* the manager's preferred_codecs
  pool,       \* its list of pipelines
  made,       \* pipelines made so far
  pipe,       \* the pipelines
  runs,       \* what the elements of a pipeline are really doing
  bus,        \* messages of its elements not dispatched yet
  agreed,     \* the negotiation of keys succeeds
  call,       \* the ends of the call
  late,       \* the preference changed since the offer was looked at
  refreshed

mediaVars == <<preferred, pool, made, pipe, runs, bus, agreed, call, late, refreshed>>

NewPipe == [state |-> "NEED_CODEC", codec |-> "none", useSrtp |-> FALSE, linked |-> "none", playing |-> {}]

NoCall == [phase |-> "none", pipe |-> 0, codecs |-> <<>>, remote |-> <<>>]

Stopped == {"STOP_PENDING", "STOPPED"}

\* The elements that are in a pipeline, and so run with it.
Members(p) == IF pipe[p].linked = "srtp" THEN Elements ELSE Elements \ {"srtp"}

-----------------------------------------------------------------------------
(* The manager *)

\* calls_sip_media_manager_get_pipeline(): the first of the list, and a new one
\* takes its place.
GetPipeline(e, c) ==
  /\ made < MaxPipes
  /\ made' = made + 1
  /\ pool' = Append(Tail(pool), made')
  /\ call' = [call EXCEPT ![e] = [c EXCEPT !.pipe = Head(pool)]]

\* on_notify_preferred_audio_codecs(): names without an installed codec are
\* passed over; with none left, all codecs are taken.
PreferCodecs ==
  /\ \A e \in CallEnd : call[e].phase \notin {"up", "over"}   \* bound
  /\ \E o \in Orders : o # preferred /\ preferred' = o
  /\ late' = (late \/ \E e \in CallEnd : call[e].codecs # <<>>)
  /\ UNCHANGED <<pool, made, pipe, runs, bus, agreed, call, refreshed>>

-----------------------------------------------------------------------------
(* The pipeline.  Each operator gives the next pipe, runs and bus.          *)

\* A mutant of AllElements: the elements that encrypt count in any case.
AllElementsAlways(p) == Elements

AllElements(p) == IF pipe[p].useSrtp THEN Elements ELSE Elements \ {"srtp"}

\* set_crypto() before set_codec(): the encoder and the decoder are requested
\* while linking.
WithCrypto(r, keys) == IF keys THEN [r EXCEPT !.useSrtp = TRUE] ELSE r

\* pipeline_setup_codecs() and pipeline_link_elements(): linking has rtpbin ask
\* for an encoder and a decoder, which it gets if they are to be used by then.
Linked(r, codec) ==
  [r EXCEPT !.codec = codec, !.linked = IF r.useSrtp THEN "srtp" ELSE "plain"]

\* calls_sip_media_pipeline_set_codec(), which may fail to set up or to link.  It
\* also refuses a codec that is not installed, which it is never given: it gets
\* one of Common, and preferred has none (on_notify_preferred_audio_codecs).
WithCodec(r, codec) ==
  IF r.state # "NEED_CODEC" THEN {r}
  ELSE {[Linked(r, codec) EXCEPT !.state = "READY"], [r EXCEPT !.state = "ERROR"]}

\* A mutant of Started: a pipeline that is not READY is started again.
StartedAgain(r) == IF r.state \in {"ERROR", "NEED_CODEC"} THEN r ELSE [r EXCEPT !.state = "PLAY_PENDING"]

\* calls_sip_media_pipeline_start()
Started(r) == IF r.state = "READY" THEN [r EXCEPT !.state = "PLAY_PENDING"] ELSE r

\* calls_sip_media_pipeline_stop(), and what it does to the elements.
StopElements(p) ==
  /\ runs' = [runs EXCEPT ![p] = [el \in Elements |-> "NULL"]]
  /\ bus' = [bus EXCEPT ![p] = <<>>]

Stop(p) ==
  /\ pipe' = [pipe EXCEPT ![p].state = "STOP_PENDING"]
  /\ StopElements(p)

\* A mutant of ActivateMedia: the codec is set before the keys.
ActivateMediaCodecFirst(e, c) ==
  /\ \E r \in WithCodec(pipe[c.pipe], c.codecs[1]) :
       pipe' = [pipe EXCEPT ![c.pipe] = Started(WithCrypto(r, agreed))]
  /\ UNCHANGED <<runs, bus>>

\* calls_sip_call_activate_media (TRUE), for a call whose keys are as its
\* policy asks.
ActivateMedia(e, c) ==
  /\ \E r \in WithCodec(WithCrypto(pipe[c.pipe], agreed), c.codecs[1]) :
       pipe' = [pipe EXCEPT ![c.pipe] = Started(r)]
  /\ UNCHANGED <<runs, bus>>

\* An element of a pipeline that plays comes to play, and says so on the bus; what
\* it says on the way there has no effect.
ElementRuns(p, el) ==
  /\ pipe[p].state \in {"PLAY_PENDING", "PLAYING"}
  /\ el \in Members(p) /\ runs[p][el] # "PLAYING"
  /\ runs' = [runs EXCEPT ![p][el] = "PLAYING"]
  /\ bus' = [bus EXCEPT ![p] = Append(@, <<el, "PLAYING">>)]
  /\ UNCHANGED <<preferred, pool, made, pipe, agreed, call, late, refreshed>>

\* The sound ends: the network or the device gave up.
StreamEnds(p) ==
  /\ runs[p]["sound"] = "PLAYING"
  /\ <<"sound", "EOS">> \notin {bus[p][i] : i \in DOMAIN bus[p]}
  /\ bus' = [bus EXCEPT ![p] = Append(@, <<"sound", "EOS">>)]
  /\ UNCHANGED <<preferred, pool, made, pipe, runs, agreed, call, late, refreshed>>

\* A mutant of CheckElementMaps: the elements of an unencrypted pipeline do.
CheckElementMapsPlain(p, playing) ==
  IF playing \ {"srtp"} = {"sound", "net"} THEN "PLAYING" ELSE pipe[p].state

\* check_element_maps(), of the map of playing elements: the paused one and the
\* stopped one are never complete, as nobody pauses and the bus is flushed.
CheckElementMaps(p, playing) ==
  IF playing = AllElements(p) THEN "PLAYING" ELSE pipe[p].state

\* on_bus_message()
BusMessage(p) ==
  /\ bus[p] # <<>>
  /\ LET el == Head(bus[p])[1]
         s  == Head(bus[p])[2]
         playing == pipe[p].playing \union {el}
     IN  IF s = "EOS" THEN Stop(p)
         ELSE /\ pipe' = [pipe EXCEPT ![p].playing = playing,
                                      ![p].state = CheckElementMaps(p, playing)]
              /\ bus' = [bus EXCEPT ![p] = Tail(@)]
              /\ UNCHANGED runs
  /\ UNCHANGED <<preferred, pool, made, agreed, call, late, refreshed>>

-----------------------------------------------------------------------------
(* The call.  "remote" is the codecs of the peer's media description.       *)

\* The codecs of s that are in C, in their order.
Kept(s, C) ==
  LET kept[n \in 0..Len(s)] ==
        IF n = 0 THEN <<>>
        ELSE IF s[n] \in C THEN Append(kept[n - 1], s[n]) ELSE kept[n - 1]
  IN  kept[Len(s)]

\* The common codecs of sip_i_state(), in the order of the peer.
Common(remote) == Kept(remote, {preferred[i] : i \in DOMAIN preferred})

\* add_call() of an outgoing call: the offer is what is preferred now.
Dial ==
  /\ call["out"].phase = "none"
  /\ GetPipeline("out", [NoCall EXCEPT !.phase = "calling", !.remote = preferred])
  /\ UNCHANGED <<preferred, pipe, runs, bus, agreed, late, refreshed>>

\* create_inbound() and the event that shows the offer; without a common codec
\* the call is refused.  Until the answer the caller's "remote" is its own offer.
Incoming ==
  /\ call["out"].phase = "calling" /\ call["in"].phase = "none"
  /\ LET common == Common(call["out"].remote)
     IN  GetPipeline("in", [NoCall EXCEPT !.phase = IF common = <<>> THEN "over" ELSE "ringing",
                                          !.codecs = common, !.remote = call["out"].remote])
  /\ UNCHANGED <<preferred, pipe, runs, bus, agreed, late, refreshed>>

\* A mutant of Answered: the caller keeps the codecs it offered.
AnsweredAsOffered ==
  /\ call["out"].phase = "calling" /\ call["in"].phase = "ringing"
  /\ LET c == [call["out"] EXCEPT !.codecs = call["out"].remote, !.phase = "up"]
     IN  /\ call' = [call EXCEPT !["out"] = c, !["in"].phase = "answered"]
         /\ ActivateMedia("out", c)
  /\ UNCHANGED <<preferred, pool, made, agreed, late, refreshed>>

\* calls_sip_call_answer() with the common codecs, which the caller receives.
\* It goes on if one of them is still preferred; otherwise it hangs up, which
\* has no effect in this state of the call: see RefusedEnds of CallsSipCall.
Answered ==
  /\ call["out"].phase = "calling" /\ call["in"].phase = "ringing"
  /\ LET answer == call["in"].codecs
         common == Common(answer)
         c == [call["out"] EXCEPT !.codecs = common, !.remote = answer,
                                  !.phase = IF common = <<>> THEN "refused" ELSE "up"]
     IN  /\ call' = [call EXCEPT !["out"] = c, !["in"].phase = "answered"]
         /\ IF common = <<>> THEN UNCHANGED <<pipe, runs, bus>> ELSE ActivateMedia("out", c)
  /\ UNCHANGED <<preferred, pool, made, agreed, late, refreshed>>

\* The acknowledgement makes the called end ready.
Acknowledged ==
  /\ call["in"].phase = "answered"
  /\ call' = [call EXCEPT !["in"].phase = "up"]
  /\ ActivateMedia("in", call["in"])
  /\ UNCHANGED <<preferred, pool, made, agreed, late, refreshed>>

\* The session is refreshed: the peer's media description comes again, and the
\* event of a call that is ready.
Refresh(e) ==
  /\ call[e].phase = "up" /\ refreshed < MaxRefresh
  /\ LET common == Common(call[e].remote)
         c == [call[e] EXCEPT !.codecs = common]
     IN  IF common = <<>>
         THEN UNCHANGED <<call, pipe, runs, bus>>
         ELSE call' = [call EXCEPT ![e] = c] /\ ActivateMedia(e, c)
  /\ refreshed' = refreshed + 1
  /\ UNCHANGED <<preferred, pool, made, agreed, late>>

\* The dialogue ends at one end: activate_media (FALSE), and the call is freed with
\* its pipeline, whose other fields nobody sees again.
Terminated(e) ==
  /\ call[e].phase \notin {"none", "over"}
  /\ call' = [call EXCEPT ![e] = [NoCall EXCEPT !.phase = "over", !.pipe = call[e].pipe]]
  /\ pipe' = [pipe EXCEPT ![call[e].pipe] = [NewPipe EXCEPT !.state = "STOP_PENDING"]]
  /\ StopElements(call[e].pipe)
  /\ UNCHANGED <<preferred, pool, made, agreed, late, refreshed>>

-----------------------------------------------------------------------------
MediaInit ==
  /\ preferred \in Orders
  /\ pool = <<1>> /\ made = 1
  /\ pipe = [p \in Pipe |-> NewPipe]
  /\ runs = [p \in Pipe |-> [el \in Elements |-> "NULL"]]
  /\ bus = [p \in Pipe |-> <<>>]
  /\ agreed \in BOOLEAN
  /\ call = [e \in CallEnd |-> NoCall]
  /\ late = FALSE /\ refreshed = 0

PipeSteps(p) == BusMessage(p) \/ \E el \in Elements : ElementRuns(p, el)

MediaNext ==
  \/ PreferCodecs \/ Dial \/ Incoming \/ Answered \/ Acknowledged
  \/ \E e \in CallEnd : Refresh(e) \/ Terminated(e)
  \/ \E p \in Lively : PipeSteps(p) \/ StreamEnds(p)

MediaSpec == MediaInit /\ [][MediaNext]_mediaVars

\* The main loop dispatches what is on the bus, and GStreamer brings the elements
\* of a pipeline up: the devices work.
MediaFairness == \A p \in Lively : WF_mediaVars(PipeSteps(p))

-----------------------------------------------------------------------------
\* The media of a call is encrypted if, and only if, its keys were agreed upon
\* (request_encoder, pipeline_setup_codecs, activate_media).
EncryptedAsAgreed ==
  \A e \in CallEnd : call[e].phase = "up" /\ pipe[call[e].pipe].state # "ERROR" =>
    pipe[call[e].pipe].linked = (IF agreed THEN "srtp" ELSE "plain")

\* Both ends of a call use the same codec, unless the preference changed after
\* the called end looked at the offer (sip_i_state, get_sdp, activate_media).
SameCodec ==
  call["out"].phase = "up" /\ call["in"].phase = "up" /\ ~late =>
    LET a == pipe[call["out"].pipe]
        b == pipe[call["in"].pipe]
    IN  "ERROR" \in {a.state, b.state} \/ a.codec = b.codec

\* A pipeline that says it plays does: no element of it is missing, whatever the
\* order in which their messages came (on_bus_message, check_element_maps).
PlayingIsTrue ==
  \A p \in Pipe : pipe[p].state = "PLAYING" =>
    \A el \in Members(p) : runs[p][el] = "PLAYING"

\* A pipeline that was started comes to play, unless it is stopped first.
PendingEnds ==
  \A p \in Lively : pipe[p].state = "PLAY_PENDING" ~> pipe[p].state # "PLAY_PENDING"

\* A pipeline that was stopped never plays again: a refreshed session, a message
\* that is late or the end of the stream do not revive it.
StopIsFinal == [][\A p \in Pipe : pipe[p].state \in Stopped => pipe'[p].state \in Stopped]_mediaVars
=============================================================================
