--------------------------- MODULE CallsMediaProofs ---------------------------
(***************************************************************************)
(* Theorems about CallsMedia: for any number of pipelines, codecs and      *)
(* refreshments, the media of a call is encrypted as was agreed, both ends  *)
(* play the same codec, a pipeline that says it plays does, and one that   *)
(* was stopped never plays again.  And about CallsSrtp: a crypto line that *)
(* can be read is written and read again the same.                         *)
(***************************************************************************)
EXTENDS CallsMedia, CallsSrtp, WellFoundedInduction, TLAPS

-----------------------------------------------------------------------------
(* The inductive invariant. *)

PipeFields == {"state", "codec", "useSrtp", "linked", "playing"}

CallFields == {"phase", "pipe", "codecs", "remote"}

AtRest == [el \in Elements |-> "NULL"]

\* The phases before the media of an end of the call is activated.
Early == {"calling", "ringing", "answered", "refused"}

MediaTypeOK ==
  /\ pool = <<made>> /\ made \in Pipe
  /\ DOMAIN pipe = Pipe
  /\ \A p \in Pipe : DOMAIN pipe[p] = PipeFields /\ pipe[p].useSrtp \in BOOLEAN
  /\ runs \in [Pipe -> [Elements -> {"NULL", "PLAYING"}]]
  /\ bus \in [Pipe -> Seq(Elements \X {"PLAYING", "EOS"})]
  /\ agreed \in BOOLEAN
  /\ DOMAIN call = CallEnd /\ \A e \in CallEnd : DOMAIN call[e] = CallFields

\* A pipeline is one nobody was given, or belongs to one end of the call.
Owned ==
  /\ \A p \in Pipe : p >= made => pipe[p] = NewPipe
  /\ \A e \in CallEnd : call[e].phase # "none" => call[e].pipe \in Pipe /\ call[e].pipe < made
  /\ \A d, e \in CallEnd :
       call[d].phase # "none" /\ call[e].phase # "none" /\ d # e => call[d].pipe # call[e].pipe

\* What a call does to its pipeline: nothing before its media is activated.
Followed ==
  \A e \in CallEnd :
    /\ call[e].phase \in Early => pipe[call[e].pipe] = NewPipe
    /\ call[e].phase = "up" => pipe[call[e].pipe].state # "NEED_CODEC"

\* Elements run only while their pipeline plays or is to play.
Quiet(p) ==
  pipe[p].state \notin {"PLAY_PENDING", "PLAYING"} => runs[p] = AtRest /\ bus[p] = <<>>

\* What an element said of itself, and what the pipeline made of it, is still
\* so unless the pipeline was stopped.
Told(p) ==
  /\ \A i \in DOMAIN bus[p] : bus[p][i][2] = "PLAYING" => runs[p][bus[p][i][1]] = "PLAYING"
  /\ pipe[p].state \notin Stopped => \A el \in pipe[p].playing : runs[p][el] = "PLAYING"

\* The elements that encrypt are in the pipeline only if they are to be used.
Asked(p) == pipe[p].linked = "srtp" => pipe[p].useSrtp

Plays(p) == pipe[p].state = "PLAYING" => \A el \in Members(p) : runs[p][el] = "PLAYING"

Intact(p) == Quiet(p) /\ Told(p) /\ Asked(p) /\ Plays(p)

IInv ==
  /\ MediaTypeOK
  /\ Owned
  /\ Followed
  /\ EncryptedAsAgreed
  /\ \A p \in Pipe : Intact(p)

-----------------------------------------------------------------------------
(* Steps that touch one pipeline. *)

Only(p) ==
  /\ DOMAIN pipe' = Pipe
  /\ DOMAIN pipe'[p] = PipeFields /\ pipe'[p].useSrtp \in BOOLEAN
  /\ runs' \in [Pipe -> [Elements -> {"NULL", "PLAYING"}]]
  /\ bus' \in [Pipe -> Seq(Elements \X {"PLAYING", "EOS"})]
  /\ \A q \in Pipe \ {p} : pipe'[q] = pipe[q] /\ runs'[q] = runs[q] /\ bus'[q] = bus[q]

\* The other pipelines are as they were.
LEMMA Others ==
  ASSUME IInv, NEW p \in Pipe, Only(p), Intact(p)'
  PROVE  \A q \in Pipe : Intact(q)'
<1> SUFFICES ASSUME NEW q \in Pipe, q # p PROVE Intact(q)'
  OBVIOUS
<1>1. Intact(q) /\ pipe'[q] = pipe[q] /\ runs'[q] = runs[q] /\ bus'[q] = bus[q]
  BY DEF IInv, Only
<1>2. Quiet(q)'
  BY <1>1 DEF Intact, Quiet
<1>3. Told(q)'
  BY <1>1 DEF Intact, Told
<1>4. Asked(q)'
  BY <1>1 DEF Intact, Asked
<1>5. Plays(q)'
  BY <1>1 DEF Intact, Plays, Members
<1> QED BY <1>2, <1>3, <1>4, <1>5 DEF Intact

\* What the elements of a pipeline and its bus make of it.
Runs(p) ==
  /\ Only(p) /\ Intact(p)'
  /\ pipe[p].state \in {"PLAY_PENDING", "PLAYING"}
  /\ pipe'[p].state \in {"PLAY_PENDING", "PLAYING", "STOP_PENDING"}
  /\ pipe'[p].linked = pipe[p].linked

LEMMA Running ==
  ASSUME IInv, NEW p \in Pipe, Runs(p), UNCHANGED <<preferred, pool, made, agreed, call>>
  PROVE  IInv'
<1>1. /\ MediaTypeOK /\ Owned /\ Followed /\ EncryptedAsAgreed
      /\ pipe[p] # NewPipe
      /\ \A q \in Pipe : q # p => pipe'[q] = pipe[q]
  BY DEF IInv, Runs, Only, NewPipe
<1>2. MediaTypeOK'
  BY <1>1 DEF MediaTypeOK, Runs, Only
<1>3. Owned'
  BY <1>1 DEF Owned
<1>4. \A e \in CallEnd : call[e].phase \in Early \union {"up"} => call[e].pipe \in Pipe
  BY <1>1 DEF Owned, Early
<1>5. Followed'
  BY <1>1, <1>4 DEF Followed, Runs
<1>6. EncryptedAsAgreed'
  BY <1>1, <1>4 DEF EncryptedAsAgreed, Runs
<1>7. \A q \in Pipe : Intact(q)'
  BY Others DEF Runs
<1> QED BY <1>2, <1>3, <1>5, <1>6, <1>7 DEF IInv

LEMMA ElementRunning ==
  ASSUME IInv, NEW p \in Pipe, NEW el \in Elements, ElementRuns(p, el)
  PROVE  IInv'
<1>1. MediaTypeOK /\ Intact(p)
  BY DEF IInv
<1>2. /\ pipe[p].state \in {"PLAY_PENDING", "PLAYING"}
      /\ UNCHANGED <<preferred, pool, made, pipe, agreed, call>>
      /\ runs' = [runs EXCEPT ![p][el] = "PLAYING"]
      /\ bus' = [bus EXCEPT ![p] = Append(@, <<el, "PLAYING">>)]
  BY DEF ElementRuns
<1>3. /\ bus'[p] = Append(bus[p], <<el, "PLAYING">>)
      /\ bus[p] \in Seq(Elements \X {"PLAYING", "EOS"})
      /\ bus'[p] \in Seq(Elements \X {"PLAYING", "EOS"})
      /\ runs'[p] = [runs[p] EXCEPT ![el] = "PLAYING"]
      /\ runs[p] \in [Elements -> {"NULL", "PLAYING"}]
  BY <1>1, <1>2 DEF MediaTypeOK
<1>4. Only(p)
  <2>1. runs' \in [Pipe -> [Elements -> {"NULL", "PLAYING"}]]
    BY <1>1, <1>2, <1>3 DEF MediaTypeOK
  <2>2. bus' \in [Pipe -> Seq(Elements \X {"PLAYING", "EOS"})]
    BY <1>1, <1>2, <1>3 DEF MediaTypeOK
  <2> QED BY <1>1, <1>2, <2>1, <2>2 DEF Only, MediaTypeOK
<1>5. \A x \in Elements : runs[p][x] = "PLAYING" => runs'[p][x] = "PLAYING"
  BY <1>3
<1>6. Quiet(p)' /\ Asked(p)'
  BY <1>1, <1>2 DEF Intact, Quiet, Asked
<1>7. Told(p)'
  <2>1. ASSUME NEW i \in DOMAIN bus'[p], bus'[p][i][2] = "PLAYING"
        PROVE  runs'[p][bus'[p][i][1]] = "PLAYING"
    <3>1. CASE i \in DOMAIN bus[p]
      <4>1. bus'[p][i] = bus[p][i] /\ bus[p][i] \in Elements \X {"PLAYING", "EOS"}
        BY <1>3, <3>1
      <4> QED BY <1>1, <1>5, <2>1, <3>1, <4>1 DEF Intact, Told
    <3>2. CASE i \notin DOMAIN bus[p]
      <4>1. bus'[p][i] = <<el, "PLAYING">>
        BY <1>3, <3>2
      <4> QED BY <1>3, <4>1
    <3> QED BY <3>1, <3>2
  <2>2. pipe[p].state \notin Stopped
    BY <1>2 DEF Stopped
  <2>3. ASSUME NEW x \in pipe[p].playing PROVE runs'[p][x] = "PLAYING"
    BY <1>1, <1>3, <2>2, <2>3 DEF Intact, Told
  <2> QED BY <1>2, <2>1, <2>3 DEF Told
<1>8. Plays(p)'
  <2>1. Members(p)' = Members(p) /\ Members(p) \subseteq Elements
    BY <1>2 DEF Members
  <2> QED BY <1>1, <1>2, <1>5, <2>1 DEF Intact, Plays
<1>9. Runs(p)
  BY <1>2, <1>4, <1>6, <1>7, <1>8 DEF Runs, Intact
<1> QED BY <1>2, <1>9, Running

LEMMA StreamEnding ==
  ASSUME IInv, NEW p \in Pipe, StreamEnds(p)
  PROVE  IInv'
<1>1. MediaTypeOK /\ Intact(p)
  BY DEF IInv
<1>2. /\ runs[p]["sound"] = "PLAYING"
      /\ UNCHANGED <<preferred, pool, made, pipe, runs, agreed, call>>
      /\ bus' = [bus EXCEPT ![p] = Append(@, <<"sound", "EOS">>)]
  BY DEF StreamEnds
<1>3. pipe[p].state \in {"PLAY_PENDING", "PLAYING"}
  BY <1>1, <1>2 DEF Intact, Quiet, AtRest, Elements
<1>4. /\ bus'[p] = Append(bus[p], <<"sound", "EOS">>)
      /\ bus[p] \in Seq(Elements \X {"PLAYING", "EOS"})
      /\ bus'[p] \in Seq(Elements \X {"PLAYING", "EOS"})
  BY <1>1, <1>2 DEF MediaTypeOK, Elements
<1>5. Only(p)
  <2>1. bus' \in [Pipe -> Seq(Elements \X {"PLAYING", "EOS"})]
    BY <1>1, <1>2, <1>4 DEF MediaTypeOK
  <2> QED BY <1>1, <1>2, <2>1 DEF Only, MediaTypeOK
<1>6. Quiet(p)' /\ Asked(p)' /\ Plays(p)'
  BY <1>1, <1>2, <1>3 DEF Intact, Quiet, Asked, Plays, Members
<1>7. Told(p)'
  <2>1. ASSUME NEW i \in DOMAIN bus'[p], bus'[p][i][2] = "PLAYING"
        PROVE  runs[p][bus'[p][i][1]] = "PLAYING"
    <3>1. i \in DOMAIN bus[p] /\ bus'[p][i] = bus[p][i]
      BY <1>4, <2>1
    <3> QED BY <1>1, <2>1, <3>1 DEF Intact, Told
  <2> QED BY <1>1, <1>2, <2>1 DEF Intact, Told
<1>8. Runs(p)
  BY <1>2, <1>3, <1>5, <1>6, <1>7 DEF Runs, Intact
<1> QED BY <1>2, <1>8, Running

LEMMA Dispatching ==
  ASSUME IInv, NEW p \in Pipe, BusMessage(p)
  PROVE  IInv'
<1> DEFINE el == Head(bus[p])[1]
           playing == pipe[p].playing \union {el}
<1>1. MediaTypeOK /\ Intact(p)
  BY DEF IInv
<1>2. bus[p] # <<>> /\ UNCHANGED <<preferred, pool, made, agreed, call>>
  BY DEF BusMessage
<1>3. pipe[p].state \in {"PLAY_PENDING", "PLAYING"} /\ pipe[p].state \notin Stopped
  BY <1>1, <1>2 DEF Intact, Quiet, Stopped
<1>4. /\ bus[p] \in Seq(Elements \X {"PLAYING", "EOS"})
      /\ Head(bus[p]) = bus[p][1] /\ 1 \in DOMAIN bus[p]
      /\ bus[p][1] \in Elements \X {"PLAYING", "EOS"}
      /\ el \in Elements
      /\ DOMAIN pipe[p] = PipeFields
  BY <1>1, <1>2 DEF MediaTypeOK
<1>5. CASE Head(bus[p])[2] = "EOS"
  <2>1. /\ pipe' = [pipe EXCEPT ![p].state = "STOP_PENDING"]
        /\ runs' = [runs EXCEPT ![p] = AtRest]
        /\ bus' = [bus EXCEPT ![p] = <<>>]
    BY <1>5 DEF BusMessage, Stop, StopElements, AtRest
  <2>2. Only(p)
    <3>1. <<>> \in Seq(Elements \X {"PLAYING", "EOS"}) /\ AtRest \in [Elements -> {"NULL", "PLAYING"}]
      BY DEF AtRest
    <3> QED BY <1>1, <2>1, <3>1 DEF Only, MediaTypeOK, PipeFields
  <2>3. /\ pipe'[p].state = "STOP_PENDING" /\ pipe'[p].linked = pipe[p].linked
        /\ pipe'[p].useSrtp = pipe[p].useSrtp
        /\ runs'[p] = AtRest /\ bus'[p] = <<>>
    BY <1>1, <1>4, <2>1 DEF MediaTypeOK, PipeFields
  <2>4. Intact(p)'
    <3>1. DOMAIN <<>> = {}
      OBVIOUS
    <3> QED BY <1>1, <2>3, <3>1 DEF Intact, Quiet, Told, Asked, Plays, Stopped
  <2> QED BY <1>2, <1>3, <2>2, <2>3, <2>4, Running DEF Runs
<1>6. CASE Head(bus[p])[2] # "EOS"
  <2>1. /\ pipe' = [pipe EXCEPT ![p].playing = playing, ![p].state = CheckElementMaps(p, playing)]
        /\ bus' = [bus EXCEPT ![p] = Tail(@)]
        /\ UNCHANGED runs
    BY <1>6 DEF BusMessage
  <2>2. /\ pipe'[p].playing = playing
        /\ pipe'[p].state = CheckElementMaps(p, playing)
        /\ pipe'[p].linked = pipe[p].linked /\ pipe'[p].useSrtp = pipe[p].useSrtp
        /\ DOMAIN pipe' = Pipe /\ DOMAIN pipe'[p] = PipeFields
        /\ \A q \in Pipe \ {p} : pipe'[q] = pipe[q]
    BY <1>1, <1>4, <2>1 DEF MediaTypeOK, PipeFields
  <2>3. /\ bus'[p] = Tail(bus[p])
        /\ bus' \in [Pipe -> Seq(Elements \X {"PLAYING", "EOS"})]
        /\ \A q \in Pipe \ {p} : bus'[q] = bus[q]
    BY <1>1, <1>4, <2>1 DEF MediaTypeOK
  <2>4. Only(p)
    BY <1>1, <2>1, <2>2, <2>3 DEF Only, MediaTypeOK
  <2>5. runs[p][el] = "PLAYING"
    <3>1. bus[p][1][2] = "PLAYING"
      BY <1>4, <1>6
    <3> QED BY <1>1, <1>4, <3>1 DEF Intact, Told
  <2>6. \A x \in playing : runs[p][x] = "PLAYING"
    BY <1>1, <1>3, <2>5 DEF Intact, Told
  <2> HIDE DEF playing
  <2>7. Told(p)'
    <3>1. ASSUME NEW i \in DOMAIN bus'[p], bus'[p][i][2] = "PLAYING"
          PROVE  runs[p][bus'[p][i][1]] = "PLAYING"
      <4>1. i + 1 \in DOMAIN bus[p] /\ bus'[p][i] = bus[p][i + 1]
        BY <1>2, <1>4, <2>3, <3>1
      <4> QED BY <1>1, <3>1, <4>1 DEF Intact, Told
    <3> QED BY <2>1, <2>2, <2>6, <3>1 DEF Told
  <2>8. Plays(p)'
    <3>1. ASSUME playing = AllElements(p), NEW x \in Members(p) PROVE runs[p][x] = "PLAYING"
      BY <1>1, <2>6, <3>1 DEF Intact, Asked, AllElements, Members
    <3>2. Members(p)' = Members(p)
      BY <2>2 DEF Members
    <3> QED BY <1>1, <2>1, <2>2, <3>1, <3>2 DEF Intact, Plays, CheckElementMaps
  <2>9. pipe'[p].state \in {"PLAY_PENDING", "PLAYING"}
    BY <1>3, <2>2 DEF CheckElementMaps
  <2>10. Quiet(p)' /\ Asked(p)'
    BY <1>1, <2>2, <2>9 DEF Intact, Quiet, Asked
  <2> QED BY <1>2, <1>3, <2>2, <2>4, <2>7, <2>8, <2>9, <2>10, Running DEF Runs, Intact
<1> QED BY <1>5, <1>6

-----------------------------------------------------------------------------
(* Steps of the call. *)

\* The call, its pipelines and the pool after a step that leaves the pipelines.
LEMMA Planning ==
  ASSUME IInv, UNCHANGED <<pipe, runs, bus, agreed>>,
         MediaTypeOK', Owned', Followed',
         \A e \in CallEnd : call'[e].phase = "up" => UNCHANGED call[e]
  PROVE  IInv'
<1>1. EncryptedAsAgreed'
  BY DEF IInv, EncryptedAsAgreed
<1>2. ASSUME NEW p \in Pipe PROVE Intact(p)'
  <2>1. Intact(p)
    BY DEF IInv
  <2> QED BY <2>1 DEF Intact, Quiet, Told, Asked, Plays, Members
<1> QED BY <1>1, <1>2 DEF IInv

LEMMA Getting ==
  ASSUME IInv, NEW e \in CallEnd, NEW c, GetPipeline(e, c), call[e].phase = "none",
         DOMAIN c = CallFields, c.phase \in {"calling", "ringing", "over"},
         UNCHANGED <<pipe, runs, bus, agreed>>
  PROVE  IInv'
<1>1. MediaTypeOK /\ Owned /\ Followed
  BY DEF IInv
<1>2. /\ made + 1 \in Pipe /\ made' = made + 1 /\ made \in Pipe
      /\ pool' = <<made'>>
      /\ Head(pool) = made
  BY <1>1, MediaAssumption DEF MediaTypeOK, GetPipeline, Pipe
<1>3. /\ call' = [call EXCEPT ![e] = [c EXCEPT !.pipe = made]]
      /\ DOMAIN call' = CallEnd
      /\ DOMAIN call'[e] = CallFields
      /\ call'[e].phase = c.phase /\ call'[e].pipe = made
      /\ \A d \in CallEnd \ {e} : call'[d] = call[d]
  BY <1>1, <1>2 DEF MediaTypeOK, GetPipeline, CallFields
<1>4. MediaTypeOK'
  BY <1>1, <1>2, <1>3 DEF MediaTypeOK
<1>5. \A d \in CallEnd \ {e} :
        call'[d].phase # "none" => call'[d].pipe \in Pipe /\ call'[d].pipe < made
  BY <1>1, <1>3 DEF Owned
<1>6. Owned'
  <2>1. \A p \in Pipe : p >= made + 1 => p >= made
    BY <1>2 DEF Pipe
  <2>2. \A p \in Pipe : p < made => p < made + 1 /\ p # made
    BY <1>2 DEF Pipe
  <2>3. made < made + 1
    BY <1>2 DEF Pipe
  <2> QED BY <1>1, <1>2, <1>3, <1>5, <2>1, <2>2, <2>3 DEF Owned
<1>7. pipe[made] = NewPipe
  BY <1>1, <1>2 DEF Owned, Pipe
<1>8. Followed'
  BY <1>1, <1>3, <1>7 DEF Followed
<1> QED BY <1>3, <1>4, <1>6, <1>8, Planning

LEMMA Preferring == IInv /\ PreferCodecs => IInv'
<1> SUFFICES ASSUME IInv, PreferCodecs PROVE IInv'
  OBVIOUS
<1>1. UNCHANGED <<pool, made, pipe, runs, bus, agreed, call>>
  BY DEF PreferCodecs
<1>2. MediaTypeOK' /\ Owned' /\ Followed'
  BY <1>1 DEF IInv, MediaTypeOK, Owned, Followed
<1> QED BY <1>1, <1>2, Planning

LEMMA Dialling == IInv /\ Dial => IInv'
<1> SUFFICES ASSUME IInv, Dial PROVE IInv'
  OBVIOUS
<1> DEFINE c == [NoCall EXCEPT !.phase = "calling", !.remote = preferred]
<1>1. /\ "out" \in CallEnd /\ GetPipeline("out", c) /\ call["out"].phase = "none"
      /\ UNCHANGED <<pipe, runs, bus, agreed>>
  BY DEF Dial, CallEnd
<1>2. DOMAIN c = CallFields /\ c.phase = "calling"
  BY DEF NoCall, CallFields
<1> HIDE DEF c
<1> QED BY <1>1, <1>2, Getting

LEMMA ComingIn == IInv /\ Incoming => IInv'
<1> SUFFICES ASSUME IInv, Incoming PROVE IInv'
  OBVIOUS
<1> DEFINE common == Common(call["out"].remote)
           c == [NoCall EXCEPT !.phase = IF common = <<>> THEN "over" ELSE "ringing",
                               !.codecs = common, !.remote = call["out"].remote]
<1>1. /\ "in" \in CallEnd /\ GetPipeline("in", c) /\ call["in"].phase = "none"
      /\ UNCHANGED <<pipe, runs, bus, agreed>>
  BY DEF Incoming, CallEnd
<1> HIDE DEF common
<1>2. DOMAIN c = CallFields /\ c.phase \in {"over", "ringing"}
  BY DEF NoCall, CallFields
<1> HIDE DEF c
<1> QED BY <1>1, <1>2, Getting

\* What activating the media of a call does to its pipeline.
Activated(q) ==
  /\ UNCHANGED <<runs, bus>>
  /\ Only(q) /\ Intact(q)'
  /\ pipe'[q].state # "NEED_CODEC"
  /\ pipe[q] = NewPipe =>
       pipe'[q].state = "ERROR" \/ pipe'[q].linked = (IF agreed THEN "srtp" ELSE "plain")
  /\ pipe[q].state # "NEED_CODEC" =>
       pipe'[q].linked = pipe[q].linked /\ (pipe'[q].state = "ERROR" <=> pipe[q].state = "ERROR")
  /\ pipe[q].state \in Stopped => pipe'[q].state \in Stopped

LEMMA Activating ==
  ASSUME IInv, NEW e, NEW c, ActivateMedia(e, c), NEW q \in Pipe, q = c.pipe
  PROVE  Activated(q)
<1> DEFINE w == WithCrypto(pipe[q], agreed)
           codec == c.codecs[1]
<1>1. MediaTypeOK /\ Intact(q)
  BY DEF IInv
<1>2. /\ DOMAIN w = PipeFields /\ w.useSrtp \in BOOLEAN
      /\ w.useSrtp <=> pipe[q].useSrtp \/ agreed
      /\ w.state = pipe[q].state /\ w.linked = pipe[q].linked /\ w.playing = pipe[q].playing
  BY <1>1 DEF MediaTypeOK, PipeFields, WithCrypto
<1>3. PICK r \in WithCodec(w, codec) : pipe' = [pipe EXCEPT ![q] = Started(r)]
  BY DEF ActivateMedia
<1>4. UNCHANGED <<runs, bus>>
  BY DEF ActivateMedia
<1> HIDE DEF w, codec
<1>5. /\ DOMAIN r = PipeFields /\ r.useSrtp = w.useSrtp /\ r.playing = w.playing
      /\ \/ /\ w.state # "NEED_CODEC"
            /\ r.state = w.state /\ r.linked = w.linked
         \/ /\ w.state = "NEED_CODEC"
            /\ r.state = "READY" /\ r.linked = (IF w.useSrtp THEN "srtp" ELSE "plain")
         \/ /\ w.state = "NEED_CODEC"
            /\ r.state = "ERROR" /\ r.linked = w.linked
  BY <1>2, <1>3 DEF WithCodec, Linked, PipeFields
<1>6. /\ DOMAIN pipe' = Pipe
      /\ DOMAIN pipe'[q] = PipeFields
      /\ pipe'[q].useSrtp = r.useSrtp /\ pipe'[q].playing = r.playing /\ pipe'[q].linked = r.linked
      /\ pipe'[q].state = (IF r.state = "READY" THEN "PLAY_PENDING" ELSE r.state)
      /\ \A p \in Pipe \ {q} : pipe'[p] = pipe[p]
  BY <1>1, <1>3, <1>5 DEF MediaTypeOK, PipeFields, Started
<1>7. Only(q)
  BY <1>1, <1>2, <1>4, <1>5, <1>6 DEF Only, MediaTypeOK
<1>8. Quiet(q)'
  BY <1>1, <1>2, <1>4, <1>5, <1>6 DEF Intact, Quiet
<1>9. Told(q)'
  BY <1>1, <1>2, <1>4, <1>5, <1>6 DEF Intact, Told, Stopped
<1>10. Asked(q)'
  BY <1>1, <1>2, <1>5, <1>6 DEF Intact, Asked
<1>11. Plays(q)'
  BY <1>1, <1>2, <1>4, <1>5, <1>6 DEF Intact, Plays, Members
<1>12. /\ pipe'[q].state # "NEED_CODEC"
       /\ pipe[q].state # "NEED_CODEC" =>
            pipe'[q].linked = pipe[q].linked /\ (pipe'[q].state = "ERROR" <=> pipe[q].state = "ERROR")
       /\ pipe[q].state \in Stopped => pipe'[q].state \in Stopped
  BY <1>2, <1>5, <1>6 DEF Stopped
<1>13. pipe[q] = NewPipe =>
         pipe'[q].state = "ERROR" \/ pipe'[q].linked = (IF agreed THEN "srtp" ELSE "plain")
  BY <1>2, <1>5, <1>6 DEF NewPipe
<1> QED BY <1>4, <1>7, <1>8, <1>9, <1>10, <1>11, <1>12, <1>13 DEF Activated, Intact

\* One end of the call goes on with its media; the other end may move on in a
\* phase that comes before that.
GoesOn(e) ==
  /\ call[e].phase \in Early \union {"up"} /\ call'[e].phase = "up"
  /\ UNCHANGED <<pool, made, agreed>>
  /\ DOMAIN call' = CallEnd
  /\ \A d \in CallEnd : DOMAIN call'[d] = CallFields /\ call'[d].pipe = call[d].pipe
  /\ \A d \in CallEnd \ {e} : \/ UNCHANGED call[d].phase
                              \/ call[d].phase \in Early /\ call'[d].phase \in Early

LEMMA Upped ==
  ASSUME IInv, NEW e \in CallEnd, NEW q \in Pipe, q = call[e].pipe, Activated(q), GoesOn(e)
  PROVE  IInv'
<1> USE DEF GoesOn
<1>1. MediaTypeOK /\ Owned /\ Followed /\ EncryptedAsAgreed
  BY DEF IInv
<1>2. q \in Pipe /\ q < made
  BY <1>1 DEF Owned, Early
<1>3. /\ \A p \in Pipe : p # q => pipe'[p] = pipe[p]
      /\ \A d \in CallEnd \ {e} : call[d].phase # "none" => call[d].pipe \in Pipe /\ call[d].pipe # q
  BY <1>1 DEF Activated, Only, Owned, Early
<1>4. MediaTypeOK'
  BY <1>1, <1>2, <1>3 DEF MediaTypeOK, Activated, Only
<1>5. Owned'
  <2>1. ASSUME NEW p \in Pipe, p >= made PROVE pipe'[p] = NewPipe
    BY <1>1, <1>2, <1>3, <2>1 DEF Owned, Pipe, MediaTypeOK
  <2>2. \A d \in CallEnd : call'[d].phase # "none" => call[d].phase # "none"
    BY DEF Early
  <2> QED BY <1>1, <2>1, <2>2 DEF Owned
<1>6. Followed'
  BY <1>1, <1>3 DEF Followed, Activated, Early
<1>7. EncryptedAsAgreed'
  BY <1>1, <1>3 DEF EncryptedAsAgreed, Followed, Activated, Early
<1>8. \A p \in Pipe : Intact(p)'
  BY <1>2, Others DEF Activated
<1> QED BY <1>4, <1>5, <1>6, <1>7, <1>8 DEF IInv

\* The steps that activate media.
Activates ==
  \E e \in CallEnd : GoesOn(e) /\ \E q \in Pipe : q = call[e].pipe /\ Activated(q)

\* The steps that change phases only.
Phases ==
  /\ UNCHANGED <<pipe, runs, bus, pool, made, agreed>>
  /\ DOMAIN call' = CallEnd
  /\ \A d \in CallEnd :
       /\ DOMAIN call'[d] = CallFields /\ call'[d].pipe = call[d].pipe
       /\ \/ UNCHANGED call[d]
          \/ call[d].phase \in Early /\ call'[d].phase \in Early

LEMMA PipeOf ==
  ASSUME IInv, NEW e \in CallEnd, call[e].phase \in Early \union {"up"}
  PROVE  call[e].pipe \in Pipe
BY DEF IInv, Owned, Early

LEMMA Answering == IInv /\ Answered => Activates \/ Phases
<1> SUFFICES ASSUME IInv, Answered PROVE Activates \/ Phases
  OBVIOUS
<1> DEFINE answer == call["in"].codecs
           common == Common(answer)
           c == [call["out"] EXCEPT !.codecs = common, !.remote = answer,
                                    !.phase = IF common = <<>> THEN "refused" ELSE "up"]
<1>1. /\ call["out"].phase = "calling" /\ call["in"].phase = "ringing"
      /\ call' = [call EXCEPT !["out"] = c, !["in"].phase = "answered"]
      /\ IF common = <<>> THEN UNCHANGED <<pipe, runs, bus>> ELSE ActivateMedia("out", c)
      /\ UNCHANGED <<preferred, pool, made, agreed, late, refreshed>>
  BY DEF Answered
<1>2. DOMAIN call = CallEnd /\ \A e \in CallEnd : DOMAIN call[e] = CallFields
  BY DEF IInv, MediaTypeOK
<1> HIDE DEF common, answer
<1>3. /\ DOMAIN c = CallFields /\ c.pipe = call["out"].pipe
      /\ c.phase = IF common = <<>> THEN "refused" ELSE "up"
  BY <1>2 DEF CallFields, CallEnd
<1> HIDE DEF c
<1>4. /\ DOMAIN call' = CallEnd
      /\ call'["out"] = c
      /\ DOMAIN call'["in"] = CallFields /\ call'["in"].phase = "answered"
      /\ call'["in"].pipe = call["in"].pipe
  BY <1>1, <1>2 DEF CallFields, CallEnd
<1>5. CASE common = <<>>
  BY <1>1, <1>3, <1>4, <1>5 DEF Phases, Early, CallEnd
<1>6. CASE common # <<>>
  <2>1. PICK q \in Pipe : q = call["out"].pipe
    BY <1>1, PipeOf DEF Early, CallEnd
  <2>2. Activated(q)
    BY <1>1, <1>3, <1>6, <2>1, Activating
  <2> QED BY <1>1, <1>3, <1>4, <1>6, <2>1, <2>2 DEF Activates, GoesOn, Early, CallEnd
<1> QED BY <1>5, <1>6

LEMMA Acknowledging == IInv /\ Acknowledged => Activates
<1> SUFFICES ASSUME IInv, Acknowledged PROVE Activates
  OBVIOUS
<1>1. /\ call["in"].phase = "answered" /\ "in" \in CallEnd
      /\ call' = [call EXCEPT !["in"].phase = "up"]
      /\ ActivateMedia("in", call["in"])
      /\ UNCHANGED <<preferred, pool, made, agreed, late, refreshed>>
  BY DEF Acknowledged, CallEnd
<1>2. DOMAIN call = CallEnd /\ \A e \in CallEnd : DOMAIN call[e] = CallFields
  BY DEF IInv, MediaTypeOK
<1>3. PICK q \in Pipe : q = call["in"].pipe
  BY <1>1, PipeOf DEF Early
<1>4. Activated(q)
  BY <1>1, <1>3, Activating
<1> QED BY <1>1, <1>2, <1>3, <1>4 DEF Activates, GoesOn, Early, CallFields, CallEnd

LEMMA Refreshing ==
  ASSUME IInv, NEW e \in CallEnd, Refresh(e)
  PROVE  Activates \/ Phases
<1> DEFINE common == Common(call[e].remote)
           c == [call[e] EXCEPT !.codecs = common]
<1>1. /\ call[e].phase = "up"
      /\ IF common = <<>>
           THEN UNCHANGED <<call, pipe, runs, bus>>
           ELSE call' = [call EXCEPT ![e] = c] /\ ActivateMedia(e, c)
      /\ UNCHANGED <<preferred, pool, made, agreed, late>>
  BY DEF Refresh
<1>2. DOMAIN call = CallEnd /\ \A d \in CallEnd : DOMAIN call[d] = CallFields
  BY DEF IInv, MediaTypeOK
<1> HIDE DEF common
<1>3. DOMAIN c = CallFields /\ c.pipe = call[e].pipe /\ c.phase = "up"
  BY <1>1, <1>2 DEF CallFields
<1> HIDE DEF c
<1>4. CASE common = <<>>
  BY <1>1, <1>2, <1>4 DEF Phases
<1>5. CASE common # <<>>
  <2>1. PICK q \in Pipe : q = call[e].pipe
    BY <1>1, PipeOf
  <2>2. Activated(q)
    BY <1>1, <1>3, <1>5, <2>1, Activating
  <2>3. call' = [call EXCEPT ![e] = c]
    BY <1>1, <1>5
  <2> QED BY <1>1, <1>2, <1>3, <2>1, <2>2, <2>3 DEF Activates, GoesOn
<1> QED BY <1>4, <1>5

LEMMA Calling == IInv /\ (Activates \/ Phases) => IInv'
<1>1. ASSUME IInv, Activates PROVE IInv'
  <2>1. PICK e \in CallEnd, q \in Pipe : GoesOn(e) /\ q = call[e].pipe /\ Activated(q)
    BY <1>1 DEF Activates
  <2> QED BY <1>1, <2>1, Upped
<1>2. ASSUME IInv, Phases PROVE IInv'
  <2>1. MediaTypeOK /\ Owned /\ Followed
    BY <1>2 DEF IInv
  <2>2. MediaTypeOK'
    BY <1>2, <2>1 DEF Phases, MediaTypeOK
  <2>3. Owned'
    BY <1>2, <2>1 DEF Phases, Owned, Early
  <2>4. Followed'
    BY <1>2, <2>1 DEF Phases, Followed, Early
  <2> QED BY <1>2, <2>2, <2>3, <2>4, Planning DEF Phases, Early
<1> QED BY <1>1, <1>2

LEMMA Terminating ==
  ASSUME IInv, NEW e \in CallEnd, Terminated(e)
  PROVE  IInv'
<1>1. MediaTypeOK /\ Owned /\ Followed /\ EncryptedAsAgreed
  BY DEF IInv
<1> PICK p \in Pipe : p = call[e].pipe
  BY <1>1 DEF Owned, Terminated
<1>2. /\ call[e].phase \notin {"none", "over"}
      /\ call' = [call EXCEPT ![e] = [NoCall EXCEPT !.phase = "over", !.pipe = p]]
      /\ pipe' = [pipe EXCEPT ![p] = [NewPipe EXCEPT !.state = "STOP_PENDING"]]
      /\ runs' = [runs EXCEPT ![p] = AtRest]
      /\ bus' = [bus EXCEPT ![p] = <<>>]
      /\ UNCHANGED <<pool, made, agreed>>
  BY DEF Terminated, StopElements, AtRest
<1>3. /\ p \in Pipe /\ p < made
      /\ \A d \in CallEnd \ {e} : call[d].phase # "none" => call[d].pipe \in Pipe /\ call[d].pipe # p
  BY <1>1, <1>2 DEF Owned
<1>4. /\ DOMAIN call' = CallEnd /\ DOMAIN call'[e] = CallFields
      /\ call'[e].phase = "over" /\ call'[e].pipe = p
      /\ \A d \in CallEnd \ {e} : call'[d] = call[d]
  BY <1>1, <1>2 DEF MediaTypeOK, NoCall, CallFields
<1>5. /\ pipe'[p].state = "STOP_PENDING" /\ pipe'[p].linked = "none"
      /\ pipe'[p].useSrtp = FALSE /\ DOMAIN pipe'[p] = PipeFields
      /\ runs'[p] = AtRest /\ bus'[p] = <<>>
      /\ DOMAIN pipe' = Pipe
  BY <1>1, <1>2, <1>3 DEF MediaTypeOK, NewPipe, PipeFields
<1>6. Only(p)
  <2>1. <<>> \in Seq(Elements \X {"PLAYING", "EOS"}) /\ AtRest \in [Elements -> {"NULL", "PLAYING"}]
    BY DEF AtRest
  <2> QED BY <1>1, <1>2, <1>3, <1>5, <2>1 DEF Only, MediaTypeOK
<1>7. Intact(p)'
  <2>1. DOMAIN <<>> = {}
    OBVIOUS
  <2> QED BY <1>5, <2>1 DEF Intact, Quiet, Told, Asked, Plays, Stopped
<1>8. MediaTypeOK'
  BY <1>1, <1>2, <1>4, <1>6 DEF MediaTypeOK, Only
<1>9. Owned'
  <2>1. ASSUME NEW q \in Pipe, q >= made PROVE pipe'[q] = NewPipe
    BY <1>1, <1>3, <1>6, <2>1 DEF Owned, Only, Pipe, MediaTypeOK
  <2> QED BY <1>1, <1>2, <1>3, <1>4, <2>1 DEF Owned
<1>10. Followed' /\ EncryptedAsAgreed'
  BY <1>1, <1>2, <1>3, <1>4, <1>6 DEF Followed, EncryptedAsAgreed, Only, Early
<1> QED BY <1>3, <1>6, <1>7, <1>8, <1>9, <1>10, Others DEF IInv

-----------------------------------------------------------------------------
(* The theorems. *)

LEMMA Start == MediaInit => IInv
<1> SUFFICES ASSUME MediaInit PROVE IInv
  OBVIOUS
<1>1. /\ 1 \in Pipe /\ DOMAIN <<>> = {}
      /\ <<>> \in Seq(Elements \X {"PLAYING", "EOS"})
      /\ AtRest \in [Elements -> {"NULL", "PLAYING"}]
  BY MediaAssumption DEF Pipe, AtRest
<1>2. /\ \A p \in Pipe : pipe[p] = NewPipe /\ runs[p] = AtRest /\ bus[p] = <<>>
      /\ \A e \in CallEnd : call[e] = NoCall
  BY DEF MediaInit, AtRest
<1>3. MediaTypeOK
  BY <1>1 DEF MediaInit, MediaTypeOK, NewPipe, PipeFields, NoCall, CallFields, AtRest
<1>4. Owned /\ Followed /\ EncryptedAsAgreed
  BY <1>2 DEF Owned, Followed, EncryptedAsAgreed, NoCall, Early
<1>5. \A p \in Pipe : Intact(p)
  BY <1>1, <1>2 DEF Intact, Quiet, Told, Asked, Plays, NewPipe
<1> QED BY <1>3, <1>4, <1>5 DEF IInv

LEMMA Step == IInv /\ [MediaNext]_mediaVars => IInv'
<1> SUFFICES ASSUME IInv, [MediaNext]_mediaVars PROVE IInv'
  OBVIOUS
<1>1. CASE PreferCodecs \/ Dial \/ Incoming
  BY <1>1, Preferring, Dialling, ComingIn
<1>2. CASE Answered \/ Acknowledged
  BY <1>2, Answering, Acknowledging, Calling
<1>3. ASSUME NEW e \in CallEnd, Refresh(e) \/ Terminated(e) PROVE IInv'
  BY <1>3, Refreshing, Calling, Terminating
<1>4. ASSUME NEW p \in Lively, PipeSteps(p) \/ StreamEnds(p) PROVE IInv'
  BY <1>4, MediaAssumption, ElementRunning, StreamEnding, Dispatching DEF PipeSteps
<1>5. CASE UNCHANGED mediaVars
  <2>1. UNCHANGED <<pipe, runs, bus, agreed, call, pool, made>>
    BY <1>5 DEF mediaVars
  <2>2. MediaTypeOK' /\ Owned' /\ Followed'
    BY <2>1 DEF IInv, MediaTypeOK, Owned, Followed
  <2> QED BY <2>1, <2>2, Planning
<1> QED BY <1>1, <1>2, <1>3, <1>4, <1>5 DEF MediaNext

THEOREM Invariance == MediaSpec => []IInv
BY Start, Step, PTL DEF MediaSpec

\* However the negotiation, the answers and the refreshments mix, a call whose
\* media runs is encrypted exactly if its keys were agreed upon (set_crypto,
\* set_codec, request_encoder), with any number of pipelines and codecs.
THEOREM Encrypted == MediaSpec => []EncryptedAsAgreed
<1>1. IInv => EncryptedAsAgreed
  BY DEF IInv
<1> QED BY <1>1, Invariance, PTL

\* A pipeline that says it plays has no element that does not, in whatever order
\* the messages of its elements came (check_element_maps).
THEOREM PlayingTrue == MediaSpec => []PlayingIsTrue
<1>1. IInv => PlayingIsTrue
  BY DEF IInv, Intact, Plays, PlayingIsTrue
<1> QED BY <1>1, Invariance, PTL

\* What a step does to pipelines that were stopped.
LEMMA Final ==
  ASSUME IInv, [MediaNext]_mediaVars
  PROVE  \A p \in Pipe : pipe[p].state \in Stopped => pipe'[p].state \in Stopped
<1>1. CASE UNCHANGED pipe
  BY <1>1
<1>2. CASE Activates
  BY <1>2, PipeOf DEF Activates, GoesOn, Activated, Only
<1>3. ASSUME NEW e \in CallEnd, Terminated(e)
      PROVE  \A p \in Pipe : pipe[p].state \in Stopped => pipe'[p].state \in Stopped
  <2>1. /\ pipe' = [pipe EXCEPT ![call[e].pipe] = [NewPipe EXCEPT !.state = "STOP_PENDING"]]
        /\ DOMAIN pipe = Pipe
    BY <1>3 DEF Terminated, IInv, MediaTypeOK
  <2> QED BY <2>1 DEF NewPipe, Stopped
<1>4. ASSUME NEW q \in Lively, BusMessage(q)
      PROVE  \A p \in Pipe : pipe[p].state \in Stopped => pipe'[p].state \in Stopped
  <2>1. q \in Pipe /\ DOMAIN pipe = Pipe /\ pipe[q].state \notin Stopped
    BY <1>4, MediaAssumption DEF BusMessage, IInv, MediaTypeOK, Intact, Quiet, Stopped
  <2>2. \A p \in Pipe \ {q} : pipe'[p] = pipe[p]
    BY <1>4, <2>1 DEF BusMessage, Stop
  <2> QED BY <2>1, <2>2
<1>5. PreferCodecs \/ Dial \/ Incoming => UNCHANGED pipe
  BY DEF PreferCodecs, Dial, Incoming
<1>6. \A q \in Lively : (\E el \in Elements : ElementRuns(q, el)) \/ StreamEnds(q) => UNCHANGED pipe
  BY DEF ElementRuns, StreamEnds
<1>7. UNCHANGED mediaVars \/ Phases => UNCHANGED pipe
  BY DEF mediaVars, Phases
<1> QED BY <1>1, <1>2, <1>3, <1>4, <1>5, <1>6, <1>7, Answering, Acknowledging, Refreshing
        DEF MediaNext, PipeSteps

\* A pipeline that was stopped never plays again: neither a refreshed session nor
\* a message of its elements that was still on the way revives it.
THEOREM Stops == MediaSpec => StopIsFinal
<1>1. IInv /\ [MediaNext]_mediaVars =>
        [\A p \in Pipe : pipe[p].state \in Stopped => pipe'[p].state \in Stopped]_mediaVars
  BY Final
<1> QED BY <1>1, Invariance, PTL DEF MediaSpec, StopIsFinal

-----------------------------------------------------------------------------
(* The codecs of the two ends.  What Kept() computes is shown by induction  *)
(* on sets of natural numbers.                                              *)

\* Every set of natural numbers has a least one, if any.
LEMMA LeastNumber ==
  ASSUME NEW S, S \subseteq Nat, S # {}
  PROVE  \E x \in S : \A y \in S : x <= y
<1>1. \E x \in S : \A y \in S : ~ <<y, x>> \in OpToRel(<, Nat)
  BY NatLessThanWellFounded, WFMin
<1>2. ASSUME NEW x \in S, NEW y \in S, ~ <<y, x>> \in OpToRel(<, Nat) PROVE x <= y
  BY <1>2 DEF OpToRel
<1> QED BY <1>1, <1>2

LEMMA Induction ==
  ASSUME NEW S, 0 \in S, \A n \in S : n \in Nat => n + 1 \in S
  PROVE  Nat \subseteq S
<1> SUFFICES ASSUME NEW n \in Nat \ S PROVE FALSE
  OBVIOUS
<1>1. PICK x \in Nat \ S : \A y \in Nat \ S : x <= y
  BY LeastNumber
<1>2. x # 0 /\ x - 1 \in Nat
  BY <1>1
<1>3. x - 1 \in S
  BY <1>1, <1>2
<1> QED BY <1>1, <1>2, <1>3

\* f is how Kept() proceeds through the first n of s.
Keeps(f, s, C, n) ==
  f = [m \in 0..n |-> IF m = 0 THEN <<>>
                      ELSE IF s[m] \in C THEN Append(f[m - 1], s[m]) ELSE f[m - 1]]

LEMMA KeepsOn ==
  ASSUME NEW s, Len(s) \in Nat, NEW C
  PROVE  \E f : Keeps(f, s, C, Len(s)) /\ Kept(s, C) = f[Len(s)]
<1> DEFINE D == {n \in Nat : \E f : Keeps(f, s, C, n)}
<1>1. 0 \in D
  <2>1. Keeps([m \in 0..0 |-> <<>>], s, C, 0)
    BY DEF Keeps
  <2> QED BY <2>1
<1>2. ASSUME NEW n \in D PROVE n + 1 \in D
  <2>1. PICK f : Keeps(f, s, C, n)
    OBVIOUS
  <2>2. PICK x : x = IF s[n + 1] \in C THEN Append(f[n], s[n + 1]) ELSE f[n]
    OBVIOUS
  <2>3. PICK g : g = [m \in 0..(n + 1) |-> IF m = n + 1 THEN x ELSE f[m]]
    OBVIOUS
  <2>4. \A m \in 0..n : f[m] = IF m = 0 THEN <<>> ELSE IF s[m] \in C THEN Append(f[m - 1], s[m]) ELSE f[m - 1]
    BY <2>1 DEF Keeps
  <2>5. \A m \in 0..(n + 1) : g[m] = IF m = 0 THEN <<>> ELSE IF s[m] \in C THEN Append(g[m - 1], s[m]) ELSE g[m - 1]
    <3> TAKE m \in 0..(n + 1)
    <3>1. CASE m = n + 1
      BY <2>2, <2>3, <3>1
    <3>2. CASE m # n + 1
      BY <2>3, <2>4, <3>2
    <3> QED BY <3>1, <3>2
  <2>6. g = [m \in 0..(n + 1) |-> g[m]]
    BY <2>3
  <2>7. Keeps(g, s, C, n + 1)
    BY <2>5, <2>6 DEF Keeps
  <2> QED BY <2>7
<1>3. Nat \subseteq D
  <2> HIDE DEF D
  <2> QED BY <1>1, <1>2, Induction
<1>4. \E f : Keeps(f, s, C, Len(s))
  BY <1>3
<1>5. PICK f : f = CHOOSE h : Keeps(h, s, C, Len(s))
  OBVIOUS
<1>6. Kept(s, C) = f[Len(s)]
  BY <1>5 DEF Kept, Keeps
<1> QED BY <1>4, <1>5, <1>6

\* What is kept is of C, and if all is, all is kept.
LEMMA KeptOf ==
  ASSUME NEW s \in Seq(Codec), NEW C
  PROVE  /\ Kept(s, C) \in Seq(Codec \intersect C)
         /\ s \in Seq(C) => Kept(s, C) = s
<1>1. Len(s) \in Nat
  OBVIOUS
<1>2. PICK f : Keeps(f, s, C, Len(s)) /\ Kept(s, C) = f[Len(s)]
  BY <1>1, KeepsOn
<1>3. \A m \in 0..Len(s) : f[m] = IF m = 0 THEN <<>> ELSE IF s[m] \in C THEN Append(f[m - 1], s[m]) ELSE f[m - 1]
  BY <1>2 DEF Keeps
<1>4. f[Len(s)] \in Seq(Codec \intersect C)
  <2>1. PICK E : E = Codec \intersect C
    OBVIOUS
  <2> DEFINE D == {n \in Nat : n <= Len(s) => f[n] \in Seq(E)}
  <2>2. 0 \in D
    <3>1. 0 \in 0..Len(s) /\ <<>> \in Seq(E)
      BY <1>1
    <3>2. f[0] = <<>>
      BY <1>3, <3>1
    <3> QED BY <3>1, <3>2
  <2>3. ASSUME NEW n \in D PROVE n + 1 \in D
    <3> SUFFICES ASSUME n + 1 <= Len(s) PROVE f[n + 1] \in Seq(E)
      OBVIOUS
    <3>1. /\ n + 1 \in 0..Len(s) /\ n + 1 # 0 /\ (n + 1) - 1 = n /\ f[n] \in Seq(E)
          /\ s[n + 1] \in C => s[n + 1] \in E
      BY <2>1
    <3>2. f[n + 1] = IF s[n + 1] \in C THEN Append(f[n], s[n + 1]) ELSE f[n]
      BY <1>3, <3>1
    <3> QED BY <3>1, <3>2
  <2>4. Nat \subseteq D
    <3> HIDE DEF D
    <3> QED BY <2>2, <2>3, Induction
  <2> QED BY <1>1, <2>1, <2>4
<1>5. ASSUME s \in Seq(C) PROVE f[Len(s)] = s
  <2> DEFINE D == {n \in Nat : n <= Len(s) => f[n] = [i \in 1..n |-> s[i]]}
  <2>1. 0 \in D
    BY <1>3
  <2>2. ASSUME NEW n \in D PROVE n + 1 \in D
    <3> SUFFICES ASSUME n + 1 <= Len(s) PROVE f[n + 1] = [i \in 1..(n + 1) |-> s[i]]
      OBVIOUS
    <3>1. n + 1 \in 0..Len(s) /\ n + 1 # 0 /\ (n + 1) - 1 = n /\ f[n] = [i \in 1..n |-> s[i]] /\ s[n + 1] \in C
      BY <1>5
    <3>2. f[n + 1] = Append([i \in 1..n |-> s[i]], s[n + 1])
      BY <1>3, <3>1
    <3> QED BY <3>2
  <2>3. Nat \subseteq D
    <3> HIDE DEF D
    <3> QED BY <2>1, <2>2, Induction
  <2>4. f[Len(s)] = [i \in 1..Len(s) |-> s[i]]
    BY <1>1, <2>3
  <2> QED BY <2>4
<1> QED BY <1>2, <1>4, <1>5

LEMMA KeptTwice ==
  ASSUME NEW s \in Seq(Codec), NEW C
  PROVE  Kept(Kept(s, C), C) = Kept(s, C)
<1>1. Kept(s, C) \in Seq(Codec \intersect C)
  BY KeptOf
<1>2. Kept(s, C) \in Seq(Codec) /\ Kept(s, C) \in Seq(C)
  BY <1>1
<1> QED BY <1>2, KeptOf

Talking == {"ringing", "answered", "up"}

\* Call c has the codecs that its peer's description and the preference have in
\* common, and its pipeline p the first of them.
Chosen(c, p) ==
  /\ c.phase \in Talking => c.codecs = Common(c.remote)
  /\ c.phase = "up" => p.state = "ERROR" \/ p.codec = c.codecs[1]

\* While the preference is what it was when the offer was looked at, both ends
\* have the same codecs.
CodecsFit ==
  /\ preferred \in Seq(Codec)
  /\ \A e \in CallEnd :
       /\ call[e].remote \in Seq(Codec) /\ call[e].codecs \in Seq(Codec)
       /\ call[e].phase \in Talking => call[e].codecs # <<>>
  /\ ~late =>
       /\ \A e \in CallEnd : Chosen(call[e], pipe[call[e].pipe])
       /\ call["in"].phase \in Talking /\ call["out"].phase = "up" =>
            call["out"].codecs = call["in"].codecs

LEMMA CommonOf ==
  ASSUME NEW s \in Seq(Codec)
  PROVE  /\ Common(s) \in Seq(Codec)
         /\ Common(Common(s)) = Common(s)
<1>1. PICK C : C = {preferred[i] : i \in DOMAIN preferred}
  OBVIOUS
<1>2. Kept(s, C) \in Seq(Codec \intersect C) /\ Kept(Kept(s, C), C) = Kept(s, C)
  BY KeptOf, KeptTwice
<1>3. Kept(s, C) \in Seq(Codec)
  BY <1>2
<1> QED BY <1>1, <1>2, <1>3 DEF Common

LEMMA CommonStays ==
  ASSUME UNCHANGED preferred, NEW s
  PROVE  Common(s)' = Common(s)
BY DEF Common

\* What a step that activates media does to the codec of the pipeline.
LEMMA CodecSet ==
  ASSUME IInv, NEW e, NEW c, ActivateMedia(e, c), NEW q \in Pipe, q = c.pipe
  PROVE  /\ \A p \in Pipe \ {q} : pipe'[p] = pipe[p]
         /\ pipe[q] = NewPipe => pipe'[q].state = "ERROR" \/ pipe'[q].codec = c.codecs[1]
         /\ pipe[q].state # "NEED_CODEC" =>
              /\ pipe'[q].codec = pipe[q].codec
              /\ pipe[q].state = "ERROR" => pipe'[q].state = "ERROR"
<1> DEFINE w == WithCrypto(pipe[q], agreed)
           codec == c.codecs[1]
<1>1. DOMAIN pipe = Pipe /\ DOMAIN pipe[q] = PipeFields
  BY DEF IInv, MediaTypeOK
<1>2. DOMAIN w = PipeFields /\ w.state = pipe[q].state /\ w.codec = pipe[q].codec
  BY <1>1 DEF PipeFields, WithCrypto
<1>3. PICK r \in WithCodec(w, codec) : pipe' = [pipe EXCEPT ![q] = Started(r)]
  BY DEF ActivateMedia
<1> HIDE DEF w
<1>4. /\ DOMAIN r = PipeFields
      /\ \/ w.state # "NEED_CODEC" /\ r.state = w.state /\ r.codec = w.codec
         \/ w.state = "NEED_CODEC" /\ (r.state = "ERROR" \/ r.codec = codec)
  BY <1>2, <1>3 DEF WithCodec, Linked, PipeFields
<1>5. /\ \A p \in Pipe \ {q} : pipe'[p] = pipe[p]
      /\ pipe'[q].codec = r.codec /\ (r.state = "ERROR" => pipe'[q].state = "ERROR")
  BY <1>1, <1>3, <1>4 DEF PipeFields, Started
<1> QED BY <1>2, <1>4, <1>5 DEF NewPipe

\* The state and the codec of the pipelines of calls that go on are as before.
LEMMA CodecsStay ==
  ASSUME CodecsFit, UNCHANGED <<preferred, late, call>>,
         \A e \in CallEnd : call[e].phase = "up" =>
           /\ pipe'[call[e].pipe].codec = pipe[call[e].pipe].codec
           /\ pipe[call[e].pipe].state = "ERROR" => pipe'[call[e].pipe].state = "ERROR"
  PROVE  CodecsFit'
<1>1. \A s : Common(s)' = Common(s)
  BY CommonStays
<1>2. ~late => \A e \in CallEnd : Chosen(call[e], pipe[call[e].pipe])'
  BY <1>1 DEF CodecsFit, Chosen
<1> QED BY <1>2 DEF CodecsFit

LEMMA CodecsOfPipes ==
  ASSUME IInv, CodecsFit, NEW p \in Pipe, PipeSteps(p) \/ StreamEnds(p)
  PROVE  CodecsFit'
<1>1. /\ UNCHANGED <<preferred, late, call>>
      /\ UNCHANGED pipe \/ BusMessage(p)
  BY DEF PipeSteps, BusMessage, ElementRuns, StreamEnds
<1>2. DOMAIN pipe = Pipe /\ DOMAIN pipe[p] = PipeFields /\ Intact(p)
  BY DEF IInv, MediaTypeOK
<1>3. ASSUME BusMessage(p)
      PROVE  /\ pipe'[p].codec = pipe[p].codec
             /\ pipe[p].state # "ERROR"
             /\ \A q \in Pipe \ {p} : pipe'[q] = pipe[q]
  <2>1. PICK b, s : pipe' = [pipe EXCEPT ![p].state = s] \/ pipe' = [pipe EXCEPT ![p].playing = b, ![p].state = s]
    BY <1>3 DEF BusMessage, Stop
  <2>2. pipe[p].state # "ERROR"
    BY <1>2, <1>3 DEF Intact, Quiet, BusMessage
  <2> QED BY <1>2, <2>1, <2>2 DEF PipeFields
<1>4. \A e \in CallEnd : call[e].phase = "up" => call[e].pipe \in Pipe
  BY PipeOf
<1> QED BY <1>1, <1>3, <1>4, CodecsStay

LEMMA CodecsPreferred ==
  ASSUME CodecsFit, PreferCodecs
  PROVE  CodecsFit'
<1>1. /\ UNCHANGED <<pipe, call>>
      /\ late' <=> (late \/ \E e \in CallEnd : call[e].codecs # <<>>)
      /\ preferred' \in Orders
  BY DEF PreferCodecs
<1>2. preferred' \in Seq(Codec)
  BY <1>1 DEF Orders
<1>3. ~late' => \A e \in CallEnd : call[e].phase \notin Talking
  BY <1>1 DEF CodecsFit
<1> QED BY <1>1, <1>2, <1>3 DEF CodecsFit, Chosen, Talking, CallEnd

LEMMA CodecsDialled ==
  ASSUME IInv, CodecsFit, Dial
  PROVE  CodecsFit'
<1> DEFINE c == [NoCall EXCEPT !.phase = "calling", !.remote = preferred]
<1>1. /\ UNCHANGED <<preferred, late, pipe>>
      /\ call' = [call EXCEPT !["out"] = [c EXCEPT !.pipe = Head(pool)]]
  BY DEF Dial, GetPipeline
<1>2. DOMAIN call = CallEnd
  BY DEF IInv, MediaTypeOK
<1>3. /\ call'["out"].phase = "calling" /\ call'["out"].remote = preferred /\ call'["out"].codecs = <<>>
      /\ call'["in"] = call["in"]
  BY <1>1, <1>2 DEF NoCall, CallEnd
<1>4. \A s : Common(s)' = Common(s)
  BY <1>1, CommonStays
<1>5. <<>> \in Seq(Codec)
  OBVIOUS
<1> QED BY <1>1, <1>3, <1>4, <1>5 DEF CodecsFit, Chosen, Talking, CallEnd

LEMMA CodecsOffered ==
  ASSUME IInv, CodecsFit, Incoming
  PROVE  CodecsFit'
<1> DEFINE remote == call["out"].remote
           common == Common(remote)
           c == [NoCall EXCEPT !.phase = IF common = <<>> THEN "over" ELSE "ringing",
                               !.codecs = common, !.remote = remote]
<1>1. /\ UNCHANGED <<preferred, late, pipe>>
      /\ call["out"].phase = "calling"
      /\ call' = [call EXCEPT !["in"] = [c EXCEPT !.pipe = Head(pool)]]
  BY DEF Incoming, GetPipeline
<1>2. DOMAIN call = CallEnd /\ remote \in Seq(Codec)
  BY DEF IInv, MediaTypeOK, CodecsFit, CallEnd
<1>3. common \in Seq(Codec)
  BY <1>2, CommonOf
<1>4. /\ call'["in"].phase = (IF common = <<>> THEN "over" ELSE "ringing")
      /\ call'["in"].remote = remote /\ call'["in"].codecs = common
      /\ call'["out"] = call["out"]
  <2> HIDE DEF common, remote
  <2> QED BY <1>1, <1>2 DEF NoCall, CallEnd
<1>5. \A s : Common(s)' = Common(s)
  BY <1>1, CommonStays
<1>6. ~late => \A e \in CallEnd : Chosen(call[e], pipe[call[e].pipe])'
  BY <1>1, <1>4, <1>5 DEF CodecsFit, Chosen, Talking, CallEnd
<1> HIDE DEF common, remote
<1> QED BY <1>1, <1>2, <1>3, <1>4, <1>6 DEF CodecsFit, Talking, CallEnd

LEMMA CodecsAnswered ==
  ASSUME IInv, CodecsFit, Answered
  PROVE  CodecsFit'
<1> DEFINE answer == call["in"].codecs
           common == Common(answer)
           c == [call["out"] EXCEPT !.codecs = common, !.remote = answer,
                                    !.phase = IF common = <<>> THEN "refused" ELSE "up"]
<1>1. /\ call["out"].phase = "calling" /\ call["in"].phase = "ringing"
      /\ UNCHANGED <<preferred, late>>
      /\ call' = [call EXCEPT !["out"] = c, !["in"].phase = "answered"]
      /\ IF common = <<>> THEN UNCHANGED <<pipe, runs, bus>> ELSE ActivateMedia("out", c)
  BY DEF Answered
<1>2. /\ DOMAIN call = CallEnd /\ \A e \in CallEnd : DOMAIN call[e] = CallFields
      /\ answer \in Seq(Codec) /\ call["in"].remote \in Seq(Codec)
  BY DEF IInv, MediaTypeOK, CodecsFit, CallEnd
<1>3. common \in Seq(Codec)
  BY <1>2, CommonOf
<1>4. ~late => answer = Common(call["in"].remote) /\ answer # <<>>
  BY <1>1 DEF CodecsFit, Chosen, Talking, CallEnd
<1>5. ~late => common = answer
  BY <1>2, <1>4, CommonOf
<1>6. \A s : Common(s)' = Common(s)
  BY <1>1, CommonStays
<1> HIDE DEF common
<1>7. /\ c.pipe = call["out"].pipe /\ c.codecs = common /\ c.remote = answer
      /\ c.phase = (IF common = <<>> THEN "refused" ELSE "up")
  BY <1>2 DEF CallFields, CallEnd
<1> HIDE DEF c
<1>8. /\ call'["out"] = c
      /\ call'["in"].phase = "answered" /\ call'["in"].remote = call["in"].remote
      /\ call'["in"].codecs = answer
  BY <1>1, <1>2 DEF CallFields, CallEnd
<1>9. ~late => Chosen(call["in"], pipe[call["in"].pipe])'
  BY <1>4, <1>6, <1>8 DEF Chosen
<1>10. ~late => Chosen(call["out"], pipe[call["out"].pipe])'
  <2> SUFFICES ASSUME ~late PROVE Chosen(call["out"], pipe[call["out"].pipe])'
    OBVIOUS
  <2>1. PICK q \in Pipe : q = call["out"].pipe
    BY <1>1, PipeOf DEF Early, CallEnd
  <2>2. pipe[q] = NewPipe
    BY <1>1, <2>1 DEF IInv, Followed, Early, CallEnd
  <2>3. ActivateMedia("out", c)
    BY <1>1, <1>4, <1>5
  <2>4. pipe'[q].state = "ERROR" \/ pipe'[q].codec = c.codecs[1]
    BY <1>7, <2>1, <2>2, <2>3, CodecSet
  <2>5. c.codecs = Common(c.remote)
    BY <1>4, <1>5, <1>7 DEF common
  <2> QED BY <1>6, <1>7, <1>8, <2>1, <2>4, <2>5 DEF Chosen
<1> QED BY <1>1, <1>2, <1>3, <1>4, <1>5, <1>7, <1>8, <1>9, <1>10 DEF CodecsFit, Talking, CallEnd

LEMMA CodecsAcknowledged ==
  ASSUME IInv, CodecsFit, Acknowledged
  PROVE  CodecsFit'
<1>1. /\ call["in"].phase = "answered" /\ "in" \in CallEnd /\ "out" \in CallEnd
      /\ call' = [call EXCEPT !["in"].phase = "up"]
      /\ ActivateMedia("in", call["in"])
      /\ UNCHANGED <<preferred, late>>
  BY DEF Acknowledged, CallEnd
<1>2. DOMAIN call = CallEnd /\ \A e \in CallEnd : DOMAIN call[e] = CallFields
  BY DEF IInv, MediaTypeOK
<1>3. /\ call'["in"].phase = "up" /\ call'["in"].pipe = call["in"].pipe
      /\ call'["in"].remote = call["in"].remote /\ call'["in"].codecs = call["in"].codecs
      /\ call'["out"] = call["out"]
  BY <1>1, <1>2 DEF CallFields, CallEnd
<1>4. PICK q \in Pipe : q = call["in"].pipe
  BY <1>1, PipeOf DEF Early
<1>5. pipe[q] = NewPipe
  BY <1>1, <1>4 DEF IInv, Followed, Early
<1>6. /\ pipe'[q].state = "ERROR" \/ pipe'[q].codec = call["in"].codecs[1]
      /\ \A p \in Pipe \ {q} : pipe'[p] = pipe[p]
  BY <1>1, <1>4, <1>5, CodecSet
<1>7. call["out"].phase = "up" => call["out"].pipe \in Pipe \ {q}
  BY <1>1, <1>4, PipeOf DEF IInv, Owned
<1>8. \A s : Common(s)' = Common(s)
  BY <1>1, CommonStays
<1>9. ~late => Chosen(call["in"], pipe[call["in"].pipe])'
  BY <1>1, <1>3, <1>4, <1>6, <1>8 DEF CodecsFit, Chosen, Talking
<1>10. ~late => Chosen(call["out"], pipe[call["out"].pipe])'
  BY <1>1, <1>3, <1>6, <1>7, <1>8 DEF CodecsFit, Chosen, Talking
<1> QED BY <1>1, <1>3, <1>9, <1>10 DEF CodecsFit, Talking, CallEnd

LEMMA CodecsRefreshed ==
  ASSUME IInv, CodecsFit, NEW e \in CallEnd, Refresh(e)
  PROVE  CodecsFit'
<1> DEFINE common == Common(call[e].remote)
           c == [call[e] EXCEPT !.codecs = common]
<1>1. /\ call[e].phase = "up"
      /\ IF common = <<>>
           THEN UNCHANGED <<call, pipe, runs, bus>>
           ELSE call' = [call EXCEPT ![e] = c] /\ ActivateMedia(e, c)
      /\ UNCHANGED <<preferred, late>>
  BY DEF Refresh
<1>2. CASE common = <<>>
  BY <1>1, <1>2, CodecsStay
<1>3. CASE common # <<>>
  <2>1. /\ DOMAIN call = CallEnd /\ \A d \in CallEnd : DOMAIN call[d] = CallFields
        /\ call[e].remote \in Seq(Codec)
    BY DEF IInv, MediaTypeOK, CodecsFit
  <2>2. common \in Seq(Codec)
    BY <2>1, CommonOf
  <2>3. ~late => common = call[e].codecs
    BY <1>1 DEF CodecsFit, Chosen, Talking
  <2>4. call' = [call EXCEPT ![e] = c] /\ ActivateMedia(e, c)
    BY <1>1, <1>3
  <2> HIDE DEF common
  <2>5. /\ c.phase = "up" /\ c.pipe = call[e].pipe /\ c.remote = call[e].remote /\ c.codecs = common
    BY <1>1, <2>1 DEF CallFields
  <2> HIDE DEF c
  <2>6. call'[e] = c /\ \A d \in CallEnd \ {e} : call'[d] = call[d]
    BY <2>1, <2>4
  <2>7. PICK q \in Pipe : q = call[e].pipe
    BY <1>1, PipeOf
  <2>8. /\ pipe[q].state # "NEED_CODEC"
        /\ \A d \in CallEnd \ {e} : call[d].phase = "up" => call[d].pipe \in Pipe \ {q}
    BY <1>1, <2>7, PipeOf DEF IInv, Owned, Followed
  <2>9. /\ pipe'[q].codec = pipe[q].codec /\ (pipe[q].state = "ERROR" => pipe'[q].state = "ERROR")
        /\ \A p \in Pipe \ {q} : pipe'[p] = pipe[p]
    BY <2>4, <2>5, <2>7, <2>8, CodecSet
  <2>10. \A s : Common(s)' = Common(s)
    BY <1>1, CommonStays
  <2>11. ASSUME NEW d \in CallEnd, ~late PROVE Chosen(call[d], pipe[call[d].pipe])'
    <3>1. Chosen(call[d], pipe[call[d].pipe])
      BY <2>11 DEF CodecsFit
    <3>2. CASE d = e
      BY <1>1, <2>3, <2>5, <2>6, <2>7, <2>9, <2>10, <2>11, <3>1, <3>2 DEF Chosen, Talking
    <3>3. CASE d # e
      BY <2>6, <2>8, <2>9, <2>10, <3>1, <3>3 DEF Chosen
    <3> QED BY <3>2, <3>3
  <2> QED BY <1>1, <1>3, <2>1, <2>2, <2>3, <2>5, <2>6, <2>11 DEF CodecsFit, Talking, CallEnd
<1> QED BY <1>2, <1>3

LEMMA CodecsTerminated ==
  ASSUME IInv, CodecsFit, NEW e \in CallEnd, Terminated(e)
  PROVE  CodecsFit'
<1>1. /\ call[e].phase \notin {"none", "over"}
      /\ call' = [call EXCEPT ![e] = [NoCall EXCEPT !.phase = "over", !.pipe = call[e].pipe]]
      /\ pipe' = [pipe EXCEPT ![call[e].pipe] = [NewPipe EXCEPT !.state = "STOP_PENDING"]]
      /\ UNCHANGED <<preferred, late>>
  BY DEF Terminated
<1>2. DOMAIN call = CallEnd /\ DOMAIN pipe = Pipe
  BY DEF IInv, MediaTypeOK
<1>3. /\ call'[e].phase = "over" /\ call'[e].remote = <<>> /\ call'[e].codecs = <<>>
      /\ \A d \in CallEnd \ {e} : call'[d] = call[d]
  BY <1>1, <1>2 DEF NoCall
<1>4. \A d \in CallEnd \ {e} : call[d].phase = "up" => call[d].pipe \in Pipe \ {call[e].pipe}
  BY <1>1, PipeOf DEF IInv, Owned
<1>5. \A d \in CallEnd \ {e} : call[d].phase = "up" => pipe'[call[d].pipe] = pipe[call[d].pipe]
  BY <1>1, <1>2, <1>4
<1>6. \A s : Common(s)' = Common(s)
  BY <1>1, CommonStays
<1>7. ASSUME NEW d \in CallEnd, ~late PROVE Chosen(call[d], pipe[call[d].pipe])'
  BY <1>3, <1>5, <1>6, <1>7 DEF CodecsFit, Chosen, Talking
<1>8. <<>> \in Seq(Codec)
  OBVIOUS
<1> QED BY <1>1, <1>3, <1>7, <1>8 DEF CodecsFit, Talking, CallEnd

LEMMA CodecsStart == MediaInit => CodecsFit
<1> SUFFICES ASSUME MediaInit PROVE CodecsFit
  OBVIOUS
<1>1. preferred \in Orders /\ \A e \in CallEnd : call[e] = NoCall
  BY DEF MediaInit
<1>2. preferred \in Seq(Codec) /\ <<>> \in Seq(Codec)
  BY <1>1 DEF Orders
<1>3. \A e \in CallEnd : call[e].phase = "none" /\ call[e].remote = <<>> /\ call[e].codecs = <<>>
  BY <1>1 DEF NoCall
<1>4. \A e \in CallEnd : Chosen(call[e], pipe[call[e].pipe])
  BY <1>3 DEF Chosen, Talking
<1> QED BY <1>2, <1>3, <1>4 DEF CodecsFit, Talking, CallEnd

LEMMA CodecsStep ==
  ASSUME IInv, CodecsFit, [MediaNext]_mediaVars
  PROVE  CodecsFit'
<1>1. ASSUME UNCHANGED mediaVars PROVE CodecsFit'
  BY <1>1, CodecsStay DEF mediaVars
<1>2. ASSUME NEW p \in Lively, PipeSteps(p) \/ StreamEnds(p) PROVE CodecsFit'
  <2>1. p \in Pipe
    BY MediaAssumption
  <2> QED BY <1>2, <2>1, CodecsOfPipes
<1>3. ASSUME NEW e \in CallEnd, Refresh(e) \/ Terminated(e) PROVE CodecsFit'
  BY <1>3, CodecsRefreshed, CodecsTerminated
<1> QED BY <1>1, <1>2, <1>3, CodecsPreferred, CodecsDialled, CodecsOffered, CodecsAnswered,
           CodecsAcknowledged DEF MediaNext

\* Both ends of a call use the same codec, for any number of codecs and however
\* the two prefer them, unless the preference changed after the called end looked
\* at the offer (sip_i_state, calls_sip_call_activate_media).
THEOREM CodecsAgree == MediaSpec => []SameCodec
<1>1. IInv /\ CodecsFit => SameCodec
  BY DEF IInv, CodecsFit, Chosen, Talking, SameCodec, CallEnd
<1>2. IInv /\ CodecsFit /\ [MediaNext]_mediaVars => CodecsFit'
  BY CodecsStep
<1> QED BY <1>1, <1>2, CodecsStart, Invariance, PTL DEF MediaSpec

-----------------------------------------------------------------------------
(* The crypto lines of a media description. *)

CryptoField == [colon : BOOLEAN, power : BOOLEAN, n : Nat, len : Nat]

CryptoKey == [id : Nat, size : Nat]

KeyParam == [inline : BOOLEAN, key : CryptoKey, fields : Seq(CryptoField)]

\* The name of the suite may be any text.
CryptoLine(l) == l.tag \in Nat /\ l.keys \in Seq(KeyParam)

Lifetime == {Unlimited} \union [kind : {"decimal", "power"}, n : Nat \ {0}]

\* A key as it is read: with an identifier if and only if there are several.
ReadKey(k, needMki) ==
  /\ k \in [key : CryptoKey, life : Lifetime, mki : Nat, mkiLen : Nat]
  /\ IF needMki THEN k.mki > 0 /\ k.mkiLen \in 1..MaxMkiLen ELSE k.mki = 0 /\ k.mkiLen = 0

\* An attribute as it is read or generated.
Sound(a) ==
  /\ DOMAIN a = {"tag", "suite", "keys"} /\ a = [tag |-> a.tag, suite |-> a.suite, keys |-> a.keys]
  /\ a.tag \in Nat /\ a.suite \in ReadSuites
  /\ a.keys = [i \in DOMAIN a.keys |-> a.keys[i]]
  /\ Len(a.keys) \in 1..MaxKeys /\ DOMAIN a.keys = 1..Len(a.keys)
  /\ \A i \in DOMAIN a.keys : ReadKey(a.keys[i], Len(a.keys) > 1)
  /\ Valid(a)

\* What is written of a key is read again as that key.
LEMMA KeyReadsBack ==
  ASSUME NEW k, NEW needMki \in BOOLEAN, ReadKey(k, needMki)
  PROVE  KeyReads(KeyWritten(k), needMki) /\ KeyRead(KeyWritten(k), needMki) = k
<1>1. /\ k.key \in CryptoKey /\ k.life \in Lifetime /\ k.mki \in Nat /\ k.mkiLen \in Nat
      /\ k = [key |-> k.key, life |-> k.life, mki |-> k.mki, mkiLen |-> k.mkiLen]
      /\ k.mki > 0 <=> needMki
      /\ needMki => k.mkiLen \in 1..MaxMkiLen
      /\ ~needMki => k.mki = 0 /\ k.mkiLen = 0
  BY DEF ReadKey
<1>2. PICK life, mki : /\ life = Field(FALSE, k.life.kind = "power", k.life.n, 0)
                       /\ mki = Field(TRUE, FALSE, k.mki, k.mkiLen)
  OBVIOUS
<1>3. /\ ~life.colon /\ (life.power <=> k.life.kind = "power") /\ life.n = k.life.n
      /\ mki.colon /\ mki.n = k.mki /\ mki.len = k.mkiLen
  BY <1>2 DEF Field
<1>4. PICK f : f = (IF k.life.kind = "unset" THEN <<>> ELSE <<life>>)
                     \o (IF k.mki > 0 THEN <<mki>> ELSE <<>>)
  OBVIOUS
<1>5. PICK w : w = KeyWritten(k)
  OBVIOUS
<1>6. w.inline /\ w.key = k.key /\ w.fields = f
  BY <1>2, <1>4, <1>5 DEF KeyWritten
<1>7. CASE k.life.kind = "unset"
  <2>1. k.life = Unlimited
    BY <1>1, <1>7 DEF Lifetime
  <2>2. CASE needMki
    <3>1. f = <<mki>>
      BY <1>1, <1>4, <1>7, <2>2
    <3>2. Len(f) = 1 /\ f[1] = mki
      BY <3>1
    <3>3. LifeIndex(f) = 0 /\ MkiIndex(f) = 1
      BY <1>3, <3>2 DEF LifeIndex, MkiIndex
    <3> QED BY <1>1, <1>3, <1>5, <1>6, <2>1, <2>2, <3>2, <3>3 DEF KeyReads, KeyRead
  <2>3. CASE ~needMki
    <3>1. f = <<>>
      BY <1>1, <1>4, <1>7, <2>3
    <3>2. Len(f) = 0
      BY <3>1
    <3>3. LifeIndex(f) = 0
      BY <3>2 DEF LifeIndex
    <3> QED BY <1>1, <1>5, <1>6, <2>1, <2>3, <3>2, <3>3 DEF KeyReads, KeyRead
  <2> QED BY <2>2, <2>3
<1>8. CASE k.life.kind # "unset"
  <2>1. /\ k.life = [kind |-> k.life.kind, n |-> k.life.n] /\ k.life.n > 0
        /\ k.life.kind = IF life.power THEN "power" ELSE "decimal"
    BY <1>1, <1>3, <1>8 DEF Lifetime, Unlimited
  <2>2. CASE needMki
    <3>1. f = <<life>> \o <<mki>>
      BY <1>1, <1>4, <1>8, <2>2
    <3>2. Len(f) = 2 /\ f[1] = life /\ f[2] = mki
      <4>1. <<life>> \in Seq({life, mki}) /\ <<mki>> \in Seq({life, mki})
        OBVIOUS
      <4> QED BY <3>1, <4>1
    <3>3. LifeIndex(f) = 1 /\ MkiIndex(f) = 2
      BY <1>3, <3>2 DEF LifeIndex, MkiIndex
    <3> QED BY <1>1, <1>3, <1>5, <1>6, <2>1, <2>2, <3>2, <3>3 DEF KeyReads, KeyRead
  <2>3. CASE ~needMki
    <3>1. f = <<life>> \o <<>>
      BY <1>1, <1>4, <1>8, <2>3
    <3>2. Len(f) = 1 /\ f[1] = life
      <4>1. <<life>> \in Seq({life}) /\ <<>> \in Seq({life})
        OBVIOUS
      <4> QED BY <3>1, <4>1
    <3>3. LifeIndex(f) = 1
      BY <1>3, <3>2 DEF LifeIndex
    <3> QED BY <1>1, <1>3, <1>5, <1>6, <2>1, <2>3, <3>2, <3>3 DEF KeyReads, KeyRead
  <2> QED BY <2>2, <2>3
<1> QED BY <1>7, <1>8

LEMMA SuiteReadsBack ==
  ASSUME NEW s \in ReadSuites
  PROVE  NamedSuite(WrittenName[s]) = s
BY DEF ReadSuites, WrittenName, NamedSuite

\* What is written of an attribute is read again as that attribute.
LEMMA WrittenIsRead ==
  ASSUME NEW a, Sound(a)
  PROVE  Parse(PrintAttribute(a)) = a
<1>1. PICK n : n = Len(a.keys)
  OBVIOUS
<1>2. /\ n \in 1..MaxKeys /\ n \in Nat /\ n <= MaxKeys /\ DOMAIN a.keys = 1..n
      /\ a = [tag |-> a.tag, suite |-> a.suite, keys |-> a.keys]
      /\ a.keys = [i \in 1..n |-> a.keys[i]]
      /\ \A i \in 1..n : ReadKey(a.keys[i], n > 1)
      /\ a.suite \in ReadSuites /\ Valid(a)
  BY <1>1, SrtpAssumption DEF Sound
<1>3. a.tag > 0 /\ a.tag < 1000000000
  BY SMT, <1>2 DEF Valid
<1>4. PICK l : l = PrintAttribute(a)
  OBVIOUS
<1>5. /\ l.tag = a.tag /\ l.suite = WrittenName[a.suite]
      /\ l.keys = [i \in 1..n |-> KeyWritten(a.keys[i])]
  BY <1>2, <1>4 DEF PrintAttribute
<1>6. Len(l.keys) = n
  BY <1>2, <1>5
<1>7. \A i \in 1..n : KeyReads(l.keys[i], n > 1) /\ KeyRead(l.keys[i], n > 1) = a.keys[i]
  <2> TAKE i \in 1..n
  <2>1. ReadKey(a.keys[i], n > 1) /\ (n > 1) \in BOOLEAN /\ l.keys[i] = KeyWritten(a.keys[i])
    BY <1>2, <1>5
  <2> QED BY <2>1, KeyReadsBack
<1>8. NamedSuite(l.suite) = a.suite
  BY <1>2, <1>5, SuiteReadsBack
<1>9. [tag |-> l.tag, suite |-> NamedSuite(l.suite),
       keys |-> [i \in 1..n |-> KeyRead(l.keys[i], n > 1)]] = a
  <2>1. [i \in 1..n |-> KeyRead(l.keys[i], n > 1)] = a.keys
    BY <1>2, <1>7
  <2> QED BY <1>2, <1>5, <1>8, <2>1
<1>10. Parse(l) = a
  <2>1. PICK b : b = [tag |-> l.tag, suite |-> NamedSuite(l.suite),
                      keys |-> [i \in 1..Len(l.keys) |-> KeyRead(l.keys[i], Len(l.keys) > 1)]]
    OBVIOUS
  <2>2. b = a
    BY <1>6, <1>9, <2>1
  <2>3. /\ l.tag > 0 /\ l.tag < 1000000000 /\ Len(l.keys) <= MaxKeys /\ Valid(b)
        /\ \A i \in 1..Len(l.keys) : KeyReads(l.keys[i], Len(l.keys) > 1)
    BY SMT, <1>2, <1>3, <1>5, <1>6, <1>7, <2>2
  <2> QED BY SMT, <2>1, <2>2, <2>3 DEF Parse
<1> QED BY <1>4, <1>10

\* A key parameter that can be read gives a key.
LEMMA KeyIsRead ==
  ASSUME NEW p \in KeyParam, NEW needMki \in BOOLEAN, KeyReads(p, needMki)
  PROVE  ReadKey(KeyRead(p, needMki), needMki)
<1>1. PICK f : f = p.fields
  OBVIOUS
<1>2. PICK life, mki : life = LifeIndex(f) /\ mki = MkiIndex(f)
  OBVIOUS
<1>3. f \in Seq(CryptoField) /\ Len(f) \in Nat /\ p.key \in CryptoKey
  BY <1>1 DEF KeyParam
<1>4. life # 0 => life = 1 /\ Len(f) >= 1 /\ f[life] \in CryptoField
  BY <1>2, <1>3 DEF LifeIndex
<1>5. mki # 0 => mki \in 1..Len(f) /\ f[mki] \in CryptoField
  BY <1>2, <1>3 DEF MkiIndex
<1>6. /\ life # 0 => f[life].n > 0
      /\ needMki => mki # 0 /\ f[mki].n > 0 /\ f[mki].len \in 1..MaxMkiLen
  BY <1>1, <1>2 DEF KeyReads
<1>7. PICK t : t = IF life = 0 THEN Unlimited
                   ELSE [kind |-> IF f[life].power THEN "power" ELSE "decimal", n |-> f[life].n]
  OBVIOUS
<1>8. t \in Lifetime
  <2>1. CASE life = 0
    BY <1>7, <2>1 DEF Lifetime
  <2>2. CASE life # 0
    <3>1. f[life].n \in Nat \ {0}
      BY <1>4, <1>6, <2>2 DEF CryptoField
    <3> QED BY <1>7, <2>2, <3>1 DEF Lifetime
  <2> QED BY <2>1, <2>2
<1>9. KeyRead(p, needMki) = [key |-> p.key, life |-> t, mki |-> IF needMki THEN f[mki].n ELSE 0,
                             mkiLen |-> IF needMki THEN f[mki].len ELSE 0]
  BY <1>1, <1>2, <1>7 DEF KeyRead
<1>10. needMki => f[mki].n \in Nat /\ f[mki].len \in Nat
  BY <1>5, <1>6 DEF CryptoField
<1> QED
  <2>1. CASE needMki
    BY <1>3, <1>6, <1>8, <1>9, <1>10, <2>1 DEF ReadKey
  <2>2. CASE ~needMki
    BY <1>3, <1>8, <1>9, <2>2 DEF ReadKey
  <2> QED BY <2>1, <2>2

\* What is read of a line is an attribute that can be written.
LEMMA ReadIsSound ==
  ASSUME NEW l, CryptoLine(l), Parse(l) # NoAttr
  PROVE  Sound(Parse(l))
<1>1. PICK n : n = Len(l.keys)
  OBVIOUS
<1>2. n \in Nat /\ l.tag \in Nat /\ \A i \in 1..n : l.keys[i] \in KeyParam
  BY <1>1 DEF CryptoLine
<1>3. PICK ks : ks = [i \in 1..n |-> KeyRead(l.keys[i], n > 1)]
  OBVIOUS
<1>4. PICK a : a = [tag |-> l.tag, suite |-> NamedSuite(l.suite), keys |-> ks]
  OBVIOUS
<1>5. /\ Parse(l) = a /\ Valid(a) /\ n <= MaxKeys
      /\ \A i \in 1..n : KeyReads(l.keys[i], n > 1)
  BY SMT, <1>1, <1>3, <1>4 DEF Parse
<1>6. /\ DOMAIN a = {"tag", "suite", "keys"} /\ a = [tag |-> a.tag, suite |-> a.suite, keys |-> a.keys]
      /\ a.tag = l.tag /\ a.suite = NamedSuite(l.suite) /\ a.keys = ks
  BY <1>4
<1>7. DOMAIN ks = 1..n /\ ks = [i \in DOMAIN ks |-> ks[i]] /\ Len(ks) = n
  BY <1>2, <1>3
<1>8. a.suite \in ReadSuites
  <2>1. KeySize(a.suite) # 0
    BY SMT, <1>5 DEF Valid
  <2>2. a.suite # "UNKNOWN"
    BY <2>1 DEF KeySize
  <2>3. NamedSuite(l.suite) \in ReadSuites \union {"UNKNOWN"}
    BY DEF NamedSuite
  <2> QED BY <1>6, <2>2, <2>3
<1>9. n \in 1..MaxKeys
  BY SMT, <1>5, <1>6, <1>7 DEF Valid
<1>10. \A i \in 1..n : ReadKey(ks[i], n > 1)
  <2> TAKE i \in 1..n
  <2>1. l.keys[i] \in KeyParam /\ (n > 1) \in BOOLEAN /\ KeyReads(l.keys[i], n > 1)
    BY <1>2, <1>5
  <2>2. ks[i] = KeyRead(l.keys[i], n > 1)
    BY <1>3
  <2> QED BY <2>1, <2>2, KeyIsRead
<1>11. Sound(a)
  BY <1>2, <1>5, <1>6, <1>7, <1>8, <1>9, <1>10 DEF Sound
<1> QED BY <1>5, <1>11

\* The attributes this program generates.
LEMMA GeneratedIsSound ==
  ASSUME NEW s \in ReadSuites, NEW n \in 1..MaxKeys
  PROVE  Sound(InitKeys(1, s, n))
<1>1. n \in Nat /\ n >= 1 /\ n <= MaxKeys /\ MaxMkiLen \in Nat /\ MaxMkiLen >= 4
  BY SrtpAssumption
<1>2. PICK z : z = KeySize(s)
  OBVIOUS
<1>3. z \in Nat /\ z # 0
  BY <1>2 DEF ReadSuites, KeySize
<1>4. PICK ks : ks = [i \in 1..n |->
               [key |-> [id |-> i, size |-> z], life |-> Unlimited,
                mki |-> IF n > 1 THEN i ELSE 0, mkiLen |-> IF n > 1 THEN 4 ELSE 0]]
  OBVIOUS
<1>5. PICK a : a = InitKeys(1, s, n)
  OBVIOUS
<1>6. /\ DOMAIN a = {"tag", "suite", "keys"} /\ a = [tag |-> a.tag, suite |-> a.suite, keys |-> a.keys]
      /\ a.tag = 1 /\ a.suite = s /\ a.keys = ks
  BY <1>2, <1>4, <1>5 DEF InitKeys
<1>7. DOMAIN ks = 1..n /\ ks = [i \in DOMAIN ks |-> ks[i]] /\ Len(ks) = n
  BY <1>1, <1>4
<1>8. \A i \in 1..n : /\ ks[i].key = [id |-> i, size |-> z] /\ ks[i].life = Unlimited
                      /\ ks[i].mki = (IF n > 1 THEN i ELSE 0)
                      /\ ks[i].mkiLen = (IF n > 1 THEN 4 ELSE 0)
  BY <1>4
<1>9. \A i \in 1..n : ks[i] \in [key : CryptoKey, life : Lifetime, mki : Nat, mkiLen : Nat]
  BY <1>1, <1>3, <1>4 DEF CryptoKey, Lifetime
<1>10. \A i \in 1..n : ReadKey(ks[i], n > 1)
  <2> TAKE i \in 1..n
  <2>1. ks[i] \in [key : CryptoKey, life : Lifetime, mki : Nat, mkiLen : Nat] /\ i > 0
    BY <1>1, <1>9
  <2>2. CASE n > 1
    <3>1. ks[i].mki = i /\ ks[i].mkiLen = 4
      BY <1>8, <2>2
    <3> QED BY <1>1, <2>1, <2>2, <3>1 DEF ReadKey
  <2>3. CASE ~(n > 1)
    <3>1. ks[i].mki = 0 /\ ks[i].mkiLen = 0
      BY <1>8, <2>3
    <3> QED BY <2>1, <2>3, <3>1 DEF ReadKey
  <2> QED BY <2>2, <2>3
<1>11. \A i, j \in 1..n : i # j => ks[i].key # ks[j].key
  <2> SUFFICES ASSUME NEW i \in 1..n, NEW j \in 1..n, i # j
               PROVE  ks[i].key # ks[j].key
    OBVIOUS
  <2>1. ks[i].key = [id |-> i, size |-> z] /\ ks[j].key = [id |-> j, size |-> z]
    BY <1>8
  <2>2. ks[i].key.id = i /\ ks[j].key.id = j
    BY <2>1
  <2> QED BY <2>2
<1>12. HasMki(ks[1]) => n > 1
  <2>1. 1 \in 1..n
    BY <1>1
  <2>2. ASSUME ~(n > 1)
        PROVE  ks[1].mki = 0 /\ ks[1].mkiLen = 0
    BY <1>8, <2>1, <2>2
  <2> QED BY <2>2 DEF HasMki
<1>13. Valid(a)
  <2>1. 1 \in 1..n
    BY <1>1
  <2>2. \A i \in 1..n : ks[i].key.size = KeySize(s) /\ LifeInRange(ks[i].life)
    <3> TAKE i \in 1..n
    <3>1. ks[i].key = [id |-> i, size |-> z] /\ ks[i].life = Unlimited
      BY <1>8
    <3>2. ks[i].key.size = z /\ ks[i].life.kind = "unset"
      BY <3>1 DEF Unlimited
    <3> QED BY <1>2, <3>2 DEF LifeInRange
  <2>3. n > 1 => \A i \in 1..n : /\ ks[i].mkiLen = ks[1].mkiLen /\ ks[i].mki # 0
                                 /\ \A j \in 1..(i - 1) : ks[i].mki # ks[j].mki
    <3> SUFFICES ASSUME n > 1, NEW i \in 1..n
                 PROVE  /\ ks[i].mkiLen = ks[1].mkiLen /\ ks[i].mki # 0
                        /\ \A j \in 1..(i - 1) : ks[i].mki # ks[j].mki
      OBVIOUS
    <3>1. \A h \in 1..n : ks[h].mki = h /\ ks[h].mkiLen = 4
      BY <1>8
    <3>2. \A j \in 1..(i - 1) : j \in 1..n /\ j # i
      BY <1>1
    <3> QED BY <1>1, <2>1, <3>1, <3>2
  <2>4. n > 1 => ks[1].mkiLen \in 1..MaxMkiLen
    <3>1. n > 1 => ks[1].mkiLen = 4
      BY <1>8, <2>1
    <3> QED BY <1>1, <3>1
  <2>5. \A i \in 1..n : \A j \in 1..(i - 1) : ks[i].key # ks[j].key
    BY <1>1, <1>11
  <2>6. KeySize(s) # 0
    BY <1>2, <1>3
  <2> QED BY SMT, <1>1, <1>6, <1>7, <1>12, <2>2, <2>3, <2>4, <2>5, <2>6 DEF Valid
<1>14. Sound(a)
  BY <1>1, <1>3, <1>6, <1>7, <1>10, <1>13 DEF Sound
<1> QED BY <1>5, <1>14

\* What is written is a line.
LEMMA KeyWrittenFits ==
  ASSUME NEW k, NEW needMki \in BOOLEAN, ReadKey(k, needMki)
  PROVE  KeyWritten(k) \in KeyParam
<1>1. k.key \in CryptoKey /\ k.life \in Lifetime /\ k.mki \in Nat /\ k.mkiLen \in Nat /\ k.life.n \in Nat
  BY DEF ReadKey, Lifetime, Unlimited
<1>2. PICK life, mki : /\ life = Field(FALSE, k.life.kind = "power", k.life.n, 0)
                       /\ mki = Field(TRUE, FALSE, k.mki, k.mkiLen)
  OBVIOUS
<1>3. life \in CryptoField /\ mki \in CryptoField
  BY <1>1, <1>2 DEF Field, CryptoField
<1>4. PICK f : f = (IF k.life.kind = "unset" THEN <<>> ELSE <<life>>)
                     \o (IF k.mki > 0 THEN <<mki>> ELSE <<>>)
  OBVIOUS
<1>5. f \in Seq(CryptoField)
  BY <1>3, <1>4
<1>6. KeyWritten(k) = [inline |-> TRUE, key |-> k.key, fields |-> f]
  BY <1>2, <1>4 DEF KeyWritten
<1> QED BY <1>1, <1>5, <1>6 DEF KeyParam

LEMMA WrittenFits ==
  ASSUME NEW a, Sound(a)
  PROVE  CryptoLine(PrintAttribute(a))
<1>1. PICK n : n = Len(a.keys)
  OBVIOUS
<1>2. /\ n \in Nat /\ DOMAIN a.keys = 1..n /\ a.tag \in Nat /\ a.suite \in ReadSuites
      /\ \A i \in 1..n : ReadKey(a.keys[i], n > 1)
  BY <1>1, SrtpAssumption DEF Sound
<1>3. \A i \in 1..n : KeyWritten(a.keys[i]) \in KeyParam
  <2> TAKE i \in 1..n
  <2>1. ReadKey(a.keys[i], n > 1) /\ (n > 1) \in BOOLEAN
    BY <1>2
  <2> QED BY <2>1, KeyWrittenFits
<1>4. [i \in DOMAIN a.keys |-> KeyWritten(a.keys[i])] \in Seq(KeyParam)
  BY <1>2, <1>3
<1> QED BY <1>2, <1>4 DEF PrintAttribute, CryptoLine

-----------------------------------------------------------------------------
(* A line on its way. *)

LineFits == CryptoLine(line) /\ (attr = NoAttr \/ Sound(attr))

LEMMA LineStep == LineFits /\ [SrtpNext]_srtpVars => LineFits'
<1> SUFFICES ASSUME LineFits, [SrtpNext]_srtpVars
             PROVE  LineFits'
  OBVIOUS
<1>1. CASE ReadLine
  BY <1>1, ReadIsSound DEF ReadLine, LineFits
<1>2. CASE WriteLine
  BY <1>2, WrittenFits DEF WriteLine, LineFits
<1>3. CASE UNCHANGED srtpVars
  BY <1>3 DEF srtpVars, LineFits
<1> QED BY <1>1, <1>2, <1>3 DEF SrtpNext

LEMMA LineReadsBack == LineFits => AttributesReadBack
<1> SUFFICES ASSUME LineFits
             PROVE  AttributesReadBack
  OBVIOUS
<1>1. ASSUME attr # NoAttr
      PROVE  /\ Parse(PrintAttribute(attr)) = attr
             /\ Encodable(attr) /\ (Len(attr.keys) = 1 => Decodable(attr))
  <2>1. Sound(attr)
    BY <1>1 DEF LineFits
  <2>2. Encodable(attr)
    BY <2>1 DEF Sound, Encodable, ReadSuites
  <2>3. Len(attr.keys) = 1 => attr.keys[1].mki = 0
    BY <2>1 DEF Sound, ReadKey
  <2> QED BY <2>1, <2>2, <2>3, WrittenIsRead DEF Decodable
<1>2. \A s \in ReadSuites, n \in 1..MaxKeys :
        line = PrintAttribute(InitKeys(1, s, n)) => Parse(line) = InitKeys(1, s, n)
  BY GeneratedIsSound, WrittenIsRead
<1> QED BY <1>1, <1>2 DEF AttributesReadBack

\* The lines the run begins with are lines as any other.
LEMMA SomeLinesFit ==
  ASSUME NEW l \in SomeLines
  PROVE  CryptoLine(l)
<1>1. PICK f : f = [colon : {FALSE}, power : BOOLEAN, n : {0, 1, MaxPow2}, len : {0}]
             \union [colon : {TRUE}, power : {FALSE}, n : {0, 1, 2}, len : {0, 4, MaxMkiLen + 1}]
  OBVIOUS
<1>2. SomeFields = {<<>>} \union {<<x>> : x \in f} \union {<<x, y>> : x, y \in f}
  BY <1>1 DEF SomeFields
<1>3. \A x \in f : x \in CryptoField
  <2>1. PICK m : m = MaxMkiLen + 1
    OBVIOUS
  <2>2. MaxPow2 \in Nat /\ m \in Nat
    BY <2>1, SrtpAssumption
  <2>3. ASSUME NEW C \in SUBSET BOOLEAN, NEW P \in SUBSET BOOLEAN,
               NEW N \in SUBSET Nat, NEW L \in SUBSET Nat,
               NEW x \in [colon : C, power : P, n : N, len : L]
        PROVE  x \in CryptoField
    BY DEF CryptoField
  <2>4. /\ {FALSE} \in SUBSET BOOLEAN /\ {TRUE} \in SUBSET BOOLEAN /\ BOOLEAN \in SUBSET BOOLEAN
        /\ {0, 1, MaxPow2} \in SUBSET Nat /\ {0} \in SUBSET Nat
        /\ {0, 1, 2} \in SUBSET Nat /\ {0, 4, m} \in SUBSET Nat
    BY <2>2
  <2>5. \A x \in [colon : {FALSE}, power : BOOLEAN, n : {0, 1, MaxPow2}, len : {0}] : x \in CryptoField
    BY <2>3, <2>4
  <2>6. \A x \in [colon : {TRUE}, power : {FALSE}, n : {0, 1, 2}, len : {0, 4, m}] : x \in CryptoField
    BY <2>3, <2>4
  <2> QED BY <1>1, <2>1, <2>5, <2>6
<1>4. \A x \in SomeFields : x \in Seq(CryptoField)
  <2> TAKE x \in SomeFields
  <2>1. CASE x = <<>>
    BY <2>1
  <2>2. ASSUME NEW y \in f, x = <<y>>
        PROVE  x \in Seq(CryptoField)
    BY <1>3, <2>2
  <2>3. ASSUME NEW y \in f, NEW z \in f, x = <<y, z>>
        PROVE  x \in Seq(CryptoField)
    BY <1>3, <2>3
  <2> QED BY <1>2, <2>1, <2>2, <2>3
<1>5. PICK s \in SrtpSuite : l \in OneKeyLines(s) \/ l \in TwoKeyLines(s)
  BY DEF SomeLines
<1>6. KeySize(s) \in Nat
  BY DEF KeySize
<1>7. CASE l \in OneKeyLines(s)
  <2>1. PICK K : K = [inline : BOOLEAN, key : [id : {1}, size : {KeySize(s), 1}], fields : SomeFields]
    OBVIOUS
  <2>2. \A k \in K : k \in KeyParam
    BY <1>4, <1>6, <2>1 DEF KeyParam, CryptoKey
  <2>3. PICK k \in K : l.tag \in {0, 1} /\ l.keys = <<k>>
    BY <1>7, <2>1 DEF OneKeyLines, LinesOf
  <2> QED BY <2>2, <2>3 DEF CryptoLine
<1>8. CASE l \in TwoKeyLines(s)
  <2>1. PICK a, b, c, d, e : /\ a = Field(TRUE, FALSE, 1, 4) /\ b = Field(TRUE, FALSE, 2, 4)
                             /\ c = Field(FALSE, TRUE, 1, 0) /\ d = Field(FALSE, FALSE, 2, 0)
                             /\ e = Field(TRUE, FALSE, 2, 5)
    OBVIOUS
  <2>2. PICK F : F = {<<>>, <<a>>, <<b>>, <<c>>, <<d, b>>, <<e>>}
    OBVIOUS
  <2>3. \A x \in F : x \in Seq(CryptoField)
    <3>1. /\ a \in CryptoField /\ b \in CryptoField /\ c \in CryptoField
          /\ d \in CryptoField /\ e \in CryptoField
      BY <2>1 DEF Field, CryptoField
    <3>2. /\ <<>> \in Seq(CryptoField) /\ <<a>> \in Seq(CryptoField) /\ <<b>> \in Seq(CryptoField)
          /\ <<c>> \in Seq(CryptoField) /\ <<d, b>> \in Seq(CryptoField) /\ <<e>> \in Seq(CryptoField)
      BY <3>1
    <3> QED BY <2>2, <3>2
  <2>4. PICK K : K = [inline : {TRUE}, key : KeyOf(s, {1, 2}), fields : F]
    OBVIOUS
  <2>5. \A k \in K : k \in KeyParam
    <3>1. \A q \in KeyOf(s, {1, 2}) : q \in CryptoKey
      BY <1>6 DEF KeyOf, CryptoKey
    <3> QED BY <2>3, <2>4, <3>1 DEF KeyParam
  <2>6. PICK k \in K, h \in K : l.tag \in {0, 1} /\ l.keys = <<k, h>>
    <3>1. l \in LinesOf(s, {<<k, h>> : k, h \in K})
      BY <1>8, <2>1, <2>2, <2>4 DEF TwoKeyLines
    <3> QED BY <3>1 DEF LinesOf
  <2> QED BY <2>5, <2>6 DEF CryptoLine
<1> QED BY <1>5, <1>7, <1>8

LEMMA LineStart == SrtpInit => LineFits
<1> SUFFICES ASSUME SrtpInit
             PROVE  LineFits
  OBVIOUS
<1>1. CASE line \in SomeLines
  BY <1>1, SomeLinesFit DEF SrtpInit, LineFits
<1>2. ASSUME NEW s \in ReadSuites, NEW n \in 1..MaxKeys, line = PrintAttribute(InitKeys(1, s, n))
      PROVE  LineFits
  BY <1>2, GeneratedIsSound, WrittenFits DEF SrtpInit, LineFits
<1> QED BY <1>1, <1>2 DEF SrtpInit

\* A line that is read is written and read again the same, whatever the line a
\* peer began with (calls_srtp_parse_sdp_crypto_attribute() and
\* calls_srtp_print_sdp_crypto_attribute()).
THEOREM LinesReadBack ==
  CryptoLine(line) /\ attr = NoAttr /\ [][SrtpNext]_srtpVars => []AttributesReadBack
<1>1. CryptoLine(line) /\ attr = NoAttr => LineFits
  BY DEF LineFits
<1> QED BY <1>1, LineStep, LineReadsBack, PTL

\* The lines of the run are among them.
THEOREM SomeLinesReadBack == SrtpInit /\ [][SrtpNext]_srtpVars => []AttributesReadBack
BY LineStart, LineStep, LineReadsBack, PTL
=============================================================================
