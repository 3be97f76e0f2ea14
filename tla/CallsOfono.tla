----------------------------- MODULE CallsOfono -----------------------------
(***************************************************************************)
(* The oFono provider, its origin and its calls                            *)
(* (src/plugins/provider/ofono/).                                          *)
(*                                                                         *)
(* Every object of oFono gets a proxy, whose making is a round trip.  What *)
(* oFono said of the object when the proxy was asked for is all that is    *)
(* known when it is there: signals in between are heard by nobody.         *)
(* Proxies name oFono by its well-known name and outlive a restart of it.  *)
(*                                                                         *)
(* Nothing in flight refers to its origin.  What a completion would do to  *)
(* an origin that is gone is left out (it would touch freed memory).       *)
(***************************************************************************)
EXTENDS CallsModem

CONSTANT MaxTones    \* bound: keys pressed during a call

ASSUME OfonoAssumption == MaxTones \in Nat

VARIABLES
  known,        \* the modem is in CallsOfonoProvider.modems
  pressed,      \* DTMF keys pressed so far
  queue,        \* tone_queue
  flight,       \* the tones of the send_tones() under way; sending_tones
  sent          \* tones sent before

toneVars  == <<pressed, queue, flight, sent>>
ofonoVars == <<known, toneVars>>

ModemProxy(ifaces)    == [kind |-> "modem", origin |-> 0, ifaces |-> ifaces]
CallProxy(o, p, s)    == [kind |-> "call", origin |-> o, path |-> p, state |-> s]
Modems                == [kind |-> "modems", origin |-> 0]
OfOrigin(kind, o)     == [kind |-> kind, origin |-> o]

\* The requests of origins that are still there.
Kept(os) == {r \in pending : r.origin = 0 \/ r.origin \in {o \in DOMAIN os : os[o].listed}}

\* The state a call is given for what oFono says of it; the nick "waiting" is
\* not one of the program's.
StateOf(p, s) == IF s = "WAITING" THEN "UNKNOWN" ELSE CallStateOf(p, s)

Parses(s) == s # "WAITING"

-----------------------------------------------------------------------------
(* The provider *)

\* modem_check_ifaces()
CheckIfaces(ifaces, pend) ==
  CASE ifaces = "voice" /\ Listed = {} ->
         /\ Len(origins) < MaxOrigins
         /\ Settle(pend \union {OfOrigin("voice", Len(origins) + 1)}, asked, Append(origins, NewOrigin), objs)
    [] ifaces # "voice" /\ Listed # {} ->
         Settle(pend \intersect Kept(Unlist(origins)), asked, Unlist(origins), objs)
    [] OTHER -> Settle(pend, asked, origins, objs)

\* modem_added_cb()
ModemAdded(ifaces, pend) == IF known THEN pend ELSE pend \union {ModemProxy(ifaces)}

\* ofono_appeared_cb(): the proxy of the manager is made at once.
OfonoAppears ==
  /\ ~svcUp /\ Unused
  /\ svcUp' = TRUE
  /\ pending' = pending \union {Modems}
  /\ UNCHANGED <<plugin, modem, net, asked, origins, objs, ofonoVars>>

\* ofono_vanished_cb(), which leaves the table of modems as it is.
OfonoVanishes ==
  /\ svcUp /\ Unused
  /\ svcUp' = FALSE /\ modem' = "none"
  /\ Settle(Kept(Unlist(origins)), asked, Unlist(origins), objs)
  /\ UNCHANGED <<plugin, net, ofonoVars>>

\* get_modems_cb()
GetModemsDone ==
  /\ Modems \in pending
  /\ pending' = IF modem = "none" THEN pending \ {Modems} ELSE ModemAdded(modem, pending \ {Modems})
  /\ UNCHANGED <<plugin, serviceVars, asked, origins, objs, ofonoVars>>

ModemAppears(ifaces) ==
  /\ svcUp /\ modem = "none" /\ Unused
  /\ modem' = ifaces
  /\ pending' = ModemAdded(ifaces, pending)
  /\ UNCHANGED <<plugin, svcUp, net, asked, origins, objs, ofonoVars>>

\* modem_proxy_new_cb()
ModemProxyDone(r) ==
  /\ r \in pending /\ r.kind = "modem"
  /\ known' = TRUE
  /\ CheckIfaces(r.ifaces, pending \ {r})
  /\ UNCHANGED <<plugin, serviceVars, toneVars>>

\* modem_property_changed_cb(), of a modem whose proxy is there.
IfacesChange(ifaces) ==
  /\ modem \notin {"none", ifaces}
  /\ ifaces = "voice" => Unused
  /\ modem' = ifaces
  /\ IF ifaces = "voice" THEN UNCHANGED net ELSE CallsLost
  /\ IF known THEN CheckIfaces(ifaces, pending) ELSE UNCHANGED <<asked, pending, origins, objs>>
  /\ UNCHANGED <<plugin, svcUp, ofonoVars>>

\* modem_removed_cb()
ModemDisappears ==
  /\ modem # "none"
  /\ modem' = "none"
  /\ CallsLost
  /\ known' = FALSE
  /\ Settle(Kept(Unlist(origins)), asked, Unlist(origins), objs)
  /\ UNCHANGED <<plugin, svcUp, toneVars>>

-----------------------------------------------------------------------------
(* The origin's calls *)

\* voice_new_cb()
VoiceProxyDone(r) ==
  /\ r \in pending /\ r.kind = "voice"
  /\ Settle((pending \ {r}) \union {OfOrigin("calls", r.origin)}, asked,
            [origins EXCEPT ![r.origin].voice = TRUE], objs)
  /\ UNCHANGED <<plugin, serviceVars, ofonoVars>>

\* The proxies call_added_cb() asks for: of the calls ps, in their states st.
Proxies(o, ps, st) == {CallProxy(o, p, st[p]) : p \in {q \in ps : ~Keyed(o, q)}}

Hearing == {o \in Listed : origins[o].voice}

\* get_calls_cb(), and its error when the modem has no calls interface.
GetCallsDone(r) ==
  /\ r \in pending /\ r.kind = "calls"
  /\ pending' = (pending \ {r}) \union
                  IF modem = "voice" THEN Proxies(r.origin, {p \in Path : Exists(p)}, net) ELSE {}
  /\ UNCHANGED <<plugin, serviceVars, asked, origins, objs, ofonoVars>>

\* voice_call_proxy_new_cb(): a call of that path is replaced in the table.
CallProxyDone(r) ==
  /\ r \in pending /\ r.kind = "call"
  /\ Len(objs) < MaxObjs
  /\ Settle(pending \ {r}, asked,
            [origins EXCEPT ![r.origin].table[r.path] = Len(objs) + 1],
            Append(objs, NewObj(r.origin, r.path, StateOf(r.path, r.state))))
  /\ UNCHANGED <<plugin, serviceVars, ofonoVars>>

\* property_changed_cb() of the calls of a path; oFono removes a call in the
\* same breath it disconnects it: call_removed_cb().
OCallChanges(p, s, handled) ==
  IF s = "TERMINATED"
    THEN /\ net' = [net EXCEPT ![p] = "GONE"]
         /\ Settle(pending, asked \ handled, Unkey(origins, Hearing, p),
                   DropCall(FollowNet(objs, p, "DISCONNECTED"), origins, Hearing, p))
    ELSE /\ net' = [net EXCEPT ![p] = s]
         /\ Settle(pending, asked \ handled, origins,
                   IF Parses(s) THEN FollowNet(objs, p, StateOf(p, s)) ELSE objs)

-----------------------------------------------------------------------------
(* Requests and the service *)

OCallArrives(p, s, handled) ==
  /\ modem = "voice"
  /\ net[p] = "NONE"
  /\ net' = [net EXCEPT ![p] = s]
  /\ pending' = pending \union UNION {Proxies(o, {p}, net') : o \in Hearing}
  /\ asked' = asked \ handled
  /\ UNCHANGED <<plugin, svcUp, modem, origins, objs, ofonoVars>>

OCallIncoming(p) == p \notin Outgoing /\ OCallArrives(p, Arriving, {})

ONetChanges(p) ==
  \E s \in NetNext[net[p]] \ Unseen :
    /\ OCallChanges(p, s, {})
    /\ UNCHANGED <<plugin, svcUp, modem, ofonoVars>>

\* dial(): any number of calls at a time.
ODial(o) ==
  /\ o \in Hearing
  /\ Cardinality(asked) < MaxAsked
  /\ asked' = asked \union {Request("create", "none", 0)}
  /\ UNCHANGED <<plugin, serviceVars, pending, origins, objs, ofonoVars>>

\* calls_ofono_call_answer() and calls_ofono_call_hang_up(): oFono decides
\* whether the call can.
OAsk(op, i) ==
  /\ objs[i].state # "DISCONNECTED" /\ Exists(objs[i].path)
  /\ op = "accept" => objs[i].state = "INCOMING"
  /\ Cardinality(asked) < MaxAsked
  /\ asked' = asked \union {Request(op, objs[i].path, 0)}
  /\ UNCHANGED <<plugin, serviceVars, pending, origins, objs, ofonoVars>>

ORequestHandled(r) ==
  /\ r \in asked
  /\ \/ r.op = "create" /\ \E p \in Outgoing : OCallArrives(p, "DIALING", {r})
     \/ r.op = "accept" /\ net[r.path] = "RINGING_IN"
          /\ OCallChanges(r.path, "ACTIVE", {r}) /\ UNCHANGED <<plugin, svcUp, modem, ofonoVars>>
     \/ r.op = "hangup" /\ Live(r.path)
          /\ OCallChanges(r.path, "TERMINATED", {r}) /\ UNCHANGED <<plugin, svcUp, modem, ofonoVars>>

OPossible(r) ==
  CASE r.op = "create" -> modem = "voice" /\ \E p \in Outgoing : net[p] = "NONE"
    [] r.op = "accept" -> net[r.path] = "RINGING_IN"
    [] r.op = "hangup" -> Live(r.path)

ORequestRefused(r) ==
  /\ ~OPossible(r)
  /\ RequestFails(r)
  /\ UNCHANGED ofonoVars

-----------------------------------------------------------------------------
(* DTMF *)

\* Mutant: every tone is sent at once.
ToneAtOnce(i) ==
  /\ objs[i].state = "ACTIVE" /\ ~objs[i].dropped
  /\ pressed < MaxTones
  /\ pressed' = pressed + 1
  /\ flight' = <<pressed'>>
  /\ UNCHANGED <<modemVars, known, queue, sent>>

\* calls_ofono_call_send_dtmf_tone() and tone_cb()
Tone(i) ==
  /\ objs[i].state = "ACTIVE" /\ ~objs[i].dropped
  /\ pressed < MaxTones
  /\ pressed' = pressed + 1
  /\ IF flight # <<>>
       THEN queue' = Append(queue, pressed') /\ UNCHANGED flight
       ELSE flight' = <<pressed'>> /\ UNCHANGED queue
  /\ UNCHANGED <<modemVars, known, sent>>

\* send_tones_cb(): an error is only reported.
TonesSent ==
  /\ flight # <<>> /\ Hearing # {}
  /\ sent' = sent \o flight
  /\ flight' = queue
  /\ queue' = <<>>
  /\ UNCHANGED <<modemVars, known, pressed>>

-----------------------------------------------------------------------------
OfonoInit ==
  /\ known = FALSE
  /\ pressed = 0 /\ queue = <<>> /\ flight = <<>> /\ sent = <<>>

OfonoAnswers ==
  \/ GetModemsDone
  \/ \E r \in pending : ModemProxyDone(r) \/ VoiceProxyDone(r) \/ GetCallsDone(r) \/ CallProxyDone(r)
  \/ \E r \in asked : ORequestHandled(r) \/ ORequestRefused(r)
  \/ TonesSent

OfonoEvents ==
  \/ OfonoAppears \/ OfonoVanishes \/ ModemDisappears
  \/ \E ifaces \in {"plain", "voice"} : ModemAppears(ifaces) \/ IfacesChange(ifaces)
  \/ \E p \in Path : OCallIncoming(p) \/ ONetChanges(p)
  \/ \E o \in DOMAIN origins : ODial(o)
  \/ \E i \in DOMAIN objs : Tone(i) \/ \E op \in {"accept", "hangup"} : OAsk(op, i)

OfonoNext == OfonoAnswers \/ OfonoEvents
=============================================================================
