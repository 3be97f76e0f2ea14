----------------------------- MODULE CallsDummy -----------------------------
(***************************************************************************)
(* The dummy provider (src/plugins/provider/dummy/), which needs no modem: *)
(* its calls are made by dial() or by a signal sent to the process, and    *)
(* move on by timers or at once.  A path names a call in its list.         *)
(***************************************************************************)
EXTENDS CallsModem

VARIABLE timers      \* calls whose outbound_timeout_cb() is to run

\* add_call(): base class calls start DIALING or INCOMING.
DAddCall(o, p, s) ==
  /\ o \in Listed
  /\ Len(objs) < MaxObjs /\ \A i \in DOMAIN objs : objs[i].path # p
  /\ objs' = Append(objs, NewObj(o, p, s))
  /\ origins' = [origins EXCEPT ![o].table[p] = Len(objs')]
  /\ UNCHANGED <<plugin, serviceVars, asked, pending>>

DDial(o, p) ==
  /\ p \in Outgoing
  /\ DAddCall(o, p, "DIALING")
  /\ timers' = timers \union {Len(objs')}

\* usr1_handler(), usr2_handler(): create_inbound() of the first origin.
Usr(p) ==
  /\ p \notin Outgoing
  /\ DAddCall(1, p, "INCOMING")
  /\ UNCHANGED timers

\* calls_call_set_state(), and call_state_changed_cb() of the origin.
DSetState(i, s) ==
  LET gone == s = "DISCONNECTED"
  IN  /\ objs' = [objs EXCEPT ![i].state = s, ![i].dropped = gone]
      /\ origins' = IF gone THEN Unkey(origins, {objs[i].origin}, objs[i].path) ELSE origins
      /\ UNCHANGED <<plugin, serviceVars, asked, pending>>

\* Mutant: the timeout does not look at what became of the call.
TimeoutAlways(i) ==
  /\ i \in timers
  /\ DSetState(i, IF objs[i].state = "DIALING" THEN "ALERTING" ELSE "ACTIVE")
  /\ timers' = IF objs[i].state = "DIALING" THEN timers ELSE timers \ {i}

\* outbound_timeout_cb()
Timeout(i) ==
  /\ i \in timers
  /\ CASE objs[i].state = "DIALING"  -> DSetState(i, "ALERTING") /\ UNCHANGED timers
       [] objs[i].state = "ALERTING" -> DSetState(i, "ACTIVE") /\ timers' = timers \ {i}
       [] OTHER                      -> UNCHANGED modemVars /\ timers' = timers \ {i}

\* calls_dummy_call_answer()
DAnswer(i) ==
  /\ objs[i].state = "INCOMING"
  /\ DSetState(i, "ACTIVE")
  /\ UNCHANGED timers

\* calls_dummy_call_hang_up()
DHangUp(i) ==
  /\ objs[i].state # "DISCONNECTED"
  /\ DSetState(i, "DISCONNECTED")
  /\ UNCHANGED timers

-----------------------------------------------------------------------------
DummyInit == timers = {}

\* constructed() of the provider: one origin, ready for calls.
DummyOrigins == <<[NewOrigin EXCEPT !.voice = TRUE]>>

DummyNext ==
  \/ \E o \in DOMAIN origins, p \in Path : DDial(o, p)
  \/ \E p \in Path : Usr(p)
  \/ \E i \in DOMAIN objs : Timeout(i) \/ DAnswer(i) \/ DHangUp(i)
=============================================================================
