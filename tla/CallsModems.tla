----------------------------- MODULE CallsModems ----------------------------
(***************************************************************************)
(* The provider plugins for cellular calls, one of which is loaded, and    *)
(* what they have in common: each of them implements the contract that     *)
(* CallsOrigin states and the manager is written against.                  *)
(***************************************************************************)
EXTENDS CallsMm, CallsOfono, CallsDummy

modemsVars == <<modemVars, mmVars, ofonoVars, timers>>

ModemsInit ==
  /\ plugin \in {"mm", "ofono", "dummy"}
  /\ svcUp = FALSE /\ modem = "none"
  /\ net = [p \in Path |-> "NONE"]
  /\ asked = {} /\ pending = {}
  /\ origins = IF plugin = "dummy" THEN DummyOrigins ELSE <<>>
  /\ objs = <<>>
  /\ MmInit /\ OfonoInit /\ DummyInit

ModemsNext ==
  \/ plugin = "mm"    /\ MmNext    /\ UNCHANGED <<ofonoVars, timers>>
  \/ plugin = "ofono" /\ OfonoNext /\ UNCHANGED <<mmVars, timers>>
  \/ plugin = "dummy" /\ DummyNext /\ UNCHANGED <<mmVars, ofonoVars>>

ModemsSpec == ModemsInit /\ [][ModemsNext]_modemsVars

-----------------------------------------------------------------------------
ModemsTypeOK ==
  /\ ModemTypeOK
  /\ mm \in BOOLEAN /\ leaked \in BOOLEAN /\ known \in BOOLEAN
  /\ pressed \in 0..MaxTones
  /\ timers \subseteq DOMAIN objs

\* A request in flight that will tell origin o of call p.
WillTell(r, o, p) ==
  /\ r.origin = o
  /\ \/ r.kind = "call" /\ r.path = p
     \/ r.kind \in {"voice", "calls"}
     \/ r \in Listings /\ (IF r.answered THEN p \in r.answer ELSE r.kind \in {p, "all"})

\* No call of the modem is missed, however the signals of the service and the
\* round trips of the program overlap: the origin knows it, or a request that
\* will tell it of the call is in flight (call_added_cb, list_calls_cb,
\* get_calls_cb).
NoCallMissed ==
  \A o \in Listed, p \in Path :
    Exists(p) => Keyed(o, p) \/ \E r \in pending : WillTell(r, o, p)

\* ModemManager keeps an ended call until the program deletes it: none is
\* forgotten (call_state_changed_cb and the state that add_call finds).
EndedIsDeleted ==
  \A p \in Path : net[p] = "TERMINATED" /\ Listed # {} =>
    \/ \E r \in asked : r.op = "delete" /\ r.path = p
    \/ \E o \in Listed, r \in pending : WillTell(r, o, p)

\* The keys pressed in a call are sent in order, each once, and one request at a
\* time (tone_cb, send_tones_cb).
TonesInOrder ==
  /\ sent \o flight \o queue = [i \in 1..pressed |-> i]
  /\ flight = <<>> => queue = <<>>

-----------------------------------------------------------------------------
(* The refinement of the contract. *)

CallId == 1..MaxObjs

Abstract == INSTANCE CallsOrigin WITH
  Call      <- CallId,
  Origin    <- 1..MaxOrigins,
  NoOrigin  <- 0,
  origins   <- Listed,
  calls     <- {i \in DOMAIN objs : ~objs[i].dropped},
  originOf  <- [i \in CallId |-> IF i \in DOMAIN objs THEN objs[i].origin ELSE 0],
  callState <- [i \in CallId |-> IF i \in DOMAIN objs THEN objs[i].state ELSE "NONE"],
  hungUp    <- {}

\* Whatever the modem and its service do, the manager sees calls that behave as
\* the contract says.
ImplementsOrigin == Abstract!Contract
=============================================================================
