----------------------------- MODULE CallsModem -----------------------------
(***************************************************************************)
(* What the providers of cellular calls share: a modem, its D-Bus service  *)
(* and the calls it has there; the origins that stand for the modem in     *)
(* this program, their call objects, and the requests in flight.           *)
(*                                                                         *)
(* D-Bus keeps the order of what a service sends.  A signal is therefore   *)
(* delivered in the step that causes it; what takes time is the way of a   *)
(* request to the service, and the set-up of proxies after its answer.     *)
(* So a request has two steps: the service answers with what it knows      *)
(* then, and the program's completion runs some time later.                *)
(*                                                                         *)
(* Abstracted: numbers, names, the properties of a modem that are only     *)
(* stored, and all but one modem (modems do not interact).  An origin that *)
(* left hears no more signals: its service, or the interface of its modem, *)
(* is gone.  A service refuses only what it cannot do.                     *)
(***************************************************************************)
EXTENDS Naturals, Sequences, FiniteSets

CONSTANTS
  Path,         \* object paths of calls; the services use each of them once
  Outgoing,     \* those of calls that are dialled here
  MaxOrigins,   \* bound: origin objects made
  MaxObjs,      \* bound: call objects made
  MaxAsked,     \* bound: requests of the user in flight
  Unseen        \* bound: states of a call that the network does not use

ASSUME ModemAssumption ==
  /\ IsFiniteSet(Path) /\ Outgoing \subseteq Path
  /\ MaxOrigins \in Nat \ {0} /\ MaxObjs \in Nat /\ MaxAsked \in Nat
  \* Requests are told apart by what they are for, a path or one of these.
  /\ Path \intersect {"all", "manager", "modems", "modem", "voice", "calls", "call"} = {}

VARIABLES
  plugin,       \* the provider plugin that is loaded: "mm", "ofono" or "dummy"
  svcUp,        \* the service owns its name on the bus
  modem,        \* what the service has: "none", "plain" or "voice"
  net,          \* the state of a call at the service
  asked,        \* requests about a modem's calls the service has not handled
  pending,      \* other requests whose completion is to come
  origins,      \* the origins made so far, as records
  objs          \* the call objects made so far, as records

serviceVars == <<svcUp, modem, net>>
modemVars   == <<plugin, serviceVars, asked, pending, origins, objs>>

NetState == {"NONE", "UNKNOWN", "DIALING", "RINGING_OUT", "RINGING_IN", "WAITING",
             "ACTIVE", "HELD", "TERMINATED", "GONE"}

\* What the network, or the other side, makes of a call by itself.
NetNext ==
  [NONE |-> {}, UNKNOWN |-> {}, GONE |-> {}, TERMINATED |-> {},
   DIALING     |-> {"RINGING_OUT", "ACTIVE", "TERMINATED"},
   RINGING_OUT |-> {"ACTIVE", "TERMINATED"},
   RINGING_IN  |-> {"TERMINATED"},
   WAITING     |-> {"RINGING_IN", "TERMINATED"},
   ACTIVE      |-> {"HELD", "TERMINATED"},
   HELD        |-> {"ACTIVE", "TERMINATED"}]

\* STATE_MAP of the ModemManager call, with what WAITING is made of, for the
\* states the two services share.
CallStateOf(p, s) ==
  CASE s \in {"UNKNOWN", "DIALING"} -> "DIALING"
    [] s = "RINGING_OUT"            -> "ALERTING"
    [] s = "RINGING_IN"             -> "INCOMING"
    [] s = "WAITING"                -> IF p \in Outgoing THEN "ALERTING" ELSE "INCOMING"
    [] s = "TERMINATED"             -> "DISCONNECTED"
    [] OTHER                        -> s

Exists(p) == net[p] \notin {"NONE", "GONE"}
Live(p)   == Exists(p) /\ net[p] # "TERMINATED"

\* Bound: modems arrive, and services start and stop, before the first call.
\* A modem may leave with its calls at any time.
Unused == \A p \in Path : net[p] = "NONE"

\* What an incoming call is at first.
Arriving == IF \E p \in Path : Live(p) THEN "WAITING" ELSE "RINGING_IN"

-----------------------------------------------------------------------------
(* Origins and call objects *)

NoTable == [p \in Path |-> 0]

\* listed: it is in the provider's list; alive: not disposed; voice: its voice
\* proxy is ready; table: its hash table of calls.
NewOrigin == [listed |-> TRUE, alive |-> TRUE, voice |-> FALSE, table |-> NoTable]

Listed == {o \in DOMAIN origins : origins[o].listed}

\* A call object; dropped: call-removed was emitted for it.
NewObj(o, p, s) == [origin |-> o, path |-> p, state |-> s, dropped |-> FALSE]

Keyed(o, p) == origins[o].table[p] # 0

TableSize(table) == Cardinality({p \in Path : table[p] # 0})

\* Everything in flight that holds a reference to origin o.
Pinned(o, pend, ask) == \E r \in pend \union ask : r.origin = o

\* dispose() of the origins that left the list and are not referred to any
\* more: remove_calls() emits call-removed for each call of the table.
Disposed(os, pend, ask) ==
  {o \in DOMAIN os : os[o].alive /\ ~os[o].listed /\ ~Pinned(o, pend, ask)}

Dispose(os, dead) ==
  [o \in DOMAIN os |-> IF o \in dead THEN [os[o] EXCEPT !.alive = FALSE, !.table = NoTable] ELSE os[o]]

DropCalls(ob, os, dead) ==
  [i \in DOMAIN ob |->
     IF \E o \in dead, p \in Path : os[o].table[p] = i THEN [ob[i] EXCEPT !.dropped = TRUE] ELSE ob[i]]

\* Ends a callback: stores what it made of the requests, the origins and the
\* call objects, and disposes of the origins it released.
Settle(pend, ask, os, ob) ==
  LET dead == Disposed(os, pend, ask)
  IN  /\ pending' = pend
      /\ asked' = ask
      /\ origins' = Dispose(os, dead)
      /\ objs' = DropCalls(ob, os, dead)

\* call-removed of path p at the origins of set heard, and of its call there.
Unkey(os, heard, p) ==
  [o \in DOMAIN os |-> IF o \in heard THEN [os[o] EXCEPT !.table[p] = 0] ELSE os[o]]

DropCall(ob, os, heard, p) ==
  [i \in DOMAIN ob |-> IF \E o \in heard : os[o].table[p] = i THEN [ob[i] EXCEPT !.dropped = TRUE] ELSE ob[i]]

\* The provider takes its origins off the list.
Unlist(os) == [o \in DOMAIN os |-> [os[o] EXCEPT !.listed = FALSE]]

Request(op, p, o) == [op |-> op, path |-> p, origin |-> o]

\* calls_call_set_state() of the call objects of a path whose proxies live.
FollowNet(ob, p, s) ==
  [i \in DOMAIN ob |-> IF ob[i].path = p THEN [ob[i] EXCEPT !.state = s] ELSE ob[i]]

-----------------------------------------------------------------------------
\* The calls of a modem that goes, and what was asked of it, are lost.
CallsLost ==
  net' = [p \in Path |-> IF Exists(p) THEN "GONE" ELSE net[p]]

\* A request about a call that the service refuses: the program only reports
\* the error, whatever the request was.
RequestFails(r) ==
  /\ r \in asked
  /\ Settle(pending, asked \ {r}, origins, objs)
  /\ UNCHANGED <<plugin, serviceVars>>

ModemTypeOK ==
  /\ plugin \in {"mm", "ofono", "dummy"}
  /\ svcUp \in BOOLEAN /\ modem \in {"none", "plain", "voice"}
  /\ net \in [Path -> NetState]
  /\ \A o \in DOMAIN origins : \A p \in Path :
       LET i == origins[o].table[p]
       IN  i # 0 => i \in DOMAIN objs /\ objs[i].path = p /\ objs[i].origin = o /\ ~objs[i].dropped
=============================================================================
