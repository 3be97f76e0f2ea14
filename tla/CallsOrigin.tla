---------------------------- MODULE CallsOrigin ----------------------------
(***************************************************************************)
(* What the rest of the program may rely on from an origin (a modem, a SIP *)
(* account, the dummy) and its calls: the CallsOrigin interface with its   *)
(* call-added and call-removed signals, and the CallsCall base class.      *)
(*                                                                         *)
(* This is the contract the manager is written against.  A call object is  *)
(* used once: it is announced, its state moves on, DISCONNECTED is final,  *)
(* and it is dropped (call-removed) once, usually but not necessarily      *)
(* after it was disconnected - an origin that goes away drops its calls in *)
(* whatever state they are.  It may announce calls after it left, while a  *)
(* request of it is under way: the manager listens on.                     *)
(***************************************************************************)
EXTENDS FiniteSets

CONSTANTS
  Call,
  Origin,
  NoOrigin     \* the "call-origin" of a call nobody announced

ASSUME OriginAssumption == NoOrigin \notin Origin

VARIABLES
  origins,     \* origins the manager knows (CallsManager.origins_flat)
  calls,       \* calls the origins list (their "calls" property)
  originOf,    \* "call-origin" of a call, once it was announced
  callState,   \* CallsCallPrivate.state, "NONE" before the call, "GONE" after it
  hungUp       \* CallsCallPrivate.hung_up of calls that have not ended

originVars == <<origins, calls, originOf, callState, hungUp>>

\* UNKNOWN: what an origin makes of a state it has no name for.
CallState == {"UNKNOWN", "DIALING", "ALERTING", "INCOMING", "ACTIVE", "HELD", "DISCONNECTED"}

\* Where a call may go from a state: an origin that follows a remote service
\* may miss states in between.
Successors(s) ==
  IF s = "DISCONNECTED" THEN {} ELSE CallState \ {s, "UNKNOWN"}

-----------------------------------------------------------------------------
NoCalls ==
  /\ calls = {}
  /\ originOf = [c \in Call |-> NoOrigin]
  /\ callState = [c \in Call |-> "NONE"]
  /\ hungUp = {}

OriginInit == origins = {} /\ NoCalls

\* An origin joins with no calls of its own: every provider of the source
\* learns of the calls of a new origin later.
OriginJoins(o) ==
  /\ o \notin origins
  /\ \A c \in calls : originOf[c] # o
  /\ origins' = origins \union {o}
  /\ UNCHANGED <<calls, originOf, callState>>

OriginLeaves(o) ==
  /\ o \in origins
  /\ origins' = origins \ {o}
  /\ UNCHANGED <<calls, originOf, callState>>

\* "call-added": a call in any state, for a modem may be in a call already.
Announce(o, c, s) ==
  /\ callState[c] = "NONE"
  /\ calls' = calls \union {c}
  /\ originOf' = [originOf EXCEPT ![c] = o]
  /\ callState' = [callState EXCEPT ![c] = s]
  /\ UNCHANGED <<origins, hungUp>>

\* calls_call_set_state() by the origin, on the network's word or our own.
\* The object of a dropped call may still hear of it.
MoveOn(c, s) ==
  /\ callState[c] \in CallState
  /\ s \in Successors(callState[c])
  /\ callState' = [callState EXCEPT ![c] = s]
  /\ hungUp' = IF s = "DISCONNECTED" THEN hungUp \ {c} ELSE hungUp
  /\ UNCHANGED <<origins, originOf>>

\* "call-removed".
Drop(c) ==
  /\ c \in calls
  /\ calls' = calls \ {c}

\* calls_call_hang_up() on calls nobody asked to end by name.  (The user who
\* ends one call, like the one who answers it, only makes its origin act.)
\* What the origin makes of it is a MoveOn; nothing becomes of it once the call
\* ended or was dropped.
HangUp(C) == hungUp' = hungUp \union {c \in C \intersect calls : callState[c] # "DISCONNECTED"}

-----------------------------------------------------------------------------
(* The contract as a whole.  A callback of an origin may signal several    *)
(* times; the manager takes the signals one by one.                        *)

CallObeys(c) ==
  \/ /\ UNCHANGED <<callState[c], originOf[c]>>
     /\ c \in calls' => c \in calls
  \/ /\ callState[c] = "NONE" /\ callState'[c] \in CallState
     /\ originOf'[c] \in Origin       \* announced, and dropped at once or not
  \/ /\ callState[c] \in CallState
     /\ c \in calls' => c \in calls
     /\ callState'[c] \in Successors(callState[c])
     /\ UNCHANGED originOf[c]

OriginsObey ==
  \A o \in origins' \ origins : \A c \in calls : originOf[c] # o

Contract ==
  /\ NoCalls
  /\ [][OriginsObey /\ \A c \in Call : CallObeys(c)]_<<origins, calls, originOf, callState>>

OriginTypeOK ==
  /\ origins \subseteq Origin
  /\ calls \subseteq Call
  /\ originOf \in [Call -> Origin \union {NoOrigin}]
  /\ callState \in [Call -> CallState \union {"NONE", "GONE"}]
  /\ hungUp \subseteq Call
=============================================================================
