---------------------------- MODULE CallsManager ---------------------------
(***************************************************************************)
(* The manager (src/calls-manager.c) and the UI data it wraps around every *)
(* call (src/calls-ui-call-data.c).                                        *)
(*                                                                         *)
(* The manager keeps a call for 3 s after its origin dropped it, so that   *)
(* all front ends stop showing it together.  The UI data of a ringing call *)
(* stays inactive for 100 ms: a call gone by then is never shown or rung.  *)
(*                                                                         *)
(* One action is one callback of the main loop; GObject signals run their  *)
(* handlers inside it.  Both timeouts are main-loop sources: the removals  *)
(* all take 3 s and therefore run in the order they were scheduled, and    *)
(* the 100 ms of a call are over before any 3 s that began after it.       *)
(* Abstracted: names, avatars, DTMF, the country code, dial actions, the   *)
(* active time and the sound played when the remote side hangs up.         *)
(***************************************************************************)
EXTENDS CallsOrigin, Naturals, Sequences

CONSTANTS
  FirstStates,    \* bound: the states in which calls are announced
  NextStates      \* bound: the states they move on to

ASSUME StatesAssumption == FirstStates \subseteq CallState /\ NextStates \subseteq CallState

VARIABLES
  table,      \* keys of CallsManager.calls
  ui,         \* the CallsUiCallData of a call
  removals    \* calls whose on_remove_delayed() is scheduled, oldest first

managerVars == <<table, ui, removals>>

CuiState == {"UNKNOWN", "CALLING", "INCOMING", "ACTIVE", "HELD", "DISCONNECTED"}

UiData == [state: CuiState,
           silenced: BOOLEAN,
           uiActive: BOOLEAN,
           setActive: BOOLEAN]    \* set_active_id: the 100 ms timeout is pending

NoUi == [state |-> "NONE", silenced |-> FALSE, uiActive |-> FALSE, setActive |-> FALSE]

-----------------------------------------------------------------------------
(* CallsUiCallData *)

\* calls_call_state_to_cui_call_state()
CuiOf(s) == IF s \in {"DIALING", "ALERTING"} THEN "CALLING" ELSE s

\* set_state(): the end of the call also ends the wait for the UI.
UiSetState(u, s) == [u EXCEPT !.state = s, !.setActive = @ /\ s # "DISCONNECTED"]

\* calls_ui_call_data_new(): takes the call's state, then decides whether the
\* UI waits.  Only inbound calls are ever INCOMING.
NewUi(s) ==
  LET waits == CuiOf(s) = "INCOMING"
  IN  [UiSetState(NoUi, CuiOf(s)) EXCEPT !.uiActive = ~waits, !.setActive = waits]

-----------------------------------------------------------------------------
ManagerInit ==
  /\ OriginInit
  /\ table = {}
  /\ ui = [c \in Call |-> NoUi]
  /\ removals = <<>>

\* on_origins_changed() for one origin that joined.
AddOrigin(o) ==
  /\ OriginJoins(o)
  /\ UNCHANGED <<hungUp, managerVars>>

\* An origin leaves, alone (its modem was unplugged) or with its provider.
\* on_providers_changed() then hangs up on the calls it leaves behind.
RemoveOrigin(o) ==
  /\ OriginLeaves(o)
  /\ \/ UNCHANGED hungUp
     \/ HangUp({c \in table : originOf[c] \notin origins'})
  /\ UNCHANGED managerVars

\* add_call()
AddCall(o, c) ==
  \E s \in FirstStates :
    /\ Announce(o, c, s)
    /\ table' = table \union {c}
    /\ ui' = [ui EXCEPT ![c] = NewUi(s)]
    /\ UNCHANGED removals

\* The call's notify::state, and on_notify_state() of its UI data.  An origin
\* that drops a call as it disconnects does so in the same callback.
CallStateChanged(c) ==
  \E s \in NextStates :
    /\ MoveOn(c, s)
    /\ \/ UNCHANGED <<calls, removals>>
       \/ s = "DISCONNECTED" /\ Drop(c) /\ removals' = Append(removals, c)
    /\ ui' = [ui EXCEPT ![c] = UiSetState(@, CuiOf(s))]
    /\ UNCHANGED table

\* remove_call()
RemoveCall(c) ==
  /\ Drop(c)
  /\ removals' = Append(removals, c)
  /\ hungUp' = hungUp \ {c}
  /\ UNCHANGED <<origins, originOf, callState, table, ui>>

\* Mutant: the call is announced as removed but stays in the table.
RemoveDelayedStays ==
  /\ removals # <<>>
  /\ ~ui[Head(removals)].setActive
  /\ removals' = Tail(removals)
  /\ UNCHANGED <<origins, calls, originOf, callState, table, ui>>

\* on_remove_delayed().  A front end may react to it by hanging up on calls,
\* so hungUp is left to the module that composes them.
RemoveDelayed ==
  /\ removals # <<>>
  /\ ~ui[Head(removals)].setActive      \* its 100 ms were over long ago
  /\ removals' = Tail(removals)
  /\ table' = table \ {Head(removals)}
  /\ ui' = [ui EXCEPT ![Head(removals)] = NoUi]
  /\ callState' = [callState EXCEPT ![Head(removals)] = "GONE"]
  /\ UNCHANGED <<origins, calls, originOf>>

\* on_delay_set_active()
DelaySetActive(c) ==
  /\ ui[c].setActive
  /\ ui' = [ui EXCEPT ![c].uiActive = TRUE, ![c].setActive = FALSE]
  /\ UNCHANGED <<originVars, table, removals>>

\* calls_ui_call_data_silence_ring(), by the user in a window or over D-Bus.
SilenceRing(c) ==
  /\ c \in table
  /\ ui[c].state = "INCOMING" /\ ~ui[c].silenced
  /\ ui' = [ui EXCEPT ![c].silenced = TRUE]
  /\ UNCHANGED <<originVars, table, removals>>

\* calls_manager_hang_up_all_calls(), of which front ends make use.
HangUpAllCalls == HangUp({c \in calls : originOf[c] \in origins})

\* A step of the manager other than a removal.
ManagerStep ==
  \/ \E o \in Origin : AddOrigin(o) \/ RemoveOrigin(o) \/ \E c \in Call : AddCall(o, c)
  \/ \E c \in Call : CallStateChanged(c) \/ RemoveCall(c) \/ DelaySetActive(c) \/ SilenceRing(c)

-----------------------------------------------------------------------------
(* What the manager and the UI data of its calls signal in a step.  The    *)
(* handlers of its listeners run in that step.                             *)

Added   == table' \ table                                \* ui-call-added
Removed == table \ table'                                \* ui-call-removed
Kept    == table \intersect table'
Moved   == {c \in Kept : ui'[c].state # ui[c].state}      \* state-changed
Shown   == {c \in Kept : ui'[c].uiActive # ui[c].uiActive}
Hushed  == {c \in Kept : ui'[c].silenced # ui[c].silenced}

-----------------------------------------------------------------------------
ManagerTypeOK ==
  /\ OriginTypeOK
  /\ table \subseteq Call
  /\ ui \in [Call -> UiData \union {NoUi}]
  /\ removals \in Seq(Call)
=============================================================================
