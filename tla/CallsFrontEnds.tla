--------------------------- MODULE CallsFrontEnds --------------------------
(***************************************************************************)
(* The manager together with the front ends that show its calls: the call  *)
(* window (src/calls-call-window.c), the D-Bus objects                     *)
(* (src/calls-dbus-manager.c) and the missed call notifier                 *)
(* (src/calls-notifier.c).                                                 *)
(*                                                                         *)
(* They listen to the manager and to the UI data, inside the callback that *)
(* emits the signal: a step of this module is a step of the manager        *)
(* followed by the reaction of each of them.  Abstracted: the widgets, the *)
(* D-Bus paths and methods, and the text of notifications.                 *)
(***************************************************************************)
EXTENDS CallsManager

VARIABLES
  window,      \* calls with a display in CallsCallWindow.calls
  visible,     \* the call window is visible
  inhibited,   \* inhibit_cookie # 0: the session may not suspend or lock
  objs,        \* calls with an object in CallsDBusManager.objs
  hints,       \* calls whose D-Bus hints say that their UI is active
  unanswered,  \* CallsNotifier.unanswered
  missed,      \* number of missed call notifications sent for a call
  story        \* history: of a call announced as INCOMING, what its origin said next

windowVars   == <<window, visible, inhibited>>
busVars      == <<objs, hints>>
notifierVars == <<unanswered, missed, story>>
vars         == <<originVars, managerVars, windowVars, busVars, notifierVars>>

-----------------------------------------------------------------------------
(* The call window. *)

\* Mutant: calls that are active from the start wait for notify::ui-active.
WindowListensLate ==
  LET displayed == {c \in Shown : ui'[c].uiActive}
  IN  /\ window' = (window \union displayed) \ Removed
      /\ IF displayed \union Removed = {}
           THEN UNCHANGED <<visible, inhibited>>
           ELSE visible' = (window' # {}) /\ inhibited' = (window' # {})

\* add_call(), on_call_notify_active_ui() and remove_call(); each of them ends
\* in update_visibility().
WindowListens ==
  LET displayed == {c \in Added \union Shown : ui'[c].uiActive}
  IN  /\ window' = (window \union displayed) \ Removed
      /\ IF displayed \union Removed = {}
           THEN UNCHANGED <<visible, inhibited>>
           ELSE visible' = (window' # {}) /\ inhibited' = (window' # {})

\* notify_window_visible_cb() of the application: a window that is hidden,
\* by the user or by update_visibility(), ends the calls.
HiddenHangsUp ==
  IF visible /\ ~visible' THEN HangUpAllCalls ELSE UNCHANGED hungUp

\* The user closes the window, which only hides it.
CloseWindow ==
  /\ visible
  /\ visible' = FALSE
  /\ HiddenHangsUp
  /\ UNCHANGED <<origins, calls, originOf, callState, managerVars, window, inhibited,
                 busVars, notifierVars>>

-----------------------------------------------------------------------------
(* D-Bus: call_added_cb(), call_removed_cb(), on_notify_update_hints(). *)

\* Mutant: call_removed_cb() is not connected.
BusListensOnce ==
  /\ objs' = objs \union Added
  /\ hints' = hints \union {c \in Added \union (Shown \intersect objs) : ui'[c].uiActive}

BusListens ==
  /\ objs' = (objs \union Added) \ Removed
  /\ hints' = ((hints \ Removed)
                 \union {c \in Added \union (Shown \intersect objs) : ui'[c].uiActive})

-----------------------------------------------------------------------------
(* The notifier: call_added_cb() and state_changed_cb().  It stops watching *)
(* a call when its state changes, and not when the call is removed.        *)

\* Mutant: calls that their origin dropped are no longer watched.
NotifierListensListed ==
  LET told == Moved \intersect unanswered \intersect calls'
  IN  /\ unanswered' = (unanswered \ told) \union Added
      /\ missed' = [c \in Call |->
                      IF c \in told /\ ui[c].state = "INCOMING" /\ ui'[c].state = "DISCONNECTED"
                        THEN missed[c] + 1 ELSE missed[c]]

NotifierListens ==
  LET told == Moved \intersect unanswered
  IN  /\ unanswered' = (unanswered \ told) \union Added
      /\ missed' = [c \in Call |->
                      IF c \in told /\ ui[c].state = "INCOMING" /\ ui'[c].state = "DISCONNECTED"
                        THEN missed[c] + 1 ELSE missed[c]]

-----------------------------------------------------------------------------
\* What becomes of the history of a call, whoever listens.
NextInStory(c) ==
  CASE callState[c] = "NONE" /\ callState'[c] = "INCOMING"          -> "ringing"
    [] story[c] = "ringing" /\ callState'[c] = "DISCONNECTED"       -> "unanswered"
    [] story[c] = "ringing" /\ callState'[c] \in
         CallState \ {"INCOMING", "DISCONNECTED"}                    -> "answered"
    [] OTHER                                                        -> story[c]

Listeners ==
  /\ WindowListens
  /\ BusListens
  /\ NotifierListens
  /\ story' = [c \in Call |-> NextInStory(c)]

\* ui-call-removed may hide the window, which hangs up in the same callback.
Removal == RemoveDelayed /\ Listeners /\ HiddenHangsUp

Init ==
  /\ ManagerInit
  /\ window = {} /\ visible = FALSE /\ inhibited = FALSE
  /\ objs = {} /\ hints = {}
  /\ unanswered = {}
  /\ missed = [c \in Call |-> 0]
  /\ story = [c \in Call |-> "none"]

Next ==
  \/ ManagerStep /\ Listeners
  \/ Removal
  \/ CloseWindow

\* The main loop runs its timeouts.  Nothing makes an origin, the remote side
\* or the user act.
Fairness ==
  /\ WF_vars(Removal)
  /\ \A c \in Call : WF_vars(DelaySetActive(c) /\ Listeners)

Spec     == Init /\ [][Next]_vars
FairSpec == Spec /\ Fairness

-----------------------------------------------------------------------------
TypeOK ==
  /\ ManagerTypeOK
  /\ window \subseteq Call /\ visible \in BOOLEAN /\ inhibited \in BOOLEAN
  /\ objs \subseteq Call /\ hints \subseteq Call
  /\ unanswered \subseteq Call
  /\ missed \in [Call -> Nat]
  /\ story \in [Call -> {"none", "ringing", "unanswered", "answered"}]

\* The manager keeps exactly the calls its origins list and those dropped less
\* than 3 s ago, and each of the latter has one removal to come (add_call,
\* remove_call and on_remove_delayed, over any number of overlapping calls).
TableAccounts ==
  /\ table = calls \union {removals[i] : i \in DOMAIN removals}
  /\ \A i \in DOMAIN removals :
       removals[i] \notin calls /\ \A j \in DOMAIN removals : removals[i] = removals[j] => i = j

\* The window, the session and D-Bus tell the same story: what remove_call()
\* of the manager delays the removal for.
FrontEndsAgree ==
  /\ objs = table
  /\ window = {c \in table : ui[c].uiActive}
  /\ hints = window
  /\ inhibited = (window # {})

\* A call announced as ringing, which its origin then says has ended and nothing
\* before that, is reported as missed, at that moment and once, whether the origin
\* still lists the call or dropped it; no other call ever is (state_changed_cb of
\* the notifier).  A call that its origin dropped while it rang, and of which
\* nothing is heard in the 3 s that it is kept, still counts as ringing, and is not
\* reported.
MissedReported ==
  \A c \in Call : missed[c] = IF story[c] = "unanswered" THEN 1 ELSE 0

\* A dropped call disappears from the table and from every front end.
DroppedDisappears ==
  \A c \in Call : (c \in table /\ c \notin calls) ~> c \notin table \union window \union objs
=============================================================================
