-------------------------- MODULE CallsRingerCalls -------------------------
(***************************************************************************)
(* The ringer fed by real calls: CallsRinger, whose calls ask for anything *)
(* at any time, put behind the manager.  The ringer keeps a list of its    *)
(* own (self->calls), which equals the manager's table: it follows         *)
(* ui-call-added and ui-call-removed.                                      *)
(*                                                                         *)
(* A step is a callback: of the manager, with the reaction of the ringer,  *)
(* or of the feedback service.                                             *)
(***************************************************************************)
EXTENDS CallsManager

CONSTANTS
  ExplicitReason, OtherReasons, MayFail, InOrder,   \* the service, as in CallsRinger
  MaxRequests   \* bound: the calls do not change while this many are open

VARIABLES state, target, frozen, notified, requests, playing, ended

\* have_incoming_call() and have_active_call(), over the calls of the table.
HaveIncoming ==
  \E c \in table : ui[c].state = "INCOMING" /\ ~ui[c].silenced /\ ui[c].uiActive

HaveActive == \E c \in table : ui[c].state \in {"ACTIVE", "CALLING", "HELD"}

Ringer == INSTANCE CallsRinger WITH incoming <- HaveIncoming, active <- HaveActive

ASSUME ServiceAssumption == Ringer!ServiceAssumption

ringerVars == <<state, target, frozen, notified, requests, playing, ended>>
vars       == <<originVars, managerVars, ringerVars>>

-----------------------------------------------------------------------------
\* Mutant: notify::silenced is not connected.
RingerListensSilenced ==
  /\ IF Added \union Removed \union Moved \union Shown # {}
       THEN Ringer!UpdateRing
       ELSE UNCHANGED <<state, target, frozen, notified, requests>>
  /\ UNCHANGED <<playing, ended>>

\* call_added_cb(), call_removed_cb(), and update_ring() on the notify::state,
\* notify::silenced and notify::ui-active of the calls.
RingerListens ==
  /\ IF Added \union Removed \union Moved \union Shown \union Hushed # {}
       THEN Ringer!UpdateRing
       ELSE UNCHANGED <<state, target, frozen, notified, requests>>
  /\ UNCHANGED <<playing, ended>>

CallStep ==
  /\ Len(requests) < MaxRequests
  /\ ManagerStep \/ (RemoveDelayed /\ UNCHANGED hungUp)
  /\ RingerListens

\* A callback of the feedback service.
ServiceStep(A) == UNCHANGED <<originVars, managerVars>> /\ A

ServiceAnswers    == ServiceStep(Ringer!Answer)
ServiceSignals(e) == ServiceStep(Ringer!FeedbackEnded(e))
ServiceStops(e)   == ServiceStep(Ringer!FeedbackOver(e))

Init == ManagerInit /\ Ringer!Init

Next ==
  \/ CallStep
  \/ ServiceAnswers
  \/ \E e \in Ringer!Event : ServiceSignals(e) \/ ServiceStops(e)

Spec == Init /\ [][Next]_vars

\* Nobody is obliged to call, to answer or to hang up; the service is, as in
\* CallsRinger.
Fairness ==
  /\ WF_vars(ServiceAnswers)
  /\ \A e \in Ringer!Event : WF_vars(ServiceSignals(e))
  /\ WF_vars(ServiceStops("RINGING_SOFT"))

FairSpec == Spec /\ Fairness

-----------------------------------------------------------------------------
\* The manager drives the ringer as CallsRinger allows: every change of what
\* have_incoming_call() and have_active_call() say comes with an update_ring().
DrivesRinger == Ringer!Spec

\* What the calls of the phone ask for, as the manager and its user interface
\* present them, is what it does once the service is quiet (update_ring).
SettledAsWanted == Ringer!SettledAsWanted

\* A call that goes on ringing, and is neither silenced nor taken, makes the
\* phone ring, again and again if the feedback ends by itself.
RingsWhenWanted == Ringer!RingsWhenWanted
=============================================================================
