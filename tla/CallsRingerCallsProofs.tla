----------------------- MODULE CallsRingerCallsProofs ----------------------
(***************************************************************************)
(* Proofs about CallsRingerCalls, for any calls, origins and service: the  *)
(* manager and the UI data of its calls drive the ringer as CallsRinger    *)
(* lets its calls behave.  What CallsRingerProofs shows of a ringer whose  *)
(* calls may ask for anything therefore holds of the one fed by the        *)
(* manager: its theorems are taken over through the instance `Proofs`.     *)
(***************************************************************************)
EXTENDS CallsRingerCalls, TLAPS

Proofs == INSTANCE CallsRingerProofs WITH incoming <- HaveIncoming, active <- HaveActive

-----------------------------------------------------------------------------
(* The refinement. *)

\* A step in which no call is added, removed, or changes a property the ringer
\* listens to changes neither have_incoming_call() nor have_active_call().
LEMMA QuietStep ==
  ASSUME Added \union Removed \union Moved \union Shown \union Hushed = {}
  PROVE  HaveIncoming' = HaveIncoming /\ HaveActive' = HaveActive
<1>1. table' = table
  BY DEF Added, Removed
<1>2. \A c \in table : /\ ui'[c].state = ui[c].state
                       /\ ui'[c].uiActive = ui[c].uiActive
                       /\ ui'[c].silenced = ui[c].silenced
  BY <1>1 DEF Kept, Moved, Shown, Hushed
<1>3. QED
  BY <1>1, <1>2 DEF HaveIncoming, HaveActive

\* A callback of the manager is a signal of the calls, or none the ringer sees.
LEMMA CallStepRefines == CallStep => [Ringer!CallsSignal]_(Ringer!vars)
<1> SUFFICES ASSUME CallStep PROVE [Ringer!CallsSignal]_(Ringer!vars)
  OBVIOUS
<1>1. Len(requests) < MaxRequests /\ RingerListens
  BY DEF CallStep
<1>2. CASE Added \union Removed \union Moved \union Shown \union Hushed # {}
  <2>1. Ringer!UpdateRing /\ UNCHANGED <<playing, ended>>
    BY <1>1, <1>2 DEF RingerListens
  <2>2. HaveIncoming' \in BOOLEAN /\ HaveActive' \in BOOLEAN
    BY DEF HaveIncoming, HaveActive
  <2>3. QED
    BY <1>1, <2>1, <2>2 DEF Ringer!CallsSignal
<1>3. CASE Added \union Removed \union Moved \union Shown \union Hushed = {}
  BY <1>1, <1>3, QuietStep DEF RingerListens, Ringer!vars
<1>4. QED
  BY <1>2, <1>3

\* Every step is one of CallsRinger, or changes nothing there.
LEMMA StepRefines == [Next]_vars => [Ringer!Next]_(Ringer!vars)
<1>1. CallStep => [Ringer!Next]_(Ringer!vars)
  BY CallStepRefines DEF Ringer!Next
<1>2. ServiceAnswers => Ringer!Next
  BY DEF ServiceAnswers, ServiceStep, Ringer!Next
<1>3. ASSUME NEW e \in Ringer!Event, ServiceSignals(e) \/ ServiceStops(e)
      PROVE  Ringer!Next
  BY <1>3 DEF ServiceSignals, ServiceStops, ServiceStep, Ringer!Next
<1>4. UNCHANGED vars => UNCHANGED Ringer!vars
  BY DEF vars, managerVars, ringerVars, Ringer!vars, HaveIncoming, HaveActive
<1>5. QED
  BY <1>1, <1>2, <1>3, <1>4 DEF Next

\* The ringer behind the manager is the ringer of CallsRinger: each change of
\* what its calls ask for comes with an update_ring().
THEOREM RefinesRinger == Spec => DrivesRinger
<1>1. Init => Ringer!Init
  BY DEF Init
<1>2. [Next]_vars => [Ringer!Next]_(Ringer!vars)
  BY StepRefines
<1>3. QED
  BY <1>1, <1>2, PTL DEF Spec, DrivesRinger, Ringer!Spec

-----------------------------------------------------------------------------
(* The theorems of the ringer, taken over. *)

\* The instance the theorems come from is the ringer of this module.
LEMMA SameRinger == Spec => Proofs!Spec
<1>1. Ringer!Init => Proofs!Init
  BY DEF Ringer!Init, Proofs!Init
<1>2. ASSUME NEW q PROVE Ringer!TargetStateStep(q) = Proofs!TargetStateStep(q)
  BY DEF Ringer!TargetStateStep, Proofs!TargetStateStep, Ringer!Event, Proofs!Event,
         Ringer!Trigger, Proofs!Trigger, Ringer!End, Proofs!End
<1>3. ASSUME NEW s, NEW q PROVE Ringer!SetRingState(s, q) = Proofs!SetRingState(s, q)
  BY <1>2 DEF Ringer!SetRingState, Proofs!SetRingState
<1>4. Ringer!CallsSignal => Proofs!CallsSignal
  BY <1>2 DEF Ringer!CallsSignal, Proofs!CallsSignal, Ringer!UpdateRing, Proofs!UpdateRing,
              Ringer!SetTargetState, Proofs!SetTargetState, Ringer!Wanted, Proofs!Wanted,
              Ringer!ringerVars, Proofs!ringerVars
<1>5. Ringer!Answer => Proofs!Answer
  BY <1>3 DEF Ringer!Answer, Proofs!Answer, Ringer!Triggered, Proofs!Triggered,
              Ringer!EndAnswered, Proofs!EndAnswered, Ringer!Failed, Proofs!Failed,
              Ringer!callsVars, Proofs!callsVars, Ringer!ringerVars, Proofs!ringerVars
<1>6. ASSUME NEW e
      PROVE  /\ Ringer!FeedbackOver(e) => Proofs!FeedbackOver(e)
             /\ Ringer!FeedbackEnded(e) => Proofs!FeedbackEnded(e)
  BY <1>3 DEF Ringer!FeedbackOver, Proofs!FeedbackOver,
              Ringer!FeedbackEnded, Proofs!FeedbackEnded,
              Ringer!EndReason, Proofs!EndReason,
              Ringer!callsVars, Proofs!callsVars, Ringer!ringerVars, Proofs!ringerVars
<1>7. Ringer!Event = Proofs!Event
  BY DEF Ringer!Event, Proofs!Event
<1>8. [Ringer!Next]_(Ringer!vars) => [Proofs!Next]_(Proofs!vars)
  BY <1>4, <1>5, <1>6, <1>7 DEF Ringer!Next, Proofs!Next, Ringer!vars, Proofs!vars
<1>9. Ringer!Spec => Proofs!Spec
  BY <1>1, <1>8, PTL DEF Ringer!Spec, Proofs!Spec
<1>10. QED
  BY <1>9, RefinesRinger DEF DrivesRinger

\* With a service that never fails and never reports NOT_FOUND or EXPLICIT,
\* whenever nothing is under way the phone does exactly what the calls of the
\* manager ask for.
THEOREM FollowsManager ==
  ASSUME Proofs!NaturalService PROVE Spec => []SettledAsWanted
<1>1. Proofs!ServiceAssumption
  BY ServiceAssumption DEF Ringer!ServiceAssumption, Proofs!ServiceAssumption,
       Ringer!EndReason, Proofs!EndReason
<1>2. Proofs!Spec => []Proofs!SettledAsWanted
  BY <1>1, Proofs!FollowsCalls
<1>3. Proofs!SettledAsWanted => SettledAsWanted
  BY DEF SettledAsWanted, Ringer!SettledAsWanted, Proofs!SettledAsWanted,
         Ringer!Settled, Proofs!Settled, Ringer!Wanted, Proofs!Wanted
<1>4. QED
  BY <1>2, <1>3, SameRinger, PTL

\* A phone that the manager's calls make ring is heard to ring, or is about to
\* be told that the feedback ended.
THEOREM ManagerRingsAudibly == Spec => []Ringer!RingingIsAudible
<1>1. Proofs!ServiceAssumption
  BY ServiceAssumption DEF Ringer!ServiceAssumption, Proofs!ServiceAssumption,
       Ringer!EndReason, Proofs!EndReason
<1>2. Proofs!Spec => []Proofs!RingingIsAudible
  BY <1>1, Proofs!RingingAudible
<1>3. Proofs!RingingIsAudible => Ringer!RingingIsAudible
  BY DEF Ringer!RingingIsAudible, Proofs!RingingIsAudible, Ringer!Event, Proofs!Event,
         Ringer!EndReason, Proofs!EndReason
<1>4. QED
  BY <1>2, <1>3, SameRinger, PTL
=============================================================================
