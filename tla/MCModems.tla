------------------------------ MODULE MCModems ------------------------------
(***************************************************************************)
(* Three questions for one run: the calls of a modem, its USSD sessions,   *)
(* and the contacts whose names its calls are shown with.  They share no   *)
(* state, and only one moves.                                              *)
(***************************************************************************)
EXTENDS CallsModems, CallsUssd, CallsContacts

VARIABLE studied

vars == <<studied, modemsVars, ussdVars, contactsVars>>

\* One contact's number is the one looked up as it is, the other's only with
\* the code of the country.
MCMatching == [c \in Country |-> IF c = "" THEN {2} ELSE {1}]

\* While something else is studied, the modem is the dummy provider's at its
\* start.
Init ==
  /\ studied \in {"calls", "ussd", "contacts"}
  /\ ModemsInit /\ UssdInit /\ ContactsInit
  /\ studied # "calls" => plugin = "dummy"
  /\ studied # "ussd" => service = "mm"

Next ==
  \/ studied = "calls" /\ ModemsNext /\ UNCHANGED <<studied, ussdVars, contactsVars>>
  \/ studied = "ussd" /\ UssdNext /\ UNCHANGED <<studied, modemsVars, contactsVars>>
  \/ studied = "contacts" /\ ContactsNext /\ UNCHANGED <<studied, modemsVars, ussdVars>>

Spec == Init /\ [][Next]_vars
=============================================================================
