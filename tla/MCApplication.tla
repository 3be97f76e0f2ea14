--------------------------- MODULE MCApplication ---------------------------
(***************************************************************************)
(* Three questions for one run: what the application dials with its        *)
(* plugins and accounts, with a keyring that does nothing and no form that *)
(* edits an account; what it stores of its accounts, with nothing to dial; *)
(* and one of these accounts with its registration, its network and its    *)
(* calls.  The last shares no state with the others, and does not move     *)
(* with them.                                                              *)
(***************************************************************************)
EXTENDS CallsApplication, CallsSipAccount

CONSTANTS a1, a2, k1

VARIABLE studied

\* No account, one for telephone numbers, and two with one password.
MCStored ==
  LET first  == [id |-> a1, key |-> k1, tel |-> TRUE]
      second == [id |-> a2, key |-> k1, tel |-> FALSE]
  IN  {{}, {first}, {first, second}}

\* The default of autoload-plugins.
MCAutoload == <<"mm", "sip">>

\* Handles of calls are interchangeable, and no property is a temporal one.
MCSymmetry == Permutations(Handles)

MCInit ==
  /\ studied \in {"dialling", "editing", "account"}
  /\ Init /\ AccountInit
  /\ studied = "account" => file = {} /\ useDefault
  /\ studied = "editing" => useDefault
  /\ studied # "account" =>
       acct.direct /\ acct.auto /\ acct.nua = "up" /\ net.known = CHOOSE n \in Nets : TRUE

MCNext ==
  \/ studied = "dialling" /\ Next /\ ring' = ring /\ saves' = 0 /\ UNCHANGED <<studied, accountVars>>
  \/ studied = "editing" /\ Next /\ prog'.asked = {} /\ UNCHANGED <<studied, accountVars>>
  \/ studied = "account" /\ AccountNext /\ UNCHANGED <<studied, vars>>

MCSpec == MCInit /\ [][MCNext]_<<studied, vars, accountVars>>
=============================================================================
