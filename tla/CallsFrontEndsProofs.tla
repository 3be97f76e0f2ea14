------------------------- MODULE CallsFrontEndsProofs -------------------------
(***************************************************************************)
(* Theorems about CallsFrontEnds: for any number of calls and origins, the *)
(* manager accounts for every call, the front ends agree, and missed calls *)
(* are reported as they should.                                            *)
(***************************************************************************)
EXTENDS CallsFrontEnds, TLAPS

-----------------------------------------------------------------------------
(* The inductive invariant. *)

\* A call is in the table as long as it has a state, and its UI data follows.
InTable ==
  \A c \in Call :
    /\ c \in table <=> callState[c] \in CallState
    /\ c \in table => ui[c] \in UiData /\ ui[c].state = CuiOf(callState[c])
    /\ c \notin table => ui[c] = NoUi

\* What the notifier remembers of a call fits what became of it.
Remembered ==
  \A c \in Call :
    /\ callState[c] = "NONE" => c \notin unanswered /\ story[c] = "none" /\ missed[c] = 0
    /\ c \in table => (story[c] = "ringing" <=> c \in unanswered /\ callState[c] = "INCOMING")

IInv ==
  /\ TypeOK
  /\ TableAccounts
  /\ FrontEndsAgree
  /\ MissedReported
  /\ InTable
  /\ Remembered

-----------------------------------------------------------------------------
(* The queue of removals. *)

Elems(s) == {s[i] : i \in DOMAIN s}

Once(s) == \A i, j \in DOMAIN s : s[i] = s[j] => i = j

LEMMA Appended ==
  ASSUME NEW s \in Seq(Call), NEW c \in Call, Once(s), c \notin Elems(s)
  PROVE  /\ Append(s, c) \in Seq(Call)
         /\ Elems(Append(s, c)) = Elems(s) \union {c}
         /\ Once(Append(s, c))
BY DEF Elems, Once

LEMMA Removals ==
  ASSUME NEW s \in Seq(Call), s # <<>>, Once(s)
  PROVE  /\ Tail(s) \in Seq(Call)
         /\ Head(s) \in Elems(s) /\ Head(s) \in Call
         /\ Elems(Tail(s)) = Elems(s) \ {Head(s)}
         /\ Once(Tail(s))
<1>1. /\ Tail(s) \in Seq(Call)
      /\ DOMAIN s = 1..Len(s) /\ Len(s) \in Nat /\ Len(s) > 0
      /\ Head(s) = s[1] /\ Head(s) \in Call
      /\ DOMAIN Tail(s) = 1..(Len(s) - 1)
      /\ \A i \in 1..(Len(s) - 1) : Tail(s)[i] = s[i + 1]
  OBVIOUS
<1>2. Head(s) \in Elems(s)
  BY <1>1 DEF Elems
<1>3. Once(Tail(s))
  BY <1>1 DEF Once
<1>4. ASSUME NEW x \in Elems(Tail(s)) PROVE x \in Elems(s) \ {Head(s)}
  <2>1. PICK i \in 1..(Len(s) - 1) : x = s[i + 1]
    BY <1>1, <1>4 DEF Elems
  <2> QED BY <1>1, <2>1 DEF Elems, Once
<1>5. ASSUME NEW x \in Elems(s), x # Head(s) PROVE x \in Elems(Tail(s))
  <2>1. PICK i \in 1..Len(s) : x = s[i]
    BY <1>1 DEF Elems
  <2>2. i # 1 /\ i - 1 \in 1..(Len(s) - 1) /\ Tail(s)[i - 1] = x
    BY <1>1, <1>5, <2>1
  <2> QED BY <1>1, <2>2 DEF Elems
<1> QED BY <1>1, <1>2, <1>3, <1>4, <1>5

LEMMA AccountsByElems ==
  TableAccounts <=> /\ table = calls \union Elems(removals)
                    /\ Elems(removals) \intersect calls = {}
                    /\ Once(removals)
BY DEF TableAccounts, Elems, Once
-----------------------------------------------------------------------------
(* What a step does to a call, whichever it is. *)

Stays(c) ==
  /\ callState'[c] = callState[c]
  /\ c \in table' <=> c \in table
  /\ ui'[c].state = ui[c].state

Begins(c) ==
  /\ callState[c] = "NONE" /\ callState'[c] \in CallState
  /\ c \notin table /\ c \in table'
  /\ ui'[c].state = CuiOf(callState'[c])

Moves(c) ==
  /\ callState[c] \in CallState /\ callState'[c] \in Successors(callState[c])
  /\ c \in table /\ c \in table'
  /\ ui'[c].state = CuiOf(callState'[c])

Ends(c) ==
  /\ callState[c] \in CallState /\ callState'[c] = "GONE"
  /\ c \in table /\ c \notin table'

\* The manager's part of the invariant after a step, and what the listeners
\* rely on: a call that is shown stays so.
Managed ==
  /\ ManagerTypeOK' /\ TableAccounts' /\ InTable'
  /\ \A c \in Call : Stays(c) \/ Begins(c) \/ Moves(c) \/ Ends(c)
  /\ \A c \in Kept : ui[c].uiActive => ui'[c].uiActive

-----------------------------------------------------------------------------
(* The listeners follow the manager. *)

LEMMA Agreeing ==
  ASSUME IInv, Managed, WindowListens, BusListens
  PROVE  FrontEndsAgree'
<1> USE DEF IInv, Managed, FrontEndsAgree, Added, Removed, Kept, Shown
<1>1. table \subseteq Call /\ table' \subseteq Call
  BY DEF TypeOK, ManagerTypeOK
<1>2. \A c \in table : ui[c].uiActive \in BOOLEAN
  BY <1>1 DEF InTable, UiData
<1>3. \A c \in table' : ui'[c].uiActive \in BOOLEAN
  BY <1>1 DEF InTable, UiData
<1>4. objs' = table'
  BY DEF BusListens
<1>5. window' = {c \in table' : ui'[c].uiActive}
  BY <1>2, <1>3 DEF WindowListens
<1>6. hints' = window'
  BY <1>2, <1>3, <1>5 DEF BusListens
<1>7. inhibited' = (window' # {})
  BY DEF WindowListens
<1> QED BY <1>4, <1>5, <1>6, <1>7

\* A call that was told of, is told of once; what is remembered still fits.
LEMMA Reporting ==
  ASSUME IInv, Managed, Listeners
  PROVE  /\ MissedReported' /\ Remembered'
         /\ unanswered' \subseteq Call
         /\ missed' \in [Call -> Nat]
         /\ story' \in [Call -> {"none", "ringing", "unanswered", "answered"}]
<1>1. /\ table \subseteq Call /\ table' \subseteq Call
      /\ unanswered \subseteq Call
      /\ missed \in [Call -> Nat]
      /\ story \in [Call -> {"none", "ringing", "unanswered", "answered"}]
  BY DEF IInv, Managed, TypeOK, ManagerTypeOK
<1>2. /\ unanswered' = (unanswered \ (Moved \intersect unanswered)) \union Added
      /\ missed' \in [Call -> Nat]
      /\ story' \in [Call -> {"none", "ringing", "unanswered", "answered"}]
  <2>1. \A c \in Call : NextInStory(c) \in {"none", "ringing", "unanswered", "answered"}
    BY <1>1 DEF NextInStory
  <2>2. story' \in [Call -> {"none", "ringing", "unanswered", "answered"}]
    BY <2>1 DEF Listeners
  <2> QED BY <1>1, <2>2 DEF Listeners, NotifierListens
<1>3. ASSUME NEW c \in Call
      PROVE  /\ missed'[c] = IF /\ c \in Moved /\ c \in unanswered
                               /\ ui[c].state = "INCOMING" /\ ui'[c].state = "DISCONNECTED"
                            THEN missed[c] + 1 ELSE missed[c]
             /\ story'[c] = NextInStory(c)
  BY DEF Listeners, NotifierListens
<1>4. ASSUME NEW c \in Call
      PROVE  /\ c \in table => ui[c].state = CuiOf(callState[c])
             /\ c \in table <=> callState[c] \in CallState
             /\ c \in table' <=> callState'[c] \in CallState
  BY DEF IInv, Managed, InTable
<1>5. ASSUME NEW c \in Call
      PROVE  /\ missed[c] = IF story[c] = "unanswered" THEN 1 ELSE 0
             /\ callState[c] = "NONE" => c \notin unanswered /\ story[c] = "none"
             /\ c \in table => (story[c] = "ringing" <=> c \in unanswered /\ callState[c] = "INCOMING")
  BY DEF IInv, MissedReported, Remembered
<1> DEFINE Told(c) ==
      /\ missed'[c] = IF story'[c] = "unanswered" THEN 1 ELSE 0
      /\ callState'[c] = "NONE" => c \notin unanswered' /\ story'[c] = "none" /\ missed'[c] = 0
      /\ c \in table' => (story'[c] = "ringing" <=> c \in unanswered' /\ callState'[c] = "INCOMING")
<1>6. ASSUME NEW c \in Call, Stays(c) PROVE Told(c)
  <2>1. c \notin Moved /\ c \notin Added /\ missed'[c] = missed[c]
    BY <1>3, <1>6 DEF Stays, Moved, Added, Kept
  <2>2. (c \in unanswered' <=> c \in unanswered) /\ callState'[c] = callState[c]
    BY <1>2, <1>6, <2>1 DEF Stays
  <2>3. story'[c] = story[c]
    <3>1. callState'[c] \in CallState => c \in table
      BY <1>4, <2>2
    <3>2. "DISCONNECTED" \in CallState
      BY DEF CallState
    <3>3. story[c] = "ringing" /\ callState'[c] \in CallState => callState'[c] = "INCOMING"
      BY <1>5, <2>2, <3>1
    <3>4. callState[c] = "NONE" => callState'[c] # "INCOMING"
      BY <2>2
    <3> QED BY <1>3, <3>2, <3>3, <3>4 DEF NextInStory
  <2> QED BY <1>5, <1>6, <2>1, <2>2, <2>3 DEF Stays
<1>7. ASSUME NEW c \in Call, Begins(c) PROVE Told(c)
  <2>1. c \notin Moved /\ c \in Added /\ missed'[c] = missed[c]
    BY <1>3, <1>7 DEF Begins, Moved, Added, Kept
  <2>2. c \in unanswered' /\ callState[c] = "NONE" /\ story[c] = "none" /\ callState'[c] # "NONE"
    BY <1>2, <1>5, <1>7, <2>1 DEF Begins, CallState
  <2>3. story'[c] = IF callState'[c] = "INCOMING" THEN "ringing" ELSE "none"
    BY <1>3, <2>2 DEF NextInStory
  <2> QED BY <1>5, <2>1, <2>2, <2>3
<1>8. ASSUME NEW c \in Call, Moves(c) PROVE Told(c)
  <2>1. /\ c \notin Added /\ c \in table /\ c \in Kept
        /\ ui[c].state = CuiOf(callState[c]) /\ ui'[c].state = CuiOf(callState'[c])
    BY <1>4, <1>8 DEF Moves, Added, Kept
  <2>2. /\ callState'[c] # callState[c] /\ callState[c] # "NONE"
        /\ callState[c] \in CallState /\ callState'[c] \in CallState
    BY <1>8 DEF Moves, Successors, CallState
  <2>3. story'[c] = IF story[c] # "ringing" THEN story[c]
                    ELSE IF callState'[c] = "DISCONNECTED" THEN "unanswered" ELSE "answered"
    <3>1. story[c] = "ringing" => callState'[c] # "INCOMING"
      BY <1>5, <2>1, <2>2
    <3> QED BY <1>3, <2>2, <3>1 DEF NextInStory
  <2>4. story'[c] # "ringing"
    BY <2>3
  <2>5. callState'[c] = "INCOMING" => c \notin unanswered'
    <3>1. ASSUME callState'[c] = "INCOMING" PROVE ui'[c].state # ui[c].state
      BY <2>1, <2>2, <3>1 DEF CuiOf, CallState
    <3> QED BY <1>2, <2>1, <3>1 DEF Moved
  <2>6. missed'[c] = IF story'[c] = "unanswered" THEN 1 ELSE 0
    <3>1. CASE story[c] = "ringing" /\ callState'[c] = "DISCONNECTED"
      <4>1. c \in unanswered /\ ui[c].state = "INCOMING" /\ ui'[c].state = "DISCONNECTED"
        BY <1>5, <2>1, <3>1 DEF CuiOf
      <4>2. c \in Moved
        BY <2>1, <4>1 DEF Moved
      <4> QED BY <1>3, <1>5, <2>3, <3>1, <4>1, <4>2
    <3>2. CASE ~(story[c] = "ringing" /\ callState'[c] = "DISCONNECTED")
      <4>1. ui[c].state = "INCOMING" => callState[c] = "INCOMING"
        BY <2>1, <2>2 DEF CuiOf, CallState
      <4>2. ui'[c].state = "DISCONNECTED" => callState'[c] = "DISCONNECTED"
        BY <2>1, <2>2 DEF CuiOf, CallState
      <4>3. missed'[c] = missed[c]
        BY <1>3, <1>5, <2>1, <3>2, <4>1, <4>2
      <4> QED BY <1>5, <2>3, <3>2, <4>3
    <3> QED BY <3>1, <3>2
  <2> QED BY <2>2, <2>4, <2>5, <2>6 DEF CallState
<1>9. ASSUME NEW c \in Call, Ends(c) PROVE Told(c)
  <2>1. c \notin Moved /\ c \notin Added /\ missed'[c] = missed[c]
    BY <1>3, <1>9 DEF Ends, Moved, Added, Kept
  <2>2. callState'[c] = "GONE" /\ c \notin table'
    BY <1>9 DEF Ends
  <2>3. story'[c] = story[c]
    BY <1>3, <2>2 DEF NextInStory, CallState
  <2> QED BY <1>5, <2>1, <2>2, <2>3
<1>10. \A c \in Call : Told(c)
  BY <1>6, <1>7, <1>8, <1>9 DEF Managed
<1>11. unanswered' \subseteq Call
  BY <1>1, <1>2 DEF Added
<1> QED BY <1>2, <1>10, <1>11 DEF MissedReported, Remembered

-----------------------------------------------------------------------------
(* The steps of the manager. *)

\* A step that leaves calls and table alone, and changes at most the silence and
\* the activity of a call that is shown.
LEMMA Unmoved ==
  ASSUME IInv, UNCHANGED <<calls, originOf, callState, table, removals>>,
         origins' \subseteq Origin, hungUp' \subseteq Call,
         \/ UNCHANGED ui
         \/ \E c \in table : \/ ui' = [ui EXCEPT ![c].uiActive = TRUE, ![c].setActive = FALSE]
                            \/ ui' = [ui EXCEPT ![c].silenced = TRUE]
  PROVE  Managed
<1>1. ui \in [Call -> UiData \union {NoUi}] /\ table \subseteq Call
  BY DEF IInv, TypeOK, ManagerTypeOK
<1>2. \A c \in table : ui[c] \in UiData
  BY <1>1 DEF IInv, InTable
<1>3. /\ ui' \in [Call -> UiData \union {NoUi}]
      /\ \A c \in Call : ui'[c].state = ui[c].state
      /\ \A c \in table : ui'[c] \in UiData /\ (ui[c].uiActive => ui'[c].uiActive)
      /\ \A c \in Call \ table : ui'[c] = ui[c]
  <2>1. CASE UNCHANGED ui
    BY <1>1, <1>2, <2>1
  <2>2. ASSUME NEW c \in table,
               ui' = [ui EXCEPT ![c].uiActive = TRUE, ![c].setActive = FALSE]
        PROVE  <1>3!1 /\ <1>3!2 /\ <1>3!3 /\ <1>3!4
    <3>1. c \in Call /\ ui[c] \in UiData
      BY <1>1, <1>2
    <3>2. [ui[c] EXCEPT !.uiActive = TRUE, !.setActive = FALSE] \in UiData
      BY <3>1 DEF UiData
    <3> QED BY <1>1, <1>2, <2>2, <3>1, <3>2 DEF UiData
  <2>3. ASSUME NEW c \in table, ui' = [ui EXCEPT ![c].silenced = TRUE]
        PROVE  <1>3!1 /\ <1>3!2 /\ <1>3!3 /\ <1>3!4
    <3>1. c \in Call /\ ui[c] \in UiData
      BY <1>1, <1>2
    <3>2. [ui[c] EXCEPT !.silenced = TRUE] \in UiData
      BY <3>1 DEF UiData
    <3> QED BY <1>1, <1>2, <2>3, <3>1, <3>2 DEF UiData
  <2> QED BY <2>1, <2>2, <2>3
<1>4. ManagerTypeOK'
  BY <1>3 DEF IInv, TypeOK, ManagerTypeOK, OriginTypeOK
<1>5. TableAccounts'
  BY DEF IInv, TableAccounts
<1>6. InTable'
  BY <1>3 DEF IInv, InTable
<1>7. \A c \in Call : Stays(c)
  BY <1>3 DEF Stays
<1>8. \A c \in Kept : ui[c].uiActive => ui'[c].uiActive
  BY <1>3 DEF Kept
<1> QED BY <1>4, <1>5, <1>6, <1>7, <1>8 DEF Managed

LEMMA Adding ==
  ASSUME IInv, NEW o \in Origin, NEW c \in Call, AddCall(o, c)
  PROVE  Managed
<1>1. PICK s \in FirstStates : /\ Announce(o, c, s)
                              /\ table' = table \union {c}
                              /\ ui' = [ui EXCEPT ![c] = NewUi(s)]
                              /\ UNCHANGED removals
  BY DEF AddCall
<1>2. s \in CallState
  BY StatesAssumption
<1>3. /\ ManagerTypeOK /\ TableAccounts /\ InTable
  BY DEF IInv, TypeOK
<1>4. NewUi(s) \in UiData /\ NewUi(s).state = CuiOf(s)
  BY <1>2 DEF NewUi, UiSetState, CuiOf, CallState, UiData, CuiState, NoUi
<1>5. c \notin table /\ c \notin calls /\ c \notin Elems(removals)
  <2>1. callState[c] = "NONE"
    BY <1>1 DEF Announce
  <2> QED BY <1>3, <2>1, AccountsByElems DEF InTable, CallState
<1>6. ManagerTypeOK'
  BY <1>1, <1>2, <1>3, <1>4 DEF ManagerTypeOK, OriginTypeOK, Announce
<1>7. TableAccounts'
  <2>1. /\ table' = calls' \union Elems(removals')
        /\ Elems(removals') \intersect calls' = {}
        /\ Once(removals')
    BY <1>1, <1>3, <1>5, AccountsByElems DEF Announce
  <2> QED BY <2>1 DEF TableAccounts, Elems, Once
<1>8. ASSUME NEW d \in Call, d # c
      PROVE  callState'[d] = callState[d] /\ ui'[d] = ui[d] /\ (d \in table' <=> d \in table)
  BY <1>1, <1>3, <1>8 DEF Announce, ManagerTypeOK, OriginTypeOK
<1>9. /\ callState[c] = "NONE" /\ callState'[c] = s /\ c \in table' /\ ui'[c] = NewUi(s)
  BY <1>1, <1>3 DEF Announce, ManagerTypeOK, OriginTypeOK
<1>10. InTable'
  BY <1>2, <1>3, <1>4, <1>8, <1>9 DEF InTable
<1>11. \A d \in Call : Stays(d) \/ Begins(d)
  BY <1>2, <1>4, <1>5, <1>8, <1>9 DEF Stays, Begins
<1>12. \A d \in Kept : ui[d].uiActive => ui'[d].uiActive
  BY <1>3, <1>5, <1>8 DEF Kept, ManagerTypeOK
<1> QED BY <1>6, <1>7, <1>10, <1>11, <1>12 DEF Managed

LEMMA Dropping ==
  ASSUME IInv, NEW c \in Call, Drop(c), removals' = Append(removals, c), UNCHANGED table
  PROVE  TableAccounts' /\ calls' \subseteq Call /\ removals' \in Seq(Call)
<1>1. /\ ManagerTypeOK /\ TableAccounts
  BY DEF IInv, TypeOK
<1>2. c \in calls /\ calls' = calls \ {c} /\ removals \in Seq(Call)
  BY <1>1 DEF Drop, ManagerTypeOK
<1>3. /\ table = calls \union Elems(removals)
      /\ Elems(removals) \intersect calls = {}
      /\ Once(removals)
  BY <1>1, AccountsByElems
<1>4. /\ removals' \in Seq(Call)
      /\ Elems(removals') = Elems(removals) \union {c}
      /\ Once(removals')
  BY <1>2, <1>3, Appended
<1>5. /\ table' = calls' \union Elems(removals')
      /\ Elems(removals') \intersect calls' = {}
  BY <1>2, <1>3, <1>4
<1>6. TableAccounts'
  BY <1>4, <1>5 DEF TableAccounts, Elems, Once
<1> QED BY <1>1, <1>2, <1>4, <1>6 DEF ManagerTypeOK, OriginTypeOK

LEMMA Changing ==
  ASSUME IInv, NEW c \in Call, CallStateChanged(c)
  PROVE  Managed
<1>1. PICK s \in NextStates :
        /\ MoveOn(c, s)
        /\ \/ UNCHANGED <<calls, removals>>
           \/ s = "DISCONNECTED" /\ Drop(c) /\ removals' = Append(removals, c)
        /\ ui' = [ui EXCEPT ![c] = UiSetState(@, CuiOf(s))]
        /\ UNCHANGED table
  BY DEF CallStateChanged
<1>2. s \in CallState
  BY StatesAssumption
<1>3. ManagerTypeOK /\ TableAccounts /\ InTable
  BY DEF IInv, TypeOK
<1>4. /\ callState[c] \in CallState /\ s \in Successors(callState[c])
      /\ c \in table /\ ui[c] \in UiData
  BY <1>1, <1>3 DEF MoveOn, InTable
<1>5. /\ UiSetState(ui[c], CuiOf(s)) \in UiData
      /\ UiSetState(ui[c], CuiOf(s)).state = CuiOf(s)
      /\ UiSetState(ui[c], CuiOf(s)).uiActive = ui[c].uiActive
  BY <1>2, <1>4 DEF UiSetState, CuiOf, CallState, UiData, CuiState
<1>6. TableAccounts' /\ calls' \subseteq Call /\ removals' \in Seq(Call)
  <2>1. CASE UNCHANGED <<calls, removals>>
    BY <1>1, <1>3, <2>1 DEF TableAccounts, ManagerTypeOK, OriginTypeOK
  <2>2. CASE Drop(c) /\ removals' = Append(removals, c)
    BY <1>1, <2>2, Dropping
  <2> QED BY <1>1, <2>1, <2>2
<1>7. ManagerTypeOK'
  BY <1>1, <1>2, <1>3, <1>5, <1>6 DEF ManagerTypeOK, OriginTypeOK, MoveOn
<1>8. ASSUME NEW d \in Call, d # c
      PROVE  callState'[d] = callState[d] /\ ui'[d] = ui[d]
  BY <1>1, <1>3, <1>8 DEF MoveOn, ManagerTypeOK, OriginTypeOK
<1>9. callState'[c] = s /\ ui'[c] = UiSetState(ui[c], CuiOf(s))
  BY <1>1, <1>3 DEF MoveOn, ManagerTypeOK, OriginTypeOK
<1>10. InTable'
  BY <1>1, <1>2, <1>3, <1>4, <1>5, <1>8, <1>9 DEF InTable
<1>11. \A d \in Call : Stays(d) \/ Moves(d)
  BY <1>1, <1>4, <1>5, <1>8, <1>9 DEF Stays, Moves
<1>12. \A d \in Kept : ui[d].uiActive => ui'[d].uiActive
  BY <1>1, <1>3, <1>5, <1>8, <1>9 DEF Kept, ManagerTypeOK
<1> QED BY <1>6, <1>7, <1>10, <1>11, <1>12 DEF Managed

LEMMA Removing ==
  ASSUME IInv, NEW c \in Call, RemoveCall(c)
  PROVE  Managed
<1>1. TableAccounts' /\ calls' \subseteq Call /\ removals' \in Seq(Call)
  BY Dropping DEF RemoveCall
<1>2. UNCHANGED <<origins, originOf, callState, table, ui>> /\ hungUp' = hungUp \ {c}
  BY DEF RemoveCall
<1>3. ManagerTypeOK'
  BY <1>1, <1>2 DEF IInv, TypeOK, ManagerTypeOK, OriginTypeOK
<1>4. InTable' /\ \A d \in Call : Stays(d)
  BY <1>2 DEF IInv, InTable, Stays
<1> QED BY <1>1, <1>2, <1>3, <1>4 DEF Managed

LEMMA Expiring ==
  ASSUME IInv, RemoveDelayed, hungUp' \subseteq Call
  PROVE  Managed
<1> DEFINE c == Head(removals)
<1>1. ManagerTypeOK /\ TableAccounts /\ InTable
  BY DEF IInv, TypeOK
<1>2. /\ table = calls \union Elems(removals)
      /\ Elems(removals) \intersect calls = {}
      /\ Once(removals) /\ removals \in Seq(Call) /\ removals # <<>>
  BY <1>1, AccountsByElems DEF ManagerTypeOK, RemoveDelayed
<1>3. /\ Tail(removals) \in Seq(Call)
      /\ c \in Elems(removals) /\ c \in Call
      /\ Elems(Tail(removals)) = Elems(removals) \ {c}
      /\ Once(Tail(removals))
  BY <1>2, Removals
<1>4. /\ removals' = Tail(removals)
      /\ table' = table \ {c}
      /\ ui' = [ui EXCEPT ![c] = NoUi]
      /\ callState' = [callState EXCEPT ![c] = "GONE"]
      /\ UNCHANGED <<origins, calls, originOf>>
  BY DEF RemoveDelayed
<1> HIDE DEF c
<1>5. TableAccounts'
  <2>1. /\ table' = calls' \union Elems(removals')
        /\ Elems(removals') \intersect calls' = {}
        /\ Once(removals')
    BY <1>2, <1>3, <1>4
  <2> QED BY <2>1 DEF TableAccounts, Elems, Once
<1>6. ManagerTypeOK'
  BY <1>1, <1>3, <1>4 DEF ManagerTypeOK, OriginTypeOK
<1>7. ASSUME NEW d \in Call, d # c
      PROVE  callState'[d] = callState[d] /\ ui'[d] = ui[d] /\ (d \in table' <=> d \in table)
  BY <1>1, <1>4, <1>7 DEF ManagerTypeOK, OriginTypeOK
<1>8. callState'[c] = "GONE" /\ ui'[c] = NoUi /\ c \notin table' /\ c \in table
  BY <1>1, <1>2, <1>3, <1>4 DEF ManagerTypeOK, OriginTypeOK
<1>9. callState[c] \in CallState
  BY <1>1, <1>3, <1>8 DEF InTable
<1>10. InTable'
  BY <1>1, <1>7, <1>8 DEF InTable, CallState
<1>11. \A d \in Call : Stays(d) \/ Ends(d)
  BY <1>7, <1>8, <1>9 DEF Stays, Ends
<1>12. \A d \in Kept : ui[d].uiActive => ui'[d].uiActive
  BY <1>1, <1>7, <1>8 DEF Kept, ManagerTypeOK
<1> QED BY <1>5, <1>6, <1>10, <1>11, <1>12 DEF Managed

LEMMA ManagerSteps ==
  ASSUME IInv, ManagerStep
  PROVE  Managed
<1>1. ManagerTypeOK /\ InTable
  BY DEF IInv, TypeOK
<1>2. ASSUME NEW o \in Origin, AddOrigin(o) PROVE Managed
  BY <1>1, <1>2, Unmoved DEF AddOrigin, OriginJoins, managerVars, ManagerTypeOK, OriginTypeOK
<1>3. ASSUME NEW o \in Origin, RemoveOrigin(o) PROVE Managed
  <2>1. origins' \subseteq Origin /\ hungUp' \subseteq Call
    BY <1>1, <1>3 DEF RemoveOrigin, OriginLeaves, HangUp, ManagerTypeOK, OriginTypeOK
  <2> QED BY <1>3, <2>1, Unmoved DEF RemoveOrigin, OriginLeaves, managerVars
<1>4. ASSUME NEW c \in Call, DelaySetActive(c) PROVE Managed
  <2>1. c \in table
    BY <1>1, <1>4 DEF DelaySetActive, InTable, NoUi
  <2> QED BY <1>1, <1>4, <2>1, Unmoved DEF DelaySetActive, originVars, ManagerTypeOK, OriginTypeOK
<1>5. ASSUME NEW c \in Call, SilenceRing(c) PROVE Managed
  BY <1>1, <1>5, Unmoved DEF SilenceRing, originVars, ManagerTypeOK, OriginTypeOK
<1> QED BY <1>2, <1>3, <1>4, <1>5, Adding, Changing, Removing DEF ManagerStep

-----------------------------------------------------------------------------
(* The theorems. *)

LEMMA Start == Init => IInv
<1> SUFFICES ASSUME Init PROVE IInv
  OBVIOUS
<1> USE DEF Init, ManagerInit, OriginInit, NoCalls
<1>1. TypeOK
  <2>1. callState \in [Call -> CallState \union {"NONE", "GONE"}]
    OBVIOUS
  <2>2. removals \in Seq(Call)
    OBVIOUS
  <2>3. originOf \in [Call -> Origin \union {NoOrigin}]
    OBVIOUS
  <2>4. ui \in [Call -> UiData \union {NoUi}]
    OBVIOUS
  <2>5. missed \in [Call -> Nat] /\ story \in [Call -> {"none", "ringing", "unanswered", "answered"}]
    OBVIOUS
  <2>6. OriginTypeOK
    BY <2>1, <2>3 DEF OriginTypeOK
  <2>7. ManagerTypeOK
    BY <2>2, <2>4, <2>6 DEF ManagerTypeOK
  <2> QED BY <2>5, <2>7 DEF TypeOK
<1>2. TableAccounts /\ FrontEndsAgree /\ MissedReported
  <2>1. DOMAIN removals = {}
    OBVIOUS
  <2>2. TableAccounts
    BY <2>1 DEF TableAccounts
  <2>3. FrontEndsAgree
    BY DEF FrontEndsAgree
  <2>4. MissedReported
    BY DEF MissedReported
  <2> QED BY <2>2, <2>3, <2>4
<1>3. InTable /\ Remembered
  BY DEF InTable, Remembered, CallState
<1> QED BY <1>1, <1>2, <1>3 DEF IInv

\* The listeners of a step of the manager restore the invariant.
LEMMA Followed ==
  ASSUME IInv, Managed, Listeners
  PROVE  IInv'
<1>1. FrontEndsAgree'
  BY Agreeing DEF Listeners
<1>2. /\ MissedReported' /\ Remembered'
      /\ unanswered' \subseteq Call
      /\ missed' \in [Call -> Nat]
      /\ story' \in [Call -> {"none", "ringing", "unanswered", "answered"}]
  BY Reporting
<1>3. visible' \in BOOLEAN
  BY DEF Listeners, WindowListens, IInv, TypeOK
<1>4. TypeOK'
  BY <1>1, <1>2, <1>3 DEF Managed, TypeOK, FrontEndsAgree, ManagerTypeOK
<1> QED BY <1>1, <1>2, <1>4 DEF Managed, IInv

LEMMA Step == IInv /\ [Next]_vars => IInv'
<1> SUFFICES ASSUME IInv, [Next]_vars PROVE IInv'
  OBVIOUS
<1>1. CASE ManagerStep /\ Listeners
  BY <1>1, ManagerSteps, Followed
<1>2. CASE Removal
  <2>1. hungUp' \subseteq Call
    BY <1>2 DEF Removal, HiddenHangsUp, HangUpAllCalls, HangUp, IInv, TypeOK, ManagerTypeOK, OriginTypeOK
  <2> QED BY <1>2, <2>1, Expiring, Followed DEF Removal
<1>3. CASE CloseWindow
  <2>1. hungUp' \subseteq Call /\ visible' \in BOOLEAN
    BY <1>3 DEF CloseWindow, HiddenHangsUp, HangUpAllCalls, HangUp, IInv, TypeOK, ManagerTypeOK, OriginTypeOK
  <2>2. UNCHANGED <<origins, calls, originOf, callState, managerVars, window, inhibited,
                    busVars, notifierVars>>
    BY <1>3 DEF CloseWindow
  <2> QED BY <2>1, <2>2 DEF managerVars, busVars, notifierVars, IInv, TypeOK, ManagerTypeOK,
             OriginTypeOK, TableAccounts, FrontEndsAgree, MissedReported, InTable, Remembered
<1>4. CASE UNCHANGED vars
  BY <1>4 DEF vars, originVars, managerVars, windowVars, busVars, notifierVars, IInv, TypeOK,
     ManagerTypeOK, OriginTypeOK, TableAccounts, FrontEndsAgree, MissedReported, InTable, Remembered
<1> QED BY <1>1, <1>2, <1>3, <1>4 DEF Next

THEOREM Invariance == Spec => []IInv
BY Start, Step, PTL DEF Spec

\* Every call the manager knows of is one its origins list, or one dropped less
\* than 3 s ago with one removal to come (add_call, remove_call,
\* on_remove_delayed), for any number of calls and origins.
THEOREM Accounted == Spec => []TableAccounts
<1>1. IInv => TableAccounts
  BY DEF IInv
<1> QED BY <1>1, Invariance, PTL

\* The window, the session and D-Bus show the same calls after every callback,
\* for any number of calls and origins.
THEOREM Agreement == Spec => []FrontEndsAgree
<1>1. IInv => FrontEndsAgree
  BY DEF IInv
<1> QED BY <1>1, Invariance, PTL

\* A call announced as ringing that its origin then says has ended is reported
\* once, dropped or not, and no other call is, for any number of calls and origins
\* (state_changed_cb of the notifier).
THEOREM MissedOnce == Spec => []MissedReported
<1>1. IInv => MissedReported
  BY DEF IInv
<1> QED BY <1>1, Invariance, PTL
=============================================================================
