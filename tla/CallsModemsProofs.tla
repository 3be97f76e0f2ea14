-------------------------- MODULE CallsModemsProofs --------------------------
(***************************************************************************)
(* Theorems about CallsModems, for any set of calls, any number of origins *)
(* and requests: no call of a modem is missed, none that ended is          *)
(* forgotten, tones are sent in order, and each provider implements the    *)
(* contract of CallsOrigin.  About CallsUssd: the buttons of the dialog    *)
(* follow the session.  About CallsContacts: the list of the contacts and  *)
(* the name of a call follow the address book.                             *)
(***************************************************************************)
EXTENDS CallsModems, CallsUssd, CallsContacts, FiniteSetTheorems, TLAPS

-----------------------------------------------------------------------------
(* The inductive invariant of the calls of a modem. *)

OriginRecord == [listed : BOOLEAN, alive : BOOLEAN, voice : BOOLEAN, table : [Path -> Nat]]
ObjRecord == [origin : Nat, path : Path, state : Abstract!CallState, dropped : BOOLEAN]

\* What an origin has in its table is a call of its own, of that path, which it
\* has not dropped.
TablesFit(os, ob) ==
  \A o \in DOMAIN os, p \in Path :
    os[o].table[p] # 0 =>
      os[o].table[p] \in {i \in DOMAIN ob : ob[i].path = p /\ ob[i].origin = o /\ ~ob[i].dropped}

\* Origins os and call objects ob belong together.
Fit(os, ob) ==
  /\ os \in Seq(OriginRecord) /\ Len(os) <= MaxOrigins
  /\ ob \in Seq(ObjRecord) /\ Len(ob) <= MaxObjs
  /\ \A o \in DOMAIN os : os[o].listed => os[o].alive
  /\ \A i \in DOMAIN ob : ob[i].origin \in DOMAIN os
  /\ TablesFit(os, ob)

\* The service has calls only while its modem has voice, and only ModemManager
\* keeps those that ended.
NetFits ==
  /\ net \in [Path -> NetState]
  /\ plugin \in {"mm", "ofono", "dummy"} /\ modem \in {"none", "plain", "voice"}
  /\ modem # "voice" => \A p \in Path : ~Exists(p)
  /\ plugin # "mm" => \A p \in Path : net[p] # "TERMINATED"
  /\ plugin = "dummy" => Unused

\* A call object stands for a call there was, and is not over before that is;
\* those of the dummy are dropped when they are over.
ObjsFollow(ob) ==
  \A i \in DOMAIN ob :
    IF plugin = "dummy" THEN ob[i].dropped = (ob[i].state = "DISCONNECTED")
    ELSE /\ net[ob[i].path] # "NONE"
         /\ ob[i].state = "DISCONNECTED" => net[ob[i].path] \in {"TERMINATED", "GONE"}

AskedFit(ask) == \A r \in ask : r.op = "create" \/ r.path \in Path

Used == {p \in Path : net[p] # "NONE"}

MmRequest ==
  [kind : Path \union {"all"}, origin : DOMAIN origins, answered : BOOLEAN, answer : SUBSET Used]
    \union [kind : {"manager"}, origin : {0}, cancelled : BOOLEAN]

\* Nothing an oFono origin asked for outlives it, and what oFono said of a call
\* is not that it ended.
OfonoRequest ==
  {Modems} \union [kind : {"modem"}, origin : {0}, ifaces : {"plain", "voice"}]
    \union [kind : {"voice", "calls"}, origin : Listed]
    \union [kind : {"call"}, origin : Listed, path : Used, state : NetState \ {"NONE", "GONE", "TERMINATED"}]

\* An origin of oFono hears of calls, or is to ask for them when it does.
VoiceKnown == \A o \in Listed : origins[o].voice \/ OfOrigin("voice", o) \in pending

PendingFits ==
  /\ plugin = "mm" => pending \subseteq MmRequest
  /\ plugin = "ofono" => pending \subseteq OfonoRequest /\ VoiceKnown

TonesFit ==
  /\ sent \in Seq(Nat) /\ flight \in Seq(Nat) /\ queue \in Seq(Nat)
  /\ pressed \in Nat
  /\ TonesInOrder

ModemsInv ==
  /\ Fit(origins, objs) /\ NetFits /\ ObjsFollow(objs)
  /\ AskedFit(asked) /\ PendingFits
  /\ NoCallMissed /\ EndedIsDeleted
  /\ TonesFit

-----------------------------------------------------------------------------
(* What the end of a callback leaves as it is. *)

\* How call objects may change: those of new are the ones of old, or later.
Later(old, new) ==
  /\ DOMAIN old \subseteq DOMAIN new
  /\ \A i \in DOMAIN old :
       /\ new[i].origin = old[i].origin /\ new[i].path = old[i].path
       /\ old[i].dropped => new[i].dropped
       /\ new[i].state = old[i].state \/ new[i].state \in Abstract!Successors(old[i].state)

\* No origin returns to the list.
Aging(old, new) ==
  /\ DOMAIN old \subseteq DOMAIN new
  /\ \A o \in DOMAIN old : new[o].listed => old[o].listed

LEMMA Settled ==
  ASSUME NEW pend, NEW ask, NEW os, NEW ob, Fit(os, ob), Settle(pend, ask, os, ob)
  PROVE  /\ Fit(origins', objs')
         /\ pending' = pend /\ asked' = ask
         /\ DOMAIN origins' = DOMAIN os
         /\ \A o \in DOMAIN os :
              /\ origins'[o].listed = os[o].listed /\ origins'[o].voice = os[o].voice
              /\ os[o].listed => origins'[o].table = os[o].table
         /\ Listed' = {o \in DOMAIN os : os[o].listed}
         /\ DOMAIN objs' = DOMAIN ob
         /\ \A i \in DOMAIN ob :
              /\ objs'[i].origin = ob[i].origin /\ objs'[i].path = ob[i].path
              /\ objs'[i].state = ob[i].state
              /\ ob[i].dropped => objs'[i].dropped
<1> DEFINE dead == Disposed(os, pend, ask)
<1>1. /\ pending' = pend /\ asked' = ask
      /\ origins' = Dispose(os, dead) /\ objs' = DropCalls(ob, os, dead)
  BY DEF Settle
<1>2. \A o \in dead : o \in DOMAIN os /\ ~os[o].listed
  BY DEF Disposed
<1> HIDE DEF dead
<1>3. /\ os \in Seq(OriginRecord) /\ Len(os) <= MaxOrigins
      /\ ob \in Seq(ObjRecord) /\ Len(ob) <= MaxObjs
      /\ \A o \in DOMAIN os : os[o].listed => os[o].alive
      /\ \A i \in DOMAIN ob : ob[i].origin \in DOMAIN os
      /\ TablesFit(os, ob)
  BY DEF Fit
<1>4. /\ DOMAIN origins' = DOMAIN os
      /\ \A o \in DOMAIN os :
           origins'[o] = IF o \in dead THEN [os[o] EXCEPT !.alive = FALSE, !.table = NoTable] ELSE os[o]
  BY <1>1 DEF Dispose
<1>5. /\ DOMAIN objs' = DOMAIN ob
      /\ \A i \in DOMAIN ob :
           objs'[i] = IF \E o \in dead, p \in Path : os[o].table[p] = i
                        THEN [ob[i] EXCEPT !.dropped = TRUE] ELSE ob[i]
  BY <1>1 DEF DropCalls
<1>6. NoTable \in [Path -> Nat] /\ \A p \in Path : NoTable[p] = 0
  BY DEF NoTable
<1>7. \A o \in DOMAIN os :
        /\ origins'[o] \in OriginRecord
        /\ origins'[o].listed = os[o].listed /\ origins'[o].voice = os[o].voice
        /\ os[o].listed => origins'[o] = os[o]
        /\ origins'[o].table = IF o \in dead THEN NoTable ELSE os[o].table
  <2> TAKE o \in DOMAIN os
  <2>1. os[o] \in OriginRecord
    BY <1>3
  <2> QED BY <1>2, <1>4, <1>6, <2>1 DEF OriginRecord
<1>8. \A i \in DOMAIN ob :
        /\ objs'[i] \in ObjRecord
        /\ objs'[i].origin = ob[i].origin /\ objs'[i].path = ob[i].path
        /\ objs'[i].state = ob[i].state
        /\ ob[i].dropped => objs'[i].dropped
        /\ objs'[i].dropped => ob[i].dropped \/ \E o \in dead, p \in Path : os[o].table[p] = i
  <2> TAKE i \in DOMAIN ob
  <2>1. ob[i] \in ObjRecord
    BY <1>3
  <2> QED BY <1>5, <2>1 DEF ObjRecord
<1>9. origins' \in Seq(OriginRecord) /\ Len(origins') = Len(os)
  <2>1. DOMAIN os = 1..Len(os) /\ Len(os) \in Nat
    BY <1>3
  <2>2. origins' = [o \in DOMAIN os |-> IF o \in dead THEN [os[o] EXCEPT !.alive = FALSE, !.table = NoTable] ELSE os[o]]
    BY <1>1 DEF Dispose
  <2>3. origins' \in [1..Len(os) -> OriginRecord]
    BY <1>4, <1>7, <2>1, <2>2
  <2> QED BY <2>1, <2>3
<1>10. objs' \in Seq(ObjRecord) /\ Len(objs') = Len(ob)
  <2>1. DOMAIN ob = 1..Len(ob) /\ Len(ob) \in Nat
    BY <1>3
  <2>2. objs' = [i \in DOMAIN ob |-> IF \E o \in dead, p \in Path : os[o].table[p] = i
                                       THEN [ob[i] EXCEPT !.dropped = TRUE] ELSE ob[i]]
    BY <1>1 DEF DropCalls
  <2>3. objs' \in [1..Len(ob) -> ObjRecord]
    BY <1>5, <1>8, <2>1, <2>2
  <2> QED BY <2>1, <2>3
<1>11. TablesFit(origins', objs')
  <2>1. ASSUME NEW o \in DOMAIN os, NEW p \in Path, origins'[o].table[p] # 0
        PROVE  /\ origins'[o].table[p] \in DOMAIN objs'
               /\ objs'[origins'[o].table[p]].path = p
               /\ objs'[origins'[o].table[p]].origin = o
               /\ ~objs'[origins'[o].table[p]].dropped
    <3> DEFINE i == os[o].table[p]
    <3>1. o \notin dead /\ origins'[o].table[p] = i
      BY <1>6, <1>7, <2>1
    <3>2. i # 0 /\ i \in DOMAIN ob /\ ob[i].path = p /\ ob[i].origin = o /\ ~ob[i].dropped
      BY <1>3, <2>1, <3>1 DEF TablesFit
    <3>3. \A d \in dead, q \in Path : os[d].table[q] # i
      <4>1. ASSUME NEW d \in dead, NEW q \in Path, os[d].table[q] = i
            PROVE  FALSE
        <5>1. d \in DOMAIN os
          BY <1>2
        <5> QED BY <1>3, <3>1, <3>2, <4>1, <5>1 DEF TablesFit
      <4> QED BY <4>1
    <3>4. ~objs'[i].dropped
      BY <1>8, <3>2, <3>3
    <3> QED BY <1>5, <1>8, <3>1, <3>2, <3>4
  <2>2. DOMAIN origins' = DOMAIN os
    BY <1>4
  <2> QED BY <2>1, <2>2 DEF TablesFit
<1>12. Fit(origins', objs')
  BY <1>3, <1>4, <1>5, <1>7, <1>8, <1>9, <1>10, <1>11 DEF Fit
<1>13. Listed' = {o \in DOMAIN os : os[o].listed}
  BY <1>4, <1>7 DEF Listed
<1> QED BY <1>1, <1>4, <1>5, <1>7, <1>8, <1>12, <1>13

-----------------------------------------------------------------------------
(* What a callback makes of origins and call objects before it ends. *)

LEMMA Unlisting ==
  ASSUME NEW ob, Fit(origins, ob)
  PROVE  /\ Fit(Unlist(origins), ob)
         /\ DOMAIN Unlist(origins) = DOMAIN origins
         /\ \A o \in DOMAIN origins : ~Unlist(origins)[o].listed
<1>1. /\ origins \in Seq(OriginRecord) /\ Len(origins) <= MaxOrigins
      /\ DOMAIN origins = 1..Len(origins) /\ Len(origins) \in Nat
  BY DEF Fit
<1>2. /\ DOMAIN Unlist(origins) = DOMAIN origins
      /\ \A o \in DOMAIN origins :
           /\ Unlist(origins)[o] \in OriginRecord /\ ~Unlist(origins)[o].listed
           /\ Unlist(origins)[o].table = origins[o].table
  <2> DEFINE os == Unlist(origins)
  <2>1. DOMAIN os = DOMAIN origins
    BY DEF Unlist
  <2>2. ASSUME NEW o \in DOMAIN origins
        PROVE  os[o] \in OriginRecord /\ ~os[o].listed /\ os[o].table = origins[o].table
    <3>1. origins[o] \in OriginRecord
      BY <1>1
    <3>2. os[o] = [origins[o] EXCEPT !.listed = FALSE]
      BY DEF Unlist
    <3> QED BY <3>1, <3>2 DEF OriginRecord
  <2> QED BY <2>1, <2>2
<1>3. Unlist(origins) \in Seq(OriginRecord) /\ Len(Unlist(origins)) = Len(origins)
  <2>1. Unlist(origins) \in [1..Len(origins) -> OriginRecord]
    BY <1>1, <1>2 DEF Unlist
  <2> QED BY <1>1, <2>1
<1>4. TablesFit(Unlist(origins), ob)
  BY <1>2 DEF TablesFit, Fit
<1> QED BY <1>1, <1>2, <1>3, <1>4 DEF Fit

LEMMA Joining ==
  ASSUME NEW new \in OriginRecord, new.alive, new.table = NoTable,
         Fit(origins, objs), Len(origins) < MaxOrigins
  PROVE  /\ Fit(Append(origins, new), objs)
         /\ DOMAIN Append(origins, new) = DOMAIN origins \union {Len(origins) + 1}
         /\ \A o \in DOMAIN origins : Append(origins, new)[o] = origins[o]
         /\ Append(origins, new)[Len(origins) + 1] = new
         /\ Len(origins) + 1 \notin DOMAIN origins
<1> DEFINE os == Append(origins, new)
<1>1. /\ origins \in Seq(OriginRecord) /\ DOMAIN origins = 1..Len(origins) /\ Len(origins) \in Nat
      /\ \A o \in DOMAIN origins : origins[o].listed => origins[o].alive
      /\ \A i \in DOMAIN objs : objs[i].origin \in DOMAIN origins
      /\ objs \in Seq(ObjRecord) /\ Len(objs) <= MaxObjs
      /\ TablesFit(origins, objs)
  BY DEF Fit
<1>2. os \in Seq(OriginRecord) /\ Len(os) = Len(origins) + 1
  BY <1>1
<1>3. /\ DOMAIN os = DOMAIN origins \union {Len(origins) + 1}
      /\ Len(origins) + 1 \notin DOMAIN origins
      /\ \A o \in DOMAIN origins : os[o] = origins[o]
      /\ os[Len(origins) + 1] = new
  BY <1>1
<1>4. Len(os) <= MaxOrigins
  BY <1>1, <1>2, ModemAssumption
<1> HIDE DEF os
<1>5. TablesFit(os, objs)
  <2>1. ASSUME NEW o \in DOMAIN os, NEW p \in Path, os[o].table[p] # 0
        PROVE  o \in DOMAIN origins /\ os[o].table[p] = origins[o].table[p]
    BY <1>3, <2>1 DEF NoTable
  <2> QED BY <1>1, <2>1 DEF TablesFit
<1>6. \A o \in DOMAIN os : os[o].listed => os[o].alive
  BY <1>1, <1>3
<1>7. \A i \in DOMAIN objs : objs[i].origin \in DOMAIN os
  BY <1>1, <1>3
<1>8. Fit(os, objs)
  BY <1>1, <1>2, <1>4, <1>5, <1>6, <1>7 DEF Fit
<1> QED BY <1>3, <1>8 DEF os

LEMMA Following ==
  ASSUME NEW p \in Path, NEW s \in Abstract!CallState, Fit(origins, objs)
  PROVE  LET ob == FollowNet(objs, p, s)
         IN  /\ Fit(origins, ob)
             /\ DOMAIN ob = DOMAIN objs
             /\ \A i \in DOMAIN objs :
                  /\ ob[i].origin = objs[i].origin /\ ob[i].path = objs[i].path
                  /\ ob[i].dropped = objs[i].dropped
                  /\ ob[i].state = IF objs[i].path = p THEN s ELSE objs[i].state
<1> DEFINE ob == FollowNet(objs, p, s)
<1>1. /\ objs \in Seq(ObjRecord) /\ DOMAIN objs = 1..Len(objs) /\ Len(objs) \in Nat
      /\ Len(objs) <= MaxObjs
      /\ origins \in Seq(OriginRecord) /\ Len(origins) <= MaxOrigins
      /\ \A o \in DOMAIN origins : origins[o].listed => origins[o].alive
      /\ \A i \in DOMAIN objs : objs[i].origin \in DOMAIN origins
      /\ TablesFit(origins, objs)
  BY DEF Fit
<1>2. DOMAIN ob = DOMAIN objs
  BY DEF FollowNet
<1>3. ASSUME NEW i \in DOMAIN objs
      PROVE  /\ ob[i] \in ObjRecord
             /\ ob[i].origin = objs[i].origin /\ ob[i].path = objs[i].path
             /\ ob[i].dropped = objs[i].dropped
             /\ ob[i].state = IF objs[i].path = p THEN s ELSE objs[i].state
  <2>1. objs[i] \in ObjRecord
    BY <1>1
  <2>2. ob[i] = IF objs[i].path = p THEN [objs[i] EXCEPT !.state = s] ELSE objs[i]
    BY DEF FollowNet
  <2> QED BY <2>1, <2>2 DEF ObjRecord
<1>4. ob \in Seq(ObjRecord) /\ Len(ob) = Len(objs)
  <2>1. ob \in [1..Len(objs) -> ObjRecord]
    BY <1>1, <1>2, <1>3 DEF FollowNet
  <2> QED BY <1>1, <2>1
<1> HIDE DEF ob
<1>5. TablesFit(origins, ob)
  BY <1>1, <1>2, <1>3 DEF TablesFit
<1>6. Fit(origins, ob)
  BY <1>1, <1>2, <1>3, <1>4, <1>5 DEF Fit
<1> QED BY <1>2, <1>3, <1>6 DEF ob

LEMMA Unkeying ==
  ASSUME NEW p \in Path, NEW heard \in SUBSET DOMAIN origins, NEW ob, Fit(origins, ob)
  PROVE  LET os  == Unkey(origins, heard, p)
             cut == DropCall(ob, origins, heard, p)
         IN  /\ Fit(os, cut)
             /\ DOMAIN os = DOMAIN origins
             /\ \A o \in DOMAIN origins :
                  /\ os[o].listed = origins[o].listed /\ os[o].voice = origins[o].voice
                  /\ \A q \in Path : q # p => os[o].table[q] = origins[o].table[q]
             /\ DOMAIN cut = DOMAIN ob
             /\ \A i \in DOMAIN ob :
                  /\ cut[i].origin = ob[i].origin /\ cut[i].path = ob[i].path
                  /\ cut[i].state = ob[i].state
                  /\ ob[i].dropped => cut[i].dropped
<1> DEFINE os  == Unkey(origins, heard, p)
           cut == DropCall(ob, origins, heard, p)
<1>1. /\ ob \in Seq(ObjRecord) /\ DOMAIN ob = 1..Len(ob) /\ Len(ob) \in Nat
      /\ Len(ob) <= MaxObjs
      /\ origins \in Seq(OriginRecord) /\ Len(origins) <= MaxOrigins
      /\ DOMAIN origins = 1..Len(origins) /\ Len(origins) \in Nat
      /\ \A o \in DOMAIN origins : origins[o].listed => origins[o].alive
      /\ \A i \in DOMAIN ob : ob[i].origin \in DOMAIN origins
      /\ TablesFit(origins, ob)
  BY DEF Fit
<1>2. DOMAIN os = DOMAIN origins /\ DOMAIN cut = DOMAIN ob
  BY DEF Unkey, DropCall
<1>3. ASSUME NEW o \in DOMAIN origins
      PROVE  /\ os[o] \in OriginRecord
             /\ os[o].listed = origins[o].listed /\ os[o].voice = origins[o].voice
             /\ os[o].alive = origins[o].alive
             /\ \A q \in Path : os[o].table[q] = IF o \in heard /\ q = p THEN 0 ELSE origins[o].table[q]
  <2>1. origins[o] \in OriginRecord
    BY <1>1
  <2>2. os[o] = IF o \in heard THEN [origins[o] EXCEPT !.table[p] = 0] ELSE origins[o]
    BY DEF Unkey
  <2> QED BY <2>1, <2>2 DEF OriginRecord
<1>4. ASSUME NEW i \in DOMAIN ob
      PROVE  /\ cut[i] \in ObjRecord
             /\ cut[i].origin = ob[i].origin /\ cut[i].path = ob[i].path
             /\ cut[i].state = ob[i].state
             /\ ob[i].dropped => cut[i].dropped
             /\ cut[i].dropped => ob[i].dropped \/ \E o \in heard : origins[o].table[p] = i
  <2>1. ob[i] \in ObjRecord
    BY <1>1
  <2>2. cut[i] = IF \E o \in heard : origins[o].table[p] = i THEN [ob[i] EXCEPT !.dropped = TRUE] ELSE ob[i]
    BY DEF DropCall
  <2> QED BY <2>1, <2>2 DEF ObjRecord
<1>5. os \in Seq(OriginRecord) /\ Len(os) = Len(origins)
  <2>1. os \in [1..Len(origins) -> OriginRecord]
    BY <1>1, <1>2, <1>3 DEF Unkey
  <2> QED BY <1>1, <2>1
<1>6. cut \in Seq(ObjRecord) /\ Len(cut) = Len(ob)
  <2>1. cut \in [1..Len(ob) -> ObjRecord]
    BY <1>1, <1>2, <1>4 DEF DropCall
  <2> QED BY <1>1, <2>1
<1> HIDE DEF os, cut
<1>7. TablesFit(os, cut)
  <2>1. ASSUME NEW o \in DOMAIN origins, NEW q \in Path, os[o].table[q] # 0
        PROVE  os[o].table[q] \in {i \in DOMAIN cut :
                                     cut[i].path = q /\ cut[i].origin = o /\ ~cut[i].dropped}
    <3>1. ~(o \in heard /\ q = p) /\ os[o].table[q] = origins[o].table[q]
      BY <1>3, <2>1
    <3>2. PICK i \in DOMAIN ob : i = origins[o].table[q] /\ ob[i].path = q /\ ob[i].origin = o /\ ~ob[i].dropped
      BY <1>1, <2>1, <3>1 DEF TablesFit
    <3>3. ASSUME NEW h \in heard, origins[h].table[p] = i
          PROVE  FALSE
      <4>1. h \in DOMAIN origins
        BY <3>3
      <4> QED BY <1>1, <3>1, <3>2, <3>3, <4>1 DEF TablesFit
    <3> QED BY <1>2, <1>4, <3>1, <3>2, <3>3
  <2> QED BY <1>2, <2>1 DEF TablesFit
<1>8. Fit(os, cut)
  BY <1>1, <1>2, <1>3, <1>4, <1>5, <1>6, <1>7 DEF Fit
<1> QED BY <1>2, <1>3, <1>4, <1>8 DEF os, cut

LEMMA Joined ==
  ASSUME NEW S, NEW s \in Seq(S), NEW t \in Seq(S), NEW n \in Nat, n = Len(t)
  PROVE  /\ s \o t \in Seq(S) /\ Len(s \o t) = Len(s) + n
         /\ DOMAIN (s \o t) = 1..(Len(s) + n)
         /\ \A i \in DOMAIN s : (s \o t)[i] = s[i]
         /\ \A k \in 1..n : (s \o t)[Len(s) + k] = t[k]
<1>1. /\ s \o t \in Seq(S) /\ Len(s \o t) = Len(s) + n /\ Len(s) \in Nat
      /\ DOMAIN (s \o t) = 1..(Len(s) + n) /\ DOMAIN s = 1..Len(s)
  OBVIOUS
<1>2. \A i \in DOMAIN s : (s \o t)[i] = s[i]
  OBVIOUS
<1>3. \A k \in 1..n : (s \o t)[Len(s) + k] = t[k]
  OBVIOUS
<1> QED BY <1>1, <1>2, <1>3

\* What a listing, of calls told, which their proxies report in states seen,
\* makes of the origins and call objects: each call told has a place in the
\* table of o, and each new call object is of one of them.
Added(os, ob, o, told, seen) ==
  /\ Fit(os, ob)
  /\ DOMAIN os = DOMAIN origins
  /\ \A h \in DOMAIN origins :
       /\ os[h].listed = origins[h].listed /\ os[h].voice = origins[h].voice
       /\ \A p \in Path : origins[h].table[p] # 0 => os[h].table[p] # 0
  /\ \A p \in told : os[o].table[p] # 0
  /\ DOMAIN objs \subseteq DOMAIN ob
  /\ \A i \in DOMAIN objs : ob[i] = objs[i]
  /\ \A i \in DOMAIN ob : i \notin DOMAIN objs =>
       /\ ob[i].path \in told
       /\ ob[i].state = CallStateOf(ob[i].path, seen[ob[i].path])

LEMMA Adding ==
  ASSUME Fit(origins, objs),
         NEW o \in DOMAIN origins, NEW told \in SUBSET Path,
         Cardinality(told) \in Nat, Len(objs) + Cardinality(told) <= MaxObjs,
         NEW number \in Bijection(told, 1..Cardinality(told)),
         NEW seen \in [told -> NetState \ {"NONE", "GONE"}]
  PROVE  Added([origins EXCEPT ![o].table = TableWith(o, number)],
               objs \o NewCalls(o, number, seen), o, told, seen)
<1> DEFINE n == Cardinality(told)
           new == NewCalls(o, number, seen)
           org == [origins EXCEPT ![o].table = TableWith(o, number)]
           all == objs \o new
<1>1. /\ objs \in Seq(ObjRecord) /\ DOMAIN objs = 1..Len(objs) /\ Len(objs) \in Nat
      /\ origins \in Seq(OriginRecord) /\ Len(origins) <= MaxOrigins
      /\ DOMAIN origins = 1..Len(origins) /\ Len(origins) \in Nat
      /\ \A h \in DOMAIN origins : origins[h].listed => origins[h].alive
      /\ \A i \in DOMAIN objs : objs[i].origin \in DOMAIN origins
      /\ TablesFit(origins, objs)
  BY DEF Fit
<1>2. /\ number \in [told -> 1..n] /\ DOMAIN number = told
      /\ \A p, q \in told : number[p] = number[q] => p = q
      /\ \A k \in 1..n : \E p \in told : number[p] = k
  BY DEF Bijection, Injection, Surjection, IsInjective
<1>3. \A p \in told : CallStateOf(p, seen[p]) \in Abstract!CallState
  BY DEF CallStateOf, NetState, Abstract!CallState
<1>4. DOMAIN new = 1..n
  BY <1>2 DEF NewCalls
<1>5. ASSUME NEW k \in 1..n
      PROVE  /\ new[k] \in ObjRecord
             /\ new[k].path \in told /\ number[new[k].path] = k
             /\ new[k].origin = o /\ ~new[k].dropped
             /\ new[k].state = CallStateOf(new[k].path, seen[new[k].path])
  <2> DEFINE p == CHOOSE q \in told : number[q] = k
  <2>1. p \in told /\ number[p] = k
    BY <1>2
  <2>2. new[k] = NewObj(o, p, CallStateOf(p, seen[p]))
    BY <1>2 DEF NewCalls
  <2> HIDE DEF p
  <2>3. p \in Path /\ o \in Nat /\ CallStateOf(p, seen[p]) \in Abstract!CallState
    BY <1>1, <1>3, <2>1
  <2> QED BY <2>1, <2>2, <2>3 DEF NewObj, ObjRecord
<1>6. new \in Seq(ObjRecord) /\ Len(new) = n
  <2>1. new \in [1..n -> ObjRecord]
    BY <1>2, <1>4, <1>5 DEF NewCalls
  <2> QED BY <2>1
<1> HIDE DEF new, n
<1>size. n \in Nat
  BY DEF n
<1>7. /\ all \in Seq(ObjRecord) /\ Len(all) = Len(objs) + n /\ DOMAIN all = 1..(Len(objs) + n)
      /\ \A i \in DOMAIN objs : all[i] = objs[i]
      /\ \A k \in 1..n : all[Len(objs) + k] = new[k]
  BY <1>1, <1>6, <1>size, Joined
<1>8. \A i \in DOMAIN all : i \notin DOMAIN objs => \E k \in 1..n : i = Len(objs) + k /\ all[i] = new[k]
  <2>1. \A i \in DOMAIN all : i \notin DOMAIN objs => \E k \in 1..n : i = Len(objs) + k
    <3> HIDE DEF all
    <3>1. ASSUME NEW i \in DOMAIN all, i \notin DOMAIN objs
          PROVE  i - Len(objs) \in 1..n /\ i = Len(objs) + (i - Len(objs))
      BY <1>1, <1>7, <1>size, <3>1
    <3> QED BY <3>1
  <2> QED BY <1>7, <2>1
<1> HIDE DEF all
<1>9. ASSUME NEW h \in DOMAIN origins
      PROVE  /\ org[h] \in OriginRecord
             /\ org[h].listed = origins[h].listed /\ org[h].voice = origins[h].voice
             /\ org[h].alive = origins[h].alive
             /\ \A p \in Path :
                  org[h].table[p] = IF h = o /\ p \in told THEN Len(objs) + number[p] ELSE origins[h].table[p]
  <2>1. origins[h] \in OriginRecord /\ origins[o] \in OriginRecord
    BY <1>1
  <2>2. /\ TableWith(o, number) \in [Path -> Nat]
        /\ \A p \in Path : TableWith(o, number)[p] =
             IF p \in told THEN Len(objs) + number[p] ELSE origins[o].table[p]
    <3>1. \A p \in told : number[p] \in Nat
      BY <1>2
    <3> QED BY <1>1, <1>2, <2>1, <3>1 DEF TableWith, OriginRecord
  <2>3. org[h] = IF h = o THEN [origins[h] EXCEPT !.table = TableWith(o, number)] ELSE origins[h]
    OBVIOUS
  <2> QED BY <2>1, <2>2, <2>3 DEF OriginRecord
<1>10. DOMAIN org = DOMAIN origins
  OBVIOUS
<1>11. org \in Seq(OriginRecord) /\ Len(org) = Len(origins)
  <2>1. org \in [1..Len(origins) -> OriginRecord]
    BY <1>1, <1>9, <1>10
  <2> QED BY <1>1, <2>1
<1> HIDE DEF org
<1>12. \A p \in told : Len(objs) + number[p] \in DOMAIN all /\ Len(objs) + number[p] \notin DOMAIN objs
                        /\ Len(objs) + number[p] # 0
  <2> TAKE p \in told
  <2>1. number[p] \in 1..n
    BY <1>2
  <2> QED BY <1>1, <1>7, <1>size, <2>1
<1>13. TablesFit(org, all)
  <2>1. ASSUME NEW h \in DOMAIN origins, NEW p \in Path, org[h].table[p] # 0
        PROVE  org[h].table[p] \in {i \in DOMAIN all : all[i].path = p /\ all[i].origin = h /\ ~all[i].dropped}
    <3>1. CASE h = o /\ p \in told
      <4> DEFINE k == number[p]
      <4>1. k \in 1..n /\ org[h].table[p] = Len(objs) + k /\ all[Len(objs) + k] = new[k]
        BY <1>2, <1>7, <1>9, <3>1
      <4>2. new[k].path = p
        BY <1>2, <1>5, <3>1, <4>1
      <4> QED BY <1>5, <1>12, <3>1, <4>1, <4>2
    <3>2. CASE ~(h = o /\ p \in told)
      <4>1. org[h].table[p] = origins[h].table[p]
        BY <1>9, <3>2
      <4>2. origins[h].table[p] \in {i \in DOMAIN objs : objs[i].path = p /\ objs[i].origin = h /\ ~objs[i].dropped}
        BY <1>1, <2>1, <4>1 DEF TablesFit
      <4>3. PICK i \in DOMAIN objs : i = org[h].table[p] /\ objs[i].path = p /\ objs[i].origin = h /\ ~objs[i].dropped
        BY <4>1, <4>2
      <4>4. i \in DOMAIN all /\ all[i] = objs[i]
        BY <1>1, <1>7, <1>size
      <4> QED BY <4>3, <4>4
    <3> QED BY <3>1, <3>2
  <2> QED BY <1>10, <2>1 DEF TablesFit
<1>14. \A i \in DOMAIN all : all[i].origin \in DOMAIN org
  BY <1>1, <1>5, <1>7, <1>8, <1>10
<1>15. Fit(org, all)
  BY <1>1, <1>7, <1>9, <1>10, <1>11, <1>13, <1>14 DEF Fit, n
<1>16. \A i \in DOMAIN all : i \notin DOMAIN objs =>
         /\ all[i].path \in told
         /\ all[i].state = CallStateOf(all[i].path, seen[all[i].path])
  BY <1>5, <1>8
<1>17. \A h \in DOMAIN origins :
         /\ \A p \in Path : origins[h].table[p] # 0 => org[h].table[p] # 0
         /\ h = o => \A p \in told : org[h].table[p] # 0
  BY <1>9, <1>12
<1>18. DOMAIN objs \subseteq DOMAIN all
  BY <1>1, <1>7, <1>size
<1>19. Added(org, all, o, told, seen)
  BY <1>7, <1>9, <1>10, <1>15, <1>16, <1>17, <1>18 DEF Added
<1> QED BY <1>19 DEF org, all, new

-----------------------------------------------------------------------------
(* What each step of a provider keeps. *)

StepFits == Later(objs, objs') /\ Aging(origins, origins')

LEMMA TonesKept ==
  ASSUME TonesFit, UNCHANGED toneVars
  PROVE  TonesFit'
BY DEF TonesFit, TonesInOrder, toneVars

\* Who knew of the calls, or was to learn of them, still does.
LEMMA StillTold ==
  ASSUME NoCallMissed, EndedIsDeleted,
         net' = net,
         Listed' = Listed \/ Listed' = {},
         \A o \in Listed', p \in Path : Keyed(o, p) => Keyed(o, p)',
         \A o \in Listed', p \in Path, r \in pending :
           WillTell(r, o, p) /\ Exists(p) =>
             \/ \E q \in pending' : WillTell(q, o, p)'
             \/ /\ Keyed(o, p)'
                /\ net[p] = "TERMINATED" => \E q \in asked' : q.op = "delete" /\ q.path = p,
         \A r \in asked : r.op = "delete" /\ Exists(r.path) =>
           \E q \in asked' : q.op = "delete" /\ q.path = r.path
  PROVE  NoCallMissed' /\ EndedIsDeleted'
<1>1. ASSUME NEW o \in Listed', NEW p \in Path, Exists(p)'
      PROVE  Keyed(o, p)' \/ \E r \in pending' : WillTell(r, o, p)'
  <2>1. o \in Listed /\ Exists(p)
    BY <1>1 DEF Exists
  <2>2. Keyed(o, p) \/ \E r \in pending : WillTell(r, o, p)
    BY <2>1 DEF NoCallMissed
  <2> QED BY <2>1, <2>2
<1>2. ASSUME NEW p \in Path, net'[p] = "TERMINATED", Listed' # {}
      PROVE  \/ \E r \in asked' : r.op = "delete" /\ r.path = p
             \/ \E o \in Listed', r \in pending' : WillTell(r, o, p)'
  <2>1. net[p] = "TERMINATED" /\ Exists(p) /\ Listed' = Listed
    BY <1>2 DEF Exists
  <2>2. \/ \E r \in asked : r.op = "delete" /\ r.path = p
        \/ \E o \in Listed, r \in pending : WillTell(r, o, p)
    BY <2>1, <1>2 DEF EndedIsDeleted
  <2> QED BY <2>1, <2>2
<1> QED BY <1>1, <1>2 DEF NoCallMissed, EndedIsDeleted

LEMMA NothingToTell ==
  ASSUME \A p \in Path : ~Exists(p)'
  PROVE  NoCallMissed' /\ EndedIsDeleted'
<1>1. \A p \in Path : net'[p] # "TERMINATED"
  BY DEF Exists
<1> QED BY <1>1 DEF NoCallMissed, EndedIsDeleted

LEMMA Indices ==
  ASSUME Fit(origins, objs)
  PROVE  /\ DOMAIN origins = 1..Len(origins) /\ Len(origins) \in Nat
         /\ 0 \notin DOMAIN origins /\ 0 \notin Listed
         /\ \A o \in DOMAIN origins : origins[o] \in OriginRecord
         /\ DOMAIN objs = 1..Len(objs) /\ Len(objs) \in Nat
         /\ \A i \in DOMAIN objs : objs[i] \in ObjRecord /\ objs[i].path \in Path
<1>1. /\ DOMAIN origins = 1..Len(origins) /\ Len(origins) \in Nat
      /\ \A o \in DOMAIN origins : origins[o] \in OriginRecord
      /\ DOMAIN objs = 1..Len(objs) /\ Len(objs) \in Nat
      /\ \A i \in DOMAIN objs : objs[i] \in ObjRecord
  BY DEF Fit
<1>2. \A i \in DOMAIN objs : objs[i].path \in Path
  BY <1>1 DEF ObjRecord
<1>3. 0 \notin DOMAIN origins /\ 0 \notin Listed
  BY <1>1 DEF Listed
<1> QED BY <1>1, <1>2, <1>3

\* A step that leaves the calls and their objects alone.
LEMMA Untouched ==
  ASSUME ModemsInv, UNCHANGED <<plugin, net, origins, objs>>
  PROVE  /\ Fit(origins, objs)' /\ ObjsFollow(objs)' /\ StepFits
         /\ Listed' = Listed /\ Used' = Used
         /\ \A o \in Listed, p \in Path : Keyed(o, p)' = Keyed(o, p)
<1>1. Fit(origins, objs) /\ ObjsFollow(objs)
  BY DEF ModemsInv
<1>2. Fit(origins, objs)'
  BY <1>1 DEF Fit, TablesFit
<1>3. ObjsFollow(objs)'
  BY <1>1 DEF ObjsFollow
<1>4. StepFits
  BY DEF StepFits, Later, Aging
<1> QED BY <1>2, <1>3, <1>4 DEF Listed, Used, Keyed

\* A step that ends a callback.
LEMMA SettledStep ==
  ASSUME plugin' # "dummy", NEW pend, NEW ask, NEW os, NEW ob, Fit(os, ob), Settle(pend, ask, os, ob),
         Later(objs, ob), Aging(origins, os),
         \A i \in DOMAIN ob : /\ net'[ob[i].path] # "NONE"
                              /\ ob[i].state = "DISCONNECTED" => net'[ob[i].path] \in {"TERMINATED", "GONE"}
  PROVE  StepFits /\ Fit(origins, objs)' /\ ObjsFollow(objs)'
<1>1. /\ Fit(origins', objs')
      /\ DOMAIN origins' = DOMAIN os
      /\ \A o \in DOMAIN os : origins'[o].listed = os[o].listed
      /\ DOMAIN objs' = DOMAIN ob
      /\ \A i \in DOMAIN ob :
           /\ objs'[i].origin = ob[i].origin /\ objs'[i].path = ob[i].path
           /\ objs'[i].state = ob[i].state
           /\ ob[i].dropped => objs'[i].dropped
  BY Settled
<1>2. Later(objs, objs')
  BY <1>1 DEF Later
<1>3. Aging(origins, origins')
  BY <1>1 DEF Aging
<1>4. ObjsFollow(objs)'
  <2>1. ASSUME NEW i \in DOMAIN objs'
        PROVE  /\ net'[objs'[i].path] # "NONE"
               /\ objs'[i].state = "DISCONNECTED" => net'[objs'[i].path] \in {"TERMINATED", "GONE"}
    <3>1. objs'[i].path = ob[i].path /\ objs'[i].state = ob[i].state /\ i \in DOMAIN ob
      BY <1>1
    <3> QED BY <3>1
  <2> QED BY <2>1 DEF ObjsFollow
<1>5. Fit(origins, objs)'
  BY <1>1 DEF Fit, TablesFit
<1> QED BY <1>2, <1>3, <1>4, <1>5 DEF StepFits

-----------------------------------------------------------------------------
(* ModemManager. *)

\* A request of ModemManager's origins that will tell of a call is a listing.
LEMMA MmTells ==
  ASSUME NEW o, NEW p \in Path, NEW r \in MmRequest, o # 0,
         r.kind \in {"call", "voice", "calls", "manager"}
  PROVE  ~WillTell(r, o, p)
BY ModemAssumption DEF MmRequest, WillTell, Listings

\* A listing that the service has answered, or not, as r' is of r.
Advances(r, q) ==
  /\ q.kind = r.kind /\ q.origin = r.origin
  /\ \/ q.answered = r.answered /\ q.answer = r.answer
     \/ ~r.answered /\ q.answered /\ q.answer = {p \in Path : Exists(p) /\ r.kind \in {p, "all"}}

\* Steps that only ask, or answer.
LEMMA MmTalks ==
  ASSUME ModemsInv, plugin = "mm", UNCHANGED <<plugin, net, origins, objs, toneVars>>,
         NetFits', AskedFit(asked'), asked \subseteq asked', pending' \subseteq MmRequest,
         \A r \in pending : r.kind # "manager" => \E q \in pending' : Advances(r, q)
  PROVE  ModemsInv' /\ StepFits
<1>1. /\ Fit(origins, objs) /\ AskedFit(asked) /\ PendingFits
      /\ NoCallMissed /\ EndedIsDeleted /\ TonesFit
  BY DEF ModemsInv
<1>2. /\ Fit(origins, objs)' /\ ObjsFollow(objs)' /\ StepFits
      /\ Listed' = Listed /\ Used' = Used
      /\ \A o \in Listed, p \in Path : Keyed(o, p)' = Keyed(o, p)
  BY Untouched
<1>3. MmRequest' = MmRequest
  BY <1>2 DEF MmRequest
<1>4. PendingFits'
  BY <1>3 DEF PendingFits
<1>5. ASSUME NEW o \in Listed', NEW p \in Path, NEW r \in pending, WillTell(r, o, p), Exists(p)
      PROVE  \E q \in pending' : WillTell(q, o, p)'
  <2>1. o # 0 /\ r \in MmRequest
    BY <1>1, <1>2, Indices DEF PendingFits
  <2>2. r.kind # "manager" /\ r.kind \in Path \union {"all"} /\ r.origin = o
    BY <1>5, <2>1, MmTells DEF WillTell, Listings
  <2>3. PICK q \in pending' : Advances(r, q)
    BY <2>2
  <2>4. r \in Listings /\ (IF r.answered THEN p \in r.answer ELSE r.kind \in {p, "all"})
    BY <1>5, <2>1, <2>2, ModemAssumption DEF WillTell
  <2>5. q \in Listings'
    BY <2>2, <2>3 DEF Listings, Advances
  <2>6. q.origin = o /\ (IF q.answered THEN p \in q.answer ELSE q.kind \in {p, "all"})
    BY <1>5, <2>2, <2>3, <2>4 DEF Advances
  <2> QED BY <2>5, <2>6 DEF WillTell
<1>6. NoCallMissed' /\ EndedIsDeleted'
  <2>1. \A o \in Listed', p \in Path, r \in pending : WillTell(r, o, p) /\ Exists(p) =>
          \E q \in pending' : WillTell(q, o, p)'
    BY <1>5
  <2>2. \A r \in asked : r.op = "delete" /\ Exists(r.path) =>
          \E q \in asked' : q.op = "delete" /\ q.path = r.path
    OBVIOUS
  <2> QED BY <1>1, <1>2, <2>1, <2>2, StillTold
<1>7. TonesFit'
  BY <1>1, TonesKept
<1> QED BY <1>2, <1>4, <1>6, <1>7 DEF ModemsInv

LEMMA MmAsking ==
  ASSUME ModemsInv, plugin = "mm", UNCHANGED ofonoVars,
         \/ MmAppears \/ MmModemArrives
         \/ \E r \in pending : ManagerCreated(r) \/ ListAnswered(r)
         \/ \E o \in DOMAIN origins : MmDial(o)
         \/ \E i \in DOMAIN objs, op \in {"accept", "hangup"} : MmAsk(op, i)
  PROVE  ModemsInv' /\ StepFits
<1>1. /\ Fit(origins, objs) /\ NetFits /\ AskedFit(asked)
      /\ pending \subseteq MmRequest
  BY DEF ModemsInv, PendingFits
<1>2. UNCHANGED toneVars
  BY DEF ofonoVars, toneVars
<1>3. CASE MmAppears
  <2>1. /\ UNCHANGED <<plugin, modem, net, asked, origins, objs>>
        /\ pending' = (pending \ Creations) \union {Creation(TRUE) : r \in Creations} \union {Creation(FALSE)}
    BY <1>3 DEF MmAppears
  <2>2. pending' \subseteq MmRequest
    <3>1. Creation(TRUE) \in MmRequest /\ Creation(FALSE) \in MmRequest
      BY DEF MmRequest, Creation
    <3> QED BY <1>1, <2>1, <3>1
  <2>3. \A r \in pending : r.kind # "manager" => r \in pending'
    BY <2>1 DEF Creations
  <2>4. NetFits' /\ AskedFit(asked')
    BY <1>1, <2>1 DEF NetFits, Unused, Exists
  <2> QED BY <1>2, <2>1, <2>2, <2>3, <2>4, MmTalks DEF Advances
<1>4. CASE MmModemArrives
  <2>1. UNCHANGED <<plugin, net, asked, pending, origins, objs>> /\ modem' = "voice"
    BY <1>4 DEF MmModemArrives
  <2>2. NetFits' /\ AskedFit(asked')
    BY <1>1, <2>1 DEF NetFits, Unused, Exists
  <2> QED BY <1>1, <1>2, <2>1, <2>2, MmTalks DEF Advances
<1>5. ASSUME NEW r \in pending, ManagerCreated(r)
      PROVE  ModemsInv' /\ StepFits
  <2>1. /\ UNCHANGED <<plugin, modem, net, asked, origins, objs>>
        /\ r.kind = "manager" /\ pending' = pending \ {r}
    BY <1>5 DEF ManagerCreated, Creations, serviceVars
  <2>2. NetFits' /\ AskedFit(asked')
    BY <1>1, <2>1 DEF NetFits, Unused, Exists
  <2>3. \A q \in pending : q.kind # "manager" => q \in pending'
    BY <2>1
  <2> QED BY <1>1, <1>2, <2>1, <2>2, <2>3, MmTalks DEF Advances
<1>6. ASSUME NEW r \in pending, ListAnswered(r)
      PROVE  ModemsInv' /\ StepFits
  <2> DEFINE q == [r EXCEPT !.answered = TRUE, !.answer = {p \in Path : Exists(p) /\ r.kind \in {p, "all"}}]
  <2>1. /\ UNCHANGED <<plugin, modem, net, asked, origins, objs>>
        /\ r \in Listings /\ ~r.answered
        /\ pending' = (pending \ {r}) \union {q}
    BY <1>6 DEF ListAnswered, serviceVars
  <2>2. r \in [kind : Path \union {"all"}, origin : DOMAIN origins, answered : BOOLEAN, answer : SUBSET Used]
    BY <1>1, <2>1, ModemAssumption DEF Listings, MmRequest
  <2>3. {p \in Path : Exists(p) /\ r.kind \in {p, "all"}} \in SUBSET Used
    BY DEF Used, Exists
  <2>4. q \in MmRequest /\ Advances(r, q)
    BY <2>1, <2>2, <2>3 DEF MmRequest, Advances
  <2>5. NetFits' /\ AskedFit(asked')
    BY <1>1, <2>1 DEF NetFits, Unused, Exists
  <2>6. \A x \in pending : \E y \in pending' : Advances(x, y)
    <3> HIDE DEF q
    <3> QED BY <2>1, <2>4 DEF Advances
  <2>7. pending' \subseteq MmRequest
    BY <1>1, <2>1, <2>4
  <2> QED BY <1>2, <2>1, <2>5, <2>6, <2>7, MmTalks
<1>7. ASSUME NEW o \in DOMAIN origins, MmDial(o)
      PROVE  ModemsInv' /\ StepFits
  <2>1. /\ UNCHANGED <<plugin, modem, net, pending, origins, objs>>
        /\ asked' = asked \union {Request("create", "none", 0)}
    BY <1>7 DEF MmDial, serviceVars
  <2>2. NetFits' /\ AskedFit(asked')
    BY <1>1, <2>1 DEF NetFits, Unused, Exists, AskedFit, Request
  <2> QED BY <1>1, <1>2, <2>1, <2>2, MmTalks DEF Advances
<1>8. ASSUME NEW i \in DOMAIN objs, NEW op, MmAsk(op, i)
      PROVE  ModemsInv' /\ StepFits
  <2>1. /\ UNCHANGED <<plugin, modem, net, pending, origins, objs>>
        /\ asked' = asked \union {Request(op, objs[i].path, 0)}
    BY <1>8 DEF MmAsk, serviceVars
  <2>2. objs[i].path \in Path
    BY <1>1, Indices
  <2>3. NetFits' /\ AskedFit(asked')
    BY <1>1, <2>1, <2>2 DEF NetFits, Unused, Exists, AskedFit, Request
  <2> QED BY <1>1, <1>2, <2>1, <2>3, MmTalks DEF Advances
<1> QED BY <1>3, <1>4, <1>5, <1>6, <1>7, <1>8

\* Steps that end a callback, and leave the calls of the service alone.
LEMMA MmReturns ==
  ASSUME ModemsInv, plugin = "mm", UNCHANGED ofonoVars,
         \/ \E r \in pending : ListFails(r)
         \/ \E r \in asked : RequestRefused(r)
         \/ MmVanishes \/ MmModemLeaves
  PROVE  ModemsInv' /\ StepFits
<1>1. /\ Fit(origins, objs) /\ NetFits /\ AskedFit(asked) /\ ObjsFollow(objs)
      /\ pending \subseteq MmRequest
      /\ NoCallMissed /\ EndedIsDeleted /\ TonesFit
  BY DEF ModemsInv, PendingFits
<1>2. TonesFit'
  BY <1>1, TonesKept DEF ofonoVars, toneVars
<1>3. \A i \in DOMAIN objs : net[objs[i].path] # "NONE"
                              /\ (objs[i].state = "DISCONNECTED" => net[objs[i].path] \in {"TERMINATED", "GONE"})
  BY <1>1 DEF ObjsFollow
<1>4. Later(objs, objs) /\ Aging(origins, origins) /\ Aging(origins, Unlist(origins))
  BY <1>1, Unlisting DEF Later, Aging
<1>5. ASSUME UNCHANGED <<plugin, modem, net>>, NEW pend \in SUBSET pending, NEW ask \in SUBSET asked,
             Settle(pend, ask, origins, objs),
             \A r \in pending : r \in pend \/ r.origin \notin Listed,
             \A r \in asked : r.op = "delete" /\ Exists(r.path) => r \in ask
      PROVE  ModemsInv' /\ StepFits
  <2>1. /\ pending' = pend /\ asked' = ask
        /\ DOMAIN origins' = DOMAIN origins
        /\ \A o \in DOMAIN origins : origins[o].listed => origins'[o].table = origins[o].table
        /\ Listed' = Listed
    BY <1>1, <1>5, Settled DEF Listed
  <2>3. StepFits /\ Fit(origins, objs)' /\ ObjsFollow(objs)'
    <3>1. \A i \in DOMAIN objs : /\ net'[objs[i].path] # "NONE"
                                 /\ objs[i].state = "DISCONNECTED" => net'[objs[i].path] \in {"TERMINATED", "GONE"}
      BY <1>3, <1>5
    <3> QED BY <1>1, <1>4, <1>5, <3>1, SettledStep
  <2>4. NetFits' /\ AskedFit(asked)'
    BY <1>1, <1>5, <2>1 DEF NetFits, Unused, Exists, AskedFit
  <2>5. PendingFits'
    <3>1. MmRequest' = MmRequest
      BY <1>5, <2>1 DEF MmRequest, Used
    <3> QED BY <1>1, <1>5, <2>1, <3>1 DEF PendingFits
  <2>6. NoCallMissed' /\ EndedIsDeleted'
    <3>1. \A o \in Listed', p \in Path : Keyed(o, p) => Keyed(o, p)'
      BY <2>1 DEF Keyed, Listed
    <3>2. ASSUME NEW o \in Listed', NEW p \in Path, NEW r \in pending, WillTell(r, o, p)
          PROVE  \E q \in pending' : WillTell(q, o, p)'
      <4>1. r.origin = o /\ r \in pending'
        BY <1>5, <2>1, <3>2 DEF WillTell
      <4> QED BY <3>2, <4>1 DEF WillTell, Listings
    <3>3. \A r \in asked : r.op = "delete" /\ Exists(r.path) =>
            \E q \in asked' : q.op = "delete" /\ q.path = r.path
      BY <1>5, <2>1
    <3> QED BY <1>1, <1>5, <2>1, <3>1, <3>2, <3>3, StillTold
  <2> QED BY <1>2, <2>3, <2>4, <2>5, <2>6 DEF ModemsInv
<1>6. ASSUME UNCHANGED <<plugin, asked>>, modem' = "none", NetFits',
             \A p \in Path : ~Exists(p)' /\ (net[p] # "NONE" => net'[p] # "NONE"),
             Settle(pending, asked, Unlist(origins), objs)
      PROVE  ModemsInv' /\ StepFits
  <2>1. Fit(Unlist(origins), objs) /\ DOMAIN Unlist(origins) = DOMAIN origins
    BY <1>1, Unlisting
  <2>2. pending' = pending /\ DOMAIN origins' = DOMAIN origins
    BY <1>6, <2>1, Settled
  <2>3. StepFits /\ Fit(origins, objs)' /\ ObjsFollow(objs)'
    <3>1. \A i \in DOMAIN objs : /\ net'[objs[i].path] # "NONE"
                                 /\ objs[i].state = "DISCONNECTED" => net'[objs[i].path] \in {"TERMINATED", "GONE"}
      BY <1>1, <1>3, <1>6, Indices DEF Exists
    <3> QED BY <1>4, <1>6, <2>1, <3>1, SettledStep
  <2>4. PendingFits'
    <3>1. MmRequest \subseteq MmRequest'
      BY <1>6, <2>2 DEF MmRequest, Used
    <3> QED BY <1>1, <1>6, <2>2, <3>1 DEF PendingFits
  <2>5. NoCallMissed' /\ EndedIsDeleted'
    BY <1>6, NothingToTell
  <2>6. AskedFit(asked)'
    BY <1>1, <1>6 DEF AskedFit
  <2> QED BY <1>2, <1>6, <2>3, <2>4, <2>5, <2>6 DEF ModemsInv
<1>7. ASSUME NEW r \in pending, ListFails(r)
      PROVE  ModemsInv' /\ StepFits
  <2>1. /\ UNCHANGED <<plugin, modem, net>> /\ r.origin \notin Listed
        /\ Settle(pending \ {r}, asked, origins, objs)
    BY <1>7 DEF ListFails, serviceVars
  <2> QED BY <1>5, <2>1
<1>8. ASSUME NEW r \in asked, RequestRefused(r)
      PROVE  ModemsInv' /\ StepFits
  <2>1. /\ UNCHANGED <<plugin, modem, net>> /\ (r.op = "delete" => ~Exists(r.path))
        /\ Settle(pending, asked \ {r}, origins, objs)
    BY <1>8 DEF RequestRefused, RequestFails, Possible, serviceVars
  <2> QED BY <1>5, <2>1
<1>9. CASE MmVanishes
  <2>1. /\ Unused /\ modem' = "none" /\ UNCHANGED <<plugin, net>>
        /\ Settle(pending, asked, Unlist(origins), objs)
    BY <1>9 DEF MmVanishes
  <2>2. asked' = asked
    BY <2>1 DEF Settle
  <2>3. NetFits' /\ \A p \in Path : ~Exists(p)'
    BY <1>1, <2>1 DEF NetFits, Unused, Exists
  <2> QED BY <1>6, <2>1, <2>2, <2>3
<1>10. CASE MmModemLeaves
  <2>1. /\ modem' = "none" /\ UNCHANGED plugin /\ CallsLost
        /\ Settle(pending, asked, Unlist(origins), objs)
    BY <1>10 DEF MmModemLeaves
  <2>2. asked' = asked
    BY <2>1 DEF Settle
  <2>3. \A p \in Path : ~Exists(p)' /\ (net[p] # "NONE" => net'[p] # "NONE") /\ net'[p] \in NetState
                         /\ net'[p] # "TERMINATED"
    BY <1>1, <2>1 DEF CallsLost, Exists, NetFits, NetState
  <2>4. NetFits'
    BY <1>1, <2>1, <2>3, plugin = "mm" DEF NetFits, CallsLost
  <2> QED BY <1>6, <2>1, <2>2, <2>3, <2>4
<1> QED BY <1>7, <1>8, <1>9, <1>10

\* A new origin asks for all the calls there are.
LEMMA MmOriginAdded ==
  ASSUME ModemsInv, plugin = "mm", UNCHANGED ofonoVars, AddOrigin
  PROVE  ModemsInv' /\ StepFits
<1> DEFINE new == [NewOrigin EXCEPT !.voice = TRUE]
           os  == Append(origins, new)
           n   == Len(origins) + 1
           req == Listing(Len(os), "all")
<1>1. /\ Fit(origins, objs) /\ NetFits /\ AskedFit(asked) /\ ObjsFollow(objs)
      /\ pending \subseteq MmRequest /\ TonesFit
  BY DEF ModemsInv, PendingFits
<1>2. /\ UNCHANGED <<plugin, modem, net>>
      /\ Listed = {} /\ Len(origins) < MaxOrigins
      /\ Settle(pending \union {req}, asked, os, objs)
  BY DEF AddOrigin, WithOrigin, serviceVars
<1>3. new \in OriginRecord /\ new.alive /\ new.listed /\ new.table = NoTable
  BY DEF NewOrigin, OriginRecord, NoTable
<1> HIDE DEF new
<1>4. /\ Fit(os, objs)
      /\ DOMAIN os = DOMAIN origins \union {n}
      /\ \A o \in DOMAIN origins : os[o] = origins[o]
      /\ os[n] = new /\ n \notin DOMAIN origins
  BY <1>1, <1>2, <1>3, Joining
<1>5. Len(os) = n /\ n # 0
  BY <1>1, <1>2, Indices DEF Fit
<1> HIDE DEF os, n
<1>6. /\ pending' = pending \union {req} /\ asked' = asked
      /\ DOMAIN origins' = DOMAIN os
      /\ Listed' = {o \in DOMAIN os : os[o].listed}
  BY <1>2, <1>4, Settled
<1>7. Listed' = {n}
  BY <1>2, <1>3, <1>4, <1>6 DEF Listed
<1>8. StepFits /\ Fit(origins, objs)' /\ ObjsFollow(objs)'
  <2>1. Later(objs, objs) /\ Aging(origins, os)
    BY <1>4 DEF Later, Aging
  <2>2. \A i \in DOMAIN objs : /\ net'[objs[i].path] # "NONE"
                               /\ objs[i].state = "DISCONNECTED" => net'[objs[i].path] \in {"TERMINATED", "GONE"}
    BY <1>1, <1>2 DEF ObjsFollow
  <2>3. plugin' # "dummy"
    BY <1>2
  <2> QED BY <1>2, <1>4, <2>1, <2>2, <2>3, SettledStep
<1>9. NetFits' /\ AskedFit(asked)' /\ TonesFit'
  BY <1>1, <1>2, <1>6, TonesKept DEF NetFits, Unused, Exists, AskedFit, ofonoVars, toneVars
<1>10. req \in MmRequest'
  BY <1>4, <1>5, <1>6 DEF Listing, MmRequest
<1>11. PendingFits'
  <2>1. MmRequest \subseteq MmRequest'
    BY <1>2, <1>4, <1>6 DEF MmRequest, Used
  <2> QED BY <1>1, <1>2, <1>6, <1>10, <2>1 DEF PendingFits
<1>12. ASSUME NEW o, NEW q, o = n, q = req, NEW p \in Path
       PROVE  q \in pending' /\ WillTell(q, o, p)'
  BY <1>5, <1>6, <1>12 DEF WillTell, Listings, Listing
<1>13. NoCallMissed' /\ EndedIsDeleted'
  <2>1. ASSUME NEW o \in Listed', NEW p \in Path
        PROVE  \E q \in pending' : WillTell(q, o, p)'
    <3>1. o = n
      BY <1>7
    <3>2. PICK q : q = req
      OBVIOUS
    <3> QED BY <1>12, <3>1, <3>2
  <2> QED BY <1>7, <2>1 DEF NoCallMissed, EndedIsDeleted
<1> QED BY <1>8, <1>9, <1>11, <1>13 DEF ModemsInv

\* The calls of a listing become known, and those that ended are deleted.
LEMMA MmListed ==
  ASSUME ModemsInv, plugin = "mm", UNCHANGED ofonoVars, NEW r \in pending, ListDone(r)
  PROVE  ModemsInv' /\ StepFits
<1>1. /\ Fit(origins, objs) /\ NetFits /\ AskedFit(asked) /\ ObjsFollow(objs)
      /\ pending \subseteq MmRequest /\ TonesFit
      /\ NoCallMissed /\ EndedIsDeleted
  BY DEF ModemsInv, PendingFits
<1>2. PICK number \in Bijection(r.answer, 1..Cardinality(r.answer)), seen \in [r.answer -> NetState] :
        /\ \A p \in r.answer : seen[p] \in ProxyStates(p)
        /\ Settle(pending \ {r}, asked \union AskedWith(r.origin, number, seen),
                  [origins EXCEPT ![r.origin].table = TableWith(r.origin, number)],
                  objs \o NewCalls(r.origin, number, seen))
  BY DEF ListDone
<1>3. /\ UNCHANGED <<plugin, modem, net>> /\ r \in Listings /\ r.answered
      /\ Len(objs) + Cardinality(r.answer) <= MaxObjs
  BY DEF ListDone, serviceVars
<1> DEFINE o   == r.origin
           os  == [origins EXCEPT ![o].table = TableWith(o, number)]
           ob  == objs \o NewCalls(o, number, seen)
           ask == AskedWith(o, number, seen)
<1>4. /\ r \in [kind : Path \union {"all"}, origin : DOMAIN origins, answered : BOOLEAN, answer : SUBSET Used]
      /\ o \in DOMAIN origins /\ r.answer \in SUBSET Path /\ r.answer \subseteq Used
  BY <1>1, <1>3, ModemAssumption DEF Listings, MmRequest, Used
<1>5. Cardinality(r.answer) \in Nat
  BY <1>4, ModemAssumption, FS_Subset, FS_CardinalityType
<1>6. \A p \in r.answer :
        IF Exists(p) THEN seen[p] = net[p] ELSE seen[p] \in {"UNKNOWN", "TERMINATED"}
  BY <1>2 DEF ProxyStates
<1>7. seen \in [r.answer -> NetState \ {"NONE", "GONE"}]
  BY <1>2, <1>6 DEF Exists
<1>8. Added(os, ob, o, r.answer, seen)
  BY <1>1, <1>2, <1>3, <1>4, <1>5, <1>7, Adding
<1> HIDE DEF ask, os, ob
<1>9. Settle(pending \ {r}, asked \union ask, os, ob)
  BY <1>2 DEF os, ob, ask
<1>10. /\ pending' = pending \ {r} /\ asked' = asked \union ask
       /\ DOMAIN origins' = DOMAIN os
       /\ \A h \in DOMAIN os : os[h].listed => origins'[h].table = os[h].table
       /\ Listed' = {h \in DOMAIN os : os[h].listed}
  BY <1>8, <1>9, Settled DEF Added
<1>11. Listed' = Listed
  BY <1>8, <1>10 DEF Added, Listed
<1>12. StepFits /\ Fit(origins, objs)' /\ ObjsFollow(objs)'
  <2>1. Later(objs, ob) /\ Aging(origins, os)
    BY <1>8 DEF Added, Later, Aging
  <2>2. ASSUME NEW i \in DOMAIN ob
        PROVE  /\ net'[ob[i].path] # "NONE"
               /\ ob[i].state = "DISCONNECTED" => net'[ob[i].path] \in {"TERMINATED", "GONE"}
    <3>1. CASE i \in DOMAIN objs
      BY <1>1, <1>3, <1>8, <3>1 DEF Added, ObjsFollow
    <3>2. CASE i \notin DOMAIN objs
      <4> DEFINE p == ob[i].path
      <4>1. p \in r.answer /\ ob[i].state = CallStateOf(p, seen[p]) /\ p \in Used
        BY <1>4, <1>8, <3>2 DEF Added
      <4> HIDE DEF p
      <4>2. ob[i].state = "DISCONNECTED" => seen[p] = "TERMINATED"
        <5>1. seen[p] \in NetState \ {"NONE", "GONE"}
          BY <1>7, <4>1
        <5> QED BY <4>1, <5>1 DEF CallStateOf, NetState
      <4>3. seen[p] = "TERMINATED" => net[p] \in {"NONE", "TERMINATED", "GONE"}
        BY <1>6, <4>1 DEF Exists
      <4> QED BY <1>3, <4>1, <4>2, <4>3 DEF p, Used
    <3> QED BY <3>1, <3>2
  <2>3. plugin' # "dummy"
    BY <1>3
  <2>4. Fit(os, ob)
    BY <1>8 DEF Added
  <2> QED BY <1>9, <2>1, <2>2, <2>3, <2>4, SettledStep
<1>13. NetFits' /\ TonesFit'
  BY <1>1, <1>3, TonesKept DEF NetFits, Unused, Exists, ofonoVars, toneVars
<1>14. AskedFit(asked)'
  <2>1. DOMAIN number = r.answer
    BY <1>2 DEF Bijection, Injection
  <2>2. \A q \in ask : q.path \in Path
    BY <1>4, <2>1 DEF ask, AskedWith, Request
  <2> QED BY <1>1, <1>10, <2>2 DEF AskedFit
<1>15. PendingFits'
  <2>1. MmRequest \subseteq MmRequest'
    BY <1>3, <1>8, <1>10 DEF Added, MmRequest, Used
  <2> QED BY <1>1, <1>3, <1>10, <2>1 DEF PendingFits
<1>16. NoCallMissed' /\ EndedIsDeleted'
  <2>1. \A h \in Listed', p \in Path : Keyed(h, p) => Keyed(h, p)'
    BY <1>8, <1>10, <1>11 DEF Added, Keyed, Listed
  <2>2. ASSUME NEW h \in Listed', NEW p \in Path, NEW q \in pending, WillTell(q, h, p), Exists(p)
        PROVE  \/ \E x \in pending' : WillTell(x, h, p)'
               \/ /\ Keyed(h, p)'
                  /\ net[p] = "TERMINATED" => \E x \in asked' : x.op = "delete" /\ x.path = p
    <3>1. CASE q # r
      BY <1>10, <2>2, <3>1 DEF WillTell, Listings
    <3>2. CASE q = r
      <4>1. h = o /\ p \in r.answer
        BY <1>3, <1>4, <2>2, <3>2, ModemAssumption DEF WillTell
      <4>2. Keyed(h, p)'
        BY <1>8, <1>10, <1>11, <4>1 DEF Added, Keyed, Listed
      <4>3. ASSUME net[p] = "TERMINATED"
            PROVE  \E x \in asked' : x.op = "delete" /\ x.path = p
        <5>1. seen[p] = "TERMINATED"
          BY <1>6, <2>2, <4>1, <4>3
        <5>2. DOMAIN number = r.answer
          BY <1>2 DEF Bijection, Injection
        <5>3. Request("delete", p, o) \in ask
          BY <4>1, <5>1, <5>2 DEF ask, AskedWith
        <5> QED BY <1>10, <5>3 DEF Request
      <4> QED BY <4>2, <4>3
    <3> QED BY <3>1, <3>2
  <2>3. \A q \in asked : q.op = "delete" /\ Exists(q.path) =>
          \E x \in asked' : x.op = "delete" /\ x.path = q.path
    BY <1>10
  <2> QED BY <1>1, <1>3, <1>11, <2>1, <2>2, <2>3, StillTold
<1> QED BY <1>12, <1>13, <1>14, <1>15, <1>16 DEF ModemsInv

\* The objects of a call that lives are not over.
LEMMA Followed ==
  ASSUME ModemsInv, plugin # "dummy", NEW p \in Path, Live(p),
         NEW s \in Abstract!CallState \ {"UNKNOWN"}
  PROVE  /\ \A i \in DOMAIN objs : objs[i].path = p => objs[i].state # "DISCONNECTED"
         /\ Fit(origins, FollowNet(objs, p, s))
         /\ Later(objs, FollowNet(objs, p, s))
         /\ DOMAIN FollowNet(objs, p, s) = DOMAIN objs
         /\ \A i \in DOMAIN objs :
              /\ FollowNet(objs, p, s)[i].path = objs[i].path
              /\ FollowNet(objs, p, s)[i].state = IF objs[i].path = p THEN s ELSE objs[i].state
<1> DEFINE ob == FollowNet(objs, p, s)
<1>1. Fit(origins, objs) /\ ObjsFollow(objs) /\ net \in [Path -> NetState]
  BY DEF ModemsInv, NetFits
<1>2. /\ Fit(origins, ob) /\ DOMAIN ob = DOMAIN objs
      /\ \A i \in DOMAIN objs :
           /\ ob[i].origin = objs[i].origin /\ ob[i].path = objs[i].path
           /\ ob[i].dropped = objs[i].dropped
           /\ ob[i].state = IF objs[i].path = p THEN s ELSE objs[i].state
  BY <1>1, Following
<1> HIDE DEF ob
<1>3. \A i \in DOMAIN objs : objs[i].path = p => objs[i].state # "DISCONNECTED"
  BY <1>1 DEF ObjsFollow, Live, Exists
<1>4. ASSUME NEW i \in DOMAIN objs
      PROVE  ob[i].state = objs[i].state \/ ob[i].state \in Abstract!Successors(objs[i].state)
  BY <1>2, <1>3 DEF Abstract!Successors
<1>5. Later(objs, ob)
  BY <1>2, <1>4 DEF Later
<1> QED BY <1>2, <1>3, <1>5 DEF ob

LEMMA MmCallChanges ==
  ASSUME ModemsInv, plugin = "mm", UNCHANGED <<plugin, modem, toneVars>>,
         NEW p \in Path, NEW s \in NetState \ {"NONE", "GONE", "UNKNOWN"}, NEW handled,
         Live(p), \A r \in handled : r.op # "delete",
         StateChanged(p, s, handled)
  PROVE  ModemsInv' /\ StepFits
<1> DEFINE ob   == FollowNet(objs, p, CallStateOf(p, s))
           more == IF s = "TERMINATED" THEN {Request("delete", p, objs[i].origin) : i \in Disconnecting(p)} ELSE {}
           ask  == (asked \ handled) \union more
<1>1. /\ Fit(origins, objs) /\ NetFits /\ AskedFit(asked) /\ ObjsFollow(objs)
      /\ pending \subseteq MmRequest /\ TonesFit
      /\ NoCallMissed /\ EndedIsDeleted
  BY DEF ModemsInv, PendingFits
<1>2. net' = [net EXCEPT ![p] = s] /\ Settle(pending, ask, origins, ob)
  BY DEF StateChanged
<1>3. CallStateOf(p, s) \in Abstract!CallState \ {"UNKNOWN"} /\ (CallStateOf(p, s) = "DISCONNECTED" => s = "TERMINATED")
  BY DEF CallStateOf, Abstract!CallState, NetState
<1>4. /\ \A i \in DOMAIN objs : objs[i].path = p => objs[i].state # "DISCONNECTED"
      /\ Fit(origins, ob) /\ Later(objs, ob) /\ DOMAIN ob = DOMAIN objs
      /\ \A i \in DOMAIN objs :
           /\ ob[i].path = objs[i].path
           /\ ob[i].state = IF objs[i].path = p THEN CallStateOf(p, s) ELSE objs[i].state
  BY <1>3, Followed
<1> HIDE DEF ob
<1>5. /\ pending' = pending /\ asked' = ask
      /\ DOMAIN origins' = DOMAIN origins
      /\ \A h \in DOMAIN origins : origins[h].listed => origins'[h].table = origins[h].table
      /\ Listed' = Listed
  BY <1>2, <1>4, Settled DEF Listed
<1>6. /\ net' \in [Path -> NetState] /\ net'[p] = s
      /\ \A q \in Path : q # p => net'[q] = net[q]
  BY <1>1, <1>2 DEF NetFits
<1>7. StepFits /\ Fit(origins, objs)' /\ ObjsFollow(objs)'
  <2>1. Aging(origins, origins)
    BY DEF Aging
  <2>2. ASSUME NEW i \in DOMAIN ob
        PROVE  /\ net'[ob[i].path] # "NONE"
               /\ ob[i].state = "DISCONNECTED" => net'[ob[i].path] \in {"TERMINATED", "GONE"}
    <3>1. i \in DOMAIN objs /\ objs[i].path \in Path /\ ob[i].path = objs[i].path
      BY <1>1, <1>4, Indices
    <3>2. CASE objs[i].path = p
      BY <1>3, <1>4, <1>6, <3>1, <3>2
    <3>3. CASE objs[i].path # p
      BY <1>1, <1>4, <1>6, <3>1, <3>3 DEF ObjsFollow
    <3> QED BY <3>2, <3>3
  <2>3. plugin' # "dummy"
    OBVIOUS
  <2> QED BY <1>2, <1>4, <2>1, <2>2, <2>3, SettledStep
<1>8. NetFits' /\ TonesFit'
  <2>1. \A q \in Path : Exists(q)' => Exists(q)
    BY <1>6 DEF Exists, Live
  <2>2. TonesFit'
    BY <1>1, TonesKept
  <2> QED BY <1>1, <1>6, <2>1, <2>2 DEF NetFits
<1>9. AskedFit(asked)'
  <2>1. \A r \in more : r.path = p
    BY DEF Request
  <2> QED BY <1>1, <1>5, <2>1 DEF AskedFit
<1>10. PendingFits'
  <2>1. MmRequest \subseteq MmRequest'
    BY <1>5, <1>6 DEF MmRequest, Used
  <2> QED BY <1>1, <1>5, <2>1 DEF PendingFits
<1>11. \A o \in Listed, q \in Path : /\ Keyed(o, q)' = Keyed(o, q)
                                    /\ \A r \in pending : WillTell(r, o, q)' = WillTell(r, o, q)
  <2>1. \A o \in Listed : origins'[o].table = origins[o].table
    BY <1>5 DEF Listed
  <2> QED BY <1>5, <2>1 DEF Keyed, WillTell, Listings
<1>12. NoCallMissed'
  <2>1. \A q \in Path : Exists(q)' => Exists(q)
    BY <1>6 DEF Exists, Live
  <2> QED BY <1>1, <1>5, <1>11, <2>1 DEF NoCallMissed
<1>13. EndedIsDeleted'
  <2>1. ASSUME NEW q \in Path, net'[q] = "TERMINATED", Listed' # {}
        PROVE  \/ \E r \in asked' : r.op = "delete" /\ r.path = q
               \/ \E o \in Listed', r \in pending' : WillTell(r, o, q)'
    <3>1. CASE q # p
      <4>1. \/ \E r \in asked : r.op = "delete" /\ r.path = q
            \/ \E o \in Listed, r \in pending : WillTell(r, o, q)
        BY <1>1, <1>5, <1>6, <2>1, <3>1 DEF EndedIsDeleted
      <4> QED BY <1>5, <1>11, <4>1
    <3>2. CASE q = p
      <4>1. s = "TERMINATED"
        BY <1>6, <2>1, <3>2
      <4>2. PICK o \in Listed : TRUE
        BY <1>5, <2>1
      <4>3. CASE Keyed(o, p)
        <5> DEFINE i == origins[o].table[p]
        <5>1. i \in DOMAIN objs /\ objs[i].path = p /\ objs[i].origin = o
          BY <1>1, <4>2, <4>3 DEF Fit, TablesFit, Keyed, Listed
        <5>2. origins[o].alive
          BY <1>1, <4>2 DEF Fit, Listed
        <5>3. i \in Disconnecting(p)
          BY <1>4, <5>1, <5>2 DEF Disconnecting
        <5>4. Request("delete", p, objs[i].origin) \in asked'
          BY <1>5, <4>1, <5>3
        <5> QED BY <3>2, <5>4 DEF Request
      <4>4. CASE ~Keyed(o, p)
        <5>1. PICK r \in pending : WillTell(r, o, p)
          BY <1>1, <4>2, <4>4 DEF NoCallMissed, Live
        <5> QED BY <1>5, <1>11, <3>2, <4>2, <5>1
      <4> QED BY <4>3, <4>4
    <3> QED BY <3>1, <3>2
  <2> QED BY <2>1 DEF EndedIsDeleted
<1> QED BY <1>7, <1>8, <1>9, <1>10, <1>12, <1>13 DEF ModemsInv

LEMMA MmCallDeleted ==
  ASSUME ModemsInv, plugin = "mm", UNCHANGED <<plugin, modem, toneVars>>,
         NEW p \in Path, NEW r, r.path = p, Exists(p), CallDeleted(p, {r})
  PROVE  ModemsInv' /\ StepFits
<1> DEFINE heard == {o \in Listed : Keyed(o, p)}
           os    == Unkey(origins, heard, p)
           ob    == DropCall(objs, origins, heard, p)
<1>1. /\ Fit(origins, objs) /\ NetFits /\ AskedFit(asked) /\ ObjsFollow(objs)
      /\ pending \subseteq MmRequest /\ TonesFit
      /\ NoCallMissed /\ EndedIsDeleted
  BY DEF ModemsInv, PendingFits
<1>2. net' = [net EXCEPT ![p] = "GONE"] /\ Settle(pending, asked \ {r}, os, ob)
  BY DEF CallDeleted
<1>3. heard \in SUBSET DOMAIN origins
  BY DEF Listed
<1> HIDE DEF heard
<1>4. /\ Fit(os, ob)
      /\ DOMAIN os = DOMAIN origins
      /\ \A o \in DOMAIN origins :
           /\ os[o].listed = origins[o].listed /\ os[o].voice = origins[o].voice
           /\ \A q \in Path : q # p => os[o].table[q] = origins[o].table[q]
      /\ DOMAIN ob = DOMAIN objs
      /\ \A i \in DOMAIN objs :
           /\ ob[i].origin = objs[i].origin /\ ob[i].path = objs[i].path
           /\ ob[i].state = objs[i].state
           /\ objs[i].dropped => ob[i].dropped
  BY <1>1, <1>3, Unkeying
<1> HIDE DEF os, ob
<1>5. /\ pending' = pending /\ asked' = asked \ {r}
      /\ DOMAIN origins' = DOMAIN origins
      /\ \A h \in DOMAIN origins : origins[h].listed =>
           \A q \in Path : q # p => origins'[h].table[q] = origins[h].table[q]
      /\ Listed' = Listed
  BY <1>2, <1>4, Settled DEF Listed
<1>6. /\ net' \in [Path -> NetState] /\ net'[p] = "GONE"
      /\ \A q \in Path : q # p => net'[q] = net[q]
  BY <1>1, <1>2 DEF NetFits, NetState
<1>7. StepFits /\ Fit(origins, objs)' /\ ObjsFollow(objs)'
  <2>1. Aging(origins, os) /\ Later(objs, ob)
    BY <1>4 DEF Aging, Later
  <2>2. ASSUME NEW i \in DOMAIN ob
        PROVE  /\ net'[ob[i].path] # "NONE"
               /\ ob[i].state = "DISCONNECTED" => net'[ob[i].path] \in {"TERMINATED", "GONE"}
    <3>1. i \in DOMAIN objs /\ objs[i].path \in Path /\ ob[i].path = objs[i].path
      BY <1>1, <1>4, Indices
    <3> QED BY <1>1, <1>4, <1>6, <3>1 DEF ObjsFollow
  <2>3. plugin' # "dummy"
    OBVIOUS
  <2> QED BY <1>2, <1>4, <2>1, <2>2, <2>3, SettledStep
<1>8. \A q \in Path : (Exists(q)' => Exists(q) /\ q # p) /\ (net[q] # "NONE" => net'[q] # "NONE")
  BY <1>6 DEF Exists
<1>9. NetFits' /\ TonesFit' /\ AskedFit(asked)'
  BY <1>1, <1>5, <1>6, <1>8, TonesKept DEF NetFits, AskedFit
<1>10. PendingFits'
  <2>1. MmRequest \subseteq MmRequest'
    BY <1>5, <1>8 DEF MmRequest, Used
  <2> QED BY <1>1, <1>5, <2>1 DEF PendingFits
<1>11. \A o \in Listed, q \in Path : /\ q # p => Keyed(o, q)' = Keyed(o, q)
                                    /\ \A x \in pending : WillTell(x, o, q)' = WillTell(x, o, q)
  <2>1. \A o \in Listed : \A q \in Path : q # p => origins'[o].table[q] = origins[o].table[q]
    BY <1>5 DEF Listed
  <2> QED BY <1>5, <2>1 DEF Keyed, WillTell, Listings
<1>12. NoCallMissed'
  BY <1>1, <1>5, <1>8, <1>11 DEF NoCallMissed
<1>13. EndedIsDeleted'
  <2>1. ASSUME NEW q \in Path, net'[q] = "TERMINATED", Listed' # {}
        PROVE  \/ \E x \in asked' : x.op = "delete" /\ x.path = q
               \/ \E o \in Listed', x \in pending' : WillTell(x, o, q)'
    <3>1. q # p /\ net[q] = "TERMINATED"
      BY <1>6, <2>1
    <3>2. \/ \E x \in asked : x.op = "delete" /\ x.path = q
          \/ \E o \in Listed, x \in pending : WillTell(x, o, q)
      BY <1>1, <1>5, <2>1, <3>1 DEF EndedIsDeleted
    <3> QED BY <1>5, <1>11, <3>1, <3>2
  <2> QED BY <2>1 DEF EndedIsDeleted
<1> QED BY <1>7, <1>9, <1>10, <1>12, <1>13 DEF ModemsInv

\* A call arrives: each origin knows it, or lists it.
LEMMA MmCallArrived ==
  ASSUME ModemsInv, plugin = "mm", UNCHANGED <<plugin, modem, origins, objs, toneVars>>,
         NEW p \in Path, NEW s \in NetState \ {"NONE", "GONE", "TERMINATED"},
         modem = "voice", net[p] = "NONE", net' = [net EXCEPT ![p] = s],
         pending' = pending \union Wanted(p),
         asked' \subseteq asked, \A r \in asked : r.op = "delete" => r \in asked'
  PROVE  ModemsInv' /\ StepFits
<1>1. /\ Fit(origins, objs) /\ NetFits /\ AskedFit(asked) /\ ObjsFollow(objs)
      /\ pending \subseteq MmRequest /\ TonesFit
      /\ NoCallMissed /\ EndedIsDeleted
  BY DEF ModemsInv, PendingFits
<1>2. /\ net' \in [Path -> NetState] /\ net'[p] = s
      /\ \A q \in Path : q # p => net'[q] = net[q]
  BY <1>1 DEF NetFits
<1>3. Fit(origins, objs)' /\ StepFits /\ Listed' = Listed
  BY <1>1 DEF Fit, TablesFit, StepFits, Later, Aging, Listed
<1>4. ObjsFollow(objs)'
  <2>1. ASSUME NEW i \in DOMAIN objs
        PROVE  /\ net'[objs[i].path] # "NONE"
               /\ objs[i].state = "DISCONNECTED" => net'[objs[i].path] \in {"TERMINATED", "GONE"}
    <3>1. objs[i].path \in Path /\ objs[i].path # p
      BY <1>1, Indices DEF ObjsFollow
    <3> QED BY <1>1, <1>2, <3>1 DEF ObjsFollow
  <2> QED BY <2>1 DEF ObjsFollow
<1>5. NetFits' /\ TonesFit' /\ AskedFit(asked)'
  <2>1. TonesFit'
    BY <1>1, TonesKept
  <2> QED BY <1>1, <1>2, <2>1 DEF NetFits, AskedFit
<1>6. PendingFits'
  <2>1. MmRequest \subseteq MmRequest'
    BY <1>2 DEF MmRequest, Used
  <2>2. Wanted(p) \subseteq MmRequest
    <3>1. \A o \in Listed : Listing(o, p) \in MmRequest
      BY DEF Listing, MmRequest, Listed
    <3> QED BY <3>1 DEF Wanted
  <2> QED BY <1>1, <2>1, <2>2 DEF PendingFits
<1>7. \A o \in Listed, q \in Path :
        /\ Keyed(o, q)' = Keyed(o, q)
        /\ \A r \in pending : WillTell(r, o, q) => WillTell(r, o, q)'
  BY DEF Keyed, WillTell, Listings
<1>8. NoCallMissed'
  <2>1. ASSUME NEW o \in Listed', NEW q \in Path, Exists(q)'
        PROVE  Keyed(o, q)' \/ \E r \in pending' : WillTell(r, o, q)'
    <3>1. CASE q # p
      BY <1>1, <1>2, <1>3, <1>7, <2>1, <3>1 DEF NoCallMissed, Exists
    <3>2. CASE q = p /\ ~Keyed(o, p)
      <4>1. Listing(o, p) \in pending'
        BY <1>3, <3>2 DEF Wanted
      <4>2. WillTell(Listing(o, p), o, p)'
        BY <4>1 DEF WillTell, Listings, Listing
      <4> QED BY <3>2, <4>1, <4>2
    <3> QED BY <1>3, <1>7, <3>1, <3>2
  <2> QED BY <2>1 DEF NoCallMissed
<1>9. EndedIsDeleted'
  <2>1. ASSUME NEW q \in Path, net'[q] = "TERMINATED", Listed' # {}
        PROVE  \/ \E r \in asked' : r.op = "delete" /\ r.path = q
               \/ \E o \in Listed', r \in pending' : WillTell(r, o, q)'
    <3>1. net[q] = "TERMINATED"
      BY <1>2, <2>1
    <3>2. \/ \E r \in asked : r.op = "delete" /\ r.path = q
          \/ \E o \in Listed, r \in pending : WillTell(r, o, q)
      BY <1>1, <1>3, <2>1, <3>1 DEF EndedIsDeleted
    <3> QED BY <1>3, <1>7, <3>2
  <2> QED BY <2>1 DEF EndedIsDeleted
<1> QED BY <1>3, <1>4, <1>5, <1>6, <1>8, <1>9 DEF ModemsInv

LEMMA MmCalls ==
  ASSUME ModemsInv, plugin = "mm", UNCHANGED ofonoVars,
         \/ \E r \in asked : CreateHandled(r) \/ CallHandled(r)
         \/ \E p \in Path : MmCallArrives(p) \/ MmNetChanges(p)
  PROVE  ModemsInv' /\ StepFits
<1>1. NetFits /\ AskedFit(asked) /\ UNCHANGED toneVars
  BY DEF ModemsInv, ofonoVars, toneVars
<1>2. ASSUME NEW r \in asked, CreateHandled(r)
      PROVE  ModemsInv' /\ StepFits
  <2>1. PICK p \in Outgoing :
          net[p] = "NONE" /\ net' = [net EXCEPT ![p] = "UNKNOWN"] /\ pending' = pending \union Wanted(p)
    BY <1>2 DEF CreateHandled
  <2>2. /\ r.op = "create" /\ modem = "voice" /\ asked' = asked \ {r}
        /\ UNCHANGED <<plugin, modem, origins, objs>>
    BY <1>2 DEF CreateHandled
  <2>3. p \in Path /\ "UNKNOWN" \in NetState \ {"NONE", "GONE", "TERMINATED"}
    BY ModemAssumption DEF NetState
  <2> QED BY <1>1, <2>1, <2>2, <2>3, MmCallArrived
<1>3. ASSUME NEW r \in asked, CallHandled(r)
      PROVE  ModemsInv' /\ StepFits
  <2>1. UNCHANGED <<plugin, modem>>
    BY <1>3 DEF CallHandled
  <2>2. ASSUME NEW s \in {"DIALING", "ACTIVE", "TERMINATED"}, r.op \in {"start", "accept", "hangup"},
               Live(r.path), StateChanged(r.path, s, {r})
        PROVE  ModemsInv' /\ StepFits
    <3>1. r.path \in Path /\ s \in NetState \ {"NONE", "GONE", "UNKNOWN"} /\ \A x \in {r} : x.op # "delete"
      BY <1>1, <2>2 DEF AskedFit, NetState
    <3> QED BY <1>1, <2>1, <2>2, <3>1, MmCallChanges
  <2>3. CASE r.op = "start" /\ net[r.path] = "UNKNOWN" /\ StateChanged(r.path, "DIALING", {r})
    BY <2>2, <2>3 DEF Live, Exists
  <2>4. CASE r.op = "accept" /\ net[r.path] = "RINGING_IN" /\ StateChanged(r.path, "ACTIVE", {r})
    BY <2>2, <2>4 DEF Live, Exists
  <2>5. CASE r.op = "hangup" /\ Live(r.path) /\ StateChanged(r.path, "TERMINATED", {r})
    BY <2>2, <2>5
  <2>6. CASE r.op = "delete" /\ Exists(r.path) /\ CallDeleted(r.path, {r})
    <3>1. r.path \in Path
      BY <1>1, <2>6 DEF AskedFit
    <3> QED BY <1>1, <2>1, <2>6, <3>1, MmCallDeleted
  <2> QED BY <1>3, <2>3, <2>4, <2>5, <2>6 DEF CallHandled
<1>4. ASSUME NEW p \in Path, MmCallArrives(p)
      PROVE  ModemsInv' /\ StepFits
  <2>1. /\ modem = "voice" /\ net[p] = "NONE" /\ net' = [net EXCEPT ![p] = Arriving]
        /\ pending' = pending \union Wanted(p)
        /\ UNCHANGED <<plugin, modem, asked, origins, objs>>
    BY <1>4 DEF MmCallArrives
  <2>2. Arriving \in NetState \ {"NONE", "GONE", "TERMINATED"}
    BY DEF Arriving, NetState
  <2> QED BY <1>1, <2>1, <2>2, MmCallArrived
<1>5. ASSUME NEW p \in Path, MmNetChanges(p)
      PROVE  ModemsInv' /\ StepFits
  <2>1. PICK s \in NetNext[net[p]] : StateChanged(p, s, {})
    BY <1>5 DEF MmNetChanges
  <2>2. UNCHANGED <<plugin, modem>>
    BY <1>5 DEF MmNetChanges
  <2>3. Live(p) /\ s \in NetState \ {"NONE", "GONE", "UNKNOWN"}
    BY <1>1, <2>1 DEF NetFits, NetState, NetNext, Live, Exists
  <2> QED BY <1>1, <2>1, <2>2, <2>3, MmCallChanges
<1> QED BY <1>2, <1>3, <1>4, <1>5

LEMMA MmSteps ==
  ASSUME ModemsInv, plugin = "mm", MmNext, UNCHANGED ofonoVars
  PROVE  ModemsInv' /\ StepFits
<1>1. CASE MmAnswers
  BY <1>1, MmOriginAdded, MmAsking, MmReturns, MmListed, MmCalls DEF MmAnswers
<1>2. CASE MmEvents
  BY <1>2, MmAsking, MmReturns, MmCalls DEF MmEvents
<1> QED BY <1>1, <1>2 DEF MmNext

-----------------------------------------------------------------------------
(* oFono. *)

\* Whether a request of oFono's origins tells of a call does not depend on the
\* others.
LEMMA OfonoTells ==
  ASSUME NEW r \in OfonoRequest, NEW o, NEW p \in Path, o # 0
  PROVE  /\ WillTell(r, o, p) => r.origin = o /\ ((r.kind = "call" /\ r.path = p) \/ r.kind \in {"voice", "calls"})
         /\ r.origin = o /\ ((r.kind = "call" /\ r.path = p) \/ r.kind \in {"voice", "calls"})
              => WillTell(r, o, p) /\ WillTell(r, o, p)'
<1>1. r.kind \notin Path \union {"all"}
  BY ModemAssumption DEF OfonoRequest, Modems
<1> QED BY <1>1 DEF WillTell, Listings

\* Each call is as it was, or is lost, or moves on.
NetAges ==
  \A p \in Path :
    \/ net'[p] = net[p]
    \/ net[p] # "NONE" /\ net'[p] = "GONE"
    \/ Live(p) /\ net'[p] \in NetState \ {"NONE", "GONE", "TERMINATED"}

LEMMA Aged ==
  ASSUME NetAges
  PROVE  /\ \A p \in Path : Exists(p)' => Exists(p)
         /\ \A p \in Path : net[p] = "NONE" <=> net'[p] = "NONE"
         /\ Used' = Used
BY DEF NetAges, Exists, Live, Used

LEMMA OfonoStillTold ==
  ASSUME ModemsInv, plugin = "ofono", plugin' = plugin, NetFits', NetAges,
         Listed' = Listed \/ Listed' = {},
         \A o \in Listed', p \in Path : Keyed(o, p) /\ Exists(p)' => Keyed(o, p)',
         \A o \in Listed', p \in Path, r \in pending :
           r.origin = o /\ WillTell(r, o, p) /\ Exists(p)' =>
             Keyed(o, p)' \/ \E q \in pending' : WillTell(q, o, p)'
  PROVE  NoCallMissed' /\ EndedIsDeleted'
<1>1. EndedIsDeleted'
  BY DEF NetFits, EndedIsDeleted
<1>2. ASSUME NEW o \in Listed', NEW p \in Path, Exists(p)'
      PROVE  Keyed(o, p)' \/ \E r \in pending' : WillTell(r, o, p)'
  <2>1. o \in Listed /\ Exists(p)
    BY <1>2, Aged
  <2>2. Keyed(o, p) \/ \E r \in pending : WillTell(r, o, p)
    BY <2>1 DEF ModemsInv, NoCallMissed
  <2>3. \A r \in pending : WillTell(r, o, p) => r.origin = o
    BY DEF WillTell
  <2> QED BY <1>2, <2>2, <2>3
<1> QED BY <1>1, <1>2 DEF NoCallMissed

\* What the calls of objects ob are for the service does not come back to life.
LEMMA ObjsAge ==
  ASSUME ModemsInv, plugin = "ofono", NetAges
  PROVE  \A i \in DOMAIN objs :
           /\ net'[objs[i].path] # "NONE"
           /\ objs[i].state = "DISCONNECTED" => net'[objs[i].path] \in {"TERMINATED", "GONE"}
<1>1. Fit(origins, objs) /\ ObjsFollow(objs)
  BY DEF ModemsInv
<1>2. \A i \in DOMAIN objs : objs[i].path \in Path
  BY <1>1, Indices
<1> QED BY <1>1, <1>2 DEF ObjsFollow, NetAges, Live, Exists

\* Steps that change neither origins nor call objects.
LEMMA OfonoTalks ==
  ASSUME ModemsInv, plugin = "ofono", UNCHANGED <<plugin, origins, objs, toneVars>>,
         NetFits', NetAges, AskedFit(asked)', pending' \subseteq OfonoRequest,
         \A r \in pending : r.origin # 0 => r \in pending'
  PROVE  ModemsInv' /\ StepFits
<1>1. /\ Fit(origins, objs) /\ ObjsFollow(objs) /\ pending \subseteq OfonoRequest /\ VoiceKnown /\ TonesFit
  BY DEF ModemsInv, PendingFits
<1>2. Fit(origins, objs)' /\ StepFits /\ Listed' = Listed
  BY <1>1 DEF Fit, TablesFit, StepFits, Later, Aging, Listed
<1>3. ObjsFollow(objs)'
  BY ObjsAge DEF ObjsFollow
<1>4. TonesFit'
  BY <1>1, TonesKept
<1>5. 0 \notin Listed
  BY <1>1, Indices
<1>6. PendingFits'
  <2>1. OfonoRequest' = OfonoRequest
    BY <1>2, Aged DEF OfonoRequest, Modems
  <2>2. VoiceKnown'
    BY <1>1, <1>2, <1>5 DEF VoiceKnown, OfOrigin
  <2> QED BY <2>1, <2>2 DEF PendingFits
<1>7. NoCallMissed' /\ EndedIsDeleted'
  <2>1. \A o \in Listed', p \in Path, r \in pending :
          r.origin = o /\ WillTell(r, o, p) => r \in pending' /\ WillTell(r, o, p)'
    BY <1>1, <1>2, <1>5, OfonoTells
  <2>2. \A o \in Listed', p \in Path : Keyed(o, p) => Keyed(o, p)'
    BY DEF Keyed
  <2> QED BY <1>2, <2>1, <2>2, OfonoStillTold
<1> QED BY <1>2, <1>3, <1>4, <1>6, <1>7 DEF ModemsInv

\* Steps after which no origin is on the list.
LEMMA OfonoLeaves ==
  ASSUME ModemsInv, plugin = "ofono", UNCHANGED <<plugin, asked, toneVars>>,
         NetFits', NetAges, NEW pend \in SUBSET (pending \intersect Kept(Unlist(origins))),
         Settle(pend, asked, Unlist(origins), objs)
  PROVE  ModemsInv' /\ StepFits
<1>1. /\ Fit(origins, objs) /\ ObjsFollow(objs) /\ pending \subseteq OfonoRequest /\ TonesFit /\ AskedFit(asked)
  BY DEF ModemsInv, PendingFits
<1>2. /\ Fit(Unlist(origins), objs) /\ DOMAIN Unlist(origins) = DOMAIN origins
      /\ \A o \in DOMAIN origins : ~Unlist(origins)[o].listed
  BY <1>1, Unlisting
<1>3. pending' = pend /\ Listed' = {}
  <2>1. pending' = pend /\ Listed' = {o \in DOMAIN Unlist(origins) : Unlist(origins)[o].listed}
    BY <1>2, Settled
  <2> QED BY <1>2, <2>1
<1>4. \A r \in pend : r.origin = 0
  BY <1>2 DEF Kept
<1>5. StepFits /\ Fit(origins, objs)' /\ ObjsFollow(objs)'
  <2>1. Later(objs, objs) /\ Aging(origins, Unlist(origins))
    BY <1>2 DEF Later, Aging
  <2>2. plugin' # "dummy"
    OBVIOUS
  <2> QED BY <1>2, <2>1, <2>2, ObjsAge, SettledStep
<1>6. PendingFits'
  <2>1. 0 \notin Listed
    BY <1>1, Indices
  <2>2. pend \subseteq {Modems} \union [kind : {"modem"}, origin : {0}, ifaces : {"plain", "voice"}]
    BY <1>1, <1>4, <2>1 DEF OfonoRequest
  <2>3. pend \subseteq OfonoRequest'
    BY <2>2 DEF OfonoRequest, Modems
  <2>4. VoiceKnown'
    BY <1>3 DEF VoiceKnown
  <2> QED BY <1>3, <2>3, <2>4 DEF PendingFits
<1>7. NoCallMissed' /\ EndedIsDeleted' /\ TonesFit' /\ AskedFit(asked)'
  BY <1>1, <1>3, TonesKept DEF NoCallMissed, EndedIsDeleted, AskedFit
<1> QED BY <1>5, <1>6, <1>7 DEF ModemsInv

\* Steps that end a callback without a change to origins or call objects.
LEMMA OfonoReturns ==
  ASSUME ModemsInv, plugin = "ofono", UNCHANGED <<plugin, toneVars>>,
         NetFits', NetAges, NEW pend \in SUBSET pending, NEW ask \in SUBSET asked,
         \A r \in pending : r.origin # 0 => r \in pend,
         Settle(pend, ask, origins, objs)
  PROVE  ModemsInv' /\ StepFits
<1>1. /\ Fit(origins, objs) /\ ObjsFollow(objs) /\ pending \subseteq OfonoRequest
      /\ VoiceKnown /\ TonesFit /\ AskedFit(asked)
  BY DEF ModemsInv, PendingFits
<1>2. /\ pending' = pend /\ asked' = ask /\ Listed' = Listed
      /\ \A o \in Listed : origins'[o].voice = origins[o].voice /\ origins'[o].table = origins[o].table
  BY <1>1, Settled DEF Listed
<1>3. StepFits /\ Fit(origins, objs)' /\ ObjsFollow(objs)'
  <2>1. Later(objs, objs) /\ Aging(origins, origins)
    BY DEF Later, Aging
  <2>2. plugin' # "dummy"
    OBVIOUS
  <2> QED BY <1>1, <2>1, <2>2, ObjsAge, SettledStep
<1>4. 0 \notin Listed
  BY <1>1, Indices
<1>5. PendingFits'
  <2>1. OfonoRequest' = OfonoRequest
    BY <1>2, Aged DEF OfonoRequest, Modems
  <2>2. VoiceKnown'
    BY <1>1, <1>2, <1>4 DEF VoiceKnown, OfOrigin
  <2> QED BY <1>1, <1>2, <2>1, <2>2 DEF PendingFits
<1>6. NoCallMissed' /\ EndedIsDeleted'
  <2>1. \A o \in Listed', p \in Path, r \in pending :
          r.origin = o /\ WillTell(r, o, p) => r \in pending' /\ WillTell(r, o, p)'
    BY <1>1, <1>2, <1>4, OfonoTells
  <2>2. \A o \in Listed', p \in Path : Keyed(o, p) => Keyed(o, p)'
    BY <1>2 DEF Keyed
  <2> QED BY <1>2, <2>1, <2>2, OfonoStillTold
<1>7. TonesFit' /\ AskedFit(asked)'
  BY <1>1, <1>2, TonesKept DEF AskedFit
<1> QED BY <1>3, <1>5, <1>6, <1>7 DEF ModemsInv

\* A new origin is to hear of its calls when its proxy is there.
LEMMA OfonoOriginAdded ==
  ASSUME ModemsInv, plugin = "ofono", UNCHANGED <<plugin, asked, toneVars>>,
         NetFits', NetAges, NEW pend \in SUBSET pending,
         Listed = {}, Len(origins) < MaxOrigins,
         Settle(pend \union {OfOrigin("voice", Len(origins) + 1)}, asked, Append(origins, NewOrigin), objs)
  PROVE  ModemsInv' /\ StepFits
<1> DEFINE os == Append(origins, NewOrigin)
<1>1. /\ Fit(origins, objs) /\ ObjsFollow(objs) /\ pending \subseteq OfonoRequest
      /\ TonesFit /\ AskedFit(asked)
  BY DEF ModemsInv, PendingFits
<1>2. PICK n : n = Len(origins) + 1
  OBVIOUS
<1>3. NewOrigin \in OriginRecord /\ NewOrigin.alive /\ NewOrigin.listed /\ NewOrigin.table = NoTable
  BY DEF NewOrigin, OriginRecord, NoTable
<1>4. /\ Fit(os, objs)
      /\ DOMAIN os = DOMAIN origins \union {n}
      /\ \A o \in DOMAIN origins : os[o] = origins[o]
      /\ os[n] = NewOrigin /\ n \notin DOMAIN origins
  BY <1>1, <1>2, <1>3, Joining
<1>5. n # 0
  BY <1>1, <1>2, Indices
<1> HIDE DEF os
<1>6. /\ pending' = pend \union {OfOrigin("voice", n)} /\ asked' = asked
      /\ DOMAIN origins' = DOMAIN os
      /\ Listed' = {o \in DOMAIN os : os[o].listed}
  BY <1>2, <1>4, Settled DEF os
<1>7. Listed' = {n}
  BY <1>3, <1>4, <1>6 DEF Listed
<1>8. StepFits /\ Fit(origins, objs)' /\ ObjsFollow(objs)'
  <2>1. Later(objs, objs) /\ Aging(origins, os)
    BY <1>4 DEF Later, Aging
  <2>2. plugin' # "dummy"
    OBVIOUS
  <2> QED BY <1>4, <2>1, <2>2, ObjsAge, SettledStep DEF os
<1>9. OfOrigin("voice", n) \in OfonoRequest'
  BY <1>7 DEF OfonoRequest, OfOrigin
<1>10. PendingFits'
  <2>1. pend \subseteq {Modems} \union [kind : {"modem"}, origin : {0}, ifaces : {"plain", "voice"}]
    BY <1>1 DEF OfonoRequest
  <2>2. pend \subseteq OfonoRequest'
    BY <2>1 DEF OfonoRequest, Modems
  <2>3. VoiceKnown'
    BY <1>6, <1>7 DEF VoiceKnown, OfOrigin
  <2> QED BY <1>6, <1>9, <2>2, <2>3 DEF PendingFits
<1>11. NoCallMissed' /\ EndedIsDeleted'
  <2>1. \A p \in Path : WillTell(OfOrigin("voice", n), n, p)'
    BY DEF WillTell, OfOrigin
  <2> QED BY <1>6, <1>7, <2>1 DEF NoCallMissed, EndedIsDeleted, NetFits
<1>12. TonesFit' /\ AskedFit(asked)'
  BY <1>1, TonesKept DEF AskedFit
<1> QED BY <1>8, <1>10, <1>11, <1>12 DEF ModemsInv

LEMMA IfacesChecked ==
  ASSUME ModemsInv, plugin = "ofono", UNCHANGED <<plugin, toneVars>>,
         NetFits', NetAges, NEW pend \in SUBSET pending,
         \A r \in pending : r.origin # 0 => r \in pend,
         NEW ifaces, CheckIfaces(ifaces, pend)
  PROVE  ModemsInv' /\ StepFits
<1>1. CASE ifaces = "voice" /\ Listed = {}
  <2>1. /\ Len(origins) < MaxOrigins
        /\ Settle(pend \union {OfOrigin("voice", Len(origins) + 1)}, asked, Append(origins, NewOrigin), objs)
    BY <1>1 DEF CheckIfaces
  <2>2. asked' = asked
    BY <2>1 DEF Settle
  <2> QED BY <1>1, <2>1, <2>2, OfonoOriginAdded
<1>2. CASE ifaces # "voice" /\ Listed # {}
  <2>1. Settle(pend \intersect Kept(Unlist(origins)), asked, Unlist(origins), objs)
    BY <1>2 DEF CheckIfaces
  <2>2. asked' = asked
    BY <2>1 DEF Settle
  <2>3. pend \intersect Kept(Unlist(origins)) \in SUBSET (pending \intersect Kept(Unlist(origins)))
    OBVIOUS
  <2> QED BY <2>1, <2>2, <2>3, OfonoLeaves
<1>3. CASE ~(ifaces = "voice" /\ Listed = {}) /\ ~(ifaces # "voice" /\ Listed # {})
  <2>1. Settle(pend, asked, origins, objs)
    BY <1>3 DEF CheckIfaces
  <2> QED BY <2>1, OfonoReturns
<1> QED BY <1>1, <1>2, <1>3

\* The provider, and what is asked without anything else.
LEMMA OfonoProvides ==
  ASSUME ModemsInv, plugin = "ofono",
         \/ GetModemsDone \/ OfonoAppears \/ OfonoVanishes \/ ModemDisappears
         \/ \E r \in pending : ModemProxyDone(r)
         \/ \E r \in asked : ORequestRefused(r)
         \/ \E ifaces \in {"plain", "voice"} : ModemAppears(ifaces) \/ IfacesChange(ifaces)
         \/ \E o \in DOMAIN origins : ODial(o)
         \/ \E i \in DOMAIN objs, op \in {"accept", "hangup"} : OAsk(op, i)
  PROVE  ModemsInv' /\ StepFits
<1>1. /\ Fit(origins, objs) /\ NetFits /\ AskedFit(asked) /\ pending \subseteq OfonoRequest
      /\ Modems.origin = 0 /\ Modems \in OfonoRequest
  BY DEF ModemsInv, PendingFits, Modems, OfonoRequest
<1>2. UNCHANGED <<plugin, net, modem>> => NetFits' /\ NetAges
  BY <1>1 DEF NetFits, NetAges, Unused, Exists
<1>3. CallsLost /\ UNCHANGED plugin /\ modem' \in {"none", "plain"} => NetFits' /\ NetAges
  BY <1>1 DEF CallsLost, NetFits, NetAges, NetState, Exists
<1>4. Unused /\ UNCHANGED <<plugin, net>> /\ modem' \in {"none", "plain", "voice"} => NetFits' /\ NetAges
  BY <1>1 DEF NetFits, NetAges, Unused, Exists
<1>5. CASE GetModemsDone
  <2>1. /\ UNCHANGED <<plugin, net, modem, asked, origins, objs, toneVars>>
        /\ pending' \subseteq (pending \ {Modems}) \union {ModemProxy(modem)}
        /\ pending \ {Modems} \subseteq pending'
        /\ modem = "none" => pending' \subseteq pending
    BY <1>5 DEF GetModemsDone, ModemAdded, serviceVars, ofonoVars, toneVars
  <2>2. modem # "none" => ModemProxy(modem) \in OfonoRequest
    BY <1>1 DEF NetFits, ModemProxy, OfonoRequest
  <2>3. AskedFit(asked)'
    BY <1>1, <2>1 DEF AskedFit
  <2> QED BY <1>1, <1>2, <2>1, <2>2, <2>3, OfonoTalks
<1>6. CASE OfonoAppears
  <2>1. /\ UNCHANGED <<plugin, net, modem, asked, origins, objs, toneVars>>
        /\ pending' = pending \union {Modems}
    BY <1>6 DEF OfonoAppears, ofonoVars, toneVars
  <2>2. AskedFit(asked)'
    BY <1>1, <2>1 DEF AskedFit
  <2> QED BY <1>1, <1>2, <2>1, <2>2, OfonoTalks
<1>7. CASE OfonoVanishes
  <2>1. /\ Unused /\ UNCHANGED <<plugin, net, toneVars>> /\ modem' = "none"
        /\ Settle(Kept(Unlist(origins)), asked, Unlist(origins), objs)
    BY <1>7 DEF OfonoVanishes, ofonoVars, toneVars
  <2>2. asked' = asked /\ Kept(Unlist(origins)) \in SUBSET (pending \intersect Kept(Unlist(origins)))
    BY <2>1 DEF Settle, Kept
  <2>3. NetFits' /\ NetAges
    BY <1>4, <2>1
  <2> QED BY <2>1, <2>2, <2>3, OfonoLeaves
<1>8. CASE ModemDisappears
  <2>1. /\ CallsLost /\ UNCHANGED <<plugin, toneVars>> /\ modem' = "none"
        /\ Settle(Kept(Unlist(origins)), asked, Unlist(origins), objs)
    BY <1>8 DEF ModemDisappears, toneVars
  <2>2. asked' = asked /\ Kept(Unlist(origins)) \in SUBSET (pending \intersect Kept(Unlist(origins)))
    BY <2>1 DEF Settle, Kept
  <2>3. NetFits' /\ NetAges
    BY <1>3, <2>1
  <2> QED BY <2>1, <2>2, <2>3, OfonoLeaves
<1>9. ASSUME NEW r \in pending, ModemProxyDone(r)
      PROVE  ModemsInv' /\ StepFits
  <2>1. /\ r.kind = "modem" /\ UNCHANGED <<plugin, net, modem, toneVars>>
        /\ CheckIfaces(r.ifaces, pending \ {r})
    BY <1>9 DEF ModemProxyDone, serviceVars, toneVars
  <2>2. r.origin = 0
    BY <1>1, <2>1 DEF OfonoRequest, Modems
  <2> QED BY <1>2, <2>1, <2>2, IfacesChecked
<1>10. ASSUME NEW r \in asked, ORequestRefused(r)
       PROVE  ModemsInv' /\ StepFits
  <2>1. /\ UNCHANGED <<plugin, net, modem, toneVars>>
        /\ Settle(pending, asked \ {r}, origins, objs)
    BY <1>10 DEF ORequestRefused, RequestFails, serviceVars, ofonoVars, toneVars
  <2> QED BY <1>2, <2>1, OfonoReturns
<1>11. ASSUME NEW ifaces \in {"plain", "voice"}, ModemAppears(ifaces)
       PROVE  ModemsInv' /\ StepFits
  <2>1. /\ Unused /\ UNCHANGED <<plugin, net, asked, origins, objs, toneVars>> /\ modem' = ifaces
        /\ pending \subseteq pending'
        /\ pending' \subseteq pending \union {ModemProxy(ifaces)}
    BY <1>11 DEF ModemAppears, ModemAdded, ofonoVars, toneVars
  <2>2. ModemProxy(ifaces) \in OfonoRequest
    BY DEF ModemProxy, OfonoRequest
  <2>3. AskedFit(asked)' /\ NetFits' /\ NetAges
    BY <1>1, <1>4, <2>1 DEF AskedFit
  <2> QED BY <1>1, <2>1, <2>2, <2>3, OfonoTalks
<1>12. ASSUME NEW ifaces \in {"plain", "voice"}, IfacesChange(ifaces)
       PROVE  ModemsInv' /\ StepFits
  <2>1. /\ UNCHANGED <<plugin, toneVars>> /\ modem' = ifaces
        /\ ifaces = "voice" => Unused /\ UNCHANGED net
        /\ ifaces # "voice" => CallsLost
    BY <1>12 DEF IfacesChange, ofonoVars, toneVars
  <2>2. NetFits' /\ NetAges
    BY <1>3, <1>4, <2>1
  <2>3. CASE known
    <3>1. CheckIfaces(ifaces, pending)
      BY <1>12, <2>3 DEF IfacesChange
    <3> QED BY <2>1, <2>2, <3>1, IfacesChecked
  <2>4. CASE ~known
    <3>1. UNCHANGED <<asked, pending, origins, objs>>
      BY <1>12, <2>4 DEF IfacesChange
    <3>2. AskedFit(asked)'
      BY <1>1, <3>1 DEF AskedFit
    <3> QED BY <1>1, <2>1, <2>2, <3>1, <3>2, OfonoTalks
  <2> QED BY <2>3, <2>4
<1>13. ASSUME NEW o \in DOMAIN origins, ODial(o)
       PROVE  ModemsInv' /\ StepFits
  <2>1. /\ UNCHANGED <<plugin, net, modem, pending, origins, objs, toneVars>>
        /\ asked' = asked \union {Request("create", "none", 0)}
    BY <1>13 DEF ODial, serviceVars, ofonoVars, toneVars
  <2>2. AskedFit(asked)'
    BY <1>1, <2>1 DEF AskedFit, Request
  <2> QED BY <1>1, <1>2, <2>1, <2>2, OfonoTalks
<1>14. ASSUME NEW i \in DOMAIN objs, NEW op, OAsk(op, i)
       PROVE  ModemsInv' /\ StepFits
  <2>1. /\ UNCHANGED <<plugin, net, modem, pending, origins, objs, toneVars>>
        /\ asked' = asked \union {Request(op, objs[i].path, 0)}
    BY <1>14 DEF OAsk, serviceVars, ofonoVars, toneVars
  <2>2. objs[i].path \in Path
    BY <1>1, Indices
  <2>3. AskedFit(asked)'
    BY <1>1, <2>1, <2>2 DEF AskedFit, Request
  <2> QED BY <1>1, <1>2, <2>1, <2>3, OfonoTalks
<1> QED BY <1>5, <1>6, <1>7, <1>8, <1>9, <1>10, <1>11, <1>12, <1>13, <1>14

\* The requests of an oFono origin are of one on the list.
LEMMA OfonoOrigin ==
  ASSUME ModemsInv, plugin = "ofono", NEW r \in pending, r.kind \in {"voice", "calls", "call"}
  PROVE  /\ r.origin \in Listed /\ r.origin \in DOMAIN origins /\ r.origin # 0
         /\ r.kind = "call" => r.path \in Path /\ net[r.path] # "NONE"
                               /\ r.state \in NetState \ {"NONE", "GONE", "TERMINATED"}
<1>1. Fit(origins, objs) /\ pending \subseteq OfonoRequest
  BY DEF ModemsInv, PendingFits
<1>2. r.origin \in Listed
  BY <1>1 DEF OfonoRequest, Modems
<1>3. r.kind = "call" => r.path \in Used /\ r.state \in NetState \ {"NONE", "GONE", "TERMINATED"}
  BY <1>1 DEF OfonoRequest, Modems
<1> QED BY <1>1, <1>2, <1>3, Indices DEF Listed, Used

\* The proxy of the modem's calls is there: the calls are asked for next.
LEMMA OfonoVoiceDone ==
  ASSUME ModemsInv, plugin = "ofono", NEW r \in pending, VoiceProxyDone(r)
  PROVE  ModemsInv' /\ StepFits
<1> DEFINE os == [origins EXCEPT ![r.origin].voice = TRUE]
<1>1. /\ Fit(origins, objs) /\ NetFits /\ ObjsFollow(objs) /\ pending \subseteq OfonoRequest
      /\ VoiceKnown /\ TonesFit /\ AskedFit(asked)
  BY DEF ModemsInv, PendingFits
<1>2. /\ r.kind = "voice" /\ UNCHANGED <<plugin, net, modem, toneVars>>
      /\ Settle((pending \ {r}) \union {OfOrigin("calls", r.origin)}, asked, os, objs)
  BY DEF VoiceProxyDone, serviceVars, ofonoVars, toneVars
<1>3. r.origin \in Listed /\ r.origin \in DOMAIN origins /\ r.origin # 0
  BY <1>2, OfonoOrigin
<1>4. PICK n \in DOMAIN origins : n = r.origin
  BY <1>3
<1>5. /\ DOMAIN os = DOMAIN origins
      /\ \A o \in DOMAIN origins :
           /\ os[o] \in OriginRecord
           /\ os[o].listed = origins[o].listed /\ os[o].alive = origins[o].alive
           /\ os[o].table = origins[o].table
           /\ os[o].voice = (o = n \/ origins[o].voice)
  <2>1. ASSUME NEW o \in DOMAIN origins
        PROVE  /\ os[o] \in OriginRecord
               /\ os[o].listed = origins[o].listed /\ os[o].alive = origins[o].alive
               /\ os[o].table = origins[o].table
               /\ os[o].voice = (o = n \/ origins[o].voice)
    <3>1. origins[o] \in OriginRecord
      BY <1>1, Indices
    <3>2. os[o] = IF o = n THEN [origins[o] EXCEPT !.voice = TRUE] ELSE origins[o]
      BY <1>4
    <3> QED BY <3>1, <3>2 DEF OriginRecord
  <2> QED BY <2>1
<1>6. os \in Seq(OriginRecord) /\ Len(os) = Len(origins)
  <2>1. DOMAIN origins = 1..Len(origins) /\ Len(origins) \in Nat
    BY <1>1, Indices
  <2>2. os = [o \in DOMAIN os |-> os[o]]
    OBVIOUS
  <2> HIDE DEF os
  <2>3. os \in [1..Len(origins) -> OriginRecord]
    BY <1>5, <2>1, <2>2
  <2> QED BY <2>1, <2>3
<1> HIDE DEF os
<1>7. Fit(os, objs)
  <2>1. /\ \A o \in DOMAIN os : os[o].listed => os[o].alive
        /\ \A i \in DOMAIN objs : objs[i].origin \in DOMAIN os
        /\ objs \in Seq(ObjRecord) /\ Len(objs) <= MaxObjs /\ Len(os) <= MaxOrigins
    BY <1>1, <1>5, <1>6 DEF Fit
  <2>2. TablesFit(os, objs)
    BY <1>1, <1>5 DEF Fit, TablesFit
  <2> QED BY <1>6, <2>1, <2>2 DEF Fit
<1>8. /\ pending' = (pending \ {r}) \union {OfOrigin("calls", n)} /\ asked' = asked
      /\ Listed' = Listed
      /\ \A o \in Listed : origins'[o].voice = (o = n \/ origins[o].voice) /\ origins'[o].table = origins[o].table
  <2>1. /\ pending' = (pending \ {r}) \union {OfOrigin("calls", n)} /\ asked' = asked
        /\ Listed' = {o \in DOMAIN os : os[o].listed}
        /\ \A o \in DOMAIN os : /\ origins'[o].voice = os[o].voice
                                /\ os[o].listed => origins'[o].table = os[o].table
    BY <1>2, <1>4, <1>7, Settled
  <2> QED BY <1>5, <2>1 DEF Listed
<1>9. NetFits' /\ NetAges
  BY <1>1, <1>2 DEF NetFits, NetAges, Unused, Exists
<1>10. StepFits /\ Fit(origins, objs)' /\ ObjsFollow(objs)'
  <2>1. Later(objs, objs) /\ Aging(origins, os)
    BY <1>5 DEF Later, Aging
  <2>2. plugin' # "dummy"
    BY <1>2
  <2> QED BY <1>2, <1>7, <1>9, <2>1, <2>2, ObjsAge, SettledStep
<1>11. PendingFits'
  <2>1. OfonoRequest' = OfonoRequest
    BY <1>8, <1>9, Aged DEF OfonoRequest, Modems
  <2>2. OfOrigin("calls", n) \in OfonoRequest
    BY <1>3, <1>4 DEF OfonoRequest, OfOrigin
  <2>3. VoiceKnown'
    <3>1. ASSUME NEW o \in Listed, o # n, OfOrigin("voice", o) \in pending
          PROVE  OfOrigin("voice", o) \in pending'
      BY <1>4, <1>8, <3>1 DEF OfOrigin
    <3> QED BY <1>1, <1>8, <3>1 DEF VoiceKnown
  <2> QED BY <1>1, <1>2, <1>8, <2>1, <2>2, <2>3 DEF PendingFits
<1>12. NoCallMissed' /\ EndedIsDeleted'
  <2>1. ASSUME NEW o \in Listed', NEW p \in Path, NEW q \in pending, q.origin = o, WillTell(q, o, p)
        PROVE  \E x \in pending' : WillTell(x, o, p)'
    <3>1. o # 0
      BY <1>1, <1>8, Indices
    <3>2. CASE q # r
      BY <1>1, <1>8, <2>1, <3>1, <3>2, OfonoTells
    <3>3. CASE q = r
      <4>1. WillTell(OfOrigin("calls", n), n, p)'
        BY DEF WillTell, OfOrigin
      <4> QED BY <1>4, <1>8, <2>1, <3>3, <4>1
    <3> QED BY <3>2, <3>3
  <2>2. \A o \in Listed', p \in Path : Keyed(o, p) => Keyed(o, p)'
    BY <1>8 DEF Keyed
  <2> QED BY <1>2, <1>8, <1>9, <2>1, <2>2, OfonoStillTold
<1>13. TonesFit' /\ AskedFit(asked)'
  BY <1>1, <1>2, <1>8, TonesKept DEF AskedFit
<1> QED BY <1>9, <1>10, <1>11, <1>12, <1>13 DEF ModemsInv

\* The calls there are become known, or their proxies are asked for.
LEMMA OfonoCallsGot ==
  ASSUME ModemsInv, plugin = "ofono", NEW r \in pending, GetCallsDone(r)
  PROVE  ModemsInv' /\ StepFits
<1> DEFINE there == {p \in Path : Exists(p)}
           more  == IF modem = "voice" THEN Proxies(r.origin, there, net) ELSE {}
<1>1. /\ Fit(origins, objs) /\ NetFits /\ ObjsFollow(objs) /\ pending \subseteq OfonoRequest
      /\ VoiceKnown /\ TonesFit /\ AskedFit(asked)
  BY DEF ModemsInv, PendingFits
<1>2. /\ r.kind = "calls" /\ UNCHANGED <<plugin, net, modem, asked, origins, objs, toneVars>>
      /\ pending' = (pending \ {r}) \union more
  BY DEF GetCallsDone, serviceVars, ofonoVars, toneVars
<1>3. r.origin \in Listed /\ r.origin # 0
  BY <1>2, OfonoOrigin
<1>4. Fit(origins, objs)' /\ StepFits /\ Listed' = Listed
  BY <1>1, <1>2 DEF Fit, TablesFit, StepFits, Later, Aging, Listed
<1>5. NetFits' /\ NetAges
  BY <1>1, <1>2 DEF NetFits, NetAges, Unused, Exists
<1>6. ObjsFollow(objs)' /\ TonesFit' /\ AskedFit(asked)'
  BY <1>1, <1>2, TonesKept DEF ObjsFollow, AskedFit
<1>7. more \subseteq OfonoRequest
  <2>1. ASSUME NEW p \in there
        PROVE  CallProxy(r.origin, p, net[p]) \in OfonoRequest
    <3>1. p \in Used /\ net[p] \in NetState \ {"NONE", "GONE", "TERMINATED"}
      BY <1>1, <1>2 DEF NetFits, Exists, Used
    <3> QED BY <1>3, <3>1 DEF CallProxy, OfonoRequest
  <2> QED BY <2>1 DEF Proxies
<1>8. PendingFits'
  <2>1. OfonoRequest' = OfonoRequest
    BY <1>4, <1>5, Aged DEF OfonoRequest, Modems
  <2>2. VoiceKnown'
    <3>1. ASSUME NEW o \in Listed, OfOrigin("voice", o) \in pending
          PROVE  OfOrigin("voice", o) \in pending'
      BY <1>2, <3>1 DEF OfOrigin
    <3> QED BY <1>1, <1>2, <1>4, <3>1 DEF VoiceKnown
  <2> QED BY <1>1, <1>2, <1>7, <2>1, <2>2 DEF PendingFits
<1>9. NoCallMissed' /\ EndedIsDeleted'
  <2>1. ASSUME NEW o \in Listed', NEW p \in Path, NEW q \in pending, q.origin = o, WillTell(q, o, p), Exists(p)'
        PROVE  Keyed(o, p)' \/ \E x \in pending' : WillTell(x, o, p)'
    <3>1. o # 0
      BY <1>1, <1>4, Indices
    <3>2. CASE q # r
      BY <1>1, <1>2, <2>1, <3>1, <3>2, OfonoTells
    <3>3. CASE q = r /\ ~Keyed(o, p)
      <4>1. Exists(p) /\ modem = "voice"
        BY <1>1, <1>5, <2>1, Aged DEF NetFits
      <4>2. PICK x : x = CallProxy(o, p, net[p])
        OBVIOUS
      <4>3. x \in pending'
        BY <1>2, <2>1, <3>3, <4>1, <4>2 DEF Proxies
      <4>4. WillTell(x, o, p)'
        BY <4>2 DEF WillTell, CallProxy
      <4> QED BY <4>3, <4>4
    <3>4. Keyed(o, p)' = Keyed(o, p)
      BY <1>2 DEF Keyed
    <3> QED BY <3>2, <3>3, <3>4
  <2>2. \A o \in Listed', p \in Path : Keyed(o, p) => Keyed(o, p)'
    BY <1>2 DEF Keyed
  <2> QED BY <1>2, <1>4, <1>5, <2>1, <2>2, OfonoStillTold
<1> QED BY <1>4, <1>5, <1>6, <1>8, <1>9 DEF ModemsInv

\* What origins and call objects are when a call of path p at origin n, in state
\* s, has joined them.
Placed(os, ob, n, p, s) ==
  /\ Fit(os, ob)
  /\ DOMAIN os = DOMAIN origins
  /\ \A o \in DOMAIN origins :
       /\ os[o].listed = origins[o].listed /\ os[o].voice = origins[o].voice
       /\ \A q \in Path : origins[o].table[q] # 0 \/ (o = n /\ q = p) => os[o].table[q] # 0
  /\ DOMAIN objs \subseteq DOMAIN ob
  /\ \A i \in DOMAIN objs : ob[i] = objs[i]
  /\ \A i \in DOMAIN ob : i \notin DOMAIN objs => ob[i] = NewObj(n, p, s)

\* The object of a call has a place in the table of its origin.
LEMMA Placing ==
  ASSUME Fit(origins, objs), Len(objs) < MaxObjs,
         NEW n \in DOMAIN origins, NEW p \in Path, NEW s \in Abstract!CallState
  PROVE  Placed([origins EXCEPT ![n].table[p] = Len(objs) + 1],
                Append(objs, NewObj(n, p, s)), n, p, s)
<1> DEFINE k  == Len(objs) + 1
           os == [origins EXCEPT ![n].table[p] = k]
           ob == Append(objs, NewObj(n, p, s))
<1>1. /\ objs \in Seq(ObjRecord) /\ DOMAIN objs = 1..Len(objs) /\ Len(objs) \in Nat
      /\ Len(objs) <= MaxObjs
      /\ origins \in Seq(OriginRecord) /\ Len(origins) <= MaxOrigins
      /\ DOMAIN origins = 1..Len(origins) /\ Len(origins) \in Nat
      /\ \A o \in DOMAIN origins : origins[o].listed => origins[o].alive
      /\ \A i \in DOMAIN objs : objs[i].origin \in DOMAIN origins
      /\ TablesFit(origins, objs)
  BY DEF Fit
<1>2. NewObj(n, p, s) \in ObjRecord
  BY <1>1 DEF NewObj, ObjRecord
<1>3. /\ ob \in Seq(ObjRecord) /\ Len(ob) = k /\ DOMAIN ob = DOMAIN objs \union {k}
      /\ k \notin DOMAIN objs /\ k \in Nat /\ k # 0 /\ k <= MaxObjs
      /\ \A i \in DOMAIN objs : ob[i] = objs[i]
      /\ ob[k] = NewObj(n, p, s)
  BY <1>1, <1>2, ModemAssumption
<1> HIDE DEF k
<1>4. ASSUME NEW o \in DOMAIN origins
      PROVE  /\ os[o] \in OriginRecord
             /\ os[o].listed = origins[o].listed /\ os[o].voice = origins[o].voice
             /\ os[o].alive = origins[o].alive
             /\ \A q \in Path : os[o].table[q] = IF o = n /\ q = p THEN k ELSE origins[o].table[q]
  <2>1. origins[o] \in OriginRecord
    BY <1>1
  <2>2. os[o] = IF o = n THEN [origins[o] EXCEPT !.table[p] = k] ELSE origins[o]
    OBVIOUS
  <2> QED BY <1>3, <2>1, <2>2 DEF OriginRecord
<1>5. DOMAIN os = DOMAIN origins
  OBVIOUS
<1>6. os \in Seq(OriginRecord) /\ Len(os) = Len(origins)
  <2>1. os = [o \in DOMAIN os |-> os[o]]
    OBVIOUS
  <2> HIDE DEF os
  <2>2. os \in [1..Len(origins) -> OriginRecord]
    BY <1>1, <1>4, <1>5, <2>1
  <2> QED BY <1>1, <2>2
<1> HIDE DEF os, ob
<1>7. TablesFit(os, ob)
  <2>1. ASSUME NEW o \in DOMAIN origins, NEW q \in Path, os[o].table[q] # 0
        PROVE  os[o].table[q] \in {i \in DOMAIN ob : ob[i].path = q /\ ob[i].origin = o /\ ~ob[i].dropped}
    <3>1. CASE o = n /\ q = p
      BY <1>3, <1>4, <3>1 DEF NewObj
    <3>2. CASE ~(o = n /\ q = p)
      <4>1. PICK i \in DOMAIN objs :
              i = os[o].table[q] /\ objs[i].path = q /\ objs[i].origin = o /\ ~objs[i].dropped
        BY <1>1, <1>4, <2>1, <3>2 DEF TablesFit
      <4> QED BY <1>3, <4>1
    <3> QED BY <3>1, <3>2
  <2> QED BY <1>5, <2>1 DEF TablesFit
<1>8. \A i \in DOMAIN ob : ob[i].origin \in DOMAIN os
  BY <1>1, <1>3, <1>5 DEF NewObj
<1>9. Fit(os, ob)
  BY <1>1, <1>3, <1>4, <1>5, <1>6, <1>7, <1>8 DEF Fit
<1>10. Placed(os, ob, n, p, s)
  BY <1>3, <1>4, <1>5, <1>9 DEF Placed
<1> QED BY <1>10 DEF os, ob, k

LEMMA OfonoCallDone ==
  ASSUME ModemsInv, plugin = "ofono", NEW r \in pending, CallProxyDone(r)
  PROVE  ModemsInv' /\ StepFits
<1>1. /\ Fit(origins, objs) /\ NetFits /\ ObjsFollow(objs) /\ pending \subseteq OfonoRequest
      /\ VoiceKnown /\ TonesFit /\ AskedFit(asked)
  BY DEF ModemsInv, PendingFits
<1>2. /\ r.kind = "call" /\ Len(objs) < MaxObjs
      /\ UNCHANGED <<plugin, net, modem, toneVars>>
  BY DEF CallProxyDone, serviceVars, ofonoVars, toneVars
<1>3. /\ r.origin \in Listed /\ r.origin \in DOMAIN origins /\ r.origin # 0
      /\ r.path \in Path /\ net[r.path] # "NONE"
      /\ r.state \in NetState \ {"NONE", "GONE", "TERMINATED"}
  BY <1>2, OfonoOrigin
<1>4. PICK n \in DOMAIN origins, p \in Path : n = r.origin /\ p = r.path
  BY <1>3
<1>5. PICK s \in Abstract!CallState \ {"DISCONNECTED"} : s = StateOf(r.path, r.state)
  <2>1. StateOf(r.path, r.state) \in Abstract!CallState \ {"DISCONNECTED"}
    BY <1>3 DEF StateOf, CallStateOf, NetState, Abstract!CallState
  <2> QED BY <2>1
<1> DEFINE os == [origins EXCEPT ![n].table[p] = Len(objs) + 1]
           ob == Append(objs, NewObj(n, p, s))
<1>6. Settle(pending \ {r}, asked, os, ob)
  BY <1>4, <1>5 DEF CallProxyDone
<1>7. /\ Fit(os, ob)
      /\ DOMAIN os = DOMAIN origins
      /\ \A o \in DOMAIN origins :
           /\ os[o].listed = origins[o].listed /\ os[o].voice = origins[o].voice
           /\ \A q \in Path : origins[o].table[q] # 0 \/ (o = n /\ q = p) => os[o].table[q] # 0
      /\ DOMAIN objs \subseteq DOMAIN ob
      /\ \A i \in DOMAIN objs : ob[i] = objs[i]
      /\ \A i \in DOMAIN ob : i \notin DOMAIN objs => ob[i] = NewObj(n, p, s)
  <2>1. Placed(os, ob, n, p, s)
    BY <1>1, <1>2, Placing
  <2> HIDE DEF os, ob
  <2> QED BY <2>1 DEF Placed
<1> HIDE DEF os, ob
<1>8. /\ pending' = pending \ {r} /\ asked' = asked
      /\ Listed' = Listed
      /\ \A o \in Listed : origins'[o].voice = origins[o].voice /\ origins'[o].table = os[o].table
  <2>1. /\ pending' = pending \ {r} /\ asked' = asked
        /\ Listed' = {o \in DOMAIN os : os[o].listed}
        /\ \A o \in DOMAIN os : /\ origins'[o].voice = os[o].voice
                                /\ os[o].listed => origins'[o].table = os[o].table
    BY <1>6, <1>7, Settled
  <2> QED BY <1>7, <2>1 DEF Listed
<1>9. NetFits' /\ NetAges
  BY <1>1, <1>2 DEF NetFits, NetAges, Unused, Exists
<1>10. StepFits /\ Fit(origins, objs)' /\ ObjsFollow(objs)'
  <2>1. Later(objs, ob) /\ Aging(origins, os)
    BY <1>7 DEF Later, Aging
  <2>2. plugin' # "dummy"
    BY <1>2
  <2>3. \A i \in DOMAIN ob : /\ net'[ob[i].path] # "NONE"
                             /\ ob[i].state = "DISCONNECTED" => net'[ob[i].path] \in {"TERMINATED", "GONE"}
    BY <1>2, <1>3, <1>4, <1>5, <1>7, <1>9, ObjsAge DEF NewObj
  <2> QED BY <1>6, <1>7, <2>1, <2>2, <2>3, SettledStep
<1>11. PendingFits'
  <2>1. OfonoRequest' = OfonoRequest
    BY <1>8, <1>9, Aged DEF OfonoRequest, Modems
  <2>2. \A o \in Listed : OfOrigin("voice", o) \in pending => OfOrigin("voice", o) \in pending'
    BY <1>2, <1>8 DEF OfOrigin
  <2> QED BY <1>1, <1>2, <1>8, <2>1, <2>2 DEF PendingFits, VoiceKnown
<1>12. NoCallMissed' /\ EndedIsDeleted'
  <2>1. \A o \in Listed', q \in Path : Keyed(o, q) \/ (o = n /\ q = p) => Keyed(o, q)'
    BY <1>7, <1>8 DEF Keyed, Listed
  <2>2. ASSUME NEW o \in Listed', NEW q \in Path, NEW x \in pending, x.origin = o, WillTell(x, o, q)
        PROVE  Keyed(o, q)' \/ \E y \in pending' : WillTell(y, o, q)'
    <3>1. o # 0
      BY <1>1, <1>8, Indices
    <3>2. CASE x # r
      BY <1>1, <1>8, <2>2, <3>1, <3>2, OfonoTells
    <3>3. CASE x = r
      <4>1. o = n /\ q = p
        BY <1>1, <1>2, <1>4, <2>2, <3>1, <3>3, OfonoTells
      <4> QED BY <2>1, <4>1
    <3> QED BY <3>2, <3>3
  <2> QED BY <1>2, <1>8, <1>9, <2>1, <2>2, OfonoStillTold
<1>13. TonesFit' /\ AskedFit(asked)'
  BY <1>1, <1>2, <1>8, TonesKept DEF AskedFit
<1> QED BY <1>9, <1>10, <1>11, <1>12, <1>13 DEF ModemsInv

\* oFono says how a call goes on, to all that hear; of its end in the same breath
\* as of its removal.
LEMMA OfonoCallChanges ==
  ASSUME ModemsInv, plugin = "ofono", UNCHANGED <<plugin, modem, toneVars>>,
         NEW p \in Path, Live(p), NEW s \in NetState \ {"NONE", "GONE"},
         NEW handled, OCallChanges(p, s, handled)
  PROVE  ModemsInv' /\ StepFits
<1>1. /\ Fit(origins, objs) /\ NetFits /\ ObjsFollow(objs) /\ pending \subseteq OfonoRequest
      /\ VoiceKnown /\ TonesFit /\ AskedFit(asked)
  BY DEF ModemsInv, PendingFits
<1>2. PICK t \in NetState \ {"NONE", "TERMINATED"} :
        /\ net' = [net EXCEPT ![p] = t]
        /\ t = IF s = "TERMINATED" THEN "GONE" ELSE s
  <2>1. CASE s = "TERMINATED"
    BY <2>1 DEF OCallChanges, NetState
  <2>2. CASE s # "TERMINATED"
    BY <2>2 DEF OCallChanges
  <2> QED BY <2>1, <2>2
<1>3. NetFits' /\ NetAges
  <2>1. /\ net' \in [Path -> NetState]
        /\ \A q \in Path : net'[q] = IF q = p THEN t ELSE net[q]
    BY <1>1, <1>2 DEF NetFits
  <2>2. modem = "voice"
    BY <1>1 DEF NetFits, Live
  <2>3. NetFits'
    BY <1>1, <2>1, <2>2 DEF NetFits
  <2>4. NetAges
    BY <1>1, <1>2, <2>1 DEF NetAges, Live, Exists
  <2> QED BY <2>3, <2>4
<1>4. \A i \in DOMAIN objs : objs[i].path = p => objs[i].state # "DISCONNECTED"
  BY <1>1 DEF ObjsFollow, Live, Exists
<1>5. \A o \in DOMAIN origins, q \in Path :
        Keyed(o, q) <=> origins[o].table[q] # 0
  BY DEF Keyed
<1>6. ASSUME NEW os, NEW ob, Fit(os, ob), Settle(pending, asked \ handled, os, ob),
             DOMAIN os = DOMAIN origins,
             \A o \in DOMAIN origins :
               /\ os[o].listed = origins[o].listed /\ os[o].voice = origins[o].voice
               /\ \A q \in Path : q # p \/ t # "GONE" => os[o].table[q] = origins[o].table[q],
             DOMAIN ob = DOMAIN objs,
             \A i \in DOMAIN objs :
               /\ ob[i].origin = objs[i].origin /\ ob[i].path = objs[i].path
               /\ objs[i].dropped => ob[i].dropped
               /\ \/ ob[i].state = objs[i].state
                  \/ /\ objs[i].path = p
                     /\ ob[i].state \in Abstract!CallState \ {"UNKNOWN"}
                     /\ ob[i].state = "DISCONNECTED" => t = "GONE"
      PROVE  ModemsInv' /\ StepFits
  <2>1. /\ pending' = pending /\ asked' = asked \ handled
        /\ Listed' = Listed
        /\ \A o \in Listed : origins'[o].voice = origins[o].voice /\ origins'[o].table = os[o].table
    <3>1. /\ pending' = pending /\ asked' = asked \ handled
          /\ Listed' = {o \in DOMAIN os : os[o].listed}
          /\ \A o \in DOMAIN os : /\ origins'[o].voice = os[o].voice
                                  /\ os[o].listed => origins'[o].table = os[o].table
      BY <1>6, Settled
    <3> QED BY <1>6, <3>1 DEF Listed
  <2>2. StepFits /\ Fit(origins, objs)' /\ ObjsFollow(objs)'
    <3>1. Later(objs, ob)
      <4>1. ASSUME NEW i \in DOMAIN objs
            PROVE  ob[i].state = objs[i].state \/ ob[i].state \in Abstract!Successors(objs[i].state)
        BY <1>4, <1>6 DEF Abstract!Successors
      <4> QED BY <1>6, <4>1 DEF Later
    <3>2. Aging(origins, os)
      BY <1>6 DEF Aging
    <3>3. plugin' # "dummy"
      OBVIOUS
    <3>4. ASSUME NEW i \in DOMAIN ob
          PROVE  /\ net'[ob[i].path] # "NONE"
                 /\ ob[i].state = "DISCONNECTED" => net'[ob[i].path] \in {"TERMINATED", "GONE"}
      <4>1. /\ i \in DOMAIN objs /\ ob[i].path = objs[i].path
            /\ net'[objs[i].path] # "NONE"
            /\ objs[i].state = "DISCONNECTED" => net'[objs[i].path] \in {"TERMINATED", "GONE"}
        BY <1>3, <1>6, ObjsAge
      <4>2. net'[p] = t
        BY <1>1, <1>2 DEF NetFits
      <4> QED BY <1>6, <4>1, <4>2
    <3> QED BY <1>6, <3>1, <3>2, <3>3, <3>4, SettledStep
  <2>3. PendingFits'
    <3>1. OfonoRequest' = OfonoRequest
      BY <1>3, <2>1, Aged DEF OfonoRequest, Modems
    <3>2. VoiceKnown'
      BY <1>1, <2>1 DEF VoiceKnown
    <3> QED BY <1>1, <2>1, <3>1, <3>2 DEF PendingFits
  <2>4. NoCallMissed' /\ EndedIsDeleted'
    <3>1. ASSUME NEW o \in Listed', NEW q \in Path, Keyed(o, q), Exists(q)'
          PROVE  Keyed(o, q)'
      <4>1. q # p \/ t # "GONE"
        BY <1>1, <1>2, <3>1 DEF Exists, NetFits
      <4>2. o \in Listed /\ o \in DOMAIN origins
        BY <2>1 DEF Listed
      <4>3. origins'[o].table[q] = origins[o].table[q]
        BY <1>6, <2>1, <4>1, <4>2
      <4> QED BY <3>1, <4>3 DEF Keyed
    <3>2. \A o \in Listed', q \in Path, r \in pending :
            r.origin = o /\ WillTell(r, o, q) => r \in pending' /\ WillTell(r, o, q)'
      <4>1. 0 \notin Listed
        BY <1>1, Indices
      <4> QED BY <1>1, <2>1, <4>1, OfonoTells
    <3> QED BY <1>3, <2>1, <3>1, <3>2, OfonoStillTold
  <2>5. TonesFit' /\ AskedFit(asked)'
    BY <1>1, <2>1, TonesKept DEF AskedFit
  <2> QED BY <1>3, <2>2, <2>3, <2>4, <2>5 DEF ModemsInv
<1>7. CASE s = "TERMINATED"
  <2> DEFINE ob == FollowNet(objs, p, "DISCONNECTED")
  <2>1. /\ Fit(origins, ob) /\ DOMAIN ob = DOMAIN objs
        /\ \A i \in DOMAIN objs :
             /\ ob[i].origin = objs[i].origin /\ ob[i].path = objs[i].path
             /\ ob[i].dropped = objs[i].dropped
             /\ ob[i].state = IF objs[i].path = p THEN "DISCONNECTED" ELSE objs[i].state
    <3>1. "DISCONNECTED" \in Abstract!CallState
      BY DEF Abstract!CallState
    <3> QED BY <1>1, <3>1, Following
  <2> HIDE DEF ob
  <2>2. Hearing \in SUBSET DOMAIN origins
    BY DEF Hearing, Listed
  <2> DEFINE os  == Unkey(origins, Hearing, p)
             cut == DropCall(ob, origins, Hearing, p)
  <2>3. /\ Fit(os, cut)
        /\ DOMAIN os = DOMAIN origins
        /\ \A o \in DOMAIN origins :
             /\ os[o].listed = origins[o].listed /\ os[o].voice = origins[o].voice
             /\ \A q \in Path : q # p => os[o].table[q] = origins[o].table[q]
        /\ DOMAIN cut = DOMAIN ob
        /\ \A i \in DOMAIN ob :
             /\ cut[i].origin = ob[i].origin /\ cut[i].path = ob[i].path
             /\ cut[i].state = ob[i].state
             /\ ob[i].dropped => cut[i].dropped
    BY <2>1, <2>2, Unkeying
  <2>4. Settle(pending, asked \ handled, os, cut)
    BY <1>7 DEF OCallChanges, ob
  <2>5. t = "GONE" /\ "DISCONNECTED" \in Abstract!CallState \ {"UNKNOWN"}
    BY <1>2, <1>7 DEF Abstract!CallState
  <2> HIDE DEF os, cut
  <2> QED BY <1>6, <2>1, <2>3, <2>4, <2>5
<1>8. CASE s # "TERMINATED" /\ Parses(s)
  <2> DEFINE st == StateOf(p, s)
             ob == FollowNet(objs, p, st)
  <2>1. st \in Abstract!CallState \ {"UNKNOWN", "DISCONNECTED"}
    BY <1>8 DEF StateOf, Parses, CallStateOf, NetState, Abstract!CallState
  <2>2. Settle(pending, asked \ handled, origins, ob)
    BY <1>8 DEF OCallChanges
  <2> HIDE DEF st
  <2>3. /\ Fit(origins, ob) /\ DOMAIN ob = DOMAIN objs
        /\ \A i \in DOMAIN objs :
             /\ ob[i].origin = objs[i].origin /\ ob[i].path = objs[i].path
             /\ ob[i].dropped = objs[i].dropped
             /\ ob[i].state = IF objs[i].path = p THEN st ELSE objs[i].state
    BY <1>1, <2>1, Following
  <2> HIDE DEF ob
  <2> QED BY <1>6, <2>1, <2>2, <2>3
<1>9. CASE s # "TERMINATED" /\ ~Parses(s)
  <2>1. Settle(pending, asked \ handled, origins, objs)
    BY <1>9 DEF OCallChanges
  <2> QED BY <1>1, <1>6, <2>1
<1> QED BY <1>7, <1>8, <1>9

\* A call that arrives is told to every origin that hears; the others will ask.
LEMMA OfonoCallArrives ==
  ASSUME ModemsInv, plugin = "ofono",
         NEW p \in Path, NEW s \in NetState \ {"NONE", "GONE", "TERMINATED"},
         NEW handled, OCallArrives(p, s, handled)
  PROVE  ModemsInv' /\ StepFits
<1> DEFINE told == UNION {Proxies(o, {p}, net') : o \in Hearing}
<1>1. /\ Fit(origins, objs) /\ NetFits /\ ObjsFollow(objs) /\ pending \subseteq OfonoRequest
      /\ VoiceKnown /\ TonesFit /\ AskedFit(asked) /\ NoCallMissed
  BY DEF ModemsInv, PendingFits
<1>2. /\ modem = "voice" /\ net[p] = "NONE" /\ net' = [net EXCEPT ![p] = s]
      /\ pending' = pending \union told /\ asked' = asked \ handled
      /\ UNCHANGED <<plugin, modem, origins, objs, toneVars>>
  BY DEF OCallArrives, ofonoVars, toneVars
<1>3. net' \in [Path -> NetState] /\ \A q \in Path : net'[q] = IF q = p THEN s ELSE net[q]
  BY <1>1, <1>2 DEF NetFits
<1>4. NetFits'
  BY <1>1, <1>2, <1>3 DEF NetFits
<1>5. /\ Fit(origins, objs)' /\ StepFits /\ Listed' = Listed
      /\ \A o \in Listed, q \in Path : Keyed(o, q)' = Keyed(o, q)
  BY <1>1, <1>2 DEF Fit, TablesFit, StepFits, Later, Aging, Listed, Keyed
<1>6. Used \subseteq Used' /\ p \in Used'
  BY <1>3 DEF Used
<1>7. \A i \in DOMAIN objs : objs[i].path # p /\ objs[i].path \in Path
  BY <1>1, <1>2, Indices DEF ObjsFollow
<1>8. ObjsFollow(objs)'
  BY <1>1, <1>2, <1>3, <1>7 DEF ObjsFollow
<1>9. TonesFit' /\ AskedFit(asked)'
  BY <1>1, <1>2, TonesKept DEF AskedFit
<1>10. \A o \in Hearing : o \in Listed /\ o # 0 /\ origins[o].voice
  BY <1>1, Indices DEF Hearing
<1>11. \A o \in Hearing : CallProxy(o, p, s) \in OfonoRequest'
  BY <1>5, <1>6, <1>10 DEF CallProxy, OfonoRequest
<1>12. told \subseteq OfonoRequest'
  <2>1. ASSUME NEW x \in told
        PROVE  x \in OfonoRequest'
    <3>1. PICK o \in Hearing : x = CallProxy(o, p, net'[p])
      BY <2>1 DEF Proxies
    <3> QED BY <1>3, <1>11, <3>1
  <2> QED BY <2>1
<1>13. pending \subseteq OfonoRequest'
  <2>1. OfonoRequest \subseteq OfonoRequest'
    <3>1. ASSUME NEW r \in OfonoRequest
          PROVE  r \in OfonoRequest'
      BY <1>5, <1>6 DEF OfonoRequest, Modems
    <3> QED BY <3>1
  <2> QED BY <1>1, <2>1
<1>14. PendingFits'
  <2>1. VoiceKnown'
    BY <1>1, <1>2, <1>5 DEF VoiceKnown
  <2> QED BY <1>2, <1>12, <1>13, <2>1 DEF PendingFits
<1>15. NoCallMissed'
  <2>1. ASSUME NEW o \in Listed', NEW q \in Path, Exists(q)'
        PROVE  Keyed(o, q)' \/ \E r \in pending' : WillTell(r, o, q)'
    <3>1. o \in Listed /\ o # 0 /\ o \in DOMAIN origins
      BY <1>1, <1>5, Indices DEF Listed
    <3>2. CASE q # p
      <4>1. Exists(q)
        BY <1>3, <2>1, <3>2 DEF Exists
      <4>2. Keyed(o, q) \/ \E r \in pending : WillTell(r, o, q)
        BY <1>1, <3>1, <4>1 DEF NoCallMissed
      <4>3. \A r \in pending : WillTell(r, o, q) => r \in pending' /\ WillTell(r, o, q)'
        BY <1>1, <1>2, <3>1, OfonoTells
      <4> QED BY <1>5, <3>1, <4>2, <4>3
    <3>3. CASE q = p /\ ~origins[o].voice
      <4>1. PICK r \in pending : r = OfOrigin("voice", o)
        BY <1>1, <3>1, <3>3 DEF VoiceKnown
      <4>2. r \in pending' /\ WillTell(r, o, q)'
        BY <1>2, <4>1 DEF WillTell, OfOrigin
      <4> QED BY <4>2
    <3>4. CASE q = p /\ origins[o].voice /\ ~Keyed(o, p)
      <4>1. o \in Hearing
        BY <3>1, <3>4 DEF Hearing
      <4>2. PICK x : x = CallProxy(o, p, s)
        OBVIOUS
      <4>3. x \in Proxies(o, {p}, net')
        BY <1>3, <3>4, <4>2 DEF Proxies
      <4>4. x \in pending'
        BY <1>2, <4>1, <4>3
      <4>5. WillTell(x, o, q)'
        BY <3>4, <4>2 DEF WillTell, CallProxy
      <4> QED BY <4>4, <4>5
    <3> QED BY <1>5, <3>1, <3>2, <3>3, <3>4
  <2> QED BY <2>1 DEF NoCallMissed
<1>16. EndedIsDeleted'
  BY <1>2, <1>4 DEF NetFits, EndedIsDeleted
<1> QED BY <1>4, <1>5, <1>8, <1>9, <1>14, <1>15, <1>16 DEF ModemsInv

LEMMA OfonoCalls ==
  ASSUME ModemsInv, plugin = "ofono",
         \/ \E r \in asked : ORequestHandled(r)
         \/ \E p \in Path : OCallIncoming(p) \/ ONetChanges(p)
  PROVE  ModemsInv' /\ StepFits
<1>1. NetFits /\ AskedFit(asked)
  BY DEF ModemsInv
<1>2. ASSUME NEW p \in Path, OCallIncoming(p)
      PROVE  ModemsInv' /\ StepFits
  <2>1. Arriving \in NetState \ {"NONE", "GONE", "TERMINATED"}
    BY DEF Arriving, NetState
  <2>2. OCallArrives(p, Arriving, {})
    BY <1>2 DEF OCallIncoming
  <2> QED BY <2>1, <2>2, OfonoCallArrives
<1>3. ASSUME NEW p \in Path, ONetChanges(p)
      PROVE  ModemsInv' /\ StepFits
  <2>1. PICK s \in NetNext[net[p]] \ Unseen :
          OCallChanges(p, s, {}) /\ UNCHANGED <<plugin, svcUp, modem, ofonoVars>>
    BY <1>3 DEF ONetChanges
  <2>2. Live(p) /\ s \in NetState \ {"NONE", "GONE"}
    BY <1>1, <2>1 DEF NetFits, NetState, NetNext, Live, Exists
  <2>3. UNCHANGED <<plugin, modem, toneVars>>
    BY <2>1 DEF ofonoVars, toneVars
  <2> QED BY <2>1, <2>2, <2>3, OfonoCallChanges
<1>4. ASSUME NEW r \in asked, ORequestHandled(r)
      PROVE  ModemsInv' /\ StepFits
  <2>1. CASE r.op = "create" /\ \E p \in Outgoing : OCallArrives(p, "DIALING", {r})
    <3>1. PICK p \in Outgoing : OCallArrives(p, "DIALING", {r})
      BY <2>1
    <3>2. p \in Path /\ "DIALING" \in NetState \ {"NONE", "GONE", "TERMINATED"}
      BY ModemAssumption DEF NetState
    <3> QED BY <3>1, <3>2, OfonoCallArrives
  <2>2. ASSUME NEW s \in {"ACTIVE", "TERMINATED"}, r.op # "create", Live(r.path),
               OCallChanges(r.path, s, {r}), UNCHANGED <<plugin, svcUp, modem, ofonoVars>>
        PROVE  ModemsInv' /\ StepFits
    <3>1. r.path \in Path /\ s \in NetState \ {"NONE", "GONE"}
      BY <1>1, <2>2 DEF AskedFit, NetState
    <3>2. UNCHANGED <<plugin, modem, toneVars>>
      BY <2>2 DEF ofonoVars, toneVars
    <3> QED BY <2>2, <3>1, <3>2, OfonoCallChanges
  <2>3. net[r.path] = "RINGING_IN" => Live(r.path)
    BY DEF Live, Exists
  <2> QED BY <1>4, <2>1, <2>2, <2>3 DEF ORequestHandled
<1> QED BY <1>2, <1>3, <1>4

\* The keys pressed are in flight or queued, and are sent in that order.
LEMMA TonesGoOn ==
  ASSUME TonesFit, (\E i \in DOMAIN objs : Tone(i)) \/ TonesSent
  PROVE  TonesFit'
<1>1. /\ sent \in Seq(Nat) /\ flight \in Seq(Nat) /\ queue \in Seq(Nat) /\ pressed \in Nat
      /\ sent \o flight \o queue = [i \in 1..pressed |-> i]
      /\ flight = <<>> => queue = <<>>
  BY DEF TonesFit, TonesInOrder
<1>2. ASSUME NEW s \in Seq(Nat), NEW t \in Seq(Nat), NEW u \in Seq(Nat)
      PROVE  (s \o t) \o u = s \o (t \o u)
  OBVIOUS
<1>3. ASSUME NEW s \in Seq(Nat), s = [i \in 1..pressed |-> i]
      PROVE  Append(s, pressed + 1) = [i \in 1..(pressed + 1) |-> i]
  <2>1. Len(s) = pressed
    BY <1>1, <1>3
  <2>2. Append(s, pressed + 1) = [i \in 1..(pressed + 1) |-> IF i \in 1..pressed THEN s[i] ELSE pressed + 1]
    BY <1>1, <2>1
  <2> QED BY <1>1, <1>3, <2>2
<1>4. CASE TonesSent
  <2>1. /\ sent' = sent \o flight /\ flight' = queue /\ queue' = <<>> /\ pressed' = pressed
    BY <1>4 DEF TonesSent
  <2>2. sent' \o flight' \o queue' = sent \o flight \o queue
    <3>1. sent \o flight \in Seq(Nat) /\ (sent \o flight) \o queue \in Seq(Nat)
      BY <1>1
    <3> QED BY <1>1, <2>1, <3>1
  <2> QED BY <1>1, <2>1, <2>2 DEF TonesFit, TonesInOrder
<1>5. ASSUME NEW i \in DOMAIN objs, Tone(i)
      PROVE  TonesFit'
  <2>1. pressed' = pressed + 1 /\ sent' = sent
    BY <1>5 DEF Tone
  <2>2. Append(sent \o flight \o queue, pressed + 1) = [k \in 1..(pressed + 1) |-> k]
    BY <1>1, <1>3
  <2>3. CASE flight # <<>>
    <3>1. queue' = Append(queue, pressed + 1) /\ flight' = flight
      BY <1>5, <2>1, <2>3 DEF Tone
    <3>2. PICK s \in Seq(Nat) : s = sent \o flight
      <4>1. sent \o flight \in Seq(Nat)
        BY <1>1
      <4> QED BY <4>1
    <3>3. s \o Append(queue, pressed + 1) = Append(s \o queue, pressed + 1)
      <4>1. ASSUME NEW t \in Seq(Nat)
            PROVE  Append(t, pressed + 1) = t \o <<pressed + 1>>
        BY <1>1, <4>1
      <4>2. <<pressed + 1>> \in Seq(Nat) /\ s \o queue \in Seq(Nat)
        BY <1>1
      <4>3. /\ Append(queue, pressed + 1) = queue \o <<pressed + 1>>
            /\ Append(s \o queue, pressed + 1) = (s \o queue) \o <<pressed + 1>>
        BY <1>1, <4>1, <4>2
      <4>4. (s \o queue) \o <<pressed + 1>> = s \o (queue \o <<pressed + 1>>)
        BY <1>1, <1>2, <4>2
      <4> QED BY <4>3, <4>4
    <3>4. sent' \o flight' \o queue' = [k \in 1..pressed' |-> k]
      BY <2>1, <2>2, <3>1, <3>2, <3>3
    <3>5. flight' # <<>> /\ queue' \in Seq(Nat) /\ flight' \in Seq(Nat)
      BY <1>1, <2>3, <3>1
    <3> QED BY <1>1, <2>1, <3>4, <3>5 DEF TonesFit, TonesInOrder
  <2>4. CASE flight = <<>>
    <3>1. flight' = <<pressed + 1>> /\ queue' = queue /\ queue = <<>>
      BY <1>1, <1>5, <2>1, <2>4 DEF Tone
    <3>2. sent \o <<pressed + 1>> \o <<>> = Append(sent \o <<>> \o <<>>, pressed + 1)
      BY <1>1
    <3> QED BY <1>1, <2>1, <2>2, <2>4, <3>1, <3>2 DEF TonesFit, TonesInOrder
  <2> QED BY <2>3, <2>4
<1> QED BY <1>4, <1>5

LEMMA OfonoTones ==
  ASSUME ModemsInv, plugin = "ofono", (\E i \in DOMAIN objs : Tone(i)) \/ TonesSent
  PROVE  ModemsInv' /\ StepFits
<1>1. UNCHANGED modemVars
  BY DEF Tone, TonesSent
<1>2. /\ Fit(origins, objs)' /\ ObjsFollow(objs)' /\ StepFits
      /\ Listed' = Listed /\ Used' = Used
      /\ \A o \in Listed, p \in Path : Keyed(o, p)' = Keyed(o, p)
  BY <1>1, Untouched DEF modemVars, serviceVars
<1>3. /\ NetFits /\ AskedFit(asked) /\ pending \subseteq OfonoRequest /\ VoiceKnown
      /\ NoCallMissed /\ EndedIsDeleted /\ TonesFit
  BY DEF ModemsInv, PendingFits
<1>4. NetFits' /\ AskedFit(asked)'
  BY <1>1, <1>3 DEF NetFits, Unused, Exists, AskedFit, modemVars, serviceVars
<1>5. PendingFits'
  <2>1. OfonoRequest' = OfonoRequest
    BY <1>2 DEF OfonoRequest, Modems
  <2>2. VoiceKnown'
    BY <1>1, <1>2, <1>3 DEF VoiceKnown, modemVars
  <2> QED BY <1>1, <1>3, <2>1, <2>2 DEF PendingFits, modemVars
<1>6. NoCallMissed' /\ EndedIsDeleted'
  BY <1>1, <1>3 DEF NoCallMissed, EndedIsDeleted, modemVars, serviceVars, Listed, Exists, Keyed, WillTell, Listings
<1>7. TonesFit'
  BY <1>3, TonesGoOn
<1> QED BY <1>2, <1>4, <1>5, <1>6, <1>7 DEF ModemsInv

LEMMA OfonoSteps ==
  ASSUME ModemsInv, plugin = "ofono", OfonoNext
  PROVE  ModemsInv' /\ StepFits
<1>1. CASE OfonoAnswers
  BY <1>1, OfonoProvides, OfonoVoiceDone, OfonoCallsGot, OfonoCallDone, OfonoCalls, OfonoTones DEF OfonoAnswers
<1>2. CASE OfonoEvents
  BY <1>2, OfonoProvides, OfonoCalls, OfonoTones DEF OfonoEvents
<1> QED BY <1>1, <1>2 DEF OfonoNext

-----------------------------------------------------------------------------
(* The dummy, which has no service. *)

LEMMA DummyAlone ==
  ASSUME ModemsInv, plugin = "dummy", UNCHANGED <<plugin, serviceVars, asked, pending, ofonoVars>>
  PROVE  /\ NetFits' /\ AskedFit(asked)' /\ PendingFits'
         /\ NoCallMissed' /\ EndedIsDeleted' /\ TonesFit'
<1>1. NetFits /\ AskedFit(asked) /\ TonesFit /\ net' = net /\ modem' = modem /\ UNCHANGED toneVars
  BY DEF ModemsInv, serviceVars, ofonoVars, toneVars
<1>2. NetFits' /\ AskedFit(asked)' /\ PendingFits' /\ TonesFit'
  BY <1>1, TonesKept DEF NetFits, Unused, Exists, AskedFit, PendingFits
<1>3. \A p \in Path : ~Exists(p)'
  BY <1>1 DEF NetFits, Unused, Exists
<1> QED BY <1>2, <1>3, NothingToTell

LEMMA DummyAdds ==
  ASSUME ModemsInv, plugin = "dummy", UNCHANGED ofonoVars,
         NEW o \in Nat, NEW p \in Path, NEW s \in {"DIALING", "INCOMING"}, DAddCall(o, p, s)
  PROVE  ModemsInv' /\ StepFits
<1>1. Fit(origins, objs) /\ ObjsFollow(objs)
  BY DEF ModemsInv
<1>2. /\ o \in DOMAIN origins /\ Len(objs) < MaxObjs
      /\ objs' = Append(objs, NewObj(o, p, s))
      /\ UNCHANGED <<plugin, serviceVars, asked, pending>>
  BY DEF DAddCall, Listed
<1>3. origins' = [origins EXCEPT ![o].table[p] = Len(objs) + 1]
  <2>1. NewObj(o, p, s) \in ObjRecord
    BY DEF NewObj, ObjRecord, Abstract!CallState
  <2>2. Len(objs') = Len(objs) + 1
    BY <1>1, <1>2, <2>1 DEF Fit
  <2> QED BY <2>2 DEF DAddCall
<1>4. Placed(origins', objs', o, p, s)
  <2>1. s \in Abstract!CallState
    BY DEF Abstract!CallState
  <2> QED BY <1>1, <1>2, <1>3, <2>1, Placing
<1>5. Fit(origins, objs)'
  BY <1>4 DEF Placed, Fit, TablesFit
<1>6. StepFits
  BY <1>4 DEF Placed, StepFits, Later, Aging
<1>7. ObjsFollow(objs)'
  <2>1. ASSUME NEW i \in DOMAIN objs'
        PROVE  objs'[i].dropped = (objs'[i].state = "DISCONNECTED")
    <3>1. CASE i \in DOMAIN objs
      <4>1. objs'[i] = objs[i]
        BY <1>4, <3>1 DEF Placed
      <4> QED BY <1>1, <3>1, <4>1 DEF ObjsFollow
    <3>2. CASE i \notin DOMAIN objs
      <4>1. objs'[i] = NewObj(o, p, s)
        BY <1>4, <3>2 DEF Placed
      <4>2. objs'[i].dropped = FALSE /\ objs'[i].state # "DISCONNECTED"
        BY <4>1 DEF NewObj
      <4> QED BY <4>2
    <3> QED BY <3>1, <3>2
  <2> QED BY <1>2, <2>1 DEF ObjsFollow
<1> QED BY <1>2, <1>5, <1>6, <1>7, DummyAlone DEF ModemsInv

LEMMA DummyMoves ==
  ASSUME ModemsInv, plugin = "dummy", UNCHANGED ofonoVars,
         NEW i \in DOMAIN objs, objs[i].state # "DISCONNECTED",
         NEW s \in Abstract!CallState \ {"UNKNOWN", objs[i].state}, DSetState(i, s)
  PROVE  ModemsInv' /\ StepFits
<1>1. /\ ObjsFollow(objs)
      /\ objs \in Seq(ObjRecord) /\ DOMAIN objs = 1..Len(objs) /\ Len(objs) \in Nat
      /\ Len(objs) <= MaxObjs
      /\ origins \in Seq(OriginRecord) /\ Len(origins) <= MaxOrigins
      /\ DOMAIN origins = 1..Len(origins) /\ Len(origins) \in Nat
      /\ \A o \in DOMAIN origins : origins[o].listed => origins[o].alive
      /\ \A k \in DOMAIN objs : objs[k].origin \in DOMAIN origins
      /\ TablesFit(origins, objs)
  BY DEF ModemsInv, Fit
<1>2. PICK over \in BOOLEAN : over = (s = "DISCONNECTED")
  OBVIOUS
<1>3. /\ objs' = [objs EXCEPT ![i].state = s, ![i].dropped = over]
      /\ origins' = IF over THEN Unkey(origins, {objs[i].origin}, objs[i].path) ELSE origins
      /\ UNCHANGED <<plugin, serviceVars, asked, pending>>
  BY <1>2 DEF DSetState
<1>4. ~objs[i].dropped
  BY <1>1 DEF ObjsFollow
<1>5. DOMAIN objs' = DOMAIN objs
  BY <1>3
<1>6. ASSUME NEW k \in DOMAIN objs
      PROVE  /\ objs'[k] \in ObjRecord
             /\ objs'[k].origin = objs[k].origin /\ objs'[k].path = objs[k].path
             /\ objs'[k].state = IF k = i THEN s ELSE objs[k].state
             /\ objs'[k].dropped = IF k = i THEN over ELSE objs[k].dropped
  <2>1. objs[k] \in ObjRecord
    BY <1>1
  <2>2. objs'[k] = IF k = i THEN [objs[k] EXCEPT !.state = s, !.dropped = over] ELSE objs[k]
    BY <1>3
  <2> QED BY <2>1, <2>2 DEF ObjRecord
<1>7. objs' \in Seq(ObjRecord) /\ Len(objs') = Len(objs)
  <2>1. objs' = [k \in DOMAIN objs |-> objs'[k]]
    BY <1>3
  <2>2. objs' \in [1..Len(objs) -> ObjRecord]
    BY <1>1, <1>6, <2>1
  <2> QED BY <1>1, <2>2
<1>8. /\ DOMAIN origins' = DOMAIN origins
      /\ \A o \in DOMAIN origins :
           /\ origins'[o] \in OriginRecord
           /\ origins'[o].listed = origins[o].listed /\ origins'[o].alive = origins[o].alive
           /\ \A p \in Path : origins'[o].table[p] =
                IF over /\ o = objs[i].origin /\ p = objs[i].path THEN 0 ELSE origins[o].table[p]
  <2>1. CASE ~over
    BY <1>1, <1>3, <2>1
  <2>2. CASE over
    <3>1. objs[i].path \in Path
      BY Indices DEF ModemsInv
    <3>2. DOMAIN origins' = DOMAIN origins
      BY <1>3, <2>2 DEF Unkey
    <3>3. ASSUME NEW o \in DOMAIN origins
          PROVE  /\ origins'[o] \in OriginRecord
                 /\ origins'[o].listed = origins[o].listed /\ origins'[o].alive = origins[o].alive
                 /\ \A p \in Path : origins'[o].table[p] =
                      IF o = objs[i].origin /\ p = objs[i].path THEN 0 ELSE origins[o].table[p]
      <4>1. origins[o] \in OriginRecord
        BY <1>1
      <4>2. origins'[o] = IF o = objs[i].origin THEN [origins[o] EXCEPT !.table[objs[i].path] = 0] ELSE origins[o]
        BY <1>3, <2>2 DEF Unkey
      <4> QED BY <3>1, <4>1, <4>2 DEF OriginRecord
    <3> QED BY <2>2, <3>2, <3>3
  <2> QED BY <2>1, <2>2
<1>9. origins' \in Seq(OriginRecord) /\ Len(origins') = Len(origins)
  <2>1. CASE ~over
    BY <1>1, <1>3, <2>1
  <2>2. CASE over
    <3>1. origins' = [o \in DOMAIN origins |-> origins'[o]]
      BY <1>3, <2>2 DEF Unkey
    <3>2. origins' \in [1..Len(origins) -> OriginRecord]
      BY <1>1, <1>8, <3>1
    <3> QED BY <1>1, <3>2
  <2> QED BY <2>1, <2>2
<1>10. TablesFit(origins', objs')
  <2>1. ASSUME NEW o \in DOMAIN origins, NEW p \in Path, origins'[o].table[p] # 0
        PROVE  origins'[o].table[p] \in {k \in DOMAIN objs' :
                 objs'[k].path = p /\ objs'[k].origin = o /\ ~objs'[k].dropped}
    <3>1. /\ ~(over /\ o = objs[i].origin /\ p = objs[i].path)
          /\ origins'[o].table[p] = origins[o].table[p]
      BY <1>8, <2>1
    <3>2. PICK k \in DOMAIN objs :
            k = origins[o].table[p] /\ objs[k].path = p /\ objs[k].origin = o /\ ~objs[k].dropped
      BY <1>1, <2>1, <3>1 DEF TablesFit
    <3> QED BY <1>5, <1>6, <3>1, <3>2
  <2> QED BY <1>8, <2>1 DEF TablesFit
<1>11. Fit(origins, objs)'
  <2>1. Fit(origins', objs')
    BY <1>1, <1>5, <1>6, <1>7, <1>8, <1>9, <1>10 DEF Fit
  <2> QED BY <2>1 DEF Fit, TablesFit
<1>12. StepFits
  <2>1. ASSUME NEW k \in DOMAIN objs
        PROVE  /\ objs[k].dropped => objs'[k].dropped
               /\ objs'[k].state = objs[k].state \/ objs'[k].state \in Abstract!Successors(objs[k].state)
    BY <1>4, <1>6 DEF Abstract!Successors
  <2> QED BY <1>5, <1>6, <1>8, <2>1 DEF StepFits, Later, Aging
<1>13. ObjsFollow(objs)'
  <2>1. ASSUME NEW k \in DOMAIN objs'
        PROVE  objs'[k].dropped = (objs'[k].state = "DISCONNECTED")
    BY <1>1, <1>2, <1>5, <1>6 DEF ObjsFollow
  <2> QED BY <1>3, <2>1 DEF ObjsFollow
<1> QED BY <1>3, <1>11, <1>12, <1>13, DummyAlone DEF ModemsInv

LEMMA DummySteps ==
  ASSUME ModemsInv, plugin = "dummy", DummyNext, UNCHANGED ofonoVars
  PROVE  ModemsInv' /\ StepFits
<1>1. Fit(origins, objs) /\ {"DIALING", "ALERTING", "INCOMING", "ACTIVE", "DISCONNECTED"} \subseteq Abstract!CallState \ {"UNKNOWN"}
  BY DEF ModemsInv, Abstract!CallState
<1>2. ASSUME NEW o \in DOMAIN origins, NEW p \in Path, DDial(o, p)
      PROVE  ModemsInv' /\ StepFits
  <2>1. o \in Nat /\ DAddCall(o, p, "DIALING")
    BY <1>1, <1>2, Indices DEF DDial
  <2> QED BY <2>1, DummyAdds
<1>3. ASSUME NEW p \in Path, Usr(p)
      PROVE  ModemsInv' /\ StepFits
  BY <1>3, DummyAdds DEF Usr
<1>4. ASSUME NEW i \in DOMAIN objs, Timeout(i)
      PROVE  ModemsInv' /\ StepFits
  <2>1. CASE objs[i].state = "DIALING"
    <3>1. DSetState(i, "ALERTING")
      BY <1>4, <2>1 DEF Timeout
    <3> QED BY <1>1, <2>1, <3>1, DummyMoves
  <2>2. CASE objs[i].state = "ALERTING"
    <3>1. DSetState(i, "ACTIVE")
      BY <1>4, <2>2 DEF Timeout
    <3> QED BY <1>1, <2>2, <3>1, DummyMoves
  <2>3. CASE objs[i].state \notin {"DIALING", "ALERTING"}
    <3>1. UNCHANGED modemVars
      BY <1>4, <2>3 DEF Timeout
    <3>2. UNCHANGED <<plugin, serviceVars, asked, pending, net, origins, objs>>
      BY <3>1 DEF modemVars, serviceVars
    <3> QED BY <3>2, Untouched, DummyAlone DEF ModemsInv
  <2> QED BY <2>1, <2>2, <2>3
<1>5. ASSUME NEW i \in DOMAIN objs, DAnswer(i)
      PROVE  ModemsInv' /\ StepFits
  BY <1>1, <1>5, DummyMoves DEF DAnswer
<1>6. ASSUME NEW i \in DOMAIN objs, DHangUp(i)
      PROVE  ModemsInv' /\ StepFits
  BY <1>1, <1>6, DummyMoves DEF DHangUp
<1> QED BY <1>2, <1>3, <1>4, <1>5, <1>6 DEF DummyNext

-----------------------------------------------------------------------------
(* The theorems about the calls of a modem. *)

LEMMA ModemsStarting == ModemsInit => ModemsInv
<1> SUFFICES ASSUME ModemsInit
             PROVE  ModemsInv
  OBVIOUS
<1>1. /\ plugin \in {"mm", "ofono", "dummy"} /\ modem = "none" /\ net = [p \in Path |-> "NONE"]
      /\ asked = {} /\ pending = {} /\ objs = <<>>
      /\ origins = IF plugin = "dummy" THEN DummyOrigins ELSE <<>>
      /\ pressed = 0 /\ queue = <<>> /\ flight = <<>> /\ sent = <<>>
  BY DEF ModemsInit, OfonoInit
<1>2. \A p \in Path : net[p] = "NONE" /\ ~Exists(p)
  BY <1>1 DEF Exists
<1>3. Fit(origins, objs)
  <2>1. NoTable \in [Path -> Nat] /\ \A p \in Path : NoTable[p] = 0
    BY DEF NoTable
  <2>2. objs \in Seq(ObjRecord) /\ Len(objs) = 0 /\ DOMAIN objs = {} /\ Len(objs) <= MaxObjs
    BY <1>1, ModemAssumption
  <2>3. CASE origins = <<>>
    <3>1. origins \in Seq(OriginRecord) /\ Len(origins) <= MaxOrigins /\ DOMAIN origins = {}
      BY <2>3, ModemAssumption
    <3> QED BY <2>2, <3>1 DEF Fit, TablesFit
  <2>4. CASE origins = DummyOrigins
    <3>1. PICK new \in OriginRecord : origins = <<new>> /\ new.alive /\ new.table = NoTable
      <4>1. [NewOrigin EXCEPT !.voice = TRUE] \in OriginRecord
        BY <2>1 DEF NewOrigin, OriginRecord
      <4> QED BY <2>4, <4>1 DEF DummyOrigins, NewOrigin
    <3>2. origins \in Seq(OriginRecord) /\ Len(origins) = 1 /\ Len(origins) <= MaxOrigins
      BY <3>1, ModemAssumption
    <3>3. DOMAIN origins = {1} /\ origins[1] = new
      BY <3>1
    <3>4. TablesFit(origins, objs)
      BY <2>1, <3>1, <3>3 DEF TablesFit
    <3> QED BY <2>2, <3>1, <3>2, <3>3, <3>4 DEF Fit
  <2> QED BY <1>1, <2>3, <2>4
<1>4. NetFits
  BY <1>1, <1>2 DEF NetFits, NetState, Unused
<1>5. ObjsFollow(objs) /\ AskedFit(asked)
  BY <1>1 DEF ObjsFollow, AskedFit
<1>6. PendingFits
  <2>1. plugin = "ofono" => Listed = {}
    BY <1>1 DEF Listed
  <2> QED BY <1>1, <2>1 DEF PendingFits, VoiceKnown
<1>7. NoCallMissed /\ EndedIsDeleted
  BY <1>2 DEF NoCallMissed, EndedIsDeleted
<1>8. TonesFit
  <2>1. sent \o flight \o queue = <<>>
    BY <1>1
  <2>2. <<>> = [i \in 1..0 |-> i]
    OBVIOUS
  <2> QED BY <1>1, <2>1, <2>2 DEF TonesFit, TonesInOrder
<1> QED BY <1>3, <1>4, <1>5, <1>6, <1>7, <1>8 DEF ModemsInv

LEMMA ModemsStepping ==
  ASSUME ModemsInv, [ModemsNext]_modemsVars
  PROVE  ModemsInv' /\ StepFits
<1>1. CASE plugin = "mm" /\ MmNext /\ UNCHANGED ofonoVars
  BY <1>1, MmSteps
<1>2. CASE plugin = "ofono" /\ OfonoNext
  BY <1>2, OfonoSteps
<1>3. CASE plugin = "dummy" /\ DummyNext /\ UNCHANGED ofonoVars
  BY <1>3, DummySteps
<1>4. CASE UNCHANGED modemsVars
  <2>1. UNCHANGED modemVars /\ UNCHANGED toneVars
    BY <1>4 DEF modemsVars, ofonoVars, toneVars
  <2>2. UNCHANGED <<plugin, svcUp, modem, net, asked, pending, origins, objs>>
    BY <2>1 DEF modemVars, serviceVars
  <2>3. /\ Fit(origins, objs)' /\ ObjsFollow(objs)' /\ StepFits /\ Listed' = Listed /\ Used' = Used
    BY <2>2, Untouched
  <2>4. NetFits' /\ AskedFit(asked)' /\ NoCallMissed' /\ EndedIsDeleted'
    BY <2>2 DEF ModemsInv, NetFits, Unused, Exists, AskedFit, NoCallMissed, EndedIsDeleted,
                Listed, Keyed, WillTell, Listings
  <2>5. PendingFits'
    BY <2>2, <2>3 DEF ModemsInv, PendingFits, MmRequest, OfonoRequest, Modems, VoiceKnown
  <2>6. TonesFit'
    BY <2>1, TonesKept DEF ModemsInv
  <2> QED BY <2>3, <2>4, <2>5, <2>6 DEF ModemsInv
<1> QED BY <1>1, <1>2, <1>3, <1>4 DEF ModemsNext

\* The inductive invariant of the calls of a modem holds, whichever provider is
\* loaded.
THEOREM ModemsInvariance == ModemsSpec => []ModemsInv
<1>1. ModemsInv /\ [ModemsNext]_modemsVars => ModemsInv'
  BY ModemsStepping
<1> QED BY ModemsStarting, <1>1, PTL DEF ModemsSpec

\* Every call of the modem has an object at each origin of it on the list, or a
\* request is under way that will tell the origin of it: add_calls() of both
\* providers, whatever signals and answers come in between.
THEOREM CallsKnown == ModemsSpec => []NoCallMissed
<1>1. ModemsInv => NoCallMissed
  BY DEF ModemsInv
<1> QED BY <1>1, ModemsInvariance, PTL

\* A call that ended at ModemManager is deleted there: the request to do so is
\* under way, or a listing that will lead to it, while the modem is there.
THEOREM EndedDeleted == ModemsSpec => []EndedIsDeleted
<1>1. ModemsInv => EndedIsDeleted
  BY DEF ModemsInv
<1> QED BY <1>1, ModemsInvariance, PTL

\* The tones of an oFono call are sent in the order the keys were pressed, each
\* once, however many are pressed while a request to send some is under way.
THEOREM TonesOrdered == ModemsSpec => []TonesInOrder
<1>1. ModemsInv => TonesInOrder
  BY DEF ModemsInv, TonesFit
<1> QED BY <1>1, ModemsInvariance, PTL

LEMMA ContractKept ==
  ASSUME ModemsInv, ModemsInv', StepFits
  PROVE  Abstract!OriginsObey /\ \A c \in CallId : Abstract!CallObeys(c)
<1>1. /\ Fit(origins, objs) /\ Fit(origins', objs')
      /\ Later(objs, objs') /\ Aging(origins, origins')
  BY DEF ModemsInv, StepFits, Fit, TablesFit
<1>2. /\ \A i \in DOMAIN objs : objs[i].origin \in DOMAIN origins /\ objs[i].origin # 0
      /\ \A i \in DOMAIN objs' : objs'[i].origin \in 1..MaxOrigins /\ objs'[i].state \in Abstract!CallState
      /\ \A i \in DOMAIN objs : objs[i].state \in Abstract!CallState
      /\ \A i \in DOMAIN objs : i \in CallId
  <2>1. /\ \A i \in DOMAIN objs : objs[i] \in ObjRecord /\ objs[i].origin \in DOMAIN origins
        /\ 0 \notin DOMAIN origins
    BY <1>1, Indices DEF Fit
  <2>2. /\ DOMAIN origins' = 1..Len(origins') /\ Len(origins') \in Nat /\ Len(origins') <= MaxOrigins
        /\ \A i \in DOMAIN objs' : objs'[i] \in ObjRecord /\ objs'[i].origin \in DOMAIN origins'
    BY <1>1 DEF Fit
  <2>3. DOMAIN objs = 1..Len(objs) /\ Len(objs) \in Nat /\ Len(objs) <= MaxObjs
    BY <1>1 DEF Fit
  <2>4. \A i \in DOMAIN objs' : objs'[i].origin \in 1..MaxOrigins
    BY <2>2, ModemAssumption
  <2>5. \A i \in DOMAIN objs : i \in CallId
    BY <2>3, ModemAssumption DEF CallId
  <2>6. \A x \in ObjRecord : x.state \in Abstract!CallState
    BY DEF ObjRecord
  <2> QED BY <2>1, <2>2, <2>4, <2>5, <2>6
<1>3. Abstract!OriginsObey
  <2>1. ASSUME NEW o \in Listed', o \notin Listed, NEW i \in DOMAIN objs, objs[i].origin = o
        PROVE  FALSE
    BY <1>1, <1>2, <2>1 DEF Aging, Listed
  <2> QED BY <1>2, <2>1 DEF Abstract!OriginsObey
<1>4. ASSUME NEW c \in CallId
      PROVE  Abstract!CallObeys(c)
  <2>1. CASE c \notin DOMAIN objs'
    <3>1. c \notin DOMAIN objs
      BY <1>1, <2>1 DEF Later
    <3> QED BY <2>1, <3>1 DEF Abstract!CallObeys
  <2>2. CASE c \in DOMAIN objs' /\ c \notin DOMAIN objs
    BY <1>2, <1>4, <2>2 DEF Abstract!CallObeys
  <2>3. CASE c \in DOMAIN objs
    <3>1. /\ c \in DOMAIN objs' /\ objs'[c].origin = objs[c].origin
          /\ objs[c].dropped => objs'[c].dropped
          /\ objs'[c].state = objs[c].state \/ objs'[c].state \in Abstract!Successors(objs[c].state)
          /\ objs[c].state \in Abstract!CallState
      BY <1>1, <1>2, <2>3 DEF Later
    <3>2. CASE objs'[c].state = objs[c].state
      BY <1>4, <2>3, <3>1, <3>2 DEF Abstract!CallObeys
    <3>3. CASE objs'[c].state \in Abstract!Successors(objs[c].state)
      BY <1>4, <2>3, <3>1, <3>3 DEF Abstract!CallObeys
    <3> QED BY <3>1, <3>2, <3>3
  <2> QED BY <2>1, <2>2, <2>3
<1> QED BY <1>3, <1>4

\* Each provider implements the contract the manager is written against: an
\* origin joins without calls, a call object is announced once and its state
\* only moves on (CallsOrigin).
THEOREM RefinesOrigin == ModemsSpec => ImplementsOrigin
<1>1. ModemsInit => Abstract!NoCalls
  BY DEF ModemsInit, Abstract!NoCalls, CallId
<1>2. ModemsInv /\ ModemsInv' /\ [ModemsNext]_modemsVars =>
        Abstract!OriginsObey /\ \A c \in CallId : Abstract!CallObeys(c)
  BY ModemsStepping, ContractKept
<1> QED BY <1>1, <1>2, ModemsInvariance, PTL DEF ModemsSpec, ImplementsOrigin, Abstract!Contract

-----------------------------------------------------------------------------
(* USSD. *)

Has(s, S) == \E i \in DOMAIN s : s[i] \in S

\* In sequence s, each of C comes before one of S.
Precedes(s, C, S) == \A i \in DOMAIN s : s[i] \in C => \E j \in DOMAIN s : j > i /\ s[j] \in S

StateMessage == [what : {"state"}, state : SessionState \ {"UNKNOWN"}, text : BOOLEAN]
AnswerMessage == [what : UssdRequest, ok : BOOLEAN, text : BOOLEAN]

Message == StateMessage \union AnswerMessage

Dialling == {"initiate", "reinitiate"}

Answers(R) == {m \in AnswerMessage : m.what \in R}
Failures   == {m \in Answers(Dialling) : ~m.ok}

UssdRecord ==
  [state : SessionState, outbox : Seq(UssdRequest), open : BOOLEAN, bound : BOOLEAN,
   content : BOOLEAN, reply : BOOLEAN, cancel : BOOLEAN]

UssdTypeOK ==
  /\ service \in {"mm", "ofono"}
  /\ session \in SessionState \ {"UNKNOWN"}
  /\ working \in {"none", "initiate", "respond"}
  /\ inbox \in Seq(Message)
  /\ ussd \in UssdRecord

\* After the messages of s, a program that has the state st has x.
Told(s, st, x) ==
  /\ ~Has(s, StateMessage) => st = x
  /\ \A i \in DOMAIN s :
       s[i] \in StateMessage /\ (\A j \in DOMAIN s : j > i => s[j] \notin StateMessage) => s[i].state = x

\* A code that was dialled is not answered yet.
Awaiting == Has(ussd.outbox, Dialling) \/ working = "initiate" \/ Has(inbox, Answers(Dialling))

\* A dialog that is not about to close is one of a code dialled after each
\* cancel under way.
Overtaken ==
  /\ Precedes(ussd.outbox, {"cancel"}, Dialling)
  /\ \/ Has(ussd.outbox, Dialling) \/ working = "initiate"
     \/ Precedes(inbox, Answers({"cancel"}), Answers(Dialling))

\* What window_update_ussd_state() makes of the buttons.
Shows(d) ==
  \/ d.reply = (d.state = "USER_RESPONSE") /\ d.cancel = (d.state \in {"USER_RESPONSE", "ACTIVE"})
  \/ d.state = "ACTIVE" /\ d.reply

\* oFono's origin, once a code was answered.
Asks(d) == d.state = "USER_RESPONSE" /\ d.reply /\ d.cancel

UssdInv ==
  /\ UssdTypeOK
  /\ session = "ACTIVE" <=> working # "none"
  /\ service = "mm" => Told(inbox, ussd.state, session)
  /\ service = "ofono" =>
       /\ ~Has(inbox, StateMessage)
       /\ ussd.open /\ ~Has(inbox, Failures) => Overtaken
  /\ ussd.open /\ ~Awaiting => IF service = "mm" THEN Shows(ussd) ELSE Asks(ussd)

LEMMA HasMore ==
  ASSUME NEW M, NEW s \in Seq(M), NEW t \in Seq(M), NEW S
  PROVE  Has(s \o t, S) <=> Has(s, S) \/ Has(t, S)
<1> DEFINE r == s \o t
<1>1. /\ Len(s) \in Nat /\ Len(t) \in Nat /\ DOMAIN s = 1..Len(s) /\ DOMAIN t = 1..Len(t)
      /\ DOMAIN r = 1..(Len(s) + Len(t))
      /\ \A i \in DOMAIN s : r[i] = s[i]
      /\ \A k \in 1..Len(t) : r[Len(s) + k] = t[k]
  <2>1. Len(t) \in Nat
    OBVIOUS
  <2> QED BY <2>1, Joined
<1> HIDE DEF r
<1>2. ASSUME NEW i \in DOMAIN r, r[i] \in S
      PROVE  Has(s, S) \/ Has(t, S)
  <2>1. CASE i \in DOMAIN s
    BY <1>1, <1>2, <2>1 DEF Has
  <2>2. CASE i \notin DOMAIN s
    <3>1. i - Len(s) \in 1..Len(t) /\ i = Len(s) + (i - Len(s))
      BY <1>1, <2>2
    <3> QED BY <1>1, <1>2, <3>1 DEF Has
  <2> QED BY <2>1, <2>2
<1>3. ASSUME NEW i \in DOMAIN s, s[i] \in S
      PROVE  Has(r, S)
  <2>1. i \in DOMAIN r /\ r[i] = s[i]
    BY <1>1
  <2> QED BY <1>3, <2>1 DEF Has
<1>4. ASSUME NEW k \in DOMAIN t, t[k] \in S
      PROVE  Has(r, S)
  <2>1. Len(s) + k \in DOMAIN r /\ r[Len(s) + k] = t[k]
    BY <1>1
  <2> QED BY <1>4, <2>1 DEF Has
<1> QED BY <1>2, <1>3, <1>4 DEF Has, r

LEMMA HasTail ==
  ASSUME NEW M, NEW s \in Seq(M), s # <<>>, NEW S
  PROVE  /\ Has(s, S) <=> Head(s) \in S \/ Has(Tail(s), S)
         /\ Tail(s) \in Seq(M) /\ Head(s) \in M
<1>1. /\ Len(s) \in Nat \ {0} /\ DOMAIN s = 1..Len(s)
      /\ DOMAIN Tail(s) = 1..(Len(s) - 1)
      /\ \A i \in DOMAIN Tail(s) : Tail(s)[i] = s[i + 1]
      /\ Head(s) = s[1]
  OBVIOUS
<1>2. ASSUME NEW i \in DOMAIN s, s[i] \in S, i # 1
      PROVE  Has(Tail(s), S)
  <2>1. i - 1 \in DOMAIN Tail(s) /\ Tail(s)[i - 1] = s[i]
    BY <1>1, <1>2
  <2> QED BY <1>2, <2>1 DEF Has
<1>3. ASSUME NEW i \in DOMAIN Tail(s), Tail(s)[i] \in S
      PROVE  Has(s, S)
  <2>1. i + 1 \in DOMAIN s /\ s[i + 1] \in S
    BY <1>1, <1>3
  <2> QED BY <2>1 DEF Has
<1>4. Head(s) \in S => Has(s, S)
  BY <1>1 DEF Has
<1>5. Has(s, S) => Head(s) \in S \/ Has(Tail(s), S)
  BY <1>1, <1>2 DEF Has
<1>6. Has(Tail(s), S) => Has(s, S)
  BY <1>3 DEF Has
<1> QED BY <1>4, <1>5, <1>6

LEMMA PrecedesMore ==
  ASSUME NEW M, NEW s \in Seq(M), NEW t \in Seq(M), NEW C, NEW S
  PROVE  /\ Precedes(s, C, S) /\ ~Has(t, C) => Precedes(s \o t, C, S)
         /\ t # <<>> /\ t[Len(t)] \in S \ C => Precedes(s \o t, C, S)
<1> DEFINE r == s \o t
<1>1. /\ Len(s) \in Nat /\ Len(t) \in Nat /\ DOMAIN s = 1..Len(s) /\ DOMAIN t = 1..Len(t)
      /\ DOMAIN r = 1..(Len(s) + Len(t))
      /\ \A i \in DOMAIN s : r[i] = s[i]
      /\ \A k \in 1..Len(t) : r[Len(s) + k] = t[k]
  <2>1. Len(t) \in Nat
    OBVIOUS
  <2> QED BY <2>1, Joined
<1>2. t # <<>> => Len(t) \in 1..Len(t)
  OBVIOUS
<1> HIDE DEF r
<1>3. ASSUME Precedes(s, C, S), ~Has(t, C), NEW i \in DOMAIN r, r[i] \in C
      PROVE  \E j \in DOMAIN r : j > i /\ r[j] \in S
  <2>1. CASE i \in DOMAIN s
    <3>1. PICK j \in DOMAIN s : j > i /\ s[j] \in S
      BY <1>1, <1>3, <2>1 DEF Precedes
    <3>2. j \in DOMAIN r /\ r[j] = s[j]
      BY <1>1
    <3> QED BY <3>1, <3>2
  <2>2. CASE i \notin DOMAIN s
    <3>1. i - Len(s) \in 1..Len(t) /\ i = Len(s) + (i - Len(s))
      BY <1>1, <2>2
    <3>2. t[i - Len(s)] \in C
      BY <1>1, <1>3, <3>1
    <3> QED BY <1>1, <1>3, <3>1, <3>2 DEF Has
  <2> QED BY <2>1, <2>2
<1>4. ASSUME t # <<>>, t[Len(t)] \in S \ C, NEW i \in DOMAIN r, r[i] \in C
      PROVE  \E j \in DOMAIN r : j > i /\ r[j] \in S
  <2>1. PICK j : j = Len(s) + Len(t)
    OBVIOUS
  <2>2. j \in DOMAIN r /\ r[j] = t[Len(t)]
    BY <1>1, <1>2, <1>4, <2>1
  <2>3. i # j
    BY <1>4, <2>2
  <2>4. j > i
    BY <1>1, <2>1, <2>3
  <2> QED BY <1>4, <2>2, <2>4
<1> QED BY <1>3, <1>4 DEF Precedes, r

LEMMA PrecedesTail ==
  ASSUME NEW M, NEW s \in Seq(M), s # <<>>, NEW C, NEW S, Precedes(s, C, S)
  PROVE  /\ Precedes(Tail(s), C, S)
         /\ Head(s) \in C => Has(Tail(s), S)
<1>1. /\ Len(s) \in Nat \ {0} /\ DOMAIN s = 1..Len(s)
      /\ DOMAIN Tail(s) = 1..(Len(s) - 1)
      /\ \A i \in DOMAIN Tail(s) : Tail(s)[i] = s[i + 1]
      /\ Head(s) = s[1]
  OBVIOUS
<1>2. ASSUME NEW i \in DOMAIN s, NEW j \in DOMAIN s, j > i, s[j] \in S
      PROVE  j - 1 \in DOMAIN Tail(s) /\ j - 1 > i - 1 /\ Tail(s)[j - 1] \in S
  BY <1>1, <1>2
<1>3. ASSUME NEW i \in DOMAIN Tail(s), Tail(s)[i] \in C
      PROVE  \E j \in DOMAIN Tail(s) : j > i /\ Tail(s)[j] \in S
  <2>1. i + 1 \in DOMAIN s /\ s[i + 1] \in C
    BY <1>1, <1>3
  <2>2. PICK j \in DOMAIN s : j > i + 1 /\ s[j] \in S
    BY <2>1 DEF Precedes
  <2>3. j - 1 \in DOMAIN Tail(s) /\ Tail(s)[j - 1] \in S
    BY <1>2, <2>1, <2>2
  <2>4. j - 1 > i
    BY <1>1, <2>2
  <2> QED BY <2>3, <2>4
<1>4. ASSUME Head(s) \in C
      PROVE  Has(Tail(s), S)
  <2>1. PICK j \in DOMAIN s : j > 1 /\ s[j] \in S
    BY <1>1, <1>4 DEF Precedes
  <2> QED BY <1>1, <1>2, <2>1 DEF Has
<1> QED BY <1>3, <1>4 DEF Precedes

\* A sequence of one more.
LEMMA OneMore ==
  ASSUME NEW M, NEW s \in Seq(M), NEW x \in M
  PROVE  /\ Append(s, x) = s \o <<x>> /\ Append(s, x) \in Seq(M)
         /\ <<x>> \in Seq(M) /\ <<x>> # <<>> /\ <<x>>[Len(<<x>>)] = x
         /\ \A S : Has(<<x>>, S) <=> x \in S
<1>1. /\ Append(s, x) = s \o <<x>> /\ Append(s, x) \in Seq(M)
      /\ <<x>> \in Seq(M) /\ <<x>> # <<>> /\ Len(<<x>>) = 1 /\ <<x>>[1] = x
  OBVIOUS
<1>2. DOMAIN <<x>> = {1}
  OBVIOUS
<1> QED BY <1>1, <1>2 DEF Has

LEMMA OneMoreHas ==
  ASSUME NEW M, NEW s \in Seq(M), NEW x \in M, NEW C, NEW S
  PROVE  /\ Append(s, x) \in Seq(M)
         /\ Has(Append(s, x), S) <=> Has(s, S) \/ x \in S
         /\ Precedes(s, C, S) /\ x \notin C => Precedes(Append(s, x), C, S)
         /\ x \in S \ C => Precedes(Append(s, x), C, S)
<1>1. /\ Append(s, x) = s \o <<x>> /\ Append(s, x) \in Seq(M)
      /\ <<x>> \in Seq(M) /\ <<x>> # <<>> /\ <<x>>[Len(<<x>>)] = x
      /\ Has(<<x>>, S) <=> x \in S
      /\ Has(<<x>>, C) <=> x \in C
  BY OneMore
<1>2. Has(s \o <<x>>, S) <=> Has(s, S) \/ Has(<<x>>, S)
  BY <1>1, HasMore
<1>3. /\ Precedes(s, C, S) /\ ~Has(<<x>>, C) => Precedes(s \o <<x>>, C, S)
      /\ <<x>> # <<>> /\ <<x>>[Len(<<x>>)] \in S \ C => Precedes(s \o <<x>>, C, S)
  BY <1>1, PrecedesMore
<1> QED BY <1>1, <1>2, <1>3

LEMMA ToldTail ==
  ASSUME NEW s \in Seq(Message), s # <<>>, NEW st, NEW x, Told(s, st, x)
  PROVE  /\ Head(s) \in StateMessage => Told(Tail(s), Head(s).state, x)
         /\ Head(s) \notin StateMessage => Told(Tail(s), st, x)
<1>1. /\ Len(s) \in Nat \ {0} /\ DOMAIN s = 1..Len(s)
      /\ DOMAIN Tail(s) = 1..(Len(s) - 1)
      /\ \A i \in DOMAIN Tail(s) : Tail(s)[i] = s[i + 1]
      /\ Head(s) = s[1]
  OBVIOUS
<1>2. ASSUME NEW i \in DOMAIN Tail(s), Tail(s)[i] \in StateMessage,
             \A j \in DOMAIN Tail(s) : j > i => Tail(s)[j] \notin StateMessage
      PROVE  Tail(s)[i].state = x
  <2>1. i + 1 \in DOMAIN s /\ s[i + 1] = Tail(s)[i]
    BY <1>1
  <2>2. ASSUME NEW j \in DOMAIN s, j > i + 1
        PROVE  s[j] \notin StateMessage
    <3>1. j - 1 \in DOMAIN Tail(s) /\ j - 1 > i /\ Tail(s)[j - 1] = s[j]
      BY <1>1, <2>2
    <3> QED BY <1>2, <3>1
  <2> QED BY <1>2, <2>1, <2>2 DEF Told
<1>3. Has(s, StateMessage) <=> Head(s) \in StateMessage \/ Has(Tail(s), StateMessage)
  BY HasTail
<1>4. ASSUME Head(s) \in StateMessage, ~Has(Tail(s), StateMessage)
      PROVE  Head(s).state = x
  <2>1. ASSUME NEW j \in DOMAIN s, j > 1
        PROVE  s[j] \notin StateMessage
    <3>1. j - 1 \in DOMAIN Tail(s) /\ Tail(s)[j - 1] = s[j]
      BY <1>1, <2>1
    <3> QED BY <1>4, <3>1 DEF Has
  <2>2. 1 \in DOMAIN s
    BY <1>1
  <2> QED BY <1>1, <1>4, <2>1, <2>2 DEF Told
<1>5. Head(s) \notin StateMessage /\ ~Has(Tail(s), StateMessage) => st = x
  BY <1>3 DEF Told
<1> QED BY <1>2, <1>4, <1>5 DEF Told

LEMMA ToldMore ==
  ASSUME NEW s \in Seq(Message), NEW t \in Seq(Message), NEW st, NEW x, NEW y
  PROVE  /\ Told(s, st, x) /\ ~Has(t, StateMessage) => Told(s \o t, st, x)
         /\ Has(t, StateMessage) /\ (\A k \in DOMAIN t : t[k] \in StateMessage => t[k].state = y)
              => Told(s \o t, st, y)
<1> DEFINE r == s \o t
<1>1. /\ Len(s) \in Nat /\ Len(t) \in Nat /\ DOMAIN s = 1..Len(s) /\ DOMAIN t = 1..Len(t)
      /\ DOMAIN r = 1..(Len(s) + Len(t))
      /\ \A i \in DOMAIN s : r[i] = s[i]
      /\ \A k \in 1..Len(t) : r[Len(s) + k] = t[k]
  <2>1. Len(t) \in Nat
    OBVIOUS
  <2> QED BY <2>1, Joined
<1>2. Has(r, StateMessage) <=> Has(s, StateMessage) \/ Has(t, StateMessage)
  BY HasMore
<1> HIDE DEF r
<1>3. \A i \in DOMAIN r : i \notin DOMAIN s => \E k \in DOMAIN t : i = Len(s) + k /\ r[i] = t[k]
  <2>1. ASSUME NEW i \in DOMAIN r, i \notin DOMAIN s
        PROVE  i - Len(s) \in DOMAIN t /\ i = Len(s) + (i - Len(s))
    BY <1>1, <2>1
  <2> QED BY <1>1, <2>1
<1>4. ASSUME Told(s, st, x), ~Has(t, StateMessage),
             NEW i \in DOMAIN r, r[i] \in StateMessage, \A j \in DOMAIN r : j > i => r[j] \notin StateMessage
      PROVE  r[i].state = x
  <2>1. i \in DOMAIN s /\ r[i] = s[i]
    BY <1>1, <1>3, <1>4 DEF Has
  <2>2. \A j \in DOMAIN s : j \in DOMAIN r /\ r[j] = s[j]
    BY <1>1
  <2> QED BY <1>4, <2>1, <2>2 DEF Told
<1>5. ASSUME Has(t, StateMessage), \A k \in DOMAIN t : t[k] \in StateMessage => t[k].state = y,
             NEW i \in DOMAIN r, r[i] \in StateMessage, \A j \in DOMAIN r : j > i => r[j] \notin StateMessage
      PROVE  r[i].state = y
  <2>1. PICK k \in DOMAIN t : t[k] \in StateMessage
    BY <1>5 DEF Has
  <2>2. Len(s) + k \in DOMAIN r /\ r[Len(s) + k] = t[k]
    BY <1>1
  <2>3. ~(Len(s) + k > i)
    BY <1>5, <2>1, <2>2
  <2>4. i \notin DOMAIN s
    BY <1>1, <2>3
  <2> QED BY <1>3, <1>5, <2>4
<1>6. Told(s, st, x) /\ ~Has(t, StateMessage) => Told(r, st, x)
  <2>1. Told(s, st, x) /\ ~Has(t, StateMessage) /\ ~Has(r, StateMessage) => st = x
    BY <1>2 DEF Told
  <2> QED BY <1>4, <2>1 DEF Told
<1>7. Has(t, StateMessage) /\ (\A k \in DOMAIN t : t[k] \in StateMessage => t[k].state = y) => Told(r, st, y)
  BY <1>2, <1>5 DEF Told
<1> QED BY <1>6, <1>7 DEF r

\* What a step of the service tells: its answers, and with ModemManager its state.
LEMMA Telling ==
  ASSUME service \in {"mm", "ofono"}, NEW a \in Seq(AnswerMessage),
         NEW x \in SessionState \ {"UNKNOWN"}, NEW t \in Tells(a, x)
  PROVE  /\ t \in Seq(Message)
         /\ \A S : Has(a, S) => Has(t, S)
         /\ service = "ofono" => t = a
         /\ service = "mm" =>
              Has(t, StateMessage) /\ \A k \in DOMAIN t : t[k] \in StateMessage => t[k].state = x
<1>1. a \in Seq(Message)
  BY DEF Message
<1>2. CASE service = "ofono"
  BY <1>1, <1>2 DEF Tells
<1>3. CASE service = "mm"
  <2>1. PICK m \in StateMessage : m.state = x /\ (t = a \o <<m>> \/ t = <<m>> \o a)
    <3>1. PICK b \in BOOLEAN : \/ t = a \o <<[what |-> "state", state |-> x, text |-> b]>>
                               \/ t = <<[what |-> "state", state |-> x, text |-> b]>> \o a
      BY <1>3 DEF Tells
    <3>2. [what |-> "state", state |-> x, text |-> b] \in StateMessage
      BY DEF StateMessage
    <3> QED BY <3>1, <3>2
  <2>2. <<m>> \in Seq(Message) /\ \A S : Has(<<m>>, S) <=> m \in S
    <3>1. m \in Message
      BY DEF Message
    <3> QED BY <1>1, <3>1, OneMore
  <2>3. t \in Seq(Message) /\ \A S : Has(t, S) <=> Has(a, S) \/ m \in S
    <3>1. /\ \A S : Has(a \o <<m>>, S) <=> Has(a, S) \/ Has(<<m>>, S)
          /\ \A S : Has(<<m>> \o a, S) <=> Has(a, S) \/ Has(<<m>>, S)
      BY <1>1, <2>2, HasMore
    <3>2. a \o <<m>> \in Seq(Message) /\ <<m>> \o a \in Seq(Message)
      BY <1>1, <2>2
    <3> QED BY <2>1, <2>2, <3>1, <3>2
  <2>4. ASSUME NEW k \in DOMAIN t, t[k] \in StateMessage
        PROVE  t[k].state = x
    <3>1. Has(t, {t[k]})
      BY DEF Has
    <3>2. CASE t[k] = m
      BY <2>1, <3>2
    <3>3. CASE Has(a, {t[k]})
      <4>1. t[k] \in AnswerMessage
        BY <3>3 DEF Has
      <4> QED BY <2>4, <4>1 DEF AnswerMessage, StateMessage, UssdRequest
    <3> QED BY <2>3, <3>1, <3>2, <3>3
  <2> QED BY <1>3, <2>3, <2>4
<1> QED BY <1>2, <1>3

\* The messages that answer are of no use to a program that looks for states.
LEMMA Apart == AnswerMessage \intersect StateMessage = {}
BY DEF AnswerMessage, StateMessage, UssdRequest

LEMMA Asking ==
  ASSUME NEW d \in UssdRecord, NEW r \in UssdRequest
  PROVE  /\ Ask(d, r) \in UssdRecord
         /\ Ask(d, r).outbox = Append(d.outbox, r)
         /\ Ask(d, r).open = d.open /\ Ask(d, r).state = d.state
         /\ Ask(d, r).reply = d.reply /\ Ask(d, r).cancel = d.cancel
<1>1. d.outbox \in Seq(UssdRequest)
  BY DEF UssdRecord
<1>2. Append(d.outbox, r) \in Seq(UssdRequest)
  BY <1>1
<1>3. Ask(d, r) = [d EXCEPT !.outbox = Append(d.outbox, r)]
  BY DEF Ask
<1> QED BY <1>2, <1>3 DEF UssdRecord

LEMMA Updating ==
  ASSUME NEW d \in UssdRecord
  PROVE  /\ UpdateButtons(d) \in UssdRecord /\ Shows(UpdateButtons(d))
         /\ UpdateButtons(d).outbox = d.outbox
         /\ UpdateButtons(d).open = d.open /\ UpdateButtons(d).state = d.state
         /\ d.state = "USER_RESPONSE" => Asks(UpdateButtons(d))
<1>1. CASE d.state = "ACTIVE" /\ d.reply
  BY <1>1 DEF UpdateButtons, Shows
<1>2. CASE ~(d.state = "ACTIVE" /\ d.reply)
  <2>1. PICK b \in BOOLEAN, c \in BOOLEAN :
          b = (d.state = "USER_RESPONSE") /\ c = (d.state \in {"USER_RESPONSE", "ACTIVE"})
    <3>1. (d.state = "USER_RESPONSE") \in BOOLEAN /\ (d.state \in {"USER_RESPONSE", "ACTIVE"}) \in BOOLEAN
      OBVIOUS
    <3> QED BY <3>1, Zenon
  <2>2. UpdateButtons(d) = [d EXCEPT !.reply = b, !.cancel = c]
    BY <1>2, <2>1 DEF UpdateButtons
  <2>3. /\ UpdateButtons(d) \in UssdRecord
        /\ UpdateButtons(d).reply = b /\ UpdateButtons(d).cancel = c
        /\ UpdateButtons(d).outbox = d.outbox
        /\ UpdateButtons(d).open = d.open /\ UpdateButtons(d).state = d.state
    BY <2>2 DEF UssdRecord
  <2> QED BY <2>1, <2>3 DEF Shows, Asks
<1> QED BY <1>1, <1>2

LEMMA Cancelling ==
  ASSUME NEW d \in UssdRecord
  PROVE  /\ CancelSession(d) \in UssdRecord
         /\ CancelSession(d).open = d.open /\ CancelSession(d).state = d.state
BY Asking DEF CancelSession, UssdRequest

LEMMA Closing ==
  ASSUME NEW d \in UssdRecord
  PROVE  CloseDialog(d) \in UssdRecord /\ ~CloseDialog(d).open /\ CloseDialog(d).state = d.state
<1>1. CASE ~d.open
  BY <1>1 DEF CloseDialog
<1>2. CASE d.open
  <2>1. PICK e : e = [d EXCEPT !.open = FALSE]
    OBVIOUS
  <2>2. e \in UssdRecord /\ ~e.open /\ e.state = d.state
    BY <2>1 DEF UssdRecord
  <2> QED BY <1>2, <2>1, <2>2, Cancelling DEF CloseDialog
<1> QED BY <1>1, <1>2

LEMMA Sending ==
  ASSUME NEW d \in UssdRecord
  PROVE  /\ SendCode(d) \in UssdRecord
         /\ SendCode(d).outbox = Append(d.outbox, "initiate")
         /\ SendCode(d).open = d.open
         /\ service # "ofono" => SendCode(d).state = d.state
<1>1. PICK e : e = IF service = "ofono" THEN [d EXCEPT !.state = "ACTIVE"] ELSE d
  OBVIOUS
<1>2. e \in UssdRecord /\ e.outbox = d.outbox /\ e.open = d.open /\ (service # "ofono" => e.state = d.state)
  BY <1>1 DEF UssdRecord, SessionState
<1>3. SendCode(d) = Ask(e, "initiate")
  BY <1>1 DEF SendCode
<1> QED BY <1>2, <1>3, Asking DEF UssdRequest

LEMMA Initiating ==
  ASSUME NEW d \in UssdRecord
  PROVE  /\ Initiate(d) \in UssdRecord
         /\ \E r \in Dialling : Initiate(d).outbox = Append(d.outbox, r)
         /\ Initiate(d).open = d.open
         /\ service # "ofono" => Initiate(d).state = d.state
BY Asking, Sending DEF Initiate, UssdRequest, Dialling

\* What the program makes of the answer m to a request.
LEMMA Answering ==
  ASSUME service \in {"mm", "ofono"}, NEW d \in UssdRecord, NEW m \in AnswerMessage
  PROVE  LET e == AnswerArrives(d, m)
         IN  /\ e \in UssdRecord
             /\ service = "mm" => e.state = d.state
             /\ \/ ~e.open
                \/ m.what \in Dialling /\ e.open = d.open /\ e.outbox = Append(d.outbox, "initiate")
                \/ /\ m.what \notin {"cancel", "reinitiate"} /\ e.open = d.open /\ e.outbox = d.outbox
                   /\ m.what = "initiate" \/ Shows(d) => Shows(e)
                   /\ service = "ofono" /\ (m.what = "initiate" \/ Asks(d)) => Asks(e)
                \/ /\ m.what = "cancel" /\ e.open = d.open /\ e.outbox = d.outbox
                   /\ service = "mm" => e = d
             /\ m \in Failures => ~e.open
<1> DEFINE e == AnswerArrives(d, m)
           a == Answered(d, m.what, m.ok)
<1>1. m.what \in UssdRequest /\ m.ok \in BOOLEAN /\ m.text \in BOOLEAN
  BY DEF AnswerMessage
<1>2. /\ a \in UssdRecord /\ a.outbox = d.outbox /\ a.open = d.open
      /\ service = "mm" => a = d
      /\ m.what = "respond" => a = d
      /\ service = "ofono" /\ m.what = "initiate" /\ m.ok => a.state = "USER_RESPONSE"
  BY <1>1 DEF Answered, UssdRecord, SessionState
<1> HIDE DEF a
<1>3. m \in Failures => m.what \in Dialling /\ ~m.ok
  BY DEF Failures, Answers
<1>4. CASE m.what = "initiate" /\ m.ok
  <2>1. PICK f : f = [a EXCEPT !.bound = TRUE, !.content = TRUE]
    OBVIOUS
  <2>2. f \in UssdRecord /\ f.outbox = a.outbox /\ f.open = a.open /\ f.state = a.state
    BY <1>2, <2>1 DEF UssdRecord
  <2>3. e = UpdateButtons(f)
    BY <1>4, <2>1 DEF AnswerArrives, SendDone, a
  <2> QED BY <1>2, <1>3, <1>4, <2>2, <2>3, Updating DEF Dialling
<1>5. CASE m.what \in {"initiate", "reinitiate", "respond"} /\ ~m.ok
  <2>1. e = CloseDialog(a)
    BY <1>5 DEF AnswerArrives, SendDone, a
  <2> QED BY <1>2, <2>1, Closing
<1>6. CASE m.what = "reinitiate" /\ m.ok
  <2>1. e = SendCode(a)
    BY <1>6 DEF AnswerArrives, a
  <2> QED BY <1>2, <1>3, <1>6, <2>1, Sending DEF Dialling
<1>7. CASE m.what = "cancel"
  <2>1. e = a
    BY <1>7 DEF AnswerArrives, a
  <2> QED BY <1>2, <1>3, <1>7, <2>1 DEF Dialling
<1>8. CASE m.what = "respond" /\ m.ok
  <2>1. PICK f : f = IF m.text THEN UpdateButtons(d) ELSE d
    OBVIOUS
  <2>2. /\ f \in UssdRecord /\ f.outbox = d.outbox /\ f.open = d.open /\ f.state = d.state
        /\ Shows(d) => Shows(f)
        /\ Asks(d) => Asks(f)
    BY <2>1, Updating DEF Asks
  <2>3. e = [f EXCEPT !.content = TRUE]
    BY <1>2, <1>8, <2>1 DEF AnswerArrives, a
  <2>4. /\ e \in UssdRecord /\ e.outbox = f.outbox /\ e.open = f.open /\ e.state = f.state
        /\ e.reply = f.reply /\ e.cancel = f.cancel
    BY <2>2, <2>3 DEF UssdRecord
  <2> QED BY <1>3, <1>8, <2>2, <2>4 DEF Shows, Asks, Dialling
<1> QED BY <1>1, <1>4, <1>5, <1>6, <1>7, <1>8 DEF UssdRequest

\* What it makes of a change of the state.
LEMMA Changing ==
  ASSUME NEW d \in UssdRecord, NEW m \in StateMessage
  PROVE  LET e == StateArrives(d, m)
         IN  /\ e \in UssdRecord /\ e.outbox = d.outbox /\ e.open = d.open /\ e.state = m.state
             /\ Shows(e)
<1>1. PICK f : f = [d EXCEPT !.state = m.state]
  OBVIOUS
<1>2. f \in UssdRecord /\ f.outbox = d.outbox /\ f.open = d.open /\ f.state = m.state
  BY <1>1 DEF UssdRecord, StateMessage
<1>3. PICK g : g = UpdateButtons(f)
  OBVIOUS
<1>4. g \in UssdRecord /\ g.outbox = d.outbox /\ g.open = d.open /\ g.state = m.state /\ Shows(g)
  BY <1>2, <1>3, Updating
<1>5. PICK h : h = [g EXCEPT !.bound = TRUE]
  OBVIOUS
<1>6. h \in UssdRecord /\ h.outbox = d.outbox /\ h.open = d.open /\ h.state = m.state
  BY <1>4, <1>5 DEF UssdRecord
<1>7. StateArrives(d, m) = IF m.text THEN UpdateButtons(h) ELSE g
  BY <1>1, <1>3, <1>5 DEF StateArrives, UssdAdded
<1> QED BY <1>4, <1>6, <1>7, Updating

LEMMA UssdReceives ==
  ASSUME UssdInv, Receive
  PROVE  UssdInv'
<1>1. /\ UssdTypeOK /\ (session = "ACTIVE" <=> working # "none")
      /\ service = "mm" => Told(inbox, ussd.state, session)
      /\ service = "ofono" =>
           ~Has(inbox, StateMessage) /\ (ussd.open /\ ~Has(inbox, Failures) => Overtaken)
      /\ ussd.open /\ ~Awaiting => IF service = "mm" THEN Shows(ussd) ELSE Asks(ussd)
  BY DEF UssdInv
<1>2. /\ inbox \in Seq(Message) /\ inbox # <<>> /\ ussd \in UssdRecord /\ service \in {"mm", "ofono"}
      /\ UNCHANGED <<service, session, working>> /\ inbox' = Tail(inbox)
  BY <1>1 DEF UssdTypeOK, Receive
<1>3. PICK m \in Message : m = Head(inbox)
  BY <1>2
<1>4. /\ \A S : Has(inbox, S) <=> m \in S \/ Has(inbox', S)
      /\ inbox' \in Seq(Message)
  BY <1>2, <1>3, HasTail
<1>5. CASE m \in StateMessage
  <2>1. service = "mm" /\ m.what = "state"
    BY <1>1, <1>2, <1>4, <1>5 DEF StateMessage
  <2>2. ussd' = StateArrives(ussd, m)
    BY <1>3, <2>1 DEF Receive
  <2>3. ussd' \in UssdRecord /\ ussd'.state = m.state /\ Shows(ussd)'
    <3>1. ussd' \in UssdRecord /\ ussd'.state = m.state /\ Shows(ussd')
      BY <1>2, <1>5, <2>2, Changing
    <3> QED BY <3>1 DEF Shows
  <2>4. Told(inbox', ussd'.state, session)
    BY <1>1, <1>2, <1>3, <1>5, <2>1, <2>3, ToldTail
  <2>5. Told(inbox, ussd.state, session)'
    BY <1>2, <2>4 DEF Told, Has
  <2>6. UssdTypeOK'
    BY <1>1, <1>2, <1>4, <2>3 DEF UssdTypeOK
  <2> QED BY <1>1, <1>2, <2>1, <2>3, <2>5, <2>6 DEF UssdInv
<1>6. CASE m \in AnswerMessage
  <2>1. m \notin StateMessage /\ m.what \in UssdRequest
    BY <1>6, Apart DEF AnswerMessage
  <2>2. ussd' = AnswerArrives(ussd, m)
    BY <1>3, <2>1 DEF Receive, UssdRequest
  <2>3. /\ ussd' \in UssdRecord
        /\ service = "mm" => ussd'.state = ussd.state
        /\ \/ ~ussd'.open
           \/ m.what \in Dialling /\ ussd'.open = ussd.open /\ ussd'.outbox = Append(ussd.outbox, "initiate")
           \/ /\ m.what \notin {"cancel", "reinitiate"} /\ ussd'.open = ussd.open /\ ussd'.outbox = ussd.outbox
              /\ m.what = "initiate" \/ Shows(ussd) => Shows(ussd')
              /\ service = "ofono" /\ (m.what = "initiate" \/ Asks(ussd)) => Asks(ussd')
           \/ /\ m.what = "cancel" /\ ussd'.open = ussd.open /\ ussd'.outbox = ussd.outbox
              /\ service = "mm" => ussd' = ussd
        /\ m \in Failures => ~ussd'.open
    BY <1>2, <1>6, <2>2, Answering
  <2>4. UssdTypeOK'
    BY <1>1, <1>2, <1>4, <2>3 DEF UssdTypeOK
  <2>5. service' = "mm" => Told(inbox, ussd.state, session)'
    <3>1. service = "mm" => Told(inbox', ussd'.state, session)
      BY <1>1, <1>2, <1>3, <2>1, <2>3, ToldTail
    <3> QED BY <1>2, <3>1 DEF Told, Has
  <2>6. service' = "ofono" => ~Has(inbox, StateMessage)'
    <3>1. service = "ofono" => ~Has(inbox', StateMessage)
      BY <1>1, <1>4
    <3> QED BY <1>2, <3>1 DEF Has
  <2>7. /\ \A S : Has(inbox, S)' <=> Has(inbox', S)
        /\ \A S : Has(ussd.outbox, S)' <=> Has(ussd'.outbox, S)
        /\ Shows(ussd)' <=> Shows(ussd')
        /\ Asks(ussd)' <=> Asks(ussd')
    BY DEF Has, Shows, Asks
  <2>8. ussd'.outbox = Append(ussd.outbox, "initiate") =>
          /\ Has(ussd'.outbox, Dialling)
          /\ Precedes(ussd'.outbox, {"cancel"}, Dialling)
    <3>1. PICK s \in Seq(UssdRequest), x \in UssdRequest : s = ussd.outbox /\ x = "initiate"
      BY <1>2 DEF UssdRecord, UssdRequest
    <3>2. x \in Dialling \ {"cancel"}
      BY <3>1 DEF Dialling
    <3>3. Has(Append(s, x), Dialling) /\ Precedes(Append(s, x), {"cancel"}, Dialling)
      BY <3>2, OneMoreHas
    <3> QED BY <3>1, <3>3
  <2>9. ASSUME service = "ofono", ussd'.open, ~Has(inbox', Failures)
        PROVE  /\ Overtaken /\ ussd.open
               /\ Precedes(ussd'.outbox, {"cancel"}, Dialling)
               /\ Has(ussd.outbox, Dialling) => Has(ussd'.outbox, Dialling)
               /\ \/ Has(ussd.outbox, Dialling) \/ working = "initiate"
                  \/ /\ Precedes(inbox', Answers({"cancel"}), Answers(Dialling))
                     /\ m \in Answers({"cancel"}) => Has(inbox', Answers(Dialling))
    <3>1. ~Has(inbox, Failures) /\ ussd.open
      BY <1>4, <2>3, <2>9
    <3>2. Overtaken
      BY <1>1, <2>9, <3>1
    <3>3. Precedes(ussd'.outbox, {"cancel"}, Dialling)
      BY <2>3, <2>8, <2>9, <3>2 DEF Overtaken
    <3>4. Has(ussd.outbox, Dialling) => Has(ussd'.outbox, Dialling)
      BY <2>3, <2>8, <2>9
    <3>5. Precedes(inbox, Answers({"cancel"}), Answers(Dialling)) =>
            /\ Precedes(inbox', Answers({"cancel"}), Answers(Dialling))
            /\ m \in Answers({"cancel"}) => Has(inbox', Answers(Dialling))
      BY <1>2, <1>3, PrecedesTail
    <3> QED BY <3>1, <3>2, <3>3, <3>4, <3>5 DEF Overtaken
  <2>10. service' = "ofono" /\ ussd'.open /\ ~Has(inbox, Failures)' => Overtaken'
    <3>1. service = "ofono" /\ ussd'.open /\ ~Has(inbox', Failures) =>
            /\ Precedes(ussd'.outbox, {"cancel"}, Dialling)
            /\ \/ Has(ussd'.outbox, Dialling) \/ working' = "initiate"
               \/ Precedes(inbox', Answers({"cancel"}), Answers(Dialling))
      BY <1>2, <2>9
    <3> QED BY <1>2, <2>7, <3>1 DEF Overtaken, Precedes
  <2>11. ASSUME ussd'.open, ~Awaiting'
         PROVE  IF service = "mm" THEN Shows(ussd') ELSE Asks(ussd')
    <3>1. ~Has(ussd'.outbox, Dialling) /\ working # "initiate" /\ ~Has(inbox', Answers(Dialling))
      BY <1>2, <2>7, <2>11 DEF Awaiting
    <3>2. m \in Answers(Dialling) <=> m.what \in Dialling
      BY <1>6 DEF Answers
    <3>3. m.what \notin Dialling => (Awaiting <=> Has(ussd.outbox, Dialling))
      BY <1>4, <3>1, <3>2 DEF Awaiting
    <3>4. CASE m.what = "cancel"
      <4>1. ussd'.open = ussd.open /\ ussd'.outbox = ussd.outbox /\ (service = "mm" => ussd' = ussd)
        BY <2>3, <2>11, <3>4 DEF Dialling
      <4>2. CASE service = "mm"
        BY <1>1, <2>11, <3>1, <3>3, <3>4, <4>1, <4>2 DEF Dialling
      <4>3. CASE service = "ofono"
        <5>1. ~Has(inbox', Failures) /\ m \in Answers({"cancel"})
          BY <1>6, <3>1, <3>4 DEF Has, Failures, Answers
        <5> QED BY <2>9, <2>11, <3>1, <4>1, <4>3, <5>1
      <4> QED BY <1>2, <4>2, <4>3
    <3>5. CASE m.what # "cancel"
      <4>1. /\ m.what \notin {"cancel", "reinitiate"} /\ ussd'.open = ussd.open /\ ussd'.outbox = ussd.outbox
            /\ m.what = "initiate" \/ Shows(ussd) => Shows(ussd')
            /\ service = "ofono" /\ (m.what = "initiate" \/ Asks(ussd)) => Asks(ussd')
        BY <2>3, <2>8, <2>11, <3>1, <3>5
      <4>2. m.what = "initiate" \/ ~Awaiting
        BY <2>1, <3>1, <3>3, <4>1 DEF Dialling, UssdRequest
      <4> QED BY <1>1, <1>2, <2>11, <4>1, <4>2
    <3> QED BY <3>4, <3>5
  <2> QED BY <1>1, <1>2, <2>4, <2>5, <2>6, <2>7, <2>10, <2>11 DEF UssdInv
<1> QED BY <1>5, <1>6 DEF Message

LEMMA UssdUsed ==
  ASSUME UssdInv, DialCode \/ Reply \/ Leave
  PROVE  UssdInv'
<1>1. /\ UssdTypeOK /\ (session = "ACTIVE" <=> working # "none")
      /\ service = "mm" => Told(inbox, ussd.state, session)
      /\ service = "ofono" =>
           ~Has(inbox, StateMessage) /\ (ussd.open /\ ~Has(inbox, Failures) => Overtaken)
      /\ ussd.open /\ ~Awaiting => IF service = "mm" THEN Shows(ussd) ELSE Asks(ussd)
  BY DEF UssdInv
<1>2. /\ inbox \in Seq(Message) /\ ussd \in UssdRecord /\ ussd.outbox \in Seq(UssdRequest)
      /\ service \in {"mm", "ofono"}
      /\ UNCHANGED <<service, session, working>>
  BY <1>1 DEF UssdTypeOK, UssdRecord, DialCode, Reply, Leave
\* What was asked follows what was asked before.
<1>3. ASSUME NEW r \in UssdRequest
      PROVE  /\ Has(Append(ussd.outbox, r), Dialling) <=> Has(ussd.outbox, Dialling) \/ r \in Dialling
             /\ r # "cancel" /\ Precedes(ussd.outbox, {"cancel"}, Dialling)
                  => Precedes(Append(ussd.outbox, r), {"cancel"}, Dialling)
             /\ r \in Dialling => Precedes(Append(ussd.outbox, r), {"cancel"}, Dialling)
  <2>1. r \in Dialling => r \in Dialling \ {"cancel"}
    BY DEF Dialling
  <2> QED BY <1>2, <2>1, OneMoreHas
<1>4. CASE Leave
  <2>1. inbox' = inbox
    BY <1>4 DEF Leave
  <2>2. ussd' \in UssdRecord /\ ~ussd'.open /\ ussd'.state = ussd.state
    <3>1. CASE ussd' = CloseDialog(CancelSession(ussd))
      <4>1. CancelSession(ussd) \in UssdRecord /\ CancelSession(ussd).state = ussd.state
        BY <1>2, Cancelling
      <4> QED BY <3>1, <4>1, Closing
    <3>2. CASE ussd' = CloseDialog(ussd)
      BY <1>2, <3>2, Closing
    <3> QED BY <1>4, <3>1, <3>2 DEF Leave
  <2>3. UssdTypeOK'
    BY <1>1, <1>2, <2>1, <2>2 DEF UssdTypeOK
  <2>4. service' = "mm" => Told(inbox, ussd.state, session)'
    BY <1>1, <1>2, <2>1, <2>2 DEF Told, Has
  <2>5. service' = "ofono" => ~Has(inbox, StateMessage)'
    BY <1>1, <1>2, <2>1 DEF Has
  <2> QED BY <1>1, <1>2, <2>2, <2>3, <2>4, <2>5 DEF UssdInv
<1>5. CASE Reply
  <2>1. /\ inbox' = inbox /\ ussd.open /\ "respond" \in UssdRequest /\ "respond" \notin Dialling \union {"cancel"}
        /\ ussd' = Ask(ussd, "respond")
    BY <1>5 DEF Reply, UssdRequest, Dialling
  <2>2. /\ ussd' \in UssdRecord /\ ussd'.open = ussd.open /\ ussd'.state = ussd.state
        /\ ussd'.reply = ussd.reply /\ ussd'.cancel = ussd.cancel
        /\ ussd'.outbox = Append(ussd.outbox, "respond")
    BY <1>2, <2>1, Asking
  <2>3. UssdTypeOK'
    BY <1>1, <1>2, <2>1, <2>2 DEF UssdTypeOK
  <2>4. service' = "mm" => Told(inbox, ussd.state, session)'
    BY <1>1, <1>2, <2>1, <2>2 DEF Told, Has
  <2>5. service' = "ofono" => ~Has(inbox, StateMessage)'
    BY <1>1, <1>2, <2>1 DEF Has
  <2>6. /\ Has(ussd'.outbox, Dialling) <=> Has(ussd.outbox, Dialling)
        /\ Precedes(ussd.outbox, {"cancel"}, Dialling) => Precedes(ussd'.outbox, {"cancel"}, Dialling)
    BY <1>3, <2>1, <2>2
  <2>7. service' = "ofono" /\ ussd'.open /\ ~Has(inbox, Failures)' => Overtaken'
    <3>1. ~Has(inbox, Failures)' => ~Has(inbox, Failures)
      BY <2>1 DEF Has
    <3>2. Overtaken => Overtaken'
      BY <1>2, <2>1, <2>6 DEF Overtaken, Precedes, Has
    <3> QED BY <1>1, <1>2, <2>1, <2>2, <3>1, <3>2
  <2>8. ussd'.open /\ ~Awaiting' => IF service' = "mm" THEN Shows(ussd)' ELSE Asks(ussd)'
    <3>1. Awaiting => Awaiting'
      BY <1>2, <2>1, <2>6 DEF Awaiting, Has
    <3> QED BY <1>1, <1>2, <2>1, <2>2, <3>1 DEF Shows, Asks
  <2> QED BY <1>1, <1>2, <2>3, <2>4, <2>5, <2>7, <2>8 DEF UssdInv
<1>6. CASE DialCode
  <2>1. PICK d : /\ d = [ussd EXCEPT !.cancel = FALSE, !.reply = FALSE, !.content = FALSE, !.open = TRUE]
                 /\ \/ ussd' = Initiate(d) /\ UNCHANGED inbox
                    \/ ussd' = d /\ inbox' = NotSent
    BY <1>6 DEF DialCode
  <2>2. d \in UssdRecord /\ d.state = ussd.state /\ d.outbox = ussd.outbox
    BY <1>2, <2>1 DEF UssdRecord
  <2>3. CASE ussd' = Initiate(d) /\ UNCHANGED inbox
    <3>1. /\ ussd' \in UssdRecord /\ (service = "mm" => ussd'.state = ussd.state)
          /\ \E r \in Dialling : ussd'.outbox = Append(ussd.outbox, r)
      BY <1>2, <2>2, <2>3, Initiating
    <3>2. /\ Has(ussd'.outbox, Dialling)
          /\ Precedes(ussd'.outbox, {"cancel"}, Dialling)
      BY <1>3, <3>1 DEF Dialling, UssdRequest
    <3>3. UssdTypeOK'
      BY <1>1, <1>2, <2>3, <3>1 DEF UssdTypeOK
    <3>4. service' = "mm" => Told(inbox, ussd.state, session)'
      BY <1>1, <1>2, <2>3, <3>1 DEF Told, Has
    <3>5. service' = "ofono" => ~Has(inbox, StateMessage)'
      BY <1>1, <1>2, <2>3 DEF Has
    <3>6. Overtaken' /\ Awaiting'
      BY <3>2 DEF Overtaken, Awaiting, Has, Precedes
    <3> QED BY <1>1, <1>2, <3>3, <3>4, <3>5, <3>6 DEF UssdInv
  <2>4. CASE ussd' = d /\ inbox' = NotSent
    <3>1. PICK m \in Failures : inbox' = Append(inbox, m)
      <4>1. [what |-> "initiate", ok |-> FALSE, text |-> FALSE] \in Failures
        BY DEF Failures, Answers, AnswerMessage, Dialling, UssdRequest
      <4> QED BY <2>4, <4>1 DEF NotSent
    <3>2. m \in Message /\ m \notin StateMessage /\ m \in Answers(Dialling)
      BY Apart DEF Failures, Answers, Message
    <3>3. /\ inbox' \in Seq(Message) /\ inbox' = inbox \o <<m>> /\ <<m>> \in Seq(Message)
          /\ \A S : Has(<<m>>, S) <=> m \in S
      BY <1>2, <3>1, <3>2, OneMore
    <3>4. \A S : Has(inbox', S) <=> Has(inbox, S) \/ m \in S
      BY <1>2, <3>3, HasMore
    <3>5. UssdTypeOK'
      BY <1>1, <1>2, <2>2, <2>4, <3>3 DEF UssdTypeOK
    <3>6. service' = "mm" => Told(inbox, ussd.state, session)'
      <4>1. service = "mm" => Told(inbox \o <<m>>, ussd.state, session)
        BY <1>1, <1>2, <3>2, <3>3, ToldMore
      <4>2. service = "mm" => Told(inbox', ussd'.state, session)
        BY <2>2, <2>4, <3>3, <4>1
      <4> QED BY <1>2, <4>2 DEF Told, Has
    <3>7. service' = "ofono" => ~Has(inbox, StateMessage)'
      <4>1. service = "ofono" => ~Has(inbox', StateMessage)
        BY <1>1, <3>2, <3>4
      <4> QED BY <1>2, <4>1 DEF Has
    <3>8. Has(inbox, Failures)' /\ Awaiting'
      <4>1. Has(inbox', Failures) /\ Has(inbox', Answers(Dialling))
        BY <3>2, <3>4
      <4> QED BY <4>1 DEF Awaiting, Has
    <3> QED BY <1>1, <1>2, <3>5, <3>6, <3>7, <3>8 DEF UssdInv
  <2> QED BY <2>1, <2>3, <2>4
<1> QED BY <1>4, <1>5, <1>6

\* A step of the service or of the network, which sends t, of which the answers
\* are a, and leaves q of what the program asked.
LEMMA UssdTold ==
  ASSUME UssdInv, service' = service,
         session' \in SessionState \ {"UNKNOWN"}, working' \in {"none", "initiate", "respond"},
         session' = "ACTIVE" <=> working' # "none",
         NEW a \in Seq(AnswerMessage), NEW t \in Seq(Message), \A S : Has(a, S) => Has(t, S),
         inbox' = inbox \o t,
         NEW q \in Seq(UssdRequest), ussd' = [ussd EXCEPT !.outbox = q],
         Precedes(ussd.outbox, {"cancel"}, Dialling) => Precedes(q, {"cancel"}, Dialling),
         service = "ofono" => t = a,
         service = "mm" =>
           \/ session' = session /\ t = a
           \/ Has(t, StateMessage) /\ \A k \in DOMAIN t : t[k] \in StateMessage => t[k].state = session',
         Awaiting => \/ Has(q, Dialling) \/ working' = "initiate"
                     \/ Has(inbox, Answers(Dialling)) \/ Has(a, Answers(Dialling)),
         service = "ofono" /\ Overtaken =>
           \/ Has(a, Failures) \/ Has(q, Dialling) \/ working' = "initiate"
           \/ a # <<>> /\ a[Len(a)] \in Answers(Dialling)
           \/ ~Has(ussd.outbox, Dialling) /\ working # "initiate" /\ ~Has(a, Answers({"cancel"}))
  PROVE  UssdInv'
<1>1. /\ UssdTypeOK
      /\ service = "mm" => Told(inbox, ussd.state, session)
      /\ service = "ofono" =>
           ~Has(inbox, StateMessage) /\ (ussd.open /\ ~Has(inbox, Failures) => Overtaken)
      /\ ussd.open /\ ~Awaiting => IF service = "mm" THEN Shows(ussd) ELSE Asks(ussd)
      /\ inbox \in Seq(Message) /\ ussd \in UssdRecord /\ service \in {"mm", "ofono"}
  BY DEF UssdInv, UssdTypeOK
<1>2. /\ ussd' \in UssdRecord /\ ussd'.outbox = q /\ ussd'.open = ussd.open /\ ussd'.state = ussd.state
      /\ ussd'.reply = ussd.reply /\ ussd'.cancel = ussd.cancel
  BY <1>1 DEF UssdRecord
<1>3. /\ inbox' \in Seq(Message)
      /\ \A S : Has(inbox', S) <=> Has(inbox, S) \/ Has(t, S)
  BY <1>1, HasMore
<1>4. ~Has(a, StateMessage)
  <2>1. \A i \in DOMAIN a : a[i] \in AnswerMessage
    OBVIOUS
  <2> QED BY <2>1, Apart DEF Has
<1>5. UssdTypeOK'
  BY <1>1, <1>2, <1>3 DEF UssdTypeOK
<1>6. service' = "mm" => Told(inbox, ussd.state, session)'
  <2>1. service = "mm" => Told(inbox \o t, ussd.state, session')
    BY <1>1, <1>4, ToldMore
  <2> QED BY <1>2, <2>1 DEF Told, Has
<1>7. service' = "ofono" => ~Has(inbox, StateMessage)'
  <2>1. service = "ofono" => ~Has(inbox', StateMessage)
    BY <1>1, <1>3, <1>4
  <2> QED BY <2>1 DEF Has
<1>8. service' = "ofono" /\ ussd'.open /\ ~Has(inbox, Failures)' => Overtaken'
  <2>1. ASSUME service = "ofono", ussd'.open, ~Has(inbox', Failures)
        PROVE  /\ Precedes(q, {"cancel"}, Dialling)
               /\ \/ Has(q, Dialling) \/ working' = "initiate"
                  \/ Precedes(inbox', Answers({"cancel"}), Answers(Dialling))
    <3>1. ~Has(inbox, Failures) /\ ~Has(a, Failures)
      BY <1>3, <2>1
    <3>2. Overtaken
      BY <1>1, <1>2, <2>1, <3>1
    <3>3. /\ Precedes(inbox, Answers({"cancel"}), Answers(Dialling)) /\ ~Has(a, Answers({"cancel"}))
               => Precedes(inbox', Answers({"cancel"}), Answers(Dialling))
          /\ a # <<>> /\ a[Len(a)] \in Answers(Dialling) \ Answers({"cancel"})
               => Precedes(inbox', Answers({"cancel"}), Answers(Dialling))
      BY <1>1, <2>1, PrecedesMore
    <3>4. Answers(Dialling) \ Answers({"cancel"}) = Answers(Dialling)
      BY DEF Answers, Dialling
    <3> QED BY <2>1, <3>1, <3>2, <3>3, <3>4 DEF Overtaken
  <2>2. Has(inbox, Failures)' <=> Has(inbox', Failures)
    BY DEF Has
  <2> QED BY <1>2, <2>1, <2>2 DEF Overtaken, Precedes, Has
<1>9. ussd'.open /\ ~Awaiting' => IF service' = "mm" THEN Shows(ussd)' ELSE Asks(ussd)'
  <2>1. /\ Has(ussd.outbox, Dialling)' <=> Has(q, Dialling)
        /\ Has(inbox, Answers(Dialling))' <=> Has(inbox', Answers(Dialling))
    BY <1>2 DEF Has
  <2>2. Awaiting => Awaiting'
    BY <1>3, <2>1 DEF Awaiting
  <2> QED BY <1>1, <1>2, <2>2 DEF Shows, Asks
<1> QED BY <1>5, <1>6, <1>7, <1>8, <1>9 DEF UssdInv

\* An answer, as a sequence of messages.
LEMMA Answered1 ==
  ASSUME NEW r \in UssdRequest, NEW ok \in BOOLEAN, NEW text \in BOOLEAN
  PROVE  LET a == Answer(r, ok, text)
         IN  /\ a \in Seq(AnswerMessage) /\ a # <<>>
             /\ \A R : Has(a, Answers(R)) <=> r \in R
             /\ \A R : r \in R => a[Len(a)] \in Answers(R)
             /\ r \in Dialling /\ ~ok => Has(a, Failures)
<1>1. PICK m : m = [what |-> r, ok |-> ok, text |-> text]
  OBVIOUS
<1>2. /\ m \in AnswerMessage
      /\ \A R : m \in Answers(R) <=> r \in R
      /\ r \in Dialling /\ ~ok => m \in Failures
  BY <1>1 DEF AnswerMessage, Answers, Failures
<1>3. Answer(r, ok, text) = <<m>>
  BY <1>1 DEF Answer
<1>4. /\ <<m>> \in Seq(AnswerMessage) /\ <<m>> # <<>> /\ <<m>>[Len(<<m>>)] = m
      /\ \A S : Has(<<m>>, S) <=> m \in S
  <2>1. <<>> \in Seq(AnswerMessage)
    OBVIOUS
  <2> QED BY <1>2, <2>1, OneMore
<1> QED BY <1>2, <1>3, <1>4

LEMMA UssdServes ==
  ASSUME UssdInv, Serve
  PROVE  UssdInv'
<1>1. /\ service \in {"mm", "ofono"} /\ session \in SessionState \ {"UNKNOWN"}
      /\ working \in {"none", "initiate", "respond"} /\ (session = "ACTIVE" <=> working # "none")
      /\ ussd \in UssdRecord
      /\ ussd.outbox \in Seq(UssdRequest) /\ ussd.outbox # <<>>
      /\ service' = service
  BY DEF UssdInv, UssdTypeOK, UssdRecord, Serve
<1>2. PICK r \in UssdRequest, q \in Seq(UssdRequest) :
        /\ r = Head(ussd.outbox) /\ q = Tail(ussd.outbox)
        /\ ussd' = [ussd EXCEPT !.outbox = q]
  BY <1>1, HasTail DEF Serve
<1>3. /\ Has(ussd.outbox, Dialling) <=> r \in Dialling \/ Has(q, Dialling)
      /\ Precedes(ussd.outbox, {"cancel"}, Dialling) =>
           Precedes(q, {"cancel"}, Dialling) /\ (r = "cancel" => Has(q, Dialling))
  BY <1>1, <1>2, HasTail, PrecedesTail
<1>4. Overtaken => Precedes(ussd.outbox, {"cancel"}, Dialling)
  BY DEF Overtaken
<1>5. <<>> \in Seq(AnswerMessage) /\ <<>> \in Seq(Message) /\ \A S : ~Has(<<>>, S)
  BY DEF Has
<1>6. r \notin Dialling \union {"cancel"} <=> r = "respond"
  BY DEF Dialling, UssdRequest
<1>7. PICK wanted :
        /\ wanted = CASE r = "initiate" -> "IDLE"
                      [] r = "respond"  -> "USER_RESPONSE"
                      [] OTHER          -> session
        /\ \/ /\ r \in {"initiate", "respond"} /\ session = wanted
              /\ session' = "ACTIVE" /\ working' = r
              /\ \E t \in Tells(<<>>, "ACTIVE") : inbox' = inbox \o t
           \/ /\ r \in {"initiate", "respond"} => session # wanted
              /\ inbox' = inbox \o Answer(r, FALSE, FALSE)
              /\ UNCHANGED <<session, working>>
           \/ /\ r \in {"cancel", "reinitiate"}
              /\ session' = "IDLE" /\ working' = "none"
              /\ \E t \in Tells((IF working = "none" THEN <<>> ELSE Answer(working, FALSE, FALSE))
                                  \o Answer(r, TRUE, FALSE), "IDLE") : inbox' = inbox \o t
  BY <1>2 DEF Serve
<1>8. CASE /\ r \in {"initiate", "respond"} /\ session = wanted
           /\ session' = "ACTIVE" /\ working' = r
           /\ \E t \in Tells(<<>>, "ACTIVE") : inbox' = inbox \o t
  <2>1. PICK t \in Tells(<<>>, "ACTIVE") : inbox' = inbox \o t
    BY <1>8
  <2>2. working = "none"
    BY <1>1, <1>7, <1>8
  <2>3. "ACTIVE" \in SessionState \ {"UNKNOWN"}
    BY DEF SessionState
  <2>4. /\ t \in Seq(Message)
        /\ \A S : Has(<<>>, S) => Has(t, S)
        /\ service = "ofono" => t = <<>>
        /\ service = "mm" =>
             Has(t, StateMessage) /\ \A k \in DOMAIN t : t[k] \in StateMessage => t[k].state = "ACTIVE"
    BY <1>1, <1>5, <2>3, Telling
  <2>5. /\ Awaiting => Has(q, Dialling) \/ working' = "initiate" \/ Has(inbox, Answers(Dialling))
        /\ service = "ofono" /\ Overtaken =>
             Has(q, Dialling) \/ working' = "initiate" \/ ~Has(ussd.outbox, Dialling)
    BY <1>3, <1>6, <1>8, <2>2 DEF Awaiting
  <2> QED BY <1>1, <1>2, <1>3, <1>4, <1>5, <1>8, <2>1, <2>2, <2>3, <2>4, <2>5, UssdTold
<1>9. CASE /\ inbox' = inbox \o Answer(r, FALSE, FALSE)
           /\ UNCHANGED <<session, working>>
  <2>1. PICK a : a = Answer(r, FALSE, FALSE)
    OBVIOUS
  <2>2. /\ a \in Seq(AnswerMessage) /\ a # <<>>
        /\ Has(a, Answers(Dialling)) <=> r \in Dialling
        /\ Has(a, Answers({"cancel"})) <=> r = "cancel"
        /\ r \in Dialling => Has(a, Failures)
    <3>1. /\ a \in Seq(AnswerMessage) /\ a # <<>>
          /\ \A R : Has(a, Answers(R)) <=> r \in R
          /\ r \in Dialling => Has(a, Failures)
      BY <2>1, Answered1
    <3>2. Has(a, Answers(Dialling)) <=> r \in Dialling
      BY <3>1
    <3>3. Has(a, Answers({"cancel"})) <=> r \in {"cancel"}
      BY <3>1
    <3> QED BY <3>1, <3>2, <3>3
  <2>3. a \in Seq(Message)
    BY <2>2 DEF Message
  <2>4. /\ Awaiting => \/ Has(q, Dialling) \/ working' = "initiate"
                       \/ Has(inbox, Answers(Dialling)) \/ Has(a, Answers(Dialling))
        /\ service = "ofono" /\ Overtaken =>
             \/ Has(a, Failures) \/ Has(q, Dialling) \/ working' = "initiate"
             \/ ~Has(ussd.outbox, Dialling) /\ working # "initiate" /\ ~Has(a, Answers({"cancel"}))
    BY <1>3, <1>4, <1>9, <2>2 DEF Awaiting
  <2> QED BY <1>1, <1>2, <1>3, <1>9, <2>1, <2>2, <2>3, <2>4, UssdTold
<1>10. CASE /\ r \in {"cancel", "reinitiate"}
            /\ session' = "IDLE" /\ working' = "none"
            /\ \E t \in Tells((IF working = "none" THEN <<>> ELSE Answer(working, FALSE, FALSE))
                                \o Answer(r, TRUE, FALSE), "IDLE") : inbox' = inbox \o t
  <2>1. PICK b, c : b = (IF working = "none" THEN <<>> ELSE Answer(working, FALSE, FALSE)) /\ c = Answer(r, TRUE, FALSE)
    OBVIOUS
  <2>2. /\ c \in Seq(AnswerMessage) /\ c # <<>>
        /\ r \in Dialling => Has(c, Answers(Dialling)) /\ c[Len(c)] \in Answers(Dialling)
    BY <2>1, Answered1
  <2>3. /\ b \in Seq(AnswerMessage)
        /\ working = "initiate" => Has(b, Failures)
    <3>1. CASE working = "none"
      BY <1>5, <2>1, <3>1
    <3>2. CASE working # "none"
      BY <1>1, <2>1, <3>2, Answered1 DEF UssdRequest, Dialling
    <3> QED BY <3>1, <3>2
  <2>4. PICK a \in Seq(AnswerMessage) : a = b \o c /\ a # <<>> /\ a[Len(a)] = c[Len(c)]
    <3>1. b \o c \in Seq(AnswerMessage) /\ b \o c # <<>> /\ (b \o c)[Len(b \o c)] = c[Len(c)]
      BY <2>2, <2>3
    <3> QED BY <3>1
  <2>5. \A S : Has(a, S) <=> Has(b, S) \/ Has(c, S)
    BY <2>2, <2>3, <2>4, HasMore
  <2>6. PICK t \in Tells(a, "IDLE") : inbox' = inbox \o t
    BY <1>10, <2>1, <2>4
  <2>7. "IDLE" \in SessionState \ {"UNKNOWN"}
    BY DEF SessionState
  <2>8. /\ t \in Seq(Message)
        /\ \A S : Has(a, S) => Has(t, S)
        /\ service = "ofono" => t = a
        /\ service = "mm" =>
             Has(t, StateMessage) /\ \A k \in DOMAIN t : t[k] \in StateMessage => t[k].state = "IDLE"
    BY <1>1, <2>7, Telling
  <2>9. Has(b, Failures) => Has(a, Failures) /\ Has(a, Answers(Dialling))
    BY <2>5 DEF Has, Failures
  <2>10. /\ Awaiting => \/ Has(q, Dialling) \/ Has(inbox, Answers(Dialling)) \/ Has(a, Answers(Dialling))
         /\ service = "ofono" /\ Overtaken =>
              \/ Has(a, Failures) \/ Has(q, Dialling)
              \/ a # <<>> /\ a[Len(a)] \in Answers(Dialling)
    BY <1>3, <1>4, <1>10, <2>2, <2>3, <2>4, <2>5, <2>9 DEF Awaiting, Dialling
  <2> QED BY <1>1, <1>2, <1>3, <1>10, <2>6, <2>7, <2>8, <2>10, UssdTold
<1> QED BY <1>7, <1>8, <1>9, <1>10

LEMMA UssdNetwork ==
  ASSUME UssdInv, NetworkAnswers \/ NetworkActs
  PROVE  UssdInv'
<1>1. /\ service \in {"mm", "ofono"} /\ session \in SessionState \ {"UNKNOWN"}
      /\ working \in {"none", "initiate", "respond"} /\ (session = "ACTIVE" <=> working # "none")
      /\ ussd \in UssdRecord /\ UNCHANGED <<service, ussd>>
  BY DEF UssdInv, UssdTypeOK, NetworkAnswers, NetworkActs
<1>2. PICK q \in Seq(UssdRequest) : q = ussd.outbox /\ ussd' = [ussd EXCEPT !.outbox = q]
  BY <1>1 DEF UssdRecord
<1>3. <<>> \in Seq(AnswerMessage) /\ \A S : ~Has(<<>>, S)
  BY DEF Has
<1>4. /\ Awaiting => Has(q, Dialling) \/ working = "initiate" \/ Has(inbox, Answers(Dialling))
      /\ Has(q, Dialling) <=> Has(ussd.outbox, Dialling)
  BY <1>2 DEF Awaiting
<1>5. CASE NetworkActs
  <2>1. /\ working = "none" /\ working' = "none"
        /\ session' \in SessionState \ {"UNKNOWN", "ACTIVE"}
    BY <1>5 DEF NetworkActs, SessionState
  <2>2. PICK t \in Tells(<<>>, session') : inbox' = inbox \o t
    BY <1>5 DEF NetworkActs
  <2>3. /\ t \in Seq(Message)
        /\ \A S : Has(<<>>, S) => Has(t, S)
        /\ service = "ofono" => t = <<>>
        /\ service = "mm" =>
             Has(t, StateMessage) /\ \A k \in DOMAIN t : t[k] \in StateMessage => t[k].state = session'
    BY <1>1, <1>3, <2>1, Telling
  <2> QED BY <1>1, <1>2, <1>3, <1>4, <2>1, <2>2, <2>3, UssdTold
<1>6. CASE NetworkAnswers
  <2>1. PICK ok \in BOOLEAN, text \in BOOLEAN, s \in {"IDLE", "USER_RESPONSE"} :
          session' = s /\ \E t \in Tells(Answer(working, ok, text), s) : inbox' = inbox \o t
    BY <1>6 DEF NetworkAnswers
  <2>2. working # "none" /\ working' = "none" /\ s \in SessionState \ {"UNKNOWN"} /\ working \in UssdRequest
    BY <1>1, <1>6 DEF NetworkAnswers, SessionState, UssdRequest
  <2>3. PICK a : a = Answer(working, ok, text)
    OBVIOUS
  <2>4. /\ a \in Seq(AnswerMessage) /\ a # <<>>
        /\ working = "initiate" => Has(a, Answers(Dialling)) /\ a[Len(a)] \in Answers(Dialling)
        /\ working # "initiate" => ~Has(a, Answers({"cancel"}))
    <3>1. /\ a \in Seq(AnswerMessage) /\ a # <<>>
          /\ \A R : Has(a, Answers(R)) <=> working \in R
          /\ \A R : working \in R => a[Len(a)] \in Answers(R)
      BY <2>2, <2>3, Answered1
    <3> QED BY <1>1, <3>1 DEF Dialling
  <2>5. PICK t \in Tells(a, s) : inbox' = inbox \o t
    BY <2>1, <2>3
  <2>6. /\ t \in Seq(Message)
        /\ \A S : Has(a, S) => Has(t, S)
        /\ service = "ofono" => t = a
        /\ service = "mm" =>
             Has(t, StateMessage) /\ \A k \in DOMAIN t : t[k] \in StateMessage => t[k].state = s
    BY <1>1, <2>2, <2>4, Telling
  <2>7. /\ Awaiting => \/ Has(q, Dialling) \/ working' = "initiate"
                       \/ Has(inbox, Answers(Dialling)) \/ Has(a, Answers(Dialling))
        /\ service = "ofono" /\ Overtaken =>
             \/ Has(q, Dialling)
             \/ a # <<>> /\ a[Len(a)] \in Answers(Dialling)
             \/ ~Has(ussd.outbox, Dialling) /\ working # "initiate" /\ ~Has(a, Answers({"cancel"}))
    BY <1>4, <2>4
  <2>8. /\ session' \in SessionState \ {"UNKNOWN"} /\ working' \in {"none", "initiate", "respond"}
        /\ session' = "ACTIVE" <=> working' # "none"
        /\ Precedes(ussd.outbox, {"cancel"}, Dialling) => Precedes(q, {"cancel"}, Dialling)
        /\ service' = service
        /\ service = "mm" =>
             Has(t, StateMessage) /\ \A k \in DOMAIN t : t[k] \in StateMessage => t[k].state = session'
    BY <1>1, <1>2, <2>1, <2>2, <2>6
  <2> QED BY <1>2, <2>4, <2>5, <2>6, <2>7, <2>8, UssdTold
<1> QED BY <1>5, <1>6

LEMMA UssdStarting == UssdInit => UssdInv
<1> SUFFICES ASSUME UssdInit
             PROVE  UssdInv
  OBVIOUS
<1>1. /\ service \in {"mm", "ofono"} /\ session = "IDLE" /\ working = "none" /\ inbox = <<>>
      /\ ussd = NoSession
  BY DEF UssdInit
<1>2. /\ ussd.outbox = <<>> /\ ussd.open = FALSE /\ ussd \in UssdRecord
      /\ service = "mm" => ussd.state = "IDLE"
  BY <1>1 DEF NoSession, UssdRecord, SessionState
<1>3. UssdTypeOK
  BY <1>1, <1>2 DEF UssdTypeOK, SessionState
<1>4. service = "mm" => Told(inbox, ussd.state, session)
  BY <1>1, <1>2 DEF Told
<1>5. ~Has(inbox, StateMessage)
  BY <1>1 DEF Has
<1> QED BY <1>1, <1>2, <1>3, <1>4, <1>5 DEF UssdInv

LEMMA UssdStepping == UssdInv /\ [UssdNext]_ussdVars => UssdInv'
<1>1. ASSUME UssdInv, UNCHANGED ussdVars
      PROVE  UssdInv'
  BY <1>1 DEF ussdVars, UssdInv, UssdTypeOK, Told, Has, Precedes, Overtaken, Awaiting, Shows, Asks
<1> QED BY <1>1, UssdReceives, UssdUsed, UssdServes, UssdNetwork DEF UssdNext

(***************************************************************************)
(* The program's idea of a USSD session, its dialog and the messages under  *)
(* way between it, the service and the network stay related as UssdInv      *)
(* says, however many codes and replies are sent.                           *)
(***************************************************************************)
THEOREM UssdInvariance == UssdSpec => []UssdInv
<1> QED BY UssdStarting, UssdStepping, PTL DEF UssdSpec

(***************************************************************************)
(* When everything that was asked is answered, the buttons of the open      *)
(* dialog are those of the state the session is in                          *)
(* (window_update_ussd_state()).                                            *)
(***************************************************************************)
THEOREM ButtonsFollowHolds == UssdSpec => []ButtonsFollow
<1>1. UssdInv => ButtonsFollow
  <2> SUFFICES ASSUME UssdInv, Quiet, ussd.open
               PROVE  /\ ussd.reply = (ussd.state = "USER_RESPONSE")
                      /\ ussd.cancel = (ussd.state \in {"USER_RESPONSE", "ACTIVE"})
                      /\ service = "mm" => ussd.state = session
    BY DEF ButtonsFollow
  <2>1. /\ ussd.outbox = <<>> /\ inbox = <<>> /\ working = "none"
        /\ service \in {"mm", "ofono"}
        /\ session # "ACTIVE"
        /\ ussd.open /\ ~Awaiting => IF service = "mm" THEN Shows(ussd) ELSE Asks(ussd)
    BY DEF Quiet, UssdInv, UssdTypeOK
  <2>2. ~Awaiting
    BY <2>1 DEF Awaiting, Has
  <2>3. service = "mm" => ussd.state = session
    BY <2>1 DEF UssdInv, Told, Has
  <2>4. CASE service = "mm"
    <3>1. Shows(ussd) /\ ussd.state # "ACTIVE"
      BY <2>1, <2>2, <2>3, <2>4
    <3> QED BY <2>3, <3>1 DEF Shows
  <2>5. CASE service = "ofono"
    <3>1. Asks(ussd) /\ ussd.reply \in BOOLEAN /\ ussd.cancel \in BOOLEAN
      BY <2>1, <2>2, <2>5 DEF UssdInv, UssdTypeOK, UssdRecord
    <3> QED BY <2>5, <3>1 DEF Asks
  <2> QED BY <2>1, <2>4, <2>5
<1> QED BY <1>1, UssdInvariance, PTL

-----------------------------------------------------------------------------
(* The inductive invariant of the contacts. *)

ListTypeOK ==
  /\ book \subseteq Contact /\ toAdd \subseteq Contact /\ toShow \subseteq Contact
  /\ gone \subseteq Contact \ book
  /\ listed \in [Contact -> Nat]

\* Who is still to come off the list has left the book, and a job that would
\* put someone on it who left was overtaken by that.
JobsKnown ==
  /\ toRemove \subseteq gone
  /\ (toAdd \union toShow) \intersect gone \subseteq overtaken

\* Each contact that should be on the list is, or some job is to put it there.
Expected ==
  /\ steady \subseteq book \union gone
  /\ book \intersect steady \subseteq numbered
  /\ box => \A i \in book \intersect steady : i \in toAdd \union toShow \/ listed[i] > 0

\* Who is on the list and left is still to come off it.
Unwanted == \A i \in Contact : i \in gone \ overtaken => i \in toRemove \/ listed[i] = 0

\* The match is what was told, and that of what the view found last.
MatchKnown ==
  /\ shown = matched
  /\ ~replaced => matched = First(found)
  /\ replaced => found = {}

ContactsInv == ListTypeOK /\ JobsKnown /\ Expected /\ Unwanted /\ MatchKnown

-----------------------------------------------------------------------------
(* The address book and the idle jobs. *)

LEMMA BookChanges ==
  ASSUME ContactsInv, Changed
  PROVE  ContactsInv'
<1>1. PICK left \in SUBSET book, came \in SUBSET (Contact \ (book \union gone)) :
        \E with \in SUBSET came :
          /\ book' = (book \ left) \union came
          /\ gone' = gone \union left
          /\ numbered' = numbered \union with
          /\ steady' = steady \union with
          /\ toRemove' = toRemove \union left
          /\ toAdd' = toAdd \union came
          /\ overtaken' = overtaken \union (left \intersect (toAdd \union toShow))
  BY DEF Changed
<1>2. PICK with \in SUBSET came :
        /\ book' = (book \ left) \union came
        /\ gone' = gone \union left
        /\ numbered' = numbered \union with
        /\ steady' = steady \union with
        /\ toRemove' = toRemove \union left
        /\ toAdd' = toAdd \union came
        /\ overtaken' = overtaken \union (left \intersect (toAdd \union toShow))
  BY <1>1
<1>3. /\ UNCHANGED <<toShow, box, listed, found, matched, shown, replaced>>
      /\ ListTypeOK /\ JobsKnown /\ Expected /\ Unwanted /\ MatchKnown
  BY DEF Changed, matchVars, ContactsInv
<1>4. ListTypeOK'
  BY <1>2, <1>3 DEF ListTypeOK
<1>5. JobsKnown'
  BY <1>2, <1>3 DEF JobsKnown, ListTypeOK
<1>6. Expected'
  <2>1. book' \intersect steady' \subseteq numbered' /\ steady' \subseteq book' \union gone'
    BY <1>2, <1>3 DEF Expected
  <2>2. ASSUME box, NEW i \in book' \intersect steady'
        PROVE  i \in toAdd' \union toShow' \/ listed'[i] > 0
    <3>1. i \in came \/ i \in book \intersect steady
      BY <1>2
    <3> QED BY <1>2, <1>3, <2>2, <3>1 DEF Expected
  <2> QED BY <1>3, <2>1, <2>2 DEF Expected
<1>7. Unwanted'
  BY <1>2, <1>3 DEF Unwanted
<1>8. MatchKnown'
  BY <1>3 DEF MatchKnown
<1> QED BY <1>4, <1>5, <1>6, <1>7, <1>8 DEF ContactsInv

LEMMA ContactAdded ==
  ASSUME ContactsInv, NEW i \in Contact, AddContact(i) \/ ShowContact(i)
  PROVE  ContactsInv'
<1>1. /\ UNCHANGED <<book, gone, numbered, toRemove, box, steady, overtaken, found, matched, shown, replaced>>
      /\ ListTypeOK /\ JobsKnown /\ Expected /\ Unwanted /\ MatchKnown
      /\ i \in toAdd \union toShow
      /\ toAdd' \union toShow' \subseteq toAdd \union toShow
      /\ \A k \in toAdd \union toShow : k # i => k \in toAdd' \union toShow'
      /\ listed' = [listed EXCEPT ![i] = @ + 1] \/ UNCHANGED listed
  BY DEF AddContact, ShowContact, BoxAdds, matchVars, ContactsInv
<1>2. box /\ i \in numbered => listed' = [listed EXCEPT ![i] = @ + 1]
  BY DEF AddContact, ShowContact, BoxAdds
<1>3. ListTypeOK'
  BY <1>1 DEF ListTypeOK
<1>4. JobsKnown'
  BY <1>1 DEF JobsKnown
<1>5. Expected'
  <2>1. ASSUME box, NEW k \in book \intersect steady
        PROVE  k \in toAdd' \union toShow' \/ listed'[k] > 0
    <3>1. k \in Contact /\ k \in numbered
      BY <1>1, <2>1 DEF ListTypeOK, Expected
    <3>2. k \in toAdd \union toShow \/ listed[k] > 0
      BY <1>1, <2>1 DEF Expected
    <3>3. CASE k # i
      BY <1>1, <3>1, <3>2, <3>3 DEF ListTypeOK
    <3>4. CASE k = i
      BY <1>1, <1>2, <2>1, <3>1, <3>4 DEF ListTypeOK
    <3> QED BY <3>3, <3>4
  <2> QED BY <1>1, <2>1 DEF Expected
<1>6. Unwanted'
  <2>1. ASSUME NEW k \in Contact, k \in gone \ overtaken
        PROVE  k \in toRemove \/ listed'[k] = 0
    <3>1. k # i
      BY <1>1, <2>1 DEF JobsKnown
    <3> QED BY <1>1, <2>1, <3>1 DEF Unwanted, ListTypeOK
  <2> QED BY <1>1, <2>1 DEF Unwanted
<1>7. MatchKnown'
  BY <1>1 DEF MatchKnown
<1> QED BY <1>3, <1>4, <1>5, <1>6, <1>7 DEF ContactsInv

LEMMA ContactRemoved ==
  ASSUME ContactsInv, NEW i \in Contact, RemoveContact(i)
  PROVE  ContactsInv'
<1>1. /\ UNCHANGED <<book, gone, numbered, toAdd, toShow, box, steady, overtaken, found, matched, shown, replaced>>
      /\ ListTypeOK /\ JobsKnown /\ Expected /\ Unwanted /\ MatchKnown
      /\ i \in toRemove /\ toRemove' = toRemove \ {i}
      /\ listed' = [listed EXCEPT ![i] = 0]
  BY DEF RemoveContact, Dropped, BoxRemoves, matchVars, ContactsInv
<1>2. i \notin book
  BY <1>1 DEF JobsKnown, ListTypeOK
<1>3. ListTypeOK'
  BY <1>1 DEF ListTypeOK
<1>4. JobsKnown'
  BY <1>1 DEF JobsKnown
<1>5. Expected'
  <2>1. \A k \in book : k \in Contact /\ listed'[k] = listed[k]
    BY <1>1, <1>2 DEF ListTypeOK
  <2> QED BY <1>1, <2>1 DEF Expected
<1>6. Unwanted'
  BY <1>1 DEF Unwanted, ListTypeOK
<1>7. MatchKnown'
  BY <1>1 DEF MatchKnown
<1> QED BY <1>3, <1>4, <1>5, <1>6, <1>7 DEF ContactsInv

LEMMA ContactChanges ==
  ASSUME ContactsInv, NEW i \in Contact, NumbersChange(i)
  PROVE  ContactsInv'
<1>1. /\ UNCHANGED <<book, gone, toAdd, toRemove, toShow, box, overtaken, found, matched, shown, replaced>>
      /\ ListTypeOK /\ JobsKnown /\ Expected /\ Unwanted /\ MatchKnown
      /\ i \in book
      /\ \A k \in numbered : k # i => k \in numbered'
      /\ steady' = steady \ {i}
      /\ listed' = [listed EXCEPT ![i] = 0] \/ UNCHANGED listed
  BY DEF NumbersChange, Dropped, BoxRemoves, matchVars, ContactsInv
<1>2. ListTypeOK'
  BY <1>1 DEF ListTypeOK
<1>3. JobsKnown'
  BY <1>1 DEF JobsKnown
<1>4. Expected'
  <2>1. \A k \in book \intersect steady' : k \in Contact /\ k # i /\ listed'[k] = listed[k]
    BY <1>1 DEF ListTypeOK
  <2> QED BY <1>1, <2>1 DEF Expected
<1>5. Unwanted'
  BY <1>1 DEF Unwanted, ListTypeOK
<1>6. MatchKnown'
  BY <1>1 DEF MatchKnown
<1> QED BY <1>2, <1>3, <1>4, <1>5, <1>6 DEF ContactsInv

LEMMA BoxOpens ==
  ASSUME ContactsInv, OpenBox
  PROVE  ContactsInv'
<1>1. /\ UNCHANGED <<book, gone, numbered, toAdd, toRemove, listed, steady, overtaken, found, matched, shown, replaced>>
      /\ ListTypeOK /\ JobsKnown /\ Expected /\ Unwanted /\ MatchKnown
      /\ toShow' = book
  BY DEF OpenBox, matchVars, ContactsInv
<1> QED BY <1>1 DEF ContactsInv, ListTypeOK, JobsKnown, Expected, Unwanted, MatchKnown

-----------------------------------------------------------------------------
(* The best match. *)

LEMMA MatchChanges ==
  ASSUME ContactsInv, ViewReports \/ CountryChanges
  PROVE  ContactsInv'
<1>1. /\ UNCHANGED <<book, gone, numbered, toAdd, toRemove, toShow, box, listed, steady, overtaken>>
      /\ ListTypeOK /\ JobsKnown /\ Expected /\ Unwanted /\ MatchKnown
  BY DEF ViewReports, CountryChanges, providerVars, ContactsInv
<1>2. MatchKnown'
  <2>1. CASE ViewReports
    <3>1. replaced' = FALSE /\ UpdateBestMatch
      BY <2>1 DEF ViewReports
    <3>2. matched' = First(found') /\ shown' = matched'
      BY <1>1, <3>1 DEF UpdateBestMatch, NotifyName, MatchKnown
    <3>3. First(found') = First(found)'
      BY DEF First
    <3> QED BY <3>1, <3>2, <3>3 DEF MatchKnown
  <2>2. CASE CountryChanges
    BY <1>1, <2>2 DEF CountryChanges, NewView, MatchKnown
  <2> QED BY <2>1, <2>2
<1> QED BY <1>1, <1>2 DEF ContactsInv, ListTypeOK, JobsKnown, Expected, Unwanted

-----------------------------------------------------------------------------
LEMMA ContactsStarting ==
  ASSUME ContactsInit
  PROVE  ContactsInv
BY DEF ContactsInit, ProviderInit, MatchInit, First, ContactsInv, ListTypeOK, JobsKnown, Expected,
       Unwanted, MatchKnown

LEMMA ContactsStuttering ==
  ASSUME ContactsInv, UNCHANGED contactsVars
  PROVE  ContactsInv'
<1>1. First(found)' = First(found)
  BY DEF First, contactsVars, matchVars
<1> QED BY <1>1 DEF contactsVars, providerVars, matchVars, ContactsInv, ListTypeOK, JobsKnown, Expected,
             Unwanted, MatchKnown

LEMMA ContactsStepping ==
  ASSUME ContactsInv, [ContactsNext]_contactsVars
  PROVE  ContactsInv'
<1>1. ASSUME NEW i \in Contact,
             AddContact(i) \/ RemoveContact(i) \/ ShowContact(i) \/ NumbersChange(i)
      PROVE  ContactsInv'
  BY <1>1, ContactAdded, ContactRemoved, ContactChanges
<1> QED BY <1>1, BookChanges, BoxOpens, MatchChanges, ContactsStuttering DEF ContactsNext

\* Whatever the address book reports, and however the jobs take turns with it,
\* each contact that should be on the list is there or in a job's hands, each
\* that left is off it or about to be, and the name told is that of the last
\* view.
THEOREM ContactsInvariance == ContactsSpec => []ContactsInv
<1>1. ContactsInit => ContactsInv
  BY ContactsStarting
<1>2. ContactsInv /\ [ContactsNext]_contactsVars => ContactsInv'
  BY ContactsStepping
<1> QED BY <1>1, <1>2, PTL DEF ContactsSpec

\* When the idle jobs are through, who has a number is on the list, and who
\* left is not, unless it left before it was there.
THEOREM Shown == ContactsSpec => []ContactsShown
<1>1. ASSUME ContactsInv, box, Queued = {}
      PROVE  /\ \A i \in book \intersect steady : listed[i] > 0
             /\ \A i \in gone \ overtaken : listed[i] = 0
  <2>1. toAdd = {} /\ toShow = {} /\ toRemove = {}
    BY <1>1 DEF Queued
  <2>2. \A i \in book \intersect steady : listed[i] > 0
    BY <1>1, <2>1 DEF ContactsInv, Expected
  <2>3. gone \subseteq Contact
    BY <1>1 DEF ContactsInv, ListTypeOK
  <2> QED BY <1>1, <2>1, <2>2, <2>3 DEF ContactsInv, Unwanted
<1>2. ContactsInv => ContactsShown
  BY <1>1 DEF ContactsShown
<1> QED BY <1>2, ContactsInvariance, PTL

\* When the view of a number has reported all it finds, the name its calls
\* show is that of the first contact that has the number.
THEOREM Named == ContactsSpec => []NameIsKnown
<1>1. ContactsInv => NameIsKnown
  BY DEF ContactsInv, MatchKnown, NameIsKnown
<1> QED BY <1>1, ContactsInvariance, PTL
=============================================================================
