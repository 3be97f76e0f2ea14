------------------------------- MODULE MCMedia -------------------------------
(***************************************************************************)
(* Two questions for one run: the media of a call, and the crypto lines of  *)
(* a media description.  They share no state, and only one moves.           *)
(***************************************************************************)
EXTENDS CallsMedia, CallsSrtp

VARIABLE studied

vars == <<studied, mediaVars, srtpVars>>

Init ==
  \/ studied = "media" /\ MediaInit /\ attr = NoAttr /\ line = PrintAttribute(NoAttr)
  \/ studied = "keys" /\ SrtpInit /\ MediaInit /\ agreed /\ preferred = CHOOSE o \in Orders : TRUE

Next ==
  \/ studied = "media" /\ MediaNext /\ UNCHANGED <<studied, srtpVars>>
  \/ studied = "keys" /\ SrtpNext /\ UNCHANGED <<studied, mediaVars>>

Spec == Init /\ [][Next]_vars /\ MediaFairness
=============================================================================
