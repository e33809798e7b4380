------------------------------- MODULE SingleUse -------------------------------
(***************************************************************************)
(* What a guard against duplicates promises, without saying how: a token   *)
(* is taken at most once and for good, and the effect it stands for        *)
(* happens at most once, and only after the token was taken.  The          *)
(* idempotency claims of governed invocations, the operations that the     *)
(* workers of a run claim, the CODE_BUILD approvals and the tasks of the   *)
(* operator bridge implement it.                                           *)
(***************************************************************************)
CONSTANTS Tokens, Holders, Nobody

VARIABLES
  holder,  \* who took each token, or Nobody
  fired    \* the tokens whose effect has happened

vars == <<holder, fired>>

Init ==
  /\ holder = [t \in Tokens |-> Nobody]
  /\ fired = {}

Take(t) ==
  /\ holder[t] = Nobody
  /\ \E h \in Holders : holder' = [holder EXCEPT ![t] = h]
  /\ UNCHANGED fired

Fire(t) ==
  /\ holder[t] # Nobody
  /\ t \notin fired
  /\ fired' = fired \cup {t}
  /\ UNCHANGED holder

Next == \E t \in Tokens : Take(t) \/ Fire(t)

Spec == Init /\ [][Next]_vars
=============================================================================
