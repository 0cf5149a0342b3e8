----------------------------- MODULE EventFeed -----------------------------
(***************************************************************************)
(* What the realtime layer promises to one browser tab: the committed      *)
(* events reach it in the order of their numbers and none is left out.     *)
(***************************************************************************)
EXTENDS Integers

VARIABLES
  committed, \* numbers of the committed events
  seen,      \* the highest number the tab has handled
  got        \* the events handed to the tab's onEvent

feedVars == <<committed, seen, got>>

Init == committed = {} /\ seen = 0 /\ got = {}

Publish ==
  /\ \A c \in committed : c \in committed'
  /\ \A s \in committed' \ committed : \A c \in committed : c < s
  /\ UNCHANGED <<seen, got>>

\* One or several events are handled at once, up to number s.
Handle ==
  /\ \E s \in committed :
       /\ s > seen
       /\ seen' = s
       /\ got' = got \cup {c \in committed : seen < c /\ c <= s}
  /\ UNCHANGED committed

Next == Publish \/ Handle

Spec == Init /\ [][Next]_feedVars
=============================================================================
