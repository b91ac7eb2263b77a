------------------------------ MODULE Membership ------------------------------
(***************************************************************************)
(* What sharing a diary promises: a user is first granted membership of a  *)
(* diary, for good, and may then have the diary listed.  A list can be     *)
(* lost as a whole (the user document is written anew) but never names a   *)
(* diary the user was not granted.                                         *)
(***************************************************************************)
CONSTANTS Diaries, Users
VARIABLES granted, listed   \* sets of <<diary, user>>

mvars == <<granted, listed>>

Init == granted = {} /\ listed = {}

\* addDiary for its creator, addUser for a friend.
Grant(d, u) ==
    /\ granted' = granted \cup {<<d, u>>}
    /\ UNCHANGED listed

\* The diary enters the userDiaryList of a user it was granted to.
List(d, u) ==
    /\ <<d, u>> \in granted
    /\ listed' = listed \cup {<<d, u>>}
    /\ UNCHANGED granted

\* A fresh user document.
Forget(u) ==
    /\ listed' = {m \in listed : m[2] # u}
    /\ UNCHANGED granted

Next ==
    \/ \E d \in Diaries, u \in Users : Grant(d, u) \/ List(d, u)
    \/ \E u \in Users : Forget(u)

Spec == Init /\ [][Next]_mvars
===============================================================================
