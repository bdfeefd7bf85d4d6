---------------------------- MODULE MountKeeping ----------------------------
(***************************************************************************)
(* What sheds, certificates and the maintenance promise about a mount: it  *)
(* is kept by the character that bought it and by nobody else, a mount     *)
(* that is set adrift is never found again, and one that is gone does not  *)
(* come back.  The module Mounts implements this specification.            *)
(***************************************************************************)

CONSTANTS
    Mount,        \* the mounts that may ever be created
    Character,    \* who may keep one
    Unborn, Adrift, Gone   \* kept by nobody: not yet, no longer, deleted

VARIABLE keeper   \* who keeps each mount

KeepInit == keeper = [m \in Mount |-> Unborn]

\* Only an unborn mount finds a keeper.
Buy(m, c) ==
    /\ keeper[m] = Unborn
    /\ keeper' = [keeper EXCEPT ![m] = c]

\* Its keeper loses it, for good.
Lose(m) ==
    /\ keeper[m] \in Character
    /\ keeper' = [keeper EXCEPT ![m] = Adrift]

Delete(m) ==
    /\ keeper[m] \in Character \cup {Adrift}
    /\ keeper' = [keeper EXCEPT ![m] = Gone]

KeepNext ==
    \E m \in Mount : (\E c \in Character : Buy(m, c)) \/ Lose(m) \/ Delete(m)

KeepSpec == KeepInit /\ [][KeepNext]_keeper
=============================================================================
