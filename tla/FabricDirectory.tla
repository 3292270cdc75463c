--------------------------- MODULE FabricDirectory ---------------------------
(***************************************************************************)
(* What the persistent part of the fabric table promises to administrators *)
(* (src/src/credentials/FabricTable.h, CommitPendingFabricData and Init):  *)
(* for every fabric index, either a complete operational credential is     *)
(* installed or nothing is, whatever the moment the device restarts.       *)
(*                                                                         *)
(* A commit puts one index in doubt, settles it to the new credential or   *)
(* to nothing, and touches no other index.  A fabric can also be removed.  *)
(* A restart is not a step of this specification: it changes nothing here. *)
(***************************************************************************)
EXTENDS Integers

CONSTANTS
    Indices,        \* the fabric indices
    Credentials,    \* the credentials whose key and certificates belong together
    Nothing         \* no credential

VARIABLES
    installed,      \* what a restart would find for each index
    inDoubt         \* the index of the commit under way, 0 if there is none

directoryVars == <<installed, inDoubt>>

TypeOK ==
    /\ installed \in [Indices -> Credentials \cup {Nothing}]
    /\ inDoubt \in Indices \cup {0}

Init ==
    /\ installed = [f \in Indices |-> Nothing]
    /\ inDoubt = 0

\* A commit starts; from here on a restart drops the fabric.
Doubt(f) ==
    /\ inDoubt = 0
    /\ inDoubt' = f
    /\ installed' = [installed EXCEPT ![f] = Nothing]

\* The commit, or the clean-up after it was interrupted, is over.
Settle(f, c) ==
    /\ inDoubt = f
    /\ inDoubt' = 0
    /\ installed' = [installed EXCEPT ![f] = c]

\* A fabric leaves.
Remove(f) ==
    /\ installed' = [installed EXCEPT ![f] = Nothing]
    /\ UNCHANGED inDoubt

Next ==
    \E f \in Indices :
        \/ Doubt(f)
        \/ \E c \in Credentials \cup {Nothing} : Settle(f, c)
        \/ Remove(f)

Spec == Init /\ [][Next]_directoryVars
=============================================================================
