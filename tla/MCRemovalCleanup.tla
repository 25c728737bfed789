-------------------------- MODULE MCRemovalCleanup --------------------------
(* The removals that show the findings; MCPlanning has those for which the reservation
   suffices. *)
EXTENDS RemovalCleanup

\* One file in a home directory of two components.
MCDepthFile == <<3>>
MCRootFile == <<2>>
MCOwnedFile == <<"file">>
MCSizeOne == <<1>>

\* A tree of one entry at depth six.
MCDepthTree == <<6>>
MCRootTree == <<5>>
MCOwnedTree == <<"tree">>

\* A file two levels beneath a project's root, at depth fourteen.
MCDepthDeep == <<14>>
MCRootDeep == <<12>>

MCApply == {"apply"}
MCRecover == {"recover"}
MCLimitQuiet == [runs |-> 0, faults |-> 0, strangers |-> 0]
=============================================================================
