---------------------------- MODULE MCCoordinator ----------------------------
(***************************************************************************)
(* Instance of Coordinator: two rounds of the test over the same chains.   *)
(***************************************************************************)
EXTENDS Coordinator

MCRemotes == [c \in Chain |-> {Other(c)}]
MCHops == {<<id>> : id \in ConnectionId}
MCPayload == [c \in Chain |-> Data]
MCTimeouts == {h + TimeoutOffset : h \in 0 .. MaxHeight}

\* The hypothesis of what is proved of the coordinator.
ASSUME MCInputsSuffice == InputsSuffice
=============================================================================
