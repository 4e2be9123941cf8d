------------------------- MODULE DesiredStateMirror -------------------------
(***************************************************************************)
(* What the VMS promises about the media server, with the whole control    *)
(* loop hidden: for every camera there is a desired configuration, chosen  *)
(* by the operator, and an actual one, held by the media server.  The      *)
(* actual configuration only ever changes by becoming the configuration    *)
(* desired at that very moment, or by vanishing.  In particular a          *)
(* configuration the operator has replaced is never written back.          *)
(***************************************************************************)
CONSTANTS
  Cameras,   (* identifiers of cameras                                     *)
  Configs,   (* configurations a path can have                             *)
  NoConfig   (* the camera has no path, or wants none                      *)

VARIABLES
  desired,
  actual

vars == <<desired, actual>>

TypeOK ==
  /\ desired \in [Cameras -> Configs \cup {NoConfig}]
  /\ actual  \in [Cameras -> Configs \cup {NoConfig}]

Init ==
  /\ desired = [c \in Cameras |-> NoConfig]
  /\ actual  = [c \in Cameras |-> NoConfig]

(* The operator creates, edits or deletes a camera. *)
Edit(c) ==
  /\ \E d \in Configs \cup {NoConfig} : desired' = [desired EXCEPT ![c] = d]
  /\ UNCHANGED actual

(* The media server takes over the current desired configuration. *)
Mirror(c) ==
  /\ actual' = [actual EXCEPT ![c] = desired[c]]
  /\ UNCHANGED desired

(* The media server loses paths: one is deleted, or all in a restart. *)
Lose ==
  /\ \E S \in SUBSET Cameras :
        actual' = [c \in Cameras |-> IF c \in S THEN NoConfig ELSE actual[c]]
  /\ UNCHANGED desired

Next == Lose \/ \E c \in Cameras : Edit(c) \/ Mirror(c)

Spec == Init /\ [][Next]_vars
=============================================================================
