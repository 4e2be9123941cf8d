------------------------ MODULE MCVmsCameraManager ------------------------
(* Small instances of VmsCameraManager for TLC. *)
EXTENDS VmsCameraManager, TLC

(* Cameras are interchangeable; used where no liveness is checked. *)
Symmetry == Permutations(Cameras)

(* Every way to be enabled, and one way to be disabled. *)
SomePayloads == {r \in Row : r.enabled \/ (r.recording /\ r.source \notin Rejected)}

(* Recording or not makes no difference to whether there is a path. *)
RecordingPayloads == {r \in Row : r.recording}
=============================================================================
