----------------------- MODULE MCContainmentLifecycle -----------------------
(* Instances of ContainmentLifecycle for TLC.  Killed jobs may stop at any  *)
(* point, and a finished job does nothing more: deadlock is not checked.    *)
EXTENDS ContainmentLifecycle

OneMode == {"run"}
PrivateMode == {"private-netns-probe"}
(* A mode that can pass, and the one whose evidence outlives its probe.     *)
EvidenceModes == {"run", "private-netns-probe"}

=============================================================================
