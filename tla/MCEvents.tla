------------------------------ MODULE MCEvents ------------------------------
(***************************************************************************)
(* Events for TLC: both codes an InformResponse acknowledges, one it does  *)
(* not, and one that an Inform may list several times.                     *)
(***************************************************************************)
EXTENDS Events

CONSTANTS bootstrap, boot, request, reboot

AllCodes == {bootstrap, boot, request, reboot}
RepeatedCodes == {reboot}
BootCodes == {bootstrap, boot}

=============================================================================
