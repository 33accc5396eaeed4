-------------------------- MODULE MCCameraBinding --------------------------
(***************************************************************************)
(* Model values for CameraBinding: an account of one or two cameras.       *)
(***************************************************************************)
EXTENDS CameraBinding

CONSTANTS attic, barn
=============================================================================
