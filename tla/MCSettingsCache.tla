-------------------------- MODULE MCSettingsCache --------------------------
(***************************************************************************)
(* SettingsCache as TLC checks it, for a camera of each command set.  The  *)
(* constants describe the V2 camera, which answers in time.  The answers   *)
(* of the V3 camera may come any time late.                                *)
(***************************************************************************)
EXTENDS SettingsCache

CONSTANT MorePlans   \* plans the V3 camera may be given besides

VARIABLE speaks   \* the command set of the camera at hand

V3 == INSTANCE SettingsCache WITH
        Proto <- "v3", Settings <- {"camera_on", Schedule},
        Plans <- Plans \cup MorePlans, Prompt <- FALSE, MaxLate <- 1,
        MaxApp <- 1, MaxWrites <- 1, MaxLosses <- 1

MCInit == (speaks = "v2" /\ Init) \/ (speaks = "v3" /\ V3!Init)

MCStep == (speaks = "v2" /\ Step) \/ (speaks = "v3" /\ V3!Step)

MCSweep == (speaks = "v2" /\ BeginSweep) \/ (speaks = "v3" /\ V3!BeginSweep)

MCNext ==
  /\ (speaks = "v2" /\ Next) \/ (speaks = "v3" /\ V3!Next)
  /\ UNCHANGED speaks

MCSpec == MCInit /\ [][MCNext]_<<vars, speaks>>

MCFairSpec == MCSpec /\ WF_vars(MCStep) /\ SF_vars(MCSweep)

\* A settings request to a V2 camera leaves the cache showing what the camera
\* answered, see ConfirmsTaken.  On V3 it does not.
ShowsOnV2 == [][speaks = "v2" => ConfirmsTaken]_vars
=============================================================================
