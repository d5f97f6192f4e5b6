----------------------------- MODULE MCVideoStart -----------------------------
(***************************************************************************)
(* Instances of VideoStart for TLC.                                        *)
(***************************************************************************)
EXTENDS VideoStartProperties, TLC

CONSTANTS v1, v2

TwoVideos == {v1, v2}

AllConfigs == [Video -> Config]
=============================================================================
