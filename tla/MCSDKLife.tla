------------------------------- MODULE MCSDKLife -------------------------------
(* SDKLife for TLC: two starts, and a descriptor for each of the connections   *)
(* they open, so that the second life may meet numbers used before or not.     *)
EXTENDS SDKLife
===============================================================================
