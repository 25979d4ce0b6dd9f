----------------------------- MODULE MCUdpFlow ------------------------------
(***************************************************************************)
(* The instance of UdpFlow that TLC checks; every constant is a number or  *)
(* a set of numbers and is given in the .cfg files.                        *)
(***************************************************************************)
EXTENDS UdpFlow
=============================================================================
