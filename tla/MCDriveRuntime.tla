--------------------------- MODULE MCDriveRuntime ---------------------------
(* The runtime core with the parameters of main.cpp, for TLC.              *)
EXTENDS DriveRuntime
=============================================================================
