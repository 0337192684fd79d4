-------------------------------- MODULE Processes ------------------------------
(***************************************************************************)
(* The kitcat commands that run at the same time on one repository.        *)
(***************************************************************************)
CONSTANT Process
===============================================================================
