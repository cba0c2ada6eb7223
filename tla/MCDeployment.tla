---------------------------- MODULE MCDeployment -----------------------------
(***************************************************************************)
(* Up to six commands of one operator with four faults among them, on      *)
(* Unraid and on Compose, with and without a reader session key.           *)
(***************************************************************************)
EXTENDS Deployment
=============================================================================
