---------------------------- MODULE MCReconfigure ----------------------------
(***************************************************************************)
(* Two operators and three environments; "a" and "a2" differ in a          *)
(* credential only, and so have one fingerprint.                           *)
(***************************************************************************)
EXTENDS Reconfigure

CredentialRotation == [e \in Environments |-> IF e = "b" THEN "fb" ELSE "fa"]
=============================================================================
