---------------------------- MODULE ManifestFile ----------------------------
(***************************************************************************)
(* What Manifest::Save promises: the file holds one version of the         *)
(* manifest, a step replaces it by a version saved later, and no reader    *)
(* ever finds anything in between.                                         *)
(***************************************************************************)
EXTENDS Naturals

VARIABLE version

Init == version = 0

Replace == version' \in Nat /\ version' > version

Spec == Init /\ [][Replace]_version
=============================================================================
