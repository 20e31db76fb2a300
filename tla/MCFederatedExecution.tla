------------------------ MODULE MCFederatedExecution ------------------------
(* Small instances of FederatedExecution for TLC.                          *)
EXTENDS FederatedExecution, TLC

(* Nothing tells two envelopes apart before one of them is sent.           *)
EnvelopeSymmetry == Permutations(Envelopes)
=============================================================================
