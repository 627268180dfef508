---------------------------- MODULE MCSubmission ----------------------------
(***************************************************************************)
(* Submission over interchangeable requests.                               *)
(***************************************************************************)
EXTENDS Submission, TLC

RequestSymmetry == Permutations(Requests)
=============================================================================
