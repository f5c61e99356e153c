-------------------------- MODULE MCVerifyEndpoints --------------------------
(* Small instances of VerifyEndpoints for TLC. *)
EXTENDS VerifyEndpoints, TLC

\* Model values
CONSTANTS slow, fast,   \* two instances, the clock of fast is ahead
          s1, s2, s3    \* submissions

MCOffset == (slow :> 0) @@ (fast :> 1)

NoOffset == [i \in Instance |-> 0]

\* Requests are interchangeable, and so are captcha tokens; safety runs only.
Symmetry == Permutations(Submission) \cup Permutations(CaptchaToken)
==============================================================================
