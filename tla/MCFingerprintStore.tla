------------------------- MODULE MCFingerprintStore -------------------------
(* Small instances of FingerprintStore for TLC. *)
EXTENDS FingerprintStore, TLC

\* Model values
CONSTANTS k1, k2,      \* fingerprint/User-Agent pairs
          as1, none    \* networks

\* Pairs are interchangeable; safety runs only.
Symmetry == Permutations(Key)
==============================================================================
