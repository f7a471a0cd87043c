--------------------------- MODULE MCSecretBroker ---------------------------
(***************************************************************************)
(* Instances of SecretBrokerProperties for TLC.                            *)
(***************************************************************************)
EXTENDS SecretBrokerProperties, TLC

CONSTANTS p1, s1, s2, k1, k2, m1, m2, t1, t2

\* Secrets, names of variables, requests and deliveries are interchangeable.
MCSymmetry ==
    Permutations(Secrets) \cup Permutations(EnvKeys)
        \cup Permutations(Messages) \cup Permutations(Tasks)
=============================================================================
