----------------------- MODULE SecretBrokerProperties -----------------------
(***************************************************************************)
(* What the secret broker promises about grants and their redemption.      *)
(***************************************************************************)
EXTENDS SecretBroker

\* Types of the broker's tables and of the tasks that redeem requests.
TypeOK ==
    /\ now \in Nat
    /\ credential \in [Ptys -> {"none", "valid", "revoked"}]
    /\ bundle \in [Secrets -> SUBSET EnvKeys]
    /\ grants \subseteq Grants
    /\ signed \in [Messages -> Requests \cup {NoRequest}]
    /\ kept \subseteq Messages
    /\ seen \in [Messages -> 0..now]
    /\ stage \in [Tasks -> Stages]
    /\ message \in [Tasks -> Messages]
    /\ since \in [Tasks -> 0..now]
    /\ rows \in [Tasks -> SUBSET Secrets]
    /\ audit \subseteq Tasks \X Secrets

Redeeming(t) == stage[t] \in {"accepted", "loaded", "answered"}

\* However often and late a signed request is delivered, one delivery is redeemed:
\* its nonce is not purged while its timestamp may still pass the check of another
\* delivery (verify_signed_use_request).
RedeemedOnce ==
    \A t, u \in Tasks : Redeeming(t) /\ Redeeming(u) /\ message[t] = message[u] => t = u

\* The environment is returned only when the use of every secret in it stands in
\* the audit table, and nothing stands there that the request did not redeem, even
\* if the broker stops in the middle (use_secret).
AuditTrail ==
    /\ \A t \in Tasks : stage[t] = "answered" => rows[t] # {} /\ rows[t] \subseteq Audited(t)
    /\ \A t \in Tasks : Audited(t) \subseteq rows[t]

\* A secret that is locked for a terminal and tool, because its grants were
\* revoked or have expired or because it was deleted, is unlocked by a new grant
\* only, not by restoring the secret (unlock_grant, revoke_grant, delete_secret).
StaysLocked ==
    [][\A p \in Ptys, s \in Secrets, tool \in Tools :
          ~Unlocked(p, s, tool) /\ Unlocked(p, s, tool)' =>
              \E g \in grants' \ grants : For(g, p, s, tool)]_vars
=============================================================================
