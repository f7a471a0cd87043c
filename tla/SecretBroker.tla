---------------------------- MODULE SecretBroker ----------------------------
(***************************************************************************)
(* The secret broker: bundles of environment variables, grants that unlock *)
(* a bundle for one terminal and tool until they expire, and the           *)
(* redemption of grants by requests that the terminal's wrappers sign.     *)
(*                                                                         *)
(* A bundle is the set of its variables' names, {} when there is none.  A  *)
(* request is redeemed by a task of the broker, one SQL statement at a     *)
(* time; the network may deliver it more than once.  Signatures are ideal: *)
(* only the wrappers of a terminal sign for it.  All clocks run alike; that *)
(* of the terminal may be ahead by up to Window.                           *)
(***************************************************************************)
EXTENDS Integers, FiniteSets

CONSTANTS
    Ptys, Secrets, EnvKeys, Tools,
    AnySecret,      \* a request for all bundles unlocked for its tool
    Messages,       \* signed requests, each with its own nonce
    NoRequest,
    Tasks,          \* deliveries of requests to the broker
    Window,         \* greatest distance of a request's timestamp, 60 s
    Retention,      \* time for which a nonce is kept, 5 min
    Stall,          \* longest time from the check of a timestamp to the nonce's INSERT
    Ttls,           \* ttl_seconds, 60 to 86400
    MaxTime,        \* bound on the clock
    MaxGrants       \* bound on the rows of the table of grants

\* A statement waits at most 10 s for a connection (db.rs) and runs on an indexed
\* table: well below the three minutes this leaves.
ASSUME TimeAssumption ==
    /\ Window \in Nat /\ Retention \in Nat /\ Stall \in Nat
    /\ Stall + 2 * Window <= Retention
    /\ Ttls \subseteq Nat
ASSUME NameAssumption == AnySecret \notin Secrets /\ Messages # {}

VARIABLES
    now,
    credential,     \* of each terminal: "none", "valid", "revoked"
    bundle,         \* the names of each secret's variables
    grants,         \* rows of the table of grants, without the revoked ones
    signed,         \* the request a message holds
    kept,           \* nonces in the table of nonces
    seen,           \* when each was put there
    stage,          \* how far each task is
    message,        \* what it was sent
    since,          \* when it checked the timestamp, until it is past the nonce
    rows,           \* the secrets it found unlocked
    audit           \* rows of the audit table, <<task, secret>>

adminVars  == <<credential, bundle, grants>>
nonceVars  == <<kept, seen>>
redeemVars == <<stage, message, since, rows, audit>>
vars       == <<now, adminVars, signed, nonceVars, redeemVars>>

Stages   == {"idle", "checked", "purged", "accepted", "loaded", "answered", "refused"}
Grants   == [pty : Ptys, secret : Secrets, tool : Tools, expires : Nat]
Requests == [pty : Ptys, secret : Secrets \cup {AnySecret}, tool : Tools, at : Nat]

Init ==
    /\ now = 0
    /\ credential = [p \in Ptys |-> "none"]
    /\ bundle = [s \in Secrets |-> {}]
    /\ grants = {}
    /\ signed = [m \in Messages |-> NoRequest]
    /\ kept = {}
    /\ seen = [m \in Messages |-> 0]
    /\ stage = [t \in Tasks |-> "idle"]
    /\ message = [t \in Tasks |-> CHOOSE m \in Messages : TRUE]
    /\ since = [t \in Tasks |-> 0]
    /\ rows = [t \in Tasks |-> {}]
    /\ audit = {}

-----------------------------------------------------------------------------
(* Time, and the routes of backend and browser.                            *)

Tick ==
    /\ now < MaxTime     \* bound
    /\ \A t \in Tasks : stage[t] \in {"checked", "purged"} => now < since[t] + Stall
    /\ now' = now + 1
    /\ UNCHANGED <<adminVars, signed, nonceVars, redeemVars>>

\* register_pty_credential: the backend calls it once, before the terminal starts.
Register(p) ==
    /\ credential[p] = "none"
    /\ credential' = [credential EXCEPT ![p] = "valid"]
    /\ UNCHANGED <<now, bundle, grants, signed, nonceVars, redeemVars>>

\* revoke_pty_credential.
RevokeCredential(p) ==
    /\ credential[p] = "valid"
    /\ credential' = [credential EXCEPT ![p] = "revoked"]
    /\ UNCHANGED <<now, bundle, grants, signed, nonceVars, redeemVars>>

\* upsert_secret: an empty set of variables is refused.
Put(s, keys) ==
    /\ keys # {}
    /\ bundle' = [bundle EXCEPT ![s] = keys]
    /\ UNCHANGED <<now, credential, grants, signed, nonceVars, redeemVars>>

\* Mutant: the grants of a secret outlive it.
DeleteBundleOnly(s) ==
    /\ bundle[s] # {}
    /\ bundle' = [bundle EXCEPT ![s] = {}]
    /\ UNCHANGED <<now, credential, grants, signed, nonceVars, redeemVars>>

\* delete_secret: ON DELETE CASCADE takes the grants along.
Delete(s) ==
    /\ bundle[s] # {}
    /\ bundle' = [bundle EXCEPT ![s] = {}]
    /\ grants' = {g \in grants : g.secret # s}
    /\ UNCHANGED <<now, credential, signed, nonceVars, redeemVars>>

\* unlock_grant: refused when there is no such secret.
Unlock(p, s, tool, ttl) ==
    /\ bundle[s] # {}
    /\ Cardinality(grants) < MaxGrants     \* bound
    /\ grants' = grants \cup
          {[pty |-> p, secret |-> s, tool |-> tool, expires |-> now + ttl]}
    /\ UNCHANGED <<now, credential, bundle, signed, nonceVars, redeemVars>>

For(g, p, s, tool) == g.pty = p /\ g.secret = s /\ g.tool = tool

\* revoke_grant: all rows for the terminal, secret and tool.  No query reads a
\* revoked row.
RevokeGrant(p, s, tool) ==
    /\ grants' = {g \in grants : ~For(g, p, s, tool)}
    /\ UNCHANGED <<now, credential, bundle, signed, nonceVars, redeemVars>>

Unlocked(p, s, tool) ==
    /\ bundle[s] # {}
    /\ \E g \in grants : For(g, p, s, tool) /\ now < g.expires

-----------------------------------------------------------------------------
(* The wrapper, and the redemption of its request by a task, use_secret.   *)

\* credential_helper: aws asks for one secret.
Sign(m, p, tool, s, at) ==
    /\ signed[m] = NoRequest
    /\ credential[p] = "valid"
    /\ tool = "aws" => s # AnySecret
    /\ signed' = [signed EXCEPT ![m] = [pty |-> p, secret |-> s, tool |-> tool, at |-> at]]
    /\ UNCHANGED <<now, adminVars, nonceVars, redeemVars>>

Fresh(r) == now - Window <= r.at /\ r.at <= now + Window

\* verify_signed_use_request: timestamp, credential and signature.
Check(t, m) ==
    /\ stage[t] = "idle"
    /\ signed[m] # NoRequest
    /\ Fresh(signed[m])
    /\ credential[signed[m].pty] = "valid"
    /\ stage' = [stage EXCEPT ![t] = "checked"]
    /\ message' = [message EXCEPT ![t] = m]
    /\ since' = [since EXCEPT ![t] = now]
    /\ UNCHANGED <<now, adminVars, signed, nonceVars, rows, audit>>

\* Mutant: nonces are kept as long as a timestamp may be old, not as long as a
\* request may be fresh.
OutdatedByWindow(m) == seen[m] < now - Window

\* A nonce older than the retention.
Outdated(m) == seen[m] < now - Retention

Purge(t) ==
    /\ stage[t] = "checked"
    /\ kept' = {m \in kept : ~Outdated(m)}
    /\ stage' = [stage EXCEPT ![t] = "purged"]
    /\ UNCHANGED <<now, adminVars, signed, seen, message, since, rows, audit>>

\* Mutant: the nonce is stored with the timestamp of its request.
StampedAt(t) == signed[message[t]].at

\* NOW(), in the INSERT of the nonce.
SeenAt(t) == now

\* INSERT of the nonce: the request is new.
Accept(t) ==
    /\ stage[t] = "purged"
    /\ message[t] \notin kept
    /\ kept' = kept \cup {message[t]}
    /\ seen' = [seen EXCEPT ![message[t]] = SeenAt(t)]
    /\ stage' = [stage EXCEPT ![t] = "accepted"]
    /\ since' = [since EXCEPT ![t] = 0]
    /\ UNCHANGED <<now, adminVars, signed, message, rows, audit>>

\* ON CONFLICT DO NOTHING: it is not.
RefuseReplay(t) ==
    /\ stage[t] = "purged"
    /\ message[t] \in kept
    /\ stage' = [stage EXCEPT ![t] = "refused"]
    /\ since' = [since EXCEPT ![t] = 0]
    /\ UNCHANGED <<now, adminVars, signed, nonceVars, message, rows, audit>>

\* The SELECT over grants and secrets.
Redeemable(r) ==
    {s \in Secrets : r.secret \in {s, AnySecret} /\ Unlocked(r.pty, s, r.tool)}

\* Two bundles define the same variable.
Conflicting(S) == \E s1, s2 \in S : s1 # s2 /\ bundle[s1] \cap bundle[s2] # {}

Load(t) ==
    LET found == Redeemable(signed[message[t]]) IN
    /\ stage[t] = "accepted"
    /\ found # {} /\ ~Conflicting(found)
    /\ rows' = [rows EXCEPT ![t] = found]
    /\ stage' = [stage EXCEPT ![t] = "loaded"]
    /\ UNCHANGED <<now, adminVars, signed, nonceVars, message, since, audit>>

\* Nothing is unlocked, or the bundles are in conflict.
RefuseRows(t) ==
    LET found == Redeemable(signed[message[t]]) IN
    /\ stage[t] = "accepted"
    /\ found = {} \/ Conflicting(found)
    /\ stage' = [stage EXCEPT ![t] = "refused"]
    /\ UNCHANGED <<now, adminVars, signed, nonceVars, message, since, rows, audit>>

Audited(t) == {s \in Secrets : <<t, s>> \in audit}

\* INSERT of one audit row.
Audit(t) ==
    /\ stage[t] = "loaded"
    /\ \E s \in rows[t] \ Audited(t) : audit' = audit \cup {<<t, s>>}
    /\ UNCHANGED <<now, adminVars, signed, nonceVars, stage, message, since, rows>>

\* Mutant: the first audit row is taken for all of them.
AnswerEarly(t) ==
    /\ stage[t] = "loaded"
    /\ rows[t] \cap Audited(t) # {}
    /\ stage' = [stage EXCEPT ![t] = "answered"]
    /\ UNCHANGED <<now, adminVars, signed, nonceVars, message, since, rows, audit>>

\* The environment is returned.
Answer(t) ==
    /\ stage[t] = "loaded"
    /\ rows[t] \subseteq Audited(t)
    /\ stage' = [stage EXCEPT ![t] = "answered"]
    /\ UNCHANGED <<now, adminVars, signed, nonceVars, message, since, rows, audit>>

\* A statement fails, the wrapper hangs up or the broker restarts.
Abandon(t) ==
    /\ stage[t] \in {"checked", "purged", "accepted", "loaded"}
    /\ stage' = [stage EXCEPT ![t] = "refused"]
    /\ since' = [since EXCEPT ![t] = 0]
    /\ UNCHANGED <<now, adminVars, signed, nonceVars, message, rows, audit>>

-----------------------------------------------------------------------------
AdminStep ==
    \/ \E p \in Ptys : Register(p) \/ RevokeCredential(p)
    \/ \E s \in Secrets : Delete(s) \/ \E keys \in SUBSET EnvKeys : Put(s, keys)
    \/ \E p \in Ptys, s \in Secrets, tool \in Tools :
          RevokeGrant(p, s, tool) \/ \E ttl \in Ttls : Unlock(p, s, tool, ttl)

RedeemStep(t) ==
    \/ \E m \in Messages : Check(t, m)
    \/ Purge(t) \/ Accept(t) \/ RefuseReplay(t)
    \/ Load(t) \/ RefuseRows(t)
    \/ Audit(t) \/ Answer(t) \/ Abandon(t)

Next ==
    \/ Tick
    \/ AdminStep
    \/ \E m \in Messages, p \in Ptys, tool \in Tools, s \in Secrets \cup {AnySecret},
          at \in now..now + Window : Sign(m, p, tool, s, at)
    \/ \E t \in Tasks : RedeemStep(t)

Spec == Init /\ [][Next]_vars
=============================================================================
