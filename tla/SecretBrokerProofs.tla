------------------------- MODULE SecretBrokerProofs -------------------------
(***************************************************************************)
(* For any terminals, secrets and requests and any durations that satisfy  *)
(* TimeAssumption: a signed request is redeemed once, its use is audited,  *)
(* and a locked secret is unlocked by a new grant only.                    *)
(***************************************************************************)
EXTENDS SecretBrokerProperties, TLAPS

-----------------------------------------------------------------------------
\* The types hold of the first state.
LEMMA TypeInit == Init => TypeOK
  <1> SUFFICES ASSUME Init PROVE TypeOK
    OBVIOUS
  <1>1. (CHOOSE m \in Messages : TRUE) \in Messages
    BY NameAssumption
  <1> QED BY <1>1 DEF Init, TypeOK, Stages

\* The routes of backend and browser keep them.
LEMMA AdminTypes == TypeOK /\ AdminStep => TypeOK'
  <1> SUFFICES ASSUME TypeOK, AdminStep PROVE TypeOK'
    OBVIOUS
  <1> USE DEF TypeOK, redeemVars, nonceVars
  <1>1. ASSUME NEW p \in Ptys, Register(p) \/ RevokeCredential(p) PROVE TypeOK'
    BY <1>1 DEF Register, RevokeCredential
  <1>2. ASSUME NEW s \in Secrets, Delete(s) PROVE TypeOK'
    BY <1>2 DEF Delete
  <1>3. ASSUME NEW s \in Secrets, NEW keys \in SUBSET EnvKeys, Put(s, keys) PROVE TypeOK'
    BY <1>3 DEF Put
  <1>4. ASSUME NEW p \in Ptys, NEW s \in Secrets, NEW tool \in Tools, RevokeGrant(p, s, tool)
        PROVE  TypeOK'
    BY <1>4 DEF RevokeGrant
  <1>5. ASSUME NEW p \in Ptys, NEW s \in Secrets, NEW tool \in Tools, NEW ttl \in Ttls,
               Unlock(p, s, tool, ttl)
        PROVE  TypeOK'
    BY <1>5, TimeAssumption DEF Unlock, Grants
  <1> QED BY <1>1, <1>2, <1>3, <1>4, <1>5 DEF AdminStep

\* So do the steps that redeem a request.
LEMMA RedeemTypes == ASSUME TypeOK, NEW t \in Tasks, RedeemStep(t) PROVE TypeOK'
  <1> USE DEF TypeOK, Stages, adminVars, nonceVars
  <1>1. ASSUME NEW m \in Messages, Check(t, m) PROVE TypeOK'
    BY <1>1 DEF Check
  <1>2. CASE Purge(t) BY <1>2 DEF Purge
  <1>3. CASE Accept(t) BY <1>3 DEF Accept, SeenAt
  <1>4. CASE RefuseReplay(t) BY <1>4 DEF RefuseReplay
  <1>5. CASE Load(t)
    <2>1. Redeemable(signed[message[t]]) \in SUBSET Secrets
      BY DEF Redeemable
    <2>2. rows' \in [Tasks -> SUBSET Secrets] /\ stage' \in [Tasks -> Stages]
      BY <1>5, <2>1 DEF Load
    <2> QED BY <1>5, <2>2 DEF Load
  <1>6. CASE RefuseRows(t) BY <1>6 DEF RefuseRows
  <1>7. CASE Audit(t)
    <2>1. PICK s \in rows[t] : audit' = audit \cup {<<t, s>>}
      BY <1>7 DEF Audit
    <2>2. s \in Secrets
      BY <2>1
    <2> QED BY <1>7, <2>1, <2>2 DEF Audit
  <1>8. CASE Answer(t) BY <1>8 DEF Answer
  <1>9. CASE Abandon(t) BY <1>9 DEF Abandon
  <1> QED
    BY <1>1, <1>2, <1>3, <1>4, <1>5, <1>6, <1>7, <1>8, <1>9 DEF RedeemStep

\* Every step keeps the types.
LEMMA TypeStep == TypeOK /\ [Next]_vars => TypeOK'
  <1> SUFFICES ASSUME TypeOK, [Next]_vars PROVE TypeOK'
    OBVIOUS
  <1>1. CASE Tick BY <1>1 DEF Tick, TypeOK, adminVars, nonceVars, redeemVars
  <1>2. CASE AdminStep BY <1>2, AdminTypes
  <1>3. ASSUME NEW m \in Messages, NEW p \in Ptys, NEW tool \in Tools,
               NEW s \in Secrets \cup {AnySecret}, NEW at \in now..now + Window,
               Sign(m, p, tool, s, at)
        PROVE  TypeOK'
    <2>1. at \in Nat
      BY TimeAssumption DEF TypeOK
    <2> QED BY <1>3, <2>1 DEF Sign, TypeOK, Requests, adminVars, nonceVars, redeemVars
  <1>4. ASSUME NEW t \in Tasks, RedeemStep(t) PROVE TypeOK'
    BY <1>4, RedeemTypes
  <1>5. CASE UNCHANGED vars
    BY <1>5 DEF vars, TypeOK, adminVars, nonceVars, redeemVars
  <1> QED BY <1>1, <1>2, <1>3, <1>4, <1>5 DEF Next

\* The tables and the tasks keep their types.
THEOREM Types == Spec => []TypeOK
  <1>1. Init => TypeOK BY TypeInit
  <1>2. TypeOK /\ [Next]_vars => TypeOK' BY TypeStep
  <1> QED BY <1>1, <1>2, PTL DEF Spec

-----------------------------------------------------------------------------
(* A task between check and INSERT is in time for its request, and a nonce  *)
(* that was accepted is kept until no task can be in time for it any more.  *)

\* The last moment at which a task can still be in time for request r.
Deadline(r) == r.at + Window + Stall

InTime(t) ==
    stage[t] \in {"checked", "purged"} =>
        /\ signed[message[t]] # NoRequest
        /\ signed[message[t]].at - Window <= now
        /\ now <= since[t] + Stall
        /\ since[t] <= signed[message[t]].at + Window

Remembered(t) ==
    Redeeming(t) =>
        /\ signed[message[t]] # NoRequest
        /\ message[t] \in kept \/ Deadline(signed[message[t]]) < now

Dated(m) ==
    m \in kept => signed[m] # NoRequest /\ signed[m].at - Window <= seen[m]

NonceInv ==
    /\ TypeOK
    /\ RedeemedOnce
    /\ \A t \in Tasks : InTime(t) /\ Remembered(t)
    /\ \A m \in Messages : Dated(m)

\* It holds of the first state.
LEMMA NonceInit == Init => NonceInv
  BY TypeInit DEF Init, NonceInv, RedeemedOnce, Redeeming, InTime, Remembered, Dated

\* Time passes only while every task is in time.
LEMMA TickKeepsNonces == NonceInv /\ TypeOK' /\ Tick => NonceInv'
  <1> SUFFICES ASSUME NonceInv, TypeOK', Tick PROVE NonceInv'
    OBVIOUS
  <1> USE TimeAssumption DEF NonceInv
  <1>1. /\ now' = now + 1 /\ now \in Nat
        /\ UNCHANGED <<signed, kept, seen, stage, message, since>>
        /\ \A t \in Tasks : stage[t] \in {"checked", "purged"} => now < since[t] + Stall
    BY DEF Tick, TypeOK, nonceVars, redeemVars
  <1>2. RedeemedOnce'
    BY <1>1 DEF RedeemedOnce, Redeeming
  <1>3. ASSUME NEW t \in Tasks PROVE InTime(t)' /\ Remembered(t)'
    <2>1. /\ since[t] \in Nat /\ message[t] \in Messages
          /\ signed[message[t]] # NoRequest => signed[message[t]].at \in Nat
      BY DEF TypeOK, Requests
    <2>2. InTime(t)'
      BY <1>1, <2>1 DEF InTime
    <2>3. Remembered(t)'
      BY <1>1, <2>1 DEF Remembered, Redeeming, Deadline
    <2> QED BY <2>2, <2>3
  <1>4. ASSUME NEW m \in Messages PROVE Dated(m)'
    BY <1>1 DEF Dated
  <1> QED BY <1>2, <1>3, <1>4

\* A message is signed once.
LEMMA SignKeepsNonces ==
    ASSUME NonceInv, TypeOK', NEW m \in Messages, NEW p \in Ptys, NEW tool \in Tools,
           NEW s \in Secrets \cup {AnySecret}, NEW at \in now..now + Window,
           Sign(m, p, tool, s, at)
    PROVE  NonceInv'
  <1>1. /\ UNCHANGED <<now, kept, seen, stage, message, since>>
        /\ \A n \in Messages : signed[n] # NoRequest => signed'[n] = signed[n]
    BY DEF Sign, NonceInv, TypeOK, nonceVars, redeemVars
  <1>2. RedeemedOnce'
    BY <1>1 DEF NonceInv, RedeemedOnce, Redeeming
  <1>3. ASSUME NEW t \in Tasks PROVE InTime(t)' /\ Remembered(t)'
    BY <1>1 DEF NonceInv, TypeOK, InTime, Remembered, Redeeming, Deadline
  <1>4. ASSUME NEW n \in Messages PROVE Dated(n)'
    BY <1>1 DEF NonceInv, Dated
  <1> QED BY <1>2, <1>3, <1>4 DEF NonceInv

\* A task that passes the check is in time from then on.
LEMMA CheckKeepsNonces ==
    ASSUME NonceInv, TypeOK', NEW t \in Tasks, NEW m \in Messages, Check(t, m)
    PROVE  NonceInv'
  <1> USE TimeAssumption
  <1>1. /\ UNCHANGED <<now, kept, seen, signed>>
        /\ stage' = [stage EXCEPT ![t] = "checked"]
        /\ message' = [message EXCEPT ![t] = m]
        /\ since' = [since EXCEPT ![t] = now]
        /\ signed[m] # NoRequest /\ signed[m].at \in Nat
        /\ now - Window <= signed[m].at /\ signed[m].at <= now + Window
    BY DEF Check, Fresh, NonceInv, TypeOK, Requests, nonceVars
  <1>2. \A u \in Tasks : Redeeming(u)' => u # t /\ Redeeming(u) /\ message'[u] = message[u]
    BY <1>1 DEF Redeeming, NonceInv, TypeOK
  <1>3. RedeemedOnce'
    BY <1>2 DEF NonceInv, RedeemedOnce
  <1>4. ASSUME NEW u \in Tasks PROVE InTime(u)' /\ Remembered(u)'
    <2>1. CASE u = t
      BY <1>1, <2>1 DEF NonceInv, TypeOK, InTime, Remembered, Redeeming
    <2>2. CASE u # t
      BY <1>1, <2>2 DEF NonceInv, TypeOK, InTime, Remembered, Redeeming, Deadline
    <2> QED BY <2>1, <2>2
  <1>5. ASSUME NEW n \in Messages PROVE Dated(n)'
    BY <1>1 DEF NonceInv, Dated
  <1> QED BY <1>3, <1>4, <1>5 DEF NonceInv

\* A nonce is purged only after the deadline of its request.
LEMMA PurgeKeepsNonces ==
    ASSUME NonceInv, TypeOK', NEW t \in Tasks, Purge(t)
    PROVE  NonceInv'
  <1> USE TimeAssumption
  <1>1. /\ UNCHANGED <<now, seen, signed, message, since>>
        /\ stage[t] = "checked" /\ stage' = [stage EXCEPT ![t] = "purged"]
        /\ kept' = {m \in kept : ~Outdated(m)}
    BY DEF Purge
  <1>2. \A u \in Tasks : Redeeming(u)' <=> Redeeming(u)
    BY <1>1 DEF Redeeming, NonceInv, TypeOK
  <1>3. RedeemedOnce'
    BY <1>1, <1>2 DEF NonceInv, RedeemedOnce
  <1>4. ASSUME NEW m \in kept, m \notin kept' PROVE Deadline(signed[m]) < now
    <2>1. m \in Messages /\ seen[m] \in Nat /\ now \in Nat
      BY DEF NonceInv, TypeOK
    <2>2. seen[m] < now - Retention
      BY <1>1, <1>4 DEF Outdated
    <2>3. signed[m].at - Window <= seen[m] /\ signed[m].at \in Nat
      BY <2>1 DEF NonceInv, Dated, TypeOK, Requests
    <2> QED BY <2>1, <2>2, <2>3 DEF Deadline
  <1>5. ASSUME NEW u \in Tasks PROVE InTime(u)'
    BY <1>1 DEF NonceInv, TypeOK, InTime
  <1>6. ASSUME NEW u \in Tasks PROVE Remembered(u)'
    BY <1>1, <1>2, <1>4 DEF NonceInv, Remembered, Deadline
  <1>7. ASSUME NEW n \in Messages PROVE Dated(n)'
    BY <1>1 DEF NonceInv, Dated
  <1> QED BY <1>3, <1>5, <1>6, <1>7 DEF NonceInv

\* A task that finds its nonce unused is the first to redeem the request.
LEMMA AcceptKeepsNonces ==
    ASSUME NonceInv, TypeOK', NEW t \in Tasks, Accept(t)
    PROVE  NonceInv'
  <1> USE TimeAssumption
  <1> DEFINE m == message[t]
  <1>1. /\ UNCHANGED <<now, signed, message>>
        /\ stage[t] = "purged" /\ stage' = [stage EXCEPT ![t] = "accepted"]
        /\ m \in Messages /\ m \notin kept /\ kept' = kept \cup {m}
        /\ seen' = [seen EXCEPT ![m] = now]
        /\ \A u \in Tasks : u # t => since'[u] = since[u]
    BY DEF Accept, SeenAt, NonceInv, TypeOK
  <1>2. /\ signed[m] # NoRequest /\ signed[m].at \in Nat
        /\ signed[m].at - Window <= now /\ now <= Deadline(signed[m])
    BY <1>1 DEF NonceInv, TypeOK, InTime, Requests, Deadline
  <1>3. \A u \in Tasks : u # t => (Redeeming(u)' <=> Redeeming(u))
    BY <1>1 DEF Redeeming, NonceInv, TypeOK
  <1>4. ASSUME NEW u \in Tasks, Redeeming(u) PROVE message[u] # m
    BY <1>1, <1>2, <1>4 DEF NonceInv, TypeOK, Remembered, Deadline
  <1>5. RedeemedOnce'
    BY <1>1, <1>3, <1>4 DEF NonceInv, RedeemedOnce
  <1>6. ASSUME NEW u \in Tasks PROVE InTime(u)' /\ Remembered(u)'
    <2>1. CASE u = t
      BY <1>1, <1>2, <2>1 DEF NonceInv, TypeOK, InTime, Remembered
    <2>2. CASE u # t
      BY <1>1, <1>3, <2>2 DEF NonceInv, TypeOK, InTime, Remembered, Deadline
    <2> QED BY <2>1, <2>2
  <1>7. ASSUME NEW n \in Messages PROVE Dated(n)'
    BY <1>1, <1>2 DEF NonceInv, TypeOK, Dated
  <1> QED BY <1>5, <1>6, <1>7 DEF NonceInv

\* The steps after the nonce, and giving up.
LEMMA RestKeepsNonces ==
    ASSUME NonceInv, TypeOK', NEW t \in Tasks,
           \/ RefuseReplay(t) \/ Load(t) \/ RefuseRows(t)
           \/ Audit(t) \/ Answer(t) \/ Abandon(t)
    PROVE  NonceInv'
  <1>1. /\ UNCHANGED <<now, signed, message, kept, seen>>
        /\ \A u \in Tasks : Redeeming(u)' => Redeeming(u)
        /\ \A u \in Tasks : stage'[u] \in {"checked", "purged"} =>
              stage'[u] = stage[u] /\ since'[u] = since[u]
    BY DEF RefuseReplay, Load, RefuseRows, Audit, Answer, Abandon, Redeeming, NonceInv, TypeOK, nonceVars
  <1>2. RedeemedOnce'
    BY <1>1 DEF NonceInv, RedeemedOnce
  <1>3. ASSUME NEW u \in Tasks PROVE InTime(u)' /\ Remembered(u)'
    BY <1>1 DEF NonceInv, InTime, Remembered, Deadline
  <1>4. ASSUME NEW n \in Messages PROVE Dated(n)'
    BY <1>1 DEF NonceInv, Dated
  <1> QED BY <1>2, <1>3, <1>4 DEF NonceInv

\* A signed request is redeemed by one delivery, however many there are and
\* whenever they arrive.
THEOREM Once == Spec => []RedeemedOnce
  <1>1. Init => NonceInv BY NonceInit
  <1>2. NonceInv /\ [Next]_vars => NonceInv'
    <2> SUFFICES ASSUME NonceInv, [Next]_vars PROVE NonceInv'
      OBVIOUS
    <2>1. TypeOK' BY TypeStep DEF NonceInv
    <2>2. CASE Tick BY <2>1, <2>2, TickKeepsNonces
    <2>3. CASE AdminStep
      <3>1. UNCHANGED <<now, signed, nonceVars, redeemVars>>
        BY <2>3 DEF AdminStep, Register, RevokeCredential, Delete, Put, RevokeGrant, Unlock
      <3> QED
        BY <2>1, <3>1 DEF NonceInv, RedeemedOnce, Redeeming, InTime, Remembered, Deadline, Dated,
                          nonceVars, redeemVars
    <2>4. ASSUME NEW m \in Messages, NEW p \in Ptys, NEW tool \in Tools,
                 NEW s \in Secrets \cup {AnySecret}, NEW at \in now..now + Window,
                 Sign(m, p, tool, s, at)
          PROVE  NonceInv'
      BY <2>1, <2>4, SignKeepsNonces
    <2>5. ASSUME NEW t \in Tasks, RedeemStep(t) PROVE NonceInv'
      BY <2>1, <2>5, CheckKeepsNonces, PurgeKeepsNonces, AcceptKeepsNonces, RestKeepsNonces
         DEF RedeemStep
    <2>6. CASE UNCHANGED vars
      BY <2>1, <2>6 DEF NonceInv, RedeemedOnce, Redeeming, InTime, Remembered, Deadline, Dated,
                        vars, nonceVars, redeemVars
    <2> QED BY <2>2, <2>3, <2>4, <2>5, <2>6 DEF Next
  <1>3. NonceInv => RedeemedOnce BY DEF NonceInv
  <1> QED BY <1>1, <1>2, <1>3, PTL DEF Spec

-----------------------------------------------------------------------------
(* The audit table.                                                        *)

RowsInv(t) ==
    /\ stage[t] \in {"idle", "checked", "purged", "accepted"} => rows[t] = {}
    /\ stage[t] \in {"loaded", "answered"} => rows[t] # {}

AuditInv == TypeOK /\ AuditTrail /\ \A t \in Tasks : RowsInv(t)

\* A step that leaves audit table and rows alone and answers nobody.
LEMMA AuditUntouched ==
    ASSUME AuditInv, TypeOK', UNCHANGED <<rows, audit>>,
           \A t \in Tasks : RowsInv(t)' /\ (stage'[t] = "answered" => stage[t] = "answered")
    PROVE  AuditInv'
  BY DEF AuditInv, AuditTrail, Audited

\* The steps that redeem a request keep the audit table right.
LEMMA RedeemKeepsAudit ==
    ASSUME AuditInv, TypeOK', NEW t \in Tasks, RedeemStep(t)
    PROVE  AuditInv'
  <1> USE DEF AuditInv
  <1>1. CASE \/ \E m \in Messages : Check(t, m)
             \/ Purge(t) \/ Accept(t) \/ RefuseReplay(t) \/ RefuseRows(t) \/ Abandon(t)
    <2>1. UNCHANGED <<rows, audit>>
      BY <1>1 DEF Check, Purge, Accept, RefuseReplay, RefuseRows, Abandon
    <2>2. ASSUME NEW u \in Tasks
          PROVE  RowsInv(u)' /\ (stage'[u] = "answered" => stage[u] = "answered")
      BY <1>1, <2>1 DEF Check, Purge, Accept, RefuseReplay, RefuseRows, Abandon, RowsInv, TypeOK
    <2> QED BY <2>1, <2>2, AuditUntouched
  <1>2. CASE Load(t)
    <2> DEFINE found == Redeemable(signed[message[t]])
    <2>1. /\ stage[t] = "accepted" /\ stage' = [stage EXCEPT ![t] = "loaded"]
          /\ rows' = [rows EXCEPT ![t] = found] /\ found # {} /\ UNCHANGED audit
      BY <1>2 DEF Load
    <2> HIDE DEF found
    <2>2. Audited(t) = {}
      BY <2>1 DEF RowsInv, AuditTrail
    <2>3. AuditTrail'
      BY <2>1, <2>2 DEF AuditTrail, Audited, TypeOK
    <2>4. ASSUME NEW u \in Tasks PROVE RowsInv(u)'
      BY <2>1 DEF RowsInv, TypeOK
    <2> QED BY <2>3, <2>4
  <1>3. CASE Audit(t)
    <2>1. PICK s \in rows[t] : audit' = audit \cup {<<t, s>>}
      BY <1>3 DEF Audit
    <2>2. UNCHANGED <<stage, rows>>
      BY <1>3 DEF Audit
    <2>3. AuditTrail'
      BY <2>1, <2>2 DEF AuditTrail, Audited
    <2>4. ASSUME NEW u \in Tasks PROVE RowsInv(u)'
      BY <2>2 DEF RowsInv
    <2> QED BY <2>3, <2>4
  <1>4. CASE Answer(t)
    <2>1. /\ stage[t] = "loaded" /\ stage' = [stage EXCEPT ![t] = "answered"]
          /\ rows[t] \subseteq Audited(t) /\ UNCHANGED <<rows, audit>>
      BY <1>4 DEF Answer
    <2>2. AuditTrail'
      BY <2>1 DEF AuditTrail, Audited, RowsInv, TypeOK
    <2>3. ASSUME NEW u \in Tasks PROVE RowsInv(u)'
      BY <2>1 DEF RowsInv, TypeOK
    <2> QED BY <2>2, <2>3
  <1> QED BY <1>1, <1>2, <1>3, <1>4 DEF RedeemStep

\* No environment is returned unaudited, and nothing is audited that the request
\* did not redeem.
THEOREM Audits == Spec => []AuditTrail
  <1>1. Init => AuditInv
    BY TypeInit DEF Init, AuditInv, AuditTrail, Audited, RowsInv
  <1>2. AuditInv /\ [Next]_vars => AuditInv'
    <2> SUFFICES ASSUME AuditInv, [Next]_vars PROVE AuditInv'
      OBVIOUS
    <2>1. TypeOK' BY TypeStep DEF AuditInv
    <2>2. ASSUME NEW t \in Tasks, RedeemStep(t) PROVE AuditInv'
      BY <2>1, <2>2, RedeemKeepsAudit
    <2>3. ASSUME UNCHANGED redeemVars PROVE AuditInv'
      BY <2>1, <2>3 DEF redeemVars, AuditInv, AuditTrail, Audited, RowsInv
    <2>4. CASE Tick BY <2>3, <2>4 DEF Tick
    <2>5. CASE AdminStep
      BY <2>3, <2>5 DEF AdminStep, Register, RevokeCredential, Delete, Put, RevokeGrant, Unlock
    <2>6. CASE \E m \in Messages, p \in Ptys, tool \in Tools, s \in Secrets \cup {AnySecret},
                 at \in now..now + Window : Sign(m, p, tool, s, at)
      BY <2>3, <2>6 DEF Sign
    <2>7. CASE UNCHANGED vars BY <2>3, <2>7 DEF vars
    <2> QED BY <2>2, <2>4, <2>5, <2>6, <2>7 DEF Next
  <1>3. AuditInv => AuditTrail BY DEF AuditInv
  <1> QED BY <1>1, <1>2, <1>3, PTL DEF Spec

-----------------------------------------------------------------------------
(* Grants.  A secret that does not exist has none, so restoring it unlocks  *)
(* nothing.                                                                *)

GrantsInv == TypeOK /\ \A g \in grants : bundle[g.secret] # {}

\* Every step but those of the browser leaves bundles and grants alone.
LEMMA GrantsUntouched ==
    ASSUME [Next]_vars, ~AdminStep
    PROVE  UNCHANGED <<bundle, grants>>
  BY DEF Next, Tick, Sign, RedeemStep, Check, Purge, Accept, RefuseReplay, Load, RefuseRows,
         Audit, Answer, Abandon, vars, adminVars

\* Every grant is one for a secret that exists.
LEMMA GrantsStep == GrantsInv /\ [Next]_vars => GrantsInv'
  <1> SUFFICES ASSUME GrantsInv, [Next]_vars PROVE GrantsInv'
    OBVIOUS
  <1> USE DEF GrantsInv
  <1>1. TypeOK' BY TypeStep
  <1>2. CASE ~AdminStep
    BY <1>1, <1>2, GrantsUntouched
  <1>3. ASSUME NEW p \in Ptys, Register(p) \/ RevokeCredential(p) PROVE GrantsInv'
    BY <1>1, <1>3 DEF Register, RevokeCredential
  <1>4. ASSUME NEW s \in Secrets, Delete(s) PROVE GrantsInv'
    BY <1>1, <1>4 DEF Delete, TypeOK, Grants
  <1>5. ASSUME NEW s \in Secrets, NEW keys \in SUBSET EnvKeys, Put(s, keys) PROVE GrantsInv'
    BY <1>1, <1>5 DEF Put, TypeOK, Grants
  <1>6. ASSUME NEW p \in Ptys, NEW s \in Secrets, NEW tool \in Tools, RevokeGrant(p, s, tool)
        PROVE  GrantsInv'
    BY <1>1, <1>6 DEF RevokeGrant
  <1>7. ASSUME NEW p \in Ptys, NEW s \in Secrets, NEW tool \in Tools, NEW ttl \in Ttls,
               Unlock(p, s, tool, ttl)
        PROVE  GrantsInv'
    BY <1>1, <1>7 DEF Unlock
  <1> QED BY <1>2, <1>3, <1>4, <1>5, <1>6, <1>7 DEF AdminStep

\* What is locked stays so until a grant is added.
LEMMA LockedStep ==
    ASSUME GrantsInv, [Next]_vars, NEW p \in Ptys, NEW s \in Secrets, NEW tool \in Tools,
           ~Unlocked(p, s, tool), Unlocked(p, s, tool)'
    PROVE  \E g \in grants' \ grants : For(g, p, s, tool)
  <1>1. PICK g \in grants' : For(g, p, s, tool) /\ now' < g.expires
    BY DEF Unlocked, For
  <1>2. SUFFICES ASSUME g \in grants PROVE FALSE
    BY <1>1
  <1>3. now <= now' /\ now \in Nat /\ now' \in Nat /\ g.expires \in Nat
    <2>1. now' = now \/ now' = now + 1
      BY DEF Next, Tick, Sign, AdminStep, Register, RevokeCredential, Delete, Put, RevokeGrant,
             Unlock, RedeemStep, Check, Purge, Accept, RefuseReplay, Load, RefuseRows, Audit,
             Answer, Abandon, vars
    <2> QED BY <1>2, <2>1 DEF GrantsInv, TypeOK, Grants
  <1>4. bundle[s] # {}
    BY <1>1, <1>2 DEF GrantsInv, For
  <1> QED BY <1>1, <1>2, <1>3, <1>4 DEF Unlocked

\* Neither a restored secret nor the passing of time unlocks what is locked.
THEOREM Locked == Spec => StaysLocked
  <1>1. Init => GrantsInv
    BY TypeInit DEF Init, GrantsInv
  <1>2. GrantsInv /\ [Next]_vars =>
          [\A p \in Ptys, s \in Secrets, tool \in Tools :
              ~Unlocked(p, s, tool) /\ Unlocked(p, s, tool)' =>
                  \E g \in grants' \ grants : For(g, p, s, tool)]_vars
    BY LockedStep
  <1> QED BY <1>1, <1>2, GrantsStep, PTL DEF Spec, StaysLocked
=============================================================================
