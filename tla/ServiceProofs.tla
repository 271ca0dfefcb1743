--------------------------- MODULE ServiceProofs ---------------------------
(***************************************************************************)
(* Proofs about Tenants, for any number of issuers, tenants, requests,     *)
(* keys and failures, and about Service, which puts the list of Statement  *)
(* behind authorize.                                                       *)
(*                                                                         *)
(* What a request may rely on is said by the row of its token's tenant,    *)
(* and what the row has is said by how far the issuer that inserted it is. *)
(* The inductive invariant therefore ties each issuer to a row of its own: *)
(* no two have the same, and a row that is active was made so by its       *)
(* issuer, with the token that the issuer prints.                          *)
(*                                                                         *)
(* Service implements both its parts: a step of it is a step of Tenants,   *)
(* or leaves Tenants alone, and likewise for Statement.  What was proved   *)
(* of the parts therefore holds of pages that are read through requests.   *)
(***************************************************************************)
EXTENDS Service, StatementProofs

(* A row is missing, inactive without a token, or active with its own. *)
RowsAreWhole ==
  \A n \in TenantIds :
    \/ tenants[n] = NoRow
    \/ tenants[n] = [status |-> "inactive", jwt |-> NoToken]
    \/ tenants[n].status = "active" /\ tenants[n].jwt \in Token /\ tenants[n].jwt.tenant = n

(* An issuer's tenant is in the table, and nobody else's. *)
IssuersOwnTenants ==
  /\ \A i \in Issuers : issuers[i].step = "start" => issuers[i].tenant = NoTenant
  /\ \A i \in Issuers :
       issuers[i].step \in {"inserted", "updated", "printed"} => issuers[i].tenant \in TenantIds
  /\ \A i \in Issuers : issuers[i].tenant # NoTenant => tenants[issuers[i].tenant] # NoRow
  /\ \A i \in Issuers : \A j \in Issuers :
       issuers[i].tenant = issuers[j].tenant => i = j \/ issuers[i].tenant = NoTenant

(* The row is as its issuer left it. *)
RowsFollowIssuers ==
  /\ \A i \in Issuers : issuers[i].step = "inserted" =>
       tenants[issuers[i].tenant] = [status |-> "inactive", jwt |-> NoToken]
  /\ \A i \in Issuers : issuers[i].step = "updated" =>
       /\ tenants[issuers[i].tenant].status = "active"
       /\ tenants[issuers[i].tenant].jwt = TokenOf(i)

(* A printed token is the one of an active row. *)
HandedOutTokensAreActive ==
  \A token \in handed_out :
    tenants[token.tenant].status = "active" /\ tenants[token.tenant].jwt = token

(* A request that got through the decoder has a printed token. *)
RequestsHoldPrintedTokens ==
  /\ \A q \in Requests : requests[q].step = "decoded" => requests[q].token \in handed_out
  /\ IssuedTokensAreKnown

TInv ==
  /\ TypeOK
  /\ RowsAreWhole
  /\ IssuersOwnTenants
  /\ RowsFollowIssuers
  /\ HandedOutTokensAreActive
  /\ RequestsHoldPrintedTokens

-----------------------------------------------------------------------------
LEMMA TInvInit == Init => TInv
  <1> SUFFICES ASSUME Init PROVE TInv
    OBVIOUS
  <1> USE DEF Init
  <1>1. TypeOK
    BY TenantsAssumption DEF TypeOK, NoRow, NoRequest, NoTenant
  <1>2. RowsAreWhole
    BY DEF RowsAreWhole
  <1>3. IssuersOwnTenants
    BY DEF IssuersOwnTenants, NoTenant
  <1>4. RowsFollowIssuers
    BY DEF RowsFollowIssuers
  <1>5. HandedOutTokensAreActive /\ RequestsHoldPrintedTokens
    BY DEF HandedOutTokensAreActive, RequestsHoldPrintedTokens, IssuedTokensAreKnown, NoRequest
  <1> QED
    BY <1>1, <1>2, <1>3, <1>4, <1>5 DEF TInv

(* The insert: a row of a tenant that nobody has. *)
LEMMA CreateKeepsTInv ==
  ASSUME TInv, NEW i \in Issuers, CreateTenantProfile(i)
  PROVE  TInv'
  <1> PICK n \in TenantIds :
        /\ tenants[n] = NoRow
        /\ tenants' = [tenants EXCEPT ![n] = [status |-> "inactive", jwt |-> NoToken]]
        /\ issuers' = [issuers EXCEPT ![i].step = "inserted", ![i].tenant = n]
    BY DEF CreateTenantProfile, NextTenant, InitialStatus
  <1> /\ issuers[i].step = "start"
      /\ UNCHANGED <<handed_out, expired, secret, requests, faults>>
    BY DEF CreateTenantProfile
  <1>0. TypeOK
    BY DEF TInv
  <1>1. issuers'[i] = [issuers[i] EXCEPT !.step = "inserted", !.tenant = n]
    BY <1>0 DEF TypeOK
  <1>2. \A j \in Issuers : j # i => issuers'[j] = issuers[j]
    BY <1>0 DEF TypeOK
  <1>3. /\ tenants'[n] = [status |-> "inactive", jwt |-> NoToken]
        /\ \A m \in TenantIds : m # n => tenants'[m] = tenants[m]
    BY <1>0 DEF TypeOK
  <1>4. issuers'[i].step = "inserted" /\ issuers'[i].tenant = n /\ n # NoTenant
    BY <1>0, <1>1, TenantsAssumption DEF TypeOK, NoTenant
  <1>5. \A j \in Issuers : j # i => issuers[j].tenant # n
    BY TenantsAssumption, <1>4 DEF TInv, IssuersOwnTenants
  <1>6. TypeOK'
    <2>1. tenants' \in [TenantIds -> [status: {"inactive", "active"}, jwt: Token \cup {NoToken}]
                                       \cup {NoRow}]
      BY <1>0 DEF TypeOK
    <2>2. issuers' \in [Issuers -> [step: {"start", "inserted", "updated", "printed", "dead"},
                                    tenant: TenantIds \cup {NoTenant}, secret: Secrets]]
      BY <1>0 DEF TypeOK
    <2> QED
      BY <1>0, <2>1, <2>2 DEF TypeOK
  <1>7. RowsAreWhole'
    BY <1>3 DEF TInv, RowsAreWhole
  <1>8. NoRow # [status |-> "inactive", jwt |-> NoToken]
    BY DEF NoRow
  <1>9. IssuersOwnTenants'
    <2>1. \A j \in Issuers : issuers'[j].step = "start" => issuers'[j].tenant = NoTenant
      BY <1>2, <1>4 DEF TInv, IssuersOwnTenants
    <2>2. \A j \in Issuers : issuers'[j].step \in {"inserted", "updated", "printed"} =>
            issuers'[j].tenant \in TenantIds
      BY <1>2, <1>4 DEF TInv, IssuersOwnTenants
    <2>3. \A j \in Issuers : issuers'[j].tenant # NoTenant => tenants'[issuers'[j].tenant] # NoRow
      BY <1>0, <1>2, <1>3, <1>4, <1>5, <1>8 DEF TInv, IssuersOwnTenants, TypeOK
    <2>4. ASSUME NEW j \in Issuers, NEW k \in Issuers, issuers'[j].tenant = issuers'[k].tenant
          PROVE  j = k \/ issuers'[j].tenant = NoTenant
      <3>1. CASE j = i \/ k = i
        BY <1>2, <1>4, <1>5, <2>4, <3>1
      <3>2. CASE j # i /\ k # i
        BY <1>2, <2>4, <3>2 DEF TInv, IssuersOwnTenants
      <3> QED
        BY <3>1, <3>2
    <2> QED
      BY <2>1, <2>2, <2>3, <2>4 DEF IssuersOwnTenants
  <1>10. RowsFollowIssuers'
    <2>1. ASSUME NEW j \in Issuers, issuers'[j].step = "inserted"
          PROVE  tenants'[issuers'[j].tenant] = [status |-> "inactive", jwt |-> NoToken]
      <3>1. CASE j = i
        BY <1>3, <1>4, <3>1
      <3>2. CASE j # i
        <4>1. issuers'[j] = issuers[j]
          BY <1>2, <3>2
        <4>2. tenants'[issuers[j].tenant] = tenants[issuers[j].tenant]
          BY <1>3, <1>5, <2>1, <3>2, <4>1 DEF TInv, IssuersOwnTenants
        <4> QED
          BY <2>1, <4>1, <4>2 DEF TInv, RowsFollowIssuers
      <3> QED
        BY <3>1, <3>2
    <2>2. ASSUME NEW j \in Issuers, issuers'[j].step = "updated"
          PROVE  /\ tenants'[issuers'[j].tenant].status = "active"
                 /\ tenants'[issuers'[j].tenant].jwt = TokenOf(j)'
      <3>1. j # i /\ issuers'[j] = issuers[j] /\ TokenOf(j)' = TokenOf(j)
        BY <1>2, <1>4, <2>2 DEF TokenOf
      <3>2. tenants'[issuers[j].tenant] = tenants[issuers[j].tenant]
        BY <1>3, <1>5, <2>2, <3>1 DEF TInv, IssuersOwnTenants
      <3> QED
        BY <2>2, <3>1, <3>2 DEF TInv, RowsFollowIssuers
    <2> QED
      BY <2>1, <2>2 DEF RowsFollowIssuers
  <1>11. HandedOutTokensAreActive'
    <2>1. \A token \in handed_out : token.tenant \in TenantIds /\ token.tenant # n
      BY <1>0 DEF TInv, HandedOutTokensAreActive, TypeOK, Token, NoRow
    <2> QED
      BY <1>3, <2>1 DEF TInv, HandedOutTokensAreActive
  <1>12. RequestsHoldPrintedTokens'
    BY DEF TInv, RequestsHoldPrintedTokens, IssuedTokensAreKnown
  <1> QED
    BY <1>6, <1>7, <1>9, <1>10, <1>11, <1>12 DEF TInv

(* The activation: no one else looks at the row of this issuer. *)
LEMMA UpdateKeepsTInv ==
  ASSUME TInv, NEW i \in Issuers, UpdateTenantProfile(i)
  PROVE  TInv'
  <1> DEFINE n == issuers[i].tenant
  <1> USE DEF UpdateTenantProfile
  <1>0. TypeOK
    BY DEF TInv
  <1>1. n \in TenantIds /\ n # NoTenant
    BY TenantsAssumption DEF TInv, IssuersOwnTenants, NoTenant
  <1>2. TokenOf(i) \in Token /\ TokenOf(i).tenant = n
    BY <1>0, <1>1 DEF TypeOK, TokenOf, Token
  <1>3. issuers'[i] = [issuers[i] EXCEPT !.step = "updated"]
    BY <1>0 DEF TypeOK
  <1>4. \A j \in Issuers : j # i => issuers'[j] = issuers[j]
    BY <1>0 DEF TypeOK
  <1>5. issuers'[i].step = "updated" /\ issuers'[i].tenant = n /\ TokenOf(i)' = TokenOf(i)
    BY <1>0, <1>3 DEF TypeOK, TokenOf
  <1>6. \A j \in Issuers : j # i => issuers[j].tenant # n
    BY <1>1 DEF TInv, IssuersOwnTenants
  <1>7. /\ tenants'[n] = [status |-> "active", jwt |-> TokenOf(i)]
        /\ \A m \in TenantIds : m # n => tenants'[m] = tenants[m]
    BY <1>0, <1>1 DEF TypeOK
  <1>8. TypeOK'
    <2>1. tenants' \in [TenantIds -> [status: {"inactive", "active"}, jwt: Token \cup {NoToken}]
                                       \cup {NoRow}]
      BY <1>0, <1>2 DEF TypeOK
    <2>2. issuers' \in [Issuers -> [step: {"start", "inserted", "updated", "printed", "dead"},
                                    tenant: TenantIds \cup {NoTenant}, secret: Secrets]]
      BY <1>0 DEF TypeOK
    <2> QED
      BY <1>0, <2>1, <2>2 DEF TypeOK
  <1>9. RowsAreWhole'
    BY <1>2, <1>7 DEF TInv, RowsAreWhole
  <1>10. IssuersOwnTenants'
    <2>1. \A j \in Issuers : issuers'[j].step = "start" => issuers'[j].tenant = NoTenant
      BY <1>4, <1>5 DEF TInv, IssuersOwnTenants
    <2>2. \A j \in Issuers : issuers'[j].step \in {"inserted", "updated", "printed"} =>
            issuers'[j].tenant \in TenantIds
      BY <1>1, <1>4, <1>5 DEF TInv, IssuersOwnTenants
    <2>3. \A j \in Issuers : issuers'[j].tenant # NoTenant => tenants'[issuers'[j].tenant] # NoRow
      BY <1>0, <1>4, <1>5, <1>6, <1>7 DEF TInv, IssuersOwnTenants, TypeOK, NoRow
    <2>4. \A j \in Issuers : \A k \in Issuers :
            issuers'[j].tenant = issuers'[k].tenant => j = k \/ issuers'[j].tenant = NoTenant
      BY <1>4, <1>5, <1>6 DEF TInv, IssuersOwnTenants
    <2> QED
      BY <2>1, <2>2, <2>3, <2>4 DEF IssuersOwnTenants
  <1>11. RowsFollowIssuers'
    <2>1. \A j \in Issuers : issuers'[j].step = "inserted" =>
            tenants'[issuers'[j].tenant] = [status |-> "inactive", jwt |-> NoToken]
      BY <1>4, <1>5, <1>6, <1>7 DEF TInv, RowsFollowIssuers, IssuersOwnTenants
    <2>2. ASSUME NEW j \in Issuers, issuers'[j].step = "updated"
          PROVE  /\ tenants'[issuers'[j].tenant].status = "active"
                 /\ tenants'[issuers'[j].tenant].jwt = TokenOf(j)'
      <3>1. CASE j = i
        BY <1>5, <1>7, <3>1
      <3>2. CASE j # i
        <4>1. issuers'[j] = issuers[j] /\ TokenOf(j)' = TokenOf(j)
          BY <1>4, <3>2 DEF TokenOf
        <4>2. tenants'[issuers[j].tenant] = tenants[issuers[j].tenant]
          BY <1>6, <1>7, <2>2, <3>2, <4>1 DEF TInv, IssuersOwnTenants
        <4> QED
          BY <2>2, <4>1, <4>2 DEF TInv, RowsFollowIssuers
      <3> QED
        BY <3>1, <3>2
    <2> QED
      BY <2>1, <2>2 DEF RowsFollowIssuers
  <1>12. tenants[n].status # "active"
    BY DEF TInv, RowsFollowIssuers
  <1>13. HandedOutTokensAreActive'
    <2>1. \A token \in handed_out : token.tenant \in TenantIds /\ token.tenant # n
      BY <1>0, <1>12 DEF TInv, HandedOutTokensAreActive, TypeOK, Token
    <2> QED
      BY <1>7, <2>1 DEF TInv, HandedOutTokensAreActive
  <1>14. RequestsHoldPrintedTokens'
    BY DEF TInv, RequestsHoldPrintedTokens, IssuedTokensAreKnown
  <1> QED
    BY <1>8, <1>9, <1>10, <1>11, <1>13, <1>14 DEF TInv

(* The token is printed when its row is active. *)
LEMMA PrintKeepsTInv ==
  ASSUME TInv, NEW i \in Issuers, PrintToken(i)
  PROVE  TInv'
  <1> USE DEF PrintToken, Printable
  <1>0. TypeOK
    BY DEF TInv
  <1>1. TokenOf(i) \in Token
    BY <1>0 DEF TInv, IssuersOwnTenants, TypeOK, TokenOf, Token
  <1>2. \A j \in Issuers : /\ issuers'[j].tenant = issuers[j].tenant
                           /\ TokenOf(j)' = TokenOf(j)
                           /\ issuers'[j].step = IF j = i THEN "printed" ELSE issuers[j].step
    BY <1>0 DEF TypeOK, TokenOf
  <1>3. TypeOK'
    <2>1. issuers' \in [Issuers -> [step: {"start", "inserted", "updated", "printed", "dead"},
                                    tenant: TenantIds \cup {NoTenant}, secret: Secrets]]
      BY <1>0 DEF TypeOK
    <2> QED
      BY <1>0, <1>1, <2>1 DEF TypeOK
  <1>4. RowsAreWhole'
    BY DEF TInv, RowsAreWhole
  <1>5. IssuersOwnTenants' /\ RowsFollowIssuers'
    BY <1>2 DEF TInv, IssuersOwnTenants, RowsFollowIssuers
  <1>6. HandedOutTokensAreActive'
    BY DEF TInv, RowsFollowIssuers, HandedOutTokensAreActive, TokenOf
  <1>7. RequestsHoldPrintedTokens'
    BY DEF TInv, RequestsHoldPrintedTokens, IssuedTokensAreKnown
  <1> QED
    BY <1>3, <1>4, <1>5, <1>6, <1>7 DEF TInv

LEMMA DeathKeepsTInv ==
  ASSUME TInv, NEW i \in Issuers, IssuerDies(i)
  PROVE  TInv'
  <1> USE DEF IssuerDies
  <1>0. TypeOK
    BY DEF TInv
  <1>1. \A j \in Issuers : /\ issuers'[j].tenant = issuers[j].tenant
                           /\ TokenOf(j)' = TokenOf(j)
                           /\ issuers'[j].step = IF j = i THEN "dead" ELSE issuers[j].step
    BY <1>0 DEF TypeOK, TokenOf
  <1>2. TypeOK'
    <2>1. issuers' \in [Issuers -> [step: {"start", "inserted", "updated", "printed", "dead"},
                                    tenant: TenantIds \cup {NoTenant}, secret: Secrets]]
      BY <1>0 DEF TypeOK
    <2>2. faults' \in 0..MaxFaults
      BY <1>0, TenantsAssumption DEF TypeOK
    <2> QED
      BY <1>0, <2>1, <2>2 DEF TypeOK
  <1>3. RowsAreWhole' /\ HandedOutTokensAreActive' /\ RequestsHoldPrintedTokens'
    BY DEF TInv, RowsAreWhole, HandedOutTokensAreActive, RequestsHoldPrintedTokens,
           IssuedTokensAreKnown
  <1>4. IssuersOwnTenants' /\ RowsFollowIssuers'
    BY <1>1 DEF TInv, IssuersOwnTenants, RowsFollowIssuers
  <1> QED
    BY <1>2, <1>3, <1>4 DEF TInv

(* What a request does changes no row, no issuer and no token. *)
LEMMA RequestsKeepTInv ==
  ASSUME TInv, UNCHANGED <<tenants, issuers, handed_out>>,
         expired' \subseteq TenantIds, secret' \in Secrets, faults' \in 0..MaxFaults,
         requests' \in [Requests -> [step: {"none", "decoded", "admitted"} \cup Answers,
                                     token: Token \cup {NoToken}]],
         \A q \in Requests : requests'[q].step = "decoded" => requests'[q].token \in handed_out,
         \A q \in Requests : requests'[q].step # "unknown"
  PROVE  TInv'
  <1>1. TypeOK'
    BY DEF TInv, TypeOK
  <1>2. RowsAreWhole' /\ HandedOutTokensAreActive'
    BY DEF TInv, RowsAreWhole, HandedOutTokensAreActive
  <1>3. IssuersOwnTenants' /\ RowsFollowIssuers'
    BY DEF TInv, IssuersOwnTenants, RowsFollowIssuers, TokenOf
  <1>4. RequestsHoldPrintedTokens'
    BY DEF RequestsHoldPrintedTokens, IssuedTokensAreKnown
  <1> QED
    BY <1>1, <1>2, <1>3, <1>4 DEF TInv

(* Only a request that is in the decoder's hands can be told "unknown",    *)
(* and the row of its token is active.                                     *)
LEMMA AuthorizeKeepsTInv ==
  ASSUME TInv, NEW q \in Requests, Authorize(q) \/ HandlerReturns(q)
  PROVE  TInv'
  <1> USE DEF Answer, Answers, NoRequest
  <1>0. TypeOK
    BY DEF TInv
  <1>1. /\ \A p \in Requests : requests[p].step = "decoded" => requests[p].token \in handed_out
        /\ \A p \in Requests : requests[p].step # "unknown"
    BY DEF TInv, RequestsHoldPrintedTokens, IssuedTokensAreKnown
  <1>2. faults + 1 \in 0..MaxFaults \/ ~(faults < MaxFaults)
    BY <1>0, TenantsAssumption DEF TypeOK
  <1>3. CASE RequestWithoutToken(q)
    <2>1. PICK s \in {"forbidden", "malformed"} : requests' = [requests EXCEPT ![q].step = s]
      BY <1>3 DEF RequestWithoutToken
    <2> QED
      BY <1>0, <1>1, <1>3, <2>1, RequestsKeepTInv DEF RequestWithoutToken, TypeOK
  <1>4. ASSUME NEW token \in handed_out, DecodeToken(q, token)
        PROVE  TInv'
    <2>1. token \in Token
      BY <1>0 DEF TypeOK
    <2>2. PICK s \in {"decoded", "undecoded"} :
            requests' = [requests EXCEPT ![q] = [step |-> s, token |-> token]]
      BY <1>4 DEF DecodeToken
    <2> QED
      BY <1>0, <1>1, <1>4, <2>1, <2>2, RequestsKeepTInv DEF DecodeToken, TypeOK
  <1>5. CASE LookUpTenant(q)
    <2>1. requests[q].token \in handed_out
      BY <1>1, <1>5 DEF LookUpTenant
    <2>2. ActiveTenant(requests[q].token.tenant)
      BY <2>1 DEF TInv, HandedOutTokensAreActive, ActiveTenant
    <2>3. requests' = [requests EXCEPT ![q].step = "admitted"]
      BY <1>5, <2>2 DEF LookUpTenant
    <2> QED
      BY <1>0, <1>1, <1>5, <2>3, RequestsKeepTInv DEF LookUpTenant, TypeOK
  <1>6. CASE LookUpFails(q)
    BY <1>0, <1>1, <1>2, <1>6, RequestsKeepTInv DEF LookUpFails, TypeOK
  <1>7. CASE RequestEnds(q)
    BY <1>0, <1>1, <1>7, RequestsKeepTInv DEF RequestEnds, TypeOK
  <1>8. CASE HandlerReturns(q)
    BY <1>0, <1>1, <1>8, RequestsKeepTInv DEF HandlerReturns, TypeOK
  <1> QED
    BY <1>3, <1>4, <1>5, <1>6, <1>7, <1>8 DEF Authorize

LEMMA TInvNext == TInv /\ [Next]_vars => TInv'
  <1> SUFFICES ASSUME TInv, [Next]_vars PROVE TInv'
    OBVIOUS
  <1>0. TypeOK
    BY DEF TInv
  <1>1. /\ \A p \in Requests : requests[p].step = "decoded" => requests[p].token \in handed_out
        /\ \A p \in Requests : requests[p].step # "unknown"
    BY DEF TInv, RequestsHoldPrintedTokens, IssuedTokensAreKnown
  <1>2. ASSUME NEW i \in Issuers, IssuerStep(i) PROVE TInv'
    BY <1>2, CreateKeepsTInv, UpdateKeepsTInv, PrintKeepsTInv, DeathKeepsTInv DEF IssuerStep
  <1>3. ASSUME NEW n \in TenantIds, TokenExpires(n) PROVE TInv'
    BY <1>0, <1>1, <1>3, RequestsKeepTInv DEF TokenExpires, TypeOK
  <1>4. ASSUME NEW q \in Requests, Authorize(q) \/ HandlerReturns(q) PROVE TInv'
    BY <1>4, AuthorizeKeepsTInv
  <1>5. CASE Restart
    BY <1>0, <1>5, RequestsKeepTInv DEF Restart, TypeOK, NoRequest
  <1>6. CASE UNCHANGED vars
    BY <1>0, <1>1, <1>6, RequestsKeepTInv DEF vars, TypeOK
  <1> QED
    BY <1>2, <1>3, <1>4, <1>5, <1>6 DEF Next

(* The inductive invariant of Tenants holds in every reachable state. *)
THEOREM TenantsInvariant == Spec => []TInv
  BY TInvInit, TInvNext, PTL DEF Spec

-----------------------------------------------------------------------------
(* Every variable of Tenants stays in its type. *)
THEOREM TenantsTypeCorrect == Spec => []TypeOK
  <1>1. TInv => TypeOK
    BY DEF TInv
  <1> QED
    BY <1>1, TenantsInvariant, PTL

(* generate_jwt and authorize: no token that decodes is refused because    *)
(* its tenant is not there or not active.                                  *)
THEOREM IssuedTokensAreKnownAlways == Spec => []IssuedTokensAreKnown
  <1>1. TInv => IssuedTokensAreKnown
    BY DEF TInv, RequestsHoldPrintedTokens
  <1> QED
    BY <1>1, TenantsInvariant, PTL

(* generate_jwt: exactly the active tenants have a token, and it names     *)
(* them.                                                                   *)
THEOREM ActiveTenantsHoldTheirTokenAlways == Spec => []ActiveTenantsHoldTheirToken
  <1>1. TInv => ActiveTenantsHoldTheirToken
    <2> SUFFICES ASSUME TInv, NEW n \in TenantIds
                 PROVE  (tenants[n].status = "active") <=> (tenants[n].jwt.tenant = n)
      BY DEF ActiveTenantsHoldTheirToken
    <2>1. n # NoTenant
      BY TenantsAssumption DEF NoTenant
    <2> QED
      BY <2>1 DEF TInv, RowsAreWhole, NoRow, NoToken
  <1> QED
    BY <1>1, TenantsInvariant, PTL

(* generate_jwt: no later issue overwrites a token that was printed. *)
THEOREM HandedOutTokensStayAlways == Spec => []HandedOutTokensStay
  <1>1. TInv => HandedOutTokensStay
    BY DEF TInv, HandedOutTokensAreActive, HandedOutTokensStay
  <1> QED
    BY <1>1, TenantsInvariant, PTL

-----------------------------------------------------------------------------
(* Service implements Tenants and Statement.                               *)

LEMMA ServiceStepIsTenantsStep == [ServiceNext]_serviceVars => [Next]_vars
  <1> SUFFICES ASSUME [ServiceNext]_serviceVars PROVE [Next]_vars
    OBVIOUS
  <1>1. ASSUME NEW q \in Requests, ServePage(q) \/ ServeOther(q) PROVE Next
    BY <1>1 DEF ServePage, ServeOther, Next
  <1>2. CASE \/ \E i \in Issuers : IssuerStep(i)
             \/ \E n \in TenantIds : TokenExpires(n)
             \/ \E q \in Requests : Authorize(q)
             \/ Restart
    BY <1>2 DEF Next
  <1>3. CASE UNCHANGED vars
    BY <1>3
  <1>4. CASE UNCHANGED serviceVars
    BY <1>4 DEF serviceVars
  <1> QED
    BY <1>1, <1>2, <1>3, <1>4 DEF ServiceNext

LEMMA ServiceStepIsStatementStep == [ServiceNext]_serviceVars => [StatementNext]_statementVars
  <1> SUFFICES ASSUME [ServiceNext]_serviceVars PROVE [StatementNext]_statementVars
    OBVIOUS
  <1>1. ASSUME NEW q \in Requests, ServePage(q) \/ ServeOther(q)
        PROVE  [StatementNext]_statementVars
    BY <1>1 DEF ServePage, ServeOther, StatementNext
  <1>2. CASE UNCHANGED statementVars
    BY <1>2
  <1>3. CASE \/ \E a \in Amounts : Record(a)
             \/ \E n \in DOMAIN transactions : Complete(n)
             \/ ReadAgain
    BY <1>3 DEF StatementNext
  <1>4. CASE UNCHANGED serviceVars
    BY <1>4 DEF serviceVars
  <1> QED
    BY <1>1, <1>2, <1>3, <1>4 DEF ServiceNext

(* The router behind authorize changes nothing about tenants. *)
THEOREM ServiceImplementsTenants == ServiceSpec => Spec
  <1>1. ServiceInit => Init
    BY DEF ServiceInit
  <1> QED
    BY <1>1, ServiceStepIsTenantsStep, PTL DEF ServiceSpec, Spec

(* Nor does it change what a client sees of the list, page by page. *)
THEOREM ServiceImplementsStatement == ServiceSpec => StatementSpec
  <1>1. ServiceInit => StatementInit
    BY DEF ServiceInit
  <1> QED
    BY <1>1, ServiceStepIsStatementStep, PTL DEF ServiceSpec, StatementSpec

-----------------------------------------------------------------------------
(* Every variable of the HTTP side stays in its type. *)
THEOREM ServiceTypeCorrect == ServiceSpec => []ServiceTypeOK
  <1>1. TypeOK /\ NInv => ServiceTypeOK
    BY DEF ServiceTypeOK, NInv
  <1> QED
    BY <1>1, ServiceImplementsTenants, ServiceImplementsStatement, TenantsTypeCorrect,
       StatementInvariant, PTL

(* No client with a token that decodes is told that its tenant is unknown, *)
(* whatever the server does for it and however often it is restarted.      *)
THEOREM ServiceKnowsItsTokens == ServiceSpec => []IssuedTokensAreKnown
  BY ServiceImplementsTenants, IssuedTokensAreKnownAlways, PTL

(* A list read through requests that are refused, repeated or dropped by a *)
(* restart still has every transaction that was there at the start.        *)
THEOREM ServiceSkipsNothing == ServiceSpec => []NothingIsSkipped
  BY ServiceImplementsStatement, NothingIsSkippedAlways, PTL
=============================================================================
