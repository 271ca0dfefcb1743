------------------------------ MODULE Tenants ------------------------------
(***************************************************************************)
(* Tenants: how a service gets its token, and what becomes of a request.   *)
(*                                                                         *)
(*   issuer   one run of the program in mode "jwt": insert the tenant,     *)
(*            sign a token that names it, store the token and activate the *)
(*            tenant, print the token.  The two writes are separate calls, *)
(*            and the run may die between any two steps                    *)
(*   request  authorize: decode the token, look the tenant up, call the    *)
(*            handler                                                      *)
(*                                                                         *)
(* A token is the tenant it names and the key it was signed with: the      *)
(* tenant's id is in the claims, and no two runs insert the same tenant.   *)
(* Whoever runs the program keeps JWT_SECRET and may start the server with *)
(* another one; a year after its issue a token expires.                    *)
(***************************************************************************)
EXTENDS Integers

CONSTANTS
  TenantIds,   \* the serial of table tenants
  Issuers,     \* runs in mode "jwt"
  Requests,    \* requests that may be served at the same time
  Secrets,     \* values of JWT_SECRET
  MaxFaults    \* bound: failed calls, and runs that die

NoTenant == 0

ASSUME TenantsAssumption ==
  /\ TenantIds \subseteq Nat \ {0}
  /\ MaxFaults \in Nat

Token == [tenant: TenantIds, secret: Secrets]

NoToken == [tenant |-> NoTenant]

VARIABLES
  tenants,      \* table tenants
  issuers,      \* how far each issuer is
  handed_out,   \* tokens that were printed
  expired,      \* tenants whose token was issued more than a year ago
  secret,       \* JWT_SECRET of the server
  requests,     \* the requests under way, and how they ended
  faults

vars == <<tenants, issuers, handed_out, expired, secret, requests, faults>>

NoRow == [status |-> "none", jwt |-> NoToken]

NoRequest == [step |-> "none", token |-> NoToken]

(* Answers: "malformed" stands for a handler that ends in a panic;         *)
(* "undecoded", "failed" and "unknown" are all 401.                        *)
Answers == {"forbidden", "malformed", "undecoded", "failed", "unknown"}

TypeOK ==
  /\ tenants \in [TenantIds -> [status: {"inactive", "active"}, jwt: Token \cup {NoToken}]
                                 \cup {NoRow}]
  /\ issuers \in [Issuers -> [step: {"start", "inserted", "updated", "printed", "dead"},
                              tenant: TenantIds \cup {NoTenant}, secret: Secrets]]
  /\ handed_out \subseteq Token
  /\ expired \subseteq TenantIds
  /\ secret \in Secrets
  /\ requests \in [Requests -> [step: {"none", "decoded", "admitted"} \cup Answers,
                                token: Token \cup {NoToken}]]
  /\ faults \in 0..MaxFaults

Init ==
  /\ tenants = [n \in TenantIds |-> NoRow]
  /\ issuers \in [Issuers -> [step: {"start"}, tenant: {NoTenant}, secret: Secrets]]
  /\ handed_out = {}
  /\ expired = {}
  /\ secret \in Secrets
  /\ requests = [q \in Requests |-> NoRequest]
  /\ faults = 0

-----------------------------------------------------------------------------
(* generate_jwt.                                                           *)

(* Mutant of NextTenant: a service has one row, which is written again. *)
RowOfService(n) == \A m \in TenantIds : n <= m

(* The serial counts on, whatever became of the rows before. *)
NextTenant(n) ==
  /\ tenants[n] = NoRow
  /\ \A m \in TenantIds : m < n => tenants[m] # NoRow

(* Mutant of InitialStatus: the column's default. *)
DefaultStatus == "active"

InitialStatus == "inactive"

CreateTenantProfile(i) ==
  /\ issuers[i].step = "start"
  /\ \E n \in TenantIds :
       /\ NextTenant(n)
       /\ tenants' = [tenants EXCEPT ![n] = [status |-> InitialStatus, jwt |-> NoToken]]
       /\ issuers' = [issuers EXCEPT ![i].step = "inserted", ![i].tenant = n]
  /\ UNCHANGED <<handed_out, expired, secret, requests, faults>>

(* Mutant of TokenOf: the claims are made before the tenant has its id. *)
TokenWithoutTenant(i) == [tenant |-> NoTenant, secret |-> issuers[i].secret]

TokenOf(i) == [tenant |-> issuers[i].tenant, secret |-> issuers[i].secret]

UpdateTenantProfile(i) ==
  /\ issuers[i].step = "inserted"
  /\ tenants' = [tenants EXCEPT ![issuers[i].tenant] = [status |-> "active", jwt |-> TokenOf(i)]]
  /\ issuers' = [issuers EXCEPT ![i].step = "updated"]
  /\ UNCHANGED <<handed_out, expired, secret, requests, faults>>

(* Mutant of Printable: the token is printed as soon as it is signed. *)
PrintableOnceSigned(i) == issuers[i].step \in {"inserted", "updated"}

Printable(i) == issuers[i].step = "updated"

(* generate_jwt returns, and main prints what it got. *)
PrintToken(i) ==
  /\ Printable(i)
  /\ handed_out' = handed_out \cup {TokenOf(i)}
  /\ issuers' = [issuers EXCEPT ![i].step = "printed"]
  /\ UNCHANGED <<tenants, expired, secret, requests, faults>>

(* A call fails and main unwraps the error, or the run is stopped. *)
IssuerDies(i) ==
  /\ issuers[i].step \in {"start", "inserted", "updated"}
  /\ faults < MaxFaults
  /\ issuers' = [issuers EXCEPT ![i].step = "dead"]
  /\ faults' = faults + 1
  /\ UNCHANGED <<tenants, handed_out, expired, secret, requests>>

IssuerStep(i) ==
  CreateTenantProfile(i) \/ UpdateTenantProfile(i) \/ PrintToken(i) \/ IssuerDies(i)

(* A year after its claims were made a token is no longer valid. *)
TokenExpires(n) ==
  /\ n \notin expired /\ tenants[n] # NoRow
  /\ expired' = expired \cup {n}
  /\ UNCHANGED <<tenants, issuers, handed_out, secret, requests, faults>>

-----------------------------------------------------------------------------
(* authorize.                                                              *)

Answer(q, step) == requests' = [requests EXCEPT ![q].step = step]

(* No Authorization header, or one without a second word to unwrap. *)
RequestWithoutToken(q) ==
  /\ requests[q].step = "none"
  /\ Answer(q, "forbidden") \/ Answer(q, "malformed")
  /\ UNCHANGED <<tenants, issuers, handed_out, expired, secret, faults>>

(* decode_jwt: the signature by the server's key, and the time. *)
Decodes(token) == token.secret = secret /\ token.tenant \notin expired

(* Clients have the tokens that were handed out. *)
DecodeToken(q, token) ==
  /\ requests[q].step = "none"
  /\ requests' = [requests EXCEPT ![q] =
                    [step |-> IF Decodes(token) THEN "decoded" ELSE "undecoded",
                     token |-> token]]
  /\ UNCHANGED <<tenants, issuers, handed_out, expired, secret, faults>>

(* get_tenant_profile: WHERE id = $1 AND status = 'active'. *)
ActiveTenant(n) == tenants[n].status = "active"

LookUpTenant(q) ==
  /\ requests[q].step = "decoded"
  /\ Answer(q, IF ActiveTenant(requests[q].token.tenant) THEN "admitted" ELSE "unknown")
  /\ UNCHANGED <<tenants, issuers, handed_out, expired, secret, faults>>

(* The database refuses the query: 401 like for a tenant that is not there. *)
LookUpFails(q) ==
  /\ requests[q].step = "decoded"
  /\ faults < MaxFaults
  /\ faults' = faults + 1
  /\ Answer(q, "failed")
  /\ UNCHANGED <<tenants, issuers, handed_out, expired, secret>>

(* next.run(req): the handler answers. *)
HandlerReturns(q) ==
  /\ requests[q].step = "admitted"
  /\ requests' = [requests EXCEPT ![q] = NoRequest]
  /\ UNCHANGED <<tenants, issuers, handed_out, expired, secret, faults>>

(* The client has its answer and may ask again. *)
RequestEnds(q) ==
  /\ requests[q].step \in Answers
  /\ requests' = [requests EXCEPT ![q] = NoRequest]
  /\ UNCHANGED <<tenants, issuers, handed_out, expired, secret, faults>>

Authorize(q) ==
  \/ RequestWithoutToken(q)
  \/ \E token \in handed_out : DecodeToken(q, token)
  \/ LookUpTenant(q) \/ LookUpFails(q) \/ RequestEnds(q)

(* The server is stopped and started, with the same key or another. *)
Restart ==
  /\ secret' \in Secrets
  /\ requests' = [q \in Requests |-> NoRequest]
  /\ UNCHANGED <<tenants, issuers, handed_out, expired, faults>>

Next ==
  \/ \E i \in Issuers : IssuerStep(i)
  \/ \E n \in TenantIds : TokenExpires(n)
  \/ \E q \in Requests : Authorize(q) \/ HandlerReturns(q)
  \/ Restart

Spec == Init /\ [][Next]_vars

-----------------------------------------------------------------------------
(* Properties.                                                             *)

(* A token that decodes names an active tenant: whoever was given a token  *)
(* is never told that the tenant is not there, also right after the issue, *)
(* beside other issuers, and after runs that died half way.                *)
IssuedTokensAreKnown ==
  \A q \in Requests : requests[q].step # "unknown"

(* A tenant is active exactly with the token that was signed for it: an    *)
(* issue that was cut short leaves an inactive tenant without a token.     *)
ActiveTenantsHoldTheirToken ==
  \A n \in TenantIds :
    (tenants[n].status = "active") <=> (tenants[n].jwt.tenant = n)

(* A token, once printed, stays what the table has for its tenant: no      *)
(* later run of the program makes it worthless.                            *)
HandedOutTokensStay ==
  \A token \in handed_out : tenants[token.tenant].jwt = token
=============================================================================
