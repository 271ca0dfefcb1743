------------------------------ MODULE Service ------------------------------
(***************************************************************************)
(* The HTTP side: a reader of Statement gets its pages through requests of *)
(* Tenants.  Each page is a request of its own, which authorize may refuse *)
(* and a restart may drop; the reader then asks for the same page again.   *)
(***************************************************************************)
EXTENDS Tenants, Statement

serviceVars == <<vars, statementVars>>

ServiceInit == Init /\ StatementInit

(* A request that is admitted reads a page of the list, *)
ServePage(q) == HandlerReturns(q) /\ ReadPage

(* or does something else, or fails in the handler. *)
ServeOther(q) == HandlerReturns(q) /\ UNCHANGED statementVars

ServiceNext ==
  \/ \E q \in Requests : ServePage(q) \/ ServeOther(q)
  \/ /\ \/ \E i \in Issuers : IssuerStep(i)
        \/ \E n \in TenantIds : TokenExpires(n)
        \/ \E q \in Requests : Authorize(q)
        \/ Restart
     /\ UNCHANGED statementVars
  \/ /\ \/ \E a \in Amounts : Record(a)
        \/ \E n \in DOMAIN transactions : Complete(n)
        \/ ReadAgain
     /\ UNCHANGED vars

ServiceSpec == ServiceInit /\ [][ServiceNext]_serviceVars

ServiceTypeOK == TypeOK /\ StatementTypeOK
=============================================================================
