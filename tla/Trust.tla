-------------------------------- MODULE Trust --------------------------------
(***************************************************************************)
(* Whom the pub trusts: the hub's published keys (JwtValidator) or itself  *)
(* (LocalTrust), by OPENPUB_TRUST_MODE.  In hub mode nothing of the local  *)
(* authority is initialised and its routes answer 404; in local mode the   *)
(* validator has the issuer's key and never asks the hub.                  *)
(***************************************************************************)
EXTENDS JwtValidator, LocalTrust

trustVars == <<vars, localVars>>

HubMode == process = "hub"

TrustInit ==
    /\ Init
    /\ LocalInit
    /\ HubMode \/ published = Keys

TrustNext ==
    \/ HubMode /\ Next /\ UNCHANGED localVars
    \/ LocalNext /\ UNCHANGED vars

TrustSpec == TrustInit /\ [][TrustNext]_trustVars /\ Fairness /\ LocalFairness
=============================================================================
