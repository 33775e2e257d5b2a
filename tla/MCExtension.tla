----------------------------- MODULE MCExtension -----------------------------
(* The extension's requests and its grants: a behaviour is of one of them,   *)
(* for they share nothing but the answer to `contains`.                      *)
EXTENDS PageRequests, GrantPopup

VARIABLE side

mcVars == <<side, requestVars, grantPopupVars>>

\* The side a behaviour is not of rests in one of its initial states.
NoRequests == InitRequests /\ op = [r \in Requests |-> "health"]
NoPopup == InitPopup /\ granted = {} /\ site = [t \in Tabs |-> NoSite]
           /\ active = CHOOSE t \in Tabs : TRUE

MCInit ==
  \/ side = "requests" /\ InitRequests /\ NoPopup
  \/ side = "grants" /\ NoRequests /\ InitPopup

MCNext ==
  /\ UNCHANGED side
  /\ \/ side = "requests" /\ NextRequests /\ UNCHANGED grantPopupVars
     \/ side = "grants" /\ NextPopup /\ UNCHANGED requestVars

MCSpec == MCInit /\ [][MCNext]_mcVars
=============================================================================
