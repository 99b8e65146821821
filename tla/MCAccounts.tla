----------------------------- MODULE MCAccounts -----------------------------
(***************************************************************************)
(* Who may do what on the server by OAuth and API tokens.  The operations  *)
(* of OAuth are checked in two groups, each beside the exchange of codes   *)
(* and refreshes; which says of which group a behaviour is.                *)
(*                                                                         *)
(* The lifetimes keep the order of the source: grace, code and access      *)
(* below idle, idle below absolute.                                        *)
(***************************************************************************)
EXTENDS OAuth, TLC

CONSTANTS
  r1, r2, c1,
  FewPairs, FewTicks  \* the bounds of the second group

VARIABLE which

Symmetry == Permutations(Requests)

SuiteInit == Init /\ which \in {"refreshes", "calls"}

Common ==
  \/ Tick
  \/ OAuthAuthorizeDecision
  \/ \E r \in Requests :
       \/ OAuthRegister(r) \/ InsertClient(r)
       \/ OAuthToken(r) \/ CreateGrant(r)
       \/ ReadGrant(r) \/ Replay(r) \/ Rotate(r) \/ RejectGrant(r)

(* Refreshes, replays and revocations of one grant, with restarts.         *)
Refreshes ==
  \/ Common \/ Restart
  \/ \E r \in Requests : OAuthRevoke(r) \/ FinishRevoke(r)

(* Codes exchanged twice, tokens in use and deletions, with failures.      *)
Calls ==
  /\ \/ Common
     \/ RevokeMCPConnection \/ RevokeAPIToken \/ IssueAPIToken
     \/ \E r \in Requests :
          \/ MCPCall(r) \/ Touch(r) \/ CheckAudience(r)
          \/ DatabaseFails(r)
  /\ next' <= FewPairs + 1 /\ now' <= FewTicks

SuiteNext ==
  /\ \/ which = "refreshes" /\ Refreshes
     \/ which = "calls" /\ Calls
  /\ UNCHANGED which

SuiteSpec == SuiteInit /\ [][SuiteNext]_<<vars, which>>
=============================================================================
