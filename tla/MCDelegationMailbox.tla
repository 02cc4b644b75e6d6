------------------------- MODULE MCDelegationMailbox -------------------------
(* Two reports, two deliveries at a time, and the rare events that bear on each   *)
(* other: with a takeover at any moment, or with a crash.                        *)
EXTENDS DelegationMailbox

Events ==
  {{"takeover"} \cup some : some \in
     {{"crash"}, {"slow", "retry"}, {"error", "retry"}, {"error", "replay"},
      {"retry", "seen"}, {"shut"}, {"fate"}}}
  \cup {{"crash", "retry", "slow"}, {"shut", "retry"}, {"user", "refused"}}
=============================================================================
