------------------------------ MODULE MCPubSub ------------------------------
EXTENDS PubSub, TLC

CONSTANTS m1, m2, bad

\* A message for both reactors, one for the second only, and one that cannot
\* be converted and would match the first if it could.
MC_DueOf == m1 :> {1, 2} @@ m2 :> {2} @@ bad :> {1}
=============================================================================
