--------------------------- MODULE MCSessionPolicy ---------------------------
EXTENDS SessionPolicy

On(v) == [enabled |-> TRUE, allow |-> TRUE, vis |-> v]
(* Actions allowed under two visibilities, and each of the two switches    *)
(* turned off.                                                             *)
MCPolicies ==
    {On("full"), On("masked"),
     [enabled |-> TRUE, allow |-> FALSE, vis |-> "full"],
     [enabled |-> FALSE, allow |-> TRUE, vis |-> "full"]}
MCFirst == On("full")
MCOff == [enabled |-> TRUE, allow |-> FALSE, vis |-> "full"]
=============================================================================
