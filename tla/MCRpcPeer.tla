----------------------------- MODULE MCRpcPeer -----------------------------
(* The calls of the host beside a request and a dialogue of the plugin, and all
   messages of the plugin beside no call. *)
EXTENDS RpcPeer, TLC

CONSTANTS
    Large,  \* the messages of the largest size; the others have size 1
    Few     \* those that the plugin sends while the host calls

VARIABLE part

MCSize == [r \in Requests |-> IF r \in Large THEN LargestMessage ELSE 1]

MCInit == RpcInit /\ part \in {"calls", "messages"}

MCNext ==
    /\ RpcNext /\ UNCHANGED part
    /\ part = "calls" => \A r \in Requests \ Few : stage'[r] = "idle"
    /\ part = "messages" => \A c \in Calls : calls'[c] = "idle"

MCSpec == MCInit /\ [][MCNext]_<<rpcVars, part>>

RpcSymmetry ==
    Permutations(Calls) \cup Permutations(Large) \cup Permutations(Notes)
=============================================================================
