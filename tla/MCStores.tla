------------------------------- MODULE MCStores -------------------------------
(* Instances of ReplayStore, MetadataClients and LazyAuth for TLC.  They    *)
(* share no state, so one run checks the three, one of them moving at a     *)
(* time: their states add up instead of multiplying.                        *)
EXTENDS ReplayStore, MetadataClients, LazyAuth

VARIABLE moving
storesVars == <<moving, replayVars, metadataVars, lazyVars>>

StoresTypeOK ==
    /\ moving \in {"replay", "metadata", "lazy"}
    /\ ReplayTypeOK /\ MetadataTypeOK /\ LazyTypeOK

StoresInit ==
    /\ moving \in {"replay", "metadata", "lazy"}
    /\ ReplayInit /\ MetadataInit /\ LazyInit
    /\ moving # "replay" => store = "memory"

StoresNext ==
    \/ moving = "replay" /\ ReplayNext /\ UNCHANGED <<moving, metadataVars, lazyVars>>
    \/ moving = "metadata" /\ MetadataNext /\ UNCHANGED <<moving, replayVars, lazyVars>>
    \/ moving = "lazy" /\ LazyNext /\ UNCHANGED <<moving, replayVars, metadataVars>>

StoresSpec == StoresInit /\ [][StoresNext]_storesVars /\ LazyFairness
=============================================================================
