----------------------------- MODULE BlockStore -----------------------------
(***************************************************************************)
(* What the buffer cache promises its callers, in the words of bio.c: "a   *)
(* synchronization point for disk blocks used by multiple processes",      *)
(* "only one process at a time can use a buffer".  A store of blocks, each *)
(* locked by bread(), changed by its holder only, unlocked by brelse().    *)
(***************************************************************************)
CONSTANTS Procs, Sectors, Vals, Nobody

VARIABLES
    store,      \* the contents of each block
    holder      \* the process that has each block from bread(), or Nobody

storeVars == <<store, holder>>

StoreInit ==
    /\ store \in [Sectors -> Sectors \X Vals]
    /\ holder = [s \in Sectors |-> Nobody]

StoreLock(p, s) ==
    /\ holder[s] = Nobody
    /\ holder' = [holder EXCEPT ![s] = p]
    /\ UNCHANGED store

StoreWrite(p, s) ==
    /\ holder[s] = p
    /\ \E v \in Vals : store' = [store EXCEPT ![s] = <<s, v>>]
    /\ UNCHANGED holder

StoreUnlock(p, s) ==
    /\ holder[s] = p
    /\ holder' = [holder EXCEPT ![s] = Nobody]
    /\ UNCHANGED store

StoreNext ==
    \E p \in Procs, s \in Sectors :
        StoreLock(p, s) \/ StoreWrite(p, s) \/ StoreUnlock(p, s)

StoreSpec == StoreInit /\ [][StoreNext]_storeVars
=============================================================================
