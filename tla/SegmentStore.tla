---------------------------- MODULE SegmentStore ----------------------------
(***************************************************************************)
(* What the core promises about canonical segments: a write-once store.    *)
(* An id gets its extension and bytes once; afterwards every repetition of *)
(* the PUT is refused or changes nothing.  A restart of the process        *)
(* forgets everything at once: CoreInner lives in memory only and is never   *)
(* rebuilt from the storage directory.                                     *)
(***************************************************************************)
CONSTANTS Ids, Contents, Nothing

VARIABLE store     \* the content committed under each id

StoreInit == store = [id \in Ids |-> Nothing]

Write(id, content) ==
    /\ store[id] = Nothing
    /\ store' = [store EXCEPT ![id] = content]

Forget == store' = [id \in Ids |-> Nothing]

StoreNext ==
    \/ Forget
    \/ \E id \in Ids, content \in Contents : Write(id, content)

StoreSpec == StoreInit /\ [][StoreNext]_store
=============================================================================
