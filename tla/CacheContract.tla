---------------------------- MODULE CacheContract ----------------------------
(***************************************************************************)
(* What a user of the cache may rely on (the class comment of Cache.hpp),  *)
(* with every operation atomic: an entry is stored under a handle together *)
(* with a count of references; get and put take a reference, unget gives   *)
(* it back, and only an entry without references goes away, at a moment of *)
(* the cache's own choosing.  Cache implements this; Responses uses it.    *)
(***************************************************************************)
EXTENDS Integers

CONSTANTS
    Handles,    \* keys
    Objs,       \* entries
    NoObj       \* no entry

VARIABLES
    stored,     \* handle -> the entry stored under it, or NoObj
    refs,       \* handle -> references to that entry
    doomed      \* handle -> advise_evict has been called for that entry

contractvars == <<stored, refs, doomed>>

ContractInit ==
    /\ stored = [h \in Handles |-> NoObj]
    /\ refs = [h \in Handles |-> 0]
    /\ doomed = [h \in Handles |-> FALSE]

IsStored(h) == stored[h] # NoObj

Take_NotCounted(h) == IsStored(h) /\ UNCHANGED contractvars

\* get that finds an entry, invalid or not
Take(h) ==
    /\ IsStored(h)
    /\ refs' = [refs EXCEPT ![h] = @ + 1]
    /\ UNCHANGED <<stored, doomed>>

\* unget: the entry is looked up by its handle, whoever calls
GiveBack(h) ==
    /\ refs' = IF IsStored(h) THEN [refs EXCEPT ![h] = @ - 1] ELSE refs
    /\ UNCHANGED <<stored, doomed>>

\* put that succeeds; the caller holds the first reference
Store(h, o) ==
    /\ ~ IsStored(h)
    /\ stored' = [stored EXCEPT ![h] = o]
    /\ refs' = [refs EXCEPT ![h] = 1]
    /\ doomed' = [doomed EXCEPT ![h] = FALSE]

\* advise_evict
Doom(h) ==
    /\ doomed' = [doomed EXCEPT ![h] = IsStored(h)]
    /\ UNCHANGED <<stored, refs>>

\* evict(h) that succeeds, in an unget or in somebody's put
Drop(h) ==
    /\ IsStored(h) /\ refs[h] = 0
    /\ stored' = [stored EXCEPT ![h] = NoObj]
    /\ doomed' = [doomed EXCEPT ![h] = FALSE]
    /\ UNCHANGED refs

ContractNext ==
    \E h \in Handles :
        \/ Take(h) \/ GiveBack(h) \/ Doom(h) \/ Drop(h)
        \/ \E o \in Objs : Store(h, o)

ContractSpec == ContractInit /\ [][ContractNext]_contractvars
==============================================================================
