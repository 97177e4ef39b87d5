----------------------------- MODULE OrderedStore -----------------------------
(***************************************************************************)
(* What the callers of the asynchronous database count on: every operation *)
(* they hand over is carried out at one instant, as a whole or not at all, *)
(* in the order of handing over.  Statements that a caller executes itself *)
(* ("direct") go past the operations that wait.                            *)
(***************************************************************************)
EXTENDS Sequences, Naturals

VARIABLES
    pending,    \* operations that wait, each with the writes it consists of
    store,      \* the writes that took effect, in order
    gone        \* nobody carries operations out any more

storeVars == <<pending, store, gone>>

StoreInit == pending = << >> /\ store = << >> /\ ~gone

Submit ==
    /\ pending' # << >>
    /\ pending = SubSeq(pending', 1, Len(pending') - 1)
    /\ UNCHANGED <<store, gone>>

Apply ==
    /\ pending # << >>
    /\ store' \in {store, store \o Head(pending).stmts}
    /\ pending' = Tail(pending)
    /\ UNCHANGED gone

Direct ==
    /\ Len(store') > Len(store)
    /\ store = SubSeq(store', 1, Len(store))
    /\ \A i \in Len(store) + 1 .. Len(store') : store'[i].how # "delayed"
    /\ UNCHANGED <<pending, gone>>

Leave == gone' /\ UNCHANGED <<pending, store>>

StoreNext == Submit \/ Apply \/ Direct \/ Leave

StoreSpec == StoreInit /\ [][StoreNext]_storeVars /\ WF_storeVars(~gone /\ Apply)

=============================================================================
