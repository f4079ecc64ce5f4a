---------------------------- MODULE DurableStore ----------------------------
(***************************************************************************)
(* What qubesd relies on when it keeps its state in qubes.xml: the store   *)
(* is replaced as a whole, a save that has returned is on the disk, and    *)
(* neither a crash of a process nor a power cut takes it back.             *)
(***************************************************************************)
VARIABLES
    visible,    \* the updates a process reads from the store now
    durable,    \* those it would read after a power cut
    promised    \* those whose save() has returned

StoreInit == visible = {} /\ durable = {} /\ promised = {}

(* A new store takes the place of the old one, with all that was promised. *)
Replace ==
    /\ promised \subseteq visible'
    /\ UNCHANGED <<durable, promised>>

Persist == durable' = visible /\ UNCHANGED <<visible, promised>>

(* A save returns.                                                         *)
Promise ==
    /\ promised \subseteq promised' /\ promised' \subseteq durable
    /\ UNCHANGED <<visible, durable>>

PowerCut == visible' = durable /\ UNCHANGED <<durable, promised>>

StoreNext == Replace \/ Persist \/ Promise \/ PowerCut

StoreSpec == StoreInit /\ [][StoreNext]_<<visible, durable, promised>>
=============================================================================
