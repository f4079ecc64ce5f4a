----------------------------- MODULE MCXmlStore -----------------------------
(* Small instances for TLC of qubes.xml as a file (XmlStore) and of what is  *)
(* in it (QubeCollection).                                                   *)
EXTENDS XmlStore, QubeCollection, TLC

VARIABLES
    kind    \* "single": one process saves the file; "shared": all may;
            \* "pools": pools come and go; "qubes": names come back more;
            \* "preload": disposables are preloaded

Shared == INSTANCE XmlStore WITH Writers <- Procs

MCInit == kind \in {"single", "shared", "pools", "qubes", "preload"}
          /\ Init /\ CollectionInit

(* Two qubes and three set-ups of pools, or three qubes and no pool but    *)
(* the main one; preloaded disposables beside at most one edit.            *)
NoPreloads == \A n \in Names : domains'[n] # NoQube => domains'[n].kind = "qube"

MCNext ==
    /\ UNCHANGED kind
    /\ \/ kind = "single" /\ Next /\ UNCHANGED collectionVars
       \/ kind = "shared" /\ Shared!Next /\ state'[MaxFiles] = "none"
          /\ UNCHANGED collectionVars
       \/ kind = "pools" /\ CollectionNext /\ objects' <= 2 /\ NoPreloads
          /\ UNCHANGED vars
       \/ kind = "qubes" /\ CollectionNext /\ setups' <= 1 /\ NoPreloads
          /\ UNCHANGED vars
       \/ kind = "preload" /\ CollectionNext /\ setups' <= 1 /\ edits' <= 1
          /\ UNCHANGED vars

MCSpec == MCInit /\ [][MCNext]_<<vars, collectionVars, kind>>

(* Names of qubes and updates of the file are the same values, so that the *)
(* same permutations serve both.                                           *)
Symmetry == Permutations(Updates) \cup Permutations(Callers)

(* KeepsPromises of the single writer: every step is one of DurableStore,  *)
(* or none.                                                                *)
SingleKeepsPromises ==
    /\ Promises!StoreInit
    /\ [][kind = "single" =>
            [Promises!StoreNext]_<<content[link], content[synced], acked>>
         ]_<<vars, kind>>
=============================================================================
