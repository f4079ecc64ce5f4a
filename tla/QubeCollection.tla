--------------------------- MODULE QubeCollection ---------------------------
(* The qubes, labels and pools of one qubesd and the calls of the Admin API  *)
(* that create, change and remove them (app.py, api/admin.py).  A call runs  *)
(* without interruption except where it awaits: the volumes of a new qube,   *)
(* the removal of volumes, the set-up of a pool.  In between other calls run *)
(* and write all of memory to qubes.xml.  Names come back: a qube is a name  *)
(* and the number of the object that bears it.  All qubes are halted here,   *)
(* but for preloaded disposables, whose start and use is another module's.   *)
EXTENDS Integers, FiniteSets

CONSTANTS Names, Callers, Labels, BuiltIn, Pools, MainPool,
          NoQube,         \* no qube has the name, or none is referred to
          MaxObjects,     \* qubes ever created
          MaxPools,       \* times a pool is set up
          MaxEdits,       \* changes of properties and labels
          MaxRestarts

(* A qube: the object, its label, the qube a property of it names (of a    *)
(* disposable, its template), the pool of its volumes, by name and object, *)
(* and what it is: a disposable is preloaded (is_preload) until it is used *)
(* or taken off the list.                                                  *)
Kinds == {"qube", "preload", "disposable"}

Qubes == [obj : Nat, label : Labels, ref : Names \cup {NoQube},
          pool : [name : Pools, object : Nat], kind : Kinds]

(* What qubes.xml has of one.                                              *)
SavedQubes == [obj : Nat, label : Labels, ref : Names \cup {NoQube}, pool : Pools,
               kind : Kinds]

ASSUME CollectionAssumption ==
    /\ NoQube \notin Qubes \cup Names
    /\ BuiltIn \subseteq Labels /\ MainPool \in Pools

VARIABLES
    domains,    \* app.domains: [Names -> NoQube or the qube]
    labels, pools,          \* app.labels; [Pools -> 0 or the pool object]
    sys,        \* a global property that names a qube (default_template)
    saved,      \* what qubes.xml holds
    files,      \* [Names -> 0 or the object whose volumes are whole]
    calls,      \* [Callers -> what the caller awaits]
    answer,     \* history: the last good answer about a name
    harmed,     \* history: names that lost files in a way the README lists
    overwritten,    \* history: pools added twice at once
    orphans,    \* qubes whose template was unlisted while they were preloaded
    objects, setups, edits, restarts

memory == <<domains, labels, pools, sys>>
counters == <<objects, setups, edits, restarts>>
histories == <<answer, harmed, overwritten, orphans>>
collectionVars == <<memory, saved, files, calls, histories, counters>>

Idle == [op |-> "idle"]

Listed == {n \in Names : domains[n] # NoQube}

(* VMCollection.add() wants a name, and a qid, that is free.               *)
Free(n) == n \notin Listed

(* Storage.init_volume(): a volume keeps the object of its pool.           *)
VolumeIn(p) == [name |-> p, object |-> pools[p]]

Is(n, obj) == n \in Listed /\ domains[n].obj = obj

(* The calls at work on the volumes of a name.                             *)
Work == {"creating", "undoing", "preloading", "removing", "cleaning"}

WorksOn(c, n) == calls[c].op \in Work /\ calls[c].name = n

----------------------------------------------------------------------------
(* What is written and read.                                               *)

SavedQube(q) == [q EXCEPT !.pool = @.name]

Store(doms, labs, pls, glob) ==
    [qubes |-> [n \in {m \in Names : doms[m] # NoQube} |-> SavedQube(doms[n])],
     labels |-> labs, pools |-> {p \in Pools : pls[p] # 0}, sys |-> glob]

(* load() raises on the first label, pool or qube it does not find; qubesd *)
(* then does not start.                                                    *)
LoadsProperties(q, store, loose) ==
    /\ q.label \in store.labels
    /\ q.obj \in loose \/ q.ref \in DOMAIN store.qubes \cup {NoQube}

(* It does when nothing is excused: no pool is lost, no qube is loose.     *)
Loads(store, lost, loose) ==
    /\ store.sys \in DOMAIN store.qubes \cup {NoQube}
    /\ \A n \in DOMAIN store.qubes :
        /\ store.qubes[n].pool \in store.pools \cup lost
        /\ LoadsProperties(store.qubes[n], store, loose)

SaveMemory == saved' = Store(domains', labels', pools', sys')

CollectionInit ==
    /\ domains = [n \in Names |-> NoQube]
    /\ labels = BuiltIn /\ pools = [p \in Pools |-> IF p = MainPool THEN 1 ELSE 0]
    /\ sys = NoQube
    /\ saved = Store(domains, labels, pools, sys)
    /\ files = [n \in Names |-> 0]
    /\ calls = [c \in Callers |-> Idle]
    /\ answer = [n \in Names |-> "none"] /\ harmed = {}
    /\ overwritten = {} /\ orphans = {}
    /\ objects = 0 /\ setups = 1 /\ edits = 0 /\ restarts = 0

----------------------------------------------------------------------------
(* admin.vm.Create: the qube is listed before its volumes exist.           *)

(* The template given, or the default one; none at all is refused only when *)
(* the class has templates.                                                *)
TemplateOf(arg) == IF arg = "default" THEN sys ELSE arg

NewQube(obj, template, label, p, kind) ==
    [obj |-> obj, label |-> label, ref |-> template, pool |-> VolumeIn(p), kind |-> kind]

CreateBegin(c, n, arg, label, p) ==
    LET template == TemplateOf(arg) obj == objects + 1 IN
    /\ calls[c] = Idle /\ Free(n) /\ objects < MaxObjects
    /\ label \in labels /\ pools[p] # 0
    /\ arg = "default" => sys # NoQube
    /\ template \in Listed \cup {NoQube}
    /\ domains' = [domains EXCEPT ![n] =
           NewQube(obj, template, label, p, "qube")]
    /\ objects' = obj
    /\ calls' = [calls EXCEPT ![c] =
           [op |-> "creating", name |-> n, obj |-> obj]]
    /\ harmed' = IF \E d \in Callers : WorksOn(d, n)
                 THEN harmed \cup {n} ELSE harmed \ {n}
    /\ answer' = [answer EXCEPT ![n] = "none"]
    /\ UNCHANGED <<labels, pools, sys, saved, files, overwritten, orphans, setups, edits,
                   restarts>>

(* The volumes are there and the qube is saved, if it is still listed.     *)
CreateDone(c) ==
    LET n == calls[c].name obj == calls[c].obj IN
    /\ calls[c].op = "creating"
    /\ files' = [files EXCEPT ![n] = obj]
    /\ calls' = [calls EXCEPT ![c] = Idle]
    /\ UNCHANGED memory /\ SaveMemory
    /\ answer' = IF Is(n, obj) THEN [answer EXCEPT ![n] = "created"] ELSE answer
    /\ UNCHANGED <<harmed, overwritten, orphans, counters>>

(* A volume could not be created: what there is under the name is removed. *)
CreateFails(c) ==
    /\ calls[c].op = "creating"
    /\ calls' = [calls EXCEPT ![c].op = "undoing"]
    /\ UNCHANGED <<memory, saved, files, histories, counters>>

(* get_qube_prop_deps(): who names n.  A qube that has the default only    *)
(* does not count: the global property does.  Nor does a preloaded         *)
(* disposable: it goes with its template.  An orphan has the object of a   *)
(* template that bore the name before.                                     *)
Dependants(n) ==
    {m \in Listed \ {n} : domains[m].ref = n /\ domains[m].kind # "preload"
                           /\ domains[m].obj \notin orphans}

(* MayDelete with a mistake.                                               *)
MayDelete_UnlessGlobal(n) == sys # n

MayDelete(n) == Dependants(n) = {} /\ sys # n

(* The preloaded disposables of a template.                                *)
PreloadsOf(n) == {m \in Listed \ {n} : domains[m].ref = n /\ domains[m].kind = "preload"}

(* del app.domains[vm], with the handlers of domain-delete.                *)
Unlist(n) ==
    /\ domains' = [domains EXCEPT ![n] = NoQube]
    /\ sys' = IF sys = n THEN NoQube ELSE sys
    /\ orphans' = orphans \cup {domains[m].obj : m \in PreloadsOf(n)}
    /\ UNCHANGED <<labels, pools>>

(* The failed qube goes, without a save; it stays, with no volumes, when   *)
(* somebody refers to it by now.                                           *)
Undone(c, cleaned) ==
    LET n == calls[c].name obj == calls[c].obj IN
    /\ calls[c].op = "undoing"
    /\ files' = IF cleaned THEN [files EXCEPT ![n] = 0] ELSE files
    /\ calls' = [calls EXCEPT ![c] = Idle]
    /\ IF Is(n, obj) /\ MayDelete(n) THEN Unlist(n) ELSE UNCHANGED <<memory, orphans>>
    /\ harmed' = harmed \cup {n}
    /\ UNCHANGED <<saved, answer, overwritten, counters>>

----------------------------------------------------------------------------
(* admin.vm.Remove: unlisted first, then the volumes, then the save.       *)

(* RemoveBegin with a mistake: the volumes go although the qube must stay. *)
RemoveBegin_Swallowed(c, n) ==
    /\ calls[c] = Idle /\ n \in Listed
    /\ IF MayDelete(n) THEN Unlist(n) ELSE UNCHANGED <<memory, orphans>>
    /\ calls' = [calls EXCEPT ![c] =
           [op |-> "removing", name |-> n, obj |-> domains[n].obj]]
    /\ answer' = [answer EXCEPT ![n] = "none"]
    /\ UNCHANGED <<saved, files, harmed, overwritten, counters>>

RemoveBegin(c, n) ==
    /\ calls[c] = Idle /\ n \in Listed /\ MayDelete(n)
    /\ Unlist(n)
    /\ calls' = [calls EXCEPT ![c] =
           [op |-> "removing", name |-> n, obj |-> domains[n].obj]]
    /\ answer' = [answer EXCEPT ![n] = "none"]
    /\ UNCHANGED <<saved, files, harmed, overwritten, counters>>

(* RemoveDone with a mistake: no save.                                     *)
RemoveDone_Unsaved(c, cleaned) ==
    LET n == calls[c].name IN
    /\ calls[c].op = "removing"
    /\ files' = IF cleaned THEN [files EXCEPT ![n] = 0] ELSE files
    /\ calls' = [calls EXCEPT ![c] = Idle]
    /\ answer' = [answer EXCEPT ![n] = "removed"]
    /\ UNCHANGED <<memory, saved, harmed, overwritten, orphans, counters>>

(* The preloaded disposables a template leaves; an older orphan is of one  *)
(* that had its name before.                                               *)
Leaves(c) == {m \in PreloadsOf(calls[c].name) :
                 domains[m].obj \in orphans /\ domains[m].obj > calls[c].obj}

(* on_dvmtemplate_remove_from_disk(): they are taken off the list, and are *)
(* cleaned up then when they run.                                          *)
RemovePreloads(c) ==
    /\ calls[c].op = "removing" /\ Leaves(c) # {}
    /\ domains' = [m \in Names |->
           IF m \in Leaves(c) THEN [domains[m] EXCEPT !.kind = "disposable"] ELSE domains[m]]
    /\ UNCHANGED <<labels, pools, sys, saved, files, calls, histories, counters>>

(* Errors of the removal are logged and the call goes on; the volumes go   *)
(* after the handlers.                                                     *)
RemoveDone(c, cleaned) ==
    LET n == calls[c].name IN
    /\ calls[c].op = "removing"
    /\ cleaned => Leaves(c) = {}
    /\ files' = IF cleaned THEN [files EXCEPT ![n] = 0] ELSE files
    /\ calls' = [calls EXCEPT ![c] = Idle]
    /\ UNCHANGED memory /\ SaveMemory
    /\ answer' = IF n \in Listed \/ \E d \in Callers \ {c} : WorksOn(d, n)
                 THEN answer ELSE [answer EXCEPT ![n] = "removed"]
    /\ UNCHANGED <<harmed, overwritten, orphans, counters>>

----------------------------------------------------------------------------
(* Preloaded disposables: gen_disposable(preload=True), what ends their    *)
(* being preloaded, and _auto_cleanup().                                   *)

(* A disposable is made of its template, and on its list before anything   *)
(* is awaited.                                                             *)
PreloadBegin(c, n, t) ==
    LET obj == objects + 1 p == domains[t].pool.name IN
    /\ calls[c] = Idle /\ Free(n) /\ objects < MaxObjects
    /\ t \in Listed /\ domains[t].kind = "qube" /\ pools[p] # 0
    /\ domains' = [domains EXCEPT ![n] = NewQube(obj, t, domains[t].label, p, "preload")]
    /\ objects' = obj
    /\ calls' = [calls EXCEPT ![c] = [op |-> "preloading", name |-> n, obj |-> obj]]
    /\ harmed' = IF \E d \in Callers : WorksOn(d, n)
                 THEN harmed \cup {n} ELSE harmed \ {n}
    /\ answer' = [answer EXCEPT ![n] = "none"]
    /\ UNCHANGED <<labels, pools, sys, saved, files, overwritten, orphans, setups, edits,
                   restarts>>

(* Its volumes are there, and the start that follows saves, or fails: then *)
(* qubes.xml may still have the qube that bore the name before.            *)
PreloadDone(c, starts) ==
    LET n == calls[c].name IN
    /\ calls[c].op = "preloading"
    /\ files' = [files EXCEPT ![n] = calls[c].obj]
    /\ calls' = [calls EXCEPT ![c] = Idle]
    /\ UNCHANGED memory /\ IF starts THEN SaveMemory ELSE UNCHANGED saved
    /\ harmed' = IF starts THEN harmed ELSE harmed \cup {n}
    /\ UNCHANGED <<answer, overwritten, orphans, counters>>

(* A volume could not be created; the disposable stays listed without any. *)
PreloadFails(c, cleaned) ==
    LET n == calls[c].name IN
    /\ calls[c].op = "preloading"
    /\ files' = IF cleaned THEN [files EXCEPT ![n] = 0] ELSE files
    /\ calls' = [calls EXCEPT ![c] = Idle]
    /\ harmed' = harmed \cup {n}
    /\ UNCHANGED <<memory, saved, answer, overwritten, orphans, counters>>

(* use_preload() saves, unless a new netvm cannot be applied; a disposable *)
(* that is only taken off the list is to be cleaned up.                    *)
PreloadEnds(n, saves) ==
    /\ n \in Listed /\ domains[n].kind = "preload"
    /\ domains' = [domains EXCEPT ![n].kind = "disposable"]
    /\ UNCHANGED <<labels, pools, sys>>
    /\ IF saves THEN SaveMemory ELSE UNCHANGED saved
    /\ UNCHANGED <<files, calls, histories, counters>>

CleanupBegin(c, n) ==
    /\ calls[c] = Idle /\ n \in Listed /\ MayDelete(n)
    /\ domains[n].kind # "qube"
    /\ Unlist(n)
    /\ calls' = [calls EXCEPT ![c] =
           [op |-> "cleaning", name |-> n, obj |-> domains[n].obj]]
    /\ answer' = [answer EXCEPT ![n] = "none"]
    /\ UNCHANGED <<saved, files, harmed, overwritten, counters>>

CleanupDone(c) ==
    /\ calls[c].op = "cleaning"
    /\ files' = [files EXCEPT ![calls[c].name] = 0]
    /\ calls' = [calls EXCEPT ![c] = Idle]
    /\ UNCHANGED memory /\ SaveMemory
    /\ UNCHANGED <<histories, counters>>

(* An error of the removal leaves qubes.xml with the disposable.           *)
CleanupFails(c, cleaned) ==
    LET n == calls[c].name IN
    /\ calls[c].op = "cleaning"
    /\ files' = IF cleaned THEN [files EXCEPT ![n] = 0] ELSE files
    /\ calls' = [calls EXCEPT ![c] = Idle]
    /\ harmed' = harmed \cup {n}
    /\ UNCHANGED <<memory, saved, answer, overwritten, orphans, counters>>

----------------------------------------------------------------------------
(* Pools.  The name is checked before setup() is awaited, not after.       *)

PoolAddBegin(c, p) ==
    /\ calls[c] = Idle /\ pools[p] = 0 /\ setups < MaxPools
    /\ setups' = setups + 1
    /\ calls' = [calls EXCEPT ![c] =
           [op |-> "adding", name |-> p, obj |-> setups + 1]]
    /\ UNCHANGED <<memory, saved, files, histories, objects, edits, restarts>>

PoolAdded(c) ==
    LET p == calls[c].name IN
    /\ calls[c].op = "adding"
    /\ pools' = [pools EXCEPT ![p] = calls[c].obj]
    /\ calls' = [calls EXCEPT ![c] = Idle]
    /\ UNCHANGED <<domains, labels, sys>> /\ SaveMemory
    /\ overwritten' = IF pools[p] # 0 THEN overwritten \cup {p} ELSE overwritten
    /\ UNCHANGED <<files, answer, harmed, orphans, counters>>

PoolSetupFails(c) ==
    /\ calls[c].op = "adding"
    /\ calls' = [calls EXCEPT ![c] = Idle]
    /\ UNCHANGED <<memory, saved, files, histories, counters>>

InPool(p) == {n \in Listed : domains[n].pool = VolumeIn(p)}

PoolRemove(p) ==
    /\ pools[p] # 0 /\ p # MainPool /\ InPool(p) = {}
    /\ pools' = [pools EXCEPT ![p] = 0]
    /\ UNCHANGED <<domains, labels, sys>> /\ SaveMemory
    /\ UNCHANGED <<files, calls, histories, counters>>

----------------------------------------------------------------------------
(* Labels and properties: no await.                                        *)

Edit ==
    /\ edits < MaxEdits /\ edits' = edits + 1
    /\ UNCHANGED <<files, calls, histories, objects, setups, restarts>>

LabelCreate(l) ==
    /\ Edit /\ l \notin labels
    /\ labels' = labels \cup {l}
    /\ UNCHANGED <<domains, pools, sys>> /\ SaveMemory

LabelRemove(l) ==
    /\ Edit /\ l \in labels \ BuiltIn
    /\ \A n \in Listed : domains[n].label # l
    /\ labels' = labels \ {l}
    /\ UNCHANGED <<domains, pools, sys>> /\ SaveMemory

SetLabel(n, l) ==
    /\ Edit /\ n \in Listed /\ l \in labels
    /\ domains' = [domains EXCEPT ![n].label = l]
    /\ UNCHANGED <<labels, pools, sys>> /\ SaveMemory

(* A property that names a qube takes only one that is listed.             *)
Resolves(m) == m \in Listed \cup {NoQube}

(* admin.vm.property.Set.  A handler of property-set that raises comes too *)
(* late to keep the value out of memory, but there is no save.  (That of a *)
(* disposable is its template, which stays.)                               *)
SetReference(n, m, raises) ==
    /\ Edit /\ n \in Listed /\ domains[n].kind = "qube" /\ Resolves(m) /\ n # m
    /\ domains' = [domains EXCEPT ![n].ref = m]
    /\ UNCHANGED <<labels, pools, sys>>
    /\ IF raises THEN UNCHANGED saved ELSE SaveMemory

(* admin.vm.property.Reset, back to the default.                           *)
ResetReference(n, raises) ==
    /\ Edit /\ n \in Listed /\ domains[n].kind = "qube"
    /\ domains' = [domains EXCEPT ![n].ref = NoQube]
    /\ UNCHANGED <<labels, pools, sys>>
    /\ IF raises THEN UNCHANGED saved ELSE SaveMemory

(* admin.property.Set and Reset.                                           *)
SetGlobal(m) ==
    /\ Edit /\ Resolves(m)
    /\ sys' = m
    /\ UNCHANGED <<domains, labels, pools>> /\ SaveMemory

----------------------------------------------------------------------------
(* qubesd ends at any point and the next one reads qubes.xml, if it loads. *)
(* A removal that was under way may have taken the volumes already.  Of    *)
(* the preloaded disposables, those stay that run and were complete.       *)

Loaded(n, kept) ==
    LET q == saved.qubes[n] IN
    [q EXCEPT !.pool = VolumeIn(@),
              !.kind = IF @ = "preload" /\ n \notin kept THEN "disposable" ELSE @]

Restart ==
    LET Cut(n) == \E c \in Callers : WorksOn(c, n) IN
    /\ restarts < MaxRestarts /\ Loads(saved, {}, {})
    /\ restarts' = restarts + 1
    /\ \E lost \in SUBSET {n \in Names : Cut(n)} :
           files' = [n \in Names |-> IF n \in lost THEN 0 ELSE files[n]]
    /\ \E kept \in SUBSET {n \in DOMAIN saved.qubes : saved.qubes[n].kind = "preload"} :
           domains' = [n \in Names |->
               IF n \in DOMAIN saved.qubes THEN Loaded(n, kept) ELSE NoQube]
    /\ labels' = saved.labels /\ sys' = saved.sys
    /\ pools' = [p \in Pools |-> IF p \in saved.pools THEN pools[p] ELSE 0]
    /\ SaveMemory
    /\ calls' = [c \in Callers |-> Idle]
    /\ harmed' = harmed \cup {n \in Names : Cut(n)}
    /\ orphans' = {}
    /\ UNCHANGED <<answer, overwritten, objects, setups, edits>>

CollectionNext ==
    \/ \E c \in Callers :
        \/ \E n \in Names, arg \in Names \cup {"default", NoQube}, l \in Labels,
              p \in Pools : CreateBegin(c, n, arg, l, p)
        \/ CreateDone(c) \/ CreateFails(c)
        \/ \E n \in Names : RemoveBegin(c, n)
        \/ \E cleaned \in BOOLEAN : Undone(c, cleaned) \/ RemoveDone(c, cleaned)
        \/ \E n, t \in Names : PreloadBegin(c, n, t)
        \/ \E starts \in BOOLEAN : PreloadDone(c, starts)
        \/ \E n \in Names : CleanupBegin(c, n)
        \/ RemovePreloads(c) \/ CleanupDone(c)
        \/ \E cleaned \in BOOLEAN : PreloadFails(c, cleaned) \/ CleanupFails(c, cleaned)
        \/ \E p \in Pools : PoolAddBegin(c, p)
        \/ PoolAdded(c) \/ PoolSetupFails(c)
    \/ \E n \in Names, saves \in BOOLEAN : PreloadEnds(n, saves)
    \/ \E p \in Pools : PoolRemove(p)
    \/ \E l \in Labels : LabelCreate(l) \/ LabelRemove(l)
    \/ \E n \in Names, l \in Labels : SetLabel(n, l)
    \/ \E n \in Names, raises \in BOOLEAN :
        \/ ResetReference(n, raises)
        \/ \E m \in Names : SetReference(n, m, raises)
    \/ \E m \in Names \cup {NoQube} : SetGlobal(m)
    \/ Restart

CollectionSpec == CollectionInit /\ [][CollectionNext]_collectionVars

----------------------------------------------------------------------------
(* Properties.                                                             *)

(* Whatever the calls and their order, qubes.xml can be loaded again, and  *)
(* so could what is in memory: no qube names a label, a pool or a qube     *)
(* that is gone (the checks of admin.pool.Remove, admin.label.Remove and   *)
(* domain-pre-delete against calls that wait).  Excepted are the pool that *)
(* two overlapping admin.pool.Add set up, and disposables that were        *)
(* preloaded when their template was unlisted: until they are cleaned up,  *)
(* which nothing ensures, a save writes a qubes.xml that does not load.    *)
StoreLoads ==
    /\ Loads(saved, overwritten, orphans)
    /\ Loads(Store(domains, labels, pools, sys), overwritten, orphans)

(* A listed qube whose creation is over has its volumes, also when qubes   *)
(* of the same name come and go and qubesd restarts: only a restart or     *)
(* another call of the same name in the middle of a creation or removal,   *)
(* or a creation, a start or a cleanup that failed, can take them (harmed). *)
FilesKept ==
    \A n \in Listed \ harmed :
        (\A c \in Callers : ~WorksOn(c, n)) => files[n] = domains[n].obj

(* What a call has answered holds in qubes.xml from then on, so also after *)
(* a restart: a created qube is there until somebody removes it, a removed *)
(* one does not come back, although other calls write whole memory while   *)
(* a creation or a removal is half done.                                   *)
AnsweredStays ==
    \A n \in Names :
        /\ answer[n] = "created" => n \in DOMAIN saved.qubes
        /\ answer[n] = "removed" => n \notin DOMAIN saved.qubes

----------------------------------------------------------------------------
(* The inductive invariants.                                               *)

CallsAwaiting ==
    [op : {"idle"}]
    \cup [op : Work, name : Names, obj : Nat]
    \cup [op : {"adding"}, name : Pools, obj : Nat \ {0}]

CollectionTypeOK ==
    /\ domains \in [Names -> Qubes \cup {NoQube}]
    /\ labels \subseteq Labels /\ pools \in [Pools -> Nat]
    /\ sys \in Names \cup {NoQube}
    /\ DOMAIN saved.qubes \subseteq Names
    /\ saved.qubes \in [DOMAIN saved.qubes -> SavedQubes]
    /\ saved.labels \subseteq Labels /\ saved.sys \in Names \cup {NoQube}
    /\ files \in [Names -> Nat] /\ calls \in [Callers -> CallsAwaiting]
    /\ answer \in [Names -> {"none", "created", "removed"}]
    /\ harmed \subseteq Names /\ overwritten \subseteq Pools /\ orphans \subseteq Nat
    /\ objects \in Nat /\ setups \in Nat /\ edits \in Nat /\ restarts \in Nat

(* A pool that a listed qube uses is there, as the object its volumes keep,*)
(* and qubes.xml has the pools of memory.                                  *)
PoolsStay ==
    \A n \in Listed : LET p == domains[n].pool IN
        p.name \in overwritten \/ (pools[p.name] # 0 /\ p = VolumeIn(p.name))

PoolInv == saved.pools = {p \in Pools : pools[p] # 0} /\ PoolsStay

LoadInv == PoolInv /\ StoreLoads

(* No object is made twice, and each is made by one call.                  *)
Making(c) == calls[c].op \in {"creating", "undoing", "preloading"}

ObjectInv ==
    /\ \A n \in Listed : domains[n].obj <= objects
    /\ \A n \in DOMAIN saved.qubes : saved.qubes[n].obj <= objects
    /\ \A c \in Callers : Making(c) => calls[c].obj <= objects
    /\ \A c, d \in Callers : Making(c) /\ Making(d) /\ c # d => calls[c].obj # calls[d].obj

(* A listed qube is being made, by one call and nothing else at work on    *)
(* its name, or has its volumes; so has a saved one when nothing works on  *)
(* its name.                                                               *)
VolumesInv ==
    /\ \A n \in Listed \ harmed :
        \/ files[n] = domains[n].obj /\ \A c \in Callers : ~WorksOn(c, n)
        \/ \E c \in Callers :
              /\ Making(c) /\ calls[c].name = n /\ calls[c].obj = domains[n].obj
              /\ \A d \in Callers \ {c} : ~WorksOn(d, n)
    /\ \A n \in DOMAIN saved.qubes \ harmed :
        (\A c \in Callers : ~WorksOn(c, n)) => files[n] = saved.qubes[n].obj

(* What was answered holds in memory too, and no call will take it back.   *)
AnswerInv ==
    \A n \in Names :
        /\ answer[n] = "created" =>
            /\ n \in Listed /\ n \in DOMAIN saved.qubes
            /\ \A c \in Callers : Making(c) /\ calls[c].name = n => calls[c].obj # domains[n].obj
        /\ answer[n] = "removed" => n \notin Listed /\ n \notin DOMAIN saved.qubes

CollectionInv == CollectionTypeOK /\ LoadInv /\ ObjectInv /\ VolumesInv /\ AnswerInv
=============================================================================
