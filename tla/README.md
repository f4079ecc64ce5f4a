# Verification of qubes-core-admin

TLA+ models of qubesd, the daemon of Qubes OS that owns all qubes (virtual
machines) of a system, checked with TLC and, for most of it, proved with TLAPS.
Every definition is translated from the source; `PROJECT.json` maps each one to
the lines it models.

## 1. Inventory

qubesd is one Python process with one asyncio event loop. Coroutines serving
API calls, libvirt event callbacks and extension handlers share the `Qubes`
object and its VM objects without locks except the few named below, so **every
`await` is a place where any other coroutine may run**. The other processes are
libvirtd (domains, events), qmemman (`qmemmand.py`, memory balancing over
xenstore) and the storage tools.

| Component | Source | State | Operations | Hard behaviour |
|---|---|---|---|---|
| Domain lifecycle | `vm/qubesvm.py`, `app.py`, `api/admin.py` | libvirt domain, stop flags, stop coroutine, `startup_lock`, waiter future | start, kill, shutdown, pause, unpause, remove, STOPPED event, reconnect, qubesd restart | stop events against starts and removals; lost events; failures in the middle of `start()` |
| Disposables and preloading | `vm/dispvm.py`, `vm/mix/dvmtemplate.py` | `preload-dispvm` list, in-progress/completed/requested marks, paused qubes | preload, pause, request, use, refresh, cleanup, feature changes | two users requesting at once; pausing a qube being handed out; lowering the maximum; restart with half-made qubes |
| qubes.xml store | `app.py` | file, lock, `__load_timestamp`, in-memory tree | load, save, lock | several processes renaming the file under each other's lock; crash between write and rename |
| VM collection, properties, dependencies | `app.py`, `__init__.py`, `vm/__init__.py` | `domains`, property values, defaults | add, delete, set, reset, references | removing a qube something still refers to; default values that move |
| Storage volumes | `storage/*.py` | image, snapshot/dirty file, revisions, import file, state file | create, start, stop, import, revert, resize, remove | crash between steps of a commit; revision pruning; concurrent export/import |
| Memory balancing | `qmemman/*.py`, `tools/qmemmand.py` | per-domain memory, free memory | balance, memory request, domain list refresh | integer rounding, slow domains, a request against a balance |
| Devices | `devices.py`, `ext/block.py`, `ext/pci.py`, `ext/utils.py` | assignments, attachments | assign, unassign, attach, detach, auto-attach | attachment against assignment, device moving between qubes, start with required devices |
| Network | `vm/mix/net.py`, `firewall.py` | netvm graph, qubesdb entries, rules | set netvm, attach, detach, reload firewall, rule expiry | cycles, halting a netvm in use, deferred changes of preloaded qubes |
| Events and features | `events.py`, `features.py`, `vm/__init__.py` | handler tables, feature dictionary | fire, set, delete, inherited checks | order of handlers, handlers that fail |
| Admin API and permissions | `api/*.py` | sockets, running handlers, event listeners | calls, events stream, volume import, backups | calls cancelled by disconnects, events for listeners that lag |
| Backup | `backup.py`, `tarwriter.py` | files to back up, progress, child processes | compute, run, cancel | child failures and cancellation |
| Extensions | `ext/*.py` | features derived from qubes' requests | services, gui, audio, windows ... | - |
| Templates, admin and remote VMs | `vm/appvm.py`, `templatevm.py`, `standalonevm.py`, `adminvm.py`, `remotevm.py` | template link, volume sources | template change, commit on shutdown | template changed while its qubes run |

## 2. Plan

The order follows what hurts most when it goes wrong.

| # | Modules | Composes / abstracts | State |
|---|---|---|---|
| 1 | `DomainLifecycle`, `DomainLifecycle_proofs` | implements `QubeRuns` | done |
| 2 | `PreloadedDisposables`, `PreloadedDisposables_proofs` | uses the stop of a domain as one step of module 1 | done |
| 3 | `XmlStore`, `XmlStore_proofs` | implements `DurableStore`; module 2's `saved` is its content | done |
| 4 | `ThinVolume`, `ZfsVolume`, `ReflinkVolume`, each with its proofs; `FileVolume`, `CallbackPool` | module 1's `storage` is their state | done |
| 5 | `QubeTemplates` (proofs in `ReflinkVolume_proofs`): which volumes a qube is started from | module 1's start, module 2's hand-out, any driver of 4 | done |
| 6 | `QubeNetwork`, `QubeNetwork_proofs`; `QubeFirewall` (proofs in `Services_proofs`) | module 1's start, module 2's paused qubes | done |
| 7 | `QubeCollection` (proofs in `XmlStore_proofs`): qubes, labels, pools and their references | its `saved` is the content of module 3 | done |
| 8 | `BlockDevices`, `DeviceAssignments` (proofs in `Services_proofs`) | module 1's start | done |
| 9 | `MemoryBalance` (proofs in `ThinVolume_proofs`) | the request of module 1's start | done |
| 10 | `ApiCalls`, `InternalCalls`, `Backup` (proofs in `Services_proofs`) | callers of all the others | done |

What the plan leaves for later is in section 8. Worth stating next: one
abstract volume that the four drivers implement (they agree on what is
committed, not on what a crash may do to a session).

The runs are few on purpose, so several modules share one: a constant of the
behaviour (`kind`, `part` or `driver` in the MC module) says which of them
moves, and the others stay as they began. Modules that share a run, or a module
of proofs, have names of their own for their variables, types and
specifications (`CollectionSpec`, `FileSpec`, `PoolSpec`, `ChainSpec`,
`InternalSpec`, `ApiSpec`, `FirewallSpec`, `BackupSpec`). No module with a theorem declares a
recursive operator.

## 3. Modules, and how they correspond to the code

In every module a step is what the code does between two points where another
actor may run: two `await`s of a coroutine of qubesd, two system calls of a
process. Names follow the source. Operators whose comment
says *fault* or *with a mistake* are wrong variants of the one after them, and
are named `Name_Mistake`; no specification uses them. They document which
mistake each property would catch.

### 3.1 `DomainLifecycle` — one qube from start to removal

| Code | Model |
|---|---|
| libvirt's state of the domain, and the STOPPED events on their way | `power`, `run`, `emitted`, `evq`, `conn` |
| `_domain_stopped_event_received`, `_domain_stopped_event_handled` | `received`, `handled` |
| `_domain_stopped_future` and `_domain_stopped_lock` | `stopTask`, `stopLock`, `handling` |
| the future `__waiter` that `kill()` and `shutdown(wait=True)` await | `waiter`, `wres`, `krun` |
| `startup_lock` | `startLock` |
| the volumes of the qube, `app.domains`, `qubes.xml` | `storage`, `inDomains`, `saved` |
| the coroutine of each API call | `pc[t]` |

`start()` is `StartRequest` … `StartDone`, with every way out of it: the
domain state is not halted, a handler or libvirt fails before
(`SpawnFails`) or after (`SpawnFailsLate`) the domain exists, the boot fails
(`BootFails`, then `BootKill`). `DispVM.start()` that fails cleans the
disposable up by force (`ForcedCleanup`): after `super().start()`
(`StartFailedCleanup`), or before it, when the template is no longer one for
disposables (`StartRefused`), which needs no lock and may overrun the start of
another call (`overrun`). `kill()`, `shutdown()`, `pause()`,
`unpause()` and `admin.vm.Remove` are modelled the same way. The stop of a
domain comes as a STOPPED event (`DeliverStopped`), is found when libvirt is
reconnected (`Reconnect`, `CatchUp`), by the next `start()` or by a removal
(`EnsureBegin`), or is seen when qubesd starts (`Restart`, `BootCheck`).

Decisions: `PreStart`, which is suspended in `storage.verify()` and
`request_mem()`, ends after those who awaited the stop lock have had it; a free
`asyncio.Lock` may be taken by any waiter (the code is FIFO:
fewer behaviours); actions that need libvirt wait for `conn`; a removal's own
handlers (`domain-remove-from-disk`) do not raise; the `Crashed` state does not
occur because the libvirt template destroys on crash
(`templates/libvirt/xen.xml:113`); API calls are not cancelled. The nested
start of the netvm, qmemman and `suspend()` are left out.

`QubeRuns` is what the users of qubesd may rely on: a listed qube is booted
only when its previous run is over *and dealt with*, and every run that ends
is dealt with once. `KeepsRunPromise` is the refinement. A run whose `start()`
failed after libvirt had the domain, or went on for a qube that a forced
cleanup had unlisted, is over for qubesd while it is alive (`Misfire`); the
history `lost` names such runs, and those that ended while no qubesd was there,
and the properties except them.

### 3.2 `PreloadedDisposables` — the preload queue of one template

| Code | Model |
|---|---|
| features `preload-dispvm-max` and `preload-dispvm` of the template | `max`, `list` |
| scheduled `domain-preload-dispvm-*` events, `from_appvm(preload=True)` calls | `events`, `toMake` |
| `preload_requested`, `preload-dispvm-completed`, `preload-dispvm-in-progress` | `requested`, `completed`, `inprog` |
| `gen_disposable(preload=True)` and `start()` of each disposable | `phase`, `power` |
| scheduled `cleanup()` calls, by who scheduled them | `surplus`, `doomed`, `forced`, `removing` |
| callers of `admin.vm.CreateDisposable` (`Users`) and of `admin.vm.Unpause` (`Tools`) | `pc`, `mine`, `got` |
| `qubes.xml` | `saved` |

The queue is a set: which qube is taken or cut first is left open, so every
order of the list is covered. Each name is used once. A domain ends in one
step, its `domain-shutdown` handlers are another (module 1 is about what lies
between). Events beyond `MaxEvents` coalesce: one that finds the queue as the
one before left it does nothing. With `Failures`, a preload event fills any
number of the gaps (the memory threshold), without it all of them.
`OtherSave` stands for the many operations that call `app.save()`, the signal
handler of qubesd included: a clean stop is `OtherSave` then `Restart`, a kill
or a power cut is `Restart` alone. The wait for the services and the
`domain-pre-paused` handlers are one phase; in phase `suspend` the handlers
are over and libvirt's suspend comes next. `AdminRemove` is `admin.vm.Remove`
of a halted disposable whose `startup_lock` is free: it leaves `inDom` at once
and the list only when `domain-remove-from-disk` fires, for which a domain
whose stop is not handled yet (`Ended`) must first be handled. A request that
meets such a name ends in a `KeyError` (`RequestBreaks`).

### 3.3 `XmlStore` — qubes.xml

| Code | Model |
|---|---|
| the file named `qubes.xml`, now and after a power cut | `link`, `synced` |
| each file that ever had the name: on disk or not, what it says | `state`, `content` |
| the POSIX record lock of each file | `owner` |
| `fd` of `_acquire_lock()`, `__locked_fh`, the temporary file, `__load_timestamp` | `fd`, `fh`, `tmp`, `ts` |
| the `Qubes` object of each process | `mem`, `loading`, `pc` |

A file stands for its modification time (no two files share one). The content
is the set of updates it was written with. A `domain-load` handler may save in
the middle of `load()` (`Change` and `Save` at `loaded`). A save may fail at
every system call; it leaves the lock and the old descriptor as they are. The
store exists from the start, so the `O_CREAT` of the very first save is not
taken, and nothing in the repository calls `load(lock=True)`. `DurableStore`
is the abstract store; `KeepsPromises` is the refinement.

### 3.4 `ThinVolume` — a persistent volume in an LVM thin pool

| Code | Model |
|---|---|
| logical volumes `vm-volume`, `-snap`, `-import`, `-<time>-back` | `main`, `snap`, `imp`, `revs` |
| the module's `size_cache`; the answer of another volume's `lvs` | `cache`, `pend` |
| `revisions_to_keep` (-1: no snapshots) | `keep` |
| the domain, and the device it was given | `qube`, `device` |
| the coroutine that holds the volume's lock | `pc`, `op`, `from`, `todo` |

What a volume says is one number, fresh for each write; two more stand for an
import that has not ended (`Torn`) and for a volume whose blocks `remove` has
discarded (`Blank`; `Wipe` is that first half of a removal). A step is one lvm
command with the code up to the next `await`, and may fail (`Raise`) because a
name is missing or taken, or for reasons of its own. Every decision is taken
on `cache`, every command works on the logical volumes. `OtherList` and
`OtherReset` are the two halves of another volume's `reset_cache_coro()`; one
after the other they also stand for `refresh_cache()`. A `Crash` leaves the
logical volumes as they are; qubesd then stops the volumes of every qube that
is not running. An upload is allowed to go on after a crash, as it does when
only qubesd restarts. Clone means `import_volume()` from a volume of the same
pool.

### 3.5 `ZfsVolume` — a persistent volume of a ZFS pool

| Code | Model |
|---|---|
| the datasets of the volume, its dirty property and its import | `main`, `dirty`, `imp`, `tmp` |
| their snapshots, and the clones that hold them | `snaps`, `made`, `cloned` |
| the pool's cache, and the `zfs` command whose end makes it read again | `stale`, `issued` |
| the state file that says that the qube runs | `active` |
| the session's content and the last content that was complete | `last`, `committed` |
| revisions_to_keep, the domain, the call that holds the lock | `keep`, `qube`, `op`, `pc`, `todo` |

A call is cut where the code awaits a `zfs` command; each may fail, and power
may be cut between any two. A snapshot that is still cloned is only marked
for destruction. `SourceIsCommitted` is about every reader at once: what an
export, a clone or a disposable is made of is what the last complete session
or import left, not a session that goes on.

### 3.6 `ReflinkVolume` and `FileVolume` — volumes in files

`ReflinkVolume` has the image, `-dirty`, `-precache`, `-import` and the
numbered revisions as variables, and one action for each rename, copy or
removal, so that a power cut falls between any two. Two imports may overlap,
as nothing in the code keeps them apart (`overlapped`). `FileVolume` is about
the volume a disposable template keeps in the driver `file`: the image, the
copy-on-write file, the device-mapper snapshots that read it, the mark
`_marker_running` and the lock of an export, which live in memory only. What
device-mapper does with the two files is external. Histories name what the
code does not prevent: `mixed` (an import under a copy-on-write file with
data), `crossed` (a check found a qube halted that was starting), `blind`
(qubesd forgot its export).

### 3.7 `CallbackPool` — commands around another driver

The lazy initialization of a pool whose driver is wrapped: `requires_init`,
the lock around it, the two commands, and every operation of two tasks that
waits for it, with failures and restarts of qubesd. The questions that look at
`requires_init` first (`Query`) and the attributes that do not (`Peek`) are
apart.

### 3.8 `QubeTemplates` — whose volumes a qube is started from

| Code | Model |
|---|---|
| property `template` of AppVMs and disposables; absence from `app.domains` | `template` |
| `template_for_dispvms`, `default_dispvm` | `serves`, `default_dispvm` |
| `volumes[...].source` of the root and private volume | `source` |
| how far `start()` is, and what `Storage.start()` was called on | `phase`, `device` |
| a disposable that is kept, in the preload list, requested, delivered, off the list | `kind` |

The template of a TemplateVM's qube changes through the handlers of two
classes, which is one step. A qube in `begun` waits for memory or its netvm, in
`storage` its volumes are being started: it has no domain, so `is_halted()`
says yes. The template of a preloaded disposable itself is not changed.

### 3.9 `QubeNetwork` and `QubeFirewall`

`QubeNetwork` has the netvm of each qube or the default one, the power of
each qube, its interface (`eth`), what its netvm was told of it
(`connected_ips`, `rules`), and the note of a deferred change. A change of
`default_netvm` or `netvm` runs the handlers of all qubes it concerns in one
step, as the code does without an await, up to the handler that raises.
libvirt may refuse to attach or detach a qube of `Fallible`: what the code
catches, ignores or only logs then leaves the qube behind, in `slipped`; a
refusal that makes the call fail before anything is stored is no step.
`QubeFirewall` has the rules in memory, in `firewall.xml` and in the netvm's
QubesDB, the timers of expiring rules, the host's sleep and the failing save.
The families of addresses are told apart as the conversion to QubesDB does.
What a caller may send (`Lines`) is any record with words and numbers; a file
of the old format (`OldFile`) holds rules (`LinesAssumption`). `Filtered` is
the loop over rules that leaves some out, as a recursive function.

### 3.10 `QubeCollection` — qubes, labels, pools

A name comes back, so a qube is a name and the number of the object that
bears it. `CreateBegin`, `CreateDone`, `CreateFails`, `Undone`, `RemoveBegin`,
`RemoveDone`, `PoolAddBegin` … are the parts of the calls between their
awaits; each call that ends saves all of memory. `Restart` reads it again.
A preloaded disposable (`PreloadBegin` … `CleanupFails`) names its template,
which may go all the same: `is_preload` exempts it from the check of
references, and the template's removal cleans it up afterwards
(`RemovePreloads`, `CleanupBegin`), or leaves it when it does not run.
`harmed`, `overwritten` and `orphans` are the histories of section 7. All qubes
are halted, but for these disposables: module 1 has their power, module 2 the
queue they wait in; here a disposable's start only saves, or fails. Disposables
that were never preloaded are not here.

### 3.11 `BlockDevices` and `DeviceAssignments`

`BlockDevices` follows a device from the backend's QubesDB entry over the
event, the comparison with `devices_cache` and the conflict resolution to
`libvirt.attachDevice` and the entry in the domain's XML. Devices come, go
and are replaced on a port while handlers wait. Xen's block script, which
makes a plugged-out device fail, is external. `DeviceAssignments` is the text
that an assignment travels in, escaped, packed, cut at every `='` and read
again, and the calls that add, change and remove assignments, with the restart
that reads them from qubes.xml. A text is a sequence of characters, the name of
a property being one; of the properties, those that tell assignments apart are
there (identity, port, mode, one option). What `Assign` is given may name
another device than its argument and hold any text.

### 3.12 `MemoryBalance`

`algo.py` as operators with the code's integer divisions, and `qmemmand`
around them: the meminfo watch, balancing, a request of a starting qube, the
list of domains that is refreshed later than domains come and die. Memory is in whole megabytes and
factors are exact fractions; balloon drivers that follow their target or stop
on the way are external (`Follow`). `CHECK_PERIOD`, `LAST_SECOND` and `Tries`
are smaller than the code's, which shortens the waits and not the decisions.
`MemoryInit` starts the daemon beside domains that are each at their target: a
restart of `qmemmand` in the middle of ballooning is not among the initial states.

### 3.13 `ApiCalls`, `InternalCalls`, `Backup`

`ApiCalls`: one connection from its request to its last byte, the handlers of
`admin.Events` added and removed while other calls fire events, a client that
leaves at any point. `InternalCalls`: suspend and resume of all qubes around
the host's sleep, with users that pause and unpause meanwhile, and the cache
of `internal.GetSystemInfo` with the events that invalidate it. `Backup`: one
backup as the tasks it is made of, the queue between them, the processes they
wait for, and cancellation at any await. A chunk is queued also when the
`scrypt` that encrypts it has failed (`cut`). The `qubes.Backup` service in the
target qube is external: it reads to the end of the data or fails.

## 4. Runs

| Run | Question | Bounds |
|---|---|---|
| `lifecycle` | Is every stop handled once, on a dead domain, before the next run and before who asked is answered, whoever notices it? | 2 callers, 2 runs, 1 restart, 1 lost connection, failing handlers, timeouts; an ordinary qube, and a disposable whose `start()` may fail after its domain exists |
| `lifecycle_live` | Do calls return and is every end handled? | 2 callers, 2 runs; an ordinary qube with 1 lost connection, and a disposable (whose run is excepted once a forced cleanup has overrun its start) |
| `preload` | Is a preloaded qube delivered once, awake and marked as used, also across restarts; is no paused one forgotten? | 2 qubes; 2 callers and 2 restarts, or 1 caller, 1 tool that unpauses, 2 preloading tasks and failures |
| `preload_live` | Does the queue fill up and is every caller answered? | 4 qubes, 1 caller, 1 change |
| `store` | Is qubes.xml an atomic durable store for one writer, always whole for several; can it be loaded; are files and answers kept? | 2 processes, 2 updates, 4 files, 1 crash; 2 names, 2 labels, 2 pools, 2 callers, 2 or 3 qubes ever, 2 edits, 1 restart; with preloaded disposables 1 pool and 1 edit |
| `resources` | Is only what is complete committed in a thin pool, and does only a revert go back; is memory that was promised there? | 2 writes, 2 seconds, 1 crash or 1 foreign `lvs`, any lvm failure, `revisions_to_keep` -1 and 1; dom0 and 2 qubes, 1600 MB, 2 requests, or 1 and 1 report; 1 domain that comes or dies unseen |
| `snapshots` | Is what readers of a ZFS volume are given committed; does a backup end, whole if it succeeds, and release what it read? | 2 writes, 4 snapshots, 1 clone, 1 failure or power cut, `revisions_to_keep` -1 and 1; 2 files of up to 2 chunks, a queue of 2, 2 cancellations |
| `reflink_volume` | The same for image files, and are replaced images kept; is a callback pool initialized once; does a qube run from the template it names? | 3 writes, 3 revisions, 2 imports, 1 upset; 2 power cuts of the driver `file`; 2 tasks, 3 calls, 2 restarts of a callback pool; 2 templates, 2 AppVMs, 1 disposable, 3 changes |
| `network` | Is a running qube connected to its netvm and known to that netvm's firewall? | 3 qubes of which 2 may be netvms, 2 changes, 1 qube that libvirt may refuse to attach; it is paused while only its netvm or the default changes |
| `provides` | Does the netvm of a qube provide network? | as `network`; `NetvmProvides`, which is violated |
| `management` | Clients, sleep, system information and firewall (3.9, 3.13); does the cache of devices agree with what there is, is what a qube holds there, is what is assigned attached, and listed as assigned? | 2 clients, 2 qubes, 4 messages; 3 moves; 3 ticks, 2 changes of rules; 2 frontends, 2 ports, 2 devices, 4 events; 3 changes of assignments, of 4 keys and 6 options that hold what separates properties |
| `scrypt` | Does a failed `scrypt` keep a backup from counting as done? | as `snapshots`; `ArchiveIntact`, which is violated |

All of them hold, except `ArchiveIntact` and `NetvmProvides`, which state what a
docstring and a test say and the code does not do. Section 7 has what does not.

Each property has an operator `Name_Mistake` next to a definition of the
model; with it in the place of the definition TLC finds the property violated,
within the same bounds. In the runs that several modules share, every action of
every one of them is taken.

Why the bounds are enough. Two callers make every pair of operations race and
two runs give a stop of the past and a domain of the present; a third run adds
no flag that is not already reset by the second. Two qubes and two callers are
the smallest queue in which a wrong qube can be delivered; the failing paths
and the restarts are checked in different behaviours because their product
does not fit, and the proofs of section 6 close that gap: they have no bound at
all. For the store, a save upon a failed save needs two updates; a crash in
the middle of a recovery from a crash is left to the proof. For a volume, two
writes tell what a session started from, what it wrote and what it is restored
to; two seconds give two revisions to prune, and a commit in the same second as
the last one. A name that comes back needs a second qube of the name, and a
third one to come back under a call that still works on the first. Three
qubes are a chain of netvms, with a netvm in the middle that has one itself.
Two devices on two ports make a device change places between the event and its
handling. Three changes of templates or of who serves disposables withdraw,
change and give back. A queue of two chunks is full before a file is over.

The queue run with a maximum of one has no excess of two qubes at a time;
`RemoveExcess` is nevertheless exercised by lowering the maximum to zero.

`CHECK_DEADLOCK FALSE` is in every configuration: a removed qube, an answered
caller, a used-up bound is where these systems really stop.

## 5. Fairness

Safety runs use none. `lifecycle_live`: awaited calls return, a ready
coroutine is run (asyncio's ready queue is FIFO), events are read, libvirt
comes back, a dying domain dies; strong fairness only for taking a lock, which
asyncio serves in FIFO order. No caller has to call and no guest has to stop.
`preload_live`: the same for preloading tasks and callers; a start whose domain
died fails; a qube that will never complete makes the wait time out, because
`get_preload()` waits with a limit. There are no failures in that run, for a
failed use or a timed-out request fires no refill event: the gap it leaves is
filled at the next request. `BackupEnds` of `snapshots`: weak fairness for
the step of the backup's tasks and processes together, each of which is run by
the event loop or the kernel while it can; nobody has to cancel. The two ways
in which a backup waits for ever (section 7) are excepted by `Blocked`.

## 6. Proofs

All theorems hold for every value of the constants that the `ASSUME`s of the
modules admit: any number of callers, qubes, restarts, files.

* `DomainLifecycle_proofs`. `LifecycleInv` is inductive. Its core is `DownInv`
  with `StopFlagsInv`: a coroutine that waits for `_domain_stopped_lock` has an
  unhandled stop in front of it *and* the domain is down, so whoever gets the
  lock handles a dead domain; `PcInv` carries what `start()` has established
  over its awaits, which is what makes the pre-creation awaits safe against
  stops and removals. From it follow the type, the assertion of
  `_domain_stopped_coro()`, and that handlers never run on a live domain, a
  removed qube is down and no removal of volumes overlaps their start (both
  but for a forced cleanup that overran a start), no stop of volumes overlaps
  their start, and domains are created only after the previous run is handled.
  `RunsInv`, inductive on top of it, follows each run: the domain of an unlisted
  qube is one of `lost` (`UnlistedInv`), an active domain has an unhandled end in front
  of it (`ActiveInv`), so its dispatch has not happened (`FiredInv`) and
  whoever waits for it waits for the future that the dispatch resolves
  (`WaitInv`). It gives `ShutdownHandled`, `StorageUnderLiveDomain` and, by a
  case for each kind of step, that the module implements `QubeRuns`
  (`RunPromiseKept`).
* `PreloadedDisposables_proofs`. `QueueInv` is inductive,
  with no condition; it relates the queue and its copy in `qubes.xml`
  (`ListInv`), and the listed names that are not in `app.domains` to the
  removals by hand that wait for the stop of a domain (`LeavingInv`, hence
  `ListedMissingAreLeaving`).
  `HandOutInv` adds where a served qube is (`ServingInv`), what a delivered one
  looks like in memory and on disk (`DeliveredInv`) and that callers do not
  share one (`SeparateInv`). It needs the assumption that nobody unpauses
  preloaded qubes by hand (`Tools = {}`): with such a tool `DeliveredUsed` is
  false (section 7). Single delivery, deliveries marked as used and harmless
  trimming follow.
  Two more parts need no such assumption (`PauseInvariant`): `AwakeInv` (only the
  end of a preload pauses, and a qube that is handed out, or about to be, is past
  it) and `AccountInv` (without a restart, a qube that is paused or may yet be is
  in the queue, served, or about to be cleaned up). Hence `DeliveredStaysAwake`
  and `PausedIsAccounted`; with `HandOutInv`, and so with its assumption,
  `DeliveredIsReady`.
* `XmlStore_proofs`. `WholeInv` (the temporary files of the saves under way are
  apart, and none is the store before it is renamed) gives `StoreWhole` for any
  number of writers. `SingleInv` needs `OneWriter`: only the writer moves the
  store, so what it knows contains what it promised and the time it remembers
  is that of the store. From it follow `OnlyWriterIsCurrent` and the refinement
  of `DurableStore`, one abstract step or none for each step.
  The same module proves `QubeCollection`. `CollectionInv` is inductive:
  `LoadInv` (the pools of listed qubes are there, unless `overwritten`, and
  memory and `qubes.xml` can be loaded, except for `orphans`), `ObjectInv` (no object is made twice),
  `VolumesInv` (a listed qube is being made, by one call and with nothing else at
  work on its name, or has its volumes, unless `harmed`) and `AnswerInv` (what
  was answered is in memory and in the file, and no call will take it back). It
  gives `StoreCanBeLoaded`, `VolumesAreKept` and `AnswersHold`, for any number of
  names, calls and restarts.
* `ThinVolume_proofs`. `VolumeInv` is inductive: a call that removes volumes
  knows one that it will not remove (`CopyInv`: the committed one while
  revisions are pruned, the revision a revert goes back to), and the domain's
  device exists and is none of those (`DomainInv`). `CommittedIsWhole`,
  `LastCopyKept` and `OnlyRevertGoesBack` follow, for any number of revisions,
  failures and crashes. `SessionKeptAlone` shows what the last point of
  section 7 about `storage/lvm.py` rests on: if no other volume stores its
  `lvs` (`Alone`), the cache misses a snapshot only in the call that makes it
  (`CacheInv`), and `SessionKept` holds.
  The same module proves `MemoryIsBacked` of `MemoryBalance`, for any number of
  qubes, requests and events, any maxima, sizes and thresholds (`MemoryAssumption`
  asks that they be numbers, and of `XEN_FREE_MEM_LEFT` that it is at least
  `XEN_FREE_MEM_MIN`). `MemoryInv` is inductive. Besides types and `Backed` it
  says: who holds `GLOBAL_LOCK`, and that a grant lasts as long as its client
  (`ClientInv`); that the watcher, between two turns of its list, knows of every
  domain, and has measured those of the list (`WatchInv`); that a new domain
  can be unknown only while a refresh is still to come (`FreshInv`);
  and that the last target the daemon knows is the one Xen has, or is below it
  when the domain has got there (`HeardInv`, for a daemon that starts
  beside running domains and reads an older target from xenstore). The argument
  has three parts. What `get_free_xen_mem` keeps back covers all that Xen's
  domains may still claim, if the daemon knows them all (`ClaimsAreKept`).
  `balloon` only lowers targets: the quotient of a donor is at most what it has
  (`QuotientBound`), and lowering adds no claim (`LowerKeepsClaims`). A raise, by
  `do_balloon_dom` or a turn of `do_balance`, is at most what is free beyond the
  claims (`RaiseIsBacked`) or is excused by `lent`.
  Two more theorems are about what `algo.py` computes, for any number of domains,
  any measures and maxima. `BalancesAreCovered`: what one balance adds to all
  domains together is at most what is free beyond `XEN_FREE_MEM_LEFT`, or it
  only lowers. Shares that are rounded down add up to no more than the whole
  (`SharesFit`), and a round of `balance_when_enough_mem` gives out no more than
  what is left, because it counts at least those that may still get more
  (`Fits`, `RoundFits`, `SpreadFits`); below that, acceptors share what is free
  and no donor is raised (`LowFits`). `DonorsAreAskedForAll`: the targets that
  `do_balloon` sets give back at least what the request misses, or nobody is
  asked (`BalloonReaches`). Both are steps of `MemorySpec`, stated in
  `MemoryBalance` (`BalanceIsCovered`, `AsksForAll`); they say nothing of a domain that
  does not follow its target. The factors are exact fractions there: the code's
  floats may differ from them by less than the safety margin of 0.999.
* `ZfsVolume_proofs`. One inductive invariant ties the call that holds the
  volume's lock to the domain and the state file. From it: a volume is replaced
  only by one that is whole (`ReplacedWhenReady`). `ReadInv` adds what
  the readers rely on. `KnownInv`: all lists of snapshots, old ones and those a
  call works through included, mean the same snapshot by an id; `RestInv`: a
  call takes snapshots only of a volume that is what it said at rest;
  `SourceInv`: in each list a reader may still be given, the newest clean
  snapshot is of that content, and in the newest one nobody is about to remove
  it. Hence `RevisionsTakenClean` (`RevisionsClean`): a revision is taken
  while no domain has the volume and says what the volume said at rest (not so
  the clean snapshots that readers of a volume without snapshots take, section
  7); and `MadeFromCommitted`: what an export, a clone or a disposable is made
  of (`SourceIsCommitted`), for any number of snapshots and calls.
* `ReflinkVolume_proofs`, on four modules.
  * The driver `file-reflink`. Three invariants, one on top of the other: where
    the image is (`SomeImage`: it is never missing), what an upload may have left
    (`NothingTorn`, unless two imports overlap), and what a session and its
    copy made in advance say (`SessionsStartFromClean`, `ReplacedKept`).
  * The driver `file`. `FileInv` says which of the two files holds what was
    committed at each point of a start and a stop, and that only a domain
    without device-mapper writes past it, which the checks keep apart from
    disposables; hence `ReadersAreServed`, outside `mixed`, `crossed` and
    `blind`.
  * The callback pool. `CallbackInv`: who runs `pre_sinit` holds the lock and is
    the first to succeed, and whoever is past it finds the storage ready; hence
    `InitializedExactlyOnce`, for any number of tasks, calls and restarts, and
    not for what `Peek` asks.
  * `QubeTemplates`. `ChainInv` is inductive, from `ChainAssumption` (a qube is
    of one class) alone. `Served` is the part that is needed besides the
    property: a preloaded disposable whose template serves no longer has been
    marked, so that the check that is skipped then has nobody to protect.
* `QubeNetwork_proofs`. `GraphInv` is inductive: the netvm properties, default
  ones included, form no loop and name listed qubes (that these provide network
  is not kept: `NetvmProvides`, section 7). The code looks for a loop by
  following the clients of the qube it changes; `NewEdges` is the argument why
  this is enough also when `default_netvm` gives many qubes a new netvm at once. `LinkInv` adds the
  interfaces, those of paused qubes as well: unless a qube is marked or has a
  note of a deferred change, it has its netvm's interface or none; hence
  `InterfaceFollowsNetvm`. `ServedInv` adds what the netvm has to know, with the
  time from which each part holds: the address from `domain-pre-spawn` on
  (`Known`), the rules from `domain-start` on (`Ruled`), the interface when
  libvirt has created the domain (`Fresh`) and when the netvm's `domain-start`
  has served its clients (`Uplinked`); hence `ServedByNetvm`.
* `Services_proofs`, on six modules.
  * `InternalCalls`. `SleepInv` compares each qube with what it was when the
    host went to sleep, for each point of the two calls: recorded are the ones
    that were paused already, and the others are as they were or put to sleep;
    then what is left to do are those. It gives `WokenAsBefore`; the cache of
    system information is an invariant of its own (`CachedInfoIsCurrent`).
  * `ApiCalls`. `ApiInv`: what was written to a client is one answer or the
    stream of a subscriber (`AnsweredOnce`); nothing is written before a call
    ends or its subscription works, and whoever has a handler was told so
    (`ReplyInv`); a handler in the tables belongs to a call that is there
    (`SubscriberInv`). Hence `EveryClientIsServed`, for any number of clients,
    messages and events: sequences of any length are handled by what `Append`
    does to them.
  * `QubeFirewall`. `FirewallInv`: the file and the rules in memory say what was
    accepted, except after a failed save or a restart that lost them, and there
    is a timer due when the first rule in memory expires, unless nothing was
    saved since. The steps are about `LiveAt(n)`, what has not expired at `n`:
    lists that agree on it agree on it for ever (`AgreeLater`), and what is sent
    to the netvm is the part of a family (`SentIsObeyed`). Hence
    `RulesAreEnforced` and `ExpiryStaysPending`, from `LinesAssumption` (of a
    line, only what is no number is refused before the code modelled here).
  * `Backup`. `ExportInv`: one call runs at a time, and only its archiving task
    exports and releases; hence `VolumesAreReleased`. `StreamInv`: what was
    received, what is being sent and what waits in the queue, one after the
    other, start with the header, each element is the one that follows the one
    before (`Follows`: the next chunk, of the next file after the last one, the
    end after the last file), and the archiver is where this ends, until
    something fails. `Whole` is such a sequence that is complete; hence
    `ArchivesAreComplete`, for any number of files, sizes and length of the
    queue; it says that every chunk arrived, as scrypt left it, and not that
    scrypt finished it (`SizesAssumption`: there is a file, and a chunk is not empty).
  * `BlockDevices`. `DevicesInv` is `TypeOK`, `TaskInv` (handlers under way are
    about ports and qubes there are), `DiskInv` (a disk belongs to one qube, that
    runs; the cache knows whose it is, and one that is not backed by what is in
    its port is still to be taken away) and `CacheAgrees`. It gives
    `CacheIsRight` and `DisksAreBacked`, for any number of qubes, ports and
    handlers. `ServeInv`, on top of it, follows a device that a qube is to get
    and nobody has: its port is excused, or the event that will find it added is
    still to be handled (or suspected), or a task has an item for it with the
    right device and qube, and has not lost it over a question. Hence
    `DevicesComeToQubes` (`AutoAttached`).
  * `DeviceAssignments`. The text is proved right first: unescaping undoes
    escaping (`EscapedRight`); packing adds exactly one mark `='` and leaves
    those before it where they are (`MarksMore`: an escaped text has none,
    because its quotes follow backslashes and it does not end with `=`), so that
    each property is unpacked as it was packed (`LastProperty`,
    `EarlierProperties`); hence `RoundTrip`, for texts of any length over any
    characters. No text that ends with a quote gives a value that could not be
    sent again (`ValueKept`). `AssignmentInv` says that each entry, in qubesd and
    in qubes.xml, is one that makes the round trip, and is what was asked for;
    with it `ListedAsAssigned`, from `TextsAssumption` (ports are names that
    qrexec let through, an assignment has at most the one option).

A theorem's property that no run lists was checked by TLC before it was
proved, and so was each inductive invariant, as an invariant of the run of its
module. Attempts at proofs corrected the models in two places, where a history
that excuses a property came too late or missed a case. In `ZfsVolume` a list
of snapshots that was forgotten while it was read is doubtful from the moment
it is kept, not from the end of the call. In `BlockDevices` a detach that fails
leaves, besides the disks it did not come to, the disk of a port that the cache
was already wrong about.

Only model-checked are the liveness properties (`CallsReturn`, `EndIsHandled`,
`Refilled`, `RequestReturns`, `BackupEnds`), which rest on fairness and are out
of the prover's reach. Every safety property that a run checks is a theorem.

What recursive functions return is proved by a least counterexample, as the
induction theorems of the library take an operator and cannot be used:
`LeastNumber` (every non-empty set of numbers has a smallest one, from
`NatLessThanWellFounded` and `WFMin`, which are about sets) gives the shortest
sequence for which the function would be wrong, and its last element a
contradiction. `FiltersExist`, `FilterRight`, `FilterSame` and `FilterTwice`,
and `ReplacesExist`, `EscapedRight` and `UnescapedRight`, are proved so, for
sequences of any length. In `ThinVolume_proofs` the rounds of
`Spread` are (`RoundsExist`, `SpreadType`), and sums over finite sets by a
smallest set for which they would be wrong (`SmallestSet`): `SumExists`, that
the order of the terms does not matter (`SumTake`), and bounds of a sum from
bounds of its terms (`SumBound`).

`SingleKeepsPromises` of the run `store` is proved as `StoreKeepsPromises`, from
`OneWriter`; the run has a copy of the store with one writer for it.

## 7. Disagreements between the code and its documentation

Met while modelling. Where the model has a property that these refute, the
property excepts them by a history variable or a hypothesis, which is named in
brackets; the module says when it is set.

### Lifecycle, disposables, store

* A `shutdown(wait=True)` whose timeout ends cancels the future that other
  callers wait for as well (`vm/qubesvm.py:1728`, against the docstring at
  1665).
* `start()` that fails between `createWithFlags()` and the point where the
  stop is accepted again (`create_xs_entries()`, a `property-reset` handler)
  leaves a paused domain whose STOPPED event is refused, so that a later
  `kill()` never returns (`vm/qubesvm.py:1499`; `lost`). The disposable of
  `lifecycle` has this failure.
* `DispVM.start()` whose template is no longer one for disposables raises before
  it asks for `startup_lock`, and its `cleanup(force=True)` unlists and removes
  the disposable that another call is starting (`vm/dispvm.py:1005`). That
  start looked at `app.domains` before ("check if domain wasn't removed in the
  meantime", `vm/qubesvm.py:1408`): it creates the domain, of which nobody
  hears any more, with its volumes removed (`overrun`, `lost`).
* `get_preload()` and `admin.vm.Unpause` of the same requested qube: the one
  that resumes first applies the network changes while the other one returns,
  so the caller may be answered before `apply_deferred_netvm()` is over
  (`vm/dispvm.py:881`, against the comment in `vm/mix/net.py:363`).
* A preloaded qube is first saved when it has booted (`vm/dispvm.py:606`); if
  qubesd is killed before, its domain runs on, in no qubes.xml. A clean stop
  saves.
* A request is not saved before the qube is used (`vm/dispvm.py:903`); after a
  kill of qubesd in between, the qube is back in the queue.
* `cleanup()` of a preload that has no domain yet finds nothing to stop and, without
  force, does nothing more; the qube then boots, unlisted and wanted by nobody
  (`vm/dispvm.py:990`). A restart cleans it up.
* A qube that left the list and whose `cleanup()` had only been scheduled is
  not cleaned up after a restart (`vm/mix/dvmtemplate.py:94`, against the
  comment at 88).
* `admin.vm.Remove` of a preloaded disposable whose domain has just ended
  takes it out of `app.domains` before the preload list loses it
  (`api/admin.py:1777`; `remove_from_disk()` handles the stop first,
  `vm/qubesvm.py:2308`). A request in between indexes `app.domains` with the
  listed name and ends in a `KeyError` (`vm/mix/dvmtemplate.py:724`), where a
  qube further down the list or a fresh one would do (`RequestBreaks`).
* `create_on_disk()` that raises leaves the dead qube in the list
  (`vm/dispvm.py:846`).
* `remove_from_disk()` called by `admin.vm.Remove` while the domain-stopped
  handlers run takes handling that has begun for done (`vm/qubesvm.py:2308`,
  the flag is set at 1632) and removes the volumes under `storage.stop()`,
  against "make sure shutdown is handled before removing anything"
  (`vm/qubesvm.py:2305`).
* `_acquire_lock()` checks the file and its modification time before it waits
  in `lockf()` (`app.py:1689`), not after, against the comment of
  `app.py:1669`. A second process that waits there gets the lock on the file
  the rename took away and later saves over what the first one saved.
* A first save that fails leaves the empty file that `O_CREAT` made
  (`app.py:1659`, against `app.py:1576`).
* After `save()` the new file is open but not locked (`app.py:1608`, against
  `app.py:1581` and `1605`), and the next save of the same process no longer
  looks whether somebody else has saved.

### Storage

* `size_cache` is shared by all volumes and filled by any of them: one that
  stores an old `lvs` over a newer one makes `start()` think that there is no
  `-snap`, and the session in it is thrown away (`storage/lvm.py:981`;
  `SessionKeptAlone`).
* The "safety check" of `_remove_revisions()` (`storage/lvm.py:446`) compares a
  revision with the name of a whole volume and never fires. When a clone or
  revert was interrupted and the last revision *is* the volume, `start()` with
  snapshots disabled removes it, and with it the data: the exception in
  the theorem `LastCopyAlwaysKept`.
* `remove` discards the blocks before it calls `lvremove`
  (`storage/lvm.py:953`). When that fails, or power is lost, in `revert()`, an
  empty volume keeps the name, and is what the next `start()` uses.
* An import cut by a power failure leaves `-import` behind: `start()` and
  every later import refuse, with "Import operation in progress", until
  somebody removes it by hand.
* A session left in `-snap` when `revisions_to_keep` is changed to -1 is
  ignored by the next start, and comes back, over newer data, when it is
  changed again.
* ZFS: a snapshot list that was forgotten and read again during a command is
  kept although it is old (`storage/zfs.py:1532` says the cache is safe); the
  clean snapshot that `stop()` then misses makes an export or clone older than
  the last session (`issued`, and `doubtful` once the list is
  kept). A crash between `dirty:=off` and
  `_mark_clean()` does the same, as the comment at `zfs.py:2391` admits
  (`doubtful`). A snapshot that waits for its clones to go is still found by
  `latest_clean_snapshot`.
* ZFS: the state file is written after *all* volumes of a qube are started, so
  with `revisions_to_keep` -1 a reader may clone a volume that has a domain
  already (`storage/__init__.py:838`, `zfs.py:2009`). A failed rename at the end
  of an import or clone, or a crash before it, leaves only `.importing`, and
  the rollback removes the other copy (`zfs.py:1994`).
* Reflink: two overlapping imports share `-import.img`; the one that ends
  first commits what the other has not finished (`storage/reflink.py:367`;
  `overlapped`). A crash between the new revision and the rename keeps the
  same content twice and prunes a real revision for it. A volume cleared or
  cloned into while its qube runs is committed under a dirty session.
  With `revisions_to_keep` -1 only the oldest revision is pruned.
* File: a failed `Storage.start()` leaves `_marker_running`, and the volume can be
  neither started nor exported until qubesd restarts (`vm/qubesvm.py:1477`,
  1529); an import ends by a rename also under a qube that was started
  meanwhile; the export lock is in memory, so a restart forgets it
  (`blind`, `crossed`, `mixed`). After a power cut `stop_storage` commits the
  session it interrupted.
* Callback: `destroy()` of the wrapped pool is never called; a `post_*` command
  that fails makes a call fail that the driver has done; setting a pool up
  without callbacks clears `requires_init` before `pre_setup` has run. The
  revisions, size and usage of a volume and the volumes of the pool are asked of
  the wrapped driver also before `pre_sinit` has run (`callback.py:413`, 592,
  661), while the other attributes answer None or False then.
* The checks before a change of template ask `is_halted()` or `is_running()`,
  which do not see a qube whose volumes are being started, nor a preloaded
  disposable that was requested and not delivered (`vm/appvm.py:145`,
  `vm/mix/dvmtemplate.py:414`): it then runs from the old template
  (`behind`). When `template_for_dispvms` is withdrawn from under a
  requested disposable, later changes are not checked at all.

### Network and firewall

* Resetting `default_netvm` has no handler, so running qubes stay on the old
  netvm; setting it to the value it has detaches all of them (`app.py:2083`,
  `vm/mix/net.py:585`). The loops stop at the first qube that fails; a paused
  qube that they passed over has its note, and gets rules only with it.
* A client that is paused while its netvm's `domain-start` handler runs is
  never attached again; a note about a deferred change is deleted when the
  qube is paused again before it is applied; a netvm changed between a crash
  and its handling leaves a dead interface (`slipped`).
* `provides_network` may be cleared while a qube runs that was started with
  it, and the setter of `default_netvm` does not look at it. A reset of it
  (`admin.vm.property.Reset`) does not look for connected qubes either, as its
  setter does: their netvm no longer provides network, and since loading runs
  the setter of `netvm` (`vm/mix/net.py:74`), qubesd does not start from the
  qubes.xml that is saved then (`NetvmProvides`, violated in the run
  `provides`; the model starts only from what can be loaded).
* When libvirt does not attach a client, the netvm's `domain-start` handler
  only logs "Cannot attach network" (`vm/mix/net.py:357`), and one that it does
  not detach the `domain-shutdown` handler ignores; a change of netvm is stored
  by then. Nothing tries again, but for a qube with a note (`slipped`).
* No timer for expiring rules exists after qubesd was restarted, for the
  rules a disposable takes over, or when the save of a call failed
  (`untimed`); a disposable's rules are not saved (`lost`); a call whose save
  failed leaves its rules in memory (`doubtful`). A timer does not count the
  time that the host sleeps.

### Collection, devices, memory

* A removal while the qube is being created leaves its volumes, and `Create`
  answers that all is well (`harmed`). A failing creation removes whatever has
  the name by then. Two `admin.pool.Add` of one name overwrite each other
  (`overwritten`). A property's handler that raises leaves the new value in
  memory, unsaved until some other call saves it. `Remove` deletes the volumes
  before it saves.
  A template with preloaded disposables may be removed (`app.py:1042`); they
  are cleaned up after it is unlisted (`dvmtemplate.py:136`), and one that does
  not run, or whose cleanup fails, is left. Any save in between writes a
  qubes.xml that qubesd cannot load (`orphans`).
* One device that fails to attach, or a refused conflict, drops the others of
  the same event (`device_protocol.py:1435`; `skipped`). A required device is
  checked before awaits during which it may go (1427). After the question
  to the user, whatever is in the port is attached. The cache is written before
  libvirt has attached. A failing detach ends the handler of the others.
* A value that ends in `=` makes a mark with the quote that closes it
  (`device_protocol.py:114`): the assignment is refused or, when the value
  spells another property (an option that ends in `' _option=`), accepted as
  something else (`unkept`). An identity that is empty comes back from
  qubes.xml as `*` (`vm/__init__.py:581`; `unkept`), an option that is empty as
  the text `None` (`emptied`); an option called `identity` replaces the
  identity. `assign` adds before
  `device-pre-assign` may refuse.
* A domain that dies unmeasured makes balancing and requests raise until the
  next refresh of the list (`unseen`). Memory that a stale measure says is free is
  given away twice (`qmemman/systemstate.py:503`; `lent`).
  `REQ_SAFETY_NET_FACTOR` can put targets below the preferred minimum.
  A request that raises releases the lock without asking for a refresh.
  `balance_when_low_on_mem` subtracts what its donors give from what it deals
  out (`qmemman/algo.py:198`), so that acceptors are dealt less than is free.

### API, suspend, backup

* A client that leaves before its handler is scheduled leaves the handlers of
  its event stream behind (`early`). Events are encoded in ASCII, so a value
  that is not aborts the operation that fires it.
* A second `SuspendPre` before `SuspendPost` overwrites the record of what was
  paused (`twice`); a user who pauses in between has it undone.
  `domain-paused`, `domain-unpaused` and `domain-resumed` do not invalidate the
  system information, nor does a reset of `default_guivm` (`missed`).
* A full queue and a sender that has failed block a backup for ever
  (`backup.py:949`, against the docstring at 810), until it is cancelled. With a
  target qube a failed archive, or one cancellation, waits for a service that
  waits for the pipe which qubesd still holds (the comment at 950 is about
  this case); a second cancellation ends it.
* scrypt's exit status is logged only (`backup.py:679`), while the docstring at
  986 says a process that fails interrupts the backup: a chunk that was cut
  short is sent and the backup is stamped (`cut`; the run `scrypt`). The
  check for running qubes with snapshots disabled never applies, for
  backups use an offline copy of `qubes.xml` (852). A volume whose export is cancelled
  stays exported (`leaked`).

## 8. Not modelled

`PROJECT.json` says for each component what is missing. In short:

* volume sizes, resizing, volatile and encrypted volumes; the vm's kernel
  volumes (`storage/kernels.py`); formats of `lvs` and `zfs list`;
* PCI devices, which go through the same calls without a cache of their own;
* the global preload queue and its memory threshold as a policy; changing the
  template of a preloaded disposable itself;
* standalone, admin and remote qubes beyond what the other modules take from
  them; the removal of templates while qubes are based on them (the collection
  module has references in general);
* extensions other than those around block devices: they translate a request
  into features, without a state of their own; the events and features machinery
  is modelled where a component uses it (handlers that fail, orders that
  matter), not as a component;
* two backup profiles at a time, and the content of the archive beyond the order
  of its parts; restoring is not in this repository;
* tools, scripts, systemd units, policy files and packaging, which are start-up
  code and data.
