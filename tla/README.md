# Verification of the RT driver for the Galaxy A17 and its companions

TLA+ specifications, TLC models and TLAPS proofs of the code in this repository. They
cover `RTDriver-A17/rt_port/runtime`, the kernel module behind `/dev/rt_a17`, which runs
concurrently, in interrupt context and against tasks it does not control, and the scripts and
workflows that fetch its sources, build it, pass judgement on what was built and publish it,
which are killed, run again and overtaken by newer pushes. Paths below are relative to `src/`.

## 1. Inventory

### 1.1 The kernel module (`RTDriver-A17/rt_port/runtime`)

| Component | State | Operations | Hard behaviour |
|---|---|---|---|
| Hit ring (`rt_breakpoints.c`: `rt_bp_hit` 53-98, `rt_bp_get_hits` 277-327) | `hits`, `head`, `count`, `dropped`, `callback_errors` of a session | append from the breakpoint exception; read a prefix | exceptions on several CPUs, a read made of three critical sections with two sleeping, failing copies between them, a full ring, saturating and wrapping counters |
| Registrations and sessions (`rt_breakpoints.c`: `rt_bp_add` 113-250, `rt_bp_control` 252-275, `rt_bp_drop` 100-111, open/release 349-376, `rt_bp_ioctl` 378-404) | `entries` of a session, `rt_bp_total`, references on mm, mm_count and credentials, `exec_update_lock` of the target | ADD, REMOVE, GET_HITS, STATUS, open, last close | targets that exec, change credentials, exit and recycle TIDs between any two steps; an event that fires before its entry is complete; synchronous unregistration against a running callback; roll-back of a half-made registration; a global quota shared by descriptors |
| Remote memory (`rt_main.c`: `rt_access_mm` 48-66, `rt_check_vmas` 72-90, `rt_copy_memory` 92-182, `rt_module_base` 184-251) | none between calls; a call holds an mm, `mmap_lock`, pinned pages | READ_MEM, WRITE_MEM, MODULE_BASE | page and length arithmetic, partial pins, what was changed when a later step fails |
| Device and dispatch (`rt_main.c` 253-333) | the misc device, two build profiles | open, release, ioctl | capabilities and profile must agree with INFO |
| ABI (`rt_port_abi.h`, `rt_abi.h`) | - | layouts and limits | - |

Correctness in one sentence each: the ring is a bounded queue whatever fails or overtakes;
an event and its hits stay with the identity that was authorized, and everything taken is
given back; a memory request is all or nothing up to the first store; the ioctls INFO
announces are the ones served.

### 1.2 Around it

| Component | State and operations | Hard behaviour | Correct when |
|---|---|---|---|
| Clients and self-tests (`rt_port/tools`, `runtime/*selftest*.c`, `rt_a17_client.c`) | one process, one descriptor | EINTR, partial success | they report what the driver did |
| Downloads (`scripts/download_mediafire_sources.py`) | archives under their final names, `.part` files | kill and re-run, three attempts, wrong or oversize content, the overlay copied straight to its name | an archive under its final name is verified, or every run refuses it |
| Preparation and patch (`prepare_official_a17.sh`, `apply_samsung_czi4.py`) | the extracted tree, backups named by the second, a manifest, a report | kill half way, a second application on the half patched tree | a report is written over a whole patched tree only; an original that was replaced is in a backup |
| GKI inputs (`prepare_gki_ddk.py`, `prepare_gki_kernel.py`) | cache, workspace, clones, hooks in two files, evidence | two pools of threads with failing jobs, kill and re-run on what is there | evidence is about pinned inputs, the two hooked files as far as no run died writing them; only published content spreads |
| Verifiers and kit (`verify_gki_rt.py`, `verify_rt_diag.py`, `verify_module_crc.sh`, `multikernel/rt612.py`, `check_kernel.sh`) | a report or kit directory | a kill while the kit is written, damage on the way, partial or disagreeing tables of checksums | what is passed loads; what is offered loads, and is complete and for that kernel as far as its list of checksums is whole |
| Requests and workflows (`resolve_*_request.py`, `ci_build_gki_kernel.sh`, `verify_gki_kernel.py`, `.github/workflows`) | main, runs, artifacts | pushes of several commits, cancelled runs, verification after main has moved | only a pinned tree is built on request; only current, fully checked artifacts are called verified |
| Other build scripts (`ci_build_a17.sh`, `build_probe.sh`) | a work directory | - | a failing command ends them |
| Source inventory (`inspect_a17_source_bundle.py`) | none | - | - |
| Kernel Checker (`Zaid-Kernel-Checker`) | UI fields `kernel`, `report`, `scanning`; one worker thread; a shell with a timeout and a reader thread | jobs and posted results out of order, activity destroyed meanwhile | a verdict is about the kernel scanned |
| Bundle Guard (`Zaid-Bundle-Guard/menu.sh`, `installer-github.sh`) | selection, verified set | failure in the middle of an installation | only selected, verified modules are installed |
| LSPosed hook, diagnostic module, probe | none | - | - |

### 1.3 Interactions

A client opens `/dev/rt_a17` (a session is allocated), and its threads call ioctls which
`rt_a17_ioctl` sends to the memory functions, stateless, or to `rt_bp_ioctl`, which
serializes on the session mutex. A registration leaves the session a perf event attached
to a target task. When the target executes the watched access, perf calls `rt_bp_hit` in
the target's context: it disarms the event, compares identities, and appends to the
session's ring under a raw spinlock, never taking the mutex. The shared state is the ring
(callback and readers), the entries (callback reads what ADD writes and REMOVE or close
erase), `rt_bp_total` (all sessions), the target's mm, credential and `exec_update_lock`
(the driver, and the target's own exec, setuid, exit).

The scripts interact through directories: the download leaves the archives the preparation
extracts, which runs the patch application; a GKI workspace feeds the build whose modules the
verifiers read; the archive of a build feeds `rt612.py bundle`, and its kit `check_kernel.sh` on
a device. The workflows interact through main: a push triggers a run, the completion of a run
triggers a verification, and main moves at any time.

The hazards of this code, each at its line, are in `PROJECT.json` (`hazards`) with the
properties that cover them.

## 2. Modules

| Module | What it is |
|---|---|
| `HitQueue` | what a descriptor promises about hits: a bounded FIFO that loses and counts the newest |
| `RTHitQueue` | the ring as coded; implements `HitQueue` |
| `RTHitQueueProofs` | its inductive invariant, safety properties and refinement, for all parameters |
| `MCRTHitQueue` | instance for TLC |
| `RTBreakpoints` | registrations, sessions, quota, references, targets |
| `RTBreakpointsProofs` | its inductive invariant and safety theorems, for all parameters |
| `RTBreakpointsQuotaProofs` | its counters: references and the global quota, for all parameters |
| `MCRTBreakpoints` | instances for TLC: three configurations |
| `RTMemory` | READ_MEM, WRITE_MEM and MODULE_BASE against a target that remaps, execs and exits |
| `RTMemoryProofs` | its inductive invariant and its eight invariants, for all parameters |
| `MCRTMemory` | instances for TLC: three configurations |
| `SourceStore` | what the download promises about the directory it fills |
| `SourceDownload` | `download_mediafire_sources.py`, as state and actions |
| `SourceTree` | the download with `prepare_official_a17.sh` and `apply_samsung_czi4.py`, under kills; implements `SourceStore` |
| `SourceTreeProofs` | originals, whole trees and the refinement of `SourceStore`, for all parameters |
| `GkiInputs` | `prepare_gki_ddk.py` and `prepare_gki_kernel.py`: pools, cache, clones, staging, evidence |
| `GkiInputsProofs` | its inductive invariant and two action properties, for all parameters |
| `ModuleChecks` | what the verifiers compare of a module and a kernel, and what the module loader asks; no state |
| `ModuleKit` | `rt612.py build` and `bundle`, `verify_gki_rt.py`, `verify_rt_diag.py`, `check_kernel.sh`; composes `ModuleChecks` |
| `ModuleKitProofs` | what is passed loads, and what is certain of a kit that is offered, for all parameters |
| `KernelPipeline` | pushes, resolvers, kernel runs, cancellation and the later verification |
| `KernelPipelineProofs` | its inductive invariant and two invariants, for any history, requests and runs |
| `MCSourceTree`, `MCGkiInputs`, `MCModuleKit`, `MCKernelPipeline` | instances for TLC |

Definitions marked `Fault:` are not part of any specification. Each is an action changed
the way a slip in the code would change it, and is there to confirm that a property
notices: with the fault in place of the action, TLC finds the property violated.

### 2.1 RTHitQueue

One descriptor. `hits`, `head`, `count`, `dropped`, `callback_errors` and `mutex` are the
fields of `struct rt_bp_session`. A slot holds a stamp, the number of the hit, or `Zeroed`,
so that erasure is visible; the stamp stands for the record, whose timestamp is taken under
the spinlock. `cb[c]` is where CPU `c` is in `rt_bp_hit`: disarm failed (`error`), identity
check (`check`), record (`record`). `pc[r]` is where a thread is in `rt_bp_ioctl` and
`rt_bp_get_hits`; `n`, `snapshot` are its locals, `buffer` its user memory.

Each critical section of the raw spinlock is one action (`CallbackError`, `Record`, `Size`,
`Snap`, `Commit`); interrupts are off inside and nothing else touches the ring. Between
them every error return is an action of its own: `Fail` (bad buffer, overlap, no memory,
fault on the request), `CopyHitsFaults` (a fault after `k` records), `Interrupted` (a signal
while waiting for the mutex). The size 0..MaxHits+1 a reader asks for covers the capacity
query, a partial read, an exact one and one larger than the ring.

The refinement maps the queued slots, oldest first (`Pending`), to the abstract queue. A
failed read must be a stutter, a successful one exactly one `Deliver(n)`.

### 2.2 RTBreakpoints

`entry` and `perf` are kept apart on purpose: `entry[e].event` is the field
`entry->event`, `perf[e]` the event the kernel holds. They differ between registering and
storing (`AddRegister`, `AddStore`) and between unregistering and freeing
(`Unregister`, `FreeEntry`). `total` is `rt_bp_total`; `credRefs`, `mmGrabs`, `mmUsers` count
the references the driver holds; `execReaders` who holds the target's `exec_update_lock`.

`rt_bp_add` is ten actions, one between each two points where another actor can change
something it reads: the search and `get_task_cred` (`AddFind`), `mm_access` (`AddAccess`),
`exec_update_lock`, the second comparison and the mapping checks (`AddRecheck`), the
increment and its comparison (`AddQuota`, `AddOverQuota`), filling and registering
(`AddRegister`, `AddRollBack`), `entry->event = event` (`AddStore`), and the common way out
(`AddPut`). Errors whose condition is data (arguments, VMA flags, compat threads, a refused
`mm_access`) are nondeterministic choices of the same action.

`GET_HITS` is one step, `Drain`: that this is sound is what `RTHitQueue` shows. `BP_STATUS`
changes nothing and is left out.

The rest of the kernel is external and modelled by what the driver relies on: `Exec` takes
`exec_update_lock` for writing, installs a fresh mm and perhaps a fresh credential and
detaches the events (`remove_on_exec`); `SetCred` takes no lock the driver holds; `Exit`
detaches events and drops the mm; `Spawn` may reuse a TID that is free;
`unregister_hw_breakpoint` waits for a callback in progress. The last close comes only when
no ioctl of the descriptor is in progress (the file is reference counted). An identity is a
number never given twice, since the references held prevent pointer reuse (the comment at
line 79).

`granted` is a history variable: the identities for which `mm_access` succeeded on the
descriptor. It appears in no guard.

### 2.3 RTMemory

A call is in `rt_copy_memory` or `rt_module_base`; `pc`, `req`, `mm`, `page` (`i`), `done`, `base`, `ret`
are their locals, and the labels `unlock`, `put` of the module are those of the C. Each iteration of the
loops of `rt_check_vmas` (`Check`), of the copy (`CopyPage`) and of the search for a module (`Search`) is a
step. Bytes have no values: `moved` records, for each byte copied, its index in the kernel buffer and its
address in the target, which is what distinguishes a right transfer from a wrong one in both directions.
Since the buffer of a write is staged before anything is locked, and that of a read is copied out after,
`moved` is empty exactly when the target, or the buffer, is untouched.

The mappings of an address space are a function from pages to kinds (a gap, a guard page, data, a file,
the file asked for, writable code, a device); a VMA is a longest run of one kind, and `FindVma` the first one
that ends above an address, as `find_vma`. `Width` is 2^64: `End` is computed modulo it, as the C does, and
`Acceptable` holds the overflow check. `mmap_lock` is a reader-writer lock on which a waiting writer stops new
readers; a user copy of a page that is not resident takes it on the caller's own address space, which is the
target's for a caller that is one of its threads. `Access` may be refused with any of `AccessErrors`, which is
handed on as it is. `Pin` may pin all pages, none with one of `PinErrors`, handed on as well, or some: these are
held under the lock, in state `unpin` with `page` their number, until `UnpinPartial` gives them back and the call
fails with `EFAULT`. An address space without users loses its mappings, so that an access after the last reference would be
seen by `OnlyPermitted`.

### 2.4 SourceDownload and SourceTree

`files[a]` is what stands under the final name of an archive: nothing, a part of it, the genuine one
or another; `part` whether a `.part` file exists. `pc` is where the script is in `download_one`
(`check`, `page`, `open`, `body`, `verify`) and `extract_patch` (`unpack`, `copy`, `recheck`); `attempt`,
`total` and `sound` are the loop variable, the byte count in blocks of 1 MiB and the running digest,
which is right when exactly the right blocks have arrived. The handler of an attempt catches errors
at any of its steps (`Retry`, `GiveUp`); errors it does not catch and kills are `DownloadDies`, which
leaves the disk as it is.

`SourceTree` goes on with the tree. `entry[e]` is a file of the overlay in the tree (`old`, `new`, `torn`
while it is written, `foreign` from another archive), `backup[s]` the directory named by second `s`.
Each loop iteration of `apply_samsung_czi4.py` is at most four steps: the backup copy and the write, each
of which a kill can cut in two (`BeginSave`, `EndSave`, `BeginWrite`, `EndWrite`). The application is run
by the preparation or by the owner on whatever tree stands there, and only warns about an archive
it does not know. `Tick` moves the clock between scripts, so that two applications may fall
into one second. `RemoveRefused` and `DiscardTree` are what the scripts' messages ask of the owner.

`SourceStore` promises that, under its final name, an archive is missing, verified or rejected; that
it goes from missing to verified in one step and stays; that only an owner removes a rejected
one; and that success is reported with all three verified. The refinement maps an overlay that is being
copied to a missing one. The overlay is the only archive an interrupted run can spoil (`Fragile`), because
it is not written under a temporary name; the next runs refuse what is left of it until the owner
removes it. This is weaker than what the other two archives get, and it is what the code does.

### 2.5 GkiInputs

`script` picks one of the two preparers, which share `download_one` and `clone_project`. `task[j]` is where
the job of a file or project is in its function, and only `Workers` jobs are past `queued` at once. Leaving
the `with` block joins every job, also when one has failed. Files are whole or torn: `write_bytes`
truncates first (`StoreOpens`, `PlaceOpens`, `OpenHook`). `repo[p]` records what `git init`,
`remote add`, `checkout` and the link have done; git itself is external: a checkout writes the files
first and moves HEAD last, which is why a clone found at its revision is taken as complete. A clone killed
between `init` and `remote add` cannot be fetched into again and fails until it is deleted: no false
evidence, but no progress either, so there is no property that a preparation eventually succeeds.

`misc[h]` is `drivers/misc/Kconfig` or `Makefile`, two files of a clone kept apart from its `tree`. `stage` only
looks for the hook's line in them (`HasHook`). A run that ends inside `write_text`, killed or failing, leaves a
stump (`torn`) to which the next run appends the hook (`lost`), and its evidence does not show it. `cut` is a
history variable: the files for which that has happened. It appears in no guard.

### 2.6 ModuleChecks and ModuleKit

A kernel is its release, the set of its options and the checksum of each exported symbol; a module is
what the verifiers read of it, with its two tables of checksums apart. `Inspect` is
`rt612.inspect_module`; `GkiAccepts` and `DiagFinds` are what the two other verifiers add or ask instead.
`Loads` is external: the kernel's loader, which compares only the rest of the vermagic when there are
checksums, lets an import without one through, and refuses a module without any. The properties relate the
two: `PassedLoads` says that a pass implies loading, signature trust aside.

`ModuleKit` runs one program on a kernel and two modules and may kill it at any step. A kit is written file
by file (`OpenFile`, `CloseFile`) in the order of the code. `sums` are the files `SHA256SUMS` has a line for: those
that were there when it was made, or, when it has been cut, those whose lines come before the cut (`Cuts`, in the
order of `SumsOrder`). `Damage` takes a file away or cuts it, the list included. `CheckKernel` is `check_kernel.sh`:
it compares release, architecture, checksums and model, in that order (`StateFor`), with what is left of the files:
what remains of a file that was cut may equal anything (`Compares`), and `sha256sum -c` compares only the files the
list still names and may pass over or refuse a line cut in two (`SumsCheck`). `KitOrder` merges files that are
written by one loop and read by nobody separately (`evidence`, `tools`, `package`); such a group is in `sums` when
the list has all its lines.

### 2.7 KernelPipeline

A commit is a version of the RT sources and the set of requests in it; a request says which commit it pins
and which of its fields are as they should be. `Push` adds one or two commits of which the last has a
request, `PushSources` an ordinary one. `Resolve` applies the resolver of the run's workflow to the
difference between the two ends of the push; an RT request must ask for the mode of its own file name
(`RtMode`). What `BuildModules` compiles and verifies is in `ModuleKit`. `Trigger` supersedes a kernel run in progress
(`cancel-in-progress`). A run goes through `validate`, `resolve`, `prepare`, `config`, `build`, `verify` and
`upload`, and may fail in each before the last; the artifact is uploaded regardless. Its completion
triggers `Checkout`, `CheckSource`, `CheckBinary`, `Publish` of `rt-taipei-kernel-verify.yml`. `faults` are
the gates of `verify_gki_kernel.verify` the binary does not pass.

## 3. Runs

| Run | Instance | What it shows |
|---|---|---|
| `hit_queue` | ring of 2, counter saturating at 2, error counter modulo 2, 2 CPUs, 2 readers, 5 exceptions | the ring's invariants, its refinement of `HitQueue`, and that neither readers nor callbacks get stuck |
| `life` | 1 descriptor of 2 slots, 2 threads, 2 targets with the same TID, 2 addresses, quota 2, 1 hit, 3 identities | authorization, callback safety, one-shot hits, unique registrations |
| `quota` | 2 descriptors of 1 slot, 2 threads, 1 target, quota 1, 2 identities | references and quota at every step, clean closes |
| `life_liveness` | 1 descriptor, 1 slot, 2 threads, 2 identities | ioctls return, closes end, `exec_update_lock` is given back |
| `memory` | 4 pages of 2 bytes, transfers up to 4, addresses below 16, 8 mappings, 2 address spaces, 1 caller | every request, well formed or not: permitted and complete, refused by the mapping check for its lowest bad byte, or failed without effect |
| `memory_shared` | 3 pages, 2 callers, one request, 3 mappings, 2 address spaces | references, lock and pins on every path |
| `sources` | archives of 2 blocks with a limit of 3, 3 attempts, an overlay of 3 files of which the base has 2, 2 seconds | the refinement of `SourceStore`, whole trees when a report is written, originals kept |
| `inputs` | 3 files, 1 project, 2 workers | evidence, hooks that lose nothing but to a kill, what reaches the workspace, termination although jobs fail |
| `kit` | 2 symbols with up to 2 checksums, 4 configurations, one module that varies in everything and one that does not, up to 2 damaged files | passed modules load; what a kit offered as a candidate is, whatever was killed or damaged |
| `pipeline` | 4 commits, 2 runs, 2 source versions, 11 kinds of request | pinned trees, current artifacts |
| `diag_claim` | the instance of `kit` | a divergence, below |
| `memory_liveness` | 3 pages, 2 callers of which one is a thread of the target, 2 mappings | calls return, the target's changes of mappings proceed |

Bounds. A ring of two slots wraps after two hits and overflows at the third; five exceptions
let it overflow, be drained and overflow again, with a reader overtaken in each phase.
`MaxIds` bounds how many identities come into being: three allow a target to start, exec or
change credentials around a registration, and a second task to inherit the TID. Two slots are
the least with a hole before an occupied entry; a quota below the number of slots makes
callers overshoot it. In `memory` the addresses and sizes include 0, an unaligned transfer of the largest
size, which takes one page more than its size needs, one past `MaxTransfer`, one past the task size and one
past `Width`; the mappings have a gap, a guard page, a device and writable code before, inside and behind the
range, and the file below, above and on both sides of others. One error stands for all that `mm_access` or a pin
may return, since none is told from another. Two address spaces let the target exec once
while its old one is in use. Nothing else is bounded
there.

In `sources` a body may be one block short, right, one too long or over the limit; the overlay replaces its
first and last file and adds the one between, so that a kill falls before, on and after an existing file;
two seconds let a second application fall into the second of the first and into another. Three files on two
workers leave one job queued while two fail or write. The kit's modules vary in pairs
of tables, imports, vermagic and signature together, and in the other fields one at a time, since no check
relates those to anything else. `MaxDamaged` bounds the files of a kit that are not whole when one more is
damaged: with two, the list can be cut together with a file it does or does not name any more. Four commits and two runs let a push of two commits be followed by one of
sources while a run, its successor and both verifications are open; a second run supersedes the first at
each of its steps. A binary fails at most one gate: the first that fails decides.

Symmetry is used only in runs that check invariants: threads are interchangeable, descriptors
too where the instance has two (no definition chooses among them; `FirstFree` compares indices).

Fairness. A CPU in the exception handler runs to its end. A thread inside an ioctl is
scheduled (weak fairness on the steps inside; none on making a call, nor on traps, execs, exits).
The kernel mutex hands itself over to a waiter that keeps losing it, hence strong fairness on
`Lock`. Waiting for a callback to leave the target's CPU happens through an interrupt that is
served on return from the exception, before the instruction can trap again, hence strong fairness
on the two unregister steps; without it a target that traps on other events could starve them.
In `RTMemory` the writer of `mmap_lock` is served once the readers before it leave (weak fairness on `Map`),
and the rwsem serves its waiters in order, hence strong fairness where a caller takes it: in `Lock` and in the
user copies. None is assumed on calls, execs, exits or on the wish to change the mappings.
In `GkiInputs` the threads of a running process are scheduled, and a request to a server or a git command ends,
with an answer or an error (the code gives requests a timeout; for git, which has none, it is assumed): weak fairness on the main thread and on each
job, none on starting a run, and none on success. The other modules state no fairness, because their programs
may be killed or abandoned anywhere.

Divergence. `diag_claim` shows that `verify_rt_diag.py` passes a module that imports a symbol its table of
checksums leaves out, although its report then says "No external module dependencies; imported kernel
symbols checked by CRC" (`scripts/verify_rt_diag.py:138`): `verify_module_crc.sh` walks the table, not the
imports. `rt612.inspect_module` (line 143) refuses that module.

A limit. `multikernel/README.md:29` says that the digests check the consistency of the package. `check_kernel.sh:18` only
runs `sha256sum -c` on what is left of the list: a kit whose `SHA256SUMS` was cut after a line is offered although files
it no longer names are missing or torn. The model has these states, and `CandidateIsIntact` therefore claims that a
candidate is complete only where its list is whole.

## 4. Proofs

`RTHitQueueProofs` proves, for every ring size, counter limit, and set of CPUs and readers:

- `TypeCorrect`, `SnapshotStaysFront`, `Erased`, `NothingUnaccounted`: the four invariants;
- `RefinesHitQueue`: every behaviour of the ring is one of `HitQueue`.

All follow from `Invariant`, `Spec => []IInv`. `TypeOK` alone is not inductive: `Size` computes
`n` in one critical section and `Commit` subtracts it in another, so that `count` stays in range
only because `n <= count` meanwhile, which holds because only the holder of the mutex commits.
`IInv` therefore adds that every thread between `size` and `unlock` is the mutex's owner, that a
thread past `size` has `n <= count`, that its snapshot is the front of the ring and its buffer
holds it, that slots are nonzero exactly when queued, and that `received \o Pending` is increasing
up to `clock`. The arithmetic of the ring (two slots of one window are distinct, moving the head
by `n` shifts the window) is in lemmas on `%` with a symbolic modulus.

The assumptions are those of the module: at least one slot, a positive modulus for the error
counter, `None` not a thread.

`RTBreakpointsProofs` proves six safety properties of `RTBreakpoints` (`Authorized`,
`HitsStayAuthorized`, `CallbackSafe`, `OneShot`, `NoDuplicates`, `CloseIsClean`) for any number of
descriptors, threads, targets, addresses, slots, hits and identities, from one inductive invariant,
`SInv`. None of the properties is inductive alone; `SInv` adds why the code is right:

- `AllOwning`: past `Lock` a caller owns the mutex of an open session, so it is alone there
  (`OneInside`), and a session that is closing or closed has nobody inside.
- `AllPlaced`: the slot chosen by the search stays free, and unlike the rest of the session, until
  the event is stored; hence no duplicates. `Vacant`: an entry without its event is blank unless
  some caller is between registering and storing it.
- `AllTargeting`: the argument for the two readings of the credential. `get_task_cred` comes before
  `mm_access`, the comparison after it. Credentials only move forward, so the one authorized lies
  between the two; when they are equal it is that one. The mm cannot change afterwards, since
  `exec_update_lock` is held until the event is registered, and an exec after that detaches it.
- `AllWatched`: an event is attached to the mm of its entry, and has recorded no hit while armed.
- `AllFiring`: a callback in progress works on an event that is still there, disarmed once it has passed
  the first step; what it compared stays true because its task is the one running it.

`RTBreakpointsQuotaProofs` proves `TypeOK`, `ReferencesBalanced` and `EventsWithinQuota`. `CInv`
equates each counter with a sum of cardinalities (entries holding an event, callers holding a
reference, callers holding a unit of the quota) and adds that the callers *allowed* by the comparison,
together with the entries, stay within `MaxGlobal`: that is what the increment followed by a comparison
preserves although `rt_bp_total` itself may exceed the limit. Every step changes the membership of one
element of each set (`OneDiffers`).

`ModuleKitProofs` proves, for all symbols, kernels and outcomes of a build and without any assumption on them,
that what `rt612.inspect_module` accepts the module loader takes (`InspectedLoads`), hence `PassedLoads`, and
`CandidateIsIntact`. `DiagnosedLoads` is the counterpart of the divergence of section 3: what `verify_rt_diag.py` passes
loads too, provided that the table it walks lists every import, that a second table agrees, and that a forced
signature is there. `AcceptInv` says where each program can be and that a program which records a pass or
writes a kit has accepted both modules. `KitInv` says that the files before the one being written are whole and
those after it absent; that a file of a kit, whole or torn, shows that the modules were accepted; and that a
`SHA256SUMS` that is whole lists exactly the rest of the target, because it is written after it. A kit whose writing
was killed or that was damaged keeps the last two facts. From them, and from what the comparisons can find
(`ComparesOnlyWhatIsThere`, `SumsCheckListed`), follows what a candidate is: its modules load; it is for the exact
release unless `kernel.release` was cut; it is complete unless the list was.

`RTMemoryProofs` proves all eight invariants of `RTMemory`, for every page size, width, limit, set of callers,
requests and mappings. `IInv` joins `TypeOK` and `NothingLeaked`, which is inductive only with the rest, and says of
each caller, by where it is:

- `RequestOK`: a request past its validation is within the limits and does not wrap, and one being walked ends
  inside the task. `End` is computed modulo `Width`; this is what makes it the sum from then on.
- `WalkOK`: between `Check` and the end of the copy every address passed is of a kind that permits the access, in the
  mappings of *now*: they cannot change, since `NothingLeaked` equates the lock's readers with the callers that are
  inside. `OnlyPermitted` and `RefusedForAReason` follow; the latter speaks of the mapping check
  and of what comes after it, where a transfer without a bad byte ends well, with `EFAULT` or with an error of the pin,
  and not of the refusals before it. A step of the walk passes a whole VMA; `FindVma` and the
  two choices it makes rest on the least and greatest element of a set of pages (`Least`, `Greatest`).
- `LoopOK`: before iteration `i` of the copy, `done` is the length of the first `i` pieces (`DoneAt`: the first piece
  ends at a page boundary, the others are pages, the last is cut) and `moved` is exactly the image of that length. With
  `i` at the number of pages that is the whole transfer, hence `CompleteOnSuccess`; `PagesFit` is the same arithmetic of
  quotients and remainders with a symbolic page size.
- `ResultOK`: nothing is moved before the loop, and a result other than `ok` belongs to a transfer that moved nothing,
  hence `FailedWriteTouchesNothing`.
- `SearchOK`: the search has passed whole pages and none of the file, hence `BaseIsLowest`.

For the books, every step moves one caller in or out of the sets of users, lockers and pinners of one mm, whose
cardinalities the counters are. A partial pin counts with the pages it holds until they are given back.

`SourceTreeProofs` proves, for any archive size, limit, number of attempts, seconds and files, `TypeOK`,
`OriginalsKept`, `PreparedIsWhole` and the refinement of `SourceStore`. A kill leaves the disk, so what is said of it
must not depend on the program that was killed. `OriginalsKept` is inductive with `ApplyOK`: a directory of a second that
was not made is empty, and one that was made is filled by its own application only, in order; a file about to be
overwritten is official only if its backup is whole. `PrepareOK` says that a preparation works on an accepted base and
has replaced what it has passed, hence a whole tree under a report. `DownloadOK` says which archives the download
has behind it; the refinement needs it to show that success is reported with all three verified. It is proved
step by step: each step of the download is one action of `SourceStore` or a stutter (an overlay being copied is still a
missing one), and the steps of the tree are stutters.

`GkiInputsProofs` proves `EvidenceIsPinned` and `OnlyPublishedSpreads` for all finite or infinite sets of files and
projects and any number of workers. `CloneOK` keeps for good that a HEAD at the pinned revision stands over the official
files, because a checkout starts only where HEAD is elsewhere and moves it last; a clone half written by a killed run is
therefore never taken for a pinned one. `FileOK` says what a download has established of the cache at each of its
steps; `TasksOK` that no job is outside the pool that is open, so that nothing moves on the disk once it is joined;
`MainOK` what the main thread has left behind it, in the order of either script, and that a hooked file that is
torn or has lost its contents is in `cut` or being written for the first time. `TypeCorrect` proves the type
invariant, which no run states separately.

`KernelPipelineProofs` proves `BuiltTreeIsPinned` and `VerifiedArtifactIsCurrent` for every set of requests and versions
and any number of commits and runs. The parts of the invariant take the history as an argument and hold of any
longer one (`RunOfLonger`, `VerifyOfLonger`), which is why pushes disturb nothing. `HistoryOK`: requests stay, once added.
With it `ResolvedIsPinned` shows that, whichever resolver accepts, a difference that consists of one added request makes
the tree the pinned one plus that request, although only names are compared. `RunOK` says what has been resolved and staged by
each step. `VerifyOK` says that a verification belongs to a run that is done: neither a cancellation nor a step of the
run can change what has been checked.

Assumptions. `LimitsAssumption` (at least one slot, natural limits) and `SetsAssumption` (finitely many descriptors and
threads, `None` outside every set) for `RTBreakpoints`; `SizesAssumption` and `RequestsAssumption` (at least one page,
natural sizes, requests representable in `Width`, finitely many callers) for `RTMemory`; `DownloadAssumption` and
`TreeAssumption` (an archive is not empty and within its limit, at least one attempt, file and second) for `SourceTree`;
`JobsAssumption` (a file is not a project) for `GkiInputs`; `BoundsAssumption` (natural bounds) for `KernelPipeline`.
The theorems of `ModuleKit` use none (`DamageAssumption` only types the bound).

Only model-checked: the liveness properties (`ReadReturns`, `CallbackReturns`, `CallReturns`, `CloseEnds`, `ExecUnblocked`,
`MapperProceeds`, `RunEnds`), since the prover does not do liveness under fairness. Every invariant, action property and
refinement of a passing run is proved. `ImportsCheckedByCrc` is the claim `diag_claim` refutes.

## 5. Not modelled, and why

- `BP_STATUS`, INFO: read-only. Record layouts: no behaviour.
- The mapping checks of `rt_bp_add` are a choice, since the target may remap right after them
  (the comment at line 202). The order of `mmap_lock` and perf's `ctx->mutex` is in the plan.
- Allocation failure in `rt_bp_open`: the open fails and nothing exists.
- Memory ordering below the level of the locks: all accesses modelled are under a lock, or ordered by
  register/unregister of the event.
- The dispatch of `rt_a17_ioctl`, the capability checks and the two build profiles; tagged user pointers and the
  rest of `access_ok` (a choice of `Validate`); copy-on-write, swapping and truncation of a pinned page.
- The file modes `apply_samsung_czi4.py` changes and restores around a write; inspection and dry-run modes, which
  change nothing; the digest and size arithmetic of ZIP, tar and ELF files, which is abstracted to whether a
  file is the right one and to the fields that are compared.
- That the rest of `drivers/misc/Kconfig` and `Makefile` survives a kill of `prepare_gki_kernel.py` inside
  `write_text`: it does not, and `EvidenceIsPinned` says so. The workflow prepares a fresh workspace, where this cannot
  happen.
- What `git add -N` and `git diff` make of a clone after the hooks, and files of a group (`evidence`, `tools`)
  one by one.
- Re-use of a report directory of `verify_gki_rt.py` or `verify_rt_diag.py` by a later, failing run, whose
  predecessor's files stay; a kernel tree rebuilt while `rt612.py build` reads it.
- The queueing of workflows whose groups do not cancel (`rt-gki-6.12-build.yml`, `a17-samsung-6.12-build.yml`):
  their runs share no state.
- `ci_build_a17.sh`, `build_probe.sh`, `inspect_a17_source_bundle.py`: linear scripts that stop at the
  first error, and a read-only inventory.
- Kernel Checker (two races, listed as hazards), Bundle Guard, LSPosed hook, clients and self-tests: the plan
  has the first two, the others hold no state of interest.

## 6. Plan

Done: 1 the ring with its refinement and proofs; 2 registrations and sessions with their proofs;
3 `RTMemory`; 4 sources, GKI inputs, module kit and kernel pipeline, model-checked, and the module kit's proofs;
5 the proofs of `RTMemory`, `SourceTree`, `GkiInputs` and `KernelPipeline`.

Next, in this order:

6. `RTLockOrder`: `exec_update_lock`, perf's `ctx->mutex`, `mmap_lock`, the session mutex and the raw
   spinlock among ADD, exec, perf and readers: nobody waits in a circle. `RTDevice`: dispatch and
   the two profiles.
7. `KernelChecker`: worker, UI queue, activity lifetime; verdict about the kernel scanned, report
   holds both parts. `BundleGuard`: selection, verification, installation up to the first failure.
