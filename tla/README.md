# TLA+ models of rapido

Rapido cuts a small initramfs out of the running system and boots it in a VM to
test a kernel. This directory holds TLA+ models of its programs, the TLC
configurations that check them, and proofs checked by TLAPS. Line numbers below
and in `PROJECT.json` refer to the repository; `PROJECT.json` maps every
definition to the code it stands for.

## The system and its parts

| part | code | holds or changes | model |
|---|---|---|---|
| rapido-cut: archive bookkeeping | `src/bin/rapido-cut.rs`, `gather_archive_dirs()` | `paths_seen`, the cpio output | `Archive`; `Image` is what it promises |
| rapido-cut: executables | `gather_archive_elfs()`, `path_stat()`, `elf_deps()` | LIFO of entries, `libs_seen` | `Elfs` |
| rapido-cut: data trees | `gather_archive_data()` | LIFO of items | `Data` |
| rapido-cut: kernel modules | `gather_archive_kmods()`, `GatherKmods` | module queue, lazily read database | `Kmods` |
| rapido-cut: manifest parser, `main()` | `manifest_parse()` and the rest | stack of readers, autorun index | `Cut` |
| cpio crate | `src/cpio/src/lib.rs` | offset, inode, output; the walker's position | `Cpio` |
| dracut-cpio | `src/bin/dracut-cpio.rs` | the output file across invocations | `DracutCpio` |
| rapido-vm | `src/bin/rapido-vm.rs` | pid files, QEMU processes, QEMU's arguments | `Vm` (numbers and processes; `VmNumbers` is what it promises), `Boot` (kernel, devices, command line), `Driver` (resources of the image) |
| rapido-init | `src/bin/rapido-init.rs` | the VM's mounts, modules, services | `Guest` |
| configuration | `src/lib.rs` | defaults, kernel release, modules | `Conf` |
| kv-conf | `src/kv-conf` | line buffer, map of keys | `KvConf` |
| kmod-parser | `src/kmod-parser` | the module context | `KmodDb`; its result is a constant of `Kmods` |
| `rapido` driver | `rapido` | the one image: cut, then boot | `Driver` |
| network setup | `tools/br_tap_setup.sh`, `tools/br_tap_teardown.sh` | host bridge, taps, DHCP server | `NetSetup` |
| lscpio, bash-completion, older `br_setup.sh`, cut and autorun scripts, kernel and systemd configuration, vendored crates | | | not modelled |

rapido-cut reads a manifest and writes the image through the cpio crate;
rapido-vm reads the image for its resources, takes a VM number from the pid files
that QEMU keeps, and starts QEMU; rapido-init runs inside and reads the
`rapido.conf` that rapido-cut archived. The parts meet in files only: the image,
the pid files and the configuration.

Four disagreements between code and documents have a run of their own that TLC
must refute (`elf_needed`, `kmod_try`, `vm_refused`, `boot_rng`) and an entry under
`findings`. Others
are described below where a property excludes them; these are observations about
the code that no run of the project demonstrates.

## rapido-cut: Archive, Elfs, Data, Kmods, Cut

rapido-cut is sequential. What makes it hard is that five routines share
`paths_seen`, that each decides for itself when to look in it and when to add to
it, and that manifest lines reach the same paths through any of them.

* A path is a sequence of components, as `Path::components()` yields them. The
  host is a constant function from paths to nodes: type, execute bit, link
  target, children, DT_NEEDED names and RUNPATH. An archive entry is its path,
  its type and the routine that wrote it.
* `cur` is the entry being archived, `here` and `wi` the state of the parent walk.
  `DirUp`, `DirInvalid`, `DirSeen` and `DirArchive` are its steps. A routine starts an entry (`*Begin`),
  the walk runs, and one action finishes the entry with all that the code does
  then: marking the path, writing, and pushing what the entry leads to.
* `Elfs` keeps the stack of `GatherEnt`s and `libs_seen`, with the search of binary
  and library directories, RUNPATH first, for bare names. `Data` keeps the stack
  of `GatherItem`s. `Kmods` turns the nested loops over a module, its hard
  and its soft dependencies into a queue of tasks.
* `Cut` has one action per manifest line type (`LineInclude`, `LineFilter`,
  `LineEntry` for dir, slink and file, `LineBin`, `LineKmod`, `LineTree`,
  `LineAutorun`), one for the end of a reader, and one per step of `main()`.
* Any error return is a step to phase `failed`; I/O errors may come at any time (`Aborted`).
* Two history variables record why a path may be in `paths_seen` without an entry:
  a `filter` line put it there, or its source was not found.

| run | instance | what it shows |
|---|---|---|
| `cut` | every manifest of up to three lines out of four lists: twelve over overlapping paths; five over programs that share a library's name; thirteen kmod, try-kmod, filter and file lines; eight with includes and autorun scripts | parents precede children; no path is archived twice; filters hold; traversals stop at filtered directories; executables come with their libraries and modules with their hard dependencies; autorun scripts are archived and numbered in the order of the manifest with its includes expanded (a recursive reference definition); the archive grows as `Image` allows; rapido-cut ends |
| `elf_needed` | a `file` line for a library, then a `bin` line for a program that needs it | finding: the library is in `paths_seen`, so what it needs itself is never looked for, and the program lacks it (`AllNeeded`) |
| `kmod_try` | a `try-kmod` line, then a `kmod` line for the same module | finding: a module marked seen by a `try-kmod` line whose file is missing makes a later `kmod` line succeed without it |

Three lines are enough for the cases of interest: one line that puts a path in
`paths_seen`, one that reaches it through another routine, and one that depends
on what the second did. The host has each node type, a link to its own directory,
a dangling link, a library behind a link, and one found through RUNPATH only.

`Image` is the abstract specification: an archive that is only added to, a new
entry where its directory is, the first of its path and not of a path closed
before, the trailer last and once. `Cut` implements it with `archive <- out`,
`closed <- filtered \union missing` and all phases before the end as "open"
(`WellGrown`). Two kinds of path are exempt (`Free`): those that `main()` and autorun
lines write without looking in `paths_seen`.

`MaxOpen = 3` stands for the limit on open files, which ends manifests that
include themselves.

Fairness: `Terminates` assumes that rapido-cut takes a step when it can
(`WF_vars(Step)`); it is one thread. `Aborted` is not fair.

Two properties name the cases in which the code does less than its usage text says,
and hold with these exceptions only:

* `ElfClosure` asks for an archive entry at the path where the file's own RUNPATH
  leads, written as a library so that it was scanned in turn (`Provided`). It excepts:
  a path that a `filter` line closed, or a failed module lookup (`Barred`); a library
  that was in the archive before the file that needs it, which `paths_seen` hides
  from the scan (`elf_needed` is about these); and a name that `libs_seen` holds from
  a file archived earlier (`Taken`). `libs_seen` has bare names, so a second program
  that would find the name elsewhere through RUNPATH is archived without that
  library, and a malformed ELF file fills it with names that are then never
  gathered, for it or for any later file. `AllNeeded` is the statement without
  the exceptions, which the code does not keep.
* `KmodClosure`: a module first met as a soft dependency is later taken to be archived
  with all of its hard dependencies, and so is one whose file a file or tree line
  archived; the first is exempt only where the archive has it behind a module that
  names it as one. A `try-kmod` line that gives up over a missing file leaves modules
  marked as seen without what they need; manifests in which a module is both optional
  and required are left to `kmod_try`, and the proof has the condition `NoneMissing`.

`NoDuplicate`, `FilterHolds` and `WellGrown` exempt the paths that `main()` and autorun
lines write without consulting `paths_seen` (`Unguarded`): `/rapido_autorun` and its
scripts are archived even when filtered.

## The archive format: Cpio, DracutCpio

A name, a target and a file are their lengths; the file is the sequence of headers
written, each with its offset, its size fields and the offset of its data.
`archive_path`, `archive_symlink`, `archive_file` and `archive_trailer` keep their
names. `&` is a constant operator: TLC takes it from the Bitwise module, the proofs
from `MaskAssumption`, which TLC evaluates. `DracutCpio` adds invocations that
truncate the output or append to it, fail at any entry and leave part of it behind,
or end with trailer and block padding. `WalkNext` is the walker's seek.

`cpio_layout` checks two invocations and up to three headers besides trailers,
names around `PATH_MAX`, alignments 0, 2, 16 and 4096, files shorter and longer
than these, and an output file whose length is no multiple of four.
`MaxOff` stands for the range of offsets (TLC's integers have 32 bits), `MaxU32` for
the largest file newc can hold.

* `WalkFollows`: the walker pads by lengths, the writer by offsets, the alignment
  zeros count as name; still every seek lands on the next header.
* `Separated`: archives are separated by a trailer and 512-byte padding.
* `NamesizeBounded`, `DataAligned`: the zeros never exceed what the kernel accepts,
  and where they fit the data is aligned in the file. This is checked for powers of
  two; dracut-cpio also accepts other multiples of four, for which the mask does
  not align, while the layout stays sound.
* `NoPanic`: on a file that ends on a 4-byte boundary the assertion in
  `archive_file()` holds. Elsewhere it may fail, since the check in `archive_loop()`
  tests the sum of offset and alignment; the model has that outcome (`InitSizes`
  holds 6), and `NoPanic` excludes it by its condition.

A run that hit the assertion is the end of a behaviour.

## Booting: Vm

Each invocation of rapido-vm goes through `Begin`, `ReadPid` and `Probe` for every
number, then `StartError` or `Spawn`, then `Reap`. Reading a pid file and looking
for the process are separate steps, since other processes run in between.
QEMU and the process table are external: QEMU creates, truncates and locks the
pid file, writes its pid, and removes the file on exit but not when killed; a pid
can be reused, by another QEMU or by an unrelated process. A QEMU that exited is
in `/proc` until rapido-vm has waited for it.

`vm_numbers` has three invocations, two numbers and three process ids: two boots
race for a number while the third meets what they leave, and one number too few
exists for all three. `RunningRecorded` and `UniqueNum` say that a running VM is
visible to later boots and alone with its number, although boots may settle on
the same number; `ScanEnds` that every scan ends, assuming each started invocation
is scheduled (`WF_vars(Step(p))`) and nothing of QEMU.

`vm_refused` shows that a boot gives up when it meets an empty pid file, which
exists while another VM starts, or for good if QEMU was killed at that moment.
`rapido.conf.example` says that the first number not active is assigned.

`VmNumbers` is the abstract specification: a number is looked up and taken in one
step, and given back when the VM ends. `Allocates` says that `Vm` implements it: pid
files, locks and process ids, with races, kills and reuse of ids, amount to that.
An invocation has taken its number when its QEMU runs.

How the QEMU arguments and the kernel command line are put together is in `Boot`;
here `StartError` and `Spawn` stand for it.

## From the configuration to a shell: Conf, Guest, Boot

Three programs read `rapido.conf`, each for itself: rapido-cut, rapido-vm, and
rapido-init from the copy in the image. `Conf` holds what they share; a
configuration says for each key whether it is set and what the value amounts to.
`Boot` has one action for rapido-cut (its module list, its programs, the release
whose modules it takes), one for rapido-vm (kernel, devices, MAC addresses, command
line with the user's parameters last), and `Edit`, by which the user changes
`rapido.conf` or `net-conf`, rebuilds the kernel tree or boots the host into another
kernel in between. `Guest` is rapido-init: one action per step of `init_main()`, each
with its error return, its `expect()` or `unwrap()`; whatever it returns, `main()` goes on
to the shutdown through sysrq. A panic of process 1 is the end of the VM.

| run | instance | what it shows |
|---|---|---|
| `boot_sequence` | ten configurations, three kernels, four kinds of test, two `net-conf` directories, one edit between cut and boot | the VM runs the kernel its image was made for and finds its modules, unless something was edited; process 1 does not die once `/proc` is mounted; with network, each device matches its `.network` file; the VM's number and host name are those of the command line; rapido-init never hangs |
| `boot_rng` | the default configuration | finding: rapido-init reads the configuration without the defaults, so that nobody loads the driver of the default RNG device |

Two of the ten configurations are refused somewhere, and the properties hold for
them as well: one that uses `${QEMU_EXTRA_ARGS}` without setting it is accepted by
rapido-cut and rapido-vm, which start from the defaults, and process 1 of the VM ends
over it before `/proc` is mounted (hence the condition in `NoPanic`); an empty
`KERNEL_RELEASE` is taken for a release, and the cut fails.

One edit is enough, since each program reads a file once. Fairness: rapido-init
takes its steps (`WF` of `InitStep`); the shell, which is the user's, is not fair.
A number is one value of `Nums`; how it is chosen is in `Vm`.

## The rapido script: Driver

`rapido cut` runs rapido-cut, which truncates the image and writes it, and boots if
that succeeded; `rapido boot` boots what is there. rapido-vm walks the image for its
`rapido-rsc/` entries (`vm_resources_get()`), stops at the first entry behind them, and
QEMU then reads the image again. All invocations share one file without a lock.
Writers keep their own offset, so a write behind another's truncation leaves a hole.

`driver_image` lets two invocations run any two commands on three tests. A VM of an
invocation that nobody disturbed has all of its test's archive, or for `rapido boot`
the image found at the start (`OwnImage`), and the resources this asks for, also if
the image is the part of an archive that a failed cut left (`ResourcesMatch`). Every command
ends or gets to its VM, disturbed or not (`CommandEnds`; every started program is
scheduled, the VM's end is not fair). `alone` is a history variable. That
`rapido-rsc/` entries are together is an assumption on manifests
(`DriverAssumption`), which a comment in rapido-vm states as a requirement.

What `OwnImage` does not promise, the code does not do: a second `rapido cut` may replace
the image between the first one's cut and its boot, and after a cut that failed
`rapido boot` boots what it left.

## kv-conf: KvConf

`kv_process()` cuts a value at quotes, backslashes, spaces and `$`, carries flags from
block to block, and keeps a line that ends inside quotes to process it once more
with the next. `Meaning` is the reference: the syntax as an automaton over
characters, without blocks, buffer or second passes. `kv_conf` compares the two on
every file that sets `v` and then `k` to up to five characters out of seven, or to
`${v}` with up to two characters on either side: 216 000 states. Five characters
hold two quotes, an escape and a line break. Every file ends in a newline.

The parser departs from the syntax on two kinds of file, and `Agrees` names them.
The reference marks a file as `lossy` when it meets one (`Departs`, `Behind`): a brace
in the text behind a variable (`kv_var_sub()` keeps one piece of that text, which is
lost from its second brace on), and a quoted line that ends in an escaped backslash
or space (the trailing backslash is taken to escape the newline, the space is
trimmed). No file is left out of the run.

## kmod-parser: KmodDb

`KmodContext::new()` loads five files of depmod in order, each loader changing what the
ones before it left. `Finds` compares `find()` with what the files say together
(`Stands`): a module of `modules.dep` is loadable even if also builtin, aliases and
names with `-` or `_` reach it, soft and weak dependencies of unknown modules are
ignored. `kmod_db` has every combination of files of up to one or two lines, each
of which may be missing.

## Network scripts: NetSetup

Both scripts are lists of `ip` commands. A setup prepends the inverse of each
command that succeeded to `unwind` and evaluates that when it exits early; a
teardown stops at the first failure and is run again. Which command can succeed,
and what it does, is external (`Can`, `Do`). The manifest is what the script generates
from the taps that exist, edited by the user, who may remove entries and add one.

`net` has two setups for two bridges over the same taps, a teardown, VMs that open
and close taps, and one command that fails for no reason:

* `Unwound`: a setup that failed leaves no bridge, no DHCP server, and no tap of its
  own except one that a VM had open at the moment `unwind` came to delete it. The
  history variable `spared` records these (`Busy`); that a tap is open later, or that it
  was disconnected, excuses nothing.
* `Wired`: a setup that succeeds is connected and up.
* `OthersKept`: no setup deletes, cuts off or takes down what another made.
* `TornDown`: a repeated teardown clears everything.

Two setups for one bridge, of which the second fails at its first command, are
covered by the theorems.

Without a `VM_NET_CONF` directory both scripts call `fail`, which is not defined, and go
on with an empty manifest (`Conf = None`).

Assumed: a teardown starts when the setups are over; commands of `unwind` fail only if
they must; the host interface belongs to no other bridge; nobody interrupts
between a command and the extension of `unwind`; a teardown's manifest is left as
generated. `TornDown` needs that scripts run on, that a failed teardown is started
again, and that VMs end.

## Proofs

| module | theorems | inductive invariant |
|---|---|---|
| `CutProofs` | `TypeCorrect`: `Spec => []TypeOK`; lemmas on paths, stacks and the archive that the next two share | `TypeOK`, one lemma per action |
| `GrowthProofs` | `ParentsFirst`; `ModulesComplete` (`KmodClosure`); `NoPathTwice`, `FiltersHold`, `ImageRefined` (`Spec => WellGrown`) | `OrderInv`; with `KmodInv`; with `GrowInv` |
| `ClosureProofs` | `TraversalsStop`; `ProgramsComplete` (`ElfClosure`) | `StackInv` with `ChildInv`; with `SeenInv`, `TurnInv`, `LibInv` and `ClosureInv` |
| `CpioProofs` | `WalkerFollows`, `PanicFree`, `ArchivesSeparated`, `NamesBounded`, `TypesHold`, `DataPlaced` (`DataAligned`) | `Inv` |
| `VmProofs` | `Recorded`, `Unique`, `TypeCorrect`, `Refines` (`Spec => Allocates`) | `IInv` |
| `DriverProofs` | `OwnImageBooted`, `ResourcesFound` | `IInv`, then `RscInv` |
| `BootProofs` | `Types`, `SameKernel`, `ModulesInImage`, `InitSurvives` (`NoPanic`), `NetworkUp` (`NetReady`), `NumberAndName` (`Identity`) | `BootInv` |
| `NetProofs` | `FailureUnwinds`, `SuccessWires`, `OthersUntouched` (an action property) | `NetInv` |

With these, every invariant, action property and refinement of the passing runs is a
theorem, but for the three named at the end. They hold for every host, module
database, manifest, length, alignment, configuration, kernel, set of tests, number
of processes, setups, teardowns and failures that satisfies the named assumptions of
the modules. TLC evaluates all of them on the instances. Most say that
constants have their types: `NameAssumption`, `HostAssumption`, `KmodAssumption`,
`AutorunAssumption`, `ConfAssumption`, `MaxOpenAssumption`, the two named
`InputAssumption`, `PropsAssumption`, `VmAssumption`, `BootAssumption`. The others carry facts:

* `ElfAssumption`: a link's target, which `canonicalize()` returned, is no link; an
  empty file needs nothing. `CoreAssumption`: `main()` renames one program, its init.
* `KmodFileAssumption`: names that lead to one module file are one module, and no file
  of depmod's database is a module. `KmodDepComplete`: the list of a module's hard
  dependencies has theirs too, as a comment in rapido-cut says of `modules.dep`.
* `MaskAssumption`: `x & (a - 1)` is `x % a` for powers of two, is smaller than `a`, and
  keeps the remainder by four where `a` is a multiple of four.
* `DriverAssumption`: `rapido-rsc/` entries are together.
* `NetAssumption`: taps, bridges and the host interface are different devices.

Four theorems have a condition besides:

* `TraversalsStop`, `InitIsFile`: the init that is renamed to `/rdinit` is no directory.
  Of a directory, the code would archive the children under their own path.
* `ProgramsComplete`, `LibsAreFiles`: where the search for a needed library ends, there is
  a file, or a link to one. The code drops a dangling link with a message, succeeds,
  and takes the library to be dealt with; a directory it would traverse, with its
  children handled as programs.
* `ModulesComplete`, `NoneMissing`: no file was missing that a required module needs. Without it
  the statement is false, which is what `kmod_try` shows.
* `DataPlaced`: alignments are powers of two.

*Parents first.* `ParentFirst` alone is not inductive: a routine that finds a parent
in `paths_seen` relies on its being in the archive. `OrderInv` adds that everything
in `paths_seen` is archived, filtered, missing or the entry in progress
(`SeenInv`); that the parent walk leaves no gap behind it (`WalkInv`); that children
still to be archived by a tree line have their directory in the archive
(`ItemInv`); and that the autorun directory exists once a script was numbered
(`IdxInv`).

*Modules.* A loop over a module's files may be interrupted between any two of them,
and a module may be reached from any other. `KmodInv` says what order the tasks come
in (`QueueInv`), that the hard dependencies still to come are those left of one
module (`OriginInv`), that each archived module has all of its own, or is in the list
of a module whose list is being worked off, or is exempt (`ModInv`), and that a
required module is seen or still a task (`WantInv`). `KmodDepComplete` is what lets
a list that is worked off close all modules in it.

*Following programs and directories.* `StackInv` and `ChildInv` say of what waits on
the stack, or is in progress, that a traversal found it in a directory it archived.
`ClosureInv` says that somebody saw to every name in `libs_seen` and to every archived
link: its file is archived, waits on the stack, or is in progress. That a library
which waits will be scanned, and not met in `paths_seen` because another routine wrote
it, needs more: no other routine writes while the stack is not empty (`TurnInv`),
libraries lie on top of programs and what they lead to are libraries again
(`LibInv`), so that all that is archived from a scan until its libraries are done
came as a library (`Pure`). What the search finds in `paths_seen` is in the archive or
barred (`SeenInv`, proved in `CutProofs`). That `path_stat()`
returns at most one path, the first that exists, is shown by taking the least index
(`WFMin` of the library stands in for induction).

*Growth.* The converse is needed for `NoDuplicate` and the refinement: what is in the
archive is in `paths_seen`, unless written by a routine that does not look there or
by one of the links of `main()`, which come when nothing is gathered any more
(`KnownInv`, `LinkInv`); and the entry in progress is not in the archive yet
(`NewInv`), although its parents are written after it was looked up. `Longer` says of
a step what `Image` allows: entries are appended, each new of its path. One lemma per
group of actions keeps the invariant and shows this at once; `StepRefines` then reads
off the abstract step, with parents from `OrderInv`.

*Layout.* `Layout` is the heart: an entry that starts on a 4-byte boundary of its
archive ends on one, and the walker's seek from its header lands there.
`AssertionHolds` shows that data alignment keeps this when file and alignment are
multiples of four; `DataPlaced` adds that the padded end is the next multiple of a
power of two. `WriterInv` carries the seek from the last header to the writer's
offset, `ChainInv` the position of finished archives.

*VM numbers.* The lock of a pid file belongs to the QEMU that was given the file
from the moment it truncates the file until it is gone (`LockInv`). With that, the
step by which a QEMU comes to run is the abstract step that takes its number.

*The image.* While nobody else writes, the image is what rapido-cut has written so
far, and from then on all of its archive (`ImageInv`). `RscInv` adds what the walk has
found up to its position; where it stops early, `rapido-rsc/` entries being together
leaves none behind.

*From cut to shell.* `BootInv` has what rapido-cut put in the image and from what
(`ImageMade`), which kernel rapido-vm gave QEMU (`KernelGiven`), what the last word of
each key on the command line is (`CmdlineSays`), and what rapido-init has established
at each stage (`Stages`). `ModulesInImage` then is that rapido-init, which reads the
configuration without its defaults, asks for no more than rapido-cut took.

*Network.* `NetInv` says of the commands to come that a device is made before it is
used (`Todo`); of those in `unwind` that each is about a device that the setup made and
that is deleted after it, once (`Back`), which is why unwinding a failed setup leaves
nothing; of a connected device that its bridge belongs to the same setup
(`Masters`); and of everything `Wired` promises that it is there or still a command
to come (`Wiring`).

All inductive invariants were also checked by TLC as invariants of these instances.

Only model-checked: `AutorunOrder`, which compares with a recursive definition;
`Agrees` (`KvConf`) and `Finds` (`KmodDb`), which are about folds over sequences and need
induction over data; and the liveness properties `Terminates`, `ScanEnds`,
`BootSettles`, `CommandEnds` and `TornDown` (fairness is out of the prover's reach).

## Not modelled

File contents, ownership, modes and times; the wording of messages; option
parsing; the ELF parser (a node says what it would return); formatting of the autorun
index with three digits, which stops sorting at a thousand scripts.

* lscpio prints what the walker of `Cpio` returns, and bash-completion lists
  manifests: neither has state.
* `br_setup.sh` and `br_teardown.sh`, superseded by the scripts of `NetSetup`.
* `kv_conf_process_append_separate()`, which no program calls.
* rapido-vm's choice of console, machine and CPU options per architecture, which
  depend on the build and on nothing that changes.
* The manifests, autorun scripts and kernel configuration are inputs of the system;
  the vendored crates are libraries.
