# Formal models of apex-tools

TLA+ specifications of apex-tools: of the parts whose behaviour depends on the
order in which things happen (processes, threads, crashes, a server that
changes under the client), and of the functions and tables that are kept by
hand for many platforms.  The specifications are translated from the code; TLC
checks them on small instances and TLAPS proves the theorems listed below for
every instance.

Paths below are relative to the repository (`src/` in `PROJECT.json`).

## The system

| Component | State it keeps | Operations | Modelled |
|---|---|---|---|
| `cmd/apex`: install, uninstall, update | package directories, `<dir>.tmp` staging directories, downloads in the temporary directory, `.apex/manifest.json` and its `.tmp`; per process the loaded manifest and catalog | `cmdInstall`, `cmdUninstall`, `cmdUpdate`, `downloadToFile`, `extract`, `Manifest.save` | `ApexCli` |
| `cmd/apex`: licenses | `licenses/apex-sdk-license`, `licenses/android-sdk-license` | `cmdLicenses`, `writeLicenses`, `licensesAccepted` | `Licenses`; the gate of install in `ApexCli` |
| `cmd/apex`: catalog | nothing kept | `loadCatalog`, `find`, `greater`, `hostTag` | the functions in `Catalog`; what the commands need of them in `Packages` |
| `cmd/apex`: xz pipeline | child process, waiter goroutine, pipe | `newXZReader`, `readCloserPipe.Close` | its outcomes in `ApexCli` (`XzDies`, FALSE in every run) |
| `cmd/apex`: list, help | none | `cmdList`, `usage` | no: text output |
| release server, `gen-catalog.sh`, `catalog.yml`, `build-*.yml` | release assets, sidecar digests, `catalog.json` on the catalog branch | upload, scan, push | `CatalogPipeline`; for the CLI, as its environment (`Upload`, `Regenerate` of `ApexCli`) |
| `make-package.sh`, `split-sdk.sh`, `build-cli.sh` | local files | sequential shell | no |
| `libtermuxadb` (`lib.rs`) and its wrappers | three maps behind three locks, a socket pair, scanner and listener threads | `start_socket_listener`, `scan_for_usb_devices`, `open`, `opendir` | `TermuxAdb`, the wrappers in `UsbEntry`; serial numbers no |
| `freebsd_usb.c` | slot table per handle, shared descriptor; devices and cached configurations | transfers; the scan of `/dev`; requests of one ioctl each | `FbsdUsb`, `FbsdDevices`, `FbsdRequests` |
| libusb backend of fastboot, entry points of adb | context, device list, handle, claimed interface | `usb_open`, `Read`, `Write`, `Close`; `usb_init`, `usb_cleanup` | `FastbootUsb`, `UsbEntry`; `Read` no |
| bionic shims of the NDK build | semaphore word (`sem_clockwait.h`); action lists and a child (`posix_spawn.h`); nothing in the others | `sem_clockwait`, `posix_spawn`, `fexecve`, `preadv2`, `copy_file_range`, `close_range`, `futimes`, ... | `SemClockwait`, `NdkSpawn`, `LibcShims` |
| CMake's shims and `cmCurl.cxx` | a child and a pipe | `posix_spawn` for ninja; the options given to libcurl | `NinjaSpawn`, `LibcShims`, `CmCurl` |
| musl patches | a helper process in `faccessat.c`; files in a shared directory | `faccessat`, `__get_resolv_conf`, `tmpfile`, `tmpnam` | `Faccessat`, `Resolvconf`, `TempFiles` |
| patched sources of the SDK (ART, BoringSSL, Abseil, openscreen, incfs, libbase) | none; a `MemMap` owns pages | tables by architecture, moves of mappings and of paired elements, generated accessors, a walk over interfaces | `Targets`, `MemMap`, `PairedIterator`, `Sysprop`, `NetInterfaces` |
| host compatibility headers | none | stand-ins for functions a host lacks | `HostPlatforms`, `HostCompat` |
| `package-generator.c` | one file | `package.xml` from a release name | `NdkPackage` |
| build scripts, CMake lists, vendored headers | - | build-time | no |

How they interact: build workflows attach archives to releases and replace
them under the same URL when they are run again; the catalog workflow scans
the releases and publishes `catalog.json`; the CLI fetches the catalog,
downloads the archive an entry names, compares its SHA-256 with the entry,
unpacks, and records the installation.  Two CLI processes meet only in the
file system: the code takes no lock.  The shims are compiled into tools that
the packages carry.

What is hard, and where it bites, is the `hazards` list of `PROJECT.json`:
kills between two file operations, two processes in one temporary directory
and one manifest, a release asset replaced between catalog and download,
retries, the order in which files and manifest change; USB transfers that end
after their caller gave up, collected by whichever thread wakes first.

## Modules

| Module | What it is |
|---|---|
| `Packages` | constants: paths, builds, file names; trees of files; catalog operators |
| `ApexCli` | the CLI as a state machine: one action per system call other processes can see |
| `CliProps` | type invariant and properties of `ApexCli`; the refinement mapping to `PackageStore` |
| `PackageStore` | what a package store promises its readers, with nothing of how |
| `MCCli` | values of the constants for TLC |
| `Cli_proofs` | TLAPS: types and safety of the CLI, and that it implements `PackageStore` |
| `SemClockwait` | the shim's `sem_clockwait` with libc's `sem_wait` and `sem_post` on one word |
| `MCSem` | values for TLC |
| `FbsdUsb` | the slot table of `freebsd_usb.c`, the threads that transfer on one handle, and the driver they share |
| `MCFbsd`, `Fbsd_proofs` | values for TLC; TLAPS: types, table and results |
| `FbsdDevices` | the scan of `/dev`, the devices libusb keeps from it and their cached configuration, while units come and go |
| `TermuxAdb` | adb and fastboot in Termux: scanner, child processes, listener, maps, hooks |
| `MCTermux`, `Termux_proofs` | values for TLC; TLAPS: types, order of descriptors, walks, fastboot's wait |
| `Licenses` | `apex licenses` as several processes over two files |
| `Descriptors`, `Spawning` | descriptor tables and file actions; what a `posix_spawn` promises |
| `NdkSpawn`, `NinjaSpawn` | the two implementations, each with its mapping to `Spawning` |
| `Faccessat`, `Faccessat_proofs` | threads that each clone a helper process, and the pipes they share by accident; TLAPS: their answers and what they leave |
| `TempFiles`, `Temp_proofs` | `tmpfile` and `tmpnam` among other processes of a directory; TLAPS: their safety |
| `FastbootUsb` | `usb_open`, `Write` and `Close`, with what each takes from libusb |
| `CatalogPipeline`, `CatalogPipeline_proofs` | build workflows that replace assets, scans that make a catalog of them, and their pushes to one branch; TLAPS: what an undisturbed run leaves |
| `Parts`, `Parts_proofs` | the nine parts that share no state, beside one another (below); TLAPS: their safety, for every value of their constants, with the semaphore's and the licenses' own proofs |
| `MCParts` | values of these constants for TLC, and the functions as a tenth part |
| `Catalog`, `CmCurl`, `NdkPackage`, `Resolvconf`, `NetInterfaces`, `Sysprop`, `PairedIterator`, `MemMap`, `Targets`, `HostCompat`, `HostPlatforms`, `LibcShims`, `FbsdRequests`, `UsbEntry` | functions, without variables, each with its properties over its arguments |
| `MCAlgorithms` | their inputs for TLC: a step chooses a function and its arguments |
| `Algorithms_proofs` | TLAPS: the catalog, curl's options and the NDK package for every input, and that what the run `parts` checks is one of `Parts` |

### ApexCli and the code

A process has a program counter `pc[i]`; a command line becomes a `job`.

| `pc` | next action(s) | code |
|---|---|---|
| `idle` | `Start`, `AcceptLicenses` | `main.go`, `cmdLicenses` |
| `load` | `LoadManifest` | `loadManifest` |
| `fetch` | `FetchCatalog` | `loadCatalog` |
| `scan` | `Scan`: `cmdUpdate` collects what is outdated and calls `cmdInstall`, which starts again at `load` | `commands.go:242-259` |
| `gate` | `LicenseGate` | `commands.go:106` |
| `next` | `PickInstall`, `PickUninstall`, `Finish` | the loops over packages |
| `get`, `half1`, `half2` | `Connect`, `WriteFirstHalf`, `WriteSecondHalf`, `NetworkError` | `downloadToFile` |
| `open`, `unpack` | `OpenArchive`, `Unpack`, `UnpackEOF`, `UnpackError` | `extract`, `extractTar` |
| `clear`, `publish` | `ClearFile`, `ClearDone`, `Publish` | `os.RemoveAll`, `os.Rename` |
| `rmdl`, `props`, `xml` | `RemoveDownload`, `WriteSourceProperties`, `WritePackageXML` | `commands.go:133-144` |
| `mopen`, `mwrite`, `mrename` | `SaveOpen`, `SaveWrite`, `SaveRename` | `Manifest.save` |

`Crash` ends a process of `Killable` before any of these.  A system call that
fails (disk full, permission) makes `main` return, which is the same step.

What is abstracted, and why that is safe:

- A build stands for an archive and its SHA-256; a file of a tree is the build
  that wrote it.  Versions are numbers in the order `greater` gives them.
- Bytes of a download are two halves: enough for a file that mixes two builds
  or ends early.  Files of an archive are written in one step each; the end of
  the archive can be reported early when the bytes are damaged or `XzDies`.
- A path is of the form `prefix;version`, so `ensureTree` creates parents only
  and a package directory exists iff something installed it.  `platform-tools`
  without a version is created empty by `ensureTree`; that case is left out.
- The packages of a command line are a set and are taken in any order, which
  covers every order.
- The question of `askReplace` may be answered either way, so `--force` only
  takes away the choice of skipping.
- `source.properties` and `package.xml` are written in one step each.
- Two pieces of state are forgotten when nothing reads them again before they
  are truncated: the bytes of an inode no process has open or is about to
  open, and `manifest.json.tmp` when no process is inside a save.
- Builds are numbered in the order in which they are uploaded.

Descriptors follow files through renames: `fd` names an inode, and `mfd` says
whether the file a save has open is now `manifest.json.tmp`, `manifest.json`
or unlinked.

### FbsdUsb and the code

A thread has a program counter as well; between two labels it holds the lock
throughout or does not touch shared state.

| `pc` | next action(s) | code |
|---|---|---|
| `idle` | `Submit`, `ControlBegins` | `fbsd_submit_transfer` |
| `start` | `Start`, `NoSlotLeft`, `OpenFails`: `_fs_slot` and `USB_FS_START` under the lock | `freebsd_usb.c:658-688` |
| `poll` | `Poll` | `:697-706` |
| `lock` | `Lock` | `:708` |
| `drain` | `Collect` (one turn of `_fs_drain`), `DrainFails`, `DrainEnds` | `:572-589`, `:709-723` |
| `clock` | `Early`, `TimesOut` | `:725-733` |
| `control` | `ControlEnds` | `:557-567` |

`hp[s]` is the slot's row in `handle_priv`.  A buffer is named by the transfer
it belongs to, so that a result copied into the wrong buffer is seen.  Lengths
matter only for reopening and for `USB_FS_MAX_BUFSIZE`.  Short transfers and
the bytes themselves are left out.

The driver is not in the repository.  `xfer` and `notices` follow FreeBSD's
`ugen(4)`: one transfer per open endpoint, a queue of finished endpoints with
room for as many as were initialised, `USB_FS_COMPLETE` that takes the head of
the queue first and then fails with `EBUSY` if that endpoint runs again, or
`EINVAL` if it is closed; closing an endpoint cancels its transfer, whose
callback queues a notice.

### TermuxAdb and the code

| variable | code |
|---|---|
| `main`, `last`, `listed`, `todo` | the thread in `scan_for_usb_devices` (adb) or `authorize_connected_devices` (fastboot) and its lists |
| `children` | processes that termux-usb runs: the same program, which finds `TERMUX_USB_FD` set and calls `sendfd_to_adb` |
| `socket` | the datagrams of the socket pair, each with one descriptor |
| `listener`, `msg`, `received` | `start_socket_listener`: `recv`, then `dir` and `fd` for the locks of `DIR_MAP` and `USB_FD_MAP`, then `serial` |
| `dirs`, `fds` | `DIR_MAP`, `USB_FD_MAP` |
| `walk` | a `DirStream` between `opendir` and `closedir` |

A descriptor is named by the connection it was made for, so that a stale one
is seen: the kernel's device numbers wrap, and a path comes back.  `mode` chooses adb or fastboot at the start.  termux-usb, its
permission dialogue and the kernel are external: a request may be granted as
long as the device is plugged in, may fail at any point, and a message may
arrive without its descriptor, a case the listener provides for.  The nested
directories of `/dev/bus/usb` are one directory.  `refused`, `wasted` and
`failed` are history variables the properties speak of.

### FbsdDevices and the code

| `scan` | next action(s) | code |
|---|---|---|
| `off` | `StartScan`, `FreeDevice`, `Open`, `Close`, `SetConfiguration`, `Refresh` | `fbsd_get_device_list` and its caller, `fbsd_open`, `fbsd_close`, `fbsd_set_configuration` |
| `next` | `NextNode`, `EndScan` | the loops over `/dev` |
| `info`, `describe`, `config`, `append` | the ioctls of an entry, each of which may fail | `_scan_device`, `_cache_active_config_descriptor` |

`plugged`, `active` are the bus; `known`, `refs` the devices libusb has, with
whose references.  A device is found again by its address as long as anybody
holds one, which is how an old description outlives its unit.

### The two posix_spawns and the code

Both map to `Spawning`: at most one program, with the descriptors that
`Requested` computes from the list; an error means that none runs.
`NinjaSpawn` waits for the exec (the pipe closes on it), `NdkSpawn` does not.

| module | caller | child |
|---|---|---|
| `NdkSpawn` (`posix_spawn.h`) | `Add`, `Call`, `Fork`, `Return`, `Destroy` | `ApplyAction`, `ApplyFlag`, `Exec` |
| `NinjaSpawn` (`android_compat.h`) | `Call`, `NextDirectory` (`posix_spawnp`), `MakePipe`, `Fork`, `CloseWrite`, `Read`, `Reap`, `Return` | `CloseRead`, `SetAttributes`, `ApplyAction`, `Exec`, `Report`, `Exit`; `Killed` |

The list is copied by the fork, so that a caller may destroy it at once.  The
kernel's part (lowest free number, close-on-exec, end of file when the last
copy of the write end is gone) is in `Descriptors` and in `EndOfFile`.
`NinjaSpawn` counts a child that finds no free number for an `open` among the
calls that fail for want of resources (`faulted`).

### Faccessat, TempFiles, FastbootUsb, Licenses, CatalogPipeline and the code

| module | actions, in the order of the code |
|---|---|
| `Faccessat` (`faccessat.c`) | thread: `Call`, `MakePipe`, `Clone`, `CloseWrite`, `Read`, `CloseRead`, `Wait`; child: `SwitchIds`, `AskKernel`, `Exit`; `Killed` |
| `TempFiles` (`tmpfile.c`, `tmpnam.c`) | `Start`, `Open`, `Unlink`, `Close`; `Look`, `UseName`; `Crash`, and `Litter` for other programs |
| `FastbootUsb` (`fastboot_usb_libusb.cpp`) | `InitLibrary`, `ListDevices`, `LookAtDevice`, `TrySetting`, `EndDevice`, `Finish`; `StartWrite`, `Transfer`, `EndWrite`; `Close` |
| `Licenses` (`license.go`) | `Accept`, `WriteApex`, `ReadHashes`, `Truncate`, `Fill`; `Stop` is a kill or a failed write |

`CatalogPipeline` follows the workflow files: `Publish`, `Replace`, `Cancel` of a
build workflow (the release action deletes what has a file's name, then
uploads); `Start`, `NextPage`, `ListAssets`, `ReadDigest` of `gen-catalog.sh`,
each a request that may be refused; `Fetch` and `Push` of `catalog.yml`.  A
refused page ends the scan, a refused digest leaves the asset out, and refused
details of a release end the run.  `disturbed` and `whole` are history: a scan
is taken for the truth only if nothing was published or refused during it.
One asset is enough for two runs to differ in what they read and to overtake
one another; the module holds for two assets as well (251,000 states), which
is left out of the run for its length.

In `TempFiles` the directory is shared by processes of one user; a random name is
any of a small set, so that collisions happen.  `tmpnam` looks up the whole path
in `s[256]` and copies it out with `snprintf(dst, L_tmpnam, ...)` (`tmpnam.c:29`),
so at most 19 characters are returned (`Returned`).  That is the path it looked
up for `/tmp` and any other `TMPDIR` of up to 5 characters.  With a longer one,
for which the patch reads `TMPDIR` in the first place, the returned name is a
beginning of the path, with fewer than six random letters and from 11 characters
on with none: all calls then return the same name, which nobody looked up and
which may exist.  `FreshName` says what holds for which length; the stronger
claim, that the name returned was free, fails in the model for 8 and 35
characters.  No document of the repository makes that claim of these functions,
so it is recorded among the hazards and not among the violations.  `tmpfile`,
which opens the whole path, is not affected.  `copy` in `Faccessat` is what a cloned
child inherited: it may hold another thread's write end.

### The functions and the code

| Module | Code | What its properties say |
|---|---|---|
| `Catalog` | `catalog.go`, `commands.go` | `greater` is a total order; an entry of this host is found; of the paths in the manifest, none that `update` reached is offered again |
| `CmCurl` | `cmCurl.cxx` | certificates of one origin; a login file only with a level that reads it; the remedies for curl 8.3 to 8.5 and 8.7 |
| `NdkPackage` | `package-generator.c` | path, revision and license are of the release named; the document agrees with itself |
| `Resolvconf` | `resolvconf.c` | first three servers, last option within its limit |
| `NetInterfaces` | `network_interface_bsd.cc` | a prefix length iff the mask is contiguous; every address once |
| `Sysprop` | `IncrementalProperties.sysprop.cpp`, `faked_functions.cpp` | lists and numbers survive being written and parsed; errno restored |
| `PairedIterator` | `CombinedIterator.h` | reversing and sorting move both ranges alike |
| `MemMap` | `mem_map.h` | after any calls every page has one owner |
| `Targets` | `instruction_set.h`, `instruction_set.cc`, `target.h`, `mem_map.h`, `unscaledcycleclock.cc` | independent chains of macros choose alike |
| `HostCompat`, `HostPlatforms` | `host_compat.h`, `strl_compat.h` | no cell past a buffer; each name there once on each platform |
| `LibcShims` | `libc_compat.h` and its headers, `netbsd_mips_compat.c`, `android_compat.h` | each stand-in tells what the kernel's call would |
| `FbsdRequests` | `freebsd_usb.c` | the error of the step that failed; nothing stays open |
| `UsbEntry` | `termux_adb.h`, `termux_fastboot.h`, `adb_usb_*.cpp` | the switch is read once; a file is read whole |

Characters of strings, lines of files and entries of lists are members of small
sets; widths of numbers are a few bits where wrapping matters.

## Runs

| Run | Instance | Shows |
|---|---|---|
| `cli_crash` | 1 process, install and uninstall of 1 path, 2 builds of one version under one URL with different files, killed anywhere | `TypeOK`, `AgreeUnlessCutShort`, `OnlyVerifiedUnpacked`, `OldKeptUntilNewStaged`, `RecordedLast`, `IsPackageStore` |
| `cli_update` | 1 process, install and update with all flags, a newer version of the path appears; fairness | `LicensedInstalls`, `CommandsEnd` |
| `cli_disjoint` | 2 processes that install one path each, one of them killed anywhere | `PublishedWhole` |
| `usb_two` | 2 threads, 2 transfers each, one of them on 2 endpoints, lengths 0, 2 and 3 with a largest buffer of 2, 2 slots | `TypeOK`, `OwnResult`, `TableMatchesDriver`, `OneSlotPerEndpoint` |
| `usb_live` | a reading and a writing thread, 3 and 2 transfers, the 4 slots of the code; fairness | `NoNoticeLost`, `TransfersReturn` |
| `termux` | 2 devices, one of which is plugged in again once; adb or fastboot; room for 1 message; 1 walk; fairness | `AuthorizedWhenDone`, `NeverOlder`, `WalkComplete`, `FastbootReturns`, `ReplugOpens` |
| `parts` | ten parts, one behaviour each (below); fairness | `TokensConserved`, `PostWakes` of the semaphore, and the properties of the other nine |
| `cli_race` | 2 processes install the same path | violation: `NeverHalfInstalled` |
| `cli_lost` | 2 processes install two paths | violation: `InstalledIsRecorded` |
| `cli_stale` | 1 process, killed during uninstall | violation: `UninstallForgets` |
| `sem_lost` | 1 caller of the shim, 1 post | violation: `CallersAreWoken` |
| `licenses` | 2 processes of `apex licenses`, 8 earlier states of the file | violation: `KeepsLines` |

### The run parts

The parts it has share no state, so a behaviour is one of one part, chosen at
the start, while the others stay where they began: the union of their state
spaces, not their product.  `Parts` composes nine of them over their
constants, states their properties and assumes of the constants what the proofs
need; `MCParts` gives the constants values, where TLC evaluates the
assumptions, and adds the functions:

| Part | Instance | Properties |
|---|---|---|
| semaphore | 2 callers of the shim, 1 of `sem_wait`, 2 posters, 3 posts | `TokensConserved`, `PostWakes` |
| `NdkSpawn` | a table of 6 numbers, lists of up to 2 of 7 actions, 4 sets of attributes | `NdkIsSpawn` |
| `NinjaSpawn` | 8 numbers; ninja's own list and 3 others; up to 2 directories of PATH, each with the program, without, or forbidden | `NinjaIsSpawn`, `NothingStays`, `EveryCallReturns` |
| `Faccessat` | 2 threads, on Android and elsewhere, children killed anywhere | `AnswersForEffective`, `NothingStays`, `EveryCallReturns` |
| `FastbootUsb` | 3 devices with up to 3 settings, writes of 0 and 5 bytes in chunks of 2 | `TransportWorks`, `NothingStays` |
| `TempFiles` | 2 makers, 1 namer, 2 names that differ in the last of six letters, a `TMPDIR` of 4, 8 and 35 characters, 2 tries | `TempFilesSafe`, `EveryCallReturns` |
| `FbsdDevices` | 2 nodes, 2 units, 2 configurations, 2 replugs | `DescribesWhatIsPlugged`, `NothingStays`, `EveryCallReturns` |
| `Licenses` | 2 processes, 8 earlier states of the file | `AcceptedMergesLines` |
| `CatalogPipeline` | 1 asset, 2 builds of it, 2 runs of the catalog workflow, any request refused, builds cancelled | `CatalogIsScan` |
| functions | about 60000 inputs, by `MCAlgorithms` | `TargetsAgree`, `NetworkRead`, `FallbacksHold`, `PropertiesRead`, `CatalogAnswers`, `CurlOptions`, `NamesItsRelease`, `MovesKeepAll` |

Properties of one kind are joined under one name (`NothingStays` is that of four
modules), and each module states its own with its comment.  Most modules define
beside an operator a faulty variant of it, a plausible bug of that code; each
was put in the operator's place once and found by the property it is meant for.

Why the bounds are enough for what is claimed: one path and two builds give
every combination of old and new directory, staging leftovers, stale catalog
and replaced asset; four file names let a build have a file the other lacks,
one both have, and its own `source.properties` and `package.xml` or none.  Two
processes give every pairwise race on the temporary directory and on the
manifest; a third would repeat them.  Three attempts are those of the code.
`cli_disjoint` leaves uninstall out to stay within minutes.  The posts of
`SemClockwait` are bounded by `MaxPosts`, so it may stop with a waiter asleep;
deadlock is not checked there, nor in `parts`, whose parts end.  `Missable` is empty where the question is not
about catalogs.

In `FbsdUsb` the transfers of a thread are bounded by `MaxTransfers`, after
which it stops: deadlock is not checked.  Two transfers on an endpoint are
what it takes for a late result to meet a new transfer, in a slot kept or
reopened.  The queue of notices has four places: with fewer than
five transfers it could not overflow, and `usb_live` has five.  `usb_two`
has two slots for three endpoints, so that slots run out and notices are lost:
results are each transfer's own even then.

In `TermuxAdb`, `MaxPlugs` and `MaxWalks` bound the user and adb; scans go on
for ever.  One replug is what it takes for a descriptor to be stale, two
devices for children, messages and entries of a directory to meet.  The socket
holds `Room` messages; without that bound failing listings would fill it, since
they make the scanner forget what it asked for.  fastboot stops when it is
done or a permission is refused: deadlock is not checked.

`cli_disjoint` takes inodes to be interchangeable.

In `parts`: two actions on a list are what it takes to overwrite a descriptor a
later action reads; two directories, to fail once before the program is found;
two threads in `faccessat`, to hold each other's pipe; two names and two tries,
to collide, fail and end; two replugs, to swap two units under one address; a
device without a fitting setting, one without any and one with two, to go on
and to stop; a file of licenses that is missing, or that has one of the four
hashes alone on its line, beside another line, or glued to one.  Of the functions, lists of up to three or four elements have
every order of the distinct kinds of element; numbers go past both ends of the
width they have in the module.

Fairness (`FairSpec`) is weak fairness of `Step(i)`: a running process is
scheduled.  It includes that the network answers or fails in finite time,
which the code does not enforce (`http.Client{Timeout: 0}`,
`download.go:18`); a silent server stops a command for ever.  Nothing is
assumed about the server, the user or crashes.

`FairSpec` of `FbsdUsb` is strong fairness of `Step(t)` and of `TimesOut(t)`: a
thread is scheduled and gets the lock some time, though others take it in
between (pthread mutexes do not promise it, but the holders poll for 50 ms
without the lock), and the clock passes the deadline of a transfer that keeps
looking at it.  Nothing is assumed of the device.

`FairSpec` of `TermuxAdb` is weak fairness of the scanner, of the children (the
user answers, with yes or no) and of the listener, and strong fairness of a
listing that works: `termux-usb -l` does not fail for ever.

In `parts` it is weak fairness of what runs without anybody's help (of nothing in
the semaphore, the licenses and the catalog): caller and
child of ninja's spawn, thread and child of `faccessat`, a process inside
`tmpfile` or `tmpnam`, the scan of `/dev`.  Starting a call, kills, unplugging
and other programs are not fair.  While a part does not move, what is asked of
it is disabled.

### What the violations are

Each states a sentence of the documents, and is listed with its quotation
under `findings`.

- *Half installed.* `extract` empties the old directory before the rename; a
  kill in between leaves part of it (`download.go:125`).  Two installs of one
  package share the download's name; the truncated archive ends early and the
  incomplete tree is published as a success (`commands.go:124`, `sdk.go:32`).
- *Unrecorded.* The manifest is read once and written whole, without a lock.
- *Stale entry.* An uninstall that finds no directory leaves the entry.
- *Glued line.* A hash is appended straight to a license file that does not end
  with a newline, so the last line of sdkmanager and the hash are lost in one.
- *Lost wake.* The shim sleeps on 0, but bionic's `sem_post` wakes only when it
  finds -1.  `sem_post` and `sem_wait` are external: they are modelled from
  bionic's published `semaphore.cpp`, which the header names as its source.

More sentences turned out inexact; they have no run of their own, and the
properties name them as exceptions where they touch one:

- `README.md:110` says that releases and `catalog.json` update automatically, but
  `catalog.yml` runs on `release: published` or by hand, and the files of a
  release that exists already are replaced without it (`allowUpdates`): the
  catalog keeps the old digest until the next scan, and an install of that entry
  fails its check.  `Start` may happen at any time, or never.
- `README.md:64` and the requirements say that an installation is atomic:
  besides the race above, a kill between the emptying of the old directory and
  the rename leaves part of it (`download.go:125`); `NeverHalfInstalled` fails
  on the instance of `cli_crash` as well.
- `README.md:52` calls updates side by side, but `apex update` replaces the
  directory of the path it updates (`commands.go:246`).
- `freebsd_usb.c:570` says that a drain fails if the device went away, but
  `DrainFails` also comes of the notice of a slot that was closed to be reopened
  larger and could not be, and the next thread to drain reports `NO_DEVICE`.
- `freebsd_usb.c:453` says transfers finish inside submit, but a timeout returns
  while the driver still runs one.  `OwnResult` shows that no later transfer is
  taken in by it.
- fastboot's reset is refused on FreeBSD, since the backend's table lacks the
  operation (`CoreFindsOperations`); on a big-endian host `clear_halt` names
  another endpoint (`ClearsItsEndpoint`).
- `preadv2.h` speaks of the system calls, but a flag is refused whatever the
  kernel can do (`OffsetsAsKernel`); `fexecve.h` and `copy_file_range.h` have
  one number for two calls on riscv (`NumbersDiffer`); the `copy_file_range`
  shim is given at every API level, also where bionic has it (`ShimOnce`).
- `host_compat.h` says that the BSD libcs lack `mempcpy` and supplies it on
  OpenBSD alone (`EachNameOnce`).
- adb on Windows starts libusb whether or not it is switched on, and closes its
  devices only if it is (`ClosesItsDevices`).

## Proofs

Each theorem holds for every value of the constants that the assumptions named
with it allow; the runs show the same property on one instance.

**The CLI** (`Cli_proofs`; `PackagesAssumption`, `CliAssumption`).

- `TypeCorrect`: `TypeOK` is inductive by itself because it says more than types:
  `PlaceOK` ties the program counter to the path and the build in hand, which
  keeps `pkg`, `stage` and `dlAt` from being updated outside their domains.
- `Licensed` (`LicensedInstalls`), for any processes without further assumption.
- `UnpacksOnlyVerified`, `WholePackages`, `OldInstallationKept`
  (`OnlyVerifiedUnpacked`, `PublishedWhole`, `OldKeptUntilNewStaged`) for any
  number of processes under `Apart`: no two are given the same package, and none
  runs `update`, which takes its packages from the manifest all of them share.
  That is the claim the code can keep: it takes no lock, and `cli_race` shows what
  becomes of two installs of one package.  The last two also take `~XzDies`.
  The invariants follow a download from the directory entry over the inode to
  the reader (`FetchInv`: what a process has streamed is what its file holds,
  and nobody else has that inode open) and then the trees (`StageInv`,
  `WorkInv`: between `clear` and `rename` the staging directory has every file
  of the build).
- `ManifestAgrees`, `RecordsLast` (`AgreeUnlessCutShort`, `RecordedLast`) under
  `Alone`, one process at a time, and `~XzDies`: `cli_lost` shows that two
  processes lose entries.  The invariant is that the manifest in memory is the
  file on disk but for the entry being changed.
- `ImplementsPackageStore` (`IsPackageStore`) under `Alone`, `~XzDies` and `Filled`
  (every archive has a file beside `package.xml`, as every component has): each
  action maps to a step of `PackageStore` or a stutter, with the mapping of
  `CliProps`.

`Apart` and `Alone` restrict the environment, not the code, and hold of
`cli_disjoint` and of `cli_crash` and `cli_update`.

**The semaphore** (`Parts_proofs`; `SemAssumption`: finitely many threads, the
three kinds disjoint).  `SemTypes`, `SemConservation`: conservation is inductive
together with `TypeOK`; the step that needs care is the decrement, which moves
one token from the word to the set of returning waits.  The `TypeOK` of this
module is proved only: it is not among the properties of `parts`.
`SemPostWakes`: a thread asleep in libc's `sem_wait` while a token is free is
about to be woken, however many threads are in the shim.  The invariant is
`NativesAnnounced`: such a thread sleeps over a word of -1, or somebody has
posted and will wake all; the shim's decrements never touch the -1.
`CallersAreWoken`, the same of the shim's own sleepers, is the violation.

**The FreeBSD backend** (`Fbsd_proofs`; `FbsdAssumption`, whose one strong part is
that an endpoint is used by one thread), for any threads, endpoints, slots and
transfers.  `FbsdTypes`, `FbsdTable`, `FbsdOneSlot`: the table invariant.
`FbsdOwnResult`: `OwnResult` is not inductive.  `ResultInv` adds that a bound
endpoint is used by its thread only, and for each thread `Sound`: the slot of a
waiting thread is bound to its endpoint and points at its buffer, and a slot
marked done holds the result of that thread's transfer.  The step that needs
this is `Collect`: a notice may be of an earlier transfer, but what is copied
out is the transfer the slot has now.  `FbsdQueueHoldsAll` (`NoNoticeLost`)
under `Roomy`, no more threads and endpoints together than slots, as adb's two
and two for the four of `FBSD_NFSEP`.  It is a proof by counting: the notices
queued, the transfers running, and the threads that may start one before they
next drain are never more than the slots.

**The termux shim** (`Termux_proofs`; `TermuxAssumption`).  `TermuxTypes`.
`OpenNeverGoesBack` (`NeverOlder`): `OrderInv` puts the descriptors of a device
that are under way (map, listener, socket, child) in the order of its
connections.  `WalksAreComplete` (`WalkComplete`) counts the entries below the
position of a walk, and needs that a set of numbers has a least element, which
is derived from the well-foundedness of `<`.  `FastbootHasThem`
(`AuthorizedWhenDone`): `Accounts` balances the devices listed with messages
heard, messages under way and requests still to make, so that when the last one
is heard none is left in the socket.

**The parts** (`Parts_proofs`, of the specification that `parts` checks, in the
form `Parts`).  A step of the system is a step of the part or leaves it alone,
so an invariant of the part is one of the system.

- `PartsAnswerForEffective` (`Faccessat_proofs`, `AccessAssumption`).  `Inv` says
  of each thread and its child together where they can be: who holds which end
  of the pipe (`PipeOf`), which child is alive for it (`ChildOf`), and that what
  is in the pipe is the answer for the ids the child has switched to
  (`AnswerOf`).  A child that has not asked yet still has its write end, which
  is why a reader at end of file knows that its child was killed.
- `PartsTempFilesSafe` (`Temp_proofs`, `TempAssumption`: the constants name
  different things, random names have six letters, `TMPDIR` has 1 to 240
  characters).  `PrivateFile` is not inductive: it does not say whose file
  `Unlink` removes.  `CreatedIsMine` adds that between its two calls a process has
  its own file under the name it created; the two action properties follow step
  by step from it and from what `Creates` and `Missing` ask.  Of the name that
  `tmpnam` returns, `ReturnedIsCut` computes how many letters of the one it looked
  up are left: all six up to 5 characters of `TMPDIR`, a strict beginning beyond.
- `PartsCatalogIsScan` (`CatalogPipeline_proofs`): while a run is undisturbed, what
  it has found and what it still has to read make up the release (`Scanned`).
- `PartsTransportWorks` (`FastbootAssumption`: the devices and their settings are
  sequences, the chunk is positive).  `FitInv` says that every fitting setting
  behind the place the loops have reached was refused, or is the one claimed;
  `WriteInv` that what arrived is `1..count`.
- `PartsDescribesWhatIsPlugged` (`DevicesAssumption`: `None` is no node and no unit).
  `UsbInv` ties the scan's descriptor and references to its place, and gives each
  unit one node; the property is strengthened by the device whose configuration
  was set through the handle and is still to be read back.
- `PartsNdkIsSpawn` (`NdkIsSpawn`; `NdkAssumption`: a number that is opened is below
  the limit of open files, since the child drops the answer of the `dup2` that
  moves it there, and nothing is duplicated to itself, which would leave it
  close-on-exec).  `ApplyingInv` says where the child is in the list it was
  forked with, and that its table is `After` of that many actions, which needs
  `NdkEffects`: opening at the lowest number and moving does what POSIX says.
- `PartsNinjaIsSpawn` (`NinjaIsSpawn`; `NinjaAssumption` and in it `Sensible`: a list
  names numbers open in ninja, closes none twice and duplicates none to itself).
  `FdsInv` adds to the same correspondence the write end of the pipe in a number
  that no action touches; `ChildInv` places caller and child together, so that
  the caller is at end of file only when the child runs or was killed;
  `PathInv` says of each directory tried that it lacks the program, unless a call
  failed for another reason, which `faulted` records.
- `PartsKeepNothing` (`NothingStays`): for ninja's spawn `PipeInv` has the caller's
  table as the inherited one with the open ends of the pipe in numbers that were
  free, which needs that the lowest free number is one; `KidsInv` counts the one
  child to reap or to hand over.  For the others it follows from `Inv`, from what
  `HeldInv` lists at each place of `usb_open`, and from `UsbInv`.
- `PartsMergeLines` (`AcceptedMergesLines`; `LicensesAssumption`: the earlier file is
  missing or any text).  `LicenseInv` ties the text that a process is about to
  write to the earlier file, as long as one process runs at a time and none is
  killed.  What is left is about texts: the lines of a text that ends with
  a newline stay lines when more is appended, and each hash appended is one more.
  The theorem needs both exceptions of the property: the text ends with a
  newline (`KeepsLines` is the violation without it), and nothing disturbs.

What a list of file actions asks for is the last value of a recursive function
(`After`).  That the function has the value its equation says, and that a list
broken at one action stays broken, is proved from the well-foundedness of `<`
by the least position where it would not (`NoLeast`), without an induction
theorem that takes an operator.

**The functions** (`Algorithms_proofs`, of the specification `Checked`, which
the run `parts` checks).  A step of `Checked` is one of `Parts` or chooses a
function and its arguments (`CheckedIsParts`, by which the theorems about `Parts` are
about that run as well).  What a function promises is proved for every argument
that its hypothesis admits, far beyond the inputs of the run, and then that the
run chooses such arguments only.

- `VersionsOrdered`, `CatalogAlwaysAnswers` (`CatalogAnswers`), for versions of any
  number of components and catalogs of any size.  `greater` compares the first
  components that differ; `Numbers` extends a version by the zeros that `at` reads
  past its end, and `Ahead` says where two differ first, so that transitivity
  is a comparison of two such places.  Two versions of which neither is greater
  have the same numbers, which is why an update that was installed is not offered
  again.
- `CurlAlwaysRight` (`CurlOptions`), for a URL of any characters, any configured
  paths and any versions (`CurlInput`).  The one thing asked of the conversion of
  Windows is `KeepsAscii`: the code page leaves "%", "2" and "0" alone.
- `ReleaseAlwaysNamed` (`NamesItsRelease`), for any sequences of tokens in the fields
  of a release (`NameInput`), with buffers of the width the module has.
- `CheckedCatalogAnswers`, `CheckedCurlOptions`, `CheckedNamesItsRelease`: the
  invariant of each is that the function's arguments satisfy its hypothesis
  while it is the one chosen.

The assumptions on constants are conjuncts of `ASSUME`s that TLC evaluates on the
instances of the runs.  The names in front are of `Cli_proofs`, `Fbsd_proofs` and
the other modules of proofs; each theorem's comment names the code it is about.

**Model-checked only.**  Liveness (`CommandsEnd`, `TransfersReturn`,
`FastbootReturns`, `ReplugOpens`, `EveryCallReturns`), which the prover does not
reach.  Of the functions, `TargetsAgree`, `NetworkRead`, `FallbacksHold`,
`PropertiesRead` and `MovesKeepAll`: they are about finite tables, which TLC
covers completely, or about folds and filters of sequences, which need an
induction over their length.  The properties of the violation runs are false.

## Not modelled

- Declarations: `jni.h`, `jvmti.h`, `classfile_constants.h`, OpenBSD's `usb.h`
  and the other vendored headers have no behaviour; they are close to half
  of the C lines of the repository.  The definitions here map to about 30 % of
  all C lines.
- The NDK and CMake builds carry copies of the musl files; one of each is
  mapped.
- `list` and `help`, the packaging scripts and the other workflows: text, and
  sequential steps over local files.  `CatalogPipeline` has one release per page
  and one asset per release, and leaves out sizes and the order of entries.
- `LibusbTransport::Read` (one transfer), the serial numbers of `TermuxAdb`, the
  lookups of `mem_map.cc`, which is not in the repository, and the parts of the
  patched sources that only declare.
- A `TMPDIR` of more than 240 characters, for which `__randname` writes behind
  the end of `s[256]` in `tmpfile`, and from 242 on in `tmpnam`: what that does is
  undefined (`MaxTmpdir`).
- The certificate directories of AIX and SunOS in `cmCurlSetCAInfo`: the
  repository builds for neither.
- The xz child and its waiter beyond their outcomes.  `XzDies` would let the
  archive end early; no run sets it, so what a dying child does to an
  installation is not checked.

## Plan

In this order:

1. `CatalogPipeline` composed with `ApexCli` in place of `Upload` and
   `Regenerate`.  `XzPipe`: child, waiter, reader.
2. `PropertiesRead`, `NetworkRead` and `MovesKeepAll` for every input, with the
   folds of `Sysprop`, `Resolvconf` and `MemMap` written as recursive functions.
