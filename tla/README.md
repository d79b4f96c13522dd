# NOS-DOS, specified in TLA+

NOS-DOS is an environment for 16-bit DOS machines and emulators: an installer, a
hardware detector, a file manager, a package manager and a handful of resident
helpers, written in C and assembler and run one program at a time. This directory is
its specification: modules translated from `src/`, TLC configurations that check them
on small instances, and theorems that TLAPS checks for every value of the constants.

Nothing here runs in parallel inside one processor; what makes the system hard is
that programs share text files which each of them rewrites by hand, that a machine
is switched off whenever its owner likes, that disks are full, that external
programs (HTGET, the extractors) end as they please, that interrupt hooks cut
into a program between two instructions, and that a host looks at the shared folder
while the guest writes into it.

## 1. Inventory

### Components

| Component | Source | State it keeps | Operations |
|---|---|---|---|
| NOS-INSTALL | `src/install/install.c` | current screen, the installed tree | screens, FORMAT, copy of the tree, start-up files |
| NOS-DETECT | `src/detect/*.c` | `CONFIG.SYS`, `AUTOEXEC.BAT`, `NOS-HW.CFG`, `MTCP.CFG`, the WELCOMED flag | first boot, `/FORCE`, `/NOREBOOT` |
| NOS-MEM | `src/mem/nosmem.c` | `PROFILE.DAT`, `CONFIG.SYS` | switch of profile, reboot |
| NOS-SHELL file manager | `src/shell/shell.c`, `panel.c`, `dialog.c` | two panels: directory, list, cursor, scroll, order | keys; copy, move, delete, mkdir |
| NOS-SHELL launcher, viewer, settings, welcome | `src/shell/launcher.c`, `viewer.c`, `shellcfg.c`, `welcome.c` | menu and cursor, text and scroll, `SHELL.CFG`, WELCOMED | their keys |
| NPKG registry | `src/npkg/registry.c` | `INSTALLED.DB`, table of 64 entries in memory | add, remove, find, list |
| NPKG download | `src/npkg/fetch.c` | the archive in `DNLD` | `nos_fetch_archive`: URLs, attempts, size |
| NPKG definitions and installer | `src/npkg/install.c` | `DEFS\*.NPK`, the package directory, `AUTOEXEC.BAT`, `LAUNCHER.CFG` | fetch, parse, run, register and unregister a menu entry |
| NPKG index | `src/npkg/index.c` | `PACKAGES.IDX`, index in memory | update, load, find, search |
| NPKG commands | `src/npkg/npkg.c` | the command under way | UPDATE, SEARCH, INFO, PROFILE, LIST, INSTALL, REMOVE |
| NOS-THROTTLE | `src/throttle/*` | level and delay words of each resident copy, two hook chains | hotkeys, install, `/U`, TCTL SET and CALIBRATE |
| NOS-PLAY | `src/play/*.c` | the profile in force | run a game under a profile |
| NOS-BRIDGE | `src/bridge/*` | `H:\PRINT`, `H:\CLIP\CLIP.TXT`, hooks of INT 08h, 09h and 17h | print, spool, clipboard |
| Host helpers | `host_helpers/*.py` | names seen | watch the spool and the outbox |
| NNET | `src/net/*.c` | `MTCP.CFG` (read) | up, status, wrappers |
| Build, packages, web site | `build/`, `packages/`, `website/` | none that outlives a run | scripts and data |

### How they interact

- Shared files. `AUTOEXEC.BAT` is written by NOS-INSTALL, NOS-DETECT, NPKG and the
  user; `CONFIG.SYS` by NOS-INSTALL, NOS-DETECT and NOS-MEM; `LAUNCHER.CFG` by NPKG and
  the user and read by NOS-SHELL; WELCOMED by NOS-INSTALL and NOS-DETECT, which remove
  it, and NOS-SHELL, which makes it; `INSTALLED.DB` by NPKG only. No file is locked,
  none is replaced atomically: DOS `rename` does not overwrite, so each rewrite is a
  write to a second file, a `remove` and a `rename`, or an overwrite in place.
- Existence as a message. NOS-DETECT runs on the first boot because NOS-HW.CFG is not
  there; NOS-SHELL greets because WELCOMED is not there.
- External programs: FORMAT, HTGET, the extractors, the mTCP tools and games run through
  `system()`.
- Interrupt chains: THROTTLE, NOSLPT and NOSCLIP hook vectors and find each other, or
  fail to, through signatures at the vector's target; TCTL writes into the memory of
  THROTTLE.
- A shared folder: the spool and the clipboard pass through drive H: to host scripts
  that poll.

### Hard behaviours and the properties that answer them

`PROJECT.json` lists each hazard at its line with the properties that would catch it. In
short: a power failure between `remove` and `rename`, or between the guard of the first
boot and the files it vouches for; a write that comes up short and is not noticed; the
flag of the line loop that strips a block; retry counters of two nested loops; a cache
filled with an error page; three files that must tell one story about a package; words
shared with an interrupt handler; a register and a buffer place that a flush spoils;
a spool whose numbers run out and come again; one DTA for a recursive search; a move that
becomes a copy and a removal; panels that show a disk another program has changed.

## 2. Modules

```
InstalledSet <--implements-- Registry --EXTENDS--> RegistryTable <--+
                                |  INSTANCE                         |
                             TmpRename                              |
                                |                                   |
      AutoexecRewrite ----------+------- LauncherCfg                |
        | EXTENDS                          | EXTENDS                |
      AutoexecLines --> TextLines <---- LauncherLines               |
        +---------------- Npkg -----------+-------------------------+
        NpkgRegistry: Npkg with the calls it makes, --implements--> Registry
      RegistryTable, AutoexecRewrite, LauncherLines --EXTENDS--> NpkgFiles
      Fetch (the step FetchAndExtract of Npkg in detail)

      Startup --EXTENDS--> Install          Play  --EXTENDS--> Throttle
      Shell   --EXTENDS--> Panel, Viewer    Spool --EXTENDS--> Noslpt
                           Viewer --EXTENDS--> TextLines
```

| Module | Models |
|---|---|
| `TmpRename` | the three DOS calls that replace a text file, whole or cut short |
| `InstalledSet` | abstract: what `registry.h` promises, a bounded map from ids to versions |
| `RegistryTable` | the table in memory: load, search, replace or append, shift down |
| `Registry` | `nos_registry_add`, `nos_registry_remove` and `reg_save` call by call |
| `Fetch` | `nos_fetch_archive`: both loops, HTGET, the size checks |
| `NpkgFiles` | the package ids, and files that may not exist |
| `TextLines` | keeping some lines of a text in their order |
| `AutoexecLines` | the lines of `AUTOEXEC.BAT`, a package's block, the text without it |
| `AutoexecRewrite` | `nos_update_autoexec` and `remove_autoexec_block`, a line per step |
| `LauncherLines` | the lines of `LAUNCHER.CFG` as 128-byte reads return them |
| `LauncherCfg` | registering and unregistering a menu entry |
| `Npkg` | UPDATE, INFO, PROFILE, INSTALL, REMOVE over all the files above |
| `NpkgRegistry` | the same commands with what `Registry` remembers of its calls, and the refinement mapping to `Registry` |
| `Throttle` | every copy of THROTTLE.COM, both hook chains, the hotkeys, TCTL |
| `Play` | NOSPLAY, which calls NOSMEM, THROTTLE and TCTL; puts their steps together |
| `Noslpt` | the INT 17h hook: buffer, flush, the four DOS calls |
| `Spool` | the hook, NBRIDGE PRINT and MOUNT, the host watcher, the operator |
| `Install` | the installer: screens, FORMAT, `copy_tree` over one DTA, the files at the end |
| `Startup` | the machine from power switch to shell: installer, AUTOEXEC.BAT, DETECT, welcome, NOSMEM |
| `Panel` | a panel as a record, its operations as operators |
| `Viewer` | the viewer and the launcher's menu, likewise |
| `Shell` | both panels over a disk, the dialogs, the four commands, settings, viewer, launcher, other programs |
| `MC...` | bounds for TLC; `MCNpkg` also holds the fairness of a patient user |
| `RegistryProofs`, `FetchProofs`, `AutoexecProofs`, `PlayProofs`, `StartupProofs`, `SpoolProofs`, `ShellProofs`, `NpkgProofs` | the theorems |

### State and actions against the code

- A file of NPKG is `Absent` or a sequence of lines. A line is told apart by its kind
  and its package, not by its characters: blocks are matched by marker and id, with the
  blank behind the id, so the model needs no strings. An entry of the registry keeps its
  id and version; directory, category and date travel with the version. Ids equal up to
  case are one value.
- `pc` (`stage` in `LauncherCfg`) is the place in the C function between two DOS calls, or, in `Throttle`, between
  two writes that a key may separate; `mode` of `Startup` and `Shell`, and `step` of
  `Install`, say which program, screen or dialog is waiting. `SaveWrite`, `SaveRemove`,
  `SaveRename` are the three calls of `reg_save`. Writing a file is one step that may
  leave any first part of the text, because nothing is checked after `fopen`. Where that
  part ends inside a line depends on the file. INSTALLED.DB: `reg_load` skips a line with
  fewer than five fields, so that whole entries are what counts; a cut in the last field,
  the date, leaves an entry whose id and version are whole. AUTOEXEC.BAT: each block
  begins with an empty line, which ends whatever line was cut, and a marker that lost its
  blank is none (`npkg.c:106-108`), so whole lines again. LAUNCHER.CFG has neither: `Cuts` of
  `LauncherCfg` leaves pieces of a line (`Scrap`), among them the marker of a shorter id
  (`Stems`: DOOM2 cut to DOOM), and the next line written runs on from a piece (`ragged`,
  `Glued`).
- `remove` and `rename` may fail in `Registry`, `AutoexecRewrite` and `LauncherCfg`, each on its
  own: DOS refuses to rename over a file that is there, and the second may fail when the
  first did not. Where the result is ignored the program goes on. In `Npkg` itself they
  succeed: what a failed one leaves of a file is said in those modules, and the question of `Npkg`
  is what the files say together. `system()` of a DELTREE line may do nothing, because
  `npkg.c:438` does not look.
- History variables (`before`, `call` of the registry, `faults`, `orig`, `torn`, `tries`,
  `cleared`, `cuts`, `want`, `lost`, `due`, `processed`, `failed`, `full`, `fresh`, `wiped`, `loops`, `stale` and so
  on, marked "history" where they are declared) record what the properties compare with
  and are read by no action that models code.
- In `Fetch` an HTGET run ends with any exit code and leaves any file; the file carries
  the run that wrote it, so that a stale one is told from a fresh one. The `remove` before it
  may fail: HTGET then finds the old file, and may leave it (`cleared`). In `Npkg` what a
  cached definition parses to is one of three classes: an error page (no `InstallDir`),
  one cut behind `[INSTALL]` (no `[LAUNCHER]`, no `[REMOVE]`), or a whole definition.
- A hook is one step, since it runs with interrupts off; a hotkey may fall between any
  two steps of THROTTLE's `init`, of `thr_set_level` and of CALIBRATE. `int08` and `int09` are
  the chains, newest first; other people's residents lie between.
- In `Startup` a file of C: is one of a few contents: absent, cut short, as on the disc,
  generated by DETECT, or a profile. What COMMAND.COM runs follows from the content of
  AUTOEXEC.BAT. A file that cannot be written is `blocked` for the whole behaviour; `remove`
  does not take it away either (`Removed`), a FORMAT does.
- In `Spool` a file is its number, and `processed` the numbers whose present file the host
  script has read: a create, by the hook, by NBRIDGE or over an old file, makes a new file
  of it. `seen` is the script's own set of names, which forgets none. A pass that may not read the
  folder (`PermissionError`) has no names and comes round again: it changes nothing.
- In `Shell` a path is a sequence of names and the disk a function from paths; DOS may
  refuse any call. `Panel` and `Viewer` keep the cursor arithmetic of the code, indices
  from 0, clamps in the same order.
- `PowerLoss` and `PowerCut` may happen at any place. They keep the files, may cut the one
  being written, and forget the memory.

## 3. Runs

Twelve runs, one of them violated on purpose: it shows that the code does not do
what its documentation says. Each `MC*.cfg` names its properties. The type invariant of each module is
the first conjunct of one of its checked invariants (`LauncherCfg.OneMarkerEach`,
`Npkg.FilesAgree`, `Play.GameAtItsLevel`, `Noslpt.StreamKept`, `Startup.ProfileMatches`,
`Shell.CursorVisible`), and is proved with it or in a theorem of its own; for
`Registry`, `Fetch` and `AutoexecRewrite` it is only proved. That of `Noslpt` is part of the invariant
behind `SpoolStreamKept`.

| Run | Shows | Bounds |
|---|---|---|
| `MCRegistry` | a whole copy in one of two files; OK means that the table of this call was put in place, a short write aside; an error loses nothing; the three calls implement `InstalledSet` | 3 ids, 2 versions, table of 2 |
| `MCFetch` | the archive is fresh and of the right size; failure only after all attempts; the call returns | the code's: 3 URLs, 3 attempts |
| `MCAutoexecRewrite` | the loop copies exactly what is outside the blocks; a removal takes its own lines; a whole copy survives | 2 packages, 1 line of the user, no line added from 7 lines on, 1 short write |
| `MCLauncherCfg` | one marker each; a removal takes marker and entry | 2 packages, the id of one begins the other's and its entry is longer than the buffer, 1 line of the user, no line added from 3 lines on; any number of short writes and failed calls |
| `MCNpkg` | the three files agree between commands, and a registered package has its files; REMOVE leaves no line of its package; no command touches lines, entries or files of others; every command ends | 2 packages, table of 2, every kind of failed download, extraction and DELTREE, 1 power failure |
| `MCNpkgPatient` | nothing but an error page cached as the definition keeps a user who repeats UPDATE and INSTALL from the package | every kind of failed download and extraction, 1 refused open |
| `MCPlay` | level and delay agree and follow the last choice; calibrated levels are ordered; both chains match; a game runs at its level; one key takes the delay off | room for 2 copies, 1 program of others, 1 calibration, a count over 16 bits, 4 profiles |
| `MCSpool` | the stream is kept; a page ends at a form feed; NBRIDGE overwrites only in a full spool; the watcher processes every file that stays under a name it does not know yet | buffer of 2, digits in its second place, numbers to 2, 4 characters |
| `MCStartup` | every file copied once; the welcome on the first boot; the guard is honest; no reboot loop; the first shell is configured; the welcome stays; the profile is told | 4 directories, `MAX_SUBDIRS` 2, 2 writes that go wrong, 4 sets of blocked files |
| `MCShell` | both panels show the disk after every command; a command changes what its dialog named; a move keeps the contents | 2 drives, 2 files, 1 directory, 2 rows, 2 changes |
| `MCShellMenus` | one order for both panels and the next start; the viewer shows the whole text; nothing scrolls out of its list | 4 entries that the four orders tell apart, texts of up to 4 bytes, 3 lines, menus of up to 6 lines |
| `MCShellOntoItself` | *violated*: "Move / rename" (`COMMANDS.TXT:11`) of a file onto itself | as `MCShell` |

Why the bounds are enough.

- The registry needs a full table, a table from which an entry before and behind another
  goes, and a package that is replaced: three ids and two entries give all of them. The
  nested loops of `Fetch` are checked at the counts of the code.
- A file that grows from four lines by a block of four holds two blocks with lines of
  the user before, between and behind, and torn blocks of every length; the bound stops
  growth, not what a removal may meet. Two packages suffice for `Npkg` because no step
  looks at a third. Its table has room for every package: with a full one INSTALL ends
  well although the registry refused it, and `FilesAgree` is false (section 6).
- Two copies of THROTTLE and one program between them are the shortest chain in which
  one copy hides under a hook and a second is installed. The count of 70000 is above
  16 bits, so that the clamp of preset 5 matters, and its ninth tenth is below, which is
  the condition `PresetsOrdered` states.
- A buffer of two has a first and a last place, one of them among those that the digits
  spoil; a form feed can meet it empty, half full and full. Two numbers give a free one, a
  gap and a full spool. Four characters fill the buffer twice.
- `copy_tree` meets a directory with files before and behind subdirectories, and one
  subdirectory more than it can remember. One write that goes wrong may hit each file of
  the chain; a second, the guard after it.
- Two rows show less than a list holds, so that scrolling happens; one drive refuses
  `rename` to the other; a destination may be a new name, a directory, another drive, the
  proposed path, and the proposed path cut short by the field.

Fairness. `Fetch` and `Npkg` assume weak fairness of the steps of a command: a program
that was started keeps running, DOS has no other. `Spool` assumes it of the host script's
loop, which sleeps and polls as long as it lives, and takes it that some pass after any other may
read the folder. Starting a command is never fair,
except in `PatientSpec` of `MCNpkg`, where a user who repeats a command, and a network on
which a download succeeds again and again, are strongly fair: that is the assumption
behind "Try NPKG INSTALL again" and not one of the code, so `MCNpkgPatient`
checks a specification of its own. HTGET may leave an error page or a cut
file in any of the caches; that a fetch of a definition succeeds again and again says
nothing of one that is not made any more. The modules of interrupts, start-up and shell state safety only.

CHECK_DEADLOCK is left on everywhere: in every reachable state something may happen.

Every property of a passing run has a mutant of the code, an operator next to the
definition it changes and marked `mutant`, that breaks it.

## 4. Proofs

TLAPS proves the following for every value of the constants. The assumptions are the
named ASSUMEs of the modules, which TLC evaluates on each run: `RegistryAssumption`,
`FetchAssumption`, `AutoexecAssumption`, `LauncherAssumption`, `NpkgAssumption`, `NpkgValues`,
`InstallAssumption`, `StartupAssumption`, `ThrottleAssumption`, `PlayAssumption`, `NoslptAssumption`, `PanelAssumption`,
`ViewerAssumption`, `ShellAssumption`. They say what the constants are and nothing of what the
code does: a set of ids, a number of attempts, a file that is absent is no file, an
id that begins itself, a buffer of at least one byte with the digits inside it, a tree whose entries are whole paths and
stand in one directory each, names that two ranks put in order, a disk that is a tree.
One of them is about size: in `StartupAssumption` the files that the first boot needs lie in
directories `copy_tree` has room to remember (`MAX_SUBDIRS` is 32 for each directory).

| Theorem | States |
|---|---|
| `RegistryTypeOK`, `RegistryUniqueIds` | the variables have their types; no package is listed twice, in memory or in a file, whatever fails |
| `RegistryFailureLosesNothing` | `FailureLosesNothing`: a call that reports an error has left the database alone or, when `rename` failed behind `remove`, its new table in INSTALLED.TMP |
| `RegistrySurvivesFailures`, `RegistryOkMeansSaved` | whichever calls fail: `NoPartialDb`, `OneCopySurvives`; `OkMeansSaved` |
| `RegistryImplementsInstalledSet` | every step of the calls and every failure is a step of `InstalledSet` or a stutter |
| `FetchTypeOK`, `FetchOkMeansFresh`, `FetchPersists` | the counters stay in bounds; `OkMeansFreshArchive`; `GivesUpAfterAll` and `FallbacksInOrder` |
| `AutoexecTypeOK`, `AutoexecCopiesOutsideBlocks`, `AutoexecRemovesOwnLinesOnly`, `AutoexecOneCopySurvives` | `CopiesOutsideBlocks`, `RemovesOwnLinesOnly`, `OneCopySurvives` for files of any length |
| `NpkgTypeOK`, `NpkgRemoveLeavesNothing` | types; `RemoveLeavesNothing`, whatever commands were cut off before and whatever DELTREE did |
| `NpkgFilesAgree` | `FilesAgree`, for any set of packages the table has room for |
| `NpkgOthersUntouched` | `OthersUntouched`, if every menu entry fits the buffer that it is read with |
| `NpkgDrivesRegistry` | every step of a command on INSTALLED.DB is a step of `Registry`, and every other step a stutter |
| `NpkgKeepsInstalledSet` | so `NPKG` implements `InstalledSet`, and `FailureLosesNothing` and `OneCopySurvives` hold of the database it leaves |
| `LauncherOneMarkerEach`, `LauncherRemovesMarkerAndEntry` | `OneMarkerEach`, `RemovesMarkerAndEntry` of `LauncherCfg`, for any ids, files and entries of any length |
| `PlayTypeOK`, `PlayWordsAgree`, `PlayLastChoiceStands`, `PlayChainsMatch` | every word stays a word; `WordsAgree`, `LastChoiceStands`, `ChainsMatch` for any number of copies and of programs of others |
| `PlayPresetsOrdered`, `PlayOffMeansOff`, `PlayGameAtItsLevel` | `PresetsOrdered`, `OffMeansOff`; `GameAtItsLevel` if memory has room for one THROTTLE more than there are programs of others |
| `StartupTypeOK`, `StartupEveryFileOnce` | types; `EveryFileOnce`, for any tree |
| `StartupGuard`, `StartupNoRebootLoop`, `StartupWelcomeOnFirstBoot`, `StartupWelcomeStays` | `GuardMeansConfigured`, `NoRebootLoop`, `WelcomeOnFirstBoot`, `WelcomeStays`, for any failures, files that cannot be written or removed, and any power cuts |
| `StartupProfileMatches`, `StartupFirstBootConfigured` | `ProfileMatches`, `FirstBootConfigured` |
| `SpoolOverwrites`, `SpoolStreamKept`, `SpoolPagesEndAtFormFeed` | `OverwritesOnlyWhenFull`; `StreamKept` and `PagesEndAtFormFeed`, for a buffer and a spool of any size |
| `ShellTypeOK`, `ShellPanelsShowDisk`, `ShellOneOrder` | the disk stays a tree; `PanelsShowDisk`, `OneOrder`, for any disk, names and orders |
| `ShellCursorVisible`, `ShellViewerShowsAll` | `CursorVisible` for any sizes of panels, menu and viewer; `ViewerShowsAll` for any text |
| `ShellOnlyNamedChanges`, `ShellMoveKeepsContents` | the two action properties, for any paths |

The two `Launcher...` theorems stand in `NpkgProofs`, next to the lemmas about LAUNCHER.CFG that
they share with `Npkg`; it EXTENDS both modules, which is why `LauncherCfg` says `launcher`
where `Npkg` has the plain name. For the instance of `RegistryProofs` the assumption of `Registry` is
itself a lemma, from those of `Npkg` (`KeptAssumed`).

Three theorems have a hypothesis of their own, each a fact of the installation: the
registry has 64 entries (`NOS_REG_MAX_ENTRIES`) and `packages/packages.idx` lists 29
packages, so `NpkgFilesAgree` asks for room for all, and is false with a full table (section
6); `NpkgOthersUntouched` asks for entries below 128 characters, and a longer one is split
(section 6 again); `PlayGameAtItsLevel` asks that NOSPLAY can install a THROTTLE.

None of these properties is inductive alone. What each invariant adds, and why:

- Registry. The invariant relates the table in memory to the one that the call started
  from. Lemmas about the sequence operators carry it: an append of a new id keeps ids
  distinct (`AddedKeeps`), shifting an entry out does (`WithoutKeeps`), so does the first part
  of a table (`CutKeeps`, for a short write or a cut file); `Untouched` says which file a call
  has not reached yet. Survival of a power failure needs the phase of `reg_save`: the
  second file is whole from `SaveWrite` to `SaveRename` (`Flushed`). For `OkMeansSaved` and the
  refinement `Answer` adds what the call will answer at each place: the abstract set
  changes at the `rename`, and every other step is a stutter.
- Fetch. `Progress` counts the HTGET runs that both loop counters imply, `Fresh` ties the
  file in DNLD to the last of them, or to a `remove` that failed.
- AutoexecRewrite. What has been copied is the text outside the blocks up to the line that
  was read last (`Copied`); the flag is on exactly inside a block (`InBlockSplit`); a line that
  opens a block is the step where both change (`OpenStep`). `Whole` says that the
  lines of a block stand together, which makes the lines outside the blocks all lines of
  others; `Safe`, that while no write came up short the second file holds what the removal was
  to keep, from `fclose` to `rename`.
- Npkg. `FlowInv` adds to the types what each file looks like at every step: AUTOEXEC.BAT holds
  whole blocks (`Tidy`), each marker of LAUNCHER.CFG is followed by its entry (`Followed`), and
  the registry lists an id once, only with a cached definition, and is saved with exactly the one
  change of the command (`RegOK`). `RemoveInv` says what a REMOVE has done at each place.
  `AgreeInv`, for as long as no command was cut off or refused, is `FilesAgree` corrected by what
  the command under way has just given or taken (`BlockDue`, `MarkerDue`), and `FilesThere` says at
  which steps the directory is there before the entry, or still. Three lemmas (`AutoSteps`, `MenuSteps`,
  `RegSteps`) say once what any step may do to each file, and the invariants are proved from
  these and not from the actions. Below them stand the lemmas on texts: what `Picked` keeps,
  counted by the lines before (`Lists`, `PickedAt`), the rest of a text without the lines of a
  package (`Rest`, `RestOfPicked`), the pieces that fgets makes of it (`PiecesPlaced`: where those of each line come to stand;
  `PiecesKeep`: what is therefore kept).
- LauncherCfg. `LauncherInv`: neither file, nor what a removal has read, holds two lines that
  could be read as the marker of a package. Not the marker itself is counted but whatever begins as it
  does, the marker whole or cut (`Begins`, `Alone`): a cut of the last line leaves
  the count as it was (`AloneCut`), and so does a line that runs on from a piece
  (`AloneJoin`), while a piece that happens to be the marker of a shorter id is the reason why
  the statement is about `Stemless` packages once a write came up short. As long as every write was complete, each marker is
  followed by its entry and each entry preceded by its marker (`Paired`), in the menu, in
  what was read and in the finished copy. Both halves are needed: the removal takes the piece
  behind the marker whatever it is, so without the first it would take a line of the user,
  and without the second leave an entry of the package.
- NpkgRegistry. `SpecWithPast` is `Npkg` with history variables: the table, the request, the
  answer and the faults of the last call of `registry.c`. No step reads them, and each action of
  `Npkg` sets them in one way, so they add no behaviour and take none away.
  `PastInv` needs one fact beyond `FlowInv`, that the table `reg_save` writes is the one the call
  left. The step simulation is `PastImplements`, action by action; what is proved in
  `RegistryProofs` then carries over through an instance of it (`Kept`). A file that refuses to open
  is a fault `io` of `Registry`, a command cut between two calls of `reg_save` a fault `power`.
- Play. `Agree` and `Asked` hold for every copy but the one a program is between two
  writes of, and say what is in the register for that one; `Chained` says that INT 08h is
  one hook ahead of INT 09h between the two DOS calls that set the vectors and nowhere else, which is what
  makes the signature test of the next installation sound. `Counted` says that CALIBRATE
  counts no further than the machine can, which presets it has written so far, that the
  presets of every other copy rise, and that OFF burns nothing; `Loaded`, that a program of
  others lies between any two resident copies, so that counting the programs of others leaves room for
  the next; `Dialed`, that what is called for a game works on the newest hook with the
  level of the game. The burnt time is a fold over the
  copies: that its recursion has one solution and adds what it should is proved by the
  smallest set where it would not (`SumExists`).
- Startup. `Guarded`: there is no guard while the installer still writes the files it
  vouches for, and NOS-DETECT has written each of them before it comes to the guard.
  `Searches` is needed because `copy_tree` must not write the guard or the flag: the one DTA
  always stands at an entry of a directory of the disc. `Unwelcomed` keeps WELCOMED away
  until the welcome, `OneReboot` puts the guard before the reboot. `CopyInv` says which
  directories are done, remembered or to come, so that no file is met twice; `Recorded` ties
  PROFILE.DAT to CONFIG.SYS, and `FirstBoot` what DETECT has generated to how far it has come.
- Spool. `Chosen` carries what NBRIDGE found from the search to the open; that its search
  finds a smallest number at all comes from well-foundedness (`Smallest`). For the stream,
  `Pages` says how many characters are where and that a page begins where DOS wrote last,
  `Bytes` that each is as printed or at a spoilt place (`Spoilt` only grows); one lemma per
  DOS call of the flush, and `OthersKeep` for everybody else. `Ended` adds where the form feeds
  are: last on their page, or first on one that a full buffer made it open.
- Shell. `Tree` keeps every path of the disk in a directory that is there, through a
  rename of a whole directory too (`RenamedOK`); `Listed` keeps the cursor in its list and its
  row on the screen; `Asked` says what a dialog holds for the command it belongs to. That a
  sorted list shows a directory exactly once per name is `SortedLists`, from the order of the
  ranks. `Shown` keeps the viewer on a page and the launcher on an entry. `LoadShowsAll` is what
  `ViewerShowsAll` rests on: after every byte the lines that have ended are whole and the
  open one holds all that follows them (`Sofar`, `ScanStep`).

`UniqueIds`, `NoPartialDb`, `FallbacksInOrder` and the type invariants of `Registry`, `Fetch`
and `AutoexecRewrite` are proved and not run, and so is the refinement of `Registry` by
`NpkgRegistry`.

Only model-checked: liveness (`FetchReturns`, `CommandReturns`, `OnlyTheCacheStops`,
`NewNamesProcessed`), which rests on ENABLED and is out of the prover's reach. Every invariant
and every action property of a passing run is a theorem.

`Npkg` does not implement `LauncherCfg` and `AutoexecRewrite` in the same way as `Registry`: it takes
the copy of a file as one step, where they open it and fill it in several; that the copy
comes to the text which `Npkg` writes at once is what `RemovesOwnLinesOnly` and
`RemovesMarkerAndEntry` say.

## 5. What is not modelled, and the plan

- NPKG: the INI parser and the tab splitter (their effect is the class of a definition
  and the set of listed ids), LIST and SEARCH (they change nothing), console output, the
  128- and 160-character line limits other than that of `LAUNCHER.CFG`, and the text that
  `expand_vars` makes. HTGET and the user's editor are external and modelled by all they can leave behind; of
  the extractors and DELTREE only whether a package has files in its directory.
- NOS-DETECT's probes are port I/O, their results input; the text of the generated files
  is abstracted to whether it is whole.
- NOSCLIP and NBRIDGE CLIP: the INT 09h hook returns with a word too many on the stack
  (`nosclip.asm:73-89`), so that what follows it is not the code's. Installation and `/U` of
  NOSLPT, which share their form, and their fault, with THROTTLE's. `watch_outbox.py`, which
  has the loop of `watch_print.py`.
- NOS-SHELL: drawing, the reading of keys and mouse, the status line, the limit of 512
  entries and the heap. `nos_panel_set_drive` is called by nothing.
- NNET keeps no state and the build scripts produce files in sequence: no module.

Left for later: a module for the parsers of a definition and of the index.

## 6. Where the code and what is said of it differ

Listed as a finding: a copy or a move of a file onto itself empties it, and the move then
removes it (`MCShellOntoItself`).

Met while modelling, without a run of their own; where a property is false because of one,
its statement names the exception:

NPKG
- "rewrite it atomically" (`registry.c:5-7`): between `remove` and `rename` (`registry.c:181`)
  there is no database; the same of `LAUNCHER.CFG` (`install.c:737`), which `install.h:195`
  calls atomic, and of AUTOEXEC.BAT.
- `reg_save` returns OK after a short write (`registry.c:179`), against "Returns NOS_REG_OK on
  success" (`registry.h:76`): a part of the table replaces the database. `OkMeansSaved` says no
  more of that case than that nothing older is left.
- A menu entry of 128 characters or more is split by a rewrite and only its first piece removed
  (`install.c:718`), against "the immediately following entry line" (`install.h:194`).
  `RemovesMarkerAndEntry` is stated for shorter ones.
- "Try NPKG INSTALL again" (`NPKG.TXT:116`) does not help where HTGET left an error page in the
  cache of definitions: it is never fetched again (`install.c:306`). `OnlyTheCacheStops` says
  that nothing else stops a user who does.
- `rename` may fail when `remove` did not (`registry.c:182`): the call reports the error, and
  the database is gone, its new table in INSTALLED.TMP where nothing looks for it.
- LAUNCHER.CFG cut inside a line by a full disk: the marker of DOOM2 may be left as that of DOOM,
  which then counts as registered, and whose removal takes the line behind it.
- "Tries each URL ... until one succeeds" (`fetch.h:93`): a size mismatch ends the call with
  fallbacks left (`fetch.c:273`).
- A block of AUTOEXEC.BAT that lost its end marker makes the next removal drop the user's
  lines to the end of the file or the next block (`npkg.c:137`).
- "downloads the package index if not cached" (`NPKG.TXT:71`): `ensure_index` (`npkg.c:81`) only
  says to run UPDATE.
- REMOVE passes `%INSTALLDIR%` to DELTREE unexpanded (`npkg.c:438` against
  `packages/README.md:326`): the files stay. For packages that spell the directory out they
  go if DELTREE is there and does its work: REMOVE never learns whether it did and drops the
  registration all the same. `RemoveLeavesNothing` speaks of the three text files only.
- A full registry: INSTALL warns and ends well with files, block and menu entry in place
  (`npkg.c:381`), and REMOVE then refuses the package.
- `fetch.c:231` ignores `remove`: where it fails and HTGET writes nothing, the archive of an
  earlier run is extracted (`OkMeansFreshArchive` exempts it).

Interrupts and games
- THROTTLE, NOSLPT and NOSCLIP are `.COM` files that start with their signature text and
  have no jump to `init` before it: the models hold from the point at which `init` has run.
- THROTTLE `/U` compares the vector with the segment of the program just loaded
  (`throttle.asm:228-234`) and so never removes anything, against `COMMANDS.TXT:79`; `/S` prints
  the level of that program and not the resident one (277-284). NOSLPT and NOSCLIP have the
  same `/U`.
- Nothing clamps presets 2 to 4 (`tctl.c:236-244`): above a count of 72817 they wrap. CALIBRATE
  under a throttled level measures a reduced count, and undoes a key pressed meanwhile.
- NOSPLAY sets variables in a child shell that ends with the call (`nosplay.c:109-131` against
  `GAMES.TXT:91`). A profile with OFF leaves an earlier throttle on, level and directory are not
  restored, and a memory profile takes effect only after a reboot.

Printing
- `FILE_PATH_D1` misses the 0100h of a `.COM` file (`noslpt.asm:49-51`): the digits land in the
  buffer and every page goes to PRINT000.PRN. The character that found the buffer full is
  stored from a register that the flush has used (94).
- A create that fails keeps the buffer at a form feed and loses it when full, where the
  comment at 129 says discard.
- `watch_print.py` keeps the names it has handled (99) and never handles a new file under an
  old number, where `BRIDGE.TXT:104` says that it watches for new files. It notes a name before
  it handles the file, so that what was added to a partial file is never read, and dies of a
  file that vanishes before `stat`.

Start-up
- The generated AUTOEXEC.BAT no longer starts DETECT: power lost between AUTOEXEC.BAT and
  NOS-HW.CFG, or a guard that cannot be written, and detection never runs again by itself;
  between NOS-HW.CFG and MTCP.CFG, and there is no MTCP.CFG for ever.
- NOS-HW.CFG that survives a refused FORMAT makes DETECT skip the first boot; hence "formatted"
  in `GuardMeansConfigured`. "Re-run to reconfigure: DETECT" (`COMMANDS.TXT:106-108`) needs `/FORCE`.
- DETECT `/FORCE` generates AUTOEXEC.BAT anew and drops NPKG's blocks, and leaves PROFILE.DAT to
  tell the old profile. AUTOEXEC.BAT is written while COMMAND.COM executes it.
- A WELCOMED flag that is read-only survives a refused FORMAT and both `remove` calls
  (`install.c:731`, `detect.c:331`): no welcome then. `WelcomeOnFirstBoot` exempts it. A power
  failure that tears NOS-HW.CFG or the files before it leaves a guard that says configured:
  `GuardMeansConfigured` counts a torn file as DETECT's own.
- The installer reports success though files failed (`install.c:588`), counts a file whose read
  failed as copied (519-527), and leaves out directories beyond `MAX_SUBDIRS`.

Shell
- F4 shows the bytes of the buffer in which the line index has already put a NUL for
  each line end (`viewer.c:61-64`, 144): every CR LF of the file reads 00 00.
- A copy whose write comes up short is not noticed, and a move across drives then removes the
  source; a move to a name that exists on the same drive overwrites it without asking.
- The input field cuts a long proposed destination (`dialog.c:155-159`). "Copy file/directory"
  (`COMMANDS.TXT:10`) does not copy directories (`shell.c:296`); F1, F4 and Ins of that list are
  dispatched nowhere. Panels are not read again after F12 or the launcher. On an empty panel
  the cursor ends at -1.
