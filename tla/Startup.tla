------------------------------ MODULE Startup ------------------------------
(***************************************************************************)
(* From the power switch to the shell: NOS-INSTALL (module Install) from    *)
(* the disc, then what COMMAND.COM starts from C:\AUTOEXEC.BAT: NOS-DETECT  *)
(* (src/detect) on the first boot, SHELL.EXE with its welcome, and from the *)
(* prompt NOS-DETECT and NOSMEM (src/mem) again.  They know each other only *)
(* by the files of C:, and the power may go at any step.                    *)
(***************************************************************************)
EXTENDS Install

CONSTANTS Profiles,     \* those NOSMEM can switch to
          Blocked       \* the sets of files that may be blocked

ASSUME StartupAssumption ==
    /\ {"DETECT.EXE", "CONFIG.TPL", "AUTOEXEC.TPL", "SHELL.EXE", "NOSMEM.EXE"} \subseteq TreeFiles
    /\ {"NOS-HW.CFG", "MTCP.CFG", "PROFILE.DAT"} \subseteq Others
    /\ Blocked \subseteq SUBSET File
    /\ Profiles \cap {"none", "torn", "boot", "gen", "set"} = {}
    \* copy_tree comes to what the first boot needs: no directory on the way
    \* there is beyond MAX_SUBDIRS
    /\ \A V \in SUBSET Dirs :
          Root \in V /\ (\A d \in V : Remembered(d) \subseteq V)
            => {"DETECT.EXE", "CONFIG.TPL", "AUTOEXEC.TPL", "SHELL.EXE"}
                  \subseteq UNION {ToSet(Entries[d]) : d \in V}

VARIABLES mode,     \* what runs: see Modes
          call,     \* the command: its options, and who goes on after it
          buffered, \* a key waits in the BIOS buffer
          fresh,    \* history: installed, and the welcome not yet left
          loops     \* history: reboots in a row by a DETECT the user did not call

vars == <<installVars, blocked, mode, call, buffered, fresh, loops>>

NoCall == [noreboot |-> FALSE, back |-> "prompt", target |-> "none"]

Exists(f) == disk[f] # "none"
Intact(f) == disk[f] = "boot"

(* Where the power must not go: between two steps that write.               *)
Copying == {"COPY", "FLAG", "CONFIG", "AUTOEXEC"}
Writing == {"config", "autoexec", "hwcfg", "mtcp", "flag", "mem_config", "mem_profile"}

(* The installer but for the disk and what it knows of its writes.          *)
Rest == <<step, frames, dta, g_files_done, tried, visited, wiped>>

------------------------------------------------------------------------------
(* The machine.                                                             *)
BootDisc ==
    /\ mode \in {"off", "reset"} /\ mode' = "install"
    /\ Memory("WELCOME")
    /\ loops' = 0
    /\ UNCHANGED <<disk, wiped, troubles, call, buffered, fresh>>

Installing ==
    /\ mode = "install" /\ InstallNext
    /\ mode' = IF step' = "exit" THEN "off" ELSE mode
    /\ fresh' = ((fresh /\ step' # "COPY") \/ step' = "DONE")
    /\ UNCHANGED <<call, buffered, loops>>

PowerCut ==
    /\ mode # "off" /\ mode' = "off"
    /\ Memory("exit")
    /\ IF step \in Copying \/ mode \in Writing THEN Trouble ELSE UNCHANGED troubles
    /\ call' = NoCall /\ buffered' = FALSE /\ loops' = 0
    /\ UNCHANGED <<disk, wiped, fresh>>

(* A key that nobody waits for.                                             *)
KeyTyped ==
    /\ mode \in {"reset", "batch", "detect", "mem_config"} /\ ~ buffered /\ buffered' = TRUE
    /\ UNCHANGED <<installVars, mode, call, fresh, loops>>

(* mutant: the welcome takes what the buffer holds *)
StartShellNoFlush ==
    /\ Intact("SHELL.EXE")
    /\ mode' = IF Exists("WELCOMED") THEN "shell" ELSE "welcome"
    /\ UNCHANGED buffered
    /\ call' = NoCall

(* SHELL.EXE: the welcome is for who has no flag, and drops the keys typed  *)
(* before it.                                                               *)
StartShell ==
    /\ Intact("SHELL.EXE")
    /\ IF Exists("WELCOMED")
       THEN mode' = "shell" /\ UNCHANGED buffered
       ELSE mode' = "welcome" /\ buffered' = FALSE
    /\ call' = NoCall

(* COMMAND.COM reads AUTOEXEC.BAT: that of the disc starts DETECT and then  *)
(* the shell, the generated one only the shell; one cut short, any of them. *)
BootDisk ==
    /\ mode \in {"off", "reset"}
    /\ loops' = IF mode = "off" THEN 0 ELSE loops
    /\ LET bat == disk["AUTOEXEC.BAT"]
       IN  \/ /\ bat \in {"boot", "torn"} /\ Intact("DETECT.EXE")
              /\ mode' = "detect" /\ call' = [NoCall EXCEPT !.back = "batch"]
              /\ UNCHANGED buffered
           \/ /\ bat \in {"gen", "torn"} \/ ~ Intact("DETECT.EXE")
              /\ bat # "none"
              /\ mode' = "batch" /\ UNCHANGED <<call, buffered>>
           \/ /\ bat \in {"none", "torn"}
              /\ mode' = "prompt" /\ UNCHANGED <<call, buffered>>
    /\ UNCHANGED <<installVars, fresh>>

(* The line after DETECT.  COMMAND.COM reads it at the offset where it left *)
(* the file, which DETECT may have written anew.                            *)
BatchGoesOn ==
    /\ mode = "batch"
    /\ \/ StartShell
       \/ /\ ~ Intact("SHELL.EXE") \/ (call.back = "batch" /\ disk["AUTOEXEC.BAT"] # "boot")
          /\ mode' = "prompt" /\ call' = NoCall /\ UNCHANGED buffered
    /\ UNCHANGED <<installVars, fresh, loops>>

(* nos_welcome_mark_shown, which passes over an error.                      *)
WelcomeLeft ==
    /\ mode = "welcome" /\ mode' = "shell"
    /\ fresh' = FALSE
    /\ Written("WELCOMED", "set") \/ Unopened("WELCOMED")
    /\ UNCHANGED <<Rest, call, buffered, loops>>

ShellLeft ==
    /\ mode = "shell" /\ mode' = "prompt" /\ buffered' = FALSE
    /\ UNCHANGED <<installVars, call, fresh, loops>>

------------------------------------------------------------------------------
(* A command at the prompt: the shell, DETECT or NOSMEM.                    *)
Typed ==
    /\ mode = "prompt"
    /\ \/ StartShell
       \/ \E noreboot, force \in BOOLEAN :
             /\ Intact("DETECT.EXE")
             /\ mode' = IF force THEN "config" ELSE "detect"
             /\ call' = [NoCall EXCEPT !.noreboot = noreboot] /\ UNCHANGED buffered
       \/ \E noreboot \in BOOLEAN, p \in Profiles :
             /\ Intact("NOSMEM.EXE")
             /\ mode' = "mem_config"
             /\ call' = [NoCall EXCEPT !.noreboot = noreboot, !.target = p] /\ UNCHANGED buffered
    /\ loops' = 0
    /\ UNCHANGED <<installVars, fresh>>

(* mutant: a CONFIG.SYS counts as a configuration too *)
AnyConfigExists ==
    /\ mode = "detect"
    /\ mode' = IF Exists("NOS-HW.CFG") \/ Exists("CONFIG.SYS") THEN call.back ELSE "config"
    /\ UNCHANGED <<installVars, call, buffered, fresh, loops>>

(* DETECT without /FORCE: the guard of the first boot.                      *)
hwcfg_exists ==
    /\ mode = "detect"
    /\ mode' = IF Exists("NOS-HW.CFG") THEN call.back ELSE "config"
    /\ UNCHANGED <<installVars, call, buffered, fresh, loops>>

(* nos_genconf: a file from its template; what cannot be opened ends DETECT.*)
Generated(now, tpl, f, then) ==
    /\ mode = now
    /\ \/ Exists(tpl) /\ Written(f, IF Intact(tpl) THEN "gen" ELSE "torn") /\ mode' = then
       \/ Exists(tpl) /\ Unopened(f) /\ mode' = call.back
       \/ ~ Exists(tpl) /\ UNCHANGED <<disk, troubles>> /\ mode' = call.back
    /\ UNCHANGED <<Rest, call, buffered, fresh, loops>>

write_hwcfg(then) ==
    /\ mode = "hwcfg"
    /\ \/ Written("NOS-HW.CFG", "gen") /\ mode' = then
       \/ Unopened("NOS-HW.CFG") /\ mode' = call.back
    /\ UNCHANGED <<Rest, call, buffered, fresh, loops>>

(* With a packet driver only, and errors are passed over.                   *)
write_mtcpcfg ==
    /\ mode = "mtcp"
    /\ mode' = IF call.noreboot THEN call.back ELSE "flag"
    /\ Written("MTCP.CFG", "gen") \/ UNCHANGED <<disk, troubles>>
    /\ UNCHANGED <<Rest, call, buffered, fresh, loops>>

RemoveWelcomed ==
    /\ mode = "flag" /\ mode' = "key"
    /\ Removed("WELCOMED")
    /\ UNCHANGED <<Rest, troubles, call, buffered, fresh, loops>>

(* wait_key, then reboot, which in DETECT empties the buffer; of what waits  *)
(* in it when NOSMEM asks, at least one key is taken.                        *)
Reboot ==
    /\ mode \in {"key", "mem_key"} /\ mode' = "reset"
    /\ buffered' \in (IF mode = "key" THEN {FALSE} ELSE {FALSE, buffered})
    /\ loops' = IF call.back # "batch" THEN 0 ELSE IF loops < 2 THEN loops + 1 ELSE loops
    /\ call' = NoCall
    /\ UNCHANGED <<installVars, fresh>>

(* mutant: the guard is written before AUTOEXEC.BAT *)
GuardTooEarly ==
    \/ Generated("config", "CONFIG.TPL", "CONFIG.SYS", "hwcfg")
    \/ write_hwcfg("autoexec")
    \/ Generated("autoexec", "AUTOEXEC.TPL", "AUTOEXEC.BAT", "mtcp")

(* mutant: what cannot be opened is passed over *)
GoesOn ==
    \/ /\ mode = "config" /\ mode' = "autoexec"
       /\ Written("CONFIG.SYS", "gen") \/ Unopened("CONFIG.SYS")
       /\ UNCHANGED <<Rest, call, buffered, fresh, loops>>
    \/ /\ mode = "autoexec" /\ mode' = "hwcfg"
       /\ Written("AUTOEXEC.BAT", "gen") \/ Unopened("AUTOEXEC.BAT")
       /\ UNCHANGED <<Rest, call, buffered, fresh, loops>>
    \/ /\ mode = "hwcfg" /\ mode' = "mtcp"
       /\ Written("NOS-HW.CFG", "gen") \/ Unopened("NOS-HW.CFG")
       /\ UNCHANGED <<Rest, call, buffered, fresh, loops>>

(* nos_genconf: the guard of the next boot is written after what it guards. *)
nos_genconf ==
    \/ Generated("config", "CONFIG.TPL", "CONFIG.SYS", "autoexec")
    \/ Generated("autoexec", "AUTOEXEC.TPL", "AUTOEXEC.BAT", "hwcfg")
    \/ write_hwcfg("mtcp")

------------------------------------------------------------------------------
(* NOSMEM: CONFIG.SYS, then PROFILE.DAT, whose failure is a warning.        *)
write_config_sys ==
    /\ mode = "mem_config"
    /\ \/ Written("CONFIG.SYS", call.target) /\ mode' = "mem_profile"
       \/ Unopened("CONFIG.SYS") /\ mode' = call.back
    /\ UNCHANGED <<Rest, call, buffered, fresh, loops>>

(* mutant: with /NOREBOOT the profile is not recorded *)
ProfileOnlyForReboot ==
    /\ mode = "mem_profile"
    /\ \/ call.noreboot /\ UNCHANGED <<disk, troubles>>
       \/ ~ call.noreboot /\ (Written("PROFILE.DAT", call.target) \/ Unopened("PROFILE.DAT"))
    /\ mode' = IF call.noreboot THEN call.back ELSE "mem_key"
    /\ UNCHANGED <<Rest, call, buffered, fresh, loops>>

write_profile ==
    /\ mode = "mem_profile"
    /\ Written("PROFILE.DAT", call.target) \/ Unopened("PROFILE.DAT")
    /\ mode' = IF call.noreboot THEN call.back ELSE "mem_key"
    /\ UNCHANGED <<Rest, call, buffered, fresh, loops>>

Moves ==
    \/ BootDisc \/ Installing \/ PowerCut \/ KeyTyped
    \/ BootDisk \/ BatchGoesOn \/ WelcomeLeft \/ ShellLeft \/ Typed
    \/ hwcfg_exists \/ nos_genconf \/ write_mtcpcfg \/ RemoveWelcomed
    \/ write_config_sys \/ write_profile \/ Reboot

Next == Moves /\ UNCHANGED blocked

(* C: is blank, was just installed, or holds an installation in use.        *)
Installed == [f \in File |-> IF f \in TreeFiles THEN "boot" ELSE "none"]
InUse == [f \in File |-> CASE f \in {"CONFIG.SYS", "AUTOEXEC.BAT", "NOS-HW.CFG"} -> "gen"
                           [] f = "WELCOMED" -> "set"
                           [] f \in {"PROFILE.DAT", "MTCP.CFG"} -> "none"
                           [] OTHER -> "boot"]

Init ==
    /\ \E d \in {Blank, Installed, InUse} : InstallInit(d)
    /\ mode = "off" /\ call = NoCall /\ buffered = FALSE
    /\ fresh = FALSE /\ loops = 0
    /\ blocked \in Blocked

Spec == Init /\ [][Next]_vars

------------------------------------------------------------------------------
Modes == {"off", "install", "detect", "config", "autoexec", "hwcfg", "mtcp", "flag",
          "key", "mem_config", "mem_profile", "mem_key", "reset", "batch", "welcome",
          "shell", "prompt"}
Contents == {"none", "torn", "boot", "gen", "set"} \cup Profiles

(* Nothing went wrong since the FORMAT.                                     *)
AllWell == troubles = 0 /\ blocked = {}

(* Type invariant.                                                          *)
TypeOK ==
    /\ InstallTypeOK
    /\ disk \in [File -> Contents]
    /\ mode \in Modes
    /\ call \in [noreboot : BOOLEAN, back : {"prompt", "batch"}, target : Profiles \cup {"none"}]
    /\ buffered \in BOOLEAN /\ fresh \in BOOLEAN /\ loops \in 0 .. 2

(* The flag that an earlier installation left behind does not hide the      *)
(* welcome (install.c 728-731, detect.c 328-331): once the installer has    *)
(* got through, the shell is not entered before the welcome was shown,      *)
(* unless FORMAT was refused and the old flag is read-only, so that neither *)
(* remove() takes it away.                                                  *)
WelcomeOnFirstBoot == fresh /\ (wiped \/ "WELCOMED" \notin blocked) => mode # "shell"

(* The guard of the first boot (detect.c 233): after an installation on a   *)
(* formatted drive, wherever the power went, NOS-HW.CFG, which keeps DETECT *)
(* from running again, is there only if CONFIG.SYS and AUTOEXEC.BAT are no  *)
(* longer those of the disc.  A file cut short counts as DETECT's: DETECT   *)
(* looks at no write, and writes the guard over a torn AUTOEXEC.BAT too.    *)
GuardMeansConfigured ==
    wiped /\ Exists("NOS-HW.CFG") =>
        disk["CONFIG.SYS"] \notin {"none", "boot"} /\ disk["AUTOEXEC.BAT"] \notin {"none", "boot"}

(* DETECT is started by the AUTOEXEC.BAT of the disc and reboots: whatever  *)
(* goes wrong with its files, the machine that boots does not go round.     *)
NoRebootLoop == loops <= 1

(* After an installation on a formatted drive in which nothing went wrong,  *)
(* the first thing the user sees of the shell, the welcome, stands on files *)
(* that DETECT has generated.                                               *)
FirstBootConfigured ==
    fresh /\ wiped /\ AllWell /\ mode = "welcome" =>
        \A f \in {"CONFIG.SYS", "AUTOEXEC.BAT", "NOS-HW.CFG"} : disk[f] = "gen"

(* Keys typed while the machine started, and those left from before a warm  *)
(* reboot (welcome.c 117-128), do not leave the welcome: it waits for one   *)
(* of its own.                                                              *)
WelcomeStays == mode = "welcome" => ~ buffered

(* nosmem.c 349-357: PROFILE.DAT and CONFIG.SYS do not name two profiles,   *)
(* unless NOSMEM is between the two writes or one of them went wrong.       *)
ProfileMatches ==
    /\ TypeOK
    /\ mode # "mem_profile" /\ AllWell
        /\ {disk["PROFILE.DAT"], disk["CONFIG.SYS"]} \subseteq Profiles
          => disk["PROFILE.DAT"] = disk["CONFIG.SYS"]
==============================================================================
