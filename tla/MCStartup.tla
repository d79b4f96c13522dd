----------------------------- MODULE MCStartup ------------------------------
(* A disc of three directories below the root, one more than copy_tree can  *)
(* remember: DOCS is left out.                                               *)
EXTENDS Startup

MCEntries ==
    [d \in {"INSTALL", "SYSTEM", "SHELL", "DOCS"} |->
        CASE d = "INSTALL" -> <<"CONFIG.SYS", "SYSTEM", "SHELL", "DOCS", "AUTOEXEC.BAT">>
          [] d = "SYSTEM" -> <<"DETECT.EXE", "CONFIG.TPL", "AUTOEXEC.TPL", "NOSMEM.EXE">>
          [] d = "SHELL" -> <<"SHELL.EXE">>
          [] d = "DOCS" -> <<"HELP.TXT">>]

MCBlocked == {{}, {"PROFILE.DAT"}, {"AUTOEXEC.BAT", "NOS-HW.CFG"}, {"WELCOMED"}}
==============================================================================
