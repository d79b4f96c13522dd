CONSTANTS
    Root = "INSTALL"
    Entries <- MCEntries
    MAX_SUBDIRS = 2
    Others = {"WELCOMED", "NOS-HW.CFG", "MTCP.CFG", "PROFILE.DAT"}
    Profiles = {"STD", "EMS"}
    MaxTroubles = 2
    Blocked <- MCBlocked
SPECIFICATION Spec
INVARIANTS
    EveryFileOnce
    WelcomeOnFirstBoot
    GuardMeansConfigured
    NoRebootLoop
    FirstBootConfigured
    WelcomeStays
    ProfileMatches
