----------------------------- MODULE MCPcieUpdate -----------------------------
(***************************************************************************)
(* Instances of PcieUpdate for TLC.                                        *)
(***************************************************************************)
EXTENDS PcieUpdate

CONSTANTS ap, md

FirmwareOnly == {{"fw"}}
WithFirmware == {{"fw"}, {"fw", "dev"}}

\* A package and a notice put both threads into the update.
BothThreads ==
    [threads |-> {"package", "main"}, images |-> <<ap>>, kinds |-> FirmwareOnly,
     lost |-> {}, carrier |-> FALSE,
     packages |-> 1, notices |-> 1, restarts |-> 0, readings |-> 0]

\* The main loop alone: an update starts from what one of another package left, ...
TwoPackages ==
    [threads |-> {"main"}, images |-> <<ap>>, kinds |-> WithFirmware,
     lost |-> {}, carrier |-> FALSE,
     packages |-> 2, notices |-> 2, restarts |-> 0, readings |-> 0]

\* ... or from what a restart left of one with several images, one missing, ...
WithRestart ==
    [threads |-> {"main"}, images |-> <<ap, md>>, kinds |-> FirmwareOnly,
     lost |-> {md}, carrier |-> FALSE,
     packages |-> 1, notices |-> 2, restarts |-> 1, readings |-> 0]

\* ... or pwl_pref reads the versions again while an update goes on.
WithReadings ==
    [threads |-> {"main"}, images |-> <<ap>>, kinds |-> FirmwareOnly,
     lost |-> {}, carrier |-> TRUE,
     packages |-> 1, notices |-> 2, restarts |-> 0, readings |-> 2]

\* Descriptions are missing: the list is incomplete or the table is.
WithLoss ==
    [threads |-> {"main"}, images |-> <<ap>>, kinds |-> {{"fw", "dev"}},
     lost |-> {"map", "info", "scatter"}, carrier |-> TRUE,
     packages |-> 1, notices |-> 1, restarts |-> 0, readings |-> 0]

AllScenarios == {BothThreads, TwoPackages, WithRestart, WithReadings, WithLoss}

\* For the runs that look for one behaviour.
BothThreadsOnly == {[BothThreads EXCEPT !.kinds = WithFirmware]}
MainOnly == {[TwoPackages EXCEPT !.packages = 1, !.notices = 1]}
===============================================================================
