----------------------------- MODULE MCUsbUpdate ------------------------------
(***************************************************************************)
(* Instances of UsbUpdate for TLC.                                         *)
(***************************************************************************)
EXTENDS UsbUpdate

Answers == {"gone", "there", "none"}

\* The update at startup and its retries, while only the download fails and a wait may
\* time out.
Retries ==
    [threads |-> {"main", "retry"}, gpio |-> {TRUE}, efs |-> {FALSE}, fails |-> {FALSE},
     late |-> BOOLEAN, profile |-> Answers, packages |-> 0, crashes |-> 0]

\* A package arrives while main is at work: with a test profile that stays, and with
\* waits that time out.
BothRemove ==
    [threads |-> {"main", "package"}, gpio |-> {TRUE}, efs |-> {FALSE}, fails |-> {FALSE},
     late |-> {FALSE}, profile |-> {"there"}, packages |-> 1, crashes |-> 0]
BothWait ==
    [threads |-> {"main", "package"}, gpio |-> {TRUE}, efs |-> {FALSE}, fails |-> {FALSE},
     late |-> BOOLEAN, profile |-> {"gone"}, packages |-> 1, crashes |-> 0]

\* One of the services crashes somewhere in an update or in an EFS recovery.
WithCrash ==
    [threads |-> {"main"}, gpio |-> BOOLEAN, efs |-> BOOLEAN, fails |-> BOOLEAN,
     late |-> {FALSE}, profile |-> Answers, packages |-> 0, crashes |-> 1]

AllScenarios == {Retries, BothRemove, BothWait, WithCrash}
===============================================================================
