------------------------------ MODULE StatusFile ------------------------------
(***************************************************************************)
(* The key=value records that pwl_core, pwl_madpt and pwl_fwupdate keep    *)
(* under /opt/pwl (fw_update_status, bootup_status).                       *)
(*                                                                         *)
(* A record is a function from the keys that have a line in the file to    *)
(* their values: an absent key has no line.  The setters of common.c read  *)
(* the whole file, replace the line of one key, and write the result back  *)
(* with fopen(.., "w"), which truncates the file first.  They never add a  *)
(* line, so a key whose line was lost cannot come back through them.       *)
(***************************************************************************)
EXTENDS Naturals

\* The file as fopen(path, "w") leaves it: it exists and has no line.
EmptyRecord == [k \in {} |-> 0]

\* What the initialiser writes into a file that did not exist: every key 0.
FreshRecord(Keys) == [k \in Keys |-> 0]

\* The new content that a setter computes from the content it has read.
Rewrite(record, key, value) ==
    [k \in DOMAIN record |-> IF k = key THEN value ELSE record[k]]

HasLine(record, key) == key \in DOMAIN record

===============================================================================
