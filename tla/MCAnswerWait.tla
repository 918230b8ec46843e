----------------------------- MODULE MCAnswerWait -----------------------------
(***************************************************************************)
(* Scripts of pwl_fwupdate for TLC.  A query is sent at most limit times   *)
(* (PWL_FW_UPDATE_RETRY_LIMIT is 3; the JP FCC configuration, once).       *)
(***************************************************************************)
EXTENDS AnswerWait

DirectQuery(cid, limit, fresh, ends) ==
    [cid |-> cid, helper |-> FALSE, limit |-> limit, fresh |-> fresh, again |-> FALSE,
     ends |-> ends]
HelperQuery(cid, limit, again, ends) ==
    [cid |-> cid, helper |-> TRUE, limit |-> limit, fresh |-> TRUE, again |-> again,
     ends |-> ends]

\* start_update_process_pcie: the carrier, then get_current_fw_version, which has one
\* retry counter for all versions (two of the five) and ends with
\* get_esim_enable_state.
PcieScript(limit) ==
    <<DirectQuery("CARRIER_ID", limit, TRUE, "never"),
      DirectQuery("AP_VER", limit, TRUE, "empty"),
      DirectQuery("MD_VER", limit, FALSE, "empty"),
      HelperQuery("ESIM_STATE", limit, FALSE, "never")>>

\* start_update_process: the version, the JP FCC configuration, the version again,
\* get_oem_pri_version.
UsbScript(limit) ==
    <<DirectQuery("AP_VER", 1, TRUE, "never"),
      HelperQuery("JP_FCC_CONFIG", 1, FALSE, "never"),
      DirectQuery("AP_VER", 1, TRUE, "both"),
      HelperQuery("OEM_PRI_VER", limit, TRUE, "exhausted")>>

\* One thread of either process, and the two threads of the PCIE process.
PwlFwupdate ==
    {[main |-> PcieScript(2), package |-> <<>>], [main |-> UsbScript(2), package |-> <<>>],
     [main |-> PcieScript(1), package |-> PcieScript(1)]}
===============================================================================
