------------------------------ MODULE MbimSession ------------------------------
(***************************************************************************)
(* The MBIM session of pwl_core: how it is opened, lost and opened again,  *)
(* and the D-Bus signals about the SIM that come out of it.                *)
(*                                                                         *)
(* One chain of steps keeps the session: mbim_device_thread looks for the  *)
(* port, libmbim creates the device object (device_new_cb) and opens it    *)
(* (device_open_cb); every failure, an error of the open device and its    *)
(* removal start a new mbim_device_thread.  The module indicates the state *)
(* of its SIM only to an open session.  A signal that is emitted before    *)
(* the bus is acquired reaches nobody.                                     *)
(***************************************************************************)
EXTENDS Naturals, Sequences

CONSTANTS
    Sims,          \* the SIM cards there are, each of a carrier of its own
    NoSim,         \* the slot is empty
    MaxFaults,     \* bound: failures, errors, timeouts and restarts
    MaxEvents      \* bound, by the type of the module: faults and changes of the SIM

Types == {"USB", "PCIE"}

ASSUME SessionAssumption ==
    /\ NoSim \notin Sims
    /\ MaxFaults \in Nat
    /\ MaxEvents \in [Types -> Nat]

VARIABLES
    type,       \* of the module
    bus,        \* bus_acquired_hdl has run: gp_skeleton is there
    session,    \* where the chain is
    port,       \* the module shows its MBIM port
    sim,        \* the SIM in the module
    indicated,  \* the module has indicated the state of its SIM
    faults, events,
    signals,    \* the D-Bus signals pwl_pref has not handled, oldest first
    missed      \* history: a signal about the SIM got lost, and no later one came

device == <<type, bus, session, port, sim, indicated>>
session_vars == <<device, signals, missed>>

Event == events < MaxEvents[type] /\ events' = events + 1
Fault == Event /\ faults < MaxFaults /\ faults' = faults + 1
counters == <<faults, events>>

\* "none" would be a session that nobody works on any more.
Chain   == {"scan", "creating", "opening", "open", "none"}
Signals == {"get_fw_version", "initialized", "not_inserted", "unknown"}

SessionInit ==
    /\ type \in Types
    /\ bus = FALSE
    /\ session = "scan"
    /\ port = TRUE
    /\ sim \in Sims \cup {NoSim}
    /\ indicated = FALSE
    /\ faults = 0 /\ events = 0
    /\ signals = <<>>
    /\ missed = FALSE

\* pwl_core_emit_subscriber_ready_state_change: into the void without a skeleton.
EmitSimState(state) ==
    /\ signals' = IF bus THEN Append(signals, state) ELSE signals
    /\ missed' = IF bus THEN missed /\ state # "initialized" ELSE TRUE

BusAcquired ==
    /\ ~bus
    /\ bus' = TRUE
    /\ UNCHANGED <<type, session, port, sim, indicated, counters, signals, missed>>

\* mbim_device_thread: mbim_dbus_init finds the port, or tries again in 5 seconds.
FindPort ==
    /\ session = "scan"
    /\ port
    /\ session' = "creating"
    /\ UNCHANGED <<type, bus, port, sim, indicated, counters, signals, missed>>

\* device_new_cb and device_open_cb with a result.
DeviceCreated ==
    /\ session = "creating"
    /\ session' = "opening"
    /\ UNCHANGED <<type, bus, port, sim, indicated, counters, signals, missed>>

DeviceOpened ==
    /\ session = "opening"
    /\ port
    /\ session' = "open"
    /\ UNCHANGED <<type, bus, port, sim, indicated, counters, signals, missed>>

\* Both callbacks with an error, and mbim_device_error_cb: a new mbim_device_thread.
\* Without the port libmbim cannot open the device; otherwise it is a failure.
ForgottenDeviceFailed ==        \* mutated form: an open that fails starts no thread
    /\ session \in {"creating", "opening", "open"}
    /\ \/ ~port /\ session # "open" /\ UNCHANGED counters
       \/ Fault
    /\ session' = IF session = "opening" THEN "none" ELSE "scan"
    /\ UNCHANGED <<type, bus, port, sim, indicated, signals, missed>>

DeviceFailed ==
    /\ session \in {"creating", "opening", "open"}
    /\ \/ ~port /\ session # "open" /\ UNCHANGED counters
       \/ Fault
    /\ session' = "scan"
    /\ UNCHANGED <<type, bus, port, sim, indicated, signals, missed>>

\* mbim_device_removed_cb: pwl_pref is told that there is no SIM.
DeviceRemoved ==
    /\ session = "open"
    /\ ~port
    /\ EmitSimState("not_inserted")
    /\ session' = "scan"
    /\ UNCHANGED <<type, bus, port, sim, indicated, counters>>

\* subscriber_ready_status_update: an indication of the open session; states that
\* are neither (a locked or a bad SIM) go out as unknown before the final one.
Indication(state) ==
    /\ session = "open"
    /\ port
    /\ ~indicated
    /\ \/ /\ state = (IF sim \in Sims THEN "initialized" ELSE "not_inserted")
          /\ indicated' = TRUE
          /\ UNCHANGED counters
       \/ /\ state = "unknown"
          /\ Fault
          /\ UNCHANGED indicated
    /\ EmitSimState(state)
    /\ UNCHANGED <<type, bus, session, port, sim>>

-------------------------------------------------------------------------------
(* The module (external).                                                   *)

\* A SIM is taken out or put in; the module will indicate it.
SwapSim ==
    /\ Event
    /\ sim' \in IF sim = NoSim THEN Sims ELSE {NoSim}
    /\ indicated' = FALSE
    /\ UNCHANGED <<type, bus, session, port, faults, signals, missed>>

\* A reset: the port goes, and the SIM is set up anew when the module is back.
ModuleResets ==
    /\ port' = FALSE
    /\ indicated' = FALSE

PortReturns ==
    /\ ~port
    /\ session # "open"
    /\ port' = TRUE
    /\ UNCHANGED <<type, bus, session, sim, indicated, counters, signals, missed>>

SessionStep ==
    \/ BusAcquired
    \/ FindPort
    \/ DeviceCreated
    \/ DeviceOpened
    \/ DeviceFailed
    \/ DeviceRemoved
    \/ \E state \in Signals : Indication(state)
    \/ PortReturns

\* The part of the session in the type invariant of SimCarrier.
SessionTypeOK ==
    /\ {bus, port, indicated, missed} \subseteq BOOLEAN
    /\ session \in Chain
    /\ sim \in Sims \cup {NoSim}
    /\ type \in Types
    /\ faults \in 0..MaxFaults
    /\ events \in 0..MaxEvents[type]
    /\ signals \in Seq(Signals)
================================================================================
