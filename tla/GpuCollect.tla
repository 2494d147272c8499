----------------------------- MODULE GpuCollect -----------------------------
(***************************************************************************)
(* Collecting a token on a machine whose GPUs and NVSwitches may be         *)
(* replaced, re-enumerated, reset and reconfigured meanwhile:               *)
(* NvmlCollector (v2/src/gpu/nvml.rs), NscqCollector (v2/src/gpu/nscq.rs)   *)
(* and AttestationCollector::collect (v2/src/attestation.rs), which reads   *)
(* the GPUs, then the switches, and has the CPU sign what it gathered.      *)
(*                                                                          *)
(* The machine changes between the steps.  A step is one driver call, or a  *)
(* few in a row whose grouping loses no behaviour: the count and the        *)
(* driver's state (CollectStart, Recount) are different parts of the        *)
(* machine, whose changes in between could as well come before or after     *)
(* both; a handle and its device's UUID (DeviceOpen, Recheck), and the list *)
(* of switches and their architectures (Inventory, InventoryAgain), must    *)
(* agree, so a change in between is one of the failures.  A device that     *)
(* left does not come back during a collection; a reset gives it an         *)
(* attestation key it never had before.                                     *)
(***************************************************************************)
EXTENDS Naturals, Sequences, FiniteSets, SequencesExt

CONSTANTS
    Gpus, Switches,
    Protected,      \* GPUs whose signed mode is PPCIE
    Ls10,           \* switches of the supported architecture
    Plugged,        \* the enumerations a collection may start with
    MAX_GPUS,       \* 256
    MAX_SWITCHES,   \* 64
    MaxChanges,     \* bound on changes of the machine
    NoDevice        \* a zero or foreign UUID

ASSUME CollectAssumption ==
    /\ Protected \subseteq Gpus /\ Ls10 \subseteq Switches
    /\ Gpus \cap Switches = {} /\ NoDevice \notin Gpus \cup Switches
    /\ Plugged \subseteq Seq(Gpus)
    /\ \A s \in Plugged : \A i, j \in DOMAIN s : s[i] = s[j] => i = j
    /\ MAX_GPUS \in Nat /\ MAX_SWITCHES \in Nat /\ MaxChanges \in Nat

VARIABLES
    slots,     \* the GPUs by NVML index
    cc,        \* the driver's confidential-computing state
    fabric,    \* the switches NSCQ enumerates
    tnvl,      \* each switch's mode
    key,       \* generation of each device's attestation key
    gone,      \* devices that left
    changes,
    col,       \* the collection
    present    \* what was enumerated when the devices were counted again

machine == <<slots, cc, fabric, tnvl, key, gone, changes>>
collectVars == <<machine, col, present>>

Elems(s) == {s[i] : i \in DOMAIN s}

-----------------------------------------------------------------------------
(* The machine.                                                             *)

Change == changes < MaxChanges /\ changes' = changes + 1 /\ UNCHANGED <<col, present>>
Replace ==
    \E i \in DOMAIN slots, g \in Gpus \ (Elems(slots) \cup gone) :
       /\ slots' = [slots EXCEPT ![i] = g]
       /\ gone' = gone \cup {slots[i]}
       /\ UNCHANGED <<cc, fabric, tnvl, key>>
Unplug ==
    \E i \in DOMAIN slots :
       /\ slots' = RemoveAt(slots, i)
       /\ gone' = gone \cup {slots[i]}
       /\ UNCHANGED <<cc, fabric, tnvl, key>>
Add ==
    \E g \in Gpus \ (Elems(slots) \cup gone) :
       /\ slots' = Append(slots, g)
       /\ UNCHANGED <<cc, fabric, tnvl, key, gone>>
Reorder ==
    /\ slots' = Reverse(slots) /\ slots' # slots
    /\ UNCHANGED <<cc, fabric, tnvl, key, gone>>
Reset ==
    \E d \in Elems(slots) \cup fabric :
       /\ key' = [key EXCEPT ![d] = @ + 1]
       /\ UNCHANGED <<slots, cc, fabric, tnvl, gone>>
Toggle ==
    \/ cc' = 1 - cc /\ UNCHANGED <<slots, fabric, tnvl, key, gone>>
    \/ \E s \in fabric : /\ tnvl' = [tnvl EXCEPT ![s] = 1 - @]
                         /\ UNCHANGED <<slots, cc, fabric, key, gone>>
SwitchLeaves ==
    \E s \in fabric :
       /\ fabric' = fabric \ {s} /\ gone' = gone \cup {s}
       /\ UNCHANGED <<slots, cc, tnvl, key>>
MachineNext ==
    Change /\ (Replace \/ Unplug \/ Add \/ Reorder \/ Reset \/ Toggle \/ SwitchLeaves)

-----------------------------------------------------------------------------
(* NvmlCollector: collect, and status, which reads no evidence.             *)

Goto(pc) == col' = [col EXCEPT !.pc = pc]
Give == Goto("failed") /\ UNCHANGED <<machine, present>>

\* The count, the state and the driver's version, which nothing depends on.
CollectStart ==
    /\ col.pc = "start"
    /\ LET n == Len(slots) IN
       col' = IF n > MAX_GPUS \/ (n = 0 /\ col.what = "token")
              THEN [col EXCEPT !.pc = "failed"]
              ELSE [col EXCEPT !.pc = IF n = 0 THEN "recount" ELSE "device",
                               !.count = n, !.cc = cc]
    /\ UNCHANGED <<machine, present>>

\* The device of the next index, by handle, and its UUID.
Index == Len(col.gpus) + 1
Take(gpu) ==
    /\ \A i \in DOMAIN col.gpus : col.gpus[i].uuid # gpu.uuid
    /\ col' = [col EXCEPT !.gpus = Append(@, gpu), !.cur = NoDevice,
                          !.pc = IF Index = col.count THEN "recount" ELSE "device"]
DeviceOpen ==
    /\ col.pc = "device"
    /\ Index <= Len(slots)
    /\ IF col.what = "status"
       THEN Take([uuid |-> slots[Index], cert |-> 0, report |-> 0])
       ELSE col' = [col EXCEPT !.cur = slots[Index], !.pc = "certificate"]
    /\ UNCHANGED <<machine, present>>
DeviceCertificate ==
    /\ col.pc = "certificate" /\ col.cur \in Elems(slots)
    /\ col' = [col EXCEPT !.pc = "report", !.read = key[col.cur]]
    /\ UNCHANGED <<machine, present>>

\* A report for the caller's nonce; its UUID must be new.
collect_device ==
    /\ col.pc = "report" /\ col.cur \in Elems(slots)
    /\ Take([uuid |-> col.cur, cert |-> col.read, report |-> key[col.cur]])
    /\ UNCHANGED <<machine, present>>

Recount ==
    /\ col.pc = "recount"
    /\ Len(slots) = col.count /\ cc = col.cc
    /\ present' = Elems(slots)
    /\ col' = [col EXCEPT !.pc = IF col.count = 0 THEN "listed" ELSE "recheck", !.next = 1]
    /\ UNCHANGED machine

\* Broken: the enumeration is trusted to be as it was when the count is the same.
Recheck_count_only ==
    /\ col.pc = "recheck"
    /\ Goto("listed")
    /\ UNCHANGED <<machine, present>>

\* Each index must still have its UUID.
Recheck ==
    /\ col.pc = "recheck"
    /\ col.next <= Len(slots) /\ slots[col.next] = col.gpus[col.next].uuid
    /\ col' = [col EXCEPT !.next = @ + 1, !.pc = IF col.next = col.count THEN "listed" ELSE @]
    /\ UNCHANGED <<machine, present>>

\* Any driver call may fail, and each of the conditions above ends the collection.
NvmlFails ==
    /\ col.pc \in {"start", "device", "certificate", "report", "recount", "recheck"}
    /\ Give

-----------------------------------------------------------------------------
(* NscqCollector.                                                           *)

\* The callbacks of one observation: one per device, all successful, or with a
\* device that reports an error, is unknown, or is reported twice.
Calls(devices) ==
    LET good == SetToSeq({[dev |-> d, rc |-> 0] : d \in devices}) IN
    {good} \cup UNION {{[good EXCEPT ![i].rc = 1], [good EXCEPT ![i].dev = NoDevice],
                        Append(good, good[i])} : i \in DOMAIN good}

\* Capture: a failed callback is never forgotten; the devices are distinct,
\* within the limit and, for a device's own path, the one that was asked for.
Captured(calls, expected) ==
    /\ Len(calls) <= MAX_SWITCHES
    /\ \A i \in DOMAIN calls :
          /\ calls[i].rc = 0 /\ calls[i].dev # NoDevice
          /\ expected # NoDevice => calls[i].dev = expected
          /\ \A j \in DOMAIN calls : calls[j].dev = calls[i].dev => i = j
    /\ expected # NoDevice => Len(calls) = 1
Observed(devices, expected) == \E calls \in Calls(devices) : Captured(calls, expected)

Asked == IF col.cur \in fabric THEN {col.cur} ELSE {}
Inventory ==
    /\ col.pc = "switches"
    /\ Observed(fabric, NoDevice) /\ fabric # {} /\ fabric \subseteq Ls10
    /\ \E s \in fabric :
          col' = [col EXCEPT !.inventory = fabric, !.todo = fabric \ {s}, !.cur = s, !.pc = "mode"]
    /\ UNCHANGED <<machine, present>>
SwitchMode ==
    /\ col.pc = "mode" /\ Observed(Asked, col.cur)
    /\ col' = [col EXCEPT !.mode = tnvl[col.cur], !.pc = "chain"]
    /\ UNCHANGED <<machine, present>>
SwitchCertificate ==
    /\ col.pc = "chain" /\ Observed(Asked, col.cur)
    /\ col' = [col EXCEPT !.read = key[col.cur], !.pc = "quote"]
    /\ UNCHANGED <<machine, present>>
SwitchReport ==
    /\ col.pc = "quote" /\ Observed(Asked, col.cur)
    /\ col' = [col EXCEPT !.signed = key[col.cur], !.pc = "modeAgain"]
    /\ UNCHANGED <<machine, present>>
SwitchModeAgain ==
    /\ col.pc = "modeAgain" /\ Observed(Asked, col.cur)
    /\ tnvl[col.cur] = col.mode
    /\ Goto("chainAgain")
    /\ UNCHANGED <<machine, present>>

\* Broken: the chain is not read again after the report.
SwitchTaken_once ==
    /\ col.pc = "chainAgain" /\ Observed(Asked, col.cur)
    /\ \E pick \in IF col.todo = {} THEN {NoDevice} ELSE col.todo :
          col' = [col EXCEPT
              !.switches = @ \cup {[uuid |-> col.cur, cert |-> col.read, report |-> col.signed]},
              !.todo = @ \ {pick}, !.cur = pick,
              !.pc = IF pick = NoDevice THEN "inventoryAgain" ELSE "mode"]
    /\ UNCHANGED <<machine, present>>

SwitchTaken ==
    /\ col.pc = "chainAgain" /\ Observed(Asked, col.cur)
    /\ key[col.cur] = col.read
    /\ \E pick \in IF col.todo = {} THEN {NoDevice} ELSE col.todo :
          col' = [col EXCEPT
              !.switches = @ \cup {[uuid |-> col.cur, cert |-> col.read, report |-> col.signed]},
              !.todo = @ \ {pick}, !.cur = pick,
              !.pc = IF pick = NoDevice THEN "inventoryAgain" ELSE "mode"]
    /\ UNCHANGED <<machine, present>>
InventoryAgain ==
    /\ col.pc = "inventoryAgain"
    /\ Observed(fabric, NoDevice) /\ fabric = col.inventory
    /\ Goto("cpu")
    /\ UNCHANGED <<machine, present>>
NscqFails ==
    /\ col.pc \in {"switches", "mode", "chain", "quote", "modeAgain", "chainAgain", "inventoryAgain"}
    /\ Give

-----------------------------------------------------------------------------
(* AttestationCollector::collect.                                           *)

\* The topology asked for; AutoDetect goes by the signed modes, which must agree.
Topology ==
    /\ col.pc = "listed"
    /\ LET modes == {(g.uuid \in Protected) : g \in Elems(col.gpus)} IN
       Goto(CASE col.what = "status" -> "done"
              [] col.topology = "Independent" -> "cpu"
              [] col.topology = "ProtectedPcie" -> "switches"
              [] OTHER -> IF modes = {TRUE} THEN "switches"
                          ELSE IF modes = {FALSE} THEN "cpu" ELSE "failed")
    /\ UNCHANGED <<machine, present>>

\* The CPU signs the digest of the bundle; a provider may fail or answer short.
CpuQuote(ok) ==
    /\ col.pc = "cpu"
    /\ col' = [col EXCEPT !.pc = IF ok THEN "done" ELSE "failed"]
    /\ UNCHANGED <<machine, present>>

CollectFrom(what, topology) ==
    /\ slots \in Plugged /\ cc = 1 /\ fabric = Switches
    /\ tnvl = [s \in Switches |-> 1] /\ key = [d \in Gpus \cup Switches |-> 1]
    /\ gone = {} /\ changes = 0 /\ present = {}
    /\ col = [pc |-> "start", what |-> what, topology |-> topology, count |-> 0, cc |-> 0,
              next |-> 1, cur |-> NoDevice, read |-> 0, signed |-> 0, mode |-> 0,
              gpus |-> <<>>, inventory |-> {}, todo |-> {}, switches |-> {}]
CollectInit ==
    \/ CollectFrom("status", "Independent")
    \/ \E t \in {"Independent", "ProtectedPcie", "AutoDetect"} : CollectFrom("token", t)

NvmlNext ==
    CollectStart \/ DeviceOpen \/ DeviceCertificate \/ collect_device \/ Recount \/ Recheck
    \/ NvmlFails
NscqNext ==
    Inventory \/ SwitchMode \/ SwitchCertificate \/ SwitchReport \/ SwitchModeAgain
    \/ SwitchTaken \/ InventoryAgain \/ NscqFails
CollectNext ==
    \/ NvmlNext \/ NscqNext \/ Topology
    \/ \E ok \in BOOLEAN : CpuQuote(ok)
    \/ col.pc \notin {"done", "failed"} /\ MachineNext
CollectSpec == CollectInit /\ [][CollectNext]_collectVars

\* Reading index by index while GPUs are exchanged and renumbered still yields
\* one moment's inventory: the GPUs named are exactly the ones enumerated when
\* the devices were counted again, none left out and none twice.
InventorySnapshot ==
    col.pc \in {"switches", "cpu", "done"} =>
       /\ {col.gpus[i].uuid : i \in DOMAIN col.gpus} = present
       /\ Len(col.gpus) = Cardinality(present)

\* The certificate chain collected for a switch certifies the key that signed
\* its report, although a reset between the reads changes both: a report is
\* never paired with the chain of another key.
SwitchReportMatches ==
    col.pc = "done" => \A s \in col.switches : s.cert = s.report

=============================================================================
