-------------------------------- MODULE Virt --------------------------------
(***************************************************************************)
(* Building and launching KVM guests on one physical host: virt/context.ts *)
(* and the containers that it defines.                                     *)
(*                                                                         *)
(*   virt_kern -> virt_base -> vmprep_NAME -> vm_NAME <- virt_sriov        *)
(*                                                                         *)
(* `compose.sh up` names the vm_NAME containers only; Docker Compose       *)
(* starts what they depend on, waits for the build steps to complete and   *)
(* for virt_sriov to be healthy.  What the build steps make is in volumes  *)
(* that outlive the containers, next to a file that says that it is        *)
(* complete; the PCI Virtual Functions are in the kernel of the host.      *)
(* Containers fail, commands are interrupted and the host reboots at any   *)
(* time.                                                                   *)
(*                                                                         *)
(* Left out: MACVTAP and PCI passthrough, CPU affinity, the vmctrl netif   *)
(* of the primary host.                                                    *)
(***************************************************************************)
EXTENDS Naturals, FiniteSets

CONSTANTS
  VMs,         \* names of the virtual machines on this host
  SriovVMs,    \* those with a Virtual Function among their network interfaces
  Host,        \* stands for a virtual machine in the containers that are one per host
  MaxUps,      \* bound on invocations of compose.sh up
  MaxFaults,   \* bound on failures and interruptions
  MaxReboots   \* bound on reboots of the host

ASSUME VmAssumption == SriovVMs \subseteq VMs /\ Host \notin VMs
ASSUME BoundsAssumption == MaxUps \in Nat /\ MaxFaults \in Nat /\ MaxReboots \in Nat

Kern == <<"kern", Host>>
Base == <<"base", Host>>
Sriov == <<"sriov", Host>>
Prep(v) == <<"prep", v>>
Vm(v) == <<"vm", v>>

Guests == {Vm(v) : v \in VMs}
Cts == {Kern, Base} \cup {Prep(v) : v \in VMs} \cup Guests \cup (IF SriovVMs = {} THEN {} ELSE {Sriov})

\* The mutant does not wait for virt_sriov.
VfNeeds_None(v) == {}

\* What a guest needs for its Virtual Functions.
VfNeeds(v) == IF v \in SriovVMs THEN {Sriov} ELSE {}

\* depends_on
Needs(c) ==
  CASE c = Base -> {Kern}
    [] c[1] = "prep" -> {Base}
    [] c[1] = "vm" -> {Prep(c[2])} \cup VfNeeds(c[2])
    [] OTHER -> {}

\* Where the command of a container starts.
Entry(c) ==
  CASE c = Kern -> "copy"
    [] c = Sriov -> "setup"
    [] c[1] = "vm" -> "setup"
    [] OTHER -> "check"

VARIABLES
  proc,     \* a container: "none", the step of its command, or "completed" or "failed"
  kernel,   \* vmlinuz is in the volume vmbuild
  base,     \* base.qcow2: "none", "partial" or "complete"
  baseDone, \* base.done
  image,    \* vm.qcow2 of a virtual machine: "none", "partial", "base" (a copy of base.qcow2) or "ready"
  vmDone,   \* vm.done
  vfs,      \* the Virtual Functions exist, with their MAC addresses
  mark,     \* the file in the container virt_sriov that says that it is healthy
  health,   \* what Docker says of its health
  upping,   \* compose.sh up is at work
  begun,    \* containers that it has found running or started
  ups, faults, reboots

volumes == <<kernel, base, baseDone, image, vmDone>>
functions == <<vfs, mark, health>>
command == <<upping, begun, ups>>
vars == <<proc, volumes, functions, command, faults, reboots>>

TypeOK ==
  /\ proc \in [Cts -> {"none", "copy", "check", "build", "install", "sysprep", "mark", "setup", "idle", "qemu",
                       "completed", "failed"}]
  /\ \A c \in Cts : proc[c] = "qemu" => c \in Guests
  /\ kernel \in BOOLEAN
  /\ base \in {"none", "partial", "complete"}
  /\ baseDone \in BOOLEAN
  /\ image \in [VMs -> {"none", "partial", "base", "ready"}]
  /\ vmDone \in [VMs -> BOOLEAN]
  /\ vfs \in BOOLEAN
  /\ mark \in BOOLEAN
  /\ health \in {"starting", "healthy", "unhealthy"}
  /\ upping \in BOOLEAN
  /\ begun \subseteq Cts
  /\ ups \in 0 .. MaxUps
  /\ faults \in 0 .. MaxFaults
  /\ reboots \in 0 .. MaxReboots

Init ==
  /\ proc = [c \in Cts |-> "none"]
  /\ kernel = FALSE
  /\ base = "none"
  /\ baseDone = FALSE
  /\ image = [v \in VMs |-> "none"]
  /\ vmDone = [v \in VMs |-> FALSE]
  /\ vfs = FALSE
  /\ mark = FALSE
  /\ health = "starting"
  /\ upping = FALSE
  /\ begun = {}
  /\ ups = 0
  /\ faults = 0
  /\ reboots = 0

Ended(c) == proc[c] \in {"completed", "failed"}
Running(c) == proc[c] # "none" /\ ~Ended(c)
Goto(c, step) == proc' = [proc EXCEPT ![c] = step]
Fault == faults < MaxFaults /\ faults' = faults + 1
-----------------------------------------------------------------------------
(* Docker Compose                                                            *)

Up ==
  /\ ~upping
  /\ ups < MaxUps
  /\ ups' = ups + 1
  /\ upping' = TRUE
  /\ begun' = {}
  /\ UNCHANGED <<proc, volumes, functions, faults, reboots>>

\* condition: service_completed_successfully, service_healthy
Met(d) == d \in begun /\ IF d = Sriov THEN Running(d) /\ health = "healthy" ELSE proc[d] = "completed"

\* A container that has ended starts again, with the files that it has written.
Start(c) ==
  /\ upping
  /\ c \notin begun
  /\ \A d \in Needs(c) : Met(d)
  /\ begun' = begun \cup {c}
  /\ IF Running(c)
     THEN UNCHANGED <<proc, health>>
     ELSE /\ Goto(c, Entry(c))
          /\ health' = IF c = Sriov THEN "starting" ELSE health
  /\ UNCHANGED <<volumes, vfs, mark, upping, ups, faults, reboots>>

UpEnds ==
  /\ upping
  /\ Guests \subseteq begun
  /\ upping' = FALSE
  /\ UNCHANGED <<proc, volumes, functions, begun, ups, faults, reboots>>

\* A dependency has failed.
UpFails ==
  /\ upping
  /\ \E c \in begun \ Guests : proc[c] = "failed" \/ (c = Sriov /\ (Ended(c) \/ health = "unhealthy"))
  /\ upping' = FALSE
  /\ UNCHANGED <<proc, volumes, functions, begun, ups, faults, reboots>>

\* Containers go on without the command.
Interrupt ==
  /\ upping
  /\ Fault
  /\ upping' = FALSE
  /\ UNCHANGED <<proc, volumes, functions, begun, ups, reboots>>

\* compose.sh down, stop: guests first; containers and their files are removed, volumes are kept.
Down ==
  /\ ~upping
  /\ \E c \in Cts : proc[c] # "none"
  /\ proc' = [c \in Cts |-> "none"]
  /\ vfs' = IF Sriov \in Cts /\ Running(Sriov) THEN FALSE ELSE vfs
  /\ mark' = FALSE
  /\ health' = "starting"
  /\ UNCHANGED <<volumes, command, faults, reboots>>
-----------------------------------------------------------------------------
(* The commands of the containers                                            *)

CopyKernel ==
  /\ proc[Kern] = "copy"
  /\ kernel' = TRUE
  /\ Goto(Kern, "completed")
  /\ UNCHANGED <<base, baseDone, image, vmDone, functions, command, faults, reboots>>

\* The mutant refuses to build over what an earlier build has left.
CheckBase_Refuse ==
  /\ proc[Base] = "check"
  /\ CASE baseDone -> Goto(Base, "completed") /\ UNCHANGED base
       [] ~baseDone /\ base # "none" -> Goto(Base, "failed") /\ UNCHANGED base
       [] ~baseDone /\ base = "none" -> Goto(Base, "build") /\ base' = "partial"
  /\ UNCHANGED <<kernel, baseDone, image, vmDone, functions, command, faults, reboots>>

CheckBase ==
  /\ proc[Base] = "check"
  /\ IF baseDone
     THEN Goto(Base, "completed") /\ UNCHANGED base
     ELSE Goto(Base, "build") /\ base' = "partial"
  /\ UNCHANGED <<kernel, baseDone, image, vmDone, functions, command, faults, reboots>>

\* virt-builder
BuildBase ==
  /\ proc[Base] = "build"
  /\ kernel
  /\ base' = "complete"
  /\ Goto(Base, "mark")
  /\ UNCHANGED <<kernel, baseDone, image, vmDone, functions, command, faults, reboots>>

MarkBase ==
  /\ proc[Base] = "mark"
  /\ baseDone' = TRUE
  /\ Goto(Base, "completed")
  /\ UNCHANGED <<kernel, base, image, vmDone, functions, command, faults, reboots>>

\* The mutants look for vm.qcow2 instead of vm.done, and make the image each time.
CheckImage_Present(v) ==
  /\ proc[Prep(v)] = "check"
  /\ IF image[v] # "none"
     THEN Goto(Prep(v), "completed") /\ UNCHANGED image
     ELSE Goto(Prep(v), "install") /\ image' = [image EXCEPT ![v] = "partial"]
  /\ UNCHANGED <<kernel, base, baseDone, vmDone, functions, command, faults, reboots>>

CheckImage_Always(v) ==
  /\ proc[Prep(v)] = "check"
  /\ Goto(Prep(v), "install")
  /\ image' = [image EXCEPT ![v] = "partial"]
  /\ UNCHANGED <<kernel, base, baseDone, vmDone, functions, command, faults, reboots>>

CheckImage(v) ==
  /\ proc[Prep(v)] = "check"
  /\ IF vmDone[v]
     THEN Goto(Prep(v), "completed") /\ UNCHANGED image
     ELSE Goto(Prep(v), "install") /\ image' = [image EXCEPT ![v] = "partial"]
  /\ UNCHANGED <<kernel, base, baseDone, vmDone, functions, command, faults, reboots>>

\* install /vmbuild/base.qcow2 vm.qcow2
InstallImage(v) ==
  /\ proc[Prep(v)] = "install"
  /\ image' = [image EXCEPT ![v] = IF base = "complete" THEN "base" ELSE "partial"]
  /\ Goto(Prep(v), "sysprep")
  /\ UNCHANGED <<kernel, base, baseDone, vmDone, functions, command, faults, reboots>>

\* virt-sysprep
PrepareImage(v) ==
  /\ proc[Prep(v)] = "sysprep"
  /\ image' = [image EXCEPT ![v] = IF @ = "base" THEN "ready" ELSE "partial"]
  /\ Goto(Prep(v), "mark")
  /\ UNCHANGED <<kernel, base, baseDone, vmDone, functions, command, faults, reboots>>

MarkImage(v) ==
  /\ proc[Prep(v)] = "mark"
  /\ vmDone' = [vmDone EXCEPT ![v] = TRUE]
  /\ Goto(Prep(v), "completed")
  /\ UNCHANGED <<kernel, base, baseDone, image, functions, command, faults, reboots>>

\* Virtual Functions are made anew unless there are as many as needed; then they get their MAC addresses.
CreateVfs ==
  /\ Sriov \in Cts
  /\ proc[Sriov] = "setup"
  /\ vfs' = TRUE
  /\ Goto(Sriov, "mark")
  /\ UNCHANGED <<volumes, mark, health, command, faults, reboots>>

\* The mutant says so before the container idles, in a step that does not exist.
MarkHealthy_Step ==
  /\ Sriov \in Cts
  /\ proc[Sriov] = "mark"
  /\ mark' = TRUE
  /\ Goto(Sriov, "idling")
  /\ UNCHANGED <<volumes, vfs, health, command, faults, reboots>>

\* touch /run/5gdeploy-sriov-is-healthy
MarkHealthy ==
  /\ Sriov \in Cts
  /\ proc[Sriov] = "mark"
  /\ mark' = TRUE
  /\ Goto(Sriov, "idle")
  /\ UNCHANGED <<volumes, vfs, health, command, faults, reboots>>

\* test -f /run/5gdeploy-sriov-is-healthy
HealthCheck ==
  /\ Sriov \in Cts
  /\ Running(Sriov)
  /\ mark
  /\ health' = "healthy"
  /\ UNCHANGED <<proc, volumes, vfs, mark, command, faults, reboots>>

\* After three failures.
HealthCheckFails ==
  /\ Sriov \in Cts
  /\ Running(Sriov)
  /\ ~mark
  /\ health = "starting"
  /\ Fault
  /\ health' = "unhealthy"
  /\ UNCHANGED <<proc, volumes, vfs, mark, command, reboots>>

\* A Virtual Function that is not there makes QEMU fail.
Launch(v) ==
  /\ proc[Vm(v)] = "setup"
  /\ IF image[v] # "none" /\ (v \in SriovVMs => vfs) THEN Goto(Vm(v), "qemu") ELSE Goto(Vm(v), "failed")
  /\ UNCHANGED <<volumes, functions, command, faults, reboots>>

\* The guest shuts down.
Shutdown(v) ==
  /\ proc[Vm(v)] = "qemu"
  /\ Goto(Vm(v), "completed")
  /\ UNCHANGED <<volumes, functions, command, faults, reboots>>
-----------------------------------------------------------------------------
\* The command of a container fails; what it was writing stays as it is.  virt_sriov cleans up.
Fail(c) ==
  /\ Running(c)
  /\ proc[c] \notin {"idle", "qemu"}
  /\ Fault
  /\ Goto(c, "failed")
  /\ vfs' = IF c = Sriov THEN FALSE ELSE vfs
  /\ UNCHANGED <<volumes, mark, health, command, reboots>>

\* Files of containers and volumes survive.
Reboot ==
  /\ reboots < MaxReboots
  /\ reboots' = reboots + 1
  /\ proc' = [c \in Cts |-> IF Running(c) THEN "failed" ELSE proc[c]]
  /\ vfs' = FALSE
  /\ health' = "starting"
  /\ upping' = FALSE
  /\ UNCHANGED <<volumes, mark, begun, ups, faults>>

Work ==
  \/ CopyKernel \/ CheckBase \/ BuildBase \/ MarkBase \/ CreateVfs \/ MarkHealthy \/ HealthCheck
  \/ \E v \in VMs : CheckImage(v) \/ InstallImage(v) \/ PrepareImage(v) \/ MarkImage(v) \/ Launch(v)

Progress == UpEnds \/ UpFails \/ \E c \in Cts : Start(c)

Trouble == Interrupt \/ HealthCheckFails \/ Reboot \/ \E c \in Cts : Fail(c)

Next ==
  \/ Up
  \/ Down
  \/ Progress
  \/ Work
  \/ Trouble
  \/ \E v \in VMs : Shutdown(v)

Spec == Init /\ [][Next]_vars

\* Docker Compose and every container go on; no container starves another.
FairSpec ==
  /\ Spec
  /\ WF_vars(UpEnds \/ UpFails)
  /\ \A c \in Cts : WF_vars(Start(c))
  /\ WF_vars(CopyKernel) /\ WF_vars(CheckBase) /\ WF_vars(BuildBase) /\ WF_vars(MarkBase)
  /\ WF_vars(CreateVfs) /\ WF_vars(MarkHealthy) /\ WF_vars(HealthCheck)
  /\ \A v \in VMs : WF_vars(CheckImage(v) \/ InstallImage(v) \/ PrepareImage(v) \/ MarkImage(v)) /\ WF_vars(Launch(v))
-----------------------------------------------------------------------------
(* Properties                                                                *)

\* "The vm_vmname container is started [...] after the per-VM image has been built" (virt/README.md:179): no
\* guest boots from an image that is missing or half-built, whatever has failed before at any of the steps.
ImageReady == \A v \in VMs : proc[Vm(v)] \in {"setup", "qemu"} => image[v] = "ready"

\* "Each build step would be bypassed, if its output is already present" (virt/README.md:170): once a guest
\* has started, its disk is never written by a build step again, and so its data survives every restart.
ImageKept == [][\A v \in VMs : Running(Vm(v)) => vmDone[v] /\ image'[v] = image[v]]_vars

\* "depends on vmprep_vmname and virt_sriov" (virt/README.md:144), which sets up its Virtual Functions: when
\* a guest starts, they are there.
VfsReady == \A v \in SriovVMs : proc[Vm(v)] = "setup" => vfs

\* The same, as long as the host has not been rebooted.
VfsUntilReboot == reboots = 0 => VfsReady

\* A command that is given when no more failures, interruptions or reboots are to come launches every guest,
\* whatever earlier ones have left behind or still running, unless everything is taken down, virt_sriov is
\* still found unhealthy, or it has kept its healthy file without the Virtual Functions.
ComesUp ==
  (/\ upping /\ begun = {} /\ faults = MaxFaults /\ reboots = MaxReboots
   /\ health # "unhealthy" /\ (mark => vfs))
    ~> \/ \A v \in VMs : proc[Vm(v)] \in {"qemu", "completed"}
       \/ \A c \in Cts : proc[c] = "none"
=============================================================================
