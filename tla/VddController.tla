--------------------------- MODULE VddController ---------------------------
(***************************************************************************)
(* The virtual display device, the app that wants it only while a tablet   *)
(* is connected, and the elevated processes that switch it with devcon.    *)
(*                                                                         *)
(* An elevated app runs devcon itself.  Otherwise VddController::enable    *)
(* launches a resident helper: it enables the device, signals `done', and  *)
(* waits for the `stop' event or for the death of the app, upon which it   *)
(* disables the device.  When the helper does not answer, and at the next  *)
(* launch of the app, a one-shot helper disables the device instead.       *)
(*                                                                         *)
(* Processes may die, the user may refuse a UAC prompt, devcon may fail or *)
(* have no effect, and every wait with a timeout may give up: CONSTANT     *)
(* Faults says which of these the environment does.                        *)
(***************************************************************************)
EXTENDS Naturals, Sequences

CONSTANTS
  Displays,      \* devices of the Display class, in SetupAPI order
  Matching,      \* those whose name matches_vdd_heuristic accepts
  Canonical,     \* those named `Virtual Display Driver'
  LooksVirtual,  \* those whose DXGI output or adapter has a virtual-looking name
  InitStatus,    \* status of each device at the first launch of the app
  Faults,        \* subset of FaultKinds
  MaxProcs,      \* bound: elevated processes ever launched
  MaxRuns        \* bound: launches of the app

FaultKinds == {"uac", "devcon", "driver", "slow", "app_dies", "helper_dies"}

Ids == {Displays[i] : i \in DOMAIN Displays}
None == "none"
Statuses == {"absent", "off", "on", "problem"}

ASSUME VddAssumption ==
  /\ Displays \in Seq(STRING) /\ None \notin Ids /\ Matching \subseteq Ids
  /\ InitStatus \in [Ids -> Statuses] /\ Faults \subseteq FaultKinds
  /\ MaxProcs \in Nat /\ MaxRuns \in Nat

VARIABLES
  pc,         \* where the app is
  elevated,   \* does the app run elevated?
  ctl,        \* VddController: [dev, enabled, resident (0: none)]
  waits,      \* the process whose handle and events the app holds (0: none)
  baseline,   \* monitors attached when the session began
  shown,      \* the device whose monitor the live session captures
  status,     \* state of each device: absent, off, on, problem
  proc,       \* the elevated processes, by number of launch
  run         \* number of launches of the app

vars == <<pc, elevated, ctl, waits, baseline, shown, status, proc, run>>
appVars == <<pc, elevated, ctl, waits, baseline, shown, run>>

Procs == 1..Len(proc)
NoCtl == [dev |-> None, enabled |-> FALSE, resident |-> 0]
Live(p) == proc[p].st # "exited"
On(d) == status[d] \in {"on", "problem"}

Init ==
  /\ pc = "down" /\ elevated = FALSE /\ ctl = NoCtl /\ waits = 0
  /\ baseline = {} /\ shown = None /\ proc = <<>> /\ run = 0
  /\ status = InitStatus

-----------------------------------------------------------------------------
(* Device queries.                                                         *)

\* enumerate_display_devices: the positions of what SetupAPI lists; a device
\* in a problem state other than CM_PROB_DISABLED does not count as disabled.
EnumerateDisplayDevices == {i \in DOMAIN Displays : status[Displays[i]] # "absent"}
DevnodeIsDisabled(d) == status[d] = "off"

\* Sort key of detect(): disabled devices first, then the canonical name.
Rank(d) == (IF DevnodeIsDisabled(d) THEN 0 ELSE 2) + (IF d \in Canonical THEN 0 ELSE 1)

\* VddController::detect: min_by_key takes the first of the least.
Candidates == {i \in EnumerateDisplayDevices : Displays[i] \in Matching}
Best(i) ==
  \A j \in Candidates :
    LET r == Rank(Displays[i]) q == Rank(Displays[j]) IN r < q \/ (r = q /\ i <= j)
Detect ==
  IF Candidates = {} THEN None ELSE Displays[CHOOSE i \in Candidates : Best(i)]

\* snapshot_attached_monitor_keys: a started device has its monitor on the desktop.
Attached == {d \in Ids : status[d] = "on"}

\* vdd_currently_attached, and the same test in build_session_config.
VddCurrentlyAttached == Attached \cap LooksVirtual # {}

\* devcon_action("enable", d) and verify_devnode_started: devcon's verdict,
\* the state it leaves behind and whether that passes the verification.
EnableOutcomes(d) ==
  {[ok |-> TRUE, to |-> IF status[d] = "off" THEN "on" ELSE status[d]]}
    \cup (IF "driver" \in Faults /\ status[d] = "off"
          THEN {[ok |-> TRUE, to |-> "problem"]} ELSE {})
    \cup (IF "devcon" \in Faults
          THEN {[ok |-> TRUE, to |-> status[d]], [ok |-> FALSE, to |-> status[d]]} ELSE {})
VerifyDevnodeStarted(s) == s = "on"

\* devcon_action("disable", d) followed by verify_devnode_disabled, both
\* successful; otherwise devcon failed or left the device as it was.
SetOff(d) == status' = [status EXCEPT ![d] = IF @ = "absent" THEN @ ELSE "off"]
DevconFails == "devcon" \in Faults /\ UNCHANGED status

-----------------------------------------------------------------------------
(* The elevated processes.                                                 *)

Process(kind, d) ==
  [kind |-> kind, dev |-> d, st |-> "launched", code |-> 0,
   parent |-> run, done |-> FALSE, stop |-> FALSE]

ParentAlive(p) == proc[p].parent = run /\ pc # "down"
Goto(p, s) == proc' = [proc EXCEPT ![p].st = s]
ExitWith(p, c) == proc' = [proc EXCEPT ![p].st = "exited", ![p].code = c]
Resident(p, s) == proc[p].kind = "resident" /\ proc[p].st = s

\* The named events exist while the app, or a helper that opened them, holds them.
HelperOpensEvents(p) ==
  /\ Resident(p, "launched") /\ UNCHANGED <<appVars, status>>
  /\ IF waits = p THEN Goto(p, "enabling") ELSE ExitWith(p, 2)

\* A failed devcon enable also sets `done', and the helper exits.
HelperEnables(p) ==
  /\ Resident(p, "enabling") /\ UNCHANGED appVars
  /\ \E o \in EnableOutcomes(proc[p].dev) :
       /\ status' = [status EXCEPT ![proc[p].dev] = o.to]
       /\ IF o.ok THEN Goto(p, "enabled")
          ELSE proc' = [proc EXCEPT ![p].st = "exited", ![p].code = 1, ![p].done = TRUE]

\* The verdict of the verification is only logged.
HelperSignalsDone(p) ==
  /\ Resident(p, "enabled") /\ UNCHANGED <<appVars, status>>
  /\ proc' = [proc EXCEPT ![p].st = "attach", ![p].done = TRUE]

\* OpenProcess on the app's pid.
HelperWatches(p) ==
  /\ Resident(p, "attach") /\ ParentAlive(p) /\ UNCHANGED <<appVars, status>>
  /\ Goto(p, "watch")

\* The app is gone already: the helper waits for the stop event alone.
HelperWaitsForStopOnly(p) ==
  /\ Resident(p, "attach") /\ ~ParentAlive(p) /\ UNCHANGED <<appVars, status>>
  /\ Goto(p, "stop_only")

\* Fault: a timeout of the poll counts as the stop event.
HelperTriggeredEarly(p) ==
  /\ Resident(p, "watch") /\ Goto(p, "disabling") /\ UNCHANGED <<appVars, status>>

\* The stop event, or the death of the app.
HelperTriggered(p) ==
  /\ \/ Resident(p, "watch") /\ (proc[p].stop \/ ~ParentAlive(p))
     \/ Resident(p, "stop_only") /\ proc[p].stop
  /\ Goto(p, "disabling") /\ UNCHANGED <<appVars, status>>

\* The process is about to run devcon disable: a resident helper that was
\* triggered, or a one-shot helper.
AboutToDisable(p) ==
  Resident(p, "disabling") \/ (proc[p].kind = "disable" /\ proc[p].st = "launched")

\* The process switches its device off and exits with 0.
DisablesAndExits(p) ==
  AboutToDisable(p) /\ SetOff(proc[p].dev) /\ ExitWith(p, 0) /\ UNCHANGED appVars
DisableFails(p) ==
  AboutToDisable(p) /\ DevconFails /\ ExitWith(p, 1) /\ UNCHANGED appVars

\* helper_main "install": devcon install creates the device, enabled.
Installs(p) ==
  /\ proc[p].kind = "install" /\ proc[p].st = "launched" /\ UNCHANGED appVars
  /\ \/ /\ status' = [status EXCEPT ![proc[p].dev] = IF @ = "absent" THEN "on" ELSE @]
        /\ ExitWith(p, 0)
     \/ DevconFails /\ ExitWith(p, 1)

ProcessDies(p) ==
  /\ "helper_dies" \in Faults /\ Live(p)
  /\ ExitWith(p, 1) /\ UNCHANGED <<appVars, status>>

HelperStep(p) ==
  \/ HelperOpensEvents(p) \/ HelperEnables(p) \/ HelperSignalsDone(p)
  \/ HelperWatches(p) \/ HelperWaitsForStopOnly(p) \/ HelperTriggered(p)
  \/ DisablesAndExits(p) \/ DisableFails(p) \/ Installs(p)

-----------------------------------------------------------------------------
(* The app: launch, sessions, and the disable that ends each of them.      *)

Launch(kind, d, next) ==
  /\ Len(proc) < MaxProcs
  /\ proc' = Append(proc, Process(kind, d))
  /\ pc' = next

\* The session, and with it the controller, is dropped; nothing left to do.
ToIdle == pc' = "idle" /\ ctl' = NoCtl /\ waits' = 0 /\ baseline' = {} /\ shown' = None

StartApp ==
  /\ pc = "down" /\ run < MaxRuns
  /\ pc' = "startup" /\ run' = run + 1 /\ elevated' \in BOOLEAN
  /\ UNCHANGED <<ctl, waits, baseline, shown, status, proc>>

\* detect() finds a controller and disable() is called on it, without a
\* resident helper: straight to the fallback.
DisableLeftover ==
  /\ Detect # None /\ VddCurrentlyAttached
  /\ ctl' = [NoCtl EXCEPT !.dev = Detect] /\ pc' = "fallback"
  /\ UNCHANGED <<elevated, waits, baseline, shown, status, proc, run>>

\* main(): a display left enabled by an earlier run is disabled.
StartupFindsLeftover == pc = "startup" /\ DisableLeftover
StartupFindsNothing ==
  /\ pc = "startup" /\ ~(Detect # None /\ VddCurrentlyAttached)
  /\ ToIdle /\ UNCHANGED <<elevated, status, proc, run>>

\* build_session_config in Duplicate mode.
DuplicateFindsLeftover == pc = "idle" /\ DisableLeftover

\* A tablet has said hello: snapshot the monitors, then enable().
BeginSession ==
  /\ pc = "idle" /\ Detect # None
  /\ ctl' = [NoCtl EXCEPT !.dev = Detect] /\ baseline' = Attached
  /\ pc' = "enable" /\ UNCHANGED <<elevated, waits, shown, status, proc, run>>

\* enable() of an elevated app.
EnableDirect ==
  /\ pc = "enable" /\ elevated
  /\ \E o \in EnableOutcomes(ctl.dev) :
       /\ status' = [status EXCEPT ![ctl.dev] = o.to]
       /\ IF o.ok /\ VerifyDevnodeStarted(o.to)
          THEN pc' = "monitor" /\ ctl' = [ctl EXCEPT !.enabled = TRUE]
                 /\ UNCHANGED <<waits, baseline, shown>>
          ELSE ToIdle
  /\ UNCHANGED <<elevated, proc, run>>

\* spawn_resident_helper: create the events, ask for elevation, wait.
SpawnResidentHelper ==
  /\ pc = "enable" /\ ~elevated
  /\ Launch("resident", ctl.dev, "spawn") /\ waits' = Len(proc) + 1
  /\ UNCHANGED <<elevated, ctl, baseline, shown, status, run>>
SpawnRefused ==
  /\ pc = "enable" /\ ~elevated /\ "uac" \in Faults
  /\ ToIdle /\ UNCHANGED <<elevated, status, proc, run>>

\* The done event is the first of the two handles waited for.
SpawnDone ==
  /\ pc = "spawn" /\ proc[waits].done
  /\ pc' = "monitor" /\ ctl' = [ctl EXCEPT !.enabled = TRUE, !.resident = waits]
  /\ UNCHANGED <<elevated, waits, baseline, shown, status, proc, run>>
\* The helper exited without it, or 30 s are over.
SpawnFails ==
  /\ pc = "spawn" /\ ~proc[waits].done /\ (~Live(waits) \/ "slow" \in Faults)
  /\ ToIdle /\ UNCHANGED <<elevated, status, proc, run>>

\* wait_for_virtual_monitor: a monitor that looks virtual, or a new one.
VirtualMonitor(d) == d \in Attached /\ (d \in LooksVirtual \/ d \notin baseline)
MonitorUp ==
  /\ pc = "monitor" /\ \E d \in Ids : VirtualMonitor(d) /\ shown' = d
  /\ pc' = "live" /\ UNCHANGED <<elevated, ctl, waits, baseline, status, proc, run>>

\* The session ends, its last wait times out or it is dropped: Drop for
\* VddController calls disable(), which sets the stop event.
EndSession ==
  /\ pc \in {"monitor", "live"}
  /\ IF ctl.resident = 0
     THEN pc' = "fallback" /\ UNCHANGED <<waits, proc>>
     ELSE pc' = "shutdown" /\ proc' = [proc EXCEPT ![ctl.resident].stop = TRUE]
            /\ UNCHANGED waits
  /\ shown' = None /\ UNCHANGED <<elevated, ctl, baseline, status, run>>

\* ResidentHelper::shutdown saw the helper exit.
ShutdownClean ==
  /\ pc = "shutdown" /\ ~Live(waits) /\ proc[waits].code = 0
  /\ ToIdle /\ UNCHANGED <<elevated, status, proc, run>>
\* Fault: any exit of the helper counts as clean.
ShutdownTrustsExit ==
  /\ pc = "shutdown" /\ ~Live(waits) /\ proc[waits].code # 0
  /\ ToIdle /\ UNCHANGED <<elevated, status, proc, run>>
\* Fault: an unclean exit is waited for again.
ShutdownRetries ==
  /\ pc = "shutdown" /\ ~Live(waits) /\ proc[waits].code # 0 /\ UNCHANGED vars

ShutdownUnclean ==
  /\ pc = "shutdown" /\ ~Live(waits) /\ proc[waits].code # 0
  /\ pc' = "fallback" /\ ctl' = [ctl EXCEPT !.resident = 0] /\ waits' = 0
  /\ UNCHANGED <<elevated, baseline, shown, status, proc, run>>
\* Not within 5 s; dropping the helper then waits another 5 s.
ShutdownTimeout ==
  /\ pc = "shutdown" /\ Live(waits) /\ "slow" \in Faults
  /\ pc' = "drop" /\ UNCHANGED <<elevated, ctl, waits, baseline, shown, status, proc, run>>

DropHelper ==
  /\ pc = "drop" /\ pc' = "fallback"
  /\ ctl' = [ctl EXCEPT !.resident = 0] /\ waits' = 0
  /\ UNCHANGED <<elevated, baseline, shown, status, proc, run>>

\* The rest of disable(): devcon itself, or a one-shot helper and one more prompt.
FallbackDirect ==
  /\ pc = "fallback" /\ elevated /\ SetOff(ctl.dev)
  /\ ToIdle /\ UNCHANGED <<elevated, proc, run>>
FallbackFails ==
  /\ pc = "fallback" /\ elevated /\ DevconFails
  /\ ToIdle /\ UNCHANGED <<elevated, proc, run>>
RunHelperElevated ==
  /\ pc = "fallback" /\ ~elevated
  /\ Launch("disable", ctl.dev, "oneshot") /\ waits' = Len(proc) + 1
  /\ UNCHANGED <<elevated, ctl, baseline, shown, status, run>>
FallbackRefused ==
  /\ pc = "fallback" /\ ~elevated /\ "uac" \in Faults
  /\ ToIdle /\ UNCHANGED <<elevated, status, proc, run>>
\* Waits without a timeout; an error is logged or ignored by every caller.
OneShotReturns ==
  /\ pc = "oneshot" /\ ~Live(waits)
  /\ ToIdle /\ UNCHANGED <<elevated, status, proc, run>>

\* The Install button of the GUI.
InstallDriver ==
  /\ pc \notin {"down", "startup"} /\ Len(proc) < MaxProcs
  /\ \E d \in Matching : /\ status[d] = "absent"
                         /\ \A p \in Procs : proc[p].kind # "install"
                         /\ proc' = Append(proc, Process("install", d))
  /\ UNCHANGED <<appVars, status>>

\* The app quits or dies, anywhere; Windows closes its handles.
AppDies ==
  /\ pc # "down" /\ "app_dies" \in Faults
  /\ pc' = "down" /\ ctl' = NoCtl /\ waits' = 0 /\ baseline' = {} /\ shown' = None
  /\ UNCHANGED <<elevated, status, proc, run>>

AppStep ==
  \/ StartupFindsLeftover \/ StartupFindsNothing
  \/ EnableDirect \/ SpawnResidentHelper \/ SpawnRefused \/ SpawnDone \/ SpawnFails
  \/ ShutdownClean \/ ShutdownUnclean \/ ShutdownTimeout \/ DropHelper
  \/ FallbackDirect \/ FallbackFails \/ RunHelperElevated \/ FallbackRefused
  \/ OneShotReturns

UserStep ==
  StartApp \/ DuplicateFindsLeftover \/ BeginSession \/ MonitorUp \/ EndSession
    \/ InstallDriver \/ AppDies

Next ==
  \/ AppStep \/ UserStep
  \/ \E p \in Procs : HelperStep(p) \/ ProcessDies(p)

Spec == Init /\ [][Next]_vars

\* Windows schedules the app and its helpers, and devcon returns.
FairSpec ==
  Spec /\ WF_vars(AppStep) /\ \A p \in 1..MaxProcs : WF_vars(p \in Procs /\ HelperStep(p))

-----------------------------------------------------------------------------
(* Properties.                                                             *)

Pcs == {"down", "startup", "idle", "enable", "spawn", "monitor", "live",
        "shutdown", "drop", "fallback", "oneshot"}

Helper ==
  [kind : {"resident", "disable", "install"}, dev : Ids, code : 0..2,
   st : {"launched", "enabling", "enabled", "attach", "watch", "stop_only",
         "disabling", "exited"},
   parent : Nat, done : BOOLEAN, stop : BOOLEAN]

\* Every variable keeps its type, and a resident helper is one the app
\* still holds handles of.
TypeOK ==
  /\ pc \in Pcs /\ elevated \in BOOLEAN /\ run \in 0..MaxRuns
  /\ proc \in Seq(Helper) /\ \A p \in Procs : proc[p].parent \in 1..run
  /\ waits \in 0..Len(proc)
  /\ ctl \in [dev : Ids \cup {None}, enabled : BOOLEAN, resident : {0, waits}]
  /\ baseline \subseteq Ids /\ shown \in Ids \cup {None}
  /\ status \in [Ids -> Statuses]

\* Someone is going to switch d off: the app at the end of its session, or
\* an elevated process.
Committed(d) ==
  \/ ctl.dev = d /\ \/ pc \in {"monitor", "live"} /\ ctl.enabled
                    \/ pc = "shutdown" /\ ~(~Live(waits) /\ proc[waits].code = 0)
                    \/ pc \in {"drop", "fallback"}
  \/ \E p \in Procs : /\ proc[p].dev = d
                      /\ \/ AboutToDisable(p)
                         \/ \E s \in {"enabled", "attach", "watch"} : Resident(p, s)

\* d is, from this step on, enabled and nobody's business.
Leaks(d) == On(d)' /\ ~Committed(d)' /\ (Committed(d) \/ ~On(d))

\* The only steps that leave a display enabled with nobody to disable it are
\* deaths of processes, refused prompts, failures of devcon or of the driver
\* that enable() sees, the installation, and a helper that finds the app gone
\* before it watches it (vdd.rs 418-456, 825-976).
NoSilentLeak ==
  [][\A d \in Ids : Leaks(d) =>
       \/ AppDies \/ FallbackRefused \/ FallbackFails \/ EnableDirect
       \/ \E p \in Procs : \/ ProcessDies(p) \/ DisableFails(p) \/ Installs(p)
                           \/ HelperWaitsForStopOnly(p)]_vars

\* The display of a live session is switched off only by a process that
\* outlived both waits of its shutdown or the app it served: never by the
\* session's own helper, nor by one whose enable came too late (vdd.rs
\* 274-307, 982-1090).
LiveDisplayStays ==
  [][pc = "live" /\ pc' = "live" /\ status[shown] = "on" /\ status'[shown] # "on" =>
       \E p \in Procs : /\ AboutToDisable(p) /\ waits # p
                       /\ (proc[p].stop \/ proc[p].parent # run)]_vars

\* Whatever the helper does, the disable that ends a session returns, although
\* it may wait twice for one process and without a timeout for another.
DisableReturns ==
  (pc \in {"shutdown", "drop", "fallback"} /\ Len(proc) < MaxProcs)
    ~> (pc \in {"idle", "down"} \/ Len(proc) = MaxProcs)

\* main.rs 302-310: when the launch finds nothing to disable the first session
\* starts from a clean off-state.
StartupSeesLeftover ==
  [][StartupFindsNothing => \A d \in Ids : status[d] # "on"]_vars

\* vdd.rs 893-899: a helper that has enabled the display gets to its disable
\* when the app dies.
OrphanRecovers ==
  \A p \in 1..MaxProcs :
    (p \in Procs /\ Resident(p, "attach") /\ ~ParentAlive(p)) ~> ~Live(p)
=============================================================================
