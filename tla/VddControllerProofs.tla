------------------------ MODULE VddControllerProofs ------------------------
(***************************************************************************)
(* Proofs about VddController, for any devices, any faults and any number  *)
(* of helpers and launches.                                                *)
(*                                                                         *)
(* Inv is the inductive invariant.  Neither of the two action properties   *)
(* follows from the types: that a session's end still finds its helper     *)
(* bound to disable needs Served (the helper the app holds is for the      *)
(* device of the session and was not triggered before the session's end),  *)
(* and that a live display is safe from it needs Triggers (a process about *)
(* to disable was told to, or lost its app).                               *)
(***************************************************************************)
EXTENDS VddController, WellFoundedInduction, TLAPS

USE DEF vars, appVars

Busy == Pcs \ {"down", "startup", "idle"}
WithHelper == {"spawn", "monitor", "live", "shutdown", "drop"}

(* The app runs in its last launch and at work it has a device; it holds no *)
(* helper before it asks for one, nor when it enabled the device by itself, *)
(* and waits for a shutdown only with one; a live session shows a device.   *)
AppInv ==
    /\ pc # "down" => run \in Nat \ {0}
    /\ pc \in Busy => ctl.dev \in Ids
    /\ pc \in {"shutdown", "drop"} => ctl.resident # 0
    /\ pc \in {"monitor", "live"} => ctl.enabled /\ (ctl.resident = 0 => waits = 0)
    /\ pc = "spawn" => waits # 0
    /\ pc \in {"down", "startup", "idle", "enable"} => waits = 0
    /\ pc = "fallback" => ctl.resident = 0
    /\ pc = "live" => shown \in Ids

(* The helper whose handles the app holds serves this launch and the device *)
(* of the session, and until the session ends nothing can have triggered it.*)
Served ==
    pc \in WithHelper /\ waits # 0 =>
        /\ proc[waits].kind = "resident" /\ proc[waits].dev = ctl.dev
        /\ proc[waits].parent = run
        /\ pc \in {"spawn", "monitor", "live"} =>
               /\ ~proc[waits].stop
               /\ proc[waits].st \notin {"stop_only", "disabling"}
               /\ proc[waits].st = "exited" => proc[waits].code # 0

(* A process about to disable was told to stop or outlived the app that     *)
(* launched it, or is the one the app waits for.                            *)
Told(p) == proc[p].stop \/ proc[p].parent # run \/ pc = "down"
Triggers ==
    \A p \in Procs :
        /\ Resident(p, "disabling") => Told(p)
        /\ proc[p].kind = "disable" /\ proc[p].st = "launched" =>
               Told(p) \/ (pc = "oneshot" /\ waits = p)

Inv == TypeOK /\ AppInv /\ Served /\ Triggers

-----------------------------------------------------------------------------
(* detect.                                                                  *)

(* A set of naturals that is not empty has a least element.                 *)
LEMMA LeastNatural ==
    ASSUME NEW T \in SUBSET Nat, T # {}
    PROVE  \E x \in T : \A y \in T : x <= y
<1>1. PICK x \in T : \A y \in T : << y, x >> \notin OpToRel(<, Nat)
  BY NatLessThanWellFounded, WFMin
<1>2. \A y \in T : ~(y < x)
  BY <1>1 DEF OpToRel
<1>3. QED
  BY <1>2

(* Among devices that match one comes first in the order of min_by_key.     *)
LEMMA BestExists ==
    ASSUME Candidates # {}
    PROVE  \E i \in Candidates : Best(i)
<1> DEFINE R(i) == Rank(Displays[i])
           Ranks == {R(i) : i \in Candidates}
<1>1. Candidates \subseteq Nat /\ \A i \in Candidates : R(i) \in Nat
  BY VddAssumption DEF Candidates, EnumerateDisplayDevices, Rank
<1>2. PICK r \in Ranks : \A q \in Ranks : r <= q
  BY <1>1, LeastNatural
<1> DEFINE First == {i \in Candidates : R(i) = r}
<1>3. First # {} /\ First \subseteq Nat
  BY <1>1, <1>2
<1>4. PICK i \in First : \A j \in First : i <= j
  BY <1>3, LeastNatural
<1>5. ASSUME NEW j \in Candidates PROVE R(i) < R(j) \/ (R(i) = R(j) /\ i <= j)
  <2>1. R(i) = r /\ r \in Nat /\ R(j) \in Nat /\ r <= R(j)
    BY <1>1, <1>2
  <2>2. R(j) = r => i <= j
    BY <1>4
  <2>3. QED
    BY <2>1, <2>2
<1>6. QED
  BY <1>5 DEF Best

(* detect returns a device of the machine that matches, or nothing.         *)
LEMMA DetectType == Detect = None \/ Detect \in Ids \cap Matching
<1>1. CASE Candidates # {}
  <2>1. (CHOOSE i \in Candidates : Best(i)) \in Candidates
    BY <1>1, BestExists
  <2>2. QED
    BY <1>1, <2>1 DEF Detect, Candidates, EnumerateDisplayDevices, Ids
<1>2. QED
  BY <1>1 DEF Detect

-----------------------------------------------------------------------------
(* What a step does to the table of processes.                              *)

(* Only process p changes, and not what it was launched for.                *)
Moves(p) ==
    /\ proc' \in Seq(Helper) /\ Len(proc') = Len(proc)
    /\ \A q \in Procs : q # p => proc'[q] = proc[q]
    /\ proc'[p].kind = proc[p].kind /\ proc'[p].dev = proc[p].dev
    /\ proc'[p].parent = proc[p].parent

(* Replacing the record of a process.                                       *)
LEMMA Replaced ==
    ASSUME NEW s \in Seq(Helper), NEW p \in 1 .. Len(s), NEW h \in Helper
    PROVE  LET t == [s EXCEPT ![p] = h] IN
           /\ t \in Seq(Helper) /\ Len(t) = Len(s) /\ t[p] = h
           /\ \A q \in 1 .. Len(s) : q # p => t[q] = s[q]
OBVIOUS

(* A process that goes on to s keeps the rest of its record.                *)
LEMMA GotoMoves ==
    ASSUME TypeOK, NEW p \in Procs, NEW s, Goto(p, s),
           s \in {"enabling", "enabled", "attach", "watch", "stop_only", "disabling"}
    PROVE  /\ Moves(p) /\ proc'[p].st = s
           /\ proc'[p].stop = proc[p].stop
<1> DEFINE h == [proc[p] EXCEPT !.st = s]
<1>1. proc \in Seq(Helper) /\ proc[p] \in Helper /\ p \in 1 .. Len(proc)
  BY DEF TypeOK, Procs
<1>2. /\ h \in Helper /\ h.st = s /\ h.stop = proc[p].stop
      /\ h.kind = proc[p].kind /\ h.dev = proc[p].dev /\ h.parent = proc[p].parent
  BY <1>1 DEF Helper
<1>3. proc' = [proc EXCEPT ![p] = h]
  BY DEF Goto
<1> HIDE DEF h
<1>4. QED
  BY <1>1, <1>2, <1>3, Replaced DEF Moves, Procs

(* A process that exits keeps the rest of its record.                       *)
LEMMA ExitMoves ==
    ASSUME TypeOK, NEW p \in Procs, NEW c \in 0 .. 2, ExitWith(p, c)
    PROVE  /\ Moves(p) /\ proc'[p].st = "exited" /\ proc'[p].code = c
           /\ proc'[p].stop = proc[p].stop
<1> DEFINE h == [proc[p] EXCEPT !.st = "exited", !.code = c]
<1>1. proc \in Seq(Helper) /\ proc[p] \in Helper /\ p \in 1 .. Len(proc)
  BY DEF TypeOK, Procs
<1>2. /\ h \in Helper /\ h.st = "exited" /\ h.code = c /\ h.stop = proc[p].stop
      /\ h.kind = proc[p].kind /\ h.dev = proc[p].dev /\ h.parent = proc[p].parent
  BY <1>1 DEF Helper
<1>3. proc' = [proc EXCEPT ![p] = h]
  BY <1>1 DEF ExitWith
<1> HIDE DEF h
<1>4. QED
  BY <1>1, <1>2, <1>3, Replaced DEF Moves, Procs

(* A launch adds a process and leaves the others alone.                     *)
LEMMA Launched ==
    ASSUME TypeOK, run \in Nat \ {0}, NEW d \in Ids,
           NEW k \in {"resident", "disable", "install"},
           proc' = Append(proc, Process(k, d))
    PROVE  /\ proc' \in Seq(Helper) /\ Len(proc') = Len(proc) + 1 /\ Len(proc) \in Nat
           /\ \A q \in Procs : proc'[q] = proc[q]
           /\ proc'[Len(proc) + 1] = Process(k, d)
<1>1. proc \in Seq(Helper) /\ Process(k, d) \in Helper
  BY DEF TypeOK, Process, Helper
<1>2. QED
  BY <1>1 DEF Procs

-----------------------------------------------------------------------------
(* The steps of the elevated processes.                                     *)

(* A process goes on by itself only so far: it is triggered when it was     *)
(* told to stop or lost the app, and exits with 0 only after its work.      *)
Proceeds(p) ==
    /\ UNCHANGED appVars /\ Moves(p)
    /\ proc'[p].stop = proc[p].stop /\ proc'[p].st # "launched"
    /\ proc'[p].st = "disabling" => proc[p].stop \/ ~ParentAlive(p)
    /\ proc'[p].st = "stop_only" => ~ParentAlive(p)
    /\ proc'[p].st = "exited" /\ proc'[p].code = 0 =>
           AboutToDisable(p) \/ proc[p].kind = "install"

(* What devcon makes of a device is a status.                               *)
LEMMA OutcomeType ==
    ASSUME TypeOK, NEW d \in Ids, NEW o \in EnableOutcomes(d)
    PROVE  o.to \in Statuses /\ (status[d] # "off" => o.to = status[d])
             /\ (~o.ok => o.to = status[d])
<1>1. status[d] \in Statuses
  BY DEF TypeOK
<1>2. \/ o = [ok |-> TRUE, to |-> IF status[d] = "off" THEN "on" ELSE status[d]]
      \/ status[d] = "off" /\ o = [ok |-> TRUE, to |-> "problem"]
      \/ o = [ok |-> TRUE, to |-> status[d]] \/ o = [ok |-> FALSE, to |-> status[d]]
  BY DEF EnableOutcomes
<1>3. QED
  BY <1>1, <1>2 DEF Statuses

(* Every step of a process, its death included, is of that kind.            *)
LEMMA ProcessSteps ==
    ASSUME TypeOK, NEW p \in Procs, HelperStep(p) \/ ProcessDies(p)
    PROVE  Proceeds(p) /\ status' \in [Ids -> Statuses]
<1>1. proc[p] \in Helper /\ proc[p].dev \in Ids /\ status \in [Ids -> Statuses]
  <2>1. proc[p] \in Helper /\ status \in [Ids -> Statuses]
    BY DEF TypeOK, Procs
  <2>2. QED
    BY <2>1 DEF Helper
<1>2. ASSUME HelperOpensEvents(p) PROVE Proceeds(p) /\ status' = status
  BY <1>2, GotoMoves, ExitMoves DEF HelperOpensEvents, Proceeds
<1>3. ASSUME HelperEnables(p) PROVE Proceeds(p) /\ status' \in [Ids -> Statuses]
  <2>1. PICK o \in EnableOutcomes(proc[p].dev) :
            /\ status' = [status EXCEPT ![proc[p].dev] = o.to]
            /\ IF o.ok THEN Goto(p, "enabled")
               ELSE proc' = [proc EXCEPT ![p].st = "exited", ![p].code = 1, ![p].done = TRUE]
    BY <1>3 DEF HelperEnables
  <2>2. status' \in [Ids -> Statuses]
    BY <1>1, <2>1, OutcomeType
  <2>3. UNCHANGED appVars
    BY <1>3 DEF HelperEnables
  <2>4. CASE o.ok
    BY <2>1, <2>2, <2>3, <2>4, GotoMoves DEF Proceeds
  <2>5. CASE ~o.ok
    <3> DEFINE h == [proc[p] EXCEPT !.st = "exited", !.code = 1, !.done = TRUE]
    <3>1. /\ h \in Helper /\ h.st = "exited" /\ h.code = 1 /\ h.stop = proc[p].stop
          /\ h.kind = proc[p].kind /\ h.dev = proc[p].dev /\ h.parent = proc[p].parent
      <4>1. h.st = "exited" /\ h.code = 1
        BY <1>1 DEF Helper
      <4>2. /\ h.stop = proc[p].stop /\ h.kind = proc[p].kind
            /\ h.dev = proc[p].dev /\ h.parent = proc[p].parent
        BY <1>1 DEF Helper
      <4>3. h \in Helper
        <5>1. PICK c \in 0 .. 2 : c = 1
          OBVIOUS
        <5> DEFINE g == [proc[p] EXCEPT !.st = "exited", !.code = c]
        <5>2. g \in Helper
          BY <1>1 DEF Helper
        <5>3. h = [g EXCEPT !.done = TRUE]
          BY <5>1
        <5> HIDE DEF g, h
        <5>4. QED
          BY <5>2, <5>3 DEF Helper
      <4>4. QED
        BY <4>1, <4>2, <4>3
    <3>2. proc' = [proc EXCEPT ![p] = h] /\ proc \in Seq(Helper) /\ p \in 1 .. Len(proc)
      BY <2>1, <2>5, <1>1 DEF TypeOK, Procs
    <3> HIDE DEF h
    <3>3. Moves(p) /\ proc'[p] = h
      BY <3>1, <3>2, Replaced DEF Moves, Procs
    <3>4. QED
      BY <2>2, <2>3, <3>1, <3>3 DEF Proceeds
  <2>6. QED
    BY <2>4, <2>5
<1>4. ASSUME HelperSignalsDone(p) PROVE Proceeds(p) /\ status' = status
  <2> DEFINE h == [proc[p] EXCEPT !.st = "attach", !.done = TRUE]
  <2>1. /\ h \in Helper /\ h.st = "attach" /\ h.stop = proc[p].stop
        /\ h.kind = proc[p].kind /\ h.dev = proc[p].dev /\ h.parent = proc[p].parent
    BY <1>1 DEF Helper
  <2>2. /\ proc' = [proc EXCEPT ![p] = h] /\ proc \in Seq(Helper) /\ p \in 1 .. Len(proc)
        /\ UNCHANGED << appVars, status >>
    BY <1>1, <1>4 DEF HelperSignalsDone, TypeOK, Procs
  <2> HIDE DEF h
  <2>3. Moves(p) /\ proc'[p] = h
    BY <2>1, <2>2, Replaced DEF Moves, Procs
  <2>4. QED
    BY <2>1, <2>2, <2>3 DEF Proceeds
<1>5. ASSUME HelperWatches(p) PROVE Proceeds(p) /\ status' = status
  BY <1>5, GotoMoves DEF HelperWatches, Proceeds
<1>6. ASSUME HelperWaitsForStopOnly(p) PROVE Proceeds(p) /\ status' = status
  BY <1>6, GotoMoves DEF HelperWaitsForStopOnly, Proceeds
<1>7. ASSUME HelperTriggered(p) PROVE Proceeds(p) /\ status' = status
  BY <1>7, GotoMoves DEF HelperTriggered, Proceeds
<1>8. ASSUME DisablesAndExits(p) PROVE Proceeds(p) /\ status' \in [Ids -> Statuses]
  <2>1. status' \in [Ids -> Statuses]
    BY <1>1, <1>8 DEF DisablesAndExits, SetOff, Statuses
  <2>2. QED
    BY <1>8, <2>1, ExitMoves DEF DisablesAndExits, Proceeds
<1>9. ASSUME DisableFails(p) PROVE Proceeds(p) /\ status' = status
  BY <1>9, ExitMoves DEF DisableFails, DevconFails, Proceeds
<1>10. ASSUME Installs(p) PROVE Proceeds(p) /\ status' \in [Ids -> Statuses]
  <2>1. status' \in [Ids -> Statuses]
    BY <1>1, <1>10 DEF Installs, DevconFails, Statuses
  <2>2. UNCHANGED appVars /\ proc[p].kind = "install" /\ \E c \in 0 .. 1 : ExitWith(p, c)
    BY <1>10 DEF Installs
  <2>3. QED
    BY <2>1, <2>2, ExitMoves DEF Proceeds
<1>11. ASSUME ProcessDies(p) PROVE Proceeds(p) /\ status' = status
  BY <1>11, ExitMoves DEF ProcessDies, Proceeds
<1>12. QED
  BY <1>1, <1>2, <1>3, <1>4, <1>5, <1>6, <1>7, <1>8, <1>9, <1>10, <1>11 DEF HelperStep

(* They preserve the invariant.                                             *)
LEMMA ProcessInv ==
    ASSUME Inv, NEW p \in Procs, Proceeds(p), status' \in [Ids -> Statuses]
    PROVE  Inv'
<1>1. /\ UNCHANGED appVars /\ Moves(p) /\ p \in Nat \ {0}
      /\ proc'[p].stop = proc[p].stop /\ proc'[p].st # "launched"
      /\ proc'[p].st = "disabling" => proc[p].stop \/ ~ParentAlive(p)
      /\ proc'[p].st = "stop_only" => ~ParentAlive(p)
      /\ proc'[p].st = "exited" /\ proc'[p].code = 0 =>
             AboutToDisable(p) \/ proc[p].kind = "install"
  BY DEF Proceeds, Procs
<1>2. /\ proc' \in Seq(Helper) /\ Len(proc') = Len(proc) /\ Procs' = Procs
      /\ \A q \in Procs : q # p => proc'[q] = proc[q]
      /\ proc'[p].kind = proc[p].kind /\ proc'[p].dev = proc[p].dev
      /\ proc'[p].parent = proc[p].parent
  BY <1>1 DEF Moves, Procs
<1>3. TypeOK'
  <2>1. \A q \in Procs : proc'[q].parent = proc[q].parent
    BY <1>2
  <2>2. QED
    BY <1>1, <1>2, <2>1 DEF Inv, TypeOK
<1>4. AppInv'
  BY <1>1 DEF Inv, AppInv
<1>5. Served'
  <2> SUFFICES ASSUME pc \in WithHelper, waits # 0
               PROVE  /\ proc'[waits].kind = "resident" /\ proc'[waits].dev = ctl.dev
                      /\ proc'[waits].parent = run
                      /\ pc \in {"spawn", "monitor", "live"} =>
                            /\ ~proc'[waits].stop
                            /\ proc'[waits].st \notin {"stop_only", "disabling"}
                            /\ proc'[waits].st = "exited" => proc'[waits].code # 0
    BY <1>1 DEF Served
  <2>1. waits \in Procs
    BY DEF Inv, TypeOK, Procs
  <2>2. CASE waits # p
    BY <1>2, <2>1, <2>2 DEF Inv, Served
  <2>3. CASE waits = p
    <3>1. proc[p].kind = "resident" /\ proc[p].dev = ctl.dev /\ proc[p].parent = run
      BY <2>3 DEF Inv, Served
    <3>2. ASSUME pc \in {"spawn", "monitor", "live"}
          PROVE  /\ ~proc'[p].stop
                 /\ proc'[p].st \notin {"stop_only", "disabling"}
                 /\ proc'[p].st = "exited" => proc'[p].code # 0
      <4>1. ~proc[p].stop /\ proc[p].st # "disabling"
        BY <2>3, <3>2 DEF Inv, Served
      <4>2. ParentAlive(p)
        BY <3>1, <3>2 DEF ParentAlive
      <4>3. ~AboutToDisable(p)
        BY <3>1, <4>1 DEF AboutToDisable, Resident
      <4>4. QED
        BY <1>1, <3>1, <4>1, <4>2, <4>3
    <3>3. QED
      BY <1>2, <2>3, <3>1, <3>2
  <2>4. QED
    BY <2>2, <2>3
<1>6. Triggers'
  <2>1. ASSUME NEW q \in Procs, q # p
        PROVE  /\ Resident(q, "disabling")' => Told(q)'
               /\ proc'[q].kind = "disable" /\ proc'[q].st = "launched" =>
                      Told(q)' \/ (pc' = "oneshot" /\ waits' = q)
    BY <1>1, <1>2, <2>1 DEF Inv, Triggers, Resident, Told
  <2>2. Resident(p, "disabling")' => Told(p)'
    BY <1>1, <1>2 DEF Resident, Told, ParentAlive
  <2>3. QED
    BY <1>1, <1>2, <2>1, <2>2 DEF Triggers
<1>7. QED
  BY <1>3, <1>4, <1>5, <1>6 DEF Inv

-----------------------------------------------------------------------------
(* The steps of the app.                                                    *)

(* The app drops its session and all it holds, or dies.                     *)
Rests ==
    /\ pc' \in {"idle", "down"} /\ ctl' = NoCtl /\ waits' = 0
    /\ baseline' = {} /\ shown' = None
    /\ UNCHANGED << elevated, proc, run >>

(* Dropping everything is safe, if the one-shot helper has exited.          *)
LEMMA RestsInv ==
    ASSUME Inv, Rests, status' \in [Ids -> Statuses],
           pc' = "idle" => pc # "down" /\ (pc = "oneshot" => ~Live(waits))
    PROVE  Inv'
<1>1. /\ pc' \in {"idle", "down"} /\ ctl' = NoCtl /\ waits' = 0 /\ proc' = proc
      /\ run' = run /\ Procs' = Procs
  BY DEF Rests, Procs
<1>2. TypeOK'
  <2>1. ctl' \in [dev : Ids \cup {None}, enabled : BOOLEAN, resident : {0, waits'}]
    BY <1>1 DEF NoCtl
  <2>2. pc' \in Pcs
    BY <1>1 DEF Pcs
  <2>3. QED
    BY <1>1, <2>1, <2>2 DEF Inv, TypeOK, Rests
<1>3. AppInv'
  BY <1>1 DEF Inv, AppInv, Busy
<1>4. Served'
  BY <1>1 DEF Served
<1>5. Triggers'
  <2> SUFFICES ASSUME NEW q \in Procs
               PROVE  /\ Resident(q, "disabling") => Told(q)'
                      /\ proc[q].kind = "disable" /\ proc[q].st = "launched" => Told(q)'
    BY <1>1 DEF Triggers, Resident
  <2>1. CASE pc' = "down"
    BY <2>1 DEF Told
  <2>2. CASE pc' = "idle"
    <3>1. Told(q) => Told(q)'
      BY <1>1, <2>2 DEF Told
    <3>2. ~(pc = "oneshot" /\ waits = q /\ proc[q].st = "launched")
      BY <2>2 DEF Live
    <3>3. QED
      BY <3>1, <3>2 DEF Inv, Triggers
  <2>3. QED
    BY <1>1, <2>1, <2>2
<1>6. QED
  BY <1>2, <1>3, <1>4, <1>5 DEF Inv

(* The app goes on within its launch, the processes as they were.           *)
Goes ==
    /\ pc # "down" /\ pc' # "down" /\ pc # "oneshot"
    /\ UNCHANGED << proc, run >>

(* Such a step keeps what Triggers says.                                    *)
LEMMA GoesTriggers ==
    ASSUME Inv, Goes
    PROVE  Triggers'
BY DEF Goes, Inv, Triggers, Told, Resident, Procs

(* The processes as they were, all but the one the app told to stop.        *)
LEMMA AppInvNext ==
    ASSUME Inv, AppStep \/ UserStep
    PROVE  Inv'
<1> DEFINE CtlType(w) == [dev : Ids \cup {None}, enabled : BOOLEAN, resident : {0, w}]
<1>0. /\ TypeOK /\ AppInv /\ Served /\ Triggers
      /\ proc \in Seq(Helper) /\ Len(proc) \in Nat /\ waits \in 0 .. Len(proc)
      /\ ctl \in CtlType(waits) /\ status \in [Ids -> Statuses]
  BY DEF Inv, TypeOK
<1>1. ASSUME DisableLeftover, pc \in {"startup", "idle"} PROVE Inv'
  <2>1. /\ ctl' = [dev |-> Detect, enabled |-> FALSE, resident |-> 0] /\ pc' = "fallback"
        /\ UNCHANGED << elevated, waits, baseline, shown, status, proc, run >>
        /\ Detect \in Ids
    BY <1>1, DetectType DEF DisableLeftover, NoCtl
  <2>2. TypeOK'
    BY <1>0, <2>1 DEF TypeOK, Pcs, Procs
  <2>3. AppInv' /\ Served'
    BY <1>0, <1>1, <2>1 DEF AppInv, Busy, Pcs, Served, WithHelper
  <2>4. Triggers'
    BY <1>1, <2>1, GoesTriggers DEF Goes
  <2>5. QED
    BY <2>2, <2>3, <2>4 DEF Inv
<1>2. ASSUME StartApp PROVE Inv'
  <2>1. /\ pc = "down" /\ pc' = "startup" /\ run' = run + 1 /\ elevated' \in BOOLEAN
        /\ UNCHANGED << ctl, waits, baseline, shown, status, proc >>
        /\ run \in Nat /\ run' \in 0 .. MaxRuns
    BY <1>0, <1>2, VddAssumption DEF StartApp, TypeOK
  <2>2. \A p \in Procs : proc[p].parent \in 1 .. run' /\ proc[p].parent # run'
    BY <1>0, <2>1 DEF TypeOK
  <2>3. TypeOK'
    BY <1>0, <2>1, <2>2 DEF TypeOK, Pcs, Procs
  <2>4. AppInv' /\ Served'
    BY <1>0, <2>1 DEF AppInv, Busy, Pcs, Served, WithHelper
  <2>5. Triggers'
    BY <2>1, <2>2 DEF Triggers, Told, Resident, Procs
  <2>6. QED
    BY <2>3, <2>4, <2>5 DEF Inv
<1>3. ASSUME BeginSession PROVE Inv'
  <2>1. /\ ctl' = [dev |-> Detect, enabled |-> FALSE, resident |-> 0] /\ pc' = "enable"
        /\ pc = "idle" /\ baseline' = Attached /\ Detect \in Ids
        /\ UNCHANGED << elevated, waits, shown, status, proc, run >>
    BY <1>3, DetectType DEF BeginSession, NoCtl
  <2>2. TypeOK'
    BY <1>0, <2>1 DEF TypeOK, Pcs, Procs, Attached
  <2>3. AppInv' /\ Served'
    BY <1>0, <2>1 DEF AppInv, Busy, Pcs, Served, WithHelper
  <2>4. Triggers'
    BY <2>1, GoesTriggers DEF Goes
  <2>5. QED
    BY <2>2, <2>3, <2>4 DEF Inv
<1>4. ASSUME EnableDirect PROVE Inv'
  <2>1. PICK o \in EnableOutcomes(ctl.dev) :
            /\ status' = [status EXCEPT ![ctl.dev] = o.to]
            /\ IF o.ok /\ VerifyDevnodeStarted(o.to)
               THEN /\ pc' = "monitor" /\ ctl' = [ctl EXCEPT !.enabled = TRUE]
                    /\ UNCHANGED << waits, baseline, shown >>
               ELSE ToIdle
    BY <1>4 DEF EnableDirect
  <2>2. pc = "enable" /\ UNCHANGED << elevated, proc, run >> /\ ctl.dev \in Ids
    BY <1>0, <1>4 DEF EnableDirect, AppInv, Busy, Pcs
  <2>3. status' \in [Ids -> Statuses]
    BY <1>0, <2>1, <2>2, OutcomeType
  <2>4. CASE ToIdle
    BY <2>2, <2>3, <2>4, RestsInv DEF ToIdle, Rests
  <2>5. CASE ~ToIdle
    <3>1. /\ pc' = "monitor" /\ ctl' = [ctl EXCEPT !.enabled = TRUE]
          /\ UNCHANGED << waits, baseline, shown >>
      BY <2>1, <2>5
    <3>2. /\ ctl' \in CtlType(waits) /\ ctl'.enabled /\ ctl'.dev = ctl.dev
          /\ ctl'.resident = ctl.resident
      BY <1>0, <3>1
    <3>3. waits = 0 /\ ctl.resident = 0
      BY <1>0, <2>2 DEF AppInv
    <3>4. TypeOK'
      BY <1>0, <2>2, <2>3, <3>1, <3>2 DEF TypeOK, Pcs, Procs
    <3>5. AppInv' /\ Served'
      BY <1>0, <2>2, <3>1, <3>2, <3>3 DEF AppInv, Busy, Pcs, Served, WithHelper
    <3>6. Triggers'
      BY <2>2, <3>1, GoesTriggers DEF Goes
    <3>7. QED
      BY <3>4, <3>5, <3>6 DEF Inv
  <2>6. QED
    BY <2>4, <2>5
<1>5. ASSUME SpawnResidentHelper PROVE Inv'
  <2>1. /\ pc = "enable" /\ pc' = "spawn" /\ proc' = Append(proc, Process("resident", ctl.dev))
        /\ waits' = Len(proc) + 1
        /\ UNCHANGED << elevated, ctl, baseline, shown, status, run >>
    BY <1>5 DEF SpawnResidentHelper, Launch
  <2>2. ctl.dev \in Ids /\ run \in Nat \ {0} /\ ctl.resident = 0 /\ run \in 0 .. MaxRuns
    BY <1>0, <2>1 DEF AppInv, Busy, Pcs, TypeOK
  <2>3. /\ proc' \in Seq(Helper) /\ Len(proc') = Len(proc) + 1
        /\ \A q \in Procs : proc'[q] = proc[q]
        /\ proc'[Len(proc) + 1] = Process("resident", ctl.dev)
    BY <1>0, <2>1, <2>2, Launched
  <2>4. /\ proc'[Len(proc) + 1].kind = "resident" /\ proc'[Len(proc) + 1].dev = ctl.dev
        /\ proc'[Len(proc) + 1].parent = run /\ ~proc'[Len(proc) + 1].stop
        /\ proc'[Len(proc) + 1].st = "launched"
    BY <2>3 DEF Process
  <2>5. Procs' = Procs \cup {Len(proc) + 1}
    BY <1>0, <2>3 DEF Procs
  <2>6. TypeOK'
    <3>1. \A q \in Procs' : proc'[q].parent \in 1 .. run
      BY <1>0, <2>2, <2>3, <2>4, <2>5 DEF TypeOK
    <3>2. ctl' \in CtlType(waits') /\ waits' \in 0 .. Len(proc') /\ pc' \in Pcs
      BY <1>0, <2>1, <2>2, <2>3 DEF Pcs
    <3>3. QED
      BY <1>0, <2>1, <2>3, <3>1, <3>2 DEF TypeOK
  <2>7. AppInv'
    BY <1>0, <2>1, <2>2 DEF AppInv, Busy, Pcs
  <2>8. Served'
    BY <2>1, <2>4 DEF Served
  <2>9. Triggers'
    BY <1>0, <2>1, <2>3, <2>4, <2>5, ZenonT(30) DEF Triggers, Told, Resident
  <2>10. QED
    BY <2>6, <2>7, <2>8, <2>9 DEF Inv
<1>6. ASSUME RunHelperElevated PROVE Inv'
  <2>1. /\ pc = "fallback" /\ pc' = "oneshot" /\ proc' = Append(proc, Process("disable", ctl.dev))
        /\ waits' = Len(proc) + 1
        /\ UNCHANGED << elevated, ctl, baseline, shown, status, run >>
    BY <1>6 DEF RunHelperElevated, Launch
  <2>2. ctl.dev \in Ids /\ run \in Nat \ {0} /\ ctl.resident = 0 /\ run \in 0 .. MaxRuns
    BY <1>0, <2>1 DEF AppInv, Busy, Pcs, TypeOK
  <2>3. /\ proc' \in Seq(Helper) /\ Len(proc') = Len(proc) + 1
        /\ \A q \in Procs : proc'[q] = proc[q]
        /\ proc'[Len(proc) + 1] = Process("disable", ctl.dev)
    BY <1>0, <2>1, <2>2, Launched
  <2>4. proc'[Len(proc) + 1].kind = "disable" /\ proc'[Len(proc) + 1].parent = run
    BY <2>3 DEF Process
  <2>5. Procs' = Procs \cup {Len(proc) + 1}
    BY <1>0, <2>3 DEF Procs
  <2>6. TypeOK'
    <3>1. \A q \in Procs' : proc'[q].parent \in 1 .. run
      BY <1>0, <2>2, <2>3, <2>4, <2>5 DEF TypeOK
    <3>2. ctl' \in CtlType(waits') /\ waits' \in 0 .. Len(proc') /\ pc' \in Pcs
      BY <1>0, <2>1, <2>2, <2>3 DEF Pcs
    <3>3. QED
      BY <1>0, <2>1, <2>3, <3>1, <3>2 DEF TypeOK
  <2>7. AppInv' /\ Served'
    BY <1>0, <2>1, <2>2 DEF AppInv, Busy, Pcs, Served, WithHelper
  <2>8. Triggers'
    BY <1>0, <2>1, <2>3, <2>4, <2>5 DEF Triggers, Told, Resident
  <2>9. QED
    BY <2>6, <2>7, <2>8 DEF Inv
<1>7. ASSUME InstallDriver PROVE Inv'
  <2>1. PICK d \in Matching : proc' = Append(proc, Process("install", d))
    BY <1>7 DEF InstallDriver
  <2>2. d \in Ids /\ UNCHANGED << appVars, status >> /\ run \in Nat \ {0} /\ run \in 0 .. MaxRuns
    BY <1>0, <1>7, VddAssumption DEF InstallDriver, AppInv, TypeOK
  <2>3. /\ proc' \in Seq(Helper) /\ Len(proc') = Len(proc) + 1
        /\ \A q \in Procs : proc'[q] = proc[q]
        /\ proc'[Len(proc) + 1] = Process("install", d)
    BY <1>0, <2>1, <2>2, Launched
  <2>4. proc'[Len(proc) + 1].kind = "install" /\ proc'[Len(proc) + 1].parent = run
    BY <2>3 DEF Process
  <2>5. Procs' = Procs \cup {Len(proc) + 1}
    BY <1>0, <2>3 DEF Procs
  <2>6. TypeOK'
    <3>1. \A q \in Procs' : proc'[q].parent \in 1 .. run
      BY <1>0, <2>2, <2>3, <2>4, <2>5 DEF TypeOK
    <3>2. QED
      BY <1>0, <2>2, <2>3, <3>1 DEF TypeOK
  <2>7. AppInv'
    BY <1>0, <2>2 DEF AppInv
  <2>8. Served'
    <3>1. waits # 0 => waits \in Procs
      BY <1>0 DEF Procs
    <3>2. QED
      BY <1>0, <2>2, <2>3, <3>1 DEF Served
  <2>9. Triggers'
    BY <1>0, <2>2, <2>3, <2>4, <2>5 DEF Triggers, Told, Resident
  <2>10. QED
    BY <2>6, <2>7, <2>8, <2>9 DEF Inv
<1>8. ASSUME SpawnDone PROVE Inv'
  <2>1. /\ pc = "spawn" /\ pc' = "monitor"
        /\ ctl' = [ctl EXCEPT !.enabled = TRUE, !.resident = waits]
        /\ UNCHANGED << elevated, waits, baseline, shown, status, proc, run >>
    BY <1>8 DEF SpawnDone
  <2>2. /\ ctl' \in CtlType(waits) /\ ctl'.dev = ctl.dev /\ ctl'.enabled
        /\ ctl'.resident = waits
    BY <1>0, <2>1
  <2>3. TypeOK'
    BY <1>0, <2>1, <2>2 DEF TypeOK, Pcs, Procs
  <2>4. AppInv' /\ Served'
    BY <1>0, <2>1, <2>2 DEF AppInv, Busy, Pcs, Served, WithHelper
  <2>5. Triggers'
    BY <2>1, GoesTriggers DEF Goes
  <2>6. QED
    BY <2>3, <2>4, <2>5 DEF Inv
<1>9. ASSUME MonitorUp PROVE Inv'
  <2>1. /\ pc = "monitor" /\ pc' = "live" /\ shown' \in Ids
        /\ UNCHANGED << elevated, ctl, waits, baseline, status, proc, run >>
    BY <1>9 DEF MonitorUp
  <2>2. TypeOK'
    BY <1>0, <2>1 DEF TypeOK, Pcs, Procs
  <2>3. AppInv' /\ Served'
    BY <1>0, <2>1 DEF AppInv, Busy, Pcs, Served, WithHelper
  <2>4. Triggers'
    BY <2>1, GoesTriggers DEF Goes
  <2>5. QED
    BY <2>2, <2>3, <2>4 DEF Inv
<1>10. ASSUME EndSession PROVE Inv'
  <2>1. /\ pc \in {"monitor", "live"} /\ shown' = None
        /\ UNCHANGED << elevated, ctl, waits, baseline, status, run >>
    BY <1>10 DEF EndSession
  <2>2. CASE ctl.resident = 0
    <3>1. pc' = "fallback" /\ proc' = proc
      BY <1>10, <2>2 DEF EndSession
    <3>2. TypeOK'
      BY <1>0, <2>1, <3>1 DEF TypeOK, Pcs, Procs
    <3>3. AppInv' /\ Served'
      BY <1>0, <2>1, <2>2, <3>1 DEF AppInv, Busy, Pcs, Served, WithHelper
    <3>4. Triggers'
      BY <2>1, <3>1, GoesTriggers DEF Goes
    <3>5. QED
      BY <3>2, <3>3, <3>4 DEF Inv
  <2>3. CASE ctl.resident # 0
    <3> DEFINE h == [proc[waits] EXCEPT !.stop = TRUE]
    <3>1. ctl.resident = waits /\ waits \in Procs /\ waits \in 1 .. Len(proc) /\ waits # 0
      BY <1>0, <2>3 DEF Procs
    <3>2. pc' = "shutdown" /\ proc' = [proc EXCEPT ![waits] = h]
      BY <1>10, <2>3, <3>1 DEF EndSession
    <3>3. /\ h \in Helper /\ h.stop = TRUE /\ h.kind = proc[waits].kind
          /\ h.dev = proc[waits].dev /\ h.parent = proc[waits].parent
      <4>1. proc[waits] \in Helper
        BY <1>0, <3>1
      <4>2. QED
        BY <4>1 DEF Helper
    <3> HIDE DEF h
    <3>4. /\ proc' \in Seq(Helper) /\ Len(proc') = Len(proc) /\ proc'[waits] = h
          /\ Procs' = Procs /\ \A q \in Procs : q # waits => proc'[q] = proc[q]
      BY <1>0, <3>1, <3>2, <3>3, Replaced DEF Procs
    <3>5. TypeOK'
      <4>1. \A q \in Procs : proc'[q].parent = proc[q].parent
        BY <3>3, <3>4
      <4>2. QED
        BY <1>0, <2>1, <3>2, <3>4, <4>1 DEF TypeOK, Pcs
    <3>6. AppInv'
      BY <1>0, <2>1, <2>3, <3>2 DEF AppInv, Busy, Pcs
    <3>7. Served'
      BY <1>0, <2>1, <3>1, <3>2, <3>3, <3>4 DEF Served, WithHelper
    <3>8. Triggers'
      BY <1>0, <2>1, <3>1, <3>2, <3>3, <3>4 DEF Triggers, Told, Resident
    <3>9. QED
      BY <3>5, <3>6, <3>7, <3>8 DEF Inv
  <2>4. QED
    BY <2>2, <2>3
<1>11. ASSUME ShutdownUnclean \/ DropHelper PROVE Inv'
  <2>1. /\ pc \in {"shutdown", "drop"} /\ pc' = "fallback" /\ waits' = 0
        /\ ctl' = [ctl EXCEPT !.resident = 0]
        /\ UNCHANGED << elevated, baseline, shown, status, proc, run >>
    BY <1>11 DEF ShutdownUnclean, DropHelper
  <2>2. ctl' \in CtlType(0) /\ ctl'.dev = ctl.dev
    BY <1>0, <2>1
  <2>3. TypeOK'
    BY <1>0, <2>1, <2>2 DEF TypeOK, Pcs, Procs
  <2>4. AppInv' /\ Served'
    BY <1>0, <2>1, <2>2 DEF AppInv, Busy, Pcs, Served, WithHelper
  <2>5. Triggers'
    BY <2>1, GoesTriggers DEF Goes
  <2>6. QED
    BY <2>3, <2>4, <2>5 DEF Inv
<1>12. ASSUME ShutdownTimeout PROVE Inv'
  <2>1. /\ pc = "shutdown" /\ pc' = "drop"
        /\ UNCHANGED << elevated, ctl, waits, baseline, shown, status, proc, run >>
    BY <1>12 DEF ShutdownTimeout
  <2>2. TypeOK'
    BY <1>0, <2>1 DEF TypeOK, Pcs, Procs
  <2>3. AppInv' /\ Served'
    BY <1>0, <2>1 DEF AppInv, Busy, Pcs, Served, WithHelper
  <2>4. Triggers'
    BY <2>1, GoesTriggers DEF Goes
  <2>5. QED
    BY <2>2, <2>3, <2>4 DEF Inv
<1>13. ASSUME FallbackDirect PROVE Inv'
  <2>1. status' \in [Ids -> Statuses]
    BY <1>0, <1>13 DEF FallbackDirect, SetOff, Statuses
  <2>2. QED
    BY <1>13, <2>1, RestsInv DEF FallbackDirect, ToIdle, Rests
<1>14. ASSUME \/ StartupFindsNothing \/ SpawnRefused \/ SpawnFails \/ ShutdownClean
              \/ FallbackFails \/ FallbackRefused \/ OneShotReturns
       PROVE  Inv'
  BY <1>0, <1>14, RestsInv
     DEF StartupFindsNothing, SpawnRefused, SpawnFails, ShutdownClean, FallbackFails,
         DevconFails, FallbackRefused, OneShotReturns, ToIdle, Rests
<1>15. ASSUME AppDies PROVE Inv'
  BY <1>0, <1>15, RestsInv DEF AppDies, Rests
<1>16. QED
  BY <1>1, <1>2, <1>3, <1>4, <1>5, <1>6, <1>7, <1>8, <1>9, <1>10, <1>11, <1>12, <1>13,
     <1>14, <1>15
     DEF AppStep, UserStep, StartupFindsLeftover, DuplicateFindsLeftover

-----------------------------------------------------------------------------
(* The invariant.                                                           *)

(* The invariant holds before the first launch.                             *)
LEMMA InvInit == Init => Inv
<1> SUFFICES ASSUME Init PROVE Inv
  OBVIOUS
<1>1. /\ pc = "down" /\ elevated = FALSE /\ ctl = NoCtl /\ waits = 0 /\ baseline = {}
      /\ shown = None /\ proc = << >> /\ run = 0 /\ status \in [Ids -> Statuses]
  BY VddAssumption DEF Init
<1>2. proc \in Seq(Helper) /\ Len(proc) = 0 /\ Procs = {}
  BY <1>1 DEF Procs
<1>3. TypeOK
  <2>1. ctl \in [dev : Ids \cup {None}, enabled : BOOLEAN, resident : {0, waits}]
    BY <1>1 DEF NoCtl
  <2>2. pc \in Pcs /\ elevated \in BOOLEAN
    BY <1>1 DEF Pcs
  <2>3. run \in 0 .. MaxRuns /\ waits \in 0 .. Len(proc)
    BY <1>1, <1>2, VddAssumption
  <2>4. QED
    BY <1>1, <1>2, <2>1, <2>2, <2>3 DEF TypeOK
<1>4. AppInv /\ Served /\ Triggers
  BY <1>1, <1>2 DEF AppInv, Busy, Served, Triggers
<1>5. QED
  BY <1>3, <1>4 DEF Inv

(* Every step preserves it.                                                 *)
LEMMA InvNext == Inv /\ [Next]_vars => Inv'
<1> SUFFICES ASSUME Inv, [Next]_vars PROVE Inv'
  OBVIOUS
<1>1. CASE AppStep \/ UserStep
  BY <1>1, AppInvNext
<1>2. ASSUME NEW p \in Procs, HelperStep(p) \/ ProcessDies(p) PROVE Inv'
  <2>1. Proceeds(p) /\ status' \in [Ids -> Statuses]
    BY <1>2, ProcessSteps DEF Inv
  <2>2. QED
    BY <2>1, ProcessInv
<1>3. CASE UNCHANGED vars
  BY <1>3 DEF Inv, TypeOK, AppInv, Served, Triggers, Told, Resident, Procs
<1>4. QED
  BY <1>1, <1>2, <1>3 DEF Next

(* So it is an invariant.                                                   *)
THEOREM Invariance == Spec => []Inv
BY InvInit, InvNext, PTL DEF Spec

(* The controller, the processes and the devices keep their types: detect   *)
(* and every launch yield a device of the machine, and a helper the app     *)
(* refers to is one whose handles it holds.                                 *)
THEOREM TypeCorrect == Spec => []TypeOK
<1>1. Inv => TypeOK
  BY DEF Inv
<1> QED BY <1>1, Invariance, PTL

-----------------------------------------------------------------------------
(* Who is going to disable.                                                 *)

(* The two parts of Committed: process p will disable its device, and the   *)
(* app will see to d.                                                       *)
Bound(p) == AboutToDisable(p) \/ \E s \in {"enabled", "attach", "watch"} : Resident(p, s)
AppCares(d) ==
    ctl.dev = d /\ \/ pc \in {"monitor", "live"} /\ ctl.enabled
                   \/ pc = "shutdown" /\ ~(~Live(waits) /\ proc[waits].code = 0)
                   \/ pc \in {"drop", "fallback"}

LEMMA CommittedParts ==
    ASSUME NEW d
    PROVE  Committed(d) = (AppCares(d) \/ \E p \in Procs : proc[p].dev = d /\ Bound(p))
BY DEF Committed, AppCares, Bound

(* Device d does not change, and every process that will disable it still   *)
(* will.                                                                    *)
Keeps(d) ==
    /\ status'[d] = status[d]
    /\ \A p \in Procs : proc[p].dev = d /\ Bound(p) =>
                           p \in Procs' /\ proc'[p].dev = d /\ Bound(p)'

(* Then nothing leaks while someone takes over what the app was to do.      *)
LEMMA KeepsNoLeak ==
    ASSUME NEW d \in Ids, Keeps(d), AppCares(d) => Committed(d)'
    PROVE  ~Leaks(d)
<1>1. On(d)' = On(d)
  BY DEF Keeps, On
<1>2. Committed(d) => AppCares(d) \/ \E p \in Procs : proc[p].dev = d /\ Bound(p)
  BY CommittedParts
<1>3. (\E p \in Procs' : proc'[p].dev = d /\ Bound(p)') => Committed(d)'
  BY DEF Committed, Bound
<1>4. Committed(d) => Committed(d)'
  BY <1>2, <1>3 DEF Keeps
<1>5. QED
  BY <1>1, <1>4 DEF Leaks

(* The processes as they were, or one more.                                 *)
LEMMA TableKept ==
    ASSUME TypeOK, status' = status, NEW d,
           proc' = proc \/ \E r : proc' = Append(proc, r)
    PROVE  Keeps(d)
<1>1. proc \in Seq(Helper) /\ Len(proc) \in Nat
  BY DEF TypeOK
<1>2. \A p \in Procs : p \in Procs' /\ proc'[p] = proc[p]
  <2>1. CASE proc' = proc
    BY <2>1 DEF Procs
  <2>2. ASSUME NEW r, proc' = Append(proc, r)
        PROVE  \A p \in Procs : p \in Procs' /\ proc'[p] = proc[p]
    BY <1>1, <2>2 DEF Procs
  <2>3. QED
    BY <2>1, <2>2
<1>3. QED
  BY <1>2 DEF Keeps, Bound, AboutToDisable, Resident

(* What the app does by itself leaks nothing, the four steps apart that     *)
(* NoSilentLeak names.                                                      *)
LEMMA AppLeaksNothing ==
    ASSUME Inv, AppStep \/ UserStep, NEW d \in Ids
    PROVE  Leaks(d) => AppDies \/ FallbackRefused \/ FallbackFails \/ EnableDirect
<1>0. /\ TypeOK /\ AppInv /\ Served /\ proc \in Seq(Helper) /\ Len(proc) \in Nat
      /\ waits \in 0 .. Len(proc) /\ status \in [Ids -> Statuses]
      /\ ctl.resident \in {0, waits}
  BY DEF Inv, TypeOK
<1>1. ASSUME \/ StartupFindsLeftover \/ StartupFindsNothing \/ DuplicateFindsLeftover
             \/ SpawnRefused \/ SpawnDone \/ SpawnFails \/ OneShotReturns
             \/ StartApp \/ BeginSession
      PROVE  ~Leaks(d)
  <2>1. /\ pc \in {"startup", "idle", "enable", "spawn", "oneshot", "down"}
        /\ status' = status /\ proc' = proc
    BY <1>1 DEF StartupFindsLeftover, StartupFindsNothing, DuplicateFindsLeftover,
                DisableLeftover, SpawnRefused, SpawnDone, SpawnFails, OneShotReturns,
                StartApp, BeginSession
  <2>2. QED
    BY <1>0, <2>1, TableKept, KeepsNoLeak DEF AppCares
<1>2. ASSUME SpawnResidentHelper PROVE ~Leaks(d)
  <2>1. pc = "enable" /\ status' = status /\ proc' = Append(proc, Process("resident", ctl.dev))
    BY <1>2 DEF SpawnResidentHelper, Launch
  <2>2. Keeps(d)
    BY <1>0, <2>1, TableKept
  <2>3. QED
    BY <2>1, <2>2, KeepsNoLeak DEF AppCares
<1>3. ASSUME ShutdownClean PROVE ~Leaks(d)
  <2>1. status' = status /\ proc' = proc /\ ~AppCares(d)
    BY <1>3 DEF ShutdownClean, AppCares
  <2>2. QED
    BY <1>0, <2>1, TableKept, KeepsNoLeak
<1>4. ASSUME MonitorUp \/ ShutdownUnclean \/ ShutdownTimeout \/ DropHelper PROVE ~Leaks(d)
  <2>1. status' = status /\ proc' = proc
    BY <1>4 DEF MonitorUp, ShutdownUnclean, ShutdownTimeout, DropHelper
  <2>2. /\ ctl'.dev = ctl.dev
        /\ \/ pc = "monitor" /\ pc' = "live" /\ ctl' = ctl
           \/ pc \in {"shutdown", "drop"} /\ pc' \in {"drop", "fallback"}
    BY <1>4, <1>0 DEF MonitorUp, ShutdownUnclean, ShutdownTimeout, DropHelper, TypeOK
  <2>3. AppCares(d) => AppCares(d)'
    BY <2>2 DEF AppCares
  <2>4. AppCares(d)' => Committed(d)'
    BY DEF AppCares, Committed
  <2>5. QED
    BY <1>0, <2>1, <2>3, <2>4, TableKept, KeepsNoLeak
<1>5. ASSUME EndSession PROVE ~Leaks(d)
  <2>1. pc \in {"monitor", "live"} /\ status' = status /\ ctl' = ctl /\ waits' = waits
    BY <1>5 DEF EndSession
  <2>2. AppCares(d)' => Committed(d)'
    BY DEF AppCares, Committed
  <2>3. CASE ctl.resident = 0
    <3>1. pc' = "fallback" /\ proc' = proc
      BY <1>5, <2>3 DEF EndSession
    <3>2. AppCares(d) => AppCares(d)'
      BY <2>1, <3>1 DEF AppCares
    <3>3. QED
      BY <1>0, <2>1, <2>2, <3>1, <3>2, TableKept, KeepsNoLeak
  <2>4. CASE ctl.resident # 0
    <3> DEFINE h == [proc[waits] EXCEPT !.stop = TRUE]
    <3>1. ctl.resident = waits /\ waits \in Procs /\ waits \in 1 .. Len(proc)
      BY <1>0, <2>4 DEF Procs
    <3>2. pc' = "shutdown" /\ proc' = [proc EXCEPT ![waits] = h]
      BY <1>5, <2>4, <3>1 DEF EndSession
    <3>3. proc[waits] \in Helper
      BY <1>0, <3>1
    <3>4. /\ h \in Helper /\ h.kind = proc[waits].kind /\ h.dev = proc[waits].dev
          /\ h.st = proc[waits].st /\ h.code = proc[waits].code
      BY <3>3 DEF Helper
    <3> HIDE DEF h
    <3>5. /\ proc'[waits] = h /\ Procs' = Procs
          /\ \A q \in Procs : q # waits => proc'[q] = proc[q]
      BY <1>0, <3>1, <3>2, <3>4, Replaced DEF Procs
    <3>6. \A q \in Procs : /\ proc'[q].kind = proc[q].kind /\ proc'[q].st = proc[q].st
                           /\ proc'[q].dev = proc[q].dev
      BY <3>4, <3>5
    <3>7. Keeps(d)
      BY <2>1, <3>5, <3>6 DEF Keeps, Bound, AboutToDisable, Resident
    <3>8. ~(~Live(waits)' /\ proc'[waits].code = 0)
      BY <1>0, <2>1, <3>1, <3>4, <3>5 DEF Served, WithHelper, Live
    <3>9. AppCares(d) => AppCares(d)'
      BY <2>1, <3>2, <3>8 DEF AppCares, Live
    <3>10. QED
      BY <2>2, <3>7, <3>9, KeepsNoLeak
  <2>5. QED
    BY <2>3, <2>4
<1>6. ASSUME FallbackDirect PROVE ~Leaks(d)
  <2>1. /\ pc = "fallback" /\ proc' = proc
        /\ status' = [status EXCEPT ![ctl.dev] = IF @ = "absent" THEN @ ELSE "off"]
    BY <1>6 DEF FallbackDirect, SetOff
  <2>2. CASE d = ctl.dev
    <3>1. ~On(d)'
      BY <1>0, <2>1, <2>2 DEF On
    <3>2. QED
      BY <3>1 DEF Leaks
  <2>3. CASE d # ctl.dev
    <3>1. status'[d] = status[d] /\ ~AppCares(d)
      BY <1>0, <2>1, <2>3 DEF AppCares
    <3>2. Keeps(d)
      BY <2>1, <3>1 DEF Keeps, Bound, AboutToDisable, Resident, Procs
    <3>3. QED
      BY <3>1, <3>2, KeepsNoLeak
  <2>4. QED
    BY <2>2, <2>3
<1>7. ASSUME RunHelperElevated PROVE ~Leaks(d)
  <2>1. pc = "fallback" /\ status' = status /\ proc' = Append(proc, Process("disable", ctl.dev))
    BY <1>7 DEF RunHelperElevated, Launch
  <2>2. ctl.dev \in Ids /\ run \in Nat \ {0}
    BY <1>0, <2>1 DEF AppInv, Busy, Pcs
  <2>3. /\ Len(proc') = Len(proc) + 1
        /\ proc'[Len(proc) + 1] = Process("disable", ctl.dev)
    BY <1>0, <2>1, <2>2, Launched
  <2>4. Len(proc) + 1 \in Procs'
    BY <1>0, <2>3 DEF Procs
  <2>5. /\ proc'[Len(proc) + 1].dev = ctl.dev /\ proc'[Len(proc) + 1].kind = "disable"
        /\ proc'[Len(proc) + 1].st = "launched"
    BY <2>3 DEF Process
  <2>6. d = ctl.dev => Committed(d)'
    BY <2>4, <2>5 DEF Committed, AboutToDisable
  <2>7. Keeps(d)
    BY <1>0, <2>1, TableKept
  <2>8. QED
    BY <2>6, <2>7, KeepsNoLeak DEF AppCares
<1>8. ASSUME InstallDriver PROVE ~Leaks(d)
  <2>1. PICK e \in Matching : proc' = Append(proc, Process("install", e))
    BY <1>8 DEF InstallDriver
  <2>2. UNCHANGED << appVars, status >>
    BY <1>8 DEF InstallDriver
  <2>3. Keeps(d)
    BY <1>0, <2>1, <2>2, TableKept
  <2>4. pc = "shutdown" => proc'[waits] = proc[waits]
    <3>1. pc = "shutdown" => waits \in 1 .. Len(proc)
      BY <1>0 DEF AppInv
    <3>2. QED
      BY <1>0, <2>1, <3>1
  <2>5. AppCares(d) => AppCares(d)'
    BY <2>2, <2>4 DEF AppCares, Live
  <2>6. AppCares(d)' => Committed(d)'
    BY DEF AppCares, Committed
  <2>7. QED
    BY <2>3, <2>5, <2>6, KeepsNoLeak
<1>9. QED
  BY <1>1, <1>2, <1>3, <1>4, <1>5, <1>6, <1>7, <1>8 DEF AppStep, UserStep

(* A process leaks a device only when its devcon fails, when it installs or *)
(* when it finds the app gone before it watches it.                         *)
LEMMA ProcessLeaksNothing ==
    ASSUME Inv, NEW p \in Procs, HelperStep(p), NEW d \in Ids
    PROVE  Leaks(d) => DisableFails(p) \/ Installs(p) \/ HelperWaitsForStopOnly(p)
<1>0. /\ TypeOK /\ AppInv /\ Served /\ proc[p] \in Helper
      /\ waits \in 0 .. Len(proc) /\ status \in [Ids -> Statuses] /\ Len(proc) \in Nat
  BY DEF Inv, TypeOK, Procs
<1>1. Proceeds(p)
  BY <1>0, ProcessSteps
<1>2. /\ UNCHANGED appVars /\ Procs' = Procs
      /\ \A q \in Procs : q # p => proc'[q] = proc[q]
      /\ proc'[p].kind = proc[p].kind /\ proc'[p].dev = proc[p].dev
  BY <1>1 DEF Proceeds, Moves, Procs
<1>3. \A q \in Procs : q # p /\ Bound(q) => proc'[q].dev = proc[q].dev /\ Bound(q)'
  BY <1>2 DEF Bound, AboutToDisable, Resident
<1>4. AppCares(d)' => Committed(d)'
  BY DEF AppCares, Committed
<1>5. ASSUME ~(proc'[p].st = "exited" /\ proc'[p].code = 0) PROVE AppCares(d) => AppCares(d)'
  <2>1. CASE waits = p
    BY <1>2, <1>5, <2>1 DEF AppCares, Live
  <2>2. CASE waits # p
    <3>1. pc = "shutdown" => waits \in Procs
      BY <1>0 DEF AppInv, TypeOK, Procs
    <3>2. QED
      BY <1>2, <2>2, <3>1 DEF AppCares, Live
  <2>3. QED
    BY <2>1, <2>2
<1>6. ASSUME HelperOpensEvents(p) PROVE ~Leaks(d)
  <2>1. /\ status' = status /\ ~Bound(p)
        /\ ~(proc'[p].st = "exited" /\ proc'[p].code = 0)
    BY <1>0, <1>6, GotoMoves, ExitMoves
       DEF HelperOpensEvents, Bound, AboutToDisable, Resident
  <2>2. Keeps(d)
    BY <1>2, <1>3, <2>1 DEF Keeps
  <2>3. QED
    BY <1>4, <1>5, <2>1, <2>2, KeepsNoLeak
<1>7. ASSUME HelperEnables(p) PROVE ~Leaks(d)
  <2>1. PICK o \in EnableOutcomes(proc[p].dev) :
            /\ status' = [status EXCEPT ![proc[p].dev] = o.to]
            /\ IF o.ok THEN Goto(p, "enabled")
               ELSE proc' = [proc EXCEPT ![p].st = "exited", ![p].code = 1, ![p].done = TRUE]
    BY <1>7 DEF HelperEnables
  <2>2. proc[p].dev \in Ids /\ ~Bound(p) /\ proc[p].kind = "resident"
    BY <1>0, <1>7 DEF Helper, HelperEnables, Bound, AboutToDisable, Resident
  <2>3. CASE o.ok
    <3>1. proc'[p].st = "enabled"
      BY <1>0, <2>1, <2>3, GotoMoves
    <3>2. CASE d = proc[p].dev
      <4>1. Committed(d)'
        BY <1>2, <2>2, <3>1, <3>2 DEF Committed, Resident
      <4>2. QED
        BY <4>1 DEF Leaks
    <3>3. CASE d # proc[p].dev
      <4>1. status'[d] = status[d]
        BY <1>0, <2>1, <3>3
      <4>2. Keeps(d)
        BY <1>2, <1>3, <2>2, <4>1 DEF Keeps
      <4>3. QED
        BY <1>4, <1>5, <3>1, <4>2, KeepsNoLeak
    <3>4. QED
      BY <3>2, <3>3
  <2>4. CASE ~o.ok
    <3>1. o.to = status[proc[p].dev]
      BY <1>0, <2>2, <2>4, OutcomeType
    <3>2. status'[d] = status[d]
      BY <1>0, <2>1, <2>2, <3>1
    <3>3. proc'[p].code = 1
      BY <1>0, <2>1, <2>4 DEF Helper, TypeOK, Procs
    <3>4. Keeps(d)
      BY <1>2, <1>3, <2>2, <3>2 DEF Keeps
    <3>5. QED
      BY <1>4, <1>5, <3>3, <3>4, KeepsNoLeak
  <2>5. QED
    BY <2>3, <2>4
<1>8. ASSUME HelperSignalsDone(p) \/ HelperWatches(p) \/ HelperTriggered(p) PROVE ~Leaks(d)
  <2>1. status' = status /\ proc[p].kind = "resident"
    BY <1>8 DEF HelperSignalsDone, HelperWatches, HelperTriggered, Resident
  <2>2. proc'[p].st \in {"attach", "watch", "disabling"}
    <3>1. CASE HelperSignalsDone(p)
      BY <1>0, <3>1 DEF HelperSignalsDone, Helper, TypeOK, Procs
    <3>2. CASE HelperWatches(p)
      BY <1>0, <3>2, GotoMoves DEF HelperWatches
    <3>3. CASE HelperTriggered(p)
      BY <1>0, <3>3, GotoMoves DEF HelperTriggered
    <3>4. QED
      BY <1>8, <3>1, <3>2, <3>3
  <2>3. Bound(p)'
    BY <1>2, <2>1, <2>2 DEF Bound, AboutToDisable, Resident
  <2>4. Keeps(d)
    BY <1>2, <1>3, <2>1, <2>3 DEF Keeps
  <2>5. QED
    BY <1>4, <1>5, <2>2, <2>4, KeepsNoLeak
<1>9. ASSUME DisablesAndExits(p) PROVE ~Leaks(d)
  <2>1. /\ AboutToDisable(p)
        /\ status' = [status EXCEPT ![proc[p].dev] = IF @ = "absent" THEN @ ELSE "off"]
    BY <1>9 DEF DisablesAndExits, SetOff
  <2>2. CASE d = proc[p].dev
    <3>1. ~On(d)'
      BY <1>0, <2>1, <2>2 DEF On
    <3>2. QED
      BY <3>1 DEF Leaks
  <2>3. CASE d # proc[p].dev
    <3>1. status'[d] = status[d]
      BY <1>0, <2>1, <2>3
    <3>2. Keeps(d)
      BY <1>2, <1>3, <2>3, <3>1 DEF Keeps
    <3>3. AppCares(d) => AppCares(d)'
      <4>1. pc = "shutdown" => waits \in Procs /\ waits # 0
        BY <1>0 DEF AppInv, TypeOK, Procs
      <4>2. pc = "shutdown" /\ ctl.dev = d => waits # p
        BY <1>0, <2>3, <4>1 DEF Served, WithHelper
      <4>3. QED
        BY <1>2, <4>1, <4>2 DEF AppCares, Live
    <3>4. QED
      BY <1>4, <3>2, <3>3, KeepsNoLeak
  <2>4. QED
    BY <2>2, <2>3
<1>10. QED
  BY <1>6, <1>7, <1>8, <1>9 DEF HelperStep

(* What NoSilentLeak says of a step.                                        *)
SilentLeakStep ==
    \A d \in Ids : Leaks(d) =>
       \/ AppDies \/ FallbackRefused \/ FallbackFails \/ EnableDirect
       \/ \E p \in Procs : \/ ProcessDies(p) \/ DisableFails(p) \/ Installs(p)
                           \/ HelperWaitsForStopOnly(p)

(* A display that was to be disabled, or was off, is never left enabled     *)
(* with nobody to disable it, unless a process dies, a prompt is refused,   *)
(* devcon or the driver fails, the driver is installed, or the helper finds *)
(* the app gone: VddController::disable and Drop hand the device over from  *)
(* the session to its helper and from there to the one-shot helper without  *)
(* a gap.                                                                   *)
THEOREM NoSilentLeakHolds == Spec => NoSilentLeak
<1>1. Inv /\ [Next]_vars => [SilentLeakStep]_vars
  <2> SUFFICES ASSUME Inv, Next, NEW d \in Ids, Leaks(d)
               PROVE  \/ AppDies \/ FallbackRefused \/ FallbackFails \/ EnableDirect
                      \/ \E p \in Procs : \/ ProcessDies(p) \/ DisableFails(p)
                                          \/ Installs(p) \/ HelperWaitsForStopOnly(p)
    BY DEF SilentLeakStep
  <2>1. CASE AppStep \/ UserStep
    BY <2>1, AppLeaksNothing
  <2>2. CASE \E p \in Procs : HelperStep(p) \/ ProcessDies(p)
    BY <2>2, ProcessLeaksNothing
  <2>3. QED
    BY <2>1, <2>2 DEF Next
<1> QED
  BY <1>1, Invariance, PTL DEF Spec, NoSilentLeak, SilentLeakStep

-----------------------------------------------------------------------------
(* The display of a live session.                                           *)

(* What LiveDisplayStays says of a step.                                    *)
LiveDisplayStep ==
    pc = "live" /\ pc' = "live" /\ status[shown] = "on" /\ status'[shown] # "on" =>
       \E p \in Procs : /\ AboutToDisable(p) /\ waits # p
                       /\ (proc[p].stop \/ proc[p].parent # run)

(* While a session is live nobody switches its display off but a process    *)
(* the app had given up on: one that outlived the waits of its shutdown, or *)
(* the launch of the app it served.                                         *)
THEOREM LiveDisplayStaysHolds == Spec => LiveDisplayStays
<1>1. Inv /\ [Next]_vars => [LiveDisplayStep]_vars
  <2> SUFFICES ASSUME Inv, Next, pc = "live", pc' = "live",
                      status[shown] = "on", status'[shown] # "on"
               PROVE  \E p \in Procs : /\ AboutToDisable(p) /\ waits # p
                                      /\ (proc[p].stop \/ proc[p].parent # run)
    BY DEF LiveDisplayStep
  <2>0. /\ TypeOK /\ AppInv /\ Served /\ Triggers /\ status \in [Ids -> Statuses]
    BY DEF Inv, TypeOK
  <2>1. ~(AppStep \/ UserStep)
    BY DEF AppStep, UserStep, StartupFindsLeftover, StartupFindsNothing, EnableDirect,
           SpawnResidentHelper, SpawnRefused, SpawnDone, SpawnFails, ShutdownClean,
           ShutdownUnclean, ShutdownTimeout, DropHelper, FallbackDirect, FallbackFails,
           RunHelperElevated, FallbackRefused, OneShotReturns, StartApp,
           DuplicateFindsLeftover, BeginSession, MonitorUp, EndSession, InstallDriver,
           AppDies, appVars
  <2>2. PICK p \in Procs : HelperStep(p) \/ ProcessDies(p)
    BY <2>1 DEF Next
  <2>3. shown \in Ids /\ proc[p].dev \in Ids
    <3>1. Proceeds(p) /\ proc[p] \in Helper
      BY <2>0, <2>2, ProcessSteps DEF TypeOK, Procs
    <3>2. QED
      BY <2>0, <3>1 DEF AppInv, Helper
  <2>4. ~HelperEnables(p)
    <3> SUFFICES ASSUME HelperEnables(p) PROVE FALSE
      OBVIOUS
    <3>1. PICK o \in EnableOutcomes(proc[p].dev) :
              status' = [status EXCEPT ![proc[p].dev] = o.to]
      BY DEF HelperEnables
    <3>2. status[proc[p].dev] = "on" => o.to = "on"
      BY <2>0, <2>3, OutcomeType
    <3>3. QED
      BY <2>0, <2>3, <3>1, <3>2
  <2>5. ~Installs(p)
    <3> SUFFICES ASSUME Installs(p) PROVE FALSE
      OBVIOUS
    <3>1. \/ status' = [status EXCEPT ![proc[p].dev] = IF @ = "absent" THEN "on" ELSE @]
          \/ status' = status
      BY DEF Installs, DevconFails
    <3>2. QED
      BY <2>0, <2>3, <3>1
  <2>6. AboutToDisable(p)
    BY <2>2, <2>4, <2>5
       DEF HelperStep, HelperOpensEvents, HelperSignalsDone, HelperWatches,
           HelperWaitsForStopOnly, HelperTriggered, DisablesAndExits, DisableFails,
           ProcessDies
  <2>7. proc[p].stop \/ proc[p].parent # run
    BY <2>0, <2>6 DEF AboutToDisable, Triggers, Told
  <2>8. waits # p
    <3>1. p # 0
      BY DEF Procs
    <3>2. QED
      BY <2>0, <2>6, <3>1 DEF AboutToDisable, Resident, Served, WithHelper
  <2>9. QED
    BY <2>6, <2>7, <2>8
<1> QED
  BY <1>1, Invariance, PTL DEF Spec, LiveDisplayStays, LiveDisplayStep

=============================================================================
