---------------------------- MODULE GuiService ----------------------------
(***************************************************************************)
(* The GUI's background service (apps/penflow-gui/src-tauri/src/           *)
(* service.rs): start, stop, emit and run_accept_loop, with the adb        *)
(* transport it opens (crates/penflow-transport/src/adb.rs) and a session  *)
(* reduced to what the loop sees of it.                                    *)
(*                                                                         *)
(* stop holds the mutex `inner' while it waits up to ten seconds for the   *)
(* loop; start and emit need that mutex and hold it for one step.  So the  *)
(* mutex is free exactly when no stop is waiting.  A stop that gives up    *)
(* detaches the loop, which goes on; hence several loops.                  *)
(***************************************************************************)
EXTENDS Naturals, Sequences, FiniteSets

CONSTANTS
    MaxLoops,   \* bound: accept loops ever spawned
    MaxBinds,   \* bound: iterations of accept loops
    MaxLate     \* bound: adb removals that outlive the wait for them

ASSUME ServiceAssumption == MaxLoops \in Nat /\ MaxBinds \in Nat /\ MaxLate \in Nat

VARIABLES
    task,        \* inner.task: the loop it refers to, 0 for None
    waiting,     \* the loop a stop() waits for, holding `inner'; 0 for none
    last_state,  \* inner.last_state
    pc,          \* where each accept loop is
    cancelled,   \* its cancel channel was sent on
    sess,        \* its session, as far as the loop can tell
    events,      \* session events its event pump has not emitted
    rule,        \* the loop whose port `localabstract:penflow' leads to, or 0
    late,        \* adb removals still to take effect
    overdue,     \* adb removals that outlived the wait for them, ever
    struck,      \* one of them took effect since the last successful bind
    binds,       \* iterations so far
    abandoned    \* some stop() has given up waiting

loopVars == << pc, cancelled, sess, events >>
lateVars == << late, overdue, struck >>
innerVars == << task, waiting, last_state >>
vars == << innerVars, loopVars, rule, lateVars, binds, abandoned >>

Loops == 1 .. MaxLoops
Reports == {"Connecting", "Connected", "Disconnected", "Error"}
States == Reports \cup {"Stopped", "Preparing", "Listening"}
Points == {"unborn", "top", "emit_preparing", "bind", "emit_listening",
           "emit_bind_error", "backoff", "session", "emit_end", "abort_pump",
           "close", "cool_off", "finishing", "final_close", "exit"}
SessStates == {"none", "accept", "connecting", "connected", "ok", "err"}

(* A listener exists from a successful bind to transport.shutdown, and      *)
(* longer while an accept holds its mutex: shutdown then waits for the      *)
(* mutex until the loop's timeout of two seconds ends it.                   *)
TransportOpen(i) ==
    \/ pc[i] \in {"emit_listening", "session", "emit_end", "abort_pump", "close",
                  "finishing", "final_close"}
    \/ sess[i] = "accept"
Alive(i) == pc[i] \notin {"unborn", "exit"}

TypeOK ==
    /\ task \in 0 .. MaxLoops /\ waiting \in 0 .. MaxLoops /\ last_state \in States
    /\ pc \in [Loops -> Points] /\ cancelled \in [Loops -> BOOLEAN]
    /\ sess \in [Loops -> SessStates] /\ events \in [Loops -> Seq(Reports)]
    /\ rule \in 0 .. MaxLoops /\ late \in Nat /\ overdue \in Nat /\ struck \in BOOLEAN
    /\ binds \in Nat /\ abandoned \in BOOLEAN

Init ==
    /\ task = 0 /\ waiting = 0 /\ last_state = "Stopped"
    /\ pc = [i \in Loops |-> "unborn"] /\ cancelled = [i \in Loops |-> FALSE]
    /\ sess = [i \in Loops |-> "none"] /\ events = [i \in Loops |-> << >>]
    /\ rule = 0 /\ late = 0 /\ overdue = 0 /\ struck = FALSE /\ binds = 0
    /\ abandoned = FALSE

InnerFree == waiting = 0

-----------------------------------------------------------------------------
(* The commands.                                                            *)

(* Fault: start spawns without looking at inner.task.                       *)
StartUnchecked(i) ==
    /\ InnerFree
    /\ pc[i] = "unborn" /\ \A j \in Loops : j < i => pc[j] # "unborn"
    /\ pc' = [pc EXCEPT ![i] = "top"]
    /\ task' = i
    /\ UNCHANGED << waiting, last_state, cancelled, sess, events, rule, lateVars,
                    binds, abandoned >>

(* start: spawn a loop unless inner.task is Some.                           *)
Start(i) ==
    /\ InnerFree /\ task = 0
    /\ pc[i] = "unborn" /\ \A j \in Loops : j < i => pc[j] # "unborn"
    /\ pc' = [pc EXCEPT ![i] = "top"]
    /\ task' = i
    /\ UNCHANGED << waiting, last_state, cancelled, sess, events, rule, lateVars,
                    binds, abandoned >>

(* stop: lock inner, send cancel, wait for the task if there is one.        *)
Stop ==
    /\ InnerFree
    /\ cancelled' = [i \in Loops |-> cancelled[i] \/ i = task]
    /\ task' = 0 /\ waiting' = task
    /\ last_state' = IF task = 0 THEN "Stopped" ELSE last_state
    /\ UNCHANGED << pc, sess, events, rule, lateVars, binds, abandoned >>

StopReturns ==
    /\ waiting # 0 /\ pc[waiting] = "exit"
    /\ waiting' = 0 /\ last_state' = "Stopped"
    /\ UNCHANGED << task, loopVars, rule, lateVars, binds, abandoned >>

(* What can keep a cancelled loop for ten seconds: adb, the mutex stop      *)
(* itself holds, VddController::enable inside the session's poll, and the   *)
(* drop of the session, which disables the VDD.                             *)
CanOutlast(i) ==
    \/ pc[i] \in {"emit_preparing", "bind", "emit_listening", "emit_bind_error",
                  "emit_end", "finishing", "final_close"}
    \/ pc[i] = "session" /\ sess[i] = "connecting"

StopTimesOut ==
    /\ waiting # 0 /\ CanOutlast(waiting)
    /\ waiting' = 0 /\ last_state' = "Stopped" /\ abandoned' = TRUE
    /\ UNCHANGED << task, loopVars, rule, lateVars, binds >>

-----------------------------------------------------------------------------
(* run_accept_loop, loop i.                                                 *)

Goes(i, from, to) == pc[i] = from /\ pc' = [pc EXCEPT ![i] = to]

(* emit waits for inner.                                                    *)
Emit(s) == InnerFree /\ last_state' = s

Exit(i) ==
    /\ pc[i] \in {"top", "backoff", "cool_off"} /\ cancelled[i]
    /\ pc' = [pc EXCEPT ![i] = "exit"]
    /\ UNCHANGED << innerVars, cancelled, sess, events, rule, lateVars, binds, abandoned >>

Top(i) ==
    /\ Goes(i, "top", "emit_preparing") /\ ~cancelled[i]
    /\ binds < MaxBinds /\ binds' = binds + 1
    /\ UNCHANGED << innerVars, cancelled, sess, events, rule, lateVars, abandoned >>

EmitPreparing(i) ==
    /\ Goes(i, "emit_preparing", "bind") /\ Emit("Preparing")
    /\ UNCHANGED << task, waiting, cancelled, sess, events, rule, lateVars, binds,
                    abandoned >>

(* Fault: a rule that is already there is taken for ours.                   *)
BindKeepsStaleRule(i) ==
    /\ Goes(i, "bind", "emit_listening")
    /\ rule' = IF rule = 0 THEN i ELSE rule
    /\ struck' = FALSE
    /\ UNCHANGED << innerVars, cancelled, sess, events, late, overdue, binds,
                    abandoned >>

(* bind_with_adb: start-server, listen, remove a stale rule (a failure of   *)
(* that is ignored), add ours.  It does not look at cancel.                 *)
BindOk(i) ==
    /\ Goes(i, "bind", "emit_listening")
    /\ rule' = i /\ struck' = FALSE
    /\ UNCHANGED << innerVars, cancelled, sess, events, late, overdue, binds,
                    abandoned >>

(* It fails before or after it removed the rule that was there.             *)
BindFails(i) ==
    /\ Goes(i, "bind", "emit_bind_error")
    /\ rule' \in {rule, 0}
    /\ UNCHANGED << innerVars, cancelled, sess, events, lateVars, binds, abandoned >>

EmitBindError(i) ==
    /\ Goes(i, "emit_bind_error", "backoff") /\ Emit("Error")
    /\ UNCHANGED << task, waiting, cancelled, sess, events, rule, lateVars, binds,
                    abandoned >>

(* Fault: the backoff ends the loop.                                        *)
BackoffGivesUp(i) ==
    /\ Goes(i, "backoff", "exit")
    /\ UNCHANGED << innerVars, cancelled, sess, events, rule, lateVars, binds, abandoned >>

(* Five or thirty seconds.                                                  *)
Backoff(i) ==
    /\ Goes(i, "backoff", "top")
    /\ UNCHANGED << innerVars, cancelled, sess, events, rule, lateVars, binds, abandoned >>

(* Listening, then the event pump and the session are started.              *)
EmitListening(i) ==
    /\ Goes(i, "emit_listening", "session") /\ Emit("Listening")
    /\ sess' = [sess EXCEPT ![i] = "accept"]
    /\ events' = [events EXCEPT ![i] = << >>]
    /\ UNCHANGED << task, waiting, cancelled, rule, lateVars, binds, abandoned >>

(* The session ended by itself; its result is reported.  The event pump is  *)
(* still running and may report after it.                                   *)
SessionOver(i) ==
    /\ Goes(i, "session", "emit_end") /\ sess[i] \in {"ok", "err"}
    /\ UNCHANGED << innerVars, cancelled, sess, events, rule, lateVars, binds, abandoned >>

EmitEnd(i) ==
    /\ Goes(i, "emit_end", "abort_pump")
    /\ Emit(IF sess[i] = "ok" THEN "Disconnected" ELSE "Error")
    /\ sess' = [sess EXCEPT ![i] = "none"]
    /\ UNCHANGED << task, waiting, cancelled, events, rule, lateVars, binds, abandoned >>

(* What the event pump has not emitted by now, nobody will see.             *)
AbortPump(i) ==
    /\ Goes(i, "abort_pump", "close")
    /\ events' = [events EXCEPT ![i] = << >>]
    /\ UNCHANGED << innerVars, cancelled, sess, rule, lateVars, binds, abandoned >>

(* transport.shutdown: drop the listener, then `adb reverse --remove' by    *)
(* name, whoever added the rule, and its status is ignored: the rule may    *)
(* stay.  After two seconds the loop goes on and the removal is left to     *)
(* finish when it may; if it was the loop's timeout that fired first, Drop  *)
(* for the transport removes the rule once more.                            *)
CloseTransport(i, to) ==
    /\ pc' = [pc EXCEPT ![i] = to]
    /\ rule' \in {rule, 0}
    /\ \/ UNCHANGED lateVars
       \/ /\ overdue < MaxLate
          /\ late' = late + 1 /\ overdue' = overdue + 1
          /\ UNCHANGED struck

Close(i) ==
    /\ pc[i] = "close" /\ CloseTransport(i, "cool_off")
    /\ UNCHANGED << innerVars, cancelled, sess, events, binds, abandoned >>

(* 500 ms.                                                                  *)
CoolOff(i) ==
    /\ Goes(i, "cool_off", "top")
    /\ UNCHANGED << innerVars, cancelled, sess, events, rule, lateVars, binds, abandoned >>

(* Fault: the select! has no cancel arm.                                    *)
NeverCancelSession(i) == FALSE /\ UNCHANGED vars

(* The cancel arm: finish is sent to the session.                           *)
CancelSession(i) ==
    /\ Goes(i, "session", "finishing") /\ cancelled[i]
    /\ UNCHANGED << innerVars, cancelled, sess, events, rule, lateVars, binds, abandoned >>

(* Fault: the future of the session lives on, and with it a pending accept. *)
KeepSession(i) ==
    /\ Goes(i, "finishing", "final_close")
    /\ UNCHANGED << innerVars, cancelled, sess, events, rule, lateVars, binds,
                    abandoned >>

(* The session returned, or three seconds have passed; either way its       *)
(* future is dropped, and with it the lock accept holds on the listener.    *)
DropSession(i) ==
    /\ Goes(i, "finishing", "final_close")
    /\ sess' = [sess EXCEPT ![i] = "none"]
    /\ UNCHANGED << innerVars, cancelled, events, rule, lateVars, binds, abandoned >>

(* shutdown, abort the event pump, return.                                  *)
FinalClose(i) ==
    /\ pc[i] = "final_close" /\ CloseTransport(i, "exit")
    /\ events' = [events EXCEPT ![i] = << >>]
    /\ UNCHANGED << innerVars, cancelled, sess, binds, abandoned >>

-----------------------------------------------------------------------------
(* The session of loop i (module StreamSession has the detail), polled as   *)
(* part of the loop, and the event pump, a task of its own.                 *)

Polled(i) == pc[i] \in {"session", "finishing"}

SessionMoves(i, from, to, report) ==
    /\ Polled(i) /\ sess[i] = from
    /\ sess' = [sess EXCEPT ![i] = to]
    /\ events' = [events EXCEPT ![i] = @ \o report]
    /\ UNCHANGED << innerVars, pc, cancelled, rule, lateVars, binds, abandoned >>

(* A tablet can only get through the rule.                                  *)
ClientConnects(i) ==
    rule = i /\ SessionMoves(i, "accept", "connecting", << "Connecting" >>)

SessionLive(i) == SessionMoves(i, "connecting", "connected", << "Connected" >>)

(* Errors before the live phase return without an event.                    *)
SessionFails(i) ==
    \E from \in {"accept", "connecting"} : SessionMoves(i, from, "err", << >>)

SessionEnds(i) ==
    \/ SessionMoves(i, "connected", "ok", << "Disconnected" >>)
    \/ SessionMoves(i, "connected", "err", << "Error" >>)

EventPump(i) ==
    /\ events[i] # << >>
    /\ Emit(Head(events[i]))
    /\ events' = [events EXCEPT ![i] = Tail(@)]
    /\ UNCHANGED << task, waiting, pc, cancelled, sess, rule, lateVars, binds, abandoned >>

(* A removal that was left to finish does.                                  *)
LateRemoval ==
    /\ late > 0 /\ late' = late - 1
    /\ rule' = 0 /\ struck' = TRUE
    /\ UNCHANGED << innerVars, loopVars, overdue, binds, abandoned >>

-----------------------------------------------------------------------------
LoopStep(i) ==
    \/ Exit(i) \/ Top(i) \/ EmitPreparing(i) \/ BindOk(i) \/ BindFails(i)
    \/ EmitBindError(i) \/ Backoff(i) \/ EmitListening(i) \/ SessionOver(i)
    \/ EmitEnd(i) \/ AbortPump(i) \/ Close(i) \/ CoolOff(i) \/ CancelSession(i) \/ DropSession(i)
    \/ FinalClose(i)

SessionStep(i) ==
    ClientConnects(i) \/ SessionLive(i) \/ SessionFails(i) \/ SessionEnds(i)

Next ==
    \/ Stop \/ StopReturns \/ StopTimesOut \/ LateRemoval
    \/ \E i \in Loops : Start(i) \/ LoopStep(i) \/ SessionStep(i) \/ EventPump(i)

(* The runtime polls a loop that can move; adb calls end, timeouts fire and *)
(* tokio's mutex is FIFO, so an emit is not starved by repeated stops.      *)
Fairness ==
    /\ WF_vars(StopReturns \/ StopTimesOut)
    /\ \A i \in Loops : SF_vars(LoopStep(i))

Spec == Init /\ [][Next]_vars /\ Fairness

-----------------------------------------------------------------------------
(* Properties.                                                              *)

(* However start, stop and the loops interleave, one loop at most has not   *)
(* been told to end, and inner.task is its handle.  As long as no stop gave *)
(* up, no other loop is left either but the one a stop waits for.           *)
OneLoop ==
    /\ \A i \in Loops : Alive(i) /\ ~cancelled[i] => i = task
    /\ ~abandoned => \A i \in Loops : Alive(i) => i = task \/ i = waiting

(* While the service says Listening and nobody is stopping it, the rule on  *)
(* the tablet leads to the listener of the current loop: whatever earlier   *)
(* iterations left behind, a rule that was not removed or a removal still   *)
(* to come, the last bind has repaired.  Two things only can break this: a  *)
(* loop some stop gave up on, and a late removal that strikes after the     *)
(* bind.                                                                    *)
ListeningIsReachable ==
    last_state = "Listening" /\ InnerFree /\ ~abandoned /\ ~struck
        => task # 0 /\ rule = task /\ TransportOpen(task)

(* Once stop has returned with its loop ended, nobody listens on any port:  *)
(* the label is not Stopped while a listener, a session or an accept that   *)
(* holds the listener's mutex (service.rs:232, "would deadlock waiting for  *)
(* the listener mutex") is left.                                            *)
StoppedIsClosed ==
    last_state = "Stopped" /\ ~abandoned => \A i \in Loops : ~TransportOpen(i)

(* Every cancelled loop ends: neither a session waiting for a tablet nor    *)
(* the mutex stop() holds keeps it for ever.                                *)
CancelledLoopEnds == \A i \in Loops : cancelled[i] ~> pc[i] = "exit"

(* service.rs:63 "The loop will retry after a short backoff": an error is   *)
(* not the last word (unless the bound on iterations is reached).           *)
ErrorIsRetried ==
    last_state = "Error" ~>
        last_state # "Error" \/ binds = MaxBinds \/ abandoned

(* service.rs:42 of Stopped: "Service is paused; no transport is open."     *)
StoppedMeansNoTransport ==
    last_state = "Stopped" => \A i \in Loops : ~TransportOpen(i)

(* service.rs:161 of Listening: "the UI label genuinely reflects ready for  *)
(* a tablet to connect".                                                    *)
ListeningMeansReachable ==
    last_state = "Listening" /\ task # 0 /\ ~cancelled[task] => rule = task

=============================================================================
