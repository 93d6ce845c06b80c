-------------------------- MODULE OperationProgress --------------------------
(***************************************************************************)
(* The operator's progress line (bins/mediaops/src/progress.rs): a command *)
(* keeps its stage and byte count behind a mutex, and a second thread      *)
(* paints a snapshot of them every quarter of a second, until the command  *)
(* marks them finished, wakes the thread, joins it and paints the outcome. *)
(*                                                                         *)
(* What is painted is the number of updates it has seen; its text and its  *)
(* clipping to the terminal's width are left out.                          *)
(***************************************************************************)
EXTENDS Integers

CONSTANT MaxUpdates   \* bound on the updates of a command

\* What an instance gives the constants.
ProgressAssumption == MaxUpdates \in Nat

VARIABLES
    state,    \* what the mutex guards
    holder,   \* the thread that holds it
    main,     \* the command: its step, whether it finished, and its snapshot
    painter,  \* the thread: its step and its snapshot
    screen    \* the last line painted, and the outcome it shows
vars == <<state, holder, main, painter, screen>>

Nobody == "nobody"
Begun == [updates |-> 0, bytes |-> FALSE, finished |-> FALSE]

\* build paints the first line itself; the thread may fail to start.
Init ==
    /\ state = Begun
    /\ holder = Nobody
    /\ main = [pc |-> "work", completed |-> FALSE, snapshot |-> Begun]
    /\ \E started \in BOOLEAN :
        painter = [pc |-> IF started THEN "lock" ELSE "gone", snapshot |-> Begun]
    /\ screen = [line |-> 0, outcome |-> "none"]

-----------------------------------------------------------------------------
(* The painting thread *)

Paints(snapshot) == screen' = [screen EXCEPT !.line = snapshot.updates]

\* The mutex is taken, and given up again to wait on the condition variable
\* unless the command has finished.
Locks ==
    /\ painter.pc = "lock" /\ holder = Nobody
    /\ IF state.finished THEN holder' = "painter" /\ painter' = [painter EXCEPT !.pc = "look"]
                         ELSE painter' = [painter EXCEPT !.pc = "wait"] /\ UNCHANGED holder
    /\ UNCHANGED <<state, main, screen>>

\* wait_timeout_while: the time is over, or the command has notified.
Wakes ==
    /\ painter.pc \in {"wait", "woken"} /\ holder = Nobody
    /\ holder' = "painter"
    /\ painter' = [painter EXCEPT !.pc = "look"]
    /\ UNCHANGED <<state, main, screen>>

Looks ==
    /\ painter.pc = "look"
    /\ holder' = Nobody
    /\ painter' = IF state.finished THEN [painter EXCEPT !.pc = "gone"]
                  ELSE [pc |-> "paint", snapshot |-> state]
    /\ UNCHANGED <<state, main, screen>>

\* Without the mutex, and on a redirected stderr only every five seconds.
PaintsOrNot ==
    /\ painter.pc = "paint"
    /\ painter' = [painter EXCEPT !.pc = "lock"]
    /\ Paints(painter.snapshot) \/ UNCHANGED screen
    /\ UNCHANGED <<state, holder, main>>

-----------------------------------------------------------------------------
(* The command *)

\* stage, and bytes from MeteredReader.
Stage ==
    /\ main.pc = "work" /\ holder = Nobody
    /\ state.updates < MaxUpdates
    /\ state' = [state EXCEPT !.updates = @ + 1, !.bytes = FALSE]
    /\ UNCHANGED <<holder, main, painter, screen>>

Bytes ==
    /\ main.pc = "work" /\ holder = Nobody
    /\ state.updates < MaxUpdates
    /\ state' = [state EXCEPT !.updates = @ + 1, !.bytes = TRUE]
    /\ UNCHANGED <<holder, main, painter, screen>>

\* finish before a success is printed; an early return only drops the value.
Ends ==
    /\ main.pc = "work"
    /\ \E completed \in BOOLEAN : main' = [main EXCEPT !.pc = "stop", !.completed = completed]
    /\ UNCHANGED <<state, holder, painter, screen>>

\* Mutant of Stop: the mutex is kept while the thread is joined.
StopKeepsLock ==
    /\ main.pc = "stop" /\ holder = Nobody
    /\ main' = [main EXCEPT !.pc = "notify", !.snapshot = state]
    /\ state' = [state EXCEPT !.finished = TRUE]
    /\ holder' = "main"
    /\ UNCHANGED <<painter, screen>>

\* stop: the second call, from Drop, finds it finished and returns.
Stop ==
    /\ main.pc = "stop" /\ holder = Nobody
    /\ IF state.finished
       THEN main' = [main EXCEPT !.pc = "returned"] /\ UNCHANGED state
       ELSE /\ main' = [main EXCEPT !.pc = "notify", !.snapshot = state]
            /\ state' = [state EXCEPT !.finished = TRUE]
    /\ UNCHANGED <<holder, painter, screen>>

NotifyAll ==
    /\ main.pc = "notify"
    /\ painter' = IF painter.pc = "wait" THEN [painter EXCEPT !.pc = "woken"] ELSE painter
    /\ main' = [main EXCEPT !.pc = "join"]
    /\ UNCHANGED <<state, holder, screen>>

\* Mutant of Join: the thread is left to end by itself.
JoinNot ==
    /\ main.pc = "join"
    /\ main' = [main EXCEPT !.pc = "outcome"]
    /\ UNCHANGED <<state, holder, painter, screen>>

Join ==
    /\ main.pc = "join" /\ painter.pc = "gone"
    /\ main' = [main EXCEPT !.pc = "outcome"]
    /\ UNCHANGED <<state, holder, painter, screen>>

\* The outcome is painted over the last line; then Drop calls stop again.
PaintOutcome ==
    /\ main.pc = "outcome"
    /\ screen' = [line |-> main.snapshot.updates,
                  outcome |-> IF main.completed THEN "done" ELSE "stopped"]
    /\ main' = [main EXCEPT !.pc = "stop"]
    /\ UNCHANGED <<state, holder, painter>>

Painter == Locks \/ Wakes \/ Looks \/ PaintsOrNot
Stopping == Stop \/ NotifyAll \/ Join \/ PaintOutcome

Next == Painter \/ Stage \/ Bytes \/ Ends \/ Stopping

\* Both threads run; the command need not come to its end.  The thread holds
\* the mutex for one clone in 250 ms, so that a command that asks for it gets it.
Spec == Init /\ [][Next]_vars /\ WF_vars(Painter) /\ SF_vars(Stopping)

-----------------------------------------------------------------------------
(* Properties *)

\* The last line an operator sees is the outcome, and the right one: once it
\* is painted nothing is painted over it.
KeepsOutcome ==
    screen.outcome # "none" => screen' = screen

\* A line never shows an older state than the line before it.
PaintsNewer ==
    screen'.line >= screen.line

\* stop returns, and the outcome is on the screen by then: the command neither
\* waits for a thread that waits for its mutex nor loses the wake-up.
Returned ==
    /\ main.pc = "returned"
    /\ screen.outcome = IF main.completed THEN "done" ELSE "stopped"
StopReturns == (main.pc = "stop") ~> Returned
=============================================================================
