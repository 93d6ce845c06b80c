------------------------------- MODULE CliWatch -------------------------------
(***************************************************************************)
(* `mediaops watch`: a Want and a desired Title for one title, written in  *)
(* separate calls by commands that may run side by side, die at any step   *)
(* and be repeated, while documents are applied and Wants deleted by       *)
(* others.                                                                 *)
(***************************************************************************)
EXTENDS Integers, FiniteSets

CONSTANTS
    Operators,
    MaxOthers,    \* bound: writes of others
    None

VARIABLES
    want,     \* None or [phase]
    title,    \* None or [desired, rv]
    cmd,      \* operator -> None (not begun), a step with what was read, or "done"
    had,      \* ghost: operator -> what his command found or wrote, "want" and "title",
              \* and "unseen" when it took a Title that it never looked at
    others

vars == <<want, title, cmd, had, others>>

WatchInit ==
    /\ want \in {None, [phase |-> "Satisfied"]}
    /\ title \in {None, [desired |-> TRUE, rv |-> 1], [desired |-> FALSE, rv |-> 1]}
    /\ cmd = [o \in Operators |-> [step |-> "idle"]]
    /\ had = [o \in Operators |-> {}] /\ others = 0

Go(o, next) == cmd' = [cmd EXCEPT ![o] = next]
At(o, step) == cmd[o].step = step
Ends(o, ok) == Go(o, [step |-> IF ok THEN "done" ELSE "idle"])
Had(o, what) == had' = [had EXCEPT ![o] = @ \cup {what}]

\* The command looks for the Want.
GetWant(o) ==
    /\ At(o, "idle")
    /\ IF want # None THEN Go(o, [step |-> "title"]) /\ had' = [had EXCEPT ![o] = {"want"}]
       ELSE Go(o, [step |-> "apply"]) /\ had' = [had EXCEPT ![o] = {}]
    /\ UNCHANGED <<want, title, others>>

\* It applies one; a conflict means that somebody else did.
ApplyWant(o) ==
    /\ At(o, "apply")
    /\ IF want = None THEN want' = [phase |-> "Open"] /\ Go(o, [step |-> "title"]) /\ Had(o, "want")
       ELSE want' = want /\ Go(o, [step |-> "again"]) /\ had' = had
    /\ UNCHANGED <<title, others>>

\* The Want of the other is read; gone again, the command fails.
GetWantAgain(o) ==
    /\ At(o, "again")
    /\ IF want # None THEN Go(o, [step |-> "title"]) /\ Had(o, "want") ELSE Ends(o, FALSE) /\ had' = had
    /\ UNCHANGED <<want, title, others>>

\* Then the Title: as it should be, to be patched, or to be created.
GetTitle(o) ==
    /\ At(o, "title")
    /\ IF title = None THEN Go(o, [step |-> "create"]) /\ had' = had
       ELSE IF title.desired THEN Ends(o, TRUE) /\ Had(o, "title")
       ELSE Go(o, [step |-> "patch", rv |-> title.rv]) /\ had' = had
    /\ UNCHANGED <<want, title, others>>

PatchTitle(o) ==
    /\ At(o, "patch")
    /\ IF title.rv = cmd[o].rv
       THEN title' = [desired |-> TRUE, rv |-> title.rv + 1] /\ Ends(o, TRUE) /\ Had(o, "title")
       ELSE title' = title /\ Ends(o, FALSE) /\ had' = had
    /\ UNCHANGED <<want, others>>

\* Here a conflict is passed over: somebody else has created the Title.
ApplyTitle(o) ==
    /\ At(o, "create")
    /\ IF title = None THEN title' = [desired |-> TRUE, rv |-> 1] /\ Had(o, "title")
       ELSE title' = title /\ Had(o, IF title.desired THEN "title" ELSE "unseen")
    /\ Ends(o, TRUE)
    /\ UNCHANGED <<want, others>>

\* The command is killed.
Die(o) ==
    /\ cmd[o].step \notin {"idle", "done"}
    /\ others < MaxOthers /\ others' = others + 1
    /\ Ends(o, FALSE)
    /\ UNCHANGED <<want, title, had>>

\* Other clients apply and delete, and the controllers settle the Want.
Others ==
    /\ others < MaxOthers /\ others' = others + 1
    /\ \/ want # None /\ want' = None /\ title' = title
       \/ want = None /\ want' = [phase |-> "Open"] /\ title' = title
       \/ want # None /\ want' = [phase |-> "Satisfied"] /\ title' = title
       \/ title = None /\ title' \in [desired : BOOLEAN, rv : {1}] /\ want' = want
    /\ UNCHANGED <<cmd, had>>
Touch ==
    /\ others < MaxOthers /\ others' = others + 1 /\ title # None
    /\ title' = [title EXCEPT !.rv = @ + 1]
    /\ UNCHANGED <<want, cmd, had>>

Works(o) ==
    GetWant(o) \/ ApplyWant(o) \/ GetWantAgain(o) \/ GetTitle(o) \/ PatchTitle(o) \/ ApplyTitle(o)
WatchNext == (\E o \in Operators : Works(o) \/ Die(o)) \/ Others \/ Touch

\* An operator whose command failed or was killed gives it again.
WatchSpec == WatchInit /\ [][WatchNext]_vars /\ \A o \in Operators : WF_vars(Works(o))

---------------------------------------------------------------------------
(* Properties                                                              *)

\* "Create a Want (and a desired Title)": a command that reports success had both during
\* its run, found or written, except that a Title another client created after the
\* command found none is taken unseen (create_watch passes over that conflict).
WatchedIsDesired ==
    \A o \in Operators : At(o, "done") => "want" \in had[o] /\ had[o] \cap {"title", "unseen"} # {}

\* Every operator's watch succeeds in the end, whoever writes or dies in between.
WatchCompletes == \A o \in Operators : <>At(o, "done")
===============================================================================
