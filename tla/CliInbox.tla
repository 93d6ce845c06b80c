------------------------------- MODULE CliInbox -------------------------------
(***************************************************************************)
(* The hold inbox of the command line: `hold list` shows the open holds of *)
(* the completed listing, `hold approve` and `hold reject` list again,     *)
(* find the hold that was named and patch it, while the inventory          *)
(* publishes the next listing hold by hold and other operators decide.     *)
(***************************************************************************)
EXTENDS Integers, Sequences, SequencesExt, FiniteSets, FiniteSetsExt

CONSTANTS
    Order,        \* the holds, in the order of their names
    TitleOf, ReleaseOf,
    Mentions,     \* row number -> the holds whose id or release has its digits
    Operators,
    Ways,         \* how an operator names a hold: "release", "title" or "row"
    MaxScans,     \* bound: scans of the inventory
    MaxCommands,  \* bound: decisions given
    None

VARIABLES
    hold,      \* name -> None or [gen, decision, rv]
    bound,     \* the holds whose Job is bound
    node,      \* the inventory Node: [gen, fresh]
    scan,      \* None or the scan that publishes
    shown,     \* operator -> None or the rows of his last `hold list`
    op,        \* operator -> None or his decision under way
    listed,    \* ghost: the holds of the completed listing
    last,      \* ghost: None or the decision written last
    scans, commands

vars == <<hold, bound, node, scan, shown, op, listed, last, scans, commands>>

Names == Range(Order)
Decisions == {"Approved", "Rejected"}
Has(n) == hold[n] # None

InboxInit ==
    /\ hold = [n \in Names |-> None] /\ bound = {}
    /\ node = [gen |-> 0, fresh |-> FALSE]
    /\ scan = None /\ listed = {} /\ last = None
    /\ shown = [o \in Operators |-> None] /\ op = [o \in Operators |-> None]
    /\ scans = 0 /\ commands = 0

---------------------------------------------------------------------------
(* The inventory                                                           *)

\* publish_inventory: above every generation in the store.
NextGeneration == 1 + Max({node.gen} \cup {hold[n].gen : n \in {m \in Names : Has(m)}})

\* A scan found these releases waiting.
StartScan ==
    /\ scan = None /\ scans < MaxScans
    /\ \E live \in SUBSET Names :
           scan' = [gen |-> NextGeneration, live |-> live, left |-> SelectSeq(Order, LAMBDA n : n \in live), read |-> None]
    /\ scans' = scans + 1
    /\ UNCHANGED <<hold, bound, node, shown, op, listed, last, commands>>

\* The hold is read before its status is patched.
ReadHold ==
    /\ scan # None
    /\ scan.left # <<>> /\ scan.read = None
    /\ LET n == Head(scan.left) IN scan' = [scan EXCEPT !.read = IF Has(n) THEN [rv |-> hold[n].rv] ELSE [rv |-> 0]]
    /\ UNCHANGED <<hold, bound, node, shown, op, listed, last, scans, commands>>

\* The patch, or the first apply; a conflict ends the scan.
WriteHold ==
    /\ scan # None
    /\ scan.read # None
    /\ LET n == Head(scan.left) IN
       IF (IF Has(n) THEN hold[n].rv ELSE 0) # scan.read.rv THEN scan' = None /\ hold' = hold
       ELSE /\ hold' = [hold EXCEPT ![n] = IF Has(n) THEN [@ EXCEPT !.gen = scan.gen, !.rv = @ + 1]
                                           ELSE [gen |-> scan.gen, decision |-> "Empty", rv |-> 1]]
            /\ scan' = [scan EXCEPT !.left = Tail(@), !.read = None]
    /\ UNCHANGED <<bound, node, shown, op, listed, last, scans, commands>>

\* commit_listing.
Commit ==
    /\ scan # None
    /\ scan.left = <<>>
    /\ node' = [gen |-> scan.gen, fresh |-> TRUE]
    /\ listed' = scan.live /\ scan' = None
    /\ UNCHANGED <<hold, bound, shown, op, last, scans, commands>>

\* The scan fails or the inventory dies.
Abort ==
    /\ scan # None /\ scan' = None
    /\ UNCHANGED <<hold, bound, node, shown, op, listed, last, scans, commands>>

\* No heartbeat, or the listing is old.
Expire ==
    /\ node.fresh /\ node' = [node EXCEPT !.fresh = FALSE]
    /\ UNCHANGED <<hold, bound, scan, shown, op, listed, last, scans, commands>>

---------------------------------------------------------------------------
(* The command line                                                        *)

\* published_holds, from one snapshot.
Published == SelectSeq(Order, LAMBDA n : IF Has(n) THEN hold[n].gen = node.gen ELSE FALSE)
OpenRows == SelectSeq(Published, LAMBDA n : hold[n].decision = "Empty")

\* hold_list; all is a ghost, the open holds of the completed listing.
HoldList(o) ==
    /\ op[o] = None /\ node.fresh
    /\ shown' = [shown EXCEPT ![o] = [rows |-> OpenRows, all |-> {n \in listed : hold[n].decision = "Empty"}]]
    /\ UNCHANGED <<hold, bound, node, scan, op, listed, last, scans, commands>>

\* The operator decides on a row he sees; meant is a ghost.
Given(n, i, way, d) ==
    [step |-> "list", way |-> way, row |-> i, title |-> TitleOf[n], release |-> ReleaseOf[n],
     decision |-> d, meant |-> n, target |-> None, rv |-> 0, was |-> "Empty"]
Decide(o) ==
    /\ op[o] = None /\ shown[o] # None /\ commands < MaxCommands
    /\ \E i \in DOMAIN shown[o].rows, d \in Decisions, way \in Ways :
           op' = [op EXCEPT ![o] = Given(shown[o].rows[i], i, way, d)]
    /\ commands' = commands + 1
    /\ UNCHANGED <<hold, bound, node, scan, shown, listed, last, scans>>

\* resolve_from_objects: the title when exactly one is mentioned.
Resolved(row) ==
    LET titles == {TitleOf[n] : n \in Range(Published) \cap Mentions[row]}
    IN  IF Cardinality(titles) = 1 THEN titles ELSE {}

\* hold_decide: the holds of the listing that the argument names; a number beyond the
\* rows is looked up as a name.
Matches(c) ==
    {n \in Range(Published) :
        CASE c.way = "row" -> IF c.row <= Len(OpenRows) THEN n = OpenRows[c.row] ELSE TitleOf[n] \in Resolved(c.row)
          [] c.way = "title" -> TitleOf[n] = c.title
          [] c.way = "release" -> TitleOf[n] = c.title /\ ReleaseOf[n] = c.release}

\* It lists again, and goes on with exactly one.
DecideList(o) ==
    /\ op[o] # None
    /\ op[o].step = "list"
    /\ LET found == Matches(op[o]) IN
       IF node.fresh /\ Cardinality(found) = 1
       THEN \E n \in found : op' = [op EXCEPT ![o] = [@ EXCEPT !.step = "patch", !.target = n, !.rv = hold[n].rv,
                                                              !.was = hold[n].decision]]
       ELSE op' = [op EXCEPT ![o] = None]
    /\ UNCHANGED <<hold, bound, node, scan, shown, listed, last, scans, commands>>

\* validate_patch of a Hold's spec.
Admitted(c) ==
    LET h == hold[c.target] IN
    /\ h.rv = c.rv
    /\ h.decision = "Approved" /\ c.decision # "Approved" => c.target \notin bound
    /\ c.decision = "Approved" /\ h.decision # "Approved" => h.gen = node.gen /\ node.fresh

DecidePatch(o) ==
    /\ op[o] # None
    /\ op[o].step = "patch"
    /\ LET c == op[o] IN
       IF Admitted(c)
       THEN /\ hold' = [hold EXCEPT ![c.target] = [@ EXCEPT !.decision = c.decision, !.rv = @ + 1]]
            /\ last' = [way |-> c.way, target |-> c.target, meant |-> c.meant, was |-> c.was,
                        before |-> hold[c.target].decision, decision |-> c.decision, live |-> c.target \in listed]
       ELSE hold' = hold /\ last' = last
    /\ op' = [op EXCEPT ![o] = None]
    /\ UNCHANGED <<bound, node, scan, shown, listed, scans, commands>>

---------------------------------------------------------------------------
(* The rest of the system                                                  *)

\* The Job of an approved hold is bound, and ends.
Bind ==
    /\ \E n \in Names \ bound : Has(n) /\ hold[n].decision = "Approved" /\ bound' = bound \cup {n}
    /\ UNCHANGED <<hold, node, scan, shown, op, listed, last, scans, commands>>
EndJob ==
    /\ \E n \in bound : bound' = bound \ {n}
    /\ UNCHANGED <<hold, node, scan, shown, op, listed, last, scans, commands>>

InboxNext ==
    \/ StartScan \/ ReadHold \/ WriteHold \/ Commit \/ Abort \/ Expire
    \/ \E o \in Operators : HoldList(o) \/ Decide(o) \/ DecideList(o) \/ DecidePatch(o)
    \/ Bind \/ EndJob

InboxSpec == InboxInit /\ [][InboxNext]_vars

---------------------------------------------------------------------------
(* Properties                                                              *)

\* "The numbered inbox includes only the fresh completed listing": no row is of a scan
\* that was not completed, whatever an earlier scan that died left in the store.
InboxOnlyListed == \A o \in Operators : IF shown[o] = None THEN TRUE ELSE Range(shown[o].rows) \subseteq shown[o].all

\* A decision replaces the one the command has read, never one that another operator
\* made in between.
NoLostDecision == IF last = None THEN TRUE ELSE last.was = last.before

\* A hold named by title and release, as `hold list` prints it, is the one decided,
\* whatever the inbox has become; and what is approved was in the completed listing.
ReleaseIsMeant ==
    IF last = None THEN TRUE
    ELSE /\ last.way = "release" => last.target = last.meant
         /\ last.decision = "Approved" /\ last.before # "Approved" => last.live

\* "once its Job is bound, decision changes are refused until that Job finishes".
BoundStaysApproved == \A n \in bound : hold[n].decision = "Approved"

===============================================================================
