---------------------------- MODULE GatewayPool ----------------------------
(***************************************************************************)
(* The channel pool of a serving gateway (crates/net gateway.rs, pool.rs)  *)
(* and the pulls that use it (transfer/src/home.rs, GatewayRanges of       *)
(* mediaops-pull, the manual pull of the CLI).  Each pull sets the pool to *)
(* its own concurrency and then keeps that many Range streams in flight.   *)
(* A stream holds the lock of its channel until the gateway drops it, which *)
(* is later than the moment its caller is done with it, and it outlives a  *)
(* replacement of the pool.                                                *)
(***************************************************************************)
EXTENDS Integers, Sequences, SequencesExt, FiniteSets, FiniteSetsExt

CONSTANTS
    Callers,   \* pulls that may run at the same time
    Want,      \* caller -> concurrency it asks for
    Ranges,    \* Range requests one attempt needs
    PoolCap,   \* largest pool accepted
    MaxGen,    \* bound: pools built
    NoCaller

\* What an instance gives the constants; a caller may ask for more than is accepted.
PoolAssumption ==
    /\ Want \in [Callers -> Nat] /\ NoCaller \notin Callers
    /\ PoolCap \in Nat \ {0} /\ MaxGen \in Nat /\ Ranges \in Nat

VARIABLES
    pool,     \* the current pool: [gen, n]
    locked,   \* channels <<gen, slot>> whose lock is held
    streams,  \* open streams: [of, chan]; of is NoCaller when its caller has gone
    call,     \* caller -> [pc, Ranges done, whether the pool is still as it left it]
    built,    \* pools connected so far
    control,  \* control calls, the first one in flight on the only control channel
    why       \* ghost: the circumstances of the last Exhausted answer

vars == <<pool, locked, streams, call, built, control, why>>

NoCall == [pc |-> "idle", done |-> 0, fresh |-> TRUE]
NoAnswer == [own |-> 0, want |-> 1, others |-> FALSE]

PoolInit ==
    /\ pool = [gen |-> 0, n |-> 1]
    /\ locked = {}
    /\ streams = {}
    /\ call = [c \in Callers |-> NoCall]
    /\ built = 0
    /\ control = <<>>
    /\ why = NoAnswer

Channels(p) == {<<p.gen, i>> : i \in 1 .. p.n}
Own(c) == {s \in streams : s.of = c}

\* The caller gives up or is done: its streams stay until the gateway drops them.
Abandoned(c) == {IF s.of = c THEN [s EXCEPT !.of = NoCaller] ELSE s : s \in streams}

---------------------------------------------------------------------------
(* ConfigurePool                                                           *)

\* check_pool_n
Accepts(n) == 1 <= n /\ n <= PoolCap

\* configure: the size is compared under the lock; a refused size is an error.
Configure(c) ==
    /\ call[c].pc = "idle" /\ Accepts(Want[c])
    /\ call' = [call EXCEPT ![c] = [NoCall EXCEPT !.pc = IF pool.n = Want[c] THEN "ranges" ELSE "connect"]]
    /\ UNCHANGED <<pool, locked, streams, built, control, why>>

\* connect_pool outside the lock, then the swap; streams keep their old channels.
SwapPool(c) ==
    /\ call[c].pc = "connect" /\ built < MaxGen
    /\ built' = built + 1
    /\ pool' = [gen |-> built', n |-> Want[c]]
    /\ call' = [d \in Callers |->
                  IF d = c THEN [call[c] EXCEPT !.pc = "ranges"]
                  ELSE [call[d] EXCEPT !.fresh = FALSE]]
    /\ UNCHANGED <<locked, streams, control, why>>

\* A channel cannot be connected: the old pool stays.
ConnectFails(c) ==
    /\ call[c].pc = "connect"
    /\ call' = [call EXCEPT ![c] = NoCall]
    /\ UNCHANGED <<pool, locked, streams, built, control, why>>

---------------------------------------------------------------------------
(* GetRange                                                                *)

\* try_checkout considers the current pool only.
Free == Channels(pool) \ locked

\* The pull keeps at most its concurrency in flight.
MayRequest(c) ==
    /\ call[c].pc = "ranges"
    /\ Cardinality(Own(c)) < Want[c]
    /\ call[c].done + Cardinality(Own(c)) < Ranges

\* try_checkout takes the first free slot; the stream holds it.
GetRange(c) ==
    /\ MayRequest(c) /\ Free # {}
    /\ LET chan == <<pool.gen, Min({x[2] : x \in Free})>>
       IN  /\ locked' = locked \cup {chan}
           /\ streams' = streams \cup {[of |-> c, chan |-> chan]}
    /\ UNCHANGED <<pool, call, built, control, why>>

\* No slot: ResourceExhausted fails the attempt, and the other Ranges with it.
Exhausted(c) ==
    /\ MayRequest(c) /\ Free = {}
    /\ why' = [own |-> Cardinality(Own(c)), want |-> Want[c],
               others |-> ~call[c].fresh \/ \E s \in streams : s.of # c]
    /\ call' = [call EXCEPT ![c] = NoCall]
    /\ streams' = Abandoned(c)
    /\ UNCHANGED <<pool, locked, built, control>>

\* A short, long or failed answer fails the attempt too.
RangeFails(c) ==
    /\ call[c].pc = "ranges" /\ Own(c) # {}
    /\ call' = [call EXCEPT ![c] = NoCall]
    /\ streams' = Abandoned(c)
    /\ UNCHANGED <<pool, locked, built, control, why>>

\* The caller has all bytes; the gateway still owns the stream.
RangeDone(c) ==
    /\ \E s \in Own(c) : streams' = (streams \ {s}) \cup {[s EXCEPT !.of = NoCaller]}
    /\ call' = [call EXCEPT ![c].done = @ + 1]
    /\ UNCHANGED <<pool, locked, built, control, why>>

PullDone(c) ==
    /\ call[c].pc = "ranges" /\ call[c].done = Ranges
    /\ call' = [call EXCEPT ![c] = NoCall]
    /\ UNCHANGED <<pool, locked, streams, built, control, why>>

\* GuardedRange is dropped, and its SlotGuard with it.
DropStream ==
    /\ \E s \in streams :
          /\ s.of = NoCaller
          /\ streams' = streams \ {s}
          /\ locked' = locked \ {s.chan}
    /\ UNCHANGED <<pool, call, built, control, why>>

---------------------------------------------------------------------------
(* Control calls: forwarded one at a time over one channel                 *)

\* df, delete_remote, list, ...: the channel's concurrency limit is 1.
ControlCall(c) ==
    /\ c \notin ToSet(control)
    /\ control' = Append(control, c)
    /\ UNCHANGED <<pool, locked, streams, call, built, why>>

\* The limit admits waiting calls in their order.
ControlAnswer ==
    /\ control # <<>>
    /\ control' = Tail(control)
    /\ UNCHANGED <<pool, locked, streams, call, built, why>>

PoolNext ==
    \/ DropStream \/ ControlAnswer
    \/ \E c \in Callers : ControlCall(c)
    \/ \E c \in Callers :
          \/ Configure(c) \/ SwapPool(c) \/ ConnectFails(c)
          \/ GetRange(c) \/ Exhausted(c) \/ RangeFails(c) \/ RangeDone(c) \/ PullDone(c)

Spec == PoolInit /\ [][PoolNext]_vars

\* The seedbox answers a call, or its connection breaks.
FairSpec == Spec /\ WF_vars(ControlAnswer)

---------------------------------------------------------------------------
(* Properties                                                              *)

\* Every variable has its type.
PoolTypeOK ==
    /\ pool \in [gen : 0 .. MaxGen, n : 1 .. PoolCap]
    /\ locked \subseteq ((0 .. MaxGen) \X (1 .. PoolCap))
    /\ \A s \in streams : s.of \in Callers \cup {NoCaller} /\ s.chan \in locked

\* One in-flight stream per channel, however pools are replaced under the
\* streams: every held lock belongs to exactly one stream.
OneStreamPerChannel ==
    \A chan \in locked : Cardinality({s \in streams : s.chan = chan}) = 1

\* A pull never runs into the limit by itself: Exhausted is always owed to a
\* pool another pull resized, another pull's stream, or one not yet dropped.
ExhaustedHasCause == why.own < why.want /\ (why.others \/ why = NoAnswer)

(* Why they hold: the inductive invariant. *)

Stream == [of : Callers \cup {NoCaller}, chan : (0 .. MaxGen) \X (1 .. PoolCap)]
Call == [pc : {"idle", "connect", "ranges"}, done : Nat, fresh : BOOLEAN]
StateTyped ==
    /\ pool \in [gen : 0 .. MaxGen, n : 1 .. PoolCap]
    /\ streams \subseteq Stream /\ IsFiniteSet(streams)
    /\ call \in [Callers -> Call]
    /\ built \in 0 .. MaxGen

\* A lock is held by its stream alone.
LocksAreStreams ==
    /\ locked = {s.chan : s \in streams}
    /\ \A s, t \in streams : s.chan = t.chan => s = t

\* configure admitted the size; nobody resized the pool since it was set for the pull.
Admitted == \A c \in Callers : call[c].pc # "idle" => Accepts(Want[c])
FreshIsSized == \A c \in Callers : call[c].pc = "ranges" /\ call[c].fresh => pool.n = Want[c]

PoolInv == StateTyped /\ LocksAreStreams /\ Admitted /\ FreshIsSized /\ ExhaustedHasCause

---------------------------------------------------------------------------
(* Progress                                                                *)

\* Every control call is answered, however many others keep calling.
ControlAnswered == \A c \in Callers : (c \in ToSet(control)) ~> (c \notin ToSet(control))
=============================================================================
