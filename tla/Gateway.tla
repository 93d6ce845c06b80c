------------------------------ MODULE Gateway ------------------------------
(***************************************************************************)
(* Startup and supervision of mediaops-gateway: waiting for the Home API   *)
(* and the Secret, loading the TLS bundle file by file, taking over the    *)
(* unix socket, connecting to the seedbox, and serving until the Secret    *)
(* changes.  The bundle is rewritten file by file while it is read, the    *)
(* Secret is applied after it, the API restarts, and gateways die leaving  *)
(* their socket behind.  A certificate or key is its version: the bundle   *)
(* minted v-th has version v in all of its files.                          *)
(***************************************************************************)
EXTENDS Integers, Sequences, SequencesExt, FiniteSets

CONSTANTS
    Procs,      \* gateway processes; the supervisor keeps each of them running
    MaxVer,     \* bound: bundles minted
    MaxEvents,  \* bound: crashes, restarts and edits
    NoSecret, NoSocket

VARIABLES
    disk,    \* file of the TLS directory -> version, 0 when missing
    minting, \* the bundle being written: [ver, next file]
    secret,  \* spec of the applied Secret
    api,     \* whether the Home API answers
    box,     \* version of the seedbox's own bundle, 0 while it is unreachable
    sock,    \* the entry at the socket path: [kind, ino]
    gw,      \* process -> its state
    events   \* environment steps so far

vars == <<disk, minting, secret, api, box, sock, gw, events>>

\* The order of write_to_dir and of from_dir.
FileOrder == <<"ca.pem", "server.pem", "server.key", "client.pem", "client.key">>
Files == ToSet(FileOrder)
Required == {"ca.pem", "server.pem", "server.key"}

Specs == [ver : 1 .. MaxVer, pins : BOOLEAN, address : BOOLEAN]
NoBundle == [f \in Files |-> 0]

Inodes == 1 .. Cardinality(Procs) + 1
Entries == [kind : {"socket", "file"}, ino : Inodes]

\* What an instance gives the constants.
GatewayAssumption ==
    /\ IsFiniteSet(Procs) /\ MaxVer \in Nat \ {0}
    /\ NoSecret \notin Specs /\ NoSocket \notin Entries

\* A process that has not started; listens is the inode of its listener, 0 for none.
Off == [pc |-> "off", spec |-> NoSecret, bundle |-> NoBundle, read |-> 0,
        seen |-> 0, listens |-> 0, watch |-> "none"]

GatewayInit ==
    /\ disk = [f \in Files |-> 1]
    /\ minting = [ver |-> 1, next |-> Len(FileOrder) + 1]
    /\ secret \in {NoSecret, [ver |-> 1, pins |-> TRUE, address |-> TRUE]}
    /\ api \in BOOLEAN
    /\ box = 1
    /\ sock = NoSocket
    /\ gw = [p \in Procs |-> Off]
    /\ events = 0

---------------------------------------------------------------------------
(* Startup                                                                 *)

At(p, pc) == gw[p].pc = pc
Goto(p, pc) == gw' = [gw EXCEPT ![p].pc = pc]

\* An error ends the process; its listener closes and the socket stays behind.
Exit(p) == gw' = [gw EXCEPT ![p] = Off]
Frame == UNCHANGED <<disk, minting, secret, api, box, events>>

\* mediaops-home starts the role, and again whenever it is dead.
Spawn(p) ==
    /\ At(p, "off")
    /\ Goto(p, "wait_api")
    /\ UNCHANGED sock /\ Frame

\* wait_api: until the deadline.
WaitApi(p) ==
    /\ At(p, "wait_api")
    /\ IF api THEN Goto(p, "wait_secret") ELSE Exit(p)
    /\ UNCHANGED sock /\ Frame

\* wait_secret: not found is waited for until the deadline, other errors end it.
WaitSecret(p) ==
    /\ At(p, "wait_secret")
    /\ IF api /\ secret # NoSecret /\ secret.address
       THEN gw' = [gw EXCEPT ![p].pc = "load", ![p].spec = secret, ![p].read = 1]
       ELSE Exit(p)
    /\ UNCHANGED sock /\ Frame

\* from_dir, one file per step.
ReadFile(p) ==
    /\ At(p, "load") /\ gw[p].read <= Len(FileOrder)
    /\ LET f == FileOrder[gw[p].read]
       IN  IF disk[f] = 0 /\ f \in Required
           THEN Exit(p)
           ELSE gw' = [gw EXCEPT ![p].bundle[f] = disk[f], ![p].read = @ + 1]
    /\ UNCHANGED sock /\ Frame

\* Mutant of PinsMatch: only the leaf the seedbox presents is pinned.
PinsMatchServerOnly(spec, b) == spec.pins => b["server.pem"] = spec.ver

\* validate_pins: a Secret without pins trusts the local bundle.
PinsMatch(spec, b) ==
    spec.pins => \A f \in {"ca.pem", "server.pem", "client.pem"} : b[f] = spec.ver

\* server_config and client_config: rustls refuses a key that is not the certificate's.
ConfigsBuild(b) ==
    /\ b["server.key"] = b["server.pem"]
    /\ b["client.key"] = b["client.pem"]
    /\ b["client.pem"] # 0

\* load_identity's checks, server_config and pinned_client.
CheckIdentity(p) ==
    /\ At(p, "load") /\ gw[p].read > Len(FileOrder)
    /\ IF PinsMatch(gw[p].spec, gw[p].bundle) /\ ConfigsBuild(gw[p].bundle)
       THEN Goto(p, "inspect") ELSE Exit(p)
    /\ UNCHANGED sock /\ Frame

---------------------------------------------------------------------------
(* socket::bind                                                            *)

\* The file system reuses the number of an entry nobody holds any more.
FreeInode ==
    LET held == {gw[p].listens : p \in Procs}
    IN  CHOOSE i \in Inodes : i \notin held /\ \A j \in 1 .. i - 1 : j \in held

Live(s) == s.kind = "socket" /\ \E p \in Procs : gw[p].listens = s.ino

\* symlink_metadata: nothing there, an unrelated entry, or a socket to probe.
InspectPath(p) ==
    /\ At(p, "inspect")
    /\ CASE sock = NoSocket -> Goto(p, "bind")
         [] sock # NoSocket /\ sock.kind = "file" -> Exit(p)
         [] OTHER -> gw' = [gw EXCEPT ![p].pc = "probe", ![p].seen = sock.ino]
    /\ UNCHANGED sock /\ Frame

\* A connection that is refused means a dead listener.
ProbePath(p) ==
    /\ At(p, "probe")
    /\ IF sock # NoSocket /\ sock.kind = "socket" /\ ~Live(sock)
       THEN Goto(p, "recheck") ELSE Exit(p)
    /\ UNCHANGED sock /\ Frame

\* The inode must be the one inspected.
RecheckPath(p) ==
    /\ At(p, "recheck")
    /\ IF sock # NoSocket /\ sock.ino = gw[p].seen THEN Goto(p, "remove") ELSE Exit(p)
    /\ UNCHANGED sock /\ Frame

\* remove_file: by name.
RemovePath(p) ==
    /\ At(p, "remove")
    /\ IF sock = NoSocket THEN Exit(p) /\ UNCHANGED sock
       ELSE Goto(p, "bind") /\ sock' = NoSocket
    /\ Frame

BindPath(p) ==
    /\ At(p, "bind")
    /\ IF sock # NoSocket THEN Exit(p) /\ UNCHANGED sock
       ELSE /\ sock' = [kind |-> "socket", ino |-> FreeInode]
            /\ gw' = [gw EXCEPT ![p].pc = "connect", ![p].listens = FreeInode]
    /\ Frame

---------------------------------------------------------------------------
(* Connecting and serving                                                  *)

\* connect_tcp over PinnedServer: WebPKI below the CA and the pinned leaf on
\* this side, the client certificate below the box's CA on the other.
HandshakeOk(b) == box # 0 /\ \A f \in {"ca.pem", "server.pem", "client.pem"} : b[f] = box

\* HomeGateway::connect: the control channel and a pool of one, then serve.
ConnectBox(p) ==
    /\ At(p, "connect")
    /\ IF HandshakeOk(gw[p].bundle) THEN Goto(p, "serve") ELSE Exit(p)
    /\ UNCHANGED sock /\ Frame

\* secret_changed: subscribe first.
OpenWatch(p) ==
    /\ At(p, "serve") /\ gw[p].watch = "none"
    /\ IF api THEN gw' = [gw EXCEPT ![p].watch = "event"] ELSE Exit(p)
    /\ UNCHANGED sock /\ Frame

\* Get after subscribing and after every event; a missing Secret is an error.
ReadSecret(p) ==
    /\ At(p, "serve") /\ gw[p].watch = "event"
    /\ IF api /\ secret = gw[p].spec
       THEN gw' = [gw EXCEPT ![p].watch = "open"] ELSE Exit(p)
    /\ UNCHANGED sock /\ Frame

\* The stream of a dead API ends.
WatchEnded(p) ==
    /\ At(p, "serve") /\ gw[p].watch = "ended" /\ Exit(p)
    /\ UNCHANGED sock /\ Frame

GatewayStep(p) ==
    \/ Spawn(p) \/ WaitApi(p) \/ WaitSecret(p) \/ ReadFile(p) \/ CheckIdentity(p)
    \/ InspectPath(p) \/ ProbePath(p) \/ RecheckPath(p) \/ RemovePath(p) \/ BindPath(p)
    \/ ConnectBox(p) \/ OpenWatch(p) \/ ReadSecret(p) \/ WatchEnded(p)

---------------------------------------------------------------------------
(* The surroundings                                                        *)

Event == events < MaxEvents /\ events' = events + 1

\* The process is killed.
Crash(p) ==
    /\ Event /\ ~At(p, "off") /\ Exit(p)
    /\ UNCHANGED <<disk, minting, secret, api, box, sock>>

\* A new bundle is minted; an unfinished one is abandoned.
Mint ==
    /\ minting.ver < MaxVer /\ Event
    /\ minting' = [ver |-> minting.ver + 1, next |-> 1]
    /\ UNCHANGED <<disk, secret, api, box, sock, gw>>

\* write_atomic: each file is replaced by a rename.
WriteFile ==
    /\ minting.next <= Len(FileOrder)
    /\ disk' = [disk EXCEPT ![FileOrder[minting.next]] = minting.ver]
    /\ minting' = [minting EXCEPT !.next = @ + 1]
    /\ UNCHANGED <<secret, api, box, sock, gw, events>>

\* The watchers of the Secret are told.
Notify(procs) ==
    gw' = [p \in Procs |->
             IF p \in procs /\ gw[p].watch = "open" THEN [gw[p] EXCEPT !.watch = "event"] ELSE gw[p]]

\* The operator applies or deletes the Secret; the box gets the bundle's server half.
ApplySecret ==
    /\ api /\ Event
    /\ \E spec \in Specs \cup {NoSecret} :
          /\ spec # NoSecret => spec.ver <= minting.ver
          /\ secret' = spec
    /\ secret' # secret /\ Notify(Procs)
    /\ UNCHANGED <<disk, minting, api, box, sock>>

DeployBox ==
    /\ Event /\ box' \in 0 .. minting.ver /\ box' # box
    /\ UNCHANGED <<disk, minting, secret, api, sock, gw>>

\* The API stops, which ends its streams, or starts again.
FlipApi ==
    /\ Event /\ api' = ~api
    /\ gw' = [p \in Procs |->
                IF api /\ gw[p].watch \in {"open", "event"} THEN [gw[p] EXCEPT !.watch = "ended"] ELSE gw[p]]
    /\ UNCHANGED <<disk, minting, secret, box, sock>>

\* Somebody puts a file at the path, or takes away what nobody listens on.
ForeignEntry ==
    /\ Event
    /\ \/ sock = NoSocket /\ sock' = [kind |-> "file", ino |-> FreeInode]
       \/ sock # NoSocket /\ ~Live(sock) /\ sock' = NoSocket
    /\ UNCHANGED <<disk, minting, secret, api, box, gw>>

Environment ==
    \/ \E p \in Procs : Crash(p)
    \/ Mint \/ WriteFile \/ ApplySecret \/ DeployBox \/ FlipApi \/ ForeignEntry

GatewayNext == (\E p \in Procs : GatewayStep(p)) \/ Environment

Spec == GatewayInit /\ [][GatewayNext]_vars

\* The supervisor polls and respawns, and a running process is scheduled.
FairSpec == Spec /\ \A p \in Procs : WF_vars(GatewayStep(p))

---------------------------------------------------------------------------
(* Properties                                                              *)

\* Every variable has its type; run and socket bookkeeping agree.
GatewayTypeOK ==
    /\ disk \in [Files -> 0 .. MaxVer]
    /\ secret \in Specs \cup {NoSecret}
    /\ sock = NoSocket \/ sock \in Entries
    /\ \A p \in Procs :
          /\ gw[p].spec \in Specs \cup {NoSecret}
          /\ gw[p].bundle \in [Files -> 0 .. MaxVer]
          /\ gw[p].listens # 0 <=> gw[p].pc \in {"connect", "serve"}

\* However the bundle was rewritten while it was read, a gateway that offers
\* its socket under a Secret with pins holds the whole bundle those pins name.
OffersWholeBundle ==
    \A p \in Procs :
        gw[p].listens # 0 /\ gw[p].spec.pins => gw[p].bundle = [f \in Files |-> gw[p].spec.ver]

(* Why they hold: the inductive invariant. *)

Early == {"off", "wait_api", "wait_secret"}
Offering == {"connect", "serve"}
Checked == {"inspect", "probe", "recheck", "remove", "bind"} \cup Offering
Process ==
    [pc : Early \cup {"load"} \cup Checked, spec : Specs \cup {NoSecret}, bundle : [Files -> 0 .. MaxVer],
     read : 0 .. Len(FileOrder) + 1, seen : {0} \cup Inodes, listens : {0} \cup Inodes,
     watch : {"none", "event", "open", "ended"}]
StateTyped ==
    /\ disk \in [Files -> 0 .. MaxVer]
    /\ minting \in [ver : 1 .. MaxVer, next : 1 .. Len(FileOrder) + 1]
    /\ secret \in Specs \cup {NoSecret}
    /\ sock \in Entries \cup {NoSocket}
    /\ gw \in [Procs -> Process]

\* What a process that is past load_identity has checked stays with it.
Sound(g) ==
    /\ g.pc \notin Early => g.spec \in Specs
    /\ g.pc = "load" => g.read >= 1
    /\ g.pc \in Checked => PinsMatch(g.spec, g.bundle) /\ ConfigsBuild(g.bundle)
    /\ g.listens # 0 <=> g.pc \in Offering

GatewayInv == StateTyped /\ \A p \in Procs : Sound(gw[p])

---------------------------------------------------------------------------
(* Progress                                                                *)

\* A gateway does not go on serving under a Secret that was replaced or
\* deleted: it hears of it, or its watch ends and it starts over.
ServesStale(p) == At(p, "serve") /\ secret # gw[p].spec
StaleSecretEnds == \A p \in Procs : ServesStale(p) ~> ~ServesStale(p)

\* What one version everywhere and a free path amount to.
Settled ==
    /\ events = MaxEvents /\ minting.next > Len(FileOrder)
    /\ api /\ secret # NoSecret /\ secret.address /\ (secret.pins => secret.ver = minting.ver)
    /\ box = minting.ver
    /\ sock # NoSocket => sock.kind = "socket"

\* Whatever was killed, restarted or left behind before, a lone gateway ends up
\* serving on the path once configuration, API and seedbox agree.
Serves == \A p \in Procs : At(p, "serve") /\ sock # NoSocket /\ sock.ino = gw[p].listens
ServesInTheEnd == Settled ~> Serves

=============================================================================
