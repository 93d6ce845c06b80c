--------------------------- MODULE SeedboxInstall ---------------------------
(***************************************************************************)
(* seedbox bootstrap and seedbox upgrade: mint the certificate bundle,     *)
(* write the two values config.toml takes from it, bring binary,           *)
(* certificates, configuration and unit to the box command by command over *)
(* ssh, probe the endpoint and record the fingerprint of its edge.  A run  *)
(* may die at every step, a command may fail before or after it took       *)
(* effect, the operator edits, removes and repeats, and the two commands   *)
(* hold different locks.                                                   *)
(***************************************************************************)
EXTENDS Integers, Sequences, FiniteSets

CONSTANTS
    Procs,      \* command processes
    Kinds,      \* subset of {"bootstrap", "upgrade"}: the commands that are run
    Hosts,      \* boxes the ssh alias may name
    Ports,      \* ports the box forwards
    MaxMints,   \* bound: bundles minted
    MaxFaults,  \* bound: crashes, failed commands and reboots
    MaxEvents,  \* bound: edits by the operator
    MaxRuns,    \* bound: commands started
    None, Pinned

VARIABLES
    tls,      \* home tls/: file -> mint it belongs to, 0 for absent
    cfg,      \* config.toml: [pins: mint named by [tls] or 0, addr, pinned]
    probes,   \* endpoint -> what its row was measured at, Pinned or None
    machine,  \* the host whose edge fingerprint is recorded, or None
    box,      \* host -> the files, the unit and the daemon of a box
    alias,    \* the host that ssh's Host seedbox names
    gateway,  \* endpoint the home gateway dials, or None while it is down
    binary,   \* mediaopsd in the target directory: the run that built it
    proc,     \* process -> command it runs
    mints, faults, events, runs

vars == <<tls, cfg, probes, machine, box, alias, gateway, binary, proc, mints, faults, events, runs>>
bounds == <<mints, faults, events, runs>>

Addresses == [host : Hosts, port : Ports]
BundleNames == <<"ca.pem", "server.pem", "server.key", "client.pem", "client.key">>
ServerFiles == {"ca.pem", "server.pem", "server.key"}
Files == {BundleNames[i] : i \in DOMAIN BundleNames}
Torn == -1
Down == [bin |-> 0, certs |-> [f \in ServerFiles |-> 0], conf |-> None, port |-> None]

NewBox == [bin |-> 0, new |-> 0, certs |-> [f \in ServerFiles |-> 0], conf |-> None,
           unit |-> None, loaded |-> None, enabled |-> FALSE, linger |-> FALSE, run |-> Down]

Idle == [pc |-> "idle", kind |-> "none", addr |-> None, skip |-> FALSE, there |-> FALSE,
         read |-> None, plan |-> "none", mint |-> 0, at |-> 1, fd |-> "none", bin |-> 0]

InstallInit ==
    /\ tls = [f \in Files |-> 0]
    /\ cfg \in [pins : {0}, addr : {None}, pinned : BOOLEAN]
    /\ probes = [a \in Addresses |-> None]
    /\ machine = None
    /\ box = [h \in Hosts |-> NewBox]
    /\ alias \in Hosts
    /\ gateway = None
    /\ binary = 0
    /\ proc = [p \in Procs |-> Idle]
    /\ mints = 0 /\ faults = 0 /\ events = 0 /\ runs = 0

---------------------------------------------------------------------------
(* The box: files, systemd --user and the daemon.                          *)

\* What systemd would start now, and whether the daemon stays up with it.
Snapshot(b) == [bin |-> b.bin, certs |-> b.certs, conf |-> b.conf, port |-> b.loaded]
StaysUp(s) ==
    /\ s.bin > 0 /\ s.conf # None /\ s.port # None
    /\ \E m \in 1 .. MaxMints : \A f \in ServerFiles : s.certs[f] = m

Started(b) == [b EXCEPT !.run = IF StaysUp(Snapshot(b)) THEN Snapshot(b) ELSE Down]

\* After a reboot the unit file is what systemd loads, if it was enabled and lingers.
Rebooted(b) ==
    LET l == [b EXCEPT !.loaded = b.unit, !.run = Down]
    IN  IF b.enabled /\ b.linger THEN Started(l) ELSE l

\* connect_tcp and the gateway: the client bundle of home meets the server's.
Reachable(a) ==
    /\ box[a.host].run.port = a.port
    /\ \A f \in ServerFiles : box[a.host].run.certs[f] = tls[f]

GatewayReaches == IF gateway = None THEN FALSE ELSE Reachable(gateway)

---------------------------------------------------------------------------
At(p, pc) == proc[p].pc = pc
Goto(p, pc) == proc' = [proc EXCEPT ![p].pc = pc, ![p].at = 1]
Return(p) == proc' = [proc EXCEPT ![p] = Idle]
Locked(kind) == \E q \in Procs : proc[q].kind = kind

\* upgrade changes nothing at home before its commands.
FirstStep(kind) == IF kind = "bootstrap" THEN "read" ELSE "command"

\* The checks that change nothing: provider, --root, the flock of the command (a
\* second one is refused), the ssh alias, no git work tree, --yes and the pins.
\* bootstrap creates bootstrap.lock beside config.toml, upgrade takes mediaops.lock.
Start(p) ==
    /\ At(p, "idle") /\ runs < MaxRuns
    /\ runs' = runs + 1
    /\ \E k \in Kinds, a \in Addresses, skip, there \in BOOLEAN :
           /\ ~Locked(k)
           /\ proc' = [proc EXCEPT ![p] =
               [Idle EXCEPT !.kind = k, !.pc = FirstStep(k),
                            !.addr = a, !.skip = skip, !.there = there]]
    /\ UNCHANGED <<tls, cfg, probes, machine, box, alias, gateway, binary, mints, faults, events>>

\* Reads config.toml and the row of the endpoint; a pinned value is recorded at once.
ReadConfig(p) ==
    /\ At(p, "read")
    /\ LET a == proc[p].addr
           row == probes[a]
       IN  IF ~cfg.pinned /\ proc[p].skip /\ row = None
           THEN Return(p) /\ UNCHANGED probes
           ELSE /\ proc' = [proc EXCEPT ![p].pc = "bundle", ![p].read = cfg,
                      ![p].plan = IF cfg.pinned \/ row # None THEN "reuse" ELSE "sweep"]
                /\ probes' = IF cfg.pinned THEN [probes EXCEPT ![a] = Pinned] ELSE probes
    /\ UNCHANGED <<tls, cfg, machine, box, alias, gateway, binary, bounds>>

Present == {f \in Files : tls[f] # 0}

\* Mutant of Bundle: files that are there do not keep it from minting.
BundleAnyway(p) ==
    /\ At(p, "bundle")
    /\ IF Present = Files
       THEN Goto(p, "config") /\ UNCHANGED mints
       ELSE /\ mints < MaxMints /\ mints' = mints + 1
            /\ proc' = [proc EXCEPT ![p].pc = "write", ![p].mint = mints + 1, ![p].at = 1]
    /\ UNCHANGED <<tls, cfg, probes, machine, box, alias, gateway, binary, faults, events, runs>>

\* tls_bundle_state: reuse a complete bundle, mint into an empty directory,
\* refuse everything between.
Bundle(p) ==
    /\ At(p, "bundle")
    /\ IF Present = Files THEN Goto(p, "config") /\ UNCHANGED mints
       ELSE IF Present # {} THEN Return(p) /\ UNCHANGED mints
       ELSE /\ mints < MaxMints /\ mints' = mints + 1
            /\ proc' = [proc EXCEPT ![p].pc = "write", ![p].mint = mints + 1, ![p].at = 1]
    /\ UNCHANGED <<tls, cfg, probes, machine, box, alias, gateway, binary, faults, events, runs>>

\* write_to_dir: file after file, each written beside its name and renamed.
WriteBundle(p) ==
    /\ At(p, "write")
    /\ tls' = [tls EXCEPT ![BundleNames[proc[p].at]] = proc[p].mint]
    /\ IF proc[p].at = Len(BundleNames) THEN Goto(p, "config")
       ELSE proc' = [proc EXCEPT ![p].at = @ + 1]
    /\ UNCHANGED <<cfg, probes, machine, box, alias, gateway, binary, bounds>>

\* The text that was read, with [tls] upserted for a new bundle or when there is
\* none, and the address: written whole over what is there now.
WriteConfig(p) ==
    /\ At(p, "config")
    /\ LET old == proc[p].read
           new == [old EXCEPT !.addr = proc[p].addr,
                     !.pins = IF proc[p].mint # 0 \/ old.pins = 0 THEN tls["ca.pem"] ELSE @]
       IN  cfg' = IF new # old THEN new ELSE cfg
    /\ Goto(p, IF proc[p].there THEN "probe" ELSE "command")
    /\ UNCHANGED <<tls, probes, machine, box, alias, gateway, binary, bounds>>

---------------------------------------------------------------------------
(* install_provider and copy_binary_and_restart_unit                       *)

\* The commands in order; a copy of the binary is open between "scp" and "sent".
Commands(kind) ==
    IF kind = "bootstrap"
    THEN <<"make", "mkdir", "scp", "sent", "mv", "ca.pem", "server.pem", "server.key",
           "config", "unit", "reload", "enable", "linger", "restart">>
    ELSE <<"make", "mkdir", "scp", "sent", "mv", "reload", "restart">>

Command(p) == Commands(proc[p].kind)[proc[p].at]

\* The box after a command of p.  scp writes into the file it opened, under
\* whatever name that file has by now.
After(p, b, c) ==
    CASE c = "scp" -> [b EXCEPT !.new = Torn]
      [] c = "sent" -> IF proc[p].fd = "bin" THEN [b EXCEPT !.bin = proc[p].bin] ELSE [b EXCEPT !.new = proc[p].bin]
      [] c = "mv" -> [b EXCEPT !.bin = b.new, !.new = 0]
      [] c \in ServerFiles -> [b EXCEPT !.certs[c] = tls[c]]
      [] c = "config" -> [b EXCEPT !.conf = cfg]
      [] c = "unit" -> [b EXCEPT !.unit = proc[p].addr.port]
      [] c = "reload" -> [b EXCEPT !.loaded = b.unit]
      [] c = "enable" -> IF b.run = Down THEN Started([b EXCEPT !.enabled = TRUE]) ELSE [b EXCEPT !.enabled = TRUE]
      [] c = "linger" -> [b EXCEPT !.linger = TRUE]
      [] c = "restart" -> Started(b)
      [] OTHER -> b

\* systemctl wants a unit, mv the file it renames.
Succeeds(b, c) ==
    /\ c = "mv" => b.new # 0
    /\ c \in {"enable", "restart"} => b.loaded # None

Copying(q) == At(q, "command") /\ Command(q) = "sent"

RunCommand(p) ==
    /\ At(p, "command")
    /\ LET c == Command(p)
           last == proc[p].at = Len(Commands(proc[p].kind))
           moved(q) == c = "mv" /\ q # p /\ Copying(q) /\ proc[q].fd = "new"
       IN  IF ~Succeeds(box[alias], c) THEN Return(p) /\ UNCHANGED <<box, binary>>
           ELSE /\ box' = [box EXCEPT ![alias] = After(p, @, c)]
                /\ binary' = IF c = "make" THEN runs ELSE binary
                /\ proc' = [q \in Procs |->
                     IF q = p
                     THEN [proc[p] EXCEPT !.at = IF last THEN 1 ELSE @ + 1,
                             !.pc = IF ~last THEN @ ELSE IF proc[p].kind = "bootstrap" THEN "probe" ELSE "edge",
                             !.fd = IF c = "scp" THEN "new" ELSE @,
                             !.bin = IF c = "scp" THEN binary ELSE @]
                     ELSE IF moved(q) THEN [proc[q] EXCEPT !.fd = "bin"] ELSE proc[q]]
    /\ UNCHANGED <<tls, cfg, probes, machine, alias, gateway, bounds>>

\* A command exits non-zero: nothing happened, it all happened, or scp stopped
\* halfway.  SystemExec::run makes each of them an error that ends the run.
CommandFails(p) ==
    /\ At(p, "command") /\ faults < MaxFaults
    /\ faults' = faults + 1
    /\ LET c == Command(p)
           torn(b) == CASE c \in ServerFiles -> [b EXCEPT !.certs[c] = Torn]
                        [] c = "config" -> [b EXCEPT !.conf = None]
                        [] c = "unit" -> [b EXCEPT !.unit = None]
                        [] OTHER -> b
       IN  \E b \in {box[alias], After(p, box[alias], c), torn(box[alias])} :
               box' = [box EXCEPT ![alias] = b]
    /\ Return(p)
    /\ UNCHANGED <<tls, cfg, probes, machine, alias, gateway, binary, mints, events, runs>>

---------------------------------------------------------------------------
(* Probe and edge                                                          *)

\* connect_home first, whatever the gateway dials; else the endpoint itself.
Measure(a) ==
    IF GatewayReaches THEN {gateway} ELSE IF Reachable(a) THEN {a} ELSE {}

ProbeRange(p) ==
    /\ At(p, "probe")
    /\ IF proc[p].plan = "reuse"
       THEN Goto(p, "edge") /\ UNCHANGED probes
       ELSE \/ /\ Measure(proc[p].addr) = {} /\ Return(p) /\ UNCHANGED probes
            \/ \E m \in Measure(proc[p].addr) :
                   /\ probes' = [probes EXCEPT ![proc[p].addr] = m]
                   /\ Goto(p, "edge")
    /\ UNCHANGED <<tls, cfg, machine, box, alias, gateway, binary, bounds>>

\* persist_edge_fingerprint over the gateway, for bootstrap else over TCP; a
\* drifted edge or no connection is an error, --skip-edge skips it.
PersistEdge(p) ==
    /\ At(p, "edge")
    /\ \/ machine' = machine /\ Goto(p, "applied")
       \/ machine' = machine /\ Return(p)
       \/ /\ GatewayReaches
          /\ machine' = gateway.host /\ Goto(p, "applied")
       \/ /\ ~GatewayReaches
          /\ proc[p].kind = "bootstrap" /\ Reachable(proc[p].addr)
          /\ machine' = proc[p].addr.host /\ Goto(p, "applied")
    /\ UNCHANGED <<tls, cfg, probes, box, alias, gateway, binary, bounds>>

\* The report is printed and the lock released.
Report(p) ==
    /\ At(p, "applied") /\ Return(p)
    /\ UNCHANGED <<tls, cfg, probes, machine, box, alias, gateway, binary, bounds>>

---------------------------------------------------------------------------
(* Faults and the operator                                                 *)

\* The kernel releases the flock of a process that dies.
Crash(p) ==
    /\ ~At(p, "idle") /\ faults < MaxFaults
    /\ faults' = faults + 1 /\ Return(p)
    /\ UNCHANGED <<tls, cfg, probes, machine, box, alias, gateway, binary, mints, events, runs>>

Quiet == \A p \in Procs : At(p, "idle")

Reboot(h) ==
    /\ faults < MaxFaults /\ faults' = faults + 1
    /\ box' = [box EXCEPT ![h] = Rebooted(@)]
    /\ UNCHANGED <<tls, cfg, probes, machine, alias, gateway, binary, proc, mints, events, runs>>

\* Between runs tls/ is removed and the alias repointed; config.toml is edited at any time.
Operate ==
    /\ events < MaxEvents /\ events' = events + 1
    /\ \/ Quiet /\ Present # {} /\ tls' = [f \in Files |-> 0] /\ UNCHANGED <<cfg, alias, gateway>>
       \/ cfg' = [cfg EXCEPT !.pinned = ~@] /\ UNCHANGED <<tls, alias, gateway>>
       \/ Quiet /\ alias' \in Hosts \ {alias} /\ UNCHANGED <<tls, cfg, gateway>>
       \/ cfg.addr # None /\ gateway' = cfg.addr /\ UNCHANGED <<tls, cfg, alias>>
    /\ UNCHANGED <<probes, machine, box, binary, proc, mints, faults, runs>>

InstallStep(p) ==
    \/ Start(p) \/ ReadConfig(p) \/ Bundle(p) \/ WriteBundle(p) \/ WriteConfig(p)
    \/ RunCommand(p) \/ CommandFails(p) \/ ProbeRange(p) \/ PersistEdge(p) \/ Report(p) \/ Crash(p)

InstallNext == (\E p \in Procs : InstallStep(p)) \/ (\E h \in Hosts : Reboot(h)) \/ Operate

Spec == InstallInit /\ [][InstallNext]_vars

---------------------------------------------------------------------------
(* Properties                                                              *)

\* Type correctness; a daemon that runs was started from whole, matching files.
InstallTypeOK ==
    /\ tls \in [Files -> 0 .. MaxMints]
    /\ cfg \in [pins : 0 .. MaxMints, addr : Addresses \cup {None}, pinned : BOOLEAN]
    /\ \A a \in Addresses : probes[a] \in {None, Pinned} \/ probes[a] \in Addresses
    /\ machine \in Hosts \cup {None} /\ alias \in Hosts
    /\ \A h \in Hosts : StaysUp(box[h].run) \/ box[h].run = Down

\* What install_provider brought to the box for this run of bootstrap.
Installed(p, s) ==
    /\ s # Down
    /\ s.bin = proc[p].bin /\ s.port = proc[p].addr.port
    /\ s.conf.addr = proc[p].addr
    /\ \A f \in ServerFiles : s.certs[f] = tls[f]

\* When bootstrap reports that it applied, the daemon that runs, and the one a
\* reboot would bring back, is the build, bundle, configuration and port of this
\* run, whatever earlier runs left half done.
AppliedServes ==
    \A p \in Procs :
        At(p, "applied") /\ proc[p].kind = "bootstrap" /\ ~proc[p].there =>
            Installed(p, box[alias].run) /\ Installed(p, Rebooted(box[alias]).run)

\* copy_binary_atomically: the name that systemd starts never holds half a binary.
LiveBinaryWhole == \A h \in Hosts : box[h].bin # Torn

\* A complete tls/ comes from one mint, however many runs died while writing it.
BundleOfOneMint == Present = Files => \A f \in Files : tls[f] = tls["ca.pem"]

\* tls_bundle_state: no run overwrites a certificate or key it did not mint; only
\* the operator removes them.
KeepsKeys ==
    \A f \in Files : tls[f] # 0 => tls'[f] \in {0, tls[f]}

===============================================================================
