----------------------------- MODULE MCSeedbox -----------------------------
(***************************************************************************)
(* What runs on, is installed on or talks to the seedbox, in one run:      *)
(* its installation and keys, the repair of its web edge, the grabber's    *)
(* scans, the application of [grab], the control calls and the walker      *)
(* (which is extended: its disk rests while another part runs).            *)
(***************************************************************************)
EXTENDS Slots, SeedboxWalker, TLC

CONSTANTS None, Pinned, Missing, h1, h2, p1, p2, port1, port2, f1, f2, k1, k2, t1

\* Both commands of one process, with one host and two ports.
I == INSTANCE SeedboxInstall WITH
    tls <- s1, cfg <- s2, probes <- s3, machine <- s4, box <- s5, alias <- s6, gateway <- s7,
    binary <- s8, proc <- s9, mints <- s10, faults <- s11, events <- s12, runs <- s13,
    Procs <- {p1}, Kinds <- {"bootstrap", "upgrade"}, Hosts <- {h1}, Ports <- {port1, port2},
    MaxMints <- 2, MaxFaults <- 1, MaxEvents <- 1, MaxRuns <- 3

\* Two processes that bootstrap two hosts.
B == INSTANCE SeedboxInstall WITH
    tls <- s1, cfg <- s2, probes <- s3, machine <- s4, box <- s5, alias <- s6, gateway <- s7,
    binary <- s8, proc <- s9, mints <- s10, faults <- s11, events <- s12, runs <- s13,
    Procs <- {p1, p2}, Kinds <- {"bootstrap"}, Hosts <- {h1, h2}, Ports <- {port1},
    MaxMints <- 2, MaxFaults <- 1, MaxEvents <- 1, MaxRuns <- 2

\* Two of the four apps, with confs that are healthy, have another Host line,
\* several, none, or no proxy_pass.
PanelConfs == {<<"pass", "host">>, <<"rewritten", "pass", "rewritten">>, <<"other", "pass", "other">>,
               Missing}
E == INSTANCE EdgeRepair WITH
    conf <- s1, served <- s2, host <- s3, link <- s4, want <- s5, started <- s6, record <- s7,
    cmd <- s8, rewrites <- s9, faults <- s10, edits <- s11,
    Apps <- <<"sonarr", "prowlarr">>, Confs <- PanelConfs, Keyless <- {},
    MaxRewrites <- 1, MaxFaults <- 1, MaxEdits <- 1

\* Two releases of one series, one of them a pack, and a release of a movie.
Pack == [title |-> "s", release |-> 1]
Single == [title |-> "s", release |-> 2]
Film == [title |-> "m", release |-> 1]
Three == {Pack, Single, Film}
Owner == [s |-> "sonarr", m |-> "radarr"]
G == INSTANCE Grabber WITH
    queue <- s1, next <- s2, came <- s3, removed <- s4, keyfile <- s5, up <- s6, hold <- s7,
    meant <- s8, monitored <- s9, copy <- s10, had <- s11, scan <- s12, events <- s13, faults <- s14,
    Apps <- <<"sonarr", "radarr">>, AppOf <- Owner, Releases <- Three, Packs <- {Pack},
    Titles <- {}, Series <- {}, PageSize <- 2, MaxPages <- 2, KeysVanish <- TRUE,
    MaxEvents <- 5, MaxFaults <- 1

\* No release, but a movie and a series the apps look for.
U == INSTANCE Grabber WITH
    queue <- s1, next <- s2, came <- s3, removed <- s4, keyfile <- s5, up <- s6, hold <- s7,
    meant <- s8, monitored <- s9, copy <- s10, had <- s11, scan <- s12, events <- s13, faults <- s14,
    Apps <- <<"sonarr", "radarr">>, AppOf <- Owner, Releases <- {}, Packs <- {},
    Titles <- {"m"}, Series <- {"s"}, PageSize <- 2, MaxPages <- 2, KeysVanish <- TRUE,
    MaxEvents <- 4, MaxFaults <- 1

\* One media app and prowlarr, with one wanted indexer in the first and none
\* in the second, and one client with a password the app masks.
OneIndexer == [sonarr |-> {[name |-> "a", val |-> "x"]}, prowlarr |-> {}]
OneClient == {[name |-> "p", val |-> "x"]}
A == INSTANCE GrabApply WITH
    res <- s1, ids <- s2, format <- s3, scores <- s4, delay <- s5, op <- s6, clean <- s7, settled <- s8,
    before <- s9, events <- s10, faults <- s11,
    Media <- <<"sonarr">>, Others <- <<"prowlarr">>, Servarr <- TRUE, WantIndexers <- OneIndexer,
    WantClients <- OneClient, WantFormats <- {"f"}, WantScores <- TRUE, WantDelay <- TRUE, Masked <- {"p"},
    Names <- {"a", "p"}, Values <- {"x", "y"}, Profiles <- {1}, MaxEvents <- 1, MaxFaults <- 1

\* Roots that are nested, that are links, that meet, and the root of the disk.
WalkDirs == {<<>>, <<"torrents">>, <<"torrents", "incomplete">>, <<"tv">>, <<"tv", "s">>, <<"out">>}
WalkLinks == (<<"tv", "l">> :> <<"out">>) @@ (<<"movies">> :> <<"tv">>)
WalkPlaces == {<<"torrents", "incomplete", "f">>, <<"torrents", "f">>, <<"tv", "s", "f">>, <<"out", "f">>}
OneArg == <<[id |-> "a", path |-> <<>>]>>
WalkArgs == {<<[id |-> "a", path |-> <<"torrents">>], [id |-> "b", path |-> <<"movies">>]>>,
             <<[id |-> "a", path |-> <<"tv">>], [id |-> "b", path |-> <<"movies">>]>>,
             <<[id |-> "a", path |-> <<"tv", "s">>], [id |-> "b", path |-> <<"tv">>]>>,
             <<[id |-> "a", path |-> <<"tv">>], [id |-> "a", path |-> <<"out">>]>>,
             OneArg}
ASSUME WalkerAssumptions == WalkerAssumption
Resting == at = [p \in Places |-> Absent] /\ args = OneArg /\ WalkerInit

\* Daemons of this package and of two others; numbers at their widths and past them.
Exact == (k1 :> [kind |-> "episode", year |-> 1999, season |-> 255, last |-> 65535, name |-> ""]) @@ (k2 :> None)
Wide == (k1 :> [kind |-> "movie", year |-> 65536, season |-> 0, last |-> None, name |-> None])
        @@ (k2 :> [kind |-> "episode", year |-> 2000, season |-> 256, last |-> None, name |-> "t"])
WireOutput == (k1 :> [itself |-> {"good"}, below |-> {"good"}]) @@ (k2 :> [itself |-> {}, below |-> {"odd", "lossy"}])
WirePlacement == ("v1" :> Exact) @@ ("v2" :> Exact) @@ ("later" :> Wide)
WireOps == {"df", "unmonitor", "delete_remote", "grab_apply", "hold_list", "hold_reject", "wanted_missing",
            "guard_preview", "list", "stat", "edge_check"}
C == INSTANCE ControlWire WITH
    daemon <- s1, box <- s2, files <- s3, queue <- s4, monitored <- s5, applied <- s6, call <- s7,
    result <- s8, calls <- s9, changes <- s10,
    FileNames <- {"good", "odd", "lossy"}, Keys <- {k1, k2}, OutputOf <- WireOutput,
    PlacementOf <- WirePlacement, Titles <- {t1}, Releases <- {"v1", "later", "v2"},
    Boxes <- {"bare", "none", "servarr"}, Ops <- WireOps, MaxCalls <- 1, MaxChanges <- 1

ASSUME WireAssumptions == C!WireAssumption

SeedboxInit ==
    \/ /\ Resting
       /\ \/ Chosen("install", 13) /\ I!InstallInit
          \/ Chosen("bundle", 13) /\ B!InstallInit
          \/ Chosen("edge", 11) /\ E!EdgeInit
          \/ Chosen("rejections", 14) /\ G!GrabberInit
          \/ Chosen("wanted", 14) /\ U!GrabberInit
          \/ Chosen("apply", 11) /\ A!ApplyInit
          \/ Chosen("wire", 10) /\ C!ControlInit
    \/ Chosen("walker", 0) /\ WalkerInit

SeedboxNext ==
    \/ /\ UNCHANGED walkerVars
       /\ \/ Moves("install", 13) /\ I!InstallNext
          \/ Moves("bundle", 13) /\ B!InstallNext
          \/ Moves("edge", 11) /\ E!EdgeNext
          \/ Moves("rejections", 14) /\ G!GrabberNext
          \/ Moves("wanted", 14) /\ U!GrabberNext
          \/ Moves("apply", 11) /\ A!ApplyNext
          \/ Moves("wire", 10) /\ C!ControlNext
    \/ Moves("walker", 0) /\ WalkerNext

SeedboxSpec == SeedboxInit /\ [][SeedboxNext]_<<slots, walkerVars>>

-----------------------------------------------------------------------------
(* What is promised of the parts.  Each conjunct is defined, with a comment, *)
(* in the part's module; the type invariants go with them.                   *)

\* The seedbox host.  When bootstrap reports that it applied, the daemon that
\* runs and the one a reboot brings back are of this run's build, bundle and
\* port (install_provider); the name systemd starts never holds half a binary
\* (copy_binary_atomically); a complete tls/ is of one mint and no run
\* overwrites a key it did not mint (write_to_dir, tls_bundle_state); the
\* recorded edge is one that was healthy as a whole, and repair verifies what
\* nginx serves (record_edge_baseline, nginx_test_and_reload).
HostIsWhole ==
    /\ [](/\ part = "install" => I!InstallTypeOK /\ I!AppliedServes /\ I!LiveBinaryWhole
          /\ part = "bundle" => B!InstallTypeOK /\ B!BundleOfOneMint
          /\ part = "edge" =>
               E!EdgeTypeOK /\ E!RecordedWasHealthy /\ E!SpliceHeals /\ E!VerifiesWhatIsServed)
    /\ [][/\ part = "install" => I!KeepsKeys
          /\ part = "bundle" => B!KeepsKeys]_<<slots, walkerVars>>

\* The grabber does what was decided and nothing else.  A rejection is
\* acknowledged only for a release that has left the queue, or that the scan's
\* listing could not show (its app had no key, or a record left between two
\* pages), and only a release whose own Hold was rejected is removed
\* (hold_reject, send_rejections); a Title is unmonitored only while the library
\* has an undrifted file of it (unmonitor_present); over the wire, success of a
\* call means the deed was done, the handler's exit code is the caller's, and
\* Holds and files arrive with all their numbers or not at all, across daemons of
\* other packages (control.rs); an apply that ends without interference has
\* brought every app to the sets of config.toml, a second one writes nothing but
\* resources with a value the app masks, and a set config.toml leaves empty is
\* never touched (grab_apply).
GrabberIsObeyed ==
    /\ [](/\ part = "rejections" => G!GrabberTypeOK /\ G!RemovedWasRejected
          /\ part = "wanted" => U!GrabberTypeOK
          /\ part = "wire" =>
               C!OkMeansPerformed /\ C!ExitCodeSurvives /\ C!HoldsArriveWhole /\ C!ListingsArriveWhole
          /\ part = "apply" => A!GrabApplyTypeOK /\ A!AppliedMeansDesired /\ A!SecondIsNoop)
    /\ [][/\ part = "rejections" => G!AcknowledgesGone
          /\ part = "wanted" => U!UnmonitorsPresent
          /\ part = "apply" => A!KeepsUnspoken]_<<slots, walkerVars>>

=============================================================================
