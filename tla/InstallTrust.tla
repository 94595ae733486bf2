----------------------------- MODULE InstallTrust -----------------------------
(***************************************************************************)
(* How an installed Tethers becomes, or does not become, the authority of  *)
(* a session: discovery, the release manifest, the product version and     *)
(* the one predicate that decides (tethers_install.py), the three callers  *)
(* that ask (GateSession, `permission-slip doctor`, `permission-slip       *)
(* setup`) and `tethers_release.py acquire`, which replaces a whole bundle *)
(* below them.  Every look at a file is a step of its own: somebody may    *)
(* change the installation between any two of them.                        *)
(***************************************************************************)
EXTENDS Naturals, FiniteSets

CONSTANTS
    Processes,     \* sessions, doctors and setups
    Places,        \* directories a Gate, an engine and a manifest may lie in
    Bundle,        \* the one `acquire` unpacks into
    Releases,      \* published Tethers releases; a manifest belongs to one
    Locals,        \* builds no manifest lists
    Locked,        \* the release the lock file accepts
    Described,     \* the version a build gives to `describe --json`, or None
    Printed,       \* the version it gives to `--version`, or None
    Spoken,        \* the version it gives in hello
    Speaks,        \* the builds that speak tethers.authority/1
    Supported,     \* SUPPORTED_AUTHORITY_PRODUCT_VERSIONS
    Situations,    \* how the system may start
    Changing,      \* bound: the places others change files in
    MaxChanges,    \* bound: changes of the installation by others
    MaxAcquires,   \* bound: runs of `acquire`
    None           \* no file, no version, variable not set

Roles == {"session", "doctor", "setup"}
Builds == Releases \cup Locals
Versions == {Described[b] : b \in Builds} \cup {Printed[b] : b \in Builds} \cup {None}
Parts == {"gate", "engine", "sums"}

\* A manifest is named by the release whose digests it lists.
Files == [gate: Builds \cup {None}, engine: Builds \cup {None}, sums: Releases \cup {None}]

\* The variables discovery reads: the place each one points at.
Environment == [gate: Places \cup {None}, root: Places \cup {None}, dev: Places \cup {None},
                engine: Places \cup {None}, path: Places \cup {None},
                installed: Places \cup {None}, override: BOOLEAN]

HostStates == {"absent", "made", "provisioned"}

Situation == [role: [Processes -> Roles], env: Environment, disk: [Places -> Files], host: HostStates]

ASSUME ConstantsAssumption ==
    /\ Bundle \in Places /\ None \notin Places
    /\ Locked \in Releases /\ None \notin Builds /\ Releases \cap Locals = {}
    /\ Speaks \subseteq Builds
    /\ None \notin Supported
    /\ \A b \in Builds : Spoken[b] # None
    /\ Situations \subseteq Situation
    /\ Changing \subseteq Places
    /\ MaxChanges \in Nat /\ MaxAcquires \in Nat

\* None is none of the words that say why something is unavailable, or how a check ended.
ASSUME NoneAssumption ==
    None \notin {"unreadable", "gate_missing", "engine_missing", "manifest_mismatch",
                 "FAIL", "UNSUPPORTED", "UNAVAILABLE", "PASS"}

VARIABLES
    disk,      \* disk[d]: the files of each place
    env,       \* the environment processes start with
    proc,      \* proc[p]: what process p has found out
    touched,   \* processes whose observations a change has made old
    host,      \* the host-data root
    acq,       \* the acquisition in progress
    changes, acquires

vars == <<disk, env, proc, touched, host, acq, changes, acquires>>

-----------------------------------------------------------------------------
(* Discovery.                                                              *)

Has(d, place, part) == d[place][part] # None

\* Where the Gate is looked for, first match first; an explicit variable that
\* points at nothing ends the search, the conventional places do not.
LocateGate(d, e) ==
    CASE e.gate # None ->
            IF Has(d, e.gate, "gate") THEN <<e.gate, "explicit_config">> ELSE <<None, "unreadable">>
      [] e.gate = None /\ e.root # None ->
            IF Has(d, e.root, "gate") THEN <<e.root, "explicit_config">> ELSE <<None, "gate_missing">>
      [] e.gate = None /\ e.root = None /\ e.dev # None ->
            IF Has(d, e.dev, "gate") /\ Has(d, e.dev, "engine")
            THEN <<e.dev, "dev_source_checkout">> ELSE <<None, "gate_missing">>
      [] OTHER ->
            IF e.path # None /\ Has(d, e.path, "gate") THEN <<e.path, "path">>
            ELSE IF e.installed # None /\ Has(d, e.installed, "gate")
                 THEN <<e.installed, "install_root">> ELSE <<None, "gate_missing">>

\* The engine: named explicitly, of the checkout, or the Gate's sibling.
LocateEngine(d, e, found) ==
    IF e.engine # None
    THEN IF Has(d, e.engine, "engine") THEN <<e.engine, "explicit_config">> ELSE <<None, "unreadable">>
    ELSE IF Has(d, found[1], "engine") THEN <<found[1], "sibling">> ELSE <<None, "engine_missing">>

Fresh(role) ==
    [pc |-> "idle", role |-> role, error |-> None, gate |-> None, engine |-> None, source |-> None,
     sums |-> None, sawGate |-> None, sawEngine |-> None, hashed |-> TRUE,
     provenance |-> "unknown", verification |-> "unknown", dev |-> FALSE,
     version |-> None, development |-> FALSE, runs |-> <<None, None>>,
     protocol |-> "UNAVAILABLE", ready |-> "UNAVAILABLE", overall |-> None]

Is(p, role) == proc[p].role = role
At(p, place) == proc[p].pc = place

\* Process p goes on with the record r; the world is as it was.
Becomes(p, r) ==
    /\ proc' = [proc EXCEPT ![p] = r]
    /\ UNCHANGED <<disk, env, touched, host, acq, changes, acquires>>

Goes(p, place) == Becomes(p, [proc[p] EXCEPT !.pc = place])

\* A TethersUnavailable ends a session and a setup; doctor reports it.
Locate(p) ==
    LET gate == LocateGate(disk, env)
        engine == IF gate[1] = None THEN gate ELSE LocateEngine(disk, env, gate)
        start == [Fresh(proc[p].role) EXCEPT !.dev = env.override]
    IN  /\ At(p, "idle")
        /\ IF engine[1] = None
           THEN Becomes(p, [start EXCEPT !.error = engine[2],
                                         !.pc = IF Is(p, "doctor") THEN "reporting" ELSE "failed"])
           ELSE Becomes(p, [start EXCEPT !.gate = gate[1], !.engine = engine[1], !.source = gate[2],
                                         !.pc = IF Is(p, "doctor") THEN "hashing" ELSE "reading"])

\* Doctor hashes both binaries before anything else; a failure is a finding.
HashForReport(p) ==
    /\ At(p, "hashing")
    /\ Becomes(p, [proc[p] EXCEPT !.pc = "reading",
                   !.hashed = Has(disk, proc[p].gate, "gate") /\ Has(disk, proc[p].engine, "engine")])

-----------------------------------------------------------------------------
(* The release manifest against both binaries.                             *)

Verified(r, provenance, verification, dev) ==
    [r EXCEPT !.provenance = provenance, !.verification = verification, !.dev = dev,
              !.pc = "describing"]

\* Without a manifest there is nothing to compare: reported, never accepted.
ReadManifest(p) ==
    /\ At(p, "reading")
    /\ LET sums == disk[proc[p].gate].sums
       IN  IF sums # None
           THEN Becomes(p, [proc[p] EXCEPT !.sums = sums, !.pc = "hashGate"])
           ELSE Becomes(p, IF env.override
                           THEN Verified(proc[p], "dev_override", "dev_override", TRUE)
                           ELSE Verified(proc[p], "absent", "unverified", FALSE))

HashGate(p) ==
    /\ At(p, "hashGate")
    /\ IF Has(disk, proc[p].gate, "gate")
       THEN Becomes(p, [proc[p] EXCEPT !.sawGate = disk[proc[p].gate].gate, !.pc = "hashEngine"])
       ELSE Goes(p, "crashed")

\* An engine in another place than the manifest is not listed by it.
EngineListed(r) == r.engine = r.gate

\* faulty: the engine's digest is never compared.
GateMatches(r, engine) == r.sawGate = r.sums

BothMatch(r, engine) == r.sawGate = r.sums /\ EngineListed(r) /\ engine = r.sums

Mismatch(p, r) ==
    IF env.override THEN Becomes(p, Verified(r, "dev_override", "dev_override", TRUE))
    ELSE IF Is(p, "doctor") THEN Becomes(p, Verified(r, "mismatch", "unverified", r.dev))
    ELSE Becomes(p, [r EXCEPT !.error = "manifest_mismatch", !.pc = "failed"])

HashEngine(p) ==
    LET engine == disk[proc[p].engine].engine
        r == [proc[p] EXCEPT !.sawEngine = engine]
    IN  /\ At(p, "hashEngine")
        /\ IF EngineListed(r) /\ engine = None THEN Goes(p, "crashed")
           ELSE IF BothMatch(r, engine)
                THEN Becomes(p, Verified(r, "release_manifest", "verified", FALSE))
                ELSE Mismatch(p, r)

-----------------------------------------------------------------------------
(* The product version.                                                    *)

Asked(surface, place) == IF Has(disk, place, "gate") THEN surface[disk[place].gate] ELSE None

\* `describe --json` may be unavailable, time out or be malformed.  Sessions and
\* setups then ask `--version`; doctor does not.
Describe(p) ==
    /\ At(p, "describing")
    /\ \E version \in {Asked(Described, proc[p].gate), None} :
          Becomes(p, [proc[p] EXCEPT !.version = version,
                      !.pc = IF version = None /\ ~Is(p, "doctor") THEN "printing" ELSE "judging"])

PrintVersion(p) ==
    /\ At(p, "printing")
    /\ \E version \in {Asked(Printed, proc[p].gate), None} :
          Becomes(p, [proc[p] EXCEPT !.version = version, !.pc = "judging"])

-----------------------------------------------------------------------------
(* The one predicate, and what each caller makes of it.                    *)

\* faulty: the version alone decides.
ValidateVersion(r) == r.version \in Supported

ValidateInstallation(r) ==
    /\ r.verification = "verified"
    /\ r.version \in Supported
    /\ r.provenance \in {"release_manifest", "dev_override"}
    /\ r.source # "dev_source_checkout"
    /\ r.dev => r.verification = "dev_override"

\* discover_tethers hashes both files again for the record it returns.
Recorded(p) == Has(disk, proc[p].gate, "gate") /\ Has(disk, proc[p].engine, "engine")

\* GateSession(): refused before any process exists, unless the caller opted in
\* to development authority.
JudgeSession(p) ==
    /\ At(p, "judging") /\ Is(p, "session")
    /\ IF ~Recorded(p) THEN Goes(p, "crashed")
       ELSE IF ValidateInstallation(proc[p]) THEN Goes(p, "starting")
       ELSE \/ Goes(p, "refused")
            \/ Becomes(p, [proc[p] EXCEPT !.development = TRUE, !.pc = "starting"])

\* faulty: doctor decides by the version alone.
JudgeByVersion(p) ==
    /\ At(p, "judging") /\ Is(p, "doctor")
    /\ \E next \in {"starting", "reporting"} :
          Becomes(p, IF ValidateVersion(proc[p]) THEN [proc[p] EXCEPT !.ready = "PASS", !.pc = next]
                     ELSE [proc[p] EXCEPT !.ready = "FAIL", !.pc = "reporting"])

\* Doctor: the same predicate on what it gathered itself; the probe runs only
\* for an installation that passed, and may be switched off.
JudgeInstallation(p) ==
    /\ At(p, "judging") /\ Is(p, "doctor")
    /\ IF ~proc[p].hashed THEN Goes(p, "reporting")
       ELSE IF ValidateInstallation(proc[p])
       THEN \E next \in {"starting", "reporting"} :
              Becomes(p, [proc[p] EXCEPT !.ready = "PASS", !.pc = next])
       ELSE Becomes(p, [proc[p] EXCEPT !.ready = "FAIL", !.pc = "reporting"])

\* Setup takes whatever was discovered.
JudgeSetup(p) ==
    /\ At(p, "judging") /\ Is(p, "setup")
    /\ Goes(p, IF Recorded(p) THEN "making" ELSE "crashed")

\* GateSession.start() runs what the Gate's path holds by now, and hands it the
\* engine's.  The program may be gone or not to be run; doctor may fail to make the
\* throwaway workspace of its probe.
Start(p) ==
    LET gate == disk[proc[p].gate].gate
        engine == disk[proc[p].engine].engine
        failed == [proc[p] EXCEPT !.protocol = "FAIL",
                                  !.pc = IF Is(p, "doctor") THEN "reporting" ELSE "failed"]
    IN  /\ At(p, "starting")
        /\ \/ Becomes(p, failed)
           \/ Is(p, "doctor") /\ Goes(p, "crashed")
           \/ /\ gate # None
              /\ Becomes(p, [proc[p] EXCEPT !.runs = <<gate, engine>>, !.pc = "greeting"])

\* faulty: the version is not compared.
HelloTrusting(r) == IF r.runs[1] \notin Speaks THEN "UNSUPPORTED" ELSE "PASS"

\* hello: the protocol, and the version discovery found, if it found one.
HelloVerdict(r) ==
    IF r.runs[1] \notin Speaks THEN "UNSUPPORTED"
    ELSE IF r.version # None /\ r.version # Spoken[r.runs[1]] THEN "FAIL" ELSE "PASS"

\* Whatever runs may also answer too late, not at all, or with no usable answer: it
\* refuses the configuration or the host data it was given, lacks its engine, or dies.
\* A broken pipe and an error answer are no TethersUnavailable: they end doctor too.
Hello(p) ==
    /\ At(p, "greeting")
    /\ \/ \E verdict \in {HelloVerdict(proc[p]), "FAIL"} :
             Becomes(p, [proc[p] EXCEPT !.protocol = verdict,
                          !.pc = IF Is(p, "doctor") THEN "reporting"
                                 ELSE IF verdict = "PASS" THEN "ready" ELSE "failed"])
       \/ Goes(p, "crashed")

-----------------------------------------------------------------------------
(* Doctor's report and setup's provisioning.                               *)

\* The checks that can be anything but PASS when an installation was located.
Checks(r, writable) ==
    <<IF r.error \in {None, "engine_missing"} THEN "PASS" ELSE "FAIL",
      IF r.error = None THEN "PASS" ELSE IF r.error = "engine_missing" THEN "FAIL" ELSE "UNAVAILABLE",
      IF r.version # None THEN "PASS" ELSE "UNAVAILABLE",
      IF r.error # None THEN "UNAVAILABLE" ELSE IF r.hashed THEN "PASS" ELSE "FAIL",
      CASE r.verification = "verified" -> "PASS"
        [] r.verification # "verified" /\ r.provenance = "mismatch" -> "FAIL"
        [] OTHER -> "UNAVAILABLE",
      r.ready, r.protocol,
      IF writable THEN "PASS" ELSE "FAIL",
      IF writable /\ host # "absent" THEN "PASS" ELSE "UNAVAILABLE",
      IF writable /\ host = "provisioned" THEN "PASS" ELSE "UNAVAILABLE">>

StatusPrecedence == <<"FAIL", "UNSUPPORTED", "UNAVAILABLE", "PASS">>

\* faulty: what could not be checked is not held against the installation.
OverallChecked(checks) ==
    IF \E i \in DOMAIN checks : checks[i] \in {"FAIL", "UNSUPPORTED"} THEN "FAIL" ELSE "PASS"

Overall(checks) ==
    LET present == {checks[i] : i \in DOMAIN checks}
        worst == {i \in DOMAIN StatusPrecedence : StatusPrecedence[i] \in present}
    IN  StatusPrecedence[CHOOSE i \in worst : \A j \in worst : i <= j]

Report(p) ==
    /\ At(p, "reporting")
    /\ \E writable \in BOOLEAN :
          Becomes(p, [proc[p] EXCEPT !.overall = Overall(Checks(proc[p], writable)), !.pc = "reported"])

MakeHostRoot(p) ==
    /\ At(p, "making")
    /\ \/ /\ host' = IF host = "absent" THEN "made" ELSE host
          /\ proc' = [proc EXCEPT ![p].pc = "provisioning"]
          /\ UNCHANGED <<disk, env, touched, acq, changes, acquires>>
       \/ Goes(p, "failed")

\* `tethers provision-replay`, by whatever binary is there now; it may have done its
\* work although it fails or runs into the timeout.
Provision(p) ==
    /\ At(p, "provisioning")
    /\ \/ /\ Has(disk, proc[p].gate, "gate")
          /\ host' = "provisioned"
          /\ \E end \in {"provisioned", "failed"} : proc' = [proc EXCEPT ![p].pc = end]
          /\ UNCHANGED <<disk, env, touched, acq, changes, acquires>>
       \/ Goes(p, "failed")

-----------------------------------------------------------------------------
(* tethers_release.py acquire.                                             *)

\* Every observation made so far may now be old.
Touch == touched' = touched \cup {p \in Processes : ~At(p, "idle")}

Rewrites(part, content) == disk' = [disk EXCEPT ![Bundle][part] = content]

Idle == [pc |-> "idle", archive |-> "other", manifest |-> "other", left |-> {}]

AcquireGoes(place) ==
    /\ acq' = IF place = "failed" THEN Idle ELSE [acq EXCEPT !.pc = place]
    /\ UNCHANGED <<disk, env, proc, touched, host, changes, acquires>>

\* Development variables stop it before anything is fetched.
BeginAcquire ==
    /\ acq = Idle
    /\ acquires < MaxAcquires
    /\ acquires' = acquires + 1
    /\ \E archive \in {"locked", "other"}, manifest \in {"locked", "other"} :
          acq' = IF env.override \/ env.dev # None THEN Idle
                 ELSE [pc |-> "checkArchive", archive |-> archive, manifest |-> manifest,
                       left |-> Parts]
    /\ UNCHANGED <<disk, env, proc, touched, host, changes>>

\* faulty: the old bundle goes before the archive was compared.
RemoveUnchecked ==
    /\ acq.pc = "checkArchive"
    /\ AcquireGoes("removing")

\* Download failures and wrong digests end it the same way.
CheckArchive ==
    /\ acq.pc = "checkArchive"
    /\ AcquireGoes(IF acq.archive = "locked" THEN "checkManifest" ELSE "failed")

CheckManifest ==
    /\ acq.pc = "checkManifest"
    /\ AcquireGoes(IF acq.manifest = "locked" THEN "removing" ELSE "failed")

\* shutil.rmtree of the old bundle, file by file; then the archive is unpacked.
RemoveOld ==
    /\ acq.pc = "removing"
    /\ \/ \E part \in Parts : Has(disk, Bundle, part) /\ Rewrites(part, None) /\ Touch
             /\ UNCHANGED <<env, proc, host, acq, changes, acquires>>
       \/ /\ \A part \in Parts : ~Has(disk, Bundle, part)
          /\ AcquireGoes("extracting")

Extract ==
    /\ acq.pc = "extracting"
    /\ \/ \E part \in acq.left :
             /\ Rewrites(part, Locked)
             /\ acq' = [acq EXCEPT !.left = @ \ {part}]
             /\ Touch
             /\ UNCHANGED <<env, proc, host, changes, acquires>>
       \/ acq.left = {} /\ AcquireGoes("verifying")

\* Every file SHA256SUMS lists must be there with its digest.
BundleVerifies(files) == files.sums # None /\ files.gate = files.sums /\ files.engine = files.sums

VerifyBundle ==
    /\ acq.pc \in {"verifying", "verifyingAgain"}
    /\ AcquireGoes(IF ~BundleVerifies(disk[Bundle]) THEN "failed"
                   ELSE IF acq.pc = "verifying" THEN "verifyingAgain" ELSE "announcing")

\* TETHERS_ROOT, for the processes that start from now on.
Announce ==
    /\ acq.pc = "announcing"
    /\ acq' = Idle
    /\ env' = [env EXCEPT !.root = Bundle]
    /\ Touch
    /\ UNCHANGED <<disk, proc, host, changes, acquires>>

\* A full disk, an unreadable archive, a death: what is on disk stays there.
AcquireBreaks ==
    /\ acq.pc \in {"removing", "extracting", "verifying", "verifyingAgain", "announcing"}
    /\ AcquireGoes("failed")

\* External: an installer or a person replaces one file.
SomebodyChanges ==
    /\ changes < MaxChanges
    /\ changes' = changes + 1
    /\ \E d \in Changing, part \in Parts :
          \E content \in (IF part = "sums" THEN Releases ELSE Builds) \cup {None} :
             /\ content # disk[d][part]
             /\ disk' = [disk EXCEPT ![d][part] = content]
    /\ Touch
    /\ UNCHANGED <<env, proc, host, acq, acquires>>

-----------------------------------------------------------------------------
Init ==
    /\ \E s \in Situations :
          /\ disk = s.disk /\ env = s.env /\ host = s.host
          /\ proc = [p \in Processes |-> Fresh(s.role[p])]
    /\ touched = {}
    /\ acq = Idle
    /\ changes = 0 /\ acquires = 0

Discovers(p) ==
    \/ Locate(p) \/ HashForReport(p) \/ ReadManifest(p) \/ HashGate(p) \/ HashEngine(p)
    \/ Describe(p) \/ PrintVersion(p)

Uses(p) ==
    \/ JudgeSession(p) \/ JudgeInstallation(p) \/ JudgeSetup(p) \/ Start(p) \/ Hello(p)
    \/ Report(p) \/ MakeHostRoot(p) \/ Provision(p)

Acquires ==
    \/ BeginAcquire \/ CheckArchive \/ CheckManifest \/ RemoveOld \/ Extract
    \/ VerifyBundle \/ Announce \/ AcquireBreaks

Next ==
    \/ \E p \in Processes : Discovers(p) \/ Uses(p)
    \/ Acquires
    \/ SomebodyChanges

Spec == Init /\ [][Next]_vars

-----------------------------------------------------------------------------
Ends == {"ready", "refused", "failed", "crashed", "reported", "provisioned"}
ProcPCs == Ends \cup {"idle", "hashing", "reading", "hashGate", "hashEngine", "describing", "printing",
                      "judging", "starting", "greeting", "reporting", "making", "provisioning"}

\* Every variable holds a value of its kind; a verdict names a known status.
TypeOK ==
    /\ disk \in [Places -> Files]
    /\ env \in Environment
    /\ touched \subseteq Processes
    /\ host \in HostStates
    /\ \A p \in Processes :
          /\ proc[p].pc \in ProcPCs /\ proc[p].role \in Roles
          /\ proc[p].version \in Versions
          /\ proc[p].overall \in {None, "FAIL", "UNSUPPORTED", "UNAVAILABLE", "PASS"}
          /\ proc[p].gate \in Places \cup {None} /\ proc[p].engine \in Places \cup {None}
    /\ changes \in 0 .. MaxChanges /\ acquires \in 0 .. MaxAcquires

Trusted(p) == proc[p].pc \in {"starting", "greeting", "ready"} /\ ~proc[p].development

\* An installation a production session goes on with was, when it was hashed, one
\* published pair: Gate and engine of one and the same release, by its manifest,
\* in one place that is no checkout -- whatever was replaced between the three
\* reads, whatever the environment overrides (tethers_install.py:665-724).
TrustedIsOneRelease ==
    \A p \in Processes : Trusted(p) =>
        /\ proc[p].source # "dev_source_checkout"
        /\ proc[p].sawGate \in Releases
        /\ proc[p].sawEngine = proc[p].sawGate

\* A production session past hello talks to a Gate whose own version is supported,
\* although the binary may have been replaced after its version was asked for
\* (tethers_client.py:382-389 closes what the check at 92 leaves open).
AuthoritySpeaksSupported ==
    \A p \in Processes : At(p, "ready") /\ ~proc[p].development => Spoken[proc[p].runs[1]] \in Supported

\* A production session past hello runs what was verified, unless the installation
\* changed under it.
AuthorityIsVerified ==
    \A p \in Processes : At(p, "ready") /\ ~proc[p].development /\ p \notin touched =>
        proc[p].runs = <<proc[p].sums, proc[p].sums>>

\* Doctor and a session that looked at the same installation come to the same answer,
\* along two paths through the code (doctor.py:253-412, discover_tethers and
\* GateSession): what doctor calls ready is neither missing nor mismatched for a
\* session; and unless the two were given different versions, the session does not
\* refuse what doctor calls ready, nor trust what doctor calls not ready.
DoctorAgrees ==
    \A d, s \in Processes \ touched :
        Is(d, "doctor") /\ At(d, "reported") /\ Is(s, "session") =>
            /\ proc[d].ready = "PASS" => proc[s].error = None
            /\ proc[d].version = proc[s].version =>
                  /\ proc[d].ready = "PASS" => ~At(s, "refused")
                  /\ proc[d].ready = "FAIL" => ~Trusted(s)

\* What doctor passes altogether was, when it looked, one published pair, has spoken
\* the protocol as a supported version, and has provisioned host data: no check that
\* was skipped or could not be made is counted as passed (doctor.py:123-129, 392-521).
PassIsEarned ==
    \A d \in Processes : proc[d].overall = "PASS" =>
        /\ proc[d].sawGate \in Releases
        /\ proc[d].sawEngine = proc[d].sawGate
        /\ proc[d].runs[1] \in Builds /\ Spoken[proc[d].runs[1]] \in Supported
        /\ host = "provisioned"

\* "a diagnostic "not ready" guarantees that a default authority session refuses to
\* start" (doctor.py:321-323; tests/test_product_trust.py:3-7; tethers_install.py:215-217).
\* Not so: doctor asks only `describe --json` for the version, a session that gets no
\* answer to that goes on to ask `--version`.
NotReadyIsRefused ==
    \A d, s \in Processes \ touched :
        Is(d, "doctor") /\ At(d, "reported") /\ Is(s, "session") /\ proc[d].ready = "FAIL" => ~Trusted(s)

\* An acquisition that does not hold the locked archive and manifest leaves the
\* bundle that is there alone (tethers_release.py:551-566).
BundleOutlivesRefusals ==
    [][disk'[Bundle] # disk[Bundle] /\ changes' = changes
          => acq.archive = "locked" /\ acq.manifest = "locked"]_vars
=============================================================================
