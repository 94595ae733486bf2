------------------------- MODULE InstallTrust_proofs -------------------------
(***************************************************************************)
(* Which installation of Tethers becomes an authority, for any number of   *)
(* processes, places, builds and releases, any environment a process may   *)
(* start with, and however often somebody changes the installation or      *)
(* acquires another bundle below the processes that look at it.            *)
(*                                                                         *)
(* The argument: what a process has concluded follows from what it has     *)
(* read, at every place of its program; and what a process that nobody has *)
(* disturbed has read is what is there now, so two of them read the same.  *)
(***************************************************************************)
EXTENDS InstallTrust, TLAPS

-----------------------------------------------------------------------------
(***************************************************************************)
(* The inductive invariant: types.                                         *)
(***************************************************************************)
Errors == {None, "unreadable", "gate_missing", "engine_missing", "manifest_mismatch"}
Statuses == {"FAIL", "UNSUPPORTED", "UNAVAILABLE", "PASS"}

Records ==
    [pc: ProcPCs, role: Roles, error: Errors,
     gate: Places \cup {None}, engine: Places \cup {None},
     source: {None, "unreadable", "gate_missing", "explicit_config", "dev_source_checkout",
              "path", "install_root"},
     sums: Releases \cup {None}, sawGate: Builds \cup {None}, sawEngine: Builds \cup {None},
     hashed: BOOLEAN,
     provenance: {"unknown", "dev_override", "absent", "mismatch", "release_manifest"},
     verification: {"unknown", "dev_override", "unverified", "verified"},
     dev: BOOLEAN, version: Versions, development: BOOLEAN,
     runs: (Builds \cup {None}) \X (Builds \cup {None}),
     protocol: Statuses, ready: Statuses \ {"UNSUPPORTED"}, overall: Statuses \cup {None}]

WorldTypes ==
    /\ disk \in [Places -> Files]
    /\ env \in Environment
    /\ touched \subseteq Processes
    /\ host \in HostStates
    /\ changes \in 0 .. MaxChanges
    /\ acquires \in 0 .. MaxAcquires

ProcTypes == proc \in [Processes -> Records]

-----------------------------------------------------------------------------
(***************************************************************************)
(* What a process has concluded follows from what it has read.  All of     *)
(* these are about the record r of one process.                            *)
(***************************************************************************)

\* Only doctor hashes first and reports, only a setup provisions, only a session is ready.
PlaceInv(r) ==
    /\ r.pc \in {"hashing", "reporting", "reported"} => r.role = "doctor"
    /\ r.pc \in {"making", "provisioning", "provisioned"} => r.role = "setup"
    /\ r.pc = "printing" => r.role # "doctor"
    /\ r.pc \in {"refused", "ready"} => r.role = "session"
    /\ r.pc \in {"starting", "greeting"} => r.role \in {"session", "doctor"}

\* No conclusion before its place in the program.
OrderInv(r) ==
    /\ r.pc \in {"idle", "hashing", "reading"} => r.sums = None
    /\ r.pc \in {"hashGate", "hashEngine"} => r.sums \in Releases
    /\ r.pc \in {"idle", "hashing", "reading", "hashGate", "hashEngine"} => r.verification = "unknown"
    /\ r.pc \in {"describing", "printing", "judging", "starting", "greeting", "ready", "refused"} =>
         r.verification # "unknown"
    /\ r.pc \in {"idle", "hashing", "reading", "hashGate", "hashEngine", "describing", "printing"} =>
         r.version = None
    /\ r.ready # "UNAVAILABLE" => r.role = "doctor"
    /\ r.ready # "UNAVAILABLE" => r.pc \in {"starting", "greeting", "crashed", "reporting", "reported"}
    /\ r.runs # <<None, None>> =>
         r.pc \in {"greeting", "ready", "failed", "crashed", "reporting", "reported"}
    /\ r.protocol # "UNAVAILABLE" => r.pc \in {"ready", "failed", "reporting", "reported"}
    /\ r.overall # None => r.pc = "reported"

\* Both paths are known, or neither is and the process goes no further.
FoundInv(r) ==
    /\ r.pc \notin {"idle", "reporting", "reported", "failed"} => r.gate \in Places
    /\ r.gate = None <=> r.engine = None

\* What is verified was read, and is of one release.
ReadInv(r) ==
    r.verification = "verified" =>
        /\ r.gate \in Places
        /\ r.sums \in Releases
        /\ r.sawGate = r.sums
        /\ r.sawEngine = r.sums
        /\ r.engine = r.gate

\* The predicate stands behind whatever is started, or somebody opted out of it.
JudgedInv(r) ==
    /\ r.ready = "PASS" => ValidateInstallation(r)
    /\ r.role = "doctor" /\ r.pc \in {"starting", "greeting"} => r.ready = "PASS"
    /\ r.role = "session" /\ r.pc \in {"starting", "greeting", "ready"} /\ ~r.development =>
         ValidateInstallation(r)

\* hello has compared the version with that of the binary that runs, and doctor
\* passes nothing without it.
SpokenInv(r) ==
    /\ r.pc \in {"greeting", "ready"} \/ r.protocol = "PASS" => r.runs \in Builds \X (Builds \cup {None})
    /\ r.protocol = "PASS" => HelloVerdict(r) = "PASS"
    /\ r.pc = "ready" => r.protocol = "PASS"
    /\ r.overall = "PASS" => r.ready = "PASS" /\ r.protocol = "PASS"

LocalInv(r) ==
    PlaceInv(r) /\ OrderInv(r) /\ FoundInv(r) /\ ReadInv(r) /\ JudgedInv(r) /\ SpokenInv(r)

ConclusionInv == \A p \in Processes : LocalInv(proc[p])

-----------------------------------------------------------------------------
(***************************************************************************)
(* What a process that nobody disturbed has read is there now.             *)
(***************************************************************************)

\* What Locate would find.
EngineFound(d, e) ==
    IF LocateGate(d, e)[1] = None THEN LocateGate(d, e) ELSE LocateEngine(d, e, LocateGate(d, e))

\* The paths are those discovery finds; a session that failed without them found none.
PathsInv(r, d, e) ==
    /\ r.gate # None => /\ r.gate = LocateGate(d, e)[1]
                        /\ r.source = LocateGate(d, e)[2]
                        /\ r.engine = EngineFound(d, e)[1]
    /\ r.gate = None => EngineFound(d, e)[1] = None

\* The verdict on the manifest, of what is there.
Agrees(r, d) ==
    /\ d[r.gate].sums # None
    /\ r.engine = r.gate
    /\ d[r.gate].gate = d[r.gate].sums
    /\ d[r.gate].engine = d[r.gate].sums

DigestsInv(r, d, e) ==
    /\ r.sums # None => r.sums = d[r.gate].sums
    /\ r.pc = "hashEngine" => r.sawGate = d[r.gate].gate
    /\ r.verification # "unknown" =>
         /\ r.verification = "verified" <=> Agrees(r, d)
         /\ r.verification = "verified" => r.provenance = "release_manifest" /\ ~r.dev
         /\ r.verification = "verified" => r.sums # None
    /\ r.error = "manifest_mismatch" => r.gate # None /\ ~Agrees(r, d)

\* A version is one that the binary gives; what runs is what is there.
BinariesInv(r, d) ==
    /\ r.version # None =>
         /\ r.gate # None /\ d[r.gate].gate # None
         /\ \/ r.version = Described[d[r.gate].gate]
            \/ r.version = Printed[d[r.gate].gate] /\ r.role # "doctor"
    /\ r.runs # <<None, None>> => r.runs = <<d[r.gate].gate, d[r.engine].engine>>

\* What each caller refuses.
EndsInv(r) ==
    /\ r.pc = "refused" => ~ValidateInstallation(r) /\ r.verification # "unknown"
    /\ r.ready = "FAIL" => ~ValidateInstallation(r) /\ r.verification # "unknown"

\* The error of a session: it found no installation, or a mismatch.
ErrorInv(r) ==
    r.role = "session" /\ r.error # None => r.pc = "failed" /\ (r.gate = None \/ r.error = "manifest_mismatch")

SightInv(r, d, e) ==
    PathsInv(r, d, e) /\ DigestsInv(r, d, e) /\ BinariesInv(r, d) /\ EndsInv(r) /\ ErrorInv(r)

SameSightInv ==
    \A p \in Processes \ touched : proc[p].pc # "idle" => SightInv(proc[p], disk, env)

\* An acquisition that has come to the bundle holds the locked archive and manifest.
AcquireInv ==
    /\ acq \in [pc: {"idle", "checkArchive", "checkManifest", "removing", "extracting", "verifying",
                     "verifyingAgain", "announcing"},
               archive: {"locked", "other"}, manifest: {"locked", "other"}, left: SUBSET Parts]
    /\ acq.pc \in {"checkManifest", "removing", "extracting"} => acq.archive = "locked"
    /\ acq.pc \in {"removing", "extracting"} => acq.manifest = "locked"

\* A process that has not begun has no error.
IdleInv == \A p \in Processes : proc[p].pc = "idle" => proc[p].error = None

\* Host data stays provisioned once doctor has seen it so.
HostInv == \A p \in Processes : proc[p].overall = "PASS" => host = "provisioned"

IInv == WorldTypes /\ ProcTypes /\ ConclusionInv /\ IdleInv /\ AcquireInv /\ SameSightInv /\ HostInv

-----------------------------------------------------------------------------
(***************************************************************************)
(* One process at a time.                                                  *)
(***************************************************************************)
Fields == {"pc", "role", "error", "gate", "engine", "source", "sums", "sawGate", "sawEngine", "hashed",
           "provenance", "verification", "dev", "version", "development", "runs", "protocol",
           "ready", "overall"}

\* q is r with other values in the fields called changed.
Updates(q, r, changed) == q \in Records /\ \A f \in Fields \ changed : q[f] = r[f]

(***************************************************************************)
(* The ways in which a process goes on: each changes some fields of its    *)
(* record and leaves the others alone.                                     *)
(***************************************************************************)
Moved(r, pc) == [r EXCEPT !.pc = pc]
Failing(r, error, pc) == [r EXCEPT !.error = error, !.pc = pc]
Finding(r, gate, engine, source, pc) ==
    [r EXCEPT !.gate = gate, !.engine = engine, !.source = source, !.pc = pc]
Hashing(r, hashed, pc) == [r EXCEPT !.hashed = hashed, !.pc = pc]
WithSums(r, sums, pc) == [r EXCEPT !.sums = sums, !.pc = pc]
WithGate(r, sawGate, pc) == [r EXCEPT !.sawGate = sawGate, !.pc = pc]
WithEngine(r, sawEngine) == [r EXCEPT !.sawEngine = sawEngine]
WithVerdict(r, provenance, verification, dev, pc) ==
    [r EXCEPT !.provenance = provenance, !.verification = verification, !.dev = dev, !.pc = pc]
WithVersion(r, version, pc) == [r EXCEPT !.version = version, !.pc = pc]
OptedOut(r, pc) == [r EXCEPT !.development = TRUE, !.pc = pc]
Judged(r, ready, pc) == [r EXCEPT !.ready = ready, !.pc = pc]
Running(r, runs, pc) == [r EXCEPT !.runs = runs, !.pc = pc]
Greeted(r, protocol, pc) == [r EXCEPT !.protocol = protocol, !.pc = pc]
Reporting(r, overall, pc) == [r EXCEPT !.overall = overall, !.pc = pc]

(***************************************************************************)
(* Only the place changes.                                                 *)
(***************************************************************************)
LEMMA UpdateMoves ==
    ASSUME NEW r \in Records, NEW pc \in ProcPCs,
           NEW q, q = Moved(r, pc)
    PROVE  /\ Updates(q, r, {"pc"})
           /\ q.pc = pc
<1>1. q \in Records
  BY DEF Records, Moved
<1>2. \A f \in Fields \ {"pc"} : q[f] = r[f]
  BY DEF Records, Moved, Fields
<1> QED
  BY <1>1, <1>2 DEF Records, Moved, Updates

(***************************************************************************)
(* An error and where the process goes with it.                            *)
(***************************************************************************)
LEMMA UpdateFails ==
    ASSUME NEW r \in Records, NEW error \in Errors,
           NEW pc \in ProcPCs,
           NEW q, q = Failing(r, error, pc)
    PROVE  /\ Updates(q, r, {"error", "pc"})
           /\ q.error = error /\ q.pc = pc
<1>1. q \in Records
  BY DEF Records, Failing
<1>2. \A f \in Fields \ {"error", "pc"} : q[f] = r[f]
  BY DEF Records, Failing, Fields
<1> QED
  BY <1>1, <1>2 DEF Records, Failing, Updates

(***************************************************************************)
(* Both paths are found.                                                   *)
(***************************************************************************)
LEMMA UpdateFinds ==
    ASSUME NEW r \in Records, NEW gate \in Places \cup {None},
           NEW engine \in Places \cup {None},
           NEW source \in {"explicit_config", "dev_source_checkout", "path", "install_root"},
           NEW pc \in ProcPCs,
           NEW q, q = Finding(r, gate, engine, source, pc)
    PROVE  /\ Updates(q, r, {"gate", "engine", "source", "pc"})
           /\ q.gate = gate /\ q.engine = engine /\ q.source = source /\ q.pc = pc
<1>1. q \in Records
  BY ZenonT(40) DEF Records, Finding
<1>2. \A f \in Fields \ {"gate", "engine", "source", "pc"} : q[f] = r[f]
  BY DEF Records, Finding, Fields
<1> QED
  BY <1>1, <1>2 DEF Records, Finding, Updates

(***************************************************************************)
(* Doctor has hashed both binaries, or could not.                          *)
(***************************************************************************)
LEMMA UpdateHashes ==
    ASSUME NEW r \in Records, NEW hashed \in BOOLEAN,
           NEW pc \in ProcPCs,
           NEW q, q = Hashing(r, hashed, pc)
    PROVE  /\ Updates(q, r, {"hashed", "pc"})
           /\ q.hashed = hashed /\ q.pc = pc
<1>1. q \in Records
  <2>1. PICK r1 : r1 = [r EXCEPT !.hashed = hashed]
    OBVIOUS
  <2>2. r1 \in Records
    BY <2>1, Zenon DEF Records
  <2>3. q = [r1 EXCEPT !.pc = pc]
    BY <2>1 DEF Hashing
  <2> QED
    BY <2>2, <2>3 DEF Records
<1>2. \A f \in Fields \ {"hashed", "pc"} : q[f] = r[f]
  BY DEF Records, Hashing, Fields
<1> QED
  BY <1>1, <1>2, Zenon DEF Records, Hashing, Updates

(***************************************************************************)
(* The manifest is read.                                                   *)
(***************************************************************************)
LEMMA UpdateHasSums ==
    ASSUME NEW r \in Records, NEW sums \in Releases \cup {None},
           NEW pc \in ProcPCs,
           NEW q, q = WithSums(r, sums, pc)
    PROVE  /\ Updates(q, r, {"sums", "pc"})
           /\ q.sums = sums /\ q.pc = pc
<1>1. q \in Records
  BY DEF Records, WithSums
<1>2. \A f \in Fields \ {"sums", "pc"} : q[f] = r[f]
  BY DEF Records, WithSums, Fields
<1> QED
  BY <1>1, <1>2 DEF Records, WithSums, Updates

(***************************************************************************)
(* The Gate is hashed.                                                     *)
(***************************************************************************)
LEMMA UpdateSawGate ==
    ASSUME NEW r \in Records, NEW sawGate \in Builds \cup {None},
           NEW pc \in ProcPCs,
           NEW q, q = WithGate(r, sawGate, pc)
    PROVE  /\ Updates(q, r, {"sawGate", "pc"})
           /\ q.sawGate = sawGate /\ q.pc = pc
<1>1. q \in Records
  BY DEF Records, WithGate
<1>2. \A f \in Fields \ {"sawGate", "pc"} : q[f] = r[f]
  BY DEF Records, WithGate, Fields
<1> QED
  BY <1>1, <1>2 DEF Records, WithGate, Updates

(***************************************************************************)
(* The engine is hashed.                                                   *)
(***************************************************************************)
LEMMA UpdateSawEngine ==
    ASSUME NEW r \in Records, NEW sawEngine \in Builds \cup {None},
           NEW q, q = WithEngine(r, sawEngine)
    PROVE  /\ Updates(q, r, {"sawEngine"})
           /\ q.sawEngine = sawEngine
<1>1. q \in Records
  BY DEF Records, WithEngine
<1>2. \A f \in Fields \ {"sawEngine"} : q[f] = r[f]
  BY DEF Records, WithEngine, Fields
<1> QED
  BY <1>1, <1>2 DEF Records, WithEngine, Updates

(***************************************************************************)
(* The verdict on the manifest.                                            *)
(***************************************************************************)
LEMMA UpdateVerifies ==
    ASSUME NEW r \in Records, NEW provenance \in {"dev_override", "absent", "mismatch", "release_manifest"},
           NEW verification \in {"dev_override", "unverified", "verified"},
           NEW dev \in BOOLEAN,
           NEW pc \in ProcPCs,
           NEW q, q = WithVerdict(r, provenance, verification, dev, pc)
    PROVE  /\ Updates(q, r, {"provenance", "verification", "dev", "pc"})
           /\ q.provenance = provenance /\ q.verification = verification /\ q.dev = dev /\ q.pc = pc
<1>1. q \in Records
  <2>1. PICK r1 : r1 = [r EXCEPT !.provenance = provenance, !.verification = verification]
    OBVIOUS
  <2>2. PICK r2 : r2 = [r1 EXCEPT !.dev = dev]
    OBVIOUS
  <2>3. r1 \in Records
    BY <2>1, ZenonT(40) DEF Records
  <2>4. r2 \in Records
    BY <2>2, <2>3, SMTT(30) DEF Records
  <2>5. q = [r2 EXCEPT !.pc = pc]
    BY <2>1, <2>2 DEF WithVerdict
  <2> QED
    BY <2>4, <2>5 DEF Records
<1>2. \A f \in Fields \ {"provenance", "verification", "dev", "pc"} : q[f] = r[f]
  BY DEF Records, WithVerdict, Fields
<1>3. q.provenance = provenance /\ q.verification = verification /\ q.pc = pc
  BY DEF Records, WithVerdict
<1>4. q.dev = dev
  BY DEF Records, WithVerdict
<1> QED
  BY <1>1, <1>2, <1>3, <1>4, Zenon DEF Updates

(***************************************************************************)
(* The version is known, or not.                                           *)
(***************************************************************************)
LEMMA UpdateHasVersion ==
    ASSUME NEW r \in Records, NEW version \in Versions,
           NEW pc \in ProcPCs,
           NEW q, q = WithVersion(r, version, pc)
    PROVE  /\ Updates(q, r, {"version", "pc"})
           /\ q.version = version /\ q.pc = pc
<1>1. q \in Records
  BY DEF Records, WithVersion
<1>2. \A f \in Fields \ {"version", "pc"} : q[f] = r[f]
  BY DEF Records, WithVersion, Fields
<1> QED
  BY <1>1, <1>2 DEF Records, WithVersion, Updates

(***************************************************************************)
(* The caller opted in to development authority.                           *)
(***************************************************************************)
LEMMA UpdateOptsOut ==
    ASSUME NEW r \in Records, NEW pc \in ProcPCs,
           NEW q, q = OptedOut(r, pc)
    PROVE  /\ Updates(q, r, {"development", "pc"})
           /\ q.development /\ q.pc = pc
<1>1. q \in Records
  BY DEF Records, OptedOut
<1>2. \A f \in Fields \ {"development", "pc"} : q[f] = r[f]
  BY DEF Records, OptedOut, Fields
<1>3. q.development /\ q.pc = pc
  BY DEF Records, OptedOut
<1> QED
  BY <1>1, <1>2, <1>3 DEF Updates

(***************************************************************************)
(* The verdict of doctor.                                                  *)
(***************************************************************************)
LEMMA UpdateIsReady ==
    ASSUME NEW r \in Records, NEW ready \in {"PASS", "FAIL"},
           NEW pc \in ProcPCs,
           NEW q, q = Judged(r, ready, pc)
    PROVE  /\ Updates(q, r, {"ready", "pc"})
           /\ q.ready = ready /\ q.pc = pc
<1>1. q \in Records
  BY DEF Records, Judged, Statuses
<1>2. \A f \in Fields \ {"ready", "pc"} : q[f] = r[f]
  BY DEF Records, Judged, Fields
<1> QED
  BY <1>1, <1>2 DEF Records, Judged, Updates

(***************************************************************************)
(* The Gate runs.                                                          *)
(***************************************************************************)
LEMMA UpdateRuns ==
    ASSUME NEW r \in Records, NEW runs \in Builds \X (Builds \cup {None}),
           NEW pc \in ProcPCs,
           NEW q, q = Running(r, runs, pc)
    PROVE  /\ Updates(q, r, {"runs", "pc"})
           /\ q.runs = runs /\ q.pc = pc
<1>1. q \in Records
  BY ZenonT(40) DEF Records, Running
<1>2. \A f \in Fields \ {"runs", "pc"} : q[f] = r[f]
  BY DEF Records, Running, Fields
<1> QED
  BY <1>1, <1>2 DEF Records, Running, Updates

(***************************************************************************)
(* The verdict of hello.                                                   *)
(***************************************************************************)
LEMMA UpdateSpeaks ==
    ASSUME NEW r \in Records, NEW protocol \in Statuses,
           NEW pc \in ProcPCs,
           NEW q, q = Greeted(r, protocol, pc)
    PROVE  /\ Updates(q, r, {"protocol", "pc"})
           /\ q.protocol = protocol /\ q.pc = pc
<1>1. q \in Records
  BY DEF Records, Greeted
<1>2. \A f \in Fields \ {"protocol", "pc"} : q[f] = r[f]
  BY DEF Records, Greeted, Fields
<1> QED
  BY <1>1, <1>2 DEF Records, Greeted, Updates

(***************************************************************************)
(* The verdict of the whole report.                                        *)
(***************************************************************************)
LEMMA UpdateReports ==
    ASSUME NEW r \in Records, NEW overall \in Statuses,
           NEW pc \in ProcPCs,
           NEW q, q = Reporting(r, overall, pc)
    PROVE  /\ Updates(q, r, {"overall", "pc"})
           /\ q.overall = overall /\ q.pc = pc
<1>1. q \in Records
  BY DEF Records, Reporting
<1>2. \A f \in Fields \ {"overall", "pc"} : q[f] = r[f]
  BY DEF Records, Reporting, Fields
<1> QED
  BY <1>1, <1>2 DEF Records, Reporting, Updates

\* Process p goes on with a record that keeps every part of the invariant.
GoesOnSoundly(p) ==
    \E q \in Records :
        /\ proc' = [proc EXCEPT ![p] = q]
        /\ q.pc # "idle"
        /\ LocalInv(q)
        /\ p \notin touched => SightInv(q, disk, env)

(***************************************************************************)
(* What is known of a process, its record, the disk and the environment.   *)
(***************************************************************************)
LEMMA InHand ==
    ASSUME IInv, NEW p \in Processes
    PROVE  /\ proc[p] \in Records
           /\ LocalInv(proc[p])
           /\ disk \in [Places -> Files]
           /\ env \in Environment
           /\ p \notin touched /\ proc[p].pc # "idle" => SightInv(proc[p], disk, env)
BY DEF IInv, ProcTypes, ConclusionInv, SameSightInv, WorldTypes

(***************************************************************************)
(* A version that is asked for is the binary's, or none.                   *)
(***************************************************************************)
LEMMA VersionsAreAsked ==
    ASSUME IInv, NEW p \in Processes, At(p, "describing") \/ At(p, "printing"),
           NEW version \in Versions, NEW pc \in {"printing", "judging"},
           pc = "printing" => version = None /\ proc[p].role # "doctor",
           version # None =>
             /\ disk[proc[p].gate].gate # None
             /\ \/ version = Described[disk[proc[p].gate].gate]
                \/ version = Printed[disk[proc[p].gate].gate] /\ proc[p].role # "doctor",
           proc' = [proc EXCEPT ![p] = WithVersion(proc[p], version, pc)]
    PROVE  GoesOnSoundly(p)
<1>1. PICK r \in Records, d \in [Places -> Files], e \in Environment :
          r = proc[p] /\ d = disk /\ e = env
  BY InHand
<1>2. LocalInv(r) /\ r.pc \in {"describing", "printing"}
  BY <1>1, InHand DEF At
<1>3. PICK q : q = WithVersion(r, version, pc)
  OBVIOUS
<1>4. pc \in ProcPCs
  BY DEF ProcPCs
<1>5. Updates(q, r, {"version", "pc"}) /\ q.version = version /\ q.pc = pc
  BY <1>3, <1>4, UpdateHasVersion
<1>6. LocalInv(q)
  <2>1. PlaceInv(q) /\ FoundInv(q) /\ ReadInv(q)
    BY <1>1, <1>2, <1>5 DEF LocalInv, PlaceInv, FoundInv, ReadInv, Updates, Fields
  <2>2. OrderInv(q)
    BY <1>2, <1>5 DEF LocalInv, OrderInv, Updates, Fields
  <2>3. JudgedInv(q)
    BY <1>2, <1>5 DEF LocalInv, JudgedInv, OrderInv, Updates, Fields
  <2>4. SpokenInv(q)
    BY <1>2, <1>5 DEF LocalInv, SpokenInv, OrderInv, Updates, Fields
  <2> QED
    BY <2>1, <2>2, <2>3, <2>4 DEF LocalInv
<1>7. ASSUME p \notin touched PROVE SightInv(q, d, e)
  <2>1. SightInv(r, d, e)
    BY <1>1, <1>2, <1>7, InHand
  <2>2. PathsInv(q, d, e)
    BY <1>5, <2>1 DEF SightInv, PathsInv, Updates, Fields
  <2>3. DigestsInv(q, d, e)
    BY <1>2, <1>5, <2>1 DEF SightInv, DigestsInv, Agrees, Updates, Fields
  <2>4. BinariesInv(q, d)
    <3>1. q.gate = r.gate /\ q.engine = r.engine /\ q.runs = r.runs /\ q.role = r.role /\ r.gate # None
      BY <1>2, <1>5, ConstantsAssumption DEF LocalInv, FoundInv, Updates, Fields
    <3> QED
      BY <1>1, <1>5, <2>1, <3>1 DEF SightInv, BinariesInv
  <2>5. EndsInv(q)
    BY <1>2, <1>5, <2>1 DEF SightInv, EndsInv, LocalInv, OrderInv, Updates, Fields
  <2>6. ErrorInv(q)
    BY <1>2, <1>5, <2>1 DEF SightInv, ErrorInv, Updates, Fields
  <2> QED
    BY <2>2, <2>3, <2>4, <2>5, <2>6 DEF SightInv
<1> QED
  BY <1>1, <1>3, <1>5, <1>6, <1>7 DEF GoesOnSoundly, Updates

(***************************************************************************)
(* Describe and PrintVersion.                                              *)
(***************************************************************************)
LEMMA AskingIsSound ==
    ASSUME IInv, NEW p \in Processes, Describe(p) \/ PrintVersion(p)
    PROVE  GoesOnSoundly(p)
<1>1. PICK r \in Records, d \in [Places -> Files] : r = proc[p] /\ d = disk
  BY InHand
<1>2. PICK g : g = d[r.gate].gate
  OBVIOUS
<1>3. At(p, "describing") \/ At(p, "printing")
  BY DEF Describe, PrintVersion
<1>4. r.gate \in Places /\ g \in Builds \cup {None}
  BY <1>1, <1>2, <1>3, InHand DEF LocalInv, FoundInv, At, Files
<1>5. CASE Describe(p)
  <2>1. PICK version \in {Asked(Described, r.gate), None}, pc \in {"printing", "judging"} :
            /\ pc = IF version = None /\ ~Is(p, "doctor") THEN "printing" ELSE "judging"
            /\ proc' = [proc EXCEPT ![p] = WithVersion(proc[p], version, pc)]
    BY <1>1, <1>5 DEF Describe, Becomes, WithVersion
  <2>2. /\ version # None => g # None /\ version = Described[g]
        /\ pc = "printing" => version = None /\ r.role # "doctor"
    BY <1>1, <1>2, <2>1 DEF Asked, Has, Is
  <2>3. version \in Versions
    BY <1>4, <2>2 DEF Versions
  <2> QED
    BY <1>1, <1>2, <1>3, <2>1, <2>2, <2>3, VersionsAreAsked
<1>6. CASE PrintVersion(p)
  <2>1. PICK version \in {Asked(Printed, r.gate), None} :
            proc' = [proc EXCEPT ![p] = WithVersion(proc[p], version, "judging")]
    BY <1>1, <1>6 DEF PrintVersion, Becomes, WithVersion
  <2>2. version # None => g # None /\ version = Printed[g]
    BY <1>1, <1>2, <2>1 DEF Asked, Has
  <2>3. version \in Versions
    BY <1>4, <2>2 DEF Versions
  <2>4. r.role # "doctor"
    BY <1>1, <1>6, InHand DEF PrintVersion, At, LocalInv, PlaceInv
  <2> QED
    BY <1>1, <1>2, <1>3, <2>1, <2>2, <2>3, <2>4, VersionsAreAsked
<1> QED
  BY <1>5, <1>6

(***************************************************************************)
(* What discovery finds is a place, or a reason why there is none.         *)
(***************************************************************************)
LEMMA WhatIsFound ==
    ASSUME NEW d \in [Places -> Files], NEW e \in Environment
    PROVE  /\ LocateGate(d, e)[1] \in Places \cup {None}
           /\ LocateGate(d, e)[1] # None =>
                LocateGate(d, e)[2] \in {"explicit_config", "dev_source_checkout", "path", "install_root"}
           /\ EngineFound(d, e)[1] \in Places \cup {None}
           /\ EngineFound(d, e)[1] # None => LocateGate(d, e)[1] # None
           /\ EngineFound(d, e)[1] = None =>
                EngineFound(d, e)[2] \in {"unreadable", "gate_missing", "engine_missing"}
<1>1. /\ e.gate \in Places \cup {None} /\ e.root \in Places \cup {None} /\ e.dev \in Places \cup {None}
      /\ e.engine \in Places \cup {None} /\ e.path \in Places \cup {None}
      /\ e.installed \in Places \cup {None}
  BY DEF Environment
<1>2. \/ LocateGate(d, e)[1] \in Places /\ LocateGate(d, e)[2] \in {"explicit_config", "dev_source_checkout", "path", "install_root"}
      \/ LocateGate(d, e)[1] = None /\ LocateGate(d, e)[2] \in {"unreadable", "gate_missing"}
  <2>1. CASE e.gate # None
    BY <1>1, <2>1 DEF LocateGate
  <2>2. CASE e.gate = None /\ e.root # None
    BY <1>1, <2>2 DEF LocateGate
  <2>3. CASE e.gate = None /\ e.root = None /\ e.dev # None
    BY <1>1, <2>3 DEF LocateGate
  <2>4. CASE e.gate = None /\ e.root = None /\ e.dev = None
    BY <1>1, <2>4 DEF LocateGate
  <2> QED
    BY <2>1, <2>2, <2>3, <2>4
<1>3. PICK g : g = LocateGate(d, e)
  OBVIOUS
<1>4. ASSUME g[1] \in Places
      PROVE  \/ LocateEngine(d, e, g)[1] \in Places
             \/ LocateEngine(d, e, g)[1] = None /\ LocateEngine(d, e, g)[2] \in {"unreadable", "engine_missing"}
  BY <1>1, <1>4 DEF LocateEngine
<1> QED
  BY <1>2, <1>3, <1>4, ConstantsAssumption DEF EngineFound

(***************************************************************************)
(* Locate.                                                                 *)
(***************************************************************************)
LEMMA LocatingIsSound ==
    ASSUME IInv, NEW p \in Processes, Locate(p)
    PROVE  GoesOnSoundly(p)
<1>1. PICK d \in [Places -> Files], e \in Environment, role \in Roles :
          d = disk /\ e = env /\ role = proc[p].role
  BY InHand DEF Records
<1>2. PICK gate, engine : gate = LocateGate(d, e) /\ engine = EngineFound(d, e)
  OBVIOUS
<1>3. PICK start : start = [Fresh(role) EXCEPT !.dev = e.override]
  OBVIOUS
<1>4. Updates(start, Fresh(role), {"dev"})
  <2>1. PICK f0 : f0 = Fresh(role)
    OBVIOUS
  <2>2. f0 \in Records
    BY <2>1 DEF Records, Fresh, ProcPCs, Errors, Versions, Statuses
  <2>3. e.override \in BOOLEAN
    BY DEF Environment
  <2>4. start \in Records /\ \A f \in Fields \ {"dev"} : start[f] = f0[f]
    BY <1>3, <2>1, <2>2, <2>3 DEF Records, Fields
  <2> QED
    BY <2>1, <2>4 DEF Updates
<1>5. CASE engine[1] = None
  <2>1. PICK error \in Errors, pc \in {"reporting", "failed"} :
            error = engine[2] /\ pc = IF role = "doctor" THEN "reporting" ELSE "failed"
    BY <1>1, <1>2, <1>5, WhatIsFound DEF Errors
  <2>2. PICK q : q = Failing(start, error, pc) /\ proc' = [proc EXCEPT ![p] = q]
    BY <1>1, <1>2, <1>3, <1>5, <2>1 DEF Locate, Becomes, EngineFound, Is, Failing
  <2>3. Updates(q, start, {"error", "pc"}) /\ q.pc = pc /\ q.error = error
    <3>1. start \in Records /\ pc \in ProcPCs
      BY <1>4, <2>1 DEF Updates, ProcPCs, Ends
    <3> QED
      BY <2>1, <2>2, <3>1, UpdateFails
  <2>4. /\ q \in Records /\ q.role = role /\ q.gate = None
        /\ q.engine = None /\ q.sums = None /\ q.verification = "unknown" /\ q.version = None
        /\ q.runs = <<None, None>> /\ q.protocol = "UNAVAILABLE" /\ q.ready = "UNAVAILABLE"
        /\ q.overall = None
    BY <1>4, <2>3 DEF Updates, Fresh, Fields
  <2>5. LocalInv(q)
    BY <1>1, <2>1, <2>3, <2>4, NoneAssumption DEF LocalInv, PlaceInv, OrderInv, FoundInv, ReadInv,
         JudgedInv, SpokenInv, Roles
  <2>6. SightInv(q, d, e)
    <3>1. error # "manifest_mismatch"
      BY <1>1, <1>2, <1>5, <2>1, WhatIsFound
    <3>2. q.error # "manifest_mismatch" /\ q.role = "session" => q.pc = "failed"
      BY <2>1, <2>3, <2>4, <3>1
    <3> QED
      BY <1>2, <1>5, <2>1, <2>3, <2>4, <3>1, <3>2, NoneAssumption
         DEF SightInv, PathsInv, DigestsInv, BinariesInv, EndsInv, ErrorInv
  <2> QED
    BY <1>1, <2>1, <2>2, <2>3, <2>4, <2>5, <2>6 DEF GoesOnSoundly
<1>6. CASE engine[1] # None
  <2>1. PICK gp, ep, source : gp \in Places /\ ep \in Places /\ gp = gate[1] /\ ep = engine[1] /\ source = gate[2]
    BY <1>1, <1>2, <1>6, WhatIsFound
  <2>2. source \in {"explicit_config", "dev_source_checkout", "path", "install_root"}
    BY <1>1, <1>2, <2>1, WhatIsFound, ConstantsAssumption
  <2>3. PICK q, pc : /\ pc = (IF role = "doctor" THEN "hashing" ELSE "reading")
                     /\ q = Finding(start, gp, ep, source, pc)
                     /\ proc' = [proc EXCEPT ![p] = q]
    BY <1>1, <1>2, <1>3, <1>6, <2>1 DEF Locate, Becomes, EngineFound, Is, Finding
  <2>4. pc \in {"hashing", "reading"}
    BY <2>3
  <2>5. Updates(q, start, {"gate", "engine", "source", "pc"})
        /\ q.pc = pc /\ q.gate = gp /\ q.engine = ep /\ q.source = source
    <3>1. start \in Records /\ pc \in ProcPCs
      BY <1>4, <2>4 DEF Updates, ProcPCs, Ends
    <3> QED
      BY <2>1, <2>2, <2>3, <3>1, UpdateFinds
  <2>6. /\ q \in Records /\ q.role = role /\ q.error = None
        /\ q.sums = None /\ q.verification = "unknown" /\ q.version = None
        /\ q.runs = <<None, None>> /\ q.protocol = "UNAVAILABLE" /\ q.ready = "UNAVAILABLE"
        /\ q.overall = None
    BY <1>4, <2>5 DEF Updates, Fresh, Fields
  <2>7. LocalInv(q)
    <3>1. OrderInv(q)
      BY <2>3, <2>4, <2>5, <2>6 DEF OrderInv
    <3>2. PlaceInv(q) /\ FoundInv(q)
      BY <1>1, <2>1, <2>3, <2>4, <2>5, <2>6, ConstantsAssumption DEF PlaceInv, FoundInv, Roles
    <3> QED
      BY <2>4, <2>5, <2>6, <3>1, <3>2, NoneAssumption DEF LocalInv, ReadInv, JudgedInv, SpokenInv
  <2>8. SightInv(q, d, e)
    <3>1. q.gate # None
      BY <2>1, <2>5, ConstantsAssumption
    <3> QED
      BY <1>2, <2>1, <2>4, <2>5, <2>6, <3>1, NoneAssumption
         DEF SightInv, PathsInv, DigestsInv, BinariesInv, EndsInv, ErrorInv
  <2> QED
    BY <1>1, <2>3, <2>4, <2>5, <2>6, <2>7, <2>8 DEF GoesOnSoundly
<1> QED
  BY <1>5, <1>6

(***************************************************************************)
(* Going on without having learnt anything more.                           *)
(***************************************************************************)
LEMMA MovesAreSound ==
    ASSUME IInv, NEW p \in Processes,
           NEW pc \in ProcPCs,
           \/ pc = "crashed" /\ proc[p].pc \in {"hashGate", "hashEngine", "judging", "starting", "greeting"}
           \/ pc = "starting" /\ proc[p].pc = "judging" /\ Is(p, "session") /\ ValidateInstallation(proc[p])
           \/ pc = "refused" /\ proc[p].pc = "judging" /\ Is(p, "session") /\ ~ValidateInstallation(proc[p])
           \/ pc = "reporting" /\ proc[p].pc = "judging" /\ Is(p, "doctor")
           \/ pc = "making" /\ proc[p].pc = "judging" /\ Is(p, "setup")
           \/ pc \in {"failed", "provisioning"} /\ proc[p].pc = "making"
           \/ pc \in {"failed", "provisioned"} /\ proc[p].pc = "provisioning",
           proc' = [proc EXCEPT ![p] = Moved(proc[p], pc)]
    PROVE  GoesOnSoundly(p)
<1>1. PICK r \in Records, d \in [Places -> Files], e \in Environment :
          r = proc[p] /\ d = disk /\ e = env
  BY InHand
<1>2. LocalInv(r) /\ r.pc # "idle" /\ (r.gate \in Places => r.gate # None)
  BY <1>1, InHand, ConstantsAssumption
<1>3. PICK q : q = Moved(r, pc)
  OBVIOUS
<1>4. Updates(q, r, {"pc"}) /\ q.pc = pc
  BY <1>3, UpdateMoves
<1>5. LocalInv(q)
  <2>1. PlaceInv(q) /\ FoundInv(q) /\ ReadInv(q)
    BY <1>1, <1>2, <1>4 DEF LocalInv, PlaceInv, FoundInv, ReadInv, OrderInv, Updates, Fields, Is
  <2>2. OrderInv(q)
    BY <1>1, <1>2, <1>4 DEF LocalInv, OrderInv, Updates, Fields, Is
  <2>3. JudgedInv(q)
    BY <1>1, <1>2, <1>4 DEF LocalInv, JudgedInv, OrderInv, PlaceInv, ValidateInstallation,
         Updates, Fields, Is
  <2>4. SpokenInv(q)
    BY <1>1, <1>2, <1>4 DEF LocalInv, SpokenInv, OrderInv, HelloVerdict, Updates, Fields, Is
  <2> QED
    BY <2>1, <2>2, <2>3, <2>4 DEF LocalInv
<1>6. ASSUME p \notin touched PROVE SightInv(q, d, e)
  <2>1. SightInv(r, d, e)
    BY <1>1, <1>2, <1>6, InHand
  <2>2. PathsInv(q, d, e)
    BY <1>1, <1>2, <1>4, <2>1 DEF SightInv, PathsInv, Updates, Fields, Is
  <2>3. DigestsInv(q, d, e)
    BY <1>1, <1>2, <1>4, <2>1 DEF SightInv, DigestsInv, Agrees, LocalInv, OrderInv, FoundInv,
         ReadInv, Updates, Fields, Is
  <2>4. BinariesInv(q, d)
    BY <1>1, <1>2, <1>4, <2>1 DEF SightInv, BinariesInv, LocalInv, OrderInv, FoundInv, PlaceInv,
         Updates, Fields, Is
  <2>5. EndsInv(q)
    BY <1>1, <1>2, <1>4, <2>1 DEF SightInv, EndsInv, LocalInv, OrderInv, PlaceInv, HelloVerdict,
         ValidateInstallation, Updates, Fields, Is
  <2>6. ErrorInv(q)
    BY <1>1, <1>2, <1>4, <2>1 DEF SightInv, ErrorInv, LocalInv, PlaceInv, Updates, Fields, Is
  <2> QED
    BY <2>2, <2>3, <2>4, <2>5, <2>6 DEF SightInv
<1> QED
  BY <1>1, <1>3, <1>4, <1>5, <1>6 DEF GoesOnSoundly, Updates

(***************************************************************************)
(* Doctor has hashed both binaries, or could not.                          *)
(***************************************************************************)
LEMMA HashingIsSound ==
    ASSUME IInv, NEW p \in Processes,
           NEW hashed \in BOOLEAN,
           proc[p].pc = "hashing",
           proc' = [proc EXCEPT ![p] = Hashing(proc[p], hashed, "reading")]
    PROVE  GoesOnSoundly(p)
<1>1. PICK r \in Records, d \in [Places -> Files], e \in Environment :
          r = proc[p] /\ d = disk /\ e = env
  BY InHand
<1>2. LocalInv(r) /\ r.pc # "idle" /\ (r.gate \in Places => r.gate # None)
  BY <1>1, InHand, ConstantsAssumption
<1>3. PICK q : q = Hashing(r, hashed, "reading")
  OBVIOUS
<1>4. Updates(q, r, {"hashed", "pc"}) /\ q.pc = "reading"
  BY <1>3, UpdateHashes DEF ProcPCs, Ends
<1>5. LocalInv(q)
  <2>1. PlaceInv(q) /\ FoundInv(q) /\ ReadInv(q)
    BY <1>1, <1>2, <1>4 DEF LocalInv, PlaceInv, FoundInv, ReadInv, OrderInv, Updates, Fields
  <2>2. OrderInv(q)
    BY <1>1, <1>2, <1>4 DEF LocalInv, OrderInv, Updates, Fields
  <2>3. JudgedInv(q)
    BY <1>1, <1>2, <1>4 DEF LocalInv, JudgedInv, OrderInv, PlaceInv, ValidateInstallation,
         Updates, Fields
  <2>4. SpokenInv(q)
    BY <1>1, <1>2, <1>4 DEF LocalInv, SpokenInv, OrderInv, HelloVerdict, Updates, Fields
  <2> QED
    BY <2>1, <2>2, <2>3, <2>4 DEF LocalInv
<1>6. ASSUME p \notin touched PROVE SightInv(q, d, e)
  <2>1. SightInv(r, d, e)
    BY <1>1, <1>2, <1>6, InHand
  <2>2. PathsInv(q, d, e)
    BY <1>1, <1>2, <1>4, <2>1 DEF SightInv, PathsInv, Updates, Fields
  <2>3. DigestsInv(q, d, e)
    BY <1>1, <1>2, <1>4, <2>1 DEF SightInv, DigestsInv, Agrees, LocalInv, OrderInv, FoundInv,
         ReadInv, Updates, Fields
  <2>4. BinariesInv(q, d)
    BY <1>1, <1>2, <1>4, <2>1 DEF SightInv, BinariesInv, LocalInv, OrderInv, FoundInv, PlaceInv,
         Updates, Fields
  <2>5. EndsInv(q)
    BY <1>1, <1>2, <1>4, <2>1 DEF SightInv, EndsInv, LocalInv, OrderInv, PlaceInv, HelloVerdict,
         ValidateInstallation, Updates, Fields
  <2>6. ErrorInv(q)
    BY <1>1, <1>2, <1>4, <2>1 DEF SightInv, ErrorInv, LocalInv, PlaceInv, Updates, Fields
  <2> QED
    BY <2>2, <2>3, <2>4, <2>5, <2>6 DEF SightInv
<1> QED
  BY <1>1, <1>3, <1>4, <1>5, <1>6 DEF GoesOnSoundly, Updates

(***************************************************************************)
(* A manifest was there.                                                   *)
(***************************************************************************)
LEMMA ManifestIsSound ==
    ASSUME IInv, NEW p \in Processes,
           NEW sums \in Releases,
           proc[p].pc = "reading",
           sums = disk[proc[p].gate].sums,
           proc' = [proc EXCEPT ![p] = WithSums(proc[p], sums, "hashGate")]
    PROVE  GoesOnSoundly(p)
<1>1. PICK r \in Records, d \in [Places -> Files], e \in Environment :
          r = proc[p] /\ d = disk /\ e = env
  BY InHand
<1>2. LocalInv(r) /\ r.pc # "idle" /\ (r.gate \in Places => r.gate # None)
  BY <1>1, InHand, ConstantsAssumption
<1>3. PICK q : q = WithSums(r, sums, "hashGate")
  OBVIOUS
<1>4. Updates(q, r, {"sums", "pc"}) /\ q.pc = "hashGate" /\ q.sums = sums
  BY <1>3, UpdateHasSums DEF ProcPCs, Ends
<1>5. LocalInv(q)
  <2>1. PlaceInv(q) /\ FoundInv(q) /\ ReadInv(q)
    BY <1>1, <1>2, <1>4 DEF LocalInv, PlaceInv, FoundInv, ReadInv, OrderInv, Updates, Fields
  <2>2. OrderInv(q)
    BY <1>1, <1>2, <1>4 DEF LocalInv, OrderInv, Updates, Fields
  <2>3. JudgedInv(q)
    BY <1>1, <1>2, <1>4 DEF LocalInv, JudgedInv, OrderInv, PlaceInv, ValidateInstallation,
         Updates, Fields
  <2>4. SpokenInv(q)
    BY <1>1, <1>2, <1>4 DEF LocalInv, SpokenInv, OrderInv, HelloVerdict, Updates, Fields
  <2> QED
    BY <2>1, <2>2, <2>3, <2>4 DEF LocalInv
<1>6. ASSUME p \notin touched PROVE SightInv(q, d, e)
  <2>1. SightInv(r, d, e)
    BY <1>1, <1>2, <1>6, InHand
  <2>2. PathsInv(q, d, e)
    BY <1>1, <1>2, <1>4, <2>1 DEF SightInv, PathsInv, Updates, Fields
  <2>3. DigestsInv(q, d, e)
    BY <1>1, <1>2, <1>4, <2>1 DEF SightInv, DigestsInv, Agrees, LocalInv, OrderInv, FoundInv,
         ReadInv, Updates, Fields
  <2>4. BinariesInv(q, d)
    BY <1>1, <1>2, <1>4, <2>1 DEF SightInv, BinariesInv, LocalInv, OrderInv, FoundInv, PlaceInv,
         Updates, Fields
  <2>5. EndsInv(q)
    BY <1>1, <1>2, <1>4, <2>1 DEF SightInv, EndsInv, LocalInv, OrderInv, PlaceInv, HelloVerdict,
         ValidateInstallation, Updates, Fields
  <2>6. ErrorInv(q)
    BY <1>1, <1>2, <1>4, <2>1 DEF SightInv, ErrorInv, LocalInv, PlaceInv, Updates, Fields
  <2> QED
    BY <2>2, <2>3, <2>4, <2>5, <2>6 DEF SightInv
<1> QED
  BY <1>1, <1>3, <1>4, <1>5, <1>6 DEF GoesOnSoundly, Updates

(***************************************************************************)
(* The Gate was there.                                                     *)
(***************************************************************************)
LEMMA GateDigestIsSound ==
    ASSUME IInv, NEW p \in Processes,
           NEW gate \in Builds,
           proc[p].pc = "hashGate",
           gate = disk[proc[p].gate].gate,
           proc' = [proc EXCEPT ![p] = WithGate(proc[p], gate, "hashEngine")]
    PROVE  GoesOnSoundly(p)
<1>1. PICK r \in Records, d \in [Places -> Files], e \in Environment :
          r = proc[p] /\ d = disk /\ e = env
  BY InHand
<1>2. LocalInv(r) /\ r.pc # "idle" /\ (r.gate \in Places => r.gate # None)
  BY <1>1, InHand, ConstantsAssumption
<1>3. PICK q : q = WithGate(r, gate, "hashEngine")
  OBVIOUS
<1>4. Updates(q, r, {"sawGate", "pc"}) /\ q.pc = "hashEngine" /\ q.sawGate = gate
  BY <1>3, UpdateSawGate DEF ProcPCs, Ends
<1>5. LocalInv(q)
  <2>1. PlaceInv(q) /\ FoundInv(q) /\ ReadInv(q)
    BY <1>1, <1>2, <1>4 DEF LocalInv, PlaceInv, FoundInv, ReadInv, OrderInv, Updates, Fields
  <2>2. OrderInv(q)
    BY <1>1, <1>2, <1>4 DEF LocalInv, OrderInv, Updates, Fields
  <2>3. JudgedInv(q)
    BY <1>1, <1>2, <1>4 DEF LocalInv, JudgedInv, OrderInv, PlaceInv, ValidateInstallation,
         Updates, Fields
  <2>4. SpokenInv(q)
    BY <1>1, <1>2, <1>4 DEF LocalInv, SpokenInv, OrderInv, HelloVerdict, Updates, Fields
  <2> QED
    BY <2>1, <2>2, <2>3, <2>4 DEF LocalInv
<1>6. ASSUME p \notin touched PROVE SightInv(q, d, e)
  <2>1. SightInv(r, d, e)
    BY <1>1, <1>2, <1>6, InHand
  <2>2. PathsInv(q, d, e)
    BY <1>1, <1>2, <1>4, <2>1 DEF SightInv, PathsInv, Updates, Fields
  <2>3. DigestsInv(q, d, e)
    BY <1>1, <1>2, <1>4, <2>1 DEF SightInv, DigestsInv, Agrees, LocalInv, OrderInv, FoundInv,
         ReadInv, Updates, Fields
  <2>4. BinariesInv(q, d)
    BY <1>1, <1>2, <1>4, <2>1 DEF SightInv, BinariesInv, LocalInv, OrderInv, FoundInv, PlaceInv,
         Updates, Fields
  <2>5. EndsInv(q)
    BY <1>1, <1>2, <1>4, <2>1 DEF SightInv, EndsInv, LocalInv, OrderInv, PlaceInv, HelloVerdict,
         ValidateInstallation, Updates, Fields
  <2>6. ErrorInv(q)
    BY <1>1, <1>2, <1>4, <2>1 DEF SightInv, ErrorInv, LocalInv, PlaceInv, Updates, Fields
  <2> QED
    BY <2>2, <2>3, <2>4, <2>5, <2>6 DEF SightInv
<1> QED
  BY <1>1, <1>3, <1>4, <1>5, <1>6 DEF GoesOnSoundly, Updates

(***************************************************************************)
(* No manifest was there.                                                  *)
(***************************************************************************)
LEMMA NoManifestIsSound ==
    ASSUME IInv, NEW p \in Processes,
           NEW provenance \in {"dev_override", "absent", "mismatch", "release_manifest"},
           NEW verification \in {"dev_override", "unverified", "verified"},
           NEW dev \in BOOLEAN,
           verification # "verified",
           proc[p].pc = "reading",
           disk[proc[p].gate].sums = None,
           proc' = [proc EXCEPT ![p] = WithVerdict(proc[p], provenance, verification, dev, "describing")]
    PROVE  GoesOnSoundly(p)
<1>1. PICK r \in Records, d \in [Places -> Files], e \in Environment :
          r = proc[p] /\ d = disk /\ e = env
  BY InHand
<1>2. LocalInv(r) /\ r.pc # "idle" /\ (r.gate \in Places => r.gate # None)
  BY <1>1, InHand, ConstantsAssumption
<1>3. PICK q : q = WithVerdict(r, provenance, verification, dev, "describing")
  OBVIOUS
<1>4. Updates(q, r, {"provenance", "verification", "dev", "pc"}) /\ q.pc = "describing"
      /\ q.verification = verification
  <2>1. "describing" \in ProcPCs
    BY DEF ProcPCs
  <2> QED
    BY <1>3, <2>1, UpdateVerifies
<1>5. LocalInv(q)
  <2>1. PlaceInv(q) /\ FoundInv(q) /\ ReadInv(q)
    BY <1>1, <1>2, <1>4 DEF LocalInv, PlaceInv, FoundInv, ReadInv, OrderInv, Updates, Fields
  <2>2. OrderInv(q)
    BY <1>1, <1>2, <1>4 DEF LocalInv, OrderInv, Updates, Fields
  <2>3. JudgedInv(q)
    BY <1>1, <1>2, <1>4 DEF LocalInv, JudgedInv, OrderInv, PlaceInv, ValidateInstallation,
         Updates, Fields
  <2>4. SpokenInv(q)
    BY <1>1, <1>2, <1>4 DEF LocalInv, SpokenInv, OrderInv, HelloVerdict, Updates, Fields
  <2> QED
    BY <2>1, <2>2, <2>3, <2>4 DEF LocalInv
<1>6. ASSUME p \notin touched PROVE SightInv(q, d, e)
  <2>1. SightInv(r, d, e)
    BY <1>1, <1>2, <1>6, InHand
  <2>2. PathsInv(q, d, e)
    BY <1>1, <1>2, <1>4, <2>1 DEF SightInv, PathsInv, Updates, Fields
  <2>3. DigestsInv(q, d, e)
    BY <1>1, <1>2, <1>4, <2>1 DEF SightInv, DigestsInv, Agrees, LocalInv, OrderInv, FoundInv,
         ReadInv, Updates, Fields
  <2>4. BinariesInv(q, d)
    BY <1>1, <1>2, <1>4, <2>1 DEF SightInv, BinariesInv, LocalInv, OrderInv, FoundInv, PlaceInv,
         Updates, Fields
  <2>5. EndsInv(q)
    BY <1>1, <1>2, <1>4, <2>1 DEF SightInv, EndsInv, LocalInv, OrderInv, PlaceInv, HelloVerdict,
         ValidateInstallation, Updates, Fields
  <2>6. ErrorInv(q)
    BY <1>1, <1>2, <1>4, <2>1 DEF SightInv, ErrorInv, LocalInv, PlaceInv, Updates, Fields
  <2> QED
    BY <2>2, <2>3, <2>4, <2>5, <2>6 DEF SightInv
<1> QED
  BY <1>1, <1>3, <1>4, <1>5, <1>6 DEF GoesOnSoundly, Updates

(***************************************************************************)
(* Both binaries were hashed, and match the manifest or not.               *)
(***************************************************************************)
LEMMA VerdictIsSound ==
    ASSUME IInv, NEW p \in Processes,
           NEW engine \in Builds \cup {None},
           NEW provenance \in {"dev_override", "absent", "mismatch", "release_manifest"},
           NEW verification \in {"dev_override", "unverified", "verified"},
           NEW dev \in BOOLEAN,
           proc[p].pc = "hashEngine",
           engine = disk[proc[p].engine].engine,
           verification = "verified" <=> BothMatch(proc[p], engine),
           verification = "verified" => provenance = "release_manifest" /\ ~dev,
           proc' = [proc EXCEPT ![p] = WithVerdict(WithEngine(proc[p], engine), provenance, verification, dev, "describing")]
    PROVE  GoesOnSoundly(p)
<1>1. PICK r \in Records, d \in [Places -> Files], e \in Environment :
          r = proc[p] /\ d = disk /\ e = env
  BY InHand
<1>2. LocalInv(r) /\ r.pc # "idle" /\ (r.gate \in Places => r.gate # None)
  BY <1>1, InHand, ConstantsAssumption
<1>3. PICK r1, q : r1 = WithEngine(r, engine) /\ q = WithVerdict(r1, provenance, verification, dev, "describing")
  OBVIOUS
<1>4. Updates(q, r, {"sawEngine", "provenance", "verification", "dev", "pc"}) /\ q.pc = "describing"
      /\ q.sawEngine = engine /\ q.provenance = provenance /\ q.verification = verification /\ q.dev = dev
  <2>1. "describing" \in ProcPCs
    BY DEF ProcPCs
  <2>2. Updates(r1, r, {"sawEngine"}) /\ r1.sawEngine = engine
    BY <1>3, UpdateSawEngine
  <2>3. r1 \in Records
    BY <2>2 DEF Updates
  <2>4. Updates(q, r1, {"provenance", "verification", "dev", "pc"}) /\ q.pc = "describing"
        /\ q.provenance = provenance /\ q.verification = verification /\ q.dev = dev
    BY <1>3, <2>1, <2>3, UpdateVerifies
  <2>5. q \in Records /\ \A f \in Fields \ {"sawEngine", "provenance", "verification", "dev", "pc"} : q[f] = r[f]
    BY <2>2, <2>4 DEF Updates
  <2>6. q.sawEngine = engine
    BY <2>2, <2>4 DEF Updates, Fields, BothMatch, EngineListed, Is
  <2> QED
    BY <2>4, <2>5, <2>6, Zenon DEF Updates
<1>5. LocalInv(q)
  <2>1. PlaceInv(q) /\ FoundInv(q) /\ ReadInv(q)
    BY <1>1, <1>2, <1>4 DEF LocalInv, PlaceInv, FoundInv, ReadInv, OrderInv, Updates, Fields,
         BothMatch, EngineListed, Is
  <2>2. OrderInv(q)
    BY <1>1, <1>2, <1>4 DEF LocalInv, OrderInv, Updates, Fields, BothMatch, EngineListed, Is
  <2>3. JudgedInv(q)
    BY <1>1, <1>2, <1>4 DEF LocalInv, JudgedInv, OrderInv, PlaceInv, ValidateInstallation,
         Updates, Fields, BothMatch, EngineListed, Is
  <2>4. SpokenInv(q)
    BY <1>1, <1>2, <1>4 DEF LocalInv, SpokenInv, OrderInv, HelloVerdict, Updates, Fields,
         BothMatch, EngineListed, Is
  <2> QED
    BY <2>1, <2>2, <2>3, <2>4 DEF LocalInv
<1>6. ASSUME p \notin touched PROVE SightInv(q, d, e)
  <2>1. SightInv(r, d, e)
    BY <1>1, <1>2, <1>6, InHand
  <2>2. PathsInv(q, d, e)
    BY <1>1, <1>2, <1>4, <2>1 DEF SightInv, PathsInv, Updates, Fields, BothMatch, EngineListed, Is
  <2>3. DigestsInv(q, d, e)
    <3>1. /\ q.gate = r.gate /\ q.engine = r.engine /\ q.sums = r.sums
          /\ r.sums = d[r.gate].sums /\ r.sums # None /\ r.sawGate = d[r.gate].gate /\ r.gate # None
      BY <1>1, <1>2, <1>4, <2>1, ConstantsAssumption
         DEF SightInv, DigestsInv, LocalInv, OrderInv, FoundInv, Updates, Fields, Builds
    <3>2. BothMatch(r, engine) <=> Agrees(r, d)
      BY <1>1, <3>1 DEF BothMatch, EngineListed, Agrees
    <3>3. Agrees(q, d) <=> Agrees(r, d)
      BY <3>1 DEF Agrees
    <3>4. q.error = r.error /\ (r.error = "manifest_mismatch" => ~Agrees(r, d))
      BY <1>4, <2>1 DEF SightInv, DigestsInv, Updates, Fields
    <3> QED
      BY <1>1, <1>4, <3>1, <3>2, <3>3, <3>4, Zenon DEF DigestsInv
  <2>4. BinariesInv(q, d)
    BY <1>1, <1>2, <1>4, <2>1 DEF SightInv, BinariesInv, LocalInv, OrderInv, FoundInv, PlaceInv,
         Updates, Fields, BothMatch, EngineListed, Is
  <2>5. EndsInv(q)
    BY <1>1, <1>2, <1>4, <2>1 DEF SightInv, EndsInv, LocalInv, OrderInv, PlaceInv, HelloVerdict,
         ValidateInstallation, Updates, Fields, BothMatch, EngineListed, Is
  <2>6. ErrorInv(q)
    BY <1>1, <1>2, <1>4, <2>1 DEF SightInv, ErrorInv, LocalInv, PlaceInv, Updates, Fields,
         BothMatch, EngineListed, Is
  <2> QED
    BY <2>2, <2>3, <2>4, <2>5, <2>6 DEF SightInv
<1> QED
  BY <1>1, <1>3, <1>4, <1>5, <1>6 DEF GoesOnSoundly, Updates

(***************************************************************************)
(* Both binaries were hashed, and do not match the manifest.               *)
(***************************************************************************)
LEMMA MismatchIsSound ==
    ASSUME IInv, NEW p \in Processes,
           NEW engine \in Builds \cup {None},
           proc[p].pc = "hashEngine",
           engine = disk[proc[p].engine].engine,
           ~BothMatch(proc[p], engine),
           ~Is(p, "doctor"),
           proc' = [proc EXCEPT ![p] = Failing(WithEngine(proc[p], engine), "manifest_mismatch", "failed")]
    PROVE  GoesOnSoundly(p)
<1>1. PICK r \in Records, d \in [Places -> Files], e \in Environment :
          r = proc[p] /\ d = disk /\ e = env
  BY InHand
<1>2. LocalInv(r) /\ r.pc # "idle" /\ (r.gate \in Places => r.gate # None)
  BY <1>1, InHand, ConstantsAssumption
<1>3. PICK r1, q : r1 = WithEngine(r, engine) /\ q = Failing(r1, "manifest_mismatch", "failed")
  OBVIOUS
<1>4. Updates(q, r, {"sawEngine", "error", "pc"}) /\ q.pc = "failed" /\ q.error = "manifest_mismatch"
  <2>1. "failed" \in ProcPCs /\ "manifest_mismatch" \in Errors
    BY DEF ProcPCs, Ends, Errors
  <2>2. Updates(r1, r, {"sawEngine"})
    BY <1>3, UpdateSawEngine
  <2>3. r1 \in Records
    BY <2>2 DEF Updates
  <2>4. Updates(q, r1, {"error", "pc"}) /\ q.pc = "failed" /\ q.error = "manifest_mismatch"
    BY <1>3, <2>1, <2>3, UpdateFails
  <2> QED
    BY <2>2, <2>4 DEF Updates
<1>5. LocalInv(q)
  <2>1. PlaceInv(q) /\ FoundInv(q) /\ ReadInv(q)
    BY <1>1, <1>2, <1>4 DEF LocalInv, PlaceInv, FoundInv, ReadInv, OrderInv, Updates, Fields,
         BothMatch, EngineListed, Is
  <2>2. OrderInv(q)
    BY <1>1, <1>2, <1>4 DEF LocalInv, OrderInv, Updates, Fields, BothMatch, EngineListed, Is
  <2>3. JudgedInv(q)
    BY <1>1, <1>2, <1>4 DEF LocalInv, JudgedInv, OrderInv, PlaceInv, ValidateInstallation,
         Updates, Fields, BothMatch, EngineListed, Is
  <2>4. SpokenInv(q)
    BY <1>1, <1>2, <1>4 DEF LocalInv, SpokenInv, OrderInv, HelloVerdict, Updates, Fields,
         BothMatch, EngineListed, Is
  <2> QED
    BY <2>1, <2>2, <2>3, <2>4 DEF LocalInv
<1>6. ASSUME p \notin touched PROVE SightInv(q, d, e)
  <2>1. SightInv(r, d, e)
    BY <1>1, <1>2, <1>6, InHand
  <2>2. PathsInv(q, d, e)
    BY <1>1, <1>2, <1>4, <2>1 DEF SightInv, PathsInv, Updates, Fields, BothMatch, EngineListed, Is
  <2>3. DigestsInv(q, d, e)
    <3>1. /\ q.gate = r.gate /\ q.engine = r.engine /\ q.sums = r.sums
          /\ r.sums = d[r.gate].sums /\ r.sums # None /\ r.sawGate = d[r.gate].gate /\ r.gate # None
      BY <1>1, <1>2, <1>4, <2>1, ConstantsAssumption
         DEF SightInv, DigestsInv, LocalInv, OrderInv, FoundInv, Updates, Fields, Builds
    <3>2. BothMatch(r, engine) <=> Agrees(r, d)
      BY <1>1, <3>1 DEF BothMatch, EngineListed, Agrees
    <3>3. Agrees(q, d) <=> Agrees(r, d)
      BY <3>1 DEF Agrees
    <3>4. q.verification = "unknown"
      BY <1>1, <1>2, <1>4 DEF LocalInv, OrderInv, Updates, Fields
    <3> QED
      BY <1>1, <1>4, <3>1, <3>2, <3>3, <3>4 DEF DigestsInv
  <2>4. BinariesInv(q, d)
    BY <1>1, <1>2, <1>4, <2>1 DEF SightInv, BinariesInv, LocalInv, OrderInv, FoundInv, PlaceInv,
         Updates, Fields, BothMatch, EngineListed, Is
  <2>5. EndsInv(q)
    BY <1>1, <1>2, <1>4, <2>1 DEF SightInv, EndsInv, LocalInv, OrderInv, PlaceInv, HelloVerdict,
         ValidateInstallation, Updates, Fields, BothMatch, EngineListed, Is
  <2>6. ErrorInv(q)
    BY <1>1, <1>2, <1>4, <2>1 DEF SightInv, ErrorInv, LocalInv, PlaceInv, Updates, Fields,
         BothMatch, EngineListed, Is
  <2> QED
    BY <2>2, <2>3, <2>4, <2>5, <2>6 DEF SightInv
<1> QED
  BY <1>1, <1>3, <1>4, <1>5, <1>6 DEF GoesOnSoundly, Updates

(***************************************************************************)
(* A caller accepted a development authority.                              *)
(***************************************************************************)
LEMMA OptingOutIsSound ==
    ASSUME IInv, NEW p \in Processes,
           proc[p].pc = "judging",
           Is(p, "session"),
           proc' = [proc EXCEPT ![p] = OptedOut(proc[p], "starting")]
    PROVE  GoesOnSoundly(p)
<1>1. PICK r \in Records, d \in [Places -> Files], e \in Environment :
          r = proc[p] /\ d = disk /\ e = env
  BY InHand
<1>2. LocalInv(r) /\ r.pc # "idle" /\ (r.gate \in Places => r.gate # None)
  BY <1>1, InHand, ConstantsAssumption
<1>3. PICK q : q = OptedOut(r, "starting")
  OBVIOUS
<1>4. Updates(q, r, {"development", "pc"}) /\ q.pc = "starting" /\ q.development
  BY <1>3, UpdateOptsOut DEF ProcPCs, Ends, Statuses
<1>5. LocalInv(q)
  <2>1. PlaceInv(q) /\ FoundInv(q) /\ ReadInv(q)
    BY <1>1, <1>2, <1>4 DEF LocalInv, PlaceInv, FoundInv, ReadInv, OrderInv, Updates, Fields, Is
  <2>2. OrderInv(q)
    BY <1>1, <1>2, <1>4 DEF LocalInv, OrderInv, Updates, Fields, Is
  <2>3. JudgedInv(q)
    BY <1>1, <1>2, <1>4 DEF LocalInv, JudgedInv, OrderInv, PlaceInv, ValidateInstallation,
         Updates, Fields, Is
  <2>4. SpokenInv(q)
    BY <1>1, <1>2, <1>4 DEF LocalInv, SpokenInv, OrderInv, HelloVerdict, Updates, Fields, Is
  <2> QED
    BY <2>1, <2>2, <2>3, <2>4 DEF LocalInv
<1>6. ASSUME p \notin touched PROVE SightInv(q, d, e)
  <2>1. SightInv(r, d, e)
    BY <1>1, <1>2, <1>6, InHand
  <2>2. PathsInv(q, d, e)
    BY <1>1, <1>2, <1>4, <2>1 DEF SightInv, PathsInv, Updates, Fields, Is
  <2>3. DigestsInv(q, d, e)
    BY <1>1, <1>2, <1>4, <2>1 DEF SightInv, DigestsInv, Agrees, LocalInv, OrderInv, FoundInv,
         ReadInv, Updates, Fields, Is
  <2>4. BinariesInv(q, d)
    BY <1>1, <1>2, <1>4, <2>1 DEF SightInv, BinariesInv, LocalInv, OrderInv, FoundInv, PlaceInv,
         Updates, Fields, Is
  <2>5. EndsInv(q)
    BY <1>1, <1>2, <1>4, <2>1 DEF SightInv, EndsInv, LocalInv, OrderInv, PlaceInv, SpokenInv,
         HelloVerdict, ValidateInstallation, Updates, Fields, Is
  <2>6. ErrorInv(q)
    BY <1>1, <1>2, <1>4, <2>1 DEF SightInv, ErrorInv, LocalInv, PlaceInv, Updates, Fields, Is
  <2> QED
    BY <2>2, <2>3, <2>4, <2>5, <2>6 DEF SightInv
<1> QED
  BY <1>1, <1>3, <1>4, <1>5, <1>6 DEF GoesOnSoundly, Updates

(***************************************************************************)
(* Doctor has judged the installation.                                     *)
(***************************************************************************)
LEMMA JudgingIsSound ==
    ASSUME IInv, NEW p \in Processes,
           NEW ready \in {"PASS", "FAIL"},
           NEW pc \in {"starting", "reporting"},
           proc[p].pc = "judging",
           Is(p, "doctor"),
           ready = "PASS" <=> ValidateInstallation(proc[p]),
           pc = "starting" => ready = "PASS",
           proc' = [proc EXCEPT ![p] = Judged(proc[p], ready, pc)]
    PROVE  GoesOnSoundly(p)
<1>1. PICK r \in Records, d \in [Places -> Files], e \in Environment :
          r = proc[p] /\ d = disk /\ e = env
  BY InHand
<1>2. LocalInv(r) /\ r.pc # "idle" /\ (r.gate \in Places => r.gate # None)
  BY <1>1, InHand, ConstantsAssumption
<1>3. PICK q : q = Judged(r, ready, pc)
  OBVIOUS
<1>4. Updates(q, r, {"ready", "pc"}) /\ q.pc = pc /\ q.ready = ready
  BY <1>3, UpdateIsReady DEF ProcPCs, Ends, Statuses
<1>5. LocalInv(q)
  <2>1. PlaceInv(q) /\ FoundInv(q) /\ ReadInv(q)
    BY <1>1, <1>2, <1>4 DEF LocalInv, PlaceInv, FoundInv, ReadInv, OrderInv, Updates, Fields, Is
  <2>2. OrderInv(q)
    BY <1>1, <1>2, <1>4 DEF LocalInv, OrderInv, Updates, Fields, Is
  <2>3. JudgedInv(q)
    BY <1>1, <1>2, <1>4 DEF LocalInv, JudgedInv, OrderInv, PlaceInv, ValidateInstallation,
         Updates, Fields, Is
  <2>4. SpokenInv(q)
    BY <1>1, <1>2, <1>4 DEF LocalInv, SpokenInv, OrderInv, HelloVerdict, Updates, Fields, Is
  <2> QED
    BY <2>1, <2>2, <2>3, <2>4 DEF LocalInv
<1>6. ASSUME p \notin touched PROVE SightInv(q, d, e)
  <2>1. SightInv(r, d, e)
    BY <1>1, <1>2, <1>6, InHand
  <2>2. PathsInv(q, d, e)
    BY <1>1, <1>2, <1>4, <2>1 DEF SightInv, PathsInv, Updates, Fields, Is
  <2>3. DigestsInv(q, d, e)
    BY <1>1, <1>2, <1>4, <2>1 DEF SightInv, DigestsInv, Agrees, LocalInv, OrderInv, FoundInv,
         ReadInv, Updates, Fields, Is
  <2>4. BinariesInv(q, d)
    BY <1>1, <1>2, <1>4, <2>1 DEF SightInv, BinariesInv, LocalInv, OrderInv, FoundInv, PlaceInv,
         Updates, Fields, Is
  <2>5. EndsInv(q)
    BY <1>1, <1>2, <1>4, <2>1 DEF SightInv, EndsInv, LocalInv, OrderInv, PlaceInv, SpokenInv,
         HelloVerdict, ValidateInstallation, Updates, Fields, Is
  <2>6. ErrorInv(q)
    BY <1>1, <1>2, <1>4, <2>1 DEF SightInv, ErrorInv, LocalInv, PlaceInv, Updates, Fields, Is
  <2> QED
    BY <2>2, <2>3, <2>4, <2>5, <2>6 DEF SightInv
<1> QED
  BY <1>1, <1>3, <1>4, <1>5, <1>6 DEF GoesOnSoundly, Updates

(***************************************************************************)
(* A binary is not there.                                                  *)
(***************************************************************************)
LEMMA StartFailsSoundly ==
    ASSUME IInv, NEW p \in Processes,
           NEW pc \in {"reporting", "failed"},
           proc[p].pc = "starting",
           pc = "reporting" <=> Is(p, "doctor"),
           proc' = [proc EXCEPT ![p] = Greeted(proc[p], "FAIL", pc)]
    PROVE  GoesOnSoundly(p)
<1>1. PICK r \in Records, d \in [Places -> Files], e \in Environment :
          r = proc[p] /\ d = disk /\ e = env
  BY InHand
<1>2. LocalInv(r) /\ r.pc # "idle" /\ (r.gate \in Places => r.gate # None)
  BY <1>1, InHand, ConstantsAssumption
<1>3. PICK q : q = Greeted(r, "FAIL", pc)
  OBVIOUS
<1>4. Updates(q, r, {"protocol", "pc"}) /\ q.pc = pc /\ q.protocol = "FAIL"
  BY <1>3, UpdateSpeaks DEF ProcPCs, Ends, Statuses
<1>5. LocalInv(q)
  <2>1. PlaceInv(q) /\ FoundInv(q) /\ ReadInv(q)
    BY <1>1, <1>2, <1>4 DEF LocalInv, PlaceInv, FoundInv, ReadInv, OrderInv, Updates, Fields, Is
  <2>2. OrderInv(q)
    BY <1>1, <1>2, <1>4 DEF LocalInv, OrderInv, Updates, Fields, Is
  <2>3. JudgedInv(q)
    BY <1>1, <1>2, <1>4 DEF LocalInv, JudgedInv, OrderInv, PlaceInv, ValidateInstallation,
         Updates, Fields, Is
  <2>4. SpokenInv(q)
    BY <1>1, <1>2, <1>4 DEF LocalInv, SpokenInv, OrderInv, HelloVerdict, Updates, Fields, Is
  <2> QED
    BY <2>1, <2>2, <2>3, <2>4 DEF LocalInv
<1>6. ASSUME p \notin touched PROVE SightInv(q, d, e)
  <2>1. SightInv(r, d, e)
    BY <1>1, <1>2, <1>6, InHand
  <2>2. PathsInv(q, d, e)
    BY <1>1, <1>2, <1>4, <2>1 DEF SightInv, PathsInv, Updates, Fields, Is
  <2>3. DigestsInv(q, d, e)
    BY <1>1, <1>2, <1>4, <2>1 DEF SightInv, DigestsInv, Agrees, LocalInv, OrderInv, FoundInv,
         ReadInv, Updates, Fields, Is
  <2>4. BinariesInv(q, d)
    BY <1>1, <1>2, <1>4, <2>1 DEF SightInv, BinariesInv, LocalInv, OrderInv, FoundInv, PlaceInv,
         Updates, Fields, Is
  <2>5. EndsInv(q)
    BY <1>1, <1>2, <1>4, <2>1 DEF SightInv, EndsInv, LocalInv, OrderInv, PlaceInv, SpokenInv,
         HelloVerdict, ValidateInstallation, Updates, Fields, Is
  <2>6. ErrorInv(q)
    BY <1>1, <1>2, <1>4, <2>1 DEF SightInv, ErrorInv, LocalInv, PlaceInv, Updates, Fields, Is
  <2> QED
    BY <2>2, <2>3, <2>4, <2>5, <2>6 DEF SightInv
<1> QED
  BY <1>1, <1>3, <1>4, <1>5, <1>6 DEF GoesOnSoundly, Updates

(***************************************************************************)
(* The Gate runs.                                                          *)
(***************************************************************************)
LEMMA StartingIsSound ==
    ASSUME IInv, NEW p \in Processes,
           NEW gate \in Builds,
           NEW engine \in Builds \cup {None},
           proc[p].pc = "starting",
           disk[proc[p].gate].gate = gate,
           disk[proc[p].engine].engine = engine,
           proc' = [proc EXCEPT ![p] = Running(proc[p], <<gate, engine>>, "greeting")]
    PROVE  GoesOnSoundly(p)
<1>1. PICK r \in Records, d \in [Places -> Files], e \in Environment :
          r = proc[p] /\ d = disk /\ e = env
  BY InHand
<1>2. LocalInv(r) /\ r.pc # "idle" /\ (r.gate \in Places => r.gate # None)
  BY <1>1, InHand, ConstantsAssumption
<1>3. PICK q : q = Running(r, <<gate, engine>>, "greeting")
  OBVIOUS
<1>4. Updates(q, r, {"runs", "pc"}) /\ q.pc = "greeting" /\ q.runs = <<gate, engine>>
  BY <1>3, UpdateRuns DEF ProcPCs, Ends, Statuses
<1>5. LocalInv(q)
  <2>1. PlaceInv(q) /\ FoundInv(q) /\ ReadInv(q)
    BY <1>1, <1>2, <1>4 DEF LocalInv, PlaceInv, FoundInv, ReadInv, OrderInv, Updates, Fields, Is
  <2>2. OrderInv(q)
    BY <1>1, <1>2, <1>4 DEF LocalInv, OrderInv, Updates, Fields, Is
  <2>3. JudgedInv(q)
    BY <1>1, <1>2, <1>4 DEF LocalInv, JudgedInv, OrderInv, PlaceInv, ValidateInstallation,
         Updates, Fields, Is
  <2>4. SpokenInv(q)
    BY <1>1, <1>2, <1>4 DEF LocalInv, SpokenInv, OrderInv, HelloVerdict, Updates, Fields, Is
  <2> QED
    BY <2>1, <2>2, <2>3, <2>4 DEF LocalInv
<1>6. ASSUME p \notin touched PROVE SightInv(q, d, e)
  <2>1. SightInv(r, d, e)
    BY <1>1, <1>2, <1>6, InHand
  <2>2. PathsInv(q, d, e)
    BY <1>1, <1>2, <1>4, <2>1 DEF SightInv, PathsInv, Updates, Fields, Is
  <2>3. DigestsInv(q, d, e)
    BY <1>1, <1>2, <1>4, <2>1 DEF SightInv, DigestsInv, Agrees, LocalInv, OrderInv, FoundInv,
         ReadInv, Updates, Fields, Is
  <2>4. BinariesInv(q, d)
    BY <1>1, <1>2, <1>4, <2>1 DEF SightInv, BinariesInv, LocalInv, OrderInv, FoundInv, PlaceInv,
         Updates, Fields, Is
  <2>5. EndsInv(q)
    BY <1>1, <1>2, <1>4, <2>1 DEF SightInv, EndsInv, LocalInv, OrderInv, PlaceInv, SpokenInv,
         HelloVerdict, ValidateInstallation, Updates, Fields, Is
  <2>6. ErrorInv(q)
    BY <1>1, <1>2, <1>4, <2>1 DEF SightInv, ErrorInv, LocalInv, PlaceInv, Updates, Fields, Is
  <2> QED
    BY <2>2, <2>3, <2>4, <2>5, <2>6 DEF SightInv
<1> QED
  BY <1>1, <1>3, <1>4, <1>5, <1>6 DEF GoesOnSoundly, Updates

(***************************************************************************)
(* hello was answered, or failed.                                          *)
(***************************************************************************)
LEMMA GreetingIsSound ==
    ASSUME IInv, NEW p \in Processes,
           NEW verdict \in Statuses,
           NEW pc \in {"reporting", "ready", "failed"},
           proc[p].pc = "greeting",
           verdict = "PASS" => HelloVerdict(proc[p]) = "PASS",
           pc = "reporting" <=> Is(p, "doctor"),
           pc = "ready" => verdict = "PASS",
           pc = "failed" => verdict # "PASS",
           proc' = [proc EXCEPT ![p] = Greeted(proc[p], verdict, pc)]
    PROVE  GoesOnSoundly(p)
<1>1. PICK r \in Records, d \in [Places -> Files], e \in Environment :
          r = proc[p] /\ d = disk /\ e = env
  BY InHand
<1>2. LocalInv(r) /\ r.pc # "idle" /\ (r.gate \in Places => r.gate # None)
  BY <1>1, InHand, ConstantsAssumption
<1>3. PICK q : q = Greeted(r, verdict, pc)
  OBVIOUS
<1>4. Updates(q, r, {"protocol", "pc"}) /\ q.pc = pc /\ q.protocol = verdict
  BY <1>3, UpdateSpeaks DEF ProcPCs, Ends, Statuses
<1>5. LocalInv(q)
  <2>1. PlaceInv(q) /\ FoundInv(q) /\ ReadInv(q)
    BY <1>1, <1>2, <1>4 DEF LocalInv, PlaceInv, FoundInv, ReadInv, OrderInv, Updates, Fields, Is
  <2>2. OrderInv(q)
    BY <1>1, <1>2, <1>4 DEF LocalInv, OrderInv, Updates, Fields, Is
  <2>3. JudgedInv(q)
    BY <1>1, <1>2, <1>4 DEF LocalInv, JudgedInv, OrderInv, PlaceInv, ValidateInstallation,
         Updates, Fields, Is
  <2>4. SpokenInv(q)
    BY <1>1, <1>2, <1>4 DEF LocalInv, SpokenInv, OrderInv, HelloVerdict, Updates, Fields, Is
  <2> QED
    BY <2>1, <2>2, <2>3, <2>4 DEF LocalInv
<1>6. ASSUME p \notin touched PROVE SightInv(q, d, e)
  <2>1. SightInv(r, d, e)
    BY <1>1, <1>2, <1>6, InHand
  <2>2. PathsInv(q, d, e)
    BY <1>1, <1>2, <1>4, <2>1 DEF SightInv, PathsInv, Updates, Fields, Is
  <2>3. DigestsInv(q, d, e)
    BY <1>1, <1>2, <1>4, <2>1 DEF SightInv, DigestsInv, Agrees, LocalInv, OrderInv, FoundInv,
         ReadInv, Updates, Fields, Is
  <2>4. BinariesInv(q, d)
    BY <1>1, <1>2, <1>4, <2>1 DEF SightInv, BinariesInv, LocalInv, OrderInv, FoundInv, PlaceInv,
         Updates, Fields, Is
  <2>5. EndsInv(q)
    BY <1>1, <1>2, <1>4, <2>1 DEF SightInv, EndsInv, LocalInv, OrderInv, PlaceInv, SpokenInv,
         HelloVerdict, ValidateInstallation, Updates, Fields, Is
  <2>6. ErrorInv(q)
    BY <1>1, <1>2, <1>4, <2>1 DEF SightInv, ErrorInv, LocalInv, PlaceInv, Updates, Fields, Is
  <2> QED
    BY <2>2, <2>3, <2>4, <2>5, <2>6 DEF SightInv
<1> QED
  BY <1>1, <1>3, <1>4, <1>5, <1>6 DEF GoesOnSoundly, Updates

(***************************************************************************)
(* Doctor has reported.                                                    *)
(***************************************************************************)
LEMMA ReportingIsSound ==
    ASSUME IInv, NEW p \in Processes,
           NEW overall \in Statuses,
           proc[p].pc = "reporting",
           overall = "PASS" => proc[p].ready = "PASS" /\ proc[p].protocol = "PASS",
           proc' = [proc EXCEPT ![p] = Reporting(proc[p], overall, "reported")]
    PROVE  GoesOnSoundly(p)
<1>1. PICK r \in Records, d \in [Places -> Files], e \in Environment :
          r = proc[p] /\ d = disk /\ e = env
  BY InHand
<1>2. LocalInv(r) /\ r.pc # "idle" /\ (r.gate \in Places => r.gate # None)
  BY <1>1, InHand, ConstantsAssumption
<1>3. PICK q : q = Reporting(r, overall, "reported")
  OBVIOUS
<1>4. Updates(q, r, {"overall", "pc"}) /\ q.pc = "reported" /\ q.overall = overall
  BY <1>3, UpdateReports DEF ProcPCs, Ends, Statuses
<1>5. LocalInv(q)
  <2>1. PlaceInv(q) /\ FoundInv(q) /\ ReadInv(q)
    BY <1>1, <1>2, <1>4 DEF LocalInv, PlaceInv, FoundInv, ReadInv, OrderInv, Updates, Fields, Is
  <2>2. OrderInv(q)
    BY <1>1, <1>2, <1>4 DEF LocalInv, OrderInv, Updates, Fields, Is
  <2>3. JudgedInv(q)
    BY <1>1, <1>2, <1>4 DEF LocalInv, JudgedInv, OrderInv, PlaceInv, ValidateInstallation,
         Updates, Fields, Is
  <2>4. SpokenInv(q)
    BY <1>1, <1>2, <1>4 DEF LocalInv, SpokenInv, OrderInv, HelloVerdict, Updates, Fields, Is
  <2> QED
    BY <2>1, <2>2, <2>3, <2>4 DEF LocalInv
<1>6. ASSUME p \notin touched PROVE SightInv(q, d, e)
  <2>1. SightInv(r, d, e)
    BY <1>1, <1>2, <1>6, InHand
  <2>2. PathsInv(q, d, e)
    BY <1>1, <1>2, <1>4, <2>1 DEF SightInv, PathsInv, Updates, Fields, Is
  <2>3. DigestsInv(q, d, e)
    BY <1>1, <1>2, <1>4, <2>1 DEF SightInv, DigestsInv, Agrees, LocalInv, OrderInv, FoundInv,
         ReadInv, Updates, Fields, Is
  <2>4. BinariesInv(q, d)
    BY <1>1, <1>2, <1>4, <2>1 DEF SightInv, BinariesInv, LocalInv, OrderInv, FoundInv, PlaceInv,
         Updates, Fields, Is
  <2>5. EndsInv(q)
    BY <1>1, <1>2, <1>4, <2>1 DEF SightInv, EndsInv, LocalInv, OrderInv, PlaceInv, SpokenInv,
         HelloVerdict, ValidateInstallation, Updates, Fields, Is
  <2>6. ErrorInv(q)
    BY <1>1, <1>2, <1>4, <2>1 DEF SightInv, ErrorInv, LocalInv, PlaceInv, Updates, Fields, Is
  <2> QED
    BY <2>2, <2>3, <2>4, <2>5, <2>6 DEF SightInv
<1> QED
  BY <1>1, <1>3, <1>4, <1>5, <1>6 DEF GoesOnSoundly, Updates

-----------------------------------------------------------------------------
(***************************************************************************)
(* The report of doctor.                                                   *)
(***************************************************************************)

(***************************************************************************)
(* The overall verdict is the worst of the checks: it is PASS only when    *)
(* all of them are.                                                        *)
(***************************************************************************)
LEMMA TheWorstDecides ==
    ASSUME NEW checks, \A i \in DOMAIN checks : checks[i] \in Statuses, DOMAIN checks # {}
    PROVE  /\ Overall(checks) \in Statuses
           /\ Overall(checks) = "PASS" => \A i \in DOMAIN checks : checks[i] = "PASS"
<1>1. PICK present : present = {checks[i] : i \in DOMAIN checks}
  OBVIOUS
<1>2. PICK worst : worst = {i \in DOMAIN StatusPrecedence : StatusPrecedence[i] \in present}
  OBVIOUS
<1>3. /\ DOMAIN StatusPrecedence = {1, 2, 3, 4}
      /\ StatusPrecedence[1] = "FAIL" /\ StatusPrecedence[2] = "UNSUPPORTED"
      /\ StatusPrecedence[3] = "UNAVAILABLE" /\ StatusPrecedence[4] = "PASS"
  BY DEF StatusPrecedence
<1>4. present # {} /\ present \subseteq Statuses
  BY <1>1
<1>5. worst # {} /\ worst \subseteq {1, 2, 3, 4}
  <2>1. PICK status \in Statuses : status \in present
    BY <1>4
  <2>2. \E i \in {1, 2, 3, 4} : StatusPrecedence[i] = status
    BY <1>3, <2>1 DEF Statuses
  <2> QED
    BY <1>2, <1>3, <2>1, <2>2
<1>6. \E i \in worst : \A j \in worst : i <= j
  <2>1. CASE 1 \in worst
    BY <1>5, <2>1
  <2>2. CASE 1 \notin worst /\ 2 \in worst
    BY <1>5, <2>2
  <2>3. CASE 1 \notin worst /\ 2 \notin worst /\ 3 \in worst
    BY <1>5, <2>3
  <2>4. CASE 1 \notin worst /\ 2 \notin worst /\ 3 \notin worst
    <3>1. worst = {4}
      BY <1>5, <2>4
    <3> QED
      BY <3>1
  <2> QED
    BY <2>1, <2>2, <2>3, <2>4
<1>7. PICK first : first = CHOOSE i \in worst : \A j \in worst : i <= j
  OBVIOUS
<1>8. first \in worst /\ \A j \in worst : first <= j
  BY <1>6, <1>7
<1>9. Overall(checks) = StatusPrecedence[first]
  BY <1>1, <1>2, <1>7 DEF Overall
<1>10. Overall(checks) \in Statuses
  BY <1>3, <1>5, <1>8, <1>9 DEF Statuses
<1>11. ASSUME Overall(checks) = "PASS" PROVE present \subseteq {"PASS"}
  <2>1. first = 4
    BY <1>3, <1>5, <1>8, <1>9, <1>11
  <2>2. 1 \notin worst /\ 2 \notin worst /\ 3 \notin worst
    BY <1>8, <2>1
  <2> QED
    BY <1>2, <1>3, <1>4, <2>2 DEF Statuses
<1> QED
  BY <1>1, <1>10, <1>11

(***************************************************************************)
(* A report says PASS only for an installation that is ready and answers,  *)
(* and only where host data is provisioned.                                *)
(***************************************************************************)
LEMMA ReportsAreHonest ==
    ASSUME NEW r \in Records, NEW writable \in BOOLEAN
    PROVE  /\ Overall(Checks(r, writable)) \in Statuses
           /\ Overall(Checks(r, writable)) = "PASS" =>
                 r.ready = "PASS" /\ r.protocol = "PASS" /\ host = "provisioned"
<1>1. PICK checks : checks = Checks(r, writable)
  OBVIOUS
<1>2. /\ DOMAIN checks = 1 .. 10 /\ checks[6] = r.ready /\ checks[7] = r.protocol
      /\ checks[10] = IF writable /\ host = "provisioned" THEN "PASS" ELSE "UNAVAILABLE"
  BY <1>1 DEF Checks
<1>3. r.ready \in Statuses /\ r.protocol \in Statuses
  BY DEF Records
<1>4. \A i \in DOMAIN checks : checks[i] \in Statuses
  BY <1>1, <1>2, <1>3 DEF Checks, Statuses
<1>5. 6 \in DOMAIN checks /\ 7 \in DOMAIN checks /\ 10 \in DOMAIN checks
  BY <1>2
<1>6. /\ Overall(checks) \in Statuses
      /\ Overall(checks) = "PASS" => \A i \in DOMAIN checks : checks[i] = "PASS"
  BY <1>4, <1>5, TheWorstDecides
<1> QED
  BY <1>1, <1>2, <1>5, <1>6

-----------------------------------------------------------------------------
(***************************************************************************)
(* Every step of a process.                                                *)
(***************************************************************************)

(***************************************************************************)
(* Discovery keeps what it has learnt.                                     *)
(***************************************************************************)
LEMMA DiscoveryIsSound ==
    ASSUME IInv, NEW p \in Processes, Discovers(p)
    PROVE  GoesOnSoundly(p)
<1>1. PICK r \in Records, d \in [Places -> Files], e \in Environment :
          r = proc[p] /\ d = disk /\ e = env
  BY InHand
<1>2. LocalInv(r)
  BY <1>1, InHand
<1>3. \A place \in Places : /\ d[place].gate \in Builds \cup {None}
                            /\ d[place].engine \in Builds \cup {None}
                            /\ d[place].sums \in Releases \cup {None}
  BY DEF Files
<1>4. CASE Locate(p)
  BY <1>4, LocatingIsSound
<1>5. CASE HashForReport(p)
  <2>1. PICK hashed \in BOOLEAN : proc' = [proc EXCEPT ![p] = Hashing(proc[p], hashed, "reading")]
    <3>1. PICK hashed : hashed = (Has(disk, proc[p].gate, "gate") /\ Has(disk, proc[p].engine, "engine"))
      OBVIOUS
    <3>2. hashed \in BOOLEAN
      BY <3>1, Zenon
    <3>3. proc' = [proc EXCEPT ![p] = [proc[p] EXCEPT !.pc = "reading", !.hashed = hashed]]
      BY <1>5, <3>1, Zenon DEF HashForReport, Becomes
    <3> QED
      BY <3>2, <3>3 DEF Hashing
  <2>2. proc[p].pc = "hashing"
    BY <1>5 DEF HashForReport, At
  <2> QED
    BY <2>1, <2>2, HashingIsSound
<1>6. CASE ReadManifest(p)
  <2>1. r.pc = "reading" /\ r.gate \in Places
    BY <1>1, <1>2, <1>6 DEF ReadManifest, At, LocalInv, FoundInv
  <2>2. CASE d[r.gate].sums # None
    <3>1. PICK sums \in Releases : sums = d[r.gate].sums
      BY <1>3, <2>1, <2>2
    <3>2. proc' = [proc EXCEPT ![p] = WithSums(proc[p], sums, "hashGate")]
      BY <1>1, <1>6, <2>2, <3>1 DEF ReadManifest, Becomes, WithSums
    <3> QED
      BY <1>1, <2>1, <3>1, <3>2, ManifestIsSound
  <2>3. CASE d[r.gate].sums = None
    <3>1. CASE env.override
      <4>1. proc' = [proc EXCEPT ![p] = WithVerdict(proc[p], "dev_override", "dev_override", TRUE, "describing")]
        BY <1>1, <1>6, <2>3, <3>1 DEF ReadManifest, Becomes, WithVerdict, Verified
      <4> QED
        BY <1>1, <2>1, <2>3, <4>1, NoManifestIsSound
    <3>2. CASE ~env.override
      <4>1. proc' = [proc EXCEPT ![p] = WithVerdict(proc[p], "absent", "unverified", FALSE, "describing")]
        BY <1>1, <1>6, <2>3, <3>2 DEF ReadManifest, Becomes, WithVerdict, Verified
      <4> QED
        BY <1>1, <2>1, <2>3, <4>1, NoManifestIsSound
    <3> QED
      BY <3>1, <3>2
  <2> QED
    BY <2>2, <2>3
<1>7. CASE HashGate(p)
  <2>1. r.pc = "hashGate" /\ r.gate \in Places
    BY <1>1, <1>2, <1>7 DEF HashGate, At, LocalInv, FoundInv
  <2>2. CASE d[r.gate].gate # None
    <3>1. PICK gate \in Builds : gate = d[r.gate].gate
      BY <1>3, <2>1, <2>2
    <3>2. proc' = [proc EXCEPT ![p] = WithGate(proc[p], gate, "hashEngine")]
      BY <1>1, <1>7, <2>2, <3>1 DEF HashGate, Has, Becomes, WithGate
    <3> QED
      BY <1>1, <2>1, <3>1, <3>2, GateDigestIsSound
  <2>3. CASE d[r.gate].gate = None
    <3>1. proc' = [proc EXCEPT ![p] = Moved(proc[p], "crashed")]
      BY <1>1, <1>7, <2>3 DEF HashGate, Has, Goes, Becomes, Moved
    <3>2. "crashed" \in ProcPCs
      BY DEF ProcPCs, Ends
    <3> QED
      BY <1>1, <2>1, <3>1, <3>2, MovesAreSound
  <2> QED
    BY <2>2, <2>3
<1>8. CASE HashEngine(p)
  <2>1. r.pc = "hashEngine" /\ r.engine \in Places
    <3>1. r.pc = "hashEngine" /\ r.gate # None
      BY <1>1, <1>2, <1>8, ConstantsAssumption DEF HashEngine, At, LocalInv, FoundInv
    <3>2. r.engine \in Places \cup {None}
      BY DEF Records
    <3> QED
      BY <1>2, <3>1, <3>2 DEF LocalInv, FoundInv
  <2>2. PICK engine \in Builds \cup {None} : engine = d[r.engine].engine
    BY <1>3, <2>1
  <2>3. PICK r1 : r1 = WithEngine(proc[p], engine)
    OBVIOUS
  <2>4. Updates(r1, r, {"sawEngine"})
    BY <1>1, <2>3, UpdateSawEngine
  <2>5. /\ EngineListed(r1) <=> EngineListed(proc[p])
        /\ BothMatch(r1, engine) <=> BothMatch(proc[p], engine)
    BY <1>1, <2>4 DEF Updates, Fields, BothMatch, EngineListed
  <2>6. IF EngineListed(r1) /\ engine = None THEN Goes(p, "crashed")
        ELSE IF BothMatch(r1, engine) THEN Becomes(p, Verified(r1, "release_manifest", "verified", FALSE))
             ELSE Mismatch(p, r1)
    BY <1>1, <1>8, <2>2, <2>3 DEF HashEngine, WithEngine
  <2>7. CASE EngineListed(r1) /\ engine = None
    <3>1. proc' = [proc EXCEPT ![p] = Moved(proc[p], "crashed")]
      BY <2>6, <2>7 DEF Goes, Becomes, Moved
    <3>2. "crashed" \in ProcPCs
      BY DEF ProcPCs, Ends
    <3> QED
      BY <1>1, <2>1, <3>1, <3>2, MovesAreSound
  <2>8. CASE ~(EngineListed(r1) /\ engine = None)
    <3>1. /\ BothMatch(r1, engine) => Becomes(p, Verified(r1, "release_manifest", "verified", FALSE))
          /\ ~BothMatch(r1, engine) => Mismatch(p, r1)
      BY <2>6, <2>8
    <3>2. CASE BothMatch(r1, engine)
      <4>1. proc' = [proc EXCEPT ![p] =
                       WithVerdict(WithEngine(proc[p], engine), "release_manifest", "verified", FALSE, "describing")]
        BY <2>3, <3>1, <3>2 DEF Becomes, Verified, WithVerdict
      <4> QED
        BY <1>1, <2>1, <2>2, <2>5, <3>2, <4>1, VerdictIsSound
    <3>3. CASE ~BothMatch(r1, engine)
      <4>1. CASE env.override
        <5>1. proc' = [proc EXCEPT ![p] =
                         WithVerdict(WithEngine(proc[p], engine), "dev_override", "dev_override", TRUE, "describing")]
          BY <2>3, <3>1, <3>3, <4>1 DEF Mismatch, Becomes, Verified, WithVerdict
        <5> QED
          BY <1>1, <2>1, <2>2, <2>5, <3>3, <5>1, VerdictIsSound
      <4>2. CASE ~env.override /\ Is(p, "doctor")
        <5>1. PICK dev \in BOOLEAN : dev = r1.dev
          BY <2>4, Zenon DEF Updates, Records
        <5>2. proc' = [proc EXCEPT ![p] =
                         WithVerdict(WithEngine(proc[p], engine), "mismatch", "unverified", dev, "describing")]
          BY <2>3, <3>1, <3>3, <4>2, <5>1 DEF Mismatch, Becomes, Verified, WithVerdict
        <5> QED
          BY <1>1, <2>1, <2>2, <2>5, <3>3, <5>2, VerdictIsSound
      <4>3. CASE ~env.override /\ ~Is(p, "doctor")
        <5>1. proc' = [proc EXCEPT ![p] = Failing(WithEngine(proc[p], engine), "manifest_mismatch", "failed")]
          BY <2>3, <3>1, <3>3, <4>3 DEF Mismatch, Becomes, Failing
        <5> QED
          BY <1>1, <2>1, <2>2, <2>5, <3>3, <4>3, <5>1, MismatchIsSound
      <4> QED
        BY <4>1, <4>2, <4>3
    <3> QED
      BY <3>2, <3>3
  <2> QED
    BY <2>7, <2>8
<1>9. CASE Describe(p) \/ PrintVersion(p)
  BY <1>9, AskingIsSound
<1> QED
  BY <1>4, <1>5, <1>6, <1>7, <1>8, <1>9 DEF Discovers

(***************************************************************************)
(* Judging, starting, greeting, reporting and provisioning keep what was   *)
(* concluded.                                                              *)
(***************************************************************************)
LEMMA UsesAreSound ==
    ASSUME IInv, NEW p \in Processes, Uses(p)
    PROVE  GoesOnSoundly(p)
<1>1. PICK r \in Records, d \in [Places -> Files], e \in Environment :
          r = proc[p] /\ d = disk /\ e = env
  BY InHand
<1>2. LocalInv(r)
  BY <1>1, InHand
<1>3. \A place \in Places : /\ d[place].gate \in Builds \cup {None}
                            /\ d[place].engine \in Builds \cup {None}
  BY DEF Files
<1>4. {"failed", "crashed", "refused", "starting", "reporting", "making", "provisioning", "provisioned"}
          \subseteq ProcPCs
  BY DEF ProcPCs, Ends
<1>5. CASE JudgeSession(p)
  <2>1. proc[p].pc = "judging" /\ Is(p, "session")
    BY <1>5 DEF JudgeSession, At
  <2>2. PICK pc \in ProcPCs :
            /\ \/ pc = "crashed"
               \/ pc = "starting" /\ ValidateInstallation(proc[p])
               \/ pc = "refused" /\ ~ValidateInstallation(proc[p])
               \/ pc = "idle"
            /\ IF pc = "idle"
               THEN proc' = [proc EXCEPT ![p] = OptedOut(proc[p], "starting")]
               ELSE proc' = [proc EXCEPT ![p] = Moved(proc[p], pc)]
    <3>1. CASE ~Recorded(p)
      BY <1>4, <1>5, <3>1 DEF JudgeSession, Goes, Becomes, Moved
    <3>2. CASE Recorded(p) /\ ValidateInstallation(proc[p])
      BY <1>4, <1>5, <3>2 DEF JudgeSession, Goes, Becomes, Moved
    <3>3. CASE Recorded(p) /\ ~ValidateInstallation(proc[p])
      <4>1. Goes(p, "refused") \/ Becomes(p, [proc[p] EXCEPT !.development = TRUE, !.pc = "starting"])
        BY <1>5, <3>3 DEF JudgeSession
      <4>2. CASE Goes(p, "refused")
        BY <1>4, <3>3, <4>2 DEF Goes, Becomes, Moved
      <4>3. CASE Becomes(p, [proc[p] EXCEPT !.development = TRUE, !.pc = "starting"])
        <5>1. "idle" \in ProcPCs
          BY DEF ProcPCs
        <5> QED
          BY <4>3, <5>1 DEF Becomes, OptedOut
      <4> QED
        BY <4>1, <4>2, <4>3
    <3> QED
      BY <3>1, <3>2, <3>3
  <2>3. CASE pc = "idle"
    BY <2>1, <2>2, <2>3, OptingOutIsSound
  <2>4. CASE pc # "idle"
    BY <2>1, <2>2, <2>4, MovesAreSound
  <2> QED
    BY <2>3, <2>4
<1>6. CASE JudgeInstallation(p)
  <2>1. proc[p].pc = "judging" /\ Is(p, "doctor")
    BY <1>6 DEF JudgeInstallation, At
  <2>2. CASE ~proc[p].hashed
    <3>1. proc' = [proc EXCEPT ![p] = Moved(proc[p], "reporting")]
      BY <1>6, <2>2 DEF JudgeInstallation, Goes, Becomes, Moved
    <3> QED
      BY <1>4, <2>1, <3>1, MovesAreSound
  <2>3. CASE proc[p].hashed /\ ValidateInstallation(proc[p])
    <3>1. PICK next \in {"starting", "reporting"} : proc' = [proc EXCEPT ![p] = Judged(proc[p], "PASS", next)]
      BY <1>6, <2>3 DEF JudgeInstallation, Becomes, Judged
    <3> QED
      BY <2>1, <2>3, <3>1, JudgingIsSound
  <2>4. CASE proc[p].hashed /\ ~ValidateInstallation(proc[p])
    <3>1. proc' = [proc EXCEPT ![p] = Judged(proc[p], "FAIL", "reporting")]
      BY <1>6, <2>4 DEF JudgeInstallation, Becomes, Judged
    <3> QED
      BY <2>1, <2>4, <3>1, JudgingIsSound
  <2> QED
    BY <2>2, <2>3, <2>4
<1>7. CASE JudgeSetup(p)
  <2>1. PICK pc \in {"making", "crashed"} : proc' = [proc EXCEPT ![p] = Moved(proc[p], pc)]
    BY <1>7 DEF JudgeSetup, Goes, Becomes, Moved
  <2> QED
    BY <1>4, <1>7, <2>1, MovesAreSound DEF JudgeSetup, At
<1>8. CASE Start(p)
  <2>1. r.pc = "starting" /\ r.gate \in Places /\ r.engine \in Places
    <3>1. r.pc = "starting" /\ r.gate \in Places /\ r.gate # None
      BY <1>1, <1>2, <1>8, ConstantsAssumption DEF Start, At, LocalInv, FoundInv
    <3>2. r.engine \in Places \cup {None}
      BY DEF Records
    <3> QED
      BY <1>2, <3>1, <3>2 DEF LocalInv, FoundInv
  <2>2. PICK gate \in Builds \cup {None}, engine \in Builds \cup {None} :
            gate = d[r.gate].gate /\ engine = d[r.engine].engine
    BY <1>3, <2>1
  <2>3. PICK pc \in {"reporting", "failed"} : pc = IF Is(p, "doctor") THEN "reporting" ELSE "failed"
    OBVIOUS
  <2>4. \/ proc' = [proc EXCEPT ![p] = Greeted(proc[p], "FAIL", pc)]
        \/ proc' = [proc EXCEPT ![p] = Moved(proc[p], "crashed")]
        \/ /\ gate # None
           /\ proc' = [proc EXCEPT ![p] = Running(proc[p], <<gate, engine>>, "greeting")]
    BY <1>1, <1>8, <2>2, <2>3, Zenon DEF Start, Becomes, Goes, Greeted, Moved, Running
  <2>5. CASE proc' = [proc EXCEPT ![p] = Greeted(proc[p], "FAIL", pc)]
    BY <1>1, <2>1, <2>3, <2>5, StartFailsSoundly
  <2>6. CASE proc' = [proc EXCEPT ![p] = Moved(proc[p], "crashed")]
    BY <1>1, <1>4, <2>1, <2>6, MovesAreSound
  <2>7. CASE /\ gate # None
             /\ proc' = [proc EXCEPT ![p] = Running(proc[p], <<gate, engine>>, "greeting")]
    BY <1>1, <2>1, <2>2, <2>7, StartingIsSound
  <2> QED
    BY <2>4, <2>5, <2>6, <2>7
<1>9. CASE Hello(p)
  <2>1. proc[p].pc = "greeting"
    BY <1>9 DEF Hello, At
  <2>2. \/ Goes(p, "crashed")
        \/ \E verdict \in {HelloVerdict(proc[p]), "FAIL"} :
              Becomes(p, Greeted(proc[p], verdict, IF Is(p, "doctor") THEN "reporting"
                                                   ELSE IF verdict = "PASS" THEN "ready" ELSE "failed"))
    BY <1>9, Zenon DEF Hello, Greeted
  <2>3. CASE Goes(p, "crashed")
    <3>1. proc' = [proc EXCEPT ![p] = Moved(proc[p], "crashed")]
      BY <2>3 DEF Goes, Becomes, Moved
    <3> QED
      BY <1>4, <2>1, <3>1, MovesAreSound
  <2>4. ASSUME NEW verdict \in {HelloVerdict(proc[p]), "FAIL"}, NEW pc,
               pc = IF Is(p, "doctor") THEN "reporting" ELSE IF verdict = "PASS" THEN "ready" ELSE "failed",
               Becomes(p, Greeted(proc[p], verdict, pc))
        PROVE  GoesOnSoundly(p)
    <3>1. verdict \in Statuses /\ (verdict = "PASS" => HelloVerdict(proc[p]) = "PASS")
      BY DEF HelloVerdict, Statuses
    <3>2. /\ pc \in {"reporting", "ready", "failed"}
          /\ pc = "reporting" <=> Is(p, "doctor")
          /\ pc = "ready" => verdict = "PASS"
          /\ pc = "failed" => verdict # "PASS"
      BY <2>4
    <3>3. proc' = [proc EXCEPT ![p] = Greeted(proc[p], verdict, pc)]
      BY <2>4 DEF Becomes
    <3> QED
      BY <2>1, <3>1, <3>2, <3>3, GreetingIsSound
  <2> QED
    BY <2>2, <2>3, <2>4
<1>10. CASE Report(p)
  <2>1. PICK writable \in BOOLEAN :
            Becomes(p, [proc[p] EXCEPT !.overall = Overall(Checks(proc[p], writable)), !.pc = "reported"])
    BY <1>10 DEF Report
  <2>2. PICK overall : overall = Overall(Checks(proc[p], writable))
    OBVIOUS
  <2>3. proc' = [proc EXCEPT ![p] = Reporting(proc[p], overall, "reported")]
    BY <2>1, <2>2 DEF Becomes, Reporting
  <2>4. overall \in Statuses /\ (overall = "PASS" => proc[p].ready = "PASS" /\ proc[p].protocol = "PASS")
    BY <1>1, <2>2, ReportsAreHonest
  <2> QED
    BY <1>10, <2>3, <2>4, ReportingIsSound DEF Report, At
<1>11. CASE MakeHostRoot(p)
  <2>1. PICK pc \in {"failed", "provisioning"} : proc' = [proc EXCEPT ![p] = Moved(proc[p], pc)]
    BY <1>11 DEF MakeHostRoot, Goes, Becomes, Moved
  <2> QED
    BY <1>4, <1>11, <2>1, MovesAreSound DEF MakeHostRoot, At
<1>12. CASE Provision(p)
  <2>1. PICK pc \in {"failed", "provisioned"} : proc' = [proc EXCEPT ![p] = Moved(proc[p], pc)]
    BY <1>12 DEF Provision, Goes, Becomes, Moved
  <2> QED
    BY <1>4, <1>12, <2>1, MovesAreSound DEF Provision, At
<1> QED
  BY <1>5, <1>6, <1>7, <1>8, <1>9, <1>10, <1>11, <1>12 DEF Uses

-----------------------------------------------------------------------------
(***************************************************************************)
(* Every step of the system.                                               *)
(***************************************************************************)

(***************************************************************************)
(* A process changes neither the installation nor the environment; only    *)
(* setup changes the host root.                                            *)
(***************************************************************************)
LEMMA ProcessesLeaveTheWorld ==
    ASSUME IInv, NEW p \in Processes, Discovers(p) \/ Uses(p)
    PROVE  /\ UNCHANGED <<disk, env, touched, acq, changes, acquires>>
           /\ host' \in HostStates
           /\ host = "provisioned" => host' = "provisioned"
<1>1. host \in HostStates
  BY DEF IInv, WorldTypes
<1>2. CASE \E r : Becomes(p, r)
  BY <1>1, <1>2 DEF Becomes
<1>3. CASE Discovers(p)
  <2>1. \E r : Becomes(p, r)
    BY <1>3, Zenon DEF Discovers, Locate, HashForReport, ReadManifest, HashGate, HashEngine,
         Describe,
              PrintVersion, Mismatch, Goes
  <2> QED
    BY <1>2, <2>1
<1>4. CASE JudgeSession(p) \/ JudgeInstallation(p) \/ JudgeSetup(p) \/ Start(p) \/ Hello(p) \/ Report(p)
  <2>1. \E r : Becomes(p, r)
    BY <1>4, Zenon DEF JudgeSession, JudgeInstallation, JudgeSetup, Start, Hello, Report, Goes
  <2> QED
    BY <1>2, <2>1
<1>5. CASE MakeHostRoot(p)
  <2>1. Goes(p, "failed") => \E r : Becomes(p, r)
    BY Zenon DEF Goes
  <2> QED
    BY <1>1, <1>2, <1>5, <2>1 DEF MakeHostRoot, HostStates
<1>6. CASE Provision(p)
  <2>1. Goes(p, "failed") => \E r : Becomes(p, r)
    BY Zenon DEF Goes
  <2> QED
    BY <1>1, <1>2, <1>6, <2>1 DEF Provision, HostStates
<1> QED
  BY <1>3, <1>4, <1>5, <1>6 DEF Uses

(***************************************************************************)
(* Only Report makes a report.                                             *)
(***************************************************************************)
LEMMA OnlyDoctorReports ==
    ASSUME IInv, NEW p \in Processes, Discovers(p) \/ Uses(p), ~Report(p)
    PROVE  proc'[p].pc # "reported"
<1>1. PICK r \in Records : r = proc[p]
  BY InHand
<1>2. ASSUME NEW q, Becomes(p, q), q.pc # "reported" PROVE proc'[p].pc # "reported"
  <2>1. proc'[p] = q
    BY <1>2 DEF Becomes, IInv, ProcTypes
  <2> QED
    BY <1>2, <2>1
<1>3. ASSUME NEW pc, pc # "reported", Goes(p, pc) PROVE proc'[p].pc # "reported"
  <2>1. Becomes(p, Moved(r, pc)) /\ Moved(r, pc).pc = pc
    BY <1>1, <1>3 DEF Goes, Moved, Records
  <2> QED
    BY <1>2, <1>3, <2>1
<1>4. CASE Locate(p)
  <2>1. PICK start : start = [Fresh(r.role) EXCEPT !.dev = env.override]
    OBVIOUS
  <2>2. /\ \A error, pc : Failing(start, error, pc).pc = pc
        /\ \A gate, engine, source, pc : Finding(start, gate, engine, source, pc).pc = pc
    BY <2>1 DEF Fresh, Failing, Finding
  <2>3. \/ \E error : Becomes(p, Failing(start, error, IF Is(p, "doctor") THEN "reporting" ELSE "failed"))
        \/ \E gate, engine, source :
              Becomes(p, Finding(start, gate, engine, source, IF Is(p, "doctor") THEN "hashing" ELSE "reading"))
    BY <1>1, <1>4, <2>1, Zenon DEF Locate, Failing, Finding
  <2> QED
    BY <1>2, <2>2, <2>3
<1>5. CASE HashForReport(p)
  <2>1. \A hashed : Hashing(r, hashed, "reading").pc = "reading"
    BY DEF Hashing, Records
  <2>2. \E hashed : Becomes(p, Hashing(r, hashed, "reading"))
    BY <1>1, <1>5, Zenon DEF HashForReport, Hashing
  <2> QED
    BY <1>2, <2>1, <2>2
<1>6. ASSUME NEW q \in Records, NEW provenance, NEW verification, NEW dev,
             Becomes(p, Verified(q, provenance, verification, dev))
      PROVE  proc'[p].pc # "reported"
  <2>1. Verified(q, provenance, verification, dev).pc = "describing"
    BY DEF Verified, Records
  <2> QED
    BY <1>2, <1>6, <2>1
<1>7. CASE ReadManifest(p)
  <2>1. \A sums : WithSums(r, sums, "hashGate").pc = "hashGate"
    BY DEF WithSums, Records
  <2>2. \/ \E sums : Becomes(p, WithSums(r, sums, "hashGate"))
        \/ \E provenance, verification, dev : Becomes(p, Verified(r, provenance, verification, dev))
    BY <1>1, <1>7, Zenon DEF ReadManifest, WithSums
  <2> QED
    BY <1>2, <1>6, <2>1, <2>2
<1>8. CASE HashGate(p)
  <2>1. \A sawGate : WithGate(r, sawGate, "hashEngine").pc = "hashEngine"
    BY DEF WithGate, Records
  <2>2. Goes(p, "crashed") \/ \E sawGate : Becomes(p, WithGate(r, sawGate, "hashEngine"))
    BY <1>1, <1>8, Zenon DEF HashGate, WithGate
  <2> QED
    BY <1>2, <1>3, <2>1, <2>2
<1>9. CASE HashEngine(p)
  <2>1. PICK q : q = WithEngine(r, disk[r.engine].engine)
    OBVIOUS
  <2>2. \A error : Failing(q, error, "failed").pc = "failed"
    BY <2>1 DEF WithEngine, Failing, Records
  <2>3. \A provenance, verification, dev : Verified(q, provenance, verification, dev).pc = "describing"
    BY <2>1 DEF WithEngine, Verified, Records
  <2>4. \/ Goes(p, "crashed")
        \/ \E error : Becomes(p, Failing(q, error, "failed"))
        \/ \E provenance, verification, dev : Becomes(p, Verified(q, provenance, verification, dev))
    BY <1>1, <1>9, <2>1, Zenon DEF HashEngine, Mismatch, WithEngine, Failing
  <2> QED
    BY <1>2, <1>3, <2>2, <2>3, <2>4
<1>10. CASE Describe(p) \/ PrintVersion(p)
  <2>1. \A version, pc : WithVersion(r, version, pc).pc = pc
    BY DEF WithVersion, Records
  <2>2. \E version, pc : pc # "reported" /\ Becomes(p, WithVersion(r, version, pc))
    BY <1>1, <1>10 DEF Describe, PrintVersion, WithVersion
  <2> QED
    BY <1>2, <2>1, <2>2
<1>11. CASE JudgeSession(p) \/ JudgeSetup(p)
  <2>1. OptedOut(r, "starting").pc = "starting"
    BY DEF OptedOut, Records
  <2>2. \/ Becomes(p, OptedOut(r, "starting"))
        \/ \E pc \in {"crashed", "starting", "refused", "making"} : Goes(p, pc)
    BY <1>1, <1>11, Zenon DEF JudgeSession, JudgeSetup, OptedOut
  <2> QED
    BY <1>2, <1>3, <2>1, <2>2
<1>12. CASE JudgeInstallation(p)
  <2>1. \A ready, pc : Judged(r, ready, pc).pc = pc
    BY DEF Judged, Records
  <2>2. \/ Goes(p, "reporting")
        \/ \E ready : \E pc \in {"starting", "reporting"} : Becomes(p, Judged(r, ready, pc))
    BY <1>1, <1>12, Zenon DEF JudgeInstallation, Judged
  <2> QED
    BY <1>2, <1>3, <2>1, <2>2
<1>13. CASE Start(p)
  <2>1. /\ \A pc : Greeted(r, "FAIL", pc).pc = pc
        /\ \A runs : Running(r, runs, "greeting").pc = "greeting"
    BY DEF Greeted, Running, Records
  <2>2. \/ Becomes(p, Greeted(r, "FAIL", IF Is(p, "doctor") THEN "reporting" ELSE "failed"))
        \/ Goes(p, "crashed")
        \/ \E runs : Becomes(p, Running(r, runs, "greeting"))
    BY <1>1, <1>13, Zenon DEF Start, Greeted, Running
  <2> QED
    BY <1>2, <1>3, <2>1, <2>2
<1>14. CASE Hello(p)
  <2>1. \A verdict, pc : Greeted(r, verdict, pc).pc = pc
    BY DEF Greeted, Records
  <2>2. \/ Goes(p, "crashed")
        \/ \E verdict : Becomes(p, Greeted(r, verdict, IF Is(p, "doctor") THEN "reporting"
                                     ELSE IF verdict = "PASS" THEN "ready" ELSE "failed"))
    BY <1>1, <1>14, Zenon DEF Hello, Greeted
  <2> QED
    BY <1>2, <1>3, <2>1, <2>2
<1>15. CASE MakeHostRoot(p) \/ Provision(p)
  <2>1. \A pc : Moved(r, pc).pc = pc
    BY DEF Moved, Records
  <2>2. \/ Goes(p, "failed")
        \/ \E pc \in {"provisioning", "provisioned", "failed"} : proc' = [proc EXCEPT ![p] = Moved(r, pc)]
    BY <1>1, <1>15 DEF MakeHostRoot, Provision, Moved, Records, IInv, ProcTypes
  <2> QED
    BY <1>3, <2>1, <2>2 DEF IInv, ProcTypes
<1> QED
  BY <1>4, <1>5, <1>7, <1>8, <1>9, <1>10, <1>11, <1>12, <1>13, <1>14, <1>15 DEF Discovers, Uses

(***************************************************************************)
(* A report that passes is made where host data is provisioned.            *)
(***************************************************************************)
LEMMA ReportsSeeTheHost ==
    ASSUME IInv, NEW p \in Processes, Report(p), proc'[p].overall = "PASS"
    PROVE  host = "provisioned"
<1>1. PICK r \in Records : r = proc[p]
  BY InHand
<1>2. PICK writable \in BOOLEAN :
          proc' = [proc EXCEPT ![p] = [proc[p] EXCEPT !.overall = Overall(Checks(proc[p], writable)),
                                                      !.pc = "reported"]]
  BY DEF Report, Becomes
<1>3. PICK overall : overall = Overall(Checks(r, writable))
  OBVIOUS
<1>4. proc'[p] = Reporting(r, overall, "reported")
  BY <1>1, <1>2, <1>3 DEF IInv, ProcTypes, Reporting
<1>5. proc'[p].overall = overall
  BY <1>4 DEF Reporting, Records
<1> QED
  BY <1>3, <1>5, ReportsAreHonest

(***************************************************************************)
(* A step of one process keeps the invariant.                              *)
(***************************************************************************)
LEMMA ProcessSteps ==
    ASSUME IInv, NEW p \in Processes, Discovers(p) \/ Uses(p)
    PROVE  IInv'
<1>1. GoesOnSoundly(p)
  BY DiscoveryIsSound, UsesAreSound
<1>2. PICK q \in Records : /\ proc' = [proc EXCEPT ![p] = q]
                           /\ q.pc # "idle" /\ LocalInv(q)
                           /\ p \notin touched => SightInv(q, disk, env)
  BY <1>1 DEF GoesOnSoundly
<1>3. disk' = disk /\ env' = env /\ touched' = touched /\ acq' = acq /\ changes' = changes
      /\ acquires' = acquires /\ host' \in HostStates /\ (host = "provisioned" => host' = "provisioned")
  BY ProcessesLeaveTheWorld
<1>4. proc \in [Processes -> Records]
  BY DEF IInv, ProcTypes
<1>5. proc' \in [Processes -> Records] /\ proc'[p] = q
      /\ \A other \in Processes \ {p} : proc'[other] = proc[other]
  BY <1>2, <1>4
<1>6. WorldTypes'
  BY <1>3 DEF IInv, WorldTypes
<1>7. ConclusionInv'
  <2>1. \A other \in Processes : LocalInv(proc'[other])
    BY <1>2, <1>5 DEF IInv, ConclusionInv
  <2> QED
    BY <2>1 DEF ConclusionInv
<1>8. IdleInv'
  BY <1>2, <1>5 DEF IInv, IdleInv
<1>9. AcquireInv'
  BY <1>3 DEF IInv, AcquireInv
<1>10. SameSightInv'
  <2>1. \A other \in Processes \ touched : proc'[other].pc # "idle" => SightInv(proc'[other], disk, env)
    BY <1>2, <1>5 DEF IInv, SameSightInv
  <2> QED
    BY <1>3, <2>1 DEF SameSightInv
<1>11. HostInv'
  <2>1. q.overall = "PASS" => host = "provisioned"
    <3>1. CASE Report(p)
      BY <1>5, <3>1, ReportsSeeTheHost
    <3>2. CASE ~Report(p)
      BY <1>2, <1>5, <3>2, OnlyDoctorReports, NoneAssumption DEF LocalInv, OrderInv
    <3> QED
      BY <3>1, <3>2
  <2>2. \A other \in Processes : proc'[other].overall = "PASS" => host = "provisioned"
    BY <1>5, <2>1 DEF IInv, HostInv
  <2> QED
    BY <1>3, <2>2 DEF HostInv
<1> QED
  BY <1>5, <1>6, <1>7, <1>8, <1>9, <1>10, <1>11 DEF IInv, ProcTypes

(***************************************************************************)
(* A step that touches all who have looked, or changes nothing they look   *)
(* at, and leaves the processes alone, keeps the invariant.                *)
(***************************************************************************)
LEMMA WorldSteps ==
    ASSUME IInv, proc' = proc, host' = host, WorldTypes', AcquireInv',
           Touch \/ (touched' = touched /\ disk' = disk /\ env' = env)
    PROVE  IInv'
<1>1. ProcTypes' /\ ConclusionInv' /\ IdleInv' /\ HostInv'
  BY DEF IInv, ProcTypes, ConclusionInv, IdleInv, HostInv
<1>2. SameSightInv'
  <2>1. CASE Touch
    <3>1. \A p \in Processes \ touched' : proc[p].pc = "idle"
      BY <2>1 DEF Touch, At
    <3> QED
      BY <3>1 DEF SameSightInv
  <2>2. CASE touched' = touched /\ disk' = disk /\ env' = env
    BY <2>2 DEF IInv, SameSightInv
  <2> QED
    BY <2>1, <2>2
<1> QED
  BY <1>1, <1>2 DEF IInv

(***************************************************************************)
(* One file is replaced by another of its kind: the disk keeps its type.   *)
(***************************************************************************)
LEMMA FilesAreReplaced ==
    ASSUME disk \in [Places -> Files], NEW place \in Places, NEW part \in Parts,
           NEW content \in (IF part = "sums" THEN Releases ELSE Builds) \cup {None},
           disk' = [disk EXCEPT ![place][part] = content]
    PROVE  disk' \in [Places -> Files]
<1>1. PICK files \in Files : files = disk[place]
  OBVIOUS
<1>2. [files EXCEPT ![part] = content] \in Files
  <2>1. CASE part = "gate"
    BY <2>1 DEF Files
  <2>2. CASE part = "engine"
    BY <2>2 DEF Files
  <2>3. CASE part = "sums"
    BY <2>3 DEF Files
  <2> QED
    BY <2>1, <2>2, <2>3 DEF Parts
<1>3. disk' = [disk EXCEPT ![place] = [files EXCEPT ![part] = content]]
  BY <1>1
<1> QED
  BY <1>2, <1>3

(***************************************************************************)
(* Whoever leaves the acquisition in progress does not change the world.   *)
(***************************************************************************)
LEMMA AcquireGoesQuietly ==
    ASSUME IInv, NEW place, AcquireGoes(place), AcquireInv'
    PROVE  IInv'
<1>1. proc' = proc /\ touched' = touched /\ disk' = disk /\ env' = env
      /\ host' = host /\ changes' = changes /\ acquires' = acquires
  BY DEF AcquireGoes
<1>2. WorldTypes'
  BY <1>1 DEF IInv, WorldTypes
<1> QED
  BY <1>1, <1>2, WorldSteps

(***************************************************************************)
(* Acquiring a release keeps the invariant.                                *)
(***************************************************************************)
LEMMA AcquireSteps ==
    ASSUME IInv, Acquires
    PROVE  IInv'
<1>1. WorldTypes /\ AcquireInv
  BY DEF IInv
<1>2. \A part \in Parts : Locked \in (IF part = "sums" THEN Releases ELSE Builds) \cup {None}
                          /\ None \in (IF part = "sums" THEN Releases ELSE Builds) \cup {None}
  BY ConstantsAssumption DEF Builds
<1>3. Bundle \in Places
  BY ConstantsAssumption
<1>4. CASE BeginAcquire
  <2>1. proc' = proc /\ touched' = touched /\ disk' = disk /\ env' = env /\ host' = host
        /\ changes' = changes /\ acquires' = acquires + 1 /\ acquires < MaxAcquires
    BY <1>4 DEF BeginAcquire
  <2>2. WorldTypes'
    BY <1>1, <2>1, ConstantsAssumption DEF WorldTypes
  <2>3. AcquireInv'
    BY <1>4 DEF BeginAcquire, Idle, AcquireInv
  <2> QED
    BY <2>1, <2>2, <2>3, WorldSteps
<1>5. CASE CheckArchive
  <2>1. PICK place \in {"checkManifest", "failed"} :
            AcquireGoes(place) /\ (place = "checkManifest" => acq.archive = "locked")
    BY <1>5 DEF CheckArchive
  <2>2. AcquireInv'
    BY <1>1, <2>1 DEF AcquireGoes, AcquireInv, Idle
  <2> QED
    BY <2>1, <2>2, AcquireGoesQuietly
<1>6. CASE CheckManifest
  <2>1. PICK place \in {"removing", "failed"} :
            AcquireGoes(place) /\ (place = "removing" => acq.archive = "locked" /\ acq.manifest = "locked")
    BY <1>1, <1>6 DEF CheckManifest, AcquireInv
  <2>2. AcquireInv'
    BY <1>1, <2>1 DEF AcquireGoes, AcquireInv, Idle
  <2> QED
    BY <2>1, <2>2, AcquireGoesQuietly
<1>7. CASE RemoveOld
  <2>1. CASE \E part \in Parts : Has(disk, Bundle, part) /\ Rewrites(part, None) /\ Touch
               /\ UNCHANGED <<env, proc, host, acq, changes, acquires>>
    <3>1. PICK part \in Parts : disk' = [disk EXCEPT ![Bundle][part] = None]
      BY <2>1 DEF Rewrites
    <3>2. disk' \in [Places -> Files]
      BY <1>1, <1>2, <1>3, <3>1, FilesAreReplaced DEF WorldTypes
    <3>3. Touch /\ UNCHANGED <<env, proc, host, acq, changes, acquires>>
      BY <2>1
    <3>4. WorldTypes'
      BY <1>1, <3>2, <3>3 DEF WorldTypes, Touch
    <3>5. AcquireInv'
      BY <1>1, <3>3 DEF AcquireInv
    <3> QED
      BY <3>3, <3>4, <3>5, WorldSteps
  <2>2. CASE AcquireGoes("extracting")
    <3>1. AcquireInv'
      BY <1>1, <1>7, <2>2 DEF RemoveOld, AcquireGoes, AcquireInv
    <3> QED
      BY <2>2, <3>1, AcquireGoesQuietly
  <2> QED
    BY <1>7, <2>1, <2>2 DEF RemoveOld
<1>8. CASE Extract
  <2>1. CASE \E part \in acq.left : Rewrites(part, Locked) /\ acq' = [acq EXCEPT !.left = @ \ {part}]
               /\ Touch /\ UNCHANGED <<env, proc, host, changes, acquires>>
    <3>1. PICK part \in acq.left :
              /\ disk' = [disk EXCEPT ![Bundle][part] = Locked]
              /\ acq' = [acq EXCEPT !.left = @ \ {part}]
      BY <2>1 DEF Rewrites
    <3>2. part \in Parts
      BY <1>1 DEF AcquireInv
    <3>3. disk' \in [Places -> Files]
      BY <1>1, <1>2, <1>3, <3>1, <3>2, FilesAreReplaced DEF WorldTypes
    <3>4. Touch /\ UNCHANGED <<env, proc, host, changes, acquires>>
      BY <2>1
    <3>5. WorldTypes'
      BY <1>1, <3>3, <3>4 DEF WorldTypes, Touch
    <3>6. AcquireInv'
      BY <1>1, <3>1 DEF AcquireInv
    <3> QED
      BY <3>4, <3>5, <3>6, WorldSteps
  <2>2. CASE AcquireGoes("verifying")
    <3>1. AcquireInv'
      BY <1>1, <1>8, <2>2 DEF Extract, AcquireGoes, AcquireInv
    <3> QED
      BY <2>2, <3>1, AcquireGoesQuietly
  <2> QED
    BY <1>8, <2>1, <2>2 DEF Extract
<1>9. CASE VerifyBundle
  <2>1. PICK place \in {"failed", "verifyingAgain", "announcing"} : AcquireGoes(place)
    BY <1>9 DEF VerifyBundle
  <2>2. AcquireInv'
    BY <1>1, <1>9, <2>1 DEF VerifyBundle, AcquireGoes, AcquireInv, Idle
  <2> QED
    BY <2>1, <2>2, AcquireGoesQuietly
<1>10. CASE Announce
  <2>1. Touch /\ UNCHANGED <<disk, proc, host, changes, acquires>> /\ acq' = Idle
    BY <1>10 DEF Announce
  <2>2. env' \in Environment
    BY <1>1, <1>3, <1>10 DEF Announce, WorldTypes, Environment
  <2>3. WorldTypes'
    BY <1>1, <2>1, <2>2 DEF WorldTypes, Touch
  <2>4. AcquireInv'
    BY <2>1 DEF AcquireInv, Idle
  <2> QED
    BY <2>1, <2>3, <2>4, WorldSteps
<1>11. CASE AcquireBreaks
  <2>1. AcquireGoes("failed")
    BY <1>11 DEF AcquireBreaks
  <2>2. AcquireInv'
    BY <2>1 DEF AcquireGoes, AcquireInv, Idle
  <2> QED
    BY <2>1, <2>2, AcquireGoesQuietly
<1> QED
  BY <1>4, <1>5, <1>6, <1>7, <1>8, <1>9, <1>10, <1>11 DEF Acquires

(***************************************************************************)
(* Whoever has looked does not count as undisturbed once somebody replaced *)
(* a file.                                                                 *)
(***************************************************************************)
LEMMA ChangeSteps ==
    ASSUME IInv, SomebodyChanges
    PROVE  IInv'
<1>1. WorldTypes /\ AcquireInv
  BY DEF IInv
<1>2. Touch /\ UNCHANGED <<env, proc, host, acq, acquires>> /\ changes < MaxChanges /\ changes' = changes + 1
  BY DEF SomebodyChanges
<1>3. disk' \in [Places -> Files]
  <2>1. PICK place \in Changing, part \in Parts :
            \E content \in (IF part = "sums" THEN Releases ELSE Builds) \cup {None} :
               disk' = [disk EXCEPT ![place][part] = content]
    BY DEF SomebodyChanges
  <2>2. place \in Places
    BY ConstantsAssumption
  <2> QED
    BY <1>1, <2>1, <2>2, FilesAreReplaced DEF WorldTypes
<1>4. WorldTypes'
  BY <1>1, <1>2, <1>3, ConstantsAssumption DEF WorldTypes, Touch
<1>5. AcquireInv'
  BY <1>1, <1>2 DEF AcquireInv
<1> QED
  BY <1>2, <1>4, <1>5, WorldSteps

(***************************************************************************)
(* However the system starts, no process has concluded anything.           *)
(***************************************************************************)
LEMMA FreshIsSound ==
    ASSUME NEW role \in Roles
    PROVE  Fresh(role) \in Records /\ LocalInv(Fresh(role)) /\ Fresh(role).pc = "idle"
           /\ Fresh(role).error = None /\ Fresh(role).overall # "PASS"
<1>1. Fresh(role) \in Records
  BY DEF Fresh, Records, Errors, Statuses, ProcPCs, Ends, Versions
<1>2. LocalInv(Fresh(role))
  BY NoneAssumption DEF Fresh, LocalInv, PlaceInv, OrderInv, FoundInv, ReadInv, JudgedInv, SpokenInv
<1> QED
  BY <1>1, <1>2, NoneAssumption DEF Fresh

(***************************************************************************)
(* The invariant holds when the system starts.                             *)
(***************************************************************************)
LEMMA InitIsSound ==
    ASSUME Init
    PROVE  IInv
<1>1. PICK s \in Situations : /\ disk = s.disk /\ env = s.env /\ host = s.host
                              /\ proc = [p \in Processes |-> Fresh(s.role[p])]
  BY DEF Init
<1>2. s \in Situation
  BY ConstantsAssumption
<1>3. /\ s.role \in [Processes -> Roles]
      /\ disk \in [Places -> Files] /\ env \in Environment /\ host \in HostStates
  BY <1>1, <1>2 DEF Situation
<1>4. \A p \in Processes : /\ proc[p] \in Records /\ LocalInv(proc[p])
                           /\ proc[p].pc = "idle" /\ proc[p].error = None
                           /\ proc[p].overall # "PASS"
  BY <1>1, <1>3, FreshIsSound
<1>5. WorldTypes
  BY <1>3, ConstantsAssumption DEF Init, WorldTypes
<1>6. ProcTypes
  BY <1>1, <1>4 DEF ProcTypes
<1>7. ConclusionInv /\ IdleInv /\ SameSightInv /\ HostInv
  BY <1>4 DEF ConclusionInv, IdleInv, SameSightInv, HostInv
<1>8. AcquireInv
  BY DEF Init, AcquireInv, Idle
<1> QED
  BY <1>5, <1>6, <1>7, <1>8 DEF IInv

(***************************************************************************)
(* Every step keeps the invariant.                                         *)
(***************************************************************************)
LEMMA NextIsSound ==
    ASSUME IInv, [Next]_vars
    PROVE  IInv'
<1>1. CASE \E p \in Processes : Discovers(p) \/ Uses(p)
  BY <1>1, ProcessSteps
<1>2. CASE Acquires
  BY <1>2, AcquireSteps
<1>3. CASE SomebodyChanges
  BY <1>3, ChangeSteps
<1>4. CASE UNCHANGED vars
  BY <1>4 DEF vars, IInv, WorldTypes, ProcTypes, ConclusionInv, IdleInv, AcquireInv, SameSightInv,
                    HostInv
<1> QED
  BY <1>1, <1>2, <1>3, <1>4 DEF Next

-----------------------------------------------------------------------------
(***************************************************************************)
(* At every moment, what each process has concluded follows from what it   *)
(* has read, and what an undisturbed one has read is there.                *)
(***************************************************************************)
THEOREM Invariance == Spec => []IInv
<1> QED
  BY InitIsSound, NextIsSound, PTL DEF Spec

(***************************************************************************)
(* Every variable holds a value of its kind, whatever the constants are.   *)
(***************************************************************************)
THEOREM TypeCorrect == Spec => []TypeOK
<1>1. ASSUME IInv PROVE TypeOK
  <2>1. WorldTypes /\ \A p \in Processes : proc[p] \in Records
    BY <1>1 DEF IInv, ProcTypes
  <2>2. \A r \in Records :
            /\ r.pc \in ProcPCs /\ r.role \in Roles /\ r.version \in Versions
            /\ r.overall \in {None, "FAIL", "UNSUPPORTED", "UNAVAILABLE", "PASS"}
            /\ r.gate \in Places \cup {None} /\ r.engine \in Places \cup {None}
    BY DEF Records, Statuses
  <2> QED
    BY <2>1, <2>2 DEF WorldTypes, TypeOK
<1> QED
  BY Invariance, <1>1, PTL

(***************************************************************************)
(* What a production session goes on with was, when it was hashed, one     *)
(* published pair: whatever was replaced between the three reads, and      *)
(* whatever the environment overrides.                                     *)
(***************************************************************************)
THEOREM TrustedIsOneReleaseAlways == Spec => []TrustedIsOneRelease
<1>1. ASSUME IInv, NEW p \in Processes, Trusted(p)
      PROVE  /\ proc[p].source # "dev_source_checkout"
             /\ proc[p].sawGate \in Releases
             /\ proc[p].sawEngine = proc[p].sawGate
  <2>1. PICK r \in Records : r = proc[p] /\ LocalInv(r)
    BY <1>1, InHand
  <2>2. r.pc \in {"starting", "greeting", "ready"} /\ ~r.development
    BY <1>1, <2>1 DEF Trusted
  <2>3. ValidateInstallation(r)
    BY <2>1, <2>2 DEF LocalInv, PlaceInv, JudgedInv
  <2> QED
    BY <2>1, <2>3 DEF LocalInv, ReadInv, ValidateInstallation
<1>2. IInv => TrustedIsOneRelease
  BY <1>1 DEF TrustedIsOneRelease
<1> QED
  BY Invariance, <1>2, PTL

(***************************************************************************)
(* A production session past hello talks to a Gate whose own version is    *)
(* supported, also when the binary was replaced after it was verified.     *)
(***************************************************************************)
THEOREM AuthoritySpeaksSupportedAlways == Spec => []AuthoritySpeaksSupported
<1>1. ASSUME IInv, NEW p \in Processes, At(p, "ready"), ~proc[p].development
      PROVE  Spoken[proc[p].runs[1]] \in Supported
  <2>1. PICK r \in Records : r = proc[p] /\ LocalInv(r)
    BY <1>1, InHand
  <2>2. ValidateInstallation(r) /\ HelloVerdict(r) = "PASS"
    BY <1>1, <2>1 DEF At, LocalInv, PlaceInv, JudgedInv, SpokenInv
  <2>3. r.version \in Supported /\ r.version # None
    BY <2>2, ConstantsAssumption DEF ValidateInstallation
  <2> QED
    BY <2>1, <2>2, <2>3 DEF HelloVerdict
<1>2. IInv => AuthoritySpeaksSupported
  BY <1>1 DEF AuthoritySpeaksSupported
<1> QED
  BY Invariance, <1>2, PTL

(***************************************************************************)
(* A production session past hello runs what was verified, unless the      *)
(* installation changed under it.                                          *)
(***************************************************************************)
THEOREM AuthorityIsVerifiedAlways == Spec => []AuthorityIsVerified
<1>1. ASSUME IInv, NEW p \in Processes, At(p, "ready"), ~proc[p].development, p \notin touched
      PROVE  proc[p].runs = <<proc[p].sums, proc[p].sums>>
  <2>1. PICK r \in Records, d \in [Places -> Files], e \in Environment :
            r = proc[p] /\ d = disk /\ e = env /\ LocalInv(r) /\ SightInv(r, d, e)
    <3>1. proc[p].pc # "idle"
      BY <1>1 DEF At
    <3> QED
      BY <1>1, <3>1, InHand
  <2>2. r.pc = "ready" /\ ValidateInstallation(r)
    BY <1>1, <2>1 DEF At, LocalInv, PlaceInv, JudgedInv
  <2>3. r.verification = "verified" /\ r.gate \in Places /\ r.engine = r.gate
    BY <2>1, <2>2 DEF ValidateInstallation, LocalInv, ReadInv
  <2>4. Agrees(r, d) /\ r.sums = d[r.gate].sums
    BY <2>1, <2>3 DEF SightInv, DigestsInv
  <2>5. r.runs # <<None, None>>
    <3>1. r.runs \in Builds \X (Builds \cup {None})
      BY <2>1, <2>2 DEF LocalInv, SpokenInv
    <3> QED
      BY <3>1, ConstantsAssumption
  <2>6. r.runs = <<d[r.gate].gate, d[r.engine].engine>>
    BY <2>1, <2>5 DEF SightInv, BinariesInv
  <2> QED
    BY <2>1, <2>3, <2>4, <2>6 DEF Agrees
<1>2. IInv => AuthorityIsVerified
  BY <1>1 DEF AuthorityIsVerified
<1> QED
  BY Invariance, <1>2, PTL

(***************************************************************************)
(* An acquisition that does not hold the locked archive and the locked     *)
(* manifest leaves the bundle that is there alone.                         *)
(***************************************************************************)
THEOREM BundleOutlivesRefusalsAlways == Spec => BundleOutlivesRefusals
<1>1. ASSUME IInv, [Next]_vars, disk'[Bundle] # disk[Bundle], changes' = changes
      PROVE  acq.archive = "locked" /\ acq.manifest = "locked"
  <2>1. CASE \E p \in Processes : Discovers(p) \/ Uses(p)
    BY <1>1, <2>1, ProcessesLeaveTheWorld
  <2>2. CASE SomebodyChanges
    BY <1>1, <2>2 DEF SomebodyChanges, IInv, WorldTypes
  <2>3. CASE Acquires
    <3>1. acq.pc \in {"removing", "extracting"}
      BY <1>1, <2>3 DEF Acquires, BeginAcquire, CheckArchive, CheckManifest, RemoveOld, Extract,
                        VerifyBundle, Announce, AcquireBreaks, AcquireGoes
    <3> QED
      BY <1>1, <3>1 DEF IInv, AcquireInv
  <2>4. CASE UNCHANGED vars
    BY <1>1, <2>4 DEF vars
  <2> QED
    BY <1>1, <2>1, <2>2, <2>3, <2>4 DEF Next
<1>2. IInv /\ [Next]_vars =>
        [disk'[Bundle] # disk[Bundle] /\ changes' = changes => acq.archive = "locked" /\ acq.manifest = "locked"]_vars
  BY <1>1
<1> QED
  BY Invariance, <1>2, PTL DEF Spec, BundleOutlivesRefusals

-----------------------------------------------------------------------------
(***************************************************************************)
(* Doctor and sessions.                                                    *)
(***************************************************************************)

(***************************************************************************)
(* Two undisturbed processes that found an installation found the same     *)
(* one, and verified it alike.                                             *)
(***************************************************************************)
LEMMA SameInstallation ==
    ASSUME NEW q \in Records, NEW r \in Records,
           NEW d \in [Places -> Files], NEW e \in Environment,
           LocalInv(q), LocalInv(r), SightInv(q, d, e), SightInv(r, d, e),
           q.gate # None, r.gate # None
    PROVE  /\ q.gate = r.gate /\ q.engine = r.engine /\ q.source = r.source
           /\ Agrees(q, d) <=> Agrees(r, d)
           /\ q.verification = "verified" => Agrees(r, d)
           /\ q.verification = "verified" /\ r.verification # "unknown" =>
                 r.verification = "verified" /\ r.provenance = "release_manifest" /\ ~r.dev
<1>1. q.gate = r.gate /\ q.engine = r.engine /\ q.source = r.source
  BY DEF SightInv, PathsInv
<1>2. Agrees(q, d) <=> Agrees(r, d)
  BY <1>1 DEF Agrees
<1>3. q.verification = "verified" => Agrees(r, d)
  BY <1>2 DEF SightInv, DigestsInv
<1>4. r.verification # "unknown" /\ Agrees(r, d) =>
          r.verification = "verified" /\ r.provenance = "release_manifest" /\ ~r.dev
  BY DEF SightInv, DigestsInv
<1> QED
  BY <1>1, <1>2, <1>3, <1>4

(***************************************************************************)
(* Doctor says ready: a session that saw the same found no error, and does *)
(* not refuse if it was given the same version.                            *)
(***************************************************************************)
LEMMA ReadyIsNotRefused ==
    ASSUME NEW q \in Records, NEW r \in Records,
           NEW d \in [Places -> Files], NEW e \in Environment,
           LocalInv(q), LocalInv(r), SightInv(q, d, e), SightInv(r, d, e),
           q.role = "doctor", r.role = "session", q.ready = "PASS"
    PROVE  /\ r.error = None
           /\ q.version = r.version => r.pc # "refused"
<1>1. ValidateInstallation(q)
  BY DEF LocalInv, JudgedInv
<1>2. q.verification = "verified" /\ q.version \in Supported
      /\ q.source # "dev_source_checkout"
  BY <1>1, ConstantsAssumption DEF ValidateInstallation
<1>3. q.gate \in Places /\ q.gate # None /\ q.engine # None
  BY <1>2, ConstantsAssumption DEF LocalInv, ReadInv
<1>4. r.gate # None
  BY <1>3 DEF SightInv, PathsInv
<1>5. r.error = None
  <2>1. r.error # "manifest_mismatch"
    BY <1>2, <1>3, <1>4, SameInstallation DEF SightInv, DigestsInv
  <2> QED
    BY <1>4, <2>1 DEF SightInv, ErrorInv
<1>6. ASSUME q.version = r.version, r.pc = "refused" PROVE FALSE
  <2>1. ~ValidateInstallation(r) /\ r.verification # "unknown"
    BY <1>6 DEF SightInv, EndsInv
  <2>2. r.verification = "verified" /\ r.provenance = "release_manifest" /\ ~r.dev /\ r.source = q.source
    BY <1>2, <1>3, <1>4, <2>1, SameInstallation
  <2> QED
    BY <1>2, <1>6, <2>1, <2>2 DEF ValidateInstallation
<1> QED
  BY <1>5, <1>6

(***************************************************************************)
(* Doctor says not ready: it is the authority of no session that saw the   *)
(* same and was given the same version.                                    *)
(***************************************************************************)
LEMMA NotReadyIsNotTrusted ==
    ASSUME NEW q \in Records, NEW r \in Records,
           NEW d \in [Places -> Files], NEW e \in Environment,
           LocalInv(q), LocalInv(r), SightInv(q, d, e), SightInv(r, d, e),
           q.role = "doctor", q.ready = "FAIL", q.version = r.version
    PROVE  ~ValidateInstallation(r)
<1>1. SUFFICES ASSUME ValidateInstallation(r) PROVE FALSE
  OBVIOUS
<1>2. r.verification = "verified" /\ r.version \in Supported /\ q.version # None
      /\ r.source # "dev_source_checkout"
  BY <1>1, ConstantsAssumption DEF ValidateInstallation
<1>3. r.gate \in Places /\ r.gate # None
  BY <1>2, ConstantsAssumption DEF LocalInv, ReadInv
<1>4. q.gate # None
  BY <1>2 DEF SightInv, BinariesInv
<1>5. q.gate = r.gate /\ q.source = r.source
  BY <1>3, <1>4, SameInstallation
<1>6. ~ValidateInstallation(q) /\ q.verification # "unknown"
  BY DEF SightInv, EndsInv
<1>7. q.verification = "verified" /\ q.provenance = "release_manifest" /\ ~q.dev
  BY <1>2, <1>3, <1>4, <1>6, SameInstallation
<1> QED
  BY <1>2, <1>5, <1>6, <1>7 DEF ValidateInstallation

(***************************************************************************)
(* Doctor and a session that saw the same installation, and were given the *)
(* same version, come to the same answer.                                  *)
(***************************************************************************)
THEOREM DoctorAgreesAlways == Spec => []DoctorAgrees
<1>1. ASSUME IInv, NEW d \in Processes \ touched, NEW s \in Processes \ touched,
             Is(d, "doctor"), At(d, "reported"), Is(s, "session")
      PROVE  /\ proc[d].ready = "PASS" => proc[s].error = None
             /\ proc[d].version = proc[s].version =>
                   /\ proc[d].ready = "PASS" => ~At(s, "refused")
                   /\ proc[d].ready = "FAIL" => ~Trusted(s)
  <2>1. PICK q \in Records, r \in Records, files \in [Places -> Files], e \in Environment :
            /\ q = proc[d] /\ r = proc[s] /\ files = disk /\ e = env
            /\ LocalInv(q) /\ LocalInv(r) /\ SightInv(q, files, e)
            /\ r.pc # "idle" => SightInv(r, files, e)
    <3>1. proc[d].pc # "idle"
      BY <1>1 DEF At
    <3> QED
      BY <1>1, <3>1, InHand
  <2>2. q.role = "doctor" /\ r.role = "session"
    BY <1>1, <2>1 DEF Is
  <2>3. CASE r.pc = "idle"
    <3>1. proc[s].error = None
      BY <1>1, <2>1, <2>3 DEF IInv, IdleInv
    <3> QED
      BY <2>1, <2>3, <3>1 DEF At, Trusted
  <2>4. CASE r.pc # "idle"
    <3>1. SightInv(r, files, e)
      BY <2>1, <2>4
    <3>2. q.ready = "PASS" => r.error = None /\ (q.version = r.version => r.pc # "refused")
      BY <1>1, <2>1, <2>2, <3>1, ReadyIsNotRefused
    <3>3. q.ready = "FAIL" /\ q.version = r.version => ~ValidateInstallation(r)
      BY <1>1, <2>1, <2>2, <3>1, NotReadyIsNotTrusted
    <3>4. Trusted(s) => ValidateInstallation(r)
      BY <2>1, <2>2 DEF Trusted, LocalInv, JudgedInv
    <3> QED
      BY <2>1, <3>2, <3>3, <3>4 DEF At
  <2> QED
    BY <2>3, <2>4
<1>2. IInv => DoctorAgrees
  BY <1>1 DEF DoctorAgrees
<1> QED
  BY Invariance, <1>2, PTL

(***************************************************************************)
(* What doctor passes altogether was one published pair when it looked,    *)
(* has spoken as a supported version, and has provisioned host data.       *)
(***************************************************************************)
THEOREM PassIsEarnedAlways == Spec => []PassIsEarned
<1>1. ASSUME IInv, NEW p \in Processes, proc[p].overall = "PASS"
      PROVE  /\ proc[p].sawGate \in Releases
             /\ proc[p].sawEngine = proc[p].sawGate
             /\ proc[p].runs[1] \in Builds /\ Spoken[proc[p].runs[1]] \in Supported
             /\ host = "provisioned"
  <2>1. PICK r \in Records : r = proc[p] /\ LocalInv(r)
    BY <1>1, InHand
  <2>2. ValidateInstallation(r) /\ HelloVerdict(r) = "PASS"
    BY <1>1, <2>1 DEF LocalInv, JudgedInv, SpokenInv
  <2>3. r.version \in Supported /\ r.version # None
    BY <2>2, ConstantsAssumption DEF ValidateInstallation
  <2>4. r.runs[1] \in Builds /\ Spoken[r.runs[1]] \in Supported
    BY <1>1, <2>1, <2>2, <2>3 DEF HelloVerdict, LocalInv, SpokenInv
  <2>5. r.sawGate \in Releases /\ r.sawEngine = r.sawGate
    BY <2>1, <2>2 DEF ValidateInstallation, LocalInv, ReadInv
  <2>6. host = "provisioned"
    BY <1>1 DEF IInv, HostInv
  <2> QED
    BY <2>1, <2>4, <2>5, <2>6
<1>2. IInv => PassIsEarned
  BY <1>1 DEF PassIsEarned
<1> QED
  BY Invariance, <1>2, PTL
=============================================================================
