# Permission Slip: TLA+ models, checks and proofs

Permission Slip (`permission_slip/`) stands between an untrusted worker and the
physical world. An operation the worker asks for is *normalized* into an action
with facts the host established itself, the external Tethers Gate decides on it
(PREPARE, approval, COMMIT), an executor performs it, and the outcome is
reported back. What the Gate enforces is compiled from a *doctrine*, a document
adopted explicitly into a store shared by processes. Every attempt leaves a
trace.

These modules model the parts where order, failure and concurrency decide
whether that works. Everything is checked with TLC on small instances. The
theorems in the `*_proofs` modules hold for every value of the constants, and
among them is every safety property the passing runs check.

## Inventory

| Part (source) | State | Operations | What is hard | What makes it correct |
|---|---|---|---|---|
| adoption lock (`adoption_lock.py`) | who holds the kernel lock | open, try, poll, time out, unlock, close | deaths, swallowed unlock errors, non-contention errnos | exclusion; never stranded; every adopter ends |
| doctrine store (`doctrine_store.py`, `__main__.py`) | `active.json`, one file per candidate, temp files | import, adopt, load | processes that do not share the lock, deaths between file operations, damage by hand | the pointer is a compare-and-swap register; the active doctrine verifies |
| Gate session (`tethers_client.py`) | request counter, response queue, the process | start, hello, request, close | late, damaged and missing answers, end of stream | an answer is attributed to its own request or to none |
| orchestration (`spike.py`, `explanations.py`, `executor.py`) | the run in progress, the session | run, approve, revalidate, commit, report | faults at every request, drifting context, mutated input, interrupts | effects only under a dispatch of exactly that action; honest receipts |
| host executor (`host_executor.py`, `host_context.py`) | the repository and its remotes | tests, edit, push, merge | check-then-act on files and refs others change, replacements that fail half-way, subprocess timeouts | an effect hits what was admitted, or it was raced after the comparison; an edit is all or nothing; a refusal is clean |
| flight recorder (`observability.py`) | run directories, the broken flag | start, emit, finish, retention, inspect | failing writes, deaths, sessions sharing one directory | a writable recorder has its trace; retention keeps what matters |
| normalization (`actions.py`) | none | parse and bind an operation | Git's argument and refspec rules | standing authority only for one plain update; the action says what the operation would do |
| installation trust, doctor (`tethers_install.py`, `doctor.py`, `state.py`) | environment, release manifest, binaries | discover, verify, judge, start, diagnose, provision | files replaced between any two looks; two paths to one answer | production authority is one published, supported pair; one verdict from one view; PASS is earned |
| doctrine documents (`doctrine_contract.py`, `doctrine_diff.py`, `doctrine_export.py`, `doctrine.py`) | none; documents pass through files, the store and people | validate, migrate, export, import, diff, compile | chains of migrations; edits between a review and the adoption it leads to | the store holds valid documents; every field that moved is named; what is adopted was reviewed |
| release acquisition (`scripts/tethers_release.py`) | download directory, bundle | fetch, compare, replace, verify, announce | failure between steps, readers of the bundle below | a refusal leaves the old bundle alone |
| scripts, bootstrap, CI | none of their own | drive the above | linear | - |

How they interact: the orchestration owns one Gate session, one recorder and one
executor and calls them synchronously; the executor looks at the recorder's
broken flag; the Gate is another process behind two pipes. Processes meet only
in the file system: the doctrine store (with a lock), the run directories, the
checkout and the installed bundle (without one).

## Modules

| Module | Models | Used by |
|---|---|---|
| `AdoptionLock` | the lock protocol of `adoption_lock.py`, one adopter per call | `DoctrineStore` |
| `AtomicDoctrine` | abstract: adoption as an atomic compare-and-swap register | refined by `DoctrineStore` |
| `DoctrineStore` | adopters, importers and loaders over one store | `MCDoctrineStore`, `DoctrineStore_proofs` |
| `GateSession` | the host's end of the pipe: ids, queue, timeouts, end of stream | `TethersGate` |
| `TethersGate` | the external Gate, as the host relies on it | `PermissionSlip` |
| `PermissionSlip` | runs of one session from start to the written record | `MCPermissionSlip`, `PermissionSlip_proofs` |
| `FlightRecorder` | recorders of several sessions and the retention pass | `MCFlightRecorder`, `FlightRecorder_proofs` |
| `HostEffects` | normalization's facts, their revalidation, comparison and the effects, in a world others change | `MCHostEffects`, `HostEffects_proofs` |
| `Normalization` | `git push` in `actions.py` as functions, and what git makes of the same command | `MCNormalization`, `Normalization_proofs` |
| `InstallTrust` | discovery, verification and use of an installation, doctor, setup and `acquire` | `MCInstallTrust`, `InstallTrust_proofs` |
| `DoctrineChange` | documents: contract, migration, export, import, diff, adoption | `MCDoctrineChange`, `DoctrineChange_proofs` |

An operator marked `faulty` is a plausible bug in the definition that follows it.
No specification uses one; putting it in place of the real definition makes TLC
report the property that guards against it (`mutants` in `PROJECT.json`).

### AdoptionLock and DoctrineStore

`pc[a]` is the place of an adopter in `adopt()`: `opening`, `trying`,
`contended`, then the critical section `reading`, `verifying`, `writing`,
`replacing`, then `unlocking`, `closing`. Each file operation is one action;
`CriticalSectionRaises` is any exception inside the block: one that `adopt()` turns
into `not_ready`, or an interrupt, which the command does not catch and which ends
it without a report (`interrupted`). `AdopterKilled` is a death anywhere, after
which the kernel has closed the descriptor. The
deadline of an adopter is a nondeterministic step after contention; the command
has none (`patient`). A file is `absent`, `good` or `bad` ("present, but its
recomputed digest differs or it does not parse"): the bytes are abstracted to
that. Importers and loaders are one process each, with the check and the write
of `import_export` and the two reads of `load_active_doctrine` as separate
steps. `Tamper` is damage done by hand. `_cmd_adopt` reads the previous digest
before it calls `adopt()`; that read is the action `BeginCommand`. Not modelled:
`os.close` or `_unlock` raising after the pointer moved, and a full disk that
makes `os.replace` succeed and the process report a failure.

### GateSession, TethersGate, PermissionSlip

The session is two queues. `Request` takes the next id and appends a frame;
every request then reads one line: `Answered` (it echoes the id), `Unusable`
(consumed and refused) or `TimesOut` (nothing was there). A late answer stays in
`fromGate`. `NoId` stands for every malformed line and for the end of the
stream. A write to a Gate that has exited is folded into "no answer comes".

The Gate is external. `TethersGate` states the contract the host code relies on:
frames are served in order with one response each; a ticket is opened by
PREPARE, may be approved once, is dispatched by COMMIT at most once under the
policy of that moment, and is settled by OUTCOME. Prepared id, approval id and
execution id of a run are one ticket, its run number.

`PermissionSlip` has one action per stretch of `run()` between two places where
something else can happen: a request, the hook `between_prepare_and_commit`, the
executor. Revalidation and the COMMIT frame are two of them (`Revalidate`,
`SendCommit`): the trace is written in between, and the context may move. The
trusted context is `world`; normalization is the function
`Normalized` of the envelope and the world, and fails in the worlds `Gone`. One
normalization looks at one world: that its facts are read one after the other is
modelled in `HostEffects`. `fresh` is a history variable: since the Gate's last answer
before COMMIT, and before revalidation ended, the context has yielded the action
that is held. An
envelope has an operation, which the action depends on, and a claim, which it
does not but which the frozen digest covers. Every emit may find the disk
failing (`Emits`); `traced` says that EXECUTION_STARTED of this run is on disk.
`Conclusions` lists what the executors can end with: whether something happened
in the world, and the `executed` and `status` the orchestration records. The outcome
of the receipt is then the one the Gate answers with (`OutcomeAnswered`); that this
is the one it was told is proved, not assumed, from the Gate's echo.
`Interrupted` is a KeyboardInterrupt, which passes every `except Exception`.
The recorder of the session and of the real executor is assumed to be the same
object, as in `scripts/permission_slip_dogfood.py`. The hello checks are one
verdict; after a failed hello the session is not used.

### FlightRecorder

A run is a directory with up to three files. `Emit` appends an event or breaks
the recorder, `WriteFinished`, `WriteReceipt`, `WriteSummary` are the writes of
`finish()` in order, `Retain` computes what `apply_retention` will delete from
one listing of the directory, and
`OpenDir`, `UnlinkChild`, `RemoveDir`, `DeleteFails` are `_delete_run_dir`, file
by file. The listing itself (`observability.py:447-461`) is taken in one step, where the
code reads directory after directory while other sessions write: a pass may see
one run before a write and another after it, and the model has only passes that
see one moment. `_write_json` creates the directory again when it is gone, also when it
then fails; `emit` does not. Runs sort in the order they started. Temporary files of `_write_json`, the
text of the events and the timings are left out.

### HostEffects

Several sessions share one checkout. A session is opened once
(`TrustedHostContext.create`), submits one operation, and then goes through the
stages of the code: `reading` the facts of normalization one by one (`FactsOf`),
`rereading` them for `revalidate_trusted_context`, `checking` them in the
executor (`ChecksOf`), acting. An edit acts in the steps of `_atomic_write`: a
temporary file beside the target (`CreateTemp`), its content (`WriteTemp`), the
replacement (`Replace`), and after a failure its removal (`Undo`), which may fail too.
Each may fail; a KeyboardInterrupt or the end of the process (`Interrupt`) removes
nothing. The world is one path (a file of its own, a link, or a file in a directory
that is a link, and what lies at both ends), the temporary files, the branches and
HEAD, the commits whose objects are gone, the remote's feature branches and its push
URLs. Between any two of these steps `WorldStep` may change anything; `MaxMoves` bounds
how often. `raced` is a history variable: the sessions for which something changed
*after* their executor had compared it. No code can close that window without a lock
the world respects, so the properties say exactly where it begins. `AdmittedOrRaced`
is about edits and merges: a push names the admitted commit by its hash and the
admitted repository by its URL, so nothing is looked up by name when it runs, and
what the far side then does is git's. An effect that takes place may still be
reported `uncertain` (timeout). What a test run does to the checkout is part of the
world. The index and the working tree of a merge are not modelled.

### Normalization

The caller writes a command word by word; `NormalizePush` is `_normalize_git` on
it. A token is the string of the command line, and a refspec word is a record of
its parts (`Spec`): the sign, the two sides and the form of each. `GitUpdates` is
the reference: what git would do to the remote with the same words, including
abbreviated options, clusters of short options and options that take a value. It
is external, written from git's documentation. Tokens the caller can choose
include an option the code does not know and git does (`--del`,
`--recurse-submodules`), and a value option hidden in a cluster (`-uo`). `DeletionIsNamed`
is about commands whose options the code recognises: a push with `--del` becomes
`git.history.rewrite`, which asks, and is not called a deletion. `Scan` reads a
command token by token (`Take`), for the adapter and for git, which differ only in
the options that take a value. The other tools of `normalize()` are not modelled.

### InstallTrust

A process (a session, a doctor, a setup) looks at the installation in the order
of the code: `Locate`, the hashes doctor reports, the manifest, each binary,
`describe --json`, `--version`, the predicate, the start, hello. A place holds a
Gate, an engine and a manifest, each named by the build it belongs to, so a
digest comparison is the comparison of two names. `touched` collects the
processes whose observations a later change made old. A start may fail for any
reason (`Popen`, the workspace of doctor's probe, the session's configuration), and
whatever was started may answer hello too late, wrongly or not at all; doctor may
also end with an exception it does not catch (`crashed`). `acquire` runs beside them
and replaces the bundle file by file (`RemoveOld`, `Extract`); a failure or a
death at any point leaves what is there. A search of several directories is one
place, PATH and the install roots one each.

### DoctrineChange

A document is a name with its fields (`Content`); its canonical digest is its
name. `Valid` is the contract, `Compiled` and `Adapted` what the compiler and the
action adapter make of it: two documents with the same `Enforced` decide alike.
`Documents` also holds malformed ones (an empty object, a field too many or of the
wrong kind), which the file and an export may contain: `Shaped` is the part of the
contract about fields, and `Accepted` the documents that pass all of it.
`Diff` is `diff_doctrines`, section by section. People export the doctrine file,
import the export file, which passes through the release's migration registry
one step of the loop at a time, read the two operands of a diff one after the
other, and adopt what a diff showed them, with its digests (`AdoptReviewed`). This is
the user's process, and it is built into the model: `adopt` itself requires no earlier
diff (`__main__.py:191-192`), and a first adoption (`AdoptFirst`) has none to show.
`AdoptedAsReviewed` says that such a process is enough, whatever others do between
the diff and the adoption. `DiffHidesNothing` takes a list as one value: that a list
changed is named. How it changed is `ReordersAreShown`, which does not hold. Others
edit the file or replace the export meanwhile. The lock of the store is left to `DoctrineStore`:
adoption is its one compare-and-swap step here. The registry of this release is
empty; the other registries of the instance are ones a release could ship, among
them a cyclic one. Fields the program treats alike (wording) are one per section.

## Runs

| Run | Question | Instance |
|---|---|---|
| `store_adopters` | does the locked store exclude, behave as an atomic register, and end? | 2 adopters, 2 digests, calls that expect nothing or one digest, all initial pointers and files, weak fairness of each process |
| `store_files` | are import and load safe without the lock? | 1 adopter, 1 importer, 1 loader, every call including malformed digests |
| `slip_faults` | do effects, receipts and the Gate stay consistent under faults? | 2 runs, 1 operation, fixture executor |
| `slip_context` | is what is executed the frozen envelope, in a context that was looked at after the Gate, and traced, and does the run end? | 1 run, 2 operations, 2 claims, 3 worlds, real executor, weak fairness of the host |
| `slip_uncertain` | is an effect of unknown end reported uncertain? (no) | 1 run, real executor |
| `recorder_sessions` | does a writable recorder have its trace, a summary its record? what does retention delete? | 2 sessions, 3 runs, soft cap 1, hard cap 2 |
| `recorder_inflight` | is a run being written never deleted? (no) | 2 sessions, 2 runs, caps 1 |
| `host_effects` | is an effect what was admitted, an edit all or nothing, a refusal clean? | 2 sessions, 1 content to write, links and directories, a commit and its parent, 2 branches, 2 changes by others |
| `push_commands` | is a standing push as narrow as it looks, a deletion called one? | every command of up to 4 of 13 words and 13 options |
| `push_effects` | are different remote effects different inputs? (no) | 2 words, 2 options, 2 commands |
| `install_trust` | is production authority one published, supported pair? do doctor and session agree on one view? is doctor's PASS earned? does a refusal spare the bundle? | 1 doctor with 1 session or setup, 2 releases and a local build, 4 environments, 1 change, 1 `acquire` |
| `install_doctor` | is what doctor calls not ready refused by every session? (no) | the same, nothing changes |
| `doctrine_change` | is the store valid, the diff exact, the adoption reviewed, every import finite? | 2 people, 31 documents, 5 registries, 1 edit |

Bounds. Two adopters are enough for every pairwise race of the lock and the
pointer. In `store_adopters` a call expects nothing or one fixed digest and adopts
either: first adoptions, updates, adoptions of the digest itself and stale calls
all occur. Two runs are enough for an answer of one run to be read by the next,
which is where a session loses its place; every fault may hit every request of
both. One run is enough for the context properties, which relate the start of a
run to its own effect. In the recorder runs the caps are as small as they can be
while a pass can trim successes and still find failures. In `host_effects` two
changes allow one before and one after a comparison, or one to and one back; the
two sessions also change the world for each other. Four words allow a remote, a
refspec and two options, an option with its value, and `--` before an option.
One change and one `acquire` can fall between any two looks at the bundle. The
documents of `doctrine_change` change every field the contract has at least once,
alone or with one other.

Fairness. `store_adopters` assumes that a process in `adopt()` that is not
killed keeps executing; nothing is assumed about who gets the lock, since every
waiter polls and the holder's section is finite. `slip_context` assumes only
that the host keeps executing; each wait is bounded by `response_timeout`, so no
fairness of the Gate is needed. `doctrine_change` assumes that an import that
began goes on; there is nothing in it to wait for.

Deadlock checking is off in the store, recorder, host, push, install and doctrine
runs, where every process makes a bounded number of calls and the system then
stops.

### What the failing runs show

* `slip_uncertain`: `HostExecutionFailure.uncertain` is never read; a timed-out
  push is recorded as not executed and reported to the Gate as failed.
* `recorder_inflight`: above the hard cap a session deletes the run another one
  is still writing.
* `install_doctor`: doctor learns the version only from `describe --json`, sessions also
  from `--version`. When the first gives no answer doctor says "not ready" of an
  installation a session accepts, against `doctor.py:321-323`.

### Disagreements noted without a run

Each of these was met while modelling. Those with a name are stated as properties in
the modules; they do not hold, and TLC refutes each when it is added to the
configuration of its module (`EffectsDistinct` with `MaxCommands = 2`, since it compares
two commands). The others are readings of the code.

* `OneWinner` (`DoctrineStore`): `adopt()` with the candidate equal to the expected
  digest succeeds for every caller, so one expected state can have several
  winners (README.md:121).
* `ReportedPreviousWasReplaced` (`DoctrineStore`): the digest `doctrine adopt` prints
  as previous was read before the lock was taken (`__main__.py:191`).
* `CommitsAreFresh` (`PermissionSlip`): the context is compared, two events are written
  to the trace, and only then COMMIT is sent (`spike.py:675-693`). What drifts in
  between is committed, against README.md:264-267. `EffectsWereFresh` is what does
  hold; the executor's own comparisons (`HostEffects`) come after it.
* `ApprovedWhatWasExplained` (`PermissionSlip`): approval is an argument given before
  PREPARE; an action whose context drifted after the ASK receipt is approved
  without being shown (`spike.py:579`).
* `NothingIsOverwritten` (`HostEffects`): a file written between the comparison and
  `os.replace` is overwritten (`host_executor.py:251`). `AdmittedOrRaced` is what
  does hold.
* `EditsStayInPlace` (`HostEffects`): `_resolve_target` asks only the last component of the
  path whether it is a link (`host_executor.py:288-297`). A directory that has become
  one is followed, to an equal file elsewhere in the checkout, which is replaced.
* `EffectsDistinct` (`Normalization`): `git push --all origin` and `git push --mirror origin`
  are both `broad:unspecified` to the Gate, although `actions.py:291-292` says that
  different effects never collapse. Both ask; neither is executed.
* `ReordersAreShown` (`DoctrineChange`): a diff names a reorder only when nothing was
  added or removed besides (`doctrine_diff.py:167`), though `_ordered_strings` is
  "without hiding a reorder" (`doctrine_diff.py:142`).
* `purpose` is a presentation field of the diff, but is compiled into the manifest's
  description and the requirement's reason (outside the pinned digest).
* With a missing engine doctor reports the executable as PASS with the detail
  `None ()` (`doctor.py:438`).
* `setup` provisions whatever was discovered; it never consults the predicate.
* Between verification and start the binaries are not hashed again; only the
  version is compared at hello. `AuthorityIsVerified` therefore speaks of
  installations that did not change meanwhile.
* An export from an older schema records the digest of the old document, and
  import compares it with the digest after migration: it can never be imported
  (`doctrine_export.py:118-125`).
* A valid doctrine the compiler does not support can be adopted; the next session
  then does not start.

## Proofs

Every inductive invariant was first checked by TLC on the instance of its
component's run and then proved, step by step, for every value of the constants.
The bounds of the runs (`MaxRuns`, `MaxMoves`, `MaxTokens` and so on) are
parameters: the theorems hold for all of them.

What is assumed of the constants is stated as named assumptions in the modules.
They say that the words for "nothing" are no process, place, digest, document or
version (`NobodyAssumption`, `DigestsAssumption`, `NoneAssumption`,
`ContentsAssumption`, `TokensAssumption`), that bounds are numbers and caps ordered as in the code
(`RunsAssumption`, `CapsAssumption`, `MovesAssumption`), that sets are nested as
their names say (`WorldsAssumption`, `BranchesAssumption`, `ConstantsAssumption`),
that the ancestry of commits is a partial order (`HistoryAssumption`), that a store
begins with valid candidates (`CandidatesAssumption`), that what people and
releases supply is a document, valid or not (`SourcesAssumption`), and that a
refspec has two sides, the same one twice without a colon (`SpecAssumption`).

### `DoctrineStore_proofs`

For any sets of adopters, importers, loaders, digests and calls:

* `TypeCorrect`, the typing invariant the others use.
* `LockInvariant`: a process is in the critical section only as the holder, and the
  holder is in the section or about to close. It is the inductive form of
  `MutualExclusionHolds` and `LockNeverStranded`: neither is inductive alone, since
  exclusion needs to know that the lock is held, and closing must not release
  somebody else's.
* `CompareInvariant`: past the comparison and before the replacement the pointer is
  still what the adopter expected. Only the holder moves the pointer, so this
  rests on the lock; `PointerMovesOnlyByAdoptionHolds`, `SwapChainHolds` and
  `StoreImplementsRegister` follow from it. The refinement maps each step of the
  store to a step of `AtomicDoctrine` or a stutter: `ReplacePointer` to `Swap`, the
  failing comparison to `Conflict`, every other end to `Fail`.
* `SoundInvariant`: the candidate of an adopter past verification, the active
  candidate and what a loader has read are good unless damaged by hand;
  `ActiveVerifiesHolds` and `LoadsAreSafe` follow.

### `PermissionSlip_proofs`

For any operations, claims, worlds and number of runs, and both executors. The
invariants build on each other.

* `TypeInv` types the queues, the Gate and the host together, and ties the place
  the host is at to the records the session has (`TypeCorrect`).
* `EnvelopeInv`: from COMMIT on, the envelope is the frozen one. Gives
  `EffectsMatchEnvelopes` and `RealEffectsTraced`.
* `EchoInv`: an answer to OUTCOME carries the status the frame did, or none. The receipt
  takes over what the Gate answers, so both of the next arguments rest on it.
* `HonestInv`: an undecided run has had no effect, and what a receipt claims was
  done was done (`ReceiptsHonest`).
* `FreshInv`: an action that has passed revalidation is one the context has yielded
  since the Gate's last answer, although neither need be so any more
  (`EffectsFresh`).
* `QueueInv` is the argument for `FailsClosed`. Ids in the queues are ordered and
  answers are older than the frames still to serve. Once an answer was missed, a
  live Gate owes at least one answer more than the host waits for, so the
  line the host reads next never carries the id it waits for. The property alone
  is far from inductive: it says nothing of where the missing answer is.
* `TicketInv` follows one ticket through both processes: what a frame in the pipe asks
  for, what an answer with the current id proves of the Gate, what the host knows
  between two requests, and where the Gate's plan may be. Gives
  `EffectsCommitted`, `AskedIsApproved`, `GateAndReceiptAgree` and `OrphansWereLost`.

### `FlightRecorder_proofs`

For any number of sessions, runs and events and all caps.

* `WriterInv` and `TraceInv`: a run has one writer and no summary while it is
  written; at each of the writes of `finish()` what must be there before is
  there, unless a retention pass has chosen the run. They give `TracesComplete` and
  `TerminalsComplete`.
* `RetentionKeeps` and `InFlightIsSafeBelowHardCap` are about the set one pass chooses.
  They rest on lemmas about ranks: the position of a run among the others
  numbers a finite set without gaps, so that the n oldest are n runs. For this the
  order of the deletions is `Ascending`, the list of a set by rank, which is what the
  code's sort by start time returns.

### `HostEffects_proofs`

For any sessions, branches, contents, history, and however often the world moves.
A session works a list of facts off from the front, so what lies behind it is
known (`LineInv`, `FactInv`). `CompareInv` is the heart: every comparison that lies
behind a session still holds, or the session is marked as raced. That the directory
of the target is still there needs an argument of its own: another session's
replacement never removes one (`ReplacementKeepsParents`). `AdmittedOrRacedAlways`
follows where the effect takes place. `TempInv` says how far each temporary file is at
each step of a replacement; with it `RefusalsAreClean` and `EditsAreWholeAlways` follow from
the record of the effects (`EffectInv`, `DoneInv`).

### `Normalization_proofs`

For commands of any length. `parse_push` and git read the command token by token
and disagree on which options consume the next token. The reading is a recursive
function, and the library's induction over it cannot be used (it takes an operator
as a parameter); instead a least counterexample is taken from the well-foundedness
of `<` on the naturals, which gives induction for sets of numbers (`UpTo`). By that,
the recursive function exists and is the reading (`ScanReads`), every reading has
its type (`ReadingsAreScans`), and the two agree on a command whose options
`parse_push` recognises (`ScansAgree`). `StandingIsNarrow` and `DeletionsAreNamed` then compare
what `NormalizePush` and `GitUpdates` make of the same words, and
`StandingPushIsNarrowAlways` and `DeletionIsNamedAlways` carry them to the sessions. The sets of option names are those of the code, and the clusters of
short options are the seven the module names; any other token is an option
nobody recognises.

### `InstallTrust_proofs`

For any processes, places, builds, releases and environments, and any changes and
acquisitions below them. `ConclusionInv` says of every place of the program that
what a process has concluded follows from what it has read; it gives
`TrustedIsOneReleaseAlways`, `AuthoritySpeaksSupportedAlways` and, with `SameSightInv`,
`AuthorityIsVerifiedAlways`. `SameSightInv` says that what a process nobody has disturbed
has read is what is there now. Two such processes have read the same, from which
`DoctorAgreesAlways` follows, for a doctor and a session that were given the same
version: without that hypothesis `install_doctor` refutes it. `HostInv`, that provisioned
host data stays, and the verdicts of `ConclusionInv` give `PassIsEarnedAlways`. `AcquireInv`
gives `BundleOutlivesRefusalsAlways`.

### `DoctrineChange_proofs`

`DiffIsExact` is about any two valid documents, not only those of the run: an empty
diff means one document, every field that moved is named, nothing else is, and
only wording counts as presentation; a list is one value of the document. `ConsequencesAreShown`: two documents that
decide differently have a consequential change. Both go through the values of a
document by path; a field that differs is a leaf that moved and a change that is
shown. `IInv` is the invariant of the commands: only valid documents are stored,
and a review is the diff of two valid documents, whatever file, store and pointer
have become. It gives `DiffHidesNothingAlways` and `AdoptedAsReviewedAlways`. The step a
migration takes is the first of the registry that starts at the schema
(`FirstFrom`); that there is one is again the least element of a set of numbers.

### Only model-checked

The liveness properties: `AdoptionsEnd`, `RunsEnd`, `ImportsEnd`; liveness and
`ENABLED` are beyond the prover. The three statements of the docs that
`slip_uncertain`, `recorder_inflight` and `install_doctor` refute are refuted by TLC alone. `GitUpdates` is external, written from git's documentation: the
theorems that use it are as good as it is.

## Plan

Done: the models of all components but the drivers, and the proof of every safety
property the passing runs check. Left, in this order:

1. Refinements worth stating: `FlightRecorder` against an abstract log in which a
   finished run appears whole; `PermissionSlip` against "each effect is one grant
   of the Gate". The invariants above are what their step proofs need.
2. In `Normalization`, clusters of any letters in any order, with the option that
   takes a value at the end.
3. Termination of imports without fairness: the variant (the schemas not yet
   visited) as an invariant.
4. In `FlightRecorder`, a retention pass that lists one directory at a time.
5. Of the code not modelled: the debug bundle's scrubbing, and the
   reconstruction of a trace by the inspector.

## Not modelled

The tools of `normalize()` other than `git push`, except for the facts `HostEffects`
reads (each is a lookup or one comparison: an edit's path, an upload's destination,
a payment's bound); explanations, rendering, argument parsing, platform labels and the resolution of
state directories (deterministic text); the flight recorder's inspection, debug
bundle and scrubbing (they read and print); the bytes of canonical JSON, of URLs
and of paths; the layout of the compiled fixture; the members of a release
archive and the fields of the lock file (each one verdict); the CI workflow,
`bootstrap-tethers.ps1` and the drivers in `scripts/`, which run the modelled
parts one after the other.
