# A TLA+ verification of the agentic-platform gateway

This directory specifies the control parts of the gateway in TLA+, model-checks
them with TLC on small instances and proves the most important properties with
TLAPS for every value of the constants. `PROJECT.json` ties every definition to
the lines it translates, every property to the runs that check it, and every
hazard of the code to the properties that would catch it.

Contents: [1 the system](#1-the-system), [2 the modules](#2-the-modules), [3 the
runs](#3-the-runs), [4 fairness](#4-fairness), [5 the proofs](#5-the-proofs), [6
where documentation and program
differ](#6-where-documentation-and-program-differ), [7 what is left
out](#7-what-is-left-out), [8 the plan](#8-the-plan), [9 running
it](#9-running-it).

---

## 1 The system

An agent may not edit a repository before it has *locked a plan*. The validation
server (`cmd/ppg`) checks the plan against a corpus of policies and answers with
a signed *capability ticket* that names the session, the allowed targets and an
expiry. A guard in the agent's harness lets an edit through only under such a
ticket, and `ppg-verify` repeats the check on what is about to be committed.

```
 agent ──hooks──> guard ────────────┐            ┌── corpus directories <── writers
   │                │  per-project  │            v
   │                v  store        v         watcher ──> reload goroutine
   └──tools──> MCP server ──HTTP──> ppg: lock_in_plan, verify_artifact,
                                        register_skill, verify_changeset
                                     │        │           │
                 `escalations` ──> conflicts.json   events.jsonl ──> stream, report
 git commit ──> ppg-verify ──HTTP────┘
```

### 1.1 Inventory

| part | state | operations | talks to |
|---|---|---|---|
| conflict detector, `cmd/ppg/conflict.go` | counts per session and violation set, escalated sets; `conflicts.json`; `escalations.jsonl` | observeRejection, observeSuccess, syncFromDisk, resolve | the plan handler under `d.mu`; the `escalations` command **through the file** |
| escalations command, `cmd/ppg/escalations.go` | a detector of its own, loaded from the file | list, show, resolve | the state file and the log, with no lock shared with the server |
| session and ticket store, `internal/store` | active session, one ticket per session, a lock file | Put, Get, Delete, Reset, PutActive, GetActive, ClearActive, each under the project's flock | both guards and the MCP server |
| signing key, `internal/ticket` (`UseKeyFile`) | one key file for the machine, a key per process | find or make the key; Issue, Verify | the server signs, every hook verifies |
| guards, `adapters/{claudecode,copilot}/guard` | none between two hooks | SessionStart, PreToolUse | the store; `/verify_artifact`; the journal |
| MCP server, `adapters/claudecode/mcpserver` | digest cache `seen` per session and skill | lock_in_plan (scan, upload, stamp, forward, one retry, save) | skill roots, store, validation server |
| session skills, `internal/linter` | uploads per session, in memory; the operator's packages | RegisterSessionSkill, AdoptSessions, lookupSkill | MCP server; reload |
| verdicts, `internal/{linter,policy}` | a corpus policy and the skills, fixed while no upload or reload comes | Validate, EvaluateArtifact, EvaluateChangeset | plan handler, both gates |
| Smart Tools, `internal/smarttools` | the evaluator they are wired to | Guard, Run | the linter; the reload rewires them |
| service catalog, `internal/catalog` | none between two loads | Retrieve, Rank, handleDiscoverService | a ranking policy |
| hot reload, `cmd/ppg/{main,watch,corpus}.go` | fingerprints, a one-place channel, the installed linter | tick, SIGHUP, load, adopt, install | corpus directories; handlers in flight |
| plan structure, `internal/plan` | a three-colour walk | ValidateStructure | lock_in_plan |
| plan scope, `internal/{ticket,linter,smarttools}` | none | DeriveScope, isWideTarget, targetAllowed | lock_in_plan, both gates |
| apply-time gate, `cmd/ppg-verify` | none between two runs | changedFiles (staged or worktree), verify | git; `/verify_changeset` |
| decision journal, `internal/journal` | `events.jsonl`, archives | Open (rotates), append | every process of the platform |
| stream and report, `cmd/ppg/{events,report}.go` | an offset; a list of archives | poll and replay; read all | the journal's files, without its lock |

Not modelled at all, with the reason in `PROJECT.json`: ADR and debt registries,
enrichment, `validate_skill`, the preflight adapter, the mock services and the
version string. The policy engine is a constant relation, and so are the results
of the Smart Tools, which are demonstrations.

### 1.2 What is hard about it

* **Processes share files, not locks.** The server writes its whole in-memory
  detector on every change; the `escalations` command writes back the whole copy
  it loaded. The journal is locked by the file that was *opened* and renamed by
  *name*. Store operations are atomic one by one, hooks and tools are sequences
  of them.
* **Anything can stop half-way.** The key file is truncated before it is written,
  a ticket's file is not; failed writes are logged and forgotten; a hook
  that dies leaves the store as it was at that moment, the server's uploads and
  the MCP server's cache live in two memories that restart separately.
* **A value is used after it was read.** The guard decides on a ticket it read
  earlier, a handler keeps the linter it was routed to, `readNewLines` opens a
  file after asking for its size, `ppg-verify` reads files after `git status`.
* **Limits.** A threshold of three, a ticket's last instant, a channel with one
  place, one retry, a rotation limit, archives named after the second.
* **Silence can mean yes.** A guard has to answer the harness whatever fails on
  the way, and an answer that is no refusal lets the edit through; a policy that
  cannot be evaluated, a skill nobody knows and a service no verdict mentions
  must not count as accepted.

### 1.3 What makes each part correct

* *Detector*: no session is told to fix and resubmit a third time; a restart
  forgets nothing; only a human closes a conflict; a blocking conflict has a
  paper trail.
* *Store and key*: a call on the store takes effect at one moment or not at all;
  every ticket of the machine is good for all of its processes.
* *Guard*: a write that goes on was checked, whatever failed, and the journal
  says what the agent was told.
* *Verdicts*: an accepted plan or content is accepted by every policy in force,
  and nothing is refused for a policy that was not.
* *Catalog, report*: the recommended service is a sanctioned one; the report says
  what the events say, whatever order they were written in.
* *Tickets*: an edit let through is covered by a live ticket of its own session;
  a ticket is bound to the session whose agent locked the plan and dies with it.
* *Skills*: a plan is judged with every skill installed; a second
  `unknown_skill` is the truth, if the name is read back right; every call ends.
* *Reload*: an acknowledged registration survives; a Smart Tool is judged by the
  corpus behind its route or a later one; a change on disk is served in the end.
* *Plan structure*: exactly the executable plans are accepted.
* *Gate*: no ticket allows everything; what passes was verified.
* *Journal*: no event is lost, or sent or counted twice; an event is sent out of
  order only if it was written late to a file the stream had open.

---

## 2 The modules

| module | about | extends or instantiates |
|---|---|---|
| `PolicyConflict` | what the detector promises: tries, open conflicts, rulings | |
| `ConflictDetector` | detector, plan handler, state file, log, resolve command, crashes | instantiates `PolicyConflict` |
| `SessionTickets` | store, both guards, the MCP server's stamping and saving, issue and verify | |
| `SkillUploads` | skill scan, cache, uploads, forward and retry, restarts of both servers | |
| `AtomicStore` | what the stores promise: one moment per call | |
| `FileStore` | the store on disk: lock file, flock, temporary file and rename, removals | instantiates `AtomicStore` |
| `SigningKey` | the key file, its making on first run, restarts, signing | |
| `GuardHook` | one hook of either guard, from payload to answer and event | extends `PlanScope` |
| `Verdicts` | how corpus, declared and other skills make up a verdict; Smart Tools | |
| `HotReload` | watcher, SIGHUP, reload goroutine, swap, uploads and a tool call in flight | |
| `DependencyCycle` | ValidateStructure and its walk | |
| `PlanScope` | DeriveScope, isWideTarget, targetAllowed, `filepath.Clean` | |
| `ChangeGate` | head, index, tree, `git status`, ppg-verify, handleVerifyChangeset, commit | extends `PlanScope` |
| `Journal` | writers, rotation, the stream, the report's reading | |
| `Report` | the report's filters, sort, fold and flags | |
| `ServiceCatalog` | candidates, ranking, recommendation | |
| `MC<module>` | small sets, symmetries and fault sets for TLC | extends `<module>` |
| `MCParts` | `DependencyCycle`, `GuardHook`, `Verdicts`, `ServiceCatalog`, `Report` side by side | extends their `MC` modules |
| `MCPlans` | `ConflictDetector`, `ChangeGate` side by side | extends their `MC` modules |
| `MCState` | `Journal`, `FileStore`, `SigningKey` side by side | extends `MCJournal` and the others |
| `ConflictDetector_proofs`, `SessionTickets_proofs`, `SkillUploads_proofs`, `HotReload_proofs`, `ChangeGate_proofs` | theorems and proofs of one module each | extend that module |
| `State_proofs` | theorems and proofs of what is kept under the state root | extends `FileStore`, `SigningKey`, `Journal` |
| `Requests_proofs` | theorems and proofs of what decides on one request | extends `DependencyCycle`, `GuardHook`, `Verdicts`, `ServiceCatalog`, `Report` |
| `PlanScope_proofs` | lemmas on paths and scopes, used by two of the above | extends `PlanScope` |

Conventions. A definition that translates a function keeps its name
(`observeRejection`, `newConflictDetector`, `syncFromDisk`, `isWideTarget`); one
action is one atomic step of the program, which is a whole method where a mutex
or flock makes it one, and a part of it otherwise. A variable whose comment
begins with *history* is written and never read by the actions; it records what a
property has to remember. A definition marked *Slip* is not part of any
specification: it is the action beneath it with a plausible mistake in it, and
each property is known to fail with one of them in place of the real action.

**ConflictDetector.** `state` is `d.state`, `file` is `conflicts.json`, and
`up` says that the server runs. A method runs under `d.mu` including its write
of the file, so it is one step; a write that fails leaves the old file and is
only logged. `RejectPlan` is the rejection branch of the handler: the count, the
third of which escalates, and the answer. `LogConflict` is the handler's append
to the escalation log afterwards, outside the mutex. `CommandLoad`,
`CommandResolve`, `CommandLog` are the three steps of `ppg escalations resolve`.
`Crash`, `Start`, `LoseFile` and failing reads are the environment's, each only
with its member of `Faults`. `told` is what the session heard, which is what the
detector exists for, and is independent of its own counts.

**SessionTickets.** A worker is an agent or sub-agent; `call[w]` is where its
hook or tool stands. SessionStart is two store operations (`SessionStart`,
`RecordActive`), a Copilot tool call begins with a claim (`ClaimSession`), an
edit is the guard's local check and then the server's (`CheckTicket`,
`VerifyArtifact`), a lock is the MCP server's stamp, the server's answer and the
save (`StampSession`, `LockInPlan`, `SaveTicket`). Between any two, other
workers move, the clock ticks, a write fails, or the process dies. `by` is a
history field of a ticket: whose agent asked.

**FileStore, AtomicStore.** `client[c]` is where process *c* stands in
`withLock`: it opens the lock file (`OpenLock`; a read that finds none goes on
without), waits for the lock (`Flock`, shared or exclusive), and then reads a
file (`ReadFile`), writes and renames one (`WriteTemp`, `Rename`), removes one
(`Remove`) or all tickets one by one (`StartReset`, `RemoveTicket`, `EndReset`).
Each step may fail (`Errs`) and the process may be killed (`Die`). `AtomicStore`
knows the same calls with `Begin`, one moment, `Return`; a purge is the one that
takes more than a moment and it keeps other writes out. `SessionTickets` uses the
operations as single steps, which this refinement licenses.

**SigningKey.** `UseKeyFile` in each process: the environment, or a look at the
file (`Launch`, `Look`); no file means a new key, which is held before the file
is truncated and then written (`Truncate`, `WriteKey`), and only then used. The
writing may fail and the process die at each point; a server signs whenever it
is up (`Sign`).

**GuardHook.** `hook` is the payload, `hookAt` where `main` stands. The fields in
their order (`claudeTarget`, `copilotTarget`), the path relative to the working
directory (`relativeTarget`), the exemption of the harness's plan files
(`IsHarnessMetadata`), the checks in the order of `decide` (`Before`), the
server's answer and what each answer counts as (`Reply`, `CodeFor`), the event
(`EmitVerdict`) and the exit code or JSON are those of the two programs; the
steps bear the name of the guard they belong to. `CannotStart` is every
`failInfra`. Other sessions start and claim the project and tickets expire
meanwhile (`Elsewhere`, `Expire`).

**Verdicts.** One call, evaluated step by step: the cap on breadth, the declared
skill (`EvaluateSkillCompanion`), every other skill of the session
(`EvaluateAllSkills`), the corpus (`EvaluateCorpus`), for every content in turn;
`Guard` and `Run` are a Smart Tool's way to the same evaluation. Uploads come in
between, since each step takes the lock for itself. `standing` and `met` remember
which policies were in force throughout, and at some time.

**ServiceCatalog, Report.** Each answers one request. `Matches`, `Precedes`,
`Rank` and `Pick` are `Retrieve` and `Rank`. `Account` and `Shows` are what the
body of the report's fold does to a session for one event, `Counted` says which
events each counter counts, and `CountEvent` adds the counts that are not a
session's: blocks by reason, violations by policy, substitutions. `InTime` is the
stable sort. A stable sort is the one
enumeration of the places in a total order (`ComesFirst`, `Sooner`: the code's
comparison, then the place), so `Retrieve` and `pending` hold places in the
catalogue and in the journal; the proofs show that the enumeration exists.

**SkillUploads.** One session. `package[r][n]` is the agent's disk, `registered`
the server's session tier, `seen` the MCP server's cache. A call goes through its
roots, marks a package as seen and then uploads it, forwards the plan, and after
`unknown_skill` forgets one name and starts over, once. Which one is `quoted`: the
server writes the name into its message with `%q` and `quotedName` takes what
stands between the first two quotes, so a name that `%q` escapes comes back as
another one, any other as itself. `quoted` is fixed by the spelling of the names;
the run has both spellings (`Readings`). `Forget` with the empty name clears the
whole cache, as in the code, which the messages of this server never make it do.
When the MCP server restarts, an upload on its way is received or is not.

**HotReload.** A corpus is its fingerprint; a write takes two steps and leaves
something half in between. The reload goroutine loads, adopts the session skills
of the linter *it* installed last, and installs; a handler of `/register_skill`
keeps the linter that served when it was routed. `install` is two steps: the
variable the Smart Tools ask (`SetEvaluator`) and the routes (`Install`). A tool
call reads that variable without a lock; it may see any value since the one that
was there when its routes were swapped in, the swap being an atomic store.

**DependencyCycle.** The recursion is a stack; the part of `DependsOn` a frame
has not looked at is the set `left`. `Executable` is the reference: no set of
steps waits for itself.

**PlanScope, ChangeGate.** A path is a sequence of segments and a segment may
end in stars, which is what the code's trimming tells apart; `Clean` is a walk
over the segments, each of them kept, dropped or taken back. Each of head, index
and working tree is a function from paths to contents; `Status` is what
`git status --porcelain` prints, renames and untracked directories included.
`ReadLine` is the loop body of `changedFiles`, in both modes, and `Sending` what
it makes of one line. `buried` remembers the new files whose directory was the
only line about them.

**Journal.** Files are numbered like inodes; `live` and `archive` are names. A
line is two units long so that a reader may see half of one. `Rotate` takes
whatever bears the name when it runs. The stream opens the journal (`Connect`) and
reads it to its end (`Replay`), which is tailLines; then it asks for the size
(`SeeNew`, or `StartOver` when that is below the offset), opens (`OpenTail`) and
reads (`ReadNew`, or `TooShort` for another file than the one measured), which is
readNewLines. `tail.file` is what it has open, whatever that is called by now:
a process that opened the journal before the rotation may still write there, and
`strayed` remembers that the stream read such an event after the fresh journal had
an earlier one. The report is `ListArchives`,
`ReadArchive`, `ReadLive`.

---

## 3 The runs

States are distinct states as TLC counts them.

| run | module, bounds | checks | states |
|---|---|---|---|
| `Plans` (`MCPlans`) | detector: 2 sessions, 1 set, 2 operators, up to 4 rejections of a standing conflict; overlap, failed writes and reads, lost file. Gate: 2 paths in 2 directories, 2 contents, 8 plans | `TypeOK`, `StopAfterThreshold`, `PaperTrail`; `GateTypeOK`, `ScopeIsNarrow`, `StagedVerified`, `WorktreeVerified` | 2.4 M |
| `ConflictRestart` | 2 sessions, 2 sets, 1 operator; crashes, failed log appends | `StopAfterThreshold`, `FileMirrorsMemory`, `ImplementsPolicyConflict` | 1.1 M |
| `Tickets` | 2 sessions of any harness with a worker each, 2 files, one clock tick; failed store writes, dying calls | `TypeOK`, `EditCovered`, `BoundWhenCalm` | 3.1 M |
| `Skills` | 2 calls, 1 name read back right or not, 2 roots, 3 contents, 1 edit, 1 restart, lost requests | `TypeOK`, `SecondUnknownMeansMissing`, `InstalledWhenTrusted`, `CallsEnd` | 530 K |
| `Reloads` | 2 writes, 1 SIGHUP, 1 upload, a tool call at a time | `TypeOK`, `RegistrationsSurvive`, `ToolsJudgedInForce`, `ChangesTakeEffect` | 320 K |
| `Cycles` (`MCParts`) | every plan of up to 3 steps over 3 ids; about 60 payloads for either guard; 14 calls of the linter; catalogues of up to 3 records; up to 3 events | `TypeOK`, `AcceptsExactly`, `AlwaysDecides`; `GuardFailsClosed`, `VerdictTold`; `PoliciesBind`, `NoForeignObjection`; `Sanctioned`; `ReportSays` | 920 K |
| `Journal` (`MCState`) | 2 processes, 4 events, 4 seconds, rotation at 2 lines; 2 clients, 2 sessions, 1 ticket; 3 processes, 3 keys | `TypeOK`, `NothingLost`, `SentInOrder`, `SkipsOnlyTheEnd`, `ReportCountsOnce`; `KeepsPromise`; `KeysAgree` | 1.7 M |
| `ReloadAdoptsResolution`, `CopilotStampsIssuer`, `LeftoverNeverSurvives`, `InstalledSkillsApply`, `EveryChangeVerified` | as small as shows it | a sentence of the documentation each, **violated** (section 6) | |

**Plans (a plan rejected), ConflictRestart.** *What*: the threshold argument has to
survive everything that can disturb either the memory or the file, and these
are two different arguments: without crashes memory alone decides and the file
may be anything; with crashes the file must mirror it, and then commands must
run alone. Hence two runs. `StopAfterThreshold` is about what a session was told
and not about the counts. `ImplementsPolicyConflict` is refinement: across
crashes, `effective` (memory, or what a start would load) behaves like
`PolicyConflict`, in which only `Rule` licenses `CloseRuled`. *Bounds*: the
threshold is the real 3; two sessions are needed for one to escalate what the
other is still counting; two operators for two copies of the file; four
rejections so that a standing conflict's record is rewritten by a blocked
rejection, which is the only thing that counter is for.

**Tickets.** *What*: `EditCovered` under every overlap, failure, death and expiry;
`BoundWhenCalm`, the documented binding of a ticket to its issuer and to the life
of its session, exactly as far as it holds — calls that do not overlap, no failed
write, and no lock by a Claude Code session that is not the active one. What the
overlap does to a ticket is shown by the two violated runs, one for either guard.
*Bounds*: two sessions of every mix of harnesses are enough for one to take over,
purge or claim between two steps of the other; with singleton scopes and two files
a ticket can miss a file; one tick expires a ticket between its check and its use.

**Skills.** *What*: a package is marked as seen before it is sent, one digest is
kept per name and several roots may hold a name, so it has to be shown that the
last root wins and that forgetting a single name is enough of a retry, when it is
the right name (`Forgets`; section 6 says what happens otherwise). `clean`
and `trust` name the least that must not have happened. *Bounds*: two calls
overlap; two roots disagree; of three contents two compile and differ, so that a
stale registration can be told from a fresh one, and one does not compile. The
proofs below cover any number of each.

**Three runs of several parts.** `Cycles`, `Journal` and `Plans` check modules
that share no state, side by side: in a behaviour one part is at work, chosen by
`part` in the first state, and the others stay in a fixed first state. Every part
is explored in full and none multiplies another's states. The first run takes the
parts that decide on one request alone, the second what is kept under the state
root, the third a plan at its two ends: rejected until it is a conflict for a
human, and locked until what it allows is committed.

**Reloads.** *What*: the copy of the registrations and the swap are two steps;
the signal may be dropped when one waits; the load may read a torn corpus.
*Bounds*: two writes, the second during the reload the first caused; one SIGHUP
beside the watcher.

**Cycles.** *What*: the walk's verdict equals the reference for every plan,
ill-formed ones included (no step, duplicate id, unknown or own id). *Bounds*:
three ids have all the shapes that matter — a self-dependency, a two- and a
three-cycle, a diamond's merge, a cycle not reachable from the first step; the
proof covers plans of any length.

*Guard*: every way to name a file (eight paths, `..` inside and outside plan and
project, relative and rooted, the harness's own plan files and a way out of them),
each of the fields both guards know, every kind of event, tool and session, a
payload that cannot be parsed; the tickets, what the store gives and whether the
server answers are free. `GuardFailsClosed` looks at the place the tool writes to,
computed without the guard's own helpers. *Verdicts*: two policies of which each
rejects something else and one fails on an input, skills without a policy, a
package that bears another's name, two sessions and two uploads, so that an upload
can replace another and shadow or be shadowed in the middle of an evaluation. A
tool call that has nothing to judge accepts an unknown skill, since no evaluation
looks at it; `PoliciesBind` excepts it. *Catalog*: two records of one id, ties in
every key, verdicts missing, given twice, or for nobody. *Report*: two times for
up to three events, so that a lock written late lies between two rejections in
time; an event for every counter and every flag, a block for a reason that counts
as a bypass and one for a reason that does not.

**Journal.** *What*: rotation renames by name what another process may have open;
the readers hold no lock, open the journal before they measure or after, and may
see half a line. The exceptions are spelled out by the history variables
`overtaken`, `outgrown` and `strayed`; that no event is sent twice has none.
*Bounds*: two processes suffice for one to rename what the other measured or has
open; four events and rotation at two lines give two files and an archive.
`PerSecond < Limit` says that a journal does not reach its limit within the second
it was created in (64 MiB in the code), so two archives of one second need the
overtaken rename. *Store* and *key*: two processes are enough for each to be
inside any step of the other; three for a key to be made, lost half-way and made
again while a third signs. `KeysAgree` says "unless two processes made a key at
once", which is exactly the gap of `UseKeyFile` (section 6).

**Plans (a plan locked).** *What*: wide targets (`*`, `**`, `dir/..*`, `./`,
`dir/../../top`) are refused at the lock and match as refused at the gate; and a
commit or a working tree that passes was verified, the exceptions listed in the
property: touched since `git status`, the old name of a rename, a file whose
working copy is not what is staged, a new file that `git status` had hidden behind
its directory when it ran (`buried`; looking at the index afterwards is not
enough, since staging a neighbour makes the directory tracked). `ScopeIsNarrow`
says that what lies at the top of the repository is granted only by a target that
names it, stars aside. *Bounds*: a file in a directory and one at the top are the
two cases of git's listing, and one of them can be renamed to the other; two
contents, one of which the corpus denies, and files come and go.

The clock, writes, edits, restarts and rejections are bounded by constants in the
guards of the actions that count them up. A bound stops the count, never another
action. Deadlock is checked except where the system really comes to an end: an
answered request (`Cycles`) and a journal when time and events are used up
(`Journal`).

---

## 4 Fairness

Safety is stated without fairness. Three specifications have some:

* `HotReload`: weak fairness of `WatchStart`, `Tick` and of the reload
  goroutine's steps. The watcher is a loop on a `time.Ticker`; the goroutine is a
  `select` over two channels whose body does file I/O and takes no lock another
  part holds while waiting. Writers, SIGHUPs and uploads have none.
* `SkillUploads`: weak fairness of each call's next step. Its loops run over
  finite listings and its requests are answered, fail or are refused; nothing it
  waits for waits for it. Nobody is obliged to call, edit or restart.
* `DependencyCycle`: one call of a function nothing interrupts (in `MCParts`, weak
  fairness of `StructureStep`, for `AlwaysDecides`).

The other modules have none: their
steps come from agents, humans and processes that may never come back.

---

## 5 The proofs

TLAPS checks the following for every value of the constants that satisfies the
named assumptions of the modules.

| theorem | says | argument |
|---|---|---|
| `ConflictDetector_proofs!TypeCorrect` | `[]TypeOK`, under all faults | `TypeOK` is inductive; besides types it says that no copy of the state anywhere holds a count at the threshold, which is why a stale copy may be loaded or written back |
| `…!StopsWithoutRestart` | `[]StopAfterThreshold` if the server does not crash | `LiveInv`: what was told is counted in memory (`ToldIsCounted`), and memory is below the threshold |
| `…!StopsAcrossRestarts` | the same if only crashes and log failures happen | `RestartInv` adds `FileMirrorsMemory` and `CommandsInStep`: a command between read and write is alone, and its copy is the file |
| `…!FileMirrors` | `[]FileMirrorsMemory`, same assumption | `RestartInv` |
| `…!Implementation` | the detector implements `PolicyConflict`, same assumption | every step maps to a step or a stutter; `RestartInv` carries a resolved set from file to memory |
| `…!RecordBeforeAnswer` | `[]PaperTrail` if the server does not crash and its log can be written | `EveryCopyRecorded`: not only the memory, but the file, a command's copy and a resolution that is still to be reported have their record, or a handler that owes it |
| `SessionTickets_proofs!TypeCorrect` | `[]TypeOK` | inductive |
| `…!EditsAreCovered` | `[]EditCovered` | `CoverInv`: adds `CheckingOwn`, that a ticket under check is the editing session's |
| `…!Binding` | `[]BoundWhenCalm` | `BindInv`: while calm one call is under way, and `CallInOrder` says at each of its stages who is active and whose ticket it carries |
| `State_proofs!Exclusion` | `[]WritesAlone`: no two processes are in the lock unless both read | `FsTypeOK` and `WritesAlone` are inductive: `Flock` is the only way in |
| `…!PromiseKept` | `FsSpec => Promise!Spec`: the files implement the abstract store | every step maps to one of `AtomicStore` or a stutter; a write needs to be alone for its moment to fall outside a purge |
| `…!TicketsGood` | `[]KeysAgree` | `FileRules`: what is used and what was signed with is what the file holds, and a key on its way to the file is the only one |
| `…!JournalTypes` | `[]TypeOK` of `Journal` | inductive: a write is begun only in a file nobody writes to |
| `…!EventsKept` | `[]NothingLost` | `NamesInOrder`: an archive's second is not later than the birth of the live journal, and a journal found too large is older than the second it was measured in (`EventsFiled` with `RateAssumption`), so a rename never falls on an archive; then every file keeps its name |
| `…!InOrder`, `…!OnlyTheEndSkipped` | `[]SentInOrder`, `[]SkipsOnlyTheEnd` | `StreamInOrder`: nothing that was sent is among what the journal, or the file the stream has open, holds beyond the offset, nor in it at all if the offset is another file's; and what was sent is earlier, unless the stream strayed; `SentUpToOffset`: up to the offset all was sent |
| `…!CountedOnce` | `[]ReportCountsOnce` | `ReadBefore`: a file read is neither the live journal nor an archive still to be read: each file has one name, and what a rotation makes an archive of is the live journal, not read so far |
| `SkillUploads_proofs!TypeCorrect` | `[]TypeOK`; what does not compile is never registered | inductive |
| `…!RetrySuffices` | `[]SecondUnknownMeansMissing`, for the names `quotedName` reads back as they are | `UploadInv`, part `RetrySends`: on the second try, once the scan is past a content that compiles, something is registered for the name or on its way |
| `…!CacheSuffices` | `[]InstalledWhenTrusted` | `UploadInv`, parts `SeenLast` (the cache holds the last content the scan came past, so at the end the winner's) and `SeenIsSent` (a cached content is registered or on its way) |
| `HotReload_proofs!TypeCorrect` | `[]TypeOK`; the routes serve the last linter installed | inductive |
| `…!Survival` | `[]RegistrationsSurvive` | adds `AdoptedInFull`: the linter on its way in has the registrations |
| `…!JudgedInForce` | `[]ToolsJudgedInForce` | with the above: the variable is never behind the routes, and linters keep what they have |
| `Requests_proofs!TypeCorrect` | `[]TypeOK` | inductive |
| `…!Verdict` | `[]AcceptsExactly`, for plans of any length | `WalkInv`: the grey steps are the stack and the stack is a path, so a grey dependency closes a cycle; black steps wait for black steps only and no set of them is stuck, so all black means executable |
| `…!FailsClosed` | `[]GuardFailsClosed` | `ClearedInOrder`: at each stage of `decide`, what the checks so far have established of the payload and of the ticket *as read*, however the store changes meanwhile |
| `…!AgentIsToldTheVerdict` | `[]VerdictTold` | `AskedInOrder`: nothing is journaled before the answer, and the session asked for stays active or `moved` says so |
| `…!EveryPolicyBinds` | `[]PoliciesBind` | `JudgedInOrder`: every input but the one in hand and those to come was judged by everything that stands, the one in hand by those whose turn it was; `Stands`: what stands has been in force since the call began |
| `…!NoForeignVoice` | `[]NoForeignObjection` | `Objected`: each objection found so far is that of the corpus or of a policy met in force, on an input of the call, or one of the two the linter makes itself |
| `…!RecommendedIsSanctioned` | `[]Sanctioned` | `ComesFirst` orders the candidates strictly and totally, so the sort exists (`SortExists`); allowed ones come first in it, so the first allowed one is the best, and taking it out leaves the rest in order; counting: the answer has as many places with a service as the candidates have |
| `…!ReportIsTrue` | `[]ReportSays` | `ReportInv`: the lines to come are in the order of time and later than those counted (`TakenInTime`), so a rejection extends the run under way and a lock ends every one; each counter, run and flag says of the lines counted what it shall say of all (`Accounted`) |
| `ChangeGate_proofs!TypeCorrect` | `[]GateTypeOK` | inductive |
| `…!ScopesNarrow` | `[]ScopeIsNarrow`, for targets of any length | a target that climbs or cleans to the top is refused by `isWideTarget` (`ClimbingRefused`), and the cleaned path of an entry lies above that of what it grants (`CleanBelow`) |
| `…!CommitsVerified`, `…!TreeVerified` | `[]StagedVerified`, `[]WorktreeVerified` | `GateInv`: a change that is due is sent as it is now or a line still to be read will see to it (`OnItsWay`); once passed, it was found allowed (`PassedWhatIsDue`) |

**Invariants.** They stand in the modules themselves, after the properties, as
named conjuncts; `JournalInv` and `LintInv` are put together from those in the
`_proofs` modules. The properties alone are not inductive: they
speak of the end of a call or of an answer only, and a step needs to know what
led there. Each `_proofs` module has one lemma or step per action, and the last
lines combine `Init => Inv`, `Inv /\ [Next]_vars => Inv'` and `Inv => property`.
Every invariant was first checked by TLC on the module's run.

**Assumptions.** They are of four kinds, and TLC evaluates each of them on a run.
Bounds are natural numbers and special values lie outside the sets they are
special for. A constant has the shape the code's type gives it: events have a
time and a session, services an id that is not empty, a call's session is a
session, an artifact and a changeset are judged for one text at a time
(`CallsAssumption`). What an earlier part of the program guarantees: no wide
target gets into a ticket (`ScopesAssumption` of `GuardHook`, which is
`ChangeGate`'s `ScopeIsNarrow` seen from the other side), a package bears a skill
name, the project is an absolute path. And two of the environment: a journal
does not reach its size limit within the second it was created in
(`RateAssumption`), and the processes and the policies of an event are finitely
many.

**Recurring lemmas.** Paths: what `Clean` does to a path of any length
(`PlanScope_proofs`). Sorting: a finite set has an enumeration in any strict total
order (`SortExists` in `Requests_proofs`), each element going to the place that
the number of those before it says. Induction over lengths and counts is done
by the least element of the set of counterexamples, because the library's
induction theorems take an operator as a parameter, which the provers cannot
instantiate; for the same reason sorts are chosen enumerations here and not the
library's `SortSeq`, whose definition they cannot open.

**Only model-checked.** The liveness properties `CallsEnd`, `ChangesTakeEffect`
and `AlwaysDecides`: fairness and ENABLED are beyond the prover. Every safety
invariant and action property that a passing run checks is a theorem.

---

## 6 Where documentation and program differ

Each of these runs checks one sentence and ends with a behaviour of the program
that contradicts it; `PROJECT.json` quotes the sentences under "findings".

* `ReloadAdoptsResolution`. "The running server adopts the resolution on its next
  reload." Any rejection between the `resolve` and the reload makes the server
  write its whole memory, the resolved conflict included.
* `CopilotStampsIssuer`. "A lock is stamped with the session that issued it."
  The claim and the stamp are two store operations of two processes; another
  session's claim fits in between.
* `LeftoverNeverSurvives`. "A leftover capability never survives the session that
  locked it." The ticket is stored after the server's answer, and another session
  may start, and purge, while the answer is on its way.
* `InstalledSkillsApply`. "An installed skill's validation applies
  automatically." After a restart of the validation server the MCP server's cache
  keeps it from uploading anything but the skill a plan declares.
* `EveryChangeVerified`. `ppg-verify` "sends the whole working-tree diff". An
  untracked directory is one line of `git status`, cannot be read as a file, and
  is skipped.

Further gaps are built into the statements of properties that hold, where a reader
finds how far each goes: a second `resolve` that overlaps the server's writes can
undo an escalation (`Faults` without "overlap" in `ConflictRestart`); the counts
of other sessions survive a `resolve` (`StopAfterThreshold` bounds what they can
do); of a skill whose name holds a quote, a backslash or a character that does not
print the cache entry is not the one forgotten, and the second `unknown_skill`,
which "means the skill is genuinely missing locally" (`http-api.md:138-140`), is
then not true (`Forgets`); a ticket saved after the SessionStart that should have
purged it (`calm`); an event in a fresh journal renamed over the archive
(`overtaken`); a fresh journal longer than the stream's old offset (`outgrown`);
an event written late to a renamed journal that the stream had open (`strayed`); a
corpus written between its load at startup and the watcher's first look
(`missed`); a registration with a linter whose uploads were already copied
(`raced`); staged mode verifying the working copy rather than what is staged
(`StagedVerified`); two processes that find no key file at once, of which one
keeps a key the file does not hold (`collided`); an event that names another
session than the ticket was read for, the active session being read twice
(`moved`).

`GuardFailsClosed` is conditional in two places, and these are the program's, not
the model's: the scope is compared with the path as seen from the payload's
working directory, which need not be the project's; and of a payload with several
file or content fields the first in the guard's order is judged. A tool whose
content is in another field (the list of a MultiEdit) is judged by its target
only. A Smart Tool called with no target has its texts judged for no file
(`Run`). A key file cut short by a killed process makes every later start
fail until somebody removes it (`Look`).

---

## 7 What is left out

* *Data*: wording, JSON, identifiers' hashes, policy sources, what Rego computes
  (any outcome, or a constant relation), canonical plan hashes, required texts.
* *Cryptography*: signatures are unforgeable. Which key signs is `SigningKey`.
* *Code without effect on the modelled state*: `validate_plan`, enrichment, pages
  and pings of the stream, the report's tables and its prefix match of `-session`,
  `list` and `show`, the reasons of denial beside a service.
* *Preliminaries*: the SIGHUP handler is installed inside the reload goroutine, so a
  signal that comes before it runs ends the server; `-watch 0`, without a watcher;
  where the store's root lies, the check of a session id before
  it becomes a file name, flags, a payload that cannot even be read.
* *External*: git, the file system and the harnesses are modelled by what the code
  relies on: a rename is atomic, an opened file stays the same file, `flock` is
  exclusive, `git status` prints what section 2 says.
* *Resolution*: a line of the journal has two visible halves, a corpus write two
  steps; targets are segments with trailing stars, white space is left out; so
  are names that `git status` prints in quotes, whose escapes `changedFiles` keeps and
  whose files it skips, as it does a directory (`EveryChangeVerified`).

---

## 8 The plan

Order of work: the detector with its abstract specification; tickets; skills and
reload; plan structure; journal; the gate; then the single requests (guard,
verdicts, catalogue, report), the store on disk and the signing key. All of these
are modelled and checked, and their safety properties proved, as above. Next:

1. **Compose `lock_in_plan`**: detector, tickets and skills share the call. A
   module above them relates one lock to at most one counted rejection
   (the retry after `unknown_skill` posts the plan twice) and a locked plan to a
   reset account *and* a saved ticket, with the server dying in between.
2. **An abstract ticket authority** that `SessionTickets` implements when calm:
   per session at most one grant, revoked by the session's end.
3. **One more sentence of the documentation**: after a resolution "the counter
   starts from zero" (`resolve-a-policy-conflict.md`); the counts other sessions
   had for the set do not.

---

## 9 Running it

```
tlc -workers 2 -config Tickets.cfg MCSessionTickets
tlapm SessionTickets_proofs.tla
```

`PROJECT.json` lists each run's module and configuration. The longest run takes
about three minutes with two workers, the proofs a few minutes in all.
