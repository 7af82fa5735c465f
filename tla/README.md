# A verification of ai-worklog

ai-worklog is a command line program that keeps an operator's work in order: it
registers workspaces, links the skills of an AI Vault into the IDE profiles of a
workspace, keeps one state file per ticket, and talks to Jira, Jenkins, Automox,
New Relic, Artifactory and others. It exists twice, in Groovy
(`src/groovy/src/main/groovy/ai/worklog/framework`, called G below) and in Python
(`src/python/src/ai_worklog_framework`, called P), and both work on the same
files. There is no server: every invocation is a process of its own, so that all
of the program's concurrency is between processes, through files and remote
systems.

This directory holds TLA+ models of the parts that keep state, TLC
configurations that check them on small instances, and theorems about them that
TLAPS checks for every value of the constants.

## Inventory

| Component | State | Operations | Hard because |
|---|---|---|---|
| Global configuration registry (G `core/GlobalConfig`, P `global_config.py`) | `~/.ai-worklog/config.json`, `.config.lock` | add, remove, default, vault, ides, runtime | read-modify-write by many processes of two runtimes; crashes; damage by hand |
| Workspace apply and revert (G `setup/`, `workspace/`, `commands/WorkspaceCommands`; P `workspace/`, `setup/`) | service directories, `created.json`, links in IDE profiles, the setup manifest; the registry entry | apply, revert, ides, unregister | plans are made once and carried out later, in many steps, in a directory that its owner works in; any step may be the last |
| Ticket state (G `core/StateManager`, `StatePatch`, `commands/StateCommands`; P `state/`) | `.ai-worklog/state/<KEY>.json` | init, set, blocker and decision add and resolve | several agents, no lock; the runtimes treat damaged files differently |
| Workspace selection (`resolveWorkspaceSelection`) | none | choose a workspace from options, environment, directory, registry | an order of six sources; two loads of the registry |
| AI Vault and IDE resolution, setup checks and reports | none | doctor, status | status aggregation |
| Workspace rules installer | what a script of the vault writes | started by apply | 60 second limit after everything else is done |
| Automox policies (G `adapters/AutomoxAdapter`, `commands/AutomoxCommands`) | the policy, kept by Automox | policy-add-group, -remove-group, -set-groups, -delete | the whole object is written back as it was read; a change takes two requests; lost requests and replies; other operators |
| Reconciliation (P `reconciliation/`, and `observe_...` of `adapters/jira.py`, `git.py`, `github.py`, `jenkins.py`, `argocd.py`, `tempo.py`) | what it has observed so far, during one command | `reconcile status`: ask up to six systems about every target of a ticket, compare, report | takes long while others work; any request may fail; no answer and a clean answer are easily confused |
| Jenkins, read-only (P `adapters/jenkins.py`, `jenkins/`) | the walk, the scan and its caches, during one command | sixteen queries, among them `jobs` and `plugins vulnerabilities` | two commands take many requests while the controller changes; each of many handlers maps failures to an exit code by itself; versions of plugins depend on each other |
| The rest of Automox and Jenkins, and the Jira, New Relic, Artifactory operators | remote objects | read-modify-write, comment, build, download | lost replies, half-done sequences of requests, polling, paging |
| Preflight, diagnostics, delivery, close-out | none, or files they only read | check, report | partial failures become statuses |
| Catalog, tickets, journal, dashboards, reports | files they render | render | formatting for the most part |
| Command line, launchers, clients for HTTP and processes, bootstrap | none | parse, start | the launcher chooses the runtime from the registry |

How they interact: `workspace apply` and `workspace revert` plan from the
directory, the manifest and the vault, change the directory, save the manifest,
and end with calls of the registry (`addWorkspace`, `setWorkspaceIdes`,
`removeWorkspace`). Every command selects its workspace through the registry.
Reconciliation, preflight, close-out and the dashboard read ticket states; reconciliation compares
one with Jira, the clones, GitHub, Jenkins, Argo CD and Tempo through adapters that only read. The launcher reads the
runtime from the registry. Nothing calls back; files are all they share.

What makes each part correct: the registry loses no change, never saves what
cannot be loaded, and never replaces what somebody may still repair. apply is
idempotent, takes nothing of the owner's and is not blocked by its own leftovers;
revert removes what apply made and nothing else. A ticket's state loses nothing
except as below, and is valid whenever it is saved. A remote change is done once
or reported as not done. A reconciliation raises no alarm where all is well, overlooks nothing it was told, and
its verdict means what it says. A Jenkins listing names what is there, a scan knows what it reports, and the
exit code tells what went wrong.

## Modules

| Module | Models |
|---|---|
| `ConfigCommands` | A configuration as a record, and what each of the six commands demands of it and makes of it. |
| `GlobalConfig` | The processes that run those commands: lock, load, second read, rename, unlock, answer, crash, damage. `EXTENDS ConfigCommands`. |
| `AtomicRegistry` | What the registry promises: a command takes effect at once or not at all, at some moment between question and answer. `EXTENDS ConfigCommands`; `GlobalConfig` instantiates it as `Registry`. |
| `SharedObject` | What commands promise that read an object, decide, and write it back without a lock: an effect at one instant, at most once, on the object as it is then, unless somebody wrote in between. `TicketState` and `RemotePolicy` instantiate it as `Shared`. |
| `WorkspaceLifecycle` | apply and revert on one workspace, step by step, with its owner. |
| `TicketState` | The state commands of several agents on one ticket. |
| `RemotePolicy` | The Automox commands of several operators on one policy. |
| `ReadOnlyAdapters` | Which targets a ticket has, and what each observer makes of an answer, of none, and of half of one. |
| `Comparators` | `compare_state`: one operator per contradiction code, what it is raised about. `EXTENDS ReadOnlyAdapters`. |
| `Reconciliation` | One `reconcile status`, request by request, while the file and the systems change. `EXTENDS Comparators`. |
| `JenkinsVersions` | How versions compare, and which versions a warning is about. |
| `JenkinsRequests` | What all Jenkins commands share: credentials, replies, verdicts and exit codes; one operator per handler. |
| `JenkinsJobs` | `jenkins jobs`: the walk through the folders. `EXTENDS JenkinsRequests`. |
| `PluginScan` | `jenkins plugins vulnerabilities`. `EXTENDS JenkinsRequests, JenkinsVersions`. |
| `JenkinsOperator` | Composes the three into one command on one controller. |
| `MC...` | Values for the constants that a .cfg cannot write down, and symmetry. |
| `...Proofs` | The theorems about each component; `JenkinsVersionsProofs` those about the comparison of versions alone. |

### GlobalConfig

`file` is the contents of `config.json`: a configuration, `NoFile`, or `Damaged`
(it does not parse or does not validate). Paths are canonical. `pc[p]` follows a
command through `addWorkspace` and its siblings:

| `pc` | The code is at | Leaves by |
|---|---|---|
| `idle` | no command | `Call`, which also refuses what the arguments alone refuse |
| `locking` | `withConfigLock`, `global_config_lock` | `Lock` |
| `loading` | `load()` and the body of the command | `Load`, `LoadRefused` |
| `saving` | `save()`: validate, read the existing file again | `Recheck` |
| `moving` | the temporary file and the rename (`JsonFiles.write`) | `Commit`, `WriteFails` |
| `unlocking` | the end of the lock's scope | `Unlock` |
| `replying` | the answer | `Reply` |

`Crash` ends a process anywhere; the kernel drops its lock. `Damage` is a person
editing the file. Two variables are observations and change nothing: `ledger` is
what the committed commands add up to, one after another, and `overtaken` names
the processes that had read the file for the second time before it was damaged.

The two runtimes do not lock alike: Groovy's `FileChannel.lock` is a POSIX record
lock, Python's `fcntl.flock` a BSD lock. `LockSpace` maps each runtime to the
kernel's table its lock is in. `SharedTable` makes them exclude each other (one
runtime only, or a kernel that has one table); `SeparateTables` is Linux.

### WorkspaceLifecycle

`dir` says of each service directory whether it is absent, empty, filled, a link or
something else (a link may point to a directory of any kind, so that a step that follows it may take it or leave it); `created` is `created.json`; `dest` says what stands where a skill
is linked for an IDE (nothing, somebody's data, a foreign link, a link into a
vault); `records` is the setup manifest, where `here` tells whether the record
names the place itself or, for a link that was there when the record was made,
what it pointed to (`buildSkillRecord` canonicalises the destination). `job` is the
running command with its plan, made once by `ApplyPlan` or `RevertPlan`. The plan
is then carried out one directory and one link at a time. The steps are those of
`SetupPlanner.applyInitOrRepairPlan` and `applyRevertPlan`, in their order, and
then the calls of the registry. `ClearDest` and `LinkSkill` are two steps because
`applySkillAction` deletes before it links; `CheckSkill` and `RemoveSkill` because `removeSkillArtifact` asks
`canRemoveSkillArtifact` first and then inspects the destination again and deletes what it finds, a directory with
all that is in it (`materialize.py:190-202`). `Stop` is a crash, or an exception of a
step that cannot be done. The owner may change any directory and any destination
(`EditDir`, `EditDest`). `dirMaker` and `destMaker` observe who made what is there,
`touched` which destinations the owner has changed since the running command last looked at them,
`last` is the command that has just succeeded, and `cut` tells that some apply was
cut short.

`--dry-run` ends before the first step and is left out. A blocked apply is
`Begin(None)`: a command that changes nothing.

### TicketState

`pc[p]` goes from `idle` over `checked` (the file is there, or for init is not),
`loaded` (loaded and changed in memory) and `validated` (`persist` validated the whole
state and `--apply` was given) back to `idle`. `State` keeps the fields that
`state set` may change, the blockers by position with their status, and the decisions
by id. Fields have a value that is legal or one the validator refuses, which only an
edit by hand can bring in. `Loaded` holds the difference of the runtimes on a
file that does not parse. `ledger`, `stale`, `guessed` and `excused` are observations:
what the saved commands add up to, which drafts are older than the file, which
replace what could not be read, and whether such a draft was ever saved.

`Shared` is the refinement. The object is the file; the request is the command; a process has `asked` while it is at
`checked`, and has `looked` from `loaded` on. `state init` looks only to see that there is no file, so that it has
looked as soon as it is called. Who is `overtaken` is in `stale`. The save (`JsonFiles.write`) is `TakeEffect`, or `Spoil` where
the process was overtaken; an edit by hand is `Interfere`; whatever is refused, lacks `--apply` or is
killed is `End`. `Saves` says what a command does to the file as it is, the Python runtime's new state in place of a damaged file included.

### RemotePolicy

`policy` is the object as Automox has it: its name (the number of `-TMP` suffixes), its
groups, and `rest` for all other fields. It is `Gone` once deleted. `pc[p]` goes from `idle` to `reading`,
then by the command:

| Command | `pc` | Requests |
|---|---|---|
| `policy-add-group` | `renaming`, `restoring` | rename with the groups as read; then the old name and the new groups |
| `policy-remove-group`, `policy-set-groups` | `replacing`, `confirming` | replace; then read again and compare |
| `policy-delete` | `deleting` | delete |

`copy[p]` is what the command has read. Whatever it sends is built from the copy
(`Renamed`, `Changed`). `Carry` is Automox carrying out a request; `NotCarried` is a request that never
gets there. A failing step is one or the other, because a lost reply looks like a lost
request (`JsonWriteHttp.send` answers code 0 to both). `Crash` is a kill between requests, `Edit` a
person in the Automox console. `ledger` (what all changes add up to), `stale` (commands whose copy somebody has
outdated), `excused` (such a copy was written back), `told`, `mute` and `done` are
observations. `Shared` is the same refinement as for tickets: the object is the policy without its temporary name, `looked` is
every stage at which a request may still be sent, and `done` is `confirming`. A request that is carried out is `TakeEffect`, the renaming before it `Prepare`,
both `Spoil` from an outdated copy; one that is not carried out leaves the command where it was, or ends it. So it says, beyond `LostOnlyByOverlap`,
that a change takes effect at most once, at one instant, and only where the command, asked again at that instant, would not refuse. Automox itself is external: a request replaces what it names, at one moment
between sending and reply. Dry runs end before the first write and are left out.

### Reconciliation

`record` is what the ticket's file says, `world` what is true of every target: the issue, each clone, each
GitHub repository, each Jenkins job of each controller, each Argo CD application, the worklogs. `phase` goes from
`idle` over `observing` to `done` or `failed`:

| Action | Code |
|---|---|
| `Refuse`, `Begin` | `reconciliation/commands.py`: the selection, the ticket's file, `load_state` |
| `Open` | `engine.py` turns to the next system in the order of names: its program or credentials, then its targets; what is not asked gets its status at once |
| `Observe`, `ObserveGit` | one target is asked; the `observe_...` functions of `adapters/` |
| `AskCreated`, `ObserveTempo` | Tempo takes two requests: the issue's day of creation from Jira, then the worklogs from that day |
| `Hang` | a server accepts the request and says nothing: `http_request_details` catches `URLError` only, and the command ends with exit code 2 |
| `Compare` | `compare_state`, `_overall_status`, the report and the exit code |

`left` and `asking` are what remains to be asked, `obs` is what was. An observation has a status
and details, and the details hold the facts or only a note, because the comparators tell these apart by which
fields they find. `EditFile` and `ChangeWorld` are other people. `recorded`, `wrecked`, `truth`,
`blurred` are observations of the model: what was recorded and true at the moment each was looked at, whether the file
did not parse, and of which targets less was learnt than their observation tells.

The properties are stated against `recorded` and `truth`, not against what the comparators compute: `Diverges`
says what really disagrees. `AlarmsAreReal` says that what is reported diverges, but for the causes in
`FalseAlarm`; `NothingOverlooked` that what diverges and was answered is reported, but for the causes in `Blind`.
These two lists are the result of the component: they name every way in which the command can be wrong, and
TLC and the proofs show that there is no other.

### The Jenkins operator

`JenkinsRequests` has the controller's credentials (read again for every request, `creds`), the `phase` and `outcome` of the
command, and `met`, the observation of what it came across. Replies are classed as the handlers tell them apart: by
status (`denied` is 401 and 403, `absent` 404, `refused` any other error) and by body (a JSON
object, something else, nothing). `inline_error` and `operator_http_error` are the two ladders of
error handling; each `operator_...` is one handler. In `JenkinsJobs` an item stands for a full path; `CheckFolder` is the first
request, `Visit` one folder of the walk (a folder that cannot be read is passed over),
`Stumble` a folder whose name `encode_job_path` refuses, and `ListJobs` sorts and cuts. In `PluginScan`,
`ReadPlugins` and `ReadCentre` get the plugins and the update center (at its second address if the first
has no page), `Inspect` takes the next plugin and judges its upgrade (`remediation_status`), `ReadAdvisory` and `AskEntry` ask for pages
and for entries of the vulnerability database, each once (`pages`, `nvd` are `advisory_cache` and `nvd_cache`), with retries
when it is busy; `Misunderstand` is a `Retry-After` that is a date. The environment edits the
credentials (`EditCredentials`), jobs and folders (`ChangeTree`) and plugins (`ChangePlugins`).

Versions are sequences of tokens without the zeros at their end, so that versions that compare equal this way
are one. `compare_versions` is no order: 1.0.alpha is newer than 1-sp, that newer than 1, and 1 newer than
1.0.alpha (`versioning.py:38`). `Confused` says of which three versions this can happen, and nothing is assumed of the versions in use.

## Runs

| Run | Shows | Bounds |
|---|---|---|
| `MCGlobalConfig` | mutual exclusion, no lost update, every saved file loads, no command makes two names share a path or touches another's entry, damaged files are kept | 2 Groovy processes, 1 command each out of all of them; 2 names, 3 paths (1 not a directory), 1 IDE; every valid initial file; 1 damage |
| `MCGlobalConfigLive` | the registry is atomic as `AtomicRegistry` promises; each command ends | a Groovy and a Python process with a common lock table, 2 commands each; 1 name, 1 path |
| `MCGlobalConfigLinux` | **violated:** an update is lost across runtimes | as above, separate tables, 1 command each |
| `MCWorkspaceQuiet` | apply converges; no conflict with its own links; revert leaves none of its links and takes only its directories; `--ide` keeps the others | 2 services, 2 IDEs, 1 skill, 1 vault; 5 commands, 2 edits, crashes |
| `MCWorkspaceBusy` | filled directories stay; apply replaces nothing of the owner's that was there when it planned; revert deletes only the link the manifest names, or what takes its place after the last look | 1 service, 2 IDEs, 1 skill, 2 vaults of which one does not offer all, `--adopt`; 3 commands, 2 edits at any moment, crashes |
| `MCWorkspaceMoved` | **violated:** a revert leaves a link after the vault has moved | 2 vaults, 4 commands |
| `MCWorkspaceRemade` | **violated:** a revert removes a directory its owner made | 1 vault, 4 commands, 1 edit |
| `MCTicketState` | updates are lost in two ways only; nothing invalid is saved; damaged files are kept; what is settled stays settled; the file is a shared object | a Groovy and a Python process, 2 commands each, 1 field, 1 decision; 1 edit |
| `MCTicketStateLost` | **violated:** overlapping commands lose an update | as above without edits |
| `MCReconciliation` | alarms are real, nothing is overlooked, the verdicts READY and exit code 0 mean agreement, each with the exceptions it names; the command ends | 4 tickets, 3 worlds; 3 repositories (1 with an unsafe name), 2 controllers, 1 job, 1 application, 1 service; 2 builds looked at; 2 faults, 1 change |
| `MCJenkinsOperator` | the exit code tells the cause; a listing is faithful; a scan is complete; recommended upgrades hold together, but where versions are confused | 8 paths (1 with an odd name) in 5 trees, a walk of 1 level below its start; 2 plugins, CVEs and pages, 6 versions of which three are confused, 4 installations, 3 update centers, 1 retry; 2 faults, 1 change |
| `MCRemotePolicy` | changes of a policy are lost only to outdated copies; a temporary name is taken back or reported; READY means done; a policy is emptied only on request; the policy is a shared object | 2 operators, 2 commands each, 2 groups, 1 edit |

Why the bounds are enough to be of use. A lost update and a shared path
need two processes and one command of each; the second command of
`MCGlobalConfigLive` adds a process that comes back to a lock it had, after a crash
as well. The initial file is any valid configuration, so a single command meets every
situation that earlier ones can have led to. For the workspace, five commands make room for an
apply that is cut short, one that succeeds, a revert that is cut short, one that
succeeds, and one more; two edits let the owner put something in the way and change
it. Two IDEs are needed for `--ide`, two services for a plan that is carried out by
halves, and two vaults for one that moves. Two processes with two commands each
show every overlap of a load, a save and a complete command in between, and in
`MCRemotePolicy` also a command that reads what a failed one left. With two groups one can be lost while the
other stays, and removing one can empty the policy or not.

In `MCReconciliation` the tickets and worlds are chosen so that every code of the comparators is raised
in some pair and silent in another, with pull requests recorded with and without a URL, builds with a controller, with an empty one and with
none, builds older than those looked at, a draft, a key that is not mentioned. The command passes each target
once, so one change is enough to let it fall before or after the target was asked; two faults let one failure meet
another, as Tempo's two requests can. In `MCJenkinsOperator` a folder one level too deep, a job that
becomes a folder's place, two plugins that share a page, and a pair of upgrades of which each needs the other's old or
new version are all there, and so are three confused versions, on which upgrades do contradict each other; `Retries = 1` gives up after the second busy answer. Symmetry is
used in `MCGlobalConfig` and `MCRemotePolicy`, where no liveness is checked.

`CHECK_DEADLOCK FALSE` is in every configuration: commands are bounded, and when
all are used up the program has rightly nothing left to do.

The assumptions of the workspace runs are constants, so that each property is
checked where the code keeps it: `Interleaved = FALSE` lets the owner act between
commands only; `Remakes = FALSE` says that nobody makes a recorded directory again,
which is what `MCWorkspaceRemade` is about; `Narrows = FALSE` says that nobody drops IDEs by
`workspace ides` or `unregister`; `Resolves = {TRUE}` says that revert finds the
vault. `MCWorkspaceBusy` makes none of these.

### Fairness

`FairSpec` has weak fairness of `Work(p)`, for every process p. `Work(p)` is what a process
does by itself: taking a free lock, the steps up to the answer, but not `Call`,
`Crash`, `WriteFails` or damage. That is what the operating system gives: a runnable process
is run. Weak fairness of `Lock` is enough here because commands are bounded, so that
others cannot take the lock for ever; nothing is assumed about the order in which
waiting processes get it.

`Reconciliation` has weak fairness of `Step`, the command's own steps, with failures among them: every request and
every process it starts has a timeout, and the command does nothing but these. Nothing is assumed of
the people who change things meanwhile, nor that a request succeeds. No fairness is assumed anywhere else.

### Where the code differs from what it says

1. `MCGlobalConfigLinux`. The upgrade plan speaks of cross-runtime file locking
   (`docs/upgrade-plan:172`). The runtimes use locks of different kinds
   (`GlobalConfig.groovy:656`, `global_config.py:237`). Both load; the later save wins.
2. `MCWorkspaceMoved`. apply brings a link up to date while the old link is
   still there, and records where that pointed (`SetupManifest.groovy:252`). revert then inspects the old vault's
   directory, which is no link, and leaves the workspace's link.
3. `MCWorkspaceRemade`. `created.json` only grows; a directory that was reverted and
   made again by hand is removed by the next revert while it is empty.
4. `MCTicketStateLost`. `state/manager.py` calls all operations append-safe; a command
   that saves discards what was saved since it loaded.

Two more were met on the way, and are kept out of the passing runs by their
constants: with `Narrows`, apply forgets the records of IDEs that are no longer
registered and revert leaves their links; without a vault a revert with `--ide` deletes the
records of the others. Two are named in the properties of `MCWorkspaceBusy`, whose owner works in the directory all the
time, as the places `touched`. apply deletes whatever the owner has put at a planned destination since the plan, a
directory included, though the repository's `README.md:220-221` says that it never overwrites existing targets. And
revert looks at a link before it deletes it, but what takes the link's place between the two goes instead.

In `RemotePolicy` two overlapping `policy-add-group` can leave the policy under its temporary name although
both report READY: the second has read the name that the first was about to take back, and restores that. `excused` sets
this apart, as nothing in the repository promises more. An add that failed between its requests makes the
temporary name the original one for the next add; it has said so (`told`).

`Reconciliation` found these, which are named in `FalseAlarm` and `Blind` and so kept in view by its properties:
- a pull request is reported missing, which blocks, when GitHub did not answer or was not selected, or
  when it does not mention the ticket's key; a build likewise when its controller did not answer;
- a draft that is recorded as one is reported as a mismatch: the observed state becomes `draft` only where the
  record says something else (`comparators.py:195`);
- a build older than the ones looked at is reported missing, and one of the same job name on another controller
  can stand in for it;
- when `git status` fails the tree counts as clean, and when Jira does not answer, worklogs are counted from the day the ticket's
  file was created;
- a file that does not parse is compared as an empty ticket;
- `pr_url_mismatch` can never be raised: a pull request with another URL does not match;
- observations that are BLOCKED, DEGRADED or UNKNOWN leave the exit code 0, so that exit code 0 speaks only of what
  was answered (`VerdictsMeanAgreement` says so); only READY speaks of everything asked.

In `JenkinsOperator`, exit code 1, which is for the user's mistakes, also comes from an answer that hangs, from a
`Retry-After` that is a date, from a missing `X-Jenkins` header and from a folder with a name the tool takes for
none; the first two lose all that was scanned. `ExitTellsCause` names them. An upgrade is judged against what is
installed, each by itself; `UpgradesHoldTogether` shows that the recommended ones may nevertheless be carried out together,
except where an upgrade is newer than what is installed, that is new enough for another plugin, and the upgrade is not: then
these three versions are `Confused`. The instance contains such an upgrade, and without the exception the run fails.

## Proofs

Each proof module has an inductive invariant, the theorem that it holds
(`InvariantHolds`), and the properties that follow from it, one step per action.

**GlobalConfigProofs.** `IndInv` joins `TypeOK`, `LocalInv` (what a process has at each
stage: a draft from `saving` on, a command outside `idle`), `LockInv` (whoever is in a
critical stage holds its lock), `SavedFileLoads`, and `OvertakenInv` (while the file is
damaged, every process about to rename had read it again before). Mutual exclusion is a consequence of `LockInv`: the lock has one holder. That a damaged file is kept follows from `OvertakenInv` and the guards. No update is lost because of a second invariant,
`KeptInv`: as long as the file is not damaged the ledger is its content, and by `DraftInv` every process at `saving` or
`moving` has a command that the ledger allows and, as its draft, that command applied to the ledger. It
needs `OneLockSpace`, the assumption that all processes contend for one lock:
without it `MCGlobalConfigLinux` is a counterexample. `RegistryIsAtomic` is the refinement:
`Commit` maps to `Accept`, refusals to `Refuse`, everything else to a stutter or to the
matching step of question and answer. For it `AnswerInv` says that nobody answers before the work is done, and
`SoundInv` that work goes on only while the file is sound. It also assumes `MaxDamage = 0`, because a
promise about commands says nothing of a person who destroys the file. `HoldersWork` and `CommandsGoForward` are the safety half of
`CommandsEnd`, see below.

**WorkspaceLifecycleProofs.** `IndInv` joins `TypeOK`, `JobInv` (an apply has a vault; the
directories a revert will remove are recorded, and so are its links; only a planned link is ever half done) and `LinkInv` (what
the framework put at a destination is still a link into a vault or gone). Two properties hold whatever the owner does,
each by an invariant about what has been `touched`: `OwnersDataKept` by `PlanInv` (no plan to link names the owner's data, but where
it was put since), `RevertRemovesLinksOnly` by `CheckedInv` (what is about to be removed was fit for it when last looked at, but where it
was replaced since). The properties that hold only for a quiet owner have
further invariants, each under the assumption its theorem names: `PlannedInv` (nothing has come into the way of the plan),
`EmptyInv` (what a revert will remove is still empty) and `RecordedInv` for `OwnDirsOnly`, and for
`Converged` the pair `ApplyInv`, `LastInv`, which say what is left of a plan at each step and that
nothing is left at the end. `OnlyInv`, for `RevertKeepsOtherIdes`, needs a vault that is found. Theorem `ConflictsByOwner` assumes a single vault.

**TicketStateProofs.** The heart of `IndInv` is `FreshInv`: a process that nobody has overtaken, and that
did not guess, holds its command applied to the file as it is. So if no excused draft was ever saved, the file
is the ledger. `DraftInv` gives that what is saved is valid. `SettledForGood` uses both. `CommandsShareObject` is the refinement of `SharedObject`: by `FreshInv` a draft that nobody has overtaken
is the command applied to the file, which is `Saves`; by `DraftInv` any other draft is at least a state, which is all `Spoil` asks.

**RemotePolicyProofs.** `FreshInv` again carries the proof: a command that nobody has outdated knows what the policy
is, so that what it writes adds its change to the ledger and nothing else. Every request outdates all other
commands at work, which is lemma `OthersOutdated`. `BorrowedInv` is the strengthening that
`RestoredOrReported` needs: a fresh command that has read a temporary name has read it from a command that is still going to restore it.
`WorkInv` keeps what a command has checked on its copy until it is used; `EmptiesAreRequested` rests on it, and so does the
refinement `CommandsShareObject`: a fresh copy is the policy but for its temporary name (`FreshInv`), what was
not refused on the copy is not refused on the policy, and each request maps to `TakeEffect`, `Prepare`, `Spoil` or a stutter
by what it carries and whom it overtakes (`OthersOutdated`). Crashes, lost requests and lost replies map to `End` or to a stutter.

`RevertsLeaveNoLink` rests on one more invariant, `KnownInv`, about several commands: as long as no apply was cut short,
every link the framework made has a record by which revert removes it (`Names`), in the manifest or in the plan of the running
apply that will save it; what the manifest names belongs to registered IDEs and to offered skills, so that the next apply
plans for it again and takes its record over; and a running revert drops a record only with its link (`RevertKnows`).
The theorem assumes `Wary`, the constants of `MCWorkspaceQuiet`: with two vaults `MCWorkspaceMoved` is a counterexample.

**ReconciliationProofs.** The invariant follows the command: `Seen` (what an observation says is what was true when
its target was asked, but for the blurred ones), `Loaded` (the ticket is the file as it was, or the default),
`SinceRight` (the day worklogs are asked from), `Asked` (every target owed is still to come, being asked, or
observed), `Judged` (a report is what `compare_state` makes of ticket and observations) and `Idle`. From it `AlarmsReal`
and `NothingIsOverlooked` are proved code by code, without induction: each is a statement about one comparator on
observations that are true. `VerdictsReliable` adds the aggregation of statuses.

**JenkinsProofs.** `Types` and `Course` (what was met agrees with the verdict so far) give `ExitTells`. `Walk` gives `ListingsFaithful`:
a steady job the listing will owe is collected, or one of the folders above it is still to be
visited at a depth that leaves room for the rest, or was passed over. `Scan` gives `ScansComplete` and `UpgradesHold`: the records
so far tell all about the plugins done, the scan is flawed exactly when something could not be had, and whoever shares
a page or an entry that could not be had is flawed as well (`Flawless`, `Blemished`). Upgrades hold together because
a candidate of another plugin is newer than what is installed, that is new enough for a third one, and so by
`ComparisonIsTransitive` the candidate is, unless the three versions are `Confused`.

**JenkinsVersionsProofs.** How far `compare_versions` is an order, for versions of every length. `FirstPlace` says that the comparison
is what the first place says that says anything, `AtAntisymmetric` and `PlacesAreOrderly` what places say; the theorems
follow by taking the first place where one of two pairs differs. `Confused` characterises where the order is lost: at one place one version has a zero,
one has ended, and one has a word that announces no release. Versions of numbers and announced releases (`2.440`, `1.0-rc.2`) are
never confused, nor are versions of equal length. Plugin versions with a commit
at their end (`1.2.v3f0a`) need not be in either class: where these are mixed with zeros and with shorter ones
the exception in `UpgradesHoldTogether` can be met, and `ComparisonComesFullCircle` is such a case.

**Why commands end, as far as it can be proved.** Liveness under fairness is out of reach of the provers used, but what it rests on is not: that
work never comes to a standstill, and that no step is taken twice. Three pairs of theorems state these two halves.
`HoldersWork` and `CommandsGoForward`: a lock that is held is held by a process at work between locking and unlocking, and each step of a command
brings it nearer its end (`StepsLeft`) and moves nobody else. `WorkAlwaysDue` and `CommandAdvances` in `ReconciliationProofs`: of
the targets or systems left one comes first, and each step strikes one off for good, or fixes the day of creation once; what was observed is never observed
again. The same in `JenkinsProofs`: of the folders to visit one is deepest and what it adds is deeper still, up to `MaxDepth`; a plugin, warning
or entry is struck off, or gets its answer, or uses up a retry; what was asked for is never asked for again. That one of
finitely many comes first (`Least`) needs no induction: a non-empty set of naturals has a least element
by `WFMin` and `NatLessThanWellFounded`. These were tried with TLC on the instances of the runs before they were proved, and
have no run of their own.

The assumptions are named and stand in the modules that declare the constants: `AdapterAssumption`, `WithinAssumption`,
`FirstAssumption`, `ReconciliationAssumption`, `JobsAssumption`, `ScanAssumption`, `VersionsAssumption`, `OperatorAssumption` and those
of the other modules. They say only what kind of thing a constant is; `VersionsAssumption` that a version is a sequence of tokens without negative numbers.

Only model-checked: the liveness properties `CommandsEnd` and `ReconcileEnds`, as
liveness under fairness is out of reach of the provers used. Every invariant, action property and refinement of a passing run is proved.
What a recursive definition computes for every input would need induction over data; the models avoid it by
quantifying over sets, so that nothing else was left out on that account.

## Not modelled, and why

In `RemotePolicy`: a request that Automox carries out after the command has given up on it and ended;
the checks of `policy-set-groups` that its groups exist; answers that exceed the size limit.
In the other modelled parts: skills that are materialised as copies (their checksums decide
what a revert may delete); the seeding of configuration files; directories above a
destination and their cleanup; two applies at once; a failing `chmod` after the rename;
list values of `state set` that are no lists of decisions or blockers; schema versions; a revert
while the workspace is unregistered.
In `Reconciliation`: the Groovy twin, which was not compared with the Python code and of which nothing is claimed; the rules file,
whose severities are taken as they are shipped; the wording of the report. In the Jenkins part: the commands that change something
(builds and their polling, job configuration, the script guard), which only the Groovy runtime has, and `syntax-check` beyond
what its linter may come to. Odd names are a set, as which names are odd is a matter of characters.
The parts without a module are listed in PROJECT.json with the reason;
pure rendering and pure I/O will stay without one.

## Plan

In this order, most important first.

Done: the registry, the workspace, ticket states, policies, reconciliation, read-only Jenkins. Left:

1. Remote changes. A module `RemoteCreate` for what is checked and then created: Automox `worklet-create` and
   `group-create`, Jira comments (duplicate check, post, verify), Tempo worklogs; that a retry after a lost reply
   creates nothing twice, and where it can. In `RemotePolicy`, requests that arrive after their command has ended. Then Jenkins builds and job configuration, New Relic dashboards.
2. `Download`: the download client against others that create the destination; no partial file is ever
   at the destination.
3. `Polling` and paging: device queue and build polling against a deadline, with the liveness that a
   wait ends; events that shift between pages.
4. Composition of `WorkspaceLifecycle` with the registry: two applies, an apply and an
   `ides`, a revert and an `unregister`, with the loads outside the lock.
5. Status orders as pure operators, each checked against "the worst that was seen": `aggregateCheckStatus`,
   preflight, diagnostics; the order of workspace
   selection and of the launcher's runtime.
6. Copies, seeding and parent directories in `WorkspaceLifecycle`; malformed lists and schema versions in
   `TicketState`.
7. Proofs: the safety of the new modules; an abstract specification of apply and revert ("all that was planned, or a
   part that the next command completes") with its refinement; a class of versions that takes in those with a commit at
   their end.
