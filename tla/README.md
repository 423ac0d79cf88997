# ADAPT Trap: a verification development

TLA+ models of ADAPT Trap's own code, the TLC runs that check them on small
instances, and TLAPS proofs that hold for every value of the constants.
`PROJECT.json` maps every definition to the lines it stands for and lists the
runs, the mutants, the findings and the hazards.

## 1. The system

Five honeypots on their own hosts write logs. Everything else talks through the
MongoDB database `adapttrap` on the management host; no two of its processes
share memory, and no write spans more than one document. Two parts of the
vendored honeypots are protocols of their own, with threads, timers and clients:
Cowrie's pool of virtual machines and Conpot's IEC 60870-5-104 server.

| Part | Code | State it keeps | Operations |
|---|---|---|---|
| Log forwarders | `cowrie_mongodb.py`, `honeytrap_mongodb.py`, `honeytrap_dockerlog_mongo.py` | position in a log (in memory) | read a line, make a document, insert it, restart |
| Nodepot-lite | `server.js` | uploads directory, the requests under way, `nodepot_logs` | connect, log in, take a file, hash it, log, restart |
| Normalizer | `normalizer_loop.py` | `last_ids`, `ip_to_ports` (in memory), `normalized_logs` | fetch by `_id`, find the address, tag, skip or insert |
| Back-fill | `normalized_logs.py` | `ip_to_ports` (in memory), `normalized_logs` | go through five whole collections, skip or insert |
| Honeytrap log parser | `parse_honeytrap_logs.py` | `normalized_logs` | go through one collection, skip or insert |
| Test log generator | `simulate_test_logs.py` | `normalized_logs` | insert fifty entries nothing was logged for |
| Predictor | `predictor_loop.py`, `adapt_trap_env.py` | `last_check_time` (in memory), `plugin_states`, `agent_actions` | check window, predict, compare, insert, update |
| Environment, trainer | `adapt_trap_env.py`, `train_sb3.py` | episode, model, `agent_actions` | observe, reward, end an episode, insert four documents after a run |
| Actuator | `main_actuator.py`, `utils.py`, five handlers | `last_action_id` (in memory), `processed` marks, `actuator_logs` | poll, dispatch, ssh, mark, log |
| Reset script | `reset_all_honeypots.sh` | honeypots, `plugin_states` | five ssh legs, four updates |
| CAPE forwarder | `nodepot_lite_mongo_forwarder.py` | lock and outcome fields of `nodepot_logs` | claim, find, hash, dedup, submit, write back |
| Dashboard, reports | `Code/dashboard`, summaries, plots | none | read only |
| Host scripts | `start_*`, `stop_*`, health check | processes, containers | start, stop |
| Cowrie backend pool | `cowrie/src/backend_pool`, its users in `ssh_proxy` and `telnet_proxy` | `guests`, timers, NAT bindings, the proxies' connections | produce, hand out, free, re-use, time out, destroy, recycle |
| Conpot IEC 104 server | `conpot/protocols/IEC104` | sequence numbers, timers, send buffer of a session | receive, answer, acknowledge, buffer, repeat, close |
| Other vendored code | the rest of Cowrie, Conpot, HoneyPy, Honeytrap, CAPE | | |

How they interact:

    honeypot log -> forwarder -> <honeypot>_logs -> normalizer -> normalized_logs
        -> predictor -> agent_actions (+ plugin_states) -> actuator -> honeypot
    upload -> nodepot_logs -> CAPE forwarder -> CAPE -> cape_results
    <honeypot>_logs -> back-fill, parser -> normalized_logs -> environment, trainer
    test log generator -> normalized_logs
    trainer, operator -> agent_actions;  reset script -> honeypots, plugin_states
    attacker -> Cowrie's front end -> pool server -> pool -> virtual machine
    station -> Conpot's IEC 104 session (one greenlet, its timers others)

What is hard in it:

* **Interleaving through the database.** Every pair of a read and a write, and
  every pair of writes, can be split by another process: insert of a decision
  and update of `plugin_states`, duplicate check and submission, `processed`
  mark and `actuator_logs` entry.
* **Crashes.** No process catches a database error at top level; all in-memory
  cursors are lost, locks and half-done work stay in the database.
* **Order.** Newest-first polling, client-made ObjectIds inserted later,
  windows over timestamps of another host.
* **Time.** The two-minute expiry of actions, the thirty-second ssh timeout, the
  ten-minute lock, the sixty-minute duplicate window, the pool's timers, T1, T2
  and T3 of a session.
* **Threads.** The pool's first iteration runs in a thread beside the reactor
  that serves requests; T2 of a session runs in a greenlet beside the one that
  sends.

What makes each part correct:

* Control loop: a command goes out once; a log entry never runs ahead of its
  mark; `plugin_states` follows the predictor's decisions and, when decisions
  are applied in order, the honeypots; nothing the actuator knows starves.
* CAPE forwarder: one worker per document; a document has one outcome; what
  says *forwarded* was accepted, or answered as if; every upload is settled; no early repetition.
* Telemetry: nothing is skipped or doubled without a named reason; windows leave
  no gap; what arrives in time is normalized in the end.
* Learning: a tag says what its writer really saw; a run writes a document once;
  rewards and decisions follow from what is in `normalized_logs`.
* Pool: the counts are those of the connections; no used machine is handed out as
  fresh; no machine is destroyed under a client or forgotten; ports lead to it.
* IEC 104: every accepted frame is acknowledged; timers watch what is owed, no
  more; answers keep their order through a stopped transfer.
* Nodepot-lite: what is logged of an upload is what was sent, and the forwarder is
  exposed to nothing it was not made for.

## 2. The modules

### HandlerMap

Constant tables: `PLUGIN_HANDLER_MAP` seen from the honeypot's side (the second
of two `http` keys wins), what each handler accepts, and `StatusOf`, the value
`update_plugin_state` stores.

### ControlLoop

| Variable | Code |
|---|---|
| `agentActions` | `agent_actions` in `_id` order; `source` tells the writer |
| `pluginStates` | `plugin_states`; a missing entry reads "enabled" |
| `actuatorLogs` | `actuator_logs` |
| `predictor`, `trainer`, `actuator`, `reset` | where each process is, and its locals |
| `lastActionId` | `last_action_id` |
| `switch` | what the last command that took effect left on each honeypot |
| `late` | remote commands whose ssh client was killed by the timeout |
| `sent`, `redo`, `torn` | history, read by properties only (`torn`: documents `plugin_states` was not moved along with) |

One action per database call or remote command. `Predict` allows any action
vector: the model's choice is not restricted. `ActuatorSend` is `ssh_exec` with
the keyword test of `log_action`: a command takes effect, fails, or times out
here and still runs there; the reported flag is independent of the remote exit
status, as in the code. `ResetHoneypot` and `ResetPlugin` are the legs of the
script, in its order. Crashes are database errors, which end the process; it is
started again with fresh locals.

Abstracted: commands are an on/off switch per honeypot, ages are ticks,
`reward`, the training log and messages are left out.

### CapeForwarder

`logs` holds the upload events with the lock and outcome fields, `stored` the
content on disk of each, `worker` the locals of each process, `tasks` what CAPE
accepted; `lapsed` and `misread` are histories that properties read. `Claim` is the atomic `find_one_and_update` with the filter Python
really builds (the first `$or` key is overwritten). `FilesFor` is the search
order of `find_file_for_event`. `Post` is a submission with what became of it:
CAPE took the file or not, and answered or not. What counts as an answer is what
`submit_to_cape` lets pass: any status but an error, with a body that is not
JSON, or names no task, or no `error`. So an answer may be no acceptance
(`misread`). `WriteFails` follows the nesting of the `try`
blocks: a raising update of a duplicate goes on to submit, any other goes to the
failure branch. The update may have been applied all the same (its answer was
lost): the document is then settled and unlocked while its worker goes on with it,
which `lapsed` remembers as it does a stale lock. Here an upload is one step of `server.js`, and files may be removed or
overwritten at any time (`FilesChange`); `UploadPipeline` shows that the server
does no more than that.

Abstracted: sums are model values; the
batch of ten claims without a pause is left to the scheduler. A document without
a sum (`real_sha = "unknown"`) is not modelled: the server always logs one.

### LeasedQueue

What the forwarder promises, without files, sums or a database: jobs are
offered, leased, accepted, settled; a job is with one worker at a time unless
its lease lapsed, done only after it was accepted (or said to be), and not handed
out again once discarded. A holder may settle its job and be told that it failed
(`Unaware`): it keeps the job, whose lease has lapsed. `CapeForwarder` holds the refinement mapping (`Queue == INSTANCE
LeasedQueue WITH ...`) and states it as the property `IsLeasedQueue`.

### NodepotServer

| Variable | Code |
|---|---|
| `database` | `logs` in `server.js`: set, or never to be set |
| `requests` | what each request's handler holds between its awaits, and the client's content |
| `disk` | the uploads directory, by stored name |
| `uploads`, `others` | the documents it inserted: uploads, and the rest |

A request is numbered as it comes, and its stored name with it: `Date.now()` and
the client's name make a new one, unless a request of the same name came in the
same millisecond (`NamesCollide`). Between the steps of a request - multer opens
the file, closes it, the handler reads and hashes it, logs it - Node runs those
of others. Uploads break off or exceed the limit, the insert fails or has no
collection, and `start_nodepot.sh` replaces the container, which has no volume.

Abstracted: multer and the file system are external: a file is what was sent,
or `Partial`. Of several files in one request only the first is logged; the rest
stay on disk and no document names them.

### UploadPipeline

`NodepotServer` and `CapeForwarder` together: the forwarder's `stored` is the
server's `disk` under the names of the logged uploads, a server step that logs an
upload appends to `logs`. `IsForwarder` states that this implements
`CapeForwarder` with the server's actions as its `Upload` and `FilesChange`. So
what is checked and proved of `CapeForwarder` holds of the pipeline, as far as it
does not ask that nothing has failed: every file the server damages counts as one of
the abstract module's faults (`damage`). The forwarder's search by name also
finds files no document names (`nodepot_lite_mongo_forwarder.py:74`); the models
let it find those of logged uploads only.

### Telemetry

One source collection with forwarders of both kinds, the normalizer's cursor on
it, and the predictor's window. An ObjectId is `<<second, process, counter>>`
under the lexicographic order, made in the forwarder (`Read`) before the insert
(`Insert`). A pass of the normalizer works on the documents it fetched (`batch`),
as the first batch of a cursor does; `Take` moves `last_ids` before the insert,
as line 116 does. `CheckStart` reads the time, `CheckEnd` queries and moves
`last_check_time`.

What stands in a line as `key=value` replaces fields of the document the docker
forwarder makes (`honeytrap_dockerlog_mongo.py:33-35`). Three of them matter
downstream, and a `Line` says which it sets: `raw_log`, from which the normalizer
takes the address; `timestamp`, which is then a text and never in a window of
dates (`InWindow`); and `_id` (`Texts`), which may be taken already (`Taken`: the
insert raises, the line is gone) and is of another type than an ObjectId: `$gt` compares values of
one type only (`Selects`), so a cursor that has come to rest on a text passes no
ObjectId until the normalizer is started again. `Awaited` says whether the cursor
will still come by an id; what is inserted elsewhere is `late`.

Abstracted: a line either has an address and counts for the predictor, or not.
Blank lines, which the docker forwarder skips, lines read before they are
complete, and an `_id` that is empty are left out.
The five collections have independent cursors, so one stands for all. The
action half of the predictor's cycle lies between the query and
`last_check_time = now`; nothing in between reads or writes this module's state.

### Scoring

Pure operators: what each of the three programs takes from a line (a line is a
sequence of addresses, each in the form it stands in), the tags it gives, and
what `adapt_trap_env.py` and `train_sb3.py` make of the newest entries:
`Reward` (counted in halves), `DecisionFor`. The observation vector is left out:
it feeds the policy only, and no reward depends on what that does.

The programs do not agree, and the operators keep what each does. The loop
passes over `.135` to `.139`, but not when the address stands in brackets; the
back-fill's list lacks `.135`; the parser's has only `.135` and `.138`. The loop
tags before it remembers a port; the back-fill remembers before it tags, and
only Cowrie's. An address not found is `"unknown"`, but `""` and `None` in the
parser's entries, whose list of tags is under a key nobody reads.

### Learning

| Variable | Code |
|---|---|
| `arrived` | the source collections' documents in `_id` order |
| `normalizedLogs` | `normalized_logs` in insertion order |
| `loop`, `backfill`, `parser` | each program: number of its run, collection in turn, documents fetched, `last_ids`, `ip_to_ports` |
| `trainer` | `AdaptTrapEnv` and the training: steps, sum of rewards, last finished episode |
| `decisions` | what trainings decided |

One action per query and per document; a program may be cut short and started
anew at any of them. Equal timestamps leave MongoDB free in what the newest 50
are: `Recents` is the set of all answers. Timestamps are in no order that the
programs keep, so a text among them, which sorts before the dates, is one more
early time. `Simulate` inserts an entry of `simulate_test_logs.py`, between any
two steps of the others. The reward is read apart from the
observation, as `step` and `_get_observation` query separately, and does not
depend on the action taken, as in the code; so the policy is left out.

Abstracted: tags and protocols no program reads; the PPO update; documents that
arrive behind the cursor (in `Telemetry`); what becomes of a decision (in
`ControlLoop`).

### BackendPool

| Variable | Code |
|---|---|
| `config` | `set_configs` and the NAT setting |
| `guests`, `nextId`, `anyUp`, `ready` | fields of `PoolService` (`guest_id`, `any_vm_up`, `is_ready`) |
| `chains`, `nextCall` | the producer loops, one per `start_pool`, and the timer `loop_next_call` |
| `recycle` | the timer of `restart_pool` |
| `bindings` | `NATService.bindings` |
| `vms` | every machine ever booted and what befell it (`past`: history) |
| `sessions` | a connection: asking, served, leaving, or lost with its answer on the way |

What runs in the reactor's thread is one step: a request, a free, a re-use, a
later iteration. `start_pool` runs the first iteration in a thread of its own:
there, sweep, creation, boot and publication are steps between which requests
fall. The sweep of an iteration is written as operators of the list (`Doomed`,
`Unhealthy`, `Checked`, `Staying`, `Swept`), which the first and the later
iterations share. `Reached` is the machine behind the ports a session was told.
What befell a machine that the properties must excuse is a tag in its `past`:
`hung`, `stopped` with the pool, `undead` (its destruction failed), `mistaken` (a
free of it was meant for another machine of the same id), `misled` (a binding of its
id was still that of an earlier machine), `reused` (it went back to the free ones
with the addresses of its old clients). Machines may hang, fail to boot, or fail to be destroyed (the error is
swallowed and the guest dropped).

Abstracted: time, so any machine handed out may have timed out;
libvirt, snapshots and addresses of machines; the bytes of a proxied session;
`has_connectivity` of a port that is not configured. Recycling does not begin
while a first iteration is still under way, which the period of 1500 s
(`etc/cowrie.cfg.dist:208`) is taken to be longer than.

### Iec104

One session: `pc` and `todo` are the server's loop and what the handler (a
generator) has yet to yield; `ssn`, `rsn`, `ack`, `telegrams`, `allowDT`, `t2`,
`sentmsgs`, `buffer` are the handler's fields (`sentmsgs`, a list in the code,
is a set: nothing reads its order); `seqOf`, `order`, `acked`,
`accepted`, `told` are histories the properties read. Each frame is sent by a
step of its own (`SendNext`), between which T2 and T1 may fire. `SendNext`
stops T2 and starts T1 as the code does; STARTDT sends the buffer and does not
clear it; numbers are compared as integers.

Abstracted: register values (how many answers a command has is a number),
framing, time: the template has T2 = 10 s, T1 = 15 s, T3 = 20 s, so T3 never
fires while T2 or a T1 runs. The station acknowledges only what it was sent;
an acknowledgement of more is met after the wrap. The code counts numbers in steps of two, the model
in steps of one. Left out: an S frame of T2 that finds the socket full.

## 3. The runs

| Run | Shows | Bounds |
|---|---|---|
| `control_core` | `TypeOK`, `LoggedIsProcessed`, `InOrderAgreement`, `EventuallyProcessed` | the predictor with one plugin and an operator's documents for a plugin Conpot's handler refuses and one nobody knows; 3 documents, 2 instants, expiry at once, one crash |
| `control_writers` | `SentTwiceOnlyAfterCrash`, `DecisionsAlternate`, `StatesTrackDecisions` | 3 documents, one training run, one reset, one fault, one crash |
| `cape_core` | `TypeOK`, `ForwardedWasAccepted`, `OneOutcome`, `ExclusiveUnlessLapsed`, `SpacedResubmission`, `IsLeasedQueue`, `EventuallySettled` | 2 workers, 2 uploads of one sum, lock and window of 1 tick, 3 instants, 6 submissions, one fault (an update that raises after it was applied and an answer that is no acceptance are two of them), one crash |
| `upload_core` | `TruthfulUnlessShared`, `IsForwarder` | 2 requests with 2 contents, 2 mishaps of the server, 1 worker with one fault and one crash, a lock that is stale at the next instant, 2 instants, 2 submissions |
| `telemetry_core` | `TypeOK`, `TailersNeverRepeat`, `FollowersSkipNothing`, `NormalizedOncePerRun`, `PassedIsHandled`, `MissedOnlyWhenLate`, `EventuallyNormalized` | one forwarder of each kind, a look-back of one tick, one line of three kinds (ordinary; without the address it had; with a timestamp and an `_id` of its own), 2 instants, one fault, one crash |
| `learning_core` | `TypeOK`, `PortScanIsEarned`, `OncePerRun`, `EveryAddressPays`, `FedTrainingDisables` | 2 collections (a connection logged by Cowrie, a line of Honeytrap's with all fields), 2 documents, one test log, one attacker, 2 ports, a limit of none, the newest 3 of equal timestamps, episodes of 3 steps, thresholds 0 and 1; one restart, run and training |
| `pool_core` | `TypeOK`, `CountsItsHolders`, `AvailableIsPristine`, `NoEvictionUnderClient`, `ConsistentView`, `PortsLeadToTheMachine`, `NoOrphans` | 2 connections of 1 or 2 addresses, 1 or 2 machines, with and without NAT, ids that wrap at 2, one fault, one recycling |
| `iec_core` | `TypeOK`, `AckIsPending`, `WatchedAreOwed`, `AnswersInOrder`, `EventuallyAcknowledged` | numbers that wrap at 4, window 3, buffer of 2, up to 2 answers to a command; 3 frames accepted, 4 made, 5 sent |

Why this is enough to meet the hard cases. Three documents are what it takes to
have an older one waiting behind two newer ones; two or three instants let a
document expire and a lock go stale while its holder is at work, and put a whole
window between two submissions; one crash or fault can fall between any two
steps. (That the update which buries a missing file raises takes two, a lost file
and the fault: `upload_core` has it, where the server loses the file.) Two requests
are what it takes to share a name, and two mishaps to collide and break off. One line stored by two forwarders makes two documents whose ids and
inserts come in either order, and a forwarder that is restarted makes a third,
whose `_id` may be taken or of the other type. Two
connections are enough to share a machine, to leave it in either order, and to
hold one of before the recycling beside one of after; ids that wrap at 2 are
used again within that. A buffer of two overflows with one command's answers, and
five transmissions pass the wrap of the numbers. With a limit of none the second
port of an address is already a scan, for the back-fill the first; equal
timestamps make every choice of the newest entries possible. Two lines are all
this run logs; the rules for brackets, tuples, heartbeats and the other
collections are in the theorems, which hold for any lines. Larger instances
multiply these cases and add none that the properties tell apart; the safety
properties named in section 5 are proved without bounds.

Deadlock is checked but in the pool's and the IEC runs: there every connection may
have ended and every bound be used up, and a session ends.

Runs that must find a violation, each against a sentence of the repository
(quoted under `findings`):

| Run | The code does |
|---|---|
| `control_lifo` | applies the older of two decisions last |
| `cape_selfdup` | finds a document to be a duplicate of itself |
| `pool_restart` | stops the pool at a request that finds no machine; the recycling then fails on the timer that was cancelled already, and the pool stays stopped |
| `iec_window` | returns bytes at the w-th telegram where the server iterates over frames: the session ends, nothing is acknowledged |

The models carry further behaviour of this kind, which the properties above
name as an excuse rather than refute in a run of its own: a write-back does not
ask whether the lock is still the writer's, and one that is applied and raises
leaves a settled document with a worker who goes on to submit it or to call it failed
(`OneOutcome`, `ExclusiveUnlessLapsed`), an answer that is no error counts as
acceptance (`ForwardedWasAccepted`),
documents inserted behind the cursor are passed over (`PassedIsHandled`), a
forwarded document stays claimable (`SpacedResubmission` says how far apart its
submissions are), ssh and telnet share one flag, and the trainer and the reset
script change honeypots behind `plugin_states` (`InOrderAgreement`), a log
normalized after the check that covered its timestamp is never counted, nor one
whose line set the timestamp (`MissedOnlyWhenLate`), a text in `_id` keeps the
cursor from ObjectIds (`PassedIsHandled`), the reset script leaves Conpot stopped and queued
documents in place (`ResetEffect`, `ResetPlugin`), a late free can be meant for
an earlier machine of the same id (`"mistaken"` in the pool's properties), a
binding that an earlier machine's client still holds sends the next client of
that id to the earlier machine's ports (`"misled"`; the binding is found by id
alone), a machine that goes back to the free ones keeps the addresses of its
clients, so that an address can end up with two machines (`"reused"` in
`ConsistentView`; it takes more addresses than the run has, and was met when the
invariant was proved), and after the wrap, or a second STARTDT, timers watch
frames already acknowledged (`WatchedAreOwed`).

## 4. Fairness

* `ControlLoop!FairSpec`: weak fairness of the actuator's steps. Its loop
  has no exit but an exception, after which it is started again; the predictor,
  the trainer and the operator owe nothing.
* `CapeForwarder!FairSpec`: weak fairness of each worker and of time. A worker
  loops for ever and locks expire by the clock. Uploads and CAPE owe nothing.
* `Telemetry!FairSpec`: weak fairness of the normalizer's steps.
* `Iec104!FairSpec`: weak fairness of sending and of T2: gevent runs a greenlet
  that can write and a timer that is due. The station owes nothing.
* `BackendPool!FairSpec`, for `pool_restart` only: weak fairness of the recycling
  timer and of each producer chain. So what that run shows is not that a timer
  never came.
* `Learning`, `NodepotServer` and `UploadPipeline` have no liveness property, and no
  fairness.

Crashes and faults are bounded by constants in every run, so the liveness
properties read: once things stop breaking, it happens.

## 5. What is proved

Every theorem is `Spec => []P`, for every value of the constants that meets the
named assumption of the module (types of the bounds; no assumption bounds
sizes); that of a refinement is `Spec => Abstract!Spec`. Every safety property of
the passing runs, and both refinements, are stated by a theorem. Type correctness
is proved first and used everywhere.

**ControlLoopProofs.** `TypeCorrect`; `LoggedImpliesProcessed`; `NoSecondCommand`;
`PluginStatesFollow`; `OppositeDecisions`; `AgreementInOrder`. `LoggedIsProcessed` needs to know that
the document being logged is already marked (marks are never removed).
`SentTwiceOnlyAfterCrash` needs the count of commands of each document tied to
where the actuator is: an unmarked document that is not held has been sent only
if it was held by an actuator that died. `StatesTrackDecisions` and
`DecisionsAlternate` are proved together: a document is inserted only when
`plugin_states` disagrees with it, and `plugin_states` agrees with the newest
decision unless torn, so the new one opposes the last. `AgreeInv`, for
`InOrderAgreement`: while nothing failed and only
the predictor wrote documents, every processed document has been logged or is
about to be, and the honeypot of one plugin is as the last logged document of the
plugin says (`SwitchFollows`); `plugin_states` is what the newest decision says,
by `PluginStatesFollow`, and applied in order the two documents are one.

**CapeForwarderProofs.** `TypeCorrect`; `LocksExclude`; `OutcomesExclude`;
`ForwardedMeansAccepted`; `ForwarderIsLeasedQueue`; `SubmissionsAreSpaced`. The lock
invariant adds to exclusion that the
document of every working worker is locked, unless its lock was once taken over or
released by an update that raised;
without it exclusion is not inductive, because a claim only looks at the lock.
Acceptance needs that a worker about to record has an entry in `tasks` with its
document and sum, or one in `misread`, and that entries are never removed.

`ForwarderIsLeasedQueue` is `Spec => Queue!Spec`. The initial state maps to an
initial state; each action maps to one of the queue's or to a stutter, from the
invariants above (who settles a job holds it; a job recorded was accepted).

`SubmissionsAreSpaced` rests on `SpaceInv`: while nothing has
failed, what is on disk is what was logged and its sum is the one a worker asks
about; and unless a stale lock was taken over, a document carries the time of its
last submission, or its outcome is still to be written and its lock is there
(`Noted`). So the duplicate check of the next claim sees it, and a worker about
to submit knows that no submission is recent (`Clear`).

**NodepotServerProofs.** `TypeCorrect`; `LoggedIsWhatWasSent`. `TruthInv` says of
every request with a stored name of its own that from the closing of its file to
the end that file is what its client sent, or gone, and that the sum it holds
is that content's; and of every document that its request is done. It is inductive
because a name that is one request's own has been so from the start, and a step
touches only the file of the request that takes it.

**UploadPipelineProofs.** `ComponentsCompose`, `Spec => IsForwarder`: server and
forwarder together are a behaviour of `CapeForwarder`, for any contents, names,
workers, windows and bounds (`PipelineAssumption`, `ServerAssumption`: types
only). A step of the server rewrites files or logs one upload (`ServerOnwards`):
if it does no damage it is a stutter or `Upload`, and if it does it is
`FilesChange` or an `Upload` at fault. The forwarder's steps are the same in both,
their faults counted apart. What has to be shown is that the damage stays within
the bound on the abstract faults, three for each request. `DamageInv` counts it
against the requests that are closed, that are done, and whose file is gone:
every damaging step takes some request into one of these sets, and no step takes
any out. A name collision truncates another's file but brings a request without
one of its own; a restart does damage only if a file was there. `ServerInv` gives
the upload a client's name and lets a request log once, so that there is room for
its document (`RoomToLog`). With `CapeForwarderProofs`, read with the same
substitution, this says that exclusion, acceptance and one outcome hold of the
two programs together; the substitution of a module's theorems is beyond
the prover and is left to the reader.

**TelemetryProofs.** `TypeCorrect`; `TailsStoreOnce`; `FollowersAreComplete`;
`NormalizedOnce`; `CursorLosesOnlyTheLate`; `WindowsMeet`.
The cursor theorem rests on three facts
that are inductive together: what has been fetched is ahead of the cursor; what
is ahead of the cursor but was not fetched comes after all that was, or was
inserted late; no id is the one that stands for none, so a restart from the beginning
reads everything. It uses that the order of ids is transitive and irreflexive, and
that what the query still comes by it came by before (`AwaitedMoves`).

`NormalizedOnce` counts the entries of a document, and the one in hand, against
the runs of the normalizer: within a run, what has an entry is behind the cursor.
It needs that the collection takes no second document of an id (`StoreOnce`).
`WindowsMeet` is about logs that carry a date.

**Iec104Proofs.** `TypeCorrect`; `AcknowledgementPending`; `AnswersKeepOrder`;
`OwedIsWatched`. For any modulus, window and buffer. `OrderInv` says, besides the property, that the
buffer's frames are in the order of their making, that while data transfer runs
everything in it was transmitted, and what the handler may have yet to yield:
the buffer again, answers newer than any made, or confirmations. `WatchInv`:
until the numbers wrap or a frame is sent twice, the next number is that of the
transmissions made, the k-th transmission has number k - 1, and there is a timer
for each not yet acknowledged and no other. It needs `OrderInv`: a frame that
is buffered gets the number 0, which would spoil the numbering were it one that
was already transmitted.

**BackendPoolProofs.** `PoolTypeCorrect`; `CountersAreRight`;
`FreeMachinesAreClean`; `ClientsKeepTheirMachine`; `OneAddressOneMachine`;
`PortsAreRight`; `NoMachineIsLost`. For any sessions, addresses, sizes of the pool
and wrap of the ids (`PoolAssumption`: types, and finitely many sessions). The list of
guests is filtered, extended and updated by place, which no invariant speaks
about: first a state is shown to be well shaped (`Structure`: no machine twice in
the list, or listed and in hand of a producer), then each step of the producer to be
of a kind, `Machinery`, that speaks of guests by their machine, and each
invariant is carried over that kind and over the steps of the sessions. In
layers, each resting on those before:

* `Linked`: who holds a listed machine knows its id, and the guest its address;
  `Powered`: what a machine's power says about its past; `Remembered`: what
  `prev_state` can be, given the count.
* `Counted`: the count of a guest is the number of holders, unless mistaken. The
  state alone does not say it, as an unhealthy guest keeps its count.
* `Pristine`: besides the property, that a guest to be set back to `available` by
  its next free was dirtied only by the session that leaves, if at all.
* `Forwarded`: the count of a binding is the number of clients of that id, also
  when they hold different machines; a client that is led elsewhere and the one whose
  ports it reaches are both tagged.
* `Consistent`: the addresses of two listed machines are disjoint, unless one moved.

The proof changed the model: the tags `misled` and `reused` were found when
`PortsLeadToTheMachine` and `ConsistentView` turned out to hold of the bounded run
only.

**LearningProofs.** `TypeCorrect`; `PortScans`; `OnceARun`; `AddressesPay`;
`FedTrainings`. For any lines, limits and lengths of an episode
greater than twice the higher threshold. `PortScans` needs that a memory is exactly what its
process stored (`LoopRemembers`, `BackfillRemembers`) and that the same holds of
every entry when it was tagged (`AllEarned`); `OnceARun` that what a process has
yet to take is ahead of all it stored in this run (`Ahead`). `FedTrainings`
carries the sum along with the steps taken: an address in every step is half a
point a step. The entries of the test log generator belong to no program, carry no
`port_scan`, and count like any others for rewards. All were checked by TLC before they were proved.

Out of the prover's reach and only model-checked: the liveness properties
(`EventuallyProcessed`, `EventuallySettled`, `EventuallyNormalized`,
`EventuallyAcknowledged`), and the violations, for which TLC's trace is the
evidence.

## 6. Not modelled

* Dashboard, log checks, summaries, plots: they change no state that other parts
  read. The legacy agent: nothing imports it.
* Start, stop and health scripts: command lines run by hand on other hosts, whose
  effect the actuator's and the reset script's switch already stands for; a model
  would restate each `pkill` pattern.
* Learning itself (numpy, stable_baselines3) is numeric, and the predictor's
  trigger is a threshold on a count.
* CAPE is a service: what the forwarder asks of it is in `CapeForwarder`.
* The vendored honeypots are by far most of the repository's lines: emulated
  shell commands, fake file systems, protocol parsers and frame layouts, each a
  function of one input, without shared state, order or failure to check, and not
  changed by ADAPT Trap. A model of them would be a transcription. Of what has
  such state, the pool and the IEC 104 session are modelled; the rest is in
  section 7. So the share of all lines the map covers is small; of
  `Code/`, Nodepot-lite and the forwarders it covers the control of every program
  that writes what another one reads, but the host scripts above and the legacy agent.

Hazards without a property say why in `PROJECT.json`.

## 7. What could come next

1. Conpot's FTP session: `recv_file` waits for data without a timeout while it
   holds the lock of the virtual file system.
2. Cowrie's fake file system under several commands of one session, and the
   limits on downloads.
3. `HoneypotHosts`: services, containers and logger units under start, stop, reset
   and the actuator's commands; which sequences leave a honeypot up without its
   logger.
4. `ActuatorTiming`: the ten-second poll, the thirty-second timeout and the
   two-minute expiry in one clock: how many decisions can queue before one expires.
5. `Telemetry` and `ControlLoop` composed through the predictor's cycle.
