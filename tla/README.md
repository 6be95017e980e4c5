# A verification project for Repeater

Repeater is the firmware of a push-to-talk radio gateway ("Voip"). One gateway
is the master, the others are its slaves. Each has a radio (a carrier-detect
pin, a PTT relay, a sound card) and a network: UDP port 9000 carries control
messages, RTP from port 8000 the voice. When the user of one radio talks, its
gateway records and sends, and every other gateway keys its radio and plays.

This directory holds TLA+ models of that program, the TLC configurations that
check them on small instances, and theorems about them that TLAPS proves for
every value of the constants. Paths below are relative to
`src/Repeater/Repeater_Project/class/`.

## 1. Inventory

| Component | State | Operations | Modelled in |
|---|---|---|---|
| Channel arbitration (`MyRepeater.cpp`, messages of `CMaster.cpp`, `CSlave.cpp`) | per gateway `CD_Trigger_flag`, `Mulcast_Trigger_flag`, `playback_start_flag`; master `channel_busy_flag`, `status`, `timeout_flag`; slave `channel_applied_flag`, `slave_busy_flag`, `isGetStatus`, a semaphore | CD, timer and listening threads, handlers of apply, result, release, begin, end, local answer after 400 ms | `Channel`, `Floor` |
| Membership (`CMaster.cpp`, `CSlave.cpp`, `rtp_session_create`, `SaveMap`/`GetMap`) | `slavemap` with times, RTP sessions, `/opt/map` | register, heartbeat, age out, send map, save, restart | `Membership` |
| Voice pipeline (`MyRepeater.cpp`) | four `RingQueue`s, the flags above, `stop_send_rtp_flag` | record, encode, send, receive, decode and play threads | `AudioPipeline` |
| Queues (`fifoqueue.cpp`) | ring or list, indices, semaphore | push, take, clear | `VoiceFifo`, `RingQueue`, `FifoQueue` |
| Shutdown (`main.cpp`, `Stop`, `DisConnect`, `syninterface.cpp`) | `m_PleaseStopRepeater`, three events, each thread's place | signal, join, set event, delete | `Shutdown` |
| Mutexes (all of the above) | six mutexes, `slavemap`, `sessionmap` | every job of every thread as its sequence of locks and accesses, to the end of the radio's threads | `Locks` |
| Start-up, map file, configuration (`MyRepeater::Start`, `Connect`, `Monitor_Interface.cpp`, `json-file/MFile.cpp`, `GPIO_App.cpp`, `Myrtp.cpp`) | `/opt/map`, `/opt/config`, `gpio_config_flag`, `base_port`, the sessions' ports | read the configuration, read and save the map, open sessions, start threads, die and start again | `StartUp` |
| Protocol facade, socket wrapper, AudioAlsa, Speex, LED | - | forwarding, library and device calls | not modelled, see section 9 |
| AudioQueue | - | - | not compiled |

How they interact. `MyRepeater` starts ten threads and creates a `CMaster` or a
`CSlave` through `Protocol`; each of those starts a receive thread and a second
one (the master's silence monitor; a slave's heartbeat and status monitor) and
calls back `MasterOnDataFunc` or `SlaveOnDataFunc` for the channel messages and
the map. The handlers and the CD, timer and listening threads change the flags
under `flag_mutex`, start and stop the voice threads through three events
(`MySynCond`) and call down into the protocol to send. The voice threads share
four ring queues, and read the flags without a lock.

What is hard here:
* a dozen threads share flags that are tested outside the lock they are changed
  under (`Channel`, `AudioPipeline`);
* datagrams are lost, and two timeouts (400 ms for an answer, 55 s and 60 s for
  a talk) stand in for them (`Channel`);
* gateways crash and come back, the master from a file (`Membership`), which may
  hold half a text (`StartUp`);
* the receive thread runs before the rest of the gateway is set up, and port
  numbers are handed out and never given back (`StartUp`);
* callbacks run under the protocol's locks and call back into it (`Locks`);
* one signal has to bring a dozen sleeping threads to an end (`Shutdown`).

What makes each part correct: a busy channel always has somebody who will free
it, relays are keyed only for a voice, one gateway talks at a time (`Channel`);
nobody who is alive stays out of the map and nobody lacks a session to a member
(`Membership`); voice keeps its order, is not repeated and does not get out
after its talk (`AudioPipeline`, queues); a master that comes back knows its
members and reads no stranger from its file, and a gateway does not stop by
itself (`StartUp`); `Stop` returns and frees nothing that somebody waits on
(`Shutdown`); nobody waits in a circle (`Locks`).

## 2. Conventions

* A body the code executes under `flag_mutex` is one step; a condition it tests
  before it takes the mutex is a step of its own. Reads and writes of shared
  state without a lock are separate steps wherever a property can tell.
* Bounds are constants called `Max...` and appear in guards only. History
  variables are marked as such and never guard anything of the program.
* An operator `X_Y` is the operator `X` with a plausible programming mistake
  `Y`; put in place of `X` it makes the property it is paired with fail.
* `CHECK_DEADLOCK FALSE` is said where the system may really stop: users may
  stop talking, bounded counters run out, a stopped program is stopped.

## 3. Channel: who may talk

`Channel.tla` has a master and any set of slaves, all registered.

| Code | Model |
|---|---|
| `CDPollThreadFunc` 1060-1203 | `cdThread`: edge and 15 ms debounce in one step, then, on the decision of the first, the release or (`CDAsk`) the request as a second step |
| `TimePollThreadFunc` 1628-1696 | `timePoll`: sample of pin and clock, then the end of the talk |
| `MulcastPortPollThreadFunc` 1537-1616 | `rtpPoll`: the 60 s test, then the section under `flag_mutex` |
| `MasterOnDataFunc` 614-732 | request and release each as the tests (`GetChannelStatus`, `ReleaseChannel`) and the section under `flag_mutex` (`ReplyBusy`, `ReplyFree`, `EndSlaveVoice`), which runs on what was tested (`recvThread`, `asker`) |
| `SlaveOnDataFunc` 742-865, `CSlave::RecvThreadFunc` | answers, begin and end, one step each |
| `MonitorStatusThreadFunc` 567-598 | `monitor`: semaphore, 400 ms, test of `isGetStatus` and callback in one step (no other thread takes tokens) |
| UDP | a queue per link, in order, that may lose messages (`MaxLoss`) |

Simplifications, all noted in the module: `playback_start` stands for the flag
and the PTT relay, which the code drives together; `slave_busy` also for
`stop_send_rtp_flag`; the three statements of `GetStatus` are one step, and so
are a CD thread's two tests for a falling edge (1155, 1185); at the master the
second runs with the section, as only that thread sets `CD_Trigger_flag` there; a
datagram is neither duplicated nor overtaken. A limit runs out (`Expire`) only
when no message or decision is pending, as limits are tens of seconds. `fault`
is a history variable that notes a loss, an answer later than 400 ms, a talk
granted or ended on a flag that has changed since it was tested, a listener's limit before the talker's, and the end of a local
talk: a slave that talked only to its own radio releases the channel all the
same (`CDPollThreadFunc` 1135, `TimePollThreadFunc` 1677), and the master may be
holding it for another. `fault` guards nothing.

| Run | Instance | States | Shows |
|---|---|---|---|
| `channel_shared` | 2 slaves, 3 presses, no loss, up to the first fault | 461,230 | `TypeOK`; `OneTalker`: one gateway at a time sends its voice to the others; `TalkerIsKnown`: the master holds the channel for it; `OneRole`: none records and receives at once; `KeepsFloor`: the channel changes hands as `Floor` says |
| `channel_live` | 1 slave, 2 presses, 1 loss, fair threads, time passes | 137,943 | whatever goes wrong, `BusyHasOwner`: a busy channel always has a recording or receiving master behind it, `KeyedHasReason`, `GrantIsRecording`; `UserGoneStops`; `RequestSettles`; `ChannelIsFreed`, `RelayDrops`: both limits do free the channel and unkey the relays |
| `channel_end` | 2 slaves, 1 loss, violated | | `EndIsOfTheTalker`: a release is not checked for its sender |

Two slaves are what it takes for one to disturb another's talk; with three
presses a talk follows another while a third gateway is still answered, and it
was at three presses that the release of a local talk showed up as a cause of
two talkers. A loss is the only way to a local talk besides a late answer or
none. Slaves are interchangeable (symmetry in the run without liveness).
`channel_shared` does not go on from a state with `fault` (`UntilFault`), in
which `KeepsFloor` and the three invariants but `TypeOK` say nothing more.

`Floor` is what the arbitration promises, without messages and threads: a free
channel that nobody uses is taken by one gateway, which at some point is done
with it, and it is freed over the master's own voice at most. `TheFloor` maps
`Channel` to it: the `users` are the gateways that talk or have a grant or a
release under way (`Users`), so that a slave is done with the channel when its
release arrives, and `busy` is `channel_busy_flag`.

Fairness: the operating system schedules every thread, so each thread's steps
and the delivery of a datagram are weakly fair; a user need not press or let go,
and the limits run out only in `TimedSpec`.

Proved (`ChannelProofs`), for any set of slaves and any bounds: `TypeCorrect`
and `ChannelSafe`, from which `BusyIsOwned`, `KeyedIsExplained` and
`GrantIsLive`. The inductive `ChannelInv` is the types together with the three
safety invariants: they support one another (a talk's end frees the channel and
the relay in one section, and a thread on a stale decision finds either the talk
it meant, or a later one, and resets everything together).

`OneTalkerAtATime`, `TalkerKnown` and `RolesExclude` need more, as a talk is also
kept by messages under way. `TalkInv` says that the channel is held by nobody, by
the master's talk, or by one slave and by exactly one thing of it: the "free"
under way, the talk, the "release" under way, or the section in which the master
ends the voice. Each action takes one of these for the next, and no action makes
one while another is there (`OneHolder`). The master's limit as a listener can
only run out on a talk nobody holds (`Lost`), or `fault` notes it. `RoleInv` adds
the order of a link: every "begin" before a "free" has its "end" before that
"free", none has an "end" after it, and a slave with a request under way either
hears the talk for which the master holds the channel or has its end on the
link (`Asks`: from the decision of its CD thread to the master's answer). So a slave that is granted the channel has stopped listening.

`FloorIsKept` says that `Channel` implements `Floor`. Each action's proof names
the step it is (`FloorMove`): a press of the master's key or a grant is a
`Take`, the arrival of a release a `Leave`, the section in which the master ends
a talk a `Free`, everything else a stutter or, once `fault` is set, anything. That a `Take`
finds no user and a `Free` none but the master is what `TalkInv` adds to the
guards.

Three theorems state what no invariant of a run does. `LimitStands` and
`RequestIsTaken` are the safety parts of `ChannelIsFreed` and `RequestSettles`,
and hold whatever goes wrong: while a busy channel's limit has run out, one of the
master's timing threads has a talk to end, and nothing takes that away and leaves
the channel busy; and a slave without an
answer, its key still held, goes on to a local talk unless it already talks or
listens. `ReleaseEndsItsTalk` is the other side of the finding of `channel_end`:
until the first fault a release that arrives finds nobody talking and is heeded,
so that what it ends is the talk of its sender. One of the faults it excludes is
a grant on a stale `timeout_flag` (`ReplyFree`, section 10): such a talk's release
can be ignored, and the channel is freed by the master's limit only.

## 4. Membership: who is heard

`Membership.tla` counts time in units of 20 s; an entry of age 3 may be dropped,
one of age 4 is. A scan of the map (`Updatemap`) is a step per entry and stops
where the code gives `m_mapLocker` away. Crashes lose everything but the map
file; `SaveMap` can crash between emptying and writing it. `rtp_session_create`
erases elements while it iterates, so any non-empty part of the stale sessions
may be closed. Heartbeats between slaves are left out: they only set a time
nobody reads. So is a clock that is set back, for which `Updatemap` drops every
entry at once (`CMaster.cpp:570`); and the erasing of an old entry and the
sending of the map without it, which follows the unlock (574-577), are one step.

| Run | Instance | States | Shows |
|---|---|---|---|
| `member` | 2 slaves, 1 crash of any gateway, 1 loss | 693,451 | `TypeOK`; `SessionsReach`: no session to a member is ever missing; `FileIsMap`: when the receive thread rests, the file names the members; `SelfIsListed`: every map a slave gets names it; `EveryoneListed`, `DeadAreDropped`: after the last failure the map settles on the living; `ViewsAgree`: and so does every slave's view of it |

`ViewsAgree` is stated for behaviours without a loss: a slave never asks for a map
again. It also leaves out those in which the master dies.
Fairness: receive threads, monitor and heartbeat threads run, time passes;
nobody need switch a gateway on or off.

Proved (`MembershipProofs`), for any slaves, crashes and losses: `MemberTypes`,
`VoiceReaches` (SessionsReach), `FileIsKept` (FileIsMap), `SlaveIsListed`
(SelfIsListed), from the inductive `MemberInv` (`MemberSafe`) = types, what a scan may still
visit, the file, the sessions of master and slaves, and the maps under way.

`MembersAreTold` is the safety part of `ViewsAgree`: while no message is lost and
the master has not crashed (`Undisturbed`), whenever the receive thread is not
between a change of the map and its sending, the map a member has, or the last
of those on their way to it, is the master's. `ViewInv` adds that only a gateway
that runs was told anything; one that restarts is told nothing until the next map
is sent.
Both hypotheses are needed; TLC violates `ViewsFollow` without either, since
nothing that was lost is sent again, and a master that restarts takes its members
from the file and tells nobody.

## 5. Voice: pipeline and queues

`VoiceFifo` states what a queue of packets promises. `RingQueue` (the queue in
use) is shown to implement it, with every call one step, as each holds
`queuelock` throughout; `VoiceFifo!Overrun` is what `fifoqueue.cpp:318` adds to
a plain bounded queue. `FifoQueue` models the two other queues (list, slots,
semaphore), where push and its post, and wait and its take, are separate steps of
any number of threads. They are compiled, but no object of them is made:
`MyRepeater.h` 93-100 declares `RingQueue` and has `FifoQueue` in a comment next
to it. `Queues` puts one of each side by side (`kind` says which one is used).

`AudioPipeline` composes four such queues with the six voice threads. Each
thread takes, tests a flag, and passes on, in three steps; the end of a talk is
three writes (`Reset_RecordAndTimePoll_Event` and `Reset_Playback_Event`). When
talks begin and end is free, and so is a section that runs on a stale test: one
that begins a talk which another thread began, or ends one that has ended. This
covers what `Channel` allows.

| Run | Instance | States | Shows |
|---|---|---|---|
| `ring_accept` | violated | | `AcceptedIsKept`: with the tail at slot 0 a full ring takes a packet and loses all |
| `queues` | ring of 4 slots, 3 packets; list of 3 slots, 2 producers, 2 takers, clear | 31,692 | `QueuesTypeOK`; `ImplementsFifo`, `ListImplementsFifo`: both are the queue of `VoiceFifo`, through every wrap; `TokensCover`, `HeadMoves` of the list |
| `voice` | rings of 2, 1 talk, 2 packets recorded, 1 received | 464,746 | `TypeOK`; `InOrder`; `LateIsOne`: at most one packet passes a gate after it closed; `LocalStaysLocal`: a talk that began with `stop_send_rtp_flag` is not sent while it is the latest; `Conveyed`: no packet stays for ever between the threads |

A ring of 2 packets is full when both sources have pushed, which is when pushes
are refused or a ring overruns; the code's 30 slots differ in number only. The
run has one talk, over which listening goes on and off; that leftovers of one
talk meet the next is covered by the proofs, which are for any number of talks.
What the code does with leftovers in the PlayBack and Encode rings, which nobody
clears, is to play and send them in the next talk; no document says otherwise,
so no property does. Fairness in `voice`: the encode, send and decode threads
poll for ever; the record, receive and playback threads may be held by the
hardware.

Proved: `QueuesProofs` has, of the ring, `RingTypes` and `RingIsFifo`, the refinement, for
any number of slots: the packets in the ring, from tail to head, are the
abstract queue, and each call changes them as the abstract call does.
`PushOutcome` says what a push does in every state: `AcceptedIsKept`, which
`ring_accept` refutes, fails exactly when the ring is full and its oldest packet
is in slot 0. Of the list it has `FifoTypes`, `SlotsInTurn`, `NoOverwrite`, `EachHasToken`
and `ListIsFifo` for any depth and any number of threads: the list always holds
the slots used last, in turn, which is why a slot is not reused while it is
queued; the tokens, with those in the hands of threads, cover the list, as a
packet is queued before its token is posted and a token taken before its packet;
and the list of slots, read through the buffer, is the abstract queue.
`NoOverwrite` is stated by theorem only: a packet that was overwritten would not
be the one `VoiceFifo` has at its place, which `ListImplementsFifo` checks.
`QueuesTypes` and `QueuesKeepPromise` say all this of `QueuesSpec`, which the run
checks: each of its steps is a step of the queue `kind` names, and the other one
stays as it began.
`AudioPipelineProofs` has `VoiceTypes`, `AtMostOneLate` and `LocalTalkUnsent` for
rings of any depth and any number of talks and packets. Which packets may be in
which ring or hand is said by three sets (`Kept`, `Mine`, `Outgoing`) that only
grow, so that a packet that stays where it is stays allowed. `LateInv` says why
one packet at most is late: with the gate open, or its thread past it, none is.
A local talk stays here because `Outgoing` has none of its packets while
`CD_Trigger_flag` is set, and because the sender's test asks for that flag
(`LocalInv`): a packet that slips past the record thread between the three
writes of the talk's end meets a flag that is already down.

`VoiceOrderProofs` has `VoiceInOrder` (`InOrder`), under the same parameters. The
places a packet passes form two ways, to the network (`ToAir`) and to the
loudspeaker (`ToSpeaker`), each a sequence of sets of packets, and the invariant
says of each that whatever is further on was made earlier. A thread's step puts
on, moves one place, or takes off, and each of these three is shown once to keep
any way in order (`PutsOn`, `MovesOn`, `TakesOff`); a ring is then shown to be a
place whose own order agrees with it.

## 6. Shutdown and events

`Shutdown.tla` has `Stop`'s statements in order (`Plan`; a join changes nothing
and is the guard of the statement after it), the three events with the mutex and
flag of `MySynCond`, and seven threads with their place in their loop: testing
the flag, asleep, woken, in the body, ended. Master or slave is chosen in
`Init`. Radio, clock and network are free, but handlers keep their tests. A
section under `flag_mutex` is a step; spurious wake-ups may happen. Once
`DisConnect` has deleted the semaphore and closed the socket, a slave's key that
is pressed ends the process (`sem->SemPost()` at `CSlave.cpp:126`, through a
pointer to nothing), and a talk that begins or ends otherwise sends through socket
-1, which is undefined (`FD_SET`) and may end it: `ProcessDies`. The encode,
decode, RTP-send and heartbeat threads, which only poll a flag, and the deletion
of the objects after the last join are left out.

| Run | States | Shows |
|---|---|---|
| `stop` | 528,170 | `TypeOK`; `SetWakesAll`: a set event leaves none of its threads asleep; `FreedAfterWaiters`: socket and semaphore go after the threads that wait on them, the events after every thread; `QuietStopReturns`: `Stop` returns when it begins while neither the timer nor the listening thread is inside a round, unless the process dies after `DisConnect` |
| `stop_hangs` | violated | `StopReturns`: a thread inside a round resets the event `Stop` has just set (`MyRepeater.cpp:165`) |

Fairness: every thread, and `Stop` once it has begun; not the signal, not
spurious wake-ups and not the death of the process, so that no hang is excused by
a press that need not come. Proved (`ShutdownProofs`): `ShutdownTypes`, `EventWakes`,
`DeletedLast`. For the last, the invariant says that behind every join `Stop`
has passed, the joined thread has ended, and that an ended thread stays so.

Whether `Stop` returns is left to TLC, as the prover does no liveness, but not
why it can hang. A thread that `Stop` joins is `JoinedAwake` unless it sleeps
with nothing to come that wakes it. That is no invariant of the program, which
is what `stop_hangs` shows. Two theorems say how close it comes.
`HangsAtEvents`: it holds up to the join of the CD thread, whatever goes on,
since the receive and the CD thread sleep on nothing and the token of
`DisConnect` stays there for the monitor (`Leaving`).
`QuietStopMeetsNoSleeper`: once `Stop`'s first statement was reached with the
timer and the listening thread outside their rounds, it holds for ever after.
Then neither starts another round, every event that `Stop` sets after it joined
the CD and the receive thread stays set (`Quiet`), and a set event has no
sleepers (`SetWakesAll`). This is the safety part of `QuietStopReturns`.

## 7. Start-up, the map file and the ports

`StartUp.tla` has one gateway's process from `main` on, and what outlives it.

| Code | Model |
|---|---|
| `read_config_file` 167-200, `MFile::AnalysisConfig`, `updateConfig` | `ReadConfig`: "false" or no `isMaster` make a slave, anything else a master; without the file `MFile::Start` returns before it opens `/opt/map`, so that gateway is a slave that saves nothing |
| `MyRepeater::Connect` 584-604 | `MasterReadsMap` and the sessions that follow, then `Connect`: socket and receive thread |
| `config_hw` 348-358, `repeater_task_start` 938-985 | `ConfigHw`, `TaskStart` |
| `GPIO_App::ptt_onoff` and its kin | `UseGpio`: they exit while `gpio_config_flag` is not set |
| `MFile::SaveMap` 655-703 | `SaveMap` (build the text, empty the file) and `WriteMap` |
| `MFile::GetMap`, `AnalysisMap`, `updateMap` | `GetMap`, on what the file holds, cut to the buffer |
| `rtp_session_create` 1699-1793, `Myrtp::checkerror` | `CreateSession`, `MasterSession`, `CloseSessions`; a port that is taken ends the process |
| kill, crash, power | `Killed`, `PowerFails`; the next `ReadConfig` starts again |

The text is a sequence of fields, an address and a time for each member, as every
separator the code writes is one the parser splits at. `MFile` opens the file
without `O_SYNC` (238) and never syncs it (692-699). While the process is killed
or crashes this does not matter, as the file system keeps what was written. After
a power failure the disk may hold the text, that of a map saved before, or a
beginning of either, its last field perhaps cut: `PowerFails` takes any of
`Remains`, the beginnings of the texts of all maps, and sets `blackout` until the
next map is saved. What lies in memory
behind `GetMap`'s 1023 bytes is taken to hold no separator. When a map does not
fit `SaveMap`'s buffer, which is overrun before the file is truncated, the
process ends or goes on. Which member comes first in `std::map` is left open, as
nothing depends on it.

| Run | Instance | States | Shows |
|---|---|---|---|
| `start` | 3 members, 2 starts, 5 sessions | 594,251 | `TypeOK`; `FileReadsBack`: unless the power failed since, the file never names a stranger to the map saved last, and is that map after an undisturbed save; `StaysUp`: the process ends by itself in three ways only; `Resumes`: a master has a session to each member before it hears from one |

The numbers are scaled so that the hard cases come within reach: `BUF = 4` fields
is two members of three, for 1023 bytes, which 18 members always fit and 19 with
the longest addresses do not. 21 ports in steps of 6 from 6, with fixed ports 8,
10 and 15, give 4 sessions (`LAP`) ports of their own; the fifth gets one that
meets two of the fixed ones. In the code it is 65536 ports in steps of 20 from
10000 and `LAP = 15884`, which `RealPorts` proves: session 15884 gets port 0, and
sessions 16084, 16284 and 16334 the ports 4000, 8000 and 9000 that are taken.
Two starts let a file outlive its writer; liveness is not claimed.

Proved (`StartUpProofs`), for any members, texts and bounds and any ports that
keep `PortAssumption`: `StartUpTypes`, `FileIsReadBack`, `OnlyThreeEnds`
(`StaysUp`), `MasterResumes` (`Resumes`), and `RealPorts`, that the code's numbers
keep the assumption. The inductive invariant has what each phase of the start
implies (`BootInv`), the port of each session as the k-th of the counter
(`PortInv`), the file as a beginning of the text of a map, of the one saved last
unless the power failed (`FileInv`), and the sessions a starting master has or still has to make
(`ResumeInv`). `FileInv` has to reckon with an
exit too: after `LAP` sessions the main thread may find the port for all voice
taken, and end the process, while the receive thread is between emptying the file
and writing it; the file is then `torn` as by a crash.

## 8. Mutexes

`Locks.tla` gives every job of every thread as the sequence of its locks,
unlocks and accesses to the two shared maps, read off the call graph (callbacks
included), and runs the jobs against each other. When `Stop` sets
`m_PleaseStopRepeater` the radio's threads end after the job they do, and the
RTP-send thread then walks the sessions once more and destroys them, which takes
no lock; the threads of the protocol go on meanwhile, until `DisConnect`. `Silence` says whether a minute
without any heartbeat may pass. `NoDeadlock`: no threads wait for each other in
a circle; the race properties: which threads may read or write a map while
another writes it, for want of a common mutex. The private mutexes of `MySynCond` and `RingQueue`, held
for single statements, cannot take part in a circle and are left out.

| Run | States | Shows |
|---|---|---|
| `locks` | 347,952 | without silence, on master and slave: `NoDeadlock`; `OneSessionRace`: the voice is never sent while sessions change, and sessions are changed by two threads at once in one place only, by the RTP-send thread after its loop; `OneSlavemapRace`: `slavemap` is read while it changes in one place only, by the monitor thread of a slave |
| `locks_silent` | violated | `NoDeadlock`: the silence monitor calls back with `m_mapLocker` held while an application for the channel is handled |

Whether the gateway is the master is chosen in `Init`. The threads, jobs and
mutexes are those of the code, so the runs cover every interleaving of them; what
the proofs add is the reason. Proved (`LocksProofs`): `DisciplineKept`, that
every thread at all times holds only mutexes its remaining job gives back, takes
them in one order, and writes a map only with the mutex the map is for - but for
the RTP-send thread after its loop, to which the discipline gives a role of its
own. On a master `m_onDataLocker` is outside the order, and only the receive thread and
the silence monitor take it.
This is the inductive `LockInv`; it is shown of each job once, as it starts, and
kept by each lock, unlock and access, whichever job it is of. From it follow
`SessionsRaceAtExitOnly` (`OneSessionRace`), with and without silence;
`OnlyMonitorRaces` (`OneSlavemapRace`) and `NoCircle` (`NoDeadlock`) without it,
as the run has them; and `OneCircleOnly`, which no run checks: any circle has the
master's receive thread and silence monitor in it, so the deadlock of
`locks_silent` is the only one there is.

## 9. Not modelled

* `Protocol.cpp` forwards calls and keeps nothing. `socketwrap.cpp`,
  `AudioAlsa.cpp`, `myspeex.cpp`, `gpio.cpp` wrap system and library calls, and
  so do `GPIO_App.cpp` and `Myrtp.cpp` but for what `StartUp` has of them; the
  modules model what their callers see. jrtplib, ALSA and Speex are not in the
  repository.
* The settings other than `isMaster`, which are read once, before any thread
  runs, and never change.
* The LED thread, which writes pins and reads flags.
* In `Shutdown`, the threads that only poll a flag, and the frees after the last
  join.
* `AudioQueue.cpp` is not compiled; `saveConfig`, `setInterface`,
  `CompressionConfig` and `checkMapChange` are never called.

What stays with TLC: every liveness property (`UserGoneStops`, `RequestSettles`,
`ChannelIsFreed`, `RelayDrops`, `EveryoneListed`, `DeadAreDropped`, `ViewsAgree`,
`HeadMoves`, `QuietStopReturns`, `Conveyed`), as the prover does no liveness under
fairness. What safety there is in them is proved where it could be told apart:
`RequestIsTaken`, `LimitStands`, `MembersAreTold`, `EachHasToken` for `HeadMoves`,
and `QuietStopMeetsNoSleeper`.

## 10. Findings

Each of these is shown by a run in which TLC violates what the source says:

| Where | Run | What |
|---|---|---|
| `MyRepeater.cpp:703` | `channel_end` | a release from anyone ends the voice of whoever talks |
| `fifoqueue.cpp:318` | `ring_accept` | the ring's test for full compares an index before it is wrapped |
| `MyRepeater.cpp:165` | `stop_hangs` | `Stop` may wait for ever for a thread that reset its event |
| `CMaster.cpp:192` | `locks_silent` | the silence monitor and the receive thread take two mutexes in opposite order |

Each is bounded by a theorem, which says that there is no other way to it:
`ReleaseEndsItsTalk` (after a fault only), `PushOutcome` (a full ring with its
oldest packet in slot 0), `HangsAtEvents` and `QuietStopMeetsNoSleeper` (past the
join of the CD thread, and with a round under way when `Stop` begins),
`OneCircleOnly` (those two threads).

The models have eleven more behaviours of the code that a reader would not expect.
No property claims their absence; they are described here:

* `MyRepeater.cpp:1122`, `1666`: one talk may be released twice, by two threads
  that both tested `CD_Trigger_flag` before they took the mutex. In `Channel`
  this sets `fault`, so `OneTalker` says nothing afterwards.
* `MyRepeater.cpp:1135`, `1677`: a slave that talked only to its own radio
  releases the channel when it stops, which may be another's. This too sets
  `fault`, and is what `channel_end` shows.
* `MyRepeater.cpp:639`: a request is tested against `timeout_flag` before
  `flag_mutex` is taken. A limit that runs out in between frees the channel and
  leaves the flag set for the talk that is granted next: the following request
  resets `status`, and the release of that talk is ignored (691). `ReplyFree`
  notes this in `fault`; `ChannelIsFreed` says that the channel is freed even so.
* `MyRepeater.cpp:1517`: on its way out the RTP-send thread walks `sessionmap`
  and closes every session without `map_mutex`, while the receive thread, joined
  only later, may change it. `OneSessionRace` says that it is the only such place.
* `MFile.cpp:238`, `692`: nothing forces the map to the disk, so that a power cut
  can leave the beginning of any map that was written, with a gateway that has
  left since. `FileReadsBack` is about the starts without one (`blackout`).
* `CMaster.cpp:562`, `574`, `604`: a sender whose own entry was stale is erased
  by its own heartbeat, but counts as listed and is entered by the next one
  only. `EveryoneListed` says that this settles.
* `fifoqueue.cpp:187`: `ClearQueue` (of the queue class no object is made of) leaves
  the tokens of the packets it drops; a later taker gets one and finds the list
  empty, which line 257 comments with "no happen but must check".
* `CSlave.cpp:850`: `Stop` deletes the semaphore and closes the socket before
  the CD and the timer thread, which use them, are joined. A slave whose key is
  pressed in between calls through a null pointer (`CSlave.cpp:126`) and dies.
  `ProcessDies` is that step, and `QuietStopReturns` and `StopReturns` name it as
  the other end of `Stop`.
* `MyRepeater.cpp:323`: the receive thread runs before the GPIO is configured; a
  datagram about the channel in between ends the process (`GPIO_App.cpp:404`).
  `StaysUp` lists this end.
* `MyRepeater.cpp:1737`: the port counter is never given back. `StaysUp` lists
  the end it leads to.
* `CSlave.cpp:589`: a slave's monitor thread copies `slavemap` without the lock
  under which the receive thread refills it; `OneSlavemapRace` says that, without
  silence (section 8), it is the only such place.

## 11. Plan

Done, in this order: `Channel`, `Membership`, the queues, `Shutdown`, `Locks`,
`AudioPipeline`, `StartUp`, each with its runs and its proofs. Every invariant and
every refinement that a passing run checks is proved.

Worth doing next:
1. A talk as the composition of `Channel` and `AudioPipeline`: whose voice is on
   whose radio. Today the pipeline is checked under any order of talks.
2. `Membership` on top of `StartUp`'s file instead of an abstract one.
3. In `Channel`, datagrams that are duplicated or overtaken.
