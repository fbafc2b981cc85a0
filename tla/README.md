# Verification of the streaming server

TLA+ models of the protocols and shared state of this repository: the RTMP
ingest inside `mediaserverd` from the bytes of a publisher to the frames handed
to the camera threads, the local socket between SpringBoard and `mediaserverd`,
and the account server. TLC checks the models on small instances, and TLAPS
proves the properties listed [below](#proofs) for every value of the constants.
Paths without a directory are under `src/vcamera_source`, those of the account
server under `src/vcam-server`.

Contents: [the system](#the-system), [modules](#modules), [runs](#runs),
[environment](#what-the-environment-is-allowed-to-do), [bounds](#bounds),
[fairness](#fairness), [proofs](#proofs), [findings](#findings),
[not modelled](#not-modelled), [plan](#plan).

## The system

A publisher (OBS, for example) connects to port 1935 and pushes H.264 over
RTMP. Two processes take part on the phone: SpringBoard, which shows the menu,
and `mediaserverd`, which serves RTMP and owns the camera pipeline. They are
joined by a TCP connection on port 22222 that carries small binary packets. A
login goes over TLS to the account server, whose administrator may also use a
command line tool on the same file.

| component | state | operations | correct when |
|---|---|---|---|
| RTMP server life cycle (`RTMPServer.m`, `RTMPServerCXX.mm`, `TCPServer.cpp`) | `userWantsRunning`, `deliversFrames`, `RTMPThread`, `_watchdog`, `h264Decoder`, the global `g_tcpServer` | `startServerLoop`, `stopDecoding`, `stopServer`, watchdog handler, `handleRTMP`, accept and session loops | one accept thread; LIVE off leaves nothing behind; LIVE on that was reported serves; no call through a freed pointer; frames flow and threads end |
| H.264 decoder (`H264Decoder.m`) | `_session`, `_sessionNeedsReset`, saved SPS/PPS, reorder ring | `initDecoder`, `decode`, `endDecode`, `reinitFromSaved`, VideoToolbox callback | display order; retains balanced; a reopened session has the right parameters |
| live frame store (`VCamLiveManager.m`) | `bLive`, `_userIntentLive`, `_rtmpRotation`, the current frame and its rotated copy, `_dedup` | `setYUVSampleBuffer:`, `modifyImageBuffer:`, `setLive:`, `setLiveUserIntent:`, `setRTMPRotation:` | each camera frame handled once; rotated copy belongs to the current frame; reported angle is the real one; off stays off |
| IPC dispatcher (`VCamBridge.m`, `parse:`) | a receive buffer per connection, logins under way | codes 1000 to 1019, `remove:`, login answers | packets handled once and in order whatever the fragmentation; a bad packet closes only its connection |
| RTMP chunk stream (`RTMPEndpoint.cpp`) | a partial message and header fields per chunk stream, chunk sizes | `readMessage`, `readChunkHeader`, `sendMessage`, handshake | the endpoint knows the length of every chunk; interleaved messages are put together in order, whole and once |
| RTMP session (`RTMPServerSession.cpp`) | `_publishing` | constructor, `GetRTMPMessage`, command answers, NAL units | answers match commands and can be read by the client; each picture becomes one frame |
| AMF codec (`AMF.cpp`) | none | `decode`, the encoder | what is encoded is read back; a value cut short throws |
| TCP data layer (`TCPServer.cpp`) | a socket | `readExact`, `writeExact` | all bytes or an exception |
| IPC server socket (`ServerSocket.m`) | connection table, run loop thread | accept, read, `sendAll:`, `close:` | a connection is closed and freed once; the others live on |
| IPC client socket (`VCamClientSocket.m`) | socket, thread, `isConnected` | `run`, `connect`, `reconnect`, `write:` | eventually connected again |
| account store, server and tool (`users.js`, `server.js`, `cli.js`) | `data/users.json` | login, list, add, update, delete; the tool's add, delete, disable, enable, passwd | a change reported is not lost; a disabled account stays out |

How they interact. SpringBoard sends code 1000 (LIVE on), 1001 (LIVE off),
1005 (face mode) or 1019 (angle). The run loop thread of `mediaserverd` parses
them. For 1000 it binds the port itself, reports `1935:ok` or `1935:FAIL`, and
dispatches `startServerLoop` to a concurrent global queue; for 1001 it
dispatches `stopServer`. The `handleRTMP` thread accepts, runs a session over
the chunk layer and drives the decoder, whose VideoToolbox callback runs inside
`decode:` and calls `outputFrame:` of the server, of the bridge, and so
`setYUVSampleBuffer:`. Camera threads call `modifyImageBuffer:`. A timer revives
a lost thread. Login packets start a request to the account server, whose
answer `login:` sends to every connection.

What is hard. No lock protects the server object: the parser thread, the
blocks on the queue, the timer and the RTMP thread all read and write it. The
listener is a raw global pointer, the decoder a raw pointer kept across blocking
calls, and `sleep(1)` stands for joining a thread. Camera threads and the RTMP
thread share a lock for pixels but not for the LIVE flags. Nothing on an RTMP
connection says how long a chunk is: both ends derive it from memories that must
not differ by a byte. Two processes rewrite `users.json` in place without a
lock. `PROJECT.json` lists each hazard at its line with the properties aimed at
it.

## Modules

| modules | about |
|---|---|
| `RtmpServer`, `MCRtmpServer`, `RtmpServer_proofs` | the server object, its four kinds of actors and the publisher |
| `H264Decoder`, `MCH264Decoder`, `H264Decoder_proofs` | the decoder |
| `LiveFrames`, `MCLiveFrames`, `LiveFrames_proofs` | the frame store |
| `Channel` | abstract: on each stream, messages in order and once |
| `ChunkStream`, `ChunkStream_proofs` | the chunk layer, implements `Channel` |
| `Amf` | the codec, pure operators |
| `RtmpSession`, `MCRtmpSession`, `RtmpSession_proofs` | handshake and session over `ChunkStream` and `Amf`, with the publisher |
| `IpcBridge`, `MCIpcBridge`, `IpcBridge_proofs` | the local socket and `parse:`, implements `Channel` |
| `Users` | `users.js` as functions of a map |
| `Accounts` | abstract: a map on which every call acts at once |
| `UserStore`, `MCUserStore`, `UserStore_proofs` | server and tool over one file, implements `Accounts` until a write goes wrong |
| `Induction` | induction over the natural numbers, for the proofs |

A definition keeps the name of the function or handler it models; `map` in
`PROJECT.json` gives the lines.

**RtmpServer.** `pc` gives every actor its place in the code. A check-then-act of the
code is two steps, and so are two writes to fields that another actor reads; one step
is a single access, two reads with nothing between them, or a write and the read of
another field right behind it. `destroyActiveTCPServer` is four steps (`DestroyTest`,
`DestroyClose`, `DestroyDelete`, `DestroyNull`), each of which reads `g_tcpServer`
anew: the socket is closed first, the object freed next, and the pointer cleared last,
so that others meet the address of a closed or freed server. `Ipc` is the run loop thread (`LiveOn`, `OnEndDecode`, `OnCheck`,
`OnNew`, `OnBound`, `LiveOff`, `FaceSwitch`); `Jobs` are slots for the blocks it
dispatches (`StartTest` to `StartArm`, `StopFlags` to `StopRelease`); `Dog` is
the timer handler; `Threads` are slots for `handleRTMP` threads (`Top`, `Check`,
`New`, `Loop`, `Accept`, `Session`, `RecvHeader`, `Decode`, `Deliver`, `Exit`,
...). Objects are identities, so that a stale pointer can be told from a current
one: `ref[a]` is the decoder an actor holds, `lsn[t]` the socket a thread waits
on. A call through a null or freed pointer sets `fault` and ends the process;
`Relaunch` is launchd. Deliveries, sessions and parameter sets are reduced to
whether there is one.

**H264Decoder.** One call is one step, since `RtmpServer` already asks who calls.
A frame is its timestamp. The ring is an array of slots with its length, changed
by the insert, shift and flush of `vcamReorderInsert`; `refs` counts the retains
on each frame. A sequence header may be accepted (`Create`) or refused (`Refused`, the
older sets stay saved); `accepted` is a history variable. `Reclaim` is VideoToolbox taking the session, `Tick` the clock of
the reopening limit. A publisher sends any sequence of new timestamps in which at
most `Depth` earlier frames are displayed after the next one.

**LiveFrames.** The parts of `setYUVSampleBuffer:` and `modifyImageBuffer:` that
run under `_lock` are one step each; the accesses of `bLive` and
`_userIntentLive` outside it are steps of their own, as are the three writes of code
1000 (`On`, `OnIntent`, `OnLive`). A frame has a number, an
orientation and an angle. `settled`, `times` and `injected` are history
variables; `times` counts the injections of frames in circulation and forgets the others.

**ChunkStream.** Both ends' memories: `out` and `outSize` of the publisher,
`csState` and `inSize` of the endpoint (`_csState`, `_inChunkSize`). A step sends
(`Begin`, `Continue`) or reads (`ReadPart`, `ReadResize`, `ReadMessage`: the three
ways around the loop of `readMessage`) one chunk. Lengths count units of payload. A
header has one of the four formats, any that the publisher may use where it
stands. `Torn` is `recv()` failing in the header of a chunk (`CutHeader`: some fields
are taken over) or in its data (`CutData`: the accumulator has grown and stays so);
since the session calls `readMessage` again, the endpoint then misreads (`sync`,
`ReadGarbled`). `Missed` is `recv()` failing before the first byte, which loses
nothing.
`views` is a history variable: the publisher's memory before each chunk under way.

**Amf.** A buffer is a sequence of fields (tag, double, string, count), so that the
decoder's control can be followed without bytes. The three readers of `AMFDecoder`
call each other; they are one recursive function over the reader's name and its
place (`Reader`), and throw where the code does. `writeShortString` casts a length to
16 bits and writes all the bytes: a string that does not fit is in `Spill`, with the
part that its truncated length covers and the units a reader takes the rest for; all
others are in `Fits`. `Nested[Depth]` is what the encoder
can be given of strings that fit, objects `Depth` deep; `Values` are those that TLC checks.

**RtmpSession.** `HandshakeC1`, `Open` (the constructor), `handleAMF`, `AMFFails`
(the decoder's exception), `handleVideo` and `Drop` are what `GetRTMPMessage` does with
one message; `ReadMessages` is the chunk layer's step, `ReadFails` one where `recv()`
fails. The accept loop counts both kinds of failure (`Fail`, `errCount`). The publisher is external: it asks in turn, waits for the answers it needs and
streams when told that it may. It reads what the server wrote with the chunk size it
was told last.

**IpcBridge.** `link` is SpringBoard's connection, `up` and `down` the bytes under
way, `mapTable` the buffer of each connection, `parsing` the connection whose bytes
`parse:` is at: each turn of its loop is a step (`Parse`, `ParseRefuses`,
`ParseEnd`), and `Takes` is how much each code waits for: credentials announced as
too long are refused after their length, before they have come. `ReadStreamCB` takes any number of the bytes that have come.
`CloseConnection` is what the code makes of it: a recursion that ends the process.
`Connect` is one step: until the connect callback has set `isConnected` only the
connecting thread reads or writes the socket, its source and its run loop (`write:`
returns before it touches them, and `reconnect` is called for a connection there is).

**UserStore.** Each process is in one request; a request is one or two calls of the
store; a call is `Read`, then `Truncate` and `Write`. `Broken` is a file that does
not parse, which `_read` takes for no accounts. `Die` may come between any two steps.
`Sets` says what flag a request gives its account; an add replaces the account and so
clears the flag unless it says otherwise (`server.js:170`, `cli.js:62`). `blocked` holds
the names whose last change disabled them, `late` the processes whose request found its
name there and has seen it there ever since: `Blocks` is about their logins.

Where they meet: `Output` and `Deliver` of `RtmpServer` are `Frame` of `LiveFrames`;
`InitDecoder`, `Decode` and `EndDecode` are `Header`, `Decode` and `EndDecode` of
`H264Decoder`; `Session` and `RecvHeader` of `RtmpServer` stand for a session of
`RtmpSession`, and `errCount` there is what the accept loop counts; `Parse` of
`IpcBridge` hands codes 1000, 1001, 1005 and 1019 to the `Ipc` actor of `RtmpServer`
and `LiveFrames`. `RtmpSession` EXTENDS `ChunkStream`: its chunk steps are those of
`ChunkNext`, and its handlers are `Handle` with an effect, so that what is proved of
`ChunkSpec` holds of its chunk layer.

## Runs

Each property of a passing run comes with mutants: plausible bugs of a mapped
definition, defined next to it and marked "Mutant", that make TLC report it.

| run | checks | shows |
|---|---|---|
| `rtmp_patient` | `OneAcceptor`, `OnServes`, `DecoderOwned`, `Phases`, `OffQuiet`, `SilentAfterOff` | a user who waits for each switch and publishers that keep sending: one accept thread, LIVE on serves, no freed decoder, no flag left behind by a starting or stopping block |
| `rtmp_streaming` | `Streams`, `StopDrains` | frames keep coming across LIVE on, lost sessions and lost decoders; `stopServer` makes threads end |
| `rtmp_overlap` | `TypeOK`, `ServerOpen`, `CurrentNotCancelled` | what survives overlapping start and stop blocks, a firing watchdog, silent publishers, failing `accept()` |
| `h264_order` | `Retained`, `RightParams`, `DisplayOrder` | reorder depth 1: display order, balanced retains, the parameter sets accepted last, also when new ones are refused |
| `live_frames` | `TypeOK`, `Once`, `Paired`, `Agrees` | two camera threads, more camera frames than the ring of recent frames has slots, a change of the angle, failing copies and transfers |
| `rtmp_ingest` | `TypeOK`, `Aligned`, `Complete`, `AnswersInOrder`, `FramesInOrder`, `CodecFaithful`, `ImplementsChannel`, `Publishes` | a publisher from its first byte to its last frame: interleaved streams, every header format, chunk sizes that change between the chunks of a message, a failing or torn read, metadata that fails to decode |
| `ipc` | `TypeOK`, `Conserved`, `ImplementsChannel`, `Delivered`, `Heals` | bytes cut and coalesced at will, resprings, `mediaserverd` killed: packets in order and once per connection, SpringBoard finds its way back |
| `users` | `TypeOK`, `Kept`, `Blocks`, `ActsAtOnce`, `CreatedOnce` | server and tool on one file, dying anywhere: until a write goes wrong the file acts as one map, and who is disabled stays out |

`ImplementsChannel` of `ChunkStream` and of `IpcBridge`, and `ActsAtOnce`, are
refinements: the abstract module is instantiated (`Transport`, `Store`) with the
detailed state, and its steps are the property. The other four runs
(`rtmp_two_sessions`, `rtmp_stamps`, `ipc_close`, `users_lost`) each end in a counterexample; see [findings](#findings).

## What the environment is allowed to do

Which properties of `RtmpServer` hold depends on three switches:

| | nothing | `Flaky`: `accept()` may fail on an open socket | `Stall`: a publisher is silent for all of `sleep(1)` | `Overlap`: a switch while a block runs |
|---|---|---|---|---|
| `OneAcceptor` | holds | fails | fails | fails |
| `DecoderOwned` | holds | holds | fails | fails |
| `OnServes`, `Phases`, `OffQuiet`, `SilentAfterOff` | hold | hold | hold | fail |
| `StopDrains` | holds | open | fails | open |
| `TypeOK`, `ServerOpen`, `CurrentNotCancelled` | hold | hold | hold | hold |
| `PortClosed`, `CleanExit`, `SingleThreaded` | fail | fail | fail | fail |

The runs check the first column of the first four rows and the last of `TypeOK`;
the proofs cover `Phases`, `OffQuiet` and `SilentAfterOff` in all
columns but the last, `OneAcceptor` and `OnServes` in the first, `DecoderOwned` in the
first two. The other entries are the cfgs of the runs with the switch
set. `StopDrains` is checked with one thread slot, which is all there is to see
where `OneAcceptor` holds. Under `Flaky` and `Overlap` a second thread can exist;
with two slots TLC's liveness check does not finish, so those two entries are open.

Without overlap the watchdog never finds anything to do (`NoDogStep` in the
proofs): it fires only after switches overlapped.

`LiveFrames` assumes that the user waits for a block before the next switch and
that a delivery under way ends within `sleep(1)`. `H264Decoder` assumes one
caller at a time; `SingleThreaded` of `RtmpServer` shows when that is wrong.

`ChunkStream` and `RtmpSession` have two switches. `Tear` says at chunks of which types
`recv()` may fail. The code makes no difference; `rtmp_ingest` has it fail at
video only, to keep the state space small. Everything there is claimed up to a torn read
(`sync`); the session loop goes on and so does the model, but what it reads then is
`Garbled`. `SameDelta` lets a type 3 header begin a message that is one delta later
than the one before, as the RTMP specification has it; without it the format is
used only where the timestamp stays. `FramesInOrder` and `ImplementsChannel` hold
without it, and `Stamped` fails with it.

`IpcBridge` lets either process die between any two steps, but `ServerSocket`'s
handling of an error (`ErrorOccurred`) itself ends the process, as the code does.
`Crash` of `UserStore` lets processes die.

## Bounds

`RtmpServer`: two thread slots, since the violations of interest need a second
thread and a third adds nothing to any of them; one block without overlap, two
with it (a start and a stop); two decoders and listeners, so that a replaced one
is told from its successor. `BindTries`, `AcceptTries` and `RecvTries` stand for
5, 5 and 10: each counter only decides between "again" and "give up", and 1 or 2
reach both. `MaxSwitches` counts switches when they overlap: two in `rtmp_overlap`
(a start and a stop block at once, which is enough for the watchdog to fire);
without overlap switches are not counted.

`H264Decoder`: four slots as in the code, five timestamps (three suffice for the
shortest wrong order), two parameter sets, and a limit of two ticks, so that a
session may be lost again before and after it has passed.

`LiveFrames`: `_dedup` has 8 slots in the code; with 2 camera frames in
circulation 3 slots are what `Once` needs (2 * `Spread` - 1), 2 are too few; the fourth
camera frame makes the full ring evict. Two decoded frames suffice to have an old and a
new one. Auto and 180 are the angles: one change of the angle, with copies at both. Angle
0 makes no copy, and the proofs have it with every other.

`RtmpSession`: a chunk of 3 units at first, announced as 2 or 9 up to twice, against
messages of 1 to 17 units: messages shorter than a chunk, exact multiples, and
messages of many chunks whose size changes between two of them. Two chunks under
way (`Window`) are enough for streams to interleave, since `Aligned` and
`ImplementsChannel` compare the two ends' memories, not the depth of the queue; the
proof has no bound. Four commands and four pictures are the shortest session with
every answer of a publisher, a sequence header, an empty NAL unit and two units in a
frame. The client reads with 20 units at first, less than the `connect` answer is
long, and the server cuts at 640. `Retries` 1 stands for 10. The action constraint
`MisreadEnds` stops the publisher once the stream is misread. `CodecFaithful` takes
`Values`: every value of up to two objects in one another (`Depth` 2) with two members
each, and strings too long for their length field with two kinds of rest (`Spill`);
the proof takes every value of any depth and any such string.

`IpcBridge`: three connections, so that a reconnection can itself be lost; two
packets of 2 to 8 half words, cut anywhere: a bare code, one with an argument,
credentials accepted, refused for their content, and refused for their length
(`MaxPayload` 2 half words stands for 0x400 bytes). `MaxKills` 1.

`UserStore`: two processes, three requests (a lost update needs two, a third sees
it), two names, clock to 3 so that an account expires during the run.

Symmetry is used in safety runs only, on identities that the definitions treat
alike; the runs that check liveness have none.

## Fairness

`FairSpec` of `RtmpServer` assumes weak fairness of the IPC thread's pending
work, the blocks, the timer, the threads and launchd (all are scheduled by the
kernel), and of a publisher's reconnecting. Strong fairness stands for causes that
pass: a blocking call that is retried for ever (a receive, a handshake, binding the
port, a decode) is not refused for ever. Nothing is assumed about the user.

`Spec` of `RtmpSession` assumes that neither end rests while either has something
to do, no more: which of them moves is open, and the run is finite. `Spec` of
`IpcBridge` assumes weak fairness of SpringBoard's connecting and reading thread and
of `mediaserverd`'s run loop; nobody has to press a button, respring or kill.
`H264Decoder`, `LiveFrames`, `ChunkStream` alone and `UserStore` state safety only.

## Proofs

All theorems are for any sets of threads, blocks, decoders, listeners, cameras,
connections, packets, chunk streams, messages, chunk sizes, commands, pictures, values,
processes, requests and accounts and any bounds; the only assumptions are the `ASSUME`s
of the modules, which say of what kind the constants are, and the switches named with a
theorem.

`RtmpServer_proofs`. `TypeCorrect` splits the type invariant into Boolean flags
and the rest, because each half suits one prover. `ServerIsOpen` says how far
`g_tcpServer` can be trusted: the code closes and frees the server before it clears the
pointer, so the address of a dead one is in it for a while, but never without an actor
behind `destroy()` that will clear it. That is inductive together with the type
invariant, with overlapping switches too; it is no promise that a call through the
pointer is safe, which is `CleanExit` and fails. The remaining ones assume `~Overlap`.
Their core is `LifeCycle`: `OffQuiet` and `SilentAfterOff` are not inductive,
since each says only what holds between blocks. `Phases` says what holds inside
them: at most one block exists and only while the IPC thread is idle; the timer
does nothing; at each step of a starting or stopping block, which flags,
thread, timer and decoder it has already changed; and at rest, that all agree with
`userWantsRunning`. `OffIsQuiet`, `OffIsSilent` and
`NeverCancelled` follow from it. `NoFreedDecoder` additionally assumes `~Stall`
and adds `Owned`: who may hold a decoder in which phase, and that when the
stopping block releases the decoder every thread has drained. `OneAtATime` and
`OkServes` assume `~Flaky` as well and rest on `Sole`: the only running thread is
`RTMPThread` (`Alone`), the only open socket is that of `g_tcpServer`, a server that
wants to run has one, and only a stopping block destroys it (`OneSocket`), a thread outlives the flag only until `stopServer` wakes up
(`Gone`), no thread gets to rebuild the socket and none is blocked on an open one while
`stopServer` sleeps (`Listening`), and a starting block finds the socket bound (`Bound`).

`H264Decoder_proofs`. `RetainsBalanced` uses `OneHeld` (the ring holds at most
one frame between calls, and its other slots are empty), which also shows that
the overflow branch of `vcamReorderInsert` is never taken. `InDisplayOrder`
assumes `Depth <= 1` and adds `Ahead`: the held frame comes after the last one
shown, and at most one frame sent so far is later than it. `RightSession` adds
(`Current`) that the saved parameter sets are those accepted last, too. They are not
always those of the stream that arrives: what VideoToolbox refuses is not saved.

`LiveFrames_proofs`. `CopyOfCurrent` needs no strengthening. `AgreesOnceStored`
uses `Fresh`: when the current angle has been stored with its copy, the copy has the
angle that will be reported. `InjectedOnce` assumes `DedupMax >= 2 * Spread - 1` and
uses `OnceInv`: a frame in circulation that was injected is in the ring. An entry can
only be pushed out while its frame circulates if `2 * Spread - 1` others were entered
behind it, and fewer frames than that are within reach of it (`Evicted`, by the pigeon
hole principle).

`ChunkStream_proofs`. `Aligned` speaks of one chunk and is far from inductive: that
the endpoint knows the length of this chunk depends on all it has read before. The
invariant (`IInv`) says that the endpoint is a few chunks behind the publisher.
Each chunk under way lies between two of the publisher's memories, kept in the
history variable `views`, and is a step from the one to the other (`Chain`); the
endpoint's memory of every stream is the publisher's before the next chunk
(`Mirror`). Sending extends the chain at its end (`SendKeeps`), reading takes it up
at its front (`ReadKeeps`), and what a chunk does to the memory of its stream is the
same at both ends (`HeaderRead`, `ChunkRead`, `StreamRead`). From it follow
`StreamAligned`, `StreamComplete`, and, without `SameDelta`, `StreamIsChannel`: the
refinement, for any chunk sizes and any interleaving. A torn read ends the invariant
(`sync`), as it ends what the code can promise.

`IpcBridge_proofs`. `BridgeIsChannel` is the refinement to `Channel`: that what
`parse:` takes off a buffer is the packet written next depends on every packet before
it. The invariant (`FramedAll`) says that the half words pending on a connection, those
in its buffer followed by those under way, are the packets written and not handled, one
behind the other. It is said with the places where the packets end (`Ends`), which is
what lets the proof do without induction over the packets: writing adds an end
(`FramedWrite`), `ReadStreamCB` moves half words without changing the whole
(`JoinRead`), and a turn of `parse:` takes the first end away (`FramedRest`).
`TypeCorrect`: besides the kinds of the variables it says that buffers, error events and
the connection that `parse:` is at belong to open connections, however processes come
and go.

`UserStore_proofs`. `StoreActsAtOnce` is the refinement of `Accounts` step by step:
a changing call takes effect at its truncation, when its writer's memory replaces the
file (`Db`), any other at its read. It needs `OneWriter`: as long as no write went
wrong, at most one process is between truncation and write, and no process is about
to write what it made of an unreadable file. `AccountsKept` is the same invariant with
what each process holds and has answered. `CreationKept` adds that every account has a
time of creation and that no patch under way touches it (`Dated`). `DisabledBlocks` adds
`Blocking`: an account in `blocked` is disabled in the store, or gone from it
(`Flagged`); a call under way changes the flag exactly as its request asks, so that no
`touchLogin` does (`Faithful`, `Guarded`); and a late login has seen an account it has
to refuse, and never comes to its second call (`Watched`). An add, an update or an
enabling lifts a disabling, in the code as in the model, but only one that comes after
it.

`TypeCorrect`: a process has a request whenever it is not idle, and a call of the store
exactly while it is in one, wherever processes die.

`RtmpSession_proofs` has four parts.

- *The decoder ends.* `DecoderStaysInside`: whatever a peer put into a buffer, `decode`
  gives a value and a place behind the one it began at, and one past the end at most, or
  throws. The recursion is well founded because each reader looks further on, or at the
  same place with a reader that looks further on (`Measure`); from there every reader is
  known by what it calls, and the proofs below no longer mention the recursion.
- *The session is a chunk layer.* `SessionIsChunks` shows `Spec => ChunkSpec`: every
  handler leaves the chunk layer alone or takes a step of it, so `SessionAligned` and
  `SessionIsChannel` are what `ChunkStream_proofs` shows. `TypeCorrect` comes with it and
  needs `Base`: no answer reaches a publisher that still reads with its own chunk size,
  since the server's is announced before it (`Readable`).
- *Answers and frames.* `SessionAnswers` and `SessionFrames` relate what the session
  returned to what the publisher sent. Four facts carry them: each chunk stream was sent
  the commands, pictures or other messages asked for so far (`Ledger`); what was returned
  is how what was sent begins (`Behind`, the refinement once more, as an invariant); the
  message in hand is the last one returned on its stream (`Pending`); and what was
  answered, or put into frames, is what the messages handled so far ask for (`Spoke`,
  `Showed`). Under them lie proofs by induction about the loops of the code: `handleVideo`
  over any number of parameter sets and NAL units (`FrameIsPicture`), and the client's
  reading of a queue of answers over both chunk sizes. Both assume `~SameDelta`, as
  `FramesInOrder` does in the runs.
- *The codec.* `EncodingIsRead`: every value whose strings and keys fit 16 bits, of any
  depth and with any number of members, is read back behind whatever the buffer holds, the whole of it and nothing
  more, and throws wherever it is cut. `ArrayIsRead`: an ECMA array cut behind a member is
  read as the members before. `LongStringIsCut`: a string that does not fit is read as
  its first bytes, and the reader stops before the rest. `SessionCodec` has all three
  hold of each message in hand. The
  induction is over the levels of `Nested`, and inside an object over its members from the
  last to the first (`Follows`, `MembersRead`).

`Induction` shows the principle these proofs use: a set of numbers that has 0 and,
with each number, the next one, has them all. It is said of a set, since the provers
cannot instantiate a theorem about an arbitrary predicate, and comes from the
well-foundedness of `<` in the library. For the same reason the models' recursions are
recursive functions with a declared domain. `BytesConserved` of `IpcBridge_proofs` is
such an induction too, over the packets written.

Every invariant, every action property and every refinement that a passing run checks
is proved, under the switches that its run has. Only model-checked are the liveness
properties `Streams`, `StopDrains`, `Publishes`, `Delivered` and `Heals`, which are
beyond this prover, since fairness rests on `ENABLED`; and the properties of the
findings, which fail.

## Findings

| run | property | the code |
|---|---|---|
| `rtmp_two_sessions` | `OneAcceptor` | a thread blocked on a silent publisher outlives `stopServer` |
| `rtmp_stamps` | `Stamped` | a message begun by a type 3 header keeps the timestamp of the one before |
| `ipc_close` | `Survives` | `remove:` and `CloseConnection` call each other until the process ends |
| `users_lost` | `Stored` | an account added by the server is gone after the tool wrote its older copy |

`PROJECT.json` quotes the lines that say otherwise. Properties that the modules
state, that fail, and that no run checks; to see each, put it as the only INVARIANT
(`DisplayOrder`: PROPERTY) into the cfg named, with these changes:

| property | cfg and changes | the code |
|---|---|---|
| `SingleThreaded` | `rtmp_patient` | `stopDecoding` runs in the decoder on the IPC thread while the RTMP thread decodes (`RTMPServer.m:117`) |
| `OnServes` | `rtmp_overlap`, `Stall = FALSE`, `Flaky = FALSE`, `MaxSwitches = 3` | a late stop block undoes a LIVE on that was reported as bound (`RTMPServer.m:124`) |
| `DisplayOrder` | `h264_order`, `Depth = 2`, `Gap = 1` | the ring reorders by one frame only (`H264Decoder.m:123`) |
| `OffStaysOff` | `live_frames`, one camera, `Spread = 1`, `MaxShots = 2` | the auto-resume test and assignment straddle LIVE off (`VCamLiveManager.m:270`) |
| `PortClosed` | `rtmp_patient`, one thread | a thread between its test of `userWantsRunning` and its bind (`RTMPServer.m:151`, `:155`) takes port 1935 again after `stopServer` closed it, and nobody accepts on it or closes it |
| `CleanExit` | `rtmp_patient`, one thread | `g_tcpServer` is freed and cleared between the accept loop's test and its use (`RTMPServerCXX.mm:77`, `:81`), although `RTMPServer.m:12` says that the loops "exit cleanly" |

Smaller disagreements met while modelling, which no property states:

- LIVE off drops the publisher, although `RTMPServer.m:11` says it stays connected;
- the retry of a failed receive is meant for transient errors (`RTMPServerCXX.mm:126`),
  but a receive that failed inside a chunk is retried at the wrong byte;
- a lost decoder session is reopened up to five times a second (`H264Decoder.m:321`),
  not once (`:317`); `_sessionNeedsReset` survives a new session, which is then thrown
  away (`:311`); parameter sets that VideoToolbox refuses are not saved, and the old
  ones are used for the new stream (`:201`);
- after LIVE off and on, the last frame of the session before may be shown first
  (`VCamLiveManager.m:343`); a new angle takes effect on the next camera frame, before
  the next decoded one that `:609` names;
- code 1005 leaves the user's intent set, so that a frame under way sets `bLive` again
  (`VCamBridge.m:521`); `_beginTimeYUV` is reset by one thread and advanced by another
  (`:421`), though nothing reads what is derived from it; an answer to a login goes to
  all connections (`:632`);
- a string of more than 65535 bytes is written whole under a truncated length
  (`AMF.cpp:193`), so that its end would be read as further values; the session writes
  none so long;
- an announced chunk size of 0 is taken as it is (`RTMPEndpoint.cpp:164`), and a type 3
  header that should carry an extended timestamp is read without it (`:110`);
- two threads may be in `reconnect` of `VCamClientSocket` at once (`VCamClientSocket.m:213`),
  and the second stops the newest run loop only; `ServerSocket.m:152` does not look at
  how much it wrote;
- `express.json` comes after the middleware that takes the raw body (`server.js:49`);
  an update of an account that vanished between its two calls is answered as done (`:207`).

## Not modelled

- The menu, its windows and the volume-key gesture, preference panels and the add-ons
  (`BINFlash*`, `NetHelper_source`): views, image heuristics and hooks without a
  protocol or shared state machine; outside the scope chosen here.
- The login request of the client (one blocking exchange over TLS) and `crypto.js`.
- In the components modelled: the face and beauty settings, which nothing reads;
  entry points without callers (`setYUVPixelBuffer:`, `write:data:`, typed AMF
  accessors and so on); extended timestamps and chunk stream ids of two and three
  bytes; `launch_stop` of `mediaserverd` after ten failed connections; `sendAll:` on a
  thread of its own while the run loop thread frees a connection (undefined behaviour
  at once, with nothing to check after it); `RTMPServer`'s `dealloc`, which cannot
  happen, since the bridge keeps the server. Logging is left out everywhere.
- Vendored GPUImage and packaging.

How much of the code this is. The C++ sources of the RTMP library and of the TCP
layer are mapped for the larger part (`RTMPServerSession.cpp`, `RTMPEndpoint.cpp`,
`AMF.cpp`, `TCPServer.cpp`), and so are the Objective-C decoder and about half of the bridge,
the frame store and the sockets; the rest of these files is logging, view code, image
processing and the entry points named above. Of the headers little is mapped: they are
some 5300 lines, of which about 3600 are those of the vendored GPUImage and most others
declare interfaces. `DataLayer.cpp` is mapped only where the session uses it.

## Plan

Done: the three modules of the video path; chunk layer, session and codec; local
socket; accounts; the theorems above. Left, in order:

1. `LiveSwitch`: the two-state switch the user sees, as an abstract specification that
   `RtmpServer` without overlap implements (`Phases` has what its proof needs); recovery
   of the server from overlapping switches once the user waits.
2. Two threads in `VCamClientSocket`'s `reconnect`, with the run loop and thread objects
   they release under each other.
