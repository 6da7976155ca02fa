# Verification of the MVR video card software

TLA+ models, TLC runs and TLAPS proofs for `src/video-master`: the program that
captures two camera channels on a SigmaStar SSC339G board, encodes them, serves
them over RTSP, lets browsers change the layout of the multi-viewer mosaic, and
adapts the frame rate to slow browsers. Paths below are relative to
`src/video-master`.

## The system

`main.cpp` calls `Player::getInstance(chn1, chn2)` and `Player::start()`, then
sleeps. `player.cpp` builds two chains of *elements* (`CXStreamer/element.h`),
obtained from *factories* (`CXStreamer/factory.*`):

    camera -> vif -> vpe -> regrouping thread -> DIVP -> venc -> callback -> rtsp-server
                                                    (ws-server, not created at this commit)
    browser <-> websocket, port 7999 <-> layout table <-> /tmp/video_config.json
    websocket of pictures -> page (ffmpeg.js) <-> worker (decode_worker.js) -> canvases
    any process <-> UDP <-> STP server (libcommon/stp_util.cpp)

| component | state | operations | interacts with | hard because of | correct when |
|---|---|---|---|---|---|
| RTSP push path: `livertspserver.cpp`, `RTSPOnDemandServer.cpp`, `VideoPipeServerMediaSubsession.cpp`, `FramedPipeSource.cpp` | frame list (limit 10), `isConnected`, frame in hand, pipe, server pointers, sessions | `pushData`; push thread; `startSelf`; `establishAndRunServer`; session set-up and end | called by the venc callback; read by live555 | four threads, unsynchronised pointers, blocking pipe, silent failure of the server | byte stream is whole frames in order; no buffer leaked or freed twice; bounded backlog; drains when watched |
| Websocket video server: `websocketserverimplcfwk.*`, `websocketserver.cpp` | client list, a counter per client, `m_max_pending`, callback | connect, disconnect, report, `pushData`, set callback | encoder's thread, cFWK thread, frame rate handler | report scans without the mutex; uninitialised counters | no freed client is touched; the maximum is not understated |
| Frame rate control: `player.cpp:65-110` | attribute `VENC-FRAMERATE` | one handler | reads `isConnected` of the RTSP element | integer truncation, casts | stays in 5..15, moves the right way, recovers |
| Layout configuration: `player.cpp:163-375`, `configer.h` | `layer_layout_tab`, `dst_*_blks`, property tree, file | read, reset, `layout_cfg`, `query_cfg`, save | browsers, player's thread, file system | two threads without a lock, crash while saving | reply is what was asked for; the file survives crashes; start-up is well defined |
| Player and encoder threads: `player.cpp:377-631`, `venc_element.cpp` | element pointers, bindings, `data` of each loop | `NovaEncoderInit`, `start`, `getH264data`, callbacks | drivers, RTSP elements | threads run while main is still building; drivers fail | no null server is called; channels are not mixed up; buffers freed once |
| Registry: `factory.*`, `factorycommon.cpp`, `SSC339GFactory.cpp` | descriptor map and list, instances, `isInit` | register, look up, init, create | static initialisers, player | unspecified order, re-entry | every element is known to its factory |
| VIF/VPE regrouping: `vif_element.cpp`, `vpe_element.cpp` | driver buffers, vif attributes, handles | `YUVdataProcess`, `reorganizeYUV` | drivers, player | stale handles on failure paths, the drivers go on while it copies, truncating divisions | no buffer is lost; every complete picture is the mosaic of one frame; pictures keep flowing |
| Request/response protocol: `libcommon/STPManager.h`, `stp_util.cpp` | sequence numbers, socket, the request in hand | `createClientInstance`, `createServerInstance`, `send`, `recv` | other processes, over UDP | loss, duplicates, late answers, time-outs, restarts that count from zero again | an answer belongs to the request it is taken for; `recv` returns |
| Browser player: `mount-origin/.../ffmpeg.js`, `decode_worker.js`, `test_zx.html` | decoder, queues, the `<img>`, `Idle`, `Valid`, `canvasList` | handlers of page and worker, `registerCanvasSimple`, `clearCanvas` | websocket, decoder, page | FileReaders end in any order, pictures are dropped, `drawImage` throws, no `onerror` | the view does not go back, is whole, and follows the stream |

### Not modelled

- *Qt websocket server.* A sibling of the cFWK implementation with the same
  interface; its instantiation is commented out (`websocketserver.cpp:64`).
- *HTTP server, passive RTSP server, `minimal-ws-server.c`.* The HTTP server
  serves files and starts together with a `WebsocketServer`, which `player.cpp`
  does not create; nothing instantiates the passive RTSP server; the third is an
  example of the library it uses.
- *HiSilicon elements.* Drivers of another board with the vendor's samples.
- *libcommon's settings and utilities.* Synchronous wrappers around files,
  strings and JSON that the program does not include.
- *CXLog, cFWK, live555, OpenSSL and driver headers.* Logging and vendored code.
  The parts of the libraries that the program uses are modelled as it uses them
  (callbacks one at a time; an event loop that reads the pipe; driver calls that
  succeed or fail) and marked external.
- *`Element`'s attribute map and `pushNext`.* The map of an element is written
  before its threads start, apart from the frame rate and `isConnected`, which
  `WsVideoServer` has as variables; `pushNext` is not called in this build.

Vendored headers and the vendor's samples are by far the larger part of the
tree (OpenSSL alone has tens of thousands of lines), so the mapped share of
*all* lines is small although every component with control of its own that is
in the program is modelled.

## Modules

| module | what it is |
|---|---|
| `FrameChannel` | abstract specification: a bounded, lossy, first-in first-out channel of frames |
| `LiveRtspServer` | the RTSP push path; implements `FrameChannel` |
| `LiveRtspServerProofs` | the ordering theorem of the channel, the inductive invariant of the push path and its theorems |
| `FrameRateControl` | the frame rate handler as operators |
| `WsVideoServer`, `WsVideoServerProofs` | the websocket video server, composed with `FrameRateControl`; theorems about both |
| `LayoutConfig`, `LayoutConfigProofs` | layout table, browsers' requests, file, start-up and the attributes of the picture |
| `Player`, `PlayerProofs` | the building of the two channels and the encoder threads |
| `FactoryRegistry`, `FactoryRegistryProofs` | static registration and nested initialisation |
| `Regroup`, `RegroupProofs` | the regrouping thread between the drivers, with `reorganizeYUV` |
| `RequestReply` | abstract specification: a request has at most one outcome, and a reply only after it was served |
| `StpManager`, `StpManagerProofs` | the STP protocol over UDP; implements `RequestReply` |
| `BrowserPlayer`, `BrowserPlayerProofs` | the page and the worker that show the mosaic |
| `MC*` | instances for TLC; the `.cfg` files name the values |

Definitions that a comment calls "a bug for the mutant runs" are not part of
any specification. Each is the definition below it with a plausible mistake;
substituting it makes the property named in `PROJECT.json` fail.

### LiveRtspServer

`pushDataAccept` and `pushDataDrop` are the two branches of the critical section
of `pushData`. The push thread is a program counter: `poll` (take the front of
the list), `test` (is there anywhere to write?), `write` (the loop of
`pushPkg`). A frame is its number and its length in chunks, a chunk being what
the kernel moves at once: `WriteChunk` interleaves with the reader, and a frame
may be longer than the pipe. The pipe is the unread part of `wire`, the sequence
of all chunks ever written; nothing that has been read is looked at by an
action. `srv` follows `startSelf` and `establishAndRunServer`; between
`published` and `serving` the push thread may or may not see `mSubSersion`,
because its assignment is not synchronised, so both `DiscardFrame` and
`EnterPushPkg` are enabled. `createNewStreamSource` and `closeStreamSource` are
what live555 does with the subsession as viewers come and go (`reuseFirstSource`
is true, so one source is shared). Left out: the element's destructor, which
nothing calls, and a failing `write`, which needs the read end closed.

### WsVideoServer and FrameRateControl

The cFWK thread runs one callback at a time. `on_cli_read` takes no lock, so its
`max_element` is one step per comparison (`scan`), interleaved with `pushData`.
`lock` is `cli_list_mutex`, held by the frame walk; `to_reset` and `to_write` are
what the two loops of `pushData` have yet to touch; `undercut` remembers that the
counter a scan holds for the largest was reset. New clients and `m_max_pending`
start with anything in `Garbage`. `AsInt` is the cast of an unsigned counter to
`int`. The callback is set in two stores while the server's thread runs,
`StoreCallback` and `StoreUserData`; a report between them calls the handler with
uninitialised user data, and the program dies (`fault`). The handler is
`FrameRateControl`'s `ws_cli_max_pending_changed_handler`. `isConnected` belongs to
the RTSP element and changes freely here. Neither the element nor the handler is
instantiated by `player.cpp` at this commit (lines 547-550 are commented out): the
element's class is compiled and registered with its factory, but nothing creates one
or calls the handler. `websocketserver.cpp` defines how they would meet.

### LayoutConfig

One variable per shared variable of `player.cpp`, one step per table position of a
loop. What a handler reads of `dst_*_blks` at two places it reads in two steps
(`IndexItem`/`PlaceItem`, `PutRows`/`PutCols`, `TestItem`/`CollectItem`,
`DimRows`/`DimCols`; `width` is the number of columns it has just read). `boot` is
the player's thread in `NovaEncoderInit(0)`: it reads the file, starts the websocket
server, then resets dimensions and table to the default and copies both to `attr`,
the attributes of vif (`ResetTab` writes a position, `TestTab` reads it again and
may end the loop, `CopyTab` reads it a third time). `ws` is the handler the server's
thread runs. Saving is `OpenFile` (which truncates) and `WriteFile`. `Crash` may
happen at any step after the start. History variables: `acked` is what the last
reply confirmed (only its mode once another save has begun), `saving` that a save
has begun since, `alone` that an exchange met no step of the other thread, `changed`
when a request was accepted. A layout that was accepted is saved and confirmed, but
neither the picture nor the table after a restart follows it: `BootsToDefault` says
so. `CutShortForGood` says what follows from a crash inside a save: the file no
longer names a mode, requests are accepted only when it does, and nothing but an
accepted request writes the file, so the program keeps refusing layouts until
somebody repairs the file. Exchanges that the start-up meets may end with a mixture
of the default and the layout asked for; `NothingStrays` bounds it, position by
position, for the table, the answer and the attributes. A layout that the start-up
tore while it was saved may have items beyond the table when it is read back; what
the code writes there is not modelled.

### Player

`main` is a program counter over the two calls of `NovaEncoderInit` and over
`start`. `server[0]` and `server[1]` are `rtsp_server0` and `rtsp_server1`, set by
*channel* but used by the callback of the *position*. Any driver call may fail;
the callers go on as the code does. `venc[t]` is the loop `getH264data`.

### FactoryRegistry

`pending` holds the static registrations still to run; they run in any order.
`stack` holds the activations of `Factory::init`, which a lookup inside the loop
enters again. `registerElement` runs the element's `init()` before it uses its
object, so a null owner is fatal only for an element whose `init()` succeeds.

### Regroup

`at` is the place of `YUVdataProcess` in its loop: `select`, `GetOutput` (the
frame), `GetInput` (the picture buffer), `CopyPosition` (one turn of
`reorganizeYUV`), `PutInput`, `PutOutput`. Frame and picture are functions from
addresses, so that truncating divisions, the chroma plane of half as many lines
and blocks of odd height come out as the code computes them. `hHandle` and
`hVencHandle` keep the value of the round before when a call fails, and are put
back nevertheless; `select` may return with an empty port, since its -1 is stored
in an unsigned variable. `Capture` and `Encode` are the drivers, which never wait
for the thread. The table is the attributes, fixed while the thread runs; what
they may be is `LayoutConfig`'s `BootsToDefault`.

### StpManager and RequestReply

`net` is a set of datagrams: it has no order. A request is sent in up to two
copies or in none, so there may be two responses to it; a response may be lost;
a datagram may stay for as long as it likes. `send` counts and sends a request;
`recv` is one receive: it takes the response with the client's number, skips
others (which starts the time-out of `SO_RCVTIMEO` anew) or fails. A process that
starts again counts from zero, on a fresh port. The server keeps the number
(`m_response_seq`), sender and command of the request in hand between `ServerRecv`
and `ServerSend`; `ServerSkips` is a datagram that does not parse; `ServerRestart`
loses what was in hand. Strangers send both datagrams that do not parse and some
that do (`Foreign`, at most `MaxForeign`): the client skips the latter because of
the number, the server takes them for a request with the number 0 and answers.
`recv` does not look at the sender, so a stranger who sent a client exactly the
number it waits for would be believed; the model has none, and `AnswerMatches`
rests on that.

### BrowserPlayer

A JavaScript task is a step. A packet goes through a FileReader (`packetReaders`)
and `toWorker` to the worker, whose decoder may hold pictures back (`delayed`);
pictures return through `toPage` and another FileReader (`pictureReaders`) to the
`<img>`, unless it is busy. `img_onload` draws every item of `canvasList`; the
items in `bad` are those whose `drawImage` throws, and `end` is where an exception
of `getContext`, which is outside the `try`, ends the loop (`Missed` is what then
keeps the picture before). The worker drops packets until
the second after the decoder was loaded. `late` (the pictures
a FileReader of a newer one overtook), `owed`, `stale` and `shown` are history.
`OnePlace`, a part of the type invariant, says that a picture is at one place of
this way and there once.

## Runs

| run | instance | shows |
|---|---|---|
| `rtsp_safety` | list 2, pipe 2, 6 frames of 1 or 3 chunks, 2 viewers | `StreamIntact`, `OneFate`, `BacklogBounded`, `ImplementsChannel` |
| `rtsp_live` | list 1, pipe 1, 5 frames of 1 or 2 chunks, 1 viewer | `ViewerDrains`, `AbsenceNoticed` |
| `rtsp_comment` | list 2, pipe 2, 4 frames | violates `DropMeansNoClient` |
| `ws` | 3 clients, 8-bit counters, reports 0 and 9, garbage 0 and 255, reset above 2 clients | `WalkSafe`, `NotUnderstated`, `RateRecovers`, bounds of the rate |
| `ws_comment` | 2 clients, cleared memory | violates `RecordsTheMaximum` |
| `layout_safety` | 3 positions, 2 requests, 3 initial files | `FileHoldsAcked`, `ReplyMatches`, `SavedReadsBack`, `NothingStrays`, `BootsToDefault`, `CutShortForGood` |
| `player` | all pairs of channels 0, 1 and "other" | `NoNullServer`, `OwnChannel`, `FreedOnce`, `BothStream` |
| `factory` | 2 factories, 5 elements, all orders | `RegistryComplete`, `NullOnlyAfterFailure`, `AssertHolds` |
| `regroup` | 5 x 4 samples, 3 layouts, 3 + 2 buffers, 2 frames, 1 failure | `NothingLeaks`, `PicturesAreMosaics`, `PicturesFlow` |
| `stp_safety` | 2 clients, 2 commands, 2 requests in all, 2 processes each, a stranger | `AnswerMatches`, `ImplementsRequestReply` |
| `stp_live` | the same with 1 command | `RecvReturns` |
| `browser` | 3 packets, 3 calls, 1 failure, 2 canvases, a grid of 2 x 2 | `IdleIsExact`, `ViewIsWhole`, `NeverGoesBack`, `PictureFollows` |

The first run of each module also checks its type invariant `TypeOK`. That frames
reach the pipe in the order of the encoder is not checked by a run of its own: it is
the theorem `OrderOfDelivery`, which follows from the refinement that `rtsp_safety`
checks.

The two runs that fail are disagreements between comments and code, recorded as
findings:

- `livertspserver.cpp:89` says a frame is turned away because no client is
  connected; the branch is taken whenever the list is full, also with viewers.
- `websocketserverimplcfwk.h:19` says `m_max_pending` is the backlog of the
  slowest client; it is only written on a report, so it is stale after that
  client has left.

### Hazards that no property rules out

Some of the hazards in `PROJECT.json` do strike, and nothing in the code prevents
them; the property next to such a hazard says how far the harm goes, or there is
none.

- A layout request that meets the start-up leaves a mixture of two layouts.
  `NothingStrays` confines it. What is saved meanwhile may read back at other
  positions; `SavedReadsBack` is only about exchanges the start-up does not meet.
- The maximum is understated after `pushData` has reset the counter the running
  scan holds, until the next report; `NotUnderstated` excepts that one reset.
- A picture that a FileReader let a newer one overtake is drawn late, and the view
  goes back to it; `NeverGoesBack` says that no other picture does.
- A request without room in the table, or with no columns, writes outside the
  array or divides by zero; `LayoutAssumption` excludes it.
- A report between the two stores of the callback calls the handler with
  uninitialised user data.
- Buffers are put back that were not got; that the driver refuses them is assumed.

### Bounds

- *RTSP.* A list of 2 and a pipe of 2 chunks make every limit reachable. Frames of 3
  chunks are longer than the pipe, so the writer must block inside a frame; 6 frames
  fill list, hand and pipe and drop one more. The theorems below remove these
  bounds. `MaxFrames` bounds the encoder in the guards of `pushData`; the deadlock
  check is off because the bounded encoder stops.
- *Websocket.* With 3 clients and a reset threshold of 2 instead of 10, the reset,
  the two that are written to and the starving third all occur. Reports 0 and 9 are
  on both sides of the handler's thresholds (2 and 8); 255 in 8 bits is the garbage
  that reads as negative.
- *Layout.* Three positions, of which the picture shows two and the default one, are
  enough for every loop to be met at its start, inside and at its end (1.7 million
  states). They hold a tall and a wide layout, a position used twice, one outside
  the mosaic and a column beyond the last, which the code takes for a place of a
  lower row. Requests are restricted by `LayoutAssumption` to those with room in the
  table: the code does not check that (see the hazards).
- *Regroup.* 5 x 4 samples leave a column over, with blocks of 2 x 2; a third layout
  has rows of one line, whose chroma height truncates to nothing. `LayNum` 3 leaves
  one position without an attribute. Three output and two input buffers let the
  camera run ahead and the encoder lag. One failure may strike any call, and a stale
  handle needs one. Deadlock is not checked: a failed set-up ends the thread.
- *STP.* Each client may be restarted once, and two requests are asked in all:
  enough for a late, a repeated and an out-of-date response to meet a request, of
  the same process with another number or of another process with the same. One
  stranger's datagram is on its way at a time; one that does not parse may come
  again without end, one that does may not, since each makes `recv` wait anew. The
  liveness run needs one command only, and no symmetry.
- *Browser.* Three packets allow the decoder to hold one back while one is loaded
  and one overtakes. `BrowserAssumption` asks for square grids:
  `registerCanvasSimple` divides by the number of rows, and `test_zx.html`, the only
  page that creates a player, asks for 8 x 8 and 1 x 1. Streams of 1920 columns,
  which the page draws, and of another width.
- *Player, registry.* Complete for the program: two calls, two factories, five
  element classes. Only deadlock is not checked: a faulted process is dead, and the
  registry is not used after start-up.

### Fairness

- `LiveRtspServer`: weak fairness of every thread (the operating system
  schedules them; a mutex is held for a few instructions), of the encoder (the
  camera never stops) and of the event loop's reads. Viewers are not fair:
  `ViewerDrains` assumes that one is present from some time on. `ServerFails` has no
  fairness of its own.
- `WsVideoServer`: weak fairness of a callback and of a frame walk that have
  begun. That browsers keep reporting is a hypothesis of `RateRecovers`.
- `Regroup`: weak fairness of the regrouping thread and of the two drivers, which
  the hardware drives.
- `StpManager`: weak fairness of `recv` only, from `SO_RCVTIMEO`; nothing is
  assumed of the network or of the server, but that strangers' datagrams that
  parse are finitely many.
- `BrowserPlayer`: the page's messages are delivered, the readers of pictures end,
  and a picture loads or fails to. The stream, the worker and the page's script
  owe nothing.
- `Player`: weak fairness of main's thread and of each venc loop.

## Proofs

`tlapm` proves, for all values of the constants allowed by the assumptions:

- `LiveRtspServerProofs` (from `LiveAssumption`: the capacities are positive and
  frame lengths are positive). The inductive invariant `IInv` is `TypeOK` with
  `ListOrdered` (the list is within its limit and increasing), `HandOrdered` (the
  frame in hand precedes the list, the offset is within it), `WireOrdered` (how the
  last chunk in the stream stands to the hand and the list) and `StreamIntact`.
  `StreamIntact` is not inductive alone: that the next chunk continues the stream
  needs the offset and the hand, and that it starts a *later* frame needs the order
  of list and hand.
  - `TypeCorrect`, `StreamAlwaysIntact`: consequences of `IInv`.
  - `FramesAccounted`: `OneFate` is inductive relative to `IInv`, which makes the
    number in hand differ from those in the list.
  - `Refinement`: under the mapping `ChanQueue` (hand, then list) every step is a
    step of `FrameChannel` or a stutter.
  - `OrderOfDelivery`: by `Refinement` from `ChannelInOrder`, proved once for the
    abstract channel.
  - `BoundedBacklog`: `PipeBounded` (no more is unread than the pipe holds) is
    inductive; with `IInv` and `OneFate` the frames in memory or unread are those of
    three ranges, whose sizes bound the cardinality.
- `WsVideoServerProofs` (from `WsAssumption`): `RateInBounds` for any number of
  packets and any rate; `RateFollowsReports`: a report above 8 lowers the rate or
  finds it at the minimum, one below 2 raises it or finds it at the maximum.
  `WalkIsSafe` and `NeverUnderstated` rest on `HeardListed` (whoever was heard and
  not removed is listed) and `BestSoFar` (the unlocked `max_element` has the largest
  of the clients it has passed, unless the counter it holds was reset): without the
  second, what the scan ends with could not be compared with the reports.
- `PlayerProofs` (from `PlayerAssumption`): `ServersExist`, `ChannelsApart`,
  `BuffersFreedOnce`. The invariant `Built` says how far `main` has come on both
  channels and that nothing is bound, so no frame flows, before both are built; that
  is why venc threads that run early meet no null server.
- `LayoutConfigProofs` (from `LayoutAssumption`): the inductive invariant has three
  parts. `Typed` adds to `TypeOK` that files, drafts and mosaic fit the table
  although the start-up replaces one dimension at a time (`DimsOK`). `SaveOK` ties
  file, memory and confirmation together over the places of a save:
  `ConfirmedSurvives`. `StartOK` says how much of table and attributes is the
  default at each place of the start: `StartsFromDefault`. `CutShortIsForGood` adds
  that behind a file that was cut short nothing is being accepted and the tree in
  memory names no mode that would (`NothingAccepted`). The exchange has an invariant
  of its own, `ExchangeOK`, for one that no step of the start meets: how far the
  table is cleared and filled (`TableOK`), how far the layout being saved lists the
  table (`SavedOK`) and how far the reply does (`SentOK`), position by position.
  With it `RepliesMatch` and `ReadsBack` come down to one lemma: placing the items
  that were listed gives the table again (`ReadBack`), because `index / cols` and
  `index % cols` are undone by `row * cols + col` (`Division`). The proof showed
  what the statement must allow: a request with a column beyond the last comes back
  as another (row, column) of the same place, so `ReplyMatches` compares places.
  `NoInputStrays` is about the exchanges the start does meet: `StrayOK` says what is
  allowed in the table, as far as it was emptied, and in the answer collected so
  far, `PictureOK` what the attributes take from it.
- `RegroupProofs` (from `RegroupAssumption`): `NoLeak`, for every resolution, layout
  and number of buffers. `Holds` says which handle is owned at each place, and that
  a handle that is stale belongs to a buffer that is no longer held.
  `EveryPictureIsMosaic` needs more: `PicturesOK` says that nothing writes outside
  the positions that show an input (`Blank`), that the positions already copied hold
  the samples of the frame in hand (`Copying`), that the copy is whole when it is
  submitted (`CopiedWhole`), and that the queue of pictures to be encoded stays so
  while the drivers go on (`Queued`). The lemmas before it are about addresses: a
  sample is in one block and at one place of it (`InBlock`, `SamePlace`, `CellOf`),
  and one turn of `reorganizeYUV` writes one block and no other (`CopyOne`). Blocks
  with an odd number of lines have no chroma lines of their own, so there the
  theorem, like the invariant, is about the luma.
- `StpManagerProofs` (from `StpAssumption`): `AnswersMatch` and `Refinement`. A
  response in the network stems from a request that was served (`NetGenuine`), and a
  request is named by its port and number (`Numbered`), so the number suffices to
  tell the answers of a process apart and the fresh port those of two.
- `BrowserPlayerProofs` (from `BrowserAssumption`): `IdleTellsTheImage`, and
  `ViewNeverGoesBack`, for streams of any length: `PipeOrdered` says that, except
  for the pictures a FileReader let a newer one overtake, whatever is behind a place
  of the way from websocket to canvas is newer than what is at it, through the
  decoder's delay and all drops, and `Apart` that no picture is at two places.
  `TypeCorrect` and `WholeView`: the view is whole because an item keeps the block
  its index names (`ItemsPlaced`) and a picture loads only when there is one
  (`SomethingLoads`).
- `FactoryRegistryProofs` (from `RegistryAssumption`): `TypeCorrect`, `Complete`,
  `NullNeedsFailure`, `AssertionHolds`, for any factories and elements. What makes
  the re-entered `Factory::init` right is `Activations`: every activation on the
  stack, not only the innermost, has passed only elements that their factories have
  taken or that failed, so the first one to end, which sets `isInit`, has passed
  them all. `ShallowNesting` bounds the stack by the factory objects, since only a
  new object enters `init`. The assumption names what the program provides: the
  factories are finitely many and no elements, the `init()` of `FactoryCommon`,
  which main looks up, returns 0 (without that, main could go on with no factory and
  the assertion could fail), and the factories main looks up own an element whose
  `init()` returns 0 (without one, the null object would never be used and the
  assertion could fail).

Every safety invariant, action property and refinement that a passing run checks is
thus also a theorem. Only model-checked: the liveness properties `ViewerDrains`,
`AbsenceNoticed`, `RateRecovers`, `BothStream`, `PicturesFlow`, `RecvReturns` and
`PictureFollows`, because fairness and ENABLED are beyond the prover.

## Plan

1. *Done:* the RTSP path with its abstraction; the websocket server with the rate
   handler; the layout with the attributes of the picture; the player; the
   registry; the regrouping pipeline; the STP protocol with its abstraction; the
   browser player. The type invariant of every component, its safety invariants
   and both refinements are proved.
2. *Left to prove:* of what the runs check, only liveness, which the prover cannot
   reach.
3. *Left to model:* an abstract layout store (confirmed, pending, torn) that
   `LayoutConfig` implements, with its refinement proved; `Element`'s attribute
   map at the grain of its unsynchronised container, should a build create
   `ws-server` again.
