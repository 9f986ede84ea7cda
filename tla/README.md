# iAstroHub: a verification development

iAstroHub turns a small computer into the hub of an observatory.  PHP pages and
small C programs drive cameras, focuser, filter wheel and mount; a modified
Lin_guider keeps the telescope on a guide star.  Hardly two of these programs
talk to each other directly.  They coordinate through the *existence of files*
(`status_ccd`, `status_capture`, `status_dslr`, ...), through fifos and command
files with one slot, through the last line of a log, through `sleep`, and
through `ps | grep | kill`.  The one exception is the command server inside
Lin_guider, a threaded program of the classical kind.  This directory holds TLA+
models of the parts where the order of events matters, the instances TLC checks,
and proofs.

## 1. Inventory

| Component | State it keeps | Operations | Hard because |
|---|---|---|---|
| Command server of Lin_guider (`server.cpp`, `lin_guider.cpp`), client `remote_client.c` | connection objects in `m_conns`, `m_free_conns`, `m_in_queue`, `m_out_queue`; an eventfd; `m_long_task_conn` and its timer | connect, request, answer, dither (answer after a timer), calibrate (nested event loop), restart | two threads, objects handed over without a lock, a wake-up per batch, a restart under way |
| CCD imaging (`ccd.php`, `ccdcontrol.c`, `stop_ccd.php`, `check_idle.c`, page) | `status_ccd`, `status_capture`, parameter files, fifo and log of gtkImager, `tmp_images` | start, expose, end by log line, save, dither, stop, watch for idle | test of a file and its creation in different programs; only the last log line is read; kill by name |
| DSLR imaging (`dslr.php`, `monitor_camera.c`, `dslr*.c`, `shutter*.sh`, `dslr_getphoto.sh`, `kill_dslr*.sh`) | `startdslr`, `status_dslr`, `status_mlu`, `status_loading`, the shutter | request, start by a daemon, mirror lock-up, expose, download, dither, stop, power cut | request file removed after use, sleeps instead of handshakes, files that survive a power cut |
| Calibration and guiding windows (`rcalibration.cpp`, `calibrate.php`, `stop.php`) | window visibility, start and end points, drive pulses, `status_calibrating`, `status_guiding` | start, stop, RA and DEC loops | loops that run the event loop, hence re-entered |
| QSI imaging (`QSI_start.php`, `QSIcontrol.c`, `QSI_stop.php`, `check_idle_QSI.c`, `process_image.sh`) and hat-trick (`event_monitor4.pl`) | `Commands.txt` (one slot), `prepare_ccd`, `status_ccd`, `status_capture`, `tmp_images`, the shutter flag, `alert.txt` | prepare, expose, save, cancel, watch for idle, close and open the shutter on guiding errors | two writers of a one-slot mailbox; a stop beside a sequence |
| Focuser, autofocus (`move_*.c`, `vcurve.c`, `autofocus/*.php`) | `status_focus`, serial line, the camera's files | move, V-curve, stop | shares camera and focuser with imaging; stop removes files before it kills |
| Mount control, alignment, plate solving | serial line, coordinate files | slew, sync, abort, solve, align | files that outlive the solve they came from |
| noVNC (`core/rfb.js`, `core/websock.js`, `core/display.js`, `app/ui.js`), the page that shows Lin_guider's window | receive queue, `FBU`, render queue, connection state, timers, the state of the UI | connect, handshake, authenticate, parse, draw, ask for the next update, disconnect | messages end anywhere in the stream; images decoded later; timers that outlive their session |
| Camera drivers, accessories, sound, notification, file manager, phpSysInfo, jQuery | - | - | device I/O, output, or third-party code: not modelled |

How they interact.  Browser pages call PHP handlers; a handler looks at status
files, writes parameters and starts a program in the background; the program
creates its status file, works with the camera through a fifo, and removes the
file at the end; pages poll a read handler that answers `*****` when the file is
gone, which resets the page.  A stop handler kills programs by name and tidies
up.  Imaging programs call `remote_client 4` between frames, which blocks until
the command server answers.  What makes each part correct: the status file tells
the truth about the program, one program at a time uses the camera, every frame
is kept, every stop releases what was held, every request gets its own answer.

The full list of hazards, each with its line and the properties that watch it,
is in `PROJECT.json`.

## 2. Plan

Done, in this order: `GuideServer` with its invariants; `CcdImaging`;
`DslrImaging`; `Calibration`; `GuideService`, what a client of the command
server may rely on, and the refinement; `QsiImaging` and `HatTrick` over one
`Commands.txt`; `Autofocus` (V-curve, focuser and the camera); noVNC in three
layers; safety proofs about all of them.

Open, in this order:

1. Pentax as a further driver of `DslrImaging`.
2. Plate solving: the order solve, read, align on files that outlive a solve.
3. The mount's serial protocols and pure algorithms (focuser checksum modulo 256,
   clamps, histogram scaling) against reference definitions.
4. `StopReleases` and the other liveness properties as safety of a ranking, so that
   part of them can be proved.

## 3. Modules

### GuideServer

A request travels *socket, `m_conns`, `m_in_queue`, GUI thread, `m_out_queue`,
`m_conns`, socket*.  The variables are the containers (`conns`, `freeConns`,
`inQueue`, `outQueue`, `frames`, `longTask`), the fields of `conn_t` (`peer` is
`fd`, `cmdOf` the read buffer, `answer` the answer buffer), the epoll
registration (`interest`), the eventfd (`efd`), the posted signals (`pending`)
and where each thread is.

* Server thread: `ServerUp`, `Accept`, `DoRead` (queues the object under the
  mutex), `EmitDoCommand` (the signal, emitted after the unlock), `DoWrite`,
  `Drain` (the loop over `m_out_queue`), `Cleanup`.
* GUI thread: `OnRemoteCmd` takes one object per signal and answers at once
  (`quick`), after the timer of the long task (`dither`) or when the nested event
  loop ends (`calibrate`: the handler is put on `frames`, and other handlers run
  meanwhile); `OnCmdTimer`, `FinishCalibration`, `Notify` (the write to the
  eventfd, a step of its own), `RestartBegin`, `RestartEnd`.  A restart disconnects
  the signals of the old server before it joins the thread (`lin_guider.cpp:532`):
  what was posted before stays in the event queue, what the thread emits until its
  end is dropped, and so are the connections it has queued.
* Clients: `Connect`, `Send`, `Receive`, `Interrupt`.  A client is one run of
  `remote_client`; when the server closes its socket it reads 0 for ever
  (`eof`), as the program does.

Abstracted: all commands that answer at once are one; packets arrive whole;
`read`/`write` on sockets do not fail except at a closed end.

### GuideService

What the users of the guiding commands may rely on: `Ask`, `BeginDither`,
`EndDither`, `Decide`, `Deliver` and the loss of an answer (`Lose`), without threads, queues or objects.  `GuideServer`
ends with the instance `Service` and the mapping: `decided[c]` is what stands in
the answer buffer of the object whose peer is `c`, or what `c` has read already;
`holder` is the peer of `m_long_task_conn`.  A client whose object has been
deleted by a restart maps to a client whose answer is lost.

### CcdImaging

`job[j]` is a run of `ccdcontrol` with its program counter, `watcher[w]` a run
of `check_idle`, `start[p]` and `stop[p]` the handlers a tab has called, `hist`
the one that `setHist.php` is.  Every access to a file or fifo is a step of its
own.  gtkImager is external; what it does is taken from the programs and from the
log of a session kept in the repository (`www/CCD_log.bak`): it takes one command
after the other from `fifo` (`TakeCommand`) and `log` is the last line it wrote,
the answer to the command (`Answers`).  An exposure is logged three times, by a
`RUN` line when it begins, a `PREVIEW` line when it is read out (`ExposureEnds`) and
a `CAPVIEW` line when the image is in its folder (`ImageSaved`); `ccdcontrol` takes
either of the last two for the end, and its sleep of three seconds for the rest.
`STOP` does not shorten an exposure.  `MINADU` and `MAXADU` (`SetHist`, `SetAdu`) may
answer with a `PREVIEW` line of their own; `GETPREVIEW` is only acknowledged.
`flgCcd` and `answer` are the page's busy flag and its newest status request; a
new request takes the place of an unanswered one because the page keeps one
`xmlhttp2`.  `status_connect`, which `ccd.php` also tests, is taken to be there: the
camera was connected (`camset.php`) before.

### DslrImaging

`driver` is the installed program, any of `Drivers`: `gphoto` (`dslr1` with
`shutterN.sh`), `ds` (`dslrds`, `dslrrf`), `usb` (`dslr_usbN`: the RTS line,
released when the process dies).  `MonitorLook` starts the program,
`MonitorRemove` removes the request.  The kill script is four steps, with the
sequence running in between.  A downloader may find no camera (`LoadBegins`;
`dslrds_getphoto.sh` gives up then) or no photo on it (`LoadEnds`): `fetched` and
`missed` say how many frames there were when one last fetched the newest photo and
when one last looked in vain.  `ToggleDownload` is the page's check box for downloads.
`Reboot` keeps files only and applies what `rc.local` clears.

### Calibration

Lin_guider has one GUI thread, so what a command or a click does until it
returns is one step: `OnRemoteCmd` with `StartCalibration`, `StopCalibration`,
`StartAutoguiding`, `StopAutoguiding`, and the clicks `GuiShow`, `GuiClose`,
`GuiToggle`, `GuiStart`.  The exception is an automatic calibration, whose loop
calls `QApplication::processEvents()`: it is a frame in `frames`, and everything
else may happen between two steps of the innermost frame (`LoopLeaves`,
`DriftEnds`, `BackEnds`).  A calibration begun inside such a step is pushed on
top, and the outer one goes on when it ends.  `point` holds, instead of
coordinates, the run in which each of `start_x1 .. end_y2` was measured, and
`pulse` the run whose pulse moves the mount: that is what nesting can mix up.
`box` and `saved` are the check boxes and `m_calibration_params`, which closing
and showing the window copy back and forth.  `PulseEnds` is independent of the
loop, which waits in whole seconds of `time()`.

The page is `flgGuiding`, `flgCalibrating`, the two timers and the newest status
request; `start` and `stop` are the handlers, which send commands with
`remote_client` (`inbox`) and keep `status_guiding` and `status_calibrating`.
`text` is which kinds of line `calibrating.txt` holds.  `Gui` says what a user
does at Lin_guider's own window over VNC: nothing, open, close and set the check
boxes (`"boxes"`), or also start calibrations (`"all"`).  The guider window is
not in this repository; it is modelled by how `onRemoteCmd` uses it.

### QsiImaging and HatTrick

`slot` is `Commands.txt`: one command with its writer, overwritten without a look
(`Write`).  `run[p]` is a run of `QSIcontrol` with its program counter, `script[p]`
its `process_image.sh`, which goes on when the program is killed; `starting` and
`stopping` are the handlers of the page, `watchers` the runs of `check_idle_QSI`.
GoQat is external: it reads a command (`ReadCommand`), exposes, cancels, or hangs.
`HatTrick` extends it with the loop of `event_monitor4.pl`: `monitor` is where it
is between two of its commands, `alert` the last line it wrote for the page.  Whether
the files `hattrick` and `status_guiding` exist may change between any two messages,
so each message finds them or not (`armed`).
No writer waits for another: a command that a second program overwrites before
GoQat has read it is lost, and `lost` says which kinds were.  Each writer's own
pauses (half a second, 0.3 seconds) are taken to be long enough for GoQat to read
what it wrote itself, if nobody else writes (`Paused`).  A stop and a watcher close
the link to the focuser with a command of their own, a step after they have removed
the files (`StopFocuser`, `WatcherCloses` with `closing`).
`Overlap` says that users stop again, or start again, before a stop has had its
effect.

Left out: the end of the monitor's branch at `event_monitor4.pl:116` when a frame
ends under a closed shutter (nothing is written there), the milliseconds between
the two writes at `QSI_start.php:61-63`, its branch for a DSLR, dithers
(`remote_client 4`), the page's polling.

### Autofocus

The page `autofocus.php` with its flags and its newest request (`xhr`), the move
programs (`mover[m]`; number 0 is the one `vcurve` waits for), `focus_update`
(`update[a]`, for the page, for a stop or for `vcurve`), `vcurve.php` and `vcurve`
(`curve`), the stops, the camera and the focuser.  `line` counts the answers that
wait on the serial line, which any program may read or flush; a move program whose
answer another one has taken, or whose command came while the focuser moved, is
`"crossed"`.  A position that could not be read is `Garbage`.

* A stop is a script that goes through the steps of its `Plan` one at a time, with
  everything else running in between: `stop_vcurve.php` removes `status_capture` and
  `status_ccd`, kills the move programs, halts the focuser (which flushes the line),
  removes `status_focus`, and kills `vcurve` last.
* `vcurve.php` tests the files, writes its parameters and starts `vcurve`, which
  empties `vcurve.txt` (`CurvePhp`, `CurveEmpties`).
* The page answers each point with a request that appends `Next` to `vcurve.txt`
  (`AppendPhp`), whenever that arrives.
* `shot` is where the running exposure began, `image` where the newest finished
  one was taken: when `status_capture` disappears early, `vcurve` measures the frame
  before.  `points` holds for each point which position was noted and at which
  position its image was taken.

`Patient` says that users start something only when what went before has come to
rest, and stop only what has begun (`Settled`, `Begun`).  Left out: a second
`vcurve` beside one that a stop has missed, and a first poll of the page, a second
after the click, that comes before `vcurve` has emptied its files.

### VncDisplay, VncStream, VncSession

`VncDisplay` is `display.js`: what can be drawn at once is drawn at once, an image
waits in `renderQ` until the browser has decoded it, and what comes behind it
waits too.  `VncStream` adds the receive queue: the server's bytes, in the units
the code waits for, cut anywhere into WebSocket messages, and the parser with the
place it goes back to when something is missing.  The server sends the header of an
update and then its rectangles one by one; `owed` counts those still to come.  `VncSession` adds what leads to
the state "normal" and away from it: `ui.js` makes an RFB object per connection,
and sockets' events, messages and timers of old objects go on beside the new one.
`Tight`, `Plain` and `Pseudo` are the rectangles servers send, `Mixed` says that
Tight and plain ones come in one session.

The handshake is that of versions 3.3, 3.7 and 3.8 and of a repeater, with its
refusals: an unknown version, no or only unknown security types (`Schemes`), a
failed authentication with its reason.  The four bytes with which a server of
version 3.3 decides the scheme come whole.  `last_rect` ends an update early, an
encoding the client does not know ends the session.  `display.resize` acts at once,
past the render queue, and keeps the canvas's content as far as it fits, so it
changes nothing that the display's variables tell apart.

Left out: the password prompt (`vnc.sh` starts x11vnc without a password), the
cursor, keyboard, mouse and viewport, XVP and Tight authentication, continuous
updates, clicks within the 50 ms after a failure, pixel arithmetic, and the
inflator and DES libraries.

### The assumption Prompt

The scripts rely on sleeps and on users who wait: a handler, also `setHist.php`,
has finished before the next click and before the page asks for the status a
second later; gtkImager has read its fifo within a second, and within the three
seconds of `ccdcontrol` (the eleven of a filter wheel) an image is in its folder and
both limits of a histogram are taken; `dslr_getphoto.sh` has created its file within
seven; a page has heard the news it polls for, and a calibration loop has seen that
its window was closed, before somebody acts again.  The constant `Prompt` of
`CcdImaging`, `DslrImaging` and `Calibration` states these (operators `Settled`,
`Slept`, `Waited`, `Loaded`, `InTime`) and nothing else: with `Prompt = TRUE` all
other interleavings stay, with `FALSE` the assumption is dropped.  Without it
`OneSequence` of the two imaging modules fails: `ccd.php` and `dslr.php` test a
file that the program they start creates later.  `~Overlap` of `QsiImaging` and
`Patient` of `Autofocus` are about users only, and `Patient` of `VncSession` about a
second click on Disconnect.  What is proved of the calibration window, of the
monitor's shutter report and of the command server needs nothing of the kind.

## 4. Runs

| Run | Shows | Bounds | States |
|---|---|---|---|
| `guide_server` | `ConnOwnedOnce`, `NoLostCommand`, `TimerHasTask`, `RightAnswer`; a returned connection at the head is served (`HeadServed`); the server implements `GuideService` (`ImplementsService`) | 2 clients, 2 objects, limit 2, one restart | 79 161 |
| `guide_server_stranded` | *violation* of `NoStrandedReply`: of two replies returned before the server thread wakes, one stays behind | 2 clients | about 7 800 |
| `ccd_safety` | `OneSequence`, `AllFramesSaved` | 2 tabs, 2 sequences of two shapes, dithers, 1 stop, 1 error, 1 hang, 1 temperature query, 1 histogram | 1 529 286 |
| `ccd_live` | `SequenceEnds` and `PageReleased` unless the camera hangs, `StopReleases` even then | 1 tab, 2 sequences, 1 stop, 1 error, 1 hang | 26 874 |
| `dslr_safety` | `OneSequence`, `NoDownloadWhileExposing`, `LastPhotoSought` | 2 tabs, 2 sequences, 2 stops, 1 error, 1 power cut, downloads switched once, drivers `ds`, `usb` | 465 937 |
| `dslr_live` | `SequenceEnds`, `RequestRuns`, `StopCloses` | 1 tab, 2 sequences, 2 stops, 1 error, 1 power cut, drivers `gphoto`, `usb` | 185 420 |
| `calib_web` | `OwnPoints`, `FlagHonest`, `RaReported`, `DriveExclusive` | 2 tabs, 2 loads, 2 calibrations, guiding, 1 stop, 2 clicks at the window's check boxes | 279 268 |
| `calib_gui` | `HiddenAtRest`, `WebNeverManual`, `PageReleased` with calibrations started at the window, also nested ones | 1 tab, 2 loads, 2 calibrations, guiding, 2 stops, 2 clicks | 120 250 |
| `calib_nested` | *violation* of `OwnPoints`: a nested calibration replaces the points of the interrupted one | 1 tab, 4 clicks at the window | about 8 500 |
| `qsi_hattrick` | `OneSequence`, `CompletedSaved`, `ShutterAsReported`, `StartWhenIdle`, `SequenceEnds`, `StopReleases` | 2 runs of one filter and one frame, 1 stop, 1 hang, 1 power cut | 370 627 |
| `focus` | `GuardedMotion`, `PointsTrue`, `MovesEnd`, `PageReleased` | 1 move, 2 curves of two points, 1 stop, 1 failed exposure, 1 unplugged focuser | 520 992 |
| `novnc` | `InStep`, `CanvasAsSent`, `UiTruth`, `Shown`, `DisconnectEnds` | 2 sessions, updates of up to 2 rectangles, one cut in the stream, 1 disconnect, 1 close by the peer | 342 708 |

Why the bounds are enough to meet the interesting cases.  Two clients make two
replies in one batch, reach the limit of `m_conns` and reuse a freed object; two
tabs and two sequences give every overlap of a start with another start, stop or
watcher; the two request shapes are two frames of one filter and two filters of
one frame, so both loops of `ccdcontrol` go round.  Two runs of a calibration,
from two tabs or from a tab and the window, are what it takes to nest one in the
other.  `CheckLimit = 3` stands for the 60 of `check_idle`: it is reached and not
reached.  Two GoQat runs with a stop between them meet the watcher, the
orphaned script and the second start, and the monitor may write between any two of
their commands.  A curve of two points has a move between two images, a second curve
starts on what a stopped one left behind; one curve, one move and one stop suffice for
every pair of programs to meet on the line.  One watcher is what one stop starts.
Two rectangles and one cut put the cut into every kind of wait, before, in and
behind a decoded image; two sessions let every timer of the first end in the
second.  What the bounds leave out is proved for every size where section 5 says
so.

All `Max...` constants only bound how often users, faults and power cuts come;
they appear in guards, never in a state constraint, so liveness is not affected.
Symmetry is used in safety runs only.  `CHECK_DEADLOCK FALSE` is set everywhere
because the system may rest: clients run once, and users need not click again
once the bounds are used up.

### What other constants show

The assumptions of the runs are needed; with others TLC refutes properties:

* `Prompt = FALSE`: `OneSequence` of both imaging modules, `FlagHonest` and
  `OwnPoints` of `Calibration`.
* `Overlap = TRUE`: `CompletedSaved` with one stop, `OneSequence` and `StartWhenIdle`
  with two: the second watcher takes `status_ccd` away under the next sequence.  In
  `CcdImaging` two stops and two watchers do the same to `OneSequence` and
  `AllFramesSaved`, which is why its theorems assume at most one stop.
* The properties of `QsiImaging` and `HatTrick` except frames, sequences and reports
  whose own command another program has overwritten (`lost`); without the exception
  TLC refutes `ShutterAsReported`: the button of a sequence overwrites the monitor's
  selection, and `alert.txt` says "Closed" of an open shutter.
* A temperature query from a second tab while an exposure ends overwrites the log
  line that ends it (`ccdcontrol.c:142`), and the program polls for ever.
* Driver `ds`: `StopCloses`, because `kill_dslrds.sh` releases the shutter before
  it kills the program that may open it again.
* `Patient = FALSE` in `Autofocus`: `GuardedMotion` and `PointsTrue`.  Even patient
  users see what the properties except: without `Overtaken` `GuardedMotion` fails, as
  a stop clears `status_focus` under the move of the `vcurve` it has not killed yet;
  without `~flgCurve` `PointsTrue` fails, as that `vcurve` may note one more point with
  the frame before; without `LateNext` `PageReleased` fails.  Users who wait for nothing
  also break `MovesEnd`: a stop clicked at once misses the move's request, and its
  query takes the answer the move waits for.
* noVNC: `CanvasAsSent` with `Mixed = TRUE` (`finishTile()` draws past the queue) or
  `"tiny"` in `Tight` (`blitImage()` copies from the start of the receive buffer);
  `Shown` with `"qemu"` or `"refused"` in `Pseudo` (the decoder returns nothing, or
  does not count its rectangle); `InStep` with `"refused"` (the handler is called
  again and takes the next message for its screens); `UiTruth` with `Patient = FALSE` and two clicks on
  Disconnect (a lost timer ends the next session).

### Fairness

Threads of the server and programs that are running get to run (weak fairness
per step).  Taking a command and the timer are strongly fair, because their
handler is disabled while the GUI thread is in `Notify` or joining the server
thread, and Qt delivers a posted event or an expired timer afterwards.
`ReadCCD` and the polls of a program are strongly fair for the like reason: a
timer that comes back each second meets the other programs' steps in between.
Nothing is assumed of users, of a camera that hangs, of the end of a
calibration seen from the command server, or of the answer to a dither;
`SequenceEnds` of `DslrImaging` excludes a sequence that waits for that answer,
and `ccd_live` has no dither.  In `Calibration` the loops end because each leg
does: the drift by its time or at the edge of the sensor, the way back at the
start point or after `turn_back_time`.

In `QsiImaging` GoQat, the camera and each kind of program are weakly fair.  The two
commands of the monitor are strongly fair: it waits out its pause once, while other
writers' commands come and go.  A hanging camera has no fairness.  In `Autofocus` the
focuser ends its
motion and the camera its exposure, programs, handlers and the page go on (weakly
fair), unplugging and errors need not happen.  In noVNC everything that goes on by
itself in the browser, the server and the proxy is weakly fair as one action
(`Progress`: the browser runs one event after the other); the answer to a closing
handshake, a peer that closes, and users are not, so `DisconnectEnds` rests on the
timer.

### What the violations say

* `NoStrandedReply`: `for( i = 0; i < m_out_queue.size(); i++ )` pops while it
  counts, so (n+1)/2 of n replies are written; the eventfd is already drained.
* `OwnPoints` with a user who starts a calibration at the window: a
  `START_CALIBRATION` handled inside the loop closes and shows the window in one
  go; the interrupted loop then finds it visible and goes on with points that
  are now the other run's.

Seen while modelling, without a run of their own: a restart of the command
server drops the connections in its queues and leaves their sockets open
(`server.cpp:754`); the warning that DEC has not come back is never given when
RA has, because `auto_term_ok` is not reset between the axes
(`rcalibration.cpp:838`); `autoguide.php` tests `status_guiding` only, so an
autoguiding request from a second tab ends a calibration half-way; the page says
that the camera is ready when its first status request comes before
`monitor_camera` has started the sequence; with the dsusb interface a stop can
leave the shutter open (`kill_dslrds.sh` releases it before it kills the
program); closing the calibration window in Lin_guider leaves the page waiting;
the first calibration after a start of Lin_guider forgets a saved `two_axis`,
because `close()` of a window never shown stores its unfilled check boxes;
`stop_vcurve.php` removes the files and stops the focuser before it kills
`vcurve`, which may go on, note a point with the frame before, move the focuser
without `status_focus`, or leave a file, on which `vcurve.php` and `move_in.php` then
refuse until a Stop; a line `Next` that the page appends late hides the line that ends
the curve, and the page waits for it; a refused curve shows the end of the one
before (`autofocus.php:660`); a Stop with both flags of that page set does nothing.

## 5. Proofs

All theorems hold for every value of the constants that satisfies the module's
named assumption; where one rests on more, its statement says so.

| Module | Theorems | Under |
|---|---|---|
| `GuideServerProofs` | `ServerInvariant`, `TypeCorrect`, `OwnedOnce`, `OnePeer`, `NoneLost`, `TimerSafe`, `Answered`, `ServerImplementsService` | nothing else |
| `CalibrationProofs` | `WindowInvariant`, `HiddenStopsMount`, `ButtonComesBack`, `PageCalibratesItself` | nothing else, no `Prompt` |
| `CalibrationProofs` | `WebInvariant`, `PointsAreOwn`, `FlagIsHonest`, `RaIsReported`, `OneDriver` | `Prompt`, `Gui # "all"` |
| `CcdProofs` | `TypeCorrect`, `CcdInvariant`, `OneAtATime`, `FramesCounted`, `NoFrameLost` | `Prompt`, at most one stop (types: nothing) |
| `DslrProofs` | `TypeCorrect`, `DslrInvariant`, `OneAtATime`, `DownloadApart`, `LastPhotoNotForgotten` | `Prompt` (types: nothing) |
| `HatTrickProofs` | `TypeCorrect`, `OneAtATime`, `FrameInvariant`, `FramesSaved`, `CameraWaitedFor`, `ReportIsTrue` | `NotOverlapping`, that is `~Overlap` (types and `ReportIsTrue`: nothing) |
| `AutofocusProofs` | `TypeCorrect`, `FocuserInvariant`, `MotionGuarded`, `PointsAreTrue` | `Patient` (types: nothing) |
| `VncSessionProofs` | `PageTellsTruth` | `Patient` |
| `VncSessionProofs` (with `VncStreamProofs`) | `HeadersAreHeaders` | `Patient`, no refused resize |
| `VncSessionProofs` (with `VncStreamProofs`) | `DrawnAsSent` | `Patient`, no refused resize, `Orderly` |

**Command server.**  The properties are not inductive one by one.  That a client
gets the answer to its own command needs that the object which carries it still
has the client's command in its buffer (`Carried`), hence that nobody recycles the
object on its way, hence `ConnOwnedOnce`; that in turn needs `PeerExclusive` for
the step that accepts a new client.  So `IInv` is their conjunction with what
every stage of the way carries.  There is one lemma per action and under it one
step per conjunct the action disturbs; what `Append`, `Tail` and a drained prefix
do to the set of elements and to injectivity is stated once.

**Refinement.**  To map every step to a step of the service or to none, one more
thing must be known: answers are decided once.  `ServiceInv` says that no object
carries an answer before the main thread has put it there, that the client of an
object on its way has none yet, and that an unused object has no client; with `IInv` it is
inductive (`RInv`).  Then each action is one lemma: those of the GUI thread decide,
`Receive` delivers, restarts and hang-ups lose, all others stutter.

**Calibration.**  Besides the types of the stack of loops `CInv` needs one fact that
is not among them, `ClosedUsable`: whatever closes the window enables the button,
which is why a loop that finds its window hidden may return without a word even
when it is the last one.  The second part (`WInv`) says why loops do not nest when
users wait.  From the click to the command a start is alone (`Served`): no other
start, stop or status request of any page.  Hence what `calibrate.php` saw of its
file still holds when the command arrives, and since the file exists while a loop's
window is shown, and is removed behind a hidden window only, the command finds no
loop (`OneLoop`).  A single loop has its points and its report to itself
(`OwnReport`).  With `Gui = "all"` the run `calib_nested` refutes it.

**CCD and DSLR imaging.**  The tests of the status files protect nothing by
themselves, since the program that creates the file is started afterwards.  What
protects them is that a click is served before the next one (`OneClick`) together
with who may own what at each stage: between the guard and the first step of the
program there is no other program and no watcher, a file exists while its program
does, a stop finds only what it has killed.  For the DSLR the request file and the
daemon are one more owner, `LoaderAwaited` ties `status_loading` to the sequence
that waits for it, and `FramesAsked` and `PhotosSought` count photos.  For the CCD `Framed` does: the
counters of both loops of `ccdcontrol` bound what is in the archive (`Tally`); while
the program waits, a `CAPVIEW` as the last line and an empty fifo mean that the image
is there (`Exposed`), because a command that is still in the fifo overwrites the line
of the exposure before; and the limits of a histogram, whose `PREVIEW` lines could be
taken for the end of an exposure, are in before one starts (`Undisturbed`), because
the sequence sleeps longer than `setHist.php` does between them.

**QSI and hat-trick.**  Three layers.  `TypeInv` holds whatever happens.  `AloneInv`
adds that one sequence is prepared or at work and has its file, if users let a
stop have its effect, whatever GoQat reads or misses.  `FrameInv` adds the way of a
frame: what the camera, the
command file, `tmp_images` and `process_image.sh` may contain at each stage of the
program (`Stage`), from which follows that a completed frame is saved and that an
exposure is only started in an idle camera, unless the cancel of a stop has been
overwritten unread (`"cancel" \in lost`), after which the camera goes on with a frame
nobody waits for.  `ShutterFollows`, separately and without any assumption, says
which of the monitor's two commands GoQat has read, or that it has missed one.

**Focuser.**  The invariant `FInv` has eight parts.  `TypeOK` with `CurveLeft`, the
number of points left, holds for all users.  Patient ones do one thing at a time
(`OneThing`), so that at most one program moves the focuser (`Alone`): the page's or
`vcurve`'s, never beside a position query, but for the move of a `vcurve` a stop is about
to kill.  From that each program reads the answer to its own motion (`OwnAnswer`), what a stop
takes `status_focus` from stands still or belongs to that `vcurve` (`Cleared`), and from
the position query to the image nothing moves, so that the step noted is where the
image is taken as long as the page waits for the curve (`TruePoint`); that the page
stops waiting no earlier than the curve ends or a stop begins is `EndRead`.

**noVNC, the session.**  Old RFB objects go on with their timers and sockets beside the new one
and report to the same page.  They have nothing left to say: a timer runs only for
this session and in the state it belongs to (`OwnTimers`), which needs that no
handle of a timer is lost; earlier sessions are over, and `onclose` is silent for
them; a session that has not begun has no socket (`Past`, `Unopened`).

**noVNC, the stream.**  That a header is read as a header does not follow from any
bound on the queue: it needs to be known where in the stream the client is.  A
*place* is before a message, between two rectangles or inside one, together with
the number of the next drawing operation; `Fits` says which unit may stand at a
place and `After` where one is behind it, and `Leads` that a sequence of units goes
from one place to another, whatever its length.  The place of the client (`Here`) is
a function of `FBU`, of the line of `_handle_message()` and of how many operations
have been drawn or wait; that of the server (`There`) of what it still owes.  The
invariant `VInv` says that in the states "ServerInitialisation" and "normal" what has
come followed by what is on its way leads from `Here`, and to `There` as long as the
socket is open (`Placed`); that in the handshake one message is on its way at a time
and is the one the method called next expects for the version and the scheme agreed on
(`Said`, `Message`), or the reason of a refusal; and that in all other states
there is nothing (`Silent`), since a session that is left closes its socket.  Cutting the
stream elsewhere changes nothing in it, so `Receive` is one line of the proof; each
handler is a lemma of `VncStreamProofs` that it takes the next units of its rectangle
and no others, also when it comes back half-way through (RAW, RRE and HEXTILE note
in `lines`, `subrects` and `tiles` what is left).  A refused resize is excluded: after
one `ExtendedDesktopSize()` leaves `FBU.rects` and `FBU.bytes` as they are, the client is nowhere, and
TLC refutes `InStep`.

**noVNC, the canvas.**  `Suits` says of the operations of each handler that they carry
the numbers that come next, are images for Tight JPEG and PNG only, and refer to the
receive buffer for RAW, RRE, HEXTILE and small uncompressed Tight rectangles only.
`OInv` adds that what is on the canvas, followed by what waits for an image, is
numbered through, and that what waits has bytes of its own.  This needs `Orderly`:
`finishTile()` draws past the queue, `blitImage()` and `blitRgbImage()` copy what has to
wait from the start of the buffer, and `fillRect()` keeps a view that the next receive
overwrites.  Servers that keep to one family of encodings and send no uncompressed
Tight rectangles of less than 12 bytes beside images satisfy it, and so do those that
never send an image.  How far `_scan_renderQ()` gets is the least index of an
undecoded image, for queues of every length; that a set of numbers has a least
one is derived from the library's theorem that finite sets have no endless chain of
smaller ones (`LeastNat`), as induction itself is out of the provers' reach.

Some actions write a whole record where an update of two fields would be shorter;
the provers handle that form.

Only model-checked: the liveness properties (fairness and ENABLED are out of the
prover's reach).  Every safety invariant of a passing run is a theorem.  `VInv` itself
is not an invariant of a run, because TLC cannot enumerate the sequences of places
in `Leads`; what it implies, `InStep` and `CanvasAsSent`, is.  The type invariants of
`Calibration` and `VncSession` are stated; no run carries them, and the proofs use the
part they need.

## 6. Not modelled

Device protocols of cameras, mounts and accessories; the mathematics of guiding;
the wording and layout of pages and logs; malformed packets; file systems that
are full; a kill that hits an unrelated process of a similar name; in
`Calibration` the video camera's own calibration, the reticle controls and the
values of drift times and angles.  Components without a module are listed in
section 1 and, with reasons, in `PROJECT.json`.

How much of the code is covered.  The definitions stand for about 4 800 lines, a
third of the files they come from.  By lines, most of the repository is code that
the program only calls: jQuery and its plotting plug-ins, the tables and frames of
phpSysInfo, and in noVNC the inflator, DES and the key tables.  They keep no state
that the rest of the system shares, their correctness is a matter of data (a
decompressor, a table), and a model of them would be a transliteration; they are
left out.  Of the JavaScript that has a protocol to keep, the noVNC core, nearly
half of `rfb.js` is modelled, and of the display and the UI what draws and what
follows the connection.
