# PiTrac launch monitor: a TLA+ model of its control logic

PiTrac measures golf shots with two Raspberry Pi cameras.  Camera 1 watches the
teed-up ball and sees it being hit; camera 2 takes one strobed picture of the ball
in flight; the two processes talk over ActiveMQ, and results go to golf simulators
over TCP and to a web GUI.  What decides *when* a picture is taken, *which* picture
belongs to which shot, and whether the machine ever gets back to waiting for a ball is
a handful of state machines, queues and threads; what decides *which number* is
reported is a chain of searches, filters and matchings.  This project models both.
The pixels themselves are left to the image libraries.

Paths below are relative to the repository (`src/Application/...`).

## 1. Inventory

| Component | State | Operations | Interacts with |
|---|---|---|---|
| **Launch-monitor FSM, camera 1** (`Application/GolfSim/FSM/gs_fsm.cpp`) | `GolfSimStateMachine::state_` (a variant), two timer threads and the global pointers to them, `PiTrac_running_`, the per-state flag `already_sent_waiting_ipc_message` | one `onEvent` per (state, event) pair, `RunGolfSimFsm`, `ProcessControlMessageEvent`, `PerformSystemShutdownTasks`, `default_signal_handler` | pops and pushes events; calls vision, strobe, IPC, GUI and simulators synchronously |
| **Event queue** (`Events/gs_events.cpp`, `blocking_queue.h`) | a bounded `std::queue` under a mutex, and a separate counter `queue_size_` updated outside it | `QueueEvent` (blocks when full), `DeQueueEvent` (times out), `GetQueueLength` | every thread pushes, the FSM thread alone pops |
| **Timer and worker threads** (`Threading/worker_thread.cpp`) | `exit_thread_`, the `std::thread`, a message queue in `WorkerThread` | `CreateThread`, `ExitThread` (join), `Process` | callbacks push events |
| **Camera-2 FSM** (`gs_fsm.cpp`, `Init2` and `WaitingForCameraArmMessage`) | the same variant, in another process | `Restart`, `ArmCamera2MessageReceived` | blocks in `WaitForCam2Trigger`; sends `kCamera2Image` |
| **IPC system** (`Interprocess/gs_ipc_system.cpp`) | last received picture, producer and consumer | dispatch per message type and mode, send | turns messages into events |
| **Simulator interfaces** (`Interfaces/External`) | shot counter, list of interfaces, connection, armed flag, a receive thread | `Initialize`, `DeInitialize`, `SendResults`, receive loop, E6 arm/disarm handshake | FSM thread calls, receive threads push control messages |
| **Libcamera interface** (`Interfaces/libcamera`) | cached crop configuration, the open "still" application, trigger states of the camera-2 loop | `ConfigCameraForCropping`, `WatchForBallMovement`, `TakeLibcameraStill`, `WaitForCam2Trigger` | child processes, camera stack |
| **Ball watcher** (`Procs/ball_watcher.cpp`) | the frame loop, motion stage | `ball_watcher_event_loop` | polls `PiTrac_running_`, fires the strobe |
| **Pulse strobe** (`Pulsing/pulse_strobe.cpp`) | pulse interval lists per club, SPI | priming pulses, strobe and shutter, `GetPulseIntervals` | reads the current club |
| **Ball analysis** (`Common/Camera/gs_camera.cpp`, `Infrastructure/ImageProcessing/ImageProcessor.cpp`) | the lists of balls and of timings, the search parameters, the angles | `GetBall`, `AnalyzeStrobedBalls`, `DetermineStrobeIntervals`, `FindBestTwoSpinBalls`, `GetBallRotation`, `ComputeBallDeltas` | called by the FSM thread, reads the pauses of the strobe |
| **Shot results** (`External/*/gs_*_results.cpp`, `UI/gs_ui_system.cpp`) | the result record | formatting, units | simulators, monitor |
| **Calibration and configuration** (`AutoCalibrateCamera`, `gs_config.cpp`) | the configuration tree, its file and its copy | sampling, averaging, `WriteValues` | pictures of camera 2 through IPC |
| **Program start** (`lm_main.cpp`, `PerformSystemStartupTasks`) | what a process holds: consumer and producer, the pin of the strobe; the trigger of each sensor, which outlives it | one command line per kind of work | other programs on both Pis |
| **New camera drivers** (`Interfaces/Camera`) | open, configured, started and capturing flags, requests, the frame buffer | open, configure, switch, start, stop, capture | libcamera's thread calls back |
| **Web GUI** (`golfsim_tomee_webapp`) | `current_result_`, `consumerIsCreated`, an idle counter | `doGet`, the consumer of results | browsers, the broker |
| **Clubs**, **GUI status**, **club data server**, **utilities**, **messaging skeleton**, **vendored detectors** | see `PROJECT.json` | | |

### What is hard about it

* *One consumer that is also a producer.*  Handlers keep the machine going by
  pushing their own next event.  A lost one stops it, a duplicated one makes it run
  twice, a full queue blocks the only thread that could drain it.
* *Timers that are threads.*  The callback runs whether or not anyone still wants
  it, and the FSM joins the thread from the handler of the event the thread queued.
* *Late and stale events.*  Pictures, reminders and control messages arrive in any
  state; a pair with no handler raises an exception.
* *Two ways to stop* (a signal or an `Exit` event) at any moment, including while
  blocked in the watcher.
* *State read again later*: the club when the picture is analysed, the shot counter
  when the result is sent, the cached camera configuration, the connection flags.
* *Two processes*, no acknowledgements, one picture per arm message at most.
* *Matching without identities.*  Exposures carry no name: which strobe lit which ball
  is found again from distances and pauses, after filters have dropped some of both.
* *Searches by feedback.*  The search for circles and the threshold of the dimples are
  loops that steer a parameter by the last result, and may turn round or miss.
* *Two caches of a device* (what was last asked of the sensor, what was last opened)
  in front of commands whose failure is not always reported.

### What makes each component correct

* FSM: exactly one thing drives it on; results belong to real shots, are numbered
  once and are made from the picture asked for; the GUI's "ready" is honest; waits
  end, except for the golfer; shutdown ends.
* Event queue: bounded, FIFO, no lost or duplicated event; every event has one owner
  until it is deleted.
* Camera 2: never answers an arm request twice, never blocks the protocol.
* Simulator interfaces: a broken connection is noticed and replaced; at most one
  receive thread; a shot is sent to E6 only after it is armed.
* Libcamera interface: a ball is searched in a whole picture and watched in its own
  window; the triggers of the camera-2 loop are matched to the pulses.
* Ball analysis: the times and the angles reported are those of the flight; the
  searches end, with a result that suits where there is one.
* Calibration: no calibration is lost to the other camera's or to a crash.
* Program start: what one run leaves behind does not spoil the next; what is told to
  end ends.
* New drivers: frames in order, no buffer lost.  Web GUI: a page that settles is right.

## 2. Plan

Modules, in the order they are written:

1. `LaunchMonitorFsm` (**done**): the camera-1 process, its queue, timers and
   environment.  Theorems in `LaunchMonitorFsm_proofs` (**done**).
2. `BoundedFifo`, the abstract promise of the event queue, and `EventQueue`, the
   blocking queue with its mutex, condition waits, time-outs and separate counter
   (**done**).  Theorem: the refinement, for every set of threads and capacity
   (**done**, in `EventQueue_proofs`).
3. `Camera2Fsm`, the other process, and `TwoCameraSystem`, which composes it with
   the camera-1 process over a lossy broker and a trigger wire, and shows that
   camera 1 sees of camera 2 only what `LaunchMonitorFsm` assumes (**done**).
   Theorems about camera 2 in `Camera2Fsm_proofs`; in `TwoCameraSystem_proofs`, that
   the composition implements `LaunchMonitorFsm`, that the picture is of the hit, and
   what follows for either process (**done**).
4. `SimInterfaces`: connections, receive threads and their shared buffer, arming, and
   the three messages of an E6 shot (**done**).
5. The analysis of a shot: `StrobeIntervals` and `BallFilters` (pure), `ShotAnalysis`
   on top of them, `BallSearch`, `SpinSearch`, and `ShotFlight` (**done**).
6. The devices: `CameraWatch`, `CameraCalibration`, `CameraStream`, `PulseTrain`,
   `WebMonitor` (**done**).
7. `ProgramRuns`: the programs of both Pis, one after another and together (**done**).
8. Theorems about the other components: `SimInterfaces_proofs`, `Devices_proofs`,
   `Programs_proofs`, `Analysis_proofs` (**done**).  Every safety property the runs check
   has one, but for the three about the flight of a ball; so have the safety halves of
   `WatchdogRescues`, `CameraReleased` and `SearchEnds`, and of the second part of
   `UsedTimesAreFlown` (section 5).

The bounds of each run are justified where the run is described (4).

## 3. What is modelled

### `LaunchMonitorFsm`

The FSM thread's control point is `pc`.  A handler that does not block is one
action; one that blocks is cut exactly where it blocks:

| Code | Model |
|---|---|
| `while (PiTrac_running_) { DeQueueEvent(event, timeout)` | `CheckRunning`, `DequeueTimesOut`, `Take(t)` |
| handler that ends with `QueueEvent(e); return s` | `QueueAndReturn(e, s)`, then `Push`: it may block on a full queue; `state_` changes only when the handler returns |
| `CheckForBallStable`: look, `ExitThread()`, delete, then branch | `CheckForBallStable` (`pc = "joining"`), then `BallMoved` or `BallStabilized`, enabled once the thread is done |
| `WatchForHitAndTrigger` | `pc = "watching"`, left by `HitDetected`, `WatchAborted`, `WatchFails` or `WatchThrows` |
| `setup...Timer`: `if (ptr == nullptr) create` | `SetupTimer` |
| `TimedCallbackThread::Process`: sleep, callback reads `PiTrac_running_`, pushes | `TimerExpires`, `TimerCallback` |
| unsupported pair: generic `onEvent` throws, the loop catches | `UnsupportedTransition`, `HandlerThrows`, `WatchThrows` |
| IPC consumer thread, signal handler | `Camera2Answers`, `IpcMessage`, `Signal` |

What the data is reduced to: a shot is its number; a picture is the number of the
shot whose arm request it answers (a history value: the code has no such field,
and that is the point of `PicturesUsedOnce`); a club is putter or driver; a
result records the shot number it is sent with, the picture it was computed from,
the club whose pulses fired and the club whose intervals were used.  Whether a ball
is found, is stable, moves, or can be analysed is a nondeterministic choice.

Left out: real time (a timer may fire at any moment after it is created), the
simulator's armed state beyond "armed or not" in `PollSimulatorArmed`, the text and
images sent to the GUI, still-picture modes, and events that nothing queues
(`BallHit`, `SimulatorIsArmed`, `EventLoopTick`).

### `EventQueue` and `BoundedFifo`

`LaunchMonitorFsm` treats a push and a pop as one step each.  `EventQueue` is the
argument that it may: the same queue, one step per critical section, with everything
that happens outside the mutex as a step of its own.

| Code | Model |
|---|---|
| `queue::push`: lock, `not_full.wait(pred)`, push, unlock | `DoPush`, or `WaitNotFull` and back to `"pushing"` when woken |
| `not_empty.notify_one()` after the unlock | `NotifyNotEmpty` |
| `queue::pop` with a time limit | `DoPop`, `WaitNotEmpty`, `PopTimeout` (the predicate decides once more) |
| `not_full.notify_one()` after every pop | `NotifyNotFull`: wakes any one of the sleepers |
| `queue_size_++`, `queue_size_--` | `LoadSize`, then `StoreIncrement` or `StoreDecrement`: another thread may write in between |
| a wake-up that nobody sent | `SpuriousWakeUp` |
| `new` in the caller, `delete` in the loop, the catch clause that does not delete | `CallPush`, `DeleteEvent`, `HandlerThrows` (the event is `leaked`) |
| the loop test of `PiTrac_running_`, cleared by a signal or an `Exit` | `CallPop`, `LeaveLoop`, `StopRunning`: after it nobody pops |

The FSM thread is a pusher too (`CallPush(Fsm)` from a handler), and one of its handlers
lasts until the golfer hits the ball, which is why a push may never return.  An event is its number.  `queue_size_` really loses updates;
since the header says "Not thread safe" and the value is only traced, no property
is about it.

`BoundedFifo` is what the callers rely on: an operation is called, takes effect in
one step (a push at the tail when there is room, a pop at the head, or a pop that
fails while the queue is empty) and returns.  `ImplementsFifo` maps each thread's
`pc` to the operation it is in.

### `Camera2Fsm` and `TwoCameraSystem`

Camera 2 runs the same loop from another initial state.  Its one long handler calls
`WaitForCam2Trigger`, whose loop (`libcamera_jpeg.cpp`) blocks in `app.Wait()` until
camera 1 triggers the shutter:

| Code | Model |
|---|---|
| `onEvent(WaitingForCameraArmMessage, ArmCamera2MessageReceived)` | `ArmReceived` (`pc = "opening"`), `CameraStarted`, `Trigger(p)` ..., then `SendPicture` and `Push` |
| the loop: test `PiTrac_running_`, then `app.Wait()` | `WaitForFrame`; `pc = "exposing"` until a trigger |
| the `FlightCameraState` machine | `flight`, `NextFlight`, `AfterPriming` |
| `timeOfFirstTrigger` and `kQuiesceTimeMs` | `Quiet(p)`: whether the pause before `p` may have been long enough, from what camera 1's pauses guarantee |
| a camera that hands out the exposure before the last | `Frame(p)` |
| exception in the loop, `undistort_camera_image` of no picture | `CameraFails`, `UndistortThrows` |
| the catch clause, then the `Restart` already queued | `Throws`, `RestartAsCamera1`: the process takes up camera 1's work and is not followed further |

A trigger is a record of its kind and the shot it was sent for: camera 2 does not see
either, it only counts, and the record lets a property say what the picture shows
(`image`).  `sent` is the history of pictures sent.

`TwoCameraSystem` extends `LaunchMonitorFsm` and instantiates `Camera2Fsm`.
`Camera1Step` is a step of camera 1's FSM thread; when the step arms a shot it leaves
`SendCameraPrimingPulses` on the `wire`, when it sees the hit, `SendExternalTrigger`,
and the thread is busy until `SendPulse` has sent the last of them.  The arm message
(`ArmDelivered`) and the picture (`PictureDelivered`) travel through the broker:
either may be lost, and what is overtaken has been lost.  Nothing is acknowledged.
Camera 1 pauses for `kPauseBeforeCamera2PrimingPulsesMs` and hopes that camera 2 is
ready; `PauseSuffices` says that an arm message, if it arrives at all, arrives within
that pause and that camera 2 has then come as far as it can.  With it FALSE
`PictureOfTheHit` does not hold: that is why it is a named assumption of the runs.

`LaunchMonitorFsm` has, for camera 2, a set `requests` of arm messages that may each be
answered once.  `ImplementsLaunchMonitor` replaces that set by the shots armed so far
whose picture has not been delivered, and shows that the composition is a behaviour
of `LaunchMonitorFsm!Spec`: everything said there of camera 1 holds with the real
camera 2.

Left out: the two states of the second group of priming pulses, which nothing
enters; the test modes, which fake the arm message; failures of the SPI device; the
restart of a camera whose device timed out (section 7); and club changes in camera 2's
process.

### `SimInterfaces`

The FSM thread, one receive thread per socket and the two simulators.

| Code | Model |
|---|---|
| `InitializeSims`, `GsSimSocketInterface::Initialize` | `Connect`, then `Greet` per interface; a failure ends the start-up |
| `while (PiTrac_running_ && !receive_thread_exited_)` around `read_some` | `ReceiverStarts`, `ReadSome`, `ReadNothing` (0 bytes: the thread ends) |
| the `static` buffer of `ReceiveSocketData` | `buf`, one for both threads, written by `ReadSome` and read by `ProcessGSPro` or `ProcessE6` |
| TCP has no message boundaries | `ReadSome` returns one message, several run together, or a part: `"garbled"` |
| `IncrementShotCounter`, `SendResultsToGolfSims` | `IncrementShotCounter`, `SendResults` per interface |
| the three messages of an E6 shot, with pauses in between | `SendBallData`, `SendClubData`, `SendShot`, `Disarm`; any write may fail |
| `DeInitialize` with a joinable thread | `at = "aborted"`: the destructor of `std::thread` terminates the process |

### The analysis of a shot

`StrobeIntervals` and `BallFilters` hold the pure algorithms as operators:
the distances, ratios and candidate patterns of `DetermineStrobeIntervals`, and each
filter of `AnalyzeStrobedBalls` on a sequence of balls.  `ShotAnalysis` is the chain
of their calls:

| Code | Model |
|---|---|
| the circles that `GetBall` returns, best first | `FindBalls`, from any choice of `Circles` |
| best pair, handedness | `ChooseBestPair` |
| colour, radius, angle, score and trajectory filters | `FollowTrajectory` |
| the two passes over overlapping balls | `FirstOverlapPass`, `SecondOverlapPass` |
| `DetermineStrobeIntervals` and its failures | `TimeBalls`; `stage = "undefined"` where the code reads outside a vector |
| `return_balls_and_timings` without unclear balls | `KeepClearBalls`: the pause of a ball that goes is added to the next |
| centred pair, time between | `ComputeFlight` |
| `FindBestTwoSpinBalls` | `ComputeSpin` |

A ball carries the number of the exposure it comes from, which the code does not
have; no definition that models code reads it, the properties do.

`BallSearch` is `BallImageProc::GetBall` with the Hough transform as a parameter: a
picture says of each circle down to which `param2` it is seen.  `HoughCircles` lists the circles
`Seen` at a level, the `Stronger` first, and `Removes` says which circle of a concentric pair
goes, for all pairs at once where the code goes through the list pair by pair.  The loop over the
parameter is one step to an iteration (`Iterate`, with one disjunct per branch),
before it `NarrowRadii`, after it `RankBalls`.  The turn with no branch is a stutter.

`SpinSearch` is `GetBallRotation`: `FilterBall1` and `Ratchet` (the threshold steered by
the whiteness of the result), `FilterBall2`, `TurnToCommonView`, `CoarseSearch` and
`FineSearch` over the grids as they are indexed in the code.  `HalfDelta` and `Deltas2` are
the angles the code asks for, negated in y for a left-handed golfer; `Rotated` is what
`GetRotatedImage` makes of them, with one sign for all golfers.  The comparison of two
images is replaced by the distance to the true rotation.  The normalization of the spin to
the balls' line of flight, which follows, is left out.

`ShotFlight` is the geometry: `Picture` is the projection of a place through a camera
(the environment), everything else is the code's way back: distance from the radius,
`ComputeBallDeltas`, `AverageFromTee`, `AverageFlight` with the reversals for left-handed
golfers, `CalculateBallVelocity`, `ProcessSpin` and the three messages that are sent.
Square roots and angles are whole numbers.

### The devices

| Module | Code | Model |
|---|---|---|
| `CameraWatch` | `ConfigCameraForFullScreenWatching`, `ConfigCameraForCropping` with `camera_crop_configuration_` | actions of the same names; the shell command that sets the sensor may fail before or after it took effect (`Command`); `sensor` is the truth, `crop` the cache |
| | `TakeLibcameraStill`, `ConfigureForLibcameraStill`, `libcamera_app_` | the same; `app` may be left half-configured |
| | `DiscoverCameraLocation`, `GetCalibratedBall`, `ball_watcher_event_loop` | the same; what a picture shows depends on the window it was taken through.  The window is always as large as the fastest mode of the sensor allows (`CropSize`): what would cut it to the ball is compiled out (`NOT_DOING_THIS_NOW`); the larger one for images of the club (`kGatherClubData`, off) is left out |
| `CameraCalibration` | `AutoCalibrateCamera` for one camera, `WriteTreeToFile` | a step per picture, for the copy, for opening (which empties the file) and for writing; `Crash` and `RestoreBackup` at any time |
| | camera 2's pictures through `last_received_image_` | `TriggerCamera2`, `ReceivePicture`, `TakeStillPicture2`: a late picture is taken for the one asked for |
| `CameraStream` | `GSCameraBase`, `IMX296Camera` | one action per public call, cut where libcamera's thread may come between: `QueueInitialRequests` and `StartContinuousCapture` (which sets `isCapturing_`), `Stopping` and `StopContinuousCapture` (which waits for the callback that runs); `TakeFrame` and `Reuse` or `LeaveComplete` are the halves of `requestComplete`, `StoreAgain` is its second call when `InitializeCamera` connected it twice |
| `PulseTrain` | `BuildPulseTrain`, `GetNextTwoPulseBytes` | a train is a sequence of [start, length] in bits, built from pauses by `NextPulse`, one after another (`PulsesBefore`) |
| | `OpenSpi`, priming, `SendExternalTrigger`, `SetCurrentClubType` | the same, each of which may fail; priming is three steps (`SendCameraPrimingPulses`, `SendPreImageTrigger` where it is configured, `ReopenSpi`), so that the club may change in between.  The rate (`RateOf`: fast for the driver alone, and for every still) and the train (`TrainOf`: slow for the putter alone) are two tests, as in the code |
| `WebMonitor` | `doGet`, `GolfSimConsumer.run`, and `doPost`, which sets the club that was clicked | one step per access to a static variable: `Get`, `CreateConsumer`, `SetCreated`, `Count`, `Reset`; `SetCurrentClubType` at any moment; `Receive`, `UpdateClub`, `Decide`, `UnpackShot`, `UnpackType`.  A message says how many of its fields can be unpacked before an exception (`Unpacked`) |

### `ProgramRuns`

The programs of both Pis from without: `PerformSystemStartupTasks` as a sequence of
steps each of which may fail, for each kind of command line, then the work and the
closing.  What outlives a run is the trigger of each sensor (`trigger`), what two
programs compete for is the pin of the strobe (`gpio`), and where they meet is the
broker (`Hears`: a program does not hear messages of its own system).

| Code | Model |
|---|---|
| `PerformCameraSystemStartup`, `InitializeIPCSystem`, `InitGPIOSystem`, `InitializeSims` | actions in this order; on failure the program goes to its end |
| the `if` chain of `run_main` and its `switch` of modes | `FirstStage`, `Work`, `WorkOfMode`, `AfterPicture` |
| `still_image_event_loop` on a sensor that waits for a trigger | `FrameArrives` is not enabled |
| `RunGolfSimFsm` of either camera | `Monitor`, `Camera2Ends` |
| `WatchForHitAndTrigger`, inside a handler of the loop | `stage = "watching"`: left when the golfer hits or the camera fails (`WatchReturns`), and when the watcher sees that the flag is cleared (`WatchIsStopped`), but not for an `Exit` in the queue |
| the shutdown command, injected shots, `default_signal_handler` | `SendShutdown`, `InjectShots`, `Signal` |

### Compositions for checking

`MC_Analysis` (`ShotAnalysis`, `BallSearch`, `SpinSearch`, `ShotFlight`), `MC_Devices` (the five
device modules) and `MC_Programs` (`Camera2Fsm`, `ProgramRuns`) put components that share no
state into one run: a behaviour is one of any of them, chosen at the start, while
the others stay as they are.  A property of one is then checked on exactly its own
behaviours.

## 4. What is checked

The `MC_` modules name the specification and the data; the `.cfg` files give the
constants.  Deadlock checking is off: the processes really stop
(`pc = "stopped"`), and blocking for ever is a subject of the liveness properties.

| Run | Question | Result |
|---|---|---|
| `fsm_safety` | two shots, a message, a signal, camera faults: `AtMostOneDriver`, `DriverPresent`, `ReadyIsHonest`, `ResultsNumberedOnce`, `PicturesUsedOnce`, `HitBeforeResult` | hold (596 074 states) |
| `fsm_liveness` | two shots with pre-images that do arrive: do waits end (`StabilizationEnds`, `WatchdogRescues`, `ShutdownCompletes`) under `FairSpec` with a queue that cannot fill? | hold (57 964) |
| `fsm_second_watchdog` | is every hit given a time-out, as the comment says? `EveryHitAnswered` | violated: the timer is created once |
| `fsm_exception` | does the FSM restart after an exception, as the log says? `ExceptionsRestart` | violated: no `Restart` is queued |
| `queue` | two producers and the FSM thread on a queue of two: `OneOwner`, `NoLostWakeUp`, `ImplementsFifo`, `PushReturns` | hold (342 029) |
| `cameras_safety` | both processes, messages lost, camera 2 failing or restarted at any moment: `PictureOfTheHit`, `ImplementsLaunchMonitor` | hold (903 972) |
| `cameras_liveness` | a camera that needs a flush trigger: is an armed camera 2 released by the triggers of its own shot (`CameraReleased`)? | holds (242 286) |
| `programs` | camera 2 under any triggers, arm messages, faults, signals and restarts: `OneRestart`, `StopsUnlessArmed`; four runs of the programs, two at a time: `MonitorRunsFree`, `RequestsAreHeard`, `ToldMonitorsEnd` | hold (155 791) |
| `sims` | two simulators that talk, close and are told to stop in any order: `E6GetsWholeShots`, `OneShotPerArm`, `ClubsFollowGSPro` | hold (2 733 986) |
| `analysis` | are the times those of the flight (`IntervalsAreFlown`, `UsedTimesAreFlown`), does the search for balls end, and well (`SearchEnds`, `AcceptableLevelIsUsed`), are the images for spin comparable (`EndsInBand`, `ImagesAreComparable`), and are the angles and the speed right (`FlightIsRecovered`)? | hold (320 846) |
| `shot_all_seen` | is a pattern found when no exposure is missing, as the comment says? `NoPatternIsNeeded` | violated: the vector of candidates is read at -1 |
| `devices` | page, window, calibration, stream, strobe, whatever fails or comes late: `SettledPageIsRight`, `WatchesOnlyTheBall`, `BlockedOnlyByStaleCache`, `CalibrationsSurvive`, `FramesInOrder`, `CaptureLosesNoBuffer`, `PulsesAreAsConfigured`, `FlashRunsAtItsRate` | hold (871 066) |

Some of these properties have a condition because without it the code does not keep
them; the condition is then the interesting part:

* `SearchEnds` asks that no step of the parameter leads from too many circles to some,
  but too few: there the loop has no branch (section 7).
* `IntervalsAreFlown` and `UsedTimesAreFlown` ask that the lost exposures can be told at
  all (`Tellable`), that the handedness was recognised and that no false circle is left
  among the balls; the last also excludes left-handed shots from the times of the
  clear balls (section 7).
* `ReadyIsHonest` is about steps: no step but a caught exception (`CaughtException`) makes an
  honest "ready" a lie.  After an exception it may be one, for ever: that is the violation of
  `fsm_exception`.
* `PushReturns` asks that the FSM thread keeps coming back to pop (`FsmKeepsPopping`), which a
  handler that waits for the golfer, a push of its own to the full queue, or the cleared
  running flag may prevent.
* `WatchesOnlyTheBall` excludes windows that were "corrected" at the edge of the sensor,
  and `BlockedOnlyByStaleCache` a ball that nobody ever hits, and it names the two caches
  that may be wrong for good.
* `ImagesAreComparable` excludes, for left-handed golfers, the y axis (section 7).
* `CaptureLosesNoBuffer` begins when `isCapturing_` is set, not when the requests are queued,
  and `FramesInOrder` lets a frame come twice if the callback was connected twice (section 7).
* `SettledPageIsRight` is about one consumer; two first requests at once may start two.  The
  club it asks for is the one clicked, where one was clicked since the last report.
* `FlashRunsAtItsRate` is about shots of a driver or a putter that the FSM primed for that club;
  it excludes a change of club between priming and hit, other clubs, stills and pre-images
  (section 7).
* `ToldMonitorsEnd` excludes a program that from some moment on waits for a frame of a sensor
  that another program left waiting for a trigger, or for a hit that never comes.
* `ShutdownCompletes` holds while the queue cannot fill.

**Bounds.**  Two shots are what it takes for one shot's picture, reminder or number
to meet the next.  A queue of 3 is full in `fsm_safety` with one driving event, one
reminder and one message or picture, so blocked pushes occur; the liveness run has
5, more than all events that can coexist with one shot and one message, because a
full queue is a separate question (section 7).  The capacity in the code is 20;
the theorems hold for every capacity.

`queue` has two producers and four events, the fewest with which two pushers sleep
on a queue of two while the FSM thread pops; a wake-up can be lost only among two
sleepers, and `NoLostWakeUp` counts those against the places and the wake-ups on the way.  The
camera runs use two initial priming pulses for twelve: one sets the time of the
first trigger, another is ignored, and further ones are like the second.  They have
two shots, so that triggers or a picture of one can be taken for the other's.
`cameras_safety` has a queue of 2 in each process and no control messages, which do
not concern camera 2.  On its own camera 2 gets triggers of two kinds, `initial`
and `strobe`, enough for each branch of its loop, and one undispatched arm message
at a time.  Four starts of two programs over thirteen command lines let one run spoil
a sensor, a second and a third use it, and one of them be told to stop.

`sims` has two shots and two messages of each simulator: a first arming, a second or
a ping between the messages of a shot, two clubs that could change places, and a
closed socket before, during or after a shot.  In `analysis` the strobe flashes six
times, with the first five pauses that are configured for a driver, and the search returns up to
five circles, so that at least one exposure is lost, of the six and of four false ones, one for each filter, with any two as the best; for a
right-handed, a left-handed and a putting golfer.  `shot_all_seen` has six.  The
search for balls has five circles (three concentric, one coloured, one too large), each
visible down to any of three levels or not at all, in the four modes with their own
numbers and steps; the search for spin all rotations within the coarse grid, all
whitenesses of a blank image with slopes up to five per cent, and five views per
axis; the flight the cameras as configured and 38 shots: both hands, three launch and
three side angles, two speeds, and putts.  In `devices` two refreshes on two request
threads, the second of which resets the page, meet two messages and a club to click, where one
of the three messages there are can be unpacked to its measurements only; five balls lie in the middle, off it, at one place in two sizes, and where
the window would leave the sensor; three calibrations alternate between the cameras with two pictures each; two
requests carry three frames through a buffer of two and up to two connections of the callback;
the trains are built from pauses that are and are not whole bytes, and one configuration
has a pre-image.

`AngleError` is two degrees and `SpeedError` nine per cent: the whole numbers of the
model and the side component of the velocity, which depends on where in the picture
the ball is (section 7), come to that much, while a reversed or forgotten angle, or
deltas of another pair, come to more.

**Fairness.**  `FairSpec` of `LaunchMonitorFsm` assumes weak fairness of the FSM
thread's own steps and of each timer thread: both are ordinary runnable threads that
nothing suspends, and a watch that is told to stop sees the next frame.  Nothing is
assumed, here or in any other module, of the golfer (`HitDetected`), of camera 2 or of senders of messages.
`EventQueue` assumes it of every thread inside a push and of the FSM thread's loop
between its handlers; no handler has to return, nobody has to push, stop the program or
throw, and no spurious wake-up is counted on.  That the FSM thread keeps popping is the
premise of `PushReturns`.  Which sleeper a notification wakes is not fair: were others to
push for ever, the same thread might be passed over for ever.  `PushReturns` is about
a burst of pushes that ends, which the bound on events makes every burst.
`FairSystemSpec` assumes it of both FSM threads and of camera 1 sending a train of
pulses it has begun; the broker may lose everything.  `BallSearch` is a loop in a
thread that runs: its next step is weakly fair.  `CameraWatch` assumes it of the steps that
wait for nobody (`Proceed`), so not of the end of the ball watcher's loop, and adds strong fairness of
the outcomes in which a command, a picture or a search succeeds: the property is about
what happens once nothing fails for ever.  `ProgramRuns` assumes that a sensor that runs
free delivers frames, that a watcher which gets frames sees the cleared flag, that a
program that closes ends, and (strongly) that a monitor
which comes back to its queue again and again takes the `Exit` event out: the queue is
a FIFO, as `ImplementsFifo` says.  That a monitor comes back from the watch is not assumed.

## 5. What is proved

Of the properties the runs check, all that say what never happens are theorems, but
three.  None of the theorems uses fairness.  Each is proved for every value of the
constants the named assumptions allow (listed below); the properties are
seldom inductive, and what each invariant adds is the argument.

`LaunchMonitorFsm_proofs`, for every capacity, mode and bound:

* `TypeCorrect`: `TypeOK`, which bounds the queue.  Inductive as it stands.
* `OneDriver` and `NoLostWakeUp`: `AtMostOneDriver` and `DriverPresent`.  Neither
  is inductive: a stabilization thread left over from an exception could queue a
  driver for a machine that has another.  `DriverInv` adds where the thread object
  can exist (`TimerInv`: only while stabilizing, or in the initial state with no
  `Restart` coming), that the states waiting for camera 2 have no driver at all,
  and that what a handler pushes is what the state it returns acts on
  (`HandlerInv`).  Facts about heads, tails and appends are in `PopDriver` and
  `PushDriver`.
* `NumberedOnce` and `HitComesFirst`: `ResultsNumberedOnce` and `HitBeforeResult`.
  `ResultInv` adds that the current number is unused while a shot is armed, where
  a handler that is pushing counts as already in its next state (`Reached`), and
  that a machine waiting for the picture of a ball that never moved has lost the
  running flag and is past the point where it could pop that picture.
* `ReadyAlwaysHonest`: `ReadyIsHonest`, a property of steps.  `ReadyInv` names the states a
  machine that shows "ready" may be in, or be on its way to while a handler pushes; among
  them is the initial state, where an exception may have left it, and `HonestStep` shows
  that no other step leads from an honest status to a false one.
* `PicturesNeverReused`: `PicturesUsedOnce`.  `PictureInv` says that the picture of a shot
  is in one place at most: asked for, in the queue, or used.
* `BlockedByMessagesOnly`: a thread that waits for room in the queue waits behind at least
  `kMaxQueueSize - 1` messages from outside the machine, and the FSM thread never joins
  a timer thread that still has to push.  `TrafficInv` and `ReminderInv` count the machine's own
  events: one driver and one reminder at most, in the queue, about to be pushed or still in
  a timer (`OwnEventsAreFew`), also while the machine is being stopped.
* `RescueIsKept`: what `WatchdogRescues` needs besides fairness.  A machine that waits for a
  picture while the reminder of its watchdog is in the timer thread, in the queue or being
  handled keeps it so until the wait is over, whatever else is queued, taken or thrown.

`EventQueue_proofs`, for every set of producers, capacity and bound:

* `QueueTypeCorrect`: `TypeOK`.
* `QueueIsFifo`: `ImplementsFifo`.  A step inside a critical section is a step of
  `BoundedFifo`; waits, notifications, wake-ups and the counter are stutters.  The
  invariant needed (`QueueInv`) says what each `pc` implies about `item`: a thread that
  pushes holds an event, and outside a push or a finished pop a thread holds none.
* `NoWakeUpIsLost`: `NoLostWakeUp`.  While a thread sleeps for room, somebody is on the way
  (`OnTheWay`) for every place that is free: a pusher that will take the mutex, or the pop
  that has yet to notify; and the FSM thread sleeps beside an event only until the push
  that brought it has notified it, whichever sleepers the notifications pick.
* `EventsHaveOneOwner`: `OneOwner`, an equality: the events that were allocated and not deleted
  are those that somebody holds and those whose handler threw, which nobody deletes.
  `OwnerInv` says that nobody holds a deleted event, that no two hold the same one, that
  leaked ones are apart from both, and that no number is used again.

`Camera2Fsm_proofs`, for every capacity, number of shots and configuration:

* `Camera2TypeCorrect`: `TypeOK`.  It needs `HandlerInv`: inside the long handler the
  process serves a shot and its state is still `WaitingForCameraArmMessage`.
* `OneRestartAlways`: `OneRestart`.  `RestartInv` adds that whoever is about to push a
  `Restart` has none queued.  `PopRestarts` and `PushRestarts` say what a pop and a push
  do to the Restarts of a queue.  The lemma `TriggerKeepsInv` is about any trigger, not
  only those of the stand-alone environment.

`TwoCameraSystem_proofs`, for every capacity, number of shots and of pulses,
configuration, and, but for the second theorem, with or without `PauseSuffices`:

* `CompositionRefines`: `ImplementsLaunchMonitor`.  Every step of camera 1 is the same
  step of `LaunchMonitorFsm`, arming a shot included (`ArmingAddsRequest`); the
  delivery of a picture is `Camera2Answers` (`DeliveryRefines`); all else is a stutter.
  The invariant needed, `OfArmedShots`, says that every shot number in the hands of
  the broker, of camera 2's queue, handler and pictures is one camera 1 has armed:
  otherwise a picture could answer a request not yet made.
* `PicturesShowTheHit`: `PictureOfTheHit`, assuming `PauseSuffices`, without which it
  is false.  Camera 2 only counts triggers, so `MatchInv` relates its count to what is
  still on the wire (`InStep`), unless the shot it serves was given up unhit, and
  `ArmInv` keeps an arm message from being taken up in the middle of a train.  With
  `kUsePreImageSubtraction` the argument is another: the pre-image that camera 1
  waits for is never sent (section 7), and no ball is hit at all (`NoHitInv`).
* `ReleaseIsOnTheWire`, assuming `PauseSuffices`: what `CameraReleased` needs besides fairness.
  Once the ball is hit, an armed camera 2 has been opened and is served by this shot, and
  the wire holds exactly as many triggers as its loop still lacks (`TriggersShort`).
* `ComposedLaunchMonitor`, `ComposedDriver`: what `LaunchMonitorFsm_proofs` proves of
  camera 1 alone, of its results, its pictures and its "ready", holds in the composition.  Its theorems are instantiated at the
  requests that camera 1 takes to be unanswered (`Camera1`), by way of the refinement.
* `ComposedRestart`, `SystemTypeCorrect`: `OneRestart` and `SystemTypeOK` in the composition,
  from an instance of camera 2's invariant (`Camera2`).  Here the triggers are those of a
  real camera 1: `WireTyped` and `NumberInv` say that they carry a shot's number.

`SimInterfaces_proofs`, for every bound on shots, messages and losses:

* `SimTypeCorrect`: `TypeOK`, with what is left of the list of interfaces at each
  point of a visit (`TodoInv`).
* `ShotsReachE6Whole`: `E6GetsWholeShots`.  `WholeInv` adds what the latest ball and club
  data at E6 are at each point of the three messages.
* `NoShotUnarmed`: `OneShotPerArm`.  `ArmInv` counts: shots sent, plus the one that is
  being sent or may be, plus the arming still in the buffer are no more than E6 has asked
  for.  The receive thread sets the flag and the FSM thread clears it.
* `ClubsAreAskedFor`: `ClubsFollowGSPro`.  `ClubInv` embeds the changes queued so far
  and the one in the shared buffer in what GSPro has sent and is read.

`Devices_proofs`:

* `CalibrationsAreKept`: `CalibrationsSurvive`, for any number of calibrations and
  pictures.  `CalibrationInv` says that the tree in memory differs from the last
  complete file in one camera only, and that a torn file has a good copy.
* `FlashIsOfItsTrain`: `FlashRunsAtItsRate`.  `StrobeInv` follows the rate through the
  steps of opening and priming, any of which may fail, with and without a pre-image.
* `CaptureKeepsItsBuffers`, `FramesStayInOrder`: `CaptureLosesNoBuffer`, `FramesInOrder`, for any
  number of requests, frames and connections and every size of buffer.  `StopInv` says where a request
  may be while capture stops; `FrameInv` orders the frames in the buffer among themselves
  and against those handed out and those yet to come.
* `TheBallIsWatched`: `WatchesOnlyTheBall`.  `WatchInv` says that
  the region the detector was given fits the crop that is remembered (`Fits`), even when
  another ball of the same window gave it, whatever commands failed unseen.  Such a ball must
  not be so much larger that its region leaves the one watched (`SeenAgainAssumption`): the
  region is set only with a new window.
* `TrainsAreAsConfigured`: `PulsesAreAsConfigured`, for any number of pulses.  The bytes and
  the bits left over of one pulse go into the next (`OnePulseMore`); by
  induction every pulse of a train stands where it should (`PulsesStandAsConfigured`).
* `PageSettlesRight`: `SettledPageIsRight`, for any requests and messages.  `PageInv` says,
  at each point of the consumer, from which message on the page shows what the messages
  amount to (`Showing`), also while an object is half unpacked, will never be unpacked to its
  end, or has been replaced, and whichever club is clicked at that moment.

`Programs_proofs`, for every set of command lines, processes and number of runs:

* `MonitorsRunFree` and `PictureRequestsAreHeard`: `MonitorRunsFree` and `RequestsAreHeard`.
  `RunInv` says what a program at each stage has done (`Placed`) and which stages its
  command line leads to (`OnPath`), for every command line the options allow.

`Analysis_proofs`:

* `BallsAreComparable`: `ImagesAreComparable`, for all views of both balls: on every axis of a
  right-handed golfer, and on x and z of a left-handed one.  The
  angles are halved and rounded twice; `HalfWays` bounds what is left by a degree.
* `RatchetEndsInBand`: `EndsInBand`, for every band at least as wide as a step and every
  image whose whiteness changes gently.  `BandInv` says that the ratchet
  is still on the side of the band it came from; that whiteness falls with the threshold
  (`WhiteFalls`), and not too fast (`WhiteFallsGently`), makes it meet the band at its next step or
  leave no threshold in it.
* `SearchFindsWhatSuits`: `AcceptableLevelIsUsed`, for all circles, pictures and
  parameters of the four modes.  `SearchInv` says that the level before, on the way
  from the start, was left for too many circles or for too few; since fewer circles are
  seen at stricter levels (`FewerCircles`), no level on that side suits, and a search that gives up
  at its limit has none left (`NoneSuits`).  In reach are up to ten steps to either side
  (`Grid`).
* `SearchDraws`: what `SearchEnds` needs besides being called.  Without a jump from too many
  circles to too few the loop has a branch for whatever it finds (`HasBranch`), and each turn
  lowers a measure: it leaves its first phase for good, or comes nearer to the limit of its
  direction (`Phase`, `Ahead`).  That the thinning of concentric circles leaves some circle
  of every list (`SomethingKept`) is part of it.
* `PausesAddUp`: what leads from the timed balls (`IntervalsAreFlown`) to the clear ones, the
  second part of `UsedTimesAreFlown`.  If the pauses of the timed balls are the differences
  of some time of each ball, as flown ones are in a list in the order of exposure, then so
  are those of the balls left by `WithoutUnclear`, for lists of any length and any choice of
  the balls that go (`MergedAddsUp`, `ClearAddsUp`).

**Assumed**, in named assumptions of the modules that TLC evaluates: capacities are positive
natural numbers, bounds are natural numbers, modes are Booleans, the set of producers is
finite and the FSM thread is not among them; a crop leaves less than the sensor
(`WatchAssumption`), balls of one window are of one kind (`SeenAgainAssumption`), a torn file is no configuration (`FileAssumption`), a frame buffer holds a
frame (`StreamAssumption`), a pulse and the bits left over before it fit in two bytes and
pauses are no shorter (`TrainAssumption`), results are results, what is clicked is a club and `None` is nothing else
(`ResultsAssumption`, `NoneAssumption`); a command line is of a known kind
(`CommandsAssumption`); the first threshold is within the limits of the ratchet, and the band
five per cent wide (`RatchetAssumption`); angles and parameters are whole numbers and
levels lie a whole step apart (`PairsAssumption`, `LevelsAssumption`).

**Induction.**  The induction theorems of the library cannot be used, for they take an operator
as a parameter.  Where a sequence of any length is worked off, induction is by the least
counterexample instead: the set of numbers at which a statement fails has a least
member (`LeastNumber`, from the well-foundedness of the natural numbers), and there it cannot
fail.  So `FoldLeft` is shown to take one element after another (`FoldSteps`), which is all that
`TrainsAreAsConfigured` and `PageSettlesRight` need of it, and the recursive function in
`WithoutUnclear` to exist (`ClearingExists`).

**Only model-checked:**

* The liveness properties `StabilizationEnds`, `WatchdogRescues`, `ShutdownCompletes`, `PushReturns`,
  `CameraReleased`, `StopsUnlessArmed`, `ToldMonitorsEnd`, `SearchEnds` and `BlockedOnlyByStaleCache`:
  fairness is a matter of `ENABLED`, which the prover does not handle.  Of three of them the
  safety half is a theorem: `RescueIsKept`, `ReleaseIsOnTheWire`, `SearchDraws`.
* `IntervalsAreFlown` and `UsedTimesAreFlown`: whether pauses can be told from
  distances depends on the pauses that are configured.  They are true of the lists of the
  runs, and not of every list.  What does not depend on them, that pauses still add up when
  balls are taken out, is `PausesAddUp`.
* `FlightIsRecovered`: the tolerances are those of the camera positions and shots
  of the run, with square roots and arc tangents of whole numbers.

## 6. Not modelled

* What OpenCV computes from pixels: edges, the Hough transform itself, Gabor filters,
  the differences that are motion, the comparison of two images.  The modules take
  their results as parameters.  So the refinement of the best circle
  (`kUseBestCircleRefinement`, off by default) is left out, and the vendored ellipse and
  edge detectors.
* The lens models and undistortion: constants and arithmetic on images.
* The club data server, logging and utilities: no state that decides anything.  The
  messaging and task skeleton: its `.cpp` files are empty.
* Option parsing, the JSON and the encoding of messages: read once, or a format.
* `WorkerThread`, which the ball watcher declares and nothing starts; the message that `doPost` of the
  servlet sends (the club it sets is modelled); images of the club (`kGatherClubData`),
  which make the watched window larger; the branch of the stabilization handler for a
  calibration (`gs_fsm.cpp:217`), which no mode that runs the FSM reaches; modes that only test the program
  itself; the Windows branches.
* Real time.  Timers may fire at any moment after they are created; that
  `kMaxCam2ImageReceivedTimeMs`, already in milliseconds, is multiplied by 1000 once
  more (`gs_fsm.cpp:130`) therefore makes no difference to the model.

`PROJECT.json` lists, per component, what of it is left out.

## 7. Known deviations

Three of them are runs: `fsm_second_watchdog`, `fsm_exception` and `shot_all_seen` (section 4).  The following
were met while the modules were written.  The models do what the code does, or exclude
the case by a named condition.  Paths are under `src/`.

**The launch-monitor process**

* An exception leaves the FSM in its initial state although the log says
  "Restarting..." (`Application/GolfSim/FSM/gs_fsm.cpp:989`): no `Restart` is queued, which
  `gs_fsm.cpp:902` says is needed.  The machine is dead from then on, and the GUI goes on
  showing "ready to be hit" if that is what it showed.  In camera 2's process the state it
  is put in is even camera 1's.
* The event whose handler throws is never deleted (`gs_fsm.cpp:989`, `leaked` of `EventQueue`).
* The reminder of an earlier shot's watchdog, late or queued while a ball is watched, carries no
  shot: it is taken for one of the shot now waiting and cancels it (`gs_fsm.cpp:636`).
* A picture carries no shot either: one of an earlier request that comes late is analysed
  for the shot now waiting (`gs_fsm.cpp:549`).
* The FSM thread pushes to the bounded queue that it alone drains
  (`blocking_queue.h:43`): a queue filled by messages blocks it for ever, and then
  Ctrl-C does not get it out.  That nothing but messages can do so is `BlockedByMessagesOnly`.
* The pauses of the pulses are looked up by the club at the time of the analysis
  (`pulse_strobe.cpp:839`), though the comment at `gs_camera.cpp:3799` wants the "original,
  actual intervals".
* An armed camera 2 whose shot is abandoned waits for a trigger with no time-out.  When
  libcamera itself reports a device time-out, the loop restarts the camera and waits on
  (`libcamera_jpeg.cpp:123`): triggers sent meanwhile are missed and the count is behind.  The
  models leave this out.
* The FSM primes at the fast rate for the driver alone (`gs_fsm.cpp:354`), and the train is
  the slow one for the putter alone (`pulse_strobe.cpp:385`): with no club selected, as at
  start-up, or an iron, a fast train is sent at the slow rate.  The stills and the pre-image of a
  putter are the other way round: a slow train at the fast rate (`pulse_strobe.cpp:748`).
* `SendCamera2PreImage` returns false without sending anything.
* `queue_size_` is changed without a lock by several threads and drifts.
* A shutdown message does not end a watch: the `Exit` it queues is popped after the golfer has
  hit the ball (`gs_ipc_system.cpp:257`, `gs_fsm.cpp:959`).

**Programs**

* A still of camera 2 on Pi 1 leaves its sensor waiting for triggers: a calibration or
  ball location started afterwards hangs there, and a monitor that runs is spoiled.
* Ball location never ends: the handlers that would stop it are commented out
  (`pulse_strobe.cpp:535`).
* After a calibration, "Shutdown the camera2 system (if running) so the user doesn't
  have to do it" follows a `break` (`lm_main.cpp:1370`) and is never reached.
* A start-up that fails half-way closes nothing of what it opened.
* "Send a single IPC results message (e.g., for testing) and exit"
  (`gs_options.h:114`) describes a mode that injects several shots.
* A wrong `golfer_orientation` is not noticed: the mode is looked up instead
  (`gs_options.cpp:112`), and the orientation becomes right-handed.

**Simulators and results**

* `DeInitialize` drops a `std::thread` that is still joinable
  (`gs_sim_socket_interface.cpp:210`): the reconnection that `SendResults` tries
  (`:269`) and "Will attempt to re-initialize" (`:151`) promises ends the process.
* E6's flag is set by one thread and cleared by another after a whole shot
  (`gs_e6_interface.cpp:249`): an arming that comes while the shot is being sent is wiped out.
* `DeInitializeSims` leaves deleted interfaces in its list (`gs_sim_interface.cpp:132`).
* "E6 Enforces certain ranges. Make sure we do, too": the ranges are applied to locals,
  and the members are sent (`gs_e6_results.cpp:53`).
* `GetSpinAxis` has the sign of side spin over back spin, the comment the opposite
  (`gs_results.h:29`).
* The message of a hit carries a random carry and no club (`gs_ui_system.cpp`).
* The distance to the plane of the ball is taken for the direct distance to it when polar
  angles are converted (`gs_camera.cpp:1582`): off the axis the ball is placed too near.
  `Picture` lets the size of a ball tell the direct distance; with the distance to the
  plane side angles are up to 17 degrees off.
* The side component of the velocity is recomputed from one distance only
  (`gs_camera.cpp:4675`).

**Analysis**

* The search for circles has no branch for some, but too few, circles right after too
  many (`ImageProcessor.cpp:1509`): it repeats the same step for ever.
* "Return the prior set of balls" (`ImageProcessor.cpp:1543`) keeps the balls and
  returns their number as 0, which fails the search.
* For a left-handed golfer the angles by which the two balls are turned to a common view are
  negated in y (`ImageProcessor.cpp:3719`, `:3750`), while the rotation has one sign for all
  golfers (`:4918`): on that axis the two are turned apart, not together.
* The offset of the spin adds the halved angle on one axis and subtracts it on the
  other (`ImageProcessor.cpp:3975`) for either hand, while the halves depend on the hand.
* The timings are sorted left to right for both hands (`gs_camera.cpp:4028`), so the
  pause "before" a ball of a left-handed shot is the one after it.
* The interval of the pair for spin is that before the later of the two in the list
  (`gs_camera.cpp:5253`), whether or not they are neighbours.
* `CvUtils::RoundAndMakeEven` is called and defined nowhere in the repository; its name
  was taken at its word.

**Cameras, calibration, page**

* The window that would leave the sensor is "corrected" by folding its offset about the
  other end, with another resolution (`libcamera_interface.cpp:467`): it does not show the ball.
* The crop is cached as `kCropped` only after later steps have succeeded
  (`libcamera_interface.cpp:642`): a failure in between leaves a cache that is wrong for good.
* The crop that is remembered tells windows apart, not balls: for another ball of the same
  window the region of the earlier one is kept (`libcamera_interface.cpp:491`).
* The mono tuning file that is set at start-up is replaced by the colour one when the
  camera is configured for cropping (`libcamera_interface.cpp:1057`, `:1332`).
* The pictures of camera 2 that are averaged may all be the same: a picture that does not
  come is replaced by the last one (`gs_camera.cpp:5488`, `:5807`).
* An average over no samples is divided by their number (`lm_main.cpp:1429`).
* A request that completes between its queueing and the setting of `isCapturing_`
  (`GSCameraBase.cpp:244`, `:250`) is not queued again: its buffer is lost to the capture.
* `initializeCamera` connects its callback again when it is called again (`GSCameraBase.cpp:731`),
  and every frame is then stored twice.
* Frames outlive a stop and a switch of the camera: the next capture may begin with an old
  one (`GSCameraBase.cpp:177`).
* The reset of an idle page (`MonitorServlet.java:783`) throws away the object that a
  message may be unpacked into at that moment; two first requests may start two consumers.
* A club that is clicked stands on the page until the next report (`MonitorServlet.java:150`),
  whatever club the monitor uses; and a report that cannot be unpacked to its end leaves a page
  with the measurements of one shot and the club of another (`MonitorServlet.java:565`).
