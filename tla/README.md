# TLA+ models of RiverAnalysis

RiverAnalysis analyses river video. Each camera has one `Analysis` instance, which has a capture thread, several detector threads, an alarm queue and an HTTP client. A supervisor (`AnalysisManager::run`) restarts any camera whose capture loop has died. This directory holds TLA+ models of how these threads interact. It also has the TLC configurations that check the models, and `PROJECT.json`, which lists the runs, the mutants, the line map from each definition to the source, the findings and the hazards.

## The system and how its parts interact

| Part | Source | State | Operations |
|---|---|---|---|
| RiverThread | `RiverThread.cpp/.h` | `_thread`, `_is_run` | `Start`, `Stop` (store `_is_run = false`, then join and delete), `Run` (sets `_is_run = true` first, and false plus `CallStop` last), `WaitFor` |
| AnalysisManager | `AnalysisManager.cpp` | `inst_vec` | `LoadConfig`; `run`: start all, `sleep(10)`, then forever for each instance: if `!_is_run` then `Stop` and `Start`; then `WaitFor(5000)` |
| Analysis (capture thread) | `Analysis.cpp` | `algorithms`, `cap`, `retrytime`, `last_time` | `LoadConfig`/`GetAlgorithm` (a detector whose config fails is left out); `Run`: no algorithms → end; open with one retry; `StartAnalysis`; loop (frame → `DrawInfo`, `usleep`; empty read → retry, break after 12); `StopAnalysis` (each detector in order, then the HTTP client) |
| DrawInfo | `Analysis.cpp:208-453` | local `alarms` | `GetAlarm` of each detector in order; return if none; return if less than 1000 ms since `last_time`; otherwise, for each alarm, `get_head_to_write` (a NULL slot drops it), fill the slot, `head_next` |
| Detectors | `InvadeThread.cpp`, `FishingThread.cpp`, `LitterThread.cpp`, `FloaterThread.cpp`, `WaterColorThread.cpp`, `WaterGaugeThread.cpp` | `alarm`, `alarm_mutex` | `Run` loop: `SetAlarm(true/false)`. Invade, Fishing, Litter and Floater report absence; WaterColor and WaterGauge only set true. `GetAlarm` copies the alarm and clears `is_active`, except in Floater. |
| TensorflowThread | `TensorflowThread.cpp` | — | segments the frame, publishes `segment_img`; uses the base `GetAlarm`, which is never active |
| AlarmMsgQueue | `AlarmMsgQueue.cpp` | `_head`, `_tail`, `_element_size`, `_data` | `get_head_to_write`/`head_next` (writer: DrawInfo); `get_tail_to_read`/`tail_next` (reader: HttpClient). The waits are `wait_for(1000 ms)` with no predicate. |
| HttpClient | `http_client.cpp` | `s_exit_flag` | `Run`: read a slot (NULL means sleep 100 ms), serialize, `tail_next`, then `SendReq`: connect, arm a 0.5 s timer, poll until `OnHttpEvent` sets `s_exit_flag` |
| Frame hub | `Analysis.h`, `Analysis.cpp:189-194` | `origin_img`, `segment_img`, `foreground_img`, one mutex each | `Set…Img`/`Get…Img` copy under the image's mutex; the capture thread also passes `segment_img` to `DrawInfo` without its mutex |

The threads interact in three ways:

- **Thread lifecycle.** The supervisor starts, stops and restarts the capture threads. Each capture thread starts, stops and joins its detectors and its HTTP client.
- **The alarm path.** Detector → `alarm` (under `alarm_mutex`) → DrawInfo → AlarmMsgQueue → HttpClient.
- **The frame hub.** The capture thread publishes the origin image, Tensorflow publishes the segment image, and the detectors read both.

## Modules

| Module | Models | How state and actions correspond to the code |
|---|---|---|
| `AlarmQueue` | abstract bounded FIFO | `queue` and `taken` (history); `Put(a)` when not full, `Take`. This is what the alarm queue promises. |
| `AlarmMsgQueue` | the ring buffer, with one writer thread and one reader thread | Variables `head`, `tail`, `element_size` and `data` are the fields. `wpc`/`rpc` are the two threads' positions. Each mutex-holding call is one action (`WriteAcquire`, `HeadNext`, `ReadAcquire`, `TailNext`). Filling and serializing a slot happen outside the mutex, so they are actions of their own (`Fill`, `Serialize`). A `wait_for` is a `wait…` state. `notify_one` moves the waiter to `notified…`. From either state the wait may end in a timeout (`WriteTimeout`, `ReadTimeout`). With `Spurious = TRUE` it may wake without a notify. `Abstract` maps the ring onto `AlarmQueue` (`QueueContents`). |
| `RiverThread` | the start/stop contract, as operators over a set of threads | `thread[t]` ∈ null/spawned/running/exited, `isRun[t]`, `aborted` (std::terminate). `StartAll`, `StopSignal` and `Join` (the two halves of `Stop`), `RunBegin`, `RunEnd`. |
| `CameraPipeline` | the supervisor, the capture threads, and their detector and dispatcher threads | Composes `RiverThread` over all threads. `apc[p]` is where `Analysis::Run` of camera p is; `spc`/`sidx` are where `AnalysisManager::run` is. One action per step: `PipelineBegin`, `OpenSource`, `StartAnalysis`, `CaptureFrame`, `CaptureFail` (its `break` is the only way out of the loop: nothing clears an Analysis's `_is_run` while it runs), `StopWorker`/`JoinWorker` (one `Stop()` of `StopAnalysis`), `PipelineEnd`, `WorkerBegin`/`WorkerEnd`, and the supervisor's `SupervisorStartAll`, `SupervisorSleep`, `Check`, `Restart`, `WaitFor`. `Init` chooses which configured detectors loaded (`GetAlgorithm`). |
| `AlarmAggregator` | the detectors' alarm state, DrawInfo, and the dispatcher over the abstract queue | `active[d]`/`act[d]` are each detector's `alarm.is_active` and a count of its activations. An alarm is named `<<d, n>>`. `cpc`/`ai`/`batch` are DrawInfo's position and its `alarms` vector. `elapsed` is the milliseconds since `last_time`, saturated at 1000. `Q` is an `AlarmQueue` instance. A LitterThread or FloaterThread detector runs its own frame cycle (`LitterPass`, `FloaterPass`): `lst[d]`/`fst[d]` hold its counter and reference lists, and the pass outcome comes from the pure operators of `Litter` and `Floater` (instances `L`, `F`). Other detectors set their alarm freely (`SetAlarmActive`, `SetAlarmInactive`). |
| `RateLimit` | DrawInfo's `diff_time` test against the wall clock | `now` and `last` are `gettimeofday` and `last_time` as `[sec, usec]`. `real` is the time that really passed, and `gap` is the real time between the latest two forwards. `Elapse` is a loop iteration, `SetClock` a `settimeofday` by someone else, and `DrawInfo` drops the batch or forwards it. `DiffTimeBelow` keeps the C truncating division and the `uint32` conversion: a negative difference becomes at least 2^31. |
| `Litter` | `LitterThread`: `Run`, `get_result`, `getObjectRect`, `isOverlap`, `GetAlarm` | `count` is `DetectFrameNumber`, which the constructor in use leaves uninitialized, so `Init` takes every value in `FrameNumbers`. `refSize` is the reference frame's floater count. A target is a box and its centre. `Distance` is the integer square root (`ISqrt`, RECURSIVE) that a double `sqrt` stored into a `size_t` gives. `CarStep` is one person-car pair, folded over `Pairs` with one shared `minDistance`. `CarsSeen` adds the CAR_COLOR outlines that `getObjectRect` draws around large people and floaters. Contours come in any order (`SetToSeqs`). |
| `Floater` | `FloaterThread`: `Run` and `getfloater`'s five-pass cycle | `count`, `df`, `df1` are `DetectFrameNumber_Floater`, `DetectFrame_Floater` and `DetectFrame_Floater_1`. A floater is a model value. A scene gives the point count of each water contour in `findContours` order, the floaters with a box corner inside each contour, and the foreground-blob count. `RiverPick` is `RiverRect`'s loop, which takes the last contour of more than 100 points. `InRiver` and `ModInRiver` are the corner tests against that `counter_max`. `river` records the size of the picked contour and of the largest one. `PassOutcome` is one `getfloater` with its reference, wait, confirm and analysis branches, and `PickedEmpty` is the 综合分析 choice between `result` and `result_mod`. `fresh` records whether this cycle's confirmation refilled `df1`. |
| `WaterGauge` | `WaterGaugeThread`: `Run`, `CWaterLevelMeasure`, `WaterDraftMeasure`'s control flow, `scannerLine`, the row trim, `getScaler`, `GetAlarm` | A scene gives the facts the code branches on: whether the gauge and its saturation edges have contours, whether the cut has nonzero saturation, each column's jump count, the rows with more than 10 bright pixels, and the scale marks' boxes. `ScannerLine`, `TrimRows` and `GetScaler` are the code's arithmetic. `Measure` gives the outcomes: InputFileError, a crash (division by `number = 0`, or the `box2[0]` read of an empty vector), or the cut region and the count. `alarm.count` is the scale count behind `water_gauge_num`. `last` is the region cut. |
| `RcFile` | the vendored Bazel `RcFile::Parse`/`ParseFile` (`src/bazel-0.15.1/src/main/cpp/rc_file.cc`) | `contents` is the rc files on disk, chosen in `Init`. A line is given by its words: `Blank`, `Import(f)`, `BadImport` or `Option(c, ws)`. The recursion is the stack `frames` of `[file, pc]`. `ReadFile`, `ParseLine` and `EndFile` are the read, one iteration of the line loop, and the return with the caller's `pop_back`. `import_stack`, `paths` and `options` are the code's. An error ends every frame at once (`Fail`). `Expand` is the reference: the root's options with every import inlined. |
| `FrameHub` | the three shared images, the capture thread, TensorflowThread, and each detector's snapshot loop | An image is the number of the frame it comes from (0 is an empty `cv::Mat`). `cpc` is the capture thread (`CaptureOrigin`, `CaptureForeground` when `open_modeling`, `CaptureDraw` for `DrawInfo(img, segment_img)`). `tpc`/`tin` are TensorflowThread: `TensorflowSnap`, `InferOk`/`InferFail`, and `SegmentCopied`. The copy into `segment_img` under `segment_mutex` is a state of its own (`tpc = "copy"`), because the capture thread reads those pixels without the mutex. `dpc[d]`, `dorig`/`dseg`/`dfg` are a detector's snapshots. `SnapSegment` is blocked while the copy holds the mutex. `Check` analyses only when every image the detector needs is non-empty (Fishing and Floater also need the foreground). |
| `HttpSend` | `HttpClient::Run` and the HTTP exchange of `SendReq` | `dpc` is the dispatcher (`LoopTest`, `ReadNull`, `ReadSlot` = serialize + `tail_next` + connect + arm timer + `s_exit_flag = 0`, `PollDone` = `mg_mgr_free`), `isRun` is `_is_run` (`Stop`). `conn`, `timer` and `flag` are the connection, its timer and `s_exit_flag`. Each case of `OnHttpEvent` is an action (`ConnectOk`, `ConnectFail`, `TimerFires`, `Reply`, `PeerClose`, `Closed`). The mongoose library is not in the repository: its only part in the model is the events it delivers, one per `mg_mgr_poll`, chosen by the peer's behaviour (`refuse`, `reply`, `close`, `silent`). |
| `WaterColor` | `WaterColorThread`: `getWaterColor`, `rgbToHsv`, `getColor`, `Run`'s alarm decision, `SetAlarm`/`GetAlarm` | The water mask is a bag of `<<B, G, R>>` pixels. `ChannelSum`/`TemSize` and the integer mean are as in the code. `RgbToHsv` keeps the ternary MAX/MIN, the three non-exclusive `if (X == MAX)` tests and both wrap loops (`WrapDown`, `WrapUp`, RECURSIVE). The doubles are exact rationals (see below). `GetColor` is the nested test tree. `alarm` and `water` (the mask of the latest pass) are the state. `HsvRef` is the textbook hexcone HSV used as the reference. |
| `Invade` | `InvadeThread`: `get_result`, `crossAlgorithm2`, `Run`'s alarm decision, `SetAlarm`/`GetAlarm` | A person is the bounding box of its contour. `GetResult` loops regions outside and people inside, as the code does (`FlattenSeq` of `SelectSeq` per region), so a person crossing two regions is pushed twice. `CrossAlgorithm2` is the code's test. `Overlap` (half-open, sharing a pixel) and `Meet` (closed, touching) are the references. `alarm` and `found` (the people of the latest pass) are the state. |
| `Detectors` | WaterColorThread and InvadeThread of one camera side by side | Instances of `WaterColor` and `Invade` with their own variables; steps of the two threads interleave. |
| `Fishing` | `FishingThread::FishingEstimate` and its `Run` loop | The targets from `TargetDectRect` (box and centre) are the input. `RiverLocation` is the largest water region (first among equals). `RealRect` scales a person to the origin image. `RightOfRiver` and `LeftOfRiver` compute the rod region and the foreground region with every `continue` of the code. `ForegroundSize` is the 640 x 360 that `GaussBgModeling::GetForegroundImg` resizes to. `InImage` is OpenCV's ROI assertion, and a failed one ends the process (`status = "aborted"`). A person also carries the white pixels `GetBinWhitePoint` collects in each of its two regions. `LeastSquares` and `LineAngle` are `LineFitting`, with its `size_t` numerator and its NaN for all-equal x. An angle is kept as the slope `n / d` it comes from. `AnglesAgree` is the 4-degree test done through the tangent of the difference. |

Each `MC_*.tla` module fixes the constants for TLC. Every property in a module is preceded by a comment that states it.

## Runs

| Run | Checks | Result |
|---|---|---|
| `queue` (`MC_AlarmMsgQueue.cfg`) | `TypeOK`, `NoSlotRace`, `AlarmQueueRefined` (refinement of `AlarmQueue`, capacity size−1), `CommittedAlarmTaken` (liveness) | pass: the ring buffer implements a bounded FIFO while waits do not wake spuriously, the writer and reader never touch the same slot, and every committed alarm is taken |
| `queue_spurious` | `AlarmQueueRefined` with `Spurious = TRUE` | violation: a spurious wake of the reader retires an empty slot (`element_size = -1`) |
| `pipeline` (`MC_CameraPipeline.cfg`) | `TypeOK`, `NoAbort`, `NoOrphanWorkers` | pass: `Start` never meets a live thread object, and `StopAnalysis` joins every worker on every exit |
| `pipeline_restart` | `FailedPipelineRestarted` | violation: lost stop. A detector that had not yet run sets `_is_run = true` after `Stop()`; the join hangs and the camera is never restarted. |
| `pipeline_opensource` | `StartsOnlyWithOpenSource` (action property) | violation: the single-`if` open retry starts the pipeline on a closed source |
| `pipeline_retrylimit` | `DrainsAfterRetryLimitFailures` | violation: the loop survives 11 empty reads and breaks on the 12th |
| `aggregator` (`MC_AlarmAggregator.cfg`) | `TypeOK` | pass: an Invade detector, a LitterThread pass by pass and a FloaterThread whose alarm latches share DrawInfo. The queue stays within its size-1 slots through collection, rate limit and slot-timeout drops, and the composition never deadlocks. That an edge-triggered alarm is delivered at most once is not checked as a property: it holds as soon as `GetAlarm` clears `is_active`, so it would only restate that line. |
| `aggregator_floater` | `NoDuplicateDelivery`, with the first detector a FloaterThread | violation: its non-clearing `GetAlarm` re-delivers one detection with every forwarded batch |
| `framehub` (`MC_FrameHub.cfg`) | `EveryDetectorAnalyses` (liveness) | pass: with `open_modeling` on, every detector, including a Fishing one that needs the foreground, eventually holds a full set of images and analyses a frame, although `SetSegmentImg` keeps taking `segment_mutex` |
| `framehub_segrace` | `NoUnlockedSegmentAccess` | violation: `DrawInfo(img, segment_img)` uses the pixels of `segment_img` while `SetSegmentImg` is copying into them under `segment_mutex` |
| `http` (`MC_HttpSend.cfg`) | `SendReqReturns`, `StopObserved` (liveness) | pass: against a peer that refuses, replies or closes, and with the 0.5 s timer racing the connect, every `SendReq` returns, and a `Stop()` of the dispatcher is observed |
| `detectors` (`MC_Detectors.cfg`) | `HsvAgreesWithReference`, `AlarmRectsAreIntruders` | pass: `rgbToHsv` of the mean water colour equals the hexcone HSV at every threshold, hue boundary and channel tie. The Invade alarm carries every person who overlaps a region and nobody who is clear of all regions. |

More configurations are kept for the hazards they show. They are not among the runs, because the project's run list is full. Each one is cited in the hazard it documents.

- **`MC_HttpSend_silent.cfg`.** It adds a peer that accepts and never answers. `SendReqReturns` is violated: `MG_EV_CONNECT` disarms the only timer, so `SendReq` polls forever.
- **`MC_Detectors_empty.cfg`.** It checks `AlarmHasColour`, which is violated. `get_result_color` returns 1 whenever both images exist, so `state == 1 || !result.empty()` raises the WaterColor alarm with an empty colour when at most 100 pixels are water.
- **`MC_Fishing.cfg`.** It checks `FishingNeverThrows`, which is violated (spec §4: a stage never throws out of `Run()`). For a person to the right of the water, the foreground region is cut at half the origin coordinates from an image that is always 640 x 360, and only its bottom edge is tested. On a 1080p camera an ordinary person right of the water makes `foreImg(rectForeGround)` fail OpenCV's ROI assertion. On a 720p camera a person 300 segment pixels wide does. The `cv::Exception` is not caught, so the process terminates.
- **`MC_Litter.cfg`.** It checks `LitterAlarmHasNearbyFloater`, which is violated. `minDistance` is shared by the person-car loop and the person-floater loop. A car 195 px from a person, with a floater 350 px away, raises a litter alarm.
- **`MC_Litter_outline.cfg`.** It checks `LitterIgnoresOutlines`, which is violated. The boxes `getObjectRect` draws are CAR_COLOR, so a 41 x 21 floater 95 px from a person is found as a car and sets `is_car` in an image with no car.
- **`MC_Litter_uninit.cfg`.** It checks the action property `LitterAnalysisFollowsReference`, which is violated. The uninitialized `DetectFrameNumber` may be 1, so the first pass is an analysis against an empty reference frame.
- **`MC_Floater.cfg`.** It checks `FloaterAlarmConfirmed`, which is violated after ten passes. A cycle whose reference frame saw no floater keeps the previous cycle's `DetectFrame_Floater_1`, and the analysis confirms against it. `FloaterAnalysesRecur` (under `WF(Pass)`) holds for every start value of the counter.
- **`MC_Floater_river.cfg`.** It checks `FloatersJudgedInLargestWater`, which is violated in one pass. `RiverRect` declares `size_t maxarea = 100` inside its loop, so a river of 300 contour points found before a pool of 120 is passed over for the pool. Contours of 51 to 100 points are never taken.
- **`MC_Fishing_lines.cfg`.** It checks `FishingMeansLinesAgree`, which is violated. `LineFitting`'s numerator is `size_t`, so a line rising to the right reads as exactly -90 degrees. A steep line falling to the right (-88.2 degrees) then "agrees" with it, and an alarm is raised for two lines that are about 133 degrees apart.
- **`MC_RcFile.cfg`.** It checks `ImportStackIsChain` and `OptionsExpandImports`, and, under weak fairness of the parser's single thread, `ParseReturns`. All three hold. The trees have up to three files with up to two lines each, including imports of the root, a file imported twice, unreadable files and malformed imports. The import stack never holds a file twice and always matches the recursion. A successful parse yields the options with imports inlined in order. Import loops end in `IMPORT_LOOP`. Removing the loop check or the `pop_back` breaks `ImportStackIsChain`.
- **`MC_WaterGauge.cfg`.** It checks `WaterGaugeReadsScale`, which is violated. `getScaler` returns -1 for a gauge with no mark, or a count corrected down to 0, and `getWaterLevelScaler` still returns Normal. The reading then lies at or above the top of the gauge.
- **`MC_WaterGauge_crash.cfg`.** It checks `WaterGaugeKeepsRunning`, which is violated. A cut with no nonzero saturation divides by `number = 0`.
- **`MC_WaterGauge_cut.cfg`.** It checks `CutInsideImage`, which holds: the region `scannerLine` and the row trim cut stays inside the image for every jump profile and trim, including the `-2`/`-3` returns that leave the full width.
- **`MC_RateLimit.cfg`.** It checks `ForwardsSpaced`, which is violated. A wall clock set one second back makes the `uint32` `diff_time` huge, and a batch is forwarded less than a second after the last one. Stepping the clock forward does the same.

The findings these violations show are in `PROJECT.json` under "findings". Every property of a passing run has a mutant: a plausible bug of the mapped code that TLC must catch (see "mutants").

## Bounds and why they are enough

- **`queue`.** Size 4 gives three usable slots, so both the full and the empty waits and the wrap of `_head`/`_tail` happen. It uses 6 alarms, which is two full laps.
- **`pipeline`.** One camera with two configured detectors. `Init` tries every subset of the detectors that may have loaded, the empty one included, which gives zero, one and two detectors plus the dispatcher.
- **The retry bound.** `RetryLimit = 10` is the code's literal, so the off-by-one is checked at the real value.
- **One camera.** Cameras share nothing but the supervisor, which handles them one after the other. One camera exercises every action, and the supervisor index still wraps.
- **`framehub`.** Two detectors: an Invade, which needs origin and segment, and a Fishing, which also needs the foreground. Frame numbers up to 2 are enough to tell an image from an empty one and a stale one from a fresh one.
- **`http`.** Three sends, with the peer's behaviour chosen afresh for each, so every event order occurs: refuse, timer before connect, connect then reply, connect then close.
- **`detectors`, WaterColor.** The masks are uniform masks of 100 and 101 pixels over the channel values {0, 30, 80, 180, 200, 255}, which sit on and around getColor's V thresholds. Pixels whose hue is exactly 25, 85, 165, 205, 275 or 330, and one with S = 0.4, are added. So are two-colour masks whose integer mean truncates. Every tie between channels occurs. The rational arithmetic is exact by design, and it was checked separately against IEEE doubles for all 2^24 colours: the double and the exact value fall on the same side of every getColor threshold. The one inexact hue, 85, computes as 84.99999999999999 and stays on the same side of `H <= 85`.
- **`detectors`, Invade.** There are two 2 x 2 regions that overlap, so a person may cross both. The person boxes are inside both, of size 0, containing both, starting on the far edge of either, touching at a corner or a side only, and clear. Pairs in both orders are included. Every kind of edge `crossAlgorithm2` treats differently occurs. The composed state space is the product of the two detectors', which is why the inputs are curated rather than exhaustive.
- **`MC_Fishing.cfg`.** It uses 720p and 1080p frames, one water region, and people left and right of it: narrow, wide, near it, and on the image border. The int × double products of the code are truncated exact rationals. For every coordinate 0..513 and the frame sizes 640 x 360, 704 x 576, 1280 x 720, 1920 x 1080 and 2560 x 1440, these equal the double results. Each person's two regions show a pair of lines: a steep falling one with a falling or a rising one, a rising with a falling one, and a vertical with a steep one. That covers the wrapped numerator, NaN, and an agreement within 4 degrees (`MC_Fishing_lines.cfg`).
- **`aggregator`.** The detectors are an Invade, which sets its alarm and reports absence freely, a LitterThread, and a FloaterThread. The Litter scenes are an empty image and one with a person and a floater 150 px apart. Its counter starts at 3 or 1, so the first pass is a reference or an analysis. The Floater always sees one floater, so its cycle raises and latches an alarm. The queue has capacity 1, so the full-queue drop happens. Each detector activates at most twice. Frame gaps of 500 and 1000 ms make DrawInfo both discard batches and forward them. The latched floater alarm is delivered on every forwarded frame, so the sink's history is bounded by the state constraint `SentBound` (two deliveries). That still lets an edge-triggered alarm follow or precede a floater alarm in the queue.
- **Litter, Floater, WaterGauge, RateLimit.** The scenes are curated around each threshold: distances 150, 195 and 350 against 50/100/300, an outline of 2(41 + 21) - 4 = 120 points against 100, and a 12-column image with a gauge found, touching the border, or 3 columns wide. Floater counters start from 5, 0 to 3, 7 and -3. The water contours are none, a river, a 51 to 100-point patch, and a river before a smaller pool of more than 100 points. The clock is stepped by one second against loop gaps of half a second and one.

## Fairness

All threads are OS threads, so each action of a thread is weakly fair.

- **Timed waits.** A timed wait (`wait_for`, `WaitFor`, `usleep`) always ends. That justifies weak fairness of the timeout actions.
- **The capture loop.** The loop is fair as a whole (`Capture(p)`). Whether a read gives a frame is up to the source, not the scheduler.
- **Timing margins.** The supervisor's `sleep(10)` and `WaitFor(5000)` are assumed long enough for a thread it has just started to run its first statement. `SupervisorSleep` and `WaitFor` wait for that.
- **No margin in StopAnalysis.** There is no such margin between `StartAnalysis` and `StopAnalysis`. That is where the lost stop bites.
- **FrameHub.** A failed inference is retried on the next tick, and the session is assumed not to fail forever, so `InferOk` is strongly fair. A detector blocked on `segment_mutex` is strongly fair to get it, because TensorflowThread releases it and then sleeps a whole detect interval. With weak fairness alone, TensorflowThread could take the mutex every time the detector tries.
- **HttpSend.** The dispatcher is an OS thread and `mg_mgr_poll` returns every 50 ms, so `Dispatcher` is weakly fair. The network eventually delivers a pending event and an armed timer fires (`Network` is weakly fair). `Stop` is up to the camera and need not happen. No fairness makes a silent peer answer.
- **WaterColor, Invade, Fishing, Litter, WaterGauge, RateLimit.** Their properties are invariants or action properties, so no fairness is assumed.
- **Floater.** `Run` is its own thread and passes again after every `usleep`, so `Pass` is weakly fair for `FloaterAnalysesRecur`. In `AlarmAggregator` the detector passes have no fairness, because no property there needs it.

## Not modelled, and why

- **Clock edges in the composition.** `AlarmAggregator` uses the monotonic elapsed time, saturated at 1000 ms. Wall-clock steps are modelled separately in `RateLimit`, because adding them to the composed state space would multiply it.
- **Pixel processing.** Some image processing is numeric and is not modelled:
  - contours, minAreaRect and pointPolygonTest;
  - the HSV conversions, Canny, the rotation and the morphology of WaterGaugeThread;
  - the Gaussian background model;
  - the pixel filters of FishingThread (`PreProcessSrc`, `DeleteHVLine`, `DeleteSmallArea`) that yield the white pixels its line fit uses;
  - the speeds and areas that only fill alarm payload fields;
  - the text drawing of `cv320PutChText`.

  What they yield enters the models as the facts of a scene: the boxes and centres of the targets, the floaters inside the water, a column's jump count, a row's bright-pixel test, or the white pixels of a fishing-rod region. The arithmetic the code does on those facts is modelled. That includes distances, overlaps, scale counts, region cuts, colour naming and frame cycles.
- **Memory.** The `lineJumpPoint` leak of `scannerLine` is listed as a hazard. Allocation is not modelled.
- **Dead code.** `WaterGaugeThread::preDealWithImage` and `draftLocation` are never called: the calls are commented out or in the `#else` of an `#if 1`. The same holds for `findUpDownBounding`, `findRotateAngle` and `thinImage`, which only `draftLocation` calls. `drawHistogram` and `Mat_HSV_S` draw or filter pixels and set no state the passes branch on, so they are left out as image work.
- **mongoose and cJSON.** These libraries are not in the repository. mongoose is modelled only by the events it delivers to `OnHttpEvent`. The JSON and base64 formatting have no effect on control.
- **AnalysisManager initialisation.** `Initialize`/`Uninitialize` run glog and TensorFlow set-up under `std::call_once`; they are I/O. As written, `AnalysisManager.cpp` defines `Initialize` and `Uninitialize` and calls `TensorflowThread::Initialize`, but the headers declare `Initalize`/`Uninitalize`, so this file does not compile as it stands. The models take the program the names evidently mean.
- **Bazel sources.** The vendored Bazel sources are not part of the program. `rc_file.cc` is modelled (`RcFile`), because its recursive import parsing is a real algorithm. `bash_launcher.cc` only quotes arguments and starts a process.
