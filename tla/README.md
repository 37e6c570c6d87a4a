# A TLA+ verification of the SBG Systems ROS 2 driver

The driver (`sbg_ros2_driver`) connects an SBG Systems inertial navigation
system (INS) to ROS 2: it configures the device through the sbgECom library,
turns the device's logs into ROS messages, and offers services to calibrate the
magnetometers. This directory holds TLA+ models of its stateful parts, the TLC
configurations that model-check them, and TLAPS proofs about them.

`PROJECT.json` is the index: for each definition that models code, the lines it
stands for; for each run, its properties; for each property, a mutant of the
model that breaks it; the hazards of the code and what covers them.

## 1. The system

Two executables share one class, `SbgDevice`:

* `sbg_device` (`main.cpp`) constructs the device, calls
  `initDeviceForReceivingData`, then loops: `periodicHandle` (which drains the
  link with `sbgEComHandle`), `spin_some`, sleep. An exception ends the process
  with a logged message and exit code 0.
* `sbg_device_mag` (`main_mag.cpp`) constructs the device, calls
  `initDeviceForMagCalibration` and spins. It never polls the link between two
  service calls.

Both are single threaded: callbacks, timers and the polling of the link take
turns. What is concurrent is the device, the link (serial, UDP or a file), and
the operator who starts and stops the nodes.

| Component | State | Operations | Interacts with |
|---|---|---|---|
| sbgECom command layer (`sbgEComCmd*.c`) | trials left, bytes in flight | get / set / save command functions: send, wait for the data or the ACK, retry | device over the link; called by ConfigApplier and SbgDevice |
| `ConfigApplier` | `reboot_needed_`, the position in the configuration | `applyConfiguration`, one function per section, `configureOutput`, `saveConfiguration` | command layer; reads the ConfigStore |
| Magnetometer services of `SbgDevice` | `mag_calibration_ongoing_`, `mag_calibration_done_`, `mag_calib_results_` | `processMagCalibration`, `saveMagCalibration` and the three functions under them | command layer; ROS services |
| `MessagePublisher` | the publishers, the last message of each fused log | `initPublishers`, `publish` and its `process...` functions | called for each log by `SbgDevice::onLogReceived`; calls MessageWrapper |
| `MessageWrapper` | `first_valid_utc_`, `last_sbg_utc_`, `use_enu_`, the UTM zone and origin and their latch, the static transform sent | `create...Message`, `createRosHeader`, `convertUtcTimeToUnix`, `createNmeaGGAMessageForNtrip` | called by MessagePublisher; calls Utm, SbgMatrix3, SbgVector3 and the helpers |
| `SbgDevice` connection | the interface, the baud rate | `connect`, `findCurrentDeviceBaudrate`, `setDeviceBaudrate` | command layer; followed by ConfigApplier |
| Main loop, RTCM | the log callback, set after the configuration | `periodicHandle`, `writeRtcmMessageToDevice` | all of the above |
| Replay of log files | the previous time stamp | `onLogReceived` (file), `getTimestamp` | MessagePublisher |
| sbgECom protocol | reception buffer and what to discard of it, large transfer in progress | `sbgEComProtocolReceive2`: read, find and parse a frame; page assembly | interface; called by the command layer and by `sbgEComHandle` |
| `ConfigStore` | parameters, loaded once | getters | ROS parameters |

### What is hard

* **Retries over a link that loses, delays and, over UDP, reorders.** A command
  is sent up to `numTrials` times, answers are matched by message id only, and a
  retry may carry out again what was done already.
* **Partial failure.** An exception may leave `applyConfiguration` anywhere; the
  device may lose power, the driver may be killed, a save may fail.
* **Stale state.** Standard ROS messages are put together from the last log of
  each kind; dates are computed from the last UTC log; the calibration results
  are used long after they were received.
* **Numeric edges.** The device's 32-bit microsecond counter rolls over every
  71 minutes; the UTM grid has exceptions, and its coordinates jump at the
  equator and the 180th meridian; dates have leap days, centuries and leap
  seconds; angles wrap.
* **Two frame conventions**, converted in several places by several formulas.
* **A stream without boundaries.** Bytes are cut up, lost or damaged anywhere;
  payloads may look like frames; the buffer is one byte larger than a frame.

### What makes each component correct

* Command layer: success means that the device has carried out *this* command; a
  value returned was read *for this* command; a refusal is the device's; the
  function returns.
* ConfigApplier: a run that returns has applied every setting the device has; a
  run that throws or is killed makes nothing half-applied permanent; after a loss
  of power in the middle of a run, both hold of the settings the run reaches later;
  a device that is configured already is not rebooted at each start.
* Connection: a node that has heard the device talks to it once it runs, through
  the change of rate too; a driver that configures the device never runs on an
  interface that does not reach it; wherever a change of rate was cut short, a
  later start finds the device again.
* Magnetometer services: only valid results go in use; what is saved is what was
  sent; what is sent is the newest.
* MessagePublisher: an odometry message is of one instant, in full navigation
  mode, published again for an instant by no log it is made from; its transforms
  form a forest.
* MessageWrapper: a message carries the date its log was stamped at, through
  rollovers and restarts; all messages give one attitude, in the frames the
  parameter asks for; the odometry's position is the displacement from the start;
  calendar dates and times of week are turned into one another correctly.
* Frame reader and main loop: a damaged frame costs no other frame, the buffer
  never stalls, each log found once the callback is set is published once, in
  order; a file is replayed at the pace of its recording.

## 2. The modules

```
DeviceCommands                the commands, what they return, what they do to the device
  |-- CommandService          abstract: what the command layer promises
  |     |-- ConfigApplier     the applier over any such service
  |     `-- (refined by) CommandChannel
  `-- CommandChannel          the command layer over the link, frame by frame
        `-- ConfigSession     the applier over that, on either kind of link; refines ConfigApplier
DeviceConnection              discovery and change of the baud rate
MagCalibration                the two services and the device's acquisition
LogStream                     frame reader, main loop, replay of files
MessagePublisher              dispatch of the logs, standard messages, transforms
MCMessageWrapper              the parts of MessageWrapper, one at a time:
  |-- TimeReference           the dates of the messages
  |-- FrameConventions        attitude, velocity, rate, heading and course in NED and ENU
  |-- UtmOrigin               zone, origin and position of the odometry
  `-- UtcDates                calendar dates, leap seconds, the time of the GGA sentence
EcefPosition                  the position in the Earth's own frame
```

`...Proofs` modules hold theorems; `MC...` modules instantiate a module for TLC.

**DeviceCommands.** The device is external. It is modelled by what the driver
relies on: it has some of the settings (`Refused` are those it does not have,
answered with `INVALID_PARAMETER`), it keeps a working copy (`ram`) and a saved
one (`flash`), a save copies the first to the second and reboots. It may hold
settings it has not saved when the driver comes up. `done` and
`heard` are history variables: whether the device has carried out the command
being run, and the values it gave for it.

**CommandService** is the abstract specification: `Issue`, any number of
`Execute`, `Return`. Success is returned only for a command carried out, with a
value the device gave for it; `INVALID_PARAMETER` only for a setting the device
does not have; any other error promises nothing either way, which is why it may
be returned for a command that *was* carried out.

**CommandChannel.** `Begin` is the call of a command function; `SendRequest`
is `sbgEComProtocolSend`, and `SendFails` the interface's refusal, after
which no trial is made; `ReceiveAnswer` is one turn of
the loop in `sbgEComReceiveCmd2`; `TimeOut` its end. `CodeOf` tells what
`sbgEComReceiveCmd2` and `sbgEComWaitForAck` make of a frame: a getter looks
only at frames with its own message id (or an ACK naming it), a setter ends its
trial at *any* ACK, with `INVALID_FRAME` when it names another message. A
damaged frame is one that is dropped. Logs that come between the answers change
nothing here. `late` says which of two links this is, and never changes: one on
which an answer comes within the time out of its trial (500 ms by default) or not
at all, and one on which it may come at any later time, also to a later command.
`Links` are those a run looks at.

**ConfigApplier.** `Order` is the sequence of settings
`applyConfiguration` goes through. `phase` is the point reached for the
current one: about to read (`get`), reading (`got`), about to write (`set`),
writing (`applied`), and likewise `save` / `saved`. `GetReturned` and
`SetReturned` are the two `checkConfiguration...` functions together with their
callers, and `configureOutput`. Two of their details matter: a *section* the
device refuses is reported and then compared all the same, with a local variable
nobody assigned (`\E garbage \in Values`), so that it may be written; a refused
*output* is skipped when read, but throws when written. The operator's `Restart`
of the driver may happen anywhere; it opens its interface afresh, so a request
sent before either was carried out before the restart or never is.
`DeviceReset` is a loss of power. `lostAt` and `wasClean` are history: the position
at which the device last lost power in this run (0 if it did not), and whether the
run began on a device that held, and had saved, the configuration. `MayBeLost` are
the settings the run had reached by then.

**ConfigSession** composes the applier's decisions with the channel: `Call` is
`Begin` and the applier's `Calls` in one step; `Continue` is a decision while the
channel is idle.

**DeviceConnection.** One model of both nodes (`conf` says which, over a serial
port, UDP or a file, and whether `confWithRos` is set). `pc` is the point
reached: `open` to `find` are `connect` and `findCurrentDeviceBaudrate`
(`info` is the request for the device information, with its three outcomes:
answer, time out, other error), `getUart` to `reopen` are `setDeviceBaudrate`,
`configure` is `initDeviceForReceivingData` after `connect`, `running` the main
loop, `stopped` the end of the process by an exception. `Reaches` says that the
host's port and the device use one rate. The device is external: a rate written
takes effect when it restarts, which a save makes it do. `CommandFails` is any
error of a command, carried out or not. The configuration is one step here,
which may end with the applier's save; ConfigApplier is its detail.

**MagCalibration.** Each of the commands a service sends has three outcomes: not
carried out; carried out and reported; carried out and not reported. `StartCalibration` and
`EndCalibration` are the two halves of the toggle `processMagCalibration`.
`RefuseSave`, `Upload` and `Save` are `saveMagCalibration`, in the code's order
of tests; it is two steps because the device may lose power between its two
commands. `mag_calib_results_` is not initialised by the constructor
(`sbg_device.h:82`): `NewNode` gives it an origin (`Garbage`) that is no
acquisition, and either quality. Quality stands for the device's verdict: the
code refuses `SBG_ECOM_MAG_CALIB_QUAL_INVALID` only, and takes "poor" and
"optimal" alike, which are therefore both "good" here.

**MessagePublisher.** A log is its kind and its time stamp (an *instant*).
Stamp 0 is the default message held before the first log of a kind, whose stamp
field is zero in the code as well. `conf` holds the parameters that
decide which publishers exist; it is chosen at the beginning and never changes.
`Publish...` are the cases of `publish`, in which each `process...` function
contributes the set of messages it publishes; that the message is kept before
the standard messages are made from it is in the use of `message'`. The default
stamps pass the comparison `m["EKF_QUAT"] = 0` on purpose: the code publishes an
`imu/data` message when no quaternion was ever received.
Over a serial link logs come in the order of their stamps (`Receive`), and in
any order within an instant; over UDP in any order at all; one log of each kind
per instant.

**LogStream.** From the interface to the published logs. A frame is a few
*symbols*: the two SYNC bytes, the payload's size, the payload, and an end which
stands for CRC and ETX (both are compared, and the CRC is taken to be ideal: a
stretch of the buffer is a frame if it is, symbol for symbol, one that was sent).
`Read`, `FindFrame`, `ParseFrame`, `AfterDiscard` and `Receive2` are the functions
of `sbgEComProtocol.c` of those names; the pairs of SYNC bytes are looked at in
order, the first that does not begin an invalid frame decides. `phase` is where
the driver is: it configures (`ReceiveAnyCmd` takes frames off the link and drops
the logs), handles logs (`HandleOneLog`, repeated until no frame is ready, and
each log that completes goes to `onLogReceived`), or spins and sleeps (`Spin`).
Over serial links and in files the wire is a sequence of symbols, of which one may
be missing or changed; over UDP it is a sequence of datagrams, of which one may
be missing, and what does not fit in the buffer is lost. Frames are of kinds: logs
with a stamp (the replay takes 0 for none), raw logs (stamp 0), logs whose stamp
`getTimestamp` never assigns (`unknown`: any of `Stamps`), answers, and pages of
a large transfer, which end a poll as if nothing had been received. Files start at
`handle`: nothing is
configured. `received` and `ignored` are history. How much has arrived when the
driver reads is free, which is what cuts the stream up.

**TimeReference.** `createRosHeader` and `convertInsTimeToUnix` with a counter
of `Modulus` values. `Tick`, `Synchronise` and `Reboot` are the environment;
`Log` and `UtcLog` the two kinds of log. `UtcLog` makes its header *before* it
stores the new reference, as the code does. Before the device is synchronised it
gives a date that starts with itself.

**FrameConventions.** The device's attitude, velocity and rotation rate, and every
message made of them. `Rotation`, `NavAxes` and `BodyAxes` are the reference: the
rotation as the device defines it and the axes as `README.md:425` and following
of the repository list them. The formulas of the code (`makeDcm` of Euler angles
and of a quaternion, `setRPY`, the quaternion product with `q_enu_to_nwu`,
`wrapAnglePi`, `wrapAngle360`) are there entry by entry, in whole degrees and
integers.

**UtmOrigin.** `Utm::init`, the zone with the exceptions of Norway and Svalbard,
the letter, the central meridian, the latch of the first message and the
difference to it. The series of the projection is abstracted to the angles it
grows with: longitude from the zone's meridian, and latitude, with the southern
hemisphere's offset.

**UtcDates.** `convertUtcTimeToUnix` with its counts of days, `getUtcOffset` and
the time of `createNmeaGGAMessageForNtrip`, against a day number computed in
another way (months from March on, no sums).

**EcefPosition.** `convertLLAtoECEF` at altitude zero, in squared lengths, which
are fractions without a root.

### Abstractions used throughout

Values of settings, message ids and instants are model values or small numbers.
Wording and logging are left out, and so is rounding. Where the contents of a
message matter they are exact: whole angles, integer matrices, fractions. A
comparison of a setting's fields is one comparison of values: each section has
one getter and one setter, however many fields it has.

## 3. The runs

| Run | Checks | Shows |
|---|---|---|
| `command_prompt` | `ChannelTypeOK`, `SuccessMeansExecuted`, `ReadIsOwnValue`, `RefusalIsGenuine`, `QuietWhenIdle`, `CommandReturns`, `ImplementsService` | With losses, refusals, interface errors and power cycles anywhere, verdicts are genuine, nothing is left on the link, every call returns, and the channel refines `CommandService`. |
| `config_applier` | `ApplierTypeOK`, `DoneMeansApplied`, `NoNeedlessSave`, `OnlyWantedWritten`, `SavesAllButLost`, `RunEnds` | The applier over *any* service that keeps the promise, with restarts and power cycles anywhere. What a loss of power in the middle of a run took back is not made up for; `DoneMeansApplied` and `SavesAllButLost` say that nothing else is missing, in the working settings and in the flash. |
| `config_session` | `WriteMeansExecuted`, `PromptImplementsApplier` | The applier over both kinds of link. Over the prompt one it refines the applier over the service, so that the results above carry over. Answers that outlive their trial do not make a write or a save succeed that did not: the applier reads each setting before it writes it, so an ACK that is left over never bears the id of the command now waiting. |
| `session_late_read` | `ReadMeansCurrent` (violated) | The same cannot be said of reads: see *Findings*. |
| `mag_calibration` | `MagTypeOK`, `OnlyGoodInUse`, `UploadsLatest`, `SavesUploaded` | The services over any sequence of calls, failures, restarts of the node and of the device. |
| `mag_upload_garbage` | `NoUploadWithoutResults` (violated) | See *Findings*. |
| `publisher` | `PublisherTypeOK`, `OdometryIsOneInstant`, `OnlySpareLogsRepeat`, `OdometryUnlessQuatLast`, `OriginIsPosition`, `TransformsFormForest` | For every choice of the outputs the odometry is made from, and every order of arrival. With two IMU logs or two attitude logs the spare one publishes the odometry again (section 5); no other log does. |
| `publisher_quat_last` | `OdometryGenerated` (violated) | See *Findings*. |
| `message_wrapper` | `HeaderIsAccurate`, `DatesRecover`, `DirectionsAgree`, `TwistIsBodyVelocity`, `OriginInZone`, `OdometryFollowsGround`, `UtcTimesAgree` | Dates through rollovers, the change of clock and a restart of the device; one attitude in all messages and both conventions, body velocities in the velocity message; the odometry's zone and position over the borders of zones; the calendar. |
| `device_connection` | `ConnectionTypeOK`, `HeardMeansTalks`, `ConfiguredMeansTalks`, `ConnectsInTheEnd` | Both nodes, all interfaces, failures of every command, restarts and power cycles anywhere. |
| `log_stream` | `StreamTypeOK`, `NothingDropped`, `ReplayKeepsPace`, `StreamDrains` | A damaged frame costs no other one, wherever the stream is cut; frames are found once and in order, and published once the callback is set; the reader gets through everything; files are replayed at their pace. |
| `ecef_position` | `OnEllipsoid` (violated) | See *Findings*. |

### Bounds, and why they are enough

* **Commands.** Three settings, two of which share one message id, as the
  outputs do, and one that the device does not have; two values; three trials
  (the library's default is three); two frames in each direction (three for late
  answers, so that the answers to all trials of a command can still be on the
  way when the next one begins). In a prompt link one command is under way at a
  time, and its trials are sequential, so more settings add nothing but names.
* **Applier.** Four settings: a section and an output that the device has, and
  one of each that it does not have; a wanted value and another one. All
  initial contents of the working and of the saved settings.
  `config_session` uses a section and two outputs: two reads that share an id,
  with a write between them, are what late answers can confuse.
* **Connection.** Four rates: the configured one, two fallbacks (so that the
  discovery goes on after a failure and ends after the last), and one that is
  never looked for. The list begins with a number that is no baud rate, which
  the code skips. The device starts at any of the four. Failures, restarts and
  power cycles are not bounded.
* **Calibration.** Three acquisitions: one in use, one received but not sent,
  and one that fails. Calls, failures and restarts are not bounded.
* **Publisher.** Two instants, which is what mixing takes. All 32 choices of
  the five outputs over a serial link; over UDP, three representative ones (one
  IMU log and one attitude log; both of either), since the state space with
  reordering is larger.
* **Time.** A counter of five values and 13 ticks: at least two rollovers, with
  UTC logs at every distance up to `MaxGap` = 3. `MaxGap` and `Lag` together are
  below `Modulus`, as in the code: UTC logs come at least every second or so,
  and the period is 71 minutes.
* **Frames.** Quarter turns of each angle, and components of -1, 0 and 1. Every
  entry of the matrices is affine in the cosine and in the sine of each angle, so
  two of them that agree at all quarter turns agree at all angles; the
  velocities enter linearly. (The wraps of angles are checked at whole quarter
  turns, their borders included.)
* **UTM.** Norway and Svalbard with all their exceptions and the northern end of
  the grid, and the place where the equator meets the 180th meridian, at every
  whole degree; drives of two degrees from the start, which cross every border.
* **Calendar.** Years with and without a leap day, both kinds of centuries, and
  the first and last that 32 bits of seconds hold; every month; the first and the
  last days and seconds, the leap second included; 17 to 19 leap seconds (the
  driver's own guess is 18); a position with and a minute after the UTC log.
* **Stream.** Payloads of at most three symbols, which is what a payload that
  looks like the beginning of a frame takes (one of them announces more than is
  there; another ends in the first SYNC byte); a buffer of eight symbols, one
  more than the largest frame, as the code's has one byte more. Six sources of
  three to six frames; one symbol lost, or changed into a SYNC byte or a
  large size, or one datagram lost; datagrams of one and of two frames.
* **ECEF.** A ratio of the squared radii of 149/150, WGS84's to four decimals.

`CHECK_DEADLOCK FALSE` is set where the system really stops: one run of the
applier has ended and nothing is on the link (`config_session`,
`session_late_read`).

### Fairness

* `command_prompt`: weak fairness of `Library` (the driver's thread runs, and
  its clock advances, so that a wait ends) and of `Handle` (the device reads what
  reaches it). No fairness on losses, and none is needed: `CommandReturns`
  holds on a link that loses everything.
* `config_applier`: weak fairness of `Progress`, that is, of the applier's own
  steps and of the return of a command function, which is what `CommandReturns`
  shows of the layer below. None on `Execute`: a service that answers with
  errors for ever is allowed. `RunEnds` speaks of behaviours in which the
  operator eventually stops restarting the driver.
* `device_connection`: weak fairness of `Progress`, the steps of the node's
  thread, each command of which returns (again `CommandReturns`). None on
  `Restart`: `ConnectsInTheEnd` has as its premises that from some time on
  nothing goes wrong (`Trouble`), and that a node that stopped is started again,
  as a supervisor or an operator does.
* `log_stream`: weak fairness of the driver's thread (the configuration ends,
  which `RunEnds` shows; then it handles logs and spins in turns) and of
  `Arrive`: what was sent comes, unless it is lost, which is decided in `Wires`.

Everything else is safety.

## 4. The proofs

Checked by TLAPS for every value of the constants that satisfies the modules'
assumptions:

* `DeviceAssumption`, `ChannelAssumption`, `ApplierAssumption`: the settings a
  device lacks are settings, the ids are distinct from the save's, `numTrials` is
  not zero, the order visits every setting;
* `SessionAssumption`: a section of the configuration shares its message id with
  no other setting, only the outputs share theirs;
* `ConnectionAssumption`: the configured rate is a rate, and the fallbacks are a
  sequence of rates and of numbers that are none;
* `MagAssumption`, `PublisherAssumption`, `TimeAssumption`, `AreasAssumption`,
  `CalendarAssumption`, `MotionAssumption`:
  the bounds and the sets of inputs are of their types (latitudes and longitudes in
  their ranges, the dates later than the times since the start);
* `BufferAssumption`: the buffer holds the largest frame; `SourcesAssumption`:
  what is sent are frames of the listed kinds, whose stamps are numbers and whose
  payloads are sequences of integers no longer than `MaxSize`, over one of the
  three links. What the wire holds then is proved, not assumed.

A theorem with an assumption of its own says so below.

| Module | Theorem | States |
|---|---|---|
| `CommandChannelProofs` | `TypeCorrect` | `[]ChannelTypeOK`, late answers included |
| | `PromptSafe` | without late answers: `[]SuccessMeansExecuted` |
| | `PromptReadsOwn` | likewise `[]ReadIsOwnValue` |
| | `PromptRefusals` | likewise `[]RefusalIsGenuine` |
| | `PromptQuiet` | likewise `[]QuietWhenIdle` |
| | `ChannelImplementsService` | likewise `ImplementsService`: the refinement |
| `ConfigApplierProofs` | `TypeCorrect` | `[]ApplierTypeOK` |
| | `ConfigurationApplied` | `[]DoneMeansApplied` |
| | `WritesOnlyWanted` | `OnlyWantedWritten` |
| | `SavesTheRest` | `SavesAllButLost` |
| | `SavesOnlyWhenNeeded` | `[]NoNeedlessSave` |
| `ConfigSessionProofs` | `SessionWrites` | `[]WriteMeansExecuted`, on both kinds of link |
| | `SessionImplementsApplier` | `PromptImplementsApplier`: the refinement |
| `DeviceConnectionProofs` | `TypeCorrect` | `[]ConnectionTypeOK` |
| | `HeardTalks` | `[]HeardMeansTalks` |
| | `ConfiguredTalks` | `[]ConfiguredMeansTalks` |
| `MagCalibrationProofs` | `TypeCorrect` | `[]MagTypeOK` |
| | `GoodInUse` | `[]OnlyGoodInUse` |
| | `SavesOnlyUploaded` | `SavesUploaded` |
| | `UploadsOnlyLatest` | `UploadsLatest` |
| `MessagePublisherProofs` | `TypeCorrect` | `[]PublisherTypeOK` |
| | `OneInstant` | `[]OdometryIsOneInstant` |
| | `RepeatsAreSpare` | `OnlySpareLogsRepeat` |
| | `UnlessQuatLast` | `[]OdometryUnlessQuatLast` |
| | `OriginValid` | `[]OriginIsPosition` |
| | `TransformsAreForest` | `[]TransformsFormForest` |
| `MessageWrapperProofs` | `AccurateHeader` | if `MaxGap < Modulus`: `[]HeaderIsAccurate` |
| | `DatesAreRecovered` | if `MaxGap < Modulus`: `DatesRecover` |
| | `OdometryIsDisplacement` | `[]OdometryFollowsGround`, over any distance |
| | `OriginIsInZone` | `[]OriginInZone`, everywhere on Earth |
| | `UtcTimesRight` | `[]UtcTimesAgree`, for every date from 1970 to 2106 |
| | `AllDirectionsAgree` | `[]DirectionsAgree`, for any integer velocity |
| | `TwistIsRight` | `[]TwistIsBodyVelocity`, for any integer velocity and rate |
| `LogStreamProofs` | `TypeCorrect` | `[]StreamTypeOK`: the buffer keeps within its size and never stalls |
| | `NothingLost` | `[]NothingDropped`, for any frames and damage |
| | `ReplayPace` | `[]ReplayKeepsPace`, for any file |

**CommandChannel.** The safety properties say something of the moment a command
returns only; they are not inductive. The invariant `CallInv` says of *every*
frame on the link what it may mean for the current command. On a prompt link a
time out happens only when nothing is on the link, hence there is
at most one frame in all, a request of the current command or an
answer to it; an answer that is not a refusal implies `done`, one with data
carries a member of `heard`, and a refusal implies that the device does not have
the setting. The refinement mapping is `status <- IF pc = "idle" THEN "idle" ELSE
"busy"`; `Handle` maps to `Execute` (or to a stutter when it refuses), the step
on which `pc` becomes `idle` to `Return`, and all others to stutters. With late
answers the theorems are false, and `ConfigSession` has what is left of them.

**ConfigApplier.** `DoneMeansApplied` is about the end of a loop; its
strengthening `AppliedUpTo` says that all the settings between the position of
the last loss of power (`lostAt`) and the current one that the device has hold the
wanted value in the working copy. To be
kept by `Execute`, which writes while the command is under way, it takes
`InHand`: the command in the hands of the service is the one that belongs to the
phase and position (`Position` keeps the latter within the order), so that only
the current setting can change. `Verdict` carries what a reply means
from `Return` to the decision: a successful read returned what the device holds
unless it lost power meanwhile, and a refusal is genuine. The same invariant gives
the two action theorems: `ExecuteEffect` says what a command of the applier may do
to the device in each phase, and at the save all of `Order` is behind. What a save
does to the settings reached before a loss of power takes `LossInv`: since then
the working copy differs from the flash by wanted values only, so the save leaves
those settings as they were or as wanted. `NoNeedlessSave` takes one more,
`CleanInv`: a run that found the device configured hears wanted values only, and
writes only to a section the device refuses (its local variable holds anything);
that write cannot succeed, so `reboot_needed_` stays false. A loss of power takes
nothing from such a device.

**ConfigSession.** With late answers an ACK of an earlier command may be on the
link when a write waits for its own. That it never bears the id the write waits
for is the doing of the applier, which reads each setting before it writes it, and
of links that keep the order. `SessionInv` sees the link as one queue (`Line`): the
answers on their way, and behind them those the device will give to the requests
on theirs. `WritesFirst` says that of one message id, older acknowledged writes
come before any other older answer; hence, when a read ends with an answer,
all the acknowledged writes of its id have left the queue (`ReadClears`), and the
write that follows meets none but its own (`NoOlderWrite`, with `OwnLast`,
`OwnMatches`). `WriteClears` is why the next setting, which for an output has the
same id, starts from a queue that keeps `WritesFirst`. A section's read may
be skipped for a refusal, hence `RefusalsKnown`; the save has no read
before it, but is sent once (`SaveOnce`). `Phases` ties each phase of the applier
to the command of the channel. `SessionImplementsApplier` follows from
`ChannelImplementsService`: the applier's own steps are ConfigApplier's by
definition, and those of the link are the service's.

**DeviceConnection.** What holds in the main loop depends on how the node got
there. `RateInv` says it at each point: `Settings` (the device uses its saved
rate, and its working setting is that or the configured one), `Asked` (when the
device was heard, at which rate), `Changing` (where `setDeviceBaudrate` is, the
device was heard, and is still reached until its save; then it uses the
configured rate, unless it was cycled) and `Talking` (the two properties
themselves).

**MagCalibration.** `GoodInUse` needs that the results kept, when they come from
an acquisition, carry *its* quality, and that the flash and the working copy are
good already. The two action theorems follow from the type invariant
and, for `UploadsLatest`, from the fact that without a failed end
`mag_calib_results_` are the latest received.

**MessagePublisher.** All of `PublisherInv` is proved at once, by what one call of
`publish` does (`CallEffect`: it keeps one log, and may try the odometry, with the
logs kept). `KeptInv` ties the messages kept to the logs that came, and
`inPosition` to the navigation messages in full navigation mode; `OrderInv` says
that over a link that keeps the order of instants the messages kept are the
newest; `OdometryInv` that an instant with an odometry had all its logs, so that
none of the logs still to come can be one of them. `RepeatsAreSpare` follows from
it (`CallRepeats`): a second odometry needs the same three messages, and a call for
one of their kinds would have replaced it by one that had come already.

**TimeReference.** The date is right if the difference of the stamps is that of
the times. `StampDifference` is this fact about remainders: two numbers less than
a period apart differ by their remainders' difference, or by that and one period
when the remainders go back. `TimeInv` says what the wrapper knows: the stamp of
the last UTC log is the counter's at that time unless the device was restarted
since, and its date is true once a valid one came and there was no restart.

**UtmOrigin.** `DriveInv` says that the first position and the last are projected
with one zone, the one chosen at the start, so that the meridian cancels in the
difference; the rest is the arithmetic of the wrapped longitude. For
`OriginIsInZone` the nearest meridian is unique (`MeridianOfZone`), and the
code's zone reaches the place in every case of the grid (`ZoneReaches`).

**UtcDates.** The code adds up the days of the years since 1970 and of the months,
one by one; `DayNumber` is the closed form of a calendar's day. They are shown equal
without induction over data: a recursive function of the module is a `CHOOSE`, the
closed form satisfies its equation, and the least year at which another solution
would differ (`LeastNumber`) contradicts it (`DaysOfYearsIs`, `DaysOfMonthsIs`).
`CalendarInv` keeps what the wrapper has of the last UTC log, and `OffsetIsLeap`
is why its offset is the leap seconds: the time of week less the seconds of the
minute, in a minute, for any less than a minute of leap seconds. `SentenceHasTime` is the
arithmetic over the end of a day and of a week.

**FrameConventions.** A quaternion *stands for* a matrix when its matrix is that one
times its squared norm (`StandsFor`). This goes through products
(`ProductStandsFor`), so the code's way from three turns to a quaternion
(`QuatOfAttitude`) and the one from the same angles to a matrix (`DcmOfAttitude`)
meet: both are the product of the three turns, for the device's attitude and for
those the driver makes of it. The rest is that the change of the frames is a
turn by itself (`EulerMessage`, `QuatMessage`, `BodyVelocity`). Attitudes are
quarter turns, as in the model; velocities and rates are any integers.

**LogStream.** `StreamInv` says that the wire and the buffer hold symbols of the
source, and that what is kept after a search is less than the buffer's size.
`FrameAtBounds` has the reason: what may begin a frame is kept only while
the announced size, which is at most `MaxSize`, is not there yet, so less than a
whole frame is kept; `FindFrameBounds` adds the other cases, and `MinIsIn` that
the first of the pairs of SYNC bytes exists. `ReadBounds` is that what is read
fits in the room.

`NothingLost` has three layers. *The wire*: the frames laid end to end
(`FramesLaid`) are in order (`Ordered`: by frame, then by place in it) and each
lies in one piece (`LiesAt`). What the library's `FlattenSeq` makes of a
sequence is found without induction, from the least prefix that
would break it (`JoinsExist`, `FlattenJoins`, on `LeastNumber`). A symbol lost or changed
leaves the other frames in one piece, as a symbol of a frame is at one
place only (`OnePlace`, `LostSymbol`, `ChangedSymbol`, `StreamsAre`); for datagrams
`WiresOfDatagrams` says the same. *The search*: `FindFrameKeeps` says that a call
gives up the first symbols of the buffer, none of them of a frame that may still
be completed, unless that is the frame found. A payload may look like a frame, but
what is taken for one is one (`FrameIs`), two frames never overlap (`NoOverlap`),
a frame that is there or begins there is never judged invalid (`ParseStart`),
and a lone SYNC byte at the end is kept. *The steps*: `OrderInv` is that what is held
comes before what is still to be read, and all of it after the last frame found;
`PlaceInv` that the symbols held are the last ones read, and that every frame that
lies before them was found, or that a datagram of one frame leaves nothing. They
are inductive together (`ReceivesInOrder`), and `NothingDropped` alone is not: it
does not say that what is held is in order or in its place. `PublishedInv`
relates the published logs to the frames found.

`ReplayPace` needs `PaceInv`: the last stamp kept is the last stamped log's, which
together with the time slept gives the next sleep. It holds of a file from
any stamp on, with raw logs and stamps of 0 anywhere (`LogKeepsPace`).

### Only model-checked

Liveness (`CommandReturns`, `RunEnds`, `ConnectsInTheEnd`, `StreamDrains`) is
beyond the prover. Every invariant and action property that a run checks is a
theorem.

## 5. Findings

Each is a run whose property restates a line of the repository and which TLC
refutes (`PROJECT.json` quotes the lines).

1. `session_late_read`. `sbgEComCmdOutputGetConf` overwrites its own parameters
   with the output echoed in the answer without comparing them. A late answer
   about one output is returned for another, which may then be left unwritten.
2. `mag_upload_garbage`. The first attempt to end a calibration fails, and the
   driver marks it as done: a save then uploads uninitialised memory (when that
   memory happens to have a quality other than invalid).
3. `publisher_quat_last`. The quaternion's handler does not try to publish the
   odometry. When it is the last log of an instant, there is none.
4. `ecef_position`. `convertLLAtoECEF` squares its variable `eccentricity`, which
   is the square of the eccentricity already (`sbg_ros_helpers.cpp:156-157`). The
   ECEF position is right at the equator and some 21 km off at the poles.

Other divergences seen while modelling, described by no run:

* A run of the applier that was killed before its save, or whose save failed, is
  not made up for: the next run finds every setting equal and does not save
  (`config_applier.cpp:436`, `:448`). The settings last until the next loss of power.
* A loss of power in the middle of a run takes back what the run has written, and
  the applier does not notice: it goes on, and its save (`config_applier.cpp:428`
  to `:448`) makes half a configuration permanent. The next start repairs it.
  `SavesAllButLost` says exactly which settings may be left behind.
* An instant may have several odometry messages (`message_publisher.cpp:620`,
  `:599`). With both attitude logs, as in `sbg_device_uart_default.yaml:278-280` and
  three more of the seven files of `config`, the odometry is made from the quaternion,
  but each Euler log publishes it again as long as the messages kept agree: one of
  the same instant, or of the next one before the others. With both IMU logs
  (`sbg_device_uart_default.yaml:276`, `:315`) it is made from `imu_short`, and each
  `imu_data` log does the same; without `imu_data` there is no odometry at all
  (`message_publisher.cpp:303`). The odometry itself is off in these files
  and is up to the user, except in `config/example/ellipse_D_default.yaml`, whose
  logs are one of each. Hence `Spare` in `OnlySpareLogsRepeat`.
* `connect` (`sbg_device.cpp:196`) returns when the discovery ended without a
  device, where `sbg_device.h:123` has it throw: `sbg_device_mag`, and a driver
  without `confWithRos`, then run without a device.
* The service `/sbg/mag_calibration_save` reports success however the save in
  flash ended (`sbg_device.cpp:488`).
* After a failed start the calibration is ongoing (`sbg_device.cpp:391`), and
  the save service refuses with "still ongoing".
* `/imu/data` is not published without the quaternion output
  (`message_publisher.cpp:225`), where `CHANGELOG.rst:27` says "even if
  orientation is not available".
* With the `imu_data` log the odometry's transforms are map to base_link and
  base_link to odom (`message_wrapper.cpp:1132`, `:1180`); with `imu_short` they are
  map to odom and odom to base_link.
* A log older than the last UTC log is dated one period of the counter (71
  minutes) too late (`message_wrapper.cpp:98`): the difference of the stamps is
  taken as a rollover. `HeaderIsAccurate` is about logs in order.
* After a restart of the device the dates follow UTC logs that are not valid
  (`message_wrapper.cpp:924`): `first_valid_utc_` stays set.
* A rate that an earlier run wrote and did not save is made permanent by the
  final save of a later run's configuration, which restarts the device at the
  configured rate under a driver that opened the port at another
  (`sbg_device.cpp`, `config_applier.cpp`). The driver then hears nothing until it
  is started again, when it finds the device at once. Hence the second
  alternative in `ConfiguredMeansTalks`.
* After the change of rate the device is not asked again: if it lost power before
  its save, the change went with it, and `connect` returns all the same.
* The odometry's linear velocity is that of the navigation frame, where the
  comment at `message_wrapper.cpp:1162` (and ROS) wants it relative to
  `child_frame_id`. `TwistIsBodyVelocity` is about the velocity message.
* In ENU, `createSbgEkfVelBodyMessage` and `createSbgEkfRotAccelMessage`
  (`message_wrapper.cpp:554`, `:586`) exchange x and y of *body* vectors, as is
  right for the navigation frame; `README.md:425-433` has the body Forward-Left-Up.
  Conversely `SbgImuData.msg` describes an exchange of x and y that the code, which
  negates y and z, does not do.
* The standard deviations along x and y of the odometry's covariance are exchanged
  (`message_wrapper.cpp:1152`): without convergence, `std_x` is the northern one
  although x points east.
* Over the equator and the 180th meridian the odometry's position jumps
  (`sbg_utm.cpp:112`), hence `SameSide` in `OdometryFollowsGround`.
* The GGA sentence is made within 100 ms of a plain second on both sides
  (`message_wrapper.cpp:1500`): more than once a second at 20 Hz or more, where its
  comment says 1 Hz. After a leap second it is off by one until the next UTC log.
* The seconds of a message's stamp are computed unsigned and put in ROS's signed
  32-bit field: what `UtcTimesAgree` says of dates up to 2106 holds of the
  stamps until January 2038.
* `wrapAnglePi` (`sbg_ros_helpers.cpp:10`) mirrors angles above half a turn
  instead of wrapping them; its one caller never gives it one.
* `getTimestamp` returns a variable nobody assigned for logs its switch does not
  name (`message_publisher.cpp:767`): the replay of a file may then sleep for any
  time.
* The replay compares 32-bit stamps (`sbg_device.cpp:112`): after a rollover of the
  recording's counter no log is delayed until the old value is passed.
* `periodicHandle` returns when no frame is ready: a whole file is replayed before
  the node spins again or looks at `rclcpp::ok`.
* Over UDP a datagram that comes when the buffer holds another is cut to the room
  left (`sbgEComProtocol.c:98`), hence `KeepsDatagrams` in `NothingDropped`.
* The velocity message is made of the last logs of each kind whatever their
  stamps (`message_publisher.cpp:341`), and the odometry's covariance of the Euler
  angles kept (`message_wrapper.cpp:1158`).

## 6. Not modelled

* **ConfigStore**: reads parameters once. Seen while reading: the month and the
  day of the initial date are read from the key of the year
  (`config_store.cpp:84-85`).
* **Contents copied field by field**: the status bits, accuracies, covariances and
  the receivers' fields; they have no behaviour over time.
* **Floating point**: rounding, the series of the UTM projection within a zone,
  the logarithms and roots; out of TLC's and of the prover's reach.
* **RTCM**: `writeRtcmMessageToDevice` is one write to the interface between two
  polls, whose error is logged.
* **Large transfers**: the assembly of pages and the sending of payloads larger
  than a frame. No command of the driver is that large; the pages that are
  received are frames of `LogStream` that complete nothing. `ParseFrame` leaves out
  the checks of their extended headers (`sbgEComProtocol.c:227-253`: the index of the
  page, and five bytes taken from the size): whole pages pass them, and a damaged
  one, or a stretch that looks like one, is found invalid here as well. The code
  asserts at line 268 when the announced size is below five.
* **A flood of other frames**: that a wait ends although logs and foreign answers
  keep coming is the library's comparison of times (`sbgEComCmdCommon.c:262-268`),
  which `TimeOut` stands for; the channel has the number of trials only.
* **Transfer commands** (`sbgEComTransfer.c`) and the commands the driver never
  calls.
* **sbgECom's platform layer and CRC**, and the reports written to files.

## 7. Plan

1. `LargeTransfer`: pages of successive transfers, which all have one id.
