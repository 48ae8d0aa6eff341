# TicFocuser-ng: a verification project

TicFocuser-ng is an INDI driver for a telescope focuser whose stepper motor is
run by a Pololu Tic controller.  This directory holds TLA+ modules that model
the driver and what lies between it and the motor, TLC configurations that
check them on small instances, and proofs that TLAPS checks for every value of
the constants.  Paths are relative to `src/`.

## 1. The system

| part | state it keeps | operations | what makes it correct |
|---|---|---|---|
| focuser driver (`TicFocuser.cpp`) | cached position and states of the INDI properties, the info tab, `moveRelInitialValue`, `lastFocusDir`, `lastTimerHitError`, the options (parking, backlash) | the handlers INDI calls: connect, disconnect, absolute and relative move, abort, sync, energize, de-energize, options; the poll `TimerHit` | the motor stays on its travel; moves that are shown as going on end; polling never stops; parking parks |
| driver interfaces (`connection/driver_interfaces/`) | the text of the last error | six commands and `getVariables`, on libtic or on ticlib | an error is told, or the command took place |
| ticlib (`ticlib/TicBase`, `TicSerial`, `TicUsb`) | `_lastError`, the USB handle | commands and variables as control transfers or as bytes | the controller does what it is told or nothing; a value that is read is the controller's |
| streams (`ticlib/StreamSerial`, `StreamBT`) | a descriptor, the address of the peer | write a byte, read a number of bytes, connect again | reads end, and count what they got |
| connections (`connection/*Connection*`) | the descriptor in hand; the serial number or address that is required, shown, saved | search, handshake, reconnection, disconnect, edit, save, load | the open device is in reach, the required one and on USB a Tic; none is left open; an outage costs one descriptor at most; what is saved comes back |
| names and units (`ticlib/TicDefs`, current limits of `TicBase.cpp`) | tables | code to text, code to milliamps and back | the info tab tells what the controller says |
| the controller (firmware, not in the repository) | position, target, planning mode, energized, safe start | the commands, the motor, faults, loss of power | |
| INDI (not in the repository) | event loop, timer, property states, configuration file | calls the driver, one callback at a time | |

How they interact.  INDI calls a handler of `TicFocuser`, which calls the
`TicDriverInterface` of the active connection; that goes to libtic
(`PololuUsbInterface`) or to a `TicBase` (`TiclibInterface`), which is a
`TicUsb` on libusb or a `TicSerial` on one of the two streams.  All calls are
synchronous and there is one thread.  What makes it hard nevertheless: the
motor runs, stops and loses power between two callbacks, so whatever the driver
caches is old when it is used; the link loses commands and answers; the driver
process dies and starts with defaults; a driver may be disconnected and
connected again in mid-move; and the user edits what the connection is about
while it is open.

## 2. Modules

| module | models | state |
|---|---|---|
| `Tic` | the controller, as a record and operators on it: one per command, one per thing the motor does by itself | none |
| `TicDriverInterface` | the two implementations of the interface: which outcomes a command may have and what the caller is told | none |
| `TicFocuser` | `TicFocuser.cpp`: one action per handler | controller, link, session, motion, options, report |
| `FocuserContract` | what the focuser promises: an abstract specification | position, goal, position shown, its state |
| `TicFocuserProofs` | theorems about `TicFocuser` | |
| `TicCodec` | the bytes of commands (`TicBase.cpp`) and their reading by the controller | none |
| `TicCodecProofs` | the theorem that one is the inverse of the other | |
| `Ticlib` | the calls of `TicUsb` and of `TicSerial` on both streams, with the link and the controller's receiver | the call in progress, the bytes under way, what was executed |
| `TiclibProofs` | theorems about `Ticlib` | |
| `TicLink` | what a link may do with commands: an abstract specification | commands given, commands executed |
| `Connections` | the libusb, libtic, Bluetooth and serial connections, with `TicUsb::connect` and `StreamBT::reconnect` | descriptors; progress of a search or handshake; name required, shown, saved |
| `ConnectionsProofs` | theorems about `Connections` | |
| `Readings` | one poll from near: `getVariables` variable by variable, and what `TimerHit` shows of it | controller, what has been read, the info tab |
| `ReadingsProofs` | theorems about `Readings`: the poll | |
| `ReadingsTabProofs` | theorems about `Readings`: the info tab | |
| `TicNames` | the enumerations of `TicBase.h` and the tables of texts of `TicDefs.cpp` | none |
| `TicCurrent` | current limits: codes and milliamps | none |
| `TicCurrentProofs` | the theorem that a limit is rounded down | |
| `MC...` | small instances | |

`TicFocuser` extends `TicDriverInterface`, which extends `Tic`: a handler is an
action that applies the operators of the interface to the controller.
`Readings` extends `Tic`, `TicNames` and `TicCurrent`, and `Ticlib` extends
`TicCodec`.  `TicFocuser` does not sit on `Ticlib`; what it
assumes of ticlib (`TiclibInterface` in `TicDriverInterface`: a command may be
lost and is always reported to have succeeded, a read that fails is reported)
is what `Ticlib` shows of `TicUsb` and of `TicSerial` over Bluetooth
(`ImplementsLink`, `WholeExecuted`, `ReadTruthful`, and the run `ticlib_usb`).  For `StreamSerial`
it is not: its reads return garbage without an error (`ticlib_enough`), and the
results on `TicFocuser` do not extend to that connection.

### TicFocuser

A handler is one action, with every call it makes.  `MoveAbsFocuser(ticks)` is
the set of results the function may have - return value, controller,
`lastFocusDir` - and is used by `MoveAbs`, `MoveRel` and `Disconnect` (parking).
`U32` is the conversion of a relative target from `int32_t` to `uint32_t`,
modulo the constant `Word`.  INDI's own checks around the handlers are part of
the actions: absolute requests off the travel never arrive; relative ones are
refused only on the side they head for (`Refused`), which is why a negative
target can reach `MoveRelFocuser` when the position itself is negative.  INDI
keeps one timer per device, so `timer` is a Boolean.

The environment moves the motor (`MotorStep`), raises an error (`Fault`), cuts
the power (`PowerCycle`), degrades or restores the link (`LinkChange`) and kills
and restarts the driver (`Restart`).  The controller is set up as the
repository's README asks: serial control mode, no command timeout.

Left out: the value (not the state) of `FocusRelPosNP`, the info tab (which is
in `Readings`), a change of the travel's end by the client (`MaxPos` is a
constant), and the log, except for `lastTimerHitError`.  `getVariables` is one
step here, although ticlib reads target and position one after the other:
`PositionsOfOneMoment` of `Readings` says that what is shown is nevertheless
that of one moment.  The exception is a controller that loses power between the
two reads; even then no poll finds a motor at a target it was never at
(`ArrivalSeen`).

### Readings

`PollBegins` is the call of `getVariables`.  libtic brings all variables at
once; for ticlib `ReadOrder` lists them as `TiclibInterface` reads them, and
`ReadVariable`, `ReadFails` (nobody looks) and `PollFails` (the two positions,
`Checked`) are the outcomes of one read.  `Show` is the rest of `TimerHit`: the
position, the comparison, and `Displayed`, which goes through `TicNames` and
`TicCurrent` as the code does.  Between the reads the motor runs, the supply
fails and recovers, the ERR line rises and the power is lost; a command cannot
come between, as there is one thread.  `stage` says whether the controller is up:
one that has been powered, or has been stopped by an error or by its ERR line,
starts up before it runs, and a state other than Normal is that of an error or of
a controller that is starting up (`TicBase.h:721`).  The firmware decides when,
so `StartsUp` and `ComesUp` are possible at any time.  A failed read leaves zeros on a stream, where
`getSegment` clears the buffer, and anything over USB, for which `Zeros` and
`Ones` stand.  `seen`, `restarted`, `failed` and `changes` are auxiliary.

What the info tab promises depends on the library.  Over each, a line tells what
the controller was in at some moment of the poll (`TabTruthful`), but two lines
may be of two moments: over ticlib the state may read Normal beside an error that
came a moment later.  Over libtic all that is shown is of one moment, position
and arrival included (`ShownAtOnce`).  A line that could not be read is blank over
`TicSerial`, which clears the buffer, and may say anything over `TicUsb`.

Two things a reader should know of the code are visible in it.  TicBase is
never told its product, so over ticlib the limit of a T500, T249 or 36v4 is
shown in units of 32 mA; `Tells` claims the limit only for the products
the default is right for.  And the masks of the last five errors lie beyond the
16 bits of the status, so these five lines never show an error.

### Ticlib

Every byte is tagged with the call it belongs to and its place in it; no guard
looks at a tag, and no byte that is sent depends on one.
`Give` begins a call, `Write` writes one byte, `Read` and `ReadNothing` are
rounds of the loop in `readBytes`, `Return` its end with the tail of
`getSegment`.  `Deliver` is the controller, which takes a byte with the top bit
set for the beginning of a command.  `Transfer` is a whole call over USB.
`_lastError` is kept modulo 256 as in the code, and so is the count `readC`,
which a -1 may drive below zero.

Two constants say what is assumed of the link.  `Prompt`: each read that
finds nothing has outwaited every byte on its way, which is more than that the
five a call makes do so together; otherwise a late answer would be taken for that
of the next read, as nothing empties the stream.  `Isolated`: two calls in a
row do not both lose something, otherwise the front of one command and the
tail of the next make up a third.  The protocol has a CRC option against the
latter and the code does not use it.

### Connections

One variable, `library`, says which connection is active in a behaviour.
`files` is the table of descriptors of the process, which gives out the lowest
free number as an operating system does, and `handle` the number the connection
has in hand: `TicUsb::handle`, `tic_handle`, `btSocket` or `PortFD`.  Whether a
handle stands for a device, for a file of the rest of the process
(`OpenOther`), or for nothing is read off the table.  That is what makes a
number that was kept too long visible.

Connecting takes steps.  `phase` says where `Connect` is: in the loop over the
devices, whose iterator is `left`, or in the handshake.  `VisitLibusb` and
`VisitPololu` are one round of that loop with a `Fate` of the device (fine, its
descriptor cannot be read, it cannot be opened, its number cannot be read);
`Exhausted...` is what follows the loop.  `Reconnect` is one reconnection made
by a read or write of `StreamBT`, in a handshake or later.  Devices are plugged
and unplugged between any two steps; nothing else of INDI happens meanwhile.
`Counts` stands for the 256 values of the `uint8_t` that `TicUsb` keeps the
count of devices in.

`Edit`, `Saved` and `Start` are `ISNewText`, `saveConfigItems` and the
constructor, which the USB and Bluetooth classes have in two copies;
`required`, `shown` and `config` are the three places of the name.  A libusb
that fails to initialise is an attempt that fails.  The serial connection is
INDI's own (external) with the handshake this repository adds; it requires no
name.

What the properties except is what the code does.  `FoundHolds` excepts
`TicUsb` when it takes the count of devices for zero; `OthersSpared` excepts
the number of a socket that did not connect, which `StreamBT` keeps and
`disconnect` closes once more, whoever has it by then.  And each `Reconnect`
forgets the socket in hand, whether it succeeds or not, because
`StreamBT::reconnect` takes a new one before it knows (`StreamBT.cpp:60`).
`OutageCostsOne` says that this is all an outage costs: the attempts that follow
the first have nothing in hand to forget until one of them connects.  Outages that
follow one another, or a peer that accepts connections and then fails every read,
use up the descriptors, in the model until `Fds` is spent.

The handshake tells a Tic by its uptime: four bytes that are not all zero.  The
driver cannot know whose bytes they are, so `Answers` lets any device in reach
pass it, a Tic or not, and any fail it, as a read may.  `FoundHolds` therefore
claims a Tic only on USB, where the product is looked at, and on a stream no more
than an open device in reach that has the required address.

## 3. What TLC checks

| run | question | result |
|---|---|---|
| `focuser_pololu` | On libtic, is the motor kept on its travel, does polling go on, are relative moves bounded, does a focuser at rest park, does the Energize button ready the motor, and is `FocuserContract` implemented? | holds |
| `focuser_live` | On ticlib, is the position shown right again after an outage, and does a move that is shown end? | holds |
| `connections` | Whatever fails, and whatever is plugged or unplugged meanwhile: are devices accounted for, has a Connect that succeeds the required device in hand, does the text tell the truth, does an outage cost more than one descriptor or close what is not the driver's, does the address come back? | holds |
| `readings` | Is what a poll shows of one moment, is an arrival real, does the info tab tell what the controller was in, and is everything that libtic shows of one moment? | holds |
| `ticlib` | Are commands executed as given, and not at all only if something of them was lost, are reads true, are errors real, do calls return, those over a serial line if nothing of them is lost? | holds |
| `focuser_direction` | Does `lastFocusDir` remember the last move? | no: not an inward one made while backlash is off |
| `focuser_arrival` | Is a move reported as over only of a controller that pursues a target? | no: after a halt the comparison succeeds by accident |
| `focuser_parking` | Does parking park? | no: nothing is sent when the cached position reads 0 |
| `focuser_range` | Is a request off the travel refused? | no: a negative one is clamped to the far end when backlash is added |
| `connections_restored` | Does the saved serial number come back? | no: it is looked for under another name |
| `ticlib_enough` | Does `StreamSerial` read until it has enough? | no: it counts every byte twice |
| `ticlib_usb` | Does a failed command over USB leave an error? | no: it is stored unsigned and cleared |

Each property is broken by a mutant of the code's model, an operator marked
MUTANT next to the definition it stands in for.

### The bounds

- `focuser_pololu`: a travel 0..2 and a backlash of 0, 1 or 3 let a move reverse
  in the middle, be clamped at either end, be clamped to where the motor is, and
  be compensated by more than the travel.  `Word` 16 is more than any sum of positions, so that a negative
  request is far out of range, as 2^32 makes it.  The counter starts at 0 or at
  -2, so far below the travel that an outward step does not reach it: only then
  does a negative relative target get past INDI's check.
- The view of this run leaves out `relState`, `energizeState` and
  `lastTimerHitError`.  No guard reads them and no other variable is computed
  from them, so two states that differ only in these have the same successors
  but for them; the properties about them speak of one step, and TLC evaluates
  a step with its real values.  The type of all three is proved besides.
- `focuser_live` has no view and leaves the options alone: backlash and parking
  only choose targets, and the liveness properties hold for every target.
- `connections`: three devices of which the middle one is no controller, so that
  a search passes over something between two candidates and a peer may be no
  Tic; three descriptors, so that a search or a reconnection meets a full table
  and a closed number is given out again; `Counts` is 3, so that a full bus is
  taken for an empty one.
- `readings`: at most two things happen to the controller during one poll
  (`MaxChanges`), one before and one after any read, or both between two reads,
  and one unchecked read fails (`MaxFailed`; the others are independent of it).
  A T825 and a T249 differ in whether TicBase's default unit is right, and the
  step mode of each (3 and 6) is one whose name is not the blank.  Its view
  leaves out the display, which nothing reads.
- `ticlib`: a short command, a move whose bytes include the code of that
  command, and a variable of four bytes; three calls (`MaxCalls`), so that one
  may lose something and both its neighbours be whole.  Deadlock is not checked
  because the calls run out.

### Fairness

`TicFocuser`: `TimerHit`, as INDI's event loop calls a timer that has run out,
and `MotorStep`, as a motor that is free to run runs.  Nothing is assumed of
the client or the link; `ViewRecovers` and `MoveEnds` say for themselves that
they are about a link that stays good.  `Ticlib`: the driver's loop goes on; a
read for which there are bytes returns; one for which there are none returns on
a Bluetooth socket, which has a timeout of one second (`StreamBT.cpp:64`), and
nothing is assumed of it on a serial line, as a tty that INDI opened to wait for a
byte does not return; the link delivers what it does not lose.  Accordingly
`CallsReturn` says that a call returns unless it is over a serial line and
something of it was lost.  `Connections` and `Readings` state no liveness.

## 4. What is proved

`TicFocuserProofs`, for every travel, word size larger than twice the travel,
steps, backlashes, start positions and both interfaces:

- `Inductive`, `TypeCorrect`, `TargetsOnTravel`, `PollingNeverStops`:
  `IInv == TypeOK /\ TargetOnTravel /\ PollingAlive` is an invariant.
- `MotorStaysOnTravel`: once on the travel the motor never leaves it.
- `RelMovesAreBounded`, `RestingFocuserParks`, `EnergizedIsReady`: the three
  properties of single handlers hold of every step from `IInv`.
- `Implements`: the driver implements `FocuserContract`.

The argument.  A controller is `Sound` if what it pursues lies on the travel.
`CommandResult` says what a call may do to it, `CommandsAreSound` and
`WorldIsSound` that every command and everything the motor does by itself keep
it sound; `MoveAbsResult` that `MoveAbsFocuser` sends it to a place on the
travel or leaves it alone, whatever the conversion and the compensation made of
the request.  Hence `DeviceStep`: each step keeps the controller sound and the
motor on the travel.  `StaysOnTravel` is not inductive by itself, since a
position on the travel says nothing of where the motor is headed: it needs
`TargetOnTravel`, which needs the types.  The refinement maps the goal to the
target while the controller pursues one and to none otherwise; it has one
lemma or case per action, and each step is a step of the contract or a stutter.
A `Fault` is of a moment and leaves its mark on the controller; that the cause
lasts, a supply that stays too low, is not in this module.  "Free to run" in
`EnergizedIsReady` therefore means energized and out of safe start, which is all
that the handler can bring about.

`TicCodecProofs` proves `RoundTrip`: for every command and argument the
controller reads what was written, data bytes have the top bit clear and are as
many as it expects, command codes have it set.

`CompensatedBounds` and `U32Identity` carry `RelMovesAreBounded`: a relative
target that INDI lets through from a position on the travel is on the travel,
survives the conversion, and the compensation takes it no further than the
backlash.

`TicCurrentProofs` proves `LimitsRoundDown`: on every product, for every limit
its 7 bits can express (`Representable`), `setCurrentLimit` gives the highest
code that is worth no more than asked, as `TicBase.h` promises.  The loop over
the T500's table needs that the table rises; the 36v4's formula is off by one
before the correction that follows it.

`ReadingsProofs`, for every travel, any settings and any number of changes:
`OneMoment` and `ArrivalsSeen`.  The invariant `PInv` says where a poll stands.
The target that was read is the controller's until it restarts
(`TargetHolds`): a command cannot come between two reads, and neither the motor
nor a fault changes the variable.  The position that was read was seen next to
that target, or on a controller that had restarted (`PositionSeen`); one that
has restarted rests with position and target both 0, so that no later read finds
it anywhere else.

`ReadingsTabProofs`, for the same: `TypesKept`, `TabTells` and `TabAtOnce`.
`TabInv` says of every variable that was read that it is the answer to one of
the moments of the poll (`Kept`), and over libtic that all are the answer to the
same (`AtOnce`), where a moment is one of those in `seen`, and there is only one
as long as nothing has changed.  What is left is about functions: a state and a
step mode are found in their tables under their own names, as each row is the
first with its code (`FirstRow`, `StateNames`, `StepModeNames`); each error a
controller may report has a line of its own (`ErrorsShown`); what a controller
says of its state tells errors from starting up (`Statuses`).  `TellsOf` says
line by line what the display of an answer tells, and `BlankOf` what that of a
cleared buffer does.

`TiclibProofs`, for any commands, however many calls and every transport, in
four steps; 2 rests on 1, and 3 and 4 on 2.

1. `TypesKept`, with `TInv`, which adds to the types what each phase of a call
   implies (`Shape`).  Nothing is assumed of the link.
2. `CommandsAsGiven`: the refinement of `TicLink`, if losses are `Isolated`.
   That only given commands are executed is not inductive: it says nothing of a
   command half received.  `LinkInv` puts the bytes of all calls in one stream,
   where byte y of call j has the place `At(j, y)`, and says that the
   controller has heard it up to some place and the driver has written it up to
   the `Frontier`; that what is on its way lies between the two in its order;
   that what lies between and is not on its way belongs to a call that is hurt
   (`Ahead`); and that the command the controller is receiving is the front of
   one that was given, or has lost a byte and can never become complete
   (`Receiving`), because the next byte it hears of another call is a code, at
   which it starts afresh.  This last step is where `Isolated` is needed;
   without it the controller may also have bytes of several calls, all of them
   hurt (`Mixed`), and execute something nobody asked for (`Strays`).  `LinkInv`
   holds either way.  `Hears` sums up what one more byte does.
3. `AnswersWhole` and `ErrorsEarned`, if reads are `Prompt` besides.  `AnswerInv`
   adds that no answer is under way but to the read that waits for it
   (`Asking`), and for that read how many bytes of the answer are lost (`Lost`):
   each byte that came is at most so many places from where it belongs
   (`Reading`), so that a full buffer has lost none.
4. `WholeCommandsExecuted`, whatever is lost, so more than the run shows.
   `WholeExecuted` is inductive relative to `LinkInv`: when the last byte of a
   call arrives, it completes the command, and if the byte that arrives is an
   earlier one, the last is still on its way.

`ConnectionsProofs`, for any devices, names and descriptors: `TypesKept`,
`HandlesKept`, `Served`, `PeerShown`, `ClosedShown`, `DeviceFound`,
`OutagesCostOne`, `OthersAreSpared` and `AddressComesBack`.  The invariant `CInv`
adds to the properties what makes them inductive: `Sessions`, when a connection
may hold a number at all; `SerialNameless`; `PeerKept`, that the peer of
`StreamBT` has the address it keeps, which is the one on display and the
required one unless a reconnection is due; `UsbServed`, the same of the device
on USB.  `Opens` and `Closes` say what the two operations on the table do, and
each action has its lemma.

The proofs rest on the named assumptions `ConstantsAssumption`,
`InterfaceAssumption`, `ConnectionsAssumption`, `ReadingsAssumption` and
`TiclibAssumption`, which TLC evaluates on the runs.  `Isolated` and `Prompt`
are hypotheses of the theorems that need them and constants of the model; they
are assumptions about the link, which the code cannot enforce.  The run `ticlib`
is made under both: a mixed command may ask for a variable of 63 bytes, any of
which may be lost, which is out of TLC's reach.

Only model-checked: liveness (`ViewRecovers`, `MoveEnds`, `CallsReturn`), which
is beyond the prover.  Every invariant and every action property of a passing
run is stated by a theorem.  The results on current limits are of functions
and have no run of their own; `Displayed` uses `getCurrentLimit` in `readings`.

## 5. What is not modelled

- The search of INDI's serial connection for another port, and the number of
  attempts it makes at a handshake; `SerialConnection.cpp` beyond its
  constructor and handshake is compiled out.
- The commands and variables of ticlib that the driver never uses, and the Pololu
  protocol with device numbers (no `TicSerial` of the program is given one).
- `Activated` and `Deactivated`, the saving of the parking mode, and the
  switch from one connection to another while the driver runs.
- The value of `FocusRelPosNP`, which after an abort goes on from the aborted
  move: it is display only, and no text says what it should be.
- Build files, the catalogue entry, the documentation and the hardware.

## 6. Plan

Built in this order, the most important behaviour first: `Tic`,
`TicDriverInterface`, `TicFocuser` with its runs, `FocuserContract` and its
refinement, `TicFocuserProofs`, `TicCodec` with its proof, `Ticlib` and
`TicLink`, `Connections`; then `TicNames`, `TicCurrent` and `Readings` with
their proofs, `Connections` once more with descriptors, steps and the serial
connection, and its proofs; `TiclibProofs` and `ReadingsTabProofs`.  What is left:

1. Model: the value of `FocusRelPosNP` and the progress of a relative move; the
   switch between connections.
2. Prove: that the interface `TicFocuser` assumes of ticlib is what `Ticlib`
   promises, as a refinement instead of the argument of section 2; and that the
   poll `TicFocuser` takes in one step is one that `Readings` takes in many.
