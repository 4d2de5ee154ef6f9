# A verification of EasyNMEA

EasyNMEA reads NMEA 0183 sentences from a serial device, decodes the GPGGA ones and hands them to applications. An
application opens a port, waits for data, takes samples and closes the port, from as many threads as it likes; a read
thread owned by the library feeds a small queue. This directory holds TLA+ models of that program, the TLC
configurations that check them, and theorems proved with TLAPS. Paths below are relative to the repository.

## 1. The system

| Part | State | Operations | Talks to |
|---|---|---|---|
| `EasyNmea` (`src/cpp/EasyNmea.cpp`) | a pointer | forwards every call | `EasyNmeaImpl` |
| `EasyNmeaImpl` (`src/cpp/EasyNmeaImpl.{hpp,cpp}`) | two mutexes, a condition variable, the atomics `routine_running_` and `internal_error_`, `data_received_`, the queue, `read_thread_` | `open`, `is_open`, `close`, `take_next`, `wait_for_data`, destructor; the read thread: `read_routine_`, `process_line_` | `SerialInterface`, `EasyNmeaCoder`, `FixedSizeQueue`, `std::thread` |
| `SerialInterface` (`src/cpp/SerialInterface.hpp`) | the asio port, the line being read | `open`, `is_open`, `close`, `read_line`, `read_char` | asio, the device |
| `FixedSizeQueue` (`src/cpp/FixedSizeQueue.hpp`) | a `std::queue` | `push` (drops the oldest), `clear` | |
| `EasyNmeaCoder` (`src/cpp/EasyNmeaCoder.hpp`) | none | `decode`: form, checksum, kind, fields | |
| Public types (`include/easynmea`) | masks, codes, samples | | |
| `gpgga_example` (`examples`), and the system test program with the same structure | `running`, a condition variable, two threads, a signal handler | `main`, `working_routine`, `signal_handler_callback` | `EasyNmea` |

How they interact. Client threads and the read thread share the members of one `EasyNmeaImpl`. `mutex_` serialises
`open()` and `close()`; `data_mutex_` protects the queue and `data_received_` and is the mutex of `cv_`. The read
thread takes `data_mutex_` only; it closes the port itself after a read error, under no lock. `close()` joins the read
thread while it holds `mutex_`, and relies on the closing of the port to abort the read in flight.

What is hard here: two mutexes and four atomics that are not always used together; notifications given without the
mutex of the wait; a thread that ends by itself and is joined by somebody else, later or never; `open()` failing half
way; a queue that overwrites; a destructor that runs while the read thread still does; sessions that follow one
another on one object; digits and optional fields told apart by their position.

What makes each part correct:

- *samples*: the queue is a window of the last samples, each is taken once, in order; the bit a waiter looks at agrees
  with the queue; no waiter sleeps next to its data;
- *sessions*: an open port has a reader, a closed one delivers nothing; the thread is joined exactly once; every call
  returns;
- *the promise to callers*: takes and results of waits look as if they happened at one instant, without locks;
- *lines*: what `read_line()` returns is what arrived, whatever happens to the port in between;
- *sentences*: what `decode()` accepts is what the device sent, although the wire damages characters, and damage to one
  sentence spoils no other;
- *decoding*: a sample says what its sentence says, as exactly as a `float` can; two samples are equal when their
  sentences said the same; timestamps keep their order although they are rounded;
- *the example*: it dies of what its surroundings do and of nothing of its own, loses nothing when it reports a failure,
  ends, and its exit code says how.

## 2. The modules

| Module | Models | Notes |
|---|---|---|
| `EasyNmeaImpl` | the object, its clients and its read thread, with the port as environment | the core; composes `FixedSizeQueue`; states its refinement of `NmeaReceiver` |
| `FixedSizeQueue` | `push`, `clear` | operators on sequences |
| `NmeaReceiver` | nothing in the code: the abstract specification | what `EasyNmeaImpl` promises its callers |
| `Bitmask` | every operator of the template | a mask is the set of positions of its bits; `EasyNmeaImpl` uses it for its masks |
| `EasyNmeaImplProofs` | | TLAPS proofs about `EasyNmeaImpl`, and that it implements `NmeaReceiver` |
| `EasyNmeaClaims` | | comments of the library that its code contradicts |
| `GpggaExample` | `examples/gpgga_example.cpp`, and `test/system/system_tests.cpp` | composed with `EasyNmeaImpl`: its actions are conjunctions with the library's |
| `SerialInterface` | framing of characters into lines | |
| `NmeaChecksum` | the form of any sentence and the loop of `validate_checksum_()` | one action per character of the loop |
| `NmeaLink` | `read_line()` and `decode()` of the lines it returns, one after the other | composes `SerialInterface` and `NmeaChecksum` with a device and a noisy wire |
| `SerialInterfaceProofs` | | proofs about the lines, for any stream |
| `NmeaChecksumProofs` | | the proof that the checksum notices one damaged character |
| `NmeaLinkProofs` | | proofs about whole links: what is accepted, and what damage costs |
| `EasyNmeaCoderProofs` | | proofs about timestamps, optional fields, positions and the comparison of samples |
| `GpggaExampleProofs` | | proofs about the example: its exit code, its use of the library, its failures |
| `Induction` | | lemmas the proofs about recursive functions rest on; no code |
| `Float` | external: `std::stof()` and the division and addition of floats | a float is a record of its 24 bits and its exponent |
| `FloatProofs` | | lemmas about what rounding loses |
| `EasyNmeaCoder` | `decode()` of a GPGGA sentence, `GPGGAData` and its comparison | pure operators, one action that decodes the next line |
| `MC...` | | instances for TLC: constants only |

### EasyNmeaImpl

One action is the code between two points where another thread could tell the difference: taking a lock, storing an
atomic, a call into the port, a notification, a join. `pc[t]` is where client `t` is, `reader` where the read thread
is. `mutex_` and `data_mutex_` hold their owner. `take_next()` is two actions (`TakeNext` pops under the lock,
`TakeUpdate` clears the bit and unlocks), so that "nobody else looks in between" is a fact about the lock and not
about the model. `wait_for_data()` is `WaitCall` (the call to `is_open()`), `WaitCheck` (lock and predicate), `WaitBlock`
(atomic unlock and wait), then a wake-up (`NotifyAll` by somebody, `SpuriousWakeup`) back to `WaitCheck`, or `WaitTimeout` and
the last evaluation of the predicate, `WaitExpired`. `open()` is `OpenCall`, `OpenPort` (port and baudrate), `OpenSpawn`,
`OpenReturn`; `close()` is `CloseCall`, `CloseStop`, `ClosePort`, `CloseJoin`, `CloseNotify`, and is the same when the destructor
calls it (`life` tells where its return goes). The read thread goes round `ReadLoop`, `ReadLineIsOpen`, `StartRead`, the
device's answer (`ReadChar`, `ReadOtherLine`, `ReadGpggaLine`, `ReadError`, or `ReadAborted`), `PushSample`, `SetReceived`,
`NotifySample`, and after a failure `ReadClose`, `StopRoutine`, `RaiseError`, `NotifyStop`. The device may also send a sentence
that makes `decode()` throw (`DecodeThrows`).

Undefined behaviour ends in `crash`: destroying a joinable `std::thread` (`terminate`), joining through a null pointer
(`null_join`), clearing the queue while the read thread is in its critical section (`data_race`, a choice between
nothing and death), an exception out of `decode()`, which is noexcept (`decode`). No action is possible afterwards. Misuse that the documentation of C++ excludes anyway, a call on an
object that is being destroyed, is not modelled: `Destroy` needs every client idle.

Samples are numbered in the order they arrive, which is all the properties need of them. A mask is a set of bits, and
an application may ask for any: all of them, none, one that no kind has. `MCEasyNmeaImpl` also checks, for words of three
bits, that the operators on sets are those on the integers of two's complement that the code has (`OperatorsAreArithmetic`).
The facade `EasyNmea` forwards each call and keeps nothing: its methods are the disjuncts of `Begin`.

Simplifications. Each call into asio is one atomic step, and `open()` of the port with `set_option()` is one, because
`mutex_` is held and nobody reads meanwhile. A `close()` of the port that reports an error leaves it closed, as asio
does. A read that fails because the port was closed before it started is an error other than `operation_aborted`
(`StartRead`). `is_open()` of the public interface is the first half of `WaitCall` and adds nothing.

### NmeaReceiver

A connection (`link`), a buffer, and clients that take or wait. It has neither locks nor flags nor notifications.
`EasyNmeaImpl` implements it under this mapping: `buffer` is the queue, `arrived` counts samples, `awaiting` is a client's mask
while it is inside the wait, and `link` is computed from the flags and the read thread: `up` while `routine_running_` is set,
`draining` while it is not and the read thread can still deliver, `ended` until it is joined, `down` without a thread. So
`ImplementsReceiver` says that `take_next()` is atomic, that OK, TIMEOUT and ERROR are each justified by one state in
which everything they assert is true, and that samples come only from a connection that has not ended.

### GpggaExample

`Main` and `Worker` are the two clients of an `EasyNmeaImpl`; a call of theirs begins with the library's own action and
ends when that client is idle again. The handler of SIGINT is a step of its own, at any time, once.
`mtx` is only ever taken by `main()`, so it orders nothing and is left out. Before the port is opened `main()` takes its
arguments one by one (`ParseOption`, `ParseHelp`, `ParseUnknown`); an option takes the argument after it even if that is
`-h`, and an option that comes last reads a null pointer, for which the exit code is `undefined`. The system test program
logs each sample: with `LogMayFail` the routine may end by `WorkerLogFails`, `WorkerLogNotify` and `WorkerLogExit`, in the
order of its code, which stores the exit code last.

### SerialInterface, NmeaChecksum and NmeaLink

`SerialInterface` has a port, the string `read_line()` fills and, as history, the characters of the session and the lines
returned. It opens the port only when no `read_line()` runs, as `EasyNmeaImpl` does unless it dies first.

`NmeaChecksum` has the general form of a sentence (`BasicMatches`) and the loop that sums it (`StartSum`, `XorNext`, `Summed`).
A character is the set of the bits of its code, so that `^` is the symmetric difference. Its alphabet, its codes and
its digits are constants. `NumberOf` is the number that two digits write.

`NmeaLink` puts them together as the read thread does: `ReadNextLine`, the characters, then `MatchLine`, `SumNext` for each
character and `ValidateLine`, and only then the next line. A device that is not part of this repository
sends sentences; the wire delivers each character, or replaces it by any other, terminators, `$` and `*` included, or loses it, once in each
sentence. The port may be closed at any moment, and opened while the device is in the middle of a sentence. The device
knows the checksum it has to send as the recursive function `BitsOf`, which the loop of the code computes step by step.
Properties compare sequences by an order-preserving map of positions (`Embeds`): from what was accepted to what was
said, and from what came through to what was accepted.

### EasyNmeaCoder

A sentence is a record of what the decoder tells apart: the digits and dot of the two angles, the time, the numbers, and
the end of the sentence with its commas, which `Split` cuts as `split_()` does, empty components included. The form and
checksum of any sentence are flags here. The time has thousandths of a second, an angle any number of digits up to
`MostDigits`, the decimal fields are in tenths up to `MostTenths`; beyond these bounds `std::stof()` may underflow, and
`Float`, which multiplies no more than 24 bits by a small number, would leave the integers of TLC.

`Float` rounds as the code's `float` does: `std::stof()` of a decimal number (`Nearest`), its sixtieth, and the sum of degrees
and minutes (`Plus`), each to 24 bits and to the even one of two that are equally near. Its results were compared with those of a
compiler. What follows from it, and what the properties therefore say:

- `to_degrees_()` rounds three times. `IsRead` says that the result is within one unit of the last bit of the angle that the
  sentence writes, and is zero only for zero.
- 0160.1 and 0200.1 are the same angle, written with minutes of 60 and without. They are converted to two floats which differ by one unit, and
  compare different. So "say the same" is `IsSame`: the same digits, but for zeros at the end.
- Above 128 degrees floats are 0.000015 degrees apart, 0.0009 minutes: minutes that differ in the fourth digit may compare
  equal. Equal positions are therefore claimed to be the same to a thousandth of a minute (`IsNear`), 1.9 metres.
- Tenths of up to seven digits have floats of their own (`AreApart`); the property leaves longer ones out, and the numbers
  that a `uint16_t` does not hold (`Fits`).
- From 13:11 on a timestamp has 1/64 s. The expression lets through six digits of any value as a time; that samples
  16 ms apart can be told apart holds of the times a day has (`OfDay`).

## 3. What the runs show

Passing runs:

| Run | Question | Bounds |
|---|---|---|
| `core_safety` | everything that must hold in every interleaving of two clients and the read thread, under every fault; refinement of `NmeaReceiver` | 2 clients, queue of 2, 4 masks, 5 calls, 3 samples; 851 865 states up to symmetry |
| `returns` | do calls, waiters with data, and waits return | the same with 1 mask, 4 calls, 2 samples, no symmetry (it is not sound for liveness); 151 243 states |
| `example` | of what can the example die; does it lose nothing, end, and end with the right code | queue of 1, 3 samples, every fault, samples that cannot be logged, 6 command lines; 82 338 states |
| `noisy_line` | framing across sessions; are damaged sentences refused, and the others accepted | 2 sentences per session of 7 and 8 characters, damage to any character of each; 493 561 states |
| `coder` | position, optional fields, order of the timestamps, comparison of samples | 756 sentences and their samples, at the ends of the ranges of the expression and of the resolutions of a float, each decoded after every other one |

Why these bounds are enough. Everything in the code is symmetric in the clients but for who calls what; a second
client is what gives races on the queue, on `mutex_`, between `close()` and a wait, and between a take and a
notification. A queue of two, with three samples, visits empty, partly filled, full and overwriting. Five calls are
enough for open, wait, close, open again and a take, or for two full sessions of one client; the destructor is not
counted. The number of samples and calls are the only bounds (`MaxSamples`, `MaxCalls`), and both are guards of the
environment: the device falls silent and the applications stop calling. In `example`, `MaxCalls` is so large that the
samples run out first. `noisy_line` has an alphabet of three characters with codes of two bits, every one but zero, and digits
of one bit; its two bodies differ in length and have the same checksum, so that neither tells them apart. Two
sentences are what it takes for one to run into the next; `MaxChars` is the length of both and never bites. For every other value of the constants there are the theorems.

Fairness. `Scheduling` is weak fairness of the read thread's own steps and of each client inside a call: the operating
system runs a thread that can run. Weak is enough for the mutexes because, with `MaxCalls`, nobody can take one
infinitely often. Nothing is assumed of the device (it may be silent in the middle of a line), of the applications (they
may stop calling) or of spurious wake-ups. `Timers`, strong fairness of `WaitTimeout`, is assumed by `WaitReturns` alone: the
deadline is absolute, so a waiter that keeps being woken up still times out; `DataWakesWaiter` does without. In the
example the threads of the application are weakly fair, and SIGINT may never come.

`CHECK_DEADLOCK` is never switched off: a state with no step would be a real deadlock, since a dead process or a
destroyed object has the explicit step `Terminating`.

Each property has a mutant: a plausible slip in one definition with which the run must find the property
violated (`PROJECT.json`, `mutants`).

Violated claims, each found by a run of its own:

| Run | The text | What the code does |
|---|---|---|
| `claim_open` | with no port open, `open()` returns one of three results (`EasyNmea.hpp:67-76`) | after a read error nobody joins the old thread; the next `open()` ends the process (`EasyNmeaImpl.cpp:81`) |
| `claim_destructor` | the destructor closes an open connection (`EasyNmeaImpl.hpp:64`) | after a refused baudrate it joins a null thread (`EasyNmeaImpl.cpp:114`) |
| `claim_close_unblocks` | `close()` unblocks any wait (`EasyNmea.hpp:135-136`) | flag and notification come without `data_mutex_`; a waiter may miss both and sleep until its timeout |
| `claim_queue_locked` | `data_mutex_` protects the queue (`EasyNmeaImpl.hpp:168`) | the destructor clears it without (`EasyNmeaImpl.cpp:48`) |
| `claim_worker_error` | an error while waiting clears `running` (`gpgga_example.cpp:109-110`) | not when it is reported as ILLEGAL_OPERATION (`gpgga_example.cpp:150`) |
| `claim_sigint` | CTRL-C stops the example, whose main thread waits for it (`gpgga_example.cpp:223` and `225-229`) | a handler that runs between the check and the blocking of `main()` is missed (`gpgga_example.cpp:72`) |
| `claim_verified` | the expression makes further checks needless (`EasyNmeaCoder.hpp:208-211`), and its angles end with 90 and 180 (51 and 53) | a latitude of 90.0, or digits no int can hold, throw out of a noexcept function; a longitude of 180.0 is read as 1 degree and 80 minutes, 2.33 degrees |

Others were met while modelling and have no run: once the routine has stopped, `wait_for_data()` returns OK for a sample
of any kind and not only of those in the mask (`EasyNmeaImpl.cpp:172`, `EasyNmea.hpp:130-131`); the mask is documented as an output too
(`EasyNmea.hpp:122-125`) and is passed by value; `is_set(NMEA0183DataKind::INVALID)` holds of every mask, as that value
has no bit (`Bitmask.hpp:111-112`); a carriage return is dropped anywhere in a line and not only at its
end (`SerialInterface.hpp:120` and `148`); minutes of 60 pass the expression, so that a latitude may exceed 90
degrees (`EasyNmeaCoder.hpp:51`); a fix of 0 gives a sample, although samples are said to need a fix
(`docs/rst/nmea_data_types/nmea_data_types.rst:16`); a timestamp is said to have milliseconds (`data.hpp:115`) and a `float` keeps 1/64 s of
it from 13:11 on (`EasyNmeaCoder.hpp:212`); a count of satellites or a station above 65535 is reduced
modulo 65536 (`EasyNmeaCoder.hpp:226` and `238`); `open()` may erase the `internal_error_` of the thread it has just started
(`EasyNmeaImpl.cpp:82`).

## 4. What is proved

`EasyNmeaImplProofs` proves, for any number of clients, any capacity, any masks, any faults and any bounds, from the
assumptions named in `EasyNmeaImpl` (the read thread and "no owner" are not clients; the capacity is not zero; a mask is
a set of the bits there are, GPGGA's among them):

| Theorem | States |
|---|---|
| `TypeCorrect` | `TypeOK`, with the capacity of the queue |
| `DataBitCorrect` | `DataBitMatchesQueue` |
| `QueueCorrect` | `QueueIsWindow` |
| `EverySampleTakenOnce` | `NoSampleTakenTwice`, an action property |
| `NoLostWakeup` | `NoLostDataWakeup` |
| `ClosedIsQuiet` | `ClosedMeansQuiet` |
| `ReaderJoined` | `NoReaderOutlivesObject` |
| `OpenIsReading` | `OpenMeansReading` |
| `ReceiverImplemented` | `ImplementsReceiver`: every behaviour of `EasyNmeaImpl` is one of `NmeaReceiver` under the mapping above |
| `ChecksumNoticesDamage` (`NmeaChecksumProofs`) | the loop of `validate_checksum_()` over a body that was received ends with the checksum of the body that was sent if, and only if, they are equal, for one character replaced or lost |
| `LinesCorrect`, `SerialTypeCorrect` (`SerialInterfaceProofs`) | `LinesAreTheStream` and `TypeOK` of `SerialInterface`, for any characters and any length of session |
| `AcceptedCorrect` (`NmeaLinkProofs`) | `AcceptedWasSent`, for any alphabet, code, digits, bodies and length of session |
| `NoiseStaysLocal` (`NmeaLinkProofs`) | `NoiseIsLocal`, for the same |
| `LinkReadsLines` (`NmeaLinkProofs`) | every behaviour of `NmeaLink` is one of `SerialInterface` |
| `TimestampsOrdered` (`EasyNmeaCoderProofs`) | `TimestampsKeepOrder`, an action property, for every two times of a minute to the millisecond |
| `OptionalFieldsCorrect` (`EasyNmeaCoderProofs`) | `OptionalFieldsAreTheSentences`, for all five forms of the end of a sentence and any numbers |
| `PositionCorrect` (`EasyNmeaCoderProofs`) | `PositionIsTheSentences`, for every angle of up to `MostDigits` digits and its float |
| `EqualityCorrect` (`EasyNmeaCoderProofs`) | `EqualSamplesSaidTheSame`, an action property, for any two sentences |
| `ExitCodeCorrect` (`GpggaExampleProofs`) | `ExitCodeIsRight`, when `main()` returns after it tried to open a port, for any command lines, with or without a log that can fail, and whatever the library answers |
| `ExampleUsesLibrary` (`GpggaExampleProofs`) | every behaviour of `GpggaExample` is one of `EasyNmeaImpl`: the theorems about the library hold inside the program |
| `ExampleSurvives` (`GpggaExampleProofs`) | `OnlyTwoFaultsKill`, for any faults |
| `FailureIsComplete` (`GpggaExampleProofs`) | `FailureLosesNothing` |
| `AppTypeCorrect` (`GpggaExampleProofs`) | `AppTypeOK` |

The argument about `EasyNmeaImpl`. None of these invariants is inductive.

- *Samples* (`DataInv`). `DataLockInv` ties the owner of `data_mutex_` to the place its owner is at: two clients cannot be at
  `take_update`, nor one there and the reader at `set`. `BitInv` then says what each holder of the lock knows: at `take_update` the
  bit is still set, at `set` the queue is not empty, and when nobody holds the lock the two agree. `QueueIsWindow` is
  inductive with the types; `TakenInv` adds that what was taken is older than what is queued, which a push that drops
  the front preserves because it drops the oldest. `HandleInv` (no thread, no handle) excludes that `open()` starts a
  second reader inside the critical section.
- *Waiters* (`WakeInv`). A client at `wait_block` holds `data_mutex_` and saw no data it wants, and the bit is only set
  under that mutex; so it can be blocked next to data only while the reader is about to notify.
- *The read thread* (`ThreadInv`). `PortLockInv` ties `mutex_` to the critical sections of `open()` and `close()`. `PortInv` says
  that a reader which can still deliver has an open port or is about to be joined, and that `open()` never starts
  one next to such a reader. `DestroyInv` says that the destructor is alone and, at each point after its `close()`,
  whether a thread is left.

- *Open ports* (`RunInv`). An open port is being made by `open()`, was left by an `open()` that failed, or is served by a
  thread nobody has told to stop; each step of `close()` and of the end of the routine takes one of these away in order.
- *The refinement* (`ReceiverInv`, all of the above and that waits only happen on an object that is alive). Initial states
  map to initial states. For each action of the client and of the read thread, `ClientRefines` and `ReaderRefines` show the
  step of `NmeaReceiver` it maps to: a take at `TakeNext`, an arrival at `PushSample`, an answer where a wait returns, a change
  of the link where the flag or the read thread changes, and a stutter everywhere else. `DataInv` gives that the queue
  is what the taker saw; `ThreadInv` and `RunInv` that the link only moves on.

The argument about the checksum (`DamageInv`). The device's sum and that of the code run side by side. Before the
damaged character they are equal; afterwards their difference is the code of the character that was lost, or the exclusive or of the two
codes, whatever comes after. Codes differ and none is zero (`CodeAssumption`, true of ASCII), so neither is empty. This is
an invariant of steps and needs no induction over the body.

The argument about lines. `LinesAreTheStream` is inductive once a line that was given up is known not to be read on
(`ReadingInv`). Each character read appends one piece to a flattened sequence; `FlattenAppend` (`Induction`) says that
flattening commutes with that. `FlattenSeq` and the recursive functions of the models are computed by one step function
each; that such a function exists and is unique is proved by induction over a *set* of numbers (`SetInduction`, from the
well-foundedness of the naturals), since the theorem of the library that takes a predicate cannot be instantiated here.

The argument about links (`LinkInv`). What makes a damaged sentence harmless is not one property of the line being read
but five, and `StageInv` says at every moment which of them it has: it already has a form no sentence has (`Hopeless`);
it is the sentence so far (`Intact`); it came through up to its star, so that whatever follows cannot change the body
(`Marked`); it is all of the last sentence, whose line feed was lost (`LeftOver`); or it is `Garbled`, which keeps what
will betray it: a sum that differs from the device's (`WrongBody`, then `WrongText`), a star before the end of the body, no
star at all, or no beginning. Each class is shown to pass into another with each character the device can make it hear, by
the lemmas `...Grows`, and to be refused or to give a body that was said when a line feed ends it. With the class goes how much
of what was said accounts for what is accepted and for the line that waits (`Accounted`): a `Garbled` line is worth
nothing, an `Intact` one is worth the sentence being sent, a `LeftOver` one the one before. That this count only grows is why
nothing is accepted twice. `SumInv` ties the loop to `BitsOf`; `TurnInv` says that one line at most waits. For
`NoiseStaysLocal`, `FreshInv` adds that a sentence which began a line and is not damaged is `Intact`, so that its line, once it is
there, has its form and its sum. The assumptions: the alphabet has no `$` or `*` in bodies; codes differ and none is
zero; and two digits can write any sum (`DigitsAssumption`: ASCII has seven bits, two hexadecimal digits eight).

The arguments about the decoder. A timestamp is hhmmss.ms rounded to 24 bits. `NearestOrder` says that rounding keeps the order
of any two numbers: one with fewer places is never the smaller (`PlacesOrder`), and with the same places the quotients are in
order. A time of a day has at least six places (`DayPlaces`), so that 16 ms are more than a unit and rounding cannot make two such
times one (`DayApart`). The end of a sentence has one of five forms (`TailForms`); `SplitForms` computes what `split_()` makes of each,
and `OptionalRead` what the code reads from the components.

An angle is cut at its dot (`SplitAtDot`, `PartsOf`) and its minutes are below 61 (`LatitudeIs`, `LongitudeIs`: the other forms
the expression lets through are those of degrees alone, of which 90.0 throws and 180.0 is excluded). With *T* the power of ten
of their places, `SumOf` bounds the error of the three roundings: the float is within 124/120 of a unit of the angle
(`Converted`), and within 61/120 in the largest binade, from 128 degrees on, where the sum has the fewest places. `ReadOf` makes
that one unit of the nearest number. The same bound gives `Near`: two angles with one float differ by at most 122/120 of that
unit, or 248/120 of the next smaller one, and both are less than a thousandth of a minute (`ThousandthApart`). For the other fields,
`NearestTenths` says that up to seven digits tenths have floats of their own, and `UpdateApart` that no value is read as the
default of -1. In the other direction, zeros after the minutes multiply a fraction's two terms by the same power, which
changes no float (`SameDegrees`, `NearestScaled`).

The arguments about the example. `CallsInv` says in which call of the library each of the two threads can be, given where it
stands in its own code; with it the theorems about the library (`TypeOK`, `DataInv`, `ThreadInv`, `RunInv`, lifted by
`ExampleUsesLibrary`) speak of the program. `OnceInv` says that `main()` opens the port once and that after its `close()` no
thread delivers: that is why the destructor neither joins a thread that is gone nor destroys one that runs.
The two faults that kill are not hypotheses but cases of `OnlyTwoFaultsKill`, which says where each of
them can strike: a refused baudrate leaves an open port without a thread, so `main()` must have given up; `decode()` runs
in the read thread, so it must be there. `FailInv` says that a wait of the
working thread for the samples it takes answers ERROR, while `main()` serves, only when the queue is empty and nothing can
fill it; it needs that the masks the program uses are GPGGA's alone (`MaskAssumption`, `gpgga_example.cpp:125`).

The argument about the exit code (`ExitInv`). `ExitCodeIsRight` only speaks of a program that ended. `ExitInv` says at every place of
`main()` what the working thread has done to the code by then: it is not there before `open()` returned, a failure to log has
stored 1 as long as the thread stands at `log_failed`, and `main()` is past `join()` only after it ended. A notification
moves `main()` only between states of its wait (`NotifiedRuns`), so neither the handler nor the thread can take it past `join()`.
What the library does changes none of these variables, so nothing about `EasyNmeaImpl` is needed.

TLC checked the inductive invariants on the instances of the runs before they were proved. Every lemma named `...Step` has
one step per action; in `NmeaLinkProofs`, where `StageInv` has five cases per action, one lemma named `...Keeps` each.

What stays with TLC: liveness (`CallsReturn`, `DataWakesWaiter`, `WaitReturns`, `ExampleReturns`), because the proof system has no
reasoning about fairness and ENABLED; and the violated claims, which are about one behaviour each. Every other invariant and action property of the passing runs is proved.

## 5. What is not modelled

Printing and the contents of the log; asio (its calls are atomic and may fail); the letters and digits of the expression
that any field has; numbers longer than the bounds of `EasyNmeaCoder`; `ReturnCode`, whose values are their names here and
whose comparisons are equality; the snippet of the documentation (`docs/rst/snippets/snippets.cpp`), whose calls are a
part of those of the example; the unit tests, the Python harness, packaging and documentation.

## 6. Plan

1. *(done)* `EasyNmeaImpl` with `FixedSizeQueue` and `Bitmask`, safety, faults, liveness; theorems about samples, waiters
   and the read thread.
2. *(done)* `NmeaReceiver` and the refinement, checked and proved.
3. *(done)* `GpggaExample` composed with the library, with arguments, exit codes and the variant that logs.
4. *(done)* `SerialInterface`, `NmeaChecksum` and `NmeaLink`; the theorem about the checksum. `EasyNmeaCoder` with every field.
5. *(done)* Theorems about the lines, the links, the decoder, and the example on top of the library.
6. End to end: the samples of `EasyNmeaImpl` are numbered in the order they arrive; composing it with `NmeaLink` would say
   that what a client takes is what the device said, from `AcceptedCorrect` and `EverySampleTakenOnce`.
7. The calls on the asio port that run concurrently, as separate steps.

## 7. Running

    tlc -config core_safety.cfg MCEasyNmeaImpl
    tlapm EasyNmeaImplProofs.tla
    tlapm GpggaExampleProofs.tla
    tlapm SerialInterfaceProofs.tla
    tlapm NmeaChecksumProofs.tla
    tlapm NmeaLinkProofs.tla
    tlapm FloatProofs.tla
    tlapm EasyNmeaCoderProofs.tla
    tlapm Induction.tla

`PROJECT.json` lists every run with its module and configuration, the mutants, and the lines of code behind each
definition.
