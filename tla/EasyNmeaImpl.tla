---------------------------- MODULE EasyNmeaImpl ----------------------------
(***************************************************************************)
(* EasyNmeaImpl: the object behind the public class EasyNmea.  Application *)
(* threads (Clients) call open(), close(), take_next(), wait_for_data()    *)
(* and, at the end, the destructor; open() spawns a read thread that loops *)
(* in read_routine_() and feeds the queue of decoded GPGGA samples.        *)
(*                                                                         *)
(* One action is one stretch of code between two points where another      *)
(* thread can be told apart: a lock, an atomic flag, a call into the       *)
(* serial port, a condition variable, a join.  A lock() followed by reads  *)
(* of what the lock protects is one action.  pc[t] and reader name the     *)
(* next action of a client and of the read thread.                         *)
(*                                                                         *)
(* The serial port (asio::serial_port) and the device behind it are        *)
(* external: serial_open is serial_->is_open(), its operations succeed or  *)
(* fail as the environment likes, the kinds of failure being limited to    *)
(* Faults, as are sentences that decode() dies of.  A close() that reports an error leaves the port closed         *)
(* nonetheless, as asio does and as the unit tests of close() expect.      *)
(***************************************************************************)
EXTENDS Naturals, Sequences, FiniteSets

CONSTANTS
    Clients,     \* application threads that share one EasyNmea object
    Reader,      \* the read thread, as an owner of data_mutex_
    NoOwner,     \* the owner of a mutex nobody holds
    QueueSize,   \* capacity of gpgga_data_queue_ (10 in the code)
    AllBits,     \* the bits of a NMEA0183DataKindMask
    Masks,       \* the masks an application may pass to wait_for_data()
    Faults,      \* what the serial port may refuse to do, and "sentence"
    MaxCalls,    \* bound: API calls the applications make in a behaviour
    MaxSamples   \* bound: GPGGA sentences the device sends in a behaviour

\* The bit of NMEA0183DataKind::GPGGA, the only supported kind.
GPGGA == "GPGGA"
AllFaults == {"open", "set_option", "read", "close", "sentence"}

ASSUME ClientsAssumption == Reader \notin Clients /\ NoOwner \notin Clients \cup {Reader}
ASSUME SizeAssumption == QueueSize \in Nat \ {0}
ASSUME MasksAssumption ==
    GPGGA \in AllBits /\ Masks \subseteq SUBSET AllBits /\ NoOwner \notin Masks \cup {{}}
ASSUME FaultsAssumption == Faults \subseteq AllFaults
ASSUME BoundsAssumption == MaxCalls \in Nat /\ MaxSamples \in Nat

Queue == INSTANCE FixedSizeQueue WITH max_size <- QueueSize
Mask == INSTANCE Bitmask WITH Bits <- AllBits

VARIABLES
    \* the members of EasyNmeaImpl
    mutex_, data_mutex_, routine_running_, internal_error_, data_received_,
    gpgga_data_queue_,
    read_thread_,   \* whether the unique_ptr to the std::thread is non-null
    \* the serial port
    serial_open,
    \* control: client threads, the read thread, the object's lifetime
    pc, reader, life,
    crash,          \* why the process died, "none" while it lives
    \* what a client holds: its wait mask, its last result and sample
    data_mask, ret, gpgga,
    calls, produced \* counters behind the two bounds

data_vars == <<data_received_, gpgga_data_queue_, produced>>
thread_vars == <<reader, read_thread_, routine_running_, internal_error_>>
client_vars == <<data_mask, ret, gpgga, calls>>
vars == <<mutex_, data_mutex_, data_vars, thread_vars, client_vars,
          serial_open, pc, life, crash>>

-----------------------------------------------------------------------------
OpenSteps == {"open_port", "spawn", "clear_error"}
CloseSteps == {"stop", "close_port", "join", "close_notify"}
WaitSteps == {"wait_lock", "wait_block", "blocked", "wait_timeout"}
DestroySteps == {"dtor_close", "dtor_join"}
ClientSteps == {"idle", "take_update"} \cup OpenSteps \cup CloseSteps \cup WaitSteps \cup DestroySteps

ReaderSteps == {"none", "loop", "is_open", "read_char", "run", "rl_close", "push", "set",
                "notify", "stop", "error", "notify_stop", "exited"}
ReturnCodes == {"OK", "NO_DATA", "TIMEOUT", "ILLEGAL_OPERATION", "ERROR"}
Crashes == {"none", "terminate", "null_join", "data_race", "decode"}

TypeOK ==
    /\ mutex_ \in Clients \cup {NoOwner}
    /\ data_mutex_ \in Clients \cup {Reader, NoOwner}
    /\ routine_running_ \in BOOLEAN /\ internal_error_ \in BOOLEAN
    /\ read_thread_ \in BOOLEAN /\ serial_open \in BOOLEAN
    /\ data_received_ \in SUBSET {GPGGA}
    /\ produced \in Nat /\ calls \in Nat
    /\ gpgga_data_queue_ \in Seq(Nat) /\ Len(gpgga_data_queue_) <= QueueSize
    /\ pc \in [Clients -> ClientSteps]
    /\ reader \in ReaderSteps
    /\ life \in {"alive", "destroying", "destroyed"}
    /\ crash \in Crashes
    /\ data_mask \in [Clients -> Masks \cup {Mask!None}]
    /\ ret \in [Clients -> ReturnCodes]
    /\ gpgga \in [Clients -> Nat]

Init ==
    /\ mutex_ = NoOwner /\ data_mutex_ = NoOwner
    /\ routine_running_ = FALSE /\ internal_error_ = FALSE
    /\ data_received_ = Mask!None /\ gpgga_data_queue_ = <<>>
    /\ read_thread_ = FALSE /\ reader = "none"
    /\ serial_open = FALSE
    /\ pc = [t \in Clients |-> "idle"]
    /\ life = "alive" /\ crash = "none"
    /\ data_mask = [t \in Clients |-> Mask!None]
    /\ ret = [t \in Clients |-> "OK"]
    /\ gpgga = [t \in Clients |-> 0]
    /\ calls = 0 /\ produced = 0

-----------------------------------------------------------------------------
(* Helpers *)

\* Nobody does anything in a process that is dead.
At(t, step) == crash = "none" /\ pc[t] = step
ReaderAt(step) == crash = "none" /\ reader = step

Goto(t, step) == pc' = [pc EXCEPT ![t] = step]
Return(t, code) == Goto(t, "idle") /\ ret' = [ret EXCEPT ![t] = code]

\* A client starts a call: the bound on calls is the only extra guard.
Call(t) ==
    /\ At(t, "idle") /\ life = "alive"
    /\ calls < MaxCalls /\ calls' = calls + 1

\* cv_.notify_all(): every blocked waiter goes for data_mutex_ again.
NobodyNotified(steps) == steps
NotifyAll(steps) == [t \in Clients |-> IF steps[t] = "blocked" THEN "wait_lock" ELSE steps[t]]

-----------------------------------------------------------------------------
(* open() *)

\* Under mutex_: an open interface is refused, otherwise mutex_ is kept.
OpenCall(t) ==
    /\ Call(t) /\ mutex_ = NoOwner
    /\ \/ /\ serial_open
          /\ Return(t, "ILLEGAL_OPERATION") /\ UNCHANGED mutex_
       \/ /\ ~serial_open
          /\ mutex_' = t /\ Goto(t, "open_port") /\ UNCHANGED ret
    /\ UNCHANGED <<data_mutex_, data_vars, thread_vars, data_mask, gpgga,
                   serial_open, life, crash>>

\* SerialInterface::open(): the port is opened, then its baudrate is set.
\* When that second half fails nothing closes the port again.
OpenPort(t) ==
    /\ At(t, "open_port")
    /\ \/ /\ serial_open' = TRUE /\ Goto(t, "spawn")
          /\ UNCHANGED <<mutex_, internal_error_, ret>>
       \/ /\ \/ "open" \in Faults /\ UNCHANGED serial_open
             \/ "set_option" \in Faults /\ serial_open' = TRUE
          /\ internal_error_' = TRUE
          /\ mutex_' = NoOwner /\ Return(t, "ERROR")
    /\ UNCHANGED <<data_mutex_, data_vars, reader, read_thread_, routine_running_,
                   data_mask, gpgga, calls, life, crash>>

\* read_thread_.reset(new std::thread(...)).  Resetting over a std::thread
\* that was never joined runs its destructor, which calls std::terminate().
OpenSpawn(t) ==
    /\ At(t, "spawn")
    /\ routine_running_' = TRUE
    /\ \/ /\ ~read_thread_
          /\ read_thread_' = TRUE /\ reader' = "loop"
          /\ Goto(t, "clear_error") /\ UNCHANGED crash
       \/ /\ read_thread_
          /\ crash' = "terminate" /\ UNCHANGED <<read_thread_, reader, pc>>
    /\ UNCHANGED <<mutex_, data_mutex_, data_vars, internal_error_, client_vars,
                   serial_open, life>>

OpenReturn(t) ==
    /\ At(t, "clear_error")
    /\ internal_error_' = FALSE
    /\ mutex_' = NoOwner /\ Return(t, "OK")
    /\ UNCHANGED <<data_mutex_, data_vars, reader, read_thread_, routine_running_,
                   data_mask, gpgga, calls, serial_open, life, crash>>

-----------------------------------------------------------------------------
(* close(), called by an application or by the destructor *)

AfterClose == IF life = "alive" THEN "idle" ELSE "dtor_join"

StartClose(t) == Call(t) \/ (At(t, "dtor_close") /\ UNCHANGED calls)

CloseCall(t) ==
    /\ StartClose(t) /\ mutex_ = NoOwner
    /\ \/ /\ serial_open
          /\ mutex_' = t /\ Goto(t, "stop") /\ UNCHANGED ret
       \/ /\ ~serial_open
          /\ Goto(t, AfterClose) /\ ret' = [ret EXCEPT ![t] = "ILLEGAL_OPERATION"]
          /\ UNCHANGED mutex_
    /\ UNCHANGED <<data_mutex_, data_vars, thread_vars, data_mask, gpgga,
                   serial_open, life, crash>>

CloseStop(t) ==
    /\ At(t, "stop")
    /\ routine_running_' = FALSE /\ Goto(t, "close_port")
    /\ UNCHANGED <<mutex_, data_mutex_, data_vars, reader, read_thread_, internal_error_,
                   client_vars, serial_open, life, crash>>

CloseLeavesPort(t) ==
    /\ At(t, "close_port")
    /\ ret' = [ret EXCEPT ![t] = "OK"] /\ Goto(t, "join")
    /\ UNCHANGED <<mutex_, data_mutex_, data_vars, thread_vars, data_mask, gpgga, calls,
                   serial_open, life, crash>>

\* SerialInterface::close(): a port the reader closed meanwhile counts as OK.
ClosePort(t) ==
    /\ At(t, "close_port")
    /\ \/ ret' = [ret EXCEPT ![t] = "OK"]
       \/ "close" \in Faults /\ serial_open /\ ret' = [ret EXCEPT ![t] = "ERROR"]
    /\ serial_open' = FALSE /\ Goto(t, "join")
    /\ UNCHANGED <<mutex_, data_mutex_, data_vars, thread_vars, data_mask, gpgga, calls,
                   life, crash>>

JoinDetaches(t) ==
    /\ At(t, "join")
    /\ mutex_' = NoOwner /\ Goto(t, "close_notify")
    /\ UNCHANGED <<data_mutex_, data_vars, thread_vars, client_vars, serial_open, life, crash>>

\* read_thread_->join() blocks until the read thread has ended; through a
\* null read_thread_ it is undefined, in practice a crash.
CloseJoin(t) ==
    /\ At(t, "join")
    /\ \/ /\ read_thread_ /\ reader = "exited"
          /\ read_thread_' = FALSE /\ reader' = "none"
          /\ mutex_' = NoOwner /\ Goto(t, "close_notify") /\ UNCHANGED crash
       \/ /\ ~read_thread_
          /\ crash' = "null_join" /\ UNCHANGED <<read_thread_, reader, mutex_, pc>>
    /\ UNCHANGED <<data_mutex_, data_vars, routine_running_, internal_error_, client_vars,
                   serial_open, life>>

CloseNotify(t) ==
    /\ At(t, "close_notify")
    /\ pc' = [NotifyAll(pc) EXCEPT ![t] = AfterClose]
    /\ UNCHANGED <<mutex_, data_mutex_, data_vars, thread_vars, client_vars,
                   serial_open, life, crash>>

-----------------------------------------------------------------------------
(* take_next() *)

TakeNextCopies(t) ==
    /\ Call(t) /\ data_mutex_ = NoOwner
    /\ \/ /\ gpgga_data_queue_ # <<>>
          /\ gpgga' = [gpgga EXCEPT ![t] = Head(gpgga_data_queue_)]
          /\ Return(t, "OK")
       \/ gpgga_data_queue_ = <<>> /\ Return(t, "NO_DATA") /\ UNCHANGED gpgga
    /\ UNCHANGED <<mutex_, data_mutex_, data_vars, thread_vars, data_mask, serial_open, life, crash>>

\* Under data_mutex_: the front sample is copied out and popped.
TakeNext(t) ==
    /\ Call(t) /\ data_mutex_ = NoOwner
    /\ \/ /\ gpgga_data_queue_ # <<>>
          /\ gpgga' = [gpgga EXCEPT ![t] = Head(gpgga_data_queue_)]
          /\ gpgga_data_queue_' = Tail(gpgga_data_queue_)
          /\ data_mutex_' = t /\ Goto(t, "take_update") /\ UNCHANGED ret
       \/ /\ gpgga_data_queue_ = <<>>
          /\ Return(t, "NO_DATA")
          /\ UNCHANGED <<gpgga, gpgga_data_queue_, data_mutex_>>
    /\ UNCHANGED <<mutex_, data_received_, produced, thread_vars, data_mask,
                   serial_open, life, crash>>

ClearAlways == Mask!Clear(data_received_, {GPGGA})

\* The bits of data_received_ a take leaves: none once the queue is empty.
StillReceived ==
    IF gpgga_data_queue_ = <<>> THEN Mask!Clear(data_received_, {GPGGA}) ELSE data_received_

TakeUpdate(t) ==
    /\ At(t, "take_update")
    /\ data_received_' = StillReceived
    /\ data_mutex_' = NoOwner /\ Return(t, "OK")
    /\ UNCHANGED <<mutex_, gpgga_data_queue_, produced, thread_vars, data_mask, gpgga, calls,
                   serial_open, life, crash>>

-----------------------------------------------------------------------------
(* wait_for_data() *)

\* is_open() takes and releases mutex_; the mask is passed by value.
WaitCall(t) ==
    /\ Call(t) /\ mutex_ = NoOwner
    /\ \/ /\ serial_open
          /\ \E mask \in Masks : data_mask' = [data_mask EXCEPT ![t] = mask]
          /\ Goto(t, "wait_lock") /\ UNCHANGED ret
       \/ /\ ~serial_open
          /\ Return(t, "ILLEGAL_OPERATION") /\ UNCHANGED data_mask
    /\ UNCHANGED <<mutex_, data_mutex_, data_vars, thread_vars, gpgga,
                   serial_open, life, crash>>

\* The predicate given to cv_.wait_for().
WaitPredicate(t) ==
    \/ ~routine_running_
    \/ Mask!IsSet(data_mask[t], {GPGGA}) /\ Mask!IsSet(data_received_, {GPGGA})

ErrorFirst(t) == IF ~routine_running_ THEN "ERROR" ELSE "OK"

\* The result once the predicate held: data first, and only then the error.
WaitVerdict(t) ==
    IF ~Mask!IsNone(data_mask[t]) /\ ~Mask!IsNone(data_received_) THEN "OK" ELSE "ERROR"

WaitReturn(t, code) ==
    /\ Return(t, code)
    /\ data_mask' = [data_mask EXCEPT ![t] = Mask!None]
    /\ UNCHANGED data_mutex_

WaitCheck(t) ==
    /\ At(t, "wait_lock") /\ data_mutex_ = NoOwner
    /\ \/ WaitPredicate(t) /\ WaitReturn(t, WaitVerdict(t))
       \/ /\ ~WaitPredicate(t)
          /\ data_mutex_' = t /\ Goto(t, "wait_block") /\ UNCHANGED <<data_mask, ret>>
    /\ UNCHANGED <<mutex_, data_vars, thread_vars, gpgga, calls, serial_open, life, crash>>

\* cv_.wait_until() releases data_mutex_ and blocks in one step.
WaitBlock(t) ==
    /\ At(t, "wait_block")
    /\ data_mutex_' = NoOwner /\ Goto(t, "blocked")
    /\ UNCHANGED <<mutex_, data_vars, thread_vars, client_vars, serial_open, life, crash>>

SpuriousWakeup(t) ==
    /\ At(t, "blocked") /\ Goto(t, "wait_lock")
    /\ UNCHANGED <<mutex_, data_mutex_, data_vars, thread_vars, client_vars,
                   serial_open, life, crash>>

WaitTimeout(t) ==
    /\ At(t, "blocked") /\ Goto(t, "wait_timeout")
    /\ UNCHANGED <<mutex_, data_mutex_, data_vars, thread_vars, client_vars,
                   serial_open, life, crash>>

WaitRestarts(t) ==
    /\ At(t, "wait_timeout") /\ Goto(t, "wait_lock")
    /\ UNCHANGED <<mutex_, data_mutex_, data_vars, thread_vars, client_vars,
                   serial_open, life, crash>>

\* wait_for() evaluates the predicate once more after its deadline.
WaitExpired(t) ==
    /\ At(t, "wait_timeout") /\ data_mutex_ = NoOwner
    /\ WaitReturn(t, IF WaitPredicate(t) THEN WaitVerdict(t) ELSE "TIMEOUT")
    /\ UNCHANGED <<mutex_, data_vars, thread_vars, gpgga, calls, serial_open, life, crash>>

-----------------------------------------------------------------------------
(* ~EasyNmeaImpl(): one client destroys the object, no other is using it *)

\* gpgga_data_queue_.clear() without data_mutex_: if the read thread is in
\* its critical section this is a data race, whose outcome may be a crash.
Destroy(t) ==
    /\ life = "alive" /\ \A u \in Clients : At(u, "idle")
    /\ life' = "destroying" /\ Goto(t, "dtor_close")
    /\ gpgga_data_queue_' = Queue!Clear(gpgga_data_queue_)
    /\ \/ UNCHANGED crash
       \/ data_mutex_ = Reader /\ crash' = "data_race"
    /\ UNCHANGED <<mutex_, data_mutex_, data_received_, produced, thread_vars, client_vars,
                   serial_open>>

DestroyWithoutJoin(t) ==
    /\ At(t, "dtor_join")
    /\ life' = "destroyed" /\ serial_open' = FALSE /\ Goto(t, "idle")
    /\ UNCHANGED <<mutex_, data_mutex_, data_vars, thread_vars, client_vars, crash>>

\* If close() did not close anything, a read thread may still be there to
\* be joined; then the serial interface is deleted.
DestroyJoin(t) ==
    /\ At(t, "dtor_join")
    /\ \/ /\ ret[t] # "OK" /\ read_thread_ /\ reader = "exited"
          /\ reader' = "none" /\ read_thread_' = FALSE
       \/ (ret[t] = "OK" \/ ~read_thread_) /\ UNCHANGED <<reader, read_thread_>>
    /\ life' = "destroyed" /\ serial_open' = FALSE /\ Goto(t, "idle")
    /\ UNCHANGED <<mutex_, data_mutex_, data_vars, routine_running_, internal_error_,
                   client_vars, crash>>

-----------------------------------------------------------------------------
(* read_routine_(): the loop of the read thread *)

ReadLoop ==
    /\ ReaderAt("loop")
    /\ reader' = IF routine_running_ THEN "is_open" ELSE "exited"
    /\ UNCHANGED <<mutex_, data_mutex_, data_vars, read_thread_, routine_running_,
                   internal_error_, client_vars, serial_open, pc, life, crash>>

\* A step of the read thread that only moves its control.
ReaderGoto(from, to) ==
    /\ ReaderAt(from) /\ reader' = to
    /\ UNCHANGED <<mutex_, data_mutex_, data_vars, read_thread_, routine_running_,
                   internal_error_, client_vars, serial_open, pc, life, crash>>

\* SerialInterface::read_line(): is_open(), then one asynchronous read per
\* character.  A port closed before the read starts fails it with a bad
\* descriptor, which read_line() takes for an error.
ReadLineIsOpen == ReaderGoto("is_open", IF serial_open THEN "read_char" ELSE "stop")
StartRead == ReaderGoto("read_char", IF serial_open THEN "run" ELSE "rl_close")

\* What the device may do to the read in flight: a character that does not
\* end a line, a line that does not decode to a GPGGA sample, a line that
\* does, an error.
ReadChar == ReaderGoto("run", "read_char")
ReadOtherLine == ReaderGoto("run", "loop")
ReadGpggaLine == produced < MaxSamples /\ ReaderGoto("run", "push")
ReadError == "read" \in Faults /\ ReaderGoto("run", "rl_close")

\* A sentence that passes the expression and makes std::stof() throw out of
\* decode(), which is noexcept: Throws in EasyNmeaCoder.
DecodeThrows ==
    /\ "sentence" \in Faults /\ ReaderAt("run") /\ crash' = "decode"
    /\ UNCHANGED <<mutex_, data_mutex_, data_vars, thread_vars, client_vars, serial_open, pc, life>>

\* Closing the port aborts the read in flight.
ReadAborted == ~serial_open /\ ReaderGoto("run", "stop")

ReadCloseForgotten ==
    /\ ReaderAt("rl_close") /\ reader' = "stop"
    /\ UNCHANGED <<mutex_, data_mutex_, data_vars, read_thread_, routine_running_,
                   internal_error_, client_vars, serial_open, pc, life, crash>>

\* read_line() itself closes the port after an error, under no lock.
ReadClose ==
    /\ ReaderAt("rl_close") /\ reader' = "stop"
    /\ serial_open' = FALSE
    /\ UNCHANGED <<mutex_, data_mutex_, data_vars, read_thread_, routine_running_,
                   internal_error_, client_vars, pc, life, crash>>

\* process_line_() under data_mutex_: samples are numbered as they arrive.
PushSample ==
    /\ ReaderAt("push") /\ data_mutex_ = NoOwner
    /\ data_mutex_' = Reader /\ reader' = "set"
    /\ gpgga_data_queue_' = Queue!Push(gpgga_data_queue_, produced + 1)
    /\ produced' = produced + 1
    /\ UNCHANGED <<mutex_, data_received_, read_thread_, routine_running_, internal_error_,
                   client_vars, serial_open, pc, life, crash>>

SetReceived ==
    /\ ReaderAt("set") /\ reader' = "notify"
    /\ data_received_' = Mask!Set(data_received_, {GPGGA})
    /\ data_mutex_' = NoOwner
    /\ UNCHANGED <<mutex_, gpgga_data_queue_, produced, read_thread_, routine_running_,
                   internal_error_, client_vars, serial_open, pc, life, crash>>

\* cv_.notify_all() for a sample and, later, for the end of the routine.
NotifyAndGoto(from, to) ==
    /\ ReaderAt(from) /\ reader' = to
    /\ pc' = NotifyAll(pc)
    /\ UNCHANGED <<mutex_, data_mutex_, data_vars, read_thread_, routine_running_,
                   internal_error_, client_vars, serial_open, life, crash>>

NotifySample == NotifyAndGoto("notify", "loop")
NotifyStop == NotifyAndGoto("notify_stop", "loop")

StopRoutine ==
    /\ ReaderAt("stop") /\ reader' = "error"
    /\ routine_running_' = FALSE
    /\ UNCHANGED <<mutex_, data_mutex_, data_vars, read_thread_, internal_error_,
                   client_vars, serial_open, pc, life, crash>>

RaiseError ==
    /\ ReaderAt("error") /\ reader' = "notify_stop"
    /\ internal_error_' = TRUE
    /\ UNCHANGED <<mutex_, data_mutex_, data_vars, read_thread_, routine_running_,
                   client_vars, serial_open, pc, life, crash>>

-----------------------------------------------------------------------------
(* The system *)

ReaderInternal ==
    \/ ReadLoop \/ ReadLineIsOpen \/ StartRead \/ ReadAborted \/ ReadClose
    \/ PushSample \/ SetReceived \/ NotifySample
    \/ StopRoutine \/ RaiseError \/ NotifyStop
Device == ReadChar \/ ReadOtherLine \/ ReadGpggaLine \/ ReadError \/ DecodeThrows
ReaderNext == ReaderInternal \/ Device

\* The continuation of a call once it has begun.
Continue(t) ==
    \/ OpenPort(t) \/ OpenSpawn(t) \/ OpenReturn(t)
    \/ (At(t, "dtor_close") /\ CloseCall(t))
    \/ CloseStop(t) \/ ClosePort(t) \/ CloseJoin(t) \/ CloseNotify(t)
    \/ TakeUpdate(t)
    \/ WaitCheck(t) \/ WaitBlock(t) \/ WaitExpired(t)
    \/ DestroyJoin(t)

\* The beginning of one, by the application's choice.
Begin(t) ==
    \/ OpenCall(t) \/ (At(t, "idle") /\ CloseCall(t)) \/ TakeNext(t) \/ WaitCall(t)
    \/ Destroy(t)

ClientNext(t) == Begin(t) \/ Continue(t) \/ SpuriousWakeup(t) \/ WaitTimeout(t)

\* The process is dead or has no more use for the object.
Terminating ==
    /\ crash # "none" \/ life = "destroyed"
    /\ UNCHANGED vars

Next ==
    \/ ReaderNext
    \/ \E t \in Clients : ClientNext(t)
    \/ Terminating

Spec == Init /\ [][Next]_vars

\* The operating system schedules every thread that can run; nobody promises
\* that applications call, that the device sends or that a wait times out.
\* MaxCalls bounds how often a mutex is taken, so that weak fairness suffices
\* for a thread that waits for one.
Scheduling ==
    /\ WF_vars(ReaderInternal)
    /\ \A t \in Clients : WF_vars(Continue(t))

FairSpec == Spec /\ Scheduling

\* The timeouts of wait_for_data() are finite, and measured from the call.
Timers == \A t \in Clients : SF_vars(WaitTimeout(t))

-----------------------------------------------------------------------------
(* Properties *)

\* The bit that wait_for_data() looks at tells the truth about the queue that
\* take_next() looks at, whenever data_mutex_ is free (EasyNmeaImpl.cpp:131-135
\* and 191-193).  The destructor empties the queue alone, hence "alive".
DataBitMatchesQueue ==
    life = "alive" /\ data_mutex_ = NoOwner
        => (GPGGA \in data_received_ <=> gpgga_data_queue_ # <<>>)

\* The queue always holds the most recent samples the device sent that were
\* not taken, in their order and with no gap, however pushes that drop the
\* oldest one and takes interleave (EasyNmeaImpl.cpp:129-130 and 192).
QueueIsWindow ==
    \A i \in 1..Len(gpgga_data_queue_) :
        gpgga_data_queue_[i] = produced - Len(gpgga_data_queue_) + i

\* Two consumers never take the same sample, nor an older one than a sample
\* somebody has taken already (EasyNmeaImpl.cpp:126-130).
NoSampleTakenTwice ==
    [][\A t \in Clients : gpgga'[t] # gpgga[t] => \A u \in Clients : gpgga'[t] > gpgga[u]]_vars

\* No waiter stays blocked next to a sample it asked for: only between the
\* unlock and the notify_all() of process_line_() can it be seen there
\* (EasyNmeaImpl.cpp:159-163 and 191-195).
NoLostDataWakeup ==
    \A t \in Clients :
        pc[t] = "blocked" /\ data_mask[t] \cap data_received_ # {} => reader = "notify"

\* Where the read thread is in an iteration that can still deliver a sample.
Reading == {"is_open", "read_char", "run", "rl_close", "push", "set", "notify"}
Delivers == reader \in Reading \/ (reader = "loop" /\ routine_running_)

\* Once close() has returned, or once a caller sees a port that an error
\* closed, no sample enters the queue until somebody opens it again
\* (EasyNmeaImpl.cpp:111-114 and 217, SerialInterface.hpp:169).
ClosedMeansQuiet ==
    crash = "none" /\ mutex_ = NoOwner /\ ~serial_open => ~Delivers

\* The destructor leaves no read thread behind, running or not joined,
\* whatever the outcome of the close() it starts with (EasyNmeaImpl.cpp:54-61).
NoReaderOutlivesObject ==
    life = "destroyed" => reader = "none" /\ ~read_thread_

\* An open interface, as is_open() sees it, is one whose read thread is alive
\* and keeps reading, unless the open() before it failed half way and said so
\* (EasyNmeaImpl.cpp:77-91 and 111-115, SerialInterface.hpp:169).
OpenMeansReading ==
    crash = "none" /\ mutex_ = NoOwner /\ serial_open
        => internal_error_ \/ (read_thread_ /\ Delivers)

\* Every open(), close(), take_next() and destructor returns, even when the
\* device is silent: closing the port is what releases the read thread that
\* close() joins (EasyNmeaImpl.cpp:113-114).
CallsReturn ==
    \A t \in Clients : pc[t] \notin WaitSteps \cup {"idle"} ~> pc[t] = "idle" \/ crash # "none"

\* A waiter for which there is data returns or finds that another client took
\* the data, without help from its timeout (EasyNmeaImpl.cpp:159-163 and 195).
DataWakesWaiter ==
    \A t \in Clients :
        pc[t] \in WaitSteps /\ data_mask[t] \cap data_received_ # {}
            ~> pc[t] \notin WaitSteps \/ data_received_ = {} \/ crash # "none"

\* A wait is over once its timeout has passed, whatever wakes it up before
\* and finds nothing (EasyNmeaImpl.cpp:159).
WaitReturns ==
    Timers => \A t \in Clients : pc[t] \in WaitSteps ~> pc[t] \notin WaitSteps \/ crash # "none"

\* The flags and threads behind the connection of NmeaReceiver.
Link ==
    IF crash # "none" THEN "dead"
    ELSE IF routine_running_ THEN "up"
    ELSE IF Delivers THEN "draining"
    ELSE IF reader # "none" THEN "ended" ELSE "down"

Awaiting == [t \in Clients |-> IF pc[t] \in WaitSteps THEN data_mask[t] ELSE NoOwner]

Receiver == INSTANCE NmeaReceiver
    WITH NotWaiting <- NoOwner, Kind <- GPGGA, Capacity <- QueueSize,
         link <- Link, buffer <- gpgga_data_queue_, arrived <- produced,
         sample <- gpgga, awaiting <- Awaiting, answer <- ret

\* To its callers the object is an NmeaReceiver: every take and every result of
\* a wait is right at one instant, and samples only come from a connection
\* that has not ended, for every interleaving (EasyNmeaImpl.cpp:66-221).
ImplementsReceiver == Receiver!Spec
=============================================================================
