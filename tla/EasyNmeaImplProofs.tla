------------------------- MODULE EasyNmeaImplProofs -------------------------
(***************************************************************************)
(* Theorems about EasyNmeaImpl, for any number of clients, any queue size, *)
(* any set of faults and any bounds.  DataInv and ThreadInv are inductive  *)
(* next to TypeOK, WakeInv next to TypeOK and DataInv; the lemmas named    *)
(* ...Step show that each of their parts survives every step.              *)
(***************************************************************************)
EXTENDS EasyNmeaImpl, TLAPS

USE DEF Call, At, ReaderAt, Goto, Return, data_vars, thread_vars, client_vars,
        Mask!Set, Mask!Clear, Mask!IsSet, Mask!None, Mask!IsNone

-----------------------------------------------------------------------------
(* The queue and the notification *)

\* push() appends, and forgets the front when the queue was full
\* (FixedSizeQueue.hpp:66-75).
LEMMA PushProperties ==
    ASSUME NEW q \in Seq(Nat), Len(q) <= QueueSize, NEW value \in Nat,
           NEW p, p = Queue!Push(q, value)
    PROVE  /\ p \in Seq(Nat)
           /\ Len(p) = IF Len(q) = QueueSize THEN Len(q) ELSE Len(q) + 1
           /\ p[Len(p)] = value
           /\ \A i \in 1..(Len(p) - 1) : p[i] = q[i + (Len(q) + 1 - Len(p))]
<1>1. CASE Len(q) = QueueSize
  <2>1. q # <<>> BY <1>1, SizeAssumption
  <2>2. Tail(q) \in Seq(Nat) /\ Len(Tail(q)) = Len(q) - 1 BY <2>1
  <2>3. \A i \in 1..(Len(q) - 1) : Tail(q)[i] = q[i + 1] BY <2>1
  <2>4. p = Append(Tail(q), value) BY <1>1, SizeAssumption DEF Queue!Push
  <2>. QED BY <1>1, <2>2, <2>3, <2>4, SizeAssumption
<1>2. CASE Len(q) # QueueSize
  <2>1. p = Append(q, value) BY <1>2, SizeAssumption DEF Queue!Push
  <2>. QED BY <1>2, <2>1, SizeAssumption
<1>. QED BY <1>1, <1>2

\* notify_all() moves blocked waiters only.
LEMMA NotifyAllProperties ==
    ASSUME NEW steps \in [Clients -> ClientSteps]
    PROVE  /\ NotifyAll(steps) \in [Clients -> ClientSteps]
           /\ \A t \in Clients :
                 /\ steps[t] # "blocked" => NotifyAll(steps)[t] = steps[t]
                 /\ steps[t] = "blocked" => NotifyAll(steps)[t] = "wait_lock"
BY DEF NotifyAll, ClientSteps, WaitSteps

-----------------------------------------------------------------------------
(* Types *)

\* What a push of process_line_() does to the queue (EasyNmeaImpl.cpp:192).
LEMMA PushSampleProperties ==
    ASSUME TypeOK, PushSample
    PROVE  /\ gpgga_data_queue_' \in Seq(Nat)
           /\ Len(gpgga_data_queue_') \in 1..QueueSize
           /\ Len(gpgga_data_queue_') \in {Len(gpgga_data_queue_), Len(gpgga_data_queue_) + 1}
           /\ gpgga_data_queue_'[Len(gpgga_data_queue_')] = produced + 1
           /\ \A i \in 1..(Len(gpgga_data_queue_') - 1) :
                 gpgga_data_queue_'[i]
                     = gpgga_data_queue_[i + (Len(gpgga_data_queue_) + 1 - Len(gpgga_data_queue_'))]
           /\ produced' = produced + 1 /\ gpgga' = gpgga
<1>. DEFINE q == gpgga_data_queue_
            p == gpgga_data_queue_'
<1>1. q \in Seq(Nat) /\ Len(q) \in Nat /\ Len(q) <= QueueSize /\ produced + 1 \in Nat
  BY DEF TypeOK
<1>2. p = Queue!Push(q, produced + 1) /\ produced' = produced + 1 /\ gpgga' = gpgga
  BY DEF PushSample
<1>. HIDE DEF q, p
<1>3. /\ p \in Seq(Nat)
      /\ Len(p) = IF Len(q) = QueueSize THEN Len(q) ELSE Len(q) + 1
      /\ p[Len(p)] = produced + 1
      /\ \A i \in 1..(Len(p) - 1) : p[i] = q[i + (Len(q) + 1 - Len(p))]
  BY <1>1, <1>2, PushProperties
<1>4. Len(p) \in 1..QueueSize BY <1>1, <1>3, SizeAssumption
<1>5. Len(p) \in {Len(q), Len(q) + 1} BY <1>3
<1>. QED BY <1>2, <1>3, <1>4, <1>5 DEF q, p

\* The constructor leaves every member with its type (EasyNmeaImpl.cpp:37-44).
LEMMA TypeOKInit == Init => TypeOK
<1>. SUFFICES ASSUME Init PROVE TypeOK OBVIOUS
<1>. USE DEF Init
<1>1. <<>> \in Seq(Nat) /\ Len(<<>>) <= QueueSize BY SizeAssumption
<1>. QED
  BY <1>1 DEF TypeOK, ClientSteps, ReaderSteps, Crashes, ReturnCodes

\* No step of a client or of the read thread breaks a type.
LEMMA TypeOKStep == TypeOK /\ [Next]_vars => TypeOK'
<1>. SUFFICES ASSUME TypeOK, [Next]_vars PROVE TypeOK' OBVIOUS
<1>. USE DEF TypeOK, ClientSteps, OpenSteps, CloseSteps, WaitSteps, DestroySteps,
            ReaderSteps, ReturnCodes, Crashes
<1>1. ASSUME NEW t \in Clients, ClientNext(t) PROVE TypeOK'
  <2>1. CASE OpenCall(t)
    <3>1. pc' \in [Clients -> ClientSteps] BY <2>1 DEF OpenCall
    <3>2. ret' \in [Clients -> ReturnCodes] BY <2>1 DEF OpenCall
    <3>3. mutex_' \in Clients \cup {NoOwner} BY <2>1 DEF OpenCall
    <3>. QED BY <2>1, <3>1, <3>2, <3>3 DEF OpenCall
  <2>2. CASE OpenPort(t)
    <3>1. pc' \in [Clients -> ClientSteps] BY <2>2 DEF OpenPort
    <3>2. ret' \in [Clients -> ReturnCodes] BY <2>2 DEF OpenPort
    <3>3. mutex_' \in Clients \cup {NoOwner} BY <2>2 DEF OpenPort
    <3>4. internal_error_' \in BOOLEAN /\ serial_open' \in BOOLEAN BY <2>2 DEF OpenPort
    <3>. QED BY <2>2, <3>1, <3>2, <3>3, <3>4 DEF OpenPort
  <2>3. CASE OpenSpawn(t)
    <3>1. pc' \in [Clients -> ClientSteps] BY <2>3 DEF OpenSpawn
    <3>2. read_thread_' \in BOOLEAN /\ reader' \in ReaderSteps /\ crash' \in Crashes
      BY <2>3 DEF OpenSpawn
    <3>3. /\ routine_running_' \in BOOLEAN
          /\ UNCHANGED <<mutex_, data_mutex_, data_vars, internal_error_, client_vars,
                         serial_open, life>>
      BY <2>3 DEF OpenSpawn
    <3>. QED BY <3>1, <3>2, <3>3
  <2>4. CASE OpenReturn(t)
    <3>1. pc' \in [Clients -> ClientSteps] BY <2>4 DEF OpenReturn
    <3>2. ret' \in [Clients -> ReturnCodes] BY <2>4 DEF OpenReturn
    <3>3. /\ internal_error_' \in BOOLEAN /\ mutex_' \in Clients \cup {NoOwner}
          /\ UNCHANGED <<data_mutex_, data_vars, reader, read_thread_, routine_running_,
                         data_mask, gpgga, calls, serial_open, life, crash>>
      BY <2>4 DEF OpenReturn
    <3>. QED BY <3>1, <3>2, <3>3
  <2>5. CASE CloseCall(t)
    <3>1. pc' \in [Clients -> ClientSteps] BY <2>5 DEF CloseCall, StartClose, AfterClose
    <3>2. ret' \in [Clients -> ReturnCodes] BY <2>5 DEF CloseCall, StartClose, AfterClose
    <3>3. mutex_' \in Clients \cup {NoOwner} BY <2>5 DEF CloseCall, StartClose, AfterClose
    <3>4. calls' \in Nat BY <2>5 DEF CloseCall, StartClose
    <3>5. UNCHANGED <<data_mutex_, data_vars, thread_vars, data_mask, gpgga, serial_open, life,
                      crash>>
      BY <2>5 DEF CloseCall
    <3>. QED BY <3>1, <3>2, <3>3, <3>4, <3>5
  <2>6. CASE CloseStop(t)
    <3>1. pc' \in [Clients -> ClientSteps] BY <2>6 DEF CloseStop
    <3>2. /\ routine_running_' \in BOOLEAN
          /\ UNCHANGED <<mutex_, data_mutex_, data_vars, reader, read_thread_, internal_error_,
                         client_vars, serial_open, life, crash>>
      BY <2>6 DEF CloseStop
    <3>. QED BY <3>1, <3>2
  <2>7. CASE ClosePort(t)
    <3>1. pc' \in [Clients -> ClientSteps] BY <2>7 DEF ClosePort
    <3>2. ret' \in [Clients -> ReturnCodes] BY <2>7 DEF ClosePort
    <3>3. serial_open' \in BOOLEAN /\ UNCHANGED <<mutex_, data_mutex_, data_vars, thread_vars,
                                                  data_mask, gpgga, calls, life, crash>>
      BY <2>7 DEF ClosePort
    <3>. QED BY <3>1, <3>2, <3>3
  <2>8. CASE CloseJoin(t)
    <3>1. pc' \in [Clients -> ClientSteps] BY <2>8 DEF CloseJoin
    <3>2. mutex_' \in Clients \cup {NoOwner} BY <2>8 DEF CloseJoin
    <3>3. read_thread_' \in BOOLEAN /\ reader' \in ReaderSteps /\ crash' \in Crashes
      BY <2>8 DEF CloseJoin
    <3>. QED BY <2>8, <3>1, <3>2, <3>3 DEF CloseJoin
  <2>9. CASE CloseNotify(t) BY <2>9, NotifyAllProperties DEF CloseNotify, AfterClose
  <2>10. CASE TakeNext(t)
    <3>1. CASE gpgga_data_queue_ = <<>>
      <4>1. pc' \in [Clients -> ClientSteps] BY <2>10, <3>1 DEF TakeNext
      <4>2. ret' \in [Clients -> ReturnCodes] BY <2>10, <3>1 DEF TakeNext
      <4>. QED BY <2>10, <3>1, <4>1, <4>2 DEF TakeNext
    <3>2. CASE gpgga_data_queue_ # <<>>
      <4>1. pc' \in [Clients -> ClientSteps] BY <2>10, <3>2 DEF TakeNext
      <4>2. gpgga' \in [Clients -> Nat] BY <2>10, <3>2 DEF TakeNext
      <4>3. gpgga_data_queue_' = Tail(gpgga_data_queue_) BY <2>10, <3>2 DEF TakeNext
      <4>4. gpgga_data_queue_' \in Seq(Nat) /\ Len(gpgga_data_queue_') <= QueueSize
        BY <3>2, <4>3, SizeAssumption
      <4>. QED BY <2>10, <3>2, <4>1, <4>2, <4>4 DEF TakeNext
    <3>. QED BY <3>1, <3>2
  <2>11. CASE TakeUpdate(t) BY <2>11 DEF TakeUpdate, StillReceived
  <2>12. CASE WaitCall(t)
    <3>1. pc' \in [Clients -> ClientSteps] BY <2>12 DEF WaitCall
    <3>2. ret' \in [Clients -> ReturnCodes] BY <2>12 DEF WaitCall
    <3>3. data_mask' \in [Clients -> Masks \cup {{}}] BY <2>12 DEF WaitCall
    <3>. QED BY <2>12, <3>1, <3>2, <3>3 DEF WaitCall
  <2>13. CASE WaitCheck(t)
    <3>1. pc' \in [Clients -> ClientSteps] BY <2>13 DEF WaitCheck, WaitReturn, WaitVerdict
    <3>2. ret' \in [Clients -> ReturnCodes] BY <2>13 DEF WaitCheck, WaitReturn, WaitVerdict
    <3>3. data_mask' \in [Clients -> Masks \cup {{}}]
      BY <2>13 DEF WaitCheck, WaitReturn, WaitVerdict
    <3>4. data_mutex_' \in Clients \cup {Reader, NoOwner}
      BY <2>13 DEF WaitCheck, WaitReturn, WaitVerdict
    <3>. QED BY <2>13, <3>1, <3>2, <3>3, <3>4 DEF WaitCheck, WaitReturn, WaitVerdict
  <2>14. CASE WaitBlock(t)
    <3>1. pc' \in [Clients -> ClientSteps] BY <2>14 DEF WaitBlock
    <3>. QED BY <2>14, <3>1 DEF WaitBlock
  <2>15. CASE SpuriousWakeup(t)
    <3>1. pc' \in [Clients -> ClientSteps] BY <2>15 DEF SpuriousWakeup
    <3>. QED BY <2>15, <3>1 DEF SpuriousWakeup
  <2>16. CASE WaitTimeout(t)
    <3>1. pc' \in [Clients -> ClientSteps] BY <2>16 DEF WaitTimeout
    <3>. QED BY <2>16, <3>1 DEF WaitTimeout
  <2>17. CASE WaitExpired(t) BY <2>17 DEF WaitExpired, WaitReturn, WaitVerdict
  <2>18. CASE Destroy(t) BY <2>18, SizeAssumption DEF Destroy, Queue!Clear
  <2>19. CASE DestroyJoin(t)
    <3>1. pc' \in [Clients -> ClientSteps] BY <2>19 DEF DestroyJoin
    <3>2. read_thread_' \in BOOLEAN /\ reader' \in ReaderSteps BY <2>19 DEF DestroyJoin
    <3>. QED BY <2>19, <3>1, <3>2 DEF DestroyJoin
  <2>. QED
    BY <1>1, <2>1, <2>2, <2>3, <2>4, <2>5, <2>6, <2>7, <2>8, <2>9, <2>10, <2>11, <2>12,
       <2>13, <2>14, <2>15, <2>16, <2>17, <2>18, <2>19 DEF ClientNext, Begin, Continue
<1>2. CASE ReaderNext
  <2>. USE DEF ReaderGoto
  <2>1. CASE ReadLoop BY <2>1 DEF ReadLoop
  <2>2. CASE ReadLineIsOpen \/ StartRead BY <2>2 DEF ReadLineIsOpen, StartRead
  <2>3. CASE Device BY <2>3 DEF Device, ReadChar, ReadOtherLine, ReadGpggaLine, ReadError, DecodeThrows
  <2>4. CASE ReadAborted BY <2>4 DEF ReadAborted
  <2>5. CASE ReadClose BY <2>5 DEF ReadClose
  <2>6. CASE PushSample
    BY <2>6, PushSampleProperties DEF PushSample
  <2>7. CASE SetReceived BY <2>7 DEF SetReceived
  <2>8. CASE NotifySample \/ NotifyStop
    BY <2>8, NotifyAllProperties DEF NotifySample, NotifyStop, NotifyAndGoto
  <2>9. CASE StopRoutine BY <2>9 DEF StopRoutine
  <2>10. CASE RaiseError BY <2>10 DEF RaiseError
  <2>. QED
    BY <1>2, <2>1, <2>2, <2>3, <2>4, <2>5, <2>6, <2>7, <2>8, <2>9, <2>10
       DEF ReaderNext, ReaderInternal
<1>3. CASE UNCHANGED vars BY <1>3 DEF vars
<1>. QED BY <1>1, <1>2, <1>3 DEF Next, Terminating

\* Every variable keeps its type, and the queue its capacity
\* (EasyNmeaImpl.hpp:150-179, FixedSizeQueue.hpp:66-75).
THEOREM TypeCorrect == Spec => []TypeOK
BY TypeOKInit, TypeOKStep, PTL DEF Spec

-----------------------------------------------------------------------------
(* Frames: what few actions change *)

\* The queue and the samples taken change by a push, a take and clear() only.
LEMMA QueueFrame ==
    ASSUME [Next]_vars
    PROVE  \/ PushSample \/ \E t \in Clients : TakeNext(t) \/ Destroy(t)
           \/ UNCHANGED <<gpgga_data_queue_, produced, gpgga>>
<1>1. ASSUME NEW t \in Clients, ClientNext(t)
      PROVE  TakeNext(t) \/ Destroy(t) \/ UNCHANGED <<gpgga_data_queue_, produced, gpgga>>
  BY <1>1
     DEF ClientNext, Begin, Continue, OpenCall, OpenPort, OpenSpawn, OpenReturn, CloseCall,
         CloseStop, ClosePort, CloseJoin, CloseNotify, TakeUpdate, WaitCall, WaitCheck,
         WaitBlock, SpuriousWakeup, WaitTimeout, WaitExpired, DestroyJoin
<1>2. CASE ReaderNext
  BY <1>2
     DEF ReaderNext, ReaderInternal, Device, ReaderGoto, ReadLoop, ReadLineIsOpen, StartRead,
         ReadChar, ReadOtherLine, ReadGpggaLine, ReadError, DecodeThrows, ReadAborted, ReadClose,
         SetReceived, NotifySample, NotifyStop, NotifyAndGoto, StopRoutine, RaiseError
<1>. QED BY <1>1, <1>2 DEF Next, Terminating, vars

\* The read thread is born in open() and joined in close() or the destructor.
LEMMA ThreadFrame ==
    ASSUME [Next]_vars
    PROVE  \/ ReaderNext /\ UNCHANGED read_thread_
           \/ \E t \in Clients : OpenSpawn(t) \/ CloseJoin(t) \/ DestroyJoin(t)
           \/ UNCHANGED <<reader, read_thread_>>
<1>1. ASSUME NEW t \in Clients, ClientNext(t)
      PROVE  \/ OpenSpawn(t) \/ CloseJoin(t) \/ DestroyJoin(t)
             \/ UNCHANGED <<reader, read_thread_>>
  BY <1>1
     DEF ClientNext, Begin, Continue, OpenCall, OpenPort, OpenReturn, CloseCall,
         CloseStop, ClosePort, CloseNotify, TakeNext, TakeUpdate, WaitCall, WaitCheck,
         WaitBlock, SpuriousWakeup, WaitTimeout, WaitExpired, Destroy
<1>2. CASE ReaderNext
  BY <1>2
     DEF ReaderNext, ReaderInternal, Device, ReaderGoto, ReadLoop, ReadLineIsOpen, StartRead,
         ReadChar, ReadOtherLine, ReadGpggaLine, ReadError, DecodeThrows, ReadAborted, ReadClose,
         PushSample, SetReceived, NotifySample, NotifyStop, NotifyAndGoto, StopRoutine, RaiseError
<1>. QED BY <1>1, <1>2 DEF Next, Terminating, vars

-----------------------------------------------------------------------------
(* Samples: the queue, its bit in data_received_ and what was taken *)

\* The handle of the read thread is null exactly when there is no thread.
HandleInv == read_thread_ <=> reader # "none"

\* Who owns data_mutex_ is in one of its critical sections.
DataLockInv ==
    /\ \A t \in Clients : pc[t] \in {"take_update", "wait_block"} <=> data_mutex_ = t
    /\ reader = "set" <=> data_mutex_ = Reader

BitMatches == GPGGA \in data_received_ <=> gpgga_data_queue_ # <<>>

\* What each critical section knows of the queue and the bit it leaves behind.
BitInv ==
    life = "alive" =>
        /\ data_mutex_ = NoOwner => BitMatches
        /\ \A t \in Clients : pc[t] = "wait_block" => BitMatches
        /\ \A t \in Clients : pc[t] = "take_update" => GPGGA \in data_received_
        /\ reader = "set" => gpgga_data_queue_ # <<>>

\* Whatever is still in the queue is newer than whatever was taken.
TakenInv ==
    /\ Len(gpgga_data_queue_) <= produced
    /\ \A u \in Clients : gpgga[u] + Len(gpgga_data_queue_) <= produced

DataInv == HandleInv /\ DataLockInv /\ BitInv /\ QueueIsWindow /\ TakenInv

\* No step leaves a thread without its handle, or a handle without thread
\* (EasyNmeaImpl.cpp:59-60, 81 and 114-115).
LEMMA HandleStep ==
    TypeOK /\ HandleInv /\ [Next]_vars => HandleInv'
<1>. SUFFICES ASSUME TypeOK, HandleInv, [Next]_vars PROVE HandleInv' OBVIOUS
<1>. USE DEF HandleInv
<1>1. CASE ReaderNext /\ UNCHANGED read_thread_
  BY <1>1
     DEF ReaderNext, ReaderInternal, Device, ReaderGoto, ReadLoop, ReadLineIsOpen, StartRead,
         ReadChar, ReadOtherLine, ReadGpggaLine, ReadError, DecodeThrows, ReadAborted, ReadClose,
         PushSample, SetReceived, NotifySample, NotifyStop, NotifyAndGoto, StopRoutine, RaiseError
<1>2. ASSUME NEW t \in Clients, OpenSpawn(t) PROVE HandleInv' BY <1>2 DEF OpenSpawn, TypeOK
<1>3. ASSUME NEW t \in Clients, CloseJoin(t) PROVE HandleInv' BY <1>3 DEF CloseJoin, TypeOK
<1>4. ASSUME NEW t \in Clients, DestroyJoin(t) PROVE HandleInv'
  BY <1>4 DEF DestroyJoin, TypeOK
<1>. QED BY <1>1, <1>2, <1>3, <1>4, ThreadFrame

\* Every step that takes data_mutex_ enters one of its critical sections, and
\* every step that leaves one gives it back (EasyNmeaImpl.cpp:126, 158, 191).
LEMMA DataLockStep ==
    TypeOK /\ HandleInv /\ DataLockInv /\ [Next]_vars => DataLockInv'
<1>. SUFFICES ASSUME TypeOK, HandleInv, DataLockInv, [Next]_vars PROVE DataLockInv' OBVIOUS
<1>. USE DEF TypeOK, HandleInv, DataLockInv
<1>1. ASSUME NEW t \in Clients, ClientNext(t) PROVE DataLockInv'
  <2>1. CASE OpenCall(t) BY <2>1, ClientsAssumption DEF OpenCall
  <2>2. CASE OpenPort(t) BY <2>2, ClientsAssumption DEF OpenPort
  <2>3. CASE OpenSpawn(t) BY <2>3, ClientsAssumption DEF OpenSpawn
  <2>4. CASE OpenReturn(t) BY <2>4, ClientsAssumption DEF OpenReturn
  <2>5. CASE CloseCall(t) BY <2>5, ClientsAssumption DEF CloseCall, StartClose, AfterClose
  <2>6. CASE CloseStop(t) BY <2>6, ClientsAssumption DEF CloseStop
  <2>7. CASE ClosePort(t) BY <2>7, ClientsAssumption DEF ClosePort
  <2>8. CASE CloseJoin(t) BY <2>8, ClientsAssumption DEF CloseJoin
  <2>9. CASE CloseNotify(t) BY <2>9, ClientsAssumption DEF CloseNotify, AfterClose, NotifyAll
  <2>10. CASE TakeNext(t) BY <2>10, ClientsAssumption DEF TakeNext
  <2>11. CASE TakeUpdate(t) BY <2>11, ClientsAssumption DEF TakeUpdate, StillReceived
  <2>12. CASE WaitCall(t) BY <2>12, ClientsAssumption DEF WaitCall
  <2>13. CASE WaitCheck(t) BY <2>13, ClientsAssumption DEF WaitCheck, WaitReturn
  <2>14. CASE WaitBlock(t) BY <2>14, ClientsAssumption DEF WaitBlock
  <2>15. CASE SpuriousWakeup(t) BY <2>15, ClientsAssumption DEF SpuriousWakeup
  <2>16. CASE WaitTimeout(t) BY <2>16, ClientsAssumption DEF WaitTimeout
  <2>17. CASE WaitExpired(t) BY <2>17, ClientsAssumption DEF WaitExpired, WaitReturn
  <2>18. CASE Destroy(t) BY <2>18, ClientsAssumption DEF Destroy, Queue!Clear
  <2>19. CASE DestroyJoin(t) BY <2>19, ClientsAssumption DEF DestroyJoin
  <2>. QED
    BY <1>1, <2>1, <2>2, <2>3, <2>4, <2>5, <2>6, <2>7, <2>8, <2>9, <2>10, <2>11, <2>12,
       <2>13, <2>14, <2>15, <2>16, <2>17, <2>18, <2>19 DEF ClientNext, Begin, Continue
<1>2. CASE ReaderNext
  <2>. USE DEF ReaderGoto
  <2>1. CASE ReadLoop BY <2>1, ClientsAssumption DEF ReadLoop
  <2>2. CASE ReadLineIsOpen \/ StartRead
    BY <2>2, ClientsAssumption DEF ReadLineIsOpen, StartRead
  <2>3. CASE Device
    BY <2>3, ClientsAssumption DEF Device, ReadChar, ReadOtherLine, ReadGpggaLine, ReadError, DecodeThrows
  <2>4. CASE ReadAborted BY <2>4, ClientsAssumption DEF ReadAborted
  <2>5. CASE ReadClose BY <2>5, ClientsAssumption DEF ReadClose
  <2>6. CASE PushSample BY <2>6, ClientsAssumption DEF PushSample
  <2>7. CASE SetReceived BY <2>7, ClientsAssumption DEF SetReceived
  <2>8. CASE NotifySample \/ NotifyStop
    BY <2>8, ClientsAssumption DEF NotifySample, NotifyStop, NotifyAndGoto, NotifyAll
  <2>9. CASE StopRoutine BY <2>9, ClientsAssumption DEF StopRoutine
  <2>10. CASE RaiseError BY <2>10, ClientsAssumption DEF RaiseError
  <2>. QED
    BY <1>2, <2>1, <2>2, <2>3, <2>4, <2>5, <2>6, <2>7, <2>8, <2>9, <2>10
       DEF ReaderNext, ReaderInternal
<1>3. CASE UNCHANGED vars BY <1>3 DEF vars
<1>. QED BY <1>1, <1>2, <1>3 DEF Next, Terminating

\* Every critical section of data_mutex_ ends with the bit and the queue in
\* agreement (EasyNmeaImpl.cpp:126-139 and 190-194).
LEMMA BitStep ==
    TypeOK /\ HandleInv /\ DataLockInv /\ BitInv /\ [Next]_vars => BitInv'
<1>. SUFFICES ASSUME TypeOK, HandleInv, DataLockInv, BitInv, [Next]_vars PROVE BitInv' OBVIOUS
<1>. USE DEF TypeOK, HandleInv, DataLockInv, BitInv, BitMatches
<1>1. ASSUME NEW t \in Clients, ClientNext(t) PROVE BitInv'
  <2>1. CASE OpenCall(t) BY <2>1, ClientsAssumption DEF OpenCall
  <2>2. CASE OpenPort(t) BY <2>2, ClientsAssumption DEF OpenPort
  <2>3. CASE OpenSpawn(t) BY <2>3, ClientsAssumption DEF OpenSpawn
  <2>4. CASE OpenReturn(t) BY <2>4, ClientsAssumption DEF OpenReturn
  <2>5. CASE CloseCall(t) BY <2>5, ClientsAssumption DEF CloseCall, StartClose, AfterClose
  <2>6. CASE CloseStop(t) BY <2>6, ClientsAssumption DEF CloseStop
  <2>7. CASE ClosePort(t) BY <2>7, ClientsAssumption DEF ClosePort
  <2>8. CASE CloseJoin(t) BY <2>8, ClientsAssumption DEF CloseJoin
  <2>9. CASE CloseNotify(t) BY <2>9, ClientsAssumption DEF CloseNotify, AfterClose, NotifyAll
  <2>10. CASE TakeNext(t) BY <2>10, ClientsAssumption DEF TakeNext
  <2>11. CASE TakeUpdate(t) BY <2>11, ClientsAssumption DEF TakeUpdate, StillReceived
  <2>12. CASE WaitCall(t) BY <2>12, ClientsAssumption DEF WaitCall
  <2>13. CASE WaitCheck(t) BY <2>13, ClientsAssumption DEF WaitCheck, WaitReturn
  <2>14. CASE WaitBlock(t) BY <2>14, ClientsAssumption DEF WaitBlock
  <2>15. CASE SpuriousWakeup(t) BY <2>15, ClientsAssumption DEF SpuriousWakeup
  <2>16. CASE WaitTimeout(t) BY <2>16, ClientsAssumption DEF WaitTimeout
  <2>17. CASE WaitExpired(t) BY <2>17, ClientsAssumption DEF WaitExpired, WaitReturn
  <2>18. CASE Destroy(t) BY <2>18, ClientsAssumption DEF Destroy, Queue!Clear
  <2>19. CASE DestroyJoin(t) BY <2>19, ClientsAssumption DEF DestroyJoin
  <2>. QED
    BY <1>1, <2>1, <2>2, <2>3, <2>4, <2>5, <2>6, <2>7, <2>8, <2>9, <2>10, <2>11, <2>12,
       <2>13, <2>14, <2>15, <2>16, <2>17, <2>18, <2>19 DEF ClientNext, Begin, Continue
<1>2. CASE ReaderNext
  <2>. USE DEF ReaderGoto
  <2>1. CASE ReadLoop BY <2>1, ClientsAssumption DEF ReadLoop
  <2>2. CASE ReadLineIsOpen \/ StartRead
    BY <2>2, ClientsAssumption DEF ReadLineIsOpen, StartRead
  <2>3. CASE Device
    BY <2>3, ClientsAssumption DEF Device, ReadChar, ReadOtherLine, ReadGpggaLine, ReadError, DecodeThrows
  <2>4. CASE ReadAborted BY <2>4, ClientsAssumption DEF ReadAborted
  <2>5. CASE ReadClose BY <2>5, ClientsAssumption DEF ReadClose
  <2>6. CASE PushSample BY <2>6, ClientsAssumption, PushSampleProperties DEF PushSample
  <2>7. CASE SetReceived BY <2>7, ClientsAssumption DEF SetReceived
  <2>8. CASE NotifySample \/ NotifyStop
    BY <2>8, ClientsAssumption DEF NotifySample, NotifyStop, NotifyAndGoto, NotifyAll
  <2>9. CASE StopRoutine BY <2>9, ClientsAssumption DEF StopRoutine
  <2>10. CASE RaiseError BY <2>10, ClientsAssumption DEF RaiseError
  <2>. QED
    BY <1>2, <2>1, <2>2, <2>3, <2>4, <2>5, <2>6, <2>7, <2>8, <2>9, <2>10
       DEF ReaderNext, ReaderInternal
<1>3. CASE UNCHANGED vars BY <1>3 DEF vars
<1>. QED BY <1>1, <1>2, <1>3 DEF Next, Terminating

\* A push, a take and clear() leave a window of consecutive samples that ends
\* with the last one produced (EasyNmeaImpl.cpp:54, 129-130 and 192).
LEMMA WindowStep ==
    TypeOK /\ QueueIsWindow /\ [Next]_vars => QueueIsWindow'
<1>. SUFFICES ASSUME TypeOK, QueueIsWindow, [Next]_vars PROVE QueueIsWindow' OBVIOUS
<1>. USE DEF TypeOK, QueueIsWindow
<1>1. CASE PushSample
  <2>1. ASSUME NEW i \in 1..Len(gpgga_data_queue_')
        PROVE  gpgga_data_queue_'[i] = produced' - Len(gpgga_data_queue_') + i
    <3>1. Len(gpgga_data_queue_) \in Nat OBVIOUS
    <3>2. CASE i = Len(gpgga_data_queue_')
      BY <1>1, <3>1, <3>2, PushSampleProperties
    <3>3. CASE i # Len(gpgga_data_queue_')
      <4>. DEFINE j == i + (Len(gpgga_data_queue_) + 1 - Len(gpgga_data_queue_'))
      <4>1. gpgga_data_queue_'[i] = gpgga_data_queue_[j] /\ j \in 1..Len(gpgga_data_queue_)
        BY <1>1, <2>1, <3>1, <3>3, PushSampleProperties, SMTT(30)
      <4>2. gpgga_data_queue_[j] = produced - Len(gpgga_data_queue_) + j BY <4>1
      <4>. QED BY <1>1, <2>1, <3>1, <4>1, <4>2, PushSampleProperties, SMTT(30)
    <3>. QED BY <3>2, <3>3
  <2>. QED BY <2>1
<1>2. ASSUME NEW t \in Clients, TakeNext(t) PROVE QueueIsWindow'
  <2>1. CASE gpgga_data_queue_ = <<>> BY <1>2, <2>1 DEF TakeNext
  <2>2. CASE gpgga_data_queue_ # <<>>
    <3>1. gpgga_data_queue_' = Tail(gpgga_data_queue_) /\ produced' = produced
      BY <1>2, <2>2 DEF TakeNext
    <3>. QED BY <2>2, <3>1
  <2>. QED BY <2>1, <2>2
<1>3. ASSUME NEW t \in Clients, Destroy(t) PROVE QueueIsWindow'
  BY <1>3 DEF Destroy, Queue!Clear
<1>. QED BY <1>1, <1>2, <1>3, QueueFrame

\* A take hands out the front of the queue, which is newer than all others.
LEMMA TakeNextTakesNewer ==
    ASSUME TypeOK, QueueIsWindow, TakenInv, NEW t \in Clients, TakeNext(t),
           gpgga_data_queue_ # <<>>
    PROVE  /\ gpgga' = [gpgga EXCEPT ![t] = Head(gpgga_data_queue_)]
           /\ Len(gpgga_data_queue_') = Len(gpgga_data_queue_) - 1
           /\ Head(gpgga_data_queue_) = produced - Len(gpgga_data_queue_) + 1
           /\ produced' = produced
<1>1. gpgga' = [gpgga EXCEPT ![t] = Head(gpgga_data_queue_)] BY DEF TakeNext
<1>2. gpgga_data_queue_' = Tail(gpgga_data_queue_) /\ produced' = produced BY DEF TakeNext
<1>3. Len(gpgga_data_queue_) \in Nat \ {0} BY DEF TypeOK
<1>4. gpgga_data_queue_[1] = produced - Len(gpgga_data_queue_) + 1
  BY <1>3 DEF QueueIsWindow, TypeOK
<1>. QED BY <1>1, <1>2, <1>3, <1>4 DEF TypeOK

\* No step lets a sample in the queue be as old as one that was taken.
LEMMA TakenStep ==
    TypeOK /\ QueueIsWindow /\ TakenInv /\ [Next]_vars => TakenInv'
<1>. SUFFICES ASSUME TypeOK, QueueIsWindow, TakenInv, [Next]_vars PROVE TakenInv' OBVIOUS
<1>. USE DEF TypeOK, TakenInv
<1>1. CASE PushSample
  <2>1. Len(gpgga_data_queue_) \in Nat OBVIOUS
  <2>. QED BY <1>1, <2>1, PushSampleProperties
<1>2. ASSUME NEW t \in Clients, TakeNext(t) PROVE TakenInv'
  <2>1. CASE gpgga_data_queue_ = <<>> BY <1>2, <2>1 DEF TakeNext
  <2>2. CASE gpgga_data_queue_ # <<>>
    <3>1. /\ gpgga' = [gpgga EXCEPT ![t] = Head(gpgga_data_queue_)]
          /\ Len(gpgga_data_queue_') = Len(gpgga_data_queue_) - 1
          /\ Head(gpgga_data_queue_) = produced - Len(gpgga_data_queue_) + 1
          /\ produced' = produced
      BY <1>2, <2>2, TakeNextTakesNewer
    <3>2. Len(gpgga_data_queue_) \in Nat OBVIOUS
    <3>3. ASSUME NEW u \in Clients PROVE gpgga'[u] + Len(gpgga_data_queue_') <= produced'
      BY <3>1, <3>2
    <3>. QED BY <3>1, <3>2, <3>3
  <2>. QED BY <2>1, <2>2
<1>3. ASSUME NEW t \in Clients, Destroy(t) PROVE TakenInv' BY <1>3 DEF Destroy, Queue!Clear
<1>. QED BY <1>1, <1>2, <1>3, QueueFrame

\* The inductive invariant behind the theorems about samples.
LEMMA DataInvariant == Spec => []DataInv
<1>1. Init => DataInv
  BY ClientsAssumption
     DEF Init, DataInv, HandleInv, DataLockInv, BitInv, BitMatches, QueueIsWindow, TakenInv
<1>2. TypeOK /\ DataInv /\ [Next]_vars => DataInv'
  BY HandleStep, DataLockStep, BitStep, WindowStep, TakenStep DEF DataInv
<1>. QED BY <1>1, <1>2, TypeCorrect, PTL DEF Spec

\* The bit that wait_for_data() looks at tells the truth about the queue that
\* take_next() looks at, whenever data_mutex_ is free (EasyNmeaImpl.cpp:131-135
\* and 191-193).
THEOREM DataBitCorrect == Spec => []DataBitMatchesQueue
<1>1. DataInv => DataBitMatchesQueue BY DEF DataInv, BitInv, BitMatches, DataBitMatchesQueue
<1>. QED BY <1>1, DataInvariant, PTL

\* The queue holds the most recent samples that were not taken, in their order
\* and with no gap (EasyNmeaImpl.cpp:129-130 and 192, FixedSizeQueue.hpp:66-75).
THEOREM QueueCorrect == Spec => []QueueIsWindow
<1>1. DataInv => QueueIsWindow BY DEF DataInv
<1>. QED BY <1>1, DataInvariant, PTL

\* No two consumers take the same sample, and no consumer takes an older one
\* than a sample somebody has taken already (EasyNmeaImpl.cpp:126-130).
THEOREM EverySampleTakenOnce == Spec => NoSampleTakenTwice
<1>. DEFINE Newer == \A t \in Clients : gpgga'[t] # gpgga[t] => \A u \in Clients : gpgga'[t] > gpgga[u]
<1>1. TypeOK /\ DataInv /\ [Next]_vars => [Newer]_vars
  <2>. SUFFICES ASSUME TypeOK, DataInv, [Next]_vars PROVE Newer OBVIOUS
  <2>1. QueueIsWindow /\ TakenInv BY DEF DataInv
  <2>2. ASSUME NEW t \in Clients, TakeNext(t) PROVE Newer
    <3>1. CASE gpgga_data_queue_ = <<>> BY <2>2, <3>1 DEF TakeNext
    <3>2. CASE gpgga_data_queue_ # <<>>
      <4>1. /\ gpgga' = [gpgga EXCEPT ![t] = Head(gpgga_data_queue_)]
            /\ Head(gpgga_data_queue_) = produced - Len(gpgga_data_queue_) + 1
        BY <2>1, <2>2, <3>2, TakeNextTakesNewer
      <4>2. \A u \in Clients : Head(gpgga_data_queue_) > gpgga[u]
        BY <2>1, <4>1 DEF TypeOK, TakenInv
      <4>. QED BY <4>1, <4>2 DEF TypeOK
    <3>. QED BY <3>1, <3>2
  <2>3. CASE PushSample BY <2>3 DEF PushSample
  <2>4. ASSUME NEW t \in Clients, Destroy(t) PROVE Newer BY <2>4 DEF Destroy
  <2>. QED BY <2>2, <2>3, <2>4, QueueFrame
<1>. QED BY <1>1, TypeCorrect, DataInvariant, PTL DEF Spec, NoSampleTakenTwice

-----------------------------------------------------------------------------
(* Waiters *)

\* A waiter that is about to block saw no data under data_mutex_.
WakeInv ==
    /\ \A t \in Clients : pc[t] = "wait_block" => data_mask[t] \cap data_received_ = {}
    /\ NoLostDataWakeup

\* The data bit is set only while nobody is between the check of the predicate
\* and the wait, and the read thread then notifies (EasyNmeaImpl.cpp:159, 191-195).
LEMMA WakeStep ==
    TypeOK /\ HandleInv /\ DataLockInv /\ WakeInv /\ [Next]_vars => WakeInv'
<1>. SUFFICES ASSUME TypeOK, HandleInv, DataLockInv, WakeInv, [Next]_vars
             PROVE WakeInv' OBVIOUS
<1>. USE DEF TypeOK, HandleInv, DataLockInv, WakeInv, NoLostDataWakeup
<1>1. ASSUME NEW t \in Clients, ClientNext(t) PROVE WakeInv'
  <2>1. CASE OpenCall(t) BY <2>1, ClientsAssumption DEF OpenCall
  <2>2. CASE OpenPort(t) BY <2>2, ClientsAssumption DEF OpenPort
  <2>3. CASE OpenSpawn(t) BY <2>3, ClientsAssumption DEF OpenSpawn
  <2>4. CASE OpenReturn(t) BY <2>4, ClientsAssumption DEF OpenReturn
  <2>5. CASE CloseCall(t) BY <2>5, ClientsAssumption DEF CloseCall, StartClose, AfterClose
  <2>6. CASE CloseStop(t) BY <2>6, ClientsAssumption DEF CloseStop
  <2>7. CASE ClosePort(t) BY <2>7, ClientsAssumption DEF ClosePort
  <2>8. CASE CloseJoin(t) BY <2>8, ClientsAssumption DEF CloseJoin
  <2>9. CASE CloseNotify(t) BY <2>9, ClientsAssumption DEF CloseNotify, AfterClose, NotifyAll
  <2>10. CASE TakeNext(t) BY <2>10, ClientsAssumption DEF TakeNext
  <2>11. CASE TakeUpdate(t) BY <2>11, ClientsAssumption DEF TakeUpdate, StillReceived
  <2>12. CASE WaitCall(t) BY <2>12, ClientsAssumption DEF WaitCall
  <2>13. CASE WaitCheck(t)
    <3>1. pc'[t] = "wait_block" => data_mask[t] \cap data_received_ = {}
      BY <2>13 DEF WaitCheck, WaitReturn, WaitPredicate
    <3>. QED BY <2>13, <3>1, ClientsAssumption DEF WaitCheck, WaitReturn
  <2>14. CASE WaitBlock(t) BY <2>14, ClientsAssumption DEF WaitBlock
  <2>15. CASE SpuriousWakeup(t) BY <2>15, ClientsAssumption DEF SpuriousWakeup
  <2>16. CASE WaitTimeout(t) BY <2>16, ClientsAssumption DEF WaitTimeout
  <2>17. CASE WaitExpired(t) BY <2>17, ClientsAssumption DEF WaitExpired, WaitReturn
  <2>18. CASE Destroy(t) BY <2>18, ClientsAssumption DEF Destroy, Queue!Clear
  <2>19. CASE DestroyJoin(t) BY <2>19, ClientsAssumption DEF DestroyJoin
  <2>. QED
    BY <1>1, <2>1, <2>2, <2>3, <2>4, <2>5, <2>6, <2>7, <2>8, <2>9, <2>10, <2>11, <2>12,
       <2>13, <2>14, <2>15, <2>16, <2>17, <2>18, <2>19 DEF ClientNext, Begin, Continue
<1>2. CASE ReaderNext
  <2>. USE DEF ReaderGoto
  <2>1. CASE ReadLoop BY <2>1, ClientsAssumption DEF ReadLoop
  <2>2. CASE ReadLineIsOpen \/ StartRead
    BY <2>2, ClientsAssumption DEF ReadLineIsOpen, StartRead
  <2>3. CASE Device
    BY <2>3, ClientsAssumption DEF Device, ReadChar, ReadOtherLine, ReadGpggaLine, ReadError, DecodeThrows
  <2>4. CASE ReadAborted BY <2>4, ClientsAssumption DEF ReadAborted
  <2>5. CASE ReadClose BY <2>5, ClientsAssumption DEF ReadClose
  <2>6. CASE PushSample BY <2>6, ClientsAssumption DEF PushSample
  <2>7. CASE SetReceived BY <2>7, ClientsAssumption DEF SetReceived
  <2>8. CASE NotifySample \/ NotifyStop
    BY <2>8, ClientsAssumption DEF NotifySample, NotifyStop, NotifyAndGoto, NotifyAll
  <2>9. CASE StopRoutine BY <2>9, ClientsAssumption DEF StopRoutine
  <2>10. CASE RaiseError BY <2>10, ClientsAssumption DEF RaiseError
  <2>. QED
    BY <1>2, <2>1, <2>2, <2>3, <2>4, <2>5, <2>6, <2>7, <2>8, <2>9, <2>10
       DEF ReaderNext, ReaderInternal
<1>3. CASE UNCHANGED vars BY <1>3 DEF vars
<1>. QED BY <1>1, <1>2, <1>3 DEF Next, Terminating

\* No waiter stays blocked next to a sample it asked for, but between the unlock
\* and the notify_all() of process_line_() (EasyNmeaImpl.cpp:159-163, 191-195).
THEOREM NoLostWakeup == Spec => []NoLostDataWakeup
<1>1. Init => WakeInv BY DEF Init, WakeInv, NoLostDataWakeup
<1>2. TypeOK /\ DataInv /\ WakeInv /\ [Next]_vars => WakeInv' BY WakeStep DEF DataInv
<1>3. WakeInv => NoLostDataWakeup BY DEF WakeInv
<1>. QED BY <1>1, <1>2, <1>3, TypeCorrect, DataInvariant, PTL DEF Spec

-----------------------------------------------------------------------------
(* The port and the read thread *)

PortLockInv ==
    \A t \in Clients :
        pc[t] \in {"open_port", "spawn", "clear_error", "stop", "close_port", "join"}
            <=> mutex_ = t

\* The destructor runs alone, and in the end has joined the read thread.
DestroyInv ==
    /\ life # "alive" => \A t, u \in Clients : pc[t] # "idle" /\ pc[u] # "idle" => t = u
    /\ life = "destroyed" => reader = "none" /\ \A t \in Clients : pc[t] = "idle"
    /\ \A t \in Clients : pc[t] \in DestroySteps => life = "destroying"
    /\ \A t \in Clients : pc[t] = "close_notify" /\ life # "alive" => reader = "none"
    /\ \A t \in Clients : pc[t] = "dtor_join" /\ ret[t] = "OK" => reader = "none"

\* A read thread that can still deliver has an open port, or is being joined.
PortInv ==
    crash = "none" =>
        /\ \A t \in Clients : pc[t] = "spawn" => serial_open
        /\ \A t \in Clients : pc[t] \in {"open_port", "spawn"} => ~Delivers
        /\ reader \in {"error", "notify_stop"} => ~routine_running_
        /\ ~serial_open /\ Delivers => \E t \in Clients : pc[t] = "join"

ThreadInv == HandleInv /\ PortLockInv /\ DestroyInv /\ PortInv

\* open() and close() hold mutex_ from their first check to the end of their
\* critical section (EasyNmeaImpl.cpp:70-86 and 104-117).
LEMMA PortLockStep ==
    TypeOK /\ PortLockInv /\ [Next]_vars => PortLockInv'
<1>. SUFFICES ASSUME TypeOK, PortLockInv, [Next]_vars PROVE PortLockInv' OBVIOUS
<1>. USE DEF TypeOK, PortLockInv
<1>1. ASSUME NEW t \in Clients, ClientNext(t) PROVE PortLockInv'
  <2>1. CASE OpenCall(t) BY <2>1, ClientsAssumption DEF OpenCall
  <2>2. CASE OpenPort(t) BY <2>2, ClientsAssumption DEF OpenPort
  <2>3. CASE OpenSpawn(t) BY <2>3, ClientsAssumption DEF OpenSpawn
  <2>4. CASE OpenReturn(t) BY <2>4, ClientsAssumption DEF OpenReturn
  <2>5. CASE CloseCall(t) BY <2>5, ClientsAssumption DEF CloseCall, StartClose, AfterClose
  <2>6. CASE CloseStop(t) BY <2>6, ClientsAssumption DEF CloseStop
  <2>7. CASE ClosePort(t) BY <2>7, ClientsAssumption DEF ClosePort
  <2>8. CASE CloseJoin(t) BY <2>8, ClientsAssumption DEF CloseJoin
  <2>9. CASE CloseNotify(t) BY <2>9, ClientsAssumption DEF CloseNotify, AfterClose, NotifyAll
  <2>10. CASE TakeNext(t) BY <2>10, ClientsAssumption DEF TakeNext
  <2>11. CASE TakeUpdate(t) BY <2>11, ClientsAssumption DEF TakeUpdate, StillReceived
  <2>12. CASE WaitCall(t) BY <2>12, ClientsAssumption DEF WaitCall
  <2>13. CASE WaitCheck(t) BY <2>13, ClientsAssumption DEF WaitCheck, WaitReturn
  <2>14. CASE WaitBlock(t) BY <2>14, ClientsAssumption DEF WaitBlock
  <2>15. CASE SpuriousWakeup(t) BY <2>15, ClientsAssumption DEF SpuriousWakeup
  <2>16. CASE WaitTimeout(t) BY <2>16, ClientsAssumption DEF WaitTimeout
  <2>17. CASE WaitExpired(t) BY <2>17, ClientsAssumption DEF WaitExpired, WaitReturn
  <2>18. CASE Destroy(t) BY <2>18, ClientsAssumption DEF Destroy, Queue!Clear
  <2>19. CASE DestroyJoin(t) BY <2>19, ClientsAssumption DEF DestroyJoin
  <2>. QED
    BY <1>1, <2>1, <2>2, <2>3, <2>4, <2>5, <2>6, <2>7, <2>8, <2>9, <2>10, <2>11, <2>12,
       <2>13, <2>14, <2>15, <2>16, <2>17, <2>18, <2>19 DEF ClientNext, Begin, Continue
<1>2. CASE ReaderNext
  <2>. USE DEF ReaderGoto
  <2>1. CASE ReadLoop BY <2>1, ClientsAssumption DEF ReadLoop
  <2>2. CASE ReadLineIsOpen \/ StartRead
    BY <2>2, ClientsAssumption DEF ReadLineIsOpen, StartRead
  <2>3. CASE Device
    BY <2>3, ClientsAssumption DEF Device, ReadChar, ReadOtherLine, ReadGpggaLine, ReadError, DecodeThrows
  <2>4. CASE ReadAborted BY <2>4, ClientsAssumption DEF ReadAborted
  <2>5. CASE ReadClose BY <2>5, ClientsAssumption DEF ReadClose
  <2>6. CASE PushSample BY <2>6, ClientsAssumption DEF PushSample
  <2>7. CASE SetReceived BY <2>7, ClientsAssumption DEF SetReceived
  <2>8. CASE NotifySample \/ NotifyStop
    BY <2>8, ClientsAssumption DEF NotifySample, NotifyStop, NotifyAndGoto, NotifyAll
  <2>9. CASE StopRoutine BY <2>9, ClientsAssumption DEF StopRoutine
  <2>10. CASE RaiseError BY <2>10, ClientsAssumption DEF RaiseError
  <2>. QED
    BY <1>2, <2>1, <2>2, <2>3, <2>4, <2>5, <2>6, <2>7, <2>8, <2>9, <2>10
       DEF ReaderNext, ReaderInternal
<1>3. CASE UNCHANGED vars BY <1>3 DEF vars
<1>. QED BY <1>1, <1>2, <1>3 DEF Next, Terminating

\* The destructor ends with the read thread joined, by close() or by itself
\* (EasyNmeaImpl.cpp:54-61).
LEMMA DestroyStep ==
    TypeOK /\ HandleInv /\ DestroyInv /\ [Next]_vars => DestroyInv'
<1>. SUFFICES ASSUME TypeOK, HandleInv, DestroyInv, [Next]_vars PROVE DestroyInv' OBVIOUS
<1>. USE DEF TypeOK, HandleInv, DestroyInv, DestroySteps
<1>1. ASSUME NEW t \in Clients, ClientNext(t) PROVE DestroyInv'
  <2>1. CASE OpenCall(t) BY <2>1 DEF OpenCall
  <2>2. CASE OpenPort(t) BY <2>2 DEF OpenPort
  <2>3. CASE OpenSpawn(t) BY <2>3 DEF OpenSpawn
  <2>4. CASE OpenReturn(t) BY <2>4 DEF OpenReturn
  <2>5. CASE CloseCall(t) BY <2>5 DEF CloseCall, StartClose, AfterClose
  <2>6. CASE CloseStop(t) BY <2>6 DEF CloseStop
  <2>7. CASE ClosePort(t) BY <2>7 DEF ClosePort
  <2>8. CASE CloseJoin(t) BY <2>8 DEF CloseJoin
  <2>9. CASE CloseNotify(t) BY <2>9, ClientsAssumption DEF CloseNotify, AfterClose, NotifyAll
  <2>10. CASE TakeNext(t) BY <2>10 DEF TakeNext
  <2>11. CASE TakeUpdate(t) BY <2>11 DEF TakeUpdate, StillReceived
  <2>12. CASE WaitCall(t) BY <2>12 DEF WaitCall
  <2>13. CASE WaitCheck(t) BY <2>13 DEF WaitCheck, WaitReturn
  <2>14. CASE WaitBlock(t) BY <2>14 DEF WaitBlock
  <2>15. CASE SpuriousWakeup(t) BY <2>15 DEF SpuriousWakeup
  <2>16. CASE WaitTimeout(t) BY <2>16 DEF WaitTimeout
  <2>17. CASE WaitExpired(t) BY <2>17 DEF WaitExpired, WaitReturn
  <2>18. CASE Destroy(t) BY <2>18 DEF Destroy, Queue!Clear
  <2>19. CASE DestroyJoin(t) BY <2>19 DEF DestroyJoin
  <2>. QED
    BY <1>1, <2>1, <2>2, <2>3, <2>4, <2>5, <2>6, <2>7, <2>8, <2>9, <2>10, <2>11, <2>12,
       <2>13, <2>14, <2>15, <2>16, <2>17, <2>18, <2>19 DEF ClientNext, Begin, Continue
<1>2. CASE ReaderNext
  <2>. USE DEF ReaderGoto
  <2>1. CASE ReadLoop BY <2>1 DEF ReadLoop
  <2>2. CASE ReadLineIsOpen \/ StartRead BY <2>2 DEF ReadLineIsOpen, StartRead
  <2>3. CASE Device BY <2>3 DEF Device, ReadChar, ReadOtherLine, ReadGpggaLine, ReadError, DecodeThrows
  <2>4. CASE ReadAborted BY <2>4 DEF ReadAborted
  <2>5. CASE ReadClose BY <2>5 DEF ReadClose
  <2>6. CASE PushSample BY <2>6 DEF PushSample
  <2>7. CASE SetReceived BY <2>7 DEF SetReceived
  <2>8. CASE NotifySample \/ NotifyStop
    BY <2>8, ClientsAssumption DEF NotifySample, NotifyStop, NotifyAndGoto, NotifyAll
  <2>9. CASE StopRoutine BY <2>9 DEF StopRoutine
  <2>10. CASE RaiseError BY <2>10 DEF RaiseError
  <2>. QED
    BY <1>2, <2>1, <2>2, <2>3, <2>4, <2>5, <2>6, <2>7, <2>8, <2>9, <2>10
       DEF ReaderNext, ReaderInternal
<1>3. CASE UNCHANGED vars BY <1>3 DEF vars
<1>. QED BY <1>1, <1>2, <1>3 DEF Next, Terminating

\* A read thread whose port is closed stops reading, unless close() is about to
\* join it (EasyNmeaImpl.cpp:79-81, 111-114 and 217-219, SerialInterface.hpp:169).
LEMMA PortStep ==
    TypeOK /\ HandleInv /\ PortLockInv /\ DestroyInv /\ PortInv /\ [Next]_vars => PortInv'
<1>. SUFFICES ASSUME TypeOK, HandleInv, PortLockInv, DestroyInv, PortInv, [Next]_vars
             PROVE PortInv' OBVIOUS
<1>. USE DEF TypeOK, HandleInv, PortLockInv, DestroyInv, PortInv, Delivers, Reading
<1>1. ASSUME NEW t \in Clients, ClientNext(t) PROVE PortInv'
  <2>1. CASE OpenCall(t) BY <2>1, ClientsAssumption DEF OpenCall
  <2>2. CASE OpenPort(t) BY <2>2, ClientsAssumption DEF OpenPort
  <2>3. CASE OpenSpawn(t) BY <2>3, ClientsAssumption DEF OpenSpawn
  <2>4. CASE OpenReturn(t) BY <2>4, ClientsAssumption DEF OpenReturn
  <2>5. CASE CloseCall(t) BY <2>5, ClientsAssumption DEF CloseCall, StartClose, AfterClose
  <2>6. CASE CloseStop(t) BY <2>6, ClientsAssumption DEF CloseStop
  <2>7. CASE ClosePort(t) BY <2>7, ClientsAssumption DEF ClosePort
  <2>8. CASE CloseJoin(t) BY <2>8, ClientsAssumption DEF CloseJoin
  <2>9. CASE CloseNotify(t) BY <2>9, ClientsAssumption DEF CloseNotify, AfterClose, NotifyAll
  <2>10. CASE TakeNext(t) BY <2>10, ClientsAssumption DEF TakeNext
  <2>11. CASE TakeUpdate(t) BY <2>11, ClientsAssumption DEF TakeUpdate, StillReceived
  <2>12. CASE WaitCall(t) BY <2>12, ClientsAssumption DEF WaitCall
  <2>13. CASE WaitCheck(t) BY <2>13, ClientsAssumption DEF WaitCheck, WaitReturn
  <2>14. CASE WaitBlock(t) BY <2>14, ClientsAssumption DEF WaitBlock
  <2>15. CASE SpuriousWakeup(t) BY <2>15, ClientsAssumption DEF SpuriousWakeup
  <2>16. CASE WaitTimeout(t) BY <2>16, ClientsAssumption DEF WaitTimeout
  <2>17. CASE WaitExpired(t) BY <2>17, ClientsAssumption DEF WaitExpired, WaitReturn
  <2>18. CASE Destroy(t) BY <2>18, ClientsAssumption DEF Destroy, Queue!Clear
  <2>19. CASE DestroyJoin(t)
    <3>1. \A u \in Clients : u # t => pc[u] = "idle" BY <2>19 DEF DestroyJoin, DestroySteps
    <3>2. reader' = "none" BY <2>19 DEF DestroyJoin, DestroySteps
    <3>. QED BY <2>19, <3>1, <3>2 DEF DestroyJoin
  <2>. QED
    BY <1>1, <2>1, <2>2, <2>3, <2>4, <2>5, <2>6, <2>7, <2>8, <2>9, <2>10, <2>11, <2>12,
       <2>13, <2>14, <2>15, <2>16, <2>17, <2>18, <2>19 DEF ClientNext, Begin, Continue
<1>2. CASE ReaderNext
  <2>. USE DEF ReaderGoto
  <2>1. CASE ReadLoop BY <2>1, ClientsAssumption DEF ReadLoop
  <2>2. CASE ReadLineIsOpen \/ StartRead
    BY <2>2, ClientsAssumption DEF ReadLineIsOpen, StartRead
  <2>3. CASE Device
    BY <2>3, ClientsAssumption DEF Device, ReadChar, ReadOtherLine, ReadGpggaLine, ReadError, DecodeThrows
  <2>4. CASE ReadAborted BY <2>4, ClientsAssumption DEF ReadAborted
  <2>5. CASE ReadClose BY <2>5, ClientsAssumption DEF ReadClose
  <2>6. CASE PushSample BY <2>6, ClientsAssumption DEF PushSample
  <2>7. CASE SetReceived BY <2>7, ClientsAssumption DEF SetReceived
  <2>8. CASE NotifySample \/ NotifyStop
    BY <2>8, ClientsAssumption DEF NotifySample, NotifyStop, NotifyAndGoto, NotifyAll
  <2>9. CASE StopRoutine BY <2>9, ClientsAssumption DEF StopRoutine
  <2>10. CASE RaiseError BY <2>10, ClientsAssumption DEF RaiseError
  <2>. QED
    BY <1>2, <2>1, <2>2, <2>3, <2>4, <2>5, <2>6, <2>7, <2>8, <2>9, <2>10
       DEF ReaderNext, ReaderInternal
<1>3. CASE UNCHANGED vars BY <1>3 DEF vars
<1>. QED BY <1>1, <1>2, <1>3 DEF Next, Terminating

\* The inductive invariant behind the theorems about the read thread.
LEMMA ThreadInvariant == Spec => []ThreadInv
<1>1. Init => ThreadInv
  BY ClientsAssumption
     DEF Init, ThreadInv, HandleInv, PortLockInv, DestroyInv, DestroySteps, PortInv, Delivers, Reading
<1>2. TypeOK /\ ThreadInv /\ [Next]_vars => ThreadInv'
  BY HandleStep, PortLockStep, DestroyStep, PortStep DEF ThreadInv
<1>. QED BY <1>1, <1>2, TypeCorrect, PTL DEF Spec

\* Once close() has returned, or a caller sees a port that an error closed, no
\* sample enters the queue until somebody opens it again
\* (EasyNmeaImpl.cpp:111-114 and 217, SerialInterface.hpp:169).
THEOREM ClosedIsQuiet == Spec => []ClosedMeansQuiet
<1>1. ThreadInv => ClosedMeansQuiet
  BY ClientsAssumption DEF ThreadInv, PortLockInv, PortInv, ClosedMeansQuiet
<1>. QED BY <1>1, ThreadInvariant, PTL

\* The destructor leaves no read thread behind, whatever the outcome of the
\* close() it starts with (EasyNmeaImpl.cpp:54-61).
THEOREM ReaderJoined == Spec => []NoReaderOutlivesObject
<1>1. ThreadInv => NoReaderOutlivesObject
  BY DEF ThreadInv, HandleInv, DestroyInv, NoReaderOutlivesObject
<1>. QED BY <1>1, ThreadInvariant, PTL

\* The read thread is there, and nobody has told it to stop.
Sound == read_thread_ /\ Delivers /\ routine_running_

\* What each end of a connection leaves behind, step by step of open(), of
\* close() and of the read thread.
RunInv ==
    crash = "none" =>
        /\ \A t \in Clients : pc[t] = "join" => ~serial_open
        /\ \A t \in Clients : pc[t] \in {"close_port", "join"} => ~routine_running_
        /\ \A t \in Clients : pc[t] = "clear_error" /\ serial_open => Sound
        /\ serial_open =>
              internal_error_ \/ Sound \/ \E t \in Clients : pc[t] \in {"spawn", "close_port"}
        /\ reader = "exited" => ~routine_running_
        /\ routine_running_ => reader \in Reading \cup {"loop", "stop"}

\* The port is open only while its connection is being made, is served by the
\* read thread, or failed half way (EasyNmeaImpl.cpp:77-91, 111-115, 208-219).
LEMMA RunStep ==
    TypeOK /\ HandleInv /\ PortLockInv /\ DestroyInv /\ RunInv /\ [Next]_vars => RunInv'
<1>. SUFFICES ASSUME TypeOK, HandleInv, PortLockInv, DestroyInv, RunInv, [Next]_vars PROVE RunInv' OBVIOUS
<1>. USE DEF TypeOK, HandleInv, PortLockInv, RunInv, Sound, Delivers, Reading
<1>1. ASSUME NEW t \in Clients, ClientNext(t) PROVE RunInv'
  <2>1. CASE OpenCall(t) BY <2>1, ClientsAssumption DEF OpenCall
  <2>2. CASE OpenPort(t) BY <2>2, ClientsAssumption DEF OpenPort
  <2>3. CASE OpenSpawn(t) BY <2>3, ClientsAssumption DEF OpenSpawn
  <2>4. CASE OpenReturn(t) BY <2>4, ClientsAssumption DEF OpenReturn
  <2>5. CASE CloseCall(t) BY <2>5, ClientsAssumption DEF CloseCall, StartClose, AfterClose
  <2>6. CASE CloseStop(t) BY <2>6, ClientsAssumption DEF CloseStop
  <2>7. CASE ClosePort(t) BY <2>7, ClientsAssumption DEF ClosePort
  <2>8. CASE CloseJoin(t) BY <2>8, ClientsAssumption DEF CloseJoin
  <2>9. CASE CloseNotify(t) BY <2>9, ClientsAssumption DEF CloseNotify, AfterClose, NotifyAll
  <2>10. CASE TakeNext(t) BY <2>10, ClientsAssumption DEF TakeNext
  <2>11. CASE TakeUpdate(t) BY <2>11, ClientsAssumption DEF TakeUpdate, StillReceived
  <2>12. CASE WaitCall(t) BY <2>12, ClientsAssumption DEF WaitCall
  <2>13. CASE WaitCheck(t) BY <2>13, ClientsAssumption DEF WaitCheck, WaitReturn
  <2>14. CASE WaitBlock(t) BY <2>14, ClientsAssumption DEF WaitBlock
  <2>15. CASE SpuriousWakeup(t) BY <2>15, ClientsAssumption DEF SpuriousWakeup
  <2>16. CASE WaitTimeout(t) BY <2>16, ClientsAssumption DEF WaitTimeout
  <2>17. CASE WaitExpired(t) BY <2>17, ClientsAssumption DEF WaitExpired, WaitReturn
  <2>18. CASE Destroy(t) BY <2>18, ClientsAssumption DEF Destroy, Queue!Clear
  <2>19. CASE DestroyJoin(t)
    <3>1. \A u \in Clients : u # t => pc[u] = "idle"
      BY <2>19 DEF DestroyJoin, DestroyInv, DestroySteps
    <3>. QED BY <2>19, <3>1, ClientsAssumption DEF DestroyJoin
  <2>. QED
    BY <1>1, <2>1, <2>2, <2>3, <2>4, <2>5, <2>6, <2>7, <2>8, <2>9, <2>10, <2>11, <2>12,
       <2>13, <2>14, <2>15, <2>16, <2>17, <2>18, <2>19 DEF ClientNext, Begin, Continue
<1>2. CASE ReaderNext
  <2>. USE DEF ReaderGoto
  <2>1. CASE ReadLoop BY <2>1, ClientsAssumption DEF ReadLoop
  <2>2. CASE ReadLineIsOpen \/ StartRead BY <2>2, ClientsAssumption DEF ReadLineIsOpen, StartRead
  <2>3. CASE Device BY <2>3, ClientsAssumption DEF Device, ReadChar, ReadOtherLine, ReadGpggaLine, ReadError, DecodeThrows
  <2>4. CASE ReadAborted BY <2>4, ClientsAssumption DEF ReadAborted
  <2>5. CASE ReadClose BY <2>5, ClientsAssumption DEF ReadClose
  <2>6. CASE PushSample BY <2>6, ClientsAssumption DEF PushSample
  <2>7. CASE SetReceived BY <2>7, ClientsAssumption DEF SetReceived
  <2>8. CASE NotifySample \/ NotifyStop BY <2>8, ClientsAssumption DEF NotifySample, NotifyStop, NotifyAndGoto, NotifyAll
  <2>9. CASE StopRoutine BY <2>9, ClientsAssumption DEF StopRoutine
  <2>10. CASE RaiseError BY <2>10, ClientsAssumption DEF RaiseError
  <2>. QED
    BY <1>2, <2>1, <2>2, <2>3, <2>4, <2>5, <2>6, <2>7, <2>8, <2>9, <2>10
       DEF ReaderNext, ReaderInternal
<1>3. CASE UNCHANGED vars BY <1>3 DEF vars
<1>. QED BY <1>1, <1>2, <1>3 DEF Next, Terminating

\* The inductive invariant behind OpenIsReading.
LEMMA RunInvariant == Spec => []RunInv
<1>1. Init => RunInv BY DEF Init, RunInv, Sound, Delivers, Reading
<1>2. TypeOK /\ ThreadInv /\ RunInv /\ [Next]_vars => RunInv' BY RunStep DEF ThreadInv
<1>. QED BY <1>1, <1>2, TypeCorrect, ThreadInvariant, PTL DEF Spec

\* An open interface is one whose read thread is alive and keeps reading, or
\* the open() before it failed half way and said so
\* (EasyNmeaImpl.cpp:77-91 and 111-115, SerialInterface.hpp:169).
THEOREM OpenIsReading == Spec => []OpenMeansReading
<1>1. ThreadInv /\ RunInv => OpenMeansReading
  BY ClientsAssumption DEF ThreadInv, PortLockInv, RunInv, Sound, OpenMeansReading
<1>. QED BY <1>1, ThreadInvariant, RunInvariant, PTL

-----------------------------------------------------------------------------
(* EasyNmeaImpl implements NmeaReceiver.  Every step is one step of the     *)
(* abstract receiver, or leaves its variables alone: a take happens when    *)
(* the queue is popped, the answer to a wait when its predicate is          *)
(* evaluated for the last time, and the connection follows the flag and the *)
(* read thread.                                                             *)

\* Waits only happen while the object is alive.
WaitLifeInv == \A t \in Clients : pc[t] \in WaitSteps => life = "alive"

\* A wait begins on an object that is alive, and nobody destroys an object that
\* somebody waits on (EasyNmeaImpl.cpp:146).
LEMMA WaitLifeStep ==
    TypeOK /\ DestroyInv /\ WaitLifeInv /\ [Next]_vars => WaitLifeInv'
<1>. SUFFICES ASSUME TypeOK, DestroyInv, WaitLifeInv, [Next]_vars PROVE WaitLifeInv' OBVIOUS
<1>. USE DEF TypeOK, WaitLifeInv, WaitSteps
<1>1. ASSUME NEW t \in Clients, ClientNext(t) PROVE WaitLifeInv'
  <2>1. CASE OpenCall(t) BY <2>1 DEF OpenCall
  <2>2. CASE OpenPort(t) BY <2>2 DEF OpenPort
  <2>3. CASE OpenSpawn(t) BY <2>3 DEF OpenSpawn
  <2>4. CASE OpenReturn(t) BY <2>4 DEF OpenReturn
  <2>5. CASE CloseCall(t) BY <2>5 DEF CloseCall, StartClose, AfterClose
  <2>6. CASE CloseStop(t) BY <2>6 DEF CloseStop
  <2>7. CASE ClosePort(t) BY <2>7 DEF ClosePort
  <2>8. CASE CloseJoin(t) BY <2>8 DEF CloseJoin
  <2>9. CASE CloseNotify(t) BY <2>9 DEF CloseNotify, AfterClose, NotifyAll
  <2>10. CASE TakeNext(t) BY <2>10 DEF TakeNext
  <2>11. CASE TakeUpdate(t) BY <2>11 DEF TakeUpdate, StillReceived
  <2>12. CASE WaitCall(t) BY <2>12 DEF WaitCall
  <2>13. CASE WaitCheck(t) BY <2>13 DEF WaitCheck, WaitReturn
  <2>14. CASE WaitBlock(t) BY <2>14 DEF WaitBlock
  <2>15. CASE SpuriousWakeup(t) BY <2>15 DEF SpuriousWakeup
  <2>16. CASE WaitTimeout(t) BY <2>16 DEF WaitTimeout
  <2>17. CASE WaitExpired(t) BY <2>17 DEF WaitExpired, WaitReturn
  <2>18. CASE Destroy(t) BY <2>18 DEF Destroy, Queue!Clear
  <2>19. CASE DestroyJoin(t) BY <2>19 DEF DestroyJoin, DestroyInv, DestroySteps
  <2>. QED
    BY <1>1, <2>1, <2>2, <2>3, <2>4, <2>5, <2>6, <2>7, <2>8, <2>9, <2>10, <2>11, <2>12,
       <2>13, <2>14, <2>15, <2>16, <2>17, <2>18, <2>19 DEF ClientNext, Begin, Continue
<1>2. CASE ReaderNext
  <2>. USE DEF ReaderGoto
  <2>1. CASE ReadLoop BY <2>1 DEF ReadLoop
  <2>2. CASE ReadLineIsOpen \/ StartRead BY <2>2 DEF ReadLineIsOpen, StartRead
  <2>3. CASE Device BY <2>3 DEF Device, ReadChar, ReadOtherLine, ReadGpggaLine, ReadError, DecodeThrows
  <2>4. CASE ReadAborted BY <2>4 DEF ReadAborted
  <2>5. CASE ReadClose BY <2>5 DEF ReadClose
  <2>6. CASE PushSample BY <2>6 DEF PushSample
  <2>7. CASE SetReceived BY <2>7 DEF SetReceived
  <2>8. CASE NotifySample \/ NotifyStop
    BY <2>8 DEF NotifySample, NotifyStop, NotifyAndGoto, NotifyAll
  <2>9. CASE StopRoutine BY <2>9 DEF StopRoutine
  <2>10. CASE RaiseError BY <2>10 DEF RaiseError
  <2>. QED
    BY <1>2, <2>1, <2>2, <2>3, <2>4, <2>5, <2>6, <2>7, <2>8, <2>9, <2>10
       DEF ReaderNext, ReaderInternal
<1>3. CASE UNCHANGED vars BY <1>3 DEF vars
<1>. QED BY <1>1, <1>2, <1>3 DEF Next, Terminating

\* What the refinement needs to know of a state.
ReceiverInv == TypeOK /\ DataInv /\ ThreadInv /\ RunInv /\ WaitLifeInv

\* The invariant of the refinement holds of every behaviour.
LEMMA ReceiverInvariant == Spec => []ReceiverInv
<1>1. Init => WaitLifeInv BY DEF Init, WaitLifeInv
<1>2. TypeOK /\ ThreadInv /\ WaitLifeInv /\ [Next]_vars => WaitLifeInv'
  BY WaitLifeStep DEF ThreadInv
<1>. QED
  BY <1>1, <1>2, TypeCorrect, DataInvariant, ThreadInvariant, RunInvariant, PTL DEF Spec, ReceiverInv

-----------------------------------------------------------------------------
(* The steps of the receiver, in terms of the variables of EasyNmeaImpl *)

Samples == <<gpgga_data_queue_, produced, gpgga>>
Waiting(t) == pc[t] \in WaitSteps

\* The connection is a function of the flag, the read thread and the process.
LEMMA LinkFrame == UNCHANGED <<crash, routine_running_, reader>> => UNCHANGED Link
BY DEF Link, Delivers, Reading

\* Who waits, and for what, does not change while no wait begins or ends.
LEMMA AwaitingFrame ==
    UNCHANGED data_mask /\ (\A t \in Clients : Waiting(t)' <=> Waiting(t)) => UNCHANGED Awaiting
BY DEF Awaiting, Waiting

\* A step that the callers cannot see.
LEMMA StutterStep ==
    ASSUME UNCHANGED <<Link, Samples, data_mask, ret>>,
           \A t \in Clients : Waiting(t)' <=> Waiting(t)
    PROVE  [Receiver!Next]_(Receiver!rvars)
BY AwaitingFrame DEF Samples, Receiver!rvars

\* A step that only changes the connection.
LEMMA LinkChange ==
    ASSUME UNCHANGED <<Samples, data_mask, ret>>,
           \A t \in Clients : Waiting(t)' <=> Waiting(t),
           <<Link, Link'>> \in {<<"down", "up">>, <<"up", "draining">>, <<"up", "ended">>,
                                <<"draining", "ended">>, <<"ended", "down">>}
                               \cup {<<l, "dead">> : l \in {"down", "up", "draining", "ended"}}
    PROVE  [Receiver!Next]_(Receiver!rvars)
BY AwaitingFrame DEF Samples, Receiver!Next, Receiver!LinkStep

\* A step that returns from anything but a wait.
LEMMA ReplyStep ==
    ASSUME TypeOK, NEW t \in Clients, NEW code \in {"OK", "NO_DATA", "ILLEGAL_OPERATION", "ERROR"},
           code = "NO_DATA" => gpgga_data_queue_ = <<>>,
           ret' = [ret EXCEPT ![t] = code],
           ~Waiting(t),
           UNCHANGED <<Link, Samples, data_mask>>,
           \A u \in Clients : Waiting(u)' <=> Waiting(u)
    PROVE  [Receiver!Next]_(Receiver!rvars)
<1>1. Awaiting[t] = NoOwner BY DEF Awaiting, Waiting
<1>2. UNCHANGED Awaiting BY AwaitingFrame
<1>3. Receiver!Reply(t, code) BY <1>1, <1>2 DEF Samples, Receiver!Reply
<1>. QED BY <1>3 DEF Receiver!Next, Receiver!Codes

\* A step that returns from a wait.
LEMMA AnswerStep ==
    ASSUME ReceiverInv, NEW t \in Clients, NEW code \in {"OK", "TIMEOUT", "ERROR"},
           crash = "none", Waiting(t), data_mutex_ = NoOwner,
           WaitReturn(t, code),
           code = "TIMEOUT" => ~WaitPredicate(t),
           code # "TIMEOUT" => WaitPredicate(t) /\ code = WaitVerdict(t),
           UNCHANGED <<Link, Samples>>
    PROVE  [Receiver!Next]_(Receiver!rvars)
<1>. USE DEF ReceiverInv, TypeOK
<1>1. Awaiting[t] = data_mask[t] /\ data_mask[t] # NoOwner
  BY MasksAssumption DEF Awaiting, Waiting
<1>2. Awaiting' = [Awaiting EXCEPT ![t] = NoOwner]
  BY DEF Awaiting, WaitReturn, WaitSteps
<1>3. ret' = [ret EXCEPT ![t] = code] BY DEF WaitReturn
<1>4. GPGGA \in data_received_ <=> gpgga_data_queue_ # <<>>
  BY DEF DataInv, BitInv, BitMatches, WaitLifeInv, Waiting
<1>5. Link = "up" <=> routine_running_ BY DEF Link
<1>6. Receiver!HasAwaited(t) <=> GPGGA \in data_mask[t] /\ GPGGA \in data_received_
  BY <1>1, <1>4 DEF Receiver!HasAwaited
<1>7. code = "OK" => gpgga_data_queue_ # <<>> /\ (Link = "up" => Receiver!HasAwaited(t))
  BY <1>4, <1>5, <1>6 DEF WaitVerdict, WaitPredicate, Mask!IsNone
<1>8. code = "TIMEOUT" => Link = "up" /\ ~Receiver!HasAwaited(t)
  BY <1>5, <1>6 DEF WaitPredicate
<1>9. code = "ERROR" => Link # "up" /\ ~Receiver!HasAwaited(t)
  BY <1>5, <1>6 DEF WaitVerdict, WaitPredicate, Mask!IsNone
<1>10. Receiver!Answer(t)
  BY <1>1, <1>2, <1>3, <1>7, <1>8, <1>9 DEF Receiver!Answer, Samples
<1>. QED BY <1>10 DEF Receiver!Next

-----------------------------------------------------------------------------
(* Every step refines a step *)

\* A step of a client: the instant of each call (EasyNmeaImpl.cpp:46-180).
LEMMA ClientRefines ==
    ASSUME ReceiverInv, NEW t \in Clients, ClientNext(t)
    PROVE  [Receiver!Next]_(Receiver!rvars)
<1>. USE DEF ReceiverInv, TypeOK, Samples, Waiting, WaitSteps
<1>1. CASE OpenCall(t)
  <2>1. CASE serial_open
    <3>1. Return(t, "ILLEGAL_OPERATION") BY <1>1, <2>1 DEF OpenCall
    <3>. QED BY <1>1, <3>1, ReplyStep, LinkFrame DEF OpenCall
  <2>2. CASE ~serial_open BY <1>1, <2>2, StutterStep, LinkFrame DEF OpenCall
  <2>. QED BY <2>1, <2>2
<1>2. CASE OpenPort(t)
  <2>1. CASE pc'[t] = "spawn" BY <1>2, <2>1, StutterStep, LinkFrame DEF OpenPort
  <2>2. CASE pc'[t] # "spawn"
    <3>1. Return(t, "ERROR") BY <1>2, <2>2 DEF OpenPort
    <3>. QED BY <1>2, <3>1, ReplyStep, LinkFrame DEF OpenPort
  <2>. QED BY <2>1, <2>2
<1>3. CASE OpenSpawn(t)
  <2>1. CASE read_thread_
    <3>1. Link # "dead" /\ Link' = "dead" BY <1>3, <2>1 DEF OpenSpawn, Link
    <3>2. Link \in {"down", "up", "draining", "ended"} BY <3>1 DEF Link
    <3>. QED BY <1>3, <2>1, <3>1, <3>2, LinkChange DEF OpenSpawn
  <2>2. CASE ~read_thread_
    <3>1. reader = "none" /\ ~routine_running_
      BY <1>3, <2>2 DEF DataInv, HandleInv, RunInv, Reading, OpenSpawn
    <3>2. Link = "down" /\ Link' = "up"
      BY <1>3, <2>2, <3>1 DEF OpenSpawn, Link, Delivers, Reading
    <3>. QED BY <1>3, <2>2, <3>2, LinkChange DEF OpenSpawn
  <2>. QED BY <2>1, <2>2
<1>4. CASE OpenReturn(t) BY <1>4, ReplyStep, LinkFrame DEF OpenReturn
<1>5. CASE CloseCall(t)
  <2>1. CASE serial_open BY <1>5, <2>1, StutterStep, LinkFrame DEF CloseCall, StartClose
  <2>2. CASE ~serial_open
    <3>1. Goto(t, AfterClose) /\ ret' = [ret EXCEPT ![t] = "ILLEGAL_OPERATION"]
      BY <1>5, <2>2 DEF CloseCall
    <3>. QED BY <1>5, <3>1, ReplyStep, LinkFrame DEF CloseCall, StartClose, AfterClose
  <2>. QED BY <2>1, <2>2
<1>6. CASE CloseStop(t)
  <2>1. CASE ~routine_running_ BY <1>6, <2>1, StutterStep, LinkFrame DEF CloseStop
  <2>2. CASE routine_running_
    <3>1. reader # "none" BY <1>6, <2>2 DEF RunInv, Reading, CloseStop
    <3>2. Link = "up" /\ Link' \in {"draining", "ended"}
      BY <1>6, <2>2, <3>1 DEF CloseStop, Link
    <3>. QED BY <1>6, <3>2, LinkChange DEF CloseStop
  <2>. QED BY <2>1, <2>2
<1>7. CASE ClosePort(t)
  <2>1. PICK code \in {"OK", "ERROR"} : ret' = [ret EXCEPT ![t] = code] BY <1>7 DEF ClosePort
  <2>. QED BY <1>7, <2>1, ReplyStep, LinkFrame DEF ClosePort
<1>8. CASE CloseJoin(t)
  <2>1. CASE read_thread_
    <3>1. reader = "exited" /\ ~routine_running_ BY <1>8, <2>1 DEF RunInv, CloseJoin
    <3>2. Link = "ended" /\ Link' = "down"
      BY <1>8, <2>1, <3>1 DEF CloseJoin, Link, Delivers, Reading
    <3>. QED BY <1>8, <2>1, <3>2, LinkChange DEF CloseJoin
  <2>2. CASE ~read_thread_
    <3>1. Link # "dead" /\ Link' = "dead" BY <1>8, <2>2 DEF CloseJoin, Link
    <3>2. Link \in {"down", "up", "draining", "ended"} BY <3>1 DEF Link
    <3>. QED BY <1>8, <2>2, <3>1, <3>2, LinkChange DEF CloseJoin
  <2>. QED BY <2>1, <2>2
<1>9. CASE CloseNotify(t)
  BY <1>9, StutterStep, LinkFrame DEF CloseNotify, NotifyAll, AfterClose
<1>10. CASE TakeNext(t)
  <2>1. CASE gpgga_data_queue_ = <<>> BY <1>10, <2>1, ReplyStep, LinkFrame DEF TakeNext
  <2>2. CASE gpgga_data_queue_ # <<>>
    <3>1. UNCHANGED <<Link, Awaiting>>
      BY <1>10, <2>2, LinkFrame, AwaitingFrame DEF TakeNext
    <3>2. Awaiting[t] = NoOwner BY <1>10 DEF TakeNext, Awaiting
    <3>3. Receiver!Take(t) BY <1>10, <2>2, <3>1, <3>2 DEF TakeNext, Receiver!Take
    <3>. QED BY <3>3 DEF Receiver!Next
  <2>. QED BY <2>1, <2>2
<1>11. CASE TakeUpdate(t) BY <1>11, ReplyStep, LinkFrame DEF TakeUpdate
<1>12. CASE WaitCall(t)
  <2>1. CASE serial_open
    <3>1. PICK mask \in Masks : data_mask' = [data_mask EXCEPT ![t] = mask]
      BY <1>12, <2>1 DEF WaitCall
    <3>2. Awaiting[t] = NoOwner BY <1>12 DEF WaitCall, Awaiting
    <3>3. Awaiting' = [Awaiting EXCEPT ![t] = mask]
      BY <1>12, <2>1, <3>1 DEF WaitCall, Awaiting
    <3>4. UNCHANGED Link BY <1>12, LinkFrame DEF WaitCall
    <3>5. Receiver!Await(t) BY <1>12, <2>1, <3>2, <3>3, <3>4 DEF WaitCall, Receiver!Await
    <3>. QED BY <3>5 DEF Receiver!Next
  <2>2. CASE ~serial_open
    <3>1. Return(t, "ILLEGAL_OPERATION") BY <1>12, <2>2 DEF WaitCall
    <3>. QED BY <1>12, <2>2, <3>1, ReplyStep, LinkFrame DEF WaitCall
  <2>. QED BY <2>1, <2>2
<1>13. CASE WaitCheck(t)
  <2>1. CASE WaitPredicate(t)
    <3>1. WaitReturn(t, WaitVerdict(t)) /\ WaitVerdict(t) \in {"OK", "ERROR"}
      BY <1>13, <2>1 DEF WaitCheck, WaitVerdict
    <3>2. UNCHANGED <<Link, Samples>> /\ data_mutex_ = NoOwner /\ crash = "none"
      BY <1>13, LinkFrame DEF WaitCheck
    <3>. QED BY <1>13, <2>1, <3>1, <3>2, AnswerStep DEF WaitCheck
  <2>2. CASE ~WaitPredicate(t) BY <1>13, <2>2, StutterStep, LinkFrame DEF WaitCheck
  <2>. QED BY <2>1, <2>2
<1>14. CASE WaitBlock(t) BY <1>14, StutterStep, LinkFrame DEF WaitBlock
<1>15. CASE SpuriousWakeup(t) BY <1>15, StutterStep, LinkFrame DEF SpuriousWakeup
<1>16. CASE WaitTimeout(t) BY <1>16, StutterStep, LinkFrame DEF WaitTimeout
<1>17. CASE WaitExpired(t)
  <2>1. UNCHANGED <<Link, Samples>> /\ data_mutex_ = NoOwner /\ crash = "none"
    BY <1>17, LinkFrame DEF WaitExpired
  <2>2. CASE WaitPredicate(t)
    <3>1. WaitReturn(t, WaitVerdict(t)) /\ WaitVerdict(t) \in {"OK", "ERROR"}
      BY <1>17, <2>2 DEF WaitExpired, WaitVerdict
    <3>. QED BY <1>17, <2>1, <2>2, <3>1, AnswerStep DEF WaitExpired
  <2>3. CASE ~WaitPredicate(t)
    <3>1. WaitReturn(t, "TIMEOUT") BY <1>17, <2>3 DEF WaitExpired
    <3>. QED BY <1>17, <2>1, <2>3, <3>1, AnswerStep DEF WaitExpired
  <2>. QED BY <2>2, <2>3
<1>18. CASE Destroy(t)
  <2>1. \A u \in Clients : Awaiting[u] = NoOwner BY <1>18 DEF Destroy, Awaiting
  <2>2. UNCHANGED Awaiting BY <1>18, AwaitingFrame DEF Destroy
  <2>3. Link' \in {Link, "dead"} BY <1>18 DEF Destroy, Link, Delivers, Reading
  <2>4. Receiver!Discard BY <1>18, <2>1, <2>2, <2>3 DEF Destroy, Queue!Clear, Receiver!Discard
  <2>. QED BY <2>4 DEF Receiver!Next
<1>19. CASE DestroyJoin(t)
  <2>1. UNCHANGED <<Samples, data_mask, ret>> /\ \A u \in Clients : Waiting(u)' <=> Waiting(u)
    BY <1>19 DEF DestroyJoin
  <2>2. CASE UNCHANGED <<reader, read_thread_>>
    BY <1>19, <2>1, <2>2, StutterStep, LinkFrame DEF DestroyJoin
  <2>3. CASE ~UNCHANGED <<reader, read_thread_>>
    <3>1. reader = "exited" /\ ~routine_running_ BY <1>19, <2>3 DEF RunInv, DestroyJoin
    <3>2. Link = "ended" /\ Link' = "down"
      BY <1>19, <2>3, <3>1 DEF DestroyJoin, Link, Delivers, Reading
    <3>. QED BY <2>1, <3>2, LinkChange
  <2>. QED BY <2>2, <2>3
<1>. QED
  BY <1>1, <1>2, <1>3, <1>4, <1>5, <1>6, <1>7, <1>8, <1>9, <1>10, <1>11, <1>12,
     <1>13, <1>14, <1>15, <1>16, <1>17, <1>18, <1>19 DEF ClientNext, Begin, Continue

\* A step of the read thread: only a push and the end of the connection can be
\* seen (EasyNmeaImpl.cpp:182-221).
LEMMA ReaderRefines ==
    ASSUME ReceiverInv, ReaderNext
    PROVE  [Receiver!Next]_(Receiver!rvars)
<1>. USE DEF ReceiverInv, TypeOK, Samples, Waiting, WaitSteps, ReaderGoto
<1>1. ASSUME UNCHANGED <<Samples, data_mask, ret, crash>>, crash = "none",
             \A t \in Clients : Waiting(t)' <=> Waiting(t),
             reader # "none", reader' # "none",
             routine_running_' => routine_running_,
             Delivers' => Delivers
      PROVE  [Receiver!Next]_(Receiver!rvars)
  <2>1. CASE UNCHANGED Link BY <1>1, <2>1, StutterStep
  <2>2. CASE Link' # Link
    <3>1. <<Link, Link'>> \in {<<"up", "draining">>, <<"up", "ended">>, <<"draining", "ended">>}
      BY <1>1, <2>2 DEF Link
    <3>. QED BY <1>1, <3>1, LinkChange
  <2>. QED BY <2>1, <2>2
<1>2. CASE PushSample
  <2>1. UNCHANGED <<Link, Awaiting>>
    BY <1>2, AwaitingFrame DEF PushSample, Link, Delivers, Reading
  <2>2. Link \in {"up", "draining"} BY <1>2 DEF PushSample, Link, Delivers, Reading
  <2>3. Receiver!Arrive BY <1>2, <2>1, <2>2 DEF PushSample, Queue!Push, Receiver!Arrive
  <2>. QED BY <2>3 DEF Receiver!Next
<1>3. CASE ReadLoop BY <1>1, <1>3 DEF ReadLoop, Delivers, Reading
<1>4. CASE ReadLineIsOpen \/ StartRead
  BY <1>1, <1>4 DEF ReadLineIsOpen, StartRead, Delivers, Reading
<1>5. CASE Device
  <2>1. CASE ReadChar \/ ReadOtherLine \/ ReadGpggaLine \/ ReadError
    BY <1>1, <2>1 DEF ReadChar, ReadOtherLine, ReadGpggaLine, ReadError, Delivers, Reading
  <2>2. CASE DecodeThrows
    <3>1. Link \in {"down", "up", "draining", "ended"} /\ Link' = "dead"
      BY <2>2 DEF DecodeThrows, Link
    <3>2. UNCHANGED <<Samples, data_mask, ret>> /\ \A t \in Clients : Waiting(t)' <=> Waiting(t)
      BY <2>2 DEF DecodeThrows
    <3>. QED BY <3>1, <3>2, LinkChange
  <2>. QED BY <1>5, <2>1, <2>2 DEF Device
<1>6. CASE ReadAborted BY <1>1, <1>6 DEF ReadAborted, Delivers, Reading
<1>7. CASE ReadClose BY <1>1, <1>7 DEF ReadClose, Delivers, Reading
<1>8. CASE SetReceived BY <1>1, <1>8 DEF SetReceived, Delivers, Reading
<1>9. CASE NotifySample
  BY <1>1, <1>9 DEF NotifySample, NotifyAndGoto, NotifyAll, Delivers, Reading
<1>10. CASE NotifyStop
  <2>1. ~routine_running_ BY <1>10 DEF ThreadInv, PortInv, NotifyStop, NotifyAndGoto
  <2>. QED BY <1>1, <1>10, <2>1 DEF NotifyStop, NotifyAndGoto, NotifyAll, Delivers, Reading
<1>11. CASE StopRoutine BY <1>1, <1>11 DEF StopRoutine, Delivers, Reading
<1>12. CASE RaiseError BY <1>1, <1>12 DEF RaiseError, Delivers, Reading
<1>. QED
  BY <1>2, <1>3, <1>4, <1>5, <1>6, <1>7, <1>8, <1>9, <1>10, <1>11, <1>12
     DEF ReaderNext, ReaderInternal

\* To its callers the object is an NmeaReceiver: every take and every result of
\* a wait is right at one instant, and samples only come from a connection that
\* has not ended, for every interleaving (EasyNmeaImpl.cpp:66-221).
THEOREM ReceiverImplemented == Spec => ImplementsReceiver
<1>1. Init => Receiver!Init
  BY DEF Init, Receiver!Init, Link, Delivers, Reading, Awaiting, WaitSteps
<1>2. ReceiverInv /\ [Next]_vars => [Receiver!Next]_(Receiver!rvars)
  <2>. SUFFICES ASSUME ReceiverInv, [Next]_vars PROVE [Receiver!Next]_(Receiver!rvars) OBVIOUS
  <2>1. CASE UNCHANGED vars
    BY <2>1, StutterStep, LinkFrame DEF vars, Samples, Waiting
  <2>2. CASE Next /\ ~UNCHANGED vars
    BY <2>2, ClientRefines, ReaderRefines DEF Next, Terminating
  <2>. QED BY <2>1, <2>2
<1>. QED BY <1>1, <1>2, ReceiverInvariant, PTL DEF Spec, ImplementsReceiver, Receiver!Spec
=============================================================================
