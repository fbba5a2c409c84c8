----------------------------- MODULE ConsoleProofs -----------------------------
(***************************************************************************)
(* The console for all lengths of its two intervals and all numbers of     *)
(* characters: its types, its interrupts, the distance it keeps between    *)
(* characters and the order in which they pass.                            *)
(***************************************************************************)
EXTENDS Console, SequenceTheorems, TLAPS

(* An unread character still has the polls before it that are missing to its *)
(* interval; so has the transmitter to its own, since the last character.    *)
RecvAge == recv_ready = 1 => age + recv_buffer_full_timer >= RECV_INTERVAL
TransAge == quiet + trans_buffer_full_timer >= TRANS_LATENCY

RecvInv == RecvOK /\ RecvInterruptExact /\ RecvAge
TransInv == TransOK /\ TransInterruptExact /\ TransAge
IInv == RecvInv /\ TransInv /\ DriverOK

-------------------------------------------------------------------------------
LEMMA InitIInv == Init => IInv
<1> SUFFICES ASSUME Init PROVE IInv
  OBVIOUS
<1> USE ConsoleAssumption DEF Init, Bit
<1>1. RecvOK /\ RecvAge
  BY EmptySeq DEF RecvOK, RecvAge
<1>2. TransOK /\ TransAge
  BY EmptySeq DEF TransOK, TransAge
<1>3. DriverOK
  BY EmptySeq DEF DriverOK
<1>4. RecvInterruptExact /\ TransInterruptExact
  BY DEF RecvInterruptExact, TransInterruptExact
<1>5. QED BY <1>1, <1>2, <1>3, <1>4 DEF IInv, RecvInv, TransInv

(* What the prompt, or an aborted poll, leaves of the receiver. *)
LEMMA RecvKept ==
  ASSUME RecvInv, unread' \in Seq(0..MaxTyped),
         UNCHANGED <<recv_ready, recv_enable, recv_buffer, recv_buffer_full_timer, recv_ip,
                     age, recv_wiped>>
  PROVE  RecvInv'
  BY DEF RecvInv, RecvOK, RecvInterruptExact, RecvAge

LEMMA TransKept ==
  ASSUME TransInv, UNCHANGED transmitter
  PROVE  TransInv'
  BY DEF TransInv, TransOK, TransInterruptExact, TransAge, transmitter

(* A poll moves the receiver's timer and its age in opposite directions. *)
LEMMA RecvPolled ==
  ASSUME RecvInv, RecvWaits \/ RecvIdle \/ RecvChar
  PROVE  RecvInv'
<1> USE ConsoleAssumption DEF RecvInv, RecvOK, RecvInterruptExact, RecvAge, Least, Bit, Or
<1>1. CASE RecvWaits
  BY <1>1 DEF RecvWaits
<1>2. CASE RecvIdle
  BY <1>2 DEF RecvIdle
<1>3. CASE RecvChar
  <2>1. unread # <<>> /\ unread \in Seq(0..MaxTyped)
    BY <1>3 DEF RecvChar, CharTyped
  <2>2. Head(unread) \in 0..MaxTyped /\ Tail(unread) \in Seq(0..MaxTyped)
    BY <2>1, HeadTailProperties
  <2>3. QED BY <1>3, <2>2 DEF RecvChar
<1>4. QED BY <1>1, <1>2, <1>3

LEMMA TransPolled ==
  ASSUME TransInv, TransWaits \/ TransDone \/ TransIdle
  PROVE  TransInv'
<1> USE ConsoleAssumption DEF TransInv, TransOK, TransInterruptExact, TransAge, Least, Bit, Or
<1>1. CASE TransWaits
  BY <1>1 DEF TransWaits
<1>2. CASE TransDone
  BY <1>2 DEF TransDone
<1>3. CASE TransIdle
  BY <1>3 DEF TransIdle
<1>4. QED BY <1>1, <1>2, <1>3

(* Typing, and the steps at which the program does not run. *)
LEMMA OutsideStep ==
  ASSUME IInv, Type \/ PollControlC \/ Leave \/ Enter
  PROVE  IInv'
<1>1. unread \in Seq(0..MaxTyped) /\ typed \in 0..MaxTyped
  BY DEF IInv, RecvInv, RecvOK, DriverOK
<1>2. unread' \in Seq(0..MaxTyped)
  <2>1. CASE Type
    <3>1. 0 \in 0..MaxTyped /\ typed + 1 \in 0..MaxTyped
      BY <1>1, <2>1, ConsoleAssumption DEF Type
    <3>2. unread' = Append(unread, typed + 1) \/ unread' = Append(unread, 0)
      BY <2>1 DEF Type
    <3>3. Append(unread, typed + 1) \in Seq(0..MaxTyped)
      BY <1>1, <3>1, AppendProperties
    <3>4. Append(unread, 0) \in Seq(0..MaxTyped)
      BY <1>1, <3>1, AppendProperties
    <3>5. QED BY <3>2, <3>3, <3>4
  <2>2. CASE PollControlC \/ Leave
    BY <2>2, EmptySeq DEF PollControlC, Leave
  <2>3. CASE Enter
    BY <1>1, <2>3 DEF Enter, receiver
  <2>4. QED BY <2>1, <2>2, <2>3
<1>3. UNCHANGED <<recv_ready, recv_enable, recv_buffer, recv_buffer_full_timer, recv_ip,
                  age, recv_wiped>>
  BY DEF Type, PollControlC, Leave, Enter, receiver
<1>4. UNCHANGED transmitter
  BY DEF Type, PollControlC, Leave, Enter
<1>5. DriverOK'
  BY ConsoleAssumption DEF IInv, DriverOK, Type, PollControlC, Leave, Enter, driver
<1>6. QED BY <1>2, <1>3, <1>4, <1>5, RecvKept, TransKept DEF IInv

(* The program's accesses, and its handler. *)
LEMMA ProgramStep ==
  ASSUME IInv, Program
  PROVE  IInv'
<1> USE ConsoleAssumption DEF Bit, Or
<1>1. RecvInv /\ TransInv /\ DriverOK /\ unread \in Seq(0..MaxTyped)
  BY DEF IInv, RecvInv, RecvOK
<1>2. CASE ReadRecvCtrl \/ ReadTransCtrl
  <2>1. UNCHANGED receiver /\ UNCHANGED transmitter
    BY <1>2 DEF ReadRecvCtrl, ReadTransCtrl
  <2>2. DriverOK'
    BY <1>1, <1>2 DEF ReadRecvCtrl, ReadTransCtrl, DriverOK, RecvInv, RecvOK, TransInv, TransOK
  <2>3. QED BY <1>1, <2>1, <2>2, RecvKept, TransKept DEF IInv, receiver
<1>3. CASE WriteRecvCtrl
  <2>1. RecvInv'
    BY <1>1, <1>3 DEF WriteRecvCtrl, RecvInv, RecvOK, RecvInterruptExact, RecvAge
  <2>2. DriverOK'
    BY <1>1, <1>3 DEF WriteRecvCtrl, DriverOK, driver
  <2>3. QED BY <1>1, <1>3, <2>1, <2>2, TransKept DEF IInv, WriteRecvCtrl
<1>4. CASE WriteTransCtrl
  <2>1. TransInv'
    BY <1>1, <1>4 DEF WriteTransCtrl, TransInv, TransOK, TransInterruptExact, TransAge
  <2>2. DriverOK'
    BY <1>1, <1>4 DEF WriteTransCtrl, DriverOK, driver
  <2>3. QED BY <1>1, <1>4, <2>1, <2>2, RecvKept DEF IInv, WriteTransCtrl, receiver
<1>5. CASE ReadRecvBuffer
  <2>1. RecvInv'
    BY <1>1, <1>5 DEF ReadRecvBuffer, RecvInv, RecvOK, RecvInterruptExact, RecvAge
  <2>2. received' \in Seq(0..MaxTyped)
    BY <1>1, <1>5, AppendProperties DEF ReadRecvBuffer, RecvInv, RecvOK, DriverOK
  <2>3. DriverOK'
    BY <1>1, <1>5, <2>2 DEF ReadRecvBuffer, DriverOK
  <2>4. QED BY <1>1, <1>5, <2>1, <2>3, TransKept DEF IInv, ReadRecvBuffer
<1>6. CASE WriteTransBuffer
  <2>1. sent' \in 0..MaxSent /\ (trans_ready = 1 => sent' \in 1..MaxSent)
    BY <1>1, <1>6 DEF WriteTransBuffer, DriverOK, Least
  <2>2. trans_ready = 1 => Append(printed, sent') \in Seq(1..MaxSent)
    BY <1>1, <2>1, AppendProperties DEF TransInv, TransOK
  <2>3. TransInv'
    <3>1. CASE trans_ready = 1
      <4>1. printed' \in Seq(1..MaxSent)
        <5>1. 1 # 0
          OBVIOUS
        <5>2. printed' = Append(printed, sent')
          BY <1>6, <3>1, <5>1, Zenon DEF WriteTransBuffer
        <5>3. QED BY <2>2, <3>1, <5>2, Zenon
      <4>2. /\ trans_buffer' = sent' /\ trans_ready' = 0 /\ trans_ip' = 0 /\ trans_wiped' = 0
            /\ trans_buffer_full_timer' = TRANS_LATENCY /\ quiet' = 0
            /\ trans_enable' = trans_enable
        BY <1>6, <3>1 DEF WriteTransBuffer
      <4>3. QED BY <1>1, <2>1, <3>1, <4>1, <4>2
                DEF TransInv, TransOK, TransInterruptExact, TransAge
    <3>2. CASE trans_ready = 0
      <4>1. UNCHANGED transmitter
        BY <1>6, <3>2 DEF WriteTransBuffer, transmitter
      <4>2. QED BY <1>1, <4>1, TransKept
    <3>3. QED BY <1>1, <3>1, <3>2 DEF TransInv, TransOK
  <2>4. DriverOK'
    BY <1>1, <1>6, <2>1 DEF WriteTransBuffer, DriverOK
  <2>5. QED BY <1>1, <1>6, <2>3, <2>4, RecvKept DEF IInv, WriteTransBuffer, receiver
<1>7. CASE ClearCause
  <2>1. RecvInv'
    BY <1>1, <1>7 DEF ClearCause, RecvInv, RecvOK, RecvInterruptExact, RecvAge
  <2>2. TransInv'
    BY <1>1, <1>7 DEF ClearCause, TransInv, TransOK, TransInterruptExact, TransAge
  <2>3. DriverOK'
    BY <1>1, <1>7 DEF ClearCause, DriverOK, driver
  <2>4. QED BY <2>1, <2>2, <2>3 DEF IInv
<1>8. QED BY <1>2, <1>3, <1>4, <1>5, <1>6, <1>7 DEF Program

LEMMA NextIInv == IInv /\ [Next]_vars => IInv'
<1> SUFFICES ASSUME IInv, [Next]_vars PROVE IInv'
  OBVIOUS
<1>1. CASE Poll
  <2>1. DriverOK'
    BY <1>1 DEF IInv, DriverOK, Poll, driver
  <2>2. QED BY <1>1, <2>1, RecvPolled, TransPolled DEF IInv, Poll
<1>2. CASE Type \/ PollControlC \/ Leave \/ Enter
  BY <1>2, OutsideStep
<1>3. CASE Program
  BY <1>3, ProgramStep
<1>4. CASE UNCHANGED vars
  <2>1. DriverOK'
    BY <1>4 DEF IInv, DriverOK, vars, driver
  <2>2. unread' \in Seq(0..MaxTyped)
    BY <1>4 DEF IInv, RecvInv, RecvOK, vars, receiver
  <2>3. QED BY <1>4, <2>1, <2>2, RecvKept, TransKept DEF IInv, vars, receiver
<1>5. QED BY <1>1, <1>2, <1>3, <1>4 DEF Next, Check

(* The registers of both devices, and what the program and its user have     *)
(* exchanged with them, have their types (mem.c, check, write and read).     *)
THEOREM ConsoleIsTyped == Spec => []TypeOK
<1>1. IInv => TypeOK
  BY DEF IInv, RecvInv, TransInv, TypeOK
<1>2. QED BY <1>1, InitIInv, NextIInv, PTL DEF Spec

(* Neither device interrupts without cause and neither forgets to, whatever  *)
(* the order of polls, reads, writes and changes of the enable bits (mem.c). *)
THEOREM InterruptsAreExact == Spec => []InterruptsExact
<1>1. IInv => InterruptsExact
  BY DEF IInv, RecvInv, TransInv, InterruptsExact
<1>2. QED BY <1>1, InitIInv, NextIInv, PTL DEF Spec

(* An unread character is kept for RECV_INTERVAL polls, and two characters   *)
(* are printed at least TRANS_LATENCY polls apart, for all intervals.        *)
THEOREM IntervalsAreKept == Spec => IntervalsKept
<1>1. IInv /\ [Next]_vars =>
        [/\ recv_ready = 1 /\ recv_buffer' # recv_buffer => age >= RECV_INTERVAL
         /\ printed' # printed => quiet >= TRANS_LATENCY]_vars
  <2> SUFFICES ASSUME IInv, Next
               PROVE  /\ recv_ready = 1 /\ recv_buffer' # recv_buffer => age >= RECV_INTERVAL
                      /\ printed' # printed => quiet >= TRANS_LATENCY
    OBVIOUS
  <2> USE ConsoleAssumption DEF IInv, Bit
  <2>1. recv_ready = 1 /\ recv_buffer' # recv_buffer => age >= RECV_INTERVAL
    <3>1. recv_buffer' # recv_buffer => recv_buffer_full_timer = 0
      BY DEF Next, Check, Program, Type, Poll, PollControlC, Leave, Enter, RecvWaits, RecvIdle,
             RecvChar, CharTyped, ReadRecvCtrl, ReadTransCtrl, WriteRecvCtrl, WriteTransCtrl,
             ReadRecvBuffer, WriteTransBuffer, ClearCause, receiver
    <3>2. QED BY <3>1 DEF RecvInv, RecvOK, RecvAge
  <2>2. printed' # printed => quiet >= TRANS_LATENCY
    <3>1. printed' # printed => trans_ready = 1
      BY DEF Next, Check, Program, Type, Poll, PollControlC, Leave, Enter, TransWaits, TransDone,
             TransIdle, ReadRecvCtrl, ReadTransCtrl, WriteRecvCtrl, WriteTransCtrl,
             ReadRecvBuffer, WriteTransBuffer, ClearCause, transmitter
    <3>2. QED BY <3>1 DEF TransInv, TransOK, TransAge
  <2>3. QED BY <2>1, <2>2
<1>2. QED BY <1>1, InitIInv, NextIInv, PTL DEF Spec, IntervalsKept

-------------------------------------------------------------------------------
(* What was typed waits in order, behind the character in the buffer; but for *)
(* those that were Ctrl-C.                                                    *)
UnreadOrdered ==
  /\ recv_buffer <= typed
  /\ \A i \in DOMAIN unread : unread[i] <= typed /\ (unread[i] # 0 => recv_buffer < unread[i])
  /\ \A i, j \in DOMAIN unread : i < j /\ unread[i] # 0 /\ unread[j] # 0 => unread[i] < unread[j]

(* A ready receiver holds a character the program has not read, and what the  *)
(* program has seen of READY still holds, whoever came in between.            *)
ReceivedOrdered ==
  polite => /\ recv_seen = 1 => recv_ready = 1
            /\ \A i \in DOMAIN received : /\ received[i] <= recv_buffer
                                          /\ recv_ready = 1 => received[i] < recv_buffer
            /\ \A i, j \in DOMAIN received : i < j => received[i] < received[j]

PrintedAll ==
  polite => (trans_seen = 1 => trans_ready = 1) /\ printed = [i \in 1..sent |-> i]

TransferInv == UnreadOrdered /\ ReceivedOrdered /\ PrintedAll

LEMMA InitTransferInv == Init => TransferInv
<1> SUFFICES ASSUME Init PROVE TransferInv
  OBVIOUS
<1>1. unread = <<>> /\ received = <<>> /\ recv_buffer = 0 /\ typed = 0 /\ recv_seen = 0 /\ trans_seen = 0
      /\ printed = <<>> /\ sent = 0
  BY DEF Init
<1>2. DOMAIN unread = {} /\ DOMAIN received = {}
  BY <1>1
<1>3. printed = [i \in 1..sent |-> i]
  BY <1>1
<1>4. QED BY <1>1, <1>2, <1>3 DEF TransferInv, UnreadOrdered, ReceivedOrdered, PrintedAll

(* A key: its number is above all others. *)
LEMMA TypeOrdered ==
  ASSUME IInv, UnreadOrdered, Type
  PROVE  UnreadOrdered'
<1>1. /\ unread \in Seq(0..MaxTyped) /\ typed \in Nat /\ recv_buffer \in Nat /\ recv_buffer' = recv_buffer
      /\ typed' = typed + 1
  BY ConsoleAssumption DEF IInv, RecvInv, RecvOK, DriverOK, Type
<1>2. PICK c \in {typed + 1, 0} : unread' = Append(unread, c)
  BY DEF Type
<1>3. c \in Nat /\ c <= typed' /\ (c # 0 => c = typed + 1)
  BY <1>1, <1>2
<1>4. /\ DOMAIN unread = 1..Len(unread) /\ Len(unread) \in Nat
      /\ DOMAIN unread' = 1..(Len(unread) + 1)
      /\ \A i \in 1..Len(unread) : unread'[i] = unread[i] /\ unread[i] \in Nat
      /\ unread'[Len(unread) + 1] = c
  BY <1>1, <1>2, ConsoleAssumption
<1>5. \A i \in DOMAIN unread' : i \in 1..Len(unread) \/ i = Len(unread) + 1
  BY <1>4
<1>6. ASSUME NEW i \in DOMAIN unread'
      PROVE  unread'[i] <= typed' /\ (unread'[i] # 0 => recv_buffer' < unread'[i])
  <2>1. CASE i \in 1..Len(unread)
    <3>1. unread[i] <= typed /\ (unread[i] # 0 => recv_buffer < unread[i])
      BY <1>4, <2>1 DEF UnreadOrdered
    <3>2. QED BY <1>1, <1>4, <2>1, <3>1
  <2>2. CASE i = Len(unread) + 1
    <3>1. recv_buffer <= typed
      BY DEF UnreadOrdered
    <3>2. QED BY <1>1, <1>3, <1>4, <2>2, <3>1
  <2>3. QED BY <1>5, <2>1, <2>2
<1>7. ASSUME NEW i \in DOMAIN unread', NEW j \in DOMAIN unread', i < j, unread'[i] # 0, unread'[j] # 0
      PROVE  unread'[i] < unread'[j]
  <2>1. i \in 1..Len(unread)
    BY <1>4, <1>7
  <2>2. CASE j \in 1..Len(unread)
    BY <1>4, <1>7, <2>1, <2>2 DEF UnreadOrdered
  <2>3. CASE j = Len(unread) + 1
    <3>1. unread'[j] = typed + 1
      BY <1>3, <1>4, <1>7, <2>3
    <3>2. unread[i] <= typed /\ unread'[i] = unread[i] /\ unread[i] \in Nat
      BY <1>4, <2>1 DEF UnreadOrdered
    <3>3. QED BY <1>1, <3>1, <3>2
  <2>4. QED BY <1>5, <2>2, <2>3
<1>8. recv_buffer' <= typed'
  BY <1>1 DEF UnreadOrdered
<1>9. QED BY <1>6, <1>7, <1>8 DEF UnreadOrdered

(* The receiver takes the next character, which is above all it has held.     *)
LEMMA CharOrdered ==
  ASSUME IInv, UnreadOrdered, ReceivedOrdered, RecvChar, UNCHANGED <<typed, polite, recv_seen, received>>
  PROVE  UnreadOrdered' /\ ReceivedOrdered'
<1>1. /\ unread \in Seq(0..MaxTyped) /\ unread # <<>> /\ typed \in Nat /\ recv_buffer \in Nat
      /\ recv_buffer' = Head(unread) /\ unread' = Tail(unread) /\ Head(unread) # 0 /\ recv_ready' = 1
      /\ received \in Seq(0..MaxTyped)
  BY ConsoleAssumption DEF IInv, RecvInv, RecvOK, DriverOK, RecvChar, CharTyped
<1>2. /\ Len(unread) \in Nat \ {0} /\ DOMAIN unread = 1..Len(unread)
      /\ DOMAIN unread' = 1..(Len(unread) - 1)
      /\ \A i \in 1..(Len(unread) - 1) : unread'[i] = unread[i + 1]
      /\ recv_buffer' = unread[1] /\ unread[1] \in Nat
      /\ \A i \in 1..Len(unread) : unread[i] \in Nat
  BY <1>1, ConsoleAssumption
<1>3. 1 \in DOMAIN unread /\ unread[1] <= typed /\ recv_buffer < unread[1] /\ unread[1] # 0
  BY <1>1, <1>2 DEF UnreadOrdered
<1>4. ASSUME NEW i \in DOMAIN unread'
      PROVE  unread'[i] <= typed' /\ (unread'[i] # 0 => recv_buffer' < unread'[i])
  <2>1. i + 1 \in DOMAIN unread /\ unread'[i] = unread[i + 1] /\ 1 < i + 1
    BY <1>2, <1>4
  <2>2. QED BY <1>2, <1>3, <2>1 DEF UnreadOrdered
<1>5. ASSUME NEW i \in DOMAIN unread', NEW j \in DOMAIN unread', i < j, unread'[i] # 0, unread'[j] # 0
      PROVE  unread'[i] < unread'[j]
  <2>1. /\ i + 1 \in DOMAIN unread /\ unread'[i] = unread[i + 1]
        /\ j + 1 \in DOMAIN unread /\ unread'[j] = unread[j + 1] /\ i + 1 < j + 1
    BY <1>2, <1>5
  <2>2. QED BY <1>5, <2>1 DEF UnreadOrdered
<1>6. UnreadOrdered'
  BY <1>2, <1>3, <1>4, <1>5 DEF UnreadOrdered
<1>7. ASSUME polite, NEW i \in DOMAIN received
      PROVE  received[i] < recv_buffer'
  <2>1. received[i] <= recv_buffer /\ received[i] \in Nat
    BY <1>1, <1>7, ConsoleAssumption DEF ReceivedOrdered
  <2>2. QED BY <1>1, <1>2, <1>3, <2>1
<1>8. ASSUME polite, NEW i \in DOMAIN received
      PROVE  received[i] <= recv_buffer'
  <2>1. received[i] \in Nat
    BY <1>1, <1>8, ConsoleAssumption
  <2>2. QED BY <1>2, <1>7, <1>8, <2>1
<1>9. ReceivedOrdered'
  BY <1>1, <1>7, <1>8 DEF ReceivedOrdered
<1>10. QED BY <1>6, <1>9

(* The program reads a character it has seen to be there. *)
LEMMA ReadOrdered ==
  ASSUME IInv, ReceivedOrdered, ReadRecvBuffer
  PROVE  ReceivedOrdered'
<1>1. SUFFICES ASSUME polite PROVE ReceivedOrdered'
  BY DEF ReadRecvBuffer, ReceivedOrdered
<1>2. /\ received \in Seq(0..MaxTyped) /\ recv_buffer \in 0..MaxTyped
      /\ received' = Append(received, recv_buffer) /\ recv_buffer' = recv_buffer
      /\ recv_seen' = 0 /\ recv_ready' = 0
  BY DEF IInv, RecvInv, RecvOK, DriverOK, ReadRecvBuffer
<1>3. \A i \in DOMAIN received : received[i] < recv_buffer
  BY <1>1 DEF ReadRecvBuffer, ReceivedOrdered
<1>4. /\ Len(received) \in Nat /\ DOMAIN received = 1..Len(received)
      /\ DOMAIN received' = 1..(Len(received) + 1)
      /\ \A i \in 1..Len(received) : received'[i] = received[i] /\ received[i] \in Nat
      /\ received'[Len(received) + 1] = recv_buffer /\ recv_buffer \in Nat
  BY <1>2, ConsoleAssumption
<1>5. \A i \in DOMAIN received' : i \in 1..Len(received) \/ i = Len(received) + 1
  BY <1>4
<1>6. \A i \in DOMAIN received' : received'[i] <= recv_buffer'
  BY <1>2, <1>3, <1>4, <1>5
<1>7. ASSUME NEW i \in DOMAIN received', NEW j \in DOMAIN received', i < j
      PROVE  received'[i] < received'[j]
  <2>1. i \in 1..Len(received)
    BY <1>4, <1>7
  <2>2. CASE j \in 1..Len(received)
    BY <1>1, <1>4, <1>7, <2>1, <2>2 DEF ReceivedOrdered
  <2>3. CASE j = Len(received) + 1
    BY <1>3, <1>4, <2>1, <2>3
  <2>4. QED BY <1>5, <2>2, <2>3
<1>8. QED BY <1>2, <1>6, <1>7 DEF ReceivedOrdered

(* The program writes to a transmitter it has seen ready. *)
LEMMA WritePrinted ==
  ASSUME IInv, PrintedAll, WriteTransBuffer
  PROVE  PrintedAll'
<1>1. SUFFICES ASSUME polite PROVE PrintedAll'
  BY DEF WriteTransBuffer, PrintedAll
<1>2. trans_ready = 1 /\ printed = [i \in 1..sent |-> i] /\ sent \in Nat
  BY <1>1, ConsoleAssumption DEF WriteTransBuffer, PrintedAll, IInv, DriverOK
<1>3. sent' = sent + 1 /\ trans_seen' = 0 /\ polite' = polite
  BY <1>2 DEF WriteTransBuffer
<1>4. printed' = Append(printed, sent + 1)
  <2>1. 1 # 0
    OBVIOUS
  <2>2. printed' = Append(printed, sent')
    BY <1>2, <2>1, Zenon DEF WriteTransBuffer
  <2>3. QED BY <1>3, <2>2
<1>5. Append([i \in 1..sent |-> i], sent + 1) = [i \in 1..(sent + 1) |-> i]
  BY <1>2
<1>6. QED BY <1>2, <1>3, <1>4, <1>5 DEF PrintedAll

LEMMA NextTransferInv == IInv /\ TransferInv /\ [Next]_vars => TransferInv'
<1> SUFFICES ASSUME IInv, TransferInv, [Next]_vars PROVE TransferInv'
  OBVIOUS
<1> USE DEF TransferInv
<1>1. CASE Type
  <2>1. ReceivedOrdered' /\ PrintedAll'
    BY <1>1 DEF Type, ReceivedOrdered, PrintedAll, driver, transmitter
  <2>2. QED BY <1>1, <2>1, TypeOrdered
<1>2. CASE Poll
  <2>1. PrintedAll'
    BY <1>2 DEF Poll, driver, PrintedAll, TransWaits, TransDone, TransIdle
  <2>2. CASE RecvChar
    BY <1>2, <2>1, <2>2, CharOrdered DEF Poll, driver
  <2>3. CASE RecvWaits \/ RecvIdle
    BY <1>2, <2>1, <2>3 DEF Poll, driver, RecvWaits, RecvIdle, UnreadOrdered, ReceivedOrdered
  <2>4. QED BY <1>2, <2>2, <2>3 DEF Poll
<1>3. CASE PollControlC \/ Leave
  <2>1. DOMAIN unread' = {} /\ UNCHANGED <<recv_buffer, recv_ready, typed>> /\ UNCHANGED driver
        /\ UNCHANGED transmitter
    BY <1>3 DEF PollControlC, Leave
  <2>2. QED BY <2>1 DEF UnreadOrdered, ReceivedOrdered, PrintedAll, driver, transmitter
<1>4. CASE Enter \/ UNCHANGED vars \/ ClearCause \/ WriteRecvCtrl \/ WriteTransCtrl
  <2>1. UNCHANGED <<recv_buffer, recv_ready, unread, typed, trans_ready, printed>> /\ UNCHANGED driver
    BY <1>4 DEF Enter, vars, ClearCause, WriteRecvCtrl, WriteTransCtrl, receiver, transmitter
  <2>2. QED BY <2>1 DEF UnreadOrdered, ReceivedOrdered, PrintedAll, driver
<1>5. CASE ReadRecvCtrl \/ ReadTransCtrl
  <2>1. /\ UNCHANGED <<recv_buffer, recv_ready, unread, typed, trans_ready, printed>>
        /\ UNCHANGED <<polite, received, sent>>
        /\ recv_seen' = recv_seen \/ recv_seen' = recv_ready
        /\ trans_seen' = trans_seen \/ trans_seen' = trans_ready
    BY <1>5 DEF ReadRecvCtrl, ReadTransCtrl, receiver, transmitter
  <2>2. QED BY <2>1 DEF UnreadOrdered, ReceivedOrdered, PrintedAll
<1>6. CASE ReadRecvBuffer
  <2>1. UnreadOrdered' /\ PrintedAll'
    BY <1>6 DEF ReadRecvBuffer, UnreadOrdered, PrintedAll, transmitter
  <2>2. QED BY <1>6, <2>1, ReadOrdered
<1>7. CASE WriteTransBuffer
  <2>1. UnreadOrdered' /\ ReceivedOrdered'
    BY <1>7 DEF WriteTransBuffer, UnreadOrdered, ReceivedOrdered, receiver
  <2>2. QED BY <1>7, <2>1, WritePrinted
<1>8. QED BY <1>1, <1>2, <1>3, <1>4, <1>5, <1>6, <1>7 DEF Next, Check, Program

(* A program that tests READY first reads no character twice and none out of *)
(* order, and everything it writes is printed, for any number of characters  *)
(* and whatever polls, keys and other accesses come between test and use.    *)
THEOREM TestedTransfersAreSafe == Spec => []TestedTransfers
<1>1. TransferInv => TestedTransfers
  BY DEF TransferInv, ReceivedOrdered, PrintedAll, TestedTransfers
<1>2. QED BY <1>1, InitIInv, NextIInv, InitTransferInv, NextTransferInv, PTL DEF Spec
================================================================================
