-------------------------------- MODULE Console --------------------------------
(* The memory-mapped console of the simulator (mem.c): a receiver and a       *)
(* transmitter with a control register, a buffer and a timer each, polled by  *)
(* run_spim, written and read by the program, and the two IP bits of Cause    *)
(* through which they interrupt it.  Characters are numbered in the order in  *)
(* which they are typed, or written by the program.                           *)
EXTENDS Integers, Sequences

CONSTANTS RECV_INTERVAL,  \* polls for which an unread character is kept
          TRANS_LATENCY,  \* polls for which the transmitter is busy
          MaxTyped,       \* bound: characters typed
          MaxSent         \* bound: characters the program writes

ASSUME ConsoleAssumption ==
  RECV_INTERVAL \in Nat /\ TRANS_LATENCY \in Nat /\ MaxTyped \in Nat /\ MaxSent \in Nat

VARIABLES recv_ready, recv_enable, recv_buffer, recv_buffer_full_timer,
          trans_ready, trans_enable, trans_buffer, trans_buffer_full_timer,
          recv_ip, trans_ip,       \* the IP bits of RECV_INT_LEVEL, TRANS_INT_LEVEL
          console,                 \* whose the terminal is: the program's or the prompt's
          unread, typed,           \* typed and not yet read by the simulator; typed at all
          polite,                  \* the program tests READY before it uses a buffer
          recv_seen, trans_seen,   \* what its last test has shown
          received, sent, printed  \* characters it has read and written, and the output

(* Observed only: the polls since the character in the buffer came, the polls *)
(* since a character was printed (both counted as far as they matter), and    *)
(* whether the program itself has wiped out an interrupt.                     *)
VARIABLES age, quiet, recv_wiped, trans_wiped

Bit == {0, 1}
Or(x, y) == IF x = 1 THEN 1 ELSE y

receiver == <<recv_ready, recv_enable, recv_buffer, recv_buffer_full_timer, recv_ip, unread,
              age, recv_wiped>>
transmitter == <<trans_ready, trans_enable, trans_buffer, trans_buffer_full_timer, trans_ip,
                 printed, quiet, trans_wiped>>
driver == <<polite, recv_seen, trans_seen, received, sent>>
vars == <<receiver, transmitter, driver, console, typed>>

Init ==
  /\ recv_ready = 0 /\ recv_enable = 0 /\ recv_buffer = 0 /\ recv_buffer_full_timer = 0
  /\ trans_ready = 1 /\ trans_enable = 0 /\ trans_buffer = 0
  /\ trans_buffer_full_timer = 0
  /\ recv_ip = 0 /\ trans_ip = 0 /\ unread = <<>> /\ typed = 0 /\ console = "spim"
  /\ polite \in BOOLEAN /\ recv_seen = 0 /\ trans_seen = 0
  /\ received = <<>> /\ sent = 0 /\ printed = <<>>
  /\ age = 0 /\ quiet = TRANS_LATENCY
  /\ recv_wiped = 0 /\ trans_wiped = 0

(* A key is pressed: a character, or 0 for Ctrl-C.                            *)
Type ==
  /\ console = "program" /\ typed < MaxTyped /\ typed' = typed + 1
  /\ unread' \in {Append(unread, typed + 1), Append(unread, 0)}
  /\ UNCHANGED <<recv_ready, recv_enable, recv_buffer, recv_buffer_full_timer, recv_ip,
                 age, recv_wiped, transmitter, driver, console>>

Least(m, n) == IF m < n THEN m ELSE n
CharTyped == recv_buffer_full_timer = 0 /\ unread # <<>>

(* The receiver's half of check_memory_mapped_IO.                             *)
RecvWaits ==
  /\ recv_buffer_full_timer > 0
  /\ recv_buffer_full_timer' = recv_buffer_full_timer - 1
  /\ age' = Least(age + 1, RECV_INTERVAL)
  /\ UNCHANGED <<recv_ready, recv_enable, recv_buffer, recv_ip, unread, recv_wiped>>

RecvIdle ==
  /\ recv_buffer_full_timer = 0 /\ unread = <<>>
  /\ age' = Least(age + 1, RECV_INTERVAL)
  /\ UNCHANGED <<recv_ready, recv_enable, recv_buffer, recv_buffer_full_timer, recv_ip,
                 unread, recv_wiped>>

RecvCharUnhurried ==
  /\ unread # <<>> /\ Head(unread) # 0
  /\ unread' = Tail(unread) /\ recv_buffer' = Head(unread)
  /\ recv_ready' = 1 /\ recv_buffer_full_timer' = RECV_INTERVAL
  /\ recv_ip' = Or(recv_ip, recv_enable)
  /\ age' = 0 /\ recv_wiped' = 0
  /\ UNCHANGED recv_enable

RecvChar ==
  /\ CharTyped /\ Head(unread) # 0
  /\ unread' = Tail(unread) /\ recv_buffer' = Head(unread)
  /\ recv_ready' = 1 /\ recv_buffer_full_timer' = RECV_INTERVAL
  /\ recv_ip' = Or(recv_ip, recv_enable)
  /\ age' = 0 /\ recv_wiped' = 0
  /\ UNCHANGED recv_enable

(* The transmitter's half.                                                    *)
TransWaits ==
  /\ trans_buffer_full_timer > 0
  /\ trans_buffer_full_timer' = trans_buffer_full_timer - 1
  /\ quiet' = Least(quiet + 1, TRANS_LATENCY)
  /\ UNCHANGED <<trans_ready, trans_enable, trans_buffer, trans_ip, printed, trans_wiped>>

TransDoneUnenabled ==
  /\ trans_buffer_full_timer = 0 /\ trans_ready = 0
  /\ trans_ready' = 1 /\ trans_ip' = 1
  /\ trans_wiped' = 0
  /\ quiet' = Least(quiet + 1, TRANS_LATENCY)
  /\ UNCHANGED <<trans_enable, trans_buffer, trans_buffer_full_timer, printed>>

TransDone ==
  /\ trans_buffer_full_timer = 0 /\ trans_ready = 0
  /\ trans_ready' = 1 /\ trans_ip' = Or(trans_ip, trans_enable)
  /\ trans_wiped' = 0
  /\ quiet' = Least(quiet + 1, TRANS_LATENCY)
  /\ UNCHANGED <<trans_enable, trans_buffer, trans_buffer_full_timer, printed>>

TransIdle ==
  /\ trans_buffer_full_timer = 0 /\ trans_ready = 1
  /\ quiet' = Least(quiet + 1, TRANS_LATENCY)
  /\ UNCHANGED <<trans_ready, trans_enable, trans_buffer, trans_buffer_full_timer, trans_ip,
                 printed, trans_wiped>>

(* check_memory_mapped_IO.  Ctrl-C is consumed and leaves it at once, before  *)
(* either device is updated: it stops the program.                            *)
Poll ==
  /\ console = "program"
  /\ RecvWaits \/ RecvIdle \/ RecvChar
  /\ TransWaits \/ TransDone \/ TransIdle
  /\ UNCHANGED <<driver, console, typed>>

PollControlC ==
  /\ console = "program" /\ CharTyped /\ Head(unread) = 0
  /\ console' = "spim" /\ unread' = <<>>
  /\ UNCHANGED <<recv_ready, recv_enable, recv_buffer, recv_buffer_full_timer, recv_ip,
                 age, recv_wiped, transmitter, driver, typed>>

(* The program stops for another reason, and is started or continued: the     *)
(* devices are left as they are, what was typed goes to the prompt.           *)
Leave ==
  /\ console = "program" /\ console' = "spim" /\ unread' = <<>>
  /\ UNCHANGED <<recv_ready, recv_enable, recv_buffer, recv_buffer_full_timer, recv_ip,
                 age, recv_wiped, transmitter, driver, typed>>

Enter ==
  /\ console = "spim" /\ console' = "program"
  /\ UNCHANGED <<receiver, transmitter, driver, typed>>

(* The program: it reads a control register, or sets the enable bit, which    *)
(* raises the interrupt of a ready device.                                    *)
ReadRecvCtrl ==
  /\ console = "program"
  /\ recv_seen' = recv_ready
  /\ UNCHANGED <<receiver, transmitter, polite, trans_seen, received, sent, console, typed>>

ReadTransCtrl ==
  /\ console = "program"
  /\ trans_seen' = trans_ready
  /\ UNCHANGED <<receiver, transmitter, polite, recv_seen, received, sent, console, typed>>

WriteRecvCtrl ==
  /\ console = "program"
  /\ recv_enable' \in Bit
  /\ recv_ip' = IF recv_enable' = 1 THEN Or(recv_ip, recv_ready) ELSE 0
  /\ recv_wiped' = 0
  /\ UNCHANGED <<recv_ready, recv_buffer, recv_buffer_full_timer, unread, age,
                 transmitter, driver, console, typed>>

WriteTransCtrlSilently ==
  /\ console = "program"
  /\ trans_enable' \in Bit
  /\ trans_ip' = IF trans_enable' = 1 THEN trans_ip ELSE 0
  /\ trans_wiped' = 0
  /\ UNCHANGED <<trans_ready, trans_buffer, trans_buffer_full_timer, printed, quiet,
                 receiver, driver, console, typed>>

WriteTransCtrl ==
  /\ console = "program"
  /\ trans_enable' \in Bit
  /\ trans_ip' = IF trans_enable' = 1 THEN Or(trans_ip, trans_ready) ELSE 0
  /\ trans_wiped' = 0
  /\ UNCHANGED <<trans_ready, trans_buffer, trans_buffer_full_timer, printed, quiet,
                 receiver, driver, console, typed>>

(* Reading the receiver's buffer empties it and ends the wait.                *)
ReadRecvBufferKeepingTimer ==
  /\ console = "program"
  /\ polite => recv_seen = 1
  /\ recv_seen' = 0 /\ Len(received) < MaxTyped
  /\ received' = Append(received, recv_buffer)
  /\ recv_ready' = 0 /\ recv_ip' = 0 /\ recv_wiped' = 0
  /\ UNCHANGED <<recv_enable, recv_buffer, recv_buffer_full_timer, unread, age, transmitter,
                 polite, trans_seen, sent, console, typed>>

ReadRecvBufferKeepingReady ==
  /\ console = "program"
  /\ polite => recv_seen = 1
  /\ recv_seen' = 0 /\ Len(received) < MaxTyped
  /\ received' = Append(received, recv_buffer)
  /\ recv_buffer_full_timer' = 0 /\ recv_ip' = 0 /\ recv_wiped' = 0
  /\ UNCHANGED <<recv_ready, recv_enable, recv_buffer, unread, age, transmitter,
                 polite, trans_seen, sent, console, typed>>

ReadRecvBuffer ==
  /\ console = "program"
  /\ polite => recv_seen = 1
  /\ recv_seen' = 0 /\ Len(received) < MaxTyped
  /\ received' = Append(received, recv_buffer)
  /\ recv_ready' = 0 /\ recv_buffer_full_timer' = 0 /\ recv_ip' = 0
  /\ recv_wiped' = 0
  /\ UNCHANGED <<recv_enable, recv_buffer, unread, age, transmitter,
                 polite, trans_seen, sent, console, typed>>

(* Writing the transmitter's buffer prints the character, if the device is    *)
(* ready; else the write is ignored, and counted as far as the bound goes.    *)
WriteTransBufferImpatient ==
  /\ console = "program"
  /\ polite => trans_seen = 1
  /\ trans_seen' = 0
  /\ \/ /\ trans_ready = 1 /\ sent < MaxSent /\ sent' = sent + 1
        /\ trans_buffer' = sent' /\ printed' = Append(printed, sent') /\ trans_ready' = 0
        /\ trans_buffer_full_timer' = TRANS_LATENCY /\ trans_ip' = 0
        /\ trans_wiped' = 0 /\ quiet' = 0
     \/ /\ trans_ready = 0 /\ sent' = Least(sent + 1, MaxSent)
        /\ trans_buffer_full_timer' = TRANS_LATENCY
        /\ UNCHANGED <<trans_buffer, printed, trans_ready, trans_ip, trans_wiped, quiet>>
  /\ UNCHANGED <<trans_enable, receiver, polite, recv_seen, received, console, typed>>

WriteTransBuffer ==
  /\ console = "program"
  /\ polite => trans_seen = 1
  /\ trans_seen' = 0
  /\ \/ /\ trans_ready = 1 /\ sent < MaxSent /\ sent' = sent + 1
        /\ trans_buffer' = sent' /\ printed' = Append(printed, sent') /\ trans_ready' = 0
        /\ trans_buffer_full_timer' = TRANS_LATENCY /\ trans_ip' = 0
        /\ trans_wiped' = 0 /\ quiet' = 0
     \/ /\ trans_ready = 0 /\ sent' = Least(sent + 1, MaxSent)
        /\ UNCHANGED <<trans_buffer, printed, trans_ready, trans_buffer_full_timer, trans_ip,
                       trans_wiped, quiet>>
  /\ UNCHANGED <<trans_enable, receiver, polite, recv_seen, received, console, typed>>

(* The handler of exceptions.s clears the Cause register, whatever interrupt  *)
(* or exception it was entered for.                                           *)
ClearCause ==
  /\ console = "program"
  /\ recv_ip' = 0 /\ trans_ip' = 0
  /\ recv_wiped' = Or(recv_wiped, recv_ip) /\ trans_wiped' = Or(trans_wiped, trans_ip)
  /\ UNCHANGED <<recv_ready, recv_enable, recv_buffer, recv_buffer_full_timer, unread, age,
                 trans_ready, trans_enable, trans_buffer, trans_buffer_full_timer, printed,
                 quiet, driver, console, typed>>

Check == Poll \/ PollControlC
Program ==
  \/ ReadRecvCtrl \/ ReadTransCtrl \/ WriteRecvCtrl \/ WriteTransCtrl
  \/ ReadRecvBuffer \/ WriteTransBuffer \/ ClearCause
Next == Type \/ Check \/ Program \/ Leave \/ Enter
Spec == Init /\ [][Next]_vars /\ WF_vars(Check)

--------------------------------------------------------------------------------
(* The values of the registers; a transmitter with a running timer is not     *)
(* ready, a receiver with one is.                                             *)
RecvOK ==
  /\ recv_ready \in Bit /\ recv_enable \in Bit /\ recv_ip \in Bit
  /\ recv_wiped \in Bit /\ recv_buffer \in 0..MaxTyped /\ age \in 0..RECV_INTERVAL
  /\ recv_buffer_full_timer \in 0..RECV_INTERVAL
  /\ recv_buffer_full_timer > 0 => recv_ready = 1
  /\ unread \in Seq(0..MaxTyped)
TransOK ==
  /\ trans_ready \in Bit /\ trans_enable \in Bit /\ trans_ip \in Bit
  /\ trans_wiped \in Bit /\ trans_buffer \in 0..MaxSent /\ quiet \in 0..TRANS_LATENCY
  /\ trans_buffer_full_timer \in 0..TRANS_LATENCY
  /\ trans_buffer_full_timer > 0 => trans_ready = 0
  /\ printed \in Seq(1..MaxSent)
DriverOK ==
  /\ polite \in BOOLEAN /\ recv_seen \in Bit /\ trans_seen \in Bit
  /\ console \in {"program", "spim"} /\ typed \in 0..MaxTyped /\ sent \in 0..MaxSent
  /\ received \in Seq(0..MaxTyped)
TypeOK == RecvOK /\ TransOK /\ DriverOK

(* A device interrupts exactly when it is ready and its interrupts are        *)
(* enabled, however the polls, the program's reads and writes and its         *)
(* changes of the enable bits are interleaved: no interrupt is raised for     *)
(* nothing, and none is lost, unless the program clears the Cause register.   *)
RecvInterruptExact ==
  recv_ip = 1 <=> recv_ready = 1 /\ recv_enable = 1 /\ recv_wiped = 0
TransInterruptExact ==
  trans_ip = 1 <=> trans_ready = 1 /\ trans_enable = 1 /\ trans_wiped = 0
InterruptsExact == RecvInterruptExact /\ TransInterruptExact

(* A program that tests READY before each use of a buffer reads no character  *)
(* twice and none out of order, though a new one may replace the one it has   *)
(* tested for, and every character it writes is printed, in order.            *)
TestedTransfers ==
  polite => /\ \A i, j \in DOMAIN received : i < j => received[i] < received[j]
            /\ printed = [i \in 1..sent |-> i]

(* "Number of IO_INTERVALs that a character remains in receiver buffer, even  *)
(* if another character is available", and that it takes to write one: an     *)
(* unread character is not replaced earlier, and no two are printed closer.   *)
IntervalsKept ==
  [][/\ recv_ready = 1 /\ recv_buffer' # recv_buffer => age >= RECV_INTERVAL
     /\ printed' # printed => quiet >= TRANS_LATENCY]_vars

(* While the program runs, a busy transmitter becomes ready again, however    *)
(* often the program writes to it, and what was typed next gets into the      *)
(* receiver's buffer, even if the program never reads it.                     *)
DevicesGoOn ==
  /\ trans_ready = 0 ~> (trans_ready = 1 \/ console = "spim")
  /\ \A c \in 1..MaxTyped :
       (unread # <<>> /\ Head(unread) = c) ~> (recv_buffer = c \/ console = "spim")
================================================================================
