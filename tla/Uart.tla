--------------------------------- MODULE Uart ---------------------------------
(***************************************************************************)
(* The UART driver (stm32_uart.cpp) as the threads of the program use it:  *)
(* write() is called by whoever has something to print, the low-priority   *)
(* thread polls for input in uart_process_cycle(), and the interrupt tells *)
(* that a transmission is complete.  The condition variable that announces *)
(* input is a list of tasks under a binary semaphore (gthr-default.h).     *)
(*                                                                         *)
(* A received character is its number in the order of arrival.  What the   *)
(* UART receives while nobody polls, or loses with the overrun flag, never *)
(* reaches the program and has no number.                                  *)
(***************************************************************************)
EXTENDS Kernel

CONSTANTS
  STM32UART_BUFFER_SIZE,
  MaxInput \* bound: the characters received from this one on have the same number

ASSUME UartAssumption ==
  /\ STM32UART_BUFFER_SIZE \in Nat \ {0}
  /\ MaxInput \in Nat
  /\ "uart" \in Mutexes                \* m_o_interrupt_mutex
  /\ "cond" \in Locks \ Mutexes        \* the list of m_cv_input_available

VARIABLES
  at,        \* where each task is in its own code
  driver,    \* where each task is in the driver; "idle" outside
  wire,      \* whose text the UART transmits; Nobody: HAL_UART_STATE_READY
  UartReady,
  rxBuffer,  \* m_au8_rx_buffer
  usage,     \* m_u32_rx_buffer_usage
  count,     \* the sum that is still to be written back to usage
  input,     \* the number of the last character received
  listeners  \* the tasks in m_cv_input_available

uartVars == <<driver, wire, UartReady, rxBuffer, usage, count, input, listeners>>

NoInput == 0 \* the -1 of read()

\* the places in the driver: in write(), in uart_process_cycle() and in notify_all()
DriverPlaces ==
  {"idle", "lock", "transmit", "sending", "unlock",
   "poll", "receive", "put", "count", "notify", "broadcast", "next", "leave"}

-----------------------------------------------------------------------------
(* Steps *)

\* task t goes on from one place of the driver to another
Moves(t, from, to) == driver[t] = from /\ driver' = [driver EXCEPT ![t] = to]

\* ... and computes
Does(t, from, to) == Executes(t) /\ Moves(t, from, to) /\ UNCHANGED kernelVars

\* ... with a lock it may have to wait for
Locking(t, l, from, to) ==
  \/ Take(t, l) /\ Moves(t, from, to)
  \/ driver[t] = from /\ Wait(t, l) /\ UNCHANGED driver

-----------------------------------------------------------------------------
(* write() *)

\* called with a text that is not empty; the task spins until the UART is ready
Write(t) ==
  /\ wire = Nobody
  /\ Does(t, "idle", "lock")
  /\ UNCHANGED <<wire, UartReady, rxBuffer, usage, count, input, listeners>>

LockUart(t) ==
  /\ Locking(t, "uart", "lock", "transmit")
  /\ UNCHANGED <<wire, UartReady, rxBuffer, usage, count, input, listeners>>

\* HAL_UART_Transmit_IT refuses while a text is on its way
Transmit(t) ==
  /\ IF wire = Nobody
     THEN Does(t, "transmit", "sending") /\ wire' = t /\ UNCHANGED UartReady
     ELSE Does(t, "transmit", "unlock") /\ UartReady' = FALSE /\ UNCHANGED wire
  /\ UNCHANGED <<rxBuffer, usage, count, input, listeners>>

\* HAL_UART_TxCpltCallback, after the HAL has gone back to its ready state
TxCplt ==
  /\ wire # Nobody
  /\ wire' = Nobody
  /\ UartReady' = TRUE
  /\ UNCHANGED <<driver, rxBuffer, usage, count, input, listeners>>

\* Mutant: the flag stays set for the next text.
BugSent(t) ==
  /\ UartReady
  /\ Does(t, "sending", "unlock")
  /\ UNCHANGED <<wire, UartReady, rxBuffer, usage, count, input, listeners>>

\* the task spins until the flag is set, and resets it
Sent(t) ==
  /\ UartReady
  /\ Does(t, "sending", "unlock")
  /\ UartReady' = FALSE
  /\ UNCHANGED <<wire, rxBuffer, usage, count, input, listeners>>

UnlockUart(t) ==
  /\ Give(t, "uart")
  /\ Moves(t, "unlock", "idle")
  /\ UNCHANGED <<wire, UartReady, rxBuffer, usage, count, input, listeners>>

-----------------------------------------------------------------------------
(* uart_process_cycle() *)

BeginCycle(t) ==
  /\ Does(t, "idle", "poll")
  /\ UNCHANGED <<wire, UartReady, rxBuffer, usage, count, input, listeners>>

LockForInput(t) ==
  /\ Locking(t, "uart", "poll", "receive")
  /\ UNCHANGED <<wire, UartReady, rxBuffer, usage, count, input, listeners>>

\* HAL_UART_Receive: a character, or none for 100 ms
Receive(t) ==
  \/ /\ Does(t, "receive", "put")
     /\ input' = IF input < MaxInput THEN input + 1 ELSE input
     /\ UNCHANGED <<wire, UartReady, rxBuffer, usage, count, listeners>>
  \/ /\ Does(t, "receive", "leave")
     /\ UNCHANGED <<wire, UartReady, rxBuffer, usage, count, input, listeners>>

\* Mutant: the room is not checked.
BugPut(t) ==
  /\ Does(t, "put", "count")
  /\ rxBuffer' = [rxBuffer EXCEPT ![usage + 1] = input]
  /\ count' = usage + 1
  /\ UNCHANGED <<wire, UartReady, usage, input, listeners>>

\* the character goes behind the ones in the buffer; without room it is dropped
Put(t) ==
  /\ IF usage < STM32UART_BUFFER_SIZE
     THEN /\ Does(t, "put", "count")
          /\ rxBuffer' = [rxBuffer EXCEPT ![usage + 1] = input]
          /\ count' = usage + 1
     ELSE Does(t, "put", "next") /\ UNCHANGED <<rxBuffer, count>>
  /\ UNCHANGED <<wire, UartReady, usage, input, listeners>>

\* Mutant: the character is counted, and nobody told.
BugCount(t) ==
  /\ Does(t, "count", "next")
  /\ usage' = count
  /\ UNCHANGED <<wire, UartReady, rxBuffer, count, input, listeners>>

Count(t) ==
  /\ Does(t, "count", "notify")
  /\ usage' = count
  /\ UNCHANGED <<wire, UartReady, rxBuffer, count, input, listeners>>

\* notify_all: __gthread_cond_broadcast
LockListeners(t) ==
  /\ Locking(t, "cond", "notify", "broadcast")
  /\ UNCHANGED <<wire, UartReady, rxBuffer, usage, count, input, listeners>>

Broadcast(t) ==
  /\ driver[t] = "broadcast" /\ UNCHANGED <<wire, UartReady, rxBuffer, usage, count, input>>
  /\ IF listeners # << >>
     THEN /\ NotifyGive(t, Head(listeners))
          /\ listeners' = Tail(listeners)
          /\ UNCHANGED driver
     ELSE /\ Give(t, "cond")
          /\ Moves(t, "broadcast", "next")
          /\ UNCHANGED listeners

\* the guard is released after each character, and the loop left with the timeout
UnlockInput(t) ==
  /\ Give(t, "uart")
  /\ Moves(t, "next", "poll") \/ Moves(t, "leave", "idle")
  /\ UNCHANGED <<wire, UartReady, rxBuffer, usage, count, input, listeners>>

-----------------------------------------------------------------------------
(* read() *)

\* Mutant: the content is not moved up.
BugRead ==
  /\ usage' = IF usage > 0 THEN usage - 1 ELSE usage
  /\ UNCHANGED <<driver, wire, UartReady, rxBuffer, count, input, listeners>>

Read ==
  /\ IF usage > 0
     THEN /\ usage' = usage - 1
          /\ rxBuffer' = [i \in DOMAIN rxBuffer |->
                            IF i < usage THEN rxBuffer[i + 1] ELSE rxBuffer[i]]
     ELSE UNCHANGED <<usage, rxBuffer>>
  /\ UNCHANGED <<driver, wire, UartReady, count, input, listeners>>

\* what read() returns
Front == IF usage > 0 THEN rxBuffer[1] ELSE NoInput

-----------------------------------------------------------------------------
UartInit ==
  /\ KernelInit
  /\ driver = [t \in Tasks |-> "idle"]
  /\ wire = Nobody
  /\ UartReady = FALSE
  /\ rxBuffer = [i \in 1 .. STM32UART_BUFFER_SIZE |-> NoInput]
  /\ usage = 0
  /\ count = 0
  /\ input = 0
  /\ listeners = << >>

\* what task t does once it is in write() or in uart_process_cycle()
InDriver(t) ==
  \/ LockUart(t)
  \/ Transmit(t)
  \/ Sent(t)
  \/ UnlockUart(t)
  \/ LockForInput(t)
  \/ Receive(t)
  \/ Put(t)
  \/ Count(t)
  \/ LockListeners(t)
  \/ Broadcast(t)
  \/ UnlockInput(t)

-----------------------------------------------------------------------------
(* Properties *)

\* A text stays where it is while the UART transmits it, and the HAL never refuses one:
\* write() returns when the text is out.
WritesAreWhole ==
  /\ wire # Nobody => driver[wire] = "sending"
  /\ \A t \in Tasks : driver[t] = "transmit" => wire = Nobody

=============================================================================
