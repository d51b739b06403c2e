-------------------------------- MODULE Console --------------------------------
(***************************************************************************)
(* The console (os_console.cpp) in the main thread: it looks for input     *)
(* every 10 ms, prompts, reads a line character by character, echoes what  *)
(* is typed and runs the command; and the low-priority thread that polls   *)
(* the UART for input and triggers the watchdog.                           *)
(*                                                                         *)
(* What kind of character was typed is decided when it is read, and what a *)
(* backspace leaves of a line when it is typed.                            *)
(***************************************************************************)
EXTENDS Uart

CONSTANTS
  Main, \* MAIN_startup_thread, running console_thread
  Low   \* CycLow100ms

ASSUME ConsoleAssumption ==
  /\ {Main, Low} \subseteq Tasks /\ Main # Low
  /\ \A t \in Tasks \ {Main} : BasePriority[t] < BasePriority[Main]

VARIABLES
  m_bo_blocked, \* a line is being entered
  line,         \* is there anything on it
  c,            \* the character read() has returned
  timedOut,     \* has the wait for input been given up before?
  phantom       \* has a character been read that nobody has typed?

consoleVars == <<m_bo_blocked, line, c, timedOut, phantom>>

\* task t goes on from one place of its own code to another, outside the driver
Goes(t, from, to) ==
  /\ at[t] = from /\ driver[t] = "idle"
  /\ at' = [at EXCEPT ![t] = to]

\* ... and computes
Acts(t, from, to) == Goes(t, from, to) /\ Executes(t) /\ UNCHANGED <<kernelVars, uartVars>>

\* ... and prints a text
Prints(t, from, to) == Goes(t, from, to) /\ Write(t)

\* ... with a lock it may have to wait for
Acquires(t, l, from, to) ==
  /\ driver[t] = "idle" /\ at[t] = from /\ UNCHANGED uartVars
  /\ \/ Take(t, l) /\ at' = [at EXCEPT ![t] = to]
     \/ Wait(t, l) /\ UNCHANGED at

\* ... and sleeps for a while
Sleeps(t, from) == Goes(t, from, "asleep") /\ Delay(t) /\ UNCHANGED uartVars
Rises(t, to) == Goes(t, "asleep", to) /\ Resume(t) /\ UNCHANGED uartVars

-----------------------------------------------------------------------------
(* The console *)

\* run(): is there input?
Run ==
  /\ IF usage > 0
     THEN Acts(Main, "run", "prompt") /\ m_bo_blocked' = TRUE
     ELSE Acts(Main, "run", "pause") /\ UNCHANGED m_bo_blocked
  /\ UNCHANGED <<line, c, timedOut, phantom>>

Prompt ==
  /\ Prints(Main, "prompt", "wait")
  /\ line' = FALSE
  /\ UNCHANGED <<m_bo_blocked, c, timedOut, phantom>>

\* Mutant: available() >= 0.
BugWaitForInput == Acts(Main, "wait", "read") /\ UNCHANGED consoleVars

\* wait_for_input_to_be_available(): is there input already?
WaitForInput ==
  /\ IF usage > 0 THEN Acts(Main, "wait", "read") ELSE Acts(Main, "wait", "listen")
  /\ UNCHANGED consoleVars

\* __gthread_cond_timedwait: into the list, to sleep, and out of the list in case of a timeout
LockListening == Acquires(Main, "cond", "listen", "enlist") /\ UNCHANGED consoleVars

Enlist ==
  /\ Goes(Main, "enlist", "doze") /\ Give(Main, "cond")
  /\ listeners' = Append(listeners, Main)
  /\ UNCHANGED <<driver, wire, UartReady, rxBuffer, usage, count, input, consoleVars>>

Doze == Goes(Main, "doze", "woken") /\ Await(Main) /\ UNCHANGED <<uartVars, consoleVars>>

Woken ==
  /\ Awake(Main) /\ Goes(Main, "woken", IF notified[Main] THEN "read" ELSE "give up")
  /\ timedOut' = (timedOut \/ ~ notified[Main])
  /\ UNCHANGED <<uartVars, m_bo_blocked, line, c, phantom>>

LockGivingUp == Acquires(Main, "cond", "give up", "remove") /\ UNCHANGED consoleVars

\* remove() takes every entry of the task out of the list, in which there are no others: only
\* the console waits for input
Remove ==
  /\ Goes(Main, "remove", "read") /\ Give(Main, "cond")
  /\ listeners' = << >>
  /\ UNCHANGED <<driver, wire, UartReady, rxBuffer, usage, count, input, consoleVars>>

\* read_input_line(): the character is taken whether there is one or not
ReadChar ==
  /\ Goes(Main, "read", "typed") /\ Executes(Main) /\ UNCHANGED kernelVars
  /\ Read
  /\ c' = Front
  /\ phantom' = (phantom \/ usage = 0)
  /\ UNCHANGED <<m_bo_blocked, line, timedOut>>

\* ... and appended and echoed, or it takes back another, or it ends the line; the -1 of
\* read() is a character like any other.  A NUL is echoed, and leaves the line as it is.
\* What a command has asked for is read in the same way, or is a single key.
Echo ==
  /\ Prints(Main, "typed", "wait")
  /\ line' \in IF c = NoInput THEN {TRUE} ELSE BOOLEAN
  /\ UNCHANGED <<m_bo_blocked, c, timedOut, phantom>>

NothingToErase ==
  /\ c # NoInput /\ ~ line
  /\ Acts(Main, "typed", "wait")
  /\ UNCHANGED consoleVars

EndOfLine ==
  /\ c # NoInput
  /\ IF m_bo_blocked THEN Prints(Main, "typed", "entered") ELSE Acts(Main, "typed", "process")
  /\ UNCHANGED consoleVars

Typed == Echo \/ NothingToErase \/ EndOfLine

\* the line is complete, and process_input() prints what the command has to say
Entered ==
  /\ Acts(Main, "entered", IF line THEN "process" ELSE "pause")
  /\ m_bo_blocked' = FALSE
  /\ UNCHANGED <<line, c, timedOut, phantom>>

\* the command prints its answer, and ends ...
Answer == Prints(Main, "process", "pause") /\ UNCHANGED consoleVars

\* ... or asks for something (read_int32, read_bool_input): the console reads on, and no
\* longer blocks the trace
Ask ==
  /\ Prints(Main, "process", "wait")
  /\ line' = FALSE
  /\ UNCHANGED <<m_bo_blocked, c, timedOut, phantom>>

Process == Answer \/ Ask

Pause == Sleeps(Main, "pause") /\ UNCHANGED consoleVars
Rerun == Rises(Main, "run") /\ UNCHANGED consoleVars

ConsoleStep ==
  \/ Run
  \/ Prompt
  \/ WaitForInput
  \/ LockListening
  \/ Enlist
  \/ Doze
  \/ Woken
  \/ LockGivingUp
  \/ Remove
  \/ ReadChar
  \/ Typed
  \/ Entered
  \/ Process
  \/ Pause
  \/ Rerun

-----------------------------------------------------------------------------
(* The low-priority thread *)

\* cycle_low_prio_100ms(): uart_process_cycle() ...
Poll == Goes(Low, "cycle", "polled") /\ BeginCycle(Low) /\ UNCHANGED consoleVars

\* ... and the watchdog.  The cycle has taken 100 ms at least, so that nothing is left to
\* sleep for: sleep_for(0) returns at once.
Trigger == Acts(Low, "polled", "cycle") /\ UNCHANGED consoleVars

LowStep == Poll \/ Trigger

\* what a task does in the driver
DriverStep(t) == InDriver(t) /\ UNCHANGED <<at, consoleVars>>

\* the interrupt
Interrupt == TxCplt /\ UNCHANGED <<kernelVars, at, consoleVars>>

\* the kernel's timer: nobody types for 100 s, or the time of a delay is over
TimeOut ==
  /\ call[Main] = "notification"
  /\ Expire(Main)
  /\ UNCHANGED <<uartVars, at, consoleVars>>

TimeIsOver(t) ==
  /\ call[t] = "delay" /\ Expire(t)
  /\ UNCHANGED <<uartVars, at, consoleVars>>

-----------------------------------------------------------------------------
(* Specification: the two threads alone *)

Thread(t) ==
  \/ t = Main /\ ConsoleStep
  \/ t = Low /\ LowStep
  \/ DriverStep(t)

ConsoleInit ==
  /\ UartInit
  /\ at = [t \in Tasks |-> IF t = Main THEN "run" ELSE "cycle"]
  /\ m_bo_blocked = FALSE
  /\ line = FALSE
  /\ c = NoInput
  /\ timedOut = FALSE
  /\ phantom = FALSE

ConsoleNext ==
  \/ \E t \in Tasks : Thread(t)
  \/ \E t \in Tasks : TimeIsOver(t)
  \/ TimeOut
  \/ Interrupt

terminalVars == <<kernelVars, uartVars, at, consoleVars>>

\* The processor is not saturated: a task that is ready again and again gets on again and
\* again.  Transmissions and delays end.
ConsoleSpec ==
  /\ ConsoleInit /\ [][ConsoleNext]_terminalVars
  /\ \A t \in Tasks : SF_terminalVars(Thread(t)) /\ WF_terminalVars(TimeIsOver(t))
  /\ WF_terminalVars(Interrupt)

-----------------------------------------------------------------------------
(* Properties *)

ConsoleTypeOK ==
  /\ KernelTypeOK
  /\ at = [t \in Tasks |-> at[t]]
  /\ driver \in [Tasks -> DriverPlaces]
  /\ wire \in Tasks \cup {Nobody}
  /\ UartReady \in BOOLEAN
  /\ rxBuffer \in [1 .. STM32UART_BUFFER_SIZE -> 0 .. MaxInput]
  /\ usage \in 0 .. STM32UART_BUFFER_SIZE
  /\ count \in 0 .. STM32UART_BUFFER_SIZE
  /\ input \in 0 .. MaxInput
  /\ listeners \in Seq({Main})
  /\ m_bo_blocked \in BOOLEAN
  /\ line \in BOOLEAN
  /\ c \in 0 .. MaxInput
  /\ timedOut \in BOOLEAN
  /\ phantom \in BOOLEAN

\* Characters are read in the order of arrival, each of them once, although read() and
\* uart_process_cycle() change the buffer from two threads and only one of them locks.
InputInOrder ==
  \A i, j \in 0 .. usage : i < j =>
    LET x == IF i = 0 THEN c ELSE rxBuffer[i]
    IN x < rxBuffer[j] \/ (x = MaxInput /\ rxBuffer[j] = MaxInput)

\* The console takes a character that nobody has typed only after it has waited 100 s in
\* vain before: until then each notification stands for a character.
PhantomsFollowTimeouts == phantom => timedOut

\* What was typed is read: whenever there is input the console takes a character, although
\* it may just have decided to sleep.
InputIsRead == usage > 0 ~> usage > 0 /\ at[Main] = "read"

(* What comments of the code say, and the code does not do *)

\* "must know all the threads waiting in a queue", "timeout - remove the thread from the
\* waiting list": a task in the list of the condition variable waits for it.
ListenersWait ==
  listeners # << >> => at[Main] \in {"doze", "woken", "give up", "remove"}

\* "to be executed every 100ms": the low-priority thread begins its cycle again and again.
CycleIsExecuted == []<>(at[Low] = "cycle")

=============================================================================
