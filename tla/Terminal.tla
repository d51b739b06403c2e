------------------------------- MODULE Terminal -------------------------------
(***************************************************************************)
(* Everything that prints: the console, the threads that log, and the      *)
(* trace (trace.cpp), whose thread prints what was logged while no line is *)
(* being entered.  They share one UART, and the processor by priority.     *)
(*                                                                         *)
(* The trace buffer is counted in units of text.  unseen counts the units  *)
(* that were put into it and have not been transmitted yet, whatever the   *)
(* buffer says.  Once memory behind the buffer is damaged, anything may    *)
(* happen: the model ends there.                                           *)
(***************************************************************************)
EXTENDS Console, FiniteSetsExt

CONSTANTS
  Tracer,              \* TRACE_DebugPrint
  Loggers,             \* the threads that log
  TRACE_BUFFER_LENGTH,
  TextLengths,         \* bound: of the texts that are logged
  OverflowModulus      \* of the counter of the overflows

ASSUME TerminalAssumption ==
  /\ Tracer \in Tasks \ {Main, Low}
  /\ Loggers \subseteq Tasks \ {Main, Low, Tracer}
  /\ "buffer" \in Mutexes \ {"uart"} \* m_trace_buffer_mutex
  /\ TRACE_BUFFER_LENGTH \in Nat \ {0, 1}
  /\ TextLengths \subseteq Nat
  /\ OverflowModulus \in Nat \ {0}

VARIABLES
  m_u_buffer_usage,
  m_u8_number_of_buffer_overflows,
  unseen,
  damaged   \* has a terminator been written over memory that is in use?

traceVars == <<m_u_buffer_usage, m_u8_number_of_buffer_overflows, unseen, damaged>>

vars == <<terminalVars, traceVars>>

-----------------------------------------------------------------------------
(* Logging *)

BeginLog(t) == Acquires(t, "buffer", "log", "store") /\ UNCHANGED <<consoleVars, traceVars>>

\* n units of a text go into the buffer
Stored(n) ==
  /\ m_u_buffer_usage' = m_u_buffer_usage + n
  /\ unseen' = unseen + n

\* Mutant: no place is kept for the terminator.
BugPrintFormatted(len) ==
  /\ Stored(Min({len, TRACE_BUFFER_LENGTH - m_u_buffer_usage}))
  /\ UNCHANGED <<m_u8_number_of_buffer_overflows, damaged>>

\* debug_printf_internal(): vsnprintf keeps one more place for its terminator
PrintFormatted(len) ==
  /\ IF TRACE_BUFFER_LENGTH = m_u_buffer_usage + 1
     THEN /\ m_u8_number_of_buffer_overflows' =
               (m_u8_number_of_buffer_overflows + 1) % OverflowModulus
          /\ UNCHANGED <<m_u_buffer_usage, unseen>>
     ELSE /\ Stored(Min({len, TRACE_BUFFER_LENGTH - m_u_buffer_usage - 2}))
          /\ UNCHANGED m_u8_number_of_buffer_overflows
  /\ UNCHANGED damaged

\* debug_printf(buffer, len): the terminator is written as far behind the text as the text is
\* from the start of the buffer.  Behind the buffer are the usage, which is assigned next, the
\* counter of the overflows, and the mutex and whatever follows.
PrintRaw(len) ==
  LET bytes_to_copy == Min({len, TRACE_BUFFER_LENGTH - m_u_buffer_usage - 1})
      terminator    == m_u_buffer_usage + m_u_buffer_usage + bytes_to_copy
      isInside      == terminator < TRACE_BUFFER_LENGTH
  IN  /\ Stored(bytes_to_copy)
      /\ \/ UNCHANGED <<m_u8_number_of_buffer_overflows, damaged>>
         \/ ~ isInside /\ m_u8_number_of_buffer_overflows' = 0 /\ UNCHANGED damaged
         \/ ~ isInside /\ damaged' = TRUE /\ UNCHANGED m_u8_number_of_buffer_overflows

Store(t) ==
  /\ Goes(t, "store", "log") /\ Give(t, "buffer")
  /\ \E len \in TextLengths : PrintFormatted(len) \/ PrintRaw(len)
  /\ UNCHANGED <<uartVars, consoleVars>>

\* the thread sleeps until its next cycle, once it has logged what it has to
Rest(t) == Sleeps(t, "log") /\ UNCHANGED <<consoleVars, traceVars>>
Rework(t) == Rises(t, "log") /\ UNCHANGED <<consoleVars, traceVars>>

LoggerStep(t) == BeginLog(t) \/ Store(t) \/ Rest(t) \/ Rework(t)

-----------------------------------------------------------------------------
(* The trace thread: cycle() *)

Cycle ==
  /\ Acts(Tracer, "trace", IF m_u_buffer_usage > 0 THEN "claim" ELSE "traced")
  /\ UNCHANGED <<consoleVars, traceVars>>

Claim == Acquires(Tracer, "buffer", "claim", "check") /\ UNCHANGED <<consoleVars, traceVars>>

\* Mutant: data counts as printed from the start.
BugCheck ==
  /\ Acts(Tracer, "check", IF m_bo_blocked THEN "clear" ELSE "print")
  /\ UNCHANGED <<consoleVars, traceVars>>

Check ==
  /\ Acts(Tracer, "check", IF m_bo_blocked THEN "release" ELSE "print")
  /\ UNCHANGED <<consoleVars, traceVars>>

PrintBuffer == Prints(Tracer, "print", "printed") /\ UNCHANGED <<consoleVars, traceVars>>

Printed ==
  /\ Acts(Tracer, "printed", IF m_u8_number_of_buffer_overflows > 0 THEN "warn" ELSE "clear")
  /\ UNCHANGED <<consoleVars, traceVars>>

Warn == Prints(Tracer, "warn", "warned") /\ UNCHANGED <<consoleVars, traceVars>>

Warned ==
  /\ Acts(Tracer, "warned", "clear")
  /\ m_u8_number_of_buffer_overflows' = 0
  /\ UNCHANGED <<consoleVars, m_u_buffer_usage, unseen, damaged>>

\* the buffer is cleared, and its mutex released
Clear ==
  /\ Goes(Tracer, "clear", "traced") /\ Give(Tracer, "buffer")
  /\ m_u_buffer_usage' = 0
  /\ UNCHANGED <<uartVars, consoleVars, m_u8_number_of_buffer_overflows, unseen, damaged>>

\* the console was blocked: the buffer stays as it is
Release ==
  /\ Goes(Tracer, "release", "traced") /\ Give(Tracer, "buffer")
  /\ UNCHANGED <<uartVars, consoleVars, traceVars>>

TraceRest == Sleeps(Tracer, "traced") /\ UNCHANGED <<consoleVars, traceVars>>
TraceRework == Rises(Tracer, "trace") /\ UNCHANGED <<consoleVars, traceVars>>

TraceStep ==
  \/ Cycle
  \/ Claim
  \/ Check
  \/ PrintBuffer
  \/ Printed
  \/ Warn
  \/ Warned
  \/ Clear
  \/ Release
  \/ TraceRest
  \/ TraceRework

-----------------------------------------------------------------------------
(* Specification *)

\* a text of the trace has been transmitted, as far as the buffer was counted
Transmitted ==
  /\ Interrupt
  /\ unseen' = IF wire = Tracer /\ at[Tracer] = "printed" THEN unseen - m_u_buffer_usage ELSE unseen
  /\ UNCHANGED <<m_u_buffer_usage, m_u8_number_of_buffer_overflows, damaged>>

Step(t) ==
  \/ Thread(t) /\ UNCHANGED traceVars
  \/ t = Tracer /\ TraceStep
  \/ t \in Loggers /\ LoggerStep(t)

Timer(t) == TimeIsOver(t) /\ UNCHANGED traceVars

\* the program starts: nothing is held, and each task is at the beginning of its loop
Init ==
  /\ UartInit
  /\ at = [t \in Tasks |-> CASE t = Main -> "run" [] t = Low -> "cycle"
                             [] t = Tracer -> "trace" [] OTHER -> "log"]
  /\ m_bo_blocked = FALSE
  /\ line = FALSE
  /\ timedOut = FALSE
  /\ phantom = FALSE
  /\ c = NoInput
  /\ m_u_buffer_usage = 0
  /\ m_u8_number_of_buffer_overflows = 0
  /\ unseen = 0
  /\ damaged = FALSE

Next ==
  \/ ~ damaged /\ \E t \in Tasks : Step(t)
  \/ ~ damaged /\ \E t \in Tasks : Timer(t)
  \/ ~ damaged /\ TimeOut /\ UNCHANGED traceVars
  \/ ~ damaged /\ Transmitted
  \/ damaged /\ UNCHANGED vars

Spec == Init /\ [][Next]_vars

-----------------------------------------------------------------------------
(* Properties *)

TypeOK ==
  /\ ConsoleTypeOK
  /\ m_u_buffer_usage \in 0 .. TRACE_BUFFER_LENGTH - 1
  /\ m_u8_number_of_buffer_overflows \in 0 .. OverflowModulus - 1
  /\ unseen \in 0 .. TRACE_BUFFER_LENGTH - 1
  /\ damaged \in BOOLEAN

\* The trace buffer holds what was logged and not printed yet: nothing that was stored is
\* cleared unseen, and nothing is printed twice.
TraceIsKept ==
  \/ unseen = m_u_buffer_usage
  \/ unseen = 0 /\ at[Tracer] \in {"printed", "warn", "warned", "clear"}

(* What a comment of the code says, and the code does not do *)

\* "Counter increased by one in case the output buffer is full. Then, upon the next print, a
\* warning will be printed": a text of which nothing got into the buffer is counted.
LossIsCounted ==
  [][\A t \in Loggers :
       at[t] = "store" /\ at'[t] = "log" /\ m_u_buffer_usage' = m_u_buffer_usage
         => m_u8_number_of_buffer_overflows' # m_u8_number_of_buffer_overflows]_vars

=============================================================================
