SPECIFICATION Spec
CONSTANTS
  main = main
  low = low
  tracer = tracer
  cyc = cyc
  Tasks = {main, low, tracer, cyc}
  Main = main
  Low = low
  Tracer = tracer
  Loggers = {cyc}
  Locks = {"uart", "buffer", "cond"}
  Mutexes = {"uart", "buffer"}
  BasePriority <- MCBasePriority
  Nobody = Nobody
  STM32UART_BUFFER_SIZE = 1
  MaxInput = 1
  TRACE_BUFFER_LENGTH = 3
  TextLengths = {2}
  OverflowModulus = 2
INVARIANTS
  TypeOK
  WritesAreWhole
  TraceIsKept
