SPECIFICATION ConsoleSpec
CONSTANTS
  main = main
  low = low
  Tasks = {main, low}
  Main = main
  Low = low
  Locks = {"uart", "cond"}
  Mutexes = {"uart"}
  BasePriority <- MCBasePriority
  Nobody = Nobody
  STM32UART_BUFFER_SIZE = 3
  MaxInput = 4
INVARIANTS
  ConsoleTypeOK
  InputInOrder
  PhantomsFollowTimeouts
PROPERTIES
  InputIsRead
