CONSTANTS
  uart = uart
  usb = usb
  i2c = i2c
  spi = spi
  NULL = NULL
  SerialDrivers <- MCSerialDrivers
  Slots = {"TIMER", "PINCTRL", "CLOCK"}
  Buses <- MCBuses
  N = 2
  StackSize = 2
  MaxDepth = 3
  BusDepth = 1
  MaxNodes = 5
SPECIFICATION Spec
PROPERTY ConsoleKeepsPort
CHECK_DEADLOCK FALSE
