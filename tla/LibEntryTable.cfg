SPECIFICATION Spec
CONSTANTS
  UsbIds <- MCUsbIds
  SdioIds <- MCSdioIds
  Names <- MCNames
  MaxResets = 2
INVARIANTS
  OpHasTable
