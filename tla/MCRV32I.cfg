SPECIFICATION Spec
CONSTANTS
  RAM_BITS = 4
  Devices <- MCDevices
  DeviceBytes <- MCDeviceBytes
  Machines <- MCRecords
  MaxSteps = 2
INVARIANTS TypeOK
INVARIANTS ImmediatesExact OperationExact ListingExact
PROPERTIES ImplementsManual
