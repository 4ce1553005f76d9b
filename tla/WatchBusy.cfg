\* A stopping signal while a chunk of events is handled.
SPECIFICATION Spec
CONSTANTS
  MaxQueue = 2
  SignalPlaces = {"events"}
PROPERTIES StopHonoured
