\* Lists of up to three devices.  queues_ci has eight entries in the code and
\* three here: families that fit exactly and one too many stay small.  Word, 2^32
\* in the code, is 2^12: above every score that does not wrap.
CONSTANTS
  DeviceLists <- MCDeviceLists
  Garbage <- MCGarbage
  Word = 4096
  max_queue_count = 3
  DeviceMayFail = TRUE

SPECIFICATION SetupSpec

INVARIANTS
  TypeOK
  GpuinfoOfSelected
  OldDeviceOnlyByDefault
  RequestsEachUniversalFamilyOnce
  SuitableDevicesSetUp
