SPECIFICATION Spec
CONSTANTS
  Devices <- MCDevices
  Functions = {"perf", "energy", "energy_cpu", "energy_gpu", "temperature", "temperature_hwmon"}
  CpuBackend = "rapl"
  MayThrow = {"perf", "rapl", "nvidia", "amd", "hwmon_temperature", "gpu_temperature"}
  MaxStarts = 4
  MaxFaults = 2
INVARIANTS TypeOK StacksFollowScopes LibraryBalanced IndexNamesDevice
