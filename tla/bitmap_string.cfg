\* Any set of the cpus 0 to 9, over two bytes, or of what And made of one.
SPECIFICATION Spec
CONSTANTS
  MaxCpu = 9
  Others <- MCOthers
INVARIANTS
  TypeOK
  StringNamesTheCpus
PROPERTIES
  ImplementsCpuSet
