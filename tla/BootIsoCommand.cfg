SPECIFICATION Spec
CONSTANTS
  live = live  both = both  grub = grub  empty = empty  p = p  q = q  r = r
  NoIso = NoIso
  Isos <- MCIsos
  Paths = {p, q, r}
  Parsed = {both, grub}
  Count <- MCCount
  Kernel <- MCKernel
  Initrd <- MCInitrd
INVARIANT PrefersCommand
CHECK_DEADLOCK FALSE
