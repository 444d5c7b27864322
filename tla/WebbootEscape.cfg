SPECIFICATION Spec
CONSTANTS
  arch = arch  core = core  a = a  b = b
  up = up  images = images  sub = sub  dl = dl  tmp = tmp
  NoDir = NoDir  NoIso = NoIso  NoDistro = NoDistro  Other = Other
  Distros <- MCDistros
  Names <- MCNames
  Mirrors <- MCMirrors
  Matches <- MCMatches
  Summed = {arch}
  Special <- MCSpecial
  Dirs <- MCDirs
  Root = images
  Downloaded = dl
  Tmp = tmp
  Inside <- MCInside
  Parent <- MCParent
  Stored <- MCStored
  Confs <- StickConfs
INVARIANT Locatable
