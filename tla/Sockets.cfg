SPECIFICATION Spec
CONSTANTS
  Ctl = {c1, c2}
  Names <- MCNames
  Sockets = {1, 2, 3, 4, 5, 6}
  None = None
  NoCtl = NoCtl
SYMMETRY Symmetry
INVARIANT TypeOK
INVARIANT LatestIsBound
INVARIANT AllDescriptors
INVARIANT OwnPath
PROPERTY CutOffByMain
