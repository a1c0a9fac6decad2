SPECIFICATION Spec
CONSTANTS
  sf = sf
  app = app
  Process = {sf, app}
  Allocator = sf
  Buffer = {b1}
  Handle = {h1, h2, h3}
  Width = {1, 2, 5}
  Height = {1, 3}
  NoBuffer = NoBuffer
SYMMETRY Symmetry
CHECK_DEADLOCK FALSE
INVARIANT TypeOK
INVARIANT NoStrayUnmap
INVARIANT MappingsCounted
INVARIANT FilesAnonymous
INVARIANT RowsFit
