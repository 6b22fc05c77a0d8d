CONSTANTS
  CountLimit = 65536
  AnyName <- AllStrings
  NoName = ""
  Inputs <- NamedDocument
  Texts <- MCTexts
  Bytes <- MCBytes
  CodePages <- MCCodePages
  Decoding <- MCDecoding
  Encoding <- MCEncoding
  NoText = "NoText"
  NoBytes = "NoBytes"
  Incompressible = {"noise"}
  DirCompresses <- MCDirCompresses
  FatSectors <- MCFatSectors
  MaxFatSectors = 3
  TooLong = {"LongName"}
  NonASCII = {"NihonName"}
  Names = {}
  Edits = {"Source"}
  MaxModules = 2
  NoProject = NoProject
SPECIFICATION Spec
INVARIANT SourceEditsSavable
