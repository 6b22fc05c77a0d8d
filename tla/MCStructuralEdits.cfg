CONSTANTS
  CountLimit = 65536
  AnyName <- AllStrings
  NoName = ""
  Inputs <- StructuralFiles
  Texts <- MCTexts
  Bytes <- MCBytes
  CodePages <- MCCodePages
  Decoding <- MCDecoding
  Encoding <- MCEncoding
  NoText = "NoText"
  NoBytes = "NoBytes"
  Incompressible = {"noise"}
  DirCompresses <- MCDirCompresses
  FatSectors <- MCFatSectors
  MaxFatSectors = 3
  TooLong = {"LongName"}
  NonASCII = {"NihonName"}
  Names = {"Form", "dir", "", "LongName"}
  Edits = {"StreamName", "Name", "Type", "Add", "Remove"}
  MaxModules = 2
  NoProject = NoProject
SPECIFICATION Spec
INVARIANTS RoundTrip SelfConsistent
