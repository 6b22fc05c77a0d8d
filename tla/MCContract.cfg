CONSTANTS
  CountLimit = 65536
  AnyName <- AllStrings
  NoName = ""
  Inputs <- ImportFiles
  Texts <- ImportTexts
  Bytes <- ImportBytes
  CodePages <- MCCodePages
  Decoding <- ImportDecoding
  Encoding <- ImportEncoding
  NoText <- Refused
  NoBytes <- RefusedBytes
  Incompressible <- Noise
  DirCompresses <- MCDirCompresses
  FatSectors <- ImportFatSectors
  MaxFatSectors = 3
  TooLong = {"LongName"}
  NonASCII = {"NihonName"}
  Names = {}
  Edits = {}
  Disks <- MCDisks
  MaxModules = 2
  NoProject = NoProject
SPECIFICATION ViewSpec
INVARIANTS ImportsForgetHistory KeepsForm
PROPERTY ImplementsContract
