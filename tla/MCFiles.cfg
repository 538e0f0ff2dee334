SPECIFICATION Spec
CONSTANTS
    PlyFiles <- MCPlyFiles
    TgaFiles <- MCTgaFiles
    Documents <- MCDocuments
    Base85Files <- MCBase85Files
    MeshFiles <- MCMeshFiles
    SceneValues <- MCSceneValues
    MaxInt = 2
    MaxFloat = 7
    MaxPower = 5
    StringCalls <- MCStringCalls
    BufferSize = 4
    TicksPerSecond = 4
    Base = 4
    ByteBase = 5
    Max8 = 3
    Max16 = 4
    MaxReplacements = 1
    Height = 2
INVARIANTS
    PlyIsReadAsWritten
    TgaIsReadAsWritten
    JsonIsReadAsWritten
    StringsAreConverted
    MeshIsReadAsWritten
    SceneIsReadAsWritten
    TransformsHaveInverses
    ImagesAreReadByContent
CHECK_DEADLOCK FALSE
