SPECIFICATION Spec
CONSTANTS
    u1 = u1
    Uploads <- OneUpload
    MaxWrites = 2
    MaxHups = 1
    Mixed = Mixed
INVARIANTS
    TypeOK
    RegistrationsSurvive
    ToolsJudgedInForce
PROPERTY
    ChangesTakeEffect
