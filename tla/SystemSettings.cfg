SPECIFICATION Spec
CONSTANTS
    i1 = i1
    core = core
    number = number
    num = num
    word = word
    Ids = {i1, i2}
    SettingKeys = {core, other}
    CoreKeys = {core}
    Types = {text, number}
    Text = text
    Values = {empty, num, word}
    Empty = empty
    ParsesAs <- MCParsesAs
    Calls = {c1, c2}
    Initial <- MCInitial
    None = None
SYMMETRY AnyOrder
INVARIANTS TypeOK StoredValuesConvert BatchDeletesAll CoreSettingsStay
CHECK_DEADLOCK FALSE
