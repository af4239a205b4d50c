SPECIFICATION WebSpec
CONSTANTS
    a = a
    b = b
    blank = blank
    lbrace = lbrace
    rbrace = rbrace
    Request = request
    Raw = raw
    Blank = blank
    Texts = {a, rbrace}
    Opening = {lbrace}
    Closing = {rbrace}
    Layouts = {"compact", "spaced", "indented"}
    Ground <- MCGround
    Expand <- MCExpand
    Scalars <- MCScalars
    ItemLists <- MCItemLists
    openai = openai
    repo = repo
    secret = secret
    m1 = m1
    m2 = m2
    None = None
    NoModel = NoModel
    Provider = {openai}
    Preset = {"light", "large"}
    PresetChoice <- MCPresetChoice
    Light = "light"
    Legacy = "large"
    Repo = {repo}
    Key = {secret}
    Model = {m1, m2}
    Slot = {1, 2}
    PassCount = 2
INVARIANTS
    ModelsAccounted
    PanelTrue
PROPERTIES
    ShownStays
    ResultHonest
    StaleOnlyLate
    RunEnds
