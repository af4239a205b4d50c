SPECIFICATION Spec
CONSTANTS
    a = a
    b = b
    blank = blank
    lbrace = lbrace
    rbrace = rbrace
    Request = request
    Raw = raw
    Blank = blank
    Texts = {a}
    Opening = {lbrace}
    Closing = {rbrace}
    Layouts = {"indented"}
    Ground <- MCGround
    Expand <- MCExpand
    Scalars <- MCScalars
    ItemLists <- MCItemLists
PROPERTIES
    ClosedSurvives
