----------------------------- MODULE SpecStream -----------------------------
(***************************************************************************)
(* The compile loop of the web application (compile in                     *)
(* src/src/web/index.ts) with the two readers of a pass's output           *)
(* (src/src/web/lib/prompt.ts): parseStreamingSpec on every token, and     *)
(* parseCompiledSpec when the pass has ended, whether the model closed the *)
(* object or was stopped by its token limit.                               *)
(*                                                                         *)
(* The output is a sequence of lexical tokens.  Of a string only its value *)
(* matters and whether it has an unbalanced brace in it: both readers look *)
(* for braces without regard to quotes.  The model writes the fields it    *)
(* was asked for in order, perhaps not all of them, in one of several      *)
(* layouts: without white space, with a space after each comma and colon,  *)
(* or indented, which is the layout of the prompt itself (shapeFor).       *)
(* Definitions whose name ends in _Faulty... are deliberate errors: they   *)
(* stand in for the definition after them to show that a property notices. *)
(* Strings equal to a field's name are left out (README.md says what the   *)
(* readers do with them), and so are the user's dismissals.                *)
(***************************************************************************)
EXTENDS Integers, FiniteSets, SequencesExt

CONSTANTS
    Ground, Expand,  \* the fields of the two passes, in order
    Scalars,         \* the fields with a text, the others have a list of texts
    Texts,           \* what a text may be, apart from the request
    ItemLists,       \* the lists of texts the model may write
    Layouts,         \* subset of {"compact", "spaced", "indented"}
    Blank,           \* a text of white space
    Opening, Closing,\* the texts with an unmatched { or } in them
    Request,         \* the user's request, which is also the fallback for the task
    Raw              \* the whole output as one text, the last resort

ASSUME TextsAssumption ==
    /\ Blank \notin Opening \cup Closing
    /\ Opening \cap Closing = {}
    /\ {Request, Raw} \cap (Texts \cup {Blank}) = {}
    /\ (ToSet(Ground) \cup ToSet(Expand)) \cap Texts = {}

Passes == <<Ground, Expand>>
Fields(p) == ToSet(Passes[p])
AllFields == Fields(1) \cup Fields(2)

VARIABLES
    phase,   \* idle, preparing (createEngine), asked, streaming, compiled, failed
    pass,    \* index into Passes
    doc,     \* what the model is writing in this pass
    at,      \* tokens of it received
    half,    \* part of the string after them has been received
    spec,    \* the fields merged from the passes that ended
    view     \* what specView shows: spec, the active field, the skeletons

vars == <<phase, pass, doc, at, half, spec, view>>

NoField == "none"
NoActive == [field |-> NoField, items |-> <<>>, partial |-> Blank]
Empty == [f \in {} |-> Blank]

-----------------------------------------------------------------------------
\* The output of a pass.

Tok(k) == [k |-> k, v |-> Blank]
Str(v) == [k |-> "str", v |-> v]

Items(list) ==
    FlattenSeq([i \in DOMAIN list |->
        IF i = 1 THEN <<Str(list[1])>> ELSE <<Tok(","), Str(list[i])>>])

Value(f, v) ==
    IF f \in Scalars THEN <<Str(v)>> ELSE <<Tok("[")>> \o Items(v) \o <<Tok("]")>>

\* White space, in a document of one of these layouts.
Gap(d, layouts) == IF d.layout \in layouts THEN <<Tok("gap")>> ELSE <<>>

\* The tokens of a document: its fields in the order it has them.
Output(d) ==
    LET before(i) == IF i = 1 THEN Gap(d, {"indented"})
                     ELSE <<Tok(",")>> \o Gap(d, {"indented", "spaced"})
        field(i)  == before(i) \o <<Str(d.fields[i]), Tok(":")>>
                        \o Gap(d, {"indented", "spaced"})
                        \o Value(d.fields[i], d.value[d.fields[i]])
    IN  <<Tok("{")>> \o FlattenSeq([i \in DOMAIN d.fields |-> field(i)])
            \o Gap(d, {"indented"}) \o <<Tok("}")>>

\* The model stops after any of the fields it was asked for; `out' are the tokens.
Documents(p) ==
    UNION {[layout : Layouts, fields : {fs},
            value : {v \in [ToSet(fs) -> Texts \cup ItemLists] :
                        \A f \in ToSet(fs) :
                            v[f] \in IF f \in Scalars THEN Texts ELSE ItemLists}] :
           fs \in {SubSeq(Passes[p], 1, m) : m \in 1 .. Len(Passes[p])}}

\* The buffer: a string that has only begun has no closing quote.
Buffer(d, n, h) ==
    SubSeq(d.out, 1, n) \o (IF h THEN <<[k |-> "open", v |-> d.out[n + 1].v]>> ELSE <<>>)

-----------------------------------------------------------------------------
\* Searching the buffer.  A position is the index of a token, 0 if there is none.

Lowest(S) == IF S = {} THEN 0 ELSE CHOOSE i \in S : \A j \in S : i <= j
Highest(S) == IF S = {} THEN 0 ELSE CHOOSE i \in S : \A j \in S : i >= j

\* A key follows directly on a comma or, failing that, on a brace.
KeyStart(b, key, from) ==
    LET after(k) == {i \in 2 .. Len(b) : i > from /\ b[i] = Str(key) /\ b[i - 1].k = k}
    IN  IF after(",") # {} THEN Lowest(after(",")) ELSE Lowest(after("{"))

ColonAfter(b, i) == Lowest({j \in i .. Len(b) : b[j].k = ":"})

\* indexOf and lastIndexOf also see the braces in a text.
Opens(t) == t.k = "{" \/ (t.k \in {"str", "open"} /\ t.v \in Opening)
Closes(t) == t.k = "}" \/ (t.k \in {"str", "open"} /\ t.v \in Closing)

NonBlank(list) == SelectSeq(list, LAMBDA t : t # Blank)
Strings(b) == LET s == SelectSeq(b, LAMBDA t : t.k = "str")
              IN  [i \in DOMAIN s |-> s[i].v]

\* JSON.parse of the slice between two keys.
Trimmed(b) == SelectSeq(b, LAMBDA t : t.k # "gap")
Parses(b, f) == LET s == Trimmed(b)
                IN  IF f \in Scalars THEN Len(s) = 1 /\ s[1].k = "str"
                    ELSE s = Value(f, Strings(s))
Read(b, f) == IF f \in Scalars THEN Trimmed(b)[1].v ELSE NonBlank(Strings(b))

\* The slice that holds the value of a field, up to the next key or to the last
\* closing brace; nothing while that has not arrived.
Segment(b, fs, i) ==
    LET key   == KeyStart(b, fs[i], 0)
        colon == IF key = 0 THEN 0 ELSE ColonAfter(b, key)
        next  == IF i < Len(fs) THEN KeyStart(b, fs[i + 1], colon)
                 ELSE Highest({j \in 1 .. Len(b) : Closes(b[j])})
        end   == IF i < Len(fs) THEN next - 2 ELSE next - 1
    IN  IF colon = 0 \/ next <= colon THEN <<>> ELSE SubSeq(b, colon + 1, end)

\* parsePartialSpec: the fields up to the first whose value is not there yet.
Complete(b, fs) ==
    LET there == {i \in DOMAIN fs : Parses(Segment(b, fs, i), fs[i])}
        n     == Highest({m \in DOMAIN fs : 1 .. m \subseteq there})
    IN  [f \in {fs[i] : i \in 1 .. n} |->
            Read(Segment(b, fs, CHOOSE i \in 1 .. n : fs[i] = f), f)]

Open(b) == SelectSeq(b, LAMBDA t : t.k = "open")
Partial(b) == IF Open(b) = <<>> THEN Blank ELSE Open(b)[1].v

\* parseStreamingSpec: the field after the complete ones.  The scan of a list runs
\* to the end of the buffer, over whatever strings come after its bracket.
Active(b, fs, complete) ==
    LET n     == Cardinality(DOMAIN complete) + 1
        key   == IF n > Len(fs) THEN 0 ELSE KeyStart(b, fs[n], 0)
        colon == IF key = 0 THEN 0 ELSE ColonAfter(b, key)
        tail  == SubSeq(b, colon + 1, Len(b))
        inner == SubSeq(tail, Lowest({i \in DOMAIN tail : tail[i].k = "["}) + 1, Len(tail))
    IN  IF colon = 0 THEN NoActive
        ELSE IF fs[n] \in Scalars
        THEN IF Open(tail) = <<>> \/ Strings(tail) # <<>> THEN NoActive
             ELSE [field |-> fs[n], items |-> <<>>, partial |-> Partial(tail)]
        ELSE IF \A i \in DOMAIN tail : tail[i].k # "[" THEN NoActive
        ELSE [field |-> fs[n], items |-> Strings(inner), partial |-> Partial(inner)]

-----------------------------------------------------------------------------
\* parseCompiledSpec.

\* Where the braces balance for the first time, those in texts counted too.
ObjectEnd(b) ==
    LET depth(j) == Cardinality({i \in 1 .. j : Opens(b[i])})
                        - Cardinality({i \in 1 .. j : Closes(b[i])})
    IN  Lowest({j \in 1 .. Len(b) : Closes(b[j]) /\ depth(j) = 0})

\* The slice is an object only when it ends at the brace that closes one.
HasObject(b) == ObjectEnd(b) # 0 /\ b[ObjectEnd(b)].k = "}"

ObjectValue(b, f) ==
    LET colon == Lowest({i \in 2 .. Len(b) : b[i].k = ":" /\ b[i - 1] = Str(f)})
        rest  == SubSeq(b, colon, Len(b))
    IN  IF f \in Scalars THEN Strings(rest)[1]
        ELSE NonBlank(Strings(SubSeq(rest, 1, Lowest({i \in DOMAIN rest : rest[i].k = "]"}))))

Parsed(b) ==
    [f \in {g \in AllFields : \E i \in 1 .. Len(b) - 1 : b[i] = Str(g) /\ b[i + 1].k = ":"}
        |-> ObjectValue(b, f)]

Keeping(f, v, rest) == [g \in DOMAIN rest \cup {f} |-> IF g = f THEN v ELSE rest[g]]

Salvaged_FaultyComplete(b, fs) == Complete(b, fs)

\* What had closed, and the closed items of the list that had not.
Salvaged(b, fs) ==
    LET complete == Complete(b, fs)
        active   == Active(b, fs, complete)
    IN  IF active.items = <<>> THEN complete
        ELSE Keeping(active.field, active.items, complete)

\* Every field of a specification, with the defaults for those that are missing.
Filled(got) ==
    [f \in AllFields |->
        IF f \in DOMAIN got /\ (f = "task" => got[f] # Blank) THEN got[f]
        ELSE IF f = "task" THEN Request
        ELSE IF f \in Scalars THEN Blank ELSE <<>>]

Result(b, fs) ==
    LET got == IF HasObject(b) THEN Parsed(b) ELSE Salvaged(b, fs)
    IN  IF HasObject(b) \/ b = <<>> \/ DOMAIN got # {} THEN Filled(got)
        ELSE [Filled(got) EXCEPT !["context"] = Raw]

Nothing(v) == v \in {Blank, <<>>}

Merge_FaultyAllFields(p, result) ==
    LET given == {f \in AllFields : ~Nothing(result[f])}
    IN  [f \in DOMAIN spec \cup given |-> IF f \in given THEN result[f] ELSE spec[f]]

Merge(p, result) ==
    LET given == {f \in Fields(p) : ~Nothing(result[f])}
    IN  [f \in DOMAIN spec \cup given |-> IF f \in given THEN result[f] ELSE spec[f]]

-----------------------------------------------------------------------------
\* The compile loop.

NoDoc == [layout |-> "none", fields |-> <<>>, value |-> Empty, out |-> <<>>]

Init ==
    /\ phase = "idle" /\ pass = 1
    /\ doc = NoDoc /\ at = 0 /\ half = FALSE
    /\ spec = Empty /\ view = [spec |-> Empty, active |-> NoActive, pending |-> {}]

\* The form is disabled from here until the run has ended.
Submit ==
    /\ phase \in {"idle", "compiled", "failed"}
    /\ phase' = "preparing" /\ pass' = 1
    /\ doc' = NoDoc /\ at' = 0 /\ half' = FALSE
    /\ spec' = Empty /\ view' = [spec |-> Empty, active |-> NoActive, pending |-> {}]

\* A pass starts with a skeleton for its first field.
Begin(p, before) ==
    /\ phase' = "asked" /\ pass' = p
    /\ doc' = NoDoc /\ at' = 0 /\ half' = FALSE
    /\ spec' = before
    /\ view' = [spec |-> before, active |-> NoActive, pending |-> {Passes[p][1]}]

EngineReady == phase = "preparing" /\ Begin(1, Empty)

\* The model decides what to write.
Generate ==
    /\ phase = "asked" /\ phase' = "streaming"
    /\ \E d \in Documents(pass) :
          doc' = [layout |-> d.layout, fields |-> d.fields, value |-> d.value, out |-> Output(d)]
    /\ UNCHANGED <<pass, at, half, spec, view>>

\* An error leaves on the page whatever was there, skeletons included.
Fails ==
    /\ phase \in {"preparing", "asked", "streaming"}
    /\ phase' = "failed"
    /\ UNCHANGED <<pass, doc, at, half, spec, view>>

\* onToken: the view of the buffer so far, and a skeleton for the next field.
Streaming(b, p) ==
    LET complete == Complete(b, Passes[p])
        active   == Active(b, Passes[p], complete)
        merged   == [f \in DOMAIN spec \cup DOMAIN complete |->
                        IF f \in DOMAIN complete THEN complete[f] ELSE spec[f]]
        waiting  == SelectSeq(Passes[p],
                        LAMBDA f : f \notin DOMAIN merged /\ f # active.field)
    IN  [spec |-> merged, active |-> active,
         pending |-> IF waiting = <<>> THEN {} ELSE {waiting[1]}]

Token ==
    /\ phase = "streaming" /\ at < Len(doc.out)
    /\ \/ ~half /\ doc.out[at + 1].k = "str" /\ half' = TRUE /\ at' = at
       \/ half' = FALSE /\ at' = at + 1
    /\ view' = Streaming(Buffer(doc, at', half'), pass)
    /\ UNCHANGED <<phase, pass, doc, spec>>

\* The model has finished, or is stopped by the limit after any token.
PassEnds ==
    /\ phase = "streaming"
    /\ LET merged == Merge(pass, Result(Buffer(doc, at, half), Passes[pass]))
       IN  \/ pass < Len(Passes) /\ Begin(pass + 1, merged)
           \/ /\ pass = Len(Passes)
              /\ phase' = "compiled" /\ spec' = merged
              /\ view' = [spec |-> merged, active |-> NoActive, pending |-> {}]
              /\ doc' = NoDoc /\ at' = 0 /\ half' = FALSE /\ UNCHANGED pass

Next == Submit \/ EngineReady \/ Generate \/ Fails \/ Token \/ PassEnds

Spec == Init /\ [][Next]_vars

-----------------------------------------------------------------------------
\* Properties.

ValueOf(s, f) == IF f \in DOMAIN s THEN s[f] ELSE IF f \in Scalars THEN Blank ELSE <<>>

Shown(w, f) ==
    NonBlank(ValueOf(w.spec, f) \o (IF w.active.field = f THEN w.active.items ELSE <<>>))

\* While the passes stream, the user sees sections grow, and never sees one lose or
\* change what it had: not when a list closes and its items move from the active
\* field to the complete ones, not when a pass ends, whichever way its output is
\* then read, and not when a later pass overwrites fields (index.ts:291-334).  Excepted
\* is the end of a pass with a space after its commas: the scan of a list has run over
\* the keys after it, and the names and items it showed as items are taken back.
ShownStays ==
    [][phase = "asked" \/ phase = "streaming" =>
        /\ doc.layout # "spaced" \/ phase' = phase =>
              \A f \in AllFields \ Scalars : IsPrefix(Shown(view, f), Shown(view', f))
        /\ \A f \in Scalars : ValueOf(view.spec, f) # Blank =>
                ValueOf(view'.spec, f) = view.spec[f]]_vars

\* The tokens of the document up to the end of item j of a list, or of a text.
Cut(d, f, j) ==
    LET i == CHOOSE n \in DOMAIN d.fields : d.fields[n] = f
    IN  [d EXCEPT !.fields = SubSeq(@, 1, i),
                  !.value[f] = IF f \in Scalars THEN @ ELSE SubSeq(@, 1, j)]
Upto(d, f, j) ==
    Len(Output(Cut(d, f, j))) - Len(Gap(d, {"indented"})) - (IF f \in Scalars THEN 1 ELSE 2)

ReceivedItems(f) ==
    IF f \notin ToSet(doc.fields) THEN <<>>
    ELSE SubSeq(doc.value[f], 1,
                Highest({j \in DOMAIN doc.value[f] : Upto(doc, f, j) <= at}))

\* A text is known to have ended once the key after it has arrived.
ReceivedText(f) ==
    IF \E i \in 1 .. Len(doc.fields) - 1 :
          doc.fields[i] = f /\ Str(doc.fields[i + 1]) \in ToSet(SubSeq(doc.out, 1, at))
    THEN doc.value[f] ELSE Blank

Written == {doc.out[i].v : i \in DOMAIN doc.out}
Whole == at = Len(doc.out) /\ Written \cap (Opening \cup Closing) = {}

PassRead == phase = "streaming" /\ phase' \in {"asked", "compiled"}

\* What a pass adds to the specification is what the model wrote: the whole of a
\* document that was finished, and of one stopped by the limit, in the compact layout,
\* every item of a list that had closed and every text that another key follows.  In the
\* indented layout such a document may lose them (ClosedSurvives), but a list has
\* nothing that is not its own; with a space after the commas it may have what follows
\* it, but nothing that was not written.  Only the task and the context have another
\* value, the request or the raw output, and the context only if nothing could be read
\* (prompt.ts:404-489).
ResultHonest ==
    [][PassRead =>
        \A f \in Fields(pass) :
            IF f \notin Scalars
            THEN /\ ToSet(ValueOf(spec', f)) \subseteq Written
                 /\ Whole \/ doc.layout # "spaced" =>
                        IsPrefix(NonBlank(ValueOf(spec', f)), NonBlank(ReceivedItems(f)))
                 /\ Whole \/ doc.layout = "compact" =>
                        NonBlank(ValueOf(spec', f)) = NonBlank(ReceivedItems(f))
            ELSE /\ Whole /\ f \in ToSet(doc.fields) =>
                        doc.value[f] \in {Blank, ValueOf(spec', f)}
                 /\ doc.layout = "compact" /\ ReceivedText(f) # Blank =>
                        ValueOf(spec', f) = doc.value[f]
                 /\ \/ ValueOf(spec', f) \in {Blank} \cup Written
                    \/ f = "task" /\ spec'[f] = Request
                    \/ /\ f = "context" /\ spec'[f] = Raw
                       /\ DOMAIN spec' \subseteq DOMAIN spec \cup {"task", "context"}]_vars

\* What a comment says of a pass that the limit stopped, and the code keeps only in the
\* compact layout (prompt.ts:449-457, "Salvage"): every field that had completed is in
\* the specification, and of the list that was being written the items that had closed.
ClosedSurvives ==
    [][PassRead =>
        \A f \in Fields(pass) :
            IF f \in Scalars
            THEN ReceivedText(f) # Blank => ValueOf(spec', f) = doc.value[f]
            ELSE IsPrefix(NonBlank(ReceivedItems(f)), NonBlank(ValueOf(spec', f)))]_vars
=============================================================================
