----------------------------- MODULE PortScript -----------------------------
(***************************************************************************)
(* How the settings of a port become the code of a node: the editor reads  *)
(* a port back and fills in its form, PortService.modify checks the        *)
(* settings, generates a script and stores it, and a compilation puts the  *)
(* stored scripts of a node's ports into the text of its class.            *)
(*                                                                         *)
(* A text is a sequence of pieces.  A piece stands for a stretch of code   *)
(* that the program moves as a whole; esc counts how often its special     *)
(* characters have been escaped.  The templates of FlowNodeUtil are texts  *)
(* with slots, and replace('%s', t) fills the first slot there is,         *)
(* whichever text brought it in.  What is filled in may hold replacement   *)
(* patterns: a dollar that is followed by one of four characters.  These   *)
(* and the dollar are pieces of their own where they could meet; a dollar  *)
(* at the end of a script is not one, as a line break follows it.          *)
(***************************************************************************)
EXTENDS FlowData, SequencesExt

CONSTANTS
    Stretches,      \* the stretches of code there are
    Editors,        \* forms that are open in the editor
    Task,           \* the task type of each node
    PortsOf,        \* the ports of each node a compilation takes, in order
    PortType,       \* the type of each port
    Target,         \* the node at the other end of a port's link
    Scripts,        \* what a user writes by hand
    Additions,      \* other definitions a user writes by hand
    Routes,         \* route properties a user chooses
    Https,          \* http properties a user chooses
    PlainTexts,     \* pieces without a character that modify escapes
    BigInts,        \* right values that BigInt accepts
    Floats,         \* right values that parseFloat accepts
    Dates,          \* right values that dayjs accepts
    MaxSaves,       \* bound: saves that succeed
    None            \* no such property, no form

Nodes == DOMAIN Task
Ports == DOMAIN PortType

Piece(name) == [text |-> name, esc |-> 0]
Slot == Piece("%s")
Dollar == Piece("$")

\* Texts whose pieces have been escaped n times at most.
Texts(n) == Seq([text : Stretches, esc : 0 .. n])

DataTypes == {"STRING", "INTEGER", "DOUBLE", "DATETIME"}

\* How a generated comparison of values of the type begins.
Opening == [type \in DataTypes |->
    CASE type = "DOUBLE" -> "const leftValue = parseFloat("
      [] type = "INTEGER" -> "const leftValue = parseInt("
      [] type = "STRING" -> "const leftValue = String("
      [] type = "DATETIME" -> "const leftValue = new Date("]

SourceExpression == [REQ_HEADER |-> "this.getRequestHeader()",
                     REQ_PARAM |-> "this.getRequestParam()"]
Operator == [EQ |-> "==", NE |-> "!=", GT |-> ">", GE |-> ">=",
             LT |-> "<", LE |-> "<="]

Meta == [source : DOMAIN SourceExpression, key : Texts(0), type : DataTypes,
         op : DOMAIN Operator, value : Texts(0)]
Param == [name : Texts(0), default : Texts(0)]
Http == [url : BOOLEAN, timeout : BOOLEAN, method : {"", "GET", "POST", "PUT"},
         params : Seq(Param)]

\* What the program itself puts into a class.
ASSUME TemplateAssumption ==
    /\ {"%s", "$", "&", "'", "backquote", "{", "}", "]",
        "const rightValue =", "return leftValue", "rightValue",
        "requestParams[", "] ||", ")", "url = url.replace(", ",",
        "changeUrlWhenPathVariable", "return url", "GET", "POST", "url",
        "timeout", "private", "(): boolean {", "} method", "if this.",
        "setActivatedNodeId(", "return", "super.call()",
        "outputRequestBody = inputRequestBody", "class FlowNode_",
        "call() {", "} call", "} class"} \subseteq Stretches
    /\ Range(Opening) \cup Range(SourceExpression) \cup Range(Operator)
        \subseteq Stretches

\* A start node is left out: its port registers the path of the project.
ASSUME GraphAssumption ==
    /\ Nodes \cup Ports \subseteq Stretches
    /\ \A n \in Nodes : /\ Task[n] \in TaskTypes \ {"CONTEXT"}
                        /\ PortsOf[n] \in Seq(Ports)
    /\ \A p \in Ports : \E n \in Nodes : p \in Range(PortsOf[n])
    /\ \A p \in Ports : PortType[p] \in PortTypes
    /\ Target \in [DOMAIN Target -> Nodes]
    /\ DOMAIN Target \subseteq Ports

\* What a user writes has not been escaped.
ASSUME InputAssumption ==
    /\ Scripts \cup Additions \subseteq Texts(0)
    /\ Routes \subseteq Seq(Meta)
    /\ Https \subseteq Http
    /\ MaxSaves \in Nat
    /\ None \notin Routes \cup Https

\* A piece that comes from outside is named apart from the generated beginnings.
ASSUME NameAssumption ==
    \A type \in DataTypes :
        LET IsApart(t) == \A i \in DOMAIN t : t[i].text # Opening[type]
        IN  /\ Opening[type] \notin Nodes \cup Ports
            /\ \A t \in Scripts \cup Additions : IsApart(t)
            /\ \A r \in Routes : \A i \in DOMAIN r :
                    IsApart(r[i].key) /\ IsApart(r[i].value)
            /\ \A h \in Https : \A i \in DOMAIN h.params :
                    IsApart(h.params[i].name) /\ IsApart(h.params[i].default)

VARIABLES
    stored,     \* properties of each port in t_vs_port
    form,       \* what each editor has before it, or None
    source,     \* the script of each node, from the last makeNodeTaskScript
    saves       \* saves so far

vars == <<stored, form, source, saves>>

Blank == [script |-> <<>>, add |-> <<>>, route |-> None, http |-> None]

\* node.add stores the properties of its ports as JSON text, of which no field
\* can be read.
Init ==
    /\ stored = [p \in Ports |-> Blank]
    /\ form = [e \in Editors |-> None]
    /\ source = <<>>
    /\ saves = 0

-----------------------------------------------------------------------------
(* Texts. *)

Special == {Dollar, Piece("&"), Piece("'"), Piece("backquote")}

DollarsBefore(arg, i) ==
    Cardinality({j \in 1 .. i - 1 : \A k \in j .. i - 1 : arg[k] = Dollar})

\* Where arg has replacement patterns; two dollars are one, read from the left.
Patterns(arg) ==
    {i \in 1 .. Len(arg) - 1 : /\ arg[i] = Dollar
                              /\ arg[i + 1] \in Special
                              /\ DollarsBefore(arg, i) % 2 = 0}

\* What the pattern with the special character x becomes when the slot at k of
\* t is filled: a dollar, the slot, or what t has after or before the slot.
Replacement(t, k, x) ==
    CASE x = Dollar -> <<Dollar>>
      [] x = Piece("&") -> <<Slot>>
      [] x = Piece("'") -> SubSeq(t, k + 1, Len(t))
      [] x = Piece("backquote") -> SubSeq(t, 1, k - 1)

Expand(t, k, arg) ==
    IF Patterns(arg) = {} THEN arg
    ELSE FlattenSeq([i \in 1 .. Len(arg) |->
            IF i - 1 \in Patterns(arg) THEN <<>>
            ELSE IF i \in Patterns(arg) THEN Replacement(t, k, arg[i + 1])
            ELSE <<arg[i]>>])

\* replace('%s', arg): the first slot, if there is one.
Fill(t, arg) ==
    LET k == SelectInSeq(t, LAMBDA x : x = Slot)
    IN  IF k = 0 THEN t
        ELSE SubSeq(t, 1, k - 1) \o Expand(t, k, arg) \o SubSeq(t, k + 1, Len(t))

FillAll(t, args) ==
    LET filled[i \in 0 .. Len(args)] ==
            IF i = 0 THEN t ELSE Fill(filled[i - 1], args[i])
    IN  filled[Len(args)]

\* Line breaks, quotes, backslashes, backquotes and dollar braces are escaped;
\* every stretch of a template has a line break.  A backquote that has been
\* escaped is no longer special, the other three characters still are.
Unescaped ==
    {Slot.text, "$", "&", "'", "]"} \cup PlainTexts
        \cup {SourceExpression[s] : s \in DOMAIN SourceExpression}
        \cup {Operator[o] : o \in DOMAIN Operator}

\* Variant: the backslash comes last and escapes those of the other escapes.
EscapeTwice(t) ==
    [i \in DOMAIN t |-> IF t[i].text \in Unescaped THEN t[i]
                        ELSE [t[i] EXCEPT !.esc = @ + 2]]

Escape(t) ==
    [i \in DOMAIN t |-> IF t[i].text \in Unescaped THEN t[i]
                        ELSE [t[i] EXCEPT !.esc = @ + 1]]

\* The templates for a comparison: left value, right value, operator.
CompareTemplate(type) ==
    <<Piece(Opening[type]), Slot, Piece("const rightValue ="), Slot,
      Piece("return leftValue"), Slot, Piece("rightValue")>>

PathValTemplate ==
    <<Piece("requestParams["), Slot, Piece("'"), Piece("] ||"), Slot, Piece(")")>>
PathReplaceTemplate ==
    <<Piece("url = url.replace("), Slot, Piece(","), Slot, Piece(")")>>
PathMethodTemplate ==
    <<Piece("changeUrlWhenPathVariable"), Slot, Piece("return url")>>

\* Neither template of an HTTP node has a slot.
HttpTemplate(method) == <<Piece(method)>>

BoolTemplate == <<Piece("private"), Slot, Piece("(): boolean {"), Slot, Piece("} method")>>
CallTemplate ==
    <<Piece("if this."), Slot, Piece("setActivatedNodeId("), Slot, Piece("return")>>
SingleTemplate == <<Piece("super.call()"), Slot>>
DefaultBody == Piece("outputRequestBody = inputRequestBody")
NodeTemplate ==
    <<Piece("class FlowNode_"), Slot, Piece("call() {"), Slot, Slot,
      Piece("} call"), Slot, Piece("} class")>>

Slots(n) == [i \in 1 .. n |-> Slot]

-----------------------------------------------------------------------------
(* PortService: the code of a port.                                         *)

\* Variant: every value of a number type is read as a float.
AcceptsFloat(type, value) ==
    \/ type \in {"INTEGER", "DOUBLE"} /\ value \in Floats
    \/ type = "DATETIME" /\ value \in Dates
    \/ type = "STRING"

Accepts(type, value) ==
    \/ type = "INTEGER" /\ value \in BigInts
    \/ type = "DOUBLE" /\ value \in Floats
    \/ type = "DATETIME" /\ value \in Dates
    \/ type = "STRING"

RouteFits(route) ==
    /\ route # None
    /\ Len(route) = 1
    /\ Accepts(route[1].type, route[1].value)
    /\ route[1].key # <<>>
    /\ route[1].value # <<>>

Compare(type, left, operator, right) ==
    FillAll(CompareTemplate(type), <<left, right, operator>>)

LeftValue(meta) ==
    <<Piece(SourceExpression[meta.source])>> \o meta.key \o <<Piece("'"), Piece("]")>>

RouteCode(route) ==
    LET meta == route[1]
    IN  Compare(meta.type, LeftValue(meta), <<Piece(Operator[meta.op])>>, meta.value)

HttpFits(http) ==
    /\ http # None
    /\ http.url
    /\ http.timeout
    /\ http.method \in {"GET", "POST"}

HttpCode(http) ==
    FillAll(HttpTemplate(http.method), <<<<Piece("url")>>, <<Piece("timeout")>>>>)

PathVal(param) == FillAll(PathValTemplate, <<param.name, param.default>>)

PathStatement(param) ==
    FillAll(PathReplaceTemplate,
            <<<<Piece("{")>> \o param.name \o <<Piece("}")>>, PathVal(param)>>)

\* The method is defined even without path parameters.
PathMethod(http) ==
    Fill(PathMethodTemplate,
         FlattenSeq([i \in DOMAIN http.params |-> PathStatement(http.params[i])]))

Owner(p) == CHOOSE n \in Nodes : p \in Range(PortsOf[n])

\* Whether modify finds a script for port p in the form, or can make one.
Fits(p, prop) ==
    LET task == Task[Owner(p)]
    IN  \/ prop.script # <<>>
        \/ /\ PortType[p] = "OUTPUT_PORT"
           /\ \/ task \in {"COMPOSITE_NORMAL", "COMPOSITE_END"}
              \/ task \in {"ROUTE", "DATA_MAPPING"} /\ RouteFits(prop.route)
              \/ task = "HTTP" /\ HttpFits(prop.http)

\* A script in the form is kept as it is, whatever the other settings are.
CodeOf(p, prop) ==
    LET task == Task[Owner(p)]
    IN  IF prop.script # <<>> THEN prop.script
        ELSE CASE task \in {"COMPOSITE_NORMAL", "COMPOSITE_END"} -> <<>>
               [] task \in {"ROUTE", "DATA_MAPPING"} -> RouteCode(prop.route)
               [] task = "HTTP" -> HttpCode(prop.http)

AddOf(p, prop) ==
    IF prop.script = <<>> /\ Task[Owner(p)] = "HTTP" THEN PathMethod(prop.http)
    ELSE prop.add

-----------------------------------------------------------------------------
(* The editor and PortService.modify.                                       *)

\* NodeService.list shows what is stored.
Open(e, p) ==
    /\ form[e] = None
    /\ form' = [form EXCEPT ![e] = [port |-> p, prop |-> stored[p]]]
    /\ UNCHANGED <<stored, source, saves>>

\* The user writes a script or other definitions, or chooses the settings of
\* the node's kind.
FillIn(e) ==
    LET task == Task[Owner(form[e].port)]
    IN  /\ form[e] # None
        /\ \/ \E t \in Scripts \cup {<<>>} :
                form' = [form EXCEPT ![e].prop.script = t]
           \/ \E t \in Additions \cup {<<>>} :
                form' = [form EXCEPT ![e].prop.add = t]
           \/ /\ task \in {"ROUTE", "DATA_MAPPING"}
              /\ \E r \in Routes : form' = [form EXCEPT ![e].prop.route = r]
           \/ /\ task = "HTTP"
              /\ \E h \in Https : form' = [form EXCEPT ![e].prop.http = h]
        /\ UNCHANGED <<stored, source, saves>>

Modify(e) ==
    LET p == form[e].port
        prop == form[e].prop
    IN  /\ form[e] # None
        /\ saves < MaxSaves
        /\ Fits(p, prop)
        /\ stored' = [stored EXCEPT ![p] =
                        [prop EXCEPT !.script = Escape(CodeOf(p, prop)),
                                     !.add = AddOf(p, prop)]]
        /\ form' = [form EXCEPT ![e] = None]
        /\ saves' = saves + 1
        /\ UNCHANGED source

\* The request is refused; the editor keeps the form.
Refuse(e) ==
    /\ form[e] # None
    /\ ~Fits(form[e].port, form[e].prop)
    /\ UNCHANGED vars

\* The editor leaves the port without saving.
Close(e) ==
    /\ form[e] # None
    /\ form' = [form EXCEPT ![e] = None]
    /\ UNCHANGED <<stored, source, saves>>

-----------------------------------------------------------------------------
(* A compilation: the classes of the nodes.                                 *)

\* Variant: a node with one port has no conditions, so none are filled in.
NodeTextShort(n, body, conditions, add) ==
    IF conditions = <<>> THEN FillAll(NodeTemplate, <<<<Piece(n)>>, body, add>>)
    ELSE FillAll(NodeTemplate, <<<<Piece(n)>>, body, conditions, add>>)

\* The first slot is for the name, the second for the body of call(), the
\* third for what else it does and the fourth for other definitions.
NodeText(n, body, conditions, add) ==
    FillAll(NodeTemplate, <<<<Piece(n)>>, body, conditions, add>>)

SingleText(n, ports) ==
    LET p == PortsOf[n][1]
    IN  NodeText(n, Fill(SingleTemplate, ports[p].script), <<>>, ports[p].add)

MethodOf(p, ports) == FillAll(BoolTemplate, <<<<Piece(p)>>, ports[p].script>>)
BranchOf(p) == FillAll(CallTemplate, <<<<Piece(p)>>, <<Piece(Target[p])>>>>)

MultiText(n, ports) ==
    LET of == PortsOf[n]
        size == Len(of)
        branches == [i \in 1 .. size |-> BranchOf(of[i])]
        methods == [i \in 1 .. size |-> MethodOf(of[i], ports)]
        additions == [i \in 1 .. size |-> ports[of[i]].add]
    IN  NodeText(n,
                 FillAll(<<DefaultBody>> \o Slots(size), branches),
                 FillAll(Slots(size), methods),
                 FillAll(Slots(size), additions))

ScriptOf(n, ports) ==
    IF Task[n] = "ROUTE" THEN MultiText(n, ports) ELSE SingleText(n, ports)

\* Nothing is made of a node with too few or too many ports, nor of a route one
\* of whose ports has no condition or no link.
IsMade(n, ports) ==
    /\ PortsOf[n] # <<>>
    /\ Task[n] # "ROUTE" => Len(PortsOf[n]) = 1
    /\ Task[n] = "ROUTE" =>
        \A p \in Range(PortsOf[n]) : ports[p].script # <<>> /\ p \in DOMAIN Target

\* The transaction that reads the ports; what is made of them depends on nothing
\* else, so it is the same step.
Compile ==
    /\ \A n \in Nodes : IsMade(n, stored)
    /\ source' = [n \in Nodes |-> ScriptOf(n, stored)]
    /\ UNCHANGED <<stored, form, saves>>

\* One node is enough for the compilation to fail.
CompileFails ==
    /\ \E n \in Nodes : ~IsMade(n, stored)
    /\ UNCHANGED vars

Next ==
    \/ \E e \in Editors : \/ \E p \in Ports : Open(e, p)
                           \/ FillIn(e)
                           \/ Modify(e)
                           \/ Refuse(e)
                           \/ Close(e)
    \/ Compile
    \/ CompileFails

Spec == Init /\ [][Next]_vars

-----------------------------------------------------------------------------
(* Properties. *)

Props(n) == [script : Texts(n), add : Texts(n),
             route : Routes \cup {None}, http : Https \cup {None}]

\* Every port and every form has a script and a definition that are texts,
\* escaped as often as anything was saved at most, and settings of the right
\* kind, or none.
TypeOK ==
    /\ saves \in 0 .. MaxSaves
    /\ stored \in [Ports -> Props(saves)]
    /\ form \in [Editors -> [port : Ports, prop : Props(saves)] \cup {None}]
    /\ source \in [DOMAIN source -> Texts(saves)]
    /\ DOMAIN source \in {{}, Nodes}

\* The right values that can be read as a value of the type.
ValuesOf(type) ==
    CASE type = "INTEGER" -> BigInts
      [] type = "DOUBLE" -> Floats
      [] type = "DATETIME" -> Dates
      [] OTHER -> Texts(0)

\* Neither a slot nor a dollar, so nothing happens to it when it is filled in.
Inert(t) == {Slot, Dollar} \cap Range(t) = {}

\* The types all of whose conditions have an inert key and an inert value.
InertTypes ==
    {type \in DataTypes :
        \A r \in Routes : Len(r) = 1 /\ r[1].type = type =>
            Inert(r[1].key) /\ Inert(r[1].value)}

\* The comparison of a condition, part by part.
Comparison(meta) ==
    <<Piece(Opening[meta.type]), Piece(SourceExpression[meta.source])>> \o meta.key
    \o <<Piece("'"), Piece("]"), Piece("const rightValue =")>> \o meta.value
    \o <<Piece("return leftValue"), Piece(Operator[meta.op]), Piece("rightValue")>>

\* Whether t has the stretches of code at i, escaped or not.
HasAt(t, i, code) ==
    /\ i + Len(code) - 1 <= Len(t)
    /\ \A j \in 1 .. Len(code) : t[i + j - 1].text = code[j].text

\* Code compares with a value of its type: wherever a generated comparison has
\* come to stand in a compiled node - by any number of saves, after reading back
\* and changing something else, escaped or not, and wherever slots and
\* replacement patterns of other texts have taken it - it is that of one
\* condition some user chose, whole, and with a value of the type.  A key or a
\* value that is not inert would take in a part of the comparison instead, so
\* this is said of the types without one.
RouteCodeIsChecked ==
    \A n \in DOMAIN source : \A i \in DOMAIN source[n] : \A type \in InertTypes :
        source[n][i].text = Opening[type] =>
            \E r \in Routes : /\ Len(r) = 1
                              /\ r[1].type = type
                              /\ r[1].value \in ValuesOf(type)
                              /\ HasAt(source[n], i, Comparison(r[1]))

\* The class of a route, part by part: a branch for each port that leads where
\* its link leads, the condition of each port under the name the branch calls,
\* and the definitions of the ports, each in the order of the ports.
LaidOutRoute(n, ports) ==
    LET of == PortsOf[n]
    IN  <<Piece("class FlowNode_"), Piece(n), Piece("call() {"), DefaultBody>>
        \o FlattenSeq([i \in 1 .. Len(of) |->
                <<Piece("if this."), Piece(of[i]), Piece("setActivatedNodeId("),
                  Piece(Target[of[i]]), Piece("return")>>])
        \o FlattenSeq([i \in 1 .. Len(of) |->
                <<Piece("private"), Piece(of[i]), Piece("(): boolean {")>>
                \o ports[of[i]].script \o <<Piece("} method")>>])
        \o <<Piece("} call")>>
        \o FlattenSeq([i \in 1 .. Len(of) |-> ports[of[i]].add])
        \o <<Piece("} class")>>

\* The class of any other node: its one script runs after super.call().
LaidOutTask(n, ports) ==
    LET prop == ports[PortsOf[n][1]]
    IN  <<Piece("class FlowNode_"), Piece(n), Piece("call() {"),
          Piece("super.call()")>>
        \o prop.script \o <<Piece("} call")>> \o prop.add \o <<Piece("} class")>>

\* The texts are put together by filling first slots, over and over: a slot in a
\* script or in an id would take what comes next, and a dollar could bring in a
\* slot or a part of a template.  If there is neither, the class of a node holds
\* every port's code in its own place, and no slot is left.
SourceIsLaidOut ==
    [][\A n \in DOMAIN source' :
        /\ {Slot.text, Dollar.text} \cap (Nodes \cup Ports) = {}
        /\ \A p \in Range(PortsOf[n]) :
                Inert(stored[p].script) /\ Inert(stored[p].add)
        => source'[n] = IF Task[n] = "ROUTE" THEN LaidOutRoute(n, stored)
                        ELSE LaidOutTask(n, stored)]_source

\* The comments of FlowNodeUtil call the condition of a port a method that
\* call() invokes by this: it belongs to the class, after the end of call().
ConditionsAreMethods ==
    \A n \in DOMAIN source : \A i \in DOMAIN source[n] :
        source[n][i] = Piece("} method") =>
            \E j \in 1 .. i : source[n][j] = Piece("} call")

=============================================================================
