----------------------------- MODULE Documents -----------------------------
(*****************************************************************************)
(* coffee::xml: a Document, the Nodes and Attributes that wrap the tree of   *)
(* libxml2 behind it, and the Compiler.  Node 1 is the root; the items in    *)
(* a node are its texts, and the numbers of its children.  A parsed tree     *)
(* is freed with the handler of the document, and the wrappers are not.      *)
(* Texts are in UTF-8, as libxml2 asks, in the tree and when they are set.   *)
(* An m_value is converted from the text that is written here for it; what   *)
(* the conversions make of it is looked at when it is compiled.              *)
(*****************************************************************************)
EXTENDS Naturals, FiniteSets, Sequences, SequencesExt

CONSTANTS
    Sources,            \* the trees that may be parsed
    AttributeNames, Texts,
    Ascii,              \* the texts that are ASCII
    Latin,              \* what UTF8Toisolat1 makes of each, which is as far as Latin-1 has it
    Declared,           \* the encodings that documents and compilers are given,
    NewTexts,           \* the texts that are created and set,
    MaxParses, MaxEdits, MaxNodes   \* bounds

Prop == [name : AttributeNames, value : Texts]
Item == [node : Nat] \cup [text : Texts]
Trees == Seq([props : Seq(Prop), items : Seq(Item)])

(* The encodings of a document and of a Compiler: no one, Latin-1, UTF-8,    *)
(* and those that convert nothing that is not ASCII, which are not found or  *)
(* are that of ASCII.  Those of iconv are left out.                          *)
Encodings == {"none", "ISO-8859-1", "UTF-8", "other"}

(* What is parsed has no node with two attributes of a name. *)
ASSUME DocumentAssumption ==
    /\ Sources \subseteq Trees
    /\ \A source \in Sources : \A n \in DOMAIN source : \A i, j \in DOMAIN source[n].props :
          source[n].props[i].name = source[n].props[j].name => i = j
    /\ Ascii \subseteq Texts /\ NewTexts \subseteq Texts /\ Declared \subseteq Encodings
    /\ Latin \in [Texts -> Texts] /\ \A text \in Ascii : Latin[text] = text

VARIABLES
    handler,            \* the _xmlDoc, which is the number of the parse that made it, or 0
    encoding,           \* and its encoding
    tree,               \* its nodes: [props, items], a prop being [name, value]
    root,               \* the parse that the nodes of m_root are of, or 0
    nodes,              \* [children, attributes, text]: the numbers of its items and props, a copy
    cached,             \* the <<node, prop, value>> of the attributes with an m_value
    compiler,           \* its m_encoding, and the parse that has that string, or 0: [of, encoding]
    parses, edits,
    gone                \* something was read that had been freed, or is NULL

documentVars == <<handler, encoding, tree, root, nodes, cached, compiler, parses, edits, gone>>

DocumentInit ==
    /\ handler = 0 /\ encoding = "none" /\ tree = <<>>
    /\ root = 0 /\ nodes = <<>> /\ cached = {} /\ compiler = [of |-> 0, encoding |-> "none"]
    /\ parses = 0 /\ edits = 0 /\ gone = FALSE

-----------------------------------------------------------------------------
TextItem(text) == [text |-> text]
NodeItem(n) == [node |-> n]
ChildrenOf(items) == {i \in DOMAIN items : "node" \in DOMAIN items[i]}
TextsOf(items) == {i \in DOMAIN items : "text" \in DOMAIN items[i]}

(* extractNodes and extractAttributes: the last text is the one.             *)
LastText(items) == IF TextsOf(items) = {} THEN <<>> ELSE <<items[Max(TextsOf(items))]>>
Wrapped(node) == [children |-> ChildrenOf(node.items), attributes |-> DOMAIN node.props,
                  text |-> LastText(node.items)]

(* Document::parse: the old tree goes first; the file may be missing or      *)
(* bad, and a DTD may not accept what was parsed.                            *)
Parse(source, declared, isParsed, isAccepted) ==
    /\ parses < MaxParses /\ parses' = parses + 1
    /\ IF isParsed THEN handler' = parses' /\ encoding' = declared /\ tree' = source
       ELSE handler' = 0 /\ encoding' = "none" /\ tree' = <<>>
    /\ IF isParsed /\ isAccepted
       THEN root' = parses' /\ nodes' = [n \in DOMAIN source |-> Wrapped(source[n])] /\ cached' = {}
       ELSE UNCHANGED <<root, nodes, cached>>
    /\ UNCHANGED <<compiler, edits, gone>>

(* The user has the root, and looks at it whatever parse did.                *)
IsRead == root # 0
IsAlive == root = handler
Reads(n) ==
    /\ IsRead
    /\ IF IsAlive THEN n \in DOMAIN nodes /\ UNCHANGED gone ELSE gone' = TRUE
Edits(n) == Reads(n) /\ edits < MaxEdits /\ edits' = edits + 1

CreateChild(n) ==
    /\ Edits(n) /\ Len(tree) < MaxNodes
    /\ IF IsAlive
       THEN LET items == Append(tree[n].items, NodeItem(Len(tree) + 1)) IN
            /\ tree' = Append([tree EXCEPT ![n].items = items], [props |-> <<>>, items |-> <<>>])
            /\ nodes' = Append([nodes EXCEPT ![n].children = @ \cup {Len(items)}],
                               [children |-> {}, attributes |-> {}, text |-> <<>>])
       ELSE UNCHANGED <<tree, nodes>>
    /\ UNCHANGED <<handler, encoding, root, cached, compiler, parses>>

(* A name that is there gets another property in the tree, then throws.      *)
CreateAttribute(n, name, value) ==
    /\ Edits(n)
    /\ IF IsAlive
       THEN LET props == Append(tree[n].props, [name |-> name, value |-> value]) IN
            /\ tree' = [tree EXCEPT ![n].props = props]
            /\ nodes' = IF \E i \in nodes[n].attributes : tree[n].props[i].name = name THEN nodes
                        ELSE [nodes EXCEPT ![n].attributes = @ \cup {Len(props)}]
       ELSE UNCHANGED <<tree, nodes>>
    /\ UNCHANGED <<handler, encoding, root, cached, compiler, parses>>

CreateText(n, text) ==
    /\ Edits(n)
    /\ IF IsAlive
       THEN /\ tree' = [tree EXCEPT ![n].items = Append(@, TextItem(text))]
            /\ nodes' = [nodes EXCEPT ![n].text = <<TextItem(text)>>]
       ELSE UNCHANGED <<tree, nodes>>
    /\ UNCHANGED <<handler, encoding, root, cached, compiler, parses>>

(* Attribute::getValue keeps what it reads, setValue forgets it.             *)
CachedOf(n, i) == {c \in cached : c[1] = n /\ c[2] = i}
GetValue(n, i) ==
    /\ Reads(n)
    /\ IF IsAlive
       THEN /\ i \in nodes[n].attributes /\ CachedOf(n, i) = {}
            /\ cached' = cached \cup {<<n, i, tree[n].props[i].value>>}
       ELSE UNCHANGED cached
    /\ UNCHANGED <<handler, encoding, tree, root, nodes, compiler, parses, edits>>

NotForgotten(n, i) == cached                                   \* mutant
Forgotten(n, i) == cached \ CachedOf(n, i)
SetAttribute(n, i, value) ==
    /\ Edits(n)
    /\ IF IsAlive
       THEN /\ i \in nodes[n].attributes
            /\ LET first == Min({j \in DOMAIN tree[n].props : tree[n].props[j].name = tree[n].props[i].name})
               IN tree' = [tree EXCEPT ![n].props[first].value = value]
            /\ cached' = Forgotten(n, i)
       ELSE UNCHANGED <<tree, cached>>
    /\ UNCHANGED <<handler, encoding, root, nodes, compiler, parses>>

-----------------------------------------------------------------------------
(* Content::setValue: the m_value of a text is in Latin-1.                   *)
ContentOf(text) == Latin[text]

(* Compiler::encode of an m_value, which is what the writer, which takes     *)
(* UTF-8, is given: Latin-1 as it is without an encoding and for UTF-8,      *)
(* whose conversion copies; UTF-8 for Latin-1.                               *)
WrittenAsItIs(text, e) == [text |-> ContentOf(text), utf8 |-> ContentOf(text) \in Ascii]   \* mutant
Written(text, e) == [text |-> ContentOf(text), utf8 |-> ContentOf(text) \in Ascii \/ e = "ISO-8859-1"]
WrittenItem(item, e) == IF "text" \in DOMAIN item THEN Written(item.text, e) ELSE item

(* Node::compile: the text of a node that has one, or its attributes, each   *)
(* with what it has kept or reads and keeps now, and its children.           *)
ParentOf(n) == CHOOSE p \in DOMAIN nodes : \E i \in nodes[p].children : tree[p].items[i] = NodeItem(n)
IsCompiled[n \in Nat] == n = 1 \/ (IsCompiled[ParentOf(n)] /\ nodes[ParentOf(n)].text = <<>>)
CompiledNodes == {n \in DOMAIN nodes : IsCompiled[n]}
ValueOf(n, i) == IF CachedOf(n, i) = {} THEN tree[n].props[i].value
                 ELSE (CHOOSE c \in CachedOf(n, i) : TRUE)[3]
CompiledNode(n, e) ==
    IF nodes[n].text = <<>>
    THEN [attributes |-> {<<tree[n].props[i].name, Written(ValueOf(n, i), e)>> : i \in nodes[n].attributes},
          items |-> [i \in nodes[n].children |-> tree[n].items[i]]]
    ELSE [attributes |-> {}, items |-> [i \in DOMAIN nodes[n].text |-> WrittenItem(nodes[n].text[i], e)]]
KeptByCompile ==
    UNION {{<<n, i, ValueOf(n, i)>> : i \in nodes[n].attributes} : n \in {m \in CompiledNodes : nodes[m].text = <<>>}}

(* What encode looks m_encoding up for.                                      *)
IsEncoded ==
    \/ \E c \in KeptByCompile : ContentOf(c[3]) \notin Ascii
    \/ \E n \in CompiledNodes : \E item \in Range(nodes[n].text) : ContentOf(item.text) \notin Ascii

(* A node that encode throws for ends it: the attributes of those before     *)
(* are kept, which is any of them here.                                      *)
Compile(e) ==
    /\ cached' \in IF ~IsAlive THEN {cached}
                   ELSE IF IsEncoded /\ e = "other" THEN {cached \cup kept : kept \in SUBSET KeptByCompile}
                   ELSE {cached \cup KeptByCompile}
    /\ UNCHANGED <<handler, encoding, tree, root, nodes, parses, edits>>

(* Compiler::apply of the document, which needs a handler, and of its root,  *)
(* which encodes as the last document did, or as was set.                    *)
CompileDocument ==
    /\ IsRead
    /\ gone' = ~IsAlive
    /\ compiler' = [of |-> IF encoding = "none" THEN 0 ELSE handler, encoding |-> encoding]
    /\ Compile(encoding)

CompileNode ==
    /\ IsRead
    /\ gone' = (~IsAlive \/ (IsEncoded /\ compiler.of \notin {0, handler}))
    /\ Compile(compiler.encoding)
    /\ UNCHANGED compiler

SetEncoding(e) ==
    /\ compiler' = [of |-> 0, encoding |-> e]
    /\ UNCHANGED <<handler, encoding, tree, root, nodes, cached, parses, edits, gone>>

DocumentNext ==
    /\ ~gone                      \* the model stops at undefined behaviour
    /\ \/ \E source \in Sources, e \in Declared, isParsed, isAccepted \in BOOLEAN :
             Parse(source, e, isParsed, isAccepted)
       \/ \E n \in 1 .. MaxNodes :
             \/ CreateChild(n)
             \/ \E name \in AttributeNames, value \in NewTexts : CreateAttribute(n, name, value)
             \/ \E text \in NewTexts : CreateText(n, text)
             \/ \E i \in 1 .. MaxEdits + 2 :
                   GetValue(n, i) \/ \E value \in NewTexts : SetAttribute(n, i, value)
       \/ CompileDocument \/ CompileNode \/ \E e \in Declared : SetEncoding(e)

DocumentSpec == DocumentInit /\ [][DocumentNext]_documentVars
-----------------------------------------------------------------------------
(* What is compiled is what is in the tree, whatever was created, set, read  *)
(* and compiled before: for each node that has one text and nothing else,    *)
(* or no text, its attributes by their names, and its children in order.     *)
(* Of the texts, those that are ASCII with any encoding, and those that      *)
(* Latin-1 has with its own; with another, or none, they are not UTF-8.      *)
InUtf8(text) == [text |-> text, utf8 |-> TRUE]
FirstsOf(props) == {i \in DOMAIN props : \A j \in 1 .. i - 1 : props[j].name # props[i].name}
AsInTree(n) ==
    LET props == tree[n].props
        items == tree[n].items
    IN [attributes |-> {<<props[i].name, InUtf8(props[i].value)>> : i \in FirstsOf(props)},
        items |-> [i \in DOMAIN items |-> IF i \in TextsOf(items) THEN InUtf8(items[i].text) ELSE items[i]]]
TreeTexts(n) ==
    LET props == tree[n].props
        items == tree[n].items
    IN {props[i].value : i \in FirstsOf(props)} \cup {items[i].text : i \in TextsOf(items)}
IsPlain(n) == TextsOf(tree[n].items) = {} \/ (Len(tree[n].items) = 1 /\ tree[n].props = <<>>)
IsKeptBy(text, e) == text \in Ascii \/ (ContentOf(text) = text /\ e = "ISO-8859-1")
TreeIsCompiled ==
    (IsRead /\ IsAlive) =>
        \A n \in CompiledNodes, e \in Encodings :
            (IsPlain(n) /\ \A text \in TreeTexts(n) : IsKeptBy(text, e)) => CompiledNode(n, e) = AsInTree(n)

(* The same of every node, and of every text in the encoding of its          *)
(* document, if it has what encode can do something with.                    *)
EverythingIsCompiled ==
    (IsRead /\ IsAlive) => \A n \in CompiledNodes : CompiledNode(n, "ISO-8859-1").items = AsInTree(n).items
EveryTextIsCompiled ==
    (IsRead /\ IsAlive /\ encoding # "other") => \A n \in CompiledNodes : IsPlain(n) => CompiledNode(n, encoding) = AsInTree(n)

(* Nothing is read that has been freed. *)
NodesAreAlive == ~gone
=============================================================================
