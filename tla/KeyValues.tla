----------------------------- MODULE KeyValues -----------------------------
(***************************************************************************)
(* KeyValue trees (Headers/Steam/KeyValue.hpp): a tree is built, written   *)
(* and read again. "own" is the binary form that serialize() writes,       *)
(* "steam" the binary and "text" the text form that Steam sends. What is   *)
(* read may be cut off anywhere.                                           *)
(*                                                                         *)
(* A tree maps paths to items; a path is the names from the root down, and *)
(* <<>> is the "fake" node that deserialize() puts around the root. One    *)
(* token is an item's type, name and value, or the end of a node.          *)
(***************************************************************************)
EXTENDS Naturals, Sequences, SequencesExt, FiniteSets

CONSTANTS Names,      \* the names of the items below the root
          Leaves,     \* items that are values, as records of type and value
          MaxItems,   \* bound: items in the tree, the root included
          MaxDepth    \* bound: the length of a path

KeyValueAssumption ==
    /\ \A leaf \in Leaves : /\ leaf = [type |-> leaf.type, value |-> leaf.value]
                            /\ leaf.type \in {"String", "Int32", "UInt64", "Int64"}
    /\ MaxItems \in Nat /\ MaxDepth \in Nat \ {0}

VARIABLES
    kvStage,   \* "build", "write", "read", "done", "refused" (no tree) or "assert"
    tree,      \* the tree that is built and written
    form,      \* "own", "steam" or "text"
    kvLeft,      \* the items still to be written
    kvAt,        \* the node being written or read
    kvTokens,    \* what has been written and not yet read
    cut,       \* the data ended before the tree did
    kvGot        \* the tree that was read, below <<>>

kvVars == <<kvStage, tree, form, kvLeft, kvAt, kvTokens, cut, kvGot>>

NodeItem == [type |-> "None", value |-> "none"]
Root == <<"root">>

Descendants(t, p) == {q \in DOMAIN t : IsStrictPrefix(p, q)}
Children(t, p) == {q \in Descendants(t, p) : Len(q) = Len(p) + 1}

\* node.children[name].reset(item): what was there before goes, with all its children.
Put(t, p, item) ==
    [q \in (DOMAIN t \ Descendants(t, p)) \cup {p} |-> IF q = p THEN item ELSE t[q]]

\* Node::createNode(): an existing node is kept.
CreateNode(t, p) == IF p \in DOMAIN t THEN t ELSE Put(t, p, NodeItem)

KvInit ==
    /\ kvStage = "build" /\ tree = [q \in {Root} |-> NodeItem] /\ form \in {"own", "steam", "text"}
    /\ kvLeft = {} /\ kvAt = <<>> /\ kvTokens = <<>> /\ cut = FALSE /\ kvGot = << >>

----------------------------------------------------------------------------
\* The owner of the tree: setValue() and createNode() in a node. serialize() is used for
\* strings only, and the text form has no other values.
SetItem(p, name) ==
    /\ kvStage = "build" /\ tree[p].type = "None" /\ Len(p) < MaxDepth
    /\ \/ \E leaf \in Leaves : /\ form \in {"own", "text"} => leaf.type = "String"
                               /\ tree' = Put(tree, Append(p, name), leaf)
       \/ /\ Append(p, name) \in DOMAIN tree => tree[Append(p, name)].type = "None"
          /\ tree' = CreateNode(tree, Append(p, name))
    /\ Cardinality(DOMAIN tree') <= MaxItems
    /\ UNCHANGED <<kvStage, form, kvLeft, kvAt, kvTokens, cut, kvGot>>

Serialize ==
    /\ kvStage = "build" /\ kvStage' = "write"
    /\ kvLeft' = DOMAIN tree
    /\ UNCHANGED <<tree, form, kvAt, kvTokens, cut, kvGot>>

\* serializeToBinary() of the next child, in the order of the unordered_map; Steam's
\* own writer does the same.
WriteItem(p) ==
    /\ kvStage = "write" /\ p \in kvLeft \cap Children(tree, kvAt)
    /\ kvLeft' = kvLeft \ {p}
    /\ kvAt' = IF tree[p].type = "None" THEN p ELSE kvAt
    /\ kvTokens' = Append(kvTokens,
                        [type |-> tree[p].type, name |-> Last(p), value |-> tree[p].value])
    /\ UNCHANGED <<kvStage, tree, form, cut, kvGot>>

\* The end of a node. serialize() writes two markers for every node, Steam two at the
\* end of the root. A text needs no marker after its root.
EndMarkers(p) ==
    LET one == [type |-> "End", name |-> "", value |-> ""]
    IN IF form = "own" \/ (form = "steam" /\ p = Root) THEN <<one, one>> ELSE <<one>>

WriteEnd ==
    /\ kvStage = "write" /\ kvAt # <<>> /\ kvLeft \cap Children(tree, kvAt) = {}
    /\ kvTokens' = kvTokens \o EndMarkers(kvAt)
    /\ kvAt' = Front(kvAt)
    /\ kvStage' = IF kvAt = Root THEN "read" ELSE "write"
    /\ UNCHANGED <<tree, form, kvLeft, cut, kvGot>>

----------------------------------------------------------------------------
\* The end of deserialize(): the fake node must have one child, and it must be a node.
Outcome == IF \E p \in DOMAIN kvGot : Children(kvGot, <<>>) = {p} /\ kvGot[p].type = "None"
           THEN "done" ELSE "assert"

\* getByte(), getString(): what they need is still there.
MoreBytes == kvStage = "read" /\ form # "text" /\ kvTokens # <<>>

\* getString() or getNumber() for the item's type.
Value(token) == [type |-> token.type, value |-> token.value]

\* One round of the binary deserialize(): a value, or a node whose children come next.
ReadItem ==
    /\ MoreBytes /\ Head(kvTokens).type # "End"
    /\ LET token == Head(kvTokens)
           p == Append(kvAt, token.name)
       IN IF token.type = "None" THEN kvGot' = Put(kvGot, p, NodeItem) /\ kvAt' = p
                                 ELSE kvGot' = Put(kvGot, p, Value(token)) /\ UNCHANGED kvAt
    /\ kvTokens' = Tail(kvTokens)
    /\ UNCHANGED <<kvStage, tree, form, kvLeft, cut>>

\* An end marker returns from the node, and from the fake node to the caller.
ReadEnd ==
    /\ MoreBytes /\ Head(kvTokens).type = "End"
    /\ IF kvAt # <<>> THEN kvAt' = Front(kvAt) /\ UNCHANGED kvStage
                    ELSE kvStage' = Outcome /\ UNCHANGED kvAt
    /\ kvTokens' = Tail(kvTokens)
    /\ UNCHANGED <<tree, form, kvLeft, cut, kvGot>>

\* ErrorException: the data is over before the fake node is.
BytesEnd ==
    /\ kvStage = "read" /\ form # "text" /\ kvTokens = <<>>
    /\ kvStage' = "refused"
    /\ UNCHANGED <<tree, form, kvLeft, kvAt, kvTokens, cut, kvGot>>

\* The tokenizer has another token.
MoreText == kvStage = "read" /\ form = "text" /\ kvTokens # <<>>

\* A value in a text: what is read of it is always a string.
TextValue(token) == [type |-> "String", value |-> token.value]

\* One round of parse(): a name with a value, or with an opening brace.
ReadTextItem ==
    /\ MoreText /\ Head(kvTokens).type # "End"
    /\ LET token == Head(kvTokens)
           p == Append(kvAt, token.name)
       IN IF token.type = "None" THEN kvGot' = CreateNode(kvGot, p) /\ kvAt' = p
                                 ELSE kvGot' = Put(kvGot, p, TextValue(token)) /\ UNCHANGED kvAt
    /\ kvTokens' = Tail(kvTokens)
    /\ UNCHANGED <<kvStage, tree, form, kvLeft, cut>>

\* A closing brace; one too many is a SyntaxError.
ReadBrace ==
    /\ MoreText /\ Head(kvTokens).type = "End"
    /\ IF kvAt # <<>> THEN kvAt' = Front(kvAt) /\ UNCHANGED kvStage
                      ELSE kvStage' = "refused" /\ UNCHANGED kvAt
    /\ kvTokens' = Tail(kvTokens)
    /\ UNCHANGED <<tree, form, kvLeft, cut, kvGot>>

\* Token::End returns from every node that is still open. A text that is cut between a
\* name and its value, or in a string, is a SyntaxError.
TextEnds ==
    /\ kvStage = "read" /\ form = "text" /\ kvTokens = <<>>
    /\ \/ kvStage' = Outcome
       \/ cut /\ kvStage' = "refused"
    /\ UNCHANGED <<tree, form, kvLeft, kvAt, kvTokens, cut, kvGot>>

\* The data may be over earlier than the tree.
CutOff ==
    /\ kvStage = "read" /\ ~cut /\ kvTokens # <<>>
    /\ cut' = TRUE /\ \E n \in 0..(Len(kvTokens) - 1) : kvTokens' = SubSeq(kvTokens, 1, n)
    /\ UNCHANGED <<kvStage, tree, form, kvLeft, kvAt, kvGot>>

KvNext ==
    \/ \E p \in DOMAIN tree, name \in Names : SetItem(p, name)
    \/ \E p \in kvLeft : WriteItem(p)
    \/ Serialize \/ WriteEnd \/ CutOff
    \/ ReadItem \/ ReadEnd \/ BytesEnd
    \/ ReadTextItem \/ ReadBrace \/ TextEnds

KvSpec == KvInit /\ [][KvNext]_kvVars

----------------------------------------------------------------------------
\* Type invariant.
KvTypeOK ==
    /\ kvStage \in {"build", "write", "read", "done", "refused", "assert"}
    /\ \A t \in {tree, kvGot} : \A p \in DOMAIN t : t[p] \in Leaves \cup {NodeItem}
    /\ form \in {"own", "steam", "text"} /\ cut \in BOOLEAN /\ kvLeft \subseteq DOMAIN tree

Nested == \E p \in DOMAIN tree : p # Root /\ tree[p].type = "None"

\* What is read is what was written: the trees Steam sends, in either form and any order,
\* and the flat trees that serialize() is used for (MachineInfo). Data that is cut off
\* gives no tree, or for a text a part of it, and never a wrong value
\* (KeyValue_Serialize.cpp:88-131, KeyValue_Deserialize.cpp:93-173,
\* KeyValue_Deserialize_Text.cpp:128-199).
TreesReadBack ==
    LET own == form = "own" /\ Nested
    IN /\ kvStage = "done" /\ ~own =>
             /\ \A p \in DOMAIN kvGot : p \in DOMAIN tree /\ kvGot[p] = tree[p]
             /\ cut => form = "text"
             /\ ~cut => kvGot = tree
       /\ kvStage = "refused" /\ ~own => cut
       /\ kvStage = "assert" => own \/ (form = "text" /\ cut)

\* serialize() closes every node with two markers, and the second one closes the parent
\* as well: a node inside the root that is not written last loses what follows it, or
\* meets assert(fake.children.size()==1). TLC finds this violated; no caller in the
\* repository nests nodes (KeyValue_Serialize.cpp:112-115).
NestedTreesReadBack == kvStage = "done" => kvGot = tree \/ cut

=============================================================================
