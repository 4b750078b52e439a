------------------------------ MODULE Parsing ------------------------------
(***************************************************************************)
(* The helpers that all parsers of pages and files rest on: the class list *)
(* and the text of an HTML element, the strings that name the items of a   *)
(* trade, and paths in a JSON document, which is the set of its paths with *)
(* the kind of value each leads to.                                        *)
(***************************************************************************)
EXTENDS Naturals, Sequences, FiniteSets, SequencesExt, Selection

CONSTANTS
    Elements,    \* elements: sequences of texts; a class attribute is such a sequence, too
    ClassNames,  \* the literals that checkClass() is asked for
    LowerOf,     \* LowerOf[c]: the letter for a capital letter
    Strings,     \* strings of "/", digits and "a", which stands for "a:"
    Digits,
    MaxDigits,   \* the longest number that fits its type
    Paths        \* paths of keys in a JSON document, with those leading to them

ParsingAssumption ==
    /\ Paths \subseteq Seq(UNION {Range(p) : p \in Paths}) \ {<<>>}
    /\ \A p \in Paths : Prefixes(p) \subseteq Paths \cup {<<>>}
    /\ "/" \notin Digits /\ "a" \notin Digits /\ MaxDigits \in Nat \ {0}
    /\ Strings \subseteq Seq(Digits \cup {"/", "a"})
    /\ \A e \in Elements : e \in Seq(Range(e)) /\ \A t \in Range(e) : t \in Seq(Range(t))
    /\ \A n \in ClassNames : n \in Seq(Range(n))

VARIABLES
    question,     \* what is parsed: an element, an item's string, or nothing
    parseResult,  \* the results, once it has been parsed
    document,     \* document[p]: "object" or "value", for the paths of a document
    put           \* history: the paths whose values have been put there and not erased

parsingVars == <<question, parseResult, document, put>>

NoItem == [ok |-> FALSE, app |-> <<>>, class |-> <<>>, instance |-> <<>>, amount |-> <<>>]
NoAnswer ==
    [parsed |-> FALSE, classes |-> {}, text |-> <<>>, trimmed |-> <<>>, white |-> FALSE,
     item |-> NoItem]

ParsingInit ==
    /\ \/ \E e \in Elements : question = [kind |-> "element", of |-> e]
       \/ \E s \in Strings : question = [kind |-> "item", of |-> s]
       \/ question = [kind |-> "none", of |-> <<>>]
    /\ parseResult = NoAnswer /\ document = [p \in {<<>>} |-> "object"] /\ put = {}

----------------------------------------------------------------------------
Tabs == {"\t", "\n", "\r"}
Blanks == Tabs \cup {" "}

Lower(c) == IF c \in DOMAIN LowerOf THEN LowerOf[c] ELSE c

\* One character of a class string: matcher is the position in the name, 0 for nullptr,
\* and Len(name) + 1 at its end.
MatchChar(name, s, c) ==
    LET at == IF s.matcher = 0 THEN 1 ELSE s.matcher
        fits == at <= Len(name) /\ name[at] = Lower(c)
    IN IF s.found THEN s
       ELSE IF c = " "
            THEN [matcher |-> 0, mismatch |-> FALSE,
                  found |-> s.matcher = Len(name) + 1 /\ ~s.mismatch]
            ELSE [s EXCEPT !.matcher = IF ~s.mismatch /\ fits THEN at + 1 ELSE at,
                           !.mismatch = @ \/ ~fits]

\* checkClass(): the name has ended with a word of the string, the last one included.
CheckClass(string, name) ==
    LET start == [matcher |-> 0, mismatch |-> FALSE, found |-> FALSE]
        end == FoldLeft(LAMBDA s, c : MatchChar(name, s, c), start, string)
    IN end.found \/ (~end.mismatch /\ end.matcher = Len(name) + 1)

\* Collector::collect(): blanks become one space each, none of them at the start.
CollectChar(result, c) ==
    IF c \notin Blanks THEN Append(result, c)
    ELSE IF result # <<>> /\ Last(result) # " " THEN Append(result, " ") ELSE result

Collect(result, text) == FoldLeft(CollectChar, result, text)

\* getCleanText(): the texts of an element, and those of its children, in their order.
GetCleanText(element) ==
    LET result == FoldLeft(Collect, <<>>, element)
    IN IF result # <<>> /\ Last(result) = " " THEN Front(result) ELSE result

RemovePrefix(string) ==
    FoldLeft(LAMBDA rest, c : IF rest = <<>> /\ c \in Blanks THEN rest ELSE Append(rest, c),
             <<>>, string)

\* trimWhitespace(): blanks go at the front, then at the back.
TrimWhitespace(string) == Reverse(RemovePrefix(Reverse(RemovePrefix(string))))

\* isWhitespace(): a space is none.
IsWhitespace(text) == ToSet(text) \subseteq Tabs

----------------------------------------------------------------------------
\* std::from_chars() reads all digits there are, and fails if their number is too big.
NumberLength(s) ==
    LET others == {i \in 1..Len(s) : s[i] \notin Digits}
    IN CHOOSE n \in 0..Len(s) : n + 1 \in others \cup {Len(s) + 1} /\ \A i \in others : i > n

\* parseNumberPrefix(): the number is removed from the string, or all stays as it was.
ParseNumberPrefix(s, old) ==
    LET n == NumberLength(s)
        ok == n \in 1..MaxDigits
    IN [ok |-> ok, number |-> IF ok THEN SubSeq(s, 1, n) ELSE old,
        rest |-> IF ok THEN SubSeq(s, n + 1, Len(s)) ELSE s]

\* parseNumberSlash(): with anything but a slash after the number it fails, but the number
\* is set and removed.
ParseNumberSlash(s, old) ==
    LET r == ParseNumberPrefix(s, old)
    IN IF ~r.ok \/ r.rest = <<>> THEN r
       ELSE IF Head(r.rest) = "/" THEN [r EXCEPT !.rest = Tail(@)] ELSE [r EXCEPT !.ok = FALSE]

\* AssetKey::init(), after "classinfo/": the instance may be missing.
AssetKeyInit(s) ==
    LET app == ParseNumberSlash(s, <<>>)
        class == ParseNumberSlash(app.rest, <<>>)
        instance == ParseNumberSlash(class.rest, <<>>)
        ok == app.ok /\ class.ok
    IN [ok |-> ok, app |-> app.number,
        class |-> IF app.ok THEN class.number ELSE <<>>,
        instance |-> IF ok THEN instance.number ELSE <<>>, amount |-> <<>>,
        rest |-> IF ok THEN instance.rest ELSE IF app.ok THEN class.rest ELSE app.rest]

\* TradeOffer::Item::init(): the amount may follow the key, and nothing else may.
ItemInit(s) ==
    LET key == AssetKeyInit(s)
        amount == ParseNumberSlash(Tail(key.rest), <<>>)
    IN IF ~key.ok \/ key.rest = <<>> THEN key
       ELSE IF Head(key.rest) # "a" THEN [key EXCEPT !.ok = FALSE]
            ELSE [key EXCEPT !.amount = amount.number, !.rest = amount.rest,
                             !.ok = amount.ok /\ amount.rest = <<>>]

----------------------------------------------------------------------------
ParseElement ==
    /\ question.kind = "element" /\ ~parseResult.parsed
    /\ LET string == FlattenSeq(question.of)
       IN parseResult' = [NoAnswer EXCEPT !.parsed = TRUE,
              !.classes = {n \in ClassNames : CheckClass(string, n)},
              !.text = GetCleanText(question.of), !.trimmed = TrimWhitespace(string),
              !.white = \A i \in 1..Len(question.of) : IsWhitespace(question.of[i])]
    /\ UNCHANGED <<question, document, put>>

ParseItem ==
    /\ question.kind = "item" /\ ~parseResult.parsed
    /\ LET item == ItemInit(question.of)
       IN parseResult' = [NoAnswer EXCEPT !.parsed = TRUE, !.item = [f \in DOMAIN NoItem |-> item[f]]]
    /\ UNCHANGED <<question, document, put>>

\* The objects on the way to a path, and what is below it.
Above(p) == Prefixes(p) \ {p}
Below(p, tree) == {q \in DOMAIN tree : IsPrefix(p, q)}

\* as_object() throws for whatever else is on the way; nothing has changed by then.
Throws(p) == \E q \in Above(p) \cap DOMAIN document : document[q] = "value"

\* createItem(): the missing objects, and the item, which the caller overwrites with a
\* value.
CreateItem(p) ==
    /\ question.kind = "none" /\ ~Throws(p)
    /\ LET kept == DOMAIN document \ Below(p, document)
       IN /\ document' = [q \in kept \cup Prefixes(p) |->
                         IF q = p THEN "value" ELSE IF q \in kept THEN document[q] ELSE "object"]
          /\ put' = {q \in put : ~IsPrefix(p, q)} \cup {p}
    /\ UNCHANGED <<question, parseResult>>

\* eraseItem(): the item goes; on the way back so does every object that is empty, up to
\* the first that is not. An object that is missing on the way is where the way back begins.
EraseItem(p) ==
    /\ question.kind = "none" /\ ~Throws(p)
    /\ LET rest == DOMAIN document \ Below(p, document)
           way == {q \in Above(p) \ {<<>>} : q \in rest
                       /\ \A r \in rest : IsPrefix(q, r) => r \in Above(p)}
       IN document' = [q \in rest \ way |-> document[q]]
    /\ put' = {q \in put : ~IsPrefix(p, q)}
    /\ UNCHANGED <<question, parseResult>>

ParsingNext ==
    \/ ParseElement \/ ParseItem
    \/ \E p \in Paths : CreateItem(p) \/ EraseItem(p)

ParsingSpec == ParsingInit /\ [][ParsingNext]_parsingVars

----------------------------------------------------------------------------
\* The words of a text: the longest parts of it without a character of the given set.
Words(text, between) ==
    {SubSeq(text, v[1], v[2]) : v \in
        {w \in (1..Len(text)) \X (1..Len(text)) :
            /\ w[1] <= w[2] /\ \A k \in w[1]..w[2] : text[k] \notin between
            /\ w[1] > 1 => text[w[1] - 1] \in between
            /\ w[2] < Len(text) => text[w[2] + 1] \in between}}

Letters(text) == Kept(text, Range(text) \ Blanks)

\* Type invariant.
ParsingTypeOK ==
    /\ question.kind \in {"element", "item", "none"} /\ parseResult.classes \subseteq ClassNames
    /\ DOMAIN parseResult = DOMAIN NoAnswer /\ DOMAIN parseResult.item = DOMAIN NoItem
    /\ DOMAIN document \subseteq Paths \cup {<<>>} /\ put \subseteq Paths

\* checkClass() finds exactly the words of the class string, whatever stands before them;
\* the clean text has all letters and the same words, with single spaces between them;
\* trimmed text has no blanks at its ends, and all between (HTML.cpp:16-149).
TextsAreRight ==
    question.kind = "element" /\ parseResult.parsed =>
        LET text == FlattenSeq(question.of)
            clean == parseResult.text
            trimmed == parseResult.trimmed
        IN /\ parseResult.classes = ClassNames \cap
                  {[i \in 1..Len(w) |-> Lower(w[i])] : w \in Words(text, {" "})}
           /\ Letters(clean) = Letters(text) /\ Words(clean, {" "}) = Words(text, Blanks)
           /\ ToSet(clean) \cap Tabs = {}
           /\ \A i \in 1..Len(clean) : clean[i] = " " =>
                  i \notin {1, Len(clean)} /\ clean[i + 1] # " "
           /\ trimmed # <<>> => Head(trimmed) \notin Blanks /\ Last(trimmed) \notin Blanks
           /\ Letters(trimmed) = Letters(text)
           /\ \E i, j \in 1..(Len(text) + 1) : trimmed = SubSeq(text, i, j - 1)
           /\ parseResult.white => clean = <<>>

\* The string of an item; instance and amount may be missing.
Numbers == UNION {[1..n -> Digits] : n \in 1..MaxDigits}
Written(app, class, instance, amount) ==
    app \o <<"/">> \o class
        \o (IF instance = <<>> THEN <<>> ELSE <<"/">> \o instance)
        \o (IF amount = <<>> THEN <<>> ELSE <<"/", "a">> \o amount)

\* Every string that names an app and a class, maybe an instance and maybe an amount, is
\* accepted and gives just these; and of what is accepted nothing but slashes is ignored
\* (ParseNumber.hpp:53-99, AssetKey.cpp:83-93, TradeOffers.cpp:109-127).
ItemsAreAsWritten ==
    question.kind = "item" /\ parseResult.parsed =>
        LET item == parseResult.item
            Solid(s) == Kept(s, Range(s) \ {"/"})
        IN /\ \A a, c \in Numbers, i, m \in Numbers \cup {<<>>} :
                 question.of = Written(a, c, i, m) => item =
                     [ok |-> TRUE, app |-> a, class |-> c, instance |-> i, amount |-> m]
           /\ item.ok => Solid(question.of)
                  = Solid(Written(item.app, item.class, item.instance, item.amount))

\* A document has what has been put into it and nothing else: no value is lost when
\* another one is created or erased, and no object without a value is left behind
\* (JSON.hpp:120-205).
DocumentsAreRight ==
    DOMAIN document = {<<>>} \cup UNION {Prefixes(p) : p \in put}

\* Not checked, as it does not hold: what collapses to no text is whitespace. A space is
\* none for isWhitespace() (HTML.cpp:153-164).
BlankIsWhite == question.kind = "element" /\ parseResult.parsed /\ parseResult.text = <<>> => parseResult.white

=============================================================================
