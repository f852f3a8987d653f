---------------------------- MODULE AuthoredText ----------------------------
(***************************************************************************)
(* Authored Text as authored_text_parser.cpp reads it.  A text is a        *)
(* sequence of tokens: a name stands for the Page Link [[name]], a         *)
(* reference token for [[block:UUID]], a key token for "key::"; the marks  *)
(* of the notation ("[[" without its closer, "]]", a backslash, a new      *)
(* line, "{{query") are tokens of their own, and every other token is a    *)
(* word, which holds a character no name may hold.                         *)
(***************************************************************************)
EXTENDS SequencesExt

CONSTANTS Names,            \* valid Page Names, and the tokens that mention them
          References,       \* reference token -> the Block it designates
          PropertyKeys      \* key token -> the key itself

Separators == {" ", "\n"}
Opens(token) == token = "[[" \/ token \in Names \/ token \in DOMAIN References
Closes(token) == token = "]]" \/ token \in Names \/ token \in DOMAIN References

\* The first and last position that is not a separator.
TextBegin(text) == Min({i \in DOMAIN text : text[i] \notin Separators} \cup {Len(text) + 1})
TextEnd(text) == Max({i \in DOMAIN text : text[i] \notin Separators} \cup {0})

HasQueryIntent(text) ==
    LET begin == TextBegin(text)
    IN  /\ begin <= Len(text) /\ text[begin] = "{{query"
        /\ begin = TextEnd(text) \/ text[begin + 1] \in Separators

\* The positions of the links and references of one line, from begin to end.  A
\* run of backslashes before an opener escapes it when its length is odd; an
\* opener of its own swallows what follows up to the next closer.
ScanInline(text, begin, end) ==
    LET runEnd(i) == Min({j \in i .. end : text[j] # "\\"} \cup {end + 1})
        passed(i) == IF text[i] # "[[" THEN i + 1
                     ELSE Min({k + 1 : k \in {j \in i + 1 .. end : Closes(text[j])}}
                              \cup {end + 1})
        found[i \in begin .. end + 1] ==
            LET j == runEnd(i)
                escaped == (j - i) % 2 = 1 /\ j <= end /\ Opens(text[j])
            IN  CASE i = end + 1 -> {}
                  [] i <= end /\ j > i -> IF escaped THEN found[passed(j)] ELSE found[j]
                  [] i <= end /\ j = i /\ ~Opens(text[i]) -> found[i + 1]
                  [] OTHER -> {k \in {i} : text[k] # "[["} \cup found[passed(i)]
    IN  found[begin]

\* Lines, as their first and last positions.
Lines(text) ==
    LET breaks == {i \in DOMAIN text : text[i] = "\n"}
    IN  {<<i + 1, Min({j - 1 : j \in {k \in breaks : k > i}} \cup {Len(text)})>> :
            i \in breaks \cup {0}}

IsProperty(text, line) == line[1] <= line[2] /\ text[line[1]] \in DOMAIN PropertyKeys
IsEscapedProperty(text, line) ==
    line[1] < line[2] /\ text[line[1]] = "\\" /\ text[line[1] + 1] \in DOMAIN PropertyKeys

\* A Query holds no links, and neither does the value of a Property.
Scan(text) ==
    IF HasQueryIntent(text) THEN {}
    ELSE UNION {ScanInline(text, IF IsEscapedProperty(text, line) THEN line[1] + 2 ELSE line[1],
                           line[2]) :
                   line \in {l \in Lines(text) : ~IsProperty(text, l)}}

PageLinks(text) == {i \in DOMAIN text : i \in Scan(text) /\ text[i] \in Names}
BlockReferences(text) == {i \in DOMAIN text : i \in Scan(text) /\ text[i] \in DOMAIN References}

Properties(text) ==
    IF HasQueryIntent(text) THEN {}
    ELSE {[at |-> line[1], key |-> PropertyKeys[text[line[1]]],
           value |-> SubSeq(text, line[1] + 1, line[2])] :
             line \in {l \in Lines(text) : IsProperty(text, l)}}
=============================================================================
