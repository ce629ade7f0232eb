------------------------------- MODULE Config -------------------------------
(* theme::config_parser (src/src/core/config_parser.cpp) with the daemon's item *)
(* table (src/src/daemon/server.cpp): what reading a file does to the values,   *)
(* and the lines that writing them yields.  A line is a record: its kind, the   *)
(* name in it and, of an item, the value; comments are of no effect.  Values are *)
(* strings, as m_value is.                                                      *)
EXTENDS Naturals, Sequences

CONSTANTS
    Text,       \* ST::string: what a name or a value may be
    Inside,     \* value that contains "[...]", which section_test sees first |-> what is inside
    Number      \* value of an integer item |-> what to_uint makes of it

Def(type, value) == [type |-> type, value |-> value]

\* s_daemonConfig: one item per kind of use.
s_daemonConfig ==
    [lobby |-> [bindaddr |-> Def("string", "127.0.0.1"), extaddr |-> Def("string", ""),
                port |-> Def("integer", "14617")],
     gate  |-> [crypt_k |-> Def("string", ""), crypt_n |-> Def("string", ""),
                crypt_x |-> Def("string", ""), crypt_g |-> Def("integer", "4"),
                authaddr |-> Def("string", "184.73.198.22")]]

Sections == DOMAIN s_daemonConfig
Keys(section) == DOMAIN s_daemonConfig[section]

Bracketed == DOMAIN Inside

\* The names of the table are text, and neither the defaults nor the "0" that stands for
\* an empty number has brackets.
ASSUME ConfigAssumption ==
    /\ "" \in Text /\ "0" \in Text \ Bracketed
    /\ \A s \in Sections : s \in Text /\ \A k \in Keys(s) :
           k \in Text /\ s_daemonConfig[s][k].value \in Text \ Bracketed
    /\ \A v \in DOMAIN Number : Number[v] \in Nat
    /\ \A v \in Bracketed : Inside[v] \in Text

\* config_parser::config_parser
Defaults == [s \in Sections |-> [k \in Keys(s) |-> s_daemonConfig[s][k].value]]

\* The typed accessors: find_item and the type of the item are asserted.
get_string(values, section, key) == values[section][key]
get_uint(values, section, key) == Number[values[section][key]]
set_string(values, section, key, value) == [values EXCEPT ![section][key] = value]

Lines == [kind : {"section", "item", "comment"}, name : Text, value : Text]
Header(section) == [kind |-> "section", name |-> section, value |-> ""]
Item(key, value) == [kind |-> "item", name |-> key, value |-> value]
Comment == [kind |-> "comment", name |-> "", value |-> ""]

\* config_parser::set of a line: an empty value stays one only in a string.
SetValue(section, key, value) ==
    IF value # "" \/ s_daemonConfig[section][key].type = "string" THEN value ELSE "0"

SetLine(values, section, line) ==
    IF section \in Sections /\ line.name \in Keys(section)
    THEN [values EXCEPT ![section][line.name] = SetValue(section, line.name, line.value)]
    ELSE values

\* One line: what stands for m_config.end() is the name of no section.
ReadLine(state, line) ==
    IF line.kind = "comment" THEN state
    ELSE IF line.kind = "section" THEN [state EXCEPT !.section = line.name]
    ELSE IF line.value \in Bracketed THEN [state EXCEPT !.section = Inside[line.value]]
    ELSE [state EXCEPT !.values = SetLine(@, state.section, line)]

\* config_parser::read, line by line; a file that does not exist is one without lines.
ReadAll(values, file) ==
    LET state[i \in 0..Len(file)] ==
            IF i = 0 THEN [section |-> "", values |-> values] ELSE ReadLine(state[i - 1], file[i])
    IN state[Len(file)]

read(values, file) == ReadAll(values, file).values

\* config_parser::write, in the order the unordered maps are walked: a layout is the
\* sequence of places the lines stand for, a section (with no key) or an item of it.
Places == [section : Sections, key : Text]
Written_bug(layout, values) ==                          \* leaves empty items out
    SelectSeq(layout, LAMBDA p : p.key = "" \/ values[p.section][p.key] # "")
Written(layout, values) == layout

Line(place, values) ==
    IF place.key = "" THEN Header(place.section) ELSE Item(place.key, values[place.section][place.key])

write(layout, values) ==
    LET places == Written(layout, values) IN [i \in DOMAIN places |-> Line(places[i], values)]
=============================================================================
