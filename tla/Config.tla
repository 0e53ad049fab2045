------------------------------- MODULE Config -------------------------------
(***************************************************************************)
(* How a configuration becomes settings (core/config.c): the lines of the  *)
(* files become exported options, through the logic options (if, else,     *)
(* for) that decide about the lines behind them; options marked immediate  *)
(* act at once, and may include other files; the others are applied when   *)
(* all are known, and may still add some.                                  *)
(*                                                                         *)
(* A configuration is a block with lines before and behind.  A line has a  *)
(* key and a value, the value 0 standing for %(_), the item of the loop;    *)
(* the value of if-opt is the one it compares with.                        *)
(***************************************************************************)
EXTENDS Bench, Integers, Sequences, SequencesExt, FiniteSetsExt

CONSTANTS CfgBodies,     \* what may be between the lines of a block: sequences of lines
          CfgIncluded,   \* the lines of the included file
          CfgForbidden   \* keys on the blacklist

CfgLine(k, v) == [key |-> k, val |-> v]
Conditions == {"if-opt", "if-not-opt", "if-out", "if-not-out"}
Ends == {"end", "endif", "endfor"}
Immediate == Conditions \cup Ends \cup {"for", "else", "include"}
\* plain options, one that a plugin unknown here would have, one that includes
\* the file only when it is applied
Known == Immediate \cup {"a", "b", "c", "late"}
NoLogic == CfgLine("", 0)
AnyValue == -1   \* the argument of if-opt has no =

CfgLines(b) ==
    b.before \o <<CfgLine(b.how, b.arg)>> \o b.then
    \o (IF b.how = "for" THEN <<CfgLine("endfor", 1)>> ELSE <<CfgLine("else", 1)>> \o b.other \o <<CfgLine("endif", 1)>>)
    \o b.behind

\* applied lists the options in the order in which they took effect.
CfgInit ==
    /\ kind = "config"
    /\ \E how \in Conditions \cup {"for"}, before, then, other, behind \in CfgBodies, outside \in BOOLEAN :
        /\ how = "for" => other = <<>> /\ ~outside
        /\ Len(before) + Len(other) + Len(behind) <= 2
        /\ \A i \in DOMAIN (before \o behind) : (before \o behind)[i].key \notin Conditions
        /\ \E arg \in CASE how = "for" -> {0, 2}
                      [] how \in {"if-opt", "if-not-opt"} -> {AnyValue, 1}
                      [] OTHER -> {1} :
            LET b == [how |-> how, arg |-> arg, before |-> before, then |-> then, other |-> other, behind |-> behind]
            IN  st = [block |-> b, out |-> outside, todo |-> CfgLines(b), opts |-> <<>>, logic |-> NoLogic,
                      failed |-> FALSE, running |-> FALSE, applied |-> <<>>, pc |-> "read"]

-----------------------------------------------------------------------------
\* upsgi_get_exported_opt finds the first: if-opt and if-not-opt ask for "a".
Defined(s, k) == \E i \in DOMAIN s.opts : s.opts[i].key = k
ValueOf(s, k) == s.opts[CHOOSE i \in DOMAIN s.opts : s.opts[i].key = k /\ \A j \in 1..(i - 1) : s.opts[j].key # k].val

\* upsgi_substitute
WithItem(l, item) == [l EXCEPT !.val = IF @ = 0 THEN item ELSE @]

IfOpt(s) == Defined(s, "a") /\ s.logic.val \in {AnyValue, ValueOf(s, "a")}
IfNotOpt(s) == Defined(s, "a") => s.logic.val \notin {AnyValue, ValueOf(s, "a")}

\* Conditions on what is outside: the environment, files, directories,
\* plugins, the name of the host.
IfOutside(s) == s.out

CondHolds(s) ==
    CASE s.logic.key = "if-opt" -> IfOpt(s)
      [] s.logic.key = "if-not-opt" -> IfNotOpt(s)
      [] s.logic.key = "if-out" -> IfOutside(s)
      [] s.logic.key = "if-not-out" -> ~IfOutside(s)

Exited(s) == [s EXCEPT !.pc = "exit", !.todo = <<>>]

Ended(s) == [s EXCEPT !.logic = NoLogic, !.failed = FALSE]

RECURSIVE AddExported(_, _)

AddMany(s, lines) == FoldLeft(LAMBDA t, l : IF t.pc = "exit" THEN t ELSE AddExported(t, l), s, lines)

\* An immediate option: logic does not nest (upsgi_opt_logic), files are read
\* at once, by the same rules.
TakeEffect(s, l) ==
    LET i == Len(s.opts)
    IN  IF l.key \notin Immediate THEN s
        ELSE IF l.key \in Conditions \cup {"for", "else"}
             THEN IF s.logic # NoLogic THEN Exited(s) ELSE [s EXCEPT !.logic = l, !.opts[i].done = TRUE]
             ELSE IF l.key = "include" THEN AddMany([s EXCEPT !.opts[i].done = TRUE], CfgIncluded)
             ELSE [s EXCEPT !.opts[i].done = TRUE]

\* The option is put at the end of the list.
Exported(s, l) ==
    TakeEffect([s EXCEPT !.opts = Append(@, [key |-> l.key, val |-> l.val, done |-> FALSE])], l)

\* upsgi_logic_opt_for and its kin: the line once per item
LogicFor(s, l) ==
    FoldLeft(LAMBDA t, n : IF t.pc = "exit" THEN t ELSE Exported(t, WithItem(l, n)), s, [n \in 1..s.logic.val |-> n])

\* Mutant: an else whose condition failed is not taken.
LogicElseNot(s, l) == IF s.failed THEN s ELSE Exported(s, l)

LogicElse(s, l) == IF s.failed THEN Exported(s, l) ELSE s

\* The conditions are evaluated for every line again.
LogicIf(s, l) ==
    IF CondHolds(s)
    THEN Exported([s EXCEPT !.failed = FALSE], WithItem(l, IF Defined(s, "a") THEN ValueOf(s, "a") ELSE 0))
    ELSE [s EXCEPT !.failed = TRUE]

Logic(s, l) ==
    CASE s.logic.key = "for" -> LogicFor(s, l)
      [] s.logic.key = "else" -> LogicElse(s, l)
      [] OTHER -> LogicIf(s, l)

\* add_exported_option_do: while a logic option runs, everything is added.
AddExported(s, l) ==
    LET t == IF l.key \in Ends THEN Ended(s) ELSE IF l.key = "else" THEN [s EXCEPT !.logic = NoLogic] ELSE s
    IN  IF l.key \in CfgForbidden THEN Exited(s)
        ELSE IF s.running THEN Exported(s, l)
        ELSE IF t.logic = NoLogic THEN Exported(t, l)
        ELSE [Logic([t EXCEPT !.running = TRUE], l) EXCEPT !.running = FALSE]

CfgRead ==
    /\ At("config") /\ st.pc = "read" /\ st.todo # <<>>
    /\ st' = AddExported([st EXCEPT !.todo = Tail(@)], Head(st.todo))

CfgAllRead == At("config") /\ st.pc = "read" /\ st.todo = <<>> /\ st' = [st EXCEPT !.pc = "configure"]

\* upsgi_configure: the first option that has not been managed and can be; if
\* it adds options the search starts over.
Unmanaged == {i \in DOMAIN st.opts : ~st.opts[i].done /\ st.opts[i].key \in Known}

CfgManage ==
    /\ At("config") /\ st.pc = "configure" /\ Unmanaged # {}
    /\ LET i == Min(Unmanaged)
           s == [st EXCEPT !.applied = Append(@, i)]
           t == IF st.opts[i].key \in {"late", "include"} THEN AddMany(s, CfgIncluded) ELSE s
       IN  st' = IF t.pc = "exit" THEN t ELSE [t EXCEPT !.opts[i].done = TRUE]

CfgDone == At("config") /\ st.pc = "configure" /\ Unmanaged = {} /\ st' = [st EXCEPT !.pc = "done"]

CfgIdle == At("config") /\ st.pc \in {"done", "exit"} /\ UNCHANGED st

CfgNext == CfgRead \/ CfgAllRead \/ CfgManage \/ CfgDone \/ CfgIdle

-----------------------------------------------------------------------------
CfgTypeOK ==
    kind = "config" =>
        /\ st.pc \in {"read", "configure", "done", "exit"} /\ st.failed \in BOOLEAN
        /\ ~st.running /\ st.logic.key \in Immediate \cup {""}

\* What the author of a block means: its condition is looked at once.
PlainKeys == {"a", "b", "c", "late", "unknown"}
PlainLines(lines, items) ==
    LET each == FoldLeft(LAMBDA acc, l : acc \o [n \in 1..items |-> l], <<>>, lines)
        flat == FoldLeft(LAMBDA acc, l : acc \o (IF l.key = "include" THEN CfgIncluded ELSE <<l>>), <<>>, each)
    IN  SelectSeq(flat, LAMBDA l : l.key \in PlainKeys)
Plain(lines, items) == [i \in DOMAIN PlainLines(lines, items) |-> PlainLines(lines, items)[i].key]

BlockMeans(b) ==
    LET asked == SelectSeq(PlainLines(b.before, 1), LAMBDA l : l.key = "a")
        defined == asked # <<>> /\ b.arg \in {AnyValue, Head(asked).val}
        true == CASE b.how = "if-opt" -> defined
                  [] b.how = "if-not-opt" -> ~defined
                  [] b.how = "if-out" -> st.out
                  [] b.how = "if-not-out" -> ~st.out
                  [] b.how = "for" -> TRUE
        chosen == IF b.how = "for" THEN Plain(b.then, b.arg) ELSE Plain(IF true THEN b.then ELSE b.other, 1)
    IN  Plain(b.before, 1) \o chosen \o Plain(b.behind, 1)

\* The condition may be looked at again for each line: the block does not
\* define the option it asks for, and has a line at which to find it false.
StableBlock(b) ==
    /\ b.how \in Conditions => b.then # <<>>
    /\ b.how \in {"if-opt", "if-not-opt"} =>
        \A lines \in {b.then, b.other} : \A i \in DOMAIN Plain(lines, 1) : Plain(lines, 1)[i] # "a"

\* When all lines were read the options are those the blocks mean, in order:
\* those of one branch and not of the other, those of a loop once per item,
\* with the files that were included in their place.
BlocksAsWritten ==
    kind = "config" /\ st.pc = "configure" /\ st.applied = <<>> /\ StableBlock(st.block) =>
        SelectSeq([i \in DOMAIN st.opts |-> st.opts[i].key], LAMBDA k : k \in PlainKeys) = BlockMeans(st.block)

\* Every option takes effect once: the immediate ones when they are read, the
\* others in the order of the list, whatever options they add on the way.
AppliedOnceInOrder ==
    kind = "config" /\ st.pc = "done" =>
        st.applied = SelectSeq([i \in DOMAIN st.opts |-> i], LAMBDA i : st.opts[i].key \in Known \ Immediate)

-----------------------------------------------------------------------------
(***************************************************************************)
(* The text of a configuration: magic variables replaced while the file is *)
(* read (magic_sub), the INI reader (core/ini.c), the builtin YAML reader  *)
(* (core/yaml.c), and the pass that replaces the placeholders %(name) in   *)
(* the values (upsgi_apply_config_pass).  A text is a sequence of          *)
(* characters; "nl" is the newline, "0" the terminating zero, "u" the name *)
(* of the section that is asked for.                                       *)
(*                                                                         *)
(* A file is written down from a list of lines by the operators IniText    *)
(* and YamlText, so that what is read can be compared with what is meant.  *)
(***************************************************************************)
CONSTANTS IniLines, YamlLines,   \* the lines a file may have
          FileLines,             \* how many
          PassValues,            \* for every option, the values it may have: option -> set of texts
          MagicTexts             \* texts with magic variables

Head1(name) == [t |-> "head", name |-> name, key |-> <<>>, val |-> <<>>, pad |-> <<>>]
Opt1(k, v, pad) == [t |-> "opt", name |-> "", key |-> k, val |-> v, pad |-> pad]
Other1(t, pad) == [t |-> t, name |-> "", key |-> <<>>, val |-> <<>>, pad |-> pad]

Docs(lines) == UNION {[1..n -> lines] : n \in 0..FileLines}
Joined1(texts, final) ==
    FoldLeft(LAMBDA acc, i : acc \o texts[i] \o (IF i < Len(texts) \/ final THEN <<"nl">> ELSE <<>>), <<>>, [i \in DOMAIN texts |-> i])

IniText(l) ==
    CASE l.t = "head" -> <<"[", l.name, "]">>
      [] l.t = "opt" -> l.pad \o l.key \o l.pad \o <<"=">> \o l.pad \o l.val \o l.pad
      [] l.t = "bare" -> l.pad \o <<"k">> \o l.pad
      [] l.t = "note" -> l.pad \o <<";", "k", "=", "v">>
      [] l.t = "blank" -> l.pad

YamlText(l) ==
    CASE l.t = "head" -> <<l.name, ":">>
      [] l.t = "opt" -> <<" ">> \o l.pad \o l.key \o l.pad \o <<":", " ">> \o l.pad \o l.val \o l.pad
      [] l.t = "note" -> l.pad \o <<"#", "k", ":", " ", "v">>
      [] l.t = "blank" -> l.pad
      [] l.t = "list" -> <<" ", "-", " ", "v">>
      [] l.t = "tight" -> <<" ", "k", ":", "v">>

\* upsgi_open_and_read: the text with a terminating zero
WithZero(text) == Append(text, "0")

TextInit ==
    /\ kind = "cfgtext"
    /\ \/ \E d \in Docs(IniLines), final \in BOOLEAN :
            st = [form |-> "ini", doc |-> d, buf |-> WithZero(Joined1([i \in DOMAIN d |-> IniText(d[i])], final)),
                  section |-> <<>>, inside |-> FALSE, depth |-> 0, opts |-> <<>>, at |-> 0, pc |-> "read"]
       \/ \E d \in Docs(YamlLines), final \in BOOLEAN :
            st = [form |-> "yaml", doc |-> d, buf |-> WithZero(Joined1([i \in DOMAIN d |-> YamlText(d[i])], final)),
                  section |-> <<>>, inside |-> FALSE, depth |-> 0, opts |-> <<>>, at |-> 0, pc |-> "read"]
       \/ \E vals \in {f \in [DOMAIN PassValues -> UNION {PassValues[k] : k \in DOMAIN PassValues}] :
                         \A k \in DOMAIN f : f[k] \in PassValues[k]} :
            st = [form |-> "pass", doc |-> <<>>, buf |-> <<>>, section |-> <<>>, inside |-> FALSE, depth |-> 0,
                  opts |-> [k \in DOMAIN vals |-> [key |-> <<k>>, val |-> vals[k]]], at |-> 1, pc |-> "read"]
       \/ \E text \in MagicTexts :
            st = [form |-> "magic", doc |-> <<>>, buf |-> text, section |-> <<>>, inside |-> FALSE, depth |-> 0,
                  opts |-> <<>>, at |-> 0, pc |-> "read"]

-----------------------------------------------------------------------------
\* Strings end at their zero.
CStr(s) == LET z == {i \in DOMAIN s : s[i] = "0"} IN IF z = {} THEN s ELSE SubSeq(s, 1, Min(z) - 1)

Blank == {" ", "tab", "cr"}

\* ini_lstrip, yaml_lstrip
LStrip(s) == LET x == {i \in DOMAIN s : s[i] \notin Blank} IN IF x = {} THEN <<>> ELSE SubSeq(s, Min(x), Len(s))

\* ini_rstrip, yaml_rstrip
RStrip(s) == LET x == {i \in DOMAIN s : s[i] \notin Blank} IN IF x = {} THEN <<>> ELSE SubSeq(s, 1, Max(x))

\* ini_get_line: how long is the first line, its newline included?
GetLine(buf) == LET x == {i \in DOMAIN buf : buf[i] = "nl"} IN IF x = {} THEN Len(buf) ELSE Min(x)

LineText(buf) == CStr(LET n == GetLine(buf) IN IF buf[n] = "nl" THEN SubSeq(buf, 1, n - 1) ELSE SubSeq(buf, 1, n))

\* ini_get_key: where the key ends
GetKey(s) == LET x == {i \in DOMAIN s : s[i] = "="} IN IF x = {} THEN Len(s) + 1 ELSE Min(x)

\* One round of upsgi_ini_config.
IniRead ==
    /\ At("cfgtext") /\ st.form = "ini" /\ st.pc = "read" /\ st.buf # <<>>
    /\ LET key == RStrip(LStrip(LineText(st.buf)))
           s == [st EXCEPT !.buf = SubSeq(@, GetLine(@) + 1, Len(@))]
       IN  st' = IF key = <<>> \/ key[1] \in {";", "#"} THEN s
                 ELSE IF key[1] = "[" THEN [s EXCEPT !.section = SubSeq(key, 2, Len(key) - 1)]
                 ELSE IF s.section # <<"u">> THEN s
                 ELSE LET e == GetKey(key)
                      IN  [s EXCEPT !.opts = Append(@, [key |-> RStrip(SubSeq(key, 1, e - 1)),
                                                        val |-> RStrip(LStrip(SubSeq(key, e + 1, Len(key))))])]

\* yaml_get_line: a comment becomes zeroes
YamlLine(buf) ==
    LET line == LineText(buf)
        x == {i \in DOMAIN line : line[i] = "#"}
    IN  IF x = {} THEN line ELSE SubSeq(line, 1, Min(x) - 1)

\* yaml_get_depth
YamlDepth(s) ==
    LET x == {i \in DOMAIN s : s[i] \notin Blank}
        lead == SubSeq(s, 1, IF x = {} THEN Len(s) ELSE Min(x) - 1)
    IN  FoldLeft(LAMBDA acc, c : acc + IF c = " " THEN 1 ELSE 8, 0, lead)

\* A line that is not deeper than the section's own ends it.
YamlStops(line) == YamlDepth(line) <= st.depth /\ st.inside

\* What upsgi_yaml_config does with a line of the section: stop at a list, a
\* flow mapping or a line that has no value behind its colon.
YamlPair(s, key) ==
    LET before(c) == {i \in 1..(Len(key) - 1) : key[i] = ":" /\ key[i + 1] = c}
        x == IF before(" ") # {} THEN before(" ") ELSE before("tab")
    IN  IF key[1] \in {"-", "[", "{"} \/ x = {} THEN [s EXCEPT !.pc = "done"]
        ELSE [s EXCEPT !.opts = Append(@, [key |-> RStrip(SubSeq(key, 1, Min(x) - 1)),
                                           val |-> RStrip(LStrip(SubSeq(key, Min(x) + 2, Len(key))))])]

\* A line outside of the section: is it its head?
YamlSection(s, key) ==
    LET x == {i \in DOMAIN key : key[i] = ":"}
    IN  IF key[1] \in {"-", "[", "{"} \/ x = {} THEN s
        ELSE [s EXCEPT !.inside = SubSeq(key, 1, Min(x) - 1) = <<"u">>]

YamlRead ==
    /\ At("cfgtext") /\ st.form = "yaml" /\ st.pc = "read" /\ st.buf # <<>>
    /\ LET line == YamlLine(st.buf)
           key == LStrip(line)
           s == [st EXCEPT !.buf = SubSeq(@, GetLine(@) + 1, Len(@))]
           t == IF YamlDepth(line) <= st.depth THEN [s EXCEPT !.depth = YamlDepth(line)] ELSE s
       IN  st' = IF line = <<>> THEN s
                 ELSE IF YamlStops(line) THEN [t EXCEPT !.pc = "done"]
                 ELSE IF YamlDepth(line) > st.depth /\ ~st.inside THEN s
                 ELSE IF key = <<>> THEN t
                 ELSE IF st.inside THEN YamlPair(t, key) ELSE YamlSection(t, key)

TextEnd ==
    /\ At("cfgtext") /\ st.form \in {"ini", "yaml"} /\ st.pc = "read" /\ st.buf = <<>>
    /\ st' = [st EXCEPT !.pc = "done"]

-----------------------------------------------------------------------------
\* The hook of the pass for %: the value of the option that is named.
Resolvable(opts, key) == \E k \in DOMAIN opts : opts[k].key = key
Resolve(opts, key) == (CHOOSE o \in Range(opts) : o.key = key).val

RECURSIVE PassScan(_, _, _, _, _, _)

\* upsgi_apply_config_pass on one value: j is the position (from 0), has
\* counts what was seen since the symbol, from is where the name begins.
PassScan(opts, v, j, has, deep, from) ==
    IF j >= Len(v) THEN v
    ELSE LET c == v[j + 1]
             name == SubSeq(v, from + 1, from + has - 2)
         IN  IF c = "%" THEN PassScan(opts, v, j + 1, 1, deep, from)
             ELSE IF c = "(" /\ has = 1 THEN PassScan(opts, v, j + 1, 2, 0, j + 1)
             ELSE IF has <= 1 THEN PassScan(opts, v, j + 1, 0, deep, from)
             ELSE IF c = "(" THEN PassScan(opts, v, j + 1, has + 1, deep + 1, from)
             ELSE IF c # ")" THEN PassScan(opts, v, j + 1, has + 1, deep, from)
             ELSE IF deep > 0 THEN PassScan(opts, v, j + 1, has + 1, deep - 1, from)
             ELSE IF has = 2 \/ ~Resolvable(opts, name) THEN PassScan(opts, v, j + 1, 0, deep, from)
             ELSE PassScan(opts, SubSeq(v, 1, from - 2) \o Resolve(opts, name) \o SubSeq(v, from + has, Len(v)), 1, 0, deep, from)

PassValue(opts, v) == PassScan(opts, v, 0, 0, 0, 0)

PassOption ==
    /\ At("cfgtext") /\ st.form = "pass" /\ st.pc = "read"
    /\ LET n == SetToSeq(DOMAIN st.opts)
       IN  \/ /\ st.at <= Len(n)
              /\ st' = [st EXCEPT !.opts[n[st.at]].val = PassValue(st.opts, @), !.at = @ + 1]
           \/ st.at > Len(n) /\ st' = [st EXCEPT !.pc = "done"]

-----------------------------------------------------------------------------
\* init_magic_table: variables that are not set are empty
MagicOf(c) == CASE c = "%" -> <<"%">> [] c = "(" -> <<"%", "(">> [] c = "m" -> <<"y", "y", "y">> [] OTHER -> <<>>

\* magic_sub: a variable gives a new buffer, with room for it and for what is
\* still to come; other characters are written where the last one ended.
MagicStep(m, buf) ==
    IF buf[m.i] = "%" /\ m.i < Len(buf)
    THEN LET new == m.out \o MagicOf(buf[m.i + 1])
         IN  [m EXCEPT !.i = @ + 2, !.out = new, !.cap = Len(new) + Len(buf) - m.i - 1 + 1]
    ELSE [m EXCEPT !.i = @ + 1, !.out = Append(@, buf[m.i]), !.fits = @ /\ Len(m.out) < m.cap]

MagicSub(buf) ==
    FoldLeft(LAMBDA m, n : IF m.i > Len(buf) THEN m ELSE MagicStep(m, buf), [i |-> 1, out |-> <<>>, cap |-> Len(buf), fits |-> TRUE], buf)

MagicRead ==
    /\ At("cfgtext") /\ st.form = "magic" /\ st.pc = "read"
    /\ LET m == MagicSub(WithZero(st.buf))
       IN  st' = [st EXCEPT !.opts = <<[key |-> <<>>, val |-> m.out]>>, !.inside = m.fits, !.pc = "done"]

TextIdle == At("cfgtext") /\ st.pc = "done" /\ UNCHANGED st

TextNext == IniRead \/ YamlRead \/ TextEnd \/ PassOption \/ MagicRead \/ TextIdle

-----------------------------------------------------------------------------
\* The options that a list of lines puts under the section.
Asked(doc) ==
    LET heads(i) == {h \in 1..i : doc[h].t = "head"}
        under(i) == heads(i) # {} /\ doc[Max(heads(i))].name = "u"
        asked == SelectSeq([i \in DOMAIN doc |-> i], LAMBDA i : doc[i].t \in {"opt", "bare"} /\ under(i))
    IN  [n \in DOMAIN asked |-> IF doc[asked[n]].t = "bare" THEN [key |-> <<"k">>, val |-> <<>>]
                                ELSE [key |-> doc[asked[n]].key, val |-> doc[asked[n]].val]]

\* An INI file gives the options of the section that was asked for, wherever
\* its parts are, in order, with their values as written but for the blanks
\* around: a second equals sign or a semicolon inside belongs to the value,
\* and a last line without newline counts.
IniSectionExact ==
    kind = "cfgtext" /\ st.form = "ini" /\ st.pc = "done" => st.opts = Asked(st.doc)

\* The lines of the first section that was asked for, to the next head.
FirstAsked(doc) ==
    LET from == {i \in DOMAIN doc : doc[i].t = "head" /\ doc[i].name = "u"}
    IN  IF from = {} THEN <<>>
        ELSE LET next == {i \in DOMAIN doc : i > Min(from) /\ doc[i].t = "head"}
             IN  SubSeq(doc, Min(from), IF next = {} THEN Len(doc) ELSE Min(next) - 1)

\* A YAML file gives the pairs of the first such section up to the first line
\* the reader does not understand, and nothing from another section.
YamlSectionExact ==
    kind = "cfgtext" /\ st.form = "yaml" /\ st.pc = "done" =>
        LET part == FirstAsked(st.doc)
            odd == {i \in DOMAIN part : part[i].t \in {"list", "tight"}}
        IN  st.opts = Asked(IF odd = {} THEN part ELSE SubSeq(part, 1, Min(odd) - 1))

\* After the pass no value holds a placeholder that could be replaced, those
\* that came with another option's value included; but for one that came to
\* stand at the very beginning of a value, where the scan never looks again.
PlaceholdersReplaced ==
    kind = "cfgtext" /\ st.form = "pass" /\ st.pc = "done" =>
        \A k \in DOMAIN st.opts :
            LET v == st.opts[k].val
            IN  \A i \in 2..(Len(v) - 3) :
                    ~(v[i] = "%" /\ v[i + 1] = "(" /\ v[i + 3] = ")" /\ Resolvable(st.opts, <<v[i + 2]>>))

RECURSIVE Replaced(_)

Replaced(t) ==
    IF t = <<>> THEN <<>>
    ELSE IF Head(t) = "%" /\ Len(t) > 1 THEN MagicOf(t[2]) \o Replaced(SubSeq(t, 3, Len(t)))
    ELSE <<Head(t)>> \o Replaced(Tail(t))

\* Magic variables are replaced from left to right, what they stand for is not
\* looked at again, and nothing is written behind the buffer.
MagicExact ==
    kind = "cfgtext" /\ st.form = "magic" /\ st.pc = "done" =>
        st.inside /\ st.opts[1].val = Replaced(WithZero(st.buf))
=============================================================================
