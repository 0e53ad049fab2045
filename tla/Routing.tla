------------------------------ MODULE Routing -------------------------------
(***************************************************************************)
(* The routing engine (core/routing.c).  A request walks four tables of    *)
(* rules: the main one before the application, the error one whenever a    *)
(* status line is prepared, the response one when the headers are about to *)
(* leave, the final one when the request is closed.  A rule may itself     *)
(* prepare a status or write, so a table can be walked inside a rule of    *)
(* another one: the walks form a stack, and four flags of the request      *)
(* decide which tables a step may start and in which one a goto looks for  *)
(* its label.                                                              *)
(*                                                                         *)
(* A rule is the name of what it does; "label" is --route-label, "set"     *)
(* any router that changes the request and goes on, "fails" one whose      *)
(* translation or append fails, "send" one that writes, "clear" one that   *)
(* prepares the headers again, "status" --route-run=break:200, "goto" a    *)
(* jump to the label and "goto2" one to a position.                        *)
(***************************************************************************)
EXTENDS Bench, Integers, Sequences, FiniteSets, SequencesExt, FiniteSetsExt

CONSTANTS MainTables, ErrorTables, ResponseTables, FinalTables   \* sets of sequences of rules

Tables == {"main", "error", "response", "final"}
RuleNames == {"label", "set", "fails", "send", "clear", "status", "goto", "goto2", "break", "last"}

\* The labelled position, counted from 0 as ur->pos is; 0 when there is none.
LabelPos(rules) ==
    IF \E i \in DOMAIN rules : rules[i] = "label"
    THEN (CHOOSE i \in DOMAIN rules : rules[i] = "label" /\ \A j \in 1..(i - 1) : rules[j] # "label") - 1
    ELSE 0

\* The last goto: the table of its rule, the table it jumped in, the rule, the
\* target (0 if refused), and whether that table was walked inside a rule of
\* the error or the final table, or after a nested table broke.
NoJump == [own |-> "none", in |-> "none", at |-> 0, to |-> 0, strained |-> FALSE]

RoutingInit ==
    /\ kind = "routing"
    /\ \E m \in MainTables, e \in ErrorTables, r \in ResponseTables, f \in FinalTables, async \in BOOLEAN :
        st = [rules |-> [main |-> m, error |-> e, response |-> r, final |-> f], async |-> async,
              phase |-> "recv", stack |-> <<>>, ret |-> "none",
              routing |-> FALSE, inErr |-> FALSE, inResp |-> FALSE, inFin |-> FALSE, respDone |-> FALSE,
              sent |-> FALSE, ignore |-> FALSE,
              goto |-> [t \in Tables |-> 0], pc |-> [t \in Tables |-> 0],
              pass |-> [t \in Tables |-> 0], broke |-> FALSE, jump |-> NoJump]

\* A walk: the table, the rule it is at, and what is left to do of the rule
\* that runs ("prepare", "write", "headers", then the value it returns).
Frame(t) == [t |-> t, i |-> 1, todo |-> <<>>, last |-> 0]
App == [t |-> "app", i |-> 1, todo |-> <<"prepare", "write", "next">>, last |-> 0]

Top(s) == s.stack[Len(s.stack)]
SetTop(s, f) == [s EXCEPT !.stack[Len(s.stack)] = f]
Push(s, f) == [s EXCEPT !.stack = Append(@, f)]
Pop(s) == [s EXCEPT !.stack = SubSeq(@, 1, Len(@) - 1)]

\* A walk of table t begins: an empty table is continued at once.
Walk(s, t) == [Push(s, Frame(t)) EXCEPT !.pass[t] = @ + 1]

\* upsgi_apply_routes, from wsgi_req_recv or async_schedule_to_req; a request
\* whose variables do not parse is closed.
ApplyRoutes ==
    /\ At("routing")
    /\ st.phase = "recv"
    /\ \/ st' = [st EXCEPT !.phase = "close"]
       \/ st.rules.main # <<>> /\ st' = [Walk(st, "main") EXCEPT !.phase = "main"]
       \/ st.rules.main = <<>> /\ st' = [st EXCEPT !.phase = "app", !.stack = <<App>>, !.routing = st.async]

\* The tail of the loop: the counter of the table follows the walk, except
\* past the last rule.
StepNext(s) ==
    LET f == Top(s)
        more == f.i < Len(s.rules[f.t])
    IN  [SetTop(s, [f EXCEPT !.i = @ + 1, !.todo = <<>>]) EXCEPT !.pc[f.t] = IF more THEN @ + 1 ELSE @]

\* What the router's function does before it returns.
RuleBody(name) ==
    CASE name = "send"   -> <<"write", "next">>
      [] name = "clear"  -> <<"prepareOrBreak", "next">>
      [] name = "status" -> <<"prepareOrEnd", "headers", "break">>
      [] name = "fails"  -> <<"break">>
      [] name = "break"  -> <<"break">>
      [] name = "last"   -> <<"last">>
      [] name = "goto"   -> <<"goto">>
      [] name = "goto2"  -> <<"goto2">>
      [] OTHER           -> <<"next">>

\* The walk is over and returns v to its caller.
Returned(s, v) == [Pop(s) EXCEPT !.ret = v]

Walking == At("routing") /\ st.stack # <<>> /\ st.ret = "none" /\ Top(st).t # "app" /\ Top(st).todo = <<>>

\* upsgi_apply_routes_do: labels and the rules before a jump's target are
\* stepped over; a rule's subject or condition may not match, and a condition
\* that fails ends the walk.
VisitRule ==
    /\ Walking
    /\ LET f == Top(st)
           rules == st.rules[f.t]
       IN  IF f.i > Len(rules) THEN st' = Returned(st, "last")
           ELSE IF rules[f.i] = "label" \/ (st.goto[f.t] > 0 /\ st.pc[f.t] < st.goto[f.t]) THEN st' = StepNext(st)
           ELSE LET s == [st EXCEPT !.goto[f.t] = 0]
                IN  \/ st' = [SetTop(s, [f EXCEPT !.todo = RuleBody(rules[f.i]), !.last = f.i]) EXCEPT !.routing = TRUE]
                    \/ rules[f.i] = "set" /\ st' = StepNext(s)
                    \/ rules[f.i] = "set" /\ st' = Returned(s, "break")

Doing(op) == At("routing") /\ st.stack # <<>> /\ st.ret = "none" /\ Top(st).todo # <<>> /\ Head(Top(st).todo) = op

Done1(s) == SetTop(s, [Top(s) EXCEPT !.todo = Tail(@)])

\* Mutant: the error table is walked again inside itself.
ErrorRoutesApplyAlways(s) == s.rules.error # <<>>

\* upsgi_apply_error_routes
ErrorRoutesApply(s) == s.rules.error # <<>> /\ ~s.inErr

PrepareOps == {"prepare", "prepareOrBreak", "prepareOrEnd"}

\* upsgi_response_prepare_headers refused: the router's own way out.
PrepareFailed(s) ==
    LET op == Head(Top(s).todo)
        n  == Len(Top(s).todo)
    IN  CASE op = "prepare"        -> Done1(s)
          [] op = "prepareOrBreak" -> SetTop(s, [Top(s) EXCEPT !.todo = <<"break">>])
          [] op = "prepareOrEnd"   -> SetTop(s, [Top(s) EXCEPT !.todo = <<@[n]>>])

\* upsgi_response_prepare_headers: the status may still change until the
\* headers leave; the error routes see every status.
PrepareHeaders ==
    /\ \E op \in PrepareOps : Doing(op)
    /\ IF st.sent THEN st' = PrepareFailed(st)
       ELSE st' = IF ErrorRoutesApply(st) THEN [Walk(st, "error") EXCEPT !.inErr = TRUE] ELSE Done1(st)

\* upsgi_apply_response_routes
ResponseRoutesApply(s) == s.rules.response # <<>> /\ ~s.respDone /\ ~s.inResp

\* upsgi_response_write_body_do up to the headers, which a request whose body
\* is ignored does not reach, and upsgi_response_write_headers_do: the response
\* routes are applied before the first of them leaves.
WriteOps == {"write", "headers"}

WriteBody ==
    /\ \E op \in WriteOps : Doing(op)
    /\ st' = IF st.sent \/ (st.ignore /\ Head(Top(st).todo) = "write") THEN Done1(st)
             ELSE IF ResponseRoutesApply(st) THEN [Walk(st, "response") EXCEPT !.inResp = TRUE]
             ELSE [Done1(st) EXCEPT !.sent = TRUE]

\* writer.c clears the flag of the table that returned.
NestedFlag(s, t) == IF t = "error" THEN [s EXCEPT !.inErr = FALSE] ELSE [s EXCEPT !.inResp = FALSE]

\* The caller of a nested table: a table that breaks makes the prepare or the
\* write fail and the body be ignored, and its flag stays set.
NestedReturns ==
    /\ At("routing")
    /\ st.ret # "none"
    /\ st.stack # <<>>
    /\ LET op == Head(Top(st).todo)
           t  == IF op \in WriteOps THEN "response" ELSE "error"
           s  == [st EXCEPT !.ret = "none", !.respDone = @ \/ t = "response"]
       IN  st' = IF st.ret = "break"
                 THEN LET b == [s EXCEPT !.ignore = TRUE, !.broke = TRUE] IN IF t = "error" THEN PrepareFailed(b) ELSE Done1(b)
                 ELSE LET c == NestedFlag(s, t) IN IF t = "response" THEN [Done1(c) EXCEPT !.sent = TRUE] ELSE Done1(c)

\* upsgi_router_goto_func: the flags say whose labels are searched.
GotoTable(s) == IF s.inErr THEN "error" ELSE IF s.inFin THEN "final" ELSE IF s.inResp THEN "response" ELSE "main"

Strained(s) == \E k \in 1..(Len(s.stack) - 1) : s.stack[k].t \in {"error", "final"}

Goto ==
    /\ \E op \in {"goto", "goto2"} : Doing(op)
    /\ LET t   == GotoTable(st)
           pos == IF Head(Top(st).todo) = "goto" THEN LabelPos(st.rules[t]) ELSE 2
           fwd == pos > st.pc[t]
           to  == IF fwd THEN pos ELSE 0
       IN  st' = [SetTop(st, [Top(st) EXCEPT !.todo = IF fwd THEN <<"next">> ELSE <<"break">>]) EXCEPT
                     !.goto[t] = to,
                     !.jump = [own |-> Top(st).t, in |-> t, at |-> Top(st).i, to |-> to, strained |-> st.broke \/ Strained(st)]]

\* The rule's function has returned.
RuleReturns ==
    /\ \E op \in {"next", "break", "last"} : Doing(op)
    /\ Top(st).t # "app"
    /\ LET s == [st EXCEPT !.routing = FALSE]
           op == Head(Top(st).todo)
       IN  st' = IF op = "next" THEN StepNext(s)
                 ELSE Returned(s, op)

\* The main table has returned: "a trick to avoid calling routes again" in the
\* asynchronous loop.
MainReturns ==
    /\ At("routing")
    /\ st.phase = "main"
    /\ st.stack = <<>>
    /\ st' = IF st.ret = "break" THEN [st EXCEPT !.ret = "none", !.phase = "close"]
             ELSE [st EXCEPT !.ret = "none", !.phase = "app", !.stack = <<App>>, !.routing = st.async]

\* The application has answered.
AppReturns ==
    /\ Doing("next")
    /\ Top(st).t = "app"
    /\ st' = [Pop(st) EXCEPT !.phase = "close"]

\* upsgi_apply_final_routes
FinalApplies(s) == s.rules.final # <<>> /\ ~s.routing

CloseRequest ==
    /\ At("routing")
    /\ st.phase = "close"
    /\ st' = IF FinalApplies(st) THEN [Walk(st, "final") EXCEPT !.phase = "final", !.inFin = TRUE]
             ELSE [st EXCEPT !.phase = "done"]

FinalReturns ==
    /\ At("routing")
    /\ st.phase = "final"
    /\ st.stack = <<>>
    /\ st' = [st EXCEPT !.ret = "none", !.phase = "done"]

RoutingIdle == At("routing") /\ st.phase = "done" /\ UNCHANGED st

RoutingNext ==
    \/ ApplyRoutes \/ VisitRule \/ PrepareHeaders \/ WriteBody \/ NestedReturns \/ Goto \/ RuleReturns
    \/ MainReturns \/ AppReturns \/ CloseRequest \/ FinalReturns \/ RoutingIdle

-----------------------------------------------------------------------------
RoutingTypeOK ==
    kind = "routing" =>
        /\ st.phase \in {"recv", "main", "app", "close", "final", "done"}
        /\ st.ret \in {"none", "break", "last"}
        /\ \A t \in Tables : st.pc[t] \in 0..20 /\ st.goto[t] \in 0..4 /\ st.pass[t] \in 0..6
        /\ \A i \in DOMAIN st.stack : st.stack[i].t \in Tables \cup {"app"}

\* No table is walked inside a rule of the same table, however the rules
\* prepare statuses and write ("avoid loops").
NoTableInItself ==
    kind = "routing" => \A i, j \in DOMAIN st.stack : st.stack[i].t = st.stack[j].t => i = j

\* The counter that gotos compare with is the position of the rule the walk is
\* at, through labels, jumps and nested tables, on a table's first walk.
CounterFollowsWalk ==
    kind = "routing" =>
        \A k \in DOMAIN st.stack :
            LET f == st.stack[k]
            IN  f.t \in Tables /\ f.i <= Len(st.rules[f.t]) /\ st.pass[f.t] = 1 => st.pc[f.t] = f.i - 1

\* A goto is taken in the table of its rule and no rule before its target is
\* run, unless its table is walked inside a rule of the error or the
\* final table, or another table broke earlier and left its flag set.
GotoInOwnTable ==
    kind = "routing" =>
        LET j == st.jump
            f == Top(st)
        IN  /\ ~j.strained => j.own = j.in
            /\ st.stack # <<>> /\ f.todo # <<>> /\ f.t = j.own /\ j.own = j.in /\ st.pass[f.t] = 1 /\ j.at < f.last
               => f.last > j.to

\* A request of the synchronous loops that had a final table has walked it
\* exactly once when it is closed, whatever broke before.
FinalWalkedOnce ==
    kind = "routing" => (st.phase = "done" /\ ~st.async /\ st.rules.final # <<>> => st.pass.final = 1)

-----------------------------------------------------------------------------
(***************************************************************************)
(* The text functions of the routing engine: the two passes that rewrite a *)
(* rule's argument (core/regexp.c and upsgi_routing_translate), the        *)
(* lookups ${cookie[k]} and ${qs[k]} (core/cookie.c, core/querystring.c)   *)
(* and the address conditions.  Each is evaluated on small inputs and      *)
(* compared with what it stands for.  A text is a sequence of characters;  *)
(* "k" and "v" are letters, "1" and "9" digits.                            *)
(***************************************************************************)
CONSTANTS TextLength,    \* length of the texts tried, at most
          WordBits       \* bits of a word of an address (32 in the code)

Texts(alphabet, n) == SeqOf(alphabet, n)

TextInit ==
    /\ kind = "text"
    /\ \/ \E d \in Texts({"$", "{", "}", "k"}, TextLength) : st = [fun |-> "translate", of |-> "condition", in |-> d, out |-> <<>>]
       \/ \E d \in Texts({"k", "[", "]"}, TextLength - 1), e \in {<<>>, <<"}">>, <<"}", "v">>} :
            st = [fun |-> "translate", of |-> "condition", in |-> <<"$", "{">> \o d \o e, out |-> <<>>]
       \/ \E d \in Texts({"$", "1", "9", "k"}, TextLength), r \in {"rule", "run"} :
            st = [fun |-> "translate", of |-> r, in |-> d, out |-> <<>>]
       \/ \E d \in Texts({"$", "{", "}", "1"}, TextLength - 1) : st = [fun |-> "translate", of |-> "rule", in |-> d, out |-> <<>>]
       \/ \E d \in Texts({"$", "1", "9", "k"}, TextLength) : st = [fun |-> "ovec", in |-> d, out |-> <<>>]
       \/ \E d \in Texts({"k", "=", "v", ";", " "}, TextLength) : st = [fun |-> "cookie", in |-> d, out |-> <<>>]
       \/ \E d \in Texts({"k", "=", "v", "&"}, TextLength) : st = [fun |-> "qs", in |-> d, out |-> <<>>]
       \/ \E i \in [1..4 -> 0..(2^WordBits - 1)], n \in {0, 2^WordBits - 1}, p \in -1..(4 * WordBits + 1), long \in BOOLEAN :
            /\ long => n = 0 /\ i[1] = 0
            /\ st = [fun |-> "ipv6in", in |-> i, net |-> [w \in 1..4 |-> IF w = 2 THEN 1 ELSE n], pfx |-> p, long |-> long, out |-> 0]
       \/ \E i \in 0..15, n \in 0..14, p \in -1..5, long \in BOOLEAN :
            st = [fun |-> "ipv4in", in |-> i, net |-> n, pfx |-> p, long |-> long, out |-> 0]

-----------------------------------------------------------------------------
\* Values that give a reference back as it was written, so that a translation
\* that loses or adds a character shows.
VarValue(key) == <<"$", "{">> \o key \o <<"}">>
RouteVarValue(name, inner) == VarValue(name \o <<"[">> \o inner \o <<"]">>)

\* ${name[inner]} of a registered name, or the request's variable.
RefValue(key) ==
    LET b == IF Contains(key, "[") THEN CHOOSE i \in DOMAIN key : key[i] = "[" /\ \A j \in 1..(i - 1) : key[j] # "[" ELSE 0
        name == SubSeq(key, 1, b - 1)
    IN  IF b > 0 /\ key[Len(key)] = "]" /\ name = <<"k">>
        THEN RouteVarValue(name, SubSeq(key, b + 1, b + Len(key) - (Len(name) + 2)))
        ELSE VarValue(key)

\* One character of upsgi_routing_translate's state machine.
TranslateStep(m, c) ==
    CASE m.status = 0 /\ c = "$" -> [m EXCEPT !.status = 1]
      [] m.status = 0 /\ c # "$" -> [m EXCEPT !.out = Append(@, c)]
      [] m.status = 1 /\ c = "{" -> [m EXCEPT !.status = 2, !.key = <<>>]
      [] m.status = 1 /\ c # "{" -> [m EXCEPT !.status = 0, !.out = @ \o <<"$", c>>]
      [] m.status = 2 /\ c = "}" -> [m EXCEPT !.status = 0, !.out = @ \o RefValue(m.key), !.key = <<>>]
      [] m.status = 2 /\ c # "}" -> [m EXCEPT !.key = Append(@, c)]

\* "fix the buffer"
TranslateFixed(m) ==
    m.out \o (CASE m.status = 1 -> <<"$">> [] m.status = 2 -> <<"$", "{">> \o m.key [] OTHER -> <<>>)

\* A subject matched by a pattern whose one group is the whole subject.
OvecSource == <<"k", "v", "v", "v", "v", "v">>
OvecGroups == 1
Group(pos) == OvecSource
Digit(c) == CASE c = "1" -> 1 [] c = "9" -> 9 [] OTHER -> -1

\* The allocation of upsgi_regexp_apply_ovec, in characters.
OvecRoom(d) == Len(d) + Len(OvecSource) * (OvecGroups + Cardinality({i \in DOMAIN d : d[i] = "$"})) + 1

\* One turn of its loop, with n groups.
OvecStep(n, m, c) ==
    CASE m.dollar /\ Digit(c) \in 0..n -> [dollar |-> FALSE, out |-> m.out \o Group(Digit(c))]
      [] m.dollar /\ Digit(c) > n      -> [dollar |-> FALSE, out |-> m.out]
      [] m.dollar /\ Digit(c) < 0      -> [dollar |-> FALSE, out |-> m.out \o <<"$", c>>]
      [] ~m.dollar /\ c = "$"          -> [dollar |-> TRUE, out |-> m.out]
      [] ~m.dollar /\ c # "$"          -> [dollar |-> FALSE, out |-> Append(m.out, c)]

Ovec(n, d) == FoldLeft(LAMBDA m, c : OvecStep(n, m, c), [dollar |-> FALSE, out |-> <<>>], d).out

\* The first pass is made with a subject.  A condition has none; a rule that
\* always runs or that has a condition has one without groups, which is read
\* at offset 0 of the request, the descriptor.
Pass1(of, d) == CASE of = "condition" -> d [] of = "rule" -> Ovec(OvecGroups, d) [] of = "run" -> Ovec(0, d)

Translate ==
    /\ At("text")
    /\ st.fun = "translate"
    /\ LET m == FoldLeft(TranslateStep, [status |-> 0, key |-> <<>>, out |-> <<>>], Pass1(st.of, st.in))
       IN  st' = [st EXCEPT !.fun = "translated", !.out = TranslateFixed(m)]

ApplyOvec ==
    /\ At("text")
    /\ st.fun = "ovec"
    /\ st' = [st EXCEPT !.fun = "ovecDone", !.out = Ovec(OvecGroups, st.in)]

-----------------------------------------------------------------------------
Blank(c) == c = " "

\* check_cookie strips blanks on both sides (a chunk of blanks is outside).
CookieStripped(c) ==
    LET seen == {i \in DOMAIN c : ~Blank(c[i])} IN SubSeq(c, Min(seen), Max(seen))

\* The value of a pair that names the key "k"; none when it is empty.
PairValue(c) ==
    IF ~Contains(c, "=") THEN <<>>
    ELSE LET equal == Min({i \in DOMAIN c : c[i] = "="})
         IN  IF SubSeq(c, 1, equal - 1) = <<"k">> THEN SubSeq(c, equal + 1, Len(c)) ELSE <<>>

CheckCookie(c) == PairValue(CookieStripped(c))

CheckQs(c) == PairValue(c)

CheckPair(sep, c) == IF sep = ";" THEN CheckCookie(c) ELSE CheckQs(c)

\* The loop of upsgi_get_cookie and upsgi_get_qs: a pair is looked at when its
\* separator is met, the last one after the loop; the first value found wins.
SplitWalk(s, sep) ==
    LET m == FoldLeft(LAMBDA m, c : IF m.found # <<>> THEN m
                                    ELSE IF c = sep THEN [found |-> CheckPair(sep, m.chunk), chunk |-> <<>>]
                                    ELSE [m EXCEPT !.chunk = Append(@, c)],
                      [found |-> <<>>, chunk |-> <<>>], s)
    IN  IF m.found = <<>> /\ m.chunk # <<>> THEN CheckPair(sep, m.chunk) ELSE m.found

\* Chunks of a text: the places where it has no separator, up to both ends.
Chunks(s, sep) ==
    {p \in (1..Len(s)) \X (1..Len(s)) :
        /\ p[1] <= p[2] /\ \A i \in p[1]..p[2] : s[i] # sep
        /\ p[1] = 1 \/ s[p[1] - 1] = sep
        /\ p[2] = Len(s) \/ s[p[2] + 1] = sep}

\* No chunk is empty or blank: otherwise check_cookie's 16-bit lengths wrap.
CookiePlain(s) ==
    /\ \A p \in Chunks(s, ";") : \E i \in p[1]..p[2] : ~Blank(s[i])
    /\ s # <<>> => s[1] # ";" /\ \A i \in 1..(Len(s) - 1) : ~(s[i] = ";" /\ s[i + 1] = ";")

GetCookie ==
    /\ At("text")
    /\ st.fun = "cookie"
    /\ CookiePlain(st.in)
    /\ st' = [st EXCEPT !.fun = "cookieDone", !.out = SplitWalk(st.in, ";")]

\* The 16-bit length of an empty or blank chunk wraps and characters behind the
\* header are looked at: any outcome.
GetCookieWraps ==
    /\ At("text")
    /\ st.fun = "cookie"
    /\ ~CookiePlain(st.in)
    /\ \E v \in {<<>>, <<"v">>} : st' = [st EXCEPT !.fun = "cookieWrapped", !.out = v]

GetQs ==
    /\ At("text")
    /\ st.fun = "qs"
    /\ st' = [st EXCEPT !.fun = "qsDone", !.out = SplitWalk(st.in, "&")]

-----------------------------------------------------------------------------
Bit(x, i) == (x \div 2^i) % 2
And(x, y, w) == FoldSet(LAMBDA i, n : n + 2^i * Bit(x, i) * Bit(y, i), 0, 0..(w - 1))
Ones(w) == 2^w - 1
HighBits(n, w) == Ones(w) - (2^(w - n) - 1)     \* ~0 << (w - n)

\* The switch falls through: the word the prefix ends in and those behind it
\* are cleared, then that word gets the bits that remain.
Ipv6Mask(pfx) ==
    LET i == pfx \div WordBits
        cleared == [w \in 1..4 |-> IF w - 1 >= i THEN 0 ELSE Ones(WordBits)]
    IN  IF pfx % WordBits # 0 THEN [cleared EXCEPT ![i + 1] = HighBits(pfx % WordBits, WordBits)] ELSE cleared

\* long: the text of the network has the length of the longest one, or the
\* one of the address is longer than any, which is an error.
Ipv6In ==
    /\ At("text")
    /\ st.fun = "ipv6in"
    /\ LET mask == Ipv6Mask(st.pfx)
       IN  st' = [st EXCEPT !.fun = "ipv6Done",
                            !.out = IF st.long THEN -1
                                    ELSE IF st.pfx < 0 \/ st.pfx > 4 * WordBits THEN 0
                                    ELSE IF \A w \in 1..4 : And(st.in[w], mask[w], WordBits) = And(st.net[w], mask[w], WordBits)
                                    THEN 1 ELSE 0]

\* An address of all ones is what inet_addr returns for an error.
Ipv4In ==
    /\ At("text")
    /\ st.fun = "ipv4in"
    /\ st' = [st EXCEPT !.fun = "ipv4Done",
                        !.out = IF st.long THEN -1
                                ELSE IF st.in = 15 \/ st.pfx < 0 \/ st.pfx > 4 THEN 0
                                ELSE IF And(st.in, HighBits(st.pfx, 4), 4) = And(st.net, HighBits(st.pfx, 4), 4) THEN 1 ELSE 0]

TextFuns == {"translate", "ovec", "cookie", "qs", "ipv6in", "ipv4in"}

TextIdle == At("text") /\ st.fun \notin TextFuns /\ UNCHANGED st

TextNext == Translate \/ ApplyOvec \/ GetCookie \/ GetCookieWraps \/ GetQs \/ Ipv6In \/ Ipv4In \/ TextIdle

-----------------------------------------------------------------------------
\* The dollar at i is not the second of a pair, and no dollar follows it.
Refers(d, i) ==
    /\ d[i] = "$" /\ (i = Len(d) \/ d[i + 1] # "$")
    /\ LET others == {j \in 1..(i - 1) : d[j] # "$"} IN (i - (IF others = {} THEN 0 ELSE Max(others))) % 2 = 1

\* A text with its group references replaced, those of missing groups and an
\* unpaired dollar at the end left out.
Referred(n, d) ==
    LET Piece(i) == CASE Refers(d, i) /\ (i = Len(d) \/ Digit(d[i + 1]) >= 0) -> <<>>
                      [] i > 1 /\ Refers(d, i - 1) /\ Digit(d[i]) >= 0 -> IF Digit(d[i]) <= n THEN Group(Digit(d[i])) ELSE <<>>
                      [] OTHER -> <<d[i]>>
    IN  FoldLeft(LAMBDA t, i : t \o Piece(i), <<>>, [i \in 1..Len(d) |-> i])

\* The translation of a condition loses and adds no character, closed, unclosed
\* and nested references included: with values that give the reference back,
\* the result is the argument.  That of a rule replaces the groups and loses
\* references to groups that are not there, and a last dollar, and no more.
TranslationExact ==
    kind = "text" /\ st.fun = "translated" =>
        st.out = CASE st.of = "condition" -> st.in [] st.of = "rule" -> Referred(OvecGroups, st.in) [] st.of = "run" -> Referred(0, st.in)

\* The buffer upsgi_regexp_apply_ovec allocates before it knows what the
\* groups hold is large enough for the text it writes and the final NUL.
OvecFits == kind = "text" /\ st.fun = "ovecDone" => Len(st.out) + 1 <= OvecRoom(st.in)

\* ${cookie[k]} and ${qs[k]} are the value of the first pair of that name with
\* a value, wherever it stands.
FirstPairFound ==
    kind = "text" =>
        \A sep \in {";", "&"} :
            st.fun = (IF sep = ";" THEN "cookieDone" ELSE "qsDone") =>
                LET Val(p) == LET c == SubSeq(st.in, p[1], p[2])
                                  seen == {i \in DOMAIN c : c[i] # " "}
                                  t == SubSeq(c, Min(seen), Max(seen))
                              IN  IF Len(t) > 2 /\ SubSeq(t, 1, 2) = <<"k", "=">> THEN SubSeq(t, 3, Len(t)) ELSE <<>>
                    hits == {p \in Chunks(st.in, sep) : Val(p) # <<>>}
                IN  st.out = IF hits = {} THEN <<>> ELSE Val(CHOOSE p \in hits : \A q \in hits : p[1] <= q[1])

\* The address conditions compare exactly the first bits, whole words, partial
\* words, an empty and a full prefix alike.  Only a network that is written
\* with all its digits is an error, which ends the walk.
PrefixExact ==
    kind = "text" =>
        /\ st.fun \in {"ipv6Done", "ipv4Done"} => (st.out = -1 <=> st.long)
        /\ st.fun = "ipv6Done" /\ st.out # -1 =>
              LET B(a, i) == Bit(a[i \div WordBits + 1], WordBits - 1 - (i % WordBits))
              IN  st.out = 1 <=> st.pfx \in 0..(4 * WordBits) /\ \A i \in 0..(st.pfx - 1) : B(st.in, i) = B(st.net, i)
        /\ st.fun = "ipv4Done" /\ st.out # -1 /\ st.in # 15 =>
              (st.out = 1 <=> st.pfx \in 0..4 /\ \A i \in 0..(st.pfx - 1) : Bit(st.in, 3 - i) = Bit(st.net, 3 - i))

-----------------------------------------------------------------------------
(***************************************************************************)
(* The fields of a request that say where it goes (core/protocol.c with    *)
(* --manage-script-name, and the set* routers of core/routing.c).  Each    *)
(* lives twice: in the request's C fields, which the server reads, and in  *)
(* the variables, which the application reads.                             *)
(*                                                                         *)
(* The PATH_INFO that arrived is a sequence of "/" and letters; path_info  *)
(* is a place in it (base, from, len), or in a value a router appended.    *)
(* Lengths have 16 bits.                                                   *)
(***************************************************************************)
CONSTANTS FieldPaths,     \* values of PATH_INFO
          FieldMounts,    \* lists of mountpoints of the applications, "/" first
          FieldRoom       \* variables that can still be appended

Wrap(n) == n % 2^16

FieldNames == {"script", "path", "user", "uri", "home", "file"}

\* What a pointer and a length show; a length past the text shows more.
Shown(iov) ==
    IF iov.from + iov.len <= Len(iov.base) THEN SubSeq(iov.base, iov.from + 1, iov.from + iov.len) ELSE <<"beyond">>

AllOf(text) == [base |-> text, from |-> 0, len |-> Len(text)]

FieldsInit ==
    /\ kind = "fields"
    /\ \E p \in FieldPaths, m \in FieldMounts :
        st = [orig |-> p, mounts |-> m, phase |-> "parsed", room |-> FieldRoom, slash |-> FALSE,
              field |-> [n \in FieldNames |-> IF n = "path" THEN AllOf(p) ELSE AllOf(<<>>)],
              var |-> [n \in FieldNames |-> IF n = "path" THEN AllOf(p) ELSE AllOf(<<>>)]]

\* "should have the same prefix of path_info" "and should not be misleading"
Candidate(path, mount, len, best) ==
    /\ len <= Len(path)
    /\ len > best
    /\ SubSeq(path, 1, len) = SubSeq(mount, 1, len)
    /\ Len(path) > len => path[len + 1] = "/"

TrailingSlash(mount) == mount # <<>> /\ mount[Len(mount)] = "/"

\* The loop over the applications: the length compared leaves a trailing slash
\* out, the lengths stored do not.
BestMount(path, mounts) ==
    FoldLeft(LAMBDA b, m :
                LET len == IF TrailingSlash(m) THEN Len(m) - 1 ELSE Len(m)
                IN  IF Candidate(path, m, len, b.best) THEN [best |-> len, mount |-> m] ELSE b,
             [best |-> 0, mount |-> <<>>], mounts)

\* upsgi_parse_vars with --manage-script-name, for a PATH_INFO that is not
\* empty; the vector already has a slot for SCRIPT_NAME or gets one.
ManageScriptName ==
    /\ At("fields")
    /\ st.phase = "parsed"
    /\ LET b == BestMount(st.orig, st.mounts)
           n == Len(b.mount)
           path == [base |-> st.orig, from |-> n, len |-> Wrap(Len(st.orig) - n)]
       IN  st' = IF st.orig = <<>> \/ b.best = 0 THEN [st EXCEPT !.phase = "routes"]
                 ELSE [st EXCEPT !.phase = "routes", !.slash = TrailingSlash(b.mount),
                                 !.field.script = AllOf(b.mount), !.var.script = AllOf(b.mount),
                                 !.field.path = path, !.var.path = path]

RouteValues == {<<>>, <<"/", "a">>, <<"u", ":", "p">>}

\* A rule whose append fails breaks the walk.
Broken(s) == [s EXCEPT !.phase = "broken"]

\* setapp, setscriptname, setmethod, seturi, setremoteaddr, setdocroot and the
\* like: the value is appended as a variable and the field points to it.
SetField ==
    /\ At("fields")
    /\ st.phase = "routes"
    /\ \E n \in {"script", "uri", "home"}, v \in RouteValues :
        st' = IF st.room = 0 THEN Broken(st)
              ELSE [st EXCEPT !.room = @ - 1, !.field[n] = AllOf(v), !.var[n] = AllOf(v)]

SetPathInfo ==
    /\ At("fields")
    /\ st.phase = "routes"
    /\ \E v \in RouteValues :
        st' = IF st.room = 0 THEN Broken(st)
              ELSE [st EXCEPT !.room = @ - 1, !.field.path = AllOf(v), !.var.path = AllOf(v)]

\* The variable stops at the colon, the field's length does not.
SetUser ==
    /\ At("fields")
    /\ st.phase = "routes"
    /\ \E v \in RouteValues :
        LET upto == IF Contains(v, ":") THEN (CHOOSE i \in DOMAIN v : v[i] = ":") - 1 ELSE Len(v)
            kept == SubSeq(v, 1, upto)
        IN  st' = IF st.room = 0 THEN Broken(st)
                  ELSE [st EXCEPT !.room = @ - 1, !.var.user = AllOf(kept),
                                  !.field.user = [base |-> kept, from |-> 0, len |-> Len(v)]]

\* The variable is UPSGI_HOME.
SetFile ==
    /\ At("fields")
    /\ st.phase = "routes"
    /\ \E v \in RouteValues :
        st' = IF st.room = 0 THEN Broken(st)
              ELSE [st EXCEPT !.room = @ - 1, !.field.file = AllOf(v), !.var.home = AllOf(v)]

\* upsgi_router_fixpathinfo_func: a SCRIPT_NAME longer than PATH_INFO gives a
\* length that wraps, which no buffer has room for.
Fixed(s, n) ==
    LET p == s.field.path
        q == [p EXCEPT !.from = @ + n, !.len = Wrap(@ - n)]
    IN  IF s.room = 0 \/ q.len > Len(p.base) THEN Broken(s)
        ELSE [s EXCEPT !.room = @ - 1, !.field.path = q, !.var.path = q]

FixPathInfo ==
    /\ At("fields")
    /\ st.phase = "routes"
    /\ LET n == st.field.script.len IN st' = IF n = 0 THEN st ELSE Fixed(st, n)

FieldsIdle == At("fields") /\ st.phase = "broken" /\ UNCHANGED st

FieldsNext == ManageScriptName \/ SetField \/ SetPathInfo \/ SetUser \/ SetFile \/ FixPathInfo \/ FieldsIdle

-----------------------------------------------------------------------------
\* With --manage-script-name the mountpoint chosen is the longest one made of
\* whole segments of the path, and SCRIPT_NAME followed by PATH_INFO is the
\* path that arrived (mountpoints with a trailing slash set apart).
MountSplitsPath ==
    kind = "fields" =>
        LET Fits(m) == /\ Len(m) <= Len(st.orig) /\ SubSeq(st.orig, 1, Len(m)) = m
                       /\ Len(m) < Len(st.orig) => st.orig[Len(m) + 1] = "/"
            script == Shown(st.field.script)
            plain == \A i \in DOMAIN st.mounts : Len(st.mounts[i]) > 1 => ~TrailingSlash(st.mounts[i])
        IN  st.phase = "routes" /\ st.room = FieldRoom /\ plain =>
                /\ script \o Shown(st.field.path) = st.orig
                /\ script # <<>> => Fits(script)
                /\ \A i \in DOMAIN st.mounts :
                      Fits(st.mounts[i]) /\ st.mounts[i] # <<"/">> => Len(st.mounts[i]) <= Len(script)

\* The field the server acts on and the variable the application reads show
\* the same text after any sequence of rules, rules that could not append
\* included (a user with a colon and setfile set apart).
FieldIsVariable ==
    kind = "fields" =>
        \A n \in {"script", "path", "uri"} : Shown(st.field[n]) = Shown(st.var[n])

\* No sequence of fixpathinfo and set rules moves PATH_INFO outside the text
\* it points into, once it was inside.
PathStaysInside ==
    kind = "fields" => (~st.slash => st.field.path.from + st.field.path.len <= Len(st.field.path.base))
=============================================================================
