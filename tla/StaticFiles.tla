---------------------------- MODULE StaticFiles ----------------------------
(***************************************************************************)
(* Static files: the rule that intercepts a request (the end of            *)
(* upsgi_parse_vars in core/protocol.c) and the file server behind it      *)
(* (core/static.c), while the file system changes under them and paths     *)
(* that were resolved before are cached.                                   *)
(*                                                                         *)
(* A request names one path under the root.  It is a regular file, a       *)
(* directory that may hold an index, or missing; it is itself what it      *)
(* resolves to (inside), or a link to something outside of the root or     *)
(* with an extension that is not served.  A file has two versions of       *)
(* different size and time, and may have a compressed variant beside it.   *)
(***************************************************************************)
EXTENDS Bench, Integers, FiniteSetsExt

CONSTANTS StaticRanges,    \* ranges a request may ask for: [p, from, to]
          StaticChanges    \* changes of the file system during a request, at most

NoRange == [p |-> "none", from |-> 0, to |-> 0]

\* What the file system holds under the path.
Missing == [name |-> "missing", class |-> "inside", var |-> "none", ver |-> 0, index |-> FALSE]
Trees ==
    {Missing}
        \cup {[Missing EXCEPT !.name = "file", !.class = c, !.ver = v] : c \in {"inside", "outside", "blocked"}, v \in 0..1}
        \cup {[Missing EXCEPT !.name = "file", !.var = r] : r \in {"gz", "both"}}
        \cup {[Missing EXCEPT !.name = "dir", !.index = i, !.class = c] : i \in BOOLEAN, c \in {"inside", "outside"}}

\* The sizes tell the files apart.
Size(what, ver) == CASE what = "name" -> 5 + ver [] what = "index" -> 4 [] what = "br" -> 2 [] what = "gz" -> 3

\* ims and ifr: the dates of If-Modified-Since and If-Range, as the version
\* that they are of, and -1 where there is none.
Requests ==
    {[method |-> m, ims |-> i, ifr |-> d, range |-> r, enc |-> e] :
        m \in {"GET", "HEAD", "POST"}, i \in -1..0, d \in -1..0, r \in StaticRanges \cup {NoRange}, e \in {"no", "gzip", "both"}}

\* One feature of a request at a time.
Simple(r) ==
    /\ r.ifr # -1 => r.range # NoRange
    /\ Cardinality({x \in {"ims", "range", "enc"} : CASE x = "ims" -> r.ims # -1
                                                     [] x = "range" -> r.range # NoRange
                                                     [] x = "enc" -> r.enc # "no"}) <= 1

NoFile == [what |-> "none", size |-> 0, ver |-> 0, class |-> "inside"]
File(what, ver, class) == [what |-> what, size |-> Size(what, ver), ver |-> ver, class |-> class]
NoPath == [base |-> "none", class |-> "inside"]
NoReply == [code |-> 0, len |-> 0, from |-> 0, ranged |-> FALSE, enc |-> "no", body |-> NoFile]

StaticIdle ==
    [phase |-> "idle", real |-> NoPath, hit |-> FALSE, refreshed |-> FALSE, fd |-> NoFile, stat |-> NoFile,
     enc |-> "no", range |-> NoRange, fast |-> FALSE, full |-> FALSE, reply |-> NoReply]

\* turned: the path became a link after it was resolved (a history variable).
StaticInit ==
    /\ kind = "static"
    /\ \E tree \in Trees, rule \in {"check", "map"}, cached \in BOOLEAN, there \in BOOLEAN, r \in Requests :
        /\ Simple(r)
        /\ st = [tree |-> tree, rule |-> rule, root |-> "unresolved", there |-> there, caching |-> cached,
                 cache |-> NoPath, req |-> r, changes |-> 0, turned |-> FALSE, w |-> StaticIdle]

\* Somebody changes what is under the path, or the root appears.
FsChange ==
    /\ At("static")
    /\ st.changes < StaticChanges
    /\ \/ \E tree \in Trees \ {st.tree} :
            st' = [st EXCEPT !.tree = tree, !.changes = @ + 1, !.turned = @ \/ tree.class # "inside"]
       \/ ~st.there /\ st' = [st EXCEPT !.there = TRUE, !.changes = @ + 1]

To(phase) == [st.w EXCEPT !.phase = phase]

\* check-static builds the path again with the next request, static-map has
\* lost its value.
RootMissing(rule) == IF rule = "check" THEN "unresolved" ELSE "lost"

\* The rule of the request: its root is resolved when it is first needed.
StaticRoot ==
    /\ At("static")
    /\ st.w.phase = "idle"
    /\ LET root == IF st.root # "unresolved" THEN st.root
                   ELSE IF st.there THEN "resolved" ELSE RootMissing(st.rule)
       IN  st' = [st EXCEPT !.root = root, !.changes = 0,
                            !.w = [StaticIdle EXCEPT !.phase = IF root = "resolved" THEN "resolve" ELSE "declined"]]

Declined(s) == [s EXCEPT !.w.phase = "declined"]

\* realpath(): a path that does not exist resolves to nothing.
Realpath(s) == [base |-> "name", class |-> s.tree.class]


\* "found:" comes before the containment check.
FoundInCache(s) == "check"

\* From the method to "found": the cache holds what was resolved before, also
\* what is then refused.
StaticResolve ==
    /\ At("static")
    /\ st.w.phase = "resolve"
    /\ st' = IF st.req.method = "POST" THEN Declined(st)
             ELSE IF st.caching /\ ~st.w.refreshed /\ st.cache # NoPath
                  THEN [st EXCEPT !.w.real = st.cache, !.w.hit = TRUE, !.w.phase = FoundInCache(st)]
             ELSE IF st.tree.name = "missing" THEN Declined(st)
             ELSE [st EXCEPT !.w.real = Realpath(st), !.w.phase = "check", !.turned = FALSE,
                             !.cache = IF st.caching THEN Realpath(st) ELSE @]

\* Containment and the extensions that are not served.
StaticCheck ==
    /\ At("static")
    /\ st.w.phase = "check"
    /\ st' = IF st.w.real.class = "inside" THEN [st EXCEPT !.w.phase = "open"] ELSE Declined(st)

\* The resolved path leads where it led, or, if it was no link and is one now,
\* where the link leads: open() and stat() follow it.
Leads(s) == s.w.real.class \in {"inside", s.tree.class}

\* The regular file under the resolved path.
Named(s) ==
    CASE Leads(s) /\ s.w.real.base = "name" /\ s.tree.name = "file" -> File("name", s.tree.ver, s.tree.class)
      [] Leads(s) /\ s.w.real.base = "index" /\ s.tree.name = "dir" /\ s.tree.index -> File("index", 0, s.tree.class)
      [] OTHER -> NoFile

\* upsgi_static_try_open_regular, for GET only.
StaticOpen ==
    /\ At("static")
    /\ st.w.phase = "open"
    /\ st' = IF st.req.method = "GET" /\ Named(st) # NoFile
             THEN [st EXCEPT !.w.fd = Named(st), !.w.stat = Named(st), !.w.phase = "routes"]
             ELSE [st EXCEPT !.w.phase = "stat"]

\* The directory's index, if the resolved path is the directory.
Index(s) ==
    /\ Leads(s) /\ s.w.real.base = "name"
    /\ s.tree.name = "dir" /\ s.tree.index

\* A path that was in the cache and leads nowhere is resolved again.
Refreshed(s) ==
    IF s.w.hit /\ ~s.w.refreshed
    THEN [s EXCEPT !.w.refreshed = TRUE, !.w.hit = FALSE, !.w.phase = "resolve"]
    ELSE Declined(s)

\* upsgi_static_stat, the new PATH_INFO (for which there may be no room) and
\* the extension of the index.
StaticStat ==
    /\ At("static")
    /\ st.w.phase = "stat"
    /\ IF Named(st) # NoFile THEN st' = [st EXCEPT !.w.stat = Named(st), !.w.phase = "routes"]
       ELSE IF Index(st)
       THEN LET s == [st EXCEPT !.w.real.base = "index",
                                !.cache = IF st.caching THEN [base |-> "index", class |-> st.w.real.class] ELSE @,
                                !.w.stat = File("index", 0, st.tree.class)]
            IN  st' \in {[s EXCEPT !.w.phase = "routes"], [Declined(s) EXCEPT !.w.full = TRUE]}
       ELSE st' = Refreshed(st)

\* The routing rules may answer instead; the file is closed then.
StaticRoutes ==
    /\ At("static")
    /\ st.w.phase = "routes"
    /\ \E break \in BOOLEAN :
        st' = IF break THEN [st EXCEPT !.w.fd = NoFile, !.w.phase = "done", !.w.reply.code = 1]
              ELSE [st EXCEPT !.w.phase = "variant"]

Variants(s) == IF s.tree.var = "both" THEN {"br", "gz"} ELSE IF s.tree.var = "gz" THEN {"gz"} ELSE {}

\* upsgi_static_want_gzip: brotli comes first.
Variant(s) ==
    CASE s.w.stat.what # "name" \/ s.req.enc = "no" -> "no"
      [] s.w.stat.what = "name" /\ s.req.enc = "both" /\ "br" \in Variants(s) -> "br"
      [] s.w.stat.what = "name" /\ s.req.enc # "no" /\ ~(s.req.enc = "both" /\ "br" \in Variants(s))
            /\ "gz" \in Variants(s) -> "gz"
      [] OTHER -> "no"

VariantFd(s) == IF Variant(s) = "no" THEN s.w.fd ELSE NoFile

StaticVariant ==
    /\ At("static")
    /\ st.w.phase = "variant"
    /\ LET v == Variant(st)
       IN  st' = [st EXCEPT !.w.enc = v, !.w.fd = VariantFd(st), !.w.phase = "head",
                            !.w.fast = VariantFd(st) # NoFile,
                            !.w.stat = IF v = "no" THEN @ ELSE File(v, 0, st.tree.class)]

\* upsgi_fix_range_for_size
FixRange(range, size) ==
    IF range.p # "parsed" THEN range
    ELSE LET from == IF range.from < 0 THEN size + range.from ELSE range.from
             to == IF range.to > size - 1 THEN size - 1 ELSE range.to
         IN  IF from = 0 /\ to = size - 1 THEN [p |-> "none", from |-> 0, to |-> to]
             ELSE IF to >= from THEN [p |-> "valid", from |-> from, to |-> to]
             ELSE [p |-> "invalid", from |-> 0, to |-> 0]

\* The head of the answer (upsgi_real_file_serve up to the transfer).  With an
\* If-Range that is not older than the file it is the head of the whole file,
\* and the range stays.
StaticHead ==
    /\ At("static")
    /\ st.w.phase = "head"
    /\ LET r == FixRange(st.req.range, st.w.stat.size)
           whole == [NoReply EXCEPT !.code = 200, !.len = st.w.stat.size, !.enc = st.w.enc, !.ranged = r.p = "valid",
                                    !.from = IF r.p = "valid" THEN r.from ELSE 0]
       IN  st' = IF st.req.ims # -1 /\ st.w.stat.ver <= st.req.ims
                 THEN [st EXCEPT !.w.phase = "done", !.w.reply.code = 304]
                 ELSE IF r.p = "invalid" THEN [st EXCEPT !.w.phase = "done", !.w.reply.code = 416]
                 ELSE [st EXCEPT !.w.phase = IF st.req.method = "HEAD" THEN "done" ELSE "send", !.w.range = r,
                                 !.w.reply = IF r.p = "valid" /\ st.req.ifr < st.w.stat.ver
                                             THEN [whole EXCEPT !.code = 206, !.len = r.to - r.from + 1]
                                             ELSE whole]

\* The transfer; a file that was not kept open is opened now, and without it
\* the request goes on to the application.
StaticSend ==
    /\ At("static")
    /\ st.w.phase = "send"
    /\ LET now == IF st.w.enc # "no"
                  THEN IF st.tree.name = "file" /\ st.w.enc \in Variants(st) THEN File(st.w.enc, 0, st.tree.class) ELSE NoFile
                  ELSE Named(st)
           file == IF st.w.fd # NoFile THEN st.w.fd ELSE now
       IN  st' = IF file = NoFile THEN Declined(st)
                 ELSE [st EXCEPT !.w.phase = "done", !.w.reply.body = file, !.w.fd = NoFile]

\* The request is over, the next one comes.
StaticEnd ==
    /\ At("static")
    /\ st.w.phase \in {"done", "declined"}
    /\ \E r \in Requests :
        Simple(r) /\ st' = [st EXCEPT !.w = StaticIdle, !.req = r, !.changes = 0]

StaticNext ==
    \/ FsChange \/ StaticRoot \/ StaticResolve \/ StaticCheck \/ StaticOpen \/ StaticStat \/ StaticRoutes
    \/ StaticVariant \/ StaticHead \/ StaticSend \/ StaticEnd

StaticTypeOK ==
    kind = "static" =>
        /\ st.tree \in Trees /\ st.req \in Requests
        /\ st.root \in {"unresolved", "resolved", "lost"}
        /\ st.w.reply.code \in {0, 1, 200, 206, 304, 416}

(***************************************************************************)
(* The length and the encoding that were announced are those of the file   *)
(* that is sent: always when the file was opened before it was measured,   *)
(* and on the other paths unless the tree changed in between.  Only an     *)
(* If-Range which says that the client's copy is still good has the whole  *)
(* length announced, and the file sent from the begin of the range.        *)
(***************************************************************************)
AnnouncedIsSent ==
    kind = "static" /\ st.w.phase = "done" /\ st.w.reply.body # NoFile /\ (st.w.fast \/ st.changes = 0) =>
        /\ st.w.reply.code = 200 => st.w.reply.len = st.w.reply.body.size
        /\ st.w.reply.from + st.w.reply.len <= st.w.reply.body.size \/ (st.w.reply.code = 200 /\ st.req.ifr >= st.w.reply.body.ver)
        /\ st.w.reply.enc = "no" <=> st.w.reply.body.what \in {"name", "index"}

(***************************************************************************)
(* The bytes of a partial answer exist: they begin and end inside the      *)
(* file.  (A suffix longer than the file is outside: it is not cut to the  *)
(* file's size.)                                                           *)
(***************************************************************************)
RangeInside ==
    kind = "static" /\ st.w.reply.code = 206 /\ st.req.range.from >= -st.w.stat.size =>
        /\ st.w.reply.from >= 0 /\ st.w.reply.len > 0
        /\ st.w.reply.from + st.w.reply.len <= st.w.stat.size

(***************************************************************************)
(* A file outside the root, or one that is not to be served, is not sent,  *)
(* also when its path comes from the cache: paths are cached before they   *)
(* are checked.  The one exception is a path that became a link after it   *)
(* was resolved, by this request or, with a cache, by an earlier one.      *)
(***************************************************************************)
RefusedNotSent ==
    kind = "static" /\ st.w.reply.body.class # "inside" =>
        st.turned /\ (st.caching \/ st.changes > 0)

\* A file the request could be answered with.
Servable(s) == s.tree.class = "inside" /\ (s.tree.name = "file" \/ (s.tree.name = "dir" /\ s.tree.index))

(***************************************************************************)
(* A stale path in the cache hides no file: while nothing changes, a       *)
(* request that is handed to the application had no file to answer it.     *)
(* (A cached path that is refused is not resolved again before it          *)
(* expires.)                                                               *)
(***************************************************************************)
CacheHidesNothing ==
    kind = "static" /\ st.w.phase = "declined" /\ st.changes = 0 /\ st.req.method # "POST"
        /\ ~st.w.full /\ st.root = "resolved" /\ st.cache.class = "inside" => ~Servable(st)

(***************************************************************************)
(* A check-static root that was not there yet is found by the first        *)
(* request after it appeared.                                              *)
(***************************************************************************)
RootFoundLater ==
    kind = "static" /\ st.rule = "check" /\ st.w.phase = "declined" /\ st.root # "resolved" =>
        ~st.there \/ st.changes > 0
=============================================================================
