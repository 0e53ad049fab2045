-------------------------------- MODULE Apps --------------------------------
(***************************************************************************)
(* The applications of a worker and the Perl interpreters they run in      *)
(* (plugins/psgi/psgi_plugin.c, psgi_loader.c, upsgi_get_app_id and        *)
(* upsgi_add_app of core/utils.c).  The first application lives in the     *)
(* main interpreters, one per thread; every further one has interpreters   *)
(* of its own, which a thread makes current before it calls it.  A request *)
(* may name a script: its application is loaded under a lock and is        *)
(* visible to the other threads as soon as it is counted, before its       *)
(* stashes are there.                                                      *)
(*                                                                         *)
(* An interpreter is a pair: the application that made it (0 for the main  *)
(* ones) and the thread.  In async mode the cores share thread 0 and a     *)
(* response may be left unfinished.                                        *)
(***************************************************************************)
EXTENDS Bench, Integers, Sequences

CONSTANTS AppsCores,     \* threads, or async cores: 0..n
          AppsMounts,    \* names of applications; "" is the default one
          AppsMax        \* --max-apps

ThreadOf(s, c) == IF s.mode = "threads" THEN c ELSE 0

Main(t) == <<0, t>>

AppsIdle == [phase |-> "idle", appid |-> "", dynamic |-> FALSE, id |-> 0]

AppsInit ==
    /\ kind = "apps"
    /\ \E mode \in {"threads", "async"}, first \in BOOLEAN :
        st = [mode |-> mode,
              apps |-> IF first THEN <<[mount |-> "", interp |-> 0, done |-> TRUE]>> ELSE <<>>,
              default |-> IF first THEN 1 ELSE 0,
              ctx |-> [t \in AppsCores |-> Main(t)], lock |-> {}, misled |-> {},
              cores |-> [c \in AppsCores |-> AppsIdle]]

Core(c, phase) == [st.cores EXCEPT ![c].phase = phase]

\* Threads interleave at every step; an async core runs alone until its
\* request ends or is left unfinished.
Runs(c) ==
    /\ At("apps")
    /\ st.mode = "async" => \A d \in AppsCores \ {c} : st.cores[d].phase \in {"idle", "again"}

RequestArrives(c) ==
    /\ Runs(c)
    /\ st.cores[c].phase = "idle"
    /\ \E a \in AppsMounts, d \in BOOLEAN :
        st' = [st EXCEPT !.cores[c] = [phase |-> IF d /\ st.mode = "threads" THEN "lock" ELSE "lookup",
                                       appid |-> a, dynamic |-> d, id |-> 0]]

\* Mutant: the lock keeps nobody out.
LockFreeAlways(s, c) == TRUE

LockFree(s, c) == s.lock = {}

TakesLoaderLock(c) ==
    /\ Runs(c)
    /\ st.cores[c].phase = "lock" /\ LockFree(st, c)
    /\ st' = [st EXCEPT !.lock = @ \cup {c}, !.cores = Core(c, "lookup")]

\* upsgi_get_app_id: the first application with the name.  A script is loaded
\* when there is none, the default application serves the others.
GetAppId(s, name) ==
    LET hits == {i \in 1..Len(s.apps) : s.apps[i].mount = name}
    IN  IF hits = {} THEN 0 ELSE CHOOSE i \in hits : \A j \in hits : i <= j

LooksUp(s, c) == GetAppId(s, s.cores[c].appid)

Lookup(c) ==
    /\ Runs(c)
    /\ st.cores[c].phase = "lookup"
    /\ LET id == LooksUp(st, c)
       IN  st' = [st EXCEPT !.cores[c].id = id,
                            !.cores[c].phase = IF id = 0 /\ st.cores[c].dynamic THEN "load" ELSE "found"]

\* init_psgi_app up to upsgi_add_app: the code is evaluated in interpreters
\* of the application's own, unless it is the first one.  A failure leaves
\* the first main interpreter current, whatever the thread.
LoadFails(c) ==
    /\ Runs(c)
    /\ st.cores[c].phase = "load"
    /\ LET t == ThreadOf(st, c)
       IN  st' = [st EXCEPT !.ctx[t] = Main(0), !.cores = Core(c, "found"),
                            !.misled = (@ \cup {t}) \ {0}]

LoadPublishes(c) ==
    /\ Runs(c)
    /\ st.cores[c].phase = "load" /\ Len(st.apps) < AppsMax
    /\ LET n == Len(st.apps) + 1
           name == st.cores[c].appid
       IN  st' = [st EXCEPT !.apps = Append(@, [mount |-> name, interp |-> IF n = 1 THEN 0 ELSE n, done |-> FALSE]),
                            !.ctx[ThreadOf(st, c)] = <<IF n = 1 THEN 0 ELSE n, 0>>,
                            !.default = IF name = "" /\ @ = 0 THEN n ELSE @,
                            !.cores[c].id = n, !.cores[c].phase = "loading"]

\* The rest of upsgi_perl_add_app
LoadCompletes(c) ==
    /\ Runs(c)
    /\ st.cores[c].phase = "loading"
    /\ LET t == ThreadOf(st, c)
       IN  st' = [st EXCEPT !.apps[st.cores[c].id].done = TRUE, !.cores = Core(c, "found"),
                            !.ctx[t] = Main(0), !.misled = (@ \cup {t}) \ {0}]

Unlocked(s, c, id) == s.lock \ {c}

\* The default application, the end of the lock, and the error page where
\* there is none.
AppResolved(c) ==
    /\ Runs(c)
    /\ st.cores[c].phase = "found"
    /\ LET id == IF st.cores[c].id = 0 THEN st.default ELSE st.cores[c].id
       IN  st' = [st EXCEPT !.cores[c].id = id, !.lock = Unlocked(st, c, id),
                            !.cores[c].phase = IF id = 0 THEN "idle" ELSE "enter"]

Interp(s, c) == <<s.apps[s.cores[c].id].interp, ThreadOf(s, c)>>

IsMain(interp) == interp[1] = 0

\* The context is set unless the application runs in the main interpreter,
\* which is taken to be current.
Enter(c) ==
    /\ Runs(c)
    /\ st.cores[c].phase = "enter"
    /\ st' = [st EXCEPT !.cores = Core(c, "call"),
                        !.ctx[ThreadOf(st, c)] = IF IsMain(Interp(st, c)) THEN @ ELSE Interp(st, c),
                        !.misled = IF IsMain(Interp(st, c)) THEN @ ELSE @ \ {ThreadOf(st, c)}]

\* An async application leaves its response unfinished: the context stays.
Again(c) ==
    /\ Runs(c)
    /\ st.mode = "async" /\ st.cores[c].phase = "call"
    /\ st' = [st EXCEPT !.cores = Core(c, "again")]

\* The next chunk, or the end of the response: the context is not set again.
Resume(c) ==
    /\ Runs(c)
    /\ st.cores[c].phase = "again"
    /\ \E phase \in {"again", "after"} : st' = [st EXCEPT !.cores = Core(c, phase)]

\* "restore main interpreter if needed"
Restored(s, c) == IF IsMain(Interp(s, c)) THEN s.ctx[ThreadOf(s, c)] ELSE Main(ThreadOf(s, c))

\* The end of upsgi_perl_request; upsgi_perl_after_request follows.
Leave(c) ==
    /\ Runs(c)
    /\ st.cores[c].phase = "call"
    /\ st' = [st EXCEPT !.cores = Core(c, "after"), !.ctx[ThreadOf(st, c)] = Restored(st, c)]

\* The cleanup handlers run in the application's interpreter.
After(c) ==
    /\ Runs(c)
    /\ st.cores[c].phase = "after"
    /\ st' = [st EXCEPT !.cores = Core(c, "cleanup"),
                        !.ctx[ThreadOf(st, c)] = IF IsMain(Interp(st, c)) THEN @ ELSE Interp(st, c)]

AfterEnd(c) ==
    /\ Runs(c)
    /\ st.cores[c].phase = "cleanup"
    /\ st' = [st EXCEPT !.cores[c] = AppsIdle, !.ctx[ThreadOf(st, c)] = Restored(st, c)]

AppsNext ==
    \E c \in AppsCores :
        \/ RequestArrives(c) \/ TakesLoaderLock(c) \/ Lookup(c) \/ LoadFails(c) \/ LoadPublishes(c)
        \/ LoadCompletes(c) \/ AppResolved(c) \/ Enter(c) \/ Again(c) \/ Resume(c) \/ Leave(c) \/ After(c) \/ AfterEnd(c)

AppsTypeOK ==
    kind = "apps" =>
        /\ Len(st.apps) <= AppsMax /\ st.default \in 0..Len(st.apps)
        /\ \A t \in AppsCores : st.ctx[t][1] \in 0..AppsMax /\ st.ctx[t][2] \in AppsCores
        /\ st.lock \subseteq AppsCores

(***************************************************************************)
(* A thread calls an application, and its cleanup handlers, with the       *)
(* application's interpreter of that thread current, never with one        *)
(* another thread may be using.  Two situations are outside: a load leaves *)
(* the first thread's interpreter current whatever the thread, until it    *)
(* serves an application with interpreters of its own, and in async mode a *)
(* response left unfinished leaves its interpreter current.                *)
(***************************************************************************)
ContextOwn ==
    kind = "apps" =>
        \A c \in AppsCores :
            LET t == ThreadOf(st, c)
            IN  /\ st.cores[c].phase \in {"call", "cleanup"}
                /\ t \notin st.misled
                /\ st.mode = "threads"
                => st.ctx[t] = Interp(st, c)

(***************************************************************************)
(* Requests for the same script that arrive together load it once: the     *)
(* table holds one application per name, because the search and the        *)
(* loading happen under one lock.  (In async mode there is one thread.)    *)
(***************************************************************************)
LoadedOnce ==
    kind = "apps" =>
        \A i, j \in 1..Len(st.apps) : st.apps[i].mount = st.apps[j].mount => i = j

(***************************************************************************)
(* A request that went through the loader's lock finds an application with *)
(* everything it needs: the one that was being loaded is complete.  (A     *)
(* request that names no script reads the table without the lock, and may  *)
(* meet an application whose stashes are not there yet.)                   *)
(***************************************************************************)
FoundComplete ==
    kind = "apps" =>
        \A c \in AppsCores :
            st.cores[c].phase \in {"enter", "call"} /\ st.cores[c].dynamic => st.apps[st.cores[c].id].done

(***************************************************************************)
(* The loader's lock is held only by a request that is resolving its       *)
(* application: whatever the outcome, it is given back before the          *)
(* application runs, so no request waits for a response.                   *)
(***************************************************************************)
LoaderLockBrief ==
    kind = "apps" => \A c \in st.lock : st.cores[c].phase \in {"lookup", "load", "loading", "found"}
=============================================================================
