---------------------------- MODULE ChainRespawn ----------------------------
(***************************************************************************)
(* Chain reloading, part 2: the burial of a worker and its respawn, step   *)
(* by step, where the chain moves on.                                      *)
(***************************************************************************)
EXTENDS ChainMaster

\* So do the burial of a worker and its respawn.
LEMMA ChainBurials ==
    ASSUME IInv,
           BuryUnknown
           \/ (\E w \in Workers : BuryNeedApp(w) \/ BuryStopping(w) \/ BuryBrutal(w) \/ BuryCheaped(w) \/ BuryRespawn(w))
           \/ ForkBombDelay \/ RespawnReset \/ RespawnReturn \/ Fork \/ SetPid \/ EventsNothing \/ GracefulWait
    PROVE  CInv'
<1>i. TypeOK /\ Control /\ SlotOfPid /\ PendingIsLive /\ EveryWorkerKnown /\ FreshIsLast /\ TodoVacant /\ BuriedIsReaped
  BY DEF IInv, TInv, KInv
<1>j. StoppedAreTold /\ TodoEmpty /\ UpAccepts /\ OnlyVictimsGo /\ VictimIsLast /\ OneVictim /\ ~isCheap
  BY DEF IInv, CInv
<1>t. /\ slot \in [Procs -> Workers] /\ st \in [Procs -> States] /\ pid \in [Workers -> 0..lastPid]
      /\ out \subseteq Workers /\ todo \subseteq Workers /\ lastPid \in Nat
  BY <1>i DEF TypeOK
<1>b. accepting \in [Workers -> BOOLEAN] /\ cursed \in [Workers -> BOOLEAN] /\ cheaped \in [Workers -> BOOLEAN]
  BY <1>i DEF TypeOK
<1> USE <1>i, <1>j
<1>0. todo # {} => Min(todo) \in todo /\ Min(todo) \in Workers
  <2>1. todo \in SUBSET Nat
    BY <1>t DEF Workers
  <2> QED
    BY Zenon, <1>t, <2>1, MinInSet
<1>13. CASE BuryUnknown
  <2>1. /\ UNCHANGED <<setup, pid, cheaped, cursed, accepting, manage, lastPid, slot, st, sig, dying, reloading, chain, isCheap, todo, deaths, out>>
        /\ mpc = "bury" /\ mpc' = "death" /\ died' = 0
    BY <1>13 DEF BuryUnknown, slotVars, procVars, statusVars, masterVars, boundVars
  <2>2. StoppedAreTold'
    BY <2>1, StoppedFrame DEF Spawning
  <2>3. TodoEmpty'
    BY <1>t, <2>1 DEF TodoEmpty, Procs, Control, Spawning
  <2>4. UpAccepts'
    BY <2>1, UpFrame
  <2>5. OnlyVictimsGo'
    BY <1>t, <2>1 DEF OnlyVictimsGo, Untouched, Calm, Stopping, Procs, Live
  <2>6. VictimIsLast'
    BY <2>1, LastFrame DEF Spawning
  <2>7. OneVictim'
    BY <2>1, OneFrame
  <2> QED
    BY <2>1, <2>2, <2>3, <2>4, <2>5, <2>6, <2>7 DEF CInv
<1>14. ASSUME NEW w \in Workers, BuryNeedApp(w) PROVE CInv'
  <2>1. /\ UNCHANGED <<setup, cheaped, accepting, manage, lastPid, slot, st, reloading, chain, isCheap, todo, deaths, out>>
        /\ mpc = "bury" /\ mpc' = "death" /\ died' = 0 /\ Stopping'
        /\ pid' = [pid EXCEPT ![w] = 0]
    BY <1>14 DEF BuryNeedApp, Stopping, slotVars, procVars, statusVars, masterVars, boundVars
  <2>a. Curse(Recorded \ {w}, "INT") \/ (Stopping /\ cursed' = cursed)
    BY <1>14 DEF BuryNeedApp, Unasked, Stopping
  <2>b. ASSUME NEW v \in Workers, pid'[v] # 0 PROVE cursed'[v]
    <3>1. v \in Recorded \ {w}
      BY <1>t, <2>1, <2>b DEF Recorded
    <3> QED
      BY <3>1, <2>a, CurseTells DEF StoppedAreTold
  <2>2. StoppedAreTold'
    BY Zenon, <2>1, <2>b DEF StoppedAreTold, Stopping, Recorded, Spawning
  <2>3. TodoEmpty'
    BY <1>t, <2>1 DEF TodoEmpty, Procs, Control, Spawning
  <2>4. UpAccepts'
    BY <2>1, UpFrame
  <2>5. OnlyVictimsGo'
    BY <1>t, <2>1 DEF OnlyVictimsGo, Untouched, Calm, Stopping, Procs, Live
  <2>6. VictimIsLast'
    BY <1>t, <2>1 DEF VictimIsLast, Tracked, Calm, Stopping, Spawning, Control
  <2>7. OneVictim'
    BY <2>1, OneFrame
  <2> QED
    BY <2>1, <2>2, <2>3, <2>4, <2>5, <2>6, <2>7 DEF CInv
<1>15. ASSUME NEW w \in Workers, BuryStopping(w) PROVE CInv'
  <2>1. /\ UNCHANGED <<setup, cheaped, accepting, manage, lastPid, slot, st, sig, dying, reloading, chain, isCheap, todo, deaths, out>>
        /\ mpc = "bury" /\ mpc' = "death" /\ died' = 0 /\ Stopping
        /\ pid' = [pid EXCEPT ![w] = 0]
        /\ cursed' = [cursed EXCEPT ![w] = FALSE]
    BY <1>15 DEF BuryStopping, slotVars, procVars, statusVars, masterVars, boundVars
  <2>2. StoppedAreTold'
    BY <1>t, <2>1 DEF StoppedAreTold, Stopping, Recorded, Spawning
  <2>3. TodoEmpty'
    BY <1>t, <2>1 DEF TodoEmpty, Procs, Control, Spawning
  <2>4. UpAccepts'
    BY <2>1, UpFrame
  <2>5. OnlyVictimsGo'
    BY <1>t, <2>1 DEF OnlyVictimsGo, Untouched, Calm, Stopping, Procs, Live
  <2>6. VictimIsLast'
    BY <1>t, <2>1 DEF VictimIsLast, Tracked, Calm, Stopping, Spawning, Control
  <2>7. OneVictim'
    BY <2>1, OneFrame
  <2> QED
    BY <2>1, <2>2, <2>3, <2>4, <2>5, <2>6, <2>7 DEF CInv
<1>16. ASSUME NEW w \in Workers, BuryBrutal(w) PROVE CInv'
  <2>1. /\ UNCHANGED <<setup, cheaped, accepting, manage, lastPid, slot, st, dying, chain, isCheap, todo, deaths, out>>
        /\ mpc = "bury" /\ mpc' = "death" /\ died' = 0 /\ Stopping'
        /\ pid' = [pid EXCEPT ![w] = 0]
    BY <1>16 DEF BuryBrutal, Stopping, slotVars, procVars, statusVars, masterVars, boundVars
  <2>a. Curse(Recorded \ {w}, "INT") \/ (Stopping /\ cursed' = cursed)
    BY <1>16 DEF BuryBrutal, Stopping
  <2>b. ASSUME NEW v \in Workers, pid'[v] # 0 PROVE cursed'[v]
    <3>1. v \in Recorded \ {w}
      BY <1>t, <2>1, <2>b DEF Recorded
    <3> QED
      BY <3>1, <2>a, CurseTells DEF StoppedAreTold
  <2>2. StoppedAreTold'
    BY <2>1, <2>b DEF StoppedAreTold, Stopping, Recorded, Spawning
  <2>3. TodoEmpty'
    BY <1>t, <2>1 DEF TodoEmpty, Procs, Control, Spawning
  <2>4. UpAccepts'
    BY <2>1, UpFrame
  <2>5. OnlyVictimsGo'
    BY <1>t, <2>1 DEF OnlyVictimsGo, Untouched, Calm, Stopping, Procs, Live
  <2>6. VictimIsLast'
    BY <1>t, <2>1 DEF VictimIsLast, Tracked, Calm, Stopping, Spawning, Control
  <2>7. OneVictim'
    BY <2>1, OneFrame
  <2> QED
    BY <2>1, <2>2, <2>3, <2>4, <2>5, <2>6, <2>7 DEF CInv
<1>17. ASSUME NEW w \in Workers, BuryCheaped(w) PROVE CInv'
  <2>1. /\ UNCHANGED <<setup, cursed, accepting, manage, lastPid, slot, st, sig, dying, reloading, chain, isCheap, todo, deaths>>
        /\ mpc = "bury" /\ mpc' = "death" /\ died' = 0 /\ out' = out \ {w}
        /\ pid' = [pid EXCEPT ![w] = 0]
        /\ cheaped' = [cheaped EXCEPT ![w] = TRUE]
    BY <1>17 DEF BuryCheaped, slotVars, procVars, statusVars, masterVars, boundVars
  <2>2. StoppedAreTold'
    BY <1>t, <2>1 DEF StoppedAreTold, Stopping, Recorded, Spawning
  <2>3. TodoEmpty'
    BY <1>t, <2>1 DEF TodoEmpty, Procs, Control, Spawning
  <2>4. UpAccepts'
    BY <2>1, UpFrame
  <2>5. OnlyVictimsGo'
    <3>1. ASSUME Calm, NEW q \in Procs PROVE Untouched(q)'
      <4>1. Untouched(q) /\ slot[q] \in Workers /\ q # 0
        BY <1>t, <3>1 DEF OnlyVictimsGo, Procs
      <4>2. CASE slot[q] = w
        <5>1. cheaped'[w]
          BY <1>b, <2>1
        <5> QED
          BY <5>1, <4>1, <4>2, <2>1 DEF Untouched
      <4>3. CASE slot[q] # w
        <5>1. cheaped'[slot[q]] = cheaped[slot[q]] /\ (slot[q] \in out' <=> slot[q] \in out)
          BY <1>b, <4>1, <4>3, <2>1
        <5> QED
          BY <5>1, <4>1, <2>1 DEF Untouched
      <4> QED
        BY <4>2, <4>3
    <3> QED
      BY <3>1, <2>1 DEF OnlyVictimsGo, Calm, Stopping, Procs
  <2>6. VictimIsLast'
    BY <1>t, <2>1 DEF VictimIsLast, Tracked, Calm, Stopping, Spawning, Control
  <2>7. OneVictim'
    BY <1>t, <2>1 DEF OneVictim
  <2> QED
    BY <2>1, <2>2, <2>3, <2>4, <2>5, <2>6, <2>7 DEF CInv
<1>18. ASSUME NEW w \in Workers, BuryRespawn(w) PROVE CInv'
  <2>1. /\ UNCHANGED <<setup, cheaped, cursed, accepting, manage, lastPid, slot, st, sig, dying, reloading, chain, isCheap, deaths, out>>
        /\ mpc = "bury" /\ mpc' = "sleep" /\ died' = 0 /\ todo' = {w}
        /\ pid' = [pid EXCEPT ![w] = 0]
        /\ pid[w] = died /\ ~Stopping /\ ~cheaped[w]
    BY <1>18 DEF BuryRespawn, slotVars, procVars, statusVars, masterVars, boundVars
  <2>a. died \in Procs /\ slot[died] = w /\ st[died] = "reaped"
    <3>1. died # 0 /\ died \in 0..lastPid
      BY <1>t, <2>1 DEF Control
    <3>2. died \in Procs
      BY <1>t, <3>1 DEF Procs
    <3> QED
      BY Zenon, <2>1, <3>1, <3>2 DEF SlotOfPid, BuriedIsReaped
  <2>b. Calm => w \in out /\ accepting[w]
    <3>1. Calm => Untouched(died)
      BY <2>a DEF OnlyVictimsGo
    <3>2. ~(st[died] \in Live) /\ ~cheaped[slot[died]]
      BY <2>1, <2>a DEF Live
    <3> QED
      BY <3>1, <3>2, <2>a, Zenon DEF Untouched
  <2>2. StoppedAreTold'
    BY <2>1 DEF StoppedAreTold, Stopping, Recorded, Spawning
  <2>3. TodoEmpty'
    <3>1. Min({w}) = w
      BY MinInSet, {w} \in SUBSET Nat DEF Workers
    <3>2. pid'[w] = 0 /\ 0 \notin Procs
      BY <1>t, <2>1 DEF Procs
    <3> QED
      BY <3>1, <3>2, <2>1 DEF TodoEmpty, Procs
  <2>4. UpAccepts'
    BY <2>1, UpFrame
  <2>5. OnlyVictimsGo'
    <3>1. ASSUME Calm, NEW q \in Procs PROVE Untouched(q)'
      <4>1. Untouched(q)
        BY <3>1 DEF OnlyVictimsGo
      <4> QED
        BY <1>t, <4>1, <3>1, <2>1 DEF Untouched, Procs
    <3> QED
      BY SMTT(30), <3>1, <2>1 DEF OnlyVictimsGo, Calm, Stopping, Procs
  <2>6. VictimIsLast'
    <3>1. ASSUME Calm, NEW u \in out PROVE Tracked(u)'
      <4>1. Tracked(u) /\ u \in Workers
        BY <1>t, <3>1 DEF VictimIsLast
      <4>2. CASE u = w
        BY <4>1, <4>2, <3>1, <2>1, <2>b DEF Tracked
      <4>3. CASE u # w
        <5>1. pid'[u] = pid[u]
          BY <1>t, <4>1, <4>3, <2>1
        <5> QED
          BY <5>1, <4>1, <4>3, <2>1 DEF Tracked, Spawning
      <4> QED
        BY <4>2, <4>3
    <3> QED
      BY Zenon, <3>1, <2>1, <2>b DEF VictimIsLast, Calm, Stopping
  <2>7. OneVictim'
    BY <2>1, OneFrame
  <2> QED
    BY <2>1, <2>2, <2>3, <2>4, <2>5, <2>6, <2>7 DEF CInv
<1>19. CASE ForkBombDelay
  <2>1. /\ UNCHANGED <<setup, pid, cheaped, cursed, accepting, manage, lastPid, slot, st, sig, dying, reloading, isCheap, died, todo, deaths, out>>
        /\ mpc = "sleep" /\ mpc' = "spawn"
        /\ chain' = IF chain \in todo THEN chain + 1 ELSE chain
    BY <1>19 DEF ForkBombDelay, slotVars, procVars, statusVars, masterVars, boundVars
  <2>a. ASSUME Calm, NEW u \in out, ~cheaped[u] PROVE u \in todo => chain = u
    BY <2>1, <2>a DEF VictimIsLast, Tracked, Spawning
  <2>b. ASSUME Calm, NEW u \in out, ~cheaped[u], chain \in todo PROVE chain = u
    <3>1. chain \in out /\ ~cheaped[chain]
      BY <2>1, <2>b DEF VictimIsLast
    <3> QED
      BY <3>1, <2>b DEF OneVictim, Calm
  <2>2. StoppedAreTold'
    BY <2>1, StoppedFrame DEF Spawning
  <2>3. TodoEmpty'
    BY <2>1, TodoFrame
  <2>4. UpAccepts'
    BY <2>1, UpFrame
  <2>5. OnlyVictimsGo'
    BY <2>1, GoFrame
  <2>6. VictimIsLast'
    <3>1. ASSUME Calm, NEW u \in out PROVE Tracked(u)'
      <4>1. CASE cheaped[u]
        BY <4>1, <3>1, <2>1 DEF VictimIsLast, Tracked
      <4>2. CASE ~cheaped[u] /\ chain \in todo
        <5>1. chain = u /\ chain' = u + 1 /\ u \in todo
          BY SMTT(30), <4>2, <3>1, <2>1, <2>b
        <5> QED
          BY <5>1, <4>2, <2>1 DEF Tracked, Spawning
      <4>3. CASE ~cheaped[u] /\ chain \notin todo
        <5>1. chain' = chain /\ u \notin todo
          BY <4>3, <3>1, <2>1, <2>a
        <5> QED
          BY <5>1, <4>3, <3>1, <2>1 DEF Tracked, VictimIsLast
      <4> QED
        BY <4>1, <4>2, <4>3
    <3> QED
      BY <3>1, <2>1 DEF VictimIsLast, Calm, Stopping
  <2>7. OneVictim'
    BY <2>1, OneFrame
  <2> QED
    BY <2>1, <2>2, <2>3, <2>4, <2>5, <2>6, <2>7 DEF CInv
<1>20. CASE RespawnReset
  <2>w. PICK w : w = Min(todo)
    BY SMTT(30)
  <2>1. /\ UNCHANGED <<setup, pid, manage, lastPid, slot, st, sig, dying, reloading, chain, isCheap, died, todo, deaths, out>>
        /\ mpc = "spawn" /\ mpc' = "fork" /\ w \in todo /\ w \in Workers
        /\ accepting' = [accepting EXCEPT ![w] = FALSE]
        /\ cursed' = [cursed EXCEPT ![w] = FALSE]
        /\ cheaped' = [cheaped EXCEPT ![w] = FALSE]
    BY <1>20, <1>0, <2>w DEF RespawnReset, slotVars, procVars, statusVars, masterVars, boundVars
  <2>a. \A p \in Procs : st[p] # "reaped" \/ p = died => slot[p] # w
    BY <2>1 DEF TodoVacant, Control, Procs
  <2>b. pid[w] = 0 /\ ~Stopping /\ w = Min(todo)
    BY Zenon, <2>1, <2>w DEF TodoEmpty, StoppedAreTold, Spawning
  <2>c. Calm /\ w \in out => ~cheaped[w] /\ chain = w + 1
    BY <2>1, <2>b DEF VictimIsLast, Tracked
  <2>2. StoppedAreTold'
    BY <2>1, <2>b DEF StoppedAreTold, Stopping, Recorded, Spawning
  <2>3. TodoEmpty'
    <3>1. ~accepting'[w] /\ ~cursed'[w] /\ ~cheaped'[w] /\ \A v \in Workers \ {w} : cheaped'[v] = cheaped[v]
      BY <1>b, <2>1
    <3>2. \A v \in todo : pid'[v] = 0 /\ (v = w \/ cheaped'[v])
      BY <1>t, <3>1, <2>1, <2>b DEF TodoEmpty
    <3> QED
      BY Zenon, <3>1, <3>2, <2>1, <2>b DEF TodoEmpty, Procs
  <2>4. UpAccepts'
    BY SMTT(30), <1>t, <2>1 DEF UpAccepts, Procs
  <2>5. OnlyVictimsGo'
    BY <1>t, <2>1, <2>a DEF OnlyVictimsGo, Untouched, Calm, Stopping, Procs, Live
  <2>6. VictimIsLast'
    <3>1. ASSUME Calm, NEW u \in out, u # w PROVE Tracked(u)'
      <4>1. Tracked(u) /\ u \in Workers
        BY Zenon, <1>t, <3>1 DEF VictimIsLast
      <4>2. (cheaped'[u] <=> cheaped[u]) /\ (accepting'[u] <=> accepting[u]) /\ (cursed'[u] <=> cursed[u])
        BY SMTT(30), <1>b, <4>1, <3>1, <2>1
      <4>3. u \notin todo
        BY <4>1, <3>1, <2>1, <2>w DEF TodoEmpty, Tracked
      <4> QED
        BY <4>1, <4>2, <4>3, <2>1 DEF Tracked, Spawning
    <3>2. ASSUME Calm, w \in out PROVE Tracked(w)'
      <4>1. chain = w + 1 /\ ~cheaped'[w] /\ ~accepting'[w]
        BY <1>b, <2>c, <3>2, <2>1
      <4> QED
        BY <4>1, <2>1 DEF Tracked, Spawning
    <3> QED
      BY SMTT(30), <3>1, <3>2, <2>1 DEF VictimIsLast, Calm, Stopping
  <2>7. OneVictim'
    BY <1>t, <2>1, <2>b, <2>c DEF OneVictim, Calm
  <2> QED
    BY <2>1, <2>2, <2>3, <2>4, <2>5, <2>6, <2>7 DEF CInv
<1>21. CASE RespawnReturn
  <2>1. /\ UNCHANGED <<setup, pid, cheaped, cursed, accepting, manage, lastPid, slot, st, sig, dying, reloading, chain, isCheap, died, todo, deaths, out>>
        /\ mpc = "spawn" /\ todo = {} /\ mpc' \in {"death", "waitpid"}
    BY Zenon, <1>21 DEF RespawnReturn, TypeOK, slotVars, procVars, statusVars, masterVars, boundVars
  <2>2. StoppedAreTold'
    BY <2>1, StoppedFrame DEF Spawning
  <2>3. TodoEmpty'
    BY <2>1, TodoFrame
  <2>4. UpAccepts'
    BY <2>1, UpFrame
  <2>5. OnlyVictimsGo'
    BY SMTT(30), <2>1, GoFrame
  <2>6. VictimIsLast'
    BY <2>1 DEF VictimIsLast, Tracked, Calm, Stopping, Spawning
  <2>7. OneVictim'
    BY SMTT(30), <2>1, OneFrame
  <2> QED
    BY <2>1, <2>2, <2>3, <2>4, <2>5, <2>6, <2>7 DEF CInv
<1>22. CASE Fork
  <2>n. PICK n : n = lastPid + 1
    OBVIOUS
  <2>1. /\ UNCHANGED <<setup, pid, cheaped, cursed, accepting, manage, dying, reloading, chain, isCheap, died, todo, deaths, out>>
        /\ mpc = "fork" /\ mpc' = "setpid" /\ todo # {}
        /\ lastPid' = n /\ Procs' = Procs \cup {n}
        /\ slot'[n] = Min(todo) /\ st'[n] = "forked" /\ sig'[n] = {}
        /\ \A p \in Procs : slot'[p] = slot[p] /\ st'[p] = st[p] /\ sig'[p] = sig[p]
    <3>1. /\ UNCHANGED <<setup, pid, cheaped, cursed, accepting, manage, dying, reloading, chain, isCheap, died, todo, deaths, out>>
          /\ mpc = "fork" /\ mpc' = "setpid" /\ lastPid' = n
          /\ slot' = Extend(slot, Min(todo)) /\ st' = Extend(st, "forked") /\ sig' = Extend(sig, {})
      BY ZenonT(30), <1>22, <2>n DEF Fork, slotVars, statusVars, boundVars
    <3>2. todo # {}
      BY SMTT(30), <3>1 DEF Control
    <3>3. Procs' = Procs \cup {n} /\ n \notin Procs
      BY <1>t, <3>1, <2>n DEF Procs
    <3>4. slot \in [Procs -> Workers] /\ st \in [Procs -> States] /\ sig \in [Procs -> SUBSET {"INT", "HUP", "KILL"}]
      BY Shapes DEF IInv
    <3> QED
      BY Zenon, <1>t, <3>1, <3>2, <3>3, <3>4, <2>n DEF Extend, Procs
  <2>a. Min(todo) \in Workers /\ ~accepting[Min(todo)] /\ ~cursed[Min(todo)] /\ ~cheaped[Min(todo)]
    BY <2>1, <1>0, ZenonT(30) DEF TodoEmpty
  <2>b. died = 0 /\ 0 \notin Procs /\ n # 0 /\ n \notin Procs
    BY <1>t, <2>1, <2>n DEF Control, Procs
  <2>2. StoppedAreTold'
    BY Zenon, <2>1, StoppedFrame DEF Spawning
  <2>3. TodoEmpty'
    BY Zenon, <1>t, <2>1, <2>a, <2>b DEF TodoEmpty, Procs, Control, Spawning
  <2>4. UpAccepts'
    BY Zenon, <2>1, <2>a DEF UpAccepts
  <2>5. OnlyVictimsGo'
    <3>1. ASSUME Calm, NEW p \in Procs PROVE Untouched(p)'
      BY ZenonT(30), <3>1, <2>1 DEF OnlyVictimsGo, Untouched
    <3>2. Untouched(n)'
      BY <2>1, <2>a DEF Untouched, Live
    <3> QED
      BY Zenon, <3>1, <3>2, <2>1 DEF OnlyVictimsGo, Calm, Stopping
  <2>6. VictimIsLast'
    BY Zenon, <2>1 DEF VictimIsLast, Tracked, Calm, Stopping, Spawning
  <2>7. OneVictim'
    BY Zenon, <2>1, OneFrame
  <2> QED
    BY <2>1, <2>2, <2>3, <2>4, <2>5, <2>6, <2>7 DEF CInv
<1>23. CASE SetPid
  <2>1. /\ UNCHANGED <<setup, cheaped, cursed, accepting, manage, lastPid, slot, st, sig, dying, reloading, chain, isCheap, died, deaths, out>>
        /\ mpc = "setpid" /\ mpc' = "spawn" /\ todo # {}
        /\ pid' = [pid EXCEPT ![Min(todo)] = lastPid] /\ todo' = todo \ {Min(todo)}
    BY <1>23 DEF SetPid, Control, slotVars, procVars, statusVars, masterVars, boundVars
  <2>a. Min(todo) \in Workers /\ died = 0 /\ 0 \notin Procs /\ lastPid # 0
    BY <2>1, <1>0 DEF Control, Procs, FreshIsLast
  <2>2. StoppedAreTold'
    BY SMTT(30), <2>1, <2>a DEF StoppedAreTold, Stopping, Recorded, Spawning
  <2>3. TodoEmpty'
    <3>1. \A v \in todo' : pid'[v] = 0 /\ cheaped[v]
      BY <1>t, <2>1 DEF TodoEmpty
    <3>2. \A v \in todo' : pid'[v] = 0 /\ (v = Min(todo') \/ cheaped'[v])
      BY Zenon, <3>1, <2>1
    <3>3. mpc' # "fork" /\ died' \notin Procs'
      BY <2>1, <2>a DEF Procs
    <3> QED
      BY Zenon, <3>2, <3>3 DEF TodoEmpty
  <2>4. UpAccepts'
    BY <2>1, UpFrame
  <2>5. OnlyVictimsGo'
    BY SMTT(30), <2>1, GoFrame
  <2>6. VictimIsLast'
    <3>1. ASSUME Calm, NEW u \in out PROVE Tracked(u)'
      <4>1. Tracked(u) /\ u \in Workers
        BY <1>t, <3>1 DEF VictimIsLast
      <4>2. u \in todo => u = Min(todo)
        BY <4>1 DEF TodoEmpty, Tracked
      <4>3. CASE u = Min(todo)
        <5>1. pid'[u] # 0 /\ pid[u] = 0
          BY Zenon, <1>t, <4>3, <2>1, <2>a, <1>0 DEF TodoEmpty
        <5> QED
          BY <5>1, <4>1, <2>1 DEF Tracked
      <4>4. CASE u # Min(todo)
        <5>1. pid'[u] = pid[u] /\ u \notin todo
          BY <1>t, <4>4, <4>1, <4>2, <2>1
        <5> QED
          BY Zenon, <5>1, <4>1, <2>1 DEF Tracked
      <4> QED
        BY SMTT(30), <4>3, <4>4
    <3> QED
      BY <3>1, <2>1 DEF VictimIsLast, Calm, Stopping
  <2>7. OneVictim'
    BY SMTT(30), <2>1, OneFrame
  <2> QED
    BY SMTT(30), <2>1, <2>2, <2>3, <2>4, <2>5, <2>6, <2>7 DEF CInv
<1>24. CASE EventsNothing
  BY <1>24, ChainFrame DEF EventsNothing, Spawning, slotVars, procVars, statusVars, masterVars, boundVars
<1>25. CASE GracefulWait
  <2>1. /\ UNCHANGED <<setup, cheaped, cursed, accepting, manage, lastPid, slot, sig, dying, reloading, chain, isCheap, died, todo, deaths, out>>
        /\ mpc = "gwait" /\ dying /\ mpc' \in {"death", "gwait"} /\ died = 0 /\ todo = {}
        /\ \A w \in Workers : pid'[w] \in {0, pid[w]}
        /\ \A p \in Procs : st'[p] \in {st[p], "reaped"}
    BY Zenon, <1>25 DEF GracefulWait, StoppedAreTold, Control, Spawning, slotVars, procVars, statusVars, masterVars, boundVars
  <2>2. StoppedAreTold'
    BY Zenon, <2>1 DEF StoppedAreTold, Stopping, Recorded, Spawning
  <2>3. TodoEmpty'
    BY Zenon, <1>t, <2>1 DEF TodoEmpty, Procs, Control, Spawning
  <2>4. UpAccepts'
    BY Zenon, <1>t, <2>1 DEF UpAccepts, Procs
  <2>5. OnlyVictimsGo'
    BY ZenonT(30), <1>t, <2>1 DEF OnlyVictimsGo, Untouched, Calm, Stopping, Procs, Live
  <2>6. VictimIsLast'
    BY <1>t, <2>1 DEF VictimIsLast, Tracked, Calm, Stopping, Spawning, Control
  <2>7. OneVictim'
    BY Zenon, <2>1, OneFrame
  <2> QED
    BY Zenon, <2>1, <2>2, <2>3, <2>4, <2>5, <2>6, <2>7 DEF CInv
<1> QED
  BY Zenon, <1>13, <1>14, <1>15, <1>16, <1>17, <1>18, <1>19, <1>20, <1>21, <1>22, <1>23, <1>24, <1>25
=============================================================================
