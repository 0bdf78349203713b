------------------------------- MODULE EraInv -------------------------------
(***************************************************************************)
(* The inductive invariant of EraRefCount, for a monitor that runs once    *)
(* every client has stopped (~Concurrent) and reads every row of the era   *)
(* matrix (MaxThread \notin Threads).  EraProofs proves it; the runs of    *)
(* MCEraRefCount check it first.                                           *)
(***************************************************************************)
EXTENDS EraRefCount

LinkPC   == {"read", "logged", "cased", "written"}
Stopping == {"redo", "recover"}

(* Where a thread stands determines its registers and its RootRef.         *)
LocOK(t) ==
  LET l == loc[t]
  IN /\ l.ref # Null => Owner[l.ref] = t
     /\ mode[t] \in Working => pc[t] \in ClientPC
     /\ mode[t] = "recover" => pc[t] \in MonitorPC
     /\ mode[t] = "gone" => /\ pc[t] = "idle"
                            /\ \A r \in Slots : Owner[r] = t => slot[r] = "local"
     /\ pc[t] \in {"idle", "scan"} => l.ref = Null
     /\ pc[t] \notin {"idle", "scan", "clear"} => l.ref # Null
     /\ pc[t] \in {"clear", "tbr", "obj"} /\ l.ref # Null =>
          slot[l.ref] = "used" /\ ref[l.ref] = Null
     /\ pc[t] \in {"pptr", "taken"} =>
          slot[l.ref] = "pending" /\ ref[l.ref] = l.obj
     /\ pc[t] \in LinkPC =>
          /\ l.obj # Null /\ l.op \in {"link", "unlink"} /\ slot[l.ref] = "used"
          /\ l.op = "link" =>
               /\ l.src # Null /\ l.src # l.ref
               /\ ref[l.ref] = IF pc[t] = "written" THEN l.obj ELSE Null
          /\ l.op = "unlink" =>
               ref[l.ref] = IF pc[t] = "written" THEN Null ELSE l.obj
     /\ pc[t] \in {"free", "unlinked"} =>
          /\ l.obj # Null /\ l.op = "unlink"
          /\ slot[l.ref] = "used" /\ ref[l.ref] = Null
     /\ pc[t] \in {"rread", "rcased"} =>
          /\ l.obj # Null /\ l.op = "unlink"
          /\ slot[l.ref] = "used" /\ ref[l.ref] = l.obj
     /\ l.src # Null => pc[t] \in LinkPC /\ l.op = "link"
LocInv == \A t \in Threads : LocOK(t)

(* The reference a linking client relies on stays where it is.             *)
PinInv ==
  \A t \in Threads :
    mode[t] = "live" /\ loc[t].src # Null =>
      /\ slot[loc[t].src] = "used" /\ ref[loc[t].src] = loc[t].obj
      /\ \A u \in Threads : loc[u].ref # loc[t].src

(* Blocks without a header belong to the pool or to one pending RootRef.   *)
BlankInv ==
  /\ \A o \in pool : info[o] = ZeroInfo
  /\ \A r \in Slots : slot[r] = "pending" =>
       /\ ref[r] # Null /\ ref[r] \notin pool /\ info[ref[r]] = ZeroInfo
       /\ \A q \in Slots : slot[q] = "pending" /\ ref[q] = ref[r] => q = r

(* Who dropped the last reference is alone with the block until it is free.*)
DropsLast(t) ==
  \/ mode[t] \in Working /\ pc[t] = "free"
  \/ /\ loc[t].op = "unlink" /\ loc[t].saw.cnt = 1
     /\ \/ mode[t] \in {"live", "crashed"} /\ pc[t] \in {"cased", "written"}
        \/ pc[t] = "rcased"
LastInv ==
  \A t \in Threads :
    DropsLast(t) => info[loc[t].obj].lcid = t /\ info[loc[t].obj].cnt = 0

(* No header, row or register holds an era of t that t has not used yet;   *)
(* the current one is used between the swap and the tick.                  *)
Past(t) == mode[t] \notin Working \/ pc[t] \in {"cased", "written"}
Used(t, e) == e < Era(t) \/ (e = Era(t) /\ Past(t))
BoundInv ==
  \A t \in Threads :
    /\ Era(t) > 0
    /\ \A o \in Objs : info[o].lcid = t => Used(t, info[o].lenum)
    /\ \A u \in Threads : u # t => Used(t, era[u][t])
    /\ \A u \in Threads : loc[u].saw.lcid = t => Used(t, loc[u].saw.lenum)

(* What is published before a swap, and what remains of a swap afterwards. *)
PublishInv ==
  /\ \A t \in Threads :
       mode[t] = "live" /\ pc[t] = "logged" /\ loc[t].saw.lcid \in Threads
         => era[t][loc[t].saw.lcid] >= loc[t].saw.lenum
  /\ \A t \in Threads :
       mode[t] \in {"live", "crashed"} /\ pc[t] = "taken" =>
         loc[t].saw.lcid = t /\ loc[t].saw.cnt = 1
TraceInv ==
  \A t \in Threads :
    mode[t] \in Working /\ pc[t] \in {"cased", "written"} =>
      \/ info[loc[t].obj].lcid = t /\ info[loc[t].obj].lenum = Era(t)
      \/ \E u \in Threads : u # t /\ era[u][t] >= Era(t)

(* The log: one line per era; the line of the operation under way is whole *)
(* and is the last; an older line agrees with the RootRef it names, unless *)
(* that RootRef is out of reach until the log is cleared.                  *)
Agrees(e) == \/ slot[e.ref] = "local"
             \/ slot[e.ref] = "used"
                  /\ ref[e.ref] = IF e.func = "link" THEN e.refed ELSE Null
LogInv ==
  \A t \in Threads :
    /\ \A i \in RedoIndex :
         redo[t][i].func # "none" =>
           /\ redo[t][i].era \in 1..Era(t) /\ i = Line(redo[t][i].era)
           /\ redo[t][i].ref # Null /\ Owner[redo[t][i].ref] = t
           /\ redo[t][i].refed # Null
    /\ \A i \in RedoIndex : redo[t][i].func = "none" => redo[t][i].era = 0
WholeInv ==
  \A t \in Threads :
    /\ mode[t] \in Working /\ pc[t] \in {"logged", "cased", "written"} =>
         redo[t][Line(Era(t))] = [func |-> loc[t].op, era |-> Era(t),
                                      ref |-> loc[t].ref, refed |-> loc[t].obj]
    /\ mode[t] \in Working /\ pc[t] \in {"free", "unlinked"} =>
         redo[t][Line(Era(t) - 1)] =
           [func |-> "unlink", era |-> Era(t) - 1,
            ref |-> loc[t].ref, refed |-> loc[t].obj]
StaleLine(t, i) ==
  /\ slot[redo[t][i].ref] \in {"used", "local"}
  /\ redo[t][i].era = Era(t) => pc[t] \in LinkPC
  /\ \/ redo[t][i].era = Era(t)
     \/ Agrees(redo[t][i])
     \/ /\ pc[t] \in {"written", "free", "unlinked"}
        /\ loc[t].op = "unlink" /\ redo[t][i].ref = loc[t].ref
  /\ redo[t][i].ref = loc[t].ref /\ slot[loc[t].ref] = "used" =>
       \/ pc[t] \in LinkPC /\ (loc[t].op = "unlink" \/ redo[t][i].era = Era(t))
       \/ pc[t] \in {"free", "unlinked"}
StaleInv ==
  \A t \in Threads, i \in RedoIndex :
    mode[t] \in Working /\ redo[t][i].func # "none" => StaleLine(t, i)

(* The monitor: alone, and looking at a header nobody changes.             *)
MonitorInv ==
  /\ \A t \in Threads : mode[t] \in Stopping =>
       \A u \in Threads : mode[u] # "live" /\ (mode[u] \in Stopping => u = t)
  /\ \A t \in Threads, i \in RedoIndex :
       mode[t] = "redo" /\ IsLast(t, i) /\ redo[t][i].func # "none" =>
         loc[t].saw.lcid = info[redo[t][i].refed].lcid

IInv == /\ TypeOK /\ LocInv /\ PinInv /\ BlankInv /\ CountExact /\ LastInv
        /\ BoundInv /\ PublishInv /\ TraceInv /\ LogInv /\ WholeInv
        /\ StaleInv /\ MonitorInv

(* For NoLeak: between its swap and the end of its call, a running client  *)
(* need not look after its object: the object is free, or referenced, or   *)
(* in the hands of who took it or dropped its last reference.              *)
Has(t) == \/ pc[t] \in {"pptr", "taken", "free"}
          \/ /\ pc[t] \in {"cased", "written", "rcased"}
             /\ loc[t].op = "unlink" /\ loc[t].saw.cnt = 1
Safe(o) == \/ o \in pool
           \/ \E r \in Slots : eff[r] = o
           \/ \E t \in Threads : Has(t) /\ loc[t].obj = o
HandInv == \A t \in Threads :
             mode[t] = "live" /\ pc[t] \in {"cased", "written"} => Safe(loc[t].obj)
LeakInv == IInv /\ HandInv
=============================================================================
