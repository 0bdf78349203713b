----------------------------- MODULE EraProofs -----------------------------
(***************************************************************************)
(* IInv is an inductive invariant of EraRefCount, for any set of threads,  *)
(* objects and RootRefs and any length of the log, as long as the monitor  *)
(* runs after the clients (~Concurrent) and reads every row of the matrix  *)
(* (MaxThread \notin Threads).  One lemma per action; its step <1>a says   *)
(* what becomes of the eras, <1>r where the thread stands, <1>l and <1>c   *)
(* what the action leaves alone and what it changes; then each conjunct    *)
(* the action can disturb has a step, and the others share the last ones.  *)
(***************************************************************************)
EXTENDS EraInv, TLAPS, FiniteSetTheorems

-----------------------------------------------------------------------------
(* What the operators of EraRefCount return, frames (steps that disturb no *)
(* conjunct of the inductive invariant), counting, and the decision of     *)
(* redo_ref_cnt.                                                           *)

(* The registers of a thread form a record of five fields.                 *)
LEMMA LocalsField ==
  ASSUME NEW l \in Locals
  PROVE  /\ \A r \in Slots \cup {Null} : [l EXCEPT !.ref = r] \in Locals
         /\ \A o \in Objs \cup {Null} : [l EXCEPT !.obj = o] \in Locals
         /\ \A s \in Info : [l EXCEPT !.saw = s] \in Locals
BY DEF Locals

(* Every header packed from a thread id, a count and an era is an Info.    *)
LEMMA InfoRecord ==
  ASSUME NEW t \in Threads \cup {0}, NEW c \in Nat, NEW e \in Nat
  PROVE  [lcid |-> t, cnt |-> c, lenum |-> e] \in Info
BY DEF Info

(* The zero header and the cleared registers are well typed.               *)
LEMMA NullTypes ==
  ZeroInfo \in Info /\ NoLocals \in Locals /\ NoEntry \in Entry
BY DEF ZeroInfo, NoLocals, NoEntry, Info, Locals, Entry

(* tls->era[tid]++ changes one element of the matrix.                      *)
LEMMA TickType ==
  ASSUME TypeOK, NEW t \in Threads, era' = Tick(t)
  PROVE  /\ era' \in [Threads -> [Threads -> Nat]]
         /\ \A u, v \in Threads :
              era'[u][v] = IF u = t /\ v = t THEN era[t][t] + 1 ELSE era[u][v]
BY DEF TypeOK, Tick

(* era() raises one element of the thread's own row and nothing else.      *)
LEMMA PublishType ==
  ASSUME TypeOK, NEW t \in Threads, NEW s \in Info, era' = Publish(t, s)
  PROVE  /\ era' \in [Threads -> [Threads -> Nat]]
         /\ \A u, v \in Threads :
              /\ era'[u][v] >= era[u][v]
              /\ \/ era'[u][v] = era[u][v]
                 \/ u = t /\ v = s.lcid /\ era'[u][v] = s.lenum /\ s.lenum > era[u][v]
         /\ s.lcid \in Threads => era'[t][s.lcid] >= s.lenum
<1>1. s.lcid \in Threads \cup {0} /\ s.lenum \in Nat
  BY DEF Info
<1>2. CASE s.lcid \in Threads /\ s.lenum > era[t][s.lcid]
  BY <1>1, <1>2 DEF TypeOK, Publish
<1>3. CASE ~(s.lcid \in Threads /\ s.lenum > era[t][s.lcid])
  BY <1>1, <1>3 DEF TypeOK, Publish
<1>4. QED
  BY <1>2, <1>3

(* While no line of a log is written, eras that only grow keep LogInv.     *)
LEMMA LogFrame ==
  ASSUME TypeOK, LogInv,
         \A t \in Threads : Era(t)' \in Nat /\ Era(t)' >= Era(t),
         \A t \in Threads, i \in RedoIndex : redo'[t][i] \in {redo[t][i], NoEntry}
  PROVE  LogInv'
<1>1. \A t \in Threads : Era(t) \in Nat
  BY DEF TypeOK, Era
<1>2. \A t \in Threads, i \in RedoIndex : redo[t][i].era \in Nat
  BY DEF TypeOK, Entry
<1>3. ASSUME NEW t \in Threads, NEW i \in RedoIndex, redo'[t][i].func # "none"
      PROVE  /\ redo'[t][i].era \in 1..Era(t)' /\ i = Line(redo'[t][i].era)
             /\ redo'[t][i].ref # Null /\ Owner[redo'[t][i].ref] = t
             /\ redo'[t][i].refed # Null
  BY <1>1, <1>2, <1>3 DEF LogInv, NoEntry
<1>4. ASSUME NEW t \in Threads, NEW i \in RedoIndex, redo'[t][i].func = "none"
      PROVE  redo'[t][i].era = 0
  BY <1>4 DEF LogInv, NoEntry
<1>5. QED
  BY <1>3, <1>4 DEF LogInv

(* BoundInv survives a step that writes only used eras to headers, rows    *)
(* and registers.                                                          *)
LEMMA BoundFrame ==
  ASSUME TypeOK, BoundInv,
         \A t \in Threads : \/ Era(t)' > Era(t) /\ Era(t)' \in Nat
                            \/ Era(t)' = Era(t) /\ (Past(t) => Past(t)'),
         \A o \in Objs : \/ info'[o] = info[o]
                         \/ info'[o].lcid \notin Threads
                         \/ Used(info[o].lcid, info[o].lenum)',
         \A t, u \in Threads : u # t => \/ era'[u][t] = era[u][t]
                                        \/ era'[u][t] \in Nat /\ Used(t, era'[u][t])
                                        \/ Used(t, era[u][t])',
         \A u \in Threads : \/ loc'[u].saw = loc[u].saw
                            \/ loc'[u].saw.lcid \notin Threads
                            \/ \E o \in Objs : loc'[u].saw = info[o]
                            \/ Used(loc[u].saw.lcid, loc[u].saw.lenum)'
  PROVE  BoundInv'
<1>1. \A t \in Threads : Era(t) \in Nat
  BY DEF TypeOK, Era
<1>2. \A t \in Threads, e \in Nat : Used(t, e) => Used(t, e)'
  BY <1>1 DEF Used
<1>3. /\ \A o \in Objs : info[o].lenum \in Nat
      /\ \A u, v \in Threads : era[u][v] \in Nat
      /\ \A u \in Threads : loc[u].saw.lenum \in Nat
  BY DEF TypeOK, Info, Locals
<1>4. ASSUME NEW t \in Threads
      PROVE  Era(t)' > 0
  BY <1>1 DEF BoundInv
<1>5. ASSUME NEW t \in Threads, NEW o \in Objs, info'[o].lcid = t
      PROVE  Used(t, info[o].lenum)'
  BY <1>2, <1>3, <1>5 DEF BoundInv
<1>6. ASSUME NEW t \in Threads, NEW u \in Threads, u # t
      PROVE  Used(t, era[u][t])'
  BY <1>2, <1>3, <1>6 DEF BoundInv
<1>7. ASSUME NEW t \in Threads, NEW u \in Threads, loc'[u].saw.lcid = t
      PROVE  Used(t, loc[u].saw.lenum)'
  BY <1>2, <1>3, <1>7 DEF BoundInv
<1>8. QED
  BY <1>4, <1>5, <1>6, <1>7 DEF BoundInv

(* TraceInv survives a step that publishes the era of every header it      *)
(* overwrites.                                                             *)
LEMMA TraceFrame ==
  ASSUME TypeOK, TraceInv,
         \A u, t \in Threads : era'[u][t] \in Nat /\ era'[u][t] >= era[u][t],
         \A t \in Threads :
           mode'[t] \in Working /\ pc'[t] \in {"cased", "written"} =>
             \/ info'[loc'[t].obj].lcid = t /\ info'[loc'[t].obj].lenum = era'[t][t]
             \/ /\ mode[t] \in Working /\ pc[t] \in {"cased", "written"}
                /\ loc'[t].obj = loc[t].obj /\ era'[t][t] = era[t][t]
                /\ \/ info'[loc[t].obj] = info[loc[t].obj]
                   \/ info[loc[t].obj].lcid # t
                   \/ \E u \in Threads :
                        u # t /\ era'[u][t] >= info[loc[t].obj].lenum
  PROVE  TraceInv'
<1>1. \A u, t \in Threads : era[u][t] \in Nat
  BY DEF TypeOK
<1>2. ASSUME NEW t \in Threads,
             mode'[t] \in Working /\ pc'[t] \in {"cased", "written"},
             ~(info'[loc'[t].obj].lcid = t /\ info'[loc'[t].obj].lenum = era'[t][t])
      PROVE  \E u \in Threads : u # t /\ era'[u][t] >= era'[t][t]
  <2>1. CASE \E u \in Threads : u # t /\ era[u][t] >= era[t][t]
    BY <1>1, <1>2, <2>1
  <2>2. CASE info[loc[t].obj].lcid = t /\ info[loc[t].obj].lenum = era[t][t]
    BY <1>2, <2>2
  <2>3. QED
    BY <1>2, <2>1, <2>2 DEF TraceInv, Era
<1>3. QED
  BY <1>2 DEF TraceInv, Era

(* The references to an object are finitely many RootRefs.                 *)
LEMMA RefsFinite ==
  ASSUME NEW o
  PROVE  IsFiniteSet(Refs(o)) /\ IsFiniteSet(Refs(o)')
<1>1. Refs(o) \in SUBSET Slots /\ Refs(o)' \in SUBSET Slots
  BY DEF Refs
<1>2. QED
  BY <1>1, FS_Subset, DataAssumption

(* One more RootRef that counts adds one to the references of its object   *)
(* only.                                                                   *)
LEMMA CountAdd ==
  ASSUME TypeOK, CountExact, NEW r \in Slots, NEW o \in Objs,
         eff[r] = Null,
         \A q \in Slots : eff'[q] = IF q = r THEN o ELSE eff[q],
         \A p \in Objs : info'[p].cnt = IF p = o THEN info[p].cnt + 1 ELSE info[p].cnt
  PROVE  CountExact'
<1>1. \A p \in Objs : p # o => Refs(p)' = Refs(p)
  BY DataAssumption DEF Refs
<1>2. Refs(o)' = Refs(o) \cup {r} /\ r \notin Refs(o)
  BY DataAssumption DEF Refs
<1>3. Cardinality(Refs(o)') = Cardinality(Refs(o)) + 1
  BY <1>2, RefsFinite, FS_AddElement
<1>4. QED
  BY <1>1, <1>3 DEF CountExact

(* One RootRef less that counts takes one from the references of its       *)
(* object only.                                                            *)
LEMMA CountRemove ==
  ASSUME TypeOK, CountExact, NEW r \in Slots, NEW o \in Objs,
         eff[r] = o,
         \A q \in Slots : eff'[q] = IF q = r THEN Null ELSE eff[q],
         \A p \in Objs : info'[p].cnt = IF p = o THEN info[p].cnt - 1 ELSE info[p].cnt
  PROVE  CountExact'
<1>1. \A p \in Objs : p # o => Refs(p)' = Refs(p)
  BY DataAssumption DEF Refs
<1>2. Refs(o)' = Refs(o) \ {r} /\ r \in Refs(o)
  BY DataAssumption DEF Refs
<1>3. Cardinality(Refs(o)') = Cardinality(Refs(o)) - 1
  BY <1>2, RefsFinite, FS_RemoveElement
<1>4. QED
  BY <1>1, <1>3 DEF CountExact

(* A count of zero means no RootRef counts.                                *)
LEMMA Unreferenced ==
  ASSUME CountExact, NEW o \in Objs
  PROVE  info[o].cnt = 0 <=> \A q \in Slots : eff[q] # o
<1>1. Cardinality(Refs(o)) = 0 <=> Refs(o) = {}
  BY RefsFinite, FS_EmptySet
<1>2. QED
  BY <1>1 DEF CountExact, Refs

(* tls->era[tid] % redo_cnt is a line of the log.                          *)
LEMMA LineType ==
  ASSUME NEW n \in Nat
  PROVE  Line(n) \in RedoIndex
BY BoundsAssumption DEF Line, RedoIndex

(* So it is for the eras of a thread, current and last.                    *)
LEMMA LineOfThread ==
  ASSUME TypeOK, BoundInv, NEW u \in Threads
  PROVE  /\ era[u][u] \in Nat /\ era[u][u] - 1 \in Nat
         /\ Line(era[u][u]) \in RedoIndex /\ Line(era[u][u] - 1) \in RedoIndex
<1>1. era[u][u] \in Nat /\ era[u][u] - 1 \in Nat
  BY DEF TypeOK, BoundInv, Era
<1>2. QED
  BY <1>1, LineType

(* Two lines of a log have different eras: the scan of redo_ref_cnt finds  *)
(* one.                                                                    *)
LEMMA LastUnique ==
  ASSUME TypeOK, NEW t \in Threads, NEW i \in RedoIndex, NEW j \in RedoIndex,
         IsLast(t, i), IsLast(t, j)
  PROVE  i = j
<1>1. redo[t][i].era \in Nat /\ redo[t][j].era \in Nat
  BY DEF TypeOK, Entry
<1>2. i \in Int /\ j \in Int
  BY BoundsAssumption DEF RedoIndex
<1>3. QED
  BY <1>1, <1>2 DEF IsLast

(* redo_ref_cnt reads the row of every thread.                             *)
LEMMA Rows ==
  ASSUME MaxThread \notin Threads, NEW t \in Threads
  PROVE  ScannedRows(t) = Threads \ {t}
<1>1. \A u \in Threads : u \in 0..(MaxThread - 1)
  BY ThreadsAssumption
<1>2. QED
  BY <1>1 DEF ScannedRows

(* While an operation is under way the last line of the log is its own.    *)
LEMMA LastLine ==
  ASSUME IInv, NEW t \in Threads, NEW i \in RedoIndex, IsLast(t, i), mode[t] \in Working
  PROVE  /\ pc[t] \in {"logged", "cased", "written"} =>
              redo[t][i] = [func |-> loc[t].op, era |-> Era(t),
                            ref |-> loc[t].ref, refed |-> loc[t].obj]
         /\ pc[t] \in {"free", "unlinked"} =>
              redo[t][i] = [func |-> "unlink", era |-> Era(t) - 1,
                            ref |-> loc[t].ref, refed |-> loc[t].obj]
<1>0. TypeOK /\ BoundInv /\ LogInv /\ WholeInv /\ StaleInv
  BY DEF IInv
<1>1. /\ era[t][t] \in Nat /\ era[t][t] - 1 \in Nat
      /\ Line(era[t][t]) \in RedoIndex /\ Line(era[t][t] - 1) \in RedoIndex
  BY <1>0, LineOfThread
<1>2. \A j \in RedoIndex : redo[t][j].era \in Nat
  BY <1>0 DEF TypeOK, Entry
<1>3. \A j \in RedoIndex : redo[t][j].era <= redo[t][i].era
  BY DEF IsLast
<1>4. redo[t][i].func = "none" => redo[t][i].era = 0
  BY <1>0 DEF LogInv
<1>5. redo[t][i].func # "none" =>
        redo[t][i].era <= era[t][t] /\ i = Line(redo[t][i].era)
  BY <1>0 DEF LogInv, Era
<1>6. ASSUME pc[t] \in {"logged", "cased", "written"}
      PROVE  redo[t][i] = [func |-> loc[t].op, era |-> Era(t),
                           ref |-> loc[t].ref, refed |-> loc[t].obj]
  <2>1. redo[t][Line(era[t][t])] = [func |-> loc[t].op, era |-> era[t][t],
                                    ref |-> loc[t].ref, refed |-> loc[t].obj]
    BY <1>0, <1>6 DEF WholeInv, Era
  <2>2. redo[t][i].era >= era[t][t] /\ era[t][t] > 0
    BY <1>0, <1>1, <1>3, <2>1 DEF BoundInv, Era
  <2>3. redo[t][i].era = era[t][t] /\ i = Line(redo[t][i].era)
    BY <1>1, <1>2, <1>4, <1>5, <2>2
  <2>4. QED
    BY <2>1, <2>3 DEF Era
<1>7. ASSUME pc[t] \in {"free", "unlinked"}
      PROVE  redo[t][i] = [func |-> "unlink", era |-> Era(t) - 1,
                           ref |-> loc[t].ref, refed |-> loc[t].obj]
  <2>1. redo[t][Line(era[t][t] - 1)] = [func |-> "unlink", era |-> era[t][t] - 1,
                                        ref |-> loc[t].ref, refed |-> loc[t].obj]
    BY <1>0, <1>7 DEF WholeInv, Era
  <2>2. redo[t][i].era >= era[t][t] - 1
    BY <1>1, <1>3, <2>1
  <2>3. CASE redo[t][i].func # "none"
    <3>1. redo[t][i].era # era[t][t]
      BY <1>0, <1>7, <2>3 DEF StaleInv, StaleLine, LinkPC, Era
    <3>2. redo[t][i].era = era[t][t] - 1 /\ i = Line(redo[t][i].era)
      BY <1>1, <1>2, <1>5, <2>2, <2>3, <3>1
    <3>3. QED
      BY <2>1, <3>2 DEF Era
  <2>4. CASE redo[t][i].func = "none"
    <3>1. era[t][t] - 1 \in 1..era[t][t]
      BY <1>0, <1>1, <2>1 DEF LogInv, Era
    <3>2. QED
      BY <1>1, <1>4, <2>2, <2>4, <3>1
  <2>5. QED
    BY <2>3, <2>4
<1>8. QED
  BY <1>6, <1>7

(* Before the swap neither the header nor a row holds the era of the log:  *)
(* no redo.                                                                *)
LEMMA BeforeSwap ==
  ASSUME IInv, NEW t \in Threads, NEW i \in RedoIndex, mode[t] \in Working,
         pc[t] \notin {"cased", "written"},
         redo[t][i].func # "none", redo[t][i].era = Era(t)
  PROVE  LET e == redo[t][i]
         IN  ~NeedRedo(t, e, info[e.refed].lcid, info[e.refed].lenum)
<1>0. TypeOK /\ BoundInv /\ LogInv
  BY DEF IInv
<1>1. ~Past(t) /\ era[t][t] \in Nat /\ redo[t][i].refed \in Objs
  BY <1>0 DEF Past, TypeOK, LogInv, Entry
<1>2. ~(info[redo[t][i].refed].lcid = t /\ info[redo[t][i].refed].lenum = era[t][t])
  BY <1>0, <1>1 DEF BoundInv, Used, Era, TypeOK, Info
<1>3. \A u \in Threads \ {t} : era[u][t] \in Nat /\ era[u][t] < era[t][t]
  BY <1>0, <1>1 DEF BoundInv, Used, Era, TypeOK
<1>4. ScannedRows(t) \subseteq Threads \ {t}
  BY DEF ScannedRows
<1>5. QED
  BY <1>1, <1>2, <1>3, <1>4 DEF NeedRedo, Era

(* After the swap the header or a row holds it: redo.                      *)
LEMMA AfterSwap ==
  ASSUME MaxThread \notin Threads,
         IInv, NEW t \in Threads, mode[t] \in Working, pc[t] \in {"cased", "written"},
         NEW i \in RedoIndex, IsLast(t, i)
  PROVE  LET e == redo[t][i]
         IN  NeedRedo(t, e, info[e.refed].lcid, info[e.refed].lenum)
<1>1. redo[t][i] = [func |-> loc[t].op, era |-> Era(t),
                    ref |-> loc[t].ref, refed |-> loc[t].obj]
  BY LastLine
<1>2. \/ info[loc[t].obj].lcid = t /\ info[loc[t].obj].lenum = Era(t)
      \/ \E u \in Threads : u # t /\ era[u][t] >= Era(t)
  BY DEF IInv, TraceInv
<1>3. QED
  BY <1>1, <1>2, Rows DEF NeedRedo

(* Where no memory passes from one thread to another, the redo writes the  *)
(* RootRef its log names and no other.                                     *)
LEMMA StoreOwn ==
  ASSUME OwnMemory, TypeOK, NEW r \in Slots, NEW o \in Objs \cup {Null}
  PROVE  /\ Store(r, o) \in [Slots -> Objs \cup {Null}]
         /\ \A q \in Slots : Store(r, o)[q] = IF q = r THEN o ELSE ref[q]
BY DEF OwnMemory, Store, TypeOK

(* What redo_ref_cnt writes is what the swap had decided: eff does not     *)
(* change.                                                                 *)
LEMMA RedoKeepsStep ==
  ASSUME OwnMemory, MaxThread \notin Threads, IInv, NEW t \in Threads, NEW i \in RedoIndex,
         RedoApply(t, i)
  PROVE  eff' = eff
<1> DEFINE e     == redo[t][i]
           again == e.func # "none" /\ NeedRedo(t, e, loc[t].saw.lcid, info[e.refed].lenum)
<1>0. TypeOK /\ LocInv /\ LogInv /\ WholeInv /\ StaleInv /\ MonitorInv
  BY DEF IInv
<1>1. mode[t] = "redo" /\ IsLast(t, i) /\ pc[t] \in ClientPC /\ mode[t] \in Working
  BY <1>0 DEF RedoApply, LocInv, LocOK, Working
<1>2. /\ pc'[t] = "scan" /\ \A u \in Threads : u # t => loc'[u] = loc[u] /\ pc'[u] = pc[u]
      /\ slot' = slot
  BY <1>0 DEF RedoApply, TypeOK
<1>3. e.func # "none" => /\ e.ref \in Slots /\ Owner[e.ref] = t /\ e.refed \in Objs
                         /\ info[e.refed].lcid = loc[t].saw.lcid
  BY <1>0, <1>1 DEF LogInv, TypeOK, Entry, MonitorInv
<1>4. \/ ~again /\ ref' = ref
      \/ /\ again
         /\ \A q \in Slots : ref'[q] = IF q = e.ref
                                       THEN IF e.func = "link" THEN e.refed ELSE Null
                                       ELSE ref[q]
  <2>1. CASE again
    BY <1>0, <1>3, <2>1, StoreOwn DEF RedoApply
  <2>2. CASE ~again
    BY <2>2 DEF RedoApply
  <2>3. QED
    BY <2>1, <2>2
<1>5. again <=> /\ e.func # "none"
                /\ NeedRedo(t, e, info[e.refed].lcid, info[e.refed].lenum)
  BY <1>3
<1>6. ASSUME NEW q \in Slots, Owner[q] # t
      PROVE  eff'[q] = eff[q]
  <2>1. ref'[q] = ref[q]
    BY <1>3, <1>4, <1>6
  <2>2. QED
    BY <1>2, <1>6, <2>1, OwnerAssumption DEF eff, Committed
<1>7. ASSUME NEW q \in Slots, Owner[q] = t, slot[q] = "used"
      PROVE  eff'[q] = eff[q]
  <2>1. eff'[q] = ref'[q]
    BY <1>2, <1>7 DEF eff, Committed
  <2>2. CASE pc[t] \in {"cased", "written"}
    <3>1. e = [func |-> loc[t].op, era |-> Era(t), ref |-> loc[t].ref, refed |-> loc[t].obj]
      BY <1>1, <2>2, LastLine
    <3>2. loc[t].op \in {"link", "unlink"}
      BY <1>0, <2>2 DEF LocInv, LocOK, LinkPC
    <3>3. again
      BY <1>1, <1>5, <2>2, <3>1, <3>2, AfterSwap
    <3>4. ref'[q] = IF q = loc[t].ref THEN IF loc[t].op = "link" THEN loc[t].obj ELSE Null
                    ELSE ref[q]
      BY <1>4, <3>1, <3>3
    <3>5. pc[t] = "written" => ref[loc[t].ref] = IF loc[t].op = "link" THEN loc[t].obj ELSE Null
      BY <1>0, <3>2 DEF LocInv, LocOK, LinkPC
    <3>6. QED
      BY <1>7, <2>1, <2>2, <3>4, <3>5 DEF eff, Committed
  <2>3. CASE pc[t] \notin {"cased", "written"}
    <3>1. eff[q] = ref[q]
      BY <1>1, <1>7, <2>3 DEF eff, Committed, ClientPC
    <3>2. CASE ~again
      BY <1>4, <2>1, <3>1, <3>2
    <3>3. CASE again
      <4>1. e.func # "none" /\ e.era # Era(t)
        BY <1>1, <1>5, <2>3, <3>3, BeforeSwap
      <4>2. \/ Agrees(e)
            \/ pc[t] \in {"free", "unlinked"} /\ e.ref = loc[t].ref
        BY <1>0, <1>1, <2>3, <4>1 DEF StaleInv, StaleLine
      <4>3. CASE Agrees(e)
        BY <1>4, <1>7, <2>1, <3>1, <3>3, <4>3 DEF Agrees
      <4>4. CASE pc[t] \in {"free", "unlinked"} /\ e.ref = loc[t].ref
        <5>1. e = [func |-> "unlink", era |-> Era(t) - 1, ref |-> loc[t].ref,
                   refed |-> loc[t].obj]
          BY <1>1, <4>4, LastLine
        <5>2. ref[loc[t].ref] = Null
          BY <1>0, <4>4 DEF LocInv, LocOK
        <5>3. QED
          BY <1>4, <2>1, <3>1, <3>3, <4>4, <5>1, <5>2
      <4>5. QED
        BY <4>2, <4>3, <4>4
    <3>4. QED
      BY <3>2, <3>3
  <2>4. QED
    BY <2>2, <2>3
<1>8. ASSUME NEW q \in Slots, slot[q] # "used"
      PROVE  eff'[q] = eff[q]
  BY <1>2, <1>8 DEF eff
<1>9. eff = [q \in Slots |-> eff[q]] /\ eff' = [q \in Slots |-> eff'[q]]
  BY DEF eff
<1>10. QED
  BY <1>6, <1>7, <1>8, <1>9

(* A log with an operation under way has a last line.                      *)
LEMMA LastExists ==
  ASSUME IInv, NEW t \in Threads, mode[t] \in Working, pc[t] \in {"cased", "written"}
  PROVE  \E i \in RedoIndex : IsLast(t, i)
<1>0. TypeOK /\ BoundInv /\ LogInv /\ WholeInv
  BY DEF IInv
<1>1. era[t][t] \in Nat /\ Line(era[t][t]) \in RedoIndex
  BY <1>0, LineOfThread
<1>2. redo[t][Line(era[t][t])].era = era[t][t]
  <2>1. redo[t][Line(era[t][t])] = [func |-> loc[t].op, era |-> era[t][t],
                                    ref |-> loc[t].ref, refed |-> loc[t].obj]
    BY <1>0 DEF WholeInv, Era
  <2>2. QED
    BY <2>1
<1>3. ASSUME NEW j \in RedoIndex, j # Line(era[t][t])
      PROVE  redo[t][j].era < era[t][t]
  <2>1. redo[t][j].era \in Nat /\ era[t][t] > 0
    BY <1>0 DEF TypeOK, Entry, BoundInv, Era
  <2>2. CASE redo[t][j].func = "none"
    BY <1>0, <1>1, <2>1, <2>2 DEF LogInv
  <2>3. CASE redo[t][j].func # "none"
    <3>1. redo[t][j].era \in 1..era[t][t] /\ j = Line(redo[t][j].era)
      BY <1>0, <2>3 DEF LogInv, Era
    <3>2. redo[t][j].era # era[t][t]
      BY <1>3, <3>1
    <3>3. QED
      BY <1>1, <2>1, <3>1, <3>2
  <2>4. QED
    BY <2>2, <2>3
<1>4. IsLast(t, Line(era[t][t]))
  <2>1. \A j \in RedoIndex : redo[t][j].era <= era[t][t]
    <3>1. \A j \in RedoIndex : redo[t][j].era \in Nat
      BY <1>0 DEF TypeOK, Entry
    <3>2. QED
      BY <1>1, <1>2, <1>3, <3>1
  <2>2. \A j \in RedoIndex : j < Line(era[t][t]) => redo[t][j].era < era[t][t]
    <3>1. \A j \in RedoIndex : j \in Int
      BY BoundsAssumption DEF RedoIndex
    <3>2. QED
      BY <1>1, <1>3, <3>1
  <2>3. QED
    BY <1>2, <2>1, <2>2 DEF IsLast
<1>5. QED
  BY <1>1, <1>4

(* The old lines of a log concern its thread: a step of t has only those   *)
(* of t to keep.                                                           *)
LEMMA StaleFrame ==
  ASSUME TypeOK, LogInv, StaleInv, NEW t \in Threads,
         \A u \in Threads \ {t} :
           /\ loc'[u] = loc[u] /\ pc'[u] = pc[u] /\ mode'[u] = mode[u]
           /\ redo'[u] = redo[u] /\ era'[u][u] = era[u][u],
         \A q \in Slots : Owner[q] # t => slot'[q] = slot[q] /\ ref'[q] = ref[q],
         \A i \in RedoIndex :
           mode'[t] \in Working /\ redo'[t][i].func # "none" => StaleLine(t, i)'
  PROVE  StaleInv'
<1>1. SUFFICES ASSUME NEW u \in Threads \ {t}, NEW i \in RedoIndex,
                      mode[u] \in Working, redo[u][i].func # "none"
               PROVE  StaleLine(u, i)'
  BY DEF StaleInv
<1>2. StaleLine(u, i)
  BY <1>1 DEF StaleInv
<1>3. redo[u][i].ref \in Slots /\ Owner[redo[u][i].ref] = u
  BY <1>1 DEF LogInv, TypeOK, Entry
<1>4. slot'[redo[u][i].ref] = slot[redo[u][i].ref] /\ ref'[redo[u][i].ref] = ref[redo[u][i].ref]
  BY <1>1, <1>3
<1>5. QED
  BY <1>1, <1>2, <1>3, <1>4 DEF StaleLine, Agrees, Era


(* The place and the registers of a thread are its own: a step of t that   *)
(* leaves other threads and their RootRefs alone has only LocOK(t) to keep.*)
LEMMA LocFrame ==
  ASSUME TypeOK, LocInv, NEW t \in Threads,
         \A u \in Threads \ {t} :
           loc'[u] = loc[u] /\ pc'[u] = pc[u] /\ mode'[u] = mode[u],
         \A q \in Slots : Owner[q] # t => slot'[q] = slot[q] /\ ref'[q] = ref[q],
         LocOK(t)'
  PROVE  LocInv'
<1>1. SUFFICES ASSUME NEW u \in Threads \ {t}
               PROVE  LocOK(u)'
  BY DEF LocInv
<1>2. LocOK(u) /\ loc[u].ref \in Slots \cup {Null}
  BY DEF LocInv, TypeOK, Locals
<1>3. loc[u].ref # Null => slot'[loc[u].ref] = slot[loc[u].ref] /\ ref'[loc[u].ref] = ref[loc[u].ref]
  BY <1>1, <1>2 DEF LocOK
<1>4. QED
  <2>1. loc'[u] = loc[u] /\ pc'[u] = pc[u] /\ mode'[u] = mode[u]
    BY <1>1
  <2>2. \A r \in Slots : Owner[r] = u => slot'[r] = slot[r]
    BY <1>1
  <2>3. QED
    BY <1>2, <1>3, <2>1, <2>2 DEF LocOK, LinkPC

-----------------------------------------------------------------------------
(* The actions of a client, then those of the monitor.                     *)

(* thread_base_ref_alloc finds a RootRef on the free list.                 *)
LEMMA TbrFastStep ==
  ASSUME ~Concurrent, MaxThread \notin Threads, IInv,
         NEW t \in Threads, NEW r \in Slots, TbrFast(t, r)
  PROVE  IInv'
<1> USE ThreadsAssumption, DataAssumption, OwnerAssumption, BoundsAssumption
<1>0. TypeOK /\ LocInv /\ PinInv /\ BlankInv /\ CountExact /\ LastInv /\ BoundInv
      /\ PublishInv /\ TraceInv /\ LogInv /\ WholeInv /\ StaleInv /\ MonitorInv
  BY DEF IInv
<1>1. TypeOK'
  <2>1. loc' \in [Threads -> Locals]
    BY <1>0, LocalsField DEF TbrFast, TypeOK
  <2>2. pc' \in [Threads -> ClientPC \cup MonitorPC]
    BY <1>0 DEF TbrFast, At, Goto, TypeOK, ClientPC, MonitorPC
  <2>3. QED
    BY <1>0, <2>1, <2>2 DEF TbrFast, At, Goto, TypeOK
<1>2. CountExact'
  <2>1. eff' = eff
    BY <1>0 DEF TbrFast, At, Goto, TypeOK, eff, Committed, LocInv, LocOK,
       LinkPC
  <2>2. QED
    BY <1>0, <2>1 DEF TbrFast, At, Goto, CountExact, Refs
<1>3. StaleInv'
  <2>1. \A u \in Threads \ {t} :
          /\ loc'[u] = loc[u] /\ pc'[u] = pc[u] /\ mode'[u] = mode[u]
          /\ redo'[u] = redo[u] /\ era'[u][u] = era[u][u]
    BY <1>0 DEF TbrFast, At, Goto, TypeOK
  <2>2. \A q \in Slots : Owner[q] # t => slot'[q] = slot[q] /\ ref'[q] = ref[q]
    BY <1>0 DEF TbrFast, At, Goto, TypeOK, LocInv, LocOK
  <2>3. \A i \in RedoIndex :
          mode'[t] \in Working /\ redo'[t][i].func # "none" => StaleLine(t, i)'
    BY <1>0 DEF TbrFast, At, Goto, TypeOK, Locals, Entry, StaleInv, StaleLine,
       Working,
       Era, LogInv, Agrees, LinkPC, LocInv, LocOK
  <2>4. QED
    BY <1>0, <2>1, <2>2, <2>3, StaleFrame
<1>4. LocInv' /\ PinInv'
  BY <1>0 DEF TbrFast, At, Goto, TypeOK, LocInv, LocOK, Working, ClientPC,
       MonitorPC, LinkPC, PinInv, Locals
<1>5. BlankInv' /\ LastInv' /\ BoundInv'
  BY <1>0 DEF TbrFast, At, Goto, TypeOK, BlankInv, LocInv, LocOK, LastInv,
       DropsLast, Working, BoundInv, Used, Past, Era
<1>6. PublishInv' /\ TraceInv'
  BY <1>0 DEF TbrFast, At, Goto, TypeOK, PublishInv, TraceInv, Working, Era
<1>7. LogInv' /\ WholeInv' /\ MonitorInv'
  BY <1>0 DEF TbrFast, At, Goto, TypeOK, LogInv, Era, WholeInv, Working,
       MonitorInv, Stopping, IsLast
<1>8. QED
  BY <1>1, <1>2, <1>3, <1>4, <1>5, <1>6, <1>7 DEF IInv

(* thread_base_ref_alloc falls back to cxl_malloc_generic.                 *)
LEMMA TbrSlowStep ==
  ASSUME ~Concurrent, MaxThread \notin Threads, IInv,
         NEW t \in Threads, TbrSlow(t)
  PROVE  IInv'
<1> USE ThreadsAssumption, DataAssumption, OwnerAssumption, BoundsAssumption
<1>0. TypeOK /\ LocInv /\ PinInv /\ BlankInv /\ CountExact /\ LastInv /\ BoundInv
      /\ PublishInv /\ TraceInv /\ LogInv /\ WholeInv /\ StaleInv /\ MonitorInv
  BY DEF IInv
<1>1. CountExact'
  <2>1. eff' = eff
    BY <1>0 DEF TbrSlow, At, Goto, TypeOK, eff, Committed, LocInv, LocOK,
       LinkPC
  <2>2. QED
    BY <1>0, <2>1 DEF TbrSlow, At, Goto, CountExact, Refs
<1>2. StaleInv'
  <2>1. \A u \in Threads \ {t} :
          /\ loc'[u] = loc[u] /\ pc'[u] = pc[u] /\ mode'[u] = mode[u]
          /\ redo'[u] = redo[u] /\ era'[u][u] = era[u][u]
    BY <1>0 DEF TbrSlow, At, Goto, TypeOK
  <2>2. \A q \in Slots : Owner[q] # t => slot'[q] = slot[q] /\ ref'[q] = ref[q]
    BY <1>0 DEF TbrSlow, At, Goto, TypeOK, LocInv, LocOK
  <2>3. \A i \in RedoIndex :
          mode'[t] \in Working /\ redo'[t][i].func # "none" => StaleLine(t, i)'
    BY <1>0 DEF TbrSlow, At, Goto, TypeOK, Locals, Entry, StaleInv, StaleLine,
       Working,
       Era, LogInv, Agrees, LinkPC, LocInv, LocOK
  <2>4. QED
    BY <1>0, <2>1, <2>2, <2>3, StaleFrame
<1>3. TypeOK' /\ LocInv' /\ PinInv' /\ BlankInv' /\ LastInv'
  BY <1>0 DEF TbrSlow, At, Goto, TypeOK, Locals, ClientPC, MonitorPC, Working,
       LocInv, LocOK, LinkPC, PinInv, BlankInv, LastInv, DropsLast
<1>4. BoundInv' /\ PublishInv' /\ TraceInv' /\ LogInv' /\ WholeInv' 
      /\ MonitorInv'
  BY <1>0 DEF TbrSlow, At, Goto, TypeOK, BoundInv, Used, Past, Era, Working,
       PublishInv, TraceInv, LogInv, WholeInv, MonitorInv, Stopping, IsLast
<1>5. QED
  BY <1>1, <1>2, <1>3, <1>4 DEF IInv

(* One line of the redo log is cleared.                                    *)
LEMMA ClearOneStep ==
  ASSUME ~Concurrent, MaxThread \notin Threads, IInv,
         NEW t \in Threads, NEW i \in RedoIndex, ClearOne(t, i)
  PROVE  IInv'
<1> USE ThreadsAssumption, DataAssumption, OwnerAssumption, BoundsAssumption
<1>0. TypeOK /\ LocInv /\ PinInv /\ BlankInv /\ CountExact /\ LastInv /\ BoundInv
      /\ PublishInv /\ TraceInv /\ LogInv /\ WholeInv /\ StaleInv /\ MonitorInv
  BY DEF IInv
<1>1. TypeOK'
  <2>1. redo' \in [Threads -> [RedoIndex -> Entry]]
    BY <1>0, NullTypes DEF ClearOne, TypeOK
  <2>2. QED
    BY <1>0, <2>1 DEF ClearOne, At, Clear, TypeOK
<1>2. CountExact'
  <2>1. eff' = eff
    BY <1>0 DEF ClearOne, At, Clear, TypeOK, eff, Committed, LocInv, LocOK,
       LinkPC
  <2>2. QED
    BY <1>0, <2>1 DEF ClearOne, At, Clear, CountExact, Refs
<1>3. LogInv'
  <2>1. \A u \in Threads : Era(u)' \in Nat /\ Era(u)' >= Era(u)
    BY <1>0 DEF ClearOne, At, Clear, Era, TypeOK
  <2>2. \A u \in Threads, j \in RedoIndex : redo'[u][j] \in {redo[u][j], NoEntry}
    BY <1>0 DEF ClearOne, At, Clear, TypeOK
  <2>3. QED
    BY <1>0, <2>1, <2>2, LogFrame
<1>4. StaleInv'
  BY <1>0 DEF ClearOne, At, Clear, TypeOK, StaleInv, StaleLine, Working, Era,
     LogInv, Agrees, NoEntry
<1>5. LocInv' /\ PinInv' /\ BlankInv' /\ LastInv'
  BY <1>0 DEF ClearOne, At, Clear, TypeOK, LocInv, LocOK, Working, ClientPC,
       MonitorPC, LinkPC, PinInv, Locals, BlankInv, LastInv, DropsLast
<1>6. BoundInv' /\ PublishInv' /\ TraceInv' /\ WholeInv' /\ MonitorInv'
  BY <1>0 DEF ClearOne, At, Clear, TypeOK, BoundInv, Used, Past, Era, Working,
       PublishInv, TraceInv, WholeInv, MonitorInv, Stopping, IsLast
<1>7. QED
  BY <1>1, <1>2, <1>3, <1>4, <1>5, <1>6 DEF IInv

(* cxl_page_free_collect hands out freed RootRefs, after the log is empty. *)
LEMMA CollectStep ==
  ASSUME ~Concurrent, MaxThread \notin Threads, IInv,
         NEW t \in Threads, NEW r \in Slots, Collect(t, r)
  PROVE  IInv'
<1> USE ThreadsAssumption, DataAssumption, OwnerAssumption, BoundsAssumption
<1>0. TypeOK /\ LocInv /\ PinInv /\ BlankInv /\ CountExact /\ LastInv /\ BoundInv
      /\ PublishInv /\ TraceInv /\ LogInv /\ WholeInv /\ StaleInv /\ MonitorInv
  BY DEF IInv
<1>1. TypeOK'
  <2>1. loc' \in [Threads -> Locals]
    BY <1>0, LocalsField DEF Collect, TypeOK
  <2>2. pc' \in [Threads -> ClientPC \cup MonitorPC]
    BY <1>0 DEF Collect, At, Goto, Clear, TypeOK, ClientPC, MonitorPC
  <2>3. slot' \in [Slots -> {"free", "used", "pending", "local"}]
    BY <1>0 DEF Collect, TypeOK
  <2>4. QED
    BY <1>0, <2>1, <2>2, <2>3 DEF Collect, At, Goto, Clear, TypeOK
<1>2. LocInv'
  <2>1. \A u \in Threads : u # t => loc'[u] = loc[u] /\ pc'[u] = pc[u]
    BY <1>0 DEF Collect, Goto, TypeOK
  <2>2. pc'[t] = "tbr" /\ loc'[t].ref = r /\ loc'[t].src = loc[t].src
    BY <1>0 DEF Collect, Goto, TypeOK, Locals
  <2>3. \A q \in Slots : Owner[q] # t => slot'[q] = slot[q] /\ ref'[q] = ref[q]
    BY <1>0 DEF Collect, TypeOK
  <2>4. slot'[r] = "used" /\ ref'[r] = Null /\ Owner[r] = t /\ r # Null
    BY <1>0, DataAssumption DEF Collect, TypeOK
  <2>5. mode' = mode /\ mode[t] = "live" /\ pc[t] = "clear" /\ LocOK(t)
    BY <1>0 DEF Collect, At, LocInv
  <2>6. LocOK(t)'
    BY <2>2, <2>4, <2>5 DEF LocOK, Working, ClientPC, LinkPC
  <2>7. QED
    BY <1>0, <2>1, <2>3, <2>5, <2>6, LocFrame
<1>3. CountExact'
  <2>1. eff' = eff
    BY <1>0 DEF Collect, At, Goto, Clear, TypeOK, eff, Committed, LocInv,
       LocOK, LinkPC
  <2>2. QED
    BY <1>0, <2>1 DEF Collect, At, Goto, Clear, CountExact, Refs
<1>4. StaleInv'
  <2>1. \A i \in RedoIndex : redo'[t][i].func = "none"
    BY <1>0 DEF Collect, Clear, NoEntry
  <2>2. \A u \in Threads : u # t => loc'[u] = loc[u] /\ pc'[u] = pc[u]
    BY <1>0 DEF Collect, Goto, TypeOK
  <2>3. \A q \in Slots : Owner[q] # t => slot'[q] = slot[q] /\ ref'[q] = ref[q]
    BY <1>0 DEF Collect, TypeOK
  <2>4. redo' = redo /\ era' = era /\ mode' = mode
    BY DEF Collect
  <2>5. QED
    BY <1>0, <2>1, <2>2, <2>3, <2>4, StaleFrame
<1>5. PinInv' /\ BlankInv' /\ LastInv' /\ BoundInv'
  BY <1>0 DEF Collect, At, Goto, Clear, TypeOK, PinInv, LocInv, LocOK, LinkPC,
       Locals, BlankInv, LastInv, DropsLast, Working, BoundInv, Used, Past, Era
<1>6. PublishInv' /\ TraceInv' /\ LogInv' /\ WholeInv' /\ MonitorInv'
  BY <1>0 DEF Collect, At, Goto, Clear, TypeOK, PublishInv, TraceInv, Working,
       Era, LogInv, WholeInv, MonitorInv, Stopping, IsLast
<1>7. QED
  BY <1>1, <1>2, <1>3, <1>4, <1>5, <1>6 DEF IInv

(* cxl_ref_alloc falls back to cxl_malloc_generic.                         *)
LEMMA ObjSlowStep ==
  ASSUME ~Concurrent, MaxThread \notin Threads, IInv,
         NEW t \in Threads, ObjSlow(t)
  PROVE  IInv'
<1> USE ThreadsAssumption, DataAssumption, OwnerAssumption, BoundsAssumption
<1>0. TypeOK /\ LocInv /\ PinInv /\ BlankInv /\ CountExact /\ LastInv /\ BoundInv
      /\ PublishInv /\ TraceInv /\ LogInv /\ WholeInv /\ StaleInv /\ MonitorInv
  BY DEF IInv
<1>1. CountExact'
  <2>1. eff' = eff
    BY <1>0 DEF ObjSlow, At, Goto, TypeOK, eff, Committed, LocInv, LocOK,
       LinkPC
  <2>2. QED
    BY <1>0, <2>1 DEF ObjSlow, At, Goto, CountExact, Refs
<1>2. StaleInv'
  <2>1. \A u \in Threads \ {t} :
          /\ loc'[u] = loc[u] /\ pc'[u] = pc[u] /\ mode'[u] = mode[u]
          /\ redo'[u] = redo[u] /\ era'[u][u] = era[u][u]
    BY <1>0 DEF ObjSlow, At, Goto, TypeOK
  <2>2. \A q \in Slots : Owner[q] # t => slot'[q] = slot[q] /\ ref'[q] = ref[q]
    BY <1>0 DEF ObjSlow, At, Goto, TypeOK, LocInv, LocOK
  <2>3. \A i \in RedoIndex :
          mode'[t] \in Working /\ redo'[t][i].func # "none" => StaleLine(t, i)'
    BY <1>0 DEF ObjSlow, At, Goto, TypeOK, Locals, Entry, StaleInv, StaleLine,
       Working,
       Era, LogInv, Agrees, LinkPC, LocInv, LocOK
  <2>4. QED
    BY <1>0, <2>1, <2>2, <2>3, StaleFrame
<1>3. TypeOK' /\ LocInv' /\ PinInv' /\ BlankInv' /\ LastInv'
  BY <1>0 DEF ObjSlow, At, Goto, TypeOK, Locals, ClientPC, MonitorPC, Working,
       LocInv, LocOK, LinkPC, PinInv, BlankInv, LastInv, DropsLast
<1>4. BoundInv' /\ PublishInv' /\ TraceInv' /\ LogInv' /\ WholeInv' 
      /\ MonitorInv'
  BY <1>0 DEF ObjSlow, At, Goto, TypeOK, BoundInv, Used, Past, Era, Working,
       PublishInv, TraceInv, LogInv, WholeInv, MonitorInv, Stopping, IsLast
<1>5. QED
  BY <1>1, <1>2, <1>3, <1>4 DEF IInv

(* cxl_malloc_generic finds a page for the object.                         *)
LEMMA ObjPageStep ==
  ASSUME ~Concurrent, MaxThread \notin Threads, IInv,
         NEW t \in Threads, ObjPage(t)
  PROVE  IInv'
<1> USE ThreadsAssumption, DataAssumption, OwnerAssumption, BoundsAssumption
<1>0. TypeOK /\ LocInv /\ PinInv /\ BlankInv /\ CountExact /\ LastInv /\ BoundInv
      /\ PublishInv /\ TraceInv /\ LogInv /\ WholeInv /\ StaleInv /\ MonitorInv
  BY DEF IInv
<1>1. CountExact'
  <2>1. eff' = eff
    BY <1>0 DEF ObjPage, At, Goto, TypeOK, eff, Committed, LocInv, LocOK,
       LinkPC
  <2>2. QED
    BY <1>0, <2>1 DEF ObjPage, At, Goto, CountExact, Refs
<1>2. StaleInv'
  <2>1. \A u \in Threads \ {t} :
          /\ loc'[u] = loc[u] /\ pc'[u] = pc[u] /\ mode'[u] = mode[u]
          /\ redo'[u] = redo[u] /\ era'[u][u] = era[u][u]
    BY <1>0 DEF ObjPage, At, Goto, TypeOK
  <2>2. \A q \in Slots : Owner[q] # t => slot'[q] = slot[q] /\ ref'[q] = ref[q]
    BY <1>0 DEF ObjPage, At, Goto, TypeOK, LocInv, LocOK
  <2>3. \A i \in RedoIndex :
          mode'[t] \in Working /\ redo'[t][i].func # "none" => StaleLine(t, i)'
    BY <1>0 DEF ObjPage, At, Goto, TypeOK, Locals, Entry, StaleInv, StaleLine,
       Working,
       Era, LogInv, Agrees, LinkPC, LocInv, LocOK
  <2>4. QED
    BY <1>0, <2>1, <2>2, <2>3, StaleFrame
<1>3. TypeOK' /\ LocInv' /\ PinInv' /\ BlankInv' /\ LastInv'
  BY <1>0 DEF ObjPage, At, Goto, TypeOK, Locals, ClientPC, MonitorPC, Working,
       LocInv, LocOK, LinkPC, PinInv, BlankInv, LastInv, DropsLast
<1>4. BoundInv' /\ PublishInv' /\ TraceInv' /\ LogInv' /\ WholeInv' 
      /\ MonitorInv'
  BY <1>0 DEF ObjPage, At, Goto, TypeOK, BoundInv, Used, Past, Era, Working,
       PublishInv, TraceInv, LogInv, WholeInv, MonitorInv, Stopping, IsLast
<1>5. QED
  BY <1>1, <1>2, <1>3, <1>4 DEF IInv

(* link_block_to_tbr: the RootRef leads to a block without a header.       *)
LEMMA PptrStep ==
  ASSUME ~Concurrent, MaxThread \notin Threads, IInv,
         NEW t \in Threads, NEW o \in Objs, Pptr(t, o)
  PROVE  IInv'
<1> USE ThreadsAssumption, DataAssumption, OwnerAssumption, BoundsAssumption
<1>0. TypeOK /\ LocInv /\ PinInv /\ BlankInv /\ CountExact /\ LastInv /\ BoundInv
      /\ PublishInv /\ TraceInv /\ LogInv /\ WholeInv /\ StaleInv /\ MonitorInv
  BY DEF IInv
<1>r. /\ loc[t].ref \in Slots /\ Owner[loc[t].ref] = t
      /\ slot[loc[t].ref] = "used" /\ ref[loc[t].ref] = Null
  <2>1. loc[t].ref \in Slots \cup {Null}
    BY <1>0 DEF TypeOK, Locals
  <2>2. pc[t] \in {"tbr", "obj"}
    BY DEF Pptr
  <2>3. QED
    BY <1>0, <2>1, <2>2 DEF LocInv, LocOK
<1>l. /\ loc'[t].ref = loc[t].ref /\ loc'[t].src = loc[t].src /\ loc'[t].obj = o
      /\ \A u \in Threads : u # t => loc'[u] = loc[u] /\ pc'[u] = pc[u]
      /\ pc'[t] = "pptr"
  BY <1>0 DEF Pptr, Goto, TypeOK, Locals
<1>c. \A q \in Slots :
        IF q = loc[t].ref THEN slot'[q] = "pending" /\ ref'[q] = o
                          ELSE slot'[q] = slot[q] /\ ref'[q] = ref[q]
  BY <1>0, <1>r DEF Pptr, TypeOK
<1>1. TypeOK'
  <2>1. ref' \in [Slots -> Objs \cup {Null}]
    BY <1>0 DEF Pptr, TypeOK
  <2>2. slot' \in [Slots -> {"free", "used", "pending", "local"}]
    BY <1>0 DEF Pptr, TypeOK
  <2>3. loc' \in [Threads -> Locals]
    BY <1>0, LocalsField DEF Pptr, TypeOK
  <2>4. pc' \in [Threads -> ClientPC \cup MonitorPC]
    BY <1>0 DEF Pptr, Goto, TypeOK, ClientPC, MonitorPC
  <2>5. QED
    BY <1>0, <2>1, <2>2, <2>3, <2>4 DEF Pptr, Goto, TypeOK
<1>2. LocInv'
  <2>1. mode' = mode /\ mode[t] = "live" /\ pc[t] \in {"tbr", "obj"} /\ LocOK(t)
    BY <1>0 DEF Pptr, LocInv
  <2>2. LocOK(t)'
    BY <1>r, <1>l, <1>c, <2>1 DEF LocOK, Working, ClientPC, LinkPC
  <2>3. QED
    BY <1>0, <1>r, <1>l, <1>c, <2>1, <2>2, LocFrame
<1>3. PinInv'
  <2>1. mode' = mode
    BY DEF Pptr
  <2>2. loc[t].src = Null
    BY <1>0 DEF Pptr, LocInv, LocOK, LinkPC
  <2>3. \A u \in Threads : loc[u].src \in Slots \cup {Null}
    BY <1>0 DEF TypeOK, Locals
  <2>4. QED
    BY <1>0, <1>r, <1>l, <1>c, <2>1, <2>2, <2>3 DEF PinInv
<1>4. CountExact'
  <2>1. eff' = eff
    BY <1>0 DEF Pptr, Goto, TypeOK, eff, Committed, LocInv, LocOK, LinkPC
  <2>2. QED
    BY <1>0, <2>1 DEF Pptr, Goto, CountExact, Refs
<1>5. StaleInv'
  <2>1. \A i \in RedoIndex : mode[t] \in Working /\ redo[t][i].func # "none" =>
          /\ StaleLine(t, i) /\ redo[t][i].ref \in Slots
    BY <1>0 DEF StaleInv, LogInv, TypeOK, Entry
  <2>2. /\ mode' = mode /\ mode[t] = "live" /\ redo' = redo /\ era' = era
        /\ pc[t] \in {"tbr", "obj"} /\ pc'[t] = "pptr"
        /\ loc[t].ref \in Slots /\ loc'[t].ref = loc[t].ref
        /\ slot[loc[t].ref] = "used"
    BY <1>0, <1>r, <1>l DEF Pptr, LocInv, LocOK
  <2>3. \A i \in RedoIndex :
          mode'[t] \in Working /\ redo'[t][i].func # "none" => StaleLine(t, i)'
    BY <1>r, <1>l, <1>c, <2>1, <2>2 DEF StaleLine, Agrees, Era, LinkPC, Working
  <2>4. QED
    BY <1>0, <1>r, <1>l, <1>c, <2>2, <2>3, StaleFrame
<1>6. BlankInv' /\ LastInv' /\ BoundInv' /\ PublishInv'
  BY <1>0 DEF Pptr, Goto, TypeOK, BlankInv, LocInv, LocOK, LastInv, DropsLast,
       Working, BoundInv, Used, Past, Era, PublishInv
<1>7. TraceInv' /\ LogInv' /\ WholeInv' /\ MonitorInv'
  BY <1>0 DEF Pptr, Goto, TypeOK, TraceInv, Working, Era, LogInv, WholeInv,
       MonitorInv, Stopping, IsLast
<1>8. QED
  BY <1>1, <1>2, <1>3, <1>4, <1>5, <1>6, <1>7 DEF IInv

(* The client dies for want of a page.                                     *)
LEMMA OutOfMemoryStep ==
  ASSUME ~Concurrent, MaxThread \notin Threads, IInv,
         NEW t \in Threads, OutOfMemory(t)
  PROVE  IInv'
<1> USE ThreadsAssumption, DataAssumption, OwnerAssumption, BoundsAssumption
<1>0. TypeOK /\ LocInv /\ PinInv /\ BlankInv /\ CountExact /\ LastInv /\ BoundInv
      /\ PublishInv /\ TraceInv /\ LogInv /\ WholeInv /\ StaleInv /\ MonitorInv
  BY DEF IInv
<1>1. CountExact'
  <2>1. eff' = eff
    BY <1>0 DEF OutOfMemory, TypeOK, eff, Committed, LocInv, LocOK, LinkPC
  <2>2. QED
    BY <1>0, <2>1 DEF OutOfMemory, CountExact, Refs
<1>2. StaleInv'
  <2>1. \A u \in Threads \ {t} :
          /\ loc'[u] = loc[u] /\ pc'[u] = pc[u] /\ mode'[u] = mode[u]
          /\ redo'[u] = redo[u] /\ era'[u][u] = era[u][u]
    BY <1>0 DEF OutOfMemory, TypeOK
  <2>2. \A q \in Slots : Owner[q] # t => slot'[q] = slot[q] /\ ref'[q] = ref[q]
    BY <1>0 DEF OutOfMemory, TypeOK, LocInv, LocOK
  <2>3. \A i \in RedoIndex :
          mode'[t] \in Working /\ redo'[t][i].func # "none" => StaleLine(t, i)'
    BY <1>0 DEF OutOfMemory, TypeOK, Locals, Entry, StaleInv, StaleLine,
       Working,
       Era, LogInv, Agrees, LinkPC, LocInv, LocOK
  <2>4. QED
    BY <1>0, <2>1, <2>2, <2>3, StaleFrame
<1>3. TypeOK' /\ LocInv' /\ PinInv' /\ BlankInv' /\ LastInv'
  BY <1>0 DEF OutOfMemory, TypeOK, Locals, ClientPC, MonitorPC, Working,
       LocInv, LocOK, LinkPC, PinInv, BlankInv, LastInv, DropsLast
<1>4. BoundInv' /\ PublishInv' /\ TraceInv' /\ LogInv' /\ WholeInv' 
      /\ MonitorInv'
  BY <1>0 DEF OutOfMemory, TypeOK, BoundInv, Used, Past, Era, Working,
       PublishInv, TraceInv, LogInv, WholeInv, MonitorInv, Stopping, IsLast
<1>5. QED
  BY <1>1, <1>2, <1>3, <1>4 DEF IInv

(* block_to_cxlobj fetches the era of the new header.                      *)
LEMMA TakeStep ==
  ASSUME ~Concurrent, MaxThread \notin Threads, IInv,
         NEW t \in Threads, Take(t)
  PROVE  IInv'
<1> USE ThreadsAssumption, DataAssumption, OwnerAssumption, BoundsAssumption
<1>0. TypeOK /\ LocInv /\ PinInv /\ BlankInv /\ CountExact /\ LastInv /\ BoundInv
      /\ PublishInv /\ TraceInv /\ LogInv /\ WholeInv /\ StaleInv /\ MonitorInv
  BY DEF IInv
<1>a. /\ era' \in [Threads -> [Threads -> Nat]]
      /\ \A u, v \in Threads :
           era'[u][v] = IF u = t /\ v = t THEN era[t][t] + 1 ELSE era[u][v]
  BY <1>0, TickType DEF Take
<1>1. TypeOK'
  <2>1. [lcid |-> t, cnt |-> 1, lenum |-> Era(t)] \in Info
    BY <1>0, InfoRecord DEF TypeOK, Era
  <2>2. loc' \in [Threads -> Locals]
    BY <1>0, <2>1, LocalsField DEF Take, TypeOK
  <2>3. pc' \in [Threads -> ClientPC \cup MonitorPC]
    BY <1>0 DEF Take, At, Goto, Tick, TypeOK, ClientPC, MonitorPC
  <2>4. QED
    BY <1>0, <2>1, <2>2, <2>3, <1>a DEF Take, At, Goto, Tick, TypeOK
<1>2. CountExact'
  <2>1. eff' = eff
    BY <1>0 DEF Take, At, Goto, Tick, TypeOK, eff, Committed, LocInv, LocOK,
       LinkPC
  <2>2. QED
    BY <1>0, <2>1 DEF Take, At, Goto, Tick, CountExact, Refs
<1>3. BoundInv'
  <2>1. \A u \in Threads : \/ Era(u)' > Era(u) /\ Era(u)' \in Nat
                           \/ Era(u)' = Era(u) /\ (Past(u) => Past(u)')
    BY <1>0, <1>a DEF Take, At, Goto, Tick, TypeOK, Era, Past, Working
  <2>2. \A o \in Objs : \/ info'[o] = info[o]
                        \/ info'[o].lcid \notin Threads
                        \/ Used(info[o].lcid, info[o].lenum)'
    BY DEF Take
  <2>3. \A v, u \in Threads : u # v => \/ era'[u][v] = era[u][v]
                                       \/ era'[u][v] \in Nat /\ Used(v, era'[u][v])
                                       \/ Used(v, era[u][v])'
    BY <1>0, <1>a DEF TypeOK
  <2>4. \A u \in Threads : \/ loc'[u].saw = loc[u].saw
                           \/ loc'[u].saw.lcid \notin Threads
                           \/ \E o \in Objs : loc'[u].saw = info[o]
                           \/ Used(loc[u].saw.lcid, loc[u].saw.lenum)'
    BY <1>0, <1>a DEF Take, TypeOK, Locals, Used, Era
  <2>5. QED
    BY <1>0, <2>1, <2>2, <2>3, <2>4, BoundFrame
<1>4. LogInv'
  <2>1. \A u \in Threads : Era(u)' \in Nat /\ Era(u)' >= Era(u)
    BY <1>0, <1>a DEF Era, TypeOK
  <2>2. redo' = redo
    BY DEF Take
  <2>3. QED
    BY <1>0, <2>1, <2>2, LogFrame
<1>5. StaleInv'
  <2>1. \A u \in Threads : u # t => loc'[u] = loc[u] /\ pc'[u] = pc[u] /\ Era(u)' = Era(u)
    BY <1>0, <1>a DEF Take, Goto, TypeOK, Era
  <2>2. pc[t] = "pptr" /\ pc'[t] = "taken" /\ loc'[t].ref = loc[t].ref /\ loc'[t].op = loc[t].op
    BY <1>0 DEF Take, At, Goto, TypeOK, Locals
  <2>3. redo' = redo /\ mode' = mode /\ slot' = slot /\ ref' = ref
    BY DEF Take
  <2>4. \A i \in RedoIndex : redo[t][i].func # "none" => redo[t][i].era # Era(t)'
    BY <1>0, <1>a DEF LogInv, TypeOK, Entry, Era
  <2>5. QED
    <3>1. ASSUME NEW i \in RedoIndex, mode'[t] \in Working, redo'[t][i].func # "none"
          PROVE  StaleLine(t, i)'
      <4>1. StaleLine(t, i) /\ redo[t][i].era # Era(t)'
        BY <1>0, <2>3, <2>4, <3>1 DEF StaleInv
      <4>2. QED
        BY <2>2, <2>3, <3>1, <4>1 DEF StaleLine, Agrees, LinkPC
    <3>2. \A u \in Threads \ {t} : era'[u][u] = era[u][u]
      BY <1>a
    <3>3. QED
      BY <1>0, <2>1, <2>3, <3>1, <3>2, StaleFrame
<1>6. LocInv' /\ PinInv' /\ BlankInv' /\ LastInv'
  BY <1>0 DEF Take, At, Goto, Tick, TypeOK, LocInv, LocOK, Working, ClientPC,
       MonitorPC, LinkPC, PinInv, Locals, BlankInv, LastInv, DropsLast
<1>7. PublishInv'
  BY <1>0 DEF Take, At, Goto, Tick, TypeOK, PublishInv
<1>8. TraceInv'
  BY <1>0 DEF Take, At, Goto, Tick, TypeOK, TraceInv, Working, Era
<1>9. WholeInv' /\ MonitorInv'
  BY <1>0 DEF Take, At, Goto, Tick, TypeOK, WholeInv, Era, Working, MonitorInv,
       Stopping, IsLast
<1>10. QED
  BY <1>1, <1>2, <1>3, <1>4, <1>5, <1>6, <1>7, <1>8, <1>9 DEF IInv

(* block_to_cxlobj writes the header: the first reference counts.          *)
LEMMA WriteHeaderStep ==
  ASSUME ~Concurrent, MaxThread \notin Threads, IInv,
         NEW t \in Threads, WriteHeader(t)
  PROVE  IInv'
<1> USE ThreadsAssumption, DataAssumption, OwnerAssumption, BoundsAssumption
<1>0. TypeOK /\ LocInv /\ PinInv /\ BlankInv /\ CountExact /\ LastInv /\ BoundInv
      /\ PublishInv /\ TraceInv /\ LogInv /\ WholeInv /\ StaleInv /\ MonitorInv
  BY DEF IInv
<1>r. /\ loc[t].ref \in Slots /\ Owner[loc[t].ref] = t /\ slot[loc[t].ref] = "pending"
      /\ loc[t].obj \in Objs /\ ref[loc[t].ref] = loc[t].obj
      /\ info[loc[t].obj] = ZeroInfo /\ loc[t].obj \notin pool
      /\ loc[t].saw \in Info /\ loc[t].saw.lcid = t /\ loc[t].saw.cnt = 1
  BY <1>0 DEF WriteHeader, At, TypeOK, LocInv, LocOK, Locals, BlankInv,
     PublishInv
<1>l. /\ loc'[t] = NoLocals /\ pc'[t] = "idle"
      /\ \A u \in Threads : u # t => loc'[u] = loc[u] /\ pc'[u] = pc[u]
      /\ mode' = mode /\ mode[t] = "live" /\ pc[t] = "taken"
      /\ era' = era /\ redo' = redo /\ ref' = ref /\ pool' = pool
  BY <1>0 DEF WriteHeader, At, Goto, Return, TypeOK
<1>c. /\ \A q \in Slots : slot'[q] = IF q = loc[t].ref THEN "used" ELSE slot[q]
      /\ \A p \in Objs : info'[p] = IF p = loc[t].obj THEN loc[t].saw ELSE info[p]
  BY <1>0, <1>r DEF WriteHeader, TypeOK
<1>1. TypeOK'
  <2>1. info' \in [Objs -> Info]
    BY <1>0, <1>r DEF WriteHeader, TypeOK
  <2>2. loc' \in [Threads -> Locals]
    BY <1>0, NullTypes DEF WriteHeader, Return, TypeOK
  <2>3. pc' \in [Threads -> ClientPC \cup MonitorPC]
    BY <1>0 DEF WriteHeader, At, Goto, Return, TypeOK, ClientPC, MonitorPC
  <2>4. slot' \in [Slots -> {"free", "used", "pending", "local"}]
    BY <1>0 DEF WriteHeader, TypeOK
  <2>5. QED
    BY <1>0, <2>1, <2>2, <2>3, <2>4 DEF WriteHeader, At, Goto, Return, TypeOK
<1>2. LocInv'
  <2>1. LocOK(t)'
    BY <1>r, <1>l DEF LocOK, NoLocals, Working, ClientPC, LinkPC
  <2>2. QED
    BY <1>0, <1>r, <1>l, <1>c, <2>1, LocFrame
<1>3. PinInv'
  <2>1. \A u \in Threads : loc[u].src \in Slots \cup {Null}
    BY <1>0 DEF TypeOK, Locals
  <2>2. QED
    BY <1>0, <1>r, <1>l, <1>c, <2>1 DEF PinInv, NoLocals
<1>4. BlankInv'
  BY <1>0, <1>r, <1>l, <1>c DEF BlankInv, TypeOK
<1>5. CountExact'
  <2>1. eff[loc[t].ref] = Null
    BY <1>r DEF eff
  <2>2. \A q \in Slots : eff'[q] = IF q = loc[t].ref THEN loc[t].obj ELSE eff[q]
    <3>1. ASSUME NEW q \in Slots, Owner[q] = t
          PROVE  eff'[q] = IF q = loc[t].ref THEN loc[t].obj ELSE eff[q]
      BY <1>r, <1>l, <1>c, <3>1 DEF eff, Committed
    <3>2. ASSUME NEW q \in Slots, Owner[q] # t
          PROVE  eff'[q] = eff[q]
      BY <1>r, <1>l, <1>c, <3>2 DEF eff, Committed
    <3>3. QED
      BY <1>r, <3>1, <3>2
  <2>3. \A p \in Objs :
          info'[p].cnt = IF p = loc[t].obj THEN info[p].cnt + 1 ELSE info[p].cnt
    BY <1>r, <1>c DEF ZeroInfo
  <2>4. QED
    BY <1>0, <1>r, <2>1, <2>2, <2>3, CountAdd
<1>6. LastInv'
  <2>1. \A u \in Threads : DropsLast(u) => loc[u].obj # loc[t].obj /\ loc[u].obj \in Objs
    BY <1>0, <1>r, ThreadsAssumption DEF LastInv, ZeroInfo, TypeOK, Locals,
       DropsLast, LocInv, LocOK, Working, LinkPC
  <2>2. QED
    BY <1>0, <1>r, <1>l, <1>c, <2>1 DEF LastInv, DropsLast, NoLocals, Working
<1>7. BoundInv'
  <2>1. \A u \in Threads : \/ Era(u)' > Era(u) /\ Era(u)' \in Nat
                           \/ Era(u)' = Era(u) /\ (Past(u) => Past(u)')
    BY <1>0, ThreadsAssumption DEF WriteHeader, At, Goto, Return, TypeOK, Era,
       Past, Working
  <2>2. \A o \in Objs : \/ info'[o] = info[o]
                        \/ info'[o].lcid \notin Threads
                        \/ Used(info[o].lcid, info[o].lenum)'
    BY <1>0, <1>r, <1>l, <1>c DEF BoundInv, Used, Past, Era, Working
  <2>3. \A v, u \in Threads : u # v => \/ era'[u][v] = era[u][v]
                                       \/ era'[u][v] \in Nat /\ Used(v, era'[u][v])
                                       \/ Used(v, era[u][v])'
    BY DEF WriteHeader
  <2>4. \A u \in Threads : \/ loc'[u].saw = loc[u].saw
                           \/ loc'[u].saw.lcid \notin Threads
                           \/ \E o \in Objs : loc'[u].saw = info[o]
                           \/ Used(loc[u].saw.lcid, loc[u].saw.lenum)'
    BY <1>l, ThreadsAssumption DEF NoLocals, ZeroInfo
  <2>5. QED
    BY <1>0, <2>1, <2>2, <2>3, <2>4, BoundFrame
<1>8. TraceInv'
  <2>1. \A u, v \in Threads : era'[u][v] \in Nat /\ era'[u][v] >= era[u][v]
    BY <1>0, <1>l DEF TypeOK
  <2>2. ASSUME NEW u \in Threads, mode'[u] \in Working, pc'[u] \in {"cased", "written"}
        PROVE  /\ mode[u] \in Working /\ pc[u] \in {"cased", "written"}
               /\ loc'[u].obj = loc[u].obj /\ era'[u][u] = era[u][u]
               /\ \/ info'[loc[u].obj] = info[loc[u].obj]
                  \/ info[loc[u].obj].lcid # u
                  \/ \E v \in Threads : v # u /\ era'[v][u] >= info[loc[u].obj].lenum
    <3>1. loc[u].obj \in Objs
      BY <1>0, <1>l, <2>2 DEF LocInv, LocOK, LinkPC, TypeOK, Locals
    <3>2. QED
      BY <1>l, <1>r, <1>c, <2>2, <3>1, ThreadsAssumption DEF ZeroInfo
  <2>3. QED
    BY <1>0, <2>1, <2>2, TraceFrame
<1>9. StaleInv'
  <2>1. \A u \in Threads, i \in RedoIndex : redo[u][i].func # "none" =>
          redo[u][i].ref \in Slots /\ Owner[redo[u][i].ref] = u
    BY <1>0 DEF LogInv, TypeOK, Entry
  <2>2. \A i \in RedoIndex : redo[t][i].func # "none" => redo[t][i].ref # loc[t].ref
    BY <1>0, <1>r, <1>l DEF StaleInv, StaleLine, Working
  <2>3. ASSUME NEW i \in RedoIndex, redo[t][i].func # "none"
        PROVE  slot'[redo[t][i].ref] = slot[redo[t][i].ref] /\ Agrees(redo[t][i])'
    BY <1>0, <1>r, <1>l, <1>c, <2>1, <2>2, <2>3 DEF StaleInv, StaleLine,
       Agrees, LinkPC, Working
  <2>4. \A i \in RedoIndex : redo[t][i].func # "none" => redo[t][i].era # Era(t)'
    BY <1>0, <1>r, <1>l DEF StaleInv, StaleLine, Working, LinkPC, Era
  <2>5. QED
    BY <1>0, <1>r, <1>l, <1>c, <2>1, <2>3, <2>4 DEF StaleInv, StaleLine,
       Agrees, Era, NoLocals
<1>10. PublishInv' /\ LogInv' /\ WholeInv' /\ MonitorInv'
  BY <1>0 DEF WriteHeader, At, Goto, Return, TypeOK, PublishInv, LogInv, Era,
       WholeInv, Working, MonitorInv, Stopping, IsLast
<1>11. QED
  BY <1>1, <1>2, <1>3, <1>4, <1>5, <1>6, <1>7, <1>8, <1>9, <1>10 DEF IInv

(* link_reference reads the header of an object that src keeps alive.      *)
LEMMA StartLinkStep ==
  ASSUME ~Concurrent, MaxThread \notin Threads, IInv,
         NEW t \in Threads, NEW r \in Slots, StartLink(t, r)
  PROVE  IInv'
<1> USE ThreadsAssumption, DataAssumption, OwnerAssumption, BoundsAssumption
<1>0. TypeOK /\ LocInv /\ PinInv /\ BlankInv /\ CountExact /\ LastInv /\ BoundInv
      /\ PublishInv /\ TraceInv /\ LogInv /\ WholeInv /\ StaleInv /\ MonitorInv
  BY DEF IInv
<1>1. CountExact'
  <2>1. eff' = eff
    BY <1>0 DEF StartLink, At, Goto, Begin, Settled, TypeOK, eff, Committed,
       LocInv, LocOK, LinkPC
  <2>2. QED
    BY <1>0, <2>1 DEF StartLink, At, Goto, Begin, Settled, CountExact, Refs
<1>2. BoundInv'
  <2>1. info' = info /\ era' = era
    BY DEF StartLink, At, Goto, Begin, Settled
  <2>2. \A u \in Threads : Era(u)' = Era(u) /\ (Past(u) => Past(u)')
    BY <1>0, <2>1 DEF StartLink, At, Goto, Begin, Settled, TypeOK, LocInv,
       LocOK, Era, Past, Working
  <2>3. \A u \in Threads : \/ loc'[u].saw = loc[u].saw
                           \/ \E o \in Objs : loc'[u].saw = info[o]
    BY <1>0 DEF StartLink, At, Goto, Begin, Settled, TypeOK, LocInv, LocOK,
       LinkPC, Locals
  <2>4. QED
    BY <1>0, <2>1, <2>2, <2>3, BoundFrame
<1>3. StaleInv'
  <2>1. \A u \in Threads \ {t} :
          /\ loc'[u] = loc[u] /\ pc'[u] = pc[u] /\ mode'[u] = mode[u]
          /\ redo'[u] = redo[u] /\ era'[u][u] = era[u][u]
    BY <1>0 DEF StartLink, At, Goto, Begin, Settled, TypeOK
  <2>2. \A q \in Slots : Owner[q] # t => slot'[q] = slot[q] /\ ref'[q] = ref[q]
    BY <1>0 DEF StartLink, At, Goto, Begin, Settled, TypeOK, LocInv, LocOK
  <2>3. \A i \in RedoIndex :
          mode'[t] \in Working /\ redo'[t][i].func # "none" => StaleLine(t, i)'
    BY <1>0 DEF StartLink, At, Goto, Begin, Settled, TypeOK, Locals, Entry,
       StaleInv, StaleLine, Working,
       Era, LogInv, Agrees, LinkPC, LocInv, LocOK
  <2>4. QED
    BY <1>0, <2>1, <2>2, <2>3, StaleFrame
<1>4. TypeOK' /\ LocInv' /\ PinInv' /\ BlankInv' /\ LastInv'
  BY <1>0 DEF StartLink, At, Goto, Begin, Settled, TypeOK, Locals, ClientPC,
       MonitorPC, Working, LocInv, LocOK, LinkPC, PinInv, BlankInv, LastInv,
       DropsLast
<1>5. PublishInv' /\ TraceInv'
  BY <1>0 DEF StartLink, At, Goto, Begin, Settled, TypeOK, PublishInv,
       TraceInv, Working, Era
<1>6. LogInv' /\ WholeInv' /\ MonitorInv'
  BY <1>0 DEF StartLink, At, Goto, Begin, Settled, TypeOK, LogInv, Era,
       WholeInv, Working, MonitorInv, Stopping, IsLast
<1>7. QED
  BY <1>1, <1>2, <1>3, <1>4, <1>5, <1>6 DEF IInv

(* unlink_reference reads the header of the object it will drop.           *)
LEMMA StartDropStep ==
  ASSUME ~Concurrent, MaxThread \notin Threads, IInv,
         NEW t \in Threads, NEW r \in Slots, StartDrop(t, r)
  PROVE  IInv'
<1> USE ThreadsAssumption, DataAssumption, OwnerAssumption, BoundsAssumption
<1>0. TypeOK /\ LocInv /\ PinInv /\ BlankInv /\ CountExact /\ LastInv /\ BoundInv
      /\ PublishInv /\ TraceInv /\ LogInv /\ WholeInv /\ StaleInv /\ MonitorInv
  BY DEF IInv
<1>1. CountExact'
  <2>1. eff' = eff
    BY <1>0 DEF StartDrop, At, Goto, Begin, Settled, Pinned, TypeOK, eff,
       Committed, LocInv, LocOK, LinkPC
  <2>2. QED
    BY <1>0, <2>1 DEF StartDrop, At, Goto, Begin, Settled, Pinned, CountExact,
       Refs
<1>2. BoundInv'
  <2>1. info' = info /\ era' = era
    BY DEF StartDrop, At, Goto, Begin, Settled, Pinned
  <2>2. \A u \in Threads : Era(u)' = Era(u) /\ (Past(u) => Past(u)')
    BY <1>0, <2>1 DEF StartDrop, At, Goto, Begin, Settled, Pinned, TypeOK,
       LocInv, LocOK, Era, Past, Working
  <2>3. \A u \in Threads : \/ loc'[u].saw = loc[u].saw
                           \/ \E o \in Objs : loc'[u].saw = info[o]
    BY <1>0 DEF StartDrop, At, Goto, Begin, Settled, Pinned, TypeOK, LocInv,
       LocOK, LinkPC, Locals
  <2>4. QED
    BY <1>0, <2>1, <2>2, <2>3, BoundFrame
<1>3. LogInv'
  <2>1. \A u \in Threads : Era(u)' \in Nat /\ Era(u)' >= Era(u)
    BY <1>0 DEF StartDrop, At, Goto, Begin, Settled, Pinned, Era, TypeOK
  <2>2. \A u \in Threads, j \in RedoIndex : redo'[u][j] \in {redo[u][j], NoEntry}
    BY <1>0 DEF StartDrop, At, Goto, Begin, Settled, Pinned, TypeOK
  <2>3. QED
    BY <1>0, <2>1, <2>2, LogFrame
<1>4. StaleInv'
  <2>1. \A u \in Threads \ {t} :
          /\ loc'[u] = loc[u] /\ pc'[u] = pc[u] /\ mode'[u] = mode[u]
          /\ redo'[u] = redo[u] /\ era'[u][u] = era[u][u]
    BY <1>0 DEF StartDrop, At, Goto, Begin, Settled, Pinned, TypeOK
  <2>2. \A q \in Slots : Owner[q] # t => slot'[q] = slot[q] /\ ref'[q] = ref[q]
    BY <1>0 DEF StartDrop, At, Goto, Begin, Settled, Pinned, TypeOK, LocInv,
       LocOK
  <2>3. \A i \in RedoIndex :
          mode'[t] \in Working /\ redo'[t][i].func # "none" => StaleLine(t, i)'
    BY <1>0 DEF StartDrop, At, Goto, Begin, Settled, Pinned, TypeOK, Locals,
       Entry, StaleInv, StaleLine, Working,
       Era, LogInv, Agrees, LinkPC, LocInv, LocOK
  <2>4. QED
    BY <1>0, <2>1, <2>2, <2>3, StaleFrame
<1>5. TypeOK' /\ LocInv' /\ PinInv' /\ BlankInv' /\ LastInv'
  BY <1>0 DEF StartDrop, At, Goto, Begin, Settled, Pinned, TypeOK, Locals,
       ClientPC, MonitorPC, Working, LocInv, LocOK, LinkPC, PinInv, BlankInv,
       LastInv, DropsLast
<1>6. PublishInv'
  BY <1>0 DEF StartDrop, At, Goto, Begin, Settled, Pinned, TypeOK, PublishInv
<1>7. TraceInv' /\ WholeInv' /\ MonitorInv'
  BY <1>0 DEF StartDrop, At, Goto, Begin, Settled, Pinned, TypeOK, TraceInv,
       Working, Era, WholeInv, MonitorInv, Stopping, IsLast
<1>8. QED
  BY <1>1, <1>2, <1>3, <1>4, <1>5, <1>6, <1>7 DEF IInv

(* era() publishes what was read; the redo log is written.                 *)
LEMMA PrepareStep ==
  ASSUME ~Concurrent, MaxThread \notin Threads, IInv,
         NEW t \in Threads, Prepare(t)
  PROVE  IInv'
<1> USE ThreadsAssumption, DataAssumption, OwnerAssumption, BoundsAssumption
<1>0. TypeOK /\ LocInv /\ PinInv /\ BlankInv /\ CountExact /\ LastInv /\ BoundInv
      /\ PublishInv /\ TraceInv /\ LogInv /\ WholeInv /\ StaleInv /\ MonitorInv
  BY DEF IInv
<1>s. loc[t].saw \in Info
  BY <1>0 DEF TypeOK, Locals
<1>a. /\ era' \in [Threads -> [Threads -> Nat]]
      /\ \A u, v \in Threads :
           /\ era'[u][v] >= era[u][v]
           /\ \/ era'[u][v] = era[u][v]
              \/ /\ u = t /\ v = loc[t].saw.lcid
                 /\ era'[u][v] = loc[t].saw.lenum /\ loc[t].saw.lenum > era[u][v]
      /\ loc[t].saw.lcid \in Threads => era'[t][loc[t].saw.lcid] >= loc[t].saw.lenum
  BY <1>0, <1>s, PublishType DEF Prepare
<1>r. /\ loc[t].ref \in Slots /\ Owner[loc[t].ref] = t /\ slot[loc[t].ref] = "used"
      /\ loc[t].obj \in Objs /\ loc[t].op \in {"link", "unlink"}
      /\ pc[t] = "read" /\ mode[t] = "live"
  BY <1>0 DEF Prepare, At, TypeOK, LocInv, LocOK, Locals, LinkPC
<1>e. \A u \in Threads : /\ era[u][u] \in Nat /\ Line(era[u][u]) \in RedoIndex
                         /\ Line(era[u][u] - 1) \in RedoIndex
  BY <1>0, LineOfThread
<1>u. /\ \A u \in Threads : era'[u][u] = era[u][u]
      /\ \A u, v \in Threads : era'[u][v] \in Nat /\ era'[u][v] >= era[u][v]
  BY <1>0, <1>s, <1>a, <1>r DEF BoundInv, Used, Past, Era, Working, TypeOK,
     Info
<1>l. /\ pc'[t] = "logged" /\ \A u \in Threads : u # t => pc'[u] = pc[u]
      /\ mode' = mode /\ loc' = loc /\ ref' = ref /\ slot' = slot /\ info' = info
  BY <1>0 DEF Prepare, Goto, TypeOK
<1>c. \A u \in Threads, i \in RedoIndex :
        redo'[u][i] = IF u = t /\ i = Line(era[t][t])
                      THEN [func |-> loc[t].op, era |-> era[t][t],
                            ref |-> loc[t].ref, refed |-> loc[t].obj]
                      ELSE redo[u][i]
  BY <1>0, <1>e DEF Prepare, TypeOK, Era
<1>1. TypeOK'
  <2>1. [func |-> loc[t].op, era |-> era[t][t], ref |-> loc[t].ref,
        refed |-> loc[t].obj] \in Entry
    BY <1>r, <1>e DEF Entry
  <2>2. redo' \in [Threads -> [RedoIndex -> Entry]]
    BY <1>0, <1>e, <2>1 DEF Prepare, TypeOK, Era
  <2>3. pc' \in [Threads -> ClientPC \cup MonitorPC]
    BY <1>0 DEF Prepare, At, Goto, Publish, TypeOK, ClientPC, MonitorPC
  <2>4. QED
    BY <1>0, <2>1, <2>2, <2>3, <1>a DEF Prepare, At, Goto, Publish, TypeOK
<1>2. CountExact'
  <2>1. eff' = eff
    BY <1>0 DEF Prepare, At, Goto, Publish, TypeOK, eff, Committed, LocInv,
       LocOK, LinkPC
  <2>2. QED
    BY <1>0, <2>1 DEF Prepare, At, Goto, Publish, CountExact, Refs
<1>3. BoundInv'
  <2>1. \A u \in Threads : Era(u)' = Era(u) /\ (Past(u) => Past(u)')
    BY <1>u, <1>l, <1>r DEF Era, Past
  <2>2. \A v, u \in Threads : u # v => \/ era'[u][v] = era[u][v]
                                       \/ era'[u][v] \in Nat /\ Used(v, era'[u][v])
    BY <1>0, <1>s, <1>a, <1>u DEF BoundInv
  <2>3. QED
    BY <1>0, <1>l, <2>1, <2>2, BoundFrame
<1>4. PublishInv'
  <2>1. \A u \in Threads : u # t => \A v \in Threads : era'[u][v] = era[u][v]
    BY <1>a
  <2>2. /\ \A u \in Threads : mode[u] = "live" /\ pc[u] = "logged" /\ loc[u].saw.lcid \in Threads
                                => era[u][loc[u].saw.lcid] >= loc[u].saw.lenum
        /\ \A u \in Threads : mode[u] \in {"live", "crashed"} /\ pc[u] = "taken"
                                => loc[u].saw.lcid = u /\ loc[u].saw.cnt = 1
    BY <1>0 DEF PublishInv
  <2>3. ASSUME NEW u \in Threads, mode'[u] = "live", pc'[u] = "logged",
               loc'[u].saw.lcid \in Threads
        PROVE  era'[u][loc'[u].saw.lcid] >= loc'[u].saw.lenum
    <3>1. CASE u = t
      BY <1>a, <1>l, <2>3, <3>1
    <3>2. CASE u # t
      BY <1>l, <2>1, <2>2, <2>3, <3>2
    <3>3. QED
      BY <3>1, <3>2
  <2>4. ASSUME NEW u \in Threads, mode'[u] \in {"live", "crashed"}, pc'[u] = "taken"
        PROVE  loc'[u].saw.lcid = u /\ loc'[u].saw.cnt = 1
    BY <1>l, <2>2, <2>4
  <2>5. QED
    BY <2>3, <2>4 DEF PublishInv
<1>5. TraceInv'
  BY <1>0, <1>u, <1>l, TraceFrame
<1>6. LogInv'
  <2>1. \A u \in Threads : Era(u)' = Era(u)
    BY <1>u DEF Era
  <2>2. era[t][t] \in 1..era[t][t]
    BY <1>0, <1>e DEF BoundInv, Era
  <2>3. QED
    BY <1>0, <1>c, <1>r, <2>1, <2>2, DataAssumption DEF LogInv, Era
<1>7. WholeInv'
  <2>1. ASSUME NEW u \in Threads, u # t
        PROVE  redo'[u] = redo[u] /\ era'[u][u] = era[u][u] /\ pc'[u] = pc[u]
    <3>1. redo'[u] = redo[u]
      BY <1>0, <2>1 DEF Prepare, TypeOK
    <3>2. QED
      BY <1>u, <1>l, <2>1, <3>1
  <2>2. redo'[t][Line(era'[t][t])] = [func |-> loc[t].op, era |-> era'[t][t],
                                     ref |-> loc[t].ref, refed |-> loc[t].obj]
    <3>1. Line(era'[t][t]) = Line(era[t][t]) /\ era'[t][t] = era[t][t]
      BY <1>u
    <3>2. QED
      BY <1>c, <1>e, <3>1
  <2>3. QED
    <3>1. ASSUME NEW u \in Threads, u # t
          PROVE  /\ redo'[u] = redo[u] /\ era'[u][u] = era[u][u] /\ pc'[u] = pc[u]
                 /\ mode'[u] = mode[u] /\ loc'[u] = loc[u]
      BY <1>l, <2>1, <3>1
    <3>2. \A u \in Threads : u # t =>
            /\ mode'[u] \in Working /\ pc'[u] \in {"logged", "cased", "written"} =>
                 redo'[u][Line(Era(u)')] = [func |-> loc'[u].op, era |-> Era(u)',
                                           ref |-> loc'[u].ref, refed |-> loc'[u].obj]
            /\ mode'[u] \in Working /\ pc'[u] \in {"free", "unlinked"} =>
                 redo'[u][Line(Era(u)' - 1)] =
                   [func |-> "unlink", era |-> Era(u)' - 1,
                    ref |-> loc'[u].ref, refed |-> loc'[u].obj]
      BY <1>0, <3>1 DEF WholeInv, Era
    <3>3. QED
      BY <1>l, <2>2, <3>2 DEF WholeInv, Era
<1>8. StaleInv'
  BY <1>0, <1>u, <1>l, <1>c, <1>r, <1>e DEF StaleInv, StaleLine, Agrees, Era,
     LinkPC, Working
<1>9. LocInv' /\ PinInv'
  BY <1>0 DEF Prepare, At, Goto, Publish, TypeOK, LocInv, LocOK, Working,
       ClientPC, MonitorPC, LinkPC, PinInv, Locals
<1>10. BlankInv' /\ LastInv' /\ MonitorInv'
  BY <1>0 DEF Prepare, At, Goto, Publish, TypeOK, BlankInv, LocInv, LocOK,
       LastInv, DropsLast, Working, MonitorInv, Stopping, IsLast
<1>11. QED
  BY <1>1, <1>2, <1>3, <1>4, <1>5, <1>6, <1>7, <1>8, <1>9, <1>10 DEF IInv

(* The compare-and-swap: the reference counts, or counts no longer.        *)
LEMMA CasStep ==
  ASSUME ~Concurrent, MaxThread \notin Threads, IInv,
         NEW t \in Threads, Cas(t)
  PROVE  IInv'
<1> USE ThreadsAssumption, DataAssumption, OwnerAssumption, BoundsAssumption
<1>0. TypeOK /\ LocInv /\ PinInv /\ BlankInv /\ CountExact /\ LastInv /\ BoundInv
      /\ PublishInv /\ TraceInv /\ LogInv /\ WholeInv /\ StaleInv /\ MonitorInv
  BY DEF IInv
<1>r. /\ loc[t].ref \in Slots /\ Owner[loc[t].ref] = t /\ slot[loc[t].ref] = "used"
      /\ loc[t].obj \in Objs /\ loc[t].op \in {"link", "unlink"}
      /\ pc[t] = "logged" /\ mode[t] = "live" /\ info[loc[t].obj] = loc[t].saw
  BY <1>0 DEF Cas, At, TypeOK, LocInv, LocOK, Locals, LinkPC
<1>l. /\ pc'[t] = "cased" /\ \A u \in Threads : u # t => pc'[u] = pc[u]
      /\ mode' = mode /\ loc' = loc /\ ref' = ref /\ slot' = slot /\ era' = era
      /\ pool' = pool /\ redo' = redo
  BY <1>0 DEF Cas, Goto, TypeOK
<1>c. \A p \in Objs : info'[p] = IF p = loc[t].obj
                                THEN [lcid |-> t, cnt |-> NewCount(t), lenum |-> Era(t)]
                                ELSE info[p]
  BY <1>0, <1>r DEF Cas, TypeOK
<1>n. info[loc[t].obj].cnt # 0
  <2>1. CASE loc[t].op = "unlink"
    <3>1. eff[loc[t].ref] = loc[t].obj
      BY <1>0, <1>r, <2>1 DEF eff, Committed, LocInv, LocOK, LinkPC
    <3>2. QED
      BY <1>0, <1>r, <3>1, Unreferenced
  <2>2. CASE loc[t].op = "link"
    <3>1. loc[t].src \in Slots /\ loc[t].src # Null
      BY <1>0, <1>r, <2>2 DEF LocInv, LocOK, LinkPC, TypeOK, Locals
    <3>2. eff[loc[t].src] = loc[t].obj
      BY <1>0, <1>r, <3>1 DEF eff, PinInv
    <3>3. QED
      BY <1>0, <1>r, <3>1, <3>2, Unreferenced
  <2>3. QED
    BY <1>r, <2>1, <2>2
<1>1. TypeOK'
  <2>1. info[loc[t].obj].cnt \in Nat
    BY <1>0, <1>r DEF TypeOK, Info
  <2>2. NewCount(t) \in Nat
    BY <1>n, <1>r, <2>1 DEF NewCount
  <2>3. [lcid |-> t, cnt |-> NewCount(t), lenum |-> Era(t)] \in Info
    BY <1>0, <2>2, InfoRecord DEF TypeOK, Era
  <2>4. info' \in [Objs -> Info]
    BY <1>0, <1>r, <2>3 DEF Cas, TypeOK
  <2>5. pc' \in [Threads -> ClientPC \cup MonitorPC]
    BY <1>0 DEF Cas, At, Goto, NewCount, TypeOK, ClientPC, MonitorPC
  <2>6. QED
    BY <1>0, <2>1, <2>2, <2>3, <2>4, <2>5 DEF Cas, At, Goto, NewCount, TypeOK
<1>2. BlankInv'
  <2>1. info[loc[t].obj] # ZeroInfo
    BY <1>n DEF ZeroInfo
  <2>2. QED
    BY <1>0, <1>c, <1>l, <2>1 DEF BlankInv, TypeOK
<1>3. CountExact'
  <2>1. \A q \in Slots : q # loc[t].ref => eff'[q] = eff[q]
    BY <1>r, <1>l DEF eff, Committed
  <2>2. info[loc[t].obj].cnt \in Nat
    BY <1>0, <1>r DEF TypeOK, Info
  <2>3. CASE loc[t].op = "link"
    <3>1. eff[loc[t].ref] = Null /\ eff'[loc[t].ref] = loc[t].obj
      BY <1>0, <1>r, <1>l, <2>3 DEF eff, Committed, LocInv, LocOK, LinkPC
    <3>2. \A p \in Objs :
            info'[p].cnt = IF p = loc[t].obj THEN info[p].cnt + 1 ELSE info[p].cnt
      BY <1>r, <1>c, <2>3 DEF NewCount
    <3>3. QED
      BY <1>0, <1>r, <2>1, <3>1, <3>2, CountAdd
  <2>4. CASE loc[t].op = "unlink"
    <3>1. eff[loc[t].ref] = loc[t].obj /\ eff'[loc[t].ref] = Null
      BY <1>0, <1>r, <1>l, <2>4 DEF eff, Committed, LocInv, LocOK, LinkPC
    <3>2. \A p \in Objs :
            info'[p].cnt = IF p = loc[t].obj THEN info[p].cnt - 1 ELSE info[p].cnt
      BY <1>r, <1>c, <2>4 DEF NewCount
    <3>3. QED
      BY <1>0, <1>r, <2>1, <3>1, <3>2, CountRemove
  <2>5. QED
    BY <1>r, <2>3, <2>4
<1>4. LastInv'
  <2>1. \A u \in Threads : loc[u].obj \in Objs \cup {Null}
    BY <1>0 DEF TypeOK, Locals
  <2>2. \A u \in Threads : u # t /\ DropsLast(u) => loc[u].obj \in Objs /\ loc[u].obj # loc[t].obj
    BY <1>0, <1>n, <2>1 DEF LastInv, DropsLast, LocInv, LocOK, Working, LinkPC
  <2>3. ASSUME NEW u \in Threads, DropsLast(u)'
        PROVE  info'[loc[u].obj].lcid = u /\ info'[loc[u].obj].cnt = 0
    <3>1. CASE u = t
      BY <1>r, <1>l, <1>c, <2>3, <3>1 DEF DropsLast, NewCount
    <3>2. CASE u # t
      BY <1>0, <1>l, <1>c, <2>2, <2>3, <3>2 DEF DropsLast, LastInv
    <3>3. QED
      BY <3>1, <3>2
  <2>4. QED
    BY <1>0, <1>l, <2>3 DEF LastInv
<1>5. TraceInv'
  <2>1. \A u, v \in Threads : era'[u][v] \in Nat /\ era'[u][v] >= era[u][v]
    BY <1>0, <1>l DEF TypeOK
  <2>2. \A u \in Threads : pc[u] \in {"cased", "written"} => loc[u].obj \in Objs
    BY <1>0 DEF LocInv, LocOK, LinkPC, TypeOK, Locals
  <2>3. \A u \in Threads : u # t /\ info[loc[t].obj].lcid = u =>
          era[t][u] >= info[loc[t].obj].lenum
    BY <1>0, <1>r DEF PublishInv
  <2>4. info'[loc[t].obj].lcid = t /\ info'[loc[t].obj].lenum = era[t][t]
    BY <1>r, <1>c DEF Era
  <2>5. QED
    BY <1>0, <1>l, <1>c, <2>1, <2>2, <2>3, <2>4, TraceFrame
<1>6. StaleInv'
  <2>1. \A u \in Threads \ {t} :
          /\ loc'[u] = loc[u] /\ pc'[u] = pc[u] /\ mode'[u] = mode[u]
          /\ redo'[u] = redo[u] /\ era'[u][u] = era[u][u]
    BY <1>0 DEF Cas, At, Goto, NewCount, TypeOK
  <2>2. \A q \in Slots : Owner[q] # t => slot'[q] = slot[q] /\ ref'[q] = ref[q]
    BY <1>0 DEF Cas, At, Goto, NewCount, TypeOK, LocInv, LocOK
  <2>3. \A i \in RedoIndex :
          mode'[t] \in Working /\ redo'[t][i].func # "none" => StaleLine(t, i)'
    BY <1>0 DEF Cas, At, Goto, NewCount, TypeOK, Locals, Entry, StaleInv,
       StaleLine, Working,
       Era, LogInv, Agrees, LinkPC, LocInv, LocOK
  <2>4. QED
    BY <1>0, <2>1, <2>2, <2>3, StaleFrame
<1>7. LocInv' /\ PinInv' /\ BoundInv'
  BY <1>0 DEF Cas, At, Goto, NewCount, TypeOK, LocInv, LocOK, Working,
       ClientPC, MonitorPC, LinkPC, PinInv, Locals, BoundInv, Used, Past, Era
<1>8. PublishInv' /\ LogInv' /\ WholeInv' /\ MonitorInv'
  BY <1>0 DEF Cas, At, Goto, NewCount, TypeOK, PublishInv, LogInv, Era,
       WholeInv, Working, MonitorInv, Stopping, IsLast
<1>9. QED
  BY <1>1, <1>2, <1>3, <1>4, <1>5, <1>6, <1>7, <1>8 DEF IInv

(* The compare-and-swap fails and reads the new header.                    *)
LEMMA CasFailStep ==
  ASSUME ~Concurrent, MaxThread \notin Threads, IInv,
         NEW t \in Threads, CasFail(t)
  PROVE  IInv'
<1> USE ThreadsAssumption, DataAssumption, OwnerAssumption, BoundsAssumption
<1>0. TypeOK /\ LocInv /\ PinInv /\ BlankInv /\ CountExact /\ LastInv /\ BoundInv
      /\ PublishInv /\ TraceInv /\ LogInv /\ WholeInv /\ StaleInv /\ MonitorInv
  BY DEF IInv
<1>r. loc[t].obj \in Objs
  BY <1>0 DEF CasFail, At, TypeOK, LocInv, LocOK, Locals, LinkPC
<1>l. /\ loc'[t].saw = info[loc[t].obj]
      /\ \A u \in Threads : u # t => loc'[u] = loc[u]
  <2>1. loc[t] \in Locals
    BY <1>0 DEF TypeOK
  <2>2. loc'[t] = [loc[t] EXCEPT !.saw = info[loc[t].obj]]
    BY <1>0 DEF CasFail, TypeOK
  <2>3. loc'[t].saw = info[loc[t].obj]
    BY <2>1, <2>2 DEF Locals
  <2>4. QED
    BY <1>0, <2>3 DEF CasFail, TypeOK
<1>1. TypeOK'
  <2>1. loc' \in [Threads -> Locals]
    BY <1>0, <1>r, LocalsField DEF CasFail, TypeOK
  <2>2. pc' \in [Threads -> ClientPC \cup MonitorPC]
    BY <1>0 DEF CasFail, At, Goto, TypeOK, ClientPC, MonitorPC
  <2>3. QED
    BY <1>0, <2>1, <2>2 DEF CasFail, At, Goto, TypeOK
<1>2. CountExact'
  <2>1. eff' = eff
    BY <1>0 DEF CasFail, At, Goto, TypeOK, eff, Committed, LocInv, LocOK,
       LinkPC
  <2>2. QED
    BY <1>0, <2>1 DEF CasFail, At, Goto, CountExact, Refs
<1>3. BoundInv'
  <2>1. \A u \in Threads : Era(u)' = Era(u) /\ (Past(u) => Past(u)')
    BY <1>0 DEF CasFail, At, Goto, TypeOK, Era, Past
  <2>2. info' = info /\ era' = era
    BY DEF CasFail
  <2>3. QED
    BY <1>0, <1>r, <1>l, <2>1, <2>2, BoundFrame
<1>4. StaleInv'
  <2>1. \A u \in Threads \ {t} :
          /\ loc'[u] = loc[u] /\ pc'[u] = pc[u] /\ mode'[u] = mode[u]
          /\ redo'[u] = redo[u] /\ era'[u][u] = era[u][u]
    BY <1>0 DEF CasFail, At, Goto, TypeOK
  <2>2. \A q \in Slots : Owner[q] # t => slot'[q] = slot[q] /\ ref'[q] = ref[q]
    BY <1>0 DEF CasFail, At, Goto, TypeOK, LocInv, LocOK
  <2>3. \A i \in RedoIndex :
          mode'[t] \in Working /\ redo'[t][i].func # "none" => StaleLine(t, i)'
    BY <1>0 DEF CasFail, At, Goto, TypeOK, Locals, Entry, StaleInv, StaleLine,
       Working,
       Era, LogInv, Agrees, LinkPC, LocInv, LocOK
  <2>4. QED
    BY <1>0, <2>1, <2>2, <2>3, StaleFrame
<1>5. LocInv' /\ PinInv'
  BY <1>0 DEF CasFail, At, Goto, TypeOK, LocInv, LocOK, Working, ClientPC,
       MonitorPC, LinkPC, PinInv, Locals
<1>6. BlankInv' /\ LastInv'
  BY <1>0 DEF CasFail, At, Goto, TypeOK, BlankInv, LocInv, LocOK, LastInv,
       DropsLast, Working
<1>7. PublishInv' /\ TraceInv'
  BY <1>0 DEF CasFail, At, Goto, TypeOK, PublishInv, TraceInv, Working, Era
<1>8. LogInv' /\ WholeInv' /\ MonitorInv'
  BY <1>0 DEF CasFail, At, Goto, TypeOK, LogInv, Era, WholeInv, Working,
       MonitorInv, Stopping, IsLast
<1>9. QED
  BY <1>1, <1>2, <1>3, <1>4, <1>5, <1>6, <1>7, <1>8 DEF IInv

(* pptr follows the header.                                                *)
LEMMA WriteRefStep ==
  ASSUME ~Concurrent, MaxThread \notin Threads, IInv,
         NEW t \in Threads, WriteRef(t)
  PROVE  IInv'
<1> USE ThreadsAssumption, DataAssumption, OwnerAssumption, BoundsAssumption
<1>0. TypeOK /\ LocInv /\ PinInv /\ BlankInv /\ CountExact /\ LastInv /\ BoundInv
      /\ PublishInv /\ TraceInv /\ LogInv /\ WholeInv /\ StaleInv /\ MonitorInv
  BY DEF IInv
<1>r. /\ loc[t].ref \in Slots /\ Owner[loc[t].ref] = t /\ slot[loc[t].ref] = "used"
      /\ pc[t] = "cased" /\ mode[t] = "live"
  BY <1>0 DEF WriteRef, At, TypeOK, LocInv, LocOK, Locals, LinkPC
<1>l. /\ pc'[t] = "written" /\ \A u \in Threads : u # t => pc'[u] = pc[u]
      /\ mode' = mode /\ loc' = loc /\ slot' = slot /\ info' = info /\ pool' = pool
  BY <1>0 DEF WriteRef, Goto, TypeOK
<1>c. \A q \in Slots :
        ref'[q] = IF q = loc[t].ref THEN IF loc[t].op = "link" THEN loc[t].obj ELSE Null
                  ELSE ref[q]
  BY <1>0, <1>r DEF WriteRef, TypeOK
<1>1. LocInv'
  <2>1. LocOK(t) /\ ref'[loc[t].ref] = IF loc[t].op = "link" THEN loc[t].obj ELSE Null
    BY <1>0, <1>r, <1>c DEF LocInv
  <2>2. LocOK(t)'
    BY <1>r, <1>l, <2>1 DEF LocOK, LinkPC, Working, ClientPC
  <2>3. QED
    BY <1>0, <1>r, <1>l, <1>c, <2>2, LocFrame
<1>2. BlankInv'
  BY <1>0, <1>r, <1>l, <1>c DEF BlankInv
<1>3. CountExact'
  <2>1. eff' = eff
    BY <1>0 DEF WriteRef, At, Goto, TypeOK, eff, Committed, LocInv, LocOK,
       LinkPC
  <2>2. QED
    BY <1>0, <2>1 DEF WriteRef, At, Goto, CountExact, Refs
<1>4. StaleInv'
  <2>1. \A u \in Threads \ {t} :
          /\ loc'[u] = loc[u] /\ pc'[u] = pc[u] /\ mode'[u] = mode[u]
          /\ redo'[u] = redo[u] /\ era'[u][u] = era[u][u]
    BY <1>0 DEF WriteRef, At, Goto, TypeOK
  <2>2. \A q \in Slots : Owner[q] # t => slot'[q] = slot[q] /\ ref'[q] = ref[q]
    BY <1>0 DEF WriteRef, At, Goto, TypeOK, LocInv, LocOK
  <2>3. \A i \in RedoIndex :
          mode'[t] \in Working /\ redo'[t][i].func # "none" => StaleLine(t, i)'
    BY <1>0 DEF WriteRef, At, Goto, TypeOK, Locals, Entry, StaleInv, StaleLine,
       Working,
       Era, LogInv, Agrees, LinkPC, LocInv, LocOK
  <2>4. QED
    BY <1>0, <2>1, <2>2, <2>3, StaleFrame
<1>5. TypeOK' /\ PinInv' /\ LastInv' /\ BoundInv'
  BY <1>0 DEF WriteRef, At, Goto, TypeOK, Locals, ClientPC, MonitorPC, Working,
       PinInv, LocInv, LocOK, LinkPC, LastInv, DropsLast, BoundInv, Used, Past,
       Era
<1>6. PublishInv' /\ TraceInv' /\ LogInv' /\ WholeInv' /\ MonitorInv'
  BY <1>0 DEF WriteRef, At, Goto, TypeOK, PublishInv, TraceInv, Working, Era,
       LogInv, WholeInv, MonitorInv, Stopping, IsLast
<1>7. QED
  BY <1>1, <1>2, <1>3, <1>4, <1>5, <1>6 DEF IInv

(* link_reference ends: the era of the log is now past.                    *)
LEMMA FinishLinkStep ==
  ASSUME ~Concurrent, MaxThread \notin Threads, IInv,
         NEW t \in Threads, FinishLink(t)
  PROVE  IInv'
<1> USE ThreadsAssumption, DataAssumption, OwnerAssumption, BoundsAssumption
<1>0. TypeOK /\ LocInv /\ PinInv /\ BlankInv /\ CountExact /\ LastInv /\ BoundInv
      /\ PublishInv /\ TraceInv /\ LogInv /\ WholeInv /\ StaleInv /\ MonitorInv
  BY DEF IInv
<1>a. /\ era' \in [Threads -> [Threads -> Nat]]
      /\ \A u, v \in Threads :
           era'[u][v] = IF u = t /\ v = t THEN era[t][t] + 1 ELSE era[u][v]
  BY <1>0, TickType DEF FinishLink
<1>r. /\ loc[t].ref \in Slots /\ Owner[loc[t].ref] = t /\ slot[loc[t].ref] = "used"
      /\ loc[t].obj \in Objs /\ ref[loc[t].ref] = loc[t].obj /\ loc[t].op = "link"
      /\ pc[t] = "written" /\ mode[t] = "live"
  BY <1>0 DEF FinishLink, At, TypeOK, LocInv, LocOK, Locals, LinkPC
<1>l. /\ loc'[t] = NoLocals /\ pc'[t] = "idle"
      /\ \A u \in Threads : u # t => loc'[u] = loc[u] /\ pc'[u] = pc[u]
      /\ mode' = mode /\ slot' = slot /\ redo' = redo /\ ref' = ref
      /\ info' = info /\ pool' = pool
  BY <1>0 DEF FinishLink, Goto, Return, TypeOK
<1>1. TypeOK'
  <2>1. loc' \in [Threads -> Locals]
    BY <1>0, NullTypes DEF FinishLink, Return, TypeOK
  <2>2. pc' \in [Threads -> ClientPC \cup MonitorPC]
    BY <1>0 DEF FinishLink, At, Goto, Return, Tick, TypeOK, ClientPC, MonitorPC
  <2>3. QED
    BY <1>0, <2>1, <2>2, <1>a DEF FinishLink, At, Goto, Return, Tick, TypeOK
<1>2. LocInv'
  <2>1. LocOK(t)'
    BY <1>l, <1>r DEF LocOK, NoLocals, LinkPC, Working, ClientPC
  <2>2. QED
    BY <1>0, <1>l, <2>1, LocFrame
<1>3. PinInv'
  <2>1. \A u \in Threads : loc[u].src \in Slots \cup {Null}
    BY <1>0 DEF TypeOK, Locals
  <2>2. QED
    BY <1>0, <1>l, <2>1 DEF PinInv, NoLocals
<1>4. CountExact'
  <2>1. eff' = eff
    BY <1>0 DEF FinishLink, At, Goto, Return, Tick, TypeOK, eff, Committed,
       LocInv, LocOK, LinkPC
  <2>2. QED
    BY <1>0, <2>1 DEF FinishLink, At, Goto, Return, Tick, CountExact, Refs
<1>5. BoundInv'
  <2>1. \A u \in Threads : \/ Era(u)' > Era(u) /\ Era(u)' \in Nat
                           \/ Era(u)' = Era(u) /\ (Past(u) => Past(u)')
    BY <1>0, <1>a DEF FinishLink, At, Goto, Return, Tick, TypeOK, Era, Past,
       Working
  <2>2. \A o \in Objs : \/ info'[o] = info[o]
                        \/ info'[o].lcid \notin Threads
                        \/ Used(info[o].lcid, info[o].lenum)'
    BY DEF FinishLink
  <2>3. \A v, u \in Threads : u # v => \/ era'[u][v] = era[u][v]
                                       \/ era'[u][v] \in Nat /\ Used(v, era'[u][v])
                                       \/ Used(v, era[u][v])'
    BY <1>0, <1>a DEF TypeOK
  <2>4. \A u \in Threads : \/ loc'[u].saw = loc[u].saw
                           \/ loc'[u].saw.lcid \notin Threads
                           \/ \E o \in Objs : loc'[u].saw = info[o]
                           \/ Used(loc[u].saw.lcid, loc[u].saw.lenum)'
    BY <1>l, ThreadsAssumption DEF NoLocals, ZeroInfo
  <2>5. QED
    BY <1>0, <2>1, <2>2, <2>3, <2>4, BoundFrame
<1>6. LogInv'
  <2>1. \A u \in Threads : Era(u)' \in Nat /\ Era(u)' >= Era(u)
    BY <1>0, <1>a DEF Era, TypeOK
  <2>2. redo' = redo
    BY DEF FinishLink
  <2>3. QED
    BY <1>0, <2>1, <2>2, LogFrame
<1>7. StaleInv'
  <2>2. ASSUME NEW i \in RedoIndex, redo[t][i].func # "none"
        PROVE  slot[redo[t][i].ref] \in {"used", "local"} /\ Agrees(redo[t][i])
    <3>1. CASE redo[t][i].era = Era(t)
      <4>1. redo[t][Line(era[t][t])] = [func |-> "link", era |-> era[t][t],
                                        ref |-> loc[t].ref, refed |-> loc[t].obj]
        BY <1>0, <1>r DEF WholeInv, Working, Era
      <4>2. QED
        BY <1>0, <1>r, <2>2, <3>1, <4>1 DEF LogInv, Agrees, Era
    <3>2. CASE redo[t][i].era # Era(t)
      BY <1>0, <1>r, <2>2, <3>2 DEF StaleInv, StaleLine, Working
    <3>3. QED
      BY <3>1, <3>2
  <2>3. \A u \in Threads : u # t => Era(u)' = Era(u)
    BY <1>a DEF Era
  <2>4. \A i \in RedoIndex : redo[t][i].func # "none" => redo[t][i].era # Era(t)'
    BY <1>0, <1>a DEF LogInv, TypeOK, Entry, Era
  <2>5. QED
    <3>1. ASSUME NEW i \in RedoIndex, redo'[t][i].func # "none"
          PROVE  StaleLine(t, i)'
      <4>1. redo[t][i].ref \in Slots /\ redo[t][i].ref # Null
        BY <1>0, <1>l, <3>1 DEF LogInv, TypeOK, Entry
      <4>2. QED
        BY <1>l, <2>2, <2>4, <3>1, <4>1 DEF StaleLine, Agrees, NoLocals
    <3>2. QED
      BY <1>0, <1>l, <2>3, <3>1, StaleFrame DEF Era
<1>8. BlankInv'
  BY <1>0 DEF FinishLink, At, Goto, Return, Tick, TypeOK, BlankInv, LocInv,
       LocOK
<1>9. LastInv'
  BY <1>0 DEF FinishLink, At, Goto, Return, Tick, TypeOK, LastInv, DropsLast,
       LocInv, LocOK, Working
<1>10. PublishInv'
  BY <1>0 DEF FinishLink, At, Goto, Return, Tick, TypeOK, PublishInv
<1>11. TraceInv'
  BY <1>0 DEF FinishLink, At, Goto, Return, Tick, TypeOK, TraceInv, Working,
       Era
<1>12. WholeInv'
  BY <1>0 DEF FinishLink, At, Goto, Return, Tick, TypeOK, WholeInv, Era,
       Working
<1>13. MonitorInv'
  BY <1>0 DEF FinishLink, At, Goto, Return, Tick, TypeOK, MonitorInv, Stopping,
       IsLast, Working
<1>14. QED
  BY <1>1, <1>2, <1>3, <1>4, <1>5, <1>6, <1>7, <1>8, <1>9, <1>10, <1>11, <1>12,
       <1>13 DEF IInv

(* unlink_reference ends, with or without the last reference.              *)
LEMMA FinishUnlinkStep ==
  ASSUME ~Concurrent, MaxThread \notin Threads, IInv,
         NEW t \in Threads, FinishUnlink(t)
  PROVE  IInv'
<1> USE ThreadsAssumption, DataAssumption, OwnerAssumption, BoundsAssumption
<1>0. TypeOK /\ LocInv /\ PinInv /\ BlankInv /\ CountExact /\ LastInv /\ BoundInv
      /\ PublishInv /\ TraceInv /\ LogInv /\ WholeInv /\ StaleInv /\ MonitorInv
  BY DEF IInv
<1>a. /\ era' \in [Threads -> [Threads -> Nat]]
      /\ \A u, v \in Threads :
           era'[u][v] = IF u = t /\ v = t THEN era[t][t] + 1 ELSE era[u][v]
  BY <1>0, TickType DEF FinishUnlink
<1>r. /\ loc[t].ref \in Slots /\ Owner[loc[t].ref] = t /\ slot[loc[t].ref] = "used"
      /\ loc[t].obj \in Objs /\ ref[loc[t].ref] = Null /\ loc[t].op = "unlink"
      /\ pc[t] = "written" /\ mode[t] = "live"
  BY <1>0 DEF FinishUnlink, At, TypeOK, LocInv, LocOK, Locals, LinkPC
<1>l. /\ pc'[t] \in {"free", "unlinked"}
      /\ \A u \in Threads : u # t => pc'[u] = pc[u]
      /\ loc' = loc /\ mode' = mode /\ slot' = slot /\ redo' = redo /\ ref' = ref
      /\ info' = info /\ pool' = pool
  BY <1>0 DEF FinishUnlink, Goto, TypeOK
<1>e. \A u \in Threads : era[u][u] \in Nat
  BY <1>0 DEF TypeOK
<1>w. redo[t][Line(era[t][t])] = [func |-> "unlink", era |-> era[t][t],
                                 ref |-> loc[t].ref, refed |-> loc[t].obj]
  BY <1>0, <1>r DEF WholeInv, Working, Era
<1>1. CountExact'
  <2>1. eff' = eff
    BY <1>0 DEF FinishUnlink, At, Goto, Tick, LastDrop, TypeOK, eff, Committed,
       LocInv, LocOK, LinkPC
  <2>2. QED
    BY <1>0, <2>1 DEF FinishUnlink, At, Goto, Tick, LastDrop, CountExact, Refs
<1>2. BoundInv'
  <2>1. \A u \in Threads : \/ Era(u)' > Era(u) /\ Era(u)' \in Nat
                           \/ Era(u)' = Era(u) /\ (Past(u) => Past(u)')
    BY <1>0, <1>a DEF FinishUnlink, At, Goto, Tick, LastDrop, TypeOK, Era,
       Past, Working
  <2>2. \A o \in Objs : \/ info'[o] = info[o]
                        \/ info'[o].lcid \notin Threads
                        \/ Used(info[o].lcid, info[o].lenum)'
    BY DEF FinishUnlink
  <2>3. \A v, u \in Threads : u # v => \/ era'[u][v] = era[u][v]
                                       \/ era'[u][v] \in Nat /\ Used(v, era'[u][v])
                                       \/ Used(v, era[u][v])'
    BY <1>0, <1>a DEF TypeOK
  <2>4. \A u \in Threads : \/ loc'[u].saw = loc[u].saw
                           \/ loc'[u].saw.lcid \notin Threads
                           \/ \E o \in Objs : loc'[u].saw = info[o]
                           \/ Used(loc[u].saw.lcid, loc[u].saw.lenum)'
    BY <1>l
  <2>5. QED
    BY <1>0, <2>1, <2>2, <2>3, <2>4, BoundFrame
<1>3. LogInv'
  <2>1. \A u \in Threads : Era(u)' \in Nat /\ Era(u)' >= Era(u)
    BY <1>0, <1>a DEF Era, TypeOK
  <2>2. redo' = redo
    BY DEF FinishUnlink
  <2>3. QED
    BY <1>0, <2>1, <2>2, LogFrame
<1>4. WholeInv'
  <2>1. \A u \in Threads : u # t => era'[u][u] = era[u][u]
    BY <1>a
  <2>2. era'[t][t] - 1 = era[t][t]
    BY <1>a, <1>e
  <2>3. redo'[t][Line(era'[t][t] - 1)] =
          [func |-> "unlink", era |-> era'[t][t] - 1,
           ref |-> loc[t].ref, refed |-> loc[t].obj]
    BY <1>w, <1>l, <2>2
  <2>4. QED
    BY <1>0, <1>r, <1>l, <2>1, <2>3 DEF WholeInv, Era
<1>5. StaleInv'
  <2>1. \A u \in Threads, i \in RedoIndex : redo[u][i].func # "none" =>
          redo[u][i].ref \in Slots /\ Owner[redo[u][i].ref] = u
    BY <1>0 DEF LogInv, TypeOK, Entry
  <2>2. ASSUME NEW i \in RedoIndex, redo[t][i].func # "none"
        PROVE  \/ Agrees(redo[t][i])
               \/ redo[t][i].ref = loc[t].ref
    <3>1. CASE redo[t][i].era = Era(t)
      BY <1>0, <1>w, <2>2, <3>1 DEF LogInv, Era
    <3>2. CASE redo[t][i].era # Era(t)
      BY <1>0, <1>r, <2>2, <3>2 DEF StaleInv, StaleLine, Working
    <3>3. QED
      BY <3>1, <3>2
  <2>3. \A u \in Threads : u # t => Era(u)' = Era(u)
    BY <1>a DEF Era
  <2>4. \A i \in RedoIndex : redo[t][i].func # "none" => redo[t][i].era # Era(t)'
    BY <1>0, <1>a DEF LogInv, TypeOK, Entry, Era
  <2>5. QED
    BY <1>0, <1>r, <1>l, <2>1, <2>2, <2>3, <2>4 DEF StaleInv, StaleLine,
       Agrees, Working
<1>6. TypeOK' /\ LocInv' /\ PinInv' /\ BlankInv'
  BY <1>0 DEF FinishUnlink, At, Goto, Tick, LastDrop, TypeOK, Locals, ClientPC,
       MonitorPC, Working, LocInv, LocOK, LinkPC, PinInv, BlankInv
<1>7. LastInv' /\ PublishInv'
  BY <1>0 DEF FinishUnlink, At, Goto, Tick, LastDrop, TypeOK, LastInv,
       DropsLast, LocInv, LocOK, Working, PublishInv
<1>8. TraceInv' /\ MonitorInv'
  BY <1>0 DEF FinishUnlink, At, Goto, Tick, LastDrop, TypeOK, TraceInv,
       Working, Era, MonitorInv, Stopping, IsLast
<1>9. QED
  BY <1>1, <1>2, <1>3, <1>4, <1>5, <1>6, <1>7, <1>8 DEF IInv

(* cxl_free clears the header and lists the block.                         *)
LEMMA FreeBlockStep ==
  ASSUME ~Concurrent, MaxThread \notin Threads, IInv,
         NEW t \in Threads, FreeBlock(t)
  PROVE  IInv'
<1> USE ThreadsAssumption, DataAssumption, OwnerAssumption, BoundsAssumption
<1>0. TypeOK /\ LocInv /\ PinInv /\ BlankInv /\ CountExact /\ LastInv /\ BoundInv
      /\ PublishInv /\ TraceInv /\ LogInv /\ WholeInv /\ StaleInv /\ MonitorInv
  BY DEF IInv
<1>r. /\ loc[t].obj \in Objs /\ loc[t].op = "unlink"
      /\ info[loc[t].obj].lcid = t /\ info[loc[t].obj].cnt = 0
      /\ pc[t] = "free" /\ mode[t] = "live"
  BY <1>0 DEF FreeBlock, At, TypeOK, LocInv, LocOK, Locals, LastInv, DropsLast,
     Working
<1>l. /\ pc'[t] = "unlinked" /\ \A u \in Threads : u # t => pc'[u] = pc[u]
      /\ mode' = mode /\ loc' = loc /\ ref' = ref /\ slot' = slot /\ era' = era
      /\ pool' = pool \cup {loc[t].obj}
  BY <1>0 DEF FreeBlock, Goto, TypeOK
<1>c. \A p \in Objs : info'[p] = IF p = loc[t].obj THEN ZeroInfo ELSE info[p]
  BY <1>0, <1>r DEF FreeBlock, TypeOK
<1>z. 0 \notin Threads
  BY ThreadsAssumption
<1>1. TypeOK'
  <2>1. info' \in [Objs -> Info]
    BY <1>0, NullTypes DEF FreeBlock, TypeOK
  <2>2. pc' \in [Threads -> ClientPC \cup MonitorPC]
    BY <1>0 DEF FreeBlock, At, Goto, TypeOK, ClientPC, MonitorPC
  <2>3. pool' \subseteq Objs
    BY <1>0, <1>r, <1>l DEF TypeOK
  <2>4. QED
    BY <1>0, <2>1, <2>2, <2>3 DEF FreeBlock, At, Goto, TypeOK
<1>2. BlankInv'
  BY <1>0, <1>r, <1>l, <1>c, <1>z DEF BlankInv, ZeroInfo, TypeOK
<1>3. CountExact'
  <2>1. eff' = eff
    BY <1>0, <1>r, <1>l DEF eff, Committed
  <2>2. \A p \in Objs : info'[p].cnt = info[p].cnt
    BY <1>r, <1>c DEF ZeroInfo
  <2>3. QED
    BY <1>0, <2>1, <2>2 DEF CountExact, Refs
<1>4. BoundInv'
  <2>1. \A u \in Threads : Era(u)' = Era(u) /\ (Past(u) => Past(u)')
    BY <1>l, <1>r DEF Era, Past
  <2>2. \A o \in Objs : info'[o] = info[o] \/ info'[o].lcid \notin Threads
    BY <1>c, <1>z DEF ZeroInfo
  <2>3. QED
    BY <1>0, <1>l, <2>1, <2>2, BoundFrame
<1>5. TraceInv'
  <2>1. \A u, v \in Threads : era'[u][v] \in Nat /\ era'[u][v] >= era[u][v]
    BY <1>0, <1>l DEF TypeOK
  <2>2. \A u \in Threads : pc[u] \in {"cased", "written"} => loc[u].obj \in Objs
    BY <1>0 DEF LocInv, LocOK, LinkPC, TypeOK, Locals
  <2>3. QED
    BY <1>0, <1>r, <1>l, <1>c, <2>1, <2>2, TraceFrame
<1>6. StaleInv'
  <2>1. \A u \in Threads \ {t} :
          /\ loc'[u] = loc[u] /\ pc'[u] = pc[u] /\ mode'[u] = mode[u]
          /\ redo'[u] = redo[u] /\ era'[u][u] = era[u][u]
    BY <1>0 DEF FreeBlock, At, Goto, TypeOK
  <2>2. \A q \in Slots : Owner[q] # t => slot'[q] = slot[q] /\ ref'[q] = ref[q]
    BY <1>0 DEF FreeBlock, At, Goto, TypeOK, LocInv, LocOK
  <2>3. \A i \in RedoIndex :
          mode'[t] \in Working /\ redo'[t][i].func # "none" => StaleLine(t, i)'
    BY <1>0 DEF FreeBlock, At, Goto, TypeOK, Locals, Entry, StaleInv,
       StaleLine, Working,
       Era, LogInv, Agrees, LinkPC, LocInv, LocOK
  <2>4. QED
    BY <1>0, <2>1, <2>2, <2>3, StaleFrame
<1>7. LocInv' /\ PinInv' /\ LastInv'
  BY <1>0 DEF FreeBlock, At, Goto, TypeOK, LocInv, LocOK, Working, ClientPC,
       MonitorPC, LinkPC, PinInv, Locals, LastInv, DropsLast
<1>8. PublishInv'
  BY <1>0 DEF FreeBlock, At, Goto, TypeOK, PublishInv
<1>9. LogInv'
  BY <1>0 DEF FreeBlock, At, Goto, TypeOK, LogInv, Era
<1>10. WholeInv' /\ MonitorInv'
  BY <1>0 DEF FreeBlock, At, Goto, TypeOK, WholeInv, Era, Working, MonitorInv,
       Stopping, IsLast
<1>11. QED
  BY <1>1, <1>2, <1>3, <1>4, <1>5, <1>6, <1>7, <1>8, <1>9, <1>10 DEF IInv

(* ~CXLRef_s gives the RootRef back.                                       *)
LEMMA ReleaseStep ==
  ASSUME ~Concurrent, MaxThread \notin Threads, IInv,
         NEW t \in Threads, Release(t)
  PROVE  IInv'
<1> USE ThreadsAssumption, DataAssumption, OwnerAssumption, BoundsAssumption
<1>0. TypeOK /\ LocInv /\ PinInv /\ BlankInv /\ CountExact /\ LastInv /\ BoundInv
      /\ PublishInv /\ TraceInv /\ LogInv /\ WholeInv /\ StaleInv /\ MonitorInv
  BY DEF IInv
<1>r. /\ loc[t].ref \in Slots /\ Owner[loc[t].ref] = t /\ slot[loc[t].ref] = "used"
      /\ ref[loc[t].ref] = Null /\ pc[t] = "unlinked" /\ mode[t] = "live"
  BY <1>0 DEF Release, At, TypeOK, LocInv, LocOK, Locals, LinkPC
<1>l. /\ loc'[t] = NoLocals /\ pc'[t] = "idle"
      /\ \A u \in Threads : u # t => loc'[u] = loc[u] /\ pc'[u] = pc[u]
      /\ mode' = mode /\ redo' = redo /\ ref' = ref /\ era' = era
      /\ info' = info /\ pool' = pool
  BY <1>0 DEF Release, Goto, Return, TypeOK
<1>c. /\ slot'[loc[t].ref] = "local"
      /\ \A q \in Slots : slot'[q] # slot[q] /\ q # loc[t].ref =>
           Owner[q] = t /\ slot'[q] = "local" /\ slot[q] # "used"
  <2>1. slot'[loc[t].ref] = "local"
    BY <1>r DEF Release
  <2>2. ASSUME NEW q \in Slots, slot'[q] # slot[q], q # loc[t].ref
        PROVE  Owner[q] = t /\ slot'[q] = "local" /\ slot[q] # "used"
    BY <1>r, <2>2 DEF Release, Owned, InUse
  <2>3. QED
    BY <2>1, <2>2
<1>1. TypeOK'
  <2>1. slot' \in [Slots -> {"free", "used", "pending", "local"}]
    BY <1>0 DEF Release, TypeOK
  <2>2. loc' \in [Threads -> Locals]
    BY <1>0, NullTypes DEF Release, Return, TypeOK
  <2>3. pc' \in [Threads -> ClientPC \cup MonitorPC]
    BY <1>0 DEF Release, At, Goto, Return, InUse, Owned, TypeOK, ClientPC,
       MonitorPC
  <2>4. QED
    BY <1>0, <2>1, <2>2, <2>3 DEF Release, At, Goto, Return, InUse, Owned,
       TypeOK
<1>2. LocInv'
  <2>1. LocOK(t)'
    BY <1>r, <1>l DEF LocOK, NoLocals, LinkPC, Working, ClientPC
  <2>2. QED
    BY <1>0, <1>r, <1>l, <1>c, <2>1, LocFrame
<1>3. PinInv'
  <2>1. \A u \in Threads : loc[u].src \in Slots \cup {Null}
    BY <1>0 DEF TypeOK, Locals
  <2>2. QED
    BY <1>0, <1>r, <1>l, <1>c, <2>1 DEF PinInv, NoLocals
<1>4. CountExact'
  <2>1. eff' = eff
    BY <1>0 DEF Release, At, Goto, Return, InUse, Owned, TypeOK, eff,
       Committed, LocInv, LocOK, LinkPC
  <2>2. QED
    BY <1>0, <2>1 DEF Release, At, Goto, Return, InUse, Owned, CountExact, Refs
<1>5. BoundInv'
  <2>1. \A u \in Threads : \/ Era(u)' > Era(u) /\ Era(u)' \in Nat
                           \/ Era(u)' = Era(u) /\ (Past(u) => Past(u)')
    BY <1>0, ThreadsAssumption DEF Release, At, Goto, Return, InUse, Owned,
       TypeOK, Era, Past, Working
  <2>2. \A o \in Objs : \/ info'[o] = info[o]
                        \/ info'[o].lcid \notin Threads
                        \/ Used(info[o].lcid, info[o].lenum)'
    BY DEF Release
  <2>3. \A v, u \in Threads : u # v => \/ era'[u][v] = era[u][v]
                                       \/ era'[u][v] \in Nat /\ Used(v, era'[u][v])
                                       \/ Used(v, era[u][v])'
    BY DEF Release
  <2>4. \A u \in Threads : \/ loc'[u].saw = loc[u].saw
                           \/ loc'[u].saw.lcid \notin Threads
                           \/ \E o \in Objs : loc'[u].saw = info[o]
                           \/ Used(loc[u].saw.lcid, loc[u].saw.lenum)'
    BY <1>l, ThreadsAssumption DEF NoLocals, ZeroInfo
  <2>5. QED
    BY <1>0, <2>1, <2>2, <2>3, <2>4, BoundFrame
<1>6. StaleInv'
  <2>1. \A u \in Threads, i \in RedoIndex : redo[u][i].func # "none" =>
          redo[u][i].ref \in Slots /\ Owner[redo[u][i].ref] = u
    BY <1>0 DEF LogInv, TypeOK, Entry
  <2>2. ASSUME NEW i \in RedoIndex, redo[t][i].func # "none"
        PROVE  slot'[redo[t][i].ref] \in {"used", "local"} /\ Agrees(redo[t][i])'
    BY <1>0, <1>r, <1>l, <1>c, <2>1, <2>2 DEF StaleInv, StaleLine, Agrees,
       Working, LinkPC
  <2>3. \A u \in Threads : u # t => Era(u)' = Era(u)
    BY <1>l DEF Era
  <2>4. \A q \in Slots : Owner[q] # t => slot'[q] = slot[q]
    BY <1>r, <1>c
  <2>5. \A i \in RedoIndex : redo[t][i].func # "none" => redo[t][i].era # Era(t)'
    BY <1>0, <1>r, <1>l DEF StaleInv, StaleLine, Working, LinkPC, Era
  <2>6. QED
    <3>1. ASSUME NEW i \in RedoIndex, mode'[t] \in Working, redo'[t][i].func # "none"
          PROVE  StaleLine(t, i)'
      <4>1. redo[t][i].ref \in Slots /\ redo[t][i].ref # Null
        BY <1>l, <2>1, <3>1, DataAssumption
      <4>2. QED
        BY <1>l, <2>2, <2>5, <3>1, <4>1 DEF StaleLine, Agrees, NoLocals
    <3>2. QED
      BY <1>0, <1>l, <2>4, <3>1, StaleFrame
<1>7. BlankInv' /\ LastInv' /\ PublishInv'
  BY <1>0 DEF Release, At, Goto, Return, InUse, Owned, TypeOK, BlankInv,
       LocInv, LocOK, LastInv, DropsLast, Working, PublishInv
<1>8. TraceInv' /\ LogInv' /\ WholeInv' /\ MonitorInv'
  BY <1>0 DEF Release, At, Goto, Return, InUse, Owned, TypeOK, TraceInv,
       Working, Era, LogInv, WholeInv, MonitorInv, Stopping, IsLast
<1>9. QED
  BY <1>1, <1>2, <1>3, <1>4, <1>5, <1>6, <1>7, <1>8 DEF IInv

(* The client stops.                                                       *)
LEMMA CrashStep ==
  ASSUME ~Concurrent, MaxThread \notin Threads, IInv,
         NEW t \in Threads, Crash(t)
  PROVE  IInv'
<1> USE ThreadsAssumption, DataAssumption, OwnerAssumption, BoundsAssumption
<1>0. TypeOK /\ LocInv /\ PinInv /\ BlankInv /\ CountExact /\ LastInv /\ BoundInv
      /\ PublishInv /\ TraceInv /\ LogInv /\ WholeInv /\ StaleInv /\ MonitorInv
  BY DEF IInv
<1>1. CountExact'
  <2>1. eff' = eff
    BY <1>0 DEF Crash, TypeOK, eff, Committed, LocInv, LocOK, LinkPC
  <2>2. QED
    BY <1>0, <2>1 DEF Crash, CountExact, Refs
<1>2. StaleInv'
  <2>1. \A u \in Threads \ {t} :
          /\ loc'[u] = loc[u] /\ pc'[u] = pc[u] /\ mode'[u] = mode[u]
          /\ redo'[u] = redo[u] /\ era'[u][u] = era[u][u]
    BY <1>0 DEF Crash, TypeOK
  <2>2. \A q \in Slots : Owner[q] # t => slot'[q] = slot[q] /\ ref'[q] = ref[q]
    BY <1>0 DEF Crash, TypeOK, LocInv, LocOK
  <2>3. \A i \in RedoIndex :
          mode'[t] \in Working /\ redo'[t][i].func # "none" => StaleLine(t, i)'
    BY <1>0 DEF Crash, TypeOK, Locals, Entry, StaleInv, StaleLine, Working,
       Era, LogInv, Agrees, LinkPC, LocInv, LocOK
  <2>4. QED
    BY <1>0, <2>1, <2>2, <2>3, StaleFrame
<1>3. TypeOK' /\ LocInv' /\ PinInv' /\ BlankInv' /\ LastInv'
  BY <1>0 DEF Crash, TypeOK, Locals, ClientPC, MonitorPC, Working, LocInv,
       LocOK, LinkPC, PinInv, BlankInv, LastInv, DropsLast
<1>4. BoundInv' /\ PublishInv' /\ TraceInv' /\ LogInv' /\ WholeInv' 
      /\ MonitorInv'
  BY <1>0 DEF Crash, TypeOK, BoundInv, Used, Past, Era, Working, PublishInv,
       TraceInv, LogInv, WholeInv, MonitorInv, Stopping, IsLast
<1>5. QED
  BY <1>1, <1>2, <1>3, <1>4 DEF IInv

(* redo_ref_cnt finds the last line of the log: it is the same at both loads.*)
LEMMA RedoLoadStep ==
  ASSUME ~Concurrent, MaxThread \notin Threads, IInv,
         NEW t \in Threads, NEW i \in RedoIndex, RedoLoad(t, i)
  PROVE  IInv'
<1> USE ThreadsAssumption, DataAssumption, OwnerAssumption, BoundsAssumption
<1>0. TypeOK /\ LocInv /\ PinInv /\ BlankInv /\ CountExact /\ LastInv /\ BoundInv
      /\ PublishInv /\ TraceInv /\ LogInv /\ WholeInv /\ StaleInv /\ MonitorInv
  BY DEF IInv
<1>r. /\ mode[t] = "crashed" /\ IsLast(t, i)
      /\ \A u \in Threads : mode[u] \notin {"redo", "recover", "live"}
  BY <1>0 DEF RedoLoad, MonitorFree, Turn
<1>l. /\ mode'[t] = "redo" /\ \A u \in Threads : u # t => mode'[u] = mode[u] /\ loc'[u] = loc[u]
      /\ UNCHANGED <<era, info, ref, slot, redo, pool, pc>>
  BY <1>0 DEF RedoLoad, TypeOK
<1>s. IF redo[t][i].func = "none" THEN loc'[t].saw = ZeroInfo
      ELSE redo[t][i].refed \in Objs /\ loc'[t].saw = info[redo[t][i].refed]
  <2>1. redo[t][i].func # "none" => redo[t][i].refed \in Objs
    BY <1>0 DEF LogInv, TypeOK, Entry
  <2>2. loc[t] \in Locals
    BY <1>0 DEF TypeOK
  <2>3. loc'[t] = [loc[t] EXCEPT !.saw = IF redo[t][i].func = "none" THEN ZeroInfo
                                         ELSE info[redo[t][i].refed]]
    BY <1>0 DEF RedoLoad, TypeOK
  <2>4. QED
    BY <2>1, <2>2, <2>3 DEF Locals
<1>1. TypeOK'
  <2>1. (IF redo[t][i].func = "none" THEN ZeroInfo ELSE info[redo[t][i].refed]) \in Info
    BY <1>0, <1>s, NullTypes DEF TypeOK
  <2>2. loc' \in [Threads -> Locals]
    BY <1>0, <2>1, LocalsField DEF RedoLoad, TypeOK
  <2>3. mode' \in [Threads -> Working \cup {"recover", "gone"}]
    BY <1>0 DEF RedoLoad, TypeOK, Working
  <2>4. QED
    BY <1>0, <2>1, <2>2, <2>3 DEF RedoLoad, MonitorFree, Turn, TypeOK
<1>2. CountExact'
  <2>1. eff' = eff
    BY <1>0 DEF RedoLoad, MonitorFree, Turn, TypeOK, eff, Committed, LocInv,
       LocOK, LinkPC
  <2>2. QED
    BY <1>0, <2>1 DEF RedoLoad, MonitorFree, Turn, CountExact, Refs
<1>3. LastInv'
  <2>1. pc[t] # "rcased"
    BY <1>0, <1>r DEF LocInv, LocOK, Working, ClientPC
  <2>2. loc'[t].obj = loc[t].obj
    BY <1>0 DEF RedoLoad, TypeOK, Locals
  <2>3. \A u \in Threads : DropsLast(u)' => DropsLast(u) /\ loc'[u].obj = loc[u].obj
    BY <1>l, <1>r, <2>1, <2>2 DEF DropsLast, Working
  <2>4. QED
    BY <1>0, <1>l, <2>3 DEF LastInv
<1>4. BoundInv'
  <2>1. \A u \in Threads : \/ Era(u)' > Era(u) /\ Era(u)' \in Nat
                           \/ Era(u)' = Era(u) /\ (Past(u) => Past(u)')
    BY <1>0, ThreadsAssumption DEF RedoLoad, MonitorFree, Turn, TypeOK, Era,
       Past, Working
  <2>2. \A o \in Objs : \/ info'[o] = info[o]
                        \/ info'[o].lcid \notin Threads
                        \/ Used(info[o].lcid, info[o].lenum)'
    BY <1>l
  <2>3. \A v, u \in Threads : u # v => \/ era'[u][v] = era[u][v]
                                       \/ era'[u][v] \in Nat /\ Used(v, era'[u][v])
                                       \/ Used(v, era[u][v])'
    BY <1>l
  <2>4. \A u \in Threads : \/ loc'[u].saw = loc[u].saw
                           \/ loc'[u].saw.lcid \notin Threads
                           \/ \E o \in Objs : loc'[u].saw = info[o]
                           \/ Used(loc[u].saw.lcid, loc[u].saw.lenum)'
    BY <1>l, <1>s, ThreadsAssumption DEF ZeroInfo
  <2>5. QED
    BY <1>0, <2>1, <2>2, <2>3, <2>4, BoundFrame
<1>5. StaleInv'
  <2>1. \A u \in Threads \ {t} :
          /\ loc'[u] = loc[u] /\ pc'[u] = pc[u] /\ mode'[u] = mode[u]
          /\ redo'[u] = redo[u] /\ era'[u][u] = era[u][u]
    BY <1>0 DEF RedoLoad, MonitorFree, Turn, TypeOK
  <2>2. \A q \in Slots : Owner[q] # t => slot'[q] = slot[q] /\ ref'[q] = ref[q]
    BY <1>0 DEF RedoLoad, MonitorFree, Turn, TypeOK, LocInv, LocOK
  <2>3. \A k \in RedoIndex :
          mode'[t] \in Working /\ redo'[t][k].func # "none" => StaleLine(t, k)'
    BY <1>0 DEF RedoLoad, MonitorFree, Turn, TypeOK, Locals, Entry, StaleInv,
       StaleLine, Working,
       Era, LogInv, Agrees, LinkPC, LocInv, LocOK
  <2>4. QED
    BY <1>0, <2>1, <2>2, <2>3, StaleFrame
<1>6. MonitorInv'
  <2>1. ASSUME NEW j \in RedoIndex, IsLast(t, j)', redo[t][j].func # "none"
        PROVE  loc'[t].saw.lcid = info[redo[t][j].refed].lcid
    <3>1. IsLast(t, j)
      BY <1>l, <2>1 DEF IsLast
    <3>2. i = j
      BY <1>0, <1>r, <3>1, LastUnique
    <3>3. QED
      BY <1>s, <2>1, <3>2
  <2>2. QED
    BY <1>r, <1>l, <2>1 DEF MonitorInv, Stopping
<1>7. LocInv'
  BY <1>0 DEF RedoLoad, MonitorFree, Turn, TypeOK, LocInv, LocOK, Working,
       ClientPC, MonitorPC, LinkPC
<1>8. PinInv' /\ BlankInv'
  BY <1>0 DEF RedoLoad, MonitorFree, Turn, TypeOK, PinInv, LocInv, LocOK,
       LinkPC, Locals, BlankInv
<1>9. PublishInv'
  BY <1>0 DEF RedoLoad, MonitorFree, Turn, TypeOK, PublishInv
<1>10. TraceInv'
  BY <1>0 DEF RedoLoad, MonitorFree, Turn, TypeOK, TraceInv, Working, Era
<1>11. LogInv' /\ WholeInv'
  BY <1>0 DEF RedoLoad, MonitorFree, Turn, TypeOK, LogInv, Era, WholeInv,
       Working
<1>12. QED
  BY <1>1, <1>2, <1>3, <1>4, <1>5, <1>6, <1>7, <1>8, <1>9, <1>10, <1>11 DEF
       IInv

(* redo_ref_cnt decides; RedoKeepsStep says it decides well.               *)
LEMMA RedoApplyStep ==
  ASSUME ~Concurrent, OwnMemory, MaxThread \notin Threads, IInv,
         NEW t \in Threads, NEW i \in RedoIndex, RedoApply(t, i)
  PROVE  IInv'
<1> USE ThreadsAssumption, DataAssumption, OwnerAssumption, BoundsAssumption
<1>0. TypeOK /\ LocInv /\ PinInv /\ BlankInv /\ CountExact /\ LastInv /\ BoundInv
      /\ PublishInv /\ TraceInv /\ LogInv /\ WholeInv /\ StaleInv /\ MonitorInv
  BY DEF IInv
<1> DEFINE e == redo[t][i]
            again == e.func # "none" /\ NeedRedo(t, e, loc[t].saw.lcid, info[e.refed].lenum)
<1>r. mode[t] = "redo" /\ IsLast(t, i) /\ pc[t] \in ClientPC
  BY <1>0 DEF RedoApply, LocInv, LocOK, Working
<1>l. /\ mode'[t] = "recover" /\ pc'[t] = "scan" /\ loc'[t] = NoLocals
      /\ \A u \in Threads : u # t => mode'[u] = mode[u] /\ loc'[u] = loc[u] /\ pc'[u] = pc[u]
      /\ UNCHANGED <<era, info, slot, redo, pool>>
  BY <1>0 DEF RedoApply, TypeOK
<1>e. e.func # "none" => /\ e.ref \in Slots /\ Owner[e.ref] = t /\ e.refed \in Objs
                         /\ slot[e.ref] \in {"used", "local"}
  BY <1>0, <1>r DEF LogInv, TypeOK, Entry, StaleInv, StaleLine, Working
<1>c. \/ ref' = ref
      \/ /\ again
         /\ \A q \in Slots : ref'[q] = IF q = e.ref
                                       THEN IF e.func = "link" THEN e.refed ELSE Null
                                       ELSE ref[q]
         /\ ref' \in [Slots -> Objs \cup {Null}]
  <2>1. CASE again
    BY <1>0, <1>e, <2>1, StoreOwn DEF RedoApply
  <2>2. CASE ~again
    BY <2>2 DEF RedoApply
  <2>3. QED
    BY <2>1, <2>2
<1>q. \A q \in Slots : Owner[q] # t \/ slot[q] = "pending" => ref'[q] = ref[q]
  BY <1>c, <1>e
<1> HIDE DEF e, again
<1>1. TypeOK'
  <2>1. ref' \in [Slots -> Objs \cup {Null}]
    BY <1>0, <1>c DEF TypeOK
  <2>2. loc' \in [Threads -> Locals]
    BY <1>0, NullTypes DEF RedoApply, TypeOK
  <2>3. pc' \in [Threads -> ClientPC \cup MonitorPC]
    BY <1>0 DEF RedoApply, TypeOK, MonitorPC
  <2>4. mode' \in [Threads -> Working \cup {"recover", "gone"}]
    BY <1>0 DEF RedoApply, TypeOK
  <2>5. QED
    BY <1>0, <2>1, <2>2, <2>3, <2>4 DEF RedoApply, TypeOK
<1>2. LocInv'
  <2>1. LocOK(t)'
    BY <1>r, <1>l DEF LocOK, NoLocals, LinkPC, Working, MonitorPC
  <2>2. QED
    BY <1>0, <1>l, <1>q, <2>1, LocFrame
<1>3. PinInv'
  BY <1>0, <1>r, <1>l DEF PinInv, MonitorInv, Stopping
<1>4. BlankInv'
  BY <1>0, <1>l, <1>q DEF BlankInv
<1>5. CountExact'
  <2>1. eff' = eff
    BY RedoKeepsStep
  <2>2. QED
    BY <1>0, <1>l, <2>1 DEF CountExact, Refs
<1>6. LastInv'
  <2>1. \A u \in Threads : DropsLast(u)' => u # t
    BY <1>l DEF DropsLast, Working
  <2>2. \A u \in Threads : u # t /\ DropsLast(u)' => DropsLast(u)
    BY <1>l DEF DropsLast
  <2>3. QED
    BY <1>0, <1>l, <2>1, <2>2 DEF LastInv
<1>7. BoundInv'
  <2>1. \A u \in Threads : Era(u)' = Era(u) /\ (Past(u) => Past(u)')
    BY <1>r, <1>l DEF Era, Past, Working
  <2>2. \A o \in Objs : \/ info'[o] = info[o]
                        \/ info'[o].lcid \notin Threads
                        \/ Used(info[o].lcid, info[o].lenum)'
    BY <1>l
  <2>3. \A v, u \in Threads : u # v => \/ era'[u][v] = era[u][v]
                                       \/ era'[u][v] \in Nat /\ Used(v, era'[u][v])
                                       \/ Used(v, era[u][v])'
    BY <1>l
  <2>4. \A u \in Threads : \/ loc'[u].saw = loc[u].saw
                           \/ loc'[u].saw.lcid \notin Threads
                           \/ \E o \in Objs : loc'[u].saw = info[o]
                           \/ Used(loc[u].saw.lcid, loc[u].saw.lenum)'
    BY <1>l, ThreadsAssumption DEF NoLocals, ZeroInfo
  <2>5. QED
    BY <1>0, <2>1, <2>2, <2>3, <2>4, BoundFrame
<1>8. StaleInv'
  <2>1. \A u \in Threads \ {t} :
          /\ loc'[u] = loc[u] /\ pc'[u] = pc[u] /\ mode'[u] = mode[u]
          /\ redo'[u] = redo[u] /\ era'[u][u] = era[u][u]
    BY <1>0 DEF RedoApply, TypeOK
  <2>2. \A q \in Slots : Owner[q] # t => slot'[q] = slot[q] /\ ref'[q] = ref[q]
    BY <1>l, <1>q
  <2>3. \A k \in RedoIndex :
          mode'[t] \in Working /\ redo'[t][k].func # "none" => StaleLine(t, k)'
    BY <1>0 DEF RedoApply, TypeOK, Locals, Entry, StaleInv, StaleLine, Working,
       Era, LogInv, Agrees, LinkPC, LocInv, LocOK
  <2>4. QED
    BY <1>0, <2>1, <2>2, <2>3, StaleFrame
<1>9. PublishInv' /\ TraceInv' /\ LogInv' /\ WholeInv' /\ MonitorInv'
  <2>1. PublishInv'
    BY <1>0 DEF RedoApply, TypeOK, PublishInv
  <2>2. TraceInv'
    BY <1>0 DEF RedoApply, TypeOK, TraceInv, Working, Era, IsLast
  <2>3. LogInv'
    BY <1>0 DEF RedoApply, TypeOK, LogInv, Working, Era
  <2>4. WholeInv'
    <3>1. /\ \A u \in Threads : mode'[u] \in Working =>
                mode[u] \in Working /\ loc'[u] = loc[u] /\ pc'[u] = pc[u]
          /\ redo' = redo /\ era' = era
      BY <1>l DEF Working
    <3>2. QED
      BY <1>0, <3>1 DEF WholeInv, Era
  <2>5. MonitorInv'
    <3>1. /\ \A u \in Threads : mode[u] # "live" /\ (mode[u] \in Stopping => u = t)
          /\ mode[t] = "redo"
      BY <1>0, <1>r DEF MonitorInv, Stopping
    <3>2. /\ \A u \in Threads : mode'[u] # "live" /\ (mode'[u] \in Stopping => u = t)
          /\ \A u \in Threads : mode'[u] # "redo"
      BY <1>l, <3>1 DEF Stopping
    <3>3. QED
      BY <3>2 DEF MonitorInv
  <2>6. QED
    BY <2>1, <2>2, <2>3, <2>4, <2>5
<1>10. QED
  BY <1>1, <1>2, <1>3, <1>4, <1>5, <1>6, <1>7, <1>8, <1>9 DEF IInv

(* recovery_test_free passes over a RootRef without a counted object.      *)
LEMMA RecoverSkipStep ==
  ASSUME ~Concurrent, MaxThread \notin Threads, IInv,
         NEW t \in Threads, NEW r \in Slots, RecoverSkip(t, r)
  PROVE  IInv'
<1> USE ThreadsAssumption, DataAssumption, OwnerAssumption, BoundsAssumption
<1>0. TypeOK /\ LocInv /\ PinInv /\ BlankInv /\ CountExact /\ LastInv /\ BoundInv
      /\ PublishInv /\ TraceInv /\ LogInv /\ WholeInv /\ StaleInv /\ MonitorInv
  BY DEF IInv
<1>r. /\ pc[t] = "scan" /\ mode[t] = "recover" /\ loc[t].ref = Null /\ Owner[r] = t
      /\ slot[r] \in {"used", "pending"}
  BY <1>0 DEF RecoverSkip, At, InUse, LocInv, LocOK
<1>l. /\ UNCHANGED <<era, info, redo, pool, pc, loc, mode>>
      /\ \A q \in Slots : /\ slot'[q] = IF q = r THEN "local" ELSE slot[q]
                         /\ ref'[q] = IF q = r THEN Null ELSE ref[q]
  BY <1>0 DEF RecoverSkip, DropSlot, TypeOK
<1>1. PinInv'
  BY <1>0, <1>r, <1>l DEF PinInv, MonitorInv, Stopping
<1>2. CountExact'
  <2>1. eff[r] = Null
    <3>1. CASE slot[r] = "pending"
      BY <3>1 DEF eff
    <3>2. CASE slot[r] = "used"
      <4>1. eff[r] = ref[r]
        BY <1>r, <3>2 DEF eff, Committed
      <4>2. CASE ref[r] # Null
        <5>1. ref[r] \in Objs /\ info[ref[r]].cnt = 0
          BY <1>0, <4>2 DEF RecoverSkip, TypeOK
        <5>2. QED
          BY <1>0, <4>1, <5>1, Unreferenced
      <4>3. QED
        BY <4>1, <4>2
    <3>3. QED
      BY <1>r, <3>1, <3>2
  <2>2. \A q \in Slots : eff'[q] = eff[q]
    BY <1>l, <2>1 DEF eff, Committed
  <2>3. QED
    BY <1>0, <1>l, <2>2 DEF CountExact, Refs
<1>3. StaleInv'
  <2>1. \A u \in Threads \ {t} :
          /\ loc'[u] = loc[u] /\ pc'[u] = pc[u] /\ mode'[u] = mode[u]
          /\ redo'[u] = redo[u] /\ era'[u][u] = era[u][u]
    BY <1>0 DEF RecoverSkip, At, InUse, DropSlot, TypeOK
  <2>2. \A q \in Slots : Owner[q] # t => slot'[q] = slot[q] /\ ref'[q] = ref[q]
    BY <1>0 DEF RecoverSkip, At, InUse, DropSlot, TypeOK, LocInv, LocOK
  <2>3. \A i \in RedoIndex :
          mode'[t] \in Working /\ redo'[t][i].func # "none" => StaleLine(t, i)'
    BY <1>0 DEF RecoverSkip, At, InUse, DropSlot, TypeOK, Locals, Entry,
       StaleInv, StaleLine, Working,
       Era, LogInv, Agrees, LinkPC, LocInv, LocOK
  <2>4. QED
    BY <1>0, <2>1, <2>2, <2>3, StaleFrame
<1>4. TypeOK' /\ LocInv' /\ BlankInv' /\ LastInv' /\ BoundInv'
  BY <1>0 DEF RecoverSkip, At, InUse, DropSlot, TypeOK, Locals, ClientPC,
       MonitorPC, Working, LocInv, LocOK, LinkPC, BlankInv, LastInv, DropsLast,
       BoundInv, Used, Past, Era
<1>5. PublishInv' /\ TraceInv' /\ LogInv' /\ WholeInv' /\ MonitorInv'
  BY <1>0 DEF RecoverSkip, At, InUse, DropSlot, TypeOK, PublishInv, TraceInv,
       Working, Era, LogInv, WholeInv, MonitorInv, Stopping, IsLast
<1>6. QED
  BY <1>1, <1>2, <1>3, <1>4, <1>5 DEF IInv

(* recovery_unlink_reference reads the header.                             *)
LEMMA RecoverReadStep ==
  ASSUME ~Concurrent, MaxThread \notin Threads, IInv,
         NEW t \in Threads, NEW r \in Slots, RecoverRead(t, r)
  PROVE  IInv'
<1> USE ThreadsAssumption, DataAssumption, OwnerAssumption, BoundsAssumption
<1>0. TypeOK /\ LocInv /\ PinInv /\ BlankInv /\ CountExact /\ LastInv /\ BoundInv
      /\ PublishInv /\ TraceInv /\ LogInv /\ WholeInv /\ StaleInv /\ MonitorInv
  BY DEF IInv
<1>1. LocInv'
  <2>1. slot[r] = "used"
    BY <1>0 DEF RecoverRead, InUse, BlankInv, ZeroInfo
  <2>2. QED
    BY <1>0, <2>1 DEF RecoverRead, At, Goto, TypeOK, LocInv, LocOK, Working,
       ClientPC, MonitorPC, LinkPC
<1>2. CountExact'
  <2>1. eff' = eff
    BY <1>0 DEF RecoverRead, At, InUse, Goto, Pinned, TypeOK, eff, Committed,
       LocInv, LocOK, LinkPC
  <2>2. QED
    BY <1>0, <2>1 DEF RecoverRead, At, InUse, Goto, Pinned, CountExact, Refs
<1>3. BoundInv'
  <2>1. info' = info /\ era' = era
    BY DEF RecoverRead, At, InUse, Goto, Pinned
  <2>2. \A u \in Threads : Era(u)' = Era(u) /\ (Past(u) => Past(u)')
    BY <1>0, <2>1 DEF RecoverRead, At, InUse, Goto, Pinned, TypeOK, LocInv,
       LocOK, Era, Past, Working
  <2>3. \A u \in Threads : \/ loc'[u].saw = loc[u].saw
                           \/ \E o \in Objs : loc'[u].saw = info[o]
    BY <1>0 DEF RecoverRead, At, InUse, Goto, Pinned, TypeOK, LocInv, LocOK,
       LinkPC, Locals
  <2>4. QED
    BY <1>0, <2>1, <2>2, <2>3, BoundFrame
<1>4. LogInv'
  <2>1. \A u \in Threads : Era(u)' \in Nat /\ Era(u)' >= Era(u)
    BY <1>0 DEF RecoverRead, At, InUse, Goto, Pinned, Era, TypeOK
  <2>2. \A u \in Threads, j \in RedoIndex : redo'[u][j] \in {redo[u][j], NoEntry}
    BY <1>0 DEF RecoverRead, At, InUse, Goto, Pinned, TypeOK
  <2>3. QED
    BY <1>0, <2>1, <2>2, LogFrame
<1>5. StaleInv'
  <2>1. \A u \in Threads \ {t} :
          /\ loc'[u] = loc[u] /\ pc'[u] = pc[u] /\ mode'[u] = mode[u]
          /\ redo'[u] = redo[u] /\ era'[u][u] = era[u][u]
    BY <1>0 DEF RecoverRead, At, InUse, Goto, Pinned, TypeOK
  <2>2. \A q \in Slots : Owner[q] # t => slot'[q] = slot[q] /\ ref'[q] = ref[q]
    BY <1>0 DEF RecoverRead, At, InUse, Goto, Pinned, TypeOK, LocInv, LocOK
  <2>3. \A i \in RedoIndex :
          mode'[t] \in Working /\ redo'[t][i].func # "none" => StaleLine(t, i)'
    BY <1>0 DEF RecoverRead, At, InUse, Goto, Pinned, TypeOK, Locals, Entry,
       StaleInv, StaleLine, Working,
       Era, LogInv, Agrees, LinkPC, LocInv, LocOK
  <2>4. QED
    BY <1>0, <2>1, <2>2, <2>3, StaleFrame
<1>6. TypeOK' /\ PinInv' /\ BlankInv' /\ LastInv'
  BY <1>0 DEF RecoverRead, At, InUse, Goto, Pinned, TypeOK, Locals, ClientPC,
       MonitorPC, Working, PinInv, LocInv, LocOK, LinkPC, BlankInv, LastInv,
       DropsLast
<1>7. PublishInv'
  BY <1>0 DEF RecoverRead, At, InUse, Goto, Pinned, TypeOK, PublishInv
<1>8. TraceInv' /\ WholeInv' /\ MonitorInv'
  BY <1>0 DEF RecoverRead, At, InUse, Goto, Pinned, TypeOK, TraceInv, Working,
       Era, WholeInv, MonitorInv, Stopping, IsLast
<1>9. QED
  BY <1>1, <1>2, <1>3, <1>4, <1>5, <1>6, <1>7, <1>8 DEF IInv

(* recovery_unlink_reference swaps the header.                             *)
LEMMA RecoverCasStep ==
  ASSUME ~Concurrent, MaxThread \notin Threads, IInv,
         NEW t \in Threads, RecoverCas(t)
  PROVE  IInv'
<1> USE ThreadsAssumption, DataAssumption, OwnerAssumption, BoundsAssumption
<1>0. TypeOK /\ LocInv /\ PinInv /\ BlankInv /\ CountExact /\ LastInv /\ BoundInv
      /\ PublishInv /\ TraceInv /\ LogInv /\ WholeInv /\ StaleInv /\ MonitorInv
  BY DEF IInv
<1>s. loc[t].saw \in Info
  BY <1>0 DEF TypeOK, Locals
<1>a. /\ era' \in [Threads -> [Threads -> Nat]]
      /\ \A u, v \in Threads :
           /\ era'[u][v] >= era[u][v]
           /\ \/ era'[u][v] = era[u][v]
              \/ /\ u = t /\ v = loc[t].saw.lcid
                 /\ era'[u][v] = loc[t].saw.lenum /\ loc[t].saw.lenum > era[u][v]
      /\ loc[t].saw.lcid \in Threads => era'[t][loc[t].saw.lcid] >= loc[t].saw.lenum
  BY <1>0, <1>s, PublishType DEF RecoverCas
<1>r. /\ loc[t].ref \in Slots /\ Owner[loc[t].ref] = t /\ slot[loc[t].ref] = "used"
      /\ loc[t].obj \in Objs /\ loc[t].op = "unlink" /\ ref[loc[t].ref] = loc[t].obj
      /\ pc[t] = "rread" /\ mode[t] = "recover" /\ info[loc[t].obj] = loc[t].saw
  BY <1>0 DEF RecoverCas, At, TypeOK, LocInv, LocOK, Locals, LinkPC
<1>l. /\ pc'[t] = "rcased" /\ \A u \in Threads : u # t => pc'[u] = pc[u]
      /\ mode' = mode /\ loc' = loc /\ ref' = ref /\ slot' = slot
      /\ pool' = pool /\ redo' = redo
  BY <1>0 DEF RecoverCas, Goto, TypeOK
<1>c. \A p \in Objs : info'[p] = IF p = loc[t].obj
                                THEN [lcid |-> t, cnt |-> loc[t].saw.cnt - 1, lenum |-> Era(t)]
                                ELSE info[p]
  BY <1>0, <1>r DEF RecoverCas, NewCount, TypeOK
<1>n. info[loc[t].obj].cnt # 0 /\ eff[loc[t].ref] = loc[t].obj
  <2>1. eff[loc[t].ref] = loc[t].obj
    BY <1>r DEF eff, Committed
  <2>2. QED
    BY <1>0, <1>r, <2>1, Unreferenced
<1>u. /\ \A u \in Threads : era'[u][u] = era[u][u]
      /\ \A u, v \in Threads : era'[u][v] \in Nat
  BY <1>0, <1>s, <1>a DEF BoundInv, Used, Era, TypeOK, Info
<1>1. TypeOK'
  <2>1. info[loc[t].obj].cnt \in Nat
    BY <1>0, <1>r DEF TypeOK, Info
  <2>2. NewCount(t) \in Nat
    BY <1>n, <1>r, <2>1 DEF NewCount
  <2>3. [lcid |-> t, cnt |-> NewCount(t), lenum |-> Era(t)] \in Info
    BY <1>0, <2>2, InfoRecord DEF TypeOK, Era
  <2>4. info' \in [Objs -> Info]
    BY <1>0, <1>r, <2>3 DEF RecoverCas, TypeOK
  <2>5. pc' \in [Threads -> ClientPC \cup MonitorPC]
    BY <1>0 DEF RecoverCas, At, Goto, NewCount, Publish, TypeOK, ClientPC,
       MonitorPC
  <2>6. QED
    BY <1>0, <2>1, <2>2, <2>3, <2>4, <2>5, <1>a DEF RecoverCas, At, Goto,
       NewCount, Publish, TypeOK
<1>2. BlankInv'
  <2>1. info[loc[t].obj] # ZeroInfo
    BY <1>n DEF ZeroInfo
  <2>2. QED
    BY <1>0, <1>c, <1>l, <2>1 DEF BlankInv, TypeOK
<1>3. CountExact'
  <2>1. \A q \in Slots : q # loc[t].ref => eff'[q] = eff[q]
    BY <1>r, <1>l DEF eff, Committed
  <2>2. eff'[loc[t].ref] = Null
    BY <1>r, <1>l DEF eff, Committed
  <2>3. \A p \in Objs :
          info'[p].cnt = IF p = loc[t].obj THEN info[p].cnt - 1 ELSE info[p].cnt
    BY <1>r, <1>c
  <2>4. QED
    BY <1>0, <1>r, <1>n, <2>1, <2>2, <2>3, CountRemove
<1>4. LastInv'
  <2>1. \A u \in Threads : loc[u].obj \in Objs \cup {Null}
    BY <1>0 DEF TypeOK, Locals
  <2>2. \A u \in Threads : u # t /\ DropsLast(u) => loc[u].obj \in Objs /\ loc[u].obj # loc[t].obj
    BY <1>0, <1>n, <2>1 DEF LastInv, DropsLast, LocInv, LocOK, Working, LinkPC
  <2>3. ASSUME NEW u \in Threads, DropsLast(u)'
        PROVE  info'[loc[u].obj].lcid = u /\ info'[loc[u].obj].cnt = 0
    <3>1. CASE u = t
      BY <1>r, <1>l, <1>c, <2>3, <3>1 DEF DropsLast
    <3>2. CASE u # t
      BY <1>0, <1>l, <1>c, <2>2, <2>3, <3>2 DEF DropsLast, LastInv
    <3>3. QED
      BY <3>1, <3>2
  <2>4. QED
    BY <1>0, <1>l, <1>r, <2>3 DEF LastInv
<1>5. BoundInv'
  <2>1. \A u \in Threads : Era(u)' = Era(u) /\ (Past(u) => Past(u)')
    BY <1>u, <1>l, <1>r DEF Era, Past, Working
  <2>2. \A o \in Objs : info'[o] = info[o] \/ Used(info[o].lcid, info[o].lenum)'
    BY <1>0, <1>u, <1>l, <1>c, <1>r DEF Used, Past, Era, Working, TypeOK
  <2>3. \A v, u \in Threads : u # v => \/ era'[u][v] = era[u][v]
                                       \/ era'[u][v] \in Nat /\ Used(v, era'[u][v])
    BY <1>0, <1>s, <1>a, <1>u DEF BoundInv
  <2>4. QED
    BY <1>0, <1>l, <2>1, <2>2, <2>3, BoundFrame
<1>6. TraceInv'
  <2>1. \A u \in Threads : pc[u] \in {"cased", "written"} => loc[u].obj \in Objs
    BY <1>0 DEF LocInv, LocOK, LinkPC, TypeOK, Locals
  <2>2. \A u \in Threads : u # t /\ info[loc[t].obj].lcid = u =>
          era'[t][u] >= info[loc[t].obj].lenum
    BY <1>a, <1>r
  <2>3. QED
    <3>1. ASSUME NEW u \in Threads, mode'[u] \in Working, pc'[u] \in {"cased", "written"}
          PROVE  /\ mode[u] \in Working /\ pc[u] \in {"cased", "written"}
                 /\ loc'[u].obj = loc[u].obj /\ era'[u][u] = era[u][u]
                 /\ \/ info'[loc[u].obj] = info[loc[u].obj]
                    \/ info[loc[u].obj].lcid # u
                    \/ \E v \in Threads : v # u /\ era'[v][u] >= info[loc[u].obj].lenum
      <4>1. u # t /\ loc[u].obj \in Objs
        BY <1>r, <1>l, <2>1, <3>1 DEF Working
      <4>2. QED
        BY <1>r, <1>l, <1>c, <1>u, <2>2, <3>1, <4>1
    <3>2. QED
      BY <1>0, <1>a, <1>u, <3>1, TraceFrame
<1>7. LogInv'
  <2>1. \A u \in Threads : Era(u)' \in Nat /\ Era(u)' >= Era(u)
    BY <1>0, <1>u DEF Era, TypeOK
  <2>2. QED
    BY <1>0, <1>l, <2>1, LogFrame
<1>8. StaleInv'
  <2>1. \A u \in Threads \ {t} :
          /\ loc'[u] = loc[u] /\ pc'[u] = pc[u] /\ mode'[u] = mode[u]
          /\ redo'[u] = redo[u] /\ era'[u][u] = era[u][u]
    BY <1>0 DEF RecoverCas, At, Goto, NewCount, Publish, TypeOK
  <2>2. \A q \in Slots : Owner[q] # t => slot'[q] = slot[q] /\ ref'[q] = ref[q]
    BY <1>0 DEF RecoverCas, At, Goto, NewCount, Publish, TypeOK, LocInv, LocOK
  <2>3. \A i \in RedoIndex :
          mode'[t] \in Working /\ redo'[t][i].func # "none" => StaleLine(t, i)'
    BY <1>0 DEF RecoverCas, At, Goto, NewCount, Publish, TypeOK, Locals, Entry,
       StaleInv, StaleLine, Working,
       Era, LogInv, Agrees, LinkPC, LocInv, LocOK
  <2>4. QED
    BY <1>0, <2>1, <2>2, <2>3, StaleFrame
<1>9. LocInv' /\ PinInv'
  BY <1>0 DEF RecoverCas, At, Goto, NewCount, Publish, TypeOK, LocInv, LocOK,
       Working, ClientPC, MonitorPC, LinkPC, PinInv, Locals
<1>10. PublishInv'
  BY <1>0 DEF RecoverCas, At, Goto, NewCount, Publish, TypeOK, PublishInv
<1>11. WholeInv'
  BY <1>0 DEF RecoverCas, At, Goto, NewCount, Publish, TypeOK, WholeInv, Era,
       Working
<1>12. MonitorInv'
  BY <1>0 DEF RecoverCas, At, Goto, NewCount, Publish, TypeOK, MonitorInv,
       Stopping, IsLast, Working
<1>13. QED
  BY <1>1, <1>2, <1>3, <1>4, <1>5, <1>6, <1>7, <1>8, <1>9, <1>10, <1>11, <1>12
       DEF IInv

(* recovery_unlink_reference reads again.                                  *)
LEMMA RecoverCasFailStep ==
  ASSUME ~Concurrent, MaxThread \notin Threads, IInv,
         NEW t \in Threads, RecoverCasFail(t)
  PROVE  IInv'
<1> USE ThreadsAssumption, DataAssumption, OwnerAssumption, BoundsAssumption
<1>0. TypeOK /\ LocInv /\ PinInv /\ BlankInv /\ CountExact /\ LastInv /\ BoundInv
      /\ PublishInv /\ TraceInv /\ LogInv /\ WholeInv /\ StaleInv /\ MonitorInv
  BY DEF IInv
<1>r. loc[t].obj \in Objs
  BY <1>0 DEF RecoverCasFail, At, TypeOK, LocInv, LocOK, Locals, LinkPC
<1>s. loc[t].saw \in Info
  BY <1>0 DEF TypeOK, Locals
<1>a. /\ era' \in [Threads -> [Threads -> Nat]]
      /\ \A u, v \in Threads :
           /\ era'[u][v] >= era[u][v]
           /\ \/ era'[u][v] = era[u][v]
              \/ /\ u = t /\ v = loc[t].saw.lcid
                 /\ era'[u][v] = loc[t].saw.lenum /\ loc[t].saw.lenum > era[u][v]
  BY <1>0, <1>s, PublishType DEF RecoverCasFail
<1>u. /\ \A u \in Threads : era'[u][u] = era[u][u]
      /\ \A u, v \in Threads : era'[u][v] \in Nat
  <2>1. \A u, v \in Threads : era[u][v] \in Nat /\ era'[u][v] \in Nat
    BY <1>0, <1>a DEF TypeOK
  <2>2. loc[t].saw.lenum \in Nat
    BY <1>s DEF Info
  <2>3. loc[t].saw.lcid = t => loc[t].saw.lenum =< era[t][t]
    BY <1>0, <2>1, <2>2 DEF BoundInv, Used, Era
  <2>4. \A u \in Threads : era'[u][u] = era[u][u]
    BY <1>a, <2>1, <2>2, <2>3
  <2>5. QED
    BY <2>1, <2>4
<1>q. /\ mode[t] = "recover" /\ pc[t] = "rread"
      /\ info' = info /\ ref' = ref /\ slot' = slot /\ redo' = redo
      /\ pool' = pool /\ pc' = pc /\ mode' = mode
  BY DEF RecoverCasFail, At
<1>l. /\ loc'[t].saw = info[loc[t].obj]
      /\ \A u \in Threads : u # t => loc'[u] = loc[u]
  <2>1. loc[t] \in Locals
    BY <1>0 DEF TypeOK
  <2>2. loc'[t] = [loc[t] EXCEPT !.saw = info[loc[t].obj]]
    BY <1>0 DEF RecoverCasFail, TypeOK
  <2>3. loc'[t].saw = info[loc[t].obj]
    BY <2>1, <2>2 DEF Locals
  <2>4. QED
    BY <1>0, <2>3 DEF RecoverCasFail, TypeOK
<1>1. TypeOK'
  <2>1. loc' \in [Threads -> Locals]
    BY <1>0, <1>r, LocalsField DEF RecoverCasFail, TypeOK
  <2>2. QED
    BY <1>0, <1>a, <1>q, <2>1 DEF TypeOK
<1>2. CountExact'
  <2>1. eff' = eff
    BY <1>0 DEF RecoverCasFail, At, TypeOK, eff, Committed, LocInv, LocOK,
       LinkPC
  <2>2. QED
    BY <1>0, <2>1 DEF RecoverCasFail, At, CountExact, Refs
<1>3. BoundInv'
  <2>1. \A u \in Threads : Era(u)' = Era(u) /\ (Past(u) => Past(u)')
    BY <1>u, <1>q DEF Era, Past
  <2>2. \A v, u \in Threads : u # v => \/ era'[u][v] = era[u][v]
                                       \/ era'[u][v] \in Nat /\ Used(v, era'[u][v])
    BY <1>0, <1>s, <1>a, <1>u DEF BoundInv
  <2>3. \A u \in Threads : \/ loc'[u].saw = loc[u].saw
                            \/ \E o \in Objs : loc'[u].saw = info[o]
    BY <1>r, <1>l
  <2>4. QED
    BY <1>0, <1>q, <2>1, <2>2, <2>3, BoundFrame
<1>4. StaleInv'
  <2>1. \A u \in Threads \ {t} :
          /\ loc'[u] = loc[u] /\ pc'[u] = pc[u] /\ mode'[u] = mode[u]
          /\ redo'[u] = redo[u] /\ era'[u][u] = era[u][u]
    BY <1>l, <1>q, <1>u
  <2>2. \A q \in Slots : Owner[q] # t => slot'[q] = slot[q] /\ ref'[q] = ref[q]
    BY <1>0 DEF RecoverCasFail, At, TypeOK, LocInv, LocOK
  <2>3. \A i \in RedoIndex :
          mode'[t] \in Working /\ redo'[t][i].func # "none" => StaleLine(t, i)'
    BY <1>0 DEF RecoverCasFail, At, TypeOK, Locals, Entry, StaleInv, StaleLine,
       Working,
       Era, LogInv, Agrees, LinkPC, LocInv, LocOK
  <2>4. QED
    BY <1>0, <2>1, <2>2, <2>3, StaleFrame
<1>5. LocInv' /\ PinInv'
  BY <1>0 DEF RecoverCasFail, At, TypeOK, LocInv, LocOK, Working, ClientPC,
       MonitorPC, LinkPC, PinInv, Locals
<1>6. BlankInv' /\ LastInv'
  BY <1>0 DEF RecoverCasFail, At, TypeOK, BlankInv, LocInv, LocOK, LastInv,
       DropsLast, Working
<1>7. TraceInv'
  <2>1. \A u \in Threads :
          mode'[u] \in Working /\ pc'[u] \in {"cased", "written"} =>
            /\ mode[u] \in Working /\ pc[u] \in {"cased", "written"}
            /\ loc'[u].obj = loc[u].obj /\ era'[u][u] = era[u][u]
            /\ info'[loc[u].obj] = info[loc[u].obj]
    BY <1>l, <1>q, <1>u
  <2>2. QED
    BY <1>0, <1>a, <1>u, <2>1, TraceFrame
<1>8. LogInv'
  <2>1. \A u \in Threads : Era(u)' \in Nat /\ Era(u)' >= Era(u)
    BY <1>0, <1>u DEF Era, TypeOK
  <2>2. QED
    BY <1>0, <1>q, <2>1, LogFrame
<1>9. PublishInv'
  <2>1. ASSUME NEW u \in Threads, u # t, loc[u].saw.lcid \in Threads,
               era[u][loc[u].saw.lcid] >= loc[u].saw.lenum
        PROVE  era'[u][loc[u].saw.lcid] >= loc[u].saw.lenum
    <3>1. era'[u][loc[u].saw.lcid] = era[u][loc[u].saw.lcid]
      BY <1>a, <2>1
    <3>2. QED
      BY <2>1, <3>1
  <2>2. \A u \in Threads : mode[u] \in {"live", "crashed"} => u # t /\ loc'[u] = loc[u]
    BY <1>l, <1>q
  <2>3. QED
    BY <1>0, <1>q, <2>1, <2>2 DEF PublishInv
<1>10. WholeInv' /\ MonitorInv'
  BY <1>0, <1>l, <1>q, <1>u DEF WholeInv, Era, Working, MonitorInv, Stopping, IsLast
<1>11. QED
  BY <1>1, <1>2, <1>3, <1>4, <1>5, <1>6, <1>7, <1>8, <1>9, <1>10 DEF IInv

(* recovery_garbage_collection clears the RootRef, and frees a last object.*)
LEMMA RecoverDropStep ==
  ASSUME ~Concurrent, MaxThread \notin Threads, IInv,
         NEW t \in Threads, RecoverDrop(t)
  PROVE  IInv'
<1> USE ThreadsAssumption, DataAssumption, OwnerAssumption, BoundsAssumption
<1>0. TypeOK /\ LocInv /\ PinInv /\ BlankInv /\ CountExact /\ LastInv /\ BoundInv
      /\ PublishInv /\ TraceInv /\ LogInv /\ WholeInv /\ StaleInv /\ MonitorInv
  BY DEF IInv
<1>a. /\ era' \in [Threads -> [Threads -> Nat]]
      /\ \A u, v \in Threads :
           era'[u][v] = IF u = t /\ v = t THEN era[t][t] + 1 ELSE era[u][v]
  BY <1>0, TickType DEF RecoverDrop
<1>r. /\ loc[t].ref \in Slots /\ Owner[loc[t].ref] = t /\ slot[loc[t].ref] = "used"
      /\ loc[t].obj \in Objs /\ loc[t].op = "unlink" /\ ref[loc[t].ref] = loc[t].obj
      /\ pc[t] = "rcased" /\ mode[t] = "recover" /\ 0 \notin Threads
      /\ loc[t].saw.cnt = 1 => info[loc[t].obj].lcid = t /\ info[loc[t].obj].cnt = 0
  BY <1>0, ThreadsAssumption DEF RecoverDrop, At, TypeOK, LocInv, LocOK,
     Locals, LinkPC, LastInv, DropsLast
<1>l. /\ loc'[t] = NoLocals /\ pc'[t] = "scan"
      /\ \A u \in Threads : u # t => loc'[u] = loc[u] /\ pc'[u] = pc[u]
      /\ mode' = mode /\ redo' = redo
  BY <1>0 DEF RecoverDrop, Goto, TypeOK
<1>c. \A q \in Slots : /\ slot'[q] = IF q = loc[t].ref THEN "local" ELSE slot[q]
                     /\ ref'[q] = IF q = loc[t].ref THEN Null ELSE ref[q]
  BY <1>0 DEF RecoverDrop, DropSlot, TypeOK
<1>i. \/ info' = info /\ pool' = pool
      \/ /\ loc[t].saw.cnt = 1 /\ pool' \in {pool, pool \cup {loc[t].obj}}
         /\ \A p \in Objs : info'[p] = IF p = loc[t].obj THEN ZeroInfo ELSE info[p]
         /\ info' \in [Objs -> Info]
  <2>1. CASE LastDrop(t)
    <3>1. info' = [info EXCEPT ![loc[t].obj] = ZeroInfo] /\ ZeroInfo \in Info
      BY <2>1, NullTypes DEF RecoverDrop
    <3>2. pool' \in {pool, pool \cup {loc[t].obj}} /\ loc[t].saw.cnt = 1
      BY <2>1 DEF RecoverDrop, LastDrop
    <3>3. QED
      BY <1>0, <1>r, <3>1, <3>2 DEF TypeOK
  <2>2. CASE ~LastDrop(t)
    BY <2>2 DEF RecoverDrop
  <2>3. QED
    BY <2>1, <2>2
<1>1. TypeOK'
  <2>1. loc' \in [Threads -> Locals]
    BY <1>0, NullTypes DEF RecoverDrop, TypeOK
  <2>2. pc' \in [Threads -> ClientPC \cup MonitorPC]
    BY <1>0 DEF RecoverDrop, At, Goto, DropSlot, LastDrop, Tick, TypeOK,
       ClientPC, MonitorPC
  <2>3. info' \in [Objs -> Info] /\ pool' \subseteq Objs
    BY <1>0, <1>r, <1>i DEF TypeOK
  <2>4. QED
    BY <1>0, <2>1, <2>2, <2>3, <1>a DEF RecoverDrop, At, Goto, DropSlot,
       LastDrop, Tick, TypeOK
<1>2. LocInv'
  <2>1. LocOK(t)'
    BY <1>r, <1>l DEF LocOK, NoLocals, LinkPC, Working, MonitorPC
  <2>2. QED
    BY <1>0, <1>r, <1>l, <1>c, <2>1, LocFrame
<1>3. PinInv'
  BY <1>0, <1>r, <1>l DEF PinInv, MonitorInv, Stopping
<1>4. BlankInv'
  <2>1. ASSUME NEW o \in Objs, info[o] = ZeroInfo
        PROVE  info'[o] = ZeroInfo
    BY <1>i, <2>1
  <2>2. pool' = pool \/ info'[loc[t].obj] = ZeroInfo
    BY <1>r, <1>i
  <2>3. \A q \in Slots : slot'[q] = "pending" =>
          slot[q] = "pending" /\ ref'[q] = ref[q] /\ ref[q] \in Objs
    BY <1>0, <1>c DEF BlankInv, TypeOK
  <2>4. \A q \in Slots : slot[q] = "pending" => ref[q] \notin pool'
    BY <1>0, <1>r, <1>i DEF BlankInv, ZeroInfo
  <2>5. pool \subseteq Objs /\ pool' \subseteq pool \cup {loc[t].obj}
    BY <1>0, <1>i DEF TypeOK
  <2>6. \A o \in pool' : info'[o] = ZeroInfo
    BY <1>0, <1>r, <2>1, <2>2, <2>5 DEF BlankInv
  <2>7. QED
    BY <1>0, <2>1, <2>3, <2>4, <2>6 DEF BlankInv
<1>5. CountExact'
  <2>1. \A q \in Slots : eff'[q] = eff[q]
    <3>1. eff[loc[t].ref] = Null /\ eff'[loc[t].ref] = Null
      BY <1>r, <1>c DEF eff, Committed
    <3>2. ASSUME NEW q \in Slots, q # loc[t].ref
          PROVE  eff'[q] = eff[q]
      BY <1>r, <1>l, <1>c, <3>2 DEF eff, Committed
    <3>3. QED
      BY <3>1, <3>2
  <2>2. \A p \in Objs : info'[p].cnt = info[p].cnt
    BY <1>r, <1>i DEF ZeroInfo
  <2>3. QED
    BY <1>0, <2>1, <2>2 DEF CountExact, Refs
<1>6. LastInv'
  <2>1. \A u \in Threads : u # t /\ DropsLast(u) =>
          loc[u].obj \in Objs /\ (loc[t].saw.cnt = 1 => loc[u].obj # loc[t].obj)
    BY <1>0, <1>r DEF LastInv, DropsLast, LocInv, LocOK, Working, LinkPC,
       TypeOK, Locals
  <2>2. \A u \in Threads : DropsLast(u)' => u # t /\ DropsLast(u)
    BY <1>l DEF DropsLast, NoLocals, Working
  <2>3. \A u \in Threads : u # t /\ DropsLast(u) => info'[loc[u].obj] = info[loc[u].obj]
    BY <1>i, <2>1
  <2>4. \A u \in Threads : DropsLast(u)' =>
          info'[loc'[u].obj].lcid = u /\ info'[loc'[u].obj].cnt = 0
    BY <1>0, <1>l, <2>2, <2>3 DEF LastInv
  <2>5. QED
    BY <1>0, <1>r, <1>l, <2>4 DEF LastInv
<1>7. BoundInv'
  <2>1. \A u \in Threads : \/ Era(u)' > Era(u) /\ Era(u)' \in Nat
                           \/ Era(u)' = Era(u) /\ (Past(u) => Past(u)')
    BY <1>0, <1>a DEF RecoverDrop, At, Goto, DropSlot, LastDrop, Tick, TypeOK,
       Era, Past, Working
  <2>2. \A o \in Objs : \/ info'[o] = info[o]
                        \/ info'[o].lcid \notin Threads
                        \/ Used(info[o].lcid, info[o].lenum)'
    BY <1>r, <1>i DEF ZeroInfo
  <2>3. \A v, u \in Threads : u # v => \/ era'[u][v] = era[u][v]
                                       \/ era'[u][v] \in Nat /\ Used(v, era'[u][v])
                                       \/ Used(v, era[u][v])'
    BY <1>0, <1>a DEF TypeOK
  <2>4. \A u \in Threads : \/ loc'[u].saw = loc[u].saw
                           \/ loc'[u].saw.lcid \notin Threads
                           \/ \E o \in Objs : loc'[u].saw = info[o]
                           \/ Used(loc[u].saw.lcid, loc[u].saw.lenum)'
    BY <1>l, <1>r DEF NoLocals, ZeroInfo
  <2>5. QED
    BY <1>0, <2>1, <2>2, <2>3, <2>4, BoundFrame
<1>8. TraceInv'
  <2>1. \A u, v \in Threads : era'[u][v] \in Nat /\ era'[u][v] >= era[u][v]
    BY <1>0, <1>a DEF TypeOK
  <2>2. \A u \in Threads : pc[u] \in {"cased", "written"} => loc[u].obj \in Objs
    BY <1>0 DEF LocInv, LocOK, LinkPC, TypeOK, Locals
  <2>3. \A u \in Threads : u # t => era'[u][u] = era[u][u]
    BY <1>a
  <2>4. QED
    <3>1. ASSUME NEW u \in Threads, mode'[u] \in Working, pc'[u] \in {"cased", "written"}
          PROVE  /\ mode[u] \in Working /\ pc[u] \in {"cased", "written"}
                 /\ loc'[u].obj = loc[u].obj /\ era'[u][u] = era[u][u]
                 /\ \/ info'[loc[u].obj] = info[loc[u].obj]
                    \/ info[loc[u].obj].lcid # u
      <4>1. u # t /\ loc[u].obj \in Objs
        BY <1>r, <1>l, <2>2, <3>1
      <4>2. QED
        BY <1>r, <1>l, <1>i, <2>3, <3>1, <4>1
    <3>2. QED
      BY <1>0, <2>1, <3>1, TraceFrame
<1>9. LogInv'
  <2>1. \A u \in Threads : Era(u)' \in Nat /\ Era(u)' >= Era(u)
    BY <1>0, <1>a DEF Era, TypeOK
  <2>2. redo' = redo
    BY DEF RecoverDrop
  <2>3. QED
    BY <1>0, <2>1, <2>2, LogFrame
<1>10. StaleInv'
  <2>1. \A u \in Threads \ {t} :
          /\ loc'[u] = loc[u] /\ pc'[u] = pc[u] /\ mode'[u] = mode[u]
          /\ redo'[u] = redo[u] /\ era'[u][u] = era[u][u]
    BY <1>0 DEF RecoverDrop, At, Goto, DropSlot, LastDrop, Tick, TypeOK
  <2>2. \A q \in Slots : Owner[q] # t => slot'[q] = slot[q] /\ ref'[q] = ref[q]
    BY <1>0 DEF RecoverDrop, At, Goto, DropSlot, LastDrop, Tick, TypeOK,
       LocInv, LocOK
  <2>3. \A i \in RedoIndex :
          mode'[t] \in Working /\ redo'[t][i].func # "none" => StaleLine(t, i)'
    BY <1>0 DEF RecoverDrop, At, Goto, DropSlot, LastDrop, Tick, TypeOK,
       Locals, Entry, StaleInv, StaleLine, Working,
       Era, LogInv, Agrees, LinkPC, LocInv, LocOK
  <2>4. QED
    BY <1>0, <2>1, <2>2, <2>3, StaleFrame
<1>11. PublishInv' /\ WholeInv' /\ MonitorInv'
  BY <1>0 DEF RecoverDrop, At, Goto, DropSlot, LastDrop, Tick, TypeOK,
       PublishInv, WholeInv, Era, Working, MonitorInv, Stopping, IsLast
<1>12. QED
  BY <1>1, <1>2, <1>3, <1>4, <1>5, <1>6, <1>7, <1>8, <1>9, <1>10, <1>11 DEF
       IInv

(* The thread-local state of the recovered thread is released.             *)
LEMMA TlsReleaseStep ==
  ASSUME ~Concurrent, MaxThread \notin Threads, IInv,
         NEW t \in Threads, TlsRelease(t)
  PROVE  IInv'
<1> USE ThreadsAssumption, DataAssumption, OwnerAssumption, BoundsAssumption
<1>0. TypeOK /\ LocInv /\ PinInv /\ BlankInv /\ CountExact /\ LastInv /\ BoundInv
      /\ PublishInv /\ TraceInv /\ LogInv /\ WholeInv /\ StaleInv /\ MonitorInv
  BY DEF IInv
<1>1. LocInv'
  <2>1. /\ pc'[t] = "idle" /\ mode'[t] = "gone" /\ pc[t] = "scan"
        /\ \A u \in Threads : u # t => pc'[u] = pc[u] /\ mode'[u] = mode[u]
        /\ loc' = loc /\ ref' = ref
    BY <1>0 DEF TlsRelease, At, Goto, TypeOK
  <2>2. \A q \in Slots : slot'[q] = IF Owner[q] = t THEN "local" ELSE slot[q]
    BY DEF TlsRelease
  <2>3. LocOK(t)
    BY <1>0 DEF LocInv
  <2>4. LocOK(t)'
    BY <2>1, <2>2, <2>3 DEF LocOK, LinkPC, Working, ClientPC
  <2>5. QED
    BY <1>0, <2>1, <2>2, <2>4, LocFrame
<1>2. CountExact'
  <2>1. eff' = eff
    BY <1>0 DEF TlsRelease, At, Goto, InUse, Owned, TypeOK, eff, Committed,
       LocInv, LocOK, LinkPC
  <2>2. QED
    BY <1>0, <2>1 DEF TlsRelease, At, Goto, InUse, Owned, CountExact, Refs
<1>3. StaleInv'
  <2>1. \A u \in Threads \ {t} :
          /\ loc'[u] = loc[u] /\ pc'[u] = pc[u] /\ mode'[u] = mode[u]
          /\ redo'[u] = redo[u] /\ era'[u][u] = era[u][u]
    BY <1>0 DEF TlsRelease, At, Goto, InUse, Owned, TypeOK
  <2>2. \A q \in Slots : Owner[q] # t => slot'[q] = slot[q] /\ ref'[q] = ref[q]
    BY <1>0 DEF TlsRelease, At, Goto, InUse, Owned, TypeOK, LocInv, LocOK
  <2>3. \A i \in RedoIndex :
          mode'[t] \in Working /\ redo'[t][i].func # "none" => StaleLine(t, i)'
    BY <1>0 DEF TlsRelease, At, Goto, InUse, Owned, TypeOK, Locals, Entry,
       StaleInv, StaleLine, Working,
       Era, LogInv, Agrees, LinkPC, LocInv, LocOK
  <2>4. QED
    BY <1>0, <2>1, <2>2, <2>3, StaleFrame
<1>4. TypeOK'
  BY <1>0 DEF TlsRelease, At, Goto, InUse, Owned, TypeOK, Locals, ClientPC,
       MonitorPC, Working
<1>5. PinInv'
  BY <1>0 DEF TlsRelease, At, Goto, InUse, Owned, TypeOK, PinInv, LocInv,
       LocOK, LinkPC, Locals
<1>6. BlankInv'
  BY <1>0 DEF TlsRelease, At, Goto, InUse, Owned, TypeOK, BlankInv, LocInv,
       LocOK
<1>7. LastInv'
  BY <1>0 DEF TlsRelease, At, Goto, InUse, Owned, TypeOK, LastInv, DropsLast,
       LocInv, LocOK, Working
<1>8. BoundInv'
  BY <1>0 DEF TlsRelease, At, Goto, InUse, Owned, TypeOK, BoundInv, Used, Past,
       Era, Working
<1>9. PublishInv'
  BY <1>0 DEF TlsRelease, At, Goto, InUse, Owned, TypeOK, PublishInv
<1>10. TraceInv'
  BY <1>0 DEF TlsRelease, At, Goto, InUse, Owned, TypeOK, TraceInv, Working,
       Era
<1>11. LogInv'
  BY <1>0 DEF TlsRelease, At, Goto, InUse, Owned, TypeOK, LogInv, Era
<1>12. WholeInv'
  BY <1>0 DEF TlsRelease, At, Goto, InUse, Owned, TypeOK, WholeInv, Era,
       Working
<1>13. MonitorInv'
  BY <1>0 DEF TlsRelease, At, Goto, InUse, Owned, TypeOK, MonitorInv, Stopping,
       IsLast, Working
<1>14. QED
  BY <1>1, <1>2, <1>3, <1>4, <1>5, <1>6, <1>7, <1>8, <1>9, <1>10, <1>11, <1>12,
       <1>13 DEF IInv

(* The segment pass resets every header.                                   *)
LEMMA SweepStep ==
  ASSUME ~Concurrent, MaxThread \notin Threads, IInv,
         Sweep
  PROVE  IInv'
<1> USE ThreadsAssumption, DataAssumption, OwnerAssumption, BoundsAssumption
<1>0. TypeOK /\ LocInv /\ PinInv /\ BlankInv /\ CountExact /\ LastInv /\ BoundInv
      /\ PublishInv /\ TraceInv /\ LogInv /\ WholeInv /\ StaleInv /\ MonitorInv
  BY DEF IInv
<1>1. TypeOK'
  <2>1. info' \in [Objs -> Info]
    BY NullTypes DEF Sweep
  <2>2. QED
    BY <1>0, <2>1 DEF Sweep, TypeOK
<1>2. CountExact'
  <2>1. eff' = eff
    BY DEF Sweep, eff, Committed
  <2>2. \A o \in Objs : info'[o].cnt = info[o].cnt
    BY DEF Sweep, ZeroInfo
  <2>3. QED
    BY <1>0, <2>1, <2>2 DEF CountExact, Refs
<1>3. BoundInv'
  <2>1. /\ \A o \in Objs : info'[o].lcid \notin Threads
        /\ era' = era /\ loc' = loc /\ pc' = pc /\ mode' = mode
    BY ThreadsAssumption DEF Sweep, ZeroInfo
  <2>2. \A u \in Threads : Era(u)' = Era(u) /\ (Past(u) => Past(u)')
    BY <2>1 DEF Era, Past
  <2>3. QED
    BY <1>0, <2>1, <2>2, BoundFrame
<1>4. LocInv' /\ PinInv'
  BY <1>0 DEF Sweep, TypeOK, LocInv, LocOK, Working, ClientPC, MonitorPC,
       LinkPC, PinInv, Locals
<1>5. BlankInv'
  BY <1>0 DEF Sweep, TypeOK, BlankInv, LocInv, LocOK
<1>6. LastInv' /\ PublishInv'
  BY <1>0 DEF Sweep, TypeOK, LastInv, DropsLast, LocInv, LocOK, Working,
       PublishInv
<1>7. TraceInv' /\ LogInv'
  BY <1>0 DEF Sweep, TypeOK, TraceInv, Working, Era, LogInv
<1>8. WholeInv' /\ StaleInv' /\ MonitorInv'
  BY <1>0 DEF Sweep, TypeOK, WholeInv, Era, Working, StaleInv, StaleLine,
       LogInv, Agrees, LinkPC, Entry, LocInv, LocOK, MonitorInv, Stopping,
       IsLast
<1>9. QED
  BY <1>1, <1>2, <1>3, <1>4, <1>5, <1>6, <1>7, <1>8 DEF IInv

(* thread_init: the id lives again, in a new era.                          *)
LEMMA ThreadInitStep ==
  ASSUME ~Concurrent, MaxThread \notin Threads, IInv,
         NEW t \in Threads, ThreadInit(t)
  PROVE  IInv'
<1> USE ThreadsAssumption, DataAssumption, OwnerAssumption, BoundsAssumption
<1>0. TypeOK /\ LocInv /\ PinInv /\ BlankInv /\ CountExact /\ LastInv /\ BoundInv
      /\ PublishInv /\ TraceInv /\ LogInv /\ WholeInv /\ StaleInv /\ MonitorInv
  BY DEF IInv
<1>a. /\ era' \in [Threads -> [Threads -> Nat]]
      /\ \A u, v \in Threads :
           era'[u][v] = IF u = t /\ v = t THEN era[t][t] + 1 ELSE era[u][v]
  BY <1>0, TickType DEF ThreadInit
<1>r. mode[t] = "gone" /\ pc[t] = "idle"
  BY <1>0 DEF ThreadInit, LocInv, LocOK
<1>l. /\ mode'[t] = "live" /\ \A u \in Threads : u # t => mode'[u] = mode[u]
      /\ UNCHANGED <<info, ref, slot, redo, pool, pc, loc>>
  BY <1>0 DEF ThreadInit, TypeOK
<1>e. \A u, v \in Threads : /\ era[u][v] \in Nat /\ era'[u][v] \in Nat
                            /\ era'[u][v] >= era[u][v]
  BY <1>0, <1>a DEF TypeOK
<1>1. CountExact'
  <2>1. eff' = eff
    BY <1>0 DEF ThreadInit, MonitorFree, Tick, TypeOK, eff, Committed, LocInv,
       LocOK, LinkPC
  <2>2. QED
    BY <1>0, <2>1 DEF ThreadInit, MonitorFree, Tick, CountExact, Refs
<1>2. BoundInv'
  <2>1. \A u \in Threads : \/ Era(u)' > Era(u) /\ Era(u)' \in Nat
                           \/ Era(u)' = Era(u) /\ (Past(u) => Past(u)')
    <3>1. Era(t)' = era[t][t] + 1 /\ Era(t) = era[t][t] /\ era[t][t] \in Nat
      BY <1>a, <1>e DEF Era
    <3>2. \A u \in Threads : u # t => Era(u)' = Era(u) /\ Past(u)' = Past(u)
      BY <1>a, <1>l DEF Era, Past
    <3>3. QED
      BY <3>1, <3>2
  <2>2. \A v, u \in Threads : u # v => era'[u][v] = era[u][v]
    BY <1>0 DEF ThreadInit, Tick, TypeOK
  <2>3. QED
    BY <1>0, <1>l, <2>1, <2>2, BoundFrame
<1>3. PublishInv'
  <2>1. \A u \in Threads : u # t => era'[u] = era[u]
    BY <1>0 DEF ThreadInit, Tick, TypeOK
  <2>2. QED
    BY <1>0, <1>l, <1>r, <2>1 DEF PublishInv
<1>4. TraceInv'
  <2>1. \A u \in Threads : u # t => era'[u][u] = era[u][u]
    BY <1>a
  <2>2. QED
    BY <1>0, <1>r, <1>l, <1>e, <2>1, TraceFrame
<1>5. LogInv'
  <2>1. \A u \in Threads : Era(u)' \in Nat /\ Era(u)' >= Era(u)
    BY <1>0, <1>a DEF Era, TypeOK
  <2>2. redo' = redo
    BY DEF ThreadInit
  <2>3. QED
    BY <1>0, <2>1, <2>2, LogFrame
<1>6. WholeInv'
  <2>1. \A u \in Threads : u # t => era'[u][u] = era[u][u]
    BY <1>a
  <2>2. QED
    BY <1>0, <1>r, <1>l, <2>1 DEF WholeInv, Era
<1>7. StaleInv'
  <2>1. \A u \in Threads \ {t} :
          /\ loc'[u] = loc[u] /\ pc'[u] = pc[u] /\ mode'[u] = mode[u]
          /\ redo'[u] = redo[u] /\ era'[u][u] = era[u][u]
    BY <1>0 DEF ThreadInit, MonitorFree, Tick, TypeOK
  <2>2. \A q \in Slots : Owner[q] # t => slot'[q] = slot[q] /\ ref'[q] = ref[q]
    BY <1>0 DEF ThreadInit, MonitorFree, Tick, TypeOK, LocInv, LocOK
  <2>3. \A i \in RedoIndex :
          mode'[t] \in Working /\ redo'[t][i].func # "none" => StaleLine(t, i)'
    BY <1>0 DEF ThreadInit, MonitorFree, Tick, TypeOK, Locals, Entry, StaleInv,
       StaleLine, Working,
       Era, LogInv, Agrees, LinkPC, LocInv, LocOK
  <2>4. QED
    BY <1>0, <2>1, <2>2, <2>3, StaleFrame
<1>8. TypeOK' /\ LocInv' /\ PinInv'
  BY <1>0 DEF ThreadInit, MonitorFree, Tick, TypeOK, Locals, ClientPC,
       MonitorPC, Working, LocInv, LocOK, LinkPC, PinInv
<1>9. BlankInv' /\ LastInv' /\ MonitorInv'
  BY <1>0 DEF ThreadInit, MonitorFree, Tick, TypeOK, BlankInv, LocInv, LocOK,
       LastInv, DropsLast, Working, MonitorInv, Stopping, IsLast
<1>10. QED
  BY <1>1, <1>2, <1>3, <1>4, <1>5, <1>6, <1>7, <1>8, <1>9 DEF IInv

-----------------------------------------------------------------------------
(* The state that cxl_shm's constructor and thread_init leave satisfies    *)
(* every conjunct.                                                         *)
LEMMA InitInv ==
  Init => IInv
<1> USE ThreadsAssumption, DataAssumption, OwnerAssumption, BoundsAssumption
<1> SUFFICES ASSUME Init
             PROVE  IInv
  OBVIOUS
<1>1. TypeOK
  BY NullTypes DEF Init, TypeOK, ClientPC, Working
<1>2. CountExact
  <2>1. \A r \in Slots : eff[r] = Null
    BY DEF Init, eff
  <2>2. \A o \in Objs : Refs(o) = {} /\ info[o].cnt = 0
    BY <2>1 DEF Init, Refs, ZeroInfo
  <2>3. QED
    BY <2>2, FS_EmptySet DEF CountExact
<1>3. LocInv /\ PinInv /\ BlankInv /\ LastInv /\ PublishInv /\ TraceInv /\ WholeInv
  BY DEF Init, LocInv, LocOK, PinInv, BlankInv, LastInv, DropsLast, PublishInv,
     TraceInv,
         WholeInv, NoLocals, ClientPC, LinkPC, Working
<1>4. BoundInv
  BY DEF Init, BoundInv, Used, Era, NoLocals, ZeroInfo
<1>5. LogInv /\ StaleInv /\ MonitorInv
  BY DEF Init, LogInv, StaleInv, MonitorInv, NoEntry, Stopping
<1>6. QED
  BY <1>1, <1>2, <1>3, <1>4, <1>5 DEF IInv

(* Each step of a client, of a crash, of the monitor or of thread_init     *)
(* keeps every conjunct: one case per disjunct of Next.                    *)
LEMMA NextInv ==
  ASSUME ~Concurrent, OwnMemory, MaxThread \notin Threads, IInv, [Next]_vars
  PROVE  IInv'
<1>1. CASE \E t \in Threads : StartOp(t)
  BY <1>1, TbrSlowStep, TbrFastStep, StartDropStep DEF StartOp
<1>2. CASE \E t \in Threads : ClientStep(t)
  <2>1. PICK t \in Threads : ClientStep(t)
    BY <1>2
  <2>2. CASE \/ \E i \in RedoIndex : ClearOne(t, i)
             \/ \E r \in Slots : Collect(t, r) \/ StartLink(t, r)
             \/ \E o \in Objs : Pptr(t, o)
    BY <2>2, ClearOneStep, CollectStep, StartLinkStep, PptrStep
  <2>3. CASE \/ ObjSlow(t) \/ ObjPage(t) \/ OutOfMemory(t) \/ Take(t)
             \/ WriteHeader(t) \/ Prepare(t)
    BY <2>3, ObjSlowStep, ObjPageStep, OutOfMemoryStep, TakeStep,
       WriteHeaderStep,
       PrepareStep
  <2>4. CASE \/ Cas(t) \/ CasFail(t) \/ WriteRef(t) \/ FinishLink(t)
             \/ FinishUnlink(t) \/ FreeBlock(t) \/ Release(t)
    BY <2>4, CasStep, CasFailStep, WriteRefStep, FinishLinkStep,
       FinishUnlinkStep,
       FreeBlockStep, ReleaseStep
  <2>5. QED
    BY <2>1, <2>2, <2>3, <2>4 DEF ClientStep
<1>3. CASE \E t \in Threads : Crash(t) \/ ThreadInit(t)
  BY <1>3, CrashStep, ThreadInitStep
<1>4. CASE \E t \in Threads : MonitorStep(t)
  <2>1. PICK t \in Threads : MonitorStep(t)
    BY <1>4
  <2>2. CASE \/ \E i \in RedoIndex : RedoLoad(t, i) \/ RedoApply(t, i)
             \/ \E r \in Slots : RecoverSkip(t, r) \/ RecoverRead(t, r)
    BY <2>2, RedoLoadStep, RedoApplyStep, RecoverSkipStep, RecoverReadStep
  <2>3. CASE RecoverCas(t) \/ RecoverCasFail(t) \/ RecoverDrop(t) \/ TlsRelease(t)
    BY <2>3, RecoverCasStep, RecoverCasFailStep, RecoverDropStep,
       TlsReleaseStep
  <2>4. QED
    BY <2>1, <2>2, <2>3 DEF MonitorStep
<1>5. CASE Sweep
  BY <1>5, SweepStep
<1>6. CASE UNCHANGED vars
  <2>1. /\ TypeOK /\ LocInv /\ PinInv /\ BlankInv /\ CountExact /\ LastInv /\ BoundInv
        /\ PublishInv /\ TraceInv /\ LogInv /\ WholeInv /\ StaleInv /\ MonitorInv
    BY DEF IInv
  <2>2. TypeOK' /\ LocInv' /\ PinInv' /\ BlankInv'
    BY <1>6, <2>1 DEF vars, TypeOK, LocInv, LocOK, PinInv, BlankInv
  <2>3. CountExact' /\ LastInv'
    BY <1>6, <2>1 DEF vars, CountExact, Refs, eff, Committed, LastInv,
       DropsLast
  <2>4. BoundInv' /\ PublishInv' /\ TraceInv'
    BY <1>6, <2>1 DEF vars, BoundInv, Used, Past, Era, PublishInv, TraceInv
  <2>5. LogInv' /\ WholeInv'
    BY <1>6, <2>1 DEF vars, LogInv, WholeInv, Era
  <2>6. StaleInv' /\ MonitorInv'
    BY <1>6, <2>1 DEF vars, StaleInv, StaleLine, Agrees, Era, MonitorInv,
       IsLast
  <2>7. QED
    BY <2>2, <2>3, <2>4, <2>5, <2>6 DEF IInv
<1>7. QED
  BY <1>1, <1>2, <1>3, <1>4, <1>5, <1>6 DEF Next

(* Every state reached by clients, crashes and recoveries satisfies IInv.  *)
LEMMA Inductive ==
  ASSUME ~Concurrent, OwnMemory, MaxThread \notin Threads
  PROVE  Spec => []IInv
<1>1. Init => IInv
  BY InitInv
<1>2. IInv /\ [Next]_vars => IInv'
  BY NextInv
<1>3. QED
  BY <1>1, <1>2, PTL DEF Spec

(* Type correctness.                                                       *)
THEOREM TypeCorrect ==
  ASSUME ~Concurrent, OwnMemory, MaxThread \notin Threads
  PROVE  Spec => []TypeOK
<1>1. IInv => TypeOK
  BY DEF IInv
<1>2. QED
  BY <1>1, Inductive, PTL

(* The count of an object equals the references to it, through crashes and *)
(* recoveries: link_reference, unlink_reference and recovery.cpp neither   *)
(* leak a count nor drop one twice.                                        *)
THEOREM CountCorrect ==
  ASSUME ~Concurrent, OwnMemory, MaxThread \notin Threads
  PROVE  Spec => []CountExact
<1>1. IInv => CountExact
  BY DEF IInv
<1>2. QED
  BY <1>1, Inductive, PTL

(* redo_ref_cnt answers exactly whether a stopped operation had passed its *)
(* compare-and-swap.                                                       *)
THEOREM RedoCorrect ==
  ASSUME ~Concurrent, OwnMemory, MaxThread \notin Threads
  PROVE  Spec => []RedoDecides
<1>1. ASSUME IInv
      PROVE  RedoDecides
  <2> SUFFICES ASSUME NEW t \in Threads, mode[t] \in Working,
                      pc[t] \in {"logged", "cased", "written"}
               PROVE  Evidence(t) <=> pc[t] # "logged"
    BY DEF RedoDecides
  <2>0. TypeOK /\ BoundInv /\ LogInv /\ WholeInv /\ LocInv
    BY <1>1 DEF IInv
  <2>1. ASSUME pc[t] = "logged", NEW i \in RedoIndex, IsLast(t, i)
        PROVE  LET e == redo[t][i]
               IN  ~NeedRedo(t, e, info[e.refed].lcid, info[e.refed].lenum)
    <3>1. redo[t][i] = [func |-> loc[t].op, era |-> Era(t),
                        ref |-> loc[t].ref, refed |-> loc[t].obj]
      BY <1>1, <2>1, LastLine
    <3>2. loc[t].op # "none"
      BY <2>0, <2>1 DEF LocInv, LocOK, LinkPC
    <3>3. redo[t][i].func # "none" /\ redo[t][i].era = Era(t)
      BY <3>1, <3>2
    <3>4. QED
      BY <1>1, <2>1, <3>3, BeforeSwap
  <2>2. ASSUME pc[t] \in {"cased", "written"}
        PROVE  Evidence(t)
    <3>1. PICK i \in RedoIndex : IsLast(t, i)
      BY <1>1, <2>2, LastExists
    <3>2. redo[t][i] = [func |-> loc[t].op, era |-> Era(t),
                        ref |-> loc[t].ref, refed |-> loc[t].obj]
      BY <1>1, <2>2, <3>1, LastLine
    <3>3. redo[t][i].func # "none"
      BY <2>0, <2>2, <3>2 DEF LocInv, LocOK, LinkPC
    <3>4. QED
      BY <1>1, <2>2, <3>1, <3>3, AfterSwap DEF Evidence
  <2>3. QED
    BY <2>1, <2>2 DEF Evidence
<1>2. QED
  BY <1>1, Inductive, PTL

(* No redo of redo_ref_cnt changes what a reference stands for.            *)
THEOREM RedoHarmless ==
  ASSUME ~Concurrent, OwnMemory, MaxThread \notin Threads
  PROVE  Spec => RedoKeeps
<1>1. IInv /\ [Next]_vars =>
        [\A t \in Threads, i \in RedoIndex : RedoApply(t, i) => eff' = eff]_vars
  BY RedoKeepsStep
<1>2. QED
  BY <1>1, Inductive, PTL DEF Spec, RedoKeeps

(* The invariant says of every block who may write it: the allocator, one  *)
(* filling thread, one freeing thread, or the references to it.            *)
LEMMA PoolFromInv ==
  ASSUME IInv
  PROVE  PoolSound
<1>0. TypeOK /\ LocInv /\ BlankInv /\ CountExact /\ LastInv
  BY DEF IInv
<1>1. ASSUME NEW o \in pool
      PROVE  info[o] = ZeroInfo /\ Refs(o) = {}
  <2>1. o \in Objs /\ info[o] = ZeroInfo /\ info[o].cnt = 0
    BY <1>0 DEF TypeOK, BlankInv, ZeroInfo
  <2>2. QED
    BY <1>0, <2>1, Unreferenced DEF Refs
<1>2. ASSUME NEW t \in Threads, Holding(t), pc[t] = "free"
      PROVE  /\ loc[t].obj \in Objs /\ loc[t].obj \notin pool
             /\ info[loc[t].obj].lcid = t /\ info[loc[t].obj].cnt = 0
  <2>1. loc[t].obj \in Objs
    BY <1>0, <1>2 DEF LocInv, LocOK, TypeOK, Locals
  <2>2. info[loc[t].obj].lcid = t /\ info[loc[t].obj].cnt = 0
    BY <1>0, <1>2 DEF LastInv, DropsLast, Holding
  <2>3. QED
    BY <1>1, <2>1, <2>2, ThreadsAssumption DEF ZeroInfo
<1>3. ASSUME NEW t \in Threads, Holding(t), pc[t] # "free"
      PROVE  /\ loc[t].ref \in Slots /\ Owner[loc[t].ref] = t
             /\ slot[loc[t].ref] = "pending" /\ ref[loc[t].ref] = loc[t].obj
             /\ loc[t].obj \notin pool
             /\ info[loc[t].obj].lcid = 0 /\ info[loc[t].obj].cnt = 0
  <2>1. loc[t].ref \in Slots \cup {Null} /\ pc[t] \in {"pptr", "taken"}
    BY <1>0, <1>3 DEF TypeOK, Locals, Holding
  <2>2. /\ loc[t].ref \in Slots /\ Owner[loc[t].ref] = t
        /\ slot[loc[t].ref] = "pending" /\ ref[loc[t].ref] = loc[t].obj
    BY <1>0, <2>1 DEF LocInv, LocOK
  <2>3. QED
    BY <1>0, <2>2 DEF BlankInv, ZeroInfo
<1>4. ASSUME NEW t \in Threads, NEW u \in Threads, t # u, Holding(t), Holding(u)
      PROVE  loc[u].obj # loc[t].obj
  <2>1. CASE pc[t] = "free" \/ pc[u] = "free"
    BY <1>2, <1>3, <1>4, <2>1, ThreadsAssumption
  <2>2. CASE pc[t] # "free" /\ pc[u] # "free"
    BY <1>0, <1>3, <1>4, <2>2 DEF BlankInv
  <2>3. QED
    BY <2>1, <2>2
<1>5. QED
  BY <1>1, <1>2, <1>3, <1>4 DEF PoolSound

(* A block that cxl_malloc may hand out has no count and no reference, and *)
(* no two threads hold one block to fill or free it: no double free.       *)
THEOREM PoolCorrect ==
  ASSUME ~Concurrent, OwnMemory, MaxThread \notin Threads
  PROVE  Spec => []PoolSound
<1>1. IInv => PoolSound
  BY PoolFromInv
<1>2. QED
  BY <1>1, Inductive, PTL
=============================================================================
