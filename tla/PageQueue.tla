------------------------------ MODULE PageQueue ------------------------------
(***************************************************************************)
(* The page queues of a thread (src/src/page_queue.cpp): doubly linked     *)
(* lists through the page descriptors, pushed and removed store by store   *)
(* by their owner alone, which may stop after any store, and walked by the *)
(* monitor from first through next (src/src/recovery.cpp:276, 371).        *)
(*                                                                         *)
(* A thread has two queues here: the pages of one size class, and the free *)
(* pages of its segments.  Pages pass between them and come from and go to *)
(* segments (cxl_page_fresh, cxl_page_free, cxl_segment_alloc,             *)
(* cxl_segment_free); what is in a page is one bit, busy.                  *)
(***************************************************************************)
EXTENDS Links, SequencesExt

CONSTANTS Pages,     \* page descriptors
          Class,     \* the queue of a size class
          FreePage,  \* tls->free_page
          Null

ASSUME PageQueueAssumption ==
  /\ IsFiniteSet(Pages) /\ Null \notin Pages /\ Class # FreePage

VARIABLES first, last,  \* ends of a queue
          next, prev,   \* links of a page
          busy,         \* pages with blocks in use
          pc, loc,      \* the operation under way
          mode,         \* "live", "walk", "gone"
          cursor, seen  \* the walk of the monitor, the pages it has visited

links == <<first, last, next, prev>>
walk  == <<mode, cursor, seen>>
vars  == <<links, busy, pc, loc, walk>>

-----------------------------------------------------------------------------
Queues   == {Class, FreePage}
NoLocals == [queue |-> Null, page |-> Null, prev |-> Null, next |-> Null,
             then |-> Null]

Init == /\ first = [q \in Queues |-> Null] /\ last = [q \in Queues |-> Null]
        /\ next = [p \in Pages |-> Null] /\ prev = [p \in Pages |-> Null]
        /\ busy = {} /\ pc = "idle" /\ loc = NoLocals
        /\ mode = "live" /\ cursor = Null /\ seen = {}

At(p) == mode = "live" /\ pc = p
Unlisted(p) == next[p] = Null /\ prev[p] = Null /\ \A q \in Queues : first[q] # p

(* From first through next, as every reader goes.                          *)
Chain(q)  == PathFrom(next, first[q])
Listed(q) == ToSet(Chain(q))

-----------------------------------------------------------------------------
(* The callers.  "then" is the queue a removed page is pushed to.          *)

Begin(q, p, then, label) ==
  /\ loc' = [queue |-> q, page |-> p, prev |-> Null, next |-> Null, then |-> then]
  /\ pc' = label
  /\ UNCHANGED <<links, busy, walk>>

(* cxl_segment_alloc, cxl_segment_free: one page of them.                  *)
Gain(p) == At("idle") /\ Unlisted(p) /\ Begin(FreePage, p, Null, "push")
Lose(p) == At("idle") /\ p \in Listed(FreePage) /\ Begin(FreePage, p, Null, "remove")

(* cxl_page_fresh takes the first free page ...                            *)
Fresh == /\ At("idle") /\ first[FreePage] # Null
         /\ Begin(FreePage, first[FreePage], Class, "remove")

(* ... cxl_page_free returns any page whose last block came back.          *)
Return(p) == /\ At("idle") /\ p \in Listed(Class) \ busy
             /\ Begin(Class, p, FreePage, "remove")

(* Blocks are taken from a page of the queue and come back.                *)
Use(p) ==
  /\ At("idle") /\ p \in Listed(Class)
  /\ busy' = IF p \in busy THEN busy \ {p} ELSE busy \cup {p}
  /\ UNCHANGED <<links, pc, loc, walk>>

-----------------------------------------------------------------------------
(* cxl_page_queue_push.                                                    *)

MutPush ==                        \* mutant: first is moved before next is set
  /\ At("push")
  /\ first' = [first EXCEPT ![loc.queue] = loc.page]
  /\ next' = [next EXCEPT ![loc.page] = first'[loc.queue]]
  /\ prev' = [prev EXCEPT ![loc.page] = Null]
  /\ pc' = IF first[loc.queue] # Null THEN "back" ELSE "front"
  /\ UNCHANGED <<last, busy, loc, walk>>

Push ==
  /\ At("push")
  /\ next' = [next EXCEPT ![loc.page] = first[loc.queue]]
  /\ prev' = [prev EXCEPT ![loc.page] = Null]
  /\ pc' = IF first[loc.queue] # Null THEN "back" ELSE "front"
  /\ UNCHANGED <<first, last, busy, loc, walk>>

MutPushBack ==                    \* mutant: the link back is forgotten
  /\ At("back")
  /\ pc' = "front"
  /\ UNCHANGED <<links, busy, loc, walk>>

PushBack ==
  /\ At("back")
  /\ prev' = [prev EXCEPT ![first[loc.queue]] = loc.page]
  /\ pc' = "front"
  /\ UNCHANGED <<first, last, next, busy, loc, walk>>

PushFront ==
  /\ At("front")
  /\ first' = [first EXCEPT ![loc.queue] = loc.page]
  /\ pc' = IF first[loc.queue] = Null THEN "only" ELSE "idle"
  /\ UNCHANGED <<last, next, prev, busy, loc, walk>>

PushOnly ==
  /\ At("only")
  /\ last' = [last EXCEPT ![loc.queue] = loc.page]
  /\ pc' = "idle"
  /\ UNCHANGED <<first, next, prev, busy, loc, walk>>

-----------------------------------------------------------------------------
(* cxl_page_queue_remove.                                                  *)

RemoveStart ==
  /\ At("remove")
  /\ loc' = [loc EXCEPT !.prev = prev[loc.page], !.next = next[loc.page]]
  /\ pc' = "bypass"
  /\ UNCHANGED <<links, busy, walk>>

Bypass ==
  /\ At("bypass")
  /\ next' = IF loc.prev = Null THEN next
             ELSE [next EXCEPT ![loc.prev] = next[loc.page]]
  /\ pc' = "bypassback"
  /\ UNCHANGED <<first, last, prev, busy, loc, walk>>

BypassBack ==
  /\ At("bypassback")
  /\ prev' = IF loc.next = Null THEN prev
             ELSE [prev EXCEPT ![loc.next] = prev[loc.page]]
  /\ pc' = "last"
  /\ UNCHANGED <<first, last, next, busy, loc, walk>>

MutUnsetLast ==                   \* mutant: last moves forward
  /\ At("last")
  /\ last' = IF last[loc.queue] = loc.page
             THEN [last EXCEPT ![loc.queue] = next[loc.page]] ELSE last
  /\ pc' = "first"
  /\ UNCHANGED <<first, next, prev, busy, loc, walk>>

UnsetLast ==
  /\ At("last")
  /\ last' = IF last[loc.queue] = loc.page
             THEN [last EXCEPT ![loc.queue] = prev[loc.page]] ELSE last
  /\ pc' = "first"
  /\ UNCHANGED <<first, next, prev, busy, loc, walk>>

MutUnsetFirst ==                 \* mutant: the links of the page are cleared first
  /\ At("first")
  /\ next' = [next EXCEPT ![loc.page] = Null]
  /\ first' = IF first[loc.queue] = loc.page
              THEN [first EXCEPT ![loc.queue] = next'[loc.page]] ELSE first
  /\ pc' = "clear"
  /\ UNCHANGED <<last, prev, busy, loc, walk>>

UnsetFirst ==
  /\ At("first")
  /\ first' = IF first[loc.queue] = loc.page
              THEN [first EXCEPT ![loc.queue] = next[loc.page]] ELSE first
  /\ pc' = "clear"
  /\ UNCHANGED <<last, next, prev, busy, loc, walk>>

(* page->next = 0 and page->prev = 0, and the push that may follow.        *)
ClearLinks ==
  /\ At("clear")
  /\ next' = [next EXCEPT ![loc.page] = Null]
  /\ prev' = [prev EXCEPT ![loc.page] = Null]
  /\ IF loc.then = Null THEN pc' = "idle" /\ loc' = NoLocals
     ELSE /\ pc' = "push"
          /\ loc' = [NoLocals EXCEPT !.queue = loc.then, !.page = loc.page]
  /\ UNCHANGED <<first, last, busy, walk>>

-----------------------------------------------------------------------------
(* The owner stops; the monitor walks the class queue, gives back the      *)
(* pages without a live block as it goes, and forgets the queues.          *)

Crash ==
  /\ mode = "live"
  /\ mode' = "walk" /\ cursor' = first[Class]
  /\ UNCHANGED <<links, busy, pc, loc, seen>>

MutVisit ==                       \* mutant: next is read after the page is freed
  /\ mode = "walk" /\ cursor # Null
  /\ seen' = seen \cup {cursor}
  /\ next' = IF cursor \in busy THEN next ELSE [next EXCEPT ![cursor] = Null]
  /\ prev' = IF cursor \in busy THEN prev ELSE [prev EXCEPT ![cursor] = Null]
  /\ cursor' = next'[cursor]
  /\ UNCHANGED <<first, last, busy, pc, loc, mode>>

Visit ==
  /\ mode = "walk" /\ cursor # Null
  /\ seen' = seen \cup {cursor}
  /\ cursor' = next[cursor]
  /\ next' = IF cursor \in busy THEN next ELSE [next EXCEPT ![cursor] = Null]
  /\ prev' = IF cursor \in busy THEN prev ELSE [prev EXCEPT ![cursor] = Null]
  /\ UNCHANGED <<first, last, busy, pc, loc, mode>>

Forget ==
  /\ mode = "walk" /\ cursor = Null
  /\ mode' = "gone"
  /\ first' = [q \in Queues |-> Null] /\ last' = [q \in Queues |-> Null]
  /\ UNCHANGED <<next, prev, busy, pc, loc, cursor, seen>>

-----------------------------------------------------------------------------
Call == \/ Fresh
        \/ \E p \in Pages : Gain(p) \/ Lose(p) \/ Return(p) \/ Use(p)

Store == \/ Push \/ PushBack \/ PushFront \/ PushOnly
         \/ RemoveStart \/ Bypass \/ BypassBack \/ UnsetLast \/ UnsetFirst
         \/ ClearLinks

Monitor == Visit \/ Forget

Next == Call \/ Store \/ Crash \/ Monitor
Spec == Init /\ [][Next]_vars
FairSpec == Spec /\ WF_vars(Monitor)

-----------------------------------------------------------------------------
(* Between two operations the links back and the ends agree with the links *)
(* forward: cxl_page_queue_remove of a page in the middle, or at an end,   *)
(* relies on all four words of its neighbours and of the queue.            *)
Linked ==
  mode = "live" /\ pc = "idle" =>
    \A q \in Queues :
      LET c == Chain(q)
      IN /\ \A i \in DOMAIN c : prev[c[i]] = IF i = 1 THEN Null ELSE c[i - 1]
         /\ last[q] = IF c = <<>> THEN Null ELSE Last(c)

(* Whatever store the owner stopped after, the walk of the monitor has     *)
(* passed every page with blocks in use when it forgets the queues.        *)
NoneMissed == mode = "gone" => busy \subseteq seen

(* The walk passes no page twice and none of the free pages.               *)
WalkOnce ==
  [][mode = "walk" /\ cursor # Null /\ mode' = "walk"
       => cursor \notin seen /\ cursor \notin Listed(FreePage)]_vars

(* The walk ends: no store leaves a cycle in the links.                    *)
WalkEnds == (mode = "walk") ~> (mode = "gone")

(* Every reader of the links sees the queues of PageList: a page appears   *)
(* and goes in one store, in no state is it in two queues, and the pages   *)
(* behind it are never lost (cxl_page_queue_push, cxl_page_queue_remove).  *)
List == INSTANCE PageList WITH order <- [q \in Queues |-> Chain(q)],
                               up <- mode = "live"
ImplementsPageList == List!Spec
=============================================================================
