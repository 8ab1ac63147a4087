------------------------------- MODULE Talloc -------------------------------
(***************************************************************************)
(* talloc, the hierarchical allocator everything in nfsim lives in         *)
(* (core/talloc.c).  A block belongs to the block it was allocated below,  *)
(* may be referred to from others, and takes its children along when it is *)
(* freed.  Routes, cache entries, devices, modules, packets and fields     *)
(* rely on it, and check_allocations() counts its blocks to find leaks.    *)
(*                                                                         *)
(* Siblings form a doubly linked list; only the first one knows the        *)
(* parent, so every change of a list has to hand that pointer over.  A     *)
(* free runs destructors, which are callbacks of the caller: `stack' holds *)
(* the calls of talloc_free that are under way.                            *)
(*                                                                         *)
(* nfsim never tracks the NULL context, so null_context is NULL.  Sizes,   *)
(* names and contents are left out.  An address is not used again after it *)
(* was freed, which is what the magic numbers of the code assume.          *)
(***************************************************************************)
EXTENDS Integers, Sequences, SequencesExt, FiniteSets

CONSTANTS
    NumChunks,  \* how many blocks the run may allocate
    MaxDepth,   \* calls of talloc_free inside of each other
    MaxCalls,   \* calls a destructor may make before it returns
    MaxSteals   \* steals by the callers

ASSUME TallocAssumption ==
    /\ NumChunks \in Nat \ {0}
    /\ MaxDepth \in Nat /\ MaxCalls \in Nat /\ MaxSteals \in Nat

Chunk == 1 .. NumChunks
NULL == 0
Pointer == Chunk \cup {NULL}

VARIABLES
    mem,    \* the headers (struct talloc_chunk), by address
    stack,  \* talloc_free calls under way, innermost first
    ret,    \* what the call that just ended gave to the walk below it
    calls,  \* calls made by the destructors under way
    steals, \* steals so far
    misused, \* history: a destructor worked on a block that was being freed
    dead    \* "no", or how the run ended

vars == <<mem, stack, ret, calls, steals, misused, dead>>

\* struct talloc_chunk.  target is the ptr of a struct talloc_reference_handle and
\* NULL for every other block; refs are the handles that refer to the block.
Header ==
    [ magic : {"unused", "ok", "free"},
      next : Pointer, prev : Pointer, parent : Pointer, child : Pointer,
      refs : UNION { [1 .. n -> Chunk] : n \in 0 .. NumChunks },
      destructor : {"none", "user", "ref", "running"},
      target : Pointer ]

\* A call under way: the destructor of ptr runs, or the children of ptr are freed,
\* at present child, which goes to heir when it cannot be freed.
Frame ==
    [ at : {"destructor", "children"}, ptr : Chunk, child : Pointer, heir : Pointer ]

Live(m) == { p \in Chunk : m[p].magic = "ok" }

\* What the callers have pointers to: handles are known to nobody but talloc.
Blocks(m) == { p \in Live(m) : m[p].target = NULL }

Store(m, p, field, v) == IF p = NULL THEN m ELSE [m EXCEPT ![p][field] = v]

-----------------------------------------------------------------------------
(* The tree *)

\* tc of talloc_parent_chunk(): back to the first sibling.
FirstSibling(m, p) ==
    LET back[k \in 0 .. NumChunks] ==
            IF k = 0 THEN p
            ELSE LET q == back[k - 1] IN IF m[q].prev = NULL THEN q ELSE m[q].prev
    IN  back[NumChunks]

talloc_parent_chunk(m, p) == m[FirstSibling(m, p)].parent

\* The chain of parents of p, p included.
Ancestors(m, p) ==
    LET up[k \in 0 .. NumChunks] ==
            IF k = 0 THEN {p}
            ELSE LET u == up[k - 1]
                 IN  u \cup { talloc_parent_chunk(m, q) : q \in u \ {NULL} }
    IN  up[NumChunks] \ {NULL}

\* The list of children, as the loops over child and next see it.
Children(m, p) ==
    LET walk[k \in 0 .. NumChunks] ==
            IF k = 0 THEN {m[p].child}
            ELSE LET w == walk[k - 1] IN w \cup { m[q].next : q \in w \ {NULL} }
    IN  walk[NumChunks] \ {NULL}

\* talloc_total_blocks(): p and what hangs below it.
talloc_total_blocks(m, p) ==
    LET below[k \in 0 .. NumChunks] ==
            IF k = 0 THEN {p}
            ELSE LET b == below[k - 1] IN b \cup UNION { Children(m, q) : q \in b }
    IN  Cardinality(below[NumChunks])

\* _TLIST_ADD(q->child, p), p->parent set by the caller.
TListAdd(m, q, p) ==
    LET head == m[q].child
    IN  [Store(m, head, "prev", p) EXCEPT ![p].next = head, ![p].prev = NULL, ![q].child = p]

\* _TLIST_REMOVE(q->child, p)
TListRemove(m, q, p) ==
    LET n == m[p].next
        b == m[p].prev
        out == IF m[q].child = p
               THEN Store([m EXCEPT ![q].child = n], n, "prev", NULL)
               ELSE Store(Store(m, b, "next", n), n, "prev", b)
    IN  [out EXCEPT ![p].next = NULL, ![p].prev = NULL]

Detach_HeirNotTold(m, p) ==
    LET q == m[p].parent
    IN  IF q # NULL
        THEN TListRemove(m, q, p)
        ELSE Store(Store(m, m[p].prev, "next", m[p].next), m[p].next, "prev", m[p].prev)

\* p leaves its siblings; the new first child learns who the parent is.
Detach(m, p) ==
    LET q == m[p].parent
    IN  IF q # NULL
        THEN LET out == TListRemove(m, q, p)
             IN  Store(out, out[q].child, "parent", q)
        ELSE Store(Store(m, m[p].prev, "next", m[p].next), m[p].next, "prev", m[p].prev)

\* p becomes the first child of q; the child that was first forgets its parent.
Attach(m, q, p) ==
    TListAdd(Store([m EXCEPT ![p].parent = q], m[q].child, "parent", NULL), q, p)

\* talloc_steal(new_ctx, ptr)
talloc_steal(m, q, p) ==
    CASE q = NULL ->
            [Detach(m, p) EXCEPT ![p].parent = NULL, ![p].next = NULL, ![p].prev = NULL]
      [] q = p -> m
      [] OTHER -> Attach(Detach(m, p), q, p)

Blank ==
    [ magic |-> "unused", next |-> NULL, prev |-> NULL, parent |-> NULL, child |-> NULL,
      refs |-> <<>>, destructor |-> "none", target |-> NULL ]

Freed == [Blank EXCEPT !.magic = "free"]

\* The block goes back to malloc; what it held is not looked at again.
Release(m, p) == [Detach(m, p) EXCEPT ![p] = Freed]

\* _TLIST_REMOVE(tc->refs, handle)
DropRef(m, h) == [m EXCEPT ![m[h].target].refs = SelectSeq(@, LAMBDA x : x # h)]

\* talloc_reference_destructor() called for the reference of a block that is being
\* freed: the handle loses its destructor and is freed.
talloc_reference_destructor(m, h) == Release(DropRef(m, h), h)

-----------------------------------------------------------------------------
(* talloc_free *)

Call(at, p) == [at |-> at, ptr |-> p, child |-> NULL, heir |-> NULL]

talloc_free_RefsIgnored(m, s, p) ==
    CASE m[p].destructor = "running" ->
            [m |-> m, s |-> s, r |-> "failed"]
      [] m[p].destructor = "ref" ->
            [m |-> Release(DropRef(m, p), p), s |-> s, r |-> "freed"]
      [] m[p].destructor = "user" ->
            [m |-> [m EXCEPT ![p].destructor = "running"],
             s |-> <<Call("destructor", p)>> \o s, r |-> "none"]
      [] OTHER ->
            [m |-> m, s |-> <<Call("children", p)>> \o s, r |-> "none"]

\* talloc_free(ptr) up to the first callback: a referenced block loses a reference
\* and stays, one whose destructor runs already stays, a reference handle goes at
\* once (its own destructor cannot free it a second time).
talloc_free(m, s, p) ==
    CASE m[p].refs # <<>> ->
            [m |-> talloc_reference_destructor(m, Head(m[p].refs)), s |-> s, r |-> "failed"]
      [] m[p].refs = <<>> /\ m[p].destructor = "running" ->
            [m |-> m, s |-> s, r |-> "failed"]
      [] m[p].refs = <<>> /\ m[p].destructor = "ref" ->
            [m |-> Release(DropRef(m, p), p), s |-> s, r |-> "freed"]
      [] m[p].refs = <<>> /\ m[p].destructor = "user" ->
            [m |-> [m EXCEPT ![p].destructor = "running"],
             s |-> <<Call("destructor", p)>> \o s, r |-> "none"]
      [] OTHER ->
            [m |-> m, s |-> <<Call("children", p)>> \o s, r |-> "none"]

Running == dead = "no"

\* The caller has control: between calls, or in a destructor.
Caller ==
    /\ Running
    /\ \/ stack = <<>> /\ calls' = 0
       \/ /\ stack # <<>> /\ Head(stack).at = "destructor"
          /\ calls < MaxCalls /\ calls' = calls + 1

\* The blocks that have p among their ancestors.
Below(m, p) == { q \in Live(m) : p \in Ancestors(m, q) }

\* The callers' own rule: what is being freed is not moved or referred to, and not
\* freed again once its children are being freed.
Misuse(ps, at) ==
    misused' = (misused \/ \E f \in Range(stack) : f.at \in at /\ f.ptr \in ps)

Call_free(p) ==
    LET f == talloc_free(mem, stack, p)
    IN  /\ mem' = f.m /\ stack' = f.s

\* talloc_free(ptr) by a caller.
Free(p) ==
    /\ Caller
    /\ Len(stack) < MaxDepth
    /\ Call_free(p)
    /\ Misuse(Below(mem, p), {"children"})
    /\ UNCHANGED <<ret, steals, dead>>

\* The chunk header of the innermost call is used; it may have been freed meanwhile.
\* With more calls than blocks a block is freed inside of its own free, and the calls
\* go deeper until the C stack ends.
Stale == mem[Head(stack).ptr].magic # "ok" \/ Len(stack) > NumChunks

GoAstray ==
    /\ Running /\ stack # <<>> /\ Stale
    /\ dead' = "stale"
    /\ UNCHANGED <<mem, stack, ret, calls, steals, misused>>

\* The destructor returns: -1 keeps the block, 0 goes on to the children.
DestructorReturns ==
    /\ Running /\ stack # <<>> /\ ~Stale
    /\ Head(stack).at = "destructor"
    /\ LET p == Head(stack).ptr
       IN  \/ /\ mem' = [mem EXCEPT ![p].destructor = "user"]
              /\ stack' = Tail(stack)
              /\ ret' = IF Len(stack) > 1 /\ stack[2].at = "children" THEN "failed" ELSE "none"
           \/ /\ mem' = [mem EXCEPT ![p].destructor = "none"]
              /\ stack' = <<Call("children", p)>> \o Tail(stack)
              /\ UNCHANGED ret
    /\ UNCHANGED <<calls, steals, misused, dead>>

\* The next round of talloc_free_children(): the heir is chosen before the child is
\* freed, since the free may drop the reference it is taken from.
FreeChild ==
    /\ Running /\ stack # <<>> /\ ~Stale /\ ret = "none"
    /\ Head(stack).at = "children"
    /\ mem[Head(stack).ptr].child # NULL
    /\ LET top == Head(stack)
           c == mem[top.ptr].child
           h == mem[c].refs
           heir == IF h = <<>> THEN NULL ELSE talloc_parent_chunk(mem, Head(h))
           below == <<[top EXCEPT !.child = c, !.heir = heir]>> \o Tail(stack)
           f == talloc_free(mem, below, c)
       IN  IF mem[c].magic = "ok"
           THEN /\ mem' = f.m /\ stack' = f.s /\ ret' = f.r
                /\ UNCHANGED dead
           ELSE /\ dead' = "abort"
                /\ UNCHANGED <<mem, stack, ret>>
    /\ UNCHANGED <<calls, steals, misused>>

Abandon_NotMoved ==
    /\ Running /\ stack # <<>> /\ ~Stale
    /\ Head(stack).at = "children" /\ ret = "failed"
    /\ stack' = <<Call("children", Head(stack).ptr)>> \o Tail(stack)
    /\ ret' = "none"
    /\ UNCHANGED <<mem, calls, steals, misused, dead>>

\* talloc_free(child) gave -1: whoever refers to the child gets it, or else the
\* parent of the block that is being freed.
Abandon ==
    /\ Running /\ stack # <<>> /\ ~Stale
    /\ Head(stack).at = "children" /\ ret = "failed"
    /\ LET top == Head(stack)
           heir == IF top.heir = NULL THEN talloc_parent_chunk(mem, top.ptr) ELSE top.heir
       IN  /\ mem' = talloc_steal(mem, heir, top.child)
           /\ stack' = <<Call("children", top.ptr)>> \o Tail(stack)
    /\ ret' = "none"
    /\ UNCHANGED <<calls, steals, misused, dead>>

ChildFreed ==
    /\ Running /\ stack # <<>> /\ ~Stale
    /\ Head(stack).at = "children" /\ ret = "freed"
    /\ ret' = "none"
    /\ UNCHANGED <<mem, stack, calls, steals, misused, dead>>

\* No child is left: talloc_free() unlinks the block and frees it.
FreeEnds ==
    /\ Running /\ stack # <<>> /\ ~Stale /\ ret = "none"
    /\ Head(stack).at = "children"
    /\ mem[Head(stack).ptr].child = NULL
    /\ mem' = Release(mem, Head(stack).ptr)
    /\ stack' = Tail(stack)
    /\ ret' = IF Len(stack) > 1 /\ stack[2].at = "children" THEN "freed" ELSE "none"
    /\ UNCHANGED <<calls, steals, misused, dead>>

-----------------------------------------------------------------------------
(* The other calls *)

Unused(m) == { p \in Chunk : m[p].magic = "unused" }

Fresh(m) == CHOOSE p \in Unused(m) : \A q \in Unused(m) : p <= q

\* _talloc(context, size); without memory it returns NULL and changes nothing.
NewChunk(m, context, header) ==
    LET p == Fresh(m)
        with == [m EXCEPT ![p] = header]
    IN  IF context = NULL THEN with ELSE Attach(with, context, p)

_talloc(context) ==
    /\ Caller
    /\ Unused(mem) # {}
    /\ mem' = NewChunk(mem, context, [Blank EXCEPT !.magic = "ok"])
    /\ UNCHANGED <<stack, ret, steals, misused, dead>>

talloc_set_destructor(p, d) ==
    /\ Caller
    /\ mem[p].destructor \in {"none", "user"} \ {d}
    /\ mem' = [mem EXCEPT ![p].destructor = d]
    /\ UNCHANGED <<stack, ret, steals, misused, dead>>

\* Who keeps whom: the parent its children, a reference what it refers to.
Keeps(m, q, p) ==
    \/ talloc_parent_chunk(m, p) = q
    \/ \E h \in Range(m[p].refs) : talloc_parent_chunk(m, h) = q

KeptBy(m, q) ==
    LET kept[k \in 0 .. NumChunks] ==
            IF k = 0 THEN {q}
            ELSE LET b == kept[k - 1]
                 IN  b \cup { p \in Live(m) : \E o \in b : Keeps(m, o, p) }
    IN  kept[NumChunks]

\* talloc_reference(context, ptr), talloc_increase_ref_count(ptr) for no context.
\* The callers do not make a block keep itself.
talloc_reference(context, p) ==
    /\ Caller
    /\ Unused(mem) # {}
    /\ context # NULL => context \notin KeptBy(mem, p)
    /\ LET h == Fresh(mem)
           m == NewChunk(mem, context,
                         [Blank EXCEPT !.magic = "ok", !.destructor = "ref", !.target = p])
       IN  mem' = [m EXCEPT ![p].refs = <<h>> \o @]
    /\ Misuse({p}, {"destructor", "children"})
    /\ UNCHANGED <<stack, ret, steals, dead>>

\* The handle talloc_unreference() finds: the first one below the context.
RefFrom(m, context, p) ==
    LET mine == SelectSeq(m[p].refs, LAMBDA h : talloc_parent_chunk(m, h) = context)
    IN  IF mine = <<>> THEN NULL ELSE Head(mine)

\* talloc_unreference(): the handle goes without its destructor.
talloc_unreference(m, h) == Release(DropRef(m, h), h)

\* talloc_unlink(context, ptr): a reference from the context goes; if the context is
\* the parent instead, the first of the other references becomes the parent, and
\* only without any the block is freed.
talloc_unlink(context, p) ==
    /\ Caller
    /\ Len(stack) < MaxDepth
    /\ LET h == RefFrom(mem, context, p)
           g == Head(mem[p].refs)
           q == talloc_parent_chunk(mem, g)
           first == RefFrom(mem, q, p)
       IN  \/ /\ h # NULL
              /\ mem' = talloc_unreference(mem, h)
              /\ UNCHANGED stack
           \/ /\ h = NULL /\ talloc_parent_chunk(mem, p) = context
              /\ mem[p].refs = <<>>
              /\ Call_free(p)
           \/ /\ h = NULL /\ talloc_parent_chunk(mem, p) = context
              /\ mem[p].refs # <<>>
              /\ mem' = talloc_steal(talloc_unreference(mem, first), q, p)
              /\ UNCHANGED stack
    /\ Misuse(Below(mem, p), {"children"})
    /\ UNCHANGED <<ret, steals, dead>>

\* _talloc_realloc() that moves the block: the copy takes over every pointer to the
\* old place.  Referenced blocks are not moved.
_talloc_realloc(p) ==
    /\ Caller
    /\ Unused(mem) # {}
    /\ mem[p].refs = <<>>
    /\ LET n == Fresh(mem)
           old == mem[p]
           m1 == [mem EXCEPT ![n] = old, ![p] = Freed]
           m2 == Store(Store(m1, old.parent, "child", n), old.child, "parent", n)
       IN  mem' = Store(Store(m2, old.prev, "next", n), old.next, "prev", n)
    /\ Misuse({p}, {"destructor", "children"})
    /\ UNCHANGED <<stack, ret, steals, dead>>

\* talloc_steal() by a caller, who does not make a block keep itself.
Steal(q, p) ==
    /\ Caller
    /\ steals < MaxSteals /\ steals' = steals + 1
    /\ q # NULL => q \notin KeptBy(mem, p)
    /\ mem' = talloc_steal(mem, q, p)
    /\ Misuse(Below(mem, p), {"destructor", "children"})
    /\ UNCHANGED <<stack, ret, dead>>

-----------------------------------------------------------------------------
Init ==
    /\ mem = [p \in Chunk |-> Blank]
    /\ stack = <<>>
    /\ ret = "none"
    /\ calls = 0
    /\ steals = 0
    /\ misused = FALSE
    /\ dead = "no"

CallerNext ==
    \/ \E q \in Blocks(mem) \cup {NULL} :
        \/ _talloc(q)
        \/ \E p \in Blocks(mem) :
            \/ talloc_reference(q, p)
            \/ talloc_unlink(q, p)
            \/ Steal(q, p)
    \/ \E p \in Blocks(mem) :
        \/ Free(p)
        \/ _talloc_realloc(p)
        \/ \E d \in {"none", "user"} : talloc_set_destructor(p, d)

LibraryNext == FreeChild \/ Abandon \/ ChildFreed \/ FreeEnds \/ GoAstray

Next == CallerNext \/ DestructorReturns \/ LibraryNext

\* The library runs on, and destructors return.
Spec == Init /\ [][Next]_vars /\ WF_vars(LibraryNext) /\ SF_vars(DestructorReturns)

-----------------------------------------------------------------------------
(* Properties *)

TypeOK ==
    /\ mem \in [Chunk -> Header]
    /\ stack \in Seq(Frame)
    /\ ret \in {"none", "freed", "failed"}
    /\ calls \in 0 .. MaxCalls
    /\ steals \in 0 .. MaxSteals
    /\ misused \in BOOLEAN
    /\ dead \in {"no", "abort", "stale"}

\* The library itself never frees a block twice, or inside of its own free, or follows
\* a pointer to a freed one (talloc_chunk_from_ptr would abort or read freed memory),
\* whatever the destructors do, unless one of them works on a block that is being freed.
OnlyMisuseKills == dead # "no" => misused

\* The four links of the headers describe one tree: lists are doubly linked, the first
\* child and nobody else knows the parent, handles and the lists of references agree,
\* nothing points to freed memory.
LinksAgree ==
    \A p \in Live(mem) :
        LET c == mem[p]
        IN  /\ {c.next, c.prev, c.parent, c.child, c.target} \subseteq Live(mem) \cup {NULL}
            /\ c.next # NULL => mem[c.next].prev = p
            /\ c.prev # NULL => mem[c.prev].next = p /\ c.parent = NULL
            /\ c.parent # NULL => mem[c.parent].child = p
            /\ c.child # NULL => mem[c.child].parent = p /\ mem[c.child].prev = NULL
            /\ Range(c.refs) = { h \in Live(mem) : mem[h].target = p }

\* Whoever inherits an abandoned block is neither the block nor something it keeps:
\* every block stays reachable from a root.
NobodyKeepsItself ==
    \A p \in Live(mem) : ~ \E q \in KeptBy(mem, p) : Keeps(mem, q, p)

\* The count that the leak check compares is the number of blocks that belong to the
\* context: walking down over child and next finds what walking up finds.
BlocksCounted ==
    \A p \in Live(mem) : talloc_total_blocks(mem, p) = Cardinality(Below(mem, p))

\* At every moment at which a destructor could look, in the middle of any free, steal,
\* unlink or realloc, the blocks form one forest in which each has one owner, and
\* talloc_total_blocks, on which the leak check rests, counts it right.  talloc never
\* comes to free a block twice by itself.
TreeSound ==
    /\ TypeOK
    /\ OnlyMisuseKills
    /\ ~misused => LinksAgree /\ NobodyKeepsItself /\ BlocksCounted

\* A block goes only when nobody refers to it, its children are gone and its
\* destructor is not in the middle of its work, even when destructors took
\* references, moved or freed other blocks in between.
FreedLast ==
    [][ ~misused' =>
        \A p \in Live(mem) \ Live(mem') :
            /\ mem[p].refs = <<>>
            /\ mem[p].destructor # "running"
            /\ Unused(mem') = Unused(mem) => mem[p].child = NULL ]_vars

\* A free ends: the loop over the children makes progress even though abandoned
\* children are handed to others - unless a destructor worked on what is being freed,
\* which can leave the loop a child that comes back to it.
FreesEnd == stack # <<>> ~> (stack = <<>> \/ dead # "no" \/ misused)
=============================================================================
