------------------------------ MODULE PathArena ------------------------------
(***************************************************************************)
(* The memory of response paths (exec/path_arena.go).  A path that is      *)
(* passed down in execution is a slice, and nearly all of them share one   *)
(* buffer, the arena of the goroutine: a field's path is the path of its   *)
(* object and one segment written behind it, over what a sibling had       *)
(* there.  What outlives the call that made it, the path of an error, of   *)
(* pending work or of a prepared field, must be a copy.  Arenas are pooled *)
(* and used again by other goroutines and other requests.                  *)
(*                                                                         *)
(* Slices here begin where their array begins.  A path of the model        *)
(* remembers, besides its slice, what it was made to say.                  *)
(***************************************************************************)
EXTENDS Naturals, Sequences, FiniteSets

CONSTANTS
  Workers,   \* goroutines that execute; one that takes a second arena, the caller of a
             \* parallel query, makes two
  Arenas,    \* path arenas
  NoArena,   \* a context without one: events of a subscription without loaders
  Arrays,    \* what make may return; one that nobody refers to is free again
  Nil,       \* no array: the nil slice
  Segments,  \* response keys and list indexes
  Blank,     \* a cell that make has cleared
  Floor,     \* the least capacity of a buffer, 16
  MaxDepth,  \* bound: segments of a path
  MaxKept    \* bound: paths that are kept at a time

ASSUME PathArenaAssumption ==
  /\ NoArena \notin Arenas
  /\ Nil \notin Arrays
  /\ Floor \in Nat /\ MaxDepth \in Nat /\ MaxKept \in Nat

VARIABLES
  mem,      \* mem[b]: the cells of array b, as many as its capacity
  buf,      \* buf[a]: the array of a.buf
  running,  \* running[w]: w is between withPathArena and recyclePathArena
  arena,    \* arena[w]: the arena in the context of w
  stack,    \* stack[w]: the paths of the calls that w is in, the innermost last
  kept      \* paths of errors, prepared fields, batch objects and pending work

vars == <<mem, buf, running, arena, stack, kept>>

Path == [arr : Arrays \cup {Nil}, len : Nat, says : Seq(Segments)]
Root == [arr |-> Nil, len |-> 0, says |-> <<>>]

TypeOK ==
  /\ mem \in [Arrays -> Seq(Segments \cup {Blank})]
  /\ buf \in [Arenas -> Arrays \cup {Nil}]
  /\ running \in [Workers -> BOOLEAN]
  /\ arena \in [Workers -> Arenas \cup {NoArena}]
  /\ stack \in [Workers -> Seq(Path)]
  /\ kept \subseteq Path

Init ==
  /\ mem = [b \in Arrays |-> <<>>]
  /\ buf = [a \in Arenas |-> Nil]
  /\ running = [w \in Workers |-> FALSE]
  /\ arena = [w \in Workers |-> NoArena]
  /\ stack = [w \in Workers |-> <<>>]
  /\ kept = {}

-----------------------------------------------------------------------------
(* Slices                                                                  *)

Cells(p) == IF p.arr = Nil THEN <<>> ELSE mem[p.arr]

\* What is read through the slice now.
Read(p) == [n \in 1..p.len |-> Cells(p)[n]]

Cap(b) == IF b = Nil THEN 0 ELSE Len(mem[b])

Frames(w) == {stack[w][i] : i \in DOMAIN stack[w]}

\* The arrays that somebody refers to: the collector leaves them alone.
Used == {buf[a] : a \in Arenas}
        \cup {p.arr : p \in kept \cup UNION {Frames(w) : w \in Workers}}

\* An array of size cells is made, with p copied into it, and what follows behind.
Made(b, p, follows, size) ==
  /\ b \in Arrays \ Used
  /\ mem' = [mem EXCEPT ![b] =
       [n \in 1..size |-> IF n <= p.len THEN Cells(p)[n]
                          ELSE IF n <= p.len + Len(follows) THEN follows[n - p.len]
                          ELSE Blank]]

In(w)   == running[w] /\ stack[w] # <<>>
Top(w)  == stack[w][Len(stack[w])]
Push(w, p) == stack' = [stack EXCEPT ![w] = Append(@, p)]

-----------------------------------------------------------------------------
(* Arenas and calls                                                        *)

\* withPathArena, with an arena out of the pool or a new one, which has no buffer.
Begin(w) ==
  /\ ~running[w]
  /\ running' = [running EXCEPT ![w] = TRUE]
  /\ \/ UNCHANGED <<arena, buf>>
     \/ \E a \in Arenas \ {arena[v] : v \in Workers} :
          /\ arena' = [arena EXCEPT ![w] = a]
          /\ buf' = buf \/ buf' = [buf EXCEPT ![a] = Nil]
  /\ UNCHANGED <<mem, stack, kept>>

\* recyclePathArena: the buffer stays with the arena.
End(w) ==
  /\ running[w] /\ stack[w] = <<>>
  /\ running' = [running EXCEPT ![w] = FALSE]
  /\ arena' = [arena EXCEPT ![w] = NoArena]
  /\ UNCHANGED <<mem, buf, stack, kept>>

\* Execution begins at the root, or at a path that was kept: a batch object's, or
\* pending work's.
Enter(w) ==
  /\ running[w] /\ stack[w] = <<>>
  /\ arena[w] # NoArena
  /\ \E p \in kept \cup {Root} : Push(w, p)
  /\ UNCHANGED <<mem, buf, running, arena, kept>>

\* The call returns, or a panic takes it away.
Return(w) ==
  /\ In(w)
  /\ stack' = [stack EXCEPT ![w] = SubSeq(@, 1, Len(@) - 1)]
  /\ UNCHANGED <<mem, buf, running, arena, kept>>

-----------------------------------------------------------------------------
(* Paths that are made                                                     *)

\* The path of a field or a list item below p, in array b.
Below(p, b, seg) == [arr |-> b, len |-> p.len + 1, says |-> Append(p.says, seg)]

Greater(m, n) == IF m > n THEN m ELSE n

\* The event of a subscription is completed: []any{outKey}.
EnterEvent(w, seg) ==
  /\ running[w] /\ stack[w] = <<>>
  /\ \E b \in Arrays : Made(b, Root, <<seg>>, 1) /\ Push(w, Below(Root, b, seg))
  /\ UNCHANGED <<buf, running, arena, kept>>

\* extendAppendedPath where there is no arena: appendPath.
ExtendBare(w, seg) ==
  /\ arena[w] = NoArena
  /\ \E b \in Arrays :
       /\ Made(b, Top(w), <<seg>>, Top(w).len + 1)
       /\ Push(w, Below(Top(w), b, seg))
  /\ UNCHANGED buf

\* It does not fit: a larger buffer, in which the path stands as well.
ExtendGrow(w, seg) ==
  /\ arena[w] # NoArena
  /\ Top(w).len + 1 > Cap(buf[arena[w]])
  /\ \E b \in Arrays :
       /\ Made(b, Top(w), <<seg>>, Greater(2 * (Top(w).len + 1), Floor))
       /\ buf' = [buf EXCEPT ![arena[w]] = b]
       /\ Push(w, Below(Top(w), b, seg))

\* Mutant: the path is taken to be in the buffer already.
ExtendUncopied(w, seg) ==
  /\ arena[w] # NoArena
  /\ Top(w).len + 1 <= Cap(buf[arena[w]])
  /\ mem' = [mem EXCEPT ![buf[arena[w]]][Top(w).len + 1] = seg]
  /\ Push(w, Below(Top(w), buf[arena[w]], seg))
  /\ UNCHANGED buf

\* It fits: the path is copied to the front of the buffer, which changes nothing
\* where it is there already, and the segment is written behind it.
ExtendInPlace(w, seg) ==
  /\ arena[w] # NoArena
  /\ Top(w).len + 1 <= Cap(buf[arena[w]])
  /\ mem' = [mem EXCEPT ![buf[arena[w]]] =
       [n \in DOMAIN @ |-> IF n <= Top(w).len THEN Cells(Top(w))[n]
                           ELSE IF n = Top(w).len + 1 THEN seg ELSE @[n]]]
  /\ Push(w, Below(Top(w), buf[arena[w]], seg))
  /\ UNCHANGED buf

Extend(w, seg) ==
  /\ In(w) /\ Top(w).len < MaxDepth
  /\ ExtendBare(w, seg) \/ ExtendGrow(w, seg) \/ ExtendInPlace(w, seg)
  /\ UNCHANGED <<running, arena, kept>>

\* A prepared field is completed: it was put away under the text of its path and
\* is found by reading this one; it comes with a path of its own.
Complete(w, seg) ==
  /\ In(w) /\ arena[w] # NoArena
  /\ \E p \in kept :
       /\ p.says = Append(Read(Top(w)), seg)
       /\ Push(w, [p EXCEPT !.says = Append(Top(w).says, seg)])
  /\ UNCHANGED <<mem, buf, running, arena, kept>>

\* Mutant: the slice is kept instead of a copy.
KeepSlice(w) ==
  /\ In(w) /\ Cardinality(kept) < MaxKept
  /\ kept' = kept \cup {Top(w)}
  /\ UNCHANGED <<mem, buf, running, arena, stack>>

\* clonePath, and the copy in NewFieldError; of an empty path, nil.
Keep(w) ==
  /\ In(w) /\ Cardinality(kept) < MaxKept
  /\ \/ /\ Top(w).len = 0
        /\ kept' = kept \cup {Root}
        /\ UNCHANGED mem
     \/ /\ Top(w).len > 0
        /\ \E b \in Arrays : /\ Made(b, Top(w), <<>>, Top(w).len)
                             /\ kept' = kept \cup {[Top(w) EXCEPT !.arr = b]}
  /\ UNCHANGED <<buf, running, arena, stack>>

\* appendPath to a path that is kept: a list item of a batch, a field that failed.
KeepBelow(w, seg) ==
  /\ arena[w] # NoArena /\ Cardinality(kept) < MaxKept
  /\ \E p \in kept, b \in Arrays :
       /\ p.len < MaxDepth
       /\ Made(b, p, <<seg>>, p.len + 1)
       /\ kept' = kept \cup {Below(p, b, seg)}
  /\ UNCHANGED <<buf, running, arena, stack>>

\* The response is sent, the work is done.
Forget ==
  /\ \E p \in kept : kept' = kept \ {p}
  /\ UNCHANGED <<mem, buf, running, arena, stack>>

Next ==
  \/ \E w \in Workers :
       \/ Begin(w) \/ End(w) \/ Enter(w) \/ Return(w) \/ Keep(w)
       \/ \E seg \in Segments :
            EnterEvent(w, seg) \/ Extend(w, seg) \/ Complete(w, seg) \/ KeepBelow(w, seg)
  \/ Forget

Spec == Init /\ [][Next]_vars

-----------------------------------------------------------------------------
(* Properties                                                              *)

\* Every path that can still be read says what it was made to say: those of all
\* the calls a goroutine is in, though each shares its cells with the next and
\* a buffer may be replaced between them; and those that were kept, whatever is
\* executed afterwards and whoever has the arena (path_arena.go:70).
PathsHold ==
  /\ \A w \in Workers : \A p \in Frames(w) : Read(p) = p.says
  /\ \A p \in kept : Read(p) = p.says

\* The cells of p that its slice covers are there and say what p says.
Holds(p) ==
  /\ p.len = Len(p.says)
  /\ p.arr = Nil <=> p.len = 0
  /\ p.len <= Cap(p.arr)
  /\ \A n \in 1..p.len : mem[p.arr][n] = p.says[n]

AllHold ==
  /\ \A w \in Workers : \A i \in 1..Len(stack[w]) : Holds(stack[w][i])
  /\ \A p \in kept : Holds(p)

\* The calls of a goroutine are nested: what an outer one's path says, an inner
\* one's says as well, so that to copy the inner path over the outer is harmless.
Extends(q, p) == p.len <= q.len /\ \A n \in 1..p.len : q.says[n] = p.says[n]

Nested ==
  \A w \in Workers : \A i, j \in 1..Len(stack[w]) : i <= j => Extends(stack[w][j], stack[w][i])

\* A buffer belongs to one arena, an arena to one goroutine, which alone has paths
\* in the buffer; what is kept is in no buffer.
Private ==
  /\ \A w \in Workers : ~running[w] => arena[w] = NoArena /\ stack[w] = <<>>
  /\ \A v, w \in Workers : arena[v] = arena[w] /\ arena[v] # NoArena => v = w
  /\ \A a, c \in Arenas : buf[a] = buf[c] /\ buf[a] # Nil => a = c
  /\ \A w \in Workers : \A i \in 1..Len(stack[w]) : \A a \in Arenas :
       stack[w][i].arr = buf[a] /\ buf[a] # Nil => arena[w] = a
  /\ \A p \in kept : \A a \in Arenas : p.arr = buf[a] => buf[a] = Nil

\* The inductive invariant.
IInv == TypeOK /\ AllHold /\ Nested /\ Private
=============================================================================
