-------------------------- MODULE PathArena_proofs --------------------------
(***************************************************************************)
(* For any goroutines, arenas, arrays and depth: the sharing of buffers is *)
(* never seen; every path says what it was made to say.                    *)
(***************************************************************************)
EXTENDS PathArena, SequenceTheorems, TLAPS

LEMMA SeqFacts ==
  ASSUME NEW S, NEW k \in Nat, NEW f \in [1..k -> S]
  PROVE  f \in Seq(S) /\ Len(f) = k
<1>1. f \in Seq(S) /\ DOMAIN f = 1..k
  OBVIOUS
<1>2. Len(f) \in Nat /\ DOMAIN f = 1..Len(f)
  BY <1>1
<1>. QED BY <1>1, <1>2

LEMMA PathFacts ==
  ASSUME NEW p \in Path
  PROVE  /\ p.arr \in Arrays \cup {Nil} /\ p.len \in Nat /\ p.says \in Seq(Segments)
         /\ Len(p.says) \in Nat /\ DOMAIN p.says = 1..Len(p.says)
BY DEF Path

\* A path that holds is read as what it says.
LEMMA ReadsRight ==
  ASSUME NEW p \in Path, Holds(p)
  PROVE  Read(p) = p.says
<1>1. p.says \in Seq(Segments) /\ p.len \in Nat /\ p.len = Len(p.says) /\ (p.arr = Nil <=> p.len = 0)
  BY PathFacts DEF Holds
<1>2. \A n \in 1..p.len : Cells(p)[n] = p.says[n]
  <2>1. ASSUME NEW n \in 1..p.len PROVE p.arr # Nil /\ Cells(p) = mem[p.arr]
    BY <1>1 DEF Cells
  <2>. QED BY <2>1 DEF Holds
<1>3. DOMAIN Read(p) = 1..Len(p.says) /\ \A n \in 1..Len(p.says) : Read(p)[n] = p.says[n]
  BY <1>1, <1>2 DEF Read
<1>4. p.says = [n \in 1..Len(p.says) |-> p.says[n]]
  BY <1>1
<1>5. Read(p) = [n \in 1..Len(p.says) |-> p.says[n]]
  BY <1>1, <1>2 DEF Read
<1>. QED BY <1>4, <1>5

LEMMA AllHoldRead == TypeOK /\ AllHold => PathsHold
<1>. SUFFICES ASSUME TypeOK, AllHold PROVE PathsHold
  OBVIOUS
<1>1. ASSUME NEW w \in Workers, NEW p \in Frames(w) PROVE Read(p) = p.says
  <2>1. stack[w] \in Seq(Path)
    BY DEF TypeOK
  <2>2. PICK i \in 1..Len(stack[w]) : p = stack[w][i]
    BY <2>1 DEF Frames
  <2>. QED BY <2>1, <2>2, ReadsRight DEF AllHold
<1>2. ASSUME NEW p \in kept PROVE Read(p) = p.says
  BY ReadsRight DEF AllHold, TypeOK
<1>. QED BY <1>1, <1>2 DEF PathsHold

-----------------------------------------------------------------------------
(* Calls                                                                   *)

\* The innermost path.
LEMMA TopFacts ==
  ASSUME TypeOK, NEW w \in Workers, stack[w] # <<>>
  PROVE  /\ Len(stack[w]) \in Nat /\ Len(stack[w]) \in 1..Len(stack[w])
         /\ Top(w) \in Path
<1>1. stack[w] \in Seq(Path)
  BY DEF TypeOK
<1>2. Len(stack[w]) \in Nat /\ Len(stack[w]) # 0
  BY <1>1, EmptySeq
<1>3. Len(stack[w]) \in 1..Len(stack[w])
  BY <1>2
<1>. QED BY <1>1, <1>2, <1>3 DEF Top

LEMMA PushFacts ==
  ASSUME TypeOK, NEW w \in Workers, NEW q \in Path, Push(w, q)
  PROVE  /\ stack' \in [Workers -> Seq(Path)]
         /\ \A v \in Workers : v # w => stack'[v] = stack[v]
         /\ Len(stack[w]) \in Nat
         /\ Len(stack'[w]) = Len(stack[w]) + 1
         /\ stack'[w][Len(stack[w]) + 1] = q
         /\ \A i \in 1..Len(stack[w]) : stack'[w][i] = stack[w][i]
<1>1. stack \in [Workers -> Seq(Path)] /\ stack' = [stack EXCEPT ![w] = Append(stack[w], q)]
  BY DEF TypeOK, Push
<1>2. stack[w] \in Seq(Path) /\ stack'[w] = Append(stack[w], q)
  BY <1>1
<1>3. Append(stack[w], q) \in Seq(Path)
  BY <1>2
<1>4. stack' \in [Workers -> Seq(Path)] /\ \A v \in Workers : v # w => stack'[v] = stack[v]
  BY <1>1, <1>3
<1>. QED BY <1>2, <1>4, AppendProperties

\* Somebody can read p.
Live(p) == p \in kept \/ \E w \in Workers : \E i \in 1..Len(stack[w]) : stack[w][i] = p

\* What could be read before the step holds after it.
Carried == \A p \in Path : Live(p) => Holds(p)'

\* A call with a path that extends the innermost one.
LEMMA Pushed ==
  ASSUME IInv, Carried, NEW w \in Workers, NEW q \in Path, Push(w, q), kept' = kept,
         Holds(q)', stack[w] # <<>> => Extends(q, Top(w))
  PROVE  AllHold' /\ Nested'
<1>. DEFINE m == Len(stack[w])
<1>1. TypeOK /\ AllHold /\ Nested
  BY DEF IInv
<1>2. /\ \A v \in Workers : v # w => stack'[v] = stack[v]
      /\ m \in Nat /\ Len(stack'[w]) = m + 1 /\ stack'[w][m + 1] = q
      /\ \A i \in 1..m : stack'[w][i] = stack[w][i]
  BY <1>1, PushFacts
<1>3. \A v \in Workers : \A i \in 1..Len(stack[v]) : stack[v][i] \in Path
  BY <1>1 DEF TypeOK
<1>. HIDE DEF m
<1>4. \A i \in 1..Len(stack'[w]) : i \in 1..m \/ i = m + 1
  BY <1>2
<1>5. AllHold'
  <2>1. ASSUME NEW v \in Workers, NEW i \in 1..Len(stack'[v])
        PROVE  \E p \in Path : p = stack'[v][i] /\ Holds(p)'
    <3>1. CASE v # w \/ i \in 1..m
      <4>1. i \in 1..Len(stack[v]) /\ stack'[v][i] = stack[v][i]
        BY <1>2, <3>1, <2>1 DEF m
      <4>2. Live(stack[v][i]) /\ stack[v][i] \in Path
        BY <1>3, <4>1 DEF Live
      <4>. QED BY <4>1, <4>2 DEF Carried
    <3>2. CASE v = w /\ i = m + 1
      BY <1>2, <3>2
    <3>. QED BY <1>4, <3>1, <3>2
  <2>2. \A v \in Workers : \A i \in 1..Len(stack'[v]) : Holds(stack[v][i])'
    BY <2>1, SMTT(30) DEF Holds, Cap
  <2>3. \A p \in kept' : Holds(p)'
    BY <1>1 DEF Carried, Live, TypeOK
  <2>. QED BY <2>2, <2>3 DEF AllHold
<1>6. Nested'
  <2>. SUFFICES ASSUME NEW v \in Workers, NEW i \in 1..Len(stack'[v]), NEW j \in 1..Len(stack'[v]),
                       i <= j
                PROVE  Extends(stack'[v][j], stack'[v][i])
    BY DEF Nested, Extends
  <2>1. CASE v # w
    BY <1>1, <1>2, <2>1 DEF Nested
  <2>2. CASE v = w /\ j \in 1..m
    <3>1. i \in 1..m
      BY <1>2, <2>2
    <3>. QED BY <1>1, <1>2, <2>2, <3>1 DEF Nested, m
  <2>3. CASE v = w /\ j = m + 1 /\ i = m + 1
    BY <1>2, <2>3, PathFacts DEF Extends
  <2>4. CASE v = w /\ j = m + 1 /\ i \in 1..m
    <3>1. stack[w] # <<>>
      BY <1>2, <2>4, EmptySeq DEF m
    <3>2. m \in 1..m /\ Top(w) = stack[w][m] /\ Top(w) \in Path
      BY <1>1, <3>1, TopFacts DEF Top, m
    <3>3. Extends(Top(w), stack[w][i])
      <4>1. i <= m
        BY <1>2, <2>4
      <4>. QED BY <1>1, <2>4, <3>2, <4>1 DEF Nested, m
    <3>4. Extends(q, stack[w][i])
      <4>1. stack[w][i] \in Path
        BY <1>3, <2>4 DEF m
      <4>2. /\ q.len \in Nat /\ Top(w).len \in Nat /\ stack[w][i].len \in Nat
            /\ Extends(q, Top(w))
        BY <3>1, <3>2, <4>1, PathFacts
      <4>3. stack[w][i].len <= q.len /\ \A n \in 1..stack[w][i].len : n \in 1..Top(w).len
        BY <3>3, <4>2 DEF Extends
      <4>. QED BY <3>3, <4>2, <4>3 DEF Extends
    <3>. QED BY <1>2, <2>4, <3>4
  <2>. QED BY <1>4, <2>1, <2>2, <2>3, <2>4
<1>. QED BY <1>5, <1>6

\* A call begins, with a path in no buffer or in the one of its own arena.
LEMMA PushedPrivate ==
  ASSUME IInv, NEW w \in Workers, NEW q \in Path, Push(w, q), running[w],
         kept' = kept, arena' = arena, running' = running, buf' = buf,
         \A a \in Arenas : q.arr = buf[a] /\ buf[a] # Nil => arena[w] = a
  PROVE  Private'
<1>1. TypeOK /\ Private
  BY DEF IInv
<1>2. /\ \A v \in Workers : v # w => stack'[v] = stack[v]
      /\ Len(stack[w]) \in Nat /\ Len(stack'[w]) = Len(stack[w]) + 1
      /\ stack'[w][Len(stack[w]) + 1] = q
      /\ \A i \in 1..Len(stack[w]) : stack'[w][i] = stack[w][i]
  BY <1>1, PushFacts
<1>3. \A v \in Workers : \A i \in 1..Len(stack'[v]) : \A a \in Arenas :
        stack'[v][i].arr = buf[a] /\ buf[a] # Nil => arena[v] = a
  <2>. SUFFICES ASSUME NEW v \in Workers, NEW i \in 1..Len(stack'[v]), NEW a \in Arenas,
                       stack'[v][i].arr = buf[a], buf[a] # Nil
                PROVE  arena[v] = a
    OBVIOUS
  <2>1. CASE v # w \/ i \in 1..Len(stack[w])
    <3>1. i \in 1..Len(stack[v]) /\ stack'[v][i] = stack[v][i]
      BY <1>2, <2>1
    <3>. QED BY <1>1, <3>1 DEF Private
  <2>2. CASE v = w /\ i = Len(stack[w]) + 1
    BY <1>2, <2>2
  <2>. QED BY <1>2, <2>1, <2>2
<1>4. \A v \in Workers : ~running[v] => arena[v] = NoArena /\ stack'[v] = <<>>
  BY <1>1, <1>2 DEF Private
<1>. QED BY <1>1, <1>3, <1>4 DEF Private

-----------------------------------------------------------------------------
(* Arrays that are made                                                    *)

LEMMA UnusedFacts ==
  ASSUME TypeOK, NEW b \in Arrays \ Used
  PROVE  /\ b # Nil
         /\ \A a \in Arenas : buf[a] # b
         /\ \A p \in kept : p.arr # b
         /\ \A w \in Workers : \A i \in 1..Len(stack[w]) : stack[w][i].arr # b
<1>1. b # Nil
  BY PathArenaAssumption
<1>2. \A w \in Workers : \A i \in 1..Len(stack[w]) : stack[w][i] \in Frames(w)
  BY DEF Frames, TypeOK
<1>. QED BY <1>1, <1>2 DEF Used

\* What a new array has in it.
LEMMA MadeFacts ==
  ASSUME TypeOK, NEW p \in Path, Holds(p), NEW follows \in Seq(Segments), NEW size \in Nat,
         p.len + Len(follows) <= size, NEW b \in Arrays, Made(b, p, follows, size)
  PROVE  /\ mem' \in [Arrays -> Seq(Segments \cup {Blank})]
         /\ \A c \in Arrays : c # b => mem'[c] = mem[c]
         /\ Len(mem'[b]) = size
         /\ \A n \in 1..p.len : mem'[b][n] = p.says[n]
         /\ \A n \in 1..Len(follows) : mem'[b][p.len + n] = follows[n]
<1>. DEFINE cells == [n \in 1..size |-> IF n <= p.len THEN Cells(p)[n]
                                        ELSE IF n <= p.len + Len(follows) THEN follows[n - p.len]
                                        ELSE Blank]
            S == Segments \cup {Blank}
<1>1. mem \in [Arrays -> Seq(S)] /\ mem' = [mem EXCEPT ![b] = cells]
  BY DEF TypeOK, Made
<1>2. p.len \in Nat /\ p.says \in Seq(Segments) /\ p.len = Len(p.says) /\ Len(follows) \in Nat
      /\ (p.arr = Nil <=> p.len = 0)
  BY PathFacts DEF Holds
<1>3. \A n \in 1..p.len : Cells(p)[n] = p.says[n] /\ p.says[n] \in Segments
  <2>1. ASSUME NEW n \in 1..p.len PROVE p.arr # Nil /\ Cells(p) = mem[p.arr]
    BY <1>2 DEF Cells
  <2>. QED BY <1>2, <2>1 DEF Holds
<1>4. \A n \in 1..Len(follows) : follows[n] \in Segments
  OBVIOUS
<1>5. \A n \in 1..size : cells[n] \in S
  <2>1. ASSUME NEW n \in 1..size, n <= p.len PROVE cells[n] \in S
    BY <1>2, <1>3, <2>1
  <2>2. ASSUME NEW n \in 1..size, ~(n <= p.len), n <= p.len + Len(follows) PROVE cells[n] \in S
    <3>1. n - p.len \in 1..Len(follows)
      BY <1>2, <2>2
    <3>. QED BY <1>4, <2>2, <3>1
  <2>. QED BY <2>1, <2>2
<1>6. cells \in Seq(S) /\ Len(cells) = size
  <2>1. cells \in [1..size -> S]
    BY <1>5
  <2>. HIDE DEF cells, S
  <2>. QED BY <2>1, SeqFacts
<1>7. \A n \in 1..p.len : cells[n] = p.says[n]
  BY <1>2, <1>3
<1>8. ASSUME NEW n \in 1..Len(follows) PROVE cells[p.len + n] = follows[n]
  <2>1. p.len + n \in 1..size /\ ~(p.len + n <= p.len) /\ p.len + n <= p.len + Len(follows)
        /\ (p.len + n) - p.len = n
    BY <1>2
  <2>. QED BY <2>1
<1>. HIDE DEF cells
<1>. QED BY <1>1, <1>6, <1>7, <1>8

\* To make an array touches no path that can be read.
LEMMA MadeCarries ==
  ASSUME IInv, NEW b \in Arrays \ Used, \A c \in Arrays : c # b => mem'[c] = mem[c]
  PROVE  Carried
<1>1. TypeOK /\ AllHold
  BY DEF IInv
<1>. SUFFICES ASSUME NEW p \in Path, Live(p) PROVE Holds(p)'
  BY DEF Carried
<1>2. Holds(p) /\ p.arr # b
  BY <1>1, UnusedFacts DEF AllHold, Live
<1>3. p.arr # Nil => mem'[p.arr] = mem[p.arr]
  BY <1>2, PathFacts
<1>4. \A n \in 1..p.len : p.arr # Nil
  BY <1>2, PathFacts DEF Holds
<1>. QED BY <1>2, <1>3, <1>4 DEF Holds, Cap

\* The path of a field in a new array.
LEMMA BelowFacts ==
  ASSUME NEW p \in Path, p.len = Len(p.says), NEW b \in Arrays, NEW seg \in Segments
  PROVE  /\ Below(p, b, seg) \in Path
         /\ Extends(Below(p, b, seg), p)
         /\ \A n \in 1..p.len : Below(p, b, seg).says[n] = p.says[n]
         /\ Below(p, b, seg).says[p.len + 1] = seg
         /\ Below(p, b, seg).len = Len(Below(p, b, seg).says)
         /\ Below(p, b, seg).len = p.len + 1
         /\ Below(p, b, seg).arr = b
         /\ p.len \in Nat /\ b # Nil
<1>1. p.says \in Seq(Segments) /\ p.len \in Nat
  BY PathFacts
<1>2. /\ Append(p.says, seg) \in Seq(Segments) /\ Len(Append(p.says, seg)) = p.len + 1
      /\ Append(p.says, seg)[p.len + 1] = seg
      /\ \A n \in 1..p.len : Append(p.says, seg)[n] = p.says[n]
  BY <1>1, AppendProperties
<1>. QED BY <1>1, <1>2, PathArenaAssumption DEF Below, Path, Extends

LEMMA MadeBelow ==
  ASSUME TypeOK, NEW p \in Path, Holds(p), NEW seg \in Segments, NEW size \in Nat,
         p.len + 1 <= size, NEW b \in Arrays, Made(b, p, <<seg>>, size)
  PROVE  /\ Below(p, b, seg) \in Path
         /\ Holds(Below(p, b, seg))'
         /\ Extends(Below(p, b, seg), p)
         /\ mem' \in [Arrays -> Seq(Segments \cup {Blank})]
         /\ \A c \in Arrays : c # b => mem'[c] = mem[c]
<1>. DEFINE q == Below(p, b, seg)
            f == <<seg>>
<1>1. f \in Seq(Segments) /\ Len(f) = 1 /\ f[1] = seg
  OBVIOUS
<1>2. /\ mem' \in [Arrays -> Seq(Segments \cup {Blank})]
      /\ \A c \in Arrays : c # b => mem'[c] = mem[c]
      /\ Len(mem'[b]) = size
      /\ \A n \in 1..p.len : mem'[b][n] = p.says[n]
      /\ mem'[b][p.len + 1] = seg
  <2>0. TypeOK /\ p \in Path /\ Holds(p) /\ size \in Nat /\ b \in Arrays
    OBVIOUS
  <2>1. Made(b, p, f, size)
    OBVIOUS
  <2>. HIDE DEF f
  <2>2. p.len + Len(f) <= size
    BY <1>1
  <2>3. /\ mem' \in [Arrays -> Seq(Segments \cup {Blank})]
        /\ \A c \in Arrays : c # b => mem'[c] = mem[c]
        /\ Len(mem'[b]) = size
        /\ \A n \in 1..p.len : mem'[b][n] = p.says[n]
        /\ \A n \in 1..Len(f) : mem'[b][p.len + n] = f[n]
    BY <1>1, <2>1, <2>2, MadeFacts
  <2>. QED BY <1>1, <2>3
<1>3. p.len = Len(p.says)
  BY DEF Holds
<1>4. /\ q \in Path /\ Extends(q, p) /\ q.len = Len(q.says) /\ q.len = p.len + 1 /\ q.arr = b
      /\ p.len \in Nat /\ b # Nil
      /\ \A n \in 1..p.len : q.says[n] = p.says[n]
      /\ q.says[p.len + 1] = seg
  BY <1>3, BelowFacts
<1>. HIDE DEF q
<1>5. \A n \in 1..q.len : mem'[b][n] = q.says[n]
  <2>1. \A n \in 1..q.len : n \in 1..p.len \/ n = p.len + 1
    BY <1>4
  <2>. QED BY <1>2, <1>4, <2>1
<1>6. Holds(q)'
  BY <1>2, <1>4, <1>5 DEF Holds, Cap
<1>. QED BY <1>2, <1>4, <1>6 DEF q

\* A copy of what p covers.
LEMMA MadeCopy ==
  ASSUME TypeOK, NEW p \in Path, Holds(p), p.len > 0, NEW b \in Arrays, Made(b, p, <<>>, p.len)
  PROVE  /\ [p EXCEPT !.arr = b] \in Path
         /\ Holds([p EXCEPT !.arr = b])'
         /\ mem' \in [Arrays -> Seq(Segments \cup {Blank})]
         /\ \A c \in Arrays : c # b => mem'[c] = mem[c]
<1>. DEFINE q == [p EXCEPT !.arr = b]
            f == <<>>
<1>1. f \in Seq(Segments) /\ Len(f) = 0
  BY EmptySeq
<1>2. p.len \in Nat /\ p.len = Len(p.says)
  BY PathFacts DEF Holds
<1>. PICK size \in Nat : size = p.len
  BY <1>2
<1>3. /\ mem' \in [Arrays -> Seq(Segments \cup {Blank})]
      /\ \A c \in Arrays : c # b => mem'[c] = mem[c]
      /\ Len(mem'[b]) = p.len
      /\ \A n \in 1..p.len : mem'[b][n] = p.says[n]
  <2>0. TypeOK /\ p \in Path /\ Holds(p) /\ size \in Nat /\ b \in Arrays
    OBVIOUS
  <2>1. Made(b, p, f, size)
    OBVIOUS
  <2>. HIDE DEF f, q
  <2>2. p.len + Len(f) <= size
    BY <1>1, <1>2
  <2>3. /\ mem' \in [Arrays -> Seq(Segments \cup {Blank})]
        /\ \A c \in Arrays : c # b => mem'[c] = mem[c]
        /\ Len(mem'[b]) = size
        /\ \A n \in 1..p.len : mem'[b][n] = p.says[n]
        /\ \A n \in 1..Len(f) : mem'[b][p.len + n] = f[n]
    BY ONLY <2>0, <1>1, <2>1, <2>2, MadeFacts
  <2>. QED BY <2>3
<1>4. q \in Path /\ q.arr = b /\ q.len = p.len /\ q.says = p.says
  BY DEF Path
<1>5. b # Nil
  BY PathArenaAssumption
<1>. HIDE DEF q
<1>6. Holds(q)'
  <2>1. q.len <= Len(mem'[b]) /\ \A n \in 1..q.len : mem'[b][n] = q.says[n]
    BY <1>2, <1>3, <1>4
  <2>. QED BY <1>2, <1>4, <1>5, <2>1 DEF Holds, Cap
<1>. QED BY <1>3, <1>4, <1>6 DEF q

-----------------------------------------------------------------------------
(* Steps                                                                   *)

\* Calls that return, and paths that are kept, disturb no other.
LEMMA Fewer ==
  ASSUME IInv, Carried,
         \A v \in Workers : /\ Len(stack'[v]) \in Nat /\ Len(stack'[v]) <= Len(stack[v])
                            /\ \A i \in 1..Len(stack'[v]) : stack'[v][i] = stack[v][i],
         \A p \in kept' : p \in kept \/ Holds(p)'
  PROVE  AllHold' /\ Nested'
<1>1. TypeOK /\ Nested
  BY DEF IInv
<1>2. \A v \in Workers : Len(stack[v]) \in Nat /\ \A i \in 1..Len(stack[v]) : stack[v][i] \in Path
  BY <1>1 DEF TypeOK
<1>3. \A v \in Workers : \A i \in 1..Len(stack'[v]) :
        i \in 1..Len(stack[v]) /\ stack'[v][i] = stack[v][i]
  BY <1>2
<1>4. ASSUME NEW v \in Workers, NEW i \in 1..Len(stack'[v]) PROVE Holds(stack[v][i])'
  <2>1. \E p \in Path : p = stack'[v][i] /\ Holds(p)'
    BY <1>2, <1>3 DEF Carried, Live
  <2>. QED BY <2>1 DEF Holds, Cap
<1>5. \A p \in kept' : Holds(p)'
  BY <1>1 DEF Carried, Live, TypeOK
<1>6. Nested'
  <2>. SUFFICES ASSUME NEW v \in Workers, NEW i \in 1..Len(stack'[v]), NEW j \in 1..Len(stack'[v]),
                       i <= j
                PROVE  Extends(stack'[v][j], stack'[v][i])
    BY DEF Nested, Extends
  <2>1. Extends(stack[v][j], stack[v][i])
    BY <1>1, <1>3 DEF Nested
  <2>. QED BY <1>3, <2>1
<1>. QED BY <1>4, <1>5, <1>6 DEF AllHold

LEMMA SameMemory == ASSUME IInv, mem' = mem PROVE Carried
<1>. SUFFICES ASSUME NEW p \in Path, Live(p) PROVE Holds(p)'
  BY DEF Carried
<1>1. Holds(p)
  BY DEF IInv, AllHold, Live
<1>. QED BY <1>1 DEF Holds, Cap

LEMMA BeginStep == ASSUME IInv, NEW w \in Workers, Begin(w) PROVE IInv'
<1>1. TypeOK /\ Private /\ Carried
  BY SameMemory DEF IInv, Begin
<1>2. UNCHANGED <<mem, stack, kept>> /\ ~running[w] /\ running' = [running EXCEPT ![w] = TRUE]
  BY DEF Begin
<1>3. AllHold' /\ Nested'
  BY <1>1, <1>2, Fewer DEF TypeOK
<1>4. CASE UNCHANGED <<arena, buf>>
  <2>1. TypeOK'
    BY <1>1, <1>2, <1>4 DEF TypeOK
  <2>2. Private'
    BY <1>1, <1>2, <1>4 DEF Private, TypeOK
  <2>. QED BY <1>3, <2>1, <2>2 DEF IInv
<1>5. ASSUME NEW a \in Arenas \ {arena[v] : v \in Workers}, arena' = [arena EXCEPT ![w] = a],
             buf' = buf \/ buf' = [buf EXCEPT ![a] = Nil]
      PROVE  IInv'
  <2>1. TypeOK'
    BY <1>1, <1>2, <1>5 DEF TypeOK
  <2>2. /\ \A v \in Workers : arena[v] # a
        /\ \A v \in Workers : v # w => arena'[v] = arena[v] /\ running'[v] = running[v]
        /\ arena'[w] = a /\ running'[w] /\ a # NoArena
        /\ \A c \in Arenas : buf'[c] = buf[c] \/ buf'[c] = Nil
        /\ stack[w] = <<>>
    BY <1>1, <1>2, <1>5, PathArenaAssumption DEF TypeOK, Private
  <2>3. Private'
    <3>1. \A v \in Workers : ~running'[v] => arena'[v] = NoArena /\ stack'[v] = <<>>
      BY <1>1, <1>2, <2>2 DEF Private
    <3>2. \A u, v \in Workers : arena'[u] = arena'[v] /\ arena'[u] # NoArena => u = v
      BY <1>1, <2>2 DEF Private
    <3>3. \A c, d \in Arenas : buf'[c] = buf'[d] /\ buf'[c] # Nil => c = d
      BY <1>1, <2>2 DEF Private
    <3>4. \A v \in Workers : \A i \in 1..Len(stack[v]) : \A c \in Arenas :
            stack[v][i].arr = buf'[c] /\ buf'[c] # Nil => arena'[v] = c
      BY <1>1, <2>2 DEF Private
    <3>5. \A p \in kept : \A c \in Arenas : p.arr = buf'[c] => buf'[c] = Nil
      BY <1>1, <2>2 DEF Private
    <3>. QED BY <1>2, <3>1, <3>2, <3>3, <3>4, <3>5 DEF Private
  <2>. QED BY <1>3, <2>1, <2>3 DEF IInv
<1>. QED BY <1>4, <1>5 DEF Begin

LEMMA EndStep == ASSUME IInv, NEW w \in Workers, End(w) PROVE IInv'
<1>1. TypeOK /\ Private /\ Carried
  BY SameMemory DEF IInv, End
<1>2. /\ UNCHANGED <<mem, buf, stack, kept>> /\ stack[w] = <<>>
      /\ running' = [running EXCEPT ![w] = FALSE] /\ arena' = [arena EXCEPT ![w] = NoArena]
  BY DEF End
<1>3. AllHold' /\ Nested'
  BY <1>1, <1>2, Fewer DEF TypeOK
<1>4. TypeOK'
  BY <1>1, <1>2 DEF TypeOK
<1>5. /\ \A v \in Workers : v # w => arena'[v] = arena[v] /\ running'[v] = running[v]
      /\ arena'[w] = NoArena /\ Len(stack[w]) = 0
  BY <1>1, <1>2 DEF TypeOK
<1>6. Private'
  BY <1>1, <1>2, <1>5 DEF Private
<1>. QED BY <1>3, <1>4, <1>6 DEF IInv

LEMMA ReturnStep == ASSUME IInv, NEW w \in Workers, Return(w) PROVE IInv'
<1>. DEFINE m == Len(stack[w])
            rest == SubSeq(stack[w], 1, m - 1)
<1>1. TypeOK /\ Private /\ Carried /\ stack[w] # <<>> /\ running[w]
  BY SameMemory DEF IInv, Return, In
<1>2. UNCHANGED <<mem, buf, running, arena, kept>> /\ stack' = [stack EXCEPT ![w] = rest]
  BY DEF Return
<1>3. stack[w] \in Seq(Path) /\ m \in Nat /\ m \in 1..m
  BY <1>1, TopFacts DEF TypeOK
<1>4. rest \in Seq(Path) /\ Len(rest) = m - 1 /\ \A i \in 1..m - 1 : rest[i] = stack[w][i]
  <2>. HIDE DEF m
  <2>1. 1 \in 1..m + 1 /\ m - 1 \in 1 - 1..m
    BY <1>3
  <2>2. \A i \in 1..m - 1 : stack[w][1 + i - 1] = stack[w][i] /\ i \in 1..(m - 1) - 1 + 1
    BY <1>3
  <2>3. (m - 1) - 1 + 1 = m - 1
    BY <1>3
  <2>. QED BY <1>3, <2>1, <2>2, <2>3, SubSeqProperties DEF m
<1>5. /\ stack' \in [Workers -> Seq(Path)]
      /\ \A v \in Workers : /\ Len(stack'[v]) \in Nat /\ Len(stack'[v]) <= Len(stack[v])
                            /\ \A i \in 1..Len(stack'[v]) : stack'[v][i] = stack[v][i]
  <2>. HIDE DEF rest, m
  <2>1. /\ stack' \in [Workers -> Seq(Path)] /\ stack'[w] = rest
        /\ \A v \in Workers : v # w => stack'[v] = stack[v]
    BY <1>1, <1>2, <1>4 DEF TypeOK
  <2>2. Len(stack'[w]) \in Nat /\ Len(stack'[w]) <= m
    BY <1>3, <1>4, <2>1
  <2>3. \A i \in 1..Len(stack'[w]) : stack'[w][i] = stack[w][i]
    BY <1>4, <2>1
  <2>4. \A v \in Workers : Len(stack[v]) \in Nat
    BY <1>1 DEF TypeOK
  <2>. QED BY <2>1, <2>2, <2>3, <2>4 DEF m
<1>6. AllHold' /\ Nested'
  BY <1>1, <1>2, <1>5, Fewer
<1>7. TypeOK'
  BY <1>1, <1>2, <1>5 DEF TypeOK
<1>8. Private'
  <2>1. \A v \in Workers : \A i \in 1..Len(stack'[v]) :
          i \in 1..Len(stack[v]) /\ stack'[v][i] = stack[v][i]
    BY <1>1, <1>5 DEF TypeOK
  <2>2. \A v \in Workers : ~running[v] => stack'[v] = <<>>
    BY <1>1, <1>2 DEF Private, TypeOK
  <2>. QED BY <1>1, <1>2, <2>1, <2>2 DEF Private
<1>. QED BY <1>6, <1>7, <1>8 DEF IInv

LEMMA ForgetStep == ASSUME IInv, Forget PROVE IInv'
<1>1. TypeOK /\ Private /\ Carried
  BY SameMemory DEF IInv, Forget
<1>2. UNCHANGED <<mem, buf, running, arena, stack>> /\ kept' \subseteq kept
  BY DEF Forget
<1>3. AllHold' /\ Nested'
  BY <1>1, <1>2, Fewer DEF TypeOK
<1>4. TypeOK' /\ Private'
  BY <1>1, <1>2 DEF TypeOK, Private
<1>. QED BY <1>3, <1>4 DEF IInv

LEMMA EnterStep == ASSUME IInv, NEW w \in Workers, Enter(w) PROVE IInv'
<1>1. TypeOK /\ AllHold /\ Private /\ Carried
  BY SameMemory DEF IInv, Enter
<1>2. UNCHANGED <<mem, buf, running, arena, kept>> /\ running[w] /\ stack[w] = <<>>
  BY DEF Enter
<1>3. PICK q \in kept \cup {Root} : Push(w, q)
  BY DEF Enter
<1>4. Root \in Path /\ Holds(Root)
  <2>1. <<>> \in Seq(Segments) /\ Len(<<>>) = 0
    BY EmptySeq
  <2>. QED BY <2>1 DEF Root, Path, Holds, Cap
<1>5. q \in Path /\ Holds(q)
  BY <1>1, <1>3, <1>4 DEF TypeOK, AllHold
<1>6. Holds(q)'
  BY <1>2, <1>5 DEF Holds, Cap
<1>7. AllHold' /\ Nested'
  BY <1>1, <1>2, <1>3, <1>5, <1>6, Pushed
<1>8. \A a \in Arenas : q.arr = buf[a] => buf[a] = Nil
  <2>1. Root.arr = Nil
    BY DEF Root
  <2>. QED BY <1>1, <1>3, <2>1 DEF Private
<1>9. Private'
  BY <1>2, <1>3, <1>5, <1>8, PushedPrivate
<1>10. TypeOK'
  BY <1>1, <1>2, <1>3, <1>5, PushFacts DEF TypeOK
<1>. QED BY <1>7, <1>9, <1>10 DEF IInv

LEMMA EnterEventStep ==
  ASSUME IInv, NEW w \in Workers, NEW seg \in Segments, EnterEvent(w, seg)
  PROVE  IInv'
<1>1. TypeOK /\ Private
  BY DEF IInv
<1>2. UNCHANGED <<buf, running, arena, kept>> /\ running[w] /\ stack[w] = <<>>
  BY DEF EnterEvent
<1>3. PICK b \in Arrays : Made(b, Root, <<seg>>, 1) /\ Push(w, Below(Root, b, seg))
  BY DEF EnterEvent
<1>. DEFINE q == Below(Root, b, seg)
<1>4. Root \in Path /\ Holds(Root) /\ Root.len + 1 <= 1
  <2>1. <<>> \in Seq(Segments) /\ Len(<<>>) = 0
    BY EmptySeq
  <2>. QED BY <2>1 DEF Root, Path, Holds, Cap
<1>5. /\ q \in Path /\ Holds(q)'
      /\ mem' \in [Arrays -> Seq(Segments \cup {Blank})]
      /\ \A c \in Arrays : c # b => mem'[c] = mem[c]
  BY <1>1, <1>3, <1>4, MadeBelow
<1>6. b \in Arrays \ Used /\ q.arr = b
  BY <1>3 DEF Made, Below
<1>7. Carried /\ Push(w, q)
  BY <1>3, <1>5, <1>6, MadeCarries
<1>. HIDE DEF q
<1>8. AllHold' /\ Nested'
  BY <1>2, <1>5, <1>7, Pushed
<1>9. Private'
  BY <1>1, <1>2, <1>5, <1>6, <1>7, UnusedFacts, PushedPrivate
<1>10. TypeOK'
  BY <1>1, <1>2, <1>5, <1>7, PushFacts DEF TypeOK
<1>. QED BY <1>8, <1>9, <1>10 DEF IInv

LEMMA CompleteStep ==
  ASSUME IInv, NEW w \in Workers, NEW seg \in Segments, Complete(w, seg)
  PROVE  IInv'
<1>1. TypeOK /\ AllHold /\ Private /\ Carried
  BY SameMemory DEF IInv, Complete
<1>2. UNCHANGED <<mem, buf, running, arena, kept>> /\ running[w] /\ stack[w] # <<>>
  BY DEF Complete, In
<1>3. Top(w) \in Path /\ Holds(Top(w))
  BY <1>1, <1>2, TopFacts DEF AllHold, Top
<1>4. Read(Top(w)) = Top(w).says
  BY <1>3, ReadsRight
<1>5. PICK p \in kept : /\ p.says = Append(Read(Top(w)), seg)
                        /\ Push(w, [p EXCEPT !.says = Append(Top(w).says, seg)])
  BY DEF Complete
<1>6. p \in Path /\ Holds(p) /\ [p EXCEPT !.says = Append(Top(w).says, seg)] = p
  BY <1>1, <1>4, <1>5 DEF AllHold, TypeOK, Path
<1>7. Push(w, p) /\ Holds(p)'
  BY <1>2, <1>5, <1>6 DEF Holds, Cap
<1>8. Extends(p, Top(w))
  <2>1. p.len = Len(p.says) /\ Top(w).len = Len(Top(w).says) /\ Top(w).says \in Seq(Segments)
    BY <1>3, <1>6, PathFacts DEF Holds
  <2>2. p.says = Append(Top(w).says, seg)
    BY <1>4, <1>5
  <2>3. Len(p.says) = Len(Top(w).says) + 1
        /\ \A n \in 1..Len(Top(w).says) : p.says[n] = Top(w).says[n]
    BY <2>1, <2>2, AppendProperties
  <2>4. Len(Top(w).says) \in Nat
    BY <2>1
  <2>. QED BY <2>1, <2>3, <2>4 DEF Extends
<1>9. AllHold' /\ Nested'
  BY <1>1, <1>2, <1>6, <1>7, <1>8, Pushed
<1>10. Private'
  BY <1>1, <1>2, <1>5, <1>6, <1>7, PushedPrivate DEF Private
<1>11. TypeOK'
  BY <1>1, <1>2, <1>6, <1>7, PushFacts DEF TypeOK
<1>. QED BY <1>9, <1>10, <1>11 DEF IInv

LEMMA KeptStep ==
  ASSUME IInv, Carried, UNCHANGED <<buf, running, arena, stack>>, NEW q \in Path,
         kept' = kept \cup {q}, Holds(q)', \A a \in Arenas : q.arr = buf[a] => buf[a] = Nil,
         mem' \in [Arrays -> Seq(Segments \cup {Blank})]
  PROVE  IInv'
<1>1. TypeOK /\ Private
  BY DEF IInv
<1>2. AllHold' /\ Nested'
  <2>1. \A p \in kept' : p \in kept \/ Holds(p)'
    OBVIOUS
  <2>. QED BY <1>1, <2>1, Fewer DEF TypeOK
<1>3. TypeOK'
  BY <1>1 DEF TypeOK
<1>4. Private'
  BY <1>1 DEF Private
<1>. QED BY <1>2, <1>3, <1>4 DEF IInv

LEMMA KeepStep == ASSUME IInv, NEW w \in Workers, Keep(w) PROVE IInv'
<1>1. TypeOK /\ AllHold
  BY DEF IInv
<1>2. UNCHANGED <<buf, running, arena, stack>> /\ stack[w] # <<>>
  BY DEF Keep, In
<1>. PICK p \in Path : p = Top(w)
  BY <1>1, <1>2, TopFacts
<1>3. Holds(p) /\ p.len \in Nat /\ p.len = Len(p.says) /\ p.says \in Seq(Segments)
  BY <1>1, <1>2, TopFacts, PathFacts DEF AllHold, Top, Holds
<1>4. CASE p.len = 0 /\ kept' = kept \cup {Root} /\ UNCHANGED mem
  <2>1. <<>> \in Seq(Segments) /\ Len(<<>>) = 0
    BY EmptySeq
  <2>2. Root \in Path /\ Holds(Root)' /\ Root.arr = Nil
    BY <2>1 DEF Root, Path, Holds, Cap
  <2>. QED BY <1>1, <1>2, <1>4, <2>2, SameMemory, KeptStep DEF TypeOK
<1>5. ASSUME p.len > 0, NEW b \in Arrays, Made(b, p, <<>>, p.len),
             kept' = kept \cup {[p EXCEPT !.arr = b]}
      PROVE  IInv'
  <2>. DEFINE q == [p EXCEPT !.arr = b]
  <2>1. /\ q \in Path /\ Holds(q)'
        /\ mem' \in [Arrays -> Seq(Segments \cup {Blank})]
        /\ \A c \in Arrays : c # b => mem'[c] = mem[c]
    BY <1>1, <1>3, <1>5, MadeCopy
  <2>2. b \in Arrays \ Used /\ q.arr = b
    BY <1>5 DEF Made, Path
  <2>3. kept' = kept \cup {q}
    BY <1>5
  <2>. HIDE DEF q
  <2>4. Carried
    BY <2>1, <2>2, MadeCarries
  <2>5. \A a \in Arenas : q.arr = buf[a] => buf[a] = Nil
    BY <1>1, <2>2, UnusedFacts
  <2>. QED BY <1>2, <2>1, <2>3, <2>4, <2>5, KeptStep
<1>. QED BY <1>4, <1>5 DEF Keep

LEMMA KeepBelowStep ==
  ASSUME IInv, NEW w \in Workers, NEW seg \in Segments, KeepBelow(w, seg)
  PROVE  IInv'
<1>1. TypeOK /\ AllHold
  BY DEF IInv
<1>2. PICK p \in kept, b \in Arrays : /\ Made(b, p, <<seg>>, p.len + 1)
                                      /\ kept' = kept \cup {Below(p, b, seg)}
  BY DEF KeepBelow
<1>3. UNCHANGED <<buf, running, arena, stack>> /\ p \in Path /\ Holds(p)
      /\ p.len + 1 \in Nat /\ p.len + 1 <= p.len + 1
  BY <1>1, PathFacts DEF KeepBelow, AllHold, TypeOK
<1>. DEFINE q == Below(p, b, seg)
<1>4. /\ q \in Path /\ Holds(q)'
      /\ mem' \in [Arrays -> Seq(Segments \cup {Blank})]
      /\ \A c \in Arrays : c # b => mem'[c] = mem[c]
  BY <1>1, <1>2, <1>3, MadeBelow
<1>5. b \in Arrays \ Used /\ q.arr = b
  BY <1>2 DEF Made, Below
<1>6. kept' = kept \cup {q}
  BY <1>2
<1>. HIDE DEF q
<1>7. Carried
  BY <1>4, <1>5, MadeCarries
<1>8. \A a \in Arenas : q.arr = buf[a] => buf[a] = Nil
  BY <1>1, <1>5, UnusedFacts
<1>. QED BY <1>3, <1>4, <1>6, <1>7, <1>8, KeptStep

-----------------------------------------------------------------------------
(* extendAppendedPath                                                      *)

\* A call with the buffer grown: the old array is left to the calls in it.
LEMMA GrownPrivate ==
  ASSUME IInv, NEW w \in Workers, NEW b \in Arrays \ Used, NEW q \in Path, q.arr = b, Push(w, q),
         running[w], arena[w] # NoArena, buf' = [buf EXCEPT ![arena[w]] = b],
         kept' = kept, arena' = arena, running' = running
  PROVE  Private'
<1>1. TypeOK /\ Private /\ arena[w] \in Arenas
  BY DEF IInv, TypeOK
<1>2. /\ \A v \in Workers : v # w => stack'[v] = stack[v]
      /\ Len(stack[w]) \in Nat /\ Len(stack'[w]) = Len(stack[w]) + 1
      /\ stack'[w][Len(stack[w]) + 1] = q
      /\ \A i \in 1..Len(stack[w]) : stack'[w][i] = stack[w][i]
  BY <1>1, PushFacts
<1>3. /\ b # Nil
      /\ \A a \in Arenas : buf[a] # b
      /\ \A p \in kept : p.arr # b
      /\ \A v \in Workers : \A i \in 1..Len(stack[v]) : stack[v][i].arr # b
  BY <1>1, UnusedFacts
<1>4. buf'[arena[w]] = b /\ \A a \in Arenas : a # arena[w] => buf'[a] = buf[a]
  BY <1>1 DEF TypeOK
<1>5. ASSUME NEW v \in Workers, NEW i \in 1..Len(stack'[v]), NEW a \in Arenas,
             stack'[v][i].arr = buf'[a], buf'[a] # Nil
      PROVE  arena[v] = a
  <2>1. CASE v # w \/ i \in 1..Len(stack[w])
    <3>1. i \in 1..Len(stack[v]) /\ stack'[v][i] = stack[v][i]
      BY <1>2, <1>5, <2>1
    <3>2. a # arena[w]
      BY <1>3, <1>4, <1>5, <3>1
    <3>. QED BY <1>1, <1>4, <1>5, <3>1, <3>2 DEF Private
  <2>2. CASE v = w /\ i = Len(stack[w]) + 1
    BY <1>2, <1>3, <1>4, <1>5, <2>2
  <2>3. v # w \/ i \in 1..Len(stack[w]) \/ i = Len(stack[w]) + 1
    BY <1>2, <1>5
  <2>. QED BY <2>1, <2>2, <2>3
<1>6. \A v \in Workers : ~running[v] => arena[v] = NoArena /\ stack'[v] = <<>>
  BY <1>1, <1>2 DEF Private
<1>7. \A a, c \in Arenas : buf'[a] = buf'[c] /\ buf'[a] # Nil => a = c
  BY <1>1, <1>3, <1>4 DEF Private
<1>8. \A p \in kept : \A a \in Arenas : p.arr = buf'[a] => buf'[a] = Nil
  BY <1>1, <1>3, <1>4 DEF Private
<1>. QED BY <1>1, <1>5, <1>6, <1>7, <1>8 DEF Private

LEMMA ExtendBareStep ==
  ASSUME IInv, NEW w \in Workers, NEW seg \in Segments, In(w), ExtendBare(w, seg),
         UNCHANGED <<running, arena, kept>>
  PROVE  IInv'
<1>1. TypeOK /\ AllHold /\ Private /\ running[w] /\ stack[w] # <<>> /\ arena[w] = NoArena /\ buf' = buf
  BY DEF IInv, In, ExtendBare
<1>. PICK p \in Path : p = Top(w)
  BY <1>1, TopFacts
<1>2. Holds(p) /\ p.len + 1 \in Nat /\ p.len + 1 <= p.len + 1
  BY <1>1, TopFacts, PathFacts DEF AllHold, Top
<1>3. PICK b \in Arrays : Made(b, p, <<seg>>, p.len + 1) /\ Push(w, Below(p, b, seg))
  BY DEF ExtendBare
<1>. DEFINE q == Below(p, b, seg)
<1>4. /\ q \in Path /\ Holds(q)' /\ Extends(q, p)
      /\ mem' \in [Arrays -> Seq(Segments \cup {Blank})]
      /\ \A c \in Arrays : c # b => mem'[c] = mem[c]
  BY <1>1, <1>2, <1>3, MadeBelow
<1>5. b \in Arrays \ Used /\ q.arr = b /\ Push(w, q)
  BY <1>3 DEF Made, Below
<1>. HIDE DEF q
<1>6. Carried
  BY <1>4, <1>5, MadeCarries
<1>7. AllHold' /\ Nested'
  BY <1>4, <1>5, <1>6, Pushed
<1>8. Private'
  BY <1>1, <1>4, <1>5, UnusedFacts, PushedPrivate
<1>9. TypeOK'
  BY <1>1, <1>4, <1>5, PushFacts DEF TypeOK
<1>. QED BY <1>7, <1>8, <1>9 DEF IInv

LEMMA ExtendGrowStep ==
  ASSUME IInv, NEW w \in Workers, NEW seg \in Segments, In(w), ExtendGrow(w, seg),
         UNCHANGED <<running, arena, kept>>
  PROVE  IInv'
<1>1. TypeOK /\ AllHold /\ Private /\ running[w] /\ stack[w] # <<>> /\ arena[w] # NoArena
  BY DEF IInv, In, ExtendGrow
<1>. PICK p \in Path : p = Top(w)
  BY <1>1, TopFacts
<1>. DEFINE size == Greater(2 * (p.len + 1), Floor)
<1>2. Holds(p) /\ p.len \in Nat
  BY <1>1, TopFacts, PathFacts DEF AllHold, Top
<1>3. size \in Nat /\ p.len + 1 <= size
  BY <1>2, PathArenaAssumption DEF Greater
<1>4. PICK b \in Arrays : /\ Made(b, p, <<seg>>, size)
                          /\ buf' = [buf EXCEPT ![arena[w]] = b]
                          /\ Push(w, Below(p, b, seg))
  BY DEF ExtendGrow
<1>. HIDE DEF size
<1>. DEFINE q == Below(p, b, seg)
<1>5. /\ q \in Path /\ Holds(q)' /\ Extends(q, p)
      /\ mem' \in [Arrays -> Seq(Segments \cup {Blank})]
      /\ \A c \in Arrays : c # b => mem'[c] = mem[c]
  BY <1>1, <1>2, <1>3, <1>4, MadeBelow
<1>6. b \in Arrays \ Used /\ q.arr = b /\ Push(w, q)
  BY <1>4 DEF Made, Below
<1>. HIDE DEF q
<1>7. Carried
  BY <1>5, <1>6, MadeCarries
<1>8. AllHold' /\ Nested'
  BY <1>5, <1>6, <1>7, Pushed
<1>9. Private'
  BY <1>1, <1>4, <1>5, <1>6, GrownPrivate
<1>10. TypeOK'
  <2>1. buf' \in [Arenas -> Arrays \cup {Nil}]
    BY <1>1, <1>4 DEF TypeOK
  <2>. QED BY <1>1, <1>5, <1>6, <2>1, PushFacts DEF TypeOK
<1>. QED BY <1>8, <1>9, <1>10 DEF IInv

\* Written over what a sibling left: the cells of the calls that w is in say the
\* same as before, nobody else is in this buffer, and nothing that was kept.
LEMMA ExtendInPlaceStep ==
  ASSUME IInv, NEW w \in Workers, NEW seg \in Segments, In(w), ExtendInPlace(w, seg),
         UNCHANGED <<running, arena, kept>>
  PROVE  IInv'
<1>1. /\ TypeOK /\ AllHold /\ Nested /\ Private /\ running[w] /\ stack[w] # <<>>
      /\ arena[w] # NoArena /\ buf' = buf
  BY DEF IInv, In, ExtendInPlace
<1>. PICK p \in Path : p = Top(w)
  BY <1>1, TopFacts
<1>2. Holds(p) /\ p.len \in Nat /\ p.len = Len(p.says)
  BY <1>1, TopFacts, PathFacts DEF AllHold, Top, Holds
<1>. PICK b \in Arrays \cup {Nil} : b = buf[arena[w]]
  BY <1>1 DEF TypeOK
<1>3. arena[w] \in Arenas /\ p.len + 1 <= Cap(b)
  BY <1>1 DEF TypeOK, ExtendInPlace
<1>4. b # Nil /\ b \in Arrays /\ Len(mem[b]) \in Nat /\ p.len + 1 <= Len(mem[b])
  <2>1. b # Nil
    BY <1>2, <1>3 DEF Cap
  <2>. QED BY <1>1, <1>3, <2>1 DEF Cap, TypeOK
<1>. DEFINE S == Segments \cup {Blank}
            cells == [n \in DOMAIN mem[b] |-> IF n <= p.len THEN Cells(p)[n]
                                             ELSE IF n = p.len + 1 THEN seg ELSE mem[b][n]]
            q == Below(p, b, seg)
<1>5. mem' = [mem EXCEPT ![b] = cells] /\ Push(w, q)
  BY <1>1, <1>4 DEF ExtendInPlace, TypeOK
<1>6. \A n \in 1..p.len : Cells(p)[n] = p.says[n] /\ p.says[n] \in Segments
  <2>1. ASSUME NEW n \in 1..p.len PROVE p.arr # Nil /\ Cells(p) = mem[p.arr]
    BY <1>2 DEF Cells, Holds
  <2>. QED BY <1>2, <2>1, PathFacts DEF Holds
<1>7. DOMAIN mem[b] = 1..Len(mem[b]) /\ \A n \in 1..Len(mem[b]) : mem[b][n] \in S
  BY <1>1, <1>4 DEF TypeOK
<1>8. \A n \in 1..Len(mem[b]) : cells[n] \in S
  BY <1>2, <1>6, <1>7
<1>9. cells \in Seq(S) /\ Len(cells) = Len(mem[b])
  <2>1. cells \in [1..Len(mem[b]) -> S]
    BY <1>7, <1>8
  <2>. HIDE DEF cells, S
  <2>. QED BY <1>4, <2>1, SeqFacts
<1>10. (\A n \in 1..p.len : cells[n] = p.says[n]) /\ cells[p.len + 1] = seg
  BY <1>2, <1>4, <1>6, <1>7
<1>. HIDE DEF cells
<1>11. mem' \in [Arrays -> Seq(S)] /\ mem'[b] = cells /\ \A c \in Arrays : c # b => mem'[c] = mem[c]
  BY <1>1, <1>4, <1>5, <1>9 DEF TypeOK
<1>12. /\ q \in Path /\ Extends(q, p) /\ q.len = Len(q.says) /\ q.len = p.len + 1 /\ q.arr = b
       /\ \A n \in 1..p.len : q.says[n] = p.says[n]
       /\ q.says[p.len + 1] = seg
  <2>1. p.len = Len(p.says) /\ b \in Arrays
    BY <1>2, <1>4
  <2>. QED BY <2>1, BelowFacts, SMTT(60)
<1>. HIDE DEF q, S
<1>13. Holds(q)'
  <2>1. \A n \in 1..q.len : n \in 1..p.len \/ n = p.len + 1
    BY <1>2, <1>12
  <2>2. \A n \in 1..q.len : mem'[b][n] = q.says[n]
    BY <1>10, <1>11, <1>12, <2>1
  <2>3. q.len <= Len(mem'[b])
    BY <1>4, <1>9, <1>11, <1>12
  <2>4. q.len # 0
    BY <1>2, <1>12
  <2>. QED BY <1>4, <1>12, <2>2, <2>3, <2>4 DEF Holds, Cap
<1>14. Carried
  <2>. SUFFICES ASSUME NEW r \in Path, Live(r) PROVE Holds(r)'
    BY DEF Carried
  <2>1. Holds(r) /\ r.len \in Nat
    BY <1>1, PathFacts DEF AllHold, Live
  <2>2. CASE r.arr # b
    <3>1. r.arr # Nil => mem'[r.arr] = mem[r.arr]
      BY <1>11, <2>2, PathFacts
    <3>2. \A n \in 1..r.len : r.arr # Nil
      BY <2>1 DEF Holds
    <3>. QED BY <2>1, <3>1, <3>2 DEF Holds, Cap
  <2>3. CASE r.arr = b
    <3>1. r \notin kept
      BY <1>1, <1>3, <1>4, <2>3 DEF Private
    <3>. PICK v \in Workers : \E i \in 1..Len(stack[v]) : stack[v][i] = r
      BY <3>1 DEF Live
    <3>2. PICK i \in 1..Len(stack[v]) : stack[v][i] = r
      OBVIOUS
    <3>3. v = w
      <4>1. arena[v] = arena[w]
        BY <1>1, <1>3, <1>4, <2>3, <3>2 DEF Private
      <4>. QED BY <1>1, <4>1 DEF Private
    <3>4. Extends(p, r)
      <4>1. Len(stack[w]) \in Nat /\ Len(stack[w]) \in 1..Len(stack[w]) /\ p = stack[w][Len(stack[w])]
        BY <1>1, TopFacts DEF Top
      <4>2. i <= Len(stack[w])
        BY <3>2, <3>3, <4>1
      <4>. QED BY <1>1, <3>2, <3>3, <4>1, <4>2 DEF Nested
    <3>5. r.len <= p.len /\ \A n \in 1..r.len : n \in 1..p.len /\ p.says[n] = r.says[n]
      BY <1>2, <2>1, <3>4 DEF Extends
    <3>6. \A n \in 1..r.len : mem'[b][n] = r.says[n]
      BY <1>10, <1>11, <3>5
    <3>7. r.len <= Len(mem'[b])
      BY <1>2, <1>4, <1>9, <1>11, <2>1, <3>5
    <3>. QED BY <1>4, <2>1, <2>3, <3>6, <3>7 DEF Holds, Cap
  <2>. QED BY <2>2, <2>3
<1>15. AllHold' /\ Nested'
  BY <1>5, <1>12, <1>13, <1>14, Pushed
<1>16. Private'
  <2>1. \A a, c \in Arenas : buf[a] = buf[c] /\ buf[a] # Nil => a = c
    BY <1>1 DEF Private
  <2>2. q.arr = buf[arena[w]]
    BY <1>12
  <2>3. \A a \in Arenas : q.arr = buf[a] /\ buf[a] # Nil => arena[w] = a
    BY <1>3, <2>1, <2>2
  <2>. QED BY <1>1, <1>5, <1>12, <2>3, PushedPrivate
<1>17. TypeOK'
  BY <1>1, <1>5, <1>11, <1>12, PushFacts DEF TypeOK, S
<1>. QED BY <1>15, <1>16, <1>17 DEF IInv

-----------------------------------------------------------------------------
(* Theorems                                                                *)

\* Paths hold, calls are nested and buffers private in every reachable state of
\* path_arena.go.
THEOREM Invariance == Spec => []IInv
<1>1. Init => IInv
  <2>. SUFFICES ASSUME Init PROVE IInv
    OBVIOUS
  <2>1. \A w \in Workers : stack[w] = <<>> /\ Len(stack[w]) = 0
    BY EmptySeq DEF Init
  <2>2. TypeOK
    <3>1. \A S : <<>> \in Seq(S)
      BY EmptySeq
    <3>. QED BY <3>1 DEF Init, TypeOK
  <2>3. AllHold /\ Nested
    BY <2>1 DEF Init, AllHold, Nested
  <2>4. Private
    BY <2>1 DEF Init, Private
  <2>. QED BY <2>2, <2>3, <2>4 DEF IInv
<1>2. IInv /\ [Next]_vars => IInv'
  <2>. SUFFICES ASSUME IInv, [Next]_vars PROVE IInv'
    OBVIOUS
  <2>1. ASSUME NEW w \in Workers,
               Begin(w) \/ End(w) \/ Enter(w) \/ Return(w) \/ Keep(w)
        PROVE  IInv'
    BY <2>1, BeginStep, EndStep, EnterStep, ReturnStep, KeepStep
  <2>2. ASSUME NEW w \in Workers, NEW seg \in Segments,
               EnterEvent(w, seg) \/ Extend(w, seg) \/ Complete(w, seg) \/ KeepBelow(w, seg)
        PROVE  IInv'
    <3>1. ASSUME Extend(w, seg) PROVE IInv'
      BY <3>1, ExtendBareStep, ExtendGrowStep, ExtendInPlaceStep DEF Extend
    <3>. QED BY <2>2, <3>1, EnterEventStep, CompleteStep, KeepBelowStep
  <2>3. CASE UNCHANGED vars
    BY <2>3 DEF vars, IInv, TypeOK, AllHold, Holds, Cap, Nested, Extends, Private
  <2>. QED BY <2>1, <2>2, <2>3, ForgetStep DEF Next
<1>. QED BY <1>1, <1>2, PTL DEF Spec

\* No path is overwritten while it can be read: not by a sibling, not by a deeper
\* call, not by whoever has the arena next.  path_arena.go:70, incremental.go:108.
THEOREM PathsStay == Spec => []PathsHold
<1>1. IInv => PathsHold
  BY AllHoldRead DEF IInv
<1>. QED BY <1>1, Invariance, PTL

=============================================================================
