-------------------------- MODULE Embedding_proofs --------------------------
(***************************************************************************)
(* Theorems about EmbeddingPipeline, for texts of any length, any limits   *)
(* of the provider, any sizes of batches and any number of requests and    *)
(* troubles: the chunks stay the text, none is sent twice, those that wait *)
(* have a job, what is shown as progress agrees with them, and every batch *)
(* leaves less to do.                                                      *)
(***************************************************************************)
EXTENDS EmbeddingPipeline, JobRows_proofs, FiniteSetTheorems,
        SequenceTheorems, WellFoundedInduction

----------------------------------------------------------------------------
(* Arithmetic.                                                             *)

\* Division leaves a rest that is smaller than the divisor.
LEMMA DivRest ==
  ASSUME NEW a \in Nat, NEW b \in Nat \ {0}
  PROVE  /\ a \div b \in Nat
         /\ (a \div b) * b <= a
         /\ a < (a \div b) * b + b
  BY SMT

\* More pieces are no shorter.
LEMMA TimesGrows ==
  ASSUME NEW k \in Nat, NEW m \in Nat, NEW s \in Nat, k <= m
  PROVE  k * s \in Nat /\ k * s <= m * s
  BY SMT

LEMMA TimesNext ==
  ASSUME NEW k \in Nat \ {0}, NEW s \in Nat
  PROVE  (k - 1) * s \in Nat /\ k * s = (k - 1) * s + s
  BY SMT

\* A nonempty set of naturals has a least element.
LEMMA LeastElement ==
  ASSUME NEW S \in SUBSET Nat, S # {}
  PROVE  \E n \in S : \A m \in S : n <= m
<1> DEFINE T == {1..n : n \in S}
           R == StrictSubsetOrdering(Nat)
<1>1. T \subseteq FiniteSubsetsOf(Nat) /\ T # {}
  <2>1. \A n \in S : IsFiniteSet(1..n) /\ 1..n \subseteq Nat
    BY FS_Interval
  <2>2. ASSUME NEW x \in T PROVE x \in FiniteSubsetsOf(Nat)
    <3>1. PICK n \in S : x = 1..n
      OBVIOUS
    <3> QED
      BY <2>1, <3>1 DEF FiniteSubsetsOf
  <2>3. T # {}
    OBVIOUS
  <2> QED
    BY <2>2, <2>3
<1>2. IsWellFoundedOn(R, FiniteSubsetsOf(Nat))
  BY FS_StrictSubsetOrderingWellFounded
<1>3. PICK x \in T : \A y \in T : ~ (<<y, x>> \in R)
  <2> HIDE DEF T, R
  <2> QED
    BY <1>1, <1>2, WFMin
<1>4. PICK n \in S : x = 1..n
  BY <1>3
<1>5. ASSUME NEW m \in S, m < n PROVE FALSE
  <2>1. 1..m \in T /\ 1..m \subseteq 1..n /\ n \in 1..n /\ n \notin 1..m
    BY <1>5
  <2>2. <<1..m, 1..n>> \in R
    BY <2>1 DEF StrictSubsetOrdering
  <2> QED
    BY <1>3, <1>4, <2>1, <2>2
<1> QED
  BY <1>5

----------------------------------------------------------------------------
(* The text of a table.                                                    *)

\* The chunks are parts of the text, in the order of their index, ...
Apart(a, b) ==
  \/ a.index < b.index /\ a.last < b.first
  \/ b.index < a.index /\ b.last < a.first

Tiles(table) ==
  /\ \A c \in DOMAIN table : table[c].first <= table[c].last
  /\ \A c, d \in DOMAIN table : c # d => Apart(table[c], table[d])
  /\ \A c \in DOMAIN table : table[c].first..table[c].last \subseteq 1..TextLength
  /\ \A x \in 1..TextLength :
       \E c \in DOMAIN table : x \in table[c].first..table[c].last

\* ... and all of it.
Text(table) == table \in Seq(ChunkRow) /\ Tiles(table)

\* A function on 1..n is a sequence of length n, and conversely.
LEMMA Listing ==
  ASSUME NEW S, NEW n \in Nat, NEW f \in [1..n -> S]
  PROVE  f \in Seq(S) /\ Len(f) = n /\ DOMAIN f = 1..n
  BY SMT

LEMMA Listed ==
  ASSUME NEW S, NEW s \in Seq(S)
  PROVE  /\ Len(s) \in Nat /\ DOMAIN s = 1..Len(s)
         /\ \A c \in DOMAIN s : s[c] \in S
  BY SMT

\* What leaves the parts of the text alone leaves the text.
LEMMA SameText ==
  ASSUME NEW T, NEW U, Text(T), DOMAIN U = DOMAIN T,
         \A c \in DOMAIN T :
           /\ U[c] \in ChunkRow
           /\ U[c].index = T[c].index
           /\ U[c].first = T[c].first /\ U[c].last = T[c].last,
         U = [c \in DOMAIN U |-> U[c]]
  PROVE  Text(U)
<1>1. Len(T) \in Nat /\ DOMAIN T = 1..Len(T)
  BY Listed DEF Text
<1>2. U \in [1..Len(T) -> ChunkRow]
  BY <1>1
<1>3. U \in Seq(ChunkRow)
  BY <1>1, <1>2, Listing
<1>4. Tiles(U)
  BY DEF Text, Tiles, Apart
<1> QED
  BY <1>3, <1>4 DEF Text

\* A chunk of a text has tokens.
LEMMA ChunkOfText ==
  ASSUME NEW T, Text(T), NEW c \in DOMAIN T
  PROVE  /\ T[c] \in ChunkRow
         /\ T[c].first \in Nat /\ T[c].last \in Nat /\ T[c].index \in Nat
         /\ T[c].first <= T[c].last
         /\ Tokens(T[c]) \in Nat \ {0}
<1>1. T[c] \in ChunkRow
  BY Listed DEF Text
<1>2. T[c].first \in Nat /\ T[c].last \in Nat /\ T[c].index \in Nat
  BY <1>1 DEF ChunkRow
<1>3. T[c].first <= T[c].last
  BY DEF Text, Tiles
<1> QED
  BY <1>1, <1>2, <1>3 DEF Tokens

\* A chunk is cut into pieces of at least one token.
LEMMA SaferMaxType ==
  ASSUME NEW t \in Nat \ {0}
  PROVE  SaferMax(t) \in Nat \ {0}
<1> DEFINE half == Larger(MinPiece, Smaller(t, Recommended) \div 2)
<1>1. MinPiece \in Nat \ {0} /\ Recommended \in Nat \ {0}
  BY CapabilitiesAssumption
<1>2. Smaller(t, Recommended) \in Nat
  BY <1>1 DEF Smaller
<1>3. Smaller(t, Recommended) \div 2 \in Nat /\ MinPiece \div 2 \in Nat
  BY <1>1, <1>2, DivRest
<1>4. half \in Nat \ {0}
  BY <1>1, <1>3 DEF Larger
<1>5. SaferMax(t) = Larger(MinPiece \div 2, Smaller(half, Recommended))
  BY DEF SaferMax
<1> HIDE DEF half
<1>6. Smaller(half, Recommended) \in Nat \ {0}
  BY <1>1, <1>4 DEF Smaller
<1> QED
  BY <1>3, <1>5, <1>6 DEF Larger

\* The pieces are parts of the chunk, one behind the other, and all of it.
LEMMA PiecesOfChunk ==
  ASSUME NEW c \in ChunkRow, c.first <= c.last
  PROVE  \E n \in Nat \ {0} :
           /\ Len(Pieces(c)) = n
           /\ \A k \in 1..n :
                /\ Pieces(c)[k].first \in Nat /\ Pieces(c)[k].last \in Nat
                /\ c.first <= Pieces(c)[k].first
                /\ Pieces(c)[k].first <= Pieces(c)[k].last
                /\ Pieces(c)[k].last <= c.last
           /\ Pieces(c)[1].first = c.first
           /\ \A k, m \in 1..n :
                k < m => Pieces(c)[k].last < Pieces(c)[m].first
           /\ \A x \in c.first..c.last :
                \E k \in 1..n : x \in Pieces(c)[k].first..Pieces(c)[k].last
<1> DEFINE t == Tokens(c)
           size == SaferMax(t)
           n == (t + size - 1) \div size
           p == Pieces(c)
<1>1. c.first \in Nat /\ c.last \in Nat /\ t \in Nat \ {0}
      /\ t = c.last - c.first + 1
  BY DEF ChunkRow, Tokens
<1>2. size \in Nat \ {0}
  BY <1>1, SaferMaxType
<1>3. p = [k \in 1..n |->
             [first |-> c.first + (k - 1) * size,
              last |-> Smaller(c.first + k * size - 1, c.last)]]
  BY DEF Pieces
<1> HIDE DEF size, t, p
<1>4. n \in Nat /\ n * size <= t + size - 1 /\ t + size - 1 < n * size + size
  <2>1. t + size - 1 \in Nat
    BY <1>1, <1>2
  <2> QED
    BY <1>2, <2>1, DivRest
<1>5. n # 0
  <2>1. 0 * size = 0
    BY <1>2
  <2>2. t + size - 1 >= size
    BY <1>1, <1>2
  <2> QED
    BY <1>1, <1>2, <1>4, <2>1, <2>2
<1> HIDE DEF n
<1>6. \A k \in 1..n : /\ (k - 1) * size \in Nat /\ k * size = (k - 1) * size + size
                      /\ k * size <= n * size
  BY <1>2, <1>4, TimesNext, TimesGrows
<1>7. \A k \in 1..n : /\ p[k].first = c.first + (k - 1) * size
                      /\ p[k].last = Smaller(c.first + k * size - 1, c.last)
  BY <1>3
<1>8. Len(p) = n
  BY <1>3, <1>4
<1>9. ASSUME NEW k \in 1..n
      PROVE  /\ p[k].first \in Nat /\ p[k].last \in Nat
             /\ c.first <= p[k].first /\ p[k].first <= p[k].last
             /\ p[k].last <= c.last
  <2>1. (k - 1) * size \in Nat /\ k * size = (k - 1) * size + size
        /\ k * size <= n * size
    BY <1>6
  <2>2. n * size \in Nat
    BY <1>2, <1>4
  <2>3. (k - 1) * size <= t - 1
    BY <1>1, <1>2, <1>4, <2>1, <2>2
  <2>4. /\ p[k].first = c.first + (k - 1) * size
        /\ p[k].last = Smaller(c.first + k * size - 1, c.last)
    BY <1>7
  <2> QED
    BY <1>1, <1>2, <2>1, <2>3, <2>4 DEF Smaller
<1>10. p[1].first = c.first
  <2>1. 0 * size = 0
    BY <1>2
  <2> QED
    BY <1>1, <1>4, <1>5, <1>7, <2>1
<1>11. ASSUME NEW k \in 1..n, NEW m \in 1..n, k < m
       PROVE  p[k].last < p[m].first
  <2>1. k * size <= (m - 1) * size
    BY <1>2, <1>11, TimesGrows
  <2>2. k * size \in Nat /\ (m - 1) * size \in Nat
    BY <1>2, <1>6
  <2>3. p[k].last <= c.first + k * size - 1
    BY <1>1, <1>7, <2>2 DEF Smaller
  <2>4. p[k].last \in Nat
    BY <1>9
  <2> QED
    BY <1>1, <1>7, <2>1, <2>2, <2>3, <2>4
<1>12. ASSUME NEW x \in c.first..c.last
       PROVE  \E k \in 1..n : x \in p[k].first..p[k].last
  <2> DEFINE y == x - c.first
             q == y \div size
  <2>1. y \in Nat /\ y < t
    BY <1>1
  <2>2. q \in Nat /\ q * size <= y /\ y < q * size + size
    BY <1>2, <2>1, DivRest
  <2> HIDE DEF q
  <2>3. q < n
    <3>1. SUFFICES ASSUME n <= q PROVE FALSE
      BY <1>4, <2>2
    <3>2. n * size <= q * size /\ n * size \in Nat
      BY <1>2, <1>4, <2>2, <3>1, TimesGrows
    <3> QED
      BY <1>1, <1>2, <1>4, <2>1, <2>2, <3>2
  <2>4. q + 1 \in 1..n /\ (q + 1) - 1 = q
    BY <1>4, <2>2, <2>3
  <2>5. (q + 1) * size = q * size + size
    BY <1>2, <2>2
  <2>6. q * size \in Nat
    BY <1>2, <2>2
  <2>7. x >= p[q + 1].first
    BY <1>1, <1>7, <2>2, <2>4, <2>6
  <2>8. x <= p[q + 1].last
    BY <1>1, <1>2, <1>7, <2>2, <2>4, <2>5, <2>6 DEF Smaller
  <2>9. x \in p[q + 1].first..p[q + 1].last
    BY <1>1, <1>9, <2>4, <2>7, <2>8
  <2> QED
    BY <2>4, <2>9
<1> QED
  BY <1>4, <1>5, <1>8, <1>9, <1>10, <1>11, <1>12 DEF p

----------------------------------------------------------------------------
(* What is done to the chunks of a batch.                                  *)

Memories == [attempts : Nat, vector : BOOLEAN]
ChunkStatus == {"pending", "embedding", "embedded", "failed"}

\* A table that is the text, and what the session remembers of some of it.
Session(s) ==
  /\ s = [table |-> s.table, mem |-> s.mem]
  /\ Text(s.table)
  /\ s.mem \in [DOMAIN s.mem -> Memories]
  /\ DOMAIN s.mem \subseteq DOMAIN s.table

\* A step of the session that is about the chunks ids.
Follows(s, after, ids) ==
  /\ Session(after)
  /\ DOMAIN after.mem = DOMAIN s.mem
  /\ DOMAIN s.table \subseteq DOMAIN after.table
  /\ \A c \in DOMAIN s.table \ ids : after.table[c].status = s.table[c].status

LEMMA StoreType ==
  ASSUME NEW row \in ChunkRow, NEW status \in ChunkStatus,
         NEW old \in Memories, NEW new \in Memories
  PROVE  LET stored == Store(row, status, old, new) IN
         /\ stored \in ChunkRow
         /\ stored.index = row.index
         /\ stored.first = row.first /\ stored.last = row.last
         /\ stored.status = status
         /\ stored.attempts = Column(old.attempts, new.attempts, row.attempts)
<1> DEFINE a == Column(old.attempts, new.attempts, row.attempts)
           v == Column(old.vector, new.vector, row.vector)
<1>1. a \in Nat /\ v \in BOOLEAN
  BY DEF Column, Memories, ChunkRow
<1>2. Store(row, status, old, new) =
        [row EXCEPT !.status = status, !.attempts = a, !.vector = v]
  BY DEF Store
<1> HIDE DEF a, v
<1> DEFINE stored == Store(row, status, old, new)
<1>3. /\ stored \in ChunkRow /\ stored.index = row.index
      /\ stored.first = row.first /\ stored.last = row.last
      /\ stored.status = status /\ stored.attempts = a
  BY <1>1, <1>2 DEF ChunkRow, ChunkStatus
<1> QED
  BY <1>3 DEF a

LEMMA MemoryTypes ==
  ASSUME NEW m \in Memories
  PROVE  Embedded(m) \in Memories /\ Missed(m) \in Memories
         /\ Emptied(m) \in Memories
  BY DEF Memories, Embedded, Missed, Emptied

LEMMA ClaimedFollows ==
  ASSUME NEW s, Session(s), NEW ids
  PROVE  Follows(s, Claimed(s, ids), ids)
<1> DEFINE row(c) == IF c \in ids
                     THEN [s.table[c] EXCEPT !.status = "embedding"]
                     ELSE s.table[c]
           T == [c \in DOMAIN s.table |-> row(c)]
<1>1. Claimed(s, ids) = [table |-> T, mem |-> s.mem]
  BY DEF Claimed, Session
<1>2. \A c \in DOMAIN s.table : s.table[c] \in ChunkRow
  BY ChunkOfText DEF Session
<1>3. ASSUME NEW c \in DOMAIN s.table
      PROVE  /\ T[c] \in ChunkRow /\ T[c].index = s.table[c].index
             /\ T[c].first = s.table[c].first /\ T[c].last = s.table[c].last
             /\ c \notin ids => T[c].status = s.table[c].status
  <2>1. s.table[c] \in ChunkRow
    BY <1>2
  <2>2. T[c] = row(c)
    OBVIOUS
  <2> QED
    BY <2>1, <2>2 DEF ChunkRow
<1>4. DOMAIN T = DOMAIN s.table /\ T = [c \in DOMAIN T |-> T[c]]
  OBVIOUS
<1> HIDE DEF T
<1>5. Text(T)
  BY <1>3, <1>4, SameText DEF Session
<1> QED
  BY <1>1, <1>3, <1>4, <1>5 DEF Follows, Session

\* A rewriting of the chunks ids, one by one.
LEMMA RewritingFollows ==
  ASSUME NEW s, Session(s), NEW ids, ids \subseteq DOMAIN s.mem,
         NEW status, NEW memory,
         \A c \in ids : status[c] \in ChunkStatus /\ memory[c] \in Memories,
         NEW after,
         after =
           [table |-> [c \in DOMAIN s.table |->
                         IF c \in ids
                         THEN Store(s.table[c], status[c], s.mem[c], memory[c])
                         ELSE s.table[c]],
            mem |-> [c \in DOMAIN s.mem |->
                       IF c \in ids THEN memory[c] ELSE s.mem[c]]]
  PROVE  Follows(s, after, ids)
<1> DEFINE T == after.table
           M == after.mem
<1>1. after = [table |-> T, mem |-> M]
  OBVIOUS
<1>2. \A c \in DOMAIN s.table : s.table[c] \in ChunkRow
  BY ChunkOfText DEF Session
<1>3. ASSUME NEW c \in DOMAIN s.table
      PROVE  /\ T[c] \in ChunkRow /\ T[c].index = s.table[c].index
             /\ T[c].first = s.table[c].first /\ T[c].last = s.table[c].last
             /\ c \notin ids => T[c].status = s.table[c].status
  <2>1. CASE c \in ids
    <3>1. s.mem[c] \in Memories /\ memory[c] \in Memories
          /\ status[c] \in ChunkStatus
      BY <2>1 DEF Session
    <3>2. T[c] = Store(s.table[c], status[c], s.mem[c], memory[c])
      BY <2>1
    <3> QED
      BY <1>2, <2>1, <3>1, <3>2, StoreType
  <2>2. CASE c \notin ids
    <3>1. T[c] = s.table[c]
      BY <2>2
    <3> QED
      BY <1>2, <3>1
  <2> QED
    BY <2>1, <2>2
<1>4. DOMAIN T = DOMAIN s.table /\ T = [c \in DOMAIN T |-> T[c]]
  OBVIOUS
<1>5. M \in [DOMAIN s.mem -> Memories] /\ DOMAIN M = DOMAIN s.mem
  BY DEF Session
<1> HIDE DEF T, M
<1>6. Text(T)
  BY <1>3, <1>4, SameText DEF Session
<1>7. Session(after) /\ DOMAIN M = DOMAIN s.mem
  <2>1. /\ T = after.table /\ M = after.mem
    BY DEF T, M
  <2> QED
    BY <1>1, <1>4, <1>5, <1>6, <2>1 DEF Session
<1> QED
  BY <1>3, <1>4, <1>7 DEF Follows, T, M

LEMMA VectorisedFollows ==
  ASSUME NEW s, Session(s), NEW ids, ids \subseteq DOMAIN s.mem
  PROVE  Follows(s, Vectorised(s, ids), ids)
<1> DEFINE status == [c \in ids |-> "embedded"]
           memory == [c \in ids |-> Embedded(s.mem[c])]
<1>1. \A c \in ids : status[c] \in ChunkStatus /\ memory[c] \in Memories
  BY MemoryTypes DEF Session, ChunkStatus
<1>2. Vectorised(s, ids) =
           [table |-> [c \in DOMAIN s.table |->
                         IF c \in ids
                         THEN Store(s.table[c], status[c], s.mem[c], memory[c])
                         ELSE s.table[c]],
            mem |-> [c \in DOMAIN s.mem |->
                       IF c \in ids THEN memory[c] ELSE s.mem[c]]]
  BY DEF Vectorised, Rewritten
<1> HIDE DEF status, memory
<1> QED
  BY <1>1, <1>2, RewritingFollows

LEMMA MarkFailedFollows ==
  ASSUME NEW s, Session(s), NEW ids, ids \subseteq DOMAIN s.mem, NEW force
  PROVE  Follows(s, MarkFailed(s, ids, force), ids)
<1> DEFINE status == [c \in ids |->
                        IF force \/ s.mem[c].attempts + 1 >= MaxAttempts
                        THEN "failed" ELSE "pending"]
           memory == [c \in ids |-> Missed(s.mem[c])]
<1>1. \A c \in ids : status[c] \in ChunkStatus /\ memory[c] \in Memories
  BY MemoryTypes DEF Session, ChunkStatus
<1>2. MarkFailed(s, ids, force) =
           [table |-> [c \in DOMAIN s.table |->
                         IF c \in ids
                         THEN Store(s.table[c], status[c], s.mem[c], memory[c])
                         ELSE s.table[c]],
            mem |-> [c \in DOMAIN s.mem |->
                       IF c \in ids THEN memory[c] ELSE s.mem[c]]]
  BY DEF MarkFailed, Rewritten
<1> HIDE DEF status, memory
<1> QED
  BY <1>1, <1>2, RewritingFollows

\* The table U of a table T whose chunk c is cut into n pieces, which costs it an
\* attempt: the rows, one by one.
CutRows(T, c, attempts, pieces, n, U) ==
  /\ Len(T) \in Nat /\ DOMAIN T = 1..Len(T)
  /\ U \in Seq(ChunkRow) /\ DOMAIN U = 1..(Len(T) + (n - 1))
  /\ Len(U) = Len(T) + (n - 1)
  /\ U[c].index = T[c].index /\ U[c].first = T[c].first
  /\ U[c].last = pieces[1].last /\ U[c].status = "pending"
  /\ U[c].attempts = attempts
  /\ \A d \in (1..Len(T)) \ {c} :
       /\ U[d].first = T[d].first /\ U[d].last = T[d].last
       /\ U[d].status = T[d].status /\ U[d].attempts = T[d].attempts
       /\ U[d].index = IF T[d].index > T[c].index
                       THEN T[d].index + (n - 1) ELSE T[d].index
  /\ \A i \in 1..(n - 1) :
       /\ U[Len(T) + i].index = T[c].index + i
       /\ U[Len(T) + i].first = pieces[i + 1].first
       /\ U[Len(T) + i].last = pieces[i + 1].last
       /\ U[Len(T) + i].status = "pending"

LEMMA InPiecesRows ==
  ASSUME NEW s, Session(s), NEW c \in DOMAIN s.mem,
         NEW n \in Nat \ {0}, Len(Pieces(s.table[c])) = n,
         \A k \in 1..n : /\ Pieces(s.table[c])[k].first \in Nat
                         /\ Pieces(s.table[c])[k].last \in Nat
  PROVE  CutRows(s.table, c, s.mem[c].attempts + 1, Pieces(s.table[c]), n,
                 InPieces(s, c, TRUE))
<1> DEFINE T == s.table
           p == Pieces(T[c])
           U == InPieces(s, c, TRUE)
           len == Len(T)
           old == T[c]
           kept == Store(old, "pending", s.mem[c], Emptied(s.mem[c]))
           first == [kept EXCEPT !.last = p[1].last]
           moved(d) == IF T[d].index > old.index
                       THEN [T[d] EXCEPT !.index = @ + (n - 1)] ELSE T[d]
           new(d) == NewChunk(old.index + (d - len), p[d - len + 1].first,
                              p[d - len + 1].last)
           row(d) == IF d > len THEN new(d)
                     ELSE IF d = c THEN first ELSE moved(d)
           attempts == s.mem[c].attempts + 1
<1>1. len \in Nat /\ DOMAIN T = 1..len /\ c \in 1..len
      /\ \A d \in 1..len : T[d] \in ChunkRow
  BY Listed DEF Session, Text
<1>2. U = [d \in 1..(len + (n - 1)) |-> row(d)]
  BY DEF InPieces
<1>3. kept \in ChunkRow /\ kept.index = old.index /\ kept.first = old.first
      /\ kept.status = "pending" /\ kept.attempts = attempts
  <2>1. s.mem[c] \in Memories /\ "pending" \in ChunkStatus
    BY DEF Session, ChunkStatus
  <2>2. Emptied(s.mem[c]) \in Memories
    BY <2>1, MemoryTypes
  <2>3. s.table[c] \in ChunkRow
    BY <1>1
  <2>4. Column(s.mem[c].attempts, Emptied(s.mem[c]).attempts, old.attempts)
          = attempts
    BY <2>1 DEF Column, Emptied, Memories
  <2>5. /\ kept \in ChunkRow /\ kept.index = old.index
        /\ kept.first = old.first /\ kept.status = "pending"
        /\ kept.attempts =
             Column(s.mem[c].attempts, Emptied(s.mem[c]).attempts, old.attempts)
    BY <2>1, <2>2, <2>3, StoreType
  <2> QED
    BY <2>4, <2>5
<1> HIDE DEF p, T, len, kept, U, attempts
<1>4. /\ first \in ChunkRow /\ first.index = old.index /\ first.first = old.first
      /\ first.last = p[1].last /\ first.status = "pending"
      /\ first.attempts = attempts
  <2>1. p[1].last \in Nat
    BY DEF p, T
  <2> HIDE DEF old
  <2> QED
    BY <1>3, <2>1 DEF ChunkRow
<1>5. ASSUME NEW d \in (1..len) \ {c}
      PROVE  /\ moved(d) \in ChunkRow
             /\ moved(d).first = T[d].first /\ moved(d).last = T[d].last
             /\ moved(d).status = T[d].status
             /\ moved(d).attempts = T[d].attempts
             /\ moved(d).index = IF T[d].index > T[c].index
                                 THEN T[d].index + (n - 1) ELSE T[d].index
  <2>1. T[d] \in ChunkRow /\ T[c] \in ChunkRow
    BY <1>1
  <2>2. CASE T[d].index > T[c].index
    <3>1. moved(d) = [T[d] EXCEPT !.index = T[d].index + (n - 1)]
      BY <2>2
    <3>2. T[d].index + (n - 1) \in Nat
      BY <2>1 DEF ChunkRow
    <3> QED
      BY <2>1, <2>2, <3>1, <3>2 DEF ChunkRow
  <2>3. CASE ~(T[d].index > T[c].index)
    <3>1. moved(d) = T[d]
      BY <2>3
    <3> QED
      BY <2>1, <2>3, <3>1
  <2> QED
    BY <2>2, <2>3
<1>6. ASSUME NEW i \in 1..(n - 1)
      PROVE  /\ new(len + i) \in ChunkRow
             /\ new(len + i).index = T[c].index + i
             /\ new(len + i).first = p[i + 1].first
             /\ new(len + i).last = p[i + 1].last
             /\ new(len + i).status = "pending"
  <2>1. T[c] \in ChunkRow
    BY <1>1
  <2>2. T[c].index \in Nat
    BY <2>1 DEF ChunkRow
  <2>3. p[i + 1].first \in Nat /\ p[i + 1].last \in Nat
    BY DEF p, T
  <2>4. (len + i) - len = i /\ i \in Nat
    BY <1>1
  <2>5. new(len + i) = NewChunk(T[c].index + i, p[i + 1].first, p[i + 1].last)
    BY <2>4
  <2> QED
    BY <2>2, <2>3, <2>4, <2>5 DEF NewChunk, ChunkRow
<1> HIDE DEF first, moved, new
<1>7. ASSUME NEW d \in 1..(len + (n - 1)) PROVE row(d) \in ChunkRow
  <2>1. CASE d > len
    <3>1. d - len \in 1..(n - 1) /\ len + (d - len) = d
      BY <1>1, <2>1
    <3> QED
      BY <1>6, <2>1, <3>1
  <2>2. CASE ~(d > len)
    BY <1>1, <1>4, <1>5, <2>2
  <2> QED
    BY <2>1, <2>2
<1>8. U \in [1..(len + (n - 1)) -> ChunkRow]
  BY <1>2, <1>7
<1>9. len + (n - 1) \in Nat
  BY <1>1
<1>10. U \in Seq(ChunkRow) /\ DOMAIN U = 1..(len + (n - 1))
       /\ Len(U) = len + (n - 1)
  BY <1>8, <1>9, Listing
<1>11. U[c] = first /\ \A d \in (1..len) \ {c} : U[d] = moved(d)
  BY <1>1, <1>2
<1>12. ASSUME NEW i \in 1..(n - 1) PROVE U[len + i] = new(len + i)
  <2>1. len + i > len /\ len + i \in 1..(len + (n - 1))
    BY <1>1
  <2> QED
    BY <1>2, <2>1
<1>13. /\ U[c].index = T[c].index /\ U[c].first = T[c].first
       /\ U[c].last = p[1].last /\ U[c].status = "pending"
       /\ U[c].attempts = attempts
  BY <1>4, <1>11
<1>14. \A d \in (1..len) \ {c} :
                  /\ U[d].first = T[d].first /\ U[d].last = T[d].last
                  /\ U[d].status = T[d].status
                  /\ U[d].attempts = T[d].attempts
                  /\ U[d].index = IF T[d].index > T[c].index
                                  THEN T[d].index + (n - 1) ELSE T[d].index
  BY <1>5, <1>11
<1>15. \A i \in 1..(n - 1) :
                  /\ U[len + i].index = T[c].index + i
                  /\ U[len + i].first = p[i + 1].first
                  /\ U[len + i].last = p[i + 1].last
                  /\ U[len + i].status = "pending"
  BY <1>6, <1>12
<1> QED
  BY <1>1, <1>10, <1>13, <1>14, <1>15 DEF T, p, U, len, attempts, CutRows

\* A cut chunk's pieces take its place in the text: the chunks behind it make
\* room.
LEMMA SplitTiles ==
  ASSUME NEW s, Session(s), NEW c \in DOMAIN s.mem,
         Len(Pieces(s.table[c])) # 1
  PROVE  /\ Text(InPieces(s, c, TRUE))
         /\ DOMAIN s.table \subseteq DOMAIN InPieces(s, c, TRUE)
         /\ \A d \in DOMAIN s.table \ {c} :
              InPieces(s, c, TRUE)[d].status = s.table[d].status
<1> DEFINE T == s.table
           U == InPieces(s, c, TRUE)
           p == Pieces(T[c])
           len == Len(T)
<1>1. c \in DOMAIN T /\ Text(T)
  BY DEF Session
<1>2. T[c] \in ChunkRow /\ T[c].first <= T[c].last
  BY <1>1, ChunkOfText
<1>3. PICK n \in Nat \ {0} :
           /\ Len(p) = n
           /\ \A k \in 1..n :
                /\ p[k].first \in Nat /\ p[k].last \in Nat
                /\ T[c].first <= p[k].first
                /\ p[k].first <= p[k].last
                /\ p[k].last <= T[c].last
           /\ p[1].first = T[c].first
           /\ \A k, m \in 1..n : k < m => p[k].last < p[m].first
           /\ \A x \in T[c].first..T[c].last :
                \E k \in 1..n : x \in p[k].first..p[k].last
  BY <1>2, PiecesOfChunk
<1> DEFINE extra == n - 1
<1>4.        /\ len \in Nat /\ DOMAIN T = 1..len
             /\ U \in Seq(ChunkRow) /\ DOMAIN U = 1..(len + extra)
             /\ Len(U) = len + extra
             /\ U[c].index = T[c].index /\ U[c].first = T[c].first
             /\ U[c].last = p[1].last /\ U[c].status = "pending"
             /\ \A d \in (1..len) \ {c} :
                  /\ U[d].first = T[d].first /\ U[d].last = T[d].last
                  /\ U[d].status = T[d].status
                  /\ U[d].index = IF T[d].index > T[c].index
                                  THEN T[d].index + extra ELSE T[d].index
             /\ \A i \in 1..extra :
                  /\ U[len + i].index = T[c].index + i
                  /\ U[len + i].first = p[i + 1].first
                  /\ U[len + i].last = p[i + 1].last
                  /\ U[len + i].status = "pending"
  <2>1. \A k \in 1..n : p[k].first \in Nat /\ p[k].last \in Nat
    BY <1>3
  <2>2. Len(p) = n
    BY <1>3
  <2>3. CutRows(T, c, s.mem[c].attempts + 1, p, n, U)
    BY <2>1, <2>2, InPiecesRows
  <2> HIDE DEF T, p, U
  <2> QED
    BY <2>3 DEF CutRows
<1>5. extra \in Nat
  BY <1>3
<1> HIDE DEF T, U, p, len, extra
<1>6. \A d \in 1..len : /\ T[d].first \in Nat /\ T[d].last \in Nat
                        /\ T[d].index \in Nat /\ T[d].first <= T[d].last
                        /\ T[d].first..T[d].last \subseteq 1..TextLength
  BY <1>1, <1>4, ChunkOfText DEF Text, Tiles
<1>7. \A d, e \in 1..len : d # e => Apart(T[d], T[e])
  BY <1>1, <1>4 DEF Text, Tiles
<1>8. \A d \in 1..(len + extra) :
        d \in 1..len \/ \E i \in 1..extra : d = len + i
  <2>1. ASSUME NEW d \in 1..(len + extra), d \notin 1..len
        PROVE  d - len \in 1..extra /\ d = len + (d - len)
    BY <1>4, <1>5, <2>1
  <2> QED
    BY <2>1
\* The rows that make up the old chunk: piece k is in row At(k).
<1> DEFINE At(k) == IF k = 1 THEN c ELSE len + (k - 1)
<1>9. ASSUME NEW k \in 1..n
      PROVE  /\ At(k) \in 1..(len + extra)
             /\ U[At(k)].index = T[c].index + (k - 1)
             /\ U[At(k)].first = p[k].first /\ U[At(k)].last = p[k].last
  <2>1. CASE k = 1
    <3>1. T[c].index \in Nat
      BY <1>1, <1>4, <1>6
    <3> QED
      BY <1>1, <1>3, <1>4, <1>5, <2>1, <3>1
  <2>2. CASE k # 1
    <3>1. PICK i \in 1..extra : i = k - 1 /\ i + 1 = k
      BY <1>3, <2>2 DEF extra
    <3>2. At(k) = len + i
      BY <2>2, <3>1
    <3>3. len + i \in 1..(len + extra)
      BY <1>4, <1>5, <3>1
    <3> HIDE DEF At
    <3> QED
      BY <1>4, <3>1, <3>2, <3>3
  <2> QED
    BY <2>1, <2>2
<1>10. ASSUME NEW d \in 1..(len + extra)
       PROVE  d \in (1..len) \ {c} \/ \E k \in 1..n : d = At(k)
  <2>1. 1 \in 1..n /\ At(1) = c
    BY <1>3
  <2>2. ASSUME NEW i \in 1..extra PROVE i + 1 \in 1..n /\ At(i + 1) = len + i
    BY <1>3, <1>4 DEF extra
  <2>3. CASE d = c
    BY <2>1, <2>3
  <2>4. CASE \E i \in 1..extra : d = len + i
    <3> HIDE DEF At
    <3> QED
      BY <2>2, <2>4
  <2> QED
    BY <1>8, <2>3, <2>4
<1>11. \A k, m \in 1..n : At(k) # At(m) => k # m
  OBVIOUS
<1> HIDE DEF At
<1>12. ASSUME NEW d \in 1..(len + extra) PROVE U[d].first <= U[d].last
  <2>1. CASE d \in (1..len) \ {c}
    BY <1>4, <1>6, <2>1
  <2>2. ASSUME NEW k \in 1..n, d = At(k) PROVE U[d].first <= U[d].last
    BY <1>3, <1>9, <2>2
  <2> QED
    BY <1>10, <2>1, <2>2
<1>13. ASSUME NEW k \in 1..n, NEW d \in (1..len) \ {c}
       PROVE  Apart(U[At(k)], U[d]) /\ Apart(U[d], U[At(k)])
  <2>1. /\ U[At(k)].index = T[c].index + (k - 1)
        /\ U[At(k)].first = p[k].first /\ U[At(k)].last = p[k].last
    BY <1>9
  <2>2. /\ p[k].first \in Nat /\ p[k].last \in Nat
        /\ T[c].first <= p[k].first /\ p[k].last <= T[c].last
    BY <1>3
  <2>3. /\ U[d].first = T[d].first /\ U[d].last = T[d].last
        /\ U[d].index = IF T[d].index > T[c].index
                        THEN T[d].index + extra ELSE T[d].index
    BY <1>4
  <2>4. T[c].index \in Nat /\ T[c].first \in Nat /\ T[c].last \in Nat
        /\ T[d].index \in Nat /\ T[d].first \in Nat /\ T[d].last \in Nat
    BY <1>1, <1>4, <1>6
  <2>5. CASE T[c].index < T[d].index /\ T[c].last < T[d].first
    <3>1. U[d].index = T[d].index + extra
      BY <2>3, <2>4, <2>5
    <3>2. k - 1 <= extra /\ k - 1 \in Nat
      BY <1>3 DEF extra
    <3> QED
      BY <1>5, <2>1, <2>2, <2>3, <2>4, <2>5, <3>1, <3>2 DEF Apart
  <2>6. CASE T[d].index < T[c].index /\ T[d].last < T[c].first
    <3>1. U[d].index = T[d].index
      BY <2>3, <2>4, <2>6
    <3> QED
      BY <2>1, <2>2, <2>3, <2>4, <2>6, <3>1 DEF Apart
  <2> QED
    BY <1>1, <1>4, <1>7, <2>5, <2>6 DEF Apart
<1>14. ASSUME NEW k \in 1..n, NEW m \in 1..n, k # m
       PROVE  Apart(U[At(k)], U[At(m)])
  <2>1. T[c].index \in Nat
    BY <1>1, <1>4, <1>6
  <2>2. /\ U[At(k)].index = T[c].index + (k - 1)
        /\ U[At(k)].first = p[k].first /\ U[At(k)].last = p[k].last
        /\ U[At(m)].index = T[c].index + (m - 1)
        /\ U[At(m)].first = p[m].first /\ U[At(m)].last = p[m].last
    BY <1>9
  <2>3. CASE k < m
    BY <1>3, <2>1, <2>2, <2>3 DEF Apart
  <2>4. CASE m < k
    BY <1>3, <2>1, <2>2, <2>4 DEF Apart
  <2> QED
    BY <1>14, <2>3, <2>4
<1>15. ASSUME NEW d \in (1..len) \ {c}, NEW e \in (1..len) \ {c}, d # e
       PROVE  Apart(U[d], U[e])
  <2>1. Apart(T[d], T[e])
    BY <1>7, <1>15
  <2>2. T[c].index \in Nat /\ T[d].index \in Nat /\ T[e].index \in Nat
    BY <1>1, <1>4, <1>6
  <2>3. /\ U[d].first = T[d].first /\ U[d].last = T[d].last
        /\ U[e].first = T[e].first /\ U[e].last = T[e].last
        /\ U[d].index = IF T[d].index > T[c].index
                        THEN T[d].index + extra ELSE T[d].index
        /\ U[e].index = IF T[e].index > T[c].index
                        THEN T[e].index + extra ELSE T[e].index
    BY <1>4
  <2>4. T[d].index < T[e].index => U[d].index < U[e].index
    BY <1>5, <2>2, <2>3
  <2>5. T[e].index < T[d].index => U[e].index < U[d].index
    BY <1>5, <2>2, <2>3
  <2> QED
    BY <2>1, <2>3, <2>4, <2>5 DEF Apart
<1>16. ASSUME NEW d \in 1..(len + extra), NEW e \in 1..(len + extra), d # e
       PROVE  Apart(U[d], U[e])
  BY <1>10, <1>11, <1>13, <1>14, <1>15, <1>16
<1>17. ASSUME NEW d \in 1..(len + extra)
       PROVE  U[d].first..U[d].last \subseteq 1..TextLength
  <2>1. CASE d \in (1..len) \ {c}
    BY <1>4, <1>6, <2>1
  <2>2. ASSUME NEW k \in 1..n, d = At(k)
        PROVE  U[d].first..U[d].last \subseteq 1..TextLength
    <3>1. /\ U[d].first = p[k].first /\ U[d].last = p[k].last
          /\ p[k].first \in Nat /\ p[k].last \in Nat
          /\ T[c].first <= p[k].first /\ p[k].last <= T[c].last
      BY <1>3, <1>9, <2>2
    <3>2. T[c].first \in Nat /\ T[c].last \in Nat
          /\ T[c].first..T[c].last \subseteq 1..TextLength
      BY <1>1, <1>4, <1>6
    <3>3. p[k].first..p[k].last \subseteq T[c].first..T[c].last
      BY <3>1, <3>2
    <3> QED
      BY <3>1, <3>2, <3>3
  <2> QED
    BY <1>10, <2>1, <2>2
<1>18. ASSUME NEW x \in 1..TextLength
       PROVE  \E d \in 1..(len + extra) : x \in U[d].first..U[d].last
  <2>1. PICK d \in 1..len : x \in T[d].first..T[d].last
    BY <1>1, <1>4 DEF Text, Tiles
  <2>2. CASE d = c
    <3>1. PICK k \in 1..n : x \in p[k].first..p[k].last
      BY <1>3, <2>1, <2>2
    <3> QED
      BY <1>9, <3>1
  <2>3. CASE d # c
    <3>1. d \in 1..(len + extra)
      BY <1>4, <1>5
    <3>2. U[d].first = T[d].first /\ U[d].last = T[d].last
      BY <1>4, <2>3
    <3> QED
      BY <2>1, <3>1, <3>2
  <2> QED
    BY <2>2, <2>3
<1>19. Text(U)
  BY <1>4, <1>12, <1>16, <1>17, <1>18 DEF Text, Tiles
<1>20. DOMAIN T \subseteq DOMAIN U
  BY <1>4, <1>5
<1>21. \A d \in DOMAIN T \ {c} : U[d].status = T[d].status
  BY <1>4
<1> QED
  BY <1>19, <1>20, <1>21 DEF T, U

LEMMA SplitFollows ==
  ASSUME NEW s, Session(s), NEW c \in DOMAIN s.mem
  PROVE  Follows(s, SplitChunk(s, c), {c})
<1>1. CASE Len(Pieces(s.table[c])) = 1
  <2>1. SplitChunk(s, c) = MarkFailed(s, {c}, TRUE)
    BY <1>1 DEF SplitChunk
  <2> QED
    BY <2>1, MarkFailedFollows
<1>2. CASE Len(Pieces(s.table[c])) # 1
  <2> DEFINE U == InPieces(s, c, TRUE)
             M == [s.mem EXCEPT ![c] = Emptied(@)]
  <2>1. SplitChunk(s, c) = [table |-> U, mem |-> M]
    BY <1>2 DEF SplitChunk
  <2>2. /\ Text(U) /\ DOMAIN s.table \subseteq DOMAIN U
        /\ \A d \in DOMAIN s.table \ {c} : U[d].status = s.table[d].status
    BY <1>2, SplitTiles
  <2>3. M \in [DOMAIN s.mem -> Memories] /\ DOMAIN M = DOMAIN s.mem
    BY MemoryTypes DEF Session
  <2>4. DOMAIN s.mem \subseteq DOMAIN s.table
    BY DEF Session
  <2> HIDE DEF U, M
  <2> QED
    BY <2>1, <2>2, <2>3, <2>4 DEF Follows, Session
<1> QED
  BY <1>1, <1>2

LEMMA FollowsTwice ==
  ASSUME NEW s, NEW a, NEW b, NEW ids, NEW some, some \subseteq ids,
         Follows(s, a, ids), Follows(a, b, some)
  PROVE  Follows(s, b, ids)
  BY DEF Follows

\* One call of the provider is about its slice alone.
LEMMA SettledFollows ==
  ASSUME NEW s, Session(s), NEW slice, slice.ids \subseteq DOMAIN s.mem,
         NEW answer
  PROVE  Follows(s, Settled(Claimed(s, slice.ids), slice, answer), slice.ids)
<1> DEFINE ids == slice.ids
           a == Claimed(s, ids)
           b == Settled(a, slice, answer)
<1>1. Follows(s, a, ids)
  BY ClaimedFollows
<1>2. Session(a) /\ ids \subseteq DOMAIN a.mem
  BY <1>1 DEF Follows
<1> HIDE DEF a, b
<1>3. CASE answer = "vectors"
  <2>1. b = Vectorised(a, ids)
    BY <1>3 DEF Settled, b
  <2>2. Follows(a, b, ids)
    BY <1>2, <2>1, VectorisedFollows
  <2> QED
    BY <1>1, <2>2, FollowsTwice DEF a, b
<1>4. CASE answer # "vectors" /\ answer = "oversized" /\ Cardinality(ids) = 1
  <2> DEFINE c == CHOOSE c \in ids : TRUE
  <2>1. ids # {}
    BY <1>4, FS_EmptySet
  <2>2. c \in ids
    BY <2>1
  <2>3. b = SplitChunk(a, c)
    BY <1>4 DEF Settled, b
  <2> HIDE DEF c
  <2>4. Follows(a, b, {c})
    BY <1>2, <2>2, <2>3, SplitFollows
  <2>5. {c} \subseteq ids
    BY <2>2
  <2> QED
    BY <1>1, <2>4, <2>5, FollowsTwice DEF a, b
<1>5. CASE answer # "vectors" /\ ~(answer = "oversized" /\ Cardinality(ids) = 1)
  <2>1. b = MarkFailed(a, ids, answer \in {"rejected", "other"})
    BY <1>5 DEF Settled, b
  <2>2. Follows(a, b, ids)
    BY <1>2, <2>1, MarkFailedFollows
  <2> QED
    BY <1>1, <2>2, FollowsTwice DEF a, b
<1> QED
  BY <1>3, <1>4, <1>5

----------------------------------------------------------------------------
(* Where the task begins: the chunks that indexing has made.               *)

LEMMA ChunkingIsText ==
  ASSUME NEW T \in Chunkings
  PROVE  Text(T)
<1> DEFINE Ends(n) == {e \in [1..n -> 1..TextLength] :
                        /\ e[n] = TextLength
                        /\ \A c, d \in 1..n : c < d => e[c] < e[d]}
           Cut(n, ends) ==
             [c \in 1..n |-> NewChunk(c, IF c = 1 THEN 1 ELSE ends[c - 1] + 1,
                                      ends[c])]
<1>a. Chunkings = UNION {{Cut(n, ends) : ends \in Ends(n)} : n \in 1..TextLength}
  BY DEF Chunkings
<1> HIDE DEF Ends, Cut
<1>0. PICK n \in 1..TextLength : \E ends \in Ends(n) : T = Cut(n, ends)
  BY <1>a
<1> USE DEF Ends, Cut
<1>1. PICK ends \in {e \in [1..n -> 1..TextLength] :
                        /\ e[n] = TextLength
                        /\ \A c, d \in 1..n : c < d => e[c] < e[d]} :
          T = [c \in 1..n |-> NewChunk(c, IF c = 1 THEN 1 ELSE ends[c - 1] + 1,
                                       ends[c])]
  BY <1>0
<1> DEFINE from(c) == IF c = 1 THEN 1 ELSE ends[c - 1] + 1
<1>2. n \in Nat \ {0} /\ TextLength \in Nat /\ n \in 1..n
  BY TextAssumption
<1>3. \A c \in 1..n : ends[c] \in 1..TextLength
  OBVIOUS
<1>4. \A c, d \in 1..n : c < d => ends[c] < ends[d]
  OBVIOUS
<1>5. ASSUME NEW c \in 1..n
      PROVE  from(c) \in 1..TextLength /\ from(c) <= ends[c]
  <2>1. CASE c = 1
    BY <1>2, <1>3, <2>1
  <2>2. CASE c # 1
    <3>1. c - 1 \in 1..n /\ c - 1 < c
      BY <1>2, <2>2
    <3>2. ends[c - 1] < ends[c]
      BY <1>4, <3>1
    <3> QED
      BY <1>2, <1>3, <2>2, <3>1, <3>2
  <2> QED
    BY <2>1, <2>2
<1>6. ASSUME NEW c \in 1..n, NEW d \in 1..n, c < d
      PROVE  ends[c] < from(d)
  <2>1. d # 1 /\ d - 1 \in 1..n /\ c <= d - 1
    BY <1>2, <1>6
  <2>2. ends[c] <= ends[d - 1]
    BY <1>3, <1>4, <2>1
  <2> QED
    BY <1>3, <2>1, <2>2
<1>7. T = [c \in 1..n |-> NewChunk(c, from(c), ends[c])]
  BY <1>1
<1> HIDE DEF from
<1>8. ASSUME NEW c \in 1..n
      PROVE  /\ T[c] \in ChunkRow /\ T[c].index = c
             /\ T[c].first = from(c) /\ T[c].last = ends[c]
  <2>1. from(c) \in Nat /\ ends[c] \in Nat /\ c \in Nat
    BY <1>2, <1>3, <1>5
  <2>2. T[c] = NewChunk(c, from(c), ends[c])
    BY <1>7
  <2> QED
    BY <2>1, <2>2 DEF NewChunk, ChunkRow
<1>9. T \in [1..n -> ChunkRow]
  BY <1>7, <1>8
<1>10. T \in Seq(ChunkRow) /\ DOMAIN T = 1..n
  BY <1>2, <1>9, Listing
<1>11. \A c, d \in 1..n : c # d => Apart(T[c], T[d])
  BY <1>2, <1>6, <1>8 DEF Apart
<1>12. ASSUME NEW x \in 1..TextLength
       PROVE  \E c \in 1..n : x \in T[c].first..T[c].last
  <2> DEFINE S == {c \in 1..n : x <= ends[c]}
  <2>1. n \in S /\ S \subseteq Nat
    BY <1>2
  <2>2. PICK c \in S : \A d \in S : c <= d
    <3> HIDE DEF S
    <3>1. S # {}
      BY <2>1
    <3> QED
      BY <2>1, <3>1, LeastElement
  <2>3. from(c) <= x
    <3>1. CASE c = 1
      BY <3>1 DEF from
    <3>2. CASE c # 1
      <4>1. c - 1 \in 1..n /\ ~(c <= c - 1)
        BY <1>2, <3>2
      <4>2. c - 1 \notin S
        BY <2>2, <4>1
      <4>3. ~(x <= ends[c - 1])
        BY <4>1, <4>2
      <4> QED
        BY <1>3, <3>2, <4>1, <4>3 DEF from
    <3> QED
      BY <3>1, <3>2
  <2>4. x \in T[c].first..T[c].last
    BY <1>3, <1>5, <1>8, <2>3
  <2> QED
    BY <2>4
<1>13. \A c \in 1..n : T[c].first <= T[c].last
                       /\ T[c].first..T[c].last \subseteq 1..TextLength
  BY <1>2, <1>3, <1>5, <1>8
<1> QED
  BY <1>10, <1>11, <1>12, <1>13 DEF Text, Tiles

----------------------------------------------------------------------------
(* Type correctness, the text and what is sent, together.                  *)

TaskPcs == {"idle", "start", "check", "load", "split", "touch", "call",
            "finalize", "commit", "failed"}

Tasks ==
  [pc : TaskPcs, job : Jobs \cup {0}, doc : DocColumns,
   columns : SUBSET Columns, own : Seq(ChunkRow),
   mem : UNION {[S -> Memories] : S \in SUBSET Nat}, long : SUBSET Nat,
   work : Seq(Slices), batches : Nat, dimension : BOOLEAN, active : BOOLEAN,
   space : BOOLEAN, exit : {"none", "cancelled", "continued", "skipped"}]

Requests == [stage : {"none", "loaded", "jobs", "chunks"},
             columns : SUBSET Columns, jobs : SUBSET Jobs]

TypeInv ==
  /\ doc \in DocColumns /\ job \in [Jobs -> Row({1})]
  /\ active \in BOOLEAN /\ excuse \in BOOLEAN
  /\ run \in Tasks /\ api \in Requests
  /\ left \in [{"request", "trouble"} -> Nat]
  /\ run.pc # "idle" => run.job \in Jobs

\* What a task works with are chunks of the table.
FitsIn(r, table) ==
  /\ Session([table |-> table, mem |-> r.mem])
  /\ r.long \subseteq DOMAIN r.mem
  /\ \A k \in DOMAIN r.work : r.work[k].ids \subseteq DOMAIN r.mem

\* The slices a batch still has to embed do not overlap, and nothing in them
\* is embedded.
Unsent(r, table) ==
  r.pc \in {"touch", "call"} =>
    /\ \A k, l \in DOMAIN r.work :
         k # l => r.work[k].ids \cap r.work[l].ids = {}
    /\ \A k \in DOMAIN r.work : \A c \in r.work[k].ids :
         table[c].status # "embedded"

Inv ==
  /\ TypeInv
  /\ Text(chunk)
  /\ FitsIn(run, Table)
  /\ Unsent(run, Table)

LEMMA TextNotEmpty ==
  ASSUME NEW T, Text(T)
  PROVE  T # <<>> /\ T \in Seq(ChunkRow) /\ DOMAIN T \subseteq Nat
<1>1. 1 \in 1..TextLength
  BY TextAssumption
<1>2. DOMAIN T # {}
  BY <1>1 DEF Text, Tiles
<1>3. DOMAIN T = 1..Len(T) /\ Len(T) \in Nat
  BY Listed DEF Text
<1>4. T # <<>>
  BY <1>2, <1>3
<1> QED
  BY <1>3, <1>4 DEF Text

LEMMA CountType ==
  ASSUME NEW T, Text(T), NEW statuses
  PROVE  /\ Len(T) \in Nat /\ IsFiniteSet(Having(T, statuses))
         /\ Count(T, statuses) \in Nat
<1>1. Len(T) \in Nat /\ DOMAIN T = 1..Len(T)
  BY Listed DEF Text
<1>2. IsFiniteSet(DOMAIN T)
  BY <1>1, FS_Interval
<1>3. Having(T, statuses) \subseteq DOMAIN T
  BY DEF Having
<1>4. IsFiniteSet(Having(T, statuses))
  BY <1>2, <1>3, FS_Subset
<1> QED
  BY <1>1, <1>4, FS_CardinalityType DEF Count

LEMMA RefreshedType ==
  ASSUME NEW d \in DocColumns, NEW T, Text(T)
  PROVE  Refreshed(d, T) \in DocColumns
<1>1. Len(T) \in Nat /\ Count(T, {"embedded"}) \in Nat
      /\ Count(T, {"failed"}) \in Nat
  BY CountType
<1> DEFINE e == Count(T, {"embedded"})
           f == Count(T, {"failed"})
           n == Len(T)
<1>2. Refreshed(d, T) = [d EXCEPT !.chunks_total = n, !.chunks_embedded = e,
                                  !.chunks_failed = f]
  BY DEF Refreshed
<1> HIDE DEF e, f, n
<1> QED
  BY <1>1, <1>2 DEF DocColumns, e, f, n

LEMMA WriteType ==
  ASSUME NEW d \in DocColumns, NEW new \in DocColumns, NEW columns
  PROVE  Write(d, columns, new) \in DocColumns
<1> DEFINE w == Write(d, columns, new)
<1>1. w = [c \in Columns |-> IF c \in columns THEN new[c] ELSE d[c]]
  BY DEF Write
<1>2. /\ w.started = IF "started" \in columns THEN new.started ELSE d.started
      /\ w.chunks_total = IF "chunks_total" \in columns
                          THEN new.chunks_total ELSE d.chunks_total
      /\ w.chunks_embedded = IF "chunks_embedded" \in columns
                             THEN new.chunks_embedded ELSE d.chunks_embedded
      /\ w.chunks_failed = IF "chunks_failed" \in columns
                           THEN new.chunks_failed ELSE d.chunks_failed
      /\ w.has_embeddings = IF "has_embeddings" \in columns
                            THEN new.has_embeddings ELSE d.has_embeddings
      /\ w.processing_status = IF "processing_status" \in columns
                       THEN new.processing_status ELSE d.processing_status
  BY <1>1 DEF Columns
<1>3. DOMAIN w = {"started", "chunks_total", "chunks_embedded",
                  "chunks_failed", "has_embeddings", "processing_status"}
  BY <1>1 DEF Columns
<1>4. w = [started |-> w.started, chunks_total |-> w.chunks_total,
           chunks_embedded |-> w.chunks_embedded,
           chunks_failed |-> w.chunks_failed,
           has_embeddings |-> w.has_embeddings,
           processing_status |-> w.processing_status]
  BY <1>1, <1>3
<1> HIDE DEF w
<1>5. /\ w.started \in BOOLEAN /\ w.chunks_total \in Nat
      /\ w.chunks_embedded \in Nat /\ w.chunks_failed \in Nat
      /\ w.has_embeddings \in BOOLEAN
      /\ w.processing_status \in {"ready", "partial"}
  BY <1>2 DEF DocColumns
<1> QED
  BY <1>4, <1>5 DEF DocColumns, w

LEMMA FlushedType ==
  ASSUME NEW r \in Tasks, NEW new \in DocColumns
  PROVE  LET f == Flushed(r, new) IN
         /\ f \in Tasks
         /\ f = [r EXCEPT !.doc = new, !.columns = f.columns]
<1> DEFINE columns == r.columns \cup Changed(r.doc, new)
<1>1. columns \subseteq Columns
  BY DEF Changed, Tasks
<1>2. Flushed(r, new) = [r EXCEPT !.doc = new, !.columns = columns]
  BY DEF Flushed
<1> HIDE DEF columns
<1>3. [r EXCEPT !.doc = new, !.columns = columns] \in Tasks
  BY <1>1 DEF Tasks
<1>4. Flushed(r, new).columns = columns
  BY <1>2 DEF Tasks
<1> QED
  BY <1>2, <1>3, <1>4

LEMMA IdleType ==
  /\ Idle \in Tasks
  /\ Idle.pc = "idle" /\ Idle.job = 0 /\ Idle.own = <<>> /\ Idle.mem = <<>>
  /\ Idle.long = {} /\ Idle.work = <<>>
<1>1. IndexedDoc(0) \in DocColumns
  BY DEF IndexedDoc, DocColumns
<1>2. <<>> \in [{} -> Memories] /\ <<>> \in Seq(ChunkRow) /\ <<>> \in Seq(Slices)
  OBVIOUS
<1>3. <<>> \in UNION {[S -> Memories] : S \in SUBSET Nat}
  BY <1>2
<1>4. {} \subseteq Columns /\ {} \subseteq Nat
  OBVIOUS
<1> DEFINE d == IndexedDoc(0)
<1> HIDE DEF d
<1>5. d \in DocColumns /\ d = IndexedDoc(0)
  BY <1>1 DEF d
<1>6. Idle \in Tasks
  BY <1>2, <1>3, <1>4, <1>5 DEF Idle, Tasks, TaskPcs
<1> QED
  BY <1>6 DEF Idle

\* A task that has loaded nothing fits any text.
LEMMA NothingFits ==
  ASSUME NEW T, Text(T), NEW r,
         r.mem = <<>>, r.long = {}, r.work = <<>>
  PROVE  FitsIn(r, T) /\ Unsent(r, T)
<1>1. <<>> \in [DOMAIN <<>> -> Memories] /\ DOMAIN <<>> = {}
  OBVIOUS
<1> DEFINE s == [table |-> T, mem |-> r.mem]
<1>2. s = [table |-> s.table, mem |-> s.mem] /\ s.table = T /\ s.mem = <<>>
  OBVIOUS
<1>3. Session(s)
  BY <1>1, <1>2 DEF Session
<1>4. DOMAIN r.work = {}
  OBVIOUS
<1> QED
  BY <1>3, <1>4 DEF FitsIn, Unsent

LEMMA NewRowType ==
  NewJob \in Row({1}) /\ NoRow \in Row({1}) /\ NewJob.status = "queued"
  /\ NoRow.status = "absent"
<1>1. MaxRetries \in Nat
  BY BoundsAssumption
<1> QED
  BY <1>1 DEF NewJob, NoRow, NewRow, Row, JobTypes, JobStatus, Missing

LEMMA InitHolds == Init => Inv
<1> SUFFICES ASSUME Init PROVE Inv
  OBVIOUS
<1> USE DEF Init
<1>1. Text(chunk)
  BY ChunkingIsText
<1>2. Len(chunk) \in Nat
  BY <1>1, CountType
<1>3. doc \in DocColumns
  <2> DEFINE n == Len(chunk)
  <2>1. n \in Nat /\ doc = IndexedDoc(n)
    BY <1>2
  <2> HIDE DEF n
  <2> QED
    BY <2>1 DEF IndexedDoc, DocColumns
<1>4. job \in [Jobs -> Row({1})]
  BY NewRowType
<1>5. run \in Tasks /\ run.pc = "idle" /\ run.own = <<>> /\ run.mem = <<>>
      /\ run.long = {} /\ run.work = <<>>
  BY IdleType
<1>6. api \in Requests
  BY DEF NoRequest, Requests
<1>7. left \in [{"request", "trouble"} -> Nat]
  BY BoundsAssumption
<1>8. Table = chunk
  BY <1>5 DEF Table
<1>9. FitsIn(run, Table) /\ Unsent(run, Table)
  BY <1>1, <1>5, <1>8, NothingFits
<1> QED
  BY <1>1, <1>3, <1>4, <1>5, <1>6, <1>7, <1>9 DEF Inv, TypeInv

\* What is not about the task leaves it alone.
LEMMA TaskUntouched ==
  ASSUME Inv, UNCHANGED <<run, chunk>>
  PROVE  Text(chunk') /\ FitsIn(run', Table') /\ Unsent(run', Table')
<1>1. Table' = Table
  BY DEF Table
<1> QED
  BY <1>1 DEF Inv

\* The task goes on with the same chunks; it may start to call only where it
\* knows what to send.
LEMMA TaskMoves ==
  ASSUME Inv, UNCHANGED chunk,
         run'.own = run.own, run'.mem = run.mem, run'.long = run.long,
         run'.work = run.work,
         run'.pc \in {"touch", "call"} => run.pc \in {"touch", "call"}
  PROVE  Text(chunk') /\ FitsIn(run', Table') /\ Unsent(run', Table')
<1>1. Table' = Table
  BY DEF Table
<1> QED
  BY <1>1 DEF Inv, FitsIn, Unsent

\* A task that ends, or that has nothing yet.
LEMMA TaskRestarts ==
  ASSUME Text(chunk'), run'.own = <<>>, run'.mem = <<>>, run'.long = {},
         run'.work = <<>>
  PROVE  FitsIn(run', Table') /\ Unsent(run', Table')
<1>1. Table' = chunk'
  BY DEF Table
<1> QED
  BY <1>1, NothingFits

LEMMA ClaimKeeps ==
  ASSUME Inv, Claim
  PROVE  Inv'
<1>1. PICK j \in Jobs : /\ job' = [job EXCEPT ![j] = ClaimRow(@)]
                        /\ run' = [Idle EXCEPT !.pc = "start", !.job = j]
  BY DEF Claim
<1>2. ClaimRow(job[j]) \in Row({1})
  BY RowTypes DEF Inv, TypeInv
<1>3. job' \in [Jobs -> Row({1})]
  BY <1>1, <1>2 DEF Inv, TypeInv
<1>4. run' \in Tasks /\ run'.job \in Jobs
  BY <1>1, IdleType DEF Tasks, TaskPcs
<1>5. /\ run'.own = <<>> /\ run'.mem = <<>> /\ run'.long = {}
      /\ run'.work = <<>>
  BY <1>1, IdleType
<1>6. chunk' = chunk /\ Text(chunk)
  BY DEF Claim, Inv
<1>7. FitsIn(run', Table') /\ Unsent(run', Table')
  BY <1>5, <1>6, TaskRestarts
<1>8. TypeInv'
  BY <1>3, <1>4 DEF Claim, Inv, TypeInv
<1> QED
  BY <1>6, <1>7, <1>8 DEF Inv

LEMMA SkipKeeps ==
  ASSUME Inv, Skip
  PROVE  Inv'
<1>1. run \in Tasks /\ run.job \in Jobs /\ run.pc = "start"
  BY DEF Inv, TypeInv, Skip
<1>2. run' = [run EXCEPT !.pc = "commit", !.exit = "skipped"]
  BY DEF Skip
<1>3. run' \in Tasks /\ run'.job \in Jobs /\ run'.pc = "commit"
      /\ run'.own = run.own /\ run'.mem = run.mem /\ run'.long = run.long
      /\ run'.work = run.work
  BY <1>1, <1>2 DEF Tasks, TaskPcs
<1>4. Text(chunk') /\ FitsIn(run', Table') /\ Unsent(run', Table')
  BY <1>3, TaskMoves DEF Skip
<1>5. left' \in [{"request", "trouble"} -> Nat]
  BY DEF Skip, Trouble, Spend, Inv, TypeInv
<1>6. TypeInv'
  BY <1>3, <1>5 DEF Skip, Inv, TypeInv
<1> QED
  BY <1>4, <1>6 DEF Inv

LEMMA StartKeeps ==
  ASSUME Inv, Start
  PROVE  Inv'
<1>1. run \in Tasks /\ run.job \in Jobs /\ run.pc = "start"
      /\ doc \in DocColumns /\ Text(chunk) /\ active \in BOOLEAN
  BY DEF Inv, TypeInv, Start
<1> DEFINE r == [run EXCEPT !.doc = doc]
           new == Refreshed([doc EXCEPT !.started = TRUE], chunk)
           f == Flushed(r, new)
<1>2. r \in Tasks
  BY <1>1 DEF Tasks
<1>3. new \in DocColumns
  <2>1. [doc EXCEPT !.started = TRUE] \in DocColumns
    BY <1>1 DEF DocColumns
  <2> QED
    BY <1>1, <2>1, RefreshedType
<1>4. run' = [f EXCEPT !.pc = "check", !.active = active]
  BY DEF Start
<1>5. /\ r.own = run.own /\ r.mem = run.mem /\ r.long = run.long
      /\ r.work = run.work /\ r.job = run.job
  BY <1>1 DEF Tasks
<1> HIDE DEF r, new
<1>6. f \in Tasks /\ f = [r EXCEPT !.doc = new, !.columns = f.columns]
  BY <1>2, <1>3, FlushedType
<1> HIDE DEF f
<1>7. /\ run' \in Tasks /\ run'.pc = "check" /\ run'.job = run.job
      /\ run'.own = run.own /\ run'.mem = run.mem /\ run'.long = run.long
      /\ run'.work = run.work
  <2>1. /\ f.own = r.own /\ f.mem = r.mem /\ f.long = r.long
        /\ f.work = r.work /\ f.job = r.job
    BY <1>2, <1>6 DEF Tasks
  <2>2. /\ run'.pc = "check" /\ run'.job = f.job /\ run'.own = f.own
        /\ run'.mem = f.mem /\ run'.long = f.long /\ run'.work = f.work
    BY <1>4, <1>6 DEF Tasks
  <2>3. run' \in Tasks
    BY <1>1, <1>4, <1>6 DEF Tasks, TaskPcs
  <2> QED
    BY <1>5, <2>1, <2>2, <2>3
<1>8. Text(chunk') /\ FitsIn(run', Table') /\ Unsent(run', Table')
  BY <1>7, TaskMoves DEF Start
<1>9. TypeInv'
  BY <1>1, <1>7 DEF Start, Inv, TypeInv
<1> QED
  BY <1>8, <1>9 DEF Inv

LEMMA CheckKeeps ==
  ASSUME Inv, Check
  PROVE  Inv'
<1>1. run \in Tasks /\ run.job \in Jobs /\ run.pc = "check"
  BY DEF Inv, TypeInv, Check
<1>2. PICK pc \in {"load", "finalize"},
           exit \in {"none", "cancelled", "continued", "skipped"} :
             run' = [run EXCEPT !.pc = pc, !.exit = exit]
  <2> DEFINE exit == IF Continues(Table) THEN "continued" ELSE "none"
  <2>1. \/ run' = [run EXCEPT !.pc = "finalize", !.exit = "cancelled"]
        \/ run' = [run EXCEPT !.pc = "load"]
        \/ run' = [run EXCEPT !.pc = "finalize", !.exit = exit]
    BY DEF Check
  <2>2. exit \in {"none", "cancelled", "continued", "skipped"}
    OBVIOUS
  <2>3. run.exit \in {"none", "cancelled", "continued", "skipped"}
        /\ [run EXCEPT !.pc = "load"] =
             [run EXCEPT !.pc = "load", !.exit = run.exit]
    BY <1>1 DEF Tasks
  <2> HIDE DEF exit
  <2> QED
    BY <2>1, <2>2, <2>3
<1>3. /\ run' \in Tasks /\ run'.pc \in {"load", "finalize"}
      /\ run'.job = run.job
      /\ run'.own = run.own /\ run'.mem = run.mem /\ run'.long = run.long
      /\ run'.work = run.work
  BY <1>1, <1>2 DEF Tasks, TaskPcs
<1>4. Text(chunk') /\ FitsIn(run', Table') /\ Unsent(run', Table')
  BY <1>3, TaskMoves DEF Check
<1>5. TypeInv'
  BY <1>1, <1>3 DEF Check, Inv, TypeInv
<1> QED
  BY <1>4, <1>5 DEF Inv

\* A batch that is loaded is of chunks that are not embedded.
LEMMA LoadedBatch ==
  ASSUME Inv
  PROVE  LET batch == PendingBatch(Table) IN
         /\ batch \subseteq DOMAIN Table /\ batch \in SUBSET Nat
         /\ \A c \in batch : Table[c].status # "embedded"
         /\ Memory(batch) \in [batch -> Memories]
         /\ Session([table |-> Table, mem |-> Memory(batch)])
         /\ TooLong(Table, batch) \subseteq batch
<1> DEFINE T == Table
           batch == PendingBatch(T)
           M == Memory(batch)
<1>1. Session([table |-> T, mem |-> run.mem])
  BY DEF Inv, FitsIn
<1>2. Text(T) /\ run.mem \in [DOMAIN run.mem -> Memories]
  BY <1>1 DEF Session
<1>3. batch \subseteq Having(T, Unsettled)
  BY DEF PendingBatch, FirstOf
<1>4. batch \subseteq DOMAIN T /\ \A c \in batch : T[c].status # "embedded"
  BY <1>3 DEF Having, Unsettled
<1>5. batch \in SUBSET Nat
  BY <1>2, <1>4, TextNotEmpty
<1>6. ASSUME NEW c \in batch
      PROVE  (IF c \in DOMAIN run.mem THEN run.mem[c] ELSE Remembered(T[c]))
               \in Memories
  <2>1. CASE c \in DOMAIN run.mem
    BY <1>2, <2>1
  <2>2. CASE c \notin DOMAIN run.mem
    <3>1. T[c] \in ChunkRow
      BY <1>2, <1>4, ChunkOfText
    <3>2. Remembered(T[c]) \in Memories
      BY <3>1 DEF Remembered, Memories, ChunkRow
    <3> QED
      BY <2>2, <3>2
  <2> QED
    BY <2>1, <2>2
<1>7. M = [c \in batch |-> IF c \in DOMAIN run.mem THEN run.mem[c]
                           ELSE Remembered(T[c])]
  BY DEF Memory
<1> HIDE DEF batch, M, T
<1>8. M \in [batch -> Memories] /\ DOMAIN M = batch
  BY <1>6, <1>7
<1> DEFINE s == [table |-> T, mem |-> M]
<1>9. s = [table |-> s.table, mem |-> s.mem] /\ s.table = T /\ s.mem = M
  OBVIOUS
<1>10. Session(s)
  BY <1>2, <1>4, <1>8, <1>9 DEF Session
<1>11. TooLong(T, batch) \subseteq batch
  BY DEF TooLong
<1> QED
  BY <1>4, <1>5, <1>8, <1>10, <1>11 DEF batch, M, T

LEMMA WholeBatchType ==
  ASSUME NEW batch \in SUBSET Nat
  PROVE  /\ WholeBatch(batch) \in Seq(Slices)
         /\ \A k \in DOMAIN WholeBatch(batch) :
              k = 1 /\ WholeBatch(batch)[k].ids = batch
         /\ <<>> \in Seq(Slices) /\ DOMAIN <<>> = {}
<1>1. [ids |-> batch, depth |-> 0] \in Slices
  BY DEF Slices
<1> QED
  BY <1>1 DEF WholeBatch

\* The tasks that Load and Reload leave.
LEMMA BatchTask ==
  ASSUME Inv,
         run'.pc \in {"finalize", "check", "touch", "split"},
         run'.work \in {WholeBatch(PendingBatch(Table)), <<>>},
         run'.long \in {TooLong(Table, PendingBatch(Table)), {}},
         run' = [run EXCEPT !.mem = Memory(PendingBatch(Table)),
                            !.long = run'.long, !.pc = run'.pc,
                            !.work = run'.work],
         run.job \in Jobs,
         UNCHANGED <<chunk, doc, active, job, api, excuse, left>>
  PROVE  Inv'
<1> DEFINE batch == PendingBatch(Table)
           pc == run'.pc
           work == run'.work
           long == run'.long
<1>1. run \in Tasks
  BY DEF Inv, TypeInv
<1>2. /\ batch \subseteq DOMAIN Table /\ batch \in SUBSET Nat
      /\ \A c \in batch : Table[c].status # "embedded"
      /\ Memory(batch) \in [batch -> Memories]
      /\ Session([table |-> Table, mem |-> Memory(batch)])
      /\ TooLong(Table, batch) \subseteq batch
  BY LoadedBatch
<1>3. work \in Seq(Slices) /\ \A k \in DOMAIN work : k = 1 /\ work[k].ids = batch
  BY <1>2, WholeBatchType
<1>4. long \subseteq batch
  BY <1>2
<1> HIDE DEF batch, pc, work, long
<1> DEFINE M == Memory(batch)
<1>5. M \in UNION {[S -> Memories] : S \in SUBSET Nat} /\ DOMAIN M = batch
  BY <1>2
<1> HIDE DEF M
<1>6. run' = [run EXCEPT !.mem = M, !.long = long, !.pc = pc, !.work = work]
  BY DEF M, batch, pc, work, long
<1>7. /\ run' \in Tasks /\ run'.job = run.job /\ run'.own = run.own
      /\ run'.mem = M /\ run'.long = long /\ run'.work = work /\ run'.pc = pc
  <2>1. pc \in TaskPcs
    BY DEF pc, TaskPcs
  <2>2. long \in SUBSET Nat
    BY <1>2, <1>4
  <2> QED
    BY <1>1, <1>3, <1>5, <1>6, <2>1, <2>2 DEF Tasks
<1>8. Table' = Table
  BY <1>7 DEF Table
<1>9. FitsIn(run', Table')
  <2>1. Session([table |-> Table', mem |-> run'.mem])
    BY <1>2, <1>7, <1>8 DEF M
  <2> QED
    BY <1>3, <1>4, <1>5, <1>7, <2>1 DEF FitsIn
<1>10. Unsent(run', Table')
  BY <1>2, <1>3, <1>7, <1>8 DEF Unsent
<1>11. TypeInv'
  BY <1>7 DEF Inv, TypeInv
<1> QED
  BY <1>9, <1>10, <1>11 DEF Inv

LEMMA LoadKeeps ==
  ASSUME Inv, Load
  PROVE  Inv'
<1> DEFINE batch == PendingBatch(Table)
           long == TooLong(Table, batch)
           pc == IF batch = {} THEN "finalize"
                 ELSE IF long = {} THEN "touch" ELSE "split"
           work == IF batch # {} /\ long = {} THEN WholeBatch(batch) ELSE <<>>
           M == Memory(batch)
<1>1. run' = [run EXCEPT !.mem = M, !.long = long, !.pc = pc, !.work = work]
      /\ UNCHANGED <<chunk, doc, active, job, api, excuse, left>>
  BY DEF Load
<1>2. run.job \in Jobs /\ run \in Tasks
  BY DEF Load, Inv, TypeInv
<1>3. pc \in {"finalize", "check", "touch", "split"}
      /\ work \in {WholeBatch(batch), <<>>}
  OBVIOUS
<1> HIDE DEF batch, long, pc, work, M
<1>4. run'.pc = pc /\ run'.work = work /\ run'.long = long
      /\ run' = [run EXCEPT !.mem = M, !.long = run'.long, !.pc = run'.pc,
                           !.work = run'.work]
  BY <1>1, <1>2 DEF Tasks
<1> QED
  BY <1>1, <1>2, <1>3, <1>4, BatchTask DEF M, batch, long

LEMMA ReloadKeeps ==
  ASSUME Inv, Reload
  PROVE  Inv'
<1> DEFINE batch == PendingBatch(Table)
           pc == IF batch = {} THEN "check" ELSE "touch"
           work == IF batch = {} THEN <<>> ELSE WholeBatch(batch)
           M == Memory(batch)
<1>1. run' = [run EXCEPT !.mem = M, !.pc = pc, !.work = work]
      /\ UNCHANGED <<chunk, doc, active, job, api, excuse, left>>
  BY DEF Reload
<1>2. run.job \in Jobs /\ run.long = {} /\ run \in Tasks
  BY DEF Reload, Inv, TypeInv
<1>3. pc \in {"finalize", "check", "touch", "split"}
      /\ work \in {WholeBatch(batch), <<>>}
  OBVIOUS
<1> HIDE DEF batch, pc, work, M
<1>4. run'.pc = pc /\ run'.work = work /\ run'.long = {}
      /\ run' = [run EXCEPT !.mem = M, !.long = run'.long, !.pc = run'.pc,
                           !.work = run'.work]
  BY <1>1, <1>2 DEF Tasks
<1> QED
  BY <1>1, <1>2, <1>3, <1>4, BatchTask DEF M, batch

\* The task has written chunks of its table.
LEMMA TaskWrites ==
  ASSUME Inv, UNCHANGED chunk, NEW a, NEW ids,
         Follows([table |-> Table, mem |-> run.mem], a, ids),
         run'.own = a.table, run'.mem = a.mem, run'.long \subseteq run.long,
         \A k \in DOMAIN run'.work : run'.work[k].ids \subseteq DOMAIN run.mem
  PROVE  /\ Table' = a.table /\ Text(chunk')
         /\ FitsIn(run', Table')
<1> DEFINE s == [table |-> Table, mem |-> run.mem]
<1>1. s.table = Table /\ s.mem = run.mem
  OBVIOUS
<1>2. Session(a) /\ DOMAIN a.mem = DOMAIN run.mem
  BY <1>1 DEF Follows
<1>3. a.table # <<>> /\ a = [table |-> a.table, mem |-> a.mem]
  BY <1>2, TextNotEmpty DEF Session
<1>4. Table' = a.table
  BY <1>3 DEF Table
<1>5. Session([table |-> Table', mem |-> run'.mem])
  BY <1>2, <1>3, <1>4
<1>6. run'.long \subseteq DOMAIN run'.mem
      /\ \A k \in DOMAIN run'.work : run'.work[k].ids \subseteq DOMAIN run'.mem
  BY <1>2 DEF Inv, FitsIn
<1> QED
  BY <1>4, <1>5, <1>6 DEF Inv, FitsIn

\* What the task writes is of the right type.
LEMMA WrittenType ==
  ASSUME NEW s, NEW a, NEW ids, Follows(s, a, ids)
  PROVE  /\ a.table \in Seq(ChunkRow)
         /\ a.mem \in UNION {[S -> Memories] : S \in SUBSET Nat}
<1>1. Text(a.table) /\ a.mem \in [DOMAIN a.mem -> Memories]
      /\ DOMAIN a.mem \subseteq DOMAIN a.table
  BY DEF Follows, Session
<1>2. a.table \in Seq(ChunkRow) /\ DOMAIN a.table \subseteq Nat
  BY <1>1, TextNotEmpty
<1> QED
  BY <1>1, <1>2

LEMMA SplitLongKeeps ==
  ASSUME Inv, NEW c \in run.long, SplitLong(c)
  PROVE  Inv'
<1> DEFINE s == [table |-> Table, mem |-> run.mem]
           a == SplitChunk(s, c)
           new == IF Len(a.table) > Len(Table) THEN Refreshed(run.doc, a.table)
                                               ELSE run.doc
           f == Flushed(run, new)
           T == a.table
           M == a.mem
           long == run.long \ {c}
<1>1. Session(s) /\ c \in DOMAIN s.mem /\ run \in Tasks /\ run.job \in Jobs
      /\ run.pc = "split"
  BY DEF Inv, FitsIn, TypeInv, SplitLong
<1>2. Follows(s, a, {c})
  BY <1>1, SplitFollows
<1>3. T \in Seq(ChunkRow) /\ M \in UNION {[S -> Memories] : S \in SUBSET Nat}
  BY <1>2, WrittenType
<1>4. new \in DocColumns
  <2>1. run.doc \in DocColumns /\ Text(a.table)
    BY <1>1, <1>2 DEF Tasks, Follows, Session
  <2>2. Refreshed(run.doc, a.table) \in DocColumns
    BY <2>1, RefreshedType
  <2> QED
    BY <2>1, <2>2
<1>5. run' = [f EXCEPT !.own = T, !.mem = M, !.long = @ \ {c}]
      /\ UNCHANGED <<chunk, doc, active, job, api, excuse, left>>
  BY DEF SplitLong
<1> HIDE DEF new
<1>6. f \in Tasks /\ f = [run EXCEPT !.doc = new, !.columns = f.columns]
  BY <1>1, <1>4, FlushedType
<1> HIDE DEF f, T, M, a
<1>7. /\ f.job = run.job /\ f.work = run.work /\ f.long = run.long
      /\ f.pc = run.pc
  BY <1>1, <1>6 DEF Tasks
<1>8. run' = [f EXCEPT !.own = T, !.mem = M, !.long = long]
  BY <1>5, <1>6, <1>7 DEF Tasks
<1>9. long \in SUBSET Nat
  BY <1>1 DEF Tasks
<1> HIDE DEF long
<1>10. /\ run' \in Tasks /\ run'.job = run.job /\ run'.own = T
       /\ run'.mem = M /\ run'.long = long /\ run'.work = run.work
       /\ run'.pc = "split"
  BY <1>1, <1>3, <1>6, <1>7, <1>8, <1>9 DEF Tasks
<1>11. long \subseteq run.long
  BY DEF long
<1>12. \A k \in DOMAIN run'.work : run'.work[k].ids \subseteq DOMAIN run.mem
  BY <1>10 DEF Inv, FitsIn
<1>13. Table' = a.table /\ Text(chunk') /\ FitsIn(run', Table')
  BY <1>2, <1>5, <1>10, <1>11, <1>12, TaskWrites DEF T, M
<1>14. Unsent(run', Table')
  BY <1>10 DEF Unsent
<1>15. TypeInv'
  BY <1>1, <1>5, <1>10 DEF Inv, TypeInv
<1> QED
  BY <1>13, <1>14, <1>15 DEF Inv

LEMMA TouchKeeps ==
  ASSUME Inv, Touch
  PROVE  Inv'
<1>1. run \in Tasks /\ run.job \in Jobs /\ run.pc = "touch"
  BY DEF Inv, TypeInv, Touch
<1>2. run' = [run EXCEPT !.pc = "call"]
  BY DEF Touch
<1>3. run' \in Tasks /\ run'.job \in Jobs /\ run'.pc = "call"
      /\ run'.own = run.own /\ run'.mem = run.mem /\ run'.long = run.long
      /\ run'.work = run.work
  BY <1>1, <1>2 DEF Tasks, TaskPcs
<1>4. Text(chunk') /\ FitsIn(run', Table') /\ Unsent(run', Table')
  BY <1>1, <1>3, TaskMoves DEF Touch
<1>5. TouchRow(job[run.job]) \in Row({1})
  BY <1>1, RowTypes DEF Inv, TypeInv
<1>6. TypeInv'
  BY <1>3, <1>5 DEF Touch, Inv, TypeInv
<1> QED
  BY <1>4, <1>6 DEF Inv

\* The slices behind the one on top, and the one that is cut in two.
LEMMA SlicesBehind ==
  ASSUME NEW work \in Seq(Slices), work # <<>>
  PROVE  /\ Head(work) \in Slices /\ Head(work) = work[1] /\ 1 \in DOMAIN work
         /\ Tail(work) \in Seq(Slices)
         /\ \A k \in DOMAIN Tail(work) :
              k + 1 \in DOMAIN work /\ k + 1 # 1
              /\ Tail(work)[k] = work[k + 1]
  BY SMT

LEMMA HalvesOfSlice ==
  ASSUME NEW T, NEW slice \in Slices
  PROVE  LET h == Halves(T, slice) IN
         /\ h \in Seq(Slices) /\ DOMAIN h = 1..2 /\ Len(h) = 2
         /\ h[1].ids \subseteq slice.ids /\ h[2].ids \subseteq slice.ids
         /\ h[1].ids \cap h[2].ids = {}
<1> DEFINE ids == FirstOf(T, slice.ids, Cardinality(slice.ids) \div 2)
           a == [ids |-> ids, depth |-> slice.depth + 1]
           b == [ids |-> slice.ids \ ids, depth |-> slice.depth + 1]
<1>1. Halves(T, slice) = <<a, b>>
  BY DEF Halves
<1>2. ids \subseteq slice.ids /\ slice.ids \in SUBSET Nat
      /\ slice.depth + 1 \in Nat
  BY DEF FirstOf, Slices
<1> HIDE DEF ids
<1>3. a \in Slices /\ b \in Slices
  BY <1>2 DEF Slices
<1>4. a.ids = ids /\ b.ids = slice.ids \ ids
  OBVIOUS
<1> HIDE DEF a, b
<1>5. <<a, b>> \in Seq(Slices) /\ DOMAIN <<a, b>> = 1..2 /\ Len(<<a, b>>) = 2
      /\ <<a, b>>[1] = a /\ <<a, b>>[2] = b
  BY <1>3
<1> QED
  BY <1>1, <1>2, <1>4, <1>5

\* Two slices in front of the others.
LEMMA TwoInFront ==
  ASSUME NEW h \in Seq(Slices), Len(h) = 2, NEW rest \in Seq(Slices)
  PROVE  /\ h \o rest \in Seq(Slices)
         /\ \A k \in DOMAIN (h \o rest) :
              /\ k \in Nat
              /\ k \in 1..2 => (h \o rest)[k] = h[k]
              /\ k \notin 1..2 => /\ k - 2 \in DOMAIN rest
                                 /\ (h \o rest)[k] = rest[k - 2]
<1> DEFINE w == h \o rest
<1>1. /\ w \in Seq(Slices) /\ Len(w) = 2 + Len(rest)
      /\ \A k \in 1..(2 + Len(rest)) :
           w[k] = IF k <= 2 THEN h[k] ELSE rest[k - 2]
  <2>1. /\ h \o rest \in Seq(Slices)
        /\ Len(h \o rest) = Len(h) + Len(rest)
        /\ \A i \in 1..Len(h) + Len(rest) :
             (h \o rest)[i] = IF i <= Len(h) THEN h[i] ELSE rest[i - Len(h)]
    BY ConcatProperties
  <2> QED
    BY <2>1
<1> HIDE DEF w
<1>2. /\ DOMAIN w = 1..(2 + Len(rest)) /\ DOMAIN rest = 1..Len(rest)
      /\ Len(rest) \in Nat
  BY <1>1, Listed
<1>3. ASSUME NEW k \in DOMAIN w
      PROVE  /\ k \in Nat
             /\ k \in 1..2 => w[k] = h[k]
             /\ k \notin 1..2 => k - 2 \in DOMAIN rest /\ w[k] = rest[k - 2]
  BY <1>1, <1>2
<1> QED
  BY <1>1, <1>3 DEF w

LEMMA IsolationKeeps ==
  ASSUME Inv, NEW answer \in Answers, Call(answer),
         Isolates(answer, Head(run.work))
  PROVE  Inv'
<1> DEFINE slice == Head(run.work)
           rest == Tail(run.work)
           s == [table |-> Table, mem |-> run.mem]
           a == Claimed(s, slice.ids)
           h == Halves(Table, slice)
           work == h \o rest
           T == a.table
<1>1. run \in Tasks /\ run.job \in Jobs /\ run.pc = "call" /\ run.work # <<>>
      /\ run.work \in Seq(Slices) /\ Session(s)
  BY DEF Inv, FitsIn, TypeInv, Call, Tasks
<1>2. run' = [run EXCEPT !.own = T, !.work = h \o Tail(@)]
      /\ UNCHANGED <<chunk, doc, active, job, api, excuse, left>>
  BY DEF Call
<1>3. /\ slice \in Slices /\ slice = run.work[1] /\ 1 \in DOMAIN run.work
      /\ rest \in Seq(Slices)
      /\ \A k \in DOMAIN rest : k + 1 \in DOMAIN run.work /\ k + 1 # 1
                                /\ rest[k] = run.work[k + 1]
  BY <1>1, SlicesBehind
<1>4. /\ h \in Seq(Slices) /\ DOMAIN h = 1..2 /\ Len(h) = 2
      /\ h[1].ids \subseteq slice.ids /\ h[2].ids \subseteq slice.ids
      /\ h[1].ids \cap h[2].ids = {}
  BY <1>3, HalvesOfSlice
<1>5. Follows(s, a, slice.ids)
  BY <1>1, ClaimedFollows
<1>6. a.mem = run.mem /\ \A c \in DOMAIN Table :
        T[c].status = IF c \in slice.ids THEN "embedding" ELSE Table[c].status
  <2>1. \A c \in DOMAIN Table : Table[c] \in ChunkRow
    BY <1>1, ChunkOfText DEF Session
  <2>2. a.mem = run.mem /\ \A c \in DOMAIN Table :
          T[c] = IF c \in slice.ids THEN [Table[c] EXCEPT !.status = "embedding"]
                 ELSE Table[c]
    BY DEF Claimed
  <2> QED
    BY <2>1, <2>2 DEF ChunkRow
<1>7. T \in Seq(ChunkRow)
  BY <1>5, WrittenType
<1> HIDE DEF h, T, slice, rest, a
<1>8. /\ work \in Seq(Slices)
      /\ \A k \in DOMAIN work :
           /\ k \in Nat
           /\ k \in 1..2 => work[k] = h[k]
           /\ k \notin 1..2 => k - 2 \in DOMAIN rest /\ work[k] = rest[k - 2]
  BY <1>3, <1>4, TwoInFront
<1>9. run' = [run EXCEPT !.own = T, !.work = work]
  BY <1>1, <1>2 DEF rest
<1> HIDE DEF work
<1>10. /\ run' \in Tasks /\ run'.job = run.job /\ run'.own = T
       /\ run'.mem = run.mem /\ run'.long = run.long /\ run'.work = work
       /\ run'.pc = run.pc
  BY <1>1, <1>7, <1>8, <1>9 DEF Tasks
\* Each slice is a part of an old one, and no two have a chunk in common.
<1>11. ASSUME NEW k \in DOMAIN work
       PROVE  /\ k \in 1..2 => /\ work[k].ids \subseteq slice.ids
                               /\ work[k] = h[k]
              /\ k \notin 1..2 => /\ k - 1 \in DOMAIN run.work /\ k - 1 # 1
                                  /\ work[k] = run.work[k - 1]
  <2>1. CASE k \in 1..2
    <3>1. k = 1 \/ k = 2
      BY <2>1
    <3> QED
      BY <1>4, <1>8, <2>1, <3>1
  <2>2. CASE k \notin 1..2
    <3>1. (k - 2) + 1 = k - 1 /\ k - 2 \in DOMAIN rest /\ work[k] = rest[k - 2]
      BY <1>8, <2>2
    <3> QED
      BY <1>3, <2>2, <3>1
  <2> QED
    BY <2>1, <2>2
<1>12. \A k, l \in DOMAIN run.work :
         k # l => run.work[k].ids \cap run.work[l].ids = {}
  BY <1>1 DEF Inv, Unsent
<1>13. \A k \in DOMAIN run.work : \A c \in run.work[k].ids :
         Table[c].status # "embedded" /\ c \in DOMAIN Table
  BY <1>1 DEF Inv, Unsent, FitsIn, Session
<1>14. ASSUME NEW k \in DOMAIN work, NEW c \in work[k].ids
       PROVE  c \in DOMAIN run.mem /\ T[c].status # "embedded"
  <2>1. \A l \in DOMAIN run.work : run.work[l].ids \subseteq DOMAIN run.mem
    BY DEF Inv, FitsIn
  <2>2. PICK l \in DOMAIN run.work : c \in run.work[l].ids
    BY <1>3, <1>11
  <2> QED
    BY <1>6, <1>13, <2>1, <2>2
<1>15. ASSUME NEW k \in DOMAIN work, NEW l \in DOMAIN work, k # l
       PROVE  work[k].ids \cap work[l].ids = {}
  <2>1. k \in Int /\ l \in Int
    BY <1>8
  <2>2. CASE k \in 1..2 /\ l \in 1..2
    <3>1. work[k] = h[k] /\ work[l] = h[l]
      BY <1>11, <1>8, <2>2
    <3>2. (k = 1 /\ l = 2) \/ (k = 2 /\ l = 1)
      BY <1>15, <2>2
    <3> QED
      BY <1>4, <3>1, <3>2
  <2>3. CASE k \in 1..2 /\ l \notin 1..2
    <3>1. work[k].ids \subseteq run.work[1].ids
      BY <1>3, <1>11, <2>3
    <3>2. /\ l - 1 \in DOMAIN run.work /\ l - 1 # 1
          /\ work[l] = run.work[l - 1]
      BY <1>11, <2>3
    <3> QED
      BY <1>3, <1>12, <3>1, <3>2
  <2>4. CASE k \notin 1..2 /\ l \in 1..2
    <3>1. work[l].ids \subseteq run.work[1].ids
      BY <1>3, <1>11, <2>4
    <3>2. /\ k - 1 \in DOMAIN run.work /\ k - 1 # 1
          /\ work[k] = run.work[k - 1]
      BY <1>11, <2>4
    <3> QED
      BY <1>3, <1>12, <3>1, <3>2
  <2>5. CASE k \notin 1..2 /\ l \notin 1..2
    <3>1. k - 1 # l - 1
      BY <1>15, <2>1
    <3> QED
      BY <1>11, <1>12, <2>5, <3>1
  <2> QED
    BY <2>2, <2>3, <2>4, <2>5
<1>16. Table' = a.table /\ Text(chunk') /\ FitsIn(run', Table')
  <2>1. \A k \in DOMAIN run'.work : run'.work[k].ids \subseteq DOMAIN run.mem
    BY <1>10, <1>14
  <2>2. run'.own = a.table /\ run'.mem = a.mem /\ run'.long \subseteq run.long
    BY <1>6, <1>10 DEF T
  <2> QED
    BY <1>2, <1>5, <2>1, <2>2, TaskWrites
<1>17. Unsent(run', Table')
  BY <1>10, <1>14, <1>15, <1>16 DEF Unsent, T
<1>18. TypeInv'
  BY <1>1, <1>2, <1>10 DEF Inv, TypeInv
<1> QED
  BY <1>16, <1>17, <1>18 DEF Inv

LEMMA SettlingKeeps ==
  ASSUME Inv, NEW answer \in Answers, Call(answer),
         ~Isolates(answer, Head(run.work))
  PROVE  Inv'
<1> DEFINE slice == Head(run.work)
           rest == Tail(run.work)
           s == [table |-> Table, mem |-> run.mem]
           a == Settled(Claimed(s, slice.ids), slice, answer)
           new == IF Len(a.table) > Len(Table) THEN Refreshed(run.doc, a.table)
                                               ELSE run.doc
           f == Flushed(run, new)
           T == a.table
           M == a.mem
           dimension == run.dimension \/ answer = "vectors"
<1>1. run \in Tasks /\ run.job \in Jobs /\ run.pc = "call" /\ run.work # <<>>
      /\ run.work \in Seq(Slices) /\ Session(s)
  BY DEF Inv, FitsIn, TypeInv, Call, Tasks
<1>2. run' = [f EXCEPT !.own = T, !.mem = M, !.work = Tail(@),
                       !.dimension = @ \/ answer = "vectors"]
      /\ UNCHANGED <<chunk, doc, active, job, api, excuse, left>>
  BY DEF Call
<1>3. /\ slice \in Slices /\ slice = run.work[1] /\ 1 \in DOMAIN run.work
      /\ rest \in Seq(Slices)
      /\ \A k \in DOMAIN rest : k + 1 \in DOMAIN run.work /\ k + 1 # 1
                                /\ rest[k] = run.work[k + 1]
  BY <1>1, SlicesBehind
<1>4. slice.ids \subseteq DOMAIN s.mem
  BY <1>3 DEF Inv, FitsIn
<1> HIDE DEF slice
<1>5. Follows(s, a, slice.ids)
  BY <1>1, <1>4, SettledFollows
<1>6. T \in Seq(ChunkRow) /\ M \in UNION {[S -> Memories] : S \in SUBSET Nat}
  BY <1>5, WrittenType
<1>7. new \in DocColumns
  <2>1. run.doc \in DocColumns /\ Text(a.table)
    BY <1>1, <1>5 DEF Tasks, Follows, Session
  <2>2. Refreshed(run.doc, a.table) \in DocColumns
    BY <2>1, RefreshedType
  <2> QED
    BY <2>1, <2>2
<1> HIDE DEF new
<1>8. f \in Tasks /\ f = [run EXCEPT !.doc = new, !.columns = f.columns]
  BY <1>1, <1>7, FlushedType
<1> HIDE DEF f, T, M, a
<1>9. /\ f.job = run.job /\ f.work = run.work /\ f.long = run.long
      /\ f.pc = run.pc /\ f.dimension = run.dimension
  BY <1>1, <1>8 DEF Tasks
<1>10. dimension \in BOOLEAN
  BY <1>1 DEF Tasks
<1>11. run' = [f EXCEPT !.own = T, !.mem = M, !.work = rest,
                        !.dimension = dimension]
  BY <1>2, <1>8, <1>9 DEF Tasks
<1> HIDE DEF rest, dimension
<1>12. /\ run' \in Tasks /\ run'.job = run.job /\ run'.own = T
       /\ run'.mem = M /\ run'.long = run.long /\ run'.work = rest
       /\ run'.pc = "call"
  BY <1>1, <1>3, <1>6, <1>8, <1>9, <1>10, <1>11 DEF Tasks
<1>13. \A k \in DOMAIN run'.work : run'.work[k].ids \subseteq DOMAIN run.mem
  BY <1>3, <1>12 DEF Inv, FitsIn
<1>14. Table' = a.table /\ Text(chunk') /\ FitsIn(run', Table')
  BY <1>2, <1>5, <1>12, <1>13, TaskWrites DEF T, M
<1>15. ASSUME NEW k \in DOMAIN rest, NEW c \in rest[k].ids
       PROVE  a.table[c].status # "embedded"
  <2>1. c \in run.work[k + 1].ids /\ k + 1 \in DOMAIN run.work /\ k + 1 # 1
    BY <1>3
  <2>2. c \notin slice.ids /\ Table[c].status # "embedded"
    BY <1>1, <1>3, <2>1 DEF Inv, Unsent
  <2>3. c \in DOMAIN Table
    BY <1>1, <2>1 DEF Inv, FitsIn, Session
  <2>4. a.table[c].status = Table[c].status
    BY <1>5, <2>2, <2>3 DEF Follows
  <2> QED
    BY <2>2, <2>4
<1>16. ASSUME NEW k \in DOMAIN rest, NEW l \in DOMAIN rest, k # l
       PROVE  rest[k].ids \cap rest[l].ids = {}
  <2>1. k \in Int /\ l \in Int
    BY <1>3
  <2>2. k + 1 # l + 1
    BY <1>16, <2>1
  <2> QED
    BY <1>1, <1>3, <2>2 DEF Inv, Unsent
<1>17. Unsent(run', Table')
  BY <1>12, <1>14, <1>15, <1>16 DEF Unsent
<1>18. TypeInv'
  BY <1>1, <1>2, <1>12 DEF Inv, TypeInv
<1> QED
  BY <1>14, <1>17, <1>18 DEF Inv

LEMMA CommitBatchKeeps ==
  ASSUME Inv, CommitBatch
  PROVE  Inv'
<1> DEFINE new == Refreshed(run.doc, Table)
           last == Flushed(run, new)
<1>1. run \in Tasks /\ run.job \in Jobs /\ doc \in DocColumns /\ Text(Table)
      /\ run.doc \in DocColumns
  BY DEF Inv, TypeInv, CommitBatch, FitsIn, Session, Tasks
<1>2. new \in DocColumns
  BY <1>1, RefreshedType
<1>3. /\ chunk' = Table /\ doc' = Write(doc, last.columns, last.doc)
      /\ run' = [last EXCEPT !.pc = "check", !.columns = {}, !.own = <<>>,
                             !.batches = @ + 1]
      /\ UNCHANGED <<active, job, api, excuse, left>>
  BY DEF CommitBatch
<1> HIDE DEF new
<1>4. last \in Tasks /\ last = [run EXCEPT !.doc = new, !.columns = last.columns]
  BY <1>1, <1>2, FlushedType
<1> HIDE DEF last
<1>5. /\ run' \in Tasks /\ run'.pc = "check" /\ run'.job = run.job
      /\ run'.own = <<>> /\ run'.mem = run.mem /\ run'.long = run.long
      /\ run'.work = run.work
  <2> DEFINE n == last.batches + 1
             none == {}
             empty == <<>>
  <2>1. n \in Nat /\ none \in SUBSET Columns /\ empty \in Seq(ChunkRow)
    BY <1>4 DEF Tasks
  <2>2. run' = [last EXCEPT !.pc = "check", !.columns = none, !.own = empty,
                            !.batches = n]
    BY <1>3
  <2>3. empty = <<>> /\ "check" \in TaskPcs
    BY DEF TaskPcs
  <2> HIDE DEF n, none, empty
  <2>4. run' \in Tasks
    BY <1>4, <2>1, <2>2, <2>3 DEF Tasks
  <2>5. /\ last.job = run.job /\ last.mem = run.mem /\ last.long = run.long
        /\ last.work = run.work
    BY <1>1, <1>4 DEF Tasks
  <2> QED
    BY <1>4, <2>2, <2>3, <2>4, <2>5 DEF Tasks
<1>6. Table' = Table
  BY <1>3, <1>5 DEF Table
<1>7. FitsIn(run', Table') /\ Unsent(run', Table') /\ Text(chunk')
  BY <1>1, <1>3, <1>5, <1>6 DEF Inv, FitsIn, Unsent
<1>8. doc' \in DocColumns
  <2>1. last.doc \in DocColumns
    BY <1>4 DEF Tasks
  <2> QED
    BY <1>1, <1>3, <2>1, WriteType
<1>9. TypeInv'
  BY <1>1, <1>3, <1>5, <1>8 DEF Inv, TypeInv
<1> QED
  BY <1>7, <1>9 DEF Inv

LEMMA VerdictType ==
  ASSUME NEW d \in DocColumns, NEW embedded \in Nat, NEW failed \in Nat,
         NEW pending \in Nat
  PROVE  Verdict(d, embedded, failed, pending) \in DocColumns
<1> DEFINE some == embedded > 0
<1>1. some \in BOOLEAN
  OBVIOUS
<1>2. CASE failed > 0
  <2>1. Verdict(d, embedded, failed, pending) =
          [d EXCEPT !.has_embeddings = some, !.processing_status = "partial"]
    BY <1>2 DEF Verdict
  <2> HIDE DEF some
  <2> QED
    BY <1>1, <2>1 DEF DocColumns
<1>3. CASE ~(failed > 0) /\ (pending > 0 \/ embedded = 0)
  <2>1. Verdict(d, embedded, failed, pending) =
          [d EXCEPT !.has_embeddings = FALSE]
    BY <1>3 DEF Verdict
  <2> QED
    BY <2>1 DEF DocColumns
<1>4. CASE ~(failed > 0) /\ ~(pending > 0 \/ embedded = 0)
  <2>1. Verdict(d, embedded, failed, pending) =
          [d EXCEPT !.has_embeddings = TRUE, !.processing_status = "ready"]
    BY <1>4 DEF Verdict
  <2> QED
    BY <2>1 DEF DocColumns
<1> QED
  BY <1>2, <1>3, <1>4

LEMMA FinalizeKeeps ==
  ASSUME Inv, Finalize
  PROVE  Inv'
<1>1. run \in Tasks /\ run.job \in Jobs /\ run.pc = "finalize"
      /\ run.doc \in DocColumns /\ Text(Table)
  BY DEF Inv, TypeInv, Finalize, FitsIn, Session, Tasks
<1> DEFINE refreshed == Refreshed(run.doc, Table)
           pending == Count(Table, Unsettled)
           new == IF run.exit \in {"cancelled", "continued"} THEN refreshed
                  ELSE Verdict(refreshed, refreshed.chunks_embedded,
                               refreshed.chunks_failed, pending)
           done == /\ run.exit = "none" /\ pending = 0
                   /\ refreshed.chunks_failed = 0
                   /\ refreshed.chunks_embedded > 0
           space == done /\ run.dimension # run.active
           f == Flushed(run, new)
<1>2. run' = [f EXCEPT !.pc = "commit", !.space = space]
      /\ UNCHANGED <<chunk, doc, active, job, api, excuse, left>>
  BY DEF Finalize
<1>3. new \in DocColumns
  <2>1. refreshed \in DocColumns
    BY <1>1, RefreshedType
  <2>2. pending \in Nat
    BY <1>1, CountType
  <2> HIDE DEF refreshed, pending
  <2>3. refreshed.chunks_embedded \in Nat /\ refreshed.chunks_failed \in Nat
    BY <2>1 DEF DocColumns
  <2>4. Verdict(refreshed, refreshed.chunks_embedded,
                refreshed.chunks_failed, pending) \in DocColumns
    BY <2>1, <2>2, <2>3, VerdictType
  <2> QED
    BY <2>1, <2>4
<1>4. space \in BOOLEAN
  OBVIOUS
<1> HIDE DEF new, space
<1>5. f \in Tasks /\ f = [run EXCEPT !.doc = new, !.columns = f.columns]
  BY <1>1, <1>3, FlushedType
<1> HIDE DEF f
<1>6. /\ run' \in Tasks /\ run'.pc = "commit" /\ run'.job = run.job
      /\ run'.own = run.own /\ run'.mem = run.mem /\ run'.long = run.long
      /\ run'.work = run.work
  BY <1>1, <1>2, <1>4, <1>5 DEF Tasks, TaskPcs
<1>7. Text(chunk') /\ FitsIn(run', Table') /\ Unsent(run', Table')
  BY <1>2, <1>6, TaskMoves
<1>8. TypeInv'
  BY <1>1, <1>2, <1>6 DEF Inv, TypeInv
<1> QED
  BY <1>7, <1>8 DEF Inv

LEMMA RowsType ==
  ASSUME NEW rows \in [Jobs -> Row({1})]
  PROVE  /\ Enqueued(rows) \in [Jobs -> Row({1})]
         /\ \A row \in Row({1}) : Retire(row) \in Row({1})
<1> DEFINE first == CHOOSE j \in Free(rows) : \A k \in Free(rows) : j <= k
<1>1. Enqueued(rows) = [rows EXCEPT ![first] = NewJob]
  BY DEF Enqueued
<1> HIDE DEF first
<1>2. Enqueued(rows) \in [Jobs -> Row({1})]
  BY <1>1, NewRowType
<1> QED
  BY <1>2, NewRowType DEF Retire

LEMMA CommitKeeps ==
  ASSUME Inv, Commit
  PROVE  Inv'
<1>1. run \in Tasks /\ run.job \in Jobs /\ doc \in DocColumns /\ Text(Table)
      /\ run.doc \in DocColumns /\ job \in [Jobs -> Row({1})]
      /\ active \in BOOLEAN /\ run.dimension \in BOOLEAN
  BY DEF Inv, TypeInv, Commit, FitsIn, Session, Tasks
<1> DEFINE row == Retire(CompleteRow([job[run.job] EXCEPT !.status = "running"]))
           rows == [job EXCEPT ![run.job] = row]
<1>2. /\ chunk' = Table /\ doc' = Write(doc, run.columns, run.doc)
      /\ active' = IF run.space THEN run.dimension ELSE active
      /\ job' = IF run.exit = "continued" THEN Enqueued(rows) ELSE rows
      /\ excuse' = (excuse \/ run.exit = "skipped")
      /\ run' = Idle /\ UNCHANGED <<api, left>>
  BY DEF Commit
<1>3. row \in Row({1})
  <2>1. [job[run.job] EXCEPT !.status = "running"] \in Row({1})
    BY <1>1 DEF Row, JobStatus
  <2>2. CompleteRow([job[run.job] EXCEPT !.status = "running"]) \in Row({1})
    BY <2>1, RowTypes
  <2> QED
    BY <1>1, <2>2, RowsType
<1> HIDE DEF row
<1>4. rows \in [Jobs -> Row({1})]
  BY <1>1, <1>3
<1> HIDE DEF rows
<1>5. job' \in [Jobs -> Row({1})]
  BY <1>2, <1>4, RowsType
<1>6. doc' \in DocColumns
  BY <1>1, <1>2, WriteType
<1>7. Text(chunk')
  BY <1>1, <1>2
<1>8. FitsIn(run', Table') /\ Unsent(run', Table')
  BY <1>2, <1>7, IdleType, TaskRestarts
<1>9. TypeInv'
  BY <1>1, <1>2, <1>5, <1>6, IdleType DEF Inv, TypeInv
<1> QED
  BY <1>7, <1>8, <1>9 DEF Inv

LEMMA RaisedType ==
  ASSUME Inv, run.pc # "idle"
  PROVE  /\ Raised \in Tasks /\ Raised.pc = "failed" /\ Raised.job \in Jobs
         /\ Raised.job = run.job
         /\ Raised.own = <<>> /\ Raised.mem = <<>> /\ Raised.long = {}
         /\ Raised.work = <<>>
<1>1. run.job \in Jobs
  BY DEF Inv, TypeInv
<1>2. Raised = [Idle EXCEPT !.pc = "failed", !.job = run.job]
  BY DEF Raised
<1> QED
  BY <1>1, <1>2, IdleType DEF Tasks, TaskPcs

LEMMA HandlerRaisesKeeps ==
  ASSUME Inv, HandlerRaises
  PROVE  Inv'
<1>1. run' = Raised /\ run.pc # "idle" /\ chunk' = chunk
  BY DEF HandlerRaises
<1>2. Text(chunk') /\ FitsIn(run', Table') /\ Unsent(run', Table')
  BY <1>1, RaisedType, TaskRestarts DEF Inv
<1>3. left' \in [{"request", "trouble"} -> Nat]
  BY DEF HandlerRaises, Trouble, Spend, Inv, TypeInv
<1>4. TypeInv'
  BY <1>1, <1>3, RaisedType DEF HandlerRaises, Inv, TypeInv
<1> QED
  BY <1>2, <1>4 DEF Inv

LEMMA FailJobKeeps ==
  ASSUME Inv, FailJob
  PROVE  Inv'
<1>1. run \in Tasks /\ run.job \in Jobs /\ doc \in DocColumns
      /\ job \in [Jobs -> Row({1})] /\ Text(chunk)
  BY DEF Inv, TypeInv, FailJob
<1> DEFINE row == FailRow(job[run.job], FALSE)
           partial == [doc EXCEPT !.processing_status = "partial",
                                  !.has_embeddings = TRUE]
<1>2. /\ job' = [job EXCEPT ![run.job] = Retire(row)]
      /\ excuse' = (excuse \/ row.status = "failed")
      /\ doc' = partial \/ doc' = doc
      /\ run' = Idle
      /\ UNCHANGED <<chunk, active, api, left>>
  BY DEF FailJob
<1>3. row \in Row({1})
  BY <1>1, RowTypes
<1>4. Retire(row) \in Row({1})
  BY <1>1, <1>3, RowsType
<1>5. partial \in DocColumns
  BY <1>1 DEF DocColumns
<1> HIDE DEF row, partial
<1>6. job' \in [Jobs -> Row({1})]
  BY <1>1, <1>2, <1>4
<1>7. Text(chunk')
  BY <1>1, <1>2
<1>8. FitsIn(run', Table') /\ Unsent(run', Table')
  BY <1>2, <1>7, IdleType, TaskRestarts
<1>9. TypeInv'
  BY <1>1, <1>2, <1>5, <1>6, IdleType DEF Inv, TypeInv
<1> QED
  BY <1>7, <1>8, <1>9 DEF Inv

LEMMA CrashKeeps ==
  ASSUME Inv, Crash
  PROVE  Inv'
<1>1. /\ job' = [j \in Jobs |-> IF job[j].status = "running"
                               THEN RequeueRow(job[j]) ELSE Retire(job[j])]
      /\ run' = Idle /\ UNCHANGED <<chunk, doc, active, api, excuse>>
  BY DEF Crash
<1>2. job \in [Jobs -> Row({1})]
  BY DEF Inv, TypeInv
<1>3. \A j \in Jobs : RequeueRow(job[j]) \in Row({1})
                      /\ Retire(job[j]) \in Row({1})
  BY <1>2, RowTypes, RowsType
<1>4. job' \in [Jobs -> Row({1})]
  BY <1>1, <1>3
<1>5. left' \in [{"request", "trouble"} -> Nat]
  BY DEF Crash, Trouble, Spend, Inv, TypeInv
<1>6. Text(chunk')
  BY <1>1 DEF Inv
<1>7. FitsIn(run', Table') /\ Unsent(run', Table')
  BY <1>1, <1>6, IdleType, TaskRestarts
<1>8. TypeInv'
  BY <1>1, <1>4, <1>5, IdleType DEF Inv, TypeInv
<1> QED
  BY <1>6, <1>7, <1>8 DEF Inv

LEMMA CancelledType ==
  ASSUME NEW j \in Jobs, job[j] \in Row({1})
  PROVE  CancelledRow(j) \in Row({1})
  BY RowTypes, NewRowType DEF CancelledRow

LEMMA CancelJobKeeps ==
  ASSUME Inv, NEW j \in Jobs, CancelJob(j)
  PROVE  Inv'
<1>1. job[j] \in Row({1}) /\ job \in [Jobs -> Row({1})]
  BY DEF Inv, TypeInv
<1>2. CancelledRow(j) \in Row({1})
  BY <1>1, CancelledType
<1>3. job' \in [Jobs -> Row({1})]
  BY <1>1, <1>2 DEF CancelJob
<1>4. left' \in [{"request", "trouble"} -> Nat]
  BY DEF CancelJob, Trouble, Spend, Inv, TypeInv
<1>5. Text(chunk') /\ FitsIn(run', Table') /\ Unsent(run', Table')
  BY TaskUntouched DEF CancelJob
<1>6. TypeInv'
  BY <1>3, <1>4 DEF CancelJob, Inv, TypeInv
<1> QED
  BY <1>5, <1>6 DEF Inv

LEMMA ReprocessLoadKeeps ==
  ASSUME Inv, ReprocessLoad
  PROVE  Inv'
<1> DEFINE columns == Changed(doc, Unembedded(doc))
           jobs == {j \in Jobs : job[j].status \in OpenStatuses}
<1>1. api' = [stage |-> "loaded", columns |-> columns, jobs |-> jobs]
  BY DEF ReprocessLoad
<1>2. columns \in SUBSET Columns /\ jobs \in SUBSET Jobs
  BY DEF Changed
<1> HIDE DEF columns, jobs
<1>3. api' \in Requests
  BY <1>1, <1>2 DEF Requests
<1>4. left' \in [{"request", "trouble"} -> Nat]
  BY DEF ReprocessLoad, Spend, Inv, TypeInv
<1>5. Text(chunk') /\ FitsIn(run', Table') /\ Unsent(run', Table')
  BY TaskUntouched DEF ReprocessLoad
<1>6. TypeInv'
  BY <1>3, <1>4 DEF ReprocessLoad, Inv, TypeInv
<1> QED
  BY <1>5, <1>6 DEF Inv

LEMMA ReprocessLockKeeps ==
  ASSUME Inv, ReprocessLock
  PROVE  Inv'
<1> DEFINE stage == IF api.stage = "loaded" THEN "jobs" ELSE "chunks"
<1>1. api' = [api EXCEPT !.stage = stage] /\ api \in Requests
  BY DEF ReprocessLock, Inv, TypeInv
<1>2. stage \in {"none", "loaded", "jobs", "chunks"}
  OBVIOUS
<1> HIDE DEF stage
<1>3. api' \in Requests
  BY <1>1, <1>2 DEF Requests
<1>4. Text(chunk') /\ FitsIn(run', Table') /\ Unsent(run', Table')
  BY TaskUntouched DEF ReprocessLock
<1>5. TypeInv'
  BY <1>3 DEF ReprocessLock, Inv, TypeInv
<1> QED
  BY <1>4, <1>5 DEF Inv

LEMMA NoRequestType == NoRequest \in Requests
  BY DEF NoRequest, Requests

\* The chunks of a reset table are pending.
LEMMA ResetText ==
  ASSUME NEW T, Text(T), NEW U, U = [c \in DOMAIN T |-> Reset(T[c])]
  PROVE  /\ Text(U) /\ DOMAIN U = DOMAIN T
         /\ \A c \in DOMAIN T : U[c].status = "pending"
<1>1. \A c \in DOMAIN T : T[c] \in ChunkRow
  BY ChunkOfText
<1>2. \A c \in DOMAIN T :
        /\ U[c] \in ChunkRow /\ U[c].index = T[c].index
        /\ U[c].first = T[c].first /\ U[c].last = T[c].last
        /\ U[c].status = "pending"
  BY <1>1 DEF Reset, ChunkRow
<1>3. DOMAIN U = DOMAIN T /\ U = [c \in DOMAIN U |-> U[c]]
  OBVIOUS
<1>4. Text(U)
  BY <1>2, <1>3, SameText
<1> QED
  BY <1>2, <1>3, <1>4

LEMMA UnembeddedType ==
  ASSUME NEW d \in DocColumns
  PROVE  Unembedded(d) \in DocColumns
  BY DEF Unembedded, DocColumns

LEMMA ReprocessCommitKeeps ==
  ASSUME Inv, ReprocessCommit
  PROVE  Inv'
<1>1. job \in [Jobs -> Row({1})] /\ Text(chunk) /\ doc \in DocColumns
  BY DEF Inv, TypeInv
<1> DEFINE rows == [j \in Jobs |-> IF j \in api.jobs THEN CancelledRow(j)
                                   ELSE job[j]]
<1>2. /\ chunk' = [c \in DOMAIN chunk |-> Reset(chunk[c])]
      /\ doc' = Write(doc, api.columns, Unembedded(doc))
      /\ job' = Enqueued(rows) /\ excuse' = FALSE /\ api' = NoRequest
      /\ UNCHANGED <<active, run, left>>
  BY DEF ReprocessCommit
<1>3. rows \in [Jobs -> Row({1})]
  BY <1>1, CancelledType
<1> HIDE DEF rows
<1>4. job' \in [Jobs -> Row({1})]
  BY <1>2, <1>3, RowsType
<1>5. doc' \in DocColumns
  BY <1>1, <1>2, UnembeddedType, WriteType
<1>6. /\ Text(chunk') /\ DOMAIN chunk' = DOMAIN chunk
      /\ \A c \in DOMAIN chunk : chunk'[c].status = "pending"
  BY <1>1, <1>2, ResetText
<1>7. CASE run.own # <<>>
  <2>1. Table' = Table
    BY <1>2, <1>7 DEF Table
  <2> QED
    BY <1>2, <1>4, <1>5, <1>6, <2>1, NoRequestType
    DEF Inv, TypeInv, FitsIn, Unsent
<1>8. CASE run.own = <<>>
  <2>1. Table' = chunk' /\ Table = chunk
    BY <1>2, <1>8 DEF Table
  <2>2. /\ run.mem \in [DOMAIN run.mem -> Memories]
        /\ DOMAIN run.mem \subseteq DOMAIN chunk
        /\ run.long \subseteq DOMAIN run.mem
        /\ \A k \in DOMAIN run.work : run.work[k].ids \subseteq DOMAIN run.mem
    BY <2>1 DEF Inv, FitsIn, Session
  <2>3. FitsIn(run', Table')
    BY <1>2, <1>6, <2>1, <2>2 DEF FitsIn, Session
  <2>4. Unsent(run', Table')
    BY <1>2, <1>6, <2>1, <2>2 DEF Inv, Unsent
  <2> QED
    BY <1>2, <1>4, <1>5, <1>6, <2>3, <2>4, NoRequestType DEF Inv, TypeInv
<1> QED
  BY <1>7, <1>8

LEMMA DeadlockKeeps ==
  ASSUME Inv, Deadlock
  PROVE  Inv'
<1>1. run \in Tasks /\ run.pc # "idle"
  BY DEF Inv, TypeInv, Deadlock, TaskWaits
<1>2. chunk' = chunk /\ Text(chunk)
  BY DEF Deadlock, Inv
<1>3. CASE run' = Raised /\ UNCHANGED api
  <2>1. FitsIn(run', Table') /\ Unsent(run', Table')
    BY <1>1, <1>2, <1>3, RaisedType, TaskRestarts
  <2>2. TypeInv'
    BY <1>1, <1>3, RaisedType DEF Deadlock, Inv, TypeInv
  <2> QED
    BY <1>2, <2>1, <2>2 DEF Inv
<1>4. CASE api' = NoRequest /\ UNCHANGED run
  <2>1. Text(chunk') /\ FitsIn(run', Table') /\ Unsent(run', Table')
    BY <1>2, <1>4, TaskUntouched
  <2>2. TypeInv'
    BY <1>4, NoRequestType DEF Deadlock, Inv, TypeInv
  <2> QED
    BY <2>1, <2>2 DEF Inv
<1> QED
  BY <1>3, <1>4 DEF Deadlock

LEMMA InvKept == Inv /\ [Next]_vars => Inv'
<1> SUFFICES ASSUME Inv, [Next]_vars PROVE Inv'
  OBVIOUS
<1>1. CASE Claim
  BY <1>1, ClaimKeeps
<1>2. CASE Skip \/ Start \/ Check \/ Load \/ Reload \/ Touch
  BY <1>2, SkipKeeps, StartKeeps, CheckKeeps, LoadKeeps, ReloadKeeps, TouchKeeps
<1>3. CASE CommitBatch \/ Finalize \/ Commit \/ HandlerRaises \/ FailJob
  BY <1>3, CommitBatchKeeps, FinalizeKeeps, CommitKeeps, HandlerRaisesKeeps,
     FailJobKeeps
<1>4. CASE \E c \in run.long : SplitLong(c)
  BY <1>4, SplitLongKeeps
<1>5. CASE \E answer \in Answers : Call(answer)
  BY <1>5, IsolationKeeps, SettlingKeeps
<1>6. CASE Crash
  BY <1>6, CrashKeeps
<1>7. CASE Request
  BY <1>7, ReprocessLoadKeeps, ReprocessLockKeeps, ReprocessCommitKeeps
  DEF Request
<1>8. CASE Deadlock
  BY <1>8, DeadlockKeeps
<1>9. CASE \E j \in Jobs : CancelJob(j)
  BY <1>9, CancelJobKeeps
<1>10. CASE UNCHANGED vars
  <2>1. UNCHANGED <<run, chunk>>
    BY <1>10 DEF vars
  <2>2. Text(chunk') /\ FitsIn(run', Table') /\ Unsent(run', Table')
    BY <2>1, TaskUntouched
  <2>3. TypeInv'
    BY <1>10 DEF vars, Inv, TypeInv
  <2> QED
    BY <2>2, <2>3 DEF Inv
<1> QED
  BY <1>1, <1>2, <1>3, <1>4, <1>5, <1>6, <1>7, <1>8, <1>9, <1>10
  DEF Next, Task

\* The inductive invariant: types, the text and what is still to be sent.
THEOREM EmbeddingInvariant == Spec => []Inv
  BY InitHolds, InvKept, PTL DEF Spec

\* Every reachable state is of the right type, and a task works with chunks
\* it has loaded.
THEOREM EmbeddingTypeCorrect == Spec => []TypeOK
<1>1. Inv => TypeOK
  <2> SUFFICES ASSUME Inv PROVE TypeOK
    OBVIOUS
  <2>1. /\ run.pc \in TaskPcs /\ run.job \in Jobs \cup {0}
        /\ run.doc \in DocColumns /\ run.columns \subseteq Columns
        /\ run.own \in Seq(ChunkRow) /\ run.work \in Seq(Slices)
        /\ run.exit \in {"none", "cancelled", "continued", "skipped"}
    BY DEF Inv, TypeInv, Tasks
  <2>2. /\ api.stage \in {"none", "loaded", "jobs", "chunks"}
        /\ api.columns \subseteq Columns /\ api.jobs \subseteq Jobs
    BY DEF Inv, TypeInv, Requests
  <2>3. chunk \in Seq(ChunkRow)
    BY DEF Inv, Text
  <2> QED
    BY <2>1, <2>2, <2>3 DEF Inv, TypeInv, FitsIn, TypeOK, TaskPcs
<1> QED
  BY <1>1, EmbeddingInvariant, PTL

\* The chunks are the document's text, whatever _split_single_chunk cuts and
\* whichever transactions are lost.
THEOREM ChunksAreTheTextSafe == Spec => []ChunksAreTheText
<1>1. Inv => ChunksAreTheText
  <2> SUFFICES ASSUME Inv PROVE ChunksAreTheText
    OBVIOUS
  <2>1. Tiles(chunk)
    BY DEF Inv, Text
  <2>2. UNION {chunk[c].first..chunk[c].last : c \in DOMAIN chunk}
          = 1..TextLength
    BY <2>1 DEF Tiles
  <2> QED
    BY <2>1, <2>2 DEF Tiles, Apart, ChunksAreTheText
<1> QED
  BY <1>1, EmbeddingInvariant, PTL

\* _embed_batch_with_isolation sends no chunk again that is embedded, however
\* it has cut its batch and however often the document's job has been run.
THEOREM NothingIsSentTwiceSafe == Spec => []NothingIsSentTwice
<1>1. Inv => NothingIsSentTwice
  BY DEF Inv, Unsent, NothingIsSentTwice
<1> QED
  BY <1>1, EmbeddingInvariant, PTL

----------------------------------------------------------------------------
(* Chunks that wait have a job.                                            *)

\* There is room for a new job: what is open, what a request names and the
\* requests still to come do not exhaust the identifiers.
PresentIn(rows) == {j \in Jobs : rows[j].status # "absent"}

Asked == left.request + (IF api.stage = "none" THEN 0 ELSE 1)

Room ==
  /\ Cardinality(PresentIn(job)) + Asked <= MaxRequests + 1
  /\ api.stage = "none" => api.jobs = {}
  /\ api.stage # "none" => Cardinality(api.jobs) + left.request <= MaxRequests

\* A task's row is its own until somebody cancels it; if it was cancelled, by
\* a user or by a request that leaves a job of its own, the task may end
\* without having done the work.
OpenIn(rows, jobs) == \E j \in jobs : rows[j].status \in OpenStatuses

OtherWork == excuse \/ OpenIn(job, Jobs \ {run.job})
Covered == excuse \/ OpenIn(job, Jobs)

TaskHasWork ==
  /\ run.pc = "idle" => run.job = 0
  /\ run.pc # "idle" =>
       /\ job[run.job].status \in {"running", "cancelled"}
       /\ job[run.job].status = "cancelled" => OtherWork
       /\ run.exit = "cancelled" => OtherWork
       /\ run.pc \in {"finalize", "commit"} /\ run.exit = "none" =>
            OtherWork \/ Having(Table, Unsettled) = {}

WaitingHasWork ==
  excuse \/ Having(chunk, Unsettled) = {} \/ OpenIn(job, Jobs)

WorkInv == Room /\ TaskHasWork /\ WaitingHasWork

LEMMA JobsFinite ==
  ASSUME NEW S, S \subseteq Jobs
  PROVE  /\ IsFiniteSet(S) /\ Cardinality(S) \in Nat
         /\ Cardinality(S) <= 2 * MaxRequests + 1
         /\ MaxRequests \in Nat /\ Cardinality(Jobs) = 2 * MaxRequests + 1
<1>1. MaxRequests \in Nat
  BY BoundsAssumption
<1>2. IsFiniteSet(Jobs) /\ Cardinality(Jobs) = 2 * MaxRequests + 1
  <2> DEFINE n == 2 * MaxRequests + 1
  <2>1. n \in Nat /\ n >= 1
    BY <1>1
  <2>2. Jobs = 1..n
    BY DEF Jobs
  <2> HIDE DEF n
  <2>3. IsFiniteSet(1..n) /\ Cardinality(1..n) = n
    BY <2>1, FS_Interval
  <2> QED
    BY <2>2, <2>3 DEF n
<1>3. IsFiniteSet(S) /\ Cardinality(S) <= Cardinality(Jobs)
  BY <1>2, FS_Subset
<1>4. Cardinality(S) \in Nat
  BY <1>3, FS_CardinalityType
<1> QED
  BY <1>1, <1>2, <1>3, <1>4

\* While the identifiers are not exhausted, a new job gets one that is free.
LEMMA EnqueuedRow ==
  ASSUME TypeInv, NEW rows \in [Jobs -> Row({1})],
         Cardinality(PresentIn(rows)) + Cardinality(api.jobs)
           <= 2 * MaxRequests
  PROVE  \E j \in Jobs : /\ rows[j].status = "absent"
                         /\ Enqueued(rows) = [rows EXCEPT ![j] = NewJob]
<1> DEFINE P == PresentIn(rows)
           A == api.jobs
<1>1. P \subseteq Jobs /\ A \subseteq Jobs
  BY DEF PresentIn, TypeInv, Requests
<1>2. IsFiniteSet(P) /\ IsFiniteSet(A) /\ Cardinality(P) \in Nat
      /\ Cardinality(A) \in Nat /\ MaxRequests \in Nat
      /\ Cardinality(Jobs) = 2 * MaxRequests + 1
  BY <1>1, JobsFinite
<1>3. Free(rows) = Jobs \ (P \cup A)
  BY DEF Free, PresentIn
<1> HIDE DEF P, A
<1>4. IsFiniteSet(P \cup A) /\ Cardinality(P \cup A) <= 2 * MaxRequests
  <2>1. Cardinality(P \cup A) =
          Cardinality(P) + Cardinality(A) - Cardinality(P \cap A)
        /\ IsFiniteSet(P \cup A)
    BY <1>2, FS_Union
  <2>2. Cardinality(P \cap A) \in Nat
    BY <1>2, FS_Intersection, FS_CardinalityType
  <2> QED
    BY <1>2, <2>1, <2>2 DEF P, A
<1>5. Free(rows) # {}
  <2>1. SUFFICES ASSUME Jobs \subseteq P \cup A PROVE FALSE
    BY <1>3
  <2>2. Cardinality(Jobs) <= Cardinality(P \cup A)
    BY <1>4, <2>1, FS_Subset
  <2>3. Cardinality(P \cup A) \in Nat
    BY <1>4, FS_CardinalityType
  <2> QED
    BY <1>2, <1>4, <2>2, <2>3
<1>6. Free(rows) \subseteq Nat /\ Free(rows) \subseteq Jobs
  BY <1>2 DEF Free, Jobs
<1>7. \E j \in Free(rows) : \A k \in Free(rows) : j <= k
  BY <1>5, <1>6, LeastElement
<1> DEFINE first == CHOOSE j \in Free(rows) : \A k \in Free(rows) : j <= k
<1>8. first \in Free(rows)
  BY <1>7
<1>9. Enqueued(rows) = [rows EXCEPT ![first] = NewJob]
  BY DEF Enqueued
<1> HIDE DEF first
<1> QED
  BY <1>6, <1>8, <1>9 DEF Free

LEMMA RowStatuses ==
  ASSUME NEW row \in Row({1})
  PROVE  /\ ClaimRow(row).status = "running"
         /\ RequeueRow(row).status = "queued"
         /\ TouchRow(row).status = row.status
         /\ CompleteRow([row EXCEPT !.status = "running"]).status = "completed"
         /\ FailRow(row, FALSE).status \in {"queued", "failed"}
         /\ row.status \in OpenStatuses => CancelRow(row).status = "cancelled"
         /\ Retire(row).status =
              IF row.status \in OpenStatuses THEN row.status ELSE "absent"
<1>1. ClaimRow(row).status = "running" /\ RequeueRow(row).status = "queued"
      /\ TouchRow(row).status = row.status
  BY RowStatus
<1>2. CompleteRow([row EXCEPT !.status = "running"]).status = "completed"
  <2> DEFINE r == [row EXCEPT !.status = "running"]
  <2>1. r \in Row({1}) /\ r.status = "running"
    BY DEF Row, JobStatus
  <2> HIDE DEF r
  <2>2. CompleteRow(r).status = "completed"
    BY <2>1 DEF CompleteRow, Row
  <2> QED
    BY <2>2 DEF r
<1>3. FailRow(row, FALSE).status \in {"queued", "failed"}
  BY DEF FailRow, Row
<1>4. row.status \in OpenStatuses => CancelRow(row).status = "cancelled"
  BY DEF CancelRow, OpenStatuses, Row
<1>5. Retire(row).status =
              IF row.status \in OpenStatuses THEN row.status ELSE "absent"
  BY NewRowType DEF Retire
<1> QED
  BY <1>1, <1>2, <1>3, <1>4, <1>5

\* The first of some chunks is among the first n.
LEMMA FirstIsThere ==
  ASSUME NEW T, Text(T), NEW ids, ids \subseteq DOMAIN T, ids # {},
         NEW n \in Nat \ {0}
  PROVE  FirstOf(T, ids, n) # {}
<1> DEFINE indexes == {T[c].index : c \in ids}
<1>1. \A c \in ids : T[c].index \in Nat
  BY ChunkOfText
<1>2. indexes \subseteq Nat /\ indexes # {}
  BY <1>1
<1> HIDE DEF indexes
<1>3. PICK m \in indexes : \A k \in indexes : m <= k
  BY <1>2, LeastElement
<1>4. PICK c \in ids : T[c].index = m
  BY <1>3 DEF indexes
<1>5. {d \in ids : T[d].index < T[c].index} = {}
  <2>1. ASSUME NEW d \in ids PROVE ~(T[d].index < T[c].index)
    <3>1. T[d].index \in indexes /\ T[d].index \in Nat /\ m \in Nat
      BY <1>1, <1>2, <1>3 DEF indexes
    <3> QED
      BY <1>3, <1>4, <3>1
  <2> QED
    BY <2>1
<1>6. Cardinality({d \in ids : T[d].index < T[c].index}) = 0
  BY <1>5, FS_EmptySet
<1>7. c \in FirstOf(T, ids, n)
  BY <1>6 DEF FirstOf
<1> QED
  BY <1>7

\* An empty batch means that nothing waits.
LEMMA EmptyBatch ==
  ASSUME NEW T, Text(T), PendingBatch(T) = {}
  PROVE  Having(T, Unsettled) = {}
<1> DEFINE ids == Having(T, Unsettled)
<1>1. PendingBatch(T) = FirstOf(T, ids, BatchSize) /\ ids \subseteq DOMAIN T
  BY DEF PendingBatch, Having
<1>2. BatchSize \in Nat \ {0}
  BY CapabilitiesAssumption
<1> HIDE DEF ids
<1>3. ids = {}
  BY <1>1, <1>2, FirstIsThere
<1> QED
  BY <1>3 DEF ids

\* What is there is there, and so is what is asked for, if jobs only end.
LEMMA RoomKept ==
  ASSUME TypeInv, TypeInv', Room,
         PresentIn(job') \subseteq PresentIn(job),
         left'.request = left.request, api'.jobs = api.jobs,
         (api.stage = "none") <=> (api'.stage = "none")
  PROVE  Room'
<1> DEFINE P == PresentIn(job)
           Q == PresentIn(job')
<1>1. P \subseteq Jobs /\ Q \subseteq Jobs /\ left.request \in Nat
  BY DEF PresentIn, TypeInv
<1>2. IsFiniteSet(P) /\ Cardinality(P) \in Nat /\ Cardinality(Q) \in Nat
      /\ MaxRequests \in Nat
  BY <1>1, JobsFinite
<1>3. Cardinality(Q) <= Cardinality(P)
  BY <1>2, FS_Subset
<1>4. Asked' = Asked /\ Asked \in Nat
  BY <1>1 DEF Asked
<1>5. Cardinality(P) + Asked <= MaxRequests + 1
  BY DEF Room
<1> HIDE DEF P, Q
<1>6. Cardinality(Q) + Asked' <= MaxRequests + 1
  BY <1>2, <1>3, <1>4, <1>5
<1>7. PresentIn(job)' = Q
  BY DEF Q, PresentIn
<1> QED
  BY <1>6, <1>7 DEF Room

\* A step of a task that leaves the jobs, the chunks and the requests alone.
LEMMA WorkKept ==
  ASSUME TypeInv, TypeInv', WorkInv,
         \A j \in Jobs : job'[j].status = job[j].status,
         UNCHANGED <<chunk, api, excuse>>, left'.request = left.request,
         run'.job = run.job, run.pc # "idle", run'.pc # "idle",
         run'.exit = "cancelled" =>
           run.exit = "cancelled" \/ job[run.job].status = "cancelled",
         run'.pc \in {"finalize", "commit"} /\ run'.exit = "none" =>
           /\ Table' = Table
           /\ \/ run.pc \in {"finalize", "commit"} /\ run.exit = "none"
              \/ Having(Table, Unsettled) = {}
  PROVE  WorkInv'
<1>1. Room'
  <2>1. PresentIn(job') \subseteq PresentIn(job)
    BY DEF PresentIn
  <2> QED
    BY <2>1, RoomKept DEF WorkInv
<1>2. run.job \in Jobs
  BY DEF TypeInv
<1>3. OtherWork' <=> OtherWork
  BY DEF OtherWork, OpenIn
<1>4. TaskHasWork'
  BY <1>2, <1>3 DEF WorkInv, TaskHasWork
<1>5. WaitingHasWork'
  BY DEF WorkInv, WaitingHasWork, OpenIn
<1> QED
  BY <1>1, <1>4, <1>5 DEF WorkInv

LEMMA InitWork == Init => WorkInv
<1> SUFFICES ASSUME Init PROVE WorkInv
  OBVIOUS
<1>1. MaxRequests \in Nat /\ 1 \in Jobs
  BY BoundsAssumption DEF Jobs
<1>2. \A j \in Jobs : job[j] = IF j = 1 THEN NewJob ELSE NoRow
  BY DEF Init
<1>3. PresentIn(job) = {1}
  BY <1>1, <1>2, NewRowType DEF PresentIn
<1>4. Asked = MaxRequests
  BY <1>1 DEF Init, Asked, NoRequest
<1>5. Room
  <2>1. Cardinality({1}) = 1
    BY FS_Singleton
  <2>2. api.stage = "none" /\ api.jobs = {}
    BY DEF Init, NoRequest
  <2> QED
    BY <1>1, <1>3, <1>4, <2>1, <2>2 DEF Room
<1>6. TaskHasWork
  BY DEF Init, Idle, TaskHasWork
<1>7. WaitingHasWork
  BY <1>1, <1>2, NewRowType DEF WaitingHasWork, OpenIn, OpenStatuses
<1> QED
  BY <1>5, <1>6, <1>7 DEF WorkInv

\* The steps of a task before it commits.
LEMMA TaskKeepsWork ==
  ASSUME Inv, Inv', WorkInv,
         \/ Skip \/ Start \/ Check \/ Load \/ Reload \/ Touch
         \/ Finalize \/ HandlerRaises
         \/ \E c \in run.long : SplitLong(c)
         \/ \E answer \in Answers : Call(answer)
  PROVE  WorkInv'
<1>1. TypeInv /\ TypeInv' /\ run \in Tasks /\ left \in [{"request", "trouble"} -> Nat]
  BY DEF Inv, TypeInv
<1>2. CASE Skip
  <2>1. /\ run' = [run EXCEPT !.pc = "commit", !.exit = "skipped"]
        /\ left' = [left EXCEPT !["trouble"] = @ - 1]
        /\ run.pc = "start" /\ UNCHANGED <<chunk, job, api, excuse>>
    BY <1>2 DEF Skip, Trouble, Spend
  <2>2. run'.job = run.job /\ run'.exit = "skipped" /\ run'.pc = "commit"
        /\ left'.request = left.request
    BY <1>1, <2>1 DEF Tasks
  <2> QED
    BY <1>1, <2>1, <2>2, WorkKept
<1>3. CASE Start
  <2> DEFINE r == [run EXCEPT !.doc = doc]
             f == Flushed(r, Refreshed([doc EXCEPT !.started = TRUE], chunk))
  <2>1. /\ run' = [f EXCEPT !.pc = "check", !.active = active]
        /\ run.pc = "start" /\ UNCHANGED <<chunk, job, api, excuse, left>>
    BY <1>3 DEF Start
  <2>2. run'.job = run.job /\ run'.exit = run.exit /\ run'.pc = "check"
    BY <1>1, <2>1 DEF Tasks, Flushed
  <2> QED
    BY <1>1, <2>1, <2>2, WorkKept
<1>4. CASE Check
  <2>1. run.pc = "check" /\ UNCHANGED <<chunk, job, api, excuse, left>>
    BY <1>4 DEF Check
  <2>2. CASE run' = [run EXCEPT !.pc = "finalize", !.exit = "cancelled"]
             /\ job[run.job].status = "cancelled"
    <3>1. run'.job = run.job /\ run'.exit = "cancelled"
          /\ run'.pc = "finalize"
      BY <1>1, <2>2 DEF Tasks
    <3> QED
      BY <1>1, <2>1, <2>2, <3>1, WorkKept
  <2>3. CASE run' = [run EXCEPT !.pc = "load"]
    <3>1. run'.job = run.job /\ run'.exit = run.exit /\ run'.pc = "load"
      BY <1>1, <2>3 DEF Tasks
    <3> QED
      BY <1>1, <2>1, <3>1, WorkKept
  <2>4. CASE run' = [run EXCEPT !.pc = "finalize",
                  !.exit = IF Continues(Table) THEN "continued" ELSE "none"]
    <3> DEFINE exit == IF Continues(Table) THEN "continued" ELSE "none"
    <3>1. exit = "continued" \/ (exit = "none" /\ ~Continues(Table))
      BY DEF Continues
    <3> HIDE DEF exit
    <3>2. run' = [run EXCEPT !.pc = "finalize", !.exit = exit]
      BY <2>4 DEF exit
    <3>3. run'.job = run.job /\ run'.exit = exit /\ run'.own = run.own
          /\ run'.pc = "finalize"
      BY <1>1, <3>2 DEF Tasks
    <3>4. Table' = Table
      BY <2>1, <3>3 DEF Table
    <3>5. Text(Table)
      BY DEF Inv, FitsIn, Session
    <3>6. ~Continues(Table) => Having(Table, Unsettled) = {}
      <4>1. IsFiniteSet(Having(Table, Unsettled))
            /\ Count(Table, Unsettled) \in Nat
        BY <3>5, CountType
      <4> QED
        BY <4>1, FS_EmptySet DEF Continues, Count
    <3> QED
      BY <1>1, <2>1, <3>1, <3>3, <3>4, <3>6, WorkKept
  <2> QED
    BY <1>4, <2>2, <2>3, <2>4 DEF Check
<1>5. CASE Load
  <2> DEFINE batch == PendingBatch(Table)
  <2>1. run.pc = "load" /\ UNCHANGED <<chunk, job, api, excuse, left>>
    BY <1>5 DEF Load
  <2>2. /\ run'.job = run.job /\ run'.exit = run.exit /\ run'.own = run.own
        /\ run'.pc \in {"finalize", "touch", "split"}
        /\ run'.pc = "finalize" => batch = {}
    BY <1>1, <1>5 DEF Load, Tasks
  <2>3. Table' = Table
    BY <2>1, <2>2 DEF Table
  <2>4. run'.pc = "finalize" => Having(Table, Unsettled) = {}
    BY <2>2, EmptyBatch DEF Inv, FitsIn, Session
  <2> QED
    BY <1>1, <2>1, <2>2, <2>3, <2>4, WorkKept
<1>6. CASE Reload
  <2>1. run.pc = "split" /\ UNCHANGED <<chunk, job, api, excuse, left>>
    BY <1>6 DEF Reload
  <2>2. /\ run'.job = run.job /\ run'.exit = run.exit
        /\ run'.pc \in {"check", "touch"}
    BY <1>1, <1>6 DEF Reload, Tasks
  <2> QED
    BY <1>1, <2>1, <2>2, WorkKept
<1>7. CASE Touch
  <2>1. /\ run.pc = "touch" /\ UNCHANGED <<chunk, api, excuse, left>>
        /\ run' = [run EXCEPT !.pc = "call"]
        /\ job' = [job EXCEPT ![run.job] = TouchRow(@)]
    BY <1>7 DEF Touch
  <2>2. run'.job = run.job /\ run'.exit = run.exit /\ run'.pc = "call"
    BY <1>1, <2>1 DEF Tasks
  <2>3. job \in [Jobs -> Row({1})]
    BY <1>1 DEF TypeInv
  <2>4. ASSUME NEW j \in Jobs PROVE job'[j].status = job[j].status
    <3>1. job[j] \in Row({1})
      BY <2>3
    <3>2. TouchRow(job[j]).status = job[j].status
      BY <3>1, RowStatuses
    <3>3. job'[j] = IF j = run.job THEN TouchRow(job[j]) ELSE job[j]
      BY <2>1, <2>3
    <3> QED
      BY <3>2, <3>3
  <2> QED
    BY <1>1, <2>1, <2>2, <2>4, WorkKept
<1>8. CASE Finalize
  <2>1. run.pc = "finalize" /\ UNCHANGED <<chunk, job, api, excuse, left>>
    BY <1>8 DEF Finalize
  <2>2. run'.job = run.job /\ run'.exit = run.exit /\ run'.own = run.own
        /\ run'.pc = "commit"
    BY <1>1, <1>8 DEF Finalize, Flushed, Tasks
  <2>3. Table' = Table
    BY <2>1, <2>2 DEF Table
  <2> QED
    BY <1>1, <2>1, <2>2, <2>3, WorkKept
<1>9. CASE HandlerRaises
  <2>1. /\ run' = Raised /\ run.pc # "idle" /\ UNCHANGED <<chunk, job, api, excuse>>
        /\ left' = [left EXCEPT !["trouble"] = @ - 1]
    BY <1>9 DEF HandlerRaises, Trouble, Spend
  <2>2. run'.job = run.job /\ run'.exit = "none" /\ run'.pc = "failed"
        /\ left'.request = left.request
    BY <1>1, <2>1 DEF Raised, Idle
  <2> QED
    BY <1>1, <2>1, <2>2, WorkKept
<1>10. CASE \E c \in run.long : SplitLong(c)
  <2>1. run.pc = "split" /\ UNCHANGED <<chunk, job, api, excuse, left>>
    BY <1>10 DEF SplitLong
  <2>2. /\ run'.job = run.job /\ run'.exit = run.exit /\ run'.pc = "split"
    BY <1>1, <1>10, <2>1 DEF SplitLong, Flushed, Tasks
  <2> QED
    BY <1>1, <2>1, <2>2, WorkKept
<1>11. CASE \E answer \in Answers : Call(answer)
  <2>1. run.pc = "call" /\ UNCHANGED <<chunk, job, api, excuse, left>>
    BY <1>11 DEF Call
  <2>2. PICK answer \in Answers : Call(answer)
    BY <1>11
  <2>3. CASE Isolates(answer, Head(run.work))
    <3> DEFINE T == Claimed([table |-> Table, mem |-> run.mem],
                            Head(run.work).ids).table
               rest == Halves(Table, Head(run.work)) \o Tail(run.work)
    <3>1. run' = [run EXCEPT !.own = T, !.work = rest]
      BY <2>2, <2>3 DEF Call
    <3> HIDE DEF T, rest
    <3>2. /\ run'.job = run.job /\ run'.exit = run.exit /\ run'.pc = "call"
      BY <1>1, <2>1, <3>1 DEF Tasks
    <3> QED
      BY <1>1, <2>1, <3>2, WorkKept
  <2>4. CASE ~Isolates(answer, Head(run.work))
    <3> DEFINE slice == Head(run.work)
               s == [table |-> Table, mem |-> run.mem]
               a == Settled(Claimed(s, slice.ids), slice, answer)
               new == IF Len(a.table) > Len(Table)
                      THEN Refreshed(run.doc, a.table) ELSE run.doc
               f == Flushed(run, new)
               T == a.table
               M == a.mem
    <3>1. run' = [f EXCEPT !.own = T, !.mem = M, !.work = Tail(@),
                           !.dimension = @ \/ answer = "vectors"]
      BY <2>2, <2>4 DEF Call
    <3> HIDE DEF new, T, M
    <3>2. f.job = run.job /\ f.exit = run.exit /\ f.pc = run.pc
      BY <1>1 DEF Flushed, Tasks
    <3> HIDE DEF f
    <3>3. /\ run'.job = run.job /\ run'.exit = run.exit /\ run'.pc = "call"
      BY <2>1, <3>1, <3>2
    <3> QED
      BY <1>1, <2>1, <3>3, WorkKept
  <2> QED
    BY <2>3, <2>4
<1> QED
  BY <1>2, <1>3, <1>4, <1>5, <1>6, <1>7, <1>8, <1>9, <1>10, <1>11

\* The steps that write a job's row.
LEMMA ClaimKeepsWork ==
  ASSUME Inv, Inv', WorkInv, Claim
  PROVE  WorkInv'
<1>1. TypeInv /\ TypeInv' /\ job \in [Jobs -> Row({1})]
  BY DEF Inv, TypeInv
<1>2. PICK j \in Jobs : /\ job[j].status = "queued"
                        /\ job' = [job EXCEPT ![j] = ClaimRow(@)]
                        /\ run' = [Idle EXCEPT !.pc = "start", !.job = j]
  BY DEF Claim
<1>3. UNCHANGED <<chunk, doc, active, api, excuse, left>>
  BY DEF Claim
<1>4. /\ job'[j].status = "running"
      /\ \A k \in Jobs \ {j} : job'[k] = job[k]
  BY <1>1, <1>2, RowStatuses
<1>5. run'.job = j /\ run'.exit = "none" /\ run'.pc = "start"
  BY <1>2 DEF Idle
<1>6. PresentIn(job') \subseteq PresentIn(job)
  BY <1>2, <1>4 DEF PresentIn
<1>7. Room'
  BY <1>1, <1>3, <1>6, RoomKept DEF WorkInv
<1>8. TaskHasWork'
  BY <1>4, <1>5 DEF TaskHasWork
<1>9. WaitingHasWork'
  BY <1>4 DEF WaitingHasWork, OpenIn, OpenStatuses
<1> QED
  BY <1>7, <1>8, <1>9 DEF WorkInv

LEMMA CommitBatchKeepsWork ==
  ASSUME Inv, Inv', WorkInv, CommitBatch
  PROVE  WorkInv' /\ Covered'
<1>1. TypeInv /\ TypeInv' /\ run \in Tasks /\ run.job \in Jobs /\ run.pc = "call"
  BY DEF Inv, TypeInv, CommitBatch
<1>2. UNCHANGED <<active, job, api, excuse, left>>
  BY DEF CommitBatch
<1> DEFINE last == Flushed(run, Refreshed(run.doc, Table))
<1>3. run' = [last EXCEPT !.pc = "check", !.columns = {}, !.own = <<>>,
                          !.batches = @ + 1]
  BY DEF CommitBatch
<1>4. last.job = run.job /\ last.exit = run.exit
  BY <1>1 DEF Flushed, Tasks
<1> HIDE DEF last
<1>5. run'.job = run.job /\ run'.exit = run.exit /\ run'.pc = "check"
  <2>1. last \in Tasks
    <3>1. Text(Table) /\ run.doc \in DocColumns
      BY <1>1 DEF Inv, FitsIn, Session, Tasks
    <3>2. Refreshed(run.doc, Table) \in DocColumns
      BY <3>1, RefreshedType
    <3> QED
      BY <1>1, <3>2, FlushedType DEF last
  <2> QED
    BY <1>3, <1>4, <2>1 DEF Tasks
<1>6. Room'
  BY <1>1, <1>2, RoomKept DEF WorkInv
<1>7. OtherWork' <=> OtherWork
  BY <1>2, <1>5 DEF OtherWork, OpenIn
<1>8. TaskHasWork'
  BY <1>1, <1>2, <1>5, <1>7 DEF WorkInv, TaskHasWork
<1>9. Covered'
  <2>1. CASE job[run.job].status = "running"
    BY <1>1, <1>2, <2>1 DEF Covered, OpenIn, OpenStatuses
  <2>2. CASE job[run.job].status = "cancelled"
    <3>1. excuse \/ OpenIn(job, Jobs \ {run.job})
      BY <1>1, <2>2 DEF WorkInv, TaskHasWork, OtherWork
    <3> QED
      BY <1>2, <3>1 DEF Covered, OpenIn
  <2> QED
    BY <1>1, <2>1, <2>2 DEF WorkInv, TaskHasWork
<1> QED
  BY <1>6, <1>8, <1>9 DEF WorkInv, WaitingHasWork, Covered

LEMMA CommitKeepsWork ==
  ASSUME Inv, Inv', WorkInv, Commit
  PROVE  WorkInv' /\ (run.exit # "none" \/ OtherWork => Covered')
<1>1. TypeInv /\ TypeInv' /\ run \in Tasks /\ run.job \in Jobs
      /\ job \in [Jobs -> Row({1})] /\ run.pc = "commit"
      /\ left.request \in Nat
  BY DEF Inv, TypeInv, Commit
<1> DEFINE row == Retire(CompleteRow([job[run.job] EXCEPT !.status = "running"]))
           rows == [job EXCEPT ![run.job] = row]
<1>2. /\ chunk' = Table
      /\ job' = IF run.exit = "continued" THEN Enqueued(rows) ELSE rows
      /\ excuse' = (excuse \/ run.exit = "skipped")
      /\ run' = Idle /\ UNCHANGED <<api, left>>
  BY DEF Commit
<1>3. row \in Row({1}) /\ row.status = "absent"
  <2>1. [job[run.job] EXCEPT !.status = "running"] \in Row({1})
    BY <1>1 DEF Row, JobStatus
  <2>2. CompleteRow([job[run.job] EXCEPT !.status = "running"]) \in Row({1})
    BY <2>1, RowTypes
  <2>3. CompleteRow([job[run.job] EXCEPT !.status = "running"]).status
          = "completed"
    BY <1>1, RowStatuses
  <2> QED
    BY <1>1, <2>2, <2>3, RowsType, RowStatuses DEF OpenStatuses
<1> HIDE DEF row
<1>4. /\ rows \in [Jobs -> Row({1})] /\ rows[run.job].status = "absent"
      /\ \A j \in Jobs \ {run.job} : rows[j] = job[j]
  BY <1>1, <1>3
<1> HIDE DEF rows
<1> DEFINE P == PresentIn(job)
           Q == PresentIn(rows)
           A == api.jobs
<1>5. run.job \in P /\ Q = P \ {run.job}
  BY <1>1, <1>4 DEF PresentIn, WorkInv, TaskHasWork
<1>6. /\ IsFiniteSet(P) /\ Cardinality(P) \in Nat /\ Cardinality(Q) \in Nat
      /\ IsFiniteSet(Q) /\ Cardinality(A) \in Nat /\ MaxRequests \in Nat
  <2>1. P \subseteq Jobs /\ Q \subseteq Jobs /\ A \subseteq Jobs
    BY <1>1 DEF PresentIn, TypeInv, Requests
  <2> QED
    BY <2>1, JobsFinite
<1>7. Cardinality(Q) = Cardinality(P) - 1
  BY <1>5, <1>6, FS_RemoveElement
<1>8. Cardinality(P) + Asked <= MaxRequests + 1 /\ Asked \in Nat /\ Asked' = Asked
  BY <1>1, <1>2 DEF WorkInv, Room, Asked
<1>9. Cardinality(Q) + Cardinality(A) <= 2 * MaxRequests
  <2>1. CASE api.stage = "none"
    <3>1. Cardinality(A) = 0
      BY <2>1, FS_EmptySet DEF WorkInv, Room
    <3> HIDE DEF P, Q, A
    <3> QED
      BY <1>6, <1>7, <1>8, <3>1
  <2>2. CASE api.stage # "none"
    <3>1. Cardinality(A) + left.request <= MaxRequests
      BY <2>2 DEF WorkInv, Room
    <3> HIDE DEF P, Q, A
    <3> QED
      BY <1>1, <1>6, <1>7, <1>8, <3>1
  <2> QED
    BY <2>1, <2>2
<1>10. CASE run.exit = "continued"
  <2>1. PICK j \in Jobs : /\ rows[j].status = "absent"
                          /\ Enqueued(rows) = [rows EXCEPT ![j] = NewJob]
    BY <1>1, <1>4, <1>9, EnqueuedRow
  <2>2. /\ job'[j].status = "queued"
        /\ \A k \in Jobs \ {j} : job'[k] = rows[k]
    BY <1>2, <1>4, <1>10, <2>1, NewRowType
  <2>3. PresentIn(job') = Q \cup {j} /\ j \notin Q
    BY <2>1, <2>2 DEF PresentIn
  <2>4. Cardinality(PresentIn(job')) = Cardinality(P)
    <3>1. Cardinality(Q \cup {j}) = Cardinality(Q) + 1
      BY <1>6, <2>3, FS_AddElement
    <3> HIDE DEF P, Q
    <3> QED
      BY <1>6, <1>7, <2>3, <3>1
  <2>5. Room'
    BY <1>2, <1>8, <2>4 DEF WorkInv, Room, PresentIn
  <2>6. TaskHasWork'
    BY <1>2, IdleType DEF TaskHasWork
  <2>7. Covered'
    BY <2>2 DEF Covered, OpenIn, OpenStatuses
  <2> QED
    BY <2>5, <2>6, <2>7 DEF WorkInv, WaitingHasWork, Covered
<1>11. CASE run.exit # "continued"
  <2>1. job' = rows
    BY <1>2, <1>11
  <2>2. PresentIn(job') \subseteq PresentIn(job)
    BY <1>5, <2>1
  <2>3. Room'
    BY <1>1, <1>2, <2>2, RoomKept DEF WorkInv
  <2>4. TaskHasWork'
    BY <1>2, IdleType DEF TaskHasWork
  <2>5. run.exit # "none" \/ OtherWork => Covered'
    <3>1. CASE OtherWork
      BY <1>2, <1>4, <2>1, <3>1 DEF Covered, OtherWork, OpenIn
    <3>2. CASE run.exit = "skipped"
      BY <1>2, <3>2 DEF Covered
    <3>3. run.exit \in {"none", "cancelled", "continued", "skipped"}
      BY <1>1 DEF Tasks
    <3> QED
      BY <1>1, <1>11, <3>1, <3>2, <3>3 DEF WorkInv, TaskHasWork
  <2>6. WaitingHasWork'
    <3>1. CASE Having(Table, Unsettled) = {}
      BY <1>2, <3>1 DEF WaitingHasWork
    <3> QED
      BY <1>1, <2>5, <3>1 DEF WorkInv, TaskHasWork, WaitingHasWork, Covered
  <2> QED
    BY <2>3, <2>4, <2>5, <2>6 DEF WorkInv
<1> QED
  BY <1>10, <1>11

LEMMA FailJobKeepsWork ==
  ASSUME Inv, Inv', WorkInv, FailJob
  PROVE  WorkInv' /\ Covered'
<1>1. TypeInv /\ TypeInv' /\ run \in Tasks /\ run.job \in Jobs
      /\ job \in [Jobs -> Row({1})] /\ run.pc = "failed"
  BY DEF Inv, TypeInv, FailJob
<1> DEFINE row == FailRow(job[run.job], FALSE)
           kept == Retire(row)
<1>2. /\ job' = [job EXCEPT ![run.job] = kept]
      /\ excuse' = (excuse \/ row.status = "failed")
      /\ run' = Idle /\ UNCHANGED <<chunk, api, left>>
  BY DEF FailJob
<1>3. row \in Row({1}) /\ row.status \in {"queued", "failed"}
  BY <1>1, RowTypes, RowStatuses
<1> HIDE DEF row
<1>4. kept.status = IF row.status \in OpenStatuses THEN row.status ELSE "absent"
  BY <1>3, RowStatuses
<1> HIDE DEF kept
<1>5. /\ job'[run.job] = kept
      /\ \A k \in Jobs \ {run.job} : job'[k] = job[k]
  BY <1>1, <1>2
<1>6. PresentIn(job') \subseteq PresentIn(job)
  BY <1>1, <1>5 DEF PresentIn, WorkInv, TaskHasWork
<1>7. Room'
  BY <1>1, <1>2, <1>6, RoomKept DEF WorkInv
<1>8. TaskHasWork'
  BY <1>2, IdleType DEF TaskHasWork
<1>9. Covered'
  <2>1. CASE row.status = "queued"
    <3>1. job'[run.job].status \in OpenStatuses
      BY <1>4, <1>5, <2>1 DEF OpenStatuses
    <3> QED
      BY <1>1, <3>1 DEF Covered, OpenIn
  <2>2. CASE row.status = "failed"
    BY <1>2, <2>2 DEF Covered
  <2> QED
    BY <1>3, <2>1, <2>2
<1> QED
  BY <1>7, <1>8, <1>9 DEF WorkInv, WaitingHasWork, Covered

LEMMA CrashKeepsWork ==
  ASSUME Inv, Inv', WorkInv, Crash
  PROVE  WorkInv' /\ (Covered => Covered')
<1>1. TypeInv /\ TypeInv' /\ job \in [Jobs -> Row({1})]
      /\ left \in [{"request", "trouble"} -> Nat]
  BY DEF Inv, TypeInv
<1>2. /\ job' = [j \in Jobs |-> IF job[j].status = "running"
                                THEN RequeueRow(job[j]) ELSE Retire(job[j])]
      /\ left' = [left EXCEPT !["trouble"] = @ - 1]
      /\ run' = Idle /\ UNCHANGED <<chunk, api, excuse>>
  BY DEF Crash, Trouble, Spend
<1>3. ASSUME NEW j \in Jobs
      PROVE  job'[j].status = IF job[j].status \in OpenStatuses
                              THEN "queued" ELSE "absent"
  <2>1. CASE job[j].status = "running"
    <3>1. job'[j] = RequeueRow(job[j])
      BY <1>2, <2>1
    <3>2. job[j] \in Row({1})
      BY <1>1
    <3>3. RequeueRow(job[j]).status = "queued"
      BY <3>2, RowStatuses
    <3> QED
      BY <2>1, <3>1, <3>3 DEF OpenStatuses
  <2>2. CASE job[j].status # "running"
    <3>1. job'[j] = Retire(job[j])
      BY <1>2, <2>2
    <3>2. job[j] \in Row({1})
      BY <1>1
    <3>3. Retire(job[j]).status =
            IF job[j].status \in OpenStatuses THEN job[j].status ELSE "absent"
      BY <3>2, RowStatuses
    <3> QED
      BY <2>2, <3>1, <3>3 DEF OpenStatuses
  <2> QED
    BY <2>1, <2>2
<1>4. PresentIn(job') \subseteq PresentIn(job)
  BY <1>3 DEF PresentIn, OpenStatuses
<1>5. left'.request = left.request
  BY <1>1, <1>2
<1>6. Room'
  BY <1>1, <1>2, <1>4, <1>5, RoomKept DEF WorkInv
<1>7. TaskHasWork'
  BY <1>2, IdleType DEF TaskHasWork
<1>8. OpenIn(job, Jobs) => OpenIn(job', Jobs)
  BY <1>3 DEF OpenIn, OpenStatuses
<1>9. WaitingHasWork' /\ (Covered => Covered')
  BY <1>2, <1>8 DEF WorkInv, WaitingHasWork, Covered, OpenIn
<1> QED
  BY <1>6, <1>7, <1>9 DEF WorkInv

LEMMA CancelJobKeepsWork ==
  ASSUME Inv, Inv', WorkInv, NEW j \in Jobs, CancelJob(j)
  PROVE  WorkInv'
<1>1. TypeInv /\ TypeInv' /\ job \in [Jobs -> Row({1})]
      /\ left \in [{"request", "trouble"} -> Nat]
  BY DEF Inv, TypeInv
<1>2. /\ job[j].status \in OpenStatuses
      /\ job' = [job EXCEPT ![j] = CancelledRow(j)]
      /\ left' = [left EXCEPT !["trouble"] = @ - 1]
      /\ excuse' = TRUE /\ UNCHANGED <<chunk, run, api>>
  BY DEF CancelJob, Trouble, Spend
<1>3. /\ job'[j] = CancelledRow(j)
      /\ \A k \in Jobs \ {j} : job'[k] = job[k]
  BY <1>1, <1>2
<1>4. PresentIn(job') \subseteq PresentIn(job)
  BY <1>2, <1>3 DEF PresentIn, OpenStatuses
<1>5. left'.request = left.request
  BY <1>1, <1>2
<1>6. Room'
  BY <1>1, <1>2, <1>4, <1>5, RoomKept DEF WorkInv
<1>7. ASSUME run.job = j PROVE job'[j].status = "cancelled"
  <2>1. job'[j] = CancelRow(job[j])
    BY <1>3, <1>7 DEF CancelledRow
  <2>2. job[j] \in Row({1})
    BY <1>1
  <2>3. CancelRow(job[j]).status = "cancelled"
    BY <1>2, <2>2, RowStatuses
  <2> QED
    BY <2>1, <2>3
<1>8. OtherWork' /\ WaitingHasWork'
  BY <1>2 DEF OtherWork, WaitingHasWork
<1>9. run.pc # "idle" =>
        job'[run.job].status \in {"running", "cancelled"}
  BY <1>1, <1>3, <1>7 DEF WorkInv, TaskHasWork, TypeInv
<1>10. TaskHasWork'
  BY <1>2, <1>8, <1>9 DEF WorkInv, TaskHasWork
<1> QED
  BY <1>6, <1>8, <1>10 DEF WorkInv

\* A request to embed the document again: it counts as asked for until it
\* commits, and then there is a job of its own.
LEMMA ReprocessLoadKeepsWork ==
  ASSUME Inv, Inv', WorkInv, ReprocessLoad
  PROVE  WorkInv'
<1>1. TypeInv /\ TypeInv' /\ job \in [Jobs -> Row({1})]
      /\ left \in [{"request", "trouble"} -> Nat]
  BY DEF Inv, TypeInv
<1> DEFINE open == {j \in Jobs : job[j].status \in OpenStatuses}
           P == PresentIn(job)
<1>2. /\ left.request > 0 /\ left' = [left EXCEPT !["request"] = @ - 1]
      /\ api.stage = "none" /\ api'.stage = "loaded" /\ api'.jobs = open
      /\ UNCHANGED <<chunk, job, run, excuse>>
  BY DEF ReprocessLoad, Spend
<1>3. left'.request = left.request - 1 /\ left.request \in Nat
  BY <1>1, <1>2
<1>4. open \subseteq P /\ P \subseteq Jobs
  BY DEF PresentIn, OpenStatuses
<1>5. /\ IsFiniteSet(P) /\ Cardinality(P) \in Nat /\ Cardinality(open) \in Nat
      /\ MaxRequests \in Nat
  BY <1>4, JobsFinite
<1>6. Cardinality(open) <= Cardinality(P)
  BY <1>4, <1>5, FS_Subset
<1>7. Cardinality(P) + left.request <= MaxRequests + 1
  BY <1>2, <1>3 DEF WorkInv, Room, Asked
<1>8. Room'
  <2>1. Asked' = left.request
    BY <1>2, <1>3 DEF Asked
  <2>2. PresentIn(job)' = P
    BY <1>2 DEF PresentIn
  <2> HIDE DEF open, P
  <2>3. Cardinality(open) + left'.request <= MaxRequests
    BY <1>3, <1>5, <1>6, <1>7
  <2> QED
    BY <1>2, <1>7, <2>1, <2>2, <2>3 DEF Room
<1>9. OtherWork' <=> OtherWork
  BY <1>2 DEF OtherWork, OpenIn
<1>10. TaskHasWork'
  BY <1>2, <1>9 DEF WorkInv, TaskHasWork, Table
<1>11. WaitingHasWork'
  BY <1>2 DEF WorkInv, WaitingHasWork, OpenIn
<1> QED
  BY <1>8, <1>10, <1>11 DEF WorkInv

\* A step of a request, or its end, that leaves the tables and the task alone.
LEMMA RequestKeepsWork ==
  ASSUME TypeInv, TypeInv', WorkInv,
         UNCHANGED <<chunk, job, run, excuse, left>>,
         \/ api.stage # "none" /\ api'.stage # "none" /\ api'.jobs = api.jobs
         \/ api'.stage = "none" /\ api'.jobs = {}
  PROVE  WorkInv'
<1>1. Room'
  <2>1. PresentIn(job)' = PresentIn(job)
    BY DEF PresentIn
  <2>2. /\ Cardinality(PresentIn(job)) \in Nat /\ MaxRequests \in Nat
        /\ left.request \in Nat
    <3>1. PresentIn(job) \subseteq Jobs
      BY DEF PresentIn
    <3> QED
      BY <3>1, JobsFinite DEF TypeInv
  <2>3. Asked' \in Nat /\ Asked \in Nat /\ Asked' <= Asked
    BY <2>2 DEF Asked
  <2>4. Cardinality(PresentIn(job)) + Asked' <= MaxRequests + 1
    BY <2>2, <2>3 DEF WorkInv, Room
  <2> QED
    BY <2>1, <2>4 DEF WorkInv, Room
<1>2. OtherWork' <=> OtherWork
  BY DEF OtherWork, OpenIn
<1>3. TaskHasWork'
  BY <1>2 DEF WorkInv, TaskHasWork, Table
<1>4. WaitingHasWork'
  BY DEF WorkInv, WaitingHasWork, OpenIn
<1> QED
  BY <1>1, <1>3, <1>4 DEF WorkInv

LEMMA ReprocessLockKeepsWork ==
  ASSUME Inv, Inv', WorkInv, ReprocessLock
  PROVE  WorkInv'
<1>1. TypeInv /\ TypeInv' /\ api \in Requests
  BY DEF Inv, TypeInv
<1>2. /\ api.stage \in {"loaded", "jobs"}
      /\ api' = [api EXCEPT !.stage = IF @ = "loaded" THEN "jobs" ELSE "chunks"]
      /\ UNCHANGED <<chunk, job, run, excuse, left>>
  BY DEF ReprocessLock
<1>3. api.stage # "none" /\ api'.stage # "none" /\ api'.jobs = api.jobs
  BY <1>1, <1>2 DEF Requests
<1> QED
  BY <1>1, <1>2, <1>3, RequestKeepsWork

LEMMA ReprocessCommitKeepsWork ==
  ASSUME Inv, Inv', WorkInv, ReprocessCommit
  PROVE  WorkInv' /\ Covered' /\ (run.pc # "idle" => OtherWork')
<1>1. TypeInv /\ TypeInv' /\ job \in [Jobs -> Row({1})] /\ api \in Requests
      /\ left.request \in Nat
  BY DEF Inv, TypeInv
<1> DEFINE rows == [j \in Jobs |-> IF j \in api.jobs THEN CancelledRow(j)
                                   ELSE job[j]]
           P == PresentIn(job)
           Q == PresentIn(rows)
           A == api.jobs
<1>2. /\ api.stage = "chunks" /\ job' = Enqueued(rows)
      /\ excuse' = FALSE /\ api' = NoRequest /\ UNCHANGED <<run, left>>
  BY DEF ReprocessCommit
<1>3. rows \in [Jobs -> Row({1})]
  BY <1>1, CancelledType DEF TypeInv
<1>4. /\ \A j \in Jobs \ api.jobs : rows[j] = job[j]
      /\ \A j \in api.jobs : j \in Jobs /\ rows[j] = CancelledRow(j)
  BY <1>1 DEF Requests
<1> HIDE DEF rows
<1>5. ASSUME run.pc # "idle"
      PROVE  rows[run.job].status \in {"running", "cancelled"}
  <2>1. run.job \in Jobs /\ job[run.job].status \in {"running", "cancelled"}
    BY <1>1, <1>5 DEF TypeInv, WorkInv, TaskHasWork
  <2>2. CASE run.job \in api.jobs
    <3>1. rows[run.job] = CancelRow(job[run.job])
      BY <1>4, <2>2 DEF CancelledRow
    <3>2. job[run.job] \in Row({1})
      BY <1>1, <2>1
    <3>3. CancelRow(job[run.job]).status = "cancelled"
      BY <2>1, <3>2 DEF CancelRow, OpenStatuses, Row
    <3> QED
      BY <3>1, <3>3
  <2>3. CASE run.job \notin api.jobs
    BY <1>4, <2>1, <2>3
  <2> QED
    BY <2>2, <2>3
<1>6. Q \subseteq P /\ P \subseteq Jobs /\ A \subseteq Jobs
  <2>1. ASSUME NEW j \in Jobs, rows[j].status # "absent"
        PROVE  job[j].status # "absent"
    <3>1. CASE j \notin api.jobs
      BY <1>4, <2>1, <3>1
    <3>2. CASE j \in api.jobs
      <4>1. run.job = j
        BY <1>4, <2>1, <3>2, NewRowType DEF CancelledRow
      <4>2. run.pc # "idle"
        BY <4>1 DEF WorkInv, TaskHasWork, Jobs
      <4> QED
        BY <4>1, <4>2 DEF WorkInv, TaskHasWork
    <3> QED
      BY <3>1, <3>2
  <2> QED
    BY <1>1, <2>1 DEF PresentIn, Requests
<1>7. /\ IsFiniteSet(P) /\ IsFiniteSet(Q) /\ Cardinality(P) \in Nat
      /\ Cardinality(Q) \in Nat /\ Cardinality(A) \in Nat /\ MaxRequests \in Nat
  <2>1. Q \subseteq Jobs
    BY <1>6
  <2> QED
    BY <1>6, <2>1, JobsFinite
<1>8. Cardinality(Q) <= Cardinality(P)
  BY <1>6, <1>7, FS_Subset
<1>9. /\ Cardinality(P) + left.request + 1 <= MaxRequests + 1
      /\ Cardinality(A) + left.request <= MaxRequests
  <2>1. Asked = left.request + 1
    BY <1>2 DEF Asked
  <2>2. Cardinality(P) + (left.request + 1) <= MaxRequests + 1
    BY <2>1 DEF WorkInv, Room
  <2>3. Cardinality(A) + left.request <= MaxRequests
    BY <1>2 DEF WorkInv, Room
  <2> HIDE DEF P, A
  <2> QED
    BY <1>1, <1>7, <2>2, <2>3
<1>10. /\ Cardinality(Q) + Cardinality(A) <= 2 * MaxRequests
       /\ Cardinality(Q) + 1 + left.request <= MaxRequests + 1
  <2> HIDE DEF P, Q, A
  <2> QED
    BY <1>1, <1>7, <1>8, <1>9
<1>11. PICK j \in Jobs : /\ rows[j].status = "absent"
                         /\ Enqueued(rows) = [rows EXCEPT ![j] = NewJob]
  BY <1>1, <1>3, <1>10, EnqueuedRow
<1>12. /\ job'[j].status = "queued"
       /\ \A k \in Jobs \ {j} : job'[k] = rows[k]
  BY <1>2, <1>3, <1>11, NewRowType
<1>13. PresentIn(job') = Q \cup {j} /\ j \notin Q
  BY <1>11, <1>12 DEF PresentIn
<1>14. Room'
  <2>1. Cardinality(PresentIn(job')) = Cardinality(Q) + 1
    BY <1>7, <1>13, FS_AddElement
  <2>2. PresentIn(job)' = PresentIn(job')
    BY DEF PresentIn
  <2>3. Asked' = left.request /\ api'.stage = "none" /\ api'.jobs = {}
    BY <1>1, <1>2 DEF Asked, NoRequest
  <2>4. Cardinality(PresentIn(job')) + Asked' <= MaxRequests + 1
    BY <1>10, <2>1, <2>3
  <2> QED
    BY <2>2, <2>3, <2>4 DEF Room
<1>15. ASSUME run.pc # "idle"
       PROVE  /\ OtherWork'
              /\ job'[run.job].status \in {"running", "cancelled"}
  <2>1. run.job \in Jobs /\ run.job # j
    BY <1>1, <1>5, <1>11, <1>15 DEF TypeInv
  <2> QED
    BY <1>2, <1>5, <1>12, <1>15, <2>1 DEF OtherWork, OpenIn, OpenStatuses
<1>16. TaskHasWork'
  BY <1>2, <1>15 DEF WorkInv, TaskHasWork
<1>17. Covered'
  BY <1>12 DEF Covered, OpenIn, OpenStatuses
<1> QED
  BY <1>14, <1>15, <1>16, <1>17 DEF WorkInv, WaitingHasWork, Covered

LEMMA DeadlockKeepsWork ==
  ASSUME Inv, Inv', WorkInv, Deadlock
  PROVE  WorkInv'
<1>1. TypeInv /\ TypeInv' /\ UNCHANGED <<chunk, job, excuse, left>>
  BY DEF Inv, TypeInv, Deadlock
<1>2. CASE run' = Raised /\ UNCHANGED api
  <2>1. run'.job = run.job /\ run'.exit = "none" /\ run'.pc = "failed"
    BY <1>2 DEF Raised, Idle
  <2>2. run.pc # "idle"
    BY DEF Deadlock, TaskWaits
  <2> QED
    BY <1>1, <1>2, <2>1, <2>2, WorkKept
<1>3. CASE api' = NoRequest /\ UNCHANGED run
  <2>1. api'.stage = "none" /\ api'.jobs = {}
    BY <1>3 DEF NoRequest
  <2> QED
    BY <1>1, <1>3, <2>1, RequestKeepsWork
<1> QED
  BY <1>2, <1>3 DEF Deadlock

LEMMA WorkKeptByNext == Inv /\ Inv' /\ WorkInv /\ [Next]_vars => WorkInv'
<1> SUFFICES ASSUME Inv, Inv', WorkInv, [Next]_vars PROVE WorkInv'
  OBVIOUS
<1>1. CASE Claim
  BY <1>1, ClaimKeepsWork
<1>2. CASE Task
  <2>1. CASE CommitBatch
    BY <2>1, CommitBatchKeepsWork
  <2>2. CASE Commit
    BY <2>2, CommitKeepsWork
  <2>3. CASE FailJob
    BY <2>3, FailJobKeepsWork
  <2>4. CASE \/ Skip \/ Start \/ Check \/ Load \/ Reload \/ Touch
             \/ Finalize \/ HandlerRaises
             \/ \E c \in run.long : SplitLong(c)
             \/ \E answer \in Answers : Call(answer)
    BY <2>4, TaskKeepsWork
  <2> QED
    BY <1>2, <2>1, <2>2, <2>3, <2>4 DEF Task
<1>3. CASE Crash
  BY <1>3, CrashKeepsWork
<1>4. CASE Request
  BY <1>4, ReprocessLoadKeepsWork, ReprocessLockKeepsWork,
     ReprocessCommitKeepsWork DEF Request
<1>5. CASE Deadlock
  BY <1>5, DeadlockKeepsWork
<1>6. CASE \E j \in Jobs : CancelJob(j)
  BY <1>6, CancelJobKeepsWork
<1>7. CASE UNCHANGED vars
  BY <1>7 DEF vars, WorkInv, Room, TaskHasWork, WaitingHasWork, PresentIn,
              Asked, OtherWork, OpenIn, Table
<1> QED
  BY <1>1, <1>2, <1>3, <1>4, <1>5, <1>6, <1>7 DEF Next

\* A task that is under way holds a job's row, or somebody else answers for
\* what waits; and a request always finds an identifier for its job.  Together
\* with the jobs that are open this is inductive (claim_job, complete_job,
\* fail_job, requeue_all_running, cancel_job, reprocess_embeddings).
THEOREM WorkInvariant == Spec => []WorkInv
<1>1. Inv /\ Inv' /\ WorkInv /\ [Next]_vars => WorkInv'
  BY WorkKeptByNext
<1> QED
  BY <1>1, InitWork, EmbeddingInvariant, PTL DEF Spec

\* A chunk is never left waiting with nobody to embed it, however crashes,
\* halved batches, used-up budgets, cancellations and the deadlocks of a task
\* with a request follow each other (process_document_embeddings, complete_job,
\* fail_job, requeue_all_running, reprocess_embeddings): until a user cancels a
\* job, one fails for good or there is no provider.
THEOREM PendingHasWorkSafe == Spec => []PendingHasWork
<1>1. WorkInv => PendingHasWork
  BY DEF WorkInv, WaitingHasWork, OpenIn, PendingHasWork, Quiet
<1> QED
  BY <1>1, WorkInvariant, PTL
----------------------------------------------------------------------------
(* What is shown as progress agrees with the chunks.                       *)

Right(d, table) ==
  /\ d.chunks_total = Len(table)
  /\ d.chunks_embedded = Count(table, {"embedded"})
  /\ d.chunks_failed = Count(table, {"failed"})
  /\ d.has_embeddings <=> d.chunks_embedded > 0
  /\ d.processing_status = "partial" <=> d.chunks_failed > 0

\* A session that is under way and has loaded the document: what it has not
\* written it remembers as it is, so that what it writes makes the row what
\* it means, even if it writes a few columns only.
InSession == {"check", "load", "split", "touch", "call", "finalize", "commit"}

Current(r, d) == \A c \in Columns \ r.columns : d[c] = r.doc[c]

\* What is shown is right, or somebody will still see to it; and so is what
\* the last transaction of a run that is through is going to write.
ShownIsRight == Covered \/ Right(doc, chunk)

SessionIsCurrent ==
  /\ run.exit = "skipped" => run.pc = "commit"
  /\ run.pc \in InSession =>
       OtherWork \/ run.exit = "skipped" \/ Current(run, doc)
  /\ run.pc = "commit" /\ run.exit = "none" =>
       OtherWork \/ Right(run.doc, Table)

ProgressInv == ShownIsRight /\ SessionIsCurrent

LEMMA WriteCurrent ==
  ASSUME NEW r \in Tasks, NEW d \in DocColumns, Current(r, d)
  PROVE  Write(d, r.columns, r.doc) = r.doc
<1>1. r.doc \in DocColumns
  BY DEF Tasks
<1> DEFINE new == r.doc
<1>2. new \in DocColumns
  BY <1>1
<1>3. \A c \in Columns : c \notin r.columns => d[c] = new[c]
  BY DEF Current
<1> HIDE DEF new
<1>4. Write(d, r.columns, new) = [c \in Columns |-> new[c]]
  BY <1>3 DEF Write
<1>5. new = [c \in Columns |-> new[c]]
  BY <1>2 DEF DocColumns, Columns
<1> QED
  BY <1>4, <1>5 DEF new

\* What is flushed is what differs.
LEMMA FlushedCurrent ==
  ASSUME NEW r \in Tasks, NEW d, Current(r, d), NEW new \in DocColumns
  PROVE  Current(Flushed(r, new), d)
<1> DEFINE f == Flushed(r, new)
<1>1. f.columns = r.columns \cup Changed(r.doc, new) /\ f.doc = new
  BY DEF Flushed, Tasks
<1> HIDE DEF f
<1>2. ASSUME NEW c \in Columns, c \notin f.columns PROVE d[c] = f.doc[c]
  <2>1. c \notin r.columns /\ r.doc[c] = new[c]
    BY <1>1, <1>2 DEF Changed
  <2> QED
    BY <1>1, <2>1 DEF Current
<1> QED
  BY <1>2 DEF Current, f

\* Every chunk of a text in which nothing waits is embedded or has failed.
LEMMA NothingWaits ==
  ASSUME NEW T, Text(T), Having(T, Unsettled) = {}
  PROVE  Count(T, {"embedded"}) # 0 \/ Count(T, {"failed"}) # 0
<1>1. T # <<>> /\ T \in Seq(ChunkRow)
  BY TextNotEmpty
<1>2. 1 \in DOMAIN T /\ T[1] \in ChunkRow
  BY <1>1, ElementOfSeq, EmptySeq, LenProperties
<1>3. T[1].status \in {"embedded", "failed"}
  BY <1>2 DEF Having, Unsettled, ChunkRow
<1>4. 1 \in Having(T, {"embedded"}) \/ 1 \in Having(T, {"failed"})
  BY <1>2, <1>3 DEF Having
<1>5. /\ IsFiniteSet(Having(T, {"embedded"}))
      /\ IsFiniteSet(Having(T, {"failed"}))
  BY CountType
<1> QED
  BY <1>4, <1>5, FS_EmptySet DEF Count

\* _finalize_document gives a run that is through the state it should have.
LEMMA VerdictRight ==
  ASSUME NEW T, Text(T), Having(T, Unsettled) = {}, NEW d \in DocColumns
  PROVE  LET refreshed == Refreshed(d, T)
         IN  Right(Verdict(refreshed, refreshed.chunks_embedded,
                           refreshed.chunks_failed, Count(T, Unsettled)), T)
<1> DEFINE refreshed == Refreshed(d, T)
           e == Count(T, {"embedded"})
           f == Count(T, {"failed"})
           n == Len(T)
           p == Count(T, Unsettled)
           v == Verdict(refreshed, refreshed.chunks_embedded,
                        refreshed.chunks_failed, p)
           some == e > 0
<1>1. e \in Nat /\ f \in Nat /\ n \in Nat /\ (e # 0 \/ f # 0) /\ p = 0
  BY CountType, NothingWaits, FS_EmptySet DEF Count
<1>2. refreshed = [d EXCEPT !.chunks_total = n, !.chunks_embedded = e,
                            !.chunks_failed = f]
  BY DEF Refreshed
<1>3. refreshed \in DocColumns
  BY RefreshedType
<1> HIDE DEF e, f, n, p, refreshed
<1>4. refreshed.chunks_total = n /\ refreshed.chunks_embedded = e
      /\ refreshed.chunks_failed = f
  BY <1>2 DEF DocColumns
<1> SUFFICES Right(v, T)
  BY DEF refreshed, p
<1>5. CASE f > 0
  <2>1. v = [refreshed EXCEPT !.has_embeddings = some,
                              !.processing_status = "partial"]
    BY <1>4, <1>5 DEF Verdict
  <2> HIDE DEF v
  <2>2. /\ v.chunks_total = n /\ v.chunks_embedded = e /\ v.chunks_failed = f
        /\ v.has_embeddings = some /\ v.processing_status = "partial"
    BY <1>3, <1>4, <2>1 DEF DocColumns
  <2> QED
    BY <1>5, <2>2 DEF Right, e, f, n
<1>6. CASE ~(f > 0)
  <2>1. e > 0 /\ ~(p > 0) /\ e # 0
    BY <1>1, <1>6
  <2>2. v = [refreshed EXCEPT !.has_embeddings = TRUE,
                              !.processing_status = "ready"]
    BY <1>4, <1>6, <2>1 DEF Verdict
  <2> HIDE DEF v
  <2>3. /\ v.chunks_total = n /\ v.chunks_embedded = e /\ v.chunks_failed = f
        /\ v.has_embeddings = TRUE /\ v.processing_status = "ready"
    BY <1>3, <1>4, <2>2 DEF DocColumns
  <2> QED
    BY <1>6, <2>1, <2>3 DEF Right, e, f, n
<1> QED
  BY <1>5, <1>6

LEMMA ProgressInit == Init => ProgressInv
<1> SUFFICES ASSUME Init PROVE ProgressInv
  OBVIOUS
<1>1. 1 \in Jobs
  BY BoundsAssumption DEF Jobs
<1>2. job[1].status = "queued"
  BY <1>1, NewRowType DEF Init
<1>3. Covered
  BY <1>1, <1>2 DEF Covered, OpenIn, OpenStatuses
<1>4. run.pc = "idle" /\ run.exit = "none"
  BY DEF Init, Idle
<1> QED
  BY <1>3, <1>4 DEF ProgressInv, ShownIsRight, SessionIsCurrent, InSession

\* A step of a task that leaves the tables as they are shown.
LEMMA ProgressKept ==
  ASSUME TypeInv, ProgressInv,
         \A j \in Jobs : job'[j].status = job[j].status,
         UNCHANGED <<chunk, doc, excuse>>, run'.job = run.job,
         run'.exit = "skipped" => run'.pc = "commit",
         run'.pc \in InSession =>
           OtherWork \/ run'.exit = "skipped" \/ Current(run', doc),
         run'.pc = "commit" /\ run'.exit = "none" =>
           OtherWork \/ Right(run'.doc, Table')
  PROVE  ProgressInv'
<1>1. (OtherWork' <=> OtherWork) /\ (Covered' <=> Covered)
  BY DEF OtherWork, Covered, OpenIn
<1>2. ShownIsRight'
  BY <1>1 DEF ProgressInv, ShownIsRight, Right, Count, Having
<1>3. SessionIsCurrent'
  BY <1>1 DEF SessionIsCurrent
<1> QED
  BY <1>2, <1>3 DEF ProgressInv

\* It goes on with the document as it has it,
LEMMA ProgressMoves ==
  ASSUME TypeInv, ProgressInv, run.pc \in InSession \ {"commit"},
         \A j \in Jobs : job'[j].status = job[j].status,
         UNCHANGED <<chunk, doc, excuse>>, run'.job = run.job,
         run'.doc = run.doc, run'.columns = run.columns,
         run'.exit # "skipped", run'.pc # "commit"
  PROVE  ProgressInv'
<1>1. OtherWork \/ Current(run, doc)
  BY DEF ProgressInv, SessionIsCurrent
<1>2. OtherWork \/ Current(run', doc)
  BY <1>1 DEF Current
<1> QED
  BY <1>2, ProgressKept

\* or flushes it.
LEMMA ProgressFlushed ==
  ASSUME TypeInv, ProgressInv, run.pc \in InSession \ {"commit"},
         UNCHANGED <<chunk, doc, job, excuse>>, run'.job = run.job,
         NEW new \in DocColumns,
         run'.doc = new, run'.columns = Flushed(run, new).columns,
         run'.exit # "skipped",
         run'.pc = "commit" /\ run'.exit = "none" =>
           OtherWork \/ Right(new, Table')
  PROVE  ProgressInv'
<1>1. OtherWork \/ Current(run, doc)
  BY DEF ProgressInv, SessionIsCurrent
<1>2. Flushed(run, new).doc = new /\ run \in Tasks
  BY DEF Flushed, TypeInv, Tasks
<1>3. OtherWork \/ Current(run', doc)
  <2>1. CASE Current(run, doc)
    <3>1. Current(Flushed(run, new), doc)
      BY <1>2, <2>1, FlushedCurrent
    <3> QED
      BY <1>2, <3>1 DEF Current
  <2> QED
    BY <1>1, <2>1
<1> QED
  BY <1>3, ProgressKept

LEMMA StartKeepsProgress ==
  ASSUME Inv, ProgressInv, Start
  PROVE  ProgressInv'
<1>1. TypeInv /\ run \in Tasks /\ doc \in DocColumns /\ Text(chunk)
  BY DEF Inv, TypeInv
<1> DEFINE r == [run EXCEPT !.doc = doc]
           started == [doc EXCEPT !.started = TRUE]
           new == Refreshed(started, chunk)
           f == Flushed(r, new)
<1>2. /\ run' = [f EXCEPT !.pc = "check", !.active = active]
      /\ run.pc = "start" /\ UNCHANGED <<chunk, doc, job, excuse>>
  BY DEF Start
<1>3. r \in Tasks /\ r.doc = doc /\ r.job = run.job /\ r.exit = run.exit
  BY <1>1 DEF Tasks
<1>4. new \in DocColumns
  <2>1. started \in DocColumns
    BY <1>1 DEF DocColumns
  <2> HIDE DEF started
  <2> QED
    BY <1>1, <2>1, RefreshedType
<1> HIDE DEF new, r
<1>5. Current(r, doc)
  BY <1>3 DEF Current
<1>6. Current(f, doc)
  BY <1>3, <1>4, <1>5, FlushedCurrent
<1>7. f \in Tasks /\ f = [r EXCEPT !.doc = new, !.columns = f.columns]
  BY <1>3, <1>4, FlushedType
<1> HIDE DEF f
<1>8. f.job = r.job /\ f.exit = r.exit
  BY <1>3, <1>7 DEF Tasks
<1>9. /\ run'.doc = f.doc /\ run'.columns = f.columns
      /\ run'.job = run.job /\ run'.exit = run.exit /\ run'.pc = "check"
  BY <1>2, <1>3, <1>7, <1>8 DEF Tasks
<1>10. run'.exit # "skipped"
  BY <1>2, <1>9 DEF ProgressInv, SessionIsCurrent
<1>11. Current(run', doc)
  BY <1>6, <1>9 DEF Current
<1> QED
  BY <1>1, <1>2, <1>9, <1>10, <1>11, ProgressKept

LEMMA FinalizeKeepsProgress ==
  ASSUME Inv, WorkInv, ProgressInv, Finalize
  PROVE  ProgressInv'
<1>1. /\ TypeInv /\ run \in Tasks /\ run.pc = "finalize"
      /\ run.doc \in DocColumns /\ Text(Table)
  BY DEF Inv, TypeInv, Finalize, FitsIn, Session, Tasks
<1> DEFINE refreshed == Refreshed(run.doc, Table)
           pending == Count(Table, Unsettled)
           verdict == Verdict(refreshed, refreshed.chunks_embedded,
                              refreshed.chunks_failed, pending)
           new == IF run.exit \in {"cancelled", "continued"} THEN refreshed
                  ELSE verdict
           space == /\ run.exit = "none" /\ pending = 0
                    /\ refreshed.chunks_failed = 0
                    /\ refreshed.chunks_embedded > 0
                    /\ run.dimension # run.active
           f == Flushed(run, new)
<1>2. run' = [f EXCEPT !.pc = "commit", !.space = space]
      /\ UNCHANGED <<chunk, doc, job, excuse>>
  BY DEF Finalize
<1>3. new \in DocColumns
  <2>1. refreshed \in DocColumns
    BY <1>1, RefreshedType
  <2>2. pending \in Nat
    BY <1>1, CountType
  <2> HIDE DEF refreshed, pending
  <2>3. refreshed.chunks_embedded \in Nat /\ refreshed.chunks_failed \in Nat
    BY <2>1 DEF DocColumns
  <2>4. verdict \in DocColumns
    BY <2>1, <2>2, <2>3, VerdictType
  <2> QED
    BY <2>1, <2>4
<1>4. ASSUME run.exit = "none", ~OtherWork
      PROVE  Right(new, Table)
  <2>1. Having(Table, Unsettled) = {}
    BY <1>1, <1>4 DEF WorkInv, TaskHasWork
  <2>2. Right(verdict, Table)
    BY <1>1, <2>1, VerdictRight
  <2>3. new = verdict
    BY <1>4
  <2> QED
    BY <2>2, <2>3
<1> HIDE DEF new, space
<1>5. f \in Tasks /\ f = [run EXCEPT !.doc = new, !.columns = f.columns]
  BY <1>1, <1>3, FlushedType
<1> HIDE DEF f
<1>6. /\ run'.doc = new /\ run'.columns = f.columns /\ run'.own = run.own
      /\ run'.job = run.job /\ run'.exit = run.exit /\ run'.pc = "commit"
  BY <1>1, <1>2, <1>5 DEF Tasks
<1>7. Table' = Table
  BY <1>2, <1>6 DEF Table
<1>8. run.exit # "skipped"
  BY <1>1 DEF ProgressInv, SessionIsCurrent
<1>9. run'.exit = "none" => OtherWork \/ Right(new, Table')
  BY <1>4, <1>6, <1>7
<1> QED
  BY <1>1, <1>2, <1>3, <1>6, <1>8, <1>9, ProgressFlushed DEF f, InSession

\* What a task does to a batch.
LEMMA BatchKeepsProgress ==
  ASSUME Inv, Inv', ProgressInv,
         \/ \E c \in run.long : SplitLong(c)
         \/ \E answer \in Answers : Call(answer)
  PROVE  ProgressInv'
<1>1. /\ TypeInv /\ run \in Tasks /\ run' \in Tasks /\ run.doc \in DocColumns
      /\ run'.doc \in DocColumns
  BY DEF Inv, TypeInv, Tasks
<1>2. /\ run.pc \in {"split", "call"} /\ UNCHANGED <<chunk, doc, job, excuse>>
  BY DEF SplitLong, Call
<1>3. run.exit # "skipped"
  BY <1>2 DEF ProgressInv, SessionIsCurrent
<1>4. ASSUME NEW new, NEW T, NEW M, NEW long, NEW work, NEW dimension,
             \/ run' = [Flushed(run, new) EXCEPT !.own = T, !.mem = M,
                                                 !.long = long]
             \/ run' = [Flushed(run, new) EXCEPT !.own = T, !.mem = M,
                                                 !.work = work,
                                                 !.dimension = dimension]
      PROVE  ProgressInv'
  <2> DEFINE columns == run.columns \cup Changed(run.doc, new)
  <2>1. Flushed(run, new) = [run EXCEPT !.doc = new, !.columns = columns]
    BY DEF Flushed
  <2> HIDE DEF columns
  <2>2. /\ run'.doc = new /\ run'.columns = columns
        /\ run'.job = run.job /\ run'.exit = run.exit /\ run'.pc = run.pc
    <3> DEFINE f == Flushed(run, new)
    <3>1. /\ f.doc = new /\ f.columns = columns /\ f.job = run.job
          /\ f.exit = run.exit /\ f.pc = run.pc
      BY <1>1, <2>1 DEF Tasks
    <3>2. \/ run' = [f EXCEPT !.own = T, !.mem = M, !.long = long]
          \/ run' = [f EXCEPT !.own = T, !.mem = M, !.work = work,
                              !.dimension = dimension]
      BY <1>4
    <3>3. {"doc", "columns", "job", "exit", "pc"} \subseteq DOMAIN f
      BY <1>1, <2>1 DEF Tasks
    <3> HIDE DEF f
    <3>4. /\ run'.doc = f.doc /\ run'.columns = f.columns
          /\ run'.job = f.job /\ run'.exit = f.exit /\ run'.pc = f.pc
      BY <3>2, <3>3
    <3> QED
      BY <3>1, <3>4
  <2>3. Flushed(run, new).columns = columns
    BY <1>1, <2>1 DEF Tasks
  <2>4. new \in DocColumns
    BY <1>1, <2>2
  <2> QED
    BY <1>1, <1>2, <1>3, <2>2, <2>3, <2>4, ProgressFlushed DEF InSession
<1>5. ASSUME NEW c \in run.long, SplitLong(c)
      PROVE  ProgressInv'
  <2> DEFINE a == SplitChunk([table |-> Table, mem |-> run.mem], c)
             new == IF Len(a.table) > Len(Table)
                    THEN Refreshed(run.doc, a.table) ELSE run.doc
             T == a.table
             M == a.mem
             long == run.long \ {c}
             f == Flushed(run, new)
  <2>1. run' = [f EXCEPT !.own = T, !.mem = M, !.long = @ \ {c}]
    BY <1>5 DEF SplitLong
  <2> HIDE DEF new, T, M
  <2>2. f.long = run.long
    BY <1>1 DEF Flushed, Tasks
  <2>3. run' = [f EXCEPT !.own = T, !.mem = M, !.long = long]
    <3> HIDE DEF f
    <3> QED
      BY <2>1, <2>2
  <2> HIDE DEF long
  <2> QED
    BY <1>4, <2>3
<1>6. ASSUME NEW answer \in Answers, Call(answer)
      PROVE  ProgressInv'
  <2> DEFINE slice == Head(run.work)
             s == [table |-> Table, mem |-> run.mem]
             T == Claimed(s, slice.ids).table
             rest == Halves(Table, slice) \o Tail(run.work)
             a == Settled(Claimed(s, slice.ids), slice, answer)
             new == IF Len(a.table) > Len(Table)
                    THEN Refreshed(run.doc, a.table) ELSE run.doc
             U == a.table
             M == a.mem
             work == Tail(run.work)
             dimension == (run.dimension \/ answer = "vectors")
             f == Flushed(run, new)
  <2>1. CASE Isolates(answer, slice)
    <3>1. run' = [run EXCEPT !.own = T, !.work = rest]
      BY <1>6, <2>1 DEF Call
    <3> HIDE DEF T, rest
    <3>2. /\ run'.job = run.job /\ run'.exit = run.exit /\ run'.pc = run.pc
          /\ run'.doc = run.doc /\ run'.columns = run.columns
      BY <1>1, <3>1 DEF Tasks
    <3> QED
      BY <1>1, <1>2, <1>3, <3>2, ProgressMoves DEF InSession
  <2>2. CASE ~Isolates(answer, slice)
    <3>1. run' = [f EXCEPT !.own = U, !.mem = M, !.work = Tail(@),
                           !.dimension = @ \/ answer = "vectors"]
      BY <1>6, <2>2 DEF Call
    <3> HIDE DEF new, U, M
    <3>2. f.work = run.work /\ f.dimension = run.dimension
      BY <1>1 DEF Flushed, Tasks
    <3>3. run' = [f EXCEPT !.own = U, !.mem = M, !.work = work,
                           !.dimension = dimension]
      <4> HIDE DEF f
      <4> QED
        BY <3>1, <3>2
    <3> HIDE DEF work, dimension
    <3> QED
      BY <1>4, <3>3
  <2> QED
    BY <2>1, <2>2
<1> QED
  BY <1>5, <1>6

\* The other steps of a task before it commits.
LEMMA TaskKeepsProgress ==
  ASSUME Inv, Inv', WorkInv, ProgressInv,
         \/ Skip \/ Check \/ Load \/ Reload \/ Touch \/ HandlerRaises
  PROVE  ProgressInv'
<1>1. TypeInv /\ run \in Tasks /\ job \in [Jobs -> Row({1})]
  BY DEF Inv, TypeInv
<1>2. CASE Skip
  <2>1. /\ run' = [run EXCEPT !.pc = "commit", !.exit = "skipped"]
        /\ UNCHANGED <<chunk, doc, job, excuse>>
    BY <1>2 DEF Skip
  <2>2. run'.job = run.job /\ run'.exit = "skipped" /\ run'.pc = "commit"
    BY <1>1, <2>1 DEF Tasks
  <2> QED
    BY <1>1, <2>1, <2>2, ProgressKept
<1>3. CASE Check \/ Load \/ Reload
  <2>1. /\ run.pc \in {"check", "load", "split"}
        /\ UNCHANGED <<chunk, doc, job, excuse>>
    BY <1>3 DEF Check, Load, Reload
  <2>2. run.exit # "skipped"
    BY <2>1 DEF ProgressInv, SessionIsCurrent
  <2>3. /\ run'.job = run.job /\ run'.doc = run.doc
        /\ run'.columns = run.columns
        /\ run'.exit # "skipped" /\ run'.pc # "commit"
    <3>1. CASE Load
      BY <1>1, <2>2, <3>1 DEF Load, Tasks
    <3>2. CASE Reload
      BY <1>1, <2>2, <3>2 DEF Reload, Tasks
    <3>3. CASE Check
      <4> DEFINE exit == IF Continues(Table) THEN "continued" ELSE "none"
      <4>1. exit # "skipped"
        OBVIOUS
      <4>2. \/ run' = [run EXCEPT !.pc = "finalize", !.exit = "cancelled"]
            \/ run' = [run EXCEPT !.pc = "load"]
            \/ run' = [run EXCEPT !.pc = "finalize", !.exit = exit]
        BY <3>3, Zenon DEF Check
      <4> HIDE DEF exit
      <4> QED
        BY <1>1, <2>2, <4>1, <4>2 DEF Tasks
    <3> QED
      BY <1>3, <3>1, <3>2, <3>3
  <2> QED
    BY <1>1, <2>1, <2>2, <2>3, ProgressMoves DEF InSession
<1>4. CASE Touch
  <2>1. /\ run.pc = "touch" /\ UNCHANGED <<chunk, doc, excuse>>
        /\ run' = [run EXCEPT !.pc = "call"]
        /\ job' = [job EXCEPT ![run.job] = TouchRow(@)]
    BY <1>4 DEF Touch
  <2>2. /\ run'.job = run.job /\ run'.exit = run.exit /\ run'.pc = "call"
        /\ run'.doc = run.doc /\ run'.columns = run.columns
    BY <1>1, <2>1 DEF Tasks
  <2>3. ASSUME NEW j \in Jobs PROVE job'[j].status = job[j].status
    <3>1. job[j] \in Row({1})
      BY <1>1
    <3>2. TouchRow(job[j]).status = job[j].status
      BY <3>1, RowStatuses
    <3>3. job'[j] = IF j = run.job THEN TouchRow(job[j]) ELSE job[j]
      BY <1>1, <2>1
    <3> QED
      BY <3>2, <3>3
  <2>4. run.exit # "skipped"
    BY <2>1 DEF ProgressInv, SessionIsCurrent
  <2> QED
    BY <1>1, <2>1, <2>2, <2>3, <2>4, ProgressMoves DEF InSession
<1>5. CASE HandlerRaises
  <2>1. run' = Raised /\ UNCHANGED <<chunk, doc, job, excuse>>
    BY <1>5 DEF HandlerRaises
  <2>2. run'.job = run.job /\ run'.exit = "none" /\ run'.pc = "failed"
    BY <2>1 DEF Raised, Idle
  <2> QED
    BY <1>1, <2>1, <2>2, ProgressKept DEF InSession
<1> QED
  BY <1>2, <1>3, <1>4, <1>5

\* The steps that write what is shown.
LEMMA CommitBatchKeepsProgress ==
  ASSUME Inv, Inv', WorkInv, ProgressInv, CommitBatch
  PROVE  ProgressInv'
<1>1. /\ TypeInv /\ run \in Tasks /\ run.pc = "call" /\ doc \in DocColumns
      /\ run.doc \in DocColumns /\ Text(Table)
  BY DEF Inv, TypeInv, CommitBatch, FitsIn, Session, Tasks
<1> DEFINE new == Refreshed(run.doc, Table)
           last == Flushed(run, new)
<1>2. /\ doc' = Write(doc, last.columns, last.doc)
      /\ run' = [last EXCEPT !.pc = "check", !.columns = {}, !.own = <<>>,
                             !.batches = @ + 1]
      /\ UNCHANGED <<job, excuse>>
  BY DEF CommitBatch
<1>3. new \in DocColumns
  BY <1>1, RefreshedType
<1> HIDE DEF new
<1>4. last \in Tasks /\ last = [run EXCEPT !.doc = new, !.columns = last.columns]
  BY <1>1, <1>3, FlushedType
<1>5. Current(run, doc) => Current(last, doc)
  BY <1>1, <1>3, FlushedCurrent
<1> HIDE DEF last
<1>6. last.job = run.job /\ last.exit = run.exit /\ last.doc = new
  BY <1>1, <1>4 DEF Tasks
<1>7. /\ run'.doc = new /\ run'.columns = {} /\ run'.job = run.job
      /\ run'.exit = run.exit /\ run'.pc = "check"
  BY <1>2, <1>4, <1>6 DEF Tasks
<1>8. run.exit # "skipped" /\ (OtherWork \/ Current(run, doc))
  BY <1>1 DEF ProgressInv, SessionIsCurrent, InSession
<1>9. Current(run, doc) => doc' = new
  BY <1>1, <1>2, <1>4, <1>5, <1>6, WriteCurrent
<1>10. OtherWork' <=> OtherWork
  BY <1>2, <1>7 DEF OtherWork, OpenIn
<1>11. OtherWork' \/ Current(run', doc')
  BY <1>7, <1>8, <1>9, <1>10 DEF Current
<1>12. ShownIsRight'
  BY CommitBatchKeepsWork DEF ShownIsRight
<1>13. SessionIsCurrent'
  BY <1>7, <1>8, <1>11 DEF SessionIsCurrent
<1> QED
  BY <1>12, <1>13 DEF ProgressInv

LEMMA IdleIsCurrent ==
  ASSUME run' = Idle
  PROVE  SessionIsCurrent'
<1>1. run'.pc = "idle" /\ run'.exit = "none"
  BY DEF Idle
<1> QED
  BY <1>1 DEF SessionIsCurrent, InSession

LEMMA CommitKeepsProgress ==
  ASSUME Inv, Inv', WorkInv, ProgressInv, Commit
  PROVE  ProgressInv'
<1>1. TypeInv /\ run \in Tasks /\ run.pc = "commit" /\ doc \in DocColumns
  BY DEF Inv, TypeInv, Commit
<1>2. /\ chunk' = Table /\ doc' = Write(doc, run.columns, run.doc)
      /\ run' = Idle
  BY DEF Commit
<1>3. ASSUME run.exit # "none" \/ OtherWork
      PROVE  ShownIsRight'
  BY <1>3, CommitKeepsWork DEF ShownIsRight
<1>4. ASSUME run.exit = "none", ~OtherWork
      PROVE  ShownIsRight'
  <2>1. Current(run, doc) /\ Right(run.doc, Table)
    BY <1>1, <1>4 DEF ProgressInv, SessionIsCurrent, InSession
  <2>2. doc' = run.doc
    BY <1>1, <1>2, <2>1, WriteCurrent
  <2>3. Right(doc', chunk')
    BY <1>2, <2>1, <2>2
  <2> QED
    BY <2>3 DEF ShownIsRight, Right, Count, Having
<1> QED
  BY <1>2, <1>3, <1>4, IdleIsCurrent DEF ProgressInv

LEMMA CrashKeepsProgress ==
  ASSUME Inv, Inv', WorkInv, ProgressInv, Crash
  PROVE  ProgressInv'
<1>1. run' = Idle /\ UNCHANGED <<chunk, doc>>
  BY DEF Crash
<1>2. ShownIsRight'
  BY <1>1, CrashKeepsWork
  DEF ProgressInv, ShownIsRight, Right, Count, Having
<1> QED
  BY <1>1, <1>2, IdleIsCurrent DEF ProgressInv

LEMMA ClaimKeepsProgress ==
  ASSUME Inv, Inv', Claim
  PROVE  ProgressInv'
<1>1. job \in [Jobs -> Row({1})]
  BY DEF Inv, TypeInv
<1>2. PICK j \in Jobs : /\ job' = [job EXCEPT ![j] = ClaimRow(@)]
                        /\ run' = [Idle EXCEPT !.pc = "start", !.job = j]
  BY DEF Claim
<1>3. job'[j].status = "running"
  BY <1>1, <1>2, RowStatuses
<1>4. Covered'
  BY <1>3 DEF Covered, OpenIn, OpenStatuses
<1>5. run'.exit = "none" /\ run'.pc = "start"
  BY <1>2 DEF Idle
<1> QED
  BY <1>4, <1>5
  DEF ProgressInv, ShownIsRight, SessionIsCurrent, InSession

\* Users.
LEMMA CancelJobKeepsProgress ==
  ASSUME ProgressInv, NEW j \in Jobs, CancelJob(j)
  PROVE  ProgressInv'
<1>1. excuse' = TRUE /\ UNCHANGED run
  BY DEF CancelJob
<1>2. Covered' /\ OtherWork'
  BY <1>1 DEF Covered, OtherWork
<1> QED
  BY <1>1, <1>2 DEF ProgressInv, ShownIsRight, SessionIsCurrent

\* Nothing of this is written.
LEMMA ProgressUntouched ==
  ASSUME ProgressInv, UNCHANGED <<chunk, doc, job, run, excuse>>
  PROVE  ProgressInv'
  BY DEF ProgressInv, ShownIsRight, SessionIsCurrent, Covered, OtherWork,
         OpenIn, Right, Current, Table, Count, Having

LEMMA RequestKeepsProgress ==
  ASSUME Inv, Inv', WorkInv, ProgressInv, Request
  PROVE  ProgressInv'
<1>1. CASE ReprocessLoad \/ ReprocessLock
  <2>1. UNCHANGED <<chunk, doc, job, run, excuse>>
    BY <1>1 DEF ReprocessLoad, ReprocessLock
  <2> QED
    BY <2>1, ProgressUntouched
<1>2. CASE ReprocessCommit
  <2>1. UNCHANGED run
    BY <1>2 DEF ReprocessCommit
  <2>2. Covered' /\ (run.pc # "idle" => OtherWork')
    BY <1>2, ReprocessCommitKeepsWork
  <2> QED
    BY <2>1, <2>2
    DEF ProgressInv, ShownIsRight, SessionIsCurrent, InSession
<1> QED
  BY <1>1, <1>2 DEF Request

LEMMA DeadlockKeepsProgress ==
  ASSUME Inv, ProgressInv, Deadlock
  PROVE  ProgressInv'
<1>1. TypeInv /\ UNCHANGED <<chunk, doc, job, excuse>>
  BY DEF Inv, Deadlock
<1>2. CASE run' = Raised
  <2>1. run'.job = run.job /\ run'.exit = "none" /\ run'.pc = "failed"
    BY <1>2 DEF Raised, Idle
  <2> QED
    BY <1>1, <2>1, ProgressKept DEF InSession
<1>3. CASE UNCHANGED run
  BY <1>1, <1>3, ProgressUntouched
<1> QED
  BY <1>2, <1>3 DEF Deadlock

LEMMA ProgressKeptByNext ==
  Inv /\ Inv' /\ WorkInv /\ ProgressInv /\ [Next]_vars => ProgressInv'
<1> SUFFICES ASSUME Inv, Inv', WorkInv, ProgressInv, [Next]_vars
             PROVE  ProgressInv'
  OBVIOUS
<1>1. CASE Claim
  BY <1>1, ClaimKeepsProgress
<1>2. CASE Task
  <2>1. CASE Start
    BY <2>1, StartKeepsProgress
  <2>2. CASE Finalize
    BY <2>2, FinalizeKeepsProgress
  <2>3. CASE CommitBatch
    BY <2>3, CommitBatchKeepsProgress
  <2>4. CASE Commit
    BY <2>4, CommitKeepsProgress
  <2>5. CASE FailJob
    <3>1. run' = Idle /\ Covered'
      BY <2>5, FailJobKeepsWork DEF FailJob
    <3> QED
      BY <3>1, IdleIsCurrent DEF ProgressInv, ShownIsRight
  <2>6. CASE \/ \E c \in run.long : SplitLong(c)
             \/ \E answer \in Answers : Call(answer)
    BY <2>6, BatchKeepsProgress
  <2>7. CASE Skip \/ Check \/ Load \/ Reload \/ Touch \/ HandlerRaises
    BY <2>7, TaskKeepsProgress
  <2> QED
    BY <1>2, <2>1, <2>2, <2>3, <2>4, <2>5, <2>6, <2>7 DEF Task
<1>3. CASE Crash
  BY <1>3, CrashKeepsProgress
<1>4. CASE Request
  BY <1>4, RequestKeepsProgress
<1>5. CASE Deadlock
  BY <1>5, DeadlockKeepsProgress
<1>6. CASE \E j \in Jobs : CancelJob(j)
  BY <1>6, CancelJobKeepsProgress
<1>7. CASE UNCHANGED vars
  BY <1>7, ProgressUntouched DEF vars
<1> QED
  BY <1>1, <1>2, <1>3, <1>4, <1>5, <1>6, <1>7 DEF Next

\* The columns of a document agree with its chunks, or somebody will still see
\* to it; and a session that is under way remembers what it will not write
\* (_refresh_document_progress, _finalize_document, and the sessions that keep
\* what they have loaded).  This is inductive.
THEOREM ProgressInvariant == Spec => []ProgressInv
<1>1. Inv /\ Inv' /\ WorkInv /\ ProgressInv /\ [Next]_vars => ProgressInv'
  BY ProgressKeptByNext
<1> QED
  BY <1>1, ProgressInit, EmbeddingInvariant, WorkInvariant, PTL DEF Spec

\* When all work is done, progress and state of the document that users see are
\* those of its chunks, although sessions write the columns that have changed
\* only and requests write some of them meanwhile (_finalize_document,
\* reprocess_embeddings): unless a job was cancelled, failed or found no
\* provider.
THEOREM ProgressAgreesSafe == Spec => []ProgressAgrees
<1>1. ProgressInv => ProgressAgrees
  BY DEF ProgressInv, ShownIsRight, Covered, OpenIn, Quiet, ProgressAgrees,
         Right
<1> QED
  BY <1>1, ProgressInvariant, PTL

----------------------------------------------------------------------------
(* A batch that commits leaves less to do.                                 *)

\* What may be tried of a chunk, one by one.
LEMMA TriesOf ==
  ASSUME NEW row \in ChunkRow
  PROVE  /\ \A place, n :
              <<place, n>> \in Tries(row) <=>
                /\ place \in (2 * row.first)..(2 * row.last)
                /\ n \in 1..MaxAttempts
                /\ row.status \in Unsettled
                /\ place = 2 * row.first =>
                     n > Smaller(row.attempts, MaxAttempts - 1)
         /\ \A try \in Tries(row) :
              /\ try = <<try[1], try[2]>>
              /\ try[1] \in (2 * row.first)..(2 * row.last)
              /\ try[2] \in 1..MaxAttempts
  BY DEF Tries

\* A part of a chunk, or the chunk after an attempt, has no more to try.
LEMMA FewerTries ==
  ASSUME NEW old \in ChunkRow, NEW new \in ChunkRow,
         new.status \in Unsettled => old.status \in Unsettled,
         old.first <= new.first, new.last <= old.last,
         new.first = old.first => old.attempts <= new.attempts
  PROVE  Tries(new) \subseteq Tries(old)
<1> SUFFICES ASSUME NEW try \in Tries(new) PROVE try \in Tries(old)
  OBVIOUS
<1> DEFINE place == try[1]
           n == try[2]
<1>1. /\ try = <<place, n>> /\ n \in 1..MaxAttempts
      /\ place \in (2 * new.first)..(2 * new.last)
  BY TriesOf
<1> HIDE DEF place, n
<1>2. /\ new.status \in Unsettled
      /\ place = 2 * new.first => n > Smaller(new.attempts, MaxAttempts - 1)
  BY <1>1, TriesOf
<1>3. /\ old.first \in Nat /\ old.last \in Nat /\ new.first \in Nat
      /\ new.last \in Nat /\ old.attempts \in Nat /\ new.attempts \in Nat
  BY DEF ChunkRow
<1>4. MaxAttempts \in Nat \ {0}
  BY CapabilitiesAssumption
<1>5. place \in (2 * old.first)..(2 * old.last)
  BY <1>1, <1>3
<1>6. place = 2 * old.first => n > Smaller(old.attempts, MaxAttempts - 1)
  <2>1. SUFFICES ASSUME place = 2 * old.first
                 PROVE  n > Smaller(old.attempts, MaxAttempts - 1)
    OBVIOUS
  <2>2. new.first = old.first
    BY <1>1, <1>3, <2>1
  <2>3. n > Smaller(new.attempts, MaxAttempts - 1) /\ n \in Nat
    BY <1>1, <1>2, <2>1, <2>2
  <2>4. old.attempts <= new.attempts
    BY <2>2
  <2> QED
    BY <1>3, <1>4, <2>3, <2>4 DEF Smaller
<1> QED
  BY <1>1, <1>2, <1>5, <1>6, TriesOf

\* An attempt uses up a try.
LEMMA AttemptTries ==
  ASSUME NEW old \in ChunkRow, NEW new \in ChunkRow, NEW attempts \in Nat,
         old.status \in Unsettled, old.attempts <= attempts,
         new.first = old.first, new.last = old.last, old.first <= old.last,
         new.attempts = attempts + 1,
         new.status \in Unsettled => attempts + 1 < MaxAttempts
  PROVE  /\ Tries(new) \subseteq Tries(old)
         /\ \E try \in Tries(old) : try \notin Tries(new)
<1>1. /\ old.first \in Nat /\ old.last \in Nat /\ old.attempts \in Nat
      /\ new.first \in Nat /\ new.last \in Nat
  BY DEF ChunkRow
<1>2. MaxAttempts \in Nat \ {0}
  BY CapabilitiesAssumption
<1>3. Tries(new) \subseteq Tries(old)
  BY <1>1, FewerTries
<1> DEFINE place == 2 * old.first
<1>4. place \in (2 * old.first)..(2 * old.last)
  BY <1>1
<1>5. CASE new.status \in Unsettled
  <2> DEFINE n == attempts + 1
  <2>1. n \in 1..MaxAttempts /\ n > Smaller(old.attempts, MaxAttempts - 1)
    BY <1>1, <1>2, <1>5 DEF Smaller
  <2>2. ~(n > Smaller(new.attempts, MaxAttempts - 1))
    BY <1>2, <1>5 DEF Smaller
  <2> HIDE DEF n
  <2>3. <<place, n>> \in Tries(old)
    BY <1>4, <2>1, TriesOf
  <2>4. <<place, n>> \notin Tries(new)
    BY <2>2, TriesOf
  <2> QED
    BY <1>3, <2>3, <2>4
<1>6. CASE new.status \notin Unsettled
  <2>1. MaxAttempts \in 1..MaxAttempts
        /\ MaxAttempts > Smaller(old.attempts, MaxAttempts - 1)
    BY <1>1, <1>2 DEF Smaller
  <2>2. <<place, MaxAttempts>> \in Tries(old)
    BY <1>4, <2>1, TriesOf
  <2>3. <<place, MaxAttempts>> \notin Tries(new)
    BY <1>6, TriesOf
  <2> QED
    BY <1>3, <2>2, <2>3
<1> QED
  BY <1>5, <1>6

\* There is an end to what may be tried of a text.
LEMMA TriesFinite ==
  ASSUME NEW T, Text(T)
  PROVE  IsFiniteSet(AllTries(T))
<1> DEFINE most == (0..(2 * TextLength)) \X (1..MaxAttempts)
<1>1. TextLength \in Nat /\ MaxAttempts \in Nat
  BY TextAssumption, CapabilitiesAssumption
<1>2. IsFiniteSet(0..(2 * TextLength)) /\ IsFiniteSet(1..MaxAttempts)
  BY <1>1, FS_Interval
<1>3. IsFiniteSet(most)
  BY <1>2, FS_Product
<1>4. ASSUME NEW c \in DOMAIN T, NEW try \in Tries(T[c])
      PROVE  try \in most
  <2>1. T[c] \in ChunkRow /\ T[c].first \in Nat /\ T[c].last \in Nat
        /\ T[c].first <= T[c].last
    BY ChunkOfText
  <2>2. T[c].first..T[c].last \subseteq 1..TextLength
    BY DEF Text, Tiles
  <2>3. T[c].last <= TextLength
    BY <1>1, <2>1, <2>2
  <2>4. /\ try = <<try[1], try[2]>> /\ try[2] \in 1..MaxAttempts
        /\ try[1] \in (2 * T[c].first)..(2 * T[c].last)
    BY <1>4, <2>1, TriesOf
  <2>5. try[1] \in 0..(2 * TextLength)
    BY <1>1, <2>1, <2>3, <2>4
  <2> QED
    BY <2>4, <2>5
<1> HIDE DEF most
<1>5. AllTries(T) \subseteq most
  BY <1>4 DEF AllTries
<1> QED
  BY <1>3, <1>5, FS_Subset

LEMMA LessWork ==
  ASSUME NEW T, Text(T), NEW U,
         AllTries(U) \subseteq AllTries(T), AllTries(U) # AllTries(T)
  PROVE  WorkLeft(U) < WorkLeft(T)
<1>1. IsFiniteSet(AllTries(T))
  BY TriesFinite
<1>2. /\ IsFiniteSet(AllTries(U))
      /\ Cardinality(AllTries(U)) <= Cardinality(AllTries(T))
      /\ Cardinality(AllTries(U)) # Cardinality(AllTries(T))
  BY <1>1, FS_Subset
<1>3. Cardinality(AllTries(T)) \in Nat /\ Cardinality(AllTries(U)) \in Nat
  BY <1>1, <1>2, FS_CardinalityType
<1> QED
  BY <1>2, <1>3 DEF WorkLeft

\* A try of a chunk is not one of another's.
LEMMA TriesApart ==
  ASSUME NEW T, Text(T), NEW c \in DOMAIN T, NEW d \in DOMAIN T, c # d,
         NEW place, place \in (2 * T[c].first)..(2 * T[c].last)
  PROVE  place \notin (2 * T[d].first)..(2 * T[d].last)
<1>1. /\ T[c].first \in Nat /\ T[c].last \in Nat
      /\ T[d].first \in Nat /\ T[d].last \in Nat
  BY ChunkOfText
<1>2. Apart(T[c], T[d])
  BY DEF Text, Tiles
<1> QED
  BY <1>1, <1>2 DEF Apart

\* The same parts of the text, of which no more is to be tried: and less in
\* all, if there is less of one.
LEMMA FewerInAll ==
  ASSUME NEW T, Text(T), NEW U, Text(U), DOMAIN U = DOMAIN T,
         \A c \in DOMAIN T :
           /\ U[c].first = T[c].first /\ U[c].last = T[c].last
           /\ Tries(U[c]) \subseteq Tries(T[c])
  PROVE  /\ AllTries(U) \subseteq AllTries(T)
         /\ (\E c \in DOMAIN T : \E try \in Tries(T[c]) : try \notin Tries(U[c]))
              => AllTries(U) # AllTries(T)
<1>1. AllTries(U) \subseteq AllTries(T)
  BY DEF AllTries
<1>2. ASSUME NEW c \in DOMAIN T, NEW try \in Tries(T[c]), try \notin Tries(U[c])
      PROVE  AllTries(U) # AllTries(T)
  <2>1. try \in AllTries(T)
    BY <1>2 DEF AllTries
  <2>2. ASSUME NEW d \in DOMAIN U, try \in Tries(U[d])
        PROVE  FALSE
    <3>1. c # d
      BY <1>2, <2>2
    <3>2. T[c] \in ChunkRow /\ U[d] \in ChunkRow
      BY ChunkOfText
    <3>3. /\ try[1] \in (2 * T[c].first)..(2 * T[c].last)
          /\ try[1] \in (2 * U[d].first)..(2 * U[d].last)
      BY <1>2, <2>2, <3>2, TriesOf
    <3>4. try[1] \in (2 * T[d].first)..(2 * T[d].last)
      BY <3>3
    <3> QED
      BY <3>1, <3>3, <3>4, TriesApart
  <2>3. try \notin AllTries(U)
    BY <2>2 DEF AllTries
  <2> QED
    BY <2>1, <2>3
<1> QED
  BY <1>1, <1>2

\* What the session remembers of the attempts at a chunk is not less than what
\* the table says of it, ...
Knows(s) == \A c \in DOMAIN s.mem : s.table[c].attempts <= s.mem[c].attempts

\* ... and the chunks ids wait.
Waits(table, ids) == \A c \in ids : table[c].status \in Unsettled

\* A step of the session that leaves less to try.
Advances(s, after) ==
  /\ Knows(after)
  /\ AllTries(after.table) \subseteq AllTries(s.table)
  /\ AllTries(after.table) # AllTries(s.table)

LEMMA ClaimedTries ==
  ASSUME NEW s, Session(s), Knows(s), NEW ids, ids \subseteq DOMAIN s.table,
         Waits(s.table, ids)
  PROVE  LET a == Claimed(s, ids) IN
         /\ a.mem = s.mem /\ Knows(a)
         /\ AllTries(a.table) = AllTries(s.table)
         /\ Waits(a.table, ids)
<1> DEFINE T == s.table
           a == Claimed(s, ids)
           U == a.table
<1>1. /\ a.mem = s.mem /\ DOMAIN U = DOMAIN T
      /\ \A c \in DOMAIN T :
           U[c] = IF c \in ids THEN [T[c] EXCEPT !.status = "embedding"]
                  ELSE T[c]
  BY DEF Claimed
<1>2. Session(a) /\ Text(U) /\ Text(T)
  BY ClaimedFollows DEF Follows, Session
<1> HIDE DEF U
<1>3. ASSUME NEW c \in DOMAIN T
      PROVE  /\ T[c] \in ChunkRow /\ U[c] \in ChunkRow
             /\ U[c].first = T[c].first /\ U[c].last = T[c].last
             /\ U[c].attempts = T[c].attempts
             /\ U[c].status \in Unsettled <=> T[c].status \in Unsettled
             /\ c \in ids => U[c].status \in Unsettled
  <2>1. T[c] \in ChunkRow /\ U[c] \in ChunkRow
    BY <1>1, <1>2, ChunkOfText
  <2>2. CASE c \in ids
    <3>1. U[c] = [T[c] EXCEPT !.status = "embedding"]
      BY <1>1, <2>2
    <3>2. /\ U[c].first = T[c].first /\ U[c].last = T[c].last
          /\ U[c].attempts = T[c].attempts /\ U[c].status = "embedding"
      BY <2>1, <3>1 DEF ChunkRow
    <3> QED
      BY <2>1, <2>2, <3>2 DEF Waits, Unsettled
  <2>3. CASE c \notin ids
    BY <1>1, <2>1, <2>3
  <2> QED
    BY <2>2, <2>3
<1>4. ASSUME NEW c \in DOMAIN T
      PROVE  Tries(U[c]) \subseteq Tries(T[c]) /\ Tries(T[c]) \subseteq Tries(U[c])
  <2>1. /\ T[c] \in ChunkRow /\ U[c] \in ChunkRow
        /\ T[c].first \in Nat /\ T[c].last \in Nat /\ T[c].attempts \in Nat
    BY <1>3, <1>2, ChunkOfText DEF ChunkRow
  <2> QED
    BY <1>3, <2>1, FewerTries
<1>5. AllTries(U) \subseteq AllTries(T) /\ AllTries(T) \subseteq AllTries(U)
  BY <1>1, <1>4 DEF AllTries
<1>6. Knows(a)
  <2>1. DOMAIN s.mem \subseteq DOMAIN T
    BY DEF Session
  <2> QED
    BY <1>1, <1>3, <2>1 DEF Knows, U
<1>7. Waits(U, ids)
  BY <1>3 DEF Waits
<1> QED
  BY <1>1, <1>5, <1>6, <1>7 DEF U

\* Chunks that are embedded or have failed once more.
RewrittenTo(s, ids, status, memory) ==
  [table |-> [c \in DOMAIN s.table |->
                IF c \in ids
                THEN Store(s.table[c], status[c], s.mem[c], memory[c])
                ELSE s.table[c]],
   mem |-> [c \in DOMAIN s.mem |-> IF c \in ids THEN memory[c] ELSE s.mem[c]]]

LEMMA RewritingTries ==
  ASSUME NEW s, Session(s), Knows(s), NEW ids, ids \subseteq DOMAIN s.mem,
         ids # {}, Waits(s.table, ids),
         NEW status, NEW memory,
         \A c \in ids :
           /\ status[c] \in ChunkStatus /\ memory[c] \in Memories
           /\ memory[c].attempts = s.mem[c].attempts + 1
           /\ status[c] \in Unsettled => s.mem[c].attempts + 1 < MaxAttempts
  PROVE  Advances(s, RewrittenTo(s, ids, status, memory))
<1> DEFINE T == s.table
           a == RewrittenTo(s, ids, status, memory)
           U == a.table
<1>1. /\ DOMAIN U = DOMAIN T /\ DOMAIN a.mem = DOMAIN s.mem
      /\ \A c \in DOMAIN T :
           U[c] = IF c \in ids THEN Store(T[c], status[c], s.mem[c], memory[c])
                  ELSE T[c]
      /\ \A c \in DOMAIN s.mem :
           a.mem[c] = IF c \in ids THEN memory[c] ELSE s.mem[c]
  BY DEF RewrittenTo
<1>2. Follows(s, a, ids)
  BY RewritingFollows DEF RewrittenTo
<1>3. Session(a) /\ Text(U) /\ Text(T) /\ DOMAIN s.mem \subseteq DOMAIN T
  BY <1>2 DEF Follows, Session
<1> HIDE DEF U, a
<1>4. ASSUME NEW c \in ids
      PROVE  /\ s.mem[c].attempts \in Nat /\ T[c].attempts <= s.mem[c].attempts
             /\ T[c] \in ChunkRow /\ U[c] \in ChunkRow /\ T[c].first <= T[c].last
             /\ U[c].first = T[c].first /\ U[c].last = T[c].last
             /\ U[c].status = status[c]
             /\ U[c].attempts = s.mem[c].attempts + 1
  <2>1. s.mem[c] \in Memories /\ memory[c] \in Memories
        /\ status[c] \in ChunkStatus /\ c \in DOMAIN T
    BY <1>3 DEF Session
  <2>2. T[c] \in ChunkRow /\ U[c] \in ChunkRow /\ T[c].first <= T[c].last
    BY <1>1, <1>3, <2>1, ChunkOfText
  <2>3. U[c] = Store(T[c], status[c], s.mem[c], memory[c])
    BY <1>1, <2>1
  <2>4. /\ U[c].first = T[c].first /\ U[c].last = T[c].last
        /\ U[c].status = status[c]
        /\ U[c].attempts = Column(s.mem[c].attempts, memory[c].attempts,
                                  T[c].attempts)
    BY <2>1, <2>2, <2>3, StoreType
  <2>5. memory[c].attempts = s.mem[c].attempts + 1 /\ s.mem[c].attempts \in Nat
    BY <2>1 DEF Memories
  <2>6. U[c].attempts = s.mem[c].attempts + 1
    BY <2>4, <2>5 DEF Column
  <2>7. T[c].attempts <= s.mem[c].attempts
    BY DEF Knows
  <2> QED
    BY <2>2, <2>4, <2>5, <2>6, <2>7
<1>5. ASSUME NEW c \in ids
      PROVE  /\ Tries(U[c]) \subseteq Tries(T[c])
             /\ \E try \in Tries(T[c]) : try \notin Tries(U[c])
  <2>1. U[c].status \in Unsettled => s.mem[c].attempts + 1 < MaxAttempts
    BY <1>4
  <2>2. T[c].status \in Unsettled
    BY DEF Waits
  <2> QED
    BY <1>4, <2>1, <2>2, AttemptTries
<1>6. \A c \in DOMAIN T :
           /\ U[c].first = T[c].first /\ U[c].last = T[c].last
           /\ Tries(U[c]) \subseteq Tries(T[c])
  BY <1>1, <1>4, <1>5
<1>7. \E c \in DOMAIN T : \E try \in Tries(T[c]) : try \notin Tries(U[c])
  BY <1>3, <1>5
<1>8. AllTries(U) \subseteq AllTries(T) /\ AllTries(U) # AllTries(T)
  BY <1>1, <1>3, <1>6, <1>7, FewerInAll
<1>9. Knows(a)
  <2>1. ASSUME NEW c \in DOMAIN a.mem
        PROVE  U[c].attempts <= a.mem[c].attempts
    <3>1. CASE c \in ids
      BY <1>1, <1>4, <2>1, <3>1
    <3>2. CASE c \notin ids
      BY <1>1, <1>3, <2>1, <3>2 DEF Knows
    <3> QED
      BY <3>1, <3>2
  <2> QED
    BY <2>1 DEF Knows, U
<1> QED
  BY <1>8, <1>9 DEF U, a, Advances

LEMMA VectorisedTries ==
  ASSUME NEW s, Session(s), Knows(s), NEW ids, ids \subseteq DOMAIN s.mem,
         ids # {}, Waits(s.table, ids)
  PROVE  Advances(s, Vectorised(s, ids))
<1> DEFINE status == [c \in ids |-> "embedded"]
           memory == [c \in ids |-> Embedded(s.mem[c])]
<1>1. ASSUME NEW c \in ids
      PROVE  /\ status[c] \in ChunkStatus /\ memory[c] \in Memories
             /\ memory[c].attempts = s.mem[c].attempts + 1
             /\ status[c] \in Unsettled => s.mem[c].attempts + 1 < MaxAttempts
  <2>1. s.mem[c] \in Memories
    BY DEF Session
  <2>2. memory[c] = Embedded(s.mem[c]) /\ status[c] = "embedded"
    OBVIOUS
  <2> QED
    BY <2>1, <2>2, MemoryTypes DEF Embedded, ChunkStatus, Unsettled
<1>2. Vectorised(s, ids) = RewrittenTo(s, ids, status, memory)
  BY DEF Vectorised, Rewritten, RewrittenTo
<1> HIDE DEF status, memory
<1>3. \A c \in ids :
        /\ status[c] \in ChunkStatus /\ memory[c] \in Memories
        /\ memory[c].attempts = s.mem[c].attempts + 1
        /\ status[c] \in Unsettled => s.mem[c].attempts + 1 < MaxAttempts
  BY <1>1
<1> QED
  BY <1>2, <1>3, RewritingTries

LEMMA MarkFailedTries ==
  ASSUME NEW s, Session(s), Knows(s), NEW ids, ids \subseteq DOMAIN s.mem,
         ids # {}, Waits(s.table, ids), NEW force
  PROVE  Advances(s, MarkFailed(s, ids, force))
<1> DEFINE status == [c \in ids |->
                        IF force \/ s.mem[c].attempts + 1 >= MaxAttempts
                        THEN "failed" ELSE "pending"]
           memory == [c \in ids |-> Missed(s.mem[c])]
<1>1. ASSUME NEW c \in ids
      PROVE  /\ status[c] \in ChunkStatus /\ memory[c] \in Memories
             /\ memory[c].attempts = s.mem[c].attempts + 1
             /\ status[c] \in Unsettled => s.mem[c].attempts + 1 < MaxAttempts
  <2>1. s.mem[c] \in Memories /\ s.mem[c].attempts \in Nat
    BY DEF Session, Memories
  <2>2. memory[c] = Missed(s.mem[c])
    OBVIOUS
  <2>3. memory[c] \in Memories /\ memory[c].attempts = s.mem[c].attempts + 1
    BY <2>1, <2>2, MemoryTypes DEF Missed, Memories
  <2>4. status[c] = IF force \/ s.mem[c].attempts + 1 >= MaxAttempts
                    THEN "failed" ELSE "pending"
    OBVIOUS
  <2>5. MaxAttempts \in Nat
    BY CapabilitiesAssumption
  <2>6. status[c] \in ChunkStatus
        /\ (status[c] \in Unsettled => s.mem[c].attempts + 1 < MaxAttempts)
    <3> HIDE DEF status
    <3>1. CASE s.mem[c].attempts + 1 >= MaxAttempts
      BY <2>4, <3>1 DEF ChunkStatus, Unsettled
    <3>2. CASE ~(s.mem[c].attempts + 1 >= MaxAttempts)
      <4>1. s.mem[c].attempts + 1 < MaxAttempts
        BY <2>1, <2>5, <3>2
      <4>2. status[c] = "failed" \/ status[c] = "pending"
        BY <2>4
      <4> QED
        BY <4>1, <4>2 DEF ChunkStatus
    <3> QED
      BY <3>1, <3>2
  <2> QED
    BY <2>3, <2>6
<1>2. MarkFailed(s, ids, force) = RewrittenTo(s, ids, status, memory)
  BY DEF MarkFailed, Rewritten, RewrittenTo
<1> HIDE DEF status, memory
<1>3. \A c \in ids :
        /\ status[c] \in ChunkStatus /\ memory[c] \in Memories
        /\ memory[c].attempts = s.mem[c].attempts + 1
        /\ status[c] \in Unsettled => s.mem[c].attempts + 1 < MaxAttempts
  BY <1>1
<1> QED
  BY <1>2, <1>3, RewritingTries

\* A chunk that is cut: the pieces have an attempt less, or a part of what
\* there was, and nobody parts the same two tokens again.
LEMMA CutTries ==
  ASSUME NEW s, Session(s), Knows(s), NEW c \in DOMAIN s.mem,
         s.table[c].status \in Unsettled, Len(Pieces(s.table[c])) # 1
  PROVE  LET U == InPieces(s, c, TRUE) IN
         /\ AllTries(U) \subseteq AllTries(s.table)
         /\ AllTries(U) # AllTries(s.table)
         /\ U[c].attempts = s.mem[c].attempts + 1
         /\ \A d \in DOMAIN s.table \ {c} : U[d].attempts = s.table[d].attempts
<1> DEFINE T == s.table
           U == InPieces(s, c, TRUE)
           p == Pieces(T[c])
           len == Len(T)
           attempts == s.mem[c].attempts + 1
<1>1. c \in DOMAIN T /\ Text(T) /\ s.mem[c] \in Memories
  BY DEF Session
<1>2. /\ T[c] \in ChunkRow /\ T[c].first <= T[c].last
      /\ T[c].first \in Nat /\ T[c].last \in Nat
  BY <1>1, ChunkOfText
<1>3. PICK n \in Nat \ {0} :
           /\ Len(p) = n
           /\ \A k \in 1..n :
                /\ p[k].first \in Nat /\ p[k].last \in Nat
                /\ T[c].first <= p[k].first
                /\ p[k].first <= p[k].last
                /\ p[k].last <= T[c].last
           /\ p[1].first = T[c].first
           /\ \A k, m \in 1..n : k < m => p[k].last < p[m].first
           /\ \A x \in T[c].first..T[c].last :
                \E k \in 1..n : x \in p[k].first..p[k].last
  BY <1>2, PiecesOfChunk
<1>4. CutRows(T, c, attempts, p, n, U)
  <2>1. \A k \in 1..n : p[k].first \in Nat /\ p[k].last \in Nat
    BY <1>3
  <2>2. Len(p) = n
    BY <1>3
  <2> QED
    BY <2>1, <2>2, InPiecesRows
<1>5. Text(U)
  BY SplitTiles
<1>6. n >= 2
  BY <1>3
<1>7. attempts \in Nat /\ T[c].attempts <= attempts /\ T[c].attempts \in Nat
  <2>1. s.mem[c].attempts \in Nat /\ T[c].attempts \in Nat
    BY <1>1, <1>2 DEF Memories, ChunkRow
  <2>2. T[c].attempts <= s.mem[c].attempts
    BY DEF Knows
  <2> QED
    BY <2>1, <2>2
<1> HIDE DEF T, U, p, attempts
<1>8. /\ len \in Nat /\ DOMAIN T = 1..len /\ DOMAIN U = 1..(len + (n - 1))
      /\ c \in 1..len
  BY <1>1, <1>4 DEF CutRows
<1> HIDE DEF len
\* The pieces are parts of the chunk.
<1>9. ASSUME NEW d \in DOMAIN U
      PROVE  /\ U[d] \in ChunkRow
             /\ U[d].first \in Nat /\ U[d].last \in Nat
             /\ U[d].first <= U[d].last
  BY <1>5, ChunkOfText
<1>10. /\ U[c].first = T[c].first /\ U[c].last = p[1].last
       /\ U[c].status = "pending" /\ U[c].attempts = attempts /\ c \in DOMAIN U
  BY <1>4, <1>6, <1>8 DEF CutRows
<1>11. /\ p[1].last \in Nat /\ p[1].last < T[c].last
       /\ T[c].first <= p[1].last
  <2>1. 1 \in 1..n /\ 2 \in 1..n /\ 1 < 2
    BY <1>6
  <2>2. p[1].last < p[2].first /\ p[2].first <= p[2].last
        /\ p[2].last <= T[c].last /\ p[1].last \in Nat /\ p[2].first \in Nat
        /\ p[2].last \in Nat /\ p[1].first <= p[1].last
        /\ p[1].first = T[c].first
    BY <1>3, <2>1
  <2> QED
    BY <1>2, <2>2
<1>12. Tries(U[c]) \subseteq Tries(T[c])
  <2>1. U[c].last <= T[c].last
    BY <1>2, <1>10, <1>11
  <2>2. T[c].first <= U[c].first
    BY <1>2, <1>10
  <2>3. U[c] \in ChunkRow
    BY <1>9, <1>10
  <2>4. T[c].status \in Unsettled
    BY DEF T
  <2> QED
    BY <1>2, <1>7, <1>10, <2>1, <2>2, <2>3, <2>4, FewerTries
<1>13. ASSUME NEW i \in 1..(n - 1)
       PROVE  Tries(U[len + i]) \subseteq Tries(T[c])
  <2>1. /\ U[len + i].first = p[i + 1].first
        /\ U[len + i].last = p[i + 1].last
    BY <1>4 DEF CutRows, len
  <2>2. i + 1 \in 1..n /\ 1 \in 1..n /\ 1 < i + 1
    BY <1>6
  <2>3. /\ p[i + 1].first \in Nat /\ p[i + 1].last <= T[c].last
        /\ p[1].last < p[i + 1].first
    BY <1>3, <2>2
  <2>4. T[c].first < p[i + 1].first
    BY <1>2, <1>11, <2>3
  <2>5. U[len + i] \in ChunkRow
    <3>1. len + i \in 1..(len + (n - 1))
      BY <1>8
    <3> QED
      BY <1>8, <1>9, <3>1
  <2>6. T[c].status \in Unsettled
    BY DEF T
  <2>7. T[c].first <= U[len + i].first /\ U[len + i].last <= T[c].last
        /\ U[len + i].first # T[c].first
    BY <1>2, <2>1, <2>3, <2>4
  <2> QED
    BY <1>2, <2>5, <2>6, <2>7, FewerTries
<1>14. ASSUME NEW d \in (1..len) \ {c}
       PROVE  /\ Tries(U[d]) \subseteq Tries(T[d])
              /\ U[d].attempts = T[d].attempts
  <2>1. /\ U[d].first = T[d].first /\ U[d].last = T[d].last
        /\ U[d].status = T[d].status /\ U[d].attempts = T[d].attempts
    BY <1>4 DEF CutRows, len
  <2>2. /\ T[d] \in ChunkRow /\ T[d].first \in Nat /\ T[d].last \in Nat
        /\ T[d].attempts \in Nat
    BY <1>1, <1>8, ChunkOfText DEF ChunkRow, T
  <2>3. d \in 1..(len + (n - 1))
    BY <1>6, <1>8
  <2>4. U[d] \in ChunkRow
    BY <1>8, <1>9, <2>3
  <2> QED
    BY <2>1, <2>2, <2>4, FewerTries
<1>15. AllTries(U) \subseteq AllTries(T)
  <2>1. ASSUME NEW d \in DOMAIN U
        PROVE  \E e \in DOMAIN T : Tries(U[d]) \subseteq Tries(T[e])
    <3>1. CASE d = c
      BY <1>8, <1>12, <3>1
    <3>2. CASE d \in (1..len) \ {c}
      BY <1>8, <1>14, <3>2
    <3>3. CASE d \notin 1..len
      <4>1. d - len \in 1..(n - 1) /\ len + (d - len) = d
        BY <1>6, <1>8, <3>3
      <4>2. Tries(U[d]) \subseteq Tries(T[c])
        BY <1>13, <4>1
      <4> QED
        BY <1>8, <4>2
    <3> QED
      BY <3>1, <3>2, <3>3
  <2> QED
    BY <2>1 DEF AllTries
\* Where the chunk was cut there is nothing left to try.
<1> DEFINE place == 2 * p[1].last + 1
           try == <<place, MaxAttempts>>
<1>16. try \in AllTries(T)
  <2>1. MaxAttempts \in 1..MaxAttempts
    BY CapabilitiesAssumption
  <2>2. place \in (2 * T[c].first)..(2 * T[c].last) /\ place # 2 * T[c].first
    BY <1>2, <1>11
  <2>3. T[c].status \in Unsettled
    BY DEF T
  <2> HIDE DEF place
  <2>4. try \in Tries(T[c])
    BY <1>2, <2>1, <2>2, <2>3, TriesOf
  <2> QED
    BY <1>8, <2>4 DEF AllTries
<1>17. ASSUME NEW d \in DOMAIN U, try \in Tries(U[d])
       PROVE  FALSE
  <2>1. place \in (2 * U[d].first)..(2 * U[d].last)
    <3>1. U[d] \in ChunkRow
      BY <1>9
    <3> HIDE DEF place
    <3> QED
      BY <1>17, <3>1, TriesOf
  <2>2. /\ U[d].first \in Nat /\ U[d].last \in Nat /\ U[c].first \in Nat
        /\ U[d].first <= U[d].last
    BY <1>9, <1>10
  <2>3. U[c].last = p[1].last /\ U[c].first <= p[1].last
    BY <1>10, <1>11
  <2>4. CASE d = c
    BY <1>11, <2>1, <2>2, <2>3, <2>4
  <2>5. CASE d # c
    <3>1. Apart(U[c], U[d])
      BY <1>5, <1>10, <2>5 DEF Text, Tiles
    <3>2. U[c].last < U[d].first \/ U[d].last < U[c].first
      BY <3>1 DEF Apart
    <3> QED
      BY <1>11, <2>1, <2>2, <2>3, <3>2
  <2> QED
    BY <2>4, <2>5
<1>18. try \notin AllTries(U)
  BY <1>17 DEF AllTries
<1> HIDE DEF try
<1>19. AllTries(U) # AllTries(T)
  BY <1>16, <1>18
<1> QED
  BY <1>8, <1>10, <1>14, <1>15, <1>19 DEF T, U, attempts

LEMMA SplitTries ==
  ASSUME NEW s, Session(s), Knows(s), NEW c \in DOMAIN s.mem,
         s.table[c].status \in Unsettled
  PROVE  Advances(s, SplitChunk(s, c))
<1>1. CASE Len(Pieces(s.table[c])) = 1
  <2>1. SplitChunk(s, c) = MarkFailed(s, {c}, TRUE)
    BY <1>1 DEF SplitChunk
  <2>2. {c} \subseteq DOMAIN s.mem /\ {c} # {} /\ Waits(s.table, {c})
    BY DEF Waits
  <2> QED
    BY <2>1, <2>2, MarkFailedTries
<1>2. CASE Len(Pieces(s.table[c])) # 1
  <2> DEFINE U == InPieces(s, c, TRUE)
             M == [s.mem EXCEPT ![c] = Emptied(@)]
             a == SplitChunk(s, c)
  <2>1. a = [table |-> U, mem |-> M]
    BY <1>2 DEF SplitChunk
  <2>2. /\ AllTries(U) \subseteq AllTries(s.table)
        /\ AllTries(U) # AllTries(s.table)
        /\ U[c].attempts = s.mem[c].attempts + 1
        /\ \A d \in DOMAIN s.table \ {c} : U[d].attempts = s.table[d].attempts
    BY <1>2, CutTries
  <2>3. /\ DOMAIN M = DOMAIN s.mem /\ DOMAIN s.mem \subseteq DOMAIN s.table
        /\ M[c] = Emptied(s.mem[c])
        /\ \A d \in DOMAIN s.mem \ {c} : M[d] = s.mem[d]
    BY DEF Session
  <2>4. s.mem[c].attempts \in Nat
    BY DEF Session, Memories
  <2>5. M[c].attempts = s.mem[c].attempts + 1
    BY <2>3 DEF Emptied
  <2> HIDE DEF U, M, a
  <2>6. a.table = U /\ a.mem = M
    BY <2>1
  <2>7. ASSUME NEW d \in DOMAIN a.mem
        PROVE  a.table[d].attempts <= a.mem[d].attempts
    <3>1. CASE d = c
      BY <2>2, <2>4, <2>5, <2>6, <3>1
    <3>2. CASE d # c
      <4>1. /\ U[d].attempts = s.table[d].attempts /\ M[d] = s.mem[d]
            /\ d \in DOMAIN s.mem
        BY <2>2, <2>3, <2>6, <3>2
      <4> QED
        BY <2>6, <4>1 DEF Knows
    <3> QED
      BY <3>1, <3>2
  <2>8. Knows(a)
    BY <2>7 DEF Knows
  <2> QED
    BY <2>2, <2>6, <2>8 DEF Advances, a
<1> QED
  BY <1>1, <1>2

\* One call of the provider leaves less to try of its slice.
LEMMA SettledTries ==
  ASSUME NEW s, Session(s), Knows(s), NEW slice,
         slice.ids \subseteq DOMAIN s.mem, slice.ids # {},
         Waits(s.table, slice.ids), NEW answer
  PROVE  Advances(s, Settled(Claimed(s, slice.ids), slice, answer))
<1> DEFINE ids == slice.ids
           a == Claimed(s, ids)
           b == Settled(a, slice, answer)
<1>1. Session(a) /\ ids \subseteq DOMAIN a.mem
  BY ClaimedFollows DEF Follows
<1>2. /\ Knows(a) /\ AllTries(a.table) = AllTries(s.table)
      /\ Waits(a.table, ids)
  <2>1. ids \subseteq DOMAIN s.table
    BY DEF Session
  <2> QED
    BY <2>1, ClaimedTries
<1> HIDE DEF a, b
<1>3. Advances(a, b)
  <2>1. CASE answer = "vectors"
    <3>1. b = Vectorised(a, ids)
      BY <2>1 DEF Settled, b
    <3> QED
      BY <1>1, <1>2, <3>1, VectorisedTries
  <2>2. CASE answer # "vectors" /\ answer = "oversized" /\ Cardinality(ids) = 1
    <3> DEFINE c == CHOOSE c \in ids : TRUE
    <3>1. c \in ids
      OBVIOUS
    <3>2. b = SplitChunk(a, c)
      BY <2>2 DEF Settled, b
    <3> HIDE DEF c
    <3>3. a.table[c].status \in Unsettled /\ c \in DOMAIN a.mem
      BY <1>1, <1>2, <3>1 DEF Waits
    <3> QED
      BY <1>1, <1>2, <3>2, <3>3, SplitTries
  <2>3. CASE answer # "vectors" /\ ~(answer = "oversized" /\ Cardinality(ids) = 1)
    <3>1. b = MarkFailed(a, ids, answer \in {"rejected", "other"})
      BY <2>3 DEF Settled, b
    <3> QED
      BY <1>1, <1>2, <3>1, MarkFailedTries
  <2> QED
    BY <2>1, <2>2, <2>3
<1> QED
  BY <1>2, <1>3 DEF Advances, a, b

\* The last of some chunks is not among the first n, if there are more.
LEMMA LastIsNot ==
  ASSUME NEW T, Text(T), NEW ids, ids \subseteq DOMAIN T,
         NEW n \in Nat \ {0}, n < Cardinality(ids)
  PROVE  ids \ FirstOf(T, ids, n) # {}
<1> DEFINE ends == {TextLength - T[c].last : c \in ids}
<1>1. ASSUME NEW c \in ids
      PROVE  /\ T[c].first \in Nat /\ T[c].last \in Nat /\ T[c].index \in Nat
             /\ T[c].first <= T[c].last /\ T[c].last <= TextLength
  <2>1. /\ T[c].first \in Nat /\ T[c].last \in Nat /\ T[c].index \in Nat
        /\ T[c].first <= T[c].last
    BY ChunkOfText
  <2>2. T[c].first..T[c].last \subseteq 1..TextLength
    BY DEF Text, Tiles
  <2> QED
    BY <2>1, <2>2, TextAssumption
<1>2. IsFiniteSet(ids) /\ ids # {}
  <2>1. IsFiniteSet(DOMAIN T)
    BY Listed, FS_Interval DEF Text
  <2>2. IsFiniteSet(ids)
    BY <2>1, FS_Subset
  <2>3. Cardinality({}) = 0
    BY FS_EmptySet
  <2> QED
    BY <2>2, <2>3
<1>3. ends \subseteq Nat /\ ends # {}
  BY <1>1, <1>2, TextAssumption
<1> HIDE DEF ends
<1>4. PICK m \in ends : \A k \in ends : m <= k
  BY <1>3, LeastElement
<1>5. PICK c \in ids : TextLength - T[c].last = m
  BY <1>4 DEF ends
<1>6. ASSUME NEW d \in ids, d # c
      PROVE  T[d].index < T[c].index
  <2>1. TextLength - T[d].last \in ends
    BY DEF ends
  <2>2. TextLength - T[c].last <= TextLength - T[d].last
    BY <1>4, <1>5, <2>1
  <2>3. T[d].last <= T[c].last
    BY <1>1, <2>2, TextAssumption
  <2>4. Apart(T[c], T[d])
    BY <1>6 DEF Text, Tiles
  <2> QED
    BY <1>1, <2>3, <2>4 DEF Apart
<1>7. {d \in ids : T[d].index < T[c].index} = ids \ {c}
  <2>1. ~(T[c].index < T[c].index)
    BY <1>1
  <2> QED
    BY <1>6, <2>1
<1>8. Cardinality(ids \ {c}) = Cardinality(ids) - 1
      /\ Cardinality(ids) \in Nat
  BY <1>2, FS_RemoveElement, FS_CardinalityType
<1>9. ~(Cardinality({d \in ids : T[d].index < T[c].index}) < n)
  BY <1>7, <1>8
<1>10. c \notin FirstOf(T, ids, n)
  BY <1>9 DEF FirstOf
<1> QED
  BY <1>10

\* Neither half of a slice is empty.
LEMMA HalvesNotEmpty ==
  ASSUME NEW T, Text(T), NEW slice \in Slices, slice.ids \subseteq DOMAIN T,
         Cardinality(slice.ids) > 1
  PROVE  LET h == Halves(T, slice) IN h[1].ids # {} /\ h[2].ids # {}
<1> DEFINE n == Cardinality(slice.ids) \div 2
           ids == FirstOf(T, slice.ids, n)
           a == [ids |-> ids, depth |-> slice.depth + 1]
           b == [ids |-> slice.ids \ ids, depth |-> slice.depth + 1]
<1>1. Cardinality(slice.ids) \in Nat
  <2>1. IsFiniteSet(DOMAIN T)
    BY Listed, FS_Interval DEF Text
  <2>2. IsFiniteSet(slice.ids)
    BY <2>1, FS_Subset
  <2> QED
    BY <2>2, FS_CardinalityType
<1>2. n \in Nat \ {0} /\ n < Cardinality(slice.ids)
  BY <1>1
<1>3. slice.ids # {}
  BY FS_EmptySet
<1> HIDE DEF n
<1>4. ids # {} /\ slice.ids \ ids # {}
  BY <1>2, <1>3, FirstIsThere, LastIsNot
<1>5. Halves(T, slice) = <<a, b>>
  BY DEF Halves, n
<1>6. a.ids = ids /\ b.ids = slice.ids \ ids
  OBVIOUS
<1> HIDE DEF a, b, ids
<1> QED
  BY <1>4, <1>5, <1>6

----------------------------------------------------------------------------
(* What is left to try, in every state.                                    *)

\* What a task has still to do in its batch waits to be done, and when there is
\* nothing more less is left than before.  While a request holds the chunks, no
\* task has written any.
TriesInv ==
  /\ Knows([table |-> Table, mem |-> run.mem])
  /\ run.pc = "split" => Waits(Table, run.long)
  /\ run.pc \in {"touch", "call"} =>
       /\ \A k \in DOMAIN run.work :
            run.work[k].ids # {} /\ Waits(Table, run.work[k].ids)
       /\ run.work = <<>> => AllTries(Table) # AllTries(chunk)
  /\ AllTries(Table) \subseteq AllTries(chunk)
  /\ api.stage = "chunks" => run.own = <<>>

\* A task that begins, or ends.
LEMMA TriesRestart ==
  ASSUME run'.own = <<>>, run'.mem = <<>>,
         run'.pc \notin {"split", "touch", "call"}
  PROVE  TriesInv'
<1>1. Table' = chunk'
  BY DEF Table
<1>2. Knows([table |-> Table', mem |-> run'.mem])
  BY DEF Knows
<1> QED
  BY <1>1, <1>2 DEF TriesInv

LEMMA TriesInit == Init => TriesInv
<1> SUFFICES ASSUME Init PROVE TriesInv
  OBVIOUS
<1>1. run.own = <<>> /\ run.mem = <<>> /\ run.pc = "idle" /\ run.work = <<>>
  BY IdleType DEF Init
<1>2. Table = chunk
  BY <1>1 DEF Table
<1>3. Knows([table |-> Table, mem |-> run.mem])
  BY <1>1 DEF Knows
<1> QED
  BY <1>1, <1>2, <1>3 DEF TriesInv

\* A step that writes no chunks.
LEMMA TriesStay ==
  ASSUME TriesInv, UNCHANGED chunk,
         run'.own = run.own, run'.mem = run.mem,
         \/ run'.pc \notin {"split", "touch", "call"}
         \/ run'.pc = run.pc /\ run'.long = run.long /\ run'.work = run.work
         \/ run'.pc = "call" /\ run.pc = "touch" /\ run'.work = run.work,
         api'.stage = "chunks" => api.stage = "chunks" \/ run.own = <<>>
  PROVE  TriesInv'
<1>1. Table' = Table
  BY DEF Table
<1> QED
  BY <1>1 DEF TriesInv

\* The steps of a task that write no chunks, and those of requests.
LEMMA QuietStepsKeepTries ==
  ASSUME Inv, TriesInv, Skip \/ Start \/ Check \/ Touch \/ Finalize
  PROVE  TriesInv'
<1>1. run \in Tasks /\ UNCHANGED <<chunk, api>>
  BY DEF Inv, TypeInv, Skip, Start, Check, Touch, Finalize
<1>2. CASE Skip
  <2>1. run' = [run EXCEPT !.pc = "commit", !.exit = "skipped"]
    BY <1>2 DEF Skip
  <2>2. run'.own = run.own /\ run'.mem = run.mem /\ run'.pc = "commit"
    BY <1>1, <2>1 DEF Tasks
  <2> QED
    BY <1>1, <2>2, TriesStay
<1>3. CASE Start
  <2> DEFINE new == Refreshed([doc EXCEPT !.started = TRUE], chunk)
             columns == {} \cup run.columns \cup Changed(doc, new)
  <2>1. run' = [[[run EXCEPT !.doc = doc] EXCEPT !.doc = new,
                   !.columns = @ \cup Changed([run EXCEPT !.doc = doc].doc, new)]
                  EXCEPT !.pc = "check", !.active = active]
    BY <1>3 DEF Start, Flushed
  <2> HIDE DEF new
  <2>2. run'.own = run.own /\ run'.mem = run.mem /\ run'.pc = "check"
    BY <1>1, <2>1 DEF Tasks
  <2> QED
    BY <1>1, <2>2, TriesStay
<1>4. CASE Check
  <2>1. \/ run' = [run EXCEPT !.pc = "finalize", !.exit = "cancelled"]
        \/ run' = [run EXCEPT !.pc = "load"]
        \/ run' = [run EXCEPT !.pc = "finalize",
                     !.exit = IF Continues(Table) THEN "continued" ELSE "none"]
    BY <1>4 DEF Check
  <2>2. /\ run'.own = run.own /\ run'.mem = run.mem
        /\ run'.pc = "finalize" \/ run'.pc = "load"
    BY <1>1, <2>1 DEF Tasks
  <2>3. run'.pc \notin {"split", "touch", "call"}
    BY <2>2
  <2> QED
    BY <1>1, <2>2, <2>3, TriesStay
<1>5. CASE Touch
  <2>1. run' = [run EXCEPT !.pc = "call"] /\ run.pc = "touch"
    BY <1>5 DEF Touch
  <2>2. /\ run'.own = run.own /\ run'.mem = run.mem /\ run'.work = run.work
        /\ run'.pc = "call"
    BY <1>1, <2>1 DEF Tasks
  <2> QED
    BY <1>1, <2>1, <2>2, TriesStay
<1>6. CASE Finalize
  <2>1. PICK new, space : run' = [Flushed(run, new) EXCEPT !.pc = "commit",
                                                           !.space = space]
    BY <1>6 DEF Finalize
  <2>2. Flushed(run, new) = [run EXCEPT !.doc = new,
                               !.columns = Flushed(run, new).columns]
    BY <1>1 DEF Flushed, Tasks
  <2> DEFINE f == Flushed(run, new)
             columns == f.columns
  <2>3. /\ f.own = run.own /\ f.mem = run.mem
        /\ {"own", "mem", "pc", "space"} \subseteq DOMAIN f
    <3>1. f = [run EXCEPT !.doc = new, !.columns = columns]
      BY <2>2
    <3> HIDE DEF f, columns
    <3> QED
      BY <1>1, <3>1 DEF Tasks
  <2> HIDE DEF f
  <2>4. run' = [f EXCEPT !.pc = "commit", !.space = space]
    BY <2>1 DEF f
  <2>5. run'.own = run.own /\ run'.mem = run.mem /\ run'.pc = "commit"
    BY <2>3, <2>4
  <2> QED
    BY <1>1, <2>5, TriesStay
<1> QED
  BY <1>2, <1>3, <1>4, <1>5, <1>6

\* The batch that is loaded waits.
LEMMA LoadingKeepsTries ==
  ASSUME Inv, TriesInv, Load \/ Reload
  PROVE  TriesInv'
<1> DEFINE batch == PendingBatch(Table)
           M == Memory(batch)
           long == TooLong(Table, batch)
           pc == IF batch = {} THEN "finalize"
                 ELSE IF long = {} THEN "touch" ELSE "split"
           work == IF batch # {} /\ long = {} THEN WholeBatch(batch) ELSE <<>>
           pc2 == IF batch = {} THEN "check" ELSE "touch"
           work2 == IF batch = {} THEN <<>> ELSE WholeBatch(batch)
<1>1. run \in Tasks /\ UNCHANGED <<chunk, api>>
  BY DEF Inv, TypeInv, Load, Reload
<1>2. /\ batch \subseteq DOMAIN Table /\ batch \in SUBSET Nat
      /\ Memory(batch) \in [batch -> Memories]
      /\ TooLong(Table, batch) \subseteq batch
  BY LoadedBatch
<1>3. Waits(Table, batch)
  BY DEF Waits, PendingBatch, FirstOf, Having
<1>4. Knows([table |-> Table, mem |-> M])
  <2>1. ASSUME NEW c \in batch
        PROVE  Table[c].attempts <= M[c].attempts
    <3>1. CASE c \in DOMAIN run.mem
      <4>1. M[c] = run.mem[c]
        BY <3>1 DEF Memory
      <4> QED
        BY <3>1, <4>1 DEF TriesInv, Knows
    <3>2. CASE c \notin DOMAIN run.mem
      <4>1. M[c] = Remembered(Table[c])
        BY <3>2 DEF Memory
      <4>2. Table[c] \in ChunkRow
        BY <1>2, ChunkOfText DEF Inv, FitsIn, Session
      <4>3. M[c].attempts = Table[c].attempts /\ Table[c].attempts \in Nat
        BY <4>1, <4>2 DEF Remembered, ChunkRow
      <4> QED
        BY <4>3
    <3> QED
      BY <3>1, <3>2
  <2>2. DOMAIN M = batch
    BY <1>2
  <2> HIDE DEF M
  <2> QED
    BY <2>1, <2>2 DEF Knows
<1>5. /\ \A k \in DOMAIN WholeBatch(batch) :
           k = 1 /\ WholeBatch(batch)[k].ids = batch
      /\ WholeBatch(batch) # <<>>
  BY <1>2, WholeBatchType DEF WholeBatch
\* What both leave: a batch, or nothing.
<1>6. /\ run'.own = run.own /\ run'.mem = M
      /\ run'.pc = "split" => run'.long \subseteq batch
      /\ run'.pc \in {"touch", "call"} =>
           batch # {} /\ run'.work = WholeBatch(batch)
  <2>1. CASE Load
    <3>1. run' = [run EXCEPT !.mem = M, !.long = long, !.pc = pc, !.work = work]
      BY <2>1 DEF Load
    <3>2. /\ pc \in {"touch", "call"} => batch # {} /\ work = WholeBatch(batch)
          /\ long \subseteq batch
      BY <1>2
    <3> HIDE DEF batch, M, long, pc, work
    <3>3. /\ run'.own = run.own /\ run'.mem = M /\ run'.long = long
          /\ run'.pc = pc /\ run'.work = work
      BY <1>1, <3>1 DEF Tasks
    <3> QED
      BY <3>2, <3>3
  <2>2. CASE Reload
    <3>1. run' = [run EXCEPT !.mem = M, !.pc = pc2, !.work = work2]
      BY <2>2 DEF Reload
    <3>2. /\ pc2 \in {"touch", "call"} => batch # {} /\ work2 = WholeBatch(batch)
          /\ pc2 # "split"
      OBVIOUS
    <3> HIDE DEF batch, M, pc2, work2
    <3>3. /\ run'.own = run.own /\ run'.mem = M
          /\ run'.pc = pc2 /\ run'.work = work2
      BY <1>1, <3>1 DEF Tasks
    <3> QED
      BY <3>2, <3>3
  <2> QED
    BY <2>1, <2>2
<1>7. Table' = Table
  BY <1>1, <1>6 DEF Table
<1> HIDE DEF batch, M
<1>8. run'.pc = "split" => Waits(Table', run'.long)
  BY <1>3, <1>6, <1>7 DEF Waits
<1>9. run'.pc \in {"touch", "call"} =>
        /\ \A k \in DOMAIN run'.work :
             run'.work[k].ids # {} /\ Waits(Table', run'.work[k].ids)
        /\ run'.work # <<>>
  BY <1>3, <1>5, <1>6, <1>7
<1> QED
  BY <1>1, <1>4, <1>6, <1>7, <1>8, <1>9 DEF TriesInv

\* The fields of a task that has written chunks.
LEMMA WritingTask ==
  ASSUME NEW r \in Tasks, NEW new, NEW T, NEW M, NEW long, NEW work,
         NEW dimension
  PROVE  LET a == [Flushed(r, new) EXCEPT !.own = T, !.mem = M, !.long = long]
             b == [Flushed(r, new) EXCEPT !.own = T, !.mem = M, !.work = work,
                                          !.dimension = dimension]
         IN  /\ a.own = T /\ a.mem = M /\ a.long = long /\ a.pc = r.pc
             /\ b.own = T /\ b.mem = M /\ b.work = work /\ b.pc = r.pc
             /\ Flushed(r, new).long = r.long /\ Flushed(r, new).work = r.work
             /\ Flushed(r, new).dimension = r.dimension
<1> DEFINE columns == r.columns \cup Changed(r.doc, new)
           f == Flushed(r, new)
<1>1. f = [r EXCEPT !.doc = new, !.columns = columns]
  BY DEF Flushed
<1> HIDE DEF f, columns
<1>2. /\ f.pc = r.pc /\ f.long = r.long /\ f.work = r.work
      /\ f.dimension = r.dimension
      /\ {"own", "mem", "long", "pc", "work", "dimension"} \subseteq DOMAIN f
  BY <1>1 DEF Tasks
<1> QED
  BY <1>2 DEF f

\* The task has written chunks of its table, and less is left to try.
LEMMA WritesKeepTries ==
  ASSUME Inv, TriesInv, UNCHANGED <<chunk, api>>, NEW a, NEW ids,
         Follows([table |-> Table, mem |-> run.mem], a, ids),
         Advances([table |-> Table, mem |-> run.mem], a),
         run'.own = a.table, run'.mem = a.mem, run'.pc = run.pc,
         api.stage # "chunks",
         run'.pc = "split" =>
           run'.long \subseteq run.long \ ids,
         run'.pc \in {"touch", "call"} =>
           \A k \in DOMAIN run'.work : \E l \in DOMAIN run.work :
             /\ run'.work[k].ids = run.work[l].ids
             /\ run.work[l].ids \cap ids = {}
  PROVE  TriesInv'
<1> DEFINE s == [table |-> Table, mem |-> run.mem]
<1>1. s.table = Table /\ s.mem = run.mem
  OBVIOUS
<1> HIDE DEF s
<1>2. /\ Session(a) /\ DOMAIN Table \subseteq DOMAIN a.table
      /\ \A c \in DOMAIN Table \ ids : a.table[c].status = Table[c].status
  BY <1>1 DEF Follows, s
<1>3. a = [table |-> a.table, mem |-> a.mem] /\ a.table # <<>>
  BY <1>2, TextNotEmpty DEF Session
<1>4. Table' = a.table
  BY <1>3 DEF Table
<1>5. Knows([table |-> Table', mem |-> run'.mem])
  BY <1>3, <1>4 DEF Advances
<1>6. /\ AllTries(Table') \subseteq AllTries(Table)
      /\ AllTries(Table') # AllTries(Table)
  BY <1>1, <1>4 DEF Advances, s
<1>7. AllTries(Table) \subseteq AllTries(chunk)
  BY DEF TriesInv
<1>8. AllTries(Table') \subseteq AllTries(chunk')
      /\ AllTries(Table') # AllTries(chunk')
  BY <1>6, <1>7
<1>9. DOMAIN run.mem \subseteq DOMAIN Table
      /\ run.long \subseteq DOMAIN run.mem
      /\ \A k \in DOMAIN run.work : run.work[k].ids \subseteq DOMAIN run.mem
  BY DEF Inv, FitsIn, Session
<1>10. run'.pc = "split" => Waits(Table', run'.long)
  BY <1>2, <1>4, <1>9 DEF TriesInv, Waits
<1>11. ASSUME run'.pc \in {"touch", "call"}, NEW k \in DOMAIN run'.work
       PROVE  run'.work[k].ids # {} /\ Waits(Table', run'.work[k].ids)
  <2>1. PICK l \in DOMAIN run.work : /\ run'.work[k].ids = run.work[l].ids
                                     /\ run.work[l].ids \cap ids = {}
    BY <1>11
  <2>2. run.work[l].ids # {} /\ Waits(Table, run.work[l].ids)
    BY <1>11 DEF TriesInv
  <2> QED
    BY <1>2, <1>4, <1>9, <2>1, <2>2 DEF Waits
<1> QED
  BY <1>5, <1>8, <1>10, <1>11 DEF TriesInv

LEMMA SplitLongKeepsTries ==
  ASSUME Inv, TriesInv, NEW c \in run.long, SplitLong(c)
  PROVE  TriesInv'
<1> DEFINE s == [table |-> Table, mem |-> run.mem]
           a == SplitChunk(s, c)
           new == IF Len(a.table) > Len(Table) THEN Refreshed(run.doc, a.table)
                                               ELSE run.doc
           f == Flushed(run, new)
           T == a.table
           M == a.mem
           long == run.long \ {c}
<1>1. /\ Session(s) /\ c \in DOMAIN s.mem /\ run \in Tasks /\ run.pc = "split"
      /\ s.table = Table /\ s.mem = run.mem
  BY DEF Inv, FitsIn, TypeInv, SplitLong
<1>2. Follows(s, a, {c})
  BY <1>1, SplitFollows
<1>3. Advances(s, a)
  <2>1. Knows(s) /\ Table[c].status \in Unsettled
    BY <1>1 DEF TriesInv, Waits
  <2> QED
    BY <1>1, <2>1, SplitTries
<1>4. /\ run' = [f EXCEPT !.own = T, !.mem = M, !.long = @ \ {c}]
      /\ UNCHANGED <<chunk, api>>
  BY DEF SplitLong
<1>5. api.stage # "chunks"
  BY <1>1 DEF SplitLong, TaskWaits
<1> HIDE DEF new, T, M, a
<1>6. f.long = run.long
  BY <1>1, WritingTask
<1>7. run' = [f EXCEPT !.own = T, !.mem = M, !.long = long]
  <2> HIDE DEF f
  <2> QED
    BY <1>4, <1>6
<1> HIDE DEF long
<1>8. run'.own = T /\ run'.mem = M /\ run'.long = long /\ run'.pc = run.pc
  BY <1>1, <1>7, WritingTask
<1> QED
  BY <1>1, <1>2, <1>3, <1>4, <1>5, <1>8, WritesKeepTries DEF T, M, long

LEMMA SettlingKeepsTries ==
  ASSUME Inv, TriesInv, NEW answer \in Answers, Call(answer),
         ~Isolates(answer, Head(run.work))
  PROVE  TriesInv'
<1> DEFINE slice == Head(run.work)
           rest == Tail(run.work)
           s == [table |-> Table, mem |-> run.mem]
           a == Settled(Claimed(s, slice.ids), slice, answer)
           new == IF Len(a.table) > Len(Table) THEN Refreshed(run.doc, a.table)
                                               ELSE run.doc
           f == Flushed(run, new)
           T == a.table
           M == a.mem
           dimension == run.dimension \/ answer = "vectors"
<1>1. /\ run \in Tasks /\ run.pc = "call" /\ run.work # <<>>
      /\ run.work \in Seq(Slices) /\ Session(s)
      /\ s.table = Table /\ s.mem = run.mem
  BY DEF Inv, FitsIn, TypeInv, Call, Tasks
<1>2. run' = [f EXCEPT !.own = T, !.mem = M, !.work = Tail(@),
                       !.dimension = @ \/ answer = "vectors"]
      /\ UNCHANGED <<chunk, api>>
  BY DEF Call
<1>3. api.stage # "chunks"
  BY <1>1 DEF Call, TaskWaits
<1>4. /\ slice \in Slices /\ slice = run.work[1] /\ 1 \in DOMAIN run.work
      /\ rest \in Seq(Slices)
      /\ \A k \in DOMAIN rest : k + 1 \in DOMAIN run.work /\ k + 1 # 1
                                /\ rest[k] = run.work[k + 1]
  BY <1>1, SlicesBehind
<1>5. slice.ids \subseteq DOMAIN s.mem
  BY <1>4 DEF Inv, FitsIn
<1>6. slice.ids # {} /\ Waits(Table, slice.ids) /\ Knows(s)
  BY <1>1, <1>4 DEF TriesInv
<1> HIDE DEF slice
<1>7. Follows(s, a, slice.ids) /\ Advances(s, a)
  BY <1>1, <1>5, <1>6, SettledFollows, SettledTries
<1> HIDE DEF new, T, M, a
<1>8. f.work = run.work /\ f.dimension = run.dimension
  BY <1>1, WritingTask
<1>9. run' = [f EXCEPT !.own = T, !.mem = M, !.work = rest,
                       !.dimension = dimension]
  <2> HIDE DEF f
  <2> QED
    BY <1>2, <1>8
<1> HIDE DEF rest, dimension
<1>10. run'.own = T /\ run'.mem = M /\ run'.work = rest /\ run'.pc = run.pc
  BY <1>1, <1>9, WritingTask
<1>11. \A k \in DOMAIN run'.work : \E l \in DOMAIN run.work :
             /\ run'.work[k].ids = run.work[l].ids
             /\ run.work[l].ids \cap slice.ids = {}
  <2>1. \A k, l \in DOMAIN run.work :
          k # l => run.work[k].ids \cap run.work[l].ids = {}
    BY <1>1 DEF Inv, Unsent
  <2> QED
    BY <1>4, <1>10, <2>1
<1> QED
  BY <1>1, <1>2, <1>3, <1>7, <1>10, <1>11, WritesKeepTries DEF T, M

LEMMA IsolationKeepsTries ==
  ASSUME Inv, TriesInv, NEW answer \in Answers, Call(answer),
         Isolates(answer, Head(run.work))
  PROVE  TriesInv'
<1> DEFINE slice == Head(run.work)
           rest == Tail(run.work)
           s == [table |-> Table, mem |-> run.mem]
           a == Claimed(s, slice.ids)
           h == Halves(Table, slice)
           work == h \o rest
           T == a.table
<1>1. /\ run \in Tasks /\ run.pc = "call" /\ run.work # <<>>
      /\ run.work \in Seq(Slices) /\ Session(s) /\ Text(Table)
      /\ s.table = Table /\ s.mem = run.mem
  BY DEF Inv, FitsIn, Session, TypeInv, Call, Tasks
<1>2. run' = [run EXCEPT !.own = T, !.work = h \o Tail(@)]
      /\ UNCHANGED <<chunk, api>>
  BY DEF Call
<1>3. api.stage # "chunks"
  BY <1>1 DEF Call, TaskWaits
<1>4. /\ slice \in Slices /\ slice = run.work[1] /\ 1 \in DOMAIN run.work
      /\ rest \in Seq(Slices)
      /\ \A k \in DOMAIN rest : k + 1 \in DOMAIN run.work /\ k + 1 # 1
                                /\ rest[k] = run.work[k + 1]
  BY <1>1, SlicesBehind
<1>5. slice.ids \subseteq DOMAIN Table
  BY <1>4 DEF Inv, FitsIn, Session
<1>6. Waits(Table, slice.ids) /\ Knows(s)
  BY <1>1, <1>4 DEF TriesInv
<1>7. /\ h \in Seq(Slices) /\ DOMAIN h = 1..2 /\ Len(h) = 2
      /\ h[1].ids \subseteq slice.ids /\ h[2].ids \subseteq slice.ids
  BY <1>4, HalvesOfSlice
<1>8. h[1].ids # {} /\ h[2].ids # {}
  <2>1. Cardinality(slice.ids) > 1
    BY DEF Isolates
  <2> QED
    BY <1>1, <1>4, <1>5, <2>1, HalvesNotEmpty
<1> HIDE DEF slice
<1>9. /\ a.mem = run.mem /\ Knows(a) /\ AllTries(T) = AllTries(Table)
      /\ Waits(T, slice.ids)
  BY <1>1, <1>5, <1>6, ClaimedTries
<1>10. Follows(s, a, slice.ids)
  BY <1>1, ClaimedFollows
<1>11. T # <<>> /\ a = [table |-> T, mem |-> a.mem]
       /\ \A c \in DOMAIN Table \ slice.ids : T[c].status = Table[c].status
  BY <1>1, <1>10, TextNotEmpty DEF Follows, Session
<1> HIDE DEF h, T, rest, a
<1>12. /\ work \in Seq(Slices)
       /\ \A k \in DOMAIN work :
            /\ k \in Nat
            /\ k \in 1..2 => work[k] = h[k]
            /\ k \notin 1..2 => k - 2 \in DOMAIN rest /\ work[k] = rest[k - 2]
  BY <1>4, <1>7, TwoInFront
<1>13. run' = [run EXCEPT !.own = T, !.work = work]
  BY <1>1, <1>2 DEF rest
<1>14. work # <<>>
  <2>1. Len(work) = Len(h) + Len(rest)
    BY <1>4, <1>7, ConcatProperties
  <2>2. Len(rest) \in Nat
    BY <1>4
  <2> QED
    BY <1>7, <1>12, <2>1, <2>2
<1> HIDE DEF work
<1>15. /\ run'.own = T /\ run'.mem = run.mem /\ run'.work = work
       /\ run'.pc = "call"
  BY <1>1, <1>13 DEF Tasks
<1>16. Table' = T
  BY <1>11, <1>15 DEF Table
<1>17. ASSUME NEW k \in DOMAIN work
       PROVE  work[k].ids # {} /\ Waits(T, work[k].ids)
  <2>1. CASE k \in 1..2
    <3>1. k = 1 \/ k = 2
      BY <2>1
    <3>2. work[k].ids # {} /\ work[k].ids \subseteq slice.ids
      BY <1>7, <1>8, <1>12, <2>1, <3>1
    <3> QED
      BY <1>9, <3>2 DEF Waits
  <2>2. CASE k \notin 1..2
    <3>1. (k - 2) + 1 = k - 1 /\ k - 2 \in DOMAIN rest /\ work[k] = rest[k - 2]
      BY <1>12, <2>2
    <3>2. /\ k - 1 \in DOMAIN run.work /\ k - 1 # 1
          /\ work[k] = run.work[k - 1]
      BY <1>4, <3>1
    <3>3. run.work[k - 1].ids \cap slice.ids = {}
      BY <1>1, <1>4, <3>2 DEF Inv, Unsent
    <3>4. /\ run.work[k - 1].ids # {} /\ Waits(Table, run.work[k - 1].ids)
          /\ run.work[k - 1].ids \subseteq DOMAIN Table
      BY <1>1, <3>2 DEF TriesInv, Inv, FitsIn, Session
    <3> QED
      BY <1>11, <3>2, <3>3, <3>4 DEF Waits
  <2> QED
    BY <2>1, <2>2
<1>18. Knows([table |-> Table', mem |-> run'.mem])
  BY <1>9, <1>11, <1>15, <1>16
<1>19. AllTries(Table') \subseteq AllTries(chunk')
  BY <1>2, <1>9, <1>16 DEF TriesInv
<1> QED
  BY <1>2, <1>3, <1>14, <1>15, <1>16, <1>17, <1>18, <1>19 DEF TriesInv

\* A batch is committed only when less is left than before.
LEMMA CommitBatchTries ==
  ASSUME Inv, TriesInv, CommitBatch
  PROVE  TriesInv' /\ WorkLeft(chunk') < WorkLeft(chunk)
<1> DEFINE new == Refreshed(run.doc, Table)
           last == Flushed(run, new)
           columns == run.columns \cup Changed(run.doc, new)
<1>1. /\ run \in Tasks /\ run.pc = "call" /\ run.work = <<>> /\ Text(chunk)
      /\ chunk' = Table /\ UNCHANGED api
      /\ run' = [last EXCEPT !.pc = "check", !.columns = {}, !.own = <<>>,
                             !.batches = @ + 1]
  BY DEF Inv, TypeInv, CommitBatch
<1>2. /\ AllTries(Table) \subseteq AllTries(chunk)
      /\ AllTries(Table) # AllTries(chunk)
  BY <1>1 DEF TriesInv
<1>3. WorkLeft(chunk') < WorkLeft(chunk)
  BY <1>1, <1>2, LessWork
<1>4. last = [run EXCEPT !.doc = new, !.columns = columns]
  BY DEF Flushed
<1> HIDE DEF last, new, columns
<1>5. last.mem = run.mem
      /\ {"pc", "columns", "own", "batches", "mem"} \subseteq DOMAIN last
  BY <1>1, <1>4 DEF Tasks
<1>6. run'.own = <<>> /\ run'.mem = run.mem /\ run'.pc = "check"
  BY <1>1, <1>5
<1>7. Table' = Table /\ Table' = chunk'
  BY <1>1, <1>6 DEF Table
<1>8. TriesInv'
  BY <1>1, <1>6, <1>7 DEF TriesInv
<1> QED
  BY <1>3, <1>8

\* A request resets the chunks when no task has written any.
LEMMA RequestKeepsTries ==
  ASSUME Inv, TriesInv, Request
  PROVE  TriesInv'
<1>1. CASE ReprocessLoad
  <2>1. api'.stage = "loaded" /\ UNCHANGED <<chunk, run>>
    BY <1>1 DEF ReprocessLoad
  <2> QED
    BY <2>1, TriesStay
<1>2. CASE ReprocessLock
  <2>1. /\ UNCHANGED <<chunk, run>> /\ api.stage \in {"loaded", "jobs"}
        /\ api.stage = "jobs" => run.own = <<>>
        /\ api' = [api EXCEPT !.stage = IF api.stage = "loaded" THEN "jobs"
                                                               ELSE "chunks"]
    BY <1>2 DEF ReprocessLock, RequestWaits
  <2>2. api \in Requests
    BY DEF Inv, TypeInv
  <2>3. api'.stage = IF api.stage = "loaded" THEN "jobs" ELSE "chunks"
    BY <2>1, <2>2 DEF Requests
  <2>4. api'.stage = "chunks" => run.own = <<>>
    BY <2>1, <2>3
  <2> QED
    BY <2>1, <2>4, TriesStay
<1>3. CASE ReprocessCommit
  <2>1. /\ api.stage = "chunks" /\ api'.stage = "none" /\ UNCHANGED run
        /\ chunk' = [c \in DOMAIN chunk |-> Reset(chunk[c])]
    BY <1>3 DEF ReprocessCommit, NoRequest
  <2>2. run.own = <<>> /\ Table = chunk /\ Table' = chunk'
    BY <2>1 DEF TriesInv, Table
  <2>3. /\ Text(chunk) /\ run.mem \in [DOMAIN run.mem -> Memories]
        /\ DOMAIN run.mem \subseteq DOMAIN chunk
        /\ run.long \subseteq DOMAIN run.mem
        /\ \A k \in DOMAIN run.work : run.work[k].ids \subseteq DOMAIN run.mem
    BY <2>2 DEF Inv, FitsIn, Session
  <2>4. ASSUME NEW c \in DOMAIN chunk
        PROVE  chunk'[c].status \in Unsettled /\ chunk'[c].attempts = 0
    <3>1. chunk[c] \in ChunkRow /\ chunk'[c] = Reset(chunk[c])
      BY <2>1, <2>3, ChunkOfText
    <3> QED
      BY <3>1 DEF Reset, ChunkRow, Unsettled
  <2>5. Knows([table |-> Table', mem |-> run'.mem])
    <3>1. \A c \in DOMAIN run.mem : run.mem[c].attempts \in Nat
      BY <2>3 DEF Memories
    <3> QED
      BY <2>1, <2>2, <2>3, <2>4, <3>1 DEF Knows
  <2>6. /\ Waits(Table', run'.long)
        /\ \A k \in DOMAIN run'.work : Waits(Table', run'.work[k].ids)
    BY <2>1, <2>2, <2>3, <2>4 DEF Waits
  <2> QED
    BY <2>1, <2>2, <2>5, <2>6 DEF TriesInv
<1> QED
  BY <1>1, <1>2, <1>3 DEF Request

LEMMA TriesKept ==
  ASSUME Inv, TriesInv, [Next]_vars
  PROVE  TriesInv'
<1>1. CASE Claim
  <2>1. PICK j \in Jobs : run' = [Idle EXCEPT !.pc = "start", !.job = j]
    BY <1>1 DEF Claim
  <2>2. run'.own = <<>> /\ run'.mem = <<>> /\ run'.pc = "start"
    BY <2>1 DEF Idle
  <2> QED
    BY <2>2, TriesRestart
<1>2. CASE Skip \/ Start \/ Check \/ Touch \/ Finalize
  BY <1>2, QuietStepsKeepTries
<1>3. CASE Load \/ Reload
  BY <1>3, LoadingKeepsTries
<1>4. CASE CommitBatch
  BY <1>4, CommitBatchTries
<1>5. CASE Commit \/ FailJob \/ Crash
  <2>1. run' = Idle
    BY <1>5 DEF Commit, FailJob, Crash
  <2> QED
    BY <2>1, IdleType, TriesRestart
<1>6. ASSUME run' = Raised PROVE TriesInv'
  <2>1. run'.own = <<>> /\ run'.mem = <<>> /\ run'.pc = "failed"
    BY <1>6 DEF Raised, Idle
  <2> QED
    BY <2>1, TriesRestart
<1>7. CASE HandlerRaises
  BY <1>6, <1>7 DEF HandlerRaises
<1>8. CASE \E c \in run.long : SplitLong(c)
  BY <1>8, SplitLongKeepsTries
<1>9. CASE \E answer \in Answers : Call(answer)
  BY <1>9, SettlingKeepsTries, IsolationKeepsTries
<1>10. CASE Request
  BY <1>10, RequestKeepsTries
<1>11. CASE Deadlock
  <2>1. CASE run' = Raised
    BY <1>6, <2>1
  <2>2. CASE api' = NoRequest /\ UNCHANGED run
    <3>1. UNCHANGED chunk /\ api'.stage = "none"
      BY <1>11, <2>2 DEF Deadlock, NoRequest
    <3> QED
      BY <2>2, <3>1, TriesStay
  <2> QED
    BY <1>11, <2>1, <2>2 DEF Deadlock
<1>12. CASE (\E j \in Jobs : CancelJob(j)) \/ UNCHANGED vars
  <2>1. UNCHANGED <<chunk, run, api>>
    BY <1>12 DEF CancelJob, vars
  <2> QED
    BY <2>1, TriesStay
<1> QED
  BY <1>1, <1>2, <1>3, <1>4, <1>5, <1>7, <1>8, <1>9, <1>10, <1>11, <1>12
  DEF Next, Task

\* Nothing but the commit of a batch ends it with the task going on.
LEMMA BatchEnds ==
  ASSUME Inv, [Next]_vars, run.pc = "call", run'.pc = "check"
  PROVE  CommitBatch
<1>1. run \in Tasks /\ run' # Idle /\ run' # Raised /\ run' # run
  <2>1. Idle.pc = "idle" /\ Raised.pc = "failed"
    BY IdleType, RaisedType
  <2> QED
    BY <2>1 DEF Inv, TypeInv
<1>2. ~(Claim \/ Skip \/ Start \/ Check \/ Load \/ Reload \/ Touch
        \/ Finalize \/ Commit \/ FailJob \/ Crash \/ HandlerRaises
        \/ \E c \in run.long : SplitLong(c))
  BY <1>1 DEF Claim, Skip, Start, Check, Load, Reload, Touch, Finalize, Commit,
              FailJob, Crash, HandlerRaises, SplitLong
<1>3. ~(Request \/ Deadlock \/ (\E j \in Jobs : CancelJob(j)) \/ UNCHANGED vars)
  BY <1>1 DEF Request, ReprocessLoad, ReprocessLock, ReprocessCommit, Deadlock,
              CancelJob, vars
<1>4. ASSUME NEW answer \in Answers, Call(answer) PROVE FALSE
  <2> DEFINE slice == Head(run.work)
             s == [table |-> Table, mem |-> run.mem]
             T == Claimed(s, slice.ids).table
             work == Halves(Table, slice) \o Tail(run.work)
             a == Settled(Claimed(s, slice.ids), slice, answer)
             new == IF Len(a.table) > Len(Table)
                    THEN Refreshed(run.doc, a.table) ELSE run.doc
             U == a.table
             M == a.mem
             rest == Tail(run.work)
             dimension == (run.dimension \/ answer = "vectors")
             f == Flushed(run, new)
  <2>1. CASE Isolates(answer, slice)
    <3>1. run' = [run EXCEPT !.own = T, !.work = work]
      BY <1>4, <2>1 DEF Call
    <3> HIDE DEF T, work
    <3> QED
      BY <1>1, <3>1 DEF Tasks
  <2>2. CASE ~Isolates(answer, slice)
    <3>1. run' = [f EXCEPT !.own = U, !.mem = M, !.work = Tail(@),
                           !.dimension = @ \/ answer = "vectors"]
      BY <1>4, <2>2 DEF Call
    <3> HIDE DEF new, U, M
    <3>2. f.work = run.work /\ f.dimension = run.dimension
      BY <1>1, WritingTask
    <3>3. run' = [f EXCEPT !.own = U, !.mem = M, !.work = rest,
                           !.dimension = dimension]
      <4> HIDE DEF f
      <4> QED
        BY <3>1, <3>2
    <3> HIDE DEF rest, dimension
    <3>4. run'.pc = run.pc
      BY <1>1, <3>3, WritingTask
    <3> QED
      BY <3>4
  <2> QED
    BY <2>1, <2>2
<1> QED
  BY <1>2, <1>3, <1>4 DEF Next, Task

\* What a task commits is no more than there was, and nothing else writes chunks
\* than a request to begin again.
LEMMA WorkNeverGrows ==
  ASSUME Inv, TriesInv, [Next]_vars, ~ReprocessCommit
  PROVE  WorkLeft(chunk') <= WorkLeft(chunk)
<1>1. chunk' = chunk \/ chunk' = Table
  <2>1. CASE Claim \/ Crash \/ Deadlock \/ (\E j \in Jobs : CancelJob(j))
             \/ UNCHANGED vars
    BY <2>1 DEF Claim, Crash, Deadlock, CancelJob, vars
  <2>2. CASE Skip \/ Start \/ Check \/ Load \/ Reload \/ Touch \/ CommitBatch
             \/ Finalize \/ Commit \/ HandlerRaises \/ FailJob
    BY <2>2 DEF Skip, Start, Check, Load, Reload, Touch, CommitBatch, Finalize,
                Commit, HandlerRaises, FailJob
  <2>3. CASE \/ \E c \in run.long : SplitLong(c)
             \/ \E answer \in Answers : Call(answer)
    BY <2>3 DEF SplitLong, Call
  <2>4. CASE Request
    BY <2>4 DEF Request, ReprocessLoad, ReprocessLock
  <2> QED
    BY <2>1, <2>2, <2>3, <2>4 DEF Next, Task
<1>2. AllTries(chunk') \subseteq AllTries(chunk)
  BY <1>1 DEF TriesInv
<1>3. IsFiniteSet(AllTries(chunk))
  BY TriesFinite DEF Inv
<1> QED
  BY <1>2, <1>3, FS_Subset DEF WorkLeft

\* What a task has still to do waits to be done, and it has tried something
\* before it commits a batch; a request that resets the chunks and a task that
\* has written some wait for each other (process_document_embeddings,
\* reset_chunk_embeddings).  This is inductive.
THEOREM TriesInvariant == Spec => []TriesInv
<1>1. Inv /\ TriesInv /\ [Next]_vars => TriesInv'
  BY TriesKept
<1> QED
  BY <1>1, TriesInit, EmbeddingInvariant, PTL DEF Spec

\* Whatever the provider answers, each batch that is committed leaves less to
\* do, and only a request to embed the document again makes it more: attempts
\* are counted and cut chunks are shorter (_mark_chunks_failed,
\* _split_single_chunk, _embed_batch_with_isolation).  The batches, and the
\* jobs that continue them, therefore come to an end.
THEOREM EachBatchProgressesSafe == Spec => EachBatchProgresses
<1> DEFINE Progress ==
             /\ run.pc = "call" /\ run'.pc = "check" =>
                  WorkLeft(chunk') < WorkLeft(chunk)
             /\ ReprocessCommit \/ WorkLeft(chunk') <= WorkLeft(chunk)
<1>1. ASSUME Inv, TriesInv, [Next]_vars
      PROVE  Progress
  BY <1>1, BatchEnds, CommitBatchTries, WorkNeverGrows
<1>2. Inv /\ TriesInv /\ [Next]_vars => [Progress]_vars
  BY <1>1
<1> QED
  BY <1>2, EmbeddingInvariant, TriesInvariant, PTL DEF Spec, EachBatchProgresses
=============================================================================
