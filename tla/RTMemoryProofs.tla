--------------------------- MODULE RTMemoryProofs ---------------------------
(***************************************************************************)
(* Proofs about RTMemory, for all sizes, mappings, requests and callers:   *)
(* what a call copies, why it is refused, and what it gives back.          *)
(***************************************************************************)
EXTENDS RTMemory, WellFoundedInduction, FiniteSetTheorems, TLAPS

(***************************************************************************)
(* Pages                                                                   *)
(***************************************************************************)
LEMMA Least ==
  ASSUME NEW S \in SUBSET Nat, S # {}
  PROVE  \E x \in S : \A y \in S : x <= y
<1>1. PICK x \in S : \A y \in S : <<y, x>> \notin OpToRel(<, Nat)
  BY NatLessThanWellFounded, WFMin
<1>2. \A y \in S : ~(y < x)
  BY <1>1 DEF OpToRel
<1> QED BY <1>2

LEMMA Greatest ==
  ASSUME NEW n \in Nat, NEW S \in SUBSET (0..n), S # {}
  PROVE  \E x \in S : \A y \in S : y <= x
<1> DEFINE T == {n - y : y \in S}
<1>1. T \in SUBSET Nat /\ T # {}
  <2>1. \A y \in S : n - y \in Nat
    OBVIOUS
  <2>2. PICK y \in S : TRUE
    OBVIOUS
  <2> QED BY <2>1, <2>2
<1>2. PICK t \in T : \A u \in T : t <= u
  BY <1>1, Least
<1>3. PICK x \in S : t = n - x
  BY <1>2
<1>4. \A y \in S : n - x <= n - y
  BY <1>2, <1>3
<1> QED BY <1>4

LEMMA Division ==
  ASSUME NEW a \in Nat, NEW d \in Nat \ {0}
  PROVE  /\ a \div d \in Nat /\ (a % d) \in 0..(d - 1)
         /\ a = (a \div d) * d + (a % d)
  OBVIOUS

LEMMA Quotient ==
  ASSUME NEW a \in Nat, NEW d \in Nat \ {0}, NEW q \in Nat, NEW r \in 0..(d - 1), a = q * d + r
  PROVE  a \div d = q /\ (a % d) = r
  OBVIOUS

LEMMA Multiples ==
  ASSUME NEW d \in Nat \ {0}, NEW i \in Nat, NEW j \in Nat
  PROVE  /\ i * d \in Nat /\ (i + j) * d = i * d + j * d /\ (i + 1) * d = i * d + d
         /\ i <= j <=> i * d <= j * d
         /\ i < j <=> i * d < j * d
  OBVIOUS

\* The page an address lies in, without division.
LEMMA PageBounds ==
  ASSUME NEW a \in Nat, NEW p \in Nat
  PROVE  /\ a \div PageSize \in Nat
         /\ p <= a \div PageSize <=> p * PageSize <= a
         /\ a \div PageSize <= p <=> a < (p + 1) * PageSize
         /\ a < TaskSize <=> a \div PageSize \in Pages
<1> DEFINE q == a \div PageSize
<1>1. PageSize \in Nat \ {0} /\ NumPages \in Nat \ {0}
  BY SizesAssumption
<1>2. q \in Nat /\ q * PageSize <= a /\ a < (q + 1) * PageSize
  <2>1. q \in Nat /\ (a % PageSize) \in 0..(PageSize - 1) /\ a = q * PageSize + (a % PageSize)
    BY <1>1, Division
  <2>2. q * PageSize \in Nat /\ (q + 1) * PageSize = q * PageSize + PageSize
    BY <1>1, <2>1, Multiples
  <2> QED BY <1>1, <2>1, <2>2
<1> HIDE DEF q
<1>3. \A i \in Nat : i <= q <=> i * PageSize <= a
  <2> TAKE i \in Nat
  <2>1. i <= q => i * PageSize <= q * PageSize
    BY <1>1, <1>2, Multiples
  <2>2. q + 1 <= i => (q + 1) * PageSize <= i * PageSize
    BY <1>1, <1>2, Multiples
  <2>3. i * PageSize \in Nat /\ q * PageSize \in Nat /\ (q + 1) * PageSize \in Nat
    BY <1>1, <1>2, Multiples
  <2> QED BY <1>2, <2>1, <2>2, <2>3
<1>4. \A i \in Nat : q <= i <=> a < (i + 1) * PageSize
  <2> TAKE i \in Nat
  <2>1. i + 1 <= q <=> (i + 1) * PageSize <= a
    BY <1>3
  <2>2. (i + 1) * PageSize \in Nat
    BY <1>1, Multiples
  <2> QED BY <1>2, <2>1, <2>2
<1>5. a < TaskSize <=> q \in Pages
  <2>1. NumPages <= q <=> TaskSize <= a
    BY <1>1, <1>3 DEF TaskSize
  <2>2. TaskSize \in Nat
    BY <1>1, Multiples DEF TaskSize
  <2> QED BY <1>1, <1>2, <2>1, <2>2 DEF Pages
<1> QED BY <1>2, <1>3, <1>4, <1>5 DEF q

(***************************************************************************)
(* Mappings                                                                *)
(***************************************************************************)
\* A page that is mapped lies in a VMA.
LEMMA VmaOf ==
  ASSUME NEW l \in [Pages -> Kinds], NEW p \in Pages, l[p] # "hole"
  PROVE  \E v \in Vmas(l) : v.first <= p /\ p <= v.last /\ v.kind = l[p]
<1>1. Pages \subseteq Nat /\ NumPages - 1 \in Nat /\ Pages = 0..(NumPages - 1)
  BY SizesAssumption DEF Pages
<1> DEFINE F == {f \in Pages : f <= p /\ \A i \in f..p : l[i] = l[p]}
           G == {g \in Pages : p <= g /\ \A i \in p..g : l[i] = l[p]}
<1>2. PICK f \in F : \A x \in F : f <= x
  <2>1. p \in F
    BY <1>1
  <2> QED BY <1>1, <2>1, Least
<1>3. PICK g \in G : \A x \in G : x <= g
  <2>1. p \in G
    BY <1>1
  <2> QED BY <1>1, <2>1, Greatest
<1> DEFINE v == [first |-> f, last |-> g, kind |-> l[p]]
<1>4. v \in [first : Pages, last : Pages, kind : Kinds \ {"hole"}] /\ f <= g
  BY <1>1, <1>2, <1>3
<1>5. \A i \in f..g : l[i] = l[p]
  BY <1>1, <1>2, <1>3
<1>6. f = 0 \/ l[f - 1] # l[p]
  <2> SUFFICES ASSUME f # 0, l[f - 1] = l[p] PROVE FALSE
    OBVIOUS
  <2>1. f - 1 \in F
    BY <1>1, <1>2
  <2> QED BY <1>1, <1>2, <2>1
<1>7. g = NumPages - 1 \/ l[g + 1] # l[p]
  <2> SUFFICES ASSUME g # NumPages - 1, l[g + 1] = l[p] PROVE FALSE
    OBVIOUS
  <2>1. g + 1 \in G
    BY <1>1, <1>3
  <2> QED BY <1>1, <1>3, <2>1
<1>8. v \in Vmas(l)
  BY <1>4, <1>5, <1>6, <1>7 DEF Vmas
<1> QED BY <1>2, <1>3, <1>8

LEMMA VmaShape ==
  ASSUME NEW l, NEW v \in Vmas(l)
  PROVE  /\ v.first \in Pages /\ v.last \in Pages /\ v.kind \in Kinds \ {"hole"}
         /\ v.first <= v.last
         /\ \A p \in v.first..v.last : l[p] = v.kind
         /\ v.first = 0 \/ l[v.first - 1] # v.kind
         /\ Start(v) \in Nat /\ Start(v) < TaskSize
         /\ Limit(v) \in Nat /\ Limit(v) <= TaskSize /\ Start(v) < Limit(v)
<1>1. /\ v.first \in Pages /\ v.last \in Pages /\ v.kind \in Kinds \ {"hole"}
      /\ v.first <= v.last
      /\ \A p \in v.first..v.last : l[p] = v.kind
      /\ v.first = 0 \/ l[v.first - 1] # v.kind
  BY DEF Vmas
<1>2. /\ PageSize \in Nat \ {0} /\ NumPages \in Nat \ {0} /\ v.first \in Nat /\ v.last + 1 \in Nat
      /\ v.first < NumPages /\ v.last + 1 <= NumPages /\ v.first < v.last + 1
  BY <1>1, SizesAssumption DEF Pages
<1>3. /\ v.first * PageSize \in Nat /\ (v.last + 1) * PageSize \in Nat
      /\ v.first * PageSize < NumPages * PageSize /\ (v.last + 1) * PageSize <= NumPages * PageSize
      /\ v.first * PageSize < (v.last + 1) * PageSize
  BY <1>2, Multiples
<1> QED BY <1>1, <1>3 DEF Start, Limit, TaskSize

\* What find_vma finds: the address lies in it, or in the gap before it.
LEMMA FoundVma ==
  ASSUME NEW l \in [Pages -> Kinds], NEW a \in Nat, NEW v \in FindVma(l, a)
  PROVE  /\ v \in Vmas(l) /\ a < Limit(v)
         /\ a \div PageSize <= v.last
         /\ \A p \in Pages : a \div PageSize <= p /\ p < v.first => l[p] = "hole"
<1>1. v \in Vmas(l) /\ Limit(v) > a /\ \A o \in Vmas(l) : Limit(o) > a => v.first <= o.first
  BY DEF FindVma
<1>2. v.last \in Nat /\ v.first \in Nat /\ Limit(v) \in Nat /\ Pages \subseteq Nat
  BY <1>1, VmaShape DEF Pages
<1>3. a \div PageSize <= v.last
  BY <1>1, <1>2, PageBounds DEF Limit
<1>4. ASSUME NEW p \in Pages, a \div PageSize <= p, p < v.first, l[p] # "hole"
      PROVE  FALSE
  <2>1. PICK o \in Vmas(l) : o.first <= p /\ p <= o.last
    BY <1>4, VmaOf
  <2>2. o.first \in Nat /\ o.last \in Nat /\ Limit(o) \in Nat /\ p \in Nat
    BY <1>2, <2>1, VmaShape DEF Pages
  <2>3. a \div PageSize <= o.last /\ a \div PageSize \in Nat
    BY <1>4, <2>1, <2>2, PageBounds
  <2>4. Limit(o) > a
    BY <2>2, <2>3, PageBounds DEF Limit
  <2> QED BY <1>1, <1>2, <1>4, <2>1, <2>2, <2>4
<1> QED BY <1>1, <1>2, <1>3, <1>4

\* What find_vma does not find is not there.
LEMMA NoneFound ==
  ASSUME NEW l \in [Pages -> Kinds], NEW a \in Nat, FindVma(l, a) = {},
         NEW p \in Pages, a \div PageSize <= p
  PROVE  l[p] = "hole"
<1> SUFFICES ASSUME l[p] # "hole" PROVE FALSE
  OBVIOUS
<1> DEFINE Over == {v \in Vmas(l) : Limit(v) > a}
           Firsts == {v.first : v \in Over}
<1>1. PICK o \in Vmas(l) : o.first <= p /\ p <= o.last
  BY VmaOf
<1>2. o.last \in Nat /\ p \in Nat /\ a \div PageSize \in Nat
  BY <1>1, VmaShape, PageBounds DEF Pages
<1>3. o \in Over
  BY <1>1, <1>2, PageBounds DEF Limit
<1>4. Firsts \in SUBSET Nat /\ Firsts # {}
  BY <1>3, VmaShape DEF Pages
<1>5. PICK f \in Firsts : \A g \in Firsts : f <= g
  BY <1>4, Least
<1>6. PICK v \in Over : f = v.first
  BY <1>5
<1>7. v \in FindVma(l, a)
  BY <1>5, <1>6 DEF FindVma
<1> QED BY <1>7

\* The mapping of an address is the one find_vma finds for it.
LEMMA FindsMapping ==
  ASSUME NEW l \in [Pages -> Kinds], NEW a \in Nat, a < TaskSize,
         l[a \div PageSize] # "hole"
  PROVE  \E v \in FindVma(l, a) : Start(v) <= a
<1> DEFINE q == a \div PageSize
<1>1. q \in Pages /\ q \in Nat
  BY PageBounds
<1>2. PICK v \in Vmas(l) : v.first <= q /\ q <= v.last /\ v.kind = l[q]
  BY <1>1, VmaOf
<1>3. v.first \in Nat /\ v.last \in Nat /\ Limit(v) > a /\ Start(v) <= a
  <2>1. v.first \in Nat /\ v.last \in Nat
    BY <1>2, VmaShape DEF Pages
  <2>2. v.first * PageSize <= a /\ a < (v.last + 1) * PageSize
    BY <1>2, <2>1, PageBounds
  <2> QED BY <2>1, <2>2 DEF Limit, Start
<1>4. ASSUME NEW o \in Vmas(l), Limit(o) > a, o.first < v.first PROVE FALSE
  <2>1. o.first \in Nat /\ o.last \in Nat
    BY VmaShape DEF Pages
  <2>2. q <= o.last
    BY <1>4, <2>1, PageBounds DEF Limit
  <2>3. v.first \in o.first..o.last /\ v.first - 1 \in o.first..o.last
    BY <1>1, <1>2, <1>3, <1>4, <2>1, <2>2
  <2>4. l[v.first] = o.kind /\ l[v.first - 1] = o.kind
    BY <2>3, VmaShape
  <2>5. l[v.first] = v.kind /\ l[v.first - 1] # v.kind
    <3>1. v.first \in v.first..v.last /\ v.first # 0
      BY <1>2, <1>3, <1>4, <2>1, VmaShape
    <3> QED BY <3>1, VmaShape
  <2> QED BY <2>4, <2>5
<1>5. v \in FindVma(l, a)
  <2> SUFFICES ASSUME NEW o \in Vmas(l), Limit(o) > a PROVE v.first <= o.first
    BY <1>3 DEF FindVma
  <2>1. o.first \in Nat
    BY VmaShape DEF Pages
  <2> QED BY <1>3, <1>4, <2>1
<1> QED BY <1>3, <1>5

(***************************************************************************)
(* The copying loop                                                        *)
(***************************************************************************)
Min2(m, n) == IF m < n THEN m ELSE n

PagesFor(a, n) == DivRoundUp((a % PageSize) + n, PageSize)

\* Bytes done before index i of the loop.
DoneAt(a, n, i) == IF i = 0 THEN 0 ELSE Min2(i * PageSize - (a % PageSize), n)

\* What moving the first n bytes from address a on comes to.
Image(a, n) == {<<k, a + k>> : k \in 0..(n - 1)}

LEMMA RoundUp ==
  ASSUME NEW n \in Nat
  PROVE  /\ DivRoundUp(n, PageSize) \in Nat
         /\ \A k \in Nat : k < DivRoundUp(n, PageSize) <=> k * PageSize < n
<1>1. PageSize \in Nat \ {0}
  BY SizesAssumption
<1> DEFINE a == n + PageSize - 1
<1>2. a \in Nat
  BY <1>1
<1>3. a \div PageSize \in Nat
  BY <1>2, PageBounds
<1>4. ASSUME NEW k \in Nat
      PROVE  k < a \div PageSize <=> k * PageSize < n
  <2>1. k + 1 <= a \div PageSize <=> (k + 1) * PageSize <= a
    BY <1>2, PageBounds
  <2>2. k * PageSize \in Nat /\ (k + 1) * PageSize = k * PageSize + PageSize
    BY <1>1, Multiples
  <2> QED BY <1>1, <1>3, <2>1, <2>2
<1> QED BY <1>3, <1>4 DEF DivRoundUp

\* One iteration moves the bytes of one page, from where the last one ended.
LEMMA Iteration ==
  ASSUME NEW a \in Nat, NEW n \in Nat \ {0}, NEW i \in Nat, i < PagesFor(a, n)
  PROVE  LET offset == IF i = 0 THEN a % PageSize ELSE 0
             bytes  == Min2(n - DoneAt(a, n, i), PageSize - offset)
         IN /\ DoneAt(a, n, i) \in 0..(n - 1) /\ bytes \in Nat \ {0}
            /\ DoneAt(a, n, i + 1) = DoneAt(a, n, i) + bytes
            /\ ((a \div PageSize) + i) * PageSize + offset = a + DoneAt(a, n, i)
<1> DEFINE off == a % PageSize
           q == a \div PageSize
<1>1. PageSize \in Nat \ {0} /\ off \in 0..(PageSize - 1) /\ q \in Nat /\ a = q * PageSize + off
  BY SizesAssumption, Division
<1>2. i * PageSize < off + n
  BY <1>1, RoundUp DEF PagesFor
<1>3. /\ i * PageSize \in Nat /\ q * PageSize \in Nat
      /\ (i + 1) * PageSize = i * PageSize + PageSize
      /\ (q + i) * PageSize = q * PageSize + i * PageSize
  BY <1>1, Multiples
<1>4. i # 0 => PageSize <= i * PageSize
  <2>1. i # 0 => 1 <= i /\ 1 * PageSize = PageSize
    BY <1>1
  <2> QED BY <1>1, <2>1, Multiples
<1>5. CASE i = 0
  BY <1>1, <1>2, <1>3, <1>5 DEF DoneAt, Min2
<1>6. CASE i # 0
  <2>1. DoneAt(a, n, i) = i * PageSize - off
    BY <1>1, <1>2, <1>3, <1>4, <1>6 DEF DoneAt, Min2
  <2>2. DoneAt(a, n, i + 1) = Min2(i * PageSize + PageSize - off, n)
    BY <1>1, <1>3 DEF DoneAt
  <2> QED BY <1>1, <1>2, <1>3, <1>4, <1>6, <2>1, <2>2 DEF Min2
<1> QED BY <1>5, <1>6

LEMMA LoopEnds ==
  ASSUME NEW a \in Nat, NEW n \in Nat \ {0}
  PROVE  PagesFor(a, n) \in Nat \ {0} /\ DoneAt(a, n, PagesFor(a, n)) = n
<1> DEFINE off == a % PageSize
           k == PagesFor(a, n)
<1>1. PageSize \in Nat \ {0} /\ off \in 0..(PageSize - 1)
  BY SizesAssumption, Division
<1>2. k \in Nat /\ ~(k * PageSize < off + n) /\ 0 < k /\ k * PageSize \in Nat
  <2>1. k \in Nat /\ \A j \in Nat : j < k <=> j * PageSize < off + n
    BY <1>1, RoundUp DEF PagesFor
  <2>2. 0 * PageSize = 0 /\ k * PageSize \in Nat
    BY <1>1, <2>1, Multiples
  <2> QED BY <1>1, <2>1, <2>2
<1> QED BY <1>1, <1>2 DEF DoneAt, Min2

\* m bytes, from index n of the buffer and address from on.
Piece(n, from, m) == {<<n + k, from + k>> : k \in 0..(m - 1)}

LEMMA ImageGrows ==
  ASSUME NEW a \in Nat, NEW n \in Nat, NEW m \in Nat
  PROVE  Image(a, n + m) = Image(a, n) \cup Piece(n, a + n, m)
<1> DEFINE from == a + n
<1>1. ASSUME NEW k \in 0..(n + m - 1), k >= n PROVE k - n \in 0..(m - 1) /\ k = n + (k - n)
  BY <1>1
<1>2. ASSUME NEW k \in 0..(m - 1) PROVE n + k \in 0..(n + m - 1) /\ from + k = a + (n + k)
  BY <1>2
<1>3. 0..(n - 1) \subseteq 0..(n + m - 1)
  OBVIOUS
<1>4. \A k \in 0..(n + m - 1) : k < n => k \in 0..(n - 1)
  OBVIOUS
<1>5. Image(a, n + m) \subseteq Image(a, n) \cup Piece(n, from, m)
  <2> SUFFICES ASSUME NEW p \in Image(a, n + m), p \notin Image(a, n)
               PROVE  \E j \in 0..(m - 1) : p = <<n + j, from + j>>
    BY DEF Piece
  <2>1. PICK k \in 0..(n + m - 1) : p = <<k, a + k>>
    BY DEF Image
  <2>2. k >= n
    BY <1>4, <2>1 DEF Image
  <2>3. k - n \in 0..(m - 1) /\ k = n + (k - n) /\ a + k = from + (k - n)
    BY <1>1, <2>2
  <2> QED BY <2>1, <2>3
<1>6. Image(a, n) \subseteq Image(a, n + m)
  BY <1>3 DEF Image
<1>7. Piece(n, from, m) \subseteq Image(a, n + m)
  BY <1>2 DEF Image, Piece
<1> QED BY <1>5, <1>6, <1>7

LEMMA ImageWithin ==
  ASSUME NEW a \in Nat, NEW n \in Nat, n <= MaxTransfer, a + n <= TaskSize
  PROVE  Image(a, n) \in SUBSET ((0..(MaxTransfer - 1)) \X (0..(TaskSize - 1)))
<1>1. TaskSize \in Nat /\ MaxTransfer \in Nat
  BY SizesAssumption, Multiples DEF TaskSize
<1>2. ASSUME NEW k \in 0..(n - 1)
      PROVE  k \in 0..(MaxTransfer - 1) /\ a + k \in 0..(TaskSize - 1)
  BY <1>1
<1> QED BY <1>2 DEF Image

LEMMA DoneWithin ==
  ASSUME NEW a \in Nat, NEW n \in Nat, NEW i \in Nat
  PROVE  DoneAt(a, n, i) <= n
<1>1. i * PageSize \in Nat /\ (a % PageSize) \in Nat
  BY SizesAssumption, Division, Multiples
<1> QED BY <1>1 DEF DoneAt, Min2

(***************************************************************************)
(* The inductive invariant                                                 *)
(***************************************************************************)
Holding   == {"check", "pin", "unpin", "copy", "search", "unlock"}  \* mmap_lock is held
Referring == Holding \cup {"lock", "put"}                  \* and the mm referenced
Pinning   == {"unpin", "copy"}                             \* pages are pinned
Unmoved   == {"idle", "validate", "access", "lock", "check", "search", "pin", "unpin"}
Ending    == {"unlock", "put", "reply", "done"}
Transfer  == {"read", "write"}

\* s is where a caller is and r its request; a request that has passed its
\* validation is within the limits, and the range that is walked in the task.
RequestOK(s, r) ==
  /\ s # "idle" => r.op \in Transfer \cup {"base"}
  /\ r.op = "base" => r.addr = 0 /\ r.size = 0
  /\ s \in Referring \cup {"access", "reply"} /\ r.op \in Transfer =>
       r.size \in 1..MaxTransfer /\ r.addr + r.size < Width
  /\ s \in {"check", "pin", "unpin", "copy"} => r.op \in Transfer /\ r.addr + r.size <= TaskSize
  /\ s = "search" => r.op = "base"
  /\ s = "reply" => r.op # "write"

\* Nothing moves before the loop, and afterwards all of a transfer or none.
ResultOK(s, r, bytes, result) ==
  /\ s \in Unmoved => bytes = {}
  /\ s \in Unmoved \cup {"copy"} => result = "ok"
  /\ s \in Ending /\ r.op \in Transfer /\ result = "ok" => bytes = Image(r.addr, r.size)
  /\ s \in Ending /\ r.op = "write" /\ result # "ok" => bytes = {}

LoopOK(s, r, i, n, bytes) ==
  s = "copy" => /\ i <= PagesFor(r.addr, r.size)
                /\ n = DoneAt(r.addr, r.size, i)
                /\ bytes = Image(r.addr, n)

KindIn(l, a) == IF a < TaskSize THEN l[a \div PageSize] ELSE "hole"
Permits(l, a, op) == IF op = "write" THEN KindIn(l, a) = "data"
                     ELSE KindIn(l, a) \in {"data", "file", "lib", "jit"}
Answer(l, a, op) == IF KindIn(l, a) = "hole" THEN "EFAULT" ELSE Refusal(KindIn(l, a), op)

\* The walk has permitted all it has passed, under the mappings l.
WalkOK(s, r, at, result, l) ==
  /\ s = "check" => /\ r.addr <= at /\ at <= r.addr + r.size
                    /\ \A a \in r.addr..(at - 1) : Permits(l, a, r.op)
  /\ s \in {"pin", "unpin", "copy"} => \A a \in r.addr..(r.addr + r.size - 1) : Permits(l, a, r.op)
  /\ s = "unlock" /\ r.op \in Transfer /\ r.addr + r.size <= TaskSize =>
       LET bad == {a \in r.addr..(r.addr + r.size - 1) : ~Permits(l, a, r.op)} IN
       \/ bad = {} /\ result \in {"ok", "EFAULT"} \cup PinErrors
       \/ \E a \in bad : (\A b \in bad : a <= b) /\ result = Answer(l, a, r.op)

\* The search has passed only whole pages, and none of the file.
SearchOK(s, r, at, start, result, l) ==
  /\ s \in Unmoved \cup {"copy"} => start = 0
  /\ s = "search" =>
       \E k \in 0..NumPages : at = k * PageSize /\ \A p \in Pages : p < k => ~Named(l[p])
  /\ s = "unlock" /\ r.op = "base" /\ result = "ok" =>
       LET starts == {p \in Pages : Named(l[p])} IN
       \/ starts = {} /\ start = 0
       \/ \E p \in starts : (\A o \in starts : p <= o) /\ start = p * PageSize

CallOK(c) ==
  /\ RequestOK(pc[c], req[c])
  /\ ResultOK(pc[c], req[c], moved[c], ret[c])
  /\ LoopOK(pc[c], req[c], page[c], done[c], moved[c])
  /\ WalkOK(pc[c], req[c], cursor[c], ret[c], layout[mm[c]])
  /\ SearchOK(pc[c], req[c], cursor[c], base[c], ret[c], layout[mm[c]])

\* A caller knows an mm exactly while it has a reference, and no mm of later.
MmsOK == \A c \in Callers : /\ pc[c] \in Referring <=> mm[c] # 0
                            /\ current # 0 => mm[c] <= current

IInv == TypeOK /\ NothingLeaked /\ MmsOK /\ \A c \in Callers : CallOK(c)

(***************************************************************************)
(* The books                                                               *)
(***************************************************************************)
Users(m)   == {c \in Callers : mm[c] = m}
Lockers(m) == {c \in Callers : mm[c] = m /\ pc[c] \in Holding}
Pinners(m, p) == {c \in Callers : mm[c] = m /\ p \in Pinned(c)}
Unit(c, S) == IF c \in S THEN 1 ELSE 0
Same(m, n) == IF m = n THEN 1 ELSE 0

LEMMA Books ==
  NothingLeaked <=>
    \A m \in Mms : /\ users[m] = Cardinality(Users(m)) + Same(current, m)
                   /\ readers[m] = Lockers(m)
                   /\ \A p \in Pages : pins[m][p] = Cardinality(Pinners(m, p))
  BY DEF NothingLeaked, Users, Lockers, Pinners, Unit, Same, Holding

\* Changing the membership of one element changes the count by one.
LEMMA OneDiffers ==
  ASSUME NEW A \in SUBSET Callers, NEW B \in SUBSET Callers, NEW c \in Callers,
         \A d \in Callers \ {c} : d \in A <=> d \in B
  PROVE  /\ Cardinality(A) \in Nat /\ Cardinality(B) \in Nat
         /\ Cardinality(B) + Unit(c, A) = Cardinality(A) + Unit(c, B)
<1>1. IsFiniteSet(A) /\ IsFiniteSet(B)
  BY RequestsAssumption, FS_Subset
<1>2. Cardinality(A) \in Nat /\ Cardinality(B) \in Nat
  BY <1>1, FS_CardinalityType
<1>3. CASE (c \in A) <=> (c \in B)
  <2>1. A = B
    BY <1>3
  <2> QED BY <1>2, <2>1
<1>4. CASE c \in A /\ c \notin B
  <2>1. B = A \ {c}
    BY <1>4
  <2>2. Cardinality(B) = Cardinality(A) - 1
    BY <1>1, <1>4, <2>1, FS_RemoveElement
  <2> QED BY <1>2, <1>4, <2>2 DEF Unit, Same
<1>5. CASE c \notin A /\ c \in B
  <2>1. B = A \cup {c}
    BY <1>5
  <2>2. Cardinality(B) = Cardinality(A) + 1
    BY <1>1, <1>5, <2>1, FS_AddElement
  <2> QED BY <1>2, <1>5, <2>2 DEF Unit, Same
<1> QED BY <1>3, <1>4, <1>5

\* Whoever has an mm is counted among its users.
LEMMA Counted ==
  ASSUME TypeOK, NothingLeaked, NEW m \in Mms, NEW c \in Callers
  PROVE  /\ users[m] \in Nat /\ users[m] >= Same(mm[c], m) + Same(current, m)
         /\ \A d \in Callers \ {c} : users[m] >= Same(mm[c], m) + Same(mm[d], m) + Same(current, m)
<1>1. users[m] = Cardinality(Users(m)) + Same(current, m) /\ users[m] \in Nat
  BY Books DEF TypeOK
<1>2. ASSUME NEW S \in SUBSET Users(m)
      PROVE  Cardinality(S) \in Nat /\ Cardinality(Users(m)) \in Nat
             /\ Cardinality(S) <= Cardinality(Users(m))
  <2>1. IsFiniteSet(Users(m))
    BY RequestsAssumption, FS_Subset DEF Users
  <2> QED BY <2>1, FS_Subset, FS_CardinalityType
<1>3. Same(mm[c], m) <= Cardinality(Users(m)) /\ Cardinality(Users(m)) \in Nat
  <2>1. Cardinality({}) = 0 /\ Cardinality({c}) = 1
    BY FS_EmptySet, FS_Singleton
  <2>2. mm[c] = m => {c} \subseteq Users(m)
    BY DEF Users
  <2> QED BY <1>2, <2>1, <2>2 DEF Unit, Same
<1>4. ASSUME NEW d \in Callers \ {c}
      PROVE  Same(mm[c], m) + Same(mm[d], m) <= Cardinality(Users(m))
  <2>1. Cardinality({}) = 0 /\ Cardinality({c}) = 1 /\ Cardinality({d}) = 1
    BY FS_EmptySet, FS_Singleton
  <2>2. Cardinality({c} \cup {d}) = 2
    <3>1. IsFiniteSet({c}) /\ d \notin {c}
      BY FS_Singleton
    <3>2. Cardinality({c} \cup {d}) = Cardinality({c}) + 1
      BY <3>1, FS_AddElement
    <3> QED BY <2>1, <3>2
  <2>3. /\ mm[c] = m => {c} \subseteq Users(m)
        /\ mm[d] = m => {d} \subseteq Users(m)
        /\ mm[c] = m /\ mm[d] = m => {c} \cup {d} \subseteq Users(m)
    BY DEF Users
  <2> QED BY <1>2, <2>1, <2>2, <2>3 DEF Unit, Same
<1> QED BY <1>1, <1>3, <1>4 DEF Unit, Same

\* A step of c leaves the books of the others alone.
OthersKept(c) == \A d \in Callers \ {c} :
  pc'[d] = pc[d] /\ mm'[d] = mm[d] /\ req'[d] = req[d] /\ page'[d] = page[d]

LEMMA SamePages ==
  ASSUME NEW c \in Callers, req'[c] = req[c]
  PROVE  PagesOf(c)' = PagesOf(c) /\ \A n : FirstPages(c, n)' = FirstPages(c, n)
  BY DEF PagesOf, FirstPages, PageAt, Count, Offset

LEMMA SamePinned ==
  ASSUME NEW c \in Callers, pc'[c] = pc[c], req'[c] = req[c], page'[c] = page[c]
  PROVE  Pinned(c)' = Pinned(c)
  BY DEF Pinned, PagesOf, FirstPages, PageAt, Count, Offset

LEMMA OthersCount ==
  ASSUME NEW c \in Callers, OthersKept(c), NEW d \in Callers \ {c}, NEW m, NEW p
  PROVE  /\ d \in Users(m) <=> d \in Users(m)'
         /\ d \in Lockers(m) <=> d \in Lockers(m)'
         /\ d \in Pinners(m, p) <=> d \in Pinners(m, p)'
<1>1. pc'[d] = pc[d] /\ mm'[d] = mm[d] /\ req'[d] = req[d] /\ page'[d] = page[d]
  BY DEF OthersKept
<1>2. Pinned(d)' = Pinned(d)
  BY <1>1, SamePinned
<1> QED BY <1>1, <1>2 DEF Users, Lockers, Pinners

\* What a step of c means to the books is what it means for c.
LEMMA UsersOfOne ==
  ASSUME TypeOK, NothingLeaked, NEW c \in Callers, OthersKept(c), NEW m \in Mms
  PROVE  /\ Cardinality(Users(m)') \in Nat
         /\ Cardinality(Users(m)') + Same(mm[c], m) + Same(current, m) = users[m] + Same(mm'[c], m)
<1>1. users[m] = Cardinality(Users(m)) + Same(current, m)
  BY Books
<1>2. Users(m) \in SUBSET Callers /\ Users(m)' \in SUBSET Callers
  BY DEF Users
<1>3. \A d \in Callers \ {c} : d \in Users(m) <=> d \in Users(m)'
  BY OthersCount
<1>4. /\ Cardinality(Users(m)) \in Nat /\ Cardinality(Users(m)') \in Nat
      /\ Cardinality(Users(m)') + Unit(c, Users(m)) = Cardinality(Users(m)) + Unit(c, Users(m)')
  BY <1>2, <1>3, OneDiffers
<1>5. (c \in Users(m) <=> mm[c] = m) /\ (c \in Users(m)' <=> mm'[c] = m)
  BY DEF Users
<1> QED BY <1>1, <1>4, <1>5 DEF Unit, Same

LEMMA LockersOfOne ==
  ASSUME NothingLeaked, NEW c \in Callers, OthersKept(c), NEW m \in Mms, NEW S \in SUBSET Callers,
         \A d \in Callers \ {c} : d \in S <=> d \in readers[m],
         c \in S <=> c \in Lockers(m)'
  PROVE  S = Lockers(m)'
<1>1. readers[m] = Lockers(m)
  BY Books
<1>2. Lockers(m) \subseteq Callers /\ Lockers(m)' \subseteq Callers
  BY DEF Lockers
<1>3. \A d \in Callers \ {c} : d \in Lockers(m) <=> d \in Lockers(m)'
  BY OthersCount
<1> QED BY <1>1, <1>2, <1>3

LEMMA PinnersOfOne ==
  ASSUME NothingLeaked, NEW c \in Callers, OthersKept(c), NEW m \in Mms, NEW p \in Pages
  PROVE  /\ Cardinality(Pinners(m, p)') \in Nat
         /\ Cardinality(Pinners(m, p)') + Unit(c, Pinners(m, p)) = pins[m][p] + Unit(c, Pinners(m, p)')
<1>1. pins[m][p] = Cardinality(Pinners(m, p))
  BY Books
<1>2. Pinners(m, p) \in SUBSET Callers /\ Pinners(m, p)' \in SUBSET Callers
  BY DEF Pinners
<1>3. \A d \in Callers \ {c} : d \in Pinners(m, p) <=> d \in Pinners(m, p)'
  BY OthersCount
<1> QED BY <1>1, <1>2, <1>3, OneDiffers

\* The books of the references, the lock and the pins as a step of c moves them.
UsersBalance(c) == \A m \in Mms :
  users'[m] + Same(mm[c], m) + Same(current, m) = users[m] + Same(mm'[c], m) + Same(current', m)
LockBalance(c) == \A m \in Mms :
  readers'[m] = IF mm'[c] = m /\ pc'[c] \in Holding THEN readers[m] \cup {c} ELSE readers[m] \ {c}
PinBalance(c) == \A m \in Mms, p \in Pages :
  pins'[m][p] + Unit(c, Pinners(m, p)) = pins[m][p] + Unit(c, Pinners(m, p)')

LEMMA BooksBalance ==
  ASSUME TypeOK, TypeOK', NothingLeaked, NEW c \in Callers, OthersKept(c),
         UsersBalance(c), LockBalance(c), PinBalance(c)
  PROVE  NothingLeaked'
<1> SUFFICES ASSUME NEW m \in Mms
             PROVE  /\ users'[m] = Cardinality(Users(m)') + Same(current', m)
                    /\ readers'[m] = Lockers(m)'
                    /\ \A p \in Pages : pins'[m][p] = Cardinality(Pinners(m, p)')
  BY DEF NothingLeaked, Users, Lockers, Pinners, Same, Holding
<1>1. users'[m] = Cardinality(Users(m)') + Same(current', m)
  <2>1. users[m] \in Nat /\ users'[m] \in Nat
    BY DEF TypeOK
  <2>2. users'[m] + Same(mm[c], m) + Same(current, m)
          = users[m] + Same(mm'[c], m) + Same(current', m)
    BY DEF UsersBalance
  <2> QED BY <2>1, <2>2, UsersOfOne DEF Same
<1>2. readers'[m] = Lockers(m)'
  <2>1. readers'[m] \in SUBSET Callers
    BY DEF TypeOK
  <2>2. \A d \in Callers \ {c} : d \in readers'[m] <=> d \in readers[m]
    BY DEF LockBalance
  <2>3. c \in readers'[m] <=> c \in Lockers(m)'
    BY DEF LockBalance, Lockers
  <2> QED BY <2>1, <2>2, <2>3, LockersOfOne
<1>3. ASSUME NEW p \in Pages PROVE pins'[m][p] = Cardinality(Pinners(m, p)')
  <2>1. pins[m][p] \in Nat /\ pins'[m][p] \in Nat
    BY DEF TypeOK
  <2>2. pins'[m][p] + Unit(c, Pinners(m, p)) = pins[m][p] + Unit(c, Pinners(m, p)')
    BY DEF PinBalance
  <2> QED BY <2>1, <2>2, PinnersOfOne DEF Unit
<1> QED BY <1>1, <1>2, <1>3

LEMMA UsersUnmoved ==
  ASSUME NEW c \in Callers, users' = users, mm' = mm, current' = current
  PROVE  UsersBalance(c)
  BY DEF UsersBalance

LEMMA LockUnmoved ==
  ASSUME TypeOK, NothingLeaked, NEW c \in Callers, readers' = readers,
         \A m \in Mms : mm'[c] = m /\ pc'[c] \in Holding <=> mm[c] = m /\ pc[c] \in Holding
  PROVE  LockBalance(c)
<1> SUFFICES ASSUME NEW m \in Mms
             PROVE  readers[m] = IF mm'[c] = m /\ pc'[c] \in Holding THEN readers[m] \cup {c}
                                 ELSE readers[m] \ {c}
  BY DEF LockBalance
<1>1. readers[m] = Lockers(m)
  BY Books
<1> QED BY <1>1 DEF Lockers

LEMMA PinsUnmoved ==
  ASSUME NEW c \in Callers, pins' = pins,
         \/ pc[c] \notin Pinning /\ pc'[c] \notin Pinning
         \/ pc'[c] = pc[c] /\ req'[c] = req[c] /\ mm'[c] = mm[c] /\ (pc[c] = "copy" \/ page'[c] = page[c])
  PROVE  PinBalance(c)
<1> SUFFICES ASSUME NEW m \in Mms, NEW p \in Pages
             PROVE  c \in Pinners(m, p) <=> c \in Pinners(m, p)'
  BY DEF PinBalance, Unit
<1>1. CASE pc[c] \notin Pinning /\ pc'[c] \notin Pinning
  BY <1>1 DEF Pinners, Pinned, Pinning
<1>2. CASE pc'[c] = pc[c] /\ req'[c] = req[c] /\ mm'[c] = mm[c] /\ (pc[c] = "copy" \/ page'[c] = page[c])
  <2>1. Pinned(c)' = Pinned(c)
    BY <1>2, SamePages DEF Pinned
  <2> QED BY <1>2, <2>1 DEF Pinners
<1> QED BY <1>1, <1>2

\* Pinning pages of the mm accessed, and unpinning those that were pinned.
LEMMA PinsTaken ==
  ASSUME TypeOK, NEW c \in Callers, mm[c] \in Mms, NEW S, PinPages(c, S)
  PROVE  /\ pins' \in [Mms -> [Pages -> Nat]]
         /\ \A m \in Mms, p \in Pages :
              pins'[m][p] = IF m = mm[c] /\ p \in S THEN pins[m][p] + 1 ELSE pins[m][p]
<1> DEFINE new == [p \in Pages |-> IF p \in S THEN pins[mm[c]][p] + 1 ELSE pins[mm[c]][p]]
<1>1. pins \in [Mms -> [Pages -> Nat]]
  BY DEF TypeOK
<1>2. pins' = [pins EXCEPT ![mm[c]] = new]
  BY <1>1 DEF PinPages
<1>3. new \in [Pages -> Nat]
  BY <1>1
<1>4. pins'[mm[c]] = new /\ \A m \in Mms \ {mm[c]} : pins'[m] = pins[m]
  BY <1>1, <1>2
<1> QED BY <1>1, <1>2, <1>3, <1>4

LEMMA PinsGiven ==
  ASSUME TypeOK, NothingLeaked, NEW c \in Callers, mm[c] \in Mms, mm' = mm,
         UnpinPages(c, Pinned(c)), pc'[c] \notin Pinning
  PROVE  pins' \in [Mms -> [Pages -> Nat]] /\ PinBalance(c)
<1> DEFINE S == Pinned(c)
           new == [p \in Pages |-> IF p \in S THEN pins[mm[c]][p] - 1 ELSE pins[mm[c]][p]]
<1>1. pins \in [Mms -> [Pages -> Nat]]
  BY DEF TypeOK
<1>2. ASSUME NEW p \in Pages, p \in S PROVE pins[mm[c]][p] \in Nat \ {0}
  <2>1. pins[mm[c]][p] = Cardinality(Pinners(mm[c], p)) /\ pins[mm[c]][p] \in Nat
    BY <1>1, Books
  <2>2. c \in Pinners(mm[c], p) /\ IsFiniteSet(Pinners(mm[c], p))
    BY <1>2, RequestsAssumption, FS_Subset DEF Pinners
  <2> QED BY <2>1, <2>2, FS_EmptySet
<1>3. pins' = [pins EXCEPT ![mm[c]] = new]
  BY <1>1 DEF UnpinPages
<1>4. new \in [Pages -> Nat]
  BY <1>1, <1>2
<1>5. pins'[mm[c]] = new /\ \A m \in Mms \ {mm[c]} : pins'[m] = pins[m]
  BY <1>1, <1>3
<1>6. PinBalance(c)
  <2> SUFFICES ASSUME NEW m \in Mms, NEW p \in Pages
               PROVE  pins'[m][p] + Unit(c, Pinners(m, p)) = pins[m][p] + Unit(c, Pinners(m, p)')
    BY DEF PinBalance
  <2>1. c \notin Pinners(m, p)'
    BY DEF Pinners, Pinned, Pinning
  <2>2. c \in Pinners(m, p) <=> mm[c] = m /\ p \in S
    BY DEF Pinners
  <2>3. pins[m][p] \in Nat
    BY <1>1
  <2>4. pins'[m][p] = IF m = mm[c] /\ p \in S THEN pins[m][p] - 1 ELSE pins[m][p]
    BY <1>5
  <2> HIDE DEF S, new
  <2> QED BY <2>1, <2>2, <2>3, <2>4 DEF Unit
<1> QED BY <1>1, <1>3, <1>4, <1>6

\* A step that changes neither references nor lock nor pins.
LEMMA BooksKept ==
  ASSUME TypeOK, TypeOK', NothingLeaked, NEW c \in Callers, OthersKept(c),
         mm' = mm, current' = current, users' = users, readers' = readers, pins' = pins,
         pc'[c] \in Holding <=> pc[c] \in Holding,
         \/ pc[c] \notin Pinning /\ pc'[c] \notin Pinning
         \/ pc'[c] = pc[c] /\ req'[c] = req[c] /\ (pc[c] = "copy" \/ page'[c] = page[c])
  PROVE  NothingLeaked'
  BY BooksBalance, UsersUnmoved, LockUnmoved, PinsUnmoved

(***************************************************************************)
(* What a step leaves alone                                                *)
(***************************************************************************)
LEMMA CallKept ==
  ASSUME NEW c \in Callers, CallOK(c),
         pc'[c] = pc[c], req'[c] = req[c], mm'[c] = mm[c], cursor'[c] = cursor[c],
         page'[c] = page[c], done'[c] = done[c], moved'[c] = moved[c], base'[c] = base[c],
         ret'[c] = ret[c], pc[c] \in Holding => layout'[mm[c]] = layout[mm[c]]
  PROVE  CallOK(c)'
<1>1. CASE pc[c] \in Holding
  BY <1>1 DEF CallOK
<1>2. CASE pc[c] \notin Holding
  BY <1>2 DEF CallOK, WalkOK, SearchOK, Holding
<1> QED BY <1>1, <1>2

\* The rest of the system at a step of c; mappings change only where nobody
\* holds the lock.
Others(c) == \A d \in Callers \ {c} :
  /\ pc'[d] = pc[d] /\ req'[d] = req[d] /\ mm'[d] = mm[d] /\ cursor'[d] = cursor[d]
  /\ page'[d] = page[d] /\ done'[d] = done[d] /\ moved'[d] = moved[d] /\ base'[d] = base[d]
  /\ ret'[d] = ret[d] /\ (pc[d] \in Holding => layout'[mm[d]] = layout[mm[d]])

LEMMA StepOfOne ==
  ASSUME IInv, NEW c \in Callers, Others(c), current' = current,
         TypeOK', NothingLeaked', CallOK(c)',
         pc'[c] \in Referring <=> mm'[c] # 0, current # 0 => mm'[c] <= current
  PROVE  IInv'
<1>1. \A d \in Callers : CallOK(d)'
  BY CallKept DEF Others, IInv
<1>2. MmsOK'
  BY DEF MmsOK, Others, IInv
<1> QED BY <1>1, <1>2 DEF IInv

\* What is known of a caller.
LEMMA OfCaller ==
  ASSUME IInv, NEW c \in Callers
  PROVE  /\ TypeOK /\ NothingLeaked /\ CallOK(c)
         /\ pc[c] \in Referring <=> mm[c] # 0
         /\ current # 0 => mm[c] <= current
         /\ mm[c] \in {0} \cup Mms /\ pc[c] \in CallerStates /\ ret[c] \in Results
         /\ req[c] \in [op : {"none", "read", "write", "base"}, addr : 0..(Width - 1),
                        size : 0..(Width - 1), absent : BOOLEAN]
         /\ cursor[c] \in 0..(Width - 1) /\ page[c] \in Nat /\ done[c] \in Nat
         /\ mm[c] # 0 => mm[c] \in Mms /\ layout[mm[c]] \in [Pages -> Kinds]
<1>1. TypeOK
  BY DEF IInv
<1>2. /\ mm[c] \in {0} \cup Mms /\ pc[c] \in CallerStates /\ ret[c] \in Results
      /\ req[c] \in [op : {"none", "read", "write", "base"}, addr : 0..(Width - 1),
                     size : 0..(Width - 1), absent : BOOLEAN]
      /\ cursor[c] \in 0..(Width - 1) /\ page[c] \in Nat /\ done[c] \in Nat
  BY <1>1 DEF TypeOK
<1>3. mm[c] # 0 => mm[c] \in Mms /\ layout[mm[c]] \in [Pages -> Kinds]
  BY <1>1, <1>2 DEF TypeOK
<1> QED BY <1>1, <1>2, <1>3 DEF IInv, MmsOK

-----------------------------------------------------------------------------
(* The steps of a call *)

LEMMA CallStep ==
  ASSUME IInv, NEW c \in Callers, Call(c)
  PROVE  IInv'
<1>1. TypeOK /\ pc[c] = "idle" /\ CallOK(c)
  BY OfCaller DEF Call
<1>2. PICK op \in {"read", "write", "base"}, a \in 0..(Width - 1), n \in 0..(Width - 1), b \in BOOLEAN :
        /\ req' = [req EXCEPT ![c] = [op |-> op, addr |-> a, size |-> n, absent |-> b]]
        /\ op = "base" => a = 0 /\ n = 0
  <2>1. 0 \in 0..(Width - 1)
    BY SizesAssumption, Multiples DEF TaskSize
  <2> QED BY <2>1, RequestsAssumption DEF Call
<1>3. /\ pc' = [pc EXCEPT ![c] = "validate"]
      /\ UNCHANGED <<current, layout, waiting, users, readers, pins, mm, cursor, page, done, moved,
                     base, ret>>
  BY DEF Call, Goto, target, locals
<1>4. TypeOK'
  BY <1>1, <1>2, <1>3 DEF TypeOK, CallerStates
<1>5. pc'[c] = "validate" /\ req'[c] = [op |-> op, addr |-> a, size |-> n, absent |-> b]
  BY <1>1, <1>2, <1>3 DEF TypeOK
<1>6. Others(c)
  BY <1>1, <1>2, <1>3 DEF Others, TypeOK
<1>7. NothingLeaked'
  BY <1>1, <1>3, <1>4, <1>5, <1>6, OfCaller, BooksKept DEF Others, OthersKept, Holding, Pinning
<1>8. CallOK(c)'
  BY <1>1, <1>2, <1>3, <1>5
  DEF CallOK, RequestOK, ResultOK, LoopOK, WalkOK, SearchOK, Referring, Holding, Unmoved, Ending,
      Transfer
<1> QED BY <1>1, <1>3, <1>4, <1>5, <1>6, <1>7, <1>8, StepOfOne, OfCaller DEF Referring, Holding

LEMMA ValidateStep ==
  ASSUME IInv, NEW c \in Callers, Validate(c) \/ ValidateName(c)
  PROVE  IInv'
<1>1. TypeOK /\ pc[c] = "validate" /\ CallOK(c)
  BY OfCaller DEF Validate, ValidateName
<1>2. PICK s \in {"done", "access"}, r \in Results :
        /\ pc' = [pc EXCEPT ![c] = s] /\ ret' = [ret EXCEPT ![c] = r]
        /\ s = "done" <=> r # "ok"
        /\ s = "access" => Acceptable(c) \/ ~Copying(c)
  <2>1. ret[c] = "ok" /\ ret = [ret EXCEPT ![c] = "ok"]
    BY <1>1 DEF CallOK, ResultOK, Unmoved, TypeOK
  <2> QED BY <2>1 DEF Validate, ValidateName, Goto, Outcome, Results
<1>3. UNCHANGED <<current, layout, waiting, users, readers, pins, req, mm, cursor, page, done, moved,
                  base>>
  BY DEF Validate, ValidateName, target, locals
<1>4. TypeOK'
  BY <1>1, <1>2, <1>3 DEF TypeOK, CallerStates
<1>5. pc'[c] = s /\ ret'[c] = r
  BY <1>1, <1>2 DEF TypeOK
<1>6. Others(c)
  BY <1>1, <1>2, <1>3 DEF Others, TypeOK
<1>7. NothingLeaked'
  BY <1>1, <1>3, <1>4, <1>5, <1>6, OfCaller, BooksKept DEF Others, OthersKept, Holding, Pinning
<1>8. CallOK(c)'
  BY <1>1, <1>2, <1>3, <1>5, OfCaller
  DEF CallOK, RequestOK, ResultOK, LoopOK, WalkOK, SearchOK, Referring, Holding, Unmoved, Ending,
      Transfer, Acceptable, Copying
<1> QED BY <1>1, <1>3, <1>4, <1>5, <1>6, <1>7, <1>8, StepOfOne, OfCaller DEF Referring, Holding

LEMMA AccessStep ==
  ASSUME IInv, NEW c \in Callers, Access(c)
  PROVE  IInv'
<1>1. TypeOK /\ NothingLeaked /\ pc[c] = "access" /\ CallOK(c) /\ mm[c] = 0
  BY OfCaller DEF Access, Referring, Holding
<1>2. UNCHANGED <<current, layout, waiting, readers, pins, req, cursor, page, done, moved, base>>
  BY DEF Access, target, locals
<1>3. CASE /\ \E r \in AccessErrors : Outcome(c, r)
           /\ Goto(c, "done") /\ UNCHANGED <<mm, users>>
  <2>0. PICK r \in AccessErrors : Outcome(c, r)
    BY <1>3
  <2>1. /\ pc' = [pc EXCEPT ![c] = "done"] /\ ret' = [ret EXCEPT ![c] = r] /\ UNCHANGED <<mm, users>>
        /\ r # "ok"
    BY <1>3, <2>0, RequestsAssumption DEF Goto, Outcome
  <2>2. TypeOK'
    BY <1>1, <1>2, <2>1 DEF TypeOK, CallerStates, Results
  <2>3. pc'[c] = "done" /\ ret'[c] = r
    BY <1>1, <2>1 DEF TypeOK
  <2>4. Others(c)
    BY <1>1, <1>2, <2>1 DEF Others, TypeOK
  <2>5. NothingLeaked'
    BY <1>1, <1>2, <2>1, <2>2, <2>3, <2>4, BooksKept DEF Others, OthersKept, Holding, Pinning
  <2>6. CallOK(c)'
    BY <1>1, <1>2, <2>1, <2>3
    DEF CallOK, RequestOK, ResultOK, LoopOK, WalkOK, SearchOK, Referring, Holding, Unmoved, Ending,
        Transfer
  <2> QED BY <1>1, <1>2, <2>1, <2>2, <2>3, <2>4, <2>5, <2>6, StepOfOne, OfCaller
          DEF Referring, Holding
<1>4. CASE /\ current # 0
           /\ mm' = [mm EXCEPT ![c] = current]
           /\ users' = [users EXCEPT ![current] = @ + 1]
           /\ Goto(c, "lock") /\ UNCHANGED ret
  <2>1. pc' = [pc EXCEPT ![c] = "lock"] /\ ret' = ret /\ current \in Mms
    BY <1>1, <1>4 DEF Goto, TypeOK
  <2>2. TypeOK'
    BY <1>1, <1>2, <1>4, <2>1 DEF TypeOK, CallerStates
  <2>3. pc'[c] = "lock" /\ mm'[c] = current
    BY <1>1, <1>4, <2>1 DEF TypeOK
  <2>4. Others(c)
    BY <1>1, <1>2, <1>4, <2>1 DEF Others, TypeOK
  <2>5. NothingLeaked'
    <3>1. UsersBalance(c)
      <4> SUFFICES ASSUME NEW m \in Mms
                   PROVE  users'[m] + Same(mm[c], m) + Same(current, m)
                            = users[m] + Same(mm'[c], m) + Same(current', m)
        BY DEF UsersBalance
      <4>1. users[m] \in Nat /\ users'[m] = users[m] + Same(current, m)
        BY <1>1, <1>4, <2>1 DEF TypeOK, Same
      <4>2. Same(mm[c], m) = 0
        BY <1>1, SizesAssumption DEF Same, Mms
      <4> QED BY <1>2, <2>3, <4>1, <4>2 DEF Same
    <3>2. LockBalance(c) /\ PinBalance(c)
      BY <1>1, <1>2, <2>3, LockUnmoved, PinsUnmoved DEF Holding, Pinning
    <3> QED BY <1>1, <2>2, <2>4, <3>1, <3>2, BooksBalance DEF Others, OthersKept
  <2>6. CallOK(c)'
    BY <1>1, <1>2, <2>1, <2>3
    DEF CallOK, RequestOK, ResultOK, LoopOK, WalkOK, SearchOK, Referring, Holding, Unmoved, Ending,
        Transfer
  <2>7. current <= current
    BY <2>1 DEF Mms
  <2> QED BY <1>1, <1>2, <1>4, <2>2, <2>3, <2>4, <2>5, <2>6, <2>7, StepOfOne DEF Referring, Holding
<1> QED BY <1>3, <1>4 DEF Access

\* The end of a request that has been validated.
LEMMA EndOf ==
  ASSUME TypeOK, NEW c \in Callers, req[c].addr + req[c].size < Width
  PROVE  End(c) = req[c].addr + req[c].size /\ req[c].addr \in Nat /\ req[c].size \in Nat
<1>1. req[c].addr \in Nat /\ req[c].size \in Nat /\ Width \in Nat \ {0}
  <2>1. req[c].addr \in 0..(Width - 1) /\ req[c].size \in 0..(Width - 1)
    BY DEF TypeOK
  <2> QED BY <2>1, SizesAssumption
<1> DEFINE e == req[c].addr + req[c].size
<1>2. e \in Nat /\ e \in 0..(Width - 1) /\ e = 0 * Width + e
  BY <1>1
<1>3. (e % Width) = e
  <2> HIDE DEF e
  <2> QED BY <1>1, <1>2, Quotient
<1> QED BY <1>1, <1>3 DEF End

LEMMA LockStep ==
  ASSUME IInv, NEW c \in Callers, Lock(c)
  PROVE  IInv'
<1>1. /\ TypeOK /\ NothingLeaked /\ pc[c] = "lock" /\ CallOK(c) /\ mm[c] \in Mms
      /\ ret[c] = "ok" /\ moved[c] = {} /\ base[c] = 0 /\ req[c].op \in Transfer \cup {"base"}
  BY OfCaller DEF Lock, Referring, Holding, CallOK, ResultOK, SearchOK, RequestOK, Unmoved
<1>2. UNCHANGED <<current, layout, waiting, users, pins, req, mm, page, done, moved, base>>
  BY DEF Lock, target
<1>3. CASE Outcome(c, "EINTR") /\ Goto(c, "put") /\ UNCHANGED <<readers, cursor>>
  <2>1. pc' = [pc EXCEPT ![c] = "put"] /\ ret' = [ret EXCEPT ![c] = "EINTR"] /\ UNCHANGED <<readers, cursor>>
    BY <1>3 DEF Goto, Outcome
  <2>2. TypeOK'
    BY <1>1, <1>2, <2>1 DEF TypeOK, CallerStates, Results
  <2>3. pc'[c] = "put" /\ ret'[c] = "EINTR"
    BY <1>1, <2>1 DEF TypeOK
  <2>4. Others(c)
    BY <1>1, <1>2, <2>1 DEF Others, TypeOK
  <2>5. NothingLeaked'
    BY <1>1, <1>2, <2>1, <2>2, <2>3, <2>4, BooksKept DEF Others, OthersKept, Holding, Pinning
  <2>6. CallOK(c)'
    BY <1>1, <1>2, <2>1, <2>3
    DEF CallOK, RequestOK, ResultOK, LoopOK, WalkOK, SearchOK, Referring, Holding, Unmoved, Ending,
        Transfer
  <2> QED BY <1>1, <1>2, <2>2, <2>3, <2>4, <2>5, <2>6, StepOfOne, OfCaller DEF Referring, Holding
<1>4. CASE /\ readers' = [readers EXCEPT ![mm[c]] = @ \cup {c}]
           /\ cursor' = [cursor EXCEPT ![c] = req[c].addr]
           /\ IF Copying(c) /\ End(c) > TaskSize
                THEN Outcome(c, "EFAULT") /\ Goto(c, "unlock")
                ELSE Goto(c, IF Copying(c) THEN "check" ELSE "search") /\ UNCHANGED ret
  <2>1. req[c].addr \in 0..(Width - 1) /\ req[c].addr \in Nat /\ req[c].size \in Nat
    BY <1>1, SizesAssumption DEF TypeOK
  <2>2. req[c].op \in Transfer => End(c) = req[c].addr + req[c].size
    BY <1>1, EndOf DEF CallOK, RequestOK, Referring, Holding
  <2>3. PICK s \in {"unlock", "check", "search"}, r \in {"ok", "EFAULT"} :
          /\ pc' = [pc EXCEPT ![c] = s] /\ ret' = [ret EXCEPT ![c] = r]
          /\ s = "unlock" => r = "EFAULT" /\ req[c].op \in Transfer /\ req[c].addr + req[c].size > TaskSize
          /\ s = "check" => r = "ok" /\ req[c].op \in Transfer /\ ~(req[c].addr + req[c].size > TaskSize)
          /\ s = "search" => r = "ok" /\ req[c].op = "base"
    <3>1. ret = [ret EXCEPT ![c] = "ok"]
      BY <1>1 DEF TypeOK
    <3> QED BY <1>1, <1>4, <2>2, <3>1 DEF Goto, Outcome, Copying, Transfer
  <2>4. TypeOK'
    BY <1>1, <1>2, <1>4, <2>1, <2>3 DEF TypeOK, CallerStates, Results
  <2>5. pc'[c] = s /\ ret'[c] = r /\ cursor'[c] = req[c].addr
    BY <1>1, <1>4, <2>3 DEF TypeOK
  <2>6. Others(c)
    BY <1>1, <1>2, <1>4, <2>3 DEF Others, TypeOK
  <2>7. NothingLeaked'
    <3>1. LockBalance(c)
      <4> SUFFICES ASSUME NEW m \in Mms
                   PROVE  readers'[m] = IF mm'[c] = m /\ pc'[c] \in Holding THEN readers[m] \cup {c}
                                        ELSE readers[m] \ {c}
        BY DEF LockBalance
      <4>1. readers[m] = Lockers(m)
        BY <1>1, Books
      <4>2. c \notin readers[m]
        BY <1>1, <4>1 DEF Lockers, Holding
      <4>3. readers'[m] = IF mm[c] = m THEN readers[m] \cup {c} ELSE readers[m]
        BY <1>1, <1>4 DEF TypeOK
      <4> QED BY <1>2, <2>3, <2>5, <4>2, <4>3 DEF Holding
    <3>2. UsersBalance(c) /\ PinBalance(c)
      BY <1>1, <1>2, <2>3, <2>5, UsersUnmoved, PinsUnmoved DEF Pinning
    <3> QED BY <1>1, <2>4, <2>6, <3>1, <3>2, BooksBalance DEF Others, OthersKept
  <2>8. CallOK(c)'
    <3>1. TaskSize \in Nat
      BY SizesAssumption, Multiples DEF TaskSize
    <3>2. RequestOK(s, req[c])
      BY <1>1, <2>1, <2>3, <3>1 DEF CallOK, RequestOK, Referring, Holding, Transfer
    <3>3. ResultOK(s, req[c], moved[c], r) /\ LoopOK(s, req[c], page[c], done[c], moved[c])
      BY <1>1, <2>3 DEF ResultOK, LoopOK, Unmoved, Ending, Transfer
    <3>4. WalkOK(s, req[c], req[c].addr, r, layout[mm[c]])
      <4>1. ~(req[c].addr + req[c].size <= TaskSize) \/ s # "unlock"
        BY <2>1, <2>3, <3>1
      <4>2. req[c].addr..(req[c].addr - 1) = {} /\ req[c].addr <= req[c].addr + req[c].size
        BY <2>1
      <4> QED BY <2>1, <2>3, <4>1, <4>2 DEF WalkOK
    <3>5. SearchOK(s, req[c], req[c].addr, base[c], r, layout[mm[c]])
      <4>1. s = "search" => req[c].addr = 0
        BY <1>1, <2>3 DEF CallOK, RequestOK
      <4>2. 0 \in 0..NumPages /\ 0 = 0 * PageSize /\ \A p \in Pages : ~(p < 0)
        BY SizesAssumption DEF Pages
      <4> QED BY <1>1, <2>3, <4>1, <4>2 DEF SearchOK, Transfer, Unmoved
    <3> QED BY <1>2, <2>5, <3>2, <3>3, <3>4, <3>5 DEF CallOK
  <2> QED BY <1>1, <1>2, <2>3, <2>4, <2>5, <2>6, <2>7, <2>8, StepOfOne, OfCaller
          DEF Referring, Holding
<1> QED BY <1>3, <1>4 DEF Lock

\* An address of a mapping has what the mapping says.
LEMMA KindInVma ==
  ASSUME NEW l \in [Pages -> Kinds], NEW v \in Vmas(l), NEW a \in Nat, Start(v) <= a, a < Limit(v)
  PROVE  KindIn(l, a) = v.kind /\ v.kind \in Kinds \ {"hole"} /\ a \div PageSize \in v.first..v.last
<1>1. v.first \in Pages /\ v.last \in Pages /\ v.first \in Nat /\ v.last \in Nat
  BY VmaShape DEF Pages
<1>2. a \div PageSize \in Nat /\ v.first <= a \div PageSize /\ a \div PageSize <= v.last
  BY <1>1, PageBounds DEF Start, Limit
<1>3. a \div PageSize \in Pages /\ a < TaskSize
  <2>1. a \div PageSize \in Pages
    BY <1>1, <1>2, SizesAssumption DEF Pages
  <2> QED BY <2>1, PageBounds
<1>4. a \div PageSize \in v.first..v.last
  BY <1>1, <1>2
<1> QED BY <1>3, <1>4, VmaShape DEF KindIn

LEMMA Accepted ==
  ASSUME NEW k \in Kinds \ {"hole"}, NEW op \in Transfer
  PROVE  Refusal(k, op) = "ok" <=> IF op = "write" THEN k = "data"
                                   ELSE k \in {"data", "file", "lib", "jit"}
  BY DEF Refusal, Special, Executable, Writable, Readable, Kinds, Transfer

LEMMA RefusedHere ==
  ASSUME NEW r, NEW l, NEW at \in Nat, NEW n, NEW result, r.addr \in Nat, r.size \in Nat,
         r.addr <= at, at < r.addr + r.size,
         \A a \in r.addr..(at - 1) : Permits(l, a, r.op),
         ~Permits(l, at, r.op), result = Answer(l, at, r.op)
  PROVE  WalkOK("unlock", r, n, result, l)
<1> DEFINE bad == {a \in r.addr..(r.addr + r.size - 1) : ~Permits(l, a, r.op)}
<1>1. at \in r.addr..(r.addr + r.size - 1)
  OBVIOUS
<1>2. \A b \in r.addr..(r.addr + r.size - 1) : at <= b \/ b \in r.addr..(at - 1)
  OBVIOUS
<1>3. at \in bad /\ \A b \in bad : at <= b
  BY <1>1, <1>2
<1> QED BY <1>3 DEF WalkOK

LEMMA CheckStep ==
  ASSUME IInv, NEW c \in Callers, Check(c)
  PROVE  IInv'
<1> DEFINE l == layout[mm[c]]
           found == {v \in FindVma(l, cursor[c]) : Start(v) <= cursor[c]}
<1>1. /\ TypeOK /\ NothingLeaked /\ pc[c] = "check" /\ CallOK(c) /\ mm[c] \in Mms
      /\ l \in [Pages -> Kinds] /\ ret[c] = "ok" /\ moved[c] = {} /\ base[c] = 0
      /\ req[c].op \in Transfer /\ req[c].addr + req[c].size <= TaskSize
  BY OfCaller
  DEF Check, Walk, Referring, Holding, CallOK, ResultOK, SearchOK, RequestOK, Unmoved
<1>2. /\ cursor[c] \in Nat /\ req[c].addr \in Nat /\ req[c].size \in Nat
      /\ End(c) = req[c].addr + req[c].size
      /\ req[c].addr <= cursor[c] /\ cursor[c] <= End(c)
      /\ \A a \in req[c].addr..(cursor[c] - 1) : Permits(l, a, req[c].op)
  <2>1. cursor[c] \in 0..(Width - 1) /\ req[c].addr + req[c].size < Width
    BY <1>1, OfCaller DEF CallOK, RequestOK, Referring, Holding
  <2> QED BY <1>1, <2>1, EndOf, SizesAssumption DEF CallOK, WalkOK
<1>3. UNCHANGED <<current, layout, waiting, users, readers, pins, req, mm, page, done, moved, base>>
  BY DEF Check, Walk, target
<1>4. TaskSize \in Nat /\ TaskSize < Width /\ Width \in Nat
  BY SizesAssumption, Multiples DEF TaskSize
<1> DEFINE To(s, r, at) ==
             /\ pc' = [pc EXCEPT ![c] = s] /\ ret' = [ret EXCEPT ![c] = r]
             /\ cursor' = [cursor EXCEPT ![c] = at]
             /\ s = "unlock" <=> r # "ok"
             /\ WalkOK(s, req[c], at, r, l)
<1>5. PICK s \in {"check", "pin", "unlock"}, r \in Results, at \in 0..(Width - 1) : To(s, r, at)
  <2>1. cursor[c] \in 0..(Width - 1) /\ cursor = [cursor EXCEPT ![c] = cursor[c]]
        /\ ret = [ret EXCEPT ![c] = "ok"] /\ pc = [pc EXCEPT ![c] = "check"]
    BY <1>1 DEF TypeOK
  <2>2. ASSUME cursor[c] >= End(c), Goto(c, "pin"), UNCHANGED <<cursor, ret>>
        PROVE  To("pin", "ok", cursor[c])
    <3>1. cursor[c] = End(c) /\ End(c) - 1 = req[c].addr + req[c].size - 1
      BY <1>2, <2>2
    <3>2. WalkOK("pin", req[c], cursor[c], "ok", l)
      BY <1>2, <3>1 DEF WalkOK
    <3> QED BY <2>1, <2>2, <3>2 DEF Goto
  <2>3. ASSUME cursor[c] < End(c), found = {}, Refuse(c, "EFAULT")
        PROVE  To("unlock", "EFAULT", cursor[c])
    <3>1. cursor[c] < TaskSize /\ ~(\E v \in FindVma(l, cursor[c]) : Start(v) <= cursor[c])
      BY <1>1, <1>2, <1>4, <2>3
    <3>2. KindIn(l, cursor[c]) = "hole"
      BY <1>1, <1>2, <3>1, FindsMapping DEF KindIn
    <3>3. ~Permits(l, cursor[c], req[c].op) /\ Answer(l, cursor[c], req[c].op) = "EFAULT"
      BY <3>2 DEF Permits, Answer
    <3>4. WalkOK("unlock", req[c], cursor[c], "EFAULT", l)
      BY <1>2, <2>3, <3>3, RefusedHere
    <3> QED BY <2>1, <2>3, <3>4 DEF Refuse, Goto, Outcome
  <2>4. ASSUME NEW v \in found, cursor[c] < End(c) PROVE
          /\ v \in Vmas(l) /\ cursor[c] < Limit(v) /\ Start(v) <= cursor[c]
          /\ Limit(v) \in Nat /\ Limit(v) <= TaskSize
          /\ KindIn(l, cursor[c]) = v.kind /\ v.kind \in Kinds \ {"hole"}
    BY <1>1, <1>2, <2>4, FoundVma, VmaShape, KindInVma
  <2>5. ASSUME NEW v \in found, cursor[c] < End(c), Refusal(v.kind, req[c].op) # "ok",
               Refuse(c, Refusal(v.kind, req[c].op))
        PROVE  \E r \in {"EACCES", "EOPNOTSUPP"} :
                 Refuse(c, r) /\ WalkOK("unlock", req[c], cursor[c], r, l)
    <3>1. KindIn(l, cursor[c]) = v.kind /\ v.kind \in Kinds \ {"hole"}
      BY <2>4, <2>5
    <3>2. ~Permits(l, cursor[c], req[c].op)
          /\ Answer(l, cursor[c], req[c].op) = Refusal(v.kind, req[c].op)
      BY <1>1, <2>5, <3>1, Accepted DEF Permits, Answer
    <3>3. WalkOK("unlock", req[c], cursor[c], Refusal(v.kind, req[c].op), l)
      BY <1>2, <2>5, <3>2, RefusedHere
    <3>4. Refusal(v.kind, req[c].op) \in {"EACCES", "EOPNOTSUPP"}
      BY <2>5 DEF Refusal
    <3> QED BY <2>5, <3>3, <3>4
  <2>6. ASSUME NEW v \in found, cursor[c] < End(c), Refusal(v.kind, req[c].op) = "ok"
        PROVE  LET at == IF Limit(v) < End(c) THEN Limit(v) ELSE End(c)
               IN  at \in 0..(Width - 1) /\ WalkOK("check", req[c], at, "ok", l)
    <3> DEFINE at == IF Limit(v) < End(c) THEN Limit(v) ELSE End(c)
    <3>1. /\ Limit(v) \in Nat /\ cursor[c] < Limit(v) /\ Limit(v) <= TaskSize /\ v \in Vmas(l)
          /\ Start(v) <= cursor[c] /\ Start(v) \in Nat
      BY <2>4, <2>6, VmaShape
    <3>2. at \in 0..(Width - 1) /\ req[c].addr <= at /\ at <= req[c].addr + req[c].size /\ at <= Limit(v)
      BY <1>1, <1>2, <1>4, <2>6, <3>1
    <3> HIDE DEF at
    <3>3. ASSUME NEW a \in req[c].addr..(at - 1) PROVE Permits(l, a, req[c].op)
      <4>1. CASE a < cursor[c]
        <5>1. a \in req[c].addr..(cursor[c] - 1)
          BY <1>2, <4>1
        <5> QED BY <1>2, <5>1
      <4>2. CASE ~(a < cursor[c])
        <5>1. a \in Nat /\ Start(v) <= a /\ a < Limit(v)
          BY <1>2, <3>1, <3>2, <4>2
        <5>2. KindIn(l, a) = v.kind /\ v.kind \in Kinds \ {"hole"}
          BY <1>1, <3>1, <5>1, KindInVma
        <5> QED BY <1>1, <2>6, <5>2, Accepted DEF Permits
      <4> QED BY <4>1, <4>2
    <3>4. WalkOK("check", req[c], at, "ok", l)
      BY <3>2, <3>3 DEF WalkOK
    <3> QED BY <3>2, <3>4 DEF at
  <2>7. ASSUME NEW v \in found, cursor[c] < End(c), Refusal(v.kind, req[c].op) # "ok",
               Refuse(c, Refusal(v.kind, req[c].op))
        PROVE  \E r \in Results : To("unlock", r, cursor[c])
    BY <2>1, <2>5, <2>7 DEF Refuse, Goto, Outcome, Results
  <2>8. ASSUME NEW v \in found, cursor[c] < End(c), Refusal(v.kind, req[c].op) = "ok",
               cursor' = [cursor EXCEPT ![c] = IF Limit(v) < End(c) THEN Limit(v) ELSE End(c)],
               UNCHANGED <<pc, ret>>
        PROVE  \E at \in 0..(Width - 1) : To("check", "ok", at)
    BY <2>1, <2>6, <2>8
  <2>9. "ok" \in Results /\ "EFAULT" \in Results
    BY DEF Results
  <2> HIDE DEF To
  <2> QED BY <2>1, <2>2, <2>3, <2>7, <2>8, <2>9 DEF Check, Walk
<1>6. TypeOK'
  BY <1>1, <1>3, <1>5 DEF TypeOK, CallerStates
<1>7. pc'[c] = s /\ ret'[c] = r /\ cursor'[c] = at
  BY <1>1, <1>5 DEF TypeOK
<1>8. Others(c)
  BY <1>1, <1>3, <1>5 DEF Others, TypeOK
<1>9. NothingLeaked'
  BY <1>1, <1>3, <1>5, <1>6, <1>7, <1>8, BooksKept DEF Others, OthersKept, Holding, Pinning
<1>10. CallOK(c)'
  <2>1. RequestOK(s, req[c])
    BY <1>1, <1>5 DEF CallOK, RequestOK, Referring, Holding, Transfer
  <2>2. ResultOK(s, req[c], moved[c], r) /\ LoopOK(s, req[c], page[c], done[c], moved[c])
    BY <1>1, <1>5 DEF ResultOK, LoopOK, Unmoved, Ending, Transfer
  <2>3. SearchOK(s, req[c], at, base[c], r, l)
    BY <1>1, <1>5 DEF SearchOK, Transfer, Unmoved
  <2> QED BY <1>3, <1>5, <1>7, <2>1, <2>2, <2>3 DEF CallOK
<1> QED BY <1>1, <1>3, <1>5, <1>6, <1>7, <1>8, <1>9, <1>10, StepOfOne, OfCaller
        DEF Referring, Holding

LEMMA PinStep ==
  ASSUME IInv, NEW c \in Callers, Pin(c)
  PROVE  IInv'
<1>1. /\ TypeOK /\ NothingLeaked /\ pc[c] = "pin" /\ CallOK(c) /\ mm[c] \in Mms
      /\ ret[c] = "ok" /\ moved[c] = {} /\ base[c] = 0
      /\ req[c].op \in Transfer /\ req[c].addr + req[c].size <= TaskSize
      /\ req[c].size \in 1..MaxTransfer /\ req[c].addr + req[c].size < Width
  BY OfCaller DEF Pin, Referring, Holding, CallOK, ResultOK, SearchOK, RequestOK, Unmoved
<1>2. /\ UNCHANGED <<current, layout, waiting, users, readers, req, mm, cursor, moved, base>>
      /\ done' = [done EXCEPT ![c] = 0]
  BY DEF Pin, target
<1>3. req[c].addr \in Nat /\ req[c].size \in Nat \ {0}
  BY <1>1, EndOf
<1>4. PICK s \in {"copy", "unpin", "unlock"}, r \in Results, S \in SUBSET Int, k \in Nat :
        /\ pc' = [pc EXCEPT ![c] = s] /\ ret' = [ret EXCEPT ![c] = r] /\ page' = [page EXCEPT ![c] = k]
        /\ s \in Pinning => PinPages(c, S) /\ r = "ok"
        /\ s = "copy" => S = PagesOf(c) /\ k = 0
        /\ s = "unpin" => S = FirstPages(c, k)
        /\ s = "unlock" => pins' = pins /\ r # "ok" /\ r \in {"EFAULT"} \cup PinErrors
  <2>1. ret = [ret EXCEPT ![c] = "ok"] /\ "ok" \in Results
    BY <1>1 DEF TypeOK, Results
  <2>2. PICK n \in 0..Count(c) : /\ PinResult(c, n)
                                  /\ page' = [page EXCEPT ![c] = IF n = Count(c) THEN 0 ELSE n]
    BY DEF Pin
  <2>3. Count(c) \in Nat \ {0} /\ n \in Nat
    BY <1>3, LoopEnds DEF Count, Offset, PagesFor
  <2>4. \A j \in Nat : FirstPages(c, j) \in SUBSET Int
    BY <1>3, PageBounds DEF FirstPages, PageAt
  <2>5. PagesOf(c) \in SUBSET Int
    BY <2>3, <2>4 DEF PagesOf
  <2>6. CASE n = Count(c) /\ PinPages(c, PagesOf(c)) /\ Goto(c, "copy") /\ UNCHANGED ret
    BY <2>1, <2>2, <2>5, <2>6 DEF Goto, Pinning
  <2>7. CASE /\ n \in 1..(Count(c) - 1) /\ PinPages(c, FirstPages(c, n))
             /\ Goto(c, "unpin") /\ UNCHANGED ret
    <3>1. n # Count(c)
      BY <2>3, <2>7
    <3> QED BY <2>1, <2>2, <2>3, <2>4, <2>7, <3>1 DEF Goto, Pinning
  <2>8. CASE /\ n = 0 /\ (\E e \in {"EFAULT"} \cup PinErrors : Outcome(c, e))
             /\ Goto(c, "unlock") /\ UNCHANGED pins
    <3>1. PICK e \in {"EFAULT"} \cup PinErrors : Outcome(c, e)
      BY <2>8
    <3>2. e # "ok" /\ e \in Results
      BY RequestsAssumption DEF Results
    <3> QED BY <2>2, <2>3, <2>8, <3>1, <3>2 DEF Goto, Outcome, Pinning
  <2> QED BY <2>2, <2>6, <2>7, <2>8 DEF PinResult
<1>5. pins' \in [Mms -> [Pages -> Nat]]
      /\ \A m \in Mms, p \in Pages :
           pins'[m][p] = IF s \in Pinning /\ m = mm[c] /\ p \in S THEN pins[m][p] + 1 ELSE pins[m][p]
  <2>1. CASE s = "unlock"
    BY <1>1, <1>4, <2>1 DEF TypeOK, Pinning
  <2>2. CASE s # "unlock"
    BY <1>1, <1>4, <2>2, PinsTaken DEF Pinning
  <2> QED BY <2>1, <2>2
<1>6. TypeOK'
  BY <1>1, <1>2, <1>4, <1>5 DEF TypeOK, CallerStates, Results
<1>7. pc'[c] = s /\ ret'[c] = r /\ page'[c] = k /\ done'[c] = 0
  BY <1>1, <1>2, <1>4 DEF TypeOK
<1>8. Others(c)
  BY <1>1, <1>2, <1>4 DEF Others, TypeOK
<1>9. NothingLeaked'
  <2>1. UsersBalance(c) /\ LockBalance(c)
    BY <1>1, <1>2, <1>4, <1>7, UsersUnmoved, LockUnmoved DEF Holding
  <2>2. PinBalance(c)
    <3> SUFFICES ASSUME NEW m \in Mms, NEW p \in Pages
                 PROVE  pins'[m][p] + Unit(c, Pinners(m, p)) = pins[m][p] + Unit(c, Pinners(m, p)')
      BY DEF PinBalance
    <3>1. s \in Pinning => Pinned(c)' = S
      BY <1>2, <1>4, <1>7, SamePages DEF Pinned, Pinning
    <3>2. c \notin Pinners(m, p)
      BY <1>1 DEF Pinners, Pinned
    <3>3. c \in Pinners(m, p)' <=> s \in Pinning /\ mm[c] = m /\ p \in S
      BY <1>2, <1>4, <1>7, <3>1 DEF Pinners, Pinned, Pinning
    <3>4. pins[m][p] \in Nat
      BY <1>1 DEF TypeOK
    <3> QED BY <1>5, <3>2, <3>3, <3>4 DEF Unit
  <2> QED BY <1>1, <1>6, <1>8, <2>1, <2>2, BooksBalance DEF Others, OthersKept
<1>10. CallOK(c)'
  <2>1. RequestOK(s, req[c])
    BY <1>1, <1>4 DEF CallOK, RequestOK, Referring, Holding, Transfer
  <2>2. ResultOK(s, req[c], moved[c], r)
    BY <1>1, <1>4 DEF ResultOK, Unmoved, Ending, Transfer, Pinning
  <2>3. LoopOK(s, req[c], k, 0, moved[c])
    <3>1. PagesFor(req[c].addr, req[c].size) \in Nat /\ DoneAt(req[c].addr, req[c].size, 0) = 0
      BY <1>3, LoopEnds DEF DoneAt
    <3>2. Image(req[c].addr, 0) = {}
      BY DEF Image
    <3> QED BY <1>1, <1>4, <3>1, <3>2 DEF LoopOK
  <2>4. WalkOK(s, req[c], cursor[c], r, layout[mm[c]])
    BY <1>1, <1>4 DEF CallOK, WalkOK
  <2>5. SearchOK(s, req[c], cursor[c], base[c], r, layout[mm[c]])
    BY <1>1, <1>4 DEF SearchOK, Transfer, Unmoved
  <2> QED BY <1>2, <1>4, <1>7, <2>1, <2>2, <2>3, <2>4, <2>5 DEF CallOK
<1> QED BY <1>1, <1>2, <1>4, <1>6, <1>7, <1>8, <1>9, <1>10, StepOfOne, OfCaller
        DEF Referring, Holding

LEMMA CopyPageStep ==
  ASSUME IInv, NEW c \in Callers, CopyPage(c)
  PROVE  IInv'
<1> DEFINE a == req[c].addr
           n == req[c].size
           i == page[c]
           bytes == done[c] + Chunk(c)
           offset == IF i = 0 THEN a % PageSize ELSE 0
           from == PageAt(c, i) * PageSize + offset
<1>1. /\ TypeOK /\ NothingLeaked /\ pc[c] = "copy" /\ CallOK(c) /\ mm[c] \in Mms
      /\ req[c].op \in Transfer /\ a + n <= TaskSize /\ n \in 1..MaxTransfer /\ a + n < Width
      /\ i \in Nat /\ done[c] = DoneAt(a, n, i) /\ moved[c] = Image(a, done[c])
      /\ a \in Nat /\ n \in Nat \ {0}
  BY OfCaller, EndOf DEF CopyPage, Referring, Holding, CallOK, RequestOK, LoopOK
<1>2. /\ UNCHANGED <<current, layout, waiting, users, readers, pins, pc, req, mm, cursor, base, ret>>
      /\ i < PagesFor(a, n)
      /\ moved' = [moved EXCEPT ![c] = @ \cup Piece(done[c], from, Chunk(c))]
      /\ done' = [done EXCEPT ![c] = bytes]
      /\ page' = [page EXCEPT ![c] = i + 1]
  BY <1>1 DEF CopyPage, target, Offset, PagesFor, Count, Piece, TypeOK
<1>3. /\ done[c] \in 0..(n - 1) /\ Chunk(c) \in Nat \ {0}
      /\ DoneAt(a, n, i + 1) = bytes
      /\ from = a + done[c]
  <2>1. Chunk(c) = Min2(n - DoneAt(a, n, i), PageSize - offset)
    BY <1>1 DEF Chunk, Min2, Offset
  <2> QED BY <1>1, <1>2, <2>1, Iteration DEF PageAt
<1> HIDE DEF a, n, i, from, offset
<1>4. moved'[c] = Image(a, bytes) /\ done'[c] = bytes /\ page'[c] = i + 1
  <2>1. moved'[c] = moved[c] \cup Piece(done[c], from, Chunk(c))
    BY <1>1, <1>2 DEF TypeOK
  <2>2. Image(a, done[c] + Chunk(c)) = Image(a, done[c]) \cup Piece(done[c], a + done[c], Chunk(c))
    BY <1>1, <1>3, ImageGrows
  <2> QED BY <1>1, <1>2, <1>3, <2>1, <2>2 DEF TypeOK
<1>5. i + 1 \in Nat /\ i + 1 <= PagesFor(a, n) /\ bytes \in Nat /\ bytes <= n
  <2>1. PagesFor(a, n) \in Nat
    BY <1>1, LoopEnds
  <2>2. i + 1 \in Nat
    BY <1>1
  <2>3. DoneAt(a, n, i + 1) <= n
    BY <1>1, <2>2, DoneWithin
  <2> QED BY <1>1, <1>2, <1>3, <2>1, <2>2, <2>3
<1>6. TypeOK'
  <2> DEFINE Moves == SUBSET ((0..(MaxTransfer - 1)) \X (0..(TaskSize - 1)))
  <2>1. Image(a, bytes) \in Moves
    <3>1. bytes <= MaxTransfer /\ a + bytes <= TaskSize
      <4>1. TaskSize \in Nat /\ MaxTransfer \in Nat
        BY SizesAssumption, Multiples DEF TaskSize
      <4> HIDE DEF bytes
      <4> QED BY <1>1, <1>5, <4>1
    <3> QED BY <1>1, <1>5, <3>1, ImageWithin
  <2>2. moved' \in [Callers -> Moves]
    <3> HIDE DEF Moves
    <3>1. moved \in [Callers -> Moves]
      BY <1>1 DEF TypeOK, Moves
    <3>2. moved' = [moved EXCEPT ![c] = moved'[c]]
      BY <1>2, <3>1
    <3> QED BY <1>4, <2>1, <3>1, <3>2
  <2>3. done' \in [Callers -> Nat] /\ page' \in [Callers -> Nat]
    BY <1>1, <1>2, <1>5 DEF TypeOK
  <2> QED BY <1>1, <1>2, <2>2, <2>3 DEF TypeOK
<1>7. Others(c)
  BY <1>1, <1>2 DEF Others, TypeOK
<1>8. NothingLeaked'
  BY <1>1, <1>2, <1>6, <1>7, BooksKept DEF Others, OthersKept
<1>9. CallOK(c)'
  <2>1. LoopOK(pc[c], req[c], i + 1, bytes, moved'[c])
    BY <1>3, <1>4, <1>5 DEF LoopOK, a, n
  <2>2. ResultOK(pc[c], req[c], moved'[c], ret[c])
    BY <1>1 DEF CallOK, ResultOK, Unmoved, Ending
  <2> QED BY <1>1, <1>2, <1>4, <2>1, <2>2 DEF CallOK
<1> QED BY <1>1, <1>2, <1>6, <1>7, <1>8, <1>9, StepOfOne, OfCaller

LEMMA UnpinStep ==
  ASSUME IInv, NEW c \in Callers, Unpin(c)
  PROVE  IInv'
<1>1. /\ TypeOK /\ NothingLeaked /\ pc[c] = "copy" /\ CallOK(c) /\ mm[c] \in Mms
      /\ ret[c] = "ok" /\ base[c] = 0 /\ req[c].op \in Transfer
      /\ req[c].size \in 1..MaxTransfer /\ req[c].addr + req[c].size < Width
      /\ req[c].addr \in Nat /\ req[c].size \in Nat \ {0}
  BY OfCaller, EndOf
  DEF Unpin, Referring, Holding, CallOK, ResultOK, SearchOK, RequestOK, Unmoved
<1>2. /\ UNCHANGED <<current, layout, waiting, users, readers, req, mm, cursor, page, done, moved, base>>
      /\ page[c] = PagesFor(req[c].addr, req[c].size) /\ UnpinPages(c, Pinned(c))
      /\ pc' = [pc EXCEPT ![c] = "unlock"] /\ ret' = [ret EXCEPT ![c] = "ok"]
  BY <1>1 DEF Unpin, Pinned, target, locals, Goto, Outcome, PagesFor, Count, Offset
<1>3. moved[c] = Image(req[c].addr, req[c].size)
  BY <1>1, <1>2, LoopEnds DEF CallOK, LoopOK
<1>4. pc'[c] = "unlock" /\ ret'[c] = "ok"
  BY <1>1, <1>2 DEF TypeOK
<1>5. pins' \in [Mms -> [Pages -> Nat]] /\ PinBalance(c)
  BY <1>1, <1>2, <1>4, PinsGiven DEF Pinning
<1>6. TypeOK'
  BY <1>1, <1>2, <1>5 DEF TypeOK, CallerStates, Results
<1>8. Others(c)
  BY <1>1, <1>2 DEF Others, TypeOK
<1>9. NothingLeaked'
  <2>1. UsersBalance(c) /\ LockBalance(c)
    BY <1>1, <1>2, <1>4, UsersUnmoved, LockUnmoved DEF Holding
  <2> QED BY <1>1, <1>5, <1>6, <1>8, <2>1, BooksBalance, <1>2 DEF Others, OthersKept
<1>10. CallOK(c)'
  <2>1. RequestOK("unlock", req[c]) /\ LoopOK("unlock", req[c], page[c], done[c], moved[c])
    BY <1>1 DEF CallOK, RequestOK, LoopOK, Referring, Holding
  <2>2. ResultOK("unlock", req[c], moved[c], "ok")
    BY <1>1, <1>3 DEF ResultOK, Unmoved, Ending
  <2>3. WalkOK("unlock", req[c], cursor[c], "ok", layout[mm[c]])
    BY <1>1 DEF CallOK, WalkOK
  <2>4. SearchOK("unlock", req[c], cursor[c], base[c], "ok", layout[mm[c]])
    BY <1>1 DEF SearchOK, Transfer, Unmoved
  <2> QED BY <1>2, <1>4, <2>1, <2>2, <2>3, <2>4 DEF CallOK
<1> QED BY <1>1, <1>2, <1>4, <1>6, <1>8, <1>9, <1>10, StepOfOne, OfCaller
        DEF Referring, Holding

LEMMA UnpinPartialStep ==
  ASSUME IInv, NEW c \in Callers, UnpinPartial(c)
  PROVE  IInv'
<1>1. /\ TypeOK /\ NothingLeaked /\ pc[c] = "unpin" /\ CallOK(c) /\ mm[c] \in Mms
      /\ moved[c] = {} /\ base[c] = 0 /\ req[c].op \in Transfer
      /\ req[c].size \in 1..MaxTransfer /\ req[c].addr + req[c].size < Width
  BY OfCaller
  DEF UnpinPartial, Referring, Holding, CallOK, ResultOK, SearchOK, RequestOK, Unmoved
<1>2. /\ UNCHANGED <<current, layout, waiting, users, readers, req, mm, cursor, page, done, moved, base>>
      /\ UnpinPages(c, Pinned(c))
      /\ pc' = [pc EXCEPT ![c] = "unlock"] /\ ret' = [ret EXCEPT ![c] = "EFAULT"]
  BY <1>1 DEF UnpinPartial, Pinned, target, locals, Goto, Outcome
<1>4. pc'[c] = "unlock" /\ ret'[c] = "EFAULT"
  BY <1>1, <1>2 DEF TypeOK
<1>5. pins' \in [Mms -> [Pages -> Nat]] /\ PinBalance(c)
  BY <1>1, <1>2, <1>4, PinsGiven DEF Pinning
<1>6. TypeOK'
  BY <1>1, <1>2, <1>5 DEF TypeOK, CallerStates, Results
<1>8. Others(c)
  BY <1>1, <1>2 DEF Others, TypeOK
<1>9. NothingLeaked'
  <2>1. UsersBalance(c) /\ LockBalance(c)
    BY <1>1, <1>2, <1>4, UsersUnmoved, LockUnmoved DEF Holding
  <2> QED BY <1>1, <1>5, <1>6, <1>8, <2>1, BooksBalance, <1>2 DEF Others, OthersKept
<1>10. CallOK(c)'
  <2>1. RequestOK("unlock", req[c]) /\ LoopOK("unlock", req[c], page[c], done[c], moved[c])
    BY <1>1 DEF CallOK, RequestOK, LoopOK, Referring, Holding
  <2>2. ResultOK("unlock", req[c], moved[c], "EFAULT")
    BY <1>1 DEF ResultOK, Unmoved, Ending
  <2>3. WalkOK("unlock", req[c], cursor[c], "EFAULT", layout[mm[c]])
    BY <1>1 DEF CallOK, WalkOK
  <2>4. SearchOK("unlock", req[c], cursor[c], base[c], "EFAULT", layout[mm[c]])
    BY <1>1 DEF SearchOK, Transfer, Unmoved
  <2> QED BY <1>2, <1>4, <2>1, <2>2, <2>3, <2>4 DEF CallOK
<1> QED BY <1>1, <1>2, <1>4, <1>6, <1>8, <1>9, <1>10, StepOfOne, OfCaller
        DEF Referring, Holding

LEMMA SearchStep ==
  ASSUME IInv, NEW c \in Callers, Search(c)
  PROVE  IInv'
<1> DEFINE l == layout[mm[c]]
           starts == {p \in Pages : Named(l[p])}
<1>1. /\ TypeOK /\ NothingLeaked /\ pc[c] = "search" /\ CallOK(c) /\ mm[c] \in Mms
      /\ l \in [Pages -> Kinds] /\ ret[c] = "ok" /\ moved[c] = {} /\ base[c] = 0
      /\ req[c].op = "base" /\ cursor[c] \in Nat
  BY OfCaller, SizesAssumption
  DEF Search, Referring, Holding, CallOK, ResultOK, SearchOK, RequestOK, Unmoved
<1>2. PICK k \in 0..NumPages : cursor[c] = k * PageSize /\ \A p \in Pages : p < k => ~Named(l[p])
  BY <1>1 DEF CallOK, SearchOK
<1>3. k \in Nat /\ cursor[c] \div PageSize = k /\ Pages \subseteq Nat
  <2>1. PageSize \in Nat \ {0} /\ NumPages \in Nat /\ k \in Nat /\ 0 \in 0..(PageSize - 1)
    BY <1>2, SizesAssumption
  <2>2. cursor[c] = k * PageSize + 0
    BY <1>1, <1>2
  <2> QED BY <1>1, <2>1, <2>2, Quotient DEF Pages
<1>4. UNCHANGED <<current, layout, waiting, users, readers, pins, req, mm, page, done, moved>>
  BY DEF Search, target
<1> DEFINE To(s, r, at, b) ==
             /\ pc' = [pc EXCEPT ![c] = s] /\ ret' = [ret EXCEPT ![c] = r]
             /\ cursor' = [cursor EXCEPT ![c] = at] /\ base' = [base EXCEPT ![c] = b]
             /\ s = "search" => r = "ok"
             /\ SearchOK(s, req[c], at, b, r, l)
<1>5. PICK s \in {"search", "unlock"}, r \in {"ok", "ENAMETOOLONG"},
           at \in 0..(Width - 1), b \in 0..(TaskSize - 1) : To(s, r, at, b)
  <2>1. /\ cursor[c] \in 0..(Width - 1) /\ cursor = [cursor EXCEPT ![c] = cursor[c]]
        /\ 0 \in 0..(TaskSize - 1) /\ base = [base EXCEPT ![c] = 0]
        /\ ret = [ret EXCEPT ![c] = "ok"] /\ pc = [pc EXCEPT ![c] = "search"]
    BY <1>1 DEF TypeOK
  <2>2. ASSUME FindVma(l, cursor[c]) = {}, Refuse(c, "ok"), UNCHANGED base
        PROVE  To("unlock", "ok", cursor[c], 0)
    <3>1. ASSUME NEW p \in Pages PROVE ~Named(l[p])
      <4>1. CASE p < k
        BY <1>2, <4>1
      <4>2. CASE k <= p
        BY <1>1, <1>3, <2>2, <4>2, NoneFound DEF Named
      <4> QED BY <1>3, <4>1, <4>2
    <3>2. SearchOK("unlock", req[c], cursor[c], 0, "ok", l)
      BY <3>1 DEF SearchOK, Unmoved
    <3> QED BY <2>1, <2>2, <3>2 DEF Refuse, Goto, Outcome
  <2>3. ASSUME Refuse(c, "ENAMETOOLONG"), UNCHANGED base
        PROVE  To("unlock", "ENAMETOOLONG", cursor[c], 0)
    <3>1. SearchOK("unlock", req[c], cursor[c], 0, "ENAMETOOLONG", l)
      BY DEF SearchOK, Unmoved
    <3> QED BY <2>1, <2>3, <3>1 DEF Refuse, Goto, Outcome
  <2>4. ASSUME NEW v \in FindVma(l, cursor[c])
        PROVE  /\ v \in Vmas(l) /\ v.first \in Pages /\ v.last \in Pages /\ v.first <= v.last
               /\ v.first \in Nat /\ v.last \in Nat /\ k <= v.last /\ l[v.first] = v.kind
               /\ \A p \in Pages : p < v.first => ~Named(l[p])
    <3>1. v \in Vmas(l) /\ k <= v.last /\ \A p \in Pages : k <= p /\ p < v.first => l[p] = "hole"
      BY <1>1, <1>3, <2>4, FoundVma
    <3>2. /\ v.first \in Pages /\ v.last \in Pages /\ v.first <= v.last
          /\ \A p \in v.first..v.last : l[p] = v.kind
      BY <3>1, VmaShape
    <3>3. ASSUME NEW p \in Pages, p < v.first PROVE ~Named(l[p])
      <4>1. CASE p < k
        BY <1>2, <4>1
      <4>2. CASE k <= p
        BY <3>1, <3>3, <4>2 DEF Named
      <4> QED BY <1>3, <4>1, <4>2
    <3>4. v.first \in Nat /\ v.last \in Nat /\ v.first \in v.first..v.last
      BY <3>2 DEF Pages
    <3> QED BY <3>1, <3>2, <3>3, <3>4
  <2>5. ASSUME NEW v \in FindVma(l, cursor[c]), Named(v.kind), base' = [base EXCEPT ![c] = Start(v)],
               Refuse(c, "ok")
        PROVE  Start(v) \in 0..(TaskSize - 1) /\ To("unlock", "ok", cursor[c], Start(v))
    <3>1. Start(v) \in 0..(TaskSize - 1)
      BY <2>4, <2>5, VmaShape, SizesAssumption, Multiples DEF TaskSize
    <3>2. v.first \in starts /\ \A o \in starts : v.first <= o
      <4>1. ASSUME NEW o \in starts PROVE v.first <= o
        <5>1. o \in Nat /\ v.first \in Nat /\ ~(o < v.first)
          BY <1>3, <2>4, <2>5
        <5> QED BY <5>1
      <4> QED BY <2>4, <2>5, <4>1
    <3>3. SearchOK("unlock", req[c], cursor[c], Start(v), "ok", l)
      BY <3>2 DEF SearchOK, Unmoved, Start
    <3> QED BY <2>1, <2>5, <3>1, <3>3 DEF Refuse, Goto, Outcome
  <2>6. ASSUME NEW v \in FindVma(l, cursor[c]), ~Named(v.kind),
               cursor' = [cursor EXCEPT ![c] = Limit(v)], UNCHANGED <<pc, ret, base>>
        PROVE  Limit(v) \in 0..(Width - 1) /\ To("search", "ok", Limit(v), 0)
    <3>1. Limit(v) \in 0..(Width - 1)
      BY <2>4, <2>6, VmaShape, SizesAssumption, Multiples DEF TaskSize
    <3>2. v.last + 1 \in 0..NumPages /\ Limit(v) = (v.last + 1) * PageSize
      BY <2>4, <2>6, SizesAssumption DEF Pages, Limit
    <3>3. ASSUME NEW p \in Pages, p < v.last + 1 PROVE ~Named(l[p])
      <4> p \in Nat /\ v.first \in Nat /\ v.last \in Nat
        BY <1>3, <2>4, <2>6
      <4>1. CASE p < v.first
        BY <2>4, <2>6, <4>1
      <4>2. CASE v.first <= p
        <5>1. p \in v.first..v.last
          BY <3>3, <4>2
        <5> QED BY <2>4, <2>6, <5>1, VmaShape
      <4> QED BY <4>1, <4>2
    <3>4. SearchOK("search", req[c], Limit(v), 0, "ok", l)
      BY <3>2, <3>3 DEF SearchOK, Unmoved
    <3> QED BY <2>1, <2>6, <3>1, <3>4
  <2> HIDE DEF To
  <2> QED BY <2>1, <2>2, <2>3, <2>5, <2>6 DEF Search
<1>6. TypeOK'
  BY <1>1, <1>4, <1>5 DEF TypeOK, CallerStates, Results
<1>7. pc'[c] = s /\ ret'[c] = r /\ cursor'[c] = at /\ base'[c] = b
  BY <1>1, <1>5 DEF TypeOK
<1>8. Others(c)
  BY <1>1, <1>4, <1>5 DEF Others, TypeOK
<1>9. NothingLeaked'
  BY <1>1, <1>4, <1>5, <1>6, <1>7, <1>8, BooksKept DEF Others, OthersKept, Holding, Pinning
<1>10. CallOK(c)'
  <2>1. RequestOK(s, req[c])
    BY <1>1, <1>5 DEF CallOK, RequestOK, Referring, Holding, Transfer
  <2>2. ResultOK(s, req[c], moved[c], r) /\ LoopOK(s, req[c], page[c], done[c], moved[c])
    BY <1>1, <1>5 DEF ResultOK, LoopOK, Unmoved, Ending, Transfer
  <2>3. WalkOK(s, req[c], at, r, l)
    BY <1>1, <1>5 DEF WalkOK, Transfer
  <2> QED BY <1>4, <1>5, <1>7, <2>1, <2>2, <2>3 DEF CallOK
<1> QED BY <1>1, <1>4, <1>5, <1>6, <1>7, <1>8, <1>9, <1>10, StepOfOne, OfCaller
        DEF Referring, Holding

LEMMA UnlockStep ==
  ASSUME IInv, NEW c \in Callers, Unlock(c)
  PROVE  IInv'
<1>1. /\ TypeOK /\ NothingLeaked /\ pc[c] = "unlock" /\ CallOK(c) /\ mm[c] \in Mms
  BY OfCaller DEF Unlock, Referring, Holding
<1>2. /\ UNCHANGED <<current, layout, waiting, users, pins, req, mm, cursor, page, done, moved, base, ret>>
      /\ readers' = [readers EXCEPT ![mm[c]] = @ \ {c}]
      /\ pc' = [pc EXCEPT ![c] = "put"]
  BY DEF Unlock, Goto, target, locals
<1>3. TypeOK'
  BY <1>1, <1>2 DEF TypeOK, CallerStates
<1>4. pc'[c] = "put"
  BY <1>1, <1>2 DEF TypeOK
<1>5. Others(c)
  BY <1>1, <1>2 DEF Others, TypeOK
<1>6. NothingLeaked'
  <2>1. LockBalance(c)
    <3> SUFFICES ASSUME NEW m \in Mms
                 PROVE  readers'[m] = readers[m] \ {c}
      BY <1>4 DEF LockBalance, Holding
    <3>1. readers[m] = Lockers(m)
      BY <1>1, Books
    <3>2. mm[c] # m => c \notin readers[m]
      BY <3>1 DEF Lockers
    <3>3. readers'[m] = IF mm[c] = m THEN readers[m] \ {c} ELSE readers[m]
      BY <1>1, <1>2 DEF TypeOK
    <3> QED BY <3>2, <3>3
  <2>2. UsersBalance(c) /\ PinBalance(c)
    BY <1>1, <1>2, <1>4, UsersUnmoved, PinsUnmoved DEF Pinning
  <2> QED BY <1>1, <1>3, <1>5, <2>1, <2>2, BooksBalance DEF Others, OthersKept
<1>7. CallOK(c)'
  <2>1. RequestOK("put", req[c]) /\ LoopOK("put", req[c], page[c], done[c], moved[c])
    BY <1>1 DEF CallOK, RequestOK, LoopOK, Referring, Holding
  <2>2. ResultOK("put", req[c], moved[c], ret[c])
    BY <1>1 DEF CallOK, ResultOK, Unmoved, Ending
  <2>3. /\ WalkOK("put", req[c], cursor[c], ret[c], layout[mm[c]])
        /\ SearchOK("put", req[c], cursor[c], base[c], ret[c], layout[mm[c]])
    BY DEF WalkOK, SearchOK, Unmoved
  <2> QED BY <1>2, <1>4, <2>1, <2>2, <2>3 DEF CallOK
<1> QED BY <1>1, <1>2, <1>3, <1>4, <1>5, <1>6, <1>7, StepOfOne, OfCaller
        DEF Referring, Holding

LEMMA PutStep ==
  ASSUME IInv, NEW c \in Callers, Put(c)
  PROVE  IInv'
<1>1. /\ TypeOK /\ NothingLeaked /\ pc[c] = "put" /\ CallOK(c) /\ mm[c] \in Mms
      /\ req[c].op \in Transfer \cup {"base"}
  BY OfCaller DEF Put, Referring, Holding, CallOK, RequestOK
<1>2. /\ UNCHANGED <<current, waiting, readers, pins, req, cursor, page, done, moved, base, ret>>
      /\ users' = [users EXCEPT ![mm[c]] = @ - 1] /\ layout' = TornDown(layout)
      /\ mm' = [mm EXCEPT ![c] = 0]
  BY DEF Put, Drop, locals
<1>3. PICK s \in {"reply", "done"} : pc' = [pc EXCEPT ![c] = s] /\ (s = "reply" => req[c].op # "write")
  BY DEF Put, Goto
<1>4. /\ \A m \in Mms : users[m] \in Nat /\ users'[m] = users[m] - Same(mm[c], m) /\ users'[m] \in Nat
      /\ users' \in [Mms -> Nat]
  <2>1. users \in [Mms -> Nat] /\ users[mm[c]] >= 1
    <3>1. users \in [Mms -> Nat] /\ users[mm[c]] >= Same(mm[c], mm[c]) + Same(current, mm[c])
      BY <1>1, Counted DEF TypeOK
    <3> QED BY <1>1, <3>1 DEF Same
  <2> QED BY <1>1, <1>2, <2>1 DEF Same
<1>5. TypeOK'
  <2>1. layout' \in [Mms -> [Pages -> Kinds]]
    BY <1>1, <1>2 DEF TypeOK, TornDown, Hole, Kinds
  <2> QED BY <1>1, <1>2, <1>3, <1>4, <2>1 DEF TypeOK, CallerStates
<1>6. pc'[c] = s /\ mm'[c] = 0
  BY <1>1, <1>2, <1>3 DEF TypeOK
<1>7. Others(c)
  <2>1. ASSUME NEW d \in Callers \ {c}, pc[d] \in Holding PROVE layout'[mm[d]] = layout[mm[d]]
    <3>1. mm[d] \in Mms
      BY <2>1, OfCaller DEF Referring
    <3>2. users[mm[d]] >= Same(mm[c], mm[d]) + Same(mm[d], mm[d]) + Same(current, mm[d])
      BY <1>1, <3>1, Counted
    <3>3. users'[mm[d]] # 0
      BY <1>4, <3>1, <3>2 DEF Same
    <3> QED BY <1>2, <3>1, <3>3 DEF TornDown
  <2>2. ASSUME NEW d \in Callers \ {c} PROVE pc'[d] = pc[d] /\ mm'[d] = mm[d]
    BY <1>1, <1>2, <1>3 DEF TypeOK
  <2> QED BY <1>2, <2>1, <2>2 DEF Others
<1>8. NothingLeaked'
  <2>1. UsersBalance(c)
    <3> SUFFICES ASSUME NEW m \in Mms
                 PROVE  users'[m] + Same(mm[c], m) + Same(current, m)
                          = users[m] + Same(mm'[c], m) + Same(current', m)
      BY DEF UsersBalance
    <3>1. Same(mm'[c], m) = 0
      BY <1>6 DEF Same, Mms
    <3> QED BY <1>2, <1>4, <3>1 DEF Same
  <2>2. LockBalance(c) /\ PinBalance(c)
    <3>1. \A m \in Mms : mm'[c] # m
      BY <1>6 DEF Mms
    <3> QED BY <1>1, <1>2, <1>3, <1>6, <3>1, LockUnmoved, PinsUnmoved DEF Holding, Pinning
  <2> QED BY <1>1, <1>5, <1>7, <2>1, <2>2, BooksBalance DEF Others, OthersKept
<1>9. CallOK(c)'
  <2>1. RequestOK(s, req[c]) /\ LoopOK(s, req[c], page[c], done[c], moved[c])
    BY <1>1, <1>3 DEF CallOK, RequestOK, LoopOK, Referring, Holding
  <2>2. ResultOK(s, req[c], moved[c], ret[c])
    BY <1>1, <1>3 DEF CallOK, ResultOK, Unmoved, Ending
  <2>3. /\ WalkOK(s, req[c], cursor[c], ret[c], layout'[mm'[c]])
        /\ SearchOK(s, req[c], cursor[c], base[c], ret[c], layout'[mm'[c]])
    BY <1>3 DEF WalkOK, SearchOK, Unmoved
  <2> QED BY <1>2, <1>6, <2>1, <2>2, <2>3 DEF CallOK
<1>10. current # 0 => 0 <= current
  BY <1>1 DEF TypeOK, Mms
<1> QED BY <1>1, <1>2, <1>3, <1>5, <1>6, <1>7, <1>8, <1>9, <1>10, StepOfOne
        DEF Referring, Holding

LEMMA ReplyStep ==
  ASSUME IInv, NEW c \in Callers, Reply(c)
  PROVE  IInv'
<1>1. /\ TypeOK /\ NothingLeaked /\ pc[c] = "reply" /\ CallOK(c) /\ req[c].op # "write"
  BY OfCaller DEF Reply, CallOK, RequestOK
<1>2. /\ UNCHANGED <<current, layout, waiting, users, readers, pins, req, mm, cursor, page, done, moved,
                     base>>
      /\ pc' = [pc EXCEPT ![c] = "done"]
  BY DEF Reply, Goto, target, locals
<1>3. PICK r \in Results : ret' = [ret EXCEPT ![c] = r] /\ (r = ret[c] \/ r = "EFAULT")
  <2>1. ret = [ret EXCEPT ![c] = ret[c]] /\ ret[c] \in Results
    BY <1>1 DEF TypeOK
  <2> QED BY <2>1 DEF Reply, Outcome, Results
<1>4. TypeOK'
  BY <1>1, <1>2, <1>3 DEF TypeOK, CallerStates
<1>5. pc'[c] = "done" /\ ret'[c] = r
  BY <1>1, <1>2, <1>3 DEF TypeOK
<1>6. Others(c)
  BY <1>1, <1>2, <1>3 DEF Others, TypeOK
<1>7. NothingLeaked'
  BY <1>1, <1>2, <1>4, <1>5, <1>6, BooksKept DEF Others, OthersKept, Holding, Pinning
<1>8. CallOK(c)'
  <2>1. RequestOK("done", req[c]) /\ LoopOK("done", req[c], page[c], done[c], moved[c])
    BY <1>1 DEF CallOK, RequestOK, LoopOK, Referring, Holding
  <2>2. ResultOK("done", req[c], moved[c], r)
    BY <1>1, <1>3 DEF CallOK, ResultOK, Unmoved, Ending
  <2>3. /\ WalkOK("done", req[c], cursor[c], r, layout[mm[c]])
        /\ SearchOK("done", req[c], cursor[c], base[c], r, layout[mm[c]])
    BY DEF WalkOK, SearchOK, Unmoved
  <2> QED BY <1>2, <1>5, <2>1, <2>2, <2>3 DEF CallOK
<1> QED BY <1>1, <1>2, <1>4, <1>5, <1>6, <1>7, <1>8, StepOfOne, OfCaller DEF Referring, Holding

LEMMA ReturnStep ==
  ASSUME IInv, NEW c \in Callers, Return(c)
  PROVE  IInv'
<1>1. TypeOK /\ NothingLeaked /\ pc[c] = "done"
  BY OfCaller DEF Return
<1>2. /\ UNCHANGED <<current, layout, waiting, users, readers, pins, mm>>
      /\ pc' = [pc EXCEPT ![c] = "idle"] /\ req' = [req EXCEPT ![c] = NoRequest]
      /\ ret' = [ret EXCEPT ![c] = "ok"] /\ cursor' = [cursor EXCEPT ![c] = 0]
      /\ page' = [page EXCEPT ![c] = 0] /\ done' = [done EXCEPT ![c] = 0]
      /\ moved' = [moved EXCEPT ![c] = {}] /\ base' = [base EXCEPT ![c] = 0]
  BY DEF Return, Goto, Outcome, target
<1>3. 0 \in 0..(Width - 1) /\ 0 \in 0..(TaskSize - 1)
  <2>1. TaskSize \in Nat \ {0}
    <3>1. 0 * PageSize = 0 /\ TaskSize \in Nat /\ 0 * PageSize < TaskSize
      BY SizesAssumption, Multiples DEF TaskSize
    <3> QED BY <3>1
  <2> QED BY <2>1, SizesAssumption
<1>4. TypeOK'
  BY <1>1, <1>2, <1>3 DEF TypeOK, CallerStates, Results, NoRequest
<1>5. /\ pc'[c] = "idle" /\ req'[c] = NoRequest /\ ret'[c] = "ok" /\ moved'[c] = {} /\ base'[c] = 0
  BY <1>1, <1>2 DEF TypeOK
<1>6. Others(c)
  BY <1>1, <1>2 DEF Others, TypeOK
<1>7. NothingLeaked'
  BY <1>1, <1>2, <1>4, <1>5, <1>6, BooksKept DEF Others, OthersKept, Holding, Pinning
<1>8. CallOK(c)'
  BY <1>2, <1>5
  DEF CallOK, RequestOK, ResultOK, LoopOK, WalkOK, SearchOK, Referring, Holding, Unmoved, Ending,
      Transfer, NoRequest
<1> QED BY <1>1, <1>2, <1>4, <1>5, <1>6, <1>7, <1>8, StepOfOne, OfCaller DEF Referring, Holding

-----------------------------------------------------------------------------
(* The steps of the target *)

LEMMA StepOfTarget ==
  ASSUME IInv, TypeOK', UNCHANGED <<readers, pins, pc, req, mm, locals, ret>>,
         \A c \in Callers : pc[c] \in Holding => layout'[mm[c]] = layout[mm[c]],
         \A m \in Mms : users'[m] + Same(current, m) = users[m] + Same(current', m),
         \A c \in Callers : current' # 0 => mm[c] <= current'
  PROVE  IInv'
<1>1. TypeOK /\ NothingLeaked /\ UNCHANGED <<cursor, page, done, moved, base>>
  BY DEF IInv, locals
<1>2. ASSUME NEW m \in Mms
      PROVE  /\ users'[m] = Cardinality(Users(m)') + Same(current', m)
             /\ readers'[m] = Lockers(m)'
             /\ \A p \in Pages : pins'[m][p] = Cardinality(Pinners(m, p)')
  <2>1. Users(m)' = Users(m) /\ Lockers(m)' = Lockers(m)
    BY DEF Users, Lockers
  <2>2. \A p \in Pages : Pinners(m, p)' = Pinners(m, p)
    BY <1>1, SamePinned DEF Pinners
  <2>3. Cardinality(Users(m)) \in Nat
    BY RequestsAssumption, FS_Subset, FS_CardinalityType DEF Users
  <2>4. users[m] \in Nat /\ users'[m] \in Nat /\ users[m] = Cardinality(Users(m)) + Same(current, m)
    BY <1>1, Books DEF TypeOK
  <2>5. users'[m] = Cardinality(Users(m)) + Same(current', m)
    BY <2>3, <2>4 DEF Same
  <2> QED BY <1>1, <2>1, <2>2, <2>5, Books
<1>3. NothingLeaked'
  BY <1>2 DEF NothingLeaked, Users, Lockers, Pinners, Same, Holding
<1>4. \A c \in Callers : CallOK(c)'
  BY <1>1, CallKept DEF IInv
<1>5. MmsOK'
  BY DEF MmsOK, IInv
<1> QED BY <1>3, <1>4, <1>5 DEF IInv

LEMMA MapWaitStep ==
  ASSUME IInv, MapWait
  PROVE  IInv'
<1>1. TypeOK /\ UNCHANGED <<current, layout, users>>
  BY DEF IInv, MapWait
<1>2. TypeOK'
  BY <1>1 DEF TypeOK, MapWait, locals
<1> QED BY <1>1, <1>2, StepOfTarget DEF MapWait, IInv, MmsOK

LEMMA MapStep ==
  ASSUME IInv, Map
  PROVE  IInv'
<1>1. TypeOK /\ NothingLeaked /\ UNCHANGED <<current, users>> /\ current \in Mms
  BY DEF IInv, Map, TypeOK
<1>2. PICK l \in Layouts : layout' = [layout EXCEPT ![current] = l]
  BY DEF Map
<1>3. TypeOK'
  BY <1>1, <1>2, RequestsAssumption DEF TypeOK, Map, locals
<1>4. ASSUME NEW c \in Callers, pc[c] \in Holding PROVE layout'[mm[c]] = layout[mm[c]]
  <2>1. mm[c] \in Mms
    BY <1>4, OfCaller DEF Referring
  <2>2. c \in readers[mm[c]]
    BY <1>1, <1>4, <2>1, Books DEF Lockers
  <2>3. mm[c] # current
    BY <2>2 DEF Map
  <2> QED BY <1>1, <1>2, <2>1, <2>3 DEF TypeOK
<1> QED BY <1>1, <1>3, <1>4, StepOfTarget DEF Map, IInv, MmsOK

LEMMA ExecStep ==
  ASSUME IInv, Exec
  PROVE  IInv'
<1> DEFINE new == current + 1
<1>1. /\ TypeOK /\ NothingLeaked /\ current \in Mms /\ new \in Mms /\ new # current
      /\ \A c \in Callers : mm[c] \in {0} \cup Mms /\ mm[c] <= current
  <2>1. TypeOK /\ NothingLeaked /\ MmsOK /\ current # 0 /\ current < MaxMms
    BY DEF IInv, Exec, Alone
  <2>2. current \in {0} \cup Mms /\ \A c \in Callers : mm[c] \in {0} \cup Mms
    BY <2>1 DEF TypeOK
  <2> QED BY <2>1, <2>2, SizesAssumption DEF MmsOK, Mms
<1>2. /\ current' = new /\ UNCHANGED <<waiting, readers, pins, pc, req, mm, locals, ret>>
      /\ users' = [users EXCEPT ![current] = @ - 1, ![new] = 1]
  BY DEF Exec
<1>3. PICK l \in Layouts : layout' = TornDown([layout EXCEPT ![new] = l])
  BY <1>2 DEF Exec
<1>4. \A c \in Callers : mm[c] # new /\ mm[c] <= new
  BY <1>1, SizesAssumption DEF Mms
<1>5. users[new] = 0
  <2>1. Users(new) = {}
    BY <1>4 DEF Users
  <2>2. Cardinality(Users(new)) = 0 /\ Same(current, new) = 0
    BY <1>1, <2>1, FS_EmptySet DEF Same
  <2> HIDE DEF new
  <2>3. users[new] = Cardinality(Users(new)) + Same(current, new)
    BY <1>1, Books
  <2> QED BY <2>2, <2>3
<1>6. users \in [Mms -> Nat] /\ users[current] >= 1
  <2>1. users[current] = Cardinality(Users(current)) + Same(current, current) /\ users[current] \in Nat
    BY <1>1, Books DEF TypeOK
  <2>2. Cardinality(Users(current)) \in Nat
    BY RequestsAssumption, FS_Subset, FS_CardinalityType DEF Users
  <2> QED BY <1>1, <2>1, <2>2 DEF Same, TypeOK
<1>7. ASSUME NEW m \in Mms
      PROVE  users'[m] = IF m = current THEN users[m] - 1 ELSE IF m = new THEN 1 ELSE users[m]
  BY <1>1, <1>2, <1>6
<1>8. TypeOK'
  <2>1. users' \in [Mms -> Nat]
    BY <1>1, <1>2, <1>6
  <2>2. layout' \in [Mms -> [Pages -> Kinds]]
    BY <1>1, <1>3, RequestsAssumption DEF TypeOK, TornDown, Hole, Kinds
  <2> QED BY <1>1, <1>2, <2>1, <2>2 DEF TypeOK, locals
<1>9. ASSUME NEW c \in Callers, pc[c] \in Holding PROVE layout'[mm[c]] = layout[mm[c]]
  <2>1. mm[c] \in Mms /\ mm[c] # new
    BY <1>4, <1>9, OfCaller DEF Referring
  <2>2. users[mm[c]] \in Nat /\ users[mm[c]] >= Same(mm[c], mm[c]) + Same(current, mm[c])
    BY <1>1, <2>1, Counted
  <2>3. users'[mm[c]] # 0
    BY <1>7, <2>1, <2>2 DEF Same
  <2> QED BY <1>1, <1>3, <2>1, <2>3 DEF TypeOK, TornDown
<1>10. ASSUME NEW m \in Mms PROVE users'[m] + Same(current, m) = users[m] + Same(current', m)
  <2>1. users[m] \in Nat /\ Same(current', m) = (IF m = new THEN 1 ELSE 0)
    BY <1>2, <1>6 DEF Same
  <2>2. CASE m = current
    BY <1>1, <1>7, <2>1, <2>2 DEF Same
  <2>3. CASE m = new
    BY <1>1, <1>5, <1>7, <2>1, <2>3 DEF Same
  <2>4. CASE m # current /\ m # new
    BY <1>1, <1>7, <2>1, <2>4 DEF Same
  <2> QED BY <2>2, <2>3, <2>4
<1> QED BY <1>2, <1>4, <1>8, <1>9, <1>10, StepOfTarget

LEMMA ExitStep ==
  ASSUME IInv, Exit
  PROVE  IInv'
<1>1. TypeOK /\ NothingLeaked /\ current \in Mms
  BY DEF IInv, Exit, Alone, TypeOK
<1>2. /\ current' = 0 /\ UNCHANGED <<waiting, readers, pins, pc, req, mm, locals, ret>>
      /\ users' = [users EXCEPT ![current] = @ - 1] /\ layout' = TornDown(layout)
  BY DEF Exit, Drop
<1>3. users \in [Mms -> Nat] /\ users[current] >= 1
  <2>1. users[current] = Cardinality(Users(current)) + Same(current, current) /\ users[current] \in Nat
    BY <1>1, Books DEF TypeOK
  <2>2. Cardinality(Users(current)) \in Nat
    BY RequestsAssumption, FS_Subset, FS_CardinalityType DEF Users
  <2> QED BY <1>1, <2>1, <2>2 DEF Same, TypeOK
<1>4. ASSUME NEW m \in Mms PROVE users'[m] = users[m] - Same(current, m)
  <2>1. users[m] \in Nat
    BY <1>3
  <2> QED BY <1>1, <1>2, <1>3, <2>1 DEF Same
<1>5. TypeOK'
  <2>1. users' \in [Mms -> Nat]
    BY <1>1, <1>2, <1>3
  <2>2. layout' \in [Mms -> [Pages -> Kinds]]
    BY <1>1, <1>2 DEF TypeOK, TornDown, Hole, Kinds
  <2> QED BY <1>1, <1>2, <2>1, <2>2 DEF TypeOK, locals
<1>6. ASSUME NEW c \in Callers, pc[c] \in Holding PROVE layout'[mm[c]] = layout[mm[c]]
  <2>1. mm[c] \in Mms
    BY <1>6, OfCaller DEF Referring
  <2>2. users[mm[c]] \in Nat /\ users[mm[c]] >= Same(mm[c], mm[c]) + Same(current, mm[c])
    BY <1>1, <2>1, Counted
  <2>3. users'[mm[c]] # 0
    BY <1>4, <2>1, <2>2 DEF Same
  <2> QED BY <1>1, <1>2, <2>1, <2>3 DEF TypeOK, TornDown
<1>7. ASSUME NEW m \in Mms PROVE users'[m] + Same(current, m) = users[m] + Same(current', m)
  <2>1. users[m] \in Nat /\ 0 # m
    BY <1>3 DEF Mms
  <2> QED BY <1>2, <1>4, <2>1 DEF Same
<1> QED BY <1>2, <1>5, <1>6, <1>7, StepOfTarget

-----------------------------------------------------------------------------
(* The invariant *)

LEMMA InitIInv == Init => IInv
<1> SUFFICES ASSUME Init PROVE IInv
  OBVIOUS
<1>1. 0 \in 0..(Width - 1) /\ 0 \in 0..(TaskSize - 1) /\ 1 \in Mms /\ 0 \notin Mms
  <2>1. 0 * PageSize = 0 /\ TaskSize \in Nat /\ 0 * PageSize < TaskSize
    BY SizesAssumption, Multiples DEF TaskSize
  <2> QED BY <2>1, SizesAssumption DEF Mms
<1>2. TypeOK
  <2>1. layout \in [Mms -> [Pages -> Kinds]]
    BY RequestsAssumption DEF Init, Hole, Kinds
  <2> QED BY <1>1, <2>1 DEF Init, TypeOK, CallerStates, Results, NoRequest
<1>3. NothingLeaked
  <2> SUFFICES ASSUME NEW m \in Mms
               PROVE  /\ users[m] = Cardinality(Users(m)) + Same(current, m)
                      /\ readers[m] = Lockers(m)
                      /\ \A p \in Pages : pins[m][p] = Cardinality(Pinners(m, p))
    BY Books
  <2>1. \A c \in Callers : mm[c] # m
    BY <1>1 DEF Init
  <2>2. Users(m) = {} /\ Lockers(m) = {} /\ \A p \in Pages : Pinners(m, p) = {}
    BY <2>1 DEF Users, Lockers, Pinners
  <2>3. Cardinality({}) = 0
    BY FS_EmptySet
  <2> QED BY <2>2, <2>3 DEF Init, Same
<1>4. MmsOK
  BY DEF Init, MmsOK, Referring, Holding
<1>5. ASSUME NEW c \in Callers PROVE CallOK(c)
  BY DEF Init, CallOK, RequestOK, ResultOK, LoopOK, WalkOK, SearchOK, Referring, Holding, Unmoved,
         Ending, Transfer, NoRequest
<1> QED BY <1>2, <1>3, <1>4, <1>5 DEF IInv

LEMMA NextIInv == IInv /\ [Next]_vars => IInv'
<1> SUFFICES ASSUME IInv, [Next]_vars PROVE IInv'
  OBVIOUS
<1>1. CASE Target
  BY <1>1, MapWaitStep, MapStep, ExecStep, ExitStep DEF Target
<1>2. ASSUME NEW c \in Callers, Call(c) \/ Step(c) PROVE IInv'
  BY <1>2, CallStep, ValidateStep, AccessStep, LockStep, CheckStep, PinStep, UnpinPartialStep,
     CopyPageStep, UnpinStep, SearchStep, UnlockStep, PutStep, ReplyStep, ReturnStep DEF Step
<1>3. CASE UNCHANGED vars
  <2>1. /\ UNCHANGED <<current, layout, waiting, users, readers, pins, pc, req, mm, cursor>>
        /\ UNCHANGED <<page, done, moved, base, ret>>
    BY <1>3 DEF vars, target, locals
  <2>2. TypeOK' /\ MmsOK'
    BY <2>1 DEF IInv, TypeOK, MmsOK
  <2>3. NothingLeaked'
    <3>1. NothingLeaked /\ \A c \in Callers : Pinned(c)' = Pinned(c)
      BY <2>1, SamePinned DEF IInv
    <3> QED BY <2>1, <3>1 DEF NothingLeaked
  <2>4. \A c \in Callers : CallOK(c)'
    BY <2>1, CallKept DEF IInv
  <2> QED BY <2>2, <2>3, <2>4 DEF IInv
<1> QED BY <1>1, <1>2, <1>3 DEF Next

THEOREM Invariant == Spec => []IInv
  BY InitIInv, NextIInv, PTL DEF Spec

-----------------------------------------------------------------------------
(* The properties *)

\* Every field of the callers, the mms and the target keeps its range: no reference or pin count
\* goes below zero, and no byte is moved outside the buffer or the task.
THEOREM TypeCorrect == Spec => []TypeOK
<1>1. IInv => TypeOK
  BY DEF IInv
<1> QED BY <1>1, Invariant, PTL

\* rt_main.c keeps mmap_lock from rt_check_vmas to the end of the copy: what is about to be pinned or
\* is pinned is still mapped as it was when checked.
THEOREM CopiesOnlyPermitted == Spec => []OnlyPermitted
<1>1. IInv => OnlyPermitted
  <2> SUFFICES ASSUME IInv, NEW c \in Callers, pc[c] \in {"pin", "unpin", "copy"}, NEW a \in Bytes(c)
               PROVE  Permitted(mm[c], a, req[c].op)
    BY DEF OnlyPermitted
  <2>1. Permits(layout[mm[c]], a, req[c].op)
    BY DEF IInv, CallOK, WalkOK, Bytes
  <2> QED BY <2>1 DEF Permits, Permitted, KindIn, KindAt
<1> QED BY <1>1, Invariant, PTL

\* Of a transfer whose range lies in the task, rt_check_vmas refuses one for the lowest byte it may
\* not touch, with that byte's errno, and lets none pass; one without such a byte fails only with an
\* error of the pin, whatever errors pinning has (rt_main.c:69-88, 137-151).
THEOREM RefusesForAReason == Spec => []RefusedForAReason
<1>1. IInv => RefusedForAReason
  <2> SUFFICES ASSUME IInv, NEW c \in Callers, pc[c] = "unlock", Copying(c), End(c) <= TaskSize
               PROVE  LET bad == {a \in Bytes(c) : ~Permitted(mm[c], a, req[c].op)} IN
                      \/ bad = {} /\ ret[c] \in {"ok", "EFAULT"} \cup PinErrors
                      \/ \E a \in bad : (\A b \in bad : a <= b)
                                        /\ ret[c] = Verdict(mm[c], a, req[c].op)
    BY DEF RefusedForAReason
  <2>1. req[c].op \in Transfer /\ TypeOK /\ req[c].addr + req[c].size < Width /\ CallOK(c)
    BY DEF IInv, CallOK, RequestOK, Copying, Transfer, Referring, Holding
  <2>2. req[c].addr + req[c].size <= TaskSize
    BY <2>1, EndOf
  <2>3. \A a : Permits(layout[mm[c]], a, req[c].op) <=> Permitted(mm[c], a, req[c].op)
    BY DEF Permits, Permitted, KindIn, KindAt
  <2>4. \A a : Answer(layout[mm[c]], a, req[c].op) = Verdict(mm[c], a, req[c].op)
    BY DEF Answer, Verdict, KindIn, KindAt
  <2> QED BY <2>1, <2>2, <2>3, <2>4 DEF CallOK, WalkOK, Bytes
<1> QED BY <1>1, Invariant, PTL

\* The source of a write is staged and its pages are pinned before the first byte goes: a write that
\* returns an error has changed nothing in the target.
THEOREM FailedWritesTouchNothing == Spec => []FailedWriteTouchesNothing
<1>1. IInv => FailedWriteTouchesNothing
  BY DEF IInv, CallOK, ResultOK, Ending, FailedWriteTouchesNothing
<1> QED BY <1>1, Invariant, PTL

\* The copying loop of rt_copy_memory, page by page from an offset in the first, moves every byte of
\* the request to its place and nothing else.
THEOREM CompletesOnSuccess == Spec => []CompleteOnSuccess
<1>1. IInv => CompleteOnSuccess
  <2> SUFFICES ASSUME IInv, NEW c \in Callers, Copying(c), pc[c] = "done", ret[c] = "ok"
               PROVE  moved[c] = {<<k, req[c].addr + k>> : k \in 0..(req[c].size - 1)}
    BY DEF CompleteOnSuccess
  <2>1. moved[c] = Image(req[c].addr, req[c].size)
    BY DEF IInv, CallOK, ResultOK, Ending, Copying, Transfer
  <2> QED BY <2>1 DEF Image
<1> QED BY <1>1, Invariant, PTL

\* An unaligned transfer of at most RT_A17_MAX_TRANSFER bytes touches at most one page more than an
\* aligned one: the page array on the stack of rt_copy_memory is never overrun.
THEOREM PagesAlwaysFit == Spec => []PagesFit
<1>1. IInv => PagesFit
  <2> SUFFICES ASSUME IInv, NEW c \in Callers, pc[c] \in {"pin", "copy"}
               PROVE  Count(c) <= DivRoundUp(MaxTransfer, PageSize) + 1
    BY DEF PagesFit
  <2> DEFINE most == DivRoundUp(MaxTransfer, PageSize)
             bytes == Offset(c) + req[c].size
  <2>1. req[c].size \in 1..MaxTransfer /\ req[c].addr + req[c].size < Width /\ TypeOK
    BY DEF IInv, CallOK, RequestOK, Referring, Holding
  <2>2. /\ PageSize \in Nat \ {0} /\ MaxTransfer \in Nat /\ Offset(c) \in 0..(PageSize - 1)
        /\ bytes \in Nat /\ bytes < PageSize + MaxTransfer
    <3>1. req[c].addr \in Nat /\ req[c].size \in Nat /\ PageSize \in Nat \ {0} /\ MaxTransfer \in Nat
      BY <2>1, EndOf, SizesAssumption
    <3>2. Offset(c) \in 0..(PageSize - 1)
      BY <3>1, Division DEF Offset
    <3> QED BY <2>1, <3>1, <3>2
  <2>3. most \in Nat /\ MaxTransfer <= most * PageSize /\ most * PageSize \in Nat
    <3>1. most \in Nat /\ ~(most * PageSize < MaxTransfer)
      BY <2>2, RoundUp
    <3>2. most * PageSize \in Nat
      BY <2>2, <3>1, Multiples
    <3> HIDE DEF most
    <3> QED BY <2>2, <3>1, <3>2
  <2>4. Count(c) \in Nat /\ \A k \in Nat : k < Count(c) <=> k * PageSize < bytes
    BY <2>2, RoundUp DEF Count
  <2> HIDE DEF most, bytes
  <2>5. (most + 1) * PageSize = most * PageSize + PageSize
    BY <2>2, <2>3, Multiples
  <2>6. ~((most + 1) * PageSize < bytes)
    BY <2>2, <2>3, <2>5
  <2>7. ~(most + 1 < Count(c))
    BY <2>3, <2>4, <2>6
  <2> QED BY <2>3, <2>4, <2>7 DEF most
<1> QED BY <1>1, Invariant, PTL

\* rt_module_base walks the mappings in order under mmap_lock: its answer is the lowest mapping of the
\* file, and zero only when there is none.
THEOREM FindsTheLowestBase == Spec => []BaseIsLowest
<1>1. IInv => BaseIsLowest
  BY DEF IInv, CallOK, SearchOK, BaseIsLowest
<1> QED BY <1>1, Invariant, PTL

\* Every path out of the two ioctls, error or not, gives back exactly what the call took: mm_users,
\* mmap_lock and the pins of each page are those of the calls in progress and of the target.
THEOREM LeaksNothing == Spec => []NothingLeaked
<1>1. IInv => NothingLeaked
  BY DEF IInv
<1> QED BY <1>1, Invariant, PTL
=============================================================================
