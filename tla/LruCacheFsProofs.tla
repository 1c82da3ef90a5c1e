-------------------------- MODULE LruCacheFsProofs --------------------------
(***************************************************************************)
(* Proofs about the read cache of an artifact (modules/github_preview/     *)
(* lrucache.go): the byte count, the doubly linked list, and the           *)
(* refinement of ReadCache, for every set of files, every size of them,    *)
(* every read_cache_size and every number of goroutines.                   *)
(*                                                                         *)
(* The invariant says that the record is the cache of some list of files:  *)
(* Holds(lru, s).  A locked helper takes the cache of one list to the      *)
(* cache of another.  The count is a sum over a finite set, the list is    *)
(* read off the pointers by a recursive function, and the loop of          *)
(* addLocked is another: what they compute is proved by induction, over    *)
(* subsets of Names (Smallest) and over the numbers (Induction), from the  *)
(* well-foundedness of the subset relation and of <.                       *)
(***************************************************************************)
EXTENDS LruCacheFs, FiniteSetTheorems, SequenceTheorems, TLAPS

\* Among sets of names there is one that contains no other of them.
LEMMA Smallest ==
  ASSUME NEW Q \in SUBSET (SUBSET Names), Q # {}
  PROVE  \E S \in Q : \A T \in Q : ~(T \subseteq S /\ T # S)
<1>1. FiniteSubsetsOf(Names) = SUBSET Names
  BY FS_FiniteSubsetsOfFinite, NamesAssumption
<1>2. IsWellFoundedOn(StrictSubsetOrdering(Names), SUBSET Names)
  BY <1>1, FS_StrictSubsetOrderingWellFounded, NamesAssumption
<1>3. PICK S \in Q : \A T \in Q : ~(<<T, S>> \in StrictSubsetOrdering(Names))
  BY <1>2, WFMin
<1> QED
  BY <1>3 DEF StrictSubsetOrdering

\* g gives each subset of S its bytes.
Sums(g, S) ==
  /\ g \in [SUBSET S -> Nat]
  /\ g[{}] = 0
  /\ \A T \in SUBSET S : \A n \in T : g[T] = Size[n] + g[T \ {n}]

LEMMA SumsExist == \E g : Sums(g, Names)
<1> DEFINE Bad == {S \in SUBSET Names : \A g : ~Sums(g, S)}
<1>1. SUFFICES Bad = {}
  OBVIOUS
<1>2. SUFFICES ASSUME Bad # {} PROVE FALSE
  OBVIOUS
<1>0. Bad \in SUBSET (SUBSET Names)
  OBVIOUS
<1>3. PICK S \in Bad : \A T \in Bad : ~(T \subseteq S /\ T # S)
  <2> HIDE DEF Bad
  <2> QED
    BY <1>0, <1>2, Smallest
<1>4. CASE S = {}
  <2>1. Sums([T \in {{}} |-> 0], {})
    BY DEF Sums
  <2> QED
    BY <1>4, <2>1
<1>5. ASSUME NEW x \in S PROVE FALSE
  <2>1. S \ {x} \notin Bad
    BY <1>3, <1>5
  <2>2. PICK g : Sums(g, S \ {x})
    BY <1>3, <2>1
  <2> DEFINE h == [T \in SUBSET S |-> IF x \in T THEN g[T \ {x}] + Size[x] ELSE g[T]]
  <2>3. Size[x] \in Nat
    BY <1>3, <1>5, SizeAssumption
  <2>4. h \in [SUBSET S -> Nat] /\ h[{}] = 0
    BY <2>2, <2>3 DEF Sums
  <2>5. ASSUME NEW T \in SUBSET S, NEW n \in T PROVE h[T] = Size[n] + h[T \ {n}]
    <3>0. Size[n] \in Nat
      BY <1>3, SizeAssumption
    <3>1. CASE n = x
      BY <3>1, <2>2, <2>3 DEF Sums
    <3>2. CASE n # x /\ x \notin T
      <4>1. T \in SUBSET (S \ {x})
        BY <3>2
      <4> QED
        BY <4>1, <3>2, <2>2 DEF Sums
    <3>3. CASE n # x /\ x \in T
      <4>1. T \ {x} \in SUBSET (S \ {x}) /\ n \in T \ {x}
        BY <3>3
      <4>2. PICK U : U = (T \ {x}) \ {n}
        OBVIOUS
      <4>3. U = (T \ {n}) \ {x} /\ x \in T \ {n} /\ U \in SUBSET (S \ {x})
        BY <3>3, <4>2
      <4>4. g[T \ {x}] = Size[n] + g[U] /\ g[U] \in Nat
        BY <4>1, <4>2, <4>3, <2>2 DEF Sums
      <4>5. h[T] = g[T \ {x}] + Size[x] /\ h[T \ {n}] = g[U] + Size[x]
        BY <3>3, <4>3
      <4> HIDE DEF h
      <4> QED
        BY <4>4, <4>5, <2>3, <3>0
    <3> QED
      BY <3>1, <3>2, <3>3
  <2>6. Sums(h, S)
    BY <2>4, <2>5 DEF Sums
  <2> QED
    BY <1>3, <2>6
<1> QED
  BY <1>4, <1>5

\* Bytes, which picks the files of a set one after the other in any order, is that sum.
LEMMA BytesAreSums ==
  ASSUME NEW g, Sums(g, Names), NEW S \in SUBSET Names
  PROVE  Bytes(S) = g[S]
<1> DEFINE Pick(s) == CHOOSE x \in s : TRUE
           Step(f) == [s \in SUBSET S |-> IF s = {} THEN 0 ELSE Size[Pick(s)] + f[s \ {Pick(s)}]]
           F == CHOOSE f : f = Step(f)
           h == [s \in SUBSET S |-> g[s]]
<1>1. Bytes(S) = F[S]
  BY DEF Bytes, MapThenSumSet, MapThenFoldSet
<1>2. \A s \in SUBSET S : s # {} => Pick(s) \in s
  OBVIOUS
<1> HIDE DEF Pick
<1>3. h = Step(h)
  <2>1. ASSUME NEW s \in SUBSET S PROVE h[s] = Step(h)[s]
    BY <1>2 DEF Sums
  <2> QED
    BY <2>1
<1>4. F = Step(F)
  <2> HIDE DEF h, Step
  <2> QED
    BY <1>3
<1> HIDE DEF F
<1> DEFINE Off == {s \in SUBSET S : F[s] # g[s]}
<1>5. SUFFICES ASSUME Off # {} PROVE FALSE
  BY <1>1
<1>0. Off \in SUBSET (SUBSET Names)
  OBVIOUS
<1>6. PICK s \in Off : \A t \in Off : ~(t \subseteq s /\ t # s)
  <2> HIDE DEF Off
  <2> QED
    BY <1>0, <1>5, Smallest
<1>7. F[s] = IF s = {} THEN 0 ELSE Size[Pick(s)] + F[s \ {Pick(s)}]
  BY <1>4
<1>8. s # {}
  BY <1>6, <1>7 DEF Sums
<1>9. s \ {Pick(s)} \notin Off
  BY <1>2, <1>6, <1>8
<1> QED
  BY <1>2, <1>6, <1>7, <1>8, <1>9 DEF Sums

\* What the proofs use of Bytes.
LEMMA BytesFacts ==
  /\ Bytes({}) = 0
  /\ \A S \in SUBSET Names : Bytes(S) \in Nat
  /\ \A S \in SUBSET Names : \A n \in S : Bytes(S) = Size[n] + Bytes(S \ {n})
<1>1. PICK g : Sums(g, Names)
  BY SumsExist
<1>2. \A S \in SUBSET Names : Bytes(S) = g[S]
  BY <1>1, BytesAreSums
<1> QED
  BY <1>1, <1>2, Zenon DEF Sums
-----------------------------------------------------------------------------
Node == Names \cup {None}
Record ==
  [entries : SUBSET Names, curBytes : Int, head : Node, tail : Node,
   prev : [Names -> Node], next : [Names -> Node]]

\* From head h to tail t the pointers link the L files of s, each of them once.
List(s, L, h, t, prev, next) ==
  /\ L \in Nat
  /\ s \in [1 .. L -> Names]
  /\ \A j, k \in 1 .. L : s[j] = s[k] => j = k
  /\ h = IF L = 0 THEN None ELSE s[1]
  /\ t = IF L = 0 THEN None ELSE s[L]
  /\ prev \in [Names -> Node] /\ next \in [Names -> Node]
  /\ \A k \in 1 .. L : prev[s[k]] = IF k = 1 THEN None ELSE s[k - 1]
  /\ \A k \in 1 .. L : next[s[k]] = IF k = L THEN None ELSE s[k + 1]

\* s without its i-th file, s with n in front.
Dropped(s, L, i, d) ==
  /\ d \in [1 .. L - 1 -> Names]
  /\ \A k \in 1 .. L - 1 : d[k] = IF k < i THEN s[k] ELSE s[k + 1]
Pushed(s, L, n, d) ==
  /\ d \in [1 .. L + 1 -> Names]
  /\ d[1] = n
  /\ \A k \in 1 .. L : d[k + 1] = s[k]

\* What unlinking n and linking it in front do to the pointers.
Unlinks(n, h, t, prev, next, hh, tt, pp, nn) ==
  /\ nn = SetAt(next, prev[n], next[n])
  /\ pp = SetAt(prev, next[n], prev[n])
  /\ hh = IF prev[n] = None THEN next[n] ELSE h
  /\ tt = IF next[n] = None THEN prev[n] ELSE t
Pushes(n, h, t, prev, next, hh, tt, pp, nn) ==
  /\ pp = SetAt([prev EXCEPT ![n] = None], h, n)
  /\ nn = [next EXCEPT ![n] = h]
  /\ hh = n
  /\ tt = IF t = None THEN n ELSE t

LEMMA UnlinkedList ==
  ASSUME NEW s, NEW L, NEW h, NEW t, NEW prev, NEW next, List(s, L, h, t, prev, next),
         NEW i \in 1 .. L, NEW d, Dropped(s, L, i, d),
         NEW hh, NEW tt, NEW pp, NEW nn, Unlinks(s[i], h, t, prev, next, hh, tt, pp, nn)
  PROVE  List(d, L - 1, hh, tt, pp, nn)
<1>1. PICK p, q : p = prev[s[i]] /\ q = next[s[i]]
  OBVIOUS
<1>2. /\ L \in Nat /\ s \in [1 .. L -> Names]
      /\ \A j, k \in 1 .. L : s[j] = s[k] => j = k
      /\ h = IF L = 0 THEN None ELSE s[1]
      /\ t = IF L = 0 THEN None ELSE s[L]
      /\ prev \in [Names -> Node] /\ next \in [Names -> Node]
  BY DEF List
<1>3. /\ \A k \in 1 .. L : prev[s[k]] = IF k = 1 THEN None ELSE s[k - 1]
      /\ \A k \in 1 .. L : next[s[k]] = IF k = L THEN None ELSE s[k + 1]
  BY DEF List
<1>4. /\ p = IF i = 1 THEN None ELSE s[i - 1]
      /\ q = IF i = L THEN None ELSE s[i + 1]
  BY <1>1, <1>3
<1>5. p \in Node /\ q \in Node
  BY <1>1, <1>2
<1>6. /\ pp \in [Names -> Node] /\ nn \in [Names -> Node]
      /\ \A a \in Names : pp[a] = IF a = q THEN p ELSE prev[a]
      /\ \A a \in Names : nn[a] = IF a = p THEN q ELSE next[a]
  <2>1. nn = SetAt(next, p, q) /\ pp = SetAt(prev, q, p)
    BY <1>1 DEF Unlinks
  <2>3. nn \in [Names -> Node] /\ \A a \in Names : nn[a] = IF a = p THEN q ELSE next[a]
    BY <1>2, <1>5, <2>1, NoneAssumption DEF SetAt, Node
  <2>4. pp \in [Names -> Node] /\ \A a \in Names : pp[a] = IF a = q THEN p ELSE prev[a]
    BY <1>2, <1>5, <2>1, NoneAssumption DEF SetAt, Node
  <2> QED
    BY <2>3, <2>4
<1>7. /\ hh = IF p = None THEN q ELSE h
      /\ tt = IF q = None THEN p ELSE t
  BY <1>1 DEF Unlinks
<1>8. d \in [1 .. L - 1 -> Names] /\ \A k \in 1 .. L - 1 : d[k] = IF k < i THEN s[k] ELSE s[k + 1]
  BY DEF Dropped
<1>9. \A j, k \in 1 .. L - 1 : d[j] = d[k] => j = k
  BY <1>2, <1>8
<1>10. hh = IF L - 1 = 0 THEN None ELSE d[1]
  <2>1. CASE i = 1
    BY <1>2, <1>4, <1>7, <1>8, <2>1
  <2>2. CASE i # 1
    BY <1>2, <1>4, <1>7, <1>8, <2>2, NoneAssumption
  <2> QED
    BY <2>1, <2>2
<1>11. tt = IF L - 1 = 0 THEN None ELSE d[L - 1]
  <2>1. CASE i = L
    BY <1>2, <1>4, <1>7, <1>8, <2>1
  <2>2. CASE i # L
    BY <1>2, <1>4, <1>7, <1>8, <2>2, NoneAssumption
  <2> QED
    BY <2>1, <2>2
<1>12. ASSUME NEW k \in 1 .. L - 1
       PROVE  /\ pp[d[k]] = IF k = 1 THEN None ELSE d[k - 1]
              /\ nn[d[k]] = IF k = L - 1 THEN None ELSE d[k + 1]
  <2>2. PICK j \in 1 .. L : j = IF k < i THEN k ELSE k + 1
    BY <1>2
  <2>3. d[k] = s[j] /\ j # i /\ s[j] \in Names
    BY <1>2, <1>8, <2>2
  <2>4. s[j] = q <=> j = i + 1
    BY <1>2, <1>4, <2>2, <2>3, NoneAssumption
  <2>5. s[j] = p <=> j = i - 1
    BY <1>2, <1>4, <2>2, <2>3, NoneAssumption
  <2>6. pp[d[k]] = IF j = i + 1 THEN p ELSE IF j = 1 THEN None ELSE s[j - 1]
    BY <1>3, <1>6, <2>3, <2>4
  <2>7. nn[d[k]] = IF j = i - 1 THEN q ELSE IF j = L THEN None ELSE s[j + 1]
    BY <1>3, <1>6, <2>3, <2>5
  <2>8. k # 1 => d[k - 1] = IF k - 1 < i THEN s[k - 1] ELSE s[k]
    BY <1>2, <1>8
  <2>9. k # L - 1 => d[k + 1] = IF k + 1 < i THEN s[k + 1] ELSE s[(k + 1) + 1]
    BY <1>2, <1>8
  <2>10. pp[d[k]] = IF k = 1 THEN None ELSE d[k - 1]
    BY <1>2, <1>4, <2>2, <2>6, <2>8
  <2>11. nn[d[k]] = IF k = L - 1 THEN None ELSE d[k + 1]
    BY <1>2, <1>4, <2>2, <2>7, <2>9
  <2> QED
    BY <2>10, <2>11
<1>13. L - 1 \in Nat
  BY <1>2
<1> QED
  BY <1>6, <1>8, <1>9, <1>10, <1>11, <1>12, <1>13 DEF List

LEMMA PushedList ==
  ASSUME NEW s, NEW L, NEW h, NEW t, NEW prev, NEW next, List(s, L, h, t, prev, next),
         NEW n \in Names, \A k \in 1 .. L : s[k] # n, NEW d, Pushed(s, L, n, d),
         NEW hh, NEW tt, NEW pp, NEW nn, Pushes(n, h, t, prev, next, hh, tt, pp, nn)
  PROVE  List(d, L + 1, hh, tt, pp, nn)
<1>1. /\ L \in Nat /\ s \in [1 .. L -> Names]
      /\ \A j, k \in 1 .. L : s[j] = s[k] => j = k
      /\ h = IF L = 0 THEN None ELSE s[1]
      /\ t = IF L = 0 THEN None ELSE s[L]
      /\ prev \in [Names -> Node] /\ next \in [Names -> Node]
  BY DEF List
<1>2. /\ \A k \in 1 .. L : prev[s[k]] = IF k = 1 THEN None ELSE s[k - 1]
      /\ \A k \in 1 .. L : next[s[k]] = IF k = L THEN None ELSE s[k + 1]
  BY DEF List
<1>3. h \in Node
  BY <1>1 DEF Node
<1>4. /\ pp \in [Names -> Node] /\ nn \in [Names -> Node]
      /\ \A a \in Names : pp[a] = IF a = h THEN n ELSE IF a = n THEN None ELSE prev[a]
      /\ \A a \in Names : nn[a] = IF a = n THEN h ELSE next[a]
  <2>1. PICK f : f = [prev EXCEPT ![n] = None]
    OBVIOUS
  <2>2. f \in [Names -> Node] /\ \A a \in Names : f[a] = IF a = n THEN None ELSE prev[a]
    BY <1>1, <2>1 DEF Node
  <2>3. pp = SetAt(f, h, n) /\ n \in Node
    BY <2>1 DEF Pushes, Node
  <2>4. pp \in [Names -> Node] /\ \A a \in Names : pp[a] = IF a = h THEN n ELSE f[a]
    BY <1>3, <2>2, <2>3, NoneAssumption DEF SetAt, Node
  <2>5. nn = [next EXCEPT ![n] = h]
    BY DEF Pushes
  <2>6. nn \in [Names -> Node] /\ \A a \in Names : nn[a] = IF a = n THEN h ELSE next[a]
    BY <1>1, <1>3, <2>5
  <2> QED
    BY <2>2, <2>4, <2>6
<1>5. hh = n /\ tt = IF t = None THEN n ELSE t
  BY DEF Pushes
<1>6. d \in [1 .. L + 1 -> Names] /\ d[1] = n /\ \A k \in 1 .. L : d[k + 1] = s[k]
  BY DEF Pushed
<1>7. ASSUME NEW j \in 2 .. L + 1 PROVE d[j] = s[j - 1]
  <2>1. PICK i \in 1 .. L : i = j - 1
    BY <1>1
  <2> QED
    BY <1>1, <1>6, <2>1
<1>8. \A j, k \in 1 .. L + 1 : d[j] = d[k] => j = k
  BY <1>1, <1>6, <1>7
<1>9. hh = IF L + 1 = 0 THEN None ELSE d[1]
  BY <1>1, <1>5, <1>6
<1>10. tt = IF L + 1 = 0 THEN None ELSE d[L + 1]
  <2>1. CASE L = 0
    BY <1>1, <1>5, <1>6, <2>1
  <2>2. CASE L # 0
    BY <1>1, <1>5, <1>6, <2>2, NoneAssumption
  <2> QED
    BY <2>1, <2>2
<1>11. ASSUME NEW k \in 1 .. L + 1
       PROVE  /\ pp[d[k]] = IF k = 1 THEN None ELSE d[k - 1]
              /\ nn[d[k]] = IF k = L + 1 THEN None ELSE d[k + 1]
  <2>1. CASE k = 1
    <3>1. h # n
      BY <1>1, NoneAssumption
    <3>2. pp[n] = None /\ nn[n] = h
      BY <1>4, <3>1
    <3>3. h = IF L + 1 = 1 THEN None ELSE d[2]
      BY <1>1, <1>7
    <3> QED
      BY <1>1, <1>6, <2>1, <3>2, <3>3
  <2>2. CASE k # 1
    <3>1. PICK j \in 1 .. L : j = k - 1
      BY <1>1, <2>2
    <3>2. d[k] = s[j] /\ s[j] \in Names /\ s[j] # n
      BY <1>1, <1>7, <2>2, <3>1
    <3>3. s[j] = h <=> j = 1
      BY <1>1, <3>2
    <3>4. pp[d[k]] = IF j = 1 THEN n ELSE s[j - 1]
      BY <1>2, <1>4, <3>2, <3>3
    <3>5. nn[d[k]] = IF j = L THEN None ELSE s[j + 1]
      BY <1>2, <1>4, <3>2
    <3>6. j # 1 => d[k - 1] = s[j - 1]
      BY <1>1, <1>7, <3>1
    <3>7. j # L => d[k + 1] = s[j + 1]
      BY <1>1, <1>7, <3>1
    <3> QED
      BY <1>1, <1>6, <2>2, <3>1, <3>4, <3>5, <3>6, <3>7
  <2> QED
    BY <2>1, <2>2
<1>12. L + 1 \in Nat
  BY <1>1
<1> QED
  BY <1>4, <1>6, <1>8, <1>9, <1>10, <1>11, <1>12 DEF List

-----------------------------------------------------------------------------
Files(s) == {s[k] : k \in 1 .. Len(s)}

\* l is the cache of the files s, the most recently used first.
Holds(l, s) ==
  /\ l \in Record
  /\ s \in Seq(Names)
  /\ List(s, Len(s), l.head, l.tail, l.prev, l.next)
  /\ l.entries = Files(s)
  /\ l.curBytes = Bytes(l.entries)

LEMMA DropIs ==
  ASSUME NEW s \in Seq(Names), NEW i \in 1 .. Len(s), NEW d, d = RC!RemoveAt(s, i)
  PROVE  d \in Seq(Names) /\ Len(d) = Len(s) - 1 /\ Dropped(s, Len(s), i, d)
<1>u. PICK u : u = SubSeq(s, 1, i - 1)
  OBVIOUS
<1>v. PICK v : v = SubSeq(s, i + 1, Len(s))
  OBVIOUS
<1>0. Len(s) \in Nat /\ \A k \in 1 .. Len(s) : s[k] \in Names
  BY LenProperties
<1>1. u \in Seq(Names) /\ Len(u) = i - 1 /\ \A k \in 1 .. i - 1 : u[k] = s[k]
  BY <1>0, <1>u, SubSeqProperties
<1>2. v \in Seq(Names) /\ Len(v) = Len(s) - i /\ \A k \in 1 .. Len(s) - i : v[k] = s[i + k]
  BY <1>0, <1>v, SubSeqProperties
<1>3. d = u \o v
  BY <1>u, <1>v DEF RC!RemoveAt
<1>4. /\ d \in Seq(Names) /\ Len(d) = Len(u) + Len(v)
      /\ \A k \in 1 .. Len(u) + Len(v) : d[k] = IF k <= Len(u) THEN u[k] ELSE v[k - Len(u)]
  <2>1. u \in Seq(Names) /\ v \in Seq(Names)
    BY <1>1, <1>2
  <2> QED
    BY <2>1, <1>3, ConcatProperties
<1>5. Len(d) = Len(s) - 1
  BY <1>0, <1>1, <1>2, <1>4
<1>6. ASSUME NEW k \in 1 .. Len(s) - 1 PROVE d[k] = IF k < i THEN s[k] ELSE s[k + 1]
  <2>1. d[k] = IF k <= i - 1 THEN u[k] ELSE v[k - (i - 1)]
    BY <1>0, <1>1, <1>2, <1>4
  <2>2. CASE k < i
    BY <1>0, <1>1, <2>1, <2>2
  <2>3. CASE k >= i
    <3>1. k - (i - 1) \in 1 .. Len(s) - i /\ i + (k - (i - 1)) = k + 1
      BY <1>0, <2>3
    <3>2. v[k - (i - 1)] = s[k + 1]
      BY <1>2, <3>1
    <3> QED
      BY <1>0, <2>1, <2>3, <3>2
  <2> QED
    BY <1>0, <2>2, <2>3
<1>7. d \in [1 .. Len(s) - 1 -> Names]
  BY <1>4, <1>5, LenProperties
<1> QED
  BY <1>4, <1>5, <1>6, <1>7 DEF Dropped

LEMMA PushIs ==
  ASSUME NEW s \in Seq(Names), NEW n \in Names, NEW d, d = <<n>> \o s
  PROVE  d \in Seq(Names) /\ Len(d) = Len(s) + 1 /\ Pushed(s, Len(s), n, d)
<1>0. Len(s) \in Nat
  BY LenProperties
<1>1. <<n>> \in Seq(Names) /\ Len(<<n>>) = 1 /\ <<n>>[1] = n
  OBVIOUS
<1>2. /\ d \in Seq(Names) /\ Len(d) = 1 + Len(s)
      /\ \A k \in 1 .. 1 + Len(s) : d[k] = IF k <= 1 THEN <<n>>[k] ELSE s[k - 1]
  BY <1>1, ConcatProperties
<1>3. d[1] = n
  BY <1>0, <1>1, <1>2
<1>4. ASSUME NEW k \in 1 .. Len(s) PROVE d[k + 1] = s[k]
  <2>1. k + 1 \in 1 .. 1 + Len(s) /\ ~(k + 1 <= 1) /\ (k + 1) - 1 = k
    BY <1>0
  <2> QED
    BY <1>2, <2>1
<1>5. d \in [1 .. Len(s) + 1 -> Names]
  <2>1. d \in [1 .. Len(d) -> Names] /\ Len(d) = Len(s) + 1
    <3>1. d \in Seq(Names)
      BY <1>2
    <3>2. d \in [1 .. Len(d) -> Names]
      BY <3>1, LenProperties
    <3> QED
      BY <1>0, <1>2, <3>2
  <2> QED
    BY <2>1
<1> QED
  BY <1>0, <1>2, <1>3, <1>4, <1>5 DEF Pushed

LEMMA FilesDropped ==
  ASSUME NEW s \in Seq(Names), NEW i \in 1 .. Len(s), NEW d \in Seq(Names), Len(d) = Len(s) - 1,
         Dropped(s, Len(s), i, d), \A j, k \in 1 .. Len(s) : s[j] = s[k] => j = k
  PROVE  Files(d) = Files(s) \ {s[i]}
<1>0. Len(s) \in Nat /\ \A k \in 1 .. Len(s) - 1 : d[k] = IF k < i THEN s[k] ELSE s[k + 1]
  BY LenProperties DEF Dropped
<1>1. ASSUME NEW k \in 1 .. Len(d) PROVE d[k] \in Files(s) \ {s[i]}
  BY <1>0 DEF Files
<1>2. ASSUME NEW k \in 1 .. Len(s), s[k] # s[i] PROVE s[k] \in Files(d)
  <2>0. k # i
    BY <1>2
  <2>1. CASE k < i
    BY <1>0, <2>1 DEF Files
  <2>2. CASE k > i
    <3>1. k - 1 \in 1 .. Len(d) /\ d[k - 1] = s[k]
      BY <1>0, <2>2
    <3> QED
      BY <3>1 DEF Files
  <2> QED
    BY <1>0, <2>0, <2>1, <2>2
<1>3. Files(d) \subseteq Files(s) \ {s[i]}
  BY <1>1 DEF Files
<1>4. Files(s) \ {s[i]} \subseteq Files(d)
  <2>1. ASSUME NEW x \in Files(s), x # s[i] PROVE x \in Files(d)
    <3>1. PICK k \in 1 .. Len(s) : x = s[k]
      BY DEF Files
    <3> QED
      BY <1>2, <2>1, <3>1
  <2> QED
    BY <2>1
<1> QED
  BY <1>3, <1>4

LEMMA FilesPushed ==
  ASSUME NEW s \in Seq(Names), NEW n \in Names, NEW d \in Seq(Names), Len(d) = Len(s) + 1,
         Pushed(s, Len(s), n, d)
  PROVE  Files(d) = Files(s) \cup {n}
<1>0. Len(s) \in Nat /\ d[1] = n /\ \A k \in 1 .. Len(s) : d[k + 1] = s[k]
  BY LenProperties DEF Pushed
<1>1. ASSUME NEW k \in 1 .. Len(d) PROVE d[k] \in Files(s) \cup {n}
  <2>1. CASE k # 1
    <3>1. k - 1 \in 1 .. Len(s) /\ (k - 1) + 1 = k
      BY <1>0, <2>1
    <3>2. d[k] = s[k - 1]
      BY <1>0, <3>1
    <3> QED
      BY <3>1, <3>2 DEF Files
  <2> QED
    BY <1>0, <2>1
<1>2. ASSUME NEW k \in 1 .. Len(s) PROVE s[k] \in Files(d)
  <2>1. k + 1 \in 1 .. Len(d)
    BY <1>0
  <2> QED
    BY <1>0, <2>1 DEF Files
<1>3. n \in Files(d)
  <2>1. 1 \in 1 .. Len(d)
    BY <1>0
  <2> QED
    BY <1>0, <2>1 DEF Files
<1> QED
  BY <1>1, <1>2, <1>3 DEF Files

LEMMA HoldsIs ==
  ASSUME NEW l, NEW s, Holds(l, s)
  PROVE  /\ Len(s) \in Nat /\ s \in Seq(Names)
         /\ \A k \in 1 .. Len(s) : s[k] \in Names
         /\ \A j, k \in 1 .. Len(s) : s[j] = s[k] => j = k
         /\ l.head = IF Len(s) = 0 THEN None ELSE s[1]
         /\ l.tail = IF Len(s) = 0 THEN None ELSE s[Len(s)]
         /\ \A k \in 1 .. Len(s) : l.prev[s[k]] = IF k = 1 THEN None ELSE s[k - 1]
         /\ \A k \in 1 .. Len(s) : l.next[s[k]] = IF k = Len(s) THEN None ELSE s[k + 1]
<1>1. List(s, Len(s), l.head, l.tail, l.prev, l.next) /\ s \in Seq(Names)
  BY DEF Holds
<1>2. /\ Len(s) \in Nat /\ s \in [1 .. Len(s) -> Names]
      /\ \A j, k \in 1 .. Len(s) : s[j] = s[k] => j = k
  BY <1>1 DEF List
<1> QED
  BY <1>1, <1>2, Zenon DEF List

\* A record whose list and books agree holds the files.
LEMMA HoldsAgain ==
  ASSUME NEW l \in Record, NEW s \in Seq(Names), NEW L, Len(s) = L,
         List(s, L, l.head, l.tail, l.prev, l.next),
         l.entries = Files(s), l.curBytes = Bytes(l.entries)
  PROVE  Holds(l, s)
BY Zenon DEF Holds

\* The file that is touched comes to the front, the others keep their order.
LEMMA TouchHolds ==
  ASSUME NEW l, NEW s, Holds(l, s), NEW i \in 1 .. Len(s), NEW n, n = s[i]
  PROVE  Holds(TouchLocked(l, n), <<n>> \o RC!RemoveAt(s, i))
<1>1. PICK d : d = RC!RemoveAt(s, i)
  OBVIOUS
<1>2. PICK e : e = <<n>> \o d
  OBVIOUS
<1>3. /\ Len(s) \in Nat /\ s \in Seq(Names)
      /\ \A k \in 1 .. Len(s) : s[k] \in Names
      /\ \A j, k \in 1 .. Len(s) : s[j] = s[k] => j = k
      /\ l.head = IF Len(s) = 0 THEN None ELSE s[1]
  BY HoldsIs
<1>4. d \in Seq(Names) /\ Len(d) = Len(s) - 1 /\ Dropped(s, Len(s), i, d)
  BY <1>1, <1>3, DropIs
<1>5. n \in Names
  BY <1>3
<1>6. e \in Seq(Names) /\ Len(e) = Len(d) + 1 /\ Pushed(d, Len(d), n, e)
  BY <1>2, <1>4, <1>5, PushIs
<1>7. Files(e) = Files(s)
  <2>1. Files(d) = Files(s) \ {n}
    BY <1>3, <1>4, FilesDropped
  <2>2. Files(e) = Files(d) \cup {n}
    BY <1>4, <1>5, <1>6, FilesPushed
  <2>3. n \in Files(s)
    BY DEF Files
  <2> QED
    BY <2>1, <2>2, <2>3
<1>8. CASE i = 1
  <2>1. TouchLocked(l, n) = l
    BY <1>3, <1>8 DEF TouchLocked
  <2>2. ASSUME NEW k \in 1 .. Len(s) PROVE e[k] = s[k]
    <3>1. CASE k = 1
      BY <1>6, <1>8, <3>1 DEF Pushed
    <3>2. CASE k # 1
      <4>1. PICK j : j = k - 1
        OBVIOUS
      <4>2. j \in 1 .. Len(d) /\ k = j + 1 /\ j \in 1 .. Len(s) - 1
        BY <1>3, <1>4, <3>2, <4>1
      <4>3. e[j + 1] = d[j]
        BY <1>6, <4>2 DEF Pushed
      <4>4. d[j] = s[j + 1]
        BY <1>3, <1>4, <1>8, <4>2 DEF Dropped
      <4> QED
        BY <4>2, <4>3, <4>4
    <3> QED
      BY <3>1, <3>2
  <2>3. e = s
    <3>1. Len(e) = Len(s)
      BY <1>3, <1>4, <1>6
    <3> QED
      BY <1>3, <1>6, <2>2, <3>1, SeqEqual
  <2> QED
    BY <1>1, <1>2, <2>1, <2>3
<1>9. CASE i # 1
  <2>1. l.head # n
    BY <1>3, <1>9
  <2>2. l \in Record /\ List(s, Len(s), l.head, l.tail, l.prev, l.next)
    BY DEF Holds
  <2>3. /\ l.prev[n] = s[i - 1] /\ l.prev[n] # None
        /\ l.tail = IF Len(s) = 0 THEN None ELSE s[Len(s)]
        /\ l.next[n] = IF i = Len(s) THEN None ELSE s[i + 1]
    BY <1>3, <1>9, HoldsIs, NoneAssumption
  <2>4. PICK tt : tt = IF l.tail = n THEN l.prev[n] ELSE l.tail
    OBVIOUS
  <2>5. tt = IF l.next[n] = None THEN l.prev[n] ELSE l.tail
    BY <1>3, <2>3, <2>4, NoneAssumption
  <2>6. PICK nn, pp : nn = SetAt(l.next, l.prev[n], l.next[n]) /\ pp = SetAt(l.prev, l.next[n], l.prev[n])
    OBVIOUS
  <2>7. Unlinks(s[i], l.head, l.tail, l.prev, l.next, l.head, tt, pp, nn)
    BY <2>3, <2>5, <2>6 DEF Unlinks
  <2>8. List(d, Len(d), l.head, tt, pp, nn)
    BY <1>4, <2>2, <2>7, UnlinkedList
  <2>9. tt # None
    BY <1>3, <2>3, <2>4, NoneAssumption
  <2>10. PICK p3, n3 : p3 = SetAt([pp EXCEPT ![n] = None], l.head, n) /\ n3 = [nn EXCEPT ![n] = l.head]
    OBVIOUS
  <2>11. Pushes(n, l.head, tt, pp, nn, n, tt, p3, n3)
    BY <2>9, <2>10 DEF Pushes
  <2>12. \A k \in 1 .. Len(d) : d[k] # n
    <3>1. Files(d) = Files(s) \ {n}
      BY <1>3, <1>4, FilesDropped
    <3> QED
      BY <3>1 DEF Files
  <2>13. List(e, Len(d) + 1, n, tt, p3, n3)
    BY <1>5, <1>6, <2>8, <2>11, <2>12, PushedList
  <2>14. PICK m : m = [l EXCEPT !.next = nn, !.prev = pp, !.tail = tt]
    OBVIOUS
  <2>15. m \in [entries : SUBSET Names, curBytes : Int, head : Node, tail : {tt}, prev : {pp}, next : {nn}]
         /\ m.entries = l.entries /\ m.curBytes = l.curBytes /\ m.head = l.head
         /\ m.tail = tt /\ m.prev = pp /\ m.next = nn
    BY <2>2, <2>14 DEF Record
  <2>16. PICK r : r = [m EXCEPT !.prev = p3, !.next = n3, !.head = n]
    OBVIOUS
  <2>17. r \in [entries : SUBSET Names, curBytes : Int, head : {n}, tail : {tt}, prev : {p3}, next : {n3}]
         /\ r.entries = l.entries /\ r.curBytes = l.curBytes /\ r.head = n
         /\ r.tail = tt /\ r.prev = p3 /\ r.next = n3
    BY <2>15, <2>16
  <2>18. r = PushFront(m, n)
    <3>1. p3 = SetAt([m.prev EXCEPT ![n] = None], m.head, n) /\ n3 = [m.next EXCEPT ![n] = m.head]
      BY <2>10, <2>15
    <3> QED
      BY <2>16, <3>1, Zenon DEF PushFront
  <2>19. m = [l EXCEPT !.next = SetAt(@, l.prev[n], l.next[n]),
                       !.prev = SetAt(@, l.next[n], l.prev[n]),
                       !.tail = IF @ = n THEN l.prev[n] ELSE @]
    BY <2>4, <2>6, <2>14, Zenon
  <2>20. r = TouchLocked(l, n)
    BY <2>1, <2>18, <2>19, Zenon DEF TouchLocked
  <2>21. r \in Record
    <3>1. p3 \in [Names -> Node] /\ n3 \in [Names -> Node] /\ tt \in Node /\ n \in Node
      BY <1>5, <2>2, <2>3, <2>4, <2>13 DEF List, Record, Node
    <3> QED
      BY <2>17, <3>1 DEF Record
  <2>22. List(e, Len(d) + 1, r.head, r.tail, r.prev, r.next)
    BY <2>13, <2>17
  <2>23. r.entries = Files(e) /\ r.curBytes = Bytes(r.entries)
    BY <1>7, <2>17 DEF Holds
  <2> QED
    BY <1>1, <1>2, <1>6, <2>20, <2>21, <2>22, <2>23, HoldsAgain
<1> QED
  BY <1>8, <1>9

\* Evicting the tail leaves the others.
LEMMA EvictHolds ==
  ASSUME NEW l, NEW s, Holds(l, s), Len(s) # 0
  PROVE  Holds(EvictLocked(l, l.tail), SubSeq(s, 1, Len(s) - 1))
<1>1. PICK L : L = Len(s)
  OBVIOUS
<1>2. PICK n : n = l.tail
  OBVIOUS
<1>3. /\ L \in Nat /\ L # 0 /\ s \in Seq(Names)
      /\ \A k \in 1 .. L : s[k] \in Names
      /\ \A j, k \in 1 .. L : s[j] = s[k] => j = k
      /\ n = s[L]
  BY <1>1, <1>2, HoldsIs
<1>4. PICK d : d = SubSeq(s, 1, L - 1)
  OBVIOUS
<1>5. d \in Seq(Names) /\ Len(d) = L - 1 /\ \A k \in 1 .. L - 1 : d[k] = s[k]
  <2>1. 1 \in Int /\ L - 1 \in Int /\ \A k \in 1 .. L - 1 : s[k] \in Names
    BY <1>3
  <2>2. d \in Seq(Names) /\ Len(d) = (IF 1 <= L - 1 THEN L - 1 - 1 + 1 ELSE 0)
        /\ \A k \in 1 .. L - 1 - 1 + 1 : d[k] = s[1 + k - 1]
    BY <1>4, <2>1, SubSeqProperties
  <2> QED
    BY <1>3, <2>2
<1>6. Dropped(s, L, L, d)
  <2>1. d \in [1 .. L - 1 -> Names]
    <3>1. d \in [1 .. Len(d) -> Names]
      BY <1>5, LenProperties
    <3> QED
      BY <1>5, <3>1
  <2> QED
    BY <1>3, <1>5, <2>1 DEF Dropped
<1>7. L \in 1 .. L /\ n \in Names
  BY <1>3
<1>8. Files(d) = Files(s) \ {n}
  BY <1>1, <1>3, <1>5, <1>6, <1>7, FilesDropped
<1>9. l \in Record /\ List(s, L, l.head, l.tail, l.prev, l.next) /\ l.entries = Files(s) /\ l.curBytes = Bytes(l.entries)
  BY <1>1 DEF Holds
<1>10. PICK nn, pp : nn = SetAt(l.next, l.prev[n], l.next[n]) /\ pp = SetAt(l.prev, l.next[n], l.prev[n])
  OBVIOUS
<1>11. PICK hh, tt : /\ hh = IF l.prev[n] = None THEN l.next[n] ELSE l.head
                     /\ tt = IF l.next[n] = None THEN l.prev[n] ELSE l.tail
  OBVIOUS
<1>12. Unlinks(s[L], l.head, l.tail, l.prev, l.next, hh, tt, pp, nn)
  BY <1>3, <1>10, <1>11 DEF Unlinks
<1>13. List(d, L - 1, hh, tt, pp, nn)
  BY <1>6, <1>7, <1>9, <1>12, UnlinkedList
<1>14. n \in l.entries /\ l.entries \in SUBSET Names
  BY <1>1, <1>3, <1>7, <1>9 DEF Files, Record
<1>15. PICK b, en : b = l.curBytes - Size[n] /\ en = l.entries \ {n}
  OBVIOUS
<1>16. b = Bytes(en) /\ en \in SUBSET Names /\ b \in Int
  <2>1. Bytes(l.entries) = Size[n] + Bytes(en) /\ Bytes(en) \in Nat /\ en \in SUBSET Names
    BY <1>14, <1>15, BytesFacts
  <2>2. Size[n] \in Nat
    BY <1>7, SizeAssumption
  <2> QED
    BY <1>9, <1>15, <2>1, <2>2
<1>17. PICK r : r = [l EXCEPT !.next = nn, !.prev = pp, !.head = hh, !.tail = tt, !.curBytes = b, !.entries = en]
  OBVIOUS
<1>18. r = EvictLocked(l, n)
  BY <1>10, <1>11, <1>15, <1>17, Zenon DEF EvictLocked
<1>19. /\ r.next = nn /\ r.prev = pp /\ r.head = hh /\ r.tail = tt /\ r.curBytes = b /\ r.entries = en
       /\ r \in [entries : {en}, curBytes : {b}, head : {hh}, tail : {tt}, prev : {pp}, next : {nn}]
  BY <1>9, <1>17 DEF Record
<1>20. hh \in Node /\ tt \in Node /\ pp \in [Names -> Node] /\ nn \in [Names -> Node]
  BY <1>7, <1>9, <1>11, <1>13 DEF List, Record
<1>21. r \in Record
  BY <1>16, <1>19, <1>20 DEF Record
<1>22. List(d, L - 1, r.head, r.tail, r.prev, r.next)
  BY <1>13, <1>19
<1>23. r.entries = Files(d) /\ r.curBytes = Bytes(r.entries)
  BY <1>8, <1>9, <1>15, <1>16, <1>19
<1> QED
  BY <1>1, <1>2, <1>4, <1>5, <1>18, <1>21, <1>22, <1>23, HoldsAgain

-----------------------------------------------------------------------------
\* Induction over the natural numbers, for sets.
Below == {x \in Nat \X Nat : x[1] < x[2]}

LEMMA BelowWellFounded == IsWellFoundedOn(Below, Nat)
BY NatLessThanWellFounded DEF OpToRel, Below

LEMMA Induction ==
  ASSUME NEW S \in SUBSET Nat, 0 \in S, \A n \in S : n + 1 \in S
  PROVE  S = Nat
<1> SUFFICES ASSUME Nat \ S # {} PROVE FALSE
  OBVIOUS
<1>1. PICK x \in Nat \ S : \A y \in Nat \ S : ~(<<y, x>> \in Below)
  BY BelowWellFounded, WFMin
<1>2. \A y \in Nat \ S : ~(y < x)
  BY <1>1 DEF Below
<1>3. x - 1 \in S
  BY <1>2
<1> QED
  BY <1>3

-----------------------------------------------------------------------------
\* The loop of addLocked, step by step.
Loop(f, c, l, n) == f = [k \in 0 .. c |-> IF k = 0 THEN l ELSE EvictTail(f[k - 1], n)]

LEMMA LoopExists ==
  ASSUME NEW l, NEW n, NEW c \in Nat
  PROVE  \E f : Loop(f, c, l, n)
<1> DEFINE S == {d \in Nat : \E f : Loop(f, d, l, n)}
<1>1. 0 \in S
  <2>1. Loop([k \in 0 .. 0 |-> l], 0, l, n)
    BY DEF Loop
  <2> QED
    BY <2>1
<1>2. ASSUME NEW d \in S PROVE d + 1 \in S
  <2>1. PICK f : Loop(f, d, l, n)
    OBVIOUS
  <2>2. PICK g : g = [k \in 0 .. d + 1 |-> IF k = d + 1 THEN EvictTail(f[d], n) ELSE f[k]]
    OBVIOUS
  <2>3. ASSUME NEW k \in 0 .. d + 1
        PROVE  g[k] = IF k = 0 THEN l ELSE EvictTail(g[k - 1], n)
    <3>1. CASE k = d + 1
      <4>1. g[k] = EvictTail(f[d], n) /\ g[k - 1] = f[d] /\ k # 0
        BY <2>2, <3>1
      <4> QED
        BY <4>1
    <3>2. CASE k # d + 1 /\ k # 0
      <4>1. g[k] = f[k] /\ g[k - 1] = f[k - 1]
        BY <2>2, <3>2
      <4>2. f[k] = EvictTail(f[k - 1], n)
        BY <2>1, <3>2 DEF Loop
      <4> QED
        BY <3>2, <4>1, <4>2
    <3>3. CASE k = 0
      BY <2>1, <2>2, <3>3 DEF Loop
    <3> QED
      BY <3>1, <3>2, <3>3
  <2>4. Loop(g, d + 1, l, n)
    BY <2>2, <2>3 DEF Loop
  <2> QED
    BY <2>4
<1> HIDE DEF S
<1>3. S \in SUBSET Nat
  BY DEF S
<1>4. S = Nat
  BY <1>1, <1>2, <1>3, Induction
<1> QED
  BY <1>4 DEF S

LEMMA MakeRoomLoops ==
  ASSUME NEW l, NEW n
  PROVE  \E f : Loop(f, Cardinality(Names), l, n) /\ MakeRoom(l, n) = f[Cardinality(Names)]
<1> DEFINE C == Cardinality(Names)
           F == CHOOSE f : f = [k \in 0 .. C |-> IF k = 0 THEN l ELSE EvictTail(f[k - 1], n)]
<1>1. C \in Nat
  BY NamesAssumption, FS_CardinalityType
<1>2. MakeRoom(l, n) = F[C]
  BY DEF MakeRoom
<1> HIDE DEF C
<1>3. \E f : f = [k \in 0 .. C |-> IF k = 0 THEN l ELSE EvictTail(f[k - 1], n)]
  <2>1. PICK f : Loop(f, C, l, n)
    BY <1>1, LoopExists
  <2> QED
    BY <2>1 DEF Loop
<1>4. Loop(F, C, l, n)
  BY <1>3 DEF Loop
<1> HIDE DEF F
<1> QED
  BY <1>2, <1>4 DEF C

\* There are no more files in the cache than names.
LEMMA ListBound ==
  ASSUME NEW s \in Seq(Names), \A j, k \in 1 .. Len(s) : s[j] = s[k] => j = k
  PROVE  Len(s) <= Cardinality(Names) /\ Cardinality(Files(s)) = Len(s)
<1>1. Len(s) \in Nat /\ s \in [1 .. Len(s) -> Names]
  BY LenProperties
<1>2. s \in Injection(1 .. Len(s), Names)
  BY <1>1 DEF Injection, IsInjective
<1>3. Cardinality(1 .. Len(s)) = Len(s)
  <2>1. Cardinality(1 .. Len(s)) = IF 1 > Len(s) THEN 0 ELSE Len(s) - 1 + 1
    BY <1>1, FS_Interval
  <2> QED
    BY <1>1, <2>1
<1>4. Cardinality(1 .. Len(s)) <= Cardinality(Names)
  BY <1>2, FS_Injection, NamesAssumption
<1>5. s \in [1 .. Len(s) -> Files(s)]
  BY <1>1 DEF Files
<1>6. s \in Bijection(1 .. Len(s), Files(s))
  BY <1>5 DEF Bijection, Injection, Surjection, IsInjective, Files
<1>7. Cardinality(Files(s)) = Len(s)
  BY <1>1, <1>6, FS_CountingElements DEF ExistsBijection
<1> QED
  BY <1>3, <1>4, <1>7

Prefix(s, j) == SubSeq(s, 1, j)
TooMany(s, i, n) == Bytes(Files(Prefix(s, i))) + Size[n] > MaxBytes

LEMMA PrefixIs ==
  ASSUME NEW s \in Seq(Names), NEW j \in 0 .. Len(s)
  PROVE  Prefix(s, j) \in Seq(Names) /\ Len(Prefix(s, j)) = j
         /\ \A k \in 1 .. j : Prefix(s, j)[k] = s[k]
<1>0. Len(s) \in Nat /\ \A k \in 1 .. Len(s) : s[k] \in Names
  BY LenProperties
<1>1. PICK d : d = Prefix(s, j)
  OBVIOUS
<1>2. 1 \in Int /\ j \in Int /\ \A k \in 1 .. j : s[k] \in Names
  BY <1>0
<1>3. d \in Seq(Names) /\ Len(d) = (IF 1 <= j THEN j - 1 + 1 ELSE 0)
      /\ \A k \in 1 .. j - 1 + 1 : d[k] = s[1 + k - 1]
  BY <1>1, <1>2, SubSeqProperties DEF Prefix
<1>4. d \in Seq(Names) /\ Len(d) = j /\ \A k \in 1 .. j : d[k] = s[k]
  BY <1>0, <1>3
<1> QED
  BY <1>1, <1>4

LEMMA PrefixOfPrefix ==
  ASSUME NEW s \in Seq(Names), NEW j \in 0 .. Len(s), NEW i \in 0 .. j
  PROVE  Prefix(Prefix(s, j), i) = Prefix(s, i)
<1>0. Len(s) \in Nat
  BY LenProperties
<1>1. PICK d : d = Prefix(s, j)
  OBVIOUS
<1>2. d \in Seq(Names) /\ Len(d) = j /\ \A k \in 1 .. j : d[k] = s[k]
  BY <1>1, PrefixIs
<1>3. PICK e : e = Prefix(d, i)
  OBVIOUS
<1>4. e \in Seq(Names) /\ Len(e) = i /\ \A k \in 1 .. i : e[k] = d[k]
  BY <1>2, <1>3, PrefixIs
<1>5. PICK g : g = Prefix(s, i)
  OBVIOUS
<1>6. g \in Seq(Names) /\ Len(g) = i /\ \A k \in 1 .. i : g[k] = s[k]
  BY <1>0, <1>5, PrefixIs
<1>7. \A k \in 1 .. i : e[k] = g[k]
  BY <1>0, <1>2, <1>4, <1>6
<1>8. e = g
  BY <1>4, <1>6, <1>7, SeqEqual
<1> QED
  BY <1>1, <1>3, <1>5, <1>8

\* After k rounds the first j files are left, none of the others fits, and a
\* file has gone in every round unless n fits now.
Round(m, k, s, n) ==
  \E j \in 0 .. Len(s) :
    /\ Holds(m, Prefix(s, j))
    /\ \A i \in j + 1 .. Len(s) : TooMany(s, i, n)
    /\ j <= Len(s) - k \/ ~TooMany(s, j, n)

LEMMA RoundNext ==
  ASSUME NEW m, NEW k \in Nat, NEW s \in Seq(Names), NEW n \in Names, Round(m, k, s, n),
         Size[n] <= MaxBytes
  PROVE  Round(EvictTail(m, n), k + 1, s, n)
<1>0. Len(s) \in Nat
  BY LenProperties
<1>1. PICK j \in 0 .. Len(s) :
        /\ Holds(m, Prefix(s, j))
        /\ \A i \in j + 1 .. Len(s) : TooMany(s, i, n)
        /\ j <= Len(s) - k \/ ~TooMany(s, j, n)
  BY DEF Round
<1>2. Prefix(s, j) \in Seq(Names) /\ Len(Prefix(s, j)) = j
  BY PrefixIs
<1>3. m.curBytes = Bytes(Files(Prefix(s, j)))
  BY <1>1, Zenon DEF Holds
<1>4. m.tail = None <=> j = 0
  <2>1. PICK d : d = Prefix(s, j)
    OBVIOUS
  <2>2. m.tail = (IF Len(d) = 0 THEN None ELSE d[Len(d)]) /\ \A i \in 1 .. Len(d) : d[i] \in Names
    BY <1>1, <2>1, HoldsIs
  <2> QED
    BY <1>0, <1>2, <2>1, <2>2, NoneAssumption
<1>5. CASE TooMany(s, j, n) /\ j # 0
  <2>1. EvictTail(m, n) = EvictLocked(m, m.tail)
    BY <1>3, <1>4, <1>5 DEF EvictTail, TooMany
  <2>2. Holds(EvictLocked(m, m.tail), Prefix(Prefix(s, j), j - 1))
    BY <1>1, <1>2, <1>5, EvictHolds DEF Prefix
  <2>3. Prefix(Prefix(s, j), j - 1) = Prefix(s, j - 1)
    BY <1>5, PrefixOfPrefix
  <2>4. j - 1 \in 0 .. Len(s) /\ j - 1 <= Len(s) - (k + 1)
    BY <1>0, <1>1, <1>5
  <2>5. \A i \in (j - 1) + 1 .. Len(s) : TooMany(s, i, n)
    <3>1. \A i \in (j - 1) + 1 .. Len(s) : i = j \/ i \in j + 1 .. Len(s)
      BY <1>0
    <3> QED
      BY <1>1, <1>5, <3>1
  <2>6. Holds(EvictTail(m, n), Prefix(s, j - 1))
    BY <2>1, <2>2, <2>3
  <2> QED
    BY <2>4, <2>5, <2>6 DEF Round
<1>6. CASE TooMany(s, j, n) /\ j = 0
  <2>1. Files(Prefix(s, j)) = {}
    BY <1>2, <1>6 DEF Files
  <2> QED
    <3>1. Bytes(Files(Prefix(s, j))) = 0
      BY <2>1, BytesFacts
    <3>2. Size[n] \in Nat /\ MaxBytes \in Nat
      BY SizeAssumption
    <3> QED
      BY <1>6, <3>1, <3>2 DEF TooMany
<1>7. CASE ~TooMany(s, j, n)
  <2>1. EvictTail(m, n) = m
    BY <1>3, <1>7 DEF EvictTail, TooMany
  <2> QED
    BY <1>1, <1>7, <2>1 DEF Round
<1> QED
  BY <1>5, <1>6, <1>7

LEMMA RoomMade ==
  ASSUME NEW l, NEW s, Holds(l, s), NEW n \in Names, Size[n] <= MaxBytes
  PROVE  \E j \in 0 .. Len(s) :
           /\ Holds(MakeRoom(l, n), Prefix(s, j))
           /\ \A i \in j + 1 .. Len(s) : TooMany(s, i, n)
           /\ ~TooMany(s, j, n)
<1> DEFINE C == Cardinality(Names)
<1>0. C \in Nat /\ Len(s) \in Nat /\ s \in Seq(Names) /\ Len(s) <= C
  BY HoldsIs, ListBound, NamesAssumption, FS_CardinalityType
<1>1. PICK f : Loop(f, C, l, n) /\ MakeRoom(l, n) = f[C]
  BY MakeRoomLoops
<1> HIDE DEF C
<1> DEFINE S == {k \in Nat : k <= C => Round(f[k], k, s, n)}
<1>2. 0 \in S
  <2>1. f[0] = l
    BY <1>0, <1>1 DEF Loop
  <2>2. PICK d : d = Prefix(s, Len(s))
    OBVIOUS
  <2>3. d = s
    <3>0. PICK L \in 0 .. Len(s) : L = Len(s)
      BY <1>0
    <3>1. d \in Seq(Names) /\ Len(d) = L /\ \A k \in 1 .. L : d[k] = s[k]
      BY <1>0, <2>2, <3>0, PrefixIs
    <3> QED
      BY <1>0, <3>0, <3>1, SeqEqual
  <2>4. Holds(f[0], Prefix(s, Len(s)))
    BY <2>1, <2>2, <2>3
  <2>5. Round(f[0], 0, s, n)
    BY <1>0, <2>4 DEF Round
  <2> QED
    BY <2>5
<1>3. ASSUME NEW k \in S PROVE k + 1 \in S
  <2> SUFFICES ASSUME k + 1 <= C PROVE Round(f[k + 1], k + 1, s, n)
    BY <1>3
  <2>1. k \in Nat /\ Round(f[k], k, s, n)
    BY <1>0, <1>3
  <2>2. f[k + 1] = EvictTail(f[k], n)
    BY <1>0, <1>1, <2>1 DEF Loop
  <2> QED
    BY <1>0, <2>1, <2>2, RoundNext
<1> HIDE DEF S
<1>4. S = Nat
  <2>1. S \in SUBSET Nat
    BY DEF S
  <2> QED
    BY <1>2, <1>3, <2>1, Induction
<1>5. Round(f[C], C, s, n)
  BY <1>0, <1>4 DEF S
<1>6. PICK j \in 0 .. Len(s) :
        /\ Holds(f[C], Prefix(s, j))
        /\ \A i \in j + 1 .. Len(s) : TooMany(s, i, n)
        /\ j <= Len(s) - C \/ ~TooMany(s, j, n)
  BY <1>5 DEF Round
<1>7. ~TooMany(s, j, n)
  <2>1. CASE j = 0
    <3>1. Files(Prefix(s, j)) = {}
      <4>1. Len(Prefix(s, j)) = 0
        BY <1>0, <2>1, PrefixIs
      <4> QED
        BY <4>1 DEF Files
    <3> QED
      BY <3>1, BytesFacts, SizeAssumption DEF TooMany
  <2> QED
    BY <1>0, <1>6, <2>1
<1> QED
  BY <1>1, <1>6, <1>7

\* A file that is added comes first, before the longest prefix that leaves room.
LEMMA AddHolds ==
  ASSUME NEW l, NEW s, Holds(l, s), NEW n \in Names, n \notin l.entries, Size[n] <= MaxBytes
  PROVE  \E j \in 0 .. Len(s) :
           /\ Holds(AddLocked(l, n), <<n>> \o Prefix(s, j))
           /\ \A i \in j + 1 .. Len(s) : TooMany(s, i, n)
           /\ ~TooMany(s, j, n)
           /\ AddLocked(l, n).curBytes <= MaxBytes
<1>0. Len(s) \in Nat /\ s \in Seq(Names) /\ n \notin Files(s)
  BY HoldsIs DEF Holds
<1>1. PICK j \in 0 .. Len(s) :
        /\ Holds(MakeRoom(l, n), Prefix(s, j))
        /\ \A i \in j + 1 .. Len(s) : TooMany(s, i, n)
        /\ ~TooMany(s, j, n)
  BY RoomMade
<1>2. PICK d : d = Prefix(s, j)
  OBVIOUS
<1>3. d \in Seq(Names) /\ Len(d) = j /\ \A k \in 1 .. j : d[k] = s[k]
  BY <1>0, <1>2, PrefixIs
<1>4. \A k \in 1 .. Len(d) : d[k] # n
  BY <1>0, <1>3 DEF Files
<1>5. PICK m : m = MakeRoom(l, n)
  OBVIOUS
<1>6. Holds(m, d)
  BY <1>1, <1>2, <1>5
<1>7. m \in Record /\ List(d, Len(d), m.head, m.tail, m.prev, m.next)
      /\ m.entries = Files(d) /\ m.curBytes = Bytes(m.entries)
  BY <1>6 DEF Holds
<1>8. PICK e : e = <<n>> \o d
  OBVIOUS
<1>9. e \in Seq(Names) /\ Len(e) = Len(d) + 1 /\ Pushed(d, Len(d), n, e)
  BY <1>3, <1>8, PushIs
<1>10. Files(e) = Files(d) \cup {n}
  BY <1>3, <1>9, FilesPushed
<1>11. PICK pp, nn, tt :
         /\ pp = SetAt([m.prev EXCEPT ![n] = None], m.head, n)
         /\ nn = [m.next EXCEPT ![n] = m.head]
         /\ tt = IF m.tail = None THEN n ELSE m.tail
  OBVIOUS
<1>12. Pushes(n, m.head, m.tail, m.prev, m.next, n, tt, pp, nn)
  BY <1>11 DEF Pushes
<1>13. List(e, Len(d) + 1, n, tt, pp, nn)
  BY <1>4, <1>7, <1>9, <1>12, PushedList
<1>14. PICK b, en : b = m.curBytes + Size[n] /\ en = m.entries \cup {n}
  OBVIOUS
<1>15. b = Bytes(en) /\ en \in SUBSET Names /\ b \in Int /\ en = Files(e)
  <2>1. n \notin m.entries /\ m.entries \in SUBSET Names
    BY <1>4, <1>7 DEF Files, Record
  <2>2. en \in SUBSET Names /\ n \in en /\ en \ {n} = m.entries
    BY <1>14, <2>1
  <2>3. Bytes(en) = Size[n] + Bytes(en \ {n}) /\ Bytes(m.entries) \in Nat
    BY <2>1, <2>2, BytesFacts
  <2>4. Size[n] \in Nat
    BY SizeAssumption
  <2>5. Bytes(en) = Size[n] + m.curBytes /\ m.curBytes \in Nat
    BY <1>7, <2>2, <2>3
  <2> QED
    BY <1>7, <1>10, <1>14, <2>2, <2>4, <2>5
<1>16. b <= MaxBytes
  <2>1. Bytes(Files(d)) + Size[n] <= MaxBytes
    <3>1. Files(d) \in SUBSET Names
      BY <1>3 DEF Files
    <3> QED
      BY <1>1, <1>2, <3>1, BytesFacts, SizeAssumption DEF TooMany
  <2> QED
    BY <1>7, <1>14, <2>1
<1>17. PICK p : p = PushFront(m, n)
  OBVIOUS
<1>18. p = [m EXCEPT !.prev = pp, !.next = nn, !.head = n]
  BY <1>11, <1>17, Zenon DEF PushFront
<1>19. p.tail = m.tail /\ p.entries = m.entries /\ p.curBytes = m.curBytes
       /\ p \in [entries : {m.entries}, curBytes : {m.curBytes}, head : {n}, tail : {m.tail}, prev : {pp}, next : {nn}]
  BY <1>7, <1>18 DEF Record
<1>20. PICK r : r = [p EXCEPT !.entries = en, !.curBytes = b, !.tail = tt]
  OBVIOUS
<1>21. r = AddLocked(l, n)
  <2>1. /\ en = p.entries \cup {n} /\ b = p.curBytes + Size[n]
        /\ tt = IF p.tail = None THEN n ELSE p.tail
    BY <1>11, <1>14, <1>19
  <2>2. r = [p EXCEPT !.entries = @ \cup {n}, !.curBytes = @ + Size[n],
                      !.tail = IF @ = None THEN n ELSE @]
    BY <1>20, <2>1, Zenon
  <2> QED
    BY <1>5, <1>17, <2>2, Zenon DEF AddLocked
<1>22. /\ r.entries = en /\ r.curBytes = b /\ r.head = n /\ r.tail = tt /\ r.prev = pp /\ r.next = nn
       /\ r \in [entries : {en}, curBytes : {b}, head : {n}, tail : {tt}, prev : {pp}, next : {nn}]
  BY <1>19, <1>20, <1>18, <1>7
<1>23. pp \in [Names -> Node] /\ nn \in [Names -> Node] /\ tt \in Node /\ n \in Node
  <2>1. pp \in [Names -> Node] /\ nn \in [Names -> Node]
    BY <1>13 DEF List
  <2>2. m.tail \in Node
    BY <1>7 DEF Record
  <2> QED
    BY <1>11, <2>1, <2>2 DEF Node
<1>24. r \in Record
  BY <1>15, <1>22, <1>23 DEF Record
<1>25. List(e, Len(d) + 1, r.head, r.tail, r.prev, r.next)
  BY <1>13, <1>22
<1>26. Holds(r, e)
  BY <1>9, <1>15, <1>22, <1>24, <1>25, HoldsAgain
<1> QED
  BY <1>1, <1>2, <1>8, <1>16, <1>21, <1>22, <1>26

-----------------------------------------------------------------------------
\* The list that Order reads off the pointers is the one that is held.
LEMMA OrderIs ==
  ASSUME NEW l, NEW s, Holds(l, s)
  PROVE  Order(l) = s
<1> DEFINE N == Cardinality(l.entries)
           Path(f) == f = [k \in 1 .. N |-> IF k = 1 THEN l.head ELSE l.next[f[k - 1]]]
           node == CHOOSE f : Path(f)
<1>1. /\ N = Len(s) /\ Len(s) \in Nat /\ s \in Seq(Names)
      /\ l.head = IF Len(s) = 0 THEN None ELSE s[1]
      /\ \A k \in 1 .. Len(s) : l.next[s[k]] = IF k = Len(s) THEN None ELSE s[k + 1]
  <2>1. l.entries = Files(s)
    BY DEF Holds
  <2> QED
    BY <2>1, HoldsIs, ListBound
<1>2. Order(l) = [k \in 1 .. N |-> node[k]]
  BY DEF Order
<1> HIDE DEF N
<1>3. s = [k \in 1 .. N |-> s[k]]
  BY <1>1, LenProperties
<1>4. Path(s)
  <2>1. ASSUME NEW k \in 1 .. N PROVE s[k] = IF k = 1 THEN l.head ELSE l.next[s[k - 1]]
    <3>1. CASE k # 1
      <4>1. k - 1 \in 1 .. Len(s) /\ k - 1 # Len(s) /\ (k - 1) + 1 = k
        BY <1>1, <3>1
      <4> QED
        BY <1>1, <3>1, <4>1
    <3> QED
      BY <1>1, <3>1
  <2> QED
    BY <1>3, <2>1
<1>5. Path(node)
  <2>1. \E f : Path(f)
    BY <1>4
  <2> HIDE DEF Path
  <2> QED
    BY <2>1
<1> HIDE DEF node
<1> DEFINE S == {k \in Nat : k + 1 \in 1 .. N => node[k + 1] = s[k + 1]}
<1>6. 0 \in S
  <2> SUFFICES ASSUME 1 \in 1 .. N PROVE node[1] = s[1]
    OBVIOUS
  <2>1. s[1] = l.head
    BY <1>1
  <2>2. node[1] = l.head
    BY <1>5
  <2> QED
    BY <2>1, <2>2
<1>7. ASSUME NEW k \in S PROVE k + 1 \in S
  <2> SUFFICES ASSUME k + 2 \in 1 .. N PROVE node[k + 2] = s[k + 2]
    BY <1>7
  <2>1. node[k + 1] = s[k + 1] /\ k \in Nat
    BY <1>1, <1>7
  <2>2. node[k + 2] = l.next[node[k + 1]]
    BY <1>1, <1>5, <2>1
  <2>3. s[k + 2] = l.next[s[k + 1]]
    <3>1. k + 1 \in 1 .. Len(s) /\ k + 1 # Len(s) /\ (k + 1) + 1 = k + 2
      BY <1>1, <2>1
    <3> QED
      BY <1>1, <3>1
  <2> QED
    BY <2>1, <2>2, <2>3
<1>8. S = Nat
  <2>1. S \in SUBSET Nat
    OBVIOUS
  <2> HIDE DEF S
  <2> QED
    BY <1>6, <1>7, <2>1, Induction
<1>9. ASSUME NEW k \in 1 .. N PROVE node[k] = s[k]
  <2>1. k - 1 \in Nat /\ (k - 1) + 1 = k
    BY <1>1
  <2>2. k - 1 \in S
    <3> HIDE DEF S
    <3> QED
      BY <1>8, <2>1
  <2> QED
    BY <2>1, <2>2
<1> QED
  BY <1>2, <1>3, <1>9

-----------------------------------------------------------------------------
\* The inductive invariant: the record is the cache of some files, and goroutines
\* that have read a file may cache it.
Procedures ==
  /\ pc \in [Procs -> {"idle", "miss", "read"}]
  /\ name \in [Procs -> Node]
  /\ \A p \in Procs : pc[p] = "miss" => name[p] \in Names
  /\ \A p \in Procs : pc[p] = "read" => name[p] \in Names /\ Cacheable(name[p])
LruInv ==
  /\ \E s : Holds(lru, s)
  /\ lru.curBytes <= MaxBytes
  /\ Procedures

LEMMA EmptyHolds == Holds(Empty, <<>>) /\ Empty.curBytes = 0 /\ Order(Empty) = <<>>
<1>1. Empty \in Record
  BY SizeAssumption DEF Empty, Record, Node
<1>2. List(<<>>, 0, None, None, Empty.prev, Empty.next)
  BY <1>1 DEF List, Record
<1>3. Files(<<>>) = {}
  BY DEF Files
<1>4. Empty.entries = {} /\ Empty.curBytes = 0 /\ Empty.head = None /\ Empty.tail = None
  BY DEF Empty
<1>5. Holds(Empty, <<>>)
  <2>1. <<>> \in Seq(Names) /\ Len(<<>>) = 0
    OBVIOUS
  <2>2. Empty.curBytes = Bytes(Empty.entries)
    BY <1>4, BytesFacts
  <2>3. List(<<>>, 0, Empty.head, Empty.tail, Empty.prev, Empty.next)
    BY <1>2, <1>4
  <2> QED
    BY <1>1, <1>3, <1>4, <2>1, <2>2, <2>3, HoldsAgain
<1> QED
  BY <1>4, <1>5, OrderIs

\* A touch does not change what is counted.
LEMMA TouchCounts ==
  ASSUME NEW l, NEW s, Holds(l, s), NEW n \in l.entries
  PROVE  \E i \in 1 .. Len(s) :
           /\ s[i] = n
           /\ Holds(TouchLocked(l, n), <<n>> \o RC!RemoveAt(s, i))
           /\ TouchLocked(l, n).curBytes = l.curBytes
<1>1. PICK i \in 1 .. Len(s) : s[i] = n
  BY DEF Holds, Files
<1>2. Holds(TouchLocked(l, n), <<n>> \o RC!RemoveAt(s, i))
  BY <1>1, TouchHolds
<1>3. PICK tt, nn, pp : TouchLocked(l, n) = l \/
        TouchLocked(l, n) = PushFront([l EXCEPT !.next = nn, !.prev = pp, !.tail = tt], n)
  BY Zenon DEF TouchLocked
<1>4. l \in Record
  BY DEF Holds
<1>5. TouchLocked(l, n).curBytes = l.curBytes
  <2>1. PICK m : m = [l EXCEPT !.next = nn, !.prev = pp, !.tail = tt]
    OBVIOUS
  <2>2. m.curBytes = l.curBytes /\ m \in [entries : SUBSET Names, curBytes : Int, head : Node, tail : {tt}, prev : {pp}, next : {nn}]
    BY <1>4, <2>1 DEF Record
  <2>3. PushFront(m, n).curBytes = m.curBytes
    BY <2>2 DEF PushFront
  <2> QED
    BY <1>3, <2>1, <2>2, <2>3
<1> QED
  BY <1>1, <1>2, <1>5

\* What a locked section does to the cache.
Hits(l, s, n, r) ==
  \E i \in 1 .. Len(s) : s[i] = n /\ Holds(r, <<n>> \o RC!RemoveAt(s, i))
Inserts(l, s, n, r) ==
  /\ n \notin Files(s)
  /\ \E j \in 0 .. Len(s) :
       /\ Holds(r, <<n>> \o Prefix(s, j))
       /\ \A i \in j + 1 .. Len(s) : TooMany(s, i, n)
       /\ ~TooMany(s, j, n)

LEMMA RecheckDoes ==
  ASSUME NEW l, NEW s, Holds(l, s), NEW n \in Names, Size[n] <= MaxBytes, l.curBytes <= MaxBytes
  PROVE  /\ Hits(l, s, n, Recheck(l, n)) \/ Inserts(l, s, n, Recheck(l, n))
         /\ Recheck(l, n).curBytes <= MaxBytes
<1>1. CASE n \in l.entries
  BY <1>1, TouchCounts DEF Recheck, Hits
<1>2. CASE n \notin l.entries
  <2>1. n \notin Files(s)
    BY <1>2 DEF Holds
  <2> QED
    BY <1>2, <2>1, AddHolds DEF Recheck, Inserts
<1> QED
  BY <1>1, <1>2

-----------------------------------------------------------------------------
\* One step of the cache as its promise has it.
Moves(l, r) ==
  \E s, n :
    /\ Holds(l, s)
    /\ n \in Names
    /\ Hits(l, s, n, r) \/ (Size[n] <= MaxBytes /\ Inserts(l, s, n, r))

LEMMA HoldsAfter ==
  ASSUME NEW l, NEW r, Moves(l, r)
  PROVE  \E s : Holds(r, s)
BY DEF Moves, Hits, Inserts

LEMMA LookupInv ==
  ASSUME LruInv, NEW p \in Procs, NEW n \in Names, Lookup(p, n)
  PROVE  LruInv' /\ (lru' = lru \/ Moves(lru, lru'))
<1>1. PICK s : Holds(lru, s)
  BY DEF LruInv
<1>2. CASE n \in lru.entries
  <2>1. lru' = TouchLocked(lru, n) /\ UNCHANGED <<pc, name>>
    BY <1>2 DEF Lookup
  <2>2. Hits(lru, s, n, lru') /\ lru'.curBytes = lru.curBytes
    BY <1>1, <1>2, <2>1, TouchCounts DEF Hits
  <2>3. Moves(lru, lru')
    BY <1>1, <2>2 DEF Moves
  <2> QED
    BY <2>1, <2>2, <2>3, HoldsAfter DEF LruInv, Procedures
<1>3. CASE n \notin lru.entries
  <2>1. lru' = lru /\ pc' = [pc EXCEPT ![p] = "miss"] /\ name' = [name EXCEPT ![p] = n]
    BY <1>3 DEF Lookup
  <2>2. Procedures'
    BY <2>1 DEF LruInv, Procedures, Node
  <2> QED
    BY <2>1, <2>2 DEF LruInv
<1> QED
  BY <1>2, <1>3

LEMMA ReadInv ==
  ASSUME LruInv, NEW p \in Procs, Read(p)
  PROVE  LruInv' /\ lru' = lru
<1>1. lru' = lru
  BY DEF Read
<1>2. CASE Idle(p)
  BY <1>1, <1>2 DEF Idle, LruInv, Procedures, Node
<1>3. CASE Cacheable(name[p]) /\ pc' = [pc EXCEPT ![p] = "read"] /\ UNCHANGED name
  BY <1>1, <1>3 DEF Read, LruInv, Procedures, Node
<1> QED
  BY <1>1, <1>2, <1>3 DEF Read

LEMMA AddInv ==
  ASSUME LruInv, NEW p \in Procs, Add(p)
  PROVE  LruInv' /\ Moves(lru, lru')
<1>1. PICK s : Holds(lru, s)
  BY DEF LruInv
<1>2. PICK n : n = name[p]
  OBVIOUS
<1>3. n \in Names /\ Size[n] <= MaxBytes /\ lru.curBytes <= MaxBytes /\ lru' = Recheck(lru, n)
  BY <1>2 DEF LruInv, Procedures, Add, Cacheable
<1>4. /\ Hits(lru, s, n, lru') \/ Inserts(lru, s, n, lru')
      /\ lru'.curBytes <= MaxBytes
  BY <1>1, <1>3, RecheckDoes
<1>5. Moves(lru, lru')
  BY <1>1, <1>3, <1>4 DEF Moves
<1>6. Procedures'
  BY DEF Add, Idle, LruInv, Procedures, Node
<1> QED
  BY <1>4, <1>5, <1>6, HoldsAfter DEF LruInv

LEMMA LruNext ==
  ASSUME LruInv, [Next]_vars
  PROVE  LruInv' /\ (lru' = lru \/ Moves(lru, lru'))
<1>1. CASE UNCHANGED vars
  BY <1>1 DEF vars, LruInv, Procedures
<1> QED
  BY <1>1, LookupInv, ReadInv, AddInv DEF Next

LEMMA LruInit == Init => LruInv
BY EmptyHolds, SizeAssumption DEF Init, LruInv, Procedures, Node

LEMMA LruAlways == Spec => []LruInv
<1>1. LruInv /\ [Next]_vars => LruInv'
  BY LruNext
<1> QED
  BY <1>1, LruInit, PTL DEF Spec

\* Type correctness: whatever goroutines do, the fields of the cache are files, and a
\* goroutine caches only what fits (lrucache.go).
THEOREM LruTyped == Spec => []TypeOK
<1>1. LruInv => TypeOK
  BY DEF LruInv, Procedures, TypeOK, Holds, Record, Node, Cacheable
<1> QED
  BY <1>1, LruAlways, PTL

\* However goroutines that read the same files overlap, curBytes is what the cached
\* files take, and never more than read_cache_size (addLocked, evictLocked).
THEOREM BytesStayAccounted == Spec => []BytesAccounted
<1>1. LruInv => BytesAccounted
  BY DEF LruInv, BytesAccounted, Holds
<1> QED
  BY <1>1, LruAlways, PTL

\* The map and the list never disagree: its ends and the pointers in both directions
\* are those of the cached files (touchLocked, evictLocked, addLocked).
THEOREM ListStaysConsistent == Spec => []ListConsistent
<1>1. ASSUME NEW s, Holds(lru, s) PROVE ListConsistent
  <2>1. /\ Len(s) \in Nat
        /\ \A k \in 1 .. Len(s) : s[k] \in Names
        /\ \A j, k \in 1 .. Len(s) : s[j] = s[k] => j = k
        /\ lru.head = IF Len(s) = 0 THEN None ELSE s[1]
        /\ lru.tail = IF Len(s) = 0 THEN None ELSE s[Len(s)]
        /\ \A k \in 1 .. Len(s) : lru.prev[s[k]] = IF k = 1 THEN None ELSE s[k - 1]
        /\ \A k \in 1 .. Len(s) : lru.next[s[k]] = IF k = Len(s) THEN None ELSE s[k + 1]
    BY <1>1, HoldsIs
  <2>2. lru.entries = {s[k] : k \in 1 .. Len(s)}
    BY <1>1 DEF Holds, Files
  <2>3. /\ lru.head = None <=> lru.entries = {}
        /\ lru.tail = None <=> lru.entries = {}
        /\ {lru.head, lru.tail} \subseteq lru.entries \cup {None}
    <3>1. CASE Len(s) = 0
      <4>1. lru.entries = {}
        BY <2>2, <3>1
      <4> QED
        BY <2>1, <3>1, <4>1
    <3>2. CASE Len(s) # 0
      <4>1. 1 \in 1 .. Len(s) /\ Len(s) \in 1 .. Len(s)
        BY <2>1, <3>2
      <4>2. lru.head = s[1] /\ lru.tail = s[Len(s)] /\ s[1] \in lru.entries /\ s[Len(s)] \in lru.entries
        BY <2>1, <2>2, <3>2, <4>1
      <4>3. lru.head # None /\ lru.tail # None
        BY <2>1, <4>1, <4>2, NoneAssumption
      <4> QED
        BY <4>2, <4>3
    <3> QED
      BY <3>1, <3>2
  <2>4. ASSUME NEW k \in 1 .. Len(s)
        PROVE  IF s[k] = lru.head THEN lru.prev[s[k]] = None
               ELSE /\ lru.prev[s[k]] \in lru.entries
                    /\ lru.next[lru.prev[s[k]]] = s[k]
    <3>1. s[k] = lru.head <=> k = 1
      BY <2>1
    <3>2. CASE k = 1
      BY <2>1, <3>1, <3>2
    <3>3. CASE k # 1
      <4>1. k - 1 \in 1 .. Len(s) /\ k - 1 # Len(s) /\ (k - 1) + 1 = k
        BY <2>1, <3>3
      <4>2. lru.prev[s[k]] = s[k - 1] /\ lru.next[s[k - 1]] = s[k] /\ s[k - 1] \in lru.entries
        BY <2>1, <2>2, <3>3, <4>1
      <4> QED
        BY <3>1, <3>3, <4>2
    <3> QED
      BY <3>2, <3>3
  <2>5. ASSUME NEW k \in 1 .. Len(s)
        PROVE  IF s[k] = lru.tail THEN lru.next[s[k]] = None
               ELSE /\ lru.next[s[k]] \in lru.entries
                    /\ lru.prev[lru.next[s[k]]] = s[k]
    <3>1. s[k] = lru.tail <=> k = Len(s)
      BY <2>1
    <3>2. CASE k = Len(s)
      BY <2>1, <3>1, <3>2
    <3>3. CASE k # Len(s)
      <4>1. k + 1 \in 1 .. Len(s) /\ k + 1 # 1 /\ (k + 1) - 1 = k
        BY <2>1, <3>3
      <4>2. lru.next[s[k]] = s[k + 1] /\ lru.prev[s[k + 1]] = s[k] /\ s[k + 1] \in lru.entries
        BY <2>1, <2>2, <3>3, <4>1
      <4> QED
        BY <3>1, <3>3, <4>2
    <3> QED
      BY <3>2, <3>3
  <2>6. ASSUME NEW n \in lru.entries
        PROVE  /\ IF n = lru.head THEN lru.prev[n] = None
                  ELSE /\ lru.prev[n] \in lru.entries
                       /\ lru.next[lru.prev[n]] = n /\ lru.prev[n] = lru.prev[n]
               /\ IF n = lru.tail THEN lru.next[n] = None
                  ELSE /\ lru.next[n] \in lru.entries
                       /\ lru.next[n] = lru.next[n] /\ lru.prev[lru.next[n]] = n
    <3>1. PICK k \in 1 .. Len(s) : n = s[k]
      BY <2>2
    <3> QED
      BY <3>1, <2>4, <2>5
  <2> QED
    BY <2>3, <2>6 DEF ListConsistent
<1>2. LruInv => ListConsistent
  BY <1>1 DEF LruInv
<1> QED
  BY <1>2, LruAlways, PTL

-----------------------------------------------------------------------------
\* The refinement: the list of the cache, read from head to tail, is the recency
\* order of ReadCache.

\* RC!Bytes is a definition of another instance of the same fold.
LEMMA Bridge == ASSUME NEW S PROVE RC!Bytes(S) = Bytes(S)
BY Zenon DEF RC!Bytes, Bytes, RC!MapThenSumSet, MapThenSumSet, RC!MapThenFoldSet, MapThenFoldSet

LEMMA FilesAre == ASSUME NEW e \in Seq(Names) PROVE RC!ToSet(e) = Files(e) /\ Files(e) \in SUBSET Names
<1>1. DOMAIN e = 1 .. Len(e) /\ \A k \in 1 .. Len(e) : e[k] \in Names
  BY LenProperties
<1> QED
  BY <1>1 DEF RC!ToSet, Files

\* Making room keeps the longest prefix that leaves room.
LEMMA KeptIs ==
  ASSUME Holds(lru, Order(lru)), NEW n \in Names, NEW j \in 0 .. Len(Order(lru)),
         \A i \in j + 1 .. Len(Order(lru)) : TooMany(Order(lru), i, n),
         ~TooMany(Order(lru), j, n)
  PROVE  RC!Kept(n) = Prefix(Order(lru), j)
<1> DEFINE s == Order(lru)
<1>1. Len(s) \in Nat /\ s \in Seq(Names)
  BY HoldsIs
<1>2. ASSUME NEW k \in 0 .. Len(s)
      PROVE  /\ RC!Bytes(RC!ToSet(SubSeq(s, 1, k))) = Bytes(Files(Prefix(s, k)))
             /\ Bytes(Files(Prefix(s, k))) \in Nat
  <2>1. Prefix(s, k) \in Seq(Names)
    BY <1>1, PrefixIs
  <2>2. RC!ToSet(Prefix(s, k)) = Files(Prefix(s, k)) /\ Files(Prefix(s, k)) \in SUBSET Names
    BY <2>1, FilesAre
  <2> QED
    BY <2>2, Bridge, BytesFacts DEF Prefix
<1> DEFINE fits == {k \in 0 .. Len(s) : RC!Bytes(RC!ToSet(SubSeq(s, 1, k))) + Size[n] <= MaxBytes}
<1>3. ASSUME NEW k \in 0 .. Len(s) PROVE k \in fits <=> ~TooMany(s, k, n)
  BY <1>2, SizeAssumption DEF TooMany
<1>4. RC!Kept(n) = SubSeq(s, 1, CHOOSE k \in fits : \A i \in fits : i <= k)
  BY DEF RC!Kept
<1>5. j \in fits /\ \A i \in fits : i <= j
  <2>1. ASSUME NEW i \in fits, ~(i <= j) PROVE FALSE
    <3>1. i \in 0 .. Len(s) /\ ~TooMany(s, i, n)
      BY <1>3
    <3>2. i \in j + 1 .. Len(s)
      BY <1>1, <2>1, <3>1
    <3> QED
      BY <3>1, <3>2
  <2> QED
    BY <1>3, <2>1
<1>6. fits \subseteq Nat
  BY <1>1
<1> HIDE DEF fits
<1>7. (CHOOSE k \in fits : \A i \in fits : i <= k) = j
  <2>1. PICK m : m = CHOOSE k \in fits : \A i \in fits : i <= k
    OBVIOUS
  <2>2. m \in fits /\ \A i \in fits : i <= m
    BY <1>5, <2>1
  <2> QED
    BY <1>5, <1>6, <2>1, <2>2
<1> QED
  BY <1>4, <1>7 DEF Prefix

LEMMA MoveRefines ==
  ASSUME Moves(lru, lru')
  PROVE  RC!Next
<1>1. PICK s, n : /\ Holds(lru, s)
                  /\ n \in Names
                  /\ Hits(lru, s, n, lru') \/ (Size[n] <= MaxBytes /\ Inserts(lru, s, n, lru'))
  BY DEF Moves
<1>2. Order(lru) = s
  BY <1>1, OrderIs
<1>3. CASE Hits(lru, s, n, lru')
  <2>1. PICK i \in 1 .. Len(s) : s[i] = n /\ Holds(lru', <<n>> \o RC!RemoveAt(s, i))
    BY <1>3 DEF Hits
  <2>2. Order(lru') = <<n>> \o RC!RemoveAt(s, i)
    BY <2>1, OrderIs
  <2>3. RC!Hit(n)
    BY <1>2, <2>1, <2>2 DEF RC!Hit
  <2> QED
    BY <1>1, <2>3 DEF RC!Next
<1>4. CASE Size[n] <= MaxBytes /\ Inserts(lru, s, n, lru')
  <2>1. PICK j \in 0 .. Len(s) :
          /\ Holds(lru', <<n>> \o Prefix(s, j))
          /\ \A i \in j + 1 .. Len(s) : TooMany(s, i, n)
          /\ ~TooMany(s, j, n)
    BY <1>4 DEF Inserts
  <2>2. Order(lru') = <<n>> \o Prefix(s, j)
    BY <2>1, OrderIs
  <2>3. RC!Kept(n) = Prefix(s, j)
    BY <1>1, <1>2, <2>1, KeptIs
  <2>4. ~RC!Contains(Order(lru), n)
    BY <1>2, <1>4, Zenon DEF Inserts, Files, RC!Contains
  <2>5. RC!Insert(n)
    BY <1>2, <1>4, <2>2, <2>3, <2>4 DEF RC!Insert
  <2> QED
    BY <1>1, <2>5 DEF RC!Next
<1> QED
  BY <1>1, <1>3, <1>4

\* However goroutines that read the same files overlap, and whatever they evict, the
\* map and the list are an LRU cache: a hit moves a file to the front, an insertion
\* drops the least recently used files and no more of them than it must.
THEOREM ImplementsReadCache == Spec => ReadCacheSpec
<1>1. Init => RC!Init
  BY EmptyHolds DEF Init, RC!Init
<1>2. LruInv /\ [Next]_vars => [RC!Next]_(Order(lru))
  <2> SUFFICES ASSUME LruInv, [Next]_vars PROVE RC!Next \/ Order(lru)' = Order(lru)
    OBVIOUS
  <2>1. lru' = lru \/ Moves(lru, lru')
    BY LruNext
  <2>2. CASE lru' = lru
    BY <2>2 DEF Order
  <2>3. CASE Moves(lru, lru')
    BY <2>3, MoveRefines
  <2> QED
    BY <2>1, <2>2, <2>3
<1> QED
  BY <1>1, <1>2, LruAlways, PTL DEF Spec, ReadCacheSpec, RC!Spec
=============================================================================
