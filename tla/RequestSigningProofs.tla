------------------------ MODULE RequestSigningProofs ------------------------
(***************************************************************************)
(* Proofs about RequestSigning, for any bound on the list, any headers,    *)
(* values, queries and lengths: the list loses no header, query signing    *)
(* has room for what it accepts, and the receiver accepts what was signed. *)
(*                                                                         *)
(* None of the three is inductive.  NoHeaderLost needs that the list is    *)
(* sorted and that no two of its headers are one allocation (SoundList);   *)
(* Verifies needs what was true when the signature was made and still is   *)
(* when the list goes to curl: the headers added behind the signature are  *)
(* not among the canonical ones (CanonicalKept), and the query of a signed *)
(* URL is encoded and sorted by its texts (CanonicalQueryFacts).  That the *)
(* receiver's order is the signer's is a fact about orders: a finite set   *)
(* is listed in one way only (InOrderUnique), so it is enough that what    *)
(* was signed is in the receiver's order (HeadersAreReceived,              *)
(* ReceiverKeepsOrder).                                                    *)
(***************************************************************************)
EXTENDS RequestSigning, FiniteSetTheorems, SequenceTheorems, TLAPS

-----------------------------------------------------------------------------
(* Least members, and finite sets in order.                                *)

(* A set of numbers that is not empty has a least member.                  *)
LEMMA LeastMember ==
  ASSUME NEW S \in SUBSET Nat, S # {}
  PROVE  First(S) \in S /\ \A j \in S : First(S) <= j
  <1> DEFINE R == OpToRel(<, Nat)
  <1>1. PICK x \in S : \A y \in S : ~(<<y, x>> \in R)
    <2>1. IsWellFoundedOn(R, Nat)
      BY NatLessThanWellFounded, ZenonT(30)
    <2> HIDE DEF R
    <2> QED BY <2>1, WFMin
  <1>2. \A y \in S : x <= y
    <2> TAKE y \in S
    <2>1. x \in Nat /\ y \in Nat
      OBVIOUS
    <2>2. ~(y < x)
      BY <1>1, <2>1 DEF OpToRel
    <2> QED BY <2>1, <2>2
  <1> QED BY <1>1, <1>2, ZenonT(30) DEF First

(* How many numbers there are up to m.                                     *)
LEMMA UpTo ==
  ASSUME NEW m \in Nat
  PROVE  IsFiniteSet(1..m) /\ Cardinality(1..m) = m
  <1>1. IsFiniteSet(1..m) /\ Cardinality(1..m) = IF 1 > m THEN 0 ELSE m - 1 + 1
    BY FS_Interval
  <1> QED BY <1>1

(* "before" is a strict total order on S.                                  *)
StrictOrder(S, before) ==
  /\ \A x \in S : <<x, x>> \notin before
  /\ \A x, y \in S : x # y => <<x, y>> \in before \/ <<y, x>> \in before
  /\ \A x, y, z \in S : <<x, y>> \in before /\ <<y, z>> \in before => <<x, z>> \in before

(* How many come before a member: less for the one that comes first.       *)
LEMMA Counting ==
  ASSUME NEW S, IsFiniteSet(S), NEW before, StrictOrder(S, before)
  PROVE  /\ Cardinality(S) \in Nat
         /\ \A x \in S : Cardinality(Ahead(S, before, x)) \in 0..(Cardinality(S) - 1)
         /\ \A x, y \in S : <<x, y>> \in before =>
              Cardinality(Ahead(S, before, x)) < Cardinality(Ahead(S, before, y))
  <1>1. Cardinality(S) \in Nat
    BY FS_CardinalityType
  <1>2. ASSUME NEW x \in S
        PROVE  /\ IsFiniteSet(Ahead(S, before, x))
               /\ Cardinality(Ahead(S, before, x)) \in 0..(Cardinality(S) - 1)
    <2>1. Ahead(S, before, x) \in SUBSET (S \ {x})
      BY DEF StrictOrder, Ahead
    <2>2. IsFiniteSet(S \ {x}) /\ Cardinality(S \ {x}) = Cardinality(S) - 1
      BY FS_RemoveElement
    <2>3. IsFiniteSet(Ahead(S, before, x))
          /\ Cardinality(Ahead(S, before, x)) <= Cardinality(S) - 1
      BY <2>1, <2>2, FS_Subset
    <2>4. Cardinality(Ahead(S, before, x)) \in Nat
      BY <2>3, FS_CardinalityType
    <2> QED BY <1>1, <2>3, <2>4
  <1>3. ASSUME NEW x \in S, NEW y \in S, <<x, y>> \in before
        PROVE  Cardinality(Ahead(S, before, x)) < Cardinality(Ahead(S, before, y))
    <2>1. Ahead(S, before, x) \in SUBSET Ahead(S, before, y)
      BY <1>3 DEF StrictOrder, Ahead
    <2>2. x \in Ahead(S, before, y) /\ x \notin Ahead(S, before, x)
      BY <1>3 DEF StrictOrder, Ahead
    <2>3. /\ Cardinality(Ahead(S, before, x)) <= Cardinality(Ahead(S, before, y))
          /\ Cardinality(Ahead(S, before, x)) # Cardinality(Ahead(S, before, y))
      BY <1>2, <2>1, <2>2, FS_Subset
    <2>4. Cardinality(Ahead(S, before, x)) \in Nat /\ Cardinality(Ahead(S, before, y)) \in Nat
      BY <1>1, <1>2
    <2> QED BY <2>3, <2>4
  <1> QED BY <1>1, <1>2, <1>3

(* InOrder lists every member, each in front of those it comes before.     *)
LEMMA InOrderLists ==
  ASSUME NEW S, IsFiniteSet(S), NEW before, StrictOrder(S, before)
  PROVE  /\ InOrder(S, before) \in [1..Cardinality(S) -> S]
         /\ \A x \in S : \E k \in 1..Cardinality(S) : InOrder(S, before)[k] = x
         /\ \A k, l \in 1..Cardinality(S) :
              k < l => <<InOrder(S, before)[k], InOrder(S, before)[l]>> \in before
         /\ \A k \in 1..Cardinality(S) : \A x \in S :
              Cardinality(Ahead(S, before, x)) = k - 1 => InOrder(S, before)[k] = x
  <1> DEFINE n == Cardinality(S)
             P(x) == Cardinality(Ahead(S, before, x))
             pos == [x \in S |-> P(x)]
             f == InOrder(S, before)
  <1>1. /\ n \in Nat
        /\ \A x \in S : pos[x] \in 0..(n - 1)
        /\ \A x, y \in S : <<x, y>> \in before => pos[x] < pos[y]
    BY Counting
  <1>2. /\ \A x \in S : pos[x] = P(x)
        /\ \A k \in 1..n : f[k] = CHOOSE x \in S : P(x) = k - 1
        /\ f = [k \in 1..n |-> f[k]]
    BY DEF InOrder
  <1>3. pos \in [S -> 0..(n - 1)]
    BY <1>1
  <1> HIDE DEF P, pos, f
  <1>4. \A x, y \in S : pos[x] = pos[y] => x = y
    <2> TAKE x, y \in S
    <2>1. pos[x] \in Int /\ pos[y] \in Int
      BY <1>1
    <2>2. (~(pos[x] < pos[y]) /\ ~(pos[y] < pos[x])) \/ pos[x] # pos[y]
      BY <2>1
    <2> QED BY <1>1, <2>2 DEF StrictOrder
  <1>5. \A k \in 0..(n - 1) : \E x \in S : pos[x] = k
    <2>1. pos \in Injection(S, 0..(n - 1))
      BY <1>3, <1>4 DEF Injection, IsInjective
    <2>2. IsFiniteSet(0..(n - 1)) /\ Cardinality(0..(n - 1)) = n
      <3>1. 0 \in Int /\ n - 1 \in Int
        BY <1>1
      <3>2. /\ IsFiniteSet(0..(n - 1))
            /\ Cardinality(0..(n - 1)) = IF 0 > n - 1 THEN 0 ELSE (n - 1) - 0 + 1
        BY <3>1, FS_Interval
      <3> QED BY <1>1, <3>2
    <2>3. pos \in Surjection(S, 0..(n - 1))
      BY <2>1, <2>2, FS_Injection
    <2> QED BY <2>3 DEF Surjection
  <1>6. \A k \in 1..n : f[k] \in S /\ pos[f[k]] = k - 1
    <2> TAKE k \in 1..n
    <2>1. k - 1 \in 0..(n - 1)
      BY <1>1
    <2>2. \E x \in S : pos[x] = k - 1
      BY <1>5, <2>1
    <2>3. \E x \in S : P(x) = k - 1
      BY <1>2, <2>2
    <2>4. f[k] \in S /\ P(f[k]) = k - 1
      BY <1>2, <2>3
    <2> QED BY <1>2, <2>4
  <1>7. f \in [1..n -> S]
    BY <1>2, <1>6
  <1>8. \A x \in S : \E k \in 1..n : f[k] = x
    <2> TAKE x \in S
    <2>1. pos[x] + 1 \in 1..n /\ (pos[x] + 1) - 1 = pos[x]
      BY <1>1
    <2>2. f[pos[x] + 1] = x
      BY <1>4, <1>6, <2>1
    <2> QED BY <2>1, <2>2
  <1>9. \A k, l \in 1..n : k < l => <<f[k], f[l]>> \in before
    <2> SUFFICES ASSUME NEW k \in 1..n, NEW l \in 1..n, k < l
                 PROVE  <<f[k], f[l]>> \in before
      OBVIOUS
    <2>1. pos[f[k]] = k - 1 /\ pos[f[l]] = l - 1 /\ f[k] \in S /\ f[l] \in S
      BY <1>6
    <2>2. ~(pos[f[l]] < pos[f[k]]) /\ pos[f[l]] # pos[f[k]]
      BY <1>1, <2>1
    <2> QED BY <1>1, <2>1, <2>2 DEF StrictOrder
  <1>10. \A k \in 1..n : \A x \in S : pos[x] = k - 1 => f[k] = x
    BY <1>4, <1>6
  <1> QED BY <1>2, <1>7, <1>8, <1>9, <1>10 DEF f, P

(* There is only one such list.                                            *)
LEMMA InOrderUnique ==
  ASSUME NEW S, NEW before, StrictOrder(S, before),
         NEW n \in Nat, NEW g \in [1..n -> S],
         \A x \in S : \E k \in 1..n : g[k] = x,
         \A k, l \in 1..n : k < l => <<g[k], g[l]>> \in before
  PROVE  /\ IsFiniteSet(S) /\ Cardinality(S) = n
         /\ g = InOrder(S, before)
  <1>1. \A k, l \in 1..n : g[k] = g[l] => k = l
    <2> SUFFICES ASSUME NEW k \in 1..n, NEW l \in 1..n, g[k] = g[l], k # l
                 PROVE  FALSE
      OBVIOUS
    <2>1. k < l \/ l < k
      OBVIOUS
    <2>2. <<g[k], g[k]>> \in before
      BY <2>1
    <2> QED BY <2>2 DEF StrictOrder
  <1>2. \A m \in 0..n : IsFiniteSet(1..m) /\ Cardinality(1..m) = m
    BY UpTo
  <1>3. IsFiniteSet(S) /\ Cardinality(S) = n
    <2>1. g \in Bijection(1..n, S)
      BY <1>1 DEF Bijection, Injection, Surjection, IsInjective
    <2>2. ExistsBijection(1..n, S)
      BY <2>1 DEF ExistsBijection
    <2>3. IsFiniteSet(1..n) /\ Cardinality(1..n) = n
      BY <1>2
    <2> QED BY <2>2, <2>3, FS_Bijection
  <1>4. \A k \in 1..n : Cardinality(Ahead(S, before, g[k])) = k - 1
    <2> TAKE k \in 1..n
    <2> DEFINE h == [j \in 1..(k - 1) |-> g[j]]
               B == Ahead(S, before, g[k])
    <2>1. \A j \in 1..(k - 1) : j \in 1..n /\ j < k
      OBVIOUS
    <2>2. h \in [1..(k - 1) -> B]
      BY <2>1 DEF Ahead
    <2>3. \A i, j \in 1..(k - 1) : h[i] = h[j] => i = j
      BY <1>1, <2>1
    <2>4. \A y \in B : \E j \in 1..(k - 1) : h[j] = y
      <3> TAKE y \in B
      <3>1. y \in S /\ <<y, g[k]>> \in before /\ g[k] \in S
        BY DEF Ahead
      <3>2. PICK j \in 1..n : g[j] = y
        BY <3>1
      <3>3. ~(k < j)
        <4> SUFFICES ASSUME k < j PROVE FALSE
          OBVIOUS
        <4>1. <<g[k], y>> \in before
          BY <3>2
        <4> QED BY <3>1, <4>1 DEF StrictOrder
      <3>4. j # k
        BY <3>1, <3>2 DEF StrictOrder
      <3>5. j \in 1..(k - 1)
        BY <3>3, <3>4
      <3> QED BY <3>2, <3>5
    <2> HIDE DEF h, B
    <2>5. h \in Bijection(1..(k - 1), B)
      BY <2>2, <2>3, <2>4 DEF Bijection, Injection, Surjection, IsInjective
    <2>6. ExistsBijection(1..(k - 1), B)
      BY <2>5 DEF ExistsBijection
    <2>7. IsFiniteSet(1..(k - 1)) /\ Cardinality(1..(k - 1)) = k - 1
      <3>1. k - 1 \in 0..n
        OBVIOUS
      <3> QED BY <1>2, <3>1
    <2>8. Cardinality(B) = k - 1
      BY <2>6, <2>7, FS_Bijection
    <2> QED BY <2>8 DEF B
  <1>5. \A k \in 1..n : InOrder(S, before)[k] = g[k]
    <2> TAKE k \in 1..n
    <2>1. \A j \in 1..n : \A x \in S :
            Cardinality(Ahead(S, before, x)) = j - 1 => InOrder(S, before)[j] = x
      BY <1>3, InOrderLists, ZenonT(30)
    <2>2. g[k] \in S
      OBVIOUS
    <2> QED BY <1>4, <2>1, <2>2
  <1>6. InOrder(S, before) \in [1..n -> S]
    BY <1>3, InOrderLists
  <1> QED BY <1>3, <1>5, <1>6

-----------------------------------------------------------------------------
(* The header list.                                                        *)

HeaderValues ==
  Values \cup Hosts \cup Tokens
    \cup {"agent", NoText, "application/json", "size", "signature", generateSignatureDateTime}

Headers == [name : HeaderNames, value : HeaderValues, id : Nat]

Lists == [entries : Seq(Headers), live : SUBSET Nat, next : Nat]

(* Insertion: the entries in front of the new one stay, the others move.   *)
LEMMA Inserting ==
  ASSUME NEW S, NEW e \in Seq(S), NEW h \in S, NEW k \in 0..Len(e)
  PROVE  /\ InsertAfter(e, k, h) \in Seq(S)
         /\ Len(InsertAfter(e, k, h)) = Len(e) + 1
         /\ \A i \in 1..k : InsertAfter(e, k, h)[i] = e[i]
         /\ InsertAfter(e, k, h)[k + 1] = h
         /\ \A i \in (k + 1)..Len(e) : InsertAfter(e, k, h)[i + 1] = e[i]
  <1> DEFINE a == SubSeq(e, 1, k)
             b == SubSeq(e, k + 1, Len(e))
             c == a \o <<h>>
  <1>1. a \in Seq(S) /\ Len(a) = k /\ \A i \in 1..k : a[i] = e[i]
    OBVIOUS
  <1>2. b \in Seq(S) /\ Len(b) = Len(e) - k /\ \A i \in 1..(Len(e) - k) : b[i] = e[i + k]
    <2>1. b \in Seq(S)
      OBVIOUS
    <2>2. Len(b) = Len(e) - k
      OBVIOUS
    <2> QED BY <2>1, <2>2
  <1> HIDE DEF a, b
  <1>3. /\ c \in Seq(S) /\ Len(c) = k + 1
        /\ c[k + 1] = h
        /\ \A i \in 1..k : c[i] = a[i]
    BY <1>1
  <1> HIDE DEF c
  <1> DEFINE r == c \o b
  <1>4. /\ r \in Seq(S) /\ Len(r) = Len(e) + 1
        /\ \A i \in 1..(k + 1) : r[i] = c[i]
        /\ \A i \in 1..(Len(e) - k) : r[i + (k + 1)] = b[i]
    <2>1. /\ r \in Seq(S) /\ Len(r) = Len(c) + Len(b)
          /\ \A i \in 1..(Len(c) + Len(b)) : r[i] = IF i <= Len(c) THEN c[i] ELSE b[i - Len(c)]
      BY <1>2, <1>3, ConcatProperties
    <2>2. Len(c) = k + 1 /\ Len(b) = Len(e) - k /\ k \in Nat /\ Len(e) \in Nat
      BY <1>2, <1>3
    <2> HIDE DEF r
    <2>3. \A i \in 1..(k + 1) : r[i] = c[i]
      BY <2>1, <2>2, SMTT(30)
    <2>4. \A i \in 1..(Len(e) - k) : r[i + (k + 1)] = b[i]
      <3> TAKE i \in 1..(Len(e) - k)
      <3>1. /\ i + (k + 1) \in 1..(Len(c) + Len(b)) /\ (i + (k + 1)) - Len(c) = i
            /\ ~(i + (k + 1) <= Len(c))
        BY <2>2
      <3> QED BY <2>1, <3>1
    <2> QED BY <2>1, <2>2, <2>3, <2>4
  <1>5. InsertAfter(e, k, h) = r
    BY DEF InsertAfter, r, c, b, a
  <1> HIDE DEF r
  <1>6. \A i \in (k + 1)..Len(e) : r[i + 1] = e[i]
    <2> TAKE i \in (k + 1)..Len(e)
    <2>1. i - k \in 1..(Len(e) - k) /\ (i - k) + (k + 1) = i + 1 /\ (i - k) + k = i
      OBVIOUS
    <2> QED BY <1>2, <1>4, <2>1
  <1>7. \A i \in 1..k : r[i] = e[i]
    BY <1>1, <1>3, <1>4
  <1>8. r[k + 1] = h
    BY <1>3, <1>4
  <1> QED BY <1>4, <1>5, <1>6, <1>7, <1>8

(* Removal: the entries behind the removed one move up.                    *)
LEMMA Removing ==
  ASSUME NEW S, NEW e \in Seq(S), NEW k \in 1..Len(e)
  PROVE  /\ RemoveIndex(e, k) \in Seq(S)
         /\ Len(RemoveIndex(e, k)) = Len(e) - 1
         /\ \A i \in 1..(Len(e) - 1) :
              RemoveIndex(e, k)[i] = IF i < k THEN e[i] ELSE e[i + 1]
  <1> DEFINE a == SubSeq(e, 1, k - 1)
             b == SubSeq(e, k + 1, Len(e))
  <1>1. a \in Seq(S) /\ Len(a) = k - 1 /\ \A i \in 1..(k - 1) : a[i] = e[i]
    OBVIOUS
  <1>2. b \in Seq(S) /\ Len(b) = Len(e) - k /\ \A i \in 1..(Len(e) - k) : b[i] = e[i + k]
    <2>1. b \in Seq(S)
      OBVIOUS
    <2>2. Len(b) = Len(e) - k
      OBVIOUS
    <2> QED BY <2>1, <2>2
  <1> HIDE DEF a, b
  <1> DEFINE r == a \o b
  <1>3. /\ r \in Seq(S) /\ Len(r) = Len(e) - 1
        /\ \A i \in 1..(Len(e) - 1) : r[i] = IF i <= k - 1 THEN a[i] ELSE b[i - (k - 1)]
    <2>1. /\ r \in Seq(S) /\ Len(r) = Len(a) + Len(b)
          /\ \A i \in 1..(Len(a) + Len(b)) : r[i] = IF i <= Len(a) THEN a[i] ELSE b[i - Len(a)]
      BY <1>1, <1>2, ConcatProperties
    <2>2. Len(a) = k - 1 /\ Len(b) = Len(e) - k /\ k \in Nat /\ Len(e) \in Nat
      BY <1>1, <1>2
    <2> HIDE DEF r
    <2> QED BY <2>1, <2>2
  <1>4. RemoveIndex(e, k) = r
    BY DEF RemoveIndex, r, a, b
  <1> HIDE DEF r
  <1>5. \A i \in 1..(Len(e) - 1) : r[i] = IF i < k THEN e[i] ELSE e[i + 1]
    <2> TAKE i \in 1..(Len(e) - 1)
    <2>1. CASE i < k
      <3>1. i \in 1..(k - 1)
        BY <2>1
      <3>2. r[i] = a[i]
        BY <1>3, <3>1, SMTT(30)
      <3> QED BY <1>1, <2>1, <3>1, <3>2
    <2>2. CASE ~(i < k)
      <3>1. i - (k - 1) \in 1..(Len(e) - k) /\ (i - (k - 1)) + k = i + 1 /\ ~(i <= k - 1)
        BY <2>2
      <3>2. r[i] = b[i - (k - 1)]
        BY <1>3, <3>1
      <3> QED BY <1>2, <2>2, <3>1, <3>2
    <2> QED BY <2>1, <2>2
  <1> QED BY <1>3, <1>4, <1>5

(* Names are told apart by their ranks.                                    *)
LEMMA Ranks ==
  /\ \A a \in HeaderNames : Rank(a) \in Nat
  /\ \A a, b \in HeaderNames : Rank(a) = Rank(b) => a = b
  <1>1. DOMAIN AlphaOrder = 1..14
    BY DEF AlphaOrder
  <1>2. \A a \in HeaderNames : Rank(a) \in 1..14 /\ AlphaOrder[Rank(a)] = a
    <2> TAKE a \in HeaderNames
    <2>1. \E i \in DOMAIN AlphaOrder : AlphaOrder[i] = a
      BY DEF HeaderNames
    <2> HIDE DEF AlphaOrder
    <2>2. Rank(a) \in DOMAIN AlphaOrder /\ AlphaOrder[Rank(a)] = a
      BY <2>1 DEF Rank
    <2> QED BY <1>1, <2>2
  <1> QED BY <1>2

Ids(l) == {l.entries[i].id : i \in DOMAIN l.entries}

(* A list is sorted, and its headers are different allocations.            *)
SoundList(l) ==
  /\ l \in Lists
  /\ \A i, j \in 1..Len(l.entries) :
       i < j => /\ Rank(l.entries[i].name) <= Rank(l.entries[j].name)
                /\ l.entries[i].id # l.entries[j].id
  /\ \A i \in 1..Len(l.entries) : l.entries[i].id < l.next

LEMMA ListFacts ==
  ASSUME NEW l, l \in Lists
  PROVE  /\ l.entries \in Seq(Headers) /\ l.live \in SUBSET Nat /\ l.next \in Nat
         /\ Len(l.entries) \in Nat /\ DOMAIN l.entries = 1..Len(l.entries)
         /\ \A i \in 1..Len(l.entries) :
              /\ l.entries[i] \in Headers
              /\ l.entries[i].name \in HeaderNames
              /\ l.entries[i].value \in HeaderValues
              /\ l.entries[i].id \in Nat
  <1>1. l.entries \in Seq(Headers) /\ l.live \in SUBSET Nat /\ l.next \in Nat
    BY DEF Lists
  <1>2. Len(l.entries) \in Nat /\ DOMAIN l.entries = 1..Len(l.entries)
    BY <1>1
  <1>3. \A i \in 1..Len(l.entries) : l.entries[i] \in Headers
    BY <1>1
  <1> QED BY <1>1, <1>2, <1>3 DEF Headers

(* r is e with one entry more, at m.                                       *)
Up(i, m) == IF i < m THEN i ELSE i + 1

Grown(e, r, m) ==
  /\ Len(r) = Len(e) + 1 /\ m \in 1..Len(r)
  /\ \A i \in 1..Len(e) : r[Up(i, m)] = e[i]

(* Up skips m, and only m.                                                 *)
LEMMA UpFacts ==
  ASSUME NEW n \in Nat, NEW m \in 1..(n + 1)
  PROVE  /\ \A i \in 1..n : Up(i, m) \in 1..(n + 1) /\ Up(i, m) # m
         /\ \A i, j \in 1..n : i < j <=> Up(i, m) < Up(j, m)
         /\ \A j \in 1..(n + 1) : j # m => \E i \in 1..n : Up(i, m) = j
  <1>1. \A j \in 1..(n + 1) : j # m => \E i \in 1..n : Up(i, m) = j
    <2> SUFFICES ASSUME NEW j \in 1..(n + 1), j # m
                 PROVE  \E i \in 1..n : Up(i, m) = j
      OBVIOUS
    <2>1. CASE j < m
      <3>1. j \in 1..n /\ Up(j, m) = j
        BY <2>1 DEF Up
      <3> QED BY <3>1
    <2>2. CASE m < j
      <3>1. j - 1 \in 1..n /\ Up(j - 1, m) = j
        BY <2>2 DEF Up
      <3> QED BY <3>1
    <2> QED BY <2>1, <2>2
  <1>2. \A i \in 1..n : Up(i, m) \in 1..(n + 1) /\ Up(i, m) # m
    BY DEF Up
  <1>3. \A i, j \in 1..n : i < j <=> Up(i, m) < Up(j, m)
    BY DEF Up
  <1> QED BY <1>1, <1>2, <1>3

(* Where a header goes: behind all that are not greater, and in front of   *)
(* a greater one.                                                          *)
LEMMA PositionFacts ==
  ASSUME NEW l, SoundList(l), NEW name \in HeaderNames
  PROVE  /\ Position(l.entries, name) \in 0..Len(l.entries)
         /\ \A i \in 1..Len(l.entries) :
              IF i <= Position(l.entries, name)
                THEN Rank(l.entries[i].name) <= Rank(name)
                ELSE Rank(name) <= Rank(l.entries[i].name)
  <1> DEFINE e == l.entries
             n == Len(e)
             greater == {i \in DOMAIN e : Rank(e[i].name) > Rank(name)}
             k == Position(e, name)
  <1>1. l \in Lists
    BY DEF SoundList
  <1>2. /\ n \in Nat /\ DOMAIN e = 1..n
        /\ \A i \in 1..n : e[i].name \in HeaderNames
    BY <1>1, ListFacts
  <1>3. Rank(name) \in Nat /\ \A i \in 1..n : Rank(e[i].name) \in Nat
    BY <1>2, Ranks
  <1>4. \A i, j \in 1..n : i < j => Rank(e[i].name) <= Rank(e[j].name)
    BY DEF SoundList
  <1>5. k = IF greater = {} THEN n ELSE First(greater) - 1
    BY DEF Position
  <1>6. \A i \in 1..n : i \in greater <=> Rank(e[i].name) > Rank(name)
    BY <1>2
  <1>7. greater \in SUBSET (1..n)
    BY <1>2
  <1> HIDE DEF e, n, greater, k
  <1>8. CASE greater = {}
    <2>1. \A i \in 1..n : Rank(e[i].name) <= Rank(name)
      BY <1>3, <1>6, <1>8
    <2> QED BY <1>2, <1>5, <1>8, <2>1 DEF e, n, k
  <1>9. CASE greater # {}
    <2> DEFINE f == First(greater)
    <2>1. greater \in SUBSET Nat
      BY <1>2, <1>7
    <2>2. f \in greater /\ \A j \in greater : f <= j
      BY <1>9, <2>1, LeastMember
    <2> HIDE DEF f
    <2>3. f \in 1..n /\ k = f - 1
      BY <1>5, <1>7, <1>9, <2>2 DEF f
    <2>4. ASSUME NEW i \in 1..n
          PROVE  IF i <= k THEN Rank(e[i].name) <= Rank(name)
                           ELSE Rank(name) <= Rank(e[i].name)
      <3>1. CASE i <= k
        <4>1. ~(f <= i)
          BY <1>2, <2>3, <3>1
        <4>2. i \notin greater
          BY <2>2, <4>1
        <4>3. ~(Rank(e[i].name) > Rank(name))
          BY <1>6, <4>2
        <4> QED BY <1>3, <3>1, <4>3
      <3>2. CASE ~(i <= k)
        <4>1. f < i \/ f = i
          BY <1>2, <2>3, <3>2
        <4>2. Rank(e[f].name) <= Rank(e[i].name)
          BY <1>3, <1>4, <2>3, <4>1
        <4>3. Rank(e[f].name) > Rank(name)
          BY <1>6, <2>2, <2>3
        <4>4. Rank(e[f].name) \in Nat /\ Rank(e[i].name) \in Nat
          BY <1>3, <2>3
        <4> QED BY <1>3, <3>2, <4>2, <4>3, <4>4
      <3> QED BY <3>1, <3>2
    <2>5. k \in 0..n
      BY <1>2, <2>3
    <2> QED BY <2>4, <2>5 DEF e, n, k
  <1> QED BY <1>8, <1>9

(* setRequestHeader: the list stays sound and owns one header more.        *)
LEMMA HeaderIsSet ==
  ASSUME NEW l, SoundList(l), NEW name \in HeaderNames, NEW value \in HeaderValues,
         Size(l) < MAX_REQUEST_HEADER_COUNT, Fit(name, value)
  PROVE  LET r == setRequestHeader(l, name, value)
         IN  /\ SoundList(r)
             /\ r.live = l.live \cup {l.next}
             /\ Ids(r) = Ids(l) \cup {l.next}
             /\ \E m \in 1..(Len(l.entries) + 1) :
                  /\ Grown(l.entries, r.entries, m)
                  /\ r.entries[m].name = name /\ r.entries[m].value = value
  <1> DEFINE e == l.entries
             n == Len(e)
             k == Position(e, name)
             h == createRequestHeader(l, name, value)
             d == InsertAfter(e, k, h)
             r == setRequestHeader(l, name, value)
             m == k + 1
  <1>1. l \in Lists
    BY DEF SoundList
  <1>2. /\ e \in Seq(Headers) /\ l.live \in SUBSET Nat /\ l.next \in Nat
        /\ n \in Nat /\ DOMAIN e = 1..n
        /\ \A i \in 1..n : e[i].name \in HeaderNames /\ e[i].id \in Nat
    BY <1>1, ListFacts
  <1>3. /\ k \in 0..n
        /\ \A i \in 1..n : IF i <= k THEN Rank(e[i].name) <= Rank(name)
                                     ELSE Rank(name) <= Rank(e[i].name)
    BY PositionFacts
  <1>4. h \in Headers /\ h.name = name /\ h.value = value /\ h.id = l.next
    BY <1>2 DEF createRequestHeader, Headers
  <1>5. /\ \A i, j \in 1..n : i < j => /\ Rank(e[i].name) <= Rank(e[j].name)
                                       /\ e[i].id # e[j].id
        /\ \A i \in 1..n : e[i].id < l.next
    BY DEF SoundList
  <1>6. ~(Size(l) >= MAX_REQUEST_HEADER_COUNT)
    BY <1>2, SigningAssumption DEF Size
  <1>7. r = [entries |-> d, live |-> l.live \cup {l.next}, next |-> l.next + 1]
    BY <1>6 DEF setRequestHeader
  <1>8. Ids(l) = {e[i].id : i \in 1..n}
    BY <1>2 DEF Ids
  <1> HIDE DEF e, n, k, h
  <1>9. /\ d \in Seq(Headers) /\ Len(d) = n + 1
        /\ \A i \in 1..k : d[i] = e[i]
        /\ d[k + 1] = h
        /\ \A i \in (k + 1)..n : d[i + 1] = e[i]
    <2>1. k \in 0..Len(e)
      BY <1>3 DEF n
    <2>2. /\ d \in Seq(Headers) /\ Len(d) = Len(e) + 1
          /\ \A i \in 1..k : d[i] = e[i]
          /\ d[k + 1] = h
          /\ \A i \in (k + 1)..Len(e) : d[i + 1] = e[i]
      <3>1. e \in Seq(Headers) /\ h \in Headers
        BY <1>2, <1>4
      <3>2. InsertAfter(e, k, h) \in Seq(Headers) /\ Len(InsertAfter(e, k, h)) = Len(e) + 1
        BY <2>1, <3>1, Inserting
      <3>3. \A i \in 1..k : InsertAfter(e, k, h)[i] = e[i]
        BY <2>1, <3>1, Inserting
      <3>4. InsertAfter(e, k, h)[k + 1] = h
        BY <2>1, <3>1, Inserting
      <3>5. \A i \in (k + 1)..Len(e) : InsertAfter(e, k, h)[i + 1] = e[i]
        BY <2>1, <3>1, Inserting
      <3> QED BY <3>2, <3>3, <3>4, <3>5
    <2> QED BY <2>2 DEF n
  <1> HIDE DEF d
  <1>10. r.entries = d /\ r.live = l.live \cup {l.next} /\ r.next = l.next + 1
    BY <1>7
  <1>11. r \in Lists
    BY <1>2, <1>7, <1>9 DEF Lists
  <1> HIDE DEF r
  <1>12. \A i \in 1..n : d[Up(i, m)] = e[i]
    <2> TAKE i \in 1..n
    <2>1. CASE i < m
      BY <1>3, <1>9, <2>1 DEF Up
    <2>2. CASE ~(i < m)
      BY <1>3, <1>9, <2>2 DEF Up
    <2> QED BY <2>1, <2>2
  <1>13. m \in 1..(n + 1) /\ d[m] = h
    BY <1>2, <1>3, <1>9
  <1>14. /\ \A i \in 1..n : Up(i, m) \in 1..(n + 1) /\ Up(i, m) # m
         /\ \A i, j \in 1..n : i < j <=> Up(i, m) < Up(j, m)
         /\ \A j \in 1..(n + 1) : j # m => \E i \in 1..n : Up(i, m) = j
    BY <1>2, <1>13, UpFacts
  <1>15. \A i \in 1..n : IF Up(i, m) < m THEN Rank(e[i].name) <= Rank(name)
                                       ELSE Rank(name) <= Rank(e[i].name)
    <2> TAKE i \in 1..n
    <2>1. Up(i, m) < m <=> i <= k
      BY <1>2, <1>3 DEF Up
    <2> QED BY <1>3, <2>1
  <1> HIDE DEF m
  <1>16. ASSUME NEW i \in 1..(n + 1), NEW j \in 1..(n + 1), i < j
         PROVE  Rank(d[i].name) <= Rank(d[j].name) /\ d[i].id # d[j].id
    <2>1. CASE i # m /\ j # m
      <3>1. PICK a \in 1..n, b \in 1..n : Up(a, m) = i /\ Up(b, m) = j
        BY <1>14, <2>1
      <3>2. a < b /\ d[i] = e[a] /\ d[j] = e[b]
        BY <1>12, <1>14, <1>16, <3>1
      <3> QED BY <1>5, <3>2
    <2>2. CASE i = m
      <3>1. j # m
        BY <1>2, <1>16, <2>2
      <3>2. PICK b \in 1..n : Up(b, m) = j
        BY <1>14, <3>1
      <3>3. d[i] = h /\ d[j] = e[b] /\ ~(Up(b, m) < m)
        BY <1>2, <1>12, <1>13, <1>16, <2>2, <3>2
      <3>4. e[b].id < l.next /\ e[b].id \in Nat
        BY <1>2, <1>5
      <3> QED BY <1>2, <1>4, <1>15, <3>3, <3>4
    <2>3. CASE j = m
      <3>1. i # m
        BY <1>2, <1>16, <2>3
      <3>2. PICK a \in 1..n : Up(a, m) = i
        BY <1>14, <3>1
      <3>3. d[j] = h /\ d[i] = e[a] /\ Up(a, m) < m
        BY <1>12, <1>13, <1>16, <2>3, <3>2
      <3>4. e[a].id < l.next /\ e[a].id \in Nat
        BY <1>2, <1>5
      <3> QED BY <1>2, <1>4, <1>15, <3>3, <3>4
    <2> QED BY <2>1, <2>2, <2>3
  <1>17. ASSUME NEW i \in 1..(n + 1)
         PROVE  d[i].id < l.next + 1 /\ d[i].id \in Ids(l) \cup {l.next}
    <2>1. CASE i = m
      BY <1>2, <1>4, <1>13, <2>1
    <2>2. CASE i # m
      <3>1. PICK a \in 1..n : Up(a, m) = i
        BY <1>14, <2>2
      <3>2. d[i] = e[a]
        BY <1>12, <3>1
      <3>3. e[a].id < l.next /\ e[a].id \in Nat
        BY <1>2, <1>5
      <3> QED BY <1>2, <1>8, <3>2, <3>3
    <2> QED BY <2>1, <2>2
  <1>18. SoundList(r)
    <2>1. Len(r.entries) = n + 1 /\ r.entries = d /\ r.next = l.next + 1
      BY <1>9, <1>10
    <2>2. /\ \A i, j \in 1..Len(r.entries) :
               i < j => /\ Rank(r.entries[i].name) <= Rank(r.entries[j].name)
                        /\ r.entries[i].id # r.entries[j].id
          /\ \A i \in 1..Len(r.entries) : r.entries[i].id < r.next
      BY <1>16, <1>17, <2>1
    <2> QED BY <1>11, <2>2 DEF SoundList
  <1>19. Ids(r) = Ids(l) \cup {l.next}
    <2>1. Ids(r) = {d[i].id : i \in 1..(n + 1)}
      BY <1>9, <1>10 DEF Ids
    <2>2. ASSUME NEW x \in Ids(l)
          PROVE  \E j \in 1..(n + 1) : d[j].id = x
      <3>1. PICK i \in 1..n : x = e[i].id
        BY <1>8
      <3>2. d[Up(i, m)] = e[i] /\ Up(i, m) \in 1..(n + 1)
        BY <1>12, <1>14
      <3> QED BY <3>1, <3>2
    <2>3. d[m].id = l.next
      BY <1>4, <1>13
    <2> QED BY <1>13, <1>17, <2>1, <2>2, <2>3
  <1>20. Grown(e, r.entries, m) /\ r.entries[m].name = name /\ r.entries[m].value = value
    BY <1>4, <1>9, <1>10, <1>12, <1>13 DEF Grown, n
  <1> QED BY <1>10, <1>13, <1>18, <1>19, <1>20 DEF r, e, n

(* removeRequestHeader: the list stays sound, and what is allocated stays  *)
(* in it.                                                                  *)
LEMMA HeaderIsRemoved ==
  ASSUME NEW l, SoundList(l), NEW name
  PROVE  LET r == removeRequestHeader(l, name)
         IN  /\ SoundList(r)
             /\ l.live \subseteq Ids(l) => r.live \subseteq Ids(r)
  <1> DEFINE e == l.entries
             n == Len(e)
             r == removeRequestHeader(l, name)
             S == Named(e, name)
             k == First(S)
             d == RemoveIndex(e, k)
  <1>1. l \in Lists
    BY DEF SoundList
  <1>2. /\ e \in Seq(Headers) /\ l.live \in SUBSET Nat /\ l.next \in Nat
        /\ n \in Nat /\ DOMAIN e = 1..n
        /\ \A i \in 1..n : e[i].name \in HeaderNames /\ e[i].id \in Nat
    BY <1>1, ListFacts
  <1>3. /\ \A i, j \in 1..n : i < j => /\ Rank(e[i].name) <= Rank(e[j].name)
                                       /\ e[i].id # e[j].id
        /\ \A i \in 1..n : e[i].id < l.next
    BY DEF SoundList
  <1>4. Ids(l) = {e[i].id : i \in 1..n}
    BY <1>2 DEF Ids
  <1>5. CASE S # {}
    <2>1. S \in SUBSET Nat /\ S \in SUBSET (1..n)
      BY <1>2 DEF Named
    <2>2. k \in 1..n
      BY <1>5, <2>1, LeastMember
    <2>3. r = [l EXCEPT !.entries = d, !.live = l.live \ {e[k].id}]
      BY <1>5 DEF removeRequestHeader
    <2> HIDE DEF k, r
    <2>4. /\ d \in Seq(Headers) /\ Len(d) = n - 1
          /\ \A i \in 1..(n - 1) : d[i] = IF i < k THEN e[i] ELSE e[i + 1]
      <3>1. k \in 1..Len(e)
        BY <2>2
      <3>2. d \in Seq(Headers) /\ Len(d) = Len(e) - 1
        BY <1>2, <3>1, Removing
      <3>3. \A i \in 1..(Len(e) - 1) : d[i] = IF i < k THEN e[i] ELSE e[i + 1]
        BY <1>2, <3>1, Removing
      <3> QED BY <3>2, <3>3
    <2> HIDE DEF d, n, e
    <2>5. r.entries = d /\ r.live = l.live \ {e[k].id} /\ r.next = l.next /\ r \in Lists
      BY <1>1, <1>2, <2>3, <2>4 DEF Lists
    <2>6. \A i \in 1..(n - 1) : d[i] = e[Up(i, k)]
      BY <1>2, <2>2, <2>4 DEF Up
    <2>7. n - 1 \in Nat /\ k \in 1..((n - 1) + 1) /\ (n - 1) + 1 = n
      BY <1>2, <2>2
    <2>8. /\ \A i \in 1..(n - 1) : Up(i, k) \in 1..n /\ Up(i, k) # k
          /\ \A i, j \in 1..(n - 1) : i < j <=> Up(i, k) < Up(j, k)
          /\ \A j \in 1..n : j # k => \E i \in 1..(n - 1) : Up(i, k) = j
      <3>1. /\ \A i \in 1..(n - 1) : Up(i, k) \in 1..((n - 1) + 1) /\ Up(i, k) # k
            /\ \A i, j \in 1..(n - 1) : i < j <=> Up(i, k) < Up(j, k)
            /\ \A j \in 1..((n - 1) + 1) : j # k => \E i \in 1..(n - 1) : Up(i, k) = j
        BY <2>7, UpFacts
      <3> QED BY <2>7, <3>1
    <2>9. SoundList(r)
      <3>1. Len(r.entries) = n - 1 /\ r.entries = d /\ r.next = l.next
        BY <2>4, <2>5
      <3>2. ASSUME NEW i \in 1..(n - 1), NEW j \in 1..(n - 1), i < j
            PROVE  Rank(d[i].name) <= Rank(d[j].name) /\ d[i].id # d[j].id
        BY <1>3, <2>6, <2>8, <3>2
      <3>3. ASSUME NEW i \in 1..(n - 1)
            PROVE  d[i].id < l.next
        BY <1>3, <2>6, <2>8
      <3>4. /\ \A i, j \in 1..Len(r.entries) :
                 i < j => /\ Rank(r.entries[i].name) <= Rank(r.entries[j].name)
                          /\ r.entries[i].id # r.entries[j].id
            /\ \A i \in 1..Len(r.entries) : r.entries[i].id < r.next
        BY <3>1, <3>2, <3>3
      <3> QED BY <2>5, <3>4 DEF SoundList
    <2>10. Ids(r) = Ids(l) \ {e[k].id}
      <3>1. Ids(r) = {d[i].id : i \in 1..(n - 1)}
        BY <2>4, <2>5 DEF Ids
      <3>2. \A i \in 1..(n - 1) : d[i].id \in Ids(l) /\ d[i].id # e[k].id
        <4> TAKE i \in 1..(n - 1)
        <4>1. Up(i, k) \in 1..n /\ Up(i, k) # k /\ d[i] = e[Up(i, k)]
          BY <2>6, <2>8
        <4>2. Up(i, k) < k \/ k < Up(i, k)
          BY <1>2, <2>2, <4>1
        <4>3. e[Up(i, k)].id # e[k].id
          BY <1>3, <2>2, <4>1, <4>2
        <4> QED BY <1>4, <4>1, <4>3
      <3>3. ASSUME NEW x \in Ids(l), x # e[k].id
            PROVE  \E i \in 1..(n - 1) : x = d[i].id
        <4>1. PICK j \in 1..n : x = e[j].id
          BY <1>4
        <4>2. j # k
          BY <3>3, <4>1
        <4>3. PICK i \in 1..(n - 1) : Up(i, k) = j
          BY <2>8, <4>2
        <4> QED BY <2>6, <4>1, <4>3
      <3> QED BY <3>1, <3>2, <3>3
    <2> QED BY <2>5, <2>9, <2>10 DEF r
  <1>6. CASE S = {} /\ e = << >>
    <2>1. r = l
      BY <1>6 DEF removeRequestHeader
    <2> QED BY <2>1
  <1>7. CASE S = {} /\ e # << >>
    <2> DEFINE live == l.live \ {e[Size(l)].id}
    <2>1. r = [l EXCEPT !.live = live]
      BY <1>7 DEF removeRequestHeader
    <2> HIDE DEF r
    <2>2. live \in SUBSET Nat
      BY <1>2
    <2> HIDE DEF live
    <2>3. r \in Lists /\ r.entries = l.entries /\ r.next = l.next
      BY <1>1, <2>1, <2>2 DEF Lists
    <2>4. SoundList(r)
      BY <2>3 DEF SoundList
    <2>5. r.live = live /\ Ids(r) = Ids(l)
      BY <1>1, <2>1, <2>3 DEF Lists, Ids
    <2>6. live \subseteq l.live
      BY DEF live
    <2> QED BY <2>4, <2>5, <2>6 DEF r
  <1> QED BY <1>5, <1>6, <1>7

(* removeRequestHeaders: nothing is left, in the list or in memory.        *)
LEMMA AllAreRemoved ==
  ASSUME NEW l, SoundList(l)
  PROVE  LET r == removeRequestHeaders(l)
         IN  SoundList(r) /\ (l.live \subseteq Ids(l) => r.live \subseteq Ids(r) /\ r.live = {})
  <1> DEFINE r == removeRequestHeaders(l)
             live == l.live \ Ids(l)
  <1>1. l \in Lists /\ l.live \in SUBSET Nat /\ l.next \in Nat
    BY ListFacts DEF SoundList
  <1>2. r = [l EXCEPT !.entries = << >>, !.live = live]
    BY DEF removeRequestHeaders, Ids
  <1> HIDE DEF r
  <1>3. live \in SUBSET Nat /\ << >> \in Seq(Headers)
    BY <1>1
  <1>4. l.live \subseteq Ids(l) => live = {}
    OBVIOUS
  <1> HIDE DEF live
  <1>5. r \in Lists /\ r.entries = << >> /\ r.live = live
    BY <1>1, <1>2, <1>3 DEF Lists
  <1>6. SoundList(r)
    BY <1>5 DEF SoundList
  <1>7. Ids(r) = {}
    BY <1>5 DEF Ids
  <1> QED BY <1>4, <1>5, <1>6, <1>7 DEF r

Pairs == [name : HeaderNames, value : HeaderValues]

HasHeader(l, name, value) ==
  \E i \in 1..Len(l.entries) : l.entries[i].name = name /\ l.entries[i].value = value

(* What a call of setRequestHeader keeps.                                  *)
Extended(l, r) ==
  /\ SoundList(r)
  /\ l.live \subseteq Ids(l) => r.live \subseteq Ids(r)
  /\ Size(l) <= Size(r)
  /\ \A name \in HeaderNames, value \in HeaderValues :
       HasHeader(l, name, value) => HasHeader(r, name, value)

SetNth(l, hs, k) ==
  IF k > Len(hs) \/ ~AllFit(hs, k) THEN l
  ELSE setRequestHeader(l, hs[k].name, hs[k].value)

(* One of the calls: the header is there afterwards, if there was room.    *)
LEMMA OneIsSet ==
  ASSUME NEW l, SoundList(l), NEW hs \in Seq(Pairs), NEW k \in Nat, k > 0
  PROVE  LET r == SetNth(l, hs, k)
         IN  /\ Extended(l, r)
             /\ k > Len(hs) \/ ~AllFit(hs, k) => r = l
             /\ k <= Len(hs) /\ AllFit(hs, k) /\ Size(l) < MAX_REQUEST_HEADER_COUNT =>
                  /\ Size(r) = Size(l) + 1
                  /\ HasHeader(r, hs[k].name, hs[k].value)
                  /\ \E m \in 1..Size(r) : /\ Grown(l.entries, r.entries, m)
                                           /\ r.entries[m].name = hs[k].name
             /\ ~(Size(l) < MAX_REQUEST_HEADER_COUNT) => r = l
  <1> DEFINE r == SetNth(l, hs, k)
  <1>1. l \in Lists /\ Len(l.entries) \in Nat /\ Len(hs) \in Nat
    BY ListFacts DEF SoundList
  <1>2. MAX_REQUEST_HEADER_COUNT \in Nat
    BY SigningAssumption
  <1>3. Extended(l, l)
    BY <1>1 DEF Extended, Size
  <1>4. CASE k > Len(hs) \/ ~AllFit(hs, k)
    <2>1. r = l /\ ~(k <= Len(hs) /\ AllFit(hs, k))
      BY <1>1, <1>4 DEF SetNth
    <2> QED BY <1>3, <2>1
  <1>5. CASE ~(Size(l) < MAX_REQUEST_HEADER_COUNT)
    <2>1. Size(l) >= MAX_REQUEST_HEADER_COUNT
      BY <1>1, <1>2, <1>5 DEF Size
    <2>2. r = l
      BY <2>1 DEF SetNth, setRequestHeader
    <2> QED BY <1>3, <1>5, <2>2
  <1>6. CASE k <= Len(hs) /\ AllFit(hs, k) /\ Size(l) < MAX_REQUEST_HEADER_COUNT
    <2> DEFINE name == hs[k].name
               value == hs[k].value
    <2>1. name \in HeaderNames /\ value \in HeaderValues
      <3>1. k \in 1..Len(hs)
        BY <1>1, <1>6
      <3>2. hs[k] \in Pairs
        BY <3>1
      <3> QED BY <3>2 DEF Pairs
    <2>2. r = setRequestHeader(l, name, value) /\ ~(k > Len(hs) \/ ~AllFit(hs, k))
      BY <1>1, <1>6 DEF SetNth
    <2>10. Fit(name, value)
      BY <1>6 DEF AllFit
    <2> HIDE DEF r, name, value
    <2>3. /\ SoundList(r)
          /\ r.live = l.live \cup {l.next} /\ Ids(r) = Ids(l) \cup {l.next}
      BY <1>6, <2>1, <2>2, <2>10, HeaderIsSet
    <2>4. PICK m \in 1..(Len(l.entries) + 1) :
            /\ Grown(l.entries, r.entries, m)
            /\ r.entries[m].name = name /\ r.entries[m].value = value
      BY <1>6, <2>1, <2>2, <2>10, HeaderIsSet
    <2>5. Size(r) = Size(l) + 1 /\ Size(l) <= Size(r) /\ m \in 1..Size(r)
      BY <1>1, <2>4 DEF Grown, Size
    <2>6. HasHeader(r, name, value)
      BY <2>4, <2>5 DEF HasHeader, Size
    <2>7. ASSUME NEW a, NEW b, HasHeader(l, a, b)
          PROVE  HasHeader(r, a, b)
      <3>1. PICK i \in 1..Len(l.entries) : l.entries[i].name = a /\ l.entries[i].value = b
        BY <2>7 DEF HasHeader
      <3>2. Up(i, m) \in 1..(Len(l.entries) + 1)
        BY <1>1, UpFacts
      <3>3. r.entries[Up(i, m)] = l.entries[i] /\ Len(r.entries) = Len(l.entries) + 1
        BY <2>4 DEF Grown
      <3> QED BY <3>1, <3>2, <3>3 DEF HasHeader
    <2>8. Extended(l, r)
      BY <2>3, <2>5, <2>7 DEF Extended
    <2>9. \E j \in 1..Size(r) : Grown(l.entries, r.entries, j) /\ r.entries[j].name = name
      BY <2>4, <2>5
    <2> QED BY <1>6, <2>2, <2>5, <2>6, <2>8, <2>9 DEF r, name, value
  <1>7. k > Len(hs) \/ k <= Len(hs)
    BY <1>1
  <1> QED BY <1>4, <1>5, <1>6, <1>7

(* Four of them.                                                           *)
LEMMA AllAreSet ==
  ASSUME NEW l, SoundList(l), NEW hs \in Seq(Pairs), Len(hs) <= 4
  PROVE  LET r == SetAll(l, hs)
         IN  /\ Extended(l, r)
             /\ Fits(l, hs) => /\ Size(r) = Size(l) + Len(hs)
                               /\ \A k \in 1..Len(hs) : HasHeader(r, hs[k].name, hs[k].value)
             /\ ~Fits(l, hs) /\ AllFit(hs, Len(hs)) => Size(r) >= MAX_REQUEST_HEADER_COUNT
  <1> DEFINE r1 == SetNth(l, hs, 1)
             r2 == SetNth(r1, hs, 2)
             r3 == SetNth(r2, hs, 3)
             r4 == SetNth(r3, hs, 4)
  <1>1. SetAll(l, hs) = r4
    BY DEF SetAll, SetNth
  <1>2. Len(hs) \in Nat /\ MAX_REQUEST_HEADER_COUNT \in Nat
    BY SigningAssumption
  <1>3. \A x : SoundList(x) => Size(x) \in Nat
    BY ListFacts DEF SoundList, Size
  <1>4. \A k \in 1..Len(hs) : hs[k].name \in HeaderNames /\ hs[k].value \in HeaderValues
    <2> TAKE k \in 1..Len(hs)
    <2>1. hs[k] \in Pairs
      OBVIOUS
    <2> QED BY <2>1 DEF Pairs
  <1> HIDE DEF r1, r2, r3, r4
  <1>5. Extended(l, r1)
    BY OneIsSet DEF r1
  <1>21. SoundList(r1)
    BY <1>5 DEF Extended
  <1>6. SoundList(r1) /\ Extended(r1, r2)
    BY <1>21, OneIsSet DEF r2
  <1>22. SoundList(r2)
    BY <1>6 DEF Extended
  <1>7. SoundList(r2) /\ Extended(r2, r3)
    BY <1>22, OneIsSet DEF r3
  <1>23. SoundList(r3)
    BY <1>7 DEF Extended
  <1>8. SoundList(r3) /\ Extended(r3, r4)
    BY <1>23, OneIsSet DEF r4
  <1>9. SoundList(r4)
    BY <1>8 DEF Extended
  <1>10. /\ Size(l) \in Nat /\ Size(r1) \in Nat /\ Size(r2) \in Nat /\ Size(r3) \in Nat
         /\ Size(r4) \in Nat
    BY <1>3, <1>6, <1>7, <1>8, <1>9
  <1>11. Extended(l, r4) /\ Extended(r1, r4) /\ Extended(r2, r4)
    <2>1. /\ Size(l) <= Size(r4) /\ Size(r1) <= Size(r4) /\ Size(r2) <= Size(r4)
      BY <1>5, <1>6, <1>7, <1>8, <1>10 DEF Extended
    <2>2. ASSUME NEW a \in HeaderNames, NEW b \in HeaderValues
          PROVE  /\ HasHeader(l, a, b) => HasHeader(r4, a, b)
                 /\ HasHeader(r1, a, b) => HasHeader(r4, a, b)
                 /\ HasHeader(r2, a, b) => HasHeader(r4, a, b)
      BY <1>5, <1>6, <1>7, <1>8 DEF Extended
    <2>3. /\ l.live \subseteq Ids(l) => r4.live \subseteq Ids(r4)
          /\ r1.live \subseteq Ids(r1) => r4.live \subseteq Ids(r4)
          /\ r2.live \subseteq Ids(r2) => r4.live \subseteq Ids(r4)
      BY <1>5, <1>6, <1>7, <1>8 DEF Extended
    <2> QED BY <1>9, <2>1, <2>2, <2>3 DEF Extended
  <1>12. /\ 1 > Len(hs) => r1 = l
         /\ 1 <= Len(hs) /\ AllFit(hs, 1) /\ Size(l) < MAX_REQUEST_HEADER_COUNT =>
              Size(r1) = Size(l) + 1 /\ HasHeader(r1, hs[1].name, hs[1].value)
         /\ ~(Size(l) < MAX_REQUEST_HEADER_COUNT) => r1 = l
    BY OneIsSet DEF r1
  <1>13. /\ 2 > Len(hs) => r2 = r1
         /\ 2 <= Len(hs) /\ AllFit(hs, 2) /\ Size(r1) < MAX_REQUEST_HEADER_COUNT =>
              Size(r2) = Size(r1) + 1 /\ HasHeader(r2, hs[2].name, hs[2].value)
         /\ ~(Size(r1) < MAX_REQUEST_HEADER_COUNT) => r2 = r1
    BY <1>6, OneIsSet DEF r2
  <1>14. /\ 3 > Len(hs) => r3 = r2
         /\ 3 <= Len(hs) /\ AllFit(hs, 3) /\ Size(r2) < MAX_REQUEST_HEADER_COUNT =>
              Size(r3) = Size(r2) + 1 /\ HasHeader(r3, hs[3].name, hs[3].value)
         /\ ~(Size(r2) < MAX_REQUEST_HEADER_COUNT) => r3 = r2
    BY <1>7, OneIsSet DEF r3
  <1>15. /\ 4 > Len(hs) => r4 = r3
         /\ 4 <= Len(hs) /\ AllFit(hs, 4) /\ Size(r3) < MAX_REQUEST_HEADER_COUNT =>
              Size(r4) = Size(r3) + 1 /\ HasHeader(r4, hs[4].name, hs[4].value)
         /\ ~(Size(r3) < MAX_REQUEST_HEADER_COUNT) => r4 = r3
    BY <1>8, OneIsSet DEF r4
  <1>16. Fits(l, hs) <=> Size(l) + Len(hs) <= MAX_REQUEST_HEADER_COUNT /\ AllFit(hs, Len(hs))
    BY DEF Fits
  <1>20. AllFit(hs, Len(hs)) => \A k \in 1..4 : k <= Len(hs) => AllFit(hs, k)
    BY <1>2 DEF AllFit
  <1>17. ASSUME Fits(l, hs)
         PROVE  /\ Size(r4) = Size(l) + Len(hs)
                /\ 1 <= Len(hs) => Size(l) < MAX_REQUEST_HEADER_COUNT
                /\ 2 <= Len(hs) => Size(r1) < MAX_REQUEST_HEADER_COUNT
                /\ 3 <= Len(hs) => Size(r2) < MAX_REQUEST_HEADER_COUNT
                /\ 4 <= Len(hs) => Size(r3) < MAX_REQUEST_HEADER_COUNT
    <2> DEFINE n == Len(hs)
               M == MAX_REQUEST_HEADER_COUNT
    <2>1. Size(l) + n <= M /\ n \in Nat /\ M \in Nat /\ n <= 4
      BY <1>2, <1>16, <1>17
    <2> HIDE DEF n, M
    <2>2. 1 <= n => Size(l) < M
      BY <1>10, <2>1, SMTT(30)
    <2>3. IF 1 <= n THEN Size(r1) = Size(l) + 1 ELSE Size(r1) = Size(l) + n
      BY <1>10, <1>12, <1>17, <1>16, <1>20, <2>1, <2>2 DEF n, M
    <2>4. 2 <= n => Size(r1) < M
      BY <1>10, <2>1, <2>3, SMTT(30)
    <2>5. IF 2 <= n THEN Size(r2) = Size(l) + 2 ELSE Size(r2) = Size(l) + n
      <3>1. CASE 2 <= n
        BY <1>10, <1>13, <1>16, <1>17, <1>20, <2>1, <2>3, <2>4, <3>1, SMTT(30) DEF n, M
      <3>2. CASE ~(2 <= n)
        BY <1>10, <1>13, <1>16, <1>17, <1>20, <2>1, <2>3, <3>2, SMTT(30) DEF n, M
      <3> QED BY <3>1, <3>2
    <2>6. 3 <= n => Size(r2) < M
      BY <1>10, <2>1, <2>5, SMTT(30)
    <2>7. IF 3 <= n THEN Size(r3) = Size(l) + 3 ELSE Size(r3) = Size(l) + n
      <3>1. CASE 3 <= n
        BY <1>10, <1>14, <1>16, <1>17, <1>20, <2>1, <2>5, <2>6, <3>1, SMTT(30) DEF n, M
      <3>2. CASE ~(3 <= n)
        BY <1>10, <1>14, <1>16, <1>17, <1>20, <2>1, <2>5, <3>2, SMTT(30) DEF n, M
      <3> QED BY <3>1, <3>2
    <2>8. 4 <= n => Size(r3) < M
      BY <1>10, <2>1, <2>7, SMTT(30)
    <2>9. Size(r4) = Size(l) + n
      <3>1. CASE 4 <= n
        BY <1>10, <1>15, <1>16, <1>17, <1>20, <2>1, <2>7, <2>8, <3>1 DEF n, M
      <3>2. CASE ~(4 <= n)
        BY <1>10, <1>15, <1>16, <1>17, <1>20, <2>1, <2>7, <3>2, SMTT(30) DEF n, M
      <3> QED BY <3>1, <3>2
    <2> QED BY <2>2, <2>4, <2>6, <2>8, <2>9 DEF n, M
  <1>18. ASSUME Fits(l, hs), NEW k \in 1..Len(hs)
         PROVE  HasHeader(r4, hs[k].name, hs[k].value)
    <2>1. hs[k].name \in HeaderNames /\ hs[k].value \in HeaderValues
      BY <1>4
    <2>2. CASE k = 1
      BY <1>2, <1>11, <1>12, <1>16, <1>17, <1>18, <1>20, <2>1, <2>2 DEF Extended
    <2>3. CASE k = 2
      BY <1>2, <1>11, <1>13, <1>16, <1>17, <1>18, <1>20, <2>1, <2>3 DEF Extended
    <2>4. CASE k = 3
      BY <1>2, <1>8, <1>14, <1>16, <1>17, <1>18, <1>20, <2>1, <2>4 DEF Extended
    <2>5. CASE k = 4
      BY <1>2, <1>15, <1>16, <1>17, <1>18, <1>20, <2>1, <2>5
    <2>6. k = 1 \/ k = 2 \/ k = 3 \/ k = 4
      BY <1>2
    <2> QED BY <2>2, <2>3, <2>4, <2>5, <2>6
  <1>19. ASSUME ~Fits(l, hs), AllFit(hs, Len(hs))
         PROVE  Size(r4) >= MAX_REQUEST_HEADER_COUNT
    <2>1. Size(l) + Len(hs) > MAX_REQUEST_HEADER_COUNT
      BY <1>2, <1>10, <1>16, <1>19
    <2>2. /\ 1 <= Len(hs) => AllFit(hs, 1)
          /\ 2 <= Len(hs) => AllFit(hs, 2)
          /\ 3 <= Len(hs) => AllFit(hs, 3)
          /\ 4 <= Len(hs) => AllFit(hs, 4)
      BY <1>19, <1>20
    <2> QED BY <1>2, <1>10, <1>12, <1>13, <1>14, <1>15, <2>1, <2>2, SMTT(30)
  <1> QED BY <1>1, <1>11, <1>17, <1>18, <1>19

-----------------------------------------------------------------------------
(* The canonical headers.                                                  *)

(* The walk meets every canonical header once, in the order of the list.   *)
LEMMA WalkFacts ==
  ASSUME NEW e \in Seq(Headers)
  PROVE  LET I == CanonicalIndices(e)
             n == Cardinality(I)
             w == Walk(e)
         IN  /\ StrictOrder(I, WalkOrder(e)) /\ n \in Nat /\ I \subseteq 1..Len(e)
             /\ w \in [1..n -> I]
             /\ \A i \in I : \E k \in 1..n : w[k] = i
             /\ \A k, j \in 1..n : k < j => w[k] < w[j]
             /\ Canonical(e) = [k \in 1..n |-> e[w[k]]]
  <1> DEFINE I == CanonicalIndices(e)
             n == Cardinality(I)
             w == Walk(e)
             R == WalkOrder(e)
  <1>1. I \subseteq 1..Len(e) /\ Len(e) \in Nat /\ DOMAIN e = 1..Len(e)
    BY DEF CanonicalIndices
  <1>2. \A i, j \in I : <<i, j>> \in R <=> i < j
    BY <1>1 DEF WalkOrder
  <1>3. \A i \in I : i \in Int
    BY <1>1
  <1>4. w = InOrder(I, R)
    BY DEF Walk
  <1>5. Canonical(e) = [k \in DOMAIN w |-> e[w[k]]]
    BY DEF Canonical
  <1>6. IsFiniteSet(I)
    <2>1. IsFiniteSet(1..Len(e))
      BY <1>1, FS_Interval
    <2> QED BY <1>1, <2>1, FS_Subset
  <1> HIDE DEF I, R, w
  <1>7. StrictOrder(I, R)
    <2>1. \A x \in I : <<x, x>> \notin R
      BY <1>2, <1>3
    <2>2. \A x, y \in I : x # y => <<x, y>> \in R \/ <<y, x>> \in R
      BY <1>2, <1>3
    <2>3. \A x, y, z \in I : <<x, y>> \in R /\ <<y, z>> \in R => <<x, z>> \in R
      BY <1>2, <1>3
    <2> QED BY <2>1, <2>2, <2>3 DEF StrictOrder
  <1>8. n \in Nat
    BY <1>6, FS_CardinalityType
  <1>9. w \in [1..n -> I] /\ \A i \in I : \E k \in 1..n : w[k] = i
    BY <1>4, <1>6, <1>7, InOrderLists
  <1>10. \A k, j \in 1..n : k < j => w[k] < w[j]
    <2>1. \A k, j \in 1..n : k < j => <<w[k], w[j]>> \in R
      BY <1>4, <1>6, <1>7, InOrderLists
    <2> QED BY <1>2, <1>9, <2>1
  <1>11. Canonical(e) = [k \in 1..n |-> e[w[k]]]
    BY <1>5, <1>9
  <1> QED BY <1>1, <1>7, <1>8, <1>9, <1>10, <1>11 DEF I, R, w

(* A header that is not canonical changes nothing of them.                 *)
LEMMA CanonicalKept ==
  ASSUME NEW e \in Seq(Headers), NEW r \in Seq(Headers), NEW m, Grown(e, r, m),
         ~IsCanonical(r[m])
  PROVE  Canonical(r) = Canonical(e)
  <1> DEFINE I == CanonicalIndices(e)
             J == CanonicalIndices(r)
             n == Cardinality(I)
             w == Walk(e)
             g == [k \in 1..n |-> Up(w[k], m)]
  <1>1. /\ n \in Nat /\ I \subseteq 1..Len(e)
        /\ w \in [1..n -> I]
        /\ \A i \in I : \E k \in 1..n : w[k] = i
        /\ \A k, j \in 1..n : k < j => w[k] < w[j]
        /\ Canonical(e) = [k \in 1..n |-> e[w[k]]]
    BY WalkFacts
  <1>2. /\ StrictOrder(J, WalkOrder(r))
        /\ Canonical(r) = [k \in 1..Cardinality(J) |-> r[Walk(r)[k]]]
    BY WalkFacts
  <1>3. /\ Len(e) \in Nat /\ Len(r) = Len(e) + 1 /\ m \in 1..(Len(e) + 1)
        /\ DOMAIN e = 1..Len(e) /\ DOMAIN r = 1..(Len(e) + 1)
        /\ \A i \in 1..Len(e) : r[Up(i, m)] = e[i]
    BY DEF Grown
  <1>4. /\ \A i \in 1..Len(e) : Up(i, m) \in 1..(Len(e) + 1) /\ Up(i, m) # m
        /\ \A i, j \in 1..Len(e) : i < j <=> Up(i, m) < Up(j, m)
        /\ \A j \in 1..(Len(e) + 1) : j # m => \E i \in 1..Len(e) : Up(i, m) = j
    BY <1>3, UpFacts
  <1>5. /\ \A i \in 1..Len(e) : i \in I <=> IsCanonical(e[i])
        /\ \A j \in 1..(Len(e) + 1) : j \in J <=> IsCanonical(r[j])
        /\ J \subseteq 1..(Len(e) + 1)
    BY <1>3 DEF CanonicalIndices
  <1>6. \A i, j \in 1..(Len(e) + 1) : i < j => <<i, j>> \in WalkOrder(r)
    BY <1>3 DEF WalkOrder
  <1> HIDE DEF I, J, n, w
  <1>7. g \in [1..n -> J]
    <2> SUFFICES ASSUME NEW k \in 1..n
                 PROVE  Up(w[k], m) \in J
      OBVIOUS
    <2>1. w[k] \in I /\ w[k] \in 1..Len(e)
      BY <1>1
    <2> QED BY <1>3, <1>4, <1>5, <2>1
  <1>8. \A j \in J : \E k \in 1..n : g[k] = j
    <2> TAKE j \in J
    <2>1. j \in 1..(Len(e) + 1) /\ j # m
      BY <1>5
    <2>2. PICK i \in 1..Len(e) : Up(i, m) = j
      BY <1>4, <2>1
    <2>3. i \in I
      BY <1>3, <1>5, <2>1, <2>2
    <2>4. PICK k \in 1..n : w[k] = i
      BY <1>1, <2>3
    <2> QED BY <2>2, <2>4
  <1>9. ASSUME NEW k \in 1..n, NEW j \in 1..n, k < j
        PROVE  <<g[k], g[j]>> \in WalkOrder(r)
    <2>1. w[k] \in 1..Len(e) /\ w[j] \in 1..Len(e) /\ w[k] < w[j]
      BY <1>1, <1>9
    <2>2. Up(w[k], m) < Up(w[j], m) /\ Up(w[k], m) \in 1..(Len(e) + 1)
          /\ Up(w[j], m) \in 1..(Len(e) + 1)
      BY <1>4, <2>1
    <2> QED BY <1>6, <2>2
  <1>10. \A k \in 1..n : r[g[k]] = e[w[k]]
    BY <1>1, <1>3
  <1> HIDE DEF g
  <1>11. Cardinality(J) = n /\ g = InOrder(J, WalkOrder(r))
    <2>1. \A k, j \in 1..n : k < j => <<g[k], g[j]>> \in WalkOrder(r)
      BY <1>9
    <2>2. n \in Nat /\ StrictOrder(J, WalkOrder(r))
      BY <1>1, <1>2
    <2>3. Cardinality(J) = n
      BY <1>7, <1>8, <2>1, <2>2, InOrderUnique
    <2>4. g = InOrder(J, WalkOrder(r))
      BY <1>7, <1>8, <2>1, <2>2, InOrderUnique, SMTT(30)
    <2> QED BY <2>3, <2>4
  <1>12. Walk(r) = g
    BY <1>11 DEF Walk, J
  <1> QED BY <1>1, <1>2, <1>10, <1>11, <1>12

(* A run of such headers.                                                  *)
LEMMA CanonicalKeptByAll ==
  ASSUME NEW l, SoundList(l), NEW hs \in Seq(Pairs),
         \A k \in 1..Len(hs) : ~IS_CANONICAL_HEADER_NAME(hs[k].name)
  PROVE  Canonical(SetAll(l, hs).entries) = Canonical(l.entries)
  <1>1. ASSUME NEW x, SoundList(x), NEW k \in Nat, k > 0
        PROVE  /\ SoundList(SetNth(x, hs, k))
               /\ Canonical(SetNth(x, hs, k).entries) = Canonical(x.entries)
    <2> DEFINE r == SetNth(x, hs, k)
    <2>1. SoundList(r)
      BY <1>1, OneIsSet DEF Extended
    <2>2. CASE k > Len(hs) \/ ~AllFit(hs, k) \/ ~(Size(x) < MAX_REQUEST_HEADER_COUNT)
      <3>1. r = x
        BY <1>1, <2>2, OneIsSet
      <3> QED BY <2>1, <3>1
    <2>3. CASE k <= Len(hs) /\ AllFit(hs, k) /\ Size(x) < MAX_REQUEST_HEADER_COUNT
      <3>1. PICK m \in 1..Size(r) : /\ Grown(x.entries, r.entries, m)
                                    /\ r.entries[m].name = hs[k].name
        BY <1>1, <2>3, OneIsSet
      <3>2. x.entries \in Seq(Headers) /\ r.entries \in Seq(Headers)
        BY <1>1, <2>1, ListFacts DEF SoundList
      <3>3. k \in 1..Len(hs)
        BY <1>1, <2>3
      <3>4. ~IsCanonical(r.entries[m])
        BY <3>1, <3>3 DEF IsCanonical
      <3> HIDE DEF r
      <3>5. Canonical(r.entries) = Canonical(x.entries)
        BY <3>1, <3>2, <3>4, CanonicalKept
      <3> QED BY <2>1, <3>5 DEF r
    <2>4. Len(hs) \in Nat
      OBVIOUS
    <2> QED BY <1>1, <2>2, <2>3, <2>4
  <1> DEFINE r1 == SetNth(l, hs, 1)
             r2 == SetNth(r1, hs, 2)
             r3 == SetNth(r2, hs, 3)
             r4 == SetNth(r3, hs, 4)
  <1>2. SetAll(l, hs) = r4
    BY DEF SetAll, SetNth
  <1>3. SoundList(r1) /\ Canonical(r1.entries) = Canonical(l.entries)
    BY <1>1
  <1> HIDE DEF r1
  <1>4. SoundList(r2) /\ Canonical(r2.entries) = Canonical(r1.entries)
    BY <1>1, <1>3
  <1> HIDE DEF r2
  <1>5. SoundList(r3) /\ Canonical(r3.entries) = Canonical(r2.entries)
    BY <1>1, <1>4
  <1> HIDE DEF r3
  <1>6. Canonical(r4.entries) = Canonical(r3.entries)
    BY <1>1, <1>5
  <1> QED BY <1>2, <1>3, <1>4, <1>5, <1>6

-----------------------------------------------------------------------------
(* Encoding and sorting parameters.                                        *)

(* What is encoded can be decoded.                                         *)
LEMMA DecodedAgain ==
  ASSUME NEW v \in Seq(Int)
  PROVE  Encoded(v) \in Seq(Int) /\ uriDecodeString(Encoded(v)) = v
  <1>1. \A c \in Int : /\ EncodedChar(c) \in Int
                       /\ (IF IsEscape(EncodedChar(c)) THEN Unescape(EncodedChar(c))
                                                       ELSE EncodedChar(c)) = c
    BY DEF EncodedChar, IsEscape, Unescape, Escape, Unreserved, DASH
  <1> DEFINE w == Encoded(v)
  <1>2. DOMAIN v = 1..Len(v) /\ Len(v) \in Nat
    OBVIOUS
  <1>3. w = [i \in 1..Len(v) |-> EncodedChar(v[i])]
    BY <1>2 DEF Encoded
  <1>4. w \in Seq(Int) /\ DOMAIN w = 1..Len(v)
    BY <1>1, <1>2, <1>3
  <1>5. \A i \in 1..Len(v) : w[i] = EncodedChar(v[i]) /\ v[i] \in Int
    BY <1>3
  <1> HIDE DEF w
  <1>6. uriDecodeString(w) = [i \in 1..Len(v) |-> v[i]]
    BY <1>1, <1>4, <1>5 DEF uriDecodeString
  <1>7. v = [i \in 1..Len(v) |-> v[i]]
    BY <1>2
  <1> QED BY <1>4, <1>6, <1>7 DEF w

(* A value with an unreserved character fits "3 times the size", and is    *)
(* then shorter than that by two.                                          *)
LEMMA RoomToEncode ==
  ASSUME NEW v \in Seq(Int), NEW k \in 1..Len(v), Unreserved(v[k])
  PROVE  /\ uriEncodeString(v, 3 * Len(v))
         /\ Written(v, Len(v) + 1) \in Nat /\ Written(v, Len(v) + 1) <= 3 * Len(v) - 2
  <1> DEFINE n == Len(v)
             C(i) == Cardinality({j \in 1..(i - 1) : ~Unreserved(v[j])})
  <1>1. n \in Nat /\ DOMAIN v = 1..n /\ k \in 1..n
    OBVIOUS
  <1>2. ASSUME NEW i \in 1..(n + 1)
        PROVE  C(i) \in Nat /\ C(i) <= i - 1 /\ (k < i => C(i) <= i - 2)
    <2> DEFINE S == {j \in 1..(i - 1) : ~Unreserved(v[j])}
    <2>1. IsFiniteSet(1..(i - 1)) /\ Cardinality(1..(i - 1)) = i - 1
      <3> DEFINE b == i - 1
      <3>1. b \in Nat
        BY <1>1
      <3> HIDE DEF b
      <3>2. IsFiniteSet(1..b) /\ Cardinality(1..b) = b
        BY <3>1, UpTo
      <3> QED BY <3>2 DEF b
    <2>2. S \in SUBSET (1..(i - 1)) /\ k \notin S
      OBVIOUS
    <2>3. S \in SUBSET ((1..(i - 1)) \ {k})
      BY <2>2
    <2> HIDE DEF S
    <2>4. IsFiniteSet(S) /\ Cardinality(S) <= i - 1
      BY <2>1, <2>2, FS_Subset, ZenonT(30)
    <2>5. Cardinality(S) \in Nat
      BY <2>4, FS_CardinalityType
    <2>6. ASSUME k < i
          PROVE  Cardinality(S) <= i - 2
      <3>1. k \in 1..(i - 1)
        BY <1>1, <2>6
      <3> DEFINE T == (1..(i - 1)) \ {k}
      <3>2. IsFiniteSet(T) /\ Cardinality(T) = (i - 1) - 1
        BY <2>1, <3>1, FS_RemoveElement, ZenonT(30)
      <3>3. S \in SUBSET T
        BY <2>3
      <3> HIDE DEF T
      <3>4. Cardinality(S) <= Cardinality(T)
        BY <3>2, <3>3, FS_Subset
      <3> QED BY <1>1, <2>5, <3>2, <3>4
    <2> QED BY <2>4, <2>5, <2>6 DEF S
  <1>3. \A i \in 1..(n + 1) : Written(v, i) = (i - 1) + 2 * C(i)
    BY DEF Written
  <1> HIDE DEF C, n
  <1>5. ASSUME NEW i \in 1..n
        PROVE  3 * n - Written(v, i) > IF Unreserved(v[i]) THEN 0 ELSE 3
    <2> DEFINE c == C(i)
               w == Written(v, i)
               room == 3 * n - w
    <2>1. i \in Nat /\ i >= 1 /\ i <= n /\ i \in 1..(n + 1)
      BY <1>1
    <2>2. c \in Nat /\ c <= i - 1 /\ (k < i => c <= i - 2) /\ w = (i - 1) + 2 * c
      BY <1>2, <1>3, <2>1
    <2>3. room = 3 * n - w
      OBVIOUS
    <2> HIDE DEF c, w, room
    <2>4. room > 0
      BY <1>1, <2>1, <2>2, <2>3
    <2>5. CASE k < i
      <3>1. room > 3
        BY <1>1, <2>1, <2>2, <2>3, <2>5
      <3> QED BY <2>4, <3>1 DEF room, w
    <2>6. CASE i < k
      <3>1. i <= n - 1
        BY <1>1, <2>1, <2>6
      <3>2. room > 3
        BY <1>1, <2>1, <2>2, <2>3, <3>1
      <3> QED BY <2>4, <3>2 DEF room, w
    <2>7. CASE i = k
      <3>1. Unreserved(v[i])
        BY <2>7
      <3> QED BY <2>4, <3>1 DEF room, w
    <2> QED BY <1>1, <2>1, <2>5, <2>6, <2>7
  <1>6. 3 * n > Written(v, n + 1) /\ Written(v, n + 1) \in Nat /\ Written(v, n + 1) <= 3 * n - 2
    <2> DEFINE m == n + 1
    <2>1. m \in 1..m /\ k < m /\ m = n + 1 /\ m \in Nat
      BY <1>1
    <2> HIDE DEF m
    <2>2. /\ C(m) \in Nat /\ C(m) <= m - 2 /\ Written(v, m) = (m - 1) + 2 * C(m)
      BY <1>2, <1>3, <2>1
    <2>3. 3 * n > Written(v, m) /\ Written(v, m) \in Nat /\ Written(v, m) <= 3 * n - 2
      BY <1>1, <2>1, <2>2
    <2> QED BY <2>3 DEF m
  <1>7. v # << >>
    BY <1>1 DEF n
  <1> QED BY <1>1, <1>5, <1>6, <1>7 DEF uriEncodeString, n

(* So a parameter that is bloated to the length of a URL at most, with     *)
(* such a value, can be encoded.                                           *)
LEMMA BloatedIsEncodable ==
  ASSUME NEW p \in Params, NEW k \in 1..Len(p.value), Unreserved(p.value[k]),
         Bloated(p) <= MAX_URI_CHAR_LEN
  PROVE  Encodable(p)
  <1> DEFINE v == p.value
             n == Len(p.name)
             m == Len(v)
             w == Written(v, m + 1)
  <1>1. v \in Seq(Int) /\ p.name \in Seq(Int) /\ n \in Nat /\ m \in Nat
    BY DEF Params
  <1>2. uriEncodeString(v, 3 * m) /\ w \in Nat /\ w <= 3 * m - 2
    BY <1>1, RoomToEncode
  <1>3. Bloated(p) = n + 1 + 3 * m + 1
    BY DEF Bloated
  <1>4. Capacity(p) = Bloated(p) - n - 1 - 1
    BY DEF Capacity
  <1> HIDE DEF w, m, n
  <1>5. Capacity(p) = 3 * m
    BY <1>1, <1>3, <1>4
  <1>6. n + 1 + w + 1 < MAX_URI_CHAR_LEN
    BY <1>1, <1>2, <1>3, SigningAssumption
  <1> QED BY <1>2, <1>5, <1>6 DEF Encodable, w, m, n

(* STRCMP is a strict total order.                                         *)
LEMMA StrCmpTotal ==
  ASSUME NEW s \in Seq(Int), NEW t \in Seq(Int), s # t
  PROVE  StrCmpLess(s, t) \/ StrCmpLess(t, s)
  <1> DEFINE D == {k \in 1..Len(s) : k <= Len(t) /\ s[k] # t[k]}
  <1>1. /\ Len(s) \in Nat /\ Len(t) \in Nat
        /\ \A k \in 1..Len(s) : s[k] \in Int
        /\ \A k \in 1..Len(t) : t[k] \in Int
    OBVIOUS
  <1>2. CASE D = {}
    <2>1. \A k \in 1..Len(s) : k <= Len(t) => s[k] = t[k]
      BY <1>2
    <2>2. CASE Len(s) = Len(t)
      <3>1. \A i \in 1..Len(s) : s[i] = t[i]
        BY <1>1, <2>1, <2>2
      <3> QED BY <2>2, <3>1, SeqEqual
    <2>3. CASE Len(s) < Len(t)
      <3>1. \A j \in 1..Len(s) : s[j] = t[j]
        BY <1>1, <2>1, <2>3
      <3> QED BY <2>3, <3>1 DEF StrCmpLess
    <2>4. CASE Len(t) < Len(s)
      <3>1. \A j \in 1..Len(t) : t[j] = s[j]
        BY <1>1, <2>1, <2>4
      <3> QED BY <2>4, <3>1 DEF StrCmpLess
    <2> QED BY <1>1, <2>2, <2>3, <2>4
  <1>3. CASE D # {}
    <2> DEFINE k == First(D)
    <2>1. D \in SUBSET Nat
      BY <1>1
    <2> HIDE DEF D
    <2>2. k \in D /\ \A j \in D : k <= j
      BY <1>3, <2>1, LeastMember
    <2> HIDE DEF k
    <2>3. k \in 1..Len(s) /\ k \in 1..Len(t) /\ s[k] # t[k]
      BY <1>1, <2>2 DEF D
    <2>4. \A j \in 1..(k - 1) : s[j] = t[j]
      <3> TAKE j \in 1..(k - 1)
      <3>1. j \notin D
        BY <2>1, <2>2
      <3>2. j \in 1..Len(s) /\ j <= Len(t)
        BY <1>1, <2>3, SMTT(30)
      <3> QED BY <3>1, <3>2 DEF D
    <2>5. s[k] < t[k] \/ t[k] < s[k]
      BY <1>1, <2>3, SMTT(30)
    <2>6. CASE s[k] < t[k]
      BY <1>1, <2>3, <2>4, <2>6 DEF StrCmpLess
    <2>7. CASE t[k] < s[k]
      <3>1. \A j \in 1..(k - 1) : t[j] = s[j]
        BY <2>4
      <3>2. k \in 1..Len(t) /\ k <= Len(s)
        BY <1>1, <2>3
      <3> QED BY <2>7, <3>1, <3>2 DEF StrCmpLess
    <2> QED BY <2>5, <2>6, <2>7
  <1> QED BY <1>2, <1>3

LEMMA StrCmpIrreflexive ==
  ASSUME NEW s \in Seq(Int)
  PROVE  ~StrCmpLess(s, s)
  <1>1. Len(s) \in Nat /\ \A k \in 1..Len(s) : s[k] \in Int
    OBVIOUS
  <1> QED BY <1>1 DEF StrCmpLess

LEMMA StrCmpTransitive ==
  ASSUME NEW s \in Seq(Int), NEW t \in Seq(Int), NEW u \in Seq(Int),
         StrCmpLess(s, t), StrCmpLess(t, u)
  PROVE  StrCmpLess(s, u)
  <1> DEFINE At(x, y, k) == /\ k \in 1..Len(x) /\ k <= Len(y) /\ x[k] < y[k]
                            /\ \A j \in 1..(k - 1) : x[j] = y[j]
             Pre(x, y) == Len(x) < Len(y) /\ \A j \in 1..Len(x) : x[j] = y[j]
  <1>1. /\ Len(s) \in Nat /\ Len(t) \in Nat /\ Len(u) \in Nat
        /\ \A k \in 1..Len(s) : s[k] \in Int
        /\ \A k \in 1..Len(t) : t[k] \in Int
        /\ \A k \in 1..Len(u) : u[k] \in Int
    OBVIOUS
  <1>2. /\ (\E k \in 1..Len(s) : At(s, t, k)) \/ Pre(s, t)
        /\ (\E k \in 1..Len(t) : At(t, u, k)) \/ Pre(t, u)
    BY DEF StrCmpLess
  <1>3. (\E k \in 1..Len(s) : At(s, u, k)) \/ Pre(s, u) => StrCmpLess(s, u)
    BY DEF StrCmpLess
  <1>4. ASSUME NEW a \in 1..Len(s), At(s, t, a), NEW b \in 1..Len(t), At(t, u, b)
        PROVE  \E k \in 1..Len(s) : At(s, u, k)
    <2>1. a \in 1..Len(t) /\ b \in 1..Len(u)
      BY <1>1, <1>4
    <2>2. CASE a < b
      <3>1. t[a] = u[a] /\ a <= Len(u) /\ \A j \in 1..(a - 1) : s[j] = u[j]
        BY <1>1, <1>4, <2>1, <2>2, SMTT(30)
      <3> QED BY <1>4, <3>1
    <2>3. CASE a = b
      <3>1. s[a] < u[a]
        BY <1>1, <1>4, <2>1, <2>3, SMTT(30)
      <3>2. a <= Len(u) /\ \A j \in 1..(a - 1) : s[j] = u[j]
        BY <1>1, <1>4, <2>1, <2>3
      <3> QED BY <3>1, <3>2
    <2>4. CASE b < a
      <3>1. b \in 1..Len(s) /\ b \in 1..(a - 1) /\ b <= Len(u)
        BY <1>1, <2>1, <2>4
      <3>2. s[b] = t[b] /\ t[b] < u[b]
        BY <1>4, <3>1
      <3>3. \A j \in 1..(b - 1) : s[j] = u[j]
        <4> TAKE j \in 1..(b - 1)
        <4>1. j \in 1..(a - 1)
          BY <2>1, <2>4
        <4> QED BY <1>4, <4>1
      <3> QED BY <3>1, <3>2, <3>3
    <2> QED BY <1>1, <2>2, <2>3, <2>4
  <1>5. ASSUME NEW a \in 1..Len(s), At(s, t, a), Pre(t, u)
        PROVE  At(s, u, a)
    BY <1>1, <1>5, SMTT(30)
  <1>6. ASSUME Pre(s, t), NEW b \in 1..Len(t), At(t, u, b)
        PROVE  (\E k \in 1..Len(s) : At(s, u, k)) \/ Pre(s, u)
    <2>1. CASE b <= Len(s)
      <3>1. b \in 1..Len(s) /\ s[b] = t[b] /\ \A j \in 1..(b - 1) : s[j] = u[j]
        BY <1>1, <1>6, <2>1
      <3> QED BY <1>6, <3>1
    <2>2. CASE ~(b <= Len(s))
      <3>1. Len(s) < Len(u) /\ \A j \in 1..Len(s) : s[j] = u[j]
        BY <1>1, <1>6, <2>2, SMTT(30)
      <3> QED BY <3>1
    <2> QED BY <2>1, <2>2
  <1>7. ASSUME Pre(s, t), Pre(t, u)
        PROVE  Pre(s, u)
    BY <1>1, <1>7
  <1> HIDE DEF At, Pre
  <1> QED BY <1>2, <1>3, <1>4, <1>5, <1>6, <1>7

(* The text of a parameter, character by character.                        *)
LEMMA TextFacts ==
  ASSUME NEW p \in Params
  PROVE  /\ Text(p) \in Seq(Int)
         /\ Len(p.name) \in Nat /\ Len(p.value) \in Nat
         /\ Len(Text(p)) = Len(p.name) + 1 + Len(p.value)
         /\ \A i \in 1..Len(p.name) : Text(p)[i] = p.name[i]
         /\ Text(p)[Len(p.name) + 1] = EQUALS
         /\ \A i \in 1..Len(p.value) : Text(p)[Len(p.name) + 1 + i] = p.value[i]
  <1> DEFINE a == p.name
             b == p.value
             c == a \o <<EQUALS>>
             t == c \o b
  <1>1. a \in Seq(Int) /\ b \in Seq(Int) /\ Len(a) \in Nat /\ Len(b) \in Nat
    BY DEF Params
  <1>2. <<EQUALS>> \in Seq(Int) /\ Len(<<EQUALS>>) = 1 /\ <<EQUALS>>[1] = EQUALS
    BY DEF EQUALS
  <1>3. /\ c \in Seq(Int) /\ Len(c) = Len(a) + 1
        /\ \A i \in 1..Len(a) : c[i] = a[i]
        /\ c[Len(a) + 1] = EQUALS
    <2>1. /\ c \in Seq(Int) /\ Len(c) = Len(a) + Len(<<EQUALS>>)
          /\ \A i \in 1..(Len(a) + Len(<<EQUALS>>)) :
               c[i] = IF i <= Len(a) THEN a[i] ELSE <<EQUALS>>[i - Len(a)]
      BY <1>1, <1>2, ConcatProperties
    <2> HIDE DEF c, a, b
    <2>2. Len(c) = Len(a) + 1
      BY <1>1, <1>2, <2>1
    <2>3. \A i \in 1..Len(a) : c[i] = a[i]
      BY <1>1, <1>2, <2>1
    <2>4. c[Len(a) + 1] = EQUALS
      <3>1. Len(a) + 1 \in 1..(Len(a) + Len(<<EQUALS>>)) /\ ~(Len(a) + 1 <= Len(a))
            /\ (Len(a) + 1) - Len(a) = 1
        BY <1>1, <1>2
      <3> QED BY <1>2, <2>1, <3>1
    <2> QED BY <2>1, <2>2, <2>3, <2>4
  <1>4. Text(p) = t
    BY DEF Text
  <1> HIDE DEF a, b, c
  <1>5. /\ t \in Seq(Int) /\ Len(t) = Len(c) + Len(b)
        /\ \A i \in 1..(Len(c) + Len(b)) : t[i] = IF i <= Len(c) THEN c[i] ELSE b[i - Len(c)]
    BY <1>1, <1>3, ConcatProperties
  <1> HIDE DEF t
  <1>6. \A i \in 1..(Len(a) + 1) : t[i] = c[i]
    <2> TAKE i \in 1..(Len(a) + 1)
    <2>1. i \in 1..(Len(c) + Len(b)) /\ i <= Len(c)
      BY <1>1, <1>3
    <2> QED BY <1>5, <2>1
  <1>7. \A i \in 1..Len(b) : t[Len(a) + 1 + i] = b[i]
    <2> TAKE i \in 1..Len(b)
    <2>1. /\ Len(a) + 1 + i \in 1..(Len(c) + Len(b)) /\ ~(Len(a) + 1 + i <= Len(c))
          /\ (Len(a) + 1 + i) - Len(c) = i
      BY <1>1, <1>3, SMTT(30)
    <2> QED BY <1>5, <2>1
  <1>8. Len(t) = Len(a) + 1 + Len(b)
    BY <1>1, <1>3, <1>5
  <1>9. \A i \in 1..Len(a) : t[i] = a[i]
    BY <1>1, <1>3, <1>6, SMTT(30)
  <1>10. t[Len(a) + 1] = EQUALS
    BY <1>1, <1>3, <1>6
  <1> QED BY <1>1, <1>4, <1>5, <1>7, <1>8, <1>9, <1>10 DEF a, b

(* The sorted list of parameters that insertion leads to.                  *)
LEMMA ParamsAreSorted ==
  ASSUME NEW ps \in Seq(Params)
  PROVE  LET qs == Arranged(ps, TextOrder(ps))
         IN  /\ qs \in Seq(Params) /\ Len(qs) = Len(ps)
             /\ \A i \in 1..Len(ps) : \E j \in 1..Len(ps) : qs[i] = ps[j]
             /\ \A i, j \in 1..Len(ps) : i < j => ~TextLess(qs[j], qs[i])
  <1> DEFINE n == Len(ps)
             D == 1..n
             R == TextOrder(ps)
             f == InOrder(D, R)
             qs == Arranged(ps, R)
             T(i) == Text(ps[i])
             L(i, j) == StrCmpLess(T(i), T(j))
  <1>1. n \in Nat /\ DOMAIN ps = D /\ \A i \in D : ps[i] \in Params
    OBVIOUS
  <1>2. \A i \in D : T(i) \in Seq(Int)
    BY <1>1, TextFacts
  <1>3. \A i, j \in D : <<i, j>> \in R <=> L(i, j) \/ (~L(j, i) /\ i < j)
    BY <1>1 DEF TextOrder, TextLess
  <1>4. qs = [k \in D |-> ps[f[k]]]
    BY <1>1 DEF Arranged
  <1> HIDE DEF R, T
  <1>5. \A i, j \in D : L(i, j) \/ L(j, i) \/ T(i) = T(j)
    BY <1>2, StrCmpTotal
  <1>6. \A i, j \in D : T(i) = T(j) => ~L(i, j)
    BY <1>2, StrCmpIrreflexive
  <1>7. \A i, j, k \in D : L(i, j) /\ L(j, k) => L(i, k)
    BY <1>2, StrCmpTransitive
  <1>8. \A i, j, k \in D : /\ T(i) = T(j) /\ L(j, k) => L(i, k)
                           /\ L(i, j) /\ T(j) = T(k) => L(i, k)
    OBVIOUS
  <1>9. \A i \in D : i \in Int
    BY <1>1
  <1>10. \A i, j \in D : L(i, j) => ~L(j, i)
    BY <1>6, <1>7
  <1> HIDE DEF D, L
  <1>11. \A i, j \in D : <<i, j>> \in R <=> L(i, j) \/ (T(i) = T(j) /\ i < j)
    BY <1>3, <1>5, <1>6, ZenonT(30)
  <1>12. StrictOrder(D, R)
    <2>1. \A x \in D : <<x, x>> \notin R
      BY <1>6, <1>9, <1>11
    <2>2. \A x, y \in D : x # y => <<x, y>> \in R \/ <<y, x>> \in R
      <3> SUFFICES ASSUME NEW x \in D, NEW y \in D, x # y
                   PROVE  <<x, y>> \in R \/ <<y, x>> \in R
        OBVIOUS
      <3>1. x < y \/ y < x
        BY <1>9
      <3> QED BY <1>5, <1>11, <3>1
    <2>3. ASSUME NEW x \in D, NEW y \in D, NEW z \in D, <<x, y>> \in R, <<y, z>> \in R
          PROVE  <<x, z>> \in R
      <3>1. x < y /\ y < z => x < z
        BY <1>9
      <3>2. /\ L(x, y) \/ (T(x) = T(y) /\ x < y)
            /\ L(y, z) \/ (T(y) = T(z) /\ y < z)
        BY <1>11, <2>3
      <3>3. L(x, z) \/ (T(x) = T(z) /\ x < z)
        BY <1>7, <1>8, <3>1, <3>2
      <3> QED BY <1>11, <3>3
    <2> QED BY <2>1, <2>2, <2>3 DEF StrictOrder
  <1>13. IsFiniteSet(D) /\ Cardinality(D) = n
    BY <1>1, UpTo DEF D
  <1>14. f \in [1..n -> D]
    BY <1>12, <1>13, InOrderLists
  <1>15. \A k, l \in 1..n : k < l => <<f[k], f[l]>> \in R
    BY <1>12, <1>13, InOrderLists
  <1> HIDE DEF f
  <1>16. \A k \in D : qs[k] = ps[f[k]] /\ f[k] \in D
    BY <1>4, <1>14 DEF D
  <1>17. qs \in Seq(Params) /\ Len(qs) = n
    <2>1. qs \in [1..n -> Params]
      BY <1>1, <1>4, <1>14 DEF D
    <2> HIDE DEF qs
    <2> QED BY <1>1, <2>1
  <1>18. ASSUME NEW i \in D, NEW j \in D, i < j
         PROVE  ~TextLess(qs[j], qs[i])
    <2>1. <<f[i], f[j]>> \in R /\ f[i] \in D /\ f[j] \in D
      BY <1>15, <1>16, <1>18 DEF D
    <2>2. ~L(f[j], f[i])
      BY <1>6, <1>10, <1>11, <2>1
    <2> QED BY <1>16, <2>2 DEF L, T, TextLess
  <1> HIDE DEF qs
  <1>19. \A i \in D : \E j \in D : qs[i] = ps[j]
    BY <1>16
  <1> QED BY <1>17, <1>18, <1>19 DEF D, R, qs

(* The receiver's order of names and values is that of the texts, as long  *)
(* as no name goes on behind another one with a character below '='.       *)
LEMMA NamesOrderTexts ==
  ASSUME NEW p \in Params, NEW q \in Params, NameThenValueLess(p, q),
         Len(p.name) < Len(q.name) /\ SubSeq(q.name, 1, Len(p.name)) = p.name
           => q.name[Len(p.name) + 1] > EQUALS
  PROVE  TextLess(p, q)
  <1> DEFINE a == p.name
             b == q.name
             s == Text(p)
             t == Text(q)
  <1>1. /\ a \in Seq(Int) /\ b \in Seq(Int) /\ p.value \in Seq(Int) /\ q.value \in Seq(Int)
        /\ Len(a) \in Nat /\ Len(b) \in Nat /\ Len(p.value) \in Nat /\ Len(q.value) \in Nat
    BY SMTT(30) DEF Params
  <1>2. /\ Len(s) = Len(a) + 1 + Len(p.value)
        /\ \A i \in 1..Len(a) : s[i] = a[i]
        /\ s[Len(a) + 1] = EQUALS
        /\ \A i \in 1..Len(p.value) : s[Len(a) + 1 + i] = p.value[i]
    BY TextFacts
  <1>3. /\ Len(t) = Len(b) + 1 + Len(q.value)
        /\ \A i \in 1..Len(b) : t[i] = b[i]
        /\ t[Len(b) + 1] = EQUALS
        /\ \A i \in 1..Len(q.value) : t[Len(b) + 1 + i] = q.value[i]
    BY TextFacts
  <1> SUFFICES StrCmpLess(s, t)
    BY DEF TextLess
  <1>4. Len(a) < Len(b) /\ SubSeq(b, 1, Len(a)) = a => b[Len(a) + 1] > EQUALS
    OBVIOUS
  <1>5. StrCmpLess(a, b) \/ (a = b /\ StrCmpLess(p.value, q.value))
    BY DEF NameThenValueLess
  <1> HIDE DEF a, b, s, t
  <1>6. /\ Len(s) \in Nat /\ Len(t) \in Nat
        /\ Len(a) + 1 <= Len(s) /\ Len(b) + 1 <= Len(t)
    <2> DEFINE x == Len(p.value)
               y == Len(q.value)
    <2>1. x \in Nat /\ y \in Nat /\ Len(s) = Len(a) + 1 + x /\ Len(t) = Len(b) + 1 + y
      BY <1>1, <1>2, <1>3
    <2> HIDE DEF x, y
    <2> QED BY <1>1, <2>1
  <1>7. ASSUME NEW k \in 1..Len(s), k <= Len(t), s[k] < t[k],
               \A j \in 1..(k - 1) : s[j] = t[j]
        PROVE  StrCmpLess(s, t)
    BY <1>7 DEF StrCmpLess
  <1>8. CASE StrCmpLess(a, b)
    <2>1. CASE \E k \in 1..Len(a) :
                 /\ k <= Len(b) /\ a[k] < b[k]
                 /\ \A j \in 1..(k-1) : a[j] = b[j]
      <3>1. PICK k \in 1..Len(a) : /\ k <= Len(b) /\ a[k] < b[k]
                                   /\ \A j \in 1..(k-1) : a[j] = b[j]
        BY <2>1
      <3>2. k \in 1..Len(s) /\ k <= Len(t) /\ k \in 1..Len(b)
        <4>1. k \in Nat /\ 1 <= k /\ k <= Len(a) /\ k <= Len(b)
          BY <1>1, <3>1
        <4> QED BY <1>1, <1>6, <4>1, SMTT(30)
      <3>3. s[k] = a[k] /\ t[k] = b[k]
        BY <1>2, <1>3, <3>2
      <3>4. \A j \in 1..(k - 1) : s[j] = t[j]
        <4> TAKE j \in 1..(k - 1)
        <4>1. j \in 1..Len(a) /\ j \in 1..Len(b)
          BY <1>1, <3>2, SMTT(30)
        <4> QED BY <1>2, <1>3, <3>1, <4>1
      <3> QED BY <1>7, <3>1, <3>2, <3>3, <3>4
    <2>2. CASE Len(a) < Len(b) /\ \A j \in 1..Len(a) : a[j] = b[j]
      <3> DEFINE k == Len(a) + 1
                 c == SubSeq(b, 1, Len(a))
      <3>1. c = a
        <4>1. c \in Seq(Int) /\ Len(c) = Len(a) /\ \A i \in 1..Len(a) : c[i] = b[i]
          BY <1>1, <2>2
        <4> HIDE DEF c
        <4>2. \A i \in 1..Len(c) : c[i] = a[i]
          BY <2>2, <4>1
        <4> QED BY <1>1, <4>1, <4>2, SeqEqual
      <3>2. b[k] > EQUALS
        BY <1>4, <2>2, <3>1
      <3>3. k \in 1..Len(s) /\ k <= Len(t) /\ k \in 1..Len(b) /\ k - 1 = Len(a)
        BY <1>1, <1>6, <2>2, SMTT(30)
      <3>4. s[k] < t[k]
        <4>1. s[k] = EQUALS
          BY <1>2
        <4>2. t[k] = b[k]
          BY <1>3, <3>3
        <4>3. b[k] \in Int
          BY <1>1, <3>3
        <4> QED BY <3>2, <4>1, <4>2, <4>3 DEF EQUALS
      <3>5. \A j \in 1..(k - 1) : s[j] = t[j]
        <4> TAKE j \in 1..(k - 1)
        <4>1. j \in 1..Len(a) /\ j \in 1..Len(b)
          BY <1>1, <2>2
        <4> QED BY <1>2, <1>3, <2>2, <4>1
      <3> HIDE DEF k
      <3> QED BY <1>7, <3>3, <3>4, <3>5
    <2> QED BY <1>8, <2>1, <2>2 DEF StrCmpLess
  <1>9. CASE a = b /\ StrCmpLess(p.value, q.value)
    <2> DEFINE u == p.value
               v == q.value
               m == Len(a) + 1
    <2>1. m \in Nat /\ Len(s) = m + Len(u) /\ Len(t) = m + Len(v)
      BY <1>1, <1>2, <1>3, <1>9
    <2>2. \A j \in 1..m : s[j] = t[j]
      <3> TAKE j \in 1..m
      <3>1. CASE j = m
        BY <1>2, <1>3, <1>9, <3>1
      <3>2. CASE j # m
        <4>1. j \in 1..Len(a)
          BY <1>1, <3>2
        <4> QED BY <1>2, <1>3, <1>9, <4>1
      <3> QED BY <3>1, <3>2
    <2>3. /\ \A j \in 1..Len(u) : s[m + j] = u[j]
          /\ \A j \in 1..Len(v) : t[m + j] = v[j]
      BY <1>2, <1>3, <1>9
    <2> HIDE DEF u, v, m
    <2>4. Len(u) \in Nat /\ Len(v) \in Nat
      BY <1>1 DEF u, v
    <2>5. ASSUME NEW k \in Nat, k <= Len(u), k <= Len(v), \A j \in 1..k : u[j] = v[j]
          PROVE  \A j \in 1..(m + k) : s[j] = t[j]
      <3> TAKE j \in 1..(m + k)
      <3>1. CASE j <= m
        BY <2>1, <2>2, <3>1
      <3>2. CASE ~(j <= m)
        <4>1. j - m \in 1..k /\ m + (j - m) = j /\ j - m \in 1..Len(u) /\ j - m \in 1..Len(v)
          BY <2>1, <2>4, <2>5, <3>2
        <4> QED BY <2>3, <2>5, <4>1
      <3> QED BY <3>1, <3>2
    <2>6. CASE \E k \in 1..Len(u) :
                 /\ k <= Len(v) /\ u[k] < v[k]
                 /\ \A j \in 1..(k-1) : u[j] = v[j]
      <3>1. PICK k \in 1..Len(u) : /\ k <= Len(v) /\ u[k] < v[k]
                                   /\ \A j \in 1..(k-1) : u[j] = v[j]
        BY <2>6
      <3>2. k - 1 \in Nat /\ k - 1 <= Len(u) /\ k - 1 <= Len(v) /\ k \in 1..Len(v)
        BY <2>4, <3>1
      <3>3. \A j \in 1..(m + (k - 1)) : s[j] = t[j]
        BY <2>5, <3>1, <3>2
      <3>4. /\ m + k \in 1..Len(s) /\ m + k <= Len(t) /\ (m + k) - 1 = m + (k - 1)
        BY <2>1, <2>4, <3>1
      <3>5. s[m + k] < t[m + k]
        BY <2>3, <3>1, <3>2
      <3> QED BY <1>7, <3>3, <3>4, <3>5
    <2>7. CASE Len(u) < Len(v) /\ \A j \in 1..Len(u) : u[j] = v[j]
      <3>1. Len(s) < Len(t)
        BY <2>1, <2>4, <2>7
      <3>2. \A j \in 1..Len(s) : s[j] = t[j]
        <4>1. Len(u) <= Len(u) /\ Len(u) <= Len(v)
          BY <2>4, <2>7
        <4>2. \A j \in 1..(m + Len(u)) : s[j] = t[j]
          BY <2>4, <2>5, <2>7, <4>1
        <4> QED BY <2>1, <4>2
      <3> QED BY <3>1, <3>2 DEF StrCmpLess
    <2> QED BY <1>9, <2>6, <2>7 DEF StrCmpLess, u, v
  <1> QED BY <1>8, <1>9, <1>5

(* The receiver finds the parameters in its order already.                 *)
LEMMA ReceiverKeepsOrder ==
  ASSUME NEW ps \in Seq(Params),
         \A i, j \in 1..Len(ps) : i < j => ~TextLess(ps[j], ps[i]),
         \A i, j \in 1..Len(ps) :
           Len(ps[i].name) < Len(ps[j].name)
             /\ SubSeq(ps[j].name, 1, Len(ps[i].name)) = ps[i].name
             => ps[j].name[Len(ps[i].name) + 1] > EQUALS
  PROVE  Arranged(ps, NameThenValueOrder(ps)) = ps
  <1> DEFINE n == Len(ps)
             D == 1..n
             R == NameThenValueOrder(ps)
             N(i, j) == NameThenValueLess(ps[i], ps[j])
             g == [k \in 1..n |-> k]
  <1>1. n \in Nat /\ DOMAIN ps = D /\ \A i \in D : ps[i] \in Params
    OBVIOUS
  <1>2. \A i, j \in D : <<i, j>> \in R <=> N(i, j) \/ (~N(j, i) /\ i < j)
    BY <1>1 DEF NameThenValueOrder
  <1>3. ASSUME NEW i \in D, NEW j \in D, i < j
        PROVE  ~N(j, i)
    <2> SUFFICES ASSUME N(j, i)
                 PROVE  FALSE
      OBVIOUS
    <2>1. Len(ps[j].name) < Len(ps[i].name)
             /\ SubSeq(ps[i].name, 1, Len(ps[j].name)) = ps[j].name
             => ps[i].name[Len(ps[j].name) + 1] > EQUALS
      OBVIOUS
    <2>2. TextLess(ps[j], ps[i])
      BY <1>1, <2>1, NamesOrderTexts
    <2> QED BY <1>3, <2>2
  <1>4. \A i \in D : i \in Int
    BY <1>1
  <1> HIDE DEF R, N
  <1>5. ASSUME NEW i \in D
        PROVE  <<i, i>> \notin R
    <2>1. ~NameThenValueLess(ps[i], ps[i])
      <3>1. ps[i].name \in Seq(Int) /\ ps[i].value \in Seq(Int)
        BY <1>1 DEF Params
      <3> QED BY <3>1, StrCmpIrreflexive DEF NameThenValueLess
    <2> QED BY <1>2, <1>4, <2>1 DEF N
  <1>6. \A i, j \in D : i < j => <<i, j>> \in R
    BY <1>2, <1>3
  <1>7. \A i, j \in D : <<i, j>> \in R => i < j
    <2> SUFFICES ASSUME NEW i \in D, NEW j \in D, <<i, j>> \in R, ~(i < j)
                 PROVE  FALSE
      OBVIOUS
    <2>1. i # j
      BY <1>5
    <2>2. j < i
      BY <1>4, <2>1
    <2> QED BY <1>2, <1>3, <2>2
  <1>8. StrictOrder(D, R)
    <2>1. \A x, y \in D : x # y => <<x, y>> \in R \/ <<y, x>> \in R
      <3> SUFFICES ASSUME NEW x \in D, NEW y \in D, x # y
                   PROVE  <<x, y>> \in R \/ <<y, x>> \in R
        OBVIOUS
      <3>1. x < y \/ y < x
        BY <1>4
      <3> QED BY <1>6, <3>1
    <2>2. ASSUME NEW x \in D, NEW y \in D, NEW z \in D, <<x, y>> \in R, <<y, z>> \in R
          PROVE  <<x, z>> \in R
      <3>1. x < y /\ y < z
        BY <1>7, <2>2
      <3>2. x < z
        BY <1>4, <3>1
      <3> QED BY <1>6, <3>2
    <2> QED BY <1>5, <2>1, <2>2 DEF StrictOrder
  <1>9. /\ g \in [1..n -> D]
        /\ \A x \in D : \E k \in 1..n : g[k] = x
        /\ \A k, l \in 1..n : k < l => <<g[k], g[l]>> \in R
    BY <1>6
  <1>10. \A k \in 1..n : g[k] = k
    OBVIOUS
  <1> HIDE DEF g, D
  <1>11. g = InOrder(D, R)
    <2>1. g \in [1..n -> D] /\ n \in Nat
      BY <1>1, <1>9
    <2>2. \A x \in D : \E k \in 1..n : g[k] = x
      BY <1>9
    <2>3. \A k, l \in 1..n : k < l => <<g[k], g[l]>> \in R
      BY <1>9
    <2> HIDE DEF n
    <2> QED BY <1>8, <2>1, <2>2, <2>3, InOrderUnique
  <1>12. Arranged(ps, R) = [k \in D |-> ps[g[k]]]
    BY <1>1, <1>11 DEF Arranged
  <1>13. ps = [k \in D |-> ps[k]]
    BY <1>1
  <1> QED BY <1>10, <1>12, <1>13 DEF D, R

-----------------------------------------------------------------------------
(* The headers of the signature, and its parameters.                       *)

LEMMA KnownNames ==
  {"Authorization", "content-length", "content-type", "host", "user-agent",
   "X-Amz-Date", "x-amz-security-token"} \subseteq HeaderNames
  <1> USE DEF AlphaOrder
  <1>1. DOMAIN AlphaOrder = 1..14
    OBVIOUS
  <1>2. /\ AlphaOrder[1] = "Authorization" /\ AlphaOrder[3] = "content-length"
        /\ AlphaOrder[4] = "content-type" /\ AlphaOrder[5] = "host"
        /\ AlphaOrder[7] = "user-agent" /\ AlphaOrder[8] = "X-Amz-Date"
        /\ AlphaOrder[9] = "x-amz-security-token"
    OBVIOUS
  <1> HIDE DEF AlphaOrder
  <1>3. \A i \in 1..14 : AlphaOrder[i] \in HeaderNames
    BY <1>1 DEF HeaderNames
  <1> QED BY <1>2, <1>3

LEMMA PairFacts ==
  \A name \in HeaderNames, value \in HeaderValues :
    /\ Header(name, value) \in Pairs
    /\ Header(name, value).name = name /\ Header(name, value).value = value
  BY DEF Header, Pairs

LEMMA HeadersToSignFacts ==
  ASSUME url.host \in Hosts \cup {NoText}
  PROVE  /\ HeadersToSign \in Seq(Pairs) /\ Len(HeadersToSign) \in 3..4
         /\ HeadersToSign[2].name = "X-Amz-Date"
         /\ HeadersToSign[2].value = generateSignatureDateTime
  <1> DEFINE a == Header("host", getRequestHost(url))
             b == Header("X-Amz-Date", generateSignatureDateTime)
             c == Header("content-type", "application/json")
             d == Header("content-length", "size")
             abc == <<a, b, c>>
             rest == IF body THEN <<d>> ELSE << >>
  <1>1. a \in Pairs /\ b \in Pairs /\ c \in Pairs /\ d \in Pairs
    <2>1. /\ getRequestHost(url) \in HeaderValues /\ generateSignatureDateTime \in HeaderValues
          /\ "application/json" \in HeaderValues /\ "size" \in HeaderValues
      BY DEF getRequestHost, HeaderValues
    <2>2. "host" \in HeaderNames /\ "X-Amz-Date" \in HeaderNames /\ "content-type" \in HeaderNames
          /\ "content-length" \in HeaderNames
      BY KnownNames
    <2> QED BY <2>1, <2>2, PairFacts
  <1>2. b.name = "X-Amz-Date" /\ b.value = generateSignatureDateTime
    BY DEF Header
  <1>3. HeadersToSign = abc \o rest
    BY DEF HeadersToSign
  <1> HIDE DEF a, b, c, d
  <1>4. abc \in Seq(Pairs) /\ Len(abc) = 3 /\ abc[2] = b
    BY <1>1
  <1>5. rest \in Seq(Pairs) /\ Len(rest) \in 0..1
    BY <1>1
  <1> HIDE DEF abc, rest
  <1>6. /\ abc \o rest \in Seq(Pairs) /\ Len(abc \o rest) = Len(abc) + Len(rest)
        /\ \A i \in 1..(Len(abc) + Len(rest)) :
             (abc \o rest)[i] = IF i <= Len(abc) THEN abc[i] ELSE rest[i - Len(abc)]
    BY <1>4, <1>5, ConcatProperties
  <1>7. HeadersToSign[2] = b
    <2>1. 2 \in 1..(Len(abc) + Len(rest)) /\ 2 <= Len(abc)
      BY <1>4, <1>5
    <2> QED BY <1>3, <1>4, <1>6, <2>1
  <1>8. Len(HeadersToSign) \in 3..4
    BY <1>3, <1>4, <1>5, <1>6
  <1> QED BY <1>2, <1>3, <1>6, <1>7, <1>8

LEMMA HeadersOfSignatureFacts ==
  ASSUME token \in Tokens \cup {NoText}
  PROVE  /\ HeadersOfSignature \in Seq(Pairs) /\ Len(HeadersOfSignature) \in 1..2
         /\ \A k \in 1..Len(HeadersOfSignature) :
              ~IS_CANONICAL_HEADER_NAME(HeadersOfSignature[k].name)
  <1> DEFINE a == Header("Authorization", "signature")
             b == Header("x-amz-security-token", token)
  <1>1. a \in Pairs /\ b \in Pairs
    <2>1. "signature" \in HeaderValues /\ token \in HeaderValues
      BY DEF HeaderValues
    <2>2. "Authorization" \in HeaderNames /\ "x-amz-security-token" \in HeaderNames
      BY KnownNames
    <2> QED BY <2>1, <2>2, PairFacts
  <1>2. ~IS_CANONICAL_HEADER_NAME(a.name) /\ ~IS_CANONICAL_HEADER_NAME(b.name)
    BY DEF Header, IS_CANONICAL_HEADER_NAME
  <1>3. HeadersOfSignature = <<a>> \o (IF token # NoText THEN <<b>> ELSE << >>)
    BY DEF HeadersOfSignature
  <1> HIDE DEF a, b
  <1>4. CASE token # NoText
    <2>1. HeadersOfSignature = <<a>> \o <<b>>
      BY <1>3, <1>4
    <2>2. <<a>> \in Seq(Pairs) /\ <<b>> \in Seq(Pairs) /\ Len(<<a>>) = 1 /\ Len(<<b>>) = 1
      BY <1>1
    <2>3. /\ <<a>> \o <<b>> \in Seq(Pairs) /\ Len(<<a>> \o <<b>>) = 2
          /\ \A i \in 1..2 : (<<a>> \o <<b>>)[i] = IF i <= 1 THEN <<a>>[i] ELSE <<b>>[i - 1]
      BY <2>2, ConcatProperties
    <2>4. HeadersOfSignature[1] = a /\ HeadersOfSignature[2] = b
      BY <2>1, <2>3
    <2>5. \A k \in 1..2 : ~IS_CANONICAL_HEADER_NAME(HeadersOfSignature[k].name)
      <3> SUFFICES ASSUME NEW k \in 1..2
                   PROVE  ~IS_CANONICAL_HEADER_NAME(HeadersOfSignature[k].name)
        OBVIOUS
      <3>1. k = 1 \/ k = 2
        OBVIOUS
      <3> QED BY <1>2, <2>4, <3>1
    <2> QED BY <2>1, <2>3, <2>5
  <1>5. CASE token = NoText
    <2>1. HeadersOfSignature = <<a>>
      BY <1>1, <1>3, <1>5
    <2> QED BY <1>1, <1>2, <2>1
  <1> QED BY <1>4, <1>5

LEMMA HostHeaderFacts ==
  ASSUME url.host \in Hosts \cup {NoText}
  PROVE  LET hs == <<Header("host", getRequestHost(url))>>
         IN  hs \in Seq(Pairs) /\ Len(hs) = 1
  <1>1. getRequestHost(url) \in HeaderValues /\ "host" \in HeaderNames
    BY KnownNames DEF getRequestHost, HeaderValues
  <1>2. Header("host", getRequestHost(url)) \in Pairs
    BY <1>1, PairFacts
  <1> QED BY <1>2

LEMMA AuthQueryFacts == AuthQuery \in Seq(Params) /\ Len(AuthQuery) \in 1..2
  <1> DEFINE a == [name |-> <<8, DASH, 8>>, value |-> generateEncodedCredentials]
             b == [name |-> <<8, DASH, 9>>, value |-> <<EQUALS, 8>>]
  <1>1. a \in Params /\ b \in Params
    <2>1. /\ <<8, DASH, 8>> \in Seq(Int) /\ <<8, DASH, 9>> \in Seq(Int)
          /\ <<EQUALS, 8>> \in Seq(Int) /\ generateEncodedCredentials \in Seq(Int)
      BY DEF DASH, EQUALS, SLASH, generateEncodedCredentials
    <2> QED BY <2>1 DEF Params
  <1>2. AuthQuery = IF token # NoText THEN <<a, b>> ELSE <<a>>
    BY DEF AuthQuery
  <1> HIDE DEF a, b
  <1> QED BY <1>1, <1>2

LEMMA ExtendedItself ==
  ASSUME NEW l, SoundList(l)
  PROVE  Extended(l, l)
  <1>1. Size(l) \in Nat
    BY ListFacts DEF SoundList, Size
  <1> QED BY <1>1 DEF Extended

(* One header, or none when it does not fit.                               *)
LEMMA SetOneExtends ==
  ASSUME NEW l, SoundList(l), NEW name \in HeaderNames \cup UnfitNames, NEW value \in HeaderValues
  PROVE  Extended(l, setRequestHeader(l, name, value))
  <1>0. CASE ~Fit(name, value)
    <2>1. setRequestHeader(l, name, value) = l
      BY <1>0 DEF setRequestHeader
    <2> QED BY <2>1, ExtendedItself
  <1>6. CASE Fit(name, value)
    <2> DEFINE h == Header(name, value)
               hs == <<h>>
    <2>1. name \in HeaderNames
      BY <1>6 DEF Fit
    <2>2. h \in Pairs /\ h.name = name /\ h.value = value
      BY <2>1, PairFacts
    <2> HIDE DEF h
    <2>3. hs \in Seq(Pairs) /\ Len(hs) = 1 /\ hs[1] = h
      BY <2>2
    <2> HIDE DEF hs
    <2>4. AllFit(hs, 1)
      BY <1>6, <2>2, <2>3 DEF AllFit
    <2>5. SetNth(l, hs, 1) = setRequestHeader(l, name, value)
      BY <2>2, <2>3, <2>4 DEF SetNth
    <2>6. Extended(l, SetNth(l, hs, 1))
      BY <2>3, OneIsSet
    <2> QED BY <2>5, <2>6
  <1> QED BY <1>0, <1>6

(* The signature is made of the canonical headers.                         *)
LEMMA SameCanonical ==
  ASSUME NEW d, NEW e, NEW u, Canonical(d) = Canonical(e)
  PROVE  generateAwsSigV4Signature(d, u) = generateAwsSigV4Signature(e, u)
  <1>1. /\ generateCanonicalHeaders(d) = generateCanonicalHeaders(e)
        /\ generateSignedHeaders(d) = generateSignedHeaders(e)
    BY DEF generateCanonicalHeaders, generateSignedHeaders
  <1>2. generateCanonicalRequestString(d, u) = generateCanonicalRequestString(e, u)
    BY <1>1 DEF generateCanonicalRequestString
  <1> QED BY <1>1, <1>2 DEF generateAwsSigV4Signature

(* A parameter with another value.                                         *)
LEMMA ValueReplaced ==
  ASSUME NEW p \in Params, NEW v \in Seq(Int)
  PROVE  /\ [p EXCEPT !.value = v] = [name |-> p.name, value |-> v]
         /\ [p EXCEPT !.value = v] \in Params
         /\ [p EXCEPT !.value = v].value = v /\ [p EXCEPT !.value = v].name = p.name
         /\ p = [name |-> p.name, value |-> p.value]
  BY DEF Params

LEMMA DecodedText ==
  ASSUME NEW w \in Seq(Int)
  PROVE  uriDecodeString(w) \in Seq(Int)
  <1>1. Len(w) \in Nat /\ DOMAIN w = 1..Len(w) /\ \A i \in 1..Len(w) : w[i] \in Int
    OBVIOUS
  <1> DEFINE n == Len(w)
  <1> HIDE DEF n
  <1>2. uriDecodeString(w) \in [1..n -> Int]
    BY <1>1 DEF uriDecodeString, Unescape, n
  <1>3. n \in Nat
    BY <1>1 DEF n
  <1> QED BY <1>2, <1>3

(* The canonical query: encoded, sorted and of parameters.                 *)
LEMMA CanonicalQueryFacts ==
  ASSUME NEW ps \in Seq(Params)
  PROVE  LET qs == getCanonicalQueryParams(ps)
         IN  /\ qs \in Seq(Params)
             /\ EncodeValues(Decoded(qs)) = qs
             /\ \A i, j \in 1..Len(qs) : i < j => ~TextLess(qs[j], qs[i])
  <1> DEFINE es == EncodeValues(ps)
             qs == Arranged(es, TextOrder(es))
             n == Len(ps)
             Back(p) == [p EXCEPT !.value = Encoded(uriDecodeString(@))]
  <1>1. n \in Nat /\ DOMAIN ps = 1..n /\ \A i \in 1..n : ps[i] \in Params
    OBVIOUS
  <1>2. ASSUME NEW i \in 1..n
        PROVE  /\ es[i] \in Params
               /\ Encoded(uriDecodeString(es[i].value)) = es[i].value
    <2>1. ps[i] \in Params /\ ps[i].value \in Seq(Int)
      BY <1>1 DEF Params
    <2>2. Encoded(ps[i].value) \in Seq(Int)
          /\ uriDecodeString(Encoded(ps[i].value)) = ps[i].value
      BY <2>1, DecodedAgain
    <2>3. es[i] = [ps[i] EXCEPT !.value = Encoded(ps[i].value)]
      BY <1>1 DEF EncodeValues
    <2>4. es[i] \in Params /\ es[i].value = Encoded(ps[i].value)
      BY <2>1, <2>2, <2>3 DEF Params
    <2> QED BY <2>2, <2>4
  <1>3. es \in Seq(Params) /\ Len(es) = n
    <2>1. es = [i \in 1..n |-> es[i]]
      BY <1>1 DEF EncodeValues
    <2> HIDE DEF es
    <2>2. es \in [1..n -> Params]
      BY <1>2, <2>1
    <2> QED BY <1>1, <2>2
  <1> HIDE DEF es, n
  <1>4. /\ qs \in Seq(Params) /\ Len(qs) = n
        /\ \A i \in 1..n : \E j \in 1..n : qs[i] = es[j]
        /\ \A i, j \in 1..n : i < j => ~TextLess(qs[j], qs[i])
    BY <1>3, ParamsAreSorted
  <1> HIDE DEF qs
  <1>5. DOMAIN qs = 1..n /\ \A i \in 1..n : qs[i] \in Params
    BY <1>4
  <1>6. ASSUME NEW i \in 1..n
        PROVE  EncodeValues(Decoded(qs))[i] = qs[i]
    <2>1. PICK j \in 1..n : qs[i] = es[j]
      BY <1>4
    <2>2. Encoded(uriDecodeString(qs[i].value)) = qs[i].value
      BY <1>2, <2>1
    <2>3. qs[i] \in Params /\ qs[i].value \in Seq(Int)
      BY <1>5 DEF Params
    <2> DEFINE v == uriDecodeString(qs[i].value)
               p == [qs[i] EXCEPT !.value = v]
    <2>4. Decoded(qs)[i] = p /\ DOMAIN Decoded(qs) = 1..n
      BY <1>5 DEF Decoded
    <2>5. EncodeValues(Decoded(qs))[i] = [p EXCEPT !.value = Encoded(p.value)]
      BY <2>4 DEF EncodeValues
    <2>6. v \in Seq(Int)
      BY <2>3, DecodedText
    <2>7. Encoded(v) = qs[i].value
      BY <2>2
    <2> HIDE DEF v
    <2>8. p \in Params /\ p.value = v /\ p.name = qs[i].name
      BY <2>3, <2>6, ValueReplaced
    <2> HIDE DEF p
    <2>9. [p EXCEPT !.value = Encoded(v)] = [name |-> p.name, value |-> Encoded(v)]
      BY <2>3, <2>7, <2>8, ValueReplaced
    <2>10. qs[i] = [name |-> qs[i].name, value |-> qs[i].value]
      BY <2>3, ValueReplaced
    <2> QED BY <2>5, <2>7, <2>8, <2>9, <2>10
  <1>7. DOMAIN EncodeValues(Decoded(qs)) = 1..n
        /\ EncodeValues(Decoded(qs)) = [i \in DOMAIN EncodeValues(Decoded(qs)) |->
                                          EncodeValues(Decoded(qs))[i]]
    <2>1. DOMAIN Decoded(qs) = 1..n
      BY <1>5 DEF Decoded
    <2> DEFINE ds == Decoded(qs)
    <2> HIDE DEF ds
    <2>2. DOMAIN EncodeValues(ds) = DOMAIN ds
      BY DEF EncodeValues
    <2>3. EncodeValues(ds) = [i \in DOMAIN EncodeValues(ds) |-> EncodeValues(ds)[i]]
      BY DEF EncodeValues
    <2> QED BY <2>1, <2>2, <2>3 DEF ds
  <1>8. qs \in [1..n -> Params]
    <2>1. qs \in [1..Len(qs) -> Params]
      BY <1>4
    <2> QED BY <1>4, <2>1
  <1>9. EncodeValues(Decoded(qs)) = qs
    BY <1>6, <1>7, <1>8
  <1>10. getCanonicalQueryParams(ps) = qs
    BY DEF getCanonicalQueryParams, qs, es
  <1> QED BY <1>4, <1>9, <1>10

-----------------------------------------------------------------------------
(* Signing: what becomes of the list, the URL and the signature.           *)

Urls == [host : Hosts \cup {NoText}, path : Paths, params : Seq(Params), bare : BOOLEAN]

LEMMA ExtendedTwice ==
  ASSUME NEW k, NEW l, NEW m, SoundList(k), Extended(k, l), Extended(l, m)
  PROVE  Extended(k, m)
  <1>1. Size(k) \in Nat /\ Size(l) \in Nat /\ Size(m) \in Nat
    BY ListFacts DEF SoundList, Size, Extended
  <1> QED BY <1>1 DEF Extended

LEMMA ParamsReplaced ==
  ASSUME NEW u \in Urls, NEW ps \in Seq(Params)
  PROVE  /\ [u EXCEPT !.params = ps] \in Urls
         /\ [u EXCEPT !.params = ps].params = ps
         /\ [u EXCEPT !.params = ps].host = u.host
         /\ u.params \in Seq(Params) /\ u.host \in Hosts \cup {NoText}
  BY DEF Urls

(* Signing with a header keeps the URL, and what was signed is what the    *)
(* list then holds of canonical headers, the date among them.              *)
LEMMA SignHeaderOutcome ==
  ASSUME SoundList(list), url \in Urls, token \in Tokens \cup {NoText}, signAwsRequestInfo
  PROVE  /\ url' = url /\ Extended(list, list') /\ phase' \in {"failed", "signed"}
         /\ phase' = "signed" =>
              /\ signature' = generateAwsSigV4Signature(list'.entries, url)
              /\ HasHeader(list', "X-Amz-Date", generateSignatureDateTime)
  <1> DEFINE hs == HeadersToSign
             gs == HeadersOfSignature
             l == SetAll(list, hs)
             m == SetAll(l, gs)
             sig == generateAwsSigV4Signature(l.entries, url)
  <1>1. url.host \in Hosts \cup {NoText}
    BY DEF Urls
  <1>2. /\ hs \in Seq(Pairs) /\ Len(hs) \in 3..4
        /\ hs[2].name = "X-Amz-Date" /\ hs[2].value = generateSignatureDateTime
    BY <1>1, HeadersToSignFacts
  <1>3. /\ gs \in Seq(Pairs) /\ Len(gs) \in 1..2
        /\ \A k \in 1..Len(gs) : ~IS_CANONICAL_HEADER_NAME(gs[k].name)
    BY HeadersOfSignatureFacts
  <1>4. \/ Failed(list, url) \/ Failed(l, url) \/ Failed(m, url)
        \/ Fits(list, hs) /\ Signed(m, url, sig)
    BY DEF signAwsRequestInfo
  <1> HIDE DEF hs, gs
  <1>5. Len(hs) <= 4 /\ Len(gs) <= 4 /\ 2 \in 1..Len(hs)
    <2> DEFINE a == Len(hs)
               b == Len(gs)
    <2>1. a \in 3..4 /\ b \in 1..2
      BY <1>2, <1>3
    <2> HIDE DEF a, b
    <2>2. a <= 4 /\ b <= 4 /\ 2 \in 1..a
      BY <2>1
    <2> QED BY <2>2 DEF a, b
  <1>6. /\ Extended(list, l)
        /\ Fits(list, hs) => \A k \in 1..Len(hs) : HasHeader(l, hs[k].name, hs[k].value)
    BY <1>2, <1>5, AllAreSet
  <1> HIDE DEF l
  <1>7. SoundList(l)
    BY <1>6 DEF Extended
  <1>8. Extended(l, m)
    BY <1>3, <1>5, <1>7, AllAreSet
  <1>9. Canonical(m.entries) = Canonical(l.entries)
    BY <1>3, <1>7, CanonicalKeptByAll
  <1> HIDE DEF m
  <1>10. sig = generateAwsSigV4Signature(m.entries, url)
    BY <1>9, SameCanonical
  <1> HIDE DEF sig
  <1>11. Extended(list, m)
    BY <1>6, <1>8, ExtendedTwice
  <1>12. Extended(list, list)
    BY ExtendedItself
  <1>13. CASE Failed(list, url)
    BY <1>12, <1>13 DEF Failed
  <1>14. CASE Failed(l, url)
    BY <1>6, <1>14 DEF Failed
  <1>15. CASE Failed(m, url)
    BY <1>11, <1>15 DEF Failed
  <1>16. CASE Fits(list, hs) /\ Signed(m, url, sig)
    <2>1. phase' = "signed" /\ list' = m /\ url' = url /\ signature' = sig
      BY <1>16 DEF Signed
    <2>2. HasHeader(l, "X-Amz-Date", generateSignatureDateTime)
      BY <1>2, <1>5, <1>6, <1>16
    <2>3. "X-Amz-Date" \in HeaderNames
      BY KnownNames
    <2>4. generateSignatureDateTime \in HeaderValues
      BY DEF HeaderValues
    <2>5. HasHeader(m, "X-Amz-Date", generateSignatureDateTime)
      BY <1>8, <2>2, <2>3, <2>4 DEF Extended
    <2> QED BY <1>10, <1>11, <2>1, <2>5
  <1> QED BY <1>4, <1>13, <1>14, <1>15, <1>16

(* What makes query signing fail is left in the list and the URL.          *)
Refusal(l, u, auth) ==
  \/ u.host = NoText \/ ~Fit("host", u.host)
  \/ Size(l) >= MAX_REQUEST_HEADER_COUNT
  \/ u.bare \/ Len(u.params) = Len(auth)
  \/ ~(UrlLen(u) < MAX_URI_CHAR_LEN)
  \/ \E i \in DOMAIN u.params : Bloated(u.params[i]) > MAX_URI_CHAR_LEN
  \/ \E i \in DOMAIN u.params :
       \A k \in DOMAIN u.params[i].value : ~Unreserved(u.params[i].value[k])

LEMMA RefusedQuery ==
  ASSUME NEW l, NEW u \in Urls, NEW auth, ~QueryAccepted(u)
  PROVE  Refusal(l, u, auth)
  <1>1. u.params \in Seq(Params) /\ DOMAIN u.params = 1..Len(u.params)
    BY DEF Urls
  <1>2. CASE ~(UrlLen(u) < MAX_URI_CHAR_LEN)
    BY <1>2 DEF Refusal
  <1>3. CASE u.bare
    BY <1>3 DEF Refusal
  <1>4. CASE \E i \in DOMAIN u.params : ~Encodable(u.params[i])
    <2>1. PICK i \in DOMAIN u.params : ~Encodable(u.params[i])
      BY <1>4
    <2>2. u.params[i] \in Params
      BY <1>1
    <2>3. u.params[i].value \in Seq(Int) /\ u.params[i].name \in Seq(Int)
      BY <2>2 DEF Params
    <2>4. CASE Bloated(u.params[i]) <= MAX_URI_CHAR_LEN
      <3>1. ASSUME NEW k \in DOMAIN u.params[i].value
            PROVE  ~Unreserved(u.params[i].value[k])
        <4>1. k \in 1..Len(u.params[i].value)
          BY <2>3
        <4> QED BY <2>1, <2>2, <2>4, <4>1, BloatedIsEncodable
      <3> QED BY <2>1, <3>1 DEF Refusal
    <2>5. CASE ~(Bloated(u.params[i]) <= MAX_URI_CHAR_LEN)
      <3>1. Bloated(u.params[i]) \in Nat
        <4> DEFINE n == Len(u.params[i].name)
                   m == Len(u.params[i].value)
        <4>1. n \in Nat /\ m \in Nat
          BY <2>3
        <4>2. Bloated(u.params[i]) = n + 1 + 3 * m + 1
          BY DEF Bloated
        <4> HIDE DEF n, m
        <4> QED BY <4>1, <4>2
      <3>2. Bloated(u.params[i]) > MAX_URI_CHAR_LEN
        BY <2>5, <3>1, SigningAssumption
      <3> QED BY <3>2 DEF Refusal
    <2> QED BY <2>4, <2>5
  <1> QED BY <1>2, <1>3, <1>4 DEF QueryAccepted

LEMMA SignQueryOutcome ==
  ASSUME SoundList(list), url \in Urls, signAwsRequestInfoQueryParam
  PROVE  /\ url' \in Urls /\ Extended(list, list') /\ phase' \in {"failed", "signed", "cut"}
         /\ phase' = "signed" =>
              /\ signature' = generateAwsSigV4Signature(list'.entries, url')
              /\ EncodeValues(Decoded(url'.params)) = url'.params
              /\ \A i, j \in 1..Len(url'.params) :
                   i < j => ~TextLess(url'.params[j], url'.params[i])
         /\ phase' = "failed" => Refusal(list', url', AuthQuery)
  <1> DEFINE hs == <<Header("host", getRequestHost(url))>>
             l == SetAll(list, hs)
             all == url.params \o AuthQuery
             f == [url EXCEPT !.params = all]
             qs == getCanonicalQueryParams(f.params)
             u == [url EXCEPT !.params = qs]
  <1>1. url.host \in Hosts \cup {NoText} /\ url.params \in Seq(Params)
    BY DEF Urls
  <1>2. /\ hs \in Seq(Pairs) /\ Len(hs) = 1
        /\ AllFit(hs, Len(hs)) <=> Fit("host", url.host)
    <2>1. hs \in Seq(Pairs) /\ Len(hs) = 1
      BY <1>1, HostHeaderFacts
    <2>2. hs[1].name = "host" /\ hs[1].value = url.host
      BY DEF Header, getRequestHost
    <2> QED BY <2>1, <2>2 DEF AllFit
  <1>3. AuthQuery \in Seq(Params) /\ Len(AuthQuery) \in 1..2
    BY AuthQueryFacts
  <1>4. \/ url.host = NoText /\ Failed(list, url)
        \/ ~Fits(list, hs) /\ Failed(l, url)
        \/ (url.params = << >> \/ ~QueryAccepted(f)) /\ Failed(l, f)
        \/ Signed(l, u, generateAwsSigV4Signature(l.entries, u))
        \/ phase' = "cut" /\ list' = l /\ url' = f
    BY DEF signAwsRequestInfoQueryParam, getRequestHost
  <1> HIDE DEF hs
  <1>5. Len(hs) <= 4
    BY <1>2
  <1>6. /\ Extended(list, l)
        /\ ~Fits(list, hs) => Size(l) >= MAX_REQUEST_HEADER_COUNT \/ ~Fit("host", url.host)
    BY <1>2, <1>5, AllAreSet
  <1> HIDE DEF l
  <1>7. /\ all \in Seq(Params)
        /\ Len(all) = Len(url.params) + Len(AuthQuery)
    BY <1>1, <1>3, ConcatProperties
  <1> HIDE DEF all
  <1>10. f \in Urls /\ f.params = all
    BY <1>7, ParamsReplaced
  <1> HIDE DEF f
  <1>8. /\ qs \in Seq(Params) /\ EncodeValues(Decoded(qs)) = qs
        /\ \A i, j \in 1..Len(qs) : i < j => ~TextLess(qs[j], qs[i])
    BY <1>7, <1>10, CanonicalQueryFacts
  <1> HIDE DEF qs
  <1>9. u \in Urls /\ u.params = qs
    BY <1>8, ParamsReplaced
  <1> HIDE DEF u
  <1>11. Extended(list, list)
    BY ExtendedItself
  <1>12. CASE url.host = NoText /\ Failed(list, url)
    BY <1>11, <1>12 DEF Failed, Refusal
  <1>13. CASE Signed(l, u, generateAwsSigV4Signature(l.entries, u))
    <2>1. /\ phase' = "signed" /\ list' = l /\ url' = u
          /\ signature' = generateAwsSigV4Signature(l.entries, u)
      BY <1>13 DEF Signed
    <2> QED BY <1>6, <1>8, <1>9, <2>1
  <1>14. CASE (url.params = << >> \/ ~QueryAccepted(f)) /\ Failed(l, f)
    <2>1. phase' = "failed" /\ list' = l /\ url' = f
      BY <1>14 DEF Failed
    <2>2. Refusal(l, f, AuthQuery)
      <3>1. CASE ~QueryAccepted(f)
        BY <1>10, <3>1, RefusedQuery
      <3>2. CASE url.params = << >>
        <4>1. Len(url.params) = 0
          BY <3>2
        <4>2. Len(f.params) = Len(AuthQuery)
          BY <1>3, <1>7, <1>10, <4>1
        <4> QED BY <4>2 DEF Refusal
      <3> QED BY <1>14, <3>1, <3>2
    <2> QED BY <1>6, <1>10, <2>1, <2>2
  <1>15. CASE ~Fits(list, hs) /\ Failed(l, url)
    <2>1. phase' = "failed" /\ list' = l /\ url' = url
      BY <1>15 DEF Failed
    <2>2. Refusal(l, url, AuthQuery)
      BY <1>6, <1>15 DEF Refusal
    <2> QED BY <1>6, <2>1, <2>2
  <1>16. CASE phase' = "cut" /\ list' = l /\ url' = f
    BY <1>6, <1>10, <1>16
  <1> QED BY <1>4, <1>12, <1>13, <1>14, <1>15, <1>16

-----------------------------------------------------------------------------
(* The inductive invariant.                                                *)

ListInv == SoundList(list) /\ NoHeaderLost

UrlInv ==
  /\ mode \in {"header", "query"} /\ url \in Urls /\ token \in Tokens \cup {NoText}
  /\ mode = "header" => url.params = << >>

Inv ==
  /\ ListInv /\ UrlInv
  /\ SignatureCurrent /\ QueryInOrder /\ WireCurrent /\ QuerySignable

LEMMA InvGivesSigningInv == Inv => SigningInv
  <1> SUFFICES ASSUME Inv PROVE SigningInv
    OBVIOUS
  <1>1. SoundList(list) /\ list \in Lists
    BY DEF Inv, ListInv, SoundList
  <1>2. /\ list.next \in Nat /\ DOMAIN list.entries = 1..Len(list.entries)
        /\ \A i \in 1..Len(list.entries) :
             list.entries[i].name \in HeaderNames /\ list.entries[i].id \in Nat
    BY <1>1, ListFacts
  <1>3. ListInOrder
    <2>1. \A i \in DOMAIN list.entries :
            list.entries[i].name \in HeaderNames /\ list.entries[i].id \in 0..(list.next - 1)
      BY <1>1, <1>2 DEF SoundList
    <2>2. \A i, j \in DOMAIN list.entries :
            i < j => /\ Rank(list.entries[i].name) <= Rank(list.entries[j].name)
                     /\ list.entries[i].id # list.entries[j].id
      BY <1>1, <1>2 DEF SoundList
    <2> QED BY <1>2, <2>1, <2>2 DEF ListInOrder
  <1> QED BY <1>3 DEF Inv, ListInv, SigningInv

LEMMA EmptyListIsSound == SoundList(EmptyList) /\ EmptyList.live = Ids(EmptyList)
  <1>1. /\ EmptyList.entries = << >> /\ EmptyList.live = {} /\ EmptyList.next = 1
        /\ EmptyList \in Lists
    BY DEF EmptyList, Lists
  <1>2. DOMAIN EmptyList.entries = {} /\ Len(EmptyList.entries) = 0
    BY <1>1
  <1> QED BY <1>1, <1>2 DEF SoundList, Ids

LEMMA InitInv == Init => Inv
  <1> SUFFICES ASSUME Init PROVE Inv
    OBVIOUS
  <1>1. ListInv
    BY EmptyListIsSound DEF Init, ListInv, NoHeaderLost, Listed, Ids
  <1>2. << >> \in Seq(Params) /\ Queries \subseteq Seq(Params)
    BY SigningAssumption
  <1>3. UrlInv
    <2>1. mode \in {"header", "query"}
      BY DEF Init
    <2>2. CASE mode = "query"
      BY <1>2, <2>2 DEF Init, UrlInv, Urls
    <2>3. CASE mode = "header"
      BY <1>2, <2>3 DEF Init, UrlInv, Urls
    <2> QED BY <2>1, <2>2, <2>3
  <1>4. QueryInOrder
    BY <1>3 DEF Init, QueryInOrder, UrlInv, Urls
  <1>5. SignatureCurrent /\ WireCurrent /\ QuerySignable
    BY DEF Init, SignatureCurrent, WireCurrent, QuerySignable
  <1> QED BY <1>1, <1>3, <1>4, <1>5 DEF Inv

(* The list that a step leaves, of a list that the invariant holds of.     *)
LEMMA ListStep ==
  ASSUME ListInv, Extended(list, list')
  PROVE  ListInv'
  <1>1. SoundList(list') /\ (list.live \subseteq Ids(list) => list'.live \subseteq Ids(list'))
    BY DEF Extended
  <1>2. list.live \subseteq Ids(list)
    BY DEF ListInv, NoHeaderLost, Listed, Ids
  <1>3. NoHeaderLost'
    BY <1>1, <1>2 DEF NoHeaderLost, Listed, Ids
  <1>4. SoundList(list)'
    BY <1>1
  <1> QED BY <1>3, <1>4 DEF ListInv

(* The body decides what the payload of a signature is.                    *)
LEMMA SignatureNext ==
  ASSUME body' = body
  PROVE  generateAwsSigV4Signature(list.entries, url)'
           = generateAwsSigV4Signature(list'.entries, url')
  BY DEF generateAwsSigV4Signature, generateCanonicalRequestString

LEMMA NoParams == EncodeValues(Decoded(<< >>)) = << >>
  <1>1. DOMAIN Decoded(<< >>) = {}
    BY DEF Decoded
  <1> DEFINE d == Decoded(<< >>)
  <1> HIDE DEF d
  <1>2. EncodeValues(d) = [i \in {} |-> [d[i] EXCEPT !.value = Encoded(@)]]
    BY <1>1 DEF EncodeValues, d
  <1>3. EncodeValues(d) \in [1..0 -> Params]
    BY <1>2
  <1>4. EncodeValues(d) \in Seq(Params) /\ Len(EncodeValues(d)) = 0
    BY <1>3
  <1>5. << >> \in Seq(Params) /\ Len(<< >>) = 0
    OBVIOUS
  <1>6. EncodeValues(d) = << >>
    BY <1>4
  <1> QED BY <1>6 DEF d

(* A request that is not signed and whose URL is left alone.               *)
LEMMA NotSigned ==
  ASSUME UrlInv, phase' \in {"built", "freed"}, UNCHANGED <<mode, url, token>>
  PROVE  UrlInv' /\ SignatureCurrent' /\ QueryInOrder' /\ WireCurrent' /\ QuerySignable'
  <1>1. UrlInv' /\ url'.params \in Seq(Params)
    BY DEF UrlInv, Urls
  <1>2. SignatureCurrent' /\ WireCurrent' /\ QuerySignable'
    BY DEF SignatureCurrent, WireCurrent, QuerySignable
  <1>3. QueryInOrder'
    BY <1>1 DEF QueryInOrder
  <1> QED BY <1>1, <1>2, <1>3

LEMMA SignHeaderInv ==
  ASSUME Inv, signAwsRequestInfo
  PROVE  Inv'
  <1>1. mode = "header" /\ UNCHANGED <<mode, body, token, wire>>
    BY DEF signAwsRequestInfo
  <1>2. SoundList(list) /\ url \in Urls /\ url.params = << >> /\ token \in Tokens \cup {NoText}
    BY <1>1 DEF Inv, ListInv, UrlInv
  <1>3. /\ url' = url /\ Extended(list, list') /\ phase' \in {"failed", "signed"}
        /\ phase' = "signed" =>
             /\ signature' = generateAwsSigV4Signature(list'.entries, url)
             /\ HasHeader(list', "X-Amz-Date", generateSignatureDateTime)
    BY <1>2, SignHeaderOutcome
  <1>4. ListInv'
    BY <1>1, <1>3, ListStep DEF Inv
  <1>5. UrlInv'
    BY <1>1, <1>3 DEF Inv, UrlInv
  <1>6. SignatureCurrent'
    <2>1. SUFFICES ASSUME phase' = "signed"
                   PROVE  /\ signature' = (generateAwsSigV4Signature(list.entries, url))'
                          /\ \E i \in DOMAIN list'.entries :
                               /\ list'.entries[i].name = "X-Amz-Date"
                               /\ list'.entries[i].value = generateSignatureDateTime
      BY <1>3 DEF SignatureCurrent, generateSignatureDateTime
    <2>2. signature' = (generateAwsSigV4Signature(list.entries, url))'
      BY <1>1, <1>3, <2>1, SignatureNext
    <2>3. DOMAIN list'.entries = 1..Len(list'.entries)
      BY <1>3, ListFacts DEF Extended, SoundList
    <2> QED BY <1>3, <2>1, <2>2, <2>3 DEF HasHeader
  <1>7. QueryInOrder'
    <2> DEFINE ps == url'.params
    <2>1. ps = << >>
      BY <1>2, <1>3
    <2> HIDE DEF ps
    <2>2. DOMAIN ps = {} /\ ps \in Seq(Params)
      BY <2>1
    <2>3. EncodeValues(Decoded(ps)) = ps
      BY <2>1, NoParams
    <2>4. (EncodeValues(Decoded(url.params)) = url.params)'
      BY <2>3 DEF EncodeValues, Decoded, ps
    <2> QED BY <2>2, <2>4 DEF QueryInOrder, ps
  <1>8. WireCurrent' /\ QuerySignable'
    BY <1>1, <1>3 DEF WireCurrent, QuerySignable
  <1> QED BY <1>4, <1>5, <1>6, <1>7, <1>8 DEF Inv

LEMMA SignQueryInv ==
  ASSUME Inv, signAwsRequestInfoQueryParam
  PROVE  Inv'
  <1>1. mode = "query" /\ UNCHANGED <<mode, body, token, wire>>
    BY DEF signAwsRequestInfoQueryParam
  <1>2. SoundList(list) /\ url \in Urls
    BY DEF Inv, ListInv, UrlInv
  <1>3. /\ url' \in Urls /\ Extended(list, list') /\ phase' \in {"failed", "signed", "cut"}
        /\ phase' = "signed" =>
             /\ signature' = generateAwsSigV4Signature(list'.entries, url')
             /\ EncodeValues(Decoded(url'.params)) = url'.params
             /\ \A i, j \in 1..Len(url'.params) :
                  i < j => ~TextLess(url'.params[j], url'.params[i])
        /\ phase' = "failed" => Refusal(list', url', AuthQuery)
    BY <1>2, SignQueryOutcome
  <1>4. ListInv'
    BY <1>1, <1>3, ListStep DEF Inv
  <1>5. UrlInv'
    BY <1>1, <1>3 DEF Inv, UrlInv
  <1>6. SignatureCurrent'
    <2>1. CASE phase' = "signed"
      <3>1. signature' = (generateAwsSigV4Signature(list.entries, url))'
        BY <1>1, <1>3, <2>1, SignatureNext
      <3> QED BY <1>1, <3>1 DEF SignatureCurrent
    <2>2. CASE phase' \in {"failed", "cut"}
      BY <2>2 DEF SignatureCurrent
    <2> QED BY <1>3, <2>1, <2>2
  <1>7. QueryInOrder'
    <2>1. url'.params \in Seq(Params) /\ DOMAIN url'.params = 1..Len(url'.params)
      BY <1>3 DEF Urls
    <2>2. CASE phase' = "signed"
      <3>1. EncodeValues(Decoded(url.params))' = EncodeValues(Decoded(url'.params))
        BY DEF EncodeValues, Decoded
      <3> QED BY <1>3, <2>1, <2>2, <3>1 DEF QueryInOrder
    <2>3. CASE phase' \in {"failed", "cut"}
      BY <2>1, <2>3 DEF QueryInOrder
    <2> QED BY <1>3, <2>2, <2>3
  <1>8. WireCurrent'
    BY <1>3 DEF WireCurrent
  <1>9. QuerySignable'
    <2>1. CASE phase' = "failed"
      <3>1. AuthQuery' = AuthQuery
        BY <1>1 DEF AuthQuery
      <3>2. Refusal(list', url', AuthQuery)
        BY <1>3, <2>1
      <3>3. Refusal(list, url, AuthQuery)'
        BY <3>1, <3>2 DEF Refusal
      <3> QED BY <3>3 DEF QuerySignable, Unsignable, Refusal
    <2>2. CASE phase' \in {"signed", "cut"}
      BY <2>2 DEF QuerySignable
    <2> QED BY <1>3, <2>1, <2>2
  <1> QED BY <1>4, <1>5, <1>6, <1>7, <1>8, <1>9 DEF Inv

LEMMA StepInv == Inv /\ [Next]_vars => Inv'
  <1> SUFFICES ASSUME Inv, [Next]_vars PROVE Inv'
    OBVIOUS
  <1>1. SoundList(list) /\ UrlInv /\ ListInv
    BY DEF Inv, ListInv
  <1>2. CASE createRequestInfo
    <2>1. "user-agent" \in HeaderNames /\ "agent" \in HeaderValues
      BY KnownNames DEF HeaderValues
    <2>2. Extended(list, list')
      BY <1>1, <1>2, <2>1, SetOneExtends DEF createRequestInfo
    <2>3. ListInv'
      BY <1>1, <1>2, <2>2, ListStep DEF createRequestInfo
    <2> QED BY <1>1, <1>2, <2>3, NotSigned DEF createRequestInfo, Inv
  <1>3. CASE SetHeader
    <2>1. PICK name \in CallerHeaders, value \in Values :
            list' = setRequestHeader(list, name, value)
      BY <1>3 DEF SetHeader
    <2>2. name \in HeaderNames \cup UnfitNames /\ value \in HeaderValues
      BY SigningAssumption DEF HeaderValues
    <2>3. Extended(list, list')
      BY <1>1, <2>1, <2>2, SetOneExtends
    <2>4. ListInv'
      BY <1>1, <1>3, <2>3, ListStep DEF SetHeader
    <2> QED BY <1>1, <1>3, <2>4, NotSigned DEF SetHeader, Inv
  <1>4. CASE RemoveHeader
    <2>1. PICK name \in CallerHeaders : list' = removeRequestHeader(list, name)
      BY <1>4 DEF RemoveHeader
    <2>2. SoundList(list') /\ (list.live \subseteq Ids(list) => list'.live \subseteq Ids(list'))
      BY <1>1, <2>1, HeaderIsRemoved
    <2>3. list.live \subseteq Ids(list)
      BY <1>1 DEF ListInv, NoHeaderLost, Listed, Ids
    <2>4. NoHeaderLost'
      BY <2>2, <2>3 DEF NoHeaderLost, Listed, Ids
    <2>5. ListInv'
      BY <2>2, <2>4 DEF ListInv
    <2> QED BY <1>1, <1>4, <2>5, NotSigned DEF RemoveHeader, Inv
  <1>5. CASE signAwsRequestInfo
    BY <1>5, SignHeaderInv
  <1>6. CASE signAwsRequestInfoQueryParam
    BY <1>6, SignQueryInv
  <1>7. CASE createCurlHeaderList
    <2>1. /\ phase = "signed" /\ phase' = "sent"
          /\ UNCHANGED <<mode, url, body, token, list, signature>>
          /\ wire' = [i \in DOMAIN list.entries |->
                        Header(list.entries[i].name, list.entries[i].value)]
      BY <1>7 DEF createCurlHeaderList
    <2>2. ListInv' /\ UrlInv'
      BY <1>1, <2>1 DEF ListInv, NoHeaderLost, Listed, UrlInv
    <2>3. SignatureCurrent'
      <3>1. (generateAwsSigV4Signature(list.entries, url))'
              = generateAwsSigV4Signature(list.entries, url)
        BY <2>1, SignatureNext
      <3> QED BY <2>1, <3>1 DEF Inv, SignatureCurrent, generateSignatureDateTime
    <2>4. QueryInOrder'
      <3>1. EncodeValues(Decoded(url.params))' = EncodeValues(Decoded(url.params))
        BY <2>1 DEF EncodeValues, Decoded
      <3> QED BY <2>1, <3>1 DEF Inv, QueryInOrder
    <2>5. WireCurrent' /\ QuerySignable'
      BY <2>1 DEF WireCurrent, QuerySignable, Header
    <2> QED BY <2>2, <2>3, <2>4, <2>5 DEF Inv
  <1>8. CASE freeRequestInfo
    <2>1. SoundList(list') /\ (list.live \subseteq Ids(list) => list'.live \subseteq Ids(list'))
      BY <1>1, <1>8, AllAreRemoved DEF freeRequestInfo
    <2>2. list.live \subseteq Ids(list)
      BY <1>1 DEF ListInv, NoHeaderLost, Listed, Ids
    <2>3. NoHeaderLost'
      BY <2>1, <2>2 DEF NoHeaderLost, Listed, Ids
    <2>4. ListInv'
      BY <2>1, <2>3 DEF ListInv
    <2> QED BY <1>1, <1>8, <2>4, NotSigned DEF freeRequestInfo, Inv
  <1>9. CASE UNCHANGED vars
    <2>1. /\ phase' = phase /\ mode' = mode /\ url' = url /\ body' = body /\ token' = token
          /\ list' = list /\ signature' = signature /\ wire' = wire
      BY <1>9 DEF vars
    <2>2. ListInv' /\ UrlInv'
      BY <1>1, <2>1 DEF ListInv, NoHeaderLost, Listed, UrlInv
    <2>3. SignatureCurrent'
      <3>1. (generateAwsSigV4Signature(list.entries, url))'
              = generateAwsSigV4Signature(list.entries, url)
        BY <2>1, SignatureNext
      <3> QED BY <2>1, <3>1 DEF Inv, SignatureCurrent, generateSignatureDateTime
    <2>4. QueryInOrder' /\ WireCurrent'
      <3>1. EncodeValues(Decoded(url.params))' = EncodeValues(Decoded(url.params))
        BY <2>1 DEF EncodeValues, Decoded
      <3> QED BY <2>1, <3>1 DEF Inv, QueryInOrder, WireCurrent, Header
    <2>5. QuerySignable'
      <3>1. AuthQuery' = AuthQuery
        BY <2>1 DEF AuthQuery
      <3> QED BY <2>1, <3>1 DEF Inv, QuerySignable, Unsignable
    <2> QED BY <2>2, <2>3, <2>4, <2>5 DEF Inv
  <1> QED BY <1>2, <1>3, <1>4, <1>5, <1>6, <1>7, <1>8, <1>9 DEF Next

LEMMA InvHolds == Spec => []Inv
  BY InitInv, StepInv, PTL DEF Spec

(* The header list stays sorted and owned, what was signed stays what is   *)
(* sent, and the query of a signed URL stays as it was signed, for every   *)
(* set of header names, values, queries and every capacity.                *)
THEOREM SigningInvariance == Spec => []SigningInv
  BY InvHolds, InvGivesSigningInv, PTL

(* Whatever is set, refused and removed, no header is lost: all that are   *)
(* allocated are in the list (RequestInfo.c).                              *)
THEOREM NoHeaderIsLost == Spec => []NoHeaderLost
  <1>1. Inv => NoHeaderLost
    BY DEF Inv, ListInv
  <1> QED BY <1>1, InvHolds, PTL

(* Query signing has room for every URL whose values have one character    *)
(* that is not escaped, unless the URL or a parameter is too long, for all *)
(* lengths and queries (AwsV4Signer.c).                                    *)
THEOREM QueryIsSignable == Spec => []QuerySignable
  <1>1. Inv => QuerySignable
    BY DEF Inv
  <1> QED BY <1>1, InvHolds, PTL

-----------------------------------------------------------------------------
(* The receiver.                                                           *)

(* The query it puts together is the one it received.                      *)
LEMMA QueryIsReceived ==
  ASSUME QueryInOrder, phase = "sent", NoShadowedName
  PROVE  ReceivedQuery = url.params
  <1> DEFINE ps == url.params
  <1>1. /\ ps \in Seq(Params) /\ DOMAIN ps = 1..Len(ps)
        /\ EncodeValues(Decoded(ps)) = ps
        /\ \A i, j \in 1..Len(ps) : i < j => ~TextLess(ps[j], ps[i])
    BY DEF QueryInOrder
  <1>2. ASSUME NEW i \in 1..Len(ps), NEW j \in 1..Len(ps),
               Len(ps[i].name) < Len(ps[j].name),
               SubSeq(ps[j].name, 1, Len(ps[i].name)) = ps[i].name
        PROVE  ps[j].name[Len(ps[i].name) + 1] > EQUALS
    BY <1>1, <1>2 DEF NoShadowedName
  <1>3. ReceivedQuery = Arranged(ps, NameThenValueOrder(ps))
    BY <1>1 DEF ReceivedQuery
  <1> HIDE DEF ps
  <1>4. Arranged(ps, NameThenValueOrder(ps)) = ps
    BY <1>1, <1>2, ReceiverKeepsOrder
  <1> QED BY <1>3, <1>4 DEF ps

(* What curl sends is the list; with no header twice, in the strict order  *)
(* of the names and with the value of each.                                *)
LEMMA WireFacts ==
  ASSUME SoundList(list), WireCurrent, phase = "sent", NoDuplicates
  PROVE  /\ list.entries \in Seq(Headers) /\ DOMAIN wire = 1..Len(list.entries)
         /\ \A i \in 1..Len(list.entries) :
              /\ wire[i].name = list.entries[i].name
              /\ ValueOf(list.entries[i].name) = list.entries[i].value
         /\ \A i, j \in 1..Len(list.entries) :
              i < j => Rank(list.entries[i].name) < Rank(list.entries[j].name)
  <1> DEFINE e == list.entries
  <1>1. /\ list \in Lists
        /\ \A i, j \in 1..Len(e) : i < j => Rank(e[i].name) <= Rank(e[j].name)
    BY DEF SoundList
  <1>2. /\ e \in Seq(Headers) /\ Len(e) \in Nat /\ DOMAIN e = 1..Len(e)
        /\ \A i \in 1..Len(e) : e[i].name \in HeaderNames
    BY <1>1, ListFacts
  <1>3. wire = [i \in 1..Len(e) |-> Header(e[i].name, e[i].value)]
    BY <1>2 DEF WireCurrent
  <1>4. DOMAIN wire = 1..Len(e)
        /\ \A i \in 1..Len(e) : wire[i].name = e[i].name /\ wire[i].value = e[i].value
    BY <1>3 DEF Header
  <1>5. \A i, j \in 1..Len(e) : e[i].name = e[j].name => i = j
    BY <1>4 DEF NoDuplicates
  <1> HIDE DEF e
  <1>6. ASSUME NEW i \in 1..Len(e)
        PROVE  ValueOf(e[i].name) = e[i].value
    <2> DEFINE name == e[i].name
               c == CHOOSE j \in DOMAIN wire : wire[j].name = name
    <2>1. \E j \in DOMAIN wire : wire[j].name = name
      BY <1>4
    <2>2. c \in DOMAIN wire /\ wire[c].name = name
      BY <2>1
    <2>3. ValueOf(name) = wire[c].value
      BY DEF ValueOf
    <2> HIDE DEF c
    <2>4. c = i
      BY <1>4, <1>5, <2>2
    <2> QED BY <1>4, <2>3, <2>4
  <1>7. ASSUME NEW i \in 1..Len(e), NEW j \in 1..Len(e), i < j
        PROVE  Rank(e[i].name) < Rank(e[j].name)
    <2>1. Rank(e[i].name) <= Rank(e[j].name)
      BY <1>1, <1>7
    <2>2. i # j
      BY <1>2, <1>7
    <2>3. e[i].name # e[j].name
      BY <1>5, <2>2
    <2>4. e[i].name \in HeaderNames /\ e[j].name \in HeaderNames
      BY <1>2
    <2>5. /\ Rank(e[i].name) # Rank(e[j].name)
          /\ Rank(e[i].name) \in Nat /\ Rank(e[j].name) \in Nat
      BY <2>3, <2>4, Ranks
    <2> QED BY <2>1, <2>5
  <1> QED BY <1>2, <1>4, <1>6, <1>7 DEF e

(* The names the receiver sorts are in the order they were signed in, and  *)
(* it takes the values that were signed.                                   *)
LEMMA HeadersAreReceived ==
  ASSUME SoundList(list), WireCurrent, phase = "sent", NoDuplicates,
         signature = generateAwsSigV4Signature(list.entries, url)
  PROVE  /\ SortedNames = generateSignedHeaders(list.entries)
         /\ [i \in DOMAIN SortedNames |-> <<SortedNames[i], ValueOf(SortedNames[i])>>]
              = generateCanonicalHeaders(list.entries)
         /\ \A i \in DOMAIN wire :
              IS_CANONICAL_HEADER_NAME(wire[i].name) => wire[i].name \in SignedNames
  <1> DEFINE e == list.entries
             I == CanonicalIndices(e)
             n == Cardinality(I)
             w == Walk(e)
             names == generateSignedHeaders(e)
  <1>1. /\ e \in Seq(Headers) /\ DOMAIN wire = 1..Len(e)
        /\ \A i \in 1..Len(e) : wire[i].name = e[i].name /\ ValueOf(e[i].name) = e[i].value
        /\ \A i, j \in 1..Len(e) : i < j => Rank(e[i].name) < Rank(e[j].name)
    BY WireFacts
  <1>2. \A i \in 1..Len(e) : e[i].name \in HeaderNames
    <2> HIDE DEF e
    <2>1. \A i \in 1..Len(e) : e[i] \in Headers
      BY <1>1
    <2> QED BY <2>1 DEF Headers
  <1>3. I = {i \in 1..Len(e) : IS_CANONICAL_HEADER_NAME(e[i].name)}
    BY <1>1 DEF CanonicalIndices, IsCanonical
  <1>4. signature.signedHeaders = names
    BY DEF generateAwsSigV4Signature
  <1> HIDE DEF e
  <1>5. /\ n \in Nat /\ I \subseteq 1..Len(e)
        /\ w \in [1..n -> I]
        /\ \A i \in I : \E k \in 1..n : w[k] = i
        /\ \A k, j \in 1..n : k < j => w[k] < w[j]
        /\ Canonical(e) = [k \in 1..n |-> e[w[k]]]
    BY <1>1, WalkFacts
  <1> HIDE DEF I, n, w
  <1>6. names = [k \in 1..n |-> e[w[k]].name]
    BY <1>5 DEF generateSignedHeaders
  <1>7. generateCanonicalHeaders(e) = [k \in 1..n |-> <<e[w[k]].name, e[w[k]].value>>]
    BY <1>5 DEF generateCanonicalHeaders
  <1> HIDE DEF names
  <1>8. SignedNames = {names[k] : k \in 1..n}
    BY <1>4, <1>6 DEF SignedNames
  <1>9. \A k \in 1..n : w[k] \in I /\ w[k] \in 1..Len(e) /\ names[k] = e[w[k]].name
    BY <1>5, <1>6
  <1>10. SignedNames \subseteq HeaderNames
    BY <1>2, <1>8, <1>9
  <1>11. StrictOrder(SignedNames, NameOrder)
    <2>1. \A a \in SignedNames : Rank(a) \in Nat
      BY <1>10, Ranks
    <2>2. \A a \in SignedNames : <<a, a>> \notin NameOrder
      BY <2>1 DEF NameOrder
    <2>3. \A a, b \in SignedNames : a # b => <<a, b>> \in NameOrder \/ <<b, a>> \in NameOrder
      <3> SUFFICES ASSUME NEW a \in SignedNames, NEW b \in SignedNames, a # b
                   PROVE  <<a, b>> \in NameOrder \/ <<b, a>> \in NameOrder
        OBVIOUS
      <3>1. Rank(a) # Rank(b)
        BY <1>10, Ranks
      <3>2. Rank(a) < Rank(b) \/ Rank(b) < Rank(a)
        BY <2>1, <3>1
      <3> QED BY <3>2 DEF NameOrder
    <2>4. \A a, b, c \in SignedNames :
            <<a, b>> \in NameOrder /\ <<b, c>> \in NameOrder => <<a, c>> \in NameOrder
      BY <2>1 DEF NameOrder
    <2> QED BY <2>2, <2>3, <2>4 DEF StrictOrder
  <1>12. names \in [1..n -> SignedNames] /\ \A a \in SignedNames : \E k \in 1..n : names[k] = a
    BY <1>6, <1>8
  <1>13. ASSUME NEW k \in 1..n, NEW l \in 1..n, k < l
         PROVE  <<names[k], names[l]>> \in NameOrder
    <2>1. w[k] < w[l]
      BY <1>5, <1>13
    <2>2. Rank(names[k]) < Rank(names[l])
      BY <1>1, <1>9, <2>1
    <2> QED BY <1>12, <2>2 DEF NameOrder
  <1>14. names = InOrder(SignedNames, NameOrder)
    BY <1>5, <1>11, <1>12, <1>13, InOrderUnique
  <1>15. SortedNames = names
    BY <1>14 DEF SortedNames
  <1>16. [i \in DOMAIN names |-> <<names[i], ValueOf(names[i])>>]
           = [k \in 1..n |-> <<e[w[k]].name, e[w[k]].value>>]
    <2>1. DOMAIN names = 1..n
      BY <1>6
    <2>2. \A k \in 1..n : ValueOf(names[k]) = e[w[k]].value /\ names[k] = e[w[k]].name
      BY <1>1, <1>9
    <2> QED BY <2>1, <2>2
  <1>17. ASSUME NEW i \in DOMAIN wire, IS_CANONICAL_HEADER_NAME(wire[i].name)
         PROVE  wire[i].name \in SignedNames
    <2>1. i \in 1..Len(e) /\ wire[i].name = e[i].name
      BY <1>1
    <2>2. i \in I
      BY <1>3, <1>17, <2>1
    <2>3. PICK k \in 1..n : w[k] = i
      BY <1>5, <2>2
    <2> QED BY <1>8, <1>9, <2>1, <2>3
  <1> QED BY <1>7, <1>15, <1>16, <1>17 DEF e, names

LEMMA InvVerifies == Inv => Verifies
  <1> SUFFICES ASSUME Inv, phase = "sent", NoDuplicates, NoShadowedName
               PROVE  /\ signature.signed = Received
                      /\ \A i \in DOMAIN wire :
                           IS_CANONICAL_HEADER_NAME(wire[i].name) => wire[i].name \in SignedNames
    BY DEF Verifies
  <1>1. /\ SoundList(list) /\ WireCurrent /\ QueryInOrder /\ mode \in {"header", "query"}
        /\ signature = generateAwsSigV4Signature(list.entries, url)
        /\ mode = "header" =>
             \E i \in DOMAIN list.entries :
               /\ list.entries[i].name = "X-Amz-Date"
               /\ list.entries[i].value = generateSignatureDateTime
    BY DEF Inv, ListInv, UrlInv, SignatureCurrent
  <1>2. /\ SortedNames = generateSignedHeaders(list.entries)
        /\ [i \in DOMAIN SortedNames |-> <<SortedNames[i], ValueOf(SortedNames[i])>>]
             = generateCanonicalHeaders(list.entries)
        /\ \A i \in DOMAIN wire :
             IS_CANONICAL_HEADER_NAME(wire[i].name) => wire[i].name \in SignedNames
    BY <1>1, HeadersAreReceived
  <1>3. ReceivedQuery = url.params
    BY <1>1, QueryIsReceived
  <1>4. mode = "header" => ValueOf("X-Amz-Date") = generateSignatureDateTime
    <2> SUFFICES ASSUME mode = "header"
                 PROVE  ValueOf("X-Amz-Date") = generateSignatureDateTime
      OBVIOUS
    <2>1. PICK i \in DOMAIN list.entries :
            /\ list.entries[i].name = "X-Amz-Date"
            /\ list.entries[i].value = generateSignatureDateTime
      BY <1>1
    <2>2. /\ list.entries \in Seq(Headers)
          /\ \A j \in 1..Len(list.entries) :
               ValueOf(list.entries[j].name) = list.entries[j].value
      BY <1>1, WireFacts
    <2>3. i \in 1..Len(list.entries)
      BY <2>1, <2>2
    <2>4. ValueOf(list.entries[i].name) = list.entries[i].value
      BY <2>2, <2>3
    <2> QED BY <2>1, <2>4
  <1>5. generateCredentialScope = <<"today", "region">>
    BY DEF generateCredentialScope, generateSignatureDateTime
  <1>6. Received.canonical = generateCanonicalRequestString(list.entries, url)
    BY <1>2, <1>3 DEF Received, generateCanonicalRequestString, getRequestVerbString,
                      getCanonicalUri
  <1>7. Received.dateTime = generateSignatureDateTime
    BY <1>4 DEF Received
  <1>8. Received = [dateTime |-> Received.dateTime, scope |-> <<"today", "region">>,
                    canonical |-> Received.canonical]
    BY DEF Received
  <1>9. signature.signed
          = [dateTime |-> generateSignatureDateTime, scope |-> generateCredentialScope,
             canonical |-> generateCanonicalRequestString(list.entries, url)]
    BY <1>1 DEF generateAwsSigV4Signature
  <1> QED BY <1>2, <1>5, <1>6, <1>7, <1>8, <1>9

(* Whoever receives a signed request puts together the request that was    *)
(* signed, and finds host, date and the headers of callers signed, for all *)
(* headers, values and queries (AwsV4Signer.c).                            *)
THEOREM ReceiverAccepts == Spec => []Verifies
  BY InvHolds, InvVerifies, PTL

=============================================================================
