--------------------------- MODULE FrontEndProofs ---------------------------
(***************************************************************************)
(* Theorems about FrontEnd, whatever the codecs: signatures are judged by the *)
(* time of the request; and as long as the codecs carry what a listing reads   *)
(* (ListingsCarried), the types hold and listings are accurate, for any number *)
(* of clients, queues and credentials.                                        *)
(***************************************************************************)
EXTENDS FrontEnd, SequenceTheorems, FiniteSetTheorems, TLAPS

\* ------------------------------ order of keys ---------------------------

\* The keys of an instance are finitely many.
LEMMA KeysFinite ==
  /\ IsFiniteSet(Keys)
  /\ \A S : S \subseteq Keys => IsFiniteSet(S) /\ Cardinality(S) \in Nat
<1>1. QueueKeys \in Seq(Keys)
  BY FrontEndAssumption
<1>2. Len(QueueKeys) \in Nat /\ DOMAIN QueueKeys = 1 .. Len(QueueKeys)
  BY <1>1
<1>3. IsFiniteSet(DOMAIN QueueKeys)
  BY <1>2, FS_Interval
<1>4. QueueKeys \in Surjection(DOMAIN QueueKeys, Keys)
  BY <1>1 DEF Surjection, Keys, Range
<1>5. IsFiniteSet(Keys)
  BY <1>3, <1>4, FS_Surjection
<1> QED
  BY <1>5, FS_Subset, FS_CardinalityType

LEMMA LengthType == Len(QueueKeys) \in Nat
<1>1. QueueKeys \in Seq(Keys)
  BY FrontEndAssumption
<1> QED
  BY <1>1, LenProperties

\* Before is a strict total order of the keys.
LEMMA BeforeOrders ==
  /\ \A k \in Keys : ~Before(k, k)
  /\ \A k, l, m \in Keys : Before(k, l) /\ Before(l, m) => Before(k, m)
  /\ \A k, l \in Keys : k # l => Before(k, l) \/ Before(l, k)
<1>1. /\ \A i \in DOMAIN QueueKeys : i \in Int
      /\ \A i, j \in DOMAIN QueueKeys : QueueKeys[i] = QueueKeys[j] => i = j
  BY FrontEndAssumption DEF IsInjective
<1>2. \A k \in Keys : \E i \in DOMAIN QueueKeys : QueueKeys[i] = k
  BY DEF Keys, Range
<1>3. \A k \in Keys : ~Before(k, k)
  BY <1>1 DEF Before
<1>4. \A k, l, m \in Keys : Before(k, l) /\ Before(l, m) => Before(k, m)
  <2> SUFFICES ASSUME NEW k \in Keys, NEW l \in Keys, NEW m \in Keys,
                      Before(k, l), Before(l, m)
               PROVE  Before(k, m)
    OBVIOUS
  <2>1. PICK i, j \in DOMAIN QueueKeys : i < j /\ QueueKeys[i] = k /\ QueueKeys[j] = l
    BY DEF Before
  <2>2. PICK h, n \in DOMAIN QueueKeys : h < n /\ QueueKeys[h] = l /\ QueueKeys[n] = m
    BY DEF Before
  <2>3. j = h
    BY <1>1, <2>1, <2>2
  <2>4. i < n
    BY <1>1, <2>1, <2>2, <2>3
  <2> QED
    BY <2>1, <2>2, <2>4 DEF Before
<1>5. \A k, l \in Keys : k # l => Before(k, l) \/ Before(l, k)
  <2> SUFFICES ASSUME NEW k \in Keys, NEW l \in Keys, k # l
               PROVE  Before(k, l) \/ Before(l, k)
    OBVIOUS
  <2>1. PICK i \in DOMAIN QueueKeys : QueueKeys[i] = k
    BY <1>2
  <2>2. PICK j \in DOMAIN QueueKeys : QueueKeys[j] = l
    BY <1>2
  <2>3. i < j \/ j < i
    BY <1>1, <2>1, <2>2
  <2> QED
    BY <2>1, <2>2, <2>3 DEF Before
<1> QED
  BY <1>3, <1>4, <1>5

\* A position counts the keys before: it is at most that of a set which has them too.
LEMMA PositionBounds ==
  ASSUME NEW M, M \subseteq Keys
  PROVE  /\ \A key : Position(key, M) \in Nat
         /\ \A key, N : N \subseteq Keys /\ (\A k \in M : Before(k, key) => k \in N) =>
              Position(key, M) <= Position(key, N)
         /\ \A key \in M : Position(key, M) < Cardinality(M)
         /\ \A k, l \in M : Before(k, l) => Position(k, M) < Position(l, M)
<1> DEFINE P(key, S) == {k \in S : Before(k, key)}
<1>1. \A S, key : S \subseteq Keys => IsFiniteSet(P(key, S)) /\ Cardinality(P(key, S)) \in Nat
  BY KeysFinite
<1>2. \A S, T : S \subseteq T /\ T \subseteq Keys => Cardinality(S) <= Cardinality(T)
  BY KeysFinite, FS_Subset
<1>3. \A S, T, x : S \subseteq T /\ T \subseteq Keys /\ x \in T /\ x \notin S =>
        Cardinality(S) < Cardinality(T)
  <2> SUFFICES ASSUME NEW S, NEW T, NEW x, S \subseteq T, T \subseteq Keys, x \in T, x \notin S
               PROVE  Cardinality(S) < Cardinality(T)
    OBVIOUS
  <2>1. S \in SUBSET T /\ IsFiniteSet(T)
    BY KeysFinite
  <2>2. Cardinality(S) <= Cardinality(T) /\ (Cardinality(T) = Cardinality(S) => T = S)
    BY <2>1, FS_Subset
  <2>3. Cardinality(S) \in Nat /\ Cardinality(T) \in Nat
    BY KeysFinite
  <2> QED
    BY <2>2, <2>3
<1>4. \A key : Position(key, M) \in Nat
  BY <1>1 DEF Position
<1>5. \A key, N : N \subseteq Keys /\ (\A k \in M : Before(k, key) => k \in N) =>
        Position(key, M) <= Position(key, N)
  <2> SUFFICES ASSUME NEW key, NEW N, N \subseteq Keys, \A k \in M : Before(k, key) => k \in N
               PROVE  Cardinality(P(key, M)) <= Cardinality(P(key, N))
    BY DEF Position
  <2>1. P(key, M) \subseteq P(key, N) /\ P(key, N) \subseteq Keys
    OBVIOUS
  <2> QED
    BY <1>2, <2>1
<1>6. \A key \in M : Position(key, M) < Cardinality(M)
  <2> SUFFICES ASSUME NEW key \in M
               PROVE  Cardinality(P(key, M)) < Cardinality(M)
    BY DEF Position
  <2>1. P(key, M) \subseteq M /\ key \notin P(key, M)
    BY BeforeOrders
  <2> QED
    BY <1>3, <2>1
<1>7. \A k, l \in M : Before(k, l) => Position(k, M) < Position(l, M)
  <2> SUFFICES ASSUME NEW k \in M, NEW l \in M, Before(k, l)
               PROVE  Cardinality(P(k, M)) < Cardinality(P(l, M))
    BY DEF Position
  <2>1. P(k, M) \subseteq P(l, M)
    BY BeforeOrders
  <2>2. k \in P(l, M) /\ k \notin P(k, M) /\ P(l, M) \subseteq Keys
    BY BeforeOrders
  <2> QED
    BY <1>3, <2>1, <2>2
<1> QED
  BY <1>4, <1>5, <1>6, <1>7

\* InOrder lists every member once, at the place its position says.
LEMMA InOrderLists ==
  ASSUME NEW M, M \subseteq Keys
  PROVE  /\ Cardinality(M) \in Nat
         /\ DOMAIN InOrder(M) = 1 .. Cardinality(M)
         /\ \A i \in 1 .. Cardinality(M) :
              InOrder(M)[i] \in M /\ Position(InOrder(M)[i], M) = i - 1
         /\ \A key \in M : /\ Position(key, M) + 1 \in 1 .. Cardinality(M)
                           /\ InOrder(M)[Position(key, M) + 1] = key
<1> DEFINE n == Cardinality(M)
           f == [key \in M |-> Position(key, M) + 1]
<1>1. n \in Nat /\ IsFiniteSet(M)
  BY KeysFinite
<1>2. \A key \in M : Position(key, M) \in Nat /\ Position(key, M) < n
  BY PositionBounds
<1>3. f \in [M -> 1 .. n]
  BY <1>1, <1>2
<1>4. \A k, l \in M : Position(k, M) = Position(l, M) => k = l
  <2> SUFFICES ASSUME NEW k \in M, NEW l \in M, k # l PROVE Position(k, M) # Position(l, M)
    OBVIOUS
  <2>1. Before(k, l) \/ Before(l, k)
    BY BeforeOrders
  <2>2. Position(k, M) < Position(l, M) \/ Position(l, M) < Position(k, M)
    BY <2>1, PositionBounds
  <2> QED
    BY <1>2, <2>2
<1>5. f \in Injection(M, 1 .. n)
  <2>1. \A k, l \in M : f[k] = f[l] => k = l
    BY <1>2, <1>4
  <2>2. DOMAIN f = M
    OBVIOUS
  <2> HIDE DEF f
  <2>3. IsInjective(f)
    BY <2>1, <2>2 DEF IsInjective
  <2> QED
    BY <1>3, <2>3 DEF Injection
<1>6. IsFiniteSet(1 .. n) /\ Cardinality(1 .. n) = n
  BY <1>1, FS_Interval
<1>7. f \in Surjection(M, 1 .. n)
  <2> HIDE DEF f
  <2> QED
    BY <1>5, <1>6, FS_Injection
<1>8. \A i \in 1 .. n : \E key \in M : Position(key, M) = i - 1
  <2> SUFFICES ASSUME NEW i \in 1 .. n PROVE \E key \in M : Position(key, M) = i - 1
    OBVIOUS
  <2>1. PICK key \in M : f[key] = i
    BY <1>7 DEF Surjection
  <2> QED
    BY <1>1, <1>2, <2>1
<1>9. \A i \in 1 .. n : InOrder(M)[i] \in M /\ Position(InOrder(M)[i], M) = i - 1
  BY <1>8 DEF InOrder
<1>10. \A key \in M : Position(key, M) + 1 \in 1 .. n
  BY <1>1, <1>2
<1>11. \A key \in M : InOrder(M)[Position(key, M) + 1] = key
  <2> SUFFICES ASSUME NEW key \in M PROVE InOrder(M)[Position(key, M) + 1] = key
    OBVIOUS
  <2> DEFINE k == InOrder(M)[Position(key, M) + 1]
  <2>1. k \in M /\ Position(k, M) = Position(key, M)
    BY <1>2, <1>9, <1>10
  <2> HIDE DEF k
  <2>2. k = key
    BY <1>4, <2>1
  <2> QED
    BY <2>2 DEF k
<1>12. DOMAIN InOrder(M) = 1 .. n
  BY DEF InOrder
<1> QED
  BY <1>1, <1>9, <1>10, <1>11, <1>12

\* -------------------------------- pages ---------------------------------

\* What a page shows of a queue.
Links == {Str(URL(key)) : key \in Keys}
Link(key) == Str(URL(key))

MemberOf(operation) == IF operation = "ListQueues" THEN "QueueUrls" ELSE "queueUrls"

\* Where a page begins in a list of n, and whether another one follows.
StartOf(offset, n) == IF offset <= n THEN offset ELSE n
Follows(n, start, max) == max > 0 /\ max < n - start

CountOf(n, start, max) == IF Follows(n, start, max) THEN max ELSE n - start
Shown(urls, start, m) == [i \in 1 .. m |-> Str(urls[start + i])]

URLsOf(M) == [i \in DOMAIN InOrder(M) |-> URL(InOrder(M)[i])]

\* No token, or no name.
NoText == ""

LEMMA TokensRead ==
  /\ decodeNextToken(NoText) = {0}
  /\ \A i \in 1 .. Len(QueueKeys) :
       encodeNextToken(i) # NoText /\ decodeNextToken(encodeNextToken(i)) = {i}
BY TextAssumption DEF NoText, decodeNextToken

LEMMA LinksDiffer ==
  \A k, l \in Keys : Link(k) = Link(l) => k = l
<1> SUFFICES ASSUME NEW k \in Keys, NEW l \in Keys, Link(k) = Link(l)
             PROVE  k = l
  OBVIOUS
<1>1. Link(k).text = Link(l).text
  OBVIOUS
<1>2. URL(k) = URL(l)
  BY <1>1 DEF Link, Str
<1> QED
  BY <1>2, TextAssumption

LEMMA MinOfTwo ==
  \A a, b \in Int : Min({a, b}) = IF a <= b THEN a ELSE b
<1> SUFFICES ASSUME NEW a \in Int, NEW b \in Int
             PROVE  Min({a, b}) = IF a <= b THEN a ELSE b
  OBVIOUS
<1> QED
  BY DEF Min

\* The members of a page, by their places in the whole list.
LEMMA PageParts ==
  ASSUME NEW urls, NEW U, urls \in Seq(U), NEW offset \in Nat, NEW max \in Int,
         NEW operation \in ListingOperations
  PROVE  LET result == Page(urls, offset, max, MemberOf(operation))
             n == Len(urls)
             start == StartOf(offset, n)
             m == CountOf(n, start, max)
         IN  /\ Is("output", result) /\ ~Is("error", result)
             /\ Listed(result.output, operation) = Shown(urls, start, m)
             /\ stringValue(result.output, "NextToken")
                  = (IF Follows(n, start, max) THEN encodeNextToken(start + max) ELSE NoText)
<1> DEFINE n == Len(urls)
           start == StartOf(offset, n)
           m == CountOf(n, start, max)
<1>1. n = Len(urls) /\ start = StartOf(offset, n) /\ m = CountOf(n, start, max)
  OBVIOUS
<1> HIDE DEF n, start, m
<1> DEFINE member == MemberOf(operation)
           result == Page(urls, offset, max, member)
           rest == SubSeq(urls, start + 1, n)
           more == HasMore(rest, max)
           page == IF more THEN SubSeq(rest, 1, Min({max, Len(rest)})) ELSE rest
           next == encodeNextToken(NextOffset(start, max))
           object == [name \in {member} \cup (IF more /\ next # "" THEN {"NextToken"} ELSE {}) |->
                        IF name = member THEN Items([i \in DOMAIN page |-> Str(page[i])])
                        ELSE Str(next)]
<1>2. n \in Nat /\ \A i \in 1 .. n : urls[i] \in U
  BY <1>1, LenProperties, ElementOfSeq
<1>3. n \in Nat /\ start \in Nat /\ start <= n /\ start = Min({offset, n})
  <2>1. n \in Nat /\ start \in Nat /\ start <= n
    BY <1>2, <1>1 DEF StartOf
  <2>2. Min({offset, n}) = IF offset <= n THEN offset ELSE n
    BY <1>2, MinOfTwo
  <2> QED
    BY <1>1, <2>1, <2>2 DEF StartOf
<1>4. /\ Len(rest) = n - start
      /\ \A i \in 1 .. (n - start) : rest[i] = urls[start + i]
      /\ rest \in Seq(U)
  <2>1. \A i \in (start + 1) .. n : urls[i] \in U
    BY <1>2, <1>3
  <2>2. /\ SubSeq(urls, start + 1, n) \in Seq(U)
        /\ Len(SubSeq(urls, start + 1, n)) = IF start + 1 <= n THEN n - (start + 1) + 1 ELSE 0
        /\ \A i \in 1 .. (n - (start + 1) + 1) :
             SubSeq(urls, start + 1, n)[i] = urls[(start + 1) + i - 1]
    <3>1. start + 1 \in Int /\ n \in Int
      BY <1>3
    <3> QED
      BY <2>1, <3>1, SubSeqProperties
  <2>3. n - (start + 1) + 1 = n - start
    BY <1>3
  <2>4. \A i \in 1 .. (n - start) : (start + 1) + i - 1 = start + i
    BY <1>3
  <2>5. Len(rest) = n - start
    BY <1>3, <2>2
  <2> QED
    BY <2>2, <2>3, <2>4, <2>5
<1> HIDE DEF rest
<1>5. more <=> Follows(n, start, max)
  BY <1>4 DEF HasMore, Follows
<1>6. /\ DOMAIN page = 1 .. m
      /\ \A i \in 1 .. m : page[i] = urls[start + i]
  <2>1. CASE more
    <3>0. max > 0 /\ max < n - start /\ max \in Nat /\ m = max
      BY <1>5, <1>1, <2>1 DEF Follows, CountOf
    <3>1. Min({max, Len(rest)}) = max
      <4>1. Len(rest) \in Int /\ max <= Len(rest)
        BY <1>3, <1>4, <3>0
      <4> QED
        BY <4>1, MinOfTwo
    <3>2. \A i \in 1 .. max : rest[i] \in U
      BY <1>3, <1>4, <3>0
    <3> DEFINE front == SubSeq(rest, 1, max)
    <3>3. /\ SubSeq(rest, 1, max) \in Seq(U) /\ Len(SubSeq(rest, 1, max)) = max
          /\ \A i \in 1 .. max : SubSeq(rest, 1, max)[i] = rest[i]
      <4>1. /\ SubSeq(rest, 1, max) \in Seq(U)
            /\ Len(SubSeq(rest, 1, max)) = IF 1 <= max THEN max - 1 + 1 ELSE 0
            /\ \A i \in 1 .. (max - 1 + 1) : SubSeq(rest, 1, max)[i] = rest[1 + i - 1]
        BY <3>0, <3>2, SubSeqProperties
      <4>2. max - 1 + 1 = max /\ \A i \in 1 .. max : 1 + i - 1 = i
        BY <3>0
      <4> QED
        BY <3>0, <4>1, <4>2
    <3>4. page = front
      BY <2>1, <3>1
    <3>5. DOMAIN front = 1 .. max /\ \A i \in 1 .. max : front[i] = rest[i]
      BY <3>3
    <3> HIDE DEF front
    <3>6. \A i \in 1 .. max : front[i] = urls[start + i]
      <4>1. \A i \in 1 .. max : i \in 1 .. (n - start)
        BY <1>3, <3>0
      <4> QED
        BY <1>4, <3>5, <4>1
    <3> QED
      BY <3>0, <3>4, <3>5, <3>6
  <2>2. CASE ~more
    <3>1. page = rest /\ m = n - start
      BY <1>5, <1>1, <2>2 DEF CountOf
    <3>2. DOMAIN rest = 1 .. (n - start)
      BY <1>4
    <3> QED
      BY <1>3, <1>4, <3>1, <3>2
  <2> QED
    BY <2>1, <2>2
<1>7. result = Success(Obj(object))
  BY <1>3, <1>1 DEF Page, Output, rest
<1> HIDE DEF page, more, next
<1>8. member \in {"QueueUrls", "queueUrls"} /\ member # "NextToken"
  BY DEF MemberOf
<1>9. /\ member \in DOMAIN object
      /\ object[member] = Items([i \in DOMAIN page |-> Str(page[i])])
  OBVIOUS
<1> HIDE DEF object, result
<1>10. result.output.object = object /\ Is("output", result) /\ ~Is("error", result)
  BY <1>7 DEF Success, Obj, Is
<1>11. Listed(result.output, operation) = Shown(urls, start, m)
  <2>1. Listed(result.output, operation) = object[member].items
    BY <1>10, <1>9 DEF Listed, MemberOf
  <2> QED
    BY <1>6, <1>9, <2>1 DEF Items, Shown
<1>12. stringValue(result.output, "NextToken") = IF more THEN next ELSE NoText
  <2>1. CASE more /\ next # ""
    <3>1. "NextToken" \in DOMAIN object /\ object["NextToken"] = [text |-> next]
      BY <1>8, <2>1 DEF object, Str
    <3>2. stringValue(result.output, "NextToken") = FormatPrimitive([text |-> next])
      BY <1>10, <3>1 DEF stringValue
    <3>3. FormatPrimitive([text |-> next]) = next
      BY DEF FormatPrimitive, Is
    <3> QED
      BY <2>1, <3>2, <3>3
  <2>2. CASE ~(more /\ next # "")
    <3>1. "NextToken" \notin DOMAIN object
      BY <1>8, <2>2 DEF object
    <3>2. stringValue(result.output, "NextToken") = NoText
      BY <1>10, <3>1 DEF stringValue, NoText
    <3>3. (IF more THEN next ELSE NoText) = NoText
      BY <2>2 DEF NoText
    <3> QED
      BY <3>2, <3>3
  <2> QED
    BY <2>1, <2>2
<1> QED
  BY <1>5, <1>10, <1>11, <1>12 DEF next, NextOffset, result, n, start, m

InPages(seen, key) == \E i \in DOMAIN seen : seen[i] = Link(key)

\* A page shows the members from its offset on, without a gap, and its token is the
\* offset of what is left; without a token nothing is left.
PageRight(M, offset, p, token) ==
  /\ p \in Seq(Links)
  /\ \A i \in DOMAIN p : \E key \in M : p[i] = Link(key) /\ Position(key, M) = offset + i - 1
  /\ token = NoText => \A key \in M : offset <= Position(key, M) => InPages(p, key)
  /\ token # NoText =>
       \E o \in 1 .. Len(QueueKeys) :
         /\ token = encodeNextToken(o) /\ offset < o
         /\ \A i \in DOMAIN p : offset + i - 1 < o
         /\ \A key \in M : offset <= Position(key, M) /\ Position(key, M) < o => InPages(p, key)

LEMMA PageShows ==
  ASSUME NEW M, M \subseteq Keys, NEW offset \in Nat, NEW max \in Int,
         NEW operation \in ListingOperations
  PROVE  LET result == Page(URLsOf(M), offset, max, MemberOf(operation))
         IN  /\ Is("output", result) /\ ~Is("error", result)
             /\ PageRight(M, offset, Listed(result.output, operation),
                          stringValue(result.output, "NextToken"))
<1> DEFINE urls == URLsOf(M)
           n == Cardinality(M)
           start == StartOf(offset, n)
           more == max > 0 /\ max < n - start
           m == IF more THEN max ELSE n - start
           result == Page(urls, offset, max, MemberOf(operation))
           p == Listed(result.output, operation)
           token == stringValue(result.output, "NextToken")
<1>1. n \in Nat
  BY InOrderLists
<1>2. DOMAIN InOrder(M) = 1 .. n
  BY InOrderLists
<1>3. /\ urls \in Seq({URL(key) : key \in Keys}) /\ Len(urls) = n
      /\ \A i \in 1 .. n : urls[i] = URL(InOrder(M)[i])
  <2>1. \A i \in 1 .. n : InOrder(M)[i] \in Keys
    BY InOrderLists
  <2> QED
    BY <1>1, <1>2, <2>1 DEF URLsOf
<1>4. /\ Is("output", result) /\ ~Is("error", result)
      /\ p = Shown(urls, start, m)
      /\ token = IF more THEN encodeNextToken(start + max) ELSE NoText
  <2> HIDE DEF urls
  <2>1. n = Len(urls) /\ urls \in Seq({URL(key) : key \in Keys})
    BY <1>3
  <2>2. start = StartOf(offset, n) /\ m = CountOf(n, start, max)
    BY DEF Follows, CountOf
  <2>3. n \in Nat /\ offset \in Nat /\ max \in Int /\ operation \in ListingOperations
    BY <1>1
  <2> DEFINE U == {URL(key) : key \in Keys}
  <2> HIDE DEF n, start, m, U, more
  <2>4. urls \in Seq(U) /\ n = Len(urls)
    BY <2>1 DEF U
  <2> HIDE DEF result, p, token
  <2>5. Is("output", result) /\ ~Is("error", result)
    BY <2>3, <2>4, PageParts DEF result
  <2>6. p = Shown(urls, start, m)
    <3>1. Listed(Page(urls, offset, max, MemberOf(operation)).output, operation)
            = Shown(urls, StartOf(offset, Len(urls)),
                    CountOf(Len(urls), StartOf(offset, Len(urls)), max))
      BY <2>3, <2>4, PageParts, Zenon
    <3> QED
      BY <2>2, <2>4, <3>1, Zenon DEF p, result
  <2>7. token = IF Follows(n, start, max) THEN encodeNextToken(start + max) ELSE NoText
    BY <2>2, <2>3, <2>4, PageParts DEF token, result
  <2>8. token = IF more THEN encodeNextToken(start + max) ELSE NoText
    BY <2>7 DEF Follows, more
  <2> QED
    BY <2>5, <2>6, <2>8
<1> HIDE DEF urls, n, start, m, result, p, token
<1>5. start \in Nat /\ start <= n /\ start <= offset /\ (start # offset => start = n)
  BY <1>1 DEF start, StartOf
<1>6. /\ m \in Nat /\ start + m <= n /\ (m # 0 => start < n)
      /\ (more => m = max /\ start + m < n)
      /\ (~more => start + m = n)
  BY <1>1, <1>5 DEF m
<1>7. m # 0 => start = offset
  BY <1>1, <1>5, <1>6
<1>8. /\ DOMAIN p = 1 .. m /\ p = [i \in 1 .. m |-> p[i]]
      /\ \A i \in 1 .. m : p[i] = Str(urls[start + i])
  BY <1>4 DEF Shown
<1>9. \A i \in 1 .. m : /\ start + i \in 1 .. n
                        /\ p[i] = Link(InOrder(M)[start + i])
  <2>1. \A i \in 1 .. m : start + i \in 1 .. n
    BY <1>1, <1>5, <1>6
  <2> QED
    BY <1>3, <1>8, <2>1 DEF Link
<1>10. \A i \in 1 .. m : /\ InOrder(M)[start + i] \in M
                        /\ Position(InOrder(M)[start + i], M) = start + i - 1
  <2>1. \A j \in 1 .. n : InOrder(M)[j] \in M /\ Position(InOrder(M)[j], M) = j - 1
    BY InOrderLists DEF n
  <2> QED
    BY <1>1, <1>5, <1>9, <2>1
<1>11. p \in Seq(Links)
  <2>1. \A i \in 1 .. m : p[i] \in Links
    BY <1>9, <1>10 DEF Links, Link
  <2> QED
    BY <1>6, <1>8, <2>1, IsASeq
<1>12. \A i \in DOMAIN p : \E key \in M : p[i] = Link(key) /\ Position(key, M) = offset + i - 1
  <2> SUFFICES ASSUME NEW i \in 1 .. m
               PROVE  \E key \in M : p[i] = Link(key) /\ Position(key, M) = offset + i - 1
    BY <1>8
  <2>1. m # 0 /\ start = offset
    BY <1>6, <1>7
  <2> QED
    BY <1>9, <1>10, <2>1
<1>13. \A key \in M : offset <= Position(key, M) /\ Position(key, M) < start + m => InPages(p, key)
  <2> SUFFICES ASSUME NEW key \in M, offset <= Position(key, M), Position(key, M) < start + m
               PROVE  InPages(p, key)
    OBVIOUS
  <2> DEFINE i == Position(key, M) + 1 - start
  <2>1. Position(key, M) \in Nat
    BY PositionBounds
  <2>2. i \in 1 .. m /\ start + i = Position(key, M) + 1
    BY <1>5, <1>6, <2>1
  <2>3. InOrder(M)[Position(key, M) + 1] = key
    BY InOrderLists
  <2> HIDE DEF i
  <2>4. p[i] = Link(key)
    BY <1>9, <2>2, <2>3
  <2> QED
    BY <1>8, <2>2, <2>4 DEF InPages
<1>14. \A key \in M : Position(key, M) \in Nat /\ Position(key, M) < n
  BY PositionBounds DEF n
<1>15. n <= Len(QueueKeys)
  <2>1. QueueKeys \in Seq(Keys) /\ DOMAIN QueueKeys = 1 .. Len(QueueKeys) /\ Len(QueueKeys) \in Nat
    BY FrontEndAssumption
  <2>2. QueueKeys \in Surjection(1 .. Len(QueueKeys), Keys)
    BY <2>1 DEF Surjection, Keys, Range
  <2>3. IsFiniteSet(1 .. Len(QueueKeys)) /\ Cardinality(1 .. Len(QueueKeys)) = Len(QueueKeys)
    BY <2>1, FS_Interval
  <2>4. Cardinality(Keys) <= Len(QueueKeys)
    BY <2>2, <2>3, FS_Surjection
  <2>5. Cardinality(M) <= Cardinality(Keys)
    BY KeysFinite, FS_Subset
  <2> QED
    BY <1>1, <2>1, <2>4, <2>5, KeysFinite DEF n
<1>16. more => /\ m # 0 /\ start + m \in 1 .. Len(QueueKeys) /\ start = offset /\ offset < start + m
               /\ \A i \in 1 .. m : offset + i - 1 < start + m
  <2> SUFFICES ASSUME more
               PROVE  /\ m # 0 /\ start + m \in 1 .. Len(QueueKeys) /\ start = offset /\ offset < start + m
                      /\ \A i \in 1 .. m : offset + i - 1 < start + m
    OBVIOUS
  <2> DEFINE length == Len(QueueKeys)
  <2>1. length \in Nat /\ n <= length
    BY <1>15, LengthType
  <2> HIDE DEF length
  <2>2. m # 0 /\ start + m \in 1 .. length
    BY <1>1, <1>5, <1>6, <2>1
  <2> QED
    BY <1>5, <1>6, <1>7, <2>2 DEF length
<1>17. token = NoText => \A key \in M : offset <= Position(key, M) => InPages(p, key)
  <2> SUFFICES ASSUME token = NoText PROVE \A key \in M : offset <= Position(key, M) => InPages(p, key)
    OBVIOUS
  <2>1. ~more
    <3>1. SUFFICES ASSUME more PROVE FALSE
      OBVIOUS
    <3>2. encodeNextToken(start + m) # NoText
      BY <1>16, <3>1, TokensRead
    <3> QED
      BY <1>4, <1>6, <3>1, <3>2
  <2>2. start + m = n
    BY <1>6, <2>1
  <2> QED
    BY <1>13, <1>14, <2>2
<1>18. token # NoText =>
         \E o \in 1 .. Len(QueueKeys) :
           /\ token = encodeNextToken(o) /\ offset < o
           /\ \A i \in DOMAIN p : offset + i - 1 < o
           /\ \A key \in M : offset <= Position(key, M) /\ Position(key, M) < o => InPages(p, key)
  <2> SUFFICES ASSUME token # NoText
               PROVE  \E o \in 1 .. Len(QueueKeys) :
                        /\ token = encodeNextToken(o) /\ offset < o
                        /\ \A i \in DOMAIN p : offset + i - 1 < o
                        /\ \A key \in M : offset <= Position(key, M) /\ Position(key, M) < o => InPages(p, key)
    OBVIOUS
  <2>1. more /\ token = encodeNextToken(start + m)
    BY <1>4, <1>6
  <2> HIDE DEF more
  <2> QED
    BY <1>8, <1>13, <1>16, <2>1
<1> QED
  BY <1>4, <1>11, <1>12, <1>17, <1>18 DEF urls, result, p, token, PageRight

\* ------------------------------ type invariant --------------------------

\* What a client waits for, from the request it sent to the reply it gets.
ConnForm(k) ==
  \/ k = NoConn
  \/ k = [stage |-> "sent", request |-> k.request, asked |-> k.asked]
  \/ /\ k.stage \in {"received", "known", "scoped"}
     /\ k = [stage |-> k.stage, request |-> k.request, asked |-> k.asked,
             received |-> k.received]
  \/ k = [stage |-> "verified", request |-> k.request, account |-> k.account]
  \/ k = [stage |-> "handled", request |-> k.request, result |-> k.result]

ListingForm(l) ==
  \/ l = NoListing
  \/ /\ l.stage \in {"going", "complete"}
     /\ DOMAIN l = {"stage", "request", "token", "seen", "present", "due", "created", "deleted"}

\* The tables.
RowsOK(table) ==
  /\ DOMAIN table \subseteq Keys
  /\ \A key \in DOMAIN table :
       /\ DOMAIN table[key] = {"live", "policy", "till"}
       /\ table[key].live \in BOOLEAN /\ table[key].till \in Nat
TasksOK(newTasks, table) ==
  /\ DOMAIN newTasks \subseteq DOMAIN table
  /\ \A key \in DOMAIN newTasks :
       /\ DOMAIN newTasks[key] = {"started", "running"}
       /\ newTasks[key].started \in Nat \ {0} /\ newTasks[key].running \in BOOLEAN

\* Where a request in progress comes from.
Asking(c) ==
  /\ listing[c] # NoListing =>
       /\ listing[c].request \in Requests[mode][c]
       /\ listing[c].request.ask.operation \in ListingOperations
  /\ conn[c] # NoConn =>
       \/ conn[c].request \in Probes[c] /\ listing[c] = NoListing
       \/ /\ conn[c].request \in Requests[mode][c] /\ listing[c] = NoListing
          /\ conn[c].request.ask.operation \notin ListingOperations
       \/ listing[c].stage = "going" /\ conn[c].request = PageRequest(listing[c])

\* What the checks of a request have shown so far.
Checked(c) ==
  LET k == conn[c]
      auth == AuthOf(k)
  IN  /\ k.stage = "sent" => k.asked \in Nat
      /\ k.stage \in {"received", "known", "scoped"} =>
           /\ mode # "bypass" /\ HasSignature(auth)
           /\ k.asked \in Nat /\ k.received \in Nat /\ k.received <= clock
      /\ k.stage \in {"known", "scoped"} =>
           /\ auth.scope.key \in Registered /\ k.received <= ExpiryOf[auth.scope.key]
           /\ TokenOf[auth.scope.key] \in {NoToken, auth.token}
      /\ k.stage = "scoped" =>
           /\ AllowedRegions = {} \/ auth.scope.region \in AllowedRegions
           /\ auth.signedAt <= clock + Skew /\ k.received <= auth.signedAt + Skew
      /\ k.stage = "verified" => k.account = AccountIn(k.request) /\ k.account \in Accounts

TypeInv ==
  /\ clock \in 0 .. MaxClock /\ process \in {"up", "closing", "down"} /\ exits \in 0 .. MaxExits
  /\ mode \in Modes
  /\ RowsOK(rows) /\ TasksOK(tasks, rows)
  /\ conn = [c \in Clients |-> conn[c]] /\ listing = [c \in Clients |-> listing[c]]
  /\ \A c \in Clients :
       ConnForm(conn[c]) /\ ListingForm(listing[c]) /\ Asking(c) /\ Checked(c)

LEMMA TypeInit == Init => TypeInv
<1> SUFFICES ASSUME Init PROVE TypeInv
  OBVIOUS
<1>1. clock \in 0 .. MaxClock /\ exits \in 0 .. MaxExits
  BY FrontEndAssumption DEF Init
<1>2. RowsOK(rows)
  BY FrontEndAssumption DEF Init, InitialRows, Row, RowsOK
<1>3. TasksOK(tasks, rows)
  BY DEF Init, TasksOK
<1>4. \A c \in Clients : conn[c] = NoConn /\ listing[c] = NoListing
  BY DEF Init
<1>5. \A c \in Clients : Asking(c) /\ Checked(c)
  BY <1>4 DEF Asking, Checked, NoConn, NoListing
<1> QED
  BY <1>1, <1>2, <1>3, <1>4, <1>5 DEF Init, TypeInv, ConnForm, ListingForm

\* ------------------------------- requests -------------------------------

\* What a client signed, by its parts.
LEMMA AuthFields ==
  ASSUME NEW k
  PROVE  LET auth == AuthOf(k)
             signing == k.request.signing
         IN  /\ auth.scheme = signing.scheme /\ auth.token = signing.token
             /\ auth.expires = signing.expires /\ auth.signedAt = k.asked + signing.ahead
             /\ auth.canonical = CanonicalOf(k.request)
             /\ auth.scope = Scope(signing.key, Day(auth.signedAt), signing.region, "sqs")
             /\ auth.scope.key = signing.key /\ auth.scope.region = signing.region
             /\ auth.scope.service = "sqs" /\ auth.scope.date = Day(auth.signedAt)
             /\ auth.signature = Signature(signing.secret,
                                           StringToSign(auth.signedAt, auth.scope, auth.canonical))
BY DEF AuthOf, Signed, Scope

\* The request for a further page differs in its token only.
LEMMA PageRequestReads ==
  ASSUME NEW l, WellFormed(l.request), StartsListing(l.request)
  PROVE  LET asked == l.request
             request == PageRequest(l)
         IN  /\ request.alone = asked.alone /\ request.signing = asked.signing
             /\ request.ask.operation = asked.ask.operation
             /\ stringValue(request.ask.input, "QueueNamePrefix")
                  = stringValue(asked.ask.input, "QueueNamePrefix")
             /\ stringValue(request.ask.input, "QueueUrl")
                  = stringValue(asked.ask.input, "QueueUrl")
             /\ stringValue(request.ask.input, "NextToken") = l.token
             /\ int64Value(request.ask.input, "MaxResults", 0)
                  = int64Value(asked.ask.input, "MaxResults", 0)
<1> DEFINE asked == l.request
           input == asked.ask.input
           object == With(input.object, "NextToken", Str(l.token))
           request == PageRequest(l)
<1>1. CASE l.token = ""
  <2>1. request = asked
    BY <1>1 DEF PageRequest
  <2>2. stringValue(input, "NextToken") = ""
    BY DEF stringValue, StartsListing
  <2> QED
    BY <1>1, <2>1, <2>2
<1>2. CASE l.token # ""
  <2>1. request = [asked EXCEPT !.ask.input.object = object]
    BY <1>2 DEF PageRequest
  <2>2. /\ DOMAIN asked = {"ask", "wire", "signing", "malformed", "alone"}
        /\ DOMAIN asked.ask = {"operation", "input"} /\ DOMAIN input = {"object"}
    BY DEF WellFormed
  <2> HIDE DEF object, request
  <2>3. /\ request.alone = asked.alone /\ request.signing = asked.signing
        /\ request.ask.operation = asked.ask.operation
        /\ request.ask.input.object = object
    BY <2>1, <2>2
  <2>4. /\ DOMAIN object = DOMAIN input.object \cup {"NextToken"}
        /\ object["NextToken"] = Str(l.token)
        /\ \A name \in DOMAIN input.object : name # "NextToken" => object[name] = input.object[name]
    BY DEF object, With
  <2>5. \A name \in {"QueueNamePrefix", "QueueUrl"} :
          stringValue(request.ask.input, name) = stringValue(input, name)
    BY <2>3, <2>4 DEF stringValue
  <2>6. stringValue(request.ask.input, "NextToken") = l.token
    <3>1. stringValue(request.ask.input, "NextToken") = FormatPrimitive([text |-> l.token])
      BY <2>3, <2>4 DEF stringValue, Str
    <3> QED
      BY <3>1 DEF FormatPrimitive, Is
  <2>7. int64Value(request.ask.input, "MaxResults", 0) = int64Value(input, "MaxResults", 0)
    <3>1. /\ "MaxResults" \in DOMAIN object <=> "MaxResults" \in DOMAIN input.object
          /\ "MaxResults" \in DOMAIN object => object["MaxResults"] = input.object["MaxResults"]
      BY <2>4
    <3> QED
      BY <2>3, <3>1 DEF int64Value
  <2> QED
    BY <2>3, <2>5, <2>6, <2>7 DEF request
<1> QED
  BY <1>1, <1>2

\* Every request in progress is one a client may ask, or a further page of one.
LEMMA AskedKnown ==
  ASSUME TypeInv, NEW c \in Clients
  PROVE  /\ listing[c] # NoListing =>
              /\ WellFormed(listing[c].request) /\ StartsListing(listing[c].request)
              /\ ~listing[c].request.alone
              /\ listing[c].request.ask.operation \in ListingOperations
         /\ conn[c] # NoConn =>
              /\ conn[c].request.signing.ahead \in Int /\ conn[c].request.signing.expires \in Int
              /\ conn[c].request.alone => conn[c].request \in Probes[c] /\ listing[c] = NoListing
              /\ ~conn[c].request.alone =>
                   \/ conn[c].request \in Requests[mode][c] /\ listing[c] = NoListing
                   \/ listing[c].stage = "going" /\ conn[c].request = PageRequest(listing[c])
<1>1. /\ mode \in Modes /\ Asking(c)
      /\ listing[c].stage = "going" => listing[c] # NoListing
  BY DEF TypeInv, NoListing
<1>2. listing[c] # NoListing =>
        /\ WellFormed(listing[c].request) /\ StartsListing(listing[c].request)
        /\ ~listing[c].request.alone
        /\ listing[c].request.ask.operation \in ListingOperations
  BY <1>1, RequestsAssumption DEF Asking
<1>3. ASSUME listing[c].stage = "going", conn[c].request = PageRequest(listing[c])
      PROVE  /\ conn[c].request.signing = listing[c].request.signing
             /\ conn[c].request.alone = listing[c].request.alone
  BY <1>1, <1>2, <1>3, PageRequestReads
<1>4. \A request : WellFormed(request) =>
        request.signing.ahead \in Int /\ request.signing.expires \in Int
  BY DEF WellFormed
<1>5. /\ \A request \in Probes[c] : WellFormed(request) /\ request.alone
      /\ \A request \in Requests[mode][c] : WellFormed(request) /\ ~request.alone
  BY <1>1, RequestsAssumption
<1> QED
  BY <1>1, <1>2, <1>3, <1>4, <1>5 DEF Asking

\* ------------------------------ one request -----------------------------

\* A step of the request of one client leaves those of the others.
LEMMA OneRequest ==
  ASSUME TypeInv, NEW c \in Clients, NEW k, conn' = [conn EXCEPT ![c] = k],
         UNCHANGED <<clock, process, exits, mode, rows, tasks, listing>>,
         ConnForm(k), Asking(c)', Checked(c)'
  PROVE  TypeInv'
<1>1. conn'[c] = k /\ \A d \in Clients \ {c} : conn'[d] = conn[d]
  BY DEF TypeInv
<1>2. \A d \in Clients : ConnForm(conn'[d]) /\ ListingForm(listing'[d])
  BY <1>1 DEF TypeInv
<1>3. \A d \in Clients : Asking(d)'
  <2> SUFFICES ASSUME NEW d \in Clients \ {c} PROVE Asking(d)'
    OBVIOUS
  <2>1. Asking(d) /\ conn'[d] = conn[d]
    BY <1>1 DEF TypeInv
  <2> QED
    BY <2>1 DEF Asking
<1>4. \A d \in Clients : Checked(d)'
  <2> SUFFICES ASSUME NEW d \in Clients \ {c} PROVE Checked(d)'
    OBVIOUS
  <2>1. Checked(d) /\ conn'[d] = conn[d]
    BY <1>1 DEF TypeInv
  <2> QED
    BY <2>1 DEF Checked, AccountIn
<1>5. conn' = [d \in Clients |-> conn'[d]]
  BY DEF TypeInv
<1>6. listing' = [d \in Clients |-> listing'[d]]
  BY DEF TypeInv
<1>7. RowsOK(rows') /\ TasksOK(tasks', rows')
  BY DEF TypeInv
<1> QED
  BY <1>2, <1>3, <1>4, <1>5, <1>6, <1>7 DEF TypeInv

\* A refusal ends the checks.
LEMMA RejectKeeps ==
  ASSUME TypeInv, NEW c \in Clients, NEW code, conn[c] # NoConn, Reject(c, code),
         UNCHANGED <<clock, process, exits, mode, rows, tasks, listing>>
  PROVE  TypeInv'
<1> DEFINE k == [stage |-> "handled", request |-> conn[c].request,
                 result |-> Failure(New(code))]
<1>1. conn' = [conn EXCEPT ![c] = k] /\ conn'[c] = k
  BY DEF Reject, TypeInv
<1>2. k.stage = "handled" /\ k.request = conn[c].request /\ k # NoConn
  BY DEF NoConn
<1>3. ConnForm(k)
  BY DEF ConnForm
<1> HIDE DEF k
<1>4. Asking(c)'
  BY <1>1, <1>2 DEF TypeInv, Asking
<1>5. Checked(c)'
  BY <1>1, <1>2 DEF Checked
<1> QED
  BY <1>1, <1>3, <1>4, <1>5, OneRequest

\* The client asks for a page, or anything that is not a listing.
LEMMA SentKeeps ==
  ASSUME TypeInv, NEW request
  PROVE  /\ ConnForm(Sent(request))
         /\ Sent(request) # NoConn /\ Sent(request).request = request
         /\ Sent(request).stage = "sent" /\ Sent(request).asked \in Nat
<1>1. clock \in Nat
  BY FrontEndAssumption DEF TypeInv
<1> QED
  BY <1>1 DEF Sent, ConnForm, NoConn

LEMMA ProbeKeeps ==
  ASSUME TypeInv, NEW c \in Clients, Probe(c)
  PROVE  TypeInv'
<1>1. PICK request \in Probes[c] : conn' = [conn EXCEPT ![c] = Sent(request)]
  BY DEF Probe
<1>2. conn'[c] = Sent(request) /\ listing'[c] = NoListing /\ UNCHANGED <<mode, listing>>
  BY <1>1 DEF TypeInv, Probe
<1>3. Asking(c)'
  BY <1>2, SentKeeps DEF Asking
<1>4. Checked(c)'
  BY <1>2, SentKeeps DEF Checked
<1> QED
  BY <1>1, <1>3, <1>4, SentKeeps, OneRequest DEF Probe

LEMMA AskNextKeeps ==
  ASSUME TypeInv, NEW c \in Clients, AskNext(c)
  PROVE  TypeInv'
<1> DEFINE request == PageRequest(listing[c])
<1>1. conn' = [conn EXCEPT ![c] = Sent(request)] /\ conn'[c] = Sent(request)
  BY DEF AskNext, TypeInv
<1>2. UNCHANGED <<mode, listing>> /\ listing[c].stage = "going" /\ Asking(c)
  BY DEF AskNext, TypeInv
<1>3. Asking(c)'
  BY <1>1, <1>2, SentKeeps DEF Asking
<1>4. Checked(c)'
  <2> HIDE DEF request
  <2> QED
    BY <1>1, SentKeeps DEF Checked
<1> QED
  BY <1>1, <1>3, <1>4, SentKeeps, OneRequest DEF AskNext

LEMMA AskKeeps ==
  ASSUME TypeInv, NEW c \in Clients, Ask(c)
  PROVE  TypeInv'
<1>1. PICK request \in Requests[mode][c] :
        /\ conn' = [conn EXCEPT ![c] = Sent(request)]
        /\ listing' = [listing EXCEPT ![c] =
                         IF request.ask.operation \in ListingOperations
                         THEN NewListing(request) ELSE NoListing]
  BY DEF Ask
<1>2. UNCHANGED <<clock, process, exits, mode, rows, tasks>>
  BY DEF Ask
<1> DEFINE l == IF request.ask.operation \in ListingOperations
                THEN NewListing(request) ELSE NoListing
<1>3. /\ conn'[c] = Sent(request) /\ listing'[c] = l
      /\ \A d \in Clients \ {c} : conn'[d] = conn[d] /\ listing'[d] = listing[d]
  BY <1>1 DEF TypeInv
<1>4. NewListing(request).stage = "going" /\ NewListing(request).request = request
      /\ NewListing(request).token = "" /\ NewListing(request) # NoListing
      /\ ListingForm(NewListing(request)) /\ PageRequest(NewListing(request)) = request
  BY DEF NewListing, ListingForm, NoListing, PageRequest
<1>5. ListingForm(l)
  BY <1>4 DEF ListingForm
<1>6. Asking(c)'
  <2>1. CASE request.ask.operation \in ListingOperations
    <3>1. listing'[c] = NewListing(request)
      BY <1>3, <2>1
    <3> QED
      BY <1>2, <1>3, <1>4, <2>1, <3>1, SentKeeps DEF Asking
  <2>2. CASE request.ask.operation \notin ListingOperations
    <3>1. listing'[c] = NoListing
      BY <1>3, <2>2
    <3> QED
      BY <1>2, <1>3, <2>2, <3>1, SentKeeps DEF Asking
  <2> QED
    BY <2>1, <2>2
<1>7. Checked(c)'
  BY <1>3, SentKeeps DEF Checked
<1> HIDE DEF l
<1>8. \A d \in Clients \ {c} : Asking(d)' /\ Checked(d)'
  <2> SUFFICES ASSUME NEW d \in Clients \ {c} PROVE Asking(d)' /\ Checked(d)'
    OBVIOUS
  <2>1. Asking(d) /\ Checked(d) /\ conn'[d] = conn[d] /\ listing'[d] = listing[d]
    BY <1>3 DEF TypeInv
  <2>2. Asking(d)'
    BY <1>2, <2>1 DEF Asking
  <2>3. Checked(d)'
    BY <1>2, <2>1 DEF Checked, AccountIn
  <2> QED
    BY <2>2, <2>3
<1>9. \A d \in Clients : ConnForm(conn'[d]) /\ ListingForm(listing'[d])
  BY <1>3, <1>5, SentKeeps DEF TypeInv
<1>10. /\ conn' = [d \in Clients |-> conn'[d]] /\ listing' = [d \in Clients |-> listing'[d]]
  BY <1>1 DEF TypeInv
<1>11. RowsOK(rows') /\ TasksOK(tasks', rows')
  BY <1>2 DEF TypeInv
<1>12. \A d \in Clients : Asking(d)' /\ Checked(d)'
  BY <1>6, <1>7, <1>8
<1> QED
  BY <1>2, <1>9, <1>10, <1>11, <1>12 DEF TypeInv

\* The form of a request at a stage.
LEMMA StageForms ==
  ASSUME TypeInv, NEW c \in Clients
  PROVE  LET k == conn[c]
         IN  /\ k.stage = "sent" =>
                  k = [stage |-> "sent", request |-> k.request, asked |-> k.asked]
             /\ k.stage \in {"received", "known", "scoped"} =>
                  k = [stage |-> k.stage, request |-> k.request, asked |-> k.asked,
                       received |-> k.received]
             /\ k.stage = "verified" =>
                  k = [stage |-> "verified", request |-> k.request, account |-> k.account]
             /\ k.stage = "handled" =>
                  k = [stage |-> "handled", request |-> k.request, result |-> k.result]
             /\ k.stage # "idle" => k # NoConn
             /\ k # NoConn => k.stage \in {"sent", "received", "known", "scoped", "verified",
                                           "handled"}
<1> DEFINE k == conn[c]
<1>1. ConnForm(k)
  BY DEF TypeInv
<1> HIDE DEF k
<1>2. k.stage = "sent" => k = [stage |-> "sent", request |-> k.request, asked |-> k.asked]
  BY <1>1 DEF ConnForm, NoConn
<1>3. k.stage \in {"received", "known", "scoped"} =>
        k = [stage |-> k.stage, request |-> k.request, asked |-> k.asked,
             received |-> k.received]
  BY <1>1 DEF ConnForm, NoConn
<1>4. k.stage = "verified" =>
        k = [stage |-> "verified", request |-> k.request, account |-> k.account]
  BY <1>1 DEF ConnForm, NoConn
<1>5. k.stage = "handled" =>
        k = [stage |-> "handled", request |-> k.request, result |-> k.result]
  BY <1>1 DEF ConnForm, NoConn
<1>6. k # NoConn => k.stage \in {"sent", "received", "known", "scoped", "verified", "handled"}
  BY <1>1 DEF ConnForm
<1>7. k.stage # "idle" => k # NoConn
  BY DEF NoConn
<1> QED
  BY <1>2, <1>3, <1>4, <1>5, <1>6, <1>7 DEF k

LEMMA VerifiedKeeps ==
  ASSUME TypeInv, NEW c \in Clients, NEW account, conn[c] # NoConn, Verified(c, account),
         account = AccountIn(conn[c].request), account \in Accounts,
         UNCHANGED <<clock, process, exits, mode, rows, tasks, listing>>
  PROVE  TypeInv'
<1> DEFINE k == [stage |-> "verified", request |-> conn[c].request, account |-> account]
<1>1. conn' = [conn EXCEPT ![c] = k] /\ conn'[c] = k
  BY DEF Verified, TypeInv
<1>2. /\ k.stage = "verified" /\ k.request = conn[c].request /\ k.account = account
      /\ k # NoConn /\ ConnForm(k)
  BY DEF NoConn, ConnForm
<1> HIDE DEF k
<1>3. Asking(c)'
  BY <1>1, <1>2 DEF TypeInv, Asking
<1>4. Checked(c)'
  BY <1>1, <1>2 DEF Checked, AccountIn
<1> QED
  BY <1>1, <1>2, <1>3, <1>4, OneRequest

LEMMA ReceiveKeeps ==
  ASSUME TypeInv, NEW c \in Clients, Receive(c)
  PROVE  TypeInv'
<1>1. /\ conn[c].stage = "sent" /\ conn[c] # NoConn
      /\ UNCHANGED <<clock, process, exits, mode, rows, tasks, listing>>
  BY StageForms DEF Receive, AtStage
<1>2. CASE mode = "bypass"
  <2>1. Verified(c, ServerAccount) /\ ServerAccount \in Accounts
    BY <1>2 DEF Receive, Accounts
  <2> QED
    BY <1>1, <1>2, <2>1, VerifiedKeeps DEF AccountIn
<1>3. CASE mode # "bypass" /\ ~HasSignature(AuthOf(conn[c]))
  BY <1>1, <1>3, RejectKeeps DEF Receive
<1>4. CASE mode # "bypass" /\ HasSignature(AuthOf(conn[c]))
  <2> DEFINE k == [stage |-> "received", request |-> conn[c].request,
                   asked |-> conn[c].asked, received |-> clock]
  <2>1. conn' = [conn EXCEPT ![c] = k] /\ conn'[c] = k
    BY <1>4 DEF Receive, TypeInv
  <2>2. /\ k.stage = "received" /\ k.request = conn[c].request /\ k.asked = conn[c].asked
        /\ k.received = clock /\ k # NoConn /\ ConnForm(k)
    BY DEF NoConn, ConnForm
  <2> HIDE DEF k
  <2>3. Asking(c)'
    BY <1>1, <2>1, <2>2 DEF TypeInv, Asking
  <2>4. AuthOf(k) = AuthOf(conn[c])
    BY <2>2 DEF AuthOf
  <2>5. conn[c].asked \in Nat /\ clock \in Nat
    BY <1>1, FrontEndAssumption DEF TypeInv, Checked
  <2>6. Checked(c)'
    BY <1>1, <1>4, <2>1, <2>2, <2>4, <2>5 DEF Checked
  <2> QED
    BY <1>1, <2>1, <2>2, <2>3, <2>6, OneRequest
<1> QED
  BY <1>2, <1>3, <1>4

\* What the next check may rely on.
LEMMA AdvanceKeeps ==
  ASSUME TypeInv, NEW c \in Clients, NEW stage \in {"known", "scoped"}, Advance(c, stage),
         conn[c].stage \in {"received", "known"},
         UNCHANGED <<clock, process, exits, mode, rows, tasks, listing>>,
         LET auth == AuthOf(conn[c])
         IN  /\ auth.scope.key \in Registered
             /\ conn[c].received <= ExpiryOf[auth.scope.key]
             /\ TokenOf[auth.scope.key] \in {NoToken, auth.token}
             /\ stage = "scoped" =>
                  /\ AllowedRegions = {} \/ auth.scope.region \in AllowedRegions
                  /\ auth.signedAt <= clock + Skew /\ conn[c].received <= auth.signedAt + Skew
  PROVE  TypeInv'
<1> DEFINE k == [stage |-> stage, request |-> conn[c].request,
                 asked |-> conn[c].asked, received |-> conn[c].received]
<1>1. conn[c] = [stage |-> conn[c].stage, request |-> conn[c].request,
                 asked |-> conn[c].asked, received |-> conn[c].received]
  BY StageForms
<1>2. [conn[c] EXCEPT !.stage = stage] = k
  BY <1>1
<1>3. conn' = [conn EXCEPT ![c] = k] /\ conn'[c] = k
  BY <1>2 DEF Advance, TypeInv
<1>4. /\ k.stage = stage /\ k.request = conn[c].request /\ k.asked = conn[c].asked
      /\ k.received = conn[c].received /\ k # NoConn /\ ConnForm(k)
  BY DEF NoConn, ConnForm
<1> HIDE DEF k
<1>5. conn[c] # NoConn
  BY DEF NoConn
<1>6. Asking(c)'
  BY <1>3, <1>4, <1>5 DEF TypeInv, Asking
<1>7. AuthOf(k) = AuthOf(conn[c])
  BY <1>4 DEF AuthOf
<1>8. Checked(c)'
  <2>1. Checked(c)
    BY DEF TypeInv
  <2> QED
    BY <1>3, <1>4, <1>7, <2>1 DEF Checked
<1> QED
  BY <1>3, <1>4, <1>6, <1>8, OneRequest

\* ----------------------------- verification -----------------------------

\* The times that the checks compare are integers.
LEMMA TimesType ==
  ASSUME TypeInv, NEW c \in Clients, conn[c].stage \in {"received", "known", "scoped"}
  PROVE  LET auth == AuthOf(conn[c])
         IN  /\ clock \in Nat /\ conn[c].received \in Nat /\ conn[c].received <= clock
             /\ auth.signedAt \in Int /\ auth.expires \in Int /\ Skew \in Nat
             /\ \A key \in Registered : ExpiryOf[key] \in Nat
             /\ mode # "bypass" /\ HasSignature(auth)
<1>1. conn[c] # NoConn
  BY DEF NoConn
<1>2. /\ clock \in Nat /\ conn[c].received \in Nat /\ conn[c].received <= clock
      /\ conn[c].asked \in Nat /\ mode # "bypass" /\ HasSignature(AuthOf(conn[c]))
  BY FrontEndAssumption DEF TypeInv, Checked
<1>3. conn[c].request.signing.ahead \in Int /\ conn[c].request.signing.expires \in Int
  BY <1>1, AskedKnown
<1>4. AuthOf(conn[c]).signedAt \in Int /\ AuthOf(conn[c]).expires \in Int
  BY <1>2, <1>3, AuthFields
<1> QED
  BY <1>2, <1>4, AuthAssumption

LEMMA IdentityChecked ==
  ASSUME TypeInv, NEW c \in Clients, CheckIdentity(c)
  PROVE  /\ TypeInv'
         /\ conn'[c].stage \in {"known", "handled"}
         /\ conn'[c].stage = "handled" => ~Acceptable(AuthOf(conn[c]), conn[c].received, clock)
<1> DEFINE auth == AuthOf(conn[c])
<1>1. /\ conn[c].stage = "received" /\ conn[c] # NoConn
      /\ UNCHANGED <<clock, process, exits, mode, rows, tasks, listing>>
  BY StageForms DEF CheckIdentity, AtStage
<1>2. /\ clock \in Nat /\ conn[c].received \in Nat /\ conn[c].received <= clock
      /\ \A key \in Registered : ExpiryOf[key] \in Nat
  BY <1>1, TimesType
<1> HIDE DEF auth
<1>3. CASE lookupIdentity(auth, clock)
  <2>1. Advance(c, "known")
    BY <1>3 DEF CheckIdentity, auth
  <2>2. /\ auth.scope.key \in Registered /\ TokenOf[auth.scope.key] \in {NoToken, auth.token}
        /\ ~(clock > ExpiryOf[auth.scope.key])
    BY <1>3 DEF lookupIdentity, CredentialExpired
  <2>3. conn[c].received <= ExpiryOf[auth.scope.key]
    BY <1>2, <2>2
  <2>4. TypeInv'
    BY <1>1, <2>1, <2>2, <2>3, AdvanceKeeps DEF auth
  <2>5. conn'[c].stage = "known"
    <3>1. conn[c] = [stage |-> conn[c].stage, request |-> conn[c].request,
                     asked |-> conn[c].asked, received |-> conn[c].received]
      BY <1>1, StageForms
    <3>2. conn'[c] = [conn[c] EXCEPT !.stage = "known"]
      BY <2>1 DEF Advance, TypeInv
    <3> QED
      BY <3>1, <3>2
  <2> QED
    BY <2>4, <2>5
<1>4. CASE ~lookupIdentity(auth, clock)
  <2>1. Reject(c, "InvalidSecurity")
    BY <1>4 DEF CheckIdentity, auth
  <2>2. TypeInv'
    BY <1>1, <2>1, RejectKeeps
  <2>3. conn'[c].stage = "handled"
    BY <2>1 DEF Reject, TypeInv
  <2>4. ~Acceptable(auth, conn[c].received, clock)
    <3> SUFFICES ASSUME auth.scope.key \in Registered,
                        TokenOf[auth.scope.key] \in {NoToken, auth.token},
                        clock <= ExpiryOf[auth.scope.key]
                 PROVE  FALSE
      BY DEF Acceptable
    <3>1. ~(clock > ExpiryOf[auth.scope.key])
      BY <1>2
    <3> QED
      BY <1>4, <3>1 DEF lookupIdentity, CredentialExpired
  <2> QED
    BY <2>2, <2>3, <2>4 DEF auth
<1> QED
  BY <1>3, <1>4

LEMMA ScopeChecked ==
  ASSUME TypeInv, NEW c \in Clients, CheckScope(c)
  PROVE  /\ TypeInv'
         /\ conn'[c].stage \in {"scoped", "handled"}
         /\ conn'[c].stage = "handled" => ~Acceptable(AuthOf(conn[c]), conn[c].received, clock)
<1> DEFINE auth == AuthOf(conn[c])
<1>1. /\ conn[c].stage = "known" /\ conn[c] # NoConn
      /\ UNCHANGED <<clock, process, exits, mode, rows, tasks, listing>>
  BY StageForms DEF CheckScope, AtStage
<1>2. /\ clock \in Nat /\ conn[c].received \in Nat /\ conn[c].received <= clock
      /\ auth.signedAt \in Int /\ Skew \in Nat
  BY <1>1, TimesType
<1>3. /\ auth.scope.service = "sqs" /\ auth.scope.date = Day(auth.signedAt)
  BY AuthFields
<1>4. /\ auth.scope.key \in Registered /\ conn[c].received <= ExpiryOf[auth.scope.key]
      /\ TokenOf[auth.scope.key] \in {NoToken, auth.token}
  BY <1>1 DEF TypeInv, Checked
<1> HIDE DEF auth
<1>5. CASE validateScope(auth, clock)
  <2>1. Advance(c, "scoped")
    BY <1>5 DEF CheckScope, auth
  <2>2. /\ AllowedRegions = {} \/ auth.scope.region \in AllowedRegions
        /\ ~(auth.signedAt < clock - Skew) /\ ~(auth.signedAt > clock + Skew)
    BY <1>5 DEF validateScope
  <2>3. auth.signedAt <= clock + Skew /\ conn[c].received <= auth.signedAt + Skew
    BY <1>2, <2>2
  <2>4. TypeInv'
    BY <1>1, <1>4, <2>1, <2>2, <2>3, AdvanceKeeps DEF auth
  <2>5. conn'[c].stage = "scoped"
    <3>1. conn[c] = [stage |-> conn[c].stage, request |-> conn[c].request,
                     asked |-> conn[c].asked, received |-> conn[c].received]
      BY <1>1, StageForms
    <3>2. conn'[c] = [conn[c] EXCEPT !.stage = "scoped"]
      BY <2>1 DEF Advance, TypeInv
    <3> QED
      BY <3>1, <3>2
  <2> QED
    BY <2>4, <2>5
<1>6. CASE ~validateScope(auth, clock)
  <2>1. Reject(c, "InvalidSecurity")
    BY <1>6 DEF CheckScope, auth
  <2>2. TypeInv'
    BY <1>1, <2>1, RejectKeeps
  <2>3. conn'[c].stage = "handled"
    BY <2>1 DEF Reject, TypeInv
  <2>4. ~Acceptable(auth, conn[c].received, clock)
    <3> SUFFICES ASSUME AllowedRegions = {} \/ auth.scope.region \in AllowedRegions,
                        auth.signedAt <= conn[c].received + Skew,
                        clock <= auth.signedAt + Skew
                 PROVE  FALSE
      BY DEF Acceptable
    <3>1. ~(auth.signedAt < clock - Skew) /\ ~(auth.signedAt > clock + Skew)
      BY <1>2
    <3> QED
      BY <1>3, <1>6, <3>1 DEF validateScope
  <2> QED
    BY <2>2, <2>3, <2>4 DEF auth
<1> QED
  BY <1>5, <1>6

LEMMA SignatureChecked ==
  ASSUME TypeInv, NEW c \in Clients, CheckSignature(c)
  PROVE  /\ TypeInv'
         /\ conn'[c].stage \in {"verified", "handled"}
         /\ conn'[c].stage = "verified" =>
              /\ Acceptable(AuthOf(conn[c]), clock, conn[c].received)
              /\ conn'[c].account = AccountOf[conn[c].request.signing.key]
         /\ conn'[c].stage = "handled" => ~Acceptable(AuthOf(conn[c]), conn[c].received, clock)
<1> DEFINE auth == AuthOf(conn[c])
           signing == conn[c].request.signing
<1>1. /\ conn[c].stage = "scoped" /\ conn[c] # NoConn
      /\ UNCHANGED <<clock, process, exits, mode, rows, tasks, listing>>
  BY StageForms DEF CheckSignature, AtStage
<1>2. /\ clock \in Nat /\ conn[c].received \in Nat /\ conn[c].received <= clock
      /\ auth.signedAt \in Int /\ auth.expires \in Int /\ mode # "bypass" /\ HasSignature(auth)
  BY <1>1, TimesType
<1>3. /\ auth.scope.key = signing.key /\ auth.canonical = CanonicalOf(conn[c].request)
      /\ auth.signature = Signature(signing.secret,
                                    StringToSign(auth.signedAt, auth.scope, auth.canonical))
  BY AuthFields
<1>4. /\ auth.scope.key \in Registered /\ conn[c].received <= ExpiryOf[auth.scope.key]
      /\ TokenOf[auth.scope.key] \in {NoToken, auth.token}
      /\ AllowedRegions = {} \/ auth.scope.region \in AllowedRegions
      /\ auth.signedAt <= clock + Skew /\ conn[c].received <= auth.signedAt + Skew
  BY <1>1 DEF TypeInv, Checked
<1>5. IdentityOf(auth).account = AccountOf[signing.key]
  BY <1>3 DEF IdentityOf, Identity
<1>6. auth.signature.secret = signing.secret
  BY <1>3 DEF Signature
<1> HIDE DEF auth
<1>7. CASE presignedInTime(auth, clock) /\ SignatureMatches(auth, CanonicalOf(conn[c].request))
  <2>1. Verified(c, AccountOf[signing.key])
    BY <1>5, <1>7 DEF CheckSignature, auth
  <2>2. AccountOf[signing.key] \in Accounts /\ AccountOf[signing.key] = AccountIn(conn[c].request)
    BY <1>2, <1>3, <1>4 DEF Accounts, AccountIn
  <2>3. TypeInv'
    BY <1>1, <2>1, <2>2, VerifiedKeeps
  <2>4. conn'[c].stage = "verified" /\ conn'[c].account = AccountOf[signing.key]
    BY <2>1 DEF Verified, TypeInv
  <2>5. auth.signature.secret = SecretOf[auth.scope.key]
    BY <1>7 DEF SignatureMatches, Signature
  <2>6. auth.scheme = "presigned" => conn[c].received <= auth.signedAt + auth.expires
    <3> SUFFICES ASSUME auth.scheme = "presigned"
                 PROVE  conn[c].received <= auth.signedAt + auth.expires
      OBVIOUS
    <3>1. ~(clock > auth.signedAt + auth.expires)
      BY <1>7 DEF presignedInTime
    <3> QED
      BY <1>2, <3>1
  <2>7. Acceptable(auth, clock, conn[c].received)
    BY <1>2, <1>4, <2>5, <2>6 DEF Acceptable
  <2> QED
    BY <2>3, <2>4, <2>7 DEF auth
<1>8. CASE ~(presignedInTime(auth, clock) /\ SignatureMatches(auth, CanonicalOf(conn[c].request)))
  <2>1. Reject(c, "InvalidSecurity")
    BY <1>8 DEF CheckSignature, auth
  <2>2. TypeInv'
    BY <1>1, <2>1, RejectKeeps
  <2>3. conn'[c].stage = "handled"
    BY <2>1 DEF Reject, TypeInv
  <2>4. ~Acceptable(auth, conn[c].received, clock)
    <3> SUFFICES ASSUME auth.signature.secret = SecretOf[auth.scope.key],
                        auth.scheme = "presigned" => clock <= auth.signedAt + auth.expires
                 PROVE  FALSE
      BY DEF Acceptable
    <3>1. presignedInTime(auth, clock)
      <4>1. auth.scheme = "presigned" => ~(clock > auth.signedAt + auth.expires)
        BY <1>2
      <4> QED
        BY <4>1 DEF presignedInTime
    <3>2. SignatureMatches(auth, CanonicalOf(conn[c].request))
      BY <1>3, <1>6 DEF SignatureMatches
    <3> QED
      BY <1>8, <3>1, <3>2
  <2> QED
    BY <2>2, <2>3, <2>4 DEF auth
<1> QED
  BY <1>7, <1>8

\* ------------------------------- handlers -------------------------------

\* What handlers do to the tables: a queue keeps its policy while it lives.
PoliciesKept(table, newTable) ==
  \A key \in LiveIn(table) \cap LiveIn(newTable) : newTable[key].policy = table[key].policy
TablesKept(outcome) ==
  /\ RowsOK(outcome.rows) /\ TasksOK(outcome.tasks, outcome.rows)
  /\ PoliciesKept(rows, outcome.rows)


\* Only StartMessageMoveTask adds a task, and only one.
NoneStarted(outcome) ==
  \A key \in DOMAIN outcome.tasks :
    key \in DOMAIN tasks /\ outcome.tasks[key].started = tasks[key].started
OneStarted(outcome) ==
  \A key \in DOMAIN outcome.tasks :
    \/ key \in DOMAIN tasks /\ outcome.tasks[key].started = tasks[key].started
    \/ outcome.tasks[key].started = TasksOf(key).started + 1

LEMMA AnsweredKeeps ==
  ASSUME TypeInv, NEW result
  PROVE  /\ TablesKept(Answered(result)) /\ NoneStarted(Answered(result))
         /\ Answered(result).result = result
         /\ Answered(result).rows = rows /\ Answered(result).tasks = tasks
BY DEF TypeInv, Answered, Outcome, TablesKept, PoliciesKept, NoneStarted

LEMMA CreateKeeps ==
  ASSUME TypeInv, NEW input, NEW account \in Accounts, NEW now
  PROVE  TablesKept(CreateQueue(input, account, now)) /\ NoneStarted(CreateQueue(input, account, now))
<1> DEFINE name == stringValue(input, "QueueName")
           key == <<account, name>>
           policy == RedrivePolicyOf(input)
           created == Output([QueueUrl |-> Str(URL(key))])
           changed == Outcome(created, With(rows, key, Row(policy)), Without(tasks, key))
<1> HIDE DEF name, policy, created
<1>1. \/ \E result : CreateQueue(input, account, now) = Answered(result)
      \/ /\ validQueueName(name) /\ key \notin Live
         /\ CreateQueue(input, account, now) = changed
  <2>1. key[2] = name
    OBVIOUS
  <2>2. \A code : Refused(code) = Answered(Failure(New(code)))
    BY DEF Refused
  <2>3. \/ CreateQueue(input, account, now) = Refused("InvalidParameterValue")
        \/ CreateQueue(input, account, now) = Refused("QueueDeletedRecently")
        \/ CreateQueue(input, account, now) = Refused("QueueNameExists")
        \/ CreateQueue(input, account, now) = Answered(created)
        \/ /\ validQueueName(key[2]) /\ key \notin Live
           /\ CreateQueue(input, account, now) = changed
    BY Zenon DEF CreateQueue, name, policy, created
  <2> QED
    BY <2>1, <2>2, <2>3
<1>2. ASSUME validQueueName(name), key \notin Live
      PROVE  TablesKept(changed) /\ NoneStarted(changed)
  <2>1. key \in Keys
    BY <1>2, FrontEndAssumption DEF validQueueName
  <2> DEFINE table == With(rows, key, Row(policy))
             left == Without(tasks, key)
  <2> HIDE DEF key
  <2>2. /\ DOMAIN table = DOMAIN rows \cup {key} /\ table[key] = Row(policy)
        /\ \A k \in DOMAIN rows \ {key} : table[k] = rows[k]
    BY DEF With
  <2>3. DOMAIN left = DOMAIN tasks \ {key} /\ \A k \in DOMAIN left : left[k] = tasks[k]
    BY DEF Without
  <2> HIDE DEF table, left
  <2>4. RowsOK(rows) /\ TasksOK(tasks, rows)
    BY DEF TypeInv
  <2>5. /\ DOMAIN Row(policy) = {"live", "policy", "till"}
        /\ Row(policy).live \in BOOLEAN /\ Row(policy).till \in Nat
    BY DEF Row
  <2>6. RowsOK(table)
    BY <2>1, <2>2, <2>4, <2>5 DEF RowsOK
  <2>7. TasksOK(left, table)
    BY <2>2, <2>3, <2>4 DEF TasksOK
  <2>8. PoliciesKept(rows, table)
    BY <1>2, <2>2 DEF PoliciesKept, LiveIn, Live, key
  <2> QED
    BY <2>3, <2>6, <2>7, <2>8 DEF TablesKept, NoneStarted, Outcome, table, left, key
<1> HIDE DEF key, changed
<1> QED
  BY <1>1, <1>2, AnsweredKeeps

LEMMA DeleteKeeps ==
  ASSUME TypeInv, NEW input, NEW path, NEW now \in Nat
  PROVE  TablesKept(DeleteQueue(input, path, now)) /\ NoneStarted(DeleteQueue(input, path, now))
<1> DEFINE found == lookupQueueByURL(queueURLFromRequest(input, path))
           table == [key \in DOMAIN rows |->
                       IF key \in found
                       THEN [rows[key] EXCEPT !.live = FALSE, !.till = now + DeleteCooldown]
                       ELSE rows[key]]
           changed == Outcome(Success(Obj(<<>>)), table, tasks)
<1>1. \/ DeleteQueue(input, path, now) = Answered(Failure(New("QueueDoesNotExist")))
      \/ DeleteQueue(input, path, now) = changed
  BY Zenon DEF DeleteQueue, Refused
<1> HIDE DEF found
<1>2. now + DeleteCooldown \in Nat
  BY FrontEndAssumption
<1>3. RowsOK(rows) /\ TasksOK(tasks, rows)
  BY DEF TypeInv
<1> DEFINE Deleted(key) == [rows[key] EXCEPT !.live = FALSE, !.till = now + DeleteCooldown]
<1>4. /\ DOMAIN table = DOMAIN rows
      /\ \A key \in DOMAIN rows : table[key] = rows[key] \/ table[key] = Deleted(key)
  OBVIOUS
<1>5. \A key \in DOMAIN rows :
        /\ DOMAIN Deleted(key) = {"live", "policy", "till"}
        /\ Deleted(key).live = FALSE /\ Deleted(key).policy = rows[key].policy
        /\ Deleted(key).till = now + DeleteCooldown
  BY <1>3 DEF RowsOK
<1> HIDE DEF table, Deleted
<1>6. RowsOK(table)
  BY <1>2, <1>3, <1>4, <1>5 DEF RowsOK
<1>7. TasksOK(tasks, table)
  BY <1>3, <1>4 DEF TasksOK
<1>8. PoliciesKept(rows, table)
  BY <1>4, <1>5 DEF PoliciesKept, LiveIn
<1>9. TablesKept(changed) /\ NoneStarted(changed)
  BY <1>6, <1>7, <1>8 DEF TablesKept, NoneStarted, Outcome
<1> QED
  BY <1>1, <1>9, AnsweredKeeps

LEMMA StartKeeps ==
  ASSUME TypeInv, NEW input, NEW outcome \in StartMessageMoveTask(input)
  PROVE  TablesKept(outcome) /\ OneStarted(outcome)
<1> DEFINE source == lookupQueueByARN(stringValue(input, "SourceArn"))
           key == CHOOSE k \in source : TRUE
           started == TasksOf(key).started
           Task(runs) == [started |-> started + 1, running |-> runs]
           Reply(i) == Output([TaskHandle |-> Str(TaskHandle(key, i))])
           Changed(runs) == Outcome(Reply(started + 1), rows, With(tasks, key, Task(runs)))
<1>1. \/ \E result : outcome = Answered(result)
      \/ source # {} /\ \E runs \in BOOLEAN : outcome = Changed(runs)
  BY DEF StartMessageMoveTask, Refused
<1>2. ASSUME source # {}, NEW runs \in BOOLEAN
      PROVE  TablesKept(Changed(runs)) /\ OneStarted(Changed(runs))
  <2>1. key \in Live
    BY <1>2 DEF lookupQueueByARN
  <2> HIDE DEF key
  <2>2. RowsOK(rows) /\ TasksOK(tasks, rows)
    BY DEF TypeInv
  <2>3. started \in Nat
    BY <2>2 DEF TasksOf, TasksOK
  <2>4. /\ DOMAIN Task(runs) = {"started", "running"}
        /\ Task(runs).started = started + 1 /\ Task(runs).started \in Nat \ {0}
        /\ Task(runs).running \in BOOLEAN
    BY <2>3
  <2> DEFINE table == With(tasks, key, Task(runs))
  <2> HIDE DEF Task, started
  <2>5. /\ DOMAIN table = DOMAIN tasks \cup {key} /\ table[key] = Task(runs)
        /\ \A k \in DOMAIN tasks \ {key} : table[k] = tasks[k]
    BY DEF With
  <2> HIDE DEF table
  <2>6. key \in DOMAIN rows
    BY <2>1 DEF Live, LiveIn
  <2>7. TasksOK(table, rows)
    BY <2>2, <2>4, <2>5, <2>6 DEF TasksOK
  <2>8. \A k \in DOMAIN table : \/ k \in DOMAIN tasks /\ table[k].started = tasks[k].started
                                \/ table[k].started = TasksOf(k).started + 1
    BY <2>4, <2>5 DEF started
  <2>9. Changed(runs).rows = rows /\ Changed(runs).tasks = table
    BY DEF Outcome, table
  <2> HIDE DEF Changed
  <2>10. PoliciesKept(rows, rows)
    BY DEF PoliciesKept
  <2> QED
    BY <2>2, <2>7, <2>8, <2>9, <2>10 DEF TablesKept, OneStarted
<1>3. \A result : TablesKept(Answered(result)) /\ OneStarted(Answered(result))
  BY AnsweredKeeps DEF NoneStarted, OneStarted
<1> HIDE DEF Changed
<1> QED
  BY <1>1, <1>2, <1>3

LEMMA CancelKeeps ==
  ASSUME TypeInv, NEW input
  PROVE  /\ TablesKept(CancelMessageMoveTask(input))
         /\ NoneStarted(CancelMessageMoveTask(input))
<1> DEFINE source == lookupQueueByARN(stringValue(input, "SourceArn"))
           key == CHOOSE k \in source : TRUE
           handle == stringValue(input, "TaskHandle")
           started == TasksOf(key).started
           table == IF handle = TaskHandle(key, started)
                    THEN [tasks EXCEPT ![key].running = FALSE] ELSE tasks
           changed == Outcome(Output([ApproximateNumberOfMessagesMoved |-> Int64(0)]), rows, table)
<1>1. \/ CancelMessageMoveTask(input) = Answered(Failure(New("ResourceNotFoundException")))
      \/ CancelMessageMoveTask(input) = changed
  BY Zenon DEF CancelMessageMoveTask, Refused
<1>2. RowsOK(rows) /\ TasksOK(tasks, rows)
  BY DEF TypeInv
<1> HIDE DEF key, started
<1>3. /\ DOMAIN table = DOMAIN tasks
      /\ \A k \in DOMAIN tasks : /\ DOMAIN table[k] = {"started", "running"}
                                 /\ table[k].started = tasks[k].started
                                 /\ table[k].running \in BOOLEAN
  BY <1>2 DEF TasksOK
<1> HIDE DEF table
<1>4. TasksOK(table, rows)
  BY <1>2, <1>3 DEF TasksOK
<1>5. PoliciesKept(rows, rows)
  BY DEF PoliciesKept
<1>6. TablesKept(changed) /\ NoneStarted(changed)
  BY <1>2, <1>3, <1>4, <1>5 DEF TablesKept, NoneStarted, Outcome
<1> QED
  BY <1>1, <1>6, AnsweredKeeps

\* Whatever operation the codec makes of a request.
LEMMA DispatchKeeps ==
  ASSUME TypeInv, NEW operation, NEW input, NEW path, NEW account \in Accounts,
         NEW outcome \in Dispatch(operation, input, path, account, clock)
  PROVE  /\ TablesKept(outcome) /\ OneStarted(outcome)
         /\ operation # "StartMessageMoveTask" => NoneStarted(outcome)
<1>1. clock \in Nat
  BY FrontEndAssumption DEF TypeInv
<1>2. \/ outcome = CreateQueue(input, account, clock)
      \/ outcome = DeleteQueue(input, path, clock)
      \/ outcome = CancelMessageMoveTask(input)
      \/ operation = "StartMessageMoveTask" /\ outcome \in StartMessageMoveTask(input)
      \/ \E result : outcome = Answered(result)
  <2>1. \/ outcome = CreateQueue(input, account, clock)
        \/ outcome = DeleteQueue(input, path, clock)
        \/ outcome = CancelMessageMoveTask(input)
        \/ operation = "StartMessageMoveTask" /\ outcome \in StartMessageMoveTask(input)
        \/ outcome = GetQueueURL(input, account)
        \/ outcome = ListQueues(input, account)
        \/ outcome = ListDeadLetterSourceQueues(input, path)
        \/ \E result : outcome = Answered(result)
    BY DEF Dispatch
  <2>2. \E result : GetQueueURL(input, account) = Answered(result)
    BY DEF GetQueueURL, Refused
  <2>3. \A urls, member : \E result : PageOf(input, urls, member) = Answered(result)
    BY DEF PageOf, Refused
  <2>4. \E result : ListQueues(input, account) = Answered(result)
    BY <2>3 DEF ListQueues
  <2>5. \E result : ListDeadLetterSourceQueues(input, path) = Answered(result)
    BY <2>3 DEF ListDeadLetterSourceQueues, Refused
  <2> QED
    BY <2>1, <2>2, <2>4, <2>5
<1>3. NoneStarted(outcome) => OneStarted(outcome)
  BY DEF NoneStarted, OneStarted
<1> QED
  BY <1>1, <1>2, <1>3, AnsweredKeeps, CreateKeeps, DeleteKeeps, StartKeeps, CancelKeeps

\* -------------------------------- answers -------------------------------

\* A listing notes what was created and deleted, and nothing else of it changes.
LEMMA NotedKeeps ==
  ASSUME NEW l, ListingForm(l), NEW newRows
  PROVE  LET noted == Noted(l, newRows)
         IN  /\ ListingForm(noted) /\ noted.stage = l.stage /\ (noted = NoListing <=> l = NoListing)
             /\ l.stage # "going" => noted = l
             /\ l # NoListing =>
                  /\ noted.request = l.request /\ noted.token = l.token /\ noted.seen = l.seen
                  /\ noted.present = l.present /\ noted.due = l.due
             /\ l.stage = "going" =>
                  /\ noted.created = l.created \cup (LiveIn(newRows) \ LiveIn(rows))
                  /\ noted.deleted = l.deleted \cup (LiveIn(rows) \ LiveIn(newRows))
<1>1. CASE l.stage # "going"
  BY <1>1 DEF Noted
<1>2. CASE l.stage = "going"
  <2> DEFINE created == l.created \cup (LiveIn(newRows) \ LiveIn(rows))
             deleted == l.deleted \cup (LiveIn(rows) \ LiveIn(newRows))
             noted == [l EXCEPT !.created = created, !.deleted = deleted]
  <2>1. Noted(l, newRows) = noted
    BY <1>2 DEF Noted, Live
  <2>2. DOMAIN l = {"stage", "request", "token", "seen", "present", "due", "created", "deleted"}
    BY <1>2 DEF ListingForm, NoListing
  <2> HIDE DEF created, deleted
  <2>3. /\ DOMAIN noted = DOMAIN l /\ noted.stage = l.stage
        /\ noted.request = l.request /\ noted.token = l.token /\ noted.seen = l.seen
        /\ noted.present = l.present /\ noted.due = l.due
        /\ noted.created = created /\ noted.deleted = deleted
    BY <2>2
  <2> HIDE DEF noted
  <2>4. noted # NoListing /\ l # NoListing /\ ListingForm(noted)
    BY <1>2, <2>2, <2>3 DEF NoListing, ListingForm
  <2> QED
    BY <1>2, <2>1, <2>3, <2>4 DEF created, deleted
<1> QED
  BY <1>1, <1>2

\* The request for the next page is made of the request and the token.
LEMMA SameNextPage ==
  ASSUME NEW l, NEW m, l.request = m.request, l.token = m.token
  PROVE  PageRequest(l) = PageRequest(m)
BY DEF PageRequest

LEMMA HandleKeeps ==
  ASSUME TypeInv, NEW c \in Clients, Handle(c)
  PROVE  TypeInv'
<1> DEFINE decoded == DecodeRequest(HTTPOf(conn[c].request))
           Answer(result) == [stage |-> "handled", request |-> conn[c].request, result |-> result]
<1>1. /\ conn[c].stage = "verified" /\ conn[c] # NoConn /\ conn[c].account \in Accounts
      /\ UNCHANGED <<clock, process, exits, mode>>
  BY StageForms DEF Handle, AtStage, TypeInv, Checked
<1>2. PICK result : conn' = [conn EXCEPT ![c] = Answer(result)]
  BY DEF Handle
<1>3. /\ RowsOK(rows') /\ TasksOK(tasks', rows')
      /\ \/ UNCHANGED listing
         \/ listing' = [d \in Clients |-> Noted(listing[d], rows')]
  <2>1. CASE UNCHANGED <<rows, tasks, listing>>
    BY <2>1 DEF TypeInv
  <2>2. CASE \E outcome \in Dispatch(decoded.operation, decoded.input,
                                     HTTPOf(conn[c].request).path, conn[c].account, clock) :
               /\ rows' = outcome.rows /\ tasks' = outcome.tasks
               /\ listing' = [d \in Clients |-> Noted(listing[d], outcome.rows)]
    <3>1. PICK outcome \in Dispatch(decoded.operation, decoded.input,
                                    HTTPOf(conn[c].request).path, conn[c].account, clock) :
               /\ rows' = outcome.rows /\ tasks' = outcome.tasks
               /\ listing' = [d \in Clients |-> Noted(listing[d], outcome.rows)]
      BY <2>2
    <3>2. TablesKept(outcome)
      BY <1>1, DispatchKeeps
    <3> QED
      BY <3>1, <3>2 DEF TablesKept
  <2> QED
    BY <2>1, <2>2 DEF Handle
<1>4. \A d \in Clients :
        /\ ListingForm(listing'[d]) /\ listing'[d].stage = listing[d].stage
        /\ listing'[d] = NoListing <=> listing[d] = NoListing
        /\ listing[d] # NoListing => /\ listing'[d].request = listing[d].request
                                     /\ listing'[d].token = listing[d].token
  <2> SUFFICES ASSUME NEW d \in Clients
               PROVE  /\ ListingForm(listing'[d]) /\ listing'[d].stage = listing[d].stage
                      /\ listing'[d] = NoListing <=> listing[d] = NoListing
                      /\ listing[d] # NoListing => /\ listing'[d].request = listing[d].request
                                                   /\ listing'[d].token = listing[d].token
    OBVIOUS
  <2>1. ListingForm(listing[d])
    BY DEF TypeInv
  <2>2. listing'[d] = listing[d] \/ listing'[d] = Noted(listing[d], rows')
    BY <1>3
  <2> QED
    BY <2>1, <2>2, NotedKeeps
<1>5. /\ conn'[c] = Answer(result) /\ \A d \in Clients \ {c} : conn'[d] = conn[d]
      /\ conn' = [d \in Clients |-> conn'[d]] /\ listing' = [d \in Clients |-> listing'[d]]
  BY <1>2, <1>3 DEF TypeInv
<1>6. \A d \in Clients :
        /\ ConnForm(conn'[d])
        /\ conn'[d] # NoConn => conn[d] # NoConn /\ conn'[d].request = conn[d].request
  BY <1>1, <1>5 DEF TypeInv, ConnForm, NoConn
<1>7. \A d \in Clients : Asking(d)'
  <2> SUFFICES ASSUME NEW d \in Clients PROVE Asking(d)'
    OBVIOUS
  <2>1. Asking(d) /\ mode' = mode
    BY <1>1 DEF TypeInv
  <2>2. listing[d].stage = "going" => PageRequest(listing'[d]) = PageRequest(listing[d])
    BY <1>4, SameNextPage DEF NoListing
  <2> QED
    BY <1>4, <1>6, <2>1, <2>2 DEF Asking
<1>8. \A d \in Clients : Checked(d)'
  <2> SUFFICES ASSUME NEW d \in Clients PROVE Checked(d)'
    OBVIOUS
  <2>1. CASE d = c
    BY <1>5, <2>1 DEF Checked
  <2>2. CASE d # c
    <3>1. Checked(d) /\ conn'[d] = conn[d]
      BY <1>5, <2>2 DEF TypeInv
    <3> QED
      BY <1>1, <3>1 DEF Checked, AccountIn
  <2> QED
    BY <2>1, <2>2
<1> QED
  BY <1>1, <1>3, <1>4, <1>5, <1>6, <1>7, <1>8 DEF TypeInv

LEMMA PageAdded ==
  ASSUME NEW l, ListingForm(l), l.stage = "going", NEW urls, NEW token
  PROVE  LET longer == WithPage(l, urls, token)
         IN  /\ ListingForm(longer) /\ longer # NoListing
             /\ longer.request = l.request /\ longer.present = l.present /\ longer.due = l.due
             /\ longer.created = l.created /\ longer.deleted = l.deleted
             /\ longer.seen = l.seen \o urls /\ longer.token = token
             /\ token = NoText => longer.stage = "complete"
             /\ token # NoText => longer.stage = "going"
<1> DEFINE seen == l.seen \o urls
           stage == IF token = "" THEN "complete" ELSE "going"
           longer == [l EXCEPT !.seen = seen, !.token = token, !.stage = stage]
<1>1. DOMAIN l = {"stage", "request", "token", "seen", "present", "due", "created", "deleted"}
  BY DEF ListingForm, NoListing
<1>2. WithPage(l, urls, token) = longer
  BY DEF WithPage
<1>3. stage \in {"going", "complete"}
  OBVIOUS
<1> HIDE DEF seen, stage
<1>4. /\ DOMAIN longer = DOMAIN l /\ longer.stage = stage
      /\ longer.request = l.request /\ longer.token = token /\ longer.seen = seen
      /\ longer.present = l.present /\ longer.due = l.due
      /\ longer.created = l.created /\ longer.deleted = l.deleted
  BY <1>1
<1> HIDE DEF longer
<1>5. longer # NoListing /\ ListingForm(longer)
  BY <1>1, <1>3, <1>4 DEF NoListing, ListingForm
<1> QED
  <2>1. (token = NoText => stage = "complete") /\ (token # NoText => stage = "going")
    BY DEF stage, NoText
  <2>2. seen = l.seen \o urls
    BY DEF seen
  <2> QED
    BY <1>2, <1>4, <1>5, <2>1, <2>2

LEMMA RespondKeeps ==
  ASSUME TypeInv, NEW c \in Clients, Respond(c)
  PROVE  TypeInv'
<1> DEFINE l == listing[c]
           read == Reading(conn[c])
           longer == WithPage(l, Listed(read.output, conn[c].request.ask.operation),
                              stringValue(read.output, "NextToken"))
           new == IF l.stage # "going" THEN l ELSE IF ~Is("output", read) THEN NoListing ELSE longer
<1>1. /\ conn' = [conn EXCEPT ![c] = NoConn] /\ listing' = [listing EXCEPT ![c] = new]
      /\ UNCHANGED <<clock, process, exits, mode, rows, tasks>>
  BY DEF Respond
<1>2. ListingForm(l) /\ Asking(c)
  BY DEF TypeInv
<1>3. /\ ListingForm(new)
      /\ new # NoListing => l # NoListing /\ new.request = l.request
  <2>1. CASE l.stage = "going"
    <3>1. ListingForm(longer) /\ longer.request = l.request
      BY <1>2, <2>1, PageAdded
    <3>2. l # NoListing /\ ListingForm(NoListing)
      BY <2>1 DEF NoListing, ListingForm
    <3>3. new = NoListing \/ new = longer
      BY <2>1
    <3> HIDE DEF new, longer
    <3> QED
      BY <3>1, <3>2, <3>3
  <2>2. CASE l.stage # "going"
    BY <1>2, <2>2
  <2> QED
    BY <2>1, <2>2
<1> HIDE DEF new
<1>4. /\ conn'[c] = NoConn /\ listing'[c] = new
      /\ \A d \in Clients \ {c} : conn'[d] = conn[d] /\ listing'[d] = listing[d]
      /\ conn' = [d \in Clients |-> conn'[d]] /\ listing' = [d \in Clients |-> listing'[d]]
  BY <1>1 DEF TypeInv
<1>5. \A d \in Clients : ConnForm(conn'[d]) /\ ListingForm(listing'[d])
  BY <1>3, <1>4 DEF TypeInv, ConnForm
<1>6. \A d \in Clients : Asking(d)' /\ Checked(d)'
  <2> SUFFICES ASSUME NEW d \in Clients PROVE Asking(d)' /\ Checked(d)'
    OBVIOUS
  <2>1. CASE d = c
    <3>1. Asking(d)'
      BY <1>1, <1>2, <1>3, <1>4, <2>1 DEF Asking
    <3>2. Checked(d)'
      BY <1>4, <2>1 DEF Checked, NoConn
    <3> QED
      BY <3>1, <3>2
  <2>2. CASE d # c
    <3>1. Asking(d) /\ Checked(d) /\ conn'[d] = conn[d] /\ listing'[d] = listing[d]
      BY <1>4, <2>2 DEF TypeInv
    <3>2. Asking(d)'
      BY <1>1, <3>1 DEF Asking
    <3>3. Checked(d)'
      BY <1>1, <3>1 DEF Checked, AccountIn
    <3> QED
      BY <3>2, <3>3
  <2> QED
    BY <2>1, <2>2
<1>7. RowsOK(rows') /\ TasksOK(tasks', rows')
  BY <1>1 DEF TypeInv
<1> QED
  BY <1>1, <1>4, <1>5, <1>6, <1>7 DEF TypeInv

\* The steps of the process and of time, and those that change nothing.
LEMMA ProcessKeeps ==
  ASSUME TypeInv, Tick \/ Stop \/ Exit \/ Restart \/ UNCHANGED vars
  PROVE  TypeInv'
<1>1. /\ UNCHANGED <<mode, rows, tasks, listing>>
      /\ clock \in Nat /\ clock' \in 0 .. MaxClock /\ clock <= clock' /\ exits' \in 0 .. MaxExits
      /\ process' \in {"up", "closing", "down"}
  <2>1. clock \in 0 .. MaxClock /\ exits \in 0 .. MaxExits /\ MaxClock \in Nat /\ MaxExits \in Nat
    BY FrontEndAssumption DEF TypeInv
  <2>2. UNCHANGED <<mode, rows, tasks, listing>> /\ process' \in {"up", "closing", "down"}
    BY DEF Tick, Stop, Exit, Restart, vars, TypeInv
  <2>3. clock' = clock \/ (clock < MaxClock /\ clock' = clock + 1)
    BY DEF Tick, Stop, Exit, Restart, vars
  <2>4. exits' = exits \/ (exits < MaxExits /\ exits' = exits + 1)
    BY DEF Tick, Stop, Exit, Restart, vars
  <2> QED
    BY <2>1, <2>2, <2>3, <2>4
<1>2. /\ conn' = [d \in Clients |-> conn'[d]]
      /\ \A d \in Clients : conn'[d] = NoConn \/ conn'[d] = conn[d]
  BY DEF Tick, Stop, Exit, Restart, vars, TypeInv
<1>3. \A d \in Clients : Asking(d)' /\ Checked(d)' /\ ConnForm(conn'[d])
  <2> SUFFICES ASSUME NEW d \in Clients PROVE Asking(d)' /\ Checked(d)' /\ ConnForm(conn'[d])
    OBVIOUS
  <2>1. Asking(d) /\ Checked(d) /\ ConnForm(conn[d])
    BY DEF TypeInv
  <2>2. Asking(d)'
    BY <1>1, <1>2, <2>1 DEF Asking
  <2>3. Checked(d)'
    <3>1. CASE conn'[d] = NoConn
      BY <3>1 DEF Checked, NoConn
    <3>2. CASE conn'[d] = conn[d] /\ conn[d].stage \in {"received", "known", "scoped"}
      <4>1. /\ conn[d].received \in Nat /\ conn[d].received <= clock
            /\ AuthOf(conn[d]).signedAt \in Int /\ Skew \in Nat
        BY <3>2, TimesType
      <4>2. conn[d].received <= clock'
        BY <1>1, <4>1
      <4>3. AuthOf(conn[d]).signedAt <= clock + Skew => AuthOf(conn[d]).signedAt <= clock' + Skew
        BY <1>1, <4>1
      <4> QED
        BY <1>1, <2>1, <3>2, <4>2, <4>3 DEF Checked
    <3>3. CASE conn'[d] = conn[d] /\ conn[d].stage \notin {"received", "known", "scoped"}
      BY <1>1, <2>1, <3>3 DEF Checked, AccountIn
    <3> QED
      BY <1>2, <3>1, <3>2, <3>3
  <2>4. ConnForm(conn'[d])
    BY <1>2, <2>1 DEF ConnForm
  <2> QED
    BY <2>2, <2>3, <2>4
<1>4. /\ RowsOK(rows') /\ TasksOK(tasks', rows') /\ mode' \in Modes
      /\ listing' = [d \in Clients |-> listing'[d]] /\ \A d \in Clients : ListingForm(listing'[d])
  BY <1>1 DEF TypeInv
<1> QED
  BY <1>1, <1>2, <1>3, <1>4 DEF TypeInv

\* ------------------------------- every step -----------------------------

LEMMA TypeNext == TypeInv /\ [Next]_vars => TypeInv'
<1> SUFFICES ASSUME TypeInv, [Next]_vars PROVE TypeInv'
  OBVIOUS
<1>1. CASE \E c \in Clients : Ask(c) \/ Probe(c) \/ AskNext(c) \/ Serve(c)
  <2>1. PICK c \in Clients : Ask(c) \/ Probe(c) \/ AskNext(c) \/ Serve(c)
    BY <1>1
  <2>2. CASE Ask(c) \/ Probe(c) \/ AskNext(c)
    BY <2>2, AskKeeps, ProbeKeeps, AskNextKeeps
  <2>3. CASE Receive(c) \/ CheckIdentity(c) \/ CheckScope(c) \/ CheckSignature(c)
    BY <2>3, ReceiveKeeps, IdentityChecked, ScopeChecked, SignatureChecked
  <2>4. CASE Handle(c) \/ Respond(c)
    BY <2>4, HandleKeeps, RespondKeeps
  <2> QED
    BY <2>1, <2>2, <2>3, <2>4 DEF Serve
<1>2. CASE Tick \/ Stop \/ Exit \/ Restart \/ UNCHANGED vars
  BY <1>2, ProcessKeeps
<1> QED
  BY <1>1, <1>2 DEF Next

LEMMA TypeAlways == Spec => []TypeInv
<1> QED
  BY TypeInit, TypeNext, PTL DEF Spec

\* A request is accepted only if it was acceptable by the end of the checks and since
\* their beginning, and refused only if it was not throughout, although each check
\* reads the clock for itself.  (auth.go: lookupIdentity, validateScope,
\* authenticateQuerySigned; the property VerdictRight)
THEOREM VerdictsRight == Spec => VerdictRight
<1> DEFINE Verdict(c) ==
             conn[c].stage \in {"received", "known", "scoped"} =>
               /\ conn'[c].stage = "verified" =>
                    /\ Acceptable(AuthOf(conn[c]), clock, conn[c].received)
                    /\ conn'[c].account = AccountOf[conn[c].request.signing.key]
               /\ conn'[c].stage = "handled" =>
                    ~Acceptable(AuthOf(conn[c]), conn[c].received, clock)
<1>1. TypeInv /\ [Next]_vars => [\A c \in Clients : Verdict(c)]_vars
  <2> SUFFICES ASSUME TypeInv, [Next]_vars, vars' # vars, NEW c \in Clients,
                      conn[c].stage \in {"received", "known", "scoped"}
               PROVE  /\ conn'[c].stage = "verified" =>
                           /\ Acceptable(AuthOf(conn[c]), clock, conn[c].received)
                           /\ conn'[c].account = AccountOf[conn[c].request.signing.key]
                      /\ conn'[c].stage = "handled" =>
                           ~Acceptable(AuthOf(conn[c]), conn[c].received, clock)
    OBVIOUS
  <2>1. CASE conn'[c].stage \in {"idle", "sent", "received", "known", "scoped"}
    BY <2>1
  <2>2. CASE CheckIdentity(c) \/ CheckScope(c) \/ CheckSignature(c)
    BY <2>2, IdentityChecked, ScopeChecked, SignatureChecked
  <2>3. CASE \E d \in Clients \ {c} : Ask(d) \/ Probe(d) \/ AskNext(d) \/ Serve(d)
    <3>1. PICK d \in Clients \ {c} : Ask(d) \/ Probe(d) \/ AskNext(d) \/ Serve(d)
      BY <2>3
    <3>2. \E k : conn' = [conn EXCEPT ![d] = k]
      BY <3>1 DEF Ask, Probe, AskNext, Serve, Receive, CheckIdentity, CheckScope, CheckSignature,
                  Handle, Respond, Reject, Advance, Verified
    <3>3. conn'[c] = conn[c]
      BY <3>2 DEF TypeInv
    <3> QED
      BY <3>3, <2>1
  <2>4. CASE Ask(c) \/ Probe(c) \/ AskNext(c) \/ Receive(c) \/ Handle(c) \/ Respond(c)
    BY <2>4 DEF Ask, Probe, AskNext, Idle, Receive, Handle, Respond, AtStage, NoConn
  <2>5. CASE Tick \/ Stop \/ Exit \/ Restart
    <3>1. conn'[c] = conn[c] \/ conn'[c] = NoConn
      BY <2>5 DEF Tick, Stop, Exit, Restart
    <3> QED
      BY <2>1, <3>1 DEF NoConn
  <2>6. \/ Tick \/ Stop \/ Exit \/ Restart
        \/ \E d \in Clients : Ask(d) \/ Probe(d) \/ AskNext(d) \/ Serve(d)
    BY DEF Next
  <2> QED
    BY <2>2, <2>3, <2>4, <2>5, <2>6 DEF Serve
<1> QED
  BY <1>1, TypeAlways, PTL DEF Spec, VerdictRight

\* --------------------------- tasks of a queue ---------------------------

Starting(c) == conn[c] # NoConn /\ conn[c].request.ask.operation = "StartMessageMoveTask"

\* One client at a time starts a task, and while it does no queue is at the bound.
StartInv ==
  /\ \A key \in DOMAIN tasks : tasks[key].started \in 1 .. MaxTasks
  /\ \A c, d \in Clients : Starting(c) /\ Starting(d) => c = d
  /\ \A c \in Clients : Starting(c) /\ conn[c].stage # "handled" =>
       \A key \in DOMAIN tasks : tasks[key].started < MaxTasks

LEMMA ListingStartsNothing ==
  ASSUME TypeInv, NEW c \in Clients, listing[c] # NoListing
  PROVE  /\ listing[c].request.ask.operation # "StartMessageMoveTask"
         /\ PageRequest(listing[c]).ask.operation = listing[c].request.ask.operation
<1>1. /\ WellFormed(listing[c].request) /\ StartsListing(listing[c].request)
      /\ listing[c].request.ask.operation \in ListingOperations
  BY AskedKnown
<1> QED
  BY <1>1, PageRequestReads DEF ListingOperations

\* Asking for a task keeps the bound, by the guard of the client.
LEMMA StartAsked ==
  ASSUME TypeInv, StartInv, NEW c \in Clients, Ask(c) \/ Probe(c) \/ AskNext(c)
  PROVE  StartInv'
<1>1. UNCHANGED tasks
  BY DEF Ask, Probe, AskNext
<1>2. PICK request : conn' = [conn EXCEPT ![c] = Sent(request)]
  BY DEF Ask, Probe, AskNext
<1>3. /\ conn'[c] = Sent(request) /\ \A d \in Clients \ {c} : conn'[d] = conn[d]
  BY <1>2 DEF TypeInv
<1>4. request.ask.operation = "StartMessageMoveTask" =>
        /\ \A d \in Clients \ {c} : ~Starting(d)
        /\ \A key \in DOMAIN tasks : tasks[key].started < MaxTasks
  <2>1. CASE Ask(c)
    <3>1. PICK asked \in Requests[mode][c] :
            Startable(asked) /\ conn' = [conn EXCEPT ![c] = Sent(asked)]
      BY <2>1 DEF Ask
    <3>2. Sent(asked) = Sent(request)
      BY <1>3, <3>1 DEF TypeInv
    <3>3. asked = request
      BY <3>2 DEF Sent
    <3> QED
      BY <3>1, <3>3 DEF Startable, Starting
  <2>2. CASE Probe(c)
    BY <2>2 DEF Probe, Idle, Starting
  <2>3. CASE AskNext(c)
    <3>1. listing[c] # NoListing /\ conn' = [conn EXCEPT ![c] = Sent(PageRequest(listing[c]))]
      BY <2>3 DEF AskNext, NoListing
    <3>2. Sent(PageRequest(listing[c])) = Sent(request)
      BY <1>3, <3>1 DEF TypeInv
    <3>3. PageRequest(listing[c]) = request
      BY <3>2 DEF Sent
    <3> QED
      BY <3>1, <3>3, ListingStartsNothing
  <2> QED
    BY <2>1, <2>2, <2>3
<1>5. Sent(request) # NoConn /\ Sent(request).request = request
  BY SentKeeps
<1>6. /\ \A d \in Clients \ {c} : Starting(d)' <=> Starting(d)
      /\ Starting(c)' <=> request.ask.operation = "StartMessageMoveTask"
  BY <1>3, <1>5 DEF Starting
<1>7. \A key \in DOMAIN tasks : tasks[key].started \in 1 .. MaxTasks
  BY DEF StartInv
<1>8. \A d, e \in Clients : Starting(d)' /\ Starting(e)' => d = e
  BY <1>4, <1>6 DEF StartInv
<1>9. \A d \in Clients : Starting(d)' /\ conn'[d].stage # "handled" =>
        \A key \in DOMAIN tasks : tasks[key].started < MaxTasks
  BY <1>3, <1>4, <1>6 DEF StartInv
<1> QED
  BY <1>1, <1>7, <1>8, <1>9 DEF StartInv

\* The other steps ask for nothing.
LEMMA StartLeft ==
  ASSUME TypeInv, StartInv,
         \A d \in Clients : \/ conn'[d] = NoConn
                            \/ /\ conn[d] # NoConn /\ conn'[d].request = conn[d].request
                               /\ conn[d].stage = "handled" => conn'[d].stage = "handled",
         \A key \in DOMAIN tasks' :
           key \in DOMAIN tasks /\ tasks'[key].started = tasks[key].started
  PROVE  StartInv'
<1>1. \A d \in Clients :
        /\ Starting(d)' => Starting(d)
        /\ Starting(d)' /\ conn'[d].stage # "handled" => conn[d].stage # "handled"
  BY DEF Starting
<1>2. \A key \in DOMAIN tasks' : tasks'[key].started \in 1 .. MaxTasks
  BY DEF StartInv
<1>3. \A d, e \in Clients : Starting(d)' /\ Starting(e)' => d = e
  BY <1>1 DEF StartInv
<1>4. \A d \in Clients : Starting(d)' /\ conn'[d].stage # "handled" =>
        \A key \in DOMAIN tasks' : tasks'[key].started < MaxTasks
  BY <1>1 DEF StartInv
<1> QED
  BY <1>2, <1>3, <1>4 DEF StartInv

LEMMA StartHandled ==
  ASSUME TypeInv, StartInv, ListingsCarried, NEW c \in Clients, Handle(c)
  PROVE  StartInv'
<1> DEFINE decoded == DecodeRequest(HTTPOf(conn[c].request))
           operation == conn[c].request.ask.operation
           path == HTTPOf(conn[c].request).path
<1>1. conn[c].stage = "verified" /\ conn[c] # NoConn /\ conn[c].account \in Accounts
  BY StageForms DEF Handle, AtStage, TypeInv, Checked
<1>2. PICK result :
        conn' = [conn EXCEPT ![c] = [stage |-> "handled", request |-> conn[c].request,
                                     result |-> result]]
  BY DEF Handle
<1>3. /\ conn'[c].stage = "handled" /\ conn'[c].request = conn[c].request
      /\ \A d \in Clients \ {c} : conn'[d] = conn[d]
  BY <1>2 DEF TypeInv
<1>4. \A d \in Clients : \/ conn'[d] = NoConn
                         \/ /\ conn[d] # NoConn /\ conn'[d].request = conn[d].request
                            /\ conn[d].stage = "handled" => conn'[d].stage = "handled"
  BY <1>1, <1>3
<1>5. CASE \A key \in DOMAIN tasks' :
             key \in DOMAIN tasks /\ tasks'[key].started = tasks[key].started
  BY <1>4, <1>5, StartLeft
<1>6. CASE ~ \A key \in DOMAIN tasks' :
               key \in DOMAIN tasks /\ tasks'[key].started = tasks[key].started
  <2>1. PICK outcome \in Dispatch(decoded.operation, decoded.input, path, conn[c].account, clock) :
          tasks' = outcome.tasks /\ rows' = outcome.rows /\ ~Is("error", decoded)
    BY <1>6 DEF Handle
  <2>2. /\ OneStarted(outcome) /\ TablesKept(outcome)
        /\ decoded.operation # "StartMessageMoveTask" => NoneStarted(outcome)
    BY <1>1, DispatchKeeps
  <2>3. decoded.operation = operation
    BY <1>1, <2>1 DEF ListingsCarried
  <2>4. operation = "StartMessageMoveTask"
    BY <1>6, <2>1, <2>2, <2>3 DEF NoneStarted
  <2>5. \A key \in DOMAIN tasks : tasks[key].started < MaxTasks
    BY <1>1, <2>4 DEF StartInv, Starting
  <2>6. \A key \in DOMAIN tasks' : tasks'[key].started \in 1 .. MaxTasks
    <3> SUFFICES ASSUME NEW key \in DOMAIN outcome.tasks
                 PROVE  outcome.tasks[key].started \in 1 .. MaxTasks
      BY <2>1
    <3>1. MaxTasks \in Nat \ {0}
      BY FrontEndAssumption
    <3>2. outcome.tasks[key].started \in Nat \ {0}
      BY <2>2 DEF TablesKept, TasksOK
    <3>3. CASE key \in DOMAIN tasks
      <4>1. tasks[key].started \in Nat /\ tasks[key].started < MaxTasks
        BY <2>5, <3>3 DEF TypeInv, TasksOK
      <4>2. \/ outcome.tasks[key].started = tasks[key].started
            \/ outcome.tasks[key].started = tasks[key].started + 1
        BY <2>2, <3>3 DEF OneStarted, TasksOf
      <4> QED
        BY <3>1, <3>2, <4>1, <4>2
    <3>4. CASE key \notin DOMAIN tasks
      <4>1. TasksOf(key).started = 0
        BY <3>4 DEF TasksOf
      <4>2. outcome.tasks[key].started = 0 + 1
        BY <2>2, <3>4, <4>1 DEF OneStarted
      <4> QED
        BY <3>1, <4>2
    <3> QED
      BY <3>3, <3>4
  <2>7. \A d \in Clients : Starting(d)' => d = c
    <3>1. Starting(c) /\ \A d \in Clients : Starting(d)' => Starting(d)
      BY <1>1, <1>3, <2>4 DEF Starting
    <3> QED
      BY <3>1 DEF StartInv
  <2>8. \A d, e \in Clients : Starting(d)' /\ Starting(e)' => d = e
    BY <2>7
  <2>9. \A d \in Clients : ~(Starting(d)' /\ conn'[d].stage # "handled")
    BY <1>3, <2>7
  <2> QED
    BY <2>6, <2>8, <2>9 DEF StartInv
<1> QED
  BY <1>5, <1>6

LEMMA StartNext == TypeInv /\ StartInv /\ ListingsCarried /\ [Next]_vars => StartInv'
<1> SUFFICES ASSUME TypeInv, StartInv, ListingsCarried, [Next]_vars PROVE StartInv'
  OBVIOUS
<1>1. ASSUME NEW c \in Clients, Ask(c) \/ Probe(c) \/ AskNext(c)
      PROVE  StartInv'
  BY <1>1, StartAsked
<1>2. ASSUME NEW c \in Clients,
             Receive(c) \/ CheckIdentity(c) \/ CheckScope(c) \/ CheckSignature(c)
      PROVE  StartInv'
  <2>1. UNCHANGED tasks /\ conn[c].stage \notin {"idle", "handled"}
    BY <1>2 DEF Receive, CheckIdentity, CheckScope, CheckSignature, AtStage
  <2>2. PICK k : conn' = [conn EXCEPT ![c] = k] /\ k.request = conn[c].request
    <3>1. CASE \E code : Reject(c, code)
      BY <3>1 DEF Reject
    <3>2. CASE \E account : Verified(c, account)
      BY <3>2 DEF Verified
    <3>3. CASE conn' = [conn EXCEPT ![c] = [stage |-> "received", request |-> @.request,
                                            asked |-> @.asked, received |-> clock]]
      <4> DEFINE k == [stage |-> "received", request |-> conn[c].request,
                       asked |-> conn[c].asked, received |-> clock]
      <4>1. conn' = [conn EXCEPT ![c] = k]
        BY <3>3
      <4>2. k.request = conn[c].request
        OBVIOUS
      <4> QED
        BY <4>1, <4>2
    <3>4. CASE \E stage : Advance(c, stage) /\ conn[c].stage \in {"received", "known"}
      <4>1. conn[c] = [stage |-> conn[c].stage, request |-> conn[c].request,
                       asked |-> conn[c].asked, received |-> conn[c].received]
        BY <3>4, StageForms
      <4>2. \A stage : [conn[c] EXCEPT !.stage = stage].request = conn[c].request
        BY <4>1
      <4> QED
        BY <3>4, <4>2 DEF Advance
    <3> QED
      BY <1>2, <3>1, <3>2, <3>3, <3>4
         DEF Receive, CheckIdentity, CheckScope, CheckSignature, AtStage
  <2>3. conn'[c].request = conn[c].request /\ \A d \in Clients \ {c} : conn'[d] = conn[d]
    BY <2>2 DEF TypeInv
  <2>4. conn[c] # NoConn /\ conn[c].stage # "handled"
    BY <2>1 DEF NoConn
  <2> QED
    BY <2>1, <2>3, <2>4, StartLeft
<1>3. ASSUME NEW c \in Clients, Handle(c)
      PROVE  StartInv'
  BY <1>3, StartHandled
<1>4. ASSUME NEW c \in Clients, Respond(c)
      PROVE  StartInv'
  <2>1. UNCHANGED tasks /\ \A d \in Clients : conn'[d] = NoConn \/ conn'[d] = conn[d]
    BY <1>4 DEF Respond, TypeInv
  <2> QED
    BY <2>1, StartLeft
<1>5. CASE Tick \/ Stop \/ Exit \/ Restart \/ UNCHANGED vars
  <2>1. UNCHANGED tasks /\ \A d \in Clients : conn'[d] = NoConn \/ conn'[d] = conn[d]
    BY <1>5 DEF Tick, Stop, Exit, Restart, vars
  <2> QED
    BY <2>1, StartLeft
<1> QED
  BY <1>1, <1>2, <1>3, <1>4, <1>5 DEF Next, Serve

\* As long as the codecs carry requests, the state keeps its types and every request
\* in progress is one the client may ask, or a page of its listing; tasks stay within
\* the bound that the guard of StartMessageMoveTask stands for.  (the property
\* FrontTypeOK)
THEOREM FrontTyped == Spec /\ []ListingsCarried => []FrontTypeOK
<1>1. TypeInv /\ StartInv => FrontTypeOK
  <2> SUFFICES ASSUME TypeInv, StartInv PROVE FrontTypeOK
    OBVIOUS
  <2>1. /\ DOMAIN rows \subseteq Keys
        /\ \A key \in DOMAIN rows : rows[key].live \in BOOLEAN /\ rows[key].till \in Nat
    BY DEF TypeInv, RowsOK
  <2>2. /\ DOMAIN tasks \subseteq DOMAIN rows
        /\ \A key \in DOMAIN tasks :
             tasks[key].started \in 1 .. MaxTasks /\ tasks[key].running \in BOOLEAN
    BY DEF TypeInv, TasksOK, StartInv
  <2>3. \A c \in Clients :
          conn[c].stage \in {"idle", "sent", "received", "known", "scoped", "verified", "handled"}
    BY StageForms DEF NoConn
  <2>4. \A c \in Clients : listing[c].stage \in {"none", "going", "complete"}
    BY DEF TypeInv, ListingForm, NoListing
  <2>5. \A c \in Clients : conn[c] # NoConn =>
          IF conn[c].request.alone THEN listing[c] = NoListing
          ELSE conn[c].request \in Requests[mode][c]
                                    \cup {PageRequest(l) : l \in {listing[c]} \ {NoListing}}
    <3> SUFFICES ASSUME NEW c \in Clients, conn[c] # NoConn
                 PROVE  IF conn[c].request.alone THEN listing[c] = NoListing
                        ELSE conn[c].request \in Requests[mode][c]
                               \cup {PageRequest(l) : l \in {listing[c]} \ {NoListing}}
      OBVIOUS
    <3>1. listing[c].stage = "going" => listing[c] # NoListing
      BY DEF NoListing
    <3> QED
      BY <3>1, AskedKnown
  <2> QED
    BY <2>1, <2>2, <2>3, <2>4, <2>5 DEF TypeInv, FrontTypeOK
<1>2. Init => StartInv
  BY DEF Init, StartInv, Starting
<1> QED
  BY <1>1, <1>2, TypeAlways, StartNext, PTL DEF Spec

\* ------------------------------- listings -------------------------------

\* Eligible, and what ListQueues and ListDeadLetterSourceQueues match, for the account
\* of the caller and the table they are asked of.
EligibleFor(r, a, key) ==
  r.ask.operation = "ListQueues" =>
    key[1] = a /\ LikePrefix(key[2], stringValue(r.ask.input, "QueueNamePrefix"))
EarlierIn(r, a, keys, key) == \E k \in keys : Before(k, key) /\ EligibleFor(r, a, k)

TargetOf(r) == CHOOSE key \in Keys : URL(key) = stringValue(r.ask.input, "QueueUrl")
MatchedIn(table, r, a) ==
  {key \in LiveIn(table) :
     IF r.ask.operation = "ListQueues" THEN EligibleFor(r, a, key)
     ELSE stringsContains(table[key].policy, ARN(TargetOf(r)))}

\* The history accounts for the table: what lives was there or was created, and what
\* is due and was not deleted still matches.
Known(l, a, table) ==
  /\ LiveIn(table) \subseteq l.present \cup l.created
  /\ l.due \ l.deleted \subseteq MatchedIn(table, l.request, a)

\* What pages may show, whether or not more follow.
Base(l, a, seen) ==
  /\ seen \in Seq(Links)
  /\ \A key \in Keys : InPages(seen, key) =>
       EligibleFor(l.request, a, key) /\ key \in l.present \cup l.created
  /\ \A i, j \in DOMAIN seen : \A key \in Keys :
       i # j /\ seen[i] = Link(key) /\ seen[j] = Link(key) =>
         EarlierIn(l.request, a, l.created, key)

\* Where the next page begins: what was shown is before it, but for creations, and
\* what was not shown is after it, but for deletions.
Reached(l, a, table, seen, o) ==
  LET matched == MatchedIn(table, l.request, a)
  IN  /\ \A key \in Keys : InPages(seen, key) =>
           Position(key, matched) < o \/ EarlierIn(l.request, a, l.created, key)
      /\ \A key \in l.due \ l.deleted :
           \/ InPages(seen, key) \/ o <= Position(key, matched)
           \/ EarlierIn(l.request, a, l.deleted, key)

\* There is no next page.
Through(l, a, seen) ==
  \A key \in l.due \ l.deleted :
    key \in Keys /\ (InPages(seen, key) \/ EarlierIn(l.request, a, l.deleted, key))

\* Pages up to one that came with this token.
Paged(l, a, table, seen, token) ==
  /\ Base(l, a, seen)
  /\ token = NoText => Through(l, a, seen)
  /\ token # NoText => \E o \in 1 .. Len(QueueKeys) :
                         token = encodeNextToken(o) /\ Reached(l, a, table, seen, o)

LEMMA MatchedKeys ==
  ASSUME NEW table, RowsOK(table), NEW r, NEW a
  PROVE  /\ MatchedIn(table, r, a) \subseteq Keys
         /\ MatchedIn(table, r, a) \subseteq LiveIn(table)
         /\ \A key \in MatchedIn(table, r, a) : EligibleFor(r, a, key)
BY DEF RowsOK, MatchedIn, LiveIn, EligibleFor

\* What matches afterwards and did not before was created, and the other way round.
LEMMA MatchesKept ==
  ASSUME NEW table, NEW new, PoliciesKept(table, new), NEW r, NEW a
  PROVE  /\ \A key \in MatchedIn(new, r, a) \ MatchedIn(table, r, a) :
              key \in LiveIn(new) \ LiveIn(table)
         /\ \A key \in MatchedIn(table, r, a) \ MatchedIn(new, r, a) :
              key \in LiveIn(table) \ LiveIn(new)
<1>1. \A key \in LiveIn(table) \cap LiveIn(new) :
        key \in MatchedIn(table, r, a) <=> key \in MatchedIn(new, r, a)
  BY DEF PoliciesKept, MatchedIn
<1>2. MatchedIn(table, r, a) \subseteq LiveIn(table) /\ MatchedIn(new, r, a) \subseteq LiveIn(new)
  BY DEF MatchedIn
<1> QED
  BY <1>1, <1>2

\* A change of the table that a listing notes leaves its history and its place true.
LEMMA ChangeNoted ==
  ASSUME NEW l, NEW n, NEW a, NEW table, NEW new,
         RowsOK(table), RowsOK(new), PoliciesKept(table, new),
         n.request = l.request, n.present = l.present, n.due = l.due,
         n.created = l.created \cup (LiveIn(new) \ LiveIn(table)),
         n.deleted = l.deleted \cup (LiveIn(table) \ LiveIn(new)),
         Known(l, a, table)
  PROVE  /\ Known(n, a, new)
         /\ \A seen : Base(l, a, seen) => Base(n, a, seen)
         /\ \A seen : Through(l, a, seen) => Through(n, a, seen)
         /\ \A seen : \A o \in Nat : Reached(l, a, table, seen, o) => Reached(n, a, new, seen, o)
<1> DEFINE r == l.request
           M == MatchedIn(table, r, a)
           N == MatchedIn(new, r, a)
<1>1. /\ M \subseteq Keys /\ N \subseteq Keys /\ N \subseteq LiveIn(new)
      /\ \A key \in M \cup N : EligibleFor(r, a, key)
      /\ \A key \in N \ M : key \in LiveIn(new) \ LiveIn(table)
      /\ \A key \in M \ N : key \in LiveIn(table) \ LiveIn(new)
  BY MatchedKeys, MatchesKept
<1> HIDE DEF M, N
<1>2. \A key : EarlierIn(r, a, l.created, key) => EarlierIn(r, a, n.created, key)
  BY DEF EarlierIn
<1>3. \A key : EarlierIn(r, a, l.deleted, key) => EarlierIn(r, a, n.deleted, key)
  BY DEF EarlierIn
<1>4. \A key : ~EarlierIn(r, a, n.created, key) => Position(key, N) <= Position(key, M)
  <2> SUFFICES ASSUME NEW key, ~EarlierIn(r, a, n.created, key)
               PROVE  Position(key, N) <= Position(key, M)
    OBVIOUS
  <2>1. \A k \in N : Before(k, key) => k \in M
    BY <1>1 DEF EarlierIn
  <2> QED
    BY <1>1, <2>1, PositionBounds
<1>5. \A key : ~EarlierIn(r, a, n.deleted, key) => Position(key, M) <= Position(key, N)
  <2> SUFFICES ASSUME NEW key, ~EarlierIn(r, a, n.deleted, key)
               PROVE  Position(key, M) <= Position(key, N)
    OBVIOUS
  <2>1. \A k \in M : Before(k, key) => k \in N
    BY <1>1 DEF EarlierIn
  <2> QED
    BY <1>1, <2>1, PositionBounds
<1>6. \A key : Position(key, M) \in Nat /\ Position(key, N) \in Nat
  BY <1>1, PositionBounds
<1>7. Known(n, a, new)
  <2>1. LiveIn(table) \subseteq l.present \cup l.created /\ l.due \ l.deleted \subseteq M
    BY DEF Known, M
  <2>2. LiveIn(new) \subseteq n.present \cup n.created
    BY <2>1
  <2>3. n.due \ n.deleted \subseteq N
    BY <1>1, <2>1
  <2> QED
    BY <2>2, <2>3 DEF Known, N
<1>8. ASSUME NEW seen, Base(l, a, seen) PROVE Base(n, a, seen)
  BY <1>2, <1>8 DEF Base
<1>9. ASSUME NEW seen, Through(l, a, seen) PROVE Through(n, a, seen)
  BY <1>3, <1>9 DEF Through
<1>10. ASSUME NEW seen, NEW o \in Nat, Reached(l, a, table, seen, o)
       PROVE  Reached(n, a, new, seen, o)
  <2>1. /\ \A key \in Keys : InPages(seen, key) =>
             Position(key, M) < o \/ EarlierIn(r, a, l.created, key)
        /\ \A key \in l.due \ l.deleted :
             InPages(seen, key) \/ o <= Position(key, M) \/ EarlierIn(r, a, l.deleted, key)
    BY <1>10 DEF Reached, M
  <2>2. \A key \in Keys : InPages(seen, key) =>
          Position(key, N) < o \/ EarlierIn(r, a, n.created, key)
    BY <1>2, <1>4, <1>6, <2>1
  <2>3. \A key \in n.due \ n.deleted :
          InPages(seen, key) \/ o <= Position(key, N) \/ EarlierIn(r, a, n.deleted, key)
    BY <1>3, <1>5, <1>6, <2>1
  <2> QED
    BY <2>2, <2>3 DEF Reached, N
<1> QED
  BY <1>7, <1>8, <1>9, <1>10

\* The members of two lists one after the other.
LEMMA Joined ==
  ASSUME NEW s \in Seq(Links), NEW p \in Seq(Links)
  PROVE  LET both == s \o p
         IN  /\ both \in Seq(Links) /\ Len(s) \in Nat
             /\ \A i \in DOMAIN both :
                  \/ i \in DOMAIN s /\ both[i] = s[i]
                  \/ \E j \in DOMAIN p : i = Len(s) + j /\ both[i] = p[j]
             /\ \A key : InPages(both, key) <=> InPages(s, key) \/ InPages(p, key)
<1> DEFINE both == s \o p
<1>1. /\ both \in Seq(Links) /\ Len(s) \in Nat /\ Len(p) \in Nat
      /\ DOMAIN s = 1 .. Len(s) /\ DOMAIN p = 1 .. Len(p)
      /\ DOMAIN both = 1 .. (Len(s) + Len(p))
      /\ \A i \in 1 .. Len(s) : both[i] = s[i]
      /\ \A i \in DOMAIN both : i > Len(s) => both[i] = p[i - Len(s)]
  OBVIOUS
<1> HIDE DEF both
<1>2. \A i \in DOMAIN both :
        \/ i \in DOMAIN s /\ both[i] = s[i]
        \/ \E j \in DOMAIN p : i = Len(s) + j /\ both[i] = p[j]
  <2> SUFFICES ASSUME NEW i \in DOMAIN both, i \notin DOMAIN s
               PROVE  \E j \in DOMAIN p : i = Len(s) + j /\ both[i] = p[j]
    BY <1>1
  <2>1. i \in Int /\ i <= Len(s) + Len(p) /\ i > Len(s)
    <3>1. i \in 1 .. (Len(s) + Len(p)) /\ i \notin 1 .. Len(s)
      BY <1>1
    <3> QED
      BY <1>1, <3>1
  <2>2. i - Len(s) \in DOMAIN p /\ i = Len(s) + (i - Len(s))
    BY <1>1, <2>1
  <2>3. both[i] = p[i - Len(s)]
    BY <1>1, <2>1
  <2> QED
    BY <2>2, <2>3
<1>3. \A j \in DOMAIN p : Len(s) + j \in DOMAIN both /\ both[Len(s) + j] = p[j]
  <2> SUFFICES ASSUME NEW j \in DOMAIN p
               PROVE  Len(s) + j \in DOMAIN both /\ both[Len(s) + j] = p[j]
    OBVIOUS
  <2>1. Len(s) + j \in DOMAIN both /\ Len(s) + j > Len(s) /\ (Len(s) + j) - Len(s) = j
    BY <1>1
  <2> QED
    BY <1>1, <2>1
<1>4. \A i \in DOMAIN s : i \in DOMAIN both /\ both[i] = s[i]
  BY <1>1
<1>5. \A key : InPages(both, key) <=> InPages(s, key) \/ InPages(p, key)
  BY <1>2, <1>3, <1>4 DEF InPages
<1> QED
  BY <1>1, <1>2, <1>5 DEF both

\* A page taken from the table, after those up to its offset.
LEMMA PageExtends ==
  ASSUME NEW l, NEW a, NEW table, RowsOK(table), Known(l, a, table), Base(l, a, l.seen),
         NEW o \in Nat, Reached(l, a, table, l.seen, o),
         NEW max \in Int, NEW operation \in ListingOperations
  PROVE  LET result == Page(URLsOf(MatchedIn(table, l.request, a)), o, max, MemberOf(operation))
         IN  Paged(l, a, table, l.seen \o Listed(result.output, operation),
                   stringValue(result.output, "NextToken"))
<1> DEFINE r == l.request
           M == MatchedIn(table, r, a)
           result == Page(URLsOf(M), o, max, MemberOf(operation))
           p == Listed(result.output, operation)
           token == stringValue(result.output, "NextToken")
           seen == l.seen \o p
<1>1. M \subseteq Keys /\ M \subseteq LiveIn(table) /\ \A key \in M : EligibleFor(r, a, key)
  BY MatchedKeys
<1>2. M \subseteq l.present \cup l.created /\ l.due \ l.deleted \subseteq M
  BY <1>1 DEF Known
<1>3. /\ \A key \in Keys : InPages(l.seen, key) =>
           Position(key, M) < o \/ EarlierIn(r, a, l.created, key)
      /\ \A key \in l.due \ l.deleted :
           InPages(l.seen, key) \/ o <= Position(key, M) \/ EarlierIn(r, a, l.deleted, key)
  BY DEF Reached
<1> HIDE DEF M
<1>4. /\ p \in Seq(Links)
      /\ \A i \in DOMAIN p : \E key \in M : p[i] = Link(key) /\ Position(key, M) = o + i - 1
      /\ token = NoText => \A key \in M : o <= Position(key, M) => InPages(p, key)
      /\ token # NoText =>
           \E next \in 1 .. Len(QueueKeys) :
             /\ token = encodeNextToken(next) /\ o < next
             /\ \A i \in DOMAIN p : o + i - 1 < next
             /\ \A key \in M : o <= Position(key, M) /\ Position(key, M) < next =>
                  InPages(p, key)
  <2>1. PageRight(M, o, p, token)
    BY <1>1, PageShows
  <2> QED
    BY <2>1 DEF PageRight
<1> HIDE DEF p, token
<1>5. /\ DOMAIN p \subseteq Nat \ {0}
      /\ \A key \in M : Position(key, M) \in Nat
  <2>1. DOMAIN p = 1 .. Len(p) /\ Len(p) \in Nat
    BY <1>4
  <2>2. \A key : Position(key, M) \in Nat
    BY <1>1, PositionBounds
  <2> QED
    BY <2>1, <2>2
<1>6. \A i \in DOMAIN p : \A key \in Keys : p[i] = Link(key) =>
        key \in M /\ Position(key, M) = o + i - 1
  BY <1>1, <1>4, LinksDiffer
<1>7. /\ l.seen \in Seq(Links)
      /\ \A key \in Keys : InPages(l.seen, key) =>
           EligibleFor(r, a, key) /\ key \in l.present \cup l.created
      /\ \A i, j \in DOMAIN l.seen : \A key \in Keys :
           i # j /\ l.seen[i] = Link(key) /\ l.seen[j] = Link(key) =>
             EarlierIn(r, a, l.created, key)
  BY DEF Base
<1>8. /\ seen \in Seq(Links) /\ Len(l.seen) \in Nat
      /\ \A i \in DOMAIN seen :
           \/ i \in DOMAIN l.seen /\ seen[i] = l.seen[i]
           \/ \E j \in DOMAIN p : i = Len(l.seen) + j /\ seen[i] = p[j]
      /\ \A key : InPages(seen, key) <=> InPages(l.seen, key) \/ InPages(p, key)
  BY <1>4, <1>7, Joined
<1> HIDE DEF seen
<1>9. Base(l, a, seen)
  <2>1. \A key \in Keys : InPages(seen, key) =>
          EligibleFor(r, a, key) /\ key \in l.present \cup l.created
    BY <1>1, <1>2, <1>6, <1>7, <1>8 DEF InPages
  <2>2. ASSUME NEW i \in DOMAIN l.seen, NEW j \in DOMAIN p, NEW key \in Keys,
               l.seen[i] = Link(key), p[j] = Link(key)
        PROVE  EarlierIn(r, a, l.created, key)
    <3>1. InPages(l.seen, key)
      BY <2>2 DEF InPages
    <3>2. Position(key, M) = o + j - 1 /\ j \in Nat \ {0}
      BY <1>5, <1>6, <2>2
    <3>3. ~(Position(key, M) < o)
      BY <3>2
    <3> QED
      BY <1>3, <3>1, <3>3
  <2>3. \A i, j \in DOMAIN p : \A key \in Keys :
          p[i] = Link(key) /\ p[j] = Link(key) => i = j
    <3> SUFFICES ASSUME NEW i \in DOMAIN p, NEW j \in DOMAIN p, NEW key \in Keys,
                        p[i] = Link(key), p[j] = Link(key)
                 PROVE  i = j
      OBVIOUS
    <3>1. Position(key, M) = o + i - 1 /\ Position(key, M) = o + j - 1
      BY <1>6
    <3> QED
      BY <1>5, <3>1
  <2>4. \A i, j \in DOMAIN seen : \A key \in Keys :
          i # j /\ seen[i] = Link(key) /\ seen[j] = Link(key) =>
            EarlierIn(r, a, l.created, key)
    <3> SUFFICES ASSUME NEW i \in DOMAIN seen, NEW j \in DOMAIN seen, NEW key \in Keys,
                        i # j, seen[i] = Link(key), seen[j] = Link(key)
                 PROVE  EarlierIn(r, a, l.created, key)
      OBVIOUS
    <3>1. CASE i \in DOMAIN l.seen /\ seen[i] = l.seen[i] /\ j \in DOMAIN l.seen /\ seen[j] = l.seen[j]
      BY <1>7, <3>1
    <3>2. CASE /\ i \in DOMAIN l.seen /\ seen[i] = l.seen[i]
               /\ \E m \in DOMAIN p : j = Len(l.seen) + m /\ seen[j] = p[m]
      BY <2>2, <3>2
    <3>3. CASE /\ j \in DOMAIN l.seen /\ seen[j] = l.seen[j]
               /\ \E m \in DOMAIN p : i = Len(l.seen) + m /\ seen[i] = p[m]
      BY <2>2, <3>3
    <3>4. CASE /\ \E m \in DOMAIN p : i = Len(l.seen) + m /\ seen[i] = p[m]
               /\ \E m \in DOMAIN p : j = Len(l.seen) + m /\ seen[j] = p[m]
      BY <2>3, <3>4
    <3> QED
      BY <1>8, <3>1, <3>2, <3>3, <3>4
  <2> QED
    BY <1>8, <2>1, <2>4 DEF Base
<1>10. ASSUME token = NoText PROVE Through(l, a, seen)
  <2>1. \A key \in M : o <= Position(key, M) => InPages(seen, key)
    BY <1>4, <1>8, <1>10
  <2> QED
    BY <1>1, <1>2, <1>3, <1>8, <2>1 DEF Through
<1>11. ASSUME token # NoText
       PROVE  \E next \in 1 .. Len(QueueKeys) :
                token = encodeNextToken(next) /\ Reached(l, a, table, seen, next)
  <2>1. PICK next \in 1 .. Len(QueueKeys) :
          /\ token = encodeNextToken(next) /\ o < next
          /\ \A i \in DOMAIN p : o + i - 1 < next
          /\ \A key \in M : o <= Position(key, M) /\ Position(key, M) < next => InPages(p, key)
    BY <1>4, <1>11
  <2>2. next \in Int
    BY LengthType
  <2>3. \A key \in Keys : Position(key, M) \in Nat
    BY <1>1, PositionBounds
  <2>4. \A key \in Keys : InPages(seen, key) =>
          Position(key, M) < next \/ EarlierIn(r, a, l.created, key)
    <3> SUFFICES ASSUME NEW key \in Keys, InPages(seen, key),
                        ~EarlierIn(r, a, l.created, key)
                 PROVE  Position(key, M) < next
      OBVIOUS
    <3>1. CASE InPages(l.seen, key)
      <4>1. Position(key, M) < o
        BY <1>3, <3>1
      <4> QED
        BY <2>1, <2>2, <2>3, <4>1
    <3>2. CASE InPages(p, key)
      BY <1>6, <2>1, <3>2 DEF InPages
    <3> QED
      BY <1>8, <3>1, <3>2
  <2>5. \A key \in l.due \ l.deleted :
          \/ InPages(seen, key) \/ next <= Position(key, M)
          \/ EarlierIn(r, a, l.deleted, key)
    <3> SUFFICES ASSUME NEW key \in l.due \ l.deleted, ~InPages(seen, key),
                        ~EarlierIn(r, a, l.deleted, key)
                 PROVE  next <= Position(key, M)
      OBVIOUS
    <3>1. key \in M /\ o <= Position(key, M) /\ ~InPages(p, key)
      BY <1>2, <1>3, <1>8
    <3>2. ~(Position(key, M) < next)
      BY <2>1, <3>1
    <3> QED
      BY <1>5, <2>2, <3>1, <3>2
  <2>6. Reached(l, a, table, seen, next)
    BY <2>4, <2>5 DEF Reached, M
  <2> QED
    BY <2>1, <2>6
<1>12. Paged(l, a, table, seen, token)
  BY <1>9, <1>10, <1>11 DEF Paged
<1> QED
  BY <1>12 DEF seen, p, token, M

\* What a listing handler answers, of the request as it was asked.
LEMMA ListingAnswered ==
  ASSUME TypeInv, ListingsCarried, NEW c \in Clients, conn[c].stage = "verified",
         listing[c].stage = "going",
         NEW decoded, decoded = DecodeRequest(HTTPOf(conn[c].request)), ~Is("error", decoded),
         NEW outcome \in Dispatch(decoded.operation, decoded.input,
                                  HTTPOf(conn[c].request).path, conn[c].account, clock),
         ~Is("error", outcome.result)
  PROVE  LET l == listing[c]
             r == l.request
             M == MatchedIn(rows, r, AccountIn(r))
         IN  /\ outcome.rows = rows
             /\ \E o \in decodeNextToken(l.token), max \in Int :
                  outcome.result = Page(URLsOf(M), o, max, MemberOf(r.ask.operation))
<1> DEFINE l == listing[c]
           r == l.request
           a == AccountIn(r)
           M == MatchedIn(rows, r, a)
           request == conn[c].request
           operation == r.ask.operation
           path == HTTPOf(request).path
           input == decoded.input
           sizes == int64Value(r.ask.input, "MaxResults", 0)
           prefix == stringValue(r.ask.input, "QueueNamePrefix")
           url == stringValue(r.ask.input, "QueueUrl")
<1>1. /\ WellFormed(r) /\ StartsListing(r) /\ operation \in ListingOperations
      /\ request = PageRequest(l) /\ conn[c].account = AccountIn(request)
  <2>1. l # NoListing /\ conn[c] # NoConn
    BY DEF NoListing, NoConn
  <2>2. Asking(c) /\ Checked(c)
    BY DEF TypeInv
  <2>3. request = PageRequest(l)
    BY <2>1, <2>2 DEF Asking
  <2> QED
    BY <2>1, <2>2, <2>3, AskedKnown DEF Checked
<1>2. /\ request.ask.operation = operation /\ request.signing = r.signing
      /\ stringValue(request.ask.input, "QueueNamePrefix") = prefix
      /\ stringValue(request.ask.input, "QueueUrl") = url
      /\ stringValue(request.ask.input, "NextToken") = l.token
      /\ int64Value(request.ask.input, "MaxResults", 0) = sizes
  BY <1>1, PageRequestReads
<1>3. conn[c].account = a
  BY <1>1, <1>2 DEF AccountIn
<1> HIDE DEF request
<1>4. /\ decoded.operation = operation
      /\ stringValue(input, "QueueNamePrefix") = prefix
      /\ stringValue(input, "NextToken") = l.token
      /\ queueURLFromRequest(input, path) = url
      /\ int64Value(input, "MaxResults", 0) = sizes
  <2>1. /\ decoded.operation = request.ask.operation
        /\ request.ask.operation \in ListingOperations =>
             /\ \A name \in {"QueueNamePrefix", "NextToken"} :
                  stringValue(input, name) = stringValue(request.ask.input, name)
             /\ queueURLFromRequest(input, path) = stringValue(request.ask.input, "QueueUrl")
             /\ int64Value(input, "MaxResults", 0)
                  = int64Value(request.ask.input, "MaxResults", 0)
    BY DEF ListingsCarried, request
  <2> QED
    BY <1>1, <1>2, <2>1
<1>5. sizes \subseteq Int
  BY <1>1 DEF StartsListing
<1>6. \A urls, member :
        \/ PageOf(input, urls, member) = Refused("InvalidParameterValue")
        \/ \E o \in decodeNextToken(l.token), max \in sizes :
             PageOf(input, urls, member) = Answered(Page(urls, o, max, member))
  <2>1. \A urls, member :
          \/ PageOf(input, urls, member) = Refused("InvalidParameterValue")
          \/ \E o \in decodeNextToken(stringValue(input, "NextToken")),
               max \in int64Value(input, "MaxResults", 0) :
               PageOf(input, urls, member) = Answered(Page(urls, o, max, member))
    BY DEF PageOf
  <2> QED
    BY <1>4, <2>1
<1> DEFINE Paging(member) ==
             \/ outcome = Refused("InvalidParameterValue")
             \/ \E o \in decodeNextToken(l.token), max \in sizes :
                  outcome = Answered(Page(URLsOf(M), o, max, member))
<1>7. ASSUME operation = "ListQueues" PROVE Paging(MemberOf(operation))
  <2>1. outcome = ListQueues(input, a)
    BY <1>3, <1>4, <1>7 DEF Dispatch
  <2> DEFINE matched == {key \in Keys : key[1] = a /\ LikePrefix(key[2], prefix)}
  <2>2. Live \cap matched = M
    <3>1. Live \subseteq Keys
      BY DEF Live, LiveIn, TypeInv, RowsOK
    <3> QED
      BY <1>7, <3>1 DEF MatchedIn, EligibleFor, Live
  <2>3. outcome = PageOf(input, ListedURLs(matched), "QueueUrls")
    BY <1>4, <2>1 DEF ListQueues
  <2>4. ListedURLs(matched) = URLsOf(M)
    BY <2>2 DEF ListedURLs, URLsOf
  <2> HIDE DEF matched, M
  <2> QED
    BY <1>6, <1>7, <2>3, <2>4 DEF MemberOf
<1>8. ASSUME operation # "ListQueues" PROVE Paging(MemberOf(operation))
  <2>1. operation = "ListDeadLetterSourceQueues"
    BY <1>1, <1>8 DEF ListingOperations
  <2>2. outcome = ListDeadLetterSourceQueues(input, path)
    <3>1. decoded.operation = "ListDeadLetterSourceQueues"
      BY <1>4, <2>1
    <3> QED
      BY <3>1 DEF Dispatch, request
  <2> DEFINE found == lookupQueueByURL(url)
             target == ARN(CHOOSE key \in found : TRUE)
             matched == {key \in Live : stringsContains(rows[key].policy, target)}
  <2>3. outcome = IF found = {} THEN Refused("QueueDoesNotExist")
                  ELSE PageOf(input, ListedURLs(matched), "queueUrls")
    BY <1>4, <2>2 DEF ListDeadLetterSourceQueues
  <2>4. found # {}
    BY <2>3 DEF Refused, Answered, Outcome, Failure, Is
  <2>5. target = ARN(TargetOf(r))
    <3>1. found \subseteq Keys /\ \A key \in found : URL(key) = url
      BY DEF lookupQueueByURL, Live, LiveIn, TypeInv, RowsOK
    <3>2. TargetOf(r) \in Keys /\ URL(TargetOf(r)) = url
      BY <2>4, <3>1 DEF TargetOf
    <3>3. \A key \in found : key = TargetOf(r)
      BY <3>1, <3>2, TextAssumption
    <3> QED
      BY <2>4, <3>3
  <2>6. Live \cap matched = M
    BY <1>8, <2>5 DEF MatchedIn, Live
  <2>7. ListedURLs(matched) = URLsOf(M)
    BY <2>6 DEF ListedURLs, URLsOf
  <2> HIDE DEF matched, M
  <2> QED
    BY <1>6, <1>8, <2>3, <2>4, <2>7 DEF MemberOf
<1>9. Paging(MemberOf(operation))
  BY <1>7, <1>8
<1>10. ~(outcome = Refused("InvalidParameterValue"))
  BY DEF Refused, Answered, Outcome, Failure, Is
<1>11. PICK o \in decodeNextToken(l.token), max \in sizes :
          outcome = Answered(Page(URLsOf(M), o, max, MemberOf(operation)))
  BY <1>9, <1>10
<1>12. /\ outcome.rows = rows
       /\ outcome.result = Page(URLsOf(M), o, max, MemberOf(operation))
  BY <1>11 DEF Answered, Outcome
<1> QED
  BY <1>5, <1>12

\* A listing in progress: its history is true of the table, and its token is where it
\* has come to; and a page that was handled and not yet read would go on from there.
Going(l, a, table) ==
  /\ Known(l, a, table) /\ Base(l, a, l.seen)
  /\ \E o \in 0 .. Len(QueueKeys) :
       decodeNextToken(l.token) = {o} /\ Reached(l, a, table, l.seen, o)
Carried(l, a, table, result) ==
  ~Is("error", result) =>
    Paged(l, a, table, l.seen \o Listed(result.output, l.request.ask.operation),
          stringValue(result.output, "NextToken"))

PagesOK(l, a, table, k) ==
  /\ l.stage = "going" =>
       Going(l, a, table) /\ (k.stage = "handled" => Carried(l, a, table, k.result))
  /\ l.stage = "complete" => Base(l, a, l.seen) /\ Through(l, a, l.seen)

ListingInv ==
  \A c \in Clients : PagesOK(listing[c], AccountIn(listing[c].request), rows, conn[c])

LEMMA PagesLeft ==
  ASSUME ListingInv, UNCHANGED <<mode, rows, listing>>,
         \A c \in Clients : \/ conn'[c] = conn[c] \/ conn'[c].stage # "handled"
                            \/ Is("error", conn'[c].result)
  PROVE  ListingInv'
<1> SUFFICES ASSUME NEW c \in Clients
             PROVE  PagesOK(listing[c], AccountIn(listing[c].request), rows, conn'[c])
  BY DEF ListingInv, AccountIn
<1>1. PagesOK(listing[c], AccountIn(listing[c].request), rows, conn[c])
  BY DEF ListingInv
<1> QED
  BY <1>1 DEF PagesOK, Carried

\* A listing begins with nothing shown and everything due.
LEMMA BeginsRight ==
  ASSUME TypeInv, NEW r, StartsListing(r), r.ask.operation \in ListingOperations
  PROVE  Going(NewListing(r), AccountIn(r), rows)
<1> DEFINE l == NewListing(r)
           a == AccountIn(r)
           M == MatchedIn(rows, r, a)
<1>1. /\ l.request = r /\ l.token = NoText /\ l.seen = <<>> /\ l.present = Live
      /\ l.due = {key \in Live : Due(r, key)} /\ l.created = {} /\ l.deleted = {}
  BY DEF NewListing, NoText
<1>2. Live = LiveIn(rows) /\ Live \subseteq Keys
  BY DEF Live, LiveIn, TypeInv, RowsOK
<1>3. \A key \in Live : Due(r, key) => key \in M
  <2> SUFFICES ASSUME NEW key \in Live, Due(r, key) PROVE key \in M
    OBVIOUS
  <2>1. CASE r.ask.operation = "ListQueues"
    <3>1. key[1] = a /\ HasPrefix(key[2], stringValue(r.ask.input, "QueueNamePrefix"))
      BY <2>1 DEF Due
    <3>2. LikePrefix(key[2], stringValue(r.ask.input, "QueueNamePrefix"))
      BY <1>2, <3>1 DEF StartsListing
    <3> QED
      BY <1>2, <2>1, <3>1, <3>2 DEF MatchedIn, EligibleFor
  <2>2. CASE r.ask.operation # "ListQueues"
    <3>1. PICK target \in Keys : /\ URL(target) = stringValue(r.ask.input, "QueueUrl")
                                 /\ rows[key].policy = ARN(target)
      BY <2>2 DEF Due
    <3>2. TargetOf(r) = target
      BY <3>1, TextAssumption DEF TargetOf
    <3>3. stringsContains(rows[key].policy, ARN(TargetOf(r)))
      BY <3>1, <3>2, TextAssumption
    <3> QED
      BY <1>2, <2>2, <3>3 DEF MatchedIn
  <2> QED
    BY <2>1, <2>2
<1> HIDE DEF l
<1>4. Known(l, a, rows)
  BY <1>1, <1>2, <1>3 DEF Known
<1>5. Base(l, a, l.seen)
  BY <1>1 DEF Base, InPages
<1>6. Reached(l, a, rows, l.seen, 0)
  <2>1. M \subseteq Keys
    BY MatchedKeys DEF TypeInv
  <2>2. \A key : 0 <= Position(key, M)
    BY <2>1, PositionBounds
  <2> QED
    BY <1>1, <2>2 DEF Reached, InPages
<1>7. decodeNextToken(l.token) = {0} /\ 0 \in 0 .. Len(QueueKeys)
  BY <1>1, TokensRead, LengthType
<1> QED
  BY <1>4, <1>5, <1>6, <1>7 DEF Going, l

LEMMA PagesAsked ==
  ASSUME TypeInv, ListingInv, NEW c \in Clients, Ask(c)
  PROVE  ListingInv'
<1>1. PICK request \in Requests[mode][c] :
        /\ conn' = [conn EXCEPT ![c] = Sent(request)]
        /\ listing' = [listing EXCEPT ![c] =
                         IF request.ask.operation \in ListingOperations
                         THEN NewListing(request) ELSE NoListing]
  BY DEF Ask
<1>2. /\ conn'[c] = Sent(request) /\ conn'[c].stage = "sent"
      /\ request.ask.operation \in ListingOperations => listing'[c] = NewListing(request)
      /\ request.ask.operation \notin ListingOperations => listing'[c] = NoListing
      /\ \A d \in Clients \ {c} : conn'[d] = conn[d] /\ listing'[d] = listing[d]
      /\ UNCHANGED <<mode, rows>>
  BY <1>1 DEF TypeInv, Ask, Sent
<1>3. ASSUME request.ask.operation \in ListingOperations
      PROVE  Going(NewListing(request), AccountIn(request), rows)
  <2>1. StartsListing(request)
    BY <1>3, RequestsAssumption DEF TypeInv
  <2> QED
    BY <1>3, <2>1, BeginsRight
<1>4. NewListing(request).request = request /\ NewListing(request).stage = "going"
  BY DEF NewListing
<1>5. PagesOK(listing'[c], AccountIn(listing'[c].request), rows, conn'[c])
  <2>1. CASE request.ask.operation \in ListingOperations
    BY <1>2, <1>3, <1>4, <2>1 DEF PagesOK
  <2>2. CASE request.ask.operation \notin ListingOperations
    BY <1>2, <2>2 DEF PagesOK, NoListing
  <2> QED
    BY <2>1, <2>2
<1>6. \A d \in Clients \ {c} : PagesOK(listing'[d], AccountIn(listing'[d].request), rows, conn'[d])
  BY <1>2 DEF ListingInv
<1> QED
  BY <1>2, <1>5, <1>6 DEF ListingInv, AccountIn

\* The table changes under a listing in progress.
LEMMA PagesNoted ==
  ASSUME NEW l, ListingForm(l), NEW a, NEW new, NEW k,
         RowsOK(rows), RowsOK(new), PoliciesKept(rows, new), PagesOK(l, a, rows, k)
  PROVE  PagesOK(Noted(l, new), a, new, k)
<1>1. CASE l.stage # "going"
  BY <1>1 DEF PagesOK, Noted
<1>2. CASE l.stage = "going"
  <2> DEFINE n == Noted(l, new)
  <2>1. /\ n.stage = l.stage /\ n.request = l.request /\ n.token = l.token /\ n.seen = l.seen
        /\ n.present = l.present /\ n.due = l.due
        /\ n.created = l.created \cup (LiveIn(new) \ LiveIn(rows))
        /\ n.deleted = l.deleted \cup (LiveIn(rows) \ LiveIn(new))
    BY <1>2, NotedKeeps DEF NoListing
  <2> HIDE DEF n
  <2>2. Going(l, a, rows) /\ Known(l, a, rows)
    BY <1>2 DEF PagesOK, Going
  <2>3. /\ Known(n, a, new)
        /\ \A seen : Base(l, a, seen) => Base(n, a, seen)
        /\ \A seen : Through(l, a, seen) => Through(n, a, seen)
        /\ \A seen : \A o \in Nat : Reached(l, a, rows, seen, o) => Reached(n, a, new, seen, o)
    BY <2>1, <2>2, ChangeNoted
  <2>4. \A o \in 0 .. Len(QueueKeys) : o \in Nat
    BY LengthType
  <2>5. Going(n, a, new)
    BY <2>1, <2>2, <2>3, <2>4 DEF Going
  <2>6. \A seen, token : Paged(l, a, rows, seen, token) => Paged(n, a, new, seen, token)
    <3>1. \A o \in 1 .. Len(QueueKeys) : o \in Nat
      BY LengthType
    <3> QED
      BY <2>3, <3>1 DEF Paged
  <2>7. \A result : Carried(l, a, rows, result) => Carried(n, a, new, result)
    BY <2>1, <2>6 DEF Carried
  <2> QED
    BY <1>2, <2>1, <2>5, <2>7 DEF PagesOK, n
<1> QED
  BY <1>1, <1>2

LEMMA PagesHandled ==
  ASSUME TypeInv, ListingInv, ListingsCarried, NEW c \in Clients, Handle(c)
  PROVE  ListingInv'
<1> DEFINE decoded == DecodeRequest(HTTPOf(conn[c].request))
           Answer(result) == [stage |-> "handled", request |-> conn[c].request, result |-> result]
<1>1. conn[c].stage = "verified" /\ conn[c].account \in Accounts /\ UNCHANGED mode
  BY DEF Handle, AtStage, TypeInv, Checked
<1>2. CASE Is("error", decoded) /\ conn' = [conn EXCEPT ![c] = Answer(decoded)]
           /\ UNCHANGED <<rows, tasks, listing>>
  <2>1. /\ Is("error", conn'[c].result)
        /\ \A d \in Clients \ {c} : conn'[d] = conn[d]
    BY <1>2 DEF TypeInv
  <2> QED
    BY <1>1, <1>2, <2>1, PagesLeft
<1>3. CASE /\ ~Is("error", decoded)
           /\ \E outcome \in Dispatch(decoded.operation, decoded.input,
                                      HTTPOf(conn[c].request).path, conn[c].account, clock) :
                /\ conn' = [conn EXCEPT ![c] = Answer(outcome.result)]
                /\ rows' = outcome.rows
                /\ listing' = [d \in Clients |-> Noted(listing[d], outcome.rows)]
  <2>1. PICK outcome \in Dispatch(decoded.operation, decoded.input,
                                  HTTPOf(conn[c].request).path, conn[c].account, clock) :
          /\ conn' = [conn EXCEPT ![c] = Answer(outcome.result)]
          /\ rows' = outcome.rows
          /\ listing' = [d \in Clients |-> Noted(listing[d], outcome.rows)]
    BY <1>3
  <2>2. RowsOK(rows) /\ RowsOK(rows') /\ PoliciesKept(rows, rows')
    BY <1>1, <2>1, DispatchKeeps DEF TablesKept, TypeInv
  <2>3. /\ conn'[c].stage = "handled" /\ conn'[c].result = outcome.result
        /\ \A d \in Clients \ {c} : conn'[d] = conn[d]
    BY <2>1 DEF TypeInv
  <2>4. ASSUME listing[c].stage = "going"
        PROVE  Carried(listing[c], AccountIn(listing[c].request), rows, outcome.result)
    <3> DEFINE l == listing[c]
               r == l.request
               a == AccountIn(r)
               operation == r.ask.operation
    <3>1. Known(l, a, rows) /\ Base(l, a, l.seen)
      BY <2>4 DEF ListingInv, PagesOK, Going
    <3>2. PICK offset \in 0 .. Len(QueueKeys) :
                 decodeNextToken(l.token) = {offset} /\ Reached(l, a, rows, l.seen, offset)
      BY <2>4 DEF ListingInv, PagesOK, Going
    <3>3. offset \in Nat /\ operation \in ListingOperations
      BY <2>4, LengthType, AskedKnown DEF NoListing
    <3> SUFFICES ASSUME ~Is("error", outcome.result)
                 PROVE  Carried(l, a, rows, outcome.result)
      BY DEF Carried
    <3>4. PICK max \in Int :
            outcome.result = Page(URLsOf(MatchedIn(rows, r, a)), offset, max, MemberOf(operation))
      <4> HIDE DEF decoded
      <4>1. PICK o \in decodeNextToken(l.token), max \in Int :
              outcome.result = Page(URLsOf(MatchedIn(rows, r, a)), o, max, MemberOf(operation))
        BY <1>1, <1>3, <2>4, ListingAnswered DEF decoded
      <4>2. o = offset
        BY <3>2
      <4> QED
        BY <4>1, <4>2
    <3>5. Paged(l, a, rows, l.seen \o Listed(outcome.result.output, operation),
                stringValue(outcome.result.output, "NextToken"))
      BY <2>2, <3>1, <3>2, <3>3, <3>4, PageExtends
    <3> QED
      BY <3>5 DEF Carried
  <2>5. \A d \in Clients : PagesOK(listing[d], AccountIn(listing[d].request), rows, conn'[d])
    <3>1. \A d \in Clients : PagesOK(listing[d], AccountIn(listing[d].request), rows, conn[d])
      BY DEF ListingInv
    <3> QED
      BY <2>3, <2>4, <3>1 DEF PagesOK
  <2>6. ASSUME NEW d \in Clients
        PROVE  PagesOK(listing'[d], AccountIn(listing'[d].request), rows', conn'[d])
    <3>1. ListingForm(listing[d])
      BY DEF TypeInv
    <3>2. listing'[d] = Noted(listing[d], rows')
      BY <2>1
    <3>3. PagesOK(listing'[d], AccountIn(listing[d].request), rows', conn'[d])
      BY <2>2, <2>5, <3>1, <3>2, PagesNoted
    <3>4. listing'[d] = NoListing \/ listing'[d].request = listing[d].request
      BY <3>1, <3>2, NotedKeeps
    <3> QED
      BY <3>3, <3>4 DEF PagesOK, NoListing
  <2> QED
    BY <1>1, <2>6 DEF ListingInv, AccountIn
<1> QED
  BY <1>2, <1>3 DEF Handle

LEMMA PagesRead ==
  ASSUME TypeInv, ListingInv, ListingsCarried, NEW c \in Clients, Respond(c)
  PROVE  ListingInv'
<1> DEFINE l == listing[c]
           a == AccountIn(l.request)
           read == Reading(conn[c])
           operation == conn[c].request.ask.operation
           result == conn[c].result
           urls == Listed(read.output, operation)
           token == stringValue(read.output, "NextToken")
           n == WithPage(l, urls, token)
<1>1. /\ conn[c].stage = "handled" /\ conn' = [conn EXCEPT ![c] = NoConn]
      /\ listing' = [listing EXCEPT ![c] = IF l.stage # "going" THEN l
                                           ELSE IF ~Is("output", read) THEN NoListing ELSE n]
      /\ UNCHANGED <<mode, rows>>
  BY DEF Respond, AtStage
<1>2. /\ conn'[c].stage # "handled"
      /\ \A d \in Clients \ {c} : conn'[d] = conn[d] /\ listing'[d] = listing[d]
      /\ l.stage # "going" => listing'[c] = l
      /\ l.stage = "going" /\ ~Is("output", read) => listing'[c] = NoListing
      /\ l.stage = "going" /\ Is("output", read) => listing'[c] = n
  BY <1>1 DEF TypeInv, NoConn
<1>3. PagesOK(l, a, rows, conn[c]) /\ ListingForm(l)
  BY DEF ListingInv, TypeInv
<1>4. ASSUME l.stage = "going", Is("output", read)
      PROVE  n.request = l.request /\ PagesOK(n, a, rows, conn'[c])
  <2>1. operation = l.request.ask.operation /\ operation \in ListingOperations
    <3>1. /\ l # NoListing /\ conn[c] # NoConn /\ Asking(c)
      BY <1>1, <1>4 DEF NoListing, NoConn, TypeInv
    <3>2. conn[c].request = PageRequest(l)
      BY <3>1 DEF Asking
    <3>3. /\ WellFormed(l.request) /\ StartsListing(l.request)
          /\ l.request.ask.operation \in ListingOperations
      BY <3>1, AskedKnown
    <3> QED
      BY <3>2, <3>3, PageRequestReads
  <2>2. /\ ~Is("error", result) /\ urls = Listed(result.output, operation)
        /\ token = stringValue(result.output, "NextToken")
    BY <1>1, <1>4, <2>1 DEF ListingsCarried
  <2> HIDE DEF urls, token, read
  <2>3. Known(l, a, rows) /\ Paged(l, a, rows, l.seen \o urls, token)
    BY <1>1, <1>3, <1>4, <2>1, <2>2 DEF PagesOK, Going, Carried
  <2>4. /\ n.request = l.request /\ n.present = l.present /\ n.due = l.due
        /\ n.created = l.created /\ n.deleted = l.deleted
        /\ n.seen = l.seen \o urls /\ n.token = token
        /\ token = NoText => n.stage = "complete"
        /\ token # NoText => n.stage = "going"
    <3> HIDE DEF l
    <3> QED
      BY <1>3, <1>4, PageAdded
  <2> HIDE DEF n
  <2>5. Known(n, a, rows) /\ Paged(n, a, rows, n.seen, n.token)
    BY <2>3, <2>4 DEF Known, Paged, Base, Through, Reached
  <2>6. CASE token = NoText
    BY <2>4, <2>5, <2>6 DEF PagesOK, Paged
  <2>7. CASE token # NoText
    <3>1. PICK o \in 1 .. Len(QueueKeys) :
            n.token = encodeNextToken(o) /\ Reached(n, a, rows, n.seen, o)
      BY <2>4, <2>5, <2>7 DEF Paged
    <3>2. o \in 0 .. Len(QueueKeys) /\ decodeNextToken(n.token) = {o}
      BY <3>1, TokensRead, LengthType
    <3>3. Going(n, a, rows)
      BY <2>5, <3>1, <3>2 DEF Going, Paged
    <3> QED
      BY <1>2, <2>4, <2>7, <3>3 DEF PagesOK
  <2> QED
    BY <2>4, <2>6, <2>7
<1>5. PagesOK(listing'[c], AccountIn(listing'[c].request), rows, conn'[c])
  <2>1. CASE l.stage # "going"
    BY <1>2, <1>3, <2>1 DEF PagesOK
  <2>2. CASE l.stage = "going" /\ ~Is("output", read)
    BY <1>2, <2>2 DEF PagesOK, NoListing
  <2>3. CASE l.stage = "going" /\ Is("output", read)
    BY <1>2, <1>4, <2>3
  <2> QED
    BY <2>1, <2>2, <2>3
<1>6. \A d \in Clients \ {c} : PagesOK(listing'[d], AccountIn(listing'[d].request), rows, conn'[d])
  BY <1>2 DEF ListingInv
<1>7. \A d \in Clients : PagesOK(listing'[d], AccountIn(listing'[d].request), rows, conn'[d])
  BY <1>5, <1>6
<1> HIDE DEF l, a, read, operation, result, urls, token, n
<1> QED
  BY <1>1, <1>7 DEF ListingInv, AccountIn

LEMMA PagesNext == TypeInv /\ ListingInv /\ ListingsCarried /\ [Next]_vars => ListingInv'
<1> SUFFICES ASSUME TypeInv, ListingInv, ListingsCarried, [Next]_vars PROVE ListingInv'
  OBVIOUS
<1>1. ASSUME NEW c \in Clients, Ask(c)
      PROVE  ListingInv'
  BY <1>1, PagesAsked
<1>2. ASSUME NEW c \in Clients, Probe(c) \/ AskNext(c)
      PROVE  ListingInv'
  <2>1. /\ UNCHANGED <<mode, rows, listing>>
        /\ \E request : conn' = [conn EXCEPT ![c] = Sent(request)]
    BY <1>2 DEF Probe, AskNext
  <2>2. conn'[c].stage # "handled" /\ \A d \in Clients \ {c} : conn'[d] = conn[d]
    BY <2>1 DEF Sent, TypeInv
  <2> QED
    BY <2>1, <2>2, PagesLeft
<1>3. ASSUME NEW c \in Clients,
             Receive(c) \/ CheckIdentity(c) \/ CheckScope(c) \/ CheckSignature(c)
      PROVE  ListingInv'
  <2>1. UNCHANGED <<mode, rows, listing>>
    BY <1>3 DEF Receive, CheckIdentity, CheckScope, CheckSignature
  <2>2. \E k : /\ conn' = [conn EXCEPT ![c] = k]
               /\ k.stage # "handled" \/ Is("error", k.result)
    <3>1. ASSUME NEW code, Reject(c, code)
          PROVE  \E k : /\ conn' = [conn EXCEPT ![c] = k]
                        /\ k.stage # "handled" \/ Is("error", k.result)
      <4> DEFINE k == [stage |-> "handled", request |-> conn[c].request,
                       result |-> Failure(New(code))]
      <4>1. conn' = [conn EXCEPT ![c] = k]
        BY <3>1 DEF Reject
      <4>2. Is("error", k.result)
        BY DEF Is, Failure
      <4> QED
        BY <4>1, <4>2
    <3>2. ASSUME NEW account, Verified(c, account)
          PROVE  \E k : conn' = [conn EXCEPT ![c] = k] /\ k.stage # "handled"
      <4> DEFINE k == [stage |-> "verified", request |-> conn[c].request, account |-> account]
      <4>1. conn' = [conn EXCEPT ![c] = k] /\ k.stage # "handled"
        BY <3>2 DEF Verified
      <4> QED
        BY <4>1
    <3>3. ASSUME conn' = [conn EXCEPT ![c] = [stage |-> "received", request |-> @.request,
                                              asked |-> @.asked, received |-> clock]]
          PROVE  \E k : conn' = [conn EXCEPT ![c] = k] /\ k.stage # "handled"
      <4> DEFINE k == [stage |-> "received", request |-> conn[c].request,
                       asked |-> conn[c].asked, received |-> clock]
      <4>1. conn' = [conn EXCEPT ![c] = k] /\ k.stage # "handled"
        BY <3>3
      <4> QED
        BY <4>1
    <3>4. ASSUME NEW stage \in {"known", "scoped"}, Advance(c, stage),
                 conn[c].stage \in {"received", "known"}
          PROVE  \E k : conn' = [conn EXCEPT ![c] = k] /\ k.stage # "handled"
      <4> DEFINE k == [conn[c] EXCEPT !.stage = stage]
      <4>1. conn[c] = [stage |-> conn[c].stage, request |-> conn[c].request,
                       asked |-> conn[c].asked, received |-> conn[c].received]
        BY <3>4, StageForms
      <4>2. k.stage = stage
        BY <4>1
      <4>3. conn' = [conn EXCEPT ![c] = k]
        BY <3>4 DEF Advance
      <4> HIDE DEF k
      <4> QED
        BY <4>2, <4>3
    <3> QED
      BY <1>3, <3>1, <3>2, <3>3, <3>4
         DEF Receive, CheckIdentity, CheckScope, CheckSignature, AtStage
  <2>3. /\ conn'[c].stage # "handled" \/ Is("error", conn'[c].result)
        /\ \A d \in Clients \ {c} : conn'[d] = conn[d]
    BY <2>2 DEF TypeInv
  <2> QED
    BY <2>1, <2>3, PagesLeft
<1>4. ASSUME NEW c \in Clients, Handle(c)
      PROVE  ListingInv'
  BY <1>4, PagesHandled
<1>5. ASSUME NEW c \in Clients, Respond(c)
      PROVE  ListingInv'
  BY <1>5, PagesRead
<1>6. CASE Tick \/ Stop \/ Exit \/ Restart \/ UNCHANGED vars
  <2>1. /\ UNCHANGED <<mode, rows, listing>>
        /\ \A d \in Clients : conn'[d] = NoConn \/ conn'[d] = conn[d]
    BY <1>6 DEF Tick, Stop, Exit, Restart, vars
  <2> QED
    BY <2>1, PagesLeft DEF NoConn
<1> QED
  BY <1>1, <1>2, <1>3, <1>4, <1>5, <1>6 DEF Next, Serve

\* What pages show is what the history of the listing allows.
LEMMA PagesAccurate == TypeInv /\ ListingInv => ListingAccurate
<1> SUFFICES ASSUME TypeInv, ListingInv, NEW c \in Clients, listing[c] # NoListing
             PROVE  LET l == listing[c]
                        At(i) == CHOOSE key \in Keys : Str(URL(key)) = l.seen[i]
                        Earlier(keys, key) ==
                          \E k \in keys : Before(k, key) /\ Eligible(l.request, k)
                        shown == {At(i) : i \in DOMAIN l.seen}
                    IN  /\ \A key \in shown :
                             Eligible(l.request, key) /\ key \in l.present \cup l.created
                        /\ \A i, j \in DOMAIN l.seen :
                             i # j /\ At(i) = At(j) => Earlier(l.created, At(i))
                        /\ l.stage = "complete" =>
                             \A key \in l.due \ (shown \cup l.deleted) : Earlier(l.deleted, key)
  BY DEF ListingAccurate
<1> DEFINE l == listing[c]
           a == AccountIn(l.request)
           At(i) == CHOOSE key \in Keys : Str(URL(key)) = l.seen[i]
           shown == {At(i) : i \in DOMAIN l.seen}
<1>1. /\ Base(l, a, l.seen)
      /\ l.stage = "complete" => Through(l, a, l.seen)
  <2>1. l.stage \in {"going", "complete"}
    BY DEF TypeInv, ListingForm
  <2> QED
    BY <2>1 DEF ListingInv, PagesOK, Going
<1>2. \A i \in DOMAIN l.seen : At(i) \in Keys /\ l.seen[i] = Link(At(i))
  <2> SUFFICES ASSUME NEW i \in DOMAIN l.seen PROVE At(i) \in Keys /\ l.seen[i] = Link(At(i))
    OBVIOUS
  <2>1. l.seen[i] \in Links
    BY <1>1 DEF Base
  <2>2. \E key \in Keys : Str(URL(key)) = l.seen[i]
    BY <2>1 DEF Links
  <2> QED
    BY <2>2 DEF Link
<1> HIDE DEF At
<1>3. \A key \in Keys : InPages(l.seen, key) <=> key \in shown
  BY <1>2, LinksDiffer DEF InPages
<1>4. \A key : Eligible(l.request, key) <=> EligibleFor(l.request, a, key)
  BY DEF Eligible, EligibleFor
<1>5. \A keys, key : EarlierIn(l.request, a, keys, key) =>
        \E k \in keys : Before(k, key) /\ Eligible(l.request, k)
  BY <1>4 DEF EarlierIn
<1>6. \A key \in shown : Eligible(l.request, key) /\ key \in l.present \cup l.created
  BY <1>1, <1>2, <1>3, <1>4 DEF Base
<1>7. \A i, j \in DOMAIN l.seen :
        i # j /\ At(i) = At(j) =>
          \E k \in l.created : Before(k, At(i)) /\ Eligible(l.request, k)
  BY <1>1, <1>2, <1>5 DEF Base
<1>8. l.stage = "complete" =>
        \A key \in l.due \ (shown \cup l.deleted) :
          \E k \in l.deleted : Before(k, key) /\ Eligible(l.request, k)
  BY <1>1, <1>3, <1>5 DEF Through
<1> QED
  BY <1>6, <1>7, <1>8 DEF At

\* As long as the codecs carry requests and replies: whatever is created and deleted
\* meanwhile and however often a page is asked for again, a listing shows only queues
\* of the caller that were there; twice only one that the creation of an earlier queue
\* pushed on; and it leaves out one that was there throughout only if an earlier queue
\* was deleted.  (ListQueues, ListDeadLetterSourceQueues; the property ListingAccurate)
THEOREM ListingsAccurate == Spec /\ []ListingsCarried => []ListingAccurate
<1>1. Init => ListingInv
  BY DEF Init, ListingInv, PagesOK, NoListing
<1>2. TypeInv /\ ListingInv /\ ListingsCarried /\ [Next]_vars => ListingInv'
  BY PagesNext
<1>3. TypeInv /\ ListingInv => ListingAccurate
  BY PagesAccurate
<1> QED
  BY <1>1, <1>2, <1>3, TypeAlways, PTL DEF Spec
=============================================================================
