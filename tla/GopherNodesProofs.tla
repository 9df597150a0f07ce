--------------------------- MODULE GopherNodesProofs ---------------------------
(***************************************************************************)
(* Answers to requests, proved for every line, every disk and every edit   *)
(* of it.                                                                  *)
(***************************************************************************)
EXTENDS GopherNodes, StrUtilProofs

\* The symbols of lines, of selectors, of the disk and of the links on it.
Symbols == {Slash} \cup UNION {{s[i] : i \in DOMAIN s} :
                               s \in Requests \cup Places \cup DOMAIN RootOf
                                       \cup {Target[p] : p \in Places}}

\* What is not yet known of a request.
Fresh == /\ phase \in {"lookup", "opening"} => items = {} /\ changed = {}
         /\ phase = "lookup" => ~ moved
         /\ phase # "listing" => dir = Nowhere

\* What analyze_request found is where the request says.
Analysed ==
  phase \in {"opening", "listing", "sending"} =>
    /\ ~ IsUrl(request) /\ Node \in DOMAIN RootOf
    /\ \A i \in NamesAfter(request) : request[i] \notin {Dot, DotDot}
    /\ data = [path |-> Asked, selector |-> SelectorPath(Named)]

\* A listing shows what is not hidden, by its name.
Shown ==
  phase = "listing" => \A item \in items \ {ErrorItem} :
    \E x \in Names \ Dotted : /\ item.path = Append(data.path, x)
                            /\ item.selector = Append(data.selector, x)

\* As long as the path leads where it led, what was seen is still there.
Seen ==
  ~ moved =>
    /\ phase = "opening" => Errno(data.path) = "none" /\ IsDir(Where(data.path))
    /\ phase = "sending" => /\ Errno(data.path) = "none"
                            /\ KindAt(Where(data.path)) \in {"file", "secret"}
    /\ phase = "listing" => dir = Where(data.path) /\ KindAt(dir) = "dir"

\* Each entry that did not change is an item or still to come, and an item that
\* is of no such entry is of one that changed.
There == Children(dir) \ (Dotted \cup changed)
Accounted ==
  /\ entries \subseteq Children(dir) \cup Dotted \cup changed
  /\ \A x \in There \ entries : ItemFor(x) \in items
  /\ \A item \in items \ {ErrorItem} : \A x \in Names \ changed :
       item.path = Append(data.path, x) => x \in There /\ item = ItemFor(x)
  /\ ErrorItem \in items /\ changed = {} => \E x \in There : ItemFor(x) = ErrorItem

Inv == /\ TypeOK /\ Fresh /\ Analysed /\ Shown /\ Seen
       /\ phase = "listing" /\ ~ failed => Accounted

-------------------------------------------------------------------------------
(* A request is taken apart as it is written.                              *)

\* What some positions of a string hold.
LEMMA ThoseType ==
  ASSUME NEW T, NEW s \in Seq(T), NEW P \in SUBSET DOMAIN s
  PROVE  /\ P \in SUBSET Nat /\ IsFiniteSet(P) /\ Cardinality(P) \in Nat
         /\ Those(s, P) \in Seq(T) /\ Len(Those(s, P)) = Cardinality(P)
         /\ \A k \in 1..Cardinality(P) : Nth(P, k) \in P /\ Those(s, P)[k] = s[Nth(P, k)]
<1>1. P \in SUBSET (1..Len(s)) /\ Len(s) \in Nat
  OBVIOUS
<1>2. P \in SUBSET Nat /\ IsFiniteSet(P) /\ Cardinality(P) \in Nat
  BY <1>1, UpToN, FS_Subset, FS_CardinalityType
<1>3. \A k \in 1..Cardinality(P) : Nth(P, k) \in P
  BY <1>2, NthExists
<1>4. \A k \in 1..Cardinality(P) : s[Nth(P, k)] \in T
  BY <1>1, <1>3
<1>. QED
  BY <1>2, <1>3, <1>4 DEF Those

\* One character of a string.
LEMMA SubSeqOne ==
  ASSUME NEW T, NEW s \in Seq(T), NEW a \in 1..Len(s)
  PROVE  SubSeq(s, a, a) = <<s[a]>>
<1>1. SubSeq(s, a, a) = [i \in 1..1 |-> s[a]]
  OBVIOUS
<1>. QED
  BY <1>1

\* The k-th token after the first is the one that starts behind the k-th
\* separator; it is the name there, or nothing.
LEMMA QueryTokens ==
  ASSUME NEW T, NEW raw \in Seq(T), \A i \in NamesAfter(raw) : raw[i - 1] = Slash
  PROVE  LET P == Occurrences(raw, Slash) IN
         /\ Query(raw) \in Seq(Seq(T)) /\ Len(Query(raw)) = Cardinality(P)
         /\ \A k \in 1..Cardinality(P) :
              IF Nth(P, k) + 1 \in NamesAfter(raw)
              THEN Query(raw)[k] = <<raw[Nth(P, k) + 1]>>
              ELSE Query(raw)[k] = <<>>
<1>. DEFINE P == Occurrences(raw, Slash)
            count == Cardinality(P)
            f == Tokenize(raw, Slash)
<1>1. /\ P \in SUBSET (1..Len(raw)) /\ P \in SUBSET Nat /\ IsFiniteSet(P)
      /\ count \in Nat /\ Len(raw) \in Nat
  BY OccurrencesType
<1>2. /\ f \in Seq(Seq(T)) /\ Len(f) = count + 1
      /\ \A n \in 1..(count + 1) : f[n] = Part(raw, Slash, n)
  BY TokenizeParts
<1>3. /\ Query(raw) \in Seq(Seq(T)) /\ Len(Query(raw)) = count
      /\ \A k \in 1..count : Query(raw)[k] = f[k + 1]
  <2>. HIDE DEF f, count
  <2>1. PICK U : U = Seq(T)
    OBVIOUS
  <2>2. \A g \in Seq(U) : Len(g) = count + 1 =>
          /\ Tail(g) \in Seq(U) /\ Len(Tail(g)) = count
          /\ \A k \in 1..count : Tail(g)[k] = g[k + 1]
    BY <1>1
  <2>. QED
    BY <1>2, <2>1, <2>2 DEF Query, f
<1>4. \A i : i \in NamesAfter(raw) <=>
               i \in 1..Len(raw) /\ i \notin P /\ \E j \in P : j < i
  BY DEF NamesAfter, Text, Occurrences
<1>. HIDE DEF f
<1>5. ASSUME NEW k \in 1..count
      PROVE  IF Nth(P, k) + 1 \in NamesAfter(raw)
             THEN Query(raw)[k] = <<raw[Nth(P, k) + 1]>>
             ELSE Query(raw)[k] = <<>>
  <2>1. PICK a \in Nat : a = Nth(P, k) + 1 /\ Nth(P, k) \in P
    BY <1>1, NthExists
  <2>2. PICK b : b = IF k + 1 > count THEN Len(raw) ELSE Nth(P, k + 1) - 1
    OBVIOUS
  <2>3. Query(raw)[k] = SubSeq(raw, a, b)
    <3>1. k + 1 \in 1..(count + 1) /\ k + 1 # 1 /\ (k + 1) - 1 = k
      BY <1>1
    <3>2. Query(raw)[k] = Part(raw, Slash, k + 1)
      BY <1>2, <1>3, <3>1
    <3>3. PICK n : n = k + 1
      OBVIOUS
    <3>4. Part(raw, Slash, n) = SubSeq(raw, IF n = 1 THEN 1 ELSE Nth(P, n - 1) + 1,
                                       IF n > count THEN Len(raw) ELSE Nth(P, n) - 1)
      BY Zenon DEF Part
    <3>5. (IF n = 1 THEN 1 ELSE Nth(P, n - 1) + 1) = a
      BY <2>1, <3>1, <3>3
    <3>6. (IF n > count THEN Len(raw) ELSE Nth(P, n) - 1) = b
      BY <2>2, <3>3
    <3>. QED
      BY <3>2, <3>3, <3>4, <3>5, <3>6
  <2>4. b \in Int /\ b <= Len(raw) /\ a - 1 <= b
    <3>1. CASE k + 1 > count
      BY <1>1, <2>1, <2>2, <3>1
    <3>2. CASE ~ (k + 1 > count)
      <4>1. k + 1 \in 1..count /\ k < k + 1
        BY <1>1, <3>2
      <4>2. Nth(P, k + 1) \in P /\ Nth(P, k) < Nth(P, k + 1)
        BY <1>1, <4>1, NthExists, NthOrder
      <4>. QED
        BY <1>1, <2>1, <2>2, <3>2, <4>2
    <3>. QED
      BY <3>1, <3>2
  <2>5. ASSUME NEW i \in a..b PROVE i \in NamesAfter(raw)
    <3>1. i \in 1..Len(raw) /\ Nth(P, k) < i
      BY <1>1, <2>1, <2>4
    <3>2. i \notin P
      <4>. SUFFICES ASSUME i \in P PROVE FALSE
        OBVIOUS
      <4>1. k + 1 \in 1..count /\ Nth(P, k + 1) <= i
        BY <1>1, <3>1, NthNext
      <4>2. Nth(P, k + 1) \in Nat
        BY <1>1, <4>1, NthExists
      <4>. QED
        BY <1>1, <2>1, <2>2, <2>4, <4>1, <4>2
    <3>. QED
      BY <1>4, <2>1, <3>1, <3>2
  <2>6. CASE a <= b
    <3>1. a \in NamesAfter(raw) /\ a \in 1..Len(raw)
      BY <1>4, <2>4, <2>5, <2>6
    <3>2. ~ (a < b)
      <4>. SUFFICES ASSUME a < b PROVE FALSE
        OBVIOUS
      <4>1. a + 1 \in NamesAfter(raw) /\ (a + 1) - 1 = a
        BY <2>1, <2>4, <2>5
      <4>2. raw[a] = Slash
        BY <4>1
      <4>. QED
        BY <3>1, <4>2 DEF NamesAfter, Text
    <3>3. SubSeq(raw, a, b) = <<raw[a]>>
      <4>1. a = b
        BY <2>1, <2>4, <2>6, <3>2
      <4>. QED
        BY <3>1, <4>1, SubSeqOne
    <3>. QED
      BY <2>1, <2>3, <3>1, <3>3
  <2>7. CASE ~ (a <= b)
    <3>1. SubSeq(raw, a, b) = <<>>
      BY <2>4, <2>7
    <3>2. a \notin NamesAfter(raw)
      <4>1. a = b + 1
        <5>1. a \in Int /\ b \in Int /\ a - 1 <= b /\ ~ (a <= b)
          BY <2>1, <2>4, <2>7
        <5>. QED
          BY <5>1
      <4>2. CASE k + 1 > count
        BY <1>1, <1>4, <2>2, <4>1, <4>2
      <4>3. CASE ~ (k + 1 > count)
        <5>1. k + 1 \in 1..count
          BY <1>1, <4>3
        <5>2. Nth(P, k + 1) \in P
          BY <1>1, <5>1, NthExists
        <5>3. a = Nth(P, k + 1)
          BY <1>1, <2>2, <4>1, <4>3, <5>2
        <5>. QED
          BY <1>4, <5>2, <5>3
      <4>. QED
        BY <4>2, <4>3
    <3>. QED
      BY <2>1, <2>3, <3>1, <3>2
  <2>. QED
    BY <2>4, <2>6, <2>7
<1>. QED
  BY <1>3, <1>5

\* as_path() throws exactly for a path with "." or "..", and returns the names
\* of any other.
LEMMA AsPathNames ==
  ASSUME NEW T, NEW raw \in Seq(T), \A i \in NamesAfter(raw) : raw[i - 1] = Slash
  PROVE  /\ AsPath(raw) = Those(raw, NamesAfter(raw))
         /\ BadRequest(raw) <=> \E i \in NamesAfter(raw) : raw[i] \in {Dot, DotDot}
<1>. DEFINE P == Occurrences(raw, Slash)
            q == Query(raw)
            Q == NamesAfter(raw)
            R == {k \in DOMAIN q : q[k] # <<>>}
            g == [k \in R |-> Nth(P, k) + 1]
<1>1. /\ P \in SUBSET (1..Len(raw)) /\ P \in SUBSET Nat /\ IsFiniteSet(P)
      /\ Cardinality(P) \in Nat /\ Len(raw) \in Nat
  BY OccurrencesType
<1>2. /\ q \in Seq(Seq(T)) /\ DOMAIN q = 1..Cardinality(P)
      /\ \A k \in 1..Cardinality(P) :
           IF Nth(P, k) + 1 \in Q THEN q[k] = <<raw[Nth(P, k) + 1]>> ELSE q[k] = <<>>
  BY QueryTokens
<1>3. \A x : <<x>> # <<>>
  OBVIOUS
<1>4. ASSUME NEW k
      PROVE  k \in R <=> k \in 1..Cardinality(P) /\ Nth(P, k) + 1 \in Q
  BY <1>2, <1>3
<1>5. \A k \in R : q[k] = <<raw[Nth(P, k) + 1]>>
  BY <1>2, <1>4
<1>6. Q \in SUBSET DOMAIN raw /\ Q \in SUBSET Nat
  BY DEF NamesAfter, Text
<1>7. R \in SUBSET DOMAIN q
  OBVIOUS
<1>. HIDE DEF R, Q, q
<1>8. /\ R \in SUBSET Nat /\ IsFiniteSet(R) /\ Cardinality(R) \in Nat
      /\ Those(q, R) \in Seq(Seq(T)) /\ Len(Those(q, R)) = Cardinality(R)
      /\ \A k \in 1..Cardinality(R) : Nth(R, k) \in R /\ Those(q, R)[k] = q[Nth(R, k)]
  BY <1>2, <1>7, ThoseType
<1>9. /\ Cardinality(Q) = Cardinality(R)
      /\ \A k \in 1..Cardinality(R) : Nth(Q, k) = g[Nth(R, k)]
  <2>1. \A k \in R : g[k] \in Q
    BY <1>4
  <2>2. ASSUME NEW j \in Q PROVE \E k \in R : j = g[k]
    <3>1. j \in 1..Len(raw) /\ j # 1 /\ raw[j - 1] = Slash
      BY <1>1 DEF Q, NamesAfter, Text, Occurrences
    <3>2. j - 1 \in P
      BY <1>1, <3>1 DEF Occurrences
    <3>3. PICK k \in 1..Cardinality(P) : j - 1 = Nth(P, k)
      BY <1>1, <3>2, NthOrder
    <3>4. Nth(P, k) + 1 = j
      BY <3>1, <3>3
    <3>5. k \in R
      BY <1>4, <3>4
    <3>. QED
      BY <3>4, <3>5
  <2>3. ASSUME NEW k \in R, NEW l \in R, k < l PROVE g[k] < g[l]
    <3>1. k \in 1..Cardinality(P) /\ l \in 1..Cardinality(P)
      BY <1>4
    <3>2. Nth(P, k) < Nth(P, l) /\ Nth(P, k) \in Nat /\ Nth(P, l) \in Nat
      BY <1>1, <2>3, <3>1, NthOrder, NthExists
    <3>. QED
      BY <3>2
  <2>. HIDE DEF g
  <2>4. /\ R \in SUBSET Nat /\ IsFiniteSet(R) /\ Q \in SUBSET Nat
        /\ \A k \in R : g[k] \in Q
        /\ \A j \in Q : \E k \in R : j = g[k]
        /\ \A k, l \in R : k < l => g[k] < g[l]
    BY <1>6, <1>8, <2>1, <2>2, <2>3
  <2>. QED
    BY <2>4, NthMaps
<1>10. /\ Those(raw, Q) \in Seq(T) /\ Len(Those(raw, Q)) = Cardinality(Q)
       /\ \A k \in 1..Cardinality(Q) : Nth(Q, k) \in Q /\ Those(raw, Q)[k] = raw[Nth(Q, k)]
  BY <1>6, ThoseType
<1>11. Tokens(raw) = Those(q, R)
  BY DEF Tokens, R, q
<1>12. ASSUME NEW k \in 1..Cardinality(R)
       PROVE  Those(q, R)[k] = <<Those(raw, Q)[k]>>
  <2>1. Nth(R, k) \in R /\ Those(q, R)[k] = q[Nth(R, k)]
    BY <1>8
  <2>2. Nth(Q, k) = Nth(P, Nth(R, k)) + 1
    BY <1>9, <2>1
  <2>. QED
    BY <1>5, <1>9, <1>10, <2>1, <2>2
<1>13. AsPath(raw) = Those(raw, Q)
  <2>1. /\ DOMAIN Those(q, R) = 1..Cardinality(R)
        /\ DOMAIN Those(raw, Q) = 1..Cardinality(R)
        /\ Those(raw, Q) = [k \in 1..Cardinality(R) |-> Those(raw, Q)[k]]
    BY <1>8, <1>9, <1>10
  <2>2. AsPath(raw) = [k \in 1..Cardinality(R) |-> Head(Those(q, R)[k])]
    BY <1>11, <2>1 DEF AsPath
  <2>3. \A x : Head(<<x>>) = x
    OBVIOUS
  <2>4. \A k \in 1..Cardinality(R) : Head(Those(q, R)[k]) = Those(raw, Q)[k]
    BY <1>12, <2>3
  <2>. QED
    BY <2>1, <2>2, <2>4
<1>14. BadRequest(raw) <=> \E i \in Q : raw[i] \in {Dot, DotDot}
  <2>1. BadRequest(raw) <=>
          \E k \in 1..Cardinality(R) : Those(q, R)[k] \in {<<Dot>>, <<DotDot>>}
    <3>1. DOMAIN Those(q, R) = 1..Cardinality(R)
      BY <1>8
    <3>. QED
      BY <1>11, <3>1 DEF BadRequest, Refused
  <2>2. \A x, y : <<x>> = <<y>> <=> x = y
    OBVIOUS
  <2>3. BadRequest(raw) <=>
          \E k \in 1..Cardinality(R) : Those(raw, Q)[k] \in {Dot, DotDot}
    <3>1. ASSUME NEW k \in 1..Cardinality(R)
          PROVE  Those(q, R)[k] \in {<<Dot>>, <<DotDot>>} <=> Those(raw, Q)[k] \in {Dot, DotDot}
      <4>1. PICK y : y = Those(raw, Q)[k]
        OBVIOUS
      <4>2. Those(q, R)[k] = <<y>>
        BY <1>12, <4>1
      <4>. QED
        BY <2>2, <4>1, <4>2
    <3>. QED
      BY <2>1, <3>1
  <2>4. \A i \in Q : \E k \in 1..Cardinality(Q) : i = Nth(Q, k)
    <3>1. IsFiniteSet(Q)
      BY <1>6, ThoseType
    <3>. QED
      BY <1>6, <3>1, NthOrder
  <2>. QED
    BY <1>9, <1>10, <2>3, <2>4
<1>. QED
  BY <1>13, <1>14 DEF Q

-------------------------------------------------------------------------------
(* The disk.                                                               *)

\* What clients send, what is on the disk and what selectors are made of.
LEMMA SymbolsType ==
  /\ Requests \subseteq Seq(Symbols) /\ Places \subseteq Seq(Symbols)
  /\ DOMAIN RootOf \subseteq Seq(Symbols) /\ Names \subseteq Symbols /\ Slash \in Symbols
  /\ \A p \in Places : Target[p] \in Seq(Symbols)
<1>. DEFINE Strings == Requests \cup Places \cup DOMAIN RootOf \cup {Target[p] : p \in Places}
<1>1. ASSUME NEW s \in Strings, s \in Seq({s[i] : i \in DOMAIN s})
      PROVE  s \in Seq(Symbols) /\ {s[i] : i \in DOMAIN s} \subseteq Symbols
  <2>1. {s[i] : i \in DOMAIN s} \subseteq Symbols
    BY DEF Symbols
  <2>2. PICK C : C = {s[i] : i \in DOMAIN s}
    OBVIOUS
  <2>. QED
    BY <1>1, <2>1, <2>2
<1>2. \A s \in Requests : s \in Seq({s[i] : i \in DOMAIN s})
  BY RequestsAssumption DEF IsLine
<1>3. \A s \in Places : s \in Seq({s[i] : i \in DOMAIN s})
  BY PlacesAssumption
<1>4. \A s \in DOMAIN RootOf : s \in Seq({s[i] : i \in DOMAIN s})
  BY RootsAssumption
<1>5. Names \subseteq Symbols
  BY <1>1, <1>3 DEF Names
<1>6. \A p \in Places : Target[p] \in Seq(Symbols)
  BY <1>1, TargetAssumption
<1>. QED
  BY <1>1, <1>2, <1>3, <1>4, <1>5, <1>6 DEF Symbols

\* The names of a place are no separators and no dots.
LEMMA PlainNames ==
  /\ \A p \in Places : \A i \in DOMAIN p : p[i] \notin {Slash, Dot, DotDot}
  /\ \A x \in Names : x \notin {Slash, Dot, DotDot}
BY PlacesAssumption DEF Names

\* What a request leads to: the path it names.
LEMMA AskedIs ==
  ASSUME request \in Requests, ~ IsUrl(request), Node \in DOMAIN RootOf
  PROVE  /\ Root \in Seq(Symbols) /\ Named \in Seq(Symbols) /\ Asked \in Seq(Symbols)
         /\ \A i \in DOMAIN Named : \E j \in NamesAfter(request) : Named[i] = request[j]
         /\ \A j \in NamesAfter(request) : \E i \in DOMAIN Named : Named[i] = request[j]
         /\ \A i \in DOMAIN Named : Named[i] # Slash
         /\ AsPath(request) = Named
         /\ BadRequest(request) <=> \E i \in DOMAIN Named : Named[i] \in {Dot, DotDot}
<1>1. request \in Seq(Symbols) /\ Root \in Seq(Symbols) /\ Root \in Places
  BY SymbolsType, RootsAssumption DEF Root
<1>2. \A i \in NamesAfter(request) : request[i - 1] = Slash
  BY RequestsAssumption DEF IsLine
<1>3. PICK Q : Q = NamesAfter(request)
  OBVIOUS
<1>4. Q \in SUBSET DOMAIN request /\ \A j \in Q : request[j] # Slash
  BY <1>3 DEF NamesAfter, Text
<1>5. /\ Q \in SUBSET Nat /\ IsFiniteSet(Q) /\ Cardinality(Q) \in Nat
      /\ Named \in Seq(Symbols) /\ Len(Named) = Cardinality(Q)
      /\ \A k \in 1..Cardinality(Q) : Nth(Q, k) \in Q /\ Named[k] = request[Nth(Q, k)]
  BY <1>1, <1>3, <1>4, ThoseType DEF Named
<1>6. DOMAIN Named = 1..Cardinality(Q)
  BY <1>5
<1>7. \A i \in DOMAIN Named : \E j \in Q : Named[i] = request[j]
  BY <1>5, <1>6
<1>8. \A j \in Q : \E i \in DOMAIN Named : Named[i] = request[j]
  BY <1>5, <1>6, NthOrder
<1>9. \A i \in DOMAIN Named : Named[i] # Slash
  BY <1>4, <1>7
<1>10. /\ AsPath(request) = Named
       /\ BadRequest(request) <=> \E i \in NamesAfter(request) : request[i] \in {Dot, DotDot}
  BY <1>1, <1>2, AsPathNames DEF Named
<1>11. BadRequest(request) <=> \E i \in DOMAIN Named : Named[i] \in {Dot, DotDot}
  BY <1>3, <1>7, <1>8, <1>10
<1>12. Asked \in Seq(Symbols) /\ Asked = Root \o Named
  BY <1>1, <1>5 DEF Asked
<1>. QED
  BY <1>1, <1>3, <1>5, <1>7, <1>8, <1>9, <1>10, <1>11, <1>12

-------------------------------------------------------------------------------
(* What does not change.                                                   *)

\* What a request asks for is told from its line.
LEMMA SameRequest ==
  ASSUME request' = request
  PROVE  /\ Node' = Node /\ Root' = Root /\ Named' = Named /\ Asked' = Asked
         /\ SelectorPath(Named)' = SelectorPath(Named)
BY DEF Node, Root, Named, Asked, SelectorPath

\* What is there is told from the disk.
LEMMA SameDisk ==
  ASSUME disk' = disk
  PROVE  /\ \A p : KindAt(p)' = KindAt(p)
         /\ \A p : Look(p)' = Look(p)
<1>1. \A p : KindAt(p)' = KindAt(p)
  BY DEF KindAt
<1>2. \A p : Look(p)' = Look(p)
  BY SMT DEF Look, Walk, Step, Refusal, KindAt
<1>. QED
  BY <1>1, <1>2

\* What a listing relies on is told from the disk.
LEMMA SameListing ==
  ASSUME UNCHANGED <<disk, data, dir, changed>>
  PROVE  /\ \A x : ItemFor(x)' = ItemFor(x)
         /\ Children(dir)' = Children(dir) /\ There' = There
<1>1. (\A p : KindAt(p)' = KindAt(p)) /\ (\A p : Look(p)' = Look(p))
  BY SameDisk
<1>2. \A x : ItemFor(x)' = ItemFor(x)
  BY <1>1 DEF Errno, ItemFor, ItemOf, TypeAt, IsDir, Where, ErrorItem, KindAt
<1>3. Children(dir)' = Children(dir)
  BY DEF Children, Names, KindAt
<1>. QED
  BY <1>2, <1>3 DEF There

\* And what was seen of a path.
LEMMA SameSeen ==
  ASSUME Seen, UNCHANGED <<disk, phase, data, dir, moved>>
  PROVE  Seen'
<1>1. (\A p : KindAt(p)' = KindAt(p)) /\ (\A p : Look(p)' = Look(p))
  BY SameDisk
<1>. QED
  BY <1>1 DEF Seen, Errno, Where, IsDir, KindAt

\* The path of an entry tells which.
LEMMA LastOfPath ==
  ASSUME NEW T, NEW path \in Seq(T), NEW x \in T
  PROVE  Seqs!Last(Append(path, x)) = x
BY DEF Seqs!Last

-------------------------------------------------------------------------------
(* Every step keeps the invariant.                                         *)

\* Before the first request.
LEMMA InvInit == Init => Inv
<1>. SUFFICES ASSUME Init PROVE Inv
  OBVIOUS
<1>1. TypeOK
  <2>1. disk \in [Places -> Kinds]
    BY DisksAssumption DEF Init
  <2>2. 0 \in 0..MaxLeft
    BY BoundsAssumption
  <2>. QED
    BY <2>1, <2>2 DEF Init, TypeOK, Replies, local, Resting
<1>. QED
  BY <1>1 DEF Init, Inv, Fresh, Analysed, Shown, Seen

\* An edit is known as one, by the path and by the entry it is seen at.
LEMMA InvEdit ==
  ASSUME Inv, NEW p \in Places, Edit(p)
  PROVE  Inv'
<1>1. PICK kind \in Edits[p] \ {disk[p]} :
        /\ disk' = [q \in Places |-> IF q = p THEN kind
                                     ELSE IF Seqs!IsPrefix(p, q) /\ kind \notin {"dir", "locked"}
                                     THEN "absent" ELSE disk[q]]
        /\ dir' = IF Seqs!IsPrefix(p, dir) /\ kind \notin {"dir", "locked"} THEN Nowhere ELSE dir
  BY DEF Edit
<1>2. UNCHANGED <<phase, request, data, items, left, reply, failed>>
  BY DEF Edit
<1>3. moved' = (moved \/ (phase \in {"opening", "listing", "sending"}
                           /\ View(data.path)' # View(data.path)))
  BY DEF Edit
<1>4. changed' = changed \cup IF phase = "listing"
                            THEN {x \in Names : EntryView(x)' # EntryView(x)} ELSE {}
  BY DEF Edit
<1>5. PICK touched, some : /\ touched = {x \in Names : KindAt(Append(dir, x))' # KindAt(Append(dir, x))}
                           /\ some \in SUBSET touched
                           /\ entries' = (entries \ touched) \cup some
  BY DEF Edit
<1>6. phase # "listing" => dir' = dir /\ entries' = entries /\ changed' = changed
  <2>. SUFFICES ASSUME phase # "listing" PROVE dir' = dir /\ entries' = entries /\ changed' = changed
    OBVIOUS
  <2>1. dir = Nowhere
    BY DEF Inv, Fresh
  <2>2. dir' = Nowhere
    BY <1>1, <2>1
  <2>3. \A x : Append(Nowhere, x) \notin Places
    <3>1. ASSUME NEW x PROVE Append(Nowhere, x)[1] = Slash /\ 1 \in DOMAIN Append(Nowhere, x)
      BY DEF Nowhere
    <3>. QED
      BY <3>1, PlainNames
  <2>4. \A x : KindAt(Append(dir, x)) = "absent" /\ KindAt(Append(dir, x))' = "absent"
    BY <2>1, <2>2, <2>3 DEF KindAt
  <2>. QED
    BY <1>4, <1>5, <2>1, <2>2, <2>4
<1>7. phase = "idle" => local' = local
  <2>1. phase = "idle" => moved' = moved
    BY <1>3 DEF Inv, TypeOK
  <2>. QED
    BY <1>2, <1>6, <2>1 DEF local
<1>8. TypeOK'
  <2>1. disk' \in [Places -> Kinds]
    BY <1>1, DisksAssumption DEF Inv, TypeOK, Kinds
  <2>2. entries' \subseteq Names \cup {Dot, DotDot} /\ changed' \subseteq Names
    BY <1>4, <1>5 DEF Inv, TypeOK
  <2>3. moved' \in BOOLEAN
    <3>1. moved \in BOOLEAN
      BY DEF Inv, TypeOK
    <3>. QED
      BY <1>3, <3>1
  <2>4. IF phase' = "idle" THEN local' = Resting ELSE request' \in Requests
    BY <1>2, <1>7 DEF Inv, TypeOK
  <2>5. Names' = Names /\ Resting' = Resting
    BY DEF Names, Resting, NoData, Nowhere
  <2>. QED
    BY <1>2, <2>1, <2>2, <2>3, <2>4, <2>5 DEF Inv, TypeOK
<1>9. Fresh' /\ Shown'
  BY <1>2, <1>3, <1>6 DEF Inv, Fresh, Shown, ErrorItem
<1>10. Analysed'
  BY <1>2, SameRequest DEF Inv, Analysed
<1>11. Seen'
  <2>. SUFFICES ASSUME ~ moved' PROVE Seen'
    BY DEF Seen
  <2>1. ~ moved /\ (phase \in {"opening", "listing", "sending"} =>
                      View(data.path)' = View(data.path))
    BY <1>3
  <2>2. phase \in {"opening", "listing", "sending"} =>
          /\ Errno(data.path)' = Errno(data.path)
          /\ Where(data.path)' = Where(data.path)
          /\ KindAt(Where(data.path))' = KindAt(Where(data.path))
    BY <1>2, <2>1 DEF View, Errno, Where
  <2>3. phase \in {"opening", "sending"} => Seen'
    BY <1>2, <2>1, <2>2 DEF Inv, Seen, IsDir
  <2>4. ASSUME phase = "listing" PROVE Seen'
    <3>1. dir = Where(data.path) /\ KindAt(dir) = "dir"
      BY <2>1, <2>4 DEF Inv, Seen
    <3>2. KindAt(Where(data.path))' = "dir"
      BY <2>2, <2>4, <3>1
    <3>3. dir' = dir
      <4>. SUFFICES ASSUME Seqs!IsPrefix(p, dir), kind \notin {"dir", "locked"} PROVE FALSE
        BY <1>1
      <4>1. dir \in Places
        BY <3>1 DEF KindAt
      <4>2. disk'[dir] # "dir"
        BY <1>1, <4>1
      <4>3. PICK w : w = Where(data.path)
        OBVIOUS
      <4>4. w = Where(data.path)' /\ KindAt(w)' = disk'[w]
        BY <2>2, <2>4, <3>1, <4>1, <4>3 DEF KindAt
      <4>. QED
        BY <3>1, <3>2, <4>2, <4>3, <4>4 DEF KindAt
    <3>4. dir' = Where(data.path)' /\ KindAt(dir)' = "dir"
      BY <2>2, <2>4, <3>1, <3>2, <3>3 DEF KindAt
    <3>. QED
      BY <1>2, <2>4, <3>4 DEF Seen
  <2>. QED
    BY <1>2, <2>3, <2>4 DEF Seen
<1>12. ASSUME phase = "listing", ~ failed PROVE Accounted'
  <2>1. Accounted
    BY <1>12 DEF Inv
  <2>2. changed \subseteq changed' /\ \A x \in Names \ changed' : EntryView(x)' = EntryView(x)
    BY <1>4, <1>12
  <2>3. \A x \in Names \ changed' :
          /\ KindAt(Append(dir, x))' = KindAt(Append(dir, x))
          /\ View(Append(data.path, x))' = View(Append(data.path, x))
    BY <2>2 DEF EntryView
  <2>4. \A x \in Names \ changed' : ItemFor(x)' = ItemFor(x)
    BY <1>2, <2>3 DEF View, Errno, ItemFor, ItemOf, TypeAt, IsDir, Where, ErrorItem
  <2>5. \A x \in Names \ changed' : /\ x \in Children(dir)' <=> x \in Children(dir)
                                    /\ x \in entries' <=> x \in entries
    <3>1. touched \subseteq changed'
      BY <1>5, <2>3
    <3>2. Names' = Names
      BY DEF Names
    <3>. QED
      BY <1>5, <2>3, <3>1, <3>2 DEF Children
  <2>6. There \subseteq Names /\ There' \subseteq Names
    <3>1. Names' = Names
      BY DEF Names
    <3>. QED
      BY <3>1 DEF There, Children
  <2>7. \A x \in Names \ changed' : x \in There' <=> x \in There
    BY <2>2, <2>5 DEF There
  <2>8. \A x \in There' : x \in Names \ changed'
    BY <2>6 DEF There
  <2>9. entries' \subseteq Children(dir)' \cup Dotted \cup changed'
    <3>1. entries \subseteq Names \cup {Dot, DotDot} /\ touched \subseteq Names
      BY <1>5 DEF Inv, TypeOK
    <3>. QED
      BY <1>5, <2>1, <2>2, <2>5, <3>1, DottedAssumption DEF Accounted
  <2>10. \A x \in There' \ entries' : ItemFor(x)' \in items'
    BY <1>2, <2>1, <2>4, <2>5, <2>7, <2>8 DEF Accounted
  <2>11. \A item \in items' \ {ErrorItem} : \A x \in Names \ changed' :
           item.path = Append(data.path, x)' => x \in There' /\ item = ItemFor(x)'
    BY <1>2, <2>1, <2>2, <2>4, <2>7 DEF Accounted
  <2>12. ErrorItem \in items' /\ changed' = {} => \E x \in There' : ItemFor(x)' = ErrorItem
    <3>. SUFFICES ASSUME ErrorItem \in items, changed' = {}
                  PROVE  \E x \in There' : ItemFor(x)' = ErrorItem
      BY <1>2
    <3>1. PICK x \in There : ItemFor(x) = ErrorItem
      BY <2>1, <2>2 DEF Accounted
    <3>2. x \in Names \ changed'
      BY <2>6, <3>1
    <3>. QED
      BY <2>4, <2>7, <3>1, <3>2
  <2>13. Names' = Names /\ ErrorItem' = ErrorItem
    BY DEF Names, ErrorItem
  <2>. QED
    BY <2>9, <2>10, <2>11, <2>12, <2>13 DEF Accounted
<1>. QED
  BY <1>2, <1>8, <1>9, <1>10, <1>11, <1>12 DEF Inv

\* A request starts with nothing known.
LEMMA InvAsk ==
  ASSUME Inv, NEW raw \in Requests, Ask(raw)
  PROVE  Inv'
<1>1. /\ phase' = "lookup" /\ request' \in Requests /\ reply' = "none" /\ failed' = FALSE
      /\ UNCHANGED <<disk, left, data, dir, entries, items, moved, changed>>
      /\ local = Resting
  BY DEF Ask, Inv, TypeOK
<1>2. dir = Nowhere /\ items = {} /\ changed = {} /\ ~ moved
  BY <1>1 DEF local, Resting
<1>3. TypeOK'
  BY <1>1 DEF Inv, TypeOK, Replies, Names
<1>4. Fresh'
  BY <1>1, <1>2 DEF Fresh, Nowhere
<1>. QED
  BY <1>1, <1>3, <1>4 DEF Inv, Analysed, Shown, Seen

\* Nothing is kept of a request that is answered.
LEMMA InvReplied ==
  ASSUME Inv, NEW kind \in Replies, Replied(kind), UNCHANGED <<disk, left>>,
         failed' \in BOOLEAN
  PROVE  Inv'
<1>1. /\ phase' = "idle" /\ reply' = kind /\ dir' = Nowhere /\ request' = <<>> /\ data' = NoData
      /\ entries' = {} /\ items' = {} /\ moved' = FALSE /\ changed' = {}
  BY DEF Replied, Rested
<1>2. local' = Resting'
  BY <1>1 DEF local, Resting, NoData, Nowhere
<1>3. TypeOK'
  BY <1>1, <1>2 DEF Inv, TypeOK
<1>4. Fresh'
  BY <1>1 DEF Fresh, Nowhere
<1>. QED
  BY <1>1, <1>3, <1>4 DEF Inv, Analysed, Shown, Seen

\* An exception, and a call that fails, end the request.
LEMMA InvThrown ==
  ASSUME Inv, NEW exception, Thrown(exception), UNCHANGED <<disk, left>>,
         failed' \in BOOLEAN
  PROVE  Inv' /\ phase' = "idle"
<1>1. PICK kind \in Replies : Replied(kind)
  BY DEF Thrown, Replies
<1>. QED
  BY <1>1, InvReplied DEF Replied

LEMMA InvCallFails ==
  ASSUME Inv, CallFails, UNCHANGED <<disk, left>>
  PROVE  Inv' /\ phase' = "idle"
BY InvThrown DEF CallFails

\* What neither looks at a disk nor lists.
LEMMA InvElsewhere ==
  ASSUME Inv, phase \in {"lookup", "sending", "page"}, phase' \in {"page", "stuck"},
         left' \in 0..MaxLeft, UNCHANGED <<disk, reply, failed, local>>
  PROVE  Inv'
<1>1. UNCHANGED <<request, data, dir, entries, items, moved, changed>>
  BY DEF local
<1>2. TypeOK'
  BY <1>1 DEF Inv, TypeOK, Names
<1>. QED
  BY <1>1, <1>2 DEF Inv, Fresh, Analysed, Shown, Seen, Nowhere

\* A URL is handed to the redirector, and its page is made.
LEMMA InvRedirect ==
  ASSUME Inv, Redirect
  PROVE  Inv'
<1>1. CASE LookupUrl
  <2>1. Keywords \in 0..MaxLeft
    BY BoundsAssumption
  <2>. QED
    BY <1>1, <2>1, InvElsewhere DEF LookupUrl
<1>2. CASE Substitute
  <2>1. Carried \in Nat
    <3>1. request \in Seq(Symbols)
      BY <1>2, SymbolsType DEF Inv, TypeOK, Substitute
    <3>. QED
      BY <3>1, OccurrencesType DEF Carried
  <2>2. left' \in 0..MaxLeft
    <3>1. /\ left \in 0..MaxLeft /\ left > 0
          /\ left' = IF (left - 1) + Carried > MaxLeft THEN MaxLeft ELSE (left - 1) + Carried
      BY <1>2 DEF Inv, TypeOK, Substitute, Replaced
    <3>. QED
      BY <2>1, <3>1, BoundsAssumption
  <2>. QED
    BY <1>2, <2>2, InvElsewhere DEF Substitute
<1>3. CASE PageEnds
  BY <1>3, InvReplied DEF PageEnds, Replies, Inv, TypeOK
<1>. QED
  BY <1>1, <1>2, <1>3 DEF Redirect

\* analyze_request tells what there is, and where.
LEMMA InvAnalyze ==
  ASSUME Inv, Analyze
  PROVE  Inv'
<1>1. /\ phase = "lookup" /\ ~ IsUrl(request) /\ Node \in DOMAIN RootOf
      /\ UNCHANGED <<disk, left>>
  BY DEF Analyze
<1>2. request \in Requests /\ items = {} /\ changed = {} /\ ~ moved /\ dir = Nowhere
  BY <1>1 DEF Inv, TypeOK, Fresh
<1>3. /\ AsPath(request) = Named
      /\ BadRequest(request) <=> \E i \in DOMAIN Named : Named[i] \in {Dot, DotDot}
      /\ \A j \in NamesAfter(request) : \E i \in DOMAIN Named : Named[i] = request[j]
  BY <1>1, <1>2, AskedIs
<1>4. failed \in BOOLEAN
  BY DEF Inv, TypeOK
<1>5. CASE Thrown("BadRequest") /\ UNCHANGED failed
  BY <1>1, <1>4, <1>5, InvThrown
<1>6. CASE CallFails
  BY <1>1, <1>6, InvCallFails
<1>7. CASE ~ BadRequest(request) /\ Analyzed(Named) /\ UNCHANGED failed
  <2>1. CASE \E exception : Thrown(exception)
    BY <1>1, <1>4, <1>7, <2>1, InvThrown
  <2>2. CASE ~ \E exception : Thrown(exception)
    <3>1. /\ StatErrno(Named) = "none" /\ TypeAt(Where(Asked)) # "error"
          /\ data' = [path |-> Asked, selector |-> SelectorPath(Named)]
          /\ phase' = IF TypeAt(Where(Asked)) = "menu" THEN "opening" ELSE "sending"
          /\ UNCHANGED <<reply, request, dir, entries, items, moved, changed>>
      BY <1>7, <2>2 DEF Analyzed, Asked
    <3>2. TypeOK'
      BY <1>1, <1>2, <1>7, <3>1 DEF Inv, TypeOK, Names
    <3>3. Fresh' /\ Shown'
      BY <1>1, <1>2, <3>1 DEF Fresh, Shown, Nowhere
    <3>4. Analysed'
      <4>1. \A i \in NamesAfter(request) : request[i] \notin {Dot, DotDot}
        BY <1>3, <1>7
      <4>. QED
        BY <1>1, <3>1, <4>1, SameRequest DEF Analysed
    <3>5. Seen'
      <4>1. /\ Errno(Asked) = "none"
            /\ phase' = "opening" => IsDir(Where(Asked))
            /\ phase' = "sending" => KindAt(Where(Asked)) \in {"file", "secret"}
            /\ phase' # "listing"
        BY <3>1 DEF StatErrno, TypeAt, Asked
      <4>2. PICK asked : asked = Asked
        OBVIOUS
      <4>3. data'.path = asked /\ Errno(asked)' = Errno(asked)
            /\ Where(asked)' = Where(asked) /\ KindAt(Where(asked))' = KindAt(Where(asked))
        BY <1>1, <3>1, <4>2, SameDisk DEF Errno, Where, KindAt
      <4>. QED
        BY <4>1, <4>2, <4>3 DEF Seen, IsDir, Errno, Where, KindAt
    <3>. QED
      BY <3>1, <3>2, <3>3, <3>4, <3>5 DEF Inv
  <2>. QED
    BY <2>1, <2>2
<1>. QED
  BY <1>3, <1>5, <1>6, <1>7 DEF Analyze

\* What opendir finds is the directory, and all there is in it is to come.
LEMMA InvOpenDir ==
  ASSUME Inv, OpenDir
  PROVE  Inv'
<1>1. phase = "opening" /\ UNCHANGED <<disk, left>>
  BY DEF OpenDir
<1>2. failed \in BOOLEAN
  BY DEF Inv, TypeOK
<1>3. CASE CallFails
  BY <1>1, <1>3, InvCallFails
<1>4. CASE (\E exception : Thrown(exception)) /\ UNCHANGED failed
  BY <1>1, <1>2, <1>4, InvThrown
<1>5. CASE /\ OpenErrno = "none"
           /\ phase' = "listing"
           /\ dir' = Where(data.path)
           /\ entries' = {Dot, DotDot} \cup Children(dir')
           /\ UNCHANGED <<reply, failed, request, data, items, moved, changed>>
  <2>1. /\ request \in Requests /\ items = {} /\ changed = {}
        /\ data = [path |-> Asked, selector |-> SelectorPath(Named)]
    BY <1>1 DEF Inv, TypeOK, Fresh, Analysed
  <2>2. PICK d : d = dir' /\ Children(d) \subseteq Names
    BY DEF Children
  <2>3. entries' = {Dot, DotDot} \cup Children(d)
    BY <1>5, <2>2
  <2>4. TypeOK'
    BY <1>1, <1>5, <2>2, <2>3 DEF Inv, TypeOK, Names
  <2>5. Fresh' /\ Shown'
    BY <1>5, <2>1 DEF Fresh, Shown
  <2>6. Analysed'
    BY <1>1, <1>5, SameRequest DEF Inv, Analysed
  <2>7. Seen'
    <3>1. PICK path : path = data.path
      OBVIOUS
    <3>2. Where(path)' = Where(path) /\ KindAt(Where(path))' = KindAt(Where(path))
      BY <1>1, SameDisk DEF Where, KindAt
    <3>3. dir' = Where(path)' /\ KindAt(d)' = KindAt(d) /\ KindAt(d) = "dir"
      BY <1>1, <1>5, <2>2, <3>1, <3>2, SameDisk DEF OpenErrno, IsDir
    <3>. QED
      BY <1>5, <2>2, <3>1, <3>3 DEF Seen, KindAt, Where
  <2>8. Accounted'
    <3>1. Children(d)' = Children(d) /\ Children(d)' = Children(dir)'
      BY <1>1, <2>2 DEF Children, Names, KindAt
    <3>. QED
      BY <1>5, <2>1, <2>3, <3>1, DottedAssumption DEF Accounted, There
  <2>. QED
    BY <2>4, <2>5, <2>6, <2>7, <2>8 DEF Inv
<1>. QED
  BY <1>3, <1>4, <1>5 DEF OpenDir

\* While a directory is listed, nothing but the entries and the items changes.
LEMMA InvListing ==
  ASSUME Inv, phase = "listing", failed' \in BOOLEAN, Accounted' \/ failed',
         UNCHANGED <<disk, phase, left, reply, request, data, dir, moved, changed>>,
         entries' \subseteq entries,
         \A item \in items' \ items : \E x \in Names \ Dotted : item \in {ItemOf(x), ErrorItem}
  PROVE  Inv'
<1>1. \A item \in items' : item.type \in {"menu", "file", "error", "..."}
  BY DEF Inv, TypeOK, ItemOf, TypeAt, ErrorItem
<1>2. TypeOK'
  BY <1>1 DEF Inv, TypeOK, Names
<1>3. Fresh'
  BY DEF Inv, Fresh
<1>4. Analysed'
  BY SameRequest DEF Inv, Analysed
<1>5. Shown'
  <2>1. ASSUME NEW item \in items' \ {ErrorItem}
        PROVE  \E x \in Names \ Dotted : /\ item.path = Append(data.path, x)
                                         /\ item.selector = Append(data.selector, x)
    BY <2>1 DEF Inv, Shown, ItemOf
  <2>2. Names' = Names /\ ErrorItem' = ErrorItem
    BY DEF Names, ErrorItem
  <2>. QED
    BY <2>1, <2>2 DEF Shown
<1>6. Seen'
  BY SameSeen DEF Inv
<1>. QED
  BY <1>2, <1>3, <1>4, <1>5, <1>6 DEF Inv

\* A hidden entry is skipped.
LEMMA InvSkipEntry ==
  ASSUME Inv, NEW name \in entries, SkipEntry(name)
  PROVE  Inv'
<1>1. /\ phase = "listing" /\ name \in Dotted /\ entries' = entries \ {name}
      /\ UNCHANGED <<disk, phase, left, reply, failed, request, data, dir, items, moved, changed>>
  BY DEF SkipEntry, Hidden
<1>2. Accounted' \/ failed'
  <2>. SUFFICES ASSUME Accounted PROVE Accounted'
    BY <1>1 DEF Inv
  <2>1. (\A x : ItemFor(x)' = ItemFor(x)) /\ Children(dir)' = Children(dir) /\ There' = There
    BY <1>1, SameListing
  <2>2. There \ entries' = There \ entries
    BY <1>1 DEF There
  <2>3. Names' = Names /\ ErrorItem' = ErrorItem
    BY DEF Names, ErrorItem
  <2>. QED
    BY <1>1, <2>1, <2>2, <2>3 DEF Accounted
<1>3. failed \in BOOLEAN
  BY DEF Inv, TypeOK
<1>. QED
  BY <1>1, <1>2, <1>3, InvListing

\* An entry becomes the item that is there.
LEMMA InvListEntry ==
  ASSUME Inv, NEW name \in entries, ListEntry(name)
  PROVE  Inv'
<1>1. /\ phase = "listing" /\ name \notin Dotted /\ entries' = entries \ {name}
      /\ UNCHANGED <<disk, phase, left, reply, request, data, dir, moved, changed>>
  BY DEF ListEntry, Hidden
<1>2. name \in Names
  BY <1>1, DottedAssumption DEF Inv, TypeOK
<1>3. failed \in BOOLEAN
  BY DEF Inv, TypeOK
<1>4. CASE items' = items \cup {ErrorItem} /\ failed' = TRUE
  BY <1>1, <1>2, <1>4, InvListing
<1>5. CASE items' = items \cup {ItemFor(name)} /\ UNCHANGED failed
  <2>1. Accounted' \/ failed'
    <3>. SUFFICES ASSUME Accounted PROVE Accounted'
      BY <1>1, <1>5 DEF Inv
    <3>1. (\A x : ItemFor(x)' = ItemFor(x)) /\ Children(dir)' = Children(dir) /\ There' = There
      BY <1>1, SameListing
    <3>2. name \in There \cup changed
      BY <1>1, <1>2 DEF Accounted, There
    <3>3. \A item \in items' \ {ErrorItem} : \A x \in Names \ changed :
            item.path = Append(data.path, x) => x \in There /\ item = ItemFor(x)
      <4>. SUFFICES ASSUME NEW item, item = ItemFor(name), item # ErrorItem, NEW x \in Names \ changed,
                           item.path = Append(data.path, x)
                    PROVE  x \in There /\ item = ItemFor(x)
        BY <1>5 DEF Accounted
      <4>1. item.path = Append(data.path, name)
        BY DEF ItemFor, ItemOf
      <4>2. data.path \in Seq(Symbols)
        <5>1. data.path = Asked /\ ~ IsUrl(request) /\ Node \in DOMAIN RootOf /\ request \in Requests
          BY <1>1 DEF Inv, Analysed, TypeOK
        <5>. QED
          BY <5>1, AskedIs
      <4>3. PICK path \in Seq(Symbols) : path = data.path
        BY <4>2
      <4>4. x \in Symbols /\ name \in Symbols
        BY <1>2, SymbolsType
      <4>5. Seqs!Last(Append(path, x)) = x /\ Seqs!Last(Append(path, name)) = name
        BY <4>4, LastOfPath
      <4>. QED
        BY <3>2, <4>1, <4>3, <4>5
    <3>4. ErrorItem \in items' /\ changed = {} => \E x \in There : ItemFor(x) = ErrorItem
      BY <1>5, <3>2 DEF Accounted
    <3>5. \A x \in There \ entries' : ItemFor(x) \in items'
      BY <1>1, <1>5 DEF Accounted
    <3>6. Names' = Names /\ ErrorItem' = ErrorItem
      BY DEF Names, ErrorItem
    <3>. QED
      BY <1>1, <3>1, <3>3, <3>4, <3>5, <3>6 DEF Accounted
  <2>. QED
    BY <1>1, <1>2, <1>3, <1>5, <2>1, InvListing DEF ItemFor
<1>. QED
  BY <1>4, <1>5 DEF ListEntry

\* The menu is complete, or readdir fails.
LEMMA InvListEnds ==
  ASSUME Inv, ListEnds
  PROVE  Inv'
BY InvReplied, InvCallFails DEF ListEnds, Replies, Inv, TypeOK

\* A file is sent, or is not to be had.
LEMMA InvSendFile ==
  ASSUME Inv, SendFile
  PROVE  Inv'
<1>1. phase = "sending" /\ UNCHANGED <<disk, left>> /\ failed \in BOOLEAN /\ left \in 0..MaxLeft
  BY DEF SendFile, Inv, TypeOK
<1>2. CASE CallFails
  BY <1>1, <1>2, InvCallFails
<1>3. CASE phase' = "stuck" /\ UNCHANGED <<reply, failed, local>>
  BY <1>1, <1>3, InvElsewhere
<1>4. CASE (Replied("file") \/ Thrown("IOError")) /\ UNCHANGED failed
  BY <1>1, <1>4, InvReplied, InvThrown DEF Replies
<1>. QED
  BY <1>2, <1>3, <1>4 DEF SendFile

\* Nothing happens.
LEMMA InvStutter ==
  ASSUME Inv, UNCHANGED vars
  PROVE  Inv'
<1>1. /\ UNCHANGED <<disk, phase, left, reply, failed, local>>
      /\ UNCHANGED <<request, data, dir, entries, items, moved, changed>>
  BY DEF vars, local
<1>2. TypeOK'
  BY <1>1 DEF Inv, TypeOK, Names, Resting, NoData, Nowhere
<1>3. Fresh' /\ Shown'
  BY <1>1 DEF Inv, Fresh, Shown, ErrorItem, Nowhere, Names
<1>4. Analysed'
  BY <1>1, SameRequest DEF Inv, Analysed
<1>5. Seen'
  BY <1>1, SameSeen DEF Inv
<1>6. Accounted => Accounted'
  <2>1. (\A x : ItemFor(x)' = ItemFor(x)) /\ Children(dir)' = Children(dir) /\ There' = There
    BY <1>1, SameListing
  <2>2. Names' = Names /\ ErrorItem' = ErrorItem
    BY DEF Names, ErrorItem
  <2>. QED
    BY <1>1, <2>1, <2>2 DEF Accounted
<1>. QED
  BY <1>1, <1>2, <1>3, <1>4, <1>5, <1>6 DEF Inv

\* Whatever happens, what the next step relies on still holds.
LEMMA InvStep == Inv /\ [Next]_vars => Inv'
<1>. SUFFICES ASSUME Inv, [Next]_vars PROVE Inv'
  OBVIOUS
<1>1. CASE \E raw \in Requests : Ask(raw)
  BY <1>1, InvAsk
<1>2. CASE LookupFails
  BY <1>2, InvThrown DEF LookupFails, Inv, TypeOK
<1>3. CASE Analyze
  BY <1>3, InvAnalyze
<1>4. CASE OpenDir
  BY <1>4, InvOpenDir
<1>5. CASE \E name \in entries : SkipEntry(name) \/ ListEntry(name)
  BY <1>5, InvSkipEntry, InvListEntry
<1>6. CASE ListEnds
  BY <1>6, InvListEnds
<1>7. CASE SendFile
  BY <1>7, InvSendFile
<1>8. CASE Redirect
  BY <1>8, InvRedirect
<1>9. CASE \E p \in Places : Edit(p)
  BY <1>9, InvEdit
<1>10. CASE UNCHANGED vars
  BY <1>10, InvStutter
<1>. QED
  BY <1>1, <1>2, <1>3, <1>4, <1>5, <1>6, <1>7, <1>8, <1>9, <1>10 DEF Next, Handle, ListDir

\* What every step relies on holds throughout: what the session is doing and
\* what it has seen fit the line and the disk.
THEOREM InvAlways == Spec => []Inv
BY InvInit, InvStep, PTL DEF Spec

-------------------------------------------------------------------------------
(* How the system walks a path.                                            *)

\* Where a walk starts.
StartOf(path) == [at |-> <<>>, rest |-> path, errno |-> "none"]

\* A walk starts at the root of the disk, and goes on from step to step.
LEMMA WalkGoes ==
  ASSUME NEW path
  PROVE  /\ Walk(path)[0] = StartOf(path)
         /\ \A n \in 1..Lookups : Walk(path)[n] = Step(Walk(path)[n - 1])
<1>. DEFINE start == StartOf(path)
            Goes(g, k) == \A n \in 0..k : g[n] = IF n = 0 THEN start ELSE Step(g[n - 1])
            Wrong == {k \in 0..Lookups : ~ \E g : Goes(g, k)}
            Next_(at) == [n \in 0..Lookups |-> IF n = 0 THEN start
                            ELSE CHOOSE t \in {Step(s) : s \in {at[n - 1]}} : TRUE]
<1>1. Lookups \in Nat
  BY BoundsAssumption
<1>2. ASSUME Wrong # {} PROVE FALSE
  <2>1. PICK k \in Wrong : \A j \in Wrong : k <= j
    <3>1. Wrong \in SUBSET Nat
      BY <1>1
    <3>. HIDE DEF Wrong
    <3>. QED
      BY <1>2, <3>1, Least
  <2>2. k \in Nat /\ k <= Lookups
    BY <1>1
  <2>3. k # 0
    <3>1. Goes([n \in 0..0 |-> start], 0)
      OBVIOUS
    <3>. HIDE DEF Goes
    <3>. QED
      BY <3>1
  <2>4. k - 1 \in 0..Lookups /\ k - 1 \notin Wrong
    <3>. HIDE DEF Wrong
    <3>. QED
      BY <1>1, <2>1, <2>2, <2>3
  <2>5. PICK g : Goes(g, k - 1)
    BY <2>4
  <2>. DEFINE h == [n \in 0..k |-> IF n = k THEN Step(g[k - 1]) ELSE g[n]]
  <2>6. ASSUME NEW n \in 0..k PROVE h[n] = IF n = 0 THEN start ELSE Step(h[n - 1])
    <3>1. CASE n = k
      <4>1. k - 1 \in 0..k /\ k - 1 # k
        BY <2>2, <2>3
      <4>2. h[k - 1] = g[k - 1] /\ h[k] = Step(g[k - 1])
        BY <2>2, <4>1
      <4>. HIDE DEF h
      <4>. QED
        BY <2>3, <3>1, <4>2
    <3>2. CASE n # k
      <4>1. n \in 0..(k - 1) /\ (n # 0 => n - 1 \in 0..k /\ n - 1 # k)
        BY <2>2, <3>2
      <4>2. h[n] = g[n] /\ (n # 0 => h[n - 1] = g[n - 1])
        BY <3>2, <4>1
      <4>3. g[n] = IF n = 0 THEN start ELSE Step(g[n - 1])
        BY <2>5, <4>1
      <4>. HIDE DEF h
      <4>. QED
        BY <4>2, <4>3
    <3>. QED
      BY <3>1, <3>2
  <2>7. \E f : Goes(f, k)
    <3>1. Goes(h, k)
      <4>. HIDE DEF h
      <4>. QED
        BY <2>6
    <3>. HIDE DEF Goes, h
    <3>. QED
      BY <3>1
  <2>. QED
    BY <2>7
<1>3. PICK g : Goes(g, Lookups)
  <2>1. Lookups \in 0..Lookups
    BY <1>1
  <2>. HIDE DEF Goes
  <2>. QED
    BY <1>2, <2>1
<1>4. \A x : (CHOOSE t \in {Step(s) : s \in {x}} : TRUE) = Step(x)
  OBVIOUS
<1>. DEFINE goal == [n \in 0..Lookups |-> g[n]]
<1>5. goal = Next_(goal)
  <2>1. ASSUME NEW n \in 0..Lookups PROVE goal[n] = Next_(goal)[n]
    <3>1. n # 0 => n - 1 \in 0..Lookups
      BY <1>1
    <3>2. goal[n] = g[n] /\ (n # 0 => goal[n - 1] = g[n - 1])
      BY <3>1
    <3>3. g[n] = IF n = 0 THEN start ELSE Step(g[n - 1])
      BY <1>3
    <3>4. Next_(goal)[n] = IF n = 0 THEN start
                           ELSE CHOOSE t \in {Step(s) : s \in {goal[n - 1]}} : TRUE
      OBVIOUS
    <3>. HIDE DEF goal, Next_, start
    <3>. QED
      BY <1>4, <3>2, <3>3, <3>4
  <2>. QED
    BY <2>1
<1>6. Walk(path) = CHOOSE at : at = Next_(at)
  BY DEF Walk, StartOf
<1>7. (CHOOSE at : at = Next_(at)) = Next_(CHOOSE at : at = Next_(at))
  <2>. HIDE DEF Next_, goal
  <2>. QED
    BY <1>5, Zenon
<1>8. PICK at : at = Walk(path) /\ at = Next_(at)
  <2>. HIDE DEF Next_
  <2>. QED
    BY <1>6, <1>7
<1>9. at[0] = start
  <2>1. Next_(at)[0] = start
    BY <1>1
  <2>. HIDE DEF Next_, start
  <2>. QED
    BY <1>8, <2>1
<1>10. ASSUME NEW n \in 1..Lookups PROVE at[n] = Step(at[n - 1])
  <2>1. Next_(at)[n] = CHOOSE t \in {Step(s) : s \in {at[n - 1]}} : TRUE
    BY <1>1
  <2>. HIDE DEF Next_
  <2>. QED
    BY <1>4, <1>8, <2>1
<1>. QED
  BY <1>8, <1>9, <1>10

\* Where a walk can be.
Errnos == {"none", "EACCES", "ENOTDIR", "ENOENT"}
States == [at : Seq(Symbols), rest : Seq(Symbols), errno : Errnos]

\* A sequence that is not empty, and another behind it.
LEMMA HeadOfJoint ==
  ASSUME NEW T, NEW s \in Seq(T), s # <<>>
  PROVE  /\ Head(s) \in T /\ Tail(s) \in Seq(T)
         /\ \A t \in Seq(T) : /\ s \o t # <<>> /\ Head(s \o t) = Head(s)
                              /\ Tail(s \o t) = Tail(s) \o t
<1>1. Len(s) \in Nat /\ Len(s) > 0 /\ Head(s) \in T /\ Tail(s) \in Seq(T)
  OBVIOUS
<1>2. ASSUME NEW t \in Seq(T)
      PROVE  s \o t # <<>> /\ Head(s \o t) = Head(s) /\ Tail(s \o t) = Tail(s) \o t
  <2>1. /\ s \o t \in Seq(T) /\ Len(s \o t) = Len(s) + Len(t) /\ Len(t) \in Nat
        /\ (s \o t)[1] = s[1]
    BY <1>1
  <2>2. s \o t # <<>> /\ Head(s \o t) = Head(s)
    BY <1>1, <2>1
  <2>3. /\ Len(Tail(s \o t)) = Len(Tail(s) \o t)
        /\ \A i \in 1..Len(Tail(s) \o t) : Tail(s \o t)[i] = (Tail(s) \o t)[i]
    BY <1>1, <2>1, <2>2
  <2>4. Tail(s \o t) \in Seq(T) /\ Tail(s) \o t \in Seq(T)
    BY <1>1, <2>1, <2>2
  <2>. QED
    BY <2>2, <2>3, <2>4
<1>. QED
  BY <1>1, <1>2

\* A name leads to a place.
LEMMA IntoType ==
  ASSUME NEW at \in Seq(Symbols), NEW name \in Symbols
  PROVE  Into(at, name) \in Seq(Symbols)
<1>1. at # <<>> => Seqs!Front(at) \in Seq(Symbols)
  BY DEF Seqs!Front
<1>2. Append(at, name) \in Seq(Symbols)
  OBVIOUS
<1>. QED
  BY <1>1, <1>2 DEF Into

\* A link has a target.
LEMMA TargetType ==
  ASSUME NEW p, KindAt(p) = "link"
  PROVE  p \in Places /\ Target[p] \in Seq(Symbols)
BY SymbolsType DEF KindAt

\* What a step makes of a walk that is not at its end.
LEMMA StepIs ==
  ASSUME NEW s \in States, s.rest # <<>>, s.errno = "none",
         NEW errno, errno = Refusal(s.at, Head(s.rest)),
         NEW next, next = Into(s.at, Head(s.rest))
  PROVE  /\ errno \in Errnos
         /\ errno # "none" => Step(s) = [at |-> s.at, rest |-> s.rest, errno |-> errno]
         /\ errno = "none" /\ KindAt(next) = "link" =>
              Step(s) = [at |-> s.at, rest |-> Target[next] \o Tail(s.rest), errno |-> "none"]
         /\ errno = "none" /\ KindAt(next) # "link" =>
              Step(s) = [at |-> next, rest |-> Tail(s.rest), errno |-> "none"]
<1>1. errno \in Errnos
  BY DEF Refusal, Errnos
<1>2. errno # "none" => Step(s) = [at |-> s.at, rest |-> s.rest, errno |-> errno]
  <2>1. [s EXCEPT !.errno = errno] = [at |-> s.at, rest |-> s.rest, errno |-> errno]
    BY DEF States
  <2>. QED
    BY <2>1 DEF Step
<1>. QED
  BY <1>1, <1>2 DEF Step

\* A walk that is at its end stays there.
LEMMA StepStays ==
  ASSUME NEW s, s.rest = <<>> \/ s.errno # "none"
  PROVE  Step(s) = s
BY DEF Step

\* A step leads from a place to a place.
LEMMA StepType ==
  ASSUME NEW s \in States
  PROVE  Step(s) \in States
<1>1. CASE s.rest = <<>> \/ s.errno # "none"
  BY <1>1, StepStays
<1>2. CASE s.rest # <<>> /\ s.errno = "none"
  <2>1. s.at \in Seq(Symbols) /\ s.rest \in Seq(Symbols)
    BY DEF States
  <2>2. Head(s.rest) \in Symbols /\ Tail(s.rest) \in Seq(Symbols)
    BY <1>2, <2>1, HeadOfJoint
  <2>3. PICK next, errno : /\ next = Into(s.at, Head(s.rest))
                           /\ errno = Refusal(s.at, Head(s.rest))
    OBVIOUS
  <2>4. next \in Seq(Symbols)
    BY <2>1, <2>2, <2>3, IntoType
  <2>5. KindAt(next) = "link" => Target[next] \o Tail(s.rest) \in Seq(Symbols)
    BY <2>2, TargetType
  <2>6. /\ errno \in Errnos
        /\ errno # "none" => Step(s) = [at |-> s.at, rest |-> s.rest, errno |-> errno]
        /\ errno = "none" /\ KindAt(next) = "link" =>
             Step(s) = [at |-> s.at, rest |-> Target[next] \o Tail(s.rest), errno |-> "none"]
        /\ errno = "none" /\ KindAt(next) # "link" =>
             Step(s) = [at |-> next, rest |-> Tail(s.rest), errno |-> "none"]
    BY <1>2, <2>3, StepIs
  <2>7. "none" \in Errnos
    BY DEF Errnos
  <2>. DEFINE more == Tail(s.rest)
              there == Target[next] \o Tail(s.rest)
  <2>8. CASE errno # "none"
    <3>1. [at |-> s.at, rest |-> s.rest, errno |-> errno] \in States
      BY <2>1, <2>6 DEF States
    <3>. QED
      BY <2>6, <2>8, <3>1
  <2>9. CASE errno = "none" /\ KindAt(next) = "link"
    <3>1. there \in Seq(Symbols)
      BY <2>5, <2>9
    <3>. HIDE DEF there
    <3>2. [at |-> s.at, rest |-> there, errno |-> "none"] \in States
      BY <2>1, <2>7, <3>1 DEF States
    <3>3. Step(s) = [at |-> s.at, rest |-> there, errno |-> "none"]
      BY <2>6, <2>9 DEF there
    <3>. QED
      BY <3>2, <3>3
  <2>10. CASE errno = "none" /\ KindAt(next) # "link"
    <3>1. more \in Seq(Symbols)
      BY <2>2
    <3>. HIDE DEF more
    <3>2. [at |-> next, rest |-> more, errno |-> "none"] \in States
      BY <2>4, <2>7, <3>1 DEF States
    <3>3. Step(s) = [at |-> next, rest |-> more, errno |-> "none"]
      BY <2>6, <2>10 DEF more
    <3>. QED
      BY <3>2, <3>3
  <2>. QED
    BY <2>8, <2>9, <2>10
<1>. QED
  BY <1>1, <1>2

\* A walk is at a place after every step.
LEMMA WalkType ==
  ASSUME NEW path \in Seq(Symbols), NEW n \in 0..Lookups
  PROVE  Walk(path)[n] \in States
<1>. DEFINE Wrong == {m \in 0..Lookups : Walk(path)[m] \notin States}
<1>1. Lookups \in Nat
  BY BoundsAssumption
<1>2. ASSUME Wrong # {} PROVE FALSE
  <2>1. PICK m \in Wrong : \A j \in Wrong : m <= j
    <3>1. Wrong \in SUBSET Nat
      BY <1>1
    <3>. HIDE DEF Wrong
    <3>. QED
      BY <1>2, <3>1, Least
  <2>2. m \in 0..Lookups /\ Walk(path)[m] \notin States
    OBVIOUS
  <2>3. StartOf(path) \in States
    <3>1. <<>> \in Seq(Symbols)
      OBVIOUS
    <3>. QED
      BY <3>1 DEF StartOf, States, Errnos
  <2>4. m # 0
    BY <2>2, <2>3, WalkGoes
  <2>5. m \in 1..Lookups /\ m - 1 \in 0..Lookups /\ m - 1 \notin Wrong
    <3>. HIDE DEF Wrong
    <3>. QED
      BY <1>1, <2>1, <2>2, <2>4
  <2>6. Walk(path)[m - 1] \in States
    BY <2>5
  <2>. QED
    BY <2>2, <2>5, <2>6, StepType, WalkGoes
<1>. QED
  BY <1>2

\* A look fails for one of the reasons there are.
LEMMA WhatErrno ==
  ASSUME NEW path \in Seq(Symbols), Errno(path) \notin {"none", "ENOENT", "ENOTDIR"}
  PROVE  Errno(path) \in {"EACCES", "ELOOP"}
<1>1. Lookups \in 0..Lookups
  BY BoundsAssumption
<1>2. Look(path) \in States
  BY <1>1, WalkType DEF Look
<1>3. Look(path).errno \in Errnos
  BY <1>2 DEF States
<1>. QED
  BY <1>3 DEF Errno, Errnos

\* A walk that came to its end is there after the last step.
LEMMA WalkStays ==
  ASSUME NEW path, NEW n \in 0..Lookups,
         Walk(path)[n].rest = <<>> \/ Walk(path)[n].errno # "none"
  PROVE  Look(path) = Walk(path)[n]
<1>. DEFINE Wrong == {m \in n..Lookups : Walk(path)[m] # Walk(path)[n]}
<1>1. Lookups \in Nat
  BY BoundsAssumption
<1>2. ASSUME Wrong # {} PROVE FALSE
  <2>1. PICK m \in Wrong : \A j \in Wrong : m <= j
    <3>1. Wrong \in SUBSET Nat
      BY <1>1
    <3>. HIDE DEF Wrong
    <3>. QED
      BY <1>2, <3>1, Least
  <2>2. m \in n..Lookups /\ Walk(path)[m] # Walk(path)[n]
    OBVIOUS
  <2>3. m # n
    BY <2>2
  <2>4. m \in 1..Lookups /\ m - 1 \in n..Lookups /\ m - 1 \notin Wrong
    <3>. HIDE DEF Wrong
    <3>. QED
      BY <1>1, <2>1, <2>2, <2>3
  <2>5. Walk(path)[m - 1] = Walk(path)[n]
    BY <2>4
  <2>6. Walk(path)[m] = Step(Walk(path)[m - 1])
    BY <2>4, WalkGoes
  <2>7. Step(Walk(path)[n]) = Walk(path)[n]
    BY StepStays
  <2>. QED
    BY <2>2, <2>5, <2>6, <2>7
<1>3. Lookups \in n..Lookups
  BY <1>1
<1>. QED
  BY <1>2, <1>3 DEF Look

\* Names that lead down only.
IsPlain(names) == \A i \in DOMAIN names : names[i] \notin {Slash, Dot, DotDot}

\* Two walks are at the same step of the same path, which is longer for t.
Along(s, t, q) == t.at = s.at /\ t.rest = s.rest \o q /\ t.errno = s.errno

\* Three sequences in a row.
LEMMA Regroup ==
  ASSUME NEW T, NEW a \in Seq(T), NEW b \in Seq(T), NEW c \in Seq(T)
  PROVE  a \o (b \o c) = (a \o b) \o c
<1>. DEFINE l == a \o (b \o c)
            r == (a \o b) \o c
<1>1. l \in Seq(T) /\ r \in Seq(T)
  OBVIOUS
<1>2. Len(a) \in Nat /\ Len(b) \in Nat /\ Len(c) \in Nat
  OBVIOUS
<1>3. Len(l) = Len(a) + Len(b) + Len(c) /\ Len(r) = Len(a) + Len(b) + Len(c)
  BY <1>2
<1>4. ASSUME NEW i \in 1..(Len(a) + Len(b) + Len(c)) PROVE l[i] = r[i]
  <2>1. CASE i <= Len(a)
    BY <1>2, <2>1
  <2>2. CASE i > Len(a) /\ i <= Len(a) + Len(b)
    BY <1>2, <2>2
  <2>3. CASE i > Len(a) + Len(b)
    BY <1>2, <2>3
  <2>. QED
    BY <1>2, <2>1, <2>2, <2>3
<1>. HIDE DEF l, r
<1>5. l = r
  BY <1>1, <1>3, <1>4
<1>. QED
  BY <1>5 DEF l, r

\* They go on as one, as long as s is not at its end.
LEMMA StepAlong ==
  ASSUME NEW s \in States, NEW t \in States, NEW q \in Seq(Symbols), Along(s, t, q),
         s.rest # <<>> \/ s.errno # "none"
  PROVE  Along(Step(s), Step(t), q)
<1>1. CASE s.errno # "none"
  BY <1>1, StepStays DEF Along
<1>2. CASE s.rest # <<>> /\ s.errno = "none"
  <2>1. s.at \in Seq(Symbols) /\ s.rest \in Seq(Symbols)
    BY DEF States
  <2>2. /\ Tail(s.rest) \in Seq(Symbols)
        /\ t.rest # <<>> /\ Head(t.rest) = Head(s.rest) /\ Tail(t.rest) = Tail(s.rest) \o q
    <3>1. PICK rest \in Seq(Symbols) : rest = s.rest /\ rest # <<>>
      BY <1>2, <2>1
    <3>2. t.rest = rest \o q
      BY <3>1 DEF Along
    <3>3. /\ Tail(rest) \in Seq(Symbols) /\ rest \o q # <<>>
          /\ Head(rest \o q) = Head(rest) /\ Tail(rest \o q) = Tail(rest) \o q
      <4>1. rest \in Seq(Symbols) /\ rest # <<>> /\ q \in Seq(Symbols)
        BY <3>1
      <4>. QED
        BY ONLY <4>1, HeadOfJoint
    <3>. QED
      BY <3>1, <3>2, <3>3
  <2>3. PICK next, errno : /\ next = Into(s.at, Head(s.rest))
                           /\ errno = Refusal(s.at, Head(s.rest))
    OBVIOUS
  <2>4. next = Into(t.at, Head(t.rest)) /\ errno = Refusal(t.at, Head(t.rest)) /\ t.errno = "none"
    BY <1>2, <2>2, <2>3 DEF Along
  <2>5. /\ errno # "none" => Step(s) = [at |-> s.at, rest |-> s.rest, errno |-> errno]
        /\ errno = "none" /\ KindAt(next) = "link" =>
             Step(s) = [at |-> s.at, rest |-> Target[next] \o Tail(s.rest), errno |-> "none"]
        /\ errno = "none" /\ KindAt(next) # "link" =>
             Step(s) = [at |-> next, rest |-> Tail(s.rest), errno |-> "none"]
    BY <1>2, <2>3, StepIs
  <2>6. /\ errno # "none" => Step(t) = [at |-> t.at, rest |-> t.rest, errno |-> errno]
        /\ errno = "none" /\ KindAt(next) = "link" =>
             Step(t) = [at |-> t.at, rest |-> Target[next] \o Tail(t.rest), errno |-> "none"]
        /\ errno = "none" /\ KindAt(next) # "link" =>
             Step(t) = [at |-> next, rest |-> Tail(t.rest), errno |-> "none"]
    BY <2>2, <2>4, StepIs
  <2>7. KindAt(next) = "link" =>
          Target[next] \o (Tail(s.rest) \o q) = (Target[next] \o Tail(s.rest)) \o q
    <3>. SUFFICES ASSUME KindAt(next) = "link"
                  PROVE  Target[next] \o (Tail(s.rest) \o q) = (Target[next] \o Tail(s.rest)) \o q
      OBVIOUS
    <3>1. PICK target, more : /\ target = Target[next] /\ target \in Seq(Symbols)
                              /\ more = Tail(s.rest) /\ more \in Seq(Symbols)
      BY <2>2, TargetType
    <3>2. target \o (more \o q) = (target \o more) \o q
      <4>1. target \in Seq(Symbols) /\ more \in Seq(Symbols) /\ q \in Seq(Symbols)
        BY <3>1
      <4>. QED
        BY ONLY <4>1, Regroup
    <3>. QED
      BY <3>1, <3>2
  <2>8. t.at = s.at /\ t.rest = s.rest \o q
    BY DEF Along
  <2>. DEFINE more == Tail(s.rest)
              there == Target[next] \o Tail(s.rest)
  <2>9. CASE errno # "none"
    <3>1. /\ Step(s) = [at |-> s.at, rest |-> s.rest, errno |-> errno]
          /\ Step(t) = [at |-> t.at, rest |-> t.rest, errno |-> errno]
      BY <2>5, <2>6, <2>9
    <3>. QED
      BY <2>8, <3>1 DEF Along
  <2>10. CASE errno = "none" /\ KindAt(next) = "link"
    <3>1. Target[next] \o Tail(t.rest) = there \o q
      BY <2>2, <2>7, <2>10
    <3>2. Step(t) = [at |-> t.at, rest |-> there \o q, errno |-> "none"]
      BY <2>6, <2>10, <3>1
    <3>3. Step(s) = [at |-> s.at, rest |-> there, errno |-> "none"]
      BY <2>5, <2>10
    <3>. HIDE DEF there
    <3>. QED
      BY <2>8, <3>2, <3>3 DEF Along
  <2>11. CASE errno = "none" /\ KindAt(next) # "link"
    <3>1. Step(t) = [at |-> next, rest |-> more \o q, errno |-> "none"]
      BY <2>2, <2>6, <2>11
    <3>2. Step(s) = [at |-> next, rest |-> more, errno |-> "none"]
      BY <2>5, <2>11
    <3>. HIDE DEF more
    <3>. QED
      BY <3>1, <3>2 DEF Along
  <2>. QED
    BY <2>9, <2>10, <2>11
<1>. QED
  BY <1>1, <1>2

\* Plain names lead from w to a place below w, if no link is there.
LEMMA StepBelow ==
  ASSUME NEW w \in Seq(Symbols), NEW t \in States, Seqs!IsPrefix(w, t.at), IsPlain(t.rest),
         \A p \in Places : KindAt(p) = "link" => ~ Seqs!IsPrefix(w, p)
  PROVE  Seqs!IsPrefix(w, Step(t).at) /\ IsPlain(Step(t).rest)
<1>1. CASE t.rest = <<>> \/ t.errno # "none"
  BY <1>1, StepStays
<1>2. CASE t.rest # <<>> /\ t.errno = "none"
  <2>1. t.at \in Seq(Symbols) /\ t.rest \in Seq(Symbols)
    BY DEF States
  <2>2. PICK name, next, errno : /\ name = Head(t.rest) /\ next = Into(t.at, name)
                                 /\ errno = Refusal(t.at, name)
    OBVIOUS
  <2>3. name \in Symbols /\ name \notin {Slash, Dot, DotDot} /\ IsPlain(Tail(t.rest))
    <3>1. Len(t.rest) \in Nat /\ Len(t.rest) > 0 /\ name = t.rest[1] /\ 1 \in DOMAIN t.rest
      BY <1>2, <2>1, <2>2
    <3>2. \A i \in DOMAIN Tail(t.rest) : i + 1 \in DOMAIN t.rest /\ Tail(t.rest)[i] = t.rest[i + 1]
      BY <1>2, <2>1
    <3>3. name \in Symbols
      BY <2>1, <3>1
    <3>. QED
      BY <3>1, <3>2, <3>3 DEF IsPlain
  <2>4. next = Append(t.at, name)
    BY <2>2, <2>3 DEF Into
  <2>5. Seqs!IsPrefix(w, next)
    <3>1. PICK at \in Seq(Symbols) : at = t.at
      BY <2>1
    <3>2. /\ Len(w) \in Nat /\ Len(at) \in Nat /\ Len(w) <= Len(at)
          /\ SubSeq(w, 1, Len(w)) = SubSeq(at, 1, Len(w))
      BY <3>1 DEF Seqs!IsPrefix
    <3>3. /\ Len(Append(at, name)) = Len(at) + 1
          /\ SubSeq(Append(at, name), 1, Len(w)) = SubSeq(at, 1, Len(w))
      BY <2>3, <3>1, <3>2
    <3>. QED
      BY <2>4, <3>1, <3>2, <3>3 DEF Seqs!IsPrefix
  <2>6. KindAt(next) # "link"
    BY <2>5, TargetType
  <2>7. /\ errno # "none" => Step(t) = [at |-> t.at, rest |-> t.rest, errno |-> errno]
        /\ errno = "none" => Step(t) = [at |-> next, rest |-> Tail(t.rest), errno |-> "none"]
    BY <1>2, <2>2, <2>6, StepIs
  <2>8. CASE errno # "none"
    <3>1. Step(t).at = t.at /\ Step(t).rest = t.rest
      BY <2>7, <2>8
    <3>. QED
      BY <3>1
  <2>9. CASE errno = "none"
    <3>1. Step(t).at = next /\ Step(t).rest = Tail(t.rest)
      BY <2>7, <2>9
    <3>. QED
      BY <2>3, <2>5, <3>1
  <2>. QED
    BY <2>8, <2>9
<1>. QED
  BY <1>1, <1>2

\* A path with plain names at its end leads below where it leads without them.
LEMMA LeadsBelow ==
  ASSUME NEW p \in Seq(Symbols), NEW q \in Seq(Symbols), IsPlain(q),
         \A link \in Places : KindAt(link) = "link" => ~ Seqs!IsPrefix(Where(p), link)
  PROVE  Seqs!IsPrefix(Where(p), Where(p \o q))
<1>. DEFINE a == Walk(p)
            b == Walk(p \o q)
            Below(n) == Seqs!IsPrefix(Where(p), b[n].at) /\ IsPlain(b[n].rest)
            Wrong == {n \in 0..Lookups : ~ (Along(a[n], b[n], q) \/ Below(n))}
<1>1. Lookups \in Nat /\ p \o q \in Seq(Symbols)
  BY BoundsAssumption
<1>2. \A n \in 0..Lookups : a[n] \in States /\ b[n] \in States
  BY <1>1, WalkType
<1>3. Where(p) = a[Lookups].at /\ Where(p \o q) = b[Lookups].at /\ Lookups \in 0..Lookups
  BY <1>1 DEF Where, Look
<1>4. Where(p) \in Seq(Symbols)
  BY <1>2, <1>3 DEF States
<1>5. \A w \in Seq(Symbols) : Seqs!IsPrefix(w, w)
  BY DEF Seqs!IsPrefix
<1>6. ASSUME NEW n \in 0..Lookups, Along(a[n], b[n], q), a[n].rest = <<>>, a[n].errno = "none"
      PROVE  Below(n)
  <2>1. a[n] = Look(p)
    BY <1>6, WalkStays
  <2>2. b[n].at = Where(p)
    BY <1>6, <2>1 DEF Along, Where
  <2>3. b[n].rest = q
    BY <1>6 DEF Along
  <2>. QED
    BY <1>4, <1>5, <2>2, <2>3
<1>7. ASSUME Wrong # {} PROVE FALSE
  <2>1. PICK n \in Wrong : \A j \in Wrong : n <= j
    <3>1. Wrong \in SUBSET Nat
      BY <1>1
    <3>. HIDE DEF Wrong
    <3>. QED
      BY <1>7, <3>1, Least
  <2>2. n \in 0..Lookups /\ ~ (Along(a[n], b[n], q) \/ Below(n))
    OBVIOUS
  <2>3. n # 0
    <3>1. a[0] = StartOf(p) /\ b[0] = StartOf(p \o q)
      BY WalkGoes
    <3>2. Along(StartOf(p), StartOf(p \o q), q)
      BY DEF Along, StartOf
    <3>. HIDE DEF a, b, Below
    <3>. QED
      BY <2>2, <3>1, <3>2
  <2>4. n \in 1..Lookups /\ n - 1 \in 0..Lookups /\ n - 1 \notin Wrong
    <3>. HIDE DEF Wrong
    <3>. QED
      BY <1>1, <2>1, <2>2, <2>3
  <2>5. PICK m \in 0..Lookups : m = n - 1 /\ (Along(a[m], b[m], q) \/ Below(m))
    BY <2>4
  <2>6. a[n] = Step(a[m]) /\ b[n] = Step(b[m])
    BY <2>4, <2>5, WalkGoes
  <2>7. a[m] \in States /\ b[m] \in States
    BY <1>2
  <2>. HIDE DEF Wrong
  <2>8. CASE Along(a[m], b[m], q) /\ (a[m].rest # <<>> \/ a[m].errno # "none")
    BY <2>2, <2>6, <2>7, <2>8, StepAlong
  <2>9. CASE Below(m)
    BY <1>4, <2>2, <2>6, <2>7, <2>9, StepBelow
  <2>. QED
    BY <1>6, <2>5, <2>8, <2>9
<1>8. Along(a[Lookups], b[Lookups], q) \/ Below(Lookups)
  BY <1>3, <1>7
<1>9. CASE Along(a[Lookups], b[Lookups], q)
  BY <1>3, <1>4, <1>5, <1>9 DEF Along
<1>10. CASE Below(Lookups)
  BY <1>3, <1>10
<1>. QED
  BY <1>8, <1>9, <1>10

-------------------------------------------------------------------------------
(* What is shown comes back.                                               *)

\* A sequence after another.
LEMMA Joint ==
  ASSUME NEW T, NEW a \in Seq(T), NEW b \in Seq(T), NEW c, c = a \o b
  PROVE  /\ c \in Seq(T) /\ Len(c) = Len(a) + Len(b)
         /\ Len(a) \in Nat /\ Len(b) \in Nat
         /\ \A i \in 1..Len(a) : c[i] = a[i]
         /\ \A i \in 1..Len(b) : c[Len(a) + i] = b[i]
<1>1. /\ c \in Seq(T) /\ Len(c) = Len(a) + Len(b)
      /\ Len(a) \in Nat /\ Len(b) \in Nat
      /\ \A i \in 1..Len(a) : c[i] = a[i]
  OBVIOUS
<1>2. ASSUME NEW i \in 1..Len(b) PROVE c[Len(a) + i] = b[i]
  <2>1. PICK k \in 1..(Len(a) + Len(b)) : k = Len(a) + i /\ ~ (k <= Len(a)) /\ k - Len(a) = i
    BY <1>1
  <2>2. c[k] = b[k - Len(a)]
    BY <1>1, <2>1
  <2>. QED
    BY <2>1, <2>2
<1>. QED
  BY <1>1, <1>2

\* An element at the end of a sequence.
LEMMA Longer ==
  ASSUME NEW T, NEW a \in Seq(T), NEW x \in T, NEW c, c = Append(a, x)
  PROVE  /\ c \in Seq(T) /\ Len(a) \in Nat /\ Len(c) = Len(a) + 1
         /\ \A i \in 1..Len(a) : c[i] = a[i]
         /\ c[Len(a) + 1] = x
OBVIOUS

\* An element at the end of the second of two sequences is at the end of both.
LEMMA JointLonger ==
  ASSUME NEW T, NEW a \in Seq(T), NEW b \in Seq(T), NEW x \in T
  PROVE  a \o Append(b, x) = Append(a \o b, x)
OBVIOUS

\* The first of some positions.
LEMMA NthFirst ==
  ASSUME NEW P \in SUBSET Nat, IsFiniteSet(P), NEW i \in P, \A j \in P : i <= j
  PROVE  Nth(P, 1) = i
<1>1. PICK k \in 1..Cardinality(P) : i = Nth(P, k)
  BY NthOrder
<1>2. Cardinality(P) \in Nat /\ 1 \in 1..Cardinality(P)
  BY <1>1, NthOrder
<1>3. Nth(P, 1) \in P
  BY <1>2, NthExists
<1>4. ASSUME 1 < k PROVE FALSE
  <2>1. Nth(P, 1) < Nth(P, k)
    BY <1>2, <1>4, NthOrder
  <2>2. PICK j \in P : j = Nth(P, 1)
    BY <1>3
  <2>. QED
    BY <1>1, <2>1, <2>2
<1>5. k = 1
  BY <1>2, <1>4
<1>. QED
  BY <1>1, <1>5

\* Every other position from n on.
LEMMA NthEven ==
  ASSUME NEW n \in Nat, NEW L \in Nat, NEW Q \in SUBSET Nat,
         \A i \in Q : \E k \in 1..L : i = n + 2 * k,
         \A k \in 1..L : n + 2 * k \in Q
  PROVE  Cardinality(Q) = L /\ \A k \in 1..L : Nth(Q, k) = n + 2 * k
<1>1. PICK I : I = 1..L
  OBVIOUS
<1>2. I \in SUBSET Nat /\ IsFiniteSet(I) /\ Cardinality(I) = L
  BY <1>1, UpToN
<1>3. ASSUME NEW k \in I PROVE Nth(I, k) = k
  <2>1. k \in Nat /\ UpTo(I, k) = 1..k
    BY <1>1 DEF UpTo
  <2>2. Cardinality(UpTo(I, k)) = k
    BY <2>1, UpToN
  <2>3. Nth(I, Cardinality(UpTo(I, k))) = k
    BY <1>2, NthIs
  <2>. QED
    BY <2>2, <2>3
<1>4. PICK g : g = [k \in I |-> n + 2 * k]
  OBVIOUS
<1>5. /\ Q \in SUBSET Nat /\ \A k \in I : g[k] \in Q
      /\ \A i \in Q : \E k \in I : i = g[k]
      /\ \A k, l \in I : k < l => g[k] < g[l]
  BY <1>1, <1>4
<1>6. Cardinality(Q) = Cardinality(I) /\ \A k \in 1..Cardinality(I) : Nth(Q, k) = g[Nth(I, k)]
  BY <1>2, <1>5, NthMaps
<1>. QED
  BY <1>1, <1>2, <1>3, <1>4, <1>6

\* A selector s that names a node and then, behind a separator each, the names
\* of a path.
Shape(s, node, all) ==
  /\ Len(s) = Len(node) + 2 * Len(all)
  /\ \A i \in 1..Len(node) : s[i] = node[i] /\ s[i] # Slash
  /\ \A k \in 1..Len(all) : /\ s[Len(node) + 2 * k - 1] = Slash
                          /\ s[Len(node) + 2 * k] # Slash
                          /\ s[Len(node) + 2 * k] = all[k]
  /\ \A i \in (Len(node) + 1)..Len(s) :
       \E k \in 1..Len(all) : i = Len(node) + 2 * k - 1 \/ i = Len(node) + 2 * k

\* The selector a listing shows for the entry x of the place that path leads to.
Listed(node, path, x) == Append(node \o Joined(path) \o <<Slash>>, x)

\* It has that shape.
LEMMA ShownSelector ==
  ASSUME NEW T, Slash \in T, NEW node \in Seq(T), node # <<>>, Occurrences(node, Slash) = {},
         NEW path \in Seq(T), \A i \in DOMAIN path : path[i] # Slash,
         NEW x \in T, x # Slash,
         NEW s, s = Listed(node, path, x), NEW all, all = Append(path, x)
  PROVE  s \in Seq(T) /\ all \in Seq(T) /\ all # <<>> /\ Shape(s, node, all)
<1>. DEFINE n == Len(node)
            m == Len(path)
<1>1. n \in Nat /\ n > 0 /\ m \in Nat
  OBVIOUS
<1>2. PICK M \in Nat : M = 2 * m
  BY <1>1
<1>3. PICK j, a, z, b : /\ j = Joined(path) /\ a = node \o j /\ z = <<Slash>> /\ b = a \o z
                        /\ s = Append(b, x)
  BY DEF Listed
<1>4. /\ j \in Seq(T) /\ Len(j) = M
      /\ \A k \in 1..m : j[2 * k - 1] = Slash /\ j[2 * k] = path[k]
  <2>1. j = [i \in 1..M |-> IF i % 2 = 1 THEN Slash ELSE path[i \div 2]]
    BY <1>2, <1>3 DEF Joined
  <2>2. ASSUME NEW i \in 1..M PROVE i % 2 = 1 \/ i \div 2 \in 1..m
    BY <1>1, <1>2
  <2>3. \A i \in 1..M : j[i] \in T
    BY <2>1, <2>2
  <2>4. \A k \in 1..m : /\ 2 * k - 1 \in 1..M /\ (2 * k - 1) % 2 = 1
                         /\ 2 * k \in 1..M /\ (2 * k) % 2 = 0 /\ (2 * k) \div 2 = k
    BY <1>1, <1>2
  <2>5. j \in [1..M -> T]
    BY <2>1, <2>3
  <2>6. j \in Seq(T) /\ Len(j) = M
    BY <2>5
  <2>. QED
    BY <2>1, <2>4, <2>6
<1>6. /\ s \in Seq(T) /\ Len(s) = n + M + 2
      /\ \A i \in 1..n : s[i] = node[i]
      /\ \A i \in 1..M : s[n + i] = j[i]
      /\ s[n + M + 1] = Slash /\ s[n + M + 2] = x
  <2>1. /\ a \in Seq(T) /\ Len(a) = n + M
        /\ \A i \in 1..n : a[i] = node[i]
        /\ \A i \in 1..M : a[n + i] = j[i]
    <3>1. /\ a \in Seq(T) /\ Len(a) = Len(node) + Len(j)
          /\ \A i \in 1..Len(node) : a[i] = node[i]
          /\ \A i \in 1..Len(j) : a[Len(node) + i] = j[i]
      <4>1. j \in Seq(T)
        BY <1>4
      <4>. QED
        BY <1>3, <4>1, Joint
    <3>. QED
      BY <1>4, <3>1
  <2>2. z \in Seq(T) /\ Len(z) = 1 /\ z[1] = Slash
    BY <1>3
  <2>4. /\ b \in Seq(T) /\ Len(b) = n + M + 1
        /\ \A i \in 1..(n + M) : b[i] = a[i]
        /\ b[n + M + 1] = Slash
    <3>1. /\ b \in Seq(T) /\ Len(b) = Len(a) + Len(z)
          /\ \A i \in 1..Len(a) : b[i] = a[i]
          /\ \A i \in 1..Len(z) : b[Len(a) + i] = z[i]
      <4>1. a \in Seq(T) /\ z \in Seq(T)
        BY <2>1, <2>2
      <4>. QED
        BY <1>3, <4>1, Joint
    <3>2. 1 \in 1..Len(z) /\ Len(a) = n + M
      BY <2>1, <2>2
    <3>. QED
      BY <1>1, <2>1, <2>2, <3>1, <3>2
  <2>7. PICK N \in Nat : N = n + M
    BY <1>1
  <2>8. /\ s \in Seq(T) /\ Len(s) = N + 2
        /\ \A i \in 1..(N + 1) : s[i] = b[i]
        /\ s[N + 2] = x
    <3>1. /\ s \in Seq(T) /\ Len(s) = Len(b) + 1
          /\ \A i \in 1..Len(b) : s[i] = b[i]
          /\ s[Len(b) + 1] = x
      BY <1>3, <2>4, Longer
    <3>2. Len(b) = N + 1 /\ (N + 1) + 1 = N + 2
      BY <2>4, <2>7
    <3>. QED
      BY <3>1, <3>2
  <2>9. \A i \in 1..N : i \in 1..(N + 1) /\ s[i] = a[i]
    BY <2>4, <2>7, <2>8
  <2>10. N + 1 \in 1..(N + 1) /\ s[N + 1] = Slash
    <3>1. b[N + 1] = Slash
      BY <2>4, <2>7
    <3>2. N + 1 \in 1..(N + 1)
      BY <2>7
    <3>. QED
      BY <2>8, <3>1, <3>2
  <2>11. \A i \in 1..n : i \in 1..N
    BY <1>1, <2>7
  <2>12. \A i \in 1..M : n + i \in 1..N
    BY <1>1, <2>7
  <2>. QED
    BY <2>1, <2>7, <2>8, <2>9, <2>10, <2>11, <2>12
<1>7. \A i \in 1..n : s[i] # Slash
  BY <1>6 DEF Occurrences
<1>8. ASSUME NEW k \in 1..(m + 1)
      PROVE  /\ s[n + 2 * k - 1] = Slash /\ s[n + 2 * k] # Slash
             /\ s[n + 2 * k] = all[k]
  <2>1. CASE k = m + 1
    BY <1>1, <1>2, <1>6, <2>1
  <2>2. CASE k # m + 1
    <3>1. k \in 1..m /\ 2 * k - 1 \in 1..M /\ 2 * k \in 1..M
      <4>1. k \in 1..m
        BY <1>1, <2>2
      <4>2. PICK l \in Nat : l = m
        BY <1>1
      <4>3. \A i \in 1..l : 2 * i - 1 \in 1..(2 * l) /\ 2 * i \in 1..(2 * l)
        OBVIOUS
      <4>. QED
        BY <1>2, <4>1, <4>2, <4>3
    <3>2. s[n + (2 * k - 1)] = j[2 * k - 1] /\ s[n + 2 * k] = j[2 * k]
      BY <1>6, <3>1
    <3>3. n + (2 * k - 1) = n + 2 * k - 1
      BY <1>1
    <3>4. all[k] = path[k] /\ path[k] # Slash
      BY <1>1, <3>1
    <3>. QED
      BY <1>4, <3>1, <3>2, <3>3, <3>4
  <2>. QED
    BY <2>1, <2>2
<1>9. ASSUME NEW i \in (n + 1)..Len(s)
      PROVE  \E k \in 1..(m + 1) : i = n + 2 * k - 1 \/ i = n + 2 * k
  <2>1. PICK c \in 1..(2 * m + 2) : i = n + c
    <3>1. Len(s) = n + 2 * m + 2
      BY <1>1, <1>2, <1>6
    <3>2. i - n \in 1..(2 * m + 2) /\ i = n + (i - n)
      BY <1>1, <3>1
    <3>. QED
      BY <3>2
  <2>2. PICK k \in Int : k = (c + 1) \div 2 /\ (c = 2 * k - 1 \/ c = 2 * k)
    BY <1>1, <2>1
  <2>3. k \in 1..(m + 1)
    BY <1>1, <2>1, <2>2
  <2>4. i = n + 2 * k - 1 \/ i = n + 2 * k
    BY <1>1, <2>1, <2>2, <2>3
  <2>. QED
    BY <2>3, <2>4
<1>10. all \in Seq(T) /\ Len(all) = m + 1 /\ all # <<>>
  BY <1>1, Longer
<1>11. Len(s) = n + 2 * (m + 1)
  BY <1>1, <1>2, <1>6
<1>12. Shape(s, node, all)
  BY <1>6, <1>7, <1>8, <1>9, <1>10, <1>11 DEF Shape
<1>. QED
  BY <1>6, <1>10, <1>12

\* Such a selector is read as what it was made from: first the selector of the
\* node, then every other symbol is a name.
LEMMA ShapeIsRead ==
  ASSUME NEW T, NEW s \in Seq(T), NEW node \in Seq(T), NEW all \in Seq(T),
         node # <<>>, all # <<>>, Shape(s, node, all)
  PROVE  /\ SelectorOf(s) = node
         /\ \A i \in NamesAfter(s) : s[i - 1] = Slash
         /\ Those(s, NamesAfter(s)) = all
<1>1. PICK n \in Nat, L \in Nat : n = Len(node) /\ L = Len(all) /\ n > 0 /\ L > 0
  OBVIOUS
<1>2. /\ Len(s) = n + 2 * L
      /\ \A i \in 1..n : s[i] = node[i] /\ s[i] # Slash
      /\ \A k \in 1..L : /\ s[n + 2 * k - 1] = Slash
                        /\ s[n + 2 * k] # Slash
                        /\ s[n + 2 * k] = all[k]
      /\ \A i \in (n + 1)..Len(s) : \E k \in 1..L : i = n + 2 * k - 1 \/ i = n + 2 * k
  BY <1>1 DEF Shape
<1>. USE <1>1, <1>2
<1>5. DOMAIN s = 1..(n + 2 * L)
  OBVIOUS
<1>6. PICK P : P = Occurrences(s, Slash)
  OBVIOUS
<1>7. P \in SUBSET Nat /\ IsFiniteSet(P)
  BY <1>6, OccurrencesType
<1>8. \A i : i \in P <=> i \in 1..(n + 2 * L) /\ s[i] = Slash
  BY <1>5, <1>6 DEF Occurrences
<1>9. n + 1 \in P /\ \A i \in P : n + 1 <= i
  <2>1. 1 \in 1..L /\ n + 2 * 1 - 1 = n + 1 /\ n + 1 \in 1..(n + 2 * L)
    OBVIOUS
  <2>2. s[n + 1] = Slash
    BY <2>1
  <2>3. ASSUME NEW i \in P PROVE n + 1 <= i
    <3>1. i \in 1..(n + 2 * L) /\ i \notin 1..n
      BY <1>8
    <3>. QED
      BY <3>1
  <2>. QED
    BY <1>8, <2>1, <2>2, <2>3
<1>10. PICK Q : Q = NamesAfter(s)
  OBVIOUS
<1>11. /\ \A i \in Q : \E k \in 1..L : i = n + 2 * k
       /\ \A k \in 1..L : n + 2 * k \in Q
  <2>1. \A i : i \in Q <=> i \in 1..(n + 2 * L) /\ s[i] # Slash /\ \E j \in P : j < i
    BY <1>5, <1>6, <1>10 DEF NamesAfter, Text
  <2>2. ASSUME NEW k \in 1..L PROVE n + 2 * k \in Q
    <3>1. n + 2 * k \in 1..(n + 2 * L) /\ n + 1 < n + 2 * k
      OBVIOUS
    <3>. QED
      BY <1>9, <2>1, <3>1
  <2>3. ASSUME NEW i \in Q PROVE \E k \in 1..L : i = n + 2 * k
    <3>1. i \in 1..(n + 2 * L) /\ s[i] # Slash
      BY <2>1
    <3>2. PICK j \in P : j < i
      BY <2>1
    <3>3. n + 1 <= j /\ j \in Nat
      BY <1>7, <1>9
    <3>4. i \in (n + 1)..Len(s)
      BY <3>1, <3>2, <3>3
    <3>5. PICK k \in 1..L : i = n + 2 * k - 1 \/ i = n + 2 * k
      BY <3>4
    <3>6. i # n + 2 * k - 1
      BY <3>1
    <3>. QED
      BY <3>5, <3>6
  <2>. QED
    BY <2>2, <2>3
<1>12. SelectorOf(s) = node
  <2>1. PICK U : U = Text(s)
    OBVIOUS
  <2>2. \A i : i \in U <=> i \in 1..(n + 2 * L) /\ s[i] # Slash
    BY <1>5, <2>1 DEF Text
  <2>3. 1 \in U /\ U \in SUBSET Nat /\ IsFiniteSet(U) /\ \A i \in U : 1 <= i
    <3>1. 1 \in U /\ \A i \in U : i \in Nat /\ 1 <= i
      BY <2>2
    <3>2. U \in SUBSET (1..(n + 2 * L)) /\ n + 2 * L \in Nat
      BY <2>2
    <3>3. IsFiniteSet(U)
      BY <3>2, UpToN, FS_Subset
    <3>. QED
      BY <3>1, <3>3
  <2>4. First(s) = 1
    BY <2>1, <2>3, NthFirst DEF First
  <2>5. PICK E : E = {i \in P : 1 < i}
    OBVIOUS
  <2>6. E = P
    <3>1. \A i \in P : 1 < i
      <4>. SUFFICES ASSUME NEW i \in P PROVE 1 < i
        OBVIOUS
      <4>1. i \in Nat /\ n + 1 <= i
        BY <1>7, <1>9
      <4>. QED
        BY <4>1
    <3>. QED
      BY <2>5, <3>1
  <2>7. Nth(E, 1) = n + 1
    BY <1>7, <1>9, <2>6, NthFirst
  <2>8. SelectorOf(s) = SubSeq(s, 1, Nth(E, 1) - 1)
    <3>1. U # {} /\ E # {}
      BY <1>9, <2>3, <2>6
    <3>. QED
      BY <1>6, <2>1, <2>4, <2>5, <3>1 DEF SelectorOf
  <2>9. SubSeq(s, 1, n) = node
    <3>1. /\ SubSeq(s, 1, n) \in Seq(T) /\ Len(SubSeq(s, 1, n)) = n
          /\ \A i \in 1..n : SubSeq(s, 1, n)[i] = node[i]
      OBVIOUS
    <3>. QED
      BY <3>1
  <2>10. (n + 1) - 1 = n
    OBVIOUS
  <2>. QED
    BY <2>7, <2>8, <2>9, <2>10
<1>13. \A i \in Q : s[i - 1] = Slash
  <2>. SUFFICES ASSUME NEW i \in Q PROVE s[i - 1] = Slash
    OBVIOUS
  <2>1. PICK k \in 1..L : i = n + 2 * k
    BY <1>11
  <2>2. i - 1 = n + 2 * k - 1
    BY <2>1
  <2>. QED
    BY <2>2
<1>14. Those(s, Q) = all
  <2>1. Cardinality(Q) = L /\ \A k \in 1..L : Nth(Q, k) = n + 2 * k
    <3>1. Q \in SUBSET Nat
      BY <1>10 DEF NamesAfter, Text
    <3>. QED
      BY <1>11, <3>1, NthEven
  <2>2. Those(s, Q) = [k \in 1..L |-> all[k]]
    BY <2>1 DEF Those
  <2>. QED
    BY <2>2
<1>. QED
  BY <1>10, <1>12, <1>13, <1>14
-------------------------------------------------------------------------------
(* The theorems.                                                           *)

\* The variables hold what they are for, and a request that is answered leaves
\* nothing behind.
THEOREM NodesTypeCorrect == Spec => []TypeOK
<1>1. Inv => TypeOK
  BY DEF Inv
<1>. QED
  BY <1>1, InvAlways, PTL

\* What is answered at the first look, of stat.
LEMMA AnalyzeAnswers ==
  ASSUME Inv, Analyze, phase' = "idle", ~ CallFails
  PROVE  /\ phase = "lookup" /\ Node \in DOMAIN RootOf
         /\ \/ /\ reply' = "closed"
               /\ \/ \E i \in DOMAIN Named : Named[i] \in {Dot, DotDot}
                  \/ Errno(Asked) \notin {"none", "ENOENT", "ENOTDIR"}
            \/ /\ reply' = "lookup failure"
               /\ Missing(Errno(Asked)) \/ (Named = <<>> /\ ~ IsDir(Where(Root)))
            \/ /\ reply' = "node failure"
               /\ Errno(Asked) = "none" /\ TypeAt(Where(Asked)) = "error"
<1>1. phase = "lookup" /\ ~ IsUrl(request) /\ Node \in DOMAIN RootOf /\ request \in Requests
  BY DEF Analyze, Inv, TypeOK
<1>2. /\ AsPath(request) = Named
      /\ BadRequest(request) <=> \E i \in DOMAIN Named : Named[i] \in {Dot, DotDot}
  BY <1>1, AskedIs
<1>3. CASE BadRequest(request) /\ Thrown("BadRequest")
  BY <1>1, <1>2, <1>3 DEF Thrown, Replied
<1>4. CASE ~ BadRequest(request) /\ Analyzed(Named)
  <2>1. Errno(Root \o Named) = Errno(Asked) /\ Where(Root \o Named) = Where(Asked)
    BY DEF Asked
  <2>2. \/ Missing(StatErrno(Named)) /\ reply' = "lookup failure"
        \/ StatErrno(Named) # "none" /\ ~ Missing(StatErrno(Named)) /\ reply' = "closed"
        \/ StatErrno(Named) = "none" /\ TypeAt(Where(Asked)) = "error" /\ reply' = "node failure"
    BY <1>4, <2>1 DEF Analyzed, Thrown, Replied
  <2>. QED
    BY <1>1, <2>1, <2>2 DEF StatErrno, Missing
<1>. QED
  BY <1>2, <1>3, <1>4 DEF Analyze

\* The path a request is about, where it was looked at.
LEMMA AskedPath ==
  ASSUME Inv, phase \in {"opening", "listing", "sending"}
  PROVE  data.path = Asked /\ Asked \in Seq(Symbols)
<1>1. data.path = Asked /\ ~ IsUrl(request) /\ Node \in DOMAIN RootOf /\ request \in Requests
  BY DEF Inv, Analysed, TypeOK
<1>. QED
  BY <1>1, AskedIs

\* A listing that is complete has all there is.
LEMMA ListingIsRight ==
  ASSUME Inv, phase = "listing", ~ failed, entries = {}
  PROVE  ListingMatches
<1>1. Accounted /\ Shown /\ There \subseteq Names
  BY DEF Inv, There, Children
<1>2. \A x \in There : ItemFor(x) \in items
  BY <1>1 DEF Accounted
<1>3. ASSUME NEW item \in items \ {ErrorItem}, Seqs!Last(item.path) \notin changed
      PROVE  \E x \in There : item = ItemFor(x)
  <2>1. PICK x \in Names \ Dotted : item.path = Append(data.path, x)
    BY <1>1, <1>3 DEF Shown
  <2>2. Seqs!Last(item.path) = x
    <3>1. PICK path \in Seq(Symbols) : path = data.path
      BY AskedPath
    <3>2. x \in Symbols
      BY SymbolsType
    <3>3. Seqs!Last(Append(path, x)) = x
      BY <3>2, LastOfPath
    <3>. QED
      BY <2>1, <3>1, <3>3
  <2>. QED
    BY <1>1, <1>3, <2>1, <2>2 DEF Accounted
<1>4. ErrorItem \in items /\ changed = {} => \E x \in There : ItemFor(x) = ErrorItem
  BY <1>1 DEF Accounted
<1>5. There = Children(dir) \ (Dotted \cup changed)
  BY DEF There
<1>. QED
  BY <1>2, <1>3, <1>4, <1>5 DEF ListingMatches

\* The answers of list_dir, send_file and analyze_request are what is on the
\* disk, whatever the disk, the request and the edits of others.
THEOREM NodesAnswerMatches == Spec => AnswerMatches
<1>1. ASSUME Inv, [Next]_vars, ~ failed', ~ IsUrl(request), phase # "idle", phase' = "idle"
      PROVE  RightAnswer
  <2>1. Handle
    BY <1>1 DEF Next, Ask, Edit, vars
  <2>2. ~ CallFails /\ failed \in BOOLEAN
    BY <1>1 DEF CallFails, Inv, TypeOK
  <2>3. CASE LookupFails
    BY <2>3 DEF LookupFails, Thrown, Replied, RightAnswer, Answered
  <2>4. CASE Analyze
    BY <1>1, <2>2, <2>4, AnalyzeAnswers DEF RightAnswer, Answered
  <2>5. CASE OpenDir
    <3>1. phase = "opening" /\ data.path = Asked
      BY <1>1, <2>5, AskedPath DEF OpenDir
    <3>2. \/ OpenErrno = "ENOENT" /\ reply' = "lookup failure"
          \/ reply' = "closed"
      BY <1>1, <2>2, <2>5 DEF OpenDir, Thrown, Replied
    <3>3. OpenErrno = "ENOENT" => Errno(Asked) = "ENOENT"
      BY <3>1 DEF OpenErrno
    <3>. QED
      BY <3>2, <3>3 DEF RightAnswer, Answered, Missing
  <2>6. CASE \E name \in entries : SkipEntry(name) \/ ListEntry(name)
    BY <1>1, <2>6 DEF SkipEntry, ListEntry
  <2>7. CASE ListEnds
    <3>1. phase = "listing" /\ entries = {} /\ reply' = "menu" /\ ~ failed
      BY <1>1, <2>2, <2>7 DEF ListEnds, Replied
    <3>2. ListingMatches
      BY <1>1, <3>1, ListingIsRight
    <3>3. ~ moved => dir = Where(Asked) /\ KindAt(dir) = "dir"
      <4>1. data.path = Asked
        BY <1>1, <3>1, AskedPath
      <4>. QED
        BY <1>1, <3>1, <4>1 DEF Inv, Seen
    <3>. QED
      BY <3>1, <3>2, <3>3 DEF RightAnswer, Answered
  <2>8. CASE SendFile
    <3>1. phase = "sending" /\ data.path = Asked
      BY <1>1, <2>8, AskedPath DEF SendFile
    <3>2. \/ reply' = "file" /\ KindAt(Where(Asked)) \notin {"secret", "locked"}
          \/ reply' = "closed"
      BY <1>1, <2>2, <2>8, <3>1 DEF SendFile, Thrown, Replied
    <3>3. ~ moved => KindAt(Where(Asked)) \in {"file", "secret"}
      BY <1>1, <3>1 DEF Inv, Seen
    <3>. QED
      BY <3>2, <3>3 DEF RightAnswer, Answered
  <2>9. CASE Redirect
    BY <1>1, <2>9 DEF Redirect, LookupUrl, Substitute, PageEnds, Replied, RightAnswer, Answered
  <2>. QED
    BY <2>1, <2>3, <2>4, <2>5, <2>6, <2>7, <2>8, <2>9 DEF Handle, ListDir
<1>2. Inv /\ [Next]_vars => [~ failed' /\ ~ IsUrl(request) => RightAnswer]_vars
  <2>1. ~ (phase # "idle" /\ phase' = "idle") => RightAnswer
    BY DEF RightAnswer, Answered
  <2>. QED
    BY <1>1, <2>1
<1>. QED
  BY <1>2, InvAlways, PTL DEF Spec, AnswerMatches

\* got_line closes a session without an answer for what may not be asked or
\* read, for a call that fails, and where the path changed under its hands, only.
THEOREM NodesSilentOnlyOnRace == Spec => SilentOnlyOnRace
<1>1. ASSUME Inv, [Next]_vars, ~ failed', Silent
      PROVE  Excused
  <2>1. /\ phase # "idle" /\ phase' \in {"idle", "stuck"}
        /\ phase' = "idle" => reply' = "closed"
        /\ phase' = "stuck" => phase = "sending"
    BY <1>1 DEF Silent, Answered
  <2>2. Handle
    BY <1>1, <2>1 DEF Next, Ask, Edit, vars
  <2>3. ~ CallFails
    BY <1>1 DEF CallFails
  <2>4. CASE LookupFails
    BY <2>1, <2>4 DEF LookupFails, Thrown, Replied
  <2>5. CASE Analyze
    <3>1. phase' = "idle"
      BY <2>1, <2>5 DEF Analyze
    <3>2. /\ phase = "lookup"
          /\ \/ \E i \in DOMAIN Named : Named[i] \in {Dot, DotDot}
             \/ Errno(Asked) \notin {"none", "ENOENT", "ENOTDIR"}
      BY <1>1, <2>1, <2>3, <2>5, <3>1, AnalyzeAnswers
    <3>3. Asked \in Seq(Symbols)
      BY <1>1, <2>5, AskedIs DEF Analyze, Inv, TypeOK
    <3>. QED
      BY <3>2, <3>3, WhatErrno DEF Excused
  <2>6. CASE OpenDir
    <3>1. phase = "opening" /\ data.path = Asked
      BY <1>1, <2>6, AskedPath DEF OpenDir
    <3>2. OpenErrno \notin {"none", "ENOENT"}
      BY <2>1, <2>3, <2>6 DEF OpenDir, Thrown, Replied
    <3>3. CASE moved
      <4>1. Errno(Asked) # "ENOENT"
        BY <3>1, <3>2 DEF OpenErrno
      <4>. QED
        BY <3>1, <3>3, <4>1 DEF Excused
    <3>4. CASE ~ moved
      <4>1. Errno(Asked) = "none" /\ IsDir(Where(Asked))
        BY <1>1, <3>1, <3>4 DEF Inv, Seen
      <4>2. KindAt(Where(Asked)) = "locked"
        BY <3>1, <3>2, <4>1 DEF OpenErrno
      <4>. QED
        BY <3>1, <4>2 DEF Excused
    <3>. QED
      BY <3>3, <3>4
  <2>7. CASE \E name \in entries : SkipEntry(name) \/ ListEntry(name)
    BY <2>1, <2>7 DEF SkipEntry, ListEntry
  <2>8. CASE ListEnds
    BY <2>1, <2>3, <2>8 DEF ListEnds, Replied
  <2>9. CASE SendFile
    <3>1. phase = "sending" /\ data.path = Asked
      BY <1>1, <2>9, AskedPath DEF SendFile
    <3>2. \/ ~ (/\ Errno(Asked) = "none"
               /\ KindAt(Where(Asked)) \notin {"secret", "locked"})
          \/ KindAt(Where(Asked)) = "special"
      BY <2>1, <2>3, <2>9, <3>1 DEF SendFile, Thrown, Replied
    <3>3. CASE moved
      BY <3>1, <3>3 DEF Excused
    <3>4. CASE ~ moved
      <4>1. Errno(Asked) = "none" /\ KindAt(Where(Asked)) \in {"file", "secret"}
        BY <1>1, <3>1, <3>4 DEF Inv, Seen
      <4>2. KindAt(Where(Asked)) = "secret"
        BY <3>2, <4>1
      <4>. QED
        BY <3>1, <4>2 DEF Excused
    <3>. QED
      BY <3>3, <3>4
  <2>10. CASE Redirect
    BY <2>1, <2>10 DEF Redirect, LookupUrl, Substitute, PageEnds, Replied
  <2>. QED
    BY <2>2, <2>4, <2>5, <2>6, <2>7, <2>8, <2>9, <2>10 DEF Handle, ListDir
<1>2. Inv /\ [Next]_vars => [Silent => Excused]_vars
  BY <1>1 DEF Excused
<1>. QED
  BY <1>2, InvAlways, PTL DEF Spec, SilentOnlyOnRace

\* The selector list_dir gives an item leads lookup and as_path() back to the
\* item, for directories of any depth and names of any kind.
THEOREM NodesShownComeBack == Spec => []ShownComeBack
<1>1. Inv => ShownComeBack
  <2>. SUFFICES ASSUME Inv, phase = "listing", NEW item \in items \ {ErrorItem}
                PROVE  /\ SelectorOf(item.selector) = Node
                       /\ ~ BadRequest(item.selector)
                       /\ Root \o AsPath(item.selector) = item.path
    BY DEF ShownComeBack
  <2>1. /\ request \in Requests /\ ~ IsUrl(request) /\ Node \in DOMAIN RootOf
        /\ data = [path |-> Asked, selector |-> SelectorPath(Named)]
        /\ \A i \in NamesAfter(request) : request[i] \notin {Dot, DotDot}
    BY DEF Inv, TypeOK, Analysed
  <2>2. PICK x \in Names : item.path = Append(Asked, x) /\ item.selector = Append(SelectorPath(Named), x)
    <3>1. data.path = Asked /\ data.selector = SelectorPath(Named)
      BY <2>1
    <3>. QED
      BY <3>1 DEF Inv, Shown
  <2>3. /\ Root \in Seq(Symbols) /\ Named \in Seq(Symbols) /\ Asked = Root \o Named
        /\ \A i \in DOMAIN Named : Named[i] # Slash
        /\ \A i \in DOMAIN Named : \E k \in NamesAfter(request) : Named[i] = request[k]
    BY <2>1, AskedIs DEF Asked
  <2>4. x \in Symbols /\ x \notin {Slash, Dot, DotDot} /\ Slash \in Symbols
    BY SymbolsType, PlainNames
  <2>5. Node \in Seq(Symbols) /\ Node # <<>> /\ Occurrences(Node, Slash) = {}
    BY <2>1, SymbolsType, RootsAssumption
  <2>6. PICK U, node, path, s :
          /\ U = Symbols /\ node = Node /\ path = Named /\ s = Listed(node, path, x)
    OBVIOUS
  <2>7. item.selector = s
    BY <2>2, <2>6 DEF SelectorPath, Listed
  <2>8. PICK all : all = Append(path, x)
    OBVIOUS
  <2>9. /\ s \in Seq(U) /\ SelectorOf(s) = node
        /\ \A i \in NamesAfter(s) : s[i - 1] = Slash
        /\ Those(s, NamesAfter(s)) = all
    <3>1. /\ Slash \in U /\ node \in Seq(U) /\ node # <<>> /\ Occurrences(node, Slash) = {}
          /\ path \in Seq(U) /\ \A i \in DOMAIN path : path[i] # Slash
          /\ x \in U /\ x # Slash
      BY <2>3, <2>4, <2>5, <2>6
    <3>2. s = Listed(node, path, x)
      BY <2>6
    <3>3. s \in Seq(U) /\ all \in Seq(U) /\ all # <<>> /\ Shape(s, node, all)
      BY <2>8, <3>1, <3>2, ShownSelector
    <3>. QED
      BY <3>1, <3>3, ShapeIsRead
  <2>10. /\ AsPath(s) = all
         /\ BadRequest(s) <=> \E i \in NamesAfter(s) : s[i] \in {Dot, DotDot}
    BY <2>9, AsPathNames
  <2>11. ~ BadRequest(s)
    <3>1. PICK Q : Q = NamesAfter(s)
      OBVIOUS
    <3>2. Q \in SUBSET DOMAIN s
      BY <3>1 DEF NamesAfter, Text
    <3>3. /\ Q \in SUBSET Nat /\ IsFiniteSet(Q)
          /\ Len(all) = Cardinality(Q)
          /\ \A k \in 1..Cardinality(Q) : all[k] = s[Nth(Q, k)]
      <4>1. /\ Len(Those(s, Q)) = Cardinality(Q)
            /\ Q \in SUBSET Nat /\ IsFiniteSet(Q)
            /\ \A k \in 1..Cardinality(Q) : Those(s, Q)[k] = s[Nth(Q, k)]
        BY <2>9, <3>2, ThoseType
      <4>2. Those(s, Q) = all
        BY <2>9, <3>1
      <4>. QED
        BY <4>1, <4>2
    <3>4. ASSUME NEW i \in Q, s[i] \in {Dot, DotDot} PROVE FALSE
      <4>1. PICK k \in 1..Cardinality(Q) : i = Nth(Q, k)
        BY <3>3, NthOrder
      <4>2. /\ path \in Seq(U) /\ Len(path) \in Nat
            /\ \A l \in 1..Len(path) : all[l] = path[l]
            /\ all[Len(path) + 1] = x /\ Len(all) = Len(path) + 1
        <5>1. path \in Seq(U) /\ x \in U
          BY <2>3, <2>4, <2>6
        <5>. QED
          BY <2>8, <5>1, Longer
      <4>3. k \in 1..(Len(path) + 1) /\ all[k] \in {Dot, DotDot}
        BY <3>3, <3>4, <4>1, <4>2
      <4>4. CASE k = Len(path) + 1
        BY <2>4, <4>2, <4>3, <4>4
      <4>5. CASE k # Len(path) + 1
        <5>1. k \in DOMAIN path /\ path[k] \in {Dot, DotDot}
          BY <4>2, <4>3, <4>5
        <5>. QED
          BY <2>1, <2>3, <2>6, <5>1
      <4>. QED
        BY <4>4, <4>5
    <3>. QED
      BY <2>10, <3>1, <3>4
  <2>12. Root \o Append(Named, x) = Append(Root \o Named, x)
    BY <2>3, <2>4, JointLonger
  <2>. QED
    BY <2>2, <2>3, <2>6, <2>7, <2>8, <2>9, <2>10, <2>11, <2>12
<1>. QED
  BY <1>1, InvAlways, PTL


\* The names of a request that is not refused lead down.
LEMMA NamedPlain ==
  ASSUME Inv, phase \in {"opening", "listing", "sending"}
  PROVE  /\ Root \in Seq(Symbols) /\ Named \in Seq(Symbols) /\ IsPlain(Named)
         /\ data.path = Root \o Named
<1>1. /\ ~ IsUrl(request) /\ Node \in DOMAIN RootOf /\ request \in Requests
      /\ \A i \in NamesAfter(request) : request[i] \notin {Dot, DotDot}
  BY DEF Inv, Analysed, TypeOK
<1>2. /\ Root \in Seq(Symbols) /\ Named \in Seq(Symbols)
      /\ \A i \in DOMAIN Named : \E j \in NamesAfter(request) : Named[i] = request[j]
      /\ \A i \in DOMAIN Named : Named[i] # Slash
  BY <1>1, AskedIs
<1>. QED
  BY <1>1, <1>2, AskedPath DEF IsPlain, Asked

\* What is looked at is in the directory that is served, for every path to it and
\* every request, if no link in the directory leads elsewhere: the walk along the
\* path of the request is the walk to the directory first, and every name after
\* it leads down from there.
THEOREM NodesStayBelow == Spec => []StaysBelow
<1>1. Inv => StaysBelow
  <2>. SUFFICES ASSUME Inv, phase \in {"opening", "listing", "sending"},
                       \A p \in Places : KindAt(p) = "link" => ~ Seqs!IsPrefix(Where(Root), p),
                       NEW path \in LookedAt
                PROVE  Seqs!IsPrefix(Where(Root), Where(path))
    BY DEF StaysBelow
  <2>1. /\ Root \in Seq(Symbols) /\ Named \in Seq(Symbols) /\ IsPlain(Named)
        /\ data.path = Root \o Named
    BY NamedPlain
  <2>2. CASE path = data.path
    BY <2>1, <2>2, LeadsBelow
  <2>3. ASSUME NEW x \in entries \ Dotted, path = Append(data.path, x)
        PROVE  Seqs!IsPrefix(Where(Root), Where(path))
    <3>1. x \in Symbols /\ x \notin {Slash, Dot, DotDot}
      <4>1. x \in Names
        BY DottedAssumption DEF Inv, TypeOK
      <4>. QED
        BY <4>1, SymbolsType, PlainNames
    <3>2. path = Root \o Append(Named, x) /\ Append(Named, x) \in Seq(Symbols)
      <4>1. Root \o Append(Named, x) = Append(Root \o Named, x)
        BY <2>1, <3>1, JointLonger
      <4>. QED
        BY <2>1, <2>3, <3>1, <4>1
    <3>3. IsPlain(Append(Named, x))
      <4>1. PICK named \in Seq(Symbols) : named = Named
        BY <2>1
      <4>2. ASSUME NEW i \in DOMAIN Append(named, x)
            PROVE  Append(named, x)[i] \notin {Slash, Dot, DotDot}
        <5>1. CASE i = Len(named) + 1
          BY <3>1, <4>1, <5>1
        <5>2. CASE i # Len(named) + 1
          <6>1. i \in DOMAIN named /\ Append(named, x)[i] = named[i]
            BY <3>1, <4>1, <5>2
          <6>. QED
            BY <2>1, <4>1, <6>1 DEF IsPlain
        <5>. QED
          BY <5>1, <5>2
      <4>. QED
        BY <4>1, <4>2 DEF IsPlain
    <3>. QED
      BY <2>1, <3>2, <3>3, LeadsBelow
  <2>. QED
    BY <2>2, <2>3 DEF LookedAt
<1>. QED
  BY <1>1, InvAlways, PTL

-------------------------------------------------------------------------------
(* How far a request is from its answer.                                   *)

\* The most a directory can hold.
MostEntries == Cardinality(Names \cup {Dot, DotDot})

\* The steps the handler can still take, at most.
WorkLeft ==
  CASE phase = "idle" -> 0
    [] phase = "page" -> left + 1
    [] phase = "stuck" -> 1
    [] phase = "sending" -> 2
    [] phase = "listing" -> Cardinality(entries) + 1
    [] phase = "opening" -> MostEntries + 2
    [] phase = "lookup" -> MostEntries + Keywords + 3

\* The text of a page for a URL with the keyword in it, which each turn puts back.
PutBack == phase = "page" /\ Carried > 0

\* What is left to do is a number, and none is when the request is answered.
LEMMA WorkType ==
  ASSUME IsFiniteSet(Names), TypeOK
  PROVE  /\ MostEntries \in Nat /\ IsFiniteSet(entries)
         /\ Cardinality(entries) \in Nat /\ Cardinality(entries) <= MostEntries
         /\ WorkLeft \in Nat /\ (WorkLeft = 0 <=> phase = "idle")
<1>1. PICK most : most = Names \cup {Dot, DotDot}
  OBVIOUS
<1>2. IsFiniteSet(most) /\ Cardinality(most) \in Nat
  <2>1. IsFiniteSet(Names \cup {Dot})
    BY FS_AddElement
  <2>2. IsFiniteSet((Names \cup {Dot}) \cup {DotDot})
    BY <2>1, FS_AddElement
  <2>3. most = (Names \cup {Dot}) \cup {DotDot}
    BY <1>1
  <2>. QED
    BY <2>2, <2>3, FS_CardinalityType
<1>3. entries \in SUBSET most
  BY <1>1 DEF TypeOK
<1>4. IsFiniteSet(entries) /\ Cardinality(entries) <= Cardinality(most)
  BY <1>2, <1>3, FS_Subset
<1>5. Cardinality(entries) \in Nat
  BY <1>4, FS_CardinalityType
<1>6. MostEntries = Cardinality(most)
  BY <1>1 DEF MostEntries
<1>7. left \in Nat /\ Keywords \in Nat
  BY BoundsAssumption DEF TypeOK
<1>8. WorkLeft \in Nat /\ (WorkLeft = 0 <=> phase = "idle")
  BY <1>2, <1>5, <1>6, <1>7 DEF TypeOK, WorkLeft
<1>. QED
  BY <1>2, <1>4, <1>5, <1>6, <1>8

\* The handler gets nearer to the answer with every step it takes.
LEMMA HandleWorks ==
  ASSUME IsFiniteSet(Names), TypeOK, TypeOK', Handle, ~ PutBack
  PROVE  WorkLeft' < WorkLeft
<1>1. /\ MostEntries \in Nat /\ IsFiniteSet(entries)
      /\ Cardinality(entries) \in Nat /\ Cardinality(entries) <= MostEntries
      /\ WorkLeft \in Nat /\ (WorkLeft = 0 <=> phase = "idle")
  BY WorkType
<1>2. Cardinality(entries') \in Nat /\ Cardinality(entries') <= MostEntries
  <2>1. PICK most : most = Names \cup {Dot, DotDot}
    OBVIOUS
  <2>2. IsFiniteSet(most)
    <3>1. IsFiniteSet((Names \cup {Dot}) \cup {DotDot})
      BY FS_AddElement
    <3>. QED
      BY <2>1, <3>1
  <2>3. entries' \in SUBSET most
    BY <2>1 DEF TypeOK
  <2>. QED
    BY <2>1, <2>2, <2>3, FS_Subset, FS_CardinalityType DEF MostEntries
<1>3. left \in Nat /\ left' \in Nat /\ Keywords \in Nat
  BY BoundsAssumption DEF TypeOK
<1>4. phase' = "idle" /\ phase # "idle" => WorkLeft' < WorkLeft
  <2>1. phase' = "idle" => WorkLeft' = 0
    BY DEF WorkLeft
  <2>. QED
    BY <1>1, <2>1
<1>5. CASE LookupFails
  BY <1>4, <1>5 DEF LookupFails, Thrown, Replied
<1>6. CASE Analyze
  <2>1. phase = "lookup" /\ phase' \in {"idle", "opening", "sending"}
    BY <1>6 DEF Analyze, Analyzed, CallFails, Thrown, Replied
  <2>2. CASE phase' = "idle"
    BY <1>4, <2>1, <2>2
  <2>3. CASE phase' \in {"opening", "sending"}
    <3>1. WorkLeft = MostEntries + Keywords + 3
      BY <2>1 DEF WorkLeft
    <3>2. WorkLeft' = MostEntries + 2 \/ WorkLeft' = 2
      BY <2>3 DEF WorkLeft, MostEntries, Names
    <3>3. Keywords >= 1
      BY BoundsAssumption
    <3>. QED
      BY <1>1, <1>3, <3>1, <3>2, <3>3
  <2>. QED
    BY <2>1, <2>2, <2>3
<1>7. CASE OpenDir
  <2>1. phase = "opening" /\ phase' \in {"idle", "listing"}
    BY <1>7 DEF OpenDir, CallFails, Thrown, Replied
  <2>2. CASE phase' = "idle"
    BY <1>4, <2>1, <2>2
  <2>3. CASE phase' = "listing"
    <3>1. WorkLeft = MostEntries + 2 /\ WorkLeft' = Cardinality(entries') + 1
      BY <2>1, <2>3 DEF WorkLeft
    <3>. QED
      BY <1>1, <1>2, <3>1
  <2>. QED
    BY <2>1, <2>2, <2>3
<1>8. CASE \E name \in entries : SkipEntry(name) \/ ListEntry(name)
  <2>1. PICK name \in entries : SkipEntry(name) \/ ListEntry(name)
    BY <1>8
  <2>2. phase = "listing" /\ phase' = "listing" /\ entries' = entries \ {name}
    BY <2>1 DEF SkipEntry, ListEntry
  <2>3. Cardinality(entries') = Cardinality(entries) - 1
    BY <1>1, <2>1, <2>2, FS_RemoveElement
  <2>4. WorkLeft = Cardinality(entries) + 1 /\ WorkLeft' = Cardinality(entries') + 1
    BY <2>2 DEF WorkLeft
  <2>. QED
    BY <1>1, <2>3, <2>4
<1>9. CASE ListEnds
  BY <1>4, <1>9 DEF ListEnds, CallFails, Thrown, Replied
<1>11. CASE SendFile
  <2>1. phase = "sending" /\ phase' \in {"idle", "stuck"}
    BY <1>11 DEF SendFile, CallFails, Thrown, Replied
  <2>2. WorkLeft = 2 /\ WorkLeft' \in {0, 1}
    BY <2>1 DEF WorkLeft
  <2>. QED
    BY <2>2
<1>12. CASE LookupUrl
  <2>1. phase = "lookup" /\ phase' = "page" /\ left' = Keywords
    BY <1>12 DEF LookupUrl
  <2>2. WorkLeft = MostEntries + Keywords + 3 /\ WorkLeft' = Keywords + 1
    BY <2>1 DEF WorkLeft
  <2>. QED
    BY <1>1, <1>3, <2>2
<1>13. CASE Substitute
  <2>1. /\ phase = "page" /\ phase' = "page" /\ left > 0
        /\ left' = IF Replaced(left) > MaxLeft THEN MaxLeft ELSE Replaced(left)
    BY <1>13 DEF Substitute
  <2>2. Carried \in Nat
    <3>1. request \in Seq(Symbols)
      BY <2>1, SymbolsType DEF TypeOK
    <3>. QED
      BY <3>1, OccurrencesType DEF Carried
  <2>3. Replaced(left) = left - 1
    BY <1>3, <2>1, <2>2 DEF PutBack, Replaced
  <2>4. left' < left
    BY <1>3, <2>1, <2>3, BoundsAssumption DEF TypeOK
  <2>5. phase = "page" /\ phase' = "page"
    BY <2>1
  <2>. QED
    BY <1>3, <2>4, <2>5 DEF WorkLeft
<1>14. CASE PageEnds
  BY <1>4, <1>14 DEF PageEnds, Replied
<1>. QED
  BY <1>5, <1>6, <1>7, <1>8, <1>9, <1>11, <1>12, <1>13, <1>14
     DEF Handle, ListDir, Redirect

\* A request comes to its end within a number of steps the disk gives, one for
\* each entry of a directory and each keyword of a page, and an edit puts it off
\* only by entries that come to the directory that is listed: as long as the URL
\* has no keyword that the text of the page gets back (node-redirect.cc:57).
THEOREM NodesRequestEnds ==
  ASSUME IsFiniteSet(Names)
  PROVE  Spec => /\ [](WorkLeft \in Nat /\ (WorkLeft = 0 <=> phase = "idle"))
                 /\ [][/\ Handle /\ ~ PutBack => WorkLeft' < WorkLeft
                       /\ (\E p \in Places : Edit(p)) /\ WorkLeft' > WorkLeft => Late]_vars
<1>1. Inv => WorkLeft \in Nat /\ (WorkLeft = 0 <=> phase = "idle")
  BY WorkType DEF Inv
<1>2. Inv /\ Inv' /\ [Next]_vars
        => [/\ Handle /\ ~ PutBack => WorkLeft' < WorkLeft
            /\ (\E p \in Places : Edit(p)) /\ WorkLeft' > WorkLeft => Late]_vars
  <2>1. ASSUME Inv, Inv', Handle, ~ PutBack PROVE WorkLeft' < WorkLeft
    BY <2>1, HandleWorks DEF Inv
  <2>2. ASSUME Inv, NEW p \in Places, Edit(p), WorkLeft' > WorkLeft PROVE Late
    <3>1. phase' = phase /\ left' = left
      BY <2>2 DEF Edit
    <3>2. CASE phase # "listing"
      <4>1. WorkLeft' = WorkLeft
        BY <3>1, <3>2 DEF WorkLeft, MostEntries, Names
      <4>2. WorkLeft \in Nat
        BY <2>2, WorkType DEF Inv
      <4>. QED
        BY <2>2, <4>1, <4>2
    <3>3. CASE phase = "listing" /\ entries' \subseteq entries
      <4>1. WorkLeft = Cardinality(entries) + 1 /\ WorkLeft' = Cardinality(entries') + 1
        BY <3>1, <3>3 DEF WorkLeft
      <4>2. IsFiniteSet(entries) /\ Cardinality(entries) \in Nat
        BY <2>2, WorkType DEF Inv
      <4>3. Cardinality(entries') \in Nat /\ Cardinality(entries') <= Cardinality(entries)
        BY <3>3, <4>2, FS_Subset, FS_CardinalityType
      <4>. QED
        BY <2>2, <4>1, <4>2, <4>3
    <3>. QED
      BY <3>1, <3>2, <3>3 DEF Late
  <2>. QED
    BY <2>1, <2>2
<1>. QED
  BY <1>1, <1>2, InvAlways, PTL DEF Spec
===============================================================================
